---------------------------- MODULE OperatorService ----------------------------
(***************************************************************************)
(* python/ocrowley_operator: Digsbody takes tasks in three modes.  A draft *)
(* is only prepared; a review is classified by the pattern lists of        *)
(* python/ocrowley_policy/task_policy.py and, when it is neither safe nor  *)
(* blocked, waits for a person; the answer to it is given once.  Whatever  *)
(* is decided is added to the audit trail of task_log.py.                  *)
(*                                                                         *)
(* A description is abstracted to the pattern lists that it, or its        *)
(* target, matches; texts, users, impacts and times are left out, and so   *)
(* is Iris, whose failures the logger swallows.                            *)
(***************************************************************************)
EXTENDS Naturals, Sequences

CONSTANT TaskIds   \* what uuid4 returns: never the same twice

PatternLists == {"target", "blocked", "review", "safe"}

VARIABLES issued,      \* ids that process_task has used
          trail,       \* TaskLogger.local_log
          classified,  \* TaskClassifier.task_history, levels only
          pending,     \* keys of pending_approvals
          executable,  \* execute_enabled
          told         \* task -> status and approval status last answered

serviceVars == <<issued, trail, classified, pending, executable, told>>

\* classify: the first list that matches decides, and unknown tasks are reviewed.
Classify(matched) ==
  IF matched \cap {"target", "blocked"} # {} THEN "BLOCKED"
  ELSE IF "safe" \in matched /\ "review" \notin matched THEN "SAFE" ELSE "REVIEW_REQUIRED"

Entry(t, mode, classification, status) ==
  [task |-> t, mode |-> mode, classification |-> classification, status |-> status]
Classification(t, level)  == Entry(t, "classify", level, "classified")
ApprovalRequest(t, level) == Entry(t, "approval_request", level, "pending_approval")
ApprovalResponse(t, verdict) == Entry(t, "approval_response", "N/A", verdict)
Execution(t)              == Entry(t, "execute", "N/A", "mock_execution")

Answer(status, approval) == [status |-> status, approval |-> approval]
Silent == Answer("none", "none")
Tell(t, status, approval) == told' = [told EXCEPT ![t] = Answer(status, approval)]

ServiceInit ==
  /\ issued = {} /\ trail = <<>> /\ classified = <<>> /\ pending = {} /\ executable = FALSE
  /\ told = [t \in TaskIds |-> Silent]

-------------------------------------------------------------------------------
\* process_task: every request gets an id of its own.
FreshId(t) == t \notin issued /\ issued' = issued \cup {t}

DraftMode(t) ==
  /\ FreshId(t)
  /\ trail' = Append(trail, Classification(t, "SAFE"))
  /\ Tell(t, "success", "none")
  /\ UNCHANGED <<classified, pending, executable>>

\* What a review of each level leads to.
Classed(t, level) ==
  /\ FreshId(t)
  /\ classified' = Append(classified, level)
  /\ UNCHANGED executable

ReviewSafe(t) ==
  /\ Classed(t, "SAFE")
  /\ trail' = Append(trail, Classification(t, "SAFE"))
  /\ Tell(t, "success", "none")
  /\ UNCHANGED pending

ReviewBlocked(t) ==
  /\ Classed(t, "BLOCKED")
  /\ trail' = Append(trail, Classification(t, "BLOCKED"))
  /\ Tell(t, "blocked", "none")
  /\ UNCHANGED pending

ReviewRequired(t) ==
  /\ Classed(t, "REVIEW_REQUIRED")
  /\ trail' = Append(Append(trail, Classification(t, "REVIEW_REQUIRED")),
                     ApprovalRequest(t, "REVIEW_REQUIRED"))
  /\ pending' = pending \cup {t}
  /\ Tell(t, "review_required", "pending")

ReviewMode(t, matched) ==
  \/ Classify(matched) = "SAFE" /\ ReviewSafe(t)
  \/ Classify(matched) = "REVIEW_REQUIRED" /\ ReviewRequired(t)
  \/ Classify(matched) = "BLOCKED" /\ ReviewBlocked(t)

\* execute_mode asks for a pending approval of the id that process_task has just made.
MayExecute(t) == executable /\ t \in pending

ExecuteMode(t) ==
  /\ FreshId(t)
  /\ trail' = IF MayExecute(t) THEN Append(trail, Execution(t)) ELSE trail
  /\ IF MayExecute(t) THEN Tell(t, "success", "approved") ELSE Tell(t, "error", "none")
  /\ UNCHANGED <<classified, pending, executable>>

\* What is left of pending_approvals.  (Mutant: a denied task may be asked about again.)
LeftIfDenied(t, approved) == IF approved THEN pending \ {t} ELSE pending

Left(t, approved) == pending \ {t}

\* approve_task; of a task that is not pending it changes nothing.
ApproveTask(t, approved) ==
  LET verdict == IF approved THEN "approved" ELSE "denied" IN
  /\ t \in pending
  /\ trail' = Append(trail, ApprovalResponse(t, verdict))
  /\ pending' = Left(t, approved)
  /\ Tell(t, IF approved THEN "success" ELSE "blocked", verdict)
  /\ UNCHANGED <<issued, classified, executable>>

\* The host sets execute_enabled.
EnableExecute == executable' = ~executable /\ UNCHANGED <<issued, trail, classified, pending, told>>

ServiceNext ==
  \/ EnableExecute
  \/ \E t \in TaskIds :
       \/ DraftMode(t) \/ ExecuteMode(t)
       \/ \E matched \in SUBSET PatternLists : ReviewMode(t, matched)
       \/ \E approved \in BOOLEAN : ApproveTask(t, approved)

ServiceSpec == ServiceInit /\ [][ServiceNext]_serviceVars

-------------------------------------------------------------------------------
ClassificationLevels == {"SAFE", "REVIEW_REQUIRED", "BLOCKED"}
EntryModes == {"classify", "approval_request", "approval_response", "execute"}
TrailEntry ==
  [task : TaskIds, mode : EntryModes, classification : (ClassificationLevels \cup {"N/A"}),
   status : {"classified", "pending_approval", "approved", "denied", "mock_execution"}]
Answers ==
  [status   : {"none", "success", "review_required", "blocked", "error"},
   approval : {"none", "pending", "approved", "denied"}]

\* Types of the service's attributes; only ids that were given out have anything.
ServiceTypeOK ==
  /\ issued \subseteq TaskIds /\ pending \subseteq issued
  /\ trail \in Seq(TrailEntry) /\ classified \in Seq(ClassificationLevels)
  /\ executable \in BOOLEAN
  /\ told \in [TaskIds -> Answers]

Has(s, t, mode) == \E i \in DOMAIN s : s[i].task = t /\ s[i].mode = mode

Asked(s, i) == \E k \in DOMAIN s : /\ k < i /\ s[k].task = s[i].task
                                  /\ s[k].mode = "approval_request"
Risky(s, i) == \E k \in DOMAIN s : /\ k < i /\ s[k].task = s[i].task
                                  /\ s[k].mode = "classify"
                                  /\ s[k].classification = "REVIEW_REQUIRED"

\* A trail holds at most one entry of a kind for a task, a response only after a request,
\* a request only after a classification that asks for it, and never an execution.
Ordered(s) ==
  /\ \A i, j \in DOMAIN s : s[i].task = s[j].task /\ s[i].mode = s[j].mode => i = j
  /\ \A i \in DOMAIN s : /\ s[i].mode # "execute"
                         /\ s[i].mode = "approval_response" => Asked(s, i)
                         /\ s[i].mode = "approval_request" => Risky(s, i)

\* What the user was told last of a task is what the trail says of it.
TellsTrail(t) ==
  /\ told[t].approval = "pending" <=> t \in pending
  /\ \A i \in DOMAIN trail :
       trail[i].task = t /\ trail[i].mode = "approval_response" => told[t].approval = trail[i].status

\* A task is answered by exactly one decision of a person: it is pending from its request
\* to its one response, the trail has them in that order, the user was told what the trail
\* says, and no task is executed, an approved one no more than others (service.py:183-310).
DecidedOnce ==
  /\ Ordered(trail)
  /\ \A t \in TaskIds :
       /\ t \in pending <=> Has(trail, t, "approval_request") /\ ~Has(trail, t, "approval_response")
       /\ TellsTrail(t)
===============================================================================
