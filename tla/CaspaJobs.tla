------------------------------- MODULE CaspaJobs -------------------------------
(***************************************************************************)
(* packages/jobs/src/CaspaJobService.ts: durable jobs, one JSON file each. *)
(* Every method is a sequence of awaited file reads and whole-file writes  *)
(* with no lock between them, so callers (workers and HTTP handlers) of    *)
(* the same data directory interleave between any two of them.  A caller's *)
(* method in progress is its `call` record: what it has read and the       *)
(* document it is about to write.  Most methods read twice, once for their *)
(* own checks and once in patch(), which merges into the fresh document.   *)
(*                                                                         *)
(* Time is relative: a lease is the number of ticks it has left.  The      *)
(* expiry test uses the time sampled when the method began, so a call      *)
(* carries the lease it will write, which ages as it runs; leases and      *)
(* calls more than MaxAge ticks late are not told apart.                   *)
(*                                                                         *)
(* File writes are atomic here; FileStore models what they are made of.    *)
(***************************************************************************)
EXTENDS Integers, FiniteSets

CONSTANTS Callers,      \* workers and HTTP handlers
          Jobs,         \* job ids, numbered in the order of createdAt
          Stages,       \* stage ids
          LeaseTicks,   \* lease duration in ticks
          MaxAge,       \* bound: ticks a claim may be late
          MaxRetries,   \* bound: retries of a job
          None,         \* an undefined optional field
          NoJob         \* a job file that does not exist

ASSUME JobsAssumption == Jobs \subseteq Nat
ASSUME TimeAssumption == LeaseTicks \in Nat \ {0} /\ MaxAge \in Nat
ASSUME RetriesAssumption == MaxRetries \in Nat
ASSUME NoneAssumption == None \notin Callers /\ None \notin Stages /\ None \notin Jobs

VARIABLES file,   \* job id -> the document in its file, or NoJob
          call    \* caller -> the method it is executing

jobVars == <<file, call>>

-------------------------------------------------------------------------------
Status == {"queued", "running", "completed", "failed", "cancelled", "partial"}
Ticks  == (-MaxAge)..LeaseTicks

Job == [status       : Status,
        currentStage : Stages \cup {None},
        stages       : [Stages -> {"queued", "running", "completed"}],
        result       : BOOLEAN,            \* is there a result?
        error        : BOOLEAN,            \* is there an error text?
        retryCount   : 0..MaxRetries,
        leaseOwner   : Callers \cup {None},
        hasLease     : BOOLEAN,            \* is leaseUntil defined?
        leaseUntil   : Ticks]              \* ticks left, 0 when undefined

ASSUME NoJobAssumption == NoJob \notin Job

NewJob == [status |-> "queued", currentStage |-> None,
           stages |-> [s \in Stages |-> "queued"], result |-> FALSE, error |-> FALSE,
           retryCount |-> 0, leaseOwner |-> None, hasLease |-> FALSE, leaseUntil |-> 0]

Exists(j) == file[j] # NoJob

\* A method in progress.
Call == [phase   : {"idle", "list", "recover", "fresh", "write"},
         op      : {"none", "startStage", "completeStage", "complete", "fail",
                    "markFailed", "cancel", "heartbeat", "claim", "recover", "retry"},
         job     : Jobs \cup {None},
         doc     : Job \cup {NoJob},       \* the document to write
         retries : 0..MaxRetries,          \* retryCount for retry's patch
         error   : BOOLEAN,                \* the `error` the claim's patch writes
         lease   : Ticks,                  \* leaseUntil for the patch
         todo    : SUBSET Jobs,            \* files to list, or stuck jobs to patch
         found   : SUBSET [job : Jobs, left : Ticks]]  \* listed jobs that matter, and
                                           \* the lease each had left

IdleCall == [phase |-> "idle", op |-> "none", job |-> None, doc |-> NoJob,
             retries |-> 0, error |-> FALSE, lease |-> 0, todo |-> {}, found |-> {}]

Idle(a) == call[a].phase = "idle"

\* Ages: ticks since a call sampled the time.
Age(a) == LeaseTicks - call[a].lease

\* isLeaseExpired at the time sampled `age` ticks ago.
\* (Mutant: a lease that is present never expires.)
LeaseNeverExpires(d, age) == d.status = "running" /\ ~d.hasLease

LeaseExpired(d, age) ==
  d.status = "running" /\ (~d.hasLease \/ d.leaseUntil + age <= 0)

Claimable(d, age) == d.status = "queued" \/ LeaseExpired(d, age)

-------------------------------------------------------------------------------
(* The documents the methods write.                                        *)

\* (Mutant: the stage's status is stored as the current stage.)
StartedWrongField(d, s) ==
  [d EXCEPT !.status = "running", !.currentStage = d.stages[s],
            !.stages = [@ EXCEPT ![s] = "running"]]

Started(d, s) ==
  [d EXCEPT !.status = "running", !.currentStage = s, !.stages = [@ EXCEPT ![s] = "running"]]

StageDone(d, s) == [d EXCEPT !.stages = [@ EXCEPT ![s] = "completed"]]

NoLease(d) == [d EXCEPT !.leaseOwner = None, !.hasLease = FALSE, !.leaseUntil = 0]

Leased(d, a, t) == [d EXCEPT !.leaseOwner = a, !.hasLease = TRUE, !.leaseUntil = t]

\* (Mutant: the status is left as it was.)
CompletedStillRunning(d) == [NoLease(d) EXCEPT !.result = TRUE]

Completed(d) == [NoLease(d) EXCEPT !.status = "completed", !.result = TRUE]

Stopped(d, status) == [NoLease(d) EXCEPT !.status = status, !.error = TRUE]

\* (Mutant: the current stage is not reset.)
RequeuedKeepsStage(d, n) ==
  [NoLease(d) EXCEPT !.status = "queued", !.error = FALSE, !.result = FALSE,
                     !.retryCount = n, !.stages = [s \in Stages |-> "queued"]]

Requeued(d, n) ==
  [NoLease(d) EXCEPT !.status = "queued", !.error = FALSE, !.result = FALSE,
                     !.retryCount = n, !.currentStage = None,
                     !.stages = [s \in Stages |-> "queued"]]

\* The claim's patch carries the error of claimNextJob's own re-read, whatever error
\* the document has by the time patch() reads it.
Claimed(d, a, t, error) ==
  [Leased(d, a, t) EXCEPT !.status = "running", !.error = error]

\* patch(): the fields of c's operation merged into the fresh document d.
Patched(a, c, d) ==
  CASE c.op = "fail"       -> Stopped(d, "partial")
    [] c.op = "markFailed" -> Stopped(d, "failed")
    [] c.op = "cancel"     -> Stopped(d, "cancelled")
    [] c.op = "retry"      -> Requeued(d, c.retries)
    [] c.op = "claim"      -> Claimed(d, a, c.lease, c.error)
    [] OTHER               -> Leased(d, a, c.lease)         \* heartbeat

-------------------------------------------------------------------------------
(* Steps of the methods.  `Begin...` reads the file and checks; a method    *)
(* that returns early at that point has its own condition (`...Returns`).   *)

SetCall(a, c) == call' = [call EXCEPT ![a] = c] /\ UNCHANGED file

Create(a, j) ==
  /\ Idle(a) /\ ~Exists(j)
  /\ file' = [file EXCEPT ![j] = NewJob]
  /\ UNCHANGED call

ToWrite(a, op, j, d) ==
  SetCall(a, [IdleCall EXCEPT !.phase = "write", !.op = op, !.job = j, !.doc = d])

StageReturns(j) == ~Exists(j) \/ file[j].status = "cancelled"

BeginStartStage(a, j, s) ==
  /\ Idle(a) /\ ~StageReturns(j)
  /\ ToWrite(a, "startStage", j, Started(file[j], s))

BeginCompleteStage(a, j, s) ==
  /\ Idle(a) /\ ~StageReturns(j)
  /\ ToWrite(a, "completeStage", j, StageDone(file[j], s))

\* complete() is a bare patch: no check of status or owner.
BeginComplete(a, j) ==
  /\ Idle(a) /\ Exists(j)
  /\ ToWrite(a, "complete", j, Completed(file[j]))

ToFresh(a, op, j) == [IdleCall EXCEPT !.phase = "fresh", !.op = op, !.job = j]

\* fail() and markFailed() read once for resumeFromStage and again in patch().
BeginFail(a, j) == Idle(a) /\ Exists(j) /\ SetCall(a, ToFresh(a, "fail", j))

BeginMarkFailed(a, j) ==
  Idle(a) /\ Exists(j) /\ SetCall(a, ToFresh(a, "markFailed", j))

CancelReturns(j) == ~Exists(j) \/ file[j].status \in {"completed", "cancelled"}

BeginCancel(a, j) ==
  Idle(a) /\ ~CancelReturns(j) /\ SetCall(a, ToFresh(a, "cancel", j))

\* (Mutant: a cancelled job may be retried.)
RetryReturnsLate(j) == ~Exists(j) \/ file[j].status \in {"running", "queued"}

RetryReturns(j) == ~Exists(j) \/ file[j].status \in {"cancelled", "running", "queued"}

BeginRetry(a, j) ==
  /\ Idle(a) /\ ~RetryReturns(j) /\ file[j].retryCount < MaxRetries
  /\ SetCall(a, [ToFresh(a, "retry", j) EXCEPT !.retries = file[j].retryCount + 1])

HeartbeatReturns(a, j) ==
  \/ ~Exists(j) \/ file[j].status # "running"
  \/ file[j].leaseOwner \notin {None, a}

BeginHeartbeat(a, j) ==
  /\ Idle(a) /\ ~HeartbeatReturns(a, j)
  /\ SetCall(a, [ToFresh(a, "heartbeat", j) EXCEPT !.lease = LeaseTicks])

\* claimNextJobWithLease and recoverStuckJobs list the files one by one.
BeginList(a, op) ==
  /\ Idle(a)
  /\ SetCall(a, [IdleCall EXCEPT !.phase = "list", !.op = op, !.lease = LeaseTicks,
                                 !.todo = {j \in Jobs : Exists(j)}])

\* A claim keeps the jobs claimable at the time it sampled before the listing;
\* recovery keeps the running ones: it samples the time after the listing.
ListFile(a, j) ==
  LET d == file[j]
      left == IF call[a].op = "recover" /\ d.hasLease THEN d.leaseUntil ELSE 0
      wanted == IF call[a].op = "claim" THEN Claimable(d, Age(a)) ELSE d.status = "running"
  IN
  /\ call[a].phase = "list" /\ j \in call[a].todo
  /\ SetCall(a, [call[a] EXCEPT
       !.todo = @ \ {j},
       !.found = IF wanted THEN @ \cup {[job |-> j, left |-> left]} ELSE @])

Listed(a, op) == call[a].phase = "list" /\ call[a].op = op /\ call[a].todo = {}

\* The oldest job found by the listing, and its optimistic re-read.
IsOldest(a, j) ==
  /\ j \in {f.job : f \in call[a].found}
  /\ \A f \in call[a].found : j <= f.job

CanClaim(a, j) == IsOldest(a, j) /\ Claimable(file[j], Age(a))

ClaimReturns(a) == Listed(a, "claim") /\ \A j \in Jobs : ~CanClaim(a, j)

ClaimCheck(a, j) ==
  /\ Listed(a, "claim") /\ CanClaim(a, j)
  /\ SetCall(a, [ToFresh(a, "claim", j) EXCEPT
                   !.lease = call[a].lease,
                   !.error = file[j].status # "running" /\ file[j].error])

\* The stuck jobs, judged by what the listing saw and the time of now.
RecoverStart(a) ==
  /\ Listed(a, "recover")
  /\ SetCall(a, [call[a] EXCEPT
       !.phase = "recover", !.found = {},
       !.todo = {f.job : f \in {g \in call[a].found : g.left <= 0}}])

\* The loop's patch of one stuck job: its read...
RecoverPatch(a, j) ==
  /\ call[a].phase = "recover" /\ j \in call[a].todo
  /\ SetCall(a, [call[a] EXCEPT !.phase = "write", !.job = j, !.todo = @ \ {j},
                                !.doc = Stopped(file[j], "partial")])

RecoverReturns(a) == call[a].phase = "recover" /\ call[a].todo = {}

\* The read inside patch().
Fresh(a) ==
  /\ call[a].phase = "fresh"
  /\ SetCall(a, [call[a] EXCEPT !.phase = "write",
                                !.doc = Patched(a, call[a], file[call[a].job])])

\* writeJsonFile: the whole document replaces the file.
Write(a) ==
  /\ call[a].phase = "write"
  /\ file' = [file EXCEPT ![call[a].job] = call[a].doc]
  /\ call' = [call EXCEPT ![a] =
                IF @.op = "recover"
                THEN [@ EXCEPT !.phase = "recover", !.job = None, !.doc = NoJob]
                ELSE IdleCall]

Return(a) == (ClaimReturns(a) \/ RecoverReturns(a)) /\ SetCall(a, IdleCall)

\* The caller's process dies in the middle of a method.
Drop(a) == call' = [call EXCEPT ![a] = IdleCall] /\ UNCHANGED file

\* One tick of the clock: every defined lease, stored or about to be, is nearer
\* its end.
Older(t) == IF t > -MaxAge THEN t - 1 ELSE t
Aged(d)  == IF d # NoJob /\ d.hasLease THEN [d EXCEPT !.leaseUntil = Older(@)] ELSE d
AgedCall(c) ==
  [c EXCEPT !.doc = Aged(@),
            !.lease = IF c.op \in {"claim", "heartbeat"} THEN Older(@) ELSE @,
            !.found = IF c.op = "recover"
                      THEN {[f EXCEPT !.left = Older(@)] : f \in c.found} ELSE @]
Tick ==
  /\ \A a \in Callers : call[a].phase = "list" /\ call[a].op = "claim" => Age(a) < MaxAge
  /\ file' = [j \in Jobs |-> Aged(file[j])]
  /\ call' = [a \in Callers |-> AgedCall(call[a])]

-------------------------------------------------------------------------------
(* The service under any callers that use its methods in any order.        *)

\* The data directory may hold queued jobs from before.
JobsInit ==
  /\ file \in [Jobs -> {NoJob, NewJob}]
  /\ call = [a \in Callers |-> IdleCall]

Method(a, j) ==
  \/ Create(a, j)
  \/ \E s \in Stages : BeginStartStage(a, j, s) \/ BeginCompleteStage(a, j, s)
  \/ BeginComplete(a, j) \/ BeginFail(a, j) \/ BeginMarkFailed(a, j)
  \/ BeginCancel(a, j) \/ BeginRetry(a, j) \/ BeginHeartbeat(a, j)
  \/ ListFile(a, j) \/ ClaimCheck(a, j) \/ RecoverPatch(a, j)

JobsNext ==
  \/ \E a \in Callers : \/ \E j \in Jobs : Method(a, j)
                        \/ BeginList(a, "claim") \/ BeginList(a, "recover")
                        \/ RecoverStart(a) \/ Return(a) \/ Fresh(a)
                        \/ Write(a) \/ Drop(a)
  \/ Tick

JobsSpec == JobsInit /\ [][JobsNext]_jobVars

-------------------------------------------------------------------------------
\* Types of the job files and of the calls (CaspaJobService.ts:13-45).
JobsTypeOK == file \in [Jobs -> Job \cup {NoJob}] /\ call \in [Callers -> Call]

\* What a job document says of itself is consistent: a completed job has its
\* result, a stopped one its reason, a queued one is a clean slate, and the
\* current stage has been started.
Coherent(d) ==
  /\ d.status = "completed" => d.result
  /\ d.status \in {"failed", "partial", "cancelled"} => d.error
  /\ d.status = "queued" => ~d.result /\ ~d.error /\ d.currentStage = None
  /\ d.currentStage # None => d.stages[d.currentStage] # "queued"

\* No interleaving of methods, each overwriting the whole file with what it made
\* of an earlier read, leaves a document that mixes two of them
\* (CaspaJobService.ts:94-303).
JobsCoherent == \A j \in Jobs : Exists(j) => Coherent(file[j])
===============================================================================
