------------------------------ MODULE Orchestrator ------------------------------
(***************************************************************************)
(* python/ocrowley_agents: the coordinator and what it calls: the task     *)
(* dispatcher, the agent registry and the state manager.  Each of the      *)
(* three is guarded by its own lock, so one of their methods is one step;  *)
(* a method of the coordinator calls several and holds no lock, so driver  *)
(* threads and the monitor thread interleave between its calls.            *)
(*                                                                         *)
(* A driver takes one task after the other: it dispatches an issue or      *)
(* dequeues a task, assigns it to an agent, starts it and reports its      *)
(* completion or failure.  dispatch_issue leaves its task in the queue     *)
(* although the driver goes on with it, so the queue holds stale copies.   *)
(*                                                                         *)
(* Heartbeats are left to time: get_dead_agents may report any agent.      *)
(* Every issue is dispatched with a callback.                              *)
(* Left out: capabilities, metadata, counters, audit lines and the history *)
(* of the state manager, registration (agents are registered once) and     *)
(* graceful_shutdown.                                                      *)
(***************************************************************************)
EXTENDS Naturals, Sequences, FiniteSets, SequencesExt

CONSTANTS Drivers,     \* threads that use the coordinator
          Agents,      \* registered roles
          Tasks,       \* task ids
          Priority,    \* task -> 1 (HIGH), 2 (MEDIUM), 3 (LOW)
          MaxRetries,  \* max_retries of a task
          None         \* no task, no agent, no record

ASSUME TasksAssumption == IsFiniteSet(Tasks)
ASSUME PriorityAssumption == Priority \in [Tasks -> 1..3]
ASSUME RetriesAssumption == MaxRetries \in Nat \ {0}
ASSUME NoneAssumption == None \notin Tasks \cup Agents \cup {"QUEUED", "ASSIGNED",
                                      "IN_PROGRESS", "COMPLETE", "FAILED", "CANCELLED"}

VARIABLES
  \* the dispatcher
  state,      \* task -> its state, or None before enqueue_task creates it
  assigned,   \* task -> assigned_to
  retries,    \* task -> failures counted; not counted beyond MaxRetries
  late,       \* task -> has it run longer than its timeout?
  queue,      \* the three deques, as one sequence in order of arrival
  inProgress, \* the keys of _in_progress
  completed,  \* the keys of _completed
  dlq,        \* the tasks in the dead-letter queue
  \* the registry
  status,     \* agent -> its status
  \* the state manager and the coordinator
  record,     \* task -> the state recorded for it
  callbacks,  \* tasks with a callback to call
  called,     \* task -> how often its callback was called
  \* the threads
  pc,         \* driver -> where it is
  task,       \* driver -> the task it is at
  agent,      \* driver -> the agent it found not to be blocked
  handedBack, \* the tasks dispatch_to_agent refused, which only the Task object in the
              \* hands of the caller stands for: those no driver has taken since
  monitor     \* the monitor thread: where it is, what it has still to go through,
              \* the task it fails and whether that one is to be retried

taskVars       == <<state, assigned, retries, late>>
dispatcherVars == <<taskVars, queue, inProgress, completed, dlq>>
bookVars       == <<record, callbacks, called>>
driverVars     == <<pc, task, agent, handedBack>>
vars == <<dispatcherVars, status, bookVars, driverVars, monitor>>

States == {"QUEUED", "ASSIGNED", "IN_PROGRESS", "COMPLETE", "FAILED", "CANCELLED"}

Init ==
  /\ state = [t \in Tasks |-> None] /\ assigned = [t \in Tasks |-> None]
  /\ retries = [t \in Tasks |-> 0] /\ late = [t \in Tasks |-> FALSE]
  /\ queue = <<>> /\ inProgress = {} /\ completed = {} /\ dlq = {}
  /\ status = [a \in Agents |-> "IDLE"]
  /\ record = [t \in Tasks |-> None] /\ callbacks = {} /\ called = [t \in Tasks |-> 0]
  /\ pc = [d \in Drivers |-> "idle"]
  /\ task = [d \in Drivers |-> None] /\ agent = [d \in Drivers |-> None]
  /\ handedBack = {}
  /\ monitor = [at |-> "timeouts", todo |-> {}, now |-> None, retry |-> FALSE]

-------------------------------------------------------------------------------
(* The dispatcher's methods, each under its lock.                          *)

\* dequeue_next_task: the earliest of those with the most urgent priority.
NextInQueue(i) ==
  /\ i \in DOMAIN queue
  /\ \A k \in DOMAIN queue :
       \/ Priority[queue[i]] < Priority[queue[k]]
       \/ Priority[queue[i]] = Priority[queue[k]] /\ i <= k

\* A failing task is retried until it has failed MaxRetries times.
Retried(t) == retries[t] + 1 < MaxRetries

\* fail_task for each task of F, whatever its state.
FailTasks(F) ==
  /\ state' = [t \in Tasks |-> IF t \notin F THEN state[t]
                               ELSE IF Retried(t) THEN "QUEUED" ELSE "FAILED"]
  /\ assigned' = [t \in Tasks |-> IF t \in F /\ Retried(t) THEN None ELSE assigned[t]]
  /\ retries' = [t \in Tasks |-> IF t \notin F THEN retries[t]
                                 ELSE IF Retried(t) THEN retries[t] + 1 ELSE MaxRetries]
  /\ late' = [t \in Tasks |-> late[t] /\ t \notin F]
  /\ inProgress' = inProgress \ F
  /\ dlq' = dlq \cup {t \in F : ~Retried(t)}
  /\ UNCHANGED completed

\* Mutant: a task that is to be retried is not appended to its queue.
DispatcherFailForgets(F) == FailTasks(F) /\ UNCHANGED queue

\* The order of a dictionary's items is left open.
DispatcherFail(F) ==
  /\ FailTasks(F)
  /\ \E again \in SetToSeqs({t \in F : Retried(t)}) : queue' = queue \o again

\* cancel_task: the first copy in a queue, or else a task in progress.
Cancel(t) ==
  /\ \/ /\ \E i \in DOMAIN queue :
             /\ queue[i] = t /\ \A k \in 1..(i - 1) : queue[k] # t
             /\ queue' = RemoveAt(queue, i)
        /\ UNCHANGED inProgress
     \/ /\ ~Contains(queue, t) /\ t \in inProgress
        /\ inProgress' = inProgress \ {t} /\ UNCHANGED queue
  /\ state' = [state EXCEPT ![t] = "CANCELLED"] /\ completed' = completed \cup {t}
  /\ UNCHANGED <<assigned, retries, late, dlq, status, bookVars, driverVars, monitor>>

-------------------------------------------------------------------------------
(* A driver.                                                               *)

Goto(d, label) ==
  pc' = [pc EXCEPT ![d] = label] /\ UNCHANGED <<task, agent, handedBack, monitor>>
Take(d, t, label) ==
  /\ pc' = [pc EXCEPT ![d] = label] /\ task' = [task EXCEPT ![d] = t]
  /\ agent' = [agent EXCEPT ![d] = None] /\ handedBack' = handedBack \ {t}
  /\ UNCHANGED monitor
Leave(d) == Take(d, None, "idle")

\* dispatch_issue: enqueue_task, create_task_state, then the callback is stored.
DispatchIssue(d, t) ==
  /\ pc[d] = "idle" /\ state[t] = None
  /\ state' = [state EXCEPT ![t] = "QUEUED"] /\ queue' = Append(queue, t)
  /\ Take(d, t, "create")
  /\ UNCHANGED <<assigned, retries, late, inProgress, completed, dlq, status, bookVars>>

CreateRecord(d) ==
  /\ pc[d] = "create" /\ record' = [record EXCEPT ![task[d]] = "QUEUED"]
  /\ Goto(d, "callback") /\ UNCHANGED <<callbacks, called, dispatcherVars, status>>

StoreCallback(d) ==
  /\ pc[d] = "callback" /\ callbacks' = callbacks \cup {task[d]}
  /\ Goto(d, "ready") /\ UNCHANGED <<record, called, dispatcherVars, status>>

Dequeue(d) ==
  /\ pc[d] = "idle"
  /\ \E i \in DOMAIN queue :
       NextInQueue(i) /\ queue' = RemoveAt(queue, i) /\ Take(d, queue[i], "ready")
  /\ UNCHANGED <<taskVars, inProgress, completed, dlq, status, bookVars>>

\* A driver that holds the Task object goes on with it when it is to be retried, or
\* offers a task to an agent once more after a refusal.
Again(d, t) ==
  /\ pc[d] = "idle" /\ state[t] = "QUEUED" /\ (retries[t] > 0 \/ t \in handedBack)
  /\ Take(d, t, "ready") /\ UNCHANGED <<dispatcherVars, status, bookVars>>

\* dispatch_to_agent: the agent's status, then the dispatcher, then the record.
CheckAgent(d, a) ==
  /\ pc[d] = "ready" /\ status[a] # "BLOCKED"
  /\ pc' = [pc EXCEPT ![d] = "assign"] /\ agent' = [agent EXCEPT ![d] = a]
  /\ UNCHANGED <<task, handedBack, monitor, dispatcherVars, status, bookVars>>

\* dispatch_to_agent returns False for a role that is not registered (None) and for a
\* blocked agent.  The task is not put back into its queue.
Refuse(d, a) ==
  /\ pc[d] = "ready" /\ (a # None => status[a] = "BLOCKED")
  /\ pc' = [pc EXCEPT ![d] = "idle"] /\ task' = [task EXCEPT ![d] = None]
  /\ handedBack' = handedBack \cup {task[d]}
  /\ UNCHANGED <<agent, monitor, dispatcherVars, status, bookVars>>

Assign(d) ==
  /\ pc[d] = "assign"
  /\ \/ /\ state[task[d]] \in {"QUEUED", "FAILED"}
        /\ state' = [state EXCEPT ![task[d]] = "ASSIGNED"]
        /\ assigned' = [assigned EXCEPT ![task[d]] = agent[d]]
        /\ Goto(d, "recordAssigned")
     \/ /\ state[task[d]] \notin {"QUEUED", "FAILED"}
        /\ Leave(d) /\ UNCHANGED <<state, assigned>>
  /\ UNCHANGED <<retries, late, queue, inProgress, completed, dlq, status, bookVars>>

\* update_task_state, which does nothing before the record exists.
SetRecord(t, s) ==
  /\ record' = IF record[t] = None THEN record ELSE [record EXCEPT ![t] = s]
  /\ UNCHANGED <<callbacks, called>>

Record(d, label, s, next) ==
  /\ pc[d] = label /\ SetRecord(task[d], s) /\ Goto(d, next)
  /\ UNCHANGED <<dispatcherVars, status>>

RecordAssigned(d) == Record(d, "recordAssigned", "ASSIGNED", "start")

\* start_task.
Starts(d, listed) ==
  /\ pc[d] = "start"
  /\ \/ /\ state[task[d]] = "ASSIGNED"
        /\ state' = [state EXCEPT ![task[d]] = "IN_PROGRESS"]
        /\ late' = [late EXCEPT ![task[d]] = FALSE]
        /\ inProgress' = listed /\ Goto(d, "recordStarted")
     \/ /\ state[task[d]] # "ASSIGNED"
        /\ Leave(d) /\ UNCHANGED <<state, late, inProgress>>
  /\ UNCHANGED <<assigned, retries, queue, completed, dlq, status, bookVars>>

\* Mutant: the task is not entered in _in_progress.
StartUnlisted(d) == Starts(d, inProgress)

Start(d) == Starts(d, inProgress \cup {task[d]})

RecordStarted(d) == Record(d, "recordStarted", "IN_PROGRESS", "busy")

\* update_status; a task may be assigned to nobody by now.
SetStatus(a, s) == status' = IF a = None THEN status ELSE [status EXCEPT ![a] = s]

\* update_status of the agent that driver d's task names now.
Report(d, label, s) ==
  /\ pc[d] = label /\ SetStatus(assigned[task[d]], s)
  /\ UNCHANGED <<dispatcherVars, bookVars>>

Busy(d) == Report(d, "busy", "BUSY") /\ Goto(d, "work")

\* complete_task.
Complete(d) ==
  /\ pc[d] = "work"
  /\ \/ /\ state[task[d]] = "IN_PROGRESS"
        /\ state' = [state EXCEPT ![task[d]] = "COMPLETE"]
        /\ inProgress' = inProgress \ {task[d]}
        /\ completed' = completed \cup {task[d]}
        /\ Goto(d, "recordComplete")
     \/ /\ state[task[d]] # "IN_PROGRESS"
        /\ Leave(d) /\ UNCHANGED <<state, inProgress, completed>>
  /\ UNCHANGED <<assigned, retries, late, queue, dlq, status, bookVars>>

RecordComplete(d) == Record(d, "recordComplete", "COMPLETE", "free")

Free(d) == Report(d, "free", "IDLE") /\ Goto(d, "call")

\* The callback is taken out of the table and called.
CallsBack(d, left) ==
  /\ pc[d] = "call"
  /\ called' = IF task[d] \in callbacks THEN [called EXCEPT ![task[d]] = @ + 1] ELSE called
  /\ callbacks' = left /\ Leave(d)
  /\ UNCHANGED <<record, dispatcherVars, status>>

\* Mutant: it is looked up and left there.
CallAndKeep(d) == CallsBack(d, callbacks)

CallBack(d) == CallsBack(d, callbacks \ {task[d]})

\* fail_task.
Fail(d) ==
  /\ pc[d] = "work" /\ DispatcherFail({task[d]})
  /\ Goto(d, IF Retried(task[d]) THEN "recordQueued" ELSE "recordFailed")
  /\ UNCHANGED <<status, bookVars>>

RecordFailed(d) ==
  \/ Record(d, "recordQueued", "QUEUED", "release")
  \/ Record(d, "recordFailed", "FAILED", "release")

Release(d) == Report(d, "release", "IDLE") /\ Leave(d)

Driver(d) ==
  \/ \E t \in Tasks : DispatchIssue(d, t) \/ Again(d, t)
  \/ \E a \in Agents : CheckAgent(d, a)
  \/ \E a \in Agents \cup {None} : Refuse(d, a)
  \/ CreateRecord(d) \/ StoreCallback(d) \/ Dequeue(d) \/ Assign(d) \/ RecordAssigned(d)
  \/ Start(d) \/ RecordStarted(d) \/ Busy(d)
  \/ Complete(d) \/ RecordComplete(d) \/ Free(d) \/ CallBack(d)
  \/ Fail(d) \/ RecordFailed(d) \/ Release(d)

-------------------------------------------------------------------------------
(* The monitor thread: timed-out tasks are failed by check_timeouts, and   *)
(* those it then finds in _in_progress, _completed or the dead-letter      *)
(* queue once more by the coordinator; then silent agents are blocked.     *)

Monitor(m) == monitor' = m /\ UNCHANGED driverVars

TimedOut == {t \in inProgress : state[t] = "IN_PROGRESS" /\ late[t]}

CheckTimeouts ==
  /\ monitor.at = "timeouts" /\ DispatcherFail(TimedOut)
  /\ Monitor([monitor EXCEPT !.at = "failed", !.todo = TimedOut])
  /\ UNCHANGED <<status, bookVars>>

\* get_task does not look into the queues.
Found(t) == t \in inProgress \cup completed \cup dlq

GetTask(t) ==
  /\ monitor.at = "failed" /\ t \in monitor.todo
  /\ Monitor([monitor EXCEPT !.todo = @ \ {t}, !.at = IF Found(t) THEN "fail" ELSE @,
                             !.now = IF Found(t) THEN t ELSE None])
  /\ UNCHANGED <<dispatcherVars, status, bookVars>>

MonitorFail ==
  /\ monitor.at = "fail" /\ DispatcherFail({monitor.now})
  /\ Monitor([monitor EXCEPT !.at = "record", !.retry = Retried(monitor.now)])
  /\ UNCHANGED <<status, bookVars>>

MonitorRecord ==
  /\ monitor.at = "record"
  /\ SetRecord(monitor.now, IF monitor.retry THEN "QUEUED" ELSE "FAILED")
  /\ Monitor([monitor EXCEPT !.at = "release"])
  /\ UNCHANGED <<dispatcherVars, status>>

MonitorRelease ==
  /\ monitor.at = "release" /\ SetStatus(assigned[monitor.now], "IDLE")
  /\ Monitor([monitor EXCEPT !.at = "failed", !.now = None, !.retry = FALSE])
  /\ UNCHANGED <<dispatcherVars, bookVars>>

\* get_dead_agents: any agent may have sent its last heartbeat too long ago by now.
DeadAgents ==
  /\ monitor.at = "failed" /\ monitor.todo = {}
  /\ \E dead \in SUBSET Agents : Monitor([monitor EXCEPT !.at = "dead", !.todo = dead])
  /\ UNCHANGED <<dispatcherVars, status, bookVars>>

BlockDead(a) ==
  /\ monitor.at = "dead" /\ a \in monitor.todo /\ SetStatus(a, "BLOCKED")
  /\ Monitor([monitor EXCEPT !.todo = @ \ {a}])
  /\ UNCHANGED <<dispatcherVars, bookVars>>

Sleep ==
  /\ monitor.at = "dead" /\ monitor.todo = {}
  /\ Monitor([monitor EXCEPT !.at = "timeouts"])
  /\ UNCHANGED <<dispatcherVars, status, bookVars>>

MonitorLoop ==
  \/ CheckTimeouts \/ MonitorFail \/ MonitorRecord \/ MonitorRelease \/ DeadAgents \/ Sleep
  \/ \E t \in Tasks : GetTask(t)
  \/ \E a \in Agents : BlockDead(a)

-------------------------------------------------------------------------------
(* Themis and time.                                                        *)

Veto(a) == SetStatus(a, "BLOCKED") /\ UNCHANGED <<dispatcherVars, bookVars, driverVars, monitor>>
Clear(a) == SetStatus(a, "IDLE") /\ UNCHANGED <<dispatcherVars, bookVars, driverVars, monitor>>

Overrun(t) ==
  /\ state[t] = "IN_PROGRESS" /\ late' = [late EXCEPT ![t] = TRUE]
  /\ UNCHANGED <<state, assigned, retries, queue, inProgress, completed, dlq,
                 status, bookVars, driverVars, monitor>>

Next ==
  \/ \E d \in Drivers : Driver(d)
  \/ MonitorLoop
  \/ \E t \in Tasks : Cancel(t) \/ Overrun(t)
  \/ \E a \in Agents : Veto(a) \/ Clear(a)

Spec == Init /\ [][Next]_vars

\* The monitor thread loops for ever and time passes; nothing obliges a driver.
Fairness == WF_vars(MonitorLoop) /\ \A t \in Tasks : WF_vars(Overrun(t))
FairSpec == Spec /\ Fairness

-------------------------------------------------------------------------------
(* Properties.                                                             *)

Labels == {"idle", "create", "callback", "ready", "assign", "recordAssigned", "start",
           "recordStarted", "busy", "work", "recordComplete", "free", "call",
           "recordQueued", "recordFailed", "release"}
MonitorState == [at    : {"timeouts", "failed", "fail", "record", "release", "dead"},
                 todo  : (SUBSET Tasks) \cup (SUBSET Agents),
                 now   : Tasks \cup {None},
                 retry : BOOLEAN]

\* Every variable holds values of its type, and threads that act for a task have one.
DispatcherOK ==
  /\ state \in [Tasks -> States \cup {None}] /\ assigned \in [Tasks -> Agents \cup {None}]
  /\ retries \in [Tasks -> 0..MaxRetries] /\ late \in [Tasks -> BOOLEAN]
  /\ queue \in Seq(Tasks) /\ inProgress \subseteq Tasks
  /\ completed \subseteq Tasks /\ dlq \subseteq Tasks

BooksOK ==
  /\ status \in [Agents -> {"IDLE", "BUSY", "BLOCKED"}]
  /\ record \in [Tasks -> States \cup {None}]
  /\ callbacks \subseteq Tasks /\ called \in [Tasks -> Nat]

DriversOK ==
  /\ pc \in [Drivers -> Labels]
  /\ task \in [Drivers -> Tasks \cup {None}] /\ agent \in [Drivers -> Agents \cup {None}]
  /\ \A d \in Drivers : pc[d] # "idle" => task[d] # None
  /\ handedBack \subseteq Tasks

MonitorOK ==
  /\ monitor \in MonitorState
  /\ monitor.at # "dead" => monitor.todo \subseteq Tasks
  /\ monitor.at = "dead" => monitor.todo \subseteq Agents
  /\ monitor.at \in {"fail", "record", "release"} => monitor.now # None

TypeOK == DispatcherOK /\ BooksOK /\ DriversOK /\ MonitorOK

\* A task is where its state says it is: in _in_progress while it is in progress,
\* in _completed once complete or cancelled, in the dead-letter queue once failed.
\* Threads that hold stale copies of a task, the monitor that fails it a second
\* time and a cancellation cannot bring the two apart.  (The converse is false: a
\* task cancelled in a queue stays in _in_progress, and one that was in
\* _completed or in the dead-letter queue stays there when it is taken up again.)
Containers ==
  \A t \in Tasks :
    /\ state[t] = "IN_PROGRESS" => t \in inProgress
    /\ t \in inProgress => state[t] \in {"IN_PROGRESS", "CANCELLED"}
    /\ state[t] \in {"COMPLETE", "CANCELLED"} => t \in completed
    /\ state[t] = "FAILED" => t \in dlq

\* A task that waits to be done is lost in one way only: as long as it is QUEUED it
\* is in its queue, or a driver that has taken it is about to assign it, unless
\* dispatch_to_agent refused it to the last driver that took it; then it is in no
\* queue and only that caller can offer it again (coordinator.py:134-145).  Copies of
\* a task are dequeued and dropped by drivers that find it taken, and it is failed and
\* cancelled by others meanwhile.
Holds(d, t) == task[d] = t /\ pc[d] \in {"create", "callback", "ready", "assign"}
InReach(t) == Contains(queue, t) \/ \E d \in Drivers : Holds(d, t)
NoTaskLost == \A t \in Tasks : state[t] = "QUEUED" => InReach(t) \/ t \in handedBack

\* The callback of a task is called at most once, though the monitor may requeue a
\* task that is complete, and other drivers may then complete it again.
CallbackOnce == \A t \in Tasks : called[t] <= 1

\* No task is in progress for ever: when the driver that runs it does not report,
\* the monitor's timeout takes the task out of that state.
InProgressEnds == \A t \in Tasks : state[t] = "IN_PROGRESS" ~> state[t] # "IN_PROGRESS"

\* Stated by AgentStatus ("Cannot accept work (Themis veto)") and by
\* themis_clear_agent ("Themis clearance: allow agent to resume work"): an agent
\* that is BLOCKED stays so until Themis clears it.  The task it was at when it was
\* vetoed overwrites the status as it starts, completes or fails.
VetoHolds == [][\A a \in Agents : status[a] = "BLOCKED" /\ status'[a] # "BLOCKED" => Clear(a)]_vars

===============================================================================
