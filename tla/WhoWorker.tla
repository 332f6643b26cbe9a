------------------------------- MODULE WhoWorker -------------------------------
(***************************************************************************)
(* packages/osint/src/jobs/whoWorker.ts and whoJobService.ts: who.lookup   *)
(* jobs are enqueued, cancelled and retried by HTTP handlers and processed *)
(* by workers (the one inside the server process, or stand-alone ones).    *)
(* A worker recovers stuck jobs, then polls: it claims a job, runs its     *)
(* four stages and completes it, or marks it failed.  All of them use the  *)
(* methods of CaspaJobs; a worker acts only when its own call has returned.*)
(* The files of the dossier stage and the entity index are in Dossiers,    *)
(* the ledger's file is in WhoAudit: here a dossier is counted and an      *)
(* audit entry is the name of its action.                                  *)
(***************************************************************************)
EXTENDS CaspaJobs

CONSTANTS Workers,      \* who() workers
          Clients,      \* HTTP requests
          MaxDossiers,  \* bound: dossiers are counted up to this
          MaxCrashes,   \* bound: crashes of workers
          MaxFaults     \* bound: operations that throw

ASSUME ActorsAssumption == Callers = Workers \cup Clients /\ Workers \cap Clients = {}

\* The stages of a who.lookup job, in the order they run (whoJobTypes.ts).
WhoStages == {"policy", "discover", "dossier", "audit"}
NextStage == [policy |-> "discover", discover |-> "dossier", dossier |-> "audit"]

ASSUME StagesAssumption == Stages = WhoStages
ASSUME BoundsAssumption == MaxDossiers \in Nat \ {0} /\ MaxCrashes \in Nat /\ MaxFaults \in Nat

VARIABLES pc,        \* worker -> where it is
          at,        \* worker -> the stage it is in, or None
          mine,      \* worker -> the job it processes, or None
          dossiers,  \* job -> dossier files written for it
          trail,     \* job -> audit actions recorded for it
          crashes,   \* crashes so far
          faults     \* operations that have thrown so far

workerVars == <<pc, at, mine>>
effectVars == <<dossiers, trail>>
vars == <<file, call, pc, at, mine, dossiers, trail, crashes, faults>>

Labels == {"boot", "poll", "claiming",
           "enter", "start", "beat", "beat2", "work", "record", "leave",
           "finish", "complete", "failed", "markFailed", "end"}

-------------------------------------------------------------------------------
Init ==
  /\ JobsInit
  /\ pc = [w \in Workers |-> "boot"]
  /\ at = [w \in Workers |-> None]
  /\ mine = [w \in Workers |-> None]
  /\ dossiers = [j \in Jobs |-> 0]
  /\ trail = [j \in Jobs |-> {}]
  /\ crashes = 0 /\ faults = 0

At(w, label) == pc[w] = label /\ Idle(w)
Goto(w, label) == pc' = [pc EXCEPT ![w] = label]
Stay == UNCHANGED <<at, mine>>
NoEffect == UNCHANGED <<dossiers, trail, crashes, faults>>

\* The steps a method in progress takes on its own.
Calling(a) ==
  /\ \/ \E j \in Jobs : ListFile(a, j) \/ ClaimCheck(a, j) \/ RecoverPatch(a, j)
     \/ RecoverStart(a) \/ Fresh(a)
     \/ call[a].op # "claim" /\ (Write(a) \/ Return(a))
  /\ UNCHANGED workerVars /\ NoEffect

\* startWhoWorker: recoverStuckJobs, then the polling loop.
Boot(w) ==
  /\ At(w, "boot") /\ BeginList(w, "recover")
  /\ Goto(w, "poll") /\ Stay /\ NoEffect

Claim(w) ==
  /\ At(w, "poll") /\ BeginList(w, "claim")
  /\ Goto(w, "claiming") /\ Stay /\ NoEffect

\* claimNextJobWithLease found nothing: the loop sleeps and polls again.
ClaimNothing(w) ==
  /\ pc[w] = "claiming" /\ ClaimReturns(w) /\ Return(w)
  /\ Goto(w, "poll") /\ Stay /\ NoEffect

\* The claim's write; processWhoJob begins.
ClaimJob(w) ==
  /\ pc[w] = "claiming" /\ Write(w)
  /\ mine' = [mine EXCEPT ![w] = call[w].job]
  /\ at' = [at EXCEPT ![w] = "policy"]
  /\ Goto(w, "enter") /\ NoEffect

Cancelled(w) == file[mine[w]].status = "cancelled"

Abandon(w) ==
  /\ pc' = [pc EXCEPT ![w] = "poll"]
  /\ at' = [at EXCEPT ![w] = None] /\ mine' = [mine EXCEPT ![w] = None]

\* stage(): get, and throw if the job was cancelled.
Enter(w) ==
  /\ At(w, "enter")
  /\ IF Cancelled(w) THEN Abandon(w) ELSE Goto(w, "start") /\ Stay
  /\ UNCHANGED jobVars /\ NoEffect

\* startStage; when the job is cancelled by now it returns and stage() goes on.
StartStage(w) ==
  /\ At(w, "start")
  /\ IF StageReturns(mine[w]) THEN UNCHANGED jobVars
                              ELSE BeginStartStage(w, mine[w], at[w])
  /\ Goto(w, "beat") /\ Stay /\ NoEffect

\* heartbeatLease; its result is ignored.  The discover stage beats again first.
Beat(w, label, next) ==
  /\ At(w, label)
  /\ IF HeartbeatReturns(w, mine[w]) THEN UNCHANGED jobVars ELSE BeginHeartbeat(w, mine[w])
  /\ Goto(w, next) /\ Stay /\ NoEffect

Heartbeat(w) ==
  \/ Beat(w, "beat", IF at[w] = "discover" THEN "beat2" ELSE "work")
  \/ Beat(w, "beat2", "work")

Record(w, action) == trail' = [trail EXCEPT ![mine[w]] = @ \cup {action}]

\* The work of a stage.
Policy(w) ==
  /\ At(w, "work") /\ at[w] = "policy"
  /\ Record(w, "who.requested") /\ Goto(w, "leave")
  /\ Stay /\ UNCHANGED <<jobVars, dossiers, crashes, faults>>

Discover(w) ==
  /\ At(w, "work") /\ at[w] = "discover"
  /\ Goto(w, "leave") /\ Stay /\ UNCHANGED jobVars /\ NoEffect

WriteDossier(w) ==
  /\ At(w, "work") /\ at[w] = "dossier"
  /\ dossiers' = [dossiers EXCEPT ![mine[w]] = IF @ < MaxDossiers THEN @ + 1 ELSE @]
  /\ Goto(w, "record") /\ Stay /\ UNCHANGED <<jobVars, trail, crashes, faults>>

RecordDossier(w) ==
  /\ At(w, "record") /\ Record(w, "dossier.written") /\ Goto(w, "leave")
  /\ Stay /\ UNCHANGED <<jobVars, dossiers, crashes, faults>>

RecordCompleted(w) ==
  /\ At(w, "work") /\ at[w] = "audit"
  /\ Record(w, "who.completed") /\ Goto(w, "leave")
  /\ Stay /\ UNCHANGED <<jobVars, dossiers, crashes, faults>>

\* Any awaited operation of the try block may throw, those of the service included
\* (a failing read or write of the job file): the catch block takes over.
Throw(w) ==
  /\ pc[w] \in {"enter", "start", "beat", "beat2", "work", "record", "leave",
                "finish", "complete"}
     \/ call[w].op = "complete"
  /\ faults < MaxFaults /\ faults' = faults + 1
  /\ Drop(w) /\ Goto(w, "failed") /\ Stay /\ UNCHANGED <<dossiers, trail, crashes>>

\* The check after the work, then completeStage.
Leave(w) ==
  /\ At(w, "leave")
  /\ IF Cancelled(w) THEN Abandon(w) ELSE Goto(w, "finish") /\ Stay
  /\ UNCHANGED jobVars /\ NoEffect

\* Mutants of FinishStage: the last stage is not marked complete; the job is completed
\* one stage too early.
FinishStageSkipsLast(w) ==
  /\ At(w, "finish")
  /\ IF StageReturns(mine[w]) \/ at[w] = "audit"
     THEN UNCHANGED jobVars ELSE BeginCompleteStage(w, mine[w], at[w])
  /\ IF at[w] = "audit"
     THEN Goto(w, "complete") /\ UNCHANGED at
     ELSE Goto(w, "enter") /\ at' = [at EXCEPT ![w] = NextStage[at[w]]]
  /\ UNCHANGED mine /\ NoEffect

FinishStageTooEarly(w) ==
  /\ At(w, "finish")
  /\ IF StageReturns(mine[w]) THEN UNCHANGED jobVars
                              ELSE BeginCompleteStage(w, mine[w], at[w])
  /\ IF at[w] = "dossier"
     THEN Goto(w, "complete") /\ UNCHANGED at
     ELSE Goto(w, "enter") /\ at' = [at EXCEPT ![w] = NextStage[at[w]]]
  /\ UNCHANGED mine /\ NoEffect

FinishStage(w) ==
  /\ At(w, "finish")
  /\ IF StageReturns(mine[w]) THEN UNCHANGED jobVars
                              ELSE BeginCompleteStage(w, mine[w], at[w])
  /\ IF at[w] = "audit"
     THEN Goto(w, "complete") /\ UNCHANGED at
     ELSE Goto(w, "enter") /\ at' = [at EXCEPT ![w] = NextStage[at[w]]]
  /\ UNCHANGED mine /\ NoEffect

Complete(w) ==
  /\ At(w, "complete") /\ BeginComplete(w, mine[w])
  /\ Goto(w, "end") /\ Stay /\ NoEffect

\* The catch block: an audit entry, whose own failure is ignored, then markFailed.
RecordFailure(w) ==
  /\ At(w, "failed")
  /\ Record(w, "who.failed") \/ UNCHANGED trail
  /\ Goto(w, "markFailed") /\ Stay /\ UNCHANGED <<jobVars, dossiers, crashes, faults>>

MarkFailed(w) ==
  /\ At(w, "markFailed") /\ BeginMarkFailed(w, mine[w])
  /\ Goto(w, "end") /\ Stay /\ NoEffect

Finished(w) ==
  /\ At(w, "end") /\ Abandon(w) /\ UNCHANGED jobVars /\ NoEffect

\* The worker's process dies and is started again.
Crash(w) ==
  /\ crashes < MaxCrashes /\ crashes' = crashes + 1
  /\ Drop(w)
  /\ pc' = [pc EXCEPT ![w] = "boot"]
  /\ at' = [at EXCEPT ![w] = None] /\ mine' = [mine EXCEPT ![w] = None]
  /\ UNCHANGED <<effectVars, faults>>

-------------------------------------------------------------------------------
(* HTTP handlers (whoJobService.ts).  The look-up getWhoJob does first only *)
(* tells whether the job exists; jobs are never deleted.                    *)

Enqueue(c, j)   == Create(c, j) /\ UNCHANGED workerVars /\ NoEffect
CancelJob(c, j) == BeginCancel(c, j) /\ UNCHANGED workerVars /\ NoEffect
RetryJob(c, j)  == BeginRetry(c, j) /\ UNCHANGED workerVars /\ NoEffect

\* The request fails half-way: an exception (HTTP 500), or the server dies.
FailRequest(c) ==
  /\ ~Idle(c) /\ Drop(c)
  /\ faults < MaxFaults /\ faults' = faults + 1
  /\ UNCHANGED <<workerVars, effectVars, crashes>>

Advance == Tick /\ UNCHANGED workerVars /\ NoEffect

Work(w) ==
  \/ Boot(w) \/ Claim(w) \/ ClaimNothing(w) \/ ClaimJob(w)
  \/ Enter(w) \/ StartStage(w) \/ Heartbeat(w)
  \/ Policy(w) \/ Discover(w) \/ WriteDossier(w) \/ RecordDossier(w)
  \/ RecordCompleted(w) \/ Leave(w) \/ FinishStage(w)
  \/ Complete(w) \/ RecordFailure(w) \/ MarkFailed(w) \/ Finished(w)

Next ==
  \/ \E a \in Callers : Calling(a)
  \/ \E w \in Workers : Work(w) \/ Throw(w) \/ Crash(w)
  \/ \E c \in Clients, j \in Jobs : Enqueue(c, j) \/ CancelJob(c, j) \/ RetryJob(c, j)
  \/ \E c \in Clients : FailRequest(c)
  \/ Advance

\* Workers and the clock keep going (the polling loop never ends, timers fire);
\* nothing obliges a client to ask, a stage to throw or a process to die.
Fairness ==
  /\ \A a \in Callers : WF_vars(Calling(a))
  /\ \A w \in Workers : WF_vars(Work(w))
  /\ WF_vars(Advance)

Spec == Init /\ [][Next]_vars

FairSpec == Spec /\ Fairness

-------------------------------------------------------------------------------
\* Types of the workers' variables (whoWorker.ts).
TypeOK ==
  /\ JobsTypeOK
  /\ pc \in [Workers -> Labels]
  /\ at \in [Workers -> Stages \cup {None}]
  /\ mine \in [Workers -> Jobs \cup {None}]
  /\ dossiers \in [Jobs -> 0..MaxDossiers]
  /\ trail \in [Jobs -> SUBSET {"who.requested", "dossier.written", "who.completed",
                                "who.failed"}]
  /\ crashes \in 0..MaxCrashes /\ faults \in 0..MaxFaults

\* Whoever wrote it last and whatever they overwrote, a job that is shown with a
\* result has had its dossier written and its request, dossier and completion
\* recorded in the audit ledger (whoWorker.ts:82-196).
ResultBacked ==
  \A j \in Jobs : Exists(j) /\ file[j].result =>
    /\ dossiers[j] > 0
    /\ {"who.requested", "dossier.written", "who.completed"} \subseteq trail[j]

\* Somebody has read the job and may still write it, or is processing it.
InHand(j) ==
  \/ \E w \in Workers : mine[w] = j
  \/ \E a \in Callers :
       \/ call[a].job = j
       \/ call[a].op = "recover" /\ call[a].phase # "list" /\ j \in call[a].todo
       \/ \E f \in call[a].found : f.job = j

\* Cancelled, and nobody has it in hand.
Settled(j) == Exists(j) /\ file[j].status = "cancelled" /\ ~InHand(j)

\* A cancelled job nobody has in hand is never taken in hand again: no claim,
\* recovery, retry or stage that starts later picks it up, so it stays cancelled
\* (CaspaJobService.ts:106-303).
CancelHolds == [][\A j \in Jobs : Settled(j) => Settled(j)']_vars

\* With one worker and one client at a time, a job shown completed without an
\* error has been through every stage of its last attempt, whatever the worker
\* was doing when it crashed or when a retry came (whoWorker.ts:51-196).
CleanCompletion ==
  \A j \in Jobs : Exists(j) /\ file[j].status = "completed" /\ ~file[j].error =>
    \A s \in Stages : file[j].stages[s] = "completed"

\* With one worker and one client at a time, each attempt writes at most one
\* dossier: a job has no more than one per enqueue, retry and crash
\* (whoWorker.ts:138-163, CaspaJobService.ts:194-303).
OneDossierPerAttempt ==
  \A j \in Jobs : dossiers[j] > 0 => dossiers[j] <= file[j].retryCount + 1 + crashes

Pending(j) == Exists(j) /\ file[j].status \in {"queued", "running"}

\* A job waiting for a worker, or left running by one that died, is eventually
\* completed, failed, cancelled or handed back as partial
\* (whoWorker.ts:253-286, CaspaJobService.ts:190-303).
EveryJobEnds ==
  \A j \in Jobs : Pending(j) ~> ~Pending(j)

\* "leases (multi-worker safe reclaim)" (docs/DEPLOY_WHO.md:59): no two workers
\* process the same job.
OneWorkerPerJob ==
  \A w, x \in Workers : w # x /\ mine[w] # None => mine[w] # mine[x]

\* "Cancel queued/running job" (packages/osint/README.md:71): a job that was
\* cancelled never runs on or completes.
CancelIsFinal ==
  [][\A j \in Jobs : Exists(j) /\ file[j].status = "cancelled" =>
       file'[j].status = "cancelled"]_vars
===============================================================================
