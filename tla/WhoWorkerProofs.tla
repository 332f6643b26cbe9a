---------------------------- MODULE WhoWorkerProofs ----------------------------
(***************************************************************************)
(* The worker and the HTTP handlers around the job service: types, results *)
(* that are backed by what was done and cancellations that hold, for any   *)
(* number of workers and clients; clean completions and one dossier per    *)
(* attempt, for one worker and one client at a time.                       *)
(***************************************************************************)
EXTENDS WhoWorker, CaspaJobsProofs

\* Labels at which a worker processes a job.
Holding == {"enter", "start", "beat", "beat2", "work", "record", "leave", "finish",
            "complete", "failed", "markFailed"}

\* Calls a worker makes for the job it processes.
StageOps == {"startStage", "completeStage", "heartbeat", "complete", "markFailed"}

\* A worker that processes a job knows it and its stage, and the job exists.
PlaceOK(w) ==
  /\ pc[w] \in Labels
  /\ pc[w] \in {"boot", "poll", "claiming"} => mine[w] = None /\ at[w] = None
  /\ pc[w] \in Holding \cup {"end"} => mine[w] \in Jobs /\ Exists(mine[w]) /\ at[w] \in Stages
  /\ pc[w] = "beat2" => at[w] = "discover"
  /\ pc[w] = "record" => at[w] = "dossier"
  /\ pc[w] = "complete" => at[w] = "audit"

\* Where a worker is while each of its calls is in progress.
CallAt(w) ==
  /\ call[w].op \in StageOps => call[w].job = mine[w]
  /\ call[w].op = "claim" <=> pc[w] = "claiming"
  /\ call[w].op = "recover" => pc[w] = "poll"
  /\ call[w].op = "startStage" => pc[w] = "beat"
  /\ call[w].op = "completeStage" => pc[w] \in {"enter", "complete"}
  /\ call[w].op = "heartbeat" => pc[w] \in {"beat2", "work"}
  /\ call[w].op \in {"complete", "markFailed"} => pc[w] = "end"
  /\ call[w].op \notin {"fail", "cancel", "retry"}

ClientAt(c) == call[c].op \in {"none", "cancel", "retry"}

\* A call in progress: its phase and what it carries in that phase.
PhaseOK(a) ==
  /\ call[a].phase = "idle" <=> call[a].op = "none"
  /\ call[a].phase = "list" => call[a].op \in {"claim", "recover"}
  /\ call[a].phase = "recover" => call[a].op = "recover"
  /\ call[a].phase = "fresh" => call[a].op \notin {"recover", "complete"}
  /\ call[a].phase = "write" <=> call[a].doc # NoJob
  /\ call[a].phase # "list" => call[a].found = {}

Control ==
  /\ \A w \in Workers : PlaceOK(w) /\ CallAt(w)
  /\ \A c \in Clients : ClientAt(c)
  /\ \A a \in Callers : PhaseOK(a)

-------------------------------------------------------------------------------
(* Every step of the worker and of the handlers is one of the job service,  *)
(* or leaves it alone.                                                      *)
LEMMA WorkerStep ==
  ASSUME Control, NEW w \in Workers, Work(w) \/ Throw(w) \/ Crash(w)
  PROVE  [JobsNext]_jobVars
<1>1. w \in Callers
  BY ActorsAssumption
<1>2. CASE Boot(w) \/ Claim(w) \/ ClaimNothing(w) \/ ClaimJob(w)
  BY <1>1, <1>2 DEF Boot, Claim, ClaimNothing, ClaimJob, JobsNext
<1>3. CASE Enter(w) \/ Policy(w) \/ Discover(w) \/ WriteDossier(w) \/ RecordDossier(w)
           \/ RecordCompleted(w) \/ Leave(w) \/ RecordFailure(w) \/ Finished(w)
  BY <1>3 DEF Enter, Policy, Discover, WriteDossier, RecordDossier, RecordCompleted, Leave,
              RecordFailure, Finished
<1>4. CASE StartStage(w) \/ FinishStage(w)
  <2>1. mine[w] \in Jobs /\ at[w] \in Stages
    BY <1>4 DEF StartStage, FinishStage, At, Control, PlaceOK, Holding
  <2>. QED BY <1>1, <1>4, <2>1 DEF StartStage, FinishStage, JobsNext, Method
<1>5. CASE Heartbeat(w) \/ Complete(w) \/ MarkFailed(w)
  <2>1. mine[w] \in Jobs
    BY <1>5 DEF Heartbeat, Beat, Complete, MarkFailed, At, Control, PlaceOK, Holding
  <2>. QED BY <1>1, <1>5, <2>1 DEF Heartbeat, Beat, Complete, MarkFailed, JobsNext, Method
<1>6. CASE Throw(w) \/ Crash(w)
  BY <1>1, <1>6 DEF Throw, Crash, JobsNext
<1>. QED BY <1>2, <1>3, <1>4, <1>5, <1>6 DEF Work

LEMMA IsJobsStep == ASSUME Control, [Next]_vars PROVE [JobsNext]_jobVars
<1>1. ASSUME NEW a \in Callers, Calling(a) PROVE JobsNext
  BY <1>1 DEF Calling, JobsNext, Method
<1>2. ASSUME NEW c \in Clients, NEW j \in Jobs, Enqueue(c, j) \/ CancelJob(c, j) \/ RetryJob(c, j)
      PROVE  JobsNext
  BY <1>2, ActorsAssumption DEF Enqueue, CancelJob, RetryJob, JobsNext, Method
<1>3. ASSUME NEW c \in Clients, FailRequest(c) PROVE JobsNext
  BY <1>3, ActorsAssumption DEF FailRequest, JobsNext
<1>4. Advance => JobsNext
  BY DEF Advance, JobsNext
<1>5. UNCHANGED vars => UNCHANGED jobVars
  BY DEF vars, jobVars
<1>. QED BY <1>1, <1>2, <1>3, <1>4, <1>5, WorkerStep DEF Next

-------------------------------------------------------------------------------
(* Control is kept.                                                         *)

\* Jobs are never deleted.
LEMMA JobsStay ==
  ASSUME JobsInv, [JobsNext]_jobVars PROVE \A j \in Jobs : Exists(j) => Exists(j)'
<1>1. ASSUME NEW a \in Callers, NEW j \in Jobs, NEW k \in Jobs, Method(a, j), Exists(k)
      PROVE  Exists(k)'
  <2>1. Create(a, j) => file' = [file EXCEPT ![j] = NewJob]
    BY DEF Create
  <2>2. ~Create(a, j) => UNCHANGED file
    BY <1>1 DEF Method, BeginStartStage, BeginCompleteStage, BeginComplete, BeginFail,
       BeginMarkFailed, BeginCancel, BeginRetry, BeginHeartbeat, ListFile, ClaimCheck,
       RecoverPatch, ToWrite, SetCall
  <2>3. NewJob # NoJob
    BY NewJobGood, NoJobAssumption DEF Good
  <2>. QED BY <1>1, <2>1, <2>2, <2>3 DEF Exists, JobsInv
<1>2. ASSUME NEW a \in Callers, Write(a), NEW k \in Jobs, Exists(k) PROVE Exists(k)'
  <2>1. call[a].job \in Jobs /\ call[a].doc # NoJob
    BY <1>2 DEF Write, JobsInv, CallOK
  <2>. QED BY <1>2, <2>1 DEF Write, Exists, JobsInv
<1>3. ASSUME NEW a \in Callers,
             \/ BeginList(a, "claim") \/ BeginList(a, "recover") \/ RecoverStart(a)
             \/ Return(a) \/ Fresh(a) \/ Drop(a)
      PROVE  UNCHANGED file
  BY <1>3 DEF BeginList, RecoverStart, Return, Fresh, Drop, SetCall
<1>4. ASSUME Tick, NEW k \in Jobs, Exists(k) PROVE Exists(k)'
  BY <1>4, AgedGood DEF Tick, JobsInv, Exists
<1>5. UNCHANGED jobVars => UNCHANGED file
  BY DEF jobVars
<1>. QED BY <1>1, <1>2, <1>3, <1>4, <1>5 DEF JobsNext, Exists

\* A step of one caller that keeps its own part keeps Control.
LEMMA OwnStep ==
  ASSUME Control, NEW a \in Callers,
         \A j \in Jobs : Exists(j) => Exists(j)',
         \A b \in Callers : b # a => call'[b] = call[b],
         \A w \in Workers : w # a => pc'[w] = pc[w] /\ at'[w] = at[w] /\ mine'[w] = mine[w],
         PhaseOK(a)', a \in Workers => PlaceOK(a)' /\ CallAt(a)', a \in Clients => ClientAt(a)'
  PROVE  Control'
<1>1. \A b \in Callers : PhaseOK(b)'
  BY DEF Control, PhaseOK
<1>2. \A c \in Clients : ClientAt(c)'
  BY ActorsAssumption DEF Control, ClientAt
<1>3. \A w \in Workers : PlaceOK(w)'
  BY DEF Control, PlaceOK
<1>4. \A w \in Workers : CallAt(w)'
  BY ActorsAssumption DEF Control, CallAt
<1>. QED BY <1>1, <1>2, <1>3, <1>4 DEF Control

\* What a call makes of itself between its first step and its last.
Follows(c, d) ==
  /\ d.op = c.op \/ (d = IdleCall /\ c.op # "claim")
  /\ d.op \in StageOps => d.job = c.job
  /\ d.phase = "idle" <=> d.op = "none"
  /\ d.phase = "list" => d.op \in {"claim", "recover"}
  /\ d.phase = "recover" => d.op = "recover"
  /\ d.phase = "fresh" => d.op \notin {"recover", "complete"}
  /\ d.phase = "write" <=> d.doc # NoJob
  /\ d.phase # "list" => d.found = {}

LEMMA CallingFollows ==
  ASSUME JobsInv, JobsInv', NEW a \in Callers, PhaseOK(a), Calling(a)
  PROVE  Follows(call[a], call'[a])
<1>1. call[a] \in Call /\ CallOK(call[a]) /\ call'[a] \in Call /\ CallOK(call[a])'
  BY DEF JobsInv
<1>2. ASSUME NEW j \in Jobs, ListFile(a, j) PROVE Follows(call[a], call'[a])
  <2>1. PICK todo, found : call'[a] = [call[a] EXCEPT !.todo = todo, !.found = found]
    BY <1>2 DEF ListFile, SetCall, JobsInv
  <2>. QED BY <1>1, <1>2, <2>1 DEF Follows, PhaseOK, ListFile, StageOps, Call
<1>3. ASSUME NEW j \in Jobs, ClaimCheck(a, j) PROVE Follows(call[a], call'[a])
  <2>1. PICK lease, error : call'[a] = [ToFresh(a, "claim", j) EXCEPT !.lease = lease, !.error = error]
    BY <1>3 DEF ClaimCheck, SetCall, JobsInv
  <2>. QED BY <1>3, <2>1 DEF Follows, ToFresh, IdleCall, ClaimCheck, Listed, StageOps
<1>4. ASSUME NEW j \in Jobs, RecoverPatch(a, j) PROVE Follows(call[a], call'[a])
  <2>1. PICK todo, doc : call'[a] = [call[a] EXCEPT !.phase = "write", !.job = j, !.todo = todo, !.doc = doc]
    BY <1>4 DEF RecoverPatch, SetCall, JobsInv
  <2>2. call'[a].phase = "write" => call'[a].doc # NoJob
    BY <1>1 DEF CallOK
  <2>. QED BY <1>1, <1>4, <2>1, <2>2 DEF Follows, PhaseOK, RecoverPatch, StageOps, Call
<1>5. CASE RecoverStart(a)
  <2>1. PICK todo : call'[a] = [call[a] EXCEPT !.phase = "recover", !.found = {}, !.todo = todo]
    BY <1>5 DEF RecoverStart, SetCall, JobsInv
  <2>. QED BY <1>1, <1>5, <2>1 DEF Follows, PhaseOK, RecoverStart, Listed, StageOps, Call
<1>6. CASE Fresh(a)
  <2>1. PICK doc : call'[a] = [call[a] EXCEPT !.phase = "write", !.doc = doc]
    BY <1>6 DEF Fresh, SetCall, JobsInv
  <2>2. call'[a].phase = "write" => call'[a].doc # NoJob
    BY <1>1 DEF CallOK
  <2>. QED BY <1>1, <1>6, <2>1, <2>2 DEF Follows, PhaseOK, Fresh, Call
<1>7. CASE call[a].op # "claim" /\ Write(a)
  <2>1. CASE call[a].op = "recover"
    <3>1. call'[a] = [call[a] EXCEPT !.phase = "recover", !.job = None, !.doc = NoJob]
      BY <1>7, <2>1 DEF Write, JobsInv
    <3>. QED BY <1>1, <1>7, <2>1, <3>1 DEF Follows, PhaseOK, Write, StageOps, Call
  <2>2. CASE call[a].op # "recover"
    <3>1. call'[a] = IdleCall
      BY <1>7, <2>2 DEF Write, JobsInv
    <3>. QED BY <1>7, <3>1 DEF Follows, IdleCall, StageOps
  <2>. QED BY <2>1, <2>2
<1>8. CASE call[a].op # "claim" /\ Return(a)
  <2>1. call'[a] = IdleCall
    BY <1>8 DEF Return, SetCall, JobsInv
  <2>. QED BY <1>8, <2>1 DEF Follows, IdleCall, StageOps
<1>. QED BY <1>2, <1>3, <1>4, <1>5, <1>6, <1>7, <1>8 DEF Calling

LEMMA CallingControl ==
  ASSUME Control, JobsInv, JobsInv', NEW a \in Callers, Calling(a) PROVE Control'
<1>1. [JobsNext]_jobVars
  BY DEF Calling, JobsNext, Method
<1>2. \A j \in Jobs : Exists(j) => Exists(j)'
  BY <1>1, JobsStay
<1>3. pc' = pc /\ at' = at /\ mine' = mine
  BY DEF Calling, workerVars
<1>4. \A b \in Callers : b # a => call'[b] = call[b]
  BY DEF Calling, ListFile, ClaimCheck, RecoverPatch, RecoverStart, Fresh, Write, Return, SetCall,
         JobsInv
<1>5. Follows(call[a], call'[a])
  BY CallingFollows DEF Control
<1>6. PhaseOK(a)'
  BY <1>5 DEF Follows, PhaseOK
<1>7. ASSUME a \in Workers PROVE PlaceOK(a)' /\ CallAt(a)'
  <2>1. PlaceOK(a) /\ CallAt(a)
    BY <1>7 DEF Control
  <2>2. PlaceOK(a)'
    BY <1>2, <1>3, <2>1 DEF PlaceOK
  <2>3. IdleCall.op = "none"
    BY DEF IdleCall
  <2>4. CallAt(a)'
    BY <1>3, <1>5, <2>1, <2>3 DEF CallAt, Follows, StageOps
  <2>. QED BY <2>2, <2>4
<1>8. ASSUME a \in Clients PROVE ClientAt(a)'
  BY <1>5, <1>8 DEF Control, ClientAt, Follows, IdleCall
<1>. QED BY <1>2, <1>3, <1>4, <1>6, <1>7, <1>8, OwnStep

\* What a call is after its first step.
Begun(d, op, j) ==
  /\ d.op = op /\ d.job = j /\ d.found = {}
  /\ d.phase \in {"fresh", "write"} /\ (d.phase = "write" <=> d.doc # NoJob)
  /\ op = "complete" => d.phase = "write"

LEMMA Begins ==
  ASSUME JobsInv, JobsInv', NEW a \in Callers, NEW j \in Jobs
  PROVE  /\ \A s \in Stages : BeginStartStage(a, j, s) => Begun(call'[a], "startStage", j)
         /\ \A s \in Stages : BeginCompleteStage(a, j, s) => Begun(call'[a], "completeStage", j)
         /\ BeginComplete(a, j) => Begun(call'[a], "complete", j)
         /\ BeginMarkFailed(a, j) => Begun(call'[a], "markFailed", j)
         /\ BeginHeartbeat(a, j) => Begun(call'[a], "heartbeat", j)
         /\ BeginCancel(a, j) => Begun(call'[a], "cancel", j)
         /\ BeginRetry(a, j) => Begun(call'[a], "retry", j)
<1>1. CallOK(call[a])'
  BY DEF JobsInv
<1>2. ASSUME NEW op, NEW d, ToWrite(a, op, j, d) PROVE Begun(call'[a], op, j)
  <2>1. call'[a] = [IdleCall EXCEPT !.phase = "write", !.op = op, !.job = j, !.doc = d]
    BY <1>2 DEF ToWrite, SetCall, JobsInv
  <2>2. call'[a].phase = "write" => call'[a].doc # NoJob
    BY <1>1 DEF CallOK
  <2>. QED BY <2>1, <2>2 DEF Begun, IdleCall
<1>3. ASSUME NEW op, NEW r, NEW t, op # "complete",
             \/ SetCall(a, ToFresh(a, op, j)) \/ SetCall(a, [ToFresh(a, op, j) EXCEPT !.retries = r])
             \/ SetCall(a, [ToFresh(a, op, j) EXCEPT !.lease = t])
      PROVE  Begun(call'[a], op, j)
  <2>1. \/ call'[a] = ToFresh(a, op, j) \/ call'[a] = [ToFresh(a, op, j) EXCEPT !.retries = r]
        \/ call'[a] = [ToFresh(a, op, j) EXCEPT !.lease = t]
    BY <1>3 DEF SetCall, JobsInv
  <2>. QED BY <1>3, <2>1 DEF Begun, ToFresh, IdleCall
<1>. QED BY <1>2, <1>3 DEF BeginStartStage, BeginCompleteStage, BeginComplete, BeginMarkFailed,
            BeginHeartbeat, BeginCancel, BeginRetry

\* One caller acts.
LEMMA OneCaller ==
  ASSUME JobsInv, NEW a \in Callers,
         \/ \E j \in Jobs : Method(a, j)
         \/ BeginList(a, "claim") \/ BeginList(a, "recover") \/ RecoverStart(a)
         \/ Return(a) \/ Fresh(a) \/ Write(a) \/ Drop(a) \/ UNCHANGED jobVars
  PROVE  \A b \in Callers : b # a => call'[b] = call[b]
BY DEF Method, Create, BeginStartStage, BeginCompleteStage, BeginComplete, BeginFail, BeginMarkFailed,
       BeginCancel, BeginRetry, BeginHeartbeat, ListFile, ClaimCheck, RecoverPatch, ToWrite, SetCall,
       BeginList, RecoverStart, Return, Fresh, Write, Drop, JobsInv, jobVars

LEMMA ClientControl ==
  ASSUME Control, JobsInv, JobsInv', NEW c \in Clients,
         FailRequest(c) \/ \E j \in Jobs : Enqueue(c, j) \/ CancelJob(c, j) \/ RetryJob(c, j)
  PROVE  Control'
<1>1. c \in Callers /\ c \notin Workers
  BY ActorsAssumption
<1>2. (\E j \in Jobs : Method(c, j)) \/ Drop(c)
  BY DEF FailRequest, Enqueue, CancelJob, RetryJob, Method
<1>3. \A j \in Jobs : Exists(j) => Exists(j)'
  BY <1>1, <1>2, JobsStay DEF JobsNext
<1>4. \A b \in Callers : b # c => call'[b] = call[b]
  BY <1>1, <1>2, OneCaller
<1>5. pc' = pc /\ at' = at /\ mine' = mine
  BY DEF FailRequest, Enqueue, CancelJob, RetryJob, workerVars
<1>6. \/ call'[c] = call[c] \/ call'[c] = IdleCall
      \/ \E j \in Jobs : Begun(call'[c], "cancel", j) \/ Begun(call'[c], "retry", j)
  BY <1>1, Begins DEF FailRequest, Enqueue, CancelJob, RetryJob, Create, Drop, JobsInv
<1>7. ClientAt(c) /\ PhaseOK(c)
  BY <1>1 DEF Control
<1>8. ClientAt(c)' /\ PhaseOK(c)'
  BY <1>6, <1>7 DEF ClientAt, PhaseOK, IdleCall, Begun
<1>. QED BY <1>1, <1>3, <1>4, <1>5, <1>8, OwnStep

LEMMA TickControl == ASSUME Control, JobsInv, Advance PROVE Control'
<1>1. \A a \in Callers : call'[a] = AgedCall(call[a])
  BY DEF Advance, Tick
<1>2. \A j \in Jobs : Exists(j) => Exists(j)'
  BY JobsStay DEF Advance, JobsNext
<1>3. pc' = pc /\ at' = at /\ mine' = mine
  BY DEF Advance, workerVars
<1>4. ASSUME NEW a \in Callers
      PROVE  /\ call'[a].phase = call[a].phase /\ call'[a].op = call[a].op
             /\ call'[a].job = call[a].job /\ (call'[a].doc = NoJob <=> call[a].doc = NoJob)
             /\ call[a].found = {} => call'[a].found = {}
  <2>1. call[a] \in Call /\ CallOK(call[a])
    BY DEF JobsInv
  <2>. DEFINE c == call[a]
              lease == IF c.op \in {"claim", "heartbeat"} THEN Older(c.lease) ELSE c.lease
              older == {[f EXCEPT !.left = Older(@)] : f \in c.found}
              found == IF c.op = "recover" THEN older ELSE c.found
  <2>2. AgedCall(c) = [c EXCEPT !.doc = Aged(c.doc), !.lease = lease, !.found = found]
    BY DEF AgedCall
  <2>3. c.found = {} => found = {}
    OBVIOUS
  <2>. HIDE DEF c, lease, found
  <2>4. Aged(call[a].doc) = NoJob <=> call[a].doc = NoJob
    BY <2>1, AgedGood DEF CallOK, Aged
  <2>. QED BY <1>1, <2>1, <2>2, <2>3, <2>4 DEF Call, c
<1>5. \A a \in Callers : PhaseOK(a)'
  BY <1>4 DEF Control, PhaseOK
<1>6. \A c \in Clients : ClientAt(c)'
  BY <1>4, ActorsAssumption DEF Control, ClientAt
<1>7. \A w \in Workers : PlaceOK(w)'
  BY <1>2, <1>3 DEF Control, PlaceOK
<1>8. \A w \in Workers : CallAt(w)'
  BY <1>3, <1>4, ActorsAssumption DEF Control, CallAt
<1>. QED BY <1>5, <1>6, <1>7, <1>8 DEF Control

\* What a step of a worker leaves alone.
LEMMA WorkerFrame ==
  ASSUME Control, JobsInv, NEW w \in Workers, Work(w) \/ Throw(w) \/ Crash(w)
  PROVE  /\ w \in Callers
         /\ \A j \in Jobs : Exists(j) => Exists(j)'
         /\ \A b \in Callers : b # w => call'[b] = call[b]
<1>1. w \in Callers
  BY ActorsAssumption
<1>2. [JobsNext]_jobVars
  BY WorkerStep
<1>3. \A j \in Jobs : Exists(j) => Exists(j)'
  BY <1>2, JobsStay
<1>4. (Throw(w) \/ Crash(w)) => Drop(w)
  BY DEF Throw, Crash
<1>5. Work(w) => \/ \E j \in Jobs : Method(w, j)
                 \/ BeginList(w, "claim") \/ BeginList(w, "recover") \/ Return(w) \/ Write(w)
                 \/ UNCHANGED jobVars
  <2>1. CASE Boot(w) \/ Claim(w) \/ ClaimNothing(w) \/ ClaimJob(w)
    BY <2>1 DEF Boot, Claim, ClaimNothing, ClaimJob
  <2>2. CASE Enter(w) \/ Policy(w) \/ Discover(w) \/ WriteDossier(w) \/ RecordDossier(w)
             \/ RecordCompleted(w) \/ Leave(w) \/ RecordFailure(w) \/ Finished(w)
    BY <2>2 DEF Enter, Policy, Discover, WriteDossier, RecordDossier, RecordCompleted, Leave,
                RecordFailure, Finished
  <2>3. CASE StartStage(w) \/ FinishStage(w) \/ Heartbeat(w) \/ Complete(w) \/ MarkFailed(w)
    <3>1. mine[w] \in Jobs /\ at[w] \in Stages
      BY <2>3 DEF StartStage, FinishStage, Heartbeat, Beat, Complete, MarkFailed, At, Control, PlaceOK,
                  Holding
    <3>. QED BY <2>3, <3>1 DEF StartStage, FinishStage, Heartbeat, Beat, Complete, MarkFailed, Method
  <2>. QED BY <2>1, <2>2, <2>3 DEF Work
<1>6. \A b \in Callers : b # w => call'[b] = call[b]
  BY <1>1, <1>4, <1>5, OneCaller
<1>. QED BY <1>1, <1>3, <1>6

LEMMA WorkerTypes ==
  ASSUME pc \in [Workers -> Labels], at \in [Workers -> Stages \cup {None}],
         mine \in [Workers -> Jobs \cup {None}], Control, JobsInv,
         NEW w \in Workers, Work(w) \/ Throw(w) \/ Crash(w)
  PROVE  /\ pc' \in [Workers -> Labels] /\ at' \in [Workers -> Stages \cup {None}]
         /\ mine' \in [Workers -> Jobs \cup {None}]
         /\ \A x \in Workers : x # w => pc'[x] = pc[x] /\ at'[x] = at[x] /\ mine'[x] = mine[x]
<1>1. PICK p \in Labels, s \in Stages \cup {None}, j \in Jobs \cup {None} :
        /\ pc' = [pc EXCEPT ![w] = p]
        /\ at' = [at EXCEPT ![w] = s]
        /\ mine' = [mine EXCEPT ![w] = j]
  <2>0. pc[w] \in Labels /\ at[w] \in Stages \cup {None} /\ mine[w] \in Jobs \cup {None}
    OBVIOUS
  <2>1. CASE ClaimJob(w)
    <3>1. call[w].job \in Jobs
      BY <2>1, ActorsAssumption DEF ClaimJob, Write, JobsInv, CallOK
    <3>2. "policy" \in Stages /\ "enter" \in Labels
      BY StagesAssumption DEF WhoStages, Labels
    <3>. QED BY <2>1, <3>1, <3>2 DEF ClaimJob, Goto
  <2>2. CASE FinishStage(w)
    <3>1. at[w] \in Stages
      BY <2>2 DEF FinishStage, At, Control, PlaceOK, Holding
    <3>2. at[w] # "audit" => NextStage[at[w]] \in Stages
      BY <3>1, StagesAssumption DEF WhoStages, NextStage
    <3>3. "complete" \in Labels /\ "enter" \in Labels
      BY DEF Labels
    <3>4. mine' = [mine EXCEPT ![w] = mine[w]]
      BY <2>2 DEF FinishStage
    <3>5. CASE at[w] = "audit"
      <4>1. at' = [at EXCEPT ![w] = at[w]] /\ pc' = [pc EXCEPT ![w] = "complete"]
        BY <2>2, <3>5 DEF FinishStage, Goto
      <4>. QED BY <2>0, <3>3, <3>4, <4>1
    <3>6. CASE at[w] # "audit"
      <4>1. at' = [at EXCEPT ![w] = NextStage[at[w]]] /\ pc' = [pc EXCEPT ![w] = "enter"]
        BY <2>2, <3>6 DEF FinishStage, Goto
      <4>. QED BY <2>0, <3>2, <3>3, <3>4, <3>6, <4>1
    <3>. QED BY <3>5, <3>6
  <2>3. CASE Finished(w) \/ Crash(w) \/ ((Enter(w) \/ Leave(w)) /\ Cancelled(w))
    <3>1. /\ pc' = [pc EXCEPT ![w] = "poll"] \/ pc' = [pc EXCEPT ![w] = "boot"]
          /\ at' = [at EXCEPT ![w] = None] /\ mine' = [mine EXCEPT ![w] = None]
      BY <2>3 DEF Finished, Crash, Enter, Leave, Abandon
    <3>. QED BY <3>1 DEF Labels
  <2>4. CASE ~(ClaimJob(w) \/ FinishStage(w) \/ Finished(w) \/ Crash(w))
             /\ ~((Enter(w) \/ Leave(w)) /\ Cancelled(w))
    <3>1. at' = at /\ mine' = mine
      BY <2>4 DEF Work, Boot, Claim, ClaimNothing, Enter, StartStage, Heartbeat, Beat, Policy, Discover,
         WriteDossier, RecordDossier, RecordCompleted, Leave, Complete, RecordFailure, MarkFailed, Throw,
         Stay
    <3>2. \E p \in Labels : pc' = [pc EXCEPT ![w] = p]
      BY <2>4 DEF Work, Boot, Claim, ClaimNothing, Enter, StartStage, Heartbeat, Beat, Policy, Discover,
         WriteDossier, RecordDossier, RecordCompleted, Leave, Complete, RecordFailure, MarkFailed, Throw,
         Goto, Labels
    <3>3. at' = [at EXCEPT ![w] = at[w]] /\ mine' = [mine EXCEPT ![w] = mine[w]]
      BY <3>1
    <3>. QED BY <2>0, <3>2, <3>3
  <2>. QED BY <2>1, <2>2, <2>3, <2>4
<1>. QED BY <1>1

WorkerTypesOK ==
  /\ pc \in [Workers -> Labels]
  /\ at \in [Workers -> Stages \cup {None}]
  /\ mine \in [Workers -> Jobs \cup {None}]

LEMMA WorkControl ==
  ASSUME WorkerTypesOK, Control, JobsInv, JobsInv', NEW w \in Workers, Work(w) \/ Throw(w) \/ Crash(w)
  PROVE  WorkerTypesOK' /\ Control'
<1>1. /\ w \in Callers /\ w \notin Clients
      /\ \A j \in Jobs : Exists(j) => Exists(j)'
      /\ \A b \in Callers : b # w => call'[b] = call[b]
  BY WorkerFrame, ActorsAssumption
<1>2. /\ WorkerTypesOK'
      /\ \A x \in Workers : x # w => pc'[x] = pc[x] /\ at'[x] = at[x] /\ mine'[x] = mine[x]
  BY WorkerTypes DEF WorkerTypesOK
<1>3. PlaceOK(w) /\ CallAt(w) /\ PhaseOK(w) /\ pc[w] \in Labels /\ pc'[w] \in Labels
  BY <1>1, <1>2 DEF Control, WorkerTypesOK
<1>4. Stages = WhoStages
  BY StagesAssumption
<1>5. SUFFICES PlaceOK(w)' /\ CallAt(w)' /\ PhaseOK(w)'
  BY <1>1, <1>2, OwnStep
<1>6. CASE Boot(w) \/ Claim(w)
  <2>1. /\ call'[w].phase = "list" /\ call'[w].doc = NoJob
        /\ \/ Boot(w) /\ call'[w].op = "recover" /\ pc'[w] = "poll"
           \/ Claim(w) /\ call'[w].op = "claim" /\ pc'[w] = "claiming"
        /\ at' = at /\ mine' = mine
    <3>1. ASSUME NEW op, BeginList(w, op)
          PROVE  call'[w].phase = "list" /\ call'[w].op = op /\ call'[w].doc = NoJob
      <4>1. PICK todo : SetCall(w, [IdleCall EXCEPT !.phase = "list", !.op = op, !.lease = LeaseTicks, !.todo = todo])
        BY <3>1 DEF BeginList
      <4>2. call'[w] = [IdleCall EXCEPT !.phase = "list", !.op = op, !.lease = LeaseTicks, !.todo = todo]
        BY <1>1, <4>1 DEF SetCall, JobsInv
      <4>. QED BY <4>2 DEF IdleCall
    <3>2. CASE Boot(w)
      BY <3>1, <3>2 DEF Boot, Goto, Stay, WorkerTypesOK
    <3>3. CASE Claim(w)
      BY <3>1, <3>3 DEF Claim, Goto, Stay, WorkerTypesOK
    <3>. QED BY <1>6, <3>2, <3>3
  <2>2. pc[w] \in {"boot", "poll"}
    BY <1>6 DEF Boot, Claim, At
  <2>. QED BY <1>1, <1>3, <2>1, <2>2 DEF PlaceOK, CallAt, PhaseOK, Holding, StageOps, Labels
<1>7. CASE ClaimNothing(w) \/ Crash(w)
  <2>1. /\ call'[w] = IdleCall /\ pc'[w] \in {"poll", "boot"}
        /\ mine'[w] = None /\ at'[w] = None
    BY <1>1, <1>3, <1>7 DEF ClaimNothing, Return, SetCall, Goto, Stay, Crash, Drop, PlaceOK, JobsInv, WorkerTypesOK
  <2>. QED BY <2>1 DEF PlaceOK, CallAt, PhaseOK, Holding, StageOps, Labels, IdleCall
<1>8. CASE ClaimJob(w)
  <2>1. /\ call[w].op = "claim" /\ call'[w] = IdleCall /\ pc'[w] = "enter" /\ at'[w] = "policy"
        /\ mine'[w] = call[w].job
    BY <1>1, <1>3, <1>8 DEF ClaimJob, Write, CallAt, Goto, JobsInv, WorkerTypesOK
  <2>2. call[w].job \in Jobs /\ Exists(call[w].job)
    BY <1>1, <1>8 DEF ClaimJob, Write, JobsInv, CallOK
  <2>. QED BY <1>1, <1>4, <2>1, <2>2 DEF PlaceOK, CallAt, PhaseOK, Holding, StageOps, Labels, IdleCall, WhoStages
<1>9. CASE ((Enter(w) \/ Leave(w)) /\ Cancelled(w)) \/ Finished(w)
  <2>1. /\ call'[w] = call[w] /\ Idle(w) /\ pc'[w] = "poll" /\ mine'[w] = None /\ at'[w] = None
    BY <1>9 DEF Enter, Leave, Finished, Abandon, jobVars, At, WorkerTypesOK
  <2>. QED BY <1>3, <2>1 DEF PlaceOK, CallAt, PhaseOK, Holding, StageOps, Labels, Idle
<1>10. CASE \/ ((Enter(w) \/ Leave(w)) /\ ~Cancelled(w)) \/ Policy(w) \/ Discover(w) \/ WriteDossier(w)
            \/ RecordDossier(w) \/ RecordCompleted(w) \/ RecordFailure(w)
  <2>1. /\ call' = call /\ Idle(w) /\ at' = at /\ mine' = mine /\ pc[w] \in Holding
        /\ pc'[w] \in {"start", "leave", "finish", "record", "markFailed"}
        /\ pc'[w] = "record" => at[w] = "dossier"
    BY <1>10 DEF Enter, Leave, Policy, Discover, WriteDossier, RecordDossier, RecordCompleted, RecordFailure,
                 At, Goto, Stay, jobVars, Holding, WorkerTypesOK
  <2>. QED BY <1>1, <1>3, <2>1 DEF PlaceOK, CallAt, PhaseOK, Holding, StageOps, Labels, Idle
<1>11. CASE StartStage(w) \/ FinishStage(w) \/ Heartbeat(w) \/ Complete(w) \/ MarkFailed(w)
  <2>1. /\ Idle(w) /\ pc[w] \in Holding /\ mine[w] \in Jobs /\ at[w] \in Stages /\ Exists(mine[w])'
        /\ mine'[w] = mine[w]
    BY <1>1, <1>3, <1>11 DEF StartStage, FinishStage, Heartbeat, Beat, Complete, MarkFailed, At, Stay, PlaceOK,
       Holding, WorkerTypesOK
  <2>2. \/ StartStage(w) /\ pc'[w] = "beat" /\ at'[w] = at[w]
           /\ (call' = call \/ Begun(call'[w], "startStage", mine[w]))
        \/ FinishStage(w) /\ (call' = call \/ Begun(call'[w], "completeStage", mine[w]))
        \/ Heartbeat(w) /\ (call' = call \/ Begun(call'[w], "heartbeat", mine[w])) /\ at'[w] = at[w]
        \/ Complete(w) /\ pc'[w] = "end" /\ at'[w] = at[w] /\ Begun(call'[w], "complete", mine[w])
        \/ MarkFailed(w) /\ pc'[w] = "end" /\ at'[w] = at[w] /\ Begun(call'[w], "markFailed", mine[w])
    BY <1>1, <1>11, <2>1, Begins DEF StartStage, FinishStage, Heartbeat, Beat, Complete, MarkFailed, Goto, Stay,
       jobVars, WorkerTypesOK
  <2>3. FinishStage(w) => \/ at[w] = "audit" /\ at'[w] = "audit" /\ pc'[w] = "complete"
                          \/ at'[w] \in Stages /\ pc'[w] = "enter"
    BY <1>4, <2>1 DEF FinishStage, Goto, WorkerTypesOK, WhoStages, NextStage
  <2>4. Heartbeat(w) => pc'[w] = "work" \/ (pc'[w] = "beat2" /\ at[w] = "discover")
    BY DEF Heartbeat, Beat, Goto, WorkerTypesOK
  <2>5. call'[w] = call[w] => call'[w].op = "none"
    BY <1>3, <2>1 DEF PhaseOK, Idle
  <2>6. CASE call'[w].op = "none"
    <3>1. call'[w] = call[w]
      BY <2>2, <2>6 DEF Begun
    <3>. QED BY <1>3, <2>1, <2>2, <2>3, <2>4, <2>6, <3>1 DEF PlaceOK, CallAt, PhaseOK, Holding, StageOps, Labels, Begun
  <2>7. CASE call'[w].op # "none"
    <3>1. PhaseOK(w)' /\ call'[w].job = mine[w] /\ call'[w].op \in StageOps
      BY <2>2, <2>5, <2>7 DEF Begun, PhaseOK, StageOps
    <3>2. CallAt(w)'
      BY <1>3, <2>1, <2>2, <2>3, <2>4, <2>5, <2>7, <3>1 DEF CallAt, Begun, StageOps, Holding
    <3>3. PlaceOK(w)'
      BY <1>3, <2>1, <2>2, <2>3, <2>4 DEF PlaceOK, Holding, Labels
    <3>. QED BY <3>1, <3>2, <3>3
  <2>. QED BY <2>6, <2>7
<1>12. CASE Throw(w)
  <2>1. call'[w] = IdleCall /\ pc'[w] = "failed" /\ at' = at /\ mine' = mine
    BY <1>1, <1>12 DEF Throw, Drop, Goto, Stay, JobsInv, WorkerTypesOK
  <2>2. pc[w] \in Holding \cup {"end"}
    BY <1>3, <1>12 DEF Throw, Holding, CallAt
  <2>. QED BY <1>1, <1>3, <2>1, <2>2 DEF PlaceOK, CallAt, PhaseOK, Holding, StageOps, Labels, IdleCall
<1>. QED BY <1>6, <1>7, <1>8, <1>9, <1>10, <1>11, <1>12 DEF Work

Actions == {"who.requested", "dossier.written", "who.completed", "who.failed"}

CountsOK ==
  /\ dossiers \in [Jobs -> 0..MaxDossiers]
  /\ trail \in [Jobs -> SUBSET Actions]
  /\ crashes \in 0..MaxCrashes /\ faults \in 0..MaxFaults

\* What a step makes of the counters and of the audit trail.
LEMMA Effects ==
  ASSUME Control, CountsOK, [Next]_vars
  PROVE  /\ CountsOK'
         /\ \A j \in Jobs : dossiers[j] > 0 => dossiers'[j] > 0
         /\ \A j \in Jobs : trail[j] \subseteq trail'[j]
<1>1. CASE NoEffect
  BY <1>1 DEF NoEffect, CountsOK
<1>2. ASSUME NEW w \in Workers, Throw(w) \/ Crash(w) PROVE CountsOK' /\ UNCHANGED effectVars
  BY <1>2, BoundsAssumption DEF Throw, Crash, CountsOK, effectVars
<1>3. ASSUME NEW c \in Clients, FailRequest(c) PROVE CountsOK' /\ UNCHANGED effectVars
  BY <1>3, BoundsAssumption DEF FailRequest, CountsOK, effectVars
<1>4. ASSUME NEW w \in Workers, WriteDossier(w)
      PROVE  /\ CountsOK' /\ trail' = trail
             /\ \A j \in Jobs : dossiers[j] > 0 => dossiers'[j] > 0
  <2>1. PICK n \in 0..MaxDossiers : /\ dossiers' = [dossiers EXCEPT ![mine[w]] = n]
                                    /\ mine[w] \in Jobs /\ n >= dossiers[mine[w]]
    <3>1. mine[w] \in Jobs
      BY <1>4 DEF WriteDossier, At, Control, PlaceOK, Holding
    <3>2. dossiers[mine[w]] \in 0..MaxDossiers
      BY <3>1 DEF CountsOK
    <3>3. dossiers' = [dossiers EXCEPT ![mine[w]] = IF dossiers[mine[w]] < MaxDossiers THEN dossiers[mine[w]] + 1
                                                    ELSE dossiers[mine[w]]]
      BY <1>4 DEF WriteDossier
    <3>4. PICK n : n = IF dossiers[mine[w]] < MaxDossiers THEN dossiers[mine[w]] + 1 ELSE dossiers[mine[w]]
      OBVIOUS
    <3>5. n \in 0..MaxDossiers /\ n >= dossiers[mine[w]]
      BY <3>2, <3>4, BoundsAssumption
    <3>6. dossiers' = [dossiers EXCEPT ![mine[w]] = n]
      BY <3>3, <3>4
    <3>. QED BY <3>1, <3>5, <3>6
  <2>2. UNCHANGED <<trail, crashes, faults>>
    BY <1>4 DEF WriteDossier
  <2>. QED BY <2>1, <2>2, BoundsAssumption DEF CountsOK
<1>5. ASSUME NEW w \in Workers, NEW action \in Actions, Record(w, action), mine[w] \in Jobs,
             UNCHANGED <<dossiers, crashes, faults>>
      PROVE  CountsOK' /\ \A j \in Jobs : trail[j] \subseteq trail'[j]
  <2>1. trail' = [trail EXCEPT ![mine[w]] = trail[mine[w]] \cup {action}]
    BY <1>5 DEF Record
  <2>. QED BY <1>5, <2>1 DEF CountsOK
<1>6. ASSUME NEW w \in Workers, Policy(w) \/ RecordDossier(w) \/ RecordCompleted(w) \/ RecordFailure(w)
      PROVE  /\ CountsOK' /\ dossiers' = dossiers
             /\ \A j \in Jobs : trail[j] \subseteq trail'[j]
  <2>1. mine[w] \in Jobs /\ UNCHANGED <<dossiers, crashes, faults>>
    BY <1>6 DEF Policy, RecordDossier, RecordCompleted, RecordFailure, At, Control, PlaceOK, Holding
  <2>2. (\E action \in Actions : Record(w, action)) \/ UNCHANGED trail
    BY <1>6 DEF Policy, RecordDossier, RecordCompleted, RecordFailure, Actions
  <2>3. UNCHANGED trail => CountsOK' /\ \A j \in Jobs : trail[j] \subseteq trail'[j]
    BY <2>1 DEF CountsOK
  <2>. QED BY <1>5, <2>1, <2>2, <2>3
<1>7. \/ NoEffect
      \/ \E w \in Workers : \/ Throw(w) \/ Crash(w) \/ WriteDossier(w) \/ Policy(w)
                            \/ RecordDossier(w) \/ RecordCompleted(w) \/ RecordFailure(w)
      \/ \E c \in Clients : FailRequest(c)
  BY DEF Next, vars, NoEffect, Calling, Work, Boot, Claim, ClaimNothing, ClaimJob, Enter, StartStage, Heartbeat,
         Beat, Discover, Leave, FinishStage, Complete, MarkFailed, Finished, Enqueue, CancelJob, RetryJob, Advance
<1>. QED BY <1>1, <1>2, <1>3, <1>4, <1>6, <1>7 DEF effectVars

TypesIInv == JobsInv /\ Control /\ WorkerTypesOK /\ CountsOK

LEMMA TypesInit == Init => TypesIInv
<1>. SUFFICES ASSUME Init PROVE TypesIInv
  OBVIOUS
<1>1. JobsInv
  BY InitInv DEF Init
<1>2. \A a \in Callers : call[a] = IdleCall
  BY DEF Init, JobsInit
<1>3. Control
  BY <1>2, ActorsAssumption DEF Init, Control, PlaceOK, CallAt, ClientAt, PhaseOK, Labels, Holding, IdleCall, StageOps
<1>4. WorkerTypesOK /\ CountsOK
  BY BoundsAssumption DEF Init, WorkerTypesOK, CountsOK, Labels
<1>. QED BY <1>1, <1>3, <1>4 DEF TypesIInv

LEMMA TypesStep == TypesIInv /\ [Next]_vars => TypesIInv'
<1>. SUFFICES ASSUME TypesIInv, [Next]_vars PROVE TypesIInv'
  OBVIOUS
<1>1. JobsInv'
  BY IsJobsStep, NextInv DEF TypesIInv
<1>2. CountsOK'
  BY Effects DEF TypesIInv
<1>3. ASSUME NEW a \in Callers, Calling(a) PROVE Control' /\ WorkerTypesOK'
  BY <1>1, <1>3, CallingControl DEF TypesIInv, Calling, workerVars, WorkerTypesOK
<1>4. ASSUME NEW w \in Workers, Work(w) \/ Throw(w) \/ Crash(w) PROVE Control' /\ WorkerTypesOK'
  BY <1>1, <1>4, WorkControl DEF TypesIInv
<1>5. ASSUME NEW c \in Clients,
             FailRequest(c) \/ \E j \in Jobs : Enqueue(c, j) \/ CancelJob(c, j) \/ RetryJob(c, j)
      PROVE  Control' /\ WorkerTypesOK'
  <2>1. Control'
    BY <1>1, <1>5, ClientControl DEF TypesIInv
  <2>. QED BY <1>5, <2>1 DEF TypesIInv, FailRequest, Enqueue, CancelJob, RetryJob, workerVars, WorkerTypesOK
<1>6. ASSUME Advance PROVE Control' /\ WorkerTypesOK'
  <2>1. Control'
    BY <1>6, TickControl DEF TypesIInv
  <2>2. WorkerTypesOK'
    BY <1>6 DEF TypesIInv, Advance, workerVars, WorkerTypesOK
  <2>. QED BY <2>1, <2>2
<1>7. ASSUME UNCHANGED vars PROVE Control' /\ WorkerTypesOK'
  <2>1. file' = file /\ call' = call /\ pc' = pc /\ at' = at /\ mine' = mine
    BY <1>7 DEF vars
  <2>2. \A w \in Workers : PlaceOK(w)' /\ CallAt(w)'
    BY <2>1 DEF TypesIInv, Control, PlaceOK, CallAt, Exists
  <2>3. (\A c \in Clients : ClientAt(c)') /\ \A a \in Callers : PhaseOK(a)'
    BY <2>1 DEF TypesIInv, Control, ClientAt, PhaseOK
  <2>4. WorkerTypesOK'
    BY <2>1 DEF TypesIInv, WorkerTypesOK
  <2>. QED BY <2>2, <2>3, <2>4 DEF Control
<1>8. Control' /\ WorkerTypesOK'
  BY <1>3, <1>4, <1>5, <1>6, <1>7 DEF Next
<1>. QED BY <1>1, <1>2, <1>8 DEF TypesIInv

LEMMA TypesInvariance == Spec => []TypesIInv
BY TypesInit, TypesStep, PTL DEF Spec

\* The variables of any number of workers and clients keep their types
\* (whoWorker.ts:51-286, CaspaJobService.ts:13-45).
THEOREM Types == Spec => []TypeOK
<1>1. TypesIInv => TypeOK
  BY DEF TypesIInv, TypeOK, JobsInv, JobsTypeOK, WorkerTypesOK, CountsOK, Actions
<1>. QED BY <1>1, TypesInvariance, PTL

-------------------------------------------------------------------------------
(* A result is backed by a dossier and by the audit trail.  What makes it   *)
(* inductive: the documents about to be written are backed too, and a       *)
(* worker has done all that lies before the place it is at.                 *)
Backed(j) ==
  /\ dossiers[j] > 0
  /\ {"who.requested", "dossier.written", "who.completed"} \subseteq trail[j]

PastPolicy(w)  == at[w] \in {"discover", "dossier", "audit"} \/ (at[w] = "policy" /\ pc[w] \in {"leave", "finish"})
PastDossier(w) == at[w] = "audit" \/ (at[w] = "dossier" /\ pc[w] \in {"leave", "finish"})
PastAudit(w)   == at[w] = "audit" /\ pc[w] \in {"leave", "finish", "complete"}

DoneSoFar(w) ==
  /\ PastPolicy(w) => "who.requested" \in trail[mine[w]]
  /\ PastDossier(w) \/ pc[w] = "record" => dossiers[mine[w]] > 0
  /\ PastDossier(w) => "dossier.written" \in trail[mine[w]]
  /\ PastAudit(w) => "who.completed" \in trail[mine[w]]
  /\ call[w].op = "complete" => Backed(mine[w])

DocsBacked ==
  /\ \A j \in Jobs : Exists(j) /\ file[j].result => Backed(j)
  /\ \A a \in Callers : call[a].phase = "write" /\ call[a].doc.result => Backed(call[a].job)

BackedIInv == TypesIInv /\ (\A w \in Workers : DoneSoFar(w)) /\ DocsBacked

\* A result in a file or in a document about to be written comes from one of them,
\* or is the result of a completion.
Sourced ==
  /\ \A j \in Jobs : Exists(j)' /\ file'[j].result =>
       \/ Exists(j) /\ file[j].result
       \/ \E b \in Callers : call[b].phase = "write" /\ call[b].job = j /\ call[b].doc.result
  /\ \A b \in Callers : call'[b].phase = "write" /\ call'[b].doc.result =>
       \/ call[b].phase = "write" /\ call[b].job = call'[b].job /\ call[b].doc.result
       \/ call'[b].job \in Jobs /\ Exists(call'[b].job) /\ file[call'[b].job].result
       \/ call'[b].op = "complete"

LEMMA AgedResult == ASSUME NEW d \in Job PROVE Aged(d).result = d.result
<1>1. Aged(d) = d \/ \E t : Aged(d) = [d EXCEPT !.leaseUntil = t]
  BY DEF Aged
<1>. QED BY <1>1 DEF Job

LEMMA PatchedResult ==
  ASSUME NEW a, NEW c, NEW d \in Job, Patched(a, c, d).result PROVE d.result
<1>1. \A st : Stopped(d, st).result => d.result
  BY DEF Stopped, NoLease, Job
<1>2. \A n : ~Requeued(d, n).result
  <2>1. SUFFICES ASSUME NEW n PROVE Requeued(d, n).result = FALSE
    OBVIOUS
  <2>. QED BY DEF Requeued, NoLease, Job
<1>3. \A t, error : Claimed(d, a, t, error).result => d.result
  BY DEF Claimed, Leased, Job
<1>4. \A t : Leased(d, a, t).result => d.result
  BY DEF Leased, Job
<1>. QED BY <1>1, <1>2, <1>3, <1>4 DEF Patched

LEMMA ResultsAreSourced == ASSUME JobsInv, [JobsNext]_jobVars PROVE Sourced
<1>0. \A a \in Callers : CallOK(call[a]) /\ call[a] \in Call
  BY DEF JobsInv
<1>1. ASSUME NEW a \in Callers, NEW c, SetCall(a, c),
             c.phase = "write" /\ c.doc.result =>
                \/ c.job \in Jobs /\ Exists(c.job) /\ file[c.job].result
                \/ c.op = "complete"
                \/ call[a].phase = "write" /\ call[a].job = c.job /\ call[a].doc.result
      PROVE  Sourced
  BY <1>1 DEF Sourced, SetCall, JobsInv, Exists
<1>2. ASSUME NEW a \in Callers, NEW op, NEW j \in Jobs, NEW d, Exists(j), ToWrite(a, op, j, d),
             d.result => file[j].result \/ op = "complete"
      PROVE  Sourced
  <2>1. PICK c : c = [IdleCall EXCEPT !.phase = "write", !.op = op, !.job = j, !.doc = d]
    OBVIOUS
  <2>2. SetCall(a, c) /\ c.op = op /\ c.job = j /\ c.doc = d
    BY <1>2, <2>1 DEF ToWrite, IdleCall
  <2>. QED BY <1>1, <1>2, <2>2
<1>3. ASSUME NEW a \in Callers, NEW c, SetCall(a, c), c.phase # "write" PROVE Sourced
  BY <1>1, <1>3
<1>4. ASSUME NEW a \in Callers, NEW j \in Jobs, Method(a, j) PROVE Sourced
  <2>0. Exists(j) => file[j] \in Job
    BY DEF JobsInv, Good
  <2>1. CASE Create(a, j)
    BY <2>1 DEF Create, Sourced, Exists, JobsInv, NewJob
  <2>2. ASSUME NEW s \in Stages, BeginStartStage(a, j, s) \/ BeginCompleteStage(a, j, s) PROVE Sourced
    <3>1. Exists(j)
      BY <2>2 DEF BeginStartStage, BeginCompleteStage, StageReturns
    <3>2. Started(file[j], s).result = file[j].result /\ StageDone(file[j], s).result = file[j].result
      BY <2>0, <3>1 DEF Started, StageDone, Job
    <3>. QED BY <1>2, <2>2, <3>1, <3>2 DEF BeginStartStage, BeginCompleteStage
  <2>3. CASE BeginComplete(a, j)
    BY <1>2, <2>3 DEF BeginComplete
  <2>4. CASE BeginFail(a, j) \/ BeginMarkFailed(a, j) \/ BeginCancel(a, j) \/ BeginRetry(a, j) \/ BeginHeartbeat(a, j)
    <3>1. \A op, r : /\ ToFresh(a, op, j).phase # "write"
                     /\ [ToFresh(a, op, j) EXCEPT !.retries = r].phase # "write"
                     /\ [ToFresh(a, op, j) EXCEPT !.lease = r].phase # "write"
      BY DEF ToFresh, IdleCall
    <3>2. CASE BeginFail(a, j) \/ BeginMarkFailed(a, j) \/ BeginCancel(a, j)
      BY <1>3, <3>1, <3>2 DEF BeginFail, BeginMarkFailed, BeginCancel
    <3>3. CASE BeginRetry(a, j)
      BY <1>3, <3>1, <3>3 DEF BeginRetry
    <3>4. CASE BeginHeartbeat(a, j)
      BY <1>3, <3>1, <3>4 DEF BeginHeartbeat
    <3>. QED BY <2>4, <3>2, <3>3, <3>4
  <2>5. CASE ListFile(a, j)
    <3>1. PICK todo, found : SetCall(a, [call[a] EXCEPT !.todo = todo, !.found = found])
      BY <2>5 DEF ListFile
    <3>. QED BY <1>0, <1>3, <2>5, <3>1 DEF ListFile, Call
  <2>6. CASE ClaimCheck(a, j)
    <3>1. PICK lease, error : SetCall(a, [ToFresh(a, "claim", j) EXCEPT !.lease = lease, !.error = error])
      BY <2>6 DEF ClaimCheck
    <3>. QED BY <1>3, <3>1 DEF ToFresh, IdleCall
  <2>7. CASE RecoverPatch(a, j)
    <3>1. PICK todo : SetCall(a, [call[a] EXCEPT !.phase = "write", !.job = j, !.todo = todo,
                                                 !.doc = Stopped(file[j], "partial")])
      BY <2>7 DEF RecoverPatch
    <3>2. Exists(j)
      BY <1>0, <2>7 DEF RecoverPatch, CallOK
    <3>3. Stopped(file[j], "partial").result => file[j].result
      BY <2>0, <3>2 DEF Stopped, NoLease, Job
    <3>. QED BY <1>0, <1>1, <3>1, <3>2, <3>3 DEF Call
  <2>. QED BY <1>4, <2>1, <2>2, <2>3, <2>4, <2>5, <2>6, <2>7 DEF Method
<1>5. ASSUME NEW a \in Callers,
             BeginList(a, "claim") \/ BeginList(a, "recover") \/ RecoverStart(a) \/ Return(a) \/ Drop(a)
      PROVE  Sourced
  <2>1. CASE BeginList(a, "claim") \/ BeginList(a, "recover")
    <3>1. PICK op, todo : SetCall(a, [IdleCall EXCEPT !.phase = "list", !.op = op, !.lease = LeaseTicks, !.todo = todo])
      BY <2>1 DEF BeginList
    <3>2. [IdleCall EXCEPT !.phase = "list", !.op = op, !.lease = LeaseTicks, !.todo = todo].phase # "write"
      BY DEF IdleCall
    <3>. QED BY <1>3, <3>1, <3>2
  <2>2. CASE RecoverStart(a)
    <3>1. PICK todo : SetCall(a, [call[a] EXCEPT !.phase = "recover", !.found = {}, !.todo = todo])
      BY <2>2 DEF RecoverStart
    <3>2. [call[a] EXCEPT !.phase = "recover", !.found = {}, !.todo = todo].phase # "write"
      BY <1>0 DEF Call
    <3>. QED BY <1>3, <3>1, <3>2
  <2>3. CASE Return(a) \/ Drop(a)
    <3>1. SetCall(a, IdleCall) /\ IdleCall.phase # "write"
      BY <2>3 DEF Return, Drop, SetCall, IdleCall
    <3>. QED BY <1>3, <3>1
  <2>. QED BY <1>5, <2>1, <2>2, <2>3
<1>6. ASSUME NEW a \in Callers, Fresh(a) PROVE Sourced
  <2>1. PICK doc : /\ SetCall(a, [call[a] EXCEPT !.phase = "write", !.doc = doc])
                   /\ doc = Patched(a, call[a], file[call[a].job])
    BY <1>6 DEF Fresh
  <2>2. call[a].job \in Jobs /\ Exists(call[a].job) /\ file[call[a].job] \in Job
    BY <1>0, <1>6 DEF Fresh, CallOK, JobsInv, Good
  <2>3. doc.result => file[call[a].job].result
    BY <2>1, <2>2, PatchedResult
  <2>. QED BY <1>0, <1>1, <2>1, <2>2, <2>3 DEF Call
<1>7. ASSUME NEW a \in Callers, Write(a) PROVE Sourced
  <2>1. call[a].phase = "write" /\ file' = [file EXCEPT ![call[a].job] = call[a].doc]
    BY <1>7 DEF Write
  <2>2. call'[a].phase # "write" /\ \A b \in Callers : b # a => call'[b] = call[b]
    <3>1. CASE call[a].op = "recover"
      <4>1. call' = [call EXCEPT ![a] = [call[a] EXCEPT !.phase = "recover", !.job = None, !.doc = NoJob]]
        BY <1>7, <3>1 DEF Write
      <4>. QED BY <1>0, <4>1 DEF JobsInv, Call
    <3>2. CASE call[a].op # "recover"
      <4>1. call' = [call EXCEPT ![a] = IdleCall]
        BY <1>7, <3>2 DEF Write
      <4>. QED BY <1>0, <4>1 DEF JobsInv, IdleCall
    <3>. QED BY <3>1, <3>2
  <2>. QED BY <2>1, <2>2 DEF Sourced, JobsInv, Exists
<1>8. CASE Tick
  <2>1. ASSUME NEW j \in Jobs, Exists(j)', file'[j].result PROVE Exists(j) /\ file[j].result
    <3>1. file'[j] = Aged(file[j])
      BY <1>8 DEF Tick
    <3>2. Exists(j)
      BY <2>1, <3>1 DEF Exists, Aged
    <3>. QED BY <2>1, <3>1, <3>2, AgedResult DEF JobsInv, Good
  <2>2. ASSUME NEW b \in Callers, call'[b].phase = "write", call'[b].doc.result
        PROVE  call[b].phase = "write" /\ call[b].job = call'[b].job /\ call[b].doc.result
    <3>. DEFINE c == call[b]
                lease == IF c.op \in {"claim", "heartbeat"} THEN Older(c.lease) ELSE c.lease
                older == {[f EXCEPT !.left = Older(@)] : f \in c.found}
                found == IF c.op = "recover" THEN older ELSE c.found
    <3>1. AgedCall(c) = [c EXCEPT !.doc = Aged(c.doc), !.lease = lease, !.found = found]
      BY DEF AgedCall
    <3>2. call'[b] = AgedCall(c)
      BY <1>8 DEF Tick
    <3>. HIDE DEF c, lease, found
    <3>3. c \in Call /\ CallOK(c)
      BY <1>0 DEF c
    <3>4. c.phase = "write" /\ c.job = call'[b].job /\ call'[b].doc = Aged(c.doc)
      BY <2>2, <3>1, <3>2, <3>3 DEF Call
    <3>5. c.doc \in Job
      BY <3>3, <3>4 DEF CallOK, Good
    <3>. QED BY <2>2, <3>4, <3>5, AgedResult DEF c
  <2>. QED BY <2>1, <2>2 DEF Sourced
<1>9. CASE UNCHANGED jobVars
  BY <1>9 DEF jobVars, Sourced, Exists
<1>. QED BY <1>4, <1>5, <1>6, <1>7, <1>8, <1>9 DEF JobsNext

\* A worker whose place does not change keeps what it has done.
LEMMA DoneStays ==
  ASSUME TypesIInv, NEW w \in Workers, DoneSoFar(w),
         pc'[w] = pc[w], at'[w] = at[w], mine'[w] = mine[w],
         call'[w].op = "complete" => call[w].op = "complete",
         \A j \in Jobs : dossiers[j] > 0 => dossiers'[j] > 0,
         \A j \in Jobs : trail[j] \subseteq trail'[j]
  PROVE  DoneSoFar(w)'
<1>1. CASE pc[w] \in Holding \cup {"end"}
  <2>1. mine[w] \in Jobs
    BY <1>1 DEF TypesIInv, Control, PlaceOK
  <2>. QED BY <2>1 DEF DoneSoFar, PastPolicy, PastDossier, PastAudit, Backed
<1>2. CASE pc[w] \notin Holding \cup {"end"}
  <2>1. at[w] = None /\ call[w].op # "complete" /\ pc[w] # "record"
    BY <1>2 DEF TypesIInv, Control, PlaceOK, CallAt, Labels, Holding
  <2>. QED BY <2>1, NoneAssumption, StagesAssumption DEF DoneSoFar, PastPolicy, PastDossier, PastAudit, WhoStages
<1>. QED BY <1>1, <1>2

LEMMA DoneStep ==
  ASSUME TypesIInv, TypesIInv', \A w \in Workers : DoneSoFar(w), [Next]_vars,
         NEW w \in Workers
  PROVE  DoneSoFar(w)'
<1>1. /\ \A j \in Jobs : dossiers[j] > 0 => dossiers'[j] > 0
      /\ \A j \in Jobs : trail[j] \subseteq trail'[j]
  BY Effects DEF TypesIInv
<1>2. w \in Callers /\ w \notin Clients /\ Stages = WhoStages
  BY ActorsAssumption, StagesAssumption
<1>3. PlaceOK(w) /\ CallAt(w) /\ PlaceOK(w)' /\ CallAt(w)'
  BY DEF TypesIInv, Control
<1>4. CASE /\ pc'[w] = pc[w] /\ at'[w] = at[w] /\ mine'[w] = mine[w]
           /\ call'[w].op = "complete" => call[w].op = "complete"
  BY <1>1, <1>4, DoneStays
<1>5. ASSUME NEW a \in Callers, Calling(a) PROVE DoneSoFar(w)'
  <2>1. pc' = pc /\ at' = at /\ mine' = mine
    BY <1>5 DEF Calling, workerVars
  <2>2. Follows(call[a], call'[a])
    BY <1>5, CallingFollows DEF TypesIInv, Control
  <2>3. a # w => call'[w] = call[w]
    BY <1>2, <1>5 DEF Calling, ListFile, ClaimCheck, RecoverPatch, RecoverStart, Fresh, Write, Return,
       SetCall, TypesIInv, JobsInv
  <2>. QED BY <1>4, <2>1, <2>2, <2>3 DEF Follows, IdleCall
<1>6. ASSUME NEW x \in Workers, Work(x) \/ Throw(x) \/ Crash(x), x # w PROVE DoneSoFar(w)'
  <2>1. call'[w] = call[w]
    BY <1>2, <1>6, WorkerFrame DEF TypesIInv
  <2>2. pc'[w] = pc[w] /\ at'[w] = at[w] /\ mine'[w] = mine[w]
    BY <1>6, WorkerTypes DEF TypesIInv, WorkerTypesOK
  <2>. QED BY <1>4, <2>1, <2>2
<1>7. ASSUME Work(w) \/ Throw(w) \/ Crash(w) PROVE DoneSoFar(w)'
  <2>0. WorkerTypesOK /\ DoneSoFar(w)
    BY DEF TypesIInv
  <2>1. CASE Boot(w) \/ Claim(w) \/ ClaimNothing(w) \/ Crash(w) \/ Finished(w)
             \/ ((Enter(w) \/ Leave(w)) /\ Cancelled(w))
    <3>1. pc'[w] \in {"poll", "claiming", "boot"}
      BY <2>0, <2>1 DEF Boot, Claim, ClaimNothing, Crash, Finished, Enter, Leave, Abandon, Goto, WorkerTypesOK
    <3>2. at'[w] = None /\ call'[w].op # "complete"
      BY <1>3, <3>1 DEF PlaceOK, CallAt
    <3>. QED BY <1>2, <3>1, <3>2, NoneAssumption DEF DoneSoFar, PastPolicy, PastDossier, PastAudit, WhoStages
  <2>2. CASE ClaimJob(w)
    <3>1. pc'[w] = "enter" /\ at'[w] = "policy" /\ call'[w].op # "complete"
      BY <1>3, <2>0, <2>2 DEF ClaimJob, Goto, WorkerTypesOK, CallAt
    <3>. QED BY <3>1 DEF DoneSoFar, PastPolicy, PastDossier, PastAudit
  <2>3. CASE \/ ((Enter(w) \/ Leave(w)) /\ ~Cancelled(w))
             \/ StartStage(w) \/ Heartbeat(w) \/ Discover(w) \/ Throw(w) \/ MarkFailed(w) \/ RecordFailure(w)
    <3>1. at'[w] = at[w] /\ mine'[w] = mine[w] /\ mine[w] \in Jobs /\ pc[w] \in Holding \cup {"end"}
      BY <1>3, <2>0, <2>3 DEF Enter, Leave, StartStage, Heartbeat, Beat, Discover, Throw, MarkFailed, RecordFailure,
         At, Stay, PlaceOK, Holding, CallAt
    <3>2. /\ pc'[w] \notin {"record", "complete"}
          /\ pc'[w] = "finish" => pc[w] = "leave"
          /\ pc'[w] = "leave" => at[w] = "discover"
      BY <2>0, <2>3 DEF Enter, Leave, StartStage, Heartbeat, Beat, Discover, Throw, MarkFailed, RecordFailure,
         At, Goto, WorkerTypesOK
    <3>3. call'[w].op # "complete"
      <4>1. CASE MarkFailed(w)
        BY <1>2, <2>0, <3>1, <4>1, Begins DEF MarkFailed, Begun, TypesIInv
      <4>2. CASE ~MarkFailed(w)
        <5>1. pc'[w] # "end"
          BY <2>0, <2>3, <4>2 DEF Enter, Leave, StartStage, Heartbeat, Beat, Discover, Throw, RecordFailure, Goto, WorkerTypesOK
        <5>. QED BY <1>3, <5>1 DEF CallAt
      <4>. QED BY <4>1, <4>2
    <3>. QED BY <1>1, <2>0, <3>1, <3>2, <3>3 DEF DoneSoFar, PastPolicy, PastDossier, PastAudit
  <2>4. CASE Policy(w) \/ WriteDossier(w) \/ RecordDossier(w) \/ RecordCompleted(w)
    <3>1. /\ at'[w] = at[w] /\ mine'[w] = mine[w] /\ mine[w] \in Jobs /\ call'[w].op # "complete"
      BY <1>3, <2>0, <2>4 DEF Policy, WriteDossier, RecordDossier, RecordCompleted, At, Goto, Stay, PlaceOK, Holding,
         CallAt, WorkerTypesOK
    <3>2. CASE Policy(w)
      <4>1. at[w] = "policy" /\ "who.requested" \in trail'[mine[w]] /\ pc'[w] = "leave"
        BY <2>0, <3>1, <3>2 DEF Policy, Record, TypesIInv, CountsOK, Goto, WorkerTypesOK
      <4>. QED BY <3>1, <4>1 DEF DoneSoFar, PastPolicy, PastDossier, PastAudit
    <3>3. CASE WriteDossier(w)
      <4>1. at[w] = "dossier" /\ pc'[w] = "record"
        BY <2>0, <3>3 DEF WriteDossier, Goto, WorkerTypesOK
      <4>2. dossiers'[mine[w]] > 0
        <5>1. dossiers[mine[w]] \in 0..MaxDossiers
          BY <3>1 DEF TypesIInv, CountsOK
        <5>2. dossiers'[mine[w]] = IF dossiers[mine[w]] < MaxDossiers THEN dossiers[mine[w]] + 1 ELSE dossiers[mine[w]]
          BY <3>1, <3>3 DEF WriteDossier, TypesIInv, CountsOK
        <5>. QED BY <5>1, <5>2, BoundsAssumption
      <4>. QED BY <1>1, <2>0, <3>1, <4>1, <4>2 DEF DoneSoFar, PastPolicy, PastDossier, PastAudit
    <3>4. CASE RecordDossier(w)
      <4>1. pc[w] = "record" /\ at[w] = "dossier" /\ "dossier.written" \in trail'[mine[w]] /\ pc'[w] = "leave"
        BY <1>3, <2>0, <3>1, <3>4 DEF RecordDossier, Record, TypesIInv, CountsOK, Goto, WorkerTypesOK, At, PlaceOK
      <4>. QED BY <1>1, <2>0, <3>1, <4>1 DEF DoneSoFar, PastPolicy, PastDossier, PastAudit
    <3>5. CASE RecordCompleted(w)
      <4>1. at[w] = "audit" /\ "who.completed" \in trail'[mine[w]] /\ pc'[w] = "leave"
        BY <2>0, <3>1, <3>5 DEF RecordCompleted, Record, TypesIInv, CountsOK, Goto, WorkerTypesOK
      <4>. QED BY <1>1, <2>0, <3>1, <4>1 DEF DoneSoFar, PastPolicy, PastDossier, PastAudit
    <3>. QED BY <2>4, <3>2, <3>3, <3>4, <3>5
  <2>5. CASE FinishStage(w)
    <3>1. pc[w] = "finish" /\ at[w] \in Stages /\ mine'[w] = mine[w] /\ mine[w] \in Jobs
      BY <1>3, <2>5 DEF FinishStage, At, PlaceOK, Holding
    <3>2. CASE at[w] = "audit"
      <4>1. at'[w] = "audit" /\ pc'[w] = "complete" /\ call'[w].op # "complete"
        BY <1>3, <2>0, <2>5, <3>2 DEF FinishStage, Goto, WorkerTypesOK, CallAt
      <4>. QED BY <1>1, <2>0, <3>1, <3>2, <4>1 DEF DoneSoFar, PastPolicy, PastDossier, PastAudit
    <3>3. CASE at[w] # "audit"
      <4>1. at'[w] = NextStage[at[w]] /\ pc'[w] = "enter" /\ call'[w].op # "complete"
        BY <1>3, <2>0, <2>5, <3>3 DEF FinishStage, Goto, WorkerTypesOK, CallAt
      <4>2. /\ NextStage["policy"] = "discover" /\ NextStage["discover"] = "dossier"
            /\ NextStage["dossier"] = "audit"
        BY DEF NextStage
      <4>3. at[w] \in {"policy", "discover", "dossier"}
        BY <1>2, <3>1, <3>3 DEF WhoStages
      <4>4. \/ at[w] = "policy" /\ at'[w] = "discover"
            \/ at[w] = "discover" /\ at'[w] = "dossier"
            \/ at[w] = "dossier" /\ at'[w] = "audit"
        <5>1. CASE at[w] = "policy"
          BY <4>1, <4>2, <5>1
        <5>2. CASE at[w] = "discover"
          BY <4>1, <4>2, <5>2
        <5>3. CASE at[w] = "dossier"
          BY <4>1, <4>2, <5>3
        <5>. QED BY <4>3, <5>1, <5>2, <5>3
      <4>. QED BY <1>1, <2>0, <3>1, <4>1, <4>4 DEF DoneSoFar, PastPolicy, PastDossier, PastAudit
    <3>. QED BY <3>2, <3>3
  <2>6. CASE Complete(w)
    <3>1. /\ pc[w] = "complete" /\ at[w] = "audit" /\ at'[w] = "audit" /\ mine'[w] = mine[w] /\ mine[w] \in Jobs
          /\ pc'[w] = "end"
      BY <1>3, <2>0, <2>6 DEF Complete, At, PlaceOK, Holding, Goto, Stay, WorkerTypesOK
    <3>2. Backed(mine[w])
      BY <2>0, <3>1 DEF DoneSoFar, PastPolicy, PastDossier, PastAudit, Backed
    <3>3. Backed(mine[w])'
      BY <1>1, <3>1, <3>2 DEF Backed
    <3>. QED BY <1>1, <2>0, <3>1, <3>3 DEF DoneSoFar, PastPolicy, PastDossier, PastAudit, Backed
  <2>. QED BY <1>7, <2>1, <2>2, <2>3, <2>4, <2>5, <2>6 DEF Work
<1>8. ASSUME NEW c \in Clients,
             FailRequest(c) \/ \E j \in Jobs : Enqueue(c, j) \/ CancelJob(c, j) \/ RetryJob(c, j)
      PROVE  DoneSoFar(w)'
  <2>1. pc' = pc /\ at' = at /\ mine' = mine
    BY <1>8 DEF FailRequest, Enqueue, CancelJob, RetryJob, workerVars
  <2>2. (\E j \in Jobs : Method(c, j)) \/ Drop(c)
    BY <1>8 DEF FailRequest, Enqueue, CancelJob, RetryJob, Method
  <2>3. call'[w] = call[w]
    BY <1>2, <1>8, <2>2, OneCaller, ActorsAssumption DEF TypesIInv
  <2>. QED BY <1>4, <2>1, <2>3
<1>9. ASSUME Advance PROVE DoneSoFar(w)'
  <2>1. pc' = pc /\ at' = at /\ mine' = mine
    BY <1>9 DEF Advance, workerVars
  <2>2. pc'[w] = "end" /\ call'[w].op = "complete" => call[w].op = "complete"
    <3>1. call'[w] = AgedCall(call[w]) /\ call[w] \in Call
      BY <1>2, <1>9 DEF Advance, Tick, TypesIInv, JobsInv
    <3>. QED BY <3>1 DEF AgedCall, Call
  <2>. QED BY <1>3, <1>4, <2>1, <2>2 DEF CallAt
<1>10. ASSUME UNCHANGED vars PROVE DoneSoFar(w)'
  BY <1>4, <1>10 DEF vars
<1>. QED BY <1>5, <1>6, <1>7, <1>8, <1>9, <1>10 DEF Next

LEMMA BackedStep == BackedIInv /\ [Next]_vars => BackedIInv'
<1>. SUFFICES ASSUME BackedIInv, [Next]_vars PROVE BackedIInv'
  OBVIOUS
<1>1. TypesIInv /\ TypesIInv'
  BY TypesStep DEF BackedIInv
<1>2. \A w \in Workers : DoneSoFar(w)'
  BY <1>1, DoneStep DEF BackedIInv
<1>3. Sourced
  BY <1>1, IsJobsStep, ResultsAreSourced DEF TypesIInv
<1>4. \A j \in Jobs : Backed(j) => Backed(j)'
  BY <1>1, Effects DEF TypesIInv, Backed
<1>5. ASSUME NEW b \in Callers, call[b].phase = "write" PROVE call[b].job \in Jobs
  BY <1>1, <1>5 DEF TypesIInv, JobsInv, CallOK
<1>6. \A j \in Jobs : (Exists(j) /\ file[j].result => Backed(j))'
  BY <1>3, <1>4 DEF BackedIInv, DocsBacked, Sourced, Exists
<1>7. ASSUME NEW b \in Callers, call'[b].phase = "write", call'[b].doc.result PROVE Backed(call[b].job)'
  <2>1. CASE call'[b].op = "complete"
    <3>1. b \in Workers
      BY <1>1, <2>1, ActorsAssumption DEF TypesIInv, Control, ClientAt
    <3>2. call'[b].job = mine'[b]
      BY <1>1, <2>1, <3>1 DEF TypesIInv, Control, CallAt, StageOps
    <3>3. Backed(mine[b])'
      BY <1>2, <2>1, <3>1 DEF DoneSoFar
    <3>. QED BY <3>2, <3>3 DEF Backed
  <2>2. CASE call'[b].op # "complete"
    <3>1. PICK j \in Jobs : j = call'[b].job /\ Backed(j)
      BY <1>3, <1>5, <1>7, <2>2 DEF BackedIInv, DocsBacked, Sourced
    <3>. QED BY <1>4, <3>1 DEF Backed
  <2>. QED BY <2>1, <2>2
<1>. QED BY <1>1, <1>2, <1>6, <1>7 DEF BackedIInv, DocsBacked

LEMMA BackedInit == Init => BackedIInv
<1>. SUFFICES ASSUME Init PROVE BackedIInv
  OBVIOUS
<1>1. \A a \in Callers : call[a] = IdleCall
  BY DEF Init, JobsInit
<1>2. \A w \in Workers : DoneSoFar(w)
  BY <1>1, ActorsAssumption, NoneAssumption, StagesAssumption
     DEF Init, DoneSoFar, PastPolicy, PastDossier, PastAudit, WhoStages, IdleCall
<1>3. DocsBacked
  BY <1>1 DEF Init, JobsInit, DocsBacked, Exists, NewJob, IdleCall
<1>. QED BY <1>2, <1>3, TypesInit DEF BackedIInv

\* With any number of workers and clients, expired leases, crashes and late calls
\* included, a job shown with a result has its dossier and its audit entries
\* (whoWorker.ts:82-196, CaspaJobService.ts:147-188).
THEOREM AlwaysBacked == Spec => []ResultBacked
<1>1. BackedIInv => ResultBacked
  BY DEF BackedIInv, DocsBacked, Backed, ResultBacked
<1>. QED BY <1>1, BackedInit, BackedStep, PTL DEF Spec

-------------------------------------------------------------------------------
(* A cancelled job nobody has in hand stays so.                             *)

\* The call c has nothing to do with job j, unless it is one that only somebody
\* who processes j makes.
Distant(c, j) ==
  /\ c.job = j => c.op \in StageOps \cup {"fail"}
  /\ c.op = "recover" /\ c.phase # "list" => j \notin c.todo
  /\ \A f \in c.found : f.job # j

\* Every method refuses a cancelled job, except those a worker calls for its own job.
LEMMA SettledCalls ==
  ASSUME JobsInv, \A a \in Callers : PhaseOK(a), [JobsNext]_jobVars,
         NEW j \in Jobs, Settled(j)
  PROVE  /\ file'[j] # NoJob /\ file'[j].status = "cancelled"
         /\ \A a \in Callers : Distant(call'[a], j)
<1>0. \A a \in Callers : call[a] \in Call /\ CallOK(call[a])
  BY DEF JobsInv
<1>1. /\ file[j] # NoJob /\ file[j].status = "cancelled" /\ file[j] \in Job /\ Good(file[j])
      /\ \A a \in Callers : Distant(call[a], j) /\ call[a].job # j
  BY DEF Settled, InHand, Exists, Distant, JobsInv, Good
<1>2. j # None /\ Distant(IdleCall, j)
  BY NoneAssumption DEF Distant, IdleCall
<1>3. ASSUME NEW a \in Callers, NEW c, SetCall(a, c), Distant(c, j)
      PROVE  /\ file'[j] # NoJob /\ file'[j].status = "cancelled"
             /\ \A b \in Callers : Distant(call'[b], j)
  <2>1. file' = file /\ call' = [call EXCEPT ![a] = c]
    BY <1>3 DEF SetCall
  <2>2. \A b \in Callers : call'[b] = IF b = a THEN c ELSE call[b]
    BY <2>1 DEF JobsInv
  <2>. QED BY <1>1, <1>3, <2>1, <2>2
<1>4. ASSUME NEW a \in Callers, NEW k \in Jobs, Method(a, k)
      PROVE  /\ file'[j] # NoJob /\ file'[j].status = "cancelled"
             /\ \A b \in Callers : Distant(call'[b], j)
  <2>1. CASE Create(a, k)
    <3>1. k # j /\ call' = call /\ file'[j] = file[j]
      BY <1>1, <2>1 DEF Create, Exists, JobsInv
    <3>. QED BY <1>1, <3>1
  <2>2. ASSUME NEW op, NEW d, ToWrite(a, op, k, d), k # j \/ op \in StageOps, op # "recover"
        PROVE  /\ file'[j] # NoJob /\ file'[j].status = "cancelled"
               /\ \A b \in Callers : Distant(call'[b], j)
    <3>1. PICK c : c = [IdleCall EXCEPT !.phase = "write", !.op = op, !.job = k, !.doc = d]
      OBVIOUS
    <3>2. SetCall(a, c)
      BY <2>2, <3>1 DEF ToWrite
    <3>3. Distant(c, j)
      BY <2>2, <3>1 DEF Distant, IdleCall
    <3>. QED BY <1>3, <3>2, <3>3
  <2>3. ASSUME NEW op, NEW r, NEW t, NEW u, k # j \/ op \in StageOps \cup {"fail"}, op # "recover",
               \/ SetCall(a, ToFresh(a, op, k))
               \/ SetCall(a, [ToFresh(a, op, k) EXCEPT !.retries = r])
               \/ SetCall(a, [ToFresh(a, op, k) EXCEPT !.lease = t])
               \/ SetCall(a, [ToFresh(a, op, k) EXCEPT !.lease = t, !.error = u])
        PROVE  /\ file'[j] # NoJob /\ file'[j].status = "cancelled"
               /\ \A b \in Callers : Distant(call'[b], j)
    <3>1. /\ Distant(ToFresh(a, op, k), j)
          /\ Distant([ToFresh(a, op, k) EXCEPT !.retries = r], j)
          /\ Distant([ToFresh(a, op, k) EXCEPT !.lease = t], j)
          /\ Distant([ToFresh(a, op, k) EXCEPT !.lease = t, !.error = u], j)
      BY <2>3 DEF Distant, ToFresh, IdleCall
    <3>. QED BY <1>3, <2>3, <3>1
  <2>4. ASSUME NEW s \in Stages, BeginStartStage(a, k, s) \/ BeginCompleteStage(a, k, s)
        PROVE  /\ file'[j] # NoJob /\ file'[j].status = "cancelled"
               /\ \A b \in Callers : Distant(call'[b], j)
    BY <2>2, <2>4 DEF BeginStartStage, BeginCompleteStage, StageOps
  <2>5. CASE BeginComplete(a, k)
    BY <2>2, <2>5 DEF BeginComplete, StageOps
  <2>6. CASE BeginFail(a, k) \/ BeginMarkFailed(a, k) \/ BeginHeartbeat(a, k)
    BY <2>3, <2>6 DEF BeginFail, BeginMarkFailed, BeginHeartbeat, StageOps
  <2>7. CASE BeginCancel(a, k) \/ BeginRetry(a, k)
    <3>1. k # j
      BY <1>1, <2>7 DEF BeginCancel, BeginRetry, CancelReturns, RetryReturns
    <3>. QED BY <2>3, <2>7, <3>1 DEF BeginCancel, BeginRetry
  <2>8. CASE ListFile(a, k)
    <3>1. PICK found : /\ SetCall(a, [call[a] EXCEPT !.todo = call[a].todo \ {k}, !.found = found])
                       /\ \A f \in found : f \in call[a].found \/ (k # j /\ f.job = k)
      <4>. DEFINE left == IF call[a].op = "recover" /\ file[k].hasLease THEN file[k].leaseUntil ELSE 0
                  wanted == IF call[a].op = "claim" THEN Claimable(file[k], Age(a)) ELSE file[k].status = "running"
                  new == IF wanted THEN call[a].found \cup {[job |-> k, left |-> left]} ELSE call[a].found
      <4>1. SetCall(a, [call[a] EXCEPT !.todo = call[a].todo \ {k}, !.found = new])
        BY <2>8 DEF ListFile
      <4>2. k = j => ~wanted
        BY <1>1 DEF Claimable, LeaseExpired
      <4>3. \A f \in new : f \in call[a].found \/ (k # j /\ f.job = k)
        BY <4>2
      <4>. HIDE DEF new
      <4>. QED BY <4>1, <4>3
    <3>2. PICK c : c = [call[a] EXCEPT !.todo = call[a].todo \ {k}, !.found = found]
      OBVIOUS
    <3>3. c.job = call[a].job /\ c.op = call[a].op /\ c.phase = "list" /\ c.found = found
      BY <1>0, <2>8, <3>2 DEF Call, ListFile
    <3>4. Distant(c, j)
      BY <1>1, <3>1, <3>3 DEF Distant
    <3>. QED BY <1>3, <3>1, <3>2, <3>4
  <2>9. CASE ClaimCheck(a, k)
    <3>1. k # j
      BY <1>1, <2>9 DEF ClaimCheck, CanClaim, Claimable, LeaseExpired
    <3>. QED BY <2>3, <2>9, <3>1 DEF ClaimCheck
  <2>10. CASE RecoverPatch(a, k)
    <3>1. call[a].op = "recover" /\ k # j /\ k \in call[a].todo /\ j \notin call[a].todo /\ call[a].found = {}
      BY <1>1, <2>10 DEF RecoverPatch, PhaseOK, Distant
    <3>2. PICK c : c = [call[a] EXCEPT !.phase = "write", !.job = k, !.todo = call[a].todo \ {k},
                                       !.doc = Stopped(file[k], "partial")]
      OBVIOUS
    <3>3. SetCall(a, c)
      BY <2>10, <3>2 DEF RecoverPatch
    <3>4. c.job = k /\ c.todo = call[a].todo \ {k} /\ c.found = {}
      BY <1>0, <3>1, <3>2 DEF Call
    <3>. QED BY <1>3, <3>1, <3>3, <3>4 DEF Distant
  <2>. QED BY <1>4, <2>1, <2>4, <2>5, <2>6, <2>7, <2>8, <2>9, <2>10 DEF Method
<1>5. ASSUME NEW a \in Callers, BeginList(a, "claim") \/ BeginList(a, "recover")
      PROVE  /\ file'[j] # NoJob /\ file'[j].status = "cancelled"
             /\ \A b \in Callers : Distant(call'[b], j)
  <2>1. PICK op, todo : SetCall(a, [IdleCall EXCEPT !.phase = "list", !.op = op, !.lease = LeaseTicks, !.todo = todo])
    BY <1>5 DEF BeginList
  <2>2. Distant([IdleCall EXCEPT !.phase = "list", !.op = op, !.lease = LeaseTicks, !.todo = todo], j)
    BY <1>2 DEF Distant, IdleCall
  <2>. QED BY <1>3, <2>1, <2>2
<1>6. ASSUME NEW a \in Callers, RecoverStart(a)
      PROVE  /\ file'[j] # NoJob /\ file'[j].status = "cancelled"
             /\ \A b \in Callers : Distant(call'[b], j)
  <2>1. PICK todo : /\ SetCall(a, [call[a] EXCEPT !.phase = "recover", !.found = {}, !.todo = todo])
                    /\ \A k \in todo : \E f \in call[a].found : f.job = k
    <3>. DEFINE late == {f.job : f \in {g \in call[a].found : g.left <= 0}}
    <3>1. SetCall(a, [call[a] EXCEPT !.phase = "recover", !.found = {}, !.todo = late])
      BY <1>6 DEF RecoverStart
    <3>2. \A k \in late : \E f \in call[a].found : f.job = k
      OBVIOUS
    <3>. HIDE DEF late
    <3>. QED BY <3>1, <3>2
  <2>2. j \notin todo
    BY <1>1, <2>1 DEF Distant
  <2>3. PICK c : c = [call[a] EXCEPT !.phase = "recover", !.found = {}, !.todo = todo]
    OBVIOUS
  <2>4. c.job = call[a].job /\ c.found = {} /\ c.todo = todo
    BY <1>0, <2>3 DEF Call
  <2>. QED BY <1>1, <1>3, <2>1, <2>2, <2>3, <2>4 DEF Distant
<1>7. ASSUME NEW a \in Callers, Fresh(a)
      PROVE  /\ file'[j] # NoJob /\ file'[j].status = "cancelled"
             /\ \A b \in Callers : Distant(call'[b], j)
  <2>1. PICK doc : SetCall(a, [call[a] EXCEPT !.phase = "write", !.doc = doc])
    BY <1>7 DEF Fresh
  <2>2. PICK c : c = [call[a] EXCEPT !.phase = "write", !.doc = doc]
    OBVIOUS
  <2>3. c.job = call[a].job /\ c.found = call[a].found /\ c.todo = call[a].todo /\ c.op = call[a].op
        /\ call[a].phase = "fresh"
    BY <1>0, <1>7, <2>2 DEF Call, Fresh
  <2>. QED BY <1>1, <1>3, <2>1, <2>2, <2>3 DEF Distant
<1>8. ASSUME NEW a \in Callers, Return(a) \/ Drop(a)
      PROVE  /\ file'[j] # NoJob /\ file'[j].status = "cancelled"
             /\ \A b \in Callers : Distant(call'[b], j)
  BY <1>2, <1>3, <1>8 DEF Return, Drop, SetCall
<1>9. ASSUME NEW a \in Callers, Write(a)
      PROVE  /\ file'[j] # NoJob /\ file'[j].status = "cancelled"
             /\ \A b \in Callers : Distant(call'[b], j)
  <2>1. call[a].job \in Jobs /\ call[a].job # j /\ call[a].phase = "write"
    BY <1>0, <1>1, <1>9 DEF Write, CallOK
  <2>2. file'[j] = file[j]
    BY <1>9, <2>1 DEF Write, JobsInv
  <2>3. CASE call[a].op = "recover"
    <3>1. PICK c : c = [call[a] EXCEPT !.phase = "recover", !.job = None, !.doc = NoJob]
      OBVIOUS
    <3>2. \A b \in Callers : call'[b] = IF b = a THEN c ELSE call[b]
      BY <1>9, <2>3, <3>1 DEF Write, JobsInv
    <3>3. c.job = None /\ c.found = call[a].found /\ c.todo = call[a].todo
      BY <1>0, <3>1 DEF Call
    <3>4. Distant(c, j)
      BY <1>1, <1>2, <2>1, <2>3, <3>3 DEF Distant
    <3>. QED BY <1>1, <2>2, <3>2, <3>4
  <2>4. CASE call[a].op # "recover"
    <3>1. \A b \in Callers : call'[b] = IF b = a THEN IdleCall ELSE call[b]
      BY <1>9, <2>4 DEF Write, JobsInv
    <3>. QED BY <1>1, <1>2, <2>2, <3>1
  <2>. QED BY <2>3, <2>4
<1>10. CASE Tick
  <2>1. file'[j] = Aged(file[j])
    BY <1>10 DEF Tick
  <2>2. Aged(file[j]).status = file[j].status /\ Aged(file[j]) # NoJob
    <3>1. Aged(file[j]) = file[j] \/ \E t : Aged(file[j]) = [file[j] EXCEPT !.leaseUntil = t]
      BY DEF Aged
    <3>. QED BY <1>1, <3>1, AgedGood DEF Job
  <2>3. ASSUME NEW b \in Callers PROVE Distant(call'[b], j)
    <3>. DEFINE c == call[b]
                lease == IF c.op \in {"claim", "heartbeat"} THEN Older(c.lease) ELSE c.lease
                older == {[f EXCEPT !.left = Older(@)] : f \in c.found}
                found == IF c.op = "recover" THEN older ELSE c.found
    <3>1. AgedCall(c) = [c EXCEPT !.doc = Aged(c.doc), !.lease = lease, !.found = found]
      BY DEF AgedCall
    <3>2. call'[b] = AgedCall(c)
      BY <1>10 DEF Tick
    <3>3. c \in Call /\ Distant(c, j)
      BY <1>0, <1>1
    <3>4. \A f \in found : f.job # j
      <4>1. \A f \in c.found : f.job # j /\ f \in [job : Jobs, left : Ticks]
        BY <3>3 DEF Distant, Call
      <4>2. \A f \in older : f.job # j
        BY <4>1
      <4>. QED BY <4>1, <4>2
    <3>. HIDE DEF c, lease, found
    <3>5. /\ call'[b].job = c.job /\ call'[b].op = c.op /\ call'[b].phase = c.phase
          /\ call'[b].todo = c.todo /\ call'[b].found = found
      BY <3>1, <3>2, <3>3 DEF Call
    <3>. QED BY <3>3, <3>4, <3>5 DEF Distant
  <2>. QED BY <1>1, <2>1, <2>2, <2>3
<1>11. CASE UNCHANGED jobVars
  BY <1>1, <1>11 DEF jobVars
<1>. QED BY <1>4, <1>5, <1>6, <1>7, <1>8, <1>9, <1>10, <1>11 DEF JobsNext

\* A worker takes a job in hand only by the claim it has in progress.
LEMMA TakesItsClaim ==
  ASSUME TypesIInv, [Next]_vars, NEW w \in Workers
  PROVE  mine'[w] \in {mine[w], None, call[w].job}
<1>0. mine \in [Workers -> Jobs \cup {None}]
  BY DEF TypesIInv, WorkerTypesOK
<1>1. \/ mine' = mine
      \/ \E x \in Workers : mine' = [mine EXCEPT ![x] = None]
      \/ \E x \in Workers : mine' = [mine EXCEPT ![x] = call[x].job]
  BY DEF Next, vars, Calling, Work, Boot, Claim, ClaimNothing, ClaimJob, Enter, StartStage, Heartbeat,
         Beat, Policy, Discover, WriteDossier, RecordDossier, RecordCompleted, RecordFailure, Throw, Crash,
         Leave, FinishStage, Complete, MarkFailed, Finished, Abandon, Stay, Enqueue, CancelJob, RetryJob,
         FailRequest, Advance, workerVars
<1>. QED BY <1>0, <1>1

LEMMA SettledStep ==
  ASSUME TypesIInv, [Next]_vars, NEW j \in Jobs, Settled(j) PROVE Settled(j)'
<1>1. TypesIInv'
  BY TypesStep
<1>2. /\ file'[j] # NoJob /\ file'[j].status = "cancelled"
      /\ \A a \in Callers : Distant(call'[a], j)
  BY IsJobsStep, SettledCalls DEF TypesIInv, Control
<1>3. \A w \in Workers : mine'[w] # j
  BY TakesItsClaim, ActorsAssumption, NoneAssumption DEF Settled, InHand
<1>4. ASSUME NEW a \in Callers, call'[a].job = j PROVE FALSE
  <2>1. call'[a].op \in StageOps \cup {"fail"}
    BY <1>2, <1>4 DEF Distant
  <2>2. CASE a \in Workers
    BY <1>1, <1>3, <1>4, <2>1, <2>2 DEF TypesIInv, Control, CallAt
  <2>3. CASE a \in Clients
    BY <1>1, <2>1, <2>3 DEF TypesIInv, Control, ClientAt, StageOps
  <2>. QED BY <2>2, <2>3, ActorsAssumption
<1>. QED BY <1>2, <1>3, <1>4 DEF Settled, InHand, Exists, Distant

\* Nothing that starts later takes up a cancelled job nobody has in hand, whoever
\* claims, recovers, retries or crashes (CaspaJobService.ts:106-303).
THEOREM CancellationHolds == Spec => CancelHolds
<1>1. TypesIInv /\ [Next]_vars => \A j \in Jobs : Settled(j) => Settled(j)'
  BY SettledStep
<1>. QED BY <1>1, TypesInvariance, PTL DEF Spec, CancelHolds

-------------------------------------------------------------------------------
(* What the methods do to the fields the remaining properties are about.    *)

\* Two documents that differ in their leases only.
Like(d, e) ==
  /\ e.status = d.status /\ e.error = d.error /\ e.stages = d.stages
  /\ e.retryCount = d.retryCount /\ (e = NoJob <=> d = NoJob)

\* Two calls that differ in leases only.
LikeCall(c, d) ==
  /\ d.phase = c.phase /\ d.op = c.op /\ d.job = c.job /\ d.todo = c.todo
  /\ d.retries = c.retries /\ Like(c.doc, d.doc)
  /\ \A f \in d.found : \E g \in c.found : f.job = g.job

LEMMA StartedFields ==
  ASSUME NEW d \in Job, NEW s \in Stages
  PROVE  /\ Started(d, s).status = "running" /\ Started(d, s).error = d.error
         /\ Started(d, s).retryCount = d.retryCount
         /\ \A t \in Stages \ {s} : Started(d, s).stages[t] = d.stages[t]
BY DEF Started, Job

LEMMA StageDoneFields ==
  ASSUME NEW d \in Job, NEW s \in Stages
  PROVE  /\ StageDone(d, s).status = d.status /\ StageDone(d, s).error = d.error
         /\ StageDone(d, s).retryCount = d.retryCount
         /\ StageDone(d, s).stages[s] = "completed"
         /\ \A t \in Stages \ {s} : StageDone(d, s).stages[t] = d.stages[t]
BY DEF StageDone, Job

LEMMA CompletedFields ==
  ASSUME NEW d \in Job
  PROVE  /\ Completed(d).status = "completed" /\ Completed(d).error = d.error
         /\ Completed(d).retryCount = d.retryCount /\ Completed(d).stages = d.stages
BY DEF Completed, NoLease, Job

LEMMA StoppedFields ==
  ASSUME NEW d \in Job, NEW st
  PROVE  /\ Stopped(d, st).status = st /\ Stopped(d, st).error
         /\ Stopped(d, st).retryCount = d.retryCount
BY DEF Stopped, NoLease, Job

LEMMA RequeuedFields ==
  ASSUME NEW d \in Job, NEW n
  PROVE  Requeued(d, n).status = "queued" /\ Requeued(d, n).retryCount = n
BY DEF Requeued, NoLease, Job

LEMMA ClaimedFields ==
  ASSUME NEW d \in Job, NEW a, NEW t, NEW error
  PROVE  Claimed(d, a, t, error).status = "running" /\ Claimed(d, a, t, error).retryCount = d.retryCount
BY DEF Claimed, Leased, Job

LEMMA LeasedFields ==
  ASSUME NEW d \in Job, NEW a, NEW t, Leased(d, a, t) # NoJob PROVE Like(d, Leased(d, a, t))
BY NoJobAssumption DEF Like, Leased, Job

LEMMA AgedLike == ASSUME NEW d \in Job \cup {NoJob} PROVE Like(d, Aged(d))
<1>1. CASE d = NoJob
  BY <1>1 DEF Aged, Like
<1>2. CASE d # NoJob /\ ~d.hasLease
  BY <1>2 DEF Aged, Like
<1>3. CASE d # NoJob /\ d.hasLease
  <2>1. d.leaseUntil \in Ticks
    BY <1>3 DEF Job
  <2>2. PICK t : t = Older(d.leaseUntil)
    OBVIOUS
  <2>3. t \in Ticks
    BY <2>1, <2>2, OlderTicks
  <2>4. Aged(d) = [d EXCEPT !.leaseUntil = t]
    BY <1>3, <2>2 DEF Aged
  <2>5. Aged(d) \in Job
    BY <1>3, <2>3, <2>4 DEF Job
  <2>. QED BY <1>3, <2>4, <2>5, NoJobAssumption DEF Job, Like
<1>. QED BY <1>1, <1>2, <1>3

LEMMA TickLike ==
  ASSUME JobsInv, Tick
  PROVE  /\ \A j \in Jobs : Like(file[j], file'[j])
         /\ \A a \in Callers : LikeCall(call[a], call'[a])
<1>1. \A j \in Jobs : Like(file[j], file'[j])
  BY AgedLike DEF Tick, JobsInv
<1>2. ASSUME NEW b \in Callers PROVE LikeCall(call[b], call'[b])
  <2>. DEFINE c == call[b]
              lease == IF c.op \in {"claim", "heartbeat"} THEN Older(c.lease) ELSE c.lease
              older == {[f EXCEPT !.left = Older(@)] : f \in c.found}
              found == IF c.op = "recover" THEN older ELSE c.found
  <2>1. AgedCall(c) = [c EXCEPT !.doc = Aged(c.doc), !.lease = lease, !.found = found]
    BY DEF AgedCall
  <2>2. call'[b] = AgedCall(c)
    BY DEF Tick
  <2>3. c \in Call
    BY DEF JobsInv
  <2>4. \A f \in found : \E g \in c.found : f.job = g.job
    <3>1. c.found \subseteq [job : Jobs, left : Ticks]
      BY <2>3 DEF Call
    <3>2. \A f \in older : \E g \in c.found : f.job = g.job
      BY <3>1
    <3>. QED BY <3>2
  <2>. HIDE DEF c, lease, found
  <2>5. Like(c.doc, Aged(c.doc))
    BY <2>3, AgedLike DEF Call
  <2>6. /\ call'[b].job = c.job /\ call'[b].op = c.op /\ call'[b].phase = c.phase
        /\ call'[b].todo = c.todo /\ call'[b].found = found /\ call'[b].retries = c.retries
        /\ call'[b].doc = Aged(c.doc)
    BY <2>1, <2>2, <2>3 DEF Call
  <2>. QED BY <2>4, <2>5, <2>6 DEF LikeCall, c
<1>. QED BY <1>1, <1>2

LEMMA SameIsLike == ASSUME NEW c PROVE LikeCall(c, c)
BY DEF LikeCall, Like

\* What each step of a method makes of its call.
Listing(a, op) ==
  /\ file' = file /\ call'[a].phase = "list" /\ call'[a].op = op
  /\ call'[a].job = None /\ call'[a].found = {}

ListsOne(a, j) ==
  /\ file' = file /\ call[a].phase = "list" /\ call'[a].phase = "list"
  /\ call'[a].op = call[a].op /\ call'[a].job = call[a].job
  /\ \A f \in call'[a].found :
       f \in call[a].found \/ (f.job = j /\ file[j].status \in {"queued", "running"})

Checks(a, j) ==
  /\ file' = file /\ call[a].phase = "list" /\ call[a].op = "claim"
  /\ call'[a].phase = "fresh" /\ call'[a].op = "claim" /\ call'[a].job = j /\ call'[a].found = {}
  /\ (\E f \in call[a].found : f.job = j) /\ file[j].status \in {"queued", "running"}

StartsRecovery(a) ==
  /\ file' = file /\ call[a].op = "recover" /\ call'[a].phase = "recover" /\ call'[a].op = "recover"
  /\ call'[a].job = call[a].job /\ call'[a].found = {}
  /\ \A j \in call'[a].todo : \E f \in call[a].found : f.job = j

PatchesOne(a, j) ==
  /\ file' = file /\ call[a].phase = "recover" /\ j \in call[a].todo
  /\ call'[a].phase = "write" /\ call'[a].op = call[a].op /\ call'[a].job = j
  /\ call'[a].todo = call[a].todo \ {j} /\ call'[a].found = call[a].found
  /\ call'[a].doc = Stopped(file[j], "partial")

ReadsFresh(a) ==
  /\ file' = file /\ call[a].phase = "fresh" /\ call'[a].phase = "write"
  /\ call'[a].op = call[a].op /\ call'[a].job = call[a].job /\ call'[a].todo = call[a].todo
  /\ call'[a].found = call[a].found /\ call'[a].retries = call[a].retries
  /\ call'[a].doc = Patched(a, call[a], file[call[a].job])

Writes(a) ==
  /\ call[a].phase = "write" /\ call[a].job \in Jobs /\ Exists(call[a].job)
  /\ \A j \in Jobs : file'[j] = IF j = call[a].job THEN call[a].doc ELSE file[j]
  /\ \/ /\ call[a].op = "recover" /\ call'[a].phase = "recover" /\ call'[a].op = "recover"
        /\ call'[a].job = None /\ call'[a].todo = call[a].todo /\ call'[a].found = call[a].found
     \/ call[a].op # "recover" /\ call'[a] = IdleCall

LEMMA CallSteps ==
  ASSUME JobsInv, NEW a \in Callers
  PROVE  /\ \A op : BeginList(a, op) => Listing(a, op)
         /\ \A j \in Jobs : ListFile(a, j) => ListsOne(a, j)
         /\ \A j \in Jobs : ClaimCheck(a, j) => Checks(a, j)
         /\ RecoverStart(a) => StartsRecovery(a)
         /\ \A j \in Jobs : RecoverPatch(a, j) => PatchesOne(a, j)
         /\ Return(a) \/ Drop(a) => file' = file /\ call'[a] = IdleCall
<1>0. call[a] \in Call /\ CallOK(call[a])
  BY DEF JobsInv
<1>1. ASSUME NEW op, BeginList(a, op) PROVE Listing(a, op)
  <2>1. PICK todo : SetCall(a, [IdleCall EXCEPT !.phase = "list", !.op = op, !.lease = LeaseTicks, !.todo = todo])
    BY <1>1 DEF BeginList
  <2>2. /\ call'[a] = [IdleCall EXCEPT !.phase = "list", !.op = op, !.lease = LeaseTicks, !.todo = todo]
        /\ file' = file
    BY <2>1 DEF SetCall, JobsInv
  <2>. QED BY <2>2 DEF Listing, IdleCall
<1>2. ASSUME NEW j \in Jobs, ListFile(a, j) PROVE ListsOne(a, j)
  <2>. DEFINE left == IF call[a].op = "recover" /\ file[j].hasLease THEN file[j].leaseUntil ELSE 0
              wanted == IF call[a].op = "claim" THEN Claimable(file[j], Age(a)) ELSE file[j].status = "running"
              new == IF wanted THEN call[a].found \cup {[job |-> j, left |-> left]} ELSE call[a].found
  <2>1. SetCall(a, [call[a] EXCEPT !.todo = call[a].todo \ {j}, !.found = new]) /\ call[a].phase = "list"
    BY <1>2 DEF ListFile
  <2>2. wanted => file[j].status \in {"queued", "running"}
    BY DEF Claimable, LeaseExpired
  <2>3. \A f \in new : f \in call[a].found \/ (f.job = j /\ file[j].status \in {"queued", "running"})
    BY <2>2
  <2>. HIDE DEF new
  <2>4. call'[a] = [call[a] EXCEPT !.todo = call[a].todo \ {j}, !.found = new] /\ file' = file
    BY <2>1 DEF SetCall, JobsInv
  <2>. QED BY <1>0, <2>1, <2>3, <2>4 DEF ListsOne, Call
<1>3. ASSUME NEW j \in Jobs, ClaimCheck(a, j) PROVE Checks(a, j)
  <2>1. PICK t, u : SetCall(a, [ToFresh(a, "claim", j) EXCEPT !.lease = t, !.error = u])
    BY <1>3 DEF ClaimCheck
  <2>2. call'[a] = [ToFresh(a, "claim", j) EXCEPT !.lease = t, !.error = u] /\ file' = file
    BY <2>1 DEF SetCall, JobsInv
  <2>3. call'[a].phase = "fresh" /\ call'[a].op = "claim" /\ call'[a].job = j /\ call'[a].found = {}
    BY <2>2 DEF ToFresh, IdleCall
  <2>4. call[a].phase = "list" /\ call[a].op = "claim" /\ IsOldest(a, j) /\ Claimable(file[j], Age(a))
    BY <1>3 DEF ClaimCheck, Listed, CanClaim
  <2>. QED BY <2>2, <2>3, <2>4 DEF Checks, IsOldest, Claimable, LeaseExpired
<1>4. ASSUME RecoverStart(a) PROVE StartsRecovery(a)
  <2>. DEFINE late == {f.job : f \in {g \in call[a].found : g.left <= 0}}
  <2>1. SetCall(a, [call[a] EXCEPT !.phase = "recover", !.found = {}, !.todo = late]) /\ call[a].op = "recover"
    BY <1>4 DEF RecoverStart, Listed
  <2>2. \A k \in late : \E f \in call[a].found : f.job = k
    OBVIOUS
  <2>. HIDE DEF late
  <2>3. call'[a] = [call[a] EXCEPT !.phase = "recover", !.found = {}, !.todo = late] /\ file' = file
    BY <2>1 DEF SetCall, JobsInv
  <2>. QED BY <1>0, <2>1, <2>2, <2>3 DEF StartsRecovery, Call
<1>5. ASSUME NEW j \in Jobs, RecoverPatch(a, j) PROVE PatchesOne(a, j)
  <2>1. PICK doc : /\ doc = Stopped(file[j], "partial")
                   /\ SetCall(a, [call[a] EXCEPT !.phase = "write", !.job = j, !.todo = call[a].todo \ {j}, !.doc = doc])
    BY <1>5 DEF RecoverPatch
  <2>2. /\ call'[a] = [call[a] EXCEPT !.phase = "write", !.job = j, !.todo = call[a].todo \ {j}, !.doc = doc]
        /\ file' = file
    BY <2>1 DEF SetCall, JobsInv
  <2>. QED BY <1>0, <1>5, <2>1, <2>2 DEF PatchesOne, RecoverPatch, Call
<1>6. ASSUME Return(a) \/ Drop(a) PROVE file' = file /\ call'[a] = IdleCall
  BY <1>6 DEF Return, Drop, SetCall, JobsInv
<1>. QED BY <1>1, <1>2, <1>3, <1>4, <1>5, <1>6

LEMMA ReadSteps ==
  ASSUME JobsInv, NEW a \in Callers
  PROVE  /\ Fresh(a) => ReadsFresh(a)
         /\ Write(a) => Writes(a)
<1>0. call[a] \in Call /\ CallOK(call[a])
  BY DEF JobsInv
<1>1. ASSUME Fresh(a) PROVE ReadsFresh(a)
  <2>1. PICK doc : /\ doc = Patched(a, call[a], file[call[a].job])
                   /\ SetCall(a, [call[a] EXCEPT !.phase = "write", !.doc = doc])
    BY <1>1 DEF Fresh
  <2>2. call'[a] = [call[a] EXCEPT !.phase = "write", !.doc = doc] /\ file' = file
    BY <2>1 DEF SetCall, JobsInv
  <2>. QED BY <1>0, <1>1, <2>1, <2>2 DEF ReadsFresh, Fresh, Call
<1>2. ASSUME Write(a) PROVE Writes(a)
  <2>1. call[a].phase = "write" /\ call[a].job \in Jobs /\ Exists(call[a].job)
    BY <1>0, <1>2 DEF Write, CallOK
  <2>2. \A j \in Jobs : file'[j] = IF j = call[a].job THEN call[a].doc ELSE file[j]
    BY <1>2 DEF Write, JobsInv
  <2>3. CASE call[a].op = "recover"
    <3>1. call'[a] = [call[a] EXCEPT !.phase = "recover", !.job = None, !.doc = NoJob]
      BY <1>2, <2>3 DEF Write, JobsInv
    <3>. QED BY <1>0, <2>1, <2>2, <2>3, <3>1 DEF Writes, Call
  <2>4. CASE call[a].op # "recover"
    <3>1. call'[a] = IdleCall
      BY <1>2, <2>4 DEF Write, JobsInv
    <3>. QED BY <2>1, <2>2, <2>4, <3>1 DEF Writes
  <2>. QED BY <2>3, <2>4
<1>. QED BY <1>1, <1>2

\* Where the methods of the worker and of the handlers begin.
LEMMA BeginSteps ==
  ASSUME JobsInv, NEW a \in Callers, NEW j \in Jobs
  PROVE  /\ \A s \in Stages : BeginStartStage(a, j, s) =>
              /\ file' = file /\ call'[a].phase = "write" /\ call'[a].doc = Started(file[j], s)
         /\ \A s \in Stages : BeginCompleteStage(a, j, s) =>
              /\ file' = file /\ call'[a].phase = "write" /\ call'[a].doc = StageDone(file[j], s)
         /\ BeginComplete(a, j) =>
              /\ file' = file /\ call'[a].phase = "write" /\ call'[a].doc = Completed(file[j])
         /\ BeginMarkFailed(a, j) => file' = file /\ call'[a].phase = "fresh"
         /\ BeginHeartbeat(a, j) => file' = file /\ call'[a].phase = "fresh"
         /\ BeginCancel(a, j) => file' = file /\ call'[a].phase = "fresh"
         /\ BeginRetry(a, j) =>
              /\ file' = file /\ call'[a].phase = "fresh" /\ call'[a].retries = file[j].retryCount + 1
              /\ Exists(j) /\ file[j].status \notin {"queued", "running", "cancelled"}
<1>1. ASSUME NEW op, NEW d, ToWrite(a, op, j, d)
      PROVE  file' = file /\ call'[a].phase = "write" /\ call'[a].doc = d
  <2>1. call'[a] = [IdleCall EXCEPT !.phase = "write", !.op = op, !.job = j, !.doc = d] /\ file' = file
    BY <1>1 DEF ToWrite, SetCall, JobsInv
  <2>. QED BY <2>1 DEF IdleCall
<1>2. ASSUME NEW op, NEW r, NEW t,
             \/ SetCall(a, ToFresh(a, op, j)) \/ SetCall(a, [ToFresh(a, op, j) EXCEPT !.retries = r])
             \/ SetCall(a, [ToFresh(a, op, j) EXCEPT !.lease = t])
      PROVE  file' = file /\ call'[a].phase = "fresh"
  <2>1. /\ \/ call'[a] = ToFresh(a, op, j) \/ call'[a] = [ToFresh(a, op, j) EXCEPT !.retries = r]
           \/ call'[a] = [ToFresh(a, op, j) EXCEPT !.lease = t]
        /\ file' = file
    BY <1>2 DEF SetCall, JobsInv
  <2>. QED BY <2>1 DEF ToFresh, IdleCall
<1>3. ASSUME BeginRetry(a, j)
      PROVE  /\ file' = file /\ call'[a].phase = "fresh" /\ call'[a].retries = file[j].retryCount + 1
             /\ Exists(j) /\ file[j].status \notin {"queued", "running", "cancelled"}
  <2>1. call'[a] = [ToFresh(a, "retry", j) EXCEPT !.retries = file[j].retryCount + 1] /\ file' = file
    BY <1>3 DEF BeginRetry, SetCall, JobsInv
  <2>. QED BY <1>3, <2>1 DEF BeginRetry, RetryReturns, ToFresh, IdleCall
<1>. QED BY <1>1, <1>2, <1>3 DEF BeginStartStage, BeginCompleteStage, BeginComplete, BeginMarkFailed,
            BeginHeartbeat, BeginCancel

\* A step is somebody's: to everybody else it shows as one that at most ages leases.
LEMMA WorkerActs ==
  ASSUME TypesIInv, [Next]_vars, NEW w \in Workers
  PROVE  \/ LikeCall(call[w], call'[w]) /\ pc'[w] = pc[w] /\ at'[w] = at[w] /\ mine'[w] = mine[w]
         \/ Calling(w) \/ Work(w) \/ Throw(w) \/ Crash(w)
<1>0. w \in Callers /\ w \notin Clients
  BY ActorsAssumption
<1>1. ASSUME NEW a \in Callers, Calling(a), a # w
      PROVE  LikeCall(call[w], call'[w]) /\ pc'[w] = pc[w] /\ at'[w] = at[w] /\ mine'[w] = mine[w]
  <2>1. call'[w] = call[w]
    BY <1>0, <1>1, OneCaller DEF TypesIInv, Calling, Method
  <2>. QED BY <1>1, <2>1, SameIsLike DEF Calling, workerVars
<1>2. ASSUME NEW x \in Workers, Work(x) \/ Throw(x) \/ Crash(x), x # w
      PROVE  LikeCall(call[w], call'[w]) /\ pc'[w] = pc[w] /\ at'[w] = at[w] /\ mine'[w] = mine[w]
  <2>1. call'[w] = call[w]
    BY <1>0, <1>2, WorkerFrame DEF TypesIInv
  <2>2. pc'[w] = pc[w] /\ at'[w] = at[w] /\ mine'[w] = mine[w]
    BY <1>2, WorkerTypes DEF TypesIInv, WorkerTypesOK
  <2>. QED BY <2>1, <2>2, SameIsLike
<1>3. ASSUME NEW c \in Clients,
             FailRequest(c) \/ \E j \in Jobs : Enqueue(c, j) \/ CancelJob(c, j) \/ RetryJob(c, j)
      PROVE  LikeCall(call[w], call'[w]) /\ pc'[w] = pc[w] /\ at'[w] = at[w] /\ mine'[w] = mine[w]
  <2>1. pc' = pc /\ at' = at /\ mine' = mine
    BY <1>3 DEF FailRequest, Enqueue, CancelJob, RetryJob, workerVars
  <2>2. (\E j \in Jobs : Method(c, j)) \/ Drop(c)
    BY <1>3 DEF FailRequest, Enqueue, CancelJob, RetryJob, Method
  <2>3. call'[w] = call[w]
    BY <1>0, <1>3, <2>2, OneCaller, ActorsAssumption DEF TypesIInv
  <2>. QED BY <2>1, <2>3, SameIsLike
<1>4. ASSUME Advance
      PROVE  LikeCall(call[w], call'[w]) /\ pc'[w] = pc[w] /\ at'[w] = at[w] /\ mine'[w] = mine[w]
  <2>1. LikeCall(call[w], call'[w])
    BY <1>0, <1>4, TickLike DEF TypesIInv, Advance
  <2>. QED BY <1>4, <2>1 DEF Advance, workerVars
<1>5. ASSUME UNCHANGED vars
      PROVE  LikeCall(call[w], call'[w]) /\ pc'[w] = pc[w] /\ at'[w] = at[w] /\ mine'[w] = mine[w]
  BY <1>5, SameIsLike DEF vars
<1>. QED BY <1>1, <1>2, <1>3, <1>4, <1>5 DEF Next

LEMMA ClientActs ==
  ASSUME TypesIInv, [Next]_vars, NEW c \in Clients
  PROVE  \/ LikeCall(call[c], call'[c])
         \/ call'[c] = IdleCall \/ Fresh(c) \/ Writes(c)
         \/ \E j \in Jobs : BeginCancel(c, j) \/ BeginRetry(c, j)
<1>0. c \in Callers /\ c \notin Workers
  BY ActorsAssumption
<1>1. ASSUME NEW a \in Callers, Calling(a)
      PROVE  LikeCall(call[c], call'[c]) \/ Fresh(c) \/ Writes(c)
  <2>1. CASE a # c
    <3>1. call'[c] = call[c]
      BY <1>0, <1>1, <2>1, OneCaller DEF TypesIInv, Calling, Method
    <3>. QED BY <3>1, SameIsLike
  <2>2. CASE a = c
    <3>1. call[c].op \in {"none", "cancel", "retry"} /\ PhaseOK(c)
      BY <1>0 DEF TypesIInv, Control, ClientAt
    <3>2. Fresh(c) \/ Write(c)
      BY <1>1, <2>2, <3>1 DEF Calling, PhaseOK, ListFile, ClaimCheck, RecoverPatch, RecoverStart, Listed, Return,
         ClaimReturns, RecoverReturns
    <3>. QED BY <1>0, <3>2, ReadSteps DEF TypesIInv
  <2>. QED BY <2>1, <2>2
<1>2. ASSUME NEW x \in Workers, Work(x) \/ Throw(x) \/ Crash(x) PROVE LikeCall(call[c], call'[c])
  BY <1>0, <1>2, WorkerFrame, SameIsLike DEF TypesIInv
<1>3. ASSUME NEW d \in Clients,
             FailRequest(d) \/ \E j \in Jobs : Enqueue(d, j) \/ CancelJob(d, j) \/ RetryJob(d, j)
      PROVE  \/ LikeCall(call[c], call'[c]) \/ call'[c] = IdleCall
             \/ \E j \in Jobs : BeginCancel(c, j) \/ BeginRetry(c, j)
  <2>1. CASE c # d
    <3>1. (\E j \in Jobs : Method(d, j)) \/ Drop(d)
      BY <1>3 DEF FailRequest, Enqueue, CancelJob, RetryJob, Method
    <3>2. call'[c] = call[c]
      BY <1>0, <1>3, <2>1, <3>1, OneCaller, ActorsAssumption DEF TypesIInv
    <3>. QED BY <3>2, SameIsLike
  <2>2. CASE c = d
    <3>1. FailRequest(c) => call'[c] = IdleCall
      BY <1>0 DEF FailRequest, Drop, TypesIInv, JobsInv
    <3>2. \A j \in Jobs : Enqueue(c, j) => call'[c] = call[c]
      BY DEF Enqueue, Create
    <3>. QED BY <1>3, <2>2, <3>1, <3>2, SameIsLike DEF CancelJob, RetryJob
  <2>. QED BY <2>1, <2>2
<1>4. ASSUME Advance PROVE LikeCall(call[c], call'[c])
  BY <1>0, <1>4, TickLike DEF TypesIInv, Advance
<1>5. ASSUME UNCHANGED vars PROVE LikeCall(call[c], call'[c])
  BY <1>5, SameIsLike DEF vars
<1>. QED BY <1>1, <1>2, <1>3, <1>4, <1>5 DEF Next

\* What a step makes of a job's file.
LEMMA FileActs ==
  ASSUME TypesIInv, [Next]_vars, NEW j \in Jobs
  PROVE  \/ Like(file[j], file'[j])
         \/ ~Exists(j) /\ file'[j] = NewJob /\ UNCHANGED <<call, workerVars, dossiers, crashes>>
         \/ \E a \in Callers : Writes(a) /\ call[a].job = j /\ file'[j] = call[a].doc
<1>0. JobsInv
  BY DEF TypesIInv
<1>1. ASSUME NEW a \in Callers, Write(a)
      PROVE  Like(file[j], file'[j]) \/ (Writes(a) /\ call[a].job = j /\ file'[j] = call[a].doc)
  BY <1>0, <1>1, ReadSteps DEF Writes, Like
<1>2. file' = file => Like(file[j], file'[j])
  BY DEF Like
<1>3. ASSUME NEW a \in Callers, Calling(a) PROVE file' = file \/ Write(a)
  BY <1>3 DEF Calling, ListFile, ClaimCheck, RecoverPatch, RecoverStart, Fresh, Return, SetCall
<1>4. ASSUME NEW w \in Workers, Work(w) \/ Throw(w) \/ Crash(w) PROVE file' = file \/ Write(w)
  BY <1>4 DEF Work, Boot, Claim, ClaimNothing, ClaimJob, Enter, StartStage, Heartbeat, Beat, Policy, Discover,
     WriteDossier, RecordDossier, RecordCompleted, Leave, FinishStage, Complete, RecordFailure, MarkFailed, Finished,
     Throw, Crash, Drop, BeginList, BeginStartStage, BeginCompleteStage, BeginComplete, BeginMarkFailed,
     BeginHeartbeat, ToWrite, Return, SetCall, jobVars
<1>5. ASSUME NEW c \in Clients, NEW k \in Jobs, Enqueue(c, k)
      PROVE  \/ Like(file[j], file'[j])
             \/ ~Exists(j) /\ file'[j] = NewJob /\ UNCHANGED <<call, workerVars, dossiers, crashes>>
  <2>1. /\ ~Exists(k) /\ file' = [file EXCEPT ![k] = NewJob] /\ call' = call
        /\ UNCHANGED <<workerVars, dossiers, crashes>>
    BY <1>5 DEF Enqueue, Create, NoEffect
  <2>2. file'[j] = IF j = k THEN NewJob ELSE file[j]
    BY <1>0, <2>1 DEF JobsInv
  <2>. QED BY <2>1, <2>2 DEF Like
<1>6. ASSUME NEW c \in Clients, FailRequest(c) \/ \E k \in Jobs : CancelJob(c, k) \/ RetryJob(c, k)
      PROVE  file' = file
  BY <1>6 DEF FailRequest, Drop, CancelJob, RetryJob, BeginCancel, BeginRetry, SetCall
<1>7. Advance => Like(file[j], file'[j])
  BY <1>0, TickLike DEF Advance
<1>8. UNCHANGED vars => file' = file
  BY DEF vars
<1>. QED BY <1>1, <1>2, <1>3, <1>4, <1>5, <1>6, <1>7, <1>8, ActorsAssumption DEF Next

-------------------------------------------------------------------------------
(* One worker and one client at a time.  A job the worker has in hand is    *)
(* queued, running or cancelled, so that no retry of it is in progress; a   *)
(* job being retried is none of these.                                      *)
OneEach == (\A w, x \in Workers : w = x) /\ (\A c, d \in Clients : c = d)

Live == {"queued", "running", "cancelled"}

\* The worker processes a job, or has yet to record how it ended.
Holds(w) == pc[w] \in Holding \/ (pc[w] = "end" /\ ~Idle(w))

\* The worker processes the job, or may write it as what it claims or recovers.
Grip(w, j) ==
  \/ Holds(w) /\ mine[w] = j
  \/ call[w].op \in {"claim", "recover"} /\ call[w].job = j
  \/ call[w].op = "recover" /\ call[w].phase # "list" /\ j \in call[w].todo
  \/ \E f \in call[w].found : f.job = j

LiveInHand ==
  /\ \A w \in Workers, j \in Jobs : Grip(w, j) => file[j].status \in Live
  /\ \A w \in Workers : call[w].phase = "write" =>
       /\ call[w].op \notin {"complete", "markFailed", "recover"} => call[w].doc.status \in Live
       /\ call[w].op = "recover" => call[w].job \notin call[w].todo
  /\ \A c \in Clients : call[c].op = "cancel" /\ call[c].phase = "write" =>
       call[c].doc.status = "cancelled" /\ call[c].doc.error
  /\ \A c \in Clients : call[c].op = "retry" => file[call[c].job].status \notin Live

LiveIInv == TypesIInv /\ LiveInHand

\* The worker takes in hand only what it has in hand or has just read as queued or
\* running, and lets go of what it writes as ended.
LEMMA GripStep ==
  ASSUME LiveIInv, [Next]_vars, NEW w \in Workers, NEW j \in Jobs, Grip(w, j)'
  PROVE  /\ Grip(w, j) \/ file[j].status \in {"queued", "running"}
         /\ Writes(w) /\ call[w].job = j =>
              Like(file[j], file'[j]) \/ call[w].op \notin {"complete", "markFailed", "recover"}
<1>0. /\ w \in Callers /\ j # None /\ JobsInv /\ WorkerTypesOK
      /\ PlaceOK(w) /\ CallAt(w) /\ PhaseOK(w) /\ PlaceOK(w)' /\ CallAt(w)' /\ PhaseOK(w)'
  BY ActorsAssumption, NoneAssumption, TypesStep DEF LiveIInv, TypesIInv, Control
<1>1. CASE LikeCall(call[w], call'[w]) /\ pc'[w] = pc[w] /\ at'[w] = at[w] /\ mine'[w] = mine[w]
  <2>1. Grip(w, j)
    BY <1>1 DEF Grip, Holds, Idle, LikeCall
  <2>2. ~Writes(w)
    BY <1>1 DEF Writes, LikeCall, IdleCall
  <2>. QED BY <2>1, <2>2
<1>2. CASE Calling(w)
  <2>1. pc' = pc /\ mine' = mine
    BY <1>2 DEF Calling, workerVars
  <2>2. ASSUME NEW k \in Jobs, ListsOne(w, k) PROVE Grip(w, j) \/ file[j].status \in {"queued", "running"}
    BY <2>1, <2>2 DEF ListsOne, Grip, Holds, Idle
  <2>3. ASSUME NEW k \in Jobs, PatchesOne(w, k) PROVE Grip(w, j)
    BY <1>0, <2>1, <2>3 DEF PatchesOne, Grip, Holds, Idle, PhaseOK
  <2>4. ASSUME StartsRecovery(w) PROVE Grip(w, j)
    BY <1>0, <2>1, <2>4 DEF StartsRecovery, Grip, Holds, CallAt, Idle, PhaseOK
  <2>5. ASSUME ReadsFresh(w) PROVE Grip(w, j)
    BY <2>1, <2>5 DEF ReadsFresh, Grip, Holds, Idle
  <2>6. ASSUME NEW k \in Jobs, Checks(w, k) PROVE Grip(w, j) \/ file[j].status \in {"queued", "running"}
    BY <1>0, <2>1, <2>6 DEF Checks, Grip, Holds, CallAt, Holding
  <2>7. ASSUME call'[w] = IdleCall, call[w].op \in {"claim", "recover"} PROVE FALSE
    BY <1>0, <2>1, <2>7 DEF Grip, Holds, CallAt, Idle, IdleCall, Holding
  <2>8. ASSUME Writes(w), call[w].op # "claim"
        PROVE  /\ Grip(w, j)
               /\ call[w].job = j => call[w].op \notin {"complete", "markFailed", "recover"}
    <3>1. CASE call[w].op = "recover"
      <4>1. pc[w] = "poll" /\ call[w].job \notin call[w].todo
        BY <1>0, <2>8, <3>1 DEF CallAt, LiveIInv, LiveInHand, Writes
      <4>. QED BY <1>0, <2>1, <2>8, <3>1, <4>1 DEF Writes, Grip, Holds, Holding, PhaseOK
    <3>2. CASE call[w].op # "recover"
      <4>1. call'[w] = IdleCall
        BY <2>8, <3>2 DEF Writes
      <4>2. pc[w] \in Holding /\ mine[w] = j
        BY <2>1, <4>1 DEF Grip, Holds, IdleCall, Idle
      <4>3. pc[w] # "end"
        BY <4>2 DEF Holding
      <4>. QED BY <1>0, <3>2, <4>2, <4>3 DEF Grip, Holds, CallAt
    <3>. QED BY <3>1, <3>2
  <2>9. \/ \E k \in Jobs : ListsOne(w, k) \/ Checks(w, k) \/ PatchesOne(w, k)
        \/ StartsRecovery(w) \/ ReadsFresh(w) \/ (Writes(w) /\ call[w].op # "claim")
        \/ (call'[w] = IdleCall /\ call[w].op \in {"claim", "recover"})
    <3>1. Return(w) => call[w].op \in {"claim", "recover"}
      BY <1>0 DEF Return, ClaimReturns, RecoverReturns, Listed, PhaseOK
    <3>. QED BY <1>0, <1>2, <3>1, CallSteps, ReadSteps DEF Calling
  <2>10. ASSUME ~(Writes(w) /\ call[w].op # "claim"), Writes(w)
         PROVE call[w].op \notin {"complete", "markFailed", "recover"}
    BY <2>10
  <2>. QED BY <2>2, <2>3, <2>4, <2>5, <2>6, <2>7, <2>8, <2>9, <2>10
<1>3. CASE Work(w) \/ Throw(w) \/ Crash(w)
  <2>1. CASE ClaimJob(w)
    <3>1. call[w].op = "claim" /\ call'[w] = IdleCall /\ mine'[w] = call[w].job
      BY <1>0, <2>1, ReadSteps DEF ClaimJob, Writes, CallAt, WorkerTypesOK
    <3>. QED BY <3>1 DEF Grip, IdleCall
  <2>2. CASE Boot(w) \/ Claim(w)
    <3>1. Listing(w, "recover") \/ Listing(w, "claim")
      BY <1>0, <2>2, CallSteps DEF Boot, Claim
    <3>2. pc'[w] \in {"poll", "claiming"}
      BY <1>0, <2>2 DEF Boot, Claim, Goto, WorkerTypesOK
    <3>. QED BY <1>0, <3>1, <3>2 DEF Listing, Grip, Holds, Holding
  <2>3. CASE ClaimNothing(w) \/ Crash(w)
    <3>1. call'[w] = IdleCall /\ pc'[w] \in {"poll", "boot"}
      BY <1>0, <2>3, CallSteps DEF ClaimNothing, Crash, Goto, WorkerTypesOK
    <3>. QED BY <3>1 DEF Grip, Holds, Holding, IdleCall
  <2>4. CASE ((Enter(w) \/ Leave(w)) /\ Cancelled(w)) \/ Finished(w)
    <3>1. call'[w] = call[w] /\ Idle(w) /\ pc'[w] = "poll"
      BY <1>0, <2>4 DEF Enter, Leave, Finished, Abandon, At, jobVars, WorkerTypesOK
    <3>. QED BY <1>0, <3>1 DEF Grip, Holds, Holding, PhaseOK, Idle
  <2>5. CASE ~\/ ClaimJob(w) \/ Boot(w) \/ Claim(w) \/ ClaimNothing(w) \/ Crash(w) \/ Finished(w)
              \/ ((Enter(w) \/ Leave(w)) /\ Cancelled(w))
    <3>1. Holds(w) /\ mine' = mine /\ pc'[w] \in Holding \cup {"end"}
      <4>1. CASE FinishStage(w)
        BY <1>0, <4>1 DEF FinishStage, At, Goto, Holds, Holding, WorkerTypesOK
      <4>2. CASE Throw(w)
        BY <1>0, <4>2 DEF Throw, Goto, Stay, Holds, Holding, Idle, PhaseOK, CallAt, WorkerTypesOK
      <4>3. CASE ~FinishStage(w) /\ ~Throw(w)
        BY <1>0, <1>3, <2>5, <4>3 DEF Work, Enter, StartStage, Heartbeat, Beat, Policy, Discover, WriteDossier,
           RecordDossier, RecordCompleted, Leave, Complete, RecordFailure, MarkFailed, At, Goto, Stay, Holds, Holding,
           WorkerTypesOK
      <4>. QED BY <4>1, <4>2, <4>3
    <3>2. call'[w].op \notin {"claim", "recover"} /\ call'[w].found = {}
      BY <1>0, <3>1 DEF CallAt, PhaseOK, Holding
    <3>3. Grip(w, j)
      BY <3>1, <3>2 DEF Grip
    <3>4. file' = file
      BY <1>3, <2>5 DEF Work, Enter, StartStage, Heartbeat, Beat, Policy, Discover, WriteDossier,
         RecordDossier, RecordCompleted, Leave, FinishStage, Complete, RecordFailure, MarkFailed, Throw, Drop,
         BeginStartStage, BeginCompleteStage, BeginComplete, BeginMarkFailed, BeginHeartbeat, ToWrite, SetCall, jobVars
    <3>. QED BY <3>3, <3>4 DEF Like
  <2>. QED BY <1>3, <2>1, <2>2, <2>3, <2>4, <2>5
<1>. QED BY <1>1, <1>2, <1>3, WorkerActs DEF LiveIInv

LEMMA WriterGrips ==
  ASSUME TypesIInv, NEW w \in Workers, call[w].phase \in {"fresh", "write"}
  PROVE  Grip(w, call[w].job) /\ call[w].job \in Jobs /\ file[call[w].job] \in Job
<1>1. w \in Callers /\ CallAt(w) /\ PhaseOK(w) /\ call[w] \in Call /\ CallOK(call[w])
  BY ActorsAssumption DEF TypesIInv, Control, JobsInv
<1>2. call[w].job \in Jobs /\ file[call[w].job] \in Job
  BY <1>1 DEF TypesIInv, JobsInv, CallOK, Exists
<1>3. CASE call[w].op \in {"claim", "recover"}
  BY <1>2, <1>3 DEF Grip
<1>4. CASE call[w].op \in StageOps
  <2>1. pc[w] \in Holding \cup {"end"} /\ call[w].job = mine[w]
    BY <1>1, <1>4 DEF CallAt, StageOps, Holding
  <2>. QED BY <1>2, <2>1 DEF Grip, Holds, Idle
<1>5. call[w].op \in {"claim", "recover"} \cup StageOps
  BY <1>1 DEF Call, CallAt, PhaseOK, StageOps
<1>. QED BY <1>2, <1>3, <1>4, <1>5

\* What the worker is about to write.
LEMMA WorkerDocs ==
  ASSUME LiveIInv, [Next]_vars, NEW w \in Workers, call'[w].phase = "write"
  PROVE  \/ LikeCall(call[w], call'[w])
         \/ ReadsFresh(w)
         \/ \E k \in Jobs : PatchesOne(w, k) /\ call'[w].op = "recover" /\ Grip(w, k)
         \/ /\ file' = file /\ pc[w] \in Holding /\ mine[w] \in Jobs /\ call'[w].job = mine[w]
            /\ \/ call'[w].op = "startStage" /\ call'[w].doc = Started(file[mine[w]], at[w])
                  /\ StartStage(w)
               \/ call'[w].op = "completeStage" /\ call'[w].doc = StageDone(file[mine[w]], at[w])
                  /\ FinishStage(w)
               \/ call'[w].op = "complete" /\ call'[w].doc = Completed(file[mine[w]])
                  /\ Complete(w)
<1>0. /\ w \in Callers /\ JobsInv /\ WorkerTypesOK /\ PlaceOK(w) /\ PhaseOK(w)
      /\ JobsInv' /\ PhaseOK(w)'
  BY ActorsAssumption, TypesStep DEF LiveIInv, TypesIInv, Control
<1>1. CASE LikeCall(call[w], call'[w])
  BY <1>1
<1>2. CASE Calling(w)
  <2>1. IdleCall.phase = "idle"
    BY DEF IdleCall
  <2>2. \A k \in Jobs : ~ListsOne(w, k) /\ ~Checks(w, k)
    BY DEF ListsOne, Checks
  <2>3. ~StartsRecovery(w) /\ ~Writes(w)
    BY <2>1 DEF StartsRecovery, Writes
  <2>4. (\E k \in Jobs : RecoverPatch(w, k)) \/ ReadsFresh(w)
    BY <1>0, <1>2, <2>1, <2>2, <2>3, CallSteps, ReadSteps DEF Calling
  <2>5. ASSUME NEW k \in Jobs, RecoverPatch(w, k)
        PROVE  PatchesOne(w, k) /\ call'[w].op = "recover" /\ Grip(w, k)
    <3>1. PatchesOne(w, k)
      BY <1>0, <2>5, CallSteps
    <3>. QED BY <1>0, <3>1 DEF PatchesOne, PhaseOK, Grip
  <2>. QED BY <2>4, <2>5
<1>3. CASE Work(w) \/ Throw(w) \/ Crash(w)
  <2>1. ~Idle(w)' /\ IdleCall.phase = "idle"
    BY DEF Idle, IdleCall
  <2>2. CASE StartStage(w) \/ FinishStage(w) \/ Complete(w)
    <3>1. /\ Idle(w) /\ pc[w] \in Holding /\ mine[w] \in Jobs /\ at[w] \in Stages
      BY <1>0, <2>2 DEF StartStage, FinishStage, Complete, At, PlaceOK, Holding
    <3>2. call' # call
      BY <2>1, <3>1 DEF Idle
    <3>3. CASE StartStage(w)
      <4>1. BeginStartStage(w, mine[w], at[w])
        BY <3>2, <3>3 DEF StartStage, jobVars
      <4>. QED BY <1>0, <3>1, <3>3, <4>1, Begins, BeginSteps DEF Begun
    <3>4. CASE FinishStage(w)
      <4>1. BeginCompleteStage(w, mine[w], at[w])
        BY <3>2, <3>4 DEF FinishStage, jobVars
      <4>. QED BY <1>0, <3>1, <3>4, <4>1, Begins, BeginSteps DEF Begun
    <3>5. CASE Complete(w)
      <4>1. BeginComplete(w, mine[w])
        BY <3>5 DEF Complete
      <4>. QED BY <1>0, <3>1, <3>5, <4>1, Begins, BeginSteps DEF Begun
    <3>. QED BY <2>2, <3>3, <3>4, <3>5
  <2>3. CASE Boot(w) \/ Claim(w)
    BY <1>0, <2>3, CallSteps DEF Boot, Claim, Listing
  <2>4. CASE ClaimNothing(w) \/ Crash(w) \/ Throw(w)
    BY <1>0, <2>1, <2>4, CallSteps DEF ClaimNothing, Crash, Throw
  <2>5. CASE ClaimJob(w)
    BY <1>0, <2>1, <2>5, ReadSteps DEF ClaimJob, Writes
  <2>6. CASE Heartbeat(w) \/ MarkFailed(w)
    <3>1. /\ Idle(w) /\ mine[w] \in Jobs
      BY <1>0, <2>6 DEF Heartbeat, Beat, MarkFailed, At, PlaceOK, Holding
    <3>2. call' # call
      BY <2>1, <3>1 DEF Idle
    <3>3. BeginHeartbeat(w, mine[w]) \/ BeginMarkFailed(w, mine[w])
      BY <2>6, <3>2 DEF Heartbeat, Beat, MarkFailed, jobVars
    <3>. QED BY <1>0, <3>1, <3>3, BeginSteps
  <2>7. CASE \/ Enter(w) \/ Policy(w) \/ Discover(w) \/ WriteDossier(w) \/ RecordDossier(w)
             \/ RecordCompleted(w) \/ Leave(w) \/ RecordFailure(w) \/ Finished(w)
    BY <2>1, <2>7 DEF Enter, Policy, Discover, WriteDossier, RecordDossier, RecordCompleted, Leave, RecordFailure,
       Finished, At, Idle, jobVars
  <2>. QED BY <1>3, <2>2, <2>3, <2>4, <2>5, <2>6, <2>7 DEF Work
<1>. QED BY <1>1, <1>2, <1>3, WorkerActs DEF LiveIInv

\* What a client is about to do.
LEMMA ClientDocs ==
  ASSUME LiveIInv, [Next]_vars, NEW c \in Clients, call'[c].op # "none"
  PROVE  /\ call'[c].job \in Jobs
         /\ \/ LikeCall(call[c], call'[c])
            \/ ReadsFresh(c)
            \/ \E j \in Jobs : /\ call'[c].phase = "fresh" /\ call'[c].job = j /\ file' = file
                               /\ \/ BeginCancel(c, j) /\ call'[c].op = "cancel"
                                  \/ BeginRetry(c, j) /\ call'[c].op = "retry"
<1>0. c \in Callers /\ JobsInv /\ JobsInv' /\ PhaseOK(c) /\ PhaseOK(c)' /\ ClientAt(c)'
  BY ActorsAssumption, TypesStep DEF LiveIInv, TypesIInv, Control
<1>1. call'[c].job \in Jobs
  <2>1. call'[c].phase \in {"fresh", "write"}
    BY <1>0 DEF PhaseOK, ClientAt, JobsInv, Call
  <2>. QED BY <1>0, <2>1 DEF JobsInv, CallOK
<1>2. call'[c] # IdleCall
  BY DEF IdleCall
<1>3. ~Writes(c)
  BY <1>0, <1>2 DEF Writes, ClientAt
<1>4. Fresh(c) => ReadsFresh(c)
  BY <1>0, ReadSteps
<1>5. ASSUME NEW j \in Jobs, BeginCancel(c, j) \/ BeginRetry(c, j)
      PROVE  /\ call'[c].phase = "fresh" /\ call'[c].job = j /\ file' = file
             /\ \/ BeginCancel(c, j) /\ call'[c].op = "cancel"
                \/ BeginRetry(c, j) /\ call'[c].op = "retry"
  BY <1>0, <1>5, Begins, BeginSteps DEF Begun
<1>. QED BY <1>1, <1>2, <1>3, <1>4, <1>5, ClientActs DEF LiveIInv

LEMMA LiveStep == OneEach /\ LiveIInv /\ [Next]_vars => LiveIInv'
<1>. SUFFICES ASSUME OneEach, LiveIInv, [Next]_vars PROVE LiveIInv'
  OBVIOUS
<1>0. /\ TypesIInv /\ TypesIInv' /\ JobsInv /\ JobsInv'
      /\ \A a \in Callers : PhaseOK(a) /\ PhaseOK(a)' /\ call[a] \in Call /\ CallOK(call[a])
      /\ \A c \in Clients : ClientAt(c)
  BY TypesStep DEF LiveIInv, TypesIInv, Control, JobsInv
<1>1. ASSUME NEW w \in Workers, NEW j \in Jobs, Grip(w, j)' PROVE file'[j].status \in Live
  <2>1. file[j].status \in Live
    BY <1>1, GripStep DEF LiveIInv, LiveInHand, Live
  <2>2. CASE Like(file[j], file'[j])
    BY <2>1, <2>2 DEF Like
  <2>3. CASE file'[j] = NewJob
    BY <2>3 DEF NewJob, Live
  <2>4. ASSUME NEW a \in Callers, Writes(a), call[a].job = j, file'[j] = call[a].doc
        PROVE  file'[j].status \in Live
    <3>1. call[a].phase = "write" /\ call[a].op # "none"
      BY <1>0, <2>4 DEF Writes, PhaseOK
    <3>2. CASE a \in Workers
      <4>1. a = w
        BY <3>2 DEF OneEach
      <4>. QED BY <1>1, <2>2, <2>4, <3>1, <4>1, GripStep DEF LiveIInv, LiveInHand
    <3>3. CASE a \in Clients
      <4>1. call[a].op \in {"cancel", "retry"}
        BY <1>0, <3>1, <3>3 DEF ClientAt
      <4>. QED BY <2>1, <2>4, <3>1, <3>3, <4>1 DEF LiveIInv, LiveInHand, Live
    <3>. QED BY <3>2, <3>3, ActorsAssumption
  <2>. QED BY <1>0, <2>2, <2>3, <2>4, FileActs
<1>2. ASSUME NEW w \in Workers, call'[w].phase = "write"
      PROVE  /\ call'[w].op \notin {"complete", "markFailed", "recover"} => call'[w].doc.status \in Live
             /\ call'[w].op = "recover" => call'[w].job \notin call'[w].todo
  <2>1. CASE LikeCall(call[w], call'[w])
    BY <1>2, <2>1 DEF LiveIInv, LiveInHand, LikeCall, Like
  <2>2. CASE ReadsFresh(w)
    <3>1. /\ call[w].phase = "fresh" /\ call'[w].op = call[w].op
          /\ call'[w].doc = Patched(w, call[w], file[call[w].job])
      BY <2>2 DEF ReadsFresh
    <3>2. /\ file[call[w].job] \in Job /\ file[call[w].job].status \in Live
          /\ call[w].op \notin {"fail", "cancel", "retry"} /\ w \in Callers
      BY <1>0, <3>1, WriterGrips, ActorsAssumption DEF LiveIInv, LiveInHand, TypesIInv, Control, CallAt
    <3>3. call'[w].doc # NoJob
      BY <1>0, <1>2, <3>2 DEF JobsInv, CallOK
    <3>4. call[w].op # "recover"
      BY <1>0, <3>1, <3>2, ActorsAssumption DEF LiveIInv, LiveInHand, TypesIInv, Control, CallAt, PhaseOK
    <3>5. CASE call[w].op = "claim"
      <4>1. PICK t, error : call'[w].doc = Claimed(file[call[w].job], w, t, error)
        BY <3>1, <3>5 DEF Patched
      <4>2. call'[w].doc.status = "running"
        BY <3>2, <4>1, ClaimedFields
      <4>. QED BY <3>1, <3>4, <4>2 DEF Live
    <3>6. CASE call[w].op \notin {"claim", "markFailed"}
      <4>1. call'[w].doc = Leased(file[call[w].job], w, call[w].lease)
        BY <3>1, <3>2, <3>6 DEF Patched
      <4>. QED BY <3>1, <3>2, <3>3, <3>4, <4>1, LeasedFields DEF Like
    <3>. QED BY <3>1, <3>4, <3>5, <3>6
  <2>3. ASSUME NEW k \in Jobs, PatchesOne(w, k), call'[w].op = "recover"
        PROVE  call'[w].job \notin call'[w].todo
    BY <2>3 DEF PatchesOne
  <2>4. ASSUME pc[w] \in Holding, mine[w] \in Jobs,
               \/ call'[w].op = "startStage" /\ call'[w].doc = Started(file[mine[w]], at[w])
               \/ call'[w].op = "completeStage" /\ call'[w].doc = StageDone(file[mine[w]], at[w])
        PROVE  call'[w].doc.status \in Live
    <3>1. at[w] \in Stages /\ file[mine[w]] \in Job /\ Grip(w, mine[w])
      BY <1>0, <2>4 DEF TypesIInv, Control, PlaceOK, Grip, Holds, JobsInv, Exists
    <3>2. file[mine[w]].status \in Live
      BY <2>4, <3>1 DEF LiveIInv, LiveInHand
    <3>. QED BY <2>4, <3>1, <3>2, StartedFields, StageDoneFields DEF Live
  <2>. QED BY <1>2, <2>1, <2>2, <2>3, <2>4, WorkerDocs
<1>3. ASSUME NEW c \in Clients, call'[c].op = "cancel", call'[c].phase = "write"
      PROVE  call'[c].doc.status = "cancelled" /\ call'[c].doc.error
  <2>1. CASE LikeCall(call[c], call'[c])
    BY <1>3, <2>1 DEF LiveIInv, LiveInHand, LikeCall, Like
  <2>2. CASE ReadsFresh(c)
    <3>1. /\ call'[c].doc = Patched(c, call[c], file[call[c].job]) /\ call[c].op = "cancel"
          /\ file[call[c].job] \in Job
      BY <1>0, <1>3, <2>2, ActorsAssumption DEF ReadsFresh, JobsInv, CallOK, Exists
    <3>2. call'[c].doc = Stopped(file[call[c].job], "cancelled")
      BY <3>1 DEF Patched
    <3>. QED BY <3>1, <3>2, StoppedFields
  <2>. QED BY <1>3, <2>1, <2>2, ClientDocs
<1>4. ASSUME NEW c \in Clients, call'[c].op = "retry" PROVE file'[call'[c].job].status \notin Live
  <2>0. PICK k \in Jobs : k = call'[c].job
    BY <1>4, ClientDocs
  <2>1. file[k].status \notin Live
    <3>1. CASE LikeCall(call[c], call'[c]) \/ ReadsFresh(c)
      BY <1>4, <2>0, <3>1 DEF LiveIInv, LiveInHand, LikeCall, ReadsFresh
    <3>2. ASSUME NEW j \in Jobs, BeginRetry(c, j), call'[c].job = j PROVE file[k].status \notin Live
      BY <1>0, <2>0, <3>2, BeginSteps, ActorsAssumption DEF Live
    <3>. QED BY <1>4, <3>1, <3>2, ClientDocs
  <2>2. CASE Like(file[k], file'[k])
    BY <2>0, <2>1, <2>2 DEF Like
  <2>3. CASE ~Exists(k) /\ call' = call
    <3>1. call[c].phase \in {"fresh", "write"}
      BY <1>0, <1>4, <2>3, ActorsAssumption DEF PhaseOK, Call
    <3>. QED BY <1>0, <2>0, <2>3, <3>1, ActorsAssumption DEF CallOK
  <2>4. ASSUME NEW a \in Callers, Writes(a), call[a].job = k PROVE FALSE
    <3>1. call[a].phase = "write"
      BY <2>4 DEF Writes
    <3>2. CASE a \in Workers
      <4>1. Grip(a, k)
        BY <1>0, <2>4, <3>1, <3>2, WriterGrips
      <4>. QED BY <2>1, <3>2, <4>1 DEF LiveIInv, LiveInHand
    <3>3. CASE a \in Clients
      <4>1. a = c
        BY <3>3 DEF OneEach
      <4>. QED BY <1>4, <2>4, <4>1 DEF Writes, IdleCall
    <3>. QED BY <3>2, <3>3, ActorsAssumption
  <2>. QED BY <1>0, <2>2, <2>3, <2>4, FileActs
<1>. QED BY <1>0, <1>1, <1>2, <1>3, <1>4 DEF LiveIInv, LiveInHand

LEMMA LiveInit == Init => LiveIInv
<1>. SUFFICES ASSUME Init PROVE LiveIInv
  OBVIOUS
<1>1. \A a \in Callers : call[a] = IdleCall
  BY DEF Init, JobsInit
<1>2. LiveInHand
  BY <1>1, ActorsAssumption DEF Init, LiveInHand, Grip, Holds, Holding, IdleCall
<1>. QED BY <1>2, TypesInit DEF LiveIInv

-------------------------------------------------------------------------------
(* Clean completions.  What makes it inductive: the document a working      *)
(* worker has, in the file or about to be written, has an error or all the  *)
(* stages the worker is past.                                               *)
Working == Holding \ {"failed", "markFailed"}

Earlier == [policy |-> {}, discover |-> {"policy"}, dossier |-> {"policy", "discover"},
            audit |-> {"policy", "discover", "dossier"}]

Through(w) == IF pc[w] = "complete" THEN Stages ELSE Earlier[at[w]]

Passed(d, S) == d.error \/ \A s \in S : d.stages[s] = "completed"

Current(w) == IF call[w].phase = "write" THEN call[w].doc ELSE file[mine[w]]

Progress(w) == pc[w] \in Working => Passed(Current(w), Through(w))

CleanDoc(d) == d.status = "completed" => Passed(d, Stages)

CleanIInv ==
  /\ LiveIInv
  /\ \A w \in Workers : Progress(w)
  /\ \A j \in Jobs : Exists(j) => CleanDoc(file[j])
  /\ \A a \in Callers : call[a].phase = "write" => CleanDoc(call[a].doc)

LEMMA LikePasses ==
  ASSUME NEW d, NEW e, Like(d, e), NEW S
  PROVE  (Passed(d, S) => Passed(e, S)) /\ (CleanDoc(d) => CleanDoc(e))
BY DEF Like, Passed, CleanDoc

\* The document the worker has at the start of a step of its own.
LEMMA HeldJob ==
  ASSUME LiveIInv, NEW w \in Workers, pc[w] \in Holding
  PROVE  /\ mine[w] \in Jobs /\ Exists(mine[w]) /\ file[mine[w]] \in Job /\ Good(file[mine[w]])
         /\ at[w] \in WhoStages /\ Stages = WhoStages /\ file[mine[w]].status \in Live
         /\ call[w].op \notin {"claim", "recover", "complete", "markFailed", "fail", "cancel", "retry"}
         /\ call[w].phase # "idle" => call[w].job = mine[w] /\ call[w].phase \in {"fresh", "write"}
<1>1. PlaceOK(w) /\ CallAt(w) /\ PhaseOK(w) /\ call[w] \in Call
  BY ActorsAssumption DEF LiveIInv, TypesIInv, Control, JobsInv
<1>2. mine[w] \in Jobs /\ Exists(mine[w]) /\ at[w] \in Stages /\ Stages = WhoStages
  BY <1>1, StagesAssumption DEF PlaceOK
<1>3. file[mine[w]] \in Job /\ Good(file[mine[w]])
  BY <1>2 DEF LiveIInv, TypesIInv, JobsInv, Good
<1>4. Grip(w, mine[w])
  BY <1>2 DEF Grip, Holds
<1>5. file[mine[w]].status \in Live
  BY <1>2, <1>4 DEF LiveIInv, LiveInHand
<1>6. call[w].op \notin {"claim", "recover", "complete", "markFailed", "fail", "cancel", "retry"}
  BY <1>1 DEF CallAt, Holding
<1>7. call[w].phase # "idle" => call[w].job = mine[w] /\ call[w].phase \in {"fresh", "write"}
  BY <1>1, <1>6 DEF PhaseOK, CallAt, Call, StageOps
<1>. QED BY <1>2, <1>3, <1>5, <1>6, <1>7

LEMMA ReadsHeartbeat ==
  ASSUME LiveIInv, [Next]_vars, NEW w \in Workers, ReadsFresh(w), pc[w] \in Holding
  PROVE  Like(file[mine[w]], call'[w].doc)
<1>1. call'[w].doc = Patched(w, call[w], file[mine[w]]) /\ call[w].phase = "fresh" /\ file[mine[w]] \in Job
  BY HeldJob DEF ReadsFresh
<1>2. call'[w].doc = Leased(file[mine[w]], w, call[w].lease)
  BY <1>1, HeldJob DEF Patched
<1>3. call'[w].doc # NoJob
  <2>1. JobsInv' /\ w \in Callers /\ call'[w].phase = "write"
    BY TypesStep, ActorsAssumption DEF LiveIInv, TypesIInv, ReadsFresh
  <2>. QED BY <2>1 DEF JobsInv, CallOK
<1>. QED BY <1>1, <1>2, <1>3, LeasedFields

\* Writes of others leave the worker's job with an error or as it was.
LEMMA OthersWrite ==
  ASSUME OneEach, CleanIInv, [Next]_vars, NEW w \in Workers, pc[w] \in Holding,
         call[w].phase # "write"
  PROVE  Like(file[mine[w]], file'[mine[w]]) \/ file'[mine[w]].error
<1>1. mine[w] \in Jobs /\ Exists(mine[w]) /\ file[mine[w]].status \in Live
  BY HeldJob DEF CleanIInv
<1>2. ASSUME NEW a \in Callers, Writes(a), call[a].job = mine[w], file'[mine[w]] = call[a].doc
      PROVE  file'[mine[w]].error
  <2>1. call[a].phase = "write" /\ a \notin Workers
    BY <1>2 DEF Writes, OneEach
  <2>2. a \in Clients /\ call[a].op \in {"cancel", "retry"}
    BY <2>1, ActorsAssumption DEF CleanIInv, LiveIInv, TypesIInv, Control, ClientAt, PhaseOK
  <2>. QED BY <1>1, <1>2, <2>1, <2>2 DEF CleanIInv, LiveIInv, LiveInHand
<1>. QED BY <1>1, <1>2, FileActs DEF CleanIInv, LiveIInv

LEMMA ProgressStep ==
  ASSUME OneEach, CleanIInv, [Next]_vars, NEW w \in Workers, pc'[w] \in Working
  PROVE  Passed(Current(w), Through(w))'
<1>0. /\ w \in Callers /\ LiveIInv /\ TypesIInv /\ JobsInv /\ WorkerTypesOK /\ TypesIInv' /\ JobsInv'
      /\ PlaceOK(w) /\ CallAt(w) /\ PhaseOK(w) /\ PhaseOK(w)'
  BY ActorsAssumption, TypesStep DEF CleanIInv, LiveIInv, TypesIInv, Control
<1>1. Working \subseteq Holding
  BY DEF Working
<1>2. CASE /\ LikeCall(call[w], call'[w]) /\ pc'[w] = pc[w] /\ at'[w] = at[w] /\ mine'[w] = mine[w]
  <2>1. Passed(Current(w), Through(w)) /\ Through(w)' = Through(w)
    BY <1>2 DEF CleanIInv, Progress, Through
  <2>2. CASE call[w].phase = "write"
    <3>1. Like(Current(w), Current(w)')
      BY <1>2, <2>2 DEF LikeCall, Current
    <3>. QED BY <2>1, <3>1, LikePasses
  <2>3. CASE call[w].phase # "write"
    <3>1. Current(w) = file[mine[w]] /\ Current(w)' = file'[mine[w]]
      BY <1>2, <2>3 DEF LikeCall, Current
    <3>2. Like(file[mine[w]], file'[mine[w]]) \/ file'[mine[w]].error
      BY <1>1, <1>2, <2>3, OthersWrite
    <3>. QED BY <2>1, <3>1, <3>2, LikePasses DEF Passed
  <2>. QED BY <2>2, <2>3
<1>3. CASE Calling(w)
  <2>1. pc' = pc /\ at' = at /\ mine' = mine
    BY <1>3 DEF Calling, workerVars
  <2>2. Passed(Current(w), Through(w)) /\ Through(w)' = Through(w) /\ pc[w] \in Holding
    BY <1>1, <2>1 DEF CleanIInv, Progress, Through
  <2>3. call[w].op \notin {"claim", "recover"} /\ mine[w] \in Jobs
    BY <1>0, <2>2, HeldJob
  <2>4. ReadsFresh(w) \/ Writes(w)
    BY <1>0, <1>3, <2>3, CallSteps, ReadSteps DEF Calling, ListFile, ClaimCheck, RecoverPatch, RecoverStart, Listed,
       Return, ClaimReturns, RecoverReturns, PhaseOK
  <2>5. CASE ReadsFresh(w)
    <3>1. Current(w) = file[mine[w]] /\ Current(w)' = call'[w].doc
      BY <2>5 DEF ReadsFresh, Current
    <3>2. Like(file[mine[w]], call'[w].doc)
      BY <1>0, <2>2, <2>5, ReadsHeartbeat
    <3>. QED BY <2>2, <3>1, <3>2, LikePasses
  <2>6. CASE Writes(w)
    <3>1. call[w].job = mine[w] /\ call'[w] = IdleCall /\ call[w].phase = "write"
      BY <1>0, <2>2, <2>3, <2>6, HeldJob DEF Writes
    <3>2. Current(w) = call[w].doc /\ Current(w)' = call[w].doc
      BY <2>1, <2>3, <2>6, <3>1 DEF Writes, Current, IdleCall
    <3>. QED BY <2>2, <3>2
  <2>. QED BY <2>4, <2>5, <2>6
<1>4. CASE Work(w) \/ Throw(w) \/ Crash(w)
  <2>1. CASE ClaimJob(w)
    <3>1. pc'[w] = "enter" /\ at'[w] = "policy"
      BY <1>0, <2>1 DEF ClaimJob, Goto, WorkerTypesOK
    <3>2. Through(w)' = {}
      BY <3>1 DEF Through, Earlier
    <3>. QED BY <3>2 DEF Passed
  <2>2. CASE Boot(w) \/ Claim(w) \/ ClaimNothing(w) \/ Crash(w) \/ Throw(w) \/ Finished(w) \/ Complete(w)
             \/ RecordFailure(w) \/ MarkFailed(w) \/ ((Enter(w) \/ Leave(w)) /\ Cancelled(w))
    <3>1. pc'[w] \in {"poll", "claiming", "boot", "failed", "end", "markFailed"}
      BY <1>0, <2>2 DEF Boot, Claim, ClaimNothing, Crash, Throw, Finished, Complete, RecordFailure, MarkFailed, Enter,
         Leave, Abandon, Goto, WorkerTypesOK
    <3>. QED BY <3>1 DEF Working, Holding
  <2>3. CASE \/ ((Enter(w) \/ Leave(w)) /\ ~Cancelled(w)) \/ Policy(w) \/ Discover(w) \/ WriteDossier(w)
             \/ RecordDossier(w) \/ RecordCompleted(w)
    <3>1. /\ pc[w] \in Working \ {"complete"} /\ pc'[w] # "complete" /\ at' = at /\ mine' = mine
          /\ file' = file /\ call' = call
      BY <1>0, <2>3 DEF Enter, Leave, Policy, Discover, WriteDossier, RecordDossier, RecordCompleted, At, Goto, Stay,
         jobVars, Working, Holding, WorkerTypesOK
    <3>2. Through(w)' = Through(w) /\ Current(w)' = Current(w)
      BY <3>1 DEF Through, Current
    <3>. QED BY <3>1, <3>2 DEF CleanIInv, Progress
  <2>4. CASE StartStage(w) \/ Heartbeat(w)
    <3>1. /\ pc[w] \in Working \ {"complete"} /\ pc'[w] # "complete" /\ at' = at /\ mine' = mine /\ Idle(w)
      BY <1>0, <2>4 DEF StartStage, Heartbeat, Beat, At, Goto, Stay, Working, Holding, WorkerTypesOK
    <3>2. Through(w)' = Earlier[at[w]] /\ Passed(file[mine[w]], Earlier[at[w]])
      BY <3>1 DEF Through, Current, Idle, CleanIInv, Progress
    <3>3. pc[w] \in Holding
      BY <1>1, <3>1
    <3>4. CASE file' = file /\ call'[w].phase # "write"
      BY <3>1, <3>2, <3>4 DEF Current
    <3>5. ASSUME BeginStartStage(w, mine[w], at[w]) PROVE Passed(Current(w), Through(w))'
      <4>1. Current(w)' = Started(file[mine[w]], at[w])
        BY <1>0, <3>3, <3>5, HeldJob, BeginSteps DEF Current
      <4>2. Earlier[at[w]] \subseteq Stages \ {at[w]}
        BY <1>0, <3>3, HeldJob DEF Earlier, WhoStages
      <4>. QED BY <1>0, <3>2, <3>3, <4>1, <4>2, HeldJob, StartedFields DEF Passed
    <3>6. StartStage(w) => BeginStartStage(w, mine[w], at[w]) \/ (file' = file /\ call'[w].phase # "write")
      BY <3>1 DEF StartStage, jobVars, Idle
    <3>7. Heartbeat(w) => file' = file /\ call'[w].phase # "write"
      BY <1>0, <3>1, <3>3, HeldJob, BeginSteps DEF Heartbeat, Beat, jobVars, Idle
    <3>. QED BY <2>4, <3>4, <3>5, <3>6, <3>7
  <2>5. CASE FinishStage(w)
    <3>1. pc[w] = "finish" /\ Idle(w) /\ mine' = mine /\ pc[w] \in Working /\ pc[w] \in Holding
      BY <2>5 DEF FinishStage, At, Working, Holding
    <3>2. Passed(file[mine[w]], Earlier[at[w]])
      BY <3>1 DEF Through, Current, Idle, CleanIInv, Progress
    <3>3. Through(w)' \subseteq Earlier[at[w]] \cup {at[w]}
      <4>1. at[w] \in WhoStages /\ Stages = WhoStages
        BY <1>0, <3>1, HeldJob
      <4>2. /\ at[w] = "audit" => pc'[w] = "complete"
            /\ at[w] # "audit" => pc'[w] = "enter" /\ at'[w] = NextStage[at[w]]
        BY <1>0, <2>5 DEF FinishStage, Goto, WorkerTypesOK
      <4>3. CASE at[w] = "audit"
        BY <4>1, <4>2, <4>3 DEF Through, Earlier, WhoStages
      <4>4. CASE at[w] = "policy"
        <5>1. at'[w] = "discover" /\ pc'[w] = "enter"
          BY <4>2, <4>4 DEF NextStage
        <5>. QED BY <4>4, <5>1 DEF Through, Earlier
      <4>5. CASE at[w] = "discover"
        <5>1. at'[w] = "dossier" /\ pc'[w] = "enter"
          BY <4>2, <4>5 DEF NextStage
        <5>. QED BY <4>5, <5>1 DEF Through, Earlier
      <4>6. CASE at[w] = "dossier"
        <5>1. at'[w] = "audit" /\ pc'[w] = "enter"
          BY <4>2, <4>6 DEF NextStage
        <5>. QED BY <4>6, <5>1 DEF Through, Earlier
      <4>. QED BY <4>1, <4>3, <4>4, <4>5, <4>6 DEF WhoStages
    <3>4. CASE StageReturns(mine[w])
      <4>1. file' = file /\ call' = call
        BY <2>5, <3>4 DEF FinishStage, jobVars
      <4>2. file[mine[w]].error
        BY <1>0, <3>1, <3>4, HeldJob DEF StageReturns, Good, Coherent
      <4>. QED BY <3>1, <4>1, <4>2 DEF Current, Idle, Passed
    <3>5. CASE ~StageReturns(mine[w])
      <4>1. BeginCompleteStage(w, mine[w], at[w])
        BY <2>5, <3>5 DEF FinishStage
      <4>2. Current(w)' = StageDone(file[mine[w]], at[w])
        BY <1>0, <3>1, <4>1, HeldJob, BeginSteps DEF Current
      <4>3. Earlier[at[w]] \subseteq Stages /\ at[w] \in Stages
        BY <1>0, <3>1, HeldJob DEF Earlier, WhoStages
      <4>4. Passed(StageDone(file[mine[w]], at[w]), Earlier[at[w]] \cup {at[w]})
        BY <1>0, <3>1, <3>2, <4>3, HeldJob, StageDoneFields DEF Passed
      <4>. QED BY <3>3, <4>2, <4>4 DEF Passed
    <3>. QED BY <3>4, <3>5
  <2>. QED BY <1>4, <2>1, <2>2, <2>3, <2>4, <2>5 DEF Work
<1>. QED BY <1>0, <1>2, <1>3, <1>4, WorkerActs

LEMMA CleanDocs ==
  ASSUME CleanIInv, [Next]_vars, NEW a \in Callers, call'[a].phase = "write"
  PROVE  CleanDoc(call'[a].doc)
<1>0. /\ LiveIInv /\ TypesIInv /\ JobsInv /\ TypesIInv' /\ JobsInv'
      /\ PhaseOK(a)' /\ call[a] \in Call /\ CallOK(call[a]) /\ call'[a].doc # NoJob
  BY TypesStep DEF CleanIInv, LiveIInv, TypesIInv, Control, JobsInv, CallOK
<1>1. CASE LikeCall(call[a], call'[a])
  BY <1>0, <1>1, LikePasses DEF CleanIInv, LikeCall
<1>2. CASE ReadsFresh(a)
  <2>1. /\ call'[a].doc = Patched(a, call[a], file[call[a].job]) /\ call[a].phase = "fresh"
        /\ call[a].job \in Jobs /\ Exists(call[a].job) /\ file[call[a].job] \in Job
    BY <1>0, <1>2 DEF ReadsFresh, CallOK, JobsInv, Exists
  <2>2. CASE call[a].op = "fail"
    BY <2>1, <2>2, StoppedFields DEF Patched, CleanDoc
  <2>3. CASE call[a].op = "markFailed"
    BY <2>1, <2>3, StoppedFields DEF Patched, CleanDoc
  <2>4. CASE call[a].op = "cancel"
    BY <2>1, <2>4, StoppedFields DEF Patched, CleanDoc
  <2>5. CASE call[a].op = "retry"
    BY <2>1, <2>5, RequeuedFields DEF Patched, CleanDoc
  <2>6. CASE call[a].op = "claim"
    <3>1. PICK t, error : call'[a].doc = Claimed(file[call[a].job], a, t, error)
      BY <2>1, <2>6 DEF Patched
    <3>. QED BY <2>1, <3>1, ClaimedFields DEF CleanDoc
  <2>7. CASE call[a].op \notin {"fail", "markFailed", "cancel", "retry", "claim"}
    <3>1. call'[a].doc = Leased(file[call[a].job], a, call[a].lease)
      BY <2>1, <2>7 DEF Patched
    <3>2. Like(file[call[a].job], call'[a].doc)
      BY <1>0, <2>1, <3>1, LeasedFields
    <3>. QED BY <2>1, <3>2, LikePasses DEF CleanIInv
  <2>. QED BY <2>2, <2>3, <2>4, <2>5, <2>6, <2>7
<1>3. CASE a \in Workers
  <2>1. ASSUME NEW k \in Jobs, PatchesOne(a, k) PROVE CleanDoc(call'[a].doc)
    <3>1. Exists(k) /\ file[k] \in Job /\ call'[a].doc = Stopped(file[k], "partial")
      BY <1>0, <2>1 DEF PatchesOne, CallOK, JobsInv, Exists
    <3>. QED BY <3>1, StoppedFields DEF CleanDoc
  <2>2. ASSUME pc[a] \in Holding, mine[a] \in Jobs,
               \/ call'[a].doc = Started(file[mine[a]], at[a])
               \/ call'[a].doc = StageDone(file[mine[a]], at[a])
        PROVE  CleanDoc(call'[a].doc)
    <3>1. file[mine[a]] \in Job /\ at[a] \in Stages /\ file[mine[a]].status # "completed"
      BY <1>0, <1>3, <2>2, HeldJob DEF Live
    <3>. QED BY <2>2, <3>1, StartedFields, StageDoneFields DEF CleanDoc
  <2>3. ASSUME Complete(a), call'[a].doc = Completed(file[mine[a]]) PROVE CleanDoc(call'[a].doc)
    <3>1. pc[a] = "complete" /\ Idle(a) /\ pc[a] \in Holding /\ pc[a] \in Working
      BY <2>3 DEF Complete, At, Working, Holding
    <3>2. Passed(file[mine[a]], Stages) /\ file[mine[a]] \in Job
      BY <1>0, <1>3, <3>1, HeldJob DEF CleanIInv, Progress, Current, Through, Idle
    <3>. QED BY <2>3, <3>2, CompletedFields DEF CleanDoc, Passed
  <2>. QED BY <1>0, <1>1, <1>2, <1>3, <2>1, <2>2, <2>3, WorkerDocs
<1>4. CASE a \in Clients
  <2>1. call'[a].op # "none"
    BY <1>0 DEF PhaseOK
  <2>. QED BY <1>0, <1>1, <1>2, <1>4, <2>1, ClientDocs
<1>. QED BY <1>3, <1>4, ActorsAssumption

LEMMA CleanStep == OneEach /\ CleanIInv /\ [Next]_vars => CleanIInv'
<1>. SUFFICES ASSUME OneEach, CleanIInv, [Next]_vars PROVE CleanIInv'
  OBVIOUS
<1>1. LiveIInv'
  BY LiveStep DEF CleanIInv
<1>2. \A w \in Workers : Progress(w)'
  BY ProgressStep DEF Progress
<1>3. \A a \in Callers : call'[a].phase = "write" => CleanDoc(call'[a].doc)
  BY CleanDocs
<1>4. ASSUME NEW j \in Jobs, Exists(j)' PROVE CleanDoc(file'[j])
  <2>1. CASE Like(file[j], file'[j])
    <3>1. Exists(j)
      BY <1>4, <2>1 DEF Like, Exists
    <3>. QED BY <2>1, <3>1, LikePasses DEF CleanIInv
  <2>2. CASE file'[j] = NewJob
    BY <2>2 DEF NewJob, CleanDoc
  <2>3. ASSUME NEW a \in Callers, Writes(a), file'[j] = call[a].doc PROVE CleanDoc(file'[j])
    BY <2>3 DEF CleanIInv, Writes
  <2>. QED BY <2>1, <2>2, <2>3, FileActs DEF CleanIInv, LiveIInv
<1>. QED BY <1>1, <1>2, <1>3, <1>4 DEF CleanIInv, CleanDoc, Passed

LEMMA CleanInit == Init => CleanIInv
<1>. SUFFICES ASSUME Init PROVE CleanIInv
  OBVIOUS
<1>1. \A a \in Callers : call[a].phase # "write"
  BY DEF Init, JobsInit, IdleCall
<1>2. \A w \in Workers : Progress(w)
  BY DEF Init, Progress, Working, Holding
<1>3. \A j \in Jobs : Exists(j) => CleanDoc(file[j])
  BY DEF Init, JobsInit, Exists, NewJob, CleanDoc
<1>. QED BY <1>1, <1>2, <1>3, LiveInit DEF CleanIInv

\* With one worker and one client at a time, and any number of jobs, retries, crashes
\* and failing operations, a completion without an error is one of all the stages
\* (whoWorker.ts:51-196).
THEOREM CompletionsClean ==
  ASSUME OneEach PROVE Spec => []CleanCompletion
<1>1. CleanIInv /\ [Next]_vars => CleanIInv'
  BY OneEach, CleanStep
<1>2. CleanIInv => CleanCompletion
  BY DEF CleanIInv, CleanCompletion, CleanDoc, Passed
<1>. QED BY <1>1, <1>2, CleanInit, PTL DEF Spec

-------------------------------------------------------------------------------
(* One dossier per attempt.  What makes it inductive: a job whose attempt   *)
(* has yet to write its dossier (or that waits for an attempt) has one to   *)
(* spare, and every document about to be written keeps the retry count,     *)
(* a retry's excepted, which adds one.                                      *)
BeforeDossier(w) ==
  /\ pc[w] \notin {"failed", "markFailed", "end"}
  /\ \/ at[w] \in {"policy", "discover"}
     \/ at[w] = "dossier" /\ pc[w] \in {"enter", "start", "beat", "work"}

Held(j) == \E w \in Workers : Holds(w) /\ mine[w] = j

Waiting == {"queued", "running"}

Open(j) ==
  \/ \E w \in Workers : Holds(w) /\ mine[w] = j /\ BeforeDossier(w)
  \/ ~Held(j) /\ file[j].status \in Waiting
  \/ \E w \in Workers : call[w].op = "claim" /\ call[w].phase \in {"fresh", "write"} /\ call[w].job = j

Counted(j) ==
  /\ ~Exists(j) => dossiers[j] = 0
  /\ Exists(j) => dossiers[j] <= file[j].retryCount + 1 + crashes
  /\ Exists(j) /\ Open(j) => dossiers[j] + 1 <= file[j].retryCount + 1 + crashes

RetriesKept ==
  /\ \A c \in Clients : call[c].op = "retry" =>
       /\ call[c].retries = file[call[c].job].retryCount + 1
       /\ call[c].phase = "write" => call[c].doc.retryCount = call[c].retries
  /\ \A a \in Callers : call[a].phase = "write" /\ call[a].op # "retry" =>
       call[a].doc.retryCount = file[call[a].job].retryCount

EndDocs ==
  \A w \in Workers : call[w].phase = "write" /\ call[w].op \in {"complete", "markFailed", "recover"} =>
    call[w].doc.status \notin Waiting

CountIInv == LiveIInv /\ RetriesKept /\ EndDocs /\ \A j \in Jobs : Counted(j)

LEMMA EndDocsStep == ASSUME LiveIInv, EndDocs, [Next]_vars PROVE EndDocs'
<1>1. SUFFICES ASSUME NEW w \in Workers, call'[w].phase = "write",
                      call'[w].op \in {"complete", "markFailed", "recover"}
               PROVE  call'[w].doc.status \notin Waiting
  BY DEF EndDocs
<1>0. /\ w \in Callers /\ TypesIInv /\ JobsInv /\ PhaseOK(w) /\ CallOK(call[w])
  BY ActorsAssumption DEF LiveIInv, TypesIInv, Control, JobsInv
<1>2. CASE LikeCall(call[w], call'[w])
  BY <1>1, <1>2 DEF EndDocs, LikeCall, Like
<1>3. CASE ReadsFresh(w)
  <2>1. /\ call[w].phase = "fresh" /\ call[w].op = "markFailed"
        /\ call'[w].doc = Patched(w, call[w], file[call[w].job]) /\ file[call[w].job] \in Job
    BY <1>0, <1>1, <1>3, WriterGrips DEF ReadsFresh, PhaseOK
  <2>2. call'[w].doc = Stopped(file[call[w].job], "failed")
    BY <2>1 DEF Patched
  <2>3. call'[w].doc.status = "failed"
    BY <2>1, <2>2, StoppedFields
  <2>. QED BY <2>3 DEF Waiting
<1>4. ASSUME NEW k \in Jobs, PatchesOne(w, k) PROVE call'[w].doc.status \notin Waiting
  <2>1. file[k] \in Job /\ call'[w].doc = Stopped(file[k], "partial")
    BY <1>0, <1>4 DEF PatchesOne, CallOK, JobsInv, Exists
  <2>2. call'[w].doc.status = "partial"
    BY <2>1, StoppedFields
  <2>. QED BY <2>2 DEF Waiting
<1>5. ASSUME pc[w] \in Holding, call'[w].doc = Completed(file[mine[w]]) PROVE call'[w].doc.status \notin Waiting
  <2>1. file[mine[w]] \in Job
    BY <1>5, HeldJob
  <2>2. call'[w].doc.status = "completed"
    BY <1>5, <2>1, CompletedFields
  <2>. QED BY <2>2 DEF Waiting
<1>. QED BY <1>1, <1>2, <1>3, <1>4, <1>5, WorkerDocs

\* A document about to be written keeps the retry count of the file it was made of.
LEMMA NewDocRetries ==
  ASSUME LiveIInv, [Next]_vars, NEW a \in Callers, call'[a].phase = "write", call'[a].op # "retry",
         ~LikeCall(call[a], call'[a])
  PROVE  call'[a].doc.retryCount = file[call'[a].job].retryCount /\ file' = file
<1>0. /\ TypesIInv /\ JobsInv /\ JobsInv' /\ PhaseOK(a)' /\ call[a] \in Call /\ CallOK(call[a])
      /\ call'[a].doc # NoJob
  BY TypesStep DEF LiveIInv, TypesIInv, Control, JobsInv, CallOK
<1>1. CASE ReadsFresh(a)
  <2>1. /\ call'[a].doc = Patched(a, call[a], file[call[a].job]) /\ call[a].phase = "fresh"
        /\ file[call[a].job] \in Job /\ call'[a].job = call[a].job /\ file' = file /\ call[a].op # "retry"
    BY <1>0, <1>1 DEF ReadsFresh, CallOK, JobsInv, Exists
  <2>2. CASE call[a].op \in {"fail", "markFailed", "cancel"}
    <3>1. \E st : call'[a].doc = Stopped(file[call[a].job], st)
      BY <2>1, <2>2 DEF Patched
    <3>. QED BY <2>1, <3>1, StoppedFields
  <2>3. CASE call[a].op = "claim"
    <3>1. PICK t, error : call'[a].doc = Claimed(file[call[a].job], a, t, error)
      BY <2>1, <2>3 DEF Patched
    <3>. QED BY <2>1, <3>1, ClaimedFields
  <2>4. CASE call[a].op \notin {"fail", "markFailed", "cancel", "retry", "claim"}
    <3>1. call'[a].doc = Leased(file[call[a].job], a, call[a].lease)
      BY <2>1, <2>4 DEF Patched
    <3>. QED BY <1>0, <2>1, <3>1, LeasedFields DEF Like
  <2>. QED BY <2>1, <2>2, <2>3, <2>4
<1>2. CASE a \in Workers
  <2>1. ASSUME NEW k \in Jobs, PatchesOne(a, k)
        PROVE  call'[a].doc.retryCount = file[call'[a].job].retryCount /\ file' = file
    <3>1. file[k] \in Job /\ call'[a].doc = Stopped(file[k], "partial") /\ call'[a].job = k /\ file' = file
      BY <1>0, <2>1 DEF PatchesOne, CallOK, JobsInv, Exists
    <3>. QED BY <3>1, StoppedFields
  <2>2. ASSUME file' = file, pc[a] \in Holding, mine[a] \in Jobs, call'[a].job = mine[a],
               \/ call'[a].doc = Started(file[mine[a]], at[a])
               \/ call'[a].doc = StageDone(file[mine[a]], at[a])
               \/ call'[a].doc = Completed(file[mine[a]])
        PROVE  call'[a].doc.retryCount = file[call'[a].job].retryCount /\ file' = file
    <3>1. file[mine[a]] \in Job /\ at[a] \in Stages
      BY <1>0, <1>2, <2>2, HeldJob
    <3>. QED BY <2>2, <3>1, StartedFields, StageDoneFields, CompletedFields
  <2>. QED BY <1>0, <1>1, <1>2, <2>1, <2>2, WorkerDocs
<1>3. CASE a \in Clients
  <2>1. call'[a].op # "none"
    BY <1>0 DEF PhaseOK
  <2>. QED BY <1>0, <1>1, <1>3, <2>1, ClientDocs
<1>. QED BY <1>2, <1>3, ActorsAssumption

\* The retry count of a file changes by the write of a retry only.
LEMMA FileRetries ==
  ASSUME LiveIInv, RetriesKept, [Next]_vars, NEW j \in Jobs, Exists(j)
  PROVE  \/ file'[j].retryCount = file[j].retryCount
         \/ \E c \in Clients : /\ Writes(c) /\ call[c].op = "retry" /\ call[c].job = j
                               /\ file'[j].retryCount = file[j].retryCount + 1
<1>1. ASSUME NEW a \in Callers, Writes(a), call[a].job = j, file'[j] = call[a].doc
      PROVE  \/ file'[j].retryCount = file[j].retryCount
             \/ \E c \in Clients : /\ Writes(c) /\ call[c].op = "retry" /\ call[c].job = j
                                   /\ file'[j].retryCount = file[j].retryCount + 1
  <2>1. call[a].phase = "write"
    BY <1>1 DEF Writes
  <2>2. CASE call[a].op # "retry"
    BY <1>1, <2>1, <2>2 DEF RetriesKept
  <2>3. CASE call[a].op = "retry"
    <3>1. a \in Clients
      BY <2>3, ActorsAssumption DEF LiveIInv, TypesIInv, Control, CallAt
    <3>. QED BY <1>1, <2>1, <2>3, <3>1 DEF RetriesKept
  <2>. QED BY <2>2, <2>3
<1>. QED BY <1>1, FileActs DEF Like, LiveIInv

LEMMA RetriesStep == ASSUME OneEach, LiveIInv, RetriesKept, [Next]_vars PROVE RetriesKept'
<1>0. /\ TypesIInv /\ JobsInv /\ JobsInv'
      /\ \A a \in Callers : PhaseOK(a) /\ call[a] \in Call /\ CallOK(call[a]) /\ PhaseOK(a)'
  BY TypesStep DEF LiveIInv, TypesIInv, Control, JobsInv
\* What a caller's call in progress refers to keeps its retry count.
<1>1. ASSUME NEW a \in Callers, call[a].phase \in {"fresh", "write"}, ~Writes(a) \/ call'[a].phase = call[a].phase
      PROVE  file'[call[a].job].retryCount = file[call[a].job].retryCount
  <2>1. call[a].job \in Jobs /\ Exists(call[a].job)
    BY <1>0, <1>1 DEF CallOK
  <2>2. ASSUME NEW c \in Clients, Writes(c), call[c].op = "retry", call[c].job = call[a].job PROVE FALSE
    <3>1. CASE a \in Workers
      BY <1>0, <1>1, <2>1, <2>2, <3>1, WriterGrips DEF LiveIInv, LiveInHand
    <3>2. CASE a \in Clients
      <4>1. a = c
        BY <3>2 DEF OneEach
      <4>. QED BY <1>1, <2>2, <4>1 DEF Writes, IdleCall
    <3>. QED BY <3>1, <3>2, ActorsAssumption
  <2>. QED BY <2>1, <2>2, FileRetries
<1>2. ASSUME NEW c \in Clients, call'[c].op = "retry"
      PROVE  /\ call'[c].retries = file'[call'[c].job].retryCount + 1
             /\ call'[c].phase = "write" => call'[c].doc.retryCount = call'[c].retries
  <2>0. c \in Callers
    BY ActorsAssumption
  <2>1. CASE LikeCall(call[c], call'[c])
    <3>1. /\ call[c].op = "retry" /\ call'[c].retries = call[c].retries /\ call'[c].job = call[c].job
          /\ call'[c].phase = call[c].phase /\ call'[c].doc.retryCount = call[c].doc.retryCount
      BY <1>2, <2>1 DEF LikeCall, Like
    <3>2. call[c].phase \in {"fresh", "write"}
      BY <1>0, <2>0, <3>1 DEF PhaseOK, Call
    <3>. QED BY <1>1, <2>0, <3>1, <3>2 DEF RetriesKept
  <2>2. CASE ReadsFresh(c)
    <3>1. /\ call[c].op = "retry" /\ call'[c].retries = call[c].retries /\ call'[c].job = call[c].job
          /\ file' = file /\ call[c].phase = "fresh"
          /\ call'[c].doc = Patched(c, call[c], file[call[c].job])
      BY <1>2, <2>2 DEF ReadsFresh
    <3>2. file[call[c].job] \in Job /\ call'[c].doc = Requeued(file[call[c].job], call[c].retries)
      BY <1>0, <2>0, <3>1 DEF CallOK, JobsInv, Exists, Patched
    <3>. QED BY <3>1, <3>2, RequeuedFields DEF RetriesKept
  <2>3. ASSUME NEW j \in Jobs, BeginRetry(c, j), call'[c].job = j, file' = file, call'[c].phase = "fresh"
        PROVE  call'[c].retries = file'[call'[c].job].retryCount + 1
    BY <1>0, <2>0, <2>3, BeginSteps
  <2>. QED BY <1>2, <2>1, <2>2, <2>3, ClientDocs
<1>3. ASSUME NEW a \in Callers, call'[a].phase = "write", call'[a].op # "retry"
      PROVE  call'[a].doc.retryCount = file'[call'[a].job].retryCount
  <2>1. CASE LikeCall(call[a], call'[a])
    <3>1. /\ call[a].op # "retry" /\ call'[a].job = call[a].job /\ call[a].phase = "write"
          /\ call'[a].doc.retryCount = call[a].doc.retryCount
      BY <1>3, <2>1 DEF LikeCall, Like
    <3>. QED BY <1>1, <1>3, <3>1 DEF RetriesKept
  <2>2. CASE ~LikeCall(call[a], call'[a])
    BY <1>3, <2>2, NewDocRetries
  <2>. QED BY <2>1, <2>2
<1>. QED BY <1>2, <1>3 DEF RetriesKept

\* The worker lets go of a job only when it has written how it ended, finds it
\* cancelled, or crashes.
LEMMA LetsGo ==
  ASSUME LiveIInv, EndDocs, [Next]_vars, NEW w \in Workers, Holds(w),
         ~(Holds(w)' /\ mine'[w] = mine[w])
  PROVE  /\ mine[w] \in Jobs
         /\ crashes' = crashes + 1 \/ file'[mine[w]].status \notin Waiting
<1>0. /\ w \in Callers /\ TypesIInv /\ JobsInv /\ WorkerTypesOK /\ PlaceOK(w) /\ CallAt(w) /\ PhaseOK(w)
      /\ call[w] \in Call
  BY ActorsAssumption DEF LiveIInv, TypesIInv, Control, JobsInv
<1>1. mine[w] \in Jobs
  BY <1>0 DEF Holds, PlaceOK
<1>2. ~(LikeCall(call[w], call'[w]) /\ pc'[w] = pc[w] /\ mine'[w] = mine[w])
  BY DEF Holds, Idle, LikeCall
<1>3. CASE Calling(w)
  <2>1. pc' = pc /\ mine' = mine
    BY <1>3 DEF Calling, workerVars
  <2>2. pc[w] = "end" /\ ~Idle(w) /\ Idle(w)'
    BY <2>1 DEF Holds, Idle
  <2>3. call[w].op \in {"complete", "markFailed"} /\ call[w].job = mine[w]
    BY <1>0, <2>2 DEF PhaseOK, CallAt, Idle, Call, StageOps
  <2>4. ReadsFresh(w) \/ Writes(w)
    BY <1>0, <1>3, <2>3, CallSteps, ReadSteps DEF Calling, ListFile, ClaimCheck, RecoverPatch, RecoverStart, Listed,
       Return, ClaimReturns, RecoverReturns, PhaseOK
  <2>5. Writes(w)
    BY <2>2, <2>4 DEF ReadsFresh, Idle
  <2>. QED BY <1>1, <2>3, <2>5 DEF Writes, EndDocs
<1>4. CASE Work(w) \/ Throw(w) \/ Crash(w)
  <2>1. CASE Crash(w)
    BY <1>1, <2>1 DEF Crash
  <2>2. CASE (Enter(w) \/ Leave(w)) /\ Cancelled(w)
    <3>1. file' = file /\ file[mine[w]].status = "cancelled"
      BY <2>2 DEF Enter, Leave, Cancelled, jobVars
    <3>. QED BY <1>1, <3>1 DEF Waiting
  <2>3. CASE Boot(w) \/ Claim(w) \/ ClaimNothing(w) \/ ClaimJob(w) \/ Finished(w)
    BY <2>3 DEF Boot, Claim, ClaimNothing, ClaimJob, Finished, At, Holds, Holding
  <2>4. CASE Complete(w) \/ MarkFailed(w)
    <3>1. pc'[w] = "end" /\ mine' = mine
      BY <1>0, <2>4 DEF Complete, MarkFailed, Goto, Stay, WorkerTypesOK
    <3>2. call'[w].phase \in {"fresh", "write"}
      BY <1>0, <1>1, <2>4, BeginSteps DEF Complete, MarkFailed
    <3>. QED BY <3>1, <3>2 DEF Holds, Idle
  <2>5. CASE \/ ((Enter(w) \/ Leave(w)) /\ ~Cancelled(w)) \/ StartStage(w) \/ Heartbeat(w) \/ Policy(w) \/ Discover(w)
             \/ WriteDossier(w) \/ RecordDossier(w) \/ RecordCompleted(w) \/ FinishStage(w) \/ RecordFailure(w)
             \/ Throw(w)
    <3>1. pc'[w] \in Holding /\ mine' = mine
      BY <1>0, <2>5 DEF Enter, Leave, StartStage, Heartbeat, Beat, Policy, Discover, WriteDossier, RecordDossier,
         RecordCompleted, FinishStage, RecordFailure, Throw, Goto, Stay, Holding, WorkerTypesOK
    <3>. QED BY <3>1 DEF Holds
  <2>. QED BY <1>4, <2>1, <2>2, <2>3, <2>4, <2>5 DEF Work
<1>. QED BY <1>0, <1>2, <1>3, <1>4, WorkerActs

\* The worker comes before the dossier of a job by a claim, or has been there.
LEMMA StaysBefore ==
  ASSUME LiveIInv, [Next]_vars, NEW w \in Workers, NEW j \in Jobs,
         (Holds(w) /\ mine[w] = j /\ BeforeDossier(w))'
  PROVE  /\ Open(j)
         /\ ~(WriteDossier(w) /\ mine[w] = j)
<1>0. /\ w \in Callers /\ TypesIInv /\ JobsInv /\ WorkerTypesOK /\ PlaceOK(w) /\ CallAt(w) /\ PhaseOK(w)
  BY ActorsAssumption DEF LiveIInv, TypesIInv, Control, JobsInv
<1>1. pc'[w] \in Holding \ {"failed", "markFailed"} /\ mine'[w] = j
  BY DEF Holds, BeforeDossier
<1>2. ~WriteDossier(w)
  BY <1>0 DEF WriteDossier, Goto, Stay, WorkerTypesOK, BeforeDossier
<1>3. CASE pc'[w] = pc[w] /\ at'[w] = at[w] /\ mine'[w] = mine[w]
  BY <1>1, <1>2, <1>3 DEF Open, BeforeDossier, Holds
<1>4. CASE Calling(w)
  BY <1>3, <1>4 DEF Calling, workerVars
<1>5. CASE Work(w) \/ Throw(w) \/ Crash(w)
  <2>1. CASE ClaimJob(w)
    <3>1. call[w].op = "claim" /\ call[w].phase = "write" /\ call[w].job = j
      BY <1>0, <1>1, <2>1 DEF ClaimJob, Write, CallAt, WorkerTypesOK
    <3>. QED BY <1>2, <3>1 DEF Open
  <2>2. CASE Boot(w) \/ Claim(w) \/ ClaimNothing(w) \/ Crash(w) \/ Throw(w) \/ Finished(w) \/ Complete(w)
             \/ RecordFailure(w) \/ MarkFailed(w) \/ ((Enter(w) \/ Leave(w)) /\ Cancelled(w))
    <3>1. pc'[w] \in {"poll", "claiming", "boot", "failed", "end", "markFailed"}
      BY <1>0, <2>2 DEF Boot, Claim, ClaimNothing, Crash, Throw, Finished, Complete, RecordFailure, MarkFailed, Enter,
         Leave, Abandon, Goto, WorkerTypesOK
    <3>. QED BY <1>1, <3>1 DEF Holding
  <2>3. CASE FinishStage(w)
    <3>1. pc[w] = "finish" /\ mine[w] = j /\ pc[w] \in Holding /\ at[w] \in WhoStages
      BY <1>0, <1>1, <2>3, StagesAssumption DEF FinishStage, At, Holding, PlaceOK
    <3>2. CASE at[w] \in {"policy", "discover"}
      BY <1>2, <3>1, <3>2 DEF Open, BeforeDossier, Holds
    <3>3. CASE at[w] = "dossier"
      <4>1. at'[w] = "audit"
        BY <1>0, <2>3, <3>3 DEF FinishStage, WorkerTypesOK, NextStage
      <4>. QED BY <4>1 DEF BeforeDossier
    <3>4. CASE at[w] = "audit"
      <4>1. at'[w] = "audit"
        BY <1>0, <2>3, <3>4 DEF FinishStage, WorkerTypesOK
      <4>. QED BY <4>1 DEF BeforeDossier
    <3>. QED BY <3>1, <3>2, <3>3, <3>4 DEF WhoStages
  <2>4. CASE \/ ((Enter(w) \/ Leave(w)) /\ ~Cancelled(w)) \/ StartStage(w) \/ Heartbeat(w) \/ Policy(w) \/ Discover(w)
             \/ RecordDossier(w) \/ RecordCompleted(w)
    <3>1. pc[w] \in Holding \ {"failed", "markFailed", "end"} /\ mine[w] = j /\ at'[w] = at[w]
      BY <1>0, <1>1, <2>4 DEF Enter, Leave, StartStage, Heartbeat, Beat, Policy, Discover, RecordDossier,
         RecordCompleted, At, Stay, Holding
    <3>2. at[w] = "dossier" => pc[w] \in {"enter", "start", "beat", "work"}
      BY <1>0, <2>4 DEF BeforeDossier, Enter, Leave, StartStage, Heartbeat, Beat, Policy, Discover, RecordDossier,
         RecordCompleted, At, Goto, Stay, WorkerTypesOK, PlaceOK
    <3>3. at[w] \in {"policy", "discover", "dossier"}
      BY <3>1 DEF BeforeDossier
    <3>. QED BY <1>2, <3>1, <3>2, <3>3 DEF Open, BeforeDossier, Holds
  <2>. QED BY <1>2, <1>5, <2>1, <2>2, <2>3, <2>4 DEF Work
<1>. QED BY <1>0, <1>2, <1>3, <1>4, <1>5, WorkerActs

\* A claim in progress is of a job that waits for one.
LEMMA ClaimsWaiting ==
  ASSUME OneEach, LiveIInv, [Next]_vars, NEW w \in Workers, NEW j \in Jobs,
         call'[w].op = "claim", call'[w].phase \in {"fresh", "write"}, call'[w].job = j
  PROVE  Open(j)
<1>0. /\ w \in Callers /\ TypesIInv /\ JobsInv /\ WorkerTypesOK /\ PlaceOK(w) /\ CallAt(w) /\ PhaseOK(w)
      /\ CallAt(w)'
  BY ActorsAssumption, TypesStep DEF LiveIInv, TypesIInv, Control, JobsInv
<1>1. pc'[w] = "claiming" /\ IdleCall.op = "none"
  BY <1>0 DEF CallAt, IdleCall
<1>2. CASE LikeCall(call[w], call'[w])
  BY <1>2 DEF LikeCall, Open
<1>3. CASE Calling(w)
  <2>1. ASSUME NEW k \in Jobs, Checks(w, k) PROVE Open(j)
    <3>1. k = j /\ file[j].status \in Waiting /\ call[w].op = "claim"
      BY <2>1 DEF Checks, Waiting
    <3>2. pc[w] = "claiming"
      BY <1>0, <3>1 DEF CallAt
    <3>3. ~Held(j)
      BY <3>2 DEF Held, Holds, Holding, OneEach
    <3>. QED BY <3>1, <3>3 DEF Open
  <2>2. CASE ReadsFresh(w)
    BY <2>2 DEF ReadsFresh, Open
  <2>3. \A k \in Jobs : ~ListsOne(w, k)
    BY DEF ListsOne
  <2>4. ~StartsRecovery(w) /\ ~Writes(w) /\ call'[w] # IdleCall
    BY <1>1 DEF StartsRecovery, Writes
  <2>5. \A k \in Jobs : ~PatchesOne(w, k)
    BY <1>0 DEF PatchesOne, PhaseOK
  <2>. QED BY <1>0, <1>3, <2>1, <2>2, <2>3, <2>4, <2>5, CallSteps, ReadSteps DEF Calling
<1>4. CASE Work(w) \/ Throw(w) \/ Crash(w)
  <2>1. Claim(w)
    <3>1. CASE Finished(w) \/ ((Enter(w) \/ Leave(w)) /\ Cancelled(w)) \/ Crash(w)
      BY <1>0, <1>1, <3>1 DEF Finished, Enter, Leave, Crash, Abandon, WorkerTypesOK
    <3>2. CASE ~(Finished(w) \/ ((Enter(w) \/ Leave(w)) /\ Cancelled(w)) \/ Crash(w) \/ Claim(w))
      BY <1>0, <1>1, <1>4, <3>2 DEF Work, Boot, ClaimNothing, ClaimJob, Enter, StartStage, Heartbeat, Beat, Policy, Discover,
         WriteDossier, RecordDossier, RecordCompleted, Leave, FinishStage, Complete, RecordFailure, MarkFailed, Throw,
         Goto, WorkerTypesOK
    <3>. QED BY <3>1, <3>2
  <2>2. Listing(w, "claim")
    BY <1>0, <2>1, CallSteps DEF Claim
  <2>. QED BY <2>2 DEF Listing
<1>. QED BY <1>0, <1>2, <1>3, <1>4, WorkerActs

\* A job waits for its dossier after a step only if it did before, was made or
\* handed back by a retry, or its worker has crashed.
LEMMA OpenStep ==
  ASSUME OneEach, CountIInv, [Next]_vars, NEW j \in Jobs, Exists(j), Open(j)'
  PROVE  Open(j) \/ crashes' = crashes + 1 \/ file'[j].retryCount = file[j].retryCount + 1
<1>0. LiveIInv /\ EndDocs /\ RetriesKept /\ TypesIInv
  BY DEF CountIInv, LiveIInv
<1>1. ASSUME NEW w \in Workers, (Holds(w) /\ mine[w] = j /\ BeforeDossier(w))' PROVE Open(j)
  BY <1>0, <1>1, StaysBefore
<1>2. ASSUME NEW w \in Workers, call'[w].op = "claim", call'[w].phase \in {"fresh", "write"}, call'[w].job = j
      PROVE  Open(j)
  BY <1>0, <1>2, ClaimsWaiting
<1>3. ASSUME ~Held(j)', file'[j].status \in Waiting, ~Open(j)
      PROVE  crashes' = crashes + 1 \/ file'[j].retryCount = file[j].retryCount + 1
  <2>1. CASE Held(j)
    BY <1>0, <1>3, <2>1, LetsGo DEF Held
  <2>2. CASE ~Held(j)
    <3>1. ~Like(file[j], file'[j])
      BY <1>3, <2>2 DEF Open, Like
    <3>2. PICK a \in Callers : Writes(a) /\ call[a].job = j /\ file'[j] = call[a].doc
      BY <1>0, <3>1, FileActs
    <3>3. call[a].phase = "write" /\ PhaseOK(a) /\ call[a] \in Call
      BY <1>0, <3>2 DEF Writes, TypesIInv, Control, JobsInv
    <3>4. CASE a \in Workers
      <4>1. CallAt(a) /\ Grip(a, j)
        BY <1>0, <3>2, <3>3, <3>4, WriterGrips DEF TypesIInv, Control
      <4>2. call[a].op # "claim"
        BY <1>3, <3>2, <3>3, <3>4 DEF Open
      <4>3. call[a].op \notin {"complete", "markFailed", "recover"}
        BY <1>0, <1>3, <3>2, <3>3, <3>4 DEF EndDocs
      <4>4. call[a].op \in {"startStage", "completeStage", "heartbeat"}
        BY <3>3, <4>1, <4>2, <4>3 DEF CallAt, Call, PhaseOK
      <4>5. mine[a] = j /\ pc[a] \in Holding
        BY <3>2, <4>1, <4>4 DEF CallAt, StageOps, Holding
      <4>. QED BY <2>2, <3>4, <4>5 DEF Held, Holds
    <3>5. CASE a \in Clients
      <4>1. call[a].op \in {"cancel", "retry"}
        BY <1>0, <3>3, <3>5 DEF TypesIInv, Control, ClientAt, PhaseOK
      <4>2. CASE call[a].op = "cancel"
        BY <1>0, <1>3, <3>2, <3>3, <3>5, <4>2 DEF LiveIInv, LiveInHand, Waiting
      <4>3. CASE call[a].op = "retry"
        BY <1>0, <3>2, <3>3, <3>5, <4>3 DEF RetriesKept
      <4>. QED BY <4>1, <4>2, <4>3
    <3>. QED BY <3>4, <3>5, ActorsAssumption
  <2>. QED BY <2>1, <2>2
<1>. QED BY <1>1, <1>2, <1>3 DEF Open

\* What a step makes of the counters.
LEMMA CountActs ==
  ASSUME TypesIInv, [Next]_vars, NEW j \in Jobs
  PROVE  /\ crashes' = crashes \/ crashes' = crashes + 1
         /\ \/ dossiers'[j] = dossiers[j]
            \/ \E w \in Workers : WriteDossier(w) /\ mine[w] = j /\ dossiers'[j] <= dossiers[j] + 1
<1>1. CASE NoEffect
  BY <1>1 DEF NoEffect
<1>2. CASE \/ \E w \in Workers : \/ Throw(w) \/ Crash(w) \/ Policy(w) \/ RecordDossier(w) \/ RecordCompleted(w)
                                 \/ RecordFailure(w)
           \/ \E c \in Clients : FailRequest(c)
  BY <1>2 DEF Throw, Crash, Policy, RecordDossier, RecordCompleted, RecordFailure, FailRequest, effectVars
<1>3. ASSUME NEW w \in Workers, WriteDossier(w)
      PROVE  /\ crashes' = crashes
             /\ \/ dossiers'[j] = dossiers[j]
                \/ mine[w] = j /\ dossiers'[j] <= dossiers[j] + 1
  <2>1. dossiers \in [Jobs -> 0..MaxDossiers] /\ dossiers[j] \in Nat /\ MaxDossiers \in Nat
    BY BoundsAssumption DEF TypesIInv, CountsOK
  <2>2. PICK n : n = IF dossiers[mine[w]] < MaxDossiers THEN dossiers[mine[w]] + 1 ELSE dossiers[mine[w]]
    OBVIOUS
  <2>3. dossiers' = [dossiers EXCEPT ![mine[w]] = n] /\ crashes' = crashes
    BY <1>3, <2>2 DEF WriteDossier
  <2>4. CASE mine[w] = j
    <3>1. dossiers'[j] = n
      BY <2>1, <2>3, <2>4
    <3>. QED BY <2>1, <2>2, <2>3, <2>4, <3>1
  <2>5. CASE mine[w] # j
    BY <2>1, <2>3, <2>5
  <2>. QED BY <2>3, <2>4, <2>5
<1>4. \/ NoEffect
      \/ \E w \in Workers : \/ Throw(w) \/ Crash(w) \/ WriteDossier(w) \/ Policy(w)
                            \/ RecordDossier(w) \/ RecordCompleted(w) \/ RecordFailure(w)
      \/ \E c \in Clients : FailRequest(c)
  BY DEF Next, vars, NoEffect, Calling, Work, Boot, Claim, ClaimNothing, ClaimJob, Enter, StartStage, Heartbeat,
         Beat, Discover, Leave, FinishStage, Complete, MarkFailed, Finished, Enqueue, CancelJob, RetryJob, Advance
<1>. QED BY <1>1, <1>2, <1>3, <1>4

\* The dossier of an attempt that has yet to write it; none is open afterwards.
LEMMA DossierWritten ==
  ASSUME OneEach, LiveIInv, [Next]_vars, NEW w \in Workers, NEW j \in Jobs,
         WriteDossier(w), mine[w] = j
  PROVE  /\ Exists(j)
         /\ Open(j)
         /\ ~Open(j)'
         /\ file' = file /\ crashes' = crashes
<1>0. /\ TypesIInv /\ TypesIInv' /\ WorkerTypesOK /\ PlaceOK(w) /\ CallAt(w)'
  BY TypesStep DEF LiveIInv, TypesIInv, Control
<1>1. /\ pc[w] = "work" /\ at[w] = "dossier" /\ pc'[w] = "record" /\ at' = at /\ mine' = mine
      /\ file' = file /\ crashes' = crashes
  BY <1>0 DEF WriteDossier, At, Goto, Stay, WorkerTypesOK, jobVars
<1>2. Exists(j)
  BY <1>0, <1>1 DEF PlaceOK, Holding
<1>3. Open(j)
  BY <1>1 DEF Open, Holds, Holding, BeforeDossier
<1>4. Holds(w)' /\ mine'[w] = j /\ ~BeforeDossier(w)' /\ call'[w].op # "claim"
  BY <1>0, <1>1 DEF Holds, Holding, BeforeDossier, CallAt
<1>5. \A x \in Workers : x = w
  BY DEF OneEach
<1>6. ~Open(j)'
  BY <1>1, <1>4, <1>5 DEF Open, Held
<1>. QED BY <1>1, <1>2, <1>3, <1>6

LEMMA CountStep == OneEach /\ CountIInv /\ [Next]_vars => CountIInv'
<1>. SUFFICES ASSUME OneEach, CountIInv, [Next]_vars PROVE CountIInv'
  OBVIOUS
<1>0. /\ LiveIInv /\ LiveIInv' /\ EndDocs /\ RetriesKept /\ TypesIInv /\ TypesIInv' /\ CountsOK /\ CountsOK'
      /\ JobsInv /\ JobsInv'
  BY LiveStep DEF CountIInv, LiveIInv, TypesIInv
<1>1. EndDocs' /\ RetriesKept'
  BY <1>0, EndDocsStep, RetriesStep
<1>2. ASSUME NEW j \in Jobs PROVE Counted(j)'
  <2>0. /\ dossiers[j] \in Nat /\ dossiers'[j] \in Nat /\ crashes \in Nat /\ crashes' \in Nat
        /\ Exists(j) => file[j].retryCount \in Nat
        /\ Exists(j)' => file'[j].retryCount \in Nat
        /\ Counted(j)
    BY <1>0, BoundsAssumption, RetriesAssumption DEF CountsOK, JobsInv, Exists, Job, CountIInv
  <2>1. CASE ~Exists(j)
    <3>1. dossiers[j] = 0
      BY <2>0, <2>1 DEF Counted
    <3>2. ASSUME NEW w \in Workers, WriteDossier(w) PROVE mine[w] # j
      BY <1>0, <2>1, <3>2, DossierWritten
    <3>3. dossiers'[j] = 0
      BY <1>0, <3>1, <3>2, CountActs
    <3>4. ASSUME Exists(j)' PROVE file'[j].retryCount = 0
      <4>1. ~Like(file[j], file'[j])
        BY <2>1, <3>4 DEF Like, Exists
      <4>2. \A a \in Callers : Writes(a) => call[a].job # j
        BY <1>0, <2>1 DEF Writes, JobsInv, CallOK
      <4>3. file'[j] = NewJob
        BY <1>0, <4>1, <4>2, FileActs
      <4>. QED BY <4>3 DEF NewJob
    <3>. QED BY <2>0, <3>3, <3>4 DEF Counted
  <2>2. CASE Exists(j)
    <3>1. /\ Exists(j)' /\ dossiers[j] <= file[j].retryCount + 1 + crashes
          /\ Open(j) => dossiers[j] + 1 <= file[j].retryCount + 1 + crashes
      BY <1>0, <2>0, <2>2, IsJobsStep, JobsStay DEF Counted, TypesIInv
    <3>2. ASSUME NEW w \in Workers, WriteDossier(w), mine[w] = j PROVE Counted(j)'
      <4>1. Open(j) /\ ~Open(j)' /\ file' = file /\ crashes' = crashes
        BY <1>0, <3>2, DossierWritten
      <4>2. dossiers'[j] <= dossiers[j] + 1
        BY <1>0, <2>0, CountActs
      <4>3. dossiers'[j] <= file'[j].retryCount + 1 + crashes'
        BY <2>0, <2>2, <3>1, <4>1, <4>2
      <4>. QED BY <3>1, <4>1, <4>3 DEF Counted
    <3>3. CASE \A w \in Workers : ~(WriteDossier(w) /\ mine[w] = j)
      <4>1. /\ dossiers'[j] = dossiers[j] /\ crashes' \in {crashes, crashes + 1}
            /\ file'[j].retryCount \in {file[j].retryCount, file[j].retryCount + 1}
        BY <1>0, <2>2, <3>3, CountActs, FileRetries
      <4>2. dossiers'[j] <= file'[j].retryCount + 1 + crashes'
        BY <2>0, <2>2, <3>1, <4>1
      <4>3. ASSUME Open(j)' PROVE dossiers'[j] + 1 <= file'[j].retryCount + 1 + crashes'
        <5>1. Open(j) \/ crashes' = crashes + 1 \/ file'[j].retryCount = file[j].retryCount + 1
          BY <2>2, <4>3, OpenStep
        <5>. QED BY <2>0, <2>2, <3>1, <4>1, <5>1
      <4>. QED BY <3>1, <4>2, <4>3 DEF Counted
    <3>. QED BY <3>2, <3>3
  <2>. QED BY <2>1, <2>2
<1>. QED BY <1>0, <1>1, <1>2 DEF CountIInv

LEMMA CountInit == Init => CountIInv
<1>. SUFFICES ASSUME Init PROVE CountIInv
  OBVIOUS
<1>1. \A a \in Callers : call[a].op = "none" /\ call[a].phase = "idle"
  BY DEF Init, JobsInit, IdleCall
<1>2. EndDocs /\ RetriesKept
  BY <1>1, ActorsAssumption DEF EndDocs, RetriesKept
<1>3. ASSUME NEW j \in Jobs PROVE Counted(j)
  BY DEF Init, JobsInit, Exists, NewJob, Counted
<1>. QED BY <1>2, <1>3, LiveInit DEF CountIInv

\* With one worker and one client at a time, and any number of jobs, retries and
\* crashes, each attempt writes at most one dossier (whoWorker.ts:138-163).
THEOREM DossiersCounted ==
  ASSUME OneEach PROVE Spec => []OneDossierPerAttempt
<1>1. CountIInv /\ [Next]_vars => CountIInv'
  BY OneEach, CountStep
<1>2. CountIInv => OneDossierPerAttempt
  BY DEF CountIInv, Counted, OneDossierPerAttempt
<1>. QED BY <1>1, <1>2, CountInit, PTL DEF Spec
===============================================================================
