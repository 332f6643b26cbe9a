---------------------------- MODULE CaspaJobsProofs ----------------------------
(***************************************************************************)
(* Types and coherence of job documents for any number of callers, jobs,   *)
(* stages and any interleaving of the methods of CaspaJobService.          *)
(***************************************************************************)
EXTENDS CaspaJobs, TLAPS

Good(d) == d \in Job /\ Coherent(d)

\* A method in progress refers to files that exist, and what it is about to
\* write is a coherent document.
CallOK(c) ==
  /\ c \in Call
  /\ c.phase \in {"fresh", "write"} => c.job \in Jobs /\ Exists(c.job)
  /\ c.phase = "write" => c.doc # NoJob
  /\ c.doc # NoJob => Good(c.doc)
  /\ \A j \in c.todo : Exists(j)
  /\ \A f \in c.found : Exists(f.job)

JobsInv ==
  /\ file \in [Jobs -> Job \cup {NoJob}]
  /\ call \in [Callers -> Call]
  /\ \A j \in Jobs : Exists(j) => Good(file[j])
  /\ \A a \in Callers : CallOK(call[a])

-------------------------------------------------------------------------------
(* The documents the methods make of a coherent one are coherent.          *)

LEMMA NewJobGood == Good(NewJob)
BY TimeAssumption, RetriesAssumption
DEF Good, Job, NewJob, Coherent, Status, Ticks

LEMMA StartedGood ==
  ASSUME NEW d, Good(d), NEW s \in Stages PROVE Good(Started(d, s))
<1>1. Started(d, s) \in Job
  BY DEF Good, Job, Started, Status
<1>2. Coherent(Started(d, s))
  BY NoneAssumption DEF Good, Job, Started, Coherent
<1>. QED BY <1>1, <1>2 DEF Good

LEMMA StageDoneGood ==
  ASSUME NEW d, Good(d), NEW s \in Stages PROVE Good(StageDone(d, s))
<1>1. StageDone(d, s) \in Job
  BY DEF Good, Job, StageDone, Status
<1>2. Coherent(StageDone(d, s))
  BY DEF Good, Job, StageDone, Coherent
<1>. QED BY <1>1, <1>2 DEF Good

LEMMA NoLeaseGood == ASSUME NEW d, Good(d) PROVE Good(NoLease(d))
<1>1. 0 \in Ticks
  BY TimeAssumption DEF Ticks
<1>2. NoLease(d) \in Job
  BY <1>1 DEF Good, Job, NoLease
<1>3. Coherent(NoLease(d))
  BY DEF Good, Job, NoLease, Coherent
<1>. QED BY <1>2, <1>3 DEF Good

LEMMA CompletedGood == ASSUME NEW d, Good(d) PROVE Good(Completed(d))
<1>. DEFINE e == NoLease(d)
<1>1. Good(e)
  BY NoLeaseGood
<1>. HIDE DEF e
<1> DEFINE r == [e EXCEPT !.status = "completed", !.result = TRUE]
<1>2. r \in Job
  BY <1>1 DEF Good, Job, Status
<1>3. Coherent(r)
  BY <1>1 DEF Good, Job, Coherent
<1>. QED BY <1>2, <1>3 DEF Good, Completed, e

LEMMA StoppedGood ==
  ASSUME NEW d, Good(d), NEW st \in {"failed", "partial", "cancelled"}
  PROVE  Good(Stopped(d, st))
<1>. DEFINE e == NoLease(d)
<1>1. Good(e)
  BY NoLeaseGood
<1>. HIDE DEF e
<1> DEFINE r == [e EXCEPT !.status = st, !.error = TRUE]
<1>2. r \in Job
  BY <1>1 DEF Good, Job, Status
<1>3. Coherent(r)
  BY <1>1 DEF Good, Job, Coherent
<1>. QED BY <1>2, <1>3 DEF Good, Stopped, e

LEMMA RequeuedGood ==
  ASSUME NEW d, Good(d), NEW n \in 0..MaxRetries PROVE Good(Requeued(d, n))
<1>. DEFINE e == NoLease(d)
<1>1. Good(e)
  BY NoLeaseGood
<1>. HIDE DEF e
<1> DEFINE r == [e EXCEPT !.status = "queued", !.error = FALSE, !.result = FALSE,
               !.retryCount = n, !.currentStage = None,
               !.stages = [s \in Stages |-> "queued"]]
<1>2. r \in Job
  BY <1>1 DEF Good, Job, Status
<1>3. Coherent(r)
  BY <1>1 DEF Good, Job, Coherent
<1>. QED BY <1>2, <1>3 DEF Good, Requeued, e

LEMMA ClaimedGood ==
  ASSUME NEW d, Good(d), NEW a \in Callers, NEW t \in Ticks, NEW error \in BOOLEAN
  PROVE  Good(Claimed(d, a, t, error))
<1>1. Claimed(d, a, t, error) \in Job
  BY DEF Good, Job, Claimed, Leased, Status
<1>2. Coherent(Claimed(d, a, t, error))
  BY DEF Good, Job, Claimed, Leased, Coherent
<1>. QED BY <1>1, <1>2 DEF Good

LEMMA LeasedGood ==
  ASSUME NEW d, Good(d), NEW a \in Callers, NEW t \in Ticks PROVE Good(Leased(d, a, t))
<1>1. Leased(d, a, t) \in Job
  BY DEF Good, Job, Leased
<1>2. Coherent(Leased(d, a, t))
  BY DEF Good, Job, Leased, Coherent
<1>. QED BY <1>1, <1>2 DEF Good

LEMMA PatchedGood ==
  ASSUME NEW a \in Callers, NEW c \in Call, NEW d, Good(d) PROVE Good(Patched(a, c, d))
BY StoppedGood, RequeuedGood, ClaimedGood, LeasedGood DEF Patched, Call

LEMMA OlderTicks == ASSUME NEW t \in Ticks PROVE Older(t) \in Ticks
BY TimeAssumption DEF Older, Ticks

LEMMA AgedGood == ASSUME NEW d, Good(d) PROVE Good(Aged(d)) /\ Aged(d) # NoJob
<1>1. CASE d.hasLease
  <2>1. d # NoJob /\ d.leaseUntil \in Ticks
    BY NoJobAssumption DEF Good, Job
  <2>2. Aged(d) = [d EXCEPT !.leaseUntil = Older(d.leaseUntil)]
    BY <1>1, <2>1 DEF Aged
  <2>3. Older(d.leaseUntil) \in Ticks
    BY <2>1, OlderTicks
  <2>4. Good(Aged(d))
    BY <2>2, <2>3 DEF Good, Job, Coherent
  <2>. QED BY <2>4, NoJobAssumption DEF Good
<1>2. CASE ~d.hasLease
  BY <1>2, NoJobAssumption DEF Good, Aged
<1>. QED BY <1>1, <1>2
-------------------------------------------------------------------------------
\* A method's step that writes no file keeps the invariant if its new call is OK.
LEMMA CallStep ==
  ASSUME JobsInv, NEW a \in Callers, NEW c, CallOK(c), SetCall(a, c)
  PROVE  JobsInv'
BY DEF JobsInv, SetCall, CallOK, Exists

LEMMA IdleOK == CallOK(IdleCall)
BY TimeAssumption, RetriesAssumption DEF CallOK, IdleCall, Call, Ticks

LEMMA Constants0 == 0 \in Ticks /\ LeaseTicks \in Ticks /\ 0 \in 0..MaxRetries
BY TimeAssumption, RetriesAssumption DEF Ticks

LEMMA ToWriteOK ==
  ASSUME NEW j \in Jobs, Exists(j), NEW d, Good(d),
         NEW op \in {"startStage", "completeStage", "complete"}
  PROVE  CallOK([IdleCall EXCEPT !.phase = "write", !.op = op, !.job = j, !.doc = d])
<1>. DEFINE c == [IdleCall EXCEPT !.phase = "write", !.op = op, !.job = j, !.doc = d]
<1>1. IdleCall \in Call
  BY IdleOK DEF CallOK
<1>2. c \in Call
  BY <1>1 DEF Call, Good
<1>3. c.phase = "write" /\ c.job = j /\ c.doc = d /\ c.todo = {} /\ c.found = {}
  BY DEF IdleCall
<1>4. d # NoJob
  BY NoJobAssumption DEF Good
<1>. QED BY <1>2, <1>3, <1>4 DEF CallOK

\* A call on its way to the read inside patch.
LEMMA ToFreshOK ==
  ASSUME NEW a, NEW j \in Jobs, Exists(j), NEW n \in 0..MaxRetries, NEW t \in Ticks,
         NEW error \in BOOLEAN,
         NEW op \in {"fail", "markFailed", "cancel", "retry", "heartbeat", "claim"}
  PROVE  /\ CallOK(ToFresh(a, op, j))
         /\ CallOK([ToFresh(a, op, j) EXCEPT !.retries = n])
         /\ CallOK([ToFresh(a, op, j) EXCEPT !.lease = t])
         /\ CallOK([ToFresh(a, op, j) EXCEPT !.lease = t, !.error = error])
<1>. DEFINE c == ToFresh(a, op, j)
<1>1. c \in Call
  BY IdleOK DEF CallOK, Call, ToFresh
<1>2. c.phase = "fresh" /\ c.job = j /\ c.doc = NoJob /\ c.todo = {} /\ c.found = {}
  BY DEF ToFresh, IdleCall
<1>. HIDE DEF c
<1>3. CallOK(c)
  BY <1>1, <1>2 DEF CallOK
<1>4. CallOK([c EXCEPT !.retries = n])
  BY <1>1, <1>2 DEF CallOK, Call
<1>5. CallOK([c EXCEPT !.lease = t])
  BY <1>1, <1>2 DEF CallOK, Call
<1>6. CallOK([c EXCEPT !.lease = t, !.error = error])
  BY <1>1, <1>2 DEF CallOK, Call
<1>. QED BY <1>3, <1>4, <1>5, <1>6 DEF c

-------------------------------------------------------------------------------
(* One lemma per step.                                                     *)

LEMMA CreateStep ==
  ASSUME JobsInv, NEW a \in Callers, NEW j \in Jobs, Create(a, j) PROVE JobsInv'
<1>1. file' \in [Jobs -> Job \cup {NoJob}] /\ call' = call
  BY NewJobGood DEF JobsInv, Create, Good
<1>2. \A k \in Jobs : file'[k] = IF k = j THEN NewJob ELSE file[k]
  BY DEF Create, JobsInv
<1>3. NewJob # NoJob
  BY NewJobGood, NoJobAssumption DEF Good
<1>4. \A k \in Jobs : Exists(k) => Exists(k)'
  BY <1>2, <1>3 DEF Exists
<1>5. \A k \in Jobs : file'[k] # NoJob => Good(file'[k])
  BY <1>2, NewJobGood DEF JobsInv, Exists
<1>6. \A b \in Callers : CallOK(call[b])'
  <2>. SUFFICES ASSUME NEW b \in Callers PROVE CallOK(call[b])'
    OBVIOUS
  <2>1. CallOK(call[b]) /\ call'[b] = call[b]
    BY <1>1 DEF JobsInv
  <2>. QED BY <2>1, <1>4 DEF CallOK, Call
<1>. QED BY <1>1, <1>5, <1>6 DEF JobsInv, Exists

LEMMA StageStep ==
  ASSUME JobsInv, NEW a \in Callers, NEW j \in Jobs, NEW s \in Stages,
         BeginStartStage(a, j, s) \/ BeginCompleteStage(a, j, s)
  PROVE  JobsInv'
<1>1. Exists(j) /\ Good(file[j])
  BY DEF JobsInv, BeginStartStage, BeginCompleteStage, StageReturns
<1>2. CASE BeginStartStage(a, j, s)
  <2>1. Good(Started(file[j], s))
    BY <1>1, StartedGood
  <2>. QED BY <1>1, <1>2, <2>1, ToWriteOK, CallStep DEF BeginStartStage, ToWrite
<1>3. CASE BeginCompleteStage(a, j, s)
  <2>1. Good(StageDone(file[j], s))
    BY <1>1, StageDoneGood
  <2>. QED BY <1>1, <1>3, <2>1, ToWriteOK, CallStep DEF BeginCompleteStage, ToWrite
<1>. QED BY <1>2, <1>3

LEMMA CompleteStep ==
  ASSUME JobsInv, NEW a \in Callers, NEW j \in Jobs, BeginComplete(a, j) PROVE JobsInv'
<1>1. Exists(j) /\ Good(Completed(file[j]))
  BY CompletedGood DEF JobsInv, BeginComplete
<1>. QED BY <1>1, ToWriteOK, CallStep DEF BeginComplete, ToWrite

LEMMA PatchingStep ==
  ASSUME JobsInv, NEW a \in Callers, NEW j \in Jobs,
         \/ BeginFail(a, j) \/ BeginMarkFailed(a, j) \/ BeginCancel(a, j)
         \/ BeginRetry(a, j) \/ BeginHeartbeat(a, j)
  PROVE  JobsInv'
<1>0. 0 \in 0..MaxRetries /\ LeaseTicks \in Ticks
  BY Constants0
<1>1. CASE BeginFail(a, j) \/ BeginMarkFailed(a, j)
  BY <1>0, <1>1, ToFreshOK, CallStep DEF BeginFail, BeginMarkFailed
<1>2. CASE BeginCancel(a, j)
  BY <1>0, <1>2, ToFreshOK, CallStep DEF BeginCancel, CancelReturns
<1>3. CASE BeginRetry(a, j)
  <2>1. Exists(j) /\ file[j] \in Job
    BY <1>3 DEF BeginRetry, RetryReturns, JobsInv, Good
  <2>2. file[j].retryCount + 1 \in 0..MaxRetries
    BY <1>3, <2>1, RetriesAssumption DEF BeginRetry, Job
  <2>. QED BY <1>0, <1>3, <2>1, <2>2, ToFreshOK, CallStep DEF BeginRetry
<1>4. CASE BeginHeartbeat(a, j)
  BY <1>0, <1>4, ToFreshOK, CallStep DEF BeginHeartbeat, HeartbeatReturns
<1>. QED BY <1>1, <1>2, <1>3, <1>4

LEMMA BeginListStep ==
  ASSUME JobsInv, NEW a \in Callers, NEW op \in {"claim", "recover"}, BeginList(a, op)
  PROVE  JobsInv'
<1>. DEFINE c == [IdleCall EXCEPT !.phase = "list", !.op = op, !.lease = LeaseTicks,
                                  !.todo = {j \in Jobs : Exists(j)}]
<1>1. c \in Call
  BY IdleOK, Constants0 DEF CallOK, Call
<1>2. c.phase = "list" /\ c.doc = NoJob /\ c.todo = {j \in Jobs : Exists(j)} /\ c.found = {}
  BY DEF IdleCall
<1>3. CallOK(c)
  BY <1>1, <1>2 DEF CallOK
<1>. QED BY <1>3, CallStep DEF BeginList

LEMMA ListFileStep ==
  ASSUME JobsInv, NEW a \in Callers, NEW j \in Jobs, ListFile(a, j) PROVE JobsInv'
<1>. DEFINE c == call[a]
            left == IF c.op = "recover" /\ file[j].hasLease THEN file[j].leaseUntil ELSE 0
<1>1. CallOK(c) /\ c \in Call /\ c.phase = "list" /\ j \in c.todo
  BY DEF JobsInv, ListFile
<1>2. Exists(j) /\ file[j] \in Job
  BY <1>1 DEF CallOK, JobsInv, Good
<1>3. left \in Ticks
  BY <1>2, Constants0 DEF Job
<1>4. PICK fs \in SUBSET [job : Jobs, left : Ticks] :
        /\ \A f \in fs : Exists(f.job)
        /\ SetCall(a, [c EXCEPT !.todo = c.todo \ {j}, !.found = fs])
  <2>. HIDE DEF c, left
  <2>1. c.found \in SUBSET [job : Jobs, left : Ticks] /\ \A f \in c.found : Exists(f.job)
    BY <1>1 DEF CallOK, Call
  <2>2. [job |-> j, left |-> left] \in [job : Jobs, left : Ticks]
    BY <1>3
  <2>3. SetCall(a, [c EXCEPT !.todo = c.todo \ {j}, !.found = c.found])
        \/ SetCall(a, [c EXCEPT !.todo = c.todo \ {j},
                                !.found = c.found \cup {[job |-> j, left |-> left]}])
    BY DEF ListFile, c, left
  <2>. DEFINE more == c.found \cup {[job |-> j, left |-> left]}
  <2>4. more \in SUBSET [job : Jobs, left : Ticks] /\ \A f \in more : Exists(f.job)
    BY <1>2, <2>1, <2>2
  <2>. HIDE DEF more
  <2>5. SetCall(a, [c EXCEPT !.todo = c.todo \ {j}, !.found = c.found])
        \/ SetCall(a, [c EXCEPT !.todo = c.todo \ {j}, !.found = more])
    BY <2>3 DEF more
  <2>. QED BY <2>1, <2>4, <2>5
<1>. HIDE DEF c, left
<1>5. CallOK([c EXCEPT !.todo = c.todo \ {j}, !.found = fs])
  BY <1>1, <1>4 DEF CallOK, Call
<1>. QED BY <1>4, <1>5, CallStep

LEMMA ClaimStep ==
  ASSUME JobsInv, NEW a \in Callers, NEW j \in Jobs, ClaimCheck(a, j) PROVE JobsInv'
<1>1. Exists(j)
  BY DEF ClaimCheck, CanClaim, IsOldest, JobsInv, CallOK
<1>2. call[a].lease \in Ticks
  BY DEF JobsInv, Call
<1>. DEFINE error == file[j].status # "running" /\ file[j].error
<1>3. error \in BOOLEAN
  OBVIOUS
<1>. HIDE DEF error
<1>4. CallOK([ToFresh(a, "claim", j) EXCEPT !.lease = call[a].lease, !.error = error])
  BY <1>1, <1>2, <1>3, Constants0, ToFreshOK
<1>5. SetCall(a, [ToFresh(a, "claim", j) EXCEPT !.lease = call[a].lease, !.error = error])
  BY DEF ClaimCheck, error
<1>. QED BY <1>4, <1>5, CallStep

LEMMA RecoverStartStep ==
  ASSUME JobsInv, NEW a \in Callers, RecoverStart(a) PROVE JobsInv'
<1>. DEFINE c == call[a]
            stuck == {f.job : f \in {g \in c.found : g.left <= 0}}
            d == [c EXCEPT !.phase = "recover", !.found = {}, !.todo = stuck]
<1>1. CallOK(c) /\ c \in Call /\ SetCall(a, d)
  BY DEF JobsInv, RecoverStart
<1>. HIDE DEF c
<1>2. stuck \in SUBSET Jobs /\ \A j \in stuck : Exists(j)
  BY <1>1 DEF CallOK, Call
<1>. HIDE DEF stuck
<1>3. CallOK(d)
  BY <1>1, <1>2 DEF CallOK, Call
<1>. QED BY <1>1, <1>3, CallStep

LEMMA RecoverPatchStep ==
  ASSUME JobsInv, NEW a \in Callers, NEW j \in Jobs, RecoverPatch(a, j) PROVE JobsInv'
<1>. DEFINE c == call[a]
            p == Stopped(file[j], "partial")
            d == [c EXCEPT !.phase = "write", !.job = j, !.todo = c.todo \ {j}, !.doc = p]
<1>1. CallOK(c) /\ c \in Call /\ SetCall(a, d) /\ j \in c.todo
  BY DEF JobsInv, RecoverPatch
<1>. HIDE DEF c
<1>2. Exists(j)
  BY <1>1 DEF CallOK
<1>3. Good(p)
  BY <1>2, StoppedGood DEF JobsInv
<1>. HIDE DEF p
<1>4. CallOK(d)
  BY <1>1, <1>2, <1>3, NoJobAssumption DEF CallOK, Call, Good
<1>. QED BY <1>1, <1>4, CallStep

LEMMA FreshStep ==
  ASSUME JobsInv, NEW a \in Callers, Fresh(a) PROVE JobsInv'
<1>. DEFINE c == call[a]
            p == Patched(a, c, file[c.job])
            d == [c EXCEPT !.phase = "write", !.doc = p]
<1>1. CallOK(c) /\ c \in Call /\ SetCall(a, d) /\ c.phase = "fresh"
  BY DEF JobsInv, Fresh
<1>2. c.job \in Jobs /\ Exists(c.job)
  BY <1>1 DEF CallOK
<1>3. Good(p)
  BY <1>1, <1>2, PatchedGood DEF JobsInv
<1>. HIDE DEF c, p
<1>4. CallOK(d)
  BY <1>1, <1>2, <1>3, NoJobAssumption DEF CallOK, Call, Good
<1>. QED BY <1>1, <1>4, CallStep

LEMMA WriteStep ==
  ASSUME JobsInv, NEW a \in Callers, Write(a) PROVE JobsInv'
<1>. DEFINE c == call[a]
            next == IF c.op = "recover"
                    THEN [c EXCEPT !.phase = "recover", !.job = None, !.doc = NoJob]
                    ELSE IdleCall
<1>1. CallOK(c) /\ c \in Call /\ c.phase = "write" /\ Good(c.doc) /\ c.doc # NoJob
      /\ c.job \in Jobs
  BY DEF JobsInv, Write, CallOK
<1>2. call' = [call EXCEPT ![a] = next]
  BY DEF Write
<1>3. CallOK(next)
  <2>1. CASE c.op = "recover"
    <3>. HIDE DEF c
    <3>1. CallOK([c EXCEPT !.phase = "recover", !.job = None, !.doc = NoJob])
      BY <1>1, <2>1 DEF CallOK, Call
    <3>. QED BY <2>1, <3>1 DEF next
  <2>. QED BY <2>1, IdleOK
<1>4. \A k \in Jobs : file'[k] = IF k = c.job THEN c.doc ELSE file[k]
  BY <1>1 DEF Write, JobsInv
<1>5. file' \in [Jobs -> Job \cup {NoJob}]
  BY <1>1 DEF Write, JobsInv, Good
<1>. HIDE DEF c, next
<1>6. \A k \in Jobs : Exists(k) => Exists(k)'
  BY <1>1, <1>4 DEF Exists
<1>7. \A k \in Jobs : Exists(k)' => Good(file'[k])
  BY <1>1, <1>4 DEF JobsInv, Exists
<1>8. call' \in [Callers -> Call]
  BY <1>2, <1>3 DEF JobsInv, CallOK
<1>9. \A b \in Callers : CallOK(call[b])'
  <2>. SUFFICES ASSUME NEW b \in Callers PROVE CallOK(call[b])'
    OBVIOUS
  <2>1. PICK e : e = call'[b]
    OBVIOUS
  <2>2. CallOK(e)
    BY <1>2, <1>3, <2>1 DEF JobsInv
  <2>3. e \in Call
    BY <2>2 DEF CallOK
  <2>. QED BY <1>6, <2>1, <2>2, <2>3 DEF CallOK, Call
<1>. QED BY <1>5, <1>7, <1>8, <1>9 DEF JobsInv, Exists

LEMMA DropStep ==
  ASSUME JobsInv, NEW a \in Callers, SetCall(a, IdleCall) PROVE JobsInv'
BY IdleOK, CallStep

\* The clock ages what a method in progress will write and what it has found.
LEMMA AgedCallOK == ASSUME NEW c \in Call, CallOK(c) PROVE CallOK(AgedCall(c))
<1>. DEFINE doc == Aged(c.doc)
            lease == IF c.op \in {"claim", "heartbeat"} THEN Older(c.lease) ELSE c.lease
            older == {[f EXCEPT !.left = Older(@)] : f \in c.found}
            found == IF c.op = "recover" THEN older ELSE c.found
<1>1. AgedCall(c) = [c EXCEPT !.doc = doc, !.lease = lease, !.found = found]
  BY DEF AgedCall
<1>2. doc \in Job \cup {NoJob} /\ (doc = NoJob <=> c.doc = NoJob)
                              /\ (doc # NoJob => Good(doc))
  <2>1. CASE c.doc = NoJob
    BY <2>1 DEF Aged
  <2>2. CASE c.doc # NoJob
    BY <2>2, AgedGood DEF CallOK, Good
  <2>. QED BY <2>1, <2>2
<1>3. lease \in Ticks
  BY OlderTicks DEF Call
<1>4. found \in SUBSET [job : Jobs, left : Ticks] /\ \A f \in found : Exists(f.job)
  <2>1. \A f \in c.found : f \in [job : Jobs, left : Ticks] /\ Exists(f.job)
    BY DEF CallOK, Call
  <2>2. \A f \in c.found : [f EXCEPT !.left = Older(@)] \in [job : Jobs, left : Ticks]
                           /\ [f EXCEPT !.left = Older(@)].job = f.job
    BY <2>1, OlderTicks
  <2>. QED BY <2>1, <2>2
<1>. HIDE DEF doc, lease, found, older
<1>. QED BY <1>1, <1>2, <1>3, <1>4 DEF CallOK, Call

LEMMA TickStep == ASSUME JobsInv, Tick PROVE JobsInv'
<1>1. \A k \in Jobs : file'[k] = Aged(file[k])
  BY DEF Tick
<1>2. \A k \in Jobs : /\ Exists(k)' <=> Exists(k)
                      /\ Exists(k) => Good(file'[k])
                      /\ file'[k] \in Job \cup {NoJob}
  <2>. SUFFICES ASSUME NEW k \in Jobs
                PROVE  /\ Exists(k)' <=> Exists(k)
                       /\ Exists(k) => Good(file'[k])
                       /\ file'[k] \in Job \cup {NoJob}
    OBVIOUS
  <2>1. CASE Exists(k)
    BY <1>1, <2>1, AgedGood DEF JobsInv, Exists, Good
  <2>2. CASE ~Exists(k)
    BY <1>1, <2>2 DEF Exists, Aged
  <2>. QED BY <2>1, <2>2
<1>3. file' \in [Jobs -> Job \cup {NoJob}]
  BY <1>2 DEF Tick
<1>4. \A a \in Callers : CallOK(call'[a]) /\ call'[a] \in Call
  <2>. SUFFICES ASSUME NEW a \in Callers PROVE CallOK(call'[a]) /\ call'[a] \in Call
    OBVIOUS
  <2>1. call'[a] = AgedCall(call[a])
    BY DEF Tick
  <2>2. CallOK(AgedCall(call[a]))
    BY AgedCallOK DEF JobsInv
  <2>. QED BY <2>1, <2>2 DEF CallOK
<1>5. call' \in [Callers -> Call]
  BY <1>4 DEF Tick
<1>6. \A a \in Callers : CallOK(call[a])'
  <2>. SUFFICES ASSUME NEW a \in Callers PROVE CallOK(call[a])'
    OBVIOUS
  <2>1. PICK e : e = call'[a]
    OBVIOUS
  <2>. QED BY <1>2, <1>4, <2>1 DEF CallOK, Call
<1>. QED BY <1>2, <1>3, <1>5, <1>6 DEF JobsInv, Exists

-------------------------------------------------------------------------------
LEMMA InitInv == JobsInit => JobsInv
<1>. SUFFICES ASSUME JobsInit PROVE JobsInv
  OBVIOUS
<1>1. file \in [Jobs -> {NoJob, NewJob}] /\ \A a \in Callers : call[a] = IdleCall
  BY DEF JobsInit
<1>2. IdleCall \in Call /\ CallOK(IdleCall)
  BY IdleOK DEF CallOK
<1>3. call \in [Callers -> Call]
  BY <1>2 DEF JobsInit
<1>4. \A j \in Jobs : file[j] \in Job \cup {NoJob} /\ (Exists(j) => Good(file[j]))
  BY <1>1, NewJobGood DEF Exists, Good
<1>5. file \in [Jobs -> Job \cup {NoJob}]
  BY <1>1, <1>4
<1>. QED BY <1>1, <1>2, <1>3, <1>4, <1>5 DEF JobsInv

LEMMA NextInv == JobsInv /\ [JobsNext]_jobVars => JobsInv'
<1>. SUFFICES ASSUME JobsInv, [JobsNext]_jobVars PROVE JobsInv'
  OBVIOUS
<1>1. ASSUME NEW a \in Callers, NEW j \in Jobs, Method(a, j) PROVE JobsInv'
  BY <1>1, CreateStep, StageStep, CompleteStep, PatchingStep, ListFileStep, ClaimStep,
     RecoverPatchStep
  DEF Method
<1>2. ASSUME NEW a \in Callers,
             \/ BeginList(a, "claim") \/ BeginList(a, "recover") \/ RecoverStart(a)
             \/ Return(a) \/ Fresh(a) \/ Write(a) \/ Drop(a)
      PROVE  JobsInv'
  <2>1. Return(a) \/ Drop(a) => SetCall(a, IdleCall)
    BY DEF Return, Drop, SetCall
  <2>. QED BY <1>2, <2>1, BeginListStep, RecoverStartStep, FreshStep, WriteStep, DropStep
<1>3. CASE UNCHANGED jobVars
  <2>1. file' = file /\ call' = call
    BY <1>3 DEF jobVars
  <2>. QED BY <2>1 DEF JobsInv, CallOK, Exists
<1>. QED BY <1>1, <1>2, <1>3, TickStep DEF JobsNext

LEMMA Invariance == JobsSpec => []JobsInv
BY InitInv, NextInv, PTL DEF JobsSpec

\* Job files and calls have their types, whatever the callers do
\* (CaspaJobService.ts:13-45).
THEOREM JobsTypes == JobsSpec => []JobsTypeOK
<1>1. JobsInv => JobsTypeOK
  BY DEF JobsInv, JobsTypeOK
<1>. QED BY <1>1, Invariance, PTL

\* Every job document is coherent, for any number of callers that use the methods of
\* the service in any order and interleave between any two of their reads and writes
\* (CaspaJobService.ts:94-303).
THEOREM DocumentsCoherent == JobsSpec => []JobsCoherent
<1>1. JobsInv => JobsCoherent
  BY DEF JobsInv, JobsCoherent, Good
<1>. QED BY <1>1, Invariance, PTL
===============================================================================
