--------------------------- MODULE OrchestratorProofs ---------------------------
(***************************************************************************)
(* Proofs about Orchestrator, for any number of drivers, agents and tasks: *)
(* its types, that a task is where its state says, that none is lost and   *)
(* that a callback is called at most once.                                 *)
(***************************************************************************)
EXTENDS Orchestrator, FiniteSetTheorems, TLAPS

-------------------------------------------------------------------------------
(* Sequences.                                                              *)

\* An ordering of a finite set holds each of its elements.
LEMMA OrderingHoldsAll ==
  ASSUME NEW S, IsFiniteSet(S), NEW s \in SetToSeqs(S)
  PROVE  s \in Seq(S) /\ \A x \in S : Contains(s, x)
<1> DEFINE n == Cardinality(S)
<1>1. n \in Nat  BY FS_CardinalityType
<1>2. s \in [1..n -> S] /\ \A i, j \in 1..n : i # j => s[i] # s[j]  BY DEF SetToSeqs
<1>3. s \in Injection(1..n, S)  BY <1>2 DEF Injection, IsInjective
<1>4. IsFiniteSet(1..n) /\ Cardinality(1..n) = n  BY <1>1, FS_Interval
<1>5. s \in Surjection(1..n, S)  BY <1>3, <1>4, FS_Injection
<1>6. s \in Seq(S) /\ Len(s) = n  BY <1>1, <1>2
<1> QED  BY <1>5, <1>6 DEF Surjection, Contains

\* The elements of a concatenation.
LEMMA ConcatElements ==
  ASSUME NEW S, NEW s \in Seq(S), NEW r \in Seq(S)
  PROVE  /\ s \o r \in Seq(S) /\ Len(s \o r) = Len(s) + Len(r)
         /\ \A k \in 1..Len(s) : (s \o r)[k] = s[k]
         /\ \A k \in 1..Len(r) : (s \o r)[Len(s) + k] = r[k]
OBVIOUS

\* Removing one element from a sequence keeps the others.
LEMMA RemoveAtKeeps ==
  ASSUME NEW S, NEW s \in Seq(S), NEW i \in 1..Len(s)
  PROVE  /\ RemoveAt(s, i) \in Seq(S)
         /\ \A x : Contains(s, x) /\ x # s[i] => Contains(RemoveAt(s, i), x)
<1> DEFINE a == SubSeq(s, 1, i - 1)
           b == SubSeq(s, i + 1, Len(s))
<1>1. /\ a \in Seq(S) /\ Len(a) = i - 1 /\ \A k \in 1..(i - 1) : a[k] = s[k]
  OBVIOUS
<1>2. /\ b \in Seq(S) /\ Len(b) = Len(s) - i /\ \A k \in 1..(Len(s) - i) : b[k] = s[i + k]
  OBVIOUS
<1> HIDE DEF a, b
<1>3. /\ a \o b \in Seq(S) /\ Len(a \o b) = Len(s) - 1
      /\ \A k \in 1..(i - 1) : (a \o b)[k] = s[k]
      /\ \A k \in i..(Len(s) - 1) : (a \o b)[k] = s[k + 1]
  <2>1. Len(s) \in Nat /\ i \in Nat /\ 1 <= i /\ i <= Len(s)  OBVIOUS
  <2>2. /\ a \o b \in Seq(S) /\ Len(a \o b) = Len(a) + Len(b)
        /\ \A k \in 1..Len(a) : (a \o b)[k] = a[k]
        /\ \A k \in 1..Len(b) : (a \o b)[Len(a) + k] = b[k]
    <3>1. a \in Seq(S)  BY <1>1
    <3>2. b \in Seq(S)  BY <1>2
    <3> QED  BY <3>1, <3>2
  <2>3. Len(a \o b) = Len(s) - 1  BY <2>1, <2>2, <1>1, <1>2
  <2>4. \A k \in 1..(i - 1) : (a \o b)[k] = s[k]  BY <2>2, <1>1
  <2>5. ASSUME NEW k \in i..(Len(s) - 1)  PROVE (a \o b)[k] = s[k + 1]
    <3>1. k - (i - 1) \in 1..Len(b) /\ (i - 1) + (k - (i - 1)) = k
          /\ i + (k - (i - 1)) = k + 1
      BY <2>1, <1>2
    <3>2. (a \o b)[k] = b[k - (i - 1)]  BY <3>1, <2>2, <1>1
    <3> QED  BY <3>1, <3>2, <1>2
  <2> QED  BY <2>2, <2>3, <2>4, <2>5
<1>4. ASSUME NEW x, NEW k \in 1..Len(s), s[k] = x, x # s[i]
      PROVE  Contains(a \o b, x)
  <2>1. CASE k < i
    <3>1. k \in 1..(i - 1) /\ k \in 1..Len(a \o b)  BY <2>1, <1>3
    <3> QED  BY <3>1, <1>3, <1>4 DEF Contains
  <2>2. CASE k > i
    <3>1. k - 1 \in i..(Len(s) - 1) /\ k - 1 \in 1..Len(a \o b) /\ (k - 1) + 1 = k
      BY <2>2, <1>3
    <3> QED  BY <3>1, <1>3, <1>4 DEF Contains
  <2> QED  BY <2>1, <2>2, <1>4
<1> QED  BY <1>3, <1>4 DEF Contains, RemoveAt, a, b

\* Appending keeps what a sequence holds.
LEMMA ConcatHolds ==
  ASSUME NEW S, NEW s \in Seq(S), NEW r \in Seq(S)
  PROVE  /\ s \o r \in Seq(S)
         /\ \A x : Contains(s, x) \/ Contains(r, x) => Contains(s \o r, x)
<1>1. /\ s \o r \in Seq(S) /\ Len(s \o r) = Len(s) + Len(r)
      /\ \A k \in 1..Len(s) : (s \o r)[k] = s[k]
      /\ \A k \in 1..Len(r) : (s \o r)[Len(s) + k] = r[k]
  BY ConcatElements
<1>2. Len(s) \in Nat /\ Len(r) \in Nat  OBVIOUS
<1>3. ASSUME NEW x, Contains(s, x)  PROVE Contains(s \o r, x)
  <2>1. PICK k \in 1..Len(s) : s[k] = x  BY <1>3 DEF Contains
  <2>2. k \in 1..Len(s \o r)  BY <1>1, <1>2
  <2> QED  BY <2>1, <2>2, <1>1 DEF Contains
<1>4. ASSUME NEW x, Contains(r, x)  PROVE Contains(s \o r, x)
  <2>1. PICK k \in 1..Len(r) : r[k] = x  BY <1>4 DEF Contains
  <2>2. Len(s) + k \in 1..Len(s \o r)  BY <1>1, <1>2
  <2> QED  BY <2>1, <2>2, <1>1 DEF Contains
<1> QED  BY <1>1, <1>3, <1>4

LEMMA AppendHolds ==
  ASSUME NEW S, NEW s \in Seq(S), NEW y \in S
  PROVE  /\ Append(s, y) \in Seq(S) /\ Contains(Append(s, y), y)
         /\ \A x : Contains(s, x) => Contains(Append(s, y), x)
<1>1. /\ Append(s, y) \in Seq(S) /\ Len(Append(s, y)) = Len(s) + 1
      /\ Append(s, y)[Len(s) + 1] = y
      /\ \A k \in 1..Len(s) : Append(s, y)[k] = s[k]
  OBVIOUS
<1>2. Len(s) \in Nat /\ Len(s) + 1 \in 1..(Len(s) + 1)  OBVIOUS
<1>3. 1..Len(s) \subseteq 1..(Len(s) + 1)  BY <1>2
<1> QED  BY <1>1, <1>2, <1>3 DEF Contains

-------------------------------------------------------------------------------
(* What a step does to the dispatcher.                                     *)

\* The steps of a driver that only read the dispatcher.
Quiet(d) ==
  \/ CreateRecord(d) \/ StoreCallback(d) \/ RecordAssigned(d) \/ RecordStarted(d)
  \/ Busy(d) \/ RecordComplete(d) \/ Free(d) \/ CallBack(d) \/ RecordFailed(d)
  \/ Release(d) \/ (\E t \in Tasks : Again(d, t)) \/ (\E a \in Agents : CheckAgent(d, a))
  \/ (\E a \in Agents \cup {None} : Refuse(d, a))

\* The others of a driver.
Moves(d) ==
  \/ \E t \in Tasks : DispatchIssue(d, t)
  \/ Dequeue(d) \/ Assign(d) \/ Start(d) \/ Complete(d) \/ Fail(d)

\* The steps of the monitor that only read the dispatcher.
MonitorQuiet ==
  \/ MonitorRecord \/ MonitorRelease \/ DeadAgents \/ Sleep
  \/ (\E t \in Tasks : GetTask(t)) \/ (\E a \in Agents : BlockDead(a))

LEMMA QuietUnchanged == ASSUME NEW d, Quiet(d) PROVE UNCHANGED dispatcherVars
<1>1. CreateRecord(d) => UNCHANGED dispatcherVars  BY DEF CreateRecord
<1>2. StoreCallback(d) => UNCHANGED dispatcherVars  BY DEF StoreCallback
<1>3. \A l, r, n : Record(d, l, r, n) => UNCHANGED dispatcherVars  BY DEF Record
<1>4. \A l, r : Report(d, l, r) => UNCHANGED dispatcherVars  BY DEF Report
<1>5. CallBack(d) => UNCHANGED dispatcherVars  BY DEF CallBack, CallsBack
<1>6. \A t : Again(d, t) => UNCHANGED dispatcherVars  BY DEF Again
<1>7. \A a : CheckAgent(d, a) \/ Refuse(d, a) => UNCHANGED dispatcherVars
  BY DEF CheckAgent, Refuse
<1> QED  BY <1>1, <1>2, <1>3, <1>4, <1>5, <1>6, <1>7
         DEF Quiet, RecordAssigned, RecordStarted, RecordComplete, RecordFailed,
             Busy, Free, Release

LEMMA MonitorQuietUnchanged ==
  ASSUME MonitorQuiet PROVE UNCHANGED <<dispatcherVars, driverVars>>
BY DEF MonitorQuiet, MonitorRecord, MonitorRelease, DeadAgents, Sleep, GetTask, BlockDead,
       Monitor

LEMMA NextCases ==
  ASSUME [Next]_vars
  PROVE  \/ \E d \in Drivers : Quiet(d) \/ Moves(d)
         \/ MonitorQuiet \/ CheckTimeouts \/ MonitorFail
         \/ \E t \in Tasks : Cancel(t) \/ Overrun(t)
         \/ \E a \in Agents : Veto(a) \/ Clear(a)
         \/ UNCHANGED vars
BY DEF Next, Driver, MonitorLoop, Quiet, Moves, MonitorQuiet

\* Whatever the step, what it does to the dispatcher is one of these.
DispatcherMoves ==
  \/ UNCHANGED dispatcherVars
  \/ \E d \in Drivers : \/ \E t \in Tasks : DispatchIssue(d, t)
                       \/ Dequeue(d) \/ Assign(d) \/ Start(d) \/ Complete(d)
  \/ \E F \in SUBSET Tasks : DispatcherFail(F)
  \/ \E t \in Tasks : Cancel(t) \/ Overrun(t)

LEMMA AtTask ==
  ASSUME TypeOK, NEW d \in Drivers, pc[d] # "idle"
  PROVE  task[d] \in Tasks
BY DEF TypeOK, DriversOK

LEMMA MonitorAtTask == ASSUME TypeOK, monitor.at \in {"fail", "record", "release"}
                       PROVE  monitor.now \in Tasks
BY DEF TypeOK, MonitorOK, MonitorState

LEMMA DispatcherStep == ASSUME TypeOK, [Next]_vars PROVE DispatcherMoves
<1>1. ASSUME NEW d \in Drivers, Quiet(d)  PROVE DispatcherMoves
  BY <1>1, QuietUnchanged DEF DispatcherMoves
<1>2. ASSUME NEW d \in Drivers, Fail(d)  PROVE DispatcherMoves
  <2>1. pc[d] # "idle" /\ DispatcherFail({task[d]})  BY <1>2 DEF Fail
  <2>2. {task[d]} \in SUBSET Tasks  BY <2>1, AtTask
  <2> QED  BY <2>1, <2>2 DEF DispatcherMoves
<1>3. ASSUME NEW d \in Drivers, Moves(d)  PROVE DispatcherMoves
  BY <1>2, <1>3 DEF Moves, DispatcherMoves
<1>4. CASE MonitorQuiet  BY <1>4, MonitorQuietUnchanged DEF DispatcherMoves
<1>5. CASE CheckTimeouts
  <2>1. DispatcherFail(TimedOut)  BY <1>5 DEF CheckTimeouts
  <2>2. TimedOut \in SUBSET Tasks  BY DEF TimedOut, TypeOK, DispatcherOK
  <2> QED  BY <2>1, <2>2 DEF DispatcherMoves
<1>6. CASE MonitorFail
  <2>1. monitor.at = "fail" /\ DispatcherFail({monitor.now})  BY <1>6 DEF MonitorFail
  <2>2. {monitor.now} \in SUBSET Tasks  BY <2>1, MonitorAtTask
  <2> QED  BY <2>1, <2>2 DEF DispatcherMoves
<1>7. ASSUME NEW t \in Tasks, Cancel(t) \/ Overrun(t)  PROVE DispatcherMoves
  BY <1>7 DEF DispatcherMoves
<1>8. ASSUME NEW a \in Agents, Veto(a) \/ Clear(a)  PROVE DispatcherMoves
  BY <1>8 DEF Veto, Clear, DispatcherMoves
<1>9. CASE UNCHANGED vars  BY <1>9 DEF vars, DispatcherMoves
<1> QED  BY <1>1, <1>3, <1>4, <1>5, <1>6, <1>7, <1>8, <1>9, NextCases

\* A failing task that is to be retried is in the queue, and so is all that was.
LEMMA FailQueue ==
  ASSUME DispatcherOK, NEW F \in SUBSET Tasks, DispatcherFail(F)
  PROVE  /\ queue' \in Seq(Tasks)
         /\ \A t : Contains(queue, t) => Contains(queue', t)
         /\ \A t \in F : Retried(t) => Contains(queue', t)
<1> DEFINE R == {t \in F : Retried(t)}
<1>1. PICK again \in SetToSeqs(R) : queue' = queue \o again  BY DEF DispatcherFail
<1>2. IsFiniteSet(R) /\ R \subseteq Tasks  BY TasksAssumption, FS_Subset
<1> HIDE DEF R
<1>3. again \in Seq(R) /\ \A x \in R : Contains(again, x)  BY <1>1, <1>2, OrderingHoldsAll
<1>4. again \in Seq(Tasks)  BY <1>2, <1>3
<1>5. queue \in Seq(Tasks)  BY DEF DispatcherOK
<1>6. /\ queue' \in Seq(Tasks)
      /\ \A x : Contains(queue, x) \/ Contains(again, x) => Contains(queue', x)
  BY <1>1, <1>4, <1>5, ConcatHolds
<1>7. \A t \in F : Retried(t) => t \in R  BY DEF R
<1> QED  BY <1>3, <1>6, <1>7

-------------------------------------------------------------------------------
(* Types.                                                                  *)

LEMMA DispatcherTypes ==
  ASSUME TypeOK, [Next]_vars PROVE DispatcherOK'
<1> USE DEF DispatcherOK, States
<1>0. DispatcherOK  BY DEF TypeOK
<1>1. CASE UNCHANGED dispatcherVars
  BY <1>0, <1>1 DEF dispatcherVars, taskVars
<1>2. ASSUME NEW d \in Drivers, NEW t \in Tasks, DispatchIssue(d, t)  PROVE DispatcherOK'
  <2>1. queue' \in Seq(Tasks)  BY <1>0, <1>2, AppendHolds DEF DispatchIssue
  <2> QED  BY <1>0, <1>2, <2>1 DEF DispatchIssue
<1>3. ASSUME NEW d \in Drivers, Dequeue(d)  PROVE DispatcherOK'
  <2>1. PICK i \in DOMAIN queue : queue' = RemoveAt(queue, i)  BY <1>3 DEF Dequeue
  <2>2. i \in 1..Len(queue)  BY <1>0, <2>1
  <2>3. queue' \in Seq(Tasks)  BY <1>0, <2>1, <2>2, RemoveAtKeeps
  <2> QED  BY <1>0, <1>3, <2>3 DEF Dequeue, taskVars
<1>4. ASSUME NEW d \in Drivers, Assign(d)  PROVE DispatcherOK'
  <2>1. agent[d] \in Agents \cup {None}  BY DEF TypeOK, DriversOK
  <2>2. pc[d] # "idle"  BY <1>4 DEF Assign
  <2>3. task[d] \in Tasks  BY <2>2, AtTask
  <2> QED  BY <1>0, <1>4, <2>1, <2>3 DEF Assign
<1>5. ASSUME NEW d \in Drivers, Start(d)  PROVE DispatcherOK'
  <2>1. pc[d] # "idle"  BY <1>5 DEF Start, Starts
  <2>2. task[d] \in Tasks  BY <2>1, AtTask
  <2> QED  BY <1>0, <1>5, <2>2 DEF Start, Starts
<1>6. ASSUME NEW d \in Drivers, Complete(d)  PROVE DispatcherOK'
  <2>1. pc[d] # "idle"  BY <1>6 DEF Complete
  <2>2. task[d] \in Tasks  BY <2>1, AtTask
  <2> QED  BY <1>0, <1>6, <2>2 DEF Complete
<1>7. ASSUME NEW F \in SUBSET Tasks, DispatcherFail(F)  PROVE DispatcherOK'
  <2>1. queue' \in Seq(Tasks)  BY <1>0, <1>7, FailQueue
  <2>2. retries' \in [Tasks -> 0..MaxRetries]
    <3>1. \A t \in Tasks : Retried(t) => retries[t] + 1 \in 0..MaxRetries
      BY <1>0, RetriesAssumption DEF Retried
    <3>2. MaxRetries \in 0..MaxRetries  BY RetriesAssumption
    <3> QED  BY <1>0, <1>7, <3>1, <3>2 DEF DispatcherFail, FailTasks
  <2> QED  BY <1>0, <1>7, <2>1, <2>2 DEF DispatcherFail, FailTasks
<1>8. ASSUME NEW t \in Tasks, Cancel(t)  PROVE DispatcherOK'
  <2>1. queue' \in Seq(Tasks)
    <3>1. CASE queue' = queue  BY <1>0, <3>1
    <3>2. CASE \E i \in DOMAIN queue : queue' = RemoveAt(queue, i)
      <4>1. PICK i \in DOMAIN queue : queue' = RemoveAt(queue, i)  BY <3>2
      <4>2. i \in 1..Len(queue)  BY <1>0
      <4> QED  BY <1>0, <4>1, <4>2, RemoveAtKeeps
    <3> QED  BY <1>8, <3>1, <3>2 DEF Cancel
  <2> QED  BY <1>0, <1>8, <2>1 DEF Cancel
<1>9. ASSUME NEW t \in Tasks, Overrun(t)  PROVE DispatcherOK'
  BY <1>0, <1>9 DEF Overrun
<1> QED  BY <1>1, <1>2, <1>3, <1>4, <1>5, <1>6, <1>7, <1>8, <1>9, DispatcherStep
         DEF DispatcherMoves

\* Where a driver goes.
LEMMA GotoOK ==
  ASSUME DriversOK, NEW d \in Drivers, NEW l \in Labels, pc[d] # "idle", Goto(d, l)
  PROVE  DriversOK'
BY DEF DriversOK, Goto

LEMMA TakeOK ==
  ASSUME DriversOK, NEW d \in Drivers, NEW t \in Tasks, NEW l \in Labels, Take(d, t, l)
  PROVE  DriversOK'
BY NoneAssumption DEF DriversOK, Take

LEMMA LeaveOK ==
  ASSUME DriversOK, NEW d \in Drivers, Leave(d)
  PROVE  DriversOK'
BY DEF DriversOK, Leave, Take, Labels

LEMMA DriversTypes ==
  ASSUME TypeOK, [Next]_vars PROVE DriversOK'
<1>0. DriversOK /\ queue \in Seq(Tasks)  BY DEF TypeOK, DispatcherOK
<1> DEFINE Moved(d) == (pc[d] # "idle" /\ \E l \in Labels : Goto(d, l)) \/ Leave(d)
<1>1. ASSUME NEW d \in Drivers, Moved(d)  PROVE DriversOK'
  BY <1>0, <1>1, GotoOK, LeaveOK
<1>2. ASSUME NEW d \in Drivers, NEW t \in Tasks, DispatchIssue(d, t) \/ Again(d, t)
      PROVE  DriversOK'
  <2>1. \E l \in Labels : Take(d, t, l)  BY <1>2 DEF DispatchIssue, Again, Labels
  <2> QED  BY <1>0, <2>1, TakeOK
<1>3. ASSUME NEW d \in Drivers, Dequeue(d)  PROVE DriversOK'
  <2>1. PICK i \in DOMAIN queue : Take(d, queue[i], "ready")  BY <1>3 DEF Dequeue
  <2>2. queue[i] \in Tasks /\ "ready" \in Labels  BY <1>0, <2>1 DEF Labels
  <2> QED  BY <1>0, <2>1, <2>2, TakeOK
<1>4. ASSUME NEW d \in Drivers, NEW a,
             (a \in Agents /\ CheckAgent(d, a)) \/ Refuse(d, a)
      PROVE  DriversOK'
  <2>1. ASSUME a \in Agents, CheckAgent(d, a)  PROVE DriversOK'
    BY <1>0, <2>1 DEF CheckAgent, DriversOK, Labels
  <2>2. ASSUME Refuse(d, a)  PROVE DriversOK'
    <3>1. task[d] \in Tasks  BY <1>4, <2>2, AtTask DEF Refuse
    <3> QED  BY <1>0, <2>2, <3>1 DEF Refuse, DriversOK, Labels
  <2> QED  BY <1>4, <2>1, <2>2
<1>5. ASSUME NEW d \in Drivers, CreateRecord(d) \/ StoreCallback(d)  PROVE Moved(d)
  BY <1>5 DEF CreateRecord, StoreCallback, Labels
<1>6. ASSUME NEW d \in Drivers, RecordAssigned(d) \/ RecordStarted(d)
                              \/ RecordComplete(d) \/ RecordFailed(d)
      PROVE  Moved(d)
  BY <1>6 DEF RecordAssigned, RecordStarted, RecordComplete, RecordFailed, Record, Labels
<1>7. ASSUME NEW d \in Drivers, Busy(d) \/ Free(d) \/ Release(d)  PROVE Moved(d)
  BY <1>7 DEF Busy, Free, Release, Report, Labels
<1>8. ASSUME NEW d \in Drivers, CallBack(d) \/ Assign(d) \/ Start(d) \/ Complete(d)
      PROVE  Moved(d)
  BY <1>8 DEF CallBack, CallsBack, Assign, Start, Starts, Complete, Labels
<1>9. ASSUME NEW d \in Drivers, Fail(d)  PROVE Moved(d)
  BY <1>9 DEF Fail, Labels
<1>10. ASSUME NEW d \in Drivers, Quiet(d) \/ Moves(d)  PROVE DriversOK'
  <2> HIDE DEF Moved
  <2> QED  BY <1>1, <1>2, <1>3, <1>4, <1>5, <1>6, <1>7, <1>8, <1>9, <1>10 DEF Quiet, Moves
<1>11. CASE UNCHANGED driverVars  BY <1>0, <1>11 DEF DriversOK, driverVars
<1>12. CASE MonitorQuiet \/ CheckTimeouts \/ MonitorFail
  BY <1>11, <1>12, MonitorQuietUnchanged DEF CheckTimeouts, MonitorFail, Monitor
<1>13. ASSUME NEW t \in Tasks, Cancel(t) \/ Overrun(t)  PROVE DriversOK'
  BY <1>11, <1>13 DEF Cancel, Overrun
<1>14. ASSUME NEW a \in Agents, Veto(a) \/ Clear(a)  PROVE DriversOK'
  BY <1>11, <1>14 DEF Veto, Clear
<1>15. CASE UNCHANGED vars  BY <1>11, <1>15 DEF vars
<1> QED  BY <1>10, <1>12, <1>13, <1>14, <1>15, NextCases

LEMMA MonitorTypes ==
  ASSUME TypeOK, [Next]_vars PROVE MonitorOK'
<1> USE DEF MonitorOK, MonitorState
<1>0. MonitorOK  BY DEF TypeOK
<1>1. CASE UNCHANGED monitor  BY <1>0, <1>1
<1>2. ASSUME NEW d \in Drivers, Quiet(d) \/ Moves(d)  PROVE MonitorOK'
  <2>1. \A t, l : Goto(d, l) \/ Take(d, t, l) \/ Leave(d) => UNCHANGED monitor
    BY DEF Goto, Take, Leave
  <2>2. Quiet(d) => UNCHANGED monitor
    BY <2>1 DEF Quiet, CreateRecord, StoreCallback, RecordAssigned, RecordStarted,
       RecordComplete, RecordFailed, Record, Busy, Free, Release, Report, CallBack, CallsBack,
       Again, CheckAgent, Refuse
  <2>3. Moves(d) => UNCHANGED monitor
    BY <2>1 DEF Moves, DispatchIssue, Dequeue, Assign, Start, Starts, Complete, Fail
  <2> QED  BY <1>1, <1>2, <2>2, <2>3
<1>3. CASE CheckTimeouts
  <2>1. TimedOut \subseteq Tasks  BY DEF TimedOut, TypeOK, DispatcherOK
  <2> QED  BY <1>0, <1>3, <2>1 DEF CheckTimeouts, Monitor
<1>4. ASSUME NEW t \in Tasks, GetTask(t)  PROVE MonitorOK'
  BY <1>0, <1>4, NoneAssumption DEF GetTask, Monitor
<1>5. CASE MonitorFail
  <2>1. Retried(monitor.now) \in BOOLEAN  BY DEF Retried
  <2> QED  BY <1>0, <1>5, <2>1 DEF MonitorFail, Monitor
<1>6. CASE MonitorRecord  BY <1>0, <1>6 DEF MonitorRecord, Monitor
<1>7. CASE MonitorRelease  BY <1>0, <1>7 DEF MonitorRelease, Monitor
<1>8. CASE DeadAgents
  <2>1. PICK dead \in SUBSET Agents :
          monitor' = [monitor EXCEPT !.at = "dead", !.todo = dead]
    BY <1>8 DEF DeadAgents, Monitor
  <2>2. dead \in (SUBSET Tasks) \cup (SUBSET Agents)  BY <2>1
  <2>3. monitor'.at = "dead" /\ monitor'.todo = dead  BY <1>0, <2>1
  <2>4. monitor' \in MonitorState  BY <1>0, <2>1, <2>2
  <2> QED  BY <2>3, <2>4
<1>9. ASSUME NEW a \in Agents, BlockDead(a)  PROVE MonitorOK'
  BY <1>0, <1>9 DEF BlockDead, Monitor
<1>10. CASE Sleep  BY <1>0, <1>10 DEF Sleep, Monitor
<1>11. ASSUME NEW t \in Tasks, Cancel(t) \/ Overrun(t)  PROVE MonitorOK'
  BY <1>1, <1>11 DEF Cancel, Overrun
<1>12. ASSUME NEW a \in Agents, Veto(a) \/ Clear(a)  PROVE MonitorOK'
  BY <1>1, <1>12 DEF Veto, Clear
<1>13. CASE UNCHANGED vars  BY <1>1, <1>13 DEF vars
<1> QED  BY <1>2, <1>3, <1>4, <1>5, <1>6, <1>7, <1>8, <1>9, <1>10, <1>11, <1>12, <1>13,
            NextCases DEF MonitorQuiet

LEMMA SetStatusOK ==
  ASSUME BooksOK, NEW a \in Agents \cup {None}, NEW l \in {"IDLE", "BUSY", "BLOCKED"},
         SetStatus(a, l), UNCHANGED bookVars
  PROVE  BooksOK'
BY DEF BooksOK, SetStatus, bookVars

LEMMA SetRecordOK ==
  ASSUME BooksOK, NEW t \in Tasks, NEW l \in States, SetRecord(t, l), UNCHANGED status
  PROVE  BooksOK'
BY DEF BooksOK, SetRecord

LEMMA BooksTypes ==
  ASSUME TypeOK, [Next]_vars PROVE BooksOK'
<1>0. BooksOK /\ assigned \in [Tasks -> Agents \cup {None}]  BY DEF TypeOK, DispatcherOK
<1>1. CASE UNCHANGED <<status, bookVars>>  BY <1>0, <1>1 DEF BooksOK, bookVars
<1>2. ASSUME NEW d \in Drivers, CreateRecord(d)  PROVE BooksOK'
  <2>1. pc[d] # "idle"  BY <1>2 DEF CreateRecord
  <2>2. task[d] \in Tasks  BY <2>1, AtTask
  <2> QED  BY <1>0, <1>2, <2>2 DEF CreateRecord, BooksOK, States
<1>3. ASSUME NEW d \in Drivers, StoreCallback(d)  PROVE BooksOK'
  <2>1. pc[d] # "idle"  BY <1>3 DEF StoreCallback
  <2>2. task[d] \in Tasks  BY <2>1, AtTask
  <2> QED  BY <1>0, <1>3, <2>2 DEF StoreCallback, BooksOK
<1>4. ASSUME NEW d \in Drivers, NEW l, l # "idle", NEW n, NEW r \in States, Record(d, l, r, n)
      PROVE  BooksOK'
  <2>1. task[d] \in Tasks  BY <1>4, AtTask DEF Record
  <2> QED  BY <1>0, <1>4, <2>1, SetRecordOK DEF Record
<1>5. ASSUME NEW d \in Drivers, RecordAssigned(d) \/ RecordStarted(d)
                              \/ RecordComplete(d) \/ RecordFailed(d)
      PROVE  BooksOK'
  BY <1>4, <1>5 DEF RecordAssigned, RecordStarted, RecordComplete, RecordFailed, States
<1>6. ASSUME NEW d \in Drivers, NEW l, l # "idle", NEW r \in {"IDLE", "BUSY", "BLOCKED"},
             Report(d, l, r)
      PROVE  BooksOK'
  <2>1. task[d] \in Tasks  BY <1>6, AtTask DEF Report
  <2>2. assigned[task[d]] \in Agents \cup {None}  BY <1>0, <2>1
  <2> QED  BY <1>0, <1>6, <2>2, SetStatusOK DEF Report
<1>7. ASSUME NEW d \in Drivers, Busy(d) \/ Free(d) \/ Release(d)  PROVE BooksOK'
  BY <1>6, <1>7 DEF Busy, Free, Release
<1>8. ASSUME NEW d \in Drivers, CallBack(d)  PROVE BooksOK'
  BY <1>0, <1>8 DEF CallBack, CallsBack, BooksOK
<1>9. ASSUME NEW d \in Drivers, Quiet(d) \/ Moves(d)  PROVE BooksOK'
  <2>1. \A t : Again(d, t) => UNCHANGED <<status, bookVars>>  BY DEF Again
  <2>2. \A a : CheckAgent(d, a) \/ Refuse(d, a) => UNCHANGED <<status, bookVars>>
    BY DEF CheckAgent, Refuse
  <2>3. Moves(d) => UNCHANGED <<status, bookVars>>
    BY DEF Moves, DispatchIssue, Dequeue, Assign, Start, Starts, Complete, Fail
  <2> QED  BY <1>1, <1>2, <1>3, <1>5, <1>7, <1>8, <1>9, <2>1, <2>2, <2>3 DEF Quiet
<1>10. CASE MonitorRecord
  <2>1. monitor.now \in Tasks  BY <1>10, MonitorAtTask DEF MonitorRecord
  <2> QED  BY <1>0, <1>10, <2>1, SetRecordOK DEF MonitorRecord, States
<1>11. CASE MonitorRelease
  <2>1. monitor.now \in Tasks  BY <1>11, MonitorAtTask DEF MonitorRelease
  <2>2. assigned[monitor.now] \in Agents \cup {None}  BY <1>0, <2>1
  <2> QED  BY <1>0, <1>11, <2>2, SetStatusOK DEF MonitorRelease
<1>12. ASSUME NEW a \in Agents, BlockDead(a)  PROVE BooksOK'
  BY <1>0, <1>12, SetStatusOK DEF BlockDead
<1>13. CASE MonitorQuiet \/ CheckTimeouts \/ MonitorFail
  <2>1. DeadAgents \/ Sleep \/ CheckTimeouts \/ MonitorFail => UNCHANGED <<status, bookVars>>
    BY DEF DeadAgents, Sleep, CheckTimeouts, MonitorFail
  <2>2. \A t : GetTask(t) => UNCHANGED <<status, bookVars>>  BY DEF GetTask
  <2> QED  BY <1>1, <1>10, <1>11, <1>12, <1>13, <2>1, <2>2 DEF MonitorQuiet
<1>14. ASSUME NEW t \in Tasks, Cancel(t) \/ Overrun(t)  PROVE BooksOK'
  BY <1>1, <1>14 DEF Cancel, Overrun
<1>15. ASSUME NEW a \in Agents, Veto(a) \/ Clear(a)  PROVE BooksOK'
  BY <1>0, <1>15, SetStatusOK DEF Veto, Clear
<1>16. CASE UNCHANGED vars  BY <1>1, <1>16 DEF vars
<1> QED  BY <1>9, <1>13, <1>14, <1>15, <1>16, NextCases

LEMMA InitTypes == Init => TypeOK
<1> SUFFICES ASSUME Init PROVE TypeOK  OBVIOUS
<1>1. DispatcherOK  BY RetriesAssumption DEF Init, DispatcherOK
<1>2. BooksOK  BY DEF Init, BooksOK
<1>3. DriversOK  BY DEF Init, DriversOK, Labels
<1>4. MonitorOK  BY DEF Init, MonitorOK, MonitorState
<1> QED  BY <1>1, <1>2, <1>3, <1>4 DEF TypeOK

LEMMA NextTypes == TypeOK /\ [Next]_vars => TypeOK'
BY DispatcherTypes, DriversTypes, MonitorTypes, BooksTypes DEF TypeOK

\* Every variable keeps its type, and threads that act for a task have one
\* (coordinator.py, task_dispatcher.py).
THEOREM Types == Spec => []TypeOK
BY InitTypes, NextTypes, PTL DEF Spec

-------------------------------------------------------------------------------
(* A task is where its state says.                                         *)

LEMMA ContainersStep ==
  ASSUME TypeOK, Containers, [Next]_vars PROVE Containers'
<1> USE DEF Containers
<1>0. state \in [Tasks -> States \cup {None}] /\ inProgress \subseteq Tasks
  BY DEF TypeOK, DispatcherOK
<1>1. CASE UNCHANGED dispatcherVars
  BY <1>1 DEF dispatcherVars, taskVars
<1>2. ASSUME NEW d \in Drivers, NEW t \in Tasks, DispatchIssue(d, t)  PROVE Containers'
  BY <1>0, <1>2, NoneAssumption DEF DispatchIssue
<1>3. ASSUME NEW d \in Drivers, Dequeue(d)  PROVE Containers'
  BY <1>3 DEF Dequeue, taskVars
<1>4. ASSUME NEW d \in Drivers, Assign(d)  PROVE Containers'
  BY <1>0, <1>4 DEF Assign
<1>5. ASSUME NEW d \in Drivers, Start(d)  PROVE Containers'
  BY <1>0, <1>5 DEF Start, Starts
<1>6. ASSUME NEW d \in Drivers, Complete(d)  PROVE Containers'
  BY <1>0, <1>6 DEF Complete
<1>7. ASSUME NEW F \in SUBSET Tasks, DispatcherFail(F)  PROVE Containers'
  BY <1>0, <1>7 DEF DispatcherFail, FailTasks
<1>8. ASSUME NEW t \in Tasks, Cancel(t)  PROVE Containers'
  BY <1>0, <1>8 DEF Cancel
<1>9. ASSUME NEW t \in Tasks, Overrun(t)  PROVE Containers'
  BY <1>9 DEF Overrun
<1> QED  BY <1>1, <1>2, <1>3, <1>4, <1>5, <1>6, <1>7, <1>8, <1>9, DispatcherStep
         DEF DispatcherMoves

\* A task is in _in_progress, _completed or the dead-letter queue when its state says
\* so (task_dispatcher.py:130-287).
THEOREM TasksAreInTheirContainers == Spec => []Containers
<1>1. Init => Containers  BY NoneAssumption DEF Init, Containers
<1> QED  BY <1>1, Types, ContainersStep, PTL DEF Spec

-------------------------------------------------------------------------------
(* No task is lost.                                                        *)

\* A driver keeps a queued task in hand until it is in the queue or taken, or refused.
LEMMA HoldsStep ==
  ASSUME TypeOK, [Next]_vars, NEW d \in Drivers, NEW t \in Tasks, Holds(d, t)
  PROVE  Holds(d, t)' \/ state'[t] # "QUEUED" \/ t \in handedBack'
<1>0. /\ pc \in [Drivers -> Labels] /\ task \in [Drivers -> Tasks \cup {None}]
      /\ state \in [Tasks -> States \cup {None}]
  BY DEF TypeOK, DriversOK, DispatcherOK
<1>1. CASE UNCHANGED driverVars  BY <1>1 DEF driverVars, Holds
<1>2. ASSUME NEW e \in Drivers, e # d, Quiet(e) \/ Moves(e)  PROVE Holds(d, t)'
  <2>1. \A l, x : Goto(e, l) \/ Take(e, x, l) \/ Leave(e) => Holds(d, t)'
    BY <1>0, <1>2 DEF Goto, Take, Leave, Holds
  <2>2. \A a \in Agents : CheckAgent(e, a) => Holds(d, t)'
    BY <1>0, <1>2 DEF CheckAgent, Holds
  <2>5. \A a : Refuse(e, a) => Holds(d, t)'
    BY <1>0, <1>2 DEF Refuse, Holds
  <2>3. CASE Quiet(e)
    BY <2>1, <2>2, <2>3, <2>5 DEF Quiet, CreateRecord, StoreCallback, RecordAssigned, RecordStarted,
       RecordComplete, RecordFailed, Record, Busy, Free, Release, Report, CallBack, CallsBack,
       Again
  <2>4. CASE Moves(e)
    BY <2>1, <2>4 DEF Moves, DispatchIssue, Dequeue, Assign, Start, Starts, Complete,
       Fail
  <2> QED  BY <1>2, <2>3, <2>4
<1>3. CASE Quiet(d) \/ Moves(d)
  <2> USE DEF Holds
  <2>1. ~Moves(d) \/ Assign(d)
    BY DEF Moves, DispatchIssue, Dequeue, Start, Starts, Complete, Fail
  <2>2. CASE Assign(d)  BY <1>0, <2>2 DEF Assign
  <2>3. CASE CreateRecord(d)  BY <1>0, <2>3 DEF CreateRecord, Goto
  <2>4. CASE StoreCallback(d)  BY <1>0, <2>4 DEF StoreCallback, Goto
  <2>5. ASSUME NEW a \in Agents, CheckAgent(d, a)  PROVE Holds(d, t)'
    BY <1>0, <2>5 DEF CheckAgent
  <2>7. ASSUME NEW a \in Agents \cup {None}, Refuse(d, a)  PROVE t \in handedBack'
    BY <1>0, <2>7 DEF Refuse
  <2>6. \/ ~Quiet(d) \/ CreateRecord(d) \/ StoreCallback(d)
        \/ (\E a \in Agents : CheckAgent(d, a))
        \/ (\E a \in Agents \cup {None} : Refuse(d, a))
    BY DEF Quiet, RecordAssigned, RecordStarted, RecordComplete, RecordFailed, Record, Busy,
       Free, Release, Report, CallBack, CallsBack, Again
  <2> QED  BY <1>3, <2>1, <2>2, <2>3, <2>4, <2>5, <2>6, <2>7
<1>4. CASE MonitorQuiet \/ CheckTimeouts \/ MonitorFail
  BY <1>1, <1>4, MonitorQuietUnchanged DEF CheckTimeouts, MonitorFail, Monitor
<1>5. ASSUME NEW x \in Tasks, Cancel(x) \/ Overrun(x)  PROVE UNCHANGED driverVars
  BY <1>5 DEF Cancel, Overrun
<1>6. ASSUME NEW a \in Agents, Veto(a) \/ Clear(a)  PROVE UNCHANGED driverVars
  BY <1>6 DEF Veto, Clear
<1>7. CASE UNCHANGED vars  BY <1>1, <1>7 DEF vars
<1> QED  BY <1>1, <1>2, <1>3, <1>4, <1>5, <1>6, <1>7, NextCases

\* A refused task stays so until a driver takes it up again.
LEMMA HandedBackStep ==
  ASSUME TypeOK, [Next]_vars, NEW t \in Tasks, t \in handedBack
  PROVE  t \in handedBack' \/ \E d \in Drivers : Holds(d, t)'
<1>0. /\ pc \in [Drivers -> Labels] /\ task \in [Drivers -> Tasks \cup {None}]
      /\ queue \in Seq(Tasks)
  BY DEF TypeOK, DriversOK, DispatcherOK
<1>1. CASE UNCHANGED driverVars  BY <1>1 DEF driverVars
<1>2. ASSUME NEW d \in Drivers, NEW x, NEW l \in {"create", "ready"}, Take(d, x, l)
      PROVE  t \in handedBack' \/ Holds(d, t)'
  BY <1>0, <1>2 DEF Take, Holds
<1>3. ASSUME NEW d \in Drivers, NEW l, Goto(d, l) \/ Leave(d)  PROVE t \in handedBack'
  <2>1. t # None  BY NoneAssumption
  <2> QED  BY <1>3, <2>1 DEF Goto, Leave, Take
<1>4. ASSUME NEW d \in Drivers, Quiet(d) \/ Moves(d)
      PROVE  t \in handedBack' \/ Holds(d, t)'
  <2>1. \A x : DispatchIssue(d, x) \/ Again(d, x) => t \in handedBack' \/ Holds(d, t)'
    BY <1>2 DEF DispatchIssue, Again
  <2>2. Dequeue(d) => t \in handedBack' \/ Holds(d, t)'
    BY <1>2 DEF Dequeue
  <2>3. \A a : CheckAgent(d, a) \/ Refuse(d, a) => t \in handedBack'
    BY DEF CheckAgent, Refuse
  <2>4. CreateRecord(d) \/ StoreCallback(d) \/ RecordAssigned(d) \/ RecordStarted(d)
        \/ Busy(d) \/ RecordComplete(d) \/ Free(d) \/ CallBack(d) \/ RecordFailed(d)
        \/ Release(d) => t \in handedBack'
    BY <1>3 DEF CreateRecord, StoreCallback, RecordAssigned, RecordStarted,
       RecordComplete, RecordFailed, Record, Busy, Free, Release, Report, CallBack, CallsBack
  <2>5. Assign(d) \/ Start(d) \/ Complete(d) \/ Fail(d) => t \in handedBack'
    BY <1>3 DEF Assign, Start, Starts, Complete, Fail
  <2> QED  BY <1>4, <2>1, <2>2, <2>3, <2>4, <2>5 DEF Quiet, Moves
<1>5. CASE MonitorQuiet \/ CheckTimeouts \/ MonitorFail
  BY <1>1, <1>5, MonitorQuietUnchanged DEF CheckTimeouts, MonitorFail, Monitor
<1>6. ASSUME NEW x \in Tasks, Cancel(x) \/ Overrun(x)  PROVE t \in handedBack'
  BY <1>1, <1>6 DEF Cancel, Overrun, driverVars
<1>7. ASSUME NEW a \in Agents, Veto(a) \/ Clear(a)  PROVE t \in handedBack'
  BY <1>1, <1>7 DEF Veto, Clear, driverVars
<1>8. CASE UNCHANGED vars  BY <1>1, <1>8 DEF vars
<1> QED  BY <1>4, <1>5, <1>6, <1>7, <1>8, NextCases

\* What becomes of the queue: a task that is queued after a step was put into it, or
\* taken out by a driver, or is where it was.
Kept(t) ==
  \/ Contains(queue', t)
  \/ \E d \in Drivers : Holds(d, t)'
  \/ state[t] = "QUEUED" /\ (Contains(queue, t) => Contains(queue', t))

LEMMA QueueStep ==
  ASSUME TypeOK, [Next]_vars, NEW t \in Tasks, state'[t] = "QUEUED"
  PROVE  Kept(t)
<1> USE DEF Kept
<1>0. /\ state \in [Tasks -> States \cup {None}] /\ queue \in Seq(Tasks) /\ DispatcherOK
      /\ pc \in [Drivers -> Labels] /\ task \in [Drivers -> Tasks \cup {None}]
  BY DEF TypeOK, DispatcherOK, DriversOK
<1>1. CASE UNCHANGED <<state, queue>>  BY <1>1
<1>2. ASSUME NEW d \in Drivers, NEW x \in Tasks, DispatchIssue(d, x)  PROVE Kept(t)
  <2>1. /\ Contains(queue', x) /\ (Contains(queue, t) => Contains(queue', t))
        /\ t # x => state'[t] = state[t]
    BY <1>0, <1>2, AppendHolds DEF DispatchIssue
  <2> QED  BY <2>1
<1>3. ASSUME NEW d \in Drivers, Dequeue(d)  PROVE Kept(t)
  <2>1. PICK i \in DOMAIN queue : queue' = RemoveAt(queue, i) /\ Take(d, queue[i], "ready")
    BY <1>3 DEF Dequeue
  <2>2. i \in 1..Len(queue)  BY <1>0, <2>1
  <2>3. state' = state  BY <1>3 DEF Dequeue, taskVars
  <2>4. CASE t = queue[i]
    <3>1. Holds(d, t)'  BY <1>0, <2>1, <2>4 DEF Take, Holds
    <3> QED  BY <3>1
  <2>5. CASE t # queue[i]
    <3>1. Contains(queue, t) => Contains(queue', t)
      BY <1>0, <2>1, <2>2, <2>5, RemoveAtKeeps
    <3> QED  BY <2>3, <3>1
  <2> QED  BY <2>4, <2>5
<1>4. ASSUME NEW d \in Drivers, Assign(d) \/ Start(d) \/ Complete(d)  PROVE Kept(t)
  <2>1. queue' = queue  BY <1>4 DEF Assign, Start, Starts, Complete
  <2>2. state[t] = "QUEUED"
    BY <1>0, <1>4 DEF Assign, Start, Starts, Complete
  <2> QED  BY <2>1, <2>2
<1>5. ASSUME NEW F \in SUBSET Tasks, DispatcherFail(F)  PROVE Kept(t)
  <2>1. (t \in F /\ Retried(t)) \/ state[t] = "QUEUED"
    BY <1>5 DEF DispatcherFail, FailTasks
  <2> QED  BY <1>0, <1>5, <2>1, FailQueue
<1>6. ASSUME NEW x \in Tasks, Cancel(x)  PROVE Kept(t)
  <2>1. t # x /\ state[t] = "QUEUED"  BY <1>0, <1>6 DEF Cancel
  <2>2. CASE queue' = queue  BY <2>1, <2>2
  <2>3. CASE \E i \in DOMAIN queue : queue[i] = x /\ queue' = RemoveAt(queue, i)
    <3>1. PICK i \in DOMAIN queue : queue[i] = x /\ queue' = RemoveAt(queue, i)  BY <2>3
    <3>2. i \in 1..Len(queue)  BY <1>0
    <3>3. Contains(queue, t) => Contains(queue', t)
      BY <1>0, <2>1, <3>1, <3>2, RemoveAtKeeps
    <3> QED  BY <2>1, <3>3
  <2> QED  BY <1>6, <2>2, <2>3 DEF Cancel
<1>7. ASSUME NEW x \in Tasks, Overrun(x)  PROVE Kept(t)
  BY <1>1, <1>7 DEF Overrun
<1>8. CASE UNCHANGED dispatcherVars  BY <1>1, <1>8 DEF dispatcherVars, taskVars
<1> QED  BY <1>2, <1>3, <1>4, <1>5, <1>6, <1>7, <1>8, DispatcherStep DEF DispatcherMoves

LEMMA NoTaskLostStep ==
  ASSUME TypeOK, NoTaskLost, [Next]_vars PROVE NoTaskLost'
<1> DEFINE Safe(t) == \/ Contains(queue', t) \/ (\E d \in Drivers : Holds(d, t)')
                      \/ t \in handedBack'
<1> SUFFICES ASSUME NEW t \in Tasks, state'[t] = "QUEUED"
             PROVE  Safe(t)
  BY DEF NoTaskLost, InReach
<1>1. Kept(t)  BY QueueStep
<1>2. CASE state[t] = "QUEUED" /\ (Contains(queue, t) => Contains(queue', t))
  <2>1. Contains(queue, t) \/ (\E d \in Drivers : Holds(d, t)) \/ t \in handedBack
    BY <1>2 DEF NoTaskLost, InReach
  <2>2. ASSUME NEW d \in Drivers, Holds(d, t)  PROVE Safe(t)  BY <2>2, HoldsStep
  <2>3. CASE t \in handedBack  BY <2>3, HandedBackStep
  <2> QED  BY <1>2, <2>1, <2>2, <2>3
<1> QED  BY <1>1, <1>2 DEF Kept

\* A queued task is in its queue or in the hands of a driver, however many drivers
\* dequeue its copies and however often it is failed or cancelled meanwhile, unless
\* dispatch_to_agent refused it to the driver that took it last
\* (task_dispatcher.py:156-269, coordinator.py:134-145).
THEOREM TasksAreNeverLost == Spec => []NoTaskLost
<1>1. Init => NoTaskLost  BY NoneAssumption DEF Init, NoTaskLost
<1> QED  BY <1>1, Types, NoTaskLostStep, PTL DEF Spec

-------------------------------------------------------------------------------
(* A callback is called once.                                              *)

\* A driver is dispatching the issue of task t and has not stored its callback.
Announces(d, t) == task[d] = t /\ pc[d] \in {"create", "callback"}

\* The callback of t is not stored and was not called.
Fresh(t) == t \notin callbacks /\ called[t] = 0

\* Before a callback is stored it was not called, and one driver at most will store it;
\* once stored, it is taken out by the call.
Once ==
  \A t \in Tasks :
    /\ called[t] <= 1
    /\ t \in callbacks => called[t] = 0
    /\ state[t] = None => Fresh(t) /\ \A d \in Drivers : ~Announces(d, t)
    /\ \A d \in Drivers : Announces(d, t) =>
         Fresh(t) /\ \A e \in Drivers \ {d} : ~Announces(e, t)

\* A created task stays created.
LEMMA CreatedStays ==
  ASSUME TypeOK, [Next]_vars, NEW t \in Tasks, state'[t] = None
  PROVE  state[t] = None
<1>0. state \in [Tasks -> States \cup {None}]  BY DEF TypeOK, DispatcherOK
<1>1. \A l \in States : l # None  BY NoneAssumption DEF States
<1>2. ASSUME NEW d \in Drivers, NEW x \in Tasks, DispatchIssue(d, x)  PROVE state[t] = None
  BY <1>0, <1>2, NoneAssumption DEF DispatchIssue
<1>3. ASSUME NEW d \in Drivers, Dequeue(d)  PROVE state[t] = None
  BY <1>3 DEF Dequeue, taskVars
<1>4. ASSUME NEW d \in Drivers, Assign(d) \/ Start(d) \/ Complete(d)  PROVE state[t] = None
  BY <1>0, <1>4, NoneAssumption DEF Assign, Start, Starts, Complete
<1>5. ASSUME NEW F \in SUBSET Tasks, DispatcherFail(F)  PROVE state[t] = None
  BY <1>0, <1>5, NoneAssumption DEF DispatcherFail, FailTasks
<1>6. ASSUME NEW x \in Tasks, Cancel(x) \/ Overrun(x)  PROVE state[t] = None
  BY <1>0, <1>6, NoneAssumption DEF Cancel, Overrun
<1>7. CASE UNCHANGED dispatcherVars  BY <1>7 DEF dispatcherVars, taskVars
<1> QED  BY <1>2, <1>3, <1>4, <1>5, <1>6, <1>7, DispatcherStep DEF DispatcherMoves

\* A step that touches no callback and makes no driver announce a task keeps Once.
Silent ==
  /\ UNCHANGED <<callbacks, called>>
  /\ \A d \in Drivers, t \in Tasks : Announces(d, t)' => Announces(d, t)

LEMMA SilentKeeps ==
  ASSUME TypeOK, Once, [Next]_vars, Silent PROVE Once'
BY CreatedStays DEF Once, Silent, Fresh

LEMMA SilentSteps ==
  ASSUME TypeOK, NEW d \in Drivers,
         Dequeue(d) \/ Assign(d) \/ Start(d) \/ Complete(d) \/ Fail(d)
         \/ RecordAssigned(d) \/ RecordStarted(d) \/ RecordComplete(d) \/ RecordFailed(d)
         \/ Busy(d) \/ Free(d) \/ Release(d)
         \/ (\E t \in Tasks : Again(d, t)) \/ (\E a \in Agents : CheckAgent(d, a))
         \/ (\E a \in Agents \cup {None} : Refuse(d, a))
  PROVE  Silent
<1>0. pc \in [Drivers -> Labels] /\ task \in [Drivers -> Tasks \cup {None}]
  BY DEF TypeOK, DriversOK
<1> DEFINE Quietly == \A e \in Drivers, t \in Tasks : Announces(e, t)' => Announces(e, t)
<1>1. ASSUME NEW l \in Labels \ {"create", "callback"}, NEW x, Goto(d, l) \/ Take(d, x, l)
      PROVE  Quietly
  BY <1>0, <1>1 DEF Goto, Take, Announces
<1>2. Leave(d) => Quietly
  <2>1. "idle" \in Labels \ {"create", "callback"}  BY DEF Labels
  <2> QED  BY <1>1, <2>1 DEF Leave
<1> HIDE DEF Quietly
<1>3. Dequeue(d) => Quietly
  <2>1. "ready" \in Labels \ {"create", "callback"}  BY DEF Labels
  <2> QED  BY <1>1, <2>1 DEF Dequeue
<1>4. Assign(d) \/ Start(d) \/ Complete(d) \/ Fail(d) => Quietly
  <2>1. {"recordAssigned", "recordStarted", "recordComplete", "recordQueued", "recordFailed"}
        \subseteq Labels \ {"create", "callback"}  BY DEF Labels
  <2> QED  BY <1>1, <1>2, <2>1 DEF Assign, Start, Starts, Complete, Fail
<1>5. RecordAssigned(d) \/ RecordStarted(d) \/ RecordComplete(d) \/ RecordFailed(d) => Quietly
  <2>1. {"start", "busy", "free", "release"} \subseteq Labels \ {"create", "callback"}
    BY DEF Labels
  <2> QED  BY <1>1, <2>1
           DEF RecordAssigned, RecordStarted, RecordComplete, RecordFailed, Record
<1>6. Busy(d) \/ Free(d) \/ Release(d) => Quietly
  <2>1. {"work", "call"} \subseteq Labels \ {"create", "callback"}  BY DEF Labels
  <2> QED  BY <1>1, <1>2, <2>1 DEF Busy, Free, Release
<1>7. ASSUME NEW t \in Tasks, Again(d, t)  PROVE Quietly
  <2>1. "ready" \in Labels \ {"create", "callback"}  BY DEF Labels
  <2> QED  BY <1>1, <1>7, <2>1 DEF Again
<1>8. ASSUME NEW a \in Agents, CheckAgent(d, a)  PROVE Quietly
  BY <1>0, <1>8 DEF CheckAgent, Announces, Quietly
<1>11. ASSUME NEW a, Refuse(d, a)  PROVE Quietly
  BY <1>0, <1>11 DEF Refuse, Announces, Quietly
<1>9. Quietly  BY <1>3, <1>4, <1>5, <1>6, <1>7, <1>8, <1>11
<1>10. UNCHANGED <<callbacks, called>>
  BY DEF Dequeue, Assign, Start, Starts, Complete, Fail, RecordAssigned,
     RecordStarted, RecordComplete, RecordFailed, Record, SetRecord, Busy, Free, Release,
     Report, Again, CheckAgent, Refuse, bookVars
<1> QED  BY <1>9, <1>10 DEF Silent, Quietly

LEMMA OnceStep ==
  ASSUME TypeOK, Once, [Next]_vars PROVE Once'
<1>0. /\ pc \in [Drivers -> Labels] /\ task \in [Drivers -> Tasks \cup {None}]
      /\ state \in [Tasks -> States \cup {None}]
      /\ callbacks \subseteq Tasks /\ called \in [Tasks -> Nat]
  BY DEF TypeOK, DriversOK, DispatcherOK, BooksOK
<1>1. CASE Silent  BY <1>1, SilentKeeps
<1>2. ASSUME NEW d \in Drivers, NEW t \in Tasks, DispatchIssue(d, t)  PROVE Once'
  <2>1. Fresh(t) /\ state'[t] # None /\ \A e \in Drivers : ~Announces(e, t)
    BY <1>0, <1>2, NoneAssumption DEF DispatchIssue, Once
  <2>2. UNCHANGED <<callbacks, called>>  BY <1>2 DEF DispatchIssue, bookVars
  <2>3. \A e \in Drivers \ {d}, x \in Tasks : Announces(e, x)' <=> Announces(e, x)
    BY <1>0, <1>2 DEF DispatchIssue, Take, Announces
  <2>4. \A x \in Tasks \ {t} : ~Announces(d, x)'
    BY <1>0, <1>2 DEF DispatchIssue, Take, Announces
  <2>5. \A x \in Tasks : state'[x] = None => state[x] = None  BY CreatedStays
  <2> QED  BY <2>1, <2>2, <2>3, <2>4, <2>5 DEF Once, Fresh
<1>3. ASSUME NEW d \in Drivers, CreateRecord(d)  PROVE Silent
  BY <1>0, <1>3 DEF CreateRecord, Goto, Announces, Silent
<1>4. ASSUME NEW d \in Drivers, StoreCallback(d)  PROVE Once'
  <2>1. task[d] \in Tasks  BY <1>4, AtTask DEF StoreCallback
  <2>2. Announces(d, task[d])  BY <1>4 DEF StoreCallback, Announces
  <2>3. /\ Fresh(task[d]) /\ state[task[d]] # None
        /\ \A e \in Drivers \ {d} : ~Announces(e, task[d])
    BY <2>1, <2>2 DEF Once
  <2>4. callbacks' = callbacks \cup {task[d]} /\ called' = called /\ state' = state
    BY <1>4 DEF StoreCallback, dispatcherVars, taskVars
  <2>5. \A e \in Drivers, x \in Tasks : Announces(e, x)' => e # d /\ Announces(e, x)
    BY <1>0, <1>4 DEF StoreCallback, Goto, Announces
  <2> QED  BY <2>1, <2>3, <2>4, <2>5 DEF Once, Fresh
<1>5. ASSUME NEW d \in Drivers, CallBack(d)  PROVE Once'
  <2>1. task[d] \in Tasks  BY <1>5, AtTask DEF CallBack, CallsBack
  <2>2. \A e \in Drivers, x \in Tasks : Announces(e, x)' => Announces(e, x)
    BY <1>0, <1>5 DEF CallBack, CallsBack, Leave, Take, Announces
  <2>3. state' = state  BY <1>5 DEF CallBack, CallsBack, dispatcherVars, taskVars
  <2>4. callbacks' = callbacks \ {task[d]}  BY <1>5 DEF CallBack, CallsBack
  <2>5. CASE task[d] \notin callbacks
    <3>1. called' = called /\ callbacks' = callbacks
      BY <1>5, <2>4, <2>5 DEF CallBack, CallsBack
    <3> QED  BY <1>1, <2>2, <3>1 DEF Silent
  <2>6. CASE task[d] \in callbacks
    <3>1. called' = [called EXCEPT ![task[d]] = @ + 1]  BY <1>5, <2>6 DEF CallBack, CallsBack
    <3>2. called[task[d]] = 0 /\ ~Fresh(task[d])  BY <2>1, <2>6 DEF Once, Fresh
    <3>3. state[task[d]] # None /\ \A e \in Drivers : ~Announces(e, task[d])
      BY <2>1, <3>2 DEF Once
    <3>4. called'[task[d]] = 1  BY <1>0, <2>1, <3>1, <3>2
    <3>5. \A x \in Tasks \ {task[d]} :
            called'[x] = called[x] /\ (x \in callbacks' <=> x \in callbacks)
      BY <1>0, <2>4, <3>1
    <3> QED  BY <2>1, <2>2, <2>3, <2>4, <3>3, <3>4, <3>5 DEF Once, Fresh
  <2> QED  BY <2>5, <2>6
<1>6. ASSUME NEW d \in Drivers, Quiet(d) \/ Moves(d)  PROVE Once'
  BY <1>1, <1>2, <1>3, <1>4, <1>5, <1>6, SilentSteps DEF Quiet, Moves
<1>7. CASE UNCHANGED <<callbacks, called, driverVars>>
  BY <1>1, <1>7 DEF Silent, Announces, driverVars
<1>8. CASE MonitorQuiet \/ CheckTimeouts \/ MonitorFail
  <2>1. UNCHANGED driverVars
    BY <1>8, MonitorQuietUnchanged DEF CheckTimeouts, MonitorFail, Monitor
  <2>2. UNCHANGED <<callbacks, called>>
    BY <1>8 DEF MonitorQuiet, CheckTimeouts, MonitorFail, MonitorRecord, SetRecord,
       MonitorRelease, DeadAgents, Sleep, GetTask, BlockDead, bookVars
  <2> QED  BY <1>7, <2>1, <2>2
<1>9. ASSUME NEW t \in Tasks, Cancel(t) \/ Overrun(t)  PROVE Once'
  BY <1>7, <1>9 DEF Cancel, Overrun, bookVars
<1>10. ASSUME NEW a \in Agents, Veto(a) \/ Clear(a)  PROVE Once'
  BY <1>7, <1>10 DEF Veto, Clear, bookVars
<1>11. CASE UNCHANGED vars  BY <1>7, <1>11 DEF vars, bookVars
<1> QED  BY <1>6, <1>8, <1>9, <1>10, <1>11, NextCases

\* The callback of a task is called at most once, also when the monitor requeues a task
\* that is complete and it is completed again (coordinator.py:115-208).
THEOREM CallbacksAreCalledOnce == Spec => []CallbackOnce
<1>1. Init => Once  BY NoneAssumption DEF Init, Once, Fresh, Announces
<1>2. Once => CallbackOnce  BY DEF Once, CallbackOnce
<1> QED  BY <1>1, <1>2, Types, OnceStep, PTL DEF Spec

===============================================================================
