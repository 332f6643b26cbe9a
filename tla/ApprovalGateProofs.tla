--------------------------- MODULE ApprovalGateProofs ---------------------------
(***************************************************************************)
(* Proofs about Themis' approval chains: their types, that only approved   *)
(* tasks are cleared, and that the audit trail tells a chain's state, for  *)
(* any tasks, risk levels and length of the trail.                         *)
(***************************************************************************)
EXTENDS ApprovalGate, TLAPS

Typed(c) ==
  \E gates \in SUBSET GateNames : c \in Chains(gates) /\ GatesOf(c.level) \subseteq gates

\* The strengthening of ClearedIsApproved: no operation leaves a chain APPROVED that
\* has a gate which is not, or a violation.
ApprovedIsClear(c) == c.status = "APPROVED" => CanProceed(c)

\* The strengthening of TrailReplays: no entry is about a gate the chain does not
\* have, so that a gate added by an escalation starts without any.
EntriesKnown(c) ==
  \A i \in DOMAIN c.history : c.history[i].gate \in DOMAIN c.gates \cup {None}

Good(c) == Typed(c) /\ ApprovedIsClear(c) /\ Replays(c) /\ EntriesKnown(c)

IInv == DOMAIN chain = Tasks /\ \A t \in Tasks : chain[t] # None => Good(chain[t])

-------------------------------------------------------------------------------
(* What one more entry changes.                                            *)

LEMMA Appended ==
  ASSUME NEW h \in Seq(Entries), NEW e \in Entries
  PROVE  /\ Append(h, e) \in Seq(Entries)
         /\ DOMAIN Append(h, e) = 1..(Len(h) + 1) /\ DOMAIN h = 1..Len(h) /\ Len(h) \in Nat
         /\ \A i \in DOMAIN h : Append(h, e)[i] = h[i]
         /\ Append(h, e)[Len(h) + 1] = e
  OBVIOUS

LEMMA HappenedThen ==
  ASSUME NEW h \in Seq(Entries), NEW e \in Entries, NEW x
  PROVE  Happened(Append(h, e), x) <=> Happened(h, x) \/ e.event = x
  BY Appended DEF Happened

\* An entry about the status tells it.
LEMMA StatusTells ==
  ASSUME NEW h \in Seq(Entries), NEW e \in Entries, e.event \in DOMAIN StatusTold
  PROVE  StatusReplays(Append(h, e), StatusTold[e.event])
<1> DEFINE r == Append(h, e)
           n == Len(h) + 1
<1>1. n \in StatusEntries(r)  BY Appended DEF StatusEntries
<1>2. ASSUME NEW i \in DOMAIN r, IsLast(i, StatusEntries(r))  PROVE i = n
  BY <1>1, <1>2, Appended DEF IsLast
<1> QED  BY <1>1, <1>2, Appended DEF StatusReplays

\* Any other leaves it as it is.
LEMMA StatusSilent ==
  ASSUME NEW h \in Seq(Entries), NEW e \in Entries, e.event \notin DOMAIN StatusTold,
         NEW s, StatusReplays(h, s)
  PROVE  StatusReplays(Append(h, e), s)
<1>1. StatusEntries(Append(h, e)) = StatusEntries(h)  BY Appended DEF StatusEntries
<1>2. StatusEntries(h) \subseteq DOMAIN h  BY DEF StatusEntries
<1> QED  BY <1>1, <1>2, Appended DEF StatusReplays, IsLast

LEMMA GateTells ==
  ASSUME NEW h \in Seq(Entries), NEW e \in Entries, NEW g, e.gate = g
  PROVE  GateReplays(Append(h, e), g, GateTold[e.event])
<1> DEFINE r == Append(h, e)
           n == Len(h) + 1
<1>1. n \in GateEntries(r, g)  BY Appended DEF GateEntries
<1>2. ASSUME NEW i \in DOMAIN r, IsLast(i, GateEntries(r, g))  PROVE i = n
  BY <1>1, <1>2, Appended DEF IsLast
<1> QED  BY <1>1, <1>2, Appended DEF GateReplays

LEMMA GateSilent ==
  ASSUME NEW h \in Seq(Entries), NEW e \in Entries, NEW g, e.gate # g,
         NEW d, GateReplays(h, g, d)
  PROVE  GateReplays(Append(h, e), g, d)
<1>1. GateEntries(Append(h, e), g) = GateEntries(h, g)  BY Appended DEF GateEntries
<1>2. GateEntries(h, g) \subseteq DOMAIN h  BY DEF GateEntries
<1> QED  BY <1>1, <1>2, Appended DEF GateReplays, IsLast

-------------------------------------------------------------------------------
(* Each operation makes a good chain of a good one.                        *)

LEMMA NewGood ==
  ASSUME NEW level \in RiskLevels
  PROVE  Good(NewChain(level))
<1> DEFINE c == NewChain(level)
<1>1. GatesOf(level) \subseteq GateNames  BY DEF GatesOf, GateNames
<1>2. <<>> \in Seq(Entries) /\ DOMAIN <<>> = {}  OBVIOUS
<1>3. c \in Chains(GatesOf(level)) /\ c.level = level  BY <1>2 DEF NewChain, Chains
<1>4. Typed(c)  BY <1>1, <1>3 DEF Typed
<1>5. ApprovedIsClear(c)  BY DEF ApprovedIsClear, NewChain
<1>6. Replays(c)
  BY <1>2 DEF NewChain, Replays, StatusReplays, GateReplays, StatusEntries, GateEntries,
              IsLast, Happened, BoardAsked
<1>7. EntriesKnown(c)  BY <1>2 DEF EntriesKnown, NewChain
<1> QED  BY <1>4, <1>5, <1>6, <1>7 DEF Good

\* A gate g is decided: the gate and, by a rejection, the status change as the entry says.
LEMMA DecidedGood ==
  ASSUME NEW c, Good(c), NEW g \in DOMAIN c.gates, NEW ev \in DOMAIN GateTold,
         NEW d, NEW gates \in SUBSET GateNames, c \in Chains(gates), d \in Chains(gates),
         d.level = c.level, d.violated = c.violated,
         d.status = IF ev = "gate_rejected" THEN "REJECTED" ELSE c.status,
         d.gates = [c.gates EXCEPT ![g] = GateTold[ev]],
         d.history = Append(c.history, [event |-> ev, gate |-> g])
  PROVE  Good(d)
<1> DEFINE e == [event |-> ev, gate |-> g]
<1>1. /\ c.history \in Seq(Entries) /\ DOMAIN c.gates = gates /\ DOMAIN d.gates = gates
      /\ g \in GateNames
  BY DEF Chains
<1>2. e \in Entries  BY <1>1 DEF Entries, Events, GateTold
<1>3. d.history = Append(c.history, e)  OBVIOUS
<1>4. e.event = ev /\ e.gate = g  OBVIOUS
<1> HIDE DEF e
<1>5. GatesOf(c.level) \subseteq gates  BY <1>1 DEF Good, Replays
<1>6. Typed(d)  BY <1>5 DEF Typed
<1>7. ApprovedIsClear(d)
  BY <1>1 DEF Good, ApprovedIsClear, CanProceed, GateTold
<1>8. Replays(d)
  <2>1. StatusReplays(d.history, d.status)
    <3>1. CASE ev = "gate_rejected"
      BY <1>1, <1>2, <1>3, <1>4, <3>1, StatusTells DEF StatusTold
    <3>2. CASE ev # "gate_rejected"
      BY <1>1, <1>2, <1>3, <1>4, <3>2, StatusSilent DEF Good, Replays, StatusTold, GateTold
    <3> QED  BY <3>1, <3>2
  <2>2. ASSUME NEW x \in DOMAIN d.gates  PROVE GateReplays(d.history, x, d.gates[x])
    <3>1. CASE x = g
      BY <1>1, <1>2, <1>3, <1>4, <3>1, GateTells
    <3>2. CASE x # g
      <4>1. d.gates[x] = c.gates[x] /\ x \in DOMAIN c.gates  BY <1>1, <2>2, <3>2
      <4>2. GateReplays(c.history, x, c.gates[x])  BY <4>1 DEF Good, Replays
      <4> QED  BY <1>1, <1>2, <1>3, <1>4, <3>2, <4>1, <4>2, GateSilent
    <3> QED  BY <3>1, <3>2
  <2>3. ev # "no_go_violation" /\ ev # "escalated"  BY DEF GateTold
  <2>4. \A x : ev # x => (Happened(d.history, x) <=> Happened(c.history, x))
    BY <1>1, <1>2, <1>3, <1>4, HappenedThen
  <2>5. d.violated <=> Happened(d.history, "no_go_violation")
    BY <2>3, <2>4 DEF Good, Replays
  <2>6. DOMAIN d.gates = GatesOf(d.level) \cup BoardAsked(d.history)
    BY <1>1, <2>3, <2>4 DEF Good, Replays, BoardAsked
  <2> QED  BY <2>1, <2>2, <2>5, <2>6 DEF Replays
<1>9. EntriesKnown(d)
  BY <1>1, <1>2, <1>3, <1>4, Appended DEF Good, EntriesKnown
<1> QED  BY <1>6, <1>7, <1>8, <1>9 DEF Good

\* The chain as a whole is decided: an entry about no gate tells the status, and
\* an escalation may add the board's gate.
LEMMA NotedGood ==
  ASSUME NEW c, Good(c), NEW ev \in {"workflow_approved", "no_go_violation", "escalated"},
         NEW d, NEW gates \in SUBSET GateNames, d \in Chains(gates),
         c.history \in Seq(Entries), d.level = c.level,
         d.violated = (c.violated \/ ev = "no_go_violation"),
         d.status = StatusTold[ev],
         gates = DOMAIN c.gates \cup (IF ev = "escalated" THEN {"EmergencyBoard"} ELSE {}),
         \A g \in DOMAIN c.gates : d.gates[g] = c.gates[g],
         \A g \in gates \ DOMAIN c.gates : d.gates[g] = "pending",
         d.history = Append(c.history, [event |-> ev, gate |-> None]),
         ApprovedIsClear(d)
  PROVE  Good(d)
<1> DEFINE e == [event |-> ev, gate |-> None]
<1>1. DOMAIN d.gates = gates  BY DEF Chains
<1>2. e \in Entries  BY DEF Entries, Events
<1>3. d.history = Append(c.history, e)  OBVIOUS
<1>4. e.event = ev /\ e.gate = None  OBVIOUS
<1> HIDE DEF e
<1>5. Typed(d)
  <2>1. GatesOf(c.level) \subseteq gates  BY DEF Good, Replays
  <2> QED  BY <2>1 DEF Typed
<1>6. Replays(d)
  <2>1. StatusReplays(d.history, d.status)
    BY <1>2, <1>3, <1>4, StatusTells DEF StatusTold
  <2>2. ASSUME NEW x \in DOMAIN d.gates  PROVE GateReplays(d.history, x, d.gates[x])
    <3>1. GateReplays(c.history, x, d.gates[x])
      <4>1. CASE x \in DOMAIN c.gates  BY <4>1 DEF Good, Replays
      <4>2. CASE x \notin DOMAIN c.gates
        <5>1. x # None /\ d.gates[x] = "pending"  BY <1>1, <2>2, <4>2, NoneAssumption
        <5>2. GateEntries(c.history, x) = {}
          BY <4>2, <5>1 DEF Good, EntriesKnown, GateEntries
        <5> QED  BY <5>1, <5>2 DEF GateReplays, IsLast
      <4> QED  BY <4>1, <4>2
    <3>2. x # None  BY <1>1, <2>2, NoneAssumption
    <3> QED  BY <1>2, <1>3, <1>4, <3>1, <3>2, GateSilent
  <2>3. \A x : Happened(d.history, x) <=> Happened(c.history, x) \/ ev = x
    BY <1>2, <1>3, <1>4, HappenedThen
  <2>4. d.violated <=> Happened(d.history, "no_go_violation")
    BY <2>3 DEF Good, Replays
  <2>5. DOMAIN d.gates = GatesOf(d.level) \cup BoardAsked(d.history)
    BY <1>1, <2>3 DEF Good, Replays, BoardAsked
  <2> QED  BY <2>1, <2>2, <2>4, <2>5 DEF Replays
<1>7. EntriesKnown(d)
  BY <1>1, <1>2, <1>3, <1>4, Appended DEF Good, EntriesKnown
<1> QED  BY <1>5, <1>6, <1>7 DEF Good

-------------------------------------------------------------------------------
(* The operations.                                                         *)

LEMMA Fields ==
  ASSUME NEW c, Good(c)
  PROVE  \E gates \in SUBSET GateNames :
           /\ c \in Chains(gates) /\ DOMAIN c.gates = gates
           /\ GatesOf(c.level) \subseteq gates /\ c.history \in Seq(Entries)
<1>1. PICK gates \in SUBSET GateNames : c \in Chains(gates) /\ GatesOf(c.level) \subseteq gates
  BY DEF Good, Typed
<1> QED  BY <1>1 DEF Chains

LEMMA AutomatedPassedGood ==
  ASSUME NEW c, Good(c)
  PROVE  Good(AutomatedPassed(c))
<1> DEFINE e == [event |-> "automated_pass", gate |-> "Automated"]
           d == AutomatedPassed(c)
<1>1. PICK gates \in SUBSET GateNames :
        /\ c \in Chains(gates) /\ DOMAIN c.gates = gates
        /\ GatesOf(c.level) \subseteq gates /\ c.history \in Seq(Entries)
  BY Fields
<1>2. "Automated" \in DOMAIN c.gates  BY <1>1 DEF GatesOf
<1>3. Append(c.history, e) \in Seq(Entries)  BY <1>1, Appended DEF Entries, Events, GateNames
<1>4. /\ d \in Chains(gates) /\ d.level = c.level /\ d.status = c.status
      /\ d.violated = c.violated /\ d.history = Append(c.history, e)
      /\ d.gates = [c.gates EXCEPT !["Automated"] = "approved"]
  BY <1>1, <1>3 DEF AutomatedPassed, Logged, Chains
<1>5. "automated_pass" \in DOMAIN GateTold /\ GateTold["automated_pass"] = "approved"
  BY DEF GateTold
<1> HIDE DEF d
<1>6. Good(d)  BY <1>1, <1>2, <1>4, <1>5, DecidedGood
<1> QED  BY <1>6 DEF d

LEMMA CompletedGood ==
  ASSUME NEW c, Good(c)
  PROVE  Good(Completed(c))
<1>1. SUFFICES ASSUME CanProceed(c)  PROVE Good(Completed(c))
  BY DEF Completed
<1> DEFINE e == [event |-> "workflow_approved", gate |-> None]
           d == Completed(c)
<1>2. PICK gates \in SUBSET GateNames :
        /\ c \in Chains(gates) /\ DOMAIN c.gates = gates
        /\ GatesOf(c.level) \subseteq gates /\ c.history \in Seq(Entries)
  BY Fields
<1>3. Append(c.history, e) \in Seq(Entries)  BY <1>2, Appended DEF Entries, Events
<1>4. /\ d \in Chains(gates) /\ d.level = c.level /\ d.status = "APPROVED"
      /\ d.violated = c.violated /\ d.history = Append(c.history, e) /\ d.gates = c.gates
  BY <1>1, <1>2, <1>3 DEF Completed, Logged, Chains
<1>5. d.status = StatusTold["workflow_approved"]  BY <1>4 DEF StatusTold
<1>6. d.violated = (c.violated \/ "workflow_approved" = "no_go_violation")
  BY <1>2, <1>4 DEF Chains
<1> HIDE DEF d
<1>7. ApprovedIsClear(d)  BY <1>1, <1>4 DEF ApprovedIsClear, CanProceed
<1>8. Good(d)  BY <1>2, <1>4, <1>5, <1>6, <1>7, NotedGood
<1> QED  BY <1>8 DEF d

LEMMA GateApprovedGood ==
  ASSUME NEW c, Good(c), NEW g \in DOMAIN c.gates
  PROVE  Good(GateApproved(c, g))
<1> DEFINE e == [event |-> "gate_approved", gate |-> g]
           d == Logged([c EXCEPT !.gates[g] = "approved"], "gate_approved", g)
<1>1. PICK gates \in SUBSET GateNames :
        /\ c \in Chains(gates) /\ DOMAIN c.gates = gates
        /\ GatesOf(c.level) \subseteq gates /\ c.history \in Seq(Entries)
  BY Fields
<1>2. Append(c.history, e) \in Seq(Entries)  BY <1>1, Appended DEF Entries, Events
<1>3. /\ d \in Chains(gates) /\ d.level = c.level /\ d.status = c.status
      /\ d.violated = c.violated /\ d.history = Append(c.history, e)
      /\ d.gates = [c.gates EXCEPT ![g] = "approved"]
  BY <1>1, <1>2 DEF Logged, Chains
<1>4. "gate_approved" \in DOMAIN GateTold /\ GateTold["gate_approved"] = "approved"
  BY DEF GateTold
<1> HIDE DEF d
<1>5. Good(d)  BY <1>1, <1>3, <1>4, DecidedGood
<1>6. Good(Completed(d))  BY <1>5, CompletedGood
<1> QED  BY <1>6 DEF GateApproved, d

LEMMA GateRejectedGood ==
  ASSUME NEW c, Good(c), NEW g \in DOMAIN c.gates
  PROVE  Good(GateRejected(c, g))
<1> DEFINE e == [event |-> "gate_rejected", gate |-> g]
           d == GateRejected(c, g)
<1>1. PICK gates \in SUBSET GateNames :
        /\ c \in Chains(gates) /\ DOMAIN c.gates = gates
        /\ GatesOf(c.level) \subseteq gates /\ c.history \in Seq(Entries)
  BY Fields
<1>2. Append(c.history, e) \in Seq(Entries)  BY <1>1, Appended DEF Entries, Events
<1>3. /\ d \in Chains(gates) /\ d.level = c.level /\ d.status = "REJECTED"
      /\ d.violated = c.violated /\ d.history = Append(c.history, e)
      /\ d.gates = [c.gates EXCEPT ![g] = "rejected"]
  BY <1>1, <1>2 DEF GateRejected, Logged, Chains
<1>4. "gate_rejected" \in DOMAIN GateTold /\ GateTold["gate_rejected"] = "rejected"
  BY DEF GateTold
<1> HIDE DEF d
<1>5. Good(d)  BY <1>1, <1>3, <1>4, DecidedGood
<1> QED  BY <1>5 DEF d

LEMMA ViolatedGood ==
  ASSUME NEW c, Good(c)
  PROVE  Good(Violated(c))
<1> DEFINE e == [event |-> "no_go_violation", gate |-> None]
           d == Violated(c)
<1>1. PICK gates \in SUBSET GateNames :
        /\ c \in Chains(gates) /\ DOMAIN c.gates = gates
        /\ GatesOf(c.level) \subseteq gates /\ c.history \in Seq(Entries)
  BY Fields
<1>2. Append(c.history, e) \in Seq(Entries)  BY <1>1, Appended DEF Entries, Events
<1>3. /\ d \in Chains(gates) /\ d.level = c.level /\ d.status = "BLOCKED"
      /\ d.violated = TRUE /\ d.history = Append(c.history, e) /\ d.gates = c.gates
  BY <1>1, <1>2 DEF Violated, Logged, Chains
<1>4. d.status = StatusTold["no_go_violation"]  BY <1>3 DEF StatusTold
<1>5. ApprovedIsClear(d)  BY <1>3 DEF ApprovedIsClear
<1> HIDE DEF d
<1>6. Good(d)  BY <1>1, <1>3, <1>4, <1>5, NotedGood
<1> QED  BY <1>6 DEF d

LEMMA EscalatedGood ==
  ASSUME NEW c, Good(c)
  PROVE  Good(Escalated(c))
<1> DEFINE e == [event |-> "escalated", gate |-> None]
           d == Escalated(c)
<1>1. PICK gates \in SUBSET GateNames :
        /\ c \in Chains(gates) /\ DOMAIN c.gates = gates
        /\ GatesOf(c.level) \subseteq gates /\ c.history \in Seq(Entries)
  BY Fields
<1> DEFINE more == gates \cup {"EmergencyBoard"}
<1>2. Append(c.history, e) \in Seq(Entries)  BY <1>1, Appended DEF Entries, Events
<1>3. more \in SUBSET GateNames  BY DEF GateNames
<1>4. /\ d \in Chains(more) /\ d.level = c.level /\ d.status = "ESCALATED"
      /\ d.violated = c.violated /\ d.history = Append(c.history, e)
      /\ d.gates = [g \in more |-> IF g \in gates THEN c.gates[g] ELSE "pending"]
  BY <1>1, <1>2 DEF Escalated, Logged, Chains
<1>5. d.status = StatusTold["escalated"]  BY <1>4 DEF StatusTold
<1>6. ApprovedIsClear(d)  BY <1>4 DEF ApprovedIsClear
<1>7. d.violated = (c.violated \/ "escalated" = "no_go_violation")
  BY <1>1, <1>4 DEF Chains
<1> HIDE DEF d
<1>8. Good(d)  BY <1>1, <1>3, <1>4, <1>5, <1>6, <1>7, NotedGood
<1> QED  BY <1>8 DEF d

-------------------------------------------------------------------------------

LEMMA Start == Init => IInv
  BY DEF Init, IInv

\* A chain that an operation leaves where it was is good, and so is the new one.
LEMMA Replaced ==
  ASSUME IInv, NEW t \in Tasks, NEW c, Good(c), chain' = [chain EXCEPT ![t] = c]
  PROVE  IInv'
<1>1. DOMAIN chain' = Tasks  BY DEF IInv
<1>2. ASSUME NEW x \in Tasks, chain'[x] # None  PROVE Good(chain'[x])
  <2>1. chain'[x] = c \/ chain'[x] = chain[x]  BY DEF IInv
  <2> QED  BY <1>2, <2>1 DEF IInv
<1> QED  BY <1>1, <1>2 DEF IInv

LEMMA Step == IInv /\ [Next]_chain => IInv'
<1> SUFFICES ASSUME IInv, [Next]_chain  PROVE IInv'
  OBVIOUS
<1>1. CASE UNCHANGED chain  BY <1>1 DEF IInv
<1>2. ASSUME NEW t \in Tasks, NEW c, chain[t] # None => Good(c), Change(t, c)  PROVE IInv'
  BY <1>2, Replaced DEF Change
<1>3. ASSUME NEW t \in Tasks, NEW level \in Levels, CreateChain(t, level)  PROVE IInv'
  BY <1>3, NewGood, Replaced, LevelsAssumption DEF CreateChain
<1>4. ASSUME NEW t \in Tasks, NEW g \in GateNames, ApproveGate(t, g)  PROVE IInv'
  BY <1>2, <1>4, GateApprovedGood DEF ApproveGate, IInv
<1>5. ASSUME NEW t \in Tasks, NEW g \in GateNames, RejectGate(t, g)  PROVE IInv'
  BY <1>2, <1>5, GateRejectedGood DEF RejectGate, IInv
<1>6. ASSUME NEW t \in Tasks, MarkAutomatedPass(t)  PROVE IInv'
  BY <1>2, <1>6, AutomatedPassedGood DEF MarkAutomatedPass, IInv
<1>7. ASSUME NEW t \in Tasks, AddNoGoViolation(t)  PROVE IInv'
  BY <1>2, <1>7, ViolatedGood DEF AddNoGoViolation, IInv
<1>8. ASSUME NEW t \in Tasks, Escalate(t)  PROVE IInv'
  BY <1>2, <1>8, EscalatedGood DEF Escalate, IInv
<1>9. ASSUME NEW t \in Tasks, BlockNogoOperation(t)  PROVE IInv'
  <2>1. Good(NewChain("critical"))  BY NewGood DEF RiskLevels
  <2>2. Good(Violated(NewChain("critical")))  BY <2>1, ViolatedGood
  <2> QED  BY <1>9, <2>2, Replaced DEF BlockNogoOperation
<1> QED  BY <1>1, <1>3, <1>4, <1>5, <1>6, <1>7, <1>8, <1>9 DEF Next

LEMMA Invariant == Spec => []IInv
  BY Start, Step, PTL DEF Spec

\* Chains keep their fields and the gates that their risk level asks for.
THEOREM Types == Spec => []TypeOK
<1>1. IInv => TypeOK  BY DEF IInv, Good, Typed, TypeOK
<1> QED  BY <1>1, Invariant, PTL

\* Whatever is done to a chain and in whatever order, can_execute clears a task
\* only when all its gates are approved and no violation was found.
THEOREM OnlyApprovedIsCleared == Spec => []ClearedIsApproved
<1>1. IInv => ClearedIsApproved
  BY DEF IInv, Good, ApprovedIsClear, ClearedIsApproved, CanExecute
<1> QED  BY <1>1, Invariant, PTL

\* The state of a chain can be read off its audit trail, however long that is.
THEOREM TrailAlwaysReplays == Spec => []TrailReplays
<1>1. IInv => TrailReplays  BY DEF IInv, Good, TrailReplays
<1> QED  BY <1>1, Invariant, PTL

===============================================================================
