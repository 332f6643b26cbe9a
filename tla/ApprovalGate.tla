------------------------------ MODULE ApprovalGate ------------------------------
(***************************************************************************)
(* python/ocrowley_policy/approval_gate.py: Themis keeps one approval      *)
(* chain per task.  A chain has the gates that its risk level asks for,    *)
(* approved or rejected in any order, a status, and an audit trail to      *)
(* which every operation adds what it did.  Whoever holds a chain may      *)
(* call any of its methods at any time; nothing runs concurrently.         *)
(*                                                                         *)
(* Who signs, when and why, and the markdown of a decision log are left    *)
(* out; a list of violations is abstracted to whether there is one.        *)
(***************************************************************************)
EXTENDS Naturals, Sequences

CONSTANTS Tasks,      \* task ids
          Levels,     \* the risk levels that chains are created with
          MaxEvents,  \* bound: a longer audit trail is not extended
          None        \* no chain, no gate

RiskLevels == {"green", "yellow", "orange", "red", "critical"}
GateNames  == {"Automated", "Aegis", "Iris", "Reviewer", "Human", "EmergencyBoard"}

ASSUME LevelsAssumption == Levels \subseteq RiskLevels
ASSUME EventsAssumption == MaxEvents \in Nat
ASSUME NoneAssumption   == None \notin GateNames

VARIABLE chain  \* task -> its chain, or None

\* _initialize_gates.
GatesOf(level) ==
  {"Automated", "Aegis", "Iris"}
    \cup (IF level = "green" THEN {} ELSE {"Reviewer"})
    \cup (IF level \in {"green", "yellow"} THEN {} ELSE {"Human"})
    \cup (IF level \in {"red", "critical"} THEN {"EmergencyBoard"} ELSE {})

\* A new ApprovalChain: PENDING, and so are its gates.
NewChain(level) ==
  [level |-> level, status |-> "PENDING", violated |-> FALSE,
   gates |-> [g \in GatesOf(level) |-> "pending"], history |-> <<>>]

\* _log_event.
Logged(c, event, gate) ==
  [c EXCEPT !.history = Append(@, [event |-> event, gate |-> gate])]

\* can_proceed.
CanProceed(c) == ~c.violated /\ \A g \in DOMAIN c.gates : c.gates[g] = "approved"

\* can_execute, which does not ask for rejected gates.
CanExecute(t) ==
  /\ chain[t] # None
  /\ ~chain[t].violated
  /\ \A g \in DOMAIN chain[t].gates : chain[t].gates[g] # "pending"
  /\ chain[t].status = "APPROVED"

Init == chain = [t \in Tasks |-> None]

-------------------------------------------------------------------------------
(* What each operation makes of a chain c.                                 *)

AutomatedPassed(c) ==
  Logged([c EXCEPT !.gates["Automated"] = "approved"], "automated_pass", "Automated")

\* Mutant: the chain is approved once no gate is pending, as can_execute asks.
CompletedOnceDecided(c) ==
  IF ~c.violated /\ \A g \in DOMAIN c.gates : c.gates[g] # "pending"
  THEN Logged([c EXCEPT !.status = "APPROVED"], "workflow_approved", None)
  ELSE c

\* When this was the last gate, the whole chain is approved.
Completed(c) ==
  IF CanProceed(c) THEN Logged([c EXCEPT !.status = "APPROVED"], "workflow_approved", None)
                   ELSE c
GateApproved(c, g) == Completed(Logged([c EXCEPT !.gates[g] = "approved"], "gate_approved", g))

GateRejected(c, g) ==
  Logged([c EXCEPT !.gates[g] = "rejected", !.status = "REJECTED"], "gate_rejected", g)

Violated(c) ==
  Logged([c EXCEPT !.violated = TRUE, !.status = "BLOCKED"], "no_go_violation", None)

\* Mutant: the board's gate takes the place of the others.
EscalatedToBoard(c) ==
  Logged([c EXCEPT !.status = "ESCALATED", !.gates = [g \in {"EmergencyBoard"} |-> "pending"]],
         "escalated", None)

\* Mutant: the board is to decide anew, which the trail does not tell.
EscalatedAnew(c) ==
  Logged([c EXCEPT !.status = "ESCALATED",
                   !.gates = [g \in DOMAIN @ \cup {"EmergencyBoard"} |->
                                IF g = "EmergencyBoard" THEN "pending" ELSE @[g]]],
         "escalated", None)

\* The board's gate is added when the risk level did not ask for it; a decision
\* that the board has taken already stays.
Escalated(c) ==
  Logged([c EXCEPT !.status = "ESCALATED",
                   !.gates = [g \in DOMAIN @ \cup {"EmergencyBoard"} |->
                                IF g \in DOMAIN @ THEN @[g] ELSE "pending"]],
         "escalated", None)

-------------------------------------------------------------------------------
(* The operations.                                                         *)

\* create_approval_chain: replaces the chain that the task has.
CreateChain(t, level) == chain' = [chain EXCEPT ![t] = NewChain(level)]

Change(t, c) ==
  /\ chain[t] # None /\ Len(chain[t].history) < MaxEvents
  /\ chain' = [chain EXCEPT ![t] = c]

MarkAutomatedPass(t) == Change(t, AutomatedPassed(chain[t]))

\* approve_gate and reject_gate do nothing for a gate that the chain does not have.
ApproveGate(t, g) == /\ chain[t] # None /\ g \in DOMAIN chain[t].gates
                     /\ Change(t, GateApproved(chain[t], g))
RejectGate(t, g)  == /\ chain[t] # None /\ g \in DOMAIN chain[t].gates
                     /\ Change(t, GateRejected(chain[t], g))

AddNoGoViolation(t) == Change(t, Violated(chain[t]))
Escalate(t)         == Change(t, Escalated(chain[t]))

\* block_nogo_operation; of a task that has a chain it is add_no_go_violation.
BlockNogoOperation(t) ==
  /\ chain[t] = None
  /\ chain' = [chain EXCEPT ![t] = Violated(NewChain("critical"))]

Next ==
  \E t \in Tasks :
    \/ \E level \in Levels : CreateChain(t, level)
    \/ \E g \in GateNames : ApproveGate(t, g) \/ RejectGate(t, g)
    \/ MarkAutomatedPass(t) \/ AddNoGoViolation(t) \/ Escalate(t) \/ BlockNogoOperation(t)

Spec == Init /\ [][Next]_chain

-------------------------------------------------------------------------------
(* Properties.                                                             *)

Events == {"automated_pass", "gate_approved", "workflow_approved", "gate_rejected",
           "no_go_violation", "escalated"}
Entries == [event : Events, gate : GateNames \cup {None}]
Chains(gates) ==
  [level    : RiskLevels,
   status   : {"PENDING", "APPROVED", "REJECTED", "ESCALATED", "BLOCKED"},
   violated : BOOLEAN,
   gates    : [gates -> {"pending", "approved", "rejected"}],
   history  : Seq(Entries)]

\* A chain has the fields of ApprovalChain and, whatever was done to it, every gate
\* that its risk level asks for.
TypeOK ==
  \A t \in Tasks : chain[t] # None =>
    \E gates \in SUBSET GateNames :
      /\ chain[t] \in Chains(gates) /\ GatesOf(chain[t].level) \subseteq gates

\* What can_execute clears, can_proceed would let proceed: every gate of the task is
\* approved and nothing violates a no-go area.  can_execute itself rejects neither
\* a rejected gate nor one that was decided again after the chain was approved; it
\* relies on every operation keeping the status up to date.
ClearedIsApproved == \A t \in Tasks : CanExecute(t) => CanProceed(chain[t])

StatusTold == [workflow_approved |-> "APPROVED", gate_rejected |-> "REJECTED",
               no_go_violation |-> "BLOCKED", escalated |-> "ESCALATED"]
GateTold   == [automated_pass |-> "approved", gate_approved |-> "approved",
               gate_rejected |-> "rejected"]

StatusEntries(h)  == {i \in DOMAIN h : h[i].event \in DOMAIN StatusTold}
GateEntries(h, g) == {i \in DOMAIN h : h[i].gate = g}
Happened(h, e)    == \E i \in DOMAIN h : h[i].event = e
IsLast(i, I)      == i \in I /\ \A k \in I : k <= i

StatusReplays(h, status) ==
  /\ StatusEntries(h) = {} => status = "PENDING"
  /\ \A i \in DOMAIN h : IsLast(i, StatusEntries(h)) => status = StatusTold[h[i].event]

GateReplays(h, g, decision) ==
  /\ GateEntries(h, g) = {} => decision = "pending"
  /\ \A i \in DOMAIN h : IsLast(i, GateEntries(h, g)) => decision = GateTold[h[i].event]

BoardAsked(h) == IF Happened(h, "escalated") THEN {"EmergencyBoard"} ELSE {}

Replays(c) ==
  /\ StatusReplays(c.history, c.status)
  /\ \A g \in DOMAIN c.gates : GateReplays(c.history, g, c.gates[g])
  /\ c.violated <=> Happened(c.history, "no_go_violation")
  /\ DOMAIN c.gates = GatesOf(c.level) \cup BoardAsked(c.history)

\* The audit trail is complete: status and gates of a chain, whether it is
\* blocked by a violation and whether it has the board's gate can all be read off
\* the last entries about them, whatever the order of operations was.
TrailReplays == \A t \in Tasks : chain[t] # None => Replays(chain[t])

\* Stated by ApprovalStatus ('APPROVED = "approved"  # All gates passed'): a chain
\* whose gates have all passed, and that waits for nothing else, is APPROVED.
\* mark_automated_pass does not look whether it was the last.
GatesPassedIsApproved ==
  \A t \in Tasks :
    chain[t] # None /\ CanProceed(chain[t]) => chain[t].status \in {"APPROVED", "ESCALATED"}

===============================================================================
