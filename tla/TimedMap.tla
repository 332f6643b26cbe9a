------------------------------- MODULE TimedMap -------------------------------
(* What a memory of keys whose values may expire promises.  A put begins by   *)
(* fixing when its value expires and takes effect later: the value is there   *)
(* from then until its time is over or it is replaced, removed, cleared, or   *)
(* overridden by a copy restored; if its time is over before the put takes    *)
(* effect, all it does is end the value that was there.                       *)
EXTENDS Naturals

CONSTANTS Putters, Keys, Values, NoEntry, NoPut, Never,
          Allowed   \* pairs of an operation and a key that are allowed

VARIABLES now, memory, copy,
          pending   \* putter -> the put that has begun: its key and its entry

Live(e, t) == e # NoEntry /\ (e.expires = Never \/ t <= e.expires)
Alive(m, t) == [k \in Keys |-> IF Live(m[k], t) THEN m[k] ELSE NoEntry]
Nothing == [k \in Keys |-> NoEntry]

Init == /\ now = 0 /\ memory = Nothing /\ copy = Nothing
        /\ pending = [p \in Putters |-> NoPut]

Begin(p) ==
  /\ pending[p] = NoPut
  /\ pending' = [pending EXCEPT ![p] = pending'[p]]
  /\ LET put == pending'[p]
     IN  /\ put # NoPut /\ <<"store", put.key>> \in Allowed
         /\ put.entry.value \in Values /\ Live(put.entry, now)
  /\ UNCHANGED <<now, memory, copy>>

Put(p) ==
  /\ pending[p] # NoPut
  /\ LET put == pending[p]
     IN  memory' = [memory EXCEPT ![put.key] = IF Live(put.entry, now) THEN put.entry ELSE NoEntry]
  /\ pending' = [pending EXCEPT ![p] = NoPut]
  /\ UNCHANGED <<now, copy>>

Remove(k) ==
  /\ <<"forget", k>> \in Allowed
  /\ memory' = [memory EXCEPT ![k] = NoEntry]
  /\ UNCHANGED <<now, copy, pending>>

Pass == now' > now /\ memory' = Alive(memory, now') /\ UNCHANGED <<copy, pending>>

\* A copy has what the memory has, and may have what expired.
Copy ==
  /\ Alive(copy', now) = memory
  /\ UNCHANGED <<now, memory, pending>>

Restore ==
  /\ memory' = Alive([k \in Keys |-> IF copy[k] = NoEntry THEN memory[k] ELSE copy[k]], now)
  /\ UNCHANGED <<now, copy, pending>>

Clear == memory' = Nothing /\ UNCHANGED <<now, copy, pending>>

Next ==
  \/ \E p \in Putters : Begin(p) \/ Put(p)
  \/ \E k \in Keys : Remove(k)
  \/ Pass \/ Copy \/ Restore \/ Clear

vars == <<now, memory, copy, pending>>

Spec == Init /\ [][Next]_vars
===============================================================================
