------------------------------ MODULE AuditLedger ------------------------------
(***************************************************************************)
(* packages/audit/src/index.ts: the in-memory hash-chained ledger.  append *)
(* is synchronous, so one append is one step.  WhoAudit stores the same    *)
(* chain in a file, as far as JSON keeps it, and is compared with this     *)
(* module.                                                                 *)
(*                                                                         *)
(* SHA-256 over the canonical JSON of an entry is taken as a free          *)
(* constructor: two different entries never have the same digest.          *)
(***************************************************************************)
EXTENDS Naturals, Sequences

CONSTANTS Payloads,     \* actor, action, resource, time and metadata of an entry
          MaxEntries    \* bound on the length of the ledger

VARIABLE entries

\* previousHash of the first entry: the string GENESIS, which is no digest.
Genesis == [genesis |-> TRUE]

\* (Mutant: the hash does not cover what the entry says.)
DigestOfLink(unsigned) == [sha256 |-> <<unsigned.sequence, unsigned.previousHash>>]

Digest(unsigned) == [sha256 |-> unsigned]

Unsigned(e) == [sequence |-> e.sequence, previousHash |-> e.previousHash,
                payload |-> e.payload]

PreviousHash(c, i) == IF i = 1 THEN Genesis ELSE c[i - 1].hash

\* The entry number n with payload p after an entry whose hash is prev.
SignEntry(n, prev, p) ==
  LET u == [sequence |-> n, previousHash |-> prev, payload |-> p]
  IN  [sequence |-> n, previousHash |-> prev, payload |-> p, hash |-> Digest(u)]

\* Ledger c with the entry append adds to it.
Extend(c, p) == Append(c, SignEntry(Len(c) + 1, PreviousHash(c, Len(c) + 1), p))

\* The places where verify's loop finds a wrong hash or a broken link.
Broken(c) == {i \in 1..Len(c) : \/ c[i].hash # Digest(Unsigned(c[i]))
                                \/ c[i].previousHash # PreviousHash(c, i)}

Valid(c) == Broken(c) = {}

\* verify returns at the first such place and reports that entry's own number.
First(S) == CHOOSE i \in S : \A k \in S : i <= k
BrokenAt(c) == c[First(Broken(c))].sequence

Init == entries = <<>>

AppendEntry(p) == Len(entries) < MaxEntries /\ entries' = Extend(entries, p)

Next == \E p \in Payloads : AppendEntry(p)

Spec == Init /\ [][Next]_entries
===============================================================================
