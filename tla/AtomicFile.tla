------------------------------ MODULE AtomicFile ------------------------------
(***************************************************************************)
(* What @ocrowley/persistence promises of one JSON file ("atomic file      *)
(* writes", docs/ARCHITECTURE.md:15): a reader gets the whole value of one *)
(* completed write, or null when there is no file, and never anything in   *)
(* between.  fileStore.ts is shown to implement this when each file has    *)
(* one writer at a time.                                                   *)
(***************************************************************************)
CONSTANTS Values,   \* the JSON documents that may be stored
          Readers,  \* concurrent readJsonFile calls
          Null,     \* what a read of a missing file returns
          Unread    \* outcome of a reader that has not read yet

VARIABLES value,    \* the stored document, or Null
          got       \* what each reader's last read returned

vars == <<value, got>>

Init == value = Null /\ got = [r \in Readers |-> Unread]

Store  == \E v \in Values : value' = v /\ UNCHANGED got
Remove == value' = Null /\ UNCHANGED got
Read(r) == got' = [got EXCEPT ![r] = value] /\ UNCHANGED value

Next == Store \/ Remove \/ \E r \in Readers : Read(r)

Spec == Init /\ [][Next]_vars
===============================================================================
