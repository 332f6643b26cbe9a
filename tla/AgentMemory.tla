------------------------------ MODULE AgentMemory ------------------------------
(***************************************************************************)
(* python/ocrowley_memory: MemoryStore keeps values under keys, some of    *)
(* them for a time only, and ProtectedMemoryStore lets an actor use it     *)
(* when ThemisMemoryGate approves.  An expired entry stays in the store    *)
(* until it is recalled or a cleanup finds it; a cleanup comes with the    *)
(* first store after the interval.  The store's methods hold its lock, the *)
(* gate and the wrapper hold none: a request and what it allows are two    *)
(* steps, and a store reads the clock for the expiry of its value in a     *)
(* step between them, before it waits for the lock.                        *)
(*                                                                         *)
(* Scopes, which the wrapper never passes on, metadata, and the log of     *)
(* requests, which nothing reads, are left out.                            *)
(***************************************************************************)
EXTENDS Naturals

CONSTANTS Actors,           \* threads that use the protected store
          Keys, SafeKeys,   \* keys, and those that begin with a safe pattern
          Themis,           \* pairs of an operation and a key that Themis approves
          Values,
          Ttls,             \* lifetimes that values are stored with
          CleanupInterval,  \* time between two cleanups
          MaxTime,          \* bound: the clock stops
          Never,            \* no lifetime, no time of expiry
          NoEntry, NoCall

ASSUME SafeAssumption == SafeKeys \subseteq Keys
ASSUME TimeAssumption == MaxTime \in Nat /\ CleanupInterval \in Nat /\ Ttls \subseteq (Nat \cup {Never})

Operations == {"recall", "store", "forget"}
StoredEntry == [value : Values, expires : (Nat \cup {Never})]

ASSUME NeverAssumption == Never \notin Nat

\* A call that is approved; a store has its entry from when it has read the clock.
MemoryRequest == [op : Operations, key : Keys, entry : StoredEntry \cup {NoEntry}]

ASSUME AbsenceAssumption ==
  /\ NoEntry \notin StoredEntry /\ NoCall \notin MemoryRequest
  /\ NoCall \notin [key : Keys, entry : StoredEntry]

VARIABLES clock,
          entries,      \* _entries
          lastCleanup,  \* _last_cleanup
          dump,         \* what to_json returned last
          granted       \* actor -> the approved operation it is about to carry out

memoryVars == <<clock, entries, lastCleanup, dump, granted>>

Empty == [k \in Keys |-> NoEntry]

MemoryInit ==
  /\ clock = 0 /\ entries = Empty /\ lastCleanup = 0 /\ dump = Empty
  /\ granted = [a \in Actors |-> NoCall]

\* is_expired.  (Mutant: an entry expires at its time, not after it.)
ExpiredAtOnce(e) == e.expires # Never /\ clock >= e.expires

Expired(e) == e.expires # Never /\ clock > e.expires

Without(m, K) == [k \in Keys |-> IF k \in K THEN NoEntry ELSE m[k]]

\* cleanup, and _maybe_cleanup, of a store with the entries m.
ExpiredKeys(m) == {k \in Keys : m[k] # NoEntry /\ Expired(m[k])}
CleanupDue     == clock - lastCleanup > CleanupInterval

\* Keys of a safe pattern are approved without Themis, but for a deletion.
Approved(op, k) == \/ k \in SafeKeys /\ op # "forget"
                   \/ <<op, k>> \in Themis

-------------------------------------------------------------------------------
\* request_recall, request_store, request_forget; the caller of an operation that is not
\* approved gets a PermissionError.
Request(a, op, k) ==
  /\ granted[a] = NoCall /\ Approved(op, k)
  /\ granted' = [granted EXCEPT ![a] = [op |-> op, key |-> k, entry |-> NoEntry]]
  /\ UNCHANGED <<clock, entries, lastCleanup, dump>>

MayCall(a, op) == granted[a] # NoCall /\ granted[a].op = op
Returns(a) == granted' = [granted EXCEPT ![a] = NoCall] /\ UNCHANGED <<clock, dump>>

Recall(a) ==
  /\ MayCall(a, "recall")
  /\ entries' = Without(entries, {granted[a].key} \cap ExpiredKeys(entries))
  /\ UNCHANGED lastCleanup /\ Returns(a)

\* store: the time of expiry, before the lock is asked for...
NewEntry(v, ttl) == [value |-> v, expires |-> IF ttl = Never THEN Never ELSE clock + ttl]

SetExpiry(a, v, ttl) ==
  /\ MayCall(a, "store") /\ granted[a].entry = NoEntry
  /\ granted' = [granted EXCEPT ![a].entry = NewEntry(v, ttl)]
  /\ UNCHANGED <<clock, entries, lastCleanup, dump>>

\* ...and the entry and _maybe_cleanup under it, by when the value may have expired.
Store(a) ==
  /\ MayCall(a, "store") /\ granted[a].entry # NoEntry
  /\ LET stored == [entries EXCEPT ![granted[a].key] = granted[a].entry]
     IN  entries' = IF CleanupDue THEN Without(stored, ExpiredKeys(stored)) ELSE stored
  /\ lastCleanup' = IF CleanupDue THEN clock ELSE lastCleanup
  /\ Returns(a)

Forget(a) ==
  /\ MayCall(a, "forget")
  /\ entries' = Without(entries, {granted[a].key})
  /\ UNCHANGED lastCleanup /\ Returns(a)

\* The host calls the store itself: cleanup, to_json, from_json and clear.
Cleanup ==
  /\ entries' = Without(entries, ExpiredKeys(entries)) /\ lastCleanup' = clock
  /\ UNCHANGED <<clock, dump, granted>>

ToJson == dump' = entries /\ UNCHANGED <<clock, entries, lastCleanup, granted>>

\* What was dumped replaces what the store has under the same keys, even by a value that
\* has expired.
Restored == [k \in Keys |-> IF dump[k] = NoEntry THEN entries[k] ELSE dump[k]]

FromJson == entries' = Restored /\ UNCHANGED <<clock, lastCleanup, dump, granted>>

ClearAll == entries' = Empty /\ UNCHANGED <<clock, lastCleanup, dump, granted>>

TimePasses == clock < MaxTime /\ clock' = clock + 1
              /\ UNCHANGED <<entries, lastCleanup, dump, granted>>

MemoryNext ==
  \/ \E a \in Actors :
       \/ \E op \in Operations, k \in Keys : Request(a, op, k)
       \/ \E v \in Values, ttl \in Ttls : SetExpiry(a, v, ttl)
       \/ Store(a) \/ Recall(a) \/ Forget(a)
  \/ Cleanup \/ ToJson \/ FromJson \/ ClearAll \/ TimePasses

MemorySpec == MemoryInit /\ [][MemoryNext]_memoryVars

-------------------------------------------------------------------------------
\* Types of the store's attributes and of the calls under way.
MemoryTypeOK ==
  /\ clock \in 0..MaxTime /\ lastCleanup \in 0..clock
  /\ entries \in [Keys -> StoredEntry \cup {NoEntry}]
  /\ dump \in [Keys -> StoredEntry \cup {NoEntry}]
  /\ granted \in [Actors -> MemoryRequest \cup {NoCall}]

\* What can be recalled.
Unexpired(e) == e.expires = Never \/ clock <= e.expires
Visible == [k \in Keys |-> IF entries[k] # NoEntry /\ Unexpired(entries[k]) THEN entries[k] ELSE NoEntry]
Allowed == {p \in Operations \X Keys : Approved(p[1], p[2])}

\* The stores that have their time of expiry and wait for the lock.
Waiting(a) == granted[a] # NoCall /\ granted[a].entry # NoEntry
Pending == [a \in Actors |-> IF Waiting(a) THEN [key |-> granted[a].key, entry |-> granted[a].entry]
                             ELSE NoCall]

Memory == INSTANCE TimedMap WITH Putters <- Actors, NoPut <- NoCall,
                                 now <- clock, memory <- Visible, copy <- dump, pending <- Pending

\* When a value is found expired, by a recall, by a cleanup that a store of another key
\* brings about, or never, makes no difference to what can be recalled: a value is there
\* until the time that was fixed before its store waited for the lock, also when other
\* threads got the lock first and when that time is over by then; it comes and goes by
\* operations that the gate approves, or by a clear or a restore of the whole
\* (memory_store.py:32-214, integration.py:76-279).
RemembersInTime == Memory!Spec
===============================================================================
