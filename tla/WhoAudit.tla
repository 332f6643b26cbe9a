-------------------------------- MODULE WhoAudit --------------------------------
(***************************************************************************)
(* packages/osint/src/audit/whoAudit.ts: the audit ledger kept in one file *)
(* (chain.json) that appendWhoAudit reads, extends and writes back whole,  *)
(* plus one shard file per entry.  Nothing locks the file between the read *)
(* and the write, so appenders of the same data directory interleave:      *)
(* appenders are the worker of the server process and a stand-alone        *)
(* who-worker process.  File writes are atomic here (see FileStore).       *)
(*                                                                         *)
(* The hash of an entry is taken over the object in memory, where a field  *)
(* of the metadata may be undefined; JSON.stringify drops such a field, so *)
(* what is read back may say less than its own hash covers.                *)
(***************************************************************************)
EXTENDS Naturals, Sequences

CONSTANTS Appenders,    \* concurrent callers of appendWhoAudit
          Texts,        \* all an entry says but its archiveId
          NoEntry,      \* an appender that has not got an entry back
          MaxEntries    \* bound on the length of the chain

ASSUME EntriesAssumption == MaxEntries \in Nat

VARIABLES chain,        \* chain.json, <<>> when the file does not exist
          shards,       \* contents of the per-entry shard files
          phase,        \* per appender: "idle", "save", "shard"
          draft,        \* per appender: the chain it is about to save
          returned      \* per appender: the entry its last call returned

auditVars == <<chain, shards, phase, draft, returned>>

\* What an entry says. Its metadata names the archived report, says that archiveId is
\* undefined (archiving is off or failed), or has no such field.
Payloads == [text : Texts, archiveId : {"id", "undefined", "none"}]

\* What is left of it, and of an entry that says it, in a JSON file.
Json(p) == [text |-> p.text,
            archiveId |-> IF p.archiveId = "undefined" THEN "none" ELSE p.archiveId]
Stored(e) == [sequence |-> e.sequence, previousHash |-> e.previousHash,
              payload |-> Json(e.payload), hash |-> e.hash]

\* The entry that was appended, of which the file keeps e: the one e's hash covers.
Appended(e) == [sequence |-> e.hash.sha256.sequence,
                previousHash |-> e.hash.sha256.previousHash,
                payload |-> e.hash.sha256.payload, hash |-> e.hash]

Ledger == INSTANCE AuditLedger WITH entries <- [i \in 1..Len(chain) |-> Appended(chain[i])]

Entry(a) == draft[a][Len(draft[a])]

AuditInit ==
  /\ chain = <<>> /\ shards = {}
  /\ phase = [a \in Appenders |-> "idle"]
  /\ draft = [a \in Appenders |-> <<>>]
  /\ returned = [a \in Appenders |-> NoEntry]

\* loadChain, then the next sequence number and previous hash from what it read.
\* (Mutants: the previous hash is always GENESIS; the shard is written first.)
LoadUnlinked(a, p) ==
  /\ phase[a] = "idle" /\ Len(chain) < MaxEntries
  /\ phase' = [phase EXCEPT ![a] = "save"]
  /\ draft' = [draft EXCEPT ![a] =
                 Append(chain, Ledger!SignEntry(Len(chain) + 1, Ledger!Genesis, p))]
  /\ UNCHANGED <<chain, shards, returned>>

LoadShardFirst(a, p) ==
  /\ phase[a] = "idle" /\ Len(chain) < MaxEntries
  /\ phase' = [phase EXCEPT ![a] = "save"]
  /\ draft' = [draft EXCEPT ![a] = Ledger!Extend(chain, p)]
  /\ shards' = shards \cup {Stored(Entry(a)')}
  /\ UNCHANGED <<chain, returned>>

Load(a, p) ==
  /\ phase[a] = "idle" /\ Len(chain) < MaxEntries
  /\ phase' = [phase EXCEPT ![a] = "save"]
  /\ draft' = [draft EXCEPT ![a] = Ledger!Extend(chain, p)]
  /\ UNCHANGED <<chain, shards, returned>>

\* saveChain replaces the whole file with the JSON of the draft.
\* (Mutant: the entry is pushed after the chain was saved.)
SaveBeforePush(a) ==
  /\ phase[a] = "save"
  /\ chain' = [i \in 1..(Len(draft[a]) - 1) |-> Stored(draft[a][i])]
  /\ phase' = [phase EXCEPT ![a] = "shard"]
  /\ UNCHANGED <<shards, draft, returned>>

Save(a) ==
  /\ phase[a] = "save"
  /\ chain' = [i \in 1..Len(draft[a]) |-> Stored(draft[a][i])]
  /\ phase' = [phase EXCEPT ![a] = "shard"]
  /\ UNCHANGED <<shards, draft, returned>>

\* The shard is written, as JSON, and the entry in memory is returned.
WriteShard(a) ==
  /\ phase[a] = "shard"
  /\ shards' = shards \cup {Stored(Entry(a))}
  /\ returned' = [returned EXCEPT ![a] = Entry(a)]
  /\ phase' = [phase EXCEPT ![a] = "idle"]
  /\ draft' = [draft EXCEPT ![a] = <<>>]
  /\ UNCHANGED chain

\* The process dies, or one of the file operations throws, in the middle of a call.
\* (Mutant: the entries read stay behind.)
AbortKeepsDraft(a) ==
  /\ phase[a] # "idle"
  /\ phase' = [phase EXCEPT ![a] = "idle"]
  /\ UNCHANGED <<chain, shards, draft, returned>>

Abort(a) ==
  /\ phase[a] # "idle"
  /\ phase' = [phase EXCEPT ![a] = "idle"]
  /\ draft' = [draft EXCEPT ![a] = <<>>]
  /\ UNCHANGED <<chain, shards, returned>>

AuditNext == \E a \in Appenders : \/ \E p \in Payloads : Load(a, p)
                                  \/ Save(a) \/ WriteShard(a) \/ Abort(a)

AuditSpec == AuditInit /\ [][AuditNext]_auditVars

-------------------------------------------------------------------------------
\* Types (whoAudit.ts); a draft is never empty while a call is under way.
AuditTypeOK ==
  /\ Len(chain) \in 0..MaxEntries
  /\ phase \in [Appenders -> {"idle", "save", "shard"}]
  /\ \A a \in Appenders : Len(draft[a]) \in 0..MaxEntries /\ (phase[a] = "idle" <=> draft[a] = <<>>)

\* verifyWhoAudit accepts the file the program wrote: "Omit undefined metadata so JSON
\* round-trip matches hashAuditEntry input" (whoAudit.ts:47, verified at 70-85).
ChainVerifies == Ledger!Valid(chain)

\* Whatever appenders interleave and wherever a process dies, entries are numbered 1, 2,
\* 3..., each links to the one before it, and each is what JSON keeps of the entry its
\* hash covers: verifyWhoAudit can only complain of an entry that was signed with an
\* undefined field (whoAudit.ts:34-85).
OnlyUndefinedBreaks ==
  \A i \in 1..Len(chain) :
    /\ chain[i].sequence = i
    /\ chain[i] = Stored(Appended(chain[i]))
    /\ i \in Ledger!Broken(chain) <=> Appended(chain[i]).payload.archiveId = "undefined"

Edited(c, i, p)   == [c EXCEPT ![i].payload = p]
Resigned(c, i, p) ==
  [c EXCEPT ![i].payload = p,
            ![i].hash = Ledger!Digest(Ledger!Unsigned(Edited(c, i, p)[i]))]
Removed(c, i)     == SubSeq(c, 1, i - 1) \o SubSeq(c, i + 1, Len(c))

\* The entries before place i that verify complains of anyway.
Before(i) == {k \in Ledger!Broken(chain) : k < i}

\* verify complains of c, and names the first entry of S.
Reported(c, S) == ~Ledger!Valid(c) /\ Ledger!BrokenAt(c) = Ledger!First(S)

\* Changing what an entry of the file says is reported with that entry's number, and, if
\* its own hash is recomputed, with the next one's; removing an entry that is not the
\* last is reported with the number of the one after it. In each case an entry before
\* it that was signed with an undefined field is reported in its stead
\* (verifyWhoAudit, whoAudit.ts:70-85).
TamperEvident ==
  \A i \in 1..Len(chain) :
    /\ \A p \in {Json(q) : q \in Payloads} \ {chain[i].payload} :
         /\ Reported(Edited(chain, i, p), Before(i) \cup {i})
         /\ i < Len(chain) => Reported(Resigned(chain, i, p), Before(i) \cup {i + 1})
    /\ i < Len(chain) => Reported(Removed(chain, i), Before(i) \cup {i + 1})

\* With one appender the file stands for the ledger of @ocrowley/audit: the entries its
\* hashes cover only grow, one signed entry at a time.
ImplementsLedger == Ledger!Spec

\* With one appender an entry a caller got back stays in the chain, as JSON keeps it, at
\* the position it was told: a job's auditSequence keeps naming the job's own entry
\* (whoAudit.ts:62, whoWorker.ts:166-193).
ReturnedEntryKept ==
  \A a \in Appenders : returned[a] # NoEntry =>
    /\ returned[a].sequence <= Len(chain)
    /\ chain[returned[a].sequence] = Stored(returned[a])

\* With one appender every shard is an entry of the chain, so the shard count
\* never exceeds the chain's length (whoAuditShardCount, whoAudit.ts:87-90).
ShardsInChain == \A e \in shards : \E i \in 1..Len(chain) : chain[i] = e
===============================================================================
