----------------------------- MODULE RecordsProofs -----------------------------
(***************************************************************************)
(* Proofs about the files an attempt at a job leaves behind.               *)
(* The audit chain: under every interleaving of any number of appenders,   *)
(* verification complains of the entries that were signed with an          *)
(* undefined field and of no others, and edits are found where they are.   *)
(* The dossiers, for any number of workers, jobs and entities: every       *)
(* pointer of a document resolves and no document lists anything twice.    *)
(* The invariant adds to these that a worker between two steps holds a     *)
(* dossier that is on disk and a document that is already sound: that is   *)
(* what makes the unlocked read-modify-write harmless here.                *)
(* With one appender, and with one worker, more is true: what the code's   *)
(* callers rely on when a data directory has one process.                  *)
(***************************************************************************)
EXTENDS MCRecords, WellFoundedInduction, TLAPS

IsChain(c) == c \in Seq({c[i] : i \in 1..Len(c)})

\* The hash of an entry is that of a signed one at its place, and the entry is the
\* signed one or its JSON.
Signed(c) == \A i \in 1..Len(c) :
  LET q == c[i].hash.sha256.payload
      h == Ledger!Digest([sequence |-> i, previousHash |-> Ledger!PreviousHash(c, i),
                          payload |-> q])
  IN  /\ q \in Payloads
      /\ c[i].payload = q \/ c[i].payload = Json(q)
      /\ c[i] = [sequence |-> i, previousHash |-> Ledger!PreviousHash(c, i),
                 payload |-> c[i].payload, hash |-> h]

\* Every entry is the JSON of the signed one.
AsStored(c) == \A i \in 1..Len(c) : c[i].payload = Json(c[i].hash.sha256.payload)

InFile(c) == IsChain(c) /\ Signed(c) /\ AsStored(c)

\* The chain and every draft are properly signed, and the chain is as JSON keeps it.
AuditIInv ==
  /\ phase \in [Appenders -> {"idle", "save", "shard"}]
  /\ InFile(chain)
  /\ draft = [a \in Appenders |-> draft[a]]
  /\ \A a \in Appenders : IsChain(draft[a]) /\ Signed(draft[a])

\* JSON drops an undefined field once and for all, and nothing else.
LEMMA JsonFacts ==
  ASSUME NEW q \in Payloads
  PROVE  /\ Json(q) \in Payloads /\ Json(Json(q)) = Json(q)
         /\ Json(q).archiveId # "undefined"
         /\ Json(q) = q <=> q.archiveId # "undefined"
<1>1. q = [text |-> q.text, archiveId |-> q.archiveId]
      /\ q.text \in Texts /\ q.archiveId \in {"id", "undefined", "none"}
  BY DEF Payloads
<1>2. PICK x, y : x = q.text /\ y = q.archiveId
  OBVIOUS
<1>3. q = [text |-> x, archiveId |-> y] /\ x \in Texts /\ y \in {"id", "undefined", "none"}
  BY <1>1, <1>2
<1>4. Json(q) = [text |-> x, archiveId |-> IF y = "undefined" THEN "none" ELSE y]
  BY <1>2 DEF Json
<1>5. CASE y = "undefined"
  BY <1>3, <1>4, <1>5 DEF Json, Payloads
<1>6. CASE y # "undefined"
  <2>1. Json(q) = q
    BY <1>3, <1>4, <1>6
  <2>. QED BY <1>2, <1>6, <2>1
<1>. QED BY <1>5, <1>6

\* The fields of entry i of a signed chain.
LEMMA SignedFields ==
  ASSUME NEW c, Signed(c), NEW i \in 1..Len(c)
  PROVE  LET q == c[i].hash.sha256.payload
         IN  /\ q \in Payloads /\ (c[i].payload = q \/ c[i].payload = Json(q))
             /\ c[i].sequence = i /\ c[i].previousHash = Ledger!PreviousHash(c, i)
             /\ c[i].hash = Ledger!Digest([sequence |-> i,
                  previousHash |-> Ledger!PreviousHash(c, i), payload |-> q])
             /\ c[i] = [sequence |-> c[i].sequence, previousHash |-> c[i].previousHash,
                        payload |-> c[i].payload, hash |-> c[i].hash]
<1>1. PICK q, h, v, s : /\ q = c[i].hash.sha256.payload /\ v = Ledger!PreviousHash(c, i)
                        /\ h = Ledger!Digest([sequence |-> i, previousHash |-> v, payload |-> q])
                        /\ s = c[i].payload
  OBVIOUS
<1>2. q \in Payloads /\ (s = q \/ s = Json(q))
      /\ c[i] = [sequence |-> i, previousHash |-> v, payload |-> s, hash |-> h]
  BY <1>1 DEF Signed
<1>. QED BY <1>1, <1>2

\* Extending a signed chain signs the new entry and leaves the others alone.
LEMMA ExtendSigned ==
  ASSUME NEW c, IsChain(c), Signed(c), NEW p \in Payloads, NEW d, d = Ledger!Extend(c, p)
  PROVE  /\ IsChain(d) /\ Signed(d)
         /\ Len(c) \in Nat /\ Len(d) = Len(c) + 1 /\ \A i \in 1..Len(c) : d[i] = c[i]
         /\ d[Len(d)] = Ledger!SignEntry(Len(d), Ledger!PreviousHash(c, Len(d)), p)
<1>. DEFINE n == Len(c) + 1
            e == Ledger!SignEntry(n, Ledger!PreviousHash(c, n), p)
            T == {c[i] : i \in 1..Len(c)} \cup {e}
<1>1. c \in Seq(T) /\ e \in T /\ Len(c) \in Nat
  BY DEF IsChain
<1>2. d = Append(c, e)
  BY DEF Ledger!Extend
<1>. HIDE DEF T
<1>3. d \in Seq(T) /\ Len(d) = Len(c) + 1 /\ d[n] = e
      /\ \A i \in 1..Len(c) : d[i] = c[i]
  <2>. HIDE DEF e
  <2>. QED BY <1>1, <1>2
<1>4. IsChain(d)
  <2>1. DOMAIN d = 1..Len(d) /\ Len(d) \in Nat
    BY <1>1, <1>3
  <2>2. d = [i \in 1..Len(d) |-> d[i]]
    BY <1>3, <2>1
  <2>3. d \in [1..Len(d) -> {d[i] : i \in 1..Len(d)}]
    BY <2>2
  <2>. QED BY ONLY <2>1, <2>3 DEF IsChain
<1>5. \A i \in 1..n : Ledger!PreviousHash(d, i) = Ledger!PreviousHash(c, i)
  BY <1>1, <1>3 DEF Ledger!PreviousHash
<1>6. Signed(d)
  <2>. SUFFICES ASSUME NEW i \in 1..Len(d)
       PROVE  LET q == d[i].hash.sha256.payload
                  h == Ledger!Digest([sequence |-> i,
                         previousHash |-> Ledger!PreviousHash(d, i), payload |-> q])
              IN  /\ q \in Payloads
                  /\ d[i].payload = q \/ d[i].payload = Json(q)
                  /\ d[i] = [sequence |-> i, previousHash |-> Ledger!PreviousHash(d, i),
                             payload |-> d[i].payload, hash |-> h]
    BY DEF Signed
  <2>1. PICK v : v = Ledger!PreviousHash(c, i)
    OBVIOUS
  <2>2. CASE i = n
    <3>1. d[i] = Ledger!SignEntry(i, v, p) /\ Ledger!PreviousHash(d, i) = v
      BY <2>1, <2>2, <1>1, <1>3, <1>5
    <3>2. d[i].payload = p /\ d[i].hash.sha256.payload = p
          /\ d[i] = [sequence |-> i, previousHash |-> v, payload |-> p,
                     hash |-> Ledger!Digest([sequence |-> i, previousHash |-> v, payload |-> p])]
      BY <3>1 DEF Ledger!SignEntry, Ledger!Digest
    <3>. QED BY <3>1, <3>2
  <2>3. CASE i \in 1..Len(c)
    <3>1. Ledger!PreviousHash(d, i) = Ledger!PreviousHash(c, i) /\ d[i] = c[i]
      BY <2>3, <1>1, <1>3, <1>5
    <3>. QED BY <2>3, <3>1 DEF Signed
  <2>. QED BY <2>2, <2>3, <1>1, <1>3
<1>. QED BY <1>1, <1>3, <1>4, <1>6

LEMMA EmptySigned == IsChain(<<>>) /\ Signed(<<>>) /\ AsStored(<<>>)
BY DEF IsChain, Signed, AsStored

\* The JSON of a signed chain, as saveChain writes it.
LEMMA SavedInFile ==
  ASSUME NEW c, IsChain(c), Signed(c), NEW d, d = [i \in 1..Len(c) |-> Stored(c[i])]
  PROVE  InFile(d) /\ Len(d) = Len(c) /\ \A i \in 1..Len(c) : d[i] = Stored(c[i])
<1>1. Len(c) \in Nat
  BY DEF IsChain
<1>2. DOMAIN d = 1..Len(c) /\ \A i \in 1..Len(c) : d[i] = Stored(c[i])
  OBVIOUS
<1>3. d \in [1..Len(c) -> {d[i] : i \in 1..Len(c)}]
  OBVIOUS
<1>4. Len(d) = Len(c)
  BY <1>1, <1>3
<1>5. IsChain(d)
  BY <1>1, <1>3, <1>4 DEF IsChain
<1>6. \A i \in 1..Len(c) : /\ d[i].sequence = c[i].sequence
                           /\ d[i].previousHash = c[i].previousHash
                           /\ d[i].payload = Json(c[i].payload) /\ d[i].hash = c[i].hash
                           /\ d[i] = [sequence |-> d[i].sequence, previousHash |-> d[i].previousHash,
                                      payload |-> d[i].payload, hash |-> d[i].hash]
  BY <1>2 DEF Stored
<1>7. \A i \in 1..Len(c) : Ledger!PreviousHash(d, i) = Ledger!PreviousHash(c, i)
  <2>1. \A i \in 1..Len(c) : i # 1 => i - 1 \in 1..Len(c)
    BY <1>1
  <2>2. \A i \in 1..Len(c) : i # 1 => d[i - 1].hash = c[i - 1].hash
    BY <1>6, <2>1
  <2>. QED BY <2>2 DEF Ledger!PreviousHash
<1>8. ASSUME NEW i \in 1..Len(c)
      PROVE  LET q == d[i].hash.sha256.payload
                 h == Ledger!Digest([sequence |-> i,
                        previousHash |-> Ledger!PreviousHash(d, i), payload |-> q])
             IN  /\ q \in Payloads /\ d[i].payload = Json(q)
                 /\ d[i] = [sequence |-> i, previousHash |-> Ledger!PreviousHash(d, i),
                            payload |-> d[i].payload, hash |-> h]
  <2>1. PICK q, v : q = c[i].hash.sha256.payload /\ v = Ledger!PreviousHash(c, i)
    OBVIOUS
  <2>2. /\ q \in Payloads /\ (c[i].payload = q \/ c[i].payload = Json(q))
        /\ c[i].sequence = i /\ c[i].previousHash = v
        /\ c[i].hash = Ledger!Digest([sequence |-> i, previousHash |-> v, payload |-> q])
    BY <2>1, SignedFields
  <2>3. Json(c[i].payload) = Json(q)
    BY <2>2, JsonFacts
  <2>4. /\ d[i].sequence = i /\ d[i].previousHash = v /\ d[i].payload = Json(q)
        /\ d[i].hash = c[i].hash /\ Ledger!PreviousHash(d, i) = v
    BY <1>6, <1>7, <2>1, <2>2, <2>3
  <2>5. d[i].hash.sha256.payload = q
    BY <2>1, <2>4
  <2>6. d[i] = [sequence |-> i, previousHash |-> v, payload |-> d[i].payload,
                hash |-> Ledger!Digest([sequence |-> i, previousHash |-> v, payload |-> q])]
    BY <1>6, <2>2, <2>4
  <2>. QED BY <2>2, <2>4, <2>5, <2>6
<1>. QED BY <1>2, <1>4, <1>5, <1>8 DEF InFile, Signed, AsStored

\* Every interleaving of appenders keeps the file and the drafts signed.
THEOREM AuditInvariance == AuditSpec => []AuditIInv
<1>1. AuditInit => AuditIInv
  BY EmptySigned DEF AuditInit, AuditIInv, InFile
<1>2. AuditIInv /\ [AuditNext]_auditVars => AuditIInv'
  <2>. SUFFICES ASSUME AuditIInv, [AuditNext]_auditVars PROVE AuditIInv'
    OBVIOUS
  <2>. USE DEF AuditIInv
  <2>1. ASSUME NEW a \in Appenders, NEW p \in Payloads, Load(a, p) PROVE AuditIInv'
    <3>1. IsChain(Ledger!Extend(chain, p)) /\ Signed(Ledger!Extend(chain, p))
      BY ExtendSigned DEF InFile
    <3>. QED BY <2>1, <3>1 DEF Load
  <2>2. ASSUME NEW a \in Appenders, Save(a) PROVE AuditIInv'
    <3>1. InFile(chain')
      BY <2>2, SavedInFile DEF Save
    <3>. QED BY <2>2, <3>1 DEF Save
  <2>3. ASSUME NEW a \in Appenders, WriteShard(a) PROVE AuditIInv'
    BY <2>3, EmptySigned DEF WriteShard
  <2>4. ASSUME NEW a \in Appenders, Abort(a) PROVE AuditIInv'
    BY <2>4, EmptySigned DEF Abort
  <2>5. CASE UNCHANGED auditVars
    BY <2>5 DEF auditVars
  <2>. QED BY <2>1, <2>2, <2>3, <2>4, <2>5 DEF AuditNext
<1>. QED BY <1>1, <1>2, PTL DEF AuditSpec

\* What verify looks at in entry i of a file.
LEMMA FileEntry ==
  ASSUME NEW c, InFile(c), NEW i \in 1..Len(c), NEW q, q = c[i].hash.sha256.payload
  PROVE  /\ q \in Payloads /\ c[i].payload = Json(q) /\ c[i].sequence = i
         /\ c[i].previousHash = Ledger!PreviousHash(c, i)
         /\ c[i].hash = Ledger!Digest([sequence |-> i, previousHash |-> c[i].previousHash,
                                       payload |-> q])
         /\ c[i] = [sequence |-> c[i].sequence, previousHash |-> c[i].previousHash,
                    payload |-> c[i].payload, hash |-> c[i].hash]
         /\ i \in Ledger!Broken(c) <=> q.archiveId = "undefined"
<1>1. /\ q \in Payloads /\ c[i].payload = Json(q) /\ c[i].sequence = i
      /\ c[i].previousHash = Ledger!PreviousHash(c, i)
      /\ c[i].hash = Ledger!Digest([sequence |-> i, previousHash |-> c[i].previousHash,
                                    payload |-> q])
      /\ c[i] = [sequence |-> c[i].sequence, previousHash |-> c[i].previousHash,
                 payload |-> c[i].payload, hash |-> c[i].hash]
  <2>1. PICK v : v = Ledger!PreviousHash(c, i)
    OBVIOUS
  <2>2. /\ q \in Payloads /\ c[i].sequence = i /\ c[i].previousHash = v
        /\ c[i].hash = Ledger!Digest([sequence |-> i, previousHash |-> v, payload |-> q])
        /\ c[i] = [sequence |-> c[i].sequence, previousHash |-> c[i].previousHash,
                   payload |-> c[i].payload, hash |-> c[i].hash]
    BY <2>1, SignedFields DEF InFile
  <2>3. c[i].payload = Json(q)
    BY DEF InFile, AsStored
  <2>. QED BY <2>1, <2>2, <2>3
<1>2. Ledger!Unsigned(c[i]) = [sequence |-> i, previousHash |-> c[i].previousHash,
                               payload |-> Json(q)]
  BY <1>1 DEF Ledger!Unsigned
<1>3. i \in Ledger!Broken(c) <=> c[i].hash # Ledger!Digest(Ledger!Unsigned(c[i]))
  BY <1>1 DEF Ledger!Broken
<1>4. c[i].hash = Ledger!Digest(Ledger!Unsigned(c[i])) <=> Json(q) = q
  <2>1. PICK v, x : v = c[i].previousHash /\ x = Json(q)
    OBVIOUS
  <2>2. Ledger!Digest([sequence |-> i, previousHash |-> v, payload |-> q])
          = Ledger!Digest([sequence |-> i, previousHash |-> v, payload |-> x]) <=> x = q
    BY DEF Ledger!Digest
  <2>. QED BY <1>1, <1>2, <2>1, <2>2
<1>. QED BY <1>1, <1>3, <1>4, JsonFacts

\* verifyWhoAudit complains of nothing in the file but what was signed with an undefined
\* field, under any interleaving of any number of appenders (whoAudit.ts:34-85).
THEOREM OnlyUndefinedEverBreaks == AuditSpec => []OnlyUndefinedBreaks
<1>1. AuditIInv => OnlyUndefinedBreaks
  <2>. SUFFICES ASSUME AuditIInv, NEW i \in 1..Len(chain)
       PROVE  /\ chain[i].sequence = i
              /\ chain[i] = Stored(Appended(chain[i]))
              /\ i \in Ledger!Broken(chain) <=> Appended(chain[i]).payload.archiveId = "undefined"
    BY DEF OnlyUndefinedBreaks
  <2>1. PICK q, e : q = chain[i].hash.sha256.payload /\ e = chain[i]
    OBVIOUS
  <2>2. /\ e.payload = Json(q) /\ e.sequence = i
        /\ e.hash = Ledger!Digest([sequence |-> i, previousHash |-> e.previousHash, payload |-> q])
        /\ e = [sequence |-> e.sequence, previousHash |-> e.previousHash,
                payload |-> e.payload, hash |-> e.hash]
        /\ i \in Ledger!Broken(chain) <=> q.archiveId = "undefined"
    BY <2>1, FileEntry DEF AuditIInv
  <2>3. Appended(e) = [sequence |-> i, previousHash |-> e.previousHash, payload |-> q,
                       hash |-> e.hash]
    BY <2>2 DEF Appended, Ledger!Digest
  <2>. QED BY <2>1, <2>2, <2>3 DEF Stored
<1>. QED BY <1>1, AuditInvariance, PTL

\* A set of places has a first one.
LEMMA FirstExists ==
  ASSUME NEW S, S \subseteq Nat, S # {}
  PROVE  \E m \in S : \A k \in S : m <= k
<1>. DEFINE R == {r \in Nat \X Nat : r[1] < r[2]}
<1>1. IsWellFoundedOn(R, Nat)
  BY NatLessThanWellFounded DEF OpToRel
<1>. HIDE DEF R
<1>2. PICK m \in S : \A k \in S : ~ (<<k, m>> \in R)
  BY <1>1, WFMin
<1>3. \A k \in S : k < m => <<k, m>> \in R
  BY DEF R
<1>4. \A k \in S : k \in Nat /\ m \in Nat /\ ~ (k < m)
  BY <1>2, <1>3
<1>5. \A k \in S : m <= k
  BY <1>4
<1>. QED BY <1>5

LEMMA FirstIs ==
  ASSUME NEW S, S \subseteq Nat, NEW m \in S, \A k \in S : m <= k
  PROVE  Ledger!First(S) = m
<1>1. \A j \in S : (\A k \in S : j <= k) => j = m
  OBVIOUS
<1>. QED BY <1>1 DEF Ledger!First

\* What verify reports of a chain that is broken at place i, if the entries before it
\* that are broken too have their own numbers and entry i has number n.
LEMMA FirstIsReported ==
  ASSUME NEW c, Len(c) \in Nat, NEW i \in Ledger!Broken(c), NEW n \in Nat, i <= n,
         c[i].sequence = n, NEW B, B = {k \in Ledger!Broken(c) : k < i},
         \A k \in B : c[k].sequence = k
  PROVE  Reported(c, B \cup {n})
<1>1. Ledger!Broken(c) \subseteq Nat /\ i \in Nat
  BY DEF Ledger!Broken
<1>2. CASE B = {}
  <2>1. \A k \in Ledger!Broken(c) : i <= k
    BY <1>1, <1>2
  <2>2. Ledger!First(Ledger!Broken(c)) = i
    BY <1>1, <2>1, FirstIs
  <2>3. Ledger!First(B \cup {n}) = n
    BY <1>2, FirstIs
  <2>. QED BY <2>2, <2>3 DEF Reported, Ledger!BrokenAt, Ledger!Valid
<1>3. CASE B # {}
  <2>1. PICK m \in B : \A k \in B : m <= k
    BY <1>1, <1>3, FirstExists
  <2>2. m \in Ledger!Broken(c) /\ m \in Nat /\ m < i /\ m <= n /\ c[m].sequence = m
    BY <1>1, <2>1
  <2>3. \A k \in Ledger!Broken(c) : m <= k
    BY <1>1, <2>1, <2>2
  <2>4. Ledger!First(Ledger!Broken(c)) = m
    BY <1>1, <2>2, <2>3, FirstIs
  <2>5. Ledger!First(B \cup {n}) = m
    <3>1. B \cup {n} \subseteq Nat /\ m \in B \cup {n}
      BY <1>1, <2>1
    <3>2. \A k \in B \cup {n} : m <= k
      BY <2>1, <2>2
    <3>. QED BY <3>1, <3>2, FirstIs
  <2>. QED BY <2>2, <2>4, <2>5 DEF Reported, Ledger!BrokenAt, Ledger!Valid
<1>. QED BY <1>2, <1>3

\* Chains that agree before place i are broken at the same places before it.
LEMMA BrokenBefore ==
  ASSUME NEW c, NEW d, Len(c) \in Nat, Len(d) \in Nat, NEW i \in Nat,
         i <= Len(c) + 1, i <= Len(d) + 1, \A k \in 1..(i - 1) : d[k] = c[k]
  PROVE  {k \in Ledger!Broken(d) : k < i} = {k \in Ledger!Broken(c) : k < i}
<1>1. ASSUME NEW k \in Nat, k < i PROVE k \in Ledger!Broken(d) <=> k \in Ledger!Broken(c)
  <2>1. CASE k = 0
    BY <2>1 DEF Ledger!Broken
  <2>2. CASE k # 0
    <3>1. k \in 1..Len(c) /\ k \in 1..Len(d) /\ d[k] = c[k]
      BY <1>1, <2>2
    <3>2. Ledger!PreviousHash(d, k) = Ledger!PreviousHash(c, k)
      <4>1. k # 1 => k - 1 \in 1..(i - 1)
        BY <1>1, <2>2
      <4>. QED BY <4>1 DEF Ledger!PreviousHash
    <3>. QED BY <3>1, <3>2 DEF Ledger!Broken
  <2>. QED BY <2>1, <2>2
<1>2. Ledger!Broken(c) \subseteq Nat /\ Ledger!Broken(d) \subseteq Nat
  BY DEF Ledger!Broken
<1>. QED BY <1>1, <1>2

\* The next entry of a file holds this one's hash.
LEMMA NextLink ==
  ASSUME NEW c, InFile(c), NEW i \in 1..Len(c), i + 1 \in 1..Len(c), Len(c) \in Nat
  PROVE  c[i + 1].previousHash = c[i].hash
<1>1. c[i + 1].previousHash = Ledger!PreviousHash(c, i + 1)
  BY FileEntry
<1>2. i + 1 # 1 /\ (i + 1) - 1 = i
  OBVIOUS
<1>. QED BY <1>1, <1>2 DEF Ledger!PreviousHash

\* What a file cannot say of an entry: what its hash does not cover, if it is not what
\* the file says of it.
LEMMA EditUncovered ==
  ASSUME NEW q \in Payloads, NEW p, NEW r \in Payloads, p = Json(r), p # Json(q)
  PROVE  p # q
<1>1. p.archiveId # "undefined" /\ (q.archiveId # "undefined" => Json(q) = q)
  BY JsonFacts
<1>. QED BY <1>1

\* An edited payload is reported at its entry.
LEMMA EditReported ==
  ASSUME NEW c, InFile(c), NEW i \in 1..Len(c),
         NEW r \in Payloads, NEW p, p = Json(r), p # c[i].payload,
         NEW B, B = {k \in Ledger!Broken(c) : k < i}
  PROVE  Reported(Edited(c, i, p), B \cup {i})
<1>. DEFINE d == Edited(c, i, p)
<1>1. Len(c) \in Nat /\ DOMAIN c = 1..Len(c) /\ i \in Nat
  BY DEF InFile, IsChain
<1>2. PICK q, e : q = c[i].hash.sha256.payload /\ e = c[i]
  OBVIOUS
<1>3. /\ q \in Payloads /\ e.payload = Json(q) /\ e.sequence = i
      /\ e.hash = Ledger!Digest([sequence |-> i, previousHash |-> e.previousHash, payload |-> q])
      /\ e = [sequence |-> e.sequence, previousHash |-> e.previousHash,
              payload |-> e.payload, hash |-> e.hash]
  BY <1>2, FileEntry
<1>4. DOMAIN d = DOMAIN c /\ \A k \in 1..Len(c) : k # i => d[k] = c[k]
  BY <1>1 DEF Edited
<1>5. d[i] = [e EXCEPT !.payload = p]
  BY <1>1, <1>2 DEF Edited
<1>6. /\ d[i].payload = p /\ d[i].hash = e.hash /\ d[i].sequence = i
      /\ d[i].previousHash = e.previousHash
  BY <1>3, <1>5
<1>7. Len(d) = Len(c)
  BY <1>1, <1>4
<1>. HIDE DEF d
<1>8. i \in Ledger!Broken(d)
  <2>1. p # q
    BY <1>2, <1>3, EditUncovered
  <2>2. PICK v : v = e.previousHash
    OBVIOUS
  <2>3. Ledger!Digest([sequence |-> i, previousHash |-> v, payload |-> q])
          # Ledger!Digest([sequence |-> i, previousHash |-> v, payload |-> p])
    BY <2>1 DEF Ledger!Digest
  <2>4. Ledger!Unsigned(d[i]) = [sequence |-> i, previousHash |-> v, payload |-> p]
    BY <1>6, <2>2 DEF Ledger!Unsigned
  <2>. QED BY <1>3, <1>6, <1>7, <2>2, <2>3, <2>4 DEF Ledger!Broken
<1>9. B = {k \in Ledger!Broken(d) : k < i}
  BY <1>1, <1>4, <1>7, BrokenBefore
<1>10. \A k \in B : d[k].sequence = k
  <2>1. \A k \in B : k \in 1..Len(c) /\ k # i
    BY <1>1 DEF Ledger!Broken
  <2>2. \A k \in 1..Len(c) : c[k].sequence = k
    BY FileEntry
  <2>. QED BY <1>4, <2>1, <2>2
<1>11. Reported(d, B \cup {i})
  <2>1. Len(d) \in Nat /\ i \in Nat /\ i <= i /\ d[i].sequence = i
    BY <1>1, <1>6, <1>7
  <2>. QED BY ONLY <1>8, <1>9, <1>10, <2>1, FirstIsReported
<1>. QED BY <1>11 DEF d

\* Recomputing the edited entry's own hash breaks the link of the next one.
LEMMA ResignReported ==
  ASSUME NEW c, InFile(c), NEW i \in 1..Len(c), i < Len(c),
         NEW r \in Payloads, NEW p, p = Json(r), p # c[i].payload,
         NEW B, B = {k \in Ledger!Broken(c) : k < i}
  PROVE  Reported(Resigned(c, i, p), B \cup {i + 1})
<1>. DEFINE d == Resigned(c, i, p)
            h == Ledger!Digest(Ledger!Unsigned(Edited(c, i, p)[i]))
<1>1. Len(c) \in Nat /\ DOMAIN c = 1..Len(c) /\ i \in Nat /\ i + 1 \in 1..Len(c)
  BY DEF InFile, IsChain
<1>2. PICK q, e : q = c[i].hash.sha256.payload /\ e = c[i]
  OBVIOUS
<1>3. /\ q \in Payloads /\ e.payload = Json(q) /\ e.sequence = i
      /\ e.previousHash = Ledger!PreviousHash(c, i)
      /\ e.hash = Ledger!Digest([sequence |-> i, previousHash |-> e.previousHash, payload |-> q])
      /\ e = [sequence |-> e.sequence, previousHash |-> e.previousHash,
              payload |-> e.payload, hash |-> e.hash]
  BY <1>2, FileEntry
<1>4. h = Ledger!Digest([sequence |-> i, previousHash |-> e.previousHash, payload |-> p])
  <2>1. Edited(c, i, p)[i] = [e EXCEPT !.payload = p]
    BY <1>1, <1>2 DEF Edited
  <2>2. Ledger!Unsigned(Edited(c, i, p)[i])
          = [sequence |-> i, previousHash |-> e.previousHash, payload |-> p]
    BY <1>3, <2>1 DEF Ledger!Unsigned
  <2>. QED BY <2>2
<1>. HIDE DEF h
<1>5. d = [c EXCEPT ![i] = [[@ EXCEPT !.payload = p] EXCEPT !.hash = h]]
  BY <1>1 DEF Resigned, h
<1>. HIDE DEF d
<1>6. DOMAIN d = DOMAIN c /\ \A k \in 1..Len(c) : k # i => d[k] = c[k]
  BY <1>1, <1>5
<1>7. d[i] = [[e EXCEPT !.payload = p] EXCEPT !.hash = h]
  BY <1>1, <1>2, <1>5
<1>8. /\ d[i].payload = p /\ d[i].hash = h
      /\ d[i].sequence = i /\ d[i].previousHash = e.previousHash
  BY <1>3, <1>7
<1>9. Len(d) = Len(c)
  BY <1>1, <1>6
<1>10. i + 1 \in Ledger!Broken(d)
  <2>1. c[i + 1].previousHash = e.hash
    BY <1>1, <1>2, NextLink
  <2>2. p # q
    BY <1>2, <1>3, EditUncovered
  <2>3. PICK v : v = e.previousHash
    OBVIOUS
  <2>4. Ledger!Digest([sequence |-> i, previousHash |-> v, payload |-> q])
          # Ledger!Digest([sequence |-> i, previousHash |-> v, payload |-> p])
    BY <2>2 DEF Ledger!Digest
  <2>5. h # e.hash
    BY <1>3, <1>4, <2>3, <2>4
  <2>6. d[i + 1].previousHash # Ledger!PreviousHash(d, i + 1)
    BY <1>1, <1>6, <1>8, <2>1, <2>5 DEF Ledger!PreviousHash
  <2>. QED BY <1>1, <1>9, <2>6 DEF Ledger!Broken
<1>11. i \notin Ledger!Broken(d)
  <2>1. Ledger!PreviousHash(d, i) = Ledger!PreviousHash(c, i)
    BY <1>1, <1>6 DEF Ledger!PreviousHash
  <2>2. Ledger!Unsigned(d[i]) = [sequence |-> i, previousHash |-> e.previousHash, payload |-> p]
    BY <1>8 DEF Ledger!Unsigned
  <2>. QED BY <1>3, <1>4, <1>8, <2>1, <2>2 DEF Ledger!Broken
<1>12. B = {k \in Ledger!Broken(d) : k < i + 1}
  <2>1. {k \in Ledger!Broken(d) : k < i} = B
    BY <1>1, <1>6, <1>9, BrokenBefore
  <2>2. \A k \in Ledger!Broken(d) : k \in Nat /\ (k < i + 1 <=> (k < i \/ k = i))
    BY <1>1 DEF Ledger!Broken
  <2>. QED BY <1>11, <2>1, <2>2
<1>13. d[i + 1].sequence = i + 1 /\ \A k \in B : d[k].sequence = k
  <2>1. \A k \in B : k \in 1..Len(c) /\ k # i
    BY <1>1 DEF Ledger!Broken
  <2>2. \A k \in 1..Len(c) : c[k].sequence = k
    BY FileEntry
  <2>. QED BY <1>1, <1>6, <2>1, <2>2
<1>14. Reported(d, B \cup {i + 1})
  <2>1. Len(d) \in Nat /\ i + 1 \in Nat /\ i + 1 <= i + 1
    BY <1>1, <1>9
  <2>. QED BY ONLY <1>10, <1>12, <1>13, <2>1, FirstIsReported
<1>. QED BY <1>14 DEF d

\* An entry taken out of the middle is reported at the one after it.
LEMMA RemovalReported ==
  ASSUME NEW c, InFile(c), NEW i \in 1..Len(c), i < Len(c),
         NEW B, B = {k \in Ledger!Broken(c) : k < i}
  PROVE  Reported(Removed(c, i), B \cup {i + 1})
<1>. DEFINE d == Removed(c, i)
            T == {c[k] : k \in 1..Len(c)}
<1>1. Len(c) \in Nat /\ c \in Seq(T) /\ i \in Nat /\ i + 1 \in 1..Len(c)
  BY DEF InFile, IsChain
<1>. HIDE DEF T
<1>2. /\ Len(d) = Len(c) - 1 /\ d[i] = c[i + 1]
      /\ \A k \in 1..(i - 1) : d[k] = c[k]
  BY <1>1 DEF Removed
<1>. HIDE DEF d
<1>3. i \in Ledger!Broken(d)
  <2>1. PICK q, e, v : q = c[i].hash.sha256.payload /\ e = c[i] /\ v = e.previousHash
    OBVIOUS
  <2>2. /\ c[i + 1].previousHash = c[i].hash
        /\ c[i].hash = Ledger!Digest([sequence |-> i, previousHash |-> v, payload |-> q])
    <3>1. c[i + 1].previousHash = c[i].hash
      BY <1>1, NextLink
    <3>2. /\ q \in Payloads /\ e.payload = Json(q) /\ e.sequence = i
          /\ e.hash = Ledger!Digest([sequence |-> i, previousHash |-> e.previousHash,
                                     payload |-> q])
          /\ e = [sequence |-> e.sequence, previousHash |-> e.previousHash,
                  payload |-> e.payload, hash |-> e.hash]
      BY <2>1, FileEntry
    <3>. QED BY <2>1, <3>1, <3>2
  <2>3. c[i].hash # Ledger!PreviousHash(d, i)
    <3>1. CASE i = 1
      BY <3>1, <2>2 DEF Ledger!PreviousHash, Ledger!Digest, Ledger!Genesis
    <3>2. CASE i # 1
      <4>1. i - 1 \in 1..Len(c) /\ d[i - 1] = c[i - 1]
        BY <1>1, <1>2, <3>2
      <4>2. PICK p, x, u, m : /\ m = i - 1 /\ m \in 1..Len(c) /\ x = c[m]
                              /\ p = c[m].hash.sha256.payload /\ u = x.previousHash
        BY <4>1
      <4>3. c[i - 1].hash = Ledger!Digest([sequence |-> i - 1, previousHash |-> u, payload |-> p])
        <5>1. /\ p \in Payloads /\ x.payload = Json(p) /\ x.sequence = m
              /\ x.hash = Ledger!Digest([sequence |-> m, previousHash |-> x.previousHash,
                                         payload |-> p])
              /\ x = [sequence |-> x.sequence, previousHash |-> x.previousHash,
                      payload |-> x.payload, hash |-> x.hash]
          BY <4>2, FileEntry
        <5>. QED BY <4>2, <5>1
      <4>4. Ledger!Digest([sequence |-> i - 1, previousHash |-> u, payload |-> p])
              # Ledger!Digest([sequence |-> i, previousHash |-> v, payload |-> q])
        BY <1>1 DEF Ledger!Digest
      <4>. QED BY <2>2, <3>2, <4>1, <4>3, <4>4 DEF Ledger!PreviousHash
    <3>. QED BY <3>1, <3>2
  <2>. QED BY <1>1, <1>2, <2>2, <2>3 DEF Ledger!Broken
<1>4. B = {k \in Ledger!Broken(d) : k < i}
  BY <1>1, <1>2, BrokenBefore
<1>5. d[i].sequence = i + 1 /\ \A k \in B : d[k].sequence = k
  <2>1. \A k \in B : k \in 1..Len(c) /\ k \in 1..(i - 1)
    BY <1>1 DEF Ledger!Broken
  <2>2. \A k \in 1..Len(c) : c[k].sequence = k
    BY FileEntry
  <2>. QED BY <1>1, <1>2, <2>1, <2>2
<1>6. Reported(d, B \cup {i + 1})
  <2>1. Len(d) \in Nat /\ i + 1 \in Nat /\ i <= i + 1
    BY <1>1, <1>2
  <2>. QED BY ONLY <1>3, <1>4, <1>5, <2>1, FirstIsReported
<1>. QED BY <1>6 DEF d

\* Edits of the file any set of appenders has written are reported where they bite, or at
\* an undefined field before them (verifyWhoAudit, whoAudit.ts:70-85).
THEOREM AlwaysTamperEvident == AuditSpec => []TamperEvident
<1>1. AuditIInv => TamperEvident
  <2>. SUFFICES ASSUME AuditIInv, NEW i \in 1..Len(chain)
       PROVE  /\ \A p \in {Json(q) : q \in Payloads} \ {chain[i].payload} :
                   /\ Reported(Edited(chain, i, p), Before(i) \cup {i})
                   /\ i < Len(chain) => Reported(Resigned(chain, i, p), Before(i) \cup {i + 1})
              /\ i < Len(chain) => Reported(Removed(chain, i), Before(i) \cup {i + 1})
    BY DEF TamperEvident
  <2>1. InFile(chain)
    BY DEF AuditIInv
  <2>2. PICK B : B = Before(i) /\ B = {k \in Ledger!Broken(chain) : k < i}
    BY DEF Before
  <2>3. ASSUME NEW r \in Payloads, NEW p, p = Json(r), p # chain[i].payload
        PROVE  /\ Reported(Edited(chain, i, p), B \cup {i})
               /\ i < Len(chain) => Reported(Resigned(chain, i, p), B \cup {i + 1})
    BY <2>1, <2>2, <2>3, EditReported, ResignReported
  <2>4. i < Len(chain) => Reported(Removed(chain, i), B \cup {i + 1})
    BY <2>1, <2>2, RemovalReported
  <2>. QED BY <2>2, <2>3, <2>4
<1>. QED BY <1>1, AuditInvariance, PTL

\* The file never outgrows its bound and a draft is never empty while a call is under
\* way (appendWhoAudit, whoAudit.ts:34-68).
THEOREM AuditTypes == AuditSpec => []AuditTypeOK
<1>1. AuditInit => AuditTypeOK
  BY EntriesAssumption DEF AuditInit, AuditTypeOK
<1>2. AuditIInv /\ AuditTypeOK /\ [AuditNext]_auditVars => AuditTypeOK'
  <2>. SUFFICES ASSUME AuditIInv, AuditTypeOK, [AuditNext]_auditVars PROVE AuditTypeOK'
    OBVIOUS
  <2>1. ASSUME NEW a \in Appenders, NEW p \in Payloads, Load(a, p) PROVE AuditTypeOK'
    <3>. DEFINE d == Ledger!Extend(chain, p)
    <3>1. Len(chain) \in Nat /\ Len(chain) < MaxEntries
      BY <2>1, EntriesAssumption DEF AuditTypeOK, Load
    <3>2. Len(d) = Len(chain) + 1 /\ d # <<>>
      BY ExtendSigned DEF AuditIInv, InFile
    <3>3. Len(d) \in 0..MaxEntries
      BY <3>1, <3>2, EntriesAssumption
    <3>4. /\ phase' = [phase EXCEPT ![a] = "save"] /\ draft' = [draft EXCEPT ![a] = d]
          /\ chain' = chain
      BY <2>1 DEF Load
    <3>. HIDE DEF d
    <3>. QED BY <3>2, <3>3, <3>4 DEF AuditIInv, AuditTypeOK
  <2>2. ASSUME NEW a \in Appenders, Save(a) PROVE AuditTypeOK'
    <3>1. Len(chain') = Len(draft[a])
      BY <2>2, SavedInFile DEF Save, AuditIInv
    <3>. QED BY <2>2, <3>1 DEF Save, AuditIInv, AuditTypeOK
  <2>3. ASSUME NEW a \in Appenders, WriteShard(a) PROVE AuditTypeOK'
    BY <2>3, EntriesAssumption DEF WriteShard, AuditIInv, AuditTypeOK
  <2>4. ASSUME NEW a \in Appenders, Abort(a) PROVE AuditTypeOK'
    BY <2>4, EntriesAssumption DEF Abort, AuditIInv, AuditTypeOK
  <2>5. CASE UNCHANGED auditVars
    BY <2>5 DEF auditVars, AuditTypeOK
  <2>. QED BY <2>1, <2>2, <2>3, <2>4, <2>5 DEF AuditNext
<1>. QED BY <1>1, <1>2, AuditInvariance, PTL DEF AuditSpec

-------------------------------------------------------------------------------
\* A data directory that only one process appends to.
OneAppender == \A a, b \in Appenders : a = b

\* Chain d is, as JSON keeps it, chain c.
IsJsonOf(d, c) == Len(d) = Len(c) /\ \A i \in 1..Len(c) : d[i] = Stored(c[i])

\* What its appender is about to write extends the file by one entry, or is written;
\* what it has handed out, as a shard or as a result, is in the file.
OneAppenderIInv ==
  /\ \A a \in Appenders : phase[a] = "save" =>
       \E p \in Payloads : draft[a] = Ledger!Extend(chain, p)
  /\ \A a \in Appenders : phase[a] = "shard" => IsJsonOf(chain, draft[a])
  /\ ShardsInChain
  /\ \A a \in Appenders : returned[a] # NoEntry =>
       /\ returned[a].sequence \in 1..Len(chain)
       /\ chain[returned[a].sequence] = Stored(returned[a])

\* What has been through JSON once is not changed by it.
LEMMA StoredOnce ==
  ASSUME NEW c, InFile(c), NEW i \in 1..Len(c)
  PROVE  Stored(c[i]) = c[i]
<1>1. PICK q, e : q = c[i].hash.sha256.payload /\ e = c[i]
  OBVIOUS
<1>2. /\ q \in Payloads /\ e.payload = Json(q) /\ e.sequence = i
      /\ e.hash = Ledger!Digest([sequence |-> i, previousHash |-> e.previousHash, payload |-> q])
      /\ e = [sequence |-> e.sequence, previousHash |-> e.previousHash,
              payload |-> e.payload, hash |-> e.hash]
  BY <1>1, FileEntry
<1>3. Json(e.payload) = e.payload
  BY <1>2, JsonFacts
<1>. QED BY <1>1, <1>2, <1>3 DEF Stored

\* Saving the extension of a file leaves its entries alone.
LEMMA SaveKeeps ==
  ASSUME NEW c, InFile(c), NEW p \in Payloads, NEW d, d = Ledger!Extend(c, p),
         NEW f, f = [i \in 1..Len(d) |-> Stored(d[i])]
  PROVE  /\ Len(c) \in Nat /\ Len(f) = Len(c) + 1 /\ IsJsonOf(f, d)
         /\ \A i \in 1..Len(c) : i \in 1..Len(f) /\ f[i] = c[i]
<1>1. IsChain(d) /\ Signed(d) /\ Len(c) \in Nat /\ Len(d) = Len(c) + 1
      /\ \A i \in 1..Len(c) : d[i] = c[i]
  BY ExtendSigned DEF InFile
<1>2. Len(f) = Len(d) /\ \A i \in 1..Len(d) : f[i] = Stored(d[i])
  BY <1>1, SavedInFile
<1>3. \A i \in 1..Len(c) : i \in 1..Len(f) /\ f[i] = c[i]
  BY <1>1, <1>2, StoredOnce
<1>. QED BY <1>1, <1>2, <1>3 DEF IsJsonOf

\* Every step of the only appender keeps what it knows of the file.
THEOREM OneAppenderInvariance ==
  ASSUME OneAppender
  PROVE  AuditSpec => []OneAppenderIInv
<1>1. AuditInit => OneAppenderIInv
  BY DEF AuditInit, OneAppenderIInv, ShardsInChain
<1>2. AuditIInv /\ AuditTypeOK /\ OneAppenderIInv /\ [AuditNext]_auditVars => OneAppenderIInv'
  <2>. SUFFICES ASSUME AuditIInv, AuditTypeOK, OneAppenderIInv, [AuditNext]_auditVars PROVE OneAppenderIInv'
    OBVIOUS
  <2>1. ASSUME NEW a \in Appenders, NEW p \in Payloads, Load(a, p) PROVE OneAppenderIInv'
    BY <2>1 DEF Load, OneAppenderIInv, OneAppender, AuditIInv, ShardsInChain, IsJsonOf
  <2>2. ASSUME NEW a \in Appenders, Save(a) PROVE OneAppenderIInv'
    <3>1. PICK p \in Payloads : draft[a] = Ledger!Extend(chain, p)
      BY <2>2 DEF Save, OneAppenderIInv
    <3>2. /\ chain' = [i \in 1..Len(draft[a]) |-> Stored(draft[a][i])]
          /\ phase' = [phase EXCEPT ![a] = "shard"]
          /\ shards' = shards /\ draft' = draft /\ returned' = returned
      BY <2>2 DEF Save
    <3>3. /\ Len(chain) \in Nat /\ Len(chain') = Len(chain) + 1 /\ IsJsonOf(chain', draft[a])
          /\ \A i \in 1..Len(chain) : i \in 1..Len(chain') /\ chain'[i] = chain[i]
      BY <3>1, <3>2, SaveKeeps DEF AuditIInv
    <3>5. ShardsInChain'
      BY <3>2, <3>3 DEF OneAppenderIInv, ShardsInChain
    <3>6. \A b \in Appenders : returned'[b] # NoEntry =>
            /\ returned'[b].sequence \in 1..Len(chain')
            /\ chain'[returned'[b].sequence] = Stored(returned'[b])
      BY <3>2, <3>3 DEF OneAppenderIInv
    <3>7. \A b \in Appenders : b = a
      BY DEF OneAppender
    <3>8. phase'[a] = "shard" /\ IsJsonOf(chain, draft[a])'
      BY <3>2, <3>3 DEF AuditIInv, IsJsonOf
    <3>. QED BY <3>5, <3>6, <3>7, <3>8 DEF OneAppenderIInv, Stored
  <2>3. ASSUME NEW a \in Appenders, WriteShard(a) PROVE OneAppenderIInv'
    <3>1. /\ phase[a] = "shard" /\ chain' = chain /\ IsJsonOf(chain, draft[a])
          /\ phase' = [phase EXCEPT ![a] = "idle"] /\ draft' = [draft EXCEPT ![a] = <<>>]
      BY <2>3 DEF WriteShard, OneAppenderIInv
    <3>2. PICK e : e = draft[a][Len(draft[a])]
      OBVIOUS
    <3>3. shards' = shards \cup {Stored(e)} /\ returned' = [returned EXCEPT ![a] = e]
      BY <2>3, <3>1, <3>2 DEF WriteShard, Entry
    <3>4. Len(draft[a]) \in 1..Len(draft[a]) /\ Len(chain) = Len(draft[a])
      <4>1. draft[a] # <<>> /\ IsChain(draft[a])
        BY <3>1 DEF AuditTypeOK, AuditIInv
      <4>2. Len(draft[a]) # 0
        BY <4>1 DEF IsChain
      <4>. QED BY <3>1, <4>2, EntriesAssumption DEF AuditTypeOK, IsJsonOf
    <3>5. e.sequence = Len(chain) /\ chain[Len(chain)] = Stored(e) /\ Len(chain) \in 1..Len(chain)
      <4>1. \A i \in 1..Len(draft[a]) : draft[a][i].sequence = i
        BY SignedFields DEF AuditIInv
      <4>. QED BY <3>1, <3>2, <3>4, <4>1 DEF IsJsonOf
    <3>6. ShardsInChain'
      BY <3>1, <3>3, <3>5 DEF OneAppenderIInv, ShardsInChain
    <3>7. \A b \in Appenders : b = a
      BY DEF OneAppender
    <3>8. \A b \in Appenders : returned'[b] # NoEntry =>
            /\ returned'[b].sequence \in 1..Len(chain)
            /\ chain[returned'[b].sequence] = Stored(returned'[b])
      BY <3>3, <3>5, <3>7 DEF OneAppenderIInv
    <3>. QED BY <3>1, <3>6, <3>7, <3>8 DEF OneAppenderIInv, AuditIInv, Stored
  <2>4. ASSUME NEW a \in Appenders, Abort(a) PROVE OneAppenderIInv'
    BY <2>4 DEF Abort, OneAppenderIInv, OneAppender, AuditIInv, ShardsInChain, IsJsonOf
  <2>5. CASE UNCHANGED auditVars
    BY <2>5 DEF auditVars, OneAppenderIInv, ShardsInChain, IsJsonOf
  <2>. QED BY <2>1, <2>2, <2>3, <2>4, <2>5 DEF AuditNext
<1>. QED BY <1>1, <1>2, AuditInvariance, AuditTypes, PTL DEF AuditSpec

\* An entry the only appender got back stays where it was told, so the auditSequence
\* of a job keeps naming the job's own entry (whoAudit.ts:62, whoWorker.ts:166-193).
THEOREM EntriesAreKept ==
  ASSUME OneAppender
  PROVE  AuditSpec => []ReturnedEntryKept
<1>1. AuditIInv /\ OneAppenderIInv => ReturnedEntryKept
  BY DEF AuditIInv, InFile, IsChain, OneAppenderIInv, ReturnedEntryKept
<1>. QED BY <1>1, AuditInvariance, OneAppenderInvariance, PTL

\* Every shard of the only appender is an entry of the chain (whoAuditShardCount,
\* whoAudit.ts:87-90).
THEOREM ShardsAreEntries ==
  ASSUME OneAppender
  PROVE  AuditSpec => []ShardsInChain
<1>1. OneAppenderIInv => ShardsInChain
  BY DEF OneAppenderIInv
<1>. QED BY <1>1, OneAppenderInvariance, PTL

\* The entries a file stands for.
Ghost(c) == [i \in 1..Len(c) |-> Appended(c[i])]

\* Saving a file that was extended by p appends p to what the file stands for.
LEMMA SaveAppends ==
  ASSUME NEW c, InFile(c), NEW p \in Payloads, NEW d, d = Ledger!Extend(c, p),
         NEW f, f = [i \in 1..Len(d) |-> Stored(d[i])]
  PROVE  Len(Ghost(c)) = Len(c) /\ Ghost(f) = Ledger!Extend(Ghost(c), p)
<1>. DEFINE n == Len(c) + 1
            T == {Appended(c[i]) : i \in 1..Len(c)}
<1>1. PICK e, v : v = Ledger!PreviousHash(c, n) /\ e = Ledger!SignEntry(n, v, p)
  OBVIOUS
<1>2. /\ IsChain(d) /\ Signed(d) /\ Len(c) \in Nat /\ Len(d) = n
      /\ \A i \in 1..Len(c) : d[i] = c[i]
      /\ d[n] = e
  BY <1>1, ExtendSigned DEF InFile
<1>3. Len(f) = n /\ \A i \in 1..n : f[i] = Stored(d[i])
  BY <1>2, SavedInFile
<1>4. \A i \in 1..n : Appended(f[i]) = Appended(d[i])
  <2>1. \A i \in 1..n : f[i].hash = d[i].hash
    BY <1>3 DEF Stored
  <2>. QED BY <2>1 DEF Appended
<1>5. Appended(e) = e
  BY <1>1 DEF Appended, Ledger!SignEntry, Ledger!Digest
<1>6. Ghost(f) = [i \in 1..n |-> IF i = n THEN e ELSE Appended(c[i])]
  <2>1. \A i \in 1..n : i # n => i \in 1..Len(c)
    BY <1>2
  <2>. QED BY <1>2, <1>3, <1>4, <1>5, <2>1 DEF Ghost
<1>7. Ghost(c) \in Seq(T) /\ Len(Ghost(c)) = Len(c)
      /\ \A i \in 1..Len(c) : Ghost(c)[i] = Appended(c[i])
  BY <1>2 DEF Ghost
<1>8. Ledger!PreviousHash(Ghost(c), n) = v
  <2>1. \A i \in 1..Len(c) : Ghost(c)[i].hash = c[i].hash
    <3>1. \A x : Appended(x).hash = x.hash
      BY DEF Appended
    <3>. QED BY <1>7, <3>1
  <2>. QED BY <1>1, <1>2, <2>1 DEF Ledger!PreviousHash
<1>9. Ledger!Extend(Ghost(c), p) = Append(Ghost(c), e)
  BY <1>1, <1>7, <1>8 DEF Ledger!Extend
<1>10. Append(Ghost(c), e) = [i \in 1..n |-> IF i = n THEN e ELSE Appended(c[i])]
  <2>1. PICK s : s = Ghost(c)
    OBVIOUS
  <2>2. s \in Seq(T) /\ Len(s) = Len(c) /\ \A i \in 1..Len(c) : s[i] = Appended(c[i])
    BY <1>7, <2>1
  <2>. HIDE DEF T
  <2>3. Append(s, e) = [i \in 1..n |-> IF i = n THEN e ELSE s[i]]
    <3>1. PICK t : t = Append(s, e)
      OBVIOUS
    <3>2. s \in Seq(T \cup {e}) /\ e \in T \cup {e} /\ Len(s) \in Nat
      BY <2>2
    <3>3. t \in Seq(T \cup {e}) /\ Len(t) = Len(s) + 1 /\ t[Len(s) + 1] = e
          /\ \A i \in 1..Len(s) : t[i] = s[i]
      BY <3>1, <3>2
    <3>4. DOMAIN t = 1..n /\ \A i \in 1..n : t[i] = IF i = n THEN e ELSE s[i]
      BY <2>2, <3>2, <3>3
    <3>5. t = [i \in DOMAIN t |-> t[i]]
      BY <3>3
    <3>. QED BY <3>1, <3>4, <3>5
  <2>4. \A i \in 1..n : (IF i = n THEN e ELSE s[i]) = IF i = n THEN e ELSE Appended(c[i])
    <3>1. \A i \in 1..n : i # n => i \in 1..Len(c)
      BY <1>2
    <3>2. \A i \in 1..n : i # n => s[i] = Appended(c[i])
      BY <2>2, <3>1
    <3>. QED BY <3>2
  <2>. QED BY <2>1, <2>3, <2>4
<1>. QED BY <1>6, <1>7, <1>9, <1>10

\* With one appender the file stands for the in-memory ledger: it is empty at first, and
\* every step appends one signed entry or leaves it alone (whoAudit.ts:34-68 against
\* packages/audit/src/index.ts:40-60).
THEOREM FileIsLedger ==
  ASSUME OneAppender
  PROVE  AuditSpec => ImplementsLedger
<1>1. AuditInit => Ledger!Init
  BY DEF AuditInit, Ledger!Init
<1>2. AuditIInv /\ AuditTypeOK /\ OneAppenderIInv /\ [AuditNext]_auditVars
        => [Ledger!Next]_([i \in 1..Len(chain) |-> Appended(chain[i])])
  <2>. SUFFICES ASSUME AuditIInv, AuditTypeOK, OneAppenderIInv, [AuditNext]_auditVars
                PROVE  [Ledger!Next]_([i \in 1..Len(chain) |-> Appended(chain[i])])
    OBVIOUS
  <2>1. ASSUME NEW a \in Appenders, Save(a) PROVE Ledger!Next
    <3>1. PICK p \in Payloads : draft[a] = Ledger!Extend(chain, p)
      BY <2>1 DEF Save, OneAppenderIInv
    <3>2. chain' = [i \in 1..Len(draft[a]) |-> Stored(draft[a][i])]
      BY <2>1 DEF Save
    <3>3. Len(chain) \in Nat /\ Len(chain') = Len(chain) + 1
      BY <3>1, <3>2, SaveKeeps DEF AuditIInv
    <3>4. Len(chain) < MaxEntries
      <4>1. Len(draft[a]) = Len(chain) + 1 /\ Len(draft[a]) \in 0..MaxEntries
        BY <3>1, ExtendSigned DEF AuditIInv, InFile, AuditTypeOK
      <4>. QED BY <3>3, <4>1, EntriesAssumption
    <3>5. Len(Ghost(chain)) = Len(chain) /\ Ghost(chain') = Ledger!Extend(Ghost(chain), p)
      BY <3>1, <3>2, SaveAppends DEF AuditIInv
    <3>. QED BY <3>4, <3>5 DEF Ghost, Ledger!Next, Ledger!AppendEntry
  <2>2. ASSUME NEW a \in Appenders, ~Save(a),
               (\E p \in Payloads : Load(a, p)) \/ WriteShard(a) \/ Abort(a)
        PROVE  chain' = chain
    BY <2>2 DEF Load, WriteShard, Abort
  <2>3. CASE UNCHANGED auditVars
    BY <2>3 DEF auditVars
  <2>. QED BY <2>1, <2>2, <2>3 DEF AuditNext
<1>. QED BY <1>1, <1>2, AuditInvariance, AuditTypes, OneAppenderInvariance, PTL
       DEF AuditSpec, ImplementsLedger, Ledger!Spec

-------------------------------------------------------------------------------
Distinct(s) == \A i, k \in 1..Len(s) : s[i] = s[k] => i = k

\* A document of entity e whose pointers resolve and which lists nothing twice.
Sound(e, d) ==
  /\ d \in Document
  /\ \A i \in 1..Len(d.dossierIds) : d.dossierIds[i] \in OnDisk(e)
  /\ \E i \in 1..Len(d.dossierIds) : d.dossierIds[i] = d.latest
  /\ Distinct(d.dossierIds) /\ Distinct(d.jobIds)

Working(w) ==
  /\ step[w] \in {"idle", "read", "write"}
  /\ step[w] # "idle" => /\ at[w].job \in Jobs
                         /\ at[w].dossier \in OnDisk(at[w].dossier.entity)
  /\ step[w] = "write" => Sound(at[w].dossier.entity, entry[w])

DossiersIInv ==
  /\ window \in 0..MaxWindow
  /\ disk \in [DossierId -> Jobs \cup {NoJob}]
  /\ DOMAIN index = Entities /\ DOMAIN step = Workers
  /\ DOMAIN at = Workers /\ DOMAIN entry = Workers
  /\ \A e \in Entities : index[e] # NoDoc => Sound(e, index[e])
  /\ \A w \in Workers : Working(w)

-------------------------------------------------------------------------------
\* t is a sequence over S without repetitions that holds x and elements of s.
Gains(S, s, x, t) ==
  /\ t \in Seq(S) /\ Distinct(t)
  /\ \A i \in 1..Len(t) : t[i] = x \/ \E k \in 1..Len(s) : t[i] = s[k]
  /\ \E i \in 1..Len(t) : t[i] = x

\* Adding x to a sequence without repetitions yields one, which holds x and elements
\* it held.
LEMMA AddedLemma ==
  ASSUME NEW S, NEW s \in Seq(S), NEW x \in S, Distinct(s)
  PROVE  Gains(S, s, x, Added(s, x))
<1>1. CASE Contains(s, x)
  <2>1. Added(s, x) = s  BY <1>1 DEF Added
  <2>2. \E i \in 1..Len(s) : s[i] = x  BY <1>1 DEF Contains
  <2> QED  BY <2>1, <2>2 DEF Gains
<1>2. CASE ~Contains(s, x)
  <2>1. Added(s, x) = Append(s, x)  BY <1>2 DEF Added
  <2>2. \A i \in 1..Len(s) : s[i] # x  BY <1>2 DEF Contains
  <2> DEFINE t == Append(s, x)
  <2>3. /\ t \in Seq(S) /\ Len(t) = Len(s) + 1 /\ t[Len(s) + 1] = x
        /\ \A i \in 1..Len(s) : t[i] = s[i]
    OBVIOUS
  <2>4. Len(s) \in Nat  OBVIOUS
  <2> HIDE DEF t
  <2>5. \A i \in 1..Len(t) : i \in 1..Len(s) \/ i = Len(s) + 1  BY <2>3, <2>4
  <2>6. Len(s) + 1 \in 1..Len(t)  BY <2>3, <2>4
  <2>7. Distinct(t)  BY <2>2, <2>3, <2>5 DEF Distinct
  <2>8. \A i \in 1..Len(t) : t[i] = x \/ \E k \in 1..Len(s) : t[i] = s[k]
    BY <2>3, <2>5
  <2>9. Gains(S, s, x, t)  BY <2>3, <2>6, <2>7, <2>8 DEF Gains
  <2> QED  BY <2>1, <2>9 DEF t
<1> QED  BY <1>1, <1>2

\* The upsert of a sound document, or of none, is a sound document.
LEMMA UpsertLemma ==
  ASSUME NEW e, NEW prev, prev # NoDoc => Sound(e, prev),
         NEW id \in OnDisk(e), NEW j \in Jobs
  PROVE  Sound(e, Upsert(prev, j, id))
<1>0. id \in DossierId  BY DEF OnDisk
<1>1. CASE prev = NoDoc
  <2> DEFINE d == [latest |-> id, dossierIds |-> <<id>>, jobIds |-> <<j>>]
  <2>1. Upsert(prev, j, id) = d  BY <1>1 DEF Upsert
  <2>2. d \in Document  BY <1>0 DEF Document
  <2>3. Len(<<id>>) = 1 /\ Len(<<j>>) = 1 /\ <<id>>[1] = id  OBVIOUS
  <2> QED  BY <2>1, <2>2, <2>3 DEF Sound, Distinct
<1>2. CASE prev # NoDoc
  <2> DEFINE ids == Added(prev.dossierIds, id)
             js  == Added(prev.jobIds, j)
             d   == [latest |-> id, dossierIds |-> ids, jobIds |-> js]
  <2>1. Sound(e, prev)  BY <1>2
  <2>2. prev.dossierIds \in Seq(DossierId) /\ prev.jobIds \in Seq(Jobs)
    BY <2>1 DEF Sound, Document
  <2>3. Gains(DossierId, prev.dossierIds, id, ids)
    <3>1. Distinct(prev.dossierIds)  BY <2>1 DEF Sound
    <3> QED  BY <1>0, <2>2, <3>1, AddedLemma
  <2>4. Gains(Jobs, prev.jobIds, j, js)
    <3>1. Distinct(prev.jobIds)  BY <2>1 DEF Sound
    <3> QED  BY <2>2, <3>1, AddedLemma
  <2>6. Upsert(prev, j, id) = d  BY <1>2 DEF Upsert
  <2> HIDE DEF ids, js
  <2>5. \A i \in 1..Len(ids) : ids[i] \in OnDisk(e)
    BY <2>1, <2>3 DEF Sound, Gains
  <2>7. d \in Document  BY <1>0, <2>3, <2>4 DEF Document, Gains
  <2> QED  BY <2>3, <2>4, <2>5, <2>6, <2>7 DEF Sound, Gains
<1> QED  BY <1>1, <1>2

\* No file is ever removed, so what was sound stays sound.
LEMMA DiskGrows ==
  ASSUME DossiersIInv, DossiersNext
  PROVE  /\ disk' \in [DossierId -> Jobs \cup {NoJob}]
         /\ \A e : OnDisk(e) \subseteq OnDisk(e)'
<1>1. CASE UNCHANGED disk
  BY <1>1 DEF DossiersIInv, OnDisk
<1>2. ASSUME NEW w \in Workers, NEW j \in Jobs, NEW e \in Entities, WriteDossier(w, j, e)
      PROVE  /\ disk' \in [DossierId -> Jobs \cup {NoJob}]
             /\ \A f : OnDisk(f) \subseteq OnDisk(f)'
  <2> DEFINE id == [entity |-> e, window |-> window]
  <2>1. id \in DossierId  BY DEF DossiersIInv, DossierId
  <2>2. disk' = [disk EXCEPT ![id] = j]  BY <1>2 DEF WriteDossier
  <2> HIDE DEF id
  <2> QED  BY <2>1, <2>2, NoJobAssumption DEF DossiersIInv, OnDisk
<1> QED  BY <1>1, <1>2 DEF DossiersNext, ReadIndex, WriteIndex, AbortUpsert, NextWindow

LEMMA SoundStays ==
  ASSUME NEW e, NEW d, Sound(e, d), OnDisk(e) \subseteq OnDisk(e)'
  PROVE  Sound(e, d)'
BY DEF Sound, Document, DossierId

\* The invariant, and what it says of the properties.
THEOREM DossiersInvariance == DossiersSpec => []DossiersIInv
<1>1. DossiersInit => DossiersIInv
  <2> SUFFICES ASSUME DossiersInit PROVE DossiersIInv  OBVIOUS
  <2>1. window \in 0..MaxWindow  BY BoundsAssumption DEF DossiersInit
  <2>2. \A w \in Workers : Working(w)  BY DEF DossiersInit, Working
  <2> QED  BY <2>1, <2>2 DEF DossiersInit, DossiersIInv
<1>2. DossiersIInv /\ [DossiersNext]_dossiersVars => DossiersIInv'
  <2> SUFFICES ASSUME DossiersIInv, [DossiersNext]_dossiersVars PROVE DossiersIInv'  OBVIOUS
  <2>1. CASE UNCHANGED dossiersVars
    <3>1. /\ disk' = disk /\ window' = window /\ index' = index
          /\ step' = step /\ at' = at /\ entry' = entry
      BY <2>1 DEF dossiersVars
    <3>2. \A e : OnDisk(e)' = OnDisk(e)  BY <3>1 DEF OnDisk
    <3>3. \A e, d : Sound(e, d) => Sound(e, d)'  BY <3>2, SoundStays
    <3>4. \A w \in Workers : Working(w)'  BY <3>1, <3>2, <3>3 DEF DossiersIInv, Working
    <3> QED  BY <3>1, <3>3, <3>4 DEF DossiersIInv
  <2>2. CASE DossiersNext
    <3>0. /\ disk' \in [DossierId -> Jobs \cup {NoJob}]
          /\ \A e : OnDisk(e) \subseteq OnDisk(e)'
      BY <2>2, DiskGrows
    <3>1. \A e, d : Sound(e, d) => Sound(e, d)'
      BY <3>0, SoundStays
    <3>2. \A w \in Workers : step'[w] = step[w] /\ at'[w] = at[w] /\ entry'[w] = entry[w]
                              => Working(w)'
      BY <3>0, <3>1 DEF DossiersIInv, Working
    <3>3. \A e \in Entities : index'[e] = index[e] => (index'[e] # NoDoc => Sound(e, index[e])')
      BY <3>1 DEF DossiersIInv
    <3>4. ASSUME NEW w \in Workers, NEW j \in Jobs, NEW e \in Entities, WriteDossier(w, j, e)
          PROVE  DossiersIInv'
      <4> DEFINE id == [entity |-> e, window |-> window]
                 work == [job |-> j, dossier |-> id]
      <4>1. id \in DossierId /\ id.entity = e  BY DEF DossiersIInv, DossierId
      <4>2. /\ disk' = [disk EXCEPT ![id] = j] /\ at' = [at EXCEPT ![w] = work]
            /\ step' = [step EXCEPT ![w] = "read"]
            /\ window' = window /\ index' = index /\ entry' = entry
        BY <3>4 DEF WriteDossier
      <4>3. work.job = j /\ work.dossier = id  OBVIOUS
      <4> HIDE DEF id, work
      <4>4. id \in OnDisk(e)'  BY <4>1, <4>2, NoJobAssumption DEF DossiersIInv, OnDisk
      <4>5. Working(w)'  BY <4>1, <4>2, <4>3, <4>4 DEF DossiersIInv, Working
      <4>6. \A x \in Workers : x # w => Working(x)'  BY <3>2, <4>2 DEF DossiersIInv
      <4> QED  BY <3>0, <3>3, <4>2, <4>5, <4>6 DEF DossiersIInv
    <3>5. ASSUME NEW w \in Workers, ReadIndex(w) PROVE DossiersIInv'
      <4> DEFINE e == at[w].dossier.entity
                 up == Upsert(index[e], at[w].job, at[w].dossier)
      <4>1. /\ step[w] = "read" /\ entry' = [entry EXCEPT ![w] = up]
            /\ step' = [step EXCEPT ![w] = "write"]
            /\ window' = window /\ disk' = disk /\ index' = index /\ at' = at
        BY <3>5 DEF ReadIndex, Entity
      <4>2. at[w].job \in Jobs /\ at[w].dossier \in OnDisk(e)
        BY <4>1 DEF DossiersIInv, Working
      <4>3. e \in Entities  BY <4>2 DEF OnDisk, DossierId
      <4>4. Sound(e, up)
        <5>1. index[e] # NoDoc => Sound(e, index[e])  BY <4>3 DEF DossiersIInv
        <5> HIDE DEF e
        <5> QED  BY <4>2, <5>1, UpsertLemma
      <4>5. Working(w)'  BY <3>0, <3>1, <4>1, <4>2, <4>4 DEF DossiersIInv, Working
      <4>6. \A x \in Workers : x # w => Working(x)'  BY <3>2, <4>1 DEF DossiersIInv
      <4> QED  BY <3>0, <3>3, <4>1, <4>5, <4>6 DEF DossiersIInv
    <3>6. ASSUME NEW w \in Workers, WriteIndex(w) PROVE DossiersIInv'
      <4> DEFINE e == at[w].dossier.entity
      <4>1. /\ step[w] = "write" /\ index' = [index EXCEPT ![e] = entry[w]]
            /\ step' = [step EXCEPT ![w] = "idle"]
            /\ at' = [at EXCEPT ![w] = NoWork] /\ entry' = [entry EXCEPT ![w] = NoDoc]
            /\ window' = window /\ disk' = disk
        BY <3>6 DEF WriteIndex, Leave, Entity
      <4>2. PICK f, d : f = e /\ d = entry[w]  OBVIOUS
      <4>3. Sound(f, d)'
        <5>1. Sound(f, d)  BY <4>1, <4>2 DEF DossiersIInv, Working
        <5> QED  BY <3>1, <5>1
      <4>4. \A g \in Entities : (index[g] # NoDoc => Sound(g, index[g]))'
        <5>1. \A g \in Entities : index'[g] = IF g = f THEN d ELSE index[g]
          BY <4>1, <4>2 DEF DossiersIInv
        <5> QED  BY <3>3, <4>3, <5>1
      <4>5. Working(w)'  BY <4>1 DEF DossiersIInv, Working
      <4>6. \A x \in Workers : x # w => Working(x)'  BY <3>2, <4>1 DEF DossiersIInv
      <4> QED  BY <3>0, <4>1, <4>4, <4>5, <4>6 DEF DossiersIInv
    <3>7. ASSUME NEW w \in Workers, AbortUpsert(w) PROVE DossiersIInv'
      <4>1. /\ step' = [step EXCEPT ![w] = "idle"]
            /\ at' = [at EXCEPT ![w] = NoWork] /\ entry' = [entry EXCEPT ![w] = NoDoc]
            /\ window' = window /\ disk' = disk /\ index' = index
        BY <3>7 DEF AbortUpsert, Leave
      <4>5. Working(w)'  BY <4>1 DEF DossiersIInv, Working
      <4>6. \A x \in Workers : x # w => Working(x)'  BY <3>2, <4>1 DEF DossiersIInv
      <4> QED  BY <3>0, <3>3, <4>1, <4>5, <4>6 DEF DossiersIInv
    <3>8. CASE NextWindow
      <4>1. window' \in 0..MaxWindow
        BY <3>8, BoundsAssumption DEF NextWindow, DossiersIInv
      <4>2. /\ disk' = disk /\ index' = index /\ step' = step
            /\ at' = at /\ entry' = entry
        BY <3>8 DEF NextWindow
      <4> QED  BY <3>0, <3>2, <3>3, <4>1, <4>2 DEF DossiersIInv
    <3> QED  BY <2>2, <3>4, <3>5, <3>6, <3>7, <3>8 DEF DossiersNext
  <2> QED  BY <2>1, <2>2
<1> QED  BY <1>1, <1>2, PTL DEF DossiersSpec

\* Every pointer of an entity's document resolves to a dossier of the entity that is
\* on disk, whatever the workers do (entityIndex.ts:27-61).
THEOREM PointersAlwaysResolve == DossiersSpec => []PointersResolve
<1>1. DossiersIInv => PointersResolve
  BY DEF DossiersIInv, PointersResolve, Sound, ToSet, Contains, Document
<1> QED  BY <1>1, DossiersInvariance, PTL

\* No dossier and no job is listed twice (entityIndex.ts:40-46).
THEOREM NeverDuplicates == DossiersSpec => []NoDuplicates
<1>1. DossiersIInv => NoDuplicates
  <2> SUFFICES ASSUME DossiersIInv, NEW e \in Entities, index[e] # NoDoc
               PROVE  IsInjective(index[e].dossierIds) /\ IsInjective(index[e].jobIds)
    BY DEF NoDuplicates
  <2>1. Sound(e, index[e])  BY DEF DossiersIInv
  <2>2. DOMAIN index[e].dossierIds = 1..Len(index[e].dossierIds)
        /\ DOMAIN index[e].jobIds = 1..Len(index[e].jobIds)
    BY <2>1 DEF Sound, Document
  <2> QED  BY <2>1, <2>2 DEF Sound, Distinct, IsInjective
<1> QED  BY <1>1, DossiersInvariance, PTL

\* The documents, the dossiers and the upserts in progress keep their types
\* (entityIndex.ts:9-19, dossierStore.ts:61).
THEOREM DossiersTypes == DossiersSpec => []DossiersTypeOK
<1>1. DossiersInit => DossiersTypeOK
  BY BoundsAssumption DEF DossiersInit, DossiersTypeOK
<1>2. DossiersIInv /\ DossiersTypeOK /\ [DossiersNext]_dossiersVars
        => (DossiersIInv' => DossiersTypeOK')
  <2> SUFFICES ASSUME DossiersIInv, DossiersTypeOK, [DossiersNext]_dossiersVars, DossiersIInv'
               PROVE  DossiersTypeOK'
    OBVIOUS
  <2>0. DossierId' = DossierId /\ Document' = Document
    BY DEF DossierId, Document
  <2>1. window' \in 0..MaxWindow /\ disk' \in [DossierId -> Jobs \cup {NoJob}]
    BY <2>0 DEF DossiersIInv
  <2>2. CASE UNCHANGED dossiersVars
    BY <2>2 DEF dossiersVars, DossiersTypeOK, Document, DossierId
  <2>3. ASSUME NEW w \in Workers, NEW j \in Jobs, NEW e \in Entities, WriteDossier(w, j, e)
        PROVE  DossiersTypeOK'
    <3> DEFINE id == [entity |-> e, window |-> window]
               work == [job |-> j, dossier |-> id]
    <3>1. id \in DossierId  BY DEF DossiersIInv, DossierId
    <3>2. work \in [job : Jobs, dossier : DossierId]  BY <3>1
    <3>3. /\ at' = [at EXCEPT ![w] = work] /\ step' = [step EXCEPT ![w] = "read"]
          /\ index' = index /\ entry' = entry
      BY <2>3 DEF WriteDossier
    <3> HIDE DEF work
    <3> QED  BY <2>0, <2>1, <3>2, <3>3 DEF DossiersTypeOK
  <2>4. ASSUME NEW w \in Workers, ReadIndex(w) PROVE DossiersTypeOK'
    <3> DEFINE e == at[w].dossier.entity
               up == Upsert(index[e], at[w].job, at[w].dossier)
    <3>1. /\ step[w] = "read" /\ entry' = [entry EXCEPT ![w] = up]
          /\ step' = [step EXCEPT ![w] = "write"] /\ index' = index /\ at' = at
      BY <2>4 DEF ReadIndex, Entity
    <3>2. at[w].job \in Jobs /\ at[w].dossier \in OnDisk(e)
      BY <3>1 DEF DossiersIInv, Working
    <3>3. up \in Document
      <4>1. e \in Entities  BY <3>2 DEF OnDisk, DossierId
      <4>2. index[e] # NoDoc => Sound(e, index[e])  BY <4>1 DEF DossiersIInv
      <4> HIDE DEF e
      <4>3. Sound(e, up)  BY <3>2, <4>2, UpsertLemma
      <4> QED  BY <4>3 DEF Sound
    <3> HIDE DEF up
    <3> QED  BY <2>0, <2>1, <3>1, <3>3 DEF DossiersTypeOK
  <2>5. ASSUME NEW w \in Workers, WriteIndex(w) PROVE DossiersTypeOK'
    <3>1. PICK e, d : e = Entity(w) /\ d = entry[w]  OBVIOUS
    <3>2. /\ index' = [index EXCEPT ![e] = d] /\ step' = [step EXCEPT ![w] = "idle"]
          /\ at' = [at EXCEPT ![w] = NoWork] /\ entry' = [entry EXCEPT ![w] = NoDoc]
      BY <2>5, <3>1 DEF WriteIndex, Leave
    <3>3. d \in Document \cup {NoDoc}  BY <3>1 DEF DossiersTypeOK
    <3> QED  BY <2>0, <2>1, <3>2, <3>3 DEF DossiersTypeOK, NoWork
  <2>6. ASSUME NEW w \in Workers, AbortUpsert(w) PROVE DossiersTypeOK'
    BY <2>0, <2>1, <2>6 DEF AbortUpsert, Leave, DossiersTypeOK, NoWork
  <2>7. CASE NextWindow
    BY <2>0, <2>1, <2>7 DEF NextWindow, DossiersTypeOK, NoWork
  <2> QED  BY <2>2, <2>3, <2>4, <2>5, <2>6, <2>7 DEF DossiersNext
<1> QED  BY <1>1, <1>2, DossiersInvariance, PTL DEF DossiersSpec

-------------------------------------------------------------------------------
\* A data directory with one worker.
OneWorker == \A v, w \in Workers : v = w

\* No dossier is from a later window than the current one, and while the worker is at a
\* dossier nothing newer of its entity is on disk and the document it read is the one
\* it will replace.
OneWorkerIInv ==
  /\ \A d \in DossierId : disk[d] # NoJob => d.window <= window
  /\ \A w \in Workers : step[w] # "idle" =>
       \A d \in OnDisk(at[w].dossier.entity) : d.window <= at[w].dossier.window
  /\ \A w \in Workers : step[w] = "write" =>
       entry[w] = Upsert(index[at[w].dossier.entity], at[w].job, at[w].dossier)

\* Every step of the only worker keeps what it knows of the files.
THEOREM OneWorkerInvariance ==
  ASSUME OneWorker
  PROVE  DossiersSpec => []OneWorkerIInv
<1>1. DossiersInit => OneWorkerIInv
  BY DEF DossiersInit, OneWorkerIInv
<1>2. DossiersIInv /\ OneWorkerIInv /\ [DossiersNext]_dossiersVars => OneWorkerIInv'
  <2> SUFFICES ASSUME DossiersIInv, OneWorkerIInv, [DossiersNext]_dossiersVars
               PROVE  OneWorkerIInv'
    OBVIOUS
  <2>0. \A v, w \in Workers : v = w  BY DEF OneWorker
  <2>1. CASE UNCHANGED dossiersVars
    BY <2>1 DEF dossiersVars, OneWorkerIInv, OnDisk
  <2>2. ASSUME NEW w \in Workers, NEW j \in Jobs, NEW e \in Entities, WriteDossier(w, j, e)
        PROVE  OneWorkerIInv'
    <3> DEFINE id == [entity |-> e, window |-> window]
               work == [job |-> j, dossier |-> id]
    <3>1. id \in DossierId /\ id.entity = e /\ id.window = window
      BY DEF DossiersIInv, DossierId
    <3>2. /\ disk' = [disk EXCEPT ![id] = j] /\ at' = [at EXCEPT ![w] = work]
          /\ step' = [step EXCEPT ![w] = "read"] /\ window' = window
      BY <2>2 DEF WriteDossier
    <3>3. work.dossier = id  OBVIOUS
    <3> HIDE DEF id, work
    <3>4. \A d \in DossierId : disk'[d] # NoJob => d.window <= window
      BY <3>1, <3>2 DEF DossiersIInv, OneWorkerIInv
    <3>5. \A v \in Workers : at'[v].dossier.window = window /\ step'[v] = "read"
      BY <2>0, <3>1, <3>2, <3>3 DEF DossiersIInv
    <3> QED  BY <3>2, <3>4, <3>5 DEF OneWorkerIInv, OnDisk
  <2>3. ASSUME NEW w \in Workers, ReadIndex(w) PROVE OneWorkerIInv'
    BY <2>0, <2>3 DEF ReadIndex, Entity, OneWorkerIInv, OnDisk, DossiersIInv
  <2>4. ASSUME NEW w \in Workers, WriteIndex(w) PROVE OneWorkerIInv'
    BY <2>0, <2>4 DEF WriteIndex, Leave, OneWorkerIInv, OnDisk, DossiersIInv
  <2>5. ASSUME NEW w \in Workers, AbortUpsert(w) PROVE OneWorkerIInv'
    BY <2>0, <2>5 DEF AbortUpsert, Leave, OneWorkerIInv, OnDisk, DossiersIInv
  <2>6. CASE NextWindow
    <3>1. window \in Nat /\ window' = window + 1 /\ disk' = disk /\ index' = index
          /\ step' = step /\ at' = at /\ entry' = entry
      BY <2>6, BoundsAssumption DEF NextWindow, DossiersIInv
    <3>2. \A d \in DossierId : d.window \in Nat
      BY BoundsAssumption DEF DossierId
    <3>3. \A d \in DossierId : disk[d] # NoJob => d.window <= window + 1
      BY <3>1, <3>2 DEF OneWorkerIInv
    <3> QED  BY <3>1, <3>3 DEF OneWorkerIInv, OnDisk
  <2> QED  BY <2>1, <2>2, <2>3, <2>4, <2>5, <2>6 DEF DossiersNext
<1> QED  BY <1>1, <1>2, DossiersInvariance, PTL DEF DossiersSpec

\* What adding does not touch: the old elements stay where they are.
LEMMA AddedExtends ==
  ASSUME NEW S, NEW s \in Seq(S), NEW x \in S
  PROVE  IsPrefix(s, Added(s, x))
<1>1. CASE Contains(s, x)
  BY <1>1 DEF Added, IsPrefix
<1>2. CASE ~Contains(s, x)
  <2>1. Added(s, x) = Append(s, x)  BY <1>2 DEF Added
  <2> DEFINE t == Append(s, x)
  <2>2. t \in Seq(S) /\ Len(t) = Len(s) + 1 /\ Len(s) \in Nat
        /\ \A i \in 1..Len(s) : t[i] = s[i]
    OBVIOUS
  <2> HIDE DEF t
  <2>3. SubSeq(s, 1, Len(s)) = s  OBVIOUS
  <2>4. SubSeq(t, 1, Len(s)) = s  BY <2>2
  <2> QED  BY <2>1, <2>2, <2>3, <2>4 DEF IsPrefix, t
<1> QED  BY <1>1, <1>2

\* With one worker an upsert forgets nothing and leaves the document pointing at the
\* newest dossier ("latest dossier pointer per case+entity", entityIndex.ts:2).
THEOREM DocumentsKeepUp ==
  ASSUME OneWorker
  PROVE  DossiersSpec => IndexKeepsUp
<1>1. DossiersIInv /\ OneWorkerIInv /\ [DossiersNext]_dossiersVars =>
        [\A e \in Entities : index'[e] # index[e] =>
          /\ index[e] # NoDoc => /\ IsPrefix(index[e].dossierIds, index'[e].dossierIds)
                                 /\ IsPrefix(index[e].jobIds, index'[e].jobIds)
          /\ \A d \in OnDisk(e) : d.window <= index'[e].latest.window]_dossiersVars
  <2> SUFFICES ASSUME DossiersIInv, OneWorkerIInv, DossiersNext,
                      NEW e \in Entities, index'[e] # index[e]
               PROVE  /\ index[e] # NoDoc =>
                           /\ IsPrefix(index[e].dossierIds, index'[e].dossierIds)
                           /\ IsPrefix(index[e].jobIds, index'[e].jobIds)
                      /\ \A d \in OnDisk(e) : d.window <= index'[e].latest.window
    BY DEF IndexKeepsUp
  <2>1. PICK w \in Workers : WriteIndex(w)
    BY DEF DossiersNext, WriteDossier, ReadIndex, AbortUpsert, NextWindow
  <2>2. step[w] = "write" /\ index' = [index EXCEPT ![at[w].dossier.entity] = entry[w]]
    BY <2>1 DEF WriteIndex, Entity
  <2>3. e = at[w].dossier.entity /\ index'[e] = entry[w]
    BY <2>2 DEF DossiersIInv
  <2>4. PICK j, id : j = at[w].job /\ id = at[w].dossier  OBVIOUS
  <2>5. /\ j \in Jobs /\ id \in DossierId
        /\ \A d \in OnDisk(e) : d.window <= id.window
        /\ entry[w] = Upsert(index[e], j, id)
    BY <2>2, <2>3, <2>4 DEF DossiersIInv, Working, OnDisk, OneWorkerIInv
  <2>6. index'[e] = Upsert(index[e], j, id)  BY <2>3, <2>5
  <2>7. index'[e].latest = id  BY <2>6 DEF Upsert
  <2>8. ASSUME index[e] # NoDoc
        PROVE  /\ IsPrefix(index[e].dossierIds, index'[e].dossierIds)
               /\ IsPrefix(index[e].jobIds, index'[e].jobIds)
    <3>1. index[e].dossierIds \in Seq(DossierId) /\ index[e].jobIds \in Seq(Jobs)
      BY <2>8 DEF DossiersIInv, Sound, Document
    <3>2. /\ index'[e].dossierIds = Added(index[e].dossierIds, id)
          /\ index'[e].jobIds = Added(index[e].jobIds, j)
      BY <2>6, <2>8 DEF Upsert
    <3> QED  BY <2>5, <3>1, <3>2, AddedExtends
  <2> QED  BY <2>5, <2>7, <2>8
<1> QED  BY <1>1, DossiersInvariance, OneWorkerInvariance, PTL DEF DossiersSpec, IndexKeepsUp

-------------------------------------------------------------------------------
\* The kinds of files side by side: a behaviour of the instance is one of each, so the
\* types hold of the chain and of the dossiers (MCRecords).
THEOREM RecordsTypes == RecordsSpec => []RecordsTypeOK
<1>1. RecordsInit => AuditInit /\ DossiersInit
  BY DEF RecordsInit
<1>2. [RecordsNext]_<<vars, auditVars, dossiersVars>> =>
        [AuditNext]_auditVars /\ [DossiersNext]_dossiersVars
  BY DEF RecordsNext
<1>3. AuditTypeOK /\ DossiersTypeOK => RecordsTypeOK
  BY DEF RecordsTypeOK
<1> QED  BY <1>1, <1>2, <1>3, AuditTypes, DossiersTypes, PTL
       DEF RecordsSpec, AuditSpec, DossiersSpec
===============================================================================
