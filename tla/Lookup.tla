---------------------------- MODULE Lookup ----------------------------
(***************************************************************************)
(* One lookup of who(), or of findPerson(), from its probes to the         *)
(* archived report: the refinement loop that discovers seeds and evidence  *)
(* sweep by sweep, the critique loop that scores the evidence and asks for *)
(* more, and the merge.  The fast probes of who() run beside the loops.    *)
(* What the sources answer is the environment's choice; which sources are  *)
(* asked about what, what becomes of the answers and when it ends is the   *)
(* code's.                                                                 *)
(***************************************************************************)
EXTENDS Integers, Sequences, FiniteSets

CONSTANTS
    Values,           \* names, usernames, emails, domains ..., up to case and blanks
    Undefined,        \* instead of a value, where a bridge leaves it out
    TypeOf,           \* [Values \cup {Undefined} -> types], inferEntityType()
    Normal,           \* [Values \cup {Undefined} -> normalised values]
    VariantsOf,       \* [Values -> SUBSET Values], the usernames made of a name of two words
    Seeds,            \* identifiers: records of a type and a value
    Leads,            \* what bridges report as seeds, some without a value
    Confidence,       \* [Seeds \cup Leads -> 0..100]
    Queries,          \* sequences of seeds, as buildPersonSeeds makes them of a query
    Items,            \* pieces of evidence the sources may find, by their keys
    SourceOf,         \* [Items -> sources]
    EntityOf,         \* [Items -> Values \cup {Undefined}], what a piece of evidence is about
    ScoreOf,          \* [Items -> 0..100]
    Mentions,         \* [Items -> SUBSET Seeds], identifiers in its text
    HitOf,            \* [Items -> hit keys]: kind, title and url of the hit made of it
    Linked,           \* hit keys with a url
    ProbeHits,        \* hits the fast probes of who() may have, [key, sure]
    First,            \* [sources -> how many seeds a source is asked about at most]
    Ready,            \* sources that are configured
    Modes,            \* kinds of lookup that are asked for
    MaxSweeps, MaxItems, OverlapPercent, MinConfidence,
    MaxRounds, TargetScore, PlateauEpsilon, PlateauRounds

(* Which types of seeds each source is asked about; the bridges get all.   *)
(* Breach stands for the three breach searches, sherlock for maigret too.  *)
Takes == [platform |-> {"username"},
          wayback  |-> {"url", "domain"},
          ahmia    |-> {"email", "username", "domain", "person", "name"},
          breach   |-> {"email"},
          sherlock |-> {"username"},
          holehe   |-> {"email"},
          profile  |-> {"username"}]
(* The profiles are findPerson()'s own and with the links and the company  *)
(* register only added to the first sweep.                                 *)
Added == {"link", "profile", "registry"}
Sources == (DOMAIN Takes \ Added) \cup {"bridge"}

SeedsOf(q) == {q[k] : k \in 1..Len(q)}

ASSUME LookupAssumption ==
    /\ IsFiniteSet(Values) /\ IsFiniteSet(Seeds) /\ IsFiniteSet(Items) /\ IsFiniteSet(Leads)
    /\ \A s \in Seeds : s.value \in Values
    /\ \A v \in Values : \A u \in VariantsOf[v] : [type |-> "username", value |-> u] \in Seeds
    /\ \A s \in Leads : s.value # Undefined => s \in Seeds
    /\ Queries \subseteq Seq(Seeds) \ {<<>>}
    /\ SourceOf \in [Items -> Sources \cup Added]
    /\ EntityOf \in [Items -> Values \cup {Undefined}] /\ Mentions \in [Items -> SUBSET Seeds]
    /\ Ready \subseteq Sources /\ Modes \subseteq {"full", "quick", "person", "links"}
    /\ MaxSweeps \in Nat \ {0} /\ MaxItems \in Nat \ {0}
    /\ MaxRounds \in Nat \ {0} /\ PlateauRounds \in Nat \ {0} /\ PlateauEpsilon \in Nat /\ TargetScore \in Nat

Links == {i \in Items : SourceOf[i] = "link"}   \* the person's search links
Malformed == {i \in Items : EntityOf[i] = Undefined}
Meta(n) == <<"toolkit", n, 0>>                  \* the note of a sweep's tools

VARIABLES
    mode,      \* "full" and "quick" are who()'s, "person" and "links" findPerson()'s
    stage,     \* of the whole lookup
    probes,    \* the fast probes: "running", "done", "failed"
    rec,       \* the recursive run: "idle", "discover", "critique", "enrich", "done", "failed"
    sweep,     \* sweeps completed
    asked,     \* the seeds the last sweep was given
    known,     \* allSeeds, which activeSeeds always equals
    gathered,  \* keys of the sweeps' items
    reason,    \* why the sweeps stopped
    evidence,  \* the evidence store
    scores,    \* one per round of the critique
    streak,    \* rounds in a row that gained too little
    stop,      \* why the critique stopped
    report,    \* of who(): next and hits; of findPerson(): evidence; of both: count and score
    archive    \* reports in the who-archive

loopVars == <<rec, sweep, asked, known, gathered, reason, evidence, scores, streak, stop>>
lookupVars == <<mode, stage, probes, loopVars, report, archive>>

NoReport == [next |-> "none", hits |-> {}, evidence |-> {}, count |-> 0, score |-> 0]

LookupInit ==
    /\ mode = "none" /\ stage = "none" /\ probes = "none" /\ rec = "idle"
    /\ sweep = 0 /\ asked = <<>> /\ known = <<>> /\ gathered = {} /\ reason = "none"
    /\ evidence = {} /\ scores = <<>> /\ streak = 0 /\ stop = "none"
    /\ report = NoReport /\ archive = {}

(* who() starts its probes and, but for a quick lookup, its recursive run. *)
BeginWho(m, query) ==
    /\ stage = "none" /\ m \in {"full", "quick"}
    /\ mode' = m /\ stage' = "working" /\ probes' = "running"
    /\ rec' = IF m = "full" THEN "discover" ELSE "idle"
    /\ known' = query
    /\ UNCHANGED <<sweep, asked, gathered, reason, evidence, scores, streak, stop, report, archive>>

(* findPerson() probes first; one for links only is done with its links.   *)
BeginPerson(m, query) ==
    /\ stage = "none" /\ m \in {"person", "links"}
    /\ mode' = m /\ known' = query
    /\ stage' = IF m = "links" THEN "returned" ELSE "working"
    /\ probes' = IF m = "links" THEN "done" ELSE "running"
    /\ UNCHANGED <<rec, sweep, asked, gathered, reason, evidence, scores, streak, stop, report, archive>>

----------------------------------------------------------------------------
(* The toolkit's discover().                                               *)

(* A breach is looked up for whatever has an @ in it.                      *)
Takable(source, s) == s.type \in Takes[source] \/ (source = "breach" /\ TypeOf[s.value] = "email")
Askable(source, seeds) == SelectSeq(seeds, LAMBDA s : Takable(source, s))

(* The values a source is asked about: those of the first seeds it takes.  *)
Asked(source, seeds) ==
    LET q == Askable(source, seeds)
    IN {q[k].value : k \in {j \in 1..Len(q) : j <= First[source]}}

(* A source finds nothing that is not about what it was asked, but for the *)
(* bridges.                                                                *)
Findable(seeds) ==
    {i \in Items : /\ SourceOf[i] \in Ready
                   /\ SourceOf[i] = "bridge" \/ EntityOf[i] \in Asked(SourceOf[i], seeds)}

(* The toolkit's bookkeeping: groups of seeds that are alike but for what  *)
(* normalisation drops, in one note per sweep.                             *)
Class(s) == <<s.type, Normal[s.value]>>
Groups(entries) ==
    {c \in {Class(e[2]) : e \in entries} : Cardinality({e \in entries : Class(e[2]) = c}) > 1}
DedupNote(n, entries) ==
    IF Groups(entries) = {} THEN {} ELSE {<<"dedup", n, Cardinality(Groups(entries))>>}

Entries(seeds) == {<<k, seeds[k]>> : k \in 1..Len(seeds)}

Expanded(seeds) ==
    {[type |-> "username", value |-> u] :
        u \in UNION {VariantsOf[s.value] : s \in {t \in SeedsOf(seeds) : t.type \in {"person", "name"}}}}

BridgeLeads == {s \in Leads : "bridge" \in Ready}

(* The first sweep also has all search links and, of findPerson(), the     *)
(* profiles its probes confirmed and what the company register says.       *)
Profiles ==
    {i \in Items : \/ SourceOf[i] = "profile" /\ EntityOf[i] \in Asked("profile", known)
                   \/ SourceOf[i] = "registry"}
Additions(n) ==
    IF n # 1 THEN {{}}
    ELSE {Links \cup found : found \in SUBSET IF mode = "person" THEN Profiles ELSE {}}

Extracted(items) == UNION {Mentions[i] : i \in items}

(* dedupeSeeds() and the threshold.  (Mutant: seeds that are known pass.)  *)
FreshOrKnown(seeds) == {s \in seeds : Confidence[s] >= MinConfidence}
Fresh(seeds) == {s \in seeds : Confidence[s] >= MinConfidence /\ s \notin SeedsOf(known)}

Orders(S) ==
    {q \in [1..Cardinality(S) -> S] : \A j, k \in 1..Cardinality(S) : q[j] = q[k] => j = k}

(* The evidence store grows.  (Mutant: it is replaced.)                    *)
StoredAnew(found) == found
Stored(found) == evidence \cup found

(* Per cent of the keys that an earlier sweep had; all of an empty sweep.  *)
Overlaps(keys) ==
    100 * Cardinality(keys \cap gathered) >= OverlapPercent * Cardinality(keys)

Full(keys) == Cardinality(gathered \cup keys) >= MaxItems
Keys(n, items) == items \cup {Meta(n)} \cup DedupNote(n, Entries(known))
Nameless(leads) == {s \in leads : s.value = Undefined}

(* What is new: first the variants and then the leads, or else what all    *)
(* the sweep's items mention.                                              *)
Found(items, leads) ==
    IF Expanded(known) \cup leads # {}
    THEN {v \o l : v \in Orders(Fresh(Expanded(known))),
                   l \in Orders(Fresh(leads \ (Nameless(leads) \cup Expanded(known))))}
    ELSE Orders(Fresh(Extracted(items)))

(* One turn of runRefinementLoop: query, store, new seeds, convergence.    *)
Sweep(items, new) ==
    LET n    == sweep + 1
        keys == Keys(n, items)
        full == Full(keys)
        why  == CASE full -> "budget-exhausted"
                  [] ~full /\ new = <<>> -> "no-new-refinements"
                  [] ~full /\ new # <<>> /\ Overlaps(keys) /\ n > 1 -> "diminishing-returns"
                  [] ~full /\ new # <<>> /\ ~(Overlaps(keys) /\ n > 1) /\ n = MaxSweeps -> "max-sweeps"
                  [] OTHER -> "none"
    IN /\ sweep' = n
       /\ asked' = known
       /\ gathered' = gathered \cup keys
       /\ evidence' = Stored(keys)
       /\ known' = IF full THEN known ELSE known \o new
       /\ reason' = why
       /\ rec' = IF why = "none" THEN "discover" ELSE "critique"
       /\ UNCHANGED <<mode, stage, probes, scores, streak, stop, report, archive>>

(* The query throws: a bridge's items or seeds are not a list.             *)
SweepFails ==
    /\ rec = "discover" /\ "bridge" \in Ready
    /\ asked' = known
    /\ reason' = "error"
    /\ rec' = "critique"
    /\ UNCHANGED <<mode, stage, probes, sweep, known, gathered, evidence, scores, streak, stop, report, archive>>

(* A confident lead has no value, and its key cannot be made: the loop     *)
(* itself throws, when the sweep's items are stored.                       *)
SweepThrows(items) ==
    /\ asked' = known
    /\ gathered' = gathered \cup Keys(sweep + 1, items)
    /\ evidence' = Stored(Keys(sweep + 1, items))
    /\ rec' = "failed"
    /\ UNCHANGED <<mode, stage, probes, sweep, known, reason, scores, streak, stop, report, archive>>

(* A source that fails or is too late has found nothing.                   *)
Discover ==
    /\ rec = "discover"
    /\ \E found \in SUBSET Findable(known), added \in Additions(sweep + 1), leads \in SUBSET BridgeLeads :
         LET items == found \cup added
             named == Full(Keys(sweep + 1, items)) \/ Fresh(Nameless(leads)) = {}
         IN \/ named /\ \E new \in Found(items, leads) : Sweep(items, new)
            \/ ~named /\ SweepThrows(items)

----------------------------------------------------------------------------
(* deterministicCritique() over toFindings().                              *)

(* A link and a register entry are about the name the lookup shows, which  *)
(* is the first seed's.                                                    *)
Entity(i) == IF SourceOf[i] \in {"link", "registry"} THEN known[1].value ELSE EntityOf[i]
About(v) == {i \in evidence \cap Items : Entity(i) = v}
Entities == {s.value : s \in SeedsOf(known)} \cup {Entity(i) : i \in evidence \cap Items}
Empty == {v \in Entities : About(v) = {}}
Thin == {v \in Entities : Cardinality(About(v)) < 2}

Least(a, b) == IF a <= b THEN a ELSE b
Most(a, b) == IF a >= b THEN a ELSE b

(* (Mutant: a score may fall below 0.)                                     *)
ClampedAbove(x) == Least(95, x)
Clamped(x) == Most(0, Least(95, x))

(* round(min(95, 55 coverage + 8 min(depth, 5) - 10 empty)), at least 0.   *)
Score ==
    LET n     == Cardinality(Entities)
        empty == Cardinality(Empty)
        total == Cardinality(evidence \cap Items)
        sum   == 55 * (n - empty) + 8 * Least(total, 5 * n) - 10 * empty * n
    IN IF n = 0 THEN 0 ELSE Clamped((2 * sum + n) \div (2 * n))

Previous == IF scores = <<>> THEN 0 ELSE scores[Len(scores)]

(* The first round is never flat.  (Mutant: it is, after a score near 0.)  *)
GainsFromZero(score) == score - Previous >= PlateauEpsilon
Gains(score) == score - Previous >= PlateauEpsilon \/ scores = <<>>

(* One round of runCritiqueLoop up to its enrichment.                      *)
Round(score) ==
    LET flat == IF Gains(score) THEN 0 ELSE streak + 1
        why  == IF score >= TargetScore THEN "target-reached"
                ELSE IF flat >= PlateauRounds THEN "plateau" ELSE "none"
    IN /\ scores' = Append(scores, score)
       /\ streak' = IF why = "target-reached" THEN streak ELSE flat
       /\ stop' = why
       /\ rec' = IF why = "none" THEN "enrich" ELSE "done"
       /\ UNCHANGED <<mode, stage, probes, sweep, asked, known, gathered, reason, evidence, report, archive>>

Critique == rec = "critique" /\ \E score \in {Score} : Round(score)

(* The toolkit asked once more, about the known seeds, about every entity  *)
(* without evidence as a username, and about five of those with too little *)
(* as what they look like.                                                 *)
Suggested == {[type |-> "username", value |-> v] : v \in Empty}
Queried(thin) == {[type |-> TypeOf[v], value |-> v] : v \in thin}
NextQueries == {thin \in SUBSET Thin : Cardinality(thin) = Least(5, Cardinality(Thin))}

(* Of these a source is asked about as many as the known seeds leave it.   *)
Extra(thin) == Suggested \cup Queried(thin)
HasRoom(source) == Len(Askable(source, known)) < First[source]
AlsoFindable(thin) ==
    {i \in Items : /\ SourceOf[i] \in Ready \ {"bridge"} /\ HasRoom(SourceOf[i])
                   /\ \E s \in Extra(thin) : s.value = EntityOf[i] /\ Takable(SourceOf[i], s)}

ExtraEntries(thin) == Entries(known) \cup ({0} \X Suggested) \cup ({-1} \X Queried(thin))

(* Its notes are left out but for that of duplicates, which is new.        *)
Enrich(found) ==
    LET why == CASE found = {} /\ Thin = {} /\ Entities # {} -> "no-new-evidence"
                 [] Len(scores) = MaxRounds -> "max-rounds"
                 [] OTHER -> "none"
    IN /\ evidence' = Stored(found)
       /\ stop' = why
       /\ rec' = IF why = "none" THEN "critique" ELSE "done"
       /\ UNCHANGED <<mode, stage, probes, sweep, asked, known, gathered, reason, scores, streak, report, archive>>

Improve ==
    /\ rec = "enrich"
    /\ \E thin \in NextQueries : \E found \in SUBSET (Findable(known) \cup AlsoFindable(thin)) :
         Enrich((found \cup DedupNote(100 + Len(scores), ExtraEntries(thin))) \ evidence)

EnrichFails ==
    /\ rec = "enrich" /\ "bridge" \in Ready
    /\ rec' = "failed"
    /\ UNCHANGED <<mode, stage, probes, sweep, asked, known, gathered, reason, evidence, scores, streak, stop, report, archive>>

----------------------------------------------------------------------------
(* who() and findPerson() around the loops.                                *)

(* who()'s probes, one of which may throw.                                 *)
ProbesEnd(ok) ==
    /\ probes = "running" /\ mode # "person"
    /\ probes' = IF ok THEN "done" ELSE "failed"
    /\ UNCHANGED <<mode, stage, loopVars, report, archive>>

(* findPerson()'s probes, and then its recursive run.                      *)
ProfilesProbed ==
    /\ probes = "running" /\ mode = "person"
    /\ probes' = "done"
    /\ rec' = "discover"
    /\ UNCHANGED <<mode, stage, sweep, asked, known, gathered, reason, evidence, scores, streak, stop, report, archive>>

(* Promise.all: the first failure rejects the lookup; whatever else it     *)
(* started runs on and is not waited for.  (Mutant: both must have failed.)*)
RejectBoth ==
    /\ stage = "working"
    /\ probes = "failed" /\ rec = "failed"
    /\ stage' = "rejected"
    /\ UNCHANGED <<mode, probes, loopVars, report, archive>>

Reject ==
    /\ stage = "working"
    /\ probes = "failed" \/ rec = "failed"
    /\ stage' = "rejected"
    /\ UNCHANGED <<mode, probes, loopVars, report, archive>>

Settled == probes = "done" /\ rec \in {"idle", "done"}

(* A hit is as sure as its evidence's score; search links and the notes   *)
(* about tools are no hits, those about duplicates are.                    *)
Sure(score) == IF score >= 75 THEN "confirmed" ELSE IF score >= 55 THEN "likely" ELSE "possible"
Shown(keys) == {k \in keys : IF k \in Items THEN SourceOf[k] # "link" ELSE k[1] = "dedup"}
HitKey(k) == IF k \in Items THEN HitOf[k] ELSE <<"duplicates", k[3]>>
HitFor(k) == [key |-> HitKey(k), sure |-> IF k \in Items THEN Sure(ScoreOf[k]) ELSE "possible"]
MergedHits == {HitFor(k) : k \in Shown(evidence)}

(* Archived copies of confirmed hits.                                      *)
HasUrl(h) == h.key \in Linked \/ \E k \in Linked : h.key = <<"snapshot", k>>
Snapshots(hits) ==
    {[key |-> <<"snapshot", h.key>>, sure |-> "likely"] : h \in {g \in hits : g.sure = "confirmed" /\ HasUrl(g)}}

(* Of the hits that are of one kind, title and url the first is kept: one  *)
(* of the probes', if they have one, whatever is the surest.               *)
KeysOf(hits) == {h.key : h \in hits}
Deduped(first, then) ==
    {kept \in SUBSET (first \cup then) :
        /\ KeysOf(kept) = KeysOf(first \cup then)
        /\ \A g, h \in kept : g.key = h.key => g = h
        /\ \A h \in kept : h.key \in KeysOf(first) => h \in first}

(* pickNext(): a confirmed hit, a likely one, else a search link.          *)
PickNext(hits) ==
    LET sure == {h.sure : h \in {g \in hits : HasUrl(g)}}
    IN CASE "confirmed" \in sure -> "confirmed"
         [] "confirmed" \notin sure /\ "likely" \in sure -> "likely"
         [] OTHER -> "link"

(* Both merges look into the entity of an item (extractTyped(), and        *)
(* kindFromEvidence() where the source does not tell) and throw if it is   *)
(* missing.                                                                *)
MergeThrows ==
    /\ stage = "working" /\ Settled
    /\ mode = "person" => rec = "done"
    /\ evidence \cap Malformed # {}
    /\ stage' = "rejected"
    /\ UNCHANGED <<mode, probes, loopVars, report, archive>>

Merge(first, copies) ==
    /\ stage = "working" /\ Settled /\ mode # "person"
    /\ stage' = "archiving"
    /\ \E kept \in Deduped(first, MergedHits \cup copies) :
         report' = [next |-> PickNext(kept), hits |-> kept, evidence |-> {}, count |-> Cardinality(evidence),
                    score |-> Previous]
    /\ UNCHANGED <<mode, probes, loopVars, archive>>

MergePerson ==
    /\ stage = "working" /\ Settled /\ mode = "person" /\ rec = "done"
    /\ evidence \cap Malformed = {}
    /\ stage' = "returned"
    /\ report' = [next |-> "none", hits |-> {}, evidence |-> evidence, count |-> Cardinality(evidence),
                  score |-> Previous]
    /\ UNCHANGED <<mode, probes, loopVars, archive>>

(* Best effort: the report is returned whether or not its file is written. *)
ArchiveResult(written) ==
    /\ stage = "archiving"
    /\ stage' = "returned"
    /\ archive' = IF written THEN archive \cup {report} ELSE archive
    /\ UNCHANGED <<mode, probes, loopVars, report>>

LookupStep ==
    \/ Reject \/ (\E ok \in BOOLEAN : ProbesEnd(ok)) \/ ProfilesProbed
    \/ SweepFails \/ Discover \/ Critique \/ EnrichFails \/ Improve
    \/ MergeThrows \/ MergePerson
    \/ \E first \in SUBSET ProbeHits : \E copies \in SUBSET Snapshots(first \cup MergedHits) : Merge(first, copies)
    \/ \E written \in BOOLEAN : ArchiveResult(written)

LookupNext ==
    \/ \E m \in Modes, query \in Queries : BeginWho(m, query) \/ BeginPerson(m, query)
    \/ LookupStep

(* Every request to a source has a timeout of its own, so each await of    *)
(* the code ends; nobody has to begin a lookup.                            *)
LookupFairness == WF_lookupVars(LookupStep)
LookupSpec == LookupInit /\ [][LookupNext]_lookupVars /\ LookupFairness

----------------------------------------------------------------------------
Reasons == {"none", "no-new-refinements", "diminishing-returns", "budget-exhausted", "max-sweeps", "error"}
Stops == {"none", "target-reached", "plateau", "max-rounds", "no-new-evidence"}
Notes == {"toolkit", "dedup"} \X Nat \X Nat

LookupTypeOK ==
    /\ mode \in Modes \cup {"none"}
    /\ stage \in {"none", "working", "archiving", "returned", "rejected"}
    /\ probes \in {"none", "running", "done", "failed"}
    /\ rec \in {"idle", "discover", "critique", "enrich", "done", "failed"}
    /\ sweep \in 0..MaxSweeps
    /\ known \in Seq(Seeds) /\ asked \in Seq(Seeds)
    /\ gathered \subseteq evidence /\ evidence \subseteq Items \cup Notes /\ IsFiniteSet(evidence)
    /\ reason \in Reasons /\ stop \in Stops
    /\ scores \in Seq(0..95) /\ Len(scores) <= MaxRounds
    /\ streak \in 0..MaxRounds

(* The reason refinementLoop.ts gives is true of the sweeps that were made:*)
(* after a fixpoint another sweep would ask every source about the same    *)
(* again (the first so many, whatever else is known); the other reasons    *)
(* mean that a confident seed was left which no sweep was given, or that   *)
(* the budget was reached.  There is no reason when the loop itself threw. *)
DiscoveryStops ==
    /\ (reason = "none") = ((rec \in {"discover", "failed"} /\ scores = <<>>) \/ rec = "idle")
    /\ reason = "no-new-refinements" =>
         /\ SeedsOf(known) = SeedsOf(asked)
         /\ \A source \in DOMAIN Takes : Asked(source, known) = Asked(source, asked)
    /\ reason \in {"diminishing-returns", "max-sweeps"} => SeedsOf(known) \ SeedsOf(asked) # {}
    /\ reason = "diminishing-returns" => sweep > 1
    /\ reason = "max-sweeps" => sweep = MaxSweeps
    /\ reason = "budget-exhausted" <=> Cardinality(gathered) >= MaxItems
    /\ reason = "error" => sweep < MaxSweeps

Flat(k) == k > 1 /\ scores[k] - scores[k - 1] < PlateauEpsilon
Plateau(k) == k >= PlateauRounds /\ \A j \in (k - PlateauRounds + 1)..k : Flat(j)

(* critiqueLoop.ts stops in the first round that gives it a reason: at the *)
(* target, after PlateauRounds rounds in a row without gain, or when every *)
(* entity has two findings and nothing new comes; else it runs all rounds. *)
CritiqueStops ==
    LET n == Len(scores)
    IN /\ stop = "target-reached" <=> (n > 0 /\ scores[n] >= TargetScore)
       /\ \A k \in 1..(n - 1) : scores[k] < TargetScore /\ ~Plateau(k)
       /\ stop = "plateau" <=> (n > 0 /\ scores[n] < TargetScore /\ Plateau(n))
       /\ stop = "max-rounds" => n = MaxRounds
       /\ stop = "no-new-evidence" => Thin = {}

(* Every key has its hit, once, and next leads to the surest of the hits   *)
(* that have a url.                                                        *)
HitsTell(keys) ==
    /\ \A k \in Shown(keys) : HitKey(k) \in KeysOf(report.hits)
    /\ \A g, h \in report.hits : g.key = h.key => g = h
    /\ report.next = PickNext(report.hits)

(* What the sweeps gathered is in who()'s report as hits, one per kind,    *)
(* title and url, and in findPerson()'s as evidence; next leads to the     *)
(* surest of the hits that are left; the score is that of the last round;  *)
(* and what is archived is what was returned.  Of a lookup that is         *)
(* rejected nothing is reported or archived.                               *)
ReportComplete ==
    /\ stage \in {"archiving", "returned"} /\ mode \in {"full", "quick"} => HitsTell(gathered)
    /\ stage = "returned" /\ mode = "person" => gathered \subseteq report.evidence
    /\ stage \in {"archiving", "returned"} /\ mode # "links" => Cardinality(gathered) <= report.count
    /\ stage = "returned" /\ scores # <<>> => report.score = scores[Len(scores)]
    /\ archive \subseteq {report}
    /\ stage = "rejected" => report = NoReport /\ archive = {}

(* Every lookup is answered, with a report or an error, and what it        *)
(* started ends too.                                                       *)
LookupEnds ==
    stage # "none" ~> (/\ stage \in {"returned", "rejected"}
                       /\ probes # "running"
                       /\ rec \in {"idle", "done", "failed"})

----------------------------------------------------------------------------
(* What makes the three safety properties inductive: what the two loops    *)
(* have when they are entered and between their rounds, that streak is the *)
(* longest run of flat rounds at the end, and that a lookup only ends when *)
(* everything it waited for has.                                           *)
LoopsEntered ==
    /\ rec = "idle" => sweep = 0 /\ asked = <<>> /\ gathered = {} /\ evidence = {} /\ reason = "none"
    /\ rec = "discover" => sweep < MaxSweeps
    /\ rec \in {"idle", "discover"} => scores = <<>> /\ streak = 0
    /\ rec # "done" => stop = "none"
    /\ rec = "critique" => Len(scores) < MaxRounds
    /\ rec = "enrich" => scores # <<>>

StreakIsLongest ==
    rec \notin {"done", "failed"} =>
        /\ streak < PlateauRounds /\ streak <= Len(scores)
        /\ \A j \in (Len(scores) - streak + 1)..Len(scores) : Flat(j)
        /\ streak < Len(scores) => ~Flat(Len(scores) - streak)

EndsSettled ==
    /\ stage = "none" => mode = "none" /\ probes = "none" /\ rec = "idle"
    /\ mode = "person" /\ probes = "running" => rec = "idle" /\ stage = "working"
    /\ mode = "links" => rec = "idle"
    /\ stage \in {"none", "working", "rejected"} => report = NoReport
    /\ stage \in {"none", "working", "rejected", "archiving"} => archive = {}
    /\ archive \subseteq {report}
    /\ stage \in {"archiving", "returned"} /\ mode # "links" =>
         /\ Settled /\ report.count = Cardinality(evidence)
         /\ scores # <<>> => report.score = scores[Len(scores)]
         /\ IF mode = "person" THEN report.evidence = evidence ELSE HitsTell(evidence)

LookupIInv == LookupTypeOK /\ DiscoveryStops /\ CritiqueStops /\ LoopsEntered /\ StreakIsLongest /\ EndsSettled
=======================================================================
