------------------------------ MODULE AgentsProofs ------------------------------
(****************************************************************************)
(* Theorems about the parts of the agents that share no state: the operator *)
(* service, for any set of task ids; the AI clients, for any models, texts  *)
(* and line length; the router of cheap tasks, for any callers and window;  *)
(* the protected memory, for any actors, keys, values and lifetimes; and    *)
(* the five of them side by side.  The approval chains have a module of     *)
(* their own, ApprovalGateProofs.                                           *)
(****************************************************************************)
EXTENDS MCAgents, ApprovalGateProofs, SequenceTheorems, WellFoundedInduction

(* The operator service.                                                       *)

\* Whatever is in the trail is about a task whose id was given out: the entries of a
\* fresh id are the first of their kind.
ServiceIInv ==
  /\ ServiceTypeOK
  /\ DecidedOnce
  /\ \A i \in DOMAIN trail : trail[i].task \in issued

-------------------------------------------------------------------------------
(* Appending to a trail.                                                       *)

LEMMA Appending ==
  ASSUME NEW s \in Seq(TrailEntry), NEW e \in TrailEntry
  PROVE  /\ Append(s, e) \in Seq(TrailEntry)
         /\ DOMAIN s = 1..Len(s) /\ Len(s) \in Nat
         /\ DOMAIN Append(s, e) = 1..(Len(s) + 1)
         /\ Append(s, e)[Len(s) + 1] = e
         /\ \A i \in DOMAIN s : i \in DOMAIN Append(s, e) /\ Append(s, e)[i] = s[i]
         /\ \A i \in DOMAIN Append(s, e) : i \in DOMAIN s \/ i = Len(s) + 1
  OBVIOUS

\* What a longer trail says of a task.
LEMMA AppendHas ==
  ASSUME NEW s \in Seq(TrailEntry), NEW e \in TrailEntry, NEW t, NEW mode
  PROVE  Has(Append(s, e), t, mode) <=> Has(s, t, mode) \/ (e.task = t /\ e.mode = mode)
  BY Appending DEF Has

\* An entry may follow that is the first of its kind, and whose task was asked about
\* or classified as its kind wants it.
May(s, e) ==
  /\ ~Has(s, e.task, e.mode)
  /\ e.mode # "execute"
  /\ e.mode = "approval_response" => Has(s, e.task, "approval_request")
  /\ e.mode = "approval_request" =>
       \E k \in DOMAIN s : /\ s[k].task = e.task /\ s[k].mode = "classify"
                           /\ s[k].classification = "REVIEW_REQUIRED"

LEMMA AppendOrdered ==
  ASSUME NEW s \in Seq(TrailEntry), NEW e \in TrailEntry, Ordered(s), May(s, e)
  PROVE  Ordered(Append(s, e))
<1> DEFINE u == Append(s, e)  n == Len(s) + 1
<1>1. /\ DOMAIN s = 1..Len(s) /\ Len(s) \in Nat /\ u[n] = e /\ n \in DOMAIN u
      /\ \A i \in DOMAIN s : i \in DOMAIN u /\ u[i] = s[i]
      /\ \A i \in DOMAIN u : i \in DOMAIN s \/ i = n
  BY Appending
<1> HIDE DEF u, n
<1>2. \A i \in DOMAIN s : i < n  BY <1>1 DEF n
<1>3. ASSUME NEW i \in DOMAIN u, NEW j \in DOMAIN u, u[i].task = u[j].task, u[i].mode = u[j].mode
      PROVE  i = j
  <2>1. CASE i \in DOMAIN s /\ j \in DOMAIN s  BY <2>1, <1>1, <1>3 DEF Ordered
  <2>2. CASE i = n \/ j = n  BY <2>2, <1>1, <1>3 DEF May, Has
  <2> QED  BY <2>1, <2>2, <1>1
<1>4. ASSUME NEW i \in DOMAIN u
      PROVE  /\ u[i].mode # "execute"
             /\ u[i].mode = "approval_response" => Asked(u, i)
             /\ u[i].mode = "approval_request" => Risky(u, i)
  <2>1. CASE i \in DOMAIN s
    <3>1. /\ s[i].mode # "execute" /\ u[i] = s[i]
          /\ s[i].mode = "approval_response" => Asked(s, i)
          /\ s[i].mode = "approval_request" => Risky(s, i)
      BY <2>1, <1>1 DEF Ordered
    <3>2. Asked(s, i) => Asked(u, i)  BY <3>1, <1>1 DEF Asked
    <3>3. Risky(s, i) => Risky(u, i)  BY <3>1, <1>1 DEF Risky
    <3> QED  BY <3>1, <3>2, <3>3
  <2>2. CASE i = n
    <3>1. u[i] = e  BY <2>2, <1>1
    <3>2. ASSUME e.mode = "approval_response" PROVE Asked(u, i)
      BY <3>2, <3>1, <2>2, <1>1, <1>2 DEF May, Has, Asked
    <3>3. ASSUME e.mode = "approval_request" PROVE Risky(u, i)
      BY <3>3, <3>1, <2>2, <1>1, <1>2 DEF May, Risky
    <3> QED  BY <3>1, <3>2, <3>3 DEF May
  <2> QED  BY <2>1, <2>2, <1>1
<1> QED  BY <1>3, <1>4 DEF Ordered, u

-------------------------------------------------------------------------------
(* The invariant.                                                              *)

\* What is known of an id before it is given out.
LEMMA Unissued ==
  ASSUME ServiceIInv, NEW t \in TaskIds, t \notin issued
  PROVE  /\ \A mode : ~Has(trail, t, mode)
         /\ t \notin pending
  BY DEF ServiceIInv, ServiceTypeOK, Has

\* A fresh task whose classification is all there is to say of it.
LEMMA OnlyClassified ==
  ASSUME ServiceIInv, NEW t \in TaskIds, FreshId(t), NEW level \in ClassificationLevels, NEW status,
         trail' = Append(trail, Classification(t, level)),
         status \in {"success", "blocked"}, Tell(t, status, "none"),
         classified' \in Seq(ClassificationLevels), UNCHANGED <<pending, executable>>
  PROVE  ServiceIInv'
<1> DEFINE e == Classification(t, level)
<1>1. /\ e \in TrailEntry /\ e.task = t /\ e.mode = "classify"
  BY DEF Classification, Entry, TrailEntry, EntryModes
<1> HIDE DEF e
<1>2. trail \in Seq(TrailEntry) /\ trail' = Append(trail, e)  BY DEF ServiceIInv, ServiceTypeOK, e
<1>3. t \notin issued /\ issued' = issued \cup {t}  BY DEF FreshId
<1>4. (\A mode : ~Has(trail, t, mode)) /\ t \notin pending  BY <1>3, Unissued
<1>5. Ordered(trail')
  <2>1. May(trail, e)  BY <1>1, <1>4 DEF May
  <2> QED  BY <2>1, <1>1, <1>2, AppendOrdered DEF ServiceIInv, DecidedOnce
<1>6. ServiceTypeOK'
  <2>1. trail' \in Seq(TrailEntry)  BY <1>1, <1>2, Appending
  <2>2. told' \in [TaskIds -> Answers]  BY DEF Tell, Answer, Answers, ServiceIInv, ServiceTypeOK
  <2> QED  BY <2>1, <2>2, <1>3 DEF ServiceIInv, ServiceTypeOK
<1>7. \A i \in DOMAIN trail' : trail'[i].task \in issued'
  BY <1>1, <1>2, <1>3, Appending DEF ServiceIInv
<1>8. ASSUME NEW x \in TaskIds
      PROVE  /\ (x \in pending)' <=> Has(trail', x, "approval_request") /\ ~Has(trail', x, "approval_response")
             /\ TellsTrail(x)'
  <2>1. (x \in pending)' <=> Has(trail', x, "approval_request") /\ ~Has(trail', x, "approval_response")
    BY <1>1, <1>2, AppendHas DEF ServiceIInv, DecidedOnce
  <2>2. (told[x].approval = "pending" <=> x \in pending)'
    <3>1. CASE x = t  BY <3>1, <1>4 DEF Tell, Answer, ServiceIInv, ServiceTypeOK
    <3>2. CASE x # t  BY <3>2 DEF Tell, ServiceIInv, ServiceTypeOK, DecidedOnce, TellsTrail
    <3> QED  BY <3>1, <3>2
  <2>3. ASSUME NEW i \in DOMAIN trail', trail'[i].task = x, trail'[i].mode = "approval_response"
        PROVE  told'[x].approval = trail'[i].status
    <3>1. i \in DOMAIN trail /\ trail'[i] = trail[i]  BY <2>3, <1>1, <1>2, Appending
    <3>2. x # t  BY <3>1, <2>3, <1>4 DEF Has
    <3> QED  BY <3>1, <3>2, <2>3 DEF Tell, ServiceIInv, ServiceTypeOK, DecidedOnce, TellsTrail
  <2> QED  BY <2>1, <2>2, <2>3 DEF TellsTrail
<1> QED  BY <1>5, <1>6, <1>7, <1>8 DEF ServiceIInv, DecidedOnce

\* A fresh task that is asked about: a classification and the request follow.
LEMMA ReviewIsAsked ==
  ASSUME ServiceIInv, NEW t \in TaskIds, ReviewRequired(t)
  PROVE  ServiceIInv'
<1> DEFINE level == "REVIEW_REQUIRED"
           c == Classification(t, level)  r == ApprovalRequest(t, level)  s == Append(trail, c)
<1>1. /\ c \in TrailEntry /\ c.task = t /\ c.mode = "classify" /\ c.classification = level
      /\ r \in TrailEntry /\ r.task = t /\ r.mode = "approval_request"
  BY DEF Classification, ApprovalRequest, Entry, TrailEntry, EntryModes, ClassificationLevels
<1>2. trail \in Seq(TrailEntry) /\ trail' = Append(s, r)
  BY DEF ReviewRequired, ServiceIInv, ServiceTypeOK
<1> HIDE DEF c, r
<1>3. s \in Seq(TrailEntry)  BY <1>1, <1>2, Appending
<1>4. t \notin issued /\ issued' = issued \cup {t} /\ pending' = pending \cup {t}
  BY DEF ReviewRequired, Classed, FreshId
<1>5. \A mode : ~Has(trail, t, mode)  BY <1>4, Unissued
<1>6. Ordered(trail')
  <2>1. Ordered(s)
    <3>1. May(trail, c)  BY <1>1, <1>5 DEF May
    <3> QED  BY <3>1, <1>1, <1>2, AppendOrdered DEF ServiceIInv, DecidedOnce
  <2>2. May(s, r)
    <3>1. ~Has(s, t, "approval_request")  BY <1>1, <1>2, <1>5, AppendHas
    <3>2. \E k \in DOMAIN s : s[k].task = t /\ s[k].mode = "classify" /\ s[k].classification = level
      <4>1. Len(trail) + 1 \in DOMAIN s /\ s[Len(trail) + 1] = c  BY <1>1, <1>2, Appending
      <4> QED  BY <4>1, <1>1
    <3> QED  BY <3>1, <3>2, <1>1 DEF May
  <2> QED  BY <2>1, <2>2, <1>1, <1>2, <1>3, AppendOrdered
<1>7. ServiceTypeOK'
  <2>1. trail' \in Seq(TrailEntry)  BY <1>1, <1>2, <1>3, Appending
  <2>2. told' \in [TaskIds -> Answers]
    BY DEF ReviewRequired, Tell, Answer, Answers, ServiceIInv, ServiceTypeOK
  <2>3. classified' \in Seq(ClassificationLevels) /\ executable' \in BOOLEAN
    BY DEF ReviewRequired, Classed, ClassificationLevels, ServiceIInv, ServiceTypeOK
  <2> QED  BY <2>1, <2>2, <2>3, <1>4 DEF ServiceIInv, ServiceTypeOK
<1>8. \A i \in DOMAIN trail' : trail'[i].task \in issued'
  <2>1. \A i \in DOMAIN s : s[i].task \in issued'
    BY <1>1, <1>2, <1>4, Appending DEF ServiceIInv
  <2> QED  BY <2>1, <1>1, <1>2, <1>3, <1>4, Appending
<1>9. ASSUME NEW x \in TaskIds
      PROVE  /\ (x \in pending)' <=> Has(trail', x, "approval_request") /\ ~Has(trail', x, "approval_response")
             /\ TellsTrail(x)'
  <2>1. \A mode : Has(trail', x, mode) <=>
          Has(trail, x, mode) \/ (x = t /\ mode \in {"classify", "approval_request"})
    BY <1>1, <1>2, <1>3, AppendHas
  <2>2. (x \in pending)' <=> Has(trail', x, "approval_request") /\ ~Has(trail', x, "approval_response")
    BY <2>1, <1>4, <1>5 DEF ServiceIInv, DecidedOnce
  <2>3. (told[x].approval = "pending" <=> x \in pending)'
    <3>1. CASE x = t  BY <3>1, <1>4 DEF ReviewRequired, Tell, Answer, ServiceIInv, ServiceTypeOK
    <3>2. CASE x # t
      BY <3>2, <1>4 DEF ReviewRequired, Tell, ServiceIInv, ServiceTypeOK, DecidedOnce, TellsTrail
    <3> QED  BY <3>1, <3>2
  <2>4. ASSUME NEW i \in DOMAIN trail', trail'[i].task = x, trail'[i].mode = "approval_response"
        PROVE  told'[x].approval = trail'[i].status
    <3>1. i \in DOMAIN s /\ trail'[i] = s[i]  BY <2>4, <1>1, <1>2, <1>3, Appending
    <3>2. i \in DOMAIN trail /\ s[i] = trail[i]  BY <3>1, <2>4, <1>1, <1>2, Appending
    <3>3. x # t  BY <3>1, <3>2, <2>4, <1>5 DEF Has
    <3> QED
      BY <3>1, <3>2, <3>3, <2>4 DEF ReviewRequired, Tell, ServiceIInv, ServiceTypeOK, DecidedOnce, TellsTrail
  <2> QED  BY <2>2, <2>3, <2>4 DEF TellsTrail
<1> QED  BY <1>6, <1>7, <1>8, <1>9 DEF ServiceIInv, DecidedOnce

\* The answer to a pending task: the first and only one.
LEMMA AnswerIsOnce ==
  ASSUME ServiceIInv, NEW t \in TaskIds, NEW approved \in BOOLEAN, ApproveTask(t, approved)
  PROVE  ServiceIInv'
<1> DEFINE verdict == IF approved THEN "approved" ELSE "denied"
           e == ApprovalResponse(t, verdict)
<1>1. /\ e \in TrailEntry /\ e.task = t /\ e.mode = "approval_response" /\ e.status = verdict
      /\ verdict # "pending"
  BY DEF ApprovalResponse, Entry, TrailEntry, EntryModes
<1>2. /\ trail \in Seq(TrailEntry) /\ trail' = Append(trail, e)
      /\ t \in pending /\ pending' = pending \ {t} /\ issued' = issued
  BY DEF ApproveTask, Left, ServiceIInv, ServiceTypeOK
<1>3. told' = [told EXCEPT ![t] = Answer(IF approved THEN "success" ELSE "blocked", verdict)]
  BY DEF ApproveTask, Tell
<1> HIDE DEF e
<1>4. told \in [TaskIds -> Answers] /\ told'[t].approval = verdict
  BY <1>3 DEF ServiceIInv, ServiceTypeOK, Answer
<1>5. Has(trail, t, "approval_request") /\ ~Has(trail, t, "approval_response")
  BY <1>2 DEF ServiceIInv, DecidedOnce
<1>6. Ordered(trail')
  <2>1. May(trail, e)  BY <1>1, <1>5 DEF May
  <2> QED  BY <2>1, <1>1, <1>2, AppendOrdered DEF ServiceIInv, DecidedOnce
<1>7. ServiceTypeOK'
  <2>1. trail' \in Seq(TrailEntry)  BY <1>1, <1>2, Appending
  <2>2. told' \in [TaskIds -> Answers]  BY <1>3, <1>4 DEF Answer, Answers
  <2> QED  BY <2>1, <2>2, <1>2 DEF ApproveTask, ServiceIInv, ServiceTypeOK
<1>8. \A i \in DOMAIN trail' : trail'[i].task \in issued'
  BY <1>1, <1>2, Appending DEF ServiceIInv, ServiceTypeOK
<1>9. ASSUME NEW x \in TaskIds
      PROVE  /\ (x \in pending)' <=> Has(trail', x, "approval_request") /\ ~Has(trail', x, "approval_response")
             /\ TellsTrail(x)'
  <2>1. (x \in pending)' <=> Has(trail', x, "approval_request") /\ ~Has(trail', x, "approval_response")
    <3>1. CASE x = t  BY <3>1, <1>1, <1>2, AppendHas
    <3>2. CASE x # t  BY <3>2, <1>1, <1>2, AppendHas DEF ServiceIInv, DecidedOnce
    <3> QED  BY <3>1, <3>2
  <2>2. (told[x].approval = "pending" <=> x \in pending)'
    <3>1. CASE x = t  BY <3>1, <1>1, <1>2, <1>4
    <3>2. CASE x # t  BY <3>2, <1>2, <1>3, <1>4 DEF ServiceIInv, DecidedOnce, TellsTrail
    <3> QED  BY <3>1, <3>2
  <2>3. ASSUME NEW i \in DOMAIN trail', trail'[i].task = x, trail'[i].mode = "approval_response"
        PROVE  told'[x].approval = trail'[i].status
    <3>1. CASE i = Len(trail) + 1
      <4>1. trail'[i] = e  BY <3>1, <1>1, <1>2, Appending
      <4> QED  BY <4>1, <2>3, <1>1, <1>4
    <3>2. CASE i \in DOMAIN trail
      <4>1. trail'[i] = trail[i]  BY <3>2, <1>1, <1>2, Appending
      <4>2. x # t  BY <4>1, <3>2, <2>3, <1>5 DEF Has
      <4> QED  BY <4>1, <4>2, <3>2, <2>3, <1>3, <1>4 DEF ServiceIInv, DecidedOnce, TellsTrail
    <3> QED  BY <3>1, <3>2, <1>1, <1>2, Appending
  <2> QED  BY <2>1, <2>2, <2>3 DEF TellsTrail
<1> QED  BY <1>6, <1>7, <1>8, <1>9 DEF ServiceIInv, DecidedOnce

\* No id that was just made is pending: nothing is executed.
LEMMA NothingIsExecuted ==
  ASSUME ServiceIInv, NEW t \in TaskIds, ExecuteMode(t)
  PROVE  ServiceIInv'
<1>1. t \notin issued /\ issued' = issued \cup {t}  BY DEF ExecuteMode, FreshId
<1>2. (\A mode : ~Has(trail, t, mode)) /\ t \notin pending  BY <1>1, Unissued
<1>3. /\ trail' = trail /\ UNCHANGED <<classified, pending, executable>>
      /\ told' = [told EXCEPT ![t] = Answer("error", "none")]
  BY <1>2 DEF ExecuteMode, MayExecute, Tell
<1>4. told \in [TaskIds -> Answers]  BY DEF ServiceIInv, ServiceTypeOK
<1>5. ServiceTypeOK'
  <2>1. told' \in [TaskIds -> Answers]  BY <1>3, <1>4 DEF Answer, Answers
  <2> QED  BY <2>1, <1>1, <1>3 DEF ServiceIInv, ServiceTypeOK
<1>6. ASSUME NEW x \in TaskIds PROVE TellsTrail(x)'
  <2>1. CASE x = t
    <3>1. told'[x].approval = "none"  BY <2>1, <1>3, <1>4 DEF Answer
    <3> QED  BY <3>1, <2>1, <1>2, <1>3 DEF TellsTrail, Has
  <2>2. CASE x # t  BY <2>2, <1>3, <1>4 DEF ServiceIInv, DecidedOnce, TellsTrail
  <2> QED  BY <2>1, <2>2
<1>7. DecidedOnce'  BY <1>3, <1>6 DEF ServiceIInv, DecidedOnce
<1> QED  BY <1>1, <1>3, <1>5, <1>7 DEF ServiceIInv

LEMMA ServiceNextKeepsIInv ==
  ASSUME ServiceIInv, [ServiceNext]_serviceVars
  PROVE  ServiceIInv'
<1>1. ASSUME NEW t \in TaskIds, DraftMode(t) PROVE ServiceIInv'
  <2>1. "SAFE" \in ClassificationLevels /\ classified' \in Seq(ClassificationLevels)
    BY <1>1 DEF DraftMode, ClassificationLevels, ServiceIInv, ServiceTypeOK
  <2> QED  BY <1>1, <2>1, OnlyClassified DEF DraftMode
<1>2. ASSUME NEW t \in TaskIds, NEW matched \in SUBSET PatternLists, ReviewMode(t, matched) PROVE ServiceIInv'
  <2>1. ASSUME NEW level \in ClassificationLevels, Classed(t, level)
        PROVE  classified' \in Seq(ClassificationLevels)
    BY <2>1 DEF Classed, ServiceIInv, ServiceTypeOK
  <2>2. "SAFE" \in ClassificationLevels /\ "BLOCKED" \in ClassificationLevels
    BY DEF ClassificationLevels
  <2>3. CASE ReviewSafe(t)
    BY <2>1, <2>2, <2>3, OnlyClassified DEF ReviewSafe, Classed
  <2>4. CASE ReviewBlocked(t)
    BY <2>1, <2>2, <2>4, OnlyClassified DEF ReviewBlocked, Classed
  <2>5. CASE ReviewRequired(t)  BY <2>5, ReviewIsAsked
  <2> QED  BY <1>2, <2>3, <2>4, <2>5 DEF ReviewMode
<1>3. CASE EnableExecute
  BY <1>3 DEF EnableExecute, ServiceIInv, ServiceTypeOK, DecidedOnce, TellsTrail
<1>4. CASE UNCHANGED serviceVars
  BY <1>4 DEF serviceVars, ServiceIInv, ServiceTypeOK, DecidedOnce, TellsTrail
<1> QED  BY <1>1, <1>2, <1>3, <1>4, AnswerIsOnce, NothingIsExecuted DEF ServiceNext

LEMMA ServiceInitHasIInv == ServiceInit => ServiceIInv
<1> SUFFICES ASSUME ServiceInit PROVE ServiceIInv  OBVIOUS
<1>1. ServiceTypeOK
  <2>1. trail \in Seq(TrailEntry) /\ classified \in Seq(ClassificationLevels)  BY DEF ServiceInit
  <2>2. Silent \in Answers  BY DEF Silent, Answer, Answers
  <2> QED  BY <2>1, <2>2 DEF ServiceInit, ServiceTypeOK
<1>2. DecidedOnce  BY DEF ServiceInit, DecidedOnce, Ordered, TellsTrail, Has, Silent, Answer
<1> QED  BY <1>1, <1>2 DEF ServiceInit, ServiceIInv

\* The service's attributes keep their types, for any number of tasks.
THEOREM ServiceTypes == ServiceSpec => []ServiceTypeOK
<1>1. ServiceIInv => ServiceTypeOK  BY DEF ServiceIInv
<1> QED  BY <1>1, ServiceInitHasIInv, ServiceNextKeepsIInv, PTL DEF ServiceSpec

\* Every task is decided once at most, and the trail and the user are told alike, for any
\* number of tasks and trails of any length (service.py:183-310).
THEOREM AlwaysDecidedOnce == ServiceSpec => []DecidedOnce
<1>1. ServiceIInv => DecidedOnce  BY DEF ServiceIInv
<1> QED  BY <1>1, ServiceInitHasIInv, ServiceNextKeepsIInv, PTL DEF ServiceSpec

-------------------------------------------------------------------------------
(* The AI clients: how a stream is cut into lines.                             *)

\* The lines that are whole among the first n tokens of a stream.
Lines(n) == n \div LineLength

\* The first n pieces of a text, or all of them.
Upto(s, n) == IF n < Len(s) THEN n ELSE Len(s)

\* The tokens before the n-th newline and r more, less than a line.
LEMMA Division ==
  ASSUME NEW n \in Nat
  PROVE  /\ Lines(n) \in Nat
         /\ LineLength * Lines(n) <= n /\ n < LineLength * Lines(n) + LineLength
  BY LineAssumption DEF Lines

LEMMA DivisionIsUnique ==
  ASSUME NEW n \in Nat, NEW q \in Nat, LineLength * q <= n, n < LineLength * q + LineLength
  PROVE  Lines(n) = q
<1>1. LineLength \in Nat /\ LineLength > 0  BY LineAssumption
<1>2. PICK l, p : l = LineLength /\ p = Lines(n)  OBVIOUS
<1>3. /\ l \in Nat /\ l > 0 /\ p \in Nat /\ l * p <= n /\ n < l * p + l
      /\ l * q <= n /\ n < l * q + l
  BY <1>1, <1>2, Division
<1>4. ~(p < q)
  <2>1. SUFFICES ASSUME p + 1 <= q PROVE FALSE  BY <1>3
  <2>2. l * (p + 1) <= l * q  BY <1>3, <2>1
  <2>3. l * (p + 1) = l * p + l  BY <1>3
  <2> QED  BY <1>3, <2>2, <2>3
<1>5. ~(q < p)
  <2>1. SUFFICES ASSUME q + 1 <= p PROVE FALSE  BY <1>3
  <2>2. l * (q + 1) <= l * p  BY <1>3, <2>1
  <2>3. l * (q + 1) = l * q + l  BY <1>3
  <2> QED  BY <1>3, <2>2, <2>3
<1> QED  BY <1>2, <1>3, <1>4, <1>5

\* More tokens are not fewer lines.
LEMMA LinesGrow ==
  ASSUME NEW n \in Nat, NEW m \in Nat, n <= m
  PROVE  Lines(n) <= Lines(m)
<1>1. PICK l, p, q : l = LineLength /\ p = Lines(n) /\ q = Lines(m)  OBVIOUS
<1>2. /\ l \in Nat /\ l > 0 /\ p \in Nat /\ q \in Nat
      /\ l * p <= n /\ m < l * q + l
  <2>1. LineLength \in Nat /\ LineLength > 0  BY LineAssumption
  <2>2. Lines(n) \in Nat /\ LineLength * Lines(n) <= n  BY Division
  <2>3. Lines(m) \in Nat /\ m < LineLength * Lines(m) + LineLength  BY Division
  <2> QED  BY <1>1, <2>1, <2>2, <2>3
<1>3. ~(q < p)
  <2>1. SUFFICES ASSUME q + 1 <= p PROVE FALSE  BY <1>2
  <2>2. l * (q + 1) <= l * p  BY <1>2, <2>1
  <2>3. l * (q + 1) = l * q + l  BY <1>2
  <2> QED  BY <1>2, <2>2, <2>3
<1> QED  BY <1>1, <1>2, <1>3

\* The first n pieces and those after them are the first m.
LEMMA NextPieces ==
  ASSUME NEW S, NEW s \in Seq(S), NEW n \in Nat, NEW m \in Nat, n <= m
  PROVE  SubSeq(s, 1, Upto(s, n)) \o SubSeq(s, n + 1, Upto(s, m)) = SubSeq(s, 1, Upto(s, m))
<1>1. PICK k, j, e : k = Upto(s, n) /\ j = Upto(s, m) /\ e = Len(s)  OBVIOUS
<1>2. e \in Nat /\ k \in 0..e /\ j \in k..e
  BY <1>1 DEF Upto
<1>3. SubSeq(s, n + 1, j) = SubSeq(s, k + 1, j)
  <2>1. CASE n < e  BY <1>1, <2>1 DEF Upto
  <2>2. CASE ~(n < e)
    <3>1. j < n + 1 /\ j < k + 1 /\ n + 1 \in Int /\ k + 1 \in Int /\ j \in Int
      BY <1>1, <1>2, <2>2 DEF Upto
    <3> QED  BY <3>1, SubSeqEmpty
  <2> QED  BY <2>1, <2>2
<1>4. 1 \in 1..(e + 1) /\ k \in (1 - 1)..e  BY <1>2
<1>5. SubSeq(s, 1, k) \o SubSeq(s, k + 1, j) = SubSeq(s, 1, j)
  BY <1>1, <1>2, <1>4, ConcatAdjacentSubSeq
<1> QED  BY <1>1, <1>3, <1>5

\* What ReadChunk adds to the text, when the buffer holds the beginning of a line.
LEMMA ResponsesOfChunk ==
  ASSUME NEW s \in Seq(Pieces), NEW n \in Nat, NEW m \in Nat, n <= m
  PROVE  /\ AfterLastNewline(LineLength * Lines(n), m) = LineLength * Lines(m)
         /\ Responses(s, LineLength * Lines(n), m) = SubSeq(s, Lines(n) + 1, Upto(s, Lines(m)))
<1>1. Lines(n) \in Nat /\ Lines(m) \in Nat /\ Lines(n) <= Lines(m) /\ LineLength \in Nat /\ LineLength > 0
  <2>1. Lines(n) \in Nat /\ Lines(m) \in Nat  BY Division
  <2>2. Lines(n) <= Lines(m)  BY LinesGrow
  <2> QED  BY <2>1, <2>2, LineAssumption
<1>2. LineLength * Lines(n) <= LineLength * Lines(m)
  BY <1>1
<1>3. AfterLastNewline(LineLength * Lines(n), m) = LineLength * Lines(m)
  <2>1. LineLength * Lines(n) \in Nat /\ LineLength * Lines(m) \in Nat  BY <1>1
  <2> QED  BY <1>2, <2>1 DEF AfterLastNewline, Lines
<1>4. (LineLength * Lines(n) + LineLength - 1) \div LineLength = Lines(n)
  <2>1. PICK w, t : w = LineLength * Lines(n) /\ t = LineLength * Lines(n) + LineLength - 1  OBVIOUS
  <2>2. w \in Nat  BY <1>1, <2>1
  <2>3. t \in Nat /\ w <= t /\ t < w + LineLength  BY <1>1, <2>1, <2>2
  <2>4. Lines(t) = Lines(n)  BY <1>1, <2>1, <2>3, DivisionIsUnique
  <2> QED  BY <2>1, <2>4 DEF Lines
<1> QED  BY <1>3, <1>4 DEF Responses, Upto, Lines

\* A stream is one line longer than its text has pieces.
LEMMA WholeStream ==
  ASSUME NEW s \in Seq(Pieces)
  PROVE  /\ StreamLength(s) \in Nat /\ Lines(StreamLength(s)) = Len(s) + 1
         /\ SubSeq(s, 1, Upto(s, Len(s) + 1)) = s
<1>1. LineLength \in Nat /\ LineLength > 0 /\ Len(s) \in Nat  BY LineAssumption
<1>2. PICK n, l, w : n = Len(s) + 1 /\ l = LineLength /\ w = StreamLength(s)  OBVIOUS
<1>3. l \in Nat /\ l > 0 /\ n \in Nat /\ w = l * n  BY <1>1, <1>2 DEF StreamLength
<1>4. l * n \in Nat  BY <1>3
<1>5. w \in Nat /\ l * n <= w /\ w < l * n + l  BY <1>3, <1>4
<1>6. Lines(w) = n  BY <1>2, <1>3, <1>5, DivisionIsUnique
<1>7. Upto(s, Len(s) + 1) = Len(s)  BY <1>1 DEF Upto
<1> QED  BY <1>2, <1>5, <1>6, <1>7, SubSeqFull

-------------------------------------------------------------------------------
(* The calls.                                                                  *)

\* What the invariant says of one call.
CallFine(r) ==
  /\ r \in Call
  /\ r.at = "done" => r.text = r.sent /\ (r.op = "stream" => r.shown = r.text)
  /\ r.at = "read" =>
       /\ r.received <= StreamLength(r.sent) /\ r.parsed = LineLength * Lines(r.received)
       /\ r.text = SubSeq(r.sent, 1, Upto(r.sent, Lines(r.received)))
       /\ r.op = "stream" => r.shown = r.text
  /\ r.at \notin {"read", "done", "threw"} =>
       r.text = <<>> /\ r.shown = <<>> /\ r.received = 0 /\ r.parsed = 0
  /\ r.op # "generate" => r.preferLocal /\ r.turn = 1
  /\ r.at = "cloud" => r.op = "generate"
  /\ r.op = "generate" => r.shown = <<>>
  /\ r.op = "none" <=> r.at = "idle"

LEMMA IInvIsFine ==
  ClientsIInv <=> /\ models \in Seq(Models) /\ call \in [Calls -> Call]
                  /\ \A c \in Calls : CallFine(call[c])
<1>1. ASSUME ClientsIInv, NEW c \in Calls PROVE CallFine(call[c])
  <2>1. PICK r : r = call[c]  OBVIOUS
  <2>2. r \in Call  BY <1>1, <2>1 DEF ClientsIInv, ClientsTypeOK
  <2>3. /\ r.at = "done" => r.text = r.sent /\ (r.op = "stream" => r.shown = r.text)
        /\ r.at \notin {"read", "done", "threw"} =>
             r.text = <<>> /\ r.shown = <<>> /\ r.received = 0 /\ r.parsed = 0
    BY <1>1, <2>1 DEF ClientsIInv, AnswerIsWhole, NothingReadYet
  <2>4. /\ r.op # "generate" => r.preferLocal /\ r.turn = 1
        /\ r.at = "cloud" => r.op = "generate"
        /\ r.op = "generate" => r.shown = <<>>
        /\ r.op = "none" <=> r.at = "idle"
    BY <1>1, <2>1 DEF ClientsIInv, CloudsAreForGenerate
  <2>5. r.at = "read" =>
          /\ r.received <= StreamLength(r.sent) /\ r.parsed = LineLength * Lines(r.received)
          /\ r.text = SubSeq(r.sent, 1, Upto(r.sent, Lines(r.received)))
          /\ r.op = "stream" => r.shown = r.text
    BY <1>1, <2>1 DEF ClientsIInv, BufferIsPartOfALine, Lines, Upto
  <2> QED  BY <2>1, <2>2, <2>3, <2>4, <2>5 DEF CallFine
<1>2. ASSUME models \in Seq(Models), call \in [Calls -> Call], \A c \in Calls : CallFine(call[c])
      PROVE  ClientsIInv
  <2>1. ClientsTypeOK  BY <1>2 DEF ClientsTypeOK
  <2>2. AnswerIsWhole /\ NothingReadYet /\ CloudsAreForGenerate
    BY <1>2 DEF CallFine, AnswerIsWhole, NothingReadYet, CloudsAreForGenerate
  <2>3. BufferIsPartOfALine  BY <1>2 DEF CallFine, BufferIsPartOfALine, Lines, Upto
  <2> QED  BY <2>1, <2>2, <2>3 DEF ClientsIInv
<1>3. ClientsIInv => models \in Seq(Models) /\ call \in [Calls -> Call]
  BY DEF ClientsIInv, ClientsTypeOK
<1> QED  BY <1>1, <1>2, <1>3

LEMMA FineIsIInvAfter ==
  ASSUME models' \in Seq(Models), call' \in [Calls -> Call], \A c \in Calls : CallFine(call'[c])
  PROVE  ClientsIInv'
<1>1. ClientsTypeOK'  BY DEF ClientsTypeOK
<1>2. AnswerIsWhole' /\ NothingReadYet' /\ CloudsAreForGenerate'
  BY DEF CallFine, AnswerIsWhole, NothingReadYet, CloudsAreForGenerate
<1>3. BufferIsPartOfALine'  BY DEF CallFine, BufferIsPartOfALine, Lines, Upto
<1> QED  BY <1>1, <1>2, <1>3 DEF ClientsIInv

\* A step of one call, to a record that is fine.
LEMMA CallReplaced ==
  ASSUME ClientsIInv, NEW c \in Calls, NEW r, CallFine(r),
         call' = [call EXCEPT ![c] = r], models' = models
  PROVE  ClientsIInv'
<1>1. /\ models \in Seq(Models) /\ call \in [Calls -> Call] /\ r \in Call
      /\ \A d \in Calls : CallFine(call[d])
  BY IInvIsFine DEF CallFine
<1>2. call' \in [Calls -> Call] /\ \A d \in Calls : call'[d] = IF d = c THEN r ELSE call[d]
  BY <1>1
<1>3. \A d \in Calls : CallFine(call'[d])  BY <1>1, <1>2
<1> QED  BY <1>1, <1>2, <1>3, FineIsIInvAfter

-------------------------------------------------------------------------------
(* What setting a field of a call does.                                        *)

Steps == {"idle", "configured", "resolve", "post", "read", "cloud", "done", "threw"}

LEMMA FieldTypes ==
  ASSUME NEW r \in Call
  PROVE  /\ r.op \in {"none", "generate", "stream", "chat"} /\ r.preferLocal \in BOOLEAN
         /\ r.at \in Steps /\ r.turn \in 1..5 /\ r.model \in Models \cup {NoModel}
         /\ r.sent \in Seq(Pieces) /\ r.received \in Nat /\ r.parsed \in Nat
         /\ r.text \in Seq(Pieces) /\ r.shown \in Seq(Pieces)
  BY DEF Call, Steps

\* A call that a provider failed is fine: generate begins with the next one, and the
\* others throw.
LEMMA FailedFine ==
  ASSUME NEW c \in Calls, CallFine(call[c]), call[c].op # "none"
  PROVE  CallFine(Failed(c))
<1>1. PICK r : r = call[c]  OBVIOUS
<1>2. CallFine(r) /\ r \in Call /\ r.op # "none"  BY <1>1 DEF CallFine
<1>3. <<>> \in Seq(Pieces) /\ 0 \in Nat /\ NoModel \in Models \cup {NoModel}  OBVIOUS
<1>4. CASE r.op # "generate" \/ r.turn = 5
  <2>1. PICK p, q : p = [r EXCEPT !.at = "threw"] /\ q = [p EXCEPT !.text = <<>>]  OBVIOUS
  <2>2. Failed(c) = q  BY <1>1, <1>4, <2>1 DEF Failed
  <2>3. "threw" \in Steps  BY DEF Steps
  <2>4. /\ p \in Call /\ p.at = "threw" /\ p.op = r.op /\ p.preferLocal = r.preferLocal
        /\ p.turn = r.turn /\ p.shown = r.shown
    BY ONLY <1>2, <2>1, <2>3 DEF Call, Steps
  <2>5. /\ q \in Call /\ q.at = "threw" /\ q.op = r.op /\ q.preferLocal = r.preferLocal
        /\ q.turn = r.turn /\ q.shown = r.shown
    BY ONLY <1>3, <2>1, <2>4 DEF Call, Steps
  <2>6. CallFine(q)  BY <1>2, <2>5 DEF CallFine
  <2> QED  BY <2>2, <2>6
<1>5. CASE r.op = "generate" /\ r.turn # 5
  <2>1. PICK r1, r2 : r1 = [r EXCEPT !.at = "configured"] /\ r2 = [r1 EXCEPT !.turn = r.turn + 1]
    OBVIOUS
  <2>a. PICK r3 : r3 = [r2 EXCEPT !.model = NoModel]  OBVIOUS
  <2>b. PICK r4 : r4 = [r3 EXCEPT !.sent = <<>>]  OBVIOUS
  <2>c. PICK r5 : r5 = [r4 EXCEPT !.received = 0]  OBVIOUS
  <2>d. PICK r6 : r6 = [r5 EXCEPT !.parsed = 0]  OBVIOUS
  <2>e. PICK r7 : r7 = [r6 EXCEPT !.text = <<>>]  OBVIOUS
  <2>2. "configured" \in Steps  BY DEF Steps
  <2>3. r.turn + 1 \in 1..5  BY <1>2, <1>5, FieldTypes
  <2>4. /\ r1 \in Call /\ r1.at = "configured" /\ r1.op = "generate" /\ r1.shown = r.shown
        /\ r1.turn = r.turn
    BY ONLY <1>2, <1>5, <2>1, <2>2 DEF Call, Steps
  <2>5. r2 \in Call /\ r2.at = "configured" /\ r2.op = "generate" /\ r2.shown = r.shown
    BY ONLY <2>1, <2>3, <2>4 DEF Call, Steps
  <2>6. r3 \in Call /\ r3.at = "configured" /\ r3.op = "generate" /\ r3.shown = r.shown
    BY ONLY <1>3, <2>a, <2>5 DEF Call, Steps
  <2>7. r4 \in Call /\ r4.at = "configured" /\ r4.op = "generate" /\ r4.shown = r.shown
    BY ONLY <1>3, <2>b, <2>6 DEF Call, Steps
  <2>8. /\ r5 \in Call /\ r5.at = "configured" /\ r5.op = "generate" /\ r5.shown = r.shown
        /\ r5.received = 0
    BY ONLY <1>3, <2>c, <2>7 DEF Call, Steps
  <2>9. /\ r6 \in Call /\ r6.at = "configured" /\ r6.op = "generate" /\ r6.shown = r.shown
        /\ r6.received = 0 /\ r6.parsed = 0
    BY ONLY <1>3, <2>d, <2>8 DEF Call, Steps
  <2>10. /\ r7 \in Call /\ r7.at = "configured" /\ r7.op = "generate" /\ r7.shown = r.shown
         /\ r7.received = 0 /\ r7.parsed = 0 /\ r7.text = <<>>
    BY ONLY <1>3, <2>e, <2>9 DEF Call, Steps
  <2>11. r.shown = <<>>  BY <1>2, <1>5 DEF CallFine
  <2>12. CallFine(r7)  BY <2>10, <2>11 DEF CallFine
  <2>13. Failed(c) = r7  BY <1>1, <1>5, <2>1, <2>a, <2>b, <2>c, <2>d, <2>e DEF Failed
  <2> QED  BY <2>12, <2>13
<1> QED  BY <1>4, <1>5

-------------------------------------------------------------------------------
(* Every action keeps the invariant.                                           *)

LEMMA NewCallFine == CallFine(NewCall)
<1>1. <<>> \in Seq(Pieces)  OBVIOUS
<1>2. NewCall \in Call  BY <1>1 DEF NewCall, Call
<1> QED  BY <1>2 DEF CallFine, NewCall

LEMMA ClientsInitHasIInv == ClientsInit => ClientsIInv
<1>1. <<>> \in Seq(Models) /\ NewCall \in Call  BY NewCallFine DEF CallFine
<1> QED  BY <1>1, IInvIsFine, NewCallFine DEF ClientsInit

LEMMA BeginKeeps ==
  ASSUME ClientsIInv, NEW c \in Calls, NEW op \in {"generate", "stream", "chat"},
         NEW preferLocal \in BOOLEAN, Begin(c, op, preferLocal)
  PROVE  ClientsIInv'
<1>1. PICK at, r1, r2, r3 :
        /\ at = IF op = "generate" THEN "configured" ELSE "resolve"
        /\ r1 = [NewCall EXCEPT !.op = op] /\ r2 = [r1 EXCEPT !.preferLocal = preferLocal]
        /\ r3 = [r2 EXCEPT !.at = at]
  OBVIOUS
<1>2. call' = [call EXCEPT ![c] = r3] /\ models' = models /\ (op # "generate" => preferLocal)
  BY <1>1 DEF Begin
<1>3. at \in {"configured", "resolve"}  BY <1>1
<1>5. /\ r1 \in Call /\ r1.op = op /\ r1.turn = 1 /\ r1.received = 0 /\ r1.parsed = 0
      /\ r1.text = <<>> /\ r1.shown = <<>>
  <2>1. /\ NewCall \in Call /\ NewCall.turn = 1 /\ NewCall.received = 0 /\ NewCall.parsed = 0
        /\ NewCall.text = <<>> /\ NewCall.shown = <<>>
    BY NewCallFine DEF CallFine, NewCall
  <2>2. PICK r : r = NewCall  OBVIOUS
  <2> QED  BY <1>1, <2>1, <2>2 DEF Call
<1>6. /\ r2 \in Call /\ r2.op = op /\ r2.turn = 1 /\ r2.received = 0 /\ r2.parsed = 0
      /\ r2.text = <<>> /\ r2.shown = <<>> /\ r2.preferLocal = preferLocal
  BY <1>1, <1>5 DEF Call
<1>7. /\ r3 \in Call /\ r3.op = op /\ r3.turn = 1 /\ r3.received = 0 /\ r3.parsed = 0
      /\ r3.text = <<>> /\ r3.shown = <<>> /\ r3.preferLocal = preferLocal /\ r3.at = at
  BY <1>1, <1>3, <1>6 DEF Call
<1>8. CallFine(r3)  BY <1>2, <1>3, <1>7 DEF CallFine
<1> QED  BY <1>2, <1>8, CallReplaced

\* A call that begins or goes on with a provider has nothing to show yet.
Fresh(r) == /\ r \in Call /\ r.op # "none"
            /\ r.op # "generate" => r.preferLocal /\ r.turn = 1
            /\ r.op = "generate" => r.shown = <<>>
            /\ r.text = <<>> /\ r.shown = <<>> /\ r.received = 0 /\ r.parsed = 0

LEMMA FreshCalls ==
  ASSUME ClientsIInv, NEW c \in Calls, call[c].at \in {"configured", "resolve", "post", "cloud"}
  PROVE  Fresh(call[c])
<1>1. CallFine(call[c])  BY IInvIsFine
<1> QED  BY <1>1 DEF CallFine, Fresh

LEMMA GoesOn ==
  ASSUME NEW r, Fresh(r), NEW at \in {"configured", "resolve", "post", "cloud"},
         at = "cloud" => r.op = "generate", NEW q, q = [r EXCEPT !.at = at]
  PROVE  CallFine(q) /\ Fresh(q) /\ q.at = at /\ q.op = r.op
<1>1. r \in Call /\ at \in Steps  BY DEF Fresh, Steps
<1>2. /\ q \in Call /\ q.at = at /\ q.op = r.op /\ q.preferLocal = r.preferLocal
      /\ q.turn = r.turn /\ q.received = r.received /\ q.parsed = r.parsed
      /\ q.text = r.text /\ q.shown = r.shown
  BY <1>1 DEF Call, Steps
<1> QED  BY <1>2 DEF CallFine, Fresh

LEMMA FailingKeeps ==
  ASSUME ClientsIInv, NEW c \in Calls, call[c].at # "idle",
         call' = [call EXCEPT ![c] = Failed(c)], models' = models
  PROVE  ClientsIInv'
<1>1. CallFine(call[c])  BY IInvIsFine
<1>2. call[c].op # "none"  BY <1>1 DEF CallFine
<1>3. CallFine(Failed(c))  BY <1>1, <1>2, FailedFine
<1> QED  BY <1>3, CallReplaced

LEMMA IsConfiguredKeeps ==
  ASSUME ClientsIInv, NEW c \in Calls, NEW answered \in BOOLEAN, IsConfigured(c, answered)
  PROVE  ClientsIInv'
<1>1. call[c].at = "configured" /\ models' = models  BY DEF IsConfigured
<1>2. CASE Configured(c, answered)
  <2>1. PICK r, at, q : /\ r = call[c] /\ at = IF Provider(c) = "ollama" THEN "resolve" ELSE "cloud"
                        /\ q = [r EXCEPT !.at = at]
    OBVIOUS
  <2>2. Fresh(r)  BY <1>1, <2>1, FreshCalls
  <2>3. at = "cloud" => r.op = "generate"
    <3>1. ASSUME r.op # "generate" PROVE Provider(c) = "ollama"
      <4>1. r.preferLocal /\ r.turn = 1  BY <2>2, <3>1 DEF Fresh
      <4> QED  BY <2>1, <4>1 DEF Provider, Providers
    <3> QED  BY <2>1, <3>1
  <2>4. at \in {"configured", "resolve", "post", "cloud"}  BY <2>1
  <2>5. CallFine(q)  BY <2>1, <2>2, <2>3, <2>4, GoesOn
  <2>6. call' = [call EXCEPT ![c] = q]  BY <1>2, <2>1 DEF IsConfigured
  <2> QED  BY <1>1, <2>5, <2>6, CallReplaced
<1>3. CASE ~Configured(c, answered)
  BY <1>1, <1>3, FailingKeeps DEF IsConfigured
<1> QED  BY <1>2, <1>3

\* A set of positions has a least element.
LEMMA Least ==
  ASSUME NEW T, T \subseteq Nat, T # {}
  PROVE  \E i \in T : \A j \in T : ~(j < i)
<1>1. PICK i \in T : \A j \in T : <<j, i>> \notin OpToRel(<, Nat)
  BY WFMin, NatLessThanWellFounded, Zenon
<1> QED  BY <1>1, Zenon DEF OpToRel

\* The model that is chosen is one that is installed.
LEMMA ResolvedIsListed ==
  ASSUME models \in Seq(Models), models # <<>>
  PROVE  ResolveModel \in Models
<1>1. /\ DOMAIN models = 1..Len(models) /\ Len(models) \in Nat /\ 1 \in DOMAIN models
      /\ \A i \in DOMAIN models : models[i] \in Models
  OBVIOUS
<1>2. Listed \subseteq Models  BY <1>1 DEF Listed
<1>3. ASSUME Listed \cap Tagged # {} PROVE FirstIn(Tagged) \in Models
  <2> DEFINE T == {i \in DOMAIN models : models[i] \in Tagged}
  <2>1. T # {} /\ T \subseteq Nat  BY <1>1, <1>3 DEF Listed
  <2>2. PICK i \in T : \A j \in T : ~(j < i)  BY <2>1, Least
  <2>3. \A j \in 1..(i - 1) : models[j] \notin Tagged
    <3>1. \A j \in 1..(i - 1) : j \in DOMAIN models /\ j < i  BY <1>1, <2>2
    <3> QED  BY <2>2, <3>1
  <2>4. \E k \in DOMAIN models : models[k] \in Tagged /\ \A j \in 1..(k - 1) : models[j] \notin Tagged
    BY <2>2, <2>3
  <2> QED  BY <1>1, <2>4 DEF FirstIn
<1> QED  BY <1>1, <1>2, <1>3 DEF ResolveModel

LEMMA ResolveKeeps ==
  ASSUME ClientsIInv, NEW c \in Calls, NEW answered \in BOOLEAN, Resolve(c, answered)
  PROVE  ClientsIInv'
<1>1. call[c].at = "resolve" /\ models' = models  BY DEF Resolve
<1>2. CASE answered /\ models # <<>>
  <2>1. PICK r, m, p, q : /\ r = call[c] /\ m = ResolveModel
                          /\ p = [r EXCEPT !.at = "post"] /\ q = [p EXCEPT !.model = m]
    OBVIOUS
  <2>2. m \in Models \cup {NoModel}  BY <1>2, <2>1, IInvIsFine, ResolvedIsListed
  <2>3. Fresh(r)  BY <1>1, <2>1, FreshCalls
  <2>4. CallFine(p) /\ Fresh(p) /\ p.at = "post"  BY <2>1, <2>3, GoesOn
  <2>5. p \in Call  BY <2>4 DEF Fresh
  <2>6. /\ q \in Call /\ q.at = p.at /\ q.op = p.op /\ q.preferLocal = p.preferLocal
        /\ q.turn = p.turn /\ q.received = p.received /\ q.parsed = p.parsed
        /\ q.text = p.text /\ q.shown = p.shown
    BY ONLY <2>1, <2>2, <2>5 DEF Call
  <2>7. CallFine(q)  BY <2>4, <2>6 DEF CallFine, Fresh
  <2>8. call' = [call EXCEPT ![c] = q]  BY <1>2, <2>1 DEF Resolve
  <2> QED  BY <1>1, <2>7, <2>8, CallReplaced
<1>3. CASE ~(answered /\ models # <<>>)
  BY <1>1, <1>3, FailingKeeps DEF Resolve
<1> QED  BY <1>2, <1>3

\* An answer in one piece: the chat's, or a cloud provider's.
LEMMA AnswerFine ==
  ASSUME NEW r, Fresh(r), r.op # "stream", NEW answer \in Seq(Pieces),
         NEW q, q = [r EXCEPT !.at = "done", !.sent = answer, !.text = answer]
  PROVE  CallFine(q)
<1>1. PICK q1 : q1 = [r EXCEPT !.at = "done"]  OBVIOUS
<1>2. PICK q2 : q2 = [q1 EXCEPT !.sent = answer]  OBVIOUS
<1>3. q = [q2 EXCEPT !.text = answer]  BY <1>1, <1>2
<1>4. r \in Call  BY DEF Fresh
<1>5. answer \in Seq(Pieces)  OBVIOUS
<1>6. /\ q1 \in Call /\ q1.at = "done" /\ q1.op = r.op /\ q1.preferLocal = r.preferLocal
      /\ q1.turn = r.turn /\ q1.shown = r.shown
  BY ONLY <1>1, <1>4 DEF Call
<1>7. /\ q2 \in Call /\ q2.at = "done" /\ q2.op = r.op /\ q2.preferLocal = r.preferLocal
      /\ q2.turn = r.turn /\ q2.shown = r.shown /\ q2.sent = answer
  BY ONLY <1>2, <1>5, <1>6 DEF Call
<1>8. /\ q \in Call /\ q.at = "done" /\ q.op = r.op /\ q.preferLocal = r.preferLocal
      /\ q.turn = r.turn /\ q.shown = r.shown /\ q.sent = answer /\ q.text = answer
  BY ONLY <1>3, <1>5, <1>7 DEF Call
<1> QED  BY <1>8 DEF CallFine, Fresh

LEMMA PostKeeps ==
  ASSUME ClientsIInv, NEW c \in Calls, NEW answered \in BOOLEAN, NEW answer \in Texts,
         Post(c, answered, answer)
  PROVE  ClientsIInv'
<1>1. call[c].at = "post" /\ models' = models /\ answer \in Seq(Pieces)
  BY TextsAssumption DEF Post
<1>2. Fresh(call[c])  BY <1>1, FreshCalls
<1>3. CASE ~answered \/ call[c].model \notin Listed
  BY <1>1, <1>3, FailingKeeps DEF Post
<1>4. CASE ~(~answered \/ call[c].model \notin Listed) /\ call[c].op = "chat"
  <2>1. PICK r, q : r = call[c] /\ q = [r EXCEPT !.at = "done", !.sent = answer, !.text = answer]
    OBVIOUS
  <2>2. CallFine(q)  BY <1>1, <1>2, <1>4, <2>1, AnswerFine
  <2>3. call' = [call EXCEPT ![c] = q]  BY <1>4, <2>1 DEF Post
  <2> QED  BY <1>1, <2>2, <2>3, CallReplaced
<1>5. CASE ~(~answered \/ call[c].model \notin Listed) /\ call[c].op # "chat"
  <2>1. PICK r, p, q : /\ r = call[c] /\ p = [r EXCEPT !.at = "read"]
                       /\ q = [p EXCEPT !.sent = answer]
    OBVIOUS
  <2>2. Fresh(r) /\ r \in Call  BY <1>2, <2>1 DEF Fresh
  <2>3. /\ p \in Call /\ p.at = "read" /\ p.op = r.op /\ p.preferLocal = r.preferLocal
        /\ p.turn = r.turn /\ p.received = r.received /\ p.parsed = r.parsed
        /\ p.text = r.text /\ p.shown = r.shown
    BY ONLY <2>1, <2>2 DEF Call
  <2>4. answer \in Seq(Pieces)  BY <1>1
  <2>5. /\ q \in Call /\ q.at = "read" /\ q.op = r.op /\ q.preferLocal = r.preferLocal
        /\ q.turn = r.turn /\ q.received = r.received /\ q.parsed = r.parsed
        /\ q.text = r.text /\ q.shown = r.shown /\ q.sent = answer
    BY ONLY <2>1, <2>3, <2>4 DEF Call
  <2>6. Lines(0) = 0 /\ LineLength * 0 = 0 /\ 0 <= StreamLength(answer)
    <3>1. LineLength \in Nat /\ LineLength > 0  BY LineAssumption
    <3>2. Lines(0) = 0  BY <3>1, DivisionIsUnique
    <3>3. StreamLength(answer) \in Nat  BY <2>4, WholeStream
    <3> QED  BY <3>1, <3>2, <3>3
  <2>7. SubSeq(answer, 1, Upto(answer, 0)) = <<>>
    <3>1. Upto(answer, 0) = 0  BY <2>4 DEF Upto
    <3> QED  BY <3>1, SubSeqEmpty
  <2>8. CallFine(q)  BY <2>2, <2>5, <2>6, <2>7 DEF CallFine, Fresh
  <2>9. call' = [call EXCEPT ![c] = q]  BY <1>5, <2>1 DEF Post
  <2> QED  BY <1>1, <2>8, <2>9, CallReplaced
<1> QED  BY <1>3, <1>4, <1>5

\* Whatever piece of the stream arrives, the text is again that of the whole lines.
LEMMA ReadChunkKeeps ==
  ASSUME ClientsIInv, NEW c \in Calls, NEW size \in 1..StreamLength(call[c].sent), ReadChunk(c, size)
  PROVE  ClientsIInv'
<1>1. PICK r, s, n, m : r = call[c] /\ s = r.sent /\ n = r.received /\ m = n + size
  OBVIOUS
<1>2. /\ r.at = "read" /\ r \in Call /\ CallFine(r) /\ models' = models
      /\ s \in Seq(Pieces) /\ n \in Nat /\ m \in Nat /\ n <= m /\ m <= StreamLength(s)
  <2>1. CallFine(r)  BY <1>1, IInvIsFine
  <2>2. r \in Call /\ s \in Seq(Pieces) /\ n \in Nat  BY <1>1, <2>1, FieldTypes DEF CallFine
  <2>3. StreamLength(s) \in Nat  BY <2>2, WholeStream
  <2> QED  BY <1>1, <2>1, <2>2, <2>3 DEF ReadChunk
<1>3. PICK more, parsed, shown :
        /\ more = SubSeq(s, Lines(n) + 1, Upto(s, Lines(m)))
        /\ parsed = LineLength * Lines(m)
        /\ shown = IF r.op = "stream" THEN r.shown \o more ELSE r.shown
  OBVIOUS
<1>4. /\ Responses(s, r.parsed, m) = more /\ AfterLastNewline(r.parsed, m) = parsed
  <2>1. r.parsed = LineLength * Lines(n)  BY <1>1, <1>2 DEF CallFine
  <2> QED  BY <1>2, <1>3, <2>1, ResponsesOfChunk
<1>5. /\ r.text \o more = SubSeq(s, 1, Upto(s, Lines(m)))
      /\ r.op = "stream" => shown = r.text \o more
      /\ r.op = "generate" => shown = <<>>
  <2>1. /\ r.text = SubSeq(s, 1, Upto(s, Lines(n)))
        /\ r.op = "stream" => r.shown = r.text
        /\ r.op = "generate" => r.shown = <<>>
    BY <1>1, <1>2 DEF CallFine
  <2>2. Lines(n) \in Nat /\ Lines(m) \in Nat /\ Lines(n) <= Lines(m)
    <3>1. Lines(n) \in Nat /\ Lines(m) \in Nat  BY <1>2, Division
    <3>2. Lines(n) <= Lines(m)  BY <1>2, LinesGrow
    <3> QED  BY <3>1, <3>2
  <2>3. SubSeq(s, 1, Upto(s, Lines(n))) \o more = SubSeq(s, 1, Upto(s, Lines(m)))
    BY <1>2, <1>3, <2>2, NextPieces
  <2> QED  BY <1>3, <2>1, <2>3
<1>6. more \in Seq(Pieces) /\ parsed \in Nat
  <2>1. Lines(n) \in Nat /\ Lines(m) \in Nat /\ LineLength \in Nat  BY <1>2, Division, LineAssumption
  <2>2. PICK j : j = Upto(s, Lines(m))  OBVIOUS
  <2>3. j \in 0..Len(s) /\ Len(s) \in Nat  BY <1>2, <2>1, <2>2 DEF Upto
  <2>4. \A i \in (Lines(n) + 1)..j : s[i] \in Pieces  BY <1>2, <2>1, <2>3
  <2>5. Lines(n) + 1 \in Int /\ j \in Int  BY <2>1, <2>3
  <2>6. SubSeq(s, Lines(n) + 1, j) \in Seq(Pieces)  BY <2>4, <2>5, SubSeqProperties
  <2> QED  BY <1>3, <2>1, <2>2, <2>6
<1>7. PICK text : text = r.text \o more  OBVIOUS
<1>8. text \in Seq(Pieces) /\ shown \in Seq(Pieces)
  <2>1. r.text \in Seq(Pieces) /\ r.shown \in Seq(Pieces)  BY <1>2, FieldTypes
  <2>2. r.text \o more \in Seq(Pieces) /\ r.shown \o more \in Seq(Pieces)
    BY <1>6, <2>1, ConcatProperties
  <2> QED  BY <1>3, <1>7, <2>1, <2>2
<1>9. PICK q1 : q1 = [r EXCEPT !.received = m]  OBVIOUS
<1>10. PICK q2 : q2 = [q1 EXCEPT !.parsed = parsed]  OBVIOUS
<1>11. PICK q3 : q3 = [q2 EXCEPT !.text = text]  OBVIOUS
<1>12. PICK q : q = [q3 EXCEPT !.shown = shown]  OBVIOUS
<1>13. call' = [call EXCEPT ![c] = q]
  <2>1. call' = [call EXCEPT ![c] =
                   [r EXCEPT !.received = m, !.parsed = AfterLastNewline(r.parsed, m),
                             !.text = r.text \o Responses(s, r.parsed, m),
                             !.shown = IF r.op = "stream" THEN r.shown \o Responses(s, r.parsed, m)
                                       ELSE r.shown]]
    BY <1>1 DEF ReadChunk
  <2>2. q = [r EXCEPT !.received = m, !.parsed = parsed, !.text = text, !.shown = shown]
    BY ONLY <1>9, <1>10, <1>11, <1>12
  <2>3. /\ parsed = AfterLastNewline(r.parsed, m) /\ text = r.text \o Responses(s, r.parsed, m)
        /\ shown = IF r.op = "stream" THEN r.shown \o Responses(s, r.parsed, m) ELSE r.shown
    BY <1>3, <1>4, <1>7
  <2> QED  BY ONLY <2>1, <2>2, <2>3
<1>14. /\ q1 \in Call /\ q1.received = m /\ q1.at = r.at /\ q1.op = r.op /\ q1.turn = r.turn
       /\ q1.preferLocal = r.preferLocal /\ q1.sent = r.sent
  BY ONLY <1>2, <1>9 DEF Call
<1>15. /\ q2 \in Call /\ q2.received = m /\ q2.at = r.at /\ q2.op = r.op /\ q2.turn = r.turn
       /\ q2.preferLocal = r.preferLocal /\ q2.sent = r.sent /\ q2.parsed = parsed
  BY ONLY <1>6, <1>10, <1>14 DEF Call
<1>16. /\ q3 \in Call /\ q3.received = m /\ q3.at = r.at /\ q3.op = r.op /\ q3.turn = r.turn
       /\ q3.preferLocal = r.preferLocal /\ q3.sent = r.sent /\ q3.parsed = parsed
       /\ q3.text = text
  BY ONLY <1>8, <1>11, <1>15 DEF Call
<1>17. /\ q \in Call /\ q.received = m /\ q.at = r.at /\ q.op = r.op /\ q.turn = r.turn
       /\ q.preferLocal = r.preferLocal /\ q.sent = r.sent /\ q.parsed = parsed
       /\ q.text = text /\ q.shown = shown
  BY ONLY <1>8, <1>12, <1>16 DEF Call
<1>18. CallFine(q)
  <2>1. /\ q.at = "read" /\ q.received <= StreamLength(q.sent)
        /\ q.parsed = LineLength * Lines(q.received)
        /\ q.text = SubSeq(q.sent, 1, Upto(q.sent, Lines(q.received)))
        /\ q.op = "stream" => q.shown = q.text
    BY ONLY <1>1, <1>2, <1>3, <1>5, <1>7, <1>17
  <2>2. /\ q.op # "generate" => q.preferLocal /\ q.turn = 1
        /\ q.op = "generate" => q.shown = <<>>
        /\ q.op # "none"
    BY <1>2, <1>5, <1>17 DEF CallFine
  <2> QED  BY <1>17, <2>1, <2>2 DEF CallFine
<1> QED  BY <1>2, <1>13, <1>18, CallReplaced

\* At the end of the stream all of its lines are whole.
LEMMA ReadDoneKeeps ==
  ASSUME ClientsIInv, NEW c \in Calls, ReadDone(c)
  PROVE  ClientsIInv'
<1>1. PICK r, q : r = call[c] /\ q = [r EXCEPT !.at = "done"]  OBVIOUS
<1>2. CallFine(r) /\ r \in Call /\ r.at = "read" /\ r.received = StreamLength(r.sent)
  BY <1>1, IInvIsFine DEF ReadDone, CallFine
<1>3. /\ q \in Call /\ q.at = "done" /\ q.op = r.op /\ q.turn = r.turn /\ q.sent = r.sent
      /\ q.preferLocal = r.preferLocal /\ q.text = r.text /\ q.shown = r.shown
  BY <1>1, <1>2 DEF Call
<1>4. r.text = r.sent
  <2>1. r.sent \in Seq(Pieces)  BY <1>2, FieldTypes
  <2>2. /\ Lines(StreamLength(r.sent)) = Len(r.sent) + 1
        /\ SubSeq(r.sent, 1, Upto(r.sent, Len(r.sent) + 1)) = r.sent
    BY <2>1, WholeStream
  <2> QED  BY <1>2, <2>2 DEF CallFine
<1>5. CallFine(q)  BY <1>2, <1>3, <1>4 DEF CallFine
<1>6. call' = [call EXCEPT ![c] = q] /\ models' = models  BY <1>1 DEF ReadDone
<1> QED  BY <1>5, <1>6, CallReplaced

LEMMA CloudAnswersKeeps ==
  ASSUME ClientsIInv, NEW c \in Calls, NEW answer \in Texts, CloudAnswers(c, answer)
  PROVE  ClientsIInv'
<1>1. PICK r, q : r = call[c] /\ q = [r EXCEPT !.at = "done", !.sent = answer, !.text = answer]
  OBVIOUS
<1>2. r.at = "cloud" /\ models' = models /\ call' = [call EXCEPT ![c] = q] /\ answer \in Seq(Pieces)
  BY <1>1, TextsAssumption DEF CloudAnswers
<1>3. Fresh(r) /\ r.op = "generate"
  <2>1. CallFine(r)  BY <1>1, IInvIsFine
  <2> QED  BY <1>1, <1>2, <2>1, FreshCalls DEF CallFine
<1>4. CallFine(q)  BY <1>1, <1>2, <1>3, AnswerFine
<1> QED  BY <1>2, <1>4, CallReplaced

LEMMA ModelsKeep ==
  ASSUME ClientsIInv, models' \in Seq(Models), call' = call
  PROVE  ClientsIInv'
<1>1. call' \in [Calls -> Call] /\ \A c \in Calls : CallFine(call'[c])  BY IInvIsFine
<1> QED  BY <1>1, FineIsIInvAfter

LEMMA ClientsNextKeepsIInv ==
  ASSUME ClientsIInv, [ClientsNext]_clientsVars
  PROVE  ClientsIInv'
<1>0. models \in Seq(Models)  BY IInvIsFine
<1>1. ASSUME NEW c \in Calls, ReadFails(c) \/ CloudFails(c) PROVE ClientsIInv'
  BY <1>1, FailingKeeps DEF ReadFails, CloudFails
<1>2. ASSUME NEW c \in Calls, Return(c) PROVE ClientsIInv'
  BY <1>2, NewCallFine, CallReplaced DEF Return
<1>3. ASSUME NEW m \in Models, Pull(m) PROVE ClientsIInv'
  <2>1. <<m>> \in Seq(Models)  OBVIOUS
  <2>2. <<m>> \o models \in Seq(Models)  BY <1>0, <2>1, ConcatProperties
  <2> QED  BY <1>3, <2>2, ModelsKeep DEF Pull
<1>4. ASSUME NEW i \in DOMAIN models, RemoveModel(i) PROVE ClientsIInv'
  <2>1. i \in 1..Len(models) /\ Len(models) \in Nat /\ \A k \in 1..Len(models) : models[k] \in Models
    BY <1>0
  <2>2. SubSeq(models, 1, i - 1) \in Seq(Models)
    <3>1. 1 \in Int /\ i - 1 \in Int /\ \A k \in 1..(i - 1) : models[k] \in Models  BY <2>1
    <3> QED  BY <3>1, SubSeqProperties
  <2>3. SubSeq(models, i + 1, Len(models)) \in Seq(Models)
    <3>1. i + 1 \in Int /\ Len(models) \in Int /\ \A k \in (i + 1)..Len(models) : models[k] \in Models
      BY <2>1
    <3> QED  BY <3>1, SubSeqProperties
  <2>4. SubSeq(models, 1, i - 1) \o SubSeq(models, i + 1, Len(models)) \in Seq(Models)
    BY <2>2, <2>3, ConcatProperties
  <2> QED  BY <1>4, <2>4, ModelsKeep DEF RemoveModel
<1>5. CASE UNCHANGED clientsVars
  BY <1>0, <1>5, ModelsKeep DEF clientsVars
<1> QED
  BY <1>1, <1>2, <1>3, <1>4, <1>5, BeginKeeps, IsConfiguredKeeps, ResolveKeeps, PostKeeps,
     ReadChunkKeeps, ReadDoneKeeps, CloudAnswersKeeps
  DEF ClientsNext

\* The models and the calls keep their types (AIOrchestrator.ts, OllamaClient.ts).
THEOREM ClientsTypes == ClientsSpec => []ClientsTypeOK
<1>1. ClientsIInv => ClientsTypeOK  BY DEF ClientsIInv
<1> QED  BY <1>1, ClientsInitHasIInv, ClientsNextKeepsIInv, PTL DEF ClientsSpec

\* For texts and lines of any length, a call returns the text its provider wrote, whole
\* and in order, wherever the chunks were cut (AIOrchestrator.ts:93-119,
\* OllamaClient.ts:189-227).
THEOREM AnswersAreWhole == ClientsSpec => []AnswerIsWhole
<1>1. ClientsIInv => AnswerIsWhole  BY DEF ClientsIInv
<1> QED  BY <1>1, ClientsInitHasIInv, ClientsNextKeepsIInv, PTL DEF ClientsSpec

-------------------------------------------------------------------------------
(* The router of cheap tasks.                                                  *)

CallerRecord == [at : {"idle", "asking", "answered", "local", "paid"}, now : 0..LastTick,
                 value : BOOLEAN, seen : 0..LastTick, cached : BOOLEAN]

\* What the invariant says of one caller at time n.
CallerFine(r, n) ==
  /\ r \in CallerRecord /\ r.now <= n
  /\ r.cached => r.now < r.seen + Window
  /\ r.at = "answered" => r.now <= r.seen

\* A step that only replaces a caller's record by a fine one keeps the invariant.
LEMMA CallerReplaced ==
  ASSUME RouterIInv, NEW c \in Callers, NEW r, CallerFine(r, now),
         caller' = [caller EXCEPT ![c] = r], now' = now, healthy' \in BOOLEAN,
         cache' = cache \/ (cache' \in Cached /\ cache'.checkedAt <= cache'.seen)
  PROVE  RouterIInv'
<1>1. caller' \in [Callers -> CallerRecord]
  BY DEF RouterIInv, RouterTypeOK, CallerFine, CallerRecord
<1>2. \A d \in Callers : caller'[d] = IF d = c THEN r ELSE caller[d]
  BY DEF RouterIInv, RouterTypeOK
<1>3. RouterTypeOK'
  BY <1>1 DEF RouterIInv, RouterTypeOK, Cached, CallerRecord
<1>4. SeenInWindow' /\ ReadInThePast'
  BY <1>2 DEF RouterIInv, SeenInWindow, ReadInThePast, CallerFine
<1>5. DatedBeforeSeen'
  BY <1>2 DEF RouterIInv, DatedBeforeSeen, CallerFine
<1> QED  BY <1>3, <1>4, <1>5 DEF RouterIInv

\* Every record of the invariant is fine, and a new caller is.
LEMMA CallersFine ==
  ASSUME RouterIInv
  PROVE  /\ \A c \in Callers : CallerFine(caller[c], now)
         /\ CallerFine(NewCaller, now) /\ ~NewCaller.cached /\ now \in 0..LastTick
<1>1. now \in 0..LastTick /\ 0 \in 0..LastTick
  BY WindowAssumption DEF RouterIInv, RouterTypeOK
<1>2. CallerFine(NewCaller, now)
  BY <1>1, WindowAssumption DEF CallerFine, CallerRecord, NewCaller
<1>3. \A c \in Callers : CallerFine(caller[c], now)
  BY DEF RouterIInv, RouterTypeOK, SeenInWindow, ReadInThePast, DatedBeforeSeen, CallerFine, CallerRecord
<1> QED  BY <1>1, <1>2, <1>3 DEF NewCaller

\* What becomes of a record when the caller goes on.
LEMMA AtSet ==
  ASSUME NEW r \in CallerRecord, NEW a \in {"idle", "asking", "answered", "local", "paid"},
         NEW q, q = [r EXCEPT !.at = a]
  PROVE  /\ q \in CallerRecord /\ q.at = a /\ q.now = r.now
         /\ q.seen = r.seen /\ q.cached = r.cached
  BY DEF CallerRecord

LEMMA RouterInitHasIInv == RouterInit => RouterIInv
<1> SUFFICES ASSUME RouterInit PROVE RouterIInv  OBVIOUS
<1>1. 0 \in 0..LastTick  BY WindowAssumption
<1>2. RouterTypeOK  BY <1>1 DEF RouterInit, RouterTypeOK, NewCaller
<1> QED  BY <1>2 DEF RouterInit, RouterIInv, SeenInWindow, DatedBeforeSeen, ReadInThePast, NewCaller

LEMMA BeginTaskKeeps ==
  ASSUME RouterIInv, NEW c \in Callers, BeginTask(c)
  PROVE  RouterIInv'
<1>0. now' = now /\ cache' = cache /\ healthy' \in BOOLEAN /\ now \in 0..LastTick
  BY DEF BeginTask, RouterIInv, RouterTypeOK
<1>1. CASE cache # NoCache /\ now - cache.checkedAt < Window
  <2> DEFINE r == [at |-> Then(cache.value), now |-> now, value |-> cache.value,
                   seen |-> cache.seen, cached |-> TRUE]
  <2>1. cache \in Cached /\ cache.checkedAt <= cache.seen
    BY <1>1 DEF RouterIInv, RouterTypeOK, DatedBeforeSeen
  <2>2. cache.value \in BOOLEAN /\ cache.checkedAt \in 0..LastTick /\ cache.seen \in 0..LastTick
    BY <2>1 DEF Cached
  <2>3. Then(cache.value) \in {"local", "paid"}  BY DEF Then
  <2>4. r \in CallerRecord  BY <1>0, <2>2, <2>3 DEF CallerRecord
  <2>5. now < cache.seen + Window
    BY <1>0, <1>1, <2>1, <2>2, WindowAssumption
  <2>6. CallerFine(r, now)  BY <1>0, <2>3, <2>4, <2>5 DEF CallerFine
  <2>7. caller' = [caller EXCEPT ![c] = r]  BY <1>1 DEF BeginTask
  <2> HIDE DEF r
  <2> QED  BY <1>0, <2>6, <2>7, CallerReplaced
<1>2. CASE ~(cache # NoCache /\ now - cache.checkedAt < Window)
  <2>0. PICK o, r : o = [NewCaller EXCEPT !.at = "asking"] /\ r = [o EXCEPT !.now = now]
    OBVIOUS
  <2>1. r \in CallerRecord /\ r.at = "asking" /\ r.now = now /\ ~r.cached
    <3>1. NewCaller \in CallerRecord /\ ~NewCaller.cached  BY CallersFine DEF CallerFine
    <3>2. o \in CallerRecord /\ o.at = "asking" /\ o.cached = NewCaller.cached
      BY <2>0, <3>1, AtSet
    <3>3. r = [o EXCEPT !.now = now] /\ now \in 0..LastTick  BY <1>0, <2>0
    <3> QED  BY ONLY <3>1, <3>2, <3>3 DEF CallerRecord
  <2>2. caller' = [caller EXCEPT ![c] = r]  BY <1>2, <2>0 DEF BeginTask
  <2>3. CallerFine(r, now)  BY <1>0, <2>1 DEF CallerFine
  <2> QED  BY <1>0, <2>2, <2>3, CallerReplaced
<1> QED  BY <1>1, <1>2

LEMMA HealthKeeps ==
  ASSUME RouterIInv, NEW c \in Callers, NEW ok \in BOOLEAN, Health(c, ok)
  PROVE  RouterIInv'
<1>0. (ok /\ healthy) \in BOOLEAN  BY Zenon
<1>1. PICK o, v : o = caller[c] /\ v = (ok /\ healthy)  OBVIOUS
<1> DEFINE p == [o EXCEPT !.at = "answered"]
           r == [[p EXCEPT !.value = v] EXCEPT !.seen = now]
<1>2. /\ now' = now /\ cache' = cache /\ healthy' \in BOOLEAN /\ now \in 0..LastTick
      /\ caller' = [caller EXCEPT ![c] = r]
  BY <1>1 DEF Health, RouterIInv, RouterTypeOK
<1>3. CallerFine(o, now)  BY <1>1, CallersFine
<1>4. r \in CallerRecord /\ r.at = "answered" /\ r.now = o.now /\ r.seen = now /\ r.cached = o.cached
  <2>1. p \in CallerRecord /\ p.at = "answered" /\ p.now = o.now /\ p.cached = o.cached
    BY <1>3, AtSet DEF CallerFine
  <2> HIDE DEF p
  <2>2. v \in BOOLEAN  BY <1>0, <1>1
  <2>3. r = [[p EXCEPT !.value = v] EXCEPT !.seen = now]  OBVIOUS
  <2> HIDE DEF r
  <2>4. now \in 0..LastTick  BY <1>2
  <2>5. PICK m : m = [p EXCEPT !.value = v]  OBVIOUS
  <2>6. /\ m \in CallerRecord /\ m.at = p.at /\ m.now = p.now
        /\ m.seen = p.seen /\ m.cached = p.cached
    BY ONLY <2>1, <2>2, <2>5 DEF CallerRecord
  <2>7. r = [m EXCEPT !.seen = now]  BY <2>3, <2>5
  <2> QED  BY ONLY <2>1, <2>4, <2>6, <2>7 DEF CallerRecord
<1> HIDE DEF r
<1>5. CallerFine(r, now)
  <2>1. o.now \in 0..LastTick /\ o.seen \in 0..LastTick /\ o.now <= now
    BY <1>3 DEF CallerFine, CallerRecord
  <2> QED  BY <1>2, <1>3, <1>4, <2>1, WindowAssumption DEF CallerFine
<1> QED  BY <1>2, <1>5, CallerReplaced

LEMMA IncorporateKeeps ==
  ASSUME RouterIInv, NEW c \in Callers, Incorporate(c)
  PROVE  RouterIInv'
<1>1. PICK o : o = caller[c]  OBVIOUS
<1> DEFINE a == Then(o.value)  r == [o EXCEPT !.at = a]
           e == [value |-> o.value, checkedAt |-> o.now, seen |-> o.seen]
<1>2. /\ o.at = "answered" /\ now' = now /\ healthy' \in BOOLEAN /\ cache' = e
      /\ caller' = [caller EXCEPT ![c] = r]
  BY <1>1 DEF Incorporate, RouterIInv, RouterTypeOK
<1>3. CallerFine(o, now)  BY <1>1, CallersFine
<1>4. e \in Cached /\ e.checkedAt <= e.seen
  BY <1>2, <1>3 DEF CallerFine, CallerRecord, Cached
<1>5. a \in {"local", "paid"}  BY DEF Then
<1> HIDE DEF a, e
<1>6. r \in CallerRecord /\ r.at = a /\ r.now = o.now /\ r.seen = o.seen /\ r.cached = o.cached
  BY <1>3, <1>5, AtSet DEF CallerFine
<1> HIDE DEF r
<1>7. CallerFine(r, now)  BY <1>3, <1>5, <1>6 DEF CallerFine
<1> QED  BY <1>2, <1>4, <1>7, CallerReplaced

LEMMA CallOllamaKeeps ==
  ASSUME RouterIInv, NEW c \in Callers, NEW text \in BOOLEAN, CallOllama(c, text)
  PROVE  RouterIInv'
<1>1. PICK o : o = caller[c]  OBVIOUS
<1> DEFINE r == IF text THEN NewCaller ELSE [o EXCEPT !.at = "paid"]
<1>2. /\ now' = now /\ cache' = cache /\ healthy' \in BOOLEAN
      /\ caller' = [caller EXCEPT ![c] = r]
  BY <1>1 DEF CallOllama, RouterIInv, RouterTypeOK
<1>3. CallerFine(o, now)  BY <1>1, CallersFine
<1>4. CASE text  BY <1>2, <1>4, CallersFine, CallerReplaced
<1>5. CASE ~text
  <2>1. r \in CallerRecord /\ r.at = "paid" /\ r.now = o.now /\ r.seen = o.seen /\ r.cached = o.cached
    BY <1>3, <1>5, AtSet DEF CallerFine
  <2> HIDE DEF r
  <2>2. CallerFine(r, now)  BY <1>3, <2>1 DEF CallerFine
  <2> QED  BY <1>2, <2>2, CallerReplaced
<1> QED  BY <1>4, <1>5

LEMMA RouterNextKeepsIInv ==
  ASSUME RouterIInv, [RouterNext]_routerVars
  PROVE  RouterIInv'
<1>1. ASSUME NEW c \in Callers, Fallback(c) PROVE RouterIInv'
  <2>1. /\ now' = now /\ cache' = cache /\ healthy' \in BOOLEAN
        /\ caller' = [caller EXCEPT ![c] = NewCaller]
    BY <1>1 DEF Fallback, RouterIInv, RouterTypeOK
  <2> QED  BY <2>1, CallersFine, CallerReplaced
<1>2. CASE ClearOllamaCache
  BY <1>2 DEF ClearOllamaCache, RouterIInv, RouterTypeOK, SeenInWindow, DatedBeforeSeen, ReadInThePast
<1>3. CASE Tick
  <2>1. /\ now \in 0..LastTick /\ now' = now + 1 /\ now' \in 0..LastTick
        /\ healthy' = healthy /\ cache' = cache /\ caller' = caller
    BY <1>3, WindowAssumption DEF Tick, RouterIInv, RouterTypeOK
  <2>2. \A c \in Callers : caller[c].now \in 0..LastTick /\ caller[c].now <= now
    BY DEF RouterIInv, RouterTypeOK, ReadInThePast
  <2>3. ReadInThePast'  BY <2>1, <2>2 DEF ReadInThePast
  <2> QED  BY <2>1, <2>3 DEF RouterIInv, RouterTypeOK, SeenInWindow, DatedBeforeSeen, Cached
<1>4. CASE Flip
  BY <1>4 DEF Flip, RouterIInv, RouterTypeOK, SeenInWindow, DatedBeforeSeen, ReadInThePast, Cached
<1>5. CASE UNCHANGED routerVars
  BY <1>5 DEF routerVars, RouterIInv, RouterTypeOK, SeenInWindow, DatedBeforeSeen, ReadInThePast, Cached
<1> QED
  BY <1>1, <1>2, <1>3, <1>4, <1>5, BeginTaskKeeps, HealthKeeps, IncorporateKeeps, CallOllamaKeeps
  DEF RouterNext

\* The router's variables keep their types (llmRouter.ts:7-73).
THEOREM RouterTypes == RouterSpec => []RouterTypeOK
<1>1. RouterIInv => RouterTypeOK  BY DEF RouterIInv
<1> QED  BY <1>1, RouterInitHasIInv, RouterNextKeepsIInv, PTL DEF RouterSpec

\* For any number of callers and any window, a task that relies on the cache relies on
\* what the server was seen to be less than a window before it asked (llmRouter.ts:10-29).
THEOREM CacheIsRecent == RouterSpec => []SeenInWindow
<1>1. RouterIInv => SeenInWindow  BY DEF RouterIInv
<1> QED  BY <1>1, RouterInitHasIInv, RouterNextKeepsIInv, PTL DEF RouterSpec

-------------------------------------------------------------------------------
(* The protected memory.                                                      *)

\* A call under way is one that the gate approves, and only a store has an entry.
MemoryIInv ==
  /\ MemoryTypeOK
  /\ \A a \in Actors : granted[a] # NoCall =>
       /\ Approved(granted[a].op, granted[a].key)
       /\ granted[a].entry # NoEntry => granted[a].op = "store"

\* An entry, or none.
Slot == StoredEntry \cup {NoEntry}

USE SafeAssumption, TimeAssumption, NeverAssumption, AbsenceAssumption

-------------------------------------------------------------------------------
(* What is visible of a store.                                                 *)

LEMMA VisibleIsAlive == Visible = Memory!Alive(entries, clock)
  BY DEF Visible, Unexpired, Memory!Alive, Memory!Live

LEMMA VisibleAt ==
  ASSUME NEW k \in Keys
  PROVE  Visible[k] = IF entries[k] # NoEntry /\ Unexpired(entries[k]) THEN entries[k] ELSE NoEntry
  BY DEF Visible

LEMMA ExpiredIsHidden ==
  ASSUME MemoryTypeOK, NEW k \in Keys, entries[k] # NoEntry
  PROVE  Expired(entries[k]) <=> ~Unexpired(entries[k])
<1>1. clock \in Nat /\ entries[k] \in StoredEntry  BY DEF MemoryTypeOK
<1>2. entries[k].expires \in Nat \/ entries[k].expires = Never  BY <1>1 DEF StoredEntry
<1> QED  BY <1>1, <1>2 DEF Expired, Unexpired

LEMMA WithoutKeys ==
  ASSUME NEW m, NEW K, NEW k \in Keys
  PROVE  Without(m, K)[k] = IF k \in K THEN NoEntry ELSE m[k]
  BY DEF Without

\* Dropping expired entries is not seen.
LEMMA DroppingExpired ==
  ASSUME MemoryTypeOK, NEW K \in SUBSET ExpiredKeys(entries),
         entries' = Without(entries, K), clock' = clock
  PROVE  Visible' = Visible
<1>1. ASSUME NEW k \in Keys PROVE Visible'[k] = Visible[k]
  <2>1. CASE k \in K
    <3>1. entries[k] # NoEntry /\ Expired(entries[k])  BY <2>1 DEF ExpiredKeys
    <3>2. ~Unexpired(entries[k])  BY <3>1, ExpiredIsHidden
    <3>3. entries'[k] = NoEntry  BY <2>1, WithoutKeys
    <3> QED  BY <3>2, <3>3 DEF Visible
  <2>2. CASE k \notin K
    <3>1. entries'[k] = entries[k]  BY <2>2, WithoutKeys
    <3> QED  BY <3>1 DEF Visible, Unexpired
  <2> QED  BY <2>1, <2>2
<1> QED  BY <1>1 DEF Visible

-------------------------------------------------------------------------------
(* The invariant.                                                              *)

\* Stores of entries are made of entries.
LEMMA StoresAreStores ==
  ASSUME NEW m \in [Keys -> Slot]
  PROVE  /\ \A K : Without(m, K) \in [Keys -> Slot]
         /\ \A k \in Keys, e \in StoredEntry : [m EXCEPT ![k] = e] \in [Keys -> Slot]
  BY DEF Without, Slot

LEMMA NewEntryAlive ==
  ASSUME MemoryTypeOK, NEW v \in Values, NEW ttl \in Ttls
  PROVE  /\ NewEntry(v, ttl) \in StoredEntry /\ NewEntry(v, ttl).value = v
         /\ Unexpired(NewEntry(v, ttl))
<1> DEFINE x == IF ttl = Never THEN Never ELSE clock + ttl
           e == [value |-> v, expires |-> x]
<1>1. clock \in Nat  BY DEF MemoryTypeOK
<1>2. x \in Nat \cup {Never} /\ (x = Never \/ clock <= x)  BY <1>1
<1> HIDE DEF x
<1>3. e \in StoredEntry /\ e.value = v  BY <1>2 DEF StoredEntry
<1>4. Unexpired(e)  BY <1>2 DEF Unexpired
<1>5. NewEntry(v, ttl) = e  BY DEF NewEntry, x
<1> QED  BY <1>3, <1>4, <1>5

LEMMA MayCallKey ==
  ASSUME MemoryIInv, NEW a \in Actors, NEW op, MayCall(a, op)
  PROVE  /\ granted[a] \in MemoryRequest /\ granted[a] # NoCall
         /\ granted[a].key \in Keys /\ granted[a].op = op /\ op \in Operations
         /\ granted[a].entry \in StoredEntry \cup {NoEntry}
         /\ Approved(op, granted[a].key)
<1>1. granted[a] \in MemoryRequest \cup {NoCall} /\ granted[a] # NoCall /\ granted[a].op = op
  BY DEF MemoryIInv, MemoryTypeOK, MayCall
<1>2. Approved(op, granted[a].key)  BY <1>1 DEF MemoryIInv
<1>3. granted[a] \in MemoryRequest  BY <1>1
<1> QED  BY <1>1, <1>2, <1>3 DEF MemoryRequest

LEMMA ReturnsKeeps ==
  ASSUME MemoryIInv, NEW a \in Actors, Returns(a), entries' \in [Keys -> Slot], lastCleanup' \in 0..clock
  PROVE  MemoryIInv'
<1>1. granted' \in [Actors -> MemoryRequest \cup {NoCall}]
  BY DEF Returns, MemoryIInv, MemoryTypeOK
<1>2. \A b \in Actors : granted'[b] # NoCall => granted'[b] = granted[b]
  BY DEF Returns, MemoryIInv, MemoryTypeOK
<1> QED  BY <1>1, <1>2 DEF Returns, MemoryIInv, MemoryTypeOK, Approved, Slot

\* What an actor may be granted.
GrantOK(c) ==
  c \in MemoryRequest /\ Approved(c.op, c.key) /\ (c.entry # NoEntry => c.op = "store")

LEMMA GrantStep ==
  ASSUME MemoryIInv, NEW a \in Actors, NEW c, GrantOK(c),
         granted' = [granted EXCEPT ![a] = c],
         UNCHANGED <<clock, entries, lastCleanup, dump>>
  PROVE  MemoryIInv'
<1>1. granted' \in [Actors -> MemoryRequest \cup {NoCall}]
  BY DEF MemoryIInv, MemoryTypeOK, GrantOK
<1>2. \A b \in Actors : granted'[b] = IF b = a THEN c ELSE granted[b]
  BY DEF MemoryIInv, MemoryTypeOK
<1>3. \A b \in Actors : granted'[b] # NoCall =>
        /\ Approved(granted'[b].op, granted'[b].key)
        /\ granted'[b].entry # NoEntry => granted'[b].op = "store"
  BY <1>2 DEF MemoryIInv, GrantOK
<1> QED  BY <1>1, <1>3 DEF MemoryIInv, MemoryTypeOK, Approved

LEMMA MemoryInitHasIInv == MemoryInit => MemoryIInv
  BY DEF MemoryInit, MemoryIInv, MemoryTypeOK, Empty

LEMMA MemoryNextKeepsIInv ==
  ASSUME MemoryIInv, [MemoryNext]_memoryVars
  PROVE  MemoryIInv'
<1> USE DEF Slot
<1>1. /\ entries \in [Keys -> Slot] /\ dump \in [Keys -> Slot]
      /\ clock \in Nat /\ lastCleanup \in 0..clock
  BY DEF MemoryIInv, MemoryTypeOK
<1>2. ASSUME NEW a \in Actors, NEW op \in Operations, NEW k \in Keys, Request(a, op, k) PROVE MemoryIInv'
  <2> DEFINE c == [op |-> op, key |-> k, entry |-> NoEntry]
  <2>1. granted' = [granted EXCEPT ![a] = c] /\ Approved(op, k)
    BY <1>2 DEF Request
  <2>2. c \in MemoryRequest /\ c.op = op /\ c.key = k /\ c.entry = NoEntry  BY DEF MemoryRequest
  <2> HIDE DEF c
  <2>3. GrantOK(c)  BY <2>1, <2>2 DEF GrantOK
  <2> QED  BY <1>2, <2>1, <2>3, GrantStep DEF Request
<1>3. ASSUME NEW a \in Actors, Store(a) PROVE MemoryIInv'
  <2> DEFINE stored == [entries EXCEPT ![granted[a].key] = granted[a].entry]
  <2>1. granted[a].key \in Keys /\ granted[a].entry \in StoredEntry
    BY <1>3, MayCallKey DEF Store
  <2>2. stored \in [Keys -> Slot]  BY <2>1, <1>1, StoresAreStores
  <2>3. entries' \in [Keys -> Slot]  BY <1>3, <2>2, StoresAreStores DEF Store
  <2>4. lastCleanup' \in 0..clock  BY <1>3, <1>1 DEF Store
  <2> QED  BY <1>3, <2>3, <2>4, ReturnsKeeps DEF Store
<1>9. ASSUME NEW a \in Actors, NEW v \in Values, NEW ttl \in Ttls, SetExpiry(a, v, ttl)
      PROVE  MemoryIInv'
  <2> DEFINE e == NewEntry(v, ttl)
             c == [granted[a] EXCEPT !.entry = e]
  <2>1. MayCall(a, "store")  BY <1>9 DEF SetExpiry
  <2>2. /\ granted[a] \in MemoryRequest /\ granted[a].op = "store"
        /\ Approved("store", granted[a].key)
    BY <2>1, MayCallKey
  <2>3. e \in StoredEntry  BY NewEntryAlive DEF MemoryIInv
  <2> HIDE DEF e
  <2>4. /\ c \in MemoryRequest /\ c.op = granted[a].op /\ c.key = granted[a].key
    BY <2>2, <2>3 DEF MemoryRequest
  <2>5. GrantOK(c)  BY <2>2, <2>4 DEF GrantOK
  <2>6. granted' = [granted EXCEPT ![a] = c]  BY <1>9 DEF SetExpiry, e
  <2> HIDE DEF c
  <2> QED  BY <1>9, <2>5, <2>6, GrantStep DEF SetExpiry
<1>4. ASSUME NEW a \in Actors, Recall(a) \/ Forget(a) PROVE MemoryIInv'
  <2>1. entries' \in [Keys -> Slot] /\ lastCleanup' \in 0..clock /\ Returns(a)
    BY <1>1, <1>4, StoresAreStores DEF Recall, Forget
  <2> QED  BY <2>1, ReturnsKeeps
<1>5. CASE Cleanup \/ FromJson \/ ClearAll
  <2>1. Restored \in [Keys -> Slot] /\ Empty \in [Keys -> Slot]  BY <1>1 DEF Restored, Empty
  <2>2. entries' \in [Keys -> Slot] /\ lastCleanup' \in 0..clock
    BY <2>1, <1>1, <1>5, StoresAreStores DEF Cleanup, FromJson, ClearAll
  <2> QED  BY <2>2, <1>5 DEF Cleanup, FromJson, ClearAll, MemoryIInv, MemoryTypeOK, Approved
<1>6. CASE ToJson  BY <1>6 DEF ToJson, MemoryIInv, MemoryTypeOK, Approved
<1>7. CASE TimePasses  BY <1>7 DEF TimePasses, MemoryIInv, MemoryTypeOK, Approved
<1>8. CASE UNCHANGED memoryVars  BY <1>8 DEF memoryVars, MemoryIInv, MemoryTypeOK, Approved
<1> QED  BY <1>2, <1>3, <1>4, <1>5, <1>6, <1>7, <1>8, <1>9 DEF MemoryNext

-------------------------------------------------------------------------------
(* Every step is one of TimedMap, or changes nothing that it sees.             *)

MapStep == [Memory!Next]_(Memory!vars)

LEMMA SameIsStutter ==
  ASSUME Visible' = Visible, dump' = dump, clock' = clock, Pending' = Pending
  PROVE  MapStep
  BY DEF MapStep, Memory!vars

LEMMA AllowedCall ==
  ASSUME NEW op \in Operations, NEW k \in Keys, Approved(op, k)
  PROVE  <<op, k>> \in Allowed
  BY DEF Allowed

\* A store that is cleaned up shows what it showed.
LEMMA CleanedLooksAlike ==
  ASSUME MemoryTypeOK, NEW m \in [Keys -> Slot], NEW k \in Keys,
         entries' = Without(m, ExpiredKeys(m)) \/ entries' = m, clock' = clock
  PROVE  Visible'[k] = IF m[k] # NoEntry /\ Unexpired(m[k]) THEN m[k] ELSE NoEntry
<1>1. Visible'[k] = IF entries'[k] # NoEntry /\ Unexpired(entries'[k]) THEN entries'[k] ELSE NoEntry
  BY DEF Visible, Unexpired
<1>2. CASE entries' = m  BY <1>1, <1>2
<1>3. CASE entries' = Without(m, ExpiredKeys(m))
  <2>1. CASE k \in ExpiredKeys(m)
    <3>1. m[k] # NoEntry /\ Expired(m[k])  BY <2>1 DEF ExpiredKeys
    <3>2. m[k] \in StoredEntry /\ clock \in Nat  BY <3>1 DEF Slot, MemoryTypeOK
    <3>3. m[k].expires \in Nat \/ m[k].expires = Never  BY <3>2 DEF StoredEntry
    <3>4. ~Unexpired(m[k])  BY <3>1, <3>2, <3>3 DEF Expired, Unexpired
    <3> QED  BY <1>1, <1>3, <2>1, <3>4, WithoutKeys
  <2>2. CASE k \notin ExpiredKeys(m)  BY <1>1, <1>3, <2>2, WithoutKeys
  <2> QED  BY <2>1, <2>2
<1> QED  BY <1>2, <1>3

\* Who waits for the lock with an entry.
LEMMA PendingAt ==
  ASSUME NEW a \in Actors
  PROVE  Pending[a] = IF Waiting(a) THEN [key |-> granted[a].key, entry |-> granted[a].entry]
                      ELSE NoCall
  BY DEF Pending

\* The step of a call that has no entry, before it and after it, is not a step of a put.
LEMMA NotPending ==
  ASSUME NEW a \in Actors, ~Waiting(a), ~Waiting(a)',
         granted \in [Actors -> MemoryRequest \cup {NoCall}],
         \E c : granted' = [granted EXCEPT ![a] = c]
  PROVE  Pending' = Pending
<1>1. \A b \in Actors \ {a} : granted'[b] = granted[b]  OBVIOUS
<1> QED  BY <1>1 DEF Pending, Waiting

LEMMA SameGrants == ASSUME granted' = granted PROVE Pending' = Pending
  BY DEF Pending, Waiting

LEMMA SetExpiryIsBegin ==
  ASSUME MemoryIInv, NEW a \in Actors, NEW v \in Values, NEW ttl \in Ttls, SetExpiry(a, v, ttl)
  PROVE  MapStep
<1> DEFINE k == granted[a].key  e == NewEntry(v, ttl)  put == [key |-> k, entry |-> e]
<1>1. /\ granted[a] \in MemoryRequest /\ granted[a] # NoCall /\ k \in Keys
      /\ granted[a].entry = NoEntry /\ <<"store", k>> \in Allowed
  BY MayCallKey, AllowedCall DEF SetExpiry, Operations
<1>2. e \in StoredEntry /\ e.value = v /\ Unexpired(e) /\ e # NoEntry
  BY NewEntryAlive DEF MemoryIInv
<1>3. granted' = [granted EXCEPT ![a] = [granted[a] EXCEPT !.entry = e]]
  BY DEF SetExpiry
<1>4. granted \in [Actors -> MemoryRequest \cup {NoCall}]  BY DEF MemoryIInv, MemoryTypeOK
<1> HIDE DEF e
<1>5. [granted[a] EXCEPT !.entry = e] \in MemoryRequest
  BY <1>1, <1>2 DEF MemoryRequest
<1>6. /\ granted'[a] # NoCall /\ granted'[a].entry = e /\ granted'[a].key = k
  BY <1>1, <1>3, <1>4, <1>5 DEF MemoryRequest
<1>7. \A b \in Actors \ {a} : granted'[b] = granted[b]  BY <1>3, <1>4
<1> HIDE DEF k
<1>8. Pending[a] = NoCall /\ Pending'[a] = put
  <2>1. ~Waiting(a) /\ Waiting(a)'  BY <1>1, <1>2, <1>6 DEF Waiting
  <2> QED  BY <2>1, <1>6 DEF Pending
<1>9. \A b \in Actors \ {a} : Pending'[b] = Pending[b]  BY <1>7 DEF Pending, Waiting
<1>10. Pending' = [Pending EXCEPT ![a] = Pending'[a]]
  <2>1. Pending \in [Actors -> {Pending[b] : b \in Actors}] /\ DOMAIN Pending' = Actors
    BY DEF Pending
  <2> QED  BY <2>1, <1>9 DEF Pending
<1>11. put \in [key : Keys, entry : StoredEntry] /\ put.key = k /\ put.entry = e
  BY <1>1, <1>2
<1> HIDE DEF put
<1>12. put # NoCall  BY <1>11
<1>13. Memory!Live(e, clock)  BY <1>2 DEF Memory!Live, Unexpired
<1>14. Visible' = Visible /\ clock' = clock /\ dump' = dump
  BY DEF SetExpiry, Visible, Unexpired
<1>15. Memory!Begin(a)
  BY <1>1, <1>2, <1>8, <1>10, <1>11, <1>12, <1>13, <1>14 DEF Memory!Begin
<1> QED  BY <1>15 DEF MapStep, Memory!Next

LEMMA StoreIsPut ==
  ASSUME MemoryIInv, NEW a \in Actors, Store(a)
  PROVE  MapStep
<1> DEFINE k == granted[a].key  e == granted[a].entry
           m == [entries EXCEPT ![k] = e]
           put == [key |-> k, entry |-> e]
           seen == IF Memory!Live(e, clock) THEN e ELSE NoEntry
<1>1. /\ k \in Keys /\ e \in StoredEntry /\ e # NoEntry /\ granted[a] # NoCall
  BY MayCallKey DEF Store
<1>2. /\ entries' = Without(m, ExpiredKeys(m)) \/ entries' = m
      /\ clock' = clock /\ dump' = dump
      /\ granted' = [granted EXCEPT ![a] = NoCall]
  BY DEF Store, Returns
<1>3. granted \in [Actors -> MemoryRequest \cup {NoCall}]  BY DEF MemoryIInv, MemoryTypeOK
<1>4. Pending[a] = put /\ Pending' = [Pending EXCEPT ![a] = NoCall]
  <2>1. Waiting(a) /\ Pending[a] = put  BY <1>1 DEF Waiting, Pending
  <2>2. granted'[a] = NoCall /\ \A b \in Actors \ {a} : granted'[b] = granted[b]
    BY <1>2, <1>3
  <2>3. Pending'[a] = NoCall /\ \A b \in Actors \ {a} : Pending'[b] = Pending[b]
    BY <2>2 DEF Pending, Waiting
  <2> QED  BY <2>1, <2>3 DEF Pending
<1>5. put \in [key : Keys, entry : StoredEntry] /\ put.key = k /\ put.entry = e
  BY <1>1
<1> HIDE DEF k, e, put
<1>6. put # NoCall  BY <1>5
<1>7. entries \in [Keys -> Slot]  BY DEF MemoryIInv, MemoryTypeOK, Slot
<1>8. m \in [Keys -> Slot] /\ m[k] = e /\ \A x \in Keys \ {k} : m[x] = entries[x]
  BY <1>1, <1>7 DEF Slot
<1> HIDE DEF m
<1>9. Visible'[k] = seen
  <2>1. Visible'[k] = IF e # NoEntry /\ Unexpired(e) THEN e ELSE NoEntry
    BY <1>1, <1>2, <1>8, CleanedLooksAlike DEF MemoryIInv
  <2> QED  BY <2>1 DEF Memory!Live, Unexpired
<1>10. \A x \in Keys \ {k} : Visible'[x] = Visible[x]
  BY <1>2, <1>8, CleanedLooksAlike, VisibleAt DEF MemoryIInv
<1> HIDE DEF seen
<1>11. Visible' = [Visible EXCEPT ![k] = seen]
  <2>1. DOMAIN Visible' = Keys /\ DOMAIN Visible = Keys  BY DEF Visible
  <2> QED  BY <2>1, <1>1, <1>9, <1>10 DEF Visible
<1>12. Memory!Put(a)
  BY <1>2, <1>4, <1>5, <1>6, <1>11 DEF Memory!Put, seen
<1> QED  BY <1>12 DEF MapStep, Memory!Next

\* The end of a call that is not a store.
LEMMA CallEnds ==
  ASSUME MemoryIInv, NEW a \in Actors, NEW op, op # "store", MayCall(a, op), Returns(a)
  PROVE  Pending' = Pending
<1>1. granted \in [Actors -> MemoryRequest \cup {NoCall}]  BY DEF MemoryIInv, MemoryTypeOK
<1>2. granted' = [granted EXCEPT ![a] = NoCall]  BY DEF Returns
<1>3. ~Waiting(a)  BY DEF MayCall, MemoryIInv, Waiting
<1>4. ~Waiting(a)'  BY <1>1, <1>2 DEF Waiting
<1> QED  BY <1>1, <1>2, <1>3, <1>4, NotPending

LEMMA ForgetIsRemove ==
  ASSUME MemoryIInv, NEW a \in Actors, Forget(a)
  PROVE  MapStep
<1> DEFINE k == granted[a].key
<1>1. k \in Keys /\ <<"forget", k>> \in Allowed
  BY MayCallKey, AllowedCall DEF Forget, Operations
<1>2. entries' = Without(entries, {k}) /\ clock' = clock /\ dump' = dump  BY DEF Forget, Returns
<1> HIDE DEF k
<1>3. entries'[k] = NoEntry /\ \A x \in Keys \ {k} : entries'[x] = entries[x]
  BY <1>1, <1>2, WithoutKeys
<1>4. Visible' = [Visible EXCEPT ![k] = NoEntry]  BY <1>1, <1>2, <1>3 DEF Visible, Unexpired
<1>5. Pending' = Pending  BY CallEnds DEF Forget
<1>6. Memory!Remove(k)  BY <1>1, <1>2, <1>4, <1>5 DEF Memory!Remove
<1> QED  BY <1>1, <1>6 DEF MapStep, Memory!Next

\* Time hides what it ends and nothing else.
LEMMA TimeIsPass ==
  ASSUME MemoryIInv, TimePasses
  PROVE  MapStep
<1>1. clock \in Nat /\ clock' = clock + 1 /\ entries' = entries /\ dump' = dump
  BY DEF TimePasses, MemoryIInv, MemoryTypeOK
<1>2. ASSUME NEW k \in Keys PROVE Visible'[k] = Memory!Alive(Visible, clock')[k]
  <2>1. entries[k] # NoEntry => entries[k].expires \in Nat \/ entries[k].expires = Never
    BY DEF MemoryIInv, MemoryTypeOK, StoredEntry
  <2>2. (entries[k] # NoEntry /\ Unexpired(entries[k])') => Unexpired(entries[k])
    BY <1>1, <2>1 DEF Unexpired
  <2> QED  BY <1>1, <2>2 DEF Visible, Unexpired, Memory!Alive, Memory!Live
<1>3. Visible' = Memory!Alive(Visible, clock')  BY <1>2 DEF Visible, Memory!Alive
<1>5. Pending' = Pending  BY SameGrants DEF TimePasses
<1>4. Memory!Pass  BY <1>1, <1>3, <1>5 DEF Memory!Pass
<1> QED  BY <1>4 DEF MapStep, Memory!Next

LEMMA FromJsonIsRestore ==
  ASSUME FromJson
  PROVE  MapStep
<1> DEFINE both == [k \in Keys |-> IF dump[k] = NoEntry THEN Visible[k] ELSE dump[k]]
<1>1. entries' = Restored /\ clock' = clock /\ dump' = dump  BY DEF FromJson
<1>2. ASSUME NEW k \in Keys PROVE Visible'[k] = Memory!Alive(both, clock)[k]
  <2>1. CASE dump[k] = NoEntry
    <3>1. entries'[k] = entries[k] /\ both[k] = Visible[k]  BY <1>1, <2>1 DEF Restored
    <3> QED  BY <1>1, <3>1, VisibleAt DEF Visible, Unexpired, Memory!Alive, Memory!Live
  <2>2. CASE dump[k] # NoEntry
    <3>1. entries'[k] = dump[k] /\ both[k] = dump[k]  BY <1>1, <2>2 DEF Restored
    <3> QED  BY <1>1, <3>1 DEF Visible, Unexpired, Memory!Alive, Memory!Live
  <2> QED  BY <2>1, <2>2
<1>3. Visible' = Memory!Alive(both, clock)  BY <1>2 DEF Visible, Memory!Alive
<1>5. Pending' = Pending  BY SameGrants DEF FromJson
<1>4. Memory!Restore  BY <1>1, <1>3, <1>5 DEF Memory!Restore
<1> QED  BY <1>4 DEF MapStep, Memory!Next

LEMMA StepsAreMapSteps ==
  ASSUME MemoryIInv, [MemoryNext]_memoryVars
  PROVE  MapStep
<1>1. ASSUME NEW a \in Actors, NEW op \in Operations, NEW k \in Keys, Request(a, op, k) PROVE MapStep
  <2>1. granted \in [Actors -> MemoryRequest \cup {NoCall}]  BY DEF MemoryIInv, MemoryTypeOK
  <2> DEFINE c == [op |-> op, key |-> k, entry |-> NoEntry]
  <2>2. granted' = [granted EXCEPT ![a] = c] /\ granted[a] = NoCall /\ c.entry = NoEntry
    BY <1>1 DEF Request
  <2> HIDE DEF c
  <2>3. ~Waiting(a) /\ ~Waiting(a)'  BY <2>1, <2>2 DEF Waiting
  <2>4. Pending' = Pending  BY <2>1, <2>2, <2>3, NotPending
  <2> QED  BY <1>1, <2>4, SameIsStutter DEF Request, Visible, Unexpired
<1>2. ASSUME NEW a \in Actors, Recall(a) PROVE MapStep
  <2>1. {granted[a].key} \cap ExpiredKeys(entries) \in SUBSET ExpiredKeys(entries)  OBVIOUS
  <2>2. Visible' = Visible  BY <1>2, <2>1, DroppingExpired DEF Recall, Returns, MemoryIInv
  <2>3. Pending' = Pending  BY <1>2, CallEnds DEF Recall
  <2> QED  BY <1>2, <2>2, <2>3, SameIsStutter DEF Recall, Returns
<1>3. CASE Cleanup
  <2>1. Visible' = Visible  BY <1>3, DroppingExpired DEF Cleanup, MemoryIInv
  <2>2. Pending' = Pending  BY <1>3, SameGrants DEF Cleanup
  <2> QED  BY <1>3, <2>1, <2>2, SameIsStutter DEF Cleanup
<1>4. CASE ToJson
  <2>1. Visible' = Visible /\ clock' = clock /\ dump' = entries  BY <1>4 DEF ToJson, Visible, Unexpired
  <2>3. Pending' = Pending  BY <1>4, SameGrants DEF ToJson
  <2>2. Memory!Copy  BY <2>1, <2>3, VisibleIsAlive DEF Memory!Copy
  <2> QED  BY <2>2 DEF MapStep, Memory!Next
<1>5. CASE ClearAll
  <2>1. Visible' = Memory!Nothing /\ clock' = clock /\ dump' = dump
    BY <1>5 DEF ClearAll, Empty, Visible, Memory!Nothing
  <2>3. Pending' = Pending  BY <1>5, SameGrants DEF ClearAll
  <2>2. Memory!Clear  BY <2>1, <2>3 DEF Memory!Clear
  <2> QED  BY <2>2 DEF MapStep, Memory!Next
<1>6. CASE UNCHANGED memoryVars
  BY <1>6, SameGrants, SameIsStutter DEF memoryVars, Visible, Unexpired
<1> QED
  BY <1>1, <1>2, <1>3, <1>4, <1>5, <1>6, SetExpiryIsBegin, StoreIsPut, ForgetIsRemove,
     TimeIsPass, FromJsonIsRestore
  DEF MemoryNext

\* The store's and the gate's attributes keep their types.
THEOREM MemoryTypes == MemorySpec => []MemoryTypeOK
<1>1. MemoryIInv => MemoryTypeOK  BY DEF MemoryIInv
<1> QED  BY <1>1, MemoryInitHasIInv, MemoryNextKeepsIInv, PTL DEF MemorySpec

\* The protected memory implements TimedMap: for any number of threads and keys, any
\* lifetimes, any cleanup interval and any wait between a store's reading of the clock
\* and its write, a value is there until the time fixed for it, and when expired values
\* leave the store cannot be seen (memory_store.py:52-150).
THEOREM AlwaysInTime == MemorySpec => RemembersInTime
<1>1. MemoryInit => Memory!Init
  BY DEF MemoryInit, Memory!Init, Memory!Nothing, Empty, Visible, Pending, Waiting
<1>2. MemoryIInv /\ [MemoryNext]_memoryVars => [Memory!Next]_(Memory!vars)
  BY StepsAreMapSteps DEF MapStep
<1> QED
  BY <1>1, <1>2, MemoryInitHasIInv, MemoryNextKeepsIInv, PTL DEF MemorySpec, RemembersInTime, Memory!Spec

-------------------------------------------------------------------------------
\* The five parts side by side: a behaviour of the instance is one of each, so every
\* variable of the agents keeps its type (MCAgents).
THEOREM AgentsTypes == AgentsSpec => []AgentsTypeOK
<1>1. AgentsInit => Init /\ ServiceInit /\ MemoryInit /\ ClientsInit /\ RouterInit
  BY DEF AgentsInit
<1>2. [AgentsNext]_<<chain, serviceVars, memoryVars, clientsVars, routerVars>> =>
        /\ [Next]_chain /\ [ServiceNext]_serviceVars /\ [MemoryNext]_memoryVars
        /\ [ClientsNext]_clientsVars /\ [RouterNext]_routerVars
  BY DEF AgentsNext
<1>3. TypeOK /\ ServiceTypeOK /\ MemoryTypeOK /\ ClientsTypeOK /\ RouterTypeOK => AgentsTypeOK
  BY DEF AgentsTypeOK
<1> QED
  BY <1>1, <1>2, <1>3, Types, ServiceTypes, MemoryTypes, ClientsTypes, RouterTypes, PTL
  DEF AgentsSpec, Spec, ServiceSpec, MemorySpec, ClientsSpec, RouterSpec
===============================================================================
