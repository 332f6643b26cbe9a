------------------------------ MODULE OsintProofs ------------------------------
(****************************************************************************)
(* Proofs about the parts of the OSINT package: a call of a bridge, the     *)
(* server with its clients, and a lookup.                                   *)
(****************************************************************************)
EXTENDS MCOsint, FiniteSetTheorems, SequenceTheorems, TLAPS

-----------------------------------------------------------------------------
(* Bridges.                                                                  *)

\* What a count, a record of items and an answer may be.
LEMMA CountFacts ==
  /\ 0 \in Counts /\ 1 \in Counts /\ 0 \in ItemCounts /\ 1 \in ItemCounts /\ NoItems \in ItemCounts
  /\ \A n \in Counts : n \in ItemCounts /\ n # NoItems
  /\ \A n \in Counts : n < MaxFound => n + 1 \in Counts
  BY BridgesAssumption DEF Counts, ItemCounts

LEMMA AnswerFields ==
  ASSUME NEW from \in {"none", "null", "sync", "record", "page", "search"}, NEW items \in ItemCounts,
         NEW timedOut \in BOOLEAN, NEW score \in {0, 55, 65, 72}
  PROVE  [from |-> from, items |-> items, timedOut |-> timedOut, score |-> score] \in BridgeAnswers
  BY DEF BridgeAnswers

LEMMA NoAnswerIsAnswer == NoAnswer \in BridgeAnswers
  BY CountFacts, AnswerFields DEF NoAnswer

LEMMA BridgesStart == BridgesInit => BridgesIInv
<1>. SUFFICES ASSUME BridgesInit PROVE BridgesIInv  OBVIOUS
<1>1. BridgesTypeOK
  <2>1. 0 \in Counts /\ NoItems \in ItemCounts  BY CountFacts
  <2> QED  BY <2>1, NoAnswerIsAnswer DEF BridgesInit, BridgesTypeOK, Statuses
<1>2. EndSeen  BY DEF BridgesInit, EndSeen, NoAnswer
<1>3. answer.from = "none" /\ answer.timedOut = FALSE /\ answer.score = 0  BY DEF BridgesInit, NoAnswer
<1>4. EndsWithScan  BY <1>3 DEF EndsWithScan, Polled
<1> QED  BY <1>1, <1>2, <1>4 DEF BridgesIInv

\* The scan goes on, or the deadline passes.
LEMMA ScanStep ==
  ASSUME BridgesIInv, Finds \/ Deadline \/ \E how \in {"finished", "failed"} : ScanEnds(how)
  PROVE  BridgesIInv'
<1>. USE DEF BridgesIInv
<1>0. found \in Counts /\ scan \in {"none", "running", "finished", "failed"}  BY DEF BridgesTypeOK
<1>1. CASE Finds
  <2>1. found' \in Counts  BY <1>0, <1>1, CountFacts DEF Finds
  <2>2. BridgesTypeOK'  BY <1>1, <2>1 DEF Finds, BridgesTypeOK
  <2>3. EndSeen'  BY <1>1 DEF Finds, EndSeen
  <2>4. scan = "running" /\ UNCHANGED <<client, scan, late, answer>>  BY <1>1 DEF Finds
  <2>5. UNCHANGED seen  BY <1>1 DEF Finds
  <2>6. ~(Polled /\ seen \notin {"error", "incomplete"})  BY <2>4 DEF EndsWithScan
  <2>7. answer.score # 72 /\ (answer.timedOut => late)  BY <2>4 DEF EndsWithScan
  <2>8. EndsWithScan'  BY <2>4, <2>5, <2>6, <2>7 DEF EndsWithScan, Polled
  <2> QED  BY <2>2, <2>3, <2>8
<1>2. CASE Deadline
  <2>1. BridgesTypeOK'  BY <1>2 DEF Deadline, BridgesTypeOK
  <2>2. EndSeen'  BY <1>2 DEF Deadline, EndSeen
  <2>3. EndsWithScan'  BY <1>2 DEF Deadline, EndsWithScan, Polled
  <2> QED  BY <2>1, <2>2, <2>3
<1>3. ASSUME NEW how \in {"finished", "failed"}, ScanEnds(how)  PROVE BridgesIInv'
  <2>1. BridgesTypeOK'  BY <1>3 DEF ScanEnds, BridgesTypeOK
  <2>2. EndSeen'  BY <1>3 DEF ScanEnds, EndSeen
  <2>3. EndsWithScan'  BY <1>3 DEF ScanEnds, EndsWithScan, Polled, EndSeen
  <2> QED  BY <2>1, <2>2, <2>3
<1> QED  BY <1>1, <1>2, <1>3

\* Before there is an answer there is nothing to end with.
LEMMA NothingEnds ==
  ASSUME answer' = NoAnswer
  PROVE  EndsWithScan'
<1>1. answer'.from = "none" /\ answer'.timedOut = FALSE /\ answer'.score = 0  BY DEF NoAnswer
<1> QED  BY <1>1 DEF EndsWithScan, Polled

\* The answers made of a start or a search, and those of the ends of a poll.
LEMMA AtOnceAnswers ==
  /\ \A a \in StartAnswers : /\ a \in BridgeAnswers /\ a.from \in {"null", "sync"}
                             /\ a.timedOut = FALSE /\ a.score = 0
  /\ \A a \in SearchAnswers : /\ a \in BridgeAnswers /\ a.from \in {"null", "search"}
                              /\ a.timedOut = FALSE /\ a.score \in {0, 65}
<1>1. ASSUME NEW a, a = Null
      PROVE  a \in BridgeAnswers /\ a.from = "null" /\ a.timedOut = FALSE /\ a.score = 0
  <2>1. a = [from |-> "null", items |-> NoItems, timedOut |-> FALSE, score |-> 0]  BY <1>1 DEF Null, NoAnswer
  <2>2. NoItems \in ItemCounts  BY CountFacts
  <2>3. a \in BridgeAnswers  BY <2>1, <2>2, AnswerFields
  <2> QED  BY <2>1, <2>3
<1>2. ASSUME NEW n \in {0, 1, NoItems}, NEW a, a = [NoAnswer EXCEPT !.from = "sync", !.items = n]
      PROVE  a \in BridgeAnswers /\ a.from = "sync" /\ a.timedOut = FALSE /\ a.score = 0
  <2>1. a = [from |-> "sync", items |-> n, timedOut |-> FALSE, score |-> 0]  BY <1>2 DEF NoAnswer
  <2>2. n \in ItemCounts  BY CountFacts
  <2>3. a \in BridgeAnswers  BY <2>1, <2>2, AnswerFields
  <2> QED  BY <2>1, <2>3
<1>3. ASSUME NEW a, a = [NoAnswer EXCEPT !.from = "search", !.items = 1, !.score = 65]
      PROVE  a \in BridgeAnswers /\ a.from = "search" /\ a.timedOut = FALSE /\ a.score = 65
  <2>1. a = [from |-> "search", items |-> 1, timedOut |-> FALSE, score |-> 65]  BY <1>3 DEF NoAnswer
  <2>2. 1 \in ItemCounts  BY CountFacts
  <2>3. a \in BridgeAnswers  BY <2>1, <2>2, AnswerFields
  <2> QED  BY <2>1, <2>3
<1>4. ASSUME NEW a \in StartAnswers
      PROVE  a \in BridgeAnswers /\ a.from \in {"null", "sync"} /\ a.timedOut = FALSE /\ a.score = 0
  <2>1. CASE a = Null  BY <2>1, <1>1
  <2>2. CASE \E n \in {0, 1, NoItems} : a = [NoAnswer EXCEPT !.from = "sync", !.items = n]  BY <2>2, <1>2
  <2> QED  BY <2>1, <2>2 DEF StartAnswers
<1>5. ASSUME NEW a \in SearchAnswers
      PROVE  a \in BridgeAnswers /\ a.from \in {"null", "search"} /\ a.timedOut = FALSE /\ a.score \in {0, 65}
  <2>1. CASE a = Null  BY <2>1, <1>1
  <2>2. CASE a = [NoAnswer EXCEPT !.from = "search", !.items = 1, !.score = 65]  BY <2>2, <1>3
  <2> QED  BY <2>1, <2>2 DEF SearchAnswers
<1> QED  BY <1>4, <1>5

LEMMA StartStep ==
  ASSUME BridgesIInv,
         \/ \E a \in StartAnswers, s \in {"none", "running", "finished"} : StartAtOnce(a, s)
         \/ \E a \in SearchAnswers : DashAtOnce(a)
         \/ \E c \in {"awaitable", "spiderdash"}, s \in {"none", "running"} : StartAccepted(c, s)
  PROVE  BridgesIInv'
<1>. USE DEF BridgesIInv
<1>1. ASSUME NEW a \in StartAnswers, NEW s \in {"none", "running", "finished"}, StartAtOnce(a, s)  PROVE BridgesIInv'
  <2>1. a \in BridgeAnswers /\ a.from \in {"null", "sync"} /\ a.timedOut = FALSE /\ a.score = 0
    BY AtOnceAnswers
  <2>2. found' \in Counts
    <3>1. a.items \in ItemCounts  BY <2>1 DEF BridgeAnswers
    <3> QED  BY <1>1, <3>1, CountFacts DEF StartAtOnce, ItemCounts
  <2>3. seen = ""  BY <1>1 DEF StartAtOnce, EndSeen
  <2>4. BridgesTypeOK'  BY <1>1, <2>1, <2>2 DEF StartAtOnce, Answered, BridgesTypeOK
  <2>5. EndSeen'  BY <1>1, <2>1, <2>3 DEF StartAtOnce, Answered, EndSeen
  <2>6. EndsWithScan'  BY <1>1, <2>1 DEF StartAtOnce, Answered, EndsWithScan, Polled
  <2> QED  BY <2>4, <2>5, <2>6
<1>2. ASSUME NEW a \in SearchAnswers, DashAtOnce(a)  PROVE BridgesIInv'
  <2>1. a \in BridgeAnswers /\ a.from \in {"null", "search"} /\ a.timedOut = FALSE /\ a.score \in {0, 65}
    BY AtOnceAnswers
  <2>2. BridgesTypeOK'  BY <1>2, <2>1 DEF DashAtOnce, Answered, BridgesTypeOK
  <2>3. EndSeen'  BY <1>2, <2>1 DEF DashAtOnce, Answered, EndSeen
  <2>4. EndsWithScan'  BY <1>2, <2>1 DEF DashAtOnce, Answered, EndsWithScan, Polled
  <2> QED  BY <2>2, <2>3, <2>4
<1>3. ASSUME NEW c \in {"awaitable", "spiderdash"}, NEW s \in {"none", "running"}, StartAccepted(c, s)  PROVE BridgesIInv'
  <2>1. seen = "" /\ answer = NoAnswer  BY <1>3 DEF StartAccepted, EndSeen
  <2>2. BridgesTypeOK'  BY <1>3 DEF StartAccepted, BridgesTypeOK
  <2>3. EndSeen'  BY <1>3, <2>1 DEF StartAccepted, EndSeen
  <2>4. answer' = NoAnswer  BY <1>3, <2>1 DEF StartAccepted
  <2>5. EndsWithScan'  BY <2>4, NothingEnds
  <2> QED  BY <2>2, <2>3, <2>5
<1> QED  BY <1>1, <1>2, <1>3

\* What a status request may say is true of the scan, unless it misleads.
LEMMA SaidFacts ==
  ASSUME BridgesTypeOK, NEW status \in Said
  PROVE  /\ status \in Statuses
         /\ status \in {"finished", "done"} => scan = "finished"
         /\ status = "failed" => scan = "failed"
<1>1. scan \in {"none", "running", "finished", "failed"}  BY DEF BridgesTypeOK
<1>2. CASE scan = "running"  BY <1>2 DEF Said, Statuses
<1>3. CASE scan = "finished"  BY <1>3 DEF Said, Statuses
<1>4. CASE scan = "failed"  BY <1>4 DEF Said, Statuses
<1>5. CASE scan = "none"  BY <1>5 DEF Said, Statuses
<1> QED  BY <1>1, <1>2, <1>3, <1>4, <1>5

LEMMA PollStep ==
  ASSUME BridgesIInv,
         \/ \E r \in Records : Poll(r)
         \/ \E status \in Said : DashPoll(status)
         \/ DashLate
  PROVE  BridgesIInv'
<1>. USE DEF BridgesIInv
<1>0. /\ client \in {"none", "awaitable", "spiderdash"} /\ found \in Counts /\ last \in ItemCounts
      /\ scan \in {"none", "running", "finished", "failed"}
  BY DEF BridgesTypeOK
<1>1. ASSUME NEW r \in Records, Poll(r)  PROVE BridgesIInv'
  <2>1. r.status \in Said /\ r.items \in {found, NoItems}  BY DEF Records
  <2>2. last' \in ItemCounts /\ seen' = r.status /\ UNCHANGED <<client, scan, found, late>>
    BY <1>0, <1>1, <2>1, CountFacts DEF Poll, MergedItems
  <2>3. /\ seen' \in Statuses
        /\ seen' \in {"finished", "done"} => scan' = "finished"
        /\ seen' = "failed" => scan' = "failed"
    BY <2>1, <2>2, SaidFacts
  <2>4. CASE IsTerminal(r.status) /\ ~IsSuccess(r.status) /\ r.items # NoItems
    <3>1. call' = "answered" /\ answer' = [from |-> "record", items |-> last', timedOut |-> FALSE, score |-> 0]
      BY <1>1, <2>4 DEF Poll, Answered, NoAnswer
    <3>2. answer' \in BridgeAnswers  BY <2>2, <3>1, AnswerFields
    <3>3. answer'.from = "record" /\ answer'.timedOut = FALSE /\ answer'.score = 0  BY <3>1
    <3>4. seen' \in {"failed", "error"}  BY <2>2, <2>4 DEF IsTerminal, IsSuccess
    <3>5. BridgesTypeOK'  BY <2>2, <2>3, <3>1, <3>2 DEF BridgesTypeOK
    <3>6. EndSeen'  BY <2>3, <3>1 DEF EndSeen
    <3>7. EndsWithScan'  BY <2>3, <3>3, <3>4 DEF EndsWithScan, Polled
    <3> QED  BY <3>5, <3>6, <3>7
  <2>5. CASE ~(IsTerminal(r.status) /\ ~IsSuccess(r.status) /\ r.items # NoItems)
    <3>1. UNCHANGED answer /\ call' = IF IsTerminal(r.status) THEN "results" ELSE "poll"
      BY <1>1, <2>5 DEF Poll
    <3>2. answer = NoAnswer  BY <1>1 DEF Poll, EndSeen
    <3>3. BridgesTypeOK'  BY <2>2, <2>3, <3>1 DEF BridgesTypeOK
    <3>4. client = "awaitable" /\ call = "poll"  BY <1>1 DEF Poll
    <3>5. answer' = NoAnswer  BY <3>1, <3>2
    <3>7. EndSeen'
      <4>1. CASE IsTerminal(r.status)
        <5>1. IsTerminal(seen')  BY <2>2, <4>1
        <5> QED  BY <2>2, <2>3, <3>1, <3>4, <3>5, <4>1, <5>1 DEF EndSeen
      <4>2. CASE ~IsTerminal(r.status)
        <5>1. call' = "poll"  BY <3>1, <4>2
        <5> QED  BY <2>3, <3>5, <5>1 DEF EndSeen
      <4> QED  BY <4>1, <4>2
    <3>6. EndsWithScan'  BY <3>5, NothingEnds
    <3> QED  BY <3>3, <3>6, <3>7
  <2> QED  BY <2>4, <2>5
<1>2. ASSUME NEW status \in Said, DashPoll(status)  PROVE BridgesIInv'
  <2>1. /\ client = "spiderdash" /\ call = "poll" /\ UNCHANGED <<client, scan, found, last, late, answer>>
        /\ seen' = status /\ call' = IF DashTerminal(status) THEN "results" ELSE "poll"
    BY <1>2 DEF DashPoll
  <2>2. /\ seen' \in Statuses
        /\ seen' \in {"finished", "done"} => scan' = "finished"
        /\ seen' = "failed" => scan' = "failed"
    BY <2>1, SaidFacts
  <2>3. BridgesTypeOK'  BY <2>1, <2>2 DEF BridgesTypeOK
  <2>4. answer' = NoAnswer  BY <2>1 DEF EndSeen
  <2>5. EndSeen'  BY <2>1, <2>2, <2>4 DEF EndSeen, DashTerminal
  <2>6. EndsWithScan'  BY <2>4, NothingEnds
  <2> QED  BY <2>3, <2>5, <2>6
<1>3. CASE DashLate
  <2>1. BridgesTypeOK'  BY <1>3 DEF DashLate, BridgesTypeOK
  <2>2. EndSeen'  BY <1>3 DEF DashLate, EndSeen
  <2>3. EndsWithScan'  BY <1>3 DEF DashLate, EndsWithScan, Polled
  <2> QED  BY <2>1, <2>2, <2>3
<1> QED  BY <1>1, <1>2, <1>3

LEMMA EndStep ==
  ASSUME BridgesIInv,
         \/ (\E sheet \in Pages : Results(sheet)) \/ TimeOut
         \/ \E a \in SearchAnswers : DashSearch(a)
         \/ \E rows \in {found, 0} : DashResults(rows)
  PROVE  BridgesIInv'
<1>. USE DEF BridgesIInv
<1>0. /\ found \in Counts /\ last \in ItemCounts /\ seen \in Statuses
      /\ seen \in {"finished", "done"} => scan = "finished"
      /\ seen = "failed" => scan = "failed"
  BY DEF BridgesTypeOK, EndSeen
\* A status that ends the polls and does not mislead is the scan's own.
<1>e. IsTerminal(seen) /\ seen \notin {"error", "incomplete"} => scan \in {"finished", "failed"}
  BY <1>0 DEF IsTerminal
<1>1. ASSUME NEW sheet \in Pages, Results(sheet)  PROVE BridgesIInv'
  <2>1. sheet.items \in {found, NoItems}  BY DEF Pages
  <2>2. /\ UNCHANGED <<client, scan, found, seen, last, late>> /\ call' = "answered"
        /\ client = "awaitable" /\ IsTerminal(seen)
    BY <1>1 DEF Results, Answered, EndSeen
  <2>3. PICK from \in {"page", "record"}, items \in ItemCounts :
          /\ answer' = [from |-> from, items |-> items, timedOut |-> FALSE, score |-> 0]
          /\ from = "page" => items = found
    BY <1>0, <1>1, <2>1, CountFacts DEF Results, Answered, NoAnswer
  <2>4. answer' \in BridgeAnswers  BY <2>3, AnswerFields
  <2>5. answer'.from = from /\ answer'.items = items /\ answer'.timedOut = FALSE /\ answer'.score = 0  BY <2>3
  <2>6. BridgesTypeOK'  BY <2>2, <2>4 DEF BridgesTypeOK
  <2>7. EndSeen'  BY <1>0, <2>2 DEF EndSeen
  <2>8. EndsWithScan'  BY <1>e, <2>2, <2>3, <2>5 DEF EndsWithScan, Polled
  <2> QED  BY <2>6, <2>7, <2>8
<1>2. CASE TimeOut
  <2>1. /\ UNCHANGED <<client, scan, found, seen, last, late>> /\ call' = "answered" /\ late
        /\ answer' = [from |-> "record", items |-> last, timedOut |-> TRUE, score |-> 0]
    BY <1>2 DEF TimeOut, Answered, NoAnswer
  <2>2. answer' \in BridgeAnswers  BY <1>0, <2>1, AnswerFields
  <2>3. answer'.from = "record" /\ answer'.timedOut = TRUE /\ answer'.score = 0  BY <2>1
  <2>4. BridgesTypeOK'  BY <2>1, <2>2 DEF BridgesTypeOK
  <2>5. EndSeen'  BY <1>0, <2>1 DEF EndSeen
  <2>6. EndsWithScan'  BY <2>1, <2>3 DEF EndsWithScan, Polled
  <2> QED  BY <2>4, <2>5, <2>6
<1>3. ASSUME NEW a \in SearchAnswers, DashSearch(a)  PROVE BridgesIInv'
  <2>1. /\ UNCHANGED <<client, scan, found, seen, last, late>> /\ call' = "answered" /\ client = "spiderdash"
        /\ DashTerminal(seen) \/ late
    BY <1>3 DEF DashSearch, Answered, EndSeen
  <2>0. EndSeen'  BY <1>0, <2>1 DEF EndSeen
  <2>2. CASE a # Null
    <3>1. answer' = a  BY <1>3, <2>2 DEF DashSearch, Answered
    <3>2. answer' \in BridgeAnswers /\ answer'.from \in {"null", "search"} /\ answer'.timedOut = FALSE
          /\ answer'.score \in {0, 65}
      BY <3>1, AtOnceAnswers
    <3>3. BridgesTypeOK'  BY <2>1, <3>2 DEF BridgesTypeOK
    <3>4. EndsWithScan'  BY <2>1, <3>2 DEF EndsWithScan, Polled
    <3> QED  BY <2>0, <3>3, <3>4
  <2>3. CASE a = Null
    <3>1. answer' = [from |-> "page", items |-> 0, timedOut |-> ~DashTerminal(seen), score |-> 0]
      BY <1>3, <2>3 DEF DashSearch, Answered, NoAnswer
    <3>2. answer' \in BridgeAnswers
      <4>1. 0 \in ItemCounts  BY CountFacts
      <4>2. (~DashTerminal(seen)) \in BOOLEAN  BY DEF DashTerminal, IsTerminal
      <4> QED  BY <3>1, <4>1, <4>2, AnswerFields
    <3>3. answer'.from = "page" /\ answer'.items = 0 /\ answer'.score = 0 /\ answer'.timedOut = ~DashTerminal(seen)
      BY <3>1
    <3>4. BridgesTypeOK'  BY <2>1, <3>2 DEF BridgesTypeOK
    <3>5. answer'.timedOut => late'  BY <2>1, <3>3
    <3>6. ~answer'.timedOut => IsTerminal(seen)  BY <3>3 DEF DashTerminal
    <3>7. answer'.score # 72  BY <3>3
    <3>8. EndsWithScan'  BY <1>e, <2>1, <3>3, <3>5, <3>6, <3>7 DEF EndsWithScan, Polled
    <3> QED  BY <2>0, <3>4, <3>8
  <2> QED  BY <2>2, <2>3
<1>4. ASSUME NEW rows \in {found, 0}, DashResults(rows)  PROVE BridgesIInv'
  <2>1. /\ UNCHANGED <<client, scan, found, seen, last, late>> /\ client = "spiderdash" /\ call = "results"
        /\ DashTerminal(seen) \/ late
    BY <1>4 DEF DashResults, EndSeen
  <2>2. CASE rows = 0
    <3>1. UNCHANGED answer /\ call' = "search"  BY <1>4, <2>2 DEF DashResults
    <3>2. BridgesTypeOK'  BY <2>1, <3>1 DEF BridgesTypeOK
    <3>3. answer' = NoAnswer  BY <2>1, <3>1 DEF EndSeen
    <3>4. EndSeen'  BY <1>0, <2>1, <3>1, <3>3 DEF EndSeen
    <3>5. EndsWithScan'  BY <3>3, NothingEnds
    <3> QED  BY <3>2, <3>4, <3>5
  <2>3. CASE rows # 0
    <3>1. rows = found  BY <2>3
    <3>2. rows \in ItemCounts  BY <1>0, <3>1, CountFacts
    <3>3. (~DashTerminal(seen)) \in BOOLEAN  BY DEF DashTerminal, IsTerminal
    <3>4. call' = "answered"  BY <1>4, <2>3 DEF DashResults, Answered
    <3>5. answer' = [from |-> "page", items |-> rows, timedOut |-> ~DashTerminal(seen),
                     score |-> IF seen = "finished" THEN 72 ELSE 55]
      BY <1>4, <2>3 DEF DashResults, Answered, NoAnswer
    <3>6. answer' \in BridgeAnswers
      <4>1. CASE seen = "finished"  BY <4>1, <3>2, <3>3, <3>5, AnswerFields
      <4>2. CASE seen # "finished"  BY <4>2, <3>2, <3>3, <3>5, AnswerFields
      <4> QED  BY <4>1, <4>2
    <3>7. /\ answer'.from = "page" /\ answer'.items = found /\ answer'.timedOut = ~DashTerminal(seen)
          /\ answer'.score = IF seen = "finished" THEN 72 ELSE 55
      BY <3>1, <3>5
    <3>8. BridgesTypeOK'  BY <2>1, <3>4, <3>6 DEF BridgesTypeOK
    <3>9. EndSeen'  BY <1>0, <2>1, <3>4 DEF EndSeen
    <3>10. answer'.timedOut => late'  BY <2>1, <3>7
    <3>11. answer'.score = 72 => scan' = "finished"  BY <1>0, <2>1, <3>7
    <3>12. ~answer'.timedOut => IsTerminal(seen)  BY <3>7 DEF DashTerminal
    <3>13. EndsWithScan'  BY <1>e, <2>1, <3>7, <3>10, <3>11, <3>12 DEF EndsWithScan, Polled
    <3> QED  BY <3>8, <3>9, <3>13
  <2> QED  BY <2>2, <2>3
<1> QED  BY <1>1, <1>2, <1>3, <1>4

LEMMA BridgesSteps == BridgesIInv /\ [BridgesNext]_bridgeVars => BridgesIInv'
<1>1. CASE UNCHANGED bridgeVars
  <2>1. BridgesIInv => BridgesTypeOK'  BY <1>1 DEF bridgeVars, BridgesIInv, BridgesTypeOK
  <2>2. BridgesIInv => EndSeen'  BY <1>1 DEF bridgeVars, BridgesIInv, EndSeen
  <2>3. BridgesIInv => EndsWithScan'  BY <1>1 DEF bridgeVars, BridgesIInv, EndsWithScan, Polled
  <2> QED  BY <2>1, <2>2, <2>3 DEF BridgesIInv
<1> QED  BY <1>1, ScanStep, StartStep, PollStep, EndStep DEF BridgesNext

LEMMA BridgesInvariance == BridgesSpec => []BridgesIInv
  BY BridgesStart, BridgesSteps, PTL DEF BridgesSpec

\* Whatever polls, failing pages and the scan's progress do in whatever order: unless
\* an error's status or a final word within another misled the client, an answer that
\* does not say it is late is of a scan that had ended, with all that it found; and a
\* score of 72 is of a finished scan (bridgeAwait.ts, spiderdashClient.ts).
THEOREM AnswersEndWithTheScan == BridgesSpec => []EndsWithScan
<1>1. BridgesIInv => EndsWithScan  BY DEF BridgesIInv
<1> QED  BY <1>1, BridgesInvariance, PTL

-----------------------------------------------------------------------------
(* The server and its clients.  What ServerIInv says is said of one client  *)
(* at a time, since a step concerns one client or changes what all share.   *)

CaseOf(c) ==
  request[c].stage = "done" /\ request[c].status = 200 /\ request[c].route \in AclRoutes =>
    /\ request[c].case \in IF request[c].own # NoCase THEN {request[c].own} ELSE request[c].envs
    /\ OperatorsRequired /\ request[c].case # NoCase => request[c].case \in Permits[request[c].operator]

StreamOf(c) ==
  inProcess /\ request[c].stage = "open" => request[c].view >= published \/ published = request[c].since

ClientOK(c) == CaseOf(c) /\ StreamOf(c) /\ RequestHeld(c)

LEMMA ByClient == ServerIInv <=> ServerTypeOK /\ CacheAndFile /\ \A c \in Clients : ClientOK(c)
  BY DEF ServerIInv, CaseHeld, CaseOf, StreamKeepsUp, StreamOf, ClientOK

LEMMA ByClientAfter == ServerTypeOK' /\ CacheAndFile' /\ (\A c \in Clients : ClientOK(c)') => ServerIInv'
  BY DEF ServerIInv, CaseHeld, CaseOf, StreamKeepsUp, StreamOf, ClientOK

LEMMA NoRequestOK == NoRequest \in Requests
<1>1. 0 \in 0..MaxVersion  BY ServerAssumption
<1> QED  BY <1>1 DEF NoRequest, Requests

\* The operators that are read, and those that are merged or bootstrapped.
LEMMA NobodyOK == Nobody \in [Operators -> Kinds] /\ Held(Nobody) = {}
  BY DEF Nobody, Kinds, Held

LEMMA ReadOK ==
  ASSUME ServerTypeOK, NEW whole \in BOOLEAN
  PROVE  Read(whole) \in [Operators -> Kinds]
  BY NobodyOK DEF ServerTypeOK, Read

\* The fields of a request that is updated.
Codes == {0, 200, 400, 401, 403, 404}
Stages == {"none", "gate", "handle", "subscribe", "open", "done"}

LEMMA ViewUpdated ==
  ASSUME NEW r \in Requests, NEW v \in 0..MaxVersion, NEW q, q = [r EXCEPT !.view = v]
  PROVE  /\ q \in Requests /\ q.view = v /\ q.stage = r.stage /\ q.status = r.status /\ q.route = r.route
         /\ q.own = r.own /\ q.operator = r.operator /\ q.case = r.case /\ q.envs = r.envs
  BY DEF Requests

LEMMA StageUpdated ==
  ASSUME NEW r \in Requests, NEW to \in Stages, NEW q, q = [r EXCEPT !.stage = to]
  PROVE  /\ q \in Requests /\ q.stage = to /\ q.status = r.status /\ q.route = r.route /\ q.own = r.own
         /\ q.operator = r.operator /\ q.case = r.case /\ q.envs = r.envs /\ q.view = r.view /\ q.since = r.since
  BY DEF Requests, Stages

LEMMA StatusUpdated ==
  ASSUME NEW r \in Requests, NEW status \in Codes, NEW q, q = [r EXCEPT !.status = status]
  PROVE  /\ q \in Requests /\ q.status = status /\ q.stage = r.stage /\ q.route = r.route /\ q.own = r.own
         /\ q.operator = r.operator /\ q.case = r.case /\ q.envs = r.envs
  BY DEF Requests, Codes

LEMMA CaseUpdated ==
  ASSUME NEW r \in Requests, NEW k \in Cases \cup {NoCase}, NEW q, q = [r EXCEPT !.case = k]
  PROVE  /\ q \in Requests /\ q.case = k /\ q.stage = r.stage /\ q.status = r.status /\ q.route = r.route
         /\ q.own = r.own /\ q.operator = r.operator /\ q.envs = r.envs
  BY DEF Requests

LEMMA TokenUpdated ==
  ASSUME NEW r \in Requests, NEW o \in Operators \cup {NoOperator}, NEW q, q = [r EXCEPT !.token = o]
  PROVE  /\ q \in Requests /\ q.stage = r.stage /\ q.status = r.status /\ q.route = r.route
         /\ q.own = r.own /\ q.operator = r.operator /\ q.case = r.case /\ q.envs = r.envs
  BY DEF Requests

LEMMA OperatorUpdated ==
  ASSUME NEW r \in Requests, NEW o \in Operators \cup {NoOperator}, NEW q, q = [r EXCEPT !.operator = o]
  PROVE  /\ q \in Requests /\ q.operator = o /\ q.stage = r.stage /\ q.status = r.status /\ q.route = r.route
         /\ q.own = r.own /\ q.case = r.case /\ q.envs = r.envs
  BY DEF Requests

LEMMA EnvsUpdated ==
  ASSUME NEW r \in Requests, NEW e \in Cases \cup {NoCase}, NEW q, q = [r EXCEPT !.envs = @ \cup {e}]
  PROVE  /\ q \in Requests /\ q.envs = r.envs \cup {e} /\ q.operator = r.operator /\ q.stage = r.stage
         /\ q.status = r.status /\ q.route = r.route /\ q.own = r.own /\ q.case = r.case
  BY DEF Requests

\* A client's request that did not change, and one that has no answer to keep.
LEMMA SameClient ==
  ASSUME NEW d \in Clients, ClientOK(d), request'[d] = request[d],
         UNCHANGED <<authMode, inProcess, published, envCase>>, d \in channel => d \in channel',
         UNCHANGED <<boot, cache>> \/ (request[d].stage = "none" /\ request[d].operator = NoOperator)
  PROVE  ClientOK(d)'
<1>1. CaseOf(d)'  BY DEF ClientOK, CaseOf, OperatorsRequired
<1>2. StreamOf(d)'  BY DEF ClientOK, StreamOf
<1>3. RequestHeld(d)'  BY DEF ClientOK, RequestHeld, OperatorsRequired
<1> QED  BY <1>1, <1>2, <1>3 DEF ClientOK

LEMMA NewClient ==
  ASSUME NEW d \in Clients, request'[d].stage \in {"none", "subscribe"}, request'[d].operator = NoOperator,
         boot' # "up" => request'[d].stage = "none"
  PROVE  ClientOK(d)'
  BY DEF ClientOK, CaseOf, StreamOf, RequestHeld

LEMMA ServerStart == ServerInit => ServerIInv
<1>. SUFFICES ASSUME ServerInit PROVE ServerIInv  OBVIOUS
<1>1. ServerTypeOK
  <2>1. request \in [Clients -> Requests]  BY NoRequestOK DEF ServerInit
  <2>2. 0 \in 0..MaxVersion  BY ServerAssumption
  <2>3. file \in [Operators -> Kinds] /\ cache \in [Operators -> Kinds] /\ stale \in BOOLEAN
    BY NobodyOK DEF ServerInit
  <2> QED  BY <2>1, <2>2, <2>3 DEF ServerInit, ServerTypeOK
<1>2. CacheAndFile  BY DEF ServerInit, CacheAndFile
<1>3. ASSUME NEW c \in Clients  PROVE ClientOK(c)
  <2>1. request[c].stage = "none" /\ request[c].operator = NoOperator  BY DEF ServerInit, NoRequest
  <2> QED  BY <2>1 DEF ClientOK, CaseOf, StreamOf, RequestHeld
<1> QED  BY <1>1, <1>2, <1>3, ByClient

\* The start, while there are no requests; the file edited by hand; and the end of the process.
LEMMA StartUpStep ==
  ASSUME ServerIInv,
         \/ \E edited \in [Operators -> Kinds] : EditFile(edited)
         \/ SkipMerge \/ (\E given \in Givens, whole \in BOOLEAN : LoadForMerge(given, whole)) \/ SaveMerged
         \/ SkipBootstrap \/ (\E whole \in BOOLEAN : Bootstrap(whole)) \/ SaveCreated \/ Listen
  PROVE  ServerIInv'
<1>. ServerTypeOK /\ CacheAndFile /\ \A c \in Clients : ClientOK(c)  BY ByClient
<1>0. boot # "up" => \A c \in Clients : request[c].stage = "none" /\ request[c].operator = NoOperator
  BY DEF ClientOK, RequestHeld
<1>1. ASSUME NEW edited \in [Operators -> Kinds], EditFile(edited)  PROVE ServerIInv'
  <2>1. ServerTypeOK'  BY <1>1 DEF EditFile, ServerTypeOK, startRest, jobVars
  <2>2. CacheAndFile'  BY <1>1 DEF EditFile, CacheAndFile, OperatorsRequired
  <2>3. \A c \in Clients : ClientOK(c)'  BY <1>1, SameClient DEF EditFile, startRest, jobVars
  <2> QED  BY <2>1, <2>2, <2>3, ByClientAfter
<1>2. ASSUME NEW given \in Givens, NEW whole \in BOOLEAN, LoadForMerge(given, whole)  PROVE ServerIInv'
  <2>1. ServerTypeOK'
    <3>1. cache' \in [Operators -> Kinds]  BY <1>2, ReadOK DEF LoadForMerge, Kinds
    <3>2. stale' \in BOOLEAN  BY <1>2 DEF LoadForMerge, Loads
    <3> QED  BY <1>2, <3>1, <3>2 DEF LoadForMerge, ServerTypeOK, startRest, jobVars
  <2>2. CacheAndFile'
    <3>1. stale' = FALSE => Read(whole) = file  BY <1>2 DEF LoadForMerge, Loads
    <3>2. ASSUME NEW o \in Held(file), Read(whole) = file  PROVE cache'[o] = file[o]
      BY <1>2, <3>2 DEF LoadForMerge, Held
    <3>3. stale' \in BOOLEAN /\ file' = file /\ boot' = "merge"  BY <1>2 DEF LoadForMerge, Loads
    <3> QED  BY <3>1, <3>2, <3>3 DEF CacheAndFile, Held
  <2>3. \A c \in Clients : ClientOK(c)'  BY <1>0, <1>2, SameClient DEF LoadForMerge, startRest, jobVars
  <2> QED  BY <2>1, <2>2, <2>3, ByClientAfter
<1>3. CASE SaveMerged \/ SaveCreated
  <2>1. ServerTypeOK'  BY <1>3 DEF SaveMerged, SaveCreated, Save, ServerTypeOK, startRest, jobVars
  <2>2. CacheAndFile'  BY <1>3 DEF SaveMerged, SaveCreated, Save, CacheAndFile
  <2>3. \A c \in Clients : ClientOK(c)'
    BY <1>0, <1>3, SameClient DEF SaveMerged, SaveCreated, Save, startRest, jobVars
  <2> QED  BY <2>1, <2>2, <2>3, ByClientAfter
<1>4. ASSUME NEW whole \in BOOLEAN, Bootstrap(whole)  PROVE ServerIInv'
  <2>1. ServerTypeOK'
    <3>1. cache' \in [Operators -> Kinds]
      <4>1. [Nobody EXCEPT ![Admin] = "enabled"] \in [Operators -> Kinds]  BY NobodyOK DEF Kinds
      <4> QED  BY <1>4, <4>1, ReadOK DEF Bootstrap
    <3>2. stale' \in BOOLEAN /\ boot' \in {"create", "listen"}  BY <1>4 DEF Bootstrap, Loads
    <3> QED  BY <1>4, <3>1, <3>2 DEF Bootstrap, ServerTypeOK, startRest, jobVars
  <2>2. CacheAndFile'
    <3>1. stale' = FALSE => Read(whole) = file  BY <1>4 DEF Bootstrap, Loads
    <3>2. stale' \in BOOLEAN /\ file' = file  BY <1>4 DEF Bootstrap, Loads
    <3>3. CASE Held(Read(whole)) = {}
      <4>1. boot' = "create"  BY <1>4, <3>3 DEF Bootstrap
      <4> QED  BY <3>1, <3>2, <3>3, <4>1 DEF CacheAndFile
    <3>4. CASE Held(Read(whole)) # {}
      <4>1. boot' = "listen" /\ cache' = Read(whole)  BY <1>4, <3>4 DEF Bootstrap
      <4> QED  BY <3>1, <3>2, <4>1 DEF CacheAndFile
    <3> QED  BY <3>3, <3>4
  <2>3. \A c \in Clients : ClientOK(c)'
    <3>1. boot = "boot"  BY <1>4 DEF Bootstrap
    <3> QED  BY <1>0, <1>4, <3>1, SameClient DEF Bootstrap, startRest, jobVars
  <2> QED  BY <2>1, <2>2, <2>3, ByClientAfter
<1>5. CASE SkipMerge \/ SkipBootstrap \/ Listen
  <2>1. ServerTypeOK'  BY <1>5 DEF SkipMerge, SkipBootstrap, Listen, ServerTypeOK, startRest, jobVars
  <2>2. CacheAndFile'  BY <1>5 DEF SkipMerge, SkipBootstrap, Listen, CacheAndFile, OperatorsRequired
  <2>3. \A c \in Clients : ClientOK(c)'
    BY <1>0, <1>5, SameClient DEF SkipMerge, SkipBootstrap, Listen, startRest, jobVars
  <2> QED  BY <2>1, <2>2, <2>3, ByClientAfter
<1> QED  BY <1>1, <1>2, <1>3, <1>4, <1>5

LEMMA StopStep ==
  ASSUME ServerIInv, Stop  PROVE ServerIInv'
<1>. ServerTypeOK  BY ByClient
<1>1. ServerTypeOK'  BY NoRequestOK, NobodyOK DEF Stop, ServerTypeOK, jobVars
<1>2. CacheAndFile'  BY DEF Stop, CacheAndFile
<1>3. ASSUME NEW c \in Clients  PROVE ClientOK(c)'
  <2>1. request'[c] = NoRequest  BY DEF Stop
  <2>2. request'[c].stage = "none" /\ request'[c].operator = NoOperator  BY <2>1 DEF NoRequest
  <2> QED  BY <2>2, NewClient
<1> QED  BY <1>1, <1>2, <1>3, ByClientAfter

\* The worker writes the job's document and publishes it.
LEMMA WorkerStep ==
  ASSUME ServerIInv, WriteJob \/ Publish  PROVE ServerIInv'
<1>. ServerTypeOK /\ CacheAndFile /\ \A c \in Clients : ClientOK(c)  BY ByClient
<1>0. doc \in 0..MaxVersion /\ published \in 0..doc /\ MaxVersion \in Nat /\ request \in [Clients -> Requests]
  BY ServerAssumption DEF ServerTypeOK
<1>1. CASE WriteJob
  <2>1. ServerTypeOK'
    <3>1. doc' \in 0..MaxVersion /\ published' \in 0..doc'  BY <1>0, <1>1 DEF WriteJob
    <3> QED  BY <1>1, <3>1 DEF WriteJob, ServerTypeOK, startVars
  <2>2. CacheAndFile'  BY <1>1 DEF WriteJob, CacheAndFile, OperatorsRequired, startVars
  <2>3. \A c \in Clients : ClientOK(c)'  BY <1>1, SameClient DEF WriteJob, startVars
  <2> QED  BY <2>1, <2>2, <2>3, ByClientAfter
<1>2. CASE Publish
  <2>1. \A c \in Clients : request'[c] = IF inProcess /\ c \in channel THEN [request[c] EXCEPT !.view = doc] ELSE request[c]
    BY <1>2 DEF Publish
  <2>2. ServerTypeOK'
    <3>1. ASSUME NEW c \in Clients  PROVE [request[c] EXCEPT !.view = doc] \in Requests
      BY <1>0 DEF Requests
    <3>2. request' \in [Clients -> Requests]  BY <1>0, <1>2, <3>1 DEF Publish
    <3>3. published' \in 0..doc'  BY <1>0, <1>2 DEF Publish
    <3> QED  BY <1>2, <3>2, <3>3 DEF Publish, ServerTypeOK, startVars
  <2>3. CacheAndFile'  BY <1>2 DEF Publish, CacheAndFile, OperatorsRequired, startVars
  <2>4. ASSUME NEW c \in Clients  PROVE ClientOK(c)'
    <3>0. request[c] \in Requests  BY <1>0
    <3>1. /\ request'[c].stage = request[c].stage /\ request'[c].status = request[c].status
          /\ request'[c].route = request[c].route /\ request'[c].own = request[c].own
          /\ request'[c].operator = request[c].operator /\ request'[c].case = request[c].case
          /\ request'[c].envs = request[c].envs
          /\ inProcess /\ c \in channel => request'[c].view = doc
      <4>1. CASE inProcess /\ c \in channel
        <5>1. request'[c] = [request[c] EXCEPT !.view = doc]  BY <2>1, <4>1
        <5> QED  BY <1>0, <3>0, <5>1, ViewUpdated
      <4>2. CASE ~(inProcess /\ c \in channel)  BY <2>1, <4>2
      <4> QED  BY <4>1, <4>2
    <3>3. UNCHANGED <<authMode, boot, file, cache, stale, envCase, inProcess, channel>> /\ published' = doc
      BY <1>2 DEF Publish, startVars
    <3>4. CaseOf(c)'
      <4>1. OperatorsRequired' = OperatorsRequired  BY <3>3 DEF OperatorsRequired
      <4>2. CaseOf(c)  BY DEF ClientOK
      <4> QED  BY <3>1, <4>1, <4>2 DEF CaseOf
    <3>5. RequestHeld(c)'  BY <3>1, <3>3 DEF ClientOK, RequestHeld, OperatorsRequired
    <3>6. request[c].stage = "open" => c \in channel  BY DEF ClientOK, RequestHeld
    <3>7. StreamOf(c)'  BY <1>0, <3>1, <3>3, <3>6 DEF StreamOf
    <3> QED  BY <3>4, <3>5, <3>7 DEF ClientOK
  <2> QED  BY <2>2, <2>3, <2>4, ByClientAfter
<1> QED  BY <1>1, <1>2

\* A step that concerns one client's request.
LEMMA OneClientStep ==
  ASSUME ServerIInv, NEW c \in Clients, NEW q \in Requests, request' = [request EXCEPT ![c] = q], ClientOK(c)',
         UNCHANGED <<startVars, envCase, jobVars>>, channel \ {c} \subseteq channel', channel' \subseteq Clients,
         local' \in [Shells -> Cases \cup {NoCase}], unlocked' \subseteq Shells
  PROVE  ServerIInv'
<1>. ServerTypeOK /\ CacheAndFile /\ \A d \in Clients : ClientOK(d)  BY ByClient
<1>1. ServerTypeOK'
  <2>1. request' \in [Clients -> Requests]  BY DEF ServerTypeOK
  <2> QED  BY <2>1 DEF ServerTypeOK, startVars, jobVars
<1>2. CacheAndFile'  BY DEF CacheAndFile, OperatorsRequired, startVars
<1>3. ASSUME NEW d \in Clients  PROVE ClientOK(d)'
  <2>1. CASE d = c  BY <2>1
  <2>2. CASE d # c
    <3>1. request'[d] = request[d]  BY <2>2 DEF ServerTypeOK
    <3>2. d \in channel => d \in channel'  BY <2>2
    <3> QED  BY <3>1, <3>2, SameClient DEF startVars, jobVars
  <2> QED  BY <2>1, <2>2
<1> QED  BY <1>1, <1>2, <1>3, ByClientAfter

\* What Outcome(c, status) leaves of the request, and with the case it was handled under.
EndedAs(q, c, status) ==
  \/ q.stage = "none" /\ q.operator = NoOperator /\ status # 200
  \/ /\ q.stage = "done" /\ q.status = status /\ q.route = request[c].route
     /\ q.own = request[c].own /\ q.operator = request[c].operator /\ q.envs = request[c].envs

LEMMA OutcomeKeeps ==
  ASSUME ServerTypeOK, NEW c \in Clients, NEW status \in Codes, NEW o, o = Outcome(c, status)
  PROVE  o \in Requests /\ EndedAs(o, c, status)
<1>. request[c] \in Requests  BY DEF ServerTypeOK
<1>1. CASE status = 200 \/ c \in Shells
  <2>1. PICK a : a = [request[c] EXCEPT !.stage = "done"]  OBVIOUS
  <2>2. o = [a EXCEPT !.status = status]  BY <1>1, <2>1 DEF Outcome
  <2>3. "done" \in Stages  BY DEF Stages
  <2>4. a \in Requests /\ a.stage = "done" /\ a.route = request[c].route /\ a.own = request[c].own
        /\ a.operator = request[c].operator /\ a.envs = request[c].envs
    BY <2>1, <2>3, StageUpdated
  <2> QED  BY <2>2, <2>4, StatusUpdated DEF EndedAs
<1>2. CASE ~(status = 200 \/ c \in Shells)
  <2>1. o = NoRequest  BY <1>2 DEF Outcome
  <2>2. o.stage = "none" /\ o.operator = NoOperator  BY <2>1 DEF NoRequest
  <2> QED  BY <1>2, <2>1, <2>2, NoRequestOK DEF EndedAs
<1> QED  BY <1>1, <1>2

LEMMA OutcomeWithCase ==
  ASSUME ServerTypeOK, NEW c \in Clients, NEW status \in Codes, NEW k \in Cases \cup {NoCase},
         NEW o, o = Outcome(c, status), NEW q, q = [o EXCEPT !.case = k]
  PROVE  q \in Requests /\ q.case = k /\ EndedAs(q, c, status)
<1>1. o \in Requests /\ EndedAs(o, c, status)  BY OutcomeKeeps
<1>2. q \in Requests /\ q.case = k /\ q.stage = o.stage /\ q.status = o.status /\ q.route = o.route
      /\ q.own = o.own /\ q.operator = o.operator /\ q.envs = o.envs
  BY <1>1, CaseUpdated
<1> QED  BY <1>1, <1>2 DEF EndedAs

\* A request that ended without success.
LEMMA RefusedOK ==
  ASSUME ServerIInv, NEW c \in Clients, request[c].stage # "none",
         NEW status \in Codes \ {200}, EndedAs(request'[c], c, status),
         UNCHANGED <<startVars, envCase, jobVars>>
  PROVE  ClientOK(c)'
<1>. ClientOK(c)  BY ByClient
<1>1. CaseOf(c)'  BY DEF EndedAs, CaseOf
<1>2. StreamOf(c)'  BY DEF EndedAs, StreamOf
<1>3. RequestHeld(c)'  BY DEF EndedAs, ClientOK, RequestHeld, startVars, OperatorsRequired
<1> QED  BY <1>1, <1>2, <1>3 DEF ClientOK

\* A request comes: it remembers, if it names no case, the server's of now.
LEMMA SentStep ==
  ASSUME ServerIInv, NEW c \in Clients, NEW route \in Routes \cup {"unlock", "who", "put"}, NEW pin \in BOOLEAN,
         NEW token \in Operators \cup {NoOperator}, NEW own \in Cases \cup {NoCase}, Sent(c, route, pin, token, own),
         UNCHANGED <<startVars, envCase, jobVars, channel>>,
         local' \in [Shells -> Cases \cup {NoCase}], UNCHANGED unlocked
  PROVE  ServerIInv'
<1>. ServerTypeOK  BY ByClient
<1>1. PICK q : q = [NoRequest EXCEPT !.stage = "gate", !.route = route, !.pin = pin, !.token = token,
                             !.own = own, !.envs = IF own = NoCase THEN {envCase} ELSE {}]
  OBVIOUS
<1>2. q = [stage |-> "gate", route |-> route, pin |-> pin, token |-> token, own |-> own, operator |-> NoOperator,
           case |-> NoCase, envs |-> IF own = NoCase THEN {envCase} ELSE {}, status |-> 0, view |-> 0, since |-> 0]
  BY <1>1 DEF NoRequest
<1>3. q \in Requests
  <2>1. (IF own = NoCase THEN {envCase} ELSE {}) \in SUBSET (Cases \cup {NoCase})  BY DEF ServerTypeOK
  <2>2. 0 \in 0..MaxVersion  BY ServerAssumption
  <2> QED  BY <1>2, <2>1, <2>2 DEF Requests
<1>4. request' = [request EXCEPT ![c] = q] /\ boot = "up"  BY <1>1 DEF Sent
<1>5. request'[c] = q  BY <1>4 DEF ServerTypeOK
<1>6. q.stage = "gate" /\ q.operator = NoOperator /\ q.own = own /\ (own = NoCase => q.envs = {envCase})  BY <1>2
<1>7. ClientOK(c)'
  <2>1. CaseOf(c)'  BY <1>5, <1>6 DEF CaseOf
  <2>2. StreamOf(c)'  BY <1>5, <1>6 DEF StreamOf
  <2>3. RequestHeld(c)'  BY <1>4, <1>5, <1>6 DEF RequestHeld, startVars
  <2> QED  BY <2>1, <2>2, <2>3 DEF ClientOK
<1>8. unlocked' \subseteq Shells /\ channel' \subseteq Clients /\ channel \ {c} \subseteq channel'  BY DEF ServerTypeOK
<1> QED  BY <1>3, <1>4, <1>7, <1>8, OneClientStep

LEMMA ClientStep ==
  ASSUME ServerIInv, NEW c \in Clients,
         \/ \E route \in Routes, pin \in BOOLEAN, token \in Operators \cup {NoOperator}, own \in Cases \cup {NoCase} :
               Call(c, route, pin, token, own)
         \/ c \in Shells /\ \E pin \in BOOLEAN : Unlock(c, pin) \/ Submit(c, pin)
         \/ c \in Shells /\ \E pin \in BOOLEAN, k \in Cases \cup {NoCase} : SaveSettings(c, pin, k)
  PROVE  ServerIInv'
<1>. ServerTypeOK  BY ByClient
<1>. local \in [Shells -> Cases \cup {NoCase}]  BY DEF ServerTypeOK
<1>0. NoOperator \in Operators \cup {NoOperator}  OBVIOUS
<1>1. ASSUME NEW route \in Routes, NEW pin \in BOOLEAN, NEW token \in Operators \cup {NoOperator},
             NEW own \in Cases \cup {NoCase}, Call(c, route, pin, token, own)
      PROVE  ServerIInv'
  BY <1>1, SentStep DEF Call
<1>2. ASSUME c \in Shells, NEW pin \in BOOLEAN, Unlock(c, pin)  PROVE ServerIInv'
  <2>1. local[c] \in Cases \cup {NoCase}  BY <1>2
  <2> QED  BY <1>0, <1>2, <2>1, SentStep DEF Unlock
<1>3. ASSUME c \in Shells, NEW pin \in BOOLEAN, Submit(c, pin)  PROVE ServerIInv'
  <2>1. local[c] \in Cases \cup {NoCase}  BY <1>3
  <2> QED  BY <1>0, <1>3, <2>1, SentStep DEF Submit
<1>4. ASSUME c \in Shells, NEW pin \in BOOLEAN, NEW k \in Cases \cup {NoCase}, SaveSettings(c, pin, k)
      PROVE  ServerIInv'
  <2>1. local' \in [Shells -> Cases \cup {NoCase}]  BY <1>4 DEF SaveSettings
  <2> QED  BY <1>0, <1>4, <2>1, SentStep DEF SaveSettings
<1> QED  BY <1>1, <1>2, <1>3, <1>4

\* The gate refuses the request, or finds its operator in the cache.
LEMMA GateStep ==
  ASSUME ServerIInv, NEW c \in Clients, Gate(c)  PROVE ServerIInv'
<1>. ServerTypeOK /\ CacheAndFile /\ ClientOK(c)  BY ByClient
<1>. request[c] \in Requests /\ request \in [Clients -> Requests]  BY DEF ServerTypeOK
<1>0. /\ UNCHANGED <<startVars, envCase, jobVars, channel, local, unlocked>> /\ channel' \subseteq Clients
      /\ local' \in [Shells -> Cases \cup {NoCase}] /\ unlocked' \subseteq Shells
      /\ request[c].stage = "gate"
  BY DEF Gate, ServerTypeOK
<1>1. boot = "up"  BY <1>0 DEF ClientOK, RequestHeld
<1>2. CASE Refused(request[c])
  <2>0. 401 \in Codes \ {200} /\ 401 \in Codes  BY DEF Codes
  <2>1. PICK q : q = Outcome(c, 401)  OBVIOUS
  <2>2. q \in Requests /\ EndedAs(q, c, 401)  BY <2>0, <2>1, OutcomeKeeps
  <2>3. request' = [request EXCEPT ![c] = q]  BY <1>2, <2>1 DEF Gate, Ends
  <2>4. EndedAs(request'[c], c, 401)  BY <2>2, <2>3
  <2>5. ClientOK(c)'  BY <1>0, <2>0, <2>4, RefusedOK
  <2> QED  BY <1>0, <2>2, <2>3, <2>5, OneClientStep
<1>3. CASE ~Refused(request[c])
  <2>1. PICK o : o = IF OperatorsRequired /\ request[c].route \notin OpenRoutes THEN request[c].token ELSE NoOperator
    OBVIOUS
  <2>2. /\ o \in Operators \cup {NoOperator}
        /\ o # NoOperator => OperatorsRequired /\ o \in Enabled(cache)
        /\ OperatorsRequired /\ request[c].route \notin OpenRoutes => o \in Operators
    <3>1. Enabled(cache) \subseteq Operators /\ request[c].token \in Operators \cup {NoOperator}
      BY DEF Requests, Enabled
    <3>2. OperatorsRequired /\ request[c].route \notin OpenRoutes => request[c].token \in Enabled(cache)
      BY <1>3 DEF Refused
    <3> QED  BY <2>1, <3>1, <3>2
  <2>3. PICK q : q = [request[c] EXCEPT !.stage = "handle", !.token = NoOperator, !.operator = o]  OBVIOUS
  <2>4. q \in Requests /\ q.stage = "handle" /\ q.operator = o /\ q.route = request[c].route
        /\ q.own = request[c].own /\ q.envs = request[c].envs
    <3>1. PICK a : a = [request[c] EXCEPT !.stage = "handle"]  OBVIOUS
    <3>2. PICK b : b = [a EXCEPT !.token = NoOperator]  OBVIOUS
    <3>3. q = [b EXCEPT !.operator = o]  BY <2>3, <3>1, <3>2
    <3>4. "handle" \in Stages /\ NoOperator \in Operators \cup {NoOperator}  BY DEF Stages
    <3>5. a \in Requests /\ a.stage = "handle" /\ a.route = request[c].route
          /\ a.own = request[c].own /\ a.envs = request[c].envs
      BY <3>1, <3>4, StageUpdated
    <3>6. b \in Requests /\ b.stage = "handle" /\ b.route = request[c].route
          /\ b.own = request[c].own /\ b.envs = request[c].envs
      BY <3>2, <3>4, <3>5, TokenUpdated
    <3> QED  BY <2>2, <3>3, <3>6, OperatorUpdated
  <2>5. request' = [request EXCEPT ![c] = q]  BY <1>3, <2>1, <2>3 DEF Gate
  <2>6. request'[c] = q  BY <2>5
  <2>7. ClientOK(c)'
    <3>1. CaseOf(c)'  BY <2>4, <2>6 DEF CaseOf
    <3>2. StreamOf(c)'  BY <2>4, <2>6 DEF StreamOf
    <3>3. RequestHeld(c)'
      BY <1>0, <1>1, <2>2, <2>4, <2>6 DEF RequestHeld, ClientOK, startVars, OperatorsRequired
    <3> QED  BY <3>1, <3>2, <3>3 DEF ClientOK
  <2> QED  BY <1>0, <2>4, <2>5, <2>7, OneClientStep
<1> QED  BY <1>2, <1>3

\* The handler: what it answers, and the case it does it under.
LEMMA StatusCodes ==
  ASSUME NEW r, NEW k, NEW query \in BOOLEAN, NEW exists \in BOOLEAN
  PROVE  /\ Status(r, k, query, exists) \in Codes
         /\ Status(r, k, query, exists) = 200 /\ r.route \in AclRoutes => MayAccess(r.operator, k)
  BY DEF Status, Codes

LEMMA HandleStep ==
  ASSUME ServerIInv, NEW c \in Clients, NEW query \in BOOLEAN, NEW exists \in BOOLEAN, Handle(c, query, exists)
  PROVE  ServerIInv'
<1>. DEFINE r == request[c]
            k == IF r.route \in AclRoutes THEN ResolvedCase(r) ELSE NoCase
            status == Status(r, k, query, exists)
            kept == IF status = 200 THEN k ELSE NoCase
<1>. ServerTypeOK /\ ClientOK(c)  BY ByClient
<1>. r \in Requests /\ request \in [Clients -> Requests]  BY DEF ServerTypeOK
<1>0. /\ UNCHANGED <<startVars, envCase, jobVars, channel, local, unlocked>> /\ channel' \subseteq Clients
      /\ local' \in [Shells -> Cases \cup {NoCase}] /\ unlocked' \subseteq Shells
      /\ r.stage = "handle"
  BY DEF Handle, ServerTypeOK
<1>1. boot = "up"  BY <1>0 DEF ClientOK, RequestHeld
<1>2. r.own \in Cases \cup {NoCase} /\ envCase \in Cases \cup {NoCase}  BY DEF ServerTypeOK, Requests
<1>3. k \in Cases \cup {NoCase} /\ kept \in Cases \cup {NoCase}  BY <1>2 DEF ResolvedCase
<1>4. status \in Codes /\ (status = 200 /\ r.route \in AclRoutes => MayAccess(r.operator, k))  BY StatusCodes
<1>5. request' = IF r.route = "events" /\ status = 200
                 THEN [request EXCEPT ![c] = [NoRequest EXCEPT !.stage = "subscribe", !.view = doc]]
                 ELSE [Ends(c, status) EXCEPT ![c].case = kept]
  BY DEF Handle
<1>. HIDE DEF status
<1>6. CASE r.route = "events" /\ status = 200
  <2>1. PICK q : q = [NoRequest EXCEPT !.stage = "subscribe", !.view = doc]  OBVIOUS
  <2>2. PICK a : a = [NoRequest EXCEPT !.stage = "subscribe"]  OBVIOUS
  <2>3. "subscribe" \in Stages /\ doc \in 0..MaxVersion  BY DEF Stages, ServerTypeOK
  <2>4. a \in Requests /\ a.stage = "subscribe" /\ a.operator = NoRequest.operator
    BY <2>2, <2>3, NoRequestOK, StageUpdated
  <2>5. q = [a EXCEPT !.view = doc]  BY <2>1, <2>2
  <2>6. q \in Requests /\ q.stage = "subscribe" /\ q.operator = NoOperator
    BY <2>3, <2>4, <2>5, ViewUpdated DEF NoRequest
  <2>7. request' = [request EXCEPT ![c] = q]  BY <1>5, <1>6, <2>1
  <2>8. request'[c] = q  BY <2>7
  <2>9. ClientOK(c)'  BY <1>0, <1>1, <2>6, <2>8, NewClient DEF startVars
  <2> QED  BY <1>0, <2>6, <2>7, <2>9, OneClientStep
<1>7. CASE ~(r.route = "events" /\ status = 200)
  <2>1. PICK o : o = Outcome(c, status)  OBVIOUS
  <2>2. PICK q : q = [o EXCEPT !.case = kept]  OBVIOUS
  <2>3. q \in Requests /\ q.case = kept /\ EndedAs(q, c, status)  BY <1>3, <1>4, <2>1, <2>2, OutcomeWithCase
  <2>4. request' = [request EXCEPT ![c] = q]
    <3>1. Ends(c, status) = [request EXCEPT ![c] = o]  BY <2>1 DEF Ends
    <3>2. [Ends(c, status) EXCEPT ![c].case = kept] = [request EXCEPT ![c] = q]  BY <2>2, <3>1
    <3> QED  BY <1>5, <1>7, <3>2
  <2>5. request'[c] = q  BY <2>4
  <2>6. CASE status # 200
    <3>1. EndedAs(request'[c], c, status) /\ status \in Codes \ {200} /\ request[c].stage # "none"
      BY <1>0, <1>4, <2>3, <2>5, <2>6
    <3>2. ClientOK(c)'  BY <1>0, <3>1, RefusedOK
    <3> QED  BY <1>0, <2>3, <2>4, <3>2, OneClientStep
  <2>7. CASE status = 200
    <3>1. /\ q.stage = "done" /\ q.status = 200 /\ q.route = r.route /\ q.case = k
          /\ q.own = r.own /\ q.operator = r.operator /\ q.envs = r.envs
      BY <2>3, <2>7 DEF EndedAs
    <3>2. ASSUME r.route \in AclRoutes  PROVE k \in IF r.own # NoCase THEN {r.own} ELSE r.envs
      BY <1>0, <3>2 DEF ResolvedCase, ClientOK, RequestHeld
    <3>3. ASSUME r.route \in AclRoutes, OperatorsRequired, k # NoCase  PROVE k \in Permits[r.operator]
      <4>1. AclRoutes \cap OpenRoutes = {}  BY DEF AclRoutes, CaseRoutes, OpenRoutes
      <4>2. r.operator \in Operators  BY <1>0, <3>3, <4>1 DEF ClientOK, RequestHeld
      <4> QED  BY <1>4, <2>7, <3>3, <4>2, ServerAssumption DEF MayAccess
    <3>4. OperatorsRequired' = OperatorsRequired  BY <1>0 DEF OperatorsRequired, startVars
    <3>5. CaseOf(c)'  BY <2>5, <3>1, <3>2, <3>3, <3>4 DEF CaseOf
    <3>6. StreamOf(c)'  BY <2>5, <3>1 DEF StreamOf
    <3>7. RequestHeld(c)'  BY <1>0, <1>1, <2>5, <3>1 DEF ClientOK, RequestHeld, startVars, OperatorsRequired
    <3>8. ClientOK(c)'  BY <3>5, <3>6, <3>7 DEF ClientOK
    <3> QED  BY <1>0, <2>3, <2>4, <3>8, OneClientStep
  <2> QED  BY <2>6, <2>7
<1> QED  BY <1>6, <1>7

\* A stream is subscribed and closed; a shell takes its answer or is locked.
LEMMA StreamStep ==
  ASSUME ServerIInv, NEW c \in Clients, Subscribe(c) \/ Close(c) \/ (c \in Shells /\ (Receive(c) \/ LockShell(c)))
  PROVE  ServerIInv'
<1>. ServerTypeOK /\ ClientOK(c)  BY ByClient
<1>. request[c] \in Requests /\ request \in [Clients -> Requests]  BY DEF ServerTypeOK
<1>0. local \in [Shells -> Cases \cup {NoCase}] /\ unlocked \subseteq Shells /\ channel \subseteq Clients
  BY DEF ServerTypeOK
<1>1. CASE Subscribe(c)
  <2>0. /\ UNCHANGED <<startVars, envCase, jobVars, local, unlocked>> /\ channel' = channel \cup {c}
        /\ request[c].stage = "subscribe"
    BY <1>1 DEF Subscribe, Joined
  <2>1. PICK a : a = [request[c] EXCEPT !.stage = "open"]  OBVIOUS
  <2>2. PICK q : q = [a EXCEPT !.since = published]  OBVIOUS
  <2>3. "open" \in Stages /\ published \in 0..MaxVersion  BY ServerAssumption DEF Stages, ServerTypeOK
  <2>4. a \in Requests /\ a.stage = "open" /\ a.operator = request[c].operator  BY <2>1, <2>3, StageUpdated
  <2>5. q \in Requests /\ q.stage = "open" /\ q.operator = request[c].operator /\ q.since = published
    BY <2>2, <2>3, <2>4 DEF Requests
  <2>6. request' = [request EXCEPT ![c] = q]  BY <1>1, <2>1, <2>2 DEF Subscribe
  <2>7. request'[c] = q  BY <2>6
  <2>8. boot = "up"  BY <2>0 DEF ClientOK, RequestHeld
  <2>9. ClientOK(c)'
    <3>1. CaseOf(c)'  BY <2>5, <2>7 DEF CaseOf
    <3>2. StreamOf(c)'  BY <2>0, <2>5, <2>7 DEF StreamOf, jobVars
    <3>3. RequestHeld(c)'  BY <2>0, <2>5, <2>7, <2>8 DEF ClientOK, RequestHeld, startVars, OperatorsRequired
    <3> QED  BY <3>1, <3>2, <3>3 DEF ClientOK
  <2>10. channel' \subseteq Clients /\ channel \ {c} \subseteq channel'  BY <1>0, <2>0
  <2>11. local' \in [Shells -> Cases \cup {NoCase}] /\ unlocked' \subseteq Shells  BY <1>0, <2>0
  <2> QED  BY <2>0, <2>5, <2>6, <2>9, <2>10, <2>11, OneClientStep
<1>2. CASE Close(c) \/ (c \in Shells /\ Receive(c))
  <2>1. /\ UNCHANGED <<startVars, envCase, jobVars, local>> /\ unlocked' \subseteq Shells
        /\ channel' \subseteq Clients /\ channel \ {c} \subseteq channel'
        /\ request' = [request EXCEPT ![c] = NoRequest] /\ request[c].stage # "none"
    BY <1>0, <1>2 DEF Close, Receive
  <2>2. request'[c] = NoRequest /\ boot = "up"  BY <2>1 DEF ClientOK, RequestHeld
  <2>3. request'[c].stage = "none" /\ request'[c].operator = NoOperator  BY <2>2 DEF NoRequest
  <2>4. ClientOK(c)'  BY <2>3, NewClient
  <2>5. local' \in [Shells -> Cases \cup {NoCase}]  BY <1>0, <2>1
  <2> QED  BY <2>1, <2>4, <2>5, NoRequestOK, OneClientStep
<1>3. CASE c \in Shells /\ LockShell(c)
  <2>1. UNCHANGED <<startVars, envCase, jobVars, local, request, channel>> /\ unlocked' \subseteq Shells
    BY <1>0, <1>3 DEF LockShell
  <2>2. ClientOK(c)'  BY <2>1, SameClient DEF startVars, jobVars
  <2>3. request' = [request EXCEPT ![c] = request[c]]  BY <2>1
  <2>4. local' \in [Shells -> Cases \cup {NoCase}] /\ channel' \subseteq Clients /\ channel \ {c} \subseteq channel'
    BY <1>0, <2>1
  <2> QED  BY <2>1, <2>2, <2>3, <2>4, OneClientStep
<1> QED  BY <1>1, <1>2, <1>3

\* Settings are saved: every request that names no case and waits for its handler remembers the server's new one.
LEMMA PutStep ==
  ASSUME ServerIInv, NEW c \in Clients, PutSettings(c)  PROVE ServerIInv'
<1>. ServerTypeOK /\ CacheAndFile /\ \A d \in Clients : ClientOK(d)  BY ByClient
<1>. request \in [Clients -> Requests]  BY DEF ServerTypeOK
<1>0. /\ UNCHANGED <<startVars, jobVars, channel, local, unlocked>> /\ request[c].stage = "handle"
      /\ request[c].route = "put"
  BY DEF PutSettings
<1>1. envCase' \in Cases \cup {NoCase}  BY DEF PutSettings, ServerTypeOK, Requests
<1>2. boot = "up"  BY <1>0 DEF ClientOK, RequestHeld
<1>3. OperatorsRequired' = OperatorsRequired  BY <1>0 DEF OperatorsRequired, startVars
<1>4. ASSUME NEW d \in Clients  PROVE request'[d] \in Requests /\ ClientOK(d)'
  <2>0. request[d] \in Requests  OBVIOUS
  <2>1. CASE d = c
    <3>1. PICK o : o = Outcome(c, 200)  OBVIOUS
    <3>2. 200 \in Codes  BY DEF Codes
    <3>3. o \in Requests /\ EndedAs(o, c, 200)  BY <3>1, <3>2, OutcomeKeeps
    <3>4. CASE c \in Shells
      <4>1. request'[d] = o  BY <2>1, <3>1, <3>4 DEF PutSettings
      <4>2. o.stage = "done" /\ o.route = "put" /\ o.operator = request[c].operator  BY <1>0, <3>3 DEF EndedAs
      <4>3. "put" \notin AclRoutes  BY DEF AclRoutes, CaseRoutes
      <4>4. CaseOf(d)'  BY <4>1, <4>2, <4>3 DEF CaseOf
      <4>5. StreamOf(d)'  BY <4>1, <4>2 DEF StreamOf
      <4>6. RequestHeld(d)'  BY <1>0, <1>2, <1>3, <2>1, <4>1, <4>2 DEF ClientOK, RequestHeld, startVars
      <4> QED  BY <3>3, <4>1, <4>4, <4>5, <4>6 DEF ClientOK
    <3>5. CASE c \notin Shells
      <4>1. request'[d] = NoRequest  BY <2>1, <3>5 DEF PutSettings
      <4>2. request'[d].stage = "none" /\ request'[d].operator = NoOperator  BY <4>1 DEF NoRequest
      <4> QED  BY <4>1, <4>2, NoRequestOK, NewClient
    <3> QED  BY <3>4, <3>5
  <2>2. CASE d # c /\ request[d].stage \in {"gate", "handle"} /\ request[d].own = NoCase
    <3>1. PICK q : q = [request[d] EXCEPT !.envs = @ \cup {envCase'}]  OBVIOUS
    <3>2. q \in Requests /\ q.envs = request[d].envs \cup {envCase'} /\ q.operator = request[d].operator
          /\ q.stage = request[d].stage /\ q.route = request[d].route
      BY <1>1, <2>0, <3>1, EnvsUpdated
    <3>3. request'[d] = q  BY <2>2, <3>1 DEF PutSettings
    <3>4. CaseOf(d)'  BY <2>2, <3>2, <3>3 DEF CaseOf
    <3>5. StreamOf(d)'  BY <2>2, <3>2, <3>3 DEF StreamOf
    <3>6. RequestHeld(d)'  BY <1>0, <1>2, <1>3, <2>2, <3>2, <3>3 DEF ClientOK, RequestHeld, startVars
    <3> QED  BY <3>2, <3>3, <3>4, <3>5, <3>6 DEF ClientOK
  <2>3. CASE d # c /\ ~(request[d].stage \in {"gate", "handle"} /\ request[d].own = NoCase)
    <3>1. request'[d] = request[d]  BY <2>3 DEF PutSettings
    <3>2. CaseOf(d)'  BY <1>3, <3>1 DEF ClientOK, CaseOf
    <3>3. StreamOf(d)'  BY <1>0, <3>1 DEF ClientOK, StreamOf, jobVars
    <3>4. RequestHeld(d)'  BY <1>0, <1>3, <2>3, <3>1 DEF ClientOK, RequestHeld, startVars
    <3> QED  BY <3>1, <3>2, <3>3, <3>4 DEF ClientOK
  <2> QED  BY <2>1, <2>2, <2>3
<1>5. ServerTypeOK'
  <2>1. request' \in [Clients -> Requests]
    <3>1. request' = [d \in Clients |-> request'[d]]  BY DEF PutSettings
    <3> QED  BY <1>4, <3>1
  <2> QED  BY <1>0, <1>1, <2>1 DEF ServerTypeOK, startVars, jobVars
<1>6. CacheAndFile'  BY <1>0 DEF CacheAndFile, OperatorsRequired, startVars
<1> QED  BY <1>4, <1>5, <1>6, ByClientAfter

LEMMA ServerStep == ServerIInv /\ [ServerNext]_serverVars => ServerIInv'
<1>. SUFFICES ASSUME ServerIInv, [ServerNext]_serverVars  PROVE ServerIInv'  OBVIOUS
<1>. Shells \subseteq Clients  BY ServerAssumption
<1>1. CASE UNCHANGED serverVars
  <2>. ServerTypeOK /\ CacheAndFile /\ \A d \in Clients : ClientOK(d)  BY ByClient
  <2>. UNCHANGED <<authMode, boot, file, cache, stale, envCase, request, local, unlocked, doc, published, inProcess, channel>>
    BY <1>1 DEF serverVars, startVars, jobVars
  <2>1. ServerTypeOK'  BY DEF ServerTypeOK
  <2>2. CacheAndFile'  BY DEF CacheAndFile, OperatorsRequired
  <2>3. \A d \in Clients : ClientOK(d)'  BY SameClient
  <2> QED  BY <2>1, <2>2, <2>3, ByClientAfter
<1>2. CASE ServerNext
  <2>1. ASSUME NEW c \in Clients,
               \/ Gate(c) \/ (\E query, exists \in BOOLEAN : Handle(c, query, exists)) \/ PutSettings(c)
               \/ Subscribe(c) \/ Close(c)
               \/ \E route \in Routes, pin \in BOOLEAN, token \in Operators \cup {NoOperator}, own \in Cases \cup {NoCase} :
                    Call(c, route, pin, token, own)
        PROVE  ServerIInv'
    BY <2>1, GateStep, HandleStep, PutStep, StreamStep, ClientStep
  <2>2. ASSUME NEW s \in Shells,
               \/ Receive(s) \/ LockShell(s)
               \/ \E pin \in BOOLEAN : Unlock(s, pin) \/ Submit(s, pin)
               \/ \E pin \in BOOLEAN, k \in Cases \cup {NoCase} : SaveSettings(s, pin, k)
        PROVE  ServerIInv'
    BY <2>2, StreamStep, ClientStep
  <2> QED  BY <1>2, <2>1, <2>2, StartUpStep, StopStep, WorkerStep DEF ServerNext
<1> QED  BY <1>1, <1>2

LEMMA ServerInvariance == ServerSpec => []ServerIInv
  BY ServerStart, ServerStep, PTL DEF ServerSpec

\* A request that succeeds was handled under its own case, or the server's of
\* some moment since it came, and its operator may access it (httpApi.ts:244).
THEOREM RequestsKeepTheirCase == ServerSpec => []CaseHeld
<1>1. ServerIInv => CaseHeld  BY DEF ServerIInv
<1> QED  BY <1>1, ServerInvariance, PTL

\* A stream of the worker's process never stays behind what was published since
\* it subscribed (SSEBroadcaster.ts:20, httpApi.ts:625).
THEOREM StreamsKeepUp == ServerSpec => []StreamKeepsUp
<1>1. ServerIInv => StreamKeepsUp  BY DEF ServerIInv
<1> QED  BY <1>1, ServerInvariance, PTL

\* No start of the server loses or enables an operator of a file that it could
\* read, and a request's operator is one that the file has enabled, save if it
\* was edited since it was read (whoOperators.ts:80, 102, 179).
THEOREM OperatorsAreKept == ServerSpec => OperatorsKept
<1>1. ASSUME ServerIInv, ServerNext, boot' # boot, ~stale, NEW o \in Held(file)
      PROVE  file'[o] = file[o]
  <2>. CacheAndFile  BY <1>1 DEF ServerIInv
  <2>1. CASE SaveMerged \/ SaveCreated  BY <1>1, <2>1 DEF SaveMerged, SaveCreated, Save, CacheAndFile
  <2>2. CASE UNCHANGED file  BY <2>2
  <2>3. CASE UNCHANGED boot  BY <1>1, <2>3
  <2>4. \/ SaveMerged \/ SaveCreated
        \/ UNCHANGED file
        \/ UNCHANGED boot
    <3>1. ASSUME NEW c \in Clients, NEW query \in BOOLEAN, NEW exists \in BOOLEAN, Handle(c, query, exists)
          PROVE  UNCHANGED file
      BY <3>1 DEF Handle, startVars
    <3> QED  BY <1>1, <3>1
             DEF ServerNext, startVars, EditFile, SkipMerge, LoadForMerge, SkipBootstrap, Bootstrap, Listen, Stop,
                 WriteJob, Publish, Gate, PutSettings, Subscribe, Close, Call, Receive, LockShell, Unlock, Submit,
                 SaveSettings
  <2> QED  BY <2>1, <2>2, <2>3, <2>4
<1>2. ASSUME ServerIInv', NEW c \in Clients, request'[c].operator # NoOperator, ~stale'
      PROVE  request'[c].operator \in Enabled(file')
  <2>1. CacheAndFile' /\ RequestHeld(c)'  BY <1>2 DEF ServerIInv
  <2>2. boot' = "up" /\ OperatorsRequired' /\ request'[c].operator \in Enabled(cache')
    BY <1>2, <2>1 DEF RequestHeld, Enabled
  <2>3. cache' = file'  BY <1>2, <2>1, <2>2 DEF CacheAndFile
  <2> QED  BY <2>2, <2>3
<1>3. ServerIInv /\ ServerIInv' /\ [ServerNext]_serverVars =>
        [/\ boot' # boot /\ ~stale => \A o \in Held(file) : file'[o] = file[o]
         /\ \A c \in Clients : request'[c].operator # NoOperator /\ ~stale' =>
              request'[c].operator \in Enabled(file')]_serverVars
  <2>1. ServerIInv' => \A c \in Clients : request'[c].operator # NoOperator /\ ~stale' =>
                         request'[c].operator \in Enabled(file')
    BY <1>2
  <2> QED  BY <1>1, <2>1
<1> QED  BY <1>3, ServerInvariance, PTL DEF ServerSpec, OperatorsKept

-----------------------------------------------------------------------------
(* A lookup.                                                                 *)

\* The image of a finite set under a function is finite.
LEMMA FiniteImage ==
  ASSUME NEW S, IsFiniteSet(S), NEW f  PROVE IsFiniteSet({f[x] : x \in S})
<1>. DEFINE T == {f[x] : x \in S}
            g == [x \in S |-> f[x]]
<1>1. g \in Surjection(S, T)  BY DEF Surjection
<1>. HIDE DEF T, g
<1>2. IsFiniteSet(T)  BY <1>1, FS_Surjection
<1> QED  BY <1>2 DEF T

\* The seeds of a sequence, and what putting seeds in order gives.
LEMMA SeedsOfSeq ==
  ASSUME NEW q \in Seq(Seeds)
  PROVE  /\ SeedsOf(q) \subseteq Seeds /\ IsFiniteSet(SeedsOf(q)) /\ IsFiniteSet(Entries(q))
         /\ (SeedsOf(q) = {}) = (q = <<>>)
<1>. DEFINE D == 1..Len(q)
<1>1. Len(q) \in Nat /\ IsFiniteSet(D)  BY FS_Interval
<1>2. IsFiniteSet(SeedsOf(q)) /\ IsFiniteSet(Entries(q))
  <2>. HIDE DEF D
  <2>1. PICK f : f = [k \in D |-> <<k, q[k]>>]  OBVIOUS
  <2>2. IsFiniteSet({q[k] : k \in D}) /\ IsFiniteSet({f[k] : k \in D})  BY <1>1, FiniteImage
  <2>3. {f[k] : k \in D} = {<<k, q[k]>> : k \in D}  BY <2>1
  <2> QED  BY <2>2, <2>3 DEF SeedsOf, Entries, D
<1>3. \A k \in D : q[k] \in Seeds  OBVIOUS
<1>4. q # <<>> => 1 \in D  BY <1>1
<1> QED  BY <1>2, <1>3, <1>4 DEF SeedsOf

LEMMA OrdersAre ==
  ASSUME NEW S, S \subseteq Seeds, NEW q \in Orders(S)  PROVE q \in Seq(Seeds) /\ SeedsOf(q) \subseteq S
<1>1. Cardinality(S) \in Nat  BY LookupAssumption, FS_Subset, FS_CardinalityType
<1>2. q \in [1..Cardinality(S) -> S]  BY DEF Orders
<1>3. q \in [1..Cardinality(S) -> Seeds]  BY <1>2
<1>4. q \in Seq(Seeds) /\ Len(q) = Cardinality(S)  BY <1>1, <1>3, SeqDef, LenProperties
<1>5. \A k \in 1..Len(q) : q[k] \in S  BY <1>2, <1>4
<1> QED  BY <1>4, <1>5 DEF SeedsOf

LEMMA Joined2 ==
  ASSUME NEW p \in Seq(Seeds), NEW q \in Seq(Seeds)
  PROVE  p \o q \in Seq(Seeds) /\ SeedsOf(p \o q) = SeedsOf(p) \cup SeedsOf(q)
<1>1. /\ p \o q \in Seq(Seeds) /\ Len(p \o q) = Len(p) + Len(q) /\ Len(p) \in Nat /\ Len(q) \in Nat
      /\ \A k \in 1..Len(p) : (p \o q)[k] = p[k]
      /\ \A k \in 1..Len(q) : (p \o q)[Len(p) + k] = q[k]
  OBVIOUS
<1>2. \A k \in 1..(Len(p) + Len(q)) : k \in 1..Len(p) \/ \E j \in 1..Len(q) : k = Len(p) + j
  <2>. TAKE k \in 1..(Len(p) + Len(q))
  <2>1. CASE k <= Len(p)  BY <1>1, <2>1
  <2>2. CASE ~(k <= Len(p))
    <3>1. k - Len(p) \in 1..Len(q) /\ k = Len(p) + (k - Len(p))  BY <1>1, <2>2
    <3> QED  BY <3>1
  <2> QED  BY <2>1, <2>2
<1>3. \A k \in 1..Len(q) : Len(p) + k \in 1..(Len(p) + Len(q))  BY <1>1
<1>4. \A k \in 1..Len(p) : k \in 1..(Len(p) + Len(q))  BY <1>1
<1>. DEFINE r == p \o q
<1>5. SeedsOf(r) = {r[k] : k \in 1..(Len(p) + Len(q))}  BY <1>1 DEF SeedsOf
<1>. HIDE DEF r
<1>6. ASSUME NEW k \in 1..(Len(p) + Len(q))  PROVE r[k] \in SeedsOf(p) \cup SeedsOf(q)
  <2>1. CASE k \in 1..Len(p)  BY <1>1, <2>1 DEF SeedsOf, r
  <2>2. CASE \E j \in 1..Len(q) : k = Len(p) + j  BY <1>1, <2>2 DEF SeedsOf, r
  <2> QED  BY <1>2, <2>1, <2>2
<1>7. \A k \in 1..Len(p) : p[k] \in SeedsOf(r)
  <2>. TAKE k \in 1..Len(p)
  <2>1. p[k] = r[k] /\ k \in 1..(Len(p) + Len(q))  BY <1>1, <1>4 DEF r
  <2> QED  BY <1>5, <2>1
<1>8. \A k \in 1..Len(q) : q[k] \in SeedsOf(r)
  <2>. TAKE k \in 1..Len(q)
  <2>1. q[k] = r[Len(p) + k] /\ Len(p) + k \in 1..(Len(p) + Len(q))  BY <1>1, <1>3 DEF r
  <2> QED  BY <1>5, <2>1
<1>9. SeedsOf(r) = SeedsOf(p) \cup SeedsOf(q)
  <2>1. SeedsOf(r) \subseteq SeedsOf(p) \cup SeedsOf(q)  BY <1>5, <1>6
  <2>2. SeedsOf(p) \subseteq SeedsOf(r) /\ SeedsOf(q) \subseteq SeedsOf(r)  BY <1>7, <1>8 DEF SeedsOf
  <2> QED  BY <2>1, <2>2
<1> QED  BY <1>1, <1>9 DEF r

\* What a sweep may find and lead to.
LEMMA Findings ==
  /\ \A seeds : Findable(seeds) \subseteq Items
  /\ \A n : \A items \in Additions(n) : items \subseteq Items
<1>1. \A seeds : Findable(seeds) \subseteq Items  BY DEF Findable
<1>2. Links \subseteq Items /\ Profiles \subseteq Items  BY DEF Links, Profiles
<1>3. \A n : \A items \in Additions(n) : items \subseteq Items
  <2>. SUFFICES ASSUME NEW n, NEW items \in Additions(n)  PROVE items \subseteq Items  OBVIOUS
  <2>1. CASE n # 1  BY <2>1 DEF Additions
  <2>2. CASE n = 1
    <3>1. PICK got \in SUBSET (IF mode = "person" THEN Profiles ELSE {}) : items = Links \cup got
      BY <2>2 DEF Additions
    <3> QED  BY <1>2, <3>1
  <2> QED  BY <2>1, <2>2
<1> QED  BY <1>1, <1>3

LEMMA FoundFacts ==
  ASSUME known \in Seq(Seeds), NEW items \in SUBSET Items, NEW leads \in SUBSET BridgeLeads, NEW new \in Found(items, leads)
  PROVE  new \in Seq(Seeds) /\ SeedsOf(new) \cap SeedsOf(known) = {}
<1>. DEFINE variants == Expanded(known)
            others == leads \ (Nameless(leads) \cup variants)
<1>1. variants \subseteq Seeds
  <2>1. SeedsOf(known) \subseteq Seeds  BY SeedsOfSeq
  <2>2. ASSUME NEW t \in SeedsOf(known), NEW u \in VariantsOf[t.value]  PROVE [type |-> "username", value |-> u] \in Seeds
    BY <2>1, LookupAssumption
  <2> QED  BY <2>2 DEF Expanded
<1>2. others \subseteq Seeds  BY LookupAssumption DEF Nameless, BridgeLeads
<1>3. Extracted(items) \subseteq Seeds  BY LookupAssumption DEF Extracted
<1>. HIDE DEF variants, others
<1>4. \A S : Fresh(S) \subseteq S /\ Fresh(S) \cap SeedsOf(known) = {}  BY DEF Fresh
<1>5. CASE new \in Orders(Fresh(Extracted(items)))
  <2>1. Fresh(Extracted(items)) \subseteq Seeds  BY <1>3, <1>4
  <2>2. new \in Seq(Seeds) /\ SeedsOf(new) \subseteq Fresh(Extracted(items))  BY <1>5, <2>1, OrdersAre
  <2> QED  BY <1>4, <2>2
<1>6. CASE \E v \in Orders(Fresh(variants)), l \in Orders(Fresh(others)) : new = v \o l
  <2>1. PICK v \in Orders(Fresh(variants)), l \in Orders(Fresh(others)) : new = v \o l  BY <1>6
  <2>2. Fresh(variants) \subseteq Seeds /\ Fresh(others) \subseteq Seeds  BY <1>1, <1>2, <1>4
  <2>3. v \in Seq(Seeds) /\ SeedsOf(v) \subseteq Fresh(variants)  BY <2>2, OrdersAre
  <2>4. l \in Seq(Seeds) /\ SeedsOf(l) \subseteq Fresh(others)  BY <2>2, OrdersAre
  <2>5. new \in Seq(Seeds) /\ SeedsOf(new) = SeedsOf(v) \cup SeedsOf(l)  BY <2>1, <2>3, <2>4, Joined2
  <2>6. Fresh(variants) \cap SeedsOf(known) = {} /\ Fresh(others) \cap SeedsOf(known) = {}  BY <1>4
  <2> QED  BY <2>3, <2>4, <2>5, <2>6
<1>7. Found(items, leads) \in {{v \o l : v \in Orders(Fresh(variants)), l \in Orders(Fresh(others))},
                               Orders(Fresh(Extracted(items)))}
  BY DEF Found, variants, others
<1> QED  BY <1>5, <1>6, <1>7

\* Notes, whatever the seeds they are made of.
LEMMA NoteFacts ==
  ASSUME NEW n \in Nat, NEW entries, IsFiniteSet(entries)
  PROVE  DedupNote(n, entries) \subseteq Notes /\ IsFiniteSet(DedupNote(n, entries)) /\ Meta(n) \in Notes
<1>1. IsFiniteSet({Class(e[2]) : e \in entries})
  <2>1. PICK f : f = [e \in entries |-> Class(e[2])]  OBVIOUS
  <2>2. IsFiniteSet({f[e] : e \in entries})  BY FiniteImage
  <2>3. {f[e] : e \in entries} = {Class(e[2]) : e \in entries}  BY <2>1
  <2> QED  BY <2>2, <2>3
<1>2. IsFiniteSet(Groups(entries))
  <2>1. Groups(entries) \subseteq {Class(e[2]) : e \in entries}  BY DEF Groups
  <2> QED  BY <1>1, <2>1, FS_Subset
<1>3. Cardinality(Groups(entries)) \in Nat  BY <1>2, FS_CardinalityType
<1>4. DedupNote(n, entries) \in {{}, {<<"dedup", n, Cardinality(Groups(entries))>>}}  BY DEF DedupNote
<1>5. IsFiniteSet(DedupNote(n, entries))
  <2>1. IsFiniteSet({}) /\ IsFiniteSet({<<"dedup", n, Cardinality(Groups(entries))>>})  BY FS_EmptySet, FS_Singleton
  <2> QED  BY <1>4, <2>1
<1> QED  BY <1>3, <1>4, <1>5 DEF Notes, Meta

LEMMA KeysFacts ==
  ASSUME known \in Seq(Seeds), NEW n \in Nat, NEW items \in SUBSET Items
  PROVE  Keys(n, items) \subseteq Items \cup Notes /\ IsFiniteSet(Keys(n, items))
<1>1. IsFiniteSet(Entries(known))  BY SeedsOfSeq
<1>2. /\ DedupNote(n, Entries(known)) \subseteq Notes /\ IsFiniteSet(DedupNote(n, Entries(known)))
      /\ Meta(n) \in Notes
  BY <1>1, NoteFacts
<1>3. IsFiniteSet(items \cup {Meta(n)})  BY LookupAssumption, FS_Subset, FS_AddElement
<1> QED  BY <1>2, <1>3, FS_Union DEF Keys

NewSeeds(new) == new \in Seq(Seeds) /\ SeedsOf(new) \cap SeedsOf(known) = {} /\ new # <<>>

SweepEnds(keys) ==
  \/ /\ Cardinality(gathered \cup keys) >= MaxItems
     /\ reason' = "budget-exhausted" /\ known' = known /\ rec' = "critique"
  \/ /\ ~(Cardinality(gathered \cup keys) >= MaxItems)
     /\ reason' = "no-new-refinements" /\ known' = known /\ rec' = "critique"
  \/ /\ ~(Cardinality(gathered \cup keys) >= MaxItems)
     /\ \E new : NewSeeds(new) /\ known' = known \o new
     /\ \/ reason' = "diminishing-returns" /\ sweep' > 1 /\ rec' = "critique"
        \/ reason' = "max-sweeps" /\ sweep' = MaxSweeps /\ rec' = "critique"
        \/ reason' = "none" /\ sweep' # MaxSweeps /\ rec' = "discover"

LEMMA SweepFacts ==
  ASSUME known \in Seq(Seeds), NEW items \in SUBSET Items, NEW leads \in SUBSET BridgeLeads,
         NEW new \in Found(items, leads), Sweep(items, new)
  PROVE  \E keys : /\ keys = Keys(sweep + 1, items)
                   /\ sweep' = sweep + 1 /\ asked' = known
                   /\ gathered' = gathered \cup keys /\ evidence' = evidence \cup keys
                   /\ SweepEnds(keys)
<1>. DEFINE n == sweep + 1
            keys == Keys(n, items)
            full == Cardinality(gathered \cup keys) >= MaxItems
<1>1. new \in Seq(Seeds) /\ SeedsOf(new) \cap SeedsOf(known) = {}  BY FoundFacts
<1>2. /\ sweep' = n /\ asked' = known /\ gathered' = gathered \cup keys /\ evidence' = evidence \cup keys
      /\ known' = IF full THEN known ELSE known \o new
  BY DEF Sweep, Stored, Full
<1>. DEFINE why == CASE full -> "budget-exhausted"
                     [] ~full /\ new = <<>> -> "no-new-refinements"
                     [] ~full /\ new # <<>> /\ Overlaps(keys) /\ n > 1 -> "diminishing-returns"
                     [] ~full /\ new # <<>> /\ ~(Overlaps(keys) /\ n > 1) /\ n = MaxSweeps -> "max-sweeps"
                     [] OTHER -> "none"
<1>3. reason' = why /\ rec' = IF why = "none" THEN "discover" ELSE "critique"
  <2>. HIDE DEF why
  <2> QED  BY DEF Sweep, why, Full
<1>. HIDE DEF full, keys, why
<1>4. CASE full
  <2>1. why = "budget-exhausted"  BY <1>4 DEF why
  <2> QED  BY <1>2, <1>3, <1>4, <2>1 DEF SweepEnds, full, keys
<1>5. CASE ~full /\ new = <<>>
  <2>1. why = "no-new-refinements"  BY <1>5 DEF why
  <2>2. known \o new = known  BY <1>5
  <2> QED  BY <2>2, <1>2, <1>3, <1>5, <2>1 DEF SweepEnds, full, keys
<1>6. CASE ~full /\ new # <<>>
  <2>1. NewSeeds(new) /\ known' = known \o new  BY <1>1, <1>2, <1>6 DEF NewSeeds
  <2>2. CASE Overlaps(keys) /\ n > 1
    <3>1. why = "diminishing-returns"  BY <1>6, <2>2 DEF why
    <3> QED  BY <1>2, <1>3, <1>6, <2>1, <2>2, <3>1 DEF SweepEnds, full, keys
  <2>3. CASE ~(Overlaps(keys) /\ n > 1) /\ n = MaxSweeps
    <3>1. why = "max-sweeps"  BY <1>6, <2>3 DEF why
    <3> QED  BY <1>2, <1>3, <1>6, <2>1, <2>3, <3>1 DEF SweepEnds, full, keys
  <2>4. CASE ~(Overlaps(keys) /\ n > 1) /\ n # MaxSweeps
    <3>1. why = "none"  BY <1>6, <2>4 DEF why
    <3> QED  BY <1>2, <1>3, <1>6, <2>1, <2>4, <3>1 DEF SweepEnds, full, keys
  <2> QED  BY <2>2, <2>3, <2>4
<1> QED  BY <1>4, <1>5, <1>6

\* Where the loops stand still, what is said of them still holds.
LEMMA ThinKept ==
  ASSUME UNCHANGED <<known, evidence>>  PROVE Thin' = Thin
  BY DEF Thin, About, Entities, Entity

LEMMA LoopsKept ==
  ASSUME LookupIInv, UNCHANGED loopVars
  PROVE  DiscoveryStops' /\ CritiqueStops' /\ LoopsEntered' /\ StreakIsLongest'
<1>. UNCHANGED <<rec, sweep, asked, known, gathered, reason, evidence, scores, streak, stop>>  BY DEF loopVars
<1>1. DiscoveryStops'  BY DEF LookupIInv, DiscoveryStops
<1>2. CritiqueStops'  BY ThinKept DEF LookupIInv, CritiqueStops, Plateau, Flat
<1>3. LoopsEntered'  BY DEF LookupIInv, LoopsEntered
<1>4. StreakIsLongest'  BY DEF LookupIInv, StreakIsLongest, Flat
<1> QED  BY <1>1, <1>2, <1>3, <1>4

LEMMA LookupStart == LookupInit => LookupIInv
<1>. SUFFICES ASSUME LookupInit PROVE LookupIInv  OBVIOUS
<1>. USE DEF LookupInit
<1>1. LookupTypeOK
  <2>1. sweep \in 0..MaxSweeps /\ streak \in 0..MaxRounds  BY LookupAssumption
  <2>2. scores \in Seq(0..95) /\ Len(scores) <= MaxRounds  BY LookupAssumption
  <2>3. known \in Seq(Seeds) /\ asked \in Seq(Seeds) /\ IsFiniteSet(evidence)  BY FS_EmptySet
  <2> QED  BY <2>1, <2>2, <2>3 DEF LookupTypeOK, Reasons, Stops
<1>2. DiscoveryStops
  <2>1. Cardinality(gathered) = 0  BY FS_EmptySet
  <2>2. ~(Cardinality(gathered) >= MaxItems)  BY <2>1, LookupAssumption
  <2> QED  BY <2>2 DEF DiscoveryStops
<1>3. CritiqueStops  BY DEF CritiqueStops
<1>4. LoopsEntered  BY DEF LoopsEntered
<1>5. StreakIsLongest  BY LookupAssumption DEF StreakIsLongest
<1>6. EndsSettled  BY DEF EndsSettled
<1> QED  BY <1>1, <1>2, <1>3, <1>4, <1>5, <1>6 DEF LookupIInv

\* A lookup begins: its seeds are those of the query, and the loops have not begun.
LEMMA BeginStep ==
  ASSUME LookupIInv, NEW m \in Modes, NEW query \in Queries, BeginWho(m, query) \/ BeginPerson(m, query)
  PROVE  LookupIInv'
<1>0. stage = "none" /\ rec = "idle" /\ evidence = {} /\ gathered = {} /\ scores = <<>> /\ streak = 0 /\ stop = "none"
      /\ sweep = 0 /\ reason = "none" /\ report = NoReport /\ archive = {}
  BY DEF BeginWho, BeginPerson, LookupIInv, LoopsEntered, EndsSettled
<1>1. /\ mode' = m /\ known' = query
      /\ UNCHANGED <<sweep, asked, gathered, reason, evidence, scores, streak, stop, report, archive>>
  BY DEF BeginWho, BeginPerson
<1>2. \/ m \in {"full", "quick"} /\ stage' = "working" /\ probes' = "running" /\ rec' \in {"discover", "idle"}
      \/ m = "links" /\ stage' = "returned" /\ probes' = "done" /\ rec' = "idle"
      \/ m = "person" /\ stage' = "working" /\ probes' = "running" /\ rec' = "idle"
  BY <1>0 DEF BeginWho, BeginPerson
<1>3. asked = <<>> /\ query \in Seq(Seeds)  BY <1>0, LookupAssumption DEF LookupIInv, LookupTypeOK, LoopsEntered
<1>4. LookupTypeOK'
  <2>1. mode' \in Modes \cup {"none"} /\ stage' \in {"none", "working", "archiving", "returned", "rejected"}
        /\ probes' \in {"none", "running", "done", "failed"}
        /\ rec' \in {"idle", "discover", "critique", "enrich", "done", "failed"}
    BY <1>1, <1>2
  <2> QED  BY <1>1, <1>3, <2>1 DEF LookupIInv, LookupTypeOK
<1>5. DiscoveryStops'  BY <1>0, <1>1, <1>2 DEF LookupIInv, DiscoveryStops
<1>6. CritiqueStops'  BY <1>0, <1>1 DEF CritiqueStops
<1>7. LoopsEntered'
  <2>1. sweep' = 0 /\ 0 < MaxSweeps  BY <1>0, <1>1, LookupAssumption
  <2> QED  BY <1>0, <1>1, <1>2, <1>3, <2>1 DEF LoopsEntered
<1>8. StreakIsLongest'  BY <1>0, <1>1, LookupAssumption DEF StreakIsLongest
<1>9. EndsSettled'  BY <1>0, <1>1, <1>2 DEF EndsSettled
<1> QED  BY <1>4, <1>5, <1>6, <1>7, <1>8, <1>9 DEF LookupIInv

\* While a loop runs, a lookup is not settled; a step of a loop leaves the rest alone.
LEMMA LoopGoesOn ==
  ASSUME LookupIInv, rec \in {"discover", "critique", "enrich"}, rec' # "idle",
         UNCHANGED <<mode, stage, probes, report, archive>>
  PROVE  EndsSettled'
<1>1. stage \in {"archiving", "returned"} => mode = "links"  BY DEF LookupIInv, EndsSettled, Settled
<1>2. mode # "links" /\ ~(mode = "person" /\ probes = "running") /\ stage # "none"  BY DEF LookupIInv, EndsSettled
<1> QED  BY <1>1, <1>2 DEF LookupIInv, EndsSettled

LEMMA SweepStep ==
  ASSUME LookupIInv, rec = "discover", NEW items \in SUBSET Items, NEW leads \in SUBSET BridgeLeads,
         NEW new \in Found(items, leads), Sweep(items, new)
  PROVE  LookupIInv'
<1>0. known \in Seq(Seeds)  BY DEF LookupIInv, LookupTypeOK
<1>1. PICK keys : /\ keys = Keys(sweep + 1, items)
                  /\ sweep' = sweep + 1 /\ asked' = known
                  /\ gathered' = gathered \cup keys /\ evidence' = evidence \cup keys
                  /\ SweepEnds(keys)
  BY <1>0, SweepFacts
<1>2. UNCHANGED <<mode, stage, probes, scores, streak, stop, report, archive>>  BY DEF Sweep
<1>3. sweep \in 0..MaxSweeps /\ sweep < MaxSweeps /\ scores = <<>> /\ streak = 0 /\ stop = "none" /\ reason = "none"
  BY DEF LookupIInv, LookupTypeOK, LoopsEntered, DiscoveryStops
<1>4. rec' \in {"discover", "critique"} /\ reason' \in Reasons /\ (reason' = "none") = (rec' = "discover")
  BY <1>1 DEF SweepEnds, Reasons
<1>5. known' \in Seq(Seeds)
  <2>1. ASSUME NEW more, NewSeeds(more), known' = known \o more  PROVE known' \in Seq(Seeds)
    BY <1>0, <2>1, Joined2 DEF NewSeeds
  <2> QED  BY <1>0, <1>1, <2>1 DEF SweepEnds
<1>6. LookupTypeOK'
  <2>1. sweep + 1 \in 1..MaxSweeps /\ sweep' \in 0..MaxSweeps  BY <1>1, <1>3, LookupAssumption
  <2>2. keys \subseteq Items \cup Notes /\ IsFiniteSet(keys)
    <3>1. sweep + 1 \in Nat  BY <2>1
    <3> QED  BY <1>0, <1>1, <3>1, KeysFacts
  <2>3. gathered' \subseteq evidence' /\ evidence' \subseteq Items \cup Notes /\ IsFiniteSet(evidence')
    <3>1. IsFiniteSet(evidence)  BY DEF LookupIInv, LookupTypeOK
    <3>2. IsFiniteSet(evidence \cup keys)  BY <2>2, <3>1, FS_Union
    <3> QED  BY <1>1, <2>2, <3>2 DEF LookupIInv, LookupTypeOK
  <2>4. asked' \in Seq(Seeds) /\ known' \in Seq(Seeds)  BY <1>0, <1>1, <1>5
  <2>5. rec' \in {"idle", "discover", "critique", "enrich", "done", "failed"} /\ reason' \in Reasons  BY <1>4
  <2> QED  BY <1>2, <2>1, <2>3, <2>4, <2>5 DEF LookupIInv, LookupTypeOK
<1>7. DiscoveryStops'
  <2>1. reason' = "no-new-refinements" =>
          /\ SeedsOf(known') = SeedsOf(asked')
          /\ \A source \in DOMAIN Takes : Asked(source, known') = Asked(source, asked')
    <3>1. reason' = "no-new-refinements" => known' = asked'  BY <1>1 DEF SweepEnds
    <3> QED  BY <3>1
  <2>2. reason' \in {"diminishing-returns", "max-sweeps"} => SeedsOf(known') \ SeedsOf(asked') # {}
    <3>1. ASSUME NEW more, NewSeeds(more), known' = known \o more  PROVE SeedsOf(known') \ SeedsOf(asked') # {}
      <4>1. more \in Seq(Seeds) /\ SeedsOf(more) # {}  BY <3>1, SeedsOfSeq DEF NewSeeds
      <4>2. SeedsOf(known \o more) = SeedsOf(known) \cup SeedsOf(more)  BY <1>0, <4>1, Joined2
      <4>3. SeedsOf(known') = SeedsOf(known) \cup SeedsOf(more)  BY <3>1, <4>2
      <4>4. SeedsOf(asked') = SeedsOf(known)  BY <1>1
      <4> QED  BY <3>1, <4>1, <4>3, <4>4 DEF NewSeeds
    <3> QED  BY <1>1, <3>1 DEF SweepEnds
  <2>3. /\ reason' = "diminishing-returns" => sweep' > 1
        /\ reason' = "max-sweeps" => sweep' = MaxSweeps
        /\ reason' = "budget-exhausted" <=> Cardinality(gathered') >= MaxItems
        /\ reason' # "error"
    BY <1>1 DEF SweepEnds
  <2>4. (reason' = "none") = ((rec' \in {"discover", "failed"} /\ scores' = <<>>) \/ rec' = "idle")
    BY <1>2, <1>3, <1>4
  <2> QED  BY <2>1, <2>2, <2>3, <2>4 DEF DiscoveryStops
<1>8. CritiqueStops'  BY <1>2, <1>3 DEF CritiqueStops
<1>9. LoopsEntered'
  <2>1. rec' = "discover" => sweep' < MaxSweeps
    <3>1. rec' = "discover" => sweep' # MaxSweeps  BY <1>1 DEF SweepEnds
    <3> QED  BY <1>1, <1>3, <3>1, LookupAssumption
  <2>2. Len(scores') < MaxRounds  BY <1>2, <1>3, LookupAssumption
  <2> QED  BY <1>2, <1>3, <1>4, <2>1, <2>2 DEF LoopsEntered
<1>10. StreakIsLongest'  BY <1>2, <1>3, LookupAssumption DEF StreakIsLongest
<1>11. EndsSettled'  BY <1>2, <1>4, LoopGoesOn
<1> QED  BY <1>6, <1>7, <1>8, <1>9, <1>10, <1>11 DEF LookupIInv

LEMMA SweepFailsStep ==
  ASSUME LookupIInv, SweepFails  PROVE LookupIInv'
<1>1. /\ rec = "discover" /\ rec' = "critique" /\ reason' = "error" /\ asked' = known
      /\ UNCHANGED <<mode, stage, probes, sweep, known, gathered, evidence, scores, streak, stop, report, archive>>
  BY DEF SweepFails
<1>2. sweep < MaxSweeps /\ scores = <<>> /\ streak = 0 /\ stop = "none" /\ reason = "none"
  BY <1>1 DEF LookupIInv, LoopsEntered, DiscoveryStops
<1>3. LookupTypeOK'  BY <1>1 DEF LookupIInv, LookupTypeOK, Reasons
<1>4. DiscoveryStops'  BY <1>1, <1>2 DEF LookupIInv, DiscoveryStops
<1>5. CritiqueStops'  BY <1>1, <1>2 DEF CritiqueStops
<1>6. LoopsEntered'  BY <1>1, <1>2, LookupAssumption DEF LoopsEntered
<1>7. StreakIsLongest'  BY <1>1, <1>2, LookupAssumption DEF StreakIsLongest
<1>8. EndsSettled'  BY <1>1, LoopGoesOn
<1> QED  BY <1>3, <1>4, <1>5, <1>6, <1>7, <1>8 DEF LookupIInv

\* A lead without a value: the run fails with the sweep's evidence stored.
LEMMA SweepThrowsStep ==
  ASSUME LookupIInv, rec = "discover", NEW items \in SUBSET Items, ~Full(Keys(sweep + 1, items)), SweepThrows(items)
  PROVE  LookupIInv'
<1>0. PICK keys : keys = Keys(sweep + 1, items)  OBVIOUS
<1>1. /\ asked' = known /\ gathered' = gathered \cup keys /\ evidence' = evidence \cup keys /\ rec' = "failed"
      /\ UNCHANGED <<mode, stage, probes, sweep, known, reason, scores, streak, stop, report, archive>>
  BY <1>0 DEF SweepThrows, Stored
<1>2. ~(Cardinality(gathered') >= MaxItems)  BY <1>0, <1>1 DEF Full
<1>3. scores = <<>> /\ streak = 0 /\ stop = "none" /\ reason = "none" /\ known \in Seq(Seeds) /\ sweep \in Nat
  BY DEF LookupIInv, LoopsEntered, DiscoveryStops, LookupTypeOK
<1>4. keys \subseteq Items \cup Notes /\ IsFiniteSet(keys)
  <2>1. sweep + 1 \in Nat  BY <1>3
  <2> QED  BY <1>0, <1>3, <2>1, KeysFacts
<1>5. LookupTypeOK'
  <2>1. IsFiniteSet(evidence')  BY <1>1, <1>4, FS_Union DEF LookupIInv, LookupTypeOK
  <2>2. gathered' \subseteq evidence' /\ evidence' \subseteq Items \cup Notes  BY <1>1, <1>4 DEF LookupIInv, LookupTypeOK
  <2> QED  BY <1>1, <2>1, <2>2 DEF LookupIInv, LookupTypeOK
<1>6. DiscoveryStops'  BY <1>1, <1>2, <1>3 DEF DiscoveryStops
<1>7. CritiqueStops'  BY <1>1, <1>3 DEF CritiqueStops
<1>8. LoopsEntered'  BY <1>1, <1>3 DEF LoopsEntered
<1>9. StreakIsLongest'  BY <1>1 DEF StreakIsLongest
<1>10. EndsSettled'  BY <1>1, LoopGoesOn
<1> QED  BY <1>5, <1>6, <1>7, <1>8, <1>9, <1>10 DEF LookupIInv

\* The score of a round is between 0 and 95.
LEMMA EntitiesFinite == LookupTypeOK => IsFiniteSet(Entities) /\ IsFiniteSet(evidence \cap Items)
<1>. SUFFICES ASSUME LookupTypeOK  PROVE IsFiniteSet(Entities) /\ IsFiniteSet(evidence \cap Items)  OBVIOUS
<1>1. IsFiniteSet(SeedsOf(known))  BY SeedsOfSeq DEF LookupTypeOK
<1>2. IsFiniteSet({s.value : s \in SeedsOf(known)})
  <2>1. PICK f : f = [s \in SeedsOf(known) |-> s.value]  OBVIOUS
  <2>2. IsFiniteSet({f[s] : s \in SeedsOf(known)})  BY <1>1, FiniteImage
  <2>3. {f[s] : s \in SeedsOf(known)} = {s.value : s \in SeedsOf(known)}  BY <2>1
  <2> QED  BY <2>2, <2>3
<1>3. IsFiniteSet(evidence \cap Items)  BY LookupAssumption, FS_Subset
<1>4. IsFiniteSet({Entity(i) : i \in evidence \cap Items})
  <2>1. PICK f : f = [i \in evidence \cap Items |-> Entity(i)]  OBVIOUS
  <2>2. IsFiniteSet({f[i] : i \in evidence \cap Items})  BY <1>3, FiniteImage
  <2>3. {f[i] : i \in evidence \cap Items} = {Entity(i) : i \in evidence \cap Items}  BY <2>1
  <2> QED  BY <2>2, <2>3
<1> QED  BY <1>2, <1>3, <1>4, FS_Union DEF Entities

LEMMA ExtraFinite ==
  ASSUME LookupTypeOK, NEW thin \in NextQueries  PROVE IsFiniteSet(ExtraEntries(thin))
<1>1. IsFiniteSet(Empty) /\ IsFiniteSet(thin)
  BY EntitiesFinite, FS_Subset DEF Empty, Thin, NextQueries
<1>2. IsFiniteSet(Suggested) /\ IsFiniteSet(Queried(thin))
  <2>1. PICK f : f = [v \in Empty |-> [type |-> "username", value |-> v]]  OBVIOUS
  <2>2. PICK g : g = [v \in thin |-> [type |-> TypeOf[v], value |-> v]]  OBVIOUS
  <2>3. IsFiniteSet({f[v] : v \in Empty}) /\ IsFiniteSet({g[v] : v \in thin})  BY <1>1, FiniteImage
  <2>4. {f[v] : v \in Empty} = Suggested /\ {g[v] : v \in thin} = Queried(thin)  BY <2>1, <2>2 DEF Suggested, Queried
  <2> QED  BY <2>3, <2>4
<1>3. IsFiniteSet({0}) /\ IsFiniteSet({-1})  BY FS_Singleton
<1>4. IsFiniteSet({0} \X Suggested) /\ IsFiniteSet({-1} \X Queried(thin))  BY <1>2, <1>3, FS_Product
<1>5. IsFiniteSet(Entries(known))  BY SeedsOfSeq DEF LookupTypeOK
<1> QED  BY <1>4, <1>5, FS_Union DEF ExtraEntries

LEMMA ScoreInRange == LookupTypeOK => Score \in 0..95
<1>. SUFFICES ASSUME LookupTypeOK PROVE Score \in 0..95  OBVIOUS
<1>0. \A x \in Int : Clamped(x) \in 0..95  BY DEF Clamped, Most, Least
<1>1. IsFiniteSet(Entities)  BY EntitiesFinite
<1>2. IsFiniteSet(Empty) /\ IsFiniteSet(evidence \cap Items)  BY <1>1, LookupAssumption, FS_Subset DEF Empty
<1>3. /\ Cardinality(Entities) \in Nat /\ Cardinality(Empty) \in Nat /\ Cardinality(evidence \cap Items) \in Nat
  BY <1>1, <1>2, FS_CardinalityType
<1>. DEFINE n == Cardinality(Entities)
            empty == Cardinality(Empty)
            total == Cardinality(evidence \cap Items)
            least == Least(total, 5 * n)
            sum == 55 * (n - empty) + 8 * least - 10 * empty * n
<1>4. least \in Int  BY <1>3 DEF Least
<1>. HIDE DEF least
<1>5. sum \in Int  BY <1>3, <1>4
<1>. HIDE DEF sum
<1>6. CASE n = 0  BY <1>6 DEF Score
<1>7. CASE n # 0
  <2>1. 2 * sum + n \in Int /\ 2 * n \in Nat \ {0}  BY <1>3, <1>5, <1>7
  <2>2. (2 * sum + n) \div (2 * n) \in Int  BY <2>1
  <2>3. Clamped((2 * sum + n) \div (2 * n)) \in 0..95  BY <1>0, <2>2
  <2>4. Score = Clamped((2 * sum + n) \div (2 * n))  BY <1>7 DEF Score, sum, least
  <2> QED  BY <2>3, <2>4
<1> QED  BY <1>6, <1>7

LEMMA ScoreAt ==
  ASSUME NEW q \in Seq(0..95)
  PROVE  (Len(q) = 0 <=> q = <<>>) /\ \A k \in 1..Len(q) : q[k] \in 0..95
  BY EmptySeq, ElementOfSeq

\* Of the rounds F are flat, and of one more G: s is the longest run at the end
\* before it, and t after it, and it first reaches p when the last p are flat.
LEMMA LongestRun ==
  ASSUME NEW n \in Nat, NEW s \in Nat, NEW p \in Nat \ {0}, s < p, s <= n, NEW F, NEW G,
         (n - s + 1)..n \subseteq F, s < n => n - s \notin F,
         \A k \in 1..n : k \in F <=> k \in G,
         NEW t \in Nat, t = IF n + 1 \in G THEN s + 1 ELSE 0
  PROVE  /\ t <= n + 1 /\ t <= p
         /\ (n + 1 - t + 1)..(n + 1) \subseteq G
         /\ t < n + 1 => n + 1 - t \notin G
         /\ t >= p <=> n + 1 >= p /\ (n + 1 - p + 1)..(n + 1) \subseteq G
<1>1. CASE n + 1 \notin G
  <2>1. t = 0  BY <1>1
  <2>2. n + 1 >= p => n + 1 \in (n + 1 - p + 1)..(n + 1)  OBVIOUS
  <2> QED  BY <1>1, <2>1, <2>2
<1>2. CASE n + 1 \in G
  <2>1. t = s + 1  BY <1>2
  <2>2. (n - s + 1)..(n + 1) \subseteq G
    <3>1. ASSUME NEW k \in (n - s + 1)..(n + 1)  PROVE k \in G
      <4>1. CASE k = n + 1  BY <1>2, <4>1
      <4>2. CASE k # n + 1
        <5>1. k \in (n - s + 1)..n /\ k \in 1..n  BY <4>2
        <5> QED  BY <5>1
      <4> QED  BY <4>1, <4>2
    <3> QED  BY <3>1
  <2>3. s < n => n - s \notin G  OBVIOUS
  <2>4. t >= p => t = p /\ n + 1 >= p /\ (n + 1 - p + 1)..(n + 1) \subseteq G  BY <2>1, <2>2
  <2>5. ASSUME n + 1 >= p, (n + 1 - p + 1)..(n + 1) \subseteq G, t < p  PROVE FALSE
    <3>1. n - s \in (n + 1 - p + 1)..(n + 1) /\ s < n  BY <2>1, <2>5
    <3> QED  BY <2>3, <2>5, <3>1
  <2> QED  BY <2>1, <2>2, <2>3, <2>4, <2>5
<1> QED  BY <1>1, <1>2

\* A round: streak counts the flat rounds at the end, this one included, and so
\* the loop stops at the first plateau.
LEMMA RoundStep ==
  ASSUME LookupIInv, rec = "critique", NEW score \in 0..95, Round(score)  PROVE LookupIInv'
<1>0. PICK n, run, flat : n = Len(scores) /\ run = streak /\ flat = IF Gains(score) THEN 0 ELSE streak + 1
  OBVIOUS
<1>. DEFINE F == {k \in 1..n : Flat(k)}
            G == {k \in 1..(n + 1) : Flat(k)'}
<1>1. /\ scores' = Append(scores, score)
      /\ UNCHANGED <<mode, stage, probes, sweep, asked, known, gathered, reason, evidence, report, archive>>
      /\ \/ score >= TargetScore /\ stop' = "target-reached" /\ rec' = "done" /\ streak' = run
         \/ ~(score >= TargetScore) /\ flat >= PlateauRounds /\ stop' = "plateau" /\ rec' = "done" /\ streak' = flat
         \/ ~(score >= TargetScore) /\ ~(flat >= PlateauRounds) /\ stop' = "none" /\ rec' = "enrich" /\ streak' = flat
  BY <1>0 DEF Round
<1>2. /\ scores \in Seq(0..95) /\ streak \in 0..MaxRounds  BY DEF LookupIInv, LookupTypeOK
<1>3. /\ n \in Nat /\ n < MaxRounds /\ stop = "none"  BY <1>0, <1>2 DEF LookupIInv, LoopsEntered
<1>4. /\ run \in Nat /\ run < PlateauRounds /\ run <= n
      /\ \A j \in (n - run + 1)..n : Flat(j)
      /\ run < n => ~Flat(n - run)
  BY <1>0, <1>2, LookupAssumption DEF LookupIInv, StreakIsLongest
<1>5. PlateauRounds \in Nat \ {0} /\ MaxRounds \in Nat \ {0} /\ PlateauEpsilon \in Nat /\ TargetScore \in Nat
  BY LookupAssumption
<1>6. /\ Len(scores') = n + 1 /\ scores'[n + 1] = score /\ \A k \in 1..n : scores'[k] = scores[k]
      /\ scores' \in Seq(0..95)
  BY <1>0, <1>1, <1>2
<1>7. ASSUME NEW k \in 1..n  PROVE Flat(k)' <=> Flat(k)
  <2>1. k > 1 => k - 1 \in 1..n  BY <1>3
  <2>2. scores'[k] = scores[k] /\ (k > 1 => scores'[k - 1] = scores[k - 1])  BY <1>6, <2>1
  <2> QED  BY <2>2 DEF Flat
<1>8. Flat(n + 1)' <=> ~Gains(score)
  <2>1. CASE n = 0
    <3>1. scores = <<>>  BY <1>0, <1>2, <2>1, ScoreAt
    <3> QED  BY <2>1, <3>1 DEF Flat, Gains
  <2>2. CASE n # 0
    <3>1. scores # <<>> /\ Previous = scores[n] /\ n \in 1..n  BY <1>0, <1>2, <1>3, <2>2 DEF Previous
    <3>2. scores[n] \in 0..95  BY <1>0, <1>2, <3>1, ScoreAt
    <3>3. scores'[n + 1] = score /\ scores'[n + 1 - 1] = scores[n]  BY <1>3, <1>6, <3>1
    <3>4. Flat(n + 1)' <=> score - scores[n] < PlateauEpsilon  BY <1>3, <2>2, <3>3 DEF Flat
    <3>5. Gains(score) <=> score - scores[n] >= PlateauEpsilon  BY <3>1 DEF Gains
    <3>6. score - scores[n] < PlateauEpsilon <=> ~(score - scores[n] >= PlateauEpsilon)  BY <1>5, <3>2
    <3> QED  BY <3>4, <3>5, <3>6
  <2> QED  BY <2>1, <2>2
<1>9. /\ flat \in Nat /\ flat <= n + 1 /\ flat <= PlateauRounds
      /\ \A j \in (n + 1 - flat + 1)..(n + 1) : Flat(j)'
      /\ flat < n + 1 => ~Flat(n + 1 - flat)'
      /\ flat >= PlateauRounds <=> Plateau(n + 1)'
  <2>1. (n - run + 1)..n \subseteq F /\ (run < n => n - run \notin F)  BY <1>3, <1>4
  <2>2. \A k \in 1..n : k \in F <=> k \in G  BY <1>3, <1>7
  <2>3. n + 1 \in G <=> ~Gains(score)  BY <1>3, <1>8
  <2>4. flat \in Nat /\ flat = IF n + 1 \in G THEN run + 1 ELSE 0  BY <1>0, <1>4, <2>3
  <2>5. /\ flat <= n + 1 /\ flat <= PlateauRounds
        /\ (n + 1 - flat + 1)..(n + 1) \subseteq G
        /\ flat < n + 1 => n + 1 - flat \notin G
        /\ flat >= PlateauRounds <=> n + 1 >= PlateauRounds /\ (n + 1 - PlateauRounds + 1)..(n + 1) \subseteq G
    <3>. HIDE DEF F, G
    <3> QED  BY <1>3, <1>4, <1>5, <2>1, <2>2, <2>4, LongestRun
  <2>6. \A j \in (n + 1 - flat + 1)..(n + 1) : Flat(j)'  BY <2>5
  <2>7. flat < n + 1 => ~Flat(n + 1 - flat)'  BY <1>3, <2>4, <2>5
  <2>8. n + 1 >= PlateauRounds =>
          ((n + 1 - PlateauRounds + 1)..(n + 1) \subseteq G <=> \A j \in (n + 1 - PlateauRounds + 1)..(n + 1) : Flat(j)')
    BY <1>3, <1>5
  <2>9. Plateau(n + 1)' <=> /\ n + 1 >= PlateauRounds
                            /\ \A j \in (n + 1 - PlateauRounds + 1)..(n + 1) : Flat(j)'
    BY <1>3, <1>5 DEF Plateau
  <2>10. flat >= PlateauRounds <=> Plateau(n + 1)'  BY <2>5, <2>8, <2>9
  <2> QED  BY <2>4, <2>5, <2>6, <2>7, <2>10
<1>10. \A k \in 1..n : Plateau(k)' <=> Plateau(k)
  <2>. SUFFICES ASSUME NEW k \in 1..n  PROVE Plateau(k)' <=> Plateau(k)  OBVIOUS
  <2>1. k >= PlateauRounds => \A j \in (k - PlateauRounds + 1)..k : j \in 1..n  BY <1>3, <1>5
  <2> QED  BY <1>7, <2>1 DEF Plateau
<1>11. LookupTypeOK'
  <2>1. streak' \in 0..MaxRounds  BY <1>1, <1>3, <1>4, <1>5, <1>9
  <2>2. Len(scores') <= MaxRounds /\ stop' \in Stops  BY <1>1, <1>3, <1>5, <1>6 DEF Stops
  <2>3. rec' \in {"idle", "discover", "critique", "enrich", "done", "failed"}  BY <1>1
  <2> QED  BY <1>1, <1>6, <2>1, <2>2, <2>3 DEF LookupIInv, LookupTypeOK
<1>12. DiscoveryStops'  BY <1>1 DEF LookupIInv, DiscoveryStops
<1>13. CritiqueStops'
  <2>1. \A k \in 1..n : scores[k] < TargetScore /\ ~Plateau(k)
    <3>1. \A k \in 1..(n - 1) : scores[k] < TargetScore /\ ~Plateau(k)  BY <1>0 DEF LookupIInv, CritiqueStops
    <3>2. n > 0 => ~(scores[n] >= TargetScore) /\ ~(scores[n] < TargetScore /\ Plateau(n))
      BY <1>0, <1>3 DEF LookupIInv, CritiqueStops
    <3>3. n > 0 => scores[n] \in 0..95
      <4>1. n > 0 => n \in 1..Len(scores)  BY <1>0, <1>3
      <4> QED  BY <1>2, <4>1, ScoreAt
    <3>4. n > 0 => scores[n] < TargetScore /\ ~Plateau(n)  BY <1>5, <3>2, <3>3
    <3>5. \A k \in 1..n : k \in 1..(n - 1) \/ k = n  BY <1>3
    <3> QED  BY <1>3, <3>1, <3>4, <3>5
  <2>2. \A k \in 1..n : scores'[k] < TargetScore /\ ~Plateau(k)'  BY <1>6, <1>10, <2>1
  <2>3. stop' = "target-reached" <=> score >= TargetScore  BY <1>1
  <2>4. stop' = "plateau" <=> score < TargetScore /\ Plateau(n + 1)'  BY <1>1, <1>5, <1>9
  <2>5. stop' \notin {"max-rounds", "no-new-evidence"}  BY <1>1
  <2>6. Len(scores')- 1 = n /\ Len(scores') > 0  BY <1>3, <1>6
  <2> QED  BY <1>6, <2>2, <2>3, <2>4, <2>5, <2>6 DEF CritiqueStops
<1>14. LoopsEntered'
  <2>1. scores' # <<>>  BY <1>1, <1>2
  <2> QED  BY <1>1, <2>1 DEF LoopsEntered
<1>15. StreakIsLongest'
  <2>1. CASE rec' = "done"  BY <2>1 DEF StreakIsLongest
  <2>2. CASE rec' # "done"
    <3>1. streak' = flat /\ flat < PlateauRounds  BY <1>1, <1>5, <1>9, <2>2
    <3>2. /\ streak' < PlateauRounds /\ streak' <= Len(scores')
          /\ \A j \in (Len(scores') - streak' + 1)..Len(scores') : Flat(j)'
      BY <1>3, <1>6, <1>9, <3>1
    <3>3. streak' < Len(scores') => ~Flat(Len(scores) - streak)'  BY <1>3, <1>6, <1>9, <3>1 DEF Flat
    <3> QED  BY <3>2, <3>3 DEF StreakIsLongest
  <2> QED  BY <2>1, <2>2
<1>16. EndsSettled'  BY <1>1, LoopGoesOn
<1> QED  BY <1>11, <1>12, <1>13, <1>14, <1>15, <1>16 DEF LookupIInv

\* More evidence for the next round, or none that is new.
LEMMA EnrichStep ==
  ASSUME LookupIInv, rec = "enrich", NEW items \in SUBSET (Items \cup Notes), IsFiniteSet(items), Enrich(items)
  PROVE  LookupIInv'
<1>1. /\ UNCHANGED <<mode, stage, probes, sweep, asked, known, gathered, reason, scores, streak, report, archive>>
      /\ evidence' = evidence \cup items
      /\ \/ items = {} /\ Thin = {} /\ stop' = "no-new-evidence" /\ rec' = "done"
         \/ Len(scores) = MaxRounds /\ stop' = "max-rounds" /\ rec' = "done"
         \/ Len(scores) # MaxRounds /\ stop' = "none" /\ rec' = "critique"
  <2>. DEFINE why == CASE items = {} /\ Thin = {} /\ Entities # {} -> "no-new-evidence"
                       [] Len(scores) = MaxRounds -> "max-rounds"
                       [] OTHER -> "none"
  <2>1. stop' = why /\ rec' = (IF why = "none" THEN "critique" ELSE "done") /\ evidence' = evidence \cup items
        /\ UNCHANGED <<mode, stage, probes, sweep, asked, known, gathered, reason, scores, streak, report, archive>>
    <3>. HIDE DEF why
    <3> QED  BY DEF Enrich, Stored, why
  <2>2. \/ items = {} /\ Thin = {} /\ why = "no-new-evidence"
        \/ Len(scores) = MaxRounds /\ why = "max-rounds"
        \/ Len(scores) # MaxRounds /\ why = "none"
    OBVIOUS
  <2>. HIDE DEF why
  <2> QED  BY <2>1, <2>2
<1>2. stop = "none" /\ scores # <<>> /\ scores \in Seq(0..95) /\ Len(scores) <= MaxRounds
  BY <1>1 DEF LookupIInv, LookupTypeOK, LoopsEntered
<1>3. LookupTypeOK'
  <2>1. gathered' \subseteq evidence' /\ evidence' \subseteq Items \cup Notes /\ IsFiniteSet(evidence')
    <3>1. IsFiniteSet(evidence \cup items)  BY FS_Union DEF LookupIInv, LookupTypeOK
    <3> QED  BY <1>1, <3>1 DEF LookupIInv, LookupTypeOK
  <2>2. stop' \in Stops /\ rec' \in {"idle", "discover", "critique", "enrich", "done", "failed"}  BY <1>1 DEF Stops
  <2> QED  BY <1>1, <2>1, <2>2 DEF LookupIInv, LookupTypeOK
<1>4. DiscoveryStops'  BY <1>1 DEF LookupIInv, DiscoveryStops
<1>5. CritiqueStops'
  <2>1. stop' = "no-new-evidence" => Thin' = {}
    <3>1. CASE items = {} /\ Thin = {}
      <4>1. UNCHANGED <<known, evidence>>  BY <1>1, <3>1
      <4> QED  BY <3>1, <4>1, ThinKept
    <3> QED  BY <1>1, <3>1
  <2>2. stop' = "max-rounds" => Len(scores) = MaxRounds  BY <1>1
  <2>3. stop' \notin {"target-reached", "plateau"}  BY <1>1
  <2>4. /\ ~(Len(scores) > 0 /\ scores[Len(scores)] >= TargetScore)
        /\ \A k \in 1..(Len(scores) - 1) : scores[k] < TargetScore /\ ~Plateau(k)
        /\ ~(Len(scores) > 0 /\ scores[Len(scores)] < TargetScore /\ Plateau(Len(scores)))
    BY <1>2 DEF LookupIInv, CritiqueStops
  <2>5. UNCHANGED scores  BY <1>1
  <2>6. \A k : Plateau(k)' <=> Plateau(k)  BY <2>5 DEF Plateau, Flat
  <2> QED  BY <2>1, <2>2, <2>3, <2>4, <2>5, <2>6 DEF CritiqueStops
<1>6. LoopsEntered'
  <2>1. rec' = "critique" => Len(scores') < MaxRounds
    <3>1. Len(scores) \in Nat  BY <1>2
    <3> QED  BY <1>1, <1>2, <3>1, LookupAssumption
  <2> QED  BY <1>1, <2>1 DEF LoopsEntered
<1>7. StreakIsLongest'
  <2>1. StreakIsLongest /\ UNCHANGED <<scores, streak>>  BY <1>1 DEF LookupIInv
  <2>2. rec = "enrich"  OBVIOUS
  <2> QED  BY <2>1, <2>2 DEF StreakIsLongest, Flat
<1>8. EndsSettled'  BY <1>1, LoopGoesOn
<1> QED  BY <1>3, <1>4, <1>5, <1>6, <1>7, <1>8 DEF LookupIInv

LEMMA EnrichFailsStep ==
  ASSUME LookupIInv, EnrichFails  PROVE LookupIInv'
<1>1. /\ rec = "enrich" /\ rec' = "failed"
      /\ UNCHANGED <<mode, stage, probes, sweep, asked, known, gathered, reason, evidence, scores, streak, stop,
                     report, archive>>
  BY DEF EnrichFails
<1>2. LookupTypeOK'  BY <1>1 DEF LookupIInv, LookupTypeOK
<1>3. DiscoveryStops'
  <2>1. scores # <<>> /\ reason # "none"  BY <1>1 DEF LookupIInv, LoopsEntered, DiscoveryStops
  <2> QED  BY <1>1, <2>1 DEF LookupIInv, DiscoveryStops
<1>4. CritiqueStops'  BY <1>1, ThinKept DEF LookupIInv, CritiqueStops, Plateau, Flat
<1>5. LoopsEntered'  BY <1>1 DEF LookupIInv, LoopsEntered
<1>6. StreakIsLongest'  BY <1>1 DEF StreakIsLongest
<1>7. EndsSettled'  BY <1>1, LoopGoesOn
<1> QED  BY <1>2, <1>3, <1>4, <1>5, <1>6, <1>7 DEF LookupIInv

\* The steps of the whole lookup, around its loops.
MergeAll == \E first \in SUBSET ProbeHits : \E copies \in SUBSET Snapshots(first \cup MergedHits) : Merge(first, copies)

\* The hits that are kept have the keys of all, and lead to the next step.
LEMMA KeptHits ==
  ASSUME NEW first, NEW then, NEW kept \in Deduped(first, MergedHits \cup then)
  PROVE  /\ \A k \in Shown(evidence) : HitKey(k) \in KeysOf(kept)
         /\ \A g, h \in kept : g.key = h.key => g = h
<1>1. KeysOf(kept) = KeysOf(first \cup (MergedHits \cup then)) /\ \A g, h \in kept : g.key = h.key => g = h
  BY DEF Deduped
<1>2. ASSUME NEW k \in Shown(evidence)  PROVE HitKey(k) \in KeysOf(kept)
  <2>1. HitFor(k) \in first \cup (MergedHits \cup then)  BY DEF MergedHits
  <2>2. HitFor(k).key = HitKey(k)  BY DEF HitFor
  <2>3. HitFor(k).key \in KeysOf(first \cup (MergedHits \cup then))  BY <2>1 DEF KeysOf
  <2> QED  BY <1>1, <2>2, <2>3
<1> QED  BY <1>1, <1>2

LEMMA MergeFacts ==
  ASSUME MergeAll
  PROVE  /\ stage = "working" /\ Settled /\ mode # "person" /\ stage' = "archiving"
         /\ report'.count = Cardinality(evidence) /\ report'.score = Previous
         /\ \A k \in Shown(evidence) : HitKey(k) \in KeysOf(report'.hits)
         /\ \A g, h \in report'.hits : g.key = h.key => g = h
         /\ report'.next = PickNext(report'.hits)
         /\ UNCHANGED <<mode, probes, loopVars, archive>>
<1>1. PICK first \in SUBSET ProbeHits : \E copies \in SUBSET Snapshots(first \cup MergedHits) : Merge(first, copies)
  BY DEF MergeAll
<1>2. PICK copies \in SUBSET Snapshots(first \cup MergedHits) : Merge(first, copies)  BY <1>1
<1>3. PICK kept \in Deduped(first, MergedHits \cup copies) :
        report' = [next |-> PickNext(kept), hits |-> kept, evidence |-> {}, count |-> Cardinality(evidence),
                   score |-> Previous]
  BY <1>2 DEF Merge
<1>4. report'.hits = kept /\ report'.next = PickNext(kept) /\ report'.count = Cardinality(evidence) /\ report'.score = Previous
  BY <1>3
<1>5. /\ \A k \in Shown(evidence) : HitKey(k) \in KeysOf(kept)
      /\ \A g, h \in kept : g.key = h.key => g = h
  BY KeptHits
<1>6. /\ stage = "working" /\ Settled /\ mode # "person" /\ stage' = "archiving"
      /\ UNCHANGED <<mode, probes, loopVars, archive>>
  BY <1>2 DEF Merge
<1> QED  BY <1>4, <1>5, <1>6

LEMMA AroundStep ==
  ASSUME LookupIInv,
         \/ Reject \/ (\E ok \in BOOLEAN : ProbesEnd(ok)) \/ MergeThrows \/ MergePerson
         \/ MergeAll \/ \E written \in BOOLEAN : ArchiveResult(written)
  PROVE  LookupIInv'
<1>1. UNCHANGED <<mode, loopVars>>
  BY MergeFacts DEF Reject, ProbesEnd, MergeThrows, MergePerson, ArchiveResult
<1>2. UNCHANGED <<rec, sweep, asked, known, gathered, reason, evidence, scores, streak, stop>>  BY <1>1 DEF loopVars
<1>3. /\ stage' \in {"none", "working", "archiving", "returned", "rejected"}
      /\ probes' \in {"none", "running", "done", "failed"}
  BY MergeFacts DEF Reject, ProbesEnd, MergeThrows, MergePerson, ArchiveResult, LookupIInv, LookupTypeOK
<1>4. LookupTypeOK'  BY <1>1, <1>2, <1>3 DEF LookupIInv, LookupTypeOK
<1>5. DiscoveryStops' /\ CritiqueStops' /\ LoopsEntered' /\ StreakIsLongest'  BY <1>1, LoopsKept
<1>6. EndsSettled'
  <2>. EndsSettled  BY DEF LookupIInv
  <2>0. ASSUME UNCHANGED report  PROVE HitsTell(evidence)' <=> HitsTell(evidence)
    BY <1>2, <2>0 DEF HitsTell
  <2>1. CASE Reject \/ MergeThrows
    BY <1>2, <2>1 DEF Reject, MergeThrows, EndsSettled, Settled
  <2>2. CASE \E ok \in BOOLEAN : ProbesEnd(ok)
    <3>1. /\ probes = "running" /\ mode # "person" /\ probes' \in {"done", "failed"}
          /\ UNCHANGED <<mode, stage, rec, evidence, scores, report, archive>>
      BY <1>2, <2>2 DEF ProbesEnd
    <3>2. stage \in {"archiving", "returned"} => mode = "links"  BY <3>1 DEF EndsSettled, Settled
    <3> QED  BY <3>1, <3>2 DEF EndsSettled
  <2>3. CASE MergePerson
    <3>1. /\ stage = "working" /\ Settled /\ stage' = "returned" /\ mode = "person"
          /\ UNCHANGED <<mode, probes, rec, evidence, scores, archive>>
          /\ report'.evidence = evidence /\ report'.count = Cardinality(evidence) /\ report'.score = Previous
      BY <1>2, <2>3 DEF MergePerson
    <3>2. archive = {}  BY <3>1 DEF EndsSettled
    <3> QED  BY <3>1, <3>2 DEF EndsSettled, Settled, Previous
  <2>4. CASE MergeAll
    <3>1. /\ stage = "working" /\ Settled /\ stage' = "archiving" /\ mode # "person"
          /\ UNCHANGED <<mode, probes, rec, evidence, scores, archive>>
          /\ report'.count = Cardinality(evidence) /\ report'.score = Previous
      BY <1>2, <2>4, MergeFacts
    <3>2. HitsTell(evidence)'  BY <2>4, <3>1, MergeFacts DEF HitsTell
    <3>3. archive = {}  BY <3>1 DEF EndsSettled
    <3> QED  BY <3>1, <3>2, <3>3 DEF EndsSettled, Settled, Previous
  <2>5. CASE \E written \in BOOLEAN : ArchiveResult(written)
    <3>1. /\ stage = "archiving" /\ stage' = "returned" /\ archive' \in {archive \cup {report}, archive}
          /\ UNCHANGED <<mode, probes, rec, evidence, scores, report>>
      BY <1>2, <2>5 DEF ArchiveResult
    <3> QED  BY <2>0, <3>1 DEF EndsSettled, Settled
  <2> QED  BY <2>1, <2>2, <2>3, <2>4, <2>5
<1> QED  BY <1>4, <1>5, <1>6 DEF LookupIInv

LEMMA ProfilesStep ==
  ASSUME LookupIInv, ProfilesProbed  PROVE LookupIInv'
<1>1. /\ probes = "running" /\ mode = "person" /\ probes' = "done" /\ rec' = "discover"
      /\ UNCHANGED <<mode, stage, sweep, asked, known, gathered, reason, evidence, scores, streak, stop, report, archive>>
  BY DEF ProfilesProbed
<1>2. /\ rec = "idle" /\ stage = "working" /\ sweep = 0 /\ reason = "none" /\ scores = <<>> /\ streak = 0
      /\ stop = "none"
  BY <1>1 DEF LookupIInv, EndsSettled, LoopsEntered
<1>3. LookupTypeOK'  BY <1>1 DEF LookupIInv, LookupTypeOK
<1>4. DiscoveryStops'  BY <1>1, <1>2 DEF LookupIInv, DiscoveryStops
<1>5. CritiqueStops'  BY <1>1, ThinKept DEF LookupIInv, CritiqueStops, Plateau, Flat
<1>6. LoopsEntered'
  <2>1. 0 < MaxSweeps  BY LookupAssumption
  <2> QED  BY <1>1, <1>2, <2>1 DEF LoopsEntered
<1>7. StreakIsLongest'  BY <1>1, <1>2, LookupAssumption DEF StreakIsLongest
<1>8. EndsSettled'  BY <1>1, <1>2 DEF LookupIInv, EndsSettled
<1> QED  BY <1>3, <1>4, <1>5, <1>6, <1>7, <1>8 DEF LookupIInv

LEMMA LookupSteps == LookupIInv /\ [LookupNext]_lookupVars => LookupIInv'
<1>. SUFFICES ASSUME LookupIInv, [LookupNext]_lookupVars  PROVE LookupIInv'  OBVIOUS
<1>1. CASE UNCHANGED lookupVars
  <2>1. UNCHANGED <<mode, stage, probes, loopVars, report, archive>>  BY <1>1 DEF lookupVars
  <2>2. UNCHANGED <<rec, sweep, asked, known, gathered, reason, evidence, scores, streak, stop>>  BY <2>1 DEF loopVars
  <2>3. LookupTypeOK'  BY <2>1, <2>2 DEF LookupIInv, LookupTypeOK
  <2>4. EndsSettled'
    <3>1. HitsTell(evidence)' <=> HitsTell(evidence)  BY <2>1, <2>2 DEF HitsTell
    <3> QED  BY <2>1, <2>2, <3>1 DEF LookupIInv, EndsSettled, Settled
  <2> QED  BY <2>1, <2>3, <2>4, LoopsKept DEF LookupIInv
<1>2. CASE Discover
  <2>1. PICK items \in SUBSET Items, leads \in SUBSET BridgeLeads :
          \/ \E new \in Found(items, leads) : Sweep(items, new)
          \/ ~Full(Keys(sweep + 1, items)) /\ SweepThrows(items)
    <3>1. PICK got \in SUBSET Findable(known), added \in Additions(sweep + 1), leads \in SUBSET BridgeLeads :
            \/ \E new \in Found(got \cup added, leads) : Sweep(got \cup added, new)
            \/ ~Full(Keys(sweep + 1, got \cup added)) /\ SweepThrows(got \cup added)
      BY <1>2 DEF Discover
    <3>2. got \cup added \in SUBSET Items  BY Findings
    <3> QED  BY <3>1, <3>2
  <2>2. rec = "discover"  BY <1>2 DEF Discover
  <2>3. CASE \E new \in Found(items, leads) : Sweep(items, new)  BY <2>2, <2>3, SweepStep
  <2>4. CASE ~Full(Keys(sweep + 1, items)) /\ SweepThrows(items)  BY <2>2, <2>4, SweepThrowsStep
  <2> QED  BY <2>1, <2>3, <2>4
<1>3. CASE Critique
  <2>1. Score \in 0..95  BY ScoreInRange DEF LookupIInv
  <2> QED  BY <1>3, <2>1, RoundStep DEF Critique
<1>4. CASE Improve
  <2>1. PICK thin \in NextQueries : \E got \in SUBSET (Findable(known) \cup AlsoFindable(thin)) :
          Enrich((got \cup DedupNote(100 + Len(scores), ExtraEntries(thin))) \ evidence)
    BY <1>4 DEF Improve
  <2>2. PICK got \in SUBSET (Findable(known) \cup AlsoFindable(thin)) :
          Enrich((got \cup DedupNote(100 + Len(scores), ExtraEntries(thin))) \ evidence)
    BY <2>1
  <2>3. got \subseteq Items  BY <2>2, Findings DEF AlsoFindable
  <2>4. IsFiniteSet(ExtraEntries(thin))  BY ExtraFinite DEF LookupIInv
  <2>5. 100 + Len(scores) \in Nat
    <3>1. Len(scores) \in Nat  BY DEF LookupIInv, LookupTypeOK
    <3> QED  BY <3>1
  <2>6. PICK note : note = DedupNote(100 + Len(scores), ExtraEntries(thin))  OBVIOUS
  <2>7. note \subseteq Notes /\ IsFiniteSet(note)  BY <2>4, <2>5, <2>6, NoteFacts
  <2>8. IsFiniteSet(got \cup note)  BY <2>3, <2>7, LookupAssumption, FS_Subset, FS_Union
  <2>9. (got \cup note) \ evidence \in SUBSET (Items \cup Notes) /\ IsFiniteSet((got \cup note) \ evidence)
    BY <2>3, <2>7, <2>8, FS_Subset
  <2>10. rec = "enrich" /\ Enrich((got \cup note) \ evidence)  BY <1>4, <2>2, <2>6 DEF Improve
  <2> QED  BY <2>9, <2>10, EnrichStep
<1>5. CASE \E m \in Modes, query \in Queries : BeginWho(m, query) \/ BeginPerson(m, query)  BY <1>5, BeginStep
<1> QED  BY <1>1, <1>2, <1>3, <1>4, <1>5, SweepFailsStep, EnrichFailsStep, AroundStep, ProfilesStep
         DEF LookupNext, LookupStep, MergeAll

LEMMA LookupInvariance == LookupSpec => []LookupIInv
  BY LookupStart, LookupSteps, PTL DEF LookupSpec

\* The reason why the sweeps stopped is true of them (refinementLoop.ts:104-186).
THEOREM SweepsStopForTheirReason == LookupSpec => []DiscoveryStops
<1>1. LookupIInv => DiscoveryStops  BY DEF LookupIInv
<1> QED  BY <1>1, LookupInvariance, PTL

\* The critique stops in the first round that reaches the target or ends a
\* plateau, and else for the reason it gives (critiqueLoop.ts:149-190).
THEOREM CritiqueStopsInTime == LookupSpec => []CritiqueStops
<1>1. LookupIInv => CritiqueStops  BY DEF LookupIInv
<1> QED  BY <1>1, LookupInvariance, PTL

\* A report shows all that the sweeps gathered, once, leads to the surest hit
\* it has, and what is archived is what is returned (who.ts:571-656).
THEOREM ReportsAreComplete == LookupSpec => []ReportComplete
<1>1. LookupIInv => ReportComplete
  <2>. SUFFICES ASSUME LookupIInv PROVE ReportComplete  OBVIOUS
  <2>1. gathered \subseteq evidence /\ IsFiniteSet(evidence)  BY DEF LookupIInv, LookupTypeOK
  <2>2. mode = "links" => scores = <<>>  BY DEF LookupIInv, EndsSettled, LoopsEntered
  <2>3. HitsTell(evidence) => HitsTell(gathered)
    <3>1. Shown(gathered) \subseteq Shown(evidence)  BY <2>1 DEF Shown
    <3> QED  BY <3>1 DEF HitsTell
  <2>4. Cardinality(gathered) <= Cardinality(evidence)  BY <2>1, FS_Subset
  <2> QED  BY <2>1, <2>2, <2>3, <2>4 DEF LookupIInv, EndsSettled, ReportComplete
<1> QED  BY <1>1, LookupInvariance, PTL

-----------------------------------------------------------------------------
\* Every variable of the three parts keeps its type, whichever of them moves.
THEOREM OsintTypes == OsintSpec => []OsintTypeOK
<1>. DEFINE Parts == LookupIInv /\ BridgesIInv /\ ServerIInv
<1>1. OsintInit => Parts  BY LookupStart, BridgesStart, ServerStart DEF OsintInit
<1>2. Parts /\ [OsintNext]_<<lookupVars, bridgeVars, serverVars>> => Parts'
  <2>1. [OsintNext]_<<lookupVars, bridgeVars, serverVars>> =>
          [LookupNext]_lookupVars /\ [BridgesNext]_bridgeVars /\ [ServerNext]_serverVars
    BY DEF OsintNext
  <2> QED  BY <2>1, LookupSteps, BridgesSteps, ServerStep
<1>3. Parts => OsintTypeOK  BY DEF OsintTypeOK, LookupIInv, BridgesIInv, ServerIInv
<1>. HIDE DEF Parts
<1> QED  BY <1>1, <1>2, <1>3, PTL DEF OsintSpec
===============================================================================
