---------------------------- MODULE Bridges ----------------------------
(***************************************************************************)
(* The HTTP bridges that a lookup asks.  runAwaitableBridge() posts a scan *)
(* and polls it until it ends or the deadline passes; SpiderDash's client  *)
(* does the same over tRPC and takes whatever results there are.  The scan *)
(* runs in another program and goes on finding items meanwhile.            *)
(***************************************************************************)
EXTENDS Naturals, FiniteSets

CONSTANTS MaxFound,   \* bound on the items that a scan finds
          NoItems     \* a record without an items field

ASSUME BridgesAssumption == MaxFound \in Nat \ {0} /\ NoItems \notin 0..MaxFound

VARIABLES
    client,    \* "awaitable" or "spiderdash", "none" before the call
    call,      \* "idle", "poll", "results", "search", "answered"
    scan,      \* the scan, elsewhere: "none", "running", "finished", "failed"
    found,     \* items that it has found
    seen,      \* the status that the client has seen last, and
    last,      \* the items of the last record that had some
    late,      \* the deadline has passed
    answer     \* what the call returned

bridgeVars == <<client, call, scan, found, seen, last, late, answer>>

(* timedOut is a field of one client; of SpiderDash's it stands for a      *)
(* status that does not say that the scan has ended.  from: "none",        *)
(* "null", "sync", "record" of the polls, "page" of results, "search" of   *)
(* earlier scans.                                                          *)
NoAnswer == [from |-> "none", items |-> NoItems, timedOut |-> FALSE, score |-> 0]
Null == [NoAnswer EXCEPT !.from = "null"]

BridgesInit ==
    /\ client = "none" /\ call = "idle" /\ scan = "none" /\ found = 0
    /\ seen = "" /\ last = NoItems /\ late = FALSE /\ answer = NoAnswer

----------------------------------------------------------------------------
(* The environment.                                                        *)

Finds == /\ scan = "running" /\ found < MaxFound
         /\ found' = found + 1
         /\ UNCHANGED <<client, call, scan, seen, last, late, answer>>

ScanEnds(how) == /\ scan = "running"
                 /\ scan' = how
                 /\ UNCHANGED <<client, call, found, seen, last, late, answer>>

Deadline == /\ call = "poll" /\ ~late
            /\ late' = TRUE
            /\ UNCHANGED <<client, call, scan, found, seen, last, answer>>

Answered(a) == call' = "answered" /\ answer' = a

----------------------------------------------------------------------------
(* runAwaitableBridge().                                                   *)

(* The start fails, or its answer has an array of items or no id and is    *)
(* returned at once, whatever the scan goes on to do: an id beside the     *)
(* items is not looked at.                                                 *)
StartAtOnce(a, s) ==
    /\ call = "idle" /\ client' = "awaitable"
    /\ scan' = s /\ found' = IF a.items = NoItems THEN 0 ELSE a.items
    /\ Answered(a)
    /\ UNCHANGED <<seen, last, late>>

StartAnswers == {Null} \cup {[NoAnswer EXCEPT !.from = "sync", !.items = n] : n \in {0, 1, NoItems}}

(* An id.  That of an error is an id too, of no scan.                      *)
StartAccepted(c, s) ==
    /\ call = "idle" /\ client' = c
    /\ call' = "poll" /\ scan' = s
    /\ UNCHANGED <<found, seen, last, late, answer>>

(* What the body of a status request may say: whether it is an HTTP error  *)
(* is not looked at, and an error may have a status of its own, or none.   *)
Said == {"", "error"} \cup
        CASE scan = "running"  -> {"running", "incomplete"}
          [] scan = "finished" -> {"finished", "done"}
          [] scan = "failed"   -> {"failed"}
          [] OTHER             -> {}

(* Statuses are matched by the words that they contain: "incomplete" has   *)
(* "complete" in it.  (Mutant: whatever has a status has ended.)           *)
TerminalIfAny(status) == status # ""
IsTerminal(status) == status \in {"finished", "done", "failed", "error", "incomplete"}
IsSuccess(status) == status \in {"finished", "done", "incomplete"}

(* The records a status path may give, with the items so far or without.   *)
Records == [status : Said, items : {found, NoItems}]

MergedItems(record) == IF record.items = NoItems THEN last ELSE record.items

(* The first path that gives a record decides the poll.                    *)
Poll(record) ==
    LET ended == IsTerminal(record.status)
        failed == ended /\ ~IsSuccess(record.status) /\ record.items # NoItems
    IN /\ client = "awaitable" /\ call = "poll"
       /\ last' = MergedItems(record)
       /\ seen' = record.status
       /\ IF failed THEN Answered([NoAnswer EXCEPT !.from = "record", !.items = last'])
          ELSE call' = (IF ended THEN "results" ELSE "poll") /\ UNCHANGED answer
       /\ UNCHANGED <<client, scan, found, late>>

(* The first results path that gives a record is taken, an error's too,    *)
(* whether or not it has items; without them those of the last record are  *)
(* the answer's.                                                           *)
Results(page) ==
    /\ client = "awaitable" /\ call = "results"
    /\ Answered([NoAnswer EXCEPT !.from = IF page.ok /\ page.items # NoItems THEN "page" ELSE "record",
                                 !.items = IF page.ok /\ page.items # NoItems THEN page.items ELSE last])
    /\ UNCHANGED <<client, scan, found, seen, last, late>>

Pages == [ok : BOOLEAN, items : {found, NoItems}]

TimeOut ==
    /\ client = "awaitable" /\ call = "poll" /\ late
    /\ Answered([NoAnswer EXCEPT !.from = "record", !.items = last, !.timedOut = TRUE])
    /\ UNCHANGED <<client, scan, found, seen, last, late>>

----------------------------------------------------------------------------
(* runSpiderdashWhoScan().                                                 *)

(* Without a scan id: the older contract, or the search of earlier scans.  *)
DashAtOnce(a) ==
    /\ call = "idle" /\ client' = "spiderdash"
    /\ Answered(a)
    /\ UNCHANGED <<scan, found, seen, last, late>>

SearchAnswers == {Null, [NoAnswer EXCEPT !.from = "search", !.items = 1, !.score = 65]}

(* A poll that fails has the status "".  This client does not take "done"  *)
(* for an end.                                                             *)
DashTerminal(status) == IsTerminal(status) /\ status # "done"

DashPoll(status) ==
    /\ client = "spiderdash" /\ call = "poll"
    /\ seen' = status
    /\ call' = IF DashTerminal(status) THEN "results" ELSE "poll"
    /\ UNCHANGED <<client, scan, found, last, late, answer>>

(* After the deadline too the results that there are are asked for.        *)
DashLate ==
    /\ client = "spiderdash" /\ call = "poll" /\ late
    /\ call' = "results"
    /\ UNCHANGED <<client, scan, found, seen, last, late, answer>>

DashResults(rows) ==
    /\ client = "spiderdash" /\ call = "results"
    /\ IF rows = 0 THEN call' = "search" /\ UNCHANGED answer
       ELSE Answered([NoAnswer EXCEPT !.from = "page", !.items = rows, !.timedOut = ~DashTerminal(seen),
                                      !.score = IF seen = "finished" THEN 72 ELSE 55])
    /\ UNCHANGED <<client, scan, found, seen, last, late>>

DashSearch(a) ==
    /\ client = "spiderdash" /\ call = "search"
    /\ Answered(IF a = Null THEN [NoAnswer EXCEPT !.from = "page", !.items = 0, !.timedOut = ~DashTerminal(seen)]
                ELSE a)
    /\ UNCHANGED <<client, scan, found, seen, last, late>>

----------------------------------------------------------------------------
BridgesNext ==
    \/ Finds \/ (\E how \in {"finished", "failed"} : ScanEnds(how)) \/ Deadline
    \/ \E a \in StartAnswers, s \in {"none", "running", "finished"} : StartAtOnce(a, s)
    \/ \E c \in {"awaitable", "spiderdash"}, s \in {"none", "running"} : StartAccepted(c, s)
    \/ \E record \in Records : Poll(record)
    \/ (\E page \in Pages : Results(page)) \/ TimeOut
    \/ \E a \in SearchAnswers : DashAtOnce(a) \/ DashSearch(a)
    \/ (\E status \in Said : DashPoll(status)) \/ DashLate
    \/ \E rows \in {found, 0} : DashResults(rows)

BridgesSpec == BridgesInit /\ [][BridgesNext]_bridgeVars

Statuses      == {"", "running", "incomplete", "finished", "done", "failed", "error"}
Counts        == 0..MaxFound
ItemCounts    == Counts \cup {NoItems}
BridgeAnswers == [from : {"none", "null", "sync", "record", "page", "search"}, items : ItemCounts,
                  timedOut : BOOLEAN, score : {0, 55, 65, 72}]

BridgesTypeOK ==
    /\ client \in {"none", "awaitable", "spiderdash"}
    /\ call \in {"idle", "poll", "results", "search", "answered"}
    /\ scan \in {"none", "running", "finished", "failed"} /\ found \in Counts
    /\ seen \in Statuses /\ last \in ItemCounts /\ late \in {TRUE, FALSE}
    /\ answer \in BridgeAnswers

Polled == answer.from \in {"record", "page"} /\ ~answer.timedOut

(* What the clients of bridgeAwait.ts and spiderdashClient.ts keep of that *)
(* however polls, failing pages, the deadline and the scan's progress      *)
(* interleave.  Unless the last status was an error's, or one that only    *)
(* contains a final word, an answer that is not late is of a scan that had *)
(* ended, and the items of its results are all that the scan found; an     *)
(* answer that says it is late is; and evidence gets SpiderDash's score of *)
(* 72 only if the scan finished, and then all of it does.                  *)
EndsWithScan ==
    /\ Polled /\ seen \notin {"error", "incomplete"} =>
         /\ scan \in {"finished", "failed"}
         /\ answer.from = "page" => answer.items \in {found, 0}
         /\ answer.from = "page" /\ client = "awaitable" => answer.items = found
    /\ answer.score = 72 => scan = "finished" /\ answer.items = found
    /\ answer.timedOut => late

----------------------------------------------------------------------------
(* What makes EndsWithScan inductive: the scan's own last words are true   *)
(* of it from then on, since it does not begin again; a call that asks for *)
(* results has seen an end, or is late.                                    *)
EndSeen ==
    /\ seen \in {"finished", "done"} => scan = "finished"
    /\ seen = "failed" => scan = "failed"
    /\ call = "results" /\ client = "awaitable" => IsTerminal(seen)
    /\ call \in {"results", "search"} /\ client = "spiderdash" => DashTerminal(seen) \/ late
    /\ call = "idle" => seen = ""
    /\ call # "answered" => answer = NoAnswer

BridgesIInv == BridgesTypeOK /\ EndSeen /\ EndsWithScan
=======================================================================
