---------------------------- MODULE MCOsint ----------------------------
(* One instance of the parts of the OSINT package that share no state: a      *)
(* lookup, a call of a bridge, and the server with its clients.  A behaviour  *)
(* is one of theirs, the others staying as they begin.                        *)
EXTENDS Lookup, Bridges, WhoServer, TLC

(* A person with a username, and a one-word name that is a username too; a    *)
(* variant that normalisation cannot tell from that username, a domain that   *)
(* evidence mentions and a bridge reports, a phone number below the threshold *)
(* and a lead without a value.  A profile page and what a bridge crawls make  *)
(* the same hit; a mention is also what the probes may have, less surely.     *)
CONSTANTS jane, jdoe, jd, acme, tel, link, page, crawl, dump, card, bad, h1, h2, h3, h4

Is(type, value) == [type |-> type, value |-> value]
MCTypeOf == jane :> "person" @@ jdoe :> "username" @@ jd :> "username" @@ acme :> "domain" @@ tel :> "phone" @@ Undefined :> "username"
MCNormal == jane :> jane @@ jdoe :> jdoe @@ jd :> jdoe @@ acme :> acme @@ tel :> tel @@ Undefined :> Undefined
MCVariantsOf == jane :> {jd} @@ jdoe :> {} @@ jd :> {} @@ acme :> {} @@ tel :> {}
MCSeeds == {Is("person", jane), Is("person", jdoe), Is("username", jdoe), Is("username", jd), Is("domain", acme), Is("phone", tel)}
MCLeads == {Is("domain", acme), Is("domain", Undefined)}
MCConfidence == [s \in MCSeeds \cup MCLeads |-> IF s.type = "phone" THEN 55 ELSE 70]
MCQueries == {<<Is("person", jane), Is("username", jdoe)>>, <<Is("person", jdoe), Is("username", jdoe)>>}
MCItems == {link, page, crawl, dump, card, bad}
MCSourceOf == link :> "link" @@ page :> "platform" @@ crawl :> "bridge" @@ dump :> "ahmia" @@ card :> "profile" @@ bad :> "bridge"
MCEntityOf == link :> jane @@ page :> jdoe @@ crawl :> jane @@ dump :> jane @@ card :> jdoe @@ bad :> Undefined
MCScoreOf == link :> 40 @@ page :> 72 @@ crawl :> 80 @@ dump :> 60 @@ card :> 80 @@ bad :> 50
MCMentions == link :> {Is("phone", tel)} @@ page :> {} @@ crawl :> {Is("domain", acme)} @@ dump :> {} @@ card :> {} @@ bad :> {}
MCHitOf == link :> h3 @@ page :> h1 @@ crawl :> h1 @@ dump :> h2 @@ card :> h3 @@ bad :> h4
MCProbeHits == {[key |-> h2, sure |-> "possible"]}
MCFirst == [s \in DOMAIN Takes |-> IF s = "ahmia" THEN 2 ELSE 1]

(* A web shell, a caller, and one that only listens to a job's progress; an   *)
(* operator for one case besides the bootstrap operator.  What concerns the   *)
(* streams, and what concerns an operator disabled or a file edited under the *)
(* server, is explored apart from what concerns the web shell and settings.   *)
CONSTANTS ann, admin, c1, c2, web, one, two

MCPermits == ann :> {c1} @@ admin :> {c1, c2}
Streams == doc > 0 \/ \E c \in Clients : request[c].route = "events" \/ request[c].stage \in {"subscribe", "open"}
Edited == stale \/ \E o \in Operators : "disabled" \in {file[o], cache[o]}
Plain == envCase = NoCase /\ local[web] = NoCase /\ unlocked = {} /\ request[web] = NoRequest
Apart ==
    /\ request[two].route \in {"none", "events"}
    /\ Edited => Plain /\ request[two] = NoRequest /\ doc = 0 /\ request[one].own # c2 /\ ~inProcess
    /\ Streams => /\ Plain /\ ann \notin Held(file) /\ request[one].route \in {"none", "events"}
                  /\ \A c \in {one, two} : request[c].stage = "gate" => request[c].pin /\ request[c].token = admin

OsintInit == LookupInit /\ BridgesInit /\ ServerInit
OsintNext ==
    \/ BridgesInit /\ ServerInit /\ LookupNext /\ UNCHANGED <<bridgeVars, serverVars>>
    \/ LookupInit /\ ServerInit /\ BridgesNext /\ UNCHANGED <<lookupVars, serverVars>>
    \/ LookupInit /\ BridgesInit /\ ServerNext /\ Apart' /\ UNCHANGED <<lookupVars, bridgeVars>>
OsintSpec ==
    /\ OsintInit /\ [][OsintNext]_<<lookupVars, bridgeVars, serverVars>>
    /\ WF_lookupVars(LookupStep)

OsintTypeOK == LookupTypeOK /\ BridgesTypeOK /\ ServerTypeOK
=============================================================================
