---------------------------- MODULE WhoServer ----------------------------
(***************************************************************************)
(* The WHO server: its start with the operator file, which may be edited   *)
(* by hand or not be readable, the way of a request                        *)
(* through PIN, operator and case, the settings it keeps in its process,   *)
(* the streams of a job's progress, and the web shell (web/app.js) as one  *)
(* of its clients.  A handler runs in steps between which other handlers,  *)
(* the worker and the user go on: the gate, the rest once the body is      *)
(* read, and for a stream the subscription.  What the handlers of jobs and *)
(* dossiers do to their files is modelled in CaspaJobs, WhoWorker and      *)
(* Dossiers.                                                               *)
(***************************************************************************)
EXTENDS Naturals, FiniteSets

CONSTANTS
    Clients, Shells,     \* callers, and those that are web shells
    Cases, NoCase,
    Operators, Admin,    \* ids in the operator file; the bootstrap operator's
    NoOperator,
    Givens,              \* sets of operators that the environment may give
    Permits,             \* [Operators -> SUBSET Cases]
    AuthModes,           \* of "pin", "operators" and "pin+operators"
    Routes,              \* routes that are asked for
    MaxVersion           \* writes of the job's document until it has ended

(* Routes that need a case, that check it for the operator, that need a    *)
(* query, and that may find nothing.                                       *)
CaseRoutes  == {"jobs", "who", "entity", "dossier"}
AclRoutes   == CaseRoutes \cup {"entities", "dossiers"}
QueryRoutes == {"jobs", "who"}
ItemRoutes  == {"job", "events", "retry", "cancel", "entity", "dossier", "archive"}
OpenRoutes  == {"health", "unlock"}
PlainRoutes == {"me", "settings", "put", "tools", "audit", "joblist"}

ASSUME ServerAssumption ==
    /\ Shells \subseteq Clients /\ NoCase \notin Cases /\ NoOperator \notin Operators
    /\ Admin \in Operators /\ Givens \subseteq SUBSET Operators /\ Permits \in [Operators -> SUBSET Cases]
    /\ Routes \subseteq AclRoutes \cup ItemRoutes \cup OpenRoutes \cup PlainRoutes
    /\ MaxVersion \in Nat \ {0}

VARIABLES
    authMode,   \* OCROWLEY_WHO_AUTH
    boot,       \* "down", "merge", "boot", "create", "listen", "up"
    file,       \* who-operators.json: operator -> "none", "enabled" or "disabled"
    cache,      \* the same of the process
    stale,      \* history: the file is not what the process last read or wrote
    envCase,    \* the case of the server's settings
    request,    \* client -> its request
    local,      \* shell -> the case of its own settings
    unlocked,   \* shells that are unlocked
    doc,        \* version of the job's document
    published,  \* version that was published last
    inProcess,  \* the job's worker runs in the server's process
    channel     \* clients subscribed to the job

startVars == <<authMode, boot, file, cache, stale>>
jobVars == <<doc, published, inProcess>>
serverVars == <<startVars, envCase, request, local, unlocked, jobVars, channel>>

(* stage: "none", "gate", "handle", "subscribe", "open" or "done".  own is *)
(* the case that the request names, case the one it was handled under; envs*)
(* are, if it names none, the server's cases since it came.  view is the   *)
(* version a stream has told last, since the one published when it         *)
(* subscribed.                                                             *)
NoRequest == [stage |-> "none", route |-> "none", pin |-> FALSE, token |-> NoOperator, own |-> NoCase,
              operator |-> NoOperator, case |-> NoCase, envs |-> {}, status |-> 0, view |-> 0, since |-> 0]

Kinds == {"none", "enabled", "disabled"}
Nobody == [o \in Operators |-> "none"]
Held(f) == {o \in Operators : f[o] # "none"}
Enabled(f) == {o \in Operators : f[o] = "enabled"}

OperatorsRequired == authMode \in {"operators", "pin+operators"}
PinRequired == authMode \in {"pin", "pin+operators"}

ServerInit ==
    /\ authMode \in AuthModes
    /\ boot = "down" /\ file = Nobody /\ cache = Nobody /\ stale = FALSE
    /\ envCase = NoCase
    /\ request = [c \in Clients |-> NoRequest]
    /\ local = [s \in Shells |-> NoCase] /\ unlocked = {}
    /\ doc = 0 /\ published = 0 /\ inProcess \in BOOLEAN /\ channel = {}

----------------------------------------------------------------------------
(* The start.                                                              *)

startRest == <<envCase, request, local, unlocked, jobVars, channel>>

(* The file is edited by hand, at any time: operators are added, removed,  *)
(* disabled or enabled again.                                              *)
EditFile(edited) ==
    /\ edited # file
    /\ file' = edited
    /\ stale' = (boot # "down")
    /\ UNCHANGED <<authMode, boot, cache, startRest>>

(* loadOperators(true): a file that is missing, cannot be read or is not   *)
(* JSON is a list without operators.                                       *)
Read(whole) == IF whole THEN file ELSE Nobody
Loads(whole) == stale' = (Read(whole) # file)

(* mergeEnvOperators(): nothing without operators of the environment; else *)
(* they are added to what is read, one that is disabled staying so.        *)
SkipMerge ==
    /\ boot = "down" /\ boot' = "boot"
    /\ UNCHANGED <<authMode, file, cache, stale, startRest>>

LoadForMerge(given, whole) ==
    /\ boot = "down" /\ boot' = "merge"
    /\ cache' = [o \in Operators |-> IF o \in given \ Held(Read(whole)) THEN "enabled" ELSE Read(whole)[o]]
    /\ Loads(whole)
    /\ UNCHANGED <<authMode, file, startRest>>

(* saveOperators(), by a temporary file and a rename.                      *)
Save(next) ==
    /\ file' = cache /\ stale' = FALSE
    /\ boot' = next
    /\ UNCHANGED <<authMode, cache, startRest>>

SaveMerged == boot = "merge" /\ Save("boot")

(* ensureBootstrapOperator(): an operator is created if none is read.      *)
(* (Mutant: whether or not there is one.)                                  *)
BootstrapAlways(whole) ==
    /\ boot = "boot" /\ OperatorsRequired
    /\ cache' = [Nobody EXCEPT ![Admin] = "enabled"] /\ boot' = "create"
    /\ Loads(whole)
    /\ UNCHANGED <<authMode, file, startRest>>

Bootstrap(whole) ==
    /\ boot = "boot" /\ OperatorsRequired
    /\ LET none == Held(Read(whole)) = {} IN
         /\ cache' = IF none THEN [Nobody EXCEPT ![Admin] = "enabled"] ELSE Read(whole)
         /\ boot' = IF none THEN "create" ELSE "listen"
    /\ Loads(whole)
    /\ UNCHANGED <<authMode, file, startRest>>

SkipBootstrap ==
    /\ boot = "boot" /\ ~OperatorsRequired /\ boot' = "listen"
    /\ UNCHANGED <<authMode, file, cache, stale, startRest>>

SaveCreated == boot = "create" /\ Save("listen")

Listen ==
    /\ boot = "listen"
    /\ boot' = "up"
    /\ UNCHANGED <<authMode, file, cache, stale, startRest>>

(* The process ends, at any time or because it cannot listen: its cache,   *)
(* its settings and its connections go with it.                            *)
Stop ==
    /\ boot # "down"
    /\ boot' = "down" /\ cache' = Nobody /\ stale' = FALSE /\ envCase' = NoCase
    /\ request' = [c \in Clients |-> NoRequest] /\ channel' = {}
    /\ UNCHANGED <<authMode, file, local, unlocked, jobVars>>

----------------------------------------------------------------------------
(* A request.                                                              *)

Sent(c, route, pin, token, own) ==
    /\ boot = "up" /\ request[c].stage \in {"none", "done"}
    /\ request' = [request EXCEPT ![c] =
           [NoRequest EXCEPT !.stage = "gate", !.route = route, !.pin = pin, !.token = token,
                             !.own = own, !.envs = IF own = NoCase THEN {envCase} ELSE {}]]

(* A shell waits for the answer; of others only a success is remembered.   *)
Outcome(c, status) == IF status = 200 \/ c \in Shells THEN [request[c] EXCEPT !.stage = "done", !.status = status]
                       ELSE NoRequest
Ends(c, status) == [request EXCEPT ![c] = Outcome(c, status)]

(* authorizeWhoRequest(), the case left for later: PIN, then operator.     *)
Refused(r) ==
    /\ r.route \notin OpenRoutes
    /\ \/ PinRequired /\ ~r.pin
       \/ OperatorsRequired /\ r.token \notin Enabled(cache)

Gate(c) ==
    /\ request[c].stage = "gate"
    /\ request' = IF Refused(request[c]) THEN Ends(c, 401)
                  ELSE [request EXCEPT ![c].stage = "handle", ![c].token = NoOperator,
                                       ![c].operator = IF OperatorsRequired /\ request[c].route \notin OpenRoutes
                                                       THEN request[c].token ELSE NoOperator]
    /\ UNCHANGED <<startVars, envCase, local, unlocked, jobVars, channel>>

(* resolveCaseRef(): the request's case, else the server's of now.         *)
(* (Mutant: the server's comes first.)                                     *)
ServersCase(r) == IF envCase # NoCase THEN envCase ELSE r.own
ResolvedCase(r) == IF r.own # NoCase THEN r.own ELSE envCase

MayAccess(operator, k) == operator = NoOperator \/ k = NoCase \/ k \in Permits[operator]

Status(r, k, query, exists) ==
    IF r.route \in CaseRoutes /\ k = NoCase THEN 401
    ELSE IF r.route \in AclRoutes /\ ~MayAccess(r.operator, k) THEN 403
    ELSE IF r.route \in QueryRoutes /\ ~query THEN 400
    ELSE IF r.route = "unlock" /\ ~r.pin THEN 401
    ELSE IF r.route \in ItemRoutes /\ ~exists THEN 404
    ELSE 200

(* The rest of the handler, once the body is read.  A stream has read the  *)
(* job's document and is about to subscribe.                               *)
Handle(c, query, exists) ==
    LET r == request[c]
        k == IF r.route \in AclRoutes THEN ResolvedCase(r) ELSE NoCase
        status == Status(r, k, query, exists)
    IN /\ r.stage = "handle" /\ r.route # "put"
       /\ request' = IF r.route = "events" /\ status = 200
                     THEN [request EXCEPT ![c] = [NoRequest EXCEPT !.stage = "subscribe", !.view = doc]]
                     ELSE [Ends(c, status) EXCEPT ![c].case = IF status = 200 THEN k ELSE NoCase]
       /\ UNCHANGED <<startVars, envCase, local, unlocked, jobVars, channel>>

(* applySettings(): the process's environment is changed at once; settings  *)
(* without a case leave it.                                                *)
PutSettings(c) ==
    /\ request[c].stage = "handle" /\ request[c].route = "put"
    /\ envCase' \in {request[c].own} \cup (IF request[c].own = NoCase THEN {envCase} ELSE {})
    /\ request' = [d \in Clients |->
           IF d = c THEN IF c \in Shells THEN Outcome(c, 200) ELSE NoRequest
           ELSE IF request[d].stage \in {"gate", "handle"} /\ request[d].own = NoCase THEN [request[d] EXCEPT !.envs = @ \cup {envCase'}]
           ELSE request[d]]
    /\ UNCHANGED <<startVars, local, unlocked, jobVars, channel>>

----------------------------------------------------------------------------
(* A job's progress.                                                       *)

(* SSEBroadcaster.subscribe().  (Mutant: a channel begins anew.)           *)
JoinedAlone(c) == {c}
Joined(c) == channel \cup {c}

(* The stream tells what was read before it was subscribed.                *)
Subscribe(c) ==
    /\ request[c].stage = "subscribe"
    /\ request' = [request EXCEPT ![c].stage = "open", ![c].since = published]
    /\ channel' = Joined(c)
    /\ UNCHANGED <<startVars, envCase, local, unlocked, jobVars>>

Close(c) ==
    /\ request[c].stage = "open"
    /\ request' = [request EXCEPT ![c] = NoRequest]
    /\ channel' = channel \ {c}
    /\ UNCHANGED <<startVars, envCase, local, unlocked, jobVars>>

(* The worker writes the document and then publishes what it wrote, to the *)
(* streams of its own process only.                                        *)
WriteJob ==
    /\ doc < MaxVersion /\ published = doc
    /\ doc' = doc + 1
    /\ UNCHANGED <<startVars, envCase, request, local, unlocked, published, inProcess, channel>>

Publish ==
    /\ published < doc
    /\ published' = doc
    /\ request' = [c \in Clients |-> IF inProcess /\ c \in channel THEN [request[c] EXCEPT !.view = doc]
                                     ELSE request[c]]
    /\ UNCHANGED <<startVars, envCase, local, unlocked, doc, inProcess, channel>>

----------------------------------------------------------------------------
(* The clients: any program, and the web shell.                            *)

Call(c, route, pin, token, own) ==
    /\ c \notin Shells
    /\ Sent(c, route, pin, token, own)
    /\ UNCHANGED <<startVars, envCase, local, unlocked, jobVars, channel>>

(* tryUnlock().                                                            *)
Unlock(s, pin) ==
    /\ s \notin unlocked
    /\ Sent(s, "unlock", pin, NoOperator, local[s])
    /\ UNCHANGED <<startVars, envCase, local, unlocked, jobVars, channel>>

(* A lookup needs a case of the shell's own and sends it along.  The PIN   *)
(* of the session may no longer be that of the server.                     *)
Submit(s, pin) ==
    /\ s \in unlocked /\ local[s] # NoCase
    /\ Sent(s, "who", pin, NoOperator, local[s])
    /\ UNCHANGED <<startVars, envCase, local, unlocked, jobVars, channel>>

(* Settings are kept in the browser first and then sent.                   *)
SaveSettings(s, pin, k) ==
    /\ s \in unlocked
    /\ local' = [local EXCEPT ![s] = k]
    /\ Sent(s, "put", pin, NoOperator, k)
    /\ UNCHANGED <<startVars, envCase, unlocked, jobVars, channel>>

(* The answer: an unlocking succeeds; a refused PIN locks the shell.       *)
Receive(s) ==
    /\ request[s].stage = "done"
    /\ unlocked' = IF request[s].route = "unlock"
                   THEN IF request[s].status = 200 THEN unlocked \cup {s} ELSE unlocked
                   ELSE IF PinRequired /\ ~request[s].pin THEN unlocked \ {s} ELSE unlocked
    /\ request' = [request EXCEPT ![s] = NoRequest]
    /\ UNCHANGED <<startVars, envCase, local, jobVars, channel>>

LockShell(s) ==
    /\ s \in unlocked
    /\ unlocked' = unlocked \ {s}
    /\ UNCHANGED <<startVars, envCase, request, local, jobVars, channel>>

ServerNext ==
    \/ (\E edited \in [Operators -> Kinds] : EditFile(edited))
    \/ SkipMerge \/ (\E given \in Givens, whole \in BOOLEAN : LoadForMerge(given, whole)) \/ SaveMerged
    \/ SkipBootstrap \/ (\E whole \in BOOLEAN : Bootstrap(whole)) \/ SaveCreated
    \/ Listen \/ Stop \/ WriteJob \/ Publish
    \/ \E c \in Clients :
         \/ Gate(c) \/ (\E query, exists \in BOOLEAN : Handle(c, query, exists)) \/ PutSettings(c)
         \/ Subscribe(c) \/ Close(c)
         \/ \E route \in Routes, pin \in BOOLEAN, token \in Operators \cup {NoOperator},
               own \in Cases \cup {NoCase} : (route \in AclRoutes \cup {"put"} \/ own = NoCase) /\ Call(c, route, pin, token, own)
    \/ \E s \in Shells :
         \/ Receive(s) \/ LockShell(s)
         \/ \E pin \in BOOLEAN : Unlock(s, pin) \/ Submit(s, pin)
         \/ \E pin \in BOOLEAN, k \in Cases \cup {NoCase} : SaveSettings(s, pin, k)

ServerSpec == ServerInit /\ [][ServerNext]_serverVars

----------------------------------------------------------------------------
(* Properties.                                                             *)

Requests ==
    [stage : {"none", "gate", "handle", "subscribe", "open", "done"}, route : Routes \cup {"none", "unlock", "who", "put"},
     pin : BOOLEAN, token : Operators \cup {NoOperator}, own : Cases \cup {NoCase},
     operator : Operators \cup {NoOperator}, case : Cases \cup {NoCase}, envs : SUBSET (Cases \cup {NoCase}),
     status : {0, 200, 400, 401, 403, 404}, view : 0..MaxVersion, since : 0..MaxVersion]

ServerTypeOK ==
    /\ authMode \in AuthModes /\ boot \in {"down", "merge", "boot", "create", "listen", "up"}
    /\ file \in [Operators -> Kinds] /\ cache \in [Operators -> Kinds] /\ stale \in BOOLEAN
    /\ envCase \in Cases \cup {NoCase}
    /\ request \in [Clients -> Requests]
    /\ local \in [Shells -> Cases \cup {NoCase}] /\ unlocked \subseteq Shells
    /\ doc \in 0..MaxVersion /\ published \in 0..doc /\ inProcess \in BOOLEAN
    /\ channel \subseteq Clients

(* A request that succeeds was handled under the case it names, and under  *)
(* a case of the server's only if it names none and that was the server's  *)
(* at some time since it came, whatever settings others save meanwhile     *)
(* (httpApi.ts:244); its operator may access that case.                    *)
CaseHeld ==
    \A c \in Clients : LET r == request[c] IN
        r.stage = "done" /\ r.status = 200 /\ r.route \in AclRoutes =>
            /\ r.case \in IF r.own # NoCase THEN {r.own} ELSE r.envs
            /\ OperatorsRequired /\ r.case # NoCase => r.case \in Permits[r.operator]

(* A stream of the worker's own process never stays behind: what it told   *)
(* last is at least what was published last, or nothing was published      *)
(* since it subscribed (SSEBroadcaster.ts:20, httpApi.ts:625).             *)
StreamKeepsUp ==
    inProcess => \A c \in Clients : request[c].stage = "open" =>
        request[c].view >= published \/ published = request[c].since

(* A start of the server loses no operator of the file, nor enables one    *)
(* that was disabled, and a request is only ever taken for an operator that*)
(* the file has enabled: save if the file could not be read, or was edited *)
(* by hand since it was (whoOperators.ts:80, 102, 179).                    *)
OperatorsKept ==
    [][/\ boot' # boot /\ ~stale => \A o \in Held(file) : file'[o] = file[o]
       /\ \A c \in Clients : request'[c].operator # NoOperator /\ ~stale' =>
            request'[c].operator \in Enabled(file')]_serverVars

----------------------------------------------------------------------------
(* What makes them inductive.  A server whose file was read and not edited *)
(* since has the file's operators in its cache before it saves it and no   *)
(* others afterwards; there are requests only of a server that is up; one  *)
(* that waits for its handler remembers the server's case of now; and an   *)
(* open stream is subscribed.                                              *)
CacheAndFile ==
    /\ boot \in {"merge", "create"} /\ ~stale => \A o \in Held(file) : cache[o] = file[o]
    /\ boot \in {"listen", "up"} /\ OperatorsRequired /\ ~stale => cache = file

RequestHeld(c) ==
    /\ boot # "up" => request[c].stage = "none" /\ request[c].operator = NoOperator
    /\ request[c].operator # NoOperator => OperatorsRequired /\ request[c].operator \in Enabled(cache)
    /\ request[c].stage \in {"gate", "handle"} /\ request[c].own = NoCase => envCase \in request[c].envs
    /\ request[c].stage = "handle" /\ request[c].route \notin OpenRoutes /\ OperatorsRequired =>
         request[c].operator \in Operators
    /\ request[c].stage = "open" => c \in channel

ServerIInv == ServerTypeOK /\ CaseHeld /\ StreamKeepsUp /\ CacheAndFile /\ \A c \in Clients : RequestHeld(c)
============================================================================
