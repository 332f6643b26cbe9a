------------------------------ MODULE LlmRouter ------------------------------
(****************************************************************************)
(* packages/ai-client/src/llmRouter.ts: callCheapTask asks the local Ollama *)
(* when it is available and a paid API otherwise.  Whether it is available  *)
(* is cached in a variable of the module that all callers share; the time   *)
(* kept with the answer is read before the request is sent, and callers     *)
(* that find the cache expired ask at the same time.                        *)
(****************************************************************************)
EXTENDS Naturals

CONSTANTS Callers,   \* tasks in progress at a time
          Window,    \* OLLAMA_CACHE_MS
          LastTick,  \* bound on the clock
          NoCache    \* ollamaAvailableCache = null

ASSUME WindowAssumption == Window \in Nat \ {0} /\ LastTick \in Nat
ASSUME NoCacheAssumption == NoCache \notin [value : BOOLEAN, checkedAt : Nat, seen : Nat]

VARIABLES now,       \* Date.now()
          healthy,   \* what GET /api/ollama/health would answer
          cache,     \* ollamaAvailableCache, with the time the server was seen so
          caller     \* per caller: its step, the time it read and the answer it holds

routerVars == <<now, healthy, cache, caller>>

NewCaller == [at |-> "idle", now |-> 0, value |-> FALSE, seen |-> 0, cached |-> FALSE]

RouterInit ==
    /\ now = 0
    /\ healthy = TRUE
    /\ cache = NoCache
    /\ caller = [c \in Callers |-> NewCaller]

\* After isOllamaAvailable: the local model, or the fallback.
Then(value) == IF value THEN "local" ELSE "paid"

\* isOllamaAvailable reads the clock, and the cache if it is younger than the window.
BeginTask(c) ==
    /\ caller[c].at = "idle"
    /\ caller' = [caller EXCEPT ![c] =
           IF cache # NoCache /\ now - cache.checkedAt < Window
           THEN [at |-> Then(cache.value), now |-> now, value |-> cache.value, seen |-> cache.seen, cached |-> TRUE]
           ELSE [NewCaller EXCEPT !.at = "asking", !.now = now]]
    /\ UNCHANGED <<now, healthy, cache>>

\* The health request is answered, or fails.
Health(c, ok) ==
    /\ caller[c].at = "asking"
    /\ caller' = [caller EXCEPT ![c].at = "answered", ![c].value = ok /\ healthy, ![c].seen = now]
    /\ UNCHANGED <<now, healthy, cache>>

\* The answer arrives: it replaces whatever another caller cached meanwhile.
\* (Mutant: it is dated when it arrives.)
IncorporateNow(c) ==
    /\ caller[c].at = "answered"
    /\ cache' = [value |-> caller[c].value, checkedAt |-> now, seen |-> caller[c].seen]
    /\ caller' = [caller EXCEPT ![c].at = Then(caller[c].value)]
    /\ UNCHANGED <<now, healthy>>
Incorporate(c) ==
    /\ caller[c].at = "answered"
    /\ cache' = [value |-> caller[c].value, checkedAt |-> caller[c].now, seen |-> caller[c].seen]
    /\ caller' = [caller EXCEPT ![c].at = Then(caller[c].value)]
    /\ UNCHANGED <<now, healthy>>

\* callOllama: a text, or null for an empty one and for every failure.
CallOllama(c, text) ==
    /\ caller[c].at = "local"
    /\ caller' = [caller EXCEPT ![c] = IF text THEN NewCaller ELSE [@ EXCEPT !.at = "paid"]]
    /\ UNCHANGED <<now, healthy, cache>>

\* The fallback returns or throws.
Fallback(c) ==
    /\ caller[c].at = "paid"
    /\ caller' = [caller EXCEPT ![c] = NewCaller]
    /\ UNCHANGED <<now, healthy, cache>>

ClearOllamaCache ==
    /\ cache # NoCache
    /\ cache' = NoCache
    /\ UNCHANGED <<now, healthy, caller>>

Tick == now < LastTick /\ now' = now + 1 /\ UNCHANGED <<healthy, cache, caller>>
Flip == healthy' = ~healthy /\ UNCHANGED <<now, cache, caller>>

RouterNext ==
    \/ \E c \in Callers :
        \/ BeginTask(c)
        \/ \E ok \in BOOLEAN : Health(c, ok)
        \/ Incorporate(c)
        \/ \E text \in BOOLEAN : CallOllama(c, text)
        \/ Fallback(c)
    \/ ClearOllamaCache \/ Tick \/ Flip

RouterSpec == RouterInit /\ [][RouterNext]_routerVars

----------------------------------------------------------------------------
\* Every variable keeps its type (llmRouter.ts).
Cached == [value : BOOLEAN, checkedAt : 0..LastTick, seen : 0..LastTick]
RouterTypeOK ==
    /\ now \in 0..LastTick
    /\ healthy \in BOOLEAN
    /\ cache \in Cached \cup {NoCache}
    /\ caller \in [Callers -> [at : {"idle", "asking", "answered", "local", "paid"}, now : 0..LastTick,
                               value : BOOLEAN, seen : 0..LastTick, cached : BOOLEAN]]

\* A task that relies on the cache relies on what the server was seen to be
\* less than a window before the task asked, however long the answer took to
\* arrive and whoever cached it (llmRouter.ts:10-29).
SeenInWindow ==
    \A c \in Callers : caller[c].cached => caller[c].now < caller[c].seen + Window

----------------------------------------------------------------------------
(* What makes it inductive: the clock was read before the server was seen.  *)
DatedBeforeSeen ==
    /\ cache # NoCache => cache.checkedAt <= cache.seen
    /\ \A c \in Callers : caller[c].at = "answered" => caller[c].now <= caller[c].seen

ReadInThePast == \A c \in Callers : caller[c].now <= now
RouterIInv == RouterTypeOK /\ SeenInWindow /\ DatedBeforeSeen /\ ReadInThePast
=============================================================================
