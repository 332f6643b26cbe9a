------------------------------ MODULE AIClients ------------------------------
(****************************************************************************)
(* @ocrowley/ai-client: the AIOrchestrator, which asks its providers one    *)
(* after the other until one completes the request, the OllamaClient, whose *)
(* answers arrive as a stream of JSON lines cut into chunks at any place,   *)
(* and the four cloud providers, which answer in one piece.                 *)
(*                                                                          *)
(* A call is a promise of AIOrchestrator.generate, or of the OllamaClient's *)
(* own streamGenerate or chat.  Each fetch is a step, since models can be   *)
(* pulled or removed between two of them.  A stream has one line per piece  *)
(* of text and a last line without any; a line is LineLength tokens, the    *)
(* last of them its newline, so that a chunk may end within a line as well  *)
(* as between lines.                                                        *)
(****************************************************************************)
EXTENDS Sequences, Integers

CONSTANTS Calls,     \* calls in progress at a time
          Models,    \* models that may be installed
          Wanted,    \* the model asked for: req.model ?? config.ollamaModel
          Tagged,    \* models whose name starts with `${Wanted}:`
          Keyed,     \* cloud providers whose API key is configured
          Pieces,    \* pieces of text
          Texts,     \* texts a provider gives, as sequences of pieces
          LineLength, \* tokens of a line of the stream
          NoModel    \* before a model is resolved

Clouds == {"gemini", "grok", "openai", "anthropic"}

ASSUME TextsAssumption == Texts \subseteq Seq(Pieces)
ASSUME LineAssumption == LineLength \in Nat \ {0}
ASSUME ModelsAssumption == Tagged \subseteq Models /\ NoModel \notin Models
ASSUME KeyedAssumption == Keyed \subseteq Clouds

VARIABLES models,    \* what GET /api/tags lists, in order
          call       \* per call: what it waits for and what it has so far

clientsVars == <<models, call>>

\* The order of the constructor; with preferLocal unset a stable sort moves
\* the only local provider to the end.
Providers(preferLocal) ==
    IF preferLocal THEN <<"ollama", "gemini", "grok", "openai", "anthropic">>
                   ELSE <<"gemini", "grok", "openai", "anthropic", "ollama">>

NewCall == [op |-> "none", preferLocal |-> TRUE, at |-> "idle", turn |-> 1, model |-> NoModel,
            sent |-> <<>>, received |-> 0, parsed |-> 0, text |-> <<>>, shown |-> <<>>]

Provider(c) == Providers(call[c].preferLocal)[call[c].turn]

\* A provider was not configured, or threw: generate tries the next one, and
\* throws NoProviderAvailableError after the last; streamGenerate and chat throw.
Failed(c) ==
    IF call[c].op # "generate" \/ call[c].turn = 5
    THEN [call[c] EXCEPT !.at = "threw", !.text = <<>>]
    ELSE [call[c] EXCEPT !.at = "configured", !.turn = @ + 1, !.model = NoModel, !.sent = <<>>,
                         !.received = 0, !.parsed = 0, !.text = <<>>]

Listed == {models[i] : i \in DOMAIN models}

\* resolveModel: the model asked for, else the first that it tags, else the first.
FirstIn(S) == models[CHOOSE i \in DOMAIN models : models[i] \in S /\ \A j \in 1..(i - 1) : models[j] \notin S]
ResolveModel ==
    IF Wanted \in Listed THEN Wanted
    ELSE IF Listed \cap Tagged # {} THEN FirstIn(Tagged)
    ELSE models[1]

(* readStream: the tokens before `parsed' are dealt with, the buffer holds    *)
(* those from there to `received'.                                            *)
StreamLength(answer) == LineLength * (Len(answer) + 1)

\* buffer.split('\n'): what follows the last newline stays in the buffer.
\* (Mutant: it is dropped.)
AfterLastNewlineDropped(parsed, received) == received
AfterLastNewline(parsed, received) ==
    LET newline == LineLength * (received \div LineLength)
    IN  IF newline > parsed THEN newline ELSE parsed

\* The responses of the lines that are whole; what is left of a line whose
\* beginning is lost does not parse and is skipped.
Responses(answer, parsed, received) ==
    LET first == ((parsed + LineLength - 1) \div LineLength) + 1
        last  == received \div LineLength
    IN  SubSeq(answer, first, IF last < Len(answer) THEN last ELSE Len(answer))

----------------------------------------------------------------------------
ClientsInit ==
    /\ models = <<>>
    /\ call = [c \in Calls |-> NewCall]

\* generate(request, preferLocal), streamGenerate(req, onChunk), chat(messages).
Begin(c, op, preferLocal) ==
    /\ call[c].at = "idle"
    /\ op # "generate" => preferLocal
    /\ call' = [call EXCEPT ![c] = [NewCall EXCEPT !.op = op, !.preferLocal = preferLocal,
                                        !.at = IF op = "generate" THEN "configured" ELSE "resolve"]]
    /\ UNCHANGED models

\* isConfigured: of Ollama, a list with at least one model; of a cloud provider, its key.
Configured(c, answered) ==
    IF Provider(c) = "ollama" THEN answered /\ models # <<>> ELSE Provider(c) \in Keyed

IsConfigured(c, answered) ==
    /\ call[c].at = "configured"
    /\ call' = [call EXCEPT ![c] =
           IF Configured(c, answered)
           THEN [@ EXCEPT !.at = IF Provider(c) = "ollama" THEN "resolve" ELSE "cloud"]
           ELSE Failed(c)]
    /\ UNCHANGED models

\* The client lists the models again to choose one.
Resolve(c, answered) ==
    /\ call[c].at = "resolve"
    /\ call' = [call EXCEPT ![c] =
           IF answered /\ models # <<>>
           THEN [@ EXCEPT !.at = "post", !.model = ResolveModel]
           ELSE Failed(c)]
    /\ UNCHANGED models

\* POST /api/generate or /api/chat: the headers, within thirty seconds; not ok
\* when the model is gone.
Post(c, answered, answer) ==
    /\ call[c].at = "post"
    /\ call' = [call EXCEPT ![c] =
           IF ~answered \/ call[c].model \notin Listed THEN Failed(c)
           ELSE IF call[c].op = "chat"
           THEN [@ EXCEPT !.at = "done", !.sent = answer, !.text = answer]
           ELSE [@ EXCEPT !.at = "read", !.sent = answer]]
    /\ UNCHANGED models

\* reader.read() gives the next bytes: the complete lines are parsed, and each
\* response is added to the text and, in streamGenerate, passed to onChunk.
ReadChunk(c, size) ==
    /\ call[c].at = "read"
    /\ LET old       == call[c]
           received  == old.received + size
           responses == Responses(old.sent, old.parsed, received)
       IN  /\ received <= StreamLength(old.sent)
           /\ call' = [call EXCEPT ![c] =
                  [old EXCEPT !.received = received,
                              !.parsed = AfterLastNewline(old.parsed, received),
                              !.text = old.text \o responses,
                              !.shown = IF old.op = "stream" THEN old.shown \o responses ELSE old.shown]]
    /\ UNCHANGED models

\* reader.read() is done.
ReadDone(c) ==
    /\ call[c].at = "read" /\ call[c].received = StreamLength(call[c].sent)
    /\ call' = [call EXCEPT ![c].at = "done"]
    /\ UNCHANGED models

\* The connection breaks within the stream: readStream throws.
ReadFails(c) ==
    /\ call[c].at = "read"
    /\ call' = [call EXCEPT ![c] = Failed(c)]
    /\ UNCHANGED models

\* geminiGenerate, grokGenerate, openaiGenerate, anthropicGenerate: one fetch
\* without a timeout, whose answer has the text in one piece.
CloudAnswers(c, answer) ==
    /\ call[c].at = "cloud"
    /\ call' = [call EXCEPT ![c] = [@ EXCEPT !.at = "done", !.sent = answer, !.text = answer]]
    /\ UNCHANGED models

\* The fetch fails, or its status is not ok.
CloudFails(c) ==
    /\ call[c].at = "cloud"
    /\ call' = [call EXCEPT ![c] = Failed(c)]
    /\ UNCHANGED models

Return(c) ==
    /\ call[c].at \in {"done", "threw"}
    /\ call' = [call EXCEPT ![c] = NewCall]
    /\ UNCHANGED models

\* Somebody pulls a model, or removes one.
Pull(m) ==
    /\ m \notin Listed
    /\ models' = <<m>> \o models
    /\ UNCHANGED call
RemoveModel(i) ==
    /\ models' = SubSeq(models, 1, i - 1) \o SubSeq(models, i + 1, Len(models))
    /\ UNCHANGED call

ClientsNext ==
    \/ \E c \in Calls :
        \/ \E op \in {"generate", "stream", "chat"}, preferLocal \in BOOLEAN : Begin(c, op, preferLocal)
        \/ \E answered \in BOOLEAN : IsConfigured(c, answered) \/ Resolve(c, answered)
        \/ \E answered \in BOOLEAN, answer \in Texts : Post(c, answered, answer)
        \/ \E answer \in Texts : CloudAnswers(c, answer)
        \/ CloudFails(c)
        \/ \E size \in 1..StreamLength(call[c].sent) : ReadChunk(c, size)
        \/ ReadDone(c)
        \/ ReadFails(c)
        \/ Return(c)
    \/ \E m \in Models : Pull(m)
    \/ \E i \in DOMAIN models : RemoveModel(i)

ClientsSpec == ClientsInit /\ [][ClientsNext]_clientsVars

----------------------------------------------------------------------------
\* Every variable keeps its type (AIOrchestrator.ts, OllamaClient.ts).
Call == [op : {"none", "generate", "stream", "chat"}, preferLocal : BOOLEAN,
         at : {"idle", "configured", "resolve", "post", "read", "cloud", "done", "threw"},
         turn : 1..5, model : Models \cup {NoModel}, sent : Seq(Pieces), received : Nat,
         parsed : Nat, text : Seq(Pieces), shown : Seq(Pieces)]
ClientsTypeOK == models \in Seq(Models) /\ call \in [Calls -> Call]

\* A call that returns gives the text its provider wrote, whole and in order,
\* wherever the chunks were cut, whichever providers failed before and however
\* far their streams had come; what streamGenerate passed to onChunk is the
\* text it returns (AIOrchestrator.ts:93-119, OllamaClient.ts:189-227).
AnswerIsWhole ==
    \A c \in Calls : call[c].at = "done" =>
        /\ call[c].text = call[c].sent
        /\ call[c].op = "stream" => call[c].shown = call[c].text

----------------------------------------------------------------------------
(* What makes it inductive: the buffer begins where a line begins and is      *)
(* shorter than a line, and the text is the responses of the lines before it. *)
BufferIsPartOfALine ==
    \A c \in Calls : call[c].at = "read" =>
        LET lines == call[c].received \div LineLength IN
        /\ call[c].received <= StreamLength(call[c].sent)
        /\ call[c].parsed = LineLength * lines
        /\ call[c].text = SubSeq(call[c].sent, 1, IF lines < Len(call[c].sent) THEN lines ELSE Len(call[c].sent))
        /\ call[c].op = "stream" => call[c].shown = call[c].text

NothingReadYet ==
    \A c \in Calls : call[c].at \notin {"read", "done", "threw"} =>
        call[c].text = <<>> /\ call[c].shown = <<>> /\ call[c].received = 0 /\ call[c].parsed = 0

\* Only generate goes on to a cloud provider, and it passes nothing to onChunk.
CloudsAreForGenerate ==
    \A c \in Calls : /\ call[c].op # "generate" => call[c].preferLocal /\ call[c].turn = 1
                     /\ call[c].at = "cloud" => call[c].op = "generate"
                     /\ call[c].op = "generate" => call[c].shown = <<>>
                     /\ call[c].op = "none" <=> call[c].at = "idle"
ClientsIInv == ClientsTypeOK /\ AnswerIsWhole /\ BufferIsPartOfALine /\ NothingReadYet /\ CloudsAreForGenerate
=============================================================================
