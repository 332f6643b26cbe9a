# TLA+ verification of ocrowley-commons

TLA+ specifications of the stateful core of this repository, the TLC
configurations that check them on small instances and TLAPS proofs about them.
Paths below are relative to the repository root. `PROJECT.json` holds the same
information in machine-readable form: components, runs, the source lines of
every definition (`map`), a plausible bug per property (`mutants`), the
disagreements found (`findings`), the hazards and the theorems.

    tlc -workers 2 -config Records_one.cfg MCRecords.tla    # one run
    tlapm RecordsProofs.tla                                   # one module's proofs

## 1. Inventory

The repository is a TypeScript monorepo of libraries (`packages/*`), a WHO
look-up server built from them (`packages/osint`), and a set of Python agent
packages (`python/*`). What keeps state is listed here with its operations, what
it interacts with, what is hard about it and what makes it correct.

| Component | State | Operations | Interacts with | Hard behaviour | Correct when |
|---|---|---|---|---|---|
| **JSON file store** `packages/persistence/src/fileStore.ts` | files and `<file>.tmp` in a data directory | `readJsonFile`, `writeJsonFile`, `deleteJsonFile`, `listJsonFiles` | everything durable goes through it | system calls of several callers interleave, a process dies in the middle, all writers of a file share one temporary | a reader sees a whole document, an acknowledged write is stored, no spurious error |
| **Audit ledger** `packages/audit/src/index.ts` | list of entries, each with the hash of the one before | `append`, `verify` | copied into the WHO audit chain | tampering at any place | every change is reported, at the right entry |
| **WHO audit chain** `packages/osint/src/audit/whoAudit.ts` | `chain.json`, a shard file per entry | `appendWhoAudit`, `verifyWhoAudit`, list | worker, HTTP handlers; file store | read-extend-write of the whole file without a lock, crash between file and shard; what was hashed in memory is not all in the JSON | entries link and are what was signed, as far as JSON keeps it; entries handed out are kept |
| **Durable jobs** `packages/jobs/src/CaspaJobService.ts` | one document per job: status, stages, lease, retry count | create, start/complete stage, complete, fail, cancel, retry, claim with lease, heartbeat, recover | WHO worker and HTTP handlers; file store | every method is read–await–write without a lock; leases expire under live workers; stale documents are written back | documents stay coherent; jobs end; a cancel holds |
| **WHO worker, job handlers** `packages/osint/src/jobs/` | a worker's place in the loop and its stages | poll, process a job through four stages, fail; enqueue, cancel, retry | jobs, dossiers, audit chain, SSE, `who()` | crash and restart, exceptions at any await, cancel while a stage runs, second attempt while the first still writes | a result has its dossier and audit trail; one dossier per attempt; every job ends |
| **Dossiers and entity index** `packages/osint/src/dossier/` | dossier files, one index document per entity | `writeDossier`, `upsertEntityIndex`, reads | worker, HTTP API | time-derived ids collide, index is read–extend–write, crash between dossier and index | index pointers resolve, no duplicates, latest is the latest |
| **Agent orchestration** `python/ocrowley_agents/` | dispatcher's queues, `_in_progress`, `_completed`, DLQ; agents' status; state manager's records; callbacks | dispatch, assign, start, complete, fail, cancel, veto, clear, monitor loop | application threads, monitor thread | each object has its own lock, the coordinator has none; time-outs race with answers; tasks fail twice; a task is refused after it was dequeued | a task is lost only by a refusal and is where its state says; a veto holds |
| **Approval gates** `python/ocrowley_policy/…/approval_gate.py` | a chain per task: gates, status, violations, audit trail | create, pass, approve, reject, violate, escalate, block | whoever executes a task | operations in any order, each keeping the status up to date | only an approved task is cleared; the trail tells the state |
| **SSE progress** `packages/jobs/src/SSEBroadcaster.ts`, `whoProgress.ts` | subscribers per job | subscribe, publish, close | worker, HTTP server | snapshot read before the subscription; a worker in another process | a stream is never behind what its process publishes after it subscribed |
| **HTTP API, operator authentication** `packages/osint/src/httpApi.ts`, `auth/` | operator file and its cache, the process's settings, requests in progress | start, authorize, handle, change settings, stop | job service, dossiers, streams, web shell | settings change between a request's gate and its handler; the operator file is saved at every start, which may be cut short or fail to read it, and is edited by hand | a request is handled under a case it may use; a start loses no operator that it could read |
| Policies `packages/policy`, `osint/src/policy.ts`, `darkweb/src/policy.ts` | rules | evaluate | worker, API | order of rules | default deny, deny overrides |
| **`who()` and its loops** `who.ts`, `people.ts`, `toolkit.ts`, `refinementLoop.ts`, `critiqueLoop.ts`, `recursiveEngine.ts`, `whoArchive.ts` | seeds, evidence store, scores, the archive | probe, sweep, critique, enrich, merge, archive | sources, bridges, worker, HTTP API | two concurrent halves, one of which may throw; several bounds reached together; sources that are asked about the first so many seeds only; hits that are deduplicated | every lookup is answered; the stop reason is true; nothing that was gathered is missing from the report |
| **Bridges** `bridgeAwait.ts`, `spiderdash*` | a remote scan | start, poll, fetch results, time out | external services | polls fail, or are answered by errors with a status, while the scan goes on; late answers | once a record says that the scan has ended, the results are all of it |
| **AI clients** `packages/ai-client` | a call's provider, model, text and buffer; the router's cache of Ollama's availability | generate with fail-over, stream, chat; route a cheap task, clear the cache | providers over the network | a stream breaks half-way and the next provider begins; lines cut by chunks; models come and go between two fetches; callers share one cache | a text that is returned is whole; what the cache says is recent |
| **Operator service, task policy** `python/ocrowley_operator`, `task_policy.py` | pending approvals, task log | draft, review, approve, execute | task log | answers and modes in any order | one decision per task, no execution without approval |
| **Agent memory** `python/ocrowley_memory` | store of values with lifetimes; contexts, histories | store, recall, forget, clean up, dump, restore | agents' threads, Themis gate | expired entries are removed at any time or never; a gate, the operation it allows and the lock it waits for are steps of their own | what is recalled depends on time and operations, not on when a cleanup ran |
| Local store and cache, quality gate, dark-web monitor, planner, workflow, … | small or none | | | | |

Bold components have a module. Parsing, text analysis, encryption, export and
rendering are text or floating point: their control around the stateful parts is
in the models of those parts, the rest is not something a model checker adds to.
`PROJECT.json` lists every component with its status.

## 2. What is modelled, and how it corresponds to the code

| Module | Models | State ↔ code | Actions ↔ code |
|---|---|---|---|
| `AtomicFile` | what `fileStore.ts` promises: one atomic file | the document, each reader's last result | `Store`, `Remove`, `Read` |
| `FileStore` | `fileStore.ts` for one file | directory entries and inodes kept apart, blocks of an inode; a writer's and a reader's place | one action per system call: `OpenTmp` (truncates), `WriteBlock`, `Rename`, `Delete`, `OpenRead`, `FinishRead`; `Crash`; `Free` (external: the file system reuses an inode) |
| `AuditLedger` | `packages/audit` | `entries` | `AppendEntry`; `Valid`, `BrokenAt` are `verify`. SHA-256 is a free constructor: equal digests have equal arguments. Its payloads are those of `WhoAudit` |
| `WhoAudit` | `whoAudit.ts` | `chain`, `shards`: entries as their JSON says them (`Stored`); an appender's draft and what it `returned`: entries in memory, one of whose fields may be undefined (`Payloads`). `Appended` is the entry a stored one's hash covers | `Load`, `Save`, `WriteShard`, `Abort` |
| `CaspaJobs` | `CaspaJobService.ts` | `file`: job documents; `call`: the method a caller executes with what it has read (a claim carries the `error` of its re-read, which it writes back) | a `Begin…` per method (its first read and checks), `Fresh` and `Write` for `patch`, `ListFile`/`ClaimCheck` for the claim, `RecoverStart`/`RecoverPatch`; `Tick` |
| `WhoWorker` | `whoWorker.ts`, `whoJobService.ts`, extending `CaspaJobs` | program counter, stage and job of each worker; dossiers and audit actions counted per job | one action per awaited step of `processWhoJob`; `Throw`, `Crash`; `Enqueue`, `CancelJob`, `RetryJob` |
| `Dossiers` | `dossierStore.ts`, `entityIndex.ts` | `disk`, `index`, a worker's upsert in progress, the clock's window | `WriteDossier`, `ReadIndex`, `WriteIndex`, `AbortUpsert`, `NextWindow` |
| `Orchestrator` | `coordinator.py`, `task_dispatcher.py`, `agent_registry.py`, `state_manager.py` | the dispatcher's containers, agents' status, records, callbacks; drivers' and the monitor's place; `handedBack`: tasks that `dispatch_to_agent` refused after they were dequeued | one action per locked method called: `DispatchIssue`, `CreateRecord`, `CheckAgent` or `Refuse`, …, `Complete`, `RecordComplete`, `Free`, `CallBack`; `CheckTimeouts`, `GetTask`, `MonitorFail`, …; `Cancel`, `Veto`, `Clear` |
| `Lookup` | `who()`, `findPerson()`, the toolkit's discovery and enrichment, both loops, the archive | `probes` and `rec`: the two halves of a lookup; `known` (a sequence, in the order the seeds were found), `asked`, `gathered`, `evidence`, `scores`; `report` with who()'s hits or findPerson()'s evidence, `archive` | `Discover` is a turn of `runRefinementLoop` with the toolkit's query, `Sweep` what becomes of it: a source is asked about the first seeds of its types (`Asked`), the first sweep also has links, profiles and register entries (`Additions`), new seeds are variants and leads or else what all items mention (`Found`), and the notes about tools and duplicates count (`Keys`). `Critique` and `Improve` are a round of `runCritiqueLoop`; `SweepFails`, `SweepThrows`, `EnrichFails`, `Reject`, `MergeThrows`; `Merge` with the hits of one kind, title and url deduplicated (`Deduped`), `MergePerson`, `ArchiveResult`. What sources answer is any subset of what they may find |
| `Bridges` | `bridgeAwait.ts`, `spiderdashClient.ts` | a call of either client, the scan elsewhere | `StartAtOnce`, `StartAccepted`, `Poll` (of a record whose status the scan, or an HTTP error, `Said`), `Results`, `TimeOut`; `DashPoll`, `DashLate`, `DashResults`, `DashSearch`; the scan's `Finds`, `ScanEnds` (external) |
| `WhoServer` | `httpApi.ts`, `auth/`, `SSEBroadcaster.ts`, `who-server.mjs`, `web/app.js` | operator `file` and `cache` (who is in it, and who is disabled), the process's case, each client's request, the shell's own case, versions of a job's document; `stale`, of history only: the file is not what the process last read or wrote | the start `LoadForMerge` … `Listen`, each `Read` of which may fail, `Stop`; `EditFile` (external: by hand, at any time); `Gate` and `Handle` of a request, `PutSettings`; `Subscribe`, `Publish`, `Close`; the shell's `Unlock`, `Submit`, `SaveSettings`, `Receive` |
| `ApprovalGate` | `approval_gate.py` | `chain`: each task's chain with gates, status and audit trail | one action per operation; what it makes of a chain is an operator of its own (`GateApproved`, `Escalated`, …) |
| `OperatorService` | `service.py`, `task_log.py`, `task_policy.py` | ids given out, trail, `pending`, what the user was `told` | `DraftMode`, `ReviewMode` (one disjunct per level), `ExecuteMode`, `ApproveTask`, `EnableExecute` |
| `AIClients` | `AIOrchestrator.ts`, `OllamaClient.ts`, `CloudProviders.ts` | `call`: the provider's turn, the model, the bytes received and parsed, the text so far; `models` that are installed | one action per fetch: `IsConfigured`, `Resolve`, `Post`, `CloudAnswers`, `CloudFails`; `ReadChunk` of any size, `ReadDone`, `ReadFails`; `Pull`, `RemoveModel` (external) |
| `LlmRouter` | `llmRouter.ts` | `cache` with the time the server was seen, each task's step | `BeginTask`, `Health`, `Incorporate`, `CallOllama`, `Fallback`, `ClearOllamaCache`; `Tick`, `Flip` (external) |
| `TimedMap` | what a memory with lifetimes promises | a map that holds what is alive, and values `pending` whose lifetime has begun | `Begin`, `Put`, `Remove`, `Pass`, `Copy`, `Restore`, `Clear` |
| `AgentMemory` | `memory_store.py`, `integration.py` | `entries`, `lastCleanup`, a dump, what the gate has `granted` a thread, with the entry it is about to store | `Request`, then `Recall`, `Forget`, or `SetExpiry` (the clock, before the lock) and `Store` (with its cleanup); `Cleanup`, `ToJson`, `FromJson`, `ClearAll`, `TimePasses` |

Interaction: every durable component assumes that a file write is atomic.
`FileStore` says when that is so: with one writer of a file it implements
`AtomicFile` (checked and proved), with two it does not (run `FileStore_two`).
`WhoWorker` EXTENDS `CaspaJobs` and takes every one of its steps from it. It
counts dossiers and names audit actions only; the files behind them are
`Dossiers` and `WhoAudit`, whose writers are its workers. A lookup is one step of
`WhoWorker` that may throw; `Lookup` is what happens in it, and `LookupEnds` is why
that step ends. `Lookup` takes a bridge for a source that answers anything;
`Bridges` says what its answer is worth. `WhoServer` has a job as the versions of
its document that the worker writes and publishes.

Three MC modules put components that share no state side by side: `MCRecords`
(`FileStore`, `WhoAudit`, `Dossiers`), `MCOsint` (`Lookup`, `Bridges`, `WhoServer`) and
`MCAgents` (`ApprovalGate`, `OperatorService`, `AgentMemory`, `AIClients`,
`LlmRouter`). A behaviour of
such an instance is a behaviour of one of its parts, with the others left at their
initial states: steps of parts that share nothing commute, so their interleavings
would multiply the states and show nothing.

Granularity. In TypeScript a step is what happens between two awaits; an await of
a file operation is a step of its own. In Python a step is one method of an
object under its lock; the coordinator's methods hold no lock and are as many
steps as they make calls.

Definitions marked *Mutant* above an action are variants with a plausible bug.
They are no part of `Next`; each shows that the property it is paired with in
`PROJECT.json` can fail. Definitions shared by an action and its mutant
(such as `Starts`) hold what the two have in common.

## 3. Runs

| Run | Instance | What it shows |
|---|---|---|
| `FileStore_two` | 2 writers | **violated** `NoTornRead` (finding 1) |
| `Records_one` | 1 writer that may die at any system call, 2 readers, 2 documents of 2 blocks; 1 appender that may die, chain ≤ 3; 1 worker that may die, 2 jobs, 2 entities, 3 windows | `NoTornRead`, `AckedIsStored`, `NoSpuriousError`, and `Refines`: the store implements `AtomicFile`; `ReturnedEntryKept`, `ShardsInChain`, `ImplementsLedger`: what the chain's hashes cover is the in-memory ledger; `OnlyUndefinedBreaks`: verification complains of entries signed with an undefined field and of nothing else; `TamperEvident`; `PointersResolve`, `NoDuplicates`, and `IndexKeepsUp`: an upsert forgets nothing and ends on the newest dossier |
| `Records_undefined` | the same appender | **violated** `ChainVerifies` (finding 6) |
| `WhoWorker_one` | 1 worker, 1 client, a crash, a fault, a retry | `JobsCoherent` (proved for any callers in any order), `CleanCompletion`, `OneDossierPerAttempt`, `CancelHolds`, and `EveryJobEnds` under fairness |
| `WhoWorker_two` | 2 workers, expiring leases | `ResultBacked`: whoever writes last, a result has its dossier and its audit trail |
| `WhoWorker_share` | 2 workers | **violated** `OneWorkerPerJob` (finding 2) |
| `WhoWorker_cancel` | 1 worker, 1 client | **violated** `CancelIsFinal` (finding 3) |
| `Orchestrator_one` | 2 drivers, monitor, 1 agent, 1 task, 2 attempts | `Containers`, `NoTaskLost`, `CallbackOnce`, and `InProgressEnds` under fairness |
| `Orchestrator_veto` | 1 driver, 2 tasks | **violated** `VetoHolds` (finding 4) |
| `Osint_one` | a lookup of each kind, 2 queries, 6 seeds, 6 pieces of evidence, 2 sweeps, 2 rounds; a bridge call; a server with a shell, 2 callers, 2 operators, 2 cases, 2 versions of a job | `DiscoveryStops`, `CritiqueStops`: a stop reason is true of what was done; `ReportComplete`; `LookupEnds` under fairness; `EndsWithScan`: once a record says that the scan has ended its results are all of it; `CaseHeld`, `StreamKeepsUp`, `OperatorsKept` |
| `Agents_one` | 1 task with 2 risk levels and CRITICAL by a violation, 5 decisions; 3 tasks of the operator service; 2 threads on a memory of 2 keys, 4 times; a call of the AI clients with 3 models and texts of 1 and 2 pieces; 2 tasks of the router, 4 times | `ClearedIsApproved`, `TrailReplays`; `DecidedOnce`; `RemembersInTime`: the memory implements `TimedMap`; `AnswerIsWhole`: no cut of the stream and no failure before leaves its mark on a text; `SeenInWindow` |
| `ApprovalGate_passed` | the chain of `Agents_one` | **violated** `GatesPassedIsApproved` (finding 5) |

Bounds, and why they are enough:

- *Actors.* Two of a kind show every pairwise race; more add only repetitions of
  them (the proved theorems have no such bound). Properties that need one writer
  or one worker say so in their comment, and the runs with two show why.
- `Blocks = 2`: the least that distinguishes a torn document from an empty one.
  Four inodes are one for the file, one for the temporary and one per reader of
  an unlinked file.
- `MaxEntries`: an edit, the entry after it and one that is neither need three. An entry has an archive id, one that is undefined, or none.
- `LeaseTicks = 1`, `MaxAge`: a claim samples the clock before it lists the
  files, so it may be late. `MaxAge = 1` lets a claim be late by a full lease,
  the only thing a later one could add is the same comparison again. Documents
  and calls more than `MaxAge` ticks past their lease are identical to the code.
  `WhoWorker_two`, the run with two workers, has `MaxAge = 0`: there a lease
  expires between two steps of its worker but not while another one is claiming.
- `MaxRetries = 1` in `WhoWorker_one`: a second attempt and the refusal of a third.
  `MaxCrashes`, `MaxFaults = 1`: one of each, at any of the worker's steps.
- `MaxDossiers` caps a counter; the constraint `FewDossiers` of `WhoWorker_two`
  stops a run in which two workers take turns for ever.
- `MaxWindow = 2`: a collision inside a window and two windows in order.
- `Orchestrator`: `MaxRetries = 2` gives an attempt that is retried and one that
  is buried; `retries` is not counted past it because only `< max_retries` is
  ever tested. One task: the code shares nothing between tasks but agents and
  the order of the queue; the run with two tasks has them in different
  priorities.
- `ApprovalGate`: tasks share nothing, so one is enough. A chain at GREEN is
  approved after three decisions; `MaxEvents = 5` leaves two to undo it, and
  approves a YELLOW one. The proofs have neither bound.
- `Lookup`: one seed of each origin (the query, a variant made of it, a bridge, a
  text; the last below the confidence threshold), a lead without a value, two seeds
  that normalisation does not tell apart; one piece of evidence of each kind of source
  and one that is malformed, two of which make the same hit. A source is asked about
  one seed, the dark-web index about two, so that what is found in the first sweep is
  asked about or not. Two sweeps and two rounds are the least
  with a turn that has one before it; `MaxItems = 6` can be reached in either sweep
  or not at all; `PlateauRounds = 1` lets a plateau end before the rounds do.
- `Bridges`: `MaxFound = 2` gives a scan that has found nothing, some, and all.
- `WhoServer`: a shell, a caller, and one that only opens streams, on two cases and
  two operators of which one may access one case only. `Apart` of `MCOsint` lets
  streams and settings not be busy at once, which share no variable but the
  requests: the handler of a stream has no case and reads no settings. It explores an
  operator who is disabled, and a file that was edited under the server, without the
  shell, which has no operator.
  `MaxVersion = 2` has a publication before and one after a subscription. Callers ask
  for a stream and for a dossier, which passes every check but that of a query, and
  the shell for a lookup, which has that one; `pin` and `pin+operators` have the
  checks of `operators` on and off.
- `OperatorService`: three tasks; two can be decided differently while a third is
  pending. Ids are never given out twice, so they bound the runs.
- `AgentMemory`: two keys, one approved by its pattern, one by Themis; two threads,
  a lifetime of one tick and of ever, so that a store that waits a tick for the lock
  is in time and one that waits two is not; `CleanupInterval = 1` and `MaxTime = 3` have a
  store that cleans up, one that does not, and an expired entry at either.
- `AIClients`: a line of three tokens has a beginning, a middle and a newline; texts of
  one and two pieces make streams of two and three lines. Three models are the one that
  was asked for, one that it tags and another. Calls share nothing but the models, so one
  is enough.
- `LlmRouter`: two callers, of which one may cache what it asked for before the other
  did; `Window = 2` has an answer that is still good after a tick and one that is not.

Fairness. `WhoWorker`: each worker's loop goes on (`setTimeout` polling that never
ends), a method in progress finishes (file operations return), and the clock
ticks. `Orchestrator`: the monitor thread loops, and time passes for a task in
progress. `Lookup`: whatever a lookup has begun goes on, because each request to a
source carries a timeout of its own (`AbortSignal.timeout`, a timer that ends the
wait for a child process) and the loops only await such requests; nobody has to
begin a lookup. Nothing obliges a client to ask, a driver to report, an operation
to throw or a process to die. The other specifications have no fairness; only safety
is checked of them. Deadlock is checked everywhere except in `Records_one`, whose
chain and windows are bounded, and `Osint_one`, where a lookup or a bridge call that was
answered is over.

## 4. Proofs

Each theorem is of the specification with its constants arbitrary, under the
named ASSUMEs of its module only (markers like `None` are none of the values they
stand beside; bounds are naturals). Where the code promises something to one writer,
one appender or one worker only, the theorem says so in an ASSUME of its own
(`OneWriter`, `OneAppender`, `OneWorker`, `OneEach`): run `FileStore_two` shows why for
the first. Every safety property of a passing run is stated by a theorem. Each inductive
invariant was checked by TLC, on the instance of the run, before it was proved.

Durable state:

| Theorem | States | Argument |
|---|---|---|
| `FileStoreProofs!FileTypes` | `[]TypeOK`, any writers | with `Filling`: a writer that is not done has the temporary open |
| `FileStoreProofs!ReadsAreWhole`, `AcksAreStored`, `RenamesSucceed` | `[]NoTornRead`, `[]AckedIsStored`, `[]NoSpuriousError`, assuming `OneWriter` | invariant `IInv` of `FileStore`: the published inode is whole; the writer past `open` owns the temporary's inode and has filled a prefix; an open reader holds a whole inode the temporary path cannot reach. `NoTornRead` alone is not inductive: nothing in it keeps a writer away from the inode being read |
| `FileStoreProofs!Refinement` | `Spec => Refines`, assuming `OneWriter` | step by step under `IInv`: `Rename` is `Store`, `OpenRead` is `Read`, all else stutters |
| `RecordsProofs!OnlyUndefinedEverBreaks`, `AlwaysTamperEvident` | `[]OnlyUndefinedBreaks`, `[]TamperEvident`, any number of appenders | `AuditIInv`: the chain *and every draft* are linked, and each entry is what JSON keeps of the one its hash covers, but for the last of a draft, which is still that one; so whichever is saved last links. Lemmas on such sequences: where an entry is edited, re-signed or removed, the first one that does not verify is that one, the next, or one before it that was signed with an undefined field |
| `RecordsProofs!EntriesAreKept`, `ShardsAreEntries`, `FileIsLedger` | `[]ReturnedEntryKept`, `[]ShardsInChain`, `Spec => ImplementsLedger`, assuming `OneAppender` | `OneAppenderIInv`: what is about to be saved extends the file by one entry, what is about to be handed out is in it. Only then is a save an `AppendEntry` of `AuditLedger`, whose entries are those the file's hashes cover: dropping a field twice drops it once, so a save changes no entry it read (`SaveKeeps`) |
| `RecordsProofs!PointersAlwaysResolve`, `NeverDuplicates` | `[]PointersResolve`, `[]NoDuplicates`, any workers | `DossiersIInv`: documents and drafts are sound (their pointers resolve, nothing repeats), and the disk only grows |
| `RecordsProofs!DocumentsKeepUp` | `IndexKeepsUp`, assuming `OneWorker` | `OneWorkerIInv`: while the worker is at a dossier nothing newer of its entity is on disk, and the document it read is the one it replaces |

Jobs. Every step of a worker or of a handler is a step of the job service
(`IsJobsStep`), so what `CaspaJobsProofs` says of any callers holds of `WhoWorker`, and
`Control` ties a caller's call to the place its worker is at.

| Theorem | States | Argument |
|---|---|---|
| `CaspaJobsProofs!JobsTypes`, `DocumentsCoherent` | `[]JobsTypeOK`, `[]JobsCoherent`, any callers in any order | `JobsInv`: files hold good documents *and every call in progress carries a good document or a transition from good to good* (`CallOK`) |
| `WhoWorkerProofs!Types` | `[]TypeOK`, any workers and clients | `TypesIInv`: `JobsInv`, `Control`, and the counters within their bounds |
| `WhoWorkerProofs!AlwaysBacked` | `[]ResultBacked`, any workers and clients | `BackedIInv`: the documents *about to be written* are backed too, whoever holds them, and a worker has done all that lies before its place (`DoneSoFar`). A result comes from a file, from a document about to be written, or from the completion of a worker that is past its stages (`ResultsAreSourced`); what backs it is never taken back |
| `WhoWorkerProofs!CancellationHolds` | `Spec => CancelHolds`, any workers and clients | every method refuses a cancelled job except those a worker calls for the job it processes (`SettledCalls`), and a worker takes a job only by the claim it has in progress (`TakesItsClaim`) |
| `WhoWorkerProofs!CompletionsClean` | `[]CleanCompletion`, assuming `OneEach` | two invariants. `LiveInHand`: a job the worker has in hand is queued, running or cancelled, one that is being retried is none of these, so a retry never resets stages under a worker. `Progress`: the worker's current document, in the file or about to be written, has an error or the stages the worker is past; a cancel that meets a stage leaves an error. A claim writes back the error of its re-read, which may be none: it then also starts the stages anew |
| `WhoWorkerProofs!DossiersCounted` | `[]OneDossierPerAttempt`, assuming `OneEach` | `Counted`: a job that still waits for its dossier (`Open`) has one to spare. A step opens a job only by a retry or a crash, which raise the bound, since a worker lets go of a job otherwise only when it has written how it ended or found it cancelled (`LetsGo`, `EndDocs`); `RetriesKept`: no document about to be written has an old retry count |

`OneEach` is the hypothesis of the two properties themselves: one worker and one client
at a time, with any number of jobs, retries, crashes and failing operations. With two
workers an attempt can be taken twice (finding 2).

Lookups and the server:

| Theorem | States | Argument |
|---|---|---|
| `OsintProofs!SweepsStopForTheirReason`, `CritiqueStopsInTime`, `ReportsAreComplete` | `[]DiscoveryStops`, `[]CritiqueStops`, `[]ReportComplete` | `LookupIInv`: what both loops have when they are entered (`LoopsEntered`), that the counter of flat rounds is the length of the longest run at the end (`StreakIsLongest`), and that a lookup ends only when all it waited for has, with a hit for every key (`EndsSettled`). `SweepFacts`: a sweep without new seeds leaves what each source is asked about as it was. `KeptHits`: deduplication keeps a hit of every key |
| `OsintProofs!AnswersEndWithTheScan` | `[]EndsWithScan` | `EndSeen`: the scan's own last words stay true of it, since it does not begin again; a call that asks for results has seen an end, or is late |
| `OsintProofs!RequestsKeepTheirCase`, `StreamsKeepUp`, `OperatorsAreKept` | `[]CaseHeld`, `[]StreamKeepsUp`, `OperatorsKept`, any callers | `ServerIInv`: `CacheAndFile` (unless the file was edited since, or could not be read: while the server starts its cache has what the file has until it is saved, and is the file afterwards) and, per client, `RequestHeld`. `ByClient` splits it, so that a step is about one client or about what all share |

Agents:

| Theorem | States | Argument |
|---|---|---|
| `OrchestratorProofs!Types`, `TasksAreInTheirContainers` | `[]TypeOK`, `[]Containers`, any drivers and agents, finitely many tasks (so that the tasks one timeout check requeues can be listed) | each is inductive given the types; `FailTasks` moves whole sets at once |
| `OrchestratorProofs!TasksAreNeverLost` | `[]NoTaskLost` | inductive given the types. Every step either keeps a task's copies in the queue or takes one out for a driver that now holds the task (`QueueStep`), a driver stops holding a task only when it is no longer QUEUED or is refused (`HoldsStep`), and a refused one stays on record until a driver takes it (`HandedBackStep`) |
| `OrchestratorProofs!CallbacksAreCalledOnce` | `[]CallbackOnce` | not inductive: a callback that is called and stored again would be called twice. `Once` adds that a task whose callback is or will be stored has not had it called, and that one driver at most will store it |
| `ApprovalGateProofs!Types`, `OnlyApprovedIsCleared`, `TrailAlwaysReplays` | `[]TypeOK`, `[]ClearedIsApproved`, `[]TrailReplays`, any tasks, trails of any length | `Good`: an APPROVED chain can proceed, the trail tells the chain, and no entry is about a gate the chain does not have (else a gate added by an escalation would have a past). Two lemmas for the two kinds of entry, about a gate and about the chain; each operation is one of them |
| `AgentsProofs!ServiceTypes`, `AlwaysDecidedOnce` | `[]ServiceTypeOK`, `[]DecidedOnce`, any tasks, a trail of any length | `ServiceIInv`: besides `DecidedOnce`, an id that was not given out has no entry in the trail, so whatever a mode adds for its fresh id is the first of its kind |
| `AgentsProofs!MemoryTypes`, `AlwaysInTime` | `[]MemoryTypeOK`, `MemorySpec => RemembersInTime`, any actors, keys, lifetimes | types, with `granted` operations approved ones (else a store could not be mapped to an allowed `Put`). A value that is about to be stored is one of `TimedMap`'s `pending`, whose lifetime runs. Every removal of expired entries leaves `Visible` as it is; each action is then one of `TimedMap`'s or a stutter |
| `AgentsProofs!ClientsTypes`, `AnswersAreWhole` | `[]ClientsTypeOK`, `[]AnswerIsWhole`, any calls, models, texts and lengths of lines | `ClientsIInv`: the buffer begins where a line begins and the text is the responses of the lines before it; before anything is read there is neither, and only `generate` goes on to another provider, whose start clears both |
| `AgentsProofs!RouterTypes`, `CacheIsRecent` | `[]RouterTypeOK`, `[]SeenInWindow`, any callers and windows | `RouterIInv`: every date was read before the server was seen (`DatedBeforeSeen`), which the code owes to reading the clock before it sends the request |

`RecordsTypes`, `OsintTypes` and `AgentsTypes` state the types of the compositions.

Only model-checked: liveness (`EveryJobEnds`, `InProgressEnds`, `LookupEnds`) and
everything under fairness, which the prover does not reach.

What the proofs found about the models, which the runs could not, and which was put
right in them:

- `InHand` of `WhoWorker` did not count the jobs a recovery has listed and not yet come
  to while it writes another one: with two jobs, `Settled` was true of a job that the
  recovery's next patch could still be about. The runs have one job.
- Two open routes pass the gate of `WhoServer` without an operator, which the first form
  of `RequestHeld` denied.
- Assumptions that every run meets were not stated: `MaxEntries` is a natural number,
  `None` is no job, `MaxDossiers` is positive.
- The prover misreads an `@` inside another `EXCEPT`, hence the `LET` of `ReadChunk`.

## 5. Findings

1. **Two writers of one file share the temporary** (`fileStore.ts:28`). While one
   renames it, the other has truncated the same inode; readers get content
   `JSON.parse` rejects. `docs/ARCHITECTURE.md:15` promises atomic file writes.
2. **Two workers claim the same job** (`CaspaJobService.ts:217`). The optimistic
   re-read and the write are separate awaits. `docs/DEPLOY_WHO.md:59` promises
   multi-worker safe reclaim.
3. **A cancel can be overwritten** (`CaspaJobService.ts:138`). `complete` checks no
   status, and stage writes carry the status read before the cancel.
   `packages/osint/README.md:71` says queued and running jobs can be cancelled.
   What does hold is `CancelHolds`: once nobody has the job in hand, it stays
   cancelled.
4. **A veto ends with the task in progress** (`coordinator.py:191`, also 172 and 228).
   Status updates of the task an agent was at overwrite BLOCKED, which
   `agent_registry.py:29` and `coordinator.py:349` describe as a block until
   clearance.
5. **The last gate may pass unnoticed** (`approval_gate.py:114`). Only `approve_gate`
   looks whether its gate was the last; when `mark_automated_pass` is, the chain
   stays PENDING with nothing pending, and `can_execute` refuses it until a gate is
   approved a second time. Line 23 defines APPROVED as "All gates passed".
6. **An undefined field breaks the audit chain** (`whoAudit.ts:56`). Line 47 says that
   undefined metadata is omitted "so JSON round-trip matches hashAuditEntry input", but
   only metadata that is undefined as a whole is. `whoWorker.ts:171` passes an
   `archiveId` that is undefined when archiving is off or failed; the hash covers it,
   `chain.json` has no such field, and verification reports the entry for ever. What
   does hold is `OnlyUndefinedBreaks`.

Observations. What follows was met while modelling; no run is about it.

- *Lookup.* `toolkit.ts:510` calls the key of a sweep's tool note stable, but the key
  has the sweep's number in it; so has that of the note about duplicates (499), which
  therefore counts as new evidence in every enrichment (554). A source is asked about
  the first so many seeds of its types in every sweep (176, 201, 233, 259, 401, 466),
  the seeds found later come last, and those beyond the limit are never asked about.
  The username variants of a two-word name count as discovered seeds every time, so the
  extraction from texts never runs in a sweep that is asked about a person, and such a
  lookup has its fixpoint after the first sweep whose leads are known. The score of a
  report is that of the last round, before the last enrichment. `who()` keeps the first
  hit of a kind, title and url (`who.ts:604`), so a probe's "possible" hides what an
  item of the sweeps says more surely. A query that throws ends the sweeps, but rejects
  the lookup when it throws in an enrichment; a confident lead without a value rejects
  it too, after the sweep's evidence was stored (`refinementLoop.ts:146`). An item of a
  bridge without an entity makes the merge throw (`who.ts:265`, `people.ts:312`).
- *Bridges.* Scans are polled "so long scans are not truncated" (`bridgeAwait.ts:3`), but
  the HTTP status of a poll is not looked at (142), so the status in an error's body
  ends the wait, and statuses are matched by substring (86), so INCOMPLETE counts as
  COMPLETE: the items so far are returned while the scan runs, without `timedOut`.
  `EndsWithScan` excludes both. An answer to the start that has an array of items, even an empty one, is
  returned at once, though it has a scan's id as well (`bridgeAwait.ts:116`). An error
  with an id is polled like a scan until the deadline. The first results path that
  answers any JSON record is taken, with or
  without items (`bridgeAwait.ts:153`); without, the items of the last record that had
  some are the answer's. SpiderDash's client does not take `DONE` or
  `SUCCESS` for an end. The BigBrother sidecar is started once and never again, and a
  missing executable is only noticed asynchronously (`bigbrotherBridge.ts:46`).
- *Orchestrator.* A task that is refused by `dispatch_to_agent` after it was dequeued
  (`coordinator.py:134`–145) stays QUEUED and is in no queue; only the caller's Task can
  still bring it to an agent.
- *Jobs.* A claim writes the error of its re-read over what was written since
  (`CaspaJobService.ts:226`), so the text of a cancel that lands in between is lost.
- *Server.* An operator file that cannot be read or parsed counts as one without
  operators (`whoOperators.ts:80`): the bootstrap operator, meant for "if none exist"
  (101), or the environment's (195–213) are saved over those that do.
  `OperatorsKept` excludes such a start. The bootstrap token is lost if the process ends between saving the
  operator and showing it. A stream misses what is published between its snapshot
  and its subscription, until the next publication; of a stand-alone worker's
  progress it never tells more than the snapshot. The web shell sends no operator
  token, so it works in the mode `pin` only. An operator who is
  removed from the file or disabled in it by hand is served until the next start, and
  an edit between a start's reading and saving of the file is lost.
- *Operator service.* An approved task is not executed by anything: `execute_mode`
  looks for its own fresh id, and among the pending tasks. That the
  trail has no execution is a part of `DecidedOnce` (`Ordered`).
- *AI clients.* The context of a request is sent twice, cut by the orchestrator and whole by
  the provider (`AIOrchestrator.ts:95`, `CloudProviders.ts:19`). The thirty seconds of
  its requests cover the headers only; the requests to cloud providers have no limit,
  so one that never answers keeps the fail-over from going on. `readStream` never looks
  at `done`: a stream that ends after a line that is no JSON record, or that the server
  ends early without breaking the connection, counts as complete. A router's task that
  asks by itself relies on an answer of any age, since the request and what follows it
  take as long as they take; and an answer under way fills a cache that was cleared.
- *Agent memory.* A store reads the clock before it waits for the lock
  (`memory_store.py:80`), so a value that has expired meanwhile may replace a live one.
  `from_json` overrides live values by expired ones and brings back
  what was forgotten. The gate's request counter is not locked, so two threads may
  get one id.

## 6. Not modelled

`Orchestrator` leaves out registration, capabilities, statistics, history,
snapshots and `graceful_shutdown`; `CaspaJobs` leaves out `maxAgeMs` of recovery and
`resumeFromStage`, which nothing in the repository passes; `Dossiers` leaves out
encryption and the mapping from a look-up to a dossier; `listJsonFiles` and other
pure readers change nothing. `Lookup` leaves out what sources are and how their
answers are parsed, and scores within one item;
`WhoServer` leaves out bodies, headers, static files and rendering, and takes a
token for the operator it belongs to; `Bridges` leaves out the sidecar process and
the defaults of addresses; `AgentMemory` leaves out scopes, metadata and the log of
requests; `OperatorService` leaves out texts and Iris; `AIClients` leaves out prompts,
options, usage figures and `listAvailableProviders`, which only asks what
`IsConfigured` asks. Of the Python memory,
`ContextManager`, `HistoryTracker` and retrieval have no caller.

Without a module, because they keep no state and their functions are small or
textual: the policy engines (a rule list with default deny, covered by unit tests),
quality gate, text analysis, coherence
libraries, encryption, export, prompts, rules, planner, identity, bridges to Python;
because nothing in the repository calls them: the local-first store and cache; and
the dark-web monitor, whose state is a list of what it has seen.

## 7. Plan

Done, in this order because everything durable rests on the file store and the
worker is the system's main loop: `FileStore`/`AtomicFile`,
`AuditLedger`/`WhoAudit`, `CaspaJobs`, `WhoWorker`, `Dossiers`, `Orchestrator`,
`ApprovalGate`; then what happens around a job, `Lookup`, `Bridges`, `WhoServer`, and
around a task, `OperatorService`, `AgentMemory`/`TimedMap`, `AIClients`, `LlmRouter`.
Every safety property of a passing run is proved.

Next: `graceful_shutdown` in `Orchestrator`, with the cancelled task that never
leaves `_in_progress`; the dark-web monitor's list of what it has seen.

Next theorems, for what is not a property of a run and is used as if it were:
`CleanCompletion` and `OneDossierPerAttempt` with several clients, whose retries would
have to be told apart; that `WhoWorker` implements an abstract queue of jobs in which a
job is queued, taken and ended.
