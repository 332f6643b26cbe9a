-------------------------------- MODULE Dossiers --------------------------------
(***************************************************************************)
(* packages/osint/src/dossier: the files the dossier stage of a who.lookup *)
(* job leaves behind.  writeDossier stores the dossier under an id made of *)
(* the entity and the head of a time-ordered id, which changes only every  *)
(* 36^3 ms: two dossiers of an entity written in one such window have the  *)
(* same id and the second replaces the first.  upsertEntityIndex then      *)
(* reads the entity's document, adds the dossier and the job, and writes   *)
(* the document back; nothing locks it in between.                         *)
(***************************************************************************)
EXTENDS Naturals, Sequences, SequencesExt

CONSTANTS Workers,     \* who() workers of the data directory
          Jobs,        \* who.lookup jobs
          Entities,    \* entity ids: a case and a name
          MaxWindow,   \* bound: windows of 36^3 ms
          NoDoc,       \* a document that does not exist
          NoJob        \* a dossier file that does not exist

ASSUME BoundsAssumption == MaxWindow \in Nat
ASSUME NoJobAssumption == NoJob \notin Jobs

VARIABLES window,    \* the current window
          disk,      \* dossier id -> jobId in its file
          index,     \* entity -> its document
          step,      \* worker -> "idle", "read" or "write"
          at,        \* worker -> the job and the dossier it is indexing
          entry      \* worker -> the document it is about to write

dossiersVars == <<window, disk, index, step, at, entry>>

DossierId == [entity : Entities, window : 0..MaxWindow]

NoWork == [job |-> NoJob, dossier |-> NoDoc]

DossiersInit ==
  /\ window = 0
  /\ disk = [d \in DossierId |-> NoJob]
  /\ index = [e \in Entities |-> NoDoc]
  /\ step = [w \in Workers |-> "idle"]
  /\ at = [w \in Workers |-> NoWork]
  /\ entry = [w \in Workers |-> NoDoc]

Entity(w) == at[w].dossier.entity

\* writeDossier: a new file, or another content for the one of this window.
\* (Mutants: the file names the dossier in the place of the job; no file is written
\* before the index is.)
WriteDossierWrongField(w, j, e) ==
  LET id == [entity |-> e, window |-> window] IN
  /\ step[w] = "idle"
  /\ disk' = [disk EXCEPT ![id] = id]
  /\ at' = [at EXCEPT ![w] = [job |-> j, dossier |-> id]]
  /\ step' = [step EXCEPT ![w] = "read"]
  /\ UNCHANGED <<window, index, entry>>

WriteDossierLater(w, j, e) ==
  LET id == [entity |-> e, window |-> window] IN
  /\ step[w] = "idle"
  /\ at' = [at EXCEPT ![w] = [job |-> j, dossier |-> id]]
  /\ step' = [step EXCEPT ![w] = "read"]
  /\ UNCHANGED <<window, disk, index, entry>>

WriteDossier(w, j, e) ==
  LET id == [entity |-> e, window |-> window] IN
  /\ step[w] = "idle"
  /\ disk' = [disk EXCEPT ![id] = j]
  /\ at' = [at EXCEPT ![w] = [job |-> j, dossier |-> id]]
  /\ step' = [step EXCEPT ![w] = "read"]
  /\ UNCHANGED <<window, index, entry>>

Added(s, x) == IF Contains(s, x) THEN s ELSE Append(s, x)

\* The document after the upsert, from the one that was read.
\* (Mutants: every upsert appends; the document read is forgotten.)
UpsertAppends(prev, j, id) ==
  IF prev = NoDoc THEN [latest |-> id, dossierIds |-> <<id>>, jobIds |-> <<j>>]
  ELSE [latest |-> id, dossierIds |-> Append(prev.dossierIds, id),
        jobIds |-> Added(prev.jobIds, j)]

UpsertForgets(prev, j, id) == [latest |-> id, dossierIds |-> <<id>>, jobIds |-> <<j>>]

Upsert(prev, j, id) ==
  IF prev = NoDoc THEN [latest |-> id, dossierIds |-> <<id>>, jobIds |-> <<j>>]
  ELSE [latest |-> id, dossierIds |-> Added(prev.dossierIds, id),
        jobIds |-> Added(prev.jobIds, j)]

ReadIndex(w) ==
  /\ step[w] = "read"
  /\ entry' = [entry EXCEPT ![w] = Upsert(index[Entity(w)], at[w].job, at[w].dossier)]
  /\ step' = [step EXCEPT ![w] = "write"]
  /\ UNCHANGED <<window, disk, index, at>>

Leave(w) ==
  /\ step' = [step EXCEPT ![w] = "idle"]
  /\ at' = [at EXCEPT ![w] = NoWork] /\ entry' = [entry EXCEPT ![w] = NoDoc]

WriteIndex(w) ==
  /\ step[w] = "write"
  /\ index' = [index EXCEPT ![Entity(w)] = entry[w]]
  /\ Leave(w) /\ UNCHANGED <<window, disk>>

\* The worker dies, or a file operation throws.
AbortUpsert(w) == step[w] # "idle" /\ Leave(w) /\ UNCHANGED <<window, disk, index>>

NextWindow == window < MaxWindow /\ window' = window + 1
              /\ UNCHANGED <<disk, index, step, at, entry>>

DossiersNext ==
  \/ \E w \in Workers : \/ \E j \in Jobs, e \in Entities : WriteDossier(w, j, e)
                        \/ ReadIndex(w) \/ WriteIndex(w) \/ AbortUpsert(w)
  \/ NextWindow

DossiersSpec == DossiersInit /\ [][DossiersNext]_dossiersVars

-------------------------------------------------------------------------------
Document == [latest : DossierId, dossierIds : Seq(DossierId), jobIds : Seq(Jobs)]

\* Types of the files and of the upserts in progress (entityIndex.ts:9-19).
DossiersTypeOK ==
  /\ window \in 0..MaxWindow
  /\ disk \in [DossierId -> Jobs \cup {NoJob}]
  /\ index \in [Entities -> Document \cup {NoDoc}]
  /\ step \in [Workers -> {"idle", "read", "write"}]
  /\ at \in [Workers -> [job : Jobs, dossier : DossierId] \cup {NoWork}]
  /\ entry \in [Workers -> Document \cup {NoDoc}]

OnDisk(e) == {d \in DossierId : d.entity = e /\ disk[d] # NoJob}

\* Wherever workers interleave or die, a document points only at dossiers of its
\* entity that are on disk, the latest among them (GET /api/entities/:id followed by
\* GET /api/dossiers/:id never answers 404; dossierStore.ts:61, entityIndex.ts:36-59).
PointersResolve ==
  \A e \in Entities : index[e] # NoDoc =>
    /\ ToSet(index[e].dossierIds) \subseteq OnDisk(e)
    /\ Contains(index[e].dossierIds, index[e].latest)

\* A retried job, or a second dossier in the same window, is listed once
\* (entityIndex.ts:40-46).
NoDuplicates ==
  \A e \in Entities : index[e] # NoDoc =>
    IsInjective(index[e].dossierIds) /\ IsInjective(index[e].jobIds)

\* With one worker, an upsert forgets no dossier and no job, and leaves the document
\* pointing at the newest dossier of the entity, also when earlier upserts died half-way
\* ("latest dossier pointer per case+entity", entityIndex.ts:2).
IndexKeepsUp ==
  [][\A e \in Entities : index'[e] # index[e] =>
       /\ index[e] # NoDoc => /\ IsPrefix(index[e].dossierIds, index'[e].dossierIds)
                              /\ IsPrefix(index[e].jobIds, index'[e].jobIds)
       /\ \A d \in OnDisk(e) : d.window <= index'[e].latest.window]_dossiersVars
===============================================================================
