------------------------------- MODULE FileStore -------------------------------
(***************************************************************************)
(* packages/persistence/src/fileStore.ts: one JSON file of the data        *)
(* directory, written by writeJsonFile, removed by deleteJsonFile and read *)
(* by readJsonFile.  writeJsonFile fills `${file}.tmp` and renames it over *)
(* the file; every writer of a file uses the SAME temporary path, so the   *)
(* model keeps directory entries and inodes apart: a rename moves the      *)
(* entry while another writer may still hold the inode open.               *)
(*                                                                         *)
(* Each system call is a step: open(tmp, O_TRUNC), one write per block     *)
(* (fs.writeFile splits a long buffer), rename.  A document is the value   *)
(* all Blocks blocks of the file agree on; any other content is what       *)
(* JSON.parse rejects.                                                     *)
(***************************************************************************)
EXTENDS Naturals

CONSTANTS Writers,   \* callers of writeJsonFile / deleteJsonFile
          Readers,   \* callers of readJsonFile
          Values,    \* JSON documents
          Inodes,    \* inodes of the file system
          Blocks,    \* number of write(2) calls a document takes
          Hole,      \* a block nobody has written since the truncation
          Absent,    \* a directory entry that does not exist
          Null,      \* readJsonFile's result when there is no file
          Torn,      \* readJsonFile threw: the content does not parse
          Unread     \* a reader that has not read yet

ASSUME BlocksAssumption == Blocks \in Nat \ {0}
ASSUME TokensDistinct ==
  /\ Hole \notin Values /\ Absent \notin Inodes
  /\ Null \notin Values /\ Torn \notin Values \cup {Null}
  /\ Unread \notin Values \cup {Null, Torn}

VARIABLES links,     \* directory: path -> inode or Absent
          content,   \* inode -> block -> value or Hole
          writer,    \* per writer: phase, value, open inode, blocks written, outcome
          reader     \* per reader: phase, open inode, result of the last read

vars == <<links, content, writer, reader>>

FilePath == "file"
\* (Mutant: the document is written in place.)
TmpPathInPlace == "file"
TmpPath  == "tmp"
Paths    == {"file", "tmp"}

Content == [1..Blocks -> Values \cup {Hole}]
Blank   == [b \in 1..Blocks |-> Hole]

\* JSON.parse of what the file holds.
Parse(c) == IF \E v \in Values : \A b \in 1..Blocks : c[b] = v
            THEN c[1] ELSE Torn

\* Inodes no directory entry and no open descriptor keeps alive.
Free == {i \in Inodes : /\ \A p \in Paths : links[p] # i
                        /\ \A w \in Writers : writer[w].fd # i
                        /\ \A r \in Readers : reader[r].fd # i}

-------------------------------------------------------------------------------
Init ==
  /\ links = [p \in Paths |-> Absent]
  /\ content = [i \in Inodes |-> Blank]
  /\ writer = [w \in Writers |-> [phase |-> "idle", val |-> Null, fd |-> Absent,
                                  done |-> 0, ack |-> "none"]]
  /\ reader = [r \in Readers |-> [phase |-> "idle", fd |-> Absent, got |-> Unread]]

\* fs.writeFile(tmpPath, ...) opens the temporary file: an existing one is
\* truncated in place, a missing one gets a fresh inode.
\* (Mutant: the temporary is created at another path than the one renamed.)
OpenTmpElsewhere(w, v, i) ==
  /\ writer[w].phase = "idle" /\ i \in Free
  /\ content' = [content EXCEPT ![i] = Blank]
  /\ writer' = [writer EXCEPT ![w] = [phase |-> "write", val |-> v, fd |-> i,
                                      done |-> 0, ack |-> "none"]]
  /\ UNCHANGED <<links, reader>>

OpenTmp(w, v, i) ==
  /\ writer[w].phase = "idle"
  /\ IF links[TmpPath] = Absent THEN i \in Free ELSE i = links[TmpPath]
  /\ links' = [links EXCEPT ![TmpPath] = i]
  /\ content' = [content EXCEPT ![i] = Blank]
  /\ writer' = [writer EXCEPT ![w] = [phase |-> "write", val |-> v, fd |-> i,
                                      done |-> 0, ack |-> "none"]]
  /\ UNCHANGED reader

\* One write(2) of the open inode, at the writer's own offset.
WriteBlock(w) ==
  LET n == writer[w].done + 1 IN
  /\ writer[w].phase = "write"
  /\ content' = [content EXCEPT ![writer[w].fd][n] = writer[w].val]
  /\ writer' = IF n = Blocks   \* the last block: fs.writeFile closes the file
               THEN [writer EXCEPT ![w].done = 0, ![w].phase = "rename", ![w].fd = Absent]
               ELSE [writer EXCEPT ![w].done = n]
  /\ UNCHANGED <<links, reader>>

\* fs.rename(tmpPath, filePath); ENOENT when another writer renamed it first.
\* (Mutant: the temporary is removed instead of moved.)
RenameLoses(w) ==
  /\ writer[w].phase = "rename" /\ links[TmpPath] # Absent
  /\ links' = [links EXCEPT ![TmpPath] = Absent]
  /\ writer' = [writer EXCEPT ![w].phase = "idle", ![w].ack = "stored"]
  /\ UNCHANGED <<content, reader>>

Rename(w) ==
  /\ writer[w].phase = "rename"
  /\ IF links[TmpPath] = Absent
     THEN /\ writer' = [writer EXCEPT ![w].phase = "idle", ![w].ack = "error"]
          /\ UNCHANGED links
     ELSE /\ links' = [links EXCEPT ![FilePath] = links[TmpPath], ![TmpPath] = Absent]
          /\ writer' = [writer EXCEPT ![w].phase = "idle", ![w].ack = "stored"]
  /\ UNCHANGED <<content, reader>>

\* deleteJsonFile: unlink, false on ENOENT.
Delete(w) ==
  /\ writer[w].phase = "idle"
  /\ links' = [links EXCEPT ![FilePath] = Absent]
  /\ writer' = [writer EXCEPT ![w].ack = IF links[FilePath] = Absent
                                         THEN "missing" ELSE "deleted"]
  /\ UNCHANGED <<content, reader>>

\* The writing process dies: the descriptor is closed, the temporary stays.
Crash(w) ==
  /\ writer[w].phase # "idle"
  /\ writer' = [writer EXCEPT ![w] = [phase |-> "idle", val |-> Null, fd |-> Absent,
                                      done |-> 0, ack |-> "none"]]
  /\ UNCHANGED <<links, content, reader>>

\* fs.readFile opens the file; ENOENT makes readJsonFile return null.
OpenRead(r) ==
  /\ reader[r].phase = "idle"
  /\ reader' = IF links[FilePath] = Absent
               THEN [reader EXCEPT ![r].got = Null]
               ELSE [reader EXCEPT ![r].phase = "read", ![r].fd = links[FilePath]]
  /\ UNCHANGED <<links, content, writer>>

\* The content of the open inode is read and parsed.
FinishRead(r) ==
  /\ reader[r].phase = "read"
  /\ reader' = [reader EXCEPT ![r] = [phase |-> "idle", fd |-> Absent,
                                      got |-> Parse(content[reader[r].fd])]]
  /\ UNCHANGED <<links, content, writer>>

Next ==
  \/ \E w \in Writers : \/ \E v \in Values, i \in Inodes : OpenTmp(w, v, i)
                        \/ WriteBlock(w)
                        \/ Rename(w)
                        \/ Delete(w)
                        \/ Crash(w)
  \/ \E r \in Readers : OpenRead(r) \/ FinishRead(r)

Spec == Init /\ [][Next]_vars

-------------------------------------------------------------------------------
WriterState == [phase : {"idle", "write", "rename"}, val : Values \cup {Null},
                fd : Inodes \cup {Absent}, done : 0..Blocks,
                ack : {"none", "stored", "error", "deleted", "missing"}]
ReaderState == [phase : {"idle", "read"}, fd : Inodes \cup {Absent},
                got : Values \cup {Null, Torn, Unread}]

\* Every variable keeps its type (fileStore.ts).
TypeOK ==
  /\ links \in [Paths -> Inodes \cup {Absent}]
  /\ content \in [Inodes -> Content]
  /\ writer \in [Writers -> WriterState]
  /\ reader \in [Readers -> ReaderState]

\* readJsonFile never sees a half-written document: no JSON.parse error comes
\* from a write in progress or from a writer that died (fileStore.ts:12-31).
NoTornRead == \A r \in Readers : reader[r].got # Torn

\* When writeJsonFile returns, the file holds exactly the document it was
\* given, until that caller writes or deletes again (fileStore.ts:25-31).
AckedIsStored ==
  \A w \in Writers : writer[w].ack = "stored" =>
    /\ links[FilePath] # Absent
    /\ Parse(content[links[FilePath]]) = writer[w].val

\* writeJsonFile does not report a failure for a document it did store: the
\* rename always finds the temporary file this call wrote (fileStore.ts:30).
NoSpuriousError == \A w \in Writers : writer[w].ack # "error"

-------------------------------------------------------------------------------
(* The strengthening that makes the properties inductive when one caller   *)
(* writes the file at a time.                                              *)
OneWriter == \A w, x \in Writers : w = x

Whole(i, v) == \A b \in 1..Blocks : content[i][b] = v

\* The file is complete and is not the inode behind the temporary path.
FileWhole ==
  links[FilePath] # Absent => /\ links[FilePath] # links[TmpPath]
                              /\ \E v \in Values : Whole(links[FilePath], v)

\* A writer that has opened the temporary owns it, and has filled a prefix.
WriterOwnsTmp ==
  \A w \in Writers :
    /\ writer[w].phase # "write" => writer[w].fd = Absent
    /\ writer[w].phase = "write" =>
         /\ writer[w].fd = links[TmpPath] /\ writer[w].fd # Absent
         /\ writer[w].val \in Values /\ writer[w].done < Blocks
         /\ \A b \in 1..writer[w].done : content[writer[w].fd][b] = writer[w].val
    /\ writer[w].phase = "rename" =>
         /\ links[TmpPath] # Absent /\ writer[w].val \in Values
         /\ Whole(links[TmpPath], writer[w].val)
    /\ writer[w].ack = "stored" =>
         /\ writer[w].phase = "idle" /\ writer[w].val \in Values
         /\ links[FilePath] # Absent /\ Whole(links[FilePath], writer[w].val)

\* An open reader holds a complete inode that the temporary path cannot reach.
ReaderWhole ==
  \A r \in Readers : reader[r].phase = "read" =>
    /\ reader[r].fd # Absent /\ reader[r].fd # links[TmpPath]
    /\ \E v \in Values : Whole(reader[r].fd, v)

IInv == TypeOK /\ FileWhole /\ WriterOwnsTmp /\ ReaderWhole
               /\ NoTornRead /\ NoSpuriousError

\* The abstract file: its value is what the renamed inode parses to; a read
\* takes effect when it opens the file.
Abstract == INSTANCE AtomicFile WITH
  value <- IF links[FilePath] = Absent THEN Null ELSE Parse(content[links[FilePath]]),
  got   <- [r \in Readers |-> IF reader[r].phase = "read"
                              THEN Parse(content[reader[r].fd]) ELSE reader[r].got]

\* fileStore.ts implements the atomic file.
Refines == Abstract!Spec
===============================================================================
