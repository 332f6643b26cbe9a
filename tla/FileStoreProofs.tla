---------------------------- MODULE FileStoreProofs ----------------------------
(***************************************************************************)
(* Proofs about FileStore for any readers, documents, inodes and number of *)
(* blocks: the types, for any writers, and everything else when one caller *)
(* writes the file at a time (OneWriter).                                  *)
(***************************************************************************)
EXTENDS FileStore, TLAPS

\* A file every block of which holds the same document parses to it.
LEMMA ParseWhole ==
  ASSUME NEW c \in Content, NEW v \in Values, \A b \in 1..Blocks : c[b] = v
  PROVE  Parse(c) = v
BY BlocksAssumption DEF Parse

-------------------------------------------------------------------------------
\* What is true of any number of writers: every variable keeps its type, since a
\* writer that is not done has the temporary open and blocks left to write.
Filling == \A w \in Writers : writer[w].phase = "write" =>
             writer[w].fd \in Inodes /\ writer[w].done < Blocks /\ writer[w].val \in Values

LEMMA ParseType ==
  ASSUME NEW c
  PROVE  Parse(c) \in Values \cup {Torn}
BY BlocksAssumption DEF Parse

LEMMA TypesStart == Init => TypeOK /\ Filling
BY BlocksAssumption
DEF Init, TypeOK, Filling, Content, Blank, WriterState, ReaderState, Paths

LEMMA TypesStep == TypeOK /\ Filling /\ [Next]_vars => TypeOK' /\ Filling'
<1>. SUFFICES ASSUME TypeOK, Filling, [Next]_vars PROVE TypeOK' /\ Filling'
  OBVIOUS
<1>. USE DEF FilePath, TmpPath, Paths
<1>1. ASSUME NEW w \in Writers, NEW v \in Values, NEW i \in Inodes, OpenTmp(w, v, i)
      PROVE  TypeOK' /\ Filling'
  BY <1>1, BlocksAssumption
  DEF OpenTmp, TypeOK, Filling, WriterState, ReaderState, Content, Blank
<1>2. ASSUME NEW w \in Writers, WriteBlock(w) PROVE TypeOK' /\ Filling'
  <2>. USE <1>2, BlocksAssumption DEF WriteBlock, TypeOK, Filling, WriterState, ReaderState
  <2>1. content' \in [Inodes -> Content]
    BY DEF Content
  <2>2. CASE writer[w].done + 1 = Blocks
    <3>1. writer' = [writer EXCEPT ![w] = [@ EXCEPT !.done = 0, !.phase = "rename", !.fd = Absent]]
      BY <2>2
    <3>2. writer' \in [Writers -> WriterState]
      BY <3>1
    <3>3. \A x \in Writers \ {w} : writer'[x] = writer[x]
      BY <3>1
    <3>4. writer'[w].phase = "rename"
      <4>1. PICK q : q = writer[w]
        OBVIOUS
      <4>2. writer'[w] = [q EXCEPT !.done = 0, !.phase = "rename", !.fd = Absent] /\ q \in WriterState
        BY <3>1, <4>1
      <4>. QED BY ONLY <4>2 DEF WriterState
    <3>. QED BY <2>1, <3>2, <3>3, <3>4
  <2>3. CASE writer[w].done + 1 # Blocks
    <3>1. writer' = [writer EXCEPT ![w] = [@ EXCEPT !.done = writer[w].done + 1]]
      BY <2>3
    <3>2. writer[w].done + 1 \in 0..Blocks /\ writer[w].done + 1 < Blocks
      BY <2>3
    <3>. QED BY <2>1, <3>1, <3>2
  <2>. QED BY <2>2, <2>3
<1>3. ASSUME NEW w \in Writers, Rename(w) PROVE TypeOK' /\ Filling'
  BY <1>3 DEF Rename, TypeOK, Filling, WriterState, ReaderState
<1>4. ASSUME NEW w \in Writers, Delete(w) PROVE TypeOK' /\ Filling'
  BY <1>4 DEF Delete, TypeOK, Filling, WriterState, ReaderState
<1>5. ASSUME NEW w \in Writers, Crash(w) PROVE TypeOK' /\ Filling'
  BY <1>5, BlocksAssumption DEF Crash, TypeOK, Filling, WriterState, ReaderState
<1>6. ASSUME NEW r \in Readers, OpenRead(r) PROVE TypeOK' /\ Filling'
  <2>. USE <1>6 DEF OpenRead, TypeOK, Filling, ReaderState
  <2>1. CASE links["file"] = Absent
    BY <2>1
  <2>2. CASE links["file"] # Absent
    <3>1. reader' = [reader EXCEPT ![r] = [@ EXCEPT !.phase = "read", !.fd = links["file"]]]
      BY <2>2
    <3>. QED BY <3>1
  <2>. QED BY <2>1, <2>2
<1>7. ASSUME NEW r \in Readers, FinishRead(r) PROVE TypeOK' /\ Filling'
  BY <1>7, ParseType DEF FinishRead, TypeOK, Filling, ReaderState
<1>8. CASE UNCHANGED vars
  BY <1>8 DEF vars, TypeOK, Filling
<1>. QED BY <1>1, <1>2, <1>3, <1>4, <1>5, <1>6, <1>7, <1>8 DEF Next

\* For any number of callers of writeJsonFile, deleteJsonFile and readJsonFile, the
\* directory, the inodes and the callers' variables keep their types (fileStore.ts).
THEOREM FileTypes == Spec => []TypeOK
BY TypesStart, TypesStep, PTL DEF Spec

-------------------------------------------------------------------------------
(* One caller at a time writes the file.                                       *)

\* The strengthened invariant holds initially.
LEMMA InitIInv == Init => IInv
<1>. SUFFICES ASSUME Init PROVE IInv
  OBVIOUS
<1>1. TypeOK
  BY BlocksAssumption DEF Init, TypeOK, Content, Blank, WriterState, ReaderState, Paths
<1>2. FileWhole /\ WriterOwnsTmp /\ ReaderWhole
  BY DEF Init, FileWhole, WriterOwnsTmp, ReaderWhole, FilePath, Paths
<1>3. NoTornRead /\ NoSpuriousError
  BY TokensDistinct DEF Init, NoTornRead, NoSpuriousError
<1>. QED BY <1>1, <1>2, <1>3 DEF IInv

\* Every step of the only writer, of a reader or of the environment keeps it.
LEMMA StepIInv == OneWriter /\ IInv /\ [Next]_vars => IInv'
<1>. SUFFICES ASSUME OneWriter, IInv, [Next]_vars PROVE IInv'
  OBVIOUS
<1>. USE DEF IInv, FilePath, TmpPath, Paths
<1>1. ASSUME NEW w \in Writers, NEW v \in Values, NEW i \in Inodes, OpenTmp(w, v, i)
      PROVE  IInv'
  <2>1. TypeOK'
    BY <1>1, BlocksAssumption
    DEF OpenTmp, TypeOK, WriterState, ReaderState, Content, Blank
  <2>2. i # links["file"] /\ \A r \in Readers : reader[r].phase = "read" => reader[r].fd # i
    BY <1>1 DEF OpenTmp, Free, FileWhole, ReaderWhole, TypeOK
  <2>3. FileWhole'
    BY <1>1, <2>2, TokensDistinct DEF OpenTmp, TypeOK, FileWhole, Whole
  <2>4. WriterOwnsTmp'
    BY <1>1, TokensDistinct, BlocksAssumption
    DEF OpenTmp, TypeOK, WriterOwnsTmp, WriterState, OneWriter
  <2>5. ReaderWhole'
    BY <1>1, <2>2 DEF OpenTmp, TypeOK, ReaderWhole, ReaderState, Whole
  <2>6. (NoTornRead /\ NoSpuriousError)'
    BY <1>1 DEF OpenTmp, TypeOK, WriterState, NoTornRead, NoSpuriousError
  <2>. QED BY <2>1, <2>3, <2>4, <2>5, <2>6
<1>2. ASSUME NEW w \in Writers, WriteBlock(w) PROVE IInv'
  <2>1. TypeOK'
    <3>. USE <1>2, BlocksAssumption
         DEF WriteBlock, TypeOK, WriterState, ReaderState, WriterOwnsTmp
    <3>1. content' \in [Inodes -> Content]
      BY DEF Content
    <3>2. CASE writer[w].done + 1 = Blocks
      <4>1. writer' = [writer EXCEPT ![w] = [@ EXCEPT !.done = 0, !.phase = "rename",
                                                      !.fd = Absent]]
        BY <3>2
      <4>. QED BY <3>1, <4>1
    <3>3. CASE writer[w].done + 1 # Blocks
      BY <3>1, <3>3
    <3>. QED BY <3>2, <3>3
  <2>2. FileWhole'
    BY <1>2 DEF WriteBlock, TypeOK, FileWhole, Whole, WriterOwnsTmp
  <2>3. WriterOwnsTmp'
    BY <1>2, TokensDistinct, BlocksAssumption
    DEF WriteBlock, TypeOK, WriterOwnsTmp, WriterState, OneWriter, Whole, Content
  <2>4. ReaderWhole'
    BY <1>2 DEF WriteBlock, TypeOK, ReaderWhole, Whole, WriterOwnsTmp
  <2>5. (NoTornRead /\ NoSpuriousError)'
    BY <1>2 DEF WriteBlock, TypeOK, WriterState, NoTornRead, NoSpuriousError
  <2>. QED BY <2>1, <2>2, <2>3, <2>4, <2>5
<1>3. ASSUME NEW w \in Writers, Rename(w) PROVE IInv'
  <2>1. TypeOK'
    BY <1>3 DEF Rename, TypeOK, WriterState, ReaderState
  <2>2. links["tmp"] # Absent /\ links["tmp"] \in Inodes /\ writer[w].val \in Values
        /\ Whole(links["tmp"], writer[w].val)
    BY <1>3 DEF Rename, TypeOK, WriterOwnsTmp
  <2>3. FileWhole'
    BY <1>3, <2>2, TokensDistinct DEF Rename, TypeOK, FileWhole, Whole
  <2>4. WriterOwnsTmp'
    BY <1>3, <2>2, TokensDistinct DEF Rename, TypeOK, WriterOwnsTmp, WriterState, OneWriter, Whole
  <2>5. ReaderWhole'
    BY <1>3 DEF Rename, TypeOK, ReaderWhole, Whole
  <2>6. (NoTornRead /\ NoSpuriousError)'
    BY <1>3, <2>2 DEF Rename, TypeOK, WriterState, NoTornRead, NoSpuriousError
  <2>. QED BY <2>1, <2>3, <2>4, <2>5, <2>6
<1>4. ASSUME NEW w \in Writers, Delete(w) PROVE IInv'
  <2>1. TypeOK'
    BY <1>4 DEF Delete, TypeOK, WriterState, ReaderState
  <2>2. FileWhole' /\ ReaderWhole'
    BY <1>4 DEF Delete, TypeOK, FileWhole, ReaderWhole, Whole
  <2>3. WriterOwnsTmp'
    BY <1>4 DEF Delete, TypeOK, WriterOwnsTmp, WriterState, OneWriter, Whole
  <2>4. (NoTornRead /\ NoSpuriousError)'
    BY <1>4 DEF Delete, TypeOK, WriterState, NoTornRead, NoSpuriousError
  <2>. QED BY <2>1, <2>2, <2>3, <2>4
<1>5. ASSUME NEW w \in Writers, Crash(w) PROVE IInv'
  BY <1>5, TokensDistinct, BlocksAssumption
  DEF Crash, TypeOK, WriterState, ReaderState, FileWhole, ReaderWhole, WriterOwnsTmp,
      OneWriter, Whole, NoTornRead, NoSpuriousError
<1>6. ASSUME NEW r \in Readers, OpenRead(r) PROVE IInv'
  <2>1. TypeOK'
    <3>. USE <1>6 DEF OpenRead, TypeOK, ReaderState
    <3>1. CASE links["file"] = Absent
      BY <3>1
    <3>2. CASE links["file"] # Absent
      <4>1. reader' = [reader EXCEPT ![r] = [@ EXCEPT !.phase = "read", !.fd = links["file"]]]
        BY <3>2
      <4>. QED BY <4>1
    <3>. QED BY <3>1, <3>2
  <2>2. FileWhole' /\ WriterOwnsTmp'
    BY <1>6 DEF OpenRead, FileWhole, WriterOwnsTmp, Whole
  <2>3. ReaderWhole'
    BY <1>6 DEF OpenRead, TypeOK, FileWhole, ReaderWhole, ReaderState, Whole
  <2>4. (NoTornRead /\ NoSpuriousError)'
    BY <1>6, TokensDistinct DEF OpenRead, TypeOK, ReaderState, NoTornRead, NoSpuriousError
  <2>. QED BY <2>1, <2>2, <2>3, <2>4
<1>7. ASSUME NEW r \in Readers, FinishRead(r) PROVE IInv'
  <2>1. PICK v \in Values : Whole(reader[r].fd, v)
    BY <1>7 DEF FinishRead, ReaderWhole
  <2>2. Parse(content[reader[r].fd]) = v
    BY <1>7, <2>1, ParseWhole DEF FinishRead, TypeOK, ReaderState, ReaderWhole, Whole
  <2>3. TypeOK'
    BY <1>7, <2>2 DEF FinishRead, TypeOK, WriterState, ReaderState
  <2>4. FileWhole' /\ WriterOwnsTmp' /\ ReaderWhole'
    BY <1>7 DEF FinishRead, TypeOK, FileWhole, WriterOwnsTmp, ReaderWhole, ReaderState, Whole
  <2>5. (NoTornRead /\ NoSpuriousError)'
    BY <1>7, <2>2, TokensDistinct DEF FinishRead, TypeOK, ReaderState, NoTornRead, NoSpuriousError
  <2>. QED BY <2>3, <2>4, <2>5
<1>8. CASE UNCHANGED vars
  BY <1>8 DEF vars, TypeOK, FileWhole, WriterOwnsTmp, ReaderWhole, Whole, NoTornRead,
              NoSpuriousError
<1>. QED BY <1>1, <1>2, <1>3, <1>4, <1>5, <1>6, <1>7, <1>8 DEF Next

\* The strengthened invariant holds in every reachable state.
THEOREM Invariance == ASSUME OneWriter PROVE Spec => []IInv
<1>1. OneWriter
  OBVIOUS
<1>2. IInv /\ [Next]_vars => IInv'
  BY <1>1, StepIInv
<1>. QED BY <1>2, InitIInv, PTL DEF Spec

\* No reader of a file with one writer ever sees a half-written document.
THEOREM ReadsAreWhole == ASSUME OneWriter PROVE Spec => []NoTornRead
<1>1. IInv => NoTornRead
  BY DEF IInv
<1>. QED BY <1>1, Invariance, PTL

\* The rename of the only writer finds the temporary file it wrote, so writeJsonFile
\* reports no failure for a document it stored (fileStore.ts:30).
THEOREM RenamesSucceed == ASSUME OneWriter PROVE Spec => []NoSpuriousError
<1>1. IInv => NoSpuriousError
  BY DEF IInv
<1>. QED BY <1>1, Invariance, PTL

\* What writeJsonFile acknowledged is in the file.
THEOREM AcksAreStored == ASSUME OneWriter PROVE Spec => []AckedIsStored
<1>1. IInv => AckedIsStored
  <2>. SUFFICES ASSUME IInv, NEW w \in Writers, writer[w].ack = "stored"
                PROVE  /\ links[FilePath] # Absent
                       /\ Parse(content[links[FilePath]]) = writer[w].val
    BY DEF AckedIsStored
  <2>. QED BY ParseWhole DEF IInv, TypeOK, WriterOwnsTmp, Whole, FilePath, Paths
<1>. QED BY <1>1, Invariance, PTL

\* fileStore.ts implements the atomic file: rename stores, open reads, and the
\* other system calls are invisible.
THEOREM Refinement == ASSUME OneWriter PROVE Spec => Refines
<1>. DEFINE fileValue == IF links[FilePath] = Absent THEN Null
                         ELSE Parse(content[links[FilePath]])
            gotValue == [r \in Readers |-> IF reader[r].phase = "read"
                                           THEN Parse(content[reader[r].fd])
                                           ELSE reader[r].got]
<1>1. Init => Abstract!Init
  BY DEF Init, Abstract!Init, FilePath, Paths
<1>2. OneWriter /\ IInv /\ IInv' /\ [Next]_vars => [Abstract!Next]_(Abstract!vars)
  <2>. SUFFICES ASSUME OneWriter, IInv, IInv', [Next]_vars
                PROVE  [Abstract!Next]_(Abstract!vars)
    OBVIOUS
  <2>. USE DEF IInv, FilePath, TmpPath, Paths
  <2>1. ASSUME NEW w \in Writers, NEW v \in Values, NEW i \in Inodes, OpenTmp(w, v, i)
        PROVE  fileValue' = fileValue /\ gotValue' = gotValue
    <3>1. i # links["file"] /\ \A r \in Readers : reader[r].phase = "read" => reader[r].fd # i
      BY <2>1 DEF OpenTmp, Free, FileWhole, ReaderWhole, TypeOK
    <3>2. \A j \in Inodes : j # i => content'[j] = content[j]
      BY <2>1 DEF OpenTmp, TypeOK
    <3>3. links'["file"] = links["file"] /\ reader' = reader
      BY <2>1 DEF OpenTmp, TypeOK
    <3>4. fileValue' = fileValue
      BY <3>1, <3>2, <3>3 DEF TypeOK, Parse
    <3>5. \A r \in Readers : reader[r].phase = "read" =>
                              content'[reader[r].fd] = content[reader[r].fd]
      BY <3>1, <3>2 DEF TypeOK, ReaderState, ReaderWhole
    <3>. QED BY <3>3, <3>4, <3>5 DEF Parse
  <2>2. ASSUME NEW w \in Writers, WriteBlock(w)
        PROVE  fileValue' = fileValue /\ gotValue' = gotValue
    <3>1. /\ writer[w].fd \in Inodes /\ writer[w].fd # links["file"]
          /\ \A r \in Readers : reader[r].phase = "read" => reader[r].fd # writer[w].fd
      BY <2>2 DEF WriteBlock, TypeOK, WriterState, FileWhole, WriterOwnsTmp, ReaderWhole
    <3>2. \A j \in Inodes : j # writer[w].fd => content'[j] = content[j]
      BY <2>2 DEF WriteBlock, TypeOK
    <3>3. links'["file"] = links["file"] /\ reader' = reader
      BY <2>2 DEF WriteBlock
    <3>4. fileValue' = fileValue
      BY <3>1, <3>2, <3>3 DEF TypeOK, Parse
    <3>5. \A r \in Readers : reader[r].phase = "read" =>
                              content'[reader[r].fd] = content[reader[r].fd]
      BY <3>1, <3>2 DEF TypeOK, ReaderState, ReaderWhole
    <3>. QED BY <3>3, <3>4, <3>5 DEF Parse
  <2>3. ASSUME NEW w \in Writers, Rename(w) PROVE Abstract!Store
    <3>1. /\ links["tmp"] # Absent /\ links["tmp"] \in Inodes
          /\ writer[w].val \in Values /\ Whole(links["tmp"], writer[w].val)
      BY <2>3 DEF Rename, TypeOK, WriterOwnsTmp
    <3>2. links'["file"] = links["tmp"] /\ content' = content /\ reader' = reader
      BY <2>3, <3>1 DEF Rename, TypeOK
    <3>3. fileValue' = writer[w].val
      BY <3>1, <3>2, ParseWhole DEF Whole, TypeOK
    <3>4. gotValue' = gotValue
      BY <3>2 DEF Parse
    <3>. QED BY <3>1, <3>3, <3>4 DEF Abstract!Store
  <2>4. ASSUME NEW w \in Writers, Delete(w) PROVE Abstract!Remove
    BY <2>4 DEF Delete, Abstract!Remove, TypeOK, Parse
  <2>5. ASSUME NEW w \in Writers, Crash(w)
        PROVE  fileValue' = fileValue /\ gotValue' = gotValue
    BY <2>5 DEF Crash, Parse
  <2>6. ASSUME NEW r \in Readers, OpenRead(r) PROVE Abstract!Read(r)
    <3>1. fileValue' = fileValue
      BY <2>6 DEF OpenRead, Parse
    <3>2. gotValue' = [gotValue EXCEPT ![r] = fileValue]
      <4>1. content' = content /\ \A x \in Readers \ {r} : reader'[x] = reader[x]
        BY <2>6 DEF OpenRead, TypeOK
      <4>2. IF links["file"] = Absent
            THEN reader'[r].phase = "idle" /\ reader'[r].got = Null
            ELSE reader'[r].phase = "read" /\ reader'[r].fd = links["file"]
        BY <2>6 DEF OpenRead, TypeOK, ReaderState
      <4>3. \A x \in Readers \ {r} : gotValue'[x] = gotValue[x]
        BY <4>1 DEF Parse
      <4>4. gotValue'[r] = fileValue
        BY <4>1, <4>2 DEF Parse
      <4>. QED BY <4>3, <4>4
    <3>. QED BY <3>1, <3>2 DEF Abstract!Read
  <2>7. ASSUME NEW r \in Readers, FinishRead(r)
        PROVE  fileValue' = fileValue /\ gotValue' = gotValue
    BY <2>7 DEF FinishRead, TypeOK, ReaderState, Parse
  <2>8. CASE UNCHANGED vars
    BY <2>8 DEF vars, Abstract!vars, Parse
  <2>. QED BY <2>1, <2>2, <2>3, <2>4, <2>5, <2>6, <2>7, <2>8
           DEF Next, Abstract!Next, Abstract!vars
<1>3. OneWriter
  OBVIOUS
<1>4. IInv /\ IInv' /\ [Next]_vars => [Abstract!Next]_(Abstract!vars)
  BY <1>2, <1>3
<1>. QED BY <1>1, <1>4, Invariance, PTL DEF Spec, Refines, Abstract!Spec
===============================================================================
