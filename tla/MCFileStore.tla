------------------------------ MODULE MCFileStore ------------------------------
(* Instances of FileStore for TLC: two blocks, two documents, and enough      *)
(* inodes for the file, the temporary and one per open reader.                *)
EXTENDS FileStore, TLC
===============================================================================
