------------------------------ MODULE MCWhoWorker ------------------------------
(* Instances of WhoWorker for TLC: workers and clients are the callers of the *)
(* job service, and the stages are those of a who.lookup job.                 *)
EXTENDS WhoWorker, TLC
MCCallers == Workers \cup Clients
MCStages  == {"policy", "discover", "dossier", "audit"}
\* Bound of the run with two workers: states after the second dossier of a job are
\* not explored further.
FewDossiers == \A j \in Jobs : dossiers[j] < 2
WorkerSymmetry == Permutations(Workers)
===============================================================================
