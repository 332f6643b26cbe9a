------------------------------- MODULE MCRecords -------------------------------
(* One instance of the three kinds of files an attempt at a job touches,      *)
(* which share no state: a JSON file and its temporary, the audit chain, and  *)
(* the dossiers with their index.  A behaviour is one of theirs, the others'  *)
(* files staying as they begin.                                               *)
EXTENDS FileStore, WhoAudit, Dossiers

RecordsInit == Init /\ AuditInit /\ DossiersInit
RecordsNext ==
    \/ AuditInit /\ DossiersInit /\ Next /\ UNCHANGED <<auditVars, dossiersVars>>
    \/ Init /\ DossiersInit /\ AuditNext /\ UNCHANGED <<vars, dossiersVars>>
    \/ Init /\ AuditInit /\ DossiersNext /\ UNCHANGED <<vars, auditVars>>
RecordsSpec == RecordsInit /\ [][RecordsNext]_<<vars, auditVars, dossiersVars>>

RecordsTypeOK == AuditTypeOK /\ DossiersTypeOK
===============================================================================
