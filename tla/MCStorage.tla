------------------------------ MODULE MCStorage ------------------------------
(* Small instances of HybridStore, RequestLog and AdminSessions for TLC.   *)
(* They use tables of their own and share no state, so a behaviour is of   *)
(* one of them while the others rest.                                      *)
EXTENDS HybridStore, RequestLog, AdminSessions, TLC

VARIABLE part

StorageVars == <<rowVars, logVars, sessionVars, part>>

StorageInit ==
    /\ part \in {"rows", "logs", "sessions"}
    /\ HybridInit /\ RequestLogInit /\ SessionsInit

StorageNext ==
    /\ \/ part = "rows" /\ HybridNext /\ UNCHANGED <<logVars, sessionVars>>
       \/ part = "logs" /\ RequestLogNext /\ UNCHANGED <<rowVars, sessionVars>>
       \/ part = "sessions" /\ SessionsNext /\ UNCHANGED <<rowVars, logVars>>
    /\ UNCHANGED part

StorageSpec == StorageInit /\ [][StorageNext]_StorageVars /\ RequestLogFairness

(* Rows, configurations and their writers can be renamed.  EndsInMySQL and the *)
(* fairness speak of the log, whose state no renaming changes.                 *)
RowSymmetry == Permutations(Ids) \cup Permutations(Confs) \cup Permutations(RowWriters)

StorageTypeOK == HybridTypeOK /\ RequestLogTypeOK /\ SessionsTypeOK
=============================================================================
