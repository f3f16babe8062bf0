------------------------------ MODULE AuditLog ------------------------------
(***************************************************************************)
(* What a log of schedule_audit_log tells of its entry or job, for the     *)
(* AUDIT rules of the cash book and of the planner.  A row of the log has  *)
(* an action - "create", "update" or "delete" - and the changes: the new   *)
(* value of every column it tells of.                                      *)
(***************************************************************************)
EXTENDS Integers, Sequences

(* There is something to tell of: it was created, and not deleted since.   *)
Standing(log) == log # <<>> /\ log[Len(log)].action # "delete"

(* The value is that of the last row of the log that tells of the column;  *)
(* only updates came after it.                                             *)
LastTold(log, column, value) ==
    \E i \in DOMAIN log :
        /\ column \in DOMAIN log[i].changes /\ log[i].changes[column] = value
        /\ \A j \in DOMAIN log :
              j > i => log[j].action = "update" /\ column \notin DOMAIN log[j].changes
=============================================================================
