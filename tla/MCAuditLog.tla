----------------------------- MODULE MCAuditLog -----------------------------
(* Small instance of AuditLog: a short and a long event, two processes.     *)
EXTENDS AuditLog

CONSTANTS short, long

MCEvent == {short, long}
MCEntrySize == [e \in MCEvent |-> IF e = short THEN 1 ELSE 2]
=============================================================================
