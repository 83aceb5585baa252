---------------------------- MODULE MCAuditLogger ----------------------------
(* Instances of the audit logger for TLC: two writing threads, one reader. *)
EXTENDS AuditLogger

CONSTANTS t1, t2, dashboard
=============================================================================
