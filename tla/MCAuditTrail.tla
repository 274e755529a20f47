---------------------------- MODULE MCAuditTrail ----------------------------
(* An instance of AuditTrail for TLC: four requests, a channel that overflows *)
(* and batches that fill up as well as batches only the ticker completes.     *)
EXTENDS AuditTrail
=============================================================================
