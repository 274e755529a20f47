----------------------------- MODULE MCIncident -----------------------------
(* An instance of Incident for TLC: two incidents, one operator; a second is *)
(* two clock readings, and an operator silences for one second or for two.   *)
EXTENDS Incident
MCDurations == {2, 4}
=============================================================================
