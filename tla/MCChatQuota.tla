---------------------------- MODULE MCChatQuota ----------------------------
(* An instance of ChatQuota for TLC: one key, two requests at a time, two   *)
(* days of a minute; a budget with a warning level below it, and one so small *)
(* that the level rounds to 0.                                                *)
EXTENDS ChatQuota
MCSymmetry == Permutations(Requests)
MCLimits == {[rpm |-> 2, tpd |-> 4, at |-> 50], [rpm |-> 0, tpd |-> 1, at |-> 80]}
MCReplies == {0, 2}
=============================================================================
