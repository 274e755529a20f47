------------------------- MODULE IncidentLifecycle -------------------------
(***************************************************************************)
(* What the incident inbox promises, without its bookkeeping: which phase  *)
(* an incident is in and when a silenced one comes back.                   *)
(*                                                                         *)
(* One step handles one incident, and may on the way wake any silenced     *)
(* ones whose time has come.  An incident that is not woken is left alone. *)
(***************************************************************************)
EXTENDS Naturals

CONSTANT Keys

VARIABLES phase, wake, clock

abstractVars == <<phase, wake, clock>>

Phases == {"absent", "triggered", "acked", "resolved", "snoozed"}
Open   == {"triggered", "acked", "snoozed"}

Due(k)  == phase[k] = "snoozed" /\ clock >= wake[k]
Kept(k) == phase'[k] = phase[k] /\ wake'[k] = wake[k]
Woken(k) == Due(k) /\ phase'[k] = "triggered"

\* The signal came (again): a new, resolved or silenced incident is triggered,
\* one that is being looked at stays with whoever has it.
Raised(k) ==
  \/ phase[k] \in {"absent", "resolved", "snoozed"} /\ phase'[k] = "triggered"
  \/ phase[k] \in {"triggered", "acked"} /\ phase'[k] = phase[k]

Closed(k)    == phase[k] \in Open /\ phase'[k] = "resolved"
Accepted(k)  == phase[k] \in Open /\ phase'[k] = "acked"
\* A silence is never over before it began.
Silenced(k)  == phase[k] \in Open /\ phase'[k] = "snoozed" /\ wake'[k] > clock

Handle(k) ==
  /\ clock' = clock
  /\ \/ Raised(k) \/ Closed(k) \/ Accepted(k) \/ Silenced(k) \/ Woken(k)
     \/ Kept(k)
  /\ \A j \in Keys \ {k} : Kept(j) \/ Woken(j)

TimePasses ==
  /\ clock' > clock
  /\ \A k \in Keys : Kept(k)

Init ==
  /\ phase = [k \in Keys |-> "absent"]
  /\ wake = [k \in Keys |-> 0]
  /\ clock \in Nat

Next == TimePasses \/ \E k \in Keys : Handle(k)

Spec == Init /\ [][Next]_abstractVars
=============================================================================
