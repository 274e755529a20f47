----------------------------- MODULE MCChatPath -----------------------------
(***************************************************************************)
(* What a chat request meets: its quota, the judgement of its prompt, and  *)
(* what is kept of the exchange.  The part that is live runs from          *)
(* beginning to end, the others are at rest.                               *)
(***************************************************************************)
EXTENDS MCChatQuota, Guard, Ingestion

VARIABLE live

\* Exchanges that are kept differently: in full or not, with a name that was pointed out, with five events, four or three.
Exchange(decision, pointedOut) == [decision |-> decision, pointedOut |-> pointedOut, suspected |-> decision = "blocked"]
Blocked == Exchange("blocked", {"name"})
Passed == {Exchange("allowed", {"name"}), Exchange("", {})}
MCExchanges == {Blocked} \cup Passed

\* The masking policy alone, one exchange while it changes, and two that share the queue.
ForwarderBounds ==
    [policies |-> [saves |-> 2, restarts |-> 2, exchanges |-> {}],
     capture |-> [saves |-> 1, restarts |-> 1, exchanges |-> {Blocked}],
     captures |-> [saves |-> 0, restarts |-> 0, exchanges |-> Passed]]

pathVars == <<live, guard, masking, traces, sinkVars>>

PathInit ==
    /\ live \in {"chat", "guard"} \cup DOMAIN ForwarderBounds
    /\ IF live = "chat" THEN Init
       ELSE Init /\ store = "memory" /\ limits = [k \in Keys |-> [rpm |-> 0, tpd |-> 1, at |-> 80]] /\ notify = [k \in Keys |-> FALSE]
    /\ IF live = "guard" THEN GuardInit ELSE guard = Arrived(FALSE)
    /\ IF live = "policies" THEN IngestionInit ELSE IngestionInit /\ masking = Started(TRUE, FALSE, TRUE)

PathNext ==
    \/ live = "chat" /\ Next /\ UNCHANGED pathVars
    \/ live = "guard" /\ GuardNext /\ UNCHANGED <<vars, live, masking, traces, sinkVars>>
    \/ /\ live \in DOMAIN ForwarderBounds
       /\ IngestionNext /\ UNCHANGED <<vars, live, guard>>
       /\ masking'.saves <= ForwarderBounds[live].saves /\ masking'.restarts <= ForwarderBounds[live].restarts
       /\ traces'.captured \subseteq ForwarderBounds[live].exchanges
    \/ live # "chat" /\ UNCHANGED <<vars, pathVars>>   \* what is at its bounds may stop

PathSpec == PathInit /\ [][PathNext]_<<vars, pathVars>>
=============================================================================
