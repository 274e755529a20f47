---------------------------- MODULE MaskingPolicy ----------------------------
(***************************************************************************)
(* The policy of what is kept of prompts and answers: the server stores it *)
(* for the operators (backend/internal/server/masking.go and the stores),  *)
(* and the forwarder to Langfuse polls it (backend/internal/glue/policy.go)*)
(* and applies its copy (glue/mask.go).  A poll that fails keeps the copy; *)
(* a forwarder that restarts begins with the default.                      *)
(***************************************************************************)
EXTENDS Naturals, FiniteSets

CONSTANTS MaxSaves,      \* bound: changes of what is stored
          MaxRestarts    \* bound: of the server and the forwarder

VARIABLE masking

Policy(enabled, input, output, blocked, rules) ==
    [enabled |-> enabled, input |-> input, output |-> output, blocked |-> blocked, rules |-> rules]
\* Of the default rules those for a number and for a name stand for all.
DefaultMaskingPolicy == Policy(TRUE, "masked", "masked", "full", [phone |-> "mask", name |-> "mask"])
Saved == {Policy(TRUE, "none", "masked", "", [phone |-> "hash", name |-> "keep"]),
          Policy(FALSE, "masked", "none", "masked", [name |-> "remove"])}

(* What the server has for a store when it starts (cmd/api/main.go): the   *)
(* database if one is configured and reached, otherwise the store in       *)
(* memory of the mock source, otherwise none, and then the default is in   *)
(* force.                                                                  *)
StoreOf(database, mock, reached) ==
    IF database /\ reached THEN "postgres" ELSE IF mock THEN "memory" ELSE "none"

(* db is what the database holds, whoever is connected; stored is what is  *)
(* in force at the server.  What is in force has a number, later ones the  *)
(* greater (history).  floor (history): what was in force when the last    *)
(* poll that succeeded began.                                              *)
Default == [policy |-> DefaultMaskingPolicy, n |-> 0]
Started(database, mock, reached) ==
    [database |-> database, mock |-> mock, store |-> StoreOf(database, mock, reached), db |-> DefaultMaskingPolicy,
     stored |-> Default, saves |-> 0, restarts |-> 0, saving |-> {}, answered |-> {}, current |-> Default,
     polls |-> {}, floor |-> 0]

-----------------------------------------------------------------------------
(* handleSetMaskingPolicy: stored, perhaps also when the store reports a   *)
(* failure; then read again, and the answer is what was read, or what was  *)
(* sent if that fails.  Without a store there is nothing to save to.       *)
SetMaskingPolicy(p, stored, ok) ==
    LET next == [policy |-> p, n |-> masking.stored.n + 1]
    IN  /\ masking.store # "none" /\ masking.saves < MaxSaves
        /\ ok => stored
        /\ masking.store = "memory" => ok
        /\ masking' = [masking EXCEPT !.saves = @ + 1, !.stored = IF stored THEN next ELSE @,
                           !.db = IF stored /\ masking.store = "postgres" THEN p ELSE @,
                           !.saving = IF ok THEN @ \cup {next} ELSE @]
ReadBack(s, ok) ==
    /\ s \in masking.saving
    /\ masking.store = "memory" => ok
    /\ masking' = [masking EXCEPT !.saving = @ \ {s}, !.answered = {[sent |-> s.n, got |-> IF ok THEN masking.stored.n ELSE s.n]}]

\* What is stored in memory goes with the server, and a server that does not
\* reach its database comes up without what is stored there.
RestartServer(reached) ==
    LET store == StoreOf(masking.database, masking.mock, reached)
        found == [policy |-> IF store = "postgres" THEN masking.db ELSE DefaultMaskingPolicy, n |-> masking.stored.n + 1]
    IN  /\ masking.restarts < MaxRestarts
        /\ masking' = [masking EXCEPT !.restarts = @ + 1, !.saving = {}, !.store = store,
                           !.stored = IF store = masking.store /\ store # "memory" THEN @ ELSE found]

\* A poll that does not wait for the end of the one before.
refresh_Alongside ==
    /\ Cardinality(masking.polls) < 2
    /\ masking' = [masking EXCEPT !.polls = @ \cup {[from |-> masking.stored.n, got |-> {}]}]
refresh ==
    /\ masking.polls = {}
    /\ masking' = [masking EXCEPT !.polls = {[from |-> masking.stored.n, got |-> {}]}]
GetMaskingPolicy(poll) ==
    /\ poll \in masking.polls /\ poll.got = {}
    /\ masking' = [masking EXCEPT !.polls = (@ \ {poll}) \cup {[poll EXCEPT !.got = {masking.stored}]}]
\* The answer arrives, whole.
Polled(poll) ==
    /\ poll \in masking.polls
    /\ \E v \in poll.got :
           masking' = [masking EXCEPT !.polls = @ \ {poll}, !.current = v,
                           !.floor = IF poll.from > @ THEN poll.from ELSE @]
\* It does not, or says something else, at any time within the limit.
PollFails(poll) ==
    /\ poll \in masking.polls
    /\ masking' = [masking EXCEPT !.polls = @ \ {poll}]

\* The forwarder begins again.
Forgotten == [masking EXCEPT !.restarts = @ + 1, !.current = Default, !.polls = {}, !.floor = 0]

MaskingNext ==
    \/ \E p \in Saved, stored, ok \in BOOLEAN : SetMaskingPolicy(p, stored, ok)
    \/ \E s \in masking.saving, ok \in BOOLEAN : ReadBack(s, ok)
    \/ \E reached \in BOOLEAN : RestartServer(reached)
    \/ refresh
    \/ \E poll \in masking.polls : GetMaskingPolicy(poll) \/ Polled(poll) \/ PollFails(poll)

-----------------------------------------------------------------------------
(* Apply: which parts of a text can still be read in what is kept of it.   *)
(* A text has words and personal data; a number is found by its form, a    *)
(* name only if whoever sent the text points it out.                       *)
Parts == {"words", "phone", "name"}
Detectors == {"phone"}
RuleOf(p, type) == IF type \in DOMAIN p.rules THEN p.rules[type] ELSE "keep"
mask(p, pointedOut) == {part \in Parts : part = "words" \/ part \notin pointedOut \cup Detectors \/ RuleOf(p, part) = "keep"}
Apply(p, mode, pointedOut) ==
    CASE mode = "none" -> {}
      [] mode = "full" -> Parts
      [] OTHER -> IF p.enabled THEN mask(p, pointedOut) ELSE Parts

(* The copy of the policy is never older than what was in force at the     *)
(* server when its last successful poll began, through polls that fail,    *)
(* saves by several operators and restarts of the server, with or without  *)
(* its database; nor is what a save is answered with older than what it    *)
(* sent.                                                                   *)
CopyFollowsTheStore ==
    /\ masking.floor <= masking.current.n /\ masking.current.n <= masking.stored.n
    /\ \A a \in masking.answered : a.sent <= a.got
=============================================================================
