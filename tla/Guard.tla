-------------------------------- MODULE Guard --------------------------------
(***************************************************************************)
(* The judgement of a prompt (backend/internal/guard/guard.go, and         *)
(* classifyAndAudit of server/guard.go): three remote classifiers are      *)
(* asked one after the other, the rules of the program itself look for     *)
(* personal data and secrets, and the policy in force when all of them     *)
(* have answered decides.  Operators replace the policy meanwhile.  A      *)
(* classifier that is down, or answers something else, found nothing.      *)
(***************************************************************************)
EXTENDS Naturals, Sequences, SequencesExt

CONSTANT MaxEdits   \* bound: policies saved

VARIABLE guard

\* What a prompt can be found to hold, in the order in which it is judged.
Axes == <<"jailbreak", "pii", "secrets">>
Rule(enabled, action) == [enabled |-> enabled, action |-> action]
DefaultPolicy == [t \in ToSet(Axes) |-> Rule(TRUE, "block")]
\* A body may leave the action out.
PolicyRules == {Rule(FALSE, "block"), Rule(TRUE, "flag"), Rule(TRUE, "")}

Allowed == [decision |-> "allowed", types |-> <<>>, reason |-> "none"]
Unjudged == [decision |-> "none", types |-> <<>>, reason |-> "none"]

(* holds is what the prompt holds, local what the rules of the program see *)
(* of it; found is what was found, heard what a classifier said yes to.    *)
(* during (history): the policies in force since the judgement began, as   *)
(* they were sent.                                                         *)
Arrived(enabled) ==
    [enabled |-> enabled, policy |-> DefaultPolicy, sent |-> DefaultPolicy, edits |-> 0, stage |-> "idle", local |-> {},
     heard |-> {}, found |-> {}, during |-> {}, verdict |-> Unjudged, rows |-> <<>>, upstream |-> FALSE]

-----------------------------------------------------------------------------
norm(rule) == IF rule.action # "flag" THEN [rule EXCEPT !.action = "block"] ELSE rule
\* The policy is stored as it was sent.
SetPolicy_AsSent(p) ==
    /\ guard.enabled /\ guard.edits < MaxEdits
    /\ guard' = [guard EXCEPT !.policy = p, !.sent = p, !.edits = @ + 1, !.during = @ \cup {p}]
SetPolicy(p) ==
    /\ guard.enabled /\ guard.edits < MaxEdits
    /\ guard' = [guard EXCEPT !.policy = [t \in DOMAIN p |-> norm(p[t])], !.sent = p, !.edits = @ + 1, !.during = @ \cup {p}]

\* Judged axis by axis: what blocks first gives the reason, what flags does not undo a block.
Judge(v, t, policy, found) ==
    IF t \notin found \/ ~policy[t].enabled THEN v
    ELSE IF policy[t].action = "block"
           THEN [decision |-> "blocked", types |-> Append(v.types, t), reason |-> IF v.decision # "blocked" THEN t ELSE v.reason]
           ELSE [v EXCEPT !.types = Append(@, t), !.decision = IF @ = "allowed" THEN "flagged" ELSE @]
Verdict(policy, found) ==
    LET first == Judge(Allowed, Axes[1], policy, found)
        second == Judge(first, Axes[2], policy, found)
    IN  Judge(second, Axes[3], policy, found)

SentOn(v) == v.decision # "blocked"
\* The verdict is written down whatever it is; what is blocked is not sent on.
Audited(g, v) == [g EXCEPT !.stage = "done", !.verdict = v, !.upstream = SentOn(v),
                     !.rows = Append(@, [decision |-> v.decision, status |-> IF v.decision = "blocked" THEN 403 ELSE 200])]

Classify(local) ==
    /\ guard.stage = "idle"
    /\ guard' = IF guard.enabled THEN [guard EXCEPT !.stage = "pii", !.local = local, !.during = {guard.sent}]
                ELSE Audited([guard EXCEPT !.local = local], Allowed)
\* A classifier says yes, or it says no or does not answer.
ClassifyPII(yes) ==
    /\ guard.stage = "pii"
    /\ guard' = [guard EXCEPT !.stage = "security", !.heard = @ \cup {t \in {"pii"} : yes},
                     !.found = @ \cup {t \in {"pii"} : yes \/ "pii" \in guard.local}]
ClassifySecurity(yes) ==
    /\ guard.stage = "security"
    /\ guard' = [guard EXCEPT !.stage = "intent", !.heard = @ \cup {t \in {"jailbreak"} : yes},
                     !.found = @ \cup {t \in {"jailbreak"} : yes} \cup (guard.local \cap {"secrets"})]
\* The intent is not judged; it takes its time.
ClassifyIntent ==
    /\ guard.stage = "intent"
    /\ guard' = Audited(guard, Verdict(guard.policy, guard.found))

GuardNext ==
    \/ \E p \in [ToSet(Axes) -> PolicyRules] : SetPolicy(p)
    \/ \E local \in SUBSET {"pii", "secrets"} : Classify(local)
    \/ \E yes \in BOOLEAN : ClassifyPII(yes) \/ ClassifySecurity(yes)
    \/ ClassifyIntent

GuardInit == guard \in {Arrived(enabled) : enabled \in BOOLEAN}
GuardSpec == GuardInit /\ [][GuardNext]_guard

-----------------------------------------------------------------------------
(* A verdict is that of one policy, which was in force while the prompt    *)
(* was judged: it names what was found and is watched for, it blocks when  *)
(* the action of any of it is not to flag, and gives one such as reason.   *)
(* What the rules of the program see is found although every classifier is *)
(* down.  A prompt that was blocked is not sent on, and its one row says   *)
(* so.                                                                     *)
VerdictIsOfOnePolicy ==
    guard.stage = "done" =>
        /\ \E p \in guard.during \cup {q \in {DefaultPolicy} : ~guard.enabled} :
              LET watched == {t \in guard.local \cup guard.heard : guard.enabled /\ p[t].enabled}
                  blocking == {t \in watched : p[t].action # "flag"}
              IN  /\ ToSet(guard.verdict.types) = watched
                  /\ guard.verdict.decision = IF blocking # {} THEN "blocked" ELSE IF watched # {} THEN "flagged" ELSE "allowed"
                  /\ guard.verdict.reason \in IF blocking # {} THEN blocking ELSE {"none"}
        /\ guard.upstream = (guard.verdict.decision # "blocked")
        /\ guard.rows = <<[decision |-> guard.verdict.decision, status |-> IF guard.upstream THEN 200 ELSE 403]>>
=============================================================================
