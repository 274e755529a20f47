--------------------------- MODULE ChatPathProofs ---------------------------
(***************************************************************************)
(* Proofs about what a chat request meets besides its quota: the judgement *)
(* of its prompt (Guard), the copy of the masking policy (MaskingPolicy)   *)
(* and the events that are kept of the exchange (Ingestion), for any       *)
(* number of policies saved and restarts, any exchanges, and a queue and a *)
(* batch of any size.                                                      *)
(***************************************************************************)
EXTENDS Guard, Ingestion, TLAPS

-----------------------------------------------------------------------------
(* Sequences as the set of what they hold.                                 *)

\* A sequence holds what is found at its positions.
LEMMA InSequence ==
  \A S : \A s \in Seq(S) :
    /\ ToSet(s) \subseteq S
    /\ Len(s) \in Nat
    /\ \A e : e \in ToSet(s) <=> \E i \in 1 .. Len(s) : s[i] = e
BY DEF ToSet

\* What is appended is added.
LEMMA InAppended ==
  \A S : \A s \in Seq(S), e \in S :
    /\ Append(s, e) \in Seq(S)
    /\ ToSet(Append(s, e)) = ToSet(s) \cup {e}
<1> SUFFICES ASSUME NEW S, NEW s \in Seq(S), NEW e \in S
             PROVE  Append(s, e) \in Seq(S) /\ ToSet(Append(s, e)) = ToSet(s) \cup {e}
  OBVIOUS
<1>1. /\ Append(s, e) \in Seq(S) /\ Len(s) \in Nat /\ Len(Append(s, e)) = Len(s) + 1
      /\ DOMAIN s = 1 .. Len(s) /\ DOMAIN Append(s, e) = 1 .. Len(s) + 1
      /\ Append(s, e)[Len(s) + 1] = e
      /\ \A i \in 1 .. Len(s) : Append(s, e)[i] = s[i]
  OBVIOUS
<1>2. \A i : i \in 1 .. Len(s) + 1 <=> i \in 1 .. Len(s) \/ i = Len(s) + 1
  BY <1>1
<1>3. ASSUME NEW x PROVE x \in ToSet(Append(s, e)) <=> x \in ToSet(s) \cup {e}
  BY <1>1, <1>2 DEF ToSet
<1> QED
  BY <1>1, <1>3

\* The empty sequence holds nothing.
LEMMA InEmpty == ToSet(<<>>) = {}
BY DEF ToSet

-----------------------------------------------------------------------------
(* The verdict.                                                            *)

AxisSet == {"jailbreak", "pii", "secrets"}
SentRule == PolicyRules \cup {Rule(TRUE, "block")}
GuardPolicy == [AxisSet -> SentRule]
\* A rule that has an action.
NormalRule == [enabled : BOOLEAN, action : {"block", "flag"}]
Judgement == [decision : {"allowed", "flagged", "blocked"}, types : Seq(AxisSet), reason : AxisSet \cup {"none"}]

\* What a judgement of the axes S says of what was found, under p as it was
\* sent.
Watched(p, found, S) == {t \in S \cap found : p[t].enabled}
Blocking(p, found, S) == {t \in Watched(p, found, S) : p[t].action # "flag"}
Says(v, p, found, S) ==
  /\ v \in Judgement
  /\ ToSet(v.types) = Watched(p, found, S)
  /\ v.decision = IF Blocking(p, found, S) # {} THEN "blocked" ELSE IF Watched(p, found, S) # {} THEN "flagged" ELSE "allowed"
  /\ v.reason \in IF Blocking(p, found, S) # {} THEN Blocking(p, found, S) ELSE {"none"}

\* The policy in force is that which was sent, with an action in each rule.
Stored(p) == [t \in DOMAIN p |-> norm(p[t])]

\* The axes are those of a policy.
LEMMA AxesAre == /\ ToSet(Axes) = AxisSet
                 /\ Axes[1] = "jailbreak" /\ Axes[2] = "pii" /\ Axes[3] = "secrets"
<1>1. DOMAIN Axes = {1, 2, 3} /\ Axes[1] = "jailbreak" /\ Axes[2] = "pii" /\ Axes[3] = "secrets"
  BY DEF Axes
<1> QED
  BY <1>1 DEF ToSet, AxisSet

\* The rules a policy is sent with, and what is stored of them.
LEMMA NormOf == /\ norm(Rule(FALSE, "block")) = Rule(FALSE, "block")
                /\ norm(Rule(TRUE, "flag")) = Rule(TRUE, "flag")
                /\ norm(Rule(TRUE, "")) = Rule(TRUE, "block")
                /\ norm(Rule(TRUE, "block")) = Rule(TRUE, "block")
<1>1. norm(Rule(FALSE, "block")) = Rule(FALSE, "block")
  BY DEF norm, Rule
<1>2. norm(Rule(TRUE, "flag")) = Rule(TRUE, "flag")
  BY DEF norm, Rule
<1>3. norm(Rule(TRUE, "")) = Rule(TRUE, "block")
  BY DEF norm, Rule
<1>4. norm(Rule(TRUE, "block")) = Rule(TRUE, "block")
  BY DEF norm, Rule
<1> QED
  BY <1>1, <1>2, <1>3, <1>4

\* What the fields of these rules are.
LEMMA FieldsOf ==
  \A r :
    /\ r = Rule(FALSE, "block") => r \in NormalRule /\ r.enabled = FALSE /\ r.action = "block"
    /\ r = Rule(TRUE, "block") => r \in NormalRule /\ r.enabled = TRUE /\ r.action = "block"
    /\ r = Rule(TRUE, "flag") => r \in NormalRule /\ r.enabled = TRUE /\ r.action = "flag"
    /\ r = Rule(TRUE, "") => r.enabled = TRUE /\ r.action # "flag"
<1> TAKE r
<1>1. ASSUME r = Rule(FALSE, "block") PROVE r \in NormalRule /\ r.enabled = FALSE /\ r.action = "block"
  BY <1>1 DEF Rule, NormalRule
<1>2. ASSUME r = Rule(TRUE, "block") PROVE r \in NormalRule /\ r.enabled = TRUE /\ r.action = "block"
  BY <1>2 DEF Rule, NormalRule
<1>3. ASSUME r = Rule(TRUE, "flag") PROVE r \in NormalRule /\ r.enabled = TRUE /\ r.action = "flag"
  BY <1>3 DEF Rule, NormalRule
<1>4. ASSUME r = Rule(TRUE, "") PROVE r.enabled = TRUE /\ r.action # "flag"
  BY <1>4 DEF Rule
<1> QED
  BY <1>1, <1>2, <1>3, <1>4

\* A stored rule is watched for when the sent one is, and blocks unless the
\* sent one flags.
LEMMA StoredRule ==
  \A p \in GuardPolicy : \A t \in AxisSet :
    /\ Stored(p)[t] \in NormalRule
    /\ p[t].enabled \in BOOLEAN
    /\ Stored(p)[t].enabled = p[t].enabled
    /\ Stored(p)[t].action = "block" <=> p[t].action # "flag"
<1> SUFFICES ASSUME NEW p \in GuardPolicy, NEW t \in AxisSet
             PROVE  /\ Stored(p)[t] \in NormalRule
                    /\ p[t].enabled \in BOOLEAN
                    /\ Stored(p)[t].enabled = p[t].enabled
                    /\ Stored(p)[t].action = "block" <=> p[t].action # "flag"
  OBVIOUS
<1>1. p[t] \in SentRule /\ Stored(p)[t] = norm(p[t])
  BY DEF GuardPolicy, Stored
<1>2. CASE p[t] = Rule(FALSE, "block")
  BY <1>1, <1>2, NormOf, FieldsOf
<1>3. CASE p[t] = Rule(TRUE, "flag")
  BY <1>1, <1>3, NormOf, FieldsOf
<1>4. CASE p[t] = Rule(TRUE, "")
  <2>1. Stored(p)[t] = Rule(TRUE, "block")
    BY <1>1, <1>4, NormOf
  <2>2. p[t].enabled = TRUE /\ p[t].action # "flag"
    BY <1>4, FieldsOf
  <2> QED
    BY <2>1, <2>2, FieldsOf
<1>5. CASE p[t] = Rule(TRUE, "block")
  BY <1>1, <1>5, NormOf, FieldsOf
<1> QED
  BY <1>1, <1>2, <1>3, <1>4, <1>5 DEF SentRule, PolicyRules

\* One axis more is judged.
LEMMA JudgeSays ==
  \A p \in GuardPolicy : \A found \in SUBSET AxisSet : \A S \in SUBSET AxisSet : \A t \in AxisSet : \A v \in Judgement :
    Says(v, p, found, S) => Says(Judge(v, t, Stored(p), found), p, found, S \cup {t})
<1> SUFFICES ASSUME NEW p \in GuardPolicy, NEW found \in SUBSET AxisSet, NEW S \in SUBSET AxisSet, NEW t \in AxisSet,
                    NEW v \in Judgement, Says(v, p, found, S)
             PROVE  Says(Judge(v, t, Stored(p), found), p, found, S \cup {t})
  OBVIOUS
<1> DEFINE w == Judge(v, t, Stored(p), found)
<1>1. /\ v.types \in Seq(AxisSet) /\ v.decision \in {"allowed", "flagged", "blocked"} /\ v.reason \in AxisSet \cup {"none"}
      /\ v = [decision |-> v.decision, types |-> v.types, reason |-> v.reason]
  BY DEF Judgement
<1>2. /\ Append(v.types, t) \in Seq(AxisSet)
      /\ ToSet(Append(v.types, t)) = ToSet(v.types) \cup {t}
  BY <1>1, InAppended
<1>3. /\ Stored(p)[t] \in NormalRule
      /\ Stored(p)[t].enabled = p[t].enabled
      /\ Stored(p)[t].action = "block" <=> p[t].action # "flag"
  BY StoredRule
<1>4. CASE t \notin found \/ ~p[t].enabled
  <2>1. w = v
    BY <1>3, <1>4 DEF Judge
  <2>2. Watched(p, found, S \cup {t}) = Watched(p, found, S)
    BY <1>4 DEF Watched
  <2> QED
    BY <2>1, <2>2 DEF Says, Blocking
<1>5. CASE t \in found /\ p[t].enabled /\ p[t].action # "flag"
  <2>1. w = [decision |-> "blocked", types |-> Append(v.types, t), reason |-> IF v.decision # "blocked" THEN t ELSE v.reason]
    BY <1>3, <1>5 DEF Judge
  <2> HIDE DEF w
  <2>2. /\ Watched(p, found, S \cup {t}) = Watched(p, found, S) \cup {t}
        /\ Blocking(p, found, S \cup {t}) = Blocking(p, found, S) \cup {t}
    BY <1>5 DEF Watched, Blocking
  <2>3. w \in Judgement
    BY <1>1, <1>2, <2>1 DEF Judgement
  <2>8. w.types = Append(v.types, t) /\ w.decision = "blocked" /\ w.reason = IF v.decision # "blocked" THEN t ELSE v.reason
    BY <2>1
  <2>4. ToSet(w.types) = Watched(p, found, S \cup {t})
    BY <1>2, <2>1, <2>2, <2>8 DEF Says
  <2>5. w.reason \in Blocking(p, found, S \cup {t})
    <3>1. CASE v.decision # "blocked"
      BY <3>1, <2>8, <2>2
    <3>2. CASE v.decision = "blocked"
      <4>1. Blocking(p, found, S) # {}
        BY <3>2 DEF Says
      <4> QED
        BY <4>1, <3>2, <2>8, <2>2 DEF Says
    <3> QED
      BY <3>1, <3>2
  <2>6. w.decision = "blocked" /\ Blocking(p, found, S \cup {t}) # {}
    BY <2>8, <2>2
  <2>7. Says(w, p, found, S \cup {t})
    BY <2>3, <2>4, <2>5, <2>6 DEF Says
  <2> QED
    BY <2>7 DEF w
<1>6. CASE t \in found /\ p[t].enabled /\ p[t].action = "flag"
  <2>1. w = [v EXCEPT !.types = Append(v.types, t), !.decision = IF v.decision = "allowed" THEN "flagged" ELSE v.decision]
    BY <1>3, <1>6 DEF Judge
  <2>2. /\ w.types = Append(v.types, t) /\ w.reason = v.reason
        /\ w.decision = IF v.decision = "allowed" THEN "flagged" ELSE v.decision
    BY <1>1, <2>1
  <2>3. /\ Watched(p, found, S \cup {t}) = Watched(p, found, S) \cup {t}
        /\ Blocking(p, found, S \cup {t}) = Blocking(p, found, S)
    BY <1>6 DEF Watched, Blocking
  <2>4. w \in Judgement
    BY <1>1, <1>2, <2>1 DEF Judgement
  <2>5. ToSet(w.types) = Watched(p, found, S \cup {t})
    BY <1>2, <2>2, <2>3 DEF Says
  <2>6. w.decision = IF Blocking(p, found, S) # {} THEN "blocked" ELSE "flagged"
    BY <2>2 DEF Says
  <2>7. v.reason \in IF Blocking(p, found, S) # {} THEN Blocking(p, found, S) ELSE {"none"}
    BY DEF Says
  <2> HIDE DEF w
  <2>8. Says(w, p, found, S \cup {t})
    BY <2>2, <2>3, <2>4, <2>5, <2>6, <2>7 DEF Says
  <2> QED
    BY <2>8 DEF w
<1> QED
  BY <1>4, <1>5, <1>6

\* The verdict says all of what was found.
LEMMA VerdictSays ==
  \A p \in GuardPolicy : \A found \in SUBSET AxisSet : Says(Verdict(Stored(p), found), p, found, AxisSet)
<1> SUFFICES ASSUME NEW p \in GuardPolicy, NEW found \in SUBSET AxisSet
             PROVE  Says(Verdict(Stored(p), found), p, found, AxisSet)
  OBVIOUS
<1> DEFINE first == Judge(Allowed, "jailbreak", Stored(p), found)
           second == Judge(first, "pii", Stored(p), found)
           third == Judge(second, "secrets", Stored(p), found)
<1>1. Says(Allowed, p, found, {})
  <2>1. Watched(p, found, {}) = {} /\ Blocking(p, found, {}) = {}
    BY DEF Watched, Blocking
  <2>2. Allowed \in Judgement /\ ToSet(Allowed.types) = {}
    BY InEmpty DEF Allowed, Judgement
  <2> QED
    BY <2>1, <2>2 DEF Says, Allowed
<1>2. Says(first, p, found, {} \cup {"jailbreak"})
  <2>1. "jailbreak" \in AxisSet /\ {} \in SUBSET AxisSet /\ Allowed \in Judgement
    BY <1>1 DEF AxisSet, Says
  <2> QED
    BY <1>1, <2>1, JudgeSays
<1>3. Says(second, p, found, {"jailbreak"} \cup {"pii"})
  <2>1. /\ "pii" \in AxisSet /\ {"jailbreak"} \in SUBSET AxisSet /\ first \in Judgement
        /\ Says(first, p, found, {"jailbreak"})
    BY <1>2 DEF AxisSet, Says
  <2> HIDE DEF first
  <2> QED
    BY <2>1, JudgeSays
<1>4. Says(third, p, found, {"jailbreak", "pii"} \cup {"secrets"})
  <2>1. {"jailbreak", "pii"} = {"jailbreak"} \cup {"pii"}
    OBVIOUS
  <2>2. /\ "secrets" \in AxisSet /\ {"jailbreak", "pii"} \in SUBSET AxisSet /\ second \in Judgement
        /\ Says(second, p, found, {"jailbreak", "pii"})
    BY <1>3, <2>1 DEF AxisSet, Says
  <2> HIDE DEF second
  <2> QED
    BY <2>2, JudgeSays
<1>5. AxisSet = {"jailbreak", "pii"} \cup {"secrets"}
  BY DEF AxisSet
<1>6. Verdict(Stored(p), found) = third
  BY AxesAre DEF Verdict
<1> QED
  BY <1>4, <1>5, <1>6

-----------------------------------------------------------------------------
Row == [decision : {"allowed", "flagged", "blocked"}, status : {200, 403}]

GuardType ==
  guard \in [enabled : BOOLEAN, policy : [AxisSet -> NormalRule], sent : GuardPolicy, edits : Nat,
             stage : {"idle", "pii", "security", "intent", "done"}, local : SUBSET {"pii", "secrets"},
             heard : SUBSET AxisSet, found : SUBSET AxisSet, during : SUBSET GuardPolicy, verdict : Judgement \cup {Unjudged},
             rows : Seq(Row), upstream : BOOLEAN]

\* What was found so far is what was heard so far and what the rules of the
\* program see of the axes that were asked about.
FoundInOrder ==
  /\ guard.stage \in {"idle", "pii"} => guard.heard = {} /\ guard.found = {}
  /\ guard.stage = "security" => guard.heard \subseteq {"pii"} /\ guard.found = guard.heard \cup (guard.local \cap {"pii"})
  /\ guard.stage = "intent" => guard.found = guard.heard \cup guard.local

\* A judgement is under way only where prompts are judged, no row is written
\* before its end, and the policy in force counts as in force during it.
UnderWay ==
  /\ guard.policy = Stored(guard.sent)
  /\ guard.stage # "done" => guard.rows = <<>>
  /\ guard.stage \in {"pii", "security", "intent"} => guard.enabled /\ guard.sent \in guard.during

\* The verdict is what p says.
GivenBy(v, local, heard, enabled, p) ==
  LET watched == {t \in local \cup heard : enabled /\ p[t].enabled}
      blocking == {t \in watched : p[t].action # "flag"}
  IN  /\ ToSet(v.types) = watched
      /\ v.decision = IF blocking # {} THEN "blocked" ELSE IF watched # {} THEN "flagged" ELSE "allowed"
      /\ v.reason \in IF blocking # {} THEN blocking ELSE {"none"}

GuardInv == GuardType /\ FoundInOrder /\ UnderWay /\ VerdictIsOfOnePolicy

\* The default policy is one.
LEMMA DefaultIsPolicy == DefaultPolicy \in GuardPolicy /\ DefaultPolicy = Stored(DefaultPolicy) /\ DefaultPolicy \in [AxisSet -> NormalRule]
<1>1. Rule(TRUE, "block") \in SentRule /\ Rule(TRUE, "block") \in NormalRule
  BY FieldsOf DEF SentRule
<1>2. DefaultPolicy = [t \in AxisSet |-> Rule(TRUE, "block")]
  BY AxesAre DEF DefaultPolicy
<1>3. \A t \in AxisSet : norm(DefaultPolicy[t]) = Rule(TRUE, "block")
  BY <1>2, NormOf
<1> QED
  BY <1>1, <1>2, <1>3 DEF GuardPolicy, Stored

\* What is stored of a policy has an action in each rule.
LEMMA StoredType == \A p \in GuardPolicy : Stored(p) \in [AxisSet -> NormalRule]
<1> SUFFICES ASSUME NEW p \in GuardPolicy PROVE Stored(p) \in [AxisSet -> NormalRule]
  OBVIOUS
<1>1. DOMAIN p = AxisSet
  BY DEF GuardPolicy
<1>2. Stored(p) = [t \in AxisSet |-> norm(p[t])]
  BY <1>1 DEF Stored
<1>3. \A t \in AxisSet : norm(p[t]) \in NormalRule
  BY <1>2, StoredRule
<1> QED
  BY <1>2, <1>3

\* Nothing is judged yet.
LEMMA GuardStarts == ASSUME GuardInit PROVE GuardInv
<1> USE DEF GuardInit, Arrived
<1>1. guard.policy = DefaultPolicy /\ guard.sent = DefaultPolicy /\ guard.stage = "idle" /\ guard.rows = <<>>
      /\ guard.heard = {} /\ guard.found = {}
  OBVIOUS
<1>2. GuardType
  <2>1. Unjudged \in Judgement \cup {Unjudged} /\ <<>> \in Seq(Row)
    OBVIOUS
  <2>2. PICK enabled \in BOOLEAN : guard = Arrived(enabled)
    BY Zenon
  <2>3. {} \in SUBSET {"pii", "secrets"} /\ {} \in SUBSET AxisSet /\ {} \in SUBSET GuardPolicy /\ 0 \in Nat /\ FALSE \in BOOLEAN
    OBVIOUS
  <2> QED
    BY <2>1, <2>2, <2>3, DefaultIsPolicy, Zenon DEF GuardType
<1>3. FoundInOrder /\ UnderWay /\ VerdictIsOfOnePolicy
  BY <1>1, DefaultIsPolicy DEF FoundInOrder, UnderWay, VerdictIsOfOnePolicy
<1> QED
  BY <1>2, <1>3 DEF GuardInv

\* A verdict that was given stands, whatever else is in force afterwards.
LEMMA VerdictStands ==
  ASSUME VerdictIsOfOnePolicy, guard.during \subseteq guard'.during,
         guard'.enabled = guard.enabled, guard'.stage = guard.stage, guard'.local = guard.local, guard'.heard = guard.heard,
         guard'.verdict = guard.verdict, guard'.rows = guard.rows, guard'.upstream = guard.upstream
  PROVE  VerdictIsOfOnePolicy'
<1> SUFFICES ASSUME guard'.stage = "done"
             PROVE  VerdictIsOfOnePolicy'
  BY DEF VerdictIsOfOnePolicy
<1>1. PICK p \in guard.during \cup {q \in {DefaultPolicy} : ~guard.enabled} :
           GivenBy(guard.verdict, guard.local, guard.heard, guard.enabled, p)
  BY Zenon DEF VerdictIsOfOnePolicy, GivenBy
<1>2. p \in guard'.during \cup {q \in {DefaultPolicy} : ~guard'.enabled}
  OBVIOUS
<1>3. GivenBy(guard'.verdict, guard'.local, guard'.heard, guard'.enabled, p)
  BY <1>1
<1>4. /\ guard'.upstream = (guard'.verdict.decision # "blocked")
      /\ guard'.rows = <<[decision |-> guard'.verdict.decision, status |-> IF guard'.upstream THEN 200 ELSE 403]>>
  BY DEF VerdictIsOfOnePolicy
<1> QED
  BY <1>2, <1>3, <1>4, Zenon DEF VerdictIsOfOnePolicy, GivenBy

\* A policy may be saved at any time: the verdict that was given stands.
LEMMA SetPolicyKeeps ==
  ASSUME GuardInv, NEW p \in [ToSet(Axes) -> PolicyRules], SetPolicy(p)
  PROVE  GuardInv'
<1>1. p \in GuardPolicy /\ Stored(p) \in [AxisSet -> NormalRule]
  <2>1. p \in GuardPolicy
    BY AxesAre DEF GuardPolicy, SentRule
  <2> QED
    BY <2>1, StoredType
<1>2. guard' = [guard EXCEPT !.policy = Stored(p), !.sent = p, !.edits = guard.edits + 1, !.during = guard.during \cup {p}]
  BY DEF SetPolicy, Stored
<1>3. GuardType
  BY DEF GuardInv
<1>4. /\ guard'.policy = Stored(p) /\ guard'.sent = p /\ guard'.during = guard.during \cup {p}
      /\ guard'.enabled = guard.enabled /\ guard'.stage = guard.stage /\ guard'.local = guard.local
      /\ guard'.heard = guard.heard /\ guard'.found = guard.found /\ guard'.verdict = guard.verdict
      /\ guard'.rows = guard.rows /\ guard'.upstream = guard.upstream
  BY <1>2, <1>3 DEF GuardType
<1>5. GuardType'
  <2>1. guard.edits + 1 \in Nat /\ guard.during \cup {p} \in SUBSET GuardPolicy
    BY <1>1, <1>3 DEF GuardType
  <2> QED
    BY <1>1, <1>2, <1>3, <2>1 DEF GuardType
<1>6. FoundInOrder'
  BY <1>4 DEF GuardInv, FoundInOrder
<1>7. UnderWay'
  BY <1>4 DEF GuardInv, UnderWay
<1>8. VerdictIsOfOnePolicy'
  <2>1. VerdictIsOfOnePolicy /\ guard.during \subseteq guard'.during
    BY <1>4 DEF GuardInv
  <2> QED
    BY <1>4, <2>1, VerdictStands
<1> QED
  BY <1>5, <1>6, <1>7, <1>8 DEF GuardInv

\* A judgement begins; where prompts are not judged it is over at once.
LEMMA ClassifyKeeps ==
  ASSUME GuardInv, NEW local \in SUBSET {"pii", "secrets"}, Classify(local)
  PROVE  GuardInv'
<1>1. GuardType /\ guard.stage = "idle" /\ guard.heard = {} /\ guard.found = {} /\ guard.rows = <<>> /\ guard.policy = Stored(guard.sent)
  BY DEF GuardInv, Classify, FoundInOrder, UnderWay
<1>2. CASE guard.enabled
  <2>1. guard' = [guard EXCEPT !.stage = "pii", !.local = local, !.during = {guard.sent}]
    BY <1>2 DEF Classify
  <2>2. GuardType'
    BY <1>1, <2>1 DEF GuardType
  <2>3. /\ guard'.policy = guard.policy /\ guard'.sent = guard.sent /\ guard'.during = {guard.sent}
        /\ guard'.enabled = guard.enabled /\ guard'.stage = "pii"
        /\ guard'.heard = guard.heard /\ guard'.found = guard.found /\ guard'.rows = guard.rows
    BY <1>1, <2>1 DEF GuardType
  <2>4. FoundInOrder' /\ UnderWay' /\ VerdictIsOfOnePolicy'
    BY <1>1, <1>2, <2>3 DEF FoundInOrder, UnderWay, VerdictIsOfOnePolicy
  <2> QED
    BY <2>2, <2>4 DEF GuardInv
<1>3. CASE ~guard.enabled
  <2> DEFINE row == [decision |-> "allowed", status |-> 200]
  <2>1. guard' = [guard EXCEPT !.local = local, !.stage = "done", !.verdict = Allowed, !.upstream = TRUE, !.rows = <<row>>]
    <3>1. guard' = Audited([guard EXCEPT !.local = local], Allowed)
      BY <1>3 DEF Classify
    <3>2. Allowed.decision = "allowed" /\ SentOn(Allowed) = TRUE
      BY DEF Allowed, SentOn
    <3>3. Append(<<>>, row) = <<row>>
      OBVIOUS
    <3> QED
      BY <1>1, <3>1, <3>2, <3>3 DEF GuardType, Audited
  <2>2. Allowed \in Judgement /\ row \in Row /\ <<row>> \in Seq(Row)
    BY DEF Allowed, Judgement, Row
  <2> HIDE DEF row
  <2>3. GuardType'
    BY <1>1, <2>1, <2>2 DEF GuardType
  <2>4. /\ guard'.policy = guard.policy /\ guard'.sent = guard.sent /\ guard'.during = guard.during
        /\ guard'.enabled = guard.enabled /\ guard'.stage = "done" /\ guard'.verdict = Allowed
        /\ guard'.rows = <<row>> /\ guard'.upstream = TRUE
    BY <1>1, <2>1 DEF GuardType
  <2>5. FoundInOrder' /\ UnderWay'
    BY <1>1, <2>4 DEF FoundInOrder, UnderWay
  <2>6. VerdictIsOfOnePolicy'
    <3>1. /\ ToSet(Allowed.types) = {} /\ Allowed.decision = "allowed" /\ Allowed.reason = "none"
      BY InEmpty DEF Allowed
    <3>2. DefaultPolicy \in guard'.during \cup {q \in {DefaultPolicy} : ~guard'.enabled}
      BY <1>3, <2>4
    <3>3. {t \in guard'.local \cup guard'.heard : guard'.enabled /\ DefaultPolicy[t].enabled} = {}
      BY <1>3, <2>4
    <3>4. guard'.upstream = (guard'.verdict.decision # "blocked")
      BY <2>4, <3>1
    <3>5. guard'.rows = <<[decision |-> guard'.verdict.decision, status |-> IF guard'.upstream THEN 200 ELSE 403]>>
      BY <2>4, <3>1 DEF row
    <3> QED
      BY <2>4, <3>1, <3>2, <3>3, <3>4, <3>5 DEF VerdictIsOfOnePolicy
  <2> QED
    BY <2>3, <2>5, <2>6 DEF GuardInv
<1> QED
  BY <1>2, <1>3

\* Personal data is asked about.
LEMMA ClassifyPIIKeeps ==
  ASSUME GuardInv, NEW yes \in BOOLEAN, ClassifyPII(yes)
  PROVE  GuardInv'
<1> DEFINE heard == {t \in {"pii"} : yes}
           seen == {t \in {"pii"} : yes \/ "pii" \in guard.local}
<1>1. GuardType /\ guard.stage = "pii" /\ guard.heard = {} /\ guard.found = {} /\ UnderWay
  BY DEF GuardInv, ClassifyPII, FoundInOrder
<1>2. guard' = [guard EXCEPT !.stage = "security", !.heard = guard.heard \cup heard, !.found = guard.found \cup seen]
  BY DEF ClassifyPII
<1>3. /\ guard.heard \cup heard = heard /\ guard.found \cup seen = seen
      /\ heard \subseteq {"pii"} /\ heard \in SUBSET AxisSet /\ seen \in SUBSET AxisSet
      /\ seen = heard \cup (guard.local \cap {"pii"})
  BY <1>1 DEF AxisSet
<1> HIDE DEF heard, seen
<1>4. GuardType'
  BY <1>1, <1>2, <1>3 DEF GuardType
<1>5. /\ guard'.policy = guard.policy /\ guard'.sent = guard.sent /\ guard'.during = guard.during
      /\ guard'.enabled = guard.enabled /\ guard'.stage = "security" /\ guard'.local = guard.local
      /\ guard'.heard = heard /\ guard'.found = seen /\ guard'.rows = guard.rows
  BY <1>1, <1>2, <1>3 DEF GuardType
<1>6. FoundInOrder' /\ UnderWay' /\ VerdictIsOfOnePolicy'
  BY <1>1, <1>3, <1>5 DEF FoundInOrder, UnderWay, VerdictIsOfOnePolicy
<1> QED
  BY <1>4, <1>6 DEF GuardInv

\* A jailbreak is asked about; secrets are looked for by the program.
LEMMA ClassifySecurityKeeps ==
  ASSUME GuardInv, NEW yes \in BOOLEAN, ClassifySecurity(yes)
  PROVE  GuardInv'
<1> DEFINE heard == guard.heard \cup {t \in {"jailbreak"} : yes}
           seen == guard.found \cup {t \in {"jailbreak"} : yes} \cup (guard.local \cap {"secrets"})
<1>1. /\ GuardType /\ guard.stage = "security" /\ UnderWay
      /\ guard.heard \subseteq {"pii"} /\ guard.found = guard.heard \cup (guard.local \cap {"pii"})
  BY DEF GuardInv, ClassifySecurity, FoundInOrder
<1>2. guard' = [guard EXCEPT !.stage = "intent", !.heard = heard, !.found = seen]
  <2>1. seen = guard.found \cup ({t \in {"jailbreak"} : yes} \cup (guard.local \cap {"secrets"}))
    OBVIOUS
  <2> QED
    BY <2>1 DEF ClassifySecurity
<1>3. /\ heard \in SUBSET AxisSet /\ seen \in SUBSET AxisSet
      /\ seen = heard \cup guard.local
  <2>1. guard.local \subseteq {"pii", "secrets"}
    BY <1>1 DEF GuardType
  <2>2. guard.local = (guard.local \cap {"pii"}) \cup (guard.local \cap {"secrets"})
    BY <2>1
  <2> QED
    BY <1>1, <2>1, <2>2 DEF AxisSet
<1> HIDE DEF heard, seen
<1>4. GuardType'
  BY <1>1, <1>2, <1>3 DEF GuardType
<1>5. /\ guard'.policy = guard.policy /\ guard'.sent = guard.sent /\ guard'.during = guard.during
      /\ guard'.enabled = guard.enabled /\ guard'.stage = "intent" /\ guard'.local = guard.local
      /\ guard'.heard = heard /\ guard'.found = seen /\ guard'.rows = guard.rows
  BY <1>1, <1>2 DEF GuardType
<1>6. FoundInOrder' /\ UnderWay' /\ VerdictIsOfOnePolicy'
  BY <1>1, <1>3, <1>5 DEF FoundInOrder, UnderWay, VerdictIsOfOnePolicy
<1> QED
  BY <1>4, <1>6 DEF GuardInv

\* The policy that is in force decides.
LEMMA ClassifyIntentKeeps ==
  ASSUME GuardInv, ClassifyIntent
  PROVE  GuardInv'
<1> DEFINE v == Verdict(guard.policy, guard.found)
           row == [decision |-> v.decision, status |-> IF v.decision = "blocked" THEN 403 ELSE 200]
<1>1. /\ GuardType /\ guard.stage = "intent" /\ UnderWay
      /\ guard.enabled /\ guard.sent \in guard.during /\ guard.policy = Stored(guard.sent) /\ guard.rows = <<>>
      /\ guard.found = guard.heard \cup guard.local
  BY DEF GuardInv, ClassifyIntent, FoundInOrder, UnderWay
<1>2. guard.sent \in GuardPolicy /\ guard.found \in SUBSET AxisSet
  BY <1>1 DEF GuardType
<1>3. Says(v, guard.sent, guard.found, AxisSet)
  BY <1>1, <1>2, VerdictSays
<1>4. guard' = Audited(guard, v)
  BY DEF ClassifyIntent
<1> HIDE DEF v
<1>5. v \in Judgement /\ v.decision \in {"allowed", "flagged", "blocked"}
  BY <1>3 DEF Says, Judgement
<1>6. row \in Row /\ <<row>> \in Seq(Row) /\ Append(<<>>, row) = <<row>>
  BY <1>5 DEF Row
<1>7. guard' = [guard EXCEPT !.stage = "done", !.verdict = v, !.upstream = SentOn(v), !.rows = <<row>>]
  BY <1>1, <1>4, <1>6 DEF GuardType, Audited
<1> HIDE DEF row
<1>8. SentOn(v) \in BOOLEAN /\ SentOn(v) = (v.decision # "blocked")
  BY DEF SentOn
<1>9. GuardType'
  BY <1>1, <1>5, <1>6, <1>7, <1>8 DEF GuardType
<1>10. /\ guard'.policy = guard.policy /\ guard'.sent = guard.sent /\ guard'.during = guard.during
       /\ guard'.enabled = guard.enabled /\ guard'.stage = "done" /\ guard'.local = guard.local
       /\ guard'.heard = guard.heard /\ guard'.found = guard.found /\ guard'.rows = <<row>>
       /\ guard'.verdict = v /\ guard'.upstream = SentOn(v)
  BY <1>1, <1>7 DEF GuardType
<1>11. FoundInOrder' /\ UnderWay'
  BY <1>1, <1>10 DEF FoundInOrder, UnderWay
<1>12. VerdictIsOfOnePolicy'
  <2> DEFINE p == guard.sent
             watched == {t \in guard'.local \cup guard'.heard : guard'.enabled /\ p[t].enabled}
             blocking == {t \in watched : p[t].action # "flag"}
  <2>1. watched = Watched(p, guard.found, AxisSet)
    BY <1>1, <1>2, <1>10 DEF Watched
  <2>2. blocking = Blocking(p, guard.found, AxisSet)
    BY <2>1 DEF Blocking
  <2>3. /\ ToSet(v.types) = watched
        /\ v.decision = IF blocking # {} THEN "blocked" ELSE IF watched # {} THEN "flagged" ELSE "allowed"
        /\ v.reason \in IF blocking # {} THEN blocking ELSE {"none"}
    BY <1>3, <2>1, <2>2 DEF Says
  <2>4. p \in guard'.during
    BY <1>1, <1>10
  <2>5. guard'.upstream = (guard'.verdict.decision # "blocked")
    BY <1>8, <1>10
  <2>6. guard'.rows = <<[decision |-> guard'.verdict.decision, status |-> IF guard'.upstream THEN 200 ELSE 403]>>
    BY <1>8, <1>10 DEF row
  <2> QED
    BY <1>10, <2>3, <2>4, <2>5, <2>6 DEF VerdictIsOfOnePolicy
<1> QED
  BY <1>9, <1>11, <1>12 DEF GuardInv

\* Whatever the classifiers answer and whichever policies are saved while
\* they are asked, the verdict is that of one policy that was in force
\* meanwhile, what is blocked is not sent on, and its one row says so
\* (Classify of guard/guard.go and classifyAndAudit of server/guard.go).
THEOREM VerdictsAreOfOnePolicy == GuardSpec => []VerdictIsOfOnePolicy
<1>1. GuardInit => GuardInv
  BY GuardStarts
<1>2. GuardInv /\ [GuardNext]_guard => GuardInv'
  <2> SUFFICES ASSUME GuardInv, [GuardNext]_guard PROVE GuardInv'
    OBVIOUS
  <2>1. ASSUME NEW p \in [ToSet(Axes) -> PolicyRules], SetPolicy(p) PROVE GuardInv'
    BY <2>1, SetPolicyKeeps
  <2>2. ASSUME NEW local \in SUBSET {"pii", "secrets"}, Classify(local) PROVE GuardInv'
    BY <2>2, ClassifyKeeps
  <2>3. ASSUME NEW yes \in BOOLEAN, ClassifyPII(yes) PROVE GuardInv'
    BY <2>3, ClassifyPIIKeeps
  <2>4. ASSUME NEW yes \in BOOLEAN, ClassifySecurity(yes) PROVE GuardInv'
    BY <2>4, ClassifySecurityKeeps
  <2>5. CASE ClassifyIntent
    BY <2>5, ClassifyIntentKeeps
  <2>6. CASE UNCHANGED guard
    <3>1. GuardType' /\ FoundInOrder' /\ UnderWay'
      BY <2>6 DEF GuardInv, GuardType, FoundInOrder, UnderWay
    <3>2. VerdictIsOfOnePolicy'
      <4>1. guard' = guard /\ VerdictIsOfOnePolicy
        BY <2>6 DEF GuardInv
      <4> QED
        BY <4>1, VerdictStands
    <3> QED
      BY <3>1, <3>2 DEF GuardInv
  <2> QED
    BY <2>1, <2>2, <2>3, <2>4, <2>5, <2>6 DEF GuardNext
<1>3. GuardInv => VerdictIsOfOnePolicy
  BY DEF GuardInv
<1> QED
  BY <1>1, <1>2, <1>3, PTL DEF GuardSpec

-----------------------------------------------------------------------------
(* The copy of the masking policy.                                         *)

KeptPolicies == {DefaultMaskingPolicy} \cup Saved
Version == [policy : KeptPolicies, n : Nat]
Poll == [from : Nat, got : SUBSET Version]

MaskingType ==
  masking \in [database : BOOLEAN, mock : BOOLEAN, store : {"memory", "postgres", "none"}, db : KeptPolicies, stored : Version,
               saves : Nat, restarts : Nat, saving : SUBSET Version, answered : SUBSET [sent : Nat, got : Nat], current : Version, polls : SUBSET Poll, floor : Nat]

\* Nothing that was sent is newer than what is stored.
SavesAreStored == \A s \in masking.saving : s.n <= masking.stored.n

\* There is at most one poll; it began when the copy was not newer than what
\* was stored, and has since got that or something newer.
PollIsAhead ==
  /\ \A p, q \in masking.polls : p = q
  /\ \A p \in masking.polls :
        /\ masking.floor <= p.from /\ p.from <= masking.stored.n
        /\ \A v \in p.got : p.from <= v.n /\ v.n <= masking.stored.n

CopyInv == MaskingType /\ SavesAreStored /\ PollIsAhead /\ CopyFollowsTheStore

\* The parts of the record.
LEMMA MaskingFields ==
  ASSUME MaskingType
  PROVE  /\ masking.stored \in Version /\ masking.stored.n \in Nat
         /\ masking.current \in Version /\ masking.current.n \in Nat
         /\ masking.floor \in Nat /\ masking.saving \subseteq Version /\ masking.polls \subseteq Poll
         /\ masking.saves \in Nat /\ masking.restarts \in Nat /\ masking.answered \subseteq [sent : Nat, got : Nat]
BY DEF MaskingType, Version

\* The default is in force and copied.
LEMMA CopyInit ==
  ASSUME \E database, mock, reached \in BOOLEAN : masking = Started(database, mock, reached)
  PROVE  CopyInv
<1>1. PICK database \in BOOLEAN, mock \in BOOLEAN, reached \in BOOLEAN : masking = Started(database, mock, reached)
  OBVIOUS
<1> DEFINE on == StoreOf(database, mock, reached)
<1>2. /\ Default \in Version /\ Default.n = 0 /\ DefaultMaskingPolicy \in KeptPolicies
      /\ on \in {"memory", "postgres", "none"}
  BY DEF Version, KeptPolicies, Default, StoreOf
<1>3. masking = [database |-> database, mock |-> mock, store |-> on, db |-> DefaultMaskingPolicy, stored |-> Default,
                 saves |-> 0, restarts |-> 0, saving |-> {}, answered |-> {}, current |-> Default, polls |-> {}, floor |-> 0]
  BY <1>1 DEF Started
<1> HIDE DEF on
<1>4. MaskingType
  BY <1>2, <1>3 DEF MaskingType
<1>5. SavesAreStored /\ PollIsAhead /\ CopyFollowsTheStore
  BY <1>2, <1>3 DEF SavesAreStored, PollIsAhead, CopyFollowsTheStore
<1> QED
  BY <1>4, <1>5 DEF CopyInv

\* A save makes what is stored newer, if anything.
LEMMA SaveKeeps ==
  ASSUME CopyInv, NEW p \in Saved, NEW stored \in BOOLEAN, NEW ok \in BOOLEAN, SetMaskingPolicy(p, stored, ok)
  PROVE  CopyInv'
<1> DEFINE next == [policy |-> p, n |-> masking.stored.n + 1]
           now == IF stored THEN next ELSE masking.stored
           saving == IF ok THEN masking.saving \cup {next} ELSE masking.saving
           db == IF stored /\ masking.store = "postgres" THEN p ELSE masking.db
<1>1. MaskingType
  BY DEF CopyInv
<1>2. masking' = [masking EXCEPT !.saves = masking.saves + 1, !.stored = now, !.db = db, !.saving = saving] /\ (ok => stored)
  BY DEF SetMaskingPolicy
<1>3. db \in KeptPolicies
  BY <1>1 DEF MaskingType, KeptPolicies
<1>4. /\ next \in Version /\ next.n = masking.stored.n + 1 /\ now \in Version /\ saving \in SUBSET Version
      /\ masking.stored.n <= now.n /\ now.n \in Nat /\ (stored => now = next)
  BY <1>1, MaskingFields DEF Version, KeptPolicies
<1>5. \A s \in saving : s.n <= now.n
  <2> TAKE s \in saving
  <2>1. CASE s \in masking.saving
    <3>1. s.n <= masking.stored.n /\ s.n \in Nat /\ masking.stored.n \in Nat
      BY <2>1, <1>1, MaskingFields DEF CopyInv, SavesAreStored, Version
    <3> QED
      BY <3>1, <1>4
  <2>2. CASE ok /\ s = next
    BY <2>2, <1>2, <1>4, MaskingFields, <1>1
  <2> QED
    BY <2>1, <2>2
<1> HIDE DEF next, now, saving, db
<1>6. MaskingType'
  <2>1. masking.saves + 1 \in Nat
    BY <1>1, MaskingFields
  <2> QED
    BY <1>1, <1>2, <1>3, <1>4, <2>1 DEF MaskingType
<1>7. /\ masking'.stored = now /\ masking'.saving = saving /\ masking'.current = masking.current
      /\ masking'.polls = masking.polls /\ masking'.floor = masking.floor /\ masking'.answered = masking.answered
  BY <1>1, <1>2 DEF MaskingType
<1>8. SavesAreStored'
  BY <1>5, <1>7 DEF SavesAreStored
<1>9. PollIsAhead'
  BY <1>1, <1>4, <1>7, MaskingFields DEF CopyInv, PollIsAhead, Poll, Version
<1>10. CopyFollowsTheStore'
  BY <1>1, <1>4, <1>7, MaskingFields DEF CopyInv, CopyFollowsTheStore
<1> QED
  BY <1>6, <1>8, <1>9, <1>10 DEF CopyInv

\* What is read back is not older than what was sent.
LEMMA ReadBackKeeps ==
  ASSUME CopyInv, NEW s \in masking.saving, NEW ok \in BOOLEAN, ReadBack(s, ok)
  PROVE  CopyInv'
<1> DEFINE answer == [sent |-> s.n, got |-> IF ok THEN masking.stored.n ELSE s.n]
<1>1. MaskingType /\ s \in Version /\ s.n \in Nat /\ s.n <= masking.stored.n
  BY MaskingFields DEF CopyInv, SavesAreStored, Version
<1>2. masking' = [masking EXCEPT !.saving = masking.saving \ {s}, !.answered = {answer}]
  BY DEF ReadBack
<1>3. answer \in [sent : Nat, got : Nat] /\ answer.sent <= answer.got
  BY <1>1, MaskingFields
<1> HIDE DEF answer
<1>4. MaskingType'
  BY <1>1, <1>2, <1>3, MaskingFields DEF MaskingType
<1>5. /\ masking'.stored = masking.stored /\ masking'.saving = masking.saving \ {s} /\ masking'.current = masking.current
      /\ masking'.polls = masking.polls /\ masking'.floor = masking.floor /\ masking'.answered = {answer}
  BY <1>1, <1>2 DEF MaskingType
<1>6. SavesAreStored' /\ PollIsAhead' /\ CopyFollowsTheStore'
  BY <1>3, <1>5 DEF CopyInv, SavesAreStored, PollIsAhead, CopyFollowsTheStore
<1> QED
  BY <1>4, <1>6 DEF CopyInv

\* What a server finds that starts is newer, unless it is what it had.
LEMMA RestartServerKeeps ==
  ASSUME CopyInv, NEW reached \in BOOLEAN, RestartServer(reached)
  PROVE  CopyInv'
<1> DEFINE on == StoreOf(masking.database, masking.mock, reached)
           policy == IF on = "postgres" THEN masking.db ELSE DefaultMaskingPolicy
           found == [policy |-> policy, n |-> masking.stored.n + 1]
           now == IF on = masking.store /\ on # "memory" THEN masking.stored ELSE found
<1>1. MaskingType
  BY DEF CopyInv
<1>2. masking' = [masking EXCEPT !.restarts = masking.restarts + 1, !.saving = {}, !.store = on, !.stored = now]
  BY DEF RestartServer
<1>3. on \in {"memory", "postgres", "none"} /\ policy \in KeptPolicies
  BY <1>1 DEF StoreOf, MaskingType, KeptPolicies
<1> HIDE DEF on, policy
<1>4. now \in Version /\ now.n \in Nat /\ masking.stored.n <= now.n
  BY <1>1, <1>3, MaskingFields DEF Version
<1> HIDE DEF found, now
<1>5. MaskingType'
  <2>1. masking.restarts + 1 \in Nat /\ {} \in SUBSET Version
    BY <1>1, MaskingFields
  <2> QED
    BY <1>1, <1>2, <1>3, <1>4, <2>1 DEF MaskingType
<1>6. /\ masking'.stored = now /\ masking'.saving = {} /\ masking'.current = masking.current
      /\ masking'.polls = masking.polls /\ masking'.floor = masking.floor /\ masking'.answered = masking.answered
  BY <1>1, <1>2 DEF MaskingType
<1>7. SavesAreStored'
  BY <1>6 DEF SavesAreStored
<1>8. PollIsAhead'
  BY <1>1, <1>4, <1>6, MaskingFields DEF CopyInv, PollIsAhead, Poll, Version
<1>9. CopyFollowsTheStore'
  BY <1>1, <1>4, <1>6, MaskingFields DEF CopyInv, CopyFollowsTheStore
<1> QED
  BY <1>5, <1>7, <1>8, <1>9 DEF CopyInv

\* A poll begins when no other is under way.
LEMMA RefreshKeeps ==
  ASSUME CopyInv, refresh
  PROVE  CopyInv'
<1> DEFINE poll == [from |-> masking.stored.n, got |-> {}]
<1>1. MaskingType
  BY DEF CopyInv
<1>2. masking' = [masking EXCEPT !.polls = {poll}]
  BY DEF refresh
<1>3. poll \in Poll /\ poll.from = masking.stored.n /\ poll.got = {}
  BY <1>1, MaskingFields DEF Poll
<1> HIDE DEF poll
<1>4. MaskingType'
  BY <1>1, <1>2, <1>3 DEF MaskingType
<1>5. /\ masking'.stored = masking.stored /\ masking'.saving = masking.saving /\ masking'.current = masking.current
      /\ masking'.polls = {poll} /\ masking'.floor = masking.floor /\ masking'.answered = masking.answered
  BY <1>1, <1>2 DEF MaskingType
<1>6. masking.floor <= masking.stored.n
  BY <1>1, MaskingFields DEF CopyInv, CopyFollowsTheStore
<1>7. SavesAreStored' /\ CopyFollowsTheStore'
  BY <1>5 DEF CopyInv, SavesAreStored, CopyFollowsTheStore
<1>8. PollIsAhead'
  BY <1>1, <1>3, <1>5, <1>6, MaskingFields DEF PollIsAhead
<1> QED
  BY <1>4, <1>7, <1>8 DEF CopyInv

\* The poll reads what is stored now.
LEMMA GetKeeps ==
  ASSUME CopyInv, NEW poll \in masking.polls, GetMaskingPolicy(poll)
  PROVE  CopyInv'
<1> DEFINE read == [poll EXCEPT !.got = {masking.stored}]
<1>1. MaskingType /\ poll \in Poll /\ masking.polls = {poll}
  BY MaskingFields DEF CopyInv, PollIsAhead
<1>2. masking' = [masking EXCEPT !.polls = {read}]
  <2>1. (masking.polls \ {poll}) \cup {read} = {read}
    BY <1>1
  <2> QED
    BY <2>1 DEF GetMaskingPolicy
<1>3. read \in Poll /\ read.from = poll.from /\ read.got = {masking.stored}
  BY <1>1, MaskingFields DEF Poll
<1> HIDE DEF read
<1>4. MaskingType'
  BY <1>1, <1>2, <1>3 DEF MaskingType
<1>5. /\ masking'.stored = masking.stored /\ masking'.saving = masking.saving /\ masking'.current = masking.current
      /\ masking'.polls = {read} /\ masking'.floor = masking.floor /\ masking'.answered = masking.answered
  BY <1>1, <1>2 DEF MaskingType
<1>6. masking.floor <= poll.from /\ poll.from <= masking.stored.n
  BY DEF CopyInv, PollIsAhead
<1>7. SavesAreStored' /\ CopyFollowsTheStore'
  BY <1>5 DEF CopyInv, SavesAreStored, CopyFollowsTheStore
<1>8. PollIsAhead'
  BY <1>1, <1>3, <1>5, <1>6, MaskingFields DEF PollIsAhead
<1> QED
  BY <1>4, <1>7, <1>8 DEF CopyInv

\* What the poll got becomes the copy.
LEMMA PolledKeeps ==
  ASSUME CopyInv, NEW poll \in masking.polls, Polled(poll)
  PROVE  CopyInv'
<1> DEFINE floor == IF poll.from > masking.floor THEN poll.from ELSE masking.floor
<1>1. MaskingType /\ poll \in Poll /\ masking.polls = {poll}
  BY MaskingFields DEF CopyInv, PollIsAhead
<1>2. PICK v \in poll.got : masking' = [masking EXCEPT !.polls = masking.polls \ {poll}, !.current = v, !.floor = floor]
  BY DEF Polled
<1>3. v \in Version /\ v.n \in Nat /\ poll.from \in Nat
  BY <1>1 DEF Poll, Version
<1>4. floor \in Nat /\ floor <= v.n /\ v.n <= masking.stored.n
  <2>1. masking.floor <= poll.from /\ poll.from <= v.n /\ v.n <= masking.stored.n
    BY DEF CopyInv, PollIsAhead
  <2> QED
    BY <1>1, <1>3, <2>1, MaskingFields
<1>5. masking.polls \ {poll} = {}
  BY <1>1
<1> HIDE DEF floor
<1>6. MaskingType'
  BY <1>1, <1>2, <1>3, <1>4, <1>5 DEF MaskingType
<1>7. /\ masking'.stored = masking.stored /\ masking'.saving = masking.saving /\ masking'.current = v
      /\ masking'.polls = {} /\ masking'.floor = floor /\ masking'.answered = masking.answered
  BY <1>1, <1>2, <1>5 DEF MaskingType
<1>8. SavesAreStored' /\ PollIsAhead' /\ CopyFollowsTheStore'
  BY <1>4, <1>7 DEF CopyInv, SavesAreStored, PollIsAhead, CopyFollowsTheStore
<1> QED
  BY <1>6, <1>8 DEF CopyInv

\* A poll that fails leaves the copy.
LEMMA PollFailsKeeps ==
  ASSUME CopyInv, NEW poll \in masking.polls, PollFails(poll)
  PROVE  CopyInv'
<1>1. MaskingType
  BY DEF CopyInv
<1>2. masking' = [masking EXCEPT !.polls = masking.polls \ {poll}]
  BY DEF PollFails
<1>3. MaskingType'
  BY <1>1, <1>2 DEF MaskingType
<1>4. /\ masking'.stored = masking.stored /\ masking'.saving = masking.saving /\ masking'.current = masking.current
      /\ masking'.polls = masking.polls \ {poll} /\ masking'.floor = masking.floor /\ masking'.answered = masking.answered
  BY <1>1, <1>2 DEF MaskingType
<1>5. SavesAreStored' /\ PollIsAhead' /\ CopyFollowsTheStore'
  BY <1>4 DEF CopyInv, SavesAreStored, PollIsAhead, CopyFollowsTheStore
<1> QED
  BY <1>3, <1>5 DEF CopyInv

\* A forwarder that begins again has the default and no poll.
LEMMA ForgottenKeeps ==
  ASSUME CopyInv, masking' = Forgotten
  PROVE  CopyInv'
<1>1. MaskingType
  BY DEF CopyInv
<1>2. masking' = [masking EXCEPT !.restarts = masking.restarts + 1, !.current = Default, !.polls = {}, !.floor = 0]
  BY DEF Forgotten
<1>3. Default \in Version /\ Default.n = 0
  BY DEF Version, KeptPolicies, Default
<1>4. MaskingType'
  <2>1. masking.restarts + 1 \in Nat /\ {} \in SUBSET Poll /\ 0 \in Nat
    BY <1>1, MaskingFields
  <2> QED
    BY <1>1, <1>2, <1>3, <2>1 DEF MaskingType
<1>5. /\ masking'.stored = masking.stored /\ masking'.saving = masking.saving /\ masking'.current = Default
      /\ masking'.polls = {} /\ masking'.floor = 0 /\ masking'.answered = masking.answered
  BY <1>1, <1>2 DEF MaskingType
<1>6. SavesAreStored' /\ PollIsAhead' /\ CopyFollowsTheStore'
  BY <1>1, <1>3, <1>5, MaskingFields DEF CopyInv, SavesAreStored, PollIsAhead, CopyFollowsTheStore
<1> QED
  BY <1>4, <1>6 DEF CopyInv

\* The copy stays when the masking policy does.
LEMMA CopyStays ==
  ASSUME CopyInv, masking' = masking
  PROVE  CopyInv'
BY DEF CopyInv, MaskingType, SavesAreStored, PollIsAhead, CopyFollowsTheStore

\* Every step of the server and of the forwarder keeps it.
LEMMA CopyNext ==
  ASSUME CopyInv, [IngestionNext]_<<masking, traces, sinkVars>>
  PROVE  CopyInv'
<1>1. ASSUME NEW p \in Saved, NEW stored \in BOOLEAN, NEW ok \in BOOLEAN, SetMaskingPolicy(p, stored, ok) PROVE CopyInv'
  BY <1>1, SaveKeeps
<1>2. ASSUME NEW s \in masking.saving, NEW ok \in BOOLEAN, ReadBack(s, ok) PROVE CopyInv'
  BY <1>2, ReadBackKeeps
<1>3. ASSUME NEW reached \in BOOLEAN, RestartServer(reached) PROVE CopyInv'
  BY <1>3, RestartServerKeeps
<1>4. CASE refresh
  BY <1>4, RefreshKeeps
<1>5. ASSUME NEW poll \in masking.polls, GetMaskingPolicy(poll) \/ Polled(poll) \/ PollFails(poll) PROVE CopyInv'
  BY <1>5, GetKeeps, PolledKeeps, PollFailsKeeps
<1>6. CASE RestartForwarder
  BY <1>6, ForgottenKeeps DEF RestartForwarder
<1>7. CASE UNCHANGED masking
  BY <1>7, CopyStays
<1> QED
  BY <1>1, <1>2, <1>3, <1>4, <1>5, <1>6, <1>7 DEF IngestionNext, MaskingNext

\* Through saves by several operators, polls that fail or answer late and
\* restarts of the forwarder and of the server, which may come up with its
\* database or without, the copy is never older than what was in force at the
\* server when its last successful poll began, nor is the answer to a save
\* older than what was sent (glue/policy.go, server/masking.go, cmd/api/main.go).
THEOREM CopiesFollowTheStore == IngestionSpec => []CopyFollowsTheStore
<1>1. IngestionInit => CopyInv
  BY CopyInit DEF IngestionInit
<1>2. CopyInv /\ [IngestionNext]_<<masking, traces, sinkVars>> => CopyInv'
  BY CopyNext
<1>3. CopyInv => CopyFollowsTheStore
  BY DEF CopyInv
<1> QED
  BY <1>1, <1>2, <1>3, PTL DEF IngestionSpec

-----------------------------------------------------------------------------
(* The events of an exchange.                                              *)

Kinds == {"trace", "guardrail", "generation", "suspicion", "decision"}
EventType == [of : Exchanges, kind : Kinds, input : SUBSET Parts, output : SUBSET Parts]

TracesType ==
  traces \in [offered : [Exchanges -> Seq(EventType)], captured : SUBSET Exchanges, by : [Exchanges -> KeptPolicies],
              torn : SUBSET Exchanges, lost : BOOLEAN, ingested : Seq(EventType)]
FlowType == TracesType /\ queue \in Seq(EventType) /\ batch \in Seq(EventType)

\* Of two events of one exchange the first comes first.
Earlier(d, e) == d.of = e.of => Place[d.kind] < Place[e.kind]
Ordered(s) == \A i, j \in DOMAIN s : i < j => Earlier(s[i], s[j])
Precede(D, E) == \A d \in D, e \in E : Earlier(d, e)

\* What has been offered and is still known; what there is to tell of x.
Held == ToSet(traces.ingested) \cup ToSet(batch) \cup ToSet(queue)
Told(x) == ToSet(EventsOf(x, traces.by[x]))

\* What is held or offered is what there was to tell when it was captured.
HeldIsTold ==
  /\ \A e \in Held : e.of \in traces.captured /\ e \in Told(e.of)
  /\ \A x \in Exchanges : ToSet(traces.offered[x]) \subseteq Told(x)
  /\ \A x \in Exchanges \ traces.captured : traces.offered[x] = <<>>

\* It is in order, from what has arrived back to what is still to be offered.
FlowIsOrdered ==
  /\ Ordered(traces.ingested) /\ Ordered(batch) /\ Ordered(queue)
  /\ Precede(ToSet(traces.ingested), ToSet(batch)) /\ Precede(ToSet(traces.ingested), ToSet(queue))
  /\ Precede(ToSet(batch), ToSet(queue))
  /\ \A x \in Exchanges : Ordered(traces.offered[x]) /\ Precede(Held, ToSet(traces.offered[x]))

\* None is missing that was not dropped or lost.
NoneIsMissing ==
  \A x \in traces.captured : x \in traces.torn \/ traces.lost \/ Told(x) \subseteq Held \cup ToSet(traces.offered[x])

FlowInv == FlowType /\ HeldIsTold /\ FlowIsOrdered /\ NoneIsMissing

\* What two sequences hold one after the other.
LEMMA InConcat ==
  \A S : \A s, t \in Seq(S) : s \o t \in Seq(S) /\ ToSet(s \o t) = ToSet(s) \cup ToSet(t)
<1> SUFFICES ASSUME NEW S, NEW s \in Seq(S), NEW t \in Seq(S)
             PROVE  s \o t \in Seq(S) /\ ToSet(s \o t) = ToSet(s) \cup ToSet(t)
  OBVIOUS
<1>1. /\ s \o t \in Seq(S) /\ Len(s) \in Nat /\ Len(t) \in Nat
      /\ DOMAIN s = 1 .. Len(s) /\ DOMAIN t = 1 .. Len(t) /\ DOMAIN (s \o t) = 1 .. Len(s) + Len(t)
      /\ \A i \in 1 .. Len(s) + Len(t) : (s \o t)[i] = IF i <= Len(s) THEN s[i] ELSE t[i - Len(s)]
  OBVIOUS
<1>2. ASSUME NEW x \in ToSet(s \o t) PROVE x \in ToSet(s) \cup ToSet(t)
  <2>1. PICK i \in 1 .. Len(s) + Len(t) : (s \o t)[i] = x
    BY <1>1 DEF ToSet
  <2>2. CASE i <= Len(s)
    <3>1. i \in 1 .. Len(s) /\ s[i] = x
      BY <1>1, <2>1, <2>2
    <3> QED
      BY <1>1, <3>1 DEF ToSet
  <2>3. CASE ~(i <= Len(s))
    <3>1. i - Len(s) \in 1 .. Len(t) /\ t[i - Len(s)] = x
      BY <1>1, <2>1, <2>3
    <3> QED
      BY <1>1, <3>1 DEF ToSet
  <2> QED
    BY <2>2, <2>3
<1>3. ASSUME NEW x \in ToSet(s) PROVE x \in ToSet(s \o t)
  <2>1. PICK i \in 1 .. Len(s) : s[i] = x
    BY <1>1 DEF ToSet
  <2>2. i \in 1 .. Len(s) + Len(t) /\ (s \o t)[i] = x
    BY <1>1, <2>1
  <2> QED
    BY <1>1, <2>2 DEF ToSet
<1>4. ASSUME NEW x \in ToSet(t) PROVE x \in ToSet(s \o t)
  <2>1. PICK i \in 1 .. Len(t) : t[i] = x
    BY <1>1 DEF ToSet
  <2>2. i + Len(s) \in 1 .. Len(s) + Len(t) /\ (s \o t)[i + Len(s)] = x
    BY <1>1, <2>1
  <2> QED
    BY <1>1, <2>2 DEF ToSet
<1> QED
  BY <1>1, <1>2, <1>3, <1>4

\* What a sequence holds is its head and what its tail holds.
LEMMA InTail ==
  \A S : \A s \in Seq(S) : s # <<>> =>
    /\ Tail(s) \in Seq(S) /\ Head(s) \in S
    /\ ToSet(s) = {Head(s)} \cup ToSet(Tail(s))
<1> SUFFICES ASSUME NEW S, NEW s \in Seq(S), s # <<>>
             PROVE  /\ Tail(s) \in Seq(S) /\ Head(s) \in S
                    /\ ToSet(s) = {Head(s)} \cup ToSet(Tail(s))
  OBVIOUS
<1>1. /\ Tail(s) \in Seq(S) /\ Head(s) \in S /\ Len(s) \in Nat /\ Len(s) >= 1 /\ Head(s) = s[1]
      /\ DOMAIN s = 1 .. Len(s) /\ DOMAIN Tail(s) = 1 .. Len(s) - 1
      /\ \A i \in 1 .. Len(s) - 1 : Tail(s)[i] = s[i + 1]
  OBVIOUS
<1>2. ASSUME NEW x \in ToSet(s) PROVE x \in {Head(s)} \cup ToSet(Tail(s))
  <2>1. PICK i \in 1 .. Len(s) : s[i] = x
    BY <1>1 DEF ToSet
  <2>2. CASE i = 1
    BY <1>1, <2>1, <2>2
  <2>3. CASE i # 1
    <3>1. i - 1 \in 1 .. Len(s) - 1 /\ Tail(s)[i - 1] = x
      BY <1>1, <2>1, <2>3
    <3> QED
      BY <1>1, <3>1 DEF ToSet
  <2> QED
    BY <2>2, <2>3
<1>3. ASSUME NEW x \in ToSet(Tail(s)) PROVE x \in ToSet(s)
  <2>1. PICK i \in 1 .. Len(s) - 1 : Tail(s)[i] = x
    BY <1>1 DEF ToSet
  <2>2. i + 1 \in 1 .. Len(s) /\ s[i + 1] = x
    BY <1>1, <2>1
  <2> QED
    BY <1>1, <2>2 DEF ToSet
<1>4. Head(s) \in ToSet(s)
  <2>1. 1 \in 1 .. Len(s)
    BY <1>1
  <2> QED
    BY <1>1, <2>1 DEF ToSet
<1> QED
  BY <1>1, <1>2, <1>3, <1>4

\* Place gives every kind a number.
LEMMA Places ==
  /\ \A k \in Kinds : Place[k] \in Nat
  /\ Place["trace"] = 1 /\ Place["guardrail"] = 2 /\ Place["generation"] = 3 /\ Place["suspicion"] = 4 /\ Place["decision"] = 5
<1>1. /\ Place["trace"] = 1 /\ Place["guardrail"] = 2 /\ Place["generation"] = 3 /\ Place["suspicion"] = 4
      /\ Place["decision"] = 5
  BY DEF Place
<1> QED
  BY <1>1 DEF Kinds

\* The order of a sequence that something is appended to.
LEMMA OrderedAppended ==
  \A S : \A s \in Seq(S), e \in S : Ordered(s) /\ Precede(ToSet(s), {e}) => Ordered(Append(s, e))
<1> SUFFICES ASSUME NEW S, NEW s \in Seq(S), NEW e \in S, Ordered(s), Precede(ToSet(s), {e})
             PROVE  Ordered(Append(s, e))
  OBVIOUS
<1>1. /\ Len(s) \in Nat /\ DOMAIN s = 1 .. Len(s) /\ DOMAIN Append(s, e) = 1 .. Len(s) + 1
      /\ Append(s, e)[Len(s) + 1] = e
      /\ \A i \in 1 .. Len(s) : Append(s, e)[i] = s[i]
  OBVIOUS
<1>2. SUFFICES ASSUME NEW i \in DOMAIN Append(s, e), NEW j \in DOMAIN Append(s, e), i < j
               PROVE  Earlier(Append(s, e)[i], Append(s, e)[j])
  BY DEF Ordered
<1>3. i \in 1 .. Len(s) /\ Append(s, e)[i] = s[i] /\ s[i] \in ToSet(s)
  <2>1. i \in 1 .. Len(s)
    BY <1>1, <1>2
  <2> QED
    BY <1>1, <2>1 DEF ToSet
<1>4. CASE j = Len(s) + 1
  BY <1>1, <1>3, <1>4 DEF Precede
<1>5. CASE j # Len(s) + 1
  <2>1. j \in 1 .. Len(s) /\ Append(s, e)[j] = s[j]
    BY <1>1, <1>5
  <2> QED
    BY <1>1, <1>2, <1>3, <2>1 DEF Ordered
<1> QED
  BY <1>4, <1>5

\* The order of a tail, which the head precedes.
LEMMA OrderedTail ==
  \A S : \A s \in Seq(S) : s # <<>> /\ Ordered(s) => Ordered(Tail(s)) /\ Precede({Head(s)}, ToSet(Tail(s)))
<1> SUFFICES ASSUME NEW S, NEW s \in Seq(S), s # <<>>, Ordered(s)
             PROVE  Ordered(Tail(s)) /\ Precede({Head(s)}, ToSet(Tail(s)))
  OBVIOUS
<1>1. /\ Len(s) \in Nat /\ Len(s) >= 1 /\ Head(s) = s[1]
      /\ DOMAIN s = 1 .. Len(s) /\ DOMAIN Tail(s) = 1 .. Len(s) - 1
      /\ \A i \in 1 .. Len(s) - 1 : Tail(s)[i] = s[i + 1]
  OBVIOUS
<1>2. ASSUME NEW i \in DOMAIN Tail(s), NEW j \in DOMAIN Tail(s), i < j
      PROVE  Earlier(Tail(s)[i], Tail(s)[j])
  <2>1. i + 1 \in DOMAIN s /\ j + 1 \in DOMAIN s /\ i + 1 < j + 1 /\ Tail(s)[i] = s[i + 1] /\ Tail(s)[j] = s[j + 1]
    BY <1>1, <1>2
  <2> QED
    BY <2>1 DEF Ordered
<1>3. ASSUME NEW d \in {Head(s)}, NEW x \in ToSet(Tail(s)) PROVE Earlier(d, x)
  <2>1. PICK i \in 1 .. Len(s) - 1 : Tail(s)[i] = x
    BY <1>1 DEF ToSet
  <2>2. 1 \in DOMAIN s /\ i + 1 \in DOMAIN s /\ 1 < i + 1 /\ s[i + 1] = x
    BY <1>1, <2>1
  <2> QED
    BY <1>1, <2>2 DEF Ordered
<1> QED
  BY <1>2, <1>3 DEF Ordered, Precede

\* The order of two sequences one after the other.
LEMMA OrderedConcat ==
  \A S : \A s, t \in Seq(S) : Ordered(s) /\ Ordered(t) /\ Precede(ToSet(s), ToSet(t)) => Ordered(s \o t)
<1> SUFFICES ASSUME NEW S, NEW s \in Seq(S), NEW t \in Seq(S), Ordered(s), Ordered(t), Precede(ToSet(s), ToSet(t))
             PROVE  Ordered(s \o t)
  OBVIOUS
<1>1. /\ Len(s) \in Nat /\ Len(t) \in Nat
      /\ DOMAIN s = 1 .. Len(s) /\ DOMAIN t = 1 .. Len(t) /\ DOMAIN (s \o t) = 1 .. Len(s) + Len(t)
      /\ \A i \in 1 .. Len(s) + Len(t) : (s \o t)[i] = IF i <= Len(s) THEN s[i] ELSE t[i - Len(s)]
  OBVIOUS
<1>2. SUFFICES ASSUME NEW i \in 1 .. Len(s) + Len(t), NEW j \in 1 .. Len(s) + Len(t), i < j
               PROVE  Earlier((s \o t)[i], (s \o t)[j])
  BY <1>1 DEF Ordered
<1>3. CASE j <= Len(s)
  <2>1. i \in DOMAIN s /\ j \in DOMAIN s /\ (s \o t)[i] = s[i] /\ (s \o t)[j] = s[j]
    BY <1>1, <1>2, <1>3
  <2> QED
    BY <1>2, <2>1 DEF Ordered
<1>4. CASE i <= Len(s) /\ ~(j <= Len(s))
  <2>1. i \in DOMAIN s /\ j - Len(s) \in DOMAIN t /\ (s \o t)[i] = s[i] /\ (s \o t)[j] = t[j - Len(s)]
    BY <1>1, <1>2, <1>4
  <2>2. s[i] \in ToSet(s) /\ t[j - Len(s)] \in ToSet(t)
    BY <2>1 DEF ToSet
  <2> QED
    BY <2>1, <2>2 DEF Precede
<1>5. CASE ~(i <= Len(s))
  <2>1. /\ i - Len(s) \in DOMAIN t /\ j - Len(s) \in DOMAIN t /\ i - Len(s) < j - Len(s)
        /\ (s \o t)[i] = t[i - Len(s)] /\ (s \o t)[j] = t[j - Len(s)]
    BY <1>1, <1>2, <1>5
  <2> QED
    BY <2>1 DEF Ordered
<1> QED
  BY <1>2, <1>3, <1>4, <1>5

\* What the policy p hides of a text in which some data was pointed out.
Hidden(p, pointedOut, mode, part) ==
  \/ mode = "none"
  \/ /\ mode = "masked" /\ p.enabled
     /\ part = "phone" \/ part \in pointedOut
     /\ part \in DOMAIN p.rules /\ p.rules[part] # "keep"

KindsOf(x) == {"trace", "guardrail", "generation"} \cup {k \in {"suspicion"} : x.suspected} \cup {k \in {"decision"} : x.decision # ""}

\* What can be read in what is kept of a text is not hidden.
LEMMA ApplyHides ==
  \A p, mode : \A pointedOut \in SUBSET {"phone", "name"} :
    /\ Apply(p, mode, pointedOut) \subseteq Parts
    /\ \A part \in Apply(p, mode, pointedOut) : ~Hidden(p, pointedOut, mode, part)
<1> TAKE p, mode
<1> TAKE pointedOut \in SUBSET {"phone", "name"}
<1>1. CASE mode = "none"
  BY <1>1 DEF Apply
<1>2. CASE mode = "full"
  BY <1>2 DEF Apply, Hidden
<1>3. CASE mode # "none" /\ mode # "full" /\ ~p.enabled
  <2>1. Apply(p, mode, pointedOut) = Parts
    BY <1>3 DEF Apply
  <2> QED
    BY <1>3, <2>1 DEF Hidden
<1>4. CASE mode # "none" /\ mode # "full" /\ p.enabled
  <2>1. Apply(p, mode, pointedOut) = mask(p, pointedOut)
    BY <1>4 DEF Apply
  <2>2. ASSUME NEW part \in mask(p, pointedOut) PROVE ~Hidden(p, pointedOut, mode, part)
    <3>1. CASE part = "words"
      BY <1>4, <3>1 DEF Hidden
    <3>2. CASE part \notin pointedOut \cup Detectors
      BY <1>4, <3>2 DEF Hidden, Detectors
    <3>3. CASE RuleOf(p, part) = "keep"
      BY <1>4, <3>3 DEF Hidden, RuleOf
    <3> QED
      BY <3>1, <3>2, <3>3 DEF mask
  <2> QED
    BY <2>1, <2>2 DEF mask
<1> QED
  BY <1>1, <1>2, <1>3, <1>4

\* The events of an exchange: in order, with each kind it has once, all with
\* what the policy keeps.
LEMMA EventsFacts ==
  ASSUME NEW x \in Exchanges, NEW p
  PROVE  /\ EventsOf(x, p) \in Seq(EventType) /\ Ordered(EventsOf(x, p))
         /\ \A e \in ToSet(EventsOf(x, p)) :
               /\ e.of = x
               /\ \A part \in e.input : ~Hidden(p, x.pointedOut, InMode(p, x.decision), part)
               /\ \A part \in e.output : ~Hidden(p, x.pointedOut, OutMode(p, x.decision), part)
         /\ \A d, e \in ToSet(EventsOf(x, p)) : {d.kind, e.kind} = {"guardrail", "generation"} => d.input = e.input
         /\ {e.kind : e \in ToSet(EventsOf(x, p))} = KindsOf(x)
<1> DEFINE input == Apply(p, InMode(p, x.decision), x.pointedOut)
           output == Apply(p, OutMode(p, x.decision), x.pointedOut)
           e1 == Event(x, "trace", {}, {})
           e2 == Event(x, "guardrail", input, {})
           e3 == Event(x, "generation", input, output)
           e4 == Event(x, "suspicion", {}, {})
           e5 == Event(x, "decision", {}, {})
           s1 == <<e1, e2, e3>>
           s2 == IF x.suspected THEN <<e4>> ELSE <<>>
           judged == x.decision # ""
           s3 == IF judged THEN <<e5>> ELSE <<>>
<1>1. EventsOf(x, p) = (s1 \o s2) \o s3
  BY DEF EventsOf
<1>0. judged \in BOOLEAN /\ KindsOf(x) = {"trace", "guardrail", "generation"} \cup {k \in {"suspicion"} : x.suspected} \cup {k \in {"decision"} : judged}
  BY Zenon DEF KindsOf
<1> HIDE DEF judged
<1>2. x.pointedOut \in SUBSET {"phone", "name"} /\ x.suspected \in BOOLEAN
  BY CaptureAssumption
<1>3. /\ input \subseteq Parts /\ output \subseteq Parts
      /\ \A part \in input : ~Hidden(p, x.pointedOut, InMode(p, x.decision), part)
      /\ \A part \in output : ~Hidden(p, x.pointedOut, OutMode(p, x.decision), part)
  BY <1>2, ApplyHides
<1> HIDE DEF input, output
<1>4. /\ e1 \in EventType /\ e1.of = x /\ e1.kind = "trace" /\ e1.input = {} /\ e1.output = {}
      /\ e2 \in EventType /\ e2.of = x /\ e2.kind = "guardrail" /\ e2.input = input /\ e2.output = {}
      /\ e3 \in EventType /\ e3.of = x /\ e3.kind = "generation" /\ e3.input = input /\ e3.output = output
      /\ e4 \in EventType /\ e4.of = x /\ e4.kind = "suspicion" /\ e4.input = {} /\ e4.output = {}
      /\ e5 \in EventType /\ e5.of = x /\ e5.kind = "decision" /\ e5.input = {} /\ e5.output = {}
  BY <1>3 DEF Event, EventType, Kinds
<1> HIDE DEF e1, e2, e3, e4, e5
<1>5. s1 \in Seq(EventType) /\ ToSet(s1) = {e1, e2, e3} /\ Ordered(s1)
  <2>1. DOMAIN s1 = {1, 2, 3} /\ s1[1] = e1 /\ s1[2] = e2 /\ s1[3] = e3
    OBVIOUS
  <2>2. s1 \in Seq(EventType)
    BY <1>4
  <2>3. ToSet(s1) = {e1, e2, e3}
    BY <2>1 DEF ToSet
  <2>4. Earlier(e1, e2) /\ Earlier(e1, e3) /\ Earlier(e2, e3)
    BY <1>4, Places DEF Earlier
  <2> HIDE DEF s1
  <2>5. Ordered(s1)
    BY <2>1, <2>4 DEF Ordered
  <2> QED
    BY <2>2, <2>3, <2>5
<1>6. s2 \in Seq(EventType) /\ ToSet(s2) = {q \in {e4} : x.suspected} /\ Ordered(s2)
  <2>1. CASE x.suspected
    <3>1. s2 = <<e4>> /\ DOMAIN <<e4>> = {1} /\ <<e4>>[1] = e4 /\ <<e4>> \in Seq(EventType)
      BY <2>1, <1>4
    <3> QED
      BY <2>1, <3>1 DEF ToSet, Ordered
  <2>2. CASE ~x.suspected
    <3>1. s2 = <<>> /\ DOMAIN <<>> = {} /\ <<>> \in Seq(EventType)
      BY <2>2
    <3> QED
      BY <2>2, <3>1 DEF ToSet, Ordered
  <2> QED
    BY <2>1, <2>2
<1>7. s3 \in Seq(EventType) /\ ToSet(s3) = {q \in {e5} : judged} /\ Ordered(s3)
  <2>1. CASE judged
    <3>1. s3 = <<e5>> /\ DOMAIN <<e5>> = {1} /\ <<e5>>[1] = e5 /\ <<e5>> \in Seq(EventType)
      BY <2>1, <1>4
    <3> QED
      BY <2>1, <3>1 DEF ToSet, Ordered
  <2>2. CASE ~judged
    <3>1. s3 = <<>> /\ DOMAIN <<>> = {} /\ <<>> \in Seq(EventType)
      BY <2>2
    <3> QED
      BY <2>2, <3>1 DEF ToSet, Ordered
  <2> QED
    BY <2>1, <2>2
<1> HIDE DEF s1, s2, s3
<1>8. s1 \o s2 \in Seq(EventType) /\ ToSet(s1 \o s2) = {e1, e2, e3} \cup {q \in {e4} : x.suspected} /\ Ordered(s1 \o s2)
  <2>1. Precede(ToSet(s1), ToSet(s2))
    BY <1>4, <1>5, <1>6, Places DEF Precede, Earlier
  <2>2. s1 \o s2 \in Seq(EventType) /\ ToSet(s1 \o s2) = ToSet(s1) \cup ToSet(s2)
    BY <1>5, <1>6, InConcat
  <2>3. Ordered(s1 \o s2)
    BY <1>5, <1>6, <2>1, OrderedConcat
  <2> QED
    BY <1>5, <1>6, <2>2, <2>3
<1>9. /\ (s1 \o s2) \o s3 \in Seq(EventType)
      /\ ToSet((s1 \o s2) \o s3) = {e1, e2, e3} \cup {q \in {e4} : x.suspected} \cup {q \in {e5} : judged}
      /\ Ordered((s1 \o s2) \o s3)
  <2>1. Precede(ToSet(s1 \o s2), ToSet(s3))
    BY <1>4, <1>7, <1>8, Places DEF Precede, Earlier
  <2>2. /\ (s1 \o s2) \o s3 \in Seq(EventType)
        /\ ToSet((s1 \o s2) \o s3) = ToSet(s1 \o s2) \cup ToSet(s3)
    <3> DEFINE s12 == s1 \o s2
    <3>1. s12 \in Seq(EventType) /\ s3 \in Seq(EventType)
      BY <1>7, <1>8
    <3> HIDE DEF s12
    <3>2. s12 \o s3 \in Seq(EventType) /\ ToSet(s12 \o s3) = ToSet(s12) \cup ToSet(s3)
      BY <3>1, InConcat
    <3> QED
      BY <3>2 DEF s12
  <2>3. Ordered((s1 \o s2) \o s3)
    BY <1>7, <1>8, <2>1, OrderedConcat
  <2> QED
    BY <1>7, <1>8, <2>2, <2>3
<1> DEFINE all == ToSet(EventsOf(x, p))
<1>10. all = {e1, e2, e3} \cup {q \in {e4} : x.suspected} \cup {q \in {e5} : judged}
  BY <1>1, <1>9
<1> HIDE DEF all
<1>11. \A e \in all :
         /\ e.of = x
         /\ \A part \in e.input : ~Hidden(p, x.pointedOut, InMode(p, x.decision), part)
         /\ \A part \in e.output : ~Hidden(p, x.pointedOut, OutMode(p, x.decision), part)
  BY <1>3, <1>4, <1>10
<1>12. \A d, e \in all : {d.kind, e.kind} = {"guardrail", "generation"} => d.input = e.input
  BY <1>4, <1>10
<1>13. {e.kind : e \in all} = KindsOf(x)
  <2>1. /\ \A k : k \in {e.kind : e \in {e1, e2, e3}} <=> k \in {"trace", "guardrail", "generation"}
        /\ \A k : k \in {e.kind : e \in {q \in {e4} : x.suspected}} <=> k \in {q \in {"suspicion"} : x.suspected}
        /\ \A k : k \in {e.kind : e \in {q \in {e5} : judged}} <=> k \in {q \in {"decision"} : judged}
    BY <1>4
  <2>2. \A k : k \in {e.kind : e \in all} <=> \/ k \in {e.kind : e \in {e1, e2, e3}}
                                          \/ k \in {e.kind : e \in {q \in {e4} : x.suspected}}
                                          \/ k \in {e.kind : e \in {q \in {e5} : judged}}
    BY <1>10
  <2> QED
    BY <1>0, <2>1, <2>2
<1> QED
  BY <1>1, <1>9, <1>11, <1>12, <1>13 DEF all

\* Nothing is under way.
LEMMA FlowInit == ASSUME traces = NoTraces, SinkInit PROVE FlowInv
<1>1. /\ traces.offered = [x \in Exchanges |-> <<>>] /\ traces.captured = {} /\ traces.torn = {} /\ traces.lost = FALSE
      /\ traces.by = [x \in Exchanges |-> DefaultMaskingPolicy] /\ traces.ingested = <<>>
      /\ queue = <<>> /\ batch = <<>>
  BY DEF NoTraces, SinkInit
<1>2. FlowType
  <2>1. DefaultMaskingPolicy \in KeptPolicies /\ <<>> \in Seq(EventType) /\ FALSE \in BOOLEAN
    BY DEF KeptPolicies
  <2>2. TracesType
    BY <2>1 DEF TracesType, NoTraces
  <2> QED
    BY <1>1, <2>1, <2>2 DEF FlowType
<1>3. Held = {} /\ \A x \in Exchanges : traces.offered[x] = <<>> /\ ToSet(traces.offered[x]) = {}
  BY <1>1, InEmpty DEF Held
<1>4. HeldIsTold /\ NoneIsMissing
  BY <1>1, <1>3 DEF HeldIsTold, NoneIsMissing
<1>5. FlowIsOrdered
  <2>1. Ordered(<<>>)
    <3>1. DOMAIN <<>> = {}
      OBVIOUS
    <3> QED
      BY <3>1 DEF Ordered
  <2> QED
    BY <1>1, <1>3, <2>1, InEmpty DEF FlowIsOrdered, Precede
<1> QED
  BY <1>2, <1>4, <1>5 DEF FlowInv

\* The parts of the record.
LEMMA FlowFields ==
  ASSUME FlowType
  PROVE  /\ traces.captured \subseteq Exchanges /\ traces.torn \subseteq Exchanges /\ traces.lost \in BOOLEAN
         /\ traces.ingested \in Seq(EventType) /\ queue \in Seq(EventType) /\ batch \in Seq(EventType)
         /\ traces.offered \in [Exchanges -> Seq(EventType)] /\ traces.by \in [Exchanges -> KeptPolicies]
         /\ \A x \in Exchanges : traces.offered[x] \in Seq(EventType)
BY DEF FlowType, TracesType

\* The events of an exchange are made; none of it was known before.
LEMMA CaptureKeeps ==
  ASSUME FlowInv, MaskingType, NEW x \in Exchanges, Capture(x)
  PROVE  FlowInv'
<1> DEFINE p == masking.current.policy
           ev == EventsOf(x, p)
<1>1. FlowType /\ HeldIsTold /\ FlowIsOrdered /\ NoneIsMissing
  BY DEF FlowInv
<1>2. x \notin traces.captured /\ p \in KeptPolicies
  BY MaskingFields DEF Capture, Version
<1>3. /\ ev \in Seq(EventType) /\ Ordered(ev)
      /\ \A e \in ToSet(ev) : e.of = x
  BY EventsFacts
<1>4. /\ traces' = [traces EXCEPT !.captured = traces.captured \cup {x}, !.offered = [traces.offered EXCEPT ![x] = ev],
                                 !.by = [traces.by EXCEPT ![x] = p]]
      /\ queue' = queue /\ batch' = batch
  BY DEF Capture, sinkVars
<1>5. \A y : y = x => Told(y)' = ToSet(ev)
  <2>1. traces'.by[x] = p
    BY <1>1, <1>4, FlowFields DEF FlowType, TracesType
  <2> QED
    BY <2>1 DEF Told
<1> HIDE DEF p, ev
<1>6. /\ traces'.captured = traces.captured \cup {x} /\ traces'.torn = traces.torn /\ traces'.lost = traces.lost
      /\ traces'.ingested = traces.ingested
      /\ traces'.offered = [traces.offered EXCEPT ![x] = ev] /\ traces'.by = [traces.by EXCEPT ![x] = p]
  BY <1>1, <1>4 DEF FlowType, TracesType
<1>7. /\ \A y \in Exchanges : traces'.offered[y] = IF y = x THEN ev ELSE traces.offered[y]
      /\ \A y \in Exchanges : y # x => Told(y)' = Told(y)
  <2>1. \A y \in Exchanges : traces'.offered[y] = IF y = x THEN ev ELSE traces.offered[y]
    BY <1>1, <1>6, FlowFields
  <2>2. \A y \in Exchanges : y # x => traces'.by[y] = traces.by[y]
    BY <1>1, <1>6, FlowFields
  <2> QED
    BY <2>1, <2>2 DEF Told
<1>8. Held' = Held
  BY <1>4, <1>6 DEF Held
<1>9. FlowType'
  <2>1. /\ [traces.offered EXCEPT ![x] = ev] \in [Exchanges -> Seq(EventType)]
        /\ [traces.by EXCEPT ![x] = p] \in [Exchanges -> KeptPolicies]
        /\ traces.captured \cup {x} \in SUBSET Exchanges
    BY <1>1, <1>2, <1>3, FlowFields
  <2>2. TracesType'
    BY <1>1, <1>4, <2>1 DEF FlowType, TracesType
  <2> QED
    BY <1>1, <1>4, <2>2 DEF FlowType
<1>10. HeldIsTold'
  <2>1. \A e \in Held : e.of \in traces.captured /\ e \in Told(e.of) /\ e.of # x /\ e.of \in Exchanges
    BY <1>1, <1>2, FlowFields DEF HeldIsTold
  <2>2. \A e \in Held : e.of \in traces'.captured /\ e \in Told(e.of)'
    BY <2>1, <1>6, <1>7
  <2>3. ASSUME NEW y \in Exchanges PROVE ToSet(traces'.offered[y]) \subseteq Told(y)'
    <3>1. CASE y = x
      BY <1>5, <1>7, <3>1
    <3>2. CASE y # x
      <4>1. ToSet(traces.offered[y]) \subseteq Told(y)
        BY <1>1 DEF HeldIsTold
      <4> QED
        BY <1>7, <3>2, <4>1
    <3> QED
      BY <3>1, <3>2
  <2>4. \A y \in Exchanges \ traces'.captured : traces'.offered[y] = <<>>
    BY <1>1, <1>6, <1>7 DEF HeldIsTold
  <2> QED
    BY <1>8, <2>2, <2>3, <2>4 DEF HeldIsTold
<1>11. FlowIsOrdered'
  <2>1. Precede(Held, ToSet(ev))
    BY <1>1, <1>2, <1>3 DEF HeldIsTold, Precede, Earlier
  <2>2. ASSUME NEW y \in Exchanges PROVE Ordered(traces'.offered[y]) /\ Precede(Held', ToSet(traces'.offered[y]))
    <3>1. CASE y = x
      BY <1>3, <1>7, <1>8, <2>1, <3>1
    <3>2. CASE y # x
      <4>1. Ordered(traces.offered[y]) /\ Precede(Held, ToSet(traces.offered[y]))
        BY <1>1 DEF FlowIsOrdered
      <4> QED
        BY <1>7, <1>8, <3>2, <4>1
    <3> QED
      BY <3>1, <3>2
  <2> QED
    BY <1>1, <1>4, <1>6, <2>2 DEF FlowIsOrdered
<1>12. NoneIsMissing'
  BY <1>1, <1>5, <1>6, <1>7, <1>8, FlowFields DEF NoneIsMissing
<1> QED
  BY <1>9, <1>10, <1>11, <1>12 DEF FlowInv

\* An event is queued or dropped.
LEMMA OfferKeeps ==
  ASSUME FlowInv, NEW x \in Exchanges, Offer(x)
  PROVE  FlowInv'
<1> DEFINE s == traces.offered[x]
           h == Head(s)
           torn == IF Accepts THEN traces.torn ELSE traces.torn \cup {x}
<1>1. FlowType /\ HeldIsTold /\ FlowIsOrdered /\ NoneIsMissing
  BY DEF FlowInv
<1>2. s \in Seq(EventType) /\ s # <<>>
  BY <1>1, FlowFields DEF Offer
<1>3. Tail(s) \in Seq(EventType) /\ h \in EventType /\ ToSet(s) = {h} \cup ToSet(Tail(s))
  BY <1>2, InTail
<1>4. /\ ToSet(s) \subseteq Told(x) /\ x \in traces.captured /\ Ordered(s) /\ Precede(Held, ToSet(s))
  BY <1>1, <1>2 DEF HeldIsTold, FlowIsOrdered
<1>5. Ordered(Tail(s)) /\ Precede({h}, ToSet(Tail(s)))
  BY <1>2, <1>4, OrderedTail
<1>6. /\ traces' = [traces EXCEPT !.offered = [traces.offered EXCEPT ![x] = Tail(s)], !.torn = torn]
      /\ batch' = batch
      /\ queue' = IF Accepts THEN Append(queue, h) ELSE queue
  BY DEF Offer, Enqueue
<1> HIDE DEF s, h, torn
<1>7. /\ traces'.captured = traces.captured /\ traces'.torn = torn /\ traces'.lost = traces.lost
      /\ traces'.ingested = traces.ingested /\ traces'.by = traces.by
      /\ traces'.offered = [traces.offered EXCEPT ![x] = Tail(s)]
  BY <1>1, <1>6 DEF FlowType, TracesType
<1>8. /\ \A y \in Exchanges : traces'.offered[y] = IF y = x THEN Tail(s) ELSE traces.offered[y]
      /\ \A y : Told(y)' = Told(y)
  <2>1. \A y \in Exchanges : traces'.offered[y] = IF y = x THEN Tail(s) ELSE traces.offered[y]
    BY <1>1, <1>7, FlowFields
  <2>2. \A y : Told(y)' = Told(y)
    BY <1>7 DEF Told
  <2> QED
    BY <2>1, <2>2
<1>9. /\ queue' \in Seq(EventType)
      /\ ToSet(queue') = ToSet(queue) \cup {e \in {h} : Accepts}
      /\ Held' = Held \cup {e \in {h} : Accepts}
  <2>1. queue' \in Seq(EventType) /\ ToSet(queue') = ToSet(queue) \cup {e \in {h} : Accepts}
    <3>1. CASE Accepts
      <4>1. Append(queue, h) \in Seq(EventType) /\ ToSet(Append(queue, h)) = ToSet(queue) \cup {h}
        BY <1>1, <1>3, FlowFields, InAppended
      <4> QED
        BY <1>6, <3>1, <4>1
    <3>2. CASE ~Accepts
      BY <1>1, <1>6, <3>2, FlowFields
    <3> QED
      BY <3>1, <3>2
  <2> QED
    BY <1>6, <1>7, <2>1 DEF Held
<1>10. FlowType'
  <2>1. [traces.offered EXCEPT ![x] = Tail(s)] \in [Exchanges -> Seq(EventType)] /\ torn \in SUBSET Exchanges
    BY <1>1, <1>3, FlowFields DEF torn
  <2>2. TracesType'
    BY <1>1, <1>6, <2>1 DEF FlowType, TracesType
  <2> QED
    BY <1>1, <1>6, <1>9, <2>2 DEF FlowType
<1>11. HeldIsTold'
  <2>1. h \in Told(x) /\ h.of = x
    BY <1>3, <1>4, EventsFacts DEF Told
  <2>2. ASSUME NEW e \in Held' PROVE e.of \in traces'.captured /\ e \in Told(e.of)'
    <3>1. CASE e \in Held
      BY <1>1, <1>7, <1>8, <3>1 DEF HeldIsTold
    <3>2. CASE e = h
      BY <1>4, <1>7, <1>8, <2>1, <3>2
    <3> QED
      BY <1>9, <3>1, <3>2
  <2>3. ASSUME NEW y \in Exchanges PROVE ToSet(traces'.offered[y]) \subseteq Told(y)'
    <3>1. CASE y = x
      BY <1>3, <1>4, <1>8, <3>1
    <3>2. CASE y # x
      <4>1. ToSet(traces.offered[y]) \subseteq Told(y)
        BY <1>1 DEF HeldIsTold
      <4> QED
        BY <1>8, <3>2, <4>1
    <3> QED
      BY <3>1, <3>2
  <2>4. \A y \in Exchanges \ traces'.captured : traces'.offered[y] = <<>>
    BY <1>1, <1>4, <1>7, <1>8 DEF HeldIsTold
  <2> QED
    BY <2>2, <2>3, <2>4 DEF HeldIsTold
<1>12. FlowIsOrdered'
  <2>1. h.of = x
    BY <1>3, <1>4, EventsFacts DEF Told
  <2>2. /\ Precede(ToSet(traces.ingested), ToSet(s)) /\ Precede(ToSet(batch), ToSet(s)) /\ Precede(ToSet(queue), ToSet(s))
    BY <1>4 DEF Precede, Held
  <2>3. Ordered(queue')
    <3>1. CASE Accepts
      <4>1. Precede(ToSet(queue), {h})
        BY <1>3, <2>2 DEF Precede
      <4>2. queue \in Seq(EventType) /\ Ordered(queue)
        BY <1>1, FlowFields DEF FlowIsOrdered
      <4>3. Ordered(Append(queue, h))
        BY <1>3, <4>1, <4>2, OrderedAppended
      <4> QED
        BY <1>6, <3>1, <4>3
    <3>2. CASE ~Accepts
      BY <1>1, <1>6, <3>2 DEF FlowIsOrdered
    <3> QED
      BY <3>1, <3>2
  <2>4. Precede(ToSet(traces.ingested), ToSet(queue')) /\ Precede(ToSet(batch), ToSet(queue'))
    <3>1. Precede(ToSet(traces.ingested), ToSet(queue)) /\ Precede(ToSet(batch), ToSet(queue))
      BY <1>1 DEF FlowIsOrdered
    <3>2. h \in ToSet(s) /\ \A e \in ToSet(queue') : e \in ToSet(queue) \/ e = h
      BY <1>3, <1>9
    <3> HIDE <1>9
    <3> QED
      BY <2>2, <3>1, <3>2 DEF Precede
  <2>5. ASSUME NEW y \in Exchanges PROVE Ordered(traces'.offered[y]) /\ Precede(Held', ToSet(traces'.offered[y]))
    <3>1. CASE y = x
      <4>1. traces'.offered[y] = Tail(s)
        BY <1>8, <3>1
      <4>2. Precede(Held, ToSet(Tail(s)))
        BY <1>3, <1>4 DEF Precede
      <4>3. Precede(Held', ToSet(Tail(s)))
        BY <1>5, <1>9, <4>2 DEF Precede
      <4> QED
        BY <1>5, <4>1, <4>3
    <3>2. CASE y # x
      <4>1. Ordered(traces.offered[y]) /\ Precede(Held, ToSet(traces.offered[y])) /\ traces'.offered[y] = traces.offered[y]
        BY <1>1, <1>8, <3>2 DEF FlowIsOrdered
      <4>2. \A e \in ToSet(traces.offered[y]) : e.of = y
        <5>1. ToSet(traces.offered[y]) \subseteq Told(y)
          BY <1>1 DEF HeldIsTold
        <5> QED
          BY <5>1, EventsFacts DEF Told
      <4>3. Precede({h}, ToSet(traces.offered[y]))
        BY <2>1, <3>2, <4>2 DEF Precede, Earlier
      <4>4. Precede(Held', ToSet(traces.offered[y]))
        BY <1>9, <4>1, <4>3 DEF Precede
      <4> QED
        BY <4>1, <4>4
    <3> QED
      BY <3>1, <3>2
  <2> QED
    BY <1>1, <1>6, <1>7, <2>3, <2>4, <2>5 DEF FlowIsOrdered
<1>13. NoneIsMissing'
  <2> SUFFICES ASSUME NEW y \in traces.captured
               PROVE  y \in torn \/ traces.lost \/ Told(y) \subseteq Held' \cup ToSet(traces'.offered[y])
    BY <1>7, <1>8 DEF NoneIsMissing
  <2>1. y \in Exchanges /\ (y \in traces.torn \/ traces.lost \/ Told(y) \subseteq Held \cup ToSet(traces.offered[y]))
    BY <1>1, FlowFields DEF NoneIsMissing
  <2>2. traces.torn \subseteq torn /\ (~Accepts => x \in torn)
    BY DEF torn
  <2>3. CASE y # x
    BY <1>8, <1>9, <2>1, <2>2, <2>3
  <2>4. CASE y = x /\ ~Accepts
    BY <2>2, <2>4
  <2>5. CASE y = x /\ Accepts
    <3>1. Held' = Held \cup {h} /\ traces'.offered[y] = Tail(s) /\ ToSet(traces.offered[y]) = {h} \cup ToSet(Tail(s))
      BY <1>3, <1>8, <1>9, <2>5 DEF s
    <3> QED
      BY <2>1, <2>2, <3>1
  <2> QED
    BY <2>3, <2>4, <2>5
<1> QED
  BY <1>10, <1>11, <1>12, <1>13 DEF FlowInv

\* The sender takes an event from the queue.
LEMMA ReceiveKeeps ==
  ASSUME FlowInv, Receive
  PROVE  FlowInv'
<1> DEFINE h == Head(queue)
<1>1. FlowType /\ HeldIsTold /\ FlowIsOrdered /\ NoneIsMissing
  BY DEF FlowInv
<1>2. queue \in Seq(EventType) /\ queue # <<>> /\ batch \in Seq(EventType)
  BY <1>1, FlowFields DEF Receive, Take
<1>3. /\ traces' = traces /\ queue' = Tail(queue) /\ batch' = Append(batch, h)
  BY DEF Receive, Take
<1>4. Tail(queue) \in Seq(EventType) /\ h \in EventType /\ ToSet(queue) = {h} \cup ToSet(Tail(queue))
  BY <1>2, InTail
<1>5. Ordered(Tail(queue)) /\ Precede({h}, ToSet(Tail(queue)))
  BY <1>1, <1>2, OrderedTail DEF FlowIsOrdered
<1> HIDE DEF h
<1>6. Append(batch, h) \in Seq(EventType) /\ ToSet(Append(batch, h)) = ToSet(batch) \cup {h}
  BY <1>2, <1>4, InAppended
<1>7. ToSet(batch') = ToSet(batch) \cup {h} /\ ToSet(queue) = {h} \cup ToSet(queue')
  BY <1>3, <1>4, <1>6
<1>8. Held' = Held
  BY <1>3, <1>7 DEF Held
<1>9. \A x : Told(x)' = Told(x)
  BY <1>3 DEF Told
<1>10. FlowType'
  BY <1>1, <1>3, <1>4, <1>6 DEF FlowType, TracesType
<1>11. HeldIsTold'
  BY <1>1, <1>3, <1>8, <1>9 DEF HeldIsTold
<1>12. FlowIsOrdered'
  <2>1. Precede(ToSet(batch), ToSet(queue)) /\ Precede(ToSet(traces.ingested), ToSet(queue)) /\ Precede(ToSet(traces.ingested), ToSet(batch))
    BY <1>1 DEF FlowIsOrdered
  <2>2. Ordered(batch')
    <3>1. Precede(ToSet(batch), {h})
      BY <1>7, <2>1 DEF Precede
    <3> QED
      BY <1>1, <1>2, <1>3, <1>4, <3>1, OrderedAppended DEF FlowIsOrdered
  <2>3. Precede(ToSet(batch'), ToSet(queue'))
    BY <1>3, <1>5, <1>7, <2>1 DEF Precede
  <2>4. Precede(ToSet(traces.ingested), ToSet(queue')) /\ Precede(ToSet(traces.ingested), ToSet(batch'))
    BY <1>7, <2>1 DEF Precede
  <2> QED
    BY <1>1, <1>3, <1>5, <1>8, <2>2, <2>3, <2>4 DEF FlowIsOrdered
<1>13. NoneIsMissing'
  BY <1>1, <1>3, <1>8, <1>9 DEF NoneIsMissing
<1> QED
  BY <1>10, <1>11, <1>12, <1>13 DEF FlowInv

\* A batch is sent, and forgotten whether it arrives or not.
LEMMA SendKeeps ==
  ASSUME FlowInv, NEW arrives \in BOOLEAN, Send(arrives)
  PROVE  FlowInv'
<1> DEFINE sent == IF arrives THEN traces.ingested \o batch ELSE traces.ingested
           lost == traces.lost \/ ~arrives
<1>1. FlowType /\ HeldIsTold /\ FlowIsOrdered /\ NoneIsMissing
  BY DEF FlowInv
<1>2. traces.ingested \in Seq(EventType) /\ batch \in Seq(EventType) /\ queue \in Seq(EventType) /\ traces.lost \in BOOLEAN
  BY <1>1, FlowFields
<1>3. traces' = [traces EXCEPT !.lost = lost, !.ingested = sent] /\ queue' = queue /\ batch' = <<>>
  BY DEF Send, Written
<1>4. /\ traces.ingested \o batch \in Seq(EventType)
      /\ ToSet(traces.ingested \o batch) = ToSet(traces.ingested) \cup ToSet(batch)
  BY <1>2, InConcat
<1>5. Ordered(traces.ingested \o batch)
  BY <1>1, <1>2, OrderedConcat DEF FlowIsOrdered
<1>6. /\ sent \in Seq(EventType) /\ Ordered(sent) /\ lost \in BOOLEAN /\ (traces.lost => lost)
      /\ ToSet(sent) \subseteq ToSet(traces.ingested) \cup ToSet(batch)
      /\ lost \/ ToSet(sent) = ToSet(traces.ingested) \cup ToSet(batch)
  BY <1>1, <1>2, <1>4, <1>5 DEF FlowIsOrdered
<1> HIDE DEF sent, lost
<1>7. /\ traces'.captured = traces.captured /\ traces'.torn = traces.torn /\ traces'.lost = lost
      /\ traces'.ingested = sent /\ traces'.by = traces.by /\ traces'.offered = traces.offered
  BY <1>1, <1>3 DEF FlowType, TracesType
<1>8. /\ Held' \subseteq Held
      /\ lost \/ Held' = Held
      /\ ToSet(batch') = {}
  BY <1>3, <1>6, <1>7, InEmpty DEF Held
<1>9. \A x : Told(x)' = Told(x)
  BY <1>7 DEF Told
<1>10. FlowType'
  <2>1. TracesType'
    BY <1>1, <1>3, <1>6 DEF FlowType, TracesType
  <2> QED
    BY <1>2, <1>3, <2>1 DEF FlowType
<1>11. HeldIsTold'
  BY <1>1, <1>7, <1>8, <1>9 DEF HeldIsTold
<1>12. FlowIsOrdered'
  <2>1. Precede(ToSet(sent), ToSet(queue))
    BY <1>1, <1>6 DEF FlowIsOrdered, Precede
  <2>2. Ordered(<<>>)
    <3>1. DOMAIN <<>> = {}
      OBVIOUS
    <3> QED
      BY <3>1 DEF Ordered
  <2>3. ASSUME NEW x \in Exchanges PROVE Ordered(traces.offered[x]) /\ Precede(Held', ToSet(traces.offered[x]))
    <3>1. Ordered(traces.offered[x]) /\ Precede(Held, ToSet(traces.offered[x]))
      BY <1>1 DEF FlowIsOrdered
    <3> QED
      BY <1>8, <3>1 DEF Precede
  <2>4. Precede(ToSet(sent), {}) /\ Precede({}, ToSet(queue))
    BY DEF Precede
  <2>5. Ordered(queue)
    BY <1>1 DEF FlowIsOrdered
  <2> QED
    BY <1>3, <1>6, <1>7, <1>8, <2>1, <2>2, <2>3, <2>4, <2>5 DEF FlowIsOrdered
<1>13. NoneIsMissing'
  BY <1>1, <1>6, <1>7, <1>8, <1>9 DEF NoneIsMissing
<1> QED
  BY <1>10, <1>11, <1>12, <1>13 DEF FlowInv

\* The forwarder begins again with nothing but what has arrived.
LEMMA RestartKeeps ==
  ASSUME FlowInv, RestartForwarder
  PROVE  FlowInv'
<1>1. FlowType /\ HeldIsTold /\ FlowIsOrdered /\ NoneIsMissing
  BY DEF FlowInv
<1>2. /\ traces' = [traces EXCEPT !.lost = TRUE, !.offered = [x \in Exchanges |-> <<>>]]
      /\ queue' = <<>> /\ batch' = <<>>
  BY DEF RestartForwarder, Killed
<1>3. /\ traces'.captured = traces.captured /\ traces'.lost = TRUE
      /\ traces'.ingested = traces.ingested /\ traces'.by = traces.by
      /\ \A x \in Exchanges : traces'.offered[x] = <<>>
  BY <1>1, <1>2 DEF FlowType, TracesType
<1>4. Held' = ToSet(traces.ingested) /\ Held' \subseteq Held /\ ToSet(queue') = {} /\ ToSet(batch') = {}
  BY <1>2, <1>3, InEmpty DEF Held
<1>5. \A x : Told(x)' = Told(x)
  BY <1>3 DEF Told
<1>6. FlowType'
  <2>1. <<>> \in Seq(EventType) /\ TRUE \in BOOLEAN
    OBVIOUS
  <2>2. [x \in Exchanges |-> <<>>] \in [Exchanges -> Seq(EventType)]
    BY <2>1
  <2>3. TracesType'
    BY <1>1, <1>2, <2>1, <2>2 DEF FlowType, TracesType
  <2> QED
    BY <1>2, <2>1, <2>3 DEF FlowType
<1>7. HeldIsTold'
  BY <1>1, <1>3, <1>4, <1>5, InEmpty DEF HeldIsTold
<1>8. FlowIsOrdered'
  <2>1. Ordered(<<>>)
    <3>1. DOMAIN <<>> = {}
      OBVIOUS
    <3> QED
      BY <3>1 DEF Ordered
  <2>2. \A D : Precede(D, {}) /\ Precede({}, D)
    BY DEF Precede
  <2>3. \A x \in Exchanges : Ordered(traces'.offered[x]) /\ Precede(Held', ToSet(traces'.offered[x]))
    BY <1>3, <2>1, <2>2, InEmpty
  <2> QED
    BY <1>1, <1>2, <1>3, <1>4, <2>1, <2>2, <2>3 DEF FlowIsOrdered
<1>9. NoneIsMissing'
  BY <1>3 DEF NoneIsMissing
<1> QED
  BY <1>6, <1>7, <1>8, <1>9 DEF FlowInv

\* The events stay where they are.
LEMMA FlowStays ==
  ASSUME FlowInv, traces' = traces, queue' = queue, batch' = batch
  PROVE  FlowInv'
<1>1. Held' = Held /\ \A x : Told(x)' = Told(x)
  BY DEF Held, Told
<1> QED
  BY <1>1 DEF FlowInv, FlowType, TracesType, HeldIsTold, FlowIsOrdered, NoneIsMissing

\* Every step of the server, the forwarder and its sender keeps it.
LEMMA FlowNext ==
  ASSUME FlowInv, MaskingType, [IngestionNext]_<<masking, traces, sinkVars>>
  PROVE  FlowInv'
<1>1. ASSUME NEW x \in Exchanges, Capture(x) PROVE FlowInv'
  BY <1>1, CaptureKeeps
<1>2. ASSUME NEW x \in Exchanges, Offer(x) PROVE FlowInv'
  BY <1>2, OfferKeeps
<1>3. CASE Receive
  BY <1>3, ReceiveKeeps
<1>4. CASE TimeUp
  BY <1>4, FlowStays DEF TimeUp, TickerFires
<1>5. ASSUME NEW arrives \in BOOLEAN, Send(arrives) PROVE FlowInv'
  BY <1>5, SendKeeps
<1>6. CASE RestartForwarder
  BY <1>6, RestartKeeps
<1>7. CASE UNCHANGED <<sinkVars, traces>>
  BY <1>7, FlowStays DEF sinkVars
<1> QED
  BY <1>1, <1>2, <1>3, <1>4, <1>5, <1>6, <1>7 DEF IngestionNext

\* What follows for the events of one exchange, seen as one sequence.
LEMMA FlowIsTogether ==
  ASSUME FlowInv
  PROVE  TracesStayTogether
<1> SUFFICES ASSUME NEW x \in traces.captured
             PROVE  LET events == traces.ingested \o batch \o queue \o traces.offered[x]
                        mine == {i \in DOMAIN events : events[i].of = x}
                        p == traces.by[x]
                        Mode(usual) == IF x.decision = "blocked" /\ p.blocked # "" THEN p.blocked ELSE usual
                    IN  /\ \A i, j \in mine : i < j => Place[events[i].kind] < Place[events[j].kind]
                        /\ \A i, j \in mine :
                               {events[i].kind, events[j].kind} = {"guardrail", "generation"} => events[i].input = events[j].input
                        /\ \A i \in mine :
                               /\ \A part \in events[i].input : ~Hidden(p, x.pointedOut, Mode(p.input), part)
                               /\ \A part \in events[i].output : ~Hidden(p, x.pointedOut, Mode(p.output), part)
                        /\ \/ x \in traces.torn \/ traces.lost
                           \/ {events[i].kind : i \in mine} = KindsOf(x)
  BY Zenon DEF TracesStayTogether, Hidden, KindsOf
<1> DEFINE s12 == traces.ingested \o batch
           s123 == s12 \o queue
           all == s123 \o traces.offered[x]
           mine == {i \in DOMAIN all : all[i].of = x}
           p == traces.by[x]
           Mode(usual) == IF x.decision = "blocked" /\ p.blocked # "" THEN p.blocked ELSE usual
<1>1. FlowType /\ HeldIsTold /\ FlowIsOrdered /\ NoneIsMissing /\ x \in Exchanges
  BY FlowFields DEF FlowInv
<1>2. /\ traces.ingested \in Seq(EventType) /\ batch \in Seq(EventType) /\ queue \in Seq(EventType)
      /\ traces.offered[x] \in Seq(EventType)
  BY <1>1, FlowFields
<1>3. /\ s12 \in Seq(EventType) /\ ToSet(s12) = ToSet(traces.ingested) \cup ToSet(batch)
      /\ Ordered(s12)
  BY <1>1, <1>2, InConcat, OrderedConcat DEF FlowIsOrdered
<1> HIDE DEF s12
<1>4. s123 \in Seq(EventType) /\ ToSet(s123) = Held /\ Ordered(s123)
  <2>1. s123 \in Seq(EventType) /\ ToSet(s123) = ToSet(s12) \cup ToSet(queue)
    BY <1>2, <1>3, InConcat
  <2>2. Precede(ToSet(s12), ToSet(queue)) /\ Ordered(queue)
    BY <1>1, <1>3 DEF FlowIsOrdered, Precede
  <2>3. Ordered(s123)
    BY <1>2, <1>3, <2>2, OrderedConcat
  <2> QED
    BY <1>3, <2>1, <2>3 DEF Held
<1> HIDE DEF s123
<1>5. all \in Seq(EventType) /\ ToSet(all) = Held \cup ToSet(traces.offered[x]) /\ Ordered(all)
  <2>1. all \in Seq(EventType) /\ ToSet(all) = ToSet(s123) \cup ToSet(traces.offered[x])
    BY <1>2, <1>4, InConcat
  <2>2. Precede(ToSet(s123), ToSet(traces.offered[x])) /\ Ordered(traces.offered[x])
    BY <1>1, <1>4 DEF FlowIsOrdered
  <2>3. Ordered(all)
    BY <1>2, <1>4, <2>2, OrderedConcat
  <2> QED
    BY <1>4, <2>1, <2>3
<1> HIDE DEF all
<1>7. \A i \in mine : i \in DOMAIN all /\ all[i] \in ToSet(all) /\ all[i].of = x
  BY DEF ToSet
<1>8. \A i \in mine : all[i] \in Told(x)
  BY <1>1, <1>5, <1>7 DEF HeldIsTold
<1>9. \A i, j \in mine : i < j => Place[all[i].kind] < Place[all[j].kind]
  BY <1>5, <1>7 DEF Ordered, Earlier
<1>10. \A e \in Told(x) :
         /\ e.of = x
         /\ \A part \in e.input : ~Hidden(p, x.pointedOut, Mode(p.input), part)
         /\ \A part \in e.output : ~Hidden(p, x.pointedOut, Mode(p.output), part)
  <2>1. InMode(p, x.decision) = Mode(p.input) /\ OutMode(p, x.decision) = Mode(p.output)
    BY DEF InMode, OutMode
  <2> HIDE DEF Mode
  <2> QED
    BY <1>1, <2>1, EventsFacts DEF Told
<1>11. /\ \A d, e \in Told(x) : {d.kind, e.kind} = {"guardrail", "generation"} => d.input = e.input
       /\ {e.kind : e \in Told(x)} = KindsOf(x)
  BY <1>1, EventsFacts DEF Told
<1> HIDE DEF p, Mode
<1>12. \A i, j \in mine : {all[i].kind, all[j].kind} = {"guardrail", "generation"} => all[i].input = all[j].input
  BY <1>8, <1>11
<1>13. \A i \in mine :
         /\ \A part \in all[i].input : ~Hidden(p, x.pointedOut, Mode(p.input), part)
         /\ \A part \in all[i].output : ~Hidden(p, x.pointedOut, Mode(p.output), part)
  BY <1>8, <1>10
<1>14. x \in traces.torn \/ traces.lost \/ {all[i].kind : i \in mine} = KindsOf(x)
  <2>1. CASE x \in traces.torn \/ traces.lost
    BY <2>1
  <2>2. CASE Told(x) \subseteq Held \cup ToSet(traces.offered[x])
    <3>1. ASSUME NEW i \in mine PROVE all[i].kind \in KindsOf(x)
      <4>1. all[i] \in Told(x)
        BY <1>8
      <4> QED
        BY <4>1, <1>11
    <3>2. ASSUME NEW k \in KindsOf(x) PROVE \E i \in mine : all[i].kind = k
      <4>1. PICK e \in Told(x) : e.kind = k
        BY <1>11
      <4>2. PICK i \in DOMAIN all : all[i] = e
        BY <1>5, <2>2 DEF ToSet
      <4>3. i \in mine
        BY <1>10, <4>2
      <4> QED
        BY <4>1, <4>2, <4>3
    <3> QED
      BY <3>1, <3>2
  <2> QED
    BY <1>1, <2>1, <2>2 DEF NoneIsMissing
<1> HIDE DEF mine
<1>15. /\ \A i, j \in mine : i < j => Place[all[i].kind] < Place[all[j].kind]
       /\ \A i, j \in mine : {all[i].kind, all[j].kind} = {"guardrail", "generation"} => all[i].input = all[j].input
       /\ \A i \in mine :
              /\ \A part \in all[i].input : ~Hidden(p, x.pointedOut, Mode(p.input), part)
              /\ \A part \in all[i].output : ~Hidden(p, x.pointedOut, Mode(p.output), part)
       /\ \/ x \in traces.torn \/ traces.lost
          \/ {all[i].kind : i \in mine} = KindsOf(x)
  BY <1>9, <1>12, <1>13, <1>14
<1> QED
  BY <1>15, Zenon DEF all, s123, s12, mine, p, Mode

\* The events of an exchange keep their order and come once, tell of one policy
\* and keep nothing that it hides, and all of them come unless the queue
\* overflowed, a batch was lost or the forwarder began again, whatever is sent,
\* saved and captured between two of them (Capture of glue/capture.go, Enqueue
\* and run of glue/langfuse.go).
THEOREM TracesAreTogether == IngestionSpec => []TracesStayTogether
<1>1. IngestionInit => CopyInv /\ FlowInv
  BY CopyInit, FlowInit DEF IngestionInit
<1>2. CopyInv /\ FlowInv /\ [IngestionNext]_<<masking, traces, sinkVars>> => CopyInv' /\ FlowInv'
  BY CopyNext, FlowNext DEF CopyInv
<1>3. FlowInv => TracesStayTogether
  BY FlowIsTogether
<1> QED
  BY <1>1, <1>2, <1>3, PTL DEF IngestionSpec
=============================================================================
