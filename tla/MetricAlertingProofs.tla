------------------------ MODULE MetricAlertingProofs ------------------------
(***************************************************************************)
(* What the metric alerts promise, for any set of rules and any metrics.   *)
(*                                                                         *)
(* One evaluation is a pure function, so what it may make of an entry is   *)
(* stated first: how the streak of clear values moves, and which levels it *)
(* reaches in silence (none).  The loop then ties the entry to histories   *)
(* that know nothing of it: the clear values that were really seen, and    *)
(* the minutes since a first notice.                                       *)
(***************************************************************************)
EXTENDS MetricAlerting, AlertDispatchProofs

-----------------------------------------------------------------------------
(* The evaluator.                                                          *)

\* What the validation says of a rule.
LEMMA RuleFacts ==
  ASSUME NEW rule \in Rules
  PROVE  /\ rule.metric \in {"latency", "ratio", "count"}
         /\ rule.mode \in {"no_data", "treat_as_zero", "hold_previous"}
         /\ rule.enabled \in BOOLEAN
         /\ rule.renotify \in 0 .. AgeCap
         /\ Need(rule) \in Nat \ {0} /\ Need(rule) <= RunCap
<1>1. PICK body \in RuleInputs : rule = WithDefaults(body)
  BY DEF Rules
<1>2. body \in RuleType(Nat) /\ Need(WithDefaults(body)) <= RunCap
  BY AlertingAssumption
<1>3. /\ rule.metric = body.metric /\ rule.enabled = body.enabled
      /\ rule.renotify = body.renotify
      /\ rule.mode = (IF body.mode = "" THEN "no_data" ELSE body.mode)
      /\ rule.recovery = (IF body.recovery = 0 THEN 2 ELSE body.recovery)
  <2>1. WithDefaults(body).metric = body.metric
    BY <1>2 DEF WithDefaults, RuleType
  <2>2. /\ WithDefaults(body).enabled = body.enabled
        /\ WithDefaults(body).renotify = body.renotify
    BY <1>2 DEF WithDefaults, RuleType
  <2>3. WithDefaults(body).mode
          = (IF body.mode = "" THEN "no_data" ELSE body.mode)
    BY <1>2 DEF WithDefaults, RuleType
  <2>4. WithDefaults(body).recovery
          = (IF body.recovery = 0 THEN 2 ELSE body.recovery)
    BY <1>2 DEF WithDefaults, RuleType
  <2>5. QED
    BY <1>1, <2>1, <2>2, <2>3, <2>4
<1>4. /\ body.metric \in {"latency", "ratio", "count"}
      /\ body.mode \in {"", "no_data", "treat_as_zero", "hold_previous"}
      /\ body.enabled \in BOOLEAN /\ body.renotify \in 0 .. AgeCap
      /\ body.recovery \in Nat
  BY <1>2 DEF RuleType
<1>5. Need(rule) \in Nat \ {0}
  <2>0. 2 \in Nat
    OBVIOUS
  <2>1. rule.recovery \in Nat
    BY <1>3, <1>4, <2>0, Zenon
  <2>2. QED
    BY <2>1 DEF Need
<1>6. Need(rule) <= RunCap
  BY <1>1, <1>2
<1>7. QED
  BY <1>3, <1>4, <1>5, <1>6

\* A value is clear or breaches one of the two levels.
LEMMA TargetType ==
  ASSUME NEW rule, NEW value
  PROVE  Target(rule, value) \in Kinds \cup {"clear"}
BY DEF Target, Kinds

\* How one evaluation moves the streak of an entry: it grows by a clear value
\* only, one at a time and short of what the rule needs, and what it needs is
\* reached when the recovery is decided.
StreakMoves(rule, e, out, effect) ==
  /\ effect = "skip" =>
       out.fire = "none" /\ out.entry.clearStreak <= e.clearStreak
  /\ effect = "clear" =>
       \/ out.entry.clearStreak <= e.clearStreak
       \/ /\ out.entry.clearStreak = e.clearStreak + 1
          /\ e.clearStreak + 1 < Need(rule)
  /\ effect = "clear" /\ out.fire = "recover" =>
       e.clearStreak + 1 >= Need(rule)
  /\ effect \in Kinds => out.entry.clearStreak = 0 /\ out.fire # "recover"

\* A level is never reached without its notice.
LevelIsTold(e, out) ==
  \A kind \in Kinds :
    out.entry.state = LevelOf(kind) /\ e.state # LevelOf(kind)
      => out.fire = kind

OutcomeType ==
  [entry : Entry, fire : Decisions, renotify : BOOLEAN]

\* The entries an evaluation writes are entries.
LEMMA EndedEntry ==
  [state |-> "OK", clearStreak |-> 0, sinceNotified |-> 0,
   elevatedKind |-> ""] \in Entry
BY AgeCapAssumption DEF Entry, States

\* The clear streak of an entry changes,
LEMMA StreakEntry ==
  ASSUME NEW e \in Entry, NEW n \in Nat
  PROVE  /\ [e EXCEPT !.clearStreak = n] \in Entry
         /\ [e EXCEPT !.clearStreak = n].clearStreak = n
         /\ [e EXCEPT !.clearStreak = n].state = e.state
BY DEF Entry

\* an entry is elevated,
LEMMA ElevatedEntry ==
  \A e \in Entry, state \in States, kind \in Kinds :
    LET up == [e EXCEPT !.state = state, !.elevatedKind = kind,
                        !.clearStreak = 0]
    IN  up \in Entry /\ up.clearStreak = 0 /\ up.state = state
BY DEF Entry

\* its notice is told: each is an entry still, otherwise as before.
LEMMA ToldEntry ==
  ASSUME NEW e \in Entry
  PROVE  /\ [e EXCEPT !.sinceNotified = 0] \in Entry
         /\ [e EXCEPT !.sinceNotified = 0].clearStreak = e.clearStreak
         /\ [e EXCEPT !.sinceNotified = 0].state = e.state
<1>1. 0 \in 0 .. AgeCap
  BY AgeCapAssumption
<1>2. QED
  BY <1>1 DEF Entry

\* What an outcome holds.
LEMMA OutcomeFields ==
  \A e \in Entry, fire \in Decisions :
    /\ Outcome(e, fire, FALSE) \in OutcomeType
    /\ Outcome(e, fire, FALSE).entry = e
    /\ Outcome(e, fire, FALSE).fire = fire
    /\ Outcome(e, fire, TRUE) \in OutcomeType
    /\ Outcome(e, fire, TRUE).entry = e
    /\ Outcome(e, fire, TRUE).fire = fire
BY DEF Outcome, OutcomeType

\* A clear value: the streak, the recovery, and no level reached.
LEMMA EvaluateClearFacts ==
  ASSUME NEW rule \in Rules, NEW e \in Entry
  PROVE  LET out == EvaluateClear(rule, e)
         IN  /\ out \in OutcomeType
             /\ StreakMoves(rule, e, out, "clear") /\ LevelIsTold(e, out)
<1> DEFINE out == EvaluateClear(rule, e)
           ended == [state |-> "OK", clearStreak |-> 0, sinceNotified |-> 0,
                     elevatedKind |-> ""]
           longer == [e EXCEPT !.clearStreak = e.clearStreak + 1]
<1> SUFFICES /\ out \in OutcomeType
             /\ StreakMoves(rule, e, out, "clear") /\ LevelIsTold(e, out)
  OBVIOUS
<1>1. /\ e.state = "OK" => out = Outcome(e, "none", FALSE)
      /\ e.state # "OK" /\ e.clearStreak + 1 >= Need(rule) =>
           out = Outcome(ended, "recover", FALSE)
      /\ e.state # "OK" /\ ~(e.clearStreak + 1 >= Need(rule)) =>
           out = Outcome(longer, "none", FALSE)
  BY DEF EvaluateClear, Quiet
<1>2. e.clearStreak \in Nat /\ e.clearStreak + 1 \in Nat
  <2>1. e.clearStreak \in Nat
    BY DEF Entry
  <2>2. QED
    BY <2>1
<1>3. ended \in Entry /\ ended.clearStreak = 0 /\ ended.state = "OK"
  BY EndedEntry
<1>4. /\ longer \in Entry /\ longer.clearStreak = e.clearStreak + 1
      /\ longer.state = e.state
  BY <1>2, StreakEntry
<1>5. Need(rule) \in Nat
  BY RuleFacts
<1>6. "none" \in Decisions /\ "recover" \in Decisions
  BY DEF Decisions
<1>7. \A kind \in Kinds : LevelOf(kind) # "OK"
  BY DEF LevelOf
<1> HIDE DEF out, ended, longer
<1>8. CASE e.state = "OK"
  <2>1. out \in OutcomeType /\ out.entry = e /\ out.fire = "none"
    <3>1. out = Outcome(e, "none", FALSE)
      BY <1>1, <1>8
    <3>2. /\ Outcome(e, "none", FALSE) \in OutcomeType
          /\ Outcome(e, "none", FALSE).entry = e
          /\ Outcome(e, "none", FALSE).fire = "none"
      BY <1>6, OutcomeFields
    <3>3. QED
      BY <3>1, <3>2
  <2>2. StreakMoves(rule, e, out, "clear")
    BY <1>2, <2>1 DEF StreakMoves, Kinds
  <2>3. QED
    BY <2>1, <2>2 DEF LevelIsTold
<1>9. CASE e.state # "OK" /\ e.clearStreak + 1 >= Need(rule)
  <2>1. out \in OutcomeType /\ out.entry = ended /\ out.fire = "recover"
    <3>1. out = Outcome(ended, "recover", FALSE)
      BY <1>1, <1>9
    <3>2. /\ Outcome(ended, "recover", FALSE) \in OutcomeType
          /\ Outcome(ended, "recover", FALSE).entry = ended
          /\ Outcome(ended, "recover", FALSE).fire = "recover"
      BY <1>3, <1>6, OutcomeFields
    <3>3. QED
      BY <3>1, <3>2
  <2>2. StreakMoves(rule, e, out, "clear")
    BY <1>2, <1>3, <1>9, <2>1 DEF StreakMoves, Kinds
  <2>3. LevelIsTold(e, out)
    BY <1>3, <1>7, <2>1 DEF LevelIsTold
  <2>4. QED
    BY <2>1, <2>2, <2>3
<1>10. CASE e.state # "OK" /\ ~(e.clearStreak + 1 >= Need(rule))
  <2>1. out \in OutcomeType /\ out.entry = longer /\ out.fire = "none"
    <3>1. out = Outcome(longer, "none", FALSE)
      BY <1>1, <1>10
    <3>2. /\ Outcome(longer, "none", FALSE) \in OutcomeType
          /\ Outcome(longer, "none", FALSE).entry = longer
          /\ Outcome(longer, "none", FALSE).fire = "none"
      BY <1>4, <1>6, OutcomeFields
    <3>3. QED
      BY <3>1, <3>2
  <2>2. StreakMoves(rule, e, out, "clear")
    BY <1>2, <1>4, <1>5, <1>10, <2>1 DEF StreakMoves, Kinds
  <2>3. LevelIsTold(e, out)
    BY <1>4, <2>1 DEF LevelIsTold
  <2>4. QED
    BY <2>1, <2>2, <2>3
<1>11. QED
  BY <1>8, <1>9, <1>10

\* An elevated value: the streak is gone, and the level it reaches is told.
LEMMA EvaluateElevatedFacts ==
  ASSUME NEW rule \in Rules, NEW e \in Entry, NEW kind \in Kinds
  PROVE  LET out == EvaluateElevated(rule, e, kind)
         IN  /\ out \in OutcomeType
             /\ StreakMoves(rule, e, out, kind) /\ LevelIsTold(e, out)
<1> DEFINE out == EvaluateElevated(rule, e, kind)
           up == [e EXCEPT !.state = LevelOf(kind), !.elevatedKind = kind,
                           !.clearStreak = 0]
           told == [up EXCEPT !.sinceNotified = 0]
<1> SUFFICES /\ out \in OutcomeType
             /\ StreakMoves(rule, e, out, kind) /\ LevelIsTold(e, out)
  OBVIOUS
<1>1. LevelOf(kind) \in States
  BY DEF LevelOf, States
<1>2. \A other \in Kinds : LevelOf(kind) = LevelOf(other) => kind = other
  BY DEF Kinds, LevelOf
<1>3. up \in Entry /\ up.clearStreak = 0 /\ up.state = LevelOf(kind)
  BY <1>1, ElevatedEntry, Zenon
<1>4. \/ out = Outcome(told, kind, FALSE) \/ out = Outcome(told, kind, TRUE)
      \/ (out = Outcome(up, "none", FALSE) /\ e.state = LevelOf(kind))
  BY DEF EvaluateElevated, Quiet
<1> HIDE DEF up
<1>5. told \in Entry /\ told.clearStreak = 0 /\ told.state = LevelOf(kind)
  BY <1>3, ToldEntry
<1>6. kind \in Decisions /\ "none" \in Decisions
  BY DEF Decisions
<1> HIDE DEF told, out
<1>7. /\ out \in OutcomeType /\ out.entry.clearStreak = 0
      /\ out.entry.state = LevelOf(kind)
      /\ out.fire = kind \/ (out.fire = "none" /\ e.state = LevelOf(kind))
  <2>1. CASE out = Outcome(told, kind, FALSE) \/ out = Outcome(told, kind, TRUE)
    <3>1. /\ Outcome(told, kind, FALSE) \in OutcomeType
          /\ Outcome(told, kind, FALSE).entry = told
          /\ Outcome(told, kind, FALSE).fire = kind
      BY <1>5, <1>6, OutcomeFields
    <3>2. /\ Outcome(told, kind, TRUE) \in OutcomeType
          /\ Outcome(told, kind, TRUE).entry = told
          /\ Outcome(told, kind, TRUE).fire = kind
      BY <1>5, <1>6, OutcomeFields
    <3>3. QED
      BY <1>5, <2>1, <3>1, <3>2
  <2>2. CASE out = Outcome(up, "none", FALSE) /\ e.state = LevelOf(kind)
    <3>1. /\ Outcome(up, "none", FALSE) \in OutcomeType
          /\ Outcome(up, "none", FALSE).entry = up
          /\ Outcome(up, "none", FALSE).fire = "none"
      BY <1>3, <1>6, OutcomeFields
    <3>2. QED
      BY <1>3, <2>2, <3>1
  <2>3. QED
    BY <1>4, <2>1, <2>2
<1>8. StreakMoves(rule, e, out, kind)
  BY <1>7 DEF StreakMoves, Kinds
<1>9. LevelIsTold(e, out)
  BY <1>2, <1>7 DEF LevelIsTold
<1>10. QED
  BY <1>7, <1>8, <1>9

\* Any value, after a gap or not.
LEMMA EvaluateValueFacts ==
  ASSUME NEW rule \in Rules, NEW e \in Entry, NEW value
  PROVE  LET out == EvaluateValue(rule, e, value)
         IN  /\ out \in OutcomeType
             /\ StreakMoves(rule, e, out, Target(rule, value))
             /\ LevelIsTold(e, out)
<1> DEFINE base == IF e.state = "NO_DATA"
                   THEN [e EXCEPT !.state = "OK", !.clearStreak = 0] ELSE e
           kind == Target(rule, value)
           out == EvaluateValue(rule, e, value)
<1>1. kind \in Kinds \cup {"clear"}
  BY TargetType
<1>2. /\ base \in Entry /\ base.clearStreak \in {0, e.clearStreak}
      /\ e.clearStreak \in Nat
      /\ base.state = e.state
         \/ (base.state = "OK" /\ e.state = "NO_DATA" /\ base.clearStreak = 0)
  BY DEF Entry, States
<1>3. /\ kind = "clear" => out = EvaluateClear(rule, base)
      /\ kind # "clear" => out = EvaluateElevated(rule, base, kind)
  BY DEF EvaluateValue
<1>4. Need(rule) \in Nat
  BY RuleFacts
<1> HIDE DEF base, kind, out
<1>5. /\ out \in OutcomeType /\ StreakMoves(rule, base, out, kind)
      /\ LevelIsTold(base, out)
  BY <1>1, <1>2, <1>3, EvaluateClearFacts, EvaluateElevatedFacts
<1>6. LevelIsTold(e, out)
  BY <1>2, <1>5 DEF LevelIsTold, LevelOf
<1>7. out.entry.clearStreak \in Nat
  BY <1>5 DEF OutcomeType, Entry
<1>8. StreakMoves(rule, e, out, kind)
  BY <1>1, <1>2, <1>4, <1>5, <1>7 DEF StreakMoves
<1>9. QED
  BY <1>5, <1>6, <1>8 DEF kind, out

\* One evaluation, whatever the snapshot.
LEMMA EvaluateFacts ==
  ASSUME NEW rule \in Rules, NEW e \in Entry, NEW snap,
         snap.hasData \in BOOLEAN
  PROVE  LET out == Evaluate(rule, e, snap)
         IN  /\ out \in OutcomeType
             /\ StreakMoves(rule, e, out, Effect(rule, snap))
             /\ LevelIsTold(e, out)
<1> DEFINE out == Evaluate(rule, e, snap)
           off(state) == [e EXCEPT !.state = state, !.clearStreak = 0]
<1>1. ASSUME NEW entry \in Entry, out = Quiet(entry),
             entry.clearStreak \in {0, e.clearStreak},
             entry.state \in {"PAUSED", "NO_DATA", e.state},
             Effect(rule, snap) = "skip"
      PROVE  /\ out \in OutcomeType
             /\ StreakMoves(rule, e, out, Effect(rule, snap))
             /\ LevelIsTold(e, out)
  <2>1. out = [entry |-> entry, fire |-> "none", renotify |-> FALSE]
    BY <1>1 DEF Quiet, Outcome
  <2> HIDE DEF out
  <2>2. out \in OutcomeType
    BY <2>1 DEF OutcomeType, Decisions
  <2>3. e.clearStreak \in Nat
    BY DEF Entry
  <2>4. StreakMoves(rule, e, out, "skip")
    BY <1>1, <2>1, <2>3 DEF StreakMoves, Kinds
  <2>5. LevelIsTold(e, out)
    BY <1>1, <2>1 DEF LevelIsTold, LevelOf
  <2>6. QED
    BY <1>1, <2>2, <2>4, <2>5
<1>2. CASE ~rule.enabled
  <2>1. off("PAUSED") \in Entry /\ off("PAUSED").clearStreak = 0
        /\ off("PAUSED").state = "PAUSED"
    BY DEF Entry, States
  <2>2. out = Quiet(off("PAUSED"))
    BY <1>2 DEF Evaluate
  <2>3. Effect(rule, snap) = "skip"
    BY <1>2 DEF Effect
  <2> HIDE DEF off
  <2>4. QED
    BY <1>1, <2>1, <2>2, <2>3
<1>3. CASE rule.enabled /\ snap.hasData
  <2>1. out = EvaluateValue(rule, e, snap.value)
    BY <1>3 DEF Evaluate
  <2>2. Effect(rule, snap) = Target(rule, snap.value)
    BY <1>3 DEF Effect
  <2>3. QED
    BY <2>1, <2>2, EvaluateValueFacts
<1>4. CASE rule.enabled /\ ~snap.hasData /\ rule.mode = "treat_as_zero"
  <2>1. out = EvaluateValue(rule, e, 0)
    BY <1>4 DEF Evaluate, EvaluateGap
  <2>2. Effect(rule, snap) = Target(rule, 0)
    BY <1>4 DEF Effect
  <2>3. QED
    BY <2>1, <2>2, EvaluateValueFacts
<1>5. CASE rule.enabled /\ ~snap.hasData /\ rule.mode = "hold_previous"
  <2>1. out = Quiet(e)
    BY <1>5 DEF Evaluate, EvaluateGap
  <2>2. Effect(rule, snap) = "skip"
    BY <1>5 DEF Effect
  <2>3. QED
    BY <1>1, <2>1, <2>2
<1>6. CASE rule.enabled /\ ~snap.hasData /\ rule.mode = "no_data"
  <2>1. off("NO_DATA") \in Entry /\ off("NO_DATA").clearStreak = 0
        /\ off("NO_DATA").state = "NO_DATA"
    BY DEF Entry, States
  <2>2. out = Quiet(off("NO_DATA"))
    BY <1>6 DEF Evaluate, EvaluateGap
  <2>3. Effect(rule, snap) = "skip"
    BY <1>6 DEF Effect
  <2> HIDE DEF off
  <2>4. QED
    BY <1>1, <2>1, <2>2, <2>3
<1>7. QED
  BY <1>2, <1>3, <1>4, <1>5, <1>6, RuleFacts

\* A snapshot has data or has none.
LEMMA SnapshotType ==
  ASSUME NEW rule \in Rules
  PROVE  metricSnapshot(rule).hasData \in BOOLEAN
<1>1. rule.metric \in {"latency", "ratio", "count"}
  BY RuleFacts
<1>2. NoData.hasData = FALSE /\ \A v : Reading(v).hasData = TRUE
  BY DEF NoData, Reading
<1>3. QED
  BY <1>1, <1>2 DEF metricSnapshot

-----------------------------------------------------------------------------
(* The loop and the histories.                                             *)

\* The streak of a rule is backed by clear values that were really evaluated.
StreakIsBacked ==
  \A r \in RuleIds : rt[r] # NoEntry => rt[r].clearStreak <= clearRun[r]

\* The history and the dedup map agree on the age of the last first notice.
AgesAgree == \A r \in RuleIds : quietFor[r] = seenAge[<<r, Metric>>]

IInv == TypeOK /\ StreakIsBacked /\ AgesAgree /\ RecoveryIsEarned

\* What the counting of clear values comes to.
LEMMA CountedMoves ==
  ASSUME NEW n \in 0 .. RunCap, NEW effect
  PROVE  /\ Counted(n, effect) \in 0 .. RunCap
         /\ effect = "skip" => Counted(n, effect) = n
         /\ effect = "clear" => Counted(n, effect) >= n
         /\ effect = "clear" /\ n < RunCap => Counted(n, effect) = n + 1
         /\ effect \in Kinds => Counted(n, effect) = 0
<1>1. RunCap \in Nat
  BY AlertingAssumption
<1>2. QED
  BY <1>1 DEF Counted, Kinds

\* An evaluation has one of three effects.
LEMMA EffectType ==
  ASSUME NEW rule, NEW snap, rule.enabled \in BOOLEAN
  PROVE  Effect(rule, snap) \in Kinds \cup {"skip", "clear"}
<1>1. \A v : Target(rule, v) \in Kinds \cup {"clear"}
  BY TargetType
<1>2. QED
  BY <1>1 DEF Effect

\* The streak after an evaluation is backed if the one before it was, and a
\* recovery has as many clear values behind it as the rule asks for.
LEMMA BackedStays ==
  ASSUME NEW rule \in Rules, NEW e \in Entry, NEW n \in 0 .. RunCap,
         NEW out \in OutcomeType, NEW effect \in Kinds \cup {"skip", "clear"},
         e.clearStreak <= n, StreakMoves(rule, e, out, effect)
  PROVE  /\ out.entry.clearStreak <= Counted(n, effect)
         /\ out.fire = "recover" => Counted(n, effect) >= Need(rule)
<1>1. /\ e.clearStreak \in Nat /\ out.entry.clearStreak \in Nat
      /\ Need(rule) \in Nat /\ Need(rule) <= RunCap /\ RunCap \in Nat
      /\ n \in Nat /\ Counted(n, effect) \in Nat
  <2>1. e.clearStreak \in Nat /\ out.entry.clearStreak \in Nat
    BY DEF OutcomeType, Entry
  <2>2. Need(rule) \in Nat /\ Need(rule) <= RunCap /\ RunCap \in Nat
    BY RuleFacts, AlertingAssumption
  <2>3. Counted(n, effect) \in 0 .. RunCap
    BY CountedMoves
  <2>4. QED
    BY <2>1, <2>2, <2>3
<1>2. CASE effect = "skip"
  BY <1>1, <1>2, CountedMoves DEF StreakMoves
<1>3. CASE effect = "clear"
  <2>1. /\ Counted(n, effect) >= n
        /\ n < RunCap => Counted(n, effect) = n + 1
    BY <1>3, CountedMoves
  <2>2. n <= RunCap
    BY AlertingAssumption
  <2>3. /\ \/ out.entry.clearStreak <= e.clearStreak
           \/ /\ out.entry.clearStreak = e.clearStreak + 1
              /\ e.clearStreak + 1 < Need(rule)
        /\ out.fire = "recover" => e.clearStreak + 1 >= Need(rule)
    BY <1>3 DEF StreakMoves
  <2>4. QED
    BY <1>1, <2>1, <2>2, <2>3
<1>4. CASE effect \in Kinds
  BY <1>1, <1>4, CountedMoves DEF StreakMoves
<1>5. QED
  BY <1>2, <1>3, <1>4

\* A notice that is no reminder and passes the dedup map.
FirstNotice(r, out) ==
  out.fire # "none" /\ Passes(r, Metric, out.renotify) /\ ~out.renotify

\* What an evaluation with the outcome `out' leaves behind.
EvaluatedTo(r, rule, out, effect) ==
  /\ listed' = [listed EXCEPT ![r] = NoRule]
  /\ rt' = [rt EXCEPT ![r] = out.entry]
  /\ clearRun' = [clearRun EXCEPT ![r] = Counted(clearRun[r], effect)]
  /\ verdict' = [id |-> r, need |-> Need(rule), fire |-> out.fire,
                 handed |-> out.fire # "none"
                            /\ Passes(r, Metric, out.renotify)]
  /\ quietFor' = IF FirstNotice(r, out) THEN [quietFor EXCEPT ![r] = 0]
                 ELSE quietFor
  /\ seenAge' = IF FirstNotice(r, out) THEN [seenAge EXCEPT ![<<r, Metric>>] = 0]
                ELSE seenAge
  /\ DispatchTypeOK(Decisions)'
  /\ UNCHANGED <<rules, overview>>

\* The entry an evaluation starts from.
Before(r) == IF rt[r] = NoEntry THEN NewEntry ELSE rt[r]

\* The entry a rule is evaluated with has the state that is shown, and is no
\* further in its clear streak than values were clear in a row.
LEMMA BeforeType ==
  ASSUME TypeOK, NEW r \in RuleIds
  PROVE  /\ Before(r) \in Entry /\ Before(r).state = State(r)
         /\ StreakIsBacked => Before(r).clearStreak <= clearRun[r]
<1>1. NewEntry \in Entry /\ NewEntry.state = "OK" /\ NewEntry.clearStreak = 0
  BY AgeCapAssumption DEF NewEntry, Entry, States
<1>2. rt[r] \in Entry \cup {NoEntry} /\ clearRun[r] \in Nat
  BY AlertingAssumption DEF TypeOK
<1>3. QED
  BY <1>1, <1>2 DEF Before, State, StreakIsBacked

\* The step of the loop, taken apart once for all the proofs below.
LEMMA EvaluateListedFacts ==
  ASSUME TypeOK, NEW r \in RuleIds, EvaluateListed(r)
  PROVE  \E rule \in Rules, out \in OutcomeType,
            effect \in Kinds \cup {"skip", "clear"} :
           /\ listed[r] = rule
           /\ StreakMoves(rule, Before(r), out, effect)
           /\ LevelIsTold(Before(r), out)
           /\ EvaluatedTo(r, rule, out, effect)
<1> DEFINE rule == listed[r]
           snap == metricSnapshot(rule)
           old  == Before(r)
           out  == Evaluate(rule, old, snap)
           effect == Effect(rule, snap)
<1>1. rule \in Rules
  BY DEF TypeOK, EvaluateListed
<1>2. snap.hasData \in BOOLEAN
  BY <1>1, SnapshotType
<1>3. old \in Entry
  BY BeforeType
<1>4. /\ out \in OutcomeType /\ StreakMoves(rule, old, out, effect)
      /\ LevelIsTold(old, out)
  BY <1>1, <1>2, <1>3, EvaluateFacts
<1>5. effect \in Kinds \cup {"skip", "clear"}
  BY <1>1, EffectType, RuleFacts
<1>6. /\ listed' = [listed EXCEPT ![r] = NoRule]
      /\ rt' = [rt EXCEPT ![r] = out.entry]
      /\ clearRun' = [clearRun EXCEPT ![r] = Counted(clearRun[r], effect)]
      /\ verdict' = [id |-> r, need |-> Need(rule), fire |-> out.fire,
                     handed |-> out.fire # "none"
                                /\ Passes(r, Metric, out.renotify)]
      /\ UNCHANGED <<rules, overview>>
  BY DEF EvaluateListed, Before
<1>7. /\ quietFor' = [quietFor EXCEPT ![r] =
                        IF verdict'.handed /\ ~out.renotify THEN 0 ELSE @]
      /\ out.fire = "none" => UNCHANGED dispatchVars
      /\ out.fire # "none" => Dispatching(r, Metric, out.fire, out.renotify)
  BY DEF EvaluateListed, Before, DispatchMetric
<1> HIDE DEF rule, snap, old, out, effect
<1>8. /\ out.fire \in Decisions /\ out.renotify \in BOOLEAN
      /\ r \in Subjects /\ Metric \in Events
  BY <1>4, AlertingAssumption DEF OutcomeType, Metric
<1>9. quietFor' = IF FirstNotice(r, out) THEN [quietFor EXCEPT ![r] = 0]
                  ELSE quietFor
  <2>1. verdict'.handed <=>
          out.fire # "none" /\ Passes(r, Metric, out.renotify)
    BY <1>6, Zenon
  <2>2. quietFor \in [RuleIds -> 0 .. TTL]
    BY DEF TypeOK
  <2>3. QED
    BY <1>7, <2>1, <2>2 DEF FirstNotice
<1>10. seenAge' = IF FirstNotice(r, out)
                  THEN [seenAge EXCEPT ![<<r, Metric>>] = 0] ELSE seenAge
  <2>1. CASE out.fire = "none"
    BY <1>7, <2>1 DEF FirstNotice, dispatchVars
  <2>2. CASE out.fire # "none"
    BY <1>7, <1>8, <2>2, DispatchingSeen DEF FirstNotice
  <2>3. QED
    BY <2>1, <2>2
<1>11. DispatchTypeOK(Decisions)'
  <2>0. DispatchTypeOK(Decisions)
    BY DEF TypeOK
  <2>1. CASE out.fire = "none"
    BY <1>7, <2>0, <2>1 DEF DispatchTypeOK, dispatchVars
  <2>2. CASE out.fire # "none"
    BY <1>7, <1>8, <2>0, <2>2, DispatchingType
  <2>3. QED
    BY <2>1, <2>2
<1>12. EvaluatedTo(r, rule, out, effect)
  BY <1>6, <1>9, <1>10, <1>11 DEF EvaluatedTo
<1>13. listed[r] = rule /\ Before(r) = old
  BY DEF rule, old
<1>14. QED
  BY <1>1, <1>4, <1>5, <1>12, <1>13

\* The evaluation keeps the invariant.
LEMMA EvaluateListedKeeps ==
  ASSUME IInv, NEW r \in RuleIds, EvaluateListed(r)
  PROVE  IInv'
<1>1. TypeOK /\ StreakIsBacked /\ AgesAgree
  BY DEF IInv
<1>2. PICK rule \in Rules, out \in OutcomeType,
           effect \in Kinds \cup {"skip", "clear"} :
        /\ StreakMoves(rule, Before(r), out, effect)
        /\ EvaluatedTo(r, rule, out, effect)
  BY <1>1, EvaluateListedFacts
<1>3. clearRun[r] \in 0 .. RunCap /\ Counted(clearRun[r], effect) \in 0 .. RunCap
  BY <1>1, CountedMoves DEF TypeOK
<1>4. /\ out.entry.clearStreak <= Counted(clearRun[r], effect)
      /\ out.fire = "recover" => Counted(clearRun[r], effect) >= Need(rule)
  BY <1>1, <1>2, <1>3, BeforeType, BackedStays
<1>5. TypeOK'
  <2>1. DispatchTypeOK(Decisions)'
    BY <1>2 DEF EvaluatedTo
  <2>2. rules' \in [RuleIds -> Rules \cup {Unborn, Deleted}]
        /\ overview' \in Overviews
    BY <1>1, <1>2 DEF EvaluatedTo, TypeOK
  <2>3. rt' \in [RuleIds -> Entry \cup {NoEntry}]
    <3>1. out.entry \in Entry
      BY <1>2 DEF OutcomeType
    <3>2. QED
      BY <1>1, <1>2, <3>1 DEF EvaluatedTo, TypeOK
  <2>4. listed' \in [RuleIds -> Rules \cup {NoRule}]
    BY <1>1, <1>2 DEF EvaluatedTo, TypeOK
  <2>5. verdict' \in Verdicts
    <3>1. Need(rule) \in Nat
      BY RuleFacts
    <3>2. out.fire \in Decisions
      BY DEF OutcomeType
    <3>3. (out.fire # "none" /\ Passes(r, Metric, out.renotify)) \in BOOLEAN
      OBVIOUS
    <3>4. QED
      BY <1>2, <3>1, <3>2, <3>3 DEF EvaluatedTo, Verdicts
  <2>6. clearRun' \in [RuleIds -> 0 .. RunCap]
    BY <1>1, <1>2, <1>3 DEF EvaluatedTo, TypeOK
  <2>7. quietFor' \in [RuleIds -> 0 .. TTL]
    <3>1. 0 \in 0 .. TTL
      BY DispatchAssumption
    <3>2. QED
      BY <1>1, <1>2, <3>1 DEF EvaluatedTo, TypeOK
  <2>8. QED
    BY <2>1, <2>2, <2>3, <2>4, <2>5, <2>6, <2>7 DEF TypeOK
<1>6. StreakIsBacked'
  <2>1. /\ rt' = [rt EXCEPT ![r] = out.entry]
        /\ clearRun' = [clearRun EXCEPT ![r] = Counted(clearRun[r], effect)]
        /\ rt \in [RuleIds -> Entry \cup {NoEntry}]
        /\ clearRun \in [RuleIds -> 0 .. RunCap]
    BY <1>1, <1>2 DEF EvaluatedTo, TypeOK
  <2>2. QED
    BY <1>1, <1>4, <2>1 DEF StreakIsBacked
<1>7. AgesAgree'
  <2>1. /\ quietFor \in [RuleIds -> 0 .. TTL]
        /\ seenAge \in [Subjects \X Events -> 0 .. TTL]
        /\ RuleIds \subseteq Subjects /\ Metric \in Events
    BY <1>1, AlertingAssumption DEF TypeOK, DispatchTypeOK, Metric
  <2>2. CASE FirstNotice(r, out)
    <3>1. /\ quietFor' = [quietFor EXCEPT ![r] = 0]
          /\ seenAge' = [seenAge EXCEPT ![<<r, Metric>>] = 0]
      BY <1>2, <2>2 DEF EvaluatedTo
    <3>2. QED
      BY <1>1, <2>1, <3>1 DEF AgesAgree
  <2>3. CASE ~FirstNotice(r, out)
    BY <1>1, <1>2, <2>3 DEF EvaluatedTo, AgesAgree
  <2>4. QED
    BY <2>2, <2>3
<1>8. RecoveryIsEarned'
  <2>1. /\ verdict'.id = r /\ verdict'.need = Need(rule)
        /\ verdict'.fire = out.fire
        /\ clearRun'[r] = Counted(clearRun[r], effect)
    BY <1>1, <1>2 DEF EvaluatedTo, TypeOK
  <2>2. QED
    BY <1>4, <2>1 DEF RecoveryIsEarned
<1>9. QED
  BY <1>5, <1>6, <1>7, <1>8 DEF IInv

\* A minute ages the entries, the dedup map and the history alike.
LEMMA MinuteKeeps == ASSUME IInv, Minute PROVE IInv'
<1>1. TypeOK /\ StreakIsBacked /\ AgesAgree
  BY DEF IInv
<1>2. DispatchTypeOK(Decisions)'
  BY <1>1, AgeType DEF Minute, TypeOK
<1>3. ASSUME NEW e \in Entry
      PROVE  /\ [e EXCEPT !.sinceNotified = Aged(@)] \in Entry
             /\ [e EXCEPT !.sinceNotified = Aged(@)].clearStreak = e.clearStreak
  <2>1. Aged(e.sinceNotified) \in 0 .. AgeCap
    <3>1. e.sinceNotified \in 0 .. AgeCap
      BY DEF Entry
    <3>2. QED
      BY <3>1, AgeCapAssumption DEF Aged
  <2>2. QED
    BY <2>1 DEF Entry
<1>4. rt' \in [RuleIds -> Entry \cup {NoEntry}]
  BY <1>1, <1>3 DEF Minute, TypeOK
<1>5. /\ TTL \in Nat /\ quietFor \in [RuleIds -> 0 .. TTL]
      /\ quietFor' = [r \in RuleIds |->
                        IF quietFor[r] < TTL THEN quietFor[r] + 1 ELSE TTL]
  BY <1>1, DispatchAssumption DEF Minute, TypeOK
<1>6. quietFor' \in [RuleIds -> 0 .. TTL]
  BY <1>5
<1>7. NoVerdict \in Verdicts /\ NoVerdict.fire = "none"
  BY DEF NoVerdict, Verdicts, Decisions
<1>8. TypeOK'
  BY <1>1, <1>2, <1>4, <1>6, <1>7 DEF Minute, TypeOK
<1>9. StreakIsBacked'
  BY <1>1, <1>3 DEF Minute, StreakIsBacked, TypeOK
<1>10. AgesAgree'
  <2>1. /\ seenAge \in [Subjects \X Events -> 0 .. TTL]
        /\ RuleIds \subseteq Subjects /\ Metric \in Events
    BY <1>1, AlertingAssumption DEF TypeOK, DispatchTypeOK, Metric
  <2>2. \A r \in RuleIds :
          seenAge'[<<r, Metric>>] =
            IF seenAge[<<r, Metric>>] < TTL THEN seenAge[<<r, Metric>>] + 1
            ELSE TTL
    BY <2>1 DEF Minute, AgeSeen
  <2>3. QED
    BY <1>1, <1>5, <2>2 DEF AgesAgree
<1>11. RecoveryIsEarned'
  BY <1>7 DEF Minute, RecoveryIsEarned
<1>12. QED
  BY <1>8, <1>9, <1>10, <1>11 DEF IInv

\* A step that evaluates nothing, and leaves the histories and the dedup map
\* alone, keeps the invariant if it keeps the types; entries it may forget.
LEMMA OtherKeeps ==
  ASSUME IInv, TypeOK', verdict' = NoVerdict,
         UNCHANGED <<clearRun, quietFor, seenAge>>,
         \A r \in RuleIds : rt'[r] = rt[r] \/ rt'[r] = NoEntry
  PROVE  IInv'
<1>1. StreakIsBacked'
  BY DEF IInv, StreakIsBacked
<1>2. AgesAgree'
  BY DEF IInv, AgesAgree
<1>3. RecoveryIsEarned'
  BY DEF NoVerdict, RecoveryIsEarned
<1>4. QED
  BY <1>1, <1>2, <1>3 DEF IInv

\* The invariant holds at the start.
LEMMA InitKeeps == Init => IInv
<1> SUFFICES ASSUME Init PROVE IInv
  OBVIOUS
<1>1. NoVerdict \in Verdicts /\ NoVerdict.fire = "none"
  BY DEF NoVerdict, Verdicts, Decisions
<1>2. DispatchTypeOK(Decisions)
  BY DispatchInitType DEF Init
<1>3. 0 \in 0 .. RunCap /\ TTL \in 0 .. TTL
  BY DispatchAssumption, AlertingAssumption
<1>4. TypeOK
  BY <1>1, <1>2, <1>3 DEF Init, TypeOK
<1>5. StreakIsBacked
  BY DEF Init, StreakIsBacked
<1>6. AgesAgree
  BY AlertingAssumption DEF Init, DispatchInit, AgesAgree, Metric
<1>7. RecoveryIsEarned
  BY <1>1 DEF Init, RecoveryIsEarned
<1>8. QED
  BY <1>4, <1>5, <1>6, <1>7 DEF IInv

\* Every step keeps it.
LEMMA NextKeeps == IInv /\ [Next]_vars => IInv'
<1> SUFFICES ASSUME IInv, [Next]_vars PROVE IInv'
  OBVIOUS
<1>1. TypeOK
  BY DEF IInv
<1>2. NoVerdict \in Verdicts
  BY DEF NoVerdict, Verdicts, Decisions
<1>3. ASSUME NEW body \in RuleInputs PROVE WithDefaults(body) \in Rules
  BY DEF Rules
<1>4. ASSUME NEW r \in RuleIds, NEW body \in RuleInputs,
             CreateRule(r, body) \/ UpdateRule(r, body)
      PROVE  IInv'
  <2>1. TypeOK'
    BY <1>1, <1>2, <1>3, <1>4
    DEF TypeOK, DispatchTypeOK, CreateRule, UpdateRule, dispatchVars
  <2>2. QED
    BY <1>4, <2>1, OtherKeeps DEF CreateRule, UpdateRule, dispatchVars
<1>5. ASSUME NEW r \in RuleIds, DeleteRule(r) PROVE IInv'
  <2>1. TypeOK'
    BY <1>1, <1>2, <1>5 DEF TypeOK, DispatchTypeOK, DeleteRule, dispatchVars
  <2>2. \A s \in RuleIds : rt'[s] = rt[s] \/ rt'[s] = NoEntry
    BY <1>1, <1>5 DEF TypeOK, DeleteRule
  <2>3. QED
    BY <1>5, <2>1, <2>2, OtherKeeps DEF DeleteRule, dispatchVars
<1>6. CASE BeginPass
  <2>1. \A r \in RuleIds : Exists(r) => rules[r] \in Rules
    BY <1>1 DEF TypeOK, Exists
  <2>2. TypeOK'
    BY <1>1, <1>2, <1>6, <2>1
    DEF TypeOK, DispatchTypeOK, BeginPass, dispatchVars
  <2>3. QED
    BY <1>6, <2>2, OtherKeeps DEF BeginPass, dispatchVars
<1>7. ASSUME NEW r \in RuleIds, EvaluateListed(r) PROVE IInv'
  BY <1>7, EvaluateListedKeeps
<1>8. CASE MetricsMove
  <2>1. TypeOK'
    BY <1>1, <1>2, <1>8 DEF TypeOK, DispatchTypeOK, MetricsMove, dispatchVars
  <2>2. QED
    BY <1>8, <2>1, OtherKeeps DEF MetricsMove, dispatchVars
<1>9. CASE Minute
  BY <1>9, MinuteKeeps
<1>10. ASSUME NEW url \in Webhooks \cup {NoWebhook}, Configure(url) PROVE IInv'
  <2>1. TypeOK'
    BY <1>1, <1>2, <1>10
    DEF TypeOK, DispatchTypeOK, Configure, SetWebhook, Elsewhere
  <2>2. QED
    BY <1>10, <2>1, OtherKeeps DEF Configure, SetWebhook, Elsewhere
<1>11. ASSUME NEW m \in sending, NEW ok \in BOOLEAN, Post(m, ok) PROVE IInv'
  <2>1. DispatchTypeOK(Decisions)' /\ UNCHANGED seenAge
    BY <1>1, <1>11, AttemptType, AttemptSends DEF TypeOK, Post
  <2>2. TypeOK'
    BY <1>1, <1>2, <1>11, <2>1 DEF TypeOK, Post, Elsewhere
  <2>3. QED
    BY <1>11, <2>1, <2>2, OtherKeeps DEF Post, Elsewhere
<1>12. CASE UNCHANGED vars
  <2>1. UNCHANGED <<webhook, seenAge, sending, audit, rules, rt, listed,
                    overview, verdict, clearRun, quietFor>>
    BY <1>12 DEF vars, ruleVars, dispatchVars
  <2>2. QED
    BY <2>1 DEF IInv, TypeOK, DispatchTypeOK, StreakIsBacked, AgesAgree,
                RecoveryIsEarned
<1>13. QED
  BY <1>4, <1>5, <1>6, <1>7, <1>8, <1>9, <1>10, <1>11, <1>12 DEF Next

\* The inductive invariant, for any rules and any metrics.
THEOREM InvIsInductive == Spec => []IInv
<1>1. Init => IInv
  BY InitKeeps
<1>2. IInv /\ [Next]_vars => IInv'
  BY NextKeeps
<1>3. QED
  BY <1>1, <1>2, PTL DEF Spec

\* The rule store, the entries of the evaluator, the copy of the loop and the
\* dedup map keep their types.
THEOREM TypeCorrect == Spec => []TypeOK
<1>1. IInv => TypeOK
  BY DEF IInv
<1>2. QED
  BY <1>1, InvIsInductive, PTL

\* Hysteresis (Evaluator.Evaluate): a recovery is decided only after as many
\* clear values as the rule asks for, whatever gaps and rule changes there were.
THEOREM RecoveriesAreEarned == Spec => []RecoveryIsEarned
<1>1. IInv => RecoveryIsEarned
  BY DEF IInv
<1>2. QED
  BY <1>1, InvIsInductive, PTL

-----------------------------------------------------------------------------
(* What a step may never do.                                               *)

\* A step that is no evaluation shows the level it showed, or OK.
LEMMA ShownLevel ==
  ASSUME TypeOK, NEW r \in RuleIds,
         rt'[r] = rt[r] \/ rt'[r] = NoEntry
         \/ (rt[r] # NoEntry /\ rt'[r].state = rt[r].state)
  PROVE  State(r)' = State(r) \/ State(r)' = "OK"
BY DEF State

\* Only an evaluation of the rule itself elevates it, and it decides to announce
\* what it shows.
LEMMA EvaluationAnnounces ==
  ASSUME TypeOK, NEW s \in RuleIds, EvaluateListed(s),
         NEW r \in RuleIds, NEW kind \in Kinds,
         State(r) # LevelOf(kind), State(r)' = LevelOf(kind)
  PROVE  verdict'.id = r /\ verdict'.fire = kind
<1>1. PICK rule \in Rules, out \in OutcomeType,
           effect \in Kinds \cup {"skip", "clear"} :
        LevelIsTold(Before(s), out) /\ EvaluatedTo(s, rule, out, effect)
  BY EvaluateListedFacts
<1>2. /\ rt' = [rt EXCEPT ![s] = out.entry]
      /\ rt \in [RuleIds -> Entry \cup {NoEntry}]
      /\ verdict'.id = s /\ verdict'.fire = out.fire
  BY <1>1 DEF EvaluatedTo, TypeOK
<1>3. LevelOf(kind) # "OK"
  BY DEF LevelOf
<1>4. r = s
  BY <1>2, <1>3 DEF State
<1>5. Before(s).state = State(s)
  BY BeforeType
<1>6. out.entry.state = LevelOf(kind)
  BY <1>2, <1>3, <1>4 DEF State
<1>7. out.fire = kind
  BY <1>1, <1>4, <1>5, <1>6 DEF LevelIsTold
<1>8. QED
  BY <1>2, <1>4, <1>7

\* A rule comes to show ALERT or WARNING only in an evaluation that decides to
\* announce it: no handler, gap, pause or minute raises a level in silence.
THEOREM ElevationsAreAnnounced == Spec => ElevationIsAnnounced
<1> DEFINE Announced ==
      \A r \in RuleIds : \A kind \in Kinds :
        State(r) # LevelOf(kind) /\ State(r)' = LevelOf(kind)
          => verdict'.id = r /\ verdict'.fire = kind
<1>1. ASSUME TypeOK, Next PROVE Announced
  <2>1. \A kind \in Kinds : LevelOf(kind) # "OK"
    BY DEF LevelOf
  <2>2. ASSUME \A r \in RuleIds : State(r)' = State(r) \/ State(r)' = "OK"
        PROVE  Announced
    BY <2>1, <2>2
  <2>3. ASSUME \A r \in RuleIds : rt'[r] = rt[r] \/ rt'[r] = NoEntry
        PROVE  Announced
    BY <1>1, <2>2, <2>3, ShownLevel
  <2>4. CASE \E r \in RuleIds, body \in RuleInputs :
               CreateRule(r, body) \/ UpdateRule(r, body)
    BY <2>3, <2>4 DEF CreateRule, UpdateRule
  <2>5. CASE \E r \in RuleIds : DeleteRule(r)
    <3>1. \A r \in RuleIds : rt'[r] = rt[r] \/ rt'[r] = NoEntry
      BY <1>1, <2>5 DEF TypeOK, DeleteRule
    <3>2. QED
      BY <2>3, <3>1
  <2>6. CASE BeginPass
    BY <2>3, <2>6 DEF BeginPass
  <2>7. CASE \E r \in RuleIds : EvaluateListed(r)
    BY <1>1, <2>7, EvaluationAnnounces
  <2>8. CASE MetricsMove
    BY <2>3, <2>8 DEF MetricsMove
  <2>9. CASE Minute
    <3>1. ASSUME NEW r \in RuleIds, rt[r] # NoEntry
          PROVE  rt'[r].state = rt[r].state
      <4>1. rt[r] \in Entry
        BY <1>1, <3>1 DEF TypeOK
      <4>2. rt'[r] = [rt[r] EXCEPT !.sinceNotified = Aged(@)]
        BY <2>9, <3>1 DEF Minute
      <4>3. QED
        BY <4>1, <4>2 DEF Entry
    <3>2. \A r \in RuleIds : rt[r] = NoEntry => rt'[r] = NoEntry
      BY <2>9 DEF Minute
    <3>3. QED
      BY <1>1, <2>2, <3>1, <3>2, ShownLevel
  <2>10. CASE \E url \in Webhooks \cup {NoWebhook} : Configure(url)
    BY <2>3, <2>10 DEF Configure, Elsewhere
  <2>11. CASE \E m \in sending, ok \in BOOLEAN : Post(m, ok)
    BY <2>3, <2>11 DEF Post, Elsewhere
  <2>12. QED
    BY <1>1, <2>4, <2>5, <2>6, <2>7, <2>8, <2>9, <2>10, <2>11 DEF Next
<1>2. TypeOK /\ [Next]_vars => [Announced]_vars
  BY <1>1
<1>3. QED
  BY <1>2, TypeCorrect, PTL DEF Spec, ElevationIsAnnounced

\* No storm (alerting.go, allow): two first notices of a rule are let through at
\* least TTL minutes apart, for as the history agrees with the dedup map, a
\* first notice finds it at TTL.
THEOREM FirstNoticesSpaced == Spec => FirstNoticesAreSpaced
<1> DEFINE Spaced ==
      \A r \in RuleIds :
        quietFor'[r] = 0 /\ quietFor[r] # 0 => quietFor[r] = TTL
<1>1. ASSUME IInv, Next PROVE Spaced
  <2>1. /\ quietFor \in [RuleIds -> 0 .. TTL] /\ TTL \in Nat \ {0}
        /\ TypeOK /\ AgesAgree
    BY <1>1, DispatchAssumption DEF IInv, TypeOK
  <2>2. ASSUME UNCHANGED quietFor PROVE Spaced
    BY <2>2
  <2>3. CASE Minute
    <3>1. \A r \in RuleIds : quietFor'[r] # 0
      BY <2>1, <2>3 DEF Minute
    <3>2. QED
      BY <3>1
  <2>4. ASSUME NEW s \in RuleIds, EvaluateListed(s) PROVE Spaced
    <3>1. PICK rule \in Rules, out \in OutcomeType,
               effect \in Kinds \cup {"skip", "clear"} :
            EvaluatedTo(s, rule, out, effect)
      BY <2>1, <2>4, EvaluateListedFacts
    <3>2. CASE FirstNotice(s, out)
      <4>1. quietFor[s] = TTL
        BY <2>1, <3>2 DEF FirstNotice, Passes, allow, AgesAgree
      <4>2. quietFor' = [quietFor EXCEPT ![s] = 0]
        BY <3>1, <3>2 DEF EvaluatedTo
      <4>3. QED
        BY <2>1, <4>1, <4>2
    <3>3. CASE ~FirstNotice(s, out)
      BY <2>2, <3>1, <3>3 DEF EvaluatedTo
    <3>4. QED
      BY <3>2, <3>3
  <2>5. UNCHANGED quietFor \/ Minute \/ \E s \in RuleIds : EvaluateListed(s)
    BY <1>1 DEF Next, CreateRule, UpdateRule, DeleteRule, BeginPass,
                MetricsMove, Configure, Post, Elsewhere
  <2>6. QED
    BY <2>2, <2>3, <2>4, <2>5
<1>2. IInv /\ [Next]_vars => [Spaced]_vars
  BY <1>1
<1>3. QED
  BY <1>2, InvIsInductive, PTL DEF Spec, FirstNoticesAreSpaced
=============================================================================
