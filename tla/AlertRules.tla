----------------------------- MODULE AlertRules -----------------------------
(***************************************************************************)
(* The evaluator of metric alert rules (backend/internal/alertrules and    *)
(* the rule type of backend/internal/domain/alertrule.go).                 *)
(*                                                                         *)
(* One evaluation of one rule is a function of the rule, of the runtime    *)
(* entry the evaluator keeps for it and of the snapshot of its metric: it  *)
(* returns the next entry and the decision to notify.  Evaluate runs under *)
(* the evaluator's mutex, so it is one atomic step wherever it is used.    *)
(*                                                                         *)
(* Time is an age: sinceNotified is the number of minutes since            *)
(* lastNotified, saturated at AgeCap.  The code only ever compares it with *)
(* renotify_min, so nothing above the largest interval can be told apart.  *)
(***************************************************************************)
EXTENDS Naturals

CONSTANT AgeCap   \* ages saturate here; no rule's renotify_min exceeds it

ASSUME AgeCapAssumption == AgeCap \in Nat \ {0}

States    == {"OK", "WARNING", "ALERT", "NO_DATA", "PAUSED"}
Kinds     == {"alert", "warn"}
Decisions == Kinds \cup {"none", "recover"}

\* A rule.  `warn' holds the optional second threshold (a nil pointer is {}).
RuleType(Values) ==
  [metric : {"latency", "ratio", "count"}, op : {"gt", "gte", "lt", "lte"},
   alert : Values, warn : {s \in SUBSET Values : \A v, w \in s : v = w},
   mode : {"", "no_data", "treat_as_zero", "hold_previous"},
   recovery : Nat, renotify : 0 .. AgeCap, enabled : BOOLEAN]

WithDefaults(rule) ==
  [rule EXCEPT !.mode = IF @ = "" THEN "no_data" ELSE @,
               !.recovery = IF @ = 0 THEN 2 ELSE @]

Entry == [state : States, clearStreak : Nat, sinceNotified : 0 .. AgeCap,
          elevatedKind : Kinds \cup {""}]

NewEntry == [state |-> "OK", clearStreak |-> 0, sinceNotified |-> AgeCap,
             elevatedKind |-> ""]

Aged(age) == IF age < AgeCap THEN age + 1 ELSE age

-----------------------------------------------------------------------------
breached(op, value, threshold) ==
  \/ op = "gt"  /\ value > threshold
  \/ op = "gte" /\ value >= threshold
  \/ op = "lt"  /\ value < threshold
  \/ op = "lte" /\ value <= threshold

\* The kind a value asks for: the alert threshold is looked at first.
Target(rule, value) ==
  IF breached(rule.op, value, rule.alert) THEN "alert"
  ELSE IF \E t \in rule.warn : breached(rule.op, value, t) THEN "warn"
  ELSE "clear"

LevelOf(kind) == IF kind = "warn" THEN "WARNING" ELSE "ALERT"
Need(rule)    == IF rule.recovery < 1 THEN 1 ELSE rule.recovery

Outcome(e, fire, again) == [entry |-> e, fire |-> fire, renotify |-> again]
Quiet(e)                == Outcome(e, "none", FALSE)

\* Recovery without hysteresis: the first clear value ends the elevation.
EvaluateClear_NoStreak(rule, e) ==
  IF e.state = "OK" THEN Quiet(e)
  ELSE Outcome([state |-> "OK", clearStreak |-> 0, sinceNotified |-> 0,
                elevatedKind |-> ""], "recover", FALSE)

\* The streak is counted and never kept.
EvaluateClear_LosesStreak(rule, e) ==
  IF e.state = "OK" THEN Quiet(e)
  ELSE IF e.clearStreak + 1 >= Need(rule)
       THEN Outcome([state |-> "OK", clearStreak |-> 0, sinceNotified |-> 0,
                     elevatedKind |-> ""], "recover", FALSE)
       ELSE Quiet(e)

\* A clear value: the rule recovers after Need(rule) of them in a row.
EvaluateClear(rule, e) ==
  LET streak == e.clearStreak + 1 IN
  IF e.state = "OK" THEN Quiet(e)
  ELSE IF streak >= Need(rule)
       THEN Outcome([state |-> "OK", clearStreak |-> 0, sinceNotified |-> 0,
                     elevatedKind |-> ""], "recover", FALSE)
       ELSE Quiet([e EXCEPT !.clearStreak = streak])

\* The kind is stored, and a change of kind alone is announced.
EvaluateElevated_SilentEscalation(rule, e, kind) ==
  LET up == [e EXCEPT !.state = LevelOf(kind), !.elevatedKind = kind,
                      !.clearStreak = 0] IN
  IF e.elevatedKind # kind
  THEN Outcome([up EXCEPT !.sinceNotified = 0], kind, FALSE)
  ELSE Quiet(up)

\* The clock of the renotify interval restarts on every elevated evaluation.
EvaluateElevated_RestartsClock(rule, e, kind) ==
  LET up == [e EXCEPT !.state = LevelOf(kind), !.elevatedKind = kind,
                      !.clearStreak = 0, !.sinceNotified = 0] IN
  IF e.state # LevelOf(kind) \/ e.elevatedKind # kind
  THEN Outcome(up, kind, FALSE)
  ELSE IF rule.renotify > 0 /\ e.sinceNotified >= rule.renotify
       THEN Outcome(up, kind, TRUE)
       ELSE Quiet(up)

\* An elevated value: a change of state or kind is announced at once, the
\* same elevation again only when renotify_min has passed since the last one.
EvaluateElevated(rule, e, kind) ==
  LET up == [e EXCEPT !.state = LevelOf(kind), !.elevatedKind = kind,
                      !.clearStreak = 0] IN
  IF e.state # LevelOf(kind) \/ e.elevatedKind # kind
  THEN Outcome([up EXCEPT !.sinceNotified = 0], kind, FALSE)
  ELSE IF rule.renotify > 0 /\ e.sinceNotified >= rule.renotify
       THEN Outcome([up EXCEPT !.sinceNotified = 0], kind, TRUE)
       ELSE Quiet(up)

\* Data: after NO_DATA the rule starts again from an OK baseline.
EvaluateValue(rule, e, value) ==
  LET base == IF e.state = "NO_DATA"
              THEN [e EXCEPT !.state = "OK", !.clearStreak = 0] ELSE e
      kind == Target(rule, value)
  IN IF kind = "clear" THEN EvaluateClear(rule, base)
     ELSE EvaluateElevated(rule, base, kind)

\* No data: the rule's no_data_mode decides.
EvaluateGap(rule, e) ==
  CASE rule.mode = "treat_as_zero" -> EvaluateValue(rule, e, 0)
    [] rule.mode = "hold_previous" -> Quiet(e)
    [] OTHER -> Quiet([e EXCEPT !.state = "NO_DATA", !.clearStreak = 0])

Evaluate(rule, e, snap) ==
  IF ~rule.enabled
  THEN Quiet([e EXCEPT !.state = "PAUSED", !.clearStreak = 0])
  ELSE IF snap.hasData THEN EvaluateValue(rule, e, snap.value)
       ELSE EvaluateGap(rule, e)
=============================================================================
