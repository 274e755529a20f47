--------------------------- MODULE MetricAlerting ---------------------------
(***************************************************************************)
(* Metric alerting end to end (backend/internal/server/alertrules.go): the *)
(* rule store, the evaluation loop, the evaluator and the dispatcher.      *)
(*                                                                         *)
(* The loop copies the rules, then reads the metric of each and evaluates  *)
(* it under the evaluator's own lock; the handlers create, change and      *)
(* delete rules meanwhile, under the store's lock.  Nothing ties the two   *)
(* locks together.                                                         *)
(***************************************************************************)
EXTENDS AlertRules, AlertDispatch

CONSTANTS
  RuleIds,     \* rule identifiers the store hands out
  RuleInputs,  \* rule bodies the handlers accept (Validate)
  Overviews,   \* what dashboard.Overview can return
  Unborn,      \* not created yet
  Deleted,     \* created and deleted
  NoRule,      \* not in the copy the loop works on
  NoEntry,     \* unknown to the evaluator
  RunCap       \* the longest run of clear values a rule asks for

ASSUME AlertingAssumption ==
  /\ RuleIds \subseteq Subjects /\ "metric_breached" \in Events
  /\ RuleInputs \subseteq RuleType(Nat) /\ RunCap \in Nat
  /\ \A r \in RuleInputs : Need(WithDefaults(r)) <= RunCap

VARIABLES
  rules,     \* the rule store
  rt,        \* Evaluator.rt
  listed,    \* the loop's copy of the rules it has still to evaluate
  overview,  \* what the dashboard shows at present
  verdict,   \* what the step just taken decided, if it evaluated a rule (history)
  clearRun,  \* clear values evaluated since the last elevated one (history)
  quietFor   \* minutes since a first notice was let through (history)

ruleVars == <<rules, rt, listed, overview, verdict, clearRun, quietFor>>
vars     == <<ruleVars, dispatchVars>>

Metric == "metric_breached"
Rules  == {WithDefaults(r) : r \in RuleInputs}

Verdicts == [id : RuleIds \cup {NoRule}, need : Nat, fire : Decisions,
             handed : BOOLEAN]

NoVerdict == [id |-> NoRule, need |-> 1, fire |-> "none", handed |-> FALSE]

TypeOK ==
  /\ DispatchTypeOK(Decisions)
  /\ rules \in [RuleIds -> Rules \cup {Unborn, Deleted}]
  /\ rt \in [RuleIds -> Entry \cup {NoEntry}]
  /\ listed \in [RuleIds -> Rules \cup {NoRule}]
  /\ overview \in Overviews
  /\ verdict \in Verdicts
  /\ clearRun \in [RuleIds -> 0 .. RunCap]
  /\ quietFor \in [RuleIds -> 0 .. TTL]

Init ==
  /\ DispatchInit
  /\ rules \in [RuleIds -> Rules \cup {Unborn}]
  /\ rt = [r \in RuleIds |-> NoEntry]
  /\ listed = [r \in RuleIds |-> NoRule]
  /\ overview \in Overviews
  /\ verdict = NoVerdict
  /\ clearRun = [r \in RuleIds |-> 0]
  /\ quietFor = [r \in RuleIds |-> TTL]

Exists(r)   == rules[r] \notin {Unborn, Deleted}
PassIsOver  == \A r \in RuleIds : listed[r] = NoRule

\* An entry that is read before the first evaluation shows OK.
State(r) == IF rt[r] = NoEntry THEN "OK" ELSE rt[r].state

-----------------------------------------------------------------------------
\* The handlers.
CreateRule(r, body) ==
  /\ rules[r] = Unborn
  /\ rules' = [rules EXCEPT ![r] = WithDefaults(body)]
  /\ UNCHANGED <<rt, listed, overview, clearRun, quietFor, dispatchVars>>
  /\ verdict' = NoVerdict

UpdateRule(r, body) ==
  /\ Exists(r)
  /\ rules' = [rules EXCEPT ![r] = WithDefaults(body)]
  /\ UNCHANGED <<rt, listed, overview, clearRun, quietFor, dispatchVars>>
  /\ verdict' = NoVerdict

\* handleDeleteAlertRule takes the rule from the store, then calls Forget.  An
\* evaluation between the two leaves what one before both leaves: one step.
DeleteRule(r) ==
  /\ Exists(r)
  /\ rules' = [rules EXCEPT ![r] = Deleted]
  /\ rt' = [rt EXCEPT ![r] = NoEntry]
  /\ UNCHANGED <<listed, overview, clearRun, quietFor, dispatchVars>>
  /\ verdict' = NoVerdict

-----------------------------------------------------------------------------
\* The loop.
BeginPass ==
  /\ PassIsOver
  /\ listed' = [r \in RuleIds |-> IF Exists(r) THEN rules[r] ELSE NoRule]
  /\ UNCHANGED <<rules, rt, overview, clearRun, quietFor, dispatchVars>>
  /\ verdict' = NoVerdict

NoData     == [hasData |-> FALSE, value |-> 0]
Reading(v) == [hasData |-> TRUE, value |-> v]

\* Latencies of 0 and ratios without traffic are "no data"; counts never are.
metricSnapshot(rule) ==
  IF ~overview.ok THEN NoData
  ELSE CASE rule.metric = "latency" ->
              IF overview.value > 0 THEN Reading(overview.value) ELSE NoData
         [] rule.metric = "ratio" ->
              IF overview.traffic THEN Reading(overview.value) ELSE NoData
         [] rule.metric = "count" -> Reading(overview.value)

\* What the evaluation of `rule' makes of the snapshot, for the history.
Effect(rule, snap) ==
  CASE ~rule.enabled -> "skip"
    [] rule.enabled /\ ~snap.hasData /\ rule.mode # "treat_as_zero" -> "skip"
    [] OTHER -> Target(rule, IF snap.hasData THEN snap.value ELSE 0)

Counted(n, effect) ==
  CASE effect = "skip"  -> n
    [] effect = "clear" -> IF n < RunCap THEN n + 1 ELSE n
    [] OTHER -> 0

EvaluateListed(r) ==
  LET rule == listed[r]
      snap == metricSnapshot(rule)
      old  == IF rt[r] = NoEntry THEN NewEntry ELSE rt[r]
      out  == Evaluate(rule, old, snap)
  IN /\ rule # NoRule
     /\ listed' = [listed EXCEPT ![r] = NoRule]
     /\ rt' = [rt EXCEPT ![r] = out.entry]
     /\ IF out.fire = "none" THEN UNCHANGED dispatchVars
        ELSE DispatchMetric(r, Metric, out.fire, out.renotify)
     /\ clearRun' = [clearRun EXCEPT ![r] = Counted(@, Effect(rule, snap))]
     /\ verdict' = [id |-> r, need |-> Need(rule), fire |-> out.fire,
                    handed |-> out.fire # "none"
                               /\ Passes(r, Metric, out.renotify)]
     /\ quietFor' = [quietFor EXCEPT ![r] =
          IF verdict'.handed /\ ~out.renotify THEN 0 ELSE @]
     /\ UNCHANGED <<rules, overview>>

-----------------------------------------------------------------------------
\* The surroundings: the metrics move, a minute passes (a POST is over within
\* 9 seconds, so none is left when the next minute begins), the webhook is
\* changed and the POSTs end.
MetricsMove ==
  /\ overview' \in Overviews
  /\ UNCHANGED <<rules, rt, listed, clearRun, quietFor, dispatchVars>>
  /\ verdict' = NoVerdict

Minute ==
  /\ sending = {}
  /\ AgeSeen
  /\ rt' = [r \in RuleIds |->
              IF rt[r] = NoEntry THEN NoEntry
              ELSE [rt[r] EXCEPT !.sinceNotified = Aged(@)]]
  /\ quietFor' = [r \in RuleIds |->
                    IF quietFor[r] < TTL THEN quietFor[r] + 1 ELSE TTL]
  /\ UNCHANGED <<rules, listed, overview, clearRun, webhook, sending, audit>>
  /\ verdict' = NoVerdict

Elsewhere ==
  /\ UNCHANGED <<rules, rt, listed, overview, clearRun, quietFor>>
  /\ verdict' = NoVerdict

Configure(url) == SetWebhook(url) /\ Elsewhere
Post(m, ok)    == Attempt(m, ok) /\ Elsewhere

Next ==
  \/ \E r \in RuleIds, body \in RuleInputs : CreateRule(r, body)
  \/ \E r \in RuleIds, body \in RuleInputs : UpdateRule(r, body)
  \/ \E r \in RuleIds : DeleteRule(r)
  \/ BeginPass
  \/ \E r \in RuleIds : EvaluateListed(r)
  \/ MetricsMove
  \/ Minute
  \/ \E url \in Webhooks \cup {NoWebhook} : Configure(url)
  \/ \E m \in sending, ok \in BOOLEAN : Post(m, ok)

\* The ticker fires every minute and the loop is one goroutine; a POST ends.
Fairness ==
  /\ WF_vars(Minute)
  /\ WF_vars(BeginPass)
  /\ \A r \in RuleIds : WF_vars(EvaluateListed(r))
  /\ WF_vars(\E m \in sending, ok \in BOOLEAN : Post(m, ok))

Spec     == Init /\ [][Next]_vars
FairSpec == Spec /\ Fairness

-----------------------------------------------------------------------------
\* Hysteresis: a recovery is announced only when as many clear values as the
\* rule asks for were evaluated since its last elevated value, whatever
\* gaps, pauses and rule changes came between.
RecoveryIsEarned ==
  verdict.fire = "recover" => clearRun[verdict.id] >= verdict.need

\* The states the rule list shows and the notices agree: a rule comes to show
\* ALERT or WARNING only in an evaluation that decides to announce that kind.
ElevationIsAnnounced ==
  [][\A r \in RuleIds : \A kind \in Kinds :
       State(r) # LevelOf(kind) /\ State(r)' = LevelOf(kind)
         => verdict'.id = r /\ verdict'.fire = kind]_vars

\* No storm: two notices of a rule that are not reminders are let through at
\* least TTL minutes apart, however often the rule flaps or is rewritten.
FirstNoticesAreSpaced ==
  [][\A r \in RuleIds :
       quietFor'[r] = 0 /\ quietFor[r] # 0 => quietFor[r] = TTL]_vars

Breaching(r) ==
  /\ Exists(r) /\ rules[r].enabled
  /\ LET snap == metricSnapshot(rules[r])
     IN snap.hasData /\ Target(rules[r], snap.value) # "clear"

Clear(r) ==
  /\ Exists(r) /\ rules[r].enabled
  /\ LET snap == metricSnapshot(rules[r])
     IN snap.hasData /\ Target(rules[r], snap.value) = "clear"

\* A standing alarm is not forgotten: a rule with renotify_min set whose metric
\* stays above its threshold is sent again and again while a webhook is set.
StandingAlarmReminds ==
  \A r \in RuleIds, rule \in Rules :
    <>[](rules[r] = rule /\ rule.renotify > 0 /\ Breaching(r)
         /\ webhook # NoWebhook)
      => []<>(\E m \in sending : m.subject = r)

\* A rule that is no longer changed and whose metric stays clear ends in OK,
\* from whatever state it was in and whatever copy of it the loop had.
SteadyClearRecovers ==
  \A r \in RuleIds, rule \in Rules :
    <>[](rules[r] = rule /\ Clear(r)) => <>[](State(r) = "OK")

-----------------------------------------------------------------------------
\* What the repository says and the code does not do.

\* "Sends the elevations and the recoveries to the dispatcher": a recovery that
\* was decided while a webhook is set is let through to it.
RecoveryIsSent ==
  [][\A r \in RuleIds :
       listed[r] # NoRule /\ listed'[r] = NoRule /\ verdict'.id = r
       /\ verdict'.fire = "recover" /\ webhook # NoWebhook
         => verdict'.handed]_vars

\* Forget removes the runtime state of a deleted rule.
DeletedIsForgotten ==
  \A r \in RuleIds : rules[r] = Deleted => rt[r] = NoEntry
=============================================================================
