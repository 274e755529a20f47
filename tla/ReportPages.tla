----------------------------- MODULE ReportPages -----------------------------
(***************************************************************************)
(* What tells the screens that show a report apart (web/src/pages), and    *)
(* how their choices are kept in the query of the URL (web/src/urlState.ts *)
(* and router.ts).  A query gives every key a text, "" when the key is not *)
(* there.  Of the choices a screen treats alike one stands for all: model  *)
(* for the selects of the traces, type for those of the guard's records.   *)
(***************************************************************************)
EXTENDS Naturals, Overlay

None == "none"
Missing == ""

(* A field of a schema: its default, what it offers, and whether any text  *)
(* passes or only what it offers.                                          *)
strField(default, offers) == [default |-> default, offers |-> offers, free |-> TRUE]
enumField(default, offers) == [default |-> default, offers |-> offers, free |-> FALSE]
Periods == {"24h", "1h"}
rangeField == enumField("24h", Periods)

serialize(field, v) == IF v = field.default THEN Missing ELSE v
parse(field, raw) == IF raw = Missing \/ (~field.free /\ raw \notin field.offers) THEN field.default ELSE raw

Keys == {"range", "model", "app", "q", "tab", "type", "group", "host", "entity"}
NoQuery == [k \in Keys |-> Missing]
decodeState(schema, query) == [k \in DOMAIN schema |-> parse(schema[k], query[k])]
encodeState(schema, state) == [k \in DOMAIN schema |-> serialize(schema[k], state[k])]
\* The keys of other schemas stay in the query.
mergeSearch(query, encoded) == encoded ++ query
pathForPage(params) == params ++ NoQuery

-----------------------------------------------------------------------------
(* A screen.  schema: its choices in the URL, and debounced those written  *)
(* to the URL a little later; own: its choices kept nowhere; asks: the     *)
(* choices its load sends; period: it asks with the period that screens    *)
(* share; clears: its effect empties the screen before it loads; timer;    *)
(* button: the loads of a button; waits: every load shows the spinner and  *)
(* the button waits for it; hides: an error takes the report off the       *)
(* screen; under: the choice under which its rows are there; byRow: choices  *)
(* a row's value is a button for; panel: where the content of a row's      *)
(* panel comes from, the row, a call of its opening or a call of a button  *)
(* in it; cut: closing cuts that call off; quiet: a call that was cut off  *)
(* and ends is not taken for a failed one; links and leaves: where the     *)
(* screen and its panel lead to.                                           *)
Link(to, carries) == [to |-> to, carries |-> carries]
Plain == [schema |-> <<>>, debounced |-> {}, own |-> <<>>, asks |-> {}, period |-> FALSE, clears |-> FALSE, timer |-> FALSE,
          waits |-> FALSE, under |-> <<>>, byRow |-> {}, panel |-> None, cut |-> FALSE, quiet |-> FALSE, leaves |-> {}]
Shows(button, hides, links) == [button |-> button, hides |-> hides, links |-> links]

TracesSchema == [range |-> rangeField, model |-> strField("all", {"all", "a"}), app |-> strField("all", {"all", "a"}),
                 q |-> strField("", {"", "x"})]
TracesChoices == [schema |-> TracesSchema, debounced |-> {"q"}]
TracesLoad == [asks |-> {"range", "model", "app", "q"}, waits |-> TRUE]
TracesView == [byRow |-> {"app"}] ++ Shows(TRUE, FALSE, {})
TracesPanel == [panel |-> "call", cut |-> TRUE, quiet |-> TRUE]
\* The infrastructure a trace ran on, and its replay.
TraceDetail == [leaves |-> {Link("elsewhere", {"host"}), Link("elsewhere", {"model"})}]
Traces == TracesChoices ++ TracesLoad ++ TracesView ++ TracesPanel ++ TraceDetail ++ Plain

SessionsSchema == [range |-> rangeField, app |-> strField("all", {"all", "a"})]
SessionsLoad == [asks |-> {"range", "app"}, waits |-> TRUE]
SessionsView == [panel |-> "call"] ++ Shows(TRUE, FALSE, {})
SessionsDetail == [cut |-> TRUE]
Sessions == [schema |-> SessionsSchema] ++ SessionsLoad ++ SessionsView ++ SessionsDetail ++ Plain

GuardSchema == [tab |-> enumField("overview", {"overview", "audit"}), range |-> rangeField, type |-> enumField("all", {"all", "pii"})]
GuardLoad == [asks |-> {"range", "type"}]
GuardView == [under |-> [tab |-> "audit"]] ++ Shows(TRUE, FALSE, {})
\* The text of a record is sensitive: only a button asks for it, and nothing cuts the call off.
GuardContent == [cut |-> FALSE]
GuardPanel == [panel |-> "button"]
Guard == [schema |-> GuardSchema] ++ GuardLoad ++ GuardView ++ GuardContent ++ GuardPanel ++ Plain

UsageSchema == [group |-> enumField("model", {"model", "dept"})]
UsageLoad == [asks |-> {"group"}, period |-> TRUE]
\* The breakdown leads to the traces of the period, those of a model if it is one of models; the ranking of the keys away.
UsageView == Shows(TRUE, FALSE, {Link("traces", {"range", "model"}), Link("traces", {"range"}), Link("elsewhere", {})})
UsagePanel == [panel |-> "row"]
Usage == [schema |-> UsageSchema] ++ UsageLoad ++ UsageView ++ UsagePanel ++ Plain

DashboardLoad == [period |-> TRUE, waits |-> TRUE]
DashboardTimer == [timer |-> TRUE]
DashboardWidgets == {Link(to, {}) : to \in {"traffic", "usage", "guard", "gpu"}}
\* An alert of the strip leads to its object.
DashboardView == Shows(TRUE, FALSE, {Link("elsewhere", {"entity"})} \cup DashboardWidgets)
DashboardPanel == [panel |-> "row", leaves |-> {Link("usage", {})}]
Dashboard == DashboardLoad ++ DashboardTimer ++ DashboardView ++ DashboardPanel ++ Plain

TrafficLoad == [asks |-> {"window"}]
TrafficTimer == [timer |-> TRUE]
TrafficView == [own |-> [window |-> enumField("60", {"60", "300"})]] ++ Shows(TRUE, FALSE, {})
TrafficPanel == [panel |-> "row"]
Traffic == TrafficLoad ++ TrafficTimer ++ TrafficView ++ TrafficPanel ++ Plain

GpuDetail == [panel |-> "call", cut |-> FALSE]
GpuTimer == [timer |-> TRUE]
GpuView == Shows(TRUE, FALSE, {})
GpuPanel == [leaves |-> {}]
Gpu == GpuDetail ++ GpuTimer ++ GpuView ++ GpuPanel ++ Plain

\* A gap of the coverage leads to where its signal would be.
SourcesGaps == {Link("gpu", {}), Link("elsewhere", {"host"}), Link("elsewhere", {})}
SourcesLoad == [waits |-> TRUE]
SourcesView == Shows(TRUE, FALSE, SourcesGaps)
MetricSources == SourcesLoad ++ SourcesView ++ Plain

ModelsLoad == [asks |-> {}]
\* To the import, and to an endpoint for a model, from its card and from its panel.
ModelsView == [panel |-> "row", leaves |-> {Link("elsewhere", {"model"})}] ++ Shows(FALSE, FALSE, {Link("elsewhere", {}), Link("elsewhere", {"model"})})
Models == ModelsLoad ++ ModelsView ++ Plain

\* The metrics of an object, in the drawer of whichever object is looked at.
ExplorerLoad == [asks |-> {"entity"}, own |-> [entity |-> enumField("one", {"one", "other"})], clears |-> TRUE, waits |-> TRUE]
\* The metrics, or an error with a button, or nothing yet.
ExplorerView == Shows(TRUE, TRUE, {})
MetricExplorer == ExplorerLoad ++ ExplorerView ++ Plain

Elsewhere == Shows(FALSE, FALSE, {}) ++ Plain

Pages == [traces |-> Traces, sessions |-> Sessions, guard |-> Guard, usage |-> Usage, dashboard |-> Dashboard, traffic |-> Traffic,
          gpu |-> Gpu, sources |-> MetricSources, models |-> Models, explorer |-> MetricExplorer, elsewhere |-> Elsewhere]
=============================================================================
