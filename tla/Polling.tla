------------------------------- MODULE Polling -------------------------------
(***************************************************************************)
(* The hook that keeps a screen current (web/src/utils/usePolling.ts) and  *)
(* the screens that use it: a load when it mounts and whenever what it     *)
(* depends on changes, one every interval unless it is paused or off, one  *)
(* when it is resumed.  A new load cuts off the one before it; a failure   *)
(* keeps the data and calls it stale.                                      *)
(***************************************************************************)
EXTENDS Naturals, Overlay

CONSTANTS Rows,       \* what an answer can list
          Deps,       \* what a load can be for: a range
          MaxLoads    \* loads of one visit at most

VARIABLE poll

None == "none"

(* A screen: whether its load depends on a range chosen on it, whether it  *)
(* fails only when all of its parts fail, whether an error hides what is   *)
(* stale, what it shows of an empty answer, whether its list can be        *)
(* narrowed to a row, whether it has a button, and how polling is switched *)
(* off: "never", "demo" (by a button, and then a scenario is on the        *)
(* screen), "static" (by how it is used).                                  *)
Plain == [ranges |-> FALSE, partly |-> FALSE, hides |-> FALSE, empty |-> "empty", narrows |-> FALSE, button |-> TRUE, off |-> "never"]
fetchAllNodes == [partly |-> TRUE]
NodesView == [empty |-> "no hosts"]
NodeMetrics == fetchAllNodes ++ NodesView ++ Plain
NetworkFetch == [ranges |-> TRUE]
NetworkView == [narrows |-> TRUE, empty |-> "no links"]
Network == NetworkFetch ++ NetworkView ++ Plain
Topology == [empty |-> "no nodes"] ++ Plain
\* The links of the objects may fail one by one, and are then left out of the graph.
Ontology == [hides |-> TRUE] ++ Plain
KineticStrip(off) == [empty |-> None, button |-> FALSE, off |-> off] ++ Plain
Investigate == [off |-> "demo"] ++ Plain
Screens == {NodeMetrics, Network, Topology, Ontology, KineticStrip("never"), KineticStrip("static"), Investigate}

Load(n, deps) == [n |-> n, deps |-> deps, aborted |-> FALSE]
Mounted(screen, deps, sel) ==
    [screen |-> screen, deps |-> deps, enabled |-> screen.off # "static", paused |-> FALSE, wasPaused |-> FALSE,
     data |-> {}, error |-> FALSE, loading |-> TRUE, loads |-> 1, running |-> {Load(1, deps)}, sel |-> sel, only |-> None]

\* What the hook returns beside its data.
isStale == poll.error /\ poll.data # {}
Demo == poll.screen.off = "demo" /\ ~poll.enabled

\* The rows on the screen.
Listed == {row \in UNION {d.rows : d \in poll.data} : poll.only \in {None, row}}
OnScreen ==
    IF Demo THEN {"scenario"}
    ELSE (IF poll.error THEN {"error"} ELSE IF poll.loading /\ poll.data = {} THEN {"spinner"} ELSE {})
         \cup (IF poll.data = {} \/ (isStale /\ poll.screen.hides) THEN {} ELSE {IF Listed = {} THEN poll.screen.empty ELSE "rows"})

\* A load that lets the one before it go on.
load_NoAbort(p) == [p EXCEPT !.loads = @ + 1, !.running = @ \cup {Load(p.loads + 1, p.deps)}]
load(p) ==
    [p EXCEPT !.loads = @ + 1,
        !.running = {[c EXCEPT !.aborted = TRUE] : c \in @} \cup {Load(p.loads + 1, p.deps)}]
\* The effect of the interval: what was missed while it was paused is loaded at once.
interval(p) ==
    IF p.paused \/ ~p.enabled THEN [p EXCEPT !.wasPaused = p.paused]
    ELSE IF p.wasPaused THEN load([p EXCEPT !.wasPaused = FALSE]) ELSE p

ChangeDeps(deps) ==
    /\ poll.loads < MaxLoads /\ poll.screen.ranges /\ deps # poll.deps
    /\ poll' = interval(load([poll EXCEPT !.deps = deps, !.loading = TRUE]))
Tick ==
    /\ poll.loads < MaxLoads /\ ~poll.paused /\ poll.enabled
    /\ poll' = load(poll)
Reload ==
    /\ poll.loads < MaxLoads /\ ~Demo /\ poll.screen.button
    /\ poll' = load(poll)
setPaused(paused) ==
    /\ poll.loads < MaxLoads /\ paused # poll.paused /\ poll.enabled
    /\ poll' = interval([poll EXCEPT !.paused = paused])
toggleDemo ==
    /\ poll.loads < MaxLoads /\ poll.screen.off = "demo"
    /\ poll' = interval([poll EXCEPT !.enabled = ~@])

\* An answer, or the end of a load that was cut off.
Answer(c, ok, rows) ==
    /\ c \in poll.running
    /\ LET came == ok /\ ~(poll.screen.partly /\ rows = {})
       IN  poll' = IF c.aborted THEN [poll EXCEPT !.running = @ \ {c}]
                   ELSE [poll EXCEPT !.running = @ \ {c}, !.loading = FALSE, !.error = ~came,
                             !.data = IF came THEN {[deps |-> c.deps, rows |-> rows]} ELSE @]

\* A row is looked at, in a panel that is open while the data has the row; or the list is narrowed to it.
Select(row) ==
    /\ row \in Listed /\ "rows" \in OnScreen
    /\ poll' = [poll EXCEPT !.sel = row]
Narrow(row) ==
    /\ poll.screen.narrows /\ row \in {None} \cup UNION {d.rows : d \in poll.data}
    /\ poll' = [poll EXCEPT !.only = row]
Panel == poll.sel # None /\ \E d \in poll.data : poll.sel \in d.rows
Close ==
    /\ Panel
    /\ poll' = [poll EXCEPT !.sel = None]

PollNext ==
    \/ \E deps \in Deps : ChangeDeps(deps)
    \/ Tick \/ Reload \/ toggleDemo \/ Close
    \/ \E paused \in BOOLEAN : setPaused(paused)
    \/ \E c \in poll.running, ok \in BOOLEAN, rows \in SUBSET Rows : Answer(c, ok, rows)
    \/ \E row \in Rows \cup {None} : Select(row) \/ Narrow(row)

-----------------------------------------------------------------------------
(* Data that is neither called stale nor being loaded is that of what the  *)
(* screen is about now; a screen that says it is loading, or shows nothing *)
(* at all, has a load under way that was not cut off, unless it is the     *)
(* strip of alerts without an alert.                                       *)
DataIsCurrent ==
    LET coming == \E c \in poll.running : ~c.aborted
    IN  /\ ~poll.loading /\ ~poll.error => \E d \in poll.data : d.deps = poll.deps
        /\ poll.loading => coming
        /\ OnScreen \subseteq {None} => coming \/ OnScreen = {None}
=============================================================================
