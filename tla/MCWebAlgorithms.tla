--------------------------- MODULE MCWebAlgorithms ---------------------------
(***************************************************************************)
(* The pure functions of the web console on every input of a small family. *)
(* A step picks the input; what is computed of it is judged by the         *)
(* invariants, which compare it with a definition of another shape or with *)
(* what a second function says of the same input.                          *)
(***************************************************************************)
EXTENDS Agent, TopologyLayout, Lists, FiniteSetsExt

CONSTANTS GraphLinks,   \* links of a searched graph at most
          LayoutEdges   \* edges of a drawn topology at most

VARIABLE input

(* --- the searches ------------------------------------------------------ *)

Ids == 1 .. 4
PairLinks(pairs) ==
    LET s == SetToSeq(pairs)
    IN  [i \in DOMAIN s |-> [from |-> s[i][1], to |-> s[i][2],
                             kind |-> IF s[i][1] < s[i][2] THEN "serves" ELSE "hostedBy"]]
PickGraph ==
    \E k \in 0 .. GraphLinks : \E pairs \in kSubset(k, Ids \X Ids \ {<<2, 2>>, <<3, 3>>, <<4, 4>>}) :
    \E there \in {Ids, {1, 2, 4}} :
        input' = [about |-> "graph", g |-> Graph([id \in there |-> "object"], PairLinks(pairs))]

\* The search visits what is reachable in steps, each at its least distance; a path it gives is a shortest one
\* (ontologyGraph.ts), whatever the order of the links.
Searches ==
    input.about = "graph" =>
        \A dir \in Directions, kinds \in {LinkKinds, {"serves"}} :
            /\ BfsIsBreadthFirst(input.g, 1, dir, kinds, 2)
            /\ PathIsShortest(input.g, 1, 4, dir, kinds)

(* --- the path of an investigation ---------------------------------------- *)

L(from, to, kind) == [from |-> from, to |-> to, kind |-> kind]
Spines == {L(1, 2, "serves"), L(2, 3, "runsOn"), L(3, 4, "hostedBy")}
Besides == {L(5, 4, "hostedBy"), L(6, 1, "affects"), L(5, 1, "consumes"), L(1, 3, "executedOn"), L(4, 9, "routes"),
            L(2, 6, "affects")}
Kind == <<"Endpoint", "Model", "GpuDevice", "Node", "Service", "Incident">>
AllOk == <<"ok", "ok", "ok">>
Series == {AllOk, <<"ok", "crit", "warn">>, <<"crit", "crit", "crit">>}
PickInvestigation ==
    \E spine \in SUBSET Spines, more \in {m \in SUBSET Besides : Cardinality(m) <= 2} :
    \E series \in [1 .. 3 -> Series], entry \in {1, 6, 7} :
        input' = [about |-> "path", entry |-> entry,
                  g |-> Graph([id \in 1 .. 6 |-> [type |-> Kind[id], status |-> IF id = 6 THEN "warn" ELSE "ok"]],
                              SetToSeq(spine \cup more)),
                  signals |-> [id \in 1 .. 6 |-> [bias \in 0 .. MaxHops + 1 |->
                                  {IF id \in 1 .. 3 THEN series[id] ELSE IF bias > 2 THEN <<"ok", "ok", "warn">> ELSE AllOk}]]]

\* The path of an investigation is a chain of the graph, its suspect the hop that broke first, and its blast radius
\* what depends on it (investigate.ts); the searches it rests on are right.
Investigations ==
    /\ Searches
    /\ input.about = "path" => PathExplains(input.g, input.entry, RootCausePath(input.g, input.signals, input.entry))

(* --- an estate of sick and healthy objects ------------------------------- *)

Thing(type, status, keys) ==
    [type |-> type, status |-> status, keys |-> keys, util |-> 50, mem |-> 40, cpu |-> 30, net |-> 1, waiting |-> 0,
     overSlo |-> FALSE, rising |-> FALSE, throttled |-> FALSE, hot |-> FALSE]
Things == <<
    {Thing("Endpoint", "ok", {"replicas", "ready", "app_id"}), Thing("Endpoint", "crit", {"off", "ready"})},
    {Thing("Model", "ok", {"pattern", "provider", "replicas"}), Thing("Model", "crit", {})},
    {[Thing("GpuDevice", "ok", {"util_perc", "device"}) EXCEPT !.util = 5, !.mem = 60],
     [Thing("GpuDevice", "warn", {"temp_c", "device"}) EXCEPT !.util = 95, !.throttled = TRUE, !.hot = TRUE],
     Thing("GpuDevice", "crit", {"device"})},
    {Thing("Node", "ok", {"cpu_util", "hostname"}), [Thing("Node", "warn", {}) EXCEPT !.cpu = -1, !.net = -1],
     [Thing("Node", "crit", {"cpu_util"}) EXCEPT !.cpu = 90]},
    {Thing("Service", "unknown", {"name", "qps"})},
    {Thing("Incident", "ok", {}), [Thing("Incident", "warn", {}) EXCEPT !.waiting = 9, !.overSlo = TRUE],
     [Thing("Incident", "crit", {}) EXCEPT !.waiting = 9, !.overSlo = TRUE, !.rising = TRUE]}>>
Estates == {Spines \cup {L(5, 1, "consumes"), L(6, 1, "affects")}, (Spines \ {L(2, 3, "runsOn")}) \cup {L(6, 2, "affects")}}
\* An object that broke shows it in its signals; the worse its state, the earlier.
Broken(o) == CASE o.status = "crit" -> <<"crit", "crit", "crit">> [] o.status = "warn" -> <<"ok", "crit", "warn">>
               [] OTHER -> AllOk
Estate(g, quiet, caps) ==
    [about |-> "estate", g |-> g, caps |-> caps,
     signals |-> [id \in 1 .. 6 |-> [bias \in 0 .. MaxHops + 1 |->
                     {IF id \in quiet THEN AllOk ELSE Broken(g.objects[id])}]],
     k8s |-> K8sSnapshot(g, [id \in {1} |-> IF quiet = {} THEN 0 ELSE 4], [id \in {1} |-> Cardinality(quiet)])]
PickEstate ==
    \E e \in Things[1], m \in Things[2], gpu \in Things[3], n \in Things[4], s \in Things[5], inc \in Things[6] :
    \E links \in Estates, quiet \in SUBSET {2, 3} :
    \E caps \in IF quiet = {} THEN {{}, {"models.write"}, {"endpoints.write", "incident.write"}} ELSE {{}} :
        input' = Estate(Graph(<<e, m, gpu, n, s, inc>>, SetToSeq(links)), quiet, caps)

Evidences == [id \in DOMAIN input.g.objects \cup {0} |-> EvidenceOf(input.g, input.signals, input.k8s, id)]
Strip(seenBefore) == AttributeDetections(input.g, input.signals, seenBefore)
\* Every card of the alert strip has evidence and an explanation that cites it, and the scorecard counts what the strip
\* shows (detection.ts, incidentEvidence.ts, causeNarrative.ts, ontologyScorecard.ts).
Explanations ==
    LET Told(strip) == /\ CardsAreExplained(strip, Evidences)
                       /\ StripAgreesWithScorecard(input.g, strip, Scorecard(input.g))
                       /\ EntriesBySeverity(input.g)
    IN  input.about = "estate" => Told(Strip({2}))
\* The agent names only what a tool returned and only verbs the object has, which the palette offers too; insights,
\* queries and the demonstration tell of what is there (agent.ts, searchAround.ts, demoScenario.ts).
Agents ==
    LET Judged(run) == /\ AgentIsGrounded(input.g, run, RootCausePath(input.g, input.signals, run.entry))
                       /\ SuggestionsAreOffered(input.g, Strip({}), run, input.caps)
    IN  input.about = "estate" => /\ \A asked \in {0, 1, 5} : Judged(AgentLoop(input.g, input.signals, asked))
                                  /\ InsightsCiteTheReal(input.g)
                                  /\ QueriesAgreeWithEvidence(input.k8s, Evidences)
                                  /\ DemoTellsItsStory(DemoSteps(input.signals))

(* --- drawings and lists --------------------------------------------------- *)

\* Each edge once, or all of them twice.
PickTopology ==
    \E k \in 0 .. LayoutEdges : \E pairs \in kSubset(k, {p \in Ids \X Ids : p[1] # p[2]}) :
    \E kind \in {<<1, 1, 1, 1>>, <<2, 1, 2, 1>>}, times \in 1 .. 2 :
        input' = [about |-> "topology", kind |-> kind,
                  edges |-> IF times = 1 THEN PairLinks(pairs) ELSE PairLinks(pairs) \o PairLinks(pairs)]

TableView == [rowHeight |-> 4, overscan |-> 1, threshold |-> 3, fallback |-> 8]
PickTable ==
    \E total \in 0 .. 9, top \in 0 .. 40, height \in {0, 3, 8, 9} :
        input' = [about |-> "table", total |-> total, top |-> top, height |-> height]
Spans == {s \in [parent : 0 .. 4, start : {0, 6}, duration : {2, 6}] : s.parent # 4}
PickTrace ==
    \E spans \in [1 .. 3 -> Spans], total \in {0, 8} :
        input' = [about |-> "trace", spans |-> spans, total |-> total]
Widgets == <<"w1", "w2", "w3">>
PickDashboard ==
    \E n, k \in 0 .. 3 : \E order \in [1 .. n -> ToSet(Widgets) \cup {"gone"}], hidden \in [1 .. k -> {"w1", "w3", "gone"}] :
        input' = [about |-> "dashboard", raw |-> [order |-> order, hidden |-> hidden]]
\* The drawing of a topology has every node on one tier and every edge between tiers in one direction, but those a cycle
\* turns (layout.ts); a table renders every row in sight, self times of spans add up, and a stored arrangement comes back
\* with every widget once (useRowWindow.ts, spanWaterfall.ts, dashboardLayout.ts).
Drawings ==
    /\ input.about = "topology" => LayoutIsLayered(4, input.edges, LayoutTopology(4, input.edges, input.kind, 4))
    /\ input.about = "table" => WindowCoversSight(input.total, input.top, input.height, TableView)
    /\ input.about = "trace" => SelfTimesAddUp(input.spans, input.total)
    /\ input.about = "dashboard" => LayoutStaysWhole(input.raw, Widgets)

-----------------------------------------------------------------------------
Init == input = [about |-> "nothing"]
Next == /\ input.about = "nothing"
        /\ \/ PickTable \/ PickTrace \/ PickDashboard \/ PickTopology
           \/ PickInvestigation \/ PickGraph \/ PickEstate
Spec == Init /\ [][Next]_input
=============================================================================
