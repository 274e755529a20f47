-------------------------------- MODULE Agent --------------------------------
(***************************************************************************)
(* The agent of the console (web/src/api/agent.ts): the loop that calls    *)
(* read-only tools and names suspects, the insights a model writes and the *)
(* filter that keeps only what it can ground, the cluster queries, and the *)
(* demo scenario (demoScenario.ts).                                        *)
(***************************************************************************)
EXTENDS Evidence, Actions

\* The neighbours a tool reports: ids of links, whether or not an object has them.
ToolTraverseLinks(g, id) ==
    IF ~Has(g, id) THEN {} ELSE ToSet(Step(g, id, "any", LinkKinds))
ToolQueryObjects(g, type) == {id \in DOMAIN g.objects : g.objects[id].type = type}
\* An id matches the filter of object-search by what is typed; words maps ids to what they are found by.
ObjectSearch(g, words, query) == {id \in DOMAIN g.objects : query \in words[id]}

\* AGENT_TOOL_CONTRACT: what a tool of the loop is called in the registry.
ToolContract == [queryObjects |-> "query_objects", traverseLinks |-> "traverse_links", getIncidents |-> "query_objects"]

(* runAgentLoop.  Confidence is counted in hundredths; 24 points make a series. *)
SuggestedAction(type) == CASE type = "Model" -> "scaleReplicas" [] type = "GpuDevice" -> "drainGpu"
                           [] type = "Node" -> "cordonNode" [] OTHER -> "none"
HopConfidence(r, h) ==
    LET base == IF h.id = r.critical THEN 900
                ELSE IF h.id = r.blast THEN 550 ELSE IF h.status = "crit" THEN 700 ELSE 500
        boost == IF h.first = NotSeen THEN 0 ELSE ((24 - (h.first - 1)) * 100) \div 24
        total == base + boost
    IN  ((IF total > 980 THEN 980 ELSE total) + 5) \div 10
SurestFirst(cards) ==
    LET before(i, j) == \/ cards[i].confidence > cards[j].confidence
                        \/ cards[i].confidence = cards[j].confidence /\ i < j
        In(order) == [i \in DOMAIN order |-> cards[order[i]]]
    IN  In(SortSeq(Sorted(DOMAIN cards), before))
Suspects(g, r) ==
    LET card(h) == [object |-> h.id, confidence |-> HopConfidence(r, h),
                    action |-> SuggestedAction(g.objects[h.id].type)]
        Cards(sick) == [i \in DOMAIN sick |-> card(sick[i])]
    IN  SurestFirst(Cards(SelectSeq(r.hops, LAMBDA h : h.status # "ok")))

\* The entry asked for if it exists, the default otherwise.
EntryOf(g, asked) == IF Has(g, asked) THEN asked ELSE DefaultEntry(g)

Steps(entry, suspects) ==
    <<"reasoning", "getIncidents">> \o
    IF entry = 0 THEN <<"reasoning">>
    ELSE <<"reasoning", "queryObjects", "traverseLinks", "reasoning">> \o When(suspects = <<>>, <<"reasoning">>)

\* Every step is audited, after the prompt.
AgentLoop(g, signals, asked) ==
    LET Run(entry, suspects) ==
            [entry |-> entry, candidates |-> suspects, grounded |-> suspects # <<>>, steps |-> Steps(entry, suspects),
             audit |-> <<"prompt">> \o Steps(entry, suspects)]
        From(entry) == Run(entry, IF entry = 0 THEN <<>> ELSE Suspects(g, RootCausePath(g, signals, entry)))
    IN  From(EntryOf(g, asked))

(* Insights: what a model answers, and what is kept of it. *)
Band(util) == IF util >= 70 THEN "high" ELSE IF util >= 35 THEN "mid" ELSE "low"
Bands == <<"high", "mid", "low">>
GpusOn(g, node) ==
    {l.from : l \in {x \in ToSet(g.links) : x.kind = "hostedBy" /\ x.to = node /\ Has(g, x.from)}}
Hot(o) == o.type = "GpuDevice" /\ (o.hot \/ o.throttled)
Idle(o) == o.type = "GpuDevice" /\ o.util < 15

\* mockModelInsightCompletion: one claim per finding, one without a citation and one that cites nothing real.
ModelAnswer(g) ==
    LET claim(kind, cites) == [kind |-> kind, citations |-> cites]
        gpus == {id \in DOMAIN g.objects : g.objects[id].type = "GpuDevice"}
        inBand(b) == {id \in gpus : Band(g.objects[id].util) = b}
        crowded == {i \in DOMAIN Bands : Cardinality(inBand(Bands[i])) >= 2 /\
                      \A j \in DOMAIN Bands : Cardinality(inBand(Bands[j])) <= Cardinality(inBand(Bands[i]))}
        nodes == {id \in DOMAIN g.objects : g.objects[id].type = "Node"}
        that(n, P(_)) == {x \in GpusOn(g, n) : P(g.objects[x])}
    IN  {claim("gpu-cluster", inBand(Bands[MinOf(crowded, 1)])) : b \in {x \in {1} : crowded # {}}}
        \cup {claim("hot-node", {n} \cup that(n, Hot)) : n \in {x \in nodes : that(x, Hot) # {}}}
        \cup {claim("idle-alloc-gap", {n} \cup that(n, Idle)) : n \in {x \in nodes : that(x, Idle) # {}}}
        \cup {claim("recurring-pattern", {}), claim("recurring-pattern", {-1, -2})}

\* A claim with one real citation keeps the others.
Grounded_Trusting(g, answer) ==
    LET real(c) == c.citations \cap DOMAIN g.objects
    IN  [insights |-> {[kind |-> c.kind, citations |-> c.citations] : c \in {x \in answer : x.citations # {}}},
         dropped |-> Cardinality({c \in answer : real(c) = {}})]
\* parseAndGroundInsights: citations of real objects only, and no claim without one.
Grounded(g, answer) ==
    LET real(c) == c.citations \cap DOMAIN g.objects
    IN  [insights |-> {[kind |-> c.kind, citations |-> real(c)] : c \in {x \in answer : real(x) # {}}},
         dropped |-> Cardinality({c \in answer : real(c) = {}})]
AgentInsights(g) ==
    [g |-> Grounded(g, ModelAnswer(g)), audit |-> <<"prompt", "reasoning", "reasoning">>]

(* Cluster queries: the tools, the plan of a question, and its findings. *)
ToolList(k8s, kind, object) ==
    SelectSeq(k8s, LAMBDA x : x.kind = kind /\ (object = 0 \/ x.object = object))
ToolListPods(k8s, object) == ToolList(k8s, "k8sPod", object)
ToolListNodes(k8s) == ToolList(k8s, "k8sNode", 0)
ToolGetEvents(k8s, object) == ToolList(k8s, "k8sEvent", object)
ToolDescribeDeployment(k8s, object) == ToolList(k8s, "k8sDeployment", object)
PodDiagnostics(k8s, ref) ==
    [found |-> \E p \in ToSet(ToolListPods(k8s, 0)) : p.ref = ref,
     events |-> SelectSeq(ToolGetEvents(k8s, 0), LAMBDA e : e.ref = ref)]

Plans == {"pods", "nodes", "deployment"}
Asked(plan, k8s) ==
    CASE plan = "pods" -> ToolListPods(k8s, 0) [] plan = "nodes" -> ToolListNodes(k8s)
      [] plan = "deployment" -> ToolDescribeDeployment(k8s, 0)
RunK8sQuery(k8s, plan) ==
    LET sick == SelectSeq(Asked(plan, k8s), LAMBDA x : x.sick)
        severity(x) == IF plan = "nodes" \/ x.severe THEN "crit" ELSE "warn"
    IN  [findings |-> [i \in DOMAIN sick |-> [ref |-> sick[i].ref, severity |-> severity(sick[i]),
                                              citations |-> {sick[i].object} \ {0}]],
         grounded |-> sick # <<>>,
         tools |-> CASE plan = "pods" -> <<"list_pods", "get_events">> [] plan = "nodes" -> <<"list_nodes">>
                     [] OTHER -> <<"describe_deployment">>]

(* The demo: a slow endpoint, its model, a saturated GPU, a hot node and a service beside them. *)
DemoGraph ==
    LET object(type, status) == [type |-> type, status |-> status]
        link(from, to, kind) == [from |-> from, to |-> to, kind |-> kind]
    IN  Graph(<<object("Endpoint", "warn"), object("Model", "warn"), object("GpuDevice", "crit"),
                object("Node", "crit"), object("Service", "warn")>>,
              <<link(1, 2, "serves"), link(2, 3, "runsOn"), link(3, 4, "hostedBy"), link(5, 4, "hostedBy")>>)
DemoAction(type) == CASE type = "Node" -> "cordonNode" [] type = "Model" -> "scaleReplicas" [] OTHER -> "none"
DemoSteps(signals) ==
    LET Of(hops) == [i \in DOMAIN hops |-> [id |-> hops[i].id, action |-> DemoAction(DemoGraph.objects[hops[i].id].type)]]
    IN  Of(RootCausePath(DemoGraph, signals, 1).hops)

-----------------------------------------------------------------------------
(* The agent names only what it has looked up: every suspect is a sick hop *)
(* of the path from the entry, the surest first, and the first to break    *)
(* leads as long as it is still sick; without a suspect the run is not     *)
(* grounded.  A verb it suggests is one of the registry for an object of   *)
(* that type, and none of the tools it may call by itself is a verb.       *)
AgentIsGrounded(g, run, r) ==
    LET sick(id) == \E h \in ToSet(r.hops) : h.id = id /\ h.status # "ok"
    IN  /\ run.grounded <=> \E id \in DOMAIN g.objects : sick(id)
        /\ \A i, j \in DOMAIN run.candidates : i < j => run.candidates[i].confidence >= run.candidates[j].confidence
        /\ \A c \in ToSet(run.candidates) :
              /\ sick(c.object) /\ c.confidence <= 98
              /\ c.action # "none" => ActionRegistry[c.action].target = g.objects[c.object].type
        /\ r.critical # 0 /\ sick(r.critical) => Head(run.candidates).object = r.critical
        /\ Len(run.audit) = Len(run.steps) + 1
        /\ AssertReadOnly /\ \A t \in DOMAIN ToolContract : ToolContract[t] \in Tools

(* Nothing invented reaches the screen: an insight that is shown cites     *)
(* only objects that exist, at least one, and the two inventions of the    *)
(* model are always dropped.                                               *)
InsightsCiteTheReal(g) ==
    LET Real(out) == /\ \A c \in out.insights : c.citations # {} /\ c.citations \subseteq DOMAIN g.objects
                     /\ out.dropped >= 2
                     /\ out.dropped + Cardinality(out.insights) <= Cardinality(ModelAnswer(g))
    IN  Real(AgentInsights(g).g)

(* An answer about the cluster and the evidence of an object tell of the   *)
(* same pods: a finding on a pod of an object stands in that object's      *)
(* evidence too, and is found by the tool that looks up the pod.           *)
QueriesAgreeWithEvidence(k8s, evidence) ==
    \A x \in ToSet(k8s) : x.kind = "k8sPod" /\ x.sick =>
        /\ \E f \in ToSet(RunK8sQuery(k8s, "pods").findings) : f.ref = x.ref
        /\ PodDiagnostics(k8s, x.ref).found
        /\ x.object \in DOMAIN evidence => \E l \in ToSet(evidence[x.object].lines) : x.ref \in l.refs

(* What the agent and the strip suggest for an object can be taken there:  *)
(* the palette, which goes by the registry and the state of the object,    *)
(* offers it to whoever has the capability.                                *)
SuggestionsAreOffered(g, strip, run, caps) ==
    LET Offered(id) == {c.what : c \in {x \in ContextCommands(g, id, caps) : x.does = "open"}}
    IN  \A c \in ToSet(strip) \cup ToSet(run.candidates) :
            \/ c.action = "none"
            \/ ActionRegistry[c.action].requiredCap \notin caps \cup {NoCap}
            \/ c.action \in Offered(c.object)

(* The demo walks its spine and ends beside it whatever the signals say,   *)
(* and what it recommends is a verb for the object it stands on.           *)
DemoTellsItsStory(steps) ==
    /\ [i \in DOMAIN steps |-> steps[i].id] = <<1, 2, 3, 4, 5>>
    /\ \A i \in DOMAIN steps : steps[i].action # "none" =>
          ActionRegistry[steps[i].action].target = DemoGraph.objects[steps[i].id].type
=============================================================================
