------------------------------- MODULE Evidence -------------------------------
(***************************************************************************)
(* What the console says of a sick object, from one snapshot of the        *)
(* ontology: the cards of the alert strip (web/src/api/detection.ts), the  *)
(* lines of evidence of an object (incidentEvidence.ts), the explanation   *)
(* told from them (causeNarrative.ts) and the scorecard                    *)
(* (ontologyScorecard.ts).                                                 *)
(* An object is a record of type, status, keys (the properties it has) and *)
(* the values the thresholds read: util, mem, cpu (percent, -1 unknown),   *)
(* net, waiting, overSlo, rising, throttled, hot.                             *)
(***************************************************************************)
EXTENDS RootCause

Objects(types, keys) ==
    [type : types, status : {"ok", "warn", "crit", "unknown"}, keys : SUBSET keys,
     util : -1 .. 100, mem : -1 .. 100, cpu : -1 .. 100, net : -1 .. 9, waiting : Nat,
     overSlo : BOOLEAN, rising : BOOLEAN, throttled : BOOLEAN, hot : BOOLEAN]

When(condition, s) == IF condition THEN s ELSE <<>>

(* --- detection.ts ------------------------------------------------------ *)

IsBackpressure(o) == o.waiting >= 8 /\ o.overSlo /\ o.rising

\* signalsForObject: the kinds of the signals found, in the order they are pushed.
ModelSignals(o) ==
    When(o.status \in {"warn", "crit"}, <<"alertrule">>) \o When(o.status = "crit", <<"alertrule">>)
GpuSignals(o) ==
    When(o.throttled, <<"throttle">>)
    \o When(o.util # -1 /\ o.mem # -1 /\ o.util < 10 /\ o.mem > 50, <<"idleAlloc">>)
    \o When(o.util >= 90, <<"saturation">>)
NodeSignals(o) ==
    When(o.cpu >= 85, <<"saturation">>) \o When(o.net >= 5, <<"saturation">>)
    \o When(o.cpu = -1 /\ o.net = -1 /\ o.status # "ok", <<"saturation">>)
IncidentSignals(o) ==
    When(IsBackpressure(o), <<"backpressure", "backpressure", "backpressure", "backpressure">>)
SignalsForObject(o, first) ==
    When(first # NotSeen, <<"firstAnomaly">>) \o
    CASE o.type \in {"Model", "Endpoint"} -> ModelSignals(o)
      [] o.type = "GpuDevice" -> GpuSignals(o)
      [] o.type = "Node" -> NodeSignals(o)
      [] o.type = "Incident" -> IncidentSignals(o)
      [] OTHER -> <<>>

\* indexFirstAnomalies: the earliest anomaly of an object on the path of any sick entry.
SickEntries(g) ==
    {id \in DOMAIN g.objects : g.objects[id].type \in {"Endpoint", "Incident"} /\ g.objects[id].status # "ok"}
FirstAnomalies(g, signals) ==
    LET seen(id) == UNION {{h.first : h \in {x \in ToSet(RootCausePath(g, signals, e).hops) : x.id = id}}
                              : e \in SickEntries(g)}
    IN  [id \in DOMAIN g.objects |-> MinOf(seen(id), NotSeen)]

\* suggestedFor; "none" where the strip offers no action.
SuggestedFor(o) ==
    CASE o.type = "Model" -> IF o.status = "crit" THEN "restartModel" ELSE "scaleReplicas"
      [] o.type = "Incident" -> "ack"
      [] o.type = "GpuDevice" -> "drainGpu"
      [] o.type = "Node" -> "cordonNode"
      [] OTHER -> "none"

Confidence(n) == IF n >= 2 THEN "high" ELSE "med"

\* A card for whatever is sick, with or without a signal.
Attributed_Unfounded(o, found) ==
    /\ o.status \notin {"ok", "unknown"}
    /\ o.type \in {"Model", "GpuDevice", "Node", "Incident"}
    /\ o.type = "Incident" => "backpressure" \in ToSet(found)
\* attributeDetections: who gets a card, the card, and the order of the strip.
Attributed(o, found) ==
    /\ o.status \notin {"ok", "unknown"}
    /\ o.type \in {"Model", "GpuDevice", "Node", "Incident"}
    /\ found # <<>>
    /\ o.type = "Incident" => "backpressure" \in ToSet(found)
CardOf(g, first, seenBefore, id) ==
    LET found == SignalsForObject(g.objects[id], first[id])
    IN  [object |-> id, status |-> g.objects[id].status, signals |-> found, confidence |-> Confidence(Len(found)),
         action |-> SuggestedFor(g.objects[id]), breaches |-> IF id \in seenBefore THEN 2 ELSE 1]
CardBefore(a, b) ==
    IF a.status # b.status THEN SevRank[a.status] < SevRank[b.status]
    ELSE IF a.confidence # b.confidence THEN a.confidence = "high" ELSE a.object < b.object
CardsOf(g, first, seenBefore) ==
    LET has(id) == Attributed(g.objects[id], SignalsForObject(g.objects[id], first[id]))
        Cards(ids) == [i \in DOMAIN ids |-> CardOf(g, first, seenBefore, ids[i])]
    IN  Cards(Sorted({id \in DOMAIN g.objects : has(id)}))
AttributeDetections(g, signals, seenBefore) ==
    SortSeq(CardsOf(g, FirstAnomalies(g, signals), seenBefore), CardBefore)

(* --- k8sSnapshot.ts: what the cluster would hold of these objects ---------- *)

\* An entry belongs to an object and is cited by ref, an event by the ref of what it is about.
K8sEntry(object, kind, ref, sick, severe) ==
    [object |-> object, kind |-> kind, ref |-> ref, sick |-> sick, severe |-> severe]
PodRef(endpoint, i) == 100 + 10 * endpoint + i
NodeRef(node) == 200 + node
DeploymentRef(endpoint) == 300 + endpoint

NotReady(g, node) ==
    \/ g.objects[node].status = "crit"
    \/ \E l \in ToSet(g.links) : /\ l.kind = "hostedBy" /\ l.to = node /\ Has(g, l.from)
                                 /\ g.objects[l.from].type = "GpuDevice" /\ g.objects[l.from].status = "crit"
\* nodeOf maps an endpoint to the node its hash falls on, 0 where there is no node.
EndpointEntries(g, nodeOf, asked, ep) ==
    LET replicas == IF asked = 0 THEN 1 ELSE asked
        bad == g.objects[ep].status = "crit"
        unplaced == nodeOf[ep] # 0 /\ NotReady(g, nodeOf[ep])
        first == PodRef(ep, 0)
        pod(i) == K8sEntry(ep, "k8sPod", PodRef(ep, i), i = 0 /\ (bad \/ unplaced), i = 0 /\ bad)
        event == K8sEntry(ep, "k8sEvent", first, TRUE, bad)
        available == IF bad THEN replicas - 1 ELSE replicas
    IN  [i \in 1 .. replicas |-> pod(i - 1)]
        \o When(bad, <<event, event>>) \o When(~bad /\ unplaced, <<event>>)
        \o <<K8sEntry(ep, "k8sDeployment", DeploymentRef(ep), available < replicas, available = 0)>>
NodeEntries(g, node) ==
    <<K8sEntry(node, "k8sNode", NodeRef(node), NotReady(g, node), NotReady(g, node))>>
    \o When(NotReady(g, node), <<K8sEntry(node, "k8sEvent", NodeRef(node), TRUE, TRUE)>>)
K8sSnapshot(g, nodeOf, replicas) ==
    LET of(type) == Sorted({id \in DOMAIN g.objects : g.objects[id].type = type})
    IN  FlattenSeq([i \in DOMAIN of("Node") |-> NodeEntries(g, of("Node")[i])])
        \o FlattenSeq([i \in DOMAIN of("Endpoint") |->
                          EndpointEntries(g, nodeOf, replicas[of("Endpoint")[i]], of("Endpoint")[i])])

(* --- incidentEvidence.ts ------------------------------------------------ *)

KindRank == [firstAnomaly |-> 0, k8sEvent |-> 1, k8sPod |-> 2, k8sDeployment |-> 3, alertrule |-> 4,
             throttle |-> 5, saturation |-> 6, backpressure |-> 7, idleAlloc |-> 8]

\* What the cluster says of the object: its sick pods, its events, its deployments that roll out.
ClusterLines(k8s, id) ==
    LET Lines(s) == [i \in DOMAIN s |-> [kind |-> s[i].kind, refs |-> {s[i].ref, id}]]
        Of(kind) == Lines(SelectSeq(k8s, LAMBDA x : x.object = id /\ x.kind = kind /\ x.sick))
    IN  Of("k8sPod") \o Of("k8sEvent") \o Of("k8sDeployment")

\* buildIncidentEvidence.  (Lines of one kind are ordered by the text of a running number; it stays below ten.)
OwnLines(kinds, id) == [i \in DOMAIN kinds |-> [kind |-> kinds[i], refs |-> {id}]]
InKindOrder(lines) ==
    LET before(i, j) == \/ KindRank[lines[i].kind] < KindRank[lines[j].kind]
                        \/ KindRank[lines[i].kind] = KindRank[lines[j].kind] /\ i < j
        In(order) == [i \in DOMAIN order |-> lines[order[i]]]
    IN  In(SortSeq(Sorted(DOMAIN lines), before))
EvidenceOf(g, signals, k8s, id) ==
    LET From(lines) == [object |-> id, found |-> TRUE, lines |-> InKindOrder(lines),
                        confidence |-> Confidence(Len(lines)), empty |-> lines = <<>>]
    IN  IF ~Has(g, id) THEN [object |-> id, found |-> FALSE, lines |-> <<>>, confidence |-> "med", empty |-> TRUE]
        ELSE From(OwnLines(SignalsForObject(g.objects[id], FirstAnomalies(g, signals)[id]), id) \o ClusterLines(k8s, id))

(* --- causeNarrative.ts --------------------------------------------------- *)

Sections == {"what", "why", "impact", "next"}

\* A claim without a citation is dropped.
Claims(lines) ==
    SelectSeq([i \in DOMAIN lines |-> [about |-> lines[i].kind, citations |-> lines[i].refs]],
              LAMBDA c : c.citations # {})

\* buildCauseNarrative: the first lines, told four times; the summary leads the section "why".
Narrative(evidence, cap) ==
    LET Capped(s) == SubSeq(s, 1, IF Len(s) < cap THEN Len(s) ELSE cap)
        summary == <<[about |-> "summary", citations |-> {evidence.object}]>>
        Told(claims) == [s \in Sections |-> IF s = "why" THEN Capped(summary \o claims) ELSE claims]
    IN  IF ~evidence.found \/ evidence.empty THEN [empty |-> TRUE, claims |-> [s \in Sections |-> <<>>]]
        ELSE [empty |-> FALSE, claims |-> Told(Claims(Capped(evidence.lines)))]

(* --- ontologyScorecard.ts ------------------------------------------------- *)

Scorable == {"Endpoint", "Model", "GpuDevice", "Node", "Service"}
RuleIds == {"status-healthy", "deployed", "has-telemetry", "threshold-signal", "has-owner"}
GroupOf(rule) == CASE rule \in {"status-healthy", "deployed"} -> "readiness"
                   [] rule = "has-owner" -> "ownership" [] OTHER -> "observability"

\* The properties one of which a rule asks for, by the type of the object.
KeysOf(rule, type) ==
    CASE rule = "has-telemetry" -> [Endpoint |-> {"replicas", "backend"}, Model |-> {"context_window", "replicas"},
            GpuDevice |-> {"util_perc", "temp_c"}, Node |-> {"cpu_util"}, Service |-> {"qps", "error_rate"}][type]
      [] rule = "threshold-signal" -> [Endpoint |-> {"replicas", "backend"}, Model |-> {"pattern", "gpu"},
            GpuDevice |-> {"temp_c", "xid_recent"}, Node |-> {"cpu_util"}, Service |-> {"qps", "error_rate"}][type]
      [] rule = "has-owner" -> [Endpoint |-> {"app_id", "dept_id"}, Model |-> {"provider"},
            GpuDevice |-> {"hostname", "device"}, Node |-> {"hostname"}, Service |-> {"name"}][type]

\* deployed: the flag or the count where the object has one (off: it is there and says no).
Deployed(o) ==
    IF "off" \in o.keys /\ o.type \in {"Endpoint", "Model"} THEN FALSE
    ELSE o.status # "unknown" \/ (o.type = "Model" /\ "replicas" \in o.keys) \/ (o.type = "Endpoint" /\ "ready" \in o.keys)

Pass(rule, o) ==
    CASE rule = "status-healthy" -> o.status # "crit"
      [] rule = "deployed" -> Deployed(o)
      [] OTHER -> KeysOf(rule, o.type) \cap o.keys # {}

Failed(o) == {rule \in RuleIds : ~Pass(rule, o)}
AtRisk(o) == o.status = "crit" \/ \E rule \in Failed(o) : GroupOf(rule) = "readiness"
ScoreRank == [crit |-> 0, warn |-> 1, ok |-> 2, unknown |-> 3]

Fails(o) == Cardinality(Failed(o))
ScoreBefore(g, a, b) ==
    LET x == g.objects[a]
        y == g.objects[b]
    IN  IF AtRisk(x) # AtRisk(y) THEN AtRisk(x)
        ELSE IF Fails(x) # Fails(y) THEN Fails(x) > Fails(y)
        ELSE IF x.status # y.status THEN ScoreRank[x.status] < ScoreRank[y.status] ELSE a < b
\* buildScorecard: the order, and the summary above it.
Scorecard(g) ==
    LET scored == {id \in DOMAIN g.objects : g.objects[id].type \in Scorable}
        failing == {<<id, rule>> \in scored \X RuleIds : rule \in Failed(g.objects[id])}
    IN  [order |-> SortSeq(Sorted(scored), LAMBDA a, b : ScoreBefore(g, a, b)),
         atRisk |-> Cardinality({id \in scored : AtRisk(g.objects[id])}),
         failing |-> Cardinality(failing),
         allPass |-> scored # {} /\ failing = {}]

-----------------------------------------------------------------------------
(* Every card of the strip can be explained: the evidence for its object   *)
(* holds at least its signals, at no less confidence, and the explanation  *)
(* told from that evidence is not empty and cites something in every       *)
(* claim.  No claim is told of an object without evidence.                 *)
IsExplained(c, e, told) ==
    /\ ~e.empty /\ Len(e.lines) >= Len(c.signals)
    /\ c.confidence = "high" => e.confidence = "high"
    /\ \A s \in Sections : told.claims[s] # <<>>
IsTold(e, told) ==
    /\ told.empty <=> (e.lines = <<>>)
    /\ \A s \in Sections : \A c \in ToSet(told.claims[s]) : c.citations # {}
CardsAreExplained(strip, evidence) ==
    LET Told(id) == Narrative(evidence[id], 3)
    IN  /\ \A c \in ToSet(strip) : IsExplained(c, evidence[c.object], Told(c.object))
        /\ \A id \in DOMAIN evidence : IsTold(evidence[id], Told(id))

(* The strip shows each sick object once, the critical ones first, and     *)
(* never one that is well; an incident stands on it only with a queue that *)
(* is long, slow and felt.  The scorecard agrees: a critical card's object *)
(* is at risk there, and what is at risk comes before what is not.         *)
StripAgreesWithScorecard(g, strip, card) ==
    LET at(id) == CHOOSE i \in DOMAIN card.order : card.order[i] = id
        critical == {c.object : c \in {x \in ToSet(strip) : x.status = "crit"}} \cap ToSet(card.order)
        stands(c, o) == /\ o.status \in {"warn", "crit"} /\ c.action # "none"
                        /\ o.type = "Incident" => o.waiting >= 8 /\ o.overSlo /\ o.rising
    IN  /\ \A i, j \in DOMAIN strip : i < j =>
              strip[i].object # strip[j].object /\ ~(strip[i].status = "warn" /\ strip[j].status = "crit")
        /\ \A c \in ToSet(strip) : stands(c, g.objects[c.object])
        /\ \A id \in critical : at(id) <= card.atRisk
        /\ card.allPass => card.atRisk = 0
=============================================================================
