------------------------------- MODULE Actions -------------------------------
(***************************************************************************)
(* The verbs of the console and who may use them on what: the registry     *)
(* (web/src/actions/registry.ts), the commands the palette offers on an    *)
(* object (searchAround.ts) and the read-only tools (ontologyTools.ts).    *)
(***************************************************************************)
EXTENDS OntologyGraph

NoCap == "none"
AnyStatus == {"ok", "warn", "crit", "unknown"}
Verbs == {"restartModel", "scaleReplicas", "cordonNode", "drainGpu", "ack", "resolve", "snooze"}

ActionRegistry ==
    LET verb(target, cap, allowed, severity) ==
            [target |-> target, requiredCap |-> cap, allowedStatus |-> allowed, severity |-> severity]
    IN  [restartModel |-> verb("Model", "models.write", AnyStatus, "destructive"),
         scaleReplicas |-> verb("Model", "models.write", AnyStatus, "destructive"),
         cordonNode |-> verb("Node", "endpoints.write", AnyStatus, "destructive"),
         drainGpu |-> verb("GpuDevice", "endpoints.write", AnyStatus, "destructive"),
         ack |-> verb("Incident", NoCap, AnyStatus, "low"),
         resolve |-> verb("Incident", "incident.write", AnyStatus \ {"unknown"}, "low"),
         snooze |-> verb("Incident", "incident.write", AnyStatus, "low")]

\* STATE_TRANSITION: the status the object has afterwards; no entry, no change.
StateTransition(verb, status) ==
    CASE verb \in {"restartModel", "resolve"} -> "ok"
      [] verb \in {"scaleReplicas", "cordonNode", "drainGpu"} -> "warn"
      [] OTHER -> status

IsDestructive(verb) == ActionRegistry[verb].severity = "destructive"

EvaluateSubmission(verb, caps, status) ==
    /\ ActionRegistry[verb].requiredCap \in caps \cup {NoCap}
    /\ status \in ActionRegistry[verb].allowedStatus

(* searchAround.ts: the contextual commands of an object; none of them changes anything. *)
AroundKinds == {"serves", "consumes", "routedTo", "runsOn", "executedOn", "hostedBy", "affects"}
ContextCommands(g, id, caps) ==
    LET command(does, what, keepOpen) == [does |-> does, what |-> what, keepOpen |-> keepOpen]
        kinds == {k \in AroundKinds : Neighbors(g, id, {k}) # <<>>}
        verbs == {v \in Verbs : /\ Has(g, id) /\ ActionRegistry[v].target = g.objects[id].type
                                /\ EvaluateSubmission(v, caps, g.objects[id].status)}
    IN  {command("open", "object", FALSE)} \cup {command("around", k, TRUE) : k \in kinds}
            \cup {command("open", v, FALSE) : v \in verbs}

(* ontologyTools.ts: the tools a model may call by itself. *)
OntologyTools == {"query_objects", "traverse_links", "get_object", "get_object_metrics"}
K8sTools == {"list_pods", "list_nodes", "get_events", "describe_deployment", "get_incident_context",
             "get_pod_diagnostics"}
Tools == OntologyTools \cup K8sTools
AssertReadOnly == Tools \cap Verbs = {}
=============================================================================
