------------------------------ MODULE RootCause ------------------------------
(***************************************************************************)
(* The root-cause path of the Investigate page (web/src/api/               *)
(* investigate.ts): from an entry object the links are followed to a node, *)
(* the hop whose signals broke first is the suspect, and one object beyond *)
(* the path shows what else is hit.                                        *)
(* signals[id][bias] is the set of series of an object's golden signals,   *)
(* which the code generates from a seed that grows towards the entry (the  *)
(* bias); of a series only the level of each point is kept: "ok", "warn"   *)
(* or "crit".                                                              *)
(***************************************************************************)
EXTENDS OntologyGraph, Integers

Spine == <<"serves", "runsOn", "hostedBy", "consumes", "routedTo", "executedOn", "affects">>
LinkKinds == ToSet(Spine) \cup {"routes"}
MaxHops == 5

NotSeen == 99   \* no anomaly: later than any point of a series

MinOf(S, else) == IF S = {} THEN else ELSE CHOOSE x \in S : \A y \in S : x <= y

\* firstAnomaly over the signals of an object: the earliest point in crit.
FirstAnomaly(series) == MinOf({i \in DOMAIN series : series[i] = "crit"}, NotSeen)
FirstAnomalyOf(signals, id, bias) == MinOf({FirstAnomaly(s) : s \in signals[id][bias]}, NotSeen)

\* statusOf: the worst of the last points.
StatusOf(series) ==
    LET now == {Last(s) : s \in series}
    IN  IF now = {} THEN "unknown" ELSE IF "crit" \in now THEN "crit" ELSE IF "warn" \in now THEN "warn" ELSE "ok"

LinkBefore(a, b) == \/ a.from < b.from
                    \/ a.from = b.from /\ a.to < b.to
                    \/ a.from = b.from /\ a.to = b.to /\ a.kind # b.kind

\* nextLink: the links to ids not visited, those of the spine's first kind before the others.
Candidates(g, head, visited) ==
    {l \in ToSet(g.links) : (l.from = head /\ l.to \notin visited) \/ (l.to = head /\ l.from \notin visited)}
Rank(l) == IF l.kind \in ToSet(Spine) THEN CHOOSE i \in DOMAIN Spine : Spine[i] = l.kind ELSE Len(Spine) + 1
NextLink(g, head, visited) ==
    LET cands == Candidates(g, head, visited)
        best == {l \in cands : \A m \in cands : Rank(l) <= Rank(m)}
    IN  CHOOSE l \in best : \A m \in best : m # l => LinkBefore(l, m)
OtherEnd(l, id) == IF l.from = id THEN l.to ELSE l.from

\* The chain of ids; it ends at a node, at a dead end, or at an end that no object has.
NextOn(g, path) == OtherEnd(NextLink(g, Last(path), ToSet(path)), Last(path))
Extended(g, path) ==
    IF \/ Len(path) > 1 /\ g.objects[Last(path)].type = "Node"
       \/ Candidates(g, Last(path), ToSet(path)) = {}
       \/ ~Has(g, NextOn(g, path))
    THEN path ELSE Append(path, NextOn(g, path))
Chain(g, entry) ==
    LET C[n \in 0 .. MaxHops] == IF n = 0 THEN <<entry>> ELSE Extended(g, C[n - 1])
    IN  C[MaxHops]

\* The hops of the chain, each with its first anomaly and its status.
Hops(chain, signals) ==
    [i \in DOMAIN chain |-> [id |-> chain[i], first |-> FirstAnomalyOf(signals, chain[i], Len(chain) - i + 1),
                            status |-> StatusOf(signals[chain[i]][Len(chain) - i + 1])]]

\* The suspect nearest to the entry, whenever it broke.
CriticalOf_Nearest(hops) ==
    LET broken == {i \in DOMAIN hops : hops[i].first # NotSeen}
    IN  IF broken = {} THEN 0 ELSE hops[MinOf(broken, 1)].id
\* The suspect: of the hops with an anomaly the one with the earliest, the first of these.
CriticalOf(hops) ==
    LET best == MinOf({hops[i].first : i \in DOMAIN hops}, NotSeen)
    IN  IF best = NotSeen THEN 0 ELSE hops[MinOf({i \in DOMAIN hops : hops[i].first = best}, 1)].id

\* pickBlastRadius: 0 when there is nothing beyond the path.
Affected == {"Service", "Endpoint"}
Shown == Affected \cup {"Model", "GpuDevice", "Node", "Incident"}
TryFrom(g, id, types, visited) ==
    MinOf({n \in ToSet(Neighbors(g, id, LinkKinds)) \ visited : g.objects[n].type \in types}, 0)
BlastRadius(g, tail, critical, visited) ==
    LET same == TryFrom(g, tail, Affected, visited)
        up == IF critical = 0 THEN 0 ELSE TryFrom(g, critical, Shown, visited)
    IN  IF same # 0 THEN same ELSE IF up # 0 THEN up ELSE TryFrom(g, tail, Shown, visited)

\* hops holds the object beyond the path too, as the last one, when there is one.
HopsBeyond(signals, hops, blast) ==
    IF blast = 0 THEN hops
    ELSE Append(hops, [id |-> blast, first |-> FirstAnomalyOf(signals, blast, 0), status |-> StatusOf(signals[blast][0])])
PathOf(g, signals, chain, hops) ==
    LET blast == BlastRadius(g, Last(chain), CriticalOf(hops), ToSet(chain))
    IN  [found |-> TRUE, chain |-> chain, critical |-> CriticalOf(hops), blast |-> blast,
         hops |-> HopsBeyond(signals, hops, blast)]
RootCausePath(g, signals, entry) ==
    IF ~Has(g, entry) THEN [found |-> FALSE, chain |-> <<>>, critical |-> 0, blast |-> 0, hops |-> <<>>]
    ELSE LET Along(chain) == PathOf(g, signals, chain, Hops(chain, signals)) IN Along(Chain(g, entry))

\* pickEntryCandidates: the sicker first, incidents before endpoints, then by id.
SevRank == [crit |-> 0, warn |-> 1, unknown |-> 2, ok |-> 3]
EntryBefore(g, a, b) ==
    LET x == g.objects[a]
        y == g.objects[b]
    IN  IF x.status # y.status THEN SevRank[x.status] < SevRank[y.status]
        ELSE IF x.type # y.type THEN x.type = "Incident" ELSE a < b
EntryCandidates(g) ==
    SortSeq(Sorted({id \in DOMAIN g.objects : g.objects[id].type \in {"Endpoint", "Incident"}}),
            LAMBDA a, b : EntryBefore(g, a, b))
DefaultEntry(g) ==
    IF EntryCandidates(g) # <<>> THEN Head(EntryCandidates(g)) ELSE MinOf(DOMAIN g.objects, 0)

-----------------------------------------------------------------------------
(* The path is a simple path of the graph that names a suspect exactly     *)
(* when one of its hops broke, no hop of it broke before the suspect, and  *)
(* the object beyond is next to the path and not on it.  Where every link  *)
(* leads somewhere the path goes on until it meets a node or has nowhere   *)
(* new to go.                                                              *)
PathExplains(g, entry, r) ==
    LET near(id) == ToSet(Neighbors(g, id, LinkKinds))
        on == {r.hops[i] : i \in DOMAIN r.chain}
        end == Last(r.chain)
        noDangling == \A l \in ToSet(g.links) : Has(g, l.from) /\ Has(g, l.to)
    IN  IF ~r.found THEN r.chain = <<>>
        ELSE /\ IsInjective(r.chain) /\ Len(r.chain) <= MaxHops + 1 /\ Head(r.chain) = entry
             /\ \A i \in 1 .. Len(r.chain) - 1 : r.chain[i + 1] \in near(r.chain[i])
             /\ (r.critical = 0) <=> (\A h \in on : h.first = NotSeen)
             /\ \A c, h \in on : c.id = r.critical => c.first <= h.first
             /\ r.blast # 0 => r.blast \in (near(end) \cup near(r.critical)) \ ToSet(r.chain)
             /\ noDangling /\ Len(r.chain) <= MaxHops =>
                   \/ g.objects[end].type = "Node"
                   \/ near(end) \subseteq ToSet(r.chain)

(* What hurts most is offered first: nothing sick is listed after          *)
(* something healthy, and the default is the head of that list.            *)
EntriesBySeverity(g) ==
    LET c == EntryCandidates(g)
        sev(i) == SevRank[g.objects[c[i]].status]
    IN  /\ \A i, j \in DOMAIN c : i < j => sev(i) <= sev(j)
        /\ \A i, j \in DOMAIN c : i < j /\ sev(i) = sev(j) /\ g.objects[c[j]].type = "Incident"
              => g.objects[c[i]].type = "Incident"
=============================================================================
