---------------------------- MODULE TopologyLayout ----------------------------
(***************************************************************************)
(* The layered drawing of the topology                                     *)
(* (web/src/components/topology/layout.ts): cycles are broken by turning   *)
(* edges around, tiers are longest paths, and sweeps order each tier.      *)
(* Nodes are 1 .. n in the order they are given, edges a sequence of       *)
(* [from, to]; kind[i] is the rank of a node's kind.                       *)
(***************************************************************************)
EXTENDS Integers, Sequences, FiniteSets, SequencesExt

SelfLoopFree(edges) == \A e \in ToSet(edges) : e.from # e.to

(* breakCycles: a depth-first search over an explicit stack of nodes, each *)
(* with the indices of its edges that are still to be followed.            *)
OutEdges(edges, node) == SelectSeq([i \in DOMAIN edges |-> i], LAMBDA i : edges[i].from = node)

Open(edges, s, node) ==
    [s EXCEPT !.color[node] = "gray", !.stack = Append(@, [node |-> node, left |-> OutEdges(edges, node)])]
\* A step that turns an edge to a finished node too.
DfsStep_TurnsCross(edges, s) ==
    IF s.stack = <<>>
    THEN LET white == {x \in DOMAIN s.color : s.color[x] = "white"}
         IN  IF white = {} THEN s ELSE Open(edges, s, CHOOSE x \in white : \A y \in white : x <= y)
    ELSE LET top == Len(s.stack)
             frame == s.stack[top]
             i == Head(frame.left)
             moved == [s EXCEPT !.stack[top].left = Tail(frame.left)]
         IN  IF frame.left = <<>> THEN [s EXCEPT !.color[frame.node] = "black", !.stack = Front(s.stack)]
             ELSE IF s.color[edges[i].to] = "white" THEN Open(edges, moved, edges[i].to)
             ELSE [moved EXCEPT !.reversed = @ \cup {i}]
DfsStep(edges, s) ==
    IF s.stack = <<>>
    THEN LET white == {x \in DOMAIN s.color : s.color[x] = "white"}
         IN  IF white = {} THEN s ELSE Open(edges, s, CHOOSE x \in white : \A y \in white : x <= y)
    ELSE LET top == Len(s.stack)
             frame == s.stack[top]
             i == Head(frame.left)
             moved == [s EXCEPT !.stack[top].left = Tail(frame.left)]
         IN  IF frame.left = <<>> THEN [s EXCEPT !.color[frame.node] = "black", !.stack = Front(s.stack)]
             ELSE CASE s.color[edges[i].to] = "gray" -> [moved EXCEPT !.reversed = @ \cup {i}]
                    [] s.color[edges[i].to] = "white" -> Open(edges, moved, edges[i].to)
                    [] OTHER -> moved
BreakCycles(n, edges) ==
    LET start == [color |-> [x \in 1 .. n |-> "white"], stack |-> <<>>, reversed |-> {}]
        Run[k \in 0 .. 2 * n + Len(edges)] == IF k = 0 THEN start ELSE DfsStep(edges, Run[k - 1])
        back == Run[2 * n + Len(edges)].reversed
    IN  [i \in DOMAIN edges |->
            IF i \in back THEN [from |-> edges[i].to, to |-> edges[i].from, reversed |-> TRUE]
            ELSE [from |-> edges[i].from, to |-> edges[i].to, reversed |-> FALSE]]

(* assignTiers: nodes leave the queue when all edges into them were seen. *)
Relax(s, e) ==
    LET tier == IF s.tier[e.to] < s.tier[e.from] + 1 THEN s.tier[e.from] + 1 ELSE s.tier[e.to]
        indeg == s.indeg[e.to] - 1
    IN  [tier |-> [s.tier EXCEPT ![e.to] = tier], indeg |-> [s.indeg EXCEPT ![e.to] = indeg],
         queue |-> IF indeg = 0 THEN Append(s.queue, e.to) ELSE s.queue]
AssignTiers(n, edges) ==
    LET indeg == [x \in 1 .. n |-> Len(SelectSeq(edges, LAMBDA e : e.to = x))]
        start == [tier |-> [x \in 1 .. n |-> 0], indeg |-> indeg,
                  queue |-> SelectSeq([x \in 1 .. n |-> x], LAMBDA x : indeg[x] = 0)]
        Take[k \in 0 .. n] ==
            IF k = 0 THEN start
            ELSE LET s == Take[k - 1]
                     out == SelectSeq(edges, LAMBDA e : e.from = s.queue[k])
                 IN  IF k > Len(s.queue) THEN s ELSE FoldLeft(Relax, s, out)
    IN  Take[n].tier

(* orderTiers: in a sweep each tier is sorted by the median of the places  *)
(* its nodes' neighbours have in the tier before it; medians are doubled.  *)
At(layers, t) == IF t \in DOMAIN layers THEN layers[t] ELSE <<>>
Place(layer, x) == CHOOSE i \in DOMAIN layer : layer[i] = x
Median2(places) ==
    LET s == SortSeq(places, <)
        mid == Len(s) \div 2
    IN  IF s = <<>> THEN -1 ELSE IF Len(s) % 2 = 1 THEN 2 * s[mid + 1] ELSE s[mid] + s[mid + 1]
Resorted(layers, edges, t, down) ==
    LET fixed == At(layers, IF down THEN t - 1 ELSE t + 1)
        near(x) == SelectSeq([i \in DOMAIN edges |-> IF down THEN (IF edges[i].to = x THEN edges[i].from ELSE 0)
                                                     ELSE (IF edges[i].from = x THEN edges[i].to ELSE 0)],
                             LAMBDA y : y \in ToSet(fixed))
        Median(places) == Median2([j \in DOMAIN places |-> Place(fixed, places[j]) - 1])
        Key(i, m) == IF m < 0 THEN 2 * (i - 1) ELSE m
        In(order) == [i \in DOMAIN order |-> layers[t][order[i]]]
        By(key) == SetToSortSeq(DOMAIN layers[t], LAMBDA i, j : key[i] < key[j] \/ (key[i] = key[j] /\ i < j))
    IN  In(By([i \in DOMAIN layers[t] |-> Key(i, Median(near(layers[t][i])))]))
Sweep(layers, edges, down) ==
    LET last == Cardinality(DOMAIN layers) - 1
        tiers == IF down THEN [i \in 1 .. last |-> i] ELSE [i \in 1 .. last |-> last - i]
    IN  FoldLeft(LAMBDA ls, t : [ls EXCEPT ![t] = Resorted(ls, edges, t, down)], layers, tiers)
OrderTiers(n, edges, tier, kind, sweeps) ==
    LET last == CHOOSE m \in 0 .. n : (\A x \in 1 .. n : tier[x] <= m) /\ (m = 0 \/ \E x \in 1 .. n : tier[x] = m)
        start == [t \in 0 .. last |-> SetToSortSeq({x \in 1 .. n : tier[x] = t},
                                        LAMBDA x, y : kind[x] < kind[y] \/ (kind[x] = kind[y] /\ x < y))]
        S[k \in 0 .. sweeps] == IF k = 0 THEN start ELSE Sweep(S[k - 1], edges, k % 2 = 1)
    IN  S[sweeps]

LayoutTopology(n, edges, kind, sweeps) ==
    LET Drawn(acyclic) == [edges |-> acyclic,
                           layers |-> OrderTiers(n, acyclic, AssignTiers(n, acyclic), kind, sweeps)]
    IN  Drawn(BreakCycles(n, edges))

\* countCrossings between neighbouring tiers.
Crossings(layout) ==
    LET at(t, x) == Place(layout.layers[t], x)
        spans(t) == {i \in DOMAIN layout.edges : /\ layout.edges[i].from \in ToSet(layout.layers[t])
                                                 /\ layout.edges[i].to \in ToSet(At(layout.layers, t + 1))}
        cross(t) == {<<i, j>> \in spans(t) \X spans(t) :
                        /\ at(t, layout.edges[i].from) < at(t, layout.edges[j].from)
                        /\ at(t + 1, layout.edges[i].to) > at(t + 1, layout.edges[j].to)}
    IN  Cardinality(UNION {cross(t) : t \in DOMAIN layout.layers})

-----------------------------------------------------------------------------
(* Every node has one place; an edge that was not turned runs to a later   *)
(* tier and a turned one to an earlier; no tier is further out than the    *)
(* longest path to it; only edges on a cycle are turned.                   *)
LayoutIsLayered(n, edges, layout) ==
    LET tier(x) == CHOOSE t \in DOMAIN layout.layers : x \in ToSet(layout.layers[t])
        reach[k \in 0 .. n] == IF k = 0 THEN {<<x, x>> : x \in 1 .. n}
                               ELSE reach[k - 1] \cup {<<x, y>> \in (1 .. n) \X (1 .. n) :
                                      \E e \in ToSet(edges) : e.to = y /\ <<x, e.from>> \in reach[k - 1]}
    IN  /\ \A x \in 1 .. n : Cardinality({t \in DOMAIN layout.layers : x \in ToSet(layout.layers[t])}) = 1
        /\ \A t \in DOMAIN layout.layers : IsInjective(layout.layers[t])
        /\ \A e \in ToSet(layout.edges) : tier(e.from) < tier(e.to)
        /\ \A x \in 1 .. n : tier(x) > 0 => \E e \in ToSet(layout.edges) : e.to = x /\ tier(e.from) = tier(x) - 1
        /\ \A i \in DOMAIN edges : layout.edges[i].reversed => <<edges[i].to, edges[i].from>> \in reach[n]
=============================================================================
