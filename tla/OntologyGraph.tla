---------------------------- MODULE OntologyGraph ----------------------------
(***************************************************************************)
(* The adjacency graph of the web console (web/src/api/ontologyGraph.ts).  *)
(* A graph is a record of                                                  *)
(*   objects : a function from the ids that exist to what is known of them *)
(*   links   : the links in the order they were fetched                    *)
(* An id is a number: the code orders ids and nothing else of them is      *)
(* looked at.  Links may name ids that no object has.                      *)
(***************************************************************************)
EXTENDS Naturals, Sequences, FiniteSets, SequencesExt

Directions == {"out", "in", "any"}

Graph(objects, links) == [objects |-> objects, links |-> links]

Has(g, id) == id \in DOMAIN g.objects

\* outLinks and inLinks; kinds is the set the filter lets through.
OutLinks(g, id, kinds) == SelectSeq(g.links, LAMBDA l : l.from = id /\ l.kind \in kinds)
InLinks(g, id, kinds) == SelectSeq(g.links, LAMBDA l : l.to = id /\ l.kind \in kinds)

\* The ids one link away, in the order of the links and with repetitions.
Step(g, id, dir, kinds) ==
    LET outs == [i \in DOMAIN OutLinks(g, id, kinds) |-> OutLinks(g, id, kinds)[i].to]
        ins == [i \in DOMAIN InLinks(g, id, kinds) |-> InLinks(g, id, kinds)[i].from]
    IN  (IF dir \in {"out", "any"} THEN outs ELSE <<>>) \o (IF dir \in {"in", "any"} THEN ins ELSE <<>>)

\* (By counting: SetToSortSeq would try all orders of S.)
Sorted(S) == [i \in 1 .. Cardinality(S) |-> CHOOSE x \in S : Cardinality({y \in S : y < x}) = i - 1]

\* Neighbours that exist, once each and by id; a link of an id to itself counts.
Neighbors(g, id, kinds) == Sorted(ToSet(Step(g, id, "any", kinds)) \cap DOMAIN g.objects)

\* A search that forgets where it has been, from one layer to the next but one.
Bfs_Forgetful(g, start, dir, kinds, maxDepth) ==
    LET Layer[d \in 0 .. maxDepth] ==
            IF d = 0 THEN {start} \cap DOMAIN g.objects
            ELSE UNION {ToSet(Step(g, id, dir, kinds)) \cap DOMAIN g.objects : id \in Layer[d - 1]} \ Layer[d - 1]
    IN  FlattenSeq([i \in 1 .. maxDepth + 1 |-> Sorted(Layer[i - 1])])
(* bfs: layer after layer, each layer by id. *)
Bfs(g, start, dir, kinds, maxDepth) ==
    LET Layer[d \in 0 .. maxDepth] ==
            IF d = 0 THEN {start} \cap DOMAIN g.objects
            ELSE UNION {ToSet(Step(g, id, dir, kinds)) \cap DOMAIN g.objects : id \in Layer[d - 1]}
                    \ UNION {Layer[e] : e \in 0 .. d - 1}
    IN  FlattenSeq([i \in 1 .. maxDepth + 1 |-> Sorted(Layer[i - 1])])

(* shortestPath: prev maps every visited id to the one it was reached from. *)
None == <<>>

\* One id of the frontier is expanded; nothing more is looked at once the target is met.
Visit(g, target, dir, kinds, acc, id) ==
    FoldLeft(LAMBDA a, n :
                IF target \in DOMAIN a.prev \/ n \in DOMAIN a.prev \/ ~Has(g, n) THEN a
                ELSE [prev |-> [x \in DOMAIN a.prev \cup {n} |-> IF x = n THEN id ELSE a.prev[x]],
                      next |-> a.next \cup {n}],
             acc, Step(g, id, dir, kinds))

\* rebuild: the way back along prev, turned around.
Rebuild(prev, from, to) ==
    LET Back[n \in 0 .. Cardinality(DOMAIN prev)] == IF n = 0 THEN to ELSE prev[Back[n - 1]]
        hops == CHOOSE n \in DOMAIN Back : Back[n] = from /\ \A m \in 0 .. n - 1 : Back[m] # from
    IN  [i \in 1 .. hops + 1 |-> Back[hops + 1 - i]]

ShortestPath(g, from, to, dir, kinds) ==
    LET Round[d \in 0 .. Cardinality(DOMAIN g.objects)] ==
            IF d = 0 THEN [prev |-> [x \in {from} |-> from], next |-> {from}]
            ELSE FoldLeft(LAMBDA a, id : Visit(g, to, dir, kinds, a, id),
                          [Round[d - 1] EXCEPT !.next = {}], Sorted(Round[d - 1].next))
        prev == Round[Cardinality(DOMAIN g.objects)].prev
    IN  IF ~Has(g, from) \/ ~Has(g, to) \/ to \notin DOMAIN prev THEN None ELSE Rebuild(prev, from, to)

\* subgraph: the objects kept and the links with both ends kept.
Subgraph(g, keep) ==
    Graph([id \in DOMAIN g.objects \cap keep |-> g.objects[id]],
          SelectSeq(g.links, LAMBDA l : l.from \in keep /\ l.to \in keep))

-----------------------------------------------------------------------------
(* What the searches promise, stated by paths instead of layers. *)

\* All paths of at most n hops that start at id.
Paths(g, id, dir, kinds, n) ==
    LET P[k \in 0 .. n] ==
            IF k = 0 THEN {<<id>>}
            ELSE P[k - 1] \cup {Append(p, x) : p \in P[k - 1], x \in DOMAIN g.objects}
        Joined(p) == \A i \in 1 .. Len(p) - 1 : p[i + 1] \in ToSet(Step(g, p[i], dir, kinds))
    IN  {p \in P[n] : Joined(p)}

Distance(paths, id) == CHOOSE d \in 0 .. 9 :
    /\ \E p \in paths : Last(p) = id /\ Len(p) = d + 1
    /\ \A p \in paths : Last(p) = id => d + 1 <= Len(p)

(* A search returns each id that a path of at most maxDepth hops reaches,  *)
(* once, nearer ids first and ids of one distance in order.                *)
BfsIsBreadthFirst(g, start, dir, kinds, maxDepth) ==
    LET order == Bfs(g, start, dir, kinds, maxDepth)
        paths == Paths(g, start, dir, kinds, maxDepth)
        far(i) == Distance(paths, order[i])
    IN  /\ ToSet(order) = {Last(p) : p \in paths}
        /\ \A i, j \in DOMAIN order : i < j =>
              far(i) < far(j) \/ (far(i) = far(j) /\ order[i] < order[j])

(* A path is found when there is one, is a path, and none is shorter. *)
PathIsShortest(g, from, to, dir, kinds) ==
    LET path == ShortestPath(g, from, to, dir, kinds)
        paths == {p \in Paths(g, from, dir, kinds, Cardinality(DOMAIN g.objects) - 1) : Last(p) = to}
    IN  IF paths = {} THEN path = None
        ELSE path \in paths /\ \A p \in paths : Len(path) <= Len(p)
=============================================================================
