---------------------------- MODULE LineageGraph ----------------------------
(***************************************************************************)
(* The pure graph core of lineage, (app)/lineage/graph-core.ts, and the    *)
(* view that (app)/lineage/data.ts builds on it.  An edge is a pair        *)
(* <<from, to>>; loops over a stack or a queue are recursive functions of  *)
(* the number of rounds; what comes in an order has a number.              *)
(***************************************************************************)
EXTENDS Integers, FiniteSets, FiniteSetsExt, Functions

Targets(E, n) == {e[2] : e \in {f \in E : f[1] = n}}

\* downstreamOf: the search visits the same nodes if each round pops the whole stack.
DownstreamOf(start, E) ==
    LET seen[k \in Nat] == IF k = 0 THEN Targets(E, start)
                           ELSE seen[k - 1] \cup UNION {Targets(E, n) : n \in seen[k - 1]}
    IN  seen[Cardinality(E)]

WouldCreateCycleDirectly(from, to, E) == from = to \/ <<to, from>> \in E   \* mutant: one step only
WouldCreateCycle(from, to, E) == from = to \/ from \in DownstreamOf(to, E)

\* One pass of the loop of layerNodes over the nodes that are in the queue.  None of them has a
\* source left, so that none moves another of them: the pass does what taking them off the
\* head one by one does.
Relax(s, N, E) ==
    LET hit(n) == {e \in E : e[1] \in s.queue /\ e[2] = n}
        deg == [n \in N |-> s.indeg[n] - Cardinality(hit(n))]
    IN  [queue |-> {n \in N : hit(n) # {} /\ deg[n] <= 0},
         indeg |-> deg,
         layer |-> [n \in N |-> Max({s.layer[n]} \cup {s.layer[e[1]] + 1 : e \in hit(n)})]]

\* layerNodes: Kahn's algorithm with longest-path relaxation; a node on a cycle never
\* has all its sources removed and keeps the layer it has.
LayerNodes(N, E) ==
    LET inner == {e \in E : e[1] \in N /\ e[2] \in N}
        indeg == [n \in N |-> Cardinality({e \in inner : e[2] = n})]
        pass[k \in Nat] ==
            IF k = 0 THEN [queue |-> {n \in N : indeg[n] = 0}, indeg |-> indeg,
                           layer |-> [n \in N |-> 0]]
            ELSE Relax(pass[k - 1], N, inner)
    IN  pass[Cardinality(N)].layer

\* getLineage for the datasets ds, numbered by name, with the edges E, the sources of those that
\* have one (src) and the links <<d, service>>; cap is NODE_CAP.  Isolated nodes are left out
\* unless one is the subject.
Degree(E, n) == Cardinality({e \in E : n \in {e[1], e[2]}})
PickDefaultSubject(ds, E) ==
    CHOOSE d \in ds : \A c \in ds :
        \/ Degree(E, c) < Degree(E, d)
        \/ Degree(E, c) = Degree(E, d) /\ d <= c
Nodes(ds, src, links) == ds \cup Range(src) \cup {l[2] : l \in links}
WholeGraph(ds, E, src, links) ==
    {<<src[d], d>> : d \in DOMAIN src} \cup {e \in E : {e[1], e[2]} \subseteq ds}
    \cup {l \in links : l[1] \in ds}

\* Where the map of nodes has n: the datasets by name, a source behind its first dataset, the
\* services last.
Place(ds, src, n) ==
    IF n \in ds THEN 2 * n
    ELSE IF n \in Range(src) THEN 2 * Min({d \in DOMAIN src : src[d] = n}) + 1
    ELSE 2 * Max(ds) + 2 + n
LineageView(ds, E, src, links, wanted, cap) ==
    LET subject   == IF wanted \in ds THEN wanted ELSE PickDefaultSubject(ds, E)
        all       == WholeGraph(ds, E, src, links)
        connected == {subject} \cup UNION {{e[1], e[2]} : e \in all}
        listed    == Nodes(ds, src, links) \cap connected
        kept      == {n \in listed : Cardinality({m \in listed :
                                          Place(ds, src, m) < Place(ds, src, n)}) < cap}
        edges     == {e \in all : {e[1], e[2]} \subseteq kept}
    IN  [subject |-> subject, nodes |-> kept, edges |-> edges, layer |-> LayerNodes(kept, edges),
         impact |-> DownstreamOf(subject, edges), truncated |-> Cardinality(listed) > cap]
=============================================================================
