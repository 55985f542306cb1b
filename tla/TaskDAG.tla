-------------------------------- MODULE TaskDAG --------------------------------
(***************************************************************************)
(* zilli/dag/engine.py: TaskDAG, how a graph is built, stored, validated    *)
(* and ordered; and the two other ways the package has to run one: the      *)
(* rounds of zilli/core/runner.py and what zilli/workflow/celery_executor.py *)
(* submits.  A graph has its nodes and edges in the order of insertion; an  *)
(* edge may be there twice.                                                 *)
(***************************************************************************)
EXTENDS Integers, Sequences, SequencesExt, FiniteSetsExt

NodesOf(g) == ToSet(g.nodes)
EdgesOf(g) == ToSet(g.edges)

Empty == [nodes |-> <<>>, edges |-> <<>>]

\* add_node and add_edge raise on a node that is there, an end that is not, and
\* DAGEdge on a self-loop: the graph stays as it was.
AddNode(g, n) == IF n \in NodesOf(g) THEN g ELSE [g EXCEPT !.nodes = Append(@, n)]

AddEdge(g, e) ==
    IF {e[1], e[2]} \subseteq NodesOf(g) /\ e[1] # e[2] THEN [g EXCEPT !.edges = Append(@, e)] ELSE g

\* The elements of s that are in K, in their order.
Keep(s, K) ==
    LET Add(kept, x) == IF x \in K THEN Append(kept, x) ELSE kept IN FoldLeft(Add, <<>>, s)

RemoveNode(g, n) ==
    [nodes |-> Keep(g.nodes, NodesOf(g) \ {n}),
     edges |-> Keep(g.edges, {e \in EdgesOf(g) : n \notin {e[1], e[2]}})]

Targets(es) == [i \in DOMAIN es |-> es[i][2]]
Sources(es) == [i \in DOMAIN es |-> es[i][1]]

\* _adj and _reverse_adj.
Adj(g, n) == Targets(Keep(g.edges, {e \in EdgesOf(g) : e[1] = n}))
ReverseAdj(g, n) == Sources(Keep(g.edges, {e \in EdgesOf(g) : e[2] = n}))

-----------------------------------------------------------------------------
(* validate and the orders it derives *)

\* in_degree, which counts an edge as often as it is there.
EdgesBetween(g, S, n) == {i \in DOMAIN g.edges : g.edges[i][1] \in S /\ g.edges[i][2] = n}

InDegree(g) == [n \in NodesOf(g) |-> Cardinality(EdgesBetween(g, NodesOf(g), n))]

\* A node that leaves the queue lowers the degree of its children, and those
\* that reach zero are queued.
Lower(s, c) ==
    [s EXCEPT !.degree[c] = @ - 1, !.queue = IF s.degree[c] = 1 THEN Append(@, c) ELSE @]

Visit(g, s) ==
    IF s.queue = <<>> THEN s
    ELSE LET n == Head(s.queue)
         IN  FoldLeft(Lower, [s EXCEPT !.queue = Tail(@), !.order = Append(@, n)], Adj(g, n))

\* A node is queued once, so as many visits as nodes empty the queue.
TopoSort(g) ==
    LET roots == {n \in NodesOf(g) : InDegree(g)[n] = 0}
        start == [queue |-> Keep(g.nodes, roots), order |-> <<>>, degree |-> InDegree(g)]
        Loop(s, n) == Visit(g, s)
    IN  FoldLeft(Loop, start, g.nodes).order

Valid(g) == Len(TopoSort(g)) = Len(g.nodes)

\* _compute_critical_path: a child is relaxed only by a longer way, which
\* counts the nodes before it; the first of the farthest nodes ends the path.
Relax_Always(s, n, w, c) ==
    [dist |-> [s.dist EXCEPT ![c] = s.dist[n] + w], prev |-> [s.prev EXCEPT ![c] = <<n>>]]

Relax(s, n, w, c) ==
    IF s.dist[n] + w > s.dist[c]
    THEN [dist |-> [s.dist EXCEPT ![c] = s.dist[n] + w], prev |-> [s.prev EXCEPT ![c] = <<n>>]]
    ELSE s

Distances(g, latency) ==
    LET start == [dist |-> [n \in NodesOf(g) |-> 0], prev |-> [n \in NodesOf(g) |-> <<>>]]
        Step(s, n) == LET To(t, c) == Relax(t, n, latency[n], c) IN FoldLeft(To, s, Adj(g, n))
    IN  FoldLeft(Step, start, TopoSort(g))

CriticalPath(g, latency) ==
    LET d == Distances(g, latency)
        farthest == {i \in DOMAIN g.nodes : \A m \in NodesOf(g) : d.dist[m] <= d.dist[g.nodes[i]]}
        Back(path, n) == d.prev[Head(path)] \o path
    IN  IF g.nodes = <<>> THEN <<>>
        ELSE FoldLeft(Back, <<g.nodes[Min(farthest)]>>, g.nodes)

\* _compute_parallel_groups: a group is what has no parent left; without one
\* the loop stops.
Group(g, s) ==
    LET ready == {n \in s.remaining : s.degree[n] = 0}
        Freed(n) == Cardinality(EdgesBetween(g, ready, n))
    IN  IF ready = {} THEN s
        ELSE [groups |-> Append(s.groups, ready), remaining |-> s.remaining \ ready,
              degree |-> [n \in NodesOf(g) |-> s.degree[n] - Freed(n)]]

ParallelGroups(g) ==
    LET Loop(s, n) == Group(g, s)
    IN  FoldLeft(Loop, [groups |-> <<>>, remaining |-> NodesOf(g), degree |-> InDegree(g)], g.nodes).groups

-----------------------------------------------------------------------------
(* to_dict and from_dict: an edge is stored twice, in "edges" and in "depends_on" *)

ToDict(g) ==
    [nodes |-> [i \in DOMAIN g.nodes |-> [id |-> g.nodes[i], depends_on |-> ReverseAdj(g, g.nodes[i])]],
     edges |-> g.edges]

FromDict(d) ==
    LET Node(g, nd) == AddNode(g, nd.id)
        AddMissing(g, e) == IF e \in EdgesOf(g) THEN g ELSE AddEdge(g, e)
        Depends(g, nd) == FoldLeft(AddMissing, g, [i \in DOMAIN nd.depends_on |-> <<nd.depends_on[i], nd.id>>])
    IN  FoldLeft(Depends, FoldLeft(AddEdge, FoldLeft(Node, Empty, d.nodes), d.edges), d.nodes)

-----------------------------------------------------------------------------
(* The other executors *)

Round_AnyDependency(g, rounds) ==
    LET done == UNION ToSet(rounds)
        ready == {n \in NodesOf(g) \ done : ReverseAdj(g, n) = <<>> \/ ToSet(ReverseAdj(g, n)) \cap done # {}}
    IN  IF ready = {} THEN rounds ELSE Append(rounds, ready)

\* TaskRunner.run: each round gathers the steps whose dependencies are done,
\* failed ones included; a round without any ends the loop.
Round(g, rounds) ==
    LET done == UNION ToSet(rounds)
        ready == {n \in NodesOf(g) \ done : ToSet(ReverseAdj(g, n)) \subseteq done}
    IN  IF ready = {} THEN rounds ELSE Append(rounds, ready)

Rounds(g) == LET Loop(rounds, n) == Round(g, rounds) IN FoldLeft(Loop, <<>>, g.nodes)

\* The results are then read for every step: a step that never ran raises.
RunReturns(g) == UNION ToSet(Rounds(g)) = NodesOf(g)

\* CeleryDAGExecutor._iterate_ready, from the ready nodes: a child follows its
\* parent when every parent is COMPLETED, but nothing sets a status meanwhile.
Submitted(g, ready, status) ==
    LET Enabled(c) == \A p \in ToSet(ReverseAdj(g, c)) : status[p] = "completed"
        Loop(visited, n) ==
            visited \union {c \in NodesOf(g) : Enabled(c) /\ \E m \in visited : c \in ToSet(Adj(g, m))}
    IN  FoldLeft(Loop, ready, g.nodes)

-----------------------------------------------------------------------------
(* Reference definitions *)

\* The nodes on a cycle or below one: the greatest set in which each node has
\* a parent in the set.
Blocked(g) ==
    UNION {S \in SUBSET NodesOf(g) : \A n \in S : \E p \in S : <<p, n>> \in EdgesOf(g)}

\* Paths that leave only nodes that are not blocked.
Paths(g) ==
    {p \in SeqOf(NodesOf(g), Len(g.nodes)) :
        /\ p # <<>> /\ IsInjective(p)
        /\ \A i \in 1..(Len(p) - 1) : <<p[i], p[i + 1]>> \in EdgesOf(g) /\ p[i] \notin Blocked(g)}

Weight(p, latency) ==
    LET Add(w, n) == w + latency[n] IN FoldLeft(Add, 0, Front(p))

=============================================================================
