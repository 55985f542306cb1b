-------------------------------- MODULE DAGRun --------------------------------
(***************************************************************************)
(* DAGExecutor.execute on the graphs of TaskDAG: what validate says of a    *)
(* graph beforehand, beside what execute makes of it.                       *)
(***************************************************************************)
EXTENDS DAGExecutor, TaskDAG

CONSTANT Latency  \* estimated_latency_ms of the nodes

ASSUME LatencyAssumption == Latency \in [Nodes -> Nat]

\* The graph of the call, its nodes and edges in some order of insertion.
Graph == [nodes |-> SetToSeq(Nodes), edges |-> SetToSeq(edges)]

\* The same graph built the other way round, with every edge twice, and
\* without one of its nodes.
Variants ==
    {Graph,
     [nodes |-> Reverse(Graph.nodes), edges |-> Reverse(Graph.edges)],
     [Graph EXCEPT !.edges = @ \o @]}
        \union {RemoveNode(Graph, n) : n \in Nodes}

Fresh == \A n \in Nodes : phase[n] = "none" /\ status[n] = "pending"

-----------------------------------------------------------------------------
(* Properties *)

\* The order has exactly the nodes that are neither on a cycle nor below one,
\* each once and after its parents.
OrderIsRight(g) ==
    LET order == TopoSort(g)
    IN  /\ IsInjective(order)
        /\ ToSet(order) = NodesOf(g) \ Blocked(g)
        /\ \A i, j \in DOMAIN order : <<order[i], order[j]>> \in EdgesOf(g) => i < j

\* The critical path is a path of the graph, and no other has more latency
\* before its last node, whose own latency does not count.
PathIsLongest(g) ==
    g.nodes # <<>> =>
        LET path == CriticalPath(g, Latency)
        IN  /\ path \in Paths(g)
            /\ \A p \in Paths(g) : Weight(p, Latency) <= Weight(path, Latency)

\* For every graph, cyclic ones and edges that are there twice included, the
\* order and the critical path are right, the graph is valid if nothing of it
\* is on a cycle, and it is the same graph after it was stored and read back
\* (validate, _compute_critical_path, remove_node, to_dict, from_dict).
ValidateIsRight ==
    Fresh => \A g \in Variants :
        /\ OrderIsRight(g)
        /\ PathIsLongest(g)
        /\ Valid(g) <=> Blocked(g) = {}
        /\ FromDict(ToDict(g)) = g

\* The executors that run a graph to its end agree: a call of execute in which
\* nothing fails completes the nodes validate has ordered, the rounds of
\* TaskRunner are the parallel groups, and its call returns for a valid graph only.
ExecutorsAgree ==
    /\ CallbackSafe /\ main = "returned" /\ (\A n \in Nodes : status[n] # "failed") =>
           {n \in Nodes : status[n] = "completed"} = ToSet(TopoSort(Graph))
    /\ Fresh => \A g \in Variants : Rounds(g) = ParallelGroups(g) /\ (RunReturns(g) <=> Valid(g))

\* What CeleryDAGExecutor says of itself, "Each DAG node is submitted as a Celery
\* task" (celery_executor.py:28), for a valid graph.  It does not hold: nothing
\* sets a status while the tasks run, so no child is ever enabled.
EachNodeSubmitted ==
    Fresh /\ Valid(Graph) => Submitted(Graph, ReadyNodes, status) = Nodes

=============================================================================
