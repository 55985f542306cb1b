----------------------------- MODULE MCDAGExecutor -----------------------------
(***************************************************************************)
(* Bounds for DAGRun: three nodes, so every graph on three nodes            *)
(* (chains, diamonds cut to three, fans, cycles), two semaphore slots, and  *)
(* one node without retries beside nodes with one.                          *)
(***************************************************************************)
EXTENDS DAGRun

CONSTANTS a, b, c

MCNodes      == {a, b, c}
MCMaxRetries == [n \in MCNodes |-> IF n = c THEN 0 ELSE 1]

\* Nodes with different latencies, one of them without any.
MCLatency == [n \in MCNodes |-> CASE n = a -> 1 [] n = b -> 2 [] OTHER -> 0]
=============================================================================
