----------------------------- MODULE DependencyRun -----------------------------
(***************************************************************************)
(* What a dependency-respecting run of a task graph promises, without       *)
(* concurrency limits, retries or callbacks: a node gets its outcome once;  *)
(* it succeeds or fails only after all its parents succeeded, and it is     *)
(* skipped only for a parent that failed or was skipped.                    *)
(***************************************************************************)
CONSTANT Nodes

VARIABLES edges, outcome

Parents(n) == {p \in Nodes : <<p, n>> \in edges}

Outcomes == {"open", "ok", "failed", "skipped"}

TypeOK == outcome \in [Nodes -> Outcomes]

Init ==
    /\ edges \in SUBSET (Nodes \X Nodes)
    /\ outcome = [n \in Nodes |-> "open"]

Runnable(n) == outcome[n] = "open" /\ \A p \in Parents(n) : outcome[p] = "ok"

Succeed(n) == Runnable(n) /\ outcome' = [outcome EXCEPT ![n] = "ok"]

Fail(n) == Runnable(n) /\ outcome' = [outcome EXCEPT ![n] = "failed"]

\* A whole cone of descendants may be skipped at once.
Skip(S) ==
    /\ \A n \in S :
          /\ outcome[n] = "open"
          /\ \E p \in Parents(n) : p \in S \/ outcome[p] \in {"failed", "skipped"}
    /\ outcome' = [n \in Nodes |-> IF n \in S THEN "skipped" ELSE outcome[n]]

Next ==
    /\ \/ \E n \in Nodes : Succeed(n) \/ Fail(n)
       \/ \E S \in SUBSET Nodes : Skip(S)
    /\ UNCHANGED edges

Spec == Init /\ [][Next]_<<edges, outcome>>
=============================================================================
