------------------------------ MODULE DAGExecutor ------------------------------
(***************************************************************************)
(* zilli/dag/engine.py: one call of DAGExecutor.execute on a fresh TaskDAG. *)
(*                                                                         *)
(* Everything runs on one asyncio event loop, so the code between two       *)
(* awaits is one step here.  The main coroutine (`main`) and one task per   *)
(* started node (`phase`) interleave at their awaits:                       *)
(*   main   "scan"    about to evaluate the `while` condition               *)
(*          "wait"    suspended in asyncio.wait                             *)
(*          "harvest" inside `for task in done`: no other coroutine runs    *)
(*          "returned" execute has returned its results                     *)
(*   phase  "none"    no task created      "spawned"  queued on the semaphore*)
(*          "calling" awaiting task_fn     "backoff"  sleeping before a retry*)
(*          "notifyOk", "notifyFail" awaiting on_complete                   *)
(*          "done"    the task has finished                                 *)
(*                                                                         *)
(* The graph (`edges`) and the kind of on_complete are arguments of the     *)
(* call: chosen in Init, never changed.  execute does not call validate,    *)
(* so cyclic graphs are legal arguments.                                    *)
(***************************************************************************)
EXTENDS Naturals, FiniteSets

CONSTANTS
    Nodes,           \* keys of dag.nodes
    MaxConcurrency,  \* DAGExecutor.max_concurrency
    MaxRetries       \* retry_policy["max_retries"] of every node

ASSUME NodesAssumption       == IsFiniteSet(Nodes)
ASSUME ConcurrencyAssumption == MaxConcurrency \in Nat \ {0}
ASSUME RetriesAssumption     == MaxRetries \in [Nodes -> Nat]

VARIABLES
    edges,        \* the graph: <<source, target>> pairs
    on_complete,  \* "absent", "returns" (never raises) or "raises" (may raise)
    status,       \* node.status
    attempt,      \* the retry loop's counter
    phase,        \* where each node's task is
    okResults,    \* successful ExecutionResults appended, per node
    failResults,  \* failed ExecutionResults appended, per node
    completed,    \* execute's local set
    in_progress,  \* keys of execute's in_progress dict
    harvest,      \* tasks of `done` the loop body has not handled yet
    main          \* where the main coroutine is

graphVars == <<edges, on_complete>>
taskVars  == <<attempt, phase, okResults, failResults>>
loopVars  == <<completed, in_progress, harvest, main>>
vars      == <<graphVars, status, taskVars, loopVars>>

NodeStatus == {"pending", "running", "completed", "failed", "skipped"}
Callbacks  == {"absent", "returns", "raises"}
Phases     == {"none", "spawned", "calling", "backoff", "notifyOk", "notifyFail", "done"}

\* DAGEdge refuses self-loops (line 61).
Graphs == SUBSET {e \in Nodes \X Nodes : e[1] # e[2]}

Parents(n)  == {p \in Nodes : <<p, n>> \in edges}
Terminal(s) == s \in {"completed", "failed", "skipped"}

\* Tasks inside `async with sem`.  Backoff sleeps and callbacks keep the slot.
Holders == {n \in Nodes : phase[n] \in {"calling", "backoff", "notifyOk", "notifyFail"}}

\* A task runs only while the main coroutine is suspended or has returned.
LoopFree == main \in {"wait", "returned"}

TypeOK ==
    /\ edges \in Graphs
    /\ on_complete \in Callbacks
    /\ status \in [Nodes -> NodeStatus]
    /\ attempt \in [Nodes -> Nat]
    /\ phase \in [Nodes -> Phases]
    /\ okResults \in [Nodes -> Nat]
    /\ failResults \in [Nodes -> Nat]
    /\ completed \subseteq Nodes
    /\ in_progress \subseteq Nodes
    /\ harvest \subseteq Nodes
    /\ main \in {"scan", "wait", "harvest", "returned"}

Init ==
    /\ edges \in Graphs
    /\ on_complete \in Callbacks
    /\ status = [n \in Nodes |-> "pending"]
    /\ attempt = [n \in Nodes |-> 0]
    /\ phase = [n \in Nodes |-> "none"]
    /\ okResults = [n \in Nodes |-> 0]
    /\ failResults = [n \in Nodes |-> 0]
    /\ completed = {}
    /\ in_progress = {}
    /\ harvest = {}
    /\ main = "scan"

-----------------------------------------------------------------------------
(***************************************************************************)
(* The main coroutine.                                                     *)
(***************************************************************************)

HasFailedParent(n) == \E p \in Parents(n) : status[p] = "failed"

\* get_ready_nodes marks these SKIPPED as it goes; a SKIPPED parent neither
\* fails nor enables a child, so the order of the scan does not matter.
NewlySkipped == {n \in Nodes : status[n] = "pending" /\ HasFailedParent(n)}

ReadyNodes_AnyParent ==
    {n \in Nodes : /\ status[n] = "pending"
                   /\ ~ HasFailedParent(n)
                   /\ Parents(n) = {} \/ \E p \in Parents(n) : status[p] = "completed"}

ReadyNodes ==
    {n \in Nodes : /\ status[n] = "pending"
                   /\ ~ HasFailedParent(n)
                   /\ \A p \in Parents(n) : status[p] = "completed"}

ToStart == ReadyNodes \ (completed \cup in_progress)

\* `while len(completed) < len(dag.nodes)` is false.
ScanFinished ==
    /\ main = "scan"
    /\ completed = Nodes
    /\ main' = "returned"
    /\ UNCHANGED <<graphVars, status, taskVars, completed, in_progress, harvest>>

Scan_NoStallBreak ==
    /\ main = "scan"
    /\ completed # Nodes
    /\ status' = [n \in Nodes |-> IF n \in NewlySkipped THEN "skipped" ELSE status[n]]
    /\ phase' = [n \in Nodes |-> IF n \in ToStart THEN "spawned" ELSE phase[n]]
    /\ in_progress' = in_progress \cup ToStart
    /\ main' = IF in_progress' = {} THEN "scan" ELSE "wait"
    /\ UNCHANGED <<graphVars, attempt, okResults, failResults, completed, harvest>>

\* get_ready_nodes, create_task for each, then asyncio.wait on what is in
\* progress, or the stalled-DAG warning and `break` when nothing is.
Scan ==
    /\ main = "scan"
    /\ completed # Nodes
    /\ status' = [n \in Nodes |-> IF n \in NewlySkipped THEN "skipped" ELSE status[n]]
    /\ phase' = [n \in Nodes |-> IF n \in ToStart THEN "spawned" ELSE phase[n]]
    /\ in_progress' = in_progress \cup ToStart
    /\ main' = IF in_progress' = {} THEN "returned" ELSE "wait"
    /\ UNCHANGED <<graphVars, attempt, okResults, failResults, completed, harvest>>

Finished == {n \in in_progress : phase[n] = "done"}

\* asyncio.wait(FIRST_COMPLETED) returns every task that is done by now.
Wake ==
    /\ main = "wait"
    /\ Finished # {}
    /\ harvest' = Finished
    /\ main' = "harvest"
    /\ UNCHANGED <<graphVars, status, taskVars, completed, in_progress>>

(***************************************************************************)
(* _cascade_skip(failed) is a breadth-first search that neither marks nor   *)
(* passes through a node already in `completed` (here: `settled`).  What it *)
(* marks is the least set closed under "an unsettled child of the failed    *)
(* node or of a marked node".                                               *)
(***************************************************************************)
CascadeClosed(S, failed, settled) ==
    \A c \in Nodes \ settled :
        (\E p \in S \cup {failed} : <<p, c>> \in edges) => c \in S

CascadeSkip_WholeGraph(failed, settled) == Nodes \ settled

CascadeSkip(failed, settled) ==
    {n \in Nodes \ settled :
        \A S \in SUBSET Nodes : CascadeClosed(S, failed, settled) => n \in S}

HarvestOne_NoCascade(n) ==
    /\ main = "harvest"
    /\ n \in harvest
    /\ status' = status
    /\ completed' = completed \cup {n}
    /\ in_progress' = in_progress \ {n}
    /\ harvest' = harvest \ {n}
    /\ main' = IF harvest' = {} THEN "scan" ELSE "harvest"
    /\ UNCHANGED <<graphVars, taskVars>>

HarvestOne_CascadesAlways(n) ==
    /\ main = "harvest"
    /\ n \in harvest
    /\ LET settled == completed \cup {n}
           skipped == CascadeSkip(n, settled)
       IN  /\ status' = [m \in Nodes |-> IF m \in skipped THEN "skipped" ELSE status[m]]
           /\ completed' = settled \cup skipped
    /\ in_progress' = in_progress \ {n}
    /\ harvest' = harvest \ {n}
    /\ main' = IF harvest' = {} THEN "scan" ELSE "harvest"
    /\ UNCHANGED <<graphVars, taskVars>>

\* One iteration of `for task in done`; a set iterates in any order.
HarvestOne(n) ==
    /\ main = "harvest"
    /\ n \in harvest
    /\ LET settled == completed \cup {n}
           skipped == IF status[n] = "failed" THEN CascadeSkip(n, settled) ELSE {}
       IN  /\ status' = [m \in Nodes |-> IF m \in skipped THEN "skipped" ELSE status[m]]
           /\ completed' = settled \cup skipped
    /\ in_progress' = in_progress \ {n}
    /\ harvest' = harvest \ {n}
    /\ main' = IF harvest' = {} THEN "scan" ELSE "harvest"
    /\ UNCHANGED <<graphVars, taskVars>>

-----------------------------------------------------------------------------
(***************************************************************************)
(* The task of node n: _run_node.                                          *)
(***************************************************************************)

\* `async with sem`: a free slot, then RUNNING and the first call of task_fn.
Acquire(n) ==
    /\ LoopFree
    /\ phase[n] = "spawned"
    /\ Cardinality(Holders) < MaxConcurrency
    /\ phase' = [phase EXCEPT ![n] = "calling"]
    /\ status' = [status EXCEPT ![n] = "running"]
    /\ UNCHANGED <<graphVars, attempt, okResults, failResults, loopVars>>

\* task_fn returns: COMPLETED, the result is appended, on_complete is awaited.
TaskSucceeds(n) ==
    /\ LoopFree
    /\ phase[n] = "calling"
    /\ status' = [status EXCEPT ![n] = "completed"]
    /\ okResults' = [okResults EXCEPT ![n] = @ + 1]
    /\ phase' = [phase EXCEPT ![n] = IF on_complete = "absent" THEN "done" ELSE "notifyOk"]
    /\ UNCHANGED <<graphVars, attempt, failResults, loopVars>>

\* `except Exception` with attempts left: sleep, keeping the semaphore slot.
RetryLater(n) ==
    /\ attempt[n] < MaxRetries[n]
    /\ phase' = [phase EXCEPT ![n] = "backoff"]
    /\ UNCHANGED <<graphVars, status, attempt, okResults, failResults, loopVars>>

\* The last attempt raised: FAILED, the result is appended, on_complete awaited.
GiveUp(n) ==
    /\ attempt[n] = MaxRetries[n]
    /\ status' = [status EXCEPT ![n] = "failed"]
    /\ failResults' = [failResults EXCEPT ![n] = @ + 1]
    /\ phase' = [phase EXCEPT ![n] = IF on_complete = "absent" THEN "done" ELSE "notifyFail"]
    /\ UNCHANGED <<graphVars, attempt, okResults, loopVars>>

TaskRaises(n) ==
    /\ LoopFree
    /\ phase[n] = "calling"
    /\ RetryLater(n) \/ GiveUp(n)

\* on_complete of a success is awaited inside the `try`: if it raises, the
\* handler retries (or fails) a node that is already COMPLETED.
CallbackRaises(n) ==
    /\ LoopFree
    /\ phase[n] = "notifyOk"
    /\ on_complete = "raises"
    /\ RetryLater(n) \/ GiveUp(n)

\* on_complete returns, or the one of a failure raises (the task then ends
\* with an exception nobody retrieves): either way the task is done.
CallbackEnds(n) ==
    /\ LoopFree
    /\ phase[n] \in {"notifyOk", "notifyFail"}
    /\ phase' = [phase EXCEPT ![n] = "done"]
    /\ UNCHANGED <<graphVars, status, attempt, okResults, failResults, loopVars>>

\* asyncio.sleep is over: the next attempt calls task_fn.  The status is left
\* as it was when the attempt failed.
BackoffEnds(n) ==
    /\ LoopFree
    /\ phase[n] = "backoff"
    /\ attempt' = [attempt EXCEPT ![n] = @ + 1]
    /\ phase' = [phase EXCEPT ![n] = "calling"]
    /\ UNCHANGED <<graphVars, status, okResults, failResults, loopVars>>

TaskStep(n) ==
    \/ Acquire(n)
    \/ TaskSucceeds(n)
    \/ TaskRaises(n)
    \/ CallbackRaises(n)
    \/ CallbackEnds(n)
    \/ BackoffEnds(n)

MainStep == ScanFinished \/ Scan \/ Wake \/ \E n \in Nodes : HarvestOne(n)

\* execute has returned and no task of it is alive.
Quiescent ==
    /\ main = "returned"
    /\ \A n \in Nodes : phase[n] \in {"none", "done"}

Stop == Quiescent /\ UNCHANGED vars

Next == MainStep \/ (\E n \in Nodes : TaskStep(n)) \/ Stop

\* The event loop keeps running every coroutine that can run, and every call
\* of task_fn, on_complete and sleep ends.
Fairness == WF_vars(MainStep) /\ \A n \in Nodes : WF_vars(TaskStep(n))

Spec     == Init /\ [][Next]_vars
FairSpec == Spec /\ Fairness

-----------------------------------------------------------------------------
(***************************************************************************)
(* Properties.                                                             *)
(***************************************************************************)

CallbackSafe == on_complete # "raises"

\* The semaphore: at most MaxConcurrency nodes are between `async with sem`
\* and the end of _run_node, backoff sleeps and callbacks included.
ConcurrencyBound == Cardinality(Holders) <= MaxConcurrency

\* Unless on_complete raises, the parents of every node whose task was created
\* are COMPLETED, and stay so however late that task gets its slot or retries.
ParentsStayCompleted ==
    CallbackSafe =>
        \A n \in Nodes : phase[n] # "none" => \A p \in Parents(n) : status[p] = "completed"

\* Unless on_complete raises, a status DAGNode.is_terminal calls terminal is
\* never left: neither a retry, nor get_ready_nodes, nor the skip cascade of
\* another node overwrites it.
TerminalIsFinal ==
    [][CallbackSafe => \A n \in Nodes : Terminal(status[n]) => status'[n] = status[n]]_vars

\* What the returned list says of node n agrees with its status.
ResultsMatch(n) ==
    <<okResults[n], failResults[n]>> =
        CASE status[n] = "completed" -> <<1, 0>>
          [] status[n] = "failed"    -> <<0, 1>>
          [] OTHER                   -> <<0, 0>>

\* Unless on_complete raises, when execute returns: no task is alive, every
\* node that ran has exactly one result, exactly the nodes below a FAILED node
\* are SKIPPED, and a node is left PENDING only behind another PENDING one,
\* that is behind a cycle, which the loop reports as a stall.
ReturnAccounts ==
    CallbackSafe /\ main = "returned" =>
        /\ Quiescent
        /\ \A n \in Nodes :
              /\ ResultsMatch(n)
              /\ status[n] = "skipped" <=>
                    \E p \in Parents(n) : status[p] \in {"failed", "skipped"}
              /\ status[n] = "pending" => \E p \in Parents(n) : status[p] = "pending"

\* execute returns for every graph, cyclic ones and raising callbacks
\* included, and what it leaves running ends too.
ExecuteReturns == <>[]Quiescent

(***************************************************************************)
(* execute implements DependencyRun: the outcome of a node is its status,   *)
(* from the moment it is written.  A call whose on_complete raises claims   *)
(* nothing: it maps to a run in which nothing happens.                      *)
(***************************************************************************)
outcome ==
    [n \in Nodes |->
        IF ~ CallbackSafe THEN "open"
        ELSE CASE status[n] = "completed" -> "ok"
               [] status[n] = "failed"    -> "failed"
               [] status[n] = "skipped"   -> "skipped"
               [] OTHER                   -> "open"]

DR == INSTANCE DependencyRun WITH outcome <- outcome

\* Every step of execute is a step of DependencyRun or changes no outcome.
ImplementsDependencyRun == DR!Spec

=============================================================================
