--------------------------- MODULE DAGExecutor_proofs ---------------------------
(***************************************************************************)
(* Proofs about DAGExecutor, TaskDAG and DAGRun for every finite set of     *)
(* nodes, every graph on it, every number of semaphore slots, every retry   *)
(* policy and all latencies.                                                *)
(***************************************************************************)
EXTENDS DAGRun, SequenceTheorems, FiniteSetTheorems, WellFoundedInduction, TLAPS

(***************************************************************************)
(* The skip cascade.                                                       *)
(***************************************************************************)

\* What _cascade_skip marks lies inside every closed set.
LEMMA CascadeInsideClosed ==
    ASSUME NEW f, NEW D, NEW S \in SUBSET Nodes, CascadeClosed(S, f, D)
    PROVE  CascadeSkip(f, D) \subseteq S
BY DEF CascadeSkip

\* What _cascade_skip marks is closed itself.
LEMMA CascadeIsClosed ==
    ASSUME NEW f, NEW D
    PROVE  CascadeClosed(CascadeSkip(f, D), f, D)
<1>1. SUFFICES ASSUME NEW c \in Nodes \ D, NEW p \in CascadeSkip(f, D) \cup {f},
                      <<p, c>> \in edges
               PROVE  c \in CascadeSkip(f, D)
    BY DEF CascadeClosed
<1>2. ASSUME NEW S \in SUBSET Nodes, CascadeClosed(S, f, D)
      PROVE  c \in S
    <2>1. p \in S \cup {f}
        BY <1>2, CascadeInsideClosed
    <2>2. QED
        BY <1>1, <1>2, <2>1 DEF CascadeClosed
<1>3. QED
    BY <1>2 DEF CascadeSkip

\* Every node _cascade_skip marks has a parent that failed or was marked.
LEMMA CascadeHasParent ==
    ASSUME NEW f, NEW D, NEW n \in CascadeSkip(f, D)
    PROVE  \E p \in CascadeSkip(f, D) \cup {f} : <<p, n>> \in edges
<1> DEFINE C == CascadeSkip(f, D)
           S == C \ {n}
<1>1. SUFFICES ASSUME \A p \in C \cup {f} : <<p, n>> \notin edges
               PROVE  FALSE
    OBVIOUS
<1>2. S \in SUBSET Nodes
    BY DEF CascadeSkip
<1>3. CascadeClosed(S, f, D)
    <2>1. SUFFICES ASSUME NEW c \in Nodes \ D, NEW p \in S \cup {f}, <<p, c>> \in edges
                   PROVE  c \in S
        BY DEF CascadeClosed
    <2>2. c \in C
        BY <2>1, CascadeIsClosed DEF CascadeClosed
    <2>3. c # n
        BY <1>1, <2>1
    <2>4. QED
        BY <2>2, <2>3
<1>4. n \in S
    BY <1>2, <1>3, CascadeInsideClosed
<1>5. QED
    BY <1>4

(***************************************************************************)
(* Type correctness.                                                       *)
(***************************************************************************)

\* Every value execute and its tasks write has its type, in every mode.
THEOREM TypeCorrect == Spec => []TypeOK
<1>1. Init => TypeOK
    BY DEF Init, TypeOK, NodeStatus, Phases
<1>2. TypeOK /\ [Next]_vars => TypeOK'
    <2> SUFFICES ASSUME TypeOK, [Next]_vars
                 PROVE  TypeOK'
        OBVIOUS
    <2> USE DEF TypeOK, graphVars, taskVars, loopVars
    <2>1. CASE ScanFinished
        BY <2>1 DEF ScanFinished
    <2>2. CASE Scan
        <3>1. status' \in [Nodes -> NodeStatus]
            BY <2>2 DEF Scan, NodeStatus
        <3>2. phase' \in [Nodes -> Phases]
            BY <2>2 DEF Scan, Phases
        <3>3. in_progress' \subseteq Nodes
            BY <2>2 DEF Scan, ToStart, ReadyNodes
        <3>4. main' \in {"scan", "wait", "harvest", "returned"}
            BY <2>2 DEF Scan
        <3>5. QED
            BY <2>2, <3>1, <3>2, <3>3, <3>4 DEF Scan
    <2>3. CASE Wake
        BY <2>3 DEF Wake, Finished
    <2>4. ASSUME NEW n \in Nodes, HarvestOne(n)
          PROVE  TypeOK'
        <3> DEFINE settled == completed \cup {n}
                   skipped == IF status[n] = "failed" THEN CascadeSkip(n, settled) ELSE {}
        <3>1. skipped \subseteq Nodes
            BY DEF CascadeSkip
        <3>2. /\ status' = [m \in Nodes |-> IF m \in skipped THEN "skipped" ELSE status[m]]
              /\ completed' = settled \cup skipped
            BY <2>4 DEF HarvestOne
        <3> HIDE DEF skipped
        <3>3. status' \in [Nodes -> NodeStatus]
            BY <3>2 DEF NodeStatus
        <3>4. completed' \subseteq Nodes
            BY <3>1, <3>2
        <3>5. QED
            BY <2>4, <3>3, <3>4 DEF HarvestOne
    <2>5. ASSUME NEW n \in Nodes, Acquire(n)
          PROVE  TypeOK'
        BY <2>5 DEF Acquire, NodeStatus, Phases
    <2>6. ASSUME NEW n \in Nodes, TaskSucceeds(n)
          PROVE  TypeOK'
        BY <2>6 DEF TaskSucceeds, NodeStatus, Phases
    <2>7. ASSUME NEW n \in Nodes, RetryLater(n) \/ GiveUp(n)
          PROVE  TypeOK'
        BY <2>7 DEF RetryLater, GiveUp, NodeStatus, Phases
    <2>8. ASSUME NEW n \in Nodes, CallbackEnds(n)
          PROVE  TypeOK'
        BY <2>8 DEF CallbackEnds, Phases
    <2>9. ASSUME NEW n \in Nodes, BackoffEnds(n)
          PROVE  TypeOK'
        BY <2>9 DEF BackoffEnds, Phases
    <2>10. CASE UNCHANGED vars
        BY <2>10 DEF vars
    <2>11. QED
        BY <2>1, <2>2, <2>3, <2>4, <2>5, <2>6, <2>7, <2>8, <2>9, <2>10
        DEF Next, MainStep, TaskStep, TaskRaises, CallbackRaises, Stop
<1>3. QED
    BY <1>1, <1>2, PTL DEF Spec

(***************************************************************************)
(* The semaphore.                                                          *)
(***************************************************************************)

LEMMA HoldersFinite == IsFiniteSet(Holders)
BY NodesAssumption, FS_Subset DEF Holders

\* A step that lets no new node in keeps the bound.
LEMMA FewerHolders ==
    ASSUME ConcurrencyBound, Holders' \subseteq Holders
    PROVE  ConcurrencyBound'
<1>1. /\ IsFiniteSet(Holders')
      /\ Cardinality(Holders') <= Cardinality(Holders)
    BY HoldersFinite, FS_Subset
<1>2. /\ Cardinality(Holders) \in Nat
      /\ Cardinality(Holders') \in Nat
    BY <1>1, HoldersFinite, FS_CardinalityType
<1>3. QED
    BY <1>1, <1>2, ConcurrencyAssumption DEF ConcurrencyBound

\* Never more than MaxConcurrency nodes hold a slot: only Acquire lets one in.
THEOREM ConcurrencyBounded == Spec => []ConcurrencyBound
<1>1. Init => ConcurrencyBound
    <2>1. Init => Holders = {}
        BY DEF Init, Holders
    <2>2. QED
        BY <2>1, FS_EmptySet, ConcurrencyAssumption DEF ConcurrencyBound
<1>2. TypeOK /\ ConcurrencyBound /\ [Next]_vars => ConcurrencyBound'
    <2> SUFFICES ASSUME TypeOK, ConcurrencyBound, [Next]_vars
                 PROVE  ConcurrencyBound'
        OBVIOUS
    <2>1. ASSUME NEW n \in Nodes, Acquire(n)
          PROVE  ConcurrencyBound'
        <3>1. Holders' \subseteq Holders \cup {n}
            BY <2>1 DEF Acquire, Holders, TypeOK
        <3>2. IsFiniteSet(Holders \cup {n}) /\ Cardinality(Holders \cup {n}) <= Cardinality(Holders) + 1
            <4>1. IsFiniteSet(Holders)
                BY HoldersFinite
            <4>2. /\ IsFiniteSet(Holders \cup {n})
                  /\ \/ Cardinality(Holders \cup {n}) = Cardinality(Holders)
                     \/ Cardinality(Holders \cup {n}) = Cardinality(Holders) + 1
                BY <4>1, FS_AddElement
            <4>3. Cardinality(Holders) \in Nat
                BY <4>1, FS_CardinalityType
            <4>4. QED
                BY <4>2, <4>3
        <3>3. /\ IsFiniteSet(Holders')
              /\ Cardinality(Holders') <= Cardinality(Holders \cup {n})
            BY <3>1, <3>2, FS_Subset
        <3>4. /\ Cardinality(Holders) \in Nat
              /\ Cardinality(Holders') \in Nat
              /\ Cardinality(Holders \cup {n}) \in Nat
            BY <3>2, <3>3, HoldersFinite, FS_CardinalityType
        <3>5. Cardinality(Holders) < MaxConcurrency
            BY <2>1 DEF Acquire
        <3>6. QED
            BY <3>2, <3>3, <3>4, <3>5, ConcurrencyAssumption DEF ConcurrencyBound
    <2>2. ASSUME NEW n \in Nodes, \/ TaskSucceeds(n)
                                  \/ TaskRaises(n)
                                  \/ CallbackRaises(n)
                                  \/ CallbackEnds(n)
                                  \/ BackoffEnds(n)
          PROVE  Holders' \subseteq Holders
        BY <2>2 DEF TaskSucceeds, TaskRaises, CallbackRaises, RetryLater, GiveUp,
                    CallbackEnds, BackoffEnds, Holders, TypeOK
    <2>3. CASE MainStep
        <3>1. Holders' \subseteq Holders
            BY <2>3 DEF MainStep, ScanFinished, Scan, Wake, HarvestOne, taskVars, Holders
        <3>2. QED
            BY <3>1, FewerHolders
    <2>4. CASE UNCHANGED vars
        <3>1. Holders' \subseteq Holders
            BY <2>4 DEF vars, taskVars, Holders
        <3>2. QED
            BY <3>1, FewerHolders
    <2>5. QED
        BY <2>1, <2>2, <2>3, <2>4, FewerHolders DEF Next, TaskStep, Stop
<1>3. QED
    BY <1>1, <1>2, TypeCorrect, PTL DEF Spec

(***************************************************************************)
(* Dependencies, when on_complete never raises.                            *)
(***************************************************************************)

\* The status of a node says where its task is.
StatusFits(n) ==
    /\ phase[n] = "none" => status[n] \in {"pending", "skipped"}
    /\ phase[n] = "spawned" => status[n] = "pending"
    /\ phase[n] \in {"calling", "backoff"} => status[n] = "running"
    /\ phase[n] = "notifyOk" => status[n] = "completed"
    /\ phase[n] = "notifyFail" => status[n] = "failed"
    /\ phase[n] = "done" => status[n] \in {"completed", "failed"}

StatusFitsAll == \A n \in Nodes : StatusFits(n)

HarvestDone == \A n \in harvest : phase[n] = "done"

\* The inductive invariant: ParentsStayCompleted alone is not inductive, as a
\* cascade could overwrite the status of a parent whose task is alive.
SafeInv == CallbackSafe => StatusFitsAll /\ HarvestDone

DependencyInv == TypeOK /\ SafeInv /\ ParentsStayCompleted

\* The cascade of a failed node reaches only nodes without a task.
LEMMA CascadeUnstarted ==
    ASSUME DependencyInv, CallbackSafe, NEW f \in Nodes, status[f] = "failed", NEW D
    PROVE  \A n \in CascadeSkip(f, D) : phase[n] = "none"
<1> DEFINE S == {n \in Nodes : phase[n] = "none"}
<1>1. CascadeClosed(S, f, D)
    <2>1. SUFFICES ASSUME NEW c \in Nodes \ D, NEW p \in S \cup {f}, <<p, c>> \in edges
                   PROVE  phase[c] = "none"
        BY DEF CascadeClosed
    <2>2. p \in Parents(c)
        BY <2>1 DEF Parents
    <2>3. status[p] # "completed"
        BY DEF DependencyInv, SafeInv, StatusFitsAll, StatusFits
    <2>4. QED
        BY <2>2, <2>3 DEF DependencyInv, ParentsStayCompleted
<1>2. CascadeSkip(f, D) \subseteq S
    BY <1>1, CascadeInsideClosed
<1>3. QED
    BY <1>2

LEMMA DependencyInit == Init => DependencyInv
BY DEF Init, DependencyInv, SafeInv, StatusFitsAll, StatusFits, HarvestDone,
       ParentsStayCompleted, TypeOK, NodeStatus, Phases

\* One iteration of the harvest, seen through the statuses alone.
LEMMA HarvestEffect ==
    ASSUME DependencyInv, CallbackSafe, NEW n \in Nodes, HarvestOne(n)
    PROVE  /\ \A m \in Nodes :
                 \/ status'[m] = status[m]
                 \/ status'[m] = "skipped" /\ phase[m] = "none"
           /\ phase' = phase
           /\ edges' = edges
           /\ on_complete' = on_complete
           /\ harvest' \subseteq harvest
<1> DEFINE settled == completed \cup {n}
           skipped == IF status[n] = "failed" THEN CascadeSkip(n, settled) ELSE {}
<1>1. \A m \in skipped : phase[m] = "none"
    BY CascadeUnstarted
<1>2. status' = [m \in Nodes |-> IF m \in skipped THEN "skipped" ELSE status[m]]
    BY DEF HarvestOne
<1> HIDE DEF skipped
<1>3. \A m \in Nodes : \/ status'[m] = status[m]
                       \/ status'[m] = "skipped" /\ phase[m] = "none"
    BY <1>1, <1>2
<1>4. QED
    BY <1>3 DEF HarvestOne, taskVars, graphVars

LEMMA DependencyStep ==
    ASSUME DependencyInv, [Next]_vars, TypeOK'
    PROVE  DependencyInv'
<1> SUFFICES ASSUME CallbackSafe'
             PROVE  StatusFitsAll' /\ HarvestDone' /\ ParentsStayCompleted'
    BY DEF DependencyInv, SafeInv, ParentsStayCompleted
<1> USE DEF DependencyInv, SafeInv, HarvestDone, CallbackSafe, graphVars, taskVars, loopVars
<1>0. CallbackSafe
    BY DEF Next, MainStep, ScanFinished, Scan, Wake, HarvestOne, TaskStep, Acquire,
           TaskSucceeds, TaskRaises, CallbackRaises, RetryLater, GiveUp, CallbackEnds,
           BackoffEnds, Stop, vars
<1>1. CASE ScanFinished
    BY <1>0, <1>1 DEF ScanFinished, StatusFitsAll, StatusFits, ParentsStayCompleted, Parents
<1>2. CASE Scan
    <2>1. \A n \in NewlySkipped : phase[n] = "none"
        BY <1>0 DEF NewlySkipped, HasFailedParent, ParentsStayCompleted, StatusFitsAll,
                    StatusFits, TypeOK, Phases, Parents
    <2>2. \A n \in ToStart : n \notin NewlySkipped /\ status[n] = "pending"
                             /\ \A p \in Parents(n) : status[p] = "completed"
        BY DEF ToStart, ReadyNodes, NewlySkipped
    <2>3. \A n \in NewlySkipped : status[n] = "pending"
        BY DEF NewlySkipped
    <2>4. /\ status' = [n \in Nodes |-> IF n \in NewlySkipped THEN "skipped" ELSE status[n]]
          /\ phase' = [n \in Nodes |-> IF n \in ToStart THEN "spawned" ELSE phase[n]]
          /\ edges' = edges
          /\ harvest' = harvest
        BY <1>2 DEF Scan
    <2>5. StatusFitsAll'
        BY <1>0, <2>1, <2>2, <2>4 DEF StatusFitsAll, StatusFits
    <2>6. ParentsStayCompleted'
        BY <1>0, <2>2, <2>3, <2>4 DEF ParentsStayCompleted, Parents
    <2>7. HarvestDone'
        <3>1. \A n \in ToStart : phase[n] # "done"
            BY <1>0, <2>2 DEF StatusFitsAll, StatusFits, ToStart, ReadyNodes
        <3>2. QED
            BY <1>0, <2>4, <3>1 DEF TypeOK
    <2>8. QED
        BY <2>5, <2>6, <2>7
<1>3. CASE Wake
    BY <1>0, <1>3 DEF Wake, Finished, StatusFitsAll, StatusFits, ParentsStayCompleted, Parents
<1>4. ASSUME NEW n \in Nodes, HarvestOne(n)
      PROVE  StatusFitsAll' /\ HarvestDone' /\ ParentsStayCompleted'
    <2>1. /\ \A m \in Nodes :
                \/ status'[m] = status[m]
                \/ status'[m] = "skipped" /\ phase[m] = "none"
          /\ phase' = phase
          /\ edges' = edges
          /\ harvest' \subseteq harvest
        BY <1>0, <1>4, HarvestEffect
    <2>2. StatusFitsAll'
        BY <1>0, <2>1 DEF StatusFitsAll, StatusFits
    <2>3. ParentsStayCompleted'
        BY <1>0, <2>1 DEF ParentsStayCompleted, Parents, StatusFitsAll, StatusFits
    <2>4. QED
        BY <1>0, <2>1, <2>2, <2>3
<1>5. ASSUME NEW n \in Nodes, Acquire(n)
      PROVE  StatusFitsAll' /\ HarvestDone' /\ ParentsStayCompleted'
    BY <1>0, <1>5 DEF Acquire, StatusFitsAll, StatusFits, ParentsStayCompleted, Parents, TypeOK
<1>6. ASSUME NEW n \in Nodes, TaskSucceeds(n)
      PROVE  StatusFitsAll' /\ HarvestDone' /\ ParentsStayCompleted'
    BY <1>0, <1>6 DEF TaskSucceeds, StatusFitsAll, StatusFits, ParentsStayCompleted, Parents, TypeOK
<1>7. ASSUME NEW n \in Nodes, TaskRaises(n)
      PROVE  StatusFitsAll' /\ HarvestDone' /\ ParentsStayCompleted'
    BY <1>0, <1>7 DEF TaskRaises, RetryLater, GiveUp, StatusFitsAll, StatusFits,
                      ParentsStayCompleted, Parents, TypeOK
<1>8. ASSUME NEW n \in Nodes, CallbackRaises(n)
      PROVE  FALSE
    BY <1>0, <1>8 DEF CallbackRaises
<1>9. ASSUME NEW n \in Nodes, CallbackEnds(n) \/ BackoffEnds(n)
      PROVE  StatusFitsAll' /\ HarvestDone' /\ ParentsStayCompleted'
    BY <1>0, <1>9 DEF CallbackEnds, BackoffEnds, StatusFitsAll, StatusFits,
                      ParentsStayCompleted, Parents, TypeOK
<1>10. CASE UNCHANGED vars
    BY <1>0, <1>10 DEF vars, StatusFitsAll, StatusFits, ParentsStayCompleted, Parents
<1>11. QED
    BY <1>1, <1>2, <1>3, <1>4, <1>5, <1>6, <1>7, <1>8, <1>9, <1>10
    DEF Next, MainStep, TaskStep, Stop

LEMMA DependencyInvariant == Spec => []DependencyInv
<1>1. DependencyInv /\ [Next]_vars /\ TypeOK' => DependencyInv'
    BY DependencyStep
<1>2. QED
    BY <1>1, DependencyInit, TypeCorrect, PTL DEF Spec

\* A node whose task was created has only COMPLETED parents, for ever.
THEOREM DependenciesRespected == Spec => []ParentsStayCompleted
<1>1. DependencyInv => ParentsStayCompleted
    BY DEF DependencyInv
<1>2. QED
    BY <1>1, DependencyInvariant, PTL

\* No step changes the status of a COMPLETED, FAILED or SKIPPED node.
LEMMA TerminalStep ==
    ASSUME DependencyInv, [Next]_vars, CallbackSafe, NEW n \in Nodes, Terminal(status[n])
    PROVE  status'[n] = status[n]
<1> USE DEF DependencyInv, SafeInv, StatusFitsAll, StatusFits, TypeOK, Terminal
<1>1. CASE Scan
    BY <1>1 DEF Scan, NewlySkipped
<1>2. ASSUME NEW m \in Nodes, HarvestOne(m)
      PROVE  status'[n] = status[n]
    <2>1. \/ status'[n] = status[n]
          \/ status'[n] = "skipped" /\ phase[n] = "none"
        BY <1>2, HarvestEffect
    <2>2. phase[n] = "none" => status[n] = "skipped"
        OBVIOUS
    <2>3. QED
        BY <2>1, <2>2
<1>3. ASSUME NEW m \in Nodes, Acquire(m) \/ TaskSucceeds(m)
      PROVE  status'[n] = status[n]
    BY <1>3 DEF Acquire, TaskSucceeds
<1>4. ASSUME NEW m \in Nodes, TaskRaises(m) \/ CallbackRaises(m)
      PROVE  status'[n] = status[n]
    BY <1>4 DEF TaskRaises, CallbackRaises, RetryLater, GiveUp, CallbackSafe
<1>5. CASE ScanFinished \/ Wake \/ Stop \/ UNCHANGED vars
    BY <1>5 DEF ScanFinished, Wake, Stop, vars
<1>6. ASSUME NEW m \in Nodes, CallbackEnds(m) \/ BackoffEnds(m)
      PROVE  status'[n] = status[n]
    BY <1>6 DEF CallbackEnds, BackoffEnds
<1>7. QED
    BY <1>1, <1>2, <1>3, <1>4, <1>5, <1>6 DEF Next, MainStep, TaskStep

\* Neither a retry nor a cascade nor the ready scan revises a terminal status.
THEOREM TerminalStatusFinal == Spec => TerminalIsFinal
<1>1. DependencyInv /\ [Next]_vars =>
         [CallbackSafe => \A n \in Nodes : Terminal(status[n]) => status'[n] = status[n]]_vars
    BY TerminalStep
<1>2. QED
    BY <1>1, DependencyInvariant, PTL DEF Spec, TerminalIsFinal

(***************************************************************************)
(* Refinement.                                                             *)
(***************************************************************************)

LEMMA OutcomeOf ==
    /\ \A n \in Nodes : outcome[n] =
         IF ~ CallbackSafe THEN "open"
         ELSE CASE status[n] = "completed" -> "ok"
                [] status[n] = "failed"    -> "failed"
                [] status[n] = "skipped"   -> "skipped"
                [] OTHER                   -> "open"
    /\ outcome = [n \in Nodes |-> outcome[n]]
BY DEF outcome

\* The callback argument never changes.
LEMMA CallbackConstant ==
    ASSUME [Next]_vars
    PROVE  on_complete' = on_complete /\ edges' = edges
BY DEF Next, MainStep, ScanFinished, Scan, Wake, HarvestOne, TaskStep, Acquire,
       TaskSucceeds, TaskRaises, CallbackRaises, RetryLater, GiveUp, CallbackEnds,
       BackoffEnds, Stop, vars, graphVars, taskVars, loopVars

\* A step that leaves every status alone changes no outcome.
LEMMA SameStatus ==
    ASSUME [Next]_vars, status' = status
    PROVE  UNCHANGED <<edges, outcome>>
BY CallbackConstant DEF outcome, CallbackSafe

\* Marking a set of pending nodes SKIPPED is DependencyRun's Skip, if each has
\* a parent in the set, FAILED or SKIPPED.
LEMMA SkipStep ==
    ASSUME TypeOK, CallbackSafe, on_complete' = on_complete, edges' = edges,
           NEW S \in SUBSET Nodes,
           status' = [n \in Nodes |-> IF n \in S THEN "skipped" ELSE status[n]],
           \A n \in S : /\ status[n] = "pending"
                        /\ \E p \in Parents(n) : p \in S \/ status[p] \in {"failed", "skipped"}
    PROVE  DR!Next
<1>1. \A n \in S : outcome[n] = "open"
    BY DEF outcome
<1>2. \A n \in S : \E p \in DR!Parents(n) :
          p \in S \/ outcome[p] \in {"failed", "skipped"}
    BY DEF outcome, Parents, DR!Parents
<1>3. outcome' = [n \in Nodes |-> IF n \in S THEN "skipped" ELSE outcome[n]]
    BY DEF outcome, CallbackSafe
<1>4. DR!Skip(S)
    BY <1>1, <1>2, <1>3 DEF DR!Skip
<1>5. QED
    BY <1>4 DEF DR!Next

LEMMA RefinementStep ==
    ASSUME DependencyInv, [Next]_vars
    PROVE  [DR!Next]_<<edges, outcome>>
<1> USE DEF DependencyInv, TypeOK
<1>0. on_complete' = on_complete /\ edges' = edges
    BY CallbackConstant
<1>1. CASE ~ CallbackSafe
    BY <1>0, <1>1 DEF outcome, CallbackSafe
<1>2. CASE CallbackSafe
  <2>1. CASE Scan
    <3>1. \A n \in NewlySkipped : /\ status[n] = "pending"
                                  /\ \E p \in Parents(n) : status[p] = "failed"
        BY DEF NewlySkipped, HasFailedParent
    <3>2. NewlySkipped \in SUBSET Nodes
        BY DEF NewlySkipped
    <3>3. status' = [n \in Nodes |-> IF n \in NewlySkipped THEN "skipped" ELSE status[n]]
        BY <2>1 DEF Scan
    <3>4. QED
        BY <1>0, <1>2, <3>1, <3>2, <3>3, SkipStep
  <2>2. ASSUME NEW n \in Nodes, HarvestOne(n)
        PROVE  [DR!Next]_<<edges, outcome>>
    <3> DEFINE settled == completed \cup {n}
               C == CascadeSkip(n, settled)
               S == {m \in C : status[m] = "pending"}
    <3>1. CASE status[n] # "failed"
        <4>1. status' = status
            BY <2>2, <3>1 DEF HarvestOne
        <4>2. QED
            BY <4>1, SameStatus
    <3>2. CASE status[n] = "failed"
        <4>1. \A m \in C : phase[m] = "none" /\ status[m] \in {"pending", "skipped"}
            <5>1. \A m \in C : phase[m] = "none"
                BY <1>2, <3>2, CascadeUnstarted
            <5>2. C \subseteq Nodes
                BY DEF CascadeSkip
            <5>3. QED
                BY <1>2, <5>1, <5>2 DEF SafeInv, StatusFitsAll, StatusFits
        <4>2. S \in SUBSET Nodes
            BY DEF CascadeSkip
        <4>3. status' = [m \in Nodes |-> IF m \in S THEN "skipped" ELSE status[m]]
            <5>1. status' = [m \in Nodes |-> IF m \in C THEN "skipped" ELSE status[m]]
                BY <2>2, <3>2 DEF HarvestOne
            <5>2. QED
                BY <4>1, <5>1
        <4>4. ASSUME NEW m \in S
              PROVE  \E p \in Parents(m) : p \in S \/ status[p] \in {"failed", "skipped"}
            <5>1. PICK p \in C \cup {n} : <<p, m>> \in edges
                BY CascadeHasParent
            <5>2. p \in Parents(m)
                BY <5>1, <4>2 DEF Parents, CascadeSkip
            <5>3. p \in S \/ status[p] \in {"failed", "skipped"}
                BY <3>2, <4>1, <5>1
            <5>4. QED
                BY <5>2, <5>3
        <4>5. \A m \in S : status[m] = "pending"
            OBVIOUS
        <4> HIDE DEF S
        <4>6. QED
            BY <1>0, <1>2, <4>2, <4>3, <4>4, <4>5, SkipStep
    <3>3. QED
        BY <3>1, <3>2
  <2>3. ASSUME NEW n \in Nodes, TaskSucceeds(n)
        PROVE  [DR!Next]_<<edges, outcome>>
    <3>1. status[n] = "running" /\ \A p \in Parents(n) : status[p] = "completed"
        BY <1>2, <2>3 DEF TaskSucceeds, SafeInv, StatusFitsAll, StatusFits, ParentsStayCompleted
    <3>2. DR!Runnable(n)
        BY <1>2, <3>1 DEF DR!Runnable, DR!Parents, Parents, outcome
    <3>3. outcome' = [outcome EXCEPT ![n] = "ok"]
        BY <1>0, <1>2, <2>3 DEF TaskSucceeds, outcome, CallbackSafe
    <3>4. QED
        BY <1>0, <3>2, <3>3 DEF DR!Next, DR!Succeed
  <2>4. ASSUME NEW n \in Nodes, TaskRaises(n), GiveUp(n)
        PROVE  [DR!Next]_<<edges, outcome>>
    <3>1. status[n] = "running" /\ \A p \in Parents(n) : status[p] = "completed"
        BY <1>2, <2>4 DEF TaskRaises, SafeInv, StatusFitsAll, StatusFits, ParentsStayCompleted
    <3>2. DR!Runnable(n)
        BY <1>2, <3>1 DEF DR!Runnable, DR!Parents, Parents, outcome
    <3>3. outcome' = [outcome EXCEPT ![n] = "failed"]
        BY <1>0, <1>2, <2>4 DEF GiveUp, outcome, CallbackSafe
    <3>4. QED
        BY <1>0, <3>2, <3>3 DEF DR!Next, DR!Fail
  <2>5. ASSUME NEW n \in Nodes, Acquire(n)
        PROVE  [DR!Next]_<<edges, outcome>>
    <3>1. status[n] = "pending"
        BY <1>2, <2>5 DEF Acquire, SafeInv, StatusFitsAll, StatusFits
    <3>2. outcome' = outcome
        BY <1>0, <1>2, <2>5, <3>1 DEF Acquire, outcome, CallbackSafe
    <3>3. QED
        BY <1>0, <3>2
  <2>6. ASSUME NEW n \in Nodes, RetryLater(n) \/ CallbackEnds(n) \/ BackoffEnds(n)
        PROVE  [DR!Next]_<<edges, outcome>>
    <3>1. status' = status
        BY <2>6 DEF RetryLater, CallbackEnds, BackoffEnds
    <3>2. QED
        BY <3>1, SameStatus
  <2>7. CASE ScanFinished \/ Wake \/ Stop \/ UNCHANGED vars
    <3>1. status' = status
        BY <2>7 DEF ScanFinished, Wake, Stop, vars
    <3>2. QED
        BY <3>1, SameStatus
  <2>8. ASSUME NEW n \in Nodes, CallbackRaises(n)
        PROVE  FALSE
    BY <1>2, <2>8 DEF CallbackRaises, CallbackSafe
  <2>9. QED
    BY <2>1, <2>2, <2>3, <2>4, <2>5, <2>6, <2>7, <2>8
    DEF Next, MainStep, TaskStep, TaskRaises
<1>3. QED
    BY <1>1, <1>2

\* execute implements the abstract dependency-respecting run.
THEOREM Refinement == Spec => ImplementsDependencyRun
<1>1. Init => DR!Init
    BY DEF Init, DR!Init, outcome, Graphs
<1>2. DependencyInv /\ [Next]_vars => [DR!Next]_<<edges, outcome>>
    BY RefinementStep
<1>3. QED
    BY <1>1, <1>2, DependencyInvariant, PTL DEF Spec, ImplementsDependencyRun, DR!Spec

(***************************************************************************)
(* What execute has to show for when it returns.                            *)
(***************************************************************************)

\* A task is in in_progress until it has been harvested, and what has been
\* harvested or cascaded over is settled.
Held(n) ==
    /\ phase[n] = "none" => n \notin in_progress
    /\ phase[n] = "done" => n \in in_progress \cup completed
    /\ phase[n] \notin {"none", "done"} => n \in in_progress
    /\ n \in completed => n \notin in_progress /\ Terminal(status[n])

\* get_ready_nodes marks below a FAILED node without settling what it marks;
\* the cascade settles what it marks.
SkipExplained(n) ==
    status[n] = "skipped" =>
        /\ \E p \in Parents(n) : status[p] \in {"failed", "skipped"}
        /\ n \in completed \/ HasFailedParent(n)

\* Everything below a settled FAILED or SKIPPED node is settled and SKIPPED.
Cascaded ==
    \A p \in completed, c \in Nodes :
        status[p] \in {"failed", "skipped"} /\ <<p, c>> \in edges =>
            c \in completed /\ status[c] = "skipped"

PendingBehind ==
    \A n \in Nodes : status[n] = "pending" => \E p \in Parents(n) : status[p] = "pending"

AccountInv ==
    CallbackSafe =>
        /\ \A n \in Nodes : Held(n) /\ SkipExplained(n) /\ ResultsMatch(n)
        /\ Cascaded
        /\ main = "returned" => in_progress = {} /\ PendingBehind

\* With no task left, whatever failed has been cascaded, so that a node with a
\* FAILED or SKIPPED parent is SKIPPED.
LEMMA NothingInProgress ==
    ASSUME DependencyInv, AccountInv, CallbackSafe, in_progress = {},
           NEW p \in Nodes, NEW c \in Nodes, status[p] \in {"failed", "skipped"},
           <<p, c>> \in edges
    PROVE  c \in completed /\ status[c] = "skipped"
<1>1. \A q \in Nodes : status[q] = "failed" => q \in completed
    BY DEF DependencyInv, TypeOK, Phases, SafeInv, StatusFitsAll, StatusFits, AccountInv, Held
<1>2. p \in completed
    <2>1. CASE status[p] = "skipped" /\ HasFailedParent(p)
        <3>1. PICK q \in Nodes : <<q, p>> \in edges /\ status[q] = "failed"
            BY <2>1 DEF HasFailedParent, Parents
        <3>2. QED
            BY <1>1, <3>1 DEF AccountInv, Cascaded
    <2>2. QED
        BY <1>1, <2>1 DEF AccountInv, SkipExplained
<1>3. QED
    BY <1>2 DEF AccountInv, Cascaded

LEMMA AccountScan ==
    ASSUME DependencyInv, AccountInv, CallbackSafe, Scan
    PROVE  AccountInv'
<1>1. /\ status' = [n \in Nodes |-> IF n \in NewlySkipped THEN "skipped" ELSE status[n]]
      /\ phase' = [n \in Nodes |-> IF n \in ToStart THEN "spawned" ELSE phase[n]]
      /\ in_progress' = in_progress \cup ToStart
      /\ main' = "returned" => in_progress' = {}
      /\ completed' = completed /\ edges' = edges
      /\ okResults' = okResults /\ failResults' = failResults
    BY DEF Scan, graphVars
<1>2. /\ \A n \in NewlySkipped : status[n] = "pending" /\ HasFailedParent(n)
      /\ \A n \in ToStart : n \in ReadyNodes /\ n \notin completed
    BY DEF NewlySkipped, ToStart
<1>3. \A n \in Nodes : Terminal(status[n]) => status'[n] = status[n]
    BY <1>1, <1>2 DEF Terminal
<1>4. ASSUME NEW n \in Nodes
      PROVE  Held(n)' /\ SkipExplained(n)' /\ ResultsMatch(n)'
    <2>1. Held(n)'
        BY <1>1, <1>2, <1>3 DEF AccountInv, Held
    <2>2. SkipExplained(n)'
        <3>1. \A p \in Parents(n) : status[p] \in {"failed", "skipped"} => status'[p] = status[p]
            BY <1>3 DEF Parents, Terminal
        <3>2. Parents(n)' = Parents(n)
            BY <1>1 DEF Parents
        <3>3. CASE n \in NewlySkipped
            BY <1>2, <3>1, <3>2, <3>3 DEF SkipExplained, HasFailedParent
        <3>4. CASE n \notin NewlySkipped
            BY <1>1, <3>1, <3>2, <3>4 DEF AccountInv, SkipExplained, HasFailedParent
        <3>5. QED
            BY <3>3, <3>4
    <2>3. ResultsMatch(n)'
        <3>1. ResultsMatch(n)
            BY DEF AccountInv
        <3>2. QED
            BY <1>1, <1>2, <3>1 DEF ResultsMatch
    <2>4. QED
        BY <2>1, <2>2, <2>3
<1>5. Cascaded'
    <2>1. \A n \in completed : n \in Nodes /\ status'[n] = status[n]
        BY <1>3 DEF AccountInv, Held, DependencyInv, TypeOK
    <2>2. QED
        BY <1>1, <2>1 DEF AccountInv, Cascaded
<1>6. ASSUME main' = "returned", NEW n \in Nodes, status'[n] = "pending"
      PROVE  \E p \in Parents(n)' : status'[p] = "pending"
    <2>1. in_progress = {} /\ ToStart = {}
        BY <1>1, <1>6
    <2>2. status[n] = "pending"
        BY <1>1, <1>6
    <2>3. \A p \in Parents(n) : status[p] \notin {"failed", "skipped"}
        BY <2>1, <2>2, NothingInProgress DEF Parents
    <2>4. n \notin ReadyNodes
        BY <2>1, <2>2 DEF ToStart, AccountInv, Held, Terminal
    <2>5. PICK p \in Parents(n) : status[p] # "completed"
        BY <2>2, <2>3, <2>4 DEF ReadyNodes, HasFailedParent
    <2>6. status[p] # "running"
        BY <2>1, <2>5 DEF Parents, DependencyInv, TypeOK, Phases, SafeInv, StatusFitsAll, StatusFits,
                          AccountInv, Held
    <2>7. status[p] = "pending"
        BY <2>3, <2>5, <2>6 DEF Parents, DependencyInv, TypeOK, NodeStatus
    <2>8. p \notin NewlySkipped
        <3>1. SUFFICES ASSUME HasFailedParent(p)
                       PROVE  FALSE
            BY <1>2
        <3>2. QED
            BY <2>1, <2>7, <3>1, NothingInProgress DEF HasFailedParent, Parents
    <2>9. QED
        BY <1>1, <2>5, <2>7, <2>8 DEF Parents
<1>7. QED
    BY <1>1, <1>4, <1>5, <1>6 DEF AccountInv, PendingBehind

LEMMA AccountHarvest ==
    ASSUME DependencyInv, AccountInv, CallbackSafe, NEW n \in Nodes, HarvestOne(n)
    PROVE  AccountInv'
<1> DEFINE settled == completed \cup {n}
           skipped == IF status[n] = "failed" THEN CascadeSkip(n, settled) ELSE {}
<1>1. /\ status' = [m \in Nodes |-> IF m \in skipped THEN "skipped" ELSE status[m]]
      /\ completed' = completed \cup {n} \cup skipped
      /\ in_progress' = in_progress \ {n}
      /\ main' # "returned"
      /\ phase' = phase /\ edges' = edges
      /\ okResults' = okResults /\ failResults' = failResults
    BY DEF HarvestOne, taskVars, graphVars
<1>2. /\ phase[n] = "done" /\ status[n] \in {"completed", "failed"}
      /\ \A m \in skipped : m \in Nodes /\ phase[m] = "none" /\ m \notin settled
    <2>1. phase[n] = "done" /\ status[n] \in {"completed", "failed"}
        BY DEF HarvestOne, DependencyInv, SafeInv, HarvestDone, StatusFitsAll, StatusFits
    <2>2. QED
        BY <2>1, CascadeUnstarted DEF CascadeSkip
<1>3. \A m \in skipped : \E p \in skipped \cup {n} : <<p, m>> \in edges /\ status[n] = "failed"
    BY CascadeHasParent
<1>4. \A c \in Nodes \ settled :
          (\E p \in skipped \cup {n} : <<p, c>> \in edges) /\ status[n] = "failed" => c \in skipped
    BY CascadeIsClosed DEF CascadeClosed
<1> HIDE DEF skipped
<1>5. \A m \in Nodes : phase[m] = "none" => status[m] \in {"pending", "skipped"}
    BY DEF DependencyInv, SafeInv, StatusFitsAll, StatusFits
<1>6. \A m \in Nodes : Terminal(status[m]) => status'[m] = status[m]
    BY <1>1, <1>2, <1>5 DEF Terminal
<1>7. ASSUME NEW m \in Nodes
      PROVE  Held(m)' /\ SkipExplained(m)' /\ ResultsMatch(m)'
    <2>1. Held(m)'
        BY <1>1, <1>2, <1>6 DEF AccountInv, Held, Terminal
    <2>2. SkipExplained(m)'
        <3>1. \A p \in Parents(m) : status[p] \in {"failed", "skipped"} => status'[p] = status[p]
            BY <1>6 DEF Parents, Terminal
        <3>2. Parents(m)' = Parents(m)
            BY <1>1 DEF Parents
        <3>3. CASE m \in skipped
            BY <1>1, <1>2, <1>3, <3>2, <3>3 DEF SkipExplained, Parents
        <3>4. CASE m \notin skipped
            BY <1>1, <3>1, <3>2, <3>4 DEF AccountInv, SkipExplained, HasFailedParent
        <3>5. QED
            BY <3>3, <3>4
    <2>3. ResultsMatch(m)'
        <3>1. ResultsMatch(m)
            BY DEF AccountInv
        <3>2. QED
            BY <1>1, <1>2, <1>5, <3>1 DEF ResultsMatch
    <2>4. QED
        BY <2>1, <2>2, <2>3
<1>8. Cascaded'
    <2>1. SUFFICES ASSUME NEW p \in completed', NEW c \in Nodes,
                          status'[p] \in {"failed", "skipped"}, <<p, c>> \in edges
                   PROVE  c \in completed' /\ status'[c] = "skipped"
        BY <1>1 DEF Cascaded
    <2>2. CASE p \in completed
        <3>1. p \in Nodes /\ status'[p] = status[p]
            BY <1>6, <2>2 DEF AccountInv, Held, DependencyInv, TypeOK
        <3>2. c \in completed /\ status[c] = "skipped"
            BY <2>1, <2>2, <3>1 DEF AccountInv, Cascaded
        <3>3. QED
            BY <1>1, <1>6, <3>2 DEF Terminal
    <2>3. CASE p \in skipped \cup {n}
        <3>1. p \in Nodes /\ status[n] = "failed" /\ status[p] # "completed"
            BY <1>1, <1>2, <1>3, <1>5, <2>1, <2>3
        <3>2. phase[c] = "none"
            BY <2>1, <3>1 DEF DependencyInv, ParentsStayCompleted, Parents
        <3>3. CASE c \in completed
            BY <1>1, <1>5, <1>6, <3>2, <3>3 DEF AccountInv, Held, Terminal
        <3>4. CASE c \notin completed
            BY <1>1, <1>2, <1>4, <2>1, <2>3, <3>1, <3>2, <3>4
        <3>5. QED
            BY <3>3, <3>4
    <2>4. QED
        BY <1>1, <2>1, <2>2, <2>3
<1>9. QED
    BY <1>1, <1>7, <1>8 DEF AccountInv

\* The task of a node that is not under way takes no step, and a step of a task
\* neither skips a node nor touches what execute keeps.
LEMMA AccountTask ==
    ASSUME DependencyInv, AccountInv, CallbackSafe, [Next]_vars, NEW n \in Nodes, TaskStep(n)
    PROVE  AccountInv'
<1> USE DEF RetryLater, GiveUp, graphVars, taskVars, loopVars
<1>1. /\ completed' = completed /\ in_progress' = in_progress /\ main' = main /\ edges' = edges
      /\ phase[n] \notin {"none", "done"}
    BY DEF TaskStep, Acquire, TaskSucceeds, TaskRaises, CallbackRaises, CallbackEnds, BackoffEnds
<1>2. /\ \A m \in Nodes : m # n => /\ phase'[m] = phase[m] /\ status'[m] = status[m]
                                 /\ okResults'[m] = okResults[m]
                                 /\ failResults'[m] = failResults[m]
      /\ phase'[n] # "none"
      /\ status'[n] = "skipped" => status[n] = "skipped"
    BY DEF TaskStep, Acquire, TaskSucceeds, TaskRaises, CallbackRaises, CallbackEnds, BackoffEnds,
           DependencyInv, TypeOK
<1>3. n \in in_progress /\ main # "returned" /\ n \notin completed
    BY <1>1 DEF AccountInv, Held
<1>4. \A m \in Nodes : Terminal(status[m]) => status'[m] = status[m]
    BY TerminalStep
<1>5. ASSUME NEW m \in Nodes
      PROVE  Held(m)' /\ SkipExplained(m)'
    <2>1. Held(m)'
        BY <1>1, <1>2, <1>3, <1>4 DEF AccountInv, Held
    <2>2. /\ \A p \in Parents(m) : status[p] \in {"failed", "skipped"} => status'[p] = status[p]
          /\ Parents(m)' = Parents(m)
          /\ status'[m] = "skipped" => status[m] = "skipped"
        BY <1>1, <1>2, <1>4 DEF Parents, Terminal
    <2>3. QED
        BY <1>1, <2>1, <2>2 DEF AccountInv, SkipExplained, HasFailedParent
<1>6. ASSUME NEW m \in Nodes
      PROVE  ResultsMatch(m)'
    <2>1. ResultsMatch(m) /\ StatusFits(m)
        BY DEF AccountInv, DependencyInv, SafeInv, StatusFitsAll
    <2>2. CASE m # n
        BY <1>2, <2>1, <2>2 DEF ResultsMatch
    <2>3. CASE m = n /\ (TaskSucceeds(n) \/ Acquire(n))
        BY <2>1, <2>3 DEF ResultsMatch, StatusFits, TaskSucceeds, Acquire, DependencyInv, TypeOK
    <2>4. CASE m = n /\ TaskRaises(n)
        BY <2>1, <2>4 DEF ResultsMatch, StatusFits, TaskRaises, DependencyInv, TypeOK
    <2>5. CASE m = n /\ (CallbackEnds(n) \/ BackoffEnds(n))
        BY <2>1, <2>5 DEF ResultsMatch, CallbackEnds, BackoffEnds
    <2>6. ~ CallbackRaises(n)
        BY DEF CallbackRaises, CallbackSafe
    <2>7. QED
        BY <2>2, <2>3, <2>4, <2>5, <2>6 DEF TaskStep
<1>7. Cascaded'
    <2>1. \A m \in completed : m \in Nodes /\ status'[m] = status[m]
        BY <1>4 DEF AccountInv, Held, DependencyInv, TypeOK
    <2>2. QED
        BY <1>1, <2>1 DEF AccountInv, Cascaded
<1>8. QED
    BY <1>1, <1>3, <1>5, <1>6, <1>7 DEF AccountInv

LEMMA AccountStep == DependencyInv /\ AccountInv /\ [Next]_vars => AccountInv'
<1> SUFFICES ASSUME DependencyInv, AccountInv, [Next]_vars, CallbackSafe
             PROVE  AccountInv'
    BY CallbackConstant DEF AccountInv, CallbackSafe
<1>1. CASE ScanFinished
    <2>1. /\ main' = "returned" /\ completed = Nodes
          /\ UNCHANGED <<edges, on_complete, status, phase, okResults, failResults, completed,
                         in_progress>>
        BY <1>1 DEF ScanFinished, graphVars, taskVars
    <2>2. in_progress = {} /\ PendingBehind
        BY <2>1 DEF AccountInv, Held, Terminal, PendingBehind, DependencyInv, TypeOK
    <2>3. QED
        BY <2>1, <2>2 DEF AccountInv, Held, SkipExplained, HasFailedParent, Parents, ResultsMatch,
                          Cascaded, PendingBehind
<1>2. CASE Scan
    BY <1>2, AccountScan
<1>3. CASE Wake \/ UNCHANGED vars
    <2>1. /\ main' = "returned" => main = "returned"
          /\ UNCHANGED <<edges, on_complete, status, phase, okResults, failResults, completed,
                         in_progress>>
        BY <1>3 DEF Wake, vars, graphVars, taskVars, loopVars
    <2>2. QED
        BY <2>1 DEF AccountInv, Held, SkipExplained, HasFailedParent, Parents, ResultsMatch,
                    Cascaded, PendingBehind
<1>4. ASSUME NEW n \in Nodes, HarvestOne(n)
      PROVE  AccountInv'
    BY <1>4, AccountHarvest
<1>5. ASSUME NEW n \in Nodes, TaskStep(n)
      PROVE  AccountInv'
    BY <1>5, AccountTask
<1>6. QED
    BY <1>1, <1>2, <1>3, <1>4, <1>5 DEF Next, MainStep, Stop

\* What execute returns accounts for every node of every finite graph.
THEOREM ReturnCorrect == Spec => []ReturnAccounts
<1>1. Init => AccountInv
    BY DEF Init, AccountInv, Held, SkipExplained, ResultsMatch, Cascaded
<1>2. DependencyInv /\ AccountInv => ReturnAccounts
    <2>1. SUFFICES ASSUME DependencyInv, AccountInv, CallbackSafe, main = "returned"
                   PROVE  /\ Quiescent
                          /\ \A n \in Nodes :
                                /\ ResultsMatch(n)
                                /\ status[n] = "skipped" <=>
                                      \E p \in Parents(n) : status[p] \in {"failed", "skipped"}
                                /\ status[n] = "pending" =>
                                      \E p \in Parents(n) : status[p] = "pending"
        BY DEF ReturnAccounts
    <2>2. in_progress = {} /\ PendingBehind
        BY <2>1 DEF AccountInv
    <2>3. Quiescent
        BY <2>1, <2>2 DEF Quiescent, AccountInv, Held
    <2>4. ASSUME NEW n \in Nodes
          PROVE  status[n] = "skipped" <=>
                     \E p \in Parents(n) : status[p] \in {"failed", "skipped"}
        <3>1. \A p \in Parents(n) : status[p] \in {"failed", "skipped"} => status[n] = "skipped"
            BY <2>1, <2>2, NothingInProgress DEF Parents
        <3>2. status[n] = "skipped" => \E p \in Parents(n) : status[p] \in {"failed", "skipped"}
            BY <2>1 DEF AccountInv, SkipExplained
        <3>3. QED
            BY <3>1, <3>2
    <2>5. QED
        BY <2>1, <2>2, <2>3, <2>4 DEF AccountInv, PendingBehind
<1>3. QED
    BY <1>1, <1>2, AccountStep, DependencyInvariant, PTL DEF Spec

(***************************************************************************)
(* Termination, whatever the graph and the callback: what is left to do     *)
(* shrinks at every step, and until execute is quiescent a step can be      *)
(* taken.                                                                  *)
(***************************************************************************)

\* The steps the task of a node still takes before its next attempt, at most.
Stage(p) ==
    CASE p = "none"       -> 5
      [] p = "spawned"    -> 4
      [] p = "calling"    -> 3
      [] p = "notifyOk"   -> 2
      [] p = "notifyFail" -> 1
      [] OTHER            -> 0

\* An attempt costs four steps: call, callback, backoff, retry.
StepsLeft(n) == 4 * (MaxRetries[n] - attempt[n]) + Stage(phase[n])

Tokens      == UNION {{n} \X (1..StepsLeft(n)) : n \in Nodes}
Unharvested == {n \in Nodes : phase[n] # "done" \/ n \in in_progress}
Turn        == CASE main = "scan" -> 2 [] main = "wait" -> 1 [] OTHER -> 0

\* The steps of all tasks, three of the main coroutine for each node it has not
\* harvested (wake, harvest, scan), and where it is in its loop.
WorkLeft == Cardinality(Tokens) + 3 * Cardinality(Unharvested) + Turn

\* Some coroutine can run: its guard holds.
CanStep ==
    \/ main = "scan"
    \/ main = "wait" /\ Finished # {}
    \/ main = "harvest" /\ harvest # {}
    \/ LoopFree /\ \E n \in Nodes :
          \/ phase[n] \in {"calling", "backoff", "notifyOk", "notifyFail"}
          \/ phase[n] = "spawned" /\ Cardinality(Holders) < MaxConcurrency

NeverStalls == Quiescent \/ CanStep

LessWork    == WorkLeft \in Nat /\ WorkLeft' \in Nat /\ WorkLeft' < WorkLeft
WorkRunsOut == [][LessWork]_vars

\* No attempt beyond the policy, and a retry only when one is left; a task that
\* was created is in in_progress or was harvested; the main coroutine waits only
\* when there is something to wait for.
ProgressInv ==
    /\ \A n \in Nodes : /\ attempt[n] <= MaxRetries[n]
                        /\ (phase[n] = "backoff" => attempt[n] < MaxRetries[n])
                        /\ (phase[n] # "none" => n \in completed \cup in_progress)
    /\ \A n \in in_progress : phase[n] # "none"
    /\ harvest \subseteq Finished
    /\ (main = "wait" => in_progress # {})
    /\ (main = "harvest" <=> harvest # {})

\* Every step keeps ProgressInv.
LEMMA ProgressStep == TypeOK /\ ProgressInv /\ [Next]_vars => ProgressInv'
<1> SUFFICES ASSUME TypeOK, ProgressInv, [Next]_vars
             PROVE  ProgressInv'
    OBVIOUS
<1> USE RetriesAssumption DEF TypeOK, ProgressInv, Finished, LoopFree, taskVars, loopVars, graphVars
<1>1. CASE ScanFinished
    BY <1>1 DEF ScanFinished
<1>2. CASE Scan
    <2>1. harvest = {} /\ harvest' = {} /\ main' \in {"wait", "returned"}
        BY <1>2 DEF Scan
    <2>2. main' = "wait" => in_progress' # {}
        BY <1>2 DEF Scan
    <2>3. /\ ToStart \subseteq Nodes
          /\ in_progress' = in_progress \cup ToStart
          /\ phase' = [n \in Nodes |-> IF n \in ToStart THEN "spawned" ELSE phase[n]]
          /\ UNCHANGED <<attempt, completed>>
        BY <1>2 DEF Scan, ToStart, ReadyNodes
    <2> QED
        BY <2>1, <2>2, <2>3
<1>3. CASE Wake
    BY <1>3 DEF Wake
<1>4. ASSUME NEW m \in Nodes, HarvestOne(m)
      PROVE  ProgressInv'
    <2>1. /\ completed \cup {m} \subseteq completed'
          /\ in_progress' = in_progress \ {m}
          /\ harvest' = harvest \ {m}
          /\ main' = IF harvest' = {} THEN "scan" ELSE "harvest"
          /\ UNCHANGED <<attempt, phase>>
        BY <1>4 DEF HarvestOne
    <2> QED
        BY <2>1
<1>5. ASSUME NEW m \in Nodes, TaskStep(m)
      PROVE  ProgressInv'
    <2>1. harvest = {} /\ UNCHANGED loopVars /\ phase[m] \notin {"none", "done"}
        BY <1>5 DEF TaskStep, Acquire, TaskSucceeds, TaskRaises, CallbackRaises, RetryLater,
                    GiveUp, CallbackEnds, BackoffEnds
    <2>2. /\ attempt'[m] <= MaxRetries[m]
          /\ phase'[m] = "backoff" => attempt'[m] < MaxRetries[m]
          /\ phase'[m] # "none"
        BY <1>5 DEF TaskStep, Acquire, TaskSucceeds, TaskRaises, CallbackRaises, RetryLater,
                    GiveUp, CallbackEnds, BackoffEnds
    <2>3. \A n \in Nodes \ {m} : attempt'[n] = attempt[n] /\ phase'[n] = phase[n]
        BY <1>5 DEF TaskStep, Acquire, TaskSucceeds, TaskRaises, CallbackRaises, RetryLater,
                    GiveUp, CallbackEnds, BackoffEnds
    <2> QED
        BY <2>1, <2>2, <2>3
<1>6. CASE UNCHANGED vars
    BY <1>6 DEF vars
<1> QED
    BY <1>1, <1>2, <1>3, <1>4, <1>5, <1>6 DEF Next, MainStep, Stop

\* ProgressInv holds in every run.
LEMMA ProgressInvariant == Spec => []ProgressInv
<1>1. Init => ProgressInv
    BY RetriesAssumption DEF Init, ProgressInv, Finished
<1> QED
    BY <1>1, ProgressStep, TypeCorrect, PTL DEF Spec

\* Until execute has returned and its tasks are done, a coroutine can run.
THEOREM ExecuteNeverStalls == Spec => []NeverStalls
<1>1. TypeOK /\ ProgressInv => NeverStalls
    <2> SUFFICES ASSUME TypeOK, ProgressInv, ~ Quiescent, main # "scan", main # "harvest",
                        main = "wait" => Finished = {}
                 PROVE  LoopFree /\ \E n \in Nodes :
                           \/ phase[n] \in {"calling", "backoff", "notifyOk", "notifyFail"}
                           \/ phase[n] = "spawned" /\ Cardinality(Holders) < MaxConcurrency
        BY DEF NeverStalls, CanStep, ProgressInv
    <2>1. main \in {"wait", "returned"}
        BY DEF TypeOK
    <2>2. PICK n \in Nodes : phase[n] \notin {"none", "done"}
        BY <2>1 DEF Quiescent, ProgressInv, Finished, TypeOK
    <2>3. CASE Holders = {}
        <3>1. phase[n] = "spawned"
            BY <2>2, <2>3 DEF Holders, TypeOK, Phases
        <3>2. Cardinality(Holders) < MaxConcurrency
            BY <2>3, FS_EmptySet, ConcurrencyAssumption
        <3> QED
            BY <2>1, <3>1, <3>2 DEF LoopFree
    <2>4. CASE Holders # {}
        BY <2>1, <2>4 DEF Holders, LoopFree
    <2> QED
        BY <2>3, <2>4
<1> QED
    BY <1>1, TypeCorrect, ProgressInvariant, PTL

\* No task has less than no step left: it makes no attempt beyond its policy.
LEMMA StepsLeftNat ==
    ASSUME TypeOK, ProgressInv
    PROVE  \A n \in Nodes : StepsLeft(n) \in Nat
BY RetriesAssumption DEF TypeOK, ProgressInv, StepsLeft, Stage

\* Tokens is a finite union of intervals.
LEMMA TokensFinite ==
    ASSUME TypeOK, ProgressInv
    PROVE  IsFiniteSet(Tokens)
<1> DEFINE T(n) == {n} \X (1..StepsLeft(n))
           F    == {T(n) : n \in Nodes}
           f    == [n \in Nodes |-> T(n)]
<1>1. \A n \in Nodes : IsFiniteSet(T(n))
    <2> TAKE n \in Nodes
    <2>1. IsFiniteSet({n})
        BY FS_Singleton
    <2>2. IsFiniteSet(1..StepsLeft(n))
        BY StepsLeftNat, FS_Interval
    <2> QED
        BY <2>1, <2>2, FS_Product
<1>2. f \in Surjection(Nodes, F)
    BY DEF Surjection
<1>3. IsFiniteSet(F)
    BY <1>2, NodesAssumption, FS_Surjection
<1>4. \A S \in F : IsFiniteSet(S)
    BY <1>1
<1>5. IsFiniteSet(UNION F)
    <2> HIDE DEF F
    <2> QED
        BY <1>3, <1>4, FS_UNION
<1> QED
    BY <1>5 DEF Tokens

\* One task with fewer steps, and none with more, means fewer tokens.
LEMMA TokensShrink ==
    ASSUME TypeOK, ProgressInv, TypeOK', ProgressInv',
           \A n \in Nodes : StepsLeft(n)' <= StepsLeft(n)
    PROVE  /\ Cardinality(Tokens) \in Nat
           /\ Cardinality(Tokens') \in Nat
           /\ Cardinality(Tokens') <= Cardinality(Tokens)
           /\ (\E n \in Nodes : StepsLeft(n)' < StepsLeft(n)) =>
                  Cardinality(Tokens') < Cardinality(Tokens)
<1>1. \A n \in Nodes : StepsLeft(n) \in Nat
    BY StepsLeftNat
<1>2. \A n \in Nodes : StepsLeft(n)' \in Nat
    <2>1. TypeOK' /\ ProgressInv' => \A n \in Nodes : StepsLeft(n)' \in Nat
        BY RetriesAssumption DEF TypeOK, ProgressInv, StepsLeft, Stage
    <2> QED
        BY <2>1
<1>3. Tokens' \subseteq Tokens
    <2>1. \A n \in Nodes : 1..StepsLeft(n)' \subseteq 1..StepsLeft(n)
        BY <1>1, <1>2
    <2>2. \A n \in Nodes : {n} \X (1..StepsLeft(n)') \subseteq {n} \X (1..StepsLeft(n))
        BY <2>1
    <2> QED
        BY <2>2 DEF Tokens
<1>4. IsFiniteSet(Tokens)
    BY TokensFinite
<1>5. /\ IsFiniteSet(Tokens')
      /\ Cardinality(Tokens') <= Cardinality(Tokens)
      /\ Cardinality(Tokens) = Cardinality(Tokens') => Tokens = Tokens'
    BY <1>3, <1>4, FS_Subset
<1>6. Cardinality(Tokens) \in Nat /\ Cardinality(Tokens') \in Nat
    BY <1>4, <1>5, FS_CardinalityType
<1>7. ASSUME NEW n \in Nodes, StepsLeft(n)' < StepsLeft(n)
      PROVE  Tokens # Tokens'
    <2> DEFINE t == <<n, StepsLeft(n)>>
    <2>1. t \in {n} \X (1..StepsLeft(n))
        BY <1>1, <1>2, <1>7
    <2>2. t \in Tokens
        BY <2>1 DEF Tokens
    <2>3. \A m \in Nodes : t \notin {m} \X (1..StepsLeft(m)')
        <3> TAKE m \in Nodes
        <3>1. StepsLeft(n) \notin 1..StepsLeft(n)'
            BY <1>1, <1>2, <1>7
        <3> QED
            BY <3>1
    <2>4. t \notin Tokens'
        BY <2>3 DEF Tokens
    <2> QED
        BY <2>2, <2>4
<1> QED
    BY <1>5, <1>6, <1>7

\* A harvested node is never to be harvested again.
LEMMA UnharvestedShrinks ==
    ASSUME Unharvested' \subseteq Unharvested
    PROVE  /\ Cardinality(Unharvested) \in Nat
           /\ Cardinality(Unharvested') \in Nat
           /\ Cardinality(Unharvested') <= Cardinality(Unharvested)
           /\ Unharvested' # Unharvested => Cardinality(Unharvested') < Cardinality(Unharvested)
<1>1. IsFiniteSet(Unharvested)
    BY NodesAssumption, FS_Subset DEF Unharvested
<1>2. /\ IsFiniteSet(Unharvested')
      /\ Cardinality(Unharvested') <= Cardinality(Unharvested)
      /\ Cardinality(Unharvested) = Cardinality(Unharvested') => Unharvested = Unharvested'
    BY <1>1, FS_Subset
<1>3. Cardinality(Unharvested) \in Nat /\ Cardinality(Unharvested') \in Nat
    BY <1>1, <1>2, FS_CardinalityType
<1> QED
    BY <1>2, <1>3

\* A step of the main coroutine starts nothing over: it advances its turn, or
\* harvests a node.
LEMMA MainStepShrinks ==
    ASSUME TypeOK, ProgressInv, MainStep
    PROVE  /\ \A n \in Nodes : StepsLeft(n)' <= StepsLeft(n)
           /\ Unharvested' \subseteq Unharvested
           /\ Turn' < Turn \/ (Unharvested' # Unharvested /\ Turn' <= Turn + 2)
<1> USE RetriesAssumption DEF TypeOK, ProgressInv, StepsLeft, Unharvested, Turn
<1>1. CASE ScanFinished
    <2>1. main = "scan" /\ main' = "returned" /\ UNCHANGED <<attempt, phase, in_progress>>
        BY <1>1 DEF ScanFinished, taskVars
    <2>2. \A n \in Nodes : StepsLeft(n)' <= StepsLeft(n)
        BY <2>1 DEF Stage
    <2>3. Unharvested' \subseteq Unharvested /\ Turn' < Turn
        BY <2>1
    <2> QED
        BY <2>2, <2>3
<1>2. CASE Scan
    <2>1. /\ main = "scan" /\ main' \in {"wait", "returned"}
          /\ in_progress' = in_progress \cup ToStart
          /\ phase' = [n \in Nodes |-> IF n \in ToStart THEN "spawned" ELSE phase[n]]
          /\ attempt' = attempt
        BY <1>2 DEF Scan
    <2>2. \A n \in ToStart : n \in Nodes /\ phase[n] = "none"
        BY DEF ToStart, ReadyNodes
    <2>3. \A n \in Nodes : StepsLeft(n)' <= StepsLeft(n)
        BY <2>1, <2>2 DEF Stage
    <2>4. Unharvested' \subseteq Unharvested
        BY <2>1, <2>2
    <2>5. Turn' < Turn
        BY <2>1
    <2> QED
        BY <2>3, <2>4, <2>5
<1>3. CASE Wake
    <2>1. main = "wait" /\ main' = "harvest" /\ UNCHANGED <<attempt, phase, in_progress>>
        BY <1>3 DEF Wake, taskVars
    <2>2. \A n \in Nodes : StepsLeft(n)' <= StepsLeft(n)
        BY <2>1 DEF Stage
    <2>3. Unharvested' \subseteq Unharvested /\ Turn' < Turn
        BY <2>1
    <2> QED
        BY <2>2, <2>3
<1>4. ASSUME NEW m \in Nodes, HarvestOne(m)
      PROVE  /\ \A n \in Nodes : StepsLeft(n)' <= StepsLeft(n)
             /\ Unharvested' \subseteq Unharvested
             /\ Unharvested' # Unharvested /\ Turn' <= Turn + 2
    <2>1. /\ main = "harvest" /\ main' \in {"scan", "harvest"}
          /\ in_progress' = in_progress \ {m}
          /\ UNCHANGED <<attempt, phase>>
          /\ m \in in_progress /\ phase[m] = "done"
        BY <1>4 DEF HarvestOne, taskVars, Finished
    <2>2. \A n \in Nodes : StepsLeft(n)' <= StepsLeft(n)
        BY <2>1 DEF Stage
    <2>3. Unharvested' \subseteq Unharvested /\ m \in Unharvested /\ m \notin Unharvested'
        BY <2>1
    <2>4. Turn' <= Turn + 2
        BY <2>1
    <2> QED
        BY <2>2, <2>3, <2>4
<1> QED
    BY <1>1, <1>2, <1>3, <1>4 DEF MainStep

\* A step of a task leaves that task fewer steps.
LEMMA TaskStepShrinks ==
    ASSUME TypeOK, ProgressInv, NEW m \in Nodes, TaskStep(m)
    PROVE  /\ \A n \in Nodes : StepsLeft(n)' <= StepsLeft(n)
           /\ StepsLeft(m)' < StepsLeft(m)
           /\ Unharvested' \subseteq Unharvested
           /\ Turn' = Turn
<1> USE RetriesAssumption DEF TypeOK, ProgressInv
<1>1. UNCHANGED <<main, in_progress>> /\ phase[m] # "done"
    BY DEF TaskStep, Acquire, TaskSucceeds, TaskRaises, CallbackRaises, RetryLater,
           GiveUp, CallbackEnds, BackoffEnds, loopVars
<1>2. \A n \in Nodes \ {m} : attempt'[n] = attempt[n] /\ phase'[n] = phase[n]
    BY DEF TaskStep, Acquire, TaskSucceeds, TaskRaises, CallbackRaises, RetryLater,
           GiveUp, CallbackEnds, BackoffEnds
<1>3. StepsLeft(m)' < StepsLeft(m)
    <2>1. CASE phase[m] = "backoff"
        <3>1. phase' = [phase EXCEPT ![m] = "calling"] /\ attempt' = [attempt EXCEPT ![m] = @ + 1]
            BY <2>1 DEF TaskStep, Acquire, TaskSucceeds, TaskRaises, CallbackRaises, CallbackEnds, BackoffEnds
        <3>2. /\ phase'[m] = "calling" /\ attempt'[m] = attempt[m] + 1
              /\ attempt[m] \in Nat /\ MaxRetries[m] \in Nat
            BY <3>1
        <3> QED
            BY <2>1, <3>2 DEF StepsLeft, Stage
    <2>2. CASE phase[m] # "backoff"
        <3>1. attempt' = attempt /\ Stage(phase'[m]) < Stage(phase[m])
            BY <2>2 DEF TaskStep, Acquire, TaskSucceeds, TaskRaises, CallbackRaises, RetryLater,
                        GiveUp, CallbackEnds, BackoffEnds, Stage
        <3>2. Stage(phase[m]) \in Nat /\ Stage(phase'[m]) \in Nat
            BY DEF Stage
        <3>3. attempt[m] \in Nat /\ MaxRetries[m] \in Nat
            OBVIOUS
        <3>4. StepsLeft(m)' = 4 * (MaxRetries[m] - attempt[m]) + Stage(phase'[m])
            BY <3>1 DEF StepsLeft, Stage
        <3> QED
            BY <3>1, <3>2, <3>3, <3>4 DEF StepsLeft
    <2> QED
        BY <2>1, <2>2
<1>4. \A n \in Nodes \ {m} : StepsLeft(n)' = StepsLeft(n)
    BY <1>2 DEF StepsLeft, Stage
<1>5. \A n \in Nodes : StepsLeft(n)' <= StepsLeft(n)
    <2>1. \A n \in Nodes : StepsLeft(n) \in Int
        BY DEF StepsLeft, Stage
    <2>2. StepsLeft(m)' \in Int
        <3>1. attempt'[m] \in Nat
            BY DEF TaskStep, Acquire, TaskSucceeds, TaskRaises, CallbackRaises, RetryLater,
                   GiveUp, CallbackEnds, BackoffEnds
        <3> QED
            BY <3>1 DEF StepsLeft, Stage
    <2> QED
        BY <1>3, <1>4, <2>1, <2>2
<1>6. Unharvested' \subseteq Unharvested
    BY <1>1, <1>2 DEF Unharvested
<1>7. Turn' = Turn
    BY <1>1 DEF Turn
<1> QED
    BY <1>3, <1>5, <1>6, <1>7

\* Whatever the graph, cyclic ones included, and whatever on_complete does,
\* every step of execute or of one of its tasks leaves less to do: a call makes
\* finitely many steps.
THEOREM ExecuteRunsOut == Spec => WorkRunsOut
<1>1. TypeOK /\ ProgressInv /\ TypeOK' /\ ProgressInv' /\ [Next]_vars =>
          [LessWork]_vars
    <2> SUFFICES ASSUME TypeOK, ProgressInv, TypeOK', ProgressInv', MainStep \/ \E n \in Nodes : TaskStep(n)
                 PROVE  LessWork
        BY DEF Next, Stop
    <2>1. /\ \A n \in Nodes : StepsLeft(n)' <= StepsLeft(n)
          /\ Unharvested' \subseteq Unharvested
          /\ \/ Turn' < Turn
             \/ Unharvested' # Unharvested /\ Turn' <= Turn + 2
             \/ Turn' = Turn /\ \E n \in Nodes : StepsLeft(n)' < StepsLeft(n)
        BY MainStepShrinks, TaskStepShrinks
    <2>2. Turn \in Nat /\ Turn' \in Nat
        BY DEF Turn
    <2> QED
        BY <2>1, <2>2, TokensShrink, UnharvestedShrinks DEF WorkLeft, LessWork
<1>2. Spec => [](TypeOK /\ ProgressInv)
    BY TypeCorrect, ProgressInvariant, PTL
<1> QED
    BY <1>1, <1>2, PTL DEF Spec, WorkRunsOut

(***************************************************************************)
(* Folds.  A loop of the code is a FoldLeft of the model, and the lemmas   *)
(* here turn the function a fold is defined by into the steps of the loop: *)
(* f[k] is the state after the first k elements.  An operator cannot be a  *)
(* parameter of a lemma, so each loop below has a predicate ...Run of its  *)
(* steps and a lemma ...Steps which says that they exist, with one proof.  *)
(***************************************************************************)

\* A set of numbers has a least one.
LEMMA LeastNumber ==
    ASSUME NEW N \in SUBSET Nat, N # {}
    PROVE  \E n \in N : \A m \in N : n <= m
<1>1. PICK n \in N : \A m \in N : ~ (<<m, n>> \in OpToRel(<, Nat))
    BY NatLessThanWellFounded, WFMin, Zenon
<1>2. \A m \in N : ~ (m < n)
    BY <1>1, Zenon DEF OpToRel
<1> QED
    BY <1>2

\* Induction up to n, for a set P of numbers.
LEMMA UpTo ==
    ASSUME NEW n \in Nat, NEW P, 0 \in P, \A k \in 0..(n - 1) : k \in P => k + 1 \in P
    PROVE  \A k \in 0..n : k \in P
<1> DEFINE Bad == {k \in 0..n : k \notin P}
<1>1. SUFFICES ASSUME Bad # {}
               PROVE  FALSE
    OBVIOUS
<1>2. PICK b \in Bad : \A m \in Bad : b <= m
    <2>1. Bad \in SUBSET Nat
        OBVIOUS
    <2> HIDE DEF Bad
    <2> QED
        BY <1>1, <2>1, LeastNumber
<1>3. b - 1 \in 0..(n - 1) /\ b - 1 \notin Bad
    BY <1>2
<1> QED
    BY <1>2, <1>3

\* The greatest of some positions.
LEMMA MaxPosition ==
    ASSUME NEW n \in Nat, NEW T \in SUBSET (1..n), T # {}
    PROVE  Max(T) \in T /\ \A i \in T : i <= Max(T)
<1> DEFINE Gaps == {n - i : i \in T}
<1>1. Gaps \in SUBSET Nat /\ Gaps # {}
    <2>1. \A i \in T : n - i \in Nat
        OBVIOUS
    <2> QED
        BY <2>1
<1>2. PICK g \in Gaps : \A h \in Gaps : g <= h
    BY <1>1, LeastNumber
<1>3. PICK m \in T : g = n - m
    BY <1>2
<1>4. \A i \in T : m >= i
    <2> TAKE i \in T
    <2>1. n - m <= n - i
        BY <1>2, <1>3
    <2> QED
        BY <2>1
<1>5. Max(T) \in T /\ \A i \in T : Max(T) >= i
    BY <1>4, Zenon DEF Max
<1> QED
    BY <1>5

\* The greatest of the first k positions.
LEMMA MaxPrefix ==
    ASSUME NEW k \in Nat \ {0}
    PROVE  Max(1..k) = k /\ (1..k) \ {k} = 1..(k - 1) /\ 1..k # {} /\ 1..0 = {}
<1>1. 1..k \in SUBSET (1..k) /\ k \in 1..k
    OBVIOUS
<1>2. Max(1..k) \in 1..k /\ k <= Max(1..k)
    BY <1>1, MaxPosition
<1> QED
    BY <1>1, <1>2

\* n steps G[1] .. G[n] on values of V, from b.
Foldable(V, b, n, G) == n \in Nat /\ b \in V /\ G \in [1..n -> [V -> V]]

\* it is the function FoldLeft is defined by, given a set of positions.
IsFold(it, V, b, n, G) ==
    /\ it \in [SUBSET (1..n) -> V]
    /\ \A T \in SUBSET (1..n) : it[T] = IF T = {} THEN b ELSE G[Max(T)][it[T \ {Max(T)}]]

\* The same for a function of which it is not known that it stays in V.
Follows(it, V, b, n, G) ==
    \A T \in SUBSET (1..n) :
        IF T = {} THEN it[T] = b
        ELSE it[T \ {Max(T)}] \in V => it[T] = G[Max(T)][it[T \ {Max(T)}]]

\* The steps one after the other.
Steps(f, V, b, n, G) ==
    f \in [0..n -> V] /\ f[0] = b /\ \A k \in 1..n : f[k] = G[k][f[k - 1]]

\* The function a fold over the positions 1..n is defined by exists.
LEMMA FoldExists ==
    ASSUME NEW V, NEW b, NEW n, NEW G, Foldable(V, b, n, G)
    PROVE  \E it : IsFold(it, V, b, n, G)
<1> USE DEF Foldable, IsFold
<1> DEFINE Right(it, k) ==
              \A T \in SUBSET (1..k) :
                 it[T] = IF T = {} THEN b ELSE G[Max(T)][it[T \ {Max(T)}]]
           P == {k \in 0..n : \E it \in [SUBSET (1..k) -> V] : Right(it, k)}
<1>1. 0 \in P
    <2> DEFINE it == [T \in SUBSET (1..0) |-> b]
    <2>1. \A T \in SUBSET (1..0) : T = {}
        OBVIOUS
    <2>2. it \in [SUBSET (1..0) -> V]
        OBVIOUS
    <2>3. Right(it, 0)
        BY <2>1
    <2>4. 0 \in 0..n
        OBVIOUS
    <2> HIDE DEF it, Right
    <2>5. \E et \in [SUBSET (1..0) -> V] : Right(et, 0)
        BY <2>2, <2>3
    <2> QED
        BY <2>4, <2>5
<1>2. ASSUME NEW k \in 0..(n - 1), k \in P
      PROVE  k + 1 \in P
    <2>1. PICK it \in [SUBSET (1..k) -> V] : Right(it, k)
        BY <1>2
    <2> DEFINE ot == [T \in SUBSET (1..(k + 1)) |->
                        IF k + 1 \in T THEN G[k + 1][it[T \ {k + 1}]] ELSE it[T]]
    <2>2. ASSUME NEW T \in SUBSET (1..(k + 1)), k + 1 \in T
          PROVE  /\ T \ {k + 1} \in SUBSET (1..k) /\ Max(T) = k + 1
                 /\ ot[T] = G[k + 1][ot[T \ {k + 1}]] /\ ot[T] \in V
        <3>0. k \in Nat /\ k + 1 \in Nat
            BY <1>2
        <3>1. T \ {k + 1} \in SUBSET (1..k)
            <4>1. \A i \in T \ {k + 1} : i \in 1..k
                BY <2>2, <3>0
            <4> QED
                BY <4>1
        <3>2. Max(T) \in T /\ k + 1 <= Max(T)
            <4>1. Max(T) \in T /\ \A i \in T : i <= Max(T)
                BY <2>2, <3>0, MaxPosition, Zenon
            <4> QED
                BY <2>2, <4>1
        <3>3. Max(T) = k + 1
            <4>1. Max(T) \in 1..(k + 1)
                BY <3>2
            <4> QED
                BY <3>0, <3>2, <4>1
        <3>4. ot[T \ {k + 1}] = it[T \ {k + 1}] /\ it[T \ {k + 1}] \in V /\ k + 1 \in 1..n
            BY <1>2, <2>1, <3>1
        <3> QED
            BY <2>2, <3>1, <3>3, <3>4
    <2>3. ASSUME NEW T \in SUBSET (1..(k + 1)), k + 1 \notin T
          PROVE  /\ ot[T] \in V
                 /\ ot[T] = IF T = {} THEN b ELSE G[Max(T)][ot[T \ {Max(T)}]]
        <3>1. T \in SUBSET (1..k) /\ T \ {Max(T)} \in SUBSET (1..k)
            <4>1. \A i \in T : i \in 1..k
                BY <1>2, <2>3
            <4> QED
                BY <4>1
        <3>2. ot[T] = it[T] /\ ot[T \ {Max(T)}] = it[T \ {Max(T)}]
            BY <1>2, <2>3, <3>1
        <3> QED
            BY <2>1, <3>1, <3>2
    <2>4. ot \in [SUBSET (1..(k + 1)) -> V]
        <3>1. \A T \in SUBSET (1..(k + 1)) : ot[T] \in V
            BY <2>2, <2>3
        <3> QED
            BY <3>1
    <2>5. Right(ot, k + 1)
        <3> HIDE DEF ot
        <3> QED
            BY <2>2, <2>3
    <2>6. k + 1 \in 0..n
        BY <1>2
    <2> HIDE DEF ot, Right
    <2>7. \E et \in [SUBSET (1..(k + 1)) -> V] : Right(et, k + 1)
        BY <2>4, <2>5
    <2> QED
        BY <2>6, <2>7
<1> HIDE DEF P
<1>3. \A k \in 0..n : k \in P
    BY <1>1, <1>2, UpTo
<1>4. n \in P
    BY <1>3
<1> QED
    BY <1>4 DEF P

\* The values such a function has on the prefixes, when its steps are those of G
\* on values of V.
LEMMA FoldValues ==
    ASSUME NEW V, NEW b, NEW n, NEW G, NEW it, Foldable(V, b, n, G), Follows(it, V, b, n, G)
    PROVE  \E f : Steps(f, V, b, n, G) /\ f[n] = it[1..n]
<1> USE DEF Foldable, Steps
<1>f. it[1..0] = b /\ \A k \in 1..n : it[1..(k - 1)] \in V => it[1..k] = G[k][it[1..(k - 1)]]
    <2>1. it[1..0] = b
        <3>1. {} \in SUBSET (1..n) /\ 1..0 = {}
            OBVIOUS
        <3> QED
            BY <3>1 DEF Follows
    <2>2. ASSUME NEW k \in 1..n, it[1..(k - 1)] \in V
          PROVE  it[1..k] = G[k][it[1..(k - 1)]]
        <3>1. 1..k \in SUBSET (1..n) /\ Max(1..k) = k /\ (1..k) \ {k} = 1..(k - 1) /\ 1..k # {}
            <4>1. k \in Nat \ {0} /\ 1..k \in SUBSET (1..n)
                OBVIOUS
            <4> QED
                BY <4>1, MaxPrefix
        <3> QED
            BY <2>2, <3>1 DEF Follows
    <2> QED
        BY <2>1, <2>2
<1> DEFINE f == [k \in 0..n |-> it[1..k]]
           P == {k \in 0..n : f[k] \in V}
<1>1. 0 \in P
    BY <1>f
<1>2. ASSUME NEW k \in 0..(n - 1), k \in P
      PROVE  k + 1 \in P
    <2>1. k + 1 \in 1..n /\ (k + 1) - 1 = k /\ it[1..k] \in V /\ k + 1 \in 0..n
        BY <1>2
    <2>2. it[1..(k + 1)] = G[k + 1][it[1..k]]
        BY <1>f, <2>1
    <2>3. G[k + 1][it[1..k]] \in V
        BY <2>1
    <2> QED
        BY <2>1, <2>2, <2>3
<1> HIDE DEF P
<1>3. \A k \in 0..n : k \in P
    BY <1>1, <1>2, UpTo
<1>4. f \in [0..n -> V]
    BY <1>3 DEF P
<1>5. f[0] = b /\ f[n] = it[1..n]
    BY <1>f
<1>6. \A k \in 1..n : f[k] = G[k][f[k - 1]]
    <2> TAKE k \in 1..n
    <2>1. k - 1 \in 0..n /\ k \in 0..n
        OBVIOUS
    <2>2. it[1..(k - 1)] \in V
        BY <1>3, <2>1 DEF P
    <2> QED
        BY <1>f, <2>1, <2>2
<1> QED
    BY <1>4, <1>5, <1>6

(***************************************************************************)
(* Keep: the elements of a sequence that are in a set.                     *)
(***************************************************************************)

\* Keep goes through s once.
KeepRun(f, S, s, K) ==
    /\ f \in [0..Len(s) -> Seq(S)] /\ f[0] = <<>> /\ f[Len(s)] = Keep(s, K)
    /\ \A k \in 1..Len(s) : f[k] = IF s[k] \in K THEN Append(f[k - 1], s[k]) ELSE f[k - 1]

\* Its steps exist.
LEMMA KeepSteps ==
    ASSUME NEW S, NEW s \in Seq(S), NEW K
    PROVE  \E f : KeepRun(f, S, s, K)
<1> DEFINE n == Len(s)
           V == Seq(S)
           b == <<>>
           After(v, x) == IF x \in K THEN Append(v, x) ELSE v
           G == [k \in 1..n |-> [v \in V |-> After(v, s[k])]]
           Iter(it) == it = [T \in SUBSET DOMAIN s |->
                               IF T = {} THEN b ELSE After(it[T \ {Max(T)}], s[Max(T)])]
<1>1. Keep(s, K) = (CHOOSE it : Iter(it))[DOMAIN s]
    BY Zenon DEF Keep, FoldLeft, MapThenFoldSet
<1>2. n \in Nat /\ DOMAIN s = 1..n /\ b \in V
    BY LenProperties
<1>3. \A k \in 1..n : \A v \in V : After(v, s[k]) \in V
    BY <1>2
<1> HIDE DEF n, V, b, After
<1>4. Foldable(V, b, n, G) /\ \A k \in 1..n : \A v \in V : G[k][v] = After(v, s[k])
    BY <1>2, <1>3 DEF Foldable
<1>5. \A T \in SUBSET (1..n) : T # {} => Max(T) \in 1..n
    BY <1>2, MaxPosition
<1> HIDE DEF G
<1>6. \E it : Iter(it)
    <2>1. PICK it : IsFold(it, V, b, n, G)
        BY <1>4, FoldExists, Zenon
    <2>2. ASSUME NEW T \in SUBSET (1..n)
          PROVE  it[T] = IF T = {} THEN b ELSE After(it[T \ {Max(T)}], s[Max(T)])
        BY <1>4, <1>5, <2>1 DEF IsFold
    <2> QED
        BY <1>2, <2>1, <2>2 DEF IsFold
<1>7. PICK it : Keep(s, K) = it[DOMAIN s] /\ Iter(it)
    <2> HIDE DEF Iter
    <2> QED
        BY <1>1, <1>6
<1>8. Follows(it, V, b, n, G)
    <2>1. ASSUME NEW T \in SUBSET (1..n)
          PROVE  it[T] = IF T = {} THEN b ELSE After(it[T \ {Max(T)}], s[Max(T)])
        BY <1>2, <1>7
    <2>2. ASSUME NEW T \in SUBSET (1..n), T # {}, it[T \ {Max(T)}] \in V
          PROVE  it[T] = G[Max(T)][it[T \ {Max(T)}]]
        BY <1>4, <1>5, <2>1, <2>2
    <2> QED
        BY <2>1, <2>2 DEF Follows
<1>9. PICK f : Steps(f, V, b, n, G) /\ f[n] = it[1..n]
    <2>1. Foldable(V, b, n, G)
        BY <1>4
    <2> QED
        BY <1>8, <2>1, FoldValues
<1>10. \A k \in 1..n : f[k] = After(f[k - 1], s[k])
    <2> TAKE k \in 1..n
    <2>1. f[k - 1] \in V
        BY <1>2, <1>9 DEF Steps
    <2> QED
        BY <1>4, <1>9, <2>1 DEF Steps
<1>11. f \in [0..n -> V] /\ f[0] = b /\ f[n] = Keep(s, K)
    BY <1>2, <1>7, <1>9 DEF Steps
<1>12. KeepRun(f, S, s, K)
    BY <1>10, <1>11, Zenon DEF KeepRun, n, V, b, After
<1> QED
    BY <1>12

\* The positions of what Keep kept, in their order.
KeptAt(p, r, s, K, k) ==
    /\ p \in [1..Len(r) -> {i \in 1..k : s[i] \in K}]
    /\ \A j \in 1..Len(r) : r[j] = s[p[j]]
    /\ \A i, j \in 1..Len(r) : i < j => p[i] < p[j]
    /\ \A i \in 1..k : s[i] \in K => \E j \in 1..Len(r) : p[j] = i

\* Keep takes the positions of s that are in K, in their order.
LEMMA KeepIs ==
    ASSUME NEW S, NEW s \in Seq(S), NEW K
    PROVE  /\ Keep(s, K) \in Seq(S)
           /\ \E p : KeptAt(p, Keep(s, K), s, K, Len(s))
<1> DEFINE n == Len(s)
<1>0. PICK f : KeepRun(f, S, s, K)
    BY KeepSteps
<1>1. /\ f \in [0..n -> Seq(S)] /\ f[0] = <<>> /\ f[n] = Keep(s, K)
      /\ \A k \in 1..n : f[k] = IF s[k] \in K THEN Append(f[k - 1], s[k]) ELSE f[k - 1]
    BY <1>0, Zenon DEF KeepRun
<1>2. n \in Nat /\ s \in [1..n -> S]
    BY LenProperties
<1> HIDE DEF n
<1> DEFINE P == {k \in 0..n : \E p : KeptAt(p, f[k], s, K, k)}
<1>3. 0 \in P
    <2>1. KeptAt(<<>>, f[0], s, K, 0)
        BY <1>1, <1>2 DEF KeptAt
    <2> QED
        BY <1>2, <2>1
<1>4. ASSUME NEW k \in 0..(n - 1), k \in P
      PROVE  k + 1 \in P
    <2>1. PICK p : KeptAt(p, f[k], s, K, k)
        BY <1>4
    <2>2. k + 1 \in 1..n /\ k \in 0..n /\ k \in Nat /\ (k + 1) - 1 = k /\ f[k] \in Seq(S) /\ k + 1 \in 0..n
        BY <1>1, <1>2
    <2>3. CASE s[k + 1] \notin K
        <3>1. f[k + 1] = f[k]
            BY <1>1, <2>2, <2>3
        <3>2. KeptAt(p, f[k], s, K, k + 1)
            <4>1. {i \in 1..(k + 1) : s[i] \in K} = {i \in 1..k : s[i] \in K}
                BY <2>2, <2>3
            <4>2. \A i \in 1..(k + 1) : s[i] \in K => i \in 1..k
                BY <2>2, <2>3
            <4> QED
                BY <2>1, <4>1, <4>2 DEF KeptAt
        <3> QED
            BY <2>2, <3>1, <3>2
    <2>4. CASE s[k + 1] \in K
        <3> DEFINE m == Len(f[k])
                   q == [j \in 1..(m + 1) |-> IF j = m + 1 THEN k + 1 ELSE p[j]]
        <3>1. f[k + 1] = Append(f[k], s[k + 1]) /\ m \in Nat /\ s[k + 1] \in S
            BY <1>1, <1>2, <2>2, <2>4, LenProperties
        <3>2. /\ Len(f[k + 1]) = m + 1 /\ f[k + 1][m + 1] = s[k + 1]
              /\ \A j \in 1..m : f[k + 1][j] = f[k][j]
            BY <2>2, <3>1, AppendProperties
        <3>3. /\ p \in [1..m -> {i \in 1..k : s[i] \in K}]
              /\ \A j \in 1..m : f[k][j] = s[p[j]]
              /\ \A i, j \in 1..m : i < j => p[i] < p[j]
              /\ \A i \in 1..k : s[i] \in K => \E j \in 1..m : p[j] = i
            BY <2>1 DEF KeptAt
        <3> HIDE DEF m
        <3>4. \A j \in 1..m : j \in 1..(m + 1) /\ j # m + 1 /\ q[j] = p[j] /\ p[j] \in 1..k
            BY <3>1, <3>3
        <3>5. q[m + 1] = k + 1 /\ m + 1 \in 1..(m + 1) /\ \A j \in 1..(m + 1) : j # m + 1 => j \in 1..m
            BY <3>1
        <3> HIDE DEF q
        <3>6. q \in [1..(m + 1) -> {i \in 1..(k + 1) : s[i] \in K}]
            <4>1. ASSUME NEW j \in 1..(m + 1)
                  PROVE  q[j] \in {i \in 1..(k + 1) : s[i] \in K}
                <5>1. CASE j = m + 1
                    BY <2>2, <2>4, <3>5, <5>1
                <5>2. CASE j # m + 1
                    BY <2>2, <3>3, <3>4, <3>5, <5>2
                <5> QED
                    BY <5>1, <5>2
            <4> QED
                BY <4>1 DEF q
        <3>7. \A j \in 1..(m + 1) : f[k + 1][j] = s[q[j]]
            BY <3>2, <3>3, <3>4, <3>5
        <3>8. \A i, j \in 1..(m + 1) : i < j => q[i] < q[j]
            <4> SUFFICES ASSUME NEW i \in 1..(m + 1), NEW j \in 1..(m + 1), i < j
                         PROVE  q[i] < q[j]
                OBVIOUS
            <4>1. i \in 1..m /\ q[i] = p[i] /\ p[i] \in 1..k
                BY <3>1, <3>4
            <4>2. CASE j = m + 1
                BY <2>2, <3>5, <4>1, <4>2
            <4>3. CASE j # m + 1
                BY <3>3, <3>4, <3>5, <4>1, <4>3
            <4> QED
                BY <4>2, <4>3
        <3>9. \A i \in 1..(k + 1) : s[i] \in K => \E j \in 1..(m + 1) : q[j] = i
            <4> SUFFICES ASSUME NEW i \in 1..(k + 1), s[i] \in K
                         PROVE  \E j \in 1..(m + 1) : q[j] = i
                OBVIOUS
            <4>1. CASE i = k + 1
                BY <3>5, <4>1
            <4>2. CASE i # k + 1
                <5>1. i \in 1..k
                    BY <2>2, <4>2
                <5>2. PICK j \in 1..m : p[j] = i
                    BY <3>3, <5>1
                <5> QED
                    BY <3>4, <5>2
            <4> QED
                BY <4>1, <4>2
        <3>10. KeptAt(q, f[k + 1], s, K, k + 1)
            BY <3>2, <3>6, <3>7, <3>8, <3>9 DEF KeptAt
        <3> QED
            BY <2>2, <3>10
    <2> QED
        BY <2>3, <2>4
<1> HIDE DEF P
<1>5. n \in P
    <2>1. \A k \in 0..n : k \in P
        BY <1>2, <1>3, <1>4, UpTo
    <2> QED
        BY <1>2, <2>1
<1>6. \E p : KeptAt(p, f[n], s, K, n)
    BY <1>5 DEF P
<1> QED
    BY <1>1, <1>2, <1>6 DEF n

\* What the set of the elements of a sequence has.
LEMMA SeqSet ==
    ASSUME NEW S, NEW s \in Seq(S)
    PROVE  /\ Len(s) \in Nat /\ DOMAIN s = 1..Len(s)
           /\ ToSet(s) \subseteq S /\ s \in Seq(ToSet(s)) /\ IsFiniteSet(ToSet(s))
           /\ \A x : x \in ToSet(s) <=> \E i \in 1..Len(s) : s[i] = x
           /\ IsInjective(s) => Cardinality(ToSet(s)) = Len(s)
<1> DEFINE n == Len(s)
<1>1. n \in Nat /\ DOMAIN s = 1..n /\ s \in [1..n -> S]
    BY LenProperties
<1>2. \A x : x \in ToSet(s) <=> \E i \in 1..n : s[i] = x
    BY <1>1 DEF ToSet
<1>3. s \in Surjection(1..n, ToSet(s))
    <2> HIDE DEF n
    <2> QED
        BY <1>1, <1>2 DEF Surjection
<1>4. IsFiniteSet(1..n) /\ Cardinality(1..n) = n
    BY <1>1, FS_Interval
<1>5. IsFiniteSet(ToSet(s)) /\ (s \in Injection(1..n, ToSet(s)) => Cardinality(ToSet(s)) = n)
    BY <1>3, <1>4, FS_Surjection
<1>6. IsInjective(s) => s \in Injection(1..n, ToSet(s))
    <2> HIDE DEF n
    <2>1. s \in [1..n -> ToSet(s)]
        BY <1>1, <1>2
    <2> QED
        BY <1>1, <2>1 DEF IsInjective, Injection
<1>7. s \in Seq(ToSet(s))
    BY <1>1, <1>2
<1>8. ToSet(s) \subseteq S
    BY <1>1, <1>2
<1> QED
    BY <1>1, <1>2, <1>5, <1>6, <1>7, <1>8

\* Keep has the elements of s that are in K.
LEMMA KeepSet ==
    ASSUME NEW S, NEW s \in Seq(S), NEW K
    PROVE  /\ Keep(s, K) \in Seq(S) /\ ToSet(Keep(s, K)) = ToSet(s) \cap K
           /\ IsInjective(s) => IsInjective(Keep(s, K))
<1> DEFINE r == Keep(s, K)
<1>1. r \in Seq(S) /\ \E p : KeptAt(p, r, s, K, Len(s))
    BY KeepIs
<1>2. PICK p : KeptAt(p, r, s, K, Len(s))
    BY <1>1
<1>3. /\ Len(r) \in Nat /\ DOMAIN r = 1..Len(r)
      /\ \A x : x \in ToSet(r) <=> \E i \in 1..Len(r) : r[i] = x
    <2> HIDE DEF r
    <2> QED
        BY <1>1, SeqSet
<1>4. /\ Len(s) \in Nat /\ DOMAIN s = 1..Len(s)
      /\ \A x : x \in ToSet(s) <=> \E i \in 1..Len(s) : s[i] = x
    BY SeqSet
<1> HIDE DEF r
<1>5. ToSet(r) = ToSet(s) \cap K
    <2>1. ASSUME NEW x \in ToSet(r)
          PROVE  x \in ToSet(s) \cap K
        <3>1. PICK j \in 1..Len(r) : r[j] = x
            BY <1>3, <2>1
        <3>2. p[j] \in 1..Len(s) /\ s[p[j]] \in K /\ s[p[j]] = x
            BY <1>2, <3>1 DEF KeptAt
        <3> QED
            BY <1>4, <3>2
    <2>2. ASSUME NEW x \in ToSet(s) \cap K
          PROVE  x \in ToSet(r)
        <3>1. PICK i \in 1..Len(s) : s[i] = x
            BY <1>4, <2>2
        <3>2. PICK j \in 1..Len(r) : p[j] = i
            BY <1>2, <2>2, <3>1 DEF KeptAt
        <3>3. r[j] = x
            BY <1>2, <3>1, <3>2 DEF KeptAt
        <3> QED
            BY <1>3, <3>3
    <2> QED
        BY <2>1, <2>2
<1>6. ASSUME IsInjective(s)
      PROVE  IsInjective(r)
    <2>1. SUFFICES ASSUME NEW i \in 1..Len(r), NEW j \in 1..Len(r), r[i] = r[j]
                   PROVE  i = j
        BY <1>3 DEF IsInjective
    <2>2. p[i] \in 1..Len(s) /\ p[j] \in 1..Len(s) /\ s[p[i]] = s[p[j]]
        BY <1>2, <2>1 DEF KeptAt
    <2>3. p[i] = p[j]
        BY <1>4, <1>6, <2>2 DEF IsInjective
    <2>4. ~ (i < j) /\ ~ (j < i)
        BY <1>2, <2>2, <2>3 DEF KeptAt
    <2> QED
        BY <1>3, <2>4
<1> QED
    BY <1>1, <1>5, <1>6 DEF r

\* How often s has an element of Q.
Count(s, Q) == Cardinality({i \in 1..Len(s) : s[i] \in Q})

\* Keep has an element of K as often as s has it.
LEMMA KeepCount ==
    ASSUME NEW S, NEW s \in Seq(S), NEW K, NEW Q \in SUBSET K
    PROVE  Count(Keep(s, K), Q) = Count(s, Q)
<1> DEFINE r == Keep(s, K)
           A == {j \in 1..Len(r) : r[j] \in Q}
           B == {i \in 1..Len(s) : s[i] \in Q}
<1>1. r \in Seq(S) /\ \E p : KeptAt(p, r, s, K, Len(s))
    BY KeepIs
<1>2. PICK p : KeptAt(p, r, s, K, Len(s))
    BY <1>1
<1>3. Len(r) \in Nat
    <2> HIDE DEF r
    <2> QED
        BY <1>1, SeqSet
<1> HIDE DEF r
<1> DEFINE h == [j \in A |-> p[j]]
<1>4. h \in [A -> B]
    BY <1>2 DEF KeptAt
<1>5. ASSUME NEW i \in A, NEW j \in A, h[i] = h[j]
      PROVE  i = j
    <2>1. p[i] = p[j] /\ i \in 1..Len(r) /\ j \in 1..Len(r) /\ p[i] \in 1..Len(s)
        BY <1>2, <1>5 DEF KeptAt
    <2>2. ~ (i < j) /\ ~ (j < i)
        BY <1>2, <2>1 DEF KeptAt
    <2> QED
        BY <1>3, <2>1, <2>2
<1>6. ASSUME NEW i \in B
      PROVE  \E j \in A : h[j] = i
    <2>1. PICK j \in 1..Len(r) : p[j] = i
        BY <1>2 DEF KeptAt
    <2>2. r[j] = s[i]
        BY <1>2, <2>1 DEF KeptAt
    <2> QED
        BY <2>1, <2>2
<1>7. IsFiniteSet(A)
    <2>1. IsFiniteSet(1..Len(r)) /\ A \in SUBSET (1..Len(r))
        BY <1>3, FS_Interval
    <2> QED
        BY <2>1, FS_Subset
<1> HIDE DEF A, B, h
<1>8. h \in Bijection(A, B)
    BY <1>4, <1>5, <1>6 DEF Bijection, Injection, Surjection, IsInjective
<1>9. ExistsBijection(A, B)
    BY <1>8 DEF ExistsBijection
<1>10. Cardinality(A) = Cardinality(B)
    BY <1>7, <1>9, FS_Bijection
<1> QED
    BY <1>10 DEF A, B, r, Count

(***************************************************************************)
(* Well-formed graphs.                                                     *)
(***************************************************************************)

\* What the class keeps: nodes are distinct, an edge joins two different ones.
GraphsOn(S) ==
    {g \in [nodes : Seq(S), edges : Seq(S \X S)] :
        /\ IsInjective(g.nodes)
        /\ \A e \in EdgesOf(g) : e[1] \in NodesOf(g) /\ e[2] \in NodesOf(g) /\ e[1] # e[2]}

\* The types of the fields of a well-formed graph.
LEMMA GraphFacts ==
    ASSUME NEW S, NEW g \in GraphsOn(S)
    PROVE  /\ NodesOf(g) \subseteq S /\ IsFiniteSet(NodesOf(g)) /\ Cardinality(NodesOf(g)) = Len(g.nodes)
           /\ g.nodes \in Seq(NodesOf(g)) /\ Len(g.nodes) \in Nat /\ DOMAIN g.nodes = 1..Len(g.nodes)
           /\ IsInjective(g.nodes)
           /\ Len(g.edges) \in Nat /\ DOMAIN g.edges = 1..Len(g.edges)
           /\ g.edges \in Seq(NodesOf(g) \X NodesOf(g))
           /\ \A i \in 1..Len(g.edges) : g.edges[i] \in EdgesOf(g)
           /\ \A e \in EdgesOf(g) : /\ e \in NodesOf(g) \X NodesOf(g) /\ e[1] # e[2]
                                    /\ \E i \in 1..Len(g.edges) : g.edges[i] = e
<1>1. g.nodes \in Seq(S) /\ g.edges \in Seq(S \X S) /\ IsInjective(g.nodes)
    BY DEF GraphsOn
<1>2. \A e \in EdgesOf(g) : e[1] \in NodesOf(g) /\ e[2] \in NodesOf(g) /\ e[1] # e[2]
    BY DEF GraphsOn
<1>3. /\ Len(g.edges) \in Nat /\ DOMAIN g.edges = 1..Len(g.edges)
      /\ EdgesOf(g) \subseteq S \X S /\ g.edges \in Seq(EdgesOf(g))
      /\ \A x : x \in EdgesOf(g) <=> \E i \in 1..Len(g.edges) : g.edges[i] = x
    BY <1>1, SeqSet DEF EdgesOf
<1>4. /\ NodesOf(g) \subseteq S /\ IsFiniteSet(NodesOf(g)) /\ Cardinality(NodesOf(g)) = Len(g.nodes)
      /\ g.nodes \in Seq(NodesOf(g)) /\ Len(g.nodes) \in Nat /\ DOMAIN g.nodes = 1..Len(g.nodes)
    BY <1>1, SeqSet DEF NodesOf
<1>5. \A e \in EdgesOf(g) : e \in NodesOf(g) \X NodesOf(g)
    BY <1>2, <1>3
<1>6. g.edges \in Seq(NodesOf(g) \X NodesOf(g))
    BY <1>3, <1>5, SeqMonotonic
<1> QED
    BY <1>1, <1>2, <1>3, <1>4, <1>5, <1>6

(***************************************************************************)
(* _adj, _reverse_adj and the degrees.                                     *)
(***************************************************************************)

\* _adj has each child of m as often as there is an edge.
LEMMA AdjIs ==
    ASSUME NEW S, NEW g \in GraphsOn(S), NEW m \in NodesOf(g)
    PROVE  /\ Adj(g, m) \in Seq(NodesOf(g))
           /\ \A c : c \in ToSet(Adj(g, m)) <=> <<m, c>> \in EdgesOf(g)
           /\ \A c : Cardinality({i \in 1..Len(Adj(g, m)) : Adj(g, m)[i] = c})
                       = Cardinality(EdgesBetween(g, {m}, c))
<1> DEFINE N == NodesOf(g)
           K == {e \in EdgesOf(g) : e[1] = m}
           r == Keep(g.edges, K)
           a == Adj(g, m)
<1>1. /\ g.edges \in Seq(N \X N) /\ DOMAIN g.edges = 1..Len(g.edges)
      /\ \A i \in 1..Len(g.edges) : g.edges[i] \in EdgesOf(g)
      /\ \A e \in EdgesOf(g) : e \in N \X N
    BY GraphFacts
<1>2. a = [i \in DOMAIN r |-> r[i][2]]
    BY DEF Adj, Targets
<1>3. r \in Seq(N \X N) /\ ToSet(r) = EdgesOf(g) \cap K
    <2> HIDE DEF N, K
    <2> QED
        BY <1>1, KeepSet DEF EdgesOf
<1>4. /\ Len(r) \in Nat /\ DOMAIN r = 1..Len(r) /\ r \in [1..Len(r) -> N \X N]
      /\ \A e : e \in ToSet(r) <=> \E i \in 1..Len(r) : r[i] = e
    <2> HIDE DEF r, N
    <2> QED
        BY <1>3, SeqSet, LenProperties
<1> HIDE DEF r, a
<1>5. a \in Seq(N) /\ Len(a) = Len(r) /\ \A i \in 1..Len(r) : a[i] = r[i][2]
    BY <1>2, <1>4
<1>6. ASSUME NEW c
      PROVE  c \in ToSet(a) <=> <<m, c>> \in EdgesOf(g)
    <2>1. c \in ToSet(a) <=> \E i \in 1..Len(a) : a[i] = c
        <3> HIDE DEF N
        <3> QED
            BY <1>5, SeqSet
    <2>2. ASSUME NEW i \in 1..Len(a), a[i] = c
          PROVE  <<m, c>> \in EdgesOf(g)
        <3>1. r[i] \in EdgesOf(g) \cap K /\ r[i][2] = c /\ r[i] \in N \X N
            BY <1>3, <1>4, <1>5, <2>2
        <3>2. r[i] = <<m, c>>
            BY <3>1
        <3> QED
            BY <3>1, <3>2
    <2>3. ASSUME <<m, c>> \in EdgesOf(g)
          PROVE  \E i \in 1..Len(a) : a[i] = c
        <3>1. <<m, c>> \in EdgesOf(g) \cap K
            BY <2>3
        <3>2. PICK i \in 1..Len(r) : r[i] = <<m, c>>
            BY <1>3, <1>4, <3>1
        <3> QED
            BY <1>5, <3>2
    <2> QED
        BY <2>1, <2>2, <2>3
<1>7. ASSUME NEW c
      PROVE  Cardinality({i \in 1..Len(a) : a[i] = c}) = Cardinality(EdgesBetween(g, {m}, c))
    <2> DEFINE Q == {e \in K : e[2] = c}
    <2>1. Count(r, Q) = Count(g.edges, Q)
        <3> DEFINE E == N \X N
        <3>1. Q \in SUBSET K
            OBVIOUS
        <3>2. g.edges \in Seq(E)
            BY <1>1
        <3> HIDE DEF Q, K, N, E
        <3> QED
            BY <3>1, <3>2, KeepCount DEF r
    <2>2. {j \in 1..Len(r) : r[j] \in Q} = {i \in 1..Len(a) : a[i] = c}
        <3>1. \A j \in 1..Len(r) : r[j] \in K
            BY <1>3, <1>4
        <3> QED
            BY <1>5, <3>1
    <2>3. {i \in 1..Len(g.edges) : g.edges[i] \in Q} = EdgesBetween(g, {m}, c)
        BY <1>1 DEF EdgesBetween
    <2> QED
        BY <2>1, <2>2, <2>3 DEF Count
<1> QED
    BY <1>5, <1>6, <1>7 DEF a

\* _reverse_adj has the parents of m.
LEMMA ReverseAdjIs ==
    ASSUME NEW S, NEW g \in GraphsOn(S), NEW m \in NodesOf(g)
    PROVE  /\ ReverseAdj(g, m) \in Seq(NodesOf(g))
           /\ \A p : p \in ToSet(ReverseAdj(g, m)) <=> <<p, m>> \in EdgesOf(g)
<1> DEFINE N == NodesOf(g)
           K == {e \in EdgesOf(g) : e[2] = m}
           r == Keep(g.edges, K)
           a == ReverseAdj(g, m)
<1>1. g.edges \in Seq(N \X N) /\ \A e \in EdgesOf(g) : e \in N \X N
    BY GraphFacts
<1>2. a = [i \in DOMAIN r |-> r[i][1]]
    BY DEF ReverseAdj, Sources
<1>3. r \in Seq(N \X N) /\ ToSet(r) = EdgesOf(g) \cap K
    <2> HIDE DEF N, K
    <2> QED
        BY <1>1, KeepSet DEF EdgesOf
<1>4. /\ Len(r) \in Nat /\ DOMAIN r = 1..Len(r) /\ r \in [1..Len(r) -> N \X N]
      /\ \A e : e \in ToSet(r) <=> \E i \in 1..Len(r) : r[i] = e
    <2> HIDE DEF r, N
    <2> QED
        BY <1>3, SeqSet, LenProperties
<1> HIDE DEF r, a
<1>5. a \in Seq(N) /\ Len(a) = Len(r) /\ \A i \in 1..Len(r) : a[i] = r[i][1]
    BY <1>2, <1>4
<1>6. ASSUME NEW p
      PROVE  p \in ToSet(a) <=> <<p, m>> \in EdgesOf(g)
    <2>1. p \in ToSet(a) <=> \E i \in 1..Len(a) : a[i] = p
        <3> HIDE DEF N
        <3> QED
            BY <1>5, SeqSet
    <2>2. ASSUME NEW i \in 1..Len(a), a[i] = p
          PROVE  <<p, m>> \in EdgesOf(g)
        <3>1. r[i] \in EdgesOf(g) \cap K /\ r[i][1] = p /\ r[i] \in N \X N
            BY <1>3, <1>4, <1>5, <2>2
        <3>2. r[i] = <<p, m>>
            BY <3>1
        <3> QED
            BY <3>1, <3>2
    <2>3. ASSUME <<p, m>> \in EdgesOf(g)
          PROVE  \E i \in 1..Len(a) : a[i] = p
        <3>1. <<p, m>> \in EdgesOf(g) \cap K
            BY <2>3
        <3>2. PICK i \in 1..Len(r) : r[i] = <<p, m>>
            BY <1>3, <1>4, <3>1
        <3> QED
            BY <1>5, <3>2
    <2> QED
        BY <2>1, <2>2, <2>3
<1> QED
    BY <1>5, <1>6 DEF a

\* What is counted in a degree.
LEMMA EdgeCount ==
    ASSUME NEW S, NEW g \in GraphsOn(S), NEW A, NEW c
    PROVE  /\ IsFiniteSet(EdgesBetween(g, A, c)) /\ Cardinality(EdgesBetween(g, A, c)) \in Nat
           /\ Cardinality(EdgesBetween(g, A, c)) = 0 <=> \A p \in A : <<p, c>> \notin EdgesOf(g)
<1> DEFINE B == EdgesBetween(g, A, c)
<1>1. /\ Len(g.edges) \in Nat /\ DOMAIN g.edges = 1..Len(g.edges)
      /\ \A i \in 1..Len(g.edges) : g.edges[i] \in EdgesOf(g)
      /\ \A e \in EdgesOf(g) : /\ e \in NodesOf(g) \X NodesOf(g)
                               /\ \E i \in 1..Len(g.edges) : g.edges[i] = e
    BY GraphFacts
<1>2. IsFiniteSet(B)
    <2>1. IsFiniteSet(1..Len(g.edges)) /\ B \in SUBSET (1..Len(g.edges))
        BY <1>1, FS_Interval DEF EdgesBetween
    <2> QED
        BY <2>1, FS_Subset
<1>3. B = {} <=> \A p \in A : <<p, c>> \notin EdgesOf(g)
    <2>1. ASSUME NEW p \in A, <<p, c>> \in EdgesOf(g)
          PROVE  B # {}
        <3>1. PICK i \in 1..Len(g.edges) : g.edges[i] = <<p, c>>
            BY <1>1, <2>1
        <3>2. i \in B
            BY <1>1, <3>1 DEF EdgesBetween
        <3> QED
            BY <3>2
    <2>2. ASSUME NEW i \in B
          PROVE  \E p \in A : <<p, c>> \in EdgesOf(g)
        <3>1. g.edges[i] \in EdgesOf(g) /\ g.edges[i][1] \in A /\ g.edges[i][2] = c
            BY <1>1, <2>2 DEF EdgesBetween
        <3>2. g.edges[i] = <<g.edges[i][1], c>>
            BY <1>1, <3>1
        <3> QED
            BY <3>1, <3>2
    <2> QED
        BY <2>1, <2>2
<1> QED
    BY <1>2, <1>3, FS_EmptySet, FS_CardinalityType

\* The edges from two disjoint sets add up.
LEMMA EdgeSplit ==
    ASSUME NEW S, NEW g \in GraphsOn(S), NEW A, NEW B, A \cap B = {}, NEW c
    PROVE  Cardinality(EdgesBetween(g, A \cup B, c))
             = Cardinality(EdgesBetween(g, A, c)) + Cardinality(EdgesBetween(g, B, c))
<1> DEFINE EA == EdgesBetween(g, A, c)
           EB == EdgesBetween(g, B, c)
<1>1. IsFiniteSet(EA) /\ IsFiniteSet(EB) /\ Cardinality(EA) \in Nat /\ Cardinality(EB) \in Nat
    BY EdgeCount
<1>2. EdgesBetween(g, A \cup B, c) = EA \cup EB /\ EA \cap EB = {}
    BY DEF EdgesBetween
<1> HIDE DEF EA, EB
<1>3. Cardinality(EA \cup EB) = Cardinality(EA) + Cardinality(EB) - Cardinality(EA \cap EB)
    BY <1>1, FS_Union
<1>4. Cardinality(EA \cap EB) = 0
    BY <1>2, FS_EmptySet
<1>5. Cardinality(EA \cup EB) = Cardinality(EA) + Cardinality(EB)
    BY <1>1, <1>3, <1>4
<1> QED
    BY <1>2, <1>5 DEF EA, EB

(***************************************************************************)
(* validate: the states of its loop.                                       *)
(***************************************************************************)

\* What the loop's variables hold.
LoopStates(g) == [queue : Seq(NodesOf(g)), order : Seq(NodesOf(g)), degree : [NodesOf(g) -> Int]]

\* Lowering a child, written out.
LEMMA LowerType ==
    ASSUME NEW g, NEW v \in LoopStates(g), NEW c \in NodesOf(g)
    PROVE  /\ Lower(v, c) \in LoopStates(g)
           /\ Lower(v, c) = [queue  |-> IF v.degree[c] = 1 THEN Append(v.queue, c) ELSE v.queue,
                            order  |-> v.order,
                            degree |-> [v.degree EXCEPT ![c] = v.degree[c] - 1]]
<1>1. v.queue \in Seq(NodesOf(g)) /\ Append(v.queue, c) \in Seq(NodesOf(g))
    BY AppendProperties DEF LoopStates
<1>2. v.degree \in [NodesOf(g) -> Int] /\ v.order \in Seq(NodesOf(g))
    BY DEF LoopStates
<1> DEFINE d == [v.degree EXCEPT ![c] = v.degree[c] - 1]
           q == IF v.degree[c] = 1 THEN Append(v.queue, c) ELSE v.queue
<1>3. Lower(v, c) = [v EXCEPT !.degree = d, !.queue = q]
    BY DEF Lower
<1>4. d \in [NodesOf(g) -> Int] /\ q \in Seq(NodesOf(g))
    BY <1>1, <1>2
<1>5. Lower(v, c) = [queue |-> q, order |-> v.order, degree |-> d]
    <2>1. v = [queue |-> v.queue, order |-> v.order, degree |-> v.degree]
        BY DEF LoopStates
    <2> HIDE DEF d, q
    <2> QED
        BY <1>3, <2>1
<1>6. Lower(v, c) \in LoopStates(g)
    <2> HIDE DEF d, q
    <2> QED
        BY <1>2, <1>4, <1>5 DEF LoopStates
<1> QED
    BY <1>5, <1>6

\* The children of a visited node are lowered one after the other.
LowerRun(f, g, t, a) ==
    /\ f \in [0..Len(a) -> LoopStates(g)] /\ f[0] = t /\ f[Len(a)] = FoldLeft(Lower, t, a)
    /\ \A k \in 1..Len(a) : f[k] = Lower(f[k - 1], a[k])

\* Its steps exist.
LEMMA LowerSteps ==
    ASSUME NEW g, NEW t \in LoopStates(g), NEW a \in Seq(NodesOf(g))
    PROVE  \E f : LowerRun(f, g, t, a)
<1> DEFINE n == Len(a)
           V == LoopStates(g)
           b == t
           After(v, x) == Lower(v, x)
           G == [k \in 1..n |-> [v \in V |-> After(v, a[k])]]
           Iter(it) == it = [T \in SUBSET DOMAIN a |->
                               IF T = {} THEN b ELSE After(it[T \ {Max(T)}], a[Max(T)])]
<1>1. FoldLeft(Lower, t, a) = (CHOOSE it : Iter(it))[DOMAIN a]
    BY Zenon DEF FoldLeft, FoldLeft, MapThenFoldSet
<1>2. n \in Nat /\ DOMAIN a = 1..n /\ b \in V
    BY LenProperties
<1>3. \A k \in 1..n : \A v \in V : After(v, a[k]) \in V
    <2>1. \A k \in 1..n : a[k] \in NodesOf(g)
        BY <1>2
    <2> QED
        BY <2>1, LowerType
<1> HIDE DEF n, V, b, After
<1>4. Foldable(V, b, n, G) /\ \A k \in 1..n : \A v \in V : G[k][v] = After(v, a[k])
    BY <1>2, <1>3 DEF Foldable
<1>5. \A T \in SUBSET (1..n) : T # {} => Max(T) \in 1..n
    BY <1>2, MaxPosition
<1> HIDE DEF G
<1>6. \E it : Iter(it)
    <2>1. PICK it : IsFold(it, V, b, n, G)
        BY <1>4, FoldExists, Zenon
    <2>2. ASSUME NEW T \in SUBSET (1..n)
          PROVE  it[T] = IF T = {} THEN b ELSE After(it[T \ {Max(T)}], a[Max(T)])
        BY <1>4, <1>5, <2>1 DEF IsFold
    <2> QED
        BY <1>2, <2>1, <2>2 DEF IsFold
<1>7. PICK it : FoldLeft(Lower, t, a) = it[DOMAIN a] /\ Iter(it)
    <2> HIDE DEF Iter
    <2> QED
        BY <1>1, <1>6
<1>8. Follows(it, V, b, n, G)
    <2>1. ASSUME NEW T \in SUBSET (1..n)
          PROVE  it[T] = IF T = {} THEN b ELSE After(it[T \ {Max(T)}], a[Max(T)])
        BY <1>2, <1>7
    <2>2. ASSUME NEW T \in SUBSET (1..n), T # {}, it[T \ {Max(T)}] \in V
          PROVE  it[T] = G[Max(T)][it[T \ {Max(T)}]]
        BY <1>4, <1>5, <2>1, <2>2
    <2> QED
        BY <2>1, <2>2 DEF Follows
<1>9. PICK f : Steps(f, V, b, n, G) /\ f[n] = it[1..n]
    <2>1. Foldable(V, b, n, G)
        BY <1>4
    <2> QED
        BY <1>8, <2>1, FoldValues
<1>10. \A k \in 1..n : f[k] = After(f[k - 1], a[k])
    <2> TAKE k \in 1..n
    <2>1. f[k - 1] \in V
        BY <1>2, <1>9 DEF Steps
    <2> QED
        BY <1>4, <1>9, <2>1 DEF Steps
<1>11. f \in [0..n -> V] /\ f[0] = b /\ f[n] = FoldLeft(Lower, t, a)
    BY <1>2, <1>7, <1>9 DEF Steps
<1>12. LowerRun(f, g, t, a)
    BY <1>10, <1>11, Zenon DEF LowerRun, n, V, b, After
<1> QED
    BY <1>12

\* A visit leaves the types as they are.
LEMMA VisitType ==
    ASSUME NEW S, NEW g \in GraphsOn(S), NEW v \in LoopStates(g)
    PROVE  Visit(g, v) \in LoopStates(g)
<1>1. CASE v.queue = <<>>
    BY <1>1 DEF Visit
<1>2. CASE v.queue # <<>>
    <2> DEFINE m == Head(v.queue)
               t == [v EXCEPT !.queue = Tail(@), !.order = Append(@, m)]
               a == Adj(g, m)
    <2>1. v.queue \in Seq(NodesOf(g)) /\ v.order \in Seq(NodesOf(g))
        BY DEF LoopStates
    <2>2. m \in NodesOf(g) /\ Tail(v.queue) \in Seq(NodesOf(g))
        BY <1>2, <2>1, HeadTailProperties
    <2>3. Append(v.order, m) \in Seq(NodesOf(g))
        BY <2>1, <2>2, AppendProperties
    <2>4. t \in LoopStates(g)
        BY <2>2, <2>3 DEF LoopStates
    <2>5. a \in Seq(NodesOf(g))
        BY <2>2, AdjIs
    <2>6. Visit(g, v) = FoldLeft(Lower, t, a)
        BY <1>2, Zenon DEF Visit
    <2> HIDE DEF t, a
    <2>7. PICK f : LowerRun(f, g, t, a)
        BY <2>4, <2>5, LowerSteps
    <2>8. Len(a) \in Nat /\ f \in [0..Len(a) -> LoopStates(g)] /\ f[Len(a)] = Visit(g, v)
        BY <2>5, <2>6, <2>7, LenProperties DEF LowerRun
    <2> QED
        BY <2>8
<1> QED
    BY <1>1, <1>2

\* validate before its loop and after it.
Roots(g) == {n \in NodesOf(g) : InDegree(g)[n] = 0}
LoopStart(g) == [queue |-> Keep(g.nodes, Roots(g)), order |-> <<>>, degree |-> InDegree(g)]
LoopEnd(g) == LET Loop(s, n) == Visit(g, s) IN FoldLeft(Loop, LoopStart(g), g.nodes)

\* The loop starts in a state of the type.
LEMMA StartType ==
    ASSUME NEW S, NEW g \in GraphsOn(S)
    PROVE  LoopStart(g) \in LoopStates(g)
<1>0. g.nodes \in Seq(NodesOf(g))
    BY GraphFacts
<1>1. ASSUME NEW c
      PROVE  Cardinality(EdgesBetween(g, NodesOf(g), c)) \in Int
    <2>1. Cardinality(EdgesBetween(g, NodesOf(g), c)) \in Nat
        BY EdgeCount
    <2> QED
        BY <2>1
<1>2. Keep(g.nodes, Roots(g)) \in Seq(NodesOf(g)) /\ <<>> \in Seq(NodesOf(g))
    BY <1>0, KeepSet
<1>3. InDegree(g) \in [NodesOf(g) -> Int]
    BY <1>1 DEF InDegree
<1> QED
    BY <1>2, <1>3 DEF LoopStart, LoopStates

\* The order is what the loop ends with.
LEMMA SortIsLoop ==
    ASSUME NEW g
    PROVE  TopoSort(g) = LoopEnd(g).order
BY DEF TopoSort, LoopEnd, LoopStart, Roots

\* The loop of validate visits once per node.
SortRun(f, S, g) ==
    /\ f \in [0..Len(g.nodes) -> LoopStates(g)] /\ f[0] = LoopStart(g) /\ f[Len(g.nodes)] = LoopEnd(g)
    /\ \A k \in 1..Len(g.nodes) : f[k] = Visit(g, f[k - 1])

\* Its steps exist.
LEMMA SortSteps ==
    ASSUME NEW S, NEW g \in GraphsOn(S)
    PROVE  \E f : SortRun(f, S, g)
<1> DEFINE n == Len(g.nodes)
           V == LoopStates(g)
           b == LoopStart(g)
           After(v, x) == Visit(g, v)
           G == [k \in 1..n |-> [v \in V |-> After(v, g.nodes[k])]]
           Iter(it) == it = [T \in SUBSET DOMAIN g.nodes |->
                               IF T = {} THEN b ELSE After(it[T \ {Max(T)}], g.nodes[Max(T)])]
<1>1. LoopEnd(g) = (CHOOSE it : Iter(it))[DOMAIN g.nodes]
    BY Zenon DEF LoopEnd, FoldLeft, MapThenFoldSet
<1>2. n \in Nat /\ DOMAIN g.nodes = 1..n /\ b \in V
    BY GraphFacts, StartType
<1>3. \A k \in 1..n : \A v \in V : After(v, g.nodes[k]) \in V
    BY VisitType
<1> HIDE DEF n, V, b, After
<1>4. Foldable(V, b, n, G) /\ \A k \in 1..n : \A v \in V : G[k][v] = After(v, g.nodes[k])
    BY <1>2, <1>3 DEF Foldable
<1>5. \A T \in SUBSET (1..n) : T # {} => Max(T) \in 1..n
    BY <1>2, MaxPosition
<1> HIDE DEF G
<1>6. \E it : Iter(it)
    <2>1. PICK it : IsFold(it, V, b, n, G)
        BY <1>4, FoldExists, Zenon
    <2>2. ASSUME NEW T \in SUBSET (1..n)
          PROVE  it[T] = IF T = {} THEN b ELSE After(it[T \ {Max(T)}], g.nodes[Max(T)])
        BY <1>4, <1>5, <2>1 DEF IsFold
    <2> QED
        BY <1>2, <2>1, <2>2 DEF IsFold
<1>7. PICK it : LoopEnd(g) = it[DOMAIN g.nodes] /\ Iter(it)
    <2> HIDE DEF Iter
    <2> QED
        BY <1>1, <1>6
<1>8. Follows(it, V, b, n, G)
    <2>1. ASSUME NEW T \in SUBSET (1..n)
          PROVE  it[T] = IF T = {} THEN b ELSE After(it[T \ {Max(T)}], g.nodes[Max(T)])
        BY <1>2, <1>7
    <2>2. ASSUME NEW T \in SUBSET (1..n), T # {}, it[T \ {Max(T)}] \in V
          PROVE  it[T] = G[Max(T)][it[T \ {Max(T)}]]
        BY <1>4, <1>5, <2>1, <2>2
    <2> QED
        BY <2>1, <2>2 DEF Follows
<1>9. PICK f : Steps(f, V, b, n, G) /\ f[n] = it[1..n]
    <2>1. Foldable(V, b, n, G)
        BY <1>4
    <2> QED
        BY <1>8, <2>1, FoldValues
<1>10. \A k \in 1..n : f[k] = After(f[k - 1], g.nodes[k])
    <2> TAKE k \in 1..n
    <2>1. f[k - 1] \in V
        BY <1>2, <1>9 DEF Steps
    <2> QED
        BY <1>4, <1>9, <2>1 DEF Steps
<1>11. f \in [0..n -> V] /\ f[0] = b /\ f[n] = LoopEnd(g)
    BY <1>2, <1>7, <1>9 DEF Steps
<1>12. SortRun(f, S, g)
    BY <1>10, <1>11, Zenon DEF SortRun, n, V, b, After
<1> QED
    BY <1>12

(***************************************************************************)
(* The invariant of validate's loop.                                       *)
(***************************************************************************)

\* What a queue has after an Append.
LEMMA AppendSet ==
    ASSUME NEW S, NEW s \in Seq(S), NEW e \in S
    PROVE  /\ Append(s, e) \in Seq(S) /\ ToSet(Append(s, e)) = ToSet(s) \cup {e}
           /\ Len(Append(s, e)) = Len(s) + 1
           /\ IsInjective(s) /\ e \notin ToSet(s) => IsInjective(Append(s, e))
<1> DEFINE n == Len(s)
           t == Append(s, e)
<1>1. /\ t \in Seq(S) /\ Len(t) = n + 1 /\ t[n + 1] = e
      /\ \A i \in 1..n : t[i] = s[i]
    BY AppendProperties
<1>2. n \in Nat /\ DOMAIN s = 1..n /\ \A x : x \in ToSet(s) <=> \E i \in 1..n : s[i] = x
    BY SeqSet
<1> HIDE DEF t, n
<1>3. DOMAIN t = 1..(n + 1) /\ \A x : x \in ToSet(t) <=> \E i \in 1..(n + 1) : t[i] = x
    BY <1>1, SeqSet
<1>4. \A i \in 1..(n + 1) : i = n + 1 \/ i \in 1..n
    BY <1>2
<1>5. \A i \in 1..n : i \in 1..(n + 1) /\ n + 1 \in 1..(n + 1)
    BY <1>2
<1>6. ToSet(t) = ToSet(s) \cup {e}
    <2>1. \A x \in ToSet(t) : x \in ToSet(s) \cup {e}
        BY <1>1, <1>2, <1>3, <1>4
    <2>2. \A x \in ToSet(s) : x \in ToSet(t)
        BY <1>1, <1>2, <1>3, <1>5
    <2>3. e \in ToSet(t)
        BY <1>1, <1>2, <1>3
    <2> QED
        BY <2>1, <2>2, <2>3
<1>7. ASSUME IsInjective(s), e \notin ToSet(s)
      PROVE  IsInjective(t)
    <2> SUFFICES ASSUME NEW i \in 1..(n + 1), NEW j \in 1..(n + 1), t[i] = t[j]
                 PROVE  i = j
        BY <1>3 DEF IsInjective
    <2>1. CASE i \in 1..n /\ j \in 1..n
        BY <1>1, <1>2, <1>7, <2>1 DEF IsInjective
    <2>2. CASE i = n + 1 \/ j = n + 1
        BY <1>1, <1>2, <1>4, <1>7, <2>2
    <2> QED
        BY <1>4, <2>1, <2>2
<1> QED
    BY <1>1, <1>6, <1>7 DEF t, n

\* What a queue has after its head was taken.
LEMMA TailSet ==
    ASSUME NEW S, NEW s \in Seq(S), s # <<>>, IsInjective(s)
    PROVE  /\ Tail(s) \in Seq(S) /\ IsInjective(Tail(s))
           /\ Head(s) \in ToSet(s) /\ ToSet(Tail(s)) = ToSet(s) \ {Head(s)}
<1> DEFINE n == Len(s)
           t == Tail(s)
<1>1. t \in Seq(S) /\ Len(t) = n - 1 /\ \A i \in 1..(n - 1) : t[i] = s[i + 1]
    BY HeadTailProperties
<1>2. n \in Nat /\ DOMAIN s = 1..n /\ \A x : x \in ToSet(s) <=> \E i \in 1..n : s[i] = x
    BY SeqSet
<1>3. n # 0 /\ Head(s) = s[1]
    BY EmptySeq
<1> HIDE DEF t, n
<1>4. DOMAIN t = 1..(n - 1) /\ \A x : x \in ToSet(t) <=> \E i \in 1..(n - 1) : t[i] = x
    BY <1>1, SeqSet
<1>5. \A i \in 1..(n - 1) : i + 1 \in 1..n /\ i + 1 # 1 /\ 1 \in 1..n
    BY <1>2, <1>3
<1>6. \A i \in 1..n : i # 1 => i - 1 \in 1..(n - 1) /\ (i - 1) + 1 = i
    BY <1>2
<1>7. \A i, j \in 1..n : s[i] = s[j] => i = j
    BY <1>2 DEF IsInjective
<1>8. 1 \in 1..n
    BY <1>2, <1>3
<1>9. ToSet(t) = ToSet(s) \ {Head(s)}
    <2>1. \A x \in ToSet(t) : x \in ToSet(s) /\ x # Head(s)
        BY <1>1, <1>2, <1>3, <1>4, <1>5, <1>7
    <2>2. ASSUME NEW x \in ToSet(s), x # Head(s)
          PROVE  x \in ToSet(t)
        <3>1. PICK i \in 1..n : s[i] = x
            BY <1>2
        <3>2. i # 1
            BY <1>3, <2>2, <3>1
        <3>3. t[i - 1] = x
            BY <1>1, <1>6, <3>1, <3>2
        <3> QED
            BY <1>4, <1>6, <3>2, <3>3
    <2> QED
        BY <2>1, <2>2
<1>10. IsInjective(t)
    <2> SUFFICES ASSUME NEW i \in 1..(n - 1), NEW j \in 1..(n - 1), t[i] = t[j]
                 PROVE  i = j
        BY <1>4 DEF IsInjective
    <2>1. i + 1 = j + 1
        BY <1>1, <1>5, <1>7
    <2> QED
        BY <2>1
<1> QED
    BY <1>1, <1>2, <1>3, <1>8, <1>9, <1>10 DEF t

\* How often c is still to come after the first k elements of a.
Left(a, k, c) == Cardinality({i \in (k + 1)..Len(a) : a[i] = c})

\* One child less is left.
LEMMA LeftStep ==
    ASSUME NEW S, NEW a \in Seq(S), NEW k \in 1..Len(a), NEW c
    PROVE  /\ Left(a, k, c) \in Nat /\ Left(a, Len(a), c) = 0
           /\ Left(a, k - 1, c) = IF a[k] = c THEN Left(a, k, c) + 1 ELSE Left(a, k, c)
<1> DEFINE n == Len(a)
           A == {i \in (k + 1)..n : a[i] = c}
<1>1. n \in Nat
    BY SeqSet
<1>2. IsFiniteSet(A)
    <2>1. IsFiniteSet((k + 1)..n) /\ A \in SUBSET ((k + 1)..n)
        BY <1>1, FS_Interval
    <2> QED
        BY <2>1, FS_Subset
<1>3. {i \in ((k - 1) + 1)..n : a[i] = c} = IF a[k] = c THEN A \cup {k} ELSE A
    <2> HIDE DEF n
    <2>1. \A i \in ((k - 1) + 1)..n : i = k \/ i \in (k + 1)..n
        BY <1>1
    <2>2. k \in ((k - 1) + 1)..n /\ k \notin (k + 1)..n /\ \A i \in (k + 1)..n : i \in ((k - 1) + 1)..n
        BY <1>1 DEF n
    <2> QED
        BY <2>1, <2>2
<1>4. k \notin A
    BY <1>1
<1> HIDE DEF A
<1>5. Cardinality(A) \in Nat /\ Cardinality(A \cup {k}) = Cardinality(A) + 1
    BY <1>2, <1>4, FS_CardinalityType, FS_AddElement
<1>6. {i \in (n + 1)..n : a[i] = c} = {}
    BY <1>1
<1>7. Left(a, n, c) = 0
    BY <1>6, FS_EmptySet DEF Left
<1> QED
    BY <1>3, <1>5, <1>7 DEF Left, A

\* The edges to c from nodes that are not done.
Degree(g, done, c) == Cardinality(EdgesBetween(g, NodesOf(g) \ done, c))

\* The first k children of the last visited node have been lowered.
LowerInv(g, t, a, k, v) ==
    /\ v \in LoopStates(g)
    /\ v.order = t.order
    /\ IsInjective(v.queue) /\ ToSet(v.queue) \cap ToSet(v.order) = {}
    /\ \A c \in NodesOf(g) : v.degree[c] = Degree(g, ToSet(v.order), c) + Left(a, k, c)
    /\ \A c \in NodesOf(g) : v.degree[c] = 0 <=> c \in ToSet(v.order) \cup ToSet(v.queue)

\* Lowering the next child keeps it.
LEMMA LowerKeeps ==
    ASSUME NEW S, NEW g \in GraphsOn(S), NEW t, NEW a \in Seq(NodesOf(g)), NEW k \in 1..Len(a),
           NEW v, LowerInv(g, t, a, k - 1, v)
    PROVE  LowerInv(g, t, a, k, Lower(v, a[k]))
<1> DEFINE N == NodesOf(g)
           c == a[k]
           w == Lower(v, c)
<1>1. c \in N /\ Len(a) \in Nat
    BY LenProperties
<1>2. /\ v \in LoopStates(g) /\ v.order = t.order
      /\ IsInjective(v.queue) /\ ToSet(v.queue) \cap ToSet(v.order) = {}
      /\ \A x \in N : v.degree[x] = Degree(g, ToSet(v.order), x) + Left(a, k - 1, x)
      /\ \A x \in N : v.degree[x] = 0 <=> x \in ToSet(v.order) \cup ToSet(v.queue)
    BY DEF LowerInv
<1>3. /\ w \in LoopStates(g) /\ w.order = v.order
      /\ w.queue = IF v.degree[c] = 1 THEN Append(v.queue, c) ELSE v.queue
      /\ w.degree = [v.degree EXCEPT ![c] = v.degree[c] - 1]
    <2>1. c \in NodesOf(g) /\ v \in LoopStates(g)
        BY <1>1, <1>2
    <2> HIDE DEF c
    <2>2. /\ Lower(v, c) \in LoopStates(g)
          /\ Lower(v, c) = [queue  |-> IF v.degree[c] = 1 THEN Append(v.queue, c) ELSE v.queue,
                           order  |-> v.order,
                           degree |-> [v.degree EXCEPT ![c] = v.degree[c] - 1]]
        BY <2>1, LowerType
    <2> QED
        BY <2>2
<1> HIDE DEF w
<1>4. \A x \in N : Degree(g, ToSet(v.order), x) \in Nat
    BY EdgeCount DEF Degree
<1>5. \A x \in N : /\ Left(a, k, x) \in Nat
                   /\ Left(a, k - 1, x) = IF c = x THEN Left(a, k, x) + 1 ELSE Left(a, k, x)
    BY LeftStep
<1>6. v.queue \in Seq(N) /\ v.degree \in [N -> Int]
    BY <1>2 DEF LoopStates
<1> HIDE DEF N, c
<1>7. \A x \in N : w.degree[x] = IF x = c THEN v.degree[x] - 1 ELSE v.degree[x]
    BY <1>3, <1>6
<1>8. \A x \in N : w.degree[x] = Degree(g, ToSet(v.order), x) + Left(a, k, x)
    BY <1>2, <1>4, <1>5, <1>6, <1>7
<1>9. v.degree[c] >= 1 /\ c \notin ToSet(v.order) \cup ToSet(v.queue)
    <2>1. v.degree[c] >= 1
        BY <1>1, <1>2, <1>4, <1>5
    <2> QED
        BY <1>1, <1>2, <2>1
<1>10. CASE v.degree[c] = 1
    <2>1. w.queue = Append(v.queue, c)
        BY <1>3, <1>10
    <2>2. IsInjective(w.queue) /\ ToSet(w.queue) = ToSet(v.queue) \cup {c}
        BY <1>1, <1>2, <1>6, <1>9, <2>1, AppendSet
    <2>3. \A x \in N : w.degree[x] = 0 <=> x \in ToSet(w.order) \cup ToSet(w.queue)
        BY <1>2, <1>3, <1>6, <1>7, <1>10, <2>2
    <2>4. ToSet(w.queue) \cap ToSet(w.order) = {}
        BY <1>2, <1>3, <1>9, <2>2
    <2> QED
        BY <1>2, <1>3, <1>8, <2>2, <2>3, <2>4 DEF LowerInv, N, c, w
<1>11. CASE v.degree[c] # 1
    <2>1. w.queue = v.queue
        BY <1>3, <1>11
    <2>2. \A x \in N : w.degree[x] = 0 <=> x \in ToSet(w.order) \cup ToSet(w.queue)
        BY <1>1, <1>2, <1>3, <1>6, <1>7, <1>9, <1>11, <2>1
    <2> QED
        BY <1>2, <1>3, <1>8, <2>1, <2>2 DEF LowerInv, N, c, w
<1> QED
    BY <1>10, <1>11

\* The invariant of the loop of validate: the degree of a node counts its
\* edges from what is not ordered yet, and is zero once it was queued.
SortInv(g, v) ==
    /\ v \in LoopStates(g)
    /\ IsInjective(v.queue) /\ IsInjective(v.order) /\ ToSet(v.queue) \cap ToSet(v.order) = {}
    /\ \A c \in NodesOf(g) : v.degree[c] = Degree(g, ToSet(v.order), c)
    /\ \A c \in NodesOf(g) : v.degree[c] = 0 <=> c \in ToSet(v.order) \cup ToSet(v.queue)
    /\ \A i \in 1..Len(v.order) : \A p : <<p, v.order[i]>> \in EdgesOf(g) =>
          \E j \in 1..(i - 1) : v.order[j] = p

\* The invariant holds before the loop.
LEMMA StartSorted ==
    ASSUME NEW S, NEW g \in GraphsOn(S)
    PROVE  SortInv(g, LoopStart(g))
<1> DEFINE N == NodesOf(g)
           v == LoopStart(g)
<1>1. v \in LoopStates(g) /\ v.order = <<>> /\ v.queue = Keep(g.nodes, Roots(g)) /\ v.degree = InDegree(g)
    BY StartType DEF LoopStart
<1>2. g.nodes \in Seq(N) /\ IsInjective(g.nodes)
    BY GraphFacts
<1>3. IsInjective(v.queue) /\ ToSet(v.queue) = ToSet(g.nodes) \cap Roots(g)
    <2> HIDE DEF v
    <2> QED
        BY <1>1, <1>2, KeepSet
<1>4. ToSet(v.queue) = Roots(g)
    BY <1>3 DEF NodesOf, Roots
<1>5. ToSet(v.order) = {} /\ IsInjective(v.order) /\ Len(v.order) = 0
    BY <1>1 DEF ToSet, IsInjective
<1>6. \A c \in N : v.degree[c] = Degree(g, ToSet(v.order), c)
    <2>1. N \ ToSet(v.order) = N
        BY <1>5
    <2> QED
        BY <1>1, <2>1 DEF InDegree, Degree
<1>7. \A c \in N : v.degree[c] = 0 <=> c \in Roots(g)
    BY <1>1 DEF Roots
<1> HIDE DEF v, N
<1> QED
    BY <1>1, <1>3, <1>4, <1>5, <1>6, <1>7 DEF SortInv, N, v

\* A visit keeps it and orders one node more.
LEMMA VisitKeeps ==
    ASSUME NEW S, NEW g \in GraphsOn(S), NEW v, SortInv(g, v), v.queue # <<>>
    PROVE  /\ SortInv(g, Visit(g, v))
           /\ Len(Visit(g, v).order) = Len(v.order) + 1
<1> DEFINE N == NodesOf(g)
           m == Head(v.queue)
           t == [v EXCEPT !.queue = Tail(@), !.order = Append(@, m)]
           a == Adj(g, m)
           w == Visit(g, v)
<1>1. /\ v.queue \in Seq(N) /\ v.order \in Seq(N) /\ v.degree \in [N -> Int]
      /\ v = [queue |-> v.queue, order |-> v.order, degree |-> v.degree]
      /\ IsInjective(v.queue) /\ IsInjective(v.order) /\ ToSet(v.queue) \cap ToSet(v.order) = {}
      /\ \A c \in N : v.degree[c] = Degree(g, ToSet(v.order), c)
      /\ \A c \in N : v.degree[c] = 0 <=> c \in ToSet(v.order) \cup ToSet(v.queue)
      /\ \A i \in 1..Len(v.order) : \A p : <<p, v.order[i]>> \in EdgesOf(g) =>
            \E j \in 1..(i - 1) : v.order[j] = p
    BY DEF SortInv, LoopStates
<1>2. /\ Tail(v.queue) \in Seq(N) /\ IsInjective(Tail(v.queue))
      /\ m \in ToSet(v.queue) /\ ToSet(Tail(v.queue)) = ToSet(v.queue) \ {m}
    <2> HIDE DEF N
    <2> QED
        BY <1>1, TailSet
<1>3. m \in N /\ m \notin ToSet(v.order)
    <2>1. ToSet(v.queue) \subseteq N
        <3> HIDE DEF N
        <3> QED
            BY <1>1, SeqSet
    <2> QED
        BY <1>1, <1>2, <2>1
<1>4. /\ Append(v.order, m) \in Seq(N) /\ ToSet(Append(v.order, m)) = ToSet(v.order) \cup {m}
      /\ Len(Append(v.order, m)) = Len(v.order) + 1 /\ IsInjective(Append(v.order, m))
    <2> HIDE DEF N, m
    <2> QED
        BY <1>1, <1>3, AppendSet
<1>5. /\ t = [queue |-> Tail(v.queue), order |-> Append(v.order, m), degree |-> v.degree]
      /\ t \in LoopStates(g)
    <2> HIDE DEF N, m
    <2> DEFINE q == Tail(v.queue)
               o == Append(v.order, m)
    <2>1. t = [v EXCEPT !.queue = q, !.order = o]
        OBVIOUS
    <2> HIDE DEF q, o, t
    <2>2. t = [queue |-> q, order |-> o, degree |-> v.degree]
        BY <1>1, <2>1
    <2>3. q \in Seq(N) /\ o \in Seq(N)
        BY <1>2, <1>4 DEF q, o
    <2> QED
        BY <1>1, <2>2, <2>3 DEF q, o, N, LoopStates
<1>6. a \in Seq(N) /\ \A c : Cardinality({i \in 1..Len(a) : a[i] = c}) = Cardinality(EdgesBetween(g, {m}, c))
    BY <1>3, AdjIs
<1>7. w = FoldLeft(Lower, t, a)
    BY Zenon DEF Visit
<1> HIDE DEF a, w, t
<1>8. PICK f : LowerRun(f, g, t, a)
    BY <1>5, <1>6, LowerSteps
<1>9. /\ Len(a) \in Nat /\ f[0] = t /\ f[Len(a)] = w
      /\ \A k \in 1..Len(a) : f[k] = Lower(f[k - 1], a[k])
    BY <1>6, <1>7, <1>8, LenProperties DEF LowerRun
<1>10. \A c \in N : /\ Degree(g, ToSet(v.order), c) = Degree(g, ToSet(t.order), c) + Left(a, 0, c)
                    /\ Degree(g, ToSet(t.order), c) \in Nat /\ Left(a, 0, c) \in Nat
    <2> SUFFICES ASSUME NEW c \in N
                 PROVE  /\ Degree(g, ToSet(v.order), c) = Degree(g, ToSet(t.order), c) + Left(a, 0, c)
                        /\ Degree(g, ToSet(t.order), c) \in Nat /\ Left(a, 0, c) \in Nat
        OBVIOUS
    <2> DEFINE R == N \ ToSet(t.order)
    <2>1. N \ ToSet(v.order) = R \cup {m} /\ R \cap {m} = {}
        BY <1>3, <1>4, <1>5
    <2> HIDE DEF R
    <2>2. Cardinality(EdgesBetween(g, R \cup {m}, c))
            = Cardinality(EdgesBetween(g, R, c)) + Cardinality(EdgesBetween(g, {m}, c))
        <3> DEFINE M == {m}
        <3>1. R \cap M = {}
            BY <2>1
        <3> HIDE DEF M
        <3>2. Cardinality(EdgesBetween(g, R \cup M, c))
                = Cardinality(EdgesBetween(g, R, c)) + Cardinality(EdgesBetween(g, M, c))
            BY <3>1, EdgeSplit
        <3> QED
            BY <3>2 DEF M
    <2>3. Left(a, 0, c) = Cardinality(EdgesBetween(g, {m}, c))
        <3>1. {i \in (0 + 1)..Len(a) : a[i] = c} = {i \in 1..Len(a) : a[i] = c}
            OBVIOUS
        <3> QED
            BY <1>6, <3>1 DEF Left
    <2>4. Cardinality(EdgesBetween(g, R, c)) \in Nat /\ Cardinality(EdgesBetween(g, {m}, c)) \in Nat
        BY EdgeCount
    <2> QED
        BY <2>1, <2>2, <2>3, <2>4 DEF Degree, R
<1>11. LowerInv(g, t, a, 0, f[0])
    <2>1. t.queue = Tail(v.queue) /\ t.order = Append(v.order, m) /\ t.degree = v.degree
        BY <1>5
    <2>2. IsInjective(t.queue) /\ ToSet(t.queue) \cap ToSet(t.order) = {}
        BY <1>1, <1>2, <1>4, <2>1
    <2>3. \A c \in N : t.degree[c] = Degree(g, ToSet(t.order), c) + Left(a, 0, c)
        BY <1>1, <1>10, <2>1
    <2>4. \A c \in N : t.degree[c] = 0 <=> c \in ToSet(t.order) \cup ToSet(t.queue)
        BY <1>1, <1>2, <1>4, <2>1
    <2> QED
        BY <1>5, <1>9, <2>2, <2>3, <2>4 DEF LowerInv, N
<1>12. LowerInv(g, t, a, Len(a), f[Len(a)])
    <2> DEFINE P == {k \in 0..Len(a) : LowerInv(g, t, a, k, f[k])}
    <2>1. 0 \in P
        BY <1>9, <1>11
    <2>2. ASSUME NEW k \in 0..(Len(a) - 1), k \in P
          PROVE  k + 1 \in P
        <3>1. k + 1 \in 1..Len(a) /\ (k + 1) - 1 = k /\ k + 1 \in 0..Len(a) /\ LowerInv(g, t, a, k, f[k])
            BY <1>9, <2>2
        <3>2. LowerInv(g, t, a, (k + 1) - 1, f[k])
            BY <3>1
        <3>3. LowerInv(g, t, a, k + 1, Lower(f[k], a[k + 1]))
            BY <1>6, <3>1, <3>2, LowerKeeps
        <3>4. f[k + 1] = Lower(f[k], a[k + 1])
            BY <1>9, <3>1
        <3> QED
            BY <3>1, <3>3, <3>4
    <2> HIDE DEF P
    <2>3. \A k \in 0..Len(a) : k \in P
        BY <1>9, <2>1, <2>2, UpTo
    <2>4. Len(a) \in P
        BY <1>9, <2>3
    <2> QED
        BY <2>4 DEF P
<1>13. /\ w \in LoopStates(g) /\ w.order = Append(v.order, m)
       /\ IsInjective(w.queue) /\ ToSet(w.queue) \cap ToSet(w.order) = {}
       /\ \A c \in N : w.degree[c] = Degree(g, ToSet(w.order), c) + Left(a, Len(a), c)
       /\ \A c \in N : w.degree[c] = 0 <=> c \in ToSet(w.order) \cup ToSet(w.queue)
    <2>1. t.order = Append(v.order, m)
        BY <1>5
    <2> QED
        BY <1>9, <1>12, <2>1 DEF LowerInv
<1>14. \A c \in N : w.degree[c] = Degree(g, ToSet(w.order), c)
    <2>1. \A c \in N : Left(a, Len(a), c) = 0 /\ Degree(g, ToSet(w.order), c) \in Nat
        <3>1. ASSUME NEW c
              PROVE  Left(a, Len(a), c) = 0
            <4>1. {i \in (Len(a) + 1)..Len(a) : a[i] = c} = {}
                BY <1>9
            <4> QED
                BY <4>1, FS_EmptySet DEF Left
        <3> QED
            BY <3>1, EdgeCount DEF Degree
    <2> QED
        BY <1>13, <2>1
<1>15. \A i \in 1..Len(w.order) : \A p : <<p, w.order[i]>> \in EdgesOf(g) =>
            \E j \in 1..(i - 1) : w.order[j] = p
    <2> SUFFICES ASSUME NEW i \in 1..Len(w.order), NEW p, <<p, w.order[i]>> \in EdgesOf(g)
                 PROVE  \E j \in 1..(i - 1) : w.order[j] = p
        OBVIOUS
    <2> DEFINE n == Len(v.order)
    <2>1. /\ n \in Nat /\ w.order[n + 1] = m /\ \A j \in 1..n : w.order[j] = v.order[j]
          /\ \A x : x \in ToSet(v.order) <=> \E j \in 1..n : v.order[j] = x
        <3>1. n \in Nat /\ \A x : x \in ToSet(v.order) <=> \E j \in 1..n : v.order[j] = x
            BY <1>1, SeqSet
        <3>2. w.order[n + 1] = m /\ \A j \in 1..n : w.order[j] = v.order[j]
            BY <1>1, <1>3, <1>13, AppendProperties
        <3> QED
            BY <3>1, <3>2
    <2>2. i \in 1..(n + 1)
        BY <1>4, <1>13
    <2> HIDE DEF n
    <2>3. CASE i \in 1..n
        <3>1. PICK j \in 1..(i - 1) : v.order[j] = p
            BY <1>1, <2>1, <2>3 DEF n
        <3>2. j \in 1..n
            BY <2>1, <2>3
        <3> QED
            BY <2>1, <3>1, <3>2
    <2>4. CASE i = n + 1
        <3>1. <<p, m>> \in EdgesOf(g)
            BY <2>1, <2>4
        <3>2. v.degree[m] = 0
            BY <1>1, <1>2, <1>3
        <3>3. Degree(g, ToSet(v.order), m) = 0
            BY <1>1, <1>3, <3>2
        <3>4. \A q \in N \ ToSet(v.order) : <<q, m>> \notin EdgesOf(g)
            <4> DEFINE R == N \ ToSet(v.order)
            <4>1. Cardinality(EdgesBetween(g, R, m)) = 0
                BY <3>3 DEF Degree
            <4> HIDE DEF R
            <4>2. \A q \in R : <<q, m>> \notin EdgesOf(g)
                BY <4>1, EdgeCount
            <4> QED
                BY <4>2 DEF R
        <3>5. p \in N
            <4>1. <<p, m>> \in NodesOf(g) \X NodesOf(g)
                BY <3>1, GraphFacts
            <4> QED
                BY <4>1
        <3>6. p \in ToSet(v.order)
            BY <3>1, <3>4, <3>5
        <3>7. PICK j \in 1..n : v.order[j] = p
            BY <2>1, <3>6
        <3>8. j \in 1..(i - 1)
            BY <2>1, <2>4
        <3> QED
            BY <2>1, <3>7, <3>8
    <2> QED
        BY <2>1, <2>2, <2>3, <2>4
<1>16. IsInjective(w.order) /\ Len(w.order) = Len(v.order) + 1
    BY <1>4, <1>13
<1>17. SortInv(g, w)
    BY <1>13, <1>14, <1>15, <1>16 DEF SortInv, N
<1> QED
    BY <1>16, <1>17 DEF w

(***************************************************************************)
(* What validate answers.                                                  *)
(***************************************************************************)

\* After as many visits as nodes the invariant holds and the queue is empty.
LEMMA SortEnds ==
    ASSUME NEW S, NEW g \in GraphsOn(S)
    PROVE  SortInv(g, LoopEnd(g)) /\ LoopEnd(g).queue = <<>>
<1> DEFINE N == NodesOf(g)
           n == Len(g.nodes)
<1>1. PICK f : SortRun(f, S, g)
    BY SortSteps
<1>2. n \in Nat /\ IsFiniteSet(N) /\ Cardinality(N) = n
    BY GraphFacts
<1>3. /\ f[0] = LoopStart(g) /\ f[n] = LoopEnd(g)
      /\ \A k \in 1..n : f[k] = Visit(g, f[k - 1])
    BY <1>1 DEF SortRun
<1> HIDE DEF n
<1> DEFINE P == {k \in 0..n : SortInv(g, f[k]) /\ (f[k].queue = <<>> \/ Len(f[k].order) = k)}
<1>4. 0 \in P
    <2>1. Len(f[0].order) = 0
        BY <1>3 DEF LoopStart
    <2> QED
        BY <1>2, <1>3, <2>1, StartSorted
<1>5. ASSUME NEW k \in 0..(n - 1), k \in P
      PROVE  k + 1 \in P
    <2>1. /\ k + 1 \in 0..n /\ SortInv(g, f[k]) /\ (f[k].queue = <<>> \/ Len(f[k].order) = k)
          /\ f[k + 1] = Visit(g, f[k])
        <3>1. k + 1 \in 1..n /\ (k + 1) - 1 = k /\ k + 1 \in 0..n
            BY <1>2
        <3> QED
            BY <1>3, <1>5, <3>1
    <2>2. CASE f[k].queue = <<>>
        <3>1. Visit(g, f[k]) = f[k]
            BY <2>2 DEF Visit
        <3> QED
            BY <2>1, <2>2, <3>1
    <2>3. CASE f[k].queue # <<>>
        <3>1. SortInv(g, Visit(g, f[k])) /\ Len(Visit(g, f[k]).order) = Len(f[k].order) + 1
            BY <2>1, <2>3, VisitKeeps
        <3>2. Len(f[k].order) = k
            BY <2>1, <2>3
        <3> QED
            BY <2>1, <3>1, <3>2
    <2> QED
        BY <2>2, <2>3
<1> HIDE DEF P
<1>6. n \in P
    <2>1. \A k \in 0..n : k \in P
        BY <1>2, <1>4, <1>5, UpTo
    <2> QED
        BY <1>2, <2>1
<1> DEFINE w == LoopEnd(g)
<1>7. SortInv(g, w) /\ (w.queue = <<>> \/ Len(w.order) = n)
    BY <1>3, <1>6 DEF P
<1> HIDE DEF w
<1>8. ASSUME Len(w.order) = n
      PROVE  w.queue = <<>>
    <2>1. /\ w.order \in Seq(N) /\ w.queue \in Seq(N)
          /\ IsInjective(w.order) /\ ToSet(w.queue) \cap ToSet(w.order) = {}
        BY <1>7 DEF SortInv, LoopStates
    <2>2. ToSet(w.order) \subseteq N /\ Cardinality(ToSet(w.order)) = n
        <3> HIDE DEF N
        <3> QED
            BY <1>8, <2>1, SeqSet
    <2>3. ToSet(w.order) = N
        <3> HIDE DEF N
        <3> QED
            BY <1>2, <2>2, FS_Subset
    <2>4. Len(w.queue) \in Nat /\ ToSet(w.queue) \subseteq N
          /\ \A x : x \in ToSet(w.queue) <=> \E i \in 1..Len(w.queue) : w.queue[i] = x
        <3> HIDE DEF N
        <3> QED
            BY <2>1, SeqSet
    <2>5. Len(w.queue) = 0
        <3>1. SUFFICES ASSUME Len(w.queue) # 0
                       PROVE  FALSE
            OBVIOUS
        <3>2. 1 \in 1..Len(w.queue)
            BY <2>4, <3>1
        <3>3. w.queue[1] \in ToSet(w.queue)
            BY <2>4, <3>2
        <3> QED
            BY <2>1, <2>3, <2>4, <3>3
    <2> QED
        BY <2>1, <2>5, EmptySeq
<1> QED
    BY <1>7, <1>8 DEF w

\* A set each of whose nodes has a parent in it is blocked, and nothing of it
\* comes into an order in which each node comes after its parents.
LEMMA BlockedSet ==
    ASSUME NEW g, NEW T \in SUBSET NodesOf(g), \A c \in T : \E p \in T : <<p, c>> \in EdgesOf(g)
    PROVE  T \subseteq Blocked(g)
BY DEF Blocked

\* A blocked node has a blocked parent.
LEMMA BlockedHasParent ==
    ASSUME NEW g, NEW c \in Blocked(g)
    PROVE  c \in NodesOf(g) /\ \E p \in Blocked(g) : <<p, c>> \in EdgesOf(g)
BY DEF Blocked

\* validate's order has exactly the nodes that are neither on a cycle nor below
\* one, each once and after its parents, whatever the graph.
THEOREM OrderCorrect ==
    ASSUME NEW S, NEW g \in GraphsOn(S)
    PROVE  OrderIsRight(g)
<1> DEFINE N == NodesOf(g)
           w == LoopEnd(g)
           o == w.order
<1>1. /\ o \in Seq(N) /\ IsInjective(o) /\ w.queue = <<>>
      /\ \A c \in N : Degree(g, ToSet(o), c) = 0 <=> c \in ToSet(o) \cup ToSet(w.queue)
      /\ \A i \in 1..Len(o) : \A p : <<p, o[i]>> \in EdgesOf(g) => \E j \in 1..(i - 1) : o[j] = p
    BY SortEnds DEF SortInv, LoopStates
<1>2. ToSet(w.queue) = {}
    BY <1>1 DEF ToSet
<1> HIDE DEF w, N
<1>3. /\ Len(o) \in Nat /\ DOMAIN o = 1..Len(o) /\ ToSet(o) \subseteq N
      /\ \A x : x \in ToSet(o) <=> \E i \in 1..Len(o) : o[i] = x
    BY <1>1, SeqSet
<1>4. N \ ToSet(o) \subseteq Blocked(g)
    <2> DEFINE R == N \ ToSet(o)
    <2>1. ASSUME NEW c \in R
          PROVE  \E p \in R : <<p, c>> \in EdgesOf(g)
        <3>1. Degree(g, ToSet(o), c) # 0
            BY <1>1, <1>2, <2>1
        <3>2. Cardinality(EdgesBetween(g, R, c)) # 0
            BY <3>1 DEF Degree, N
        <3> HIDE DEF R
        <3> QED
            BY <3>2, EdgeCount
    <2> QED
        BY <2>1, BlockedSet DEF N
<1>5. ToSet(o) \cap Blocked(g) = {}
    <2> DEFINE I == {i \in 1..Len(o) : o[i] \in Blocked(g)}
    <2>1. SUFFICES ASSUME I # {}
                   PROVE  FALSE
        BY <1>3
    <2>2. I \in SUBSET Nat
        BY <1>3
    <2>3. PICK i \in I : \A j \in I : i <= j
        <3> HIDE DEF I
        <3> QED
            BY <2>1, <2>2, LeastNumber
    <2>4. PICK p \in Blocked(g) : <<p, o[i]>> \in EdgesOf(g)
        BY <2>3, BlockedHasParent
    <2>5. PICK j \in 1..(i - 1) : o[j] = p
        BY <1>1, <2>3, <2>4
    <2>6. j \in I /\ j < i
        BY <1>3, <2>3, <2>4, <2>5
    <2> QED
        BY <2>2, <2>3, <2>6
<1>6. ToSet(o) = N \ Blocked(g)
    BY <1>3, <1>4, <1>5
<1>7. ASSUME NEW i \in DOMAIN o, NEW j \in DOMAIN o, <<o[i], o[j]>> \in EdgesOf(g)
      PROVE  i < j
    <2>1. PICK k \in 1..(j - 1) : o[k] = o[i]
        BY <1>1, <1>3, <1>7
    <2>2. k \in DOMAIN o
        BY <1>3, <1>7
    <2>3. k = i
        BY <1>1, <2>1, <2>2 DEF IsInjective
    <2> QED
        BY <1>3, <1>7, <2>1, <2>3
<1>8. TopoSort(g) = o
    BY SortIsLoop DEF w
<1> HIDE DEF o
<1> QED
    BY <1>1, <1>6, <1>7, <1>8 DEF OrderIsRight, N

\* validate calls a graph valid exactly when no node is on a cycle.
THEOREM ValidMeansAcyclic ==
    ASSUME NEW S, NEW g \in GraphsOn(S)
    PROVE  Valid(g) <=> Blocked(g) = {}
<1> DEFINE N == NodesOf(g)
           o == TopoSort(g)
<1>1. IsInjective(o) /\ ToSet(o) = N \ Blocked(g)
    BY OrderCorrect DEF OrderIsRight
<1>2. o \in Seq(N)
    BY SortEnds, SortIsLoop DEF SortInv, LoopStates
<1>3. IsFiniteSet(N) /\ Cardinality(N) = Len(g.nodes)
    BY GraphFacts
<1>4. Blocked(g) \subseteq N
    BY DEF Blocked
<1> HIDE DEF N, o
<1>5. Cardinality(ToSet(o)) = Len(o)
    BY <1>1, <1>2, SeqSet
<1>6. Cardinality(ToSet(o)) = Cardinality(N) => ToSet(o) = N
    BY <1>1, <1>3, FS_Subset
<1> QED
    BY <1>1, <1>3, <1>4, <1>5, <1>6 DEF Valid, o

(***************************************************************************)
(* The graph of the call.                                                  *)
(***************************************************************************)

\* SetToSeq puts a finite set in some order.
LEMMA SetAsSeq ==
    ASSUME NEW S, IsFiniteSet(S)
    PROVE  /\ SetToSeq(S) \in Seq(S) /\ IsInjective(SetToSeq(S)) /\ ToSet(SetToSeq(S)) = S
<1> DEFINE n == Cardinality(S)
           q == SetToSeq(S)
<1>1. n \in Nat /\ \E f : f \in Bijection(1..n, S)
    BY FS_CardinalityType DEF ExistsBijection
<1>2. \E f \in [1..n -> S] : IsInjective(f)
    BY <1>1 DEF Bijection, Injection, IsInjective
<1> HIDE DEF n
<1>3. q \in [1..n -> S] /\ IsInjective(q)
    BY <1>2 DEF SetToSeq, n
<1> HIDE DEF q
<1>4. q \in Injection(1..n, S)
    BY <1>3 DEF Injection, IsInjective
<1>5. IsFiniteSet(1..n) /\ Cardinality(1..n) = n
    BY <1>1, FS_Interval
<1>6. q \in Surjection(1..n, S)
    BY <1>4, <1>5, FS_Injection DEF n
<1>7. q \in Seq(S) /\ DOMAIN q = 1..n
    BY <1>1, <1>3
<1>8. ToSet(q) = S
    BY <1>3, <1>6, <1>7 DEF ToSet, Surjection
<1> QED
    BY <1>3, <1>7, <1>8 DEF q

\* The graph of the call is well-formed and has the edges of the executor.
LEMMA GraphBuilt ==
    ASSUME TypeOK
    PROVE  Graph \in GraphsOn(Nodes) /\ NodesOf(Graph) = Nodes /\ EdgesOf(Graph) = edges
<1>1. IsFiniteSet(Nodes) /\ edges \subseteq Nodes \X Nodes /\ \A e \in edges : e[1] # e[2]
    BY NodesAssumption DEF TypeOK, Graphs
<1>2. IsFiniteSet(edges)
    <2>1. IsFiniteSet(Nodes \X Nodes)
        BY <1>1, FS_Product
    <2> QED
        BY <1>1, <2>1, FS_Subset
<1> DEFINE ns == SetToSeq(Nodes)
           es == SetToSeq(edges)
<1>3. ns \in Seq(Nodes) /\ IsInjective(ns) /\ ToSet(ns) = Nodes
    BY <1>1, SetAsSeq
<1>4. es \in Seq(edges) /\ ToSet(es) = edges
    BY <1>2, SetAsSeq
<1>5. Graph = [nodes |-> ns, edges |-> es]
    BY DEF Graph
<1> HIDE DEF ns, es
<1>6. es \in Seq(Nodes \X Nodes)
    BY <1>1, <1>4, SeqMonotonic
<1>7. NodesOf(Graph) = Nodes /\ EdgesOf(Graph) = edges
    BY <1>3, <1>4, <1>5 DEF NodesOf, EdgesOf
<1>8. \A e \in edges : e[1] \in Nodes /\ e[2] \in Nodes
    BY <1>1
<1> QED
    BY <1>1, <1>3, <1>5, <1>6, <1>7, <1>8 DEF GraphsOn

(***************************************************************************)
(* A call in which nothing fails.                                          *)
(***************************************************************************)

\* A node that has a task is neither on a cycle nor below one, and without a
\* FAILED node none is SKIPPED.
UnblockedInv ==
    CallbackSafe =>
        /\ \A S \in SUBSET Nodes :
              (\A n \in S : \E p \in S : <<p, n>> \in edges) => \A n \in S : phase[n] = "none"
        /\ (\E n \in Nodes : status[n] = "skipped") => \E n \in Nodes : status[n] = "failed"

\* Every step of execute keeps it.
LEMMA UnblockedStep == DependencyInv /\ UnblockedInv /\ [Next]_vars => UnblockedInv'
<1> SUFFICES ASSUME DependencyInv, UnblockedInv, [Next]_vars, CallbackSafe
             PROVE  UnblockedInv'
    BY CallbackConstant DEF UnblockedInv, CallbackSafe
<1>0. edges' = edges /\ TypeOK
    BY CallbackConstant DEF DependencyInv
<1>1. \A n \in Nodes : status[n] = "failed" => status'[n] = "failed"
    BY TerminalStep DEF Terminal
<1>2. ASSUME NEW S \in SUBSET Nodes, \A n \in S : \E p \in S : <<p, n>> \in edges, NEW m \in S
      PROVE  phase'[m] = "none"
    <2>0. phase[m] = "none"
        BY <1>2 DEF UnblockedInv
    <2>1. CASE Scan
        <3>1. PICK p \in S : <<p, m>> \in edges
            BY <1>2
        <3>2. phase[p] = "none"
            BY <1>2 DEF UnblockedInv
        <3>3. status[p] # "completed"
            BY <3>2 DEF DependencyInv, SafeInv, StatusFitsAll, StatusFits
        <3>4. m \notin ToStart
            BY <3>1, <3>3 DEF ToStart, ReadyNodes, Parents
        <3> QED
            BY <2>0, <2>1, <3>4 DEF Scan
    <2>2. ASSUME NEW n \in Nodes, TaskStep(n)
          PROVE  phase'[m] = "none"
        <3>1. n # m
            BY <2>0, <2>2 DEF TaskStep, Acquire, TaskSucceeds, TaskRaises, CallbackRaises,
                              CallbackEnds, BackoffEnds
        <3> QED
            BY <1>0, <2>0, <2>2, <3>1
            DEF TaskStep, Acquire, TaskSucceeds, TaskRaises, CallbackRaises, RetryLater, GiveUp,
                CallbackEnds, BackoffEnds, TypeOK
    <2>3. CASE ScanFinished \/ Wake \/ Stop \/ UNCHANGED vars \/ \E n \in Nodes : HarvestOne(n)
        BY <2>0, <2>3 DEF ScanFinished, Wake, Stop, HarvestOne, vars, taskVars
    <2> QED
        BY <2>1, <2>2, <2>3 DEF Next, MainStep
<1>3. ASSUME NEW m \in Nodes, status'[m] = "skipped"
      PROVE  \E n \in Nodes : status'[n] = "failed"
    <2>1. CASE status[m] = "skipped"
        BY <1>1, <2>1 DEF UnblockedInv
    <2>2. CASE status[m] # "skipped"
        <3>1. CASE Scan
            <4>1. m \in NewlySkipped
                BY <1>3, <2>2, <3>1 DEF Scan
            <4> QED
                BY <1>1, <4>1 DEF NewlySkipped, HasFailedParent, Parents
        <3>2. ASSUME NEW n \in Nodes, HarvestOne(n)
              PROVE  \E k \in Nodes : status'[k] = "failed"
            <4>1. status[n] = "failed"
                BY <1>0, <1>3, <2>2, <3>2 DEF HarvestOne, TypeOK
            <4> QED
                BY <1>1, <4>1
        <3>3. ASSUME NEW n \in Nodes, TaskStep(n)
              PROVE  FALSE
            BY <1>0, <1>3, <2>2, <3>3
            DEF TaskStep, Acquire, TaskSucceeds, TaskRaises, CallbackRaises, RetryLater, GiveUp,
                CallbackEnds, BackoffEnds, TypeOK
        <3>4. CASE ScanFinished \/ Wake \/ Stop \/ UNCHANGED vars
            BY <1>3, <2>2, <3>4 DEF ScanFinished, Wake, Stop, vars
        <3> QED
            BY <3>1, <3>2, <3>3, <3>4 DEF Next, MainStep
    <2> QED
        BY <2>1, <2>2
<1> QED
    BY <1>0, <1>2, <1>3 DEF UnblockedInv

\* So it is an invariant.
LEMMA UnblockedInvariant == Spec => []UnblockedInv
<1>1. Init => UnblockedInv
    BY DEF Init, UnblockedInv
<1> QED
    BY <1>1, UnblockedStep, DependencyInvariant, PTL DEF Spec

\* A call in which nothing fails completes what validate has ordered.
LEMMA CompletesTheOrder ==
    ASSUME DependencyInv, UnblockedInv, ReturnAccounts, CallbackSafe, main = "returned",
           \A n \in Nodes : status[n] # "failed"
    PROVE  {n \in Nodes : status[n] = "completed"} = ToSet(TopoSort(Graph))
<1>1. /\ TypeOK /\ Graph \in GraphsOn(Nodes) /\ NodesOf(Graph) = Nodes /\ EdgesOf(Graph) = edges
    BY GraphBuilt DEF DependencyInv
<1>2. ToSet(TopoSort(Graph)) = Nodes \ Blocked(Graph)
    BY <1>1, OrderCorrect DEF OrderIsRight
<1>3. ASSUME NEW n \in Nodes, status[n] = "completed"
      PROVE  n \notin Blocked(Graph)
    <2>1. phase[n] # "none"
        BY <1>3 DEF DependencyInv, SafeInv, StatusFitsAll, StatusFits
    <2> QED
        BY <1>1, <2>1 DEF UnblockedInv, Blocked
<1>4. ASSUME NEW n \in Nodes, status[n] # "completed"
      PROVE  n \in Blocked(Graph)
    <2> DEFINE R == {m \in Nodes : status[m] # "completed"}
    <2>1. \A m \in R : status[m] = "pending"
        <3>1. \A m \in Nodes : status[m] \in NodeStatus /\ status[m] # "skipped"
            BY <1>1 DEF UnblockedInv, TypeOK
        <3>2. \A m \in Nodes : status[m] # "running"
            BY DEF ReturnAccounts, Quiescent, DependencyInv, SafeInv, StatusFitsAll, StatusFits
        <3> QED
            BY <3>1, <3>2 DEF NodeStatus
    <2>2. ASSUME NEW m \in R
          PROVE  \E p \in R : <<p, m>> \in EdgesOf(Graph)
        BY <1>1, <2>1 DEF ReturnAccounts, Parents
    <2>3. R \subseteq Blocked(Graph)
        BY <1>1, <2>2, BlockedSet
    <2> QED
        BY <1>4, <2>3
<1> QED
    BY <1>2, <1>3, <1>4

(***************************************************************************)
(* The rounds of TaskRunner and the parallel groups.                       *)
(***************************************************************************)

\* What the rounds so far have run, and what the next one runs.
Started(rounds) == UNION ToSet(rounds)
RoundReady(g, rounds) ==
    {n \in NodesOf(g) \ Started(rounds) : ToSet(ReverseAdj(g, n)) \subseteq Started(rounds)}

\* A round, written out.
LEMMA RoundIs ==
    ASSUME NEW g, NEW r \in Seq(SUBSET NodesOf(g))
    PROVE  /\ Round(g, r) = IF RoundReady(g, r) = {} THEN r ELSE Append(r, RoundReady(g, r))
           /\ Round(g, r) \in Seq(SUBSET NodesOf(g))
           /\ Started(r) \subseteq NodesOf(g)
           /\ Started(Round(g, r)) = Started(r) \cup RoundReady(g, r)
<1>1. Round(g, r) = IF RoundReady(g, r) = {} THEN r ELSE Append(r, RoundReady(g, r))
    BY DEF Round, RoundReady, Started
<1> DEFINE W == SUBSET NodesOf(g)
<1>2. RoundReady(g, r) \in W
    BY DEF RoundReady
<1>3. ToSet(r) \subseteq W
    BY SeqSet
<1>4. Append(r, RoundReady(g, r)) \in Seq(W) /\ ToSet(Append(r, RoundReady(g, r))) = ToSet(r) \cup {RoundReady(g, r)}
    <2> HIDE DEF W
    <2>1. r \in Seq(W)
        BY DEF W
    <2> QED
        BY <1>2, <2>1, AppendSet
<1> QED
    BY <1>1, <1>3, <1>4 DEF Started

\* TaskRunner.run goes through at most a round per node.
RoundRun(f, S, g) ==
    /\ f \in [0..Len(g.nodes) -> Seq(SUBSET NodesOf(g))] /\ f[0] = <<>> /\ f[Len(g.nodes)] = Rounds(g)
    /\ \A k \in 1..Len(g.nodes) : f[k] = Round(g, f[k - 1])

\* Its steps exist.
LEMMA RoundSteps ==
    ASSUME NEW S, NEW g \in GraphsOn(S)
    PROVE  \E f : RoundRun(f, S, g)
<1> DEFINE n == Len(g.nodes)
           V == Seq(SUBSET NodesOf(g))
           b == <<>>
           After(v, x) == Round(g, v)
           G == [k \in 1..n |-> [v \in V |-> After(v, g.nodes[k])]]
           Iter(it) == it = [T \in SUBSET DOMAIN g.nodes |->
                               IF T = {} THEN b ELSE After(it[T \ {Max(T)}], g.nodes[Max(T)])]
<1>1. Rounds(g) = (CHOOSE it : Iter(it))[DOMAIN g.nodes]
    BY Zenon DEF Rounds, FoldLeft, MapThenFoldSet
<1>2. n \in Nat /\ DOMAIN g.nodes = 1..n /\ b \in V
    BY GraphFacts, EmptySeq
<1>3. \A k \in 1..n : \A v \in V : After(v, g.nodes[k]) \in V
    BY RoundIs
<1> HIDE DEF n, V, b, After
<1>4. Foldable(V, b, n, G) /\ \A k \in 1..n : \A v \in V : G[k][v] = After(v, g.nodes[k])
    BY <1>2, <1>3 DEF Foldable
<1>5. \A T \in SUBSET (1..n) : T # {} => Max(T) \in 1..n
    BY <1>2, MaxPosition
<1> HIDE DEF G
<1>6. \E it : Iter(it)
    <2>1. PICK it : IsFold(it, V, b, n, G)
        BY <1>4, FoldExists, Zenon
    <2>2. ASSUME NEW T \in SUBSET (1..n)
          PROVE  it[T] = IF T = {} THEN b ELSE After(it[T \ {Max(T)}], g.nodes[Max(T)])
        BY <1>4, <1>5, <2>1 DEF IsFold
    <2> QED
        BY <1>2, <2>1, <2>2 DEF IsFold
<1>7. PICK it : Rounds(g) = it[DOMAIN g.nodes] /\ Iter(it)
    <2> HIDE DEF Iter
    <2> QED
        BY <1>1, <1>6
<1>8. Follows(it, V, b, n, G)
    <2>1. ASSUME NEW T \in SUBSET (1..n)
          PROVE  it[T] = IF T = {} THEN b ELSE After(it[T \ {Max(T)}], g.nodes[Max(T)])
        BY <1>2, <1>7
    <2>2. ASSUME NEW T \in SUBSET (1..n), T # {}, it[T \ {Max(T)}] \in V
          PROVE  it[T] = G[Max(T)][it[T \ {Max(T)}]]
        BY <1>4, <1>5, <2>1, <2>2
    <2> QED
        BY <2>1, <2>2 DEF Follows
<1>9. PICK f : Steps(f, V, b, n, G) /\ f[n] = it[1..n]
    <2>1. Foldable(V, b, n, G)
        BY <1>4
    <2> QED
        BY <1>8, <2>1, FoldValues
<1>10. \A k \in 1..n : f[k] = After(f[k - 1], g.nodes[k])
    <2> TAKE k \in 1..n
    <2>1. f[k - 1] \in V
        BY <1>2, <1>9 DEF Steps
    <2> QED
        BY <1>4, <1>9, <2>1 DEF Steps
<1>11. f \in [0..n -> V] /\ f[0] = b /\ f[n] = Rounds(g)
    BY <1>2, <1>7, <1>9 DEF Steps
<1>12. RoundRun(f, S, g)
    BY <1>10, <1>11, Zenon DEF RoundRun, n, V, b, After
<1> QED
    BY <1>12

\* The variables of _compute_parallel_groups, and the loop.
GroupStates(g) ==
    [groups : Seq(SUBSET NodesOf(g)), remaining : SUBSET NodesOf(g), degree : [NodesOf(g) -> Int]]
GroupReady(g, v) == {n \in v.remaining : v.degree[n] = 0}
GroupStart(g) == [groups |-> <<>>, remaining |-> NodesOf(g), degree |-> InDegree(g)]
GroupEnd(g) == LET Loop(s, n) == Group(g, s) IN FoldLeft(Loop, GroupStart(g), g.nodes)

\* The groups are what the loop ends with.
LEMMA GroupsAreLoop ==
    ASSUME NEW g
    PROVE  ParallelGroups(g) = GroupEnd(g).groups
BY DEF ParallelGroups, GroupEnd, GroupStart

\* A group leaves the types as they are.
LEMMA GroupType ==
    ASSUME NEW S, NEW g \in GraphsOn(S), NEW v \in GroupStates(g)
    PROVE  Group(g, v) \in GroupStates(g)
<1> DEFINE N == NodesOf(g)
           W == SUBSET N
           ready == GroupReady(g, v)
           d == [n \in N |-> v.degree[n] - Cardinality(EdgesBetween(g, ready, n))]
<1>1. v.groups \in Seq(W) /\ v.remaining \in SUBSET N /\ v.degree \in [N -> Int] /\ ready \in W
    BY DEF GroupStates, GroupReady
<1>2. \A n \in N : Cardinality(EdgesBetween(g, ready, n)) \in Int
    <2>1. ASSUME NEW n \in N
          PROVE  Cardinality(EdgesBetween(g, ready, n)) \in Nat
        BY EdgeCount
    <2> QED
        BY <2>1
<1>3. Group(g, v) = IF ready = {} THEN v
                    ELSE [groups |-> Append(v.groups, ready), remaining |-> v.remaining \ ready, degree |-> d]
    BY Zenon DEF Group, GroupReady
<1>4. d \in [N -> Int]
    BY <1>1, <1>2
<1>5. Append(v.groups, ready) \in Seq(W)
    <2> HIDE DEF W, ready
    <2> QED
        BY <1>1, AppendProperties
<1> HIDE DEF d, ready
<1> QED
    BY <1>1, <1>3, <1>4, <1>5 DEF GroupStates

\* The loop starts in a state of the type.
LEMMA GroupStartType ==
    ASSUME NEW S, NEW g \in GraphsOn(S)
    PROVE  GroupStart(g) \in GroupStates(g)
<1>1. ASSUME NEW c
      PROVE  Cardinality(EdgesBetween(g, NodesOf(g), c)) \in Int
    <2>1. Cardinality(EdgesBetween(g, NodesOf(g), c)) \in Nat
        BY EdgeCount
    <2> QED
        BY <2>1
<1>2. InDegree(g) \in [NodesOf(g) -> Int]
    BY <1>1 DEF InDegree
<1>3. <<>> \in Seq(SUBSET NodesOf(g))
    BY EmptySeq
<1> QED
    BY <1>2, <1>3 DEF GroupStart, GroupStates

\* _compute_parallel_groups takes at most a group per node.
GroupRun(f, S, g) ==
    /\ f \in [0..Len(g.nodes) -> GroupStates(g)] /\ f[0] = GroupStart(g) /\ f[Len(g.nodes)] = GroupEnd(g)
    /\ \A k \in 1..Len(g.nodes) : f[k] = Group(g, f[k - 1])

\* Its steps exist.
LEMMA GroupSteps ==
    ASSUME NEW S, NEW g \in GraphsOn(S)
    PROVE  \E f : GroupRun(f, S, g)
<1> DEFINE n == Len(g.nodes)
           V == GroupStates(g)
           b == GroupStart(g)
           After(v, x) == Group(g, v)
           G == [k \in 1..n |-> [v \in V |-> After(v, g.nodes[k])]]
           Iter(it) == it = [T \in SUBSET DOMAIN g.nodes |->
                               IF T = {} THEN b ELSE After(it[T \ {Max(T)}], g.nodes[Max(T)])]
<1>1. GroupEnd(g) = (CHOOSE it : Iter(it))[DOMAIN g.nodes]
    BY Zenon DEF GroupEnd, FoldLeft, MapThenFoldSet
<1>2. n \in Nat /\ DOMAIN g.nodes = 1..n /\ b \in V
    BY GraphFacts, GroupStartType
<1>3. \A k \in 1..n : \A v \in V : After(v, g.nodes[k]) \in V
    BY GroupType
<1> HIDE DEF n, V, b, After
<1>4. Foldable(V, b, n, G) /\ \A k \in 1..n : \A v \in V : G[k][v] = After(v, g.nodes[k])
    BY <1>2, <1>3 DEF Foldable
<1>5. \A T \in SUBSET (1..n) : T # {} => Max(T) \in 1..n
    BY <1>2, MaxPosition
<1> HIDE DEF G
<1>6. \E it : Iter(it)
    <2>1. PICK it : IsFold(it, V, b, n, G)
        BY <1>4, FoldExists, Zenon
    <2>2. ASSUME NEW T \in SUBSET (1..n)
          PROVE  it[T] = IF T = {} THEN b ELSE After(it[T \ {Max(T)}], g.nodes[Max(T)])
        BY <1>4, <1>5, <2>1 DEF IsFold
    <2> QED
        BY <1>2, <2>1, <2>2 DEF IsFold
<1>7. PICK it : GroupEnd(g) = it[DOMAIN g.nodes] /\ Iter(it)
    <2> HIDE DEF Iter
    <2> QED
        BY <1>1, <1>6
<1>8. Follows(it, V, b, n, G)
    <2>1. ASSUME NEW T \in SUBSET (1..n)
          PROVE  it[T] = IF T = {} THEN b ELSE After(it[T \ {Max(T)}], g.nodes[Max(T)])
        BY <1>2, <1>7
    <2>2. ASSUME NEW T \in SUBSET (1..n), T # {}, it[T \ {Max(T)}] \in V
          PROVE  it[T] = G[Max(T)][it[T \ {Max(T)}]]
        BY <1>4, <1>5, <2>1, <2>2
    <2> QED
        BY <2>1, <2>2 DEF Follows
<1>9. PICK f : Steps(f, V, b, n, G) /\ f[n] = it[1..n]
    <2>1. Foldable(V, b, n, G)
        BY <1>4
    <2> QED
        BY <1>8, <2>1, FoldValues
<1>10. \A k \in 1..n : f[k] = After(f[k - 1], g.nodes[k])
    <2> TAKE k \in 1..n
    <2>1. f[k - 1] \in V
        BY <1>2, <1>9 DEF Steps
    <2> QED
        BY <1>4, <1>9, <2>1 DEF Steps
<1>11. f \in [0..n -> V] /\ f[0] = b /\ f[n] = GroupEnd(g)
    BY <1>2, <1>7, <1>9 DEF Steps
<1>12. GroupRun(f, S, g)
    BY <1>10, <1>11, Zenon DEF GroupRun, n, V, b, After
<1> QED
    BY <1>12

\* The groups are the rounds so far.
SameGroups(g, v, r) ==
    /\ v \in GroupStates(g) /\ r \in Seq(SUBSET NodesOf(g))
    /\ v.groups = r /\ v.remaining = NodesOf(g) \ Started(r)
    /\ \A c \in NodesOf(g) : v.degree[c] = Degree(g, Started(r), c)

\* One more group is one more round.
LEMMA GroupIsRound ==
    ASSUME NEW S, NEW g \in GraphsOn(S), NEW v, NEW r, SameGroups(g, v, r)
    PROVE  SameGroups(g, Group(g, v), Round(g, r))
<1> DEFINE N == NodesOf(g)
           D == Started(r)
           ready == GroupReady(g, v)
           d == [n \in N |-> v.degree[n] - Cardinality(EdgesBetween(g, ready, n))]
<1>1. /\ v \in GroupStates(g) /\ r \in Seq(SUBSET N) /\ v.groups = r /\ v.remaining = N \ D
      /\ \A c \in N : v.degree[c] = Degree(g, D, c)
    BY DEF SameGroups
<1>2. ready = RoundReady(g, r)
    <2>1. ASSUME NEW n \in N
          PROVE  v.degree[n] = 0 <=> ToSet(ReverseAdj(g, n)) \subseteq D
        <3> DEFINE R == N \ D
        <3>1. v.degree[n] = Cardinality(EdgesBetween(g, R, n))
            BY <1>1 DEF Degree
        <3> HIDE DEF R
        <3>2. v.degree[n] = 0 <=> \A p \in R : <<p, n>> \notin EdgesOf(g)
            BY <3>1, EdgeCount
        <3>3. \A p : p \in ToSet(ReverseAdj(g, n)) <=> <<p, n>> \in EdgesOf(g)
            BY <2>1, ReverseAdjIs
        <3>4. \A p : <<p, n>> \in EdgesOf(g) => p \in N
            <4>1. ASSUME NEW p, <<p, n>> \in EdgesOf(g)
                  PROVE  <<p, n>> \in NodesOf(g) \X NodesOf(g)
                BY <4>1, GraphFacts
            <4> QED
                BY <4>1
        <3> QED
            BY <3>2, <3>3, <3>4 DEF R
    <2> QED
        BY <1>1, <2>1 DEF GroupReady, RoundReady
<1>3. /\ Round(g, r) = IF ready = {} THEN r ELSE Append(r, ready)
      /\ Round(g, r) \in Seq(SUBSET N) /\ Started(Round(g, r)) = D \cup ready
    <2>1. /\ Round(g, r) = IF RoundReady(g, r) = {} THEN r ELSE Append(r, RoundReady(g, r))
          /\ Round(g, r) \in Seq(SUBSET NodesOf(g))
          /\ Started(Round(g, r)) = Started(r) \cup RoundReady(g, r)
        BY <1>1, RoundIs
    <2> HIDE DEF ready
    <2> QED
        BY <1>2, <2>1
<1>4. Group(g, v) = IF ready = {} THEN v
                    ELSE [groups |-> Append(v.groups, ready), remaining |-> v.remaining \ ready, degree |-> d]
    BY Zenon DEF Group, GroupReady
<1>5. Group(g, v) \in GroupStates(g)
    BY <1>1, GroupType
<1>6. CASE ready = {}
    BY <1>3, <1>4, <1>6 DEF SameGroups
<1>7. CASE ready # {}
    <2>1. ASSUME NEW c \in N
          PROVE  d[c] = Degree(g, D \cup ready, c)
        <3> DEFINE R == N \ (D \cup ready)
        <3>1. N \ D = R \cup ready /\ R \cap ready = {}
            BY <1>1 DEF GroupReady
        <3> HIDE DEF R, ready
        <3>2. Cardinality(EdgesBetween(g, R \cup ready, c))
                = Cardinality(EdgesBetween(g, R, c)) + Cardinality(EdgesBetween(g, ready, c))
            BY <3>1, EdgeSplit
        <3>3. Cardinality(EdgesBetween(g, R, c)) \in Nat /\ Cardinality(EdgesBetween(g, ready, c)) \in Nat
            BY EdgeCount
        <3>4. v.degree[c] = Cardinality(EdgesBetween(g, R \cup ready, c))
            BY <1>1, <3>1 DEF Degree
        <3>5. d[c] = Cardinality(EdgesBetween(g, R, c))
            BY <3>2, <3>3, <3>4
        <3> QED
            BY <3>5 DEF Degree, R
    <2> HIDE DEF d, ready
    <2>2. /\ Group(g, v).groups = Append(v.groups, ready)
          /\ Group(g, v).remaining = v.remaining \ ready
          /\ Group(g, v).degree = d
        BY <1>4, <1>7
    <2>3. N \ (D \cup ready) = (N \ D) \ ready
        OBVIOUS
    <2> QED
        BY <1>1, <1>3, <1>5, <1>7, <2>1, <2>2, <2>3 DEF SameGroups
<1> QED
    BY <1>6, <1>7

\* TaskRunner's rounds are the parallel groups, for every graph.
THEOREM RoundsAreGroups ==
    ASSUME NEW S, NEW g \in GraphsOn(S)
    PROVE  Rounds(g) = ParallelGroups(g)
<1> DEFINE n == Len(g.nodes)
<1>1. PICK f : RoundRun(f, S, g)
    BY RoundSteps
<1>2. PICK h : GroupRun(h, S, g)
    BY GroupSteps
<1>3. /\ f[0] = <<>> /\ f[n] = Rounds(g) /\ \A k \in 1..n : f[k] = Round(g, f[k - 1])
      /\ h[0] = GroupStart(g) /\ h[n] = GroupEnd(g) /\ \A k \in 1..n : h[k] = Group(g, h[k - 1])
    BY <1>1, <1>2 DEF RoundRun, GroupRun
<1>4. n \in Nat
    BY GraphFacts
<1> HIDE DEF n
<1> DEFINE P == {k \in 0..n : SameGroups(g, h[k], f[k])}
<1>5. 0 \in P
    <2>1. Started(<<>>) = {} /\ <<>> \in Seq(SUBSET NodesOf(g))
        BY EmptySeq DEF Started, ToSet
    <2>2. GroupStart(g) \in GroupStates(g)
        BY GroupStartType
    <2>3. \A c \in NodesOf(g) : InDegree(g)[c] = Degree(g, {}, c)
        BY DEF InDegree, Degree
    <2>4. SameGroups(g, GroupStart(g), <<>>)
        BY <2>1, <2>2, <2>3 DEF SameGroups, GroupStart
    <2> QED
        BY <1>3, <1>4, <2>4
<1>6. ASSUME NEW k \in 0..(n - 1), k \in P
      PROVE  k + 1 \in P
    <2>1. k + 1 \in 1..n /\ (k + 1) - 1 = k /\ k + 1 \in 0..n
        BY <1>4
    <2>2. SameGroups(g, Group(g, h[k]), Round(g, f[k]))
        BY <1>6, GroupIsRound
    <2> QED
        BY <1>3, <2>1, <2>2
<1> HIDE DEF P
<1>7. n \in P
    <2>1. \A k \in 0..n : k \in P
        BY <1>4, <1>5, <1>6, UpTo
    <2> QED
        BY <1>4, <2>1
<1>8. SameGroups(g, GroupEnd(g), Rounds(g))
    BY <1>3, <1>7 DEF P
<1> QED
    BY <1>8, GroupsAreLoop DEF SameGroups

\* A call of TaskRunner returns exactly for the graphs validate calls valid.
THEOREM RunReturnsIfValid ==
    ASSUME NEW S, NEW g \in GraphsOn(S)
    PROVE  RunReturns(g) <=> Valid(g)
<1> DEFINE n == Len(g.nodes)
           N == NodesOf(g)
           Good(r, k) == /\ r \in Seq(SUBSET N) /\ Started(r) \cap Blocked(g) = {}
                         /\ RoundReady(g, r) = {} \/ Cardinality(Started(r)) >= k
<1>1. PICK f : RoundRun(f, S, g)
    BY RoundSteps
<1>2. f[0] = <<>> /\ f[n] = Rounds(g) /\ \A k \in 1..n : f[k] = Round(g, f[k - 1])
    BY <1>1 DEF RoundRun
<1>3. n \in Nat /\ IsFiniteSet(N) /\ Cardinality(N) = n
    BY GraphFacts
<1> HIDE DEF n
<1>5. \A m \in Blocked(g) : \E p \in Blocked(g) : p \in ToSet(ReverseAdj(g, m))
    <2> SUFFICES ASSUME NEW m \in Blocked(g)
                 PROVE  \E p \in Blocked(g) : p \in ToSet(ReverseAdj(g, m))
        OBVIOUS
    <2>1. PICK p \in Blocked(g) : <<p, m>> \in EdgesOf(g)
        BY BlockedHasParent
    <2>2. m \in NodesOf(g)
        BY BlockedHasParent
    <2>3. p \in ToSet(ReverseAdj(g, m))
        BY <2>1, <2>2, ReverseAdjIs
    <2> QED
        BY <2>3
<1>6. ASSUME NEW r, NEW k \in Nat, Good(r, k)
      PROVE  Good(Round(g, r), k + 1)
    <2> DEFINE ready == RoundReady(g, r)
    <2>1. /\ Round(g, r) \in Seq(SUBSET N) /\ Started(Round(g, r)) = Started(r) \cup ready
          /\ Started(r) \subseteq N /\ (ready = {} => Round(g, r) = r)
        BY <1>6, RoundIs
    <2>2. ready \cap Blocked(g) = {} /\ ready \cap Started(r) = {} /\ ready \subseteq N
        BY <1>5, <1>6 DEF RoundReady
    <2>3. CASE ready = {}
        BY <1>6, <2>1, <2>3
    <2>4. CASE ready # {}
        <3>1. Cardinality(Started(r)) >= k
            BY <1>6, <2>4
        <3>2. PICK x \in ready : TRUE
            BY <2>4
        <3>3. IsFiniteSet(Started(r)) /\ IsFiniteSet(Started(r) \cup ready)
            <4>1. Started(r) \in SUBSET N /\ Started(r) \cup ready \in SUBSET N
                BY <2>1, <2>2
            <4> QED
                BY <1>3, <4>1, FS_Subset
        <3>4. Cardinality(Started(r) \cup {x}) = Cardinality(Started(r)) + 1
            BY <2>2, <3>2, <3>3, FS_AddElement
        <3>5. /\ Cardinality(Started(r) \cup {x}) <= Cardinality(Started(r) \cup ready)
              /\ Cardinality(Started(r)) \in Nat /\ Cardinality(Started(r) \cup ready) \in Nat
            <4>1. Started(r) \cup {x} \in SUBSET (Started(r) \cup ready)
                OBVIOUS
            <4> QED
                BY <3>3, <4>1, FS_Subset, FS_CardinalityType
        <3>6. Cardinality(Started(Round(g, r))) >= k + 1
            BY <2>1, <3>1, <3>4, <3>5
        <3> QED
            BY <1>6, <2>1, <2>2, <3>6
    <2> QED
        BY <2>3, <2>4
<1> DEFINE P == {k \in 0..n : Good(f[k], k)}
<1>7. 0 \in P
    <2>1. Started(<<>>) = {} /\ <<>> \in Seq(SUBSET N)
        BY EmptySeq DEF Started, ToSet
    <2>2. Cardinality(Started(<<>>)) = 0
        BY <2>1, FS_EmptySet
    <2>3. Good(<<>>, 0)
        BY <2>1, <2>2
    <2> HIDE DEF Good
    <2> QED
        BY <1>2, <1>3, <2>3
<1>8. ASSUME NEW k \in 0..(n - 1), k \in P
      PROVE  k + 1 \in P
    <2>1. k + 1 \in 1..n /\ (k + 1) - 1 = k /\ k + 1 \in 0..n /\ k \in Nat
        BY <1>3
    <2> HIDE DEF Good
    <2>2. Good(Round(g, f[k]), k + 1)
        BY <1>6, <1>8, <2>1
    <2> QED
        BY <1>2, <2>1, <2>2
<1> HIDE DEF P
<1>9. n \in P
    <2>1. \A k \in 0..n : k \in P
        BY <1>3, <1>7, <1>8, UpTo
    <2> QED
        BY <1>3, <2>1
<1> DEFINE r == Rounds(g)
<1>10. Good(r, n)
    BY <1>2, <1>9 DEF P
<1> HIDE DEF r
<1>11. Started(r) \subseteq N
    BY <1>10, RoundIs
<1>12. N \ Started(r) \subseteq Blocked(g)
    <2>1. CASE RoundReady(g, r) = {}
        <3> DEFINE R == N \ Started(r)
        <3>1. ASSUME NEW m \in R
              PROVE  \E p \in R : <<p, m>> \in EdgesOf(g)
            <4>1. PICK p \in ToSet(ReverseAdj(g, m)) : p \notin Started(r)
                BY <2>1 DEF RoundReady
            <4>2. <<p, m>> \in EdgesOf(g)
                BY <3>1, ReverseAdjIs
            <4>3. <<p, m>> \in NodesOf(g) \X NodesOf(g)
                BY <4>2, GraphFacts
            <4> QED
                BY <4>1, <4>2, <4>3
        <3> QED
            BY <3>1, BlockedSet
    <2>2. CASE Cardinality(Started(r)) >= n
        <3>1. Started(r) = N
            BY <1>3, <1>11, <2>2, FS_Subset, FS_CardinalityType
        <3> QED
            BY <3>1
    <2> QED
        BY <1>10, <2>1, <2>2
<1>13. Started(r) = N \ Blocked(g)
    BY <1>10, <1>11, <1>12
<1>14. Blocked(g) \subseteq N
    BY DEF Blocked
<1>15. Valid(g) <=> Blocked(g) = {}
    BY ValidMeansAcyclic
<1> QED
    BY <1>13, <1>14, <1>15 DEF RunReturns, Started, r

(***************************************************************************)
(* How graphs are built.                                                   *)
(***************************************************************************)

\* Given its fields, a graph is well-formed if its nodes are distinct and its
\* edges are between two of them.
LEMMA MakeGraph ==
    ASSUME NEW S, NEW ns \in Seq(S), IsInjective(ns), NEW es \in Seq(S \X S),
           \A e \in ToSet(es) : e[1] \in ToSet(ns) /\ e[2] \in ToSet(ns) /\ e[1] # e[2]
    PROVE  [nodes |-> ns, edges |-> es] \in GraphsOn(S)
BY DEF GraphsOn, NodesOf, EdgesOf

\* The fields of a well-formed graph make it up.
LEMMA GraphFields ==
    ASSUME NEW S, NEW g \in GraphsOn(S)
    PROVE  /\ g = [nodes |-> g.nodes, edges |-> g.edges]
           /\ g.nodes \in Seq(S) /\ IsInjective(g.nodes) /\ g.edges \in Seq(S \X S)
           /\ \A e \in ToSet(g.edges) : /\ e[1] \in ToSet(g.nodes) /\ e[2] \in ToSet(g.nodes)
                                        /\ e[1] # e[2]
BY DEF GraphsOn, NodesOf, EdgesOf

\* Adding a node or an edge and removing a node leave a graph well-formed:
\* its nodes are distinct, and every edge is between two different ones of them.
THEOREM GraphStaysWellFormed ==
    ASSUME NEW S, NEW g \in GraphsOn(S), NEW x \in S, NEW y \in S
    PROVE  /\ AddNode(g, x) \in GraphsOn(S)
           /\ AddEdge(g, <<x, y>>) \in GraphsOn(S)
           /\ RemoveNode(g, x) \in GraphsOn(S)
<1>1. /\ g = [nodes |-> g.nodes, edges |-> g.edges]
      /\ g.nodes \in Seq(S) /\ IsInjective(g.nodes) /\ g.edges \in Seq(S \X S)
      /\ \A e \in ToSet(g.edges) : /\ e[1] \in ToSet(g.nodes) /\ e[2] \in ToSet(g.nodes)
                                   /\ e[1] # e[2]
    BY GraphFields
<1>2. AddNode(g, x) \in GraphsOn(S)
    <2>1. CASE x \in NodesOf(g)
        BY <2>1 DEF AddNode
    <2>2. CASE x \notin NodesOf(g)
        <3> DEFINE ns == Append(g.nodes, x)
                   es == g.edges
        <3>1. ns \in Seq(S) /\ ToSet(ns) = ToSet(g.nodes) \cup {x} /\ IsInjective(ns)
            BY <1>1, <2>2, AppendSet DEF NodesOf
        <3>2. AddNode(g, x) = [nodes |-> ns, edges |-> es]
            BY <1>1, <2>2 DEF AddNode
        <3>3. es \in Seq(S \X S) /\ \A e \in ToSet(es) : e[1] \in ToSet(ns) /\ e[2] \in ToSet(ns) /\ e[1] # e[2]
            BY <1>1, <3>1
        <3> HIDE DEF ns, es
        <3>4. [nodes |-> ns, edges |-> es] \in GraphsOn(S)
            BY <3>1, <3>3, MakeGraph
        <3> QED
            BY <3>2, <3>4
    <2> QED
        BY <2>1, <2>2
<1>3. AddEdge(g, <<x, y>>) \in GraphsOn(S)
    <2>1. CASE ~ (x \in NodesOf(g) /\ y \in NodesOf(g) /\ x # y)
        BY <2>1 DEF AddEdge
    <2>2. CASE x \in NodesOf(g) /\ y \in NodesOf(g) /\ x # y
        <3> DEFINE ns == g.nodes
                   d == <<x, y>>
                   es == Append(g.edges, d)
        <3>1. es \in Seq(S \X S) /\ ToSet(es) = ToSet(g.edges) \cup {d}
            <4> DEFINE E == S \X S
            <4>1. d \in E /\ g.edges \in Seq(E)
                BY <1>1
            <4> HIDE DEF d, E
            <4>2. es \in Seq(E) /\ ToSet(es) = ToSet(g.edges) \cup {d}
                BY <4>1, AppendSet
            <4> QED
                BY <4>2 DEF E
        <3>2. AddEdge(g, d) = [nodes |-> ns, edges |-> es]
            BY <1>1, <2>2 DEF AddEdge
        <3>3. ns \in Seq(S) /\ IsInjective(ns)
              /\ \A e \in ToSet(es) : e[1] \in ToSet(ns) /\ e[2] \in ToSet(ns) /\ e[1] # e[2]
            BY <1>1, <2>2, <3>1 DEF NodesOf
        <3> HIDE DEF ns, es
        <3>4. [nodes |-> ns, edges |-> es] \in GraphsOn(S)
            BY <3>1, <3>3, MakeGraph
        <3> QED
            BY <3>2, <3>4
    <2> QED
        BY <2>1, <2>2
<1>4. RemoveNode(g, x) \in GraphsOn(S)
    <2> DEFINE KN == NodesOf(g) \ {x}
               KE == {e \in EdgesOf(g) : x \notin {e[1], e[2]}}
               ns == Keep(g.nodes, KN)
               es == Keep(g.edges, KE)
               E == S \X S
    <2>1. g.edges \in Seq(E)
        BY <1>1
    <2> HIDE DEF KN, KE, E
    <2>2. /\ ns \in Seq(S) /\ ToSet(ns) = ToSet(g.nodes) \cap KN /\ IsInjective(ns)
          /\ es \in Seq(E) /\ ToSet(es) = ToSet(g.edges) \cap KE
        BY <1>1, <2>1, KeepSet
    <2>3. RemoveNode(g, x) = [nodes |-> ns, edges |-> es]
        BY DEF RemoveNode, KN, KE
    <2> HIDE DEF ns, es
    <2>4. \A e \in ToSet(es) : e[1] \in ToSet(ns) /\ e[2] \in ToSet(ns) /\ e[1] # e[2]
        BY <1>1, <2>2 DEF KN, KE, NodesOf
    <2>5. es \in Seq(S \X S)
        BY <2>2 DEF E
    <2>6. [nodes |-> ns, edges |-> es] \in GraphsOn(S)
        BY <2>2, <2>4, <2>5, MakeGraph
    <2> QED
        BY <2>3, <2>6
<1> QED
    BY <1>2, <1>3, <1>4

\* A reversed sequence has the same elements.
LEMMA ReverseSet ==
    ASSUME NEW S, NEW s \in Seq(S)
    PROVE  /\ Reverse(s) \in Seq(S) /\ ToSet(Reverse(s)) = ToSet(s)
           /\ IsInjective(s) => IsInjective(Reverse(s))
<1> DEFINE n == Len(s)
           t == Reverse(s)
<1>1. n \in Nat /\ s \in [1..n -> S] /\ DOMAIN s = 1..n
    BY LenProperties
<1> HIDE DEF n
<1>2. t = [i \in 1..n |-> s[(n - i) + 1]]
    BY DEF Reverse, n
<1>3. \A i \in 1..n : (n - i) + 1 \in 1..n /\ (n - ((n - i) + 1)) + 1 = i
    BY <1>1
<1> HIDE DEF t
<1>4. t \in [1..n -> S] /\ t \in Seq(S) /\ DOMAIN t = 1..n
    BY <1>1, <1>2, <1>3
<1>5. ToSet(t) = ToSet(s)
    <2>1. \A i \in 1..n : t[i] \in ToSet(s)
        BY <1>1, <1>2, <1>3 DEF ToSet
    <2>2. \A i \in 1..n : s[i] = t[(n - i) + 1]
        BY <1>2, <1>3
    <2>3. \A i \in 1..n : s[i] \in ToSet(t)
        BY <1>3, <1>4, <2>2 DEF ToSet
    <2> QED
        BY <1>1, <1>4, <2>1, <2>3 DEF ToSet
<1>6. ASSUME IsInjective(s)
      PROVE  IsInjective(t)
    <2> SUFFICES ASSUME NEW i \in 1..n, NEW j \in 1..n, t[i] = t[j]
                 PROVE  i = j
        BY <1>4 DEF IsInjective
    <2>1. (n - i) + 1 = (n - j) + 1
        BY <1>1, <1>2, <1>3, <1>6 DEF IsInjective
    <2> QED
        BY <1>1, <2>1
<1> QED
    BY <1>4, <1>5, <1>6 DEF t

\* So has a sequence that is there twice.
LEMMA ConcatSet ==
    ASSUME NEW S, NEW s \in Seq(S)
    PROVE  s \o s \in Seq(S) /\ ToSet(s \o s) = ToSet(s)
<1> DEFINE n == Len(s)
           t == s \o s
<1>1. n \in Nat /\ \A x : x \in ToSet(s) <=> \E i \in 1..n : s[i] = x
    BY SeqSet
<1>2. t \in Seq(S) /\ Len(t) = n + n /\ \A i \in 1..(n + n) : t[i] = IF i <= n THEN s[i] ELSE s[i - n]
    BY ConcatProperties
<1> HIDE DEF n, t
<1>3. \A x : x \in ToSet(t) <=> \E i \in 1..(n + n) : t[i] = x
    BY <1>2, SeqSet
<1>4. \A i \in 1..(n + n) : IF i <= n THEN i \in 1..n ELSE i - n \in 1..n
    BY <1>1
<1>5. \A i \in 1..n : i \in 1..(n + n) /\ i <= n
    BY <1>1
<1>6. \A x \in ToSet(t) : x \in ToSet(s)
    BY <1>1, <1>2, <1>3, <1>4
<1>7. \A x \in ToSet(s) : x \in ToSet(t)
    BY <1>1, <1>2, <1>3, <1>5
<1> QED
    BY <1>2, <1>6, <1>7 DEF t

\* Every variant of the graph is well-formed.
LEMMA VariantsBuilt ==
    ASSUME TypeOK, NEW g \in Variants
    PROVE  g \in GraphsOn(Nodes)
<1>1. Graph \in GraphsOn(Nodes)
    BY GraphBuilt
<1>2. /\ Graph = [nodes |-> Graph.nodes, edges |-> Graph.edges]
      /\ Graph.nodes \in Seq(Nodes) /\ IsInjective(Graph.nodes) /\ Graph.edges \in Seq(Nodes \X Nodes)
      /\ \A e \in ToSet(Graph.edges) : /\ e[1] \in ToSet(Graph.nodes) /\ e[2] \in ToSet(Graph.nodes)
                                       /\ e[1] # e[2]
    BY <1>1, GraphFields
<1> DEFINE E == Nodes \X Nodes
<1>3. CASE g = [nodes |-> Reverse(Graph.nodes), edges |-> Reverse(Graph.edges)]
    <2> DEFINE ns == Reverse(Graph.nodes)
               es == Reverse(Graph.edges)
    <2>0. Graph.edges \in Seq(E)
        BY <1>2
    <2> HIDE DEF E
    <2>1. /\ ns \in Seq(Nodes) /\ IsInjective(ns) /\ ToSet(ns) = ToSet(Graph.nodes)
          /\ es \in Seq(E) /\ ToSet(es) = ToSet(Graph.edges)
        BY <1>2, <2>0, ReverseSet
    <2> HIDE DEF ns, es
    <2>2. \A e \in ToSet(es) : e[1] \in ToSet(ns) /\ e[2] \in ToSet(ns) /\ e[1] # e[2]
        BY <1>2, <2>1
    <2>3. [nodes |-> ns, edges |-> es] \in GraphsOn(Nodes)
        BY <2>1, <2>2, MakeGraph DEF E
    <2> QED
        BY <1>3, <2>3 DEF ns, es
<1>4. CASE g = [Graph EXCEPT !.edges = @ \o @]
    <2> DEFINE ns == Graph.nodes
               es == Graph.edges \o Graph.edges
    <2>0. Graph.edges \in Seq(E)
        BY <1>2
    <2> HIDE DEF E
    <2>1. es \in Seq(E) /\ ToSet(es) = ToSet(Graph.edges)
        BY <2>0, ConcatSet
    <2>2. g = [nodes |-> ns, edges |-> es]
        BY <1>2, <1>4
    <2> HIDE DEF es
    <2>3. \A e \in ToSet(es) : e[1] \in ToSet(ns) /\ e[2] \in ToSet(ns) /\ e[1] # e[2]
        BY <1>2, <2>1
    <2>4. ns \in Seq(Nodes) /\ IsInjective(ns)
        BY <1>2
    <2> HIDE DEF ns
    <2>5. [nodes |-> ns, edges |-> es] \in GraphsOn(Nodes)
        BY <2>1, <2>3, <2>4, MakeGraph DEF E
    <2> QED
        BY <2>2, <2>5
<1>5. ASSUME NEW n \in Nodes, g = RemoveNode(Graph, n)
      PROVE  g \in GraphsOn(Nodes)
    BY <1>1, <1>5, GraphStaysWellFormed
<1> QED
    BY <1>1, <1>3, <1>4, <1>5 DEF Variants

(***************************************************************************)
(* The executors.                                                          *)
(***************************************************************************)

\* execute and TaskRunner agree with validate on every finite graph: a call in
\* which nothing fails completes what validate has ordered, and the rounds are the
\* parallel groups.
THEOREM AllExecutorsAgree == Spec => []ExecutorsAgree
<1>1. TypeOK /\ DependencyInv /\ UnblockedInv /\ ReturnAccounts => ExecutorsAgree
    <2> SUFFICES ASSUME TypeOK, DependencyInv, UnblockedInv, ReturnAccounts
                 PROVE  ExecutorsAgree
        OBVIOUS
    <2>1. CallbackSafe /\ main = "returned" /\ (\A n \in Nodes : status[n] # "failed") =>
             {n \in Nodes : status[n] = "completed"} = ToSet(TopoSort(Graph))
        BY CompletesTheOrder
    <2>2. \A g \in Variants : Rounds(g) = ParallelGroups(g) /\ (RunReturns(g) <=> Valid(g))
        BY VariantsBuilt, RoundsAreGroups, RunReturnsIfValid
    <2> QED
        BY <2>1, <2>2 DEF ExecutorsAgree
<1> QED
    BY <1>1, TypeCorrect, DependencyInvariant, UnblockedInvariant, ReturnCorrect, PTL

(***************************************************************************)
(* The critical path.                                                      *)
(***************************************************************************)

\* The variables of _compute_critical_path and what they start with.
DistStates(g) == [dist : [NodesOf(g) -> Nat], prev : [NodesOf(g) -> Seq(NodesOf(g))]]
DistStart(g) == [dist |-> [n \in NodesOf(g) |-> 0], prev |-> [n \in NodesOf(g) |-> <<>>]]

\* What is done for one node of the order.
RelaxAll(g, s, m, latency) ==
    LET To(t, c) == Relax(t, m, latency[m], c) IN FoldLeft(To, s, Adj(g, m))

\* Relaxing one child changes that child only, and if its way gets longer.
LEMMA RelaxIs ==
    ASSUME NEW g, NEW s \in DistStates(g), NEW m \in NodesOf(g), NEW x \in Nat, NEW c \in NodesOf(g)
    PROVE  /\ Relax(s, m, x, c) \in DistStates(g)
           /\ \A e \in NodesOf(g) : e # c => /\ Relax(s, m, x, c).dist[e] = s.dist[e]
                                            /\ Relax(s, m, x, c).prev[e] = s.prev[e]
           /\ IF s.dist[m] + x > s.dist[c]
              THEN Relax(s, m, x, c).dist[c] = s.dist[m] + x /\ Relax(s, m, x, c).prev[c] = <<m>>
              ELSE Relax(s, m, x, c) = s
<1> DEFINE N == NodesOf(g)
           r == Relax(s, m, x, c)
           d == [s.dist EXCEPT ![c] = s.dist[m] + x]
           p == [s.prev EXCEPT ![c] = <<m>>]
<1>1. s.dist \in [N -> Nat] /\ s.prev \in [N -> Seq(N)]
    BY DEF DistStates
<1>2. d \in [N -> Nat] /\ d[c] = s.dist[m] + x /\ \A e \in N : e # c => d[e] = s.dist[e]
    BY <1>1
<1>3. p \in [N -> Seq(N)] /\ p[c] = <<m>> /\ \A e \in N : e # c => p[e] = s.prev[e]
    <2>1. <<m>> \in Seq(N)
        OBVIOUS
    <2> HIDE DEF N
    <2> QED
        BY <1>1, <2>1 DEF N
<1>4. r = IF s.dist[m] + x > s.dist[c] THEN [dist |-> d, prev |-> p] ELSE s
    BY DEF Relax
<1> HIDE DEF d, p, r
<1>5. CASE s.dist[m] + x > s.dist[c]
    <2>1. r.dist = d /\ r.prev = p /\ r \in DistStates(g)
        BY <1>2, <1>3, <1>4, <1>5 DEF DistStates
    <2> QED
        BY <1>2, <1>3, <1>5, <2>1 DEF r
<1>6. CASE ~ (s.dist[m] + x > s.dist[c])
    <2>1. r = s
        BY <1>4, <1>6
    <2> QED
        BY <1>6, <2>1 DEF r
<1> QED
    BY <1>5, <1>6

\* The children of a node are relaxed one after the other.
RelaxRun(f, g, s, m, latency, a) ==
    /\ f \in [0..Len(a) -> DistStates(g)] /\ f[0] = s /\ f[Len(a)] = RelaxAll(g, s, m, latency)
    /\ \A k \in 1..Len(a) : f[k] = Relax(f[k - 1], m, latency[m], a[k])

\* Its steps exist.
LEMMA RelaxSteps ==
    ASSUME NEW g, NEW s \in DistStates(g), NEW m \in NodesOf(g), NEW latency, latency[m] \in Nat,
           NEW a \in Seq(NodesOf(g)), a = Adj(g, m)
    PROVE  \E f : RelaxRun(f, g, s, m, latency, a)
<1> DEFINE n == Len(a)
           V == DistStates(g)
           b == s
           After(v, x) == Relax(v, m, latency[m], x)
           G == [k \in 1..n |-> [v \in V |-> After(v, a[k])]]
           Iter(it) == it = [T \in SUBSET DOMAIN a |->
                               IF T = {} THEN b ELSE After(it[T \ {Max(T)}], a[Max(T)])]
<1>1. RelaxAll(g, s, m, latency) = (CHOOSE it : Iter(it))[DOMAIN a]
    BY Zenon DEF RelaxAll, FoldLeft, MapThenFoldSet
<1>2. n \in Nat /\ DOMAIN a = 1..n /\ b \in V
    BY LenProperties
<1>3. \A k \in 1..n : \A v \in V : After(v, a[k]) \in V
    <2>1. \A k \in 1..n : a[k] \in NodesOf(g)
        BY <1>2
    <2> QED
        BY <2>1, RelaxIs
<1> HIDE DEF n, V, b, After
<1>4. Foldable(V, b, n, G) /\ \A k \in 1..n : \A v \in V : G[k][v] = After(v, a[k])
    BY <1>2, <1>3 DEF Foldable
<1>5. \A T \in SUBSET (1..n) : T # {} => Max(T) \in 1..n
    BY <1>2, MaxPosition
<1> HIDE DEF G
<1>6. \E it : Iter(it)
    <2>1. PICK it : IsFold(it, V, b, n, G)
        BY <1>4, FoldExists, Zenon
    <2>2. ASSUME NEW T \in SUBSET (1..n)
          PROVE  it[T] = IF T = {} THEN b ELSE After(it[T \ {Max(T)}], a[Max(T)])
        BY <1>4, <1>5, <2>1 DEF IsFold
    <2> QED
        BY <1>2, <2>1, <2>2 DEF IsFold
<1>7. PICK it : RelaxAll(g, s, m, latency) = it[DOMAIN a] /\ Iter(it)
    <2> HIDE DEF Iter
    <2> QED
        BY <1>1, <1>6
<1>8. Follows(it, V, b, n, G)
    <2>1. ASSUME NEW T \in SUBSET (1..n)
          PROVE  it[T] = IF T = {} THEN b ELSE After(it[T \ {Max(T)}], a[Max(T)])
        BY <1>2, <1>7
    <2>2. ASSUME NEW T \in SUBSET (1..n), T # {}, it[T \ {Max(T)}] \in V
          PROVE  it[T] = G[Max(T)][it[T \ {Max(T)}]]
        BY <1>4, <1>5, <2>1, <2>2
    <2> QED
        BY <2>1, <2>2 DEF Follows
<1>9. PICK f : Steps(f, V, b, n, G) /\ f[n] = it[1..n]
    <2>1. Foldable(V, b, n, G)
        BY <1>4
    <2> QED
        BY <1>8, <2>1, FoldValues
<1>10. \A k \in 1..n : f[k] = After(f[k - 1], a[k])
    <2> TAKE k \in 1..n
    <2>1. f[k - 1] \in V
        BY <1>2, <1>9 DEF Steps
    <2> QED
        BY <1>4, <1>9, <2>1 DEF Steps
<1>11. f \in [0..n -> V] /\ f[0] = b /\ f[n] = RelaxAll(g, s, m, latency)
    BY <1>2, <1>7, <1>9 DEF Steps
<1>12. RelaxRun(f, g, s, m, latency, a)
    BY <1>10, <1>11, Zenon DEF RelaxRun, n, V, b, After
<1> QED
    BY <1>12

\* r is s after the children in D of node m, where its way ends with w, were relaxed.
Relaxed(g, s, m, x, D, r) ==
    /\ r \in DistStates(g)
    /\ \A c \in NodesOf(g) : r.dist[c] >= s.dist[c]
    /\ \A c \in NodesOf(g) :
          \/ r.dist[c] = s.dist[c] /\ r.prev[c] = s.prev[c]
          \/ <<m, c>> \in EdgesOf(g) /\ r.dist[c] = s.dist[m] + x /\ r.prev[c] = <<m>>
    /\ \A c \in D : r.dist[c] >= s.dist[m] + x

\* Relaxing one more child.
LEMMA RelaxKeeps ==
    ASSUME NEW S, NEW g \in GraphsOn(S), NEW s \in DistStates(g), NEW m \in NodesOf(g), NEW x \in Nat,
           NEW D \in SUBSET NodesOf(g), NEW v, Relaxed(g, s, m, x, D, v),
           NEW c \in NodesOf(g), <<m, c>> \in EdgesOf(g)
    PROVE  Relaxed(g, s, m, x, D \cup {c}, Relax(v, m, x, c))
<1> DEFINE N == NodesOf(g)
           r == Relax(v, m, x, c)
<1>1. /\ v \in DistStates(g)
      /\ \A e \in N : v.dist[e] >= s.dist[e]
      /\ \A e \in N :
            \/ v.dist[e] = s.dist[e] /\ v.prev[e] = s.prev[e]
            \/ <<m, e>> \in EdgesOf(g) /\ v.dist[e] = s.dist[m] + x /\ v.prev[e] = <<m>>
      /\ \A e \in D : v.dist[e] >= s.dist[m] + x
    BY DEF Relaxed
<1>2. <<m, m>> \notin EdgesOf(g)
    <2>1. \A e \in EdgesOf(g) : e[1] # e[2]
        BY GraphFacts
    <2> QED
        BY <2>1
<1>3. v.dist[m] = s.dist[m]
    BY <1>1, <1>2
<1>4. /\ r \in DistStates(g)
      /\ \A e \in N : e # c => r.dist[e] = v.dist[e] /\ r.prev[e] = v.prev[e]
      /\ IF v.dist[m] + x > v.dist[c]
         THEN r.dist[c] = v.dist[m] + x /\ r.prev[c] = <<m>>
         ELSE r = v
    BY <1>1, RelaxIs
<1>5. v.dist \in [N -> Nat] /\ s.dist \in [N -> Nat] /\ r.dist \in [N -> Nat]
    BY <1>1, <1>4 DEF DistStates
<1> HIDE DEF r, N
<1>6. m \in N /\ c \in N /\ D \subseteq N
    BY DEF N
<1>7. CASE v.dist[m] + x > v.dist[c]
    <2>1. r.dist[c] = s.dist[m] + x /\ r.prev[c] = <<m>> /\ r.dist[c] > v.dist[c]
        BY <1>3, <1>4, <1>7
    <2>2. \A e \in N : r.dist[e] >= s.dist[e]
        BY <1>1, <1>4, <1>5, <1>6, <2>1
    <2>3. \A e \in N :
            \/ r.dist[e] = s.dist[e] /\ r.prev[e] = s.prev[e]
            \/ <<m, e>> \in EdgesOf(g) /\ r.dist[e] = s.dist[m] + x /\ r.prev[e] = <<m>>
        BY <1>1, <1>4, <2>1
    <2>4. \A e \in D \cup {c} : r.dist[e] >= s.dist[m] + x
        BY <1>1, <1>4, <1>5, <1>6, <2>1
    <2> QED
        BY <1>4, <2>2, <2>3, <2>4 DEF Relaxed, r, N
<1>8. CASE ~ (v.dist[m] + x > v.dist[c])
    <2>1. r = v
        BY <1>4, <1>8
    <2>2. v.dist[c] >= s.dist[m] + x
        BY <1>3, <1>5, <1>6, <1>8
    <2> QED
        BY <1>1, <2>1, <2>2 DEF Relaxed, r, N
<1> QED
    BY <1>7, <1>8

\* A node of the order relaxes all its children and nothing else.
LEMMA RelaxAllIs ==
    ASSUME NEW S, NEW g \in GraphsOn(S), NEW s \in DistStates(g), NEW m \in NodesOf(g),
           NEW latency, latency[m] \in Nat
    PROVE  /\ RelaxAll(g, s, m, latency) \in DistStates(g)
           /\ Relaxed(g, s, m, latency[m], {c \in NodesOf(g) : <<m, c>> \in EdgesOf(g)},
                      RelaxAll(g, s, m, latency))
<1> DEFINE N == NodesOf(g)
           a == Adj(g, m)
           n == Len(a)
           x == latency[m]
           Done(k) == {c \in N : \E i \in 1..k : a[i] = c}
<1>1. a \in Seq(N) /\ \A c : c \in ToSet(a) <=> <<m, c>> \in EdgesOf(g)
    BY AdjIs
<1>2. PICK f : RelaxRun(f, g, s, m, latency, a)
    BY <1>1, RelaxSteps
<1>3. /\ f[0] = s /\ f[n] = RelaxAll(g, s, m, latency)
      /\ \A k \in 1..n : f[k] = Relax(f[k - 1], m, x, a[k])
    BY <1>2, Zenon DEF RelaxRun
<1> HIDE DEF a
<1>4. n \in Nat /\ \A c : c \in ToSet(a) <=> \E i \in 1..n : a[i] = c
    <2> HIDE DEF N
    <2> QED
        BY <1>1, SeqSet
<1>5. \A k \in 1..n : a[k] \in N /\ <<m, a[k]>> \in EdgesOf(g)
    <2>1. \A k \in 1..n : a[k] \in ToSet(a)
        BY <1>4
    <2>2. \A k \in 1..n : a[k] \in N
        BY <1>1, LenProperties
    <2> QED
        BY <1>1, <2>1, <2>2
<1> HIDE DEF n, x
<1> DEFINE P == {k \in 0..n : Relaxed(g, s, m, x, Done(k), f[k])}
<1>6. 0 \in P
    <2>1. Done(0) = {}
        OBVIOUS
    <2>2. s.dist \in [N -> Nat]
        BY DEF DistStates
    <2>3. Relaxed(g, s, m, x, {}, s)
        BY <2>2 DEF Relaxed
    <2> QED
        BY <1>3, <1>4, <2>1, <2>3
<1>7. ASSUME NEW k \in 0..(n - 1), k \in P
      PROVE  k + 1 \in P
    <2>1. k + 1 \in 1..n /\ (k + 1) - 1 = k /\ k + 1 \in 0..n /\ k \in Nat
        BY <1>4, <1>7
    <2>2. f[k + 1] = Relax(f[k], m, x, a[k + 1])
        BY <1>3, <2>1
    <2>3. Done(k + 1) = Done(k) \cup {a[k + 1]}
        <3>1. \A i : i \in 1..(k + 1) <=> i \in 1..k \/ i = k + 1
            BY <2>1
        <3> QED
            BY <1>5, <2>1, <3>1
    <2>4. Relaxed(g, s, m, x, Done(k), f[k]) /\ Done(k) \in SUBSET NodesOf(g)
        BY <1>7
    <2> DEFINE c == a[k + 1]
               E == Done(k)
    <2>5. c \in NodesOf(g) /\ <<m, c>> \in EdgesOf(g) /\ x \in Nat
        BY <1>5, <2>1 DEF x
    <2> HIDE DEF c, E
    <2>6. Relaxed(g, s, m, x, E \cup {c}, Relax(f[k], m, x, c))
        BY <2>4, <2>5, RelaxKeeps DEF E
    <2> QED
        BY <2>1, <2>2, <2>3, <2>6 DEF c, E
<1> HIDE DEF P
<1>8. n \in P
    <2>1. \A k \in 0..n : k \in P
        BY <1>4, <1>6, <1>7, UpTo
    <2> QED
        BY <1>4, <2>1
<1>9. Relaxed(g, s, m, x, Done(n), RelaxAll(g, s, m, latency))
    BY <1>3, <1>8 DEF P
<1>10. Done(n) = {c \in NodesOf(g) : <<m, c>> \in EdgesOf(g)}
    BY <1>1, <1>4
<1> QED
    BY <1>9, <1>10 DEF Relaxed, x

\* What the critical path needs to know of the order.
LEMMA OrderFacts ==
    ASSUME NEW S, NEW g \in GraphsOn(S)
    PROVE  /\ TopoSort(g) \in Seq(NodesOf(g))
           /\ Len(TopoSort(g)) \in Nat /\ DOMAIN TopoSort(g) = 1..Len(TopoSort(g))
           /\ \A i \in 1..Len(TopoSort(g)) : TopoSort(g)[i] \in NodesOf(g)
           /\ \A c : c \in ToSet(TopoSort(g)) <=> \E i \in 1..Len(TopoSort(g)) : TopoSort(g)[i] = c
           /\ ToSet(TopoSort(g)) = NodesOf(g) \ Blocked(g)
           /\ IsInjective(TopoSort(g))
           /\ \A i, j \in 1..Len(TopoSort(g)) :
                 <<TopoSort(g)[i], TopoSort(g)[j]>> \in EdgesOf(g) => i < j
<1> DEFINE o == TopoSort(g)
           N == NodesOf(g)
<1>1. o \in Seq(N)
    BY SortEnds, SortIsLoop DEF SortInv, LoopStates
<1>2. /\ IsInjective(o) /\ ToSet(o) = N \ Blocked(g)
      /\ \A i, j \in DOMAIN o : <<o[i], o[j]>> \in EdgesOf(g) => i < j
    BY OrderCorrect DEF OrderIsRight
<1> HIDE DEF o, N
<1>3. /\ Len(o) \in Nat /\ DOMAIN o = 1..Len(o)
      /\ \A c : c \in ToSet(o) <=> \E i \in 1..Len(o) : o[i] = c
    BY <1>1, SeqSet
<1>4. \A i \in 1..Len(o) : o[i] \in N
    BY <1>1, LenProperties
<1> QED
    BY <1>1, <1>2, <1>3, <1>4 DEF o, N

\* No way is found yet.
LEMMA DistStartType ==
    ASSUME NEW g
    PROVE  /\ DistStart(g) \in DistStates(g)
           /\ \A c \in NodesOf(g) : DistStart(g).dist[c] = 0 /\ DistStart(g).prev[c] = <<>>
<1>1. <<>> \in Seq(NodesOf(g))
    OBVIOUS
<1> QED
    BY <1>1 DEF DistStart, DistStates

\* The nodes are relaxed in the order of validate.
DistanceRun(f, S, g, latency) ==
    /\ f \in [0..Len(TopoSort(g)) -> DistStates(g)] /\ f[0] = DistStart(g) /\ f[Len(TopoSort(g))] = Distances(g, latency)
    /\ \A k \in 1..Len(TopoSort(g)) : f[k] = RelaxAll(g, f[k - 1], TopoSort(g)[k], latency)

\* Its steps exist.
LEMMA DistanceSteps ==
    ASSUME NEW S, NEW g \in GraphsOn(S), NEW latency, \A y \in NodesOf(g) : latency[y] \in Nat
    PROVE  \E f : DistanceRun(f, S, g, latency)
<1> DEFINE n == Len(TopoSort(g))
           V == DistStates(g)
           b == DistStart(g)
           After(v, x) == RelaxAll(g, v, x, latency)
           G == [k \in 1..n |-> [v \in V |-> After(v, TopoSort(g)[k])]]
           Iter(it) == it = [T \in SUBSET DOMAIN TopoSort(g) |->
                               IF T = {} THEN b ELSE After(it[T \ {Max(T)}], TopoSort(g)[Max(T)])]
<1>1. Distances(g, latency) = (CHOOSE it : Iter(it))[DOMAIN TopoSort(g)]
    BY Zenon DEF Distances, RelaxAll, DistStart, FoldLeft, MapThenFoldSet
<1>2. n \in Nat /\ DOMAIN TopoSort(g) = 1..n /\ b \in V
    BY OrderFacts, DistStartType
<1>3. \A k \in 1..n : \A v \in V : After(v, TopoSort(g)[k]) \in V
    <2>1. \A k \in 1..n : TopoSort(g)[k] \in NodesOf(g)
        BY OrderFacts
    <2>2. \A k \in 1..n : latency[TopoSort(g)[k]] \in Nat
        BY <2>1
    <2> QED
        BY <2>1, <2>2, RelaxAllIs
<1> HIDE DEF n, V, b, After
<1>4. Foldable(V, b, n, G) /\ \A k \in 1..n : \A v \in V : G[k][v] = After(v, TopoSort(g)[k])
    BY <1>2, <1>3 DEF Foldable
<1>5. \A T \in SUBSET (1..n) : T # {} => Max(T) \in 1..n
    BY <1>2, MaxPosition
<1> HIDE DEF G
<1>6. \E it : Iter(it)
    <2>1. PICK it : IsFold(it, V, b, n, G)
        BY <1>4, FoldExists, Zenon
    <2>2. ASSUME NEW T \in SUBSET (1..n)
          PROVE  it[T] = IF T = {} THEN b ELSE After(it[T \ {Max(T)}], TopoSort(g)[Max(T)])
        BY <1>4, <1>5, <2>1 DEF IsFold
    <2> QED
        BY <1>2, <2>1, <2>2 DEF IsFold
<1>7. PICK it : Distances(g, latency) = it[DOMAIN TopoSort(g)] /\ Iter(it)
    <2> HIDE DEF Iter
    <2> QED
        BY <1>1, <1>6
<1>8. Follows(it, V, b, n, G)
    <2>1. ASSUME NEW T \in SUBSET (1..n)
          PROVE  it[T] = IF T = {} THEN b ELSE After(it[T \ {Max(T)}], TopoSort(g)[Max(T)])
        BY <1>2, <1>7
    <2>2. ASSUME NEW T \in SUBSET (1..n), T # {}, it[T \ {Max(T)}] \in V
          PROVE  it[T] = G[Max(T)][it[T \ {Max(T)}]]
        BY <1>4, <1>5, <2>1, <2>2
    <2> QED
        BY <2>1, <2>2 DEF Follows
<1>9. PICK f : Steps(f, V, b, n, G) /\ f[n] = it[1..n]
    <2>1. Foldable(V, b, n, G)
        BY <1>4
    <2> QED
        BY <1>8, <2>1, FoldValues
<1>10. \A k \in 1..n : f[k] = After(f[k - 1], TopoSort(g)[k])
    <2> TAKE k \in 1..n
    <2>1. f[k - 1] \in V
        BY <1>2, <1>9 DEF Steps
    <2> QED
        BY <1>4, <1>9, <2>1 DEF Steps
<1>11. f \in [0..n -> V] /\ f[0] = b /\ f[n] = Distances(g, latency)
    BY <1>2, <1>7, <1>9 DEF Steps
<1>12. DistanceRun(f, S, g, latency)
    BY <1>10, <1>11, Zenon DEF DistanceRun, n, V, b, After
<1> QED
    BY <1>12

\* After the first k nodes of the order o each way follows an edge from the
\* node it says, and no edge from these nodes makes a longer one.
WayInv(g, latency, o, k, v) ==
    /\ v \in DistStates(g)
    /\ \A c \in NodesOf(g) :
          \/ v.prev[c] = <<>> /\ v.dist[c] = 0
          \/ \E i \in 1..k : /\ v.prev[c] = <<o[i]>> /\ <<o[i], c>> \in EdgesOf(g)
                             /\ v.dist[c] = v.dist[o[i]] + latency[o[i]]
    /\ \A i \in 1..k : \A c \in NodesOf(g) :
          <<o[i], c>> \in EdgesOf(g) => v.dist[c] >= v.dist[o[i]] + latency[o[i]]

\* The next node of the order keeps it: its children come later in the order,
\* so the ways to the nodes before stay as they are.
LEMMA WayKeeps ==
    ASSUME NEW S, NEW g \in GraphsOn(S), NEW latency, \A y \in NodesOf(g) : latency[y] \in Nat, NEW o, o = TopoSort(g),
           NEW k \in 0..(Len(o) - 1), NEW v, WayInv(g, latency, o, k, v)
    PROVE  WayInv(g, latency, o, k + 1, RelaxAll(g, v, o[k + 1], latency))
<1> DEFINE N == NodesOf(g)
           m == o[k + 1]
           w == RelaxAll(g, v, m, latency)
<1>1. /\ Len(o) \in Nat /\ \A i \in 1..Len(o) : o[i] \in N
      /\ \A i, j \in 1..Len(o) : <<o[i], o[j]>> \in EdgesOf(g) => i < j
    BY OrderFacts
<1>2. k \in Nat /\ k + 1 \in 1..Len(o) /\ \A i \in 1..(k + 1) : i \in 1..Len(o) /\ (i \in 1..k \/ i = k + 1)
    BY <1>1
<1>3. m \in N /\ latency[m] \in Nat
    BY <1>1, <1>2
<1>4. /\ v \in DistStates(g)
      /\ \A c \in N :
          \/ v.prev[c] = <<>> /\ v.dist[c] = 0
          \/ \E i \in 1..k : /\ v.prev[c] = <<o[i]>> /\ <<o[i], c>> \in EdgesOf(g)
                             /\ v.dist[c] = v.dist[o[i]] + latency[o[i]]
      /\ \A i \in 1..k : \A c \in N :
          <<o[i], c>> \in EdgesOf(g) => v.dist[c] >= v.dist[o[i]] + latency[o[i]]
    BY DEF WayInv
<1>5. /\ w \in DistStates(g)
      /\ Relaxed(g, v, m, latency[m], {c \in N : <<m, c>> \in EdgesOf(g)}, w)
    <2>1. m \in NodesOf(g) /\ latency[m] \in Nat /\ v \in DistStates(g)
        BY <1>3, <1>4
    <2> HIDE DEF m
    <2>2. /\ RelaxAll(g, v, m, latency) \in DistStates(g)
          /\ Relaxed(g, v, m, latency[m], {c \in NodesOf(g) : <<m, c>> \in EdgesOf(g)},
                     RelaxAll(g, v, m, latency))
        BY <2>1, RelaxAllIs
    <2> QED
        BY <2>2
<1> HIDE DEF w
<1>6. /\ \A c \in N : w.dist[c] >= v.dist[c]
      /\ \A c \in N :
            \/ w.dist[c] = v.dist[c] /\ w.prev[c] = v.prev[c]
            \/ <<m, c>> \in EdgesOf(g) /\ w.dist[c] = v.dist[m] + latency[m] /\ w.prev[c] = <<m>>
      /\ \A c \in N : <<m, c>> \in EdgesOf(g) => w.dist[c] >= v.dist[m] + latency[m]
    BY <1>5 DEF Relaxed
<1>7. \A i \in 1..(k + 1) : w.dist[o[i]] = v.dist[o[i]]
    <2> TAKE i \in 1..(k + 1)
    <2>1. i \in 1..Len(o) /\ o[i] \in N
        BY <1>1, <1>2
    <2>2. <<m, o[i]>> \notin EdgesOf(g)
        <3>1. <<o[k + 1], o[i]>> \in EdgesOf(g) => k + 1 < i
            BY <1>1, <1>2, <2>1
        <3> QED
            BY <1>2, <3>1
    <2> QED
        BY <1>6, <2>1, <2>2
<1>8. w.dist \in [N -> Nat] /\ v.dist \in [N -> Nat]
    BY <1>4, <1>5 DEF DistStates
<1>9. \A i \in 1..(k + 1) : o[i] \in N /\ latency[o[i]] \in Nat /\ v.dist[o[i]] \in Nat
    BY <1>1, <1>2, <1>8
<1>10. ASSUME NEW c \in N
       PROVE  \/ w.prev[c] = <<>> /\ w.dist[c] = 0
              \/ \E i \in 1..(k + 1) : /\ w.prev[c] = <<o[i]>> /\ <<o[i], c>> \in EdgesOf(g)
                                       /\ w.dist[c] = w.dist[o[i]] + latency[o[i]]
    <2>1. CASE <<m, c>> \in EdgesOf(g) /\ w.dist[c] = v.dist[m] + latency[m] /\ w.prev[c] = <<m>>
        <3>1. k + 1 \in 1..(k + 1)
            BY <1>2
        <3> QED
            BY <1>7, <2>1, <3>1
    <2>2. CASE w.dist[c] = v.dist[c] /\ w.prev[c] = v.prev[c]
        <3>1. \A i \in 1..k : i \in 1..(k + 1)
            BY <1>2
        <3> QED
            BY <1>4, <1>7, <2>2, <3>1
    <2> QED
        BY <1>6, <2>1, <2>2
<1>11. ASSUME NEW i \in 1..(k + 1), NEW c \in N, <<o[i], c>> \in EdgesOf(g)
       PROVE  w.dist[c] >= w.dist[o[i]] + latency[o[i]]
    <2>1. w.dist[o[i]] = v.dist[o[i]] /\ w.dist[c] \in Nat /\ v.dist[c] \in Nat /\ w.dist[c] >= v.dist[c]
        BY <1>6, <1>7, <1>8
    <2>2. CASE i = k + 1
        BY <1>6, <1>11, <2>1, <2>2
    <2>3. CASE i \in 1..k
        <3>1. v.dist[c] >= v.dist[o[i]] + latency[o[i]]
            BY <1>4, <1>11, <2>3
        <3> QED
            BY <1>9, <2>1, <3>1
    <2> QED
        BY <1>2, <2>2, <2>3
<1> HIDE DEF m, N
<1> QED
    BY <1>5, <1>10, <1>11 DEF WayInv, N, w, m

\* What _compute_critical_path has found when the order is done.
LEMMA DistancesAre ==
    ASSUME NEW S, NEW g \in GraphsOn(S), NEW latency, \A y \in NodesOf(g) : latency[y] \in Nat
    PROVE  WayInv(g, latency, TopoSort(g), Len(TopoSort(g)), Distances(g, latency))
<1> DEFINE o == TopoSort(g)
           n == Len(o)
<1>1. PICK f : DistanceRun(f, S, g, latency)
    BY DistanceSteps
<1>2. /\ f[0] = DistStart(g) /\ f[n] = Distances(g, latency)
      /\ \A k \in 1..n : f[k] = RelaxAll(g, f[k - 1], o[k], latency)
    BY <1>1, Zenon DEF DistanceRun
<1>3. n \in Nat
    BY OrderFacts
<1>0. o = TopoSort(g) /\ n = Len(o)
    OBVIOUS
<1> HIDE DEF o, n
<1> DEFINE P == {k \in 0..n : WayInv(g, latency, o, k, f[k])}
<1>4. 0 \in P
    BY <1>2, <1>3, DistStartType DEF WayInv
<1>5. ASSUME NEW k \in 0..(n - 1), k \in P
      PROVE  k + 1 \in P
    <2>1. k + 1 \in 1..n /\ (k + 1) - 1 = k /\ k + 1 \in 0..n /\ WayInv(g, latency, o, k, f[k])
        BY <1>3, <1>5
    <2>2. f[k + 1] = RelaxAll(g, f[k], o[k + 1], latency)
        BY <1>2, <2>1
    <2>3. WayInv(g, latency, o, k + 1, RelaxAll(g, f[k], o[k + 1], latency))
        BY <1>0, <2>1, WayKeeps
    <2> QED
        BY <2>1, <2>2, <2>3
<1> HIDE DEF P
<1>6. n \in P
    <2>1. \A k \in 0..n : k \in P
        BY <1>3, <1>4, <1>5, UpTo
    <2> QED
        BY <1>3, <2>1
<1> QED
    BY <1>0, <1>2, <1>6 DEF P

\* The latency of the nodes is added up before the last one.
LEMMA FrontIs ==
    ASSUME NEW S, NEW p \in Seq(S), p # <<>>
    PROVE  /\ Front(p) \in Seq(S) /\ Len(Front(p)) = Len(p) - 1 /\ Len(p) \in Nat \ {0}
           /\ \A i \in 1..(Len(p) - 1) : Front(p)[i] = p[i] /\ p[i] \in S /\ p[i + 1] \in S
           /\ p[Len(p)] \in S
<1> DEFINE n == Len(p)
<1>1. n \in Nat /\ p \in [1..n -> S] /\ n # 0
    BY LenProperties, EmptySeq
<1>2. /\ SubSeq(p, 1, n - 1) \in Seq(S)
      /\ Len(SubSeq(p, 1, n - 1)) = n - 1
      /\ \A i \in 1..(n - 1) : SubSeq(p, 1, n - 1)[i] = p[i]
    <2> DEFINE q == SubSeq(p, 1, n - 1)
               h == n - 1
    <2>1. 1 \in Int /\ h \in Int /\ \A i \in 1..h : p[i] \in S
        BY <1>1
    <2> HIDE DEF h
    <2>2. /\ SubSeq(p, 1, h) \in Seq(S)
          /\ Len(SubSeq(p, 1, h)) = IF 1 <= h THEN h - 1 + 1 ELSE 0
          /\ \A i \in 1..(h - 1 + 1) : SubSeq(p, 1, h)[i] = p[1 + i - 1]
        BY <2>1, SubSeqProperties
    <2>5. /\ q \in Seq(S)
          /\ Len(q) = IF 1 <= h THEN h - 1 + 1 ELSE 0
          /\ \A i \in 1..(h - 1 + 1) : q[i] = p[1 + i - 1]
        BY <2>2 DEF h
    <2> HIDE DEF q
    <2>6. h \in Nat
        BY <1>1 DEF h
    <2>7. Len(q) = h
        <3>1. IF 1 <= h THEN h - 1 + 1 = h ELSE 0 = h
            BY <2>6
        <3> QED
            BY <2>5, <3>1
    <2> USE DEF h
    <2>3. Len(q) = n - 1
        BY <2>7
    <2>4. \A i \in 1..(n - 1) : q[i] = p[i]
        <3>1. \A i \in 1..(n - 1) : i \in 1..(h - 1 + 1) /\ 1 + i - 1 = i
            BY <1>1
        <3> QED
            BY <2>5, <3>1
    <2> QED
        BY <2>5, <2>3, <2>4 DEF q
<1>3. Front(p) = SubSeq(p, 1, n - 1)
    BY DEF Front
<1>4. \A i \in 1..(n - 1) : p[i] \in S /\ p[i + 1] \in S
    BY <1>1
<1>5. p[n] \in S
    BY <1>1
<1> QED
    BY <1>1, <1>2, <1>3, <1>4, <1>5

\* Weight goes through the path once.
WeightRun(f, N, p, latency) ==
    /\ f \in [0..Len(Front(p)) -> Nat] /\ f[0] = 0 /\ f[Len(Front(p))] = Weight(p, latency)
    /\ \A k \in 1..Len(Front(p)) : f[k] = f[k - 1] + latency[Front(p)[k]]

\* Its steps exist.
LEMMA WeightSteps ==
    ASSUME NEW N, NEW p \in Seq(N), p # <<>>, NEW latency, \A y \in N : latency[y] \in Nat
    PROVE  \E f : WeightRun(f, N, p, latency)
<1> DEFINE n == Len(Front(p))
           V == Nat
           b == 0
           After(v, x) == v + latency[x]
           G == [k \in 1..n |-> [v \in V |-> After(v, Front(p)[k])]]
           Iter(it) == it = [T \in SUBSET DOMAIN Front(p) |->
                               IF T = {} THEN b ELSE After(it[T \ {Max(T)}], Front(p)[Max(T)])]
<1>1. Weight(p, latency) = (CHOOSE it : Iter(it))[DOMAIN Front(p)]
    BY Zenon DEF Weight, FoldLeft, MapThenFoldSet
<1>2. n \in Nat /\ DOMAIN Front(p) = 1..n /\ b \in V
    BY FrontIs, LenProperties
<1>3. \A k \in 1..n : \A v \in V : After(v, Front(p)[k]) \in V
    <2>1. \A k \in 1..n : Front(p)[k] \in N
        BY FrontIs, LenProperties
    <2> QED
        BY <2>1
<1> HIDE DEF n, V, b, After
<1>4. Foldable(V, b, n, G) /\ \A k \in 1..n : \A v \in V : G[k][v] = After(v, Front(p)[k])
    BY <1>2, <1>3 DEF Foldable
<1>5. \A T \in SUBSET (1..n) : T # {} => Max(T) \in 1..n
    BY <1>2, MaxPosition
<1> HIDE DEF G
<1>6. \E it : Iter(it)
    <2>1. PICK it : IsFold(it, V, b, n, G)
        BY <1>4, FoldExists, Zenon
    <2>2. ASSUME NEW T \in SUBSET (1..n)
          PROVE  it[T] = IF T = {} THEN b ELSE After(it[T \ {Max(T)}], Front(p)[Max(T)])
        BY <1>4, <1>5, <2>1 DEF IsFold
    <2> QED
        BY <1>2, <2>1, <2>2 DEF IsFold
<1>7. PICK it : Weight(p, latency) = it[DOMAIN Front(p)] /\ Iter(it)
    <2> HIDE DEF Iter
    <2> QED
        BY <1>1, <1>6
<1>8. Follows(it, V, b, n, G)
    <2>1. ASSUME NEW T \in SUBSET (1..n)
          PROVE  it[T] = IF T = {} THEN b ELSE After(it[T \ {Max(T)}], Front(p)[Max(T)])
        BY <1>2, <1>7
    <2>2. ASSUME NEW T \in SUBSET (1..n), T # {}, it[T \ {Max(T)}] \in V
          PROVE  it[T] = G[Max(T)][it[T \ {Max(T)}]]
        BY <1>4, <1>5, <2>1, <2>2
    <2> QED
        BY <2>1, <2>2 DEF Follows
<1>9. PICK f : Steps(f, V, b, n, G) /\ f[n] = it[1..n]
    <2>1. Foldable(V, b, n, G)
        BY <1>4
    <2> QED
        BY <1>8, <2>1, FoldValues
<1>10. \A k \in 1..n : f[k] = After(f[k - 1], Front(p)[k])
    <2> TAKE k \in 1..n
    <2>1. f[k - 1] \in V
        BY <1>2, <1>9 DEF Steps
    <2> QED
        BY <1>4, <1>9, <2>1 DEF Steps
<1>11. f \in [0..n -> V] /\ f[0] = b /\ f[n] = Weight(p, latency)
    BY <1>2, <1>7, <1>9 DEF Steps
<1>12. WeightRun(f, N, p, latency)
    BY <1>10, <1>11, Zenon DEF WeightRun, n, V, b, After
<1> QED
    BY <1>12

\* A path weighs no more than the way to its last node, if no edge of it makes
\* that one longer, and as much if each edge is the one the way follows.
LEMMA WeightIs ==
    ASSUME NEW N, NEW p \in Seq(N), p # <<>>, NEW latency, \A y \in N : latency[y] \in Nat, NEW dist \in [N -> Nat]
    PROVE  /\ (\A i \in 1..(Len(p) - 1) : dist[p[i + 1]] >= dist[p[i]] + latency[p[i]]) =>
                 Weight(p, latency) <= dist[p[Len(p)]]
           /\ (dist[p[1]] = 0 /\ \A i \in 1..(Len(p) - 1) : dist[p[i + 1]] = dist[p[i]] + latency[p[i]]) =>
                 Weight(p, latency) = dist[p[Len(p)]]
<1> DEFINE n == Len(p) - 1
<1>1. PICK f : WeightRun(f, N, p, latency)
    BY WeightSteps
<1>2. /\ n \in Nat /\ Len(Front(p)) = n /\ Len(p) = n + 1
      /\ \A i \in 1..n : Front(p)[i] = p[i] /\ p[i] \in N /\ p[i + 1] \in N
      /\ p[n + 1] \in N
    <2>1. /\ Len(Front(p)) = Len(p) - 1 /\ Len(p) \in Nat \ {0}
          /\ \A i \in 1..(Len(p) - 1) : Front(p)[i] = p[i] /\ p[i] \in N /\ p[i + 1] \in N
          /\ p[Len(p)] \in N
        BY FrontIs
    <2> QED
        BY <2>1
<1>3. /\ f \in [0..n -> Nat] /\ f[0] = 0 /\ f[n] = Weight(p, latency)
      /\ \A k \in 1..n : f[k] = f[k - 1] + latency[p[k]]
    BY <1>1, <1>2 DEF WeightRun
<1> HIDE DEF n
<1>4. \A k \in 0..(n - 1) : /\ k + 1 \in 1..n /\ k + 1 \in 0..n /\ k \in 0..n
                            /\ p[k + 1] \in N /\ p[(k + 1) + 1] \in N
                            /\ f[k + 1] = f[k] + latency[p[k + 1]]
    <2> TAKE k \in 0..(n - 1)
    <2>1. k + 1 \in 1..n /\ k + 1 \in 0..n /\ k \in 0..n /\ (k + 1) - 1 = k
        BY <1>2
    <2> QED
        BY <1>2, <1>3, <2>1
<1>5. p[1] \in N /\ p[n + 1] \in N
    <2>1. n = 0 \/ 1 \in 1..n
        BY <1>2
    <2> QED
        BY <1>2, <2>1
<1>6. ASSUME \A i \in 1..n : dist[p[i + 1]] >= dist[p[i]] + latency[p[i]]
      PROVE  f[n] <= dist[p[n + 1]]
    <2> DEFINE P == {k \in 0..n : f[k] <= dist[p[k + 1]]}
    <2>1. 0 \in P
        BY <1>2, <1>3, <1>5
    <2>2. ASSUME NEW k \in 0..(n - 1), k \in P
          PROVE  k + 1 \in P
        <3>1. f[k] <= dist[p[k + 1]] /\ f[k] \in Nat
            BY <1>3, <1>4, <2>2
        <3>2. dist[p[(k + 1) + 1]] >= dist[p[k + 1]] + latency[p[k + 1]]
            BY <1>4, <1>6
        <3>3. dist[p[(k + 1) + 1]] \in Nat /\ dist[p[k + 1]] \in Nat /\ latency[p[k + 1]] \in Nat
            BY <1>4
        <3>4. f[k + 1] <= dist[p[(k + 1) + 1]]
            <4>1. \A u, v, x, y \in Nat : u <= v /\ y >= v + x => u + x <= y
                OBVIOUS
            <4>2. f[k] + latency[p[k + 1]] <= dist[p[(k + 1) + 1]]
                BY <3>1, <3>2, <3>3, <4>1
            <4> QED
                BY <1>4, <4>2
        <3> QED
            BY <1>4, <3>4
    <2> HIDE DEF P
    <2>3. \A k \in 0..n : k \in P
        BY <1>2, <2>1, <2>2, UpTo
    <2>4. n \in P
        BY <1>2, <2>3
    <2> QED
        BY <2>4 DEF P
<1>7. ASSUME dist[p[1]] = 0, \A i \in 1..n : dist[p[i + 1]] = dist[p[i]] + latency[p[i]]
      PROVE  f[n] = dist[p[n + 1]]
    <2> DEFINE P == {k \in 0..n : f[k] = dist[p[k + 1]]}
    <2>1. 0 \in P
        BY <1>2, <1>3, <1>7
    <2>2. ASSUME NEW k \in 0..(n - 1), k \in P
          PROVE  k + 1 \in P
        <3>1. f[k] = dist[p[k + 1]]
            BY <2>2
        <3>2. dist[p[(k + 1) + 1]] = dist[p[k + 1]] + latency[p[k + 1]]
            BY <1>4, <1>7
        <3>3. f[k + 1] = dist[p[(k + 1) + 1]]
            BY <1>4, <3>1, <3>2
        <3> QED
            BY <1>4, <3>3
    <2> HIDE DEF P
    <2>3. \A k \in 0..n : k \in P
        BY <1>2, <2>1, <2>2, UpTo
    <2>4. n \in P
        BY <1>2, <2>3
    <2> QED
        BY <2>4 DEF P
<1> QED
    BY <1>2, <1>3, <1>6, <1>7 DEF n

\* The walk back from node x: the first node at which no way was found, or as
\* many steps as there are nodes.
Walks(g) == {q \in Seq(NodesOf(g)) : q # <<>>}
WalkBack(g, v, x) ==
    LET Back(path, n) == v.prev[Head(path)] \o path IN FoldLeft(Back, <<x>>, g.nodes)

\* One step further back: r is q, or q with the node in front that the way to
\* the first node of q comes from.
OneBack(g, v, q, r) ==
    /\ r \in Walks(g)
    /\ q[1] \in NodesOf(g) /\ Len(q) \in Nat \ {0}
    /\ v.prev[q[1]] = <<>> => r = q
    /\ \A p \in NodesOf(g) : v.prev[q[1]] = <<p>> =>
          /\ Len(r) = Len(q) + 1 /\ r[1] = p
          /\ \A i \in 1..Len(q) : r[i + 1] = q[i]

\* Putting what prev has in front is such a step.
LEMMA StepBack ==
    ASSUME NEW g, NEW v \in DistStates(g), NEW q \in Walks(g)
    PROVE  /\ OneBack(g, v, q, v.prev[Head(q)] \o q)
           /\ v.prev[Head(q)] \o q \in Walks(g)
<1> DEFINE N == NodesOf(g)
           h == v.prev[Head(q)]
           r == h \o q
<1>1. q \in Seq(N) /\ q # <<>>
    BY DEF Walks
<1>2. Len(q) \in Nat /\ Len(q) # 0 /\ q \in [1..Len(q) -> N] /\ Head(q) = q[1]
    BY <1>1, LenProperties, EmptySeq
<1>3. q[1] \in N
    BY <1>2
<1>4. h \in Seq(N)
    BY <1>2, <1>3 DEF DistStates
<1> HIDE DEF h, N
<1>5. /\ r \in Seq(N) /\ Len(r) = Len(h) + Len(q)
      /\ \A i \in 1..(Len(h) + Len(q)) : r[i] = IF i <= Len(h) THEN h[i] ELSE q[i - Len(h)]
    BY <1>1, <1>4, ConcatProperties
<1>6. Len(h) \in Nat
    BY <1>4, LenProperties
<1> HIDE DEF r
<1>7. r # <<>>
    <2>1. Len(r) # 0
        BY <1>2, <1>5, <1>6
    <2> QED
        BY <1>5, <2>1, EmptySeq
<1>8. h = <<>> => r = q
    BY <1>1, ConcatEmptySeq DEF r
<1>9. ASSUME NEW p \in N, h = <<p>>
      PROVE  /\ Len(r) = Len(q) + 1
             /\ r[1] = p
             /\ \A i \in 1..Len(q) : r[i + 1] = q[i]
    <2>1. Len(h) = 1 /\ h[1] = p
        BY <1>9
    <2>2. 1 \in 1..(1 + Len(q)) /\ \A i \in 1..Len(q) : i + 1 \in 1..(1 + Len(q)) /\ ~ (i + 1 <= 1) /\ (i + 1) - 1 = i
        BY <1>2
    <2>3. Len(r) = 1 + Len(q) /\ \A i \in 1..(1 + Len(q)) : r[i] = IF i <= 1 THEN h[i] ELSE q[i - 1]
        BY <1>5, <2>1
    <2>4. r[1] = p
        BY <2>1, <2>2, <2>3
    <2>5. \A i \in 1..Len(q) : r[i + 1] = q[i]
        BY <2>2, <2>3
    <2>6. Len(r) = Len(q) + 1
        BY <1>2, <2>3
    <2> QED
        BY <2>4, <2>5, <2>6
<1> QED
    BY <1>2, <1>3, <1>5, <1>7, <1>8, <1>9 DEF OneBack, Walks, r, h, N

\* The walk starts with one node.
LEMMA WalkStart ==
    ASSUME NEW g, NEW z \in NodesOf(g)
    PROVE  <<z>> \in Walks(g)
BY DEF Walks

\* The walk back makes one step per node.
WalkRun(f, S, g, s, z) ==
    /\ f \in [0..Len(g.nodes) -> Walks(g)] /\ f[0] = <<z>> /\ f[Len(g.nodes)] = WalkBack(g, s, z)
    /\ \A k \in 1..Len(g.nodes) : f[k] = s.prev[Head(f[k - 1])] \o f[k - 1]

\* Its steps exist.
LEMMA WalkSteps ==
    ASSUME NEW S, NEW g \in GraphsOn(S), NEW s \in DistStates(g), NEW z \in NodesOf(g)
    PROVE  \E f : WalkRun(f, S, g, s, z)
<1> DEFINE n == Len(g.nodes)
           V == Walks(g)
           b == <<z>>
           After(v, x) == s.prev[Head(v)] \o v
           G == [k \in 1..n |-> [v \in V |-> After(v, g.nodes[k])]]
           Iter(it) == it = [T \in SUBSET DOMAIN g.nodes |->
                               IF T = {} THEN b ELSE After(it[T \ {Max(T)}], g.nodes[Max(T)])]
<1>1. WalkBack(g, s, z) = (CHOOSE it : Iter(it))[DOMAIN g.nodes]
    BY Zenon DEF WalkBack, FoldLeft, MapThenFoldSet
<1>2. n \in Nat /\ DOMAIN g.nodes = 1..n /\ b \in V
    BY GraphFacts, WalkStart
<1>3. \A k \in 1..n : \A v \in V : After(v, g.nodes[k]) \in V
    BY StepBack
<1> HIDE DEF n, V, b, After
<1>4. Foldable(V, b, n, G) /\ \A k \in 1..n : \A v \in V : G[k][v] = After(v, g.nodes[k])
    BY <1>2, <1>3 DEF Foldable
<1>5. \A T \in SUBSET (1..n) : T # {} => Max(T) \in 1..n
    BY <1>2, MaxPosition
<1> HIDE DEF G
<1>6. \E it : Iter(it)
    <2>1. PICK it : IsFold(it, V, b, n, G)
        BY <1>4, FoldExists, Zenon
    <2>2. ASSUME NEW T \in SUBSET (1..n)
          PROVE  it[T] = IF T = {} THEN b ELSE After(it[T \ {Max(T)}], g.nodes[Max(T)])
        BY <1>4, <1>5, <2>1 DEF IsFold
    <2> QED
        BY <1>2, <2>1, <2>2 DEF IsFold
<1>7. PICK it : WalkBack(g, s, z) = it[DOMAIN g.nodes] /\ Iter(it)
    <2> HIDE DEF Iter
    <2> QED
        BY <1>1, <1>6
<1>8. Follows(it, V, b, n, G)
    <2>1. ASSUME NEW T \in SUBSET (1..n)
          PROVE  it[T] = IF T = {} THEN b ELSE After(it[T \ {Max(T)}], g.nodes[Max(T)])
        BY <1>2, <1>7
    <2>2. ASSUME NEW T \in SUBSET (1..n), T # {}, it[T \ {Max(T)}] \in V
          PROVE  it[T] = G[Max(T)][it[T \ {Max(T)}]]
        BY <1>4, <1>5, <2>1, <2>2
    <2> QED
        BY <2>1, <2>2 DEF Follows
<1>9. PICK f : Steps(f, V, b, n, G) /\ f[n] = it[1..n]
    <2>1. Foldable(V, b, n, G)
        BY <1>4
    <2> QED
        BY <1>8, <2>1, FoldValues
<1>10. \A k \in 1..n : f[k] = After(f[k - 1], g.nodes[k])
    <2> TAKE k \in 1..n
    <2>1. f[k - 1] \in V
        BY <1>2, <1>9 DEF Steps
    <2> QED
        BY <1>4, <1>9, <2>1 DEF Steps
<1>11. f \in [0..n -> V] /\ f[0] = b /\ f[n] = WalkBack(g, s, z)
    BY <1>2, <1>7, <1>9 DEF Steps
<1>12. WalkRun(f, S, g, s, z)
    BY <1>10, <1>11, Zenon DEF WalkRun, n, V, b, After
<1> QED
    BY <1>12

\* Each node of the walk is where the way to the next one comes from.
Chain(v, q) == \A i \in 1..(Len(q) - 1) : v.prev[q[i + 1]] = <<q[i]>>

\* The walk back ends at x, follows the ways, and has come to its first node
\* or has made a step per node.
LEMMA WalkIs ==
    ASSUME NEW S, NEW g \in GraphsOn(S), NEW latency, NEW v \in DistStates(g), NEW x \in NodesOf(g),
           \A c \in NodesOf(g) : v.prev[c] = <<>> \/ \E p \in NodesOf(g) : v.prev[c] = <<p>>
    PROVE  /\ WalkBack(g, v, x) \in Walks(g) /\ Chain(v, WalkBack(g, v, x))
           /\ WalkBack(g, v, x)[Len(WalkBack(g, v, x))] = x
           /\ Len(WalkBack(g, v, x)) = Len(g.nodes) + 1 \/ v.prev[WalkBack(g, v, x)[1]] = <<>>
<1> DEFINE n == Len(g.nodes)
           Right(k, q) == /\ q \in Walks(g) /\ Chain(v, q) /\ q[Len(q)] = x
                          /\ Len(q) = k + 1 \/ v.prev[q[1]] = <<>>
<1>1. PICK f : WalkRun(f, S, g, v, x)
    BY WalkSteps
<1>2. /\ f[0] = <<x>> /\ f[n] = WalkBack(g, v, x)
      /\ \A k \in 1..n : f[k] = v.prev[Head(f[k - 1])] \o f[k - 1]
    BY <1>1, Zenon DEF WalkRun
<1>3. n \in Nat
    BY GraphFacts
<1> HIDE DEF n, Right
<1> DEFINE P == {k \in 0..n : Right(k, f[k])}
<1>4. 0 \in P
    <2>1. <<x>> \in Walks(g)
        BY WalkStart
    <2>2. Len(<<x>>) = 1 /\ <<x>>[1] = x
        OBVIOUS
    <2>3. Chain(v, <<x>>)
        BY <2>2 DEF Chain
    <2>4. Right(0, <<x>>)
        BY <2>1, <2>2, <2>3 DEF Right
    <2> QED
        BY <1>2, <1>3, <2>4
<1>5. ASSUME NEW k \in 0..(n - 1), k \in P
      PROVE  k + 1 \in P
    <2> DEFINE q == f[k]
               r == v.prev[Head(q)] \o q
    <2>1. k + 1 \in 1..n /\ (k + 1) - 1 = k /\ k + 1 \in 0..n /\ k \in Nat /\ Right(k, q)
        BY <1>3, <1>5
    <2>2. f[k + 1] = r
        BY <1>2, <2>1
    <2> HIDE DEF q
    <2>3. /\ q \in Walks(g) /\ Chain(v, q) /\ q[Len(q)] = x
          /\ Len(q) = k + 1 \/ v.prev[q[1]] = <<>>
        BY <2>1 DEF Right
    <2>4. /\ r \in Walks(g)
          /\ q[1] \in NodesOf(g) /\ Len(q) \in Nat \ {0}
          /\ v.prev[q[1]] = <<>> => r = q
          /\ \A p \in NodesOf(g) : v.prev[q[1]] = <<p>> =>
                 /\ Len(r) = Len(q) + 1 /\ r[1] = p
                 /\ \A i \in 1..Len(q) : r[i + 1] = q[i]
        <3>1. OneBack(g, v, q, r)
            BY <2>3, StepBack
        <3> HIDE DEF r
        <3> QED
            BY <3>1 DEF OneBack
    <2> HIDE DEF r
    <2>5. CASE v.prev[q[1]] = <<>>
        <3>1. r = q
            BY <2>4, <2>5
        <3>2. Right(k + 1, r)
            BY <2>3, <2>5, <3>1 DEF Right
        <3> QED
            BY <2>1, <2>2, <3>2
    <2>6. ASSUME NEW p \in NodesOf(g), v.prev[q[1]] = <<p>>
          PROVE  k + 1 \in P
        <3>1. Len(r) = Len(q) + 1 /\ r[1] = p /\ \A i \in 1..Len(q) : r[i + 1] = q[i]
            BY <2>4, <2>6
        <3>2. Len(q) = k + 1
            BY <2>3, <2>6
        <3>3. r[Len(r)] = x
            BY <2>3, <2>4, <3>1
        <3>4. ASSUME NEW i \in 1..(Len(r) - 1)
              PROVE  v.prev[r[i + 1]] = <<r[i]>>
            <4>1. r[i + 1] = q[i] /\ i \in 1..Len(q)
                BY <2>4, <3>1
            <4>2. CASE i = 1
                BY <2>6, <3>1, <4>1, <4>2
            <4>3. CASE i # 1
                <5>1. i - 1 \in 1..Len(q) /\ i - 1 \in 1..(Len(q) - 1) /\ (i - 1) + 1 = i
                    BY <2>4, <4>1, <4>3
                <5>2. r[i] = q[i - 1]
                    BY <3>1, <5>1
                <5>3. v.prev[q[i]] = <<q[i - 1]>>
                    BY <2>3, <5>1 DEF Chain
                <5> QED
                    BY <4>1, <5>2, <5>3
            <4> QED
                BY <4>2, <4>3
        <3>5. Right(k + 1, r)
            BY <2>1, <2>4, <3>1, <3>2, <3>3, <3>4 DEF Right, Chain
        <3> QED
            BY <2>1, <2>2, <3>5
    <2>7. v.prev[q[1]] = <<>> \/ \E p \in NodesOf(g) : v.prev[q[1]] = <<p>>
        BY <2>4
    <2> QED
        BY <2>5, <2>6, <2>7
<1> HIDE DEF P
<1>6. n \in P
    <2>1. \A k \in 0..n : k \in P
        BY <1>3, <1>4, <1>5, UpTo
    <2> QED
        BY <1>3, <2>1
<1> QED
    BY <1>2, <1>6 DEF P, Right, n

\* The walk along the ways is a path of the graph that leaves no blocked node
\* and, the order being one, no node twice.
LEMMA ChainIsPath ==
    ASSUME NEW S, NEW g \in GraphsOn(S), NEW latency, NEW o, o = TopoSort(g), NEW v,
           WayInv(g, latency, o, Len(o), v), NEW q \in Walks(g), Chain(v, q)
    PROVE  /\ \A i \in 1..(Len(q) - 1) :
                 /\ q[i] \notin Blocked(g) /\ <<q[i], q[i + 1]>> \in EdgesOf(g)
                 /\ v.dist[q[i + 1]] = v.dist[q[i]] + latency[q[i]]
           /\ IsInjective(q)
<1> DEFINE N == NodesOf(g)
           n == Len(q)
<1>1. /\ Len(o) \in Nat
      /\ \A c : c \in ToSet(o) <=> \E i \in 1..Len(o) : o[i] = c
      /\ ToSet(o) = N \ Blocked(g)
      /\ \A i, j \in 1..Len(o) : <<o[i], o[j]>> \in EdgesOf(g) => i < j
    BY OrderFacts
<1>2. q \in Seq(N) /\ n \in Nat /\ DOMAIN q = 1..n /\ \A i \in 1..n : q[i] \in N
    BY LenProperties DEF Walks
<1>3. ASSUME NEW i \in 1..(n - 1)
      PROVE  /\ q[i] \in ToSet(o) /\ <<q[i], q[i + 1]>> \in EdgesOf(g)
             /\ v.dist[q[i + 1]] = v.dist[q[i]] + latency[q[i]]
    <2>1. v.prev[q[i + 1]] = <<q[i]>> /\ q[i + 1] \in N
        <3>1. v.prev[q[i + 1]] = <<q[i]>>
            BY DEF Chain
        <3>2. i + 1 \in 1..n
            BY <1>2
        <3> QED
            BY <1>2, <3>1, <3>2
    <2>2. PICK j \in 1..Len(o) : /\ v.prev[q[i + 1]] = <<o[j]>> /\ <<o[j], q[i + 1]>> \in EdgesOf(g)
                                 /\ v.dist[q[i + 1]] = v.dist[o[j]] + latency[o[j]]
        <3>1. \/ v.prev[q[i + 1]] = <<>>
              \/ \E j \in 1..Len(o) : /\ v.prev[q[i + 1]] = <<o[j]>> /\ <<o[j], q[i + 1]>> \in EdgesOf(g)
                                      /\ v.dist[q[i + 1]] = v.dist[o[j]] + latency[o[j]]
            BY <2>1 DEF WayInv
        <3>2. <<q[i]>> # <<>>
            OBVIOUS
        <3> QED
            BY <2>1, <3>1, <3>2
    <2>3. o[j] = q[i]
        BY <2>1, <2>2
    <2> QED
        BY <1>1, <2>2, <2>3
<1> HIDE DEF N, n
<1> DEFINE Place(c) == CHOOSE i \in 1..Len(o) : o[i] = c
<1>4. \A c \in ToSet(o) : Place(c) \in 1..Len(o) /\ o[Place(c)] = c
    BY <1>1
<1> HIDE DEF Place
<1>5. ASSUME NEW i \in 1..(n - 1), q[i + 1] \in ToSet(o)
      PROVE  Place(q[i]) < Place(q[i + 1])
    <2>1. q[i] \in ToSet(o) /\ <<q[i], q[i + 1]>> \in EdgesOf(g)
        BY <1>3
    <2>2. <<o[Place(q[i])], o[Place(q[i + 1])]>> \in EdgesOf(g)
        BY <1>4, <1>5, <2>1
    <2> QED
        BY <1>1, <1>4, <1>5, <2>1, <2>2
<1>6. ASSUME NEW i \in 1..n, NEW j \in 1..n, i < j, q[j] \in ToSet(o)
      PROVE  q[i] # q[j]
    <2> DEFINE d == n - i
               P == {k \in 0..d : k # 0 /\ q[i + k] \in ToSet(o) => Place(q[i]) < Place(q[i + k])}
    <2>1. d \in Nat /\ 0 \in P
        BY <1>2
    <2>2. ASSUME NEW k \in 0..(d - 1), k \in P
          PROVE  k + 1 \in P
        <3>1. k + 1 \in 0..d /\ i + k \in 1..(n - 1) /\ (i + k) + 1 = i + (k + 1) /\ i + 0 = i
            BY <1>2
        <3>2. SUFFICES ASSUME q[i + (k + 1)] \in ToSet(o)
                       PROVE  Place(q[i]) < Place(q[i + (k + 1)])
            BY <3>1
        <3>3. Place(q[i + k]) < Place(q[i + (k + 1)]) /\ q[i + k] \in ToSet(o)
            BY <1>3, <1>5, <3>1, <3>2
        <3>4. i \in 1..(n - 1)
            BY <1>2, <2>2
        <3>5. Place(q[i]) \in Int /\ Place(q[i + k]) \in Int /\ Place(q[i + (k + 1)]) \in Int
            <4>1. q[i] \in ToSet(o)
                BY <1>3, <3>4
            <4>2. \A c \in ToSet(o) : Place(c) \in Int
                BY <1>1, <1>4
            <4> QED
                BY <3>2, <3>3, <4>1, <4>2
        <3>6. CASE k = 0
            BY <3>1, <3>3, <3>6
        <3>7. CASE k # 0
            BY <2>2, <3>3, <3>5, <3>7
        <3> QED
            BY <3>6, <3>7
    <2> HIDE DEF P, d
    <2>3. \A k \in 0..d : k \in P
        BY <2>1, <2>2, UpTo
    <2>4. j - i \in 0..d /\ j - i # 0 /\ i + (j - i) = j
        BY <1>2, <1>6 DEF d
    <2>5. j - i \in P
        BY <2>3, <2>4
    <2>6. Place(q[i]) < Place(q[j])
        BY <1>6, <2>4, <2>5 DEF P
    <2>7. i \in 1..(n - 1)
        BY <1>2, <1>6
    <2> QED
        BY <1>1, <1>3, <1>4, <1>6, <2>6, <2>7
<1>7. ASSUME NEW i \in 1..n, NEW j \in 1..n, i < j
      PROVE  q[i] # q[j]
    <2>1. CASE q[j] \in ToSet(o)
        BY <1>6, <1>7, <2>1
    <2>2. CASE q[j] \notin ToSet(o)
        <3>1. i \in 1..(n - 1)
            BY <1>2, <1>7
        <3> QED
            BY <1>3, <2>2, <3>1
    <2> QED
        BY <2>1, <2>2
<1>8. IsInjective(q)
    <2> SUFFICES ASSUME NEW i \in 1..n, NEW j \in 1..n, q[i] = q[j]
                 PROVE  i = j
        BY <1>2 DEF IsInjective
    <2>1. ~ (i < j) /\ ~ (j < i)
        BY <1>7
    <2> QED
        BY <1>2, <2>1
<1> QED
    BY <1>1, <1>3, <1>8 DEF n

\* The positions of the nodes with the longest way.
Farthest(g, v) == {i \in DOMAIN g.nodes : \A m \in NodesOf(g) : v.dist[m] <= v.dist[g.nodes[i]]}

\* There is a farthest node, and Min picks the first one.
LEMMA FarthestIs ==
    ASSUME NEW S, NEW g \in GraphsOn(S), g.nodes # <<>>, NEW v \in DistStates(g)
    PROVE  /\ g.nodes[Min(Farthest(g, v))] \in NodesOf(g)
           /\ \A m \in NodesOf(g) : v.dist[m] <= v.dist[g.nodes[Min(Farthest(g, v))]]
<1> DEFINE N == NodesOf(g)
           n == Len(g.nodes)
           F == Farthest(g, v)
<1>1. n \in Nat /\ DOMAIN g.nodes = 1..n /\ g.nodes \in Seq(N)
    BY GraphFacts
<1>2. /\ \A i \in 1..n : g.nodes[i] \in N
      /\ \A m \in N : \E i \in 1..n : g.nodes[i] = m
    <2>1. \A m : m \in ToSet(g.nodes) <=> \E i \in 1..n : g.nodes[i] = m
        <3> HIDE DEF N
        <3> QED
            BY <1>1, SeqSet
    <2> QED
        BY <2>1 DEF NodesOf
<1>3. n # 0
    BY <1>1, EmptySeq
<1>4. \A m \in N : v.dist[m] \in Nat
    BY DEF DistStates
<1> HIDE DEF n, N
<1> DEFINE d(i) == v.dist[g.nodes[i]]
           P == {k \in 0..(n - 1) : \E i \in 1..(k + 1) : \A j \in 1..(k + 1) : d(j) <= d(i)}
<1>5. \A i \in 1..n : d(i) \in Nat
    BY <1>2, <1>4
<1> HIDE DEF d
<1>6. 0 \in P
    <2>1. 0 \in 0..(n - 1) /\ 1 \in 1..n /\ \A j : j \in 1..(0 + 1) <=> j = 1
        BY <1>1, <1>3
    <2>2. d(1) <= d(1)
        BY <1>5, <2>1
    <2> QED
        BY <2>1, <2>2
<1>7. ASSUME NEW k \in 0..((n - 1) - 1), k \in P
      PROVE  k + 1 \in P
    <2>1. PICK i \in 1..(k + 1) : \A j \in 1..(k + 1) : d(j) <= d(i)
        BY <1>7
    <2> DEFINE l == (k + 1) + 1
    <2>2. /\ k + 1 \in 0..(n - 1) /\ l \in 1..l /\ i \in 1..l /\ l \in 1..n /\ i \in 1..n
          /\ \A j \in 1..l : j \in 1..n /\ (j \in 1..(k + 1) \/ j = l)
        BY <1>1, <1>7
    <2> HIDE DEF l
    <2>3. CASE d(l) <= d(i)
        <3>1. \A j \in 1..l : d(j) <= d(i)
            BY <2>1, <2>2, <2>3
        <3> QED
            BY <2>2, <3>1 DEF l
    <2>4. CASE ~ (d(l) <= d(i))
        <3>1. d(l) \in Nat /\ d(i) \in Nat /\ d(i) <= d(l)
            BY <1>5, <2>2, <2>4
        <3>2. ASSUME NEW j \in 1..l
              PROVE  d(j) <= d(l)
            <4>1. CASE j = l
                BY <3>1, <4>1
            <4>2. CASE j \in 1..(k + 1)
                <5>1. d(j) <= d(i) /\ d(j) \in Nat
                    BY <1>5, <2>1, <2>2, <4>2
                <5> QED
                    BY <3>1, <5>1
            <4> QED
                BY <2>2, <4>1, <4>2
        <3> QED
            BY <2>2, <3>2 DEF l
    <2> QED
        BY <2>3, <2>4
<1> HIDE DEF P
<1>8. n - 1 \in P
    <2> DEFINE h == n - 1
    <2>1. h \in Nat
        BY <1>1, <1>3
    <2> HIDE DEF h
    <2>2. \A k \in 0..(h - 1) : k \in P => k + 1 \in P
        BY <1>7 DEF h
    <2>3. \A k \in 0..h : k \in P
        BY <1>6, <2>1, <2>2, UpTo
    <2> QED
        BY <2>1, <2>3 DEF h
<1>9. PICK i \in 1..n : \A j \in 1..n : d(j) <= d(i)
    <2>1. (n - 1) + 1 = n
        BY <1>1
    <2> QED
        BY <1>8, <2>1 DEF P
<1>10. F \in SUBSET Nat /\ i \in F
    <2>1. \A m \in N : v.dist[m] <= v.dist[g.nodes[i]]
        BY <1>2, <1>9 DEF d
    <2>2. \A j \in DOMAIN g.nodes : j \in Nat
        BY <1>1 DEF n
    <2> QED
        BY <1>1, <2>1, <2>2 DEF Farthest, N, n
<1> HIDE DEF F
<1>11. \E x \in F : \A y \in F : x <= y
    BY <1>10, LeastNumber
<1>12. Min(F) \in F
    BY <1>11 DEF Min
<1>13. Min(F) \in 1..n /\ \A m \in N : v.dist[m] <= v.dist[g.nodes[Min(F)]]
    BY <1>1, <1>12 DEF F, Farthest, N, n
<1> QED
    BY <1>2, <1>13 DEF F, N

\* The critical path is the walk back from the first of them.
LEMMA CriticalPathIs ==
    ASSUME NEW g, NEW latency, g.nodes # <<>>
    PROVE  CriticalPath(g, latency) =
             WalkBack(g, Distances(g, latency), g.nodes[Min(Farthest(g, Distances(g, latency)))])
BY DEF CriticalPath, WalkBack, Farthest

\* A path of the graph weighs no more than the way to its last node.
LEMMA PathsAreShorter ==
    ASSUME NEW S, NEW g \in GraphsOn(S), NEW latency, \A y \in NodesOf(g) : latency[y] \in Nat,
           NEW v, v = Distances(g, latency), NEW p \in Paths(g)
    PROVE  p[Len(p)] \in NodesOf(g) /\ Weight(p, latency) <= v.dist[p[Len(p)]]
<1> DEFINE N == NodesOf(g)
           o == TopoSort(g)
           dist == v.dist
<1>1. WayInv(g, latency, o, Len(o), v)
    BY DistancesAre
<1>2. /\ dist \in [N -> Nat]
      /\ \A i \in 1..Len(o) : \A c \in N : <<o[i], c>> \in EdgesOf(g) => dist[c] >= dist[o[i]] + latency[o[i]]
    BY <1>1 DEF WayInv, DistStates
<1>3. /\ p # <<>>
      /\ \A i \in 1..(Len(p) - 1) : <<p[i], p[i + 1]>> \in EdgesOf(g) /\ p[i] \notin Blocked(g)
      /\ \E k \in 0..Len(g.nodes) : p \in [1..k -> N]
    BY DEF Paths, SeqOf
<1>4. p \in Seq(N)
    <2>1. Len(g.nodes) \in Nat
        BY GraphFacts
    <2> QED
        BY <1>3, <2>1
<1>5. \A c : c \in ToSet(o) <=> \E i \in 1..Len(o) : o[i] = c
    BY OrderFacts
<1>6. ToSet(o) = N \ Blocked(g)
    BY OrderFacts
<1> HIDE DEF N, o, dist
<1>7. p[Len(p)] \in N /\ \A i \in 1..(Len(p) - 1) : p[i] \in N /\ p[i + 1] \in N
    BY <1>3, <1>4, FrontIs
<1>8. ASSUME NEW i \in 1..(Len(p) - 1)
      PROVE  dist[p[i + 1]] >= dist[p[i]] + latency[p[i]]
    <2>1. p[i] \in N \ Blocked(g) /\ p[i + 1] \in N /\ <<p[i], p[i + 1]>> \in EdgesOf(g)
        BY <1>3, <1>7
    <2>2. PICK j \in 1..Len(o) : o[j] = p[i]
        BY <1>5, <1>6, <2>1
    <2> QED
        BY <1>2, <2>1, <2>2
<1>9. \A y \in N : latency[y] \in Nat
    BY DEF N
<1>10. Weight(p, latency) <= dist[p[Len(p)]]
    BY <1>2, <1>3, <1>4, <1>8, <1>9, WeightIs
<1> QED
    BY <1>7, <1>10 DEF N, dist

\* What a path weighs is a number.
LEMMA WeightType ==
    ASSUME NEW S, NEW g \in GraphsOn(S), NEW latency, \A y \in NodesOf(g) : latency[y] \in Nat,
           NEW p \in Paths(g)
    PROVE  Weight(p, latency) \in Nat
<1> DEFINE N == NodesOf(g)
<1>1. /\ p # <<>> /\ \E k \in 0..Len(g.nodes) : p \in [1..k -> N]
    BY DEF Paths, SeqOf
<1>2. p \in Seq(N)
    <2>1. Len(g.nodes) \in Nat
        BY GraphFacts
    <2> QED
        BY <1>1, <2>1
<1>3. \A y \in N : latency[y] \in Nat
    OBVIOUS
<1> HIDE DEF N
<1>4. PICK f : WeightRun(f, N, p, latency)
    BY <1>1, <1>2, <1>3, WeightSteps
<1>5. Len(Front(p)) \in Nat
    BY <1>1, <1>2, FrontIs, LenProperties
<1> QED
    BY <1>4, <1>5 DEF WeightRun

\* The critical path is a path of the graph and no other has more latency
\* before its last node, for every graph, cyclic ones included, and all latencies.
THEOREM CriticalPathCorrect ==
    ASSUME NEW g \in GraphsOn(Nodes)
    PROVE  PathIsLongest(g)
<1> DEFINE N == NodesOf(g)
           n == Len(g.nodes)
           v == Distances(g, Latency)
           x == g.nodes[Min(Farthest(g, v))]
           o == TopoSort(g)
           q == WalkBack(g, v, x)
           dist == v.dist
<1>1. SUFFICES ASSUME g.nodes # <<>>
               PROVE  /\ q \in Paths(g)
                      /\ \A p \in Paths(g) : Weight(p, Latency) <= Weight(q, Latency)
    BY CriticalPathIs DEF PathIsLongest
<1>2. /\ N \subseteq Nodes /\ n \in Nat /\ IsFiniteSet(N) /\ Cardinality(N) = n
    BY GraphFacts
<1>3. \A y \in NodesOf(g) : Latency[y] \in Nat
    BY <1>2, LatencyAssumption
<1>4. WayInv(g, Latency, o, Len(o), v)
    BY <1>3, DistancesAre
<1>5. v \in DistStates(g) /\ dist \in [N -> Nat]
    BY <1>4 DEF WayInv, DistStates
<1>6. \A i \in 1..Len(o) : o[i] \in NodesOf(g)
    BY OrderFacts
<1>7. \A c \in NodesOf(g) :
         \/ v.prev[c] = <<>> /\ v.dist[c] = 0
         \/ \E p \in NodesOf(g) : v.prev[c] = <<p>>
    BY <1>4, <1>6 DEF WayInv
<1>8. x \in NodesOf(g) /\ \A m \in NodesOf(g) : v.dist[m] <= v.dist[x]
    BY <1>1, <1>5, FarthestIs
<1>0. o = TopoSort(g) /\ v = Distances(g, Latency) /\ dist = v.dist
    OBVIOUS
<1> HIDE DEF x, v, o, n, N, dist
<1>9. /\ q \in Walks(g) /\ Chain(v, q) /\ q[Len(q)] = x
      /\ Len(q) = n + 1 \/ v.prev[q[1]] = <<>>
    BY <1>5, <1>7, <1>8, WalkIs DEF n
<1> HIDE DEF q
<1>10. /\ \A i \in 1..(Len(q) - 1) :
             /\ q[i] \notin Blocked(g) /\ <<q[i], q[i + 1]>> \in EdgesOf(g)
             /\ v.dist[q[i + 1]] = v.dist[q[i]] + Latency[q[i]]
       /\ IsInjective(q)
    BY <1>0, <1>4, <1>9, ChainIsPath
<1>11. q \in Seq(N) /\ q # <<>> /\ Len(q) \in Nat /\ Len(q) # 0 /\ q \in [1..Len(q) -> N]
    BY <1>9, LenProperties, EmptySeq DEF Walks, N
<1>12. Len(q) <= n
    <2>1. ToSet(q) \subseteq N /\ Cardinality(ToSet(q)) = Len(q)
        BY <1>10, <1>11, SeqSet
    <2>2. Cardinality(ToSet(q)) <= Cardinality(N)
        BY <1>2, <2>1, FS_Subset
    <2> QED
        BY <1>2, <2>1, <2>2
<1>13. q \in Paths(g)
    <2>1. Len(q) \in 0..n
        BY <1>2, <1>11, <1>12
    <2>2. q \in SeqOf(N, n)
        BY <1>11, <2>1 DEF SeqOf
    <2> QED
        BY <1>10, <1>11, <2>2 DEF Paths, N, n
<1>14. dist[q[1]] = 0
    <2>1. q[1] \in N /\ Len(q) # n + 1
        <3>1. 1 \in 1..Len(q)
            BY <1>11
        <3>2. q[1] \in N
            BY <1>11, <3>1
        <3>3. Len(q) # n + 1
            <4>1. \A u, w \in Nat : u <= w => u # w + 1
                OBVIOUS
            <4>2. Len(q) \in Nat /\ n \in Nat
                BY <1>2, <1>11
            <4> QED
                BY <1>12, <4>1, <4>2, Zenon
        <3> QED
            BY <3>2, <3>3
    <2>2. \A p : <<p>> # <<>>
        OBVIOUS
    <2> QED
        BY <1>0, <1>7, <1>9, <2>1, <2>2 DEF N
<1>15. Weight(q, Latency) = dist[x]
    <2>1. \A i \in 1..(Len(q) - 1) : dist[q[i + 1]] = dist[q[i]] + Latency[q[i]]
        BY <1>0, <1>10
    <2>2. \A y \in N : Latency[y] \in Nat
        BY <1>3 DEF N
    <2>3. Weight(q, Latency) = dist[q[Len(q)]]
        <3>1. /\ (\A i \in 1..(Len(q) - 1) : dist[q[i + 1]] >= dist[q[i]] + Latency[q[i]]) =>
                    Weight(q, Latency) <= dist[q[Len(q)]]
              /\ (dist[q[1]] = 0 /\ \A i \in 1..(Len(q) - 1) : dist[q[i + 1]] = dist[q[i]] + Latency[q[i]]) =>
                    Weight(q, Latency) = dist[q[Len(q)]]
            BY <1>5, <1>11, <2>2, WeightIs
        <3> QED
            BY <1>14, <2>1, <3>1
    <2> QED
        BY <1>9, <2>3
<1>16. ASSUME NEW p \in Paths(g)
       PROVE  Weight(p, Latency) <= Weight(q, Latency)
    <2>1. p[Len(p)] \in NodesOf(g) /\ Weight(p, Latency) <= v.dist[p[Len(p)]]
        BY <1>0, <1>3, PathsAreShorter
    <2>2. v.dist[p[Len(p)]] <= v.dist[x]
        BY <1>8, <2>1
    <2>3. v.dist[p[Len(p)]] \in Nat /\ v.dist[x] \in Nat /\ Weight(q, Latency) = v.dist[x]
        BY <1>0, <1>5, <1>8, <1>15, <2>1 DEF N
    <2>4. Weight(p, Latency) \in Int
        BY <1>3, WeightType
    <2> QED
        BY <2>1, <2>2, <2>3, <2>4
<1> QED
    BY <1>13, <1>16

(***************************************************************************)
(* How a graph is stored and read back.                                    *)
(***************************************************************************)

\* A stored node.
Stored(S) == [id : S, depends_on : Seq(S)]

\* from_dict in three parts: the nodes, the edges, and the edges that only
\* "depends_on" has.
NodesRead(q) == LET Node(h, nd) == AddNode(h, nd.id) IN FoldLeft(Node, Empty, q)
MissingAdded(h, l) ==
    LET AddMissing(u, e) == IF e \in EdgesOf(u) THEN u ELSE AddEdge(u, e) IN FoldLeft(AddMissing, h, l)
Links(nd) == [i \in DOMAIN nd.depends_on |-> <<nd.depends_on[i], nd.id>>]
DependsRead(h, q) == LET Depends(u, nd) == MissingAdded(u, Links(nd)) IN FoldLeft(Depends, h, q)

\* The empty graph is well-formed.
LEMMA EmptyIsGraph ==
    ASSUME NEW S
    PROVE  Empty \in GraphsOn(S)
<1>1. <<>> \in Seq(S) /\ <<>> \in Seq(S \X S) /\ ToSet(<<>>) = {} /\ IsInjective(<<>>)
    BY DEF ToSet, IsInjective
<1> QED
    BY <1>1 DEF Empty, GraphsOn, NodesOf, EdgesOf

\* The nodes are added one after the other.
NodesReadRun(f, S, q) ==
    /\ f \in [0..Len(q) -> GraphsOn(S)] /\ f[0] = Empty /\ f[Len(q)] = NodesRead(q)
    /\ \A k \in 1..Len(q) : f[k] = AddNode(f[k - 1], q[k].id)

\* Its steps exist.
LEMMA NodesReadSteps ==
    ASSUME NEW S, NEW q \in Seq(Stored(S))
    PROVE  \E f : NodesReadRun(f, S, q)
<1> DEFINE n == Len(q)
           V == GraphsOn(S)
           b == Empty
           After(v, x) == AddNode(v, x.id)
           G == [k \in 1..n |-> [v \in V |-> After(v, q[k])]]
           Iter(it) == it = [T \in SUBSET DOMAIN q |->
                               IF T = {} THEN b ELSE After(it[T \ {Max(T)}], q[Max(T)])]
<1>1. NodesRead(q) = (CHOOSE it : Iter(it))[DOMAIN q]
    BY Zenon DEF NodesRead, FoldLeft, MapThenFoldSet
<1>2. n \in Nat /\ DOMAIN q = 1..n /\ b \in V
    BY LenProperties, EmptyIsGraph
<1>3. \A k \in 1..n : \A v \in V : After(v, q[k]) \in V
    <2>0. \A k \in 1..n : q[k] \in Stored(S)
        BY LenProperties
    <2>1. \A k \in 1..n : q[k].id \in S
        BY <2>0 DEF Stored
    <2> QED
        BY <2>1, GraphStaysWellFormed
<1> HIDE DEF n, V, b, After
<1>4. Foldable(V, b, n, G) /\ \A k \in 1..n : \A v \in V : G[k][v] = After(v, q[k])
    BY <1>2, <1>3 DEF Foldable
<1>5. \A T \in SUBSET (1..n) : T # {} => Max(T) \in 1..n
    BY <1>2, MaxPosition
<1> HIDE DEF G
<1>6. \E it : Iter(it)
    <2>1. PICK it : IsFold(it, V, b, n, G)
        BY <1>4, FoldExists, Zenon
    <2>2. ASSUME NEW T \in SUBSET (1..n)
          PROVE  it[T] = IF T = {} THEN b ELSE After(it[T \ {Max(T)}], q[Max(T)])
        BY <1>4, <1>5, <2>1 DEF IsFold
    <2> QED
        BY <1>2, <2>1, <2>2 DEF IsFold
<1>7. PICK it : NodesRead(q) = it[DOMAIN q] /\ Iter(it)
    <2> HIDE DEF Iter
    <2> QED
        BY <1>1, <1>6
<1>8. Follows(it, V, b, n, G)
    <2>1. ASSUME NEW T \in SUBSET (1..n)
          PROVE  it[T] = IF T = {} THEN b ELSE After(it[T \ {Max(T)}], q[Max(T)])
        BY <1>2, <1>7
    <2>2. ASSUME NEW T \in SUBSET (1..n), T # {}, it[T \ {Max(T)}] \in V
          PROVE  it[T] = G[Max(T)][it[T \ {Max(T)}]]
        BY <1>4, <1>5, <2>1, <2>2
    <2> QED
        BY <2>1, <2>2 DEF Follows
<1>9. PICK f : Steps(f, V, b, n, G) /\ f[n] = it[1..n]
    <2>1. Foldable(V, b, n, G)
        BY <1>4
    <2> QED
        BY <1>8, <2>1, FoldValues
<1>10. \A k \in 1..n : f[k] = After(f[k - 1], q[k])
    <2> TAKE k \in 1..n
    <2>1. f[k - 1] \in V
        BY <1>2, <1>9 DEF Steps
    <2> QED
        BY <1>4, <1>9, <2>1 DEF Steps
<1>11. f \in [0..n -> V] /\ f[0] = b /\ f[n] = NodesRead(q)
    BY <1>2, <1>7, <1>9 DEF Steps
<1>12. NodesReadRun(f, S, q)
    BY <1>10, <1>11, Zenon DEF NodesReadRun, n, V, b, After
<1> QED
    BY <1>12

\* So are the edges.
EdgesReadRun(f, S, h, es) ==
    /\ f \in [0..Len(es) -> GraphsOn(S)] /\ f[0] = h /\ f[Len(es)] = FoldLeft(AddEdge, h, es)
    /\ \A k \in 1..Len(es) : f[k] = AddEdge(f[k - 1], es[k])

\* Its steps exist.
LEMMA EdgesReadSteps ==
    ASSUME NEW S, NEW h \in GraphsOn(S), NEW es \in Seq(S \X S)
    PROVE  \E f : EdgesReadRun(f, S, h, es)
<1> DEFINE n == Len(es)
           V == GraphsOn(S)
           b == h
           After(v, x) == AddEdge(v, x)
           G == [k \in 1..n |-> [v \in V |-> After(v, es[k])]]
           Iter(it) == it = [T \in SUBSET DOMAIN es |->
                               IF T = {} THEN b ELSE After(it[T \ {Max(T)}], es[Max(T)])]
<1>1. FoldLeft(AddEdge, h, es) = (CHOOSE it : Iter(it))[DOMAIN es]
    BY Zenon DEF FoldLeft, FoldLeft, MapThenFoldSet
<1>2. n \in Nat /\ DOMAIN es = 1..n /\ b \in V
    BY LenProperties
<1>3. \A k \in 1..n : \A v \in V : After(v, es[k]) \in V
    <2>1. \A k \in 1..n : es[k] \in S \X S
        BY <1>2
    <2>2. \A k \in 1..n : es[k][1] \in S /\ es[k][2] \in S /\ es[k] = <<es[k][1], es[k][2]>>
        BY <2>1
    <2>3. ASSUME NEW k \in 1..n, NEW v \in V
          PROVE  AddEdge(v, <<es[k][1], es[k][2]>>) \in V
        BY <2>2, GraphStaysWellFormed
    <2> QED
        BY <2>2, <2>3
<1> HIDE DEF n, V, b, After
<1>4. Foldable(V, b, n, G) /\ \A k \in 1..n : \A v \in V : G[k][v] = After(v, es[k])
    BY <1>2, <1>3 DEF Foldable
<1>5. \A T \in SUBSET (1..n) : T # {} => Max(T) \in 1..n
    BY <1>2, MaxPosition
<1> HIDE DEF G
<1>6. \E it : Iter(it)
    <2>1. PICK it : IsFold(it, V, b, n, G)
        BY <1>4, FoldExists, Zenon
    <2>2. ASSUME NEW T \in SUBSET (1..n)
          PROVE  it[T] = IF T = {} THEN b ELSE After(it[T \ {Max(T)}], es[Max(T)])
        BY <1>4, <1>5, <2>1 DEF IsFold
    <2> QED
        BY <1>2, <2>1, <2>2 DEF IsFold
<1>7. PICK it : FoldLeft(AddEdge, h, es) = it[DOMAIN es] /\ Iter(it)
    <2> HIDE DEF Iter
    <2> QED
        BY <1>1, <1>6
<1>8. Follows(it, V, b, n, G)
    <2>1. ASSUME NEW T \in SUBSET (1..n)
          PROVE  it[T] = IF T = {} THEN b ELSE After(it[T \ {Max(T)}], es[Max(T)])
        BY <1>2, <1>7
    <2>2. ASSUME NEW T \in SUBSET (1..n), T # {}, it[T \ {Max(T)}] \in V
          PROVE  it[T] = G[Max(T)][it[T \ {Max(T)}]]
        BY <1>4, <1>5, <2>1, <2>2
    <2> QED
        BY <2>1, <2>2 DEF Follows
<1>9. PICK f : Steps(f, V, b, n, G) /\ f[n] = it[1..n]
    <2>1. Foldable(V, b, n, G)
        BY <1>4
    <2> QED
        BY <1>8, <2>1, FoldValues
<1>10. \A k \in 1..n : f[k] = After(f[k - 1], es[k])
    <2> TAKE k \in 1..n
    <2>1. f[k - 1] \in V
        BY <1>2, <1>9 DEF Steps
    <2> QED
        BY <1>4, <1>9, <2>1 DEF Steps
<1>11. f \in [0..n -> V] /\ f[0] = b /\ f[n] = FoldLeft(AddEdge, h, es)
    BY <1>2, <1>7, <1>9 DEF Steps
<1>12. EdgesReadRun(f, S, h, es)
    BY <1>10, <1>11, Zenon DEF EdgesReadRun, n, V, b, After
<1> QED
    BY <1>12

\* An edge that is there is not added again.
MissingRun(f, g, l) ==
    /\ f \in [0..Len(l) -> {g}] /\ f[0] = g /\ f[Len(l)] = MissingAdded(g, l)
    /\ \A k \in 1..Len(l) : f[k] = IF l[k] \in EdgesOf(f[k - 1]) THEN f[k - 1] ELSE AddEdge(f[k - 1], l[k])

\* Its steps exist.
LEMMA MissingSteps ==
    ASSUME NEW g, NEW S, NEW l \in Seq(S), \A i \in 1..Len(l) : l[i] \in EdgesOf(g)
    PROVE  \E f : MissingRun(f, g, l)
<1> DEFINE n == Len(l)
           V == {g}
           b == g
           After(v, x) == IF x \in EdgesOf(v) THEN v ELSE AddEdge(v, x)
           G == [k \in 1..n |-> [v \in V |-> After(v, l[k])]]
           Iter(it) == it = [T \in SUBSET DOMAIN l |->
                               IF T = {} THEN b ELSE After(it[T \ {Max(T)}], l[Max(T)])]
<1>1. MissingAdded(g, l) = (CHOOSE it : Iter(it))[DOMAIN l]
    BY Zenon DEF MissingAdded, FoldLeft, MapThenFoldSet
<1>2. n \in Nat /\ DOMAIN l = 1..n /\ b \in V
    BY LenProperties
<1>3. \A k \in 1..n : \A v \in V : After(v, l[k]) \in V
    OBVIOUS
<1> HIDE DEF n, V, b, After
<1>4. Foldable(V, b, n, G) /\ \A k \in 1..n : \A v \in V : G[k][v] = After(v, l[k])
    BY <1>2, <1>3 DEF Foldable
<1>5. \A T \in SUBSET (1..n) : T # {} => Max(T) \in 1..n
    BY <1>2, MaxPosition
<1> HIDE DEF G
<1>6. \E it : Iter(it)
    <2>1. PICK it : IsFold(it, V, b, n, G)
        BY <1>4, FoldExists, Zenon
    <2>2. ASSUME NEW T \in SUBSET (1..n)
          PROVE  it[T] = IF T = {} THEN b ELSE After(it[T \ {Max(T)}], l[Max(T)])
        BY <1>4, <1>5, <2>1 DEF IsFold
    <2> QED
        BY <1>2, <2>1, <2>2 DEF IsFold
<1>7. PICK it : MissingAdded(g, l) = it[DOMAIN l] /\ Iter(it)
    <2> HIDE DEF Iter
    <2> QED
        BY <1>1, <1>6
<1>8. Follows(it, V, b, n, G)
    <2>1. ASSUME NEW T \in SUBSET (1..n)
          PROVE  it[T] = IF T = {} THEN b ELSE After(it[T \ {Max(T)}], l[Max(T)])
        BY <1>2, <1>7
    <2>2. ASSUME NEW T \in SUBSET (1..n), T # {}, it[T \ {Max(T)}] \in V
          PROVE  it[T] = G[Max(T)][it[T \ {Max(T)}]]
        BY <1>4, <1>5, <2>1, <2>2
    <2> QED
        BY <2>1, <2>2 DEF Follows
<1>9. PICK f : Steps(f, V, b, n, G) /\ f[n] = it[1..n]
    <2>1. Foldable(V, b, n, G)
        BY <1>4
    <2> QED
        BY <1>8, <2>1, FoldValues
<1>10. \A k \in 1..n : f[k] = After(f[k - 1], l[k])
    <2> TAKE k \in 1..n
    <2>1. f[k - 1] \in V
        BY <1>2, <1>9 DEF Steps
    <2> QED
        BY <1>4, <1>9, <2>1 DEF Steps
<1>11. f \in [0..n -> V] /\ f[0] = b /\ f[n] = MissingAdded(g, l)
    BY <1>2, <1>7, <1>9 DEF Steps
<1>12. MissingRun(f, g, l)
    BY <1>10, <1>11, Zenon DEF MissingRun, n, V, b, After
<1> QED
    BY <1>12

\* After the nodes and edges, the dependencies of each node.
DependsRun(f, g, q) ==
    /\ f \in [0..Len(q) -> {g}] /\ f[0] = g /\ f[Len(q)] = DependsRead(g, q)
    /\ \A k \in 1..Len(q) : f[k] = MissingAdded(f[k - 1], Links(q[k]))

\* Its steps exist.
LEMMA DependsSteps ==
    ASSUME NEW g, NEW S, NEW q \in Seq(S), \A i \in 1..Len(q) : MissingAdded(g, Links(q[i])) = g
    PROVE  \E f : DependsRun(f, g, q)
<1> DEFINE n == Len(q)
           V == {g}
           b == g
           After(v, x) == MissingAdded(v, Links(x))
           G == [k \in 1..n |-> [v \in V |-> After(v, q[k])]]
           Iter(it) == it = [T \in SUBSET DOMAIN q |->
                               IF T = {} THEN b ELSE After(it[T \ {Max(T)}], q[Max(T)])]
<1>1. DependsRead(g, q) = (CHOOSE it : Iter(it))[DOMAIN q]
    BY Zenon DEF DependsRead, FoldLeft, MapThenFoldSet
<1>2. n \in Nat /\ DOMAIN q = 1..n /\ b \in V
    BY LenProperties
<1>3. \A k \in 1..n : \A v \in V : After(v, q[k]) \in V
    OBVIOUS
<1> HIDE DEF n, V, b, After
<1>4. Foldable(V, b, n, G) /\ \A k \in 1..n : \A v \in V : G[k][v] = After(v, q[k])
    BY <1>2, <1>3 DEF Foldable
<1>5. \A T \in SUBSET (1..n) : T # {} => Max(T) \in 1..n
    BY <1>2, MaxPosition
<1> HIDE DEF G
<1>6. \E it : Iter(it)
    <2>1. PICK it : IsFold(it, V, b, n, G)
        BY <1>4, FoldExists, Zenon
    <2>2. ASSUME NEW T \in SUBSET (1..n)
          PROVE  it[T] = IF T = {} THEN b ELSE After(it[T \ {Max(T)}], q[Max(T)])
        BY <1>4, <1>5, <2>1 DEF IsFold
    <2> QED
        BY <1>2, <2>1, <2>2 DEF IsFold
<1>7. PICK it : DependsRead(g, q) = it[DOMAIN q] /\ Iter(it)
    <2> HIDE DEF Iter
    <2> QED
        BY <1>1, <1>6
<1>8. Follows(it, V, b, n, G)
    <2>1. ASSUME NEW T \in SUBSET (1..n)
          PROVE  it[T] = IF T = {} THEN b ELSE After(it[T \ {Max(T)}], q[Max(T)])
        BY <1>2, <1>7
    <2>2. ASSUME NEW T \in SUBSET (1..n), T # {}, it[T \ {Max(T)}] \in V
          PROVE  it[T] = G[Max(T)][it[T \ {Max(T)}]]
        BY <1>4, <1>5, <2>1, <2>2
    <2> QED
        BY <2>1, <2>2 DEF Follows
<1>9. PICK f : Steps(f, V, b, n, G) /\ f[n] = it[1..n]
    <2>1. Foldable(V, b, n, G)
        BY <1>4
    <2> QED
        BY <1>8, <2>1, FoldValues
<1>10. \A k \in 1..n : f[k] = After(f[k - 1], q[k])
    <2> TAKE k \in 1..n
    <2>1. f[k - 1] \in V
        BY <1>2, <1>9 DEF Steps
    <2> QED
        BY <1>4, <1>9, <2>1 DEF Steps
<1>11. f \in [0..n -> V] /\ f[0] = b /\ f[n] = DependsRead(g, q)
    BY <1>2, <1>7, <1>9 DEF Steps
<1>12. DependsRun(f, g, q)
    BY <1>10, <1>11, Zenon DEF DependsRun, n, V, b, After
<1> QED
    BY <1>12

\* Reading the nodes of a stored graph gives its nodes, in their order.
LEMMA NodesReadIs ==
    ASSUME NEW S, NEW g \in GraphsOn(S), NEW q \in Seq(Stored(S)), Len(q) = Len(g.nodes),
           \A i \in 1..Len(q) : q[i].id = g.nodes[i]
    PROVE  NodesRead(q) \in GraphsOn(S) /\ NodesRead(q) = [nodes |-> g.nodes, edges |-> <<>>]
<1> DEFINE n == Len(q)
           Right(k, h) == /\ h \in GraphsOn(S) /\ h.edges = <<>> /\ Len(h.nodes) = k
                          /\ \A i \in 1..k : h.nodes[i] = g.nodes[i]
<1>1. PICK f : NodesReadRun(f, S, q)
    BY NodesReadSteps
<1>2. /\ f[0] = Empty /\ f[n] = NodesRead(q)
      /\ \A k \in 1..n : f[k] = AddNode(f[k - 1], q[k].id)
    BY <1>1, Zenon DEF NodesReadRun
<1>3. /\ n \in Nat /\ DOMAIN g.nodes = 1..n /\ IsInjective(g.nodes) /\ g.nodes \in Seq(S)
      /\ \A i \in 1..n : g.nodes[i] \in S
    <2>1. Len(g.nodes) \in Nat /\ DOMAIN g.nodes = 1..Len(g.nodes)
        BY GraphFacts
    <2>2. g.nodes \in Seq(S) /\ IsInjective(g.nodes)
        BY GraphFields
    <2>3. \A i \in 1..Len(g.nodes) : g.nodes[i] \in S
        BY <2>2, LenProperties
    <2> QED
        BY <2>1, <2>2, <2>3
<1>4. \A k \in 1..n : q[k].id = g.nodes[k]
    OBVIOUS
<1> HIDE DEF n, Right
<1> DEFINE P == {k \in 0..n : Right(k, f[k])}
<1>5. 0 \in P
    <2>1. Empty.edges = <<>> /\ Len(Empty.nodes) = 0 /\ 1..0 = {}
        BY DEF Empty
    <2>2. Right(0, Empty)
        BY <2>1, EmptyIsGraph DEF Right
    <2> QED
        BY <1>2, <1>3, <2>2
<1>6. ASSUME NEW k \in 0..(n - 1), k \in P
      PROVE  k + 1 \in P
    <2> DEFINE h == f[k]
               m == g.nodes[k + 1]
               ns == Append(h.nodes, m)
    <2>1. /\ k + 1 \in 1..n /\ (k + 1) - 1 = k /\ k + 1 \in 0..n /\ k \in Nat
          /\ \A i \in 1..k : i \in 1..n /\ i # k + 1
        BY <1>3, <1>6
    <2>2. Right(k, h)
        BY <1>6
    <2>3. f[k + 1] = AddNode(h, m)
        BY <1>2, <1>4, <2>1
    <2>4. m \in S
        BY <1>3, <2>1
    <2>0. m = g.nodes[k + 1]
        OBVIOUS
    <2> HIDE DEF h, m
    <2>5. /\ h \in GraphsOn(S) /\ h.edges = <<>> /\ Len(h.nodes) = k
          /\ \A i \in 1..k : h.nodes[i] = g.nodes[i]
        BY <2>2 DEF Right
    <2>6. h = [nodes |-> h.nodes, edges |-> h.edges] /\ h.nodes \in Seq(S)
        BY <2>5, GraphFields
    <2>7. m \notin NodesOf(h)
        <3>1. \A x : x \in ToSet(h.nodes) <=> \E i \in 1..Len(h.nodes) : h.nodes[i] = x
            BY <2>6, SeqSet
        <3>2. ASSUME NEW i \in 1..k, h.nodes[i] = m
              PROVE  FALSE
            <4>1. g.nodes[i] = g.nodes[k + 1]
                BY <2>0, <2>5, <3>2
            <4> QED
                BY <1>3, <2>1, <4>1 DEF IsInjective
        <3> QED
            BY <2>5, <3>1, <3>2 DEF NodesOf
    <2>8. AddNode(h, m) = [nodes |-> ns, edges |-> h.edges]
        BY <2>6, <2>7 DEF AddNode
    <2>9. Len(ns) = k + 1 /\ ns[k + 1] = m /\ \A i \in 1..k : ns[i] = h.nodes[i]
        BY <2>4, <2>5, <2>6, AppendProperties
    <2>10. AddNode(h, m) \in GraphsOn(S)
        BY <2>4, <2>5, GraphStaysWellFormed
    <2> HIDE DEF ns
    <2>11. \A i \in 1..(k + 1) : ns[i] = g.nodes[i]
        <3>1. \A i \in 1..(k + 1) : i \in 1..k \/ i = k + 1
            BY <2>1
        <3> QED
            BY <2>0, <2>5, <2>9, <3>1
    <2>12. Right(k + 1, AddNode(h, m))
        BY <2>5, <2>8, <2>9, <2>10, <2>11 DEF Right
    <2> QED
        BY <2>1, <2>3, <2>12
<1> HIDE DEF P
<1>7. n \in P
    <2>1. \A k \in 0..n : k \in P
        BY <1>3, <1>5, <1>6, UpTo
    <2> QED
        BY <1>3, <2>1
<1> DEFINE h == NodesRead(q)
<1>8. /\ h \in GraphsOn(S) /\ h.edges = <<>> /\ Len(h.nodes) = n
      /\ \A i \in 1..n : h.nodes[i] = g.nodes[i]
    BY <1>2, <1>7 DEF P, Right
<1> HIDE DEF h
<1>9. h = [nodes |-> h.nodes, edges |-> h.edges] /\ h.nodes \in Seq(S)
    BY <1>8, GraphFields
<1>10. h.nodes = g.nodes
    <2>1. Len(h.nodes) = Len(g.nodes)
        BY <1>8 DEF n
    <2>2. \A i \in 1..Len(h.nodes) : h.nodes[i] = g.nodes[i]
        BY <1>8
    <2> QED
        BY <1>3, <1>9, <2>1, <2>2, SeqEqual
<1> QED
    BY <1>8, <1>9, <1>10 DEF h

\* Reading its edges then gives its edges, in their order and as often.
LEMMA EdgesReadIs ==
    ASSUME NEW S, NEW g \in GraphsOn(S), NEW h \in GraphsOn(S), h = [nodes |-> g.nodes, edges |-> <<>>]
    PROVE  FoldLeft(AddEdge, h, g.edges) = g
<1> DEFINE es == g.edges
           n == Len(es)
           E == S \X S
           Right(k, u) == /\ u \in GraphsOn(S) /\ u.nodes = g.nodes /\ Len(u.edges) = k
                          /\ \A i \in 1..k : u.edges[i] = es[i]
<1>0. /\ g = [nodes |-> g.nodes, edges |-> es] /\ es \in Seq(S \X S)
      /\ \A e \in ToSet(es) : e[1] \in ToSet(g.nodes) /\ e[2] \in ToSet(g.nodes) /\ e[1] # e[2]
    BY GraphFields
<1>1. PICK f : EdgesReadRun(f, S, h, es)
    BY <1>0, EdgesReadSteps
<1>2. /\ f[0] = h /\ f[n] = FoldLeft(AddEdge, h, es)
      /\ \A k \in 1..n : f[k] = AddEdge(f[k - 1], es[k])
    BY <1>1, Zenon DEF EdgesReadRun
<1>3. n \in Nat /\ \A i \in 1..n : es[i] \in EdgesOf(g) /\ es[i] \in E
    <2>1. n \in Nat /\ \A i \in 1..n : es[i] \in EdgesOf(g)
        BY GraphFacts
    <2>2. \A i \in 1..n : es[i] \in E
        BY <1>0, LenProperties
    <2> QED
        BY <2>1, <2>2
<1> HIDE DEF n, Right
<1> DEFINE P == {k \in 0..n : Right(k, f[k])}
<1>4. 0 \in P
    <2>1. h.edges = <<>> /\ h.nodes = g.nodes /\ Len(h.edges) = 0 /\ 1..0 = {}
        OBVIOUS
    <2>2. Right(0, h)
        BY <2>1 DEF Right
    <2> QED
        BY <1>2, <1>3, <2>2
<1>5. ASSUME NEW k \in 0..(n - 1), k \in P
      PROVE  k + 1 \in P
    <2> DEFINE u == f[k]
               e == es[k + 1]
               us == Append(u.edges, e)
    <2>1. k + 1 \in 1..n /\ (k + 1) - 1 = k /\ k + 1 \in 0..n /\ k \in Nat
        BY <1>3, <1>5
    <2>2. Right(k, u)
        BY <1>5
    <2>3. f[k + 1] = AddEdge(u, e)
        BY <1>2, <2>1
    <2>4. e \in E /\ e \in EdgesOf(g) /\ e = es[k + 1]
        BY <1>3, <2>1
    <2> HIDE DEF u, e
    <2>5. /\ u \in GraphsOn(S) /\ u.nodes = g.nodes /\ Len(u.edges) = k
          /\ \A i \in 1..k : u.edges[i] = es[i]
        BY <2>2 DEF Right
    <2>6. u = [nodes |-> u.nodes, edges |-> u.edges] /\ u.edges \in Seq(E)
        BY <2>5, GraphFields
    <2>7. {e[1], e[2]} \subseteq NodesOf(u) /\ e[1] # e[2]
        BY <1>0, <2>4, <2>5 DEF NodesOf, EdgesOf
    <2>8. AddEdge(u, e) = [nodes |-> u.nodes, edges |-> us]
        BY <2>6, <2>7 DEF AddEdge
    <2>9. Len(us) = k + 1 /\ us[k + 1] = e /\ \A i \in 1..k : us[i] = u.edges[i]
        <3> HIDE DEF E
        <3> QED
            BY <2>4, <2>5, <2>6, AppendProperties
    <2>10. AddEdge(u, e) \in GraphsOn(S)
        <3>1. e[1] \in S /\ e[2] \in S /\ e = <<e[1], e[2]>>
            BY <2>4
        <3>2. AddEdge(u, <<e[1], e[2]>>) \in GraphsOn(S)
            BY <2>5, <3>1, GraphStaysWellFormed
        <3> QED
            BY <3>1, <3>2
    <2> HIDE DEF us
    <2>11. \A i \in 1..(k + 1) : us[i] = es[i]
        <3>1. \A i \in 1..(k + 1) : i \in 1..k \/ i = k + 1
            BY <2>1
        <3> QED
            BY <2>4, <2>5, <2>9, <3>1
    <2>12. Right(k + 1, AddEdge(u, e))
        BY <2>5, <2>8, <2>9, <2>10, <2>11 DEF Right
    <2> QED
        BY <2>1, <2>3, <2>12
<1> HIDE DEF P
<1>6. n \in P
    <2>1. \A k \in 0..n : k \in P
        BY <1>3, <1>4, <1>5, UpTo
    <2> QED
        BY <1>3, <2>1
<1> DEFINE u == FoldLeft(AddEdge, h, es)
<1>7. Right(n, u)
    BY <1>2, <1>6 DEF P
<1> HIDE DEF u
<1>8. /\ u \in GraphsOn(S) /\ u.nodes = g.nodes /\ Len(u.edges) = n
      /\ \A i \in 1..n : u.edges[i] = es[i]
    BY <1>7 DEF Right
<1>9. u = [nodes |-> u.nodes, edges |-> u.edges] /\ u.edges \in Seq(E)
    BY <1>8, GraphFields
<1>10. u.edges = es
    <2>1. Len(u.edges) = Len(es)
        BY <1>8 DEF n
    <2>2. es \in Seq(E) /\ \A i \in 1..Len(u.edges) : u.edges[i] = es[i]
        BY <1>0, <1>8
    <2> HIDE DEF es, E
    <2> QED
        BY <1>9, <2>1, <2>2, SeqEqual
<1> QED
    BY <1>0, <1>8, <1>9, <1>10 DEF u

\* A graph that is stored with to_dict and read back with from_dict is the same
\* graph, its nodes and edges in the same order and the edges as often.
THEOREM StoredGraphIsSame ==
    ASSUME NEW S, NEW g \in GraphsOn(S)
    PROVE  FromDict(ToDict(g)) = g
<1> DEFINE q == ToDict(g).nodes
           n == Len(g.nodes)
<1>1. ToDict(g).edges = g.edges
      /\ q = [i \in DOMAIN g.nodes |-> [id |-> g.nodes[i], depends_on |-> ReverseAdj(g, g.nodes[i])]]
    BY DEF ToDict
<1>2. FromDict(ToDict(g)) = DependsRead(FoldLeft(AddEdge, NodesRead(q), g.edges), q)
    BY <1>1, Zenon DEF FromDict, DependsRead, MissingAdded, NodesRead, Links
<1>3. /\ n \in Nat /\ DOMAIN g.nodes = 1..n /\ g.nodes \in Seq(NodesOf(g)) /\ NodesOf(g) \subseteq S
    BY GraphFacts
<1>4. \A i \in 1..n : g.nodes[i] \in NodesOf(g)
    BY <1>3, LenProperties
<1> HIDE DEF q, n
<1>5. ASSUME NEW i \in 1..n
      PROVE  /\ q[i] \in Stored(S) /\ q[i].id = g.nodes[i]
             /\ MissingAdded(g, Links(q[i])) = g
    <2> DEFINE m == g.nodes[i]
               a == ReverseAdj(g, m)
               l == Links(q[i])
    <2>1. q[i] = [id |-> m, depends_on |-> a]
        BY <1>1, <1>3
    <2>2. m \in NodesOf(g) /\ m \in S
        BY <1>3, <1>4
    <2> HIDE DEF m
    <2>3. a \in Seq(NodesOf(g)) /\ \A p : p \in ToSet(a) <=> <<p, m>> \in EdgesOf(g)
        BY <2>2, ReverseAdjIs
    <2> HIDE DEF a
    <2>4. a \in Seq(S)
        BY <1>3, <2>3, SeqMonotonic
    <2>5. Len(a) \in Nat /\ DOMAIN a = 1..Len(a) /\ \A j \in 1..Len(a) : a[j] \in ToSet(a)
        BY <2>4, SeqSet
    <2>6. l = [j \in 1..Len(a) |-> <<a[j], m>>]
        BY <2>1, <2>5 DEF Links
    <2>7. \A j \in 1..Len(a) : <<a[j], m>> \in EdgesOf(g)
        BY <2>3, <2>5
    <2> HIDE DEF l
    <2>8. l \in Seq(EdgesOf(g)) /\ Len(l) = Len(a) /\ \A j \in 1..Len(l) : l[j] \in EdgesOf(g)
        BY <2>5, <2>6, <2>7
    <2>9. PICK f : MissingRun(f, g, l)
        <3> DEFINE E == EdgesOf(g)
        <3>1. l \in Seq(E) /\ \A j \in 1..Len(l) : l[j] \in EdgesOf(g)
            BY <2>8
        <3> HIDE DEF E
        <3> QED
            BY <3>1, MissingSteps
    <2>10. f \in [0..Len(l) -> {g}] /\ f[Len(l)] = MissingAdded(g, l) /\ Len(l) \in Nat
        BY <2>5, <2>8, <2>9, Zenon DEF MissingRun
    <2>11. MissingAdded(g, l) = g
        BY <2>10
    <2> QED
        BY <2>1, <2>2, <2>4, <2>11 DEF Stored, m, l
<1>6. q \in Seq(Stored(S)) /\ Len(q) = n
    <2>1. q \in [1..n -> Stored(S)]
        <3>1. q = [i \in 1..n |-> q[i]]
            BY <1>1, <1>3
        <3> QED
            BY <1>5, <3>1
    <2> QED
        BY <1>3, <2>1
<1> DEFINE h == NodesRead(q)
<1>7. h \in GraphsOn(S) /\ h = [nodes |-> g.nodes, edges |-> <<>>]
    BY <1>5, <1>6, NodesReadIs DEF n
<1> HIDE DEF h
<1>8. FoldLeft(AddEdge, h, g.edges) = g
    BY <1>7, EdgesReadIs
<1>9. PICK f : DependsRun(f, g, q)
    <2> DEFINE T == Stored(S)
    <2>1. q \in Seq(T) /\ \A i \in 1..Len(q) : MissingAdded(g, Links(q[i])) = g
        BY <1>5, <1>6
    <2> HIDE DEF T
    <2> QED
        BY <2>1, DependsSteps
<1>10. f \in [0..Len(q) -> {g}] /\ f[Len(q)] = DependsRead(g, q) /\ Len(q) \in Nat
    BY <1>3, <1>6, <1>9, Zenon DEF DependsRun
<1>11. DependsRead(g, q) = g
    BY <1>10
<1> QED
    BY <1>2, <1>8, <1>11 DEF h

\* For every finite graph, every order in which it was built, every latency and
\* whichever node is removed: validate's order, the critical path and the
\* verdict are right, and to_dict and from_dict give back the graph.
THEOREM ValidateCorrect == Spec => []ValidateIsRight
<1>1. TypeOK => ValidateIsRight
    <2> SUFFICES ASSUME TypeOK, NEW g \in Variants
                 PROVE  /\ OrderIsRight(g)
                        /\ PathIsLongest(g)
                        /\ Valid(g) <=> Blocked(g) = {}
                        /\ FromDict(ToDict(g)) = g
        BY Zenon DEF ValidateIsRight
    <2>1. g \in GraphsOn(Nodes)
        BY VariantsBuilt
    <2> QED
        BY <2>1, OrderCorrect, CriticalPathCorrect, ValidMeansAcyclic, StoredGraphIsSame
<1> QED
    BY <1>1, TypeCorrect, PTL

=============================================================================
