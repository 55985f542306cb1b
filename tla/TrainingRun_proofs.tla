-------------------------- MODULE TrainingRun_proofs --------------------------
(***************************************************************************)
(* Proofs about TrainingRun for every set of tasks, every threshold and     *)
(* reserve, and every number of retries, epochs, runs and faults.           *)
(***************************************************************************)
EXTENDS TrainingRun, FiniteSetTheorems, TLAPS

\* Samples is what the scheduler of a process does to its counts.
LEMMA SchedulerTyped ==
    ASSUME NEW d \in Scheduler, NEW n \in Nat
    PROVE  Add(d, n) \in Scheduler /\ Cycle(d) \in Scheduler /\ Fresh \in Scheduler
<1>1. /\ d.buffer \in Nat /\ d.buffer + n \in Nat
      /\ d.total \in Nat /\ d.total + n \in Nat
      /\ d.cycles \in Nat /\ d.cycles + 1 \in Nat
      /\ d.cycled \in Nat /\ d.cycled + d.buffer \in Nat
    BY DEF Scheduler
<1>2. Add(d, n) \in Scheduler
    BY <1>1 DEF Scheduler, Add
<1>3. Cycle(d) \in Scheduler
    BY <1>1 DEF Scheduler, Cycle
<1> QED
    BY <1>2, <1>3 DEF Scheduler, Fresh

LEMMA SchedulerConserves ==
    ASSUME NEW d \in Scheduler, NEW n \in Nat, Conserved(d)
    PROVE  Conserved(Add(d, n)) /\ Conserved(Cycle(d)) /\ Conserved(Fresh)
BY DEF Scheduler, Conserved, Add, Cycle, Fresh

Done(s, r) == {t \in Task : s[t] = r}

LEMMA DoneFinite ==
    ASSUME NEW s, NEW r
    PROVE  IsFiniteSet(Done(s, r)) /\ Cardinality(Done(s, r)) \in Nat
<1>1. Done(s, r) \in SUBSET Task
    BY DEF Done
<1> QED
    BY <1>1, TaskAssumption, FS_Subset, FS_CardinalityType

LEMMA ReportedTyped ==
    ASSUME NEW s
    PROVE  Reported(s) \in Nat /\ Reported(s) = Cardinality(Done(s, "completed"))
BY DoneFinite DEF Reported, Done

LEMMA CollectedCounts ==
    ASSUME NEW s, Collected(s), count \in [completed : Nat, reported : Nat, lost : Nat]
    PROVE  /\ count' \in [completed : Nat, reported : Nat, lost : Nat]
           /\ count'.completed = count.completed
           /\ count'.reported = count.reported + Reported(s)
           /\ count'.lost = count.lost + Cardinality(Done(s, "cancelled"))
<1> DEFINE r == Reported(s)
           c == Cardinality(Done(s, "cancelled"))
<1>1. r \in Nat /\ c \in Nat
    BY ReportedTyped, DoneFinite
<1>2. count' = [count EXCEPT !.reported = @ + r, !.lost = @ + c]
    BY DEF Collected, Done
<1> HIDE DEF r, c
<1>3. /\ count.completed \in Nat
      /\ count.reported \in Nat /\ count.reported + r \in Nat
      /\ count.lost \in Nat /\ count.lost + c \in Nat
    BY <1>1
<1>4. count' = [completed |-> count.completed, reported |-> count.reported + r, lost |-> count.lost + c]
    BY <1>2
<1>5. /\ count' \in [completed : Nat, reported : Nat, lost : Nat]
      /\ count'.completed = count.completed
      /\ count'.reported = count.reported + r
      /\ count'.lost = count.lost + c
    BY <1>3, <1>4
<1> QED
    BY <1>5 DEF r, c

-----------------------------------------------------------------------------
(* Type correctness *)

LEMMA InitTyped == Init => TypeOK
BY SizeAssumption
   DEF Init, TypeOK, NoTries, NoCount, Fresh, Scheduler

\* A process that ends takes everything but the checkpoint with it.
LEMMA ExitTyped ==
    ASSUME TypeOK, Exit, saved' \in [file : {"none", "whole", "broken"}, state : Scheduler],
           runs' = runs, faults' \in 0..MaxFaults
    PROVE  TypeOK'
BY SizeAssumption DEF TypeOK, Exit, NoTries, NoCount, Fresh, Scheduler

LEMMA ScheduleTyped == TypeOK /\ Schedule => TypeOK'
<1> SUFFICES ASSUME TypeOK, Schedule
             PROVE  TypeOK'
    OBVIOUS
<1>1. CASE StartBatch
    BY <1>1, SizeAssumption DEF TypeOK, StartBatch, NoTries, Training, Distilling
<1>2. ASSUME NEW t \in Task, StartRollout(t)
      PROVE  TypeOK'
    BY <1>2 DEF TypeOK, StartRollout, Decide
<1>3. ASSUME NEW t \in Task, Completes(t)
      PROVE  TypeOK'
    BY <1>3 DEF TypeOK, Completes, Charge, Final
<1>4. ASSUME NEW t \in Task, RetryOrFail(t)
      PROVE  TypeOK'
    <2>1. CASE tries[t] < MaxRetries
        BY <1>4, <2>1, SizeAssumption DEF TypeOK, RetryOrFail, Decide
    <2>2. CASE ~(tries[t] < MaxRetries)
        BY <1>4, <2>2 DEF TypeOK, RetryOrFail, Final
    <2> QED
        BY <2>1, <2>2
<1>5. ASSUME NEW t \in Task, LateEnd(t)
      PROVE  TypeOK'
    BY <1>5 DEF TypeOK, LateEnd, Charge
<1>6. CASE AllDone
    BY <1>6, CollectedCounts DEF TypeOK, AllDone, batchVars, Training
<1>7. CASE WindowCloses
    <2>1. st' \in [Task -> {"none", "ready", "running"} \union Final]
        BY <1>7 DEF TypeOK, WindowCloses, Final
    <2>2. count' \in [completed : Nat, reported : Nat, lost : Nat]
        BY <1>7, CollectedCounts DEF TypeOK, WindowCloses
    <2> QED
        BY <1>7, <2>1, <2>2 DEF TypeOK, WindowCloses, Training
<1> QED
    BY <1>1, <1>2, <1>3, <1>4, <1>5, <1>6, <1>7 DEF Schedule

LEMMA NextTyped == TypeOK /\ [Next]_vars => TypeOK'
<1> SUFFICES ASSUME TypeOK, [Next]_vars
             PROVE  TypeOK'
    OBVIOUS
<1>1. CASE StartTraining
    BY <1>1, SizeAssumption DEF TypeOK, StartTraining, batchVars, Training
<1>2. CASE Schedule
    BY <1>2, ScheduleTyped
<1>3. CASE Collect
    <2>1. distill' \in Scheduler
        BY <1>3, ReportedTyped, SchedulerTyped DEF TypeOK, Collect
    <2> QED
        BY <1>3, <2>1 DEF TypeOK, Collect, batchVars, Training
<1>4. CASE RunCycle
    <2>1. distill' \in Scheduler
        BY <1>4, SchedulerTyped DEF TypeOK, RunCycle
    <2> QED
        BY <1>4, <2>1 DEF TypeOK, RunCycle, batchVars, Training
<1>5. CASE LogEpoch
    BY <1>5 DEF TypeOK, LogEpoch, batchVars, Training
<1>6. CASE Finish
    BY <1>6, ExitTyped DEF TypeOK, Finish
<1>7. CASE Stops
    <2>1. saved' \in [file : {"none", "whole", "broken"}, state : Scheduler]
        BY <1>7 DEF TypeOK, Stops
    <2>2. faults' \in 0..MaxFaults
        BY <1>7, SizeAssumption DEF TypeOK, Stops, Fault
    <2> QED
        BY <1>7, <2>1, <2>2, ExitTyped DEF Stops
<1>8. CASE StartDistill
    <2>1. distill' \in Scheduler
        BY <1>8, SchedulerTyped DEF TypeOK, StartDistill
    <2> QED
        BY <1>8, <2>1, SizeAssumption DEF TypeOK, StartDistill, batchVars, Distilling
<1>9. CASE AddBatch
    <2>1. distill' \in Scheduler
        BY <1>9, SchedulerTyped, SizeAssumption DEF TypeOK, AddBatch
    <2> QED
        BY <1>9, <2>1 DEF TypeOK, AddBatch, batchVars, Distilling
<1>10. CASE DistillCycle
    <2>1. distill' \in Scheduler
        BY <1>10, SchedulerTyped DEF TypeOK, DistillCycle
    <2> QED
        BY <1>10, <2>1 DEF TypeOK, DistillCycle, batchVars, Distilling
<1>11. CASE SaveCheckpoint
    <2>1. saved' \in [file : {"none", "whole", "broken"}, state : Scheduler]
        BY <1>11 DEF TypeOK, SaveCheckpoint
    <2> QED
        BY <1>11, <2>1, ExitTyped DEF TypeOK, SaveCheckpoint
<1>12. CASE UNCHANGED vars
    BY <1>12 DEF TypeOK, vars
<1> QED
    BY <1>1, <1>2, <1>3, <1>4, <1>5, <1>6, <1>7, <1>8, <1>9, <1>10, <1>11, <1>12
       DEF Next, Main, Distill

\* Type correctness of both programs (main, _run_distill), for every number of
\* tasks, retries, epochs, runs and faults.
THEOREM TypeCorrect == Spec => []TypeOK
<1> QED
    BY InitTyped, NextTyped, PTL DEF Spec

-----------------------------------------------------------------------------
(* Samples *)

\* The steps of the epoch loop and of the batch leave the samples where they are.
Steady == distill' = distill /\ saved' = saved

LEMMA NextConserves == TypeOK /\ SamplesConserved /\ [Next]_vars => SamplesConserved'
<1> SUFFICES ASSUME TypeOK, SamplesConserved, [Next]_vars
             PROVE  SamplesConserved'
    OBVIOUS
<1> USE DEF SamplesConserved
<1>1. distill \in Scheduler /\ saved.state \in Scheduler
    BY DEF TypeOK
<1>2. CASE StartTraining \/ Schedule \/ LogEpoch \/ UNCHANGED vars
    <2>1. Steady
        BY <1>2 DEF Steady, StartTraining, Schedule, StartBatch, StartRollout, Completes, RetryOrFail,
                    LateEnd, AllDone, WindowCloses, LogEpoch, vars
    <2> QED
        BY <2>1 DEF Steady, Conserved
<1>3. CASE Collect
    BY <1>1, <1>3, ReportedTyped, SchedulerConserves DEF Collect
<1>4. CASE RunCycle
    BY <1>1, <1>4, SchedulerConserves DEF RunCycle
<1>5. CASE Finish
    BY <1>1, <1>5, SchedulerConserves DEF Finish, Exit
<1>6. CASE Stops
    <2>1. saved' = saved \/ saved'.file = "broken"
        BY <1>6 DEF Stops, TypeOK
    <2> QED
        BY <1>1, <1>6, <2>1, SchedulerConserves DEF Stops, Exit
<1>7. CASE StartDistill
    <2>1. CASE saved.file = "none"
        BY <1>1, <1>7, <2>1, SchedulerConserves DEF StartDistill
    <2>2. CASE saved.file = "whole"
        BY <1>7, <2>2 DEF StartDistill, Conserved
    <2> QED
        BY <1>7, <2>1, <2>2 DEF StartDistill, TypeOK
<1>8. CASE AddBatch
    BY <1>1, <1>8, SchedulerConserves, SizeAssumption DEF AddBatch
<1>9. CASE DistillCycle
    BY <1>1, <1>9, SchedulerConserves DEF DistillCycle
<1>10. CASE SaveCheckpoint
    BY <1>1, <1>10, SchedulerConserves DEF SaveCheckpoint, Exit
<1> QED
    BY <1>2, <1>3, <1>4, <1>5, <1>6, <1>7, <1>8, <1>9, <1>10 DEF Next, Main, Distill

\* Every sample added is in the buffer or in one recorded cycle, through crashes
\* and resumed runs (add_sample, run_cycle, save_checkpoint, load_checkpoint).
THEOREM SamplesKept == Spec => []SamplesConserved
<1>1. Init => SamplesConserved
    BY DEF Init, SamplesConserved, Conserved, Fresh
<1> QED
    BY <1>1, NextConserves, TypeCorrect, PTL DEF Spec

-----------------------------------------------------------------------------
(* The budget *)

\* Rollouts that decided to call the planner and have not ended.
Pending == {t \in useSota : t \in late \/ st[t] = "running"}

\* What the last batch left ends before a rollout of the next one starts.
LateFirst == \A t \in Task : st[t] = "running" => late = {}

\* The calls made and those under way: each was decided below the reserve.
BudgetInv ==
    /\ LateFirst
    /\ charged + Cardinality(Pending) < Reserve + Cardinality(Task)

LEMMA PendingFinite ==
    ASSUME TypeOK
    PROVE  /\ IsFiniteSet(Pending) /\ Cardinality(Pending) \in Nat
           /\ Cardinality(Pending) <= Cardinality(Task) /\ Cardinality(Task) \in Nat
<1>1. Pending \in SUBSET Task
    BY DEF TypeOK, Pending
<1> QED
    BY <1>1, TaskAssumption, FS_Subset, FS_CardinalityType

LEMMA SubsetSmaller ==
    ASSUME NEW S, NEW T \in SUBSET S, IsFiniteSet(S)
    PROVE  Cardinality(T) \in Nat /\ Cardinality(T) <= Cardinality(S)
BY FS_Subset, FS_CardinalityType

\* A step that charges nothing and leaves no new call under way.
LEMMA QuietStep ==
    ASSUME TypeOK, TypeOK', BudgetInv, charged' = charged, Pending' \subseteq Pending
    PROVE  charged' + Cardinality(Pending') < Reserve + Cardinality(Task)
<1>1. Cardinality(Pending') \in Nat /\ Cardinality(Pending') <= Cardinality(Pending)
    BY PendingFinite, SubsetSmaller
<1> QED
    BY <1>1, PendingFinite, SizeAssumption DEF BudgetInv, TypeOK

\* A rollout that decides: the budget was below the reserve, and the others
\* under way are rollouts of the same batch.
LEMMA DecidingStep ==
    ASSUME TypeOK, TypeOK', BudgetInv, charged' = charged, charged < Reserve
    PROVE  charged' + Cardinality(Pending') < Reserve + Cardinality(Task)
<1>1. Pending' \in SUBSET Task
    BY DEF TypeOK, Pending
<1>2. Cardinality(Pending') \in Nat /\ Cardinality(Pending') <= Cardinality(Task)
    BY <1>1, TaskAssumption, SubsetSmaller
<1> QED
    BY <1>2, PendingFinite, SizeAssumption DEF TypeOK

\* A rollout that ends: it is charged if it was under way with a call.
LEMMA EndingStep ==
    ASSUME TypeOK, TypeOK', BudgetInv, NEW t \in Task, Charge(t),
           Pending' \subseteq Pending \ {t}, t \in useSota => t \in Pending
    PROVE  charged' + Cardinality(Pending') < Reserve + Cardinality(Task)
<1>1. CASE t \in useSota
    <2>1. IsFiniteSet(Pending \ {t}) /\ Cardinality(Pending \ {t}) = Cardinality(Pending) - 1
        BY <1>1, PendingFinite, FS_RemoveElement
    <2>2. Cardinality(Pending') \in Nat /\ Cardinality(Pending') <= Cardinality(Pending \ {t})
        BY <2>1, SubsetSmaller
    <2> QED
        BY <1>1, <2>1, <2>2, PendingFinite, SizeAssumption DEF BudgetInv, TypeOK, Charge
<1>2. CASE t \notin useSota
    BY <1>2, QuietStep DEF Charge
<1> QED
    BY <1>1, <1>2

\* A process that has ended has nothing under way.
LEMMA ExitKeepsBudget ==
    ASSUME TypeOK, Exit
    PROVE  BudgetInv'
<1>1. Pending' = {} /\ charged' = 0 /\ LateFirst'
    BY DEF Exit, Pending, LateFirst
<1>2. Cardinality(Task) \in Nat /\ Cardinality(Task) # 0 /\ Cardinality({}) = 0
    BY TaskAssumption, FS_EmptySet, FS_CardinalityType
<1>3. Cardinality(Pending') = 0
    BY <1>1, <1>2
<1> QED
    BY <1>1, <1>2, <1>3, SizeAssumption DEF BudgetInv

LEMMA NextKeepsBudget == TypeOK /\ TypeOK' /\ BudgetInv /\ [Next]_vars => BudgetInv'
<1> SUFFICES ASSUME TypeOK, TypeOK', BudgetInv, [Next]_vars
             PROVE  BudgetInv'
    OBVIOUS
<1>1. CASE Finish \/ Stops \/ SaveCheckpoint
    BY <1>1, ExitKeepsBudget DEF Finish, Stops, SaveCheckpoint
<1>2. CASE StartTraining \/ AllDone \/ Collect \/ RunCycle \/ LogEpoch \/ StartDistill
           \/ AddBatch \/ DistillCycle \/ UNCHANGED vars
    <2>1. UNCHANGED <<batchVars, charged>>
        BY <1>2 DEF StartTraining, AllDone, Collect, RunCycle, LogEpoch, StartDistill, AddBatch,
                    DistillCycle, vars, batchVars
    <2>2. UNCHANGED <<st, useSota, late, charged>>
        BY <2>1 DEF batchVars
    <2> QED
        BY <2>2 DEF BudgetInv, LateFirst, Pending
<1>3. CASE StartBatch
    <2>1. LateFirst'
        BY <1>3 DEF StartBatch, LateFirst
    <2>2. Pending' \subseteq Pending /\ charged' = charged
        BY <1>3 DEF StartBatch, Pending, TypeOK
    <2> QED
        BY <2>1, <2>2, QuietStep DEF BudgetInv
<1>4. ASSUME NEW t \in Task, StartRollout(t)
      PROVE  BudgetInv'
    <2>1. LateFirst'
        BY <1>4 DEF StartRollout, LateFirst
    <2>2. PICK use \in BOOLEAN : /\ use => charged < Reserve
                                /\ useSota' = IF use THEN useSota \union {t} ELSE useSota \ {t}
        BY <1>4 DEF StartRollout, Decide
    <2>3. CASE use
        BY <1>4, <2>1, <2>2, <2>3, DecidingStep DEF BudgetInv, StartRollout
    <2>4. CASE ~use
        <3>1. Pending' \subseteq Pending
            BY <1>4, <2>2, <2>4 DEF StartRollout, Pending, TypeOK
        <3> QED
            BY <1>4, <2>1, <3>1, QuietStep DEF BudgetInv, StartRollout
    <2> QED
        BY <2>3, <2>4
<1>5. ASSUME NEW t \in Task, Completes(t)
      PROVE  BudgetInv'
    <2>1. LateFirst'
        BY <1>5 DEF Completes, LateFirst, BudgetInv, TypeOK
    <2>2. late = {}
        BY <1>5 DEF Completes, LateFirst, BudgetInv
    <2>3. Pending' \subseteq Pending \ {t} /\ (t \in useSota => t \in Pending)
        BY <1>5, <2>2 DEF Completes, Pending, TypeOK
    <2> QED
        BY <1>5, <2>1, <2>3, EndingStep DEF BudgetInv, Completes
<1>6. ASSUME NEW t \in Task, RetryOrFail(t)
      PROVE  BudgetInv'
    <2>1. LateFirst'
        BY <1>6 DEF RetryOrFail, LateFirst, BudgetInv, TypeOK
    <2>2. charged' = charged
        BY <1>6 DEF RetryOrFail
    <2>3. CASE tries[t] < MaxRetries
        <3>1. PICK use \in BOOLEAN : /\ use => charged < Reserve
                                    /\ useSota' = IF use THEN useSota \union {t} ELSE useSota \ {t}
            BY <1>6, <2>3 DEF RetryOrFail, Decide
        <3>2. CASE use
            BY <2>1, <2>2, <3>1, <3>2, DecidingStep DEF BudgetInv
        <3>3. CASE ~use
            <4>1. Pending' \subseteq Pending
                BY <1>6, <2>3, <3>1, <3>3 DEF RetryOrFail, Pending
            <4> QED
                BY <2>1, <2>2, <4>1, QuietStep DEF BudgetInv
        <3> QED
            BY <3>2, <3>3
    <2>4. CASE ~(tries[t] < MaxRetries)
        <3>1. Pending' \subseteq Pending
            BY <1>6, <2>4 DEF RetryOrFail, Pending, TypeOK
        <3> QED
            BY <2>1, <2>2, <3>1, QuietStep DEF BudgetInv
    <2> QED
        BY <2>3, <2>4
<1>7. CASE WindowCloses
    <2>1. LateFirst'
        BY <1>7 DEF WindowCloses, LateFirst, Final
    <2>2. Pending' \subseteq Pending /\ charged' = charged
        BY <1>7 DEF WindowCloses, Pending, TypeOK, Final
    <2> QED
        BY <2>1, <2>2, QuietStep DEF BudgetInv
<1>8. ASSUME NEW t \in Task, LateEnd(t)
      PROVE  BudgetInv'
    <2>1. LateFirst' /\ st[t] # "running"
        BY <1>8 DEF LateEnd, LateFirst, BudgetInv
    <2>2. Pending' \subseteq Pending \ {t} /\ (t \in useSota => t \in Pending)
        BY <1>8, <2>1 DEF LateEnd, Pending
    <2>3. CASE charged' = charged
        BY <2>1, <2>2, <2>3, QuietStep DEF BudgetInv
    <2>4. CASE Charge(t)
        BY <2>1, <2>2, <2>4, EndingStep DEF BudgetInv
    <2> QED
        BY <1>8, <2>3, <2>4 DEF LateEnd
<1> QED
    BY <1>1, <1>2, <1>3, <1>4, <1>5, <1>6, <1>7, <1>8 DEF Next, Main, Distill, Schedule

\* The planner calls below the reserve are never more than the rollouts of one
\* batch, whatever retries, timeouts and late ends (should_call_sota, record_call).
THEOREM ReserveKept == Spec => []BudgetFloor
<1>1. Init => BudgetInv
    <2> SUFFICES ASSUME Init PROVE BudgetInv
        OBVIOUS
    <2>1. Pending = {} /\ charged = 0 /\ LateFirst
        BY DEF Init, Pending, LateFirst
    <2>2. Cardinality(Task) \in Nat /\ Cardinality(Task) # 0 /\ Cardinality(Pending) = 0
        BY <2>1, TaskAssumption, FS_EmptySet, FS_CardinalityType
    <2> QED
        BY <2>1, <2>2, SizeAssumption DEF BudgetInv
<1>2. TypeOK /\ BudgetInv => BudgetFloor
    BY PendingFinite, SizeAssumption DEF BudgetInv, BudgetFloor, TypeOK
<1> QED
    BY <1>1, <1>2, NextKeepsBudget, TypeCorrect, PTL DEF Spec

-----------------------------------------------------------------------------
(* The counters *)

\* Completed rollouts are counted once, those of the running batch before they
\* are reported; each late rollout was reported as cancelled.
Counts(completed, reported, lost, running, waiting) ==
    /\ reported + running <= completed
    /\ completed + waiting <= reported + lost + running

Unreported == IF pc = "batch" THEN Reported(st) ELSE 0

CountsInv ==
    /\ LateFirst
    /\ Counts(count.completed, count.reported, count.lost, Unreported, Cardinality(late))

LEMMA CountsTyped ==
    ASSUME TypeOK
    PROVE  /\ count.completed \in Nat /\ count.reported \in Nat /\ count.lost \in Nat
           /\ Unreported \in Nat
           /\ IsFiniteSet(late) /\ Cardinality(late) \in Nat
<1>1. late \in SUBSET Task
    BY DEF TypeOK
<1> QED
    BY <1>1, ReportedTyped, TaskAssumption, FS_Subset, FS_CardinalityType DEF TypeOK, Unreported

\* Steps that complete and report nothing.
LEMMA UncountedStep ==
    ASSUME CountsInv, LateFirst', count' = count, Unreported' = Unreported, late' = late
    PROVE  CountsInv'
BY DEF CountsInv

\* A completed rollout of the batch is one more in both places.
LEMMA OneMoreReported ==
    ASSUME TypeOK, NEW t \in Task, st[t] = "running", st' = [st EXCEPT ![t] = "completed"]
    PROVE  Reported(st') = Reported(st) + 1
<1>1. Done(st', "completed") = Done(st, "completed") \union {t} /\ t \notin Done(st, "completed")
    BY DEF Done, TypeOK
<1>2. IsFiniteSet(Done(st, "completed"))
    BY DoneFinite
<1>3. Cardinality(Done(st', "completed")) = Cardinality(Done(st, "completed")) + 1
    BY <1>1, <1>2, FS_AddElement
<1> QED
    BY <1>3, ReportedTyped

LEMMA ExitKeepsCounts ==
    ASSUME Exit
    PROVE  CountsInv'
<1>1. LateFirst' /\ late' = {} /\ Unreported' = 0 /\ count' = NoCount
    BY DEF Exit, LateFirst, Unreported
<1>2. Cardinality(late') = 0
    BY <1>1, FS_EmptySet
<1> QED
    BY <1>1, <1>2 DEF CountsInv, Counts, NoCount

LEMMA NextKeepsCounts == TypeOK /\ TypeOK' /\ CountsInv /\ [Next]_vars => CountsInv'
<1> SUFFICES ASSUME TypeOK, TypeOK', CountsInv, [Next]_vars
             PROVE  CountsInv'
    OBVIOUS
<1>1. CASE Finish \/ Stops \/ SaveCheckpoint
    BY <1>1, ExitKeepsCounts DEF Finish, Stops, SaveCheckpoint
<1>2. CASE StartTraining \/ Collect \/ RunCycle \/ LogEpoch \/ StartDistill
           \/ AddBatch \/ DistillCycle \/ UNCHANGED vars
    <2>1. /\ UNCHANGED <<st, late, count>>
          /\ pc' = pc \/ (pc # "batch" /\ pc' # "batch")
        BY <1>2 DEF StartTraining, Collect, RunCycle, LogEpoch, StartDistill, AddBatch,
                    DistillCycle, vars, batchVars
    <2>2. LateFirst' /\ Unreported' = Unreported
        BY <2>1 DEF CountsInv, LateFirst, Unreported
    <2> QED
        BY <2>1, <2>2, UncountedStep
<1>3. CASE StartBatch
    <2>1. LateFirst' /\ count' = count /\ late' = late /\ pc # "batch"
        BY <1>3 DEF StartBatch, LateFirst
    <2>2. Done(st', "completed") = {}
        BY <1>3 DEF StartBatch, Done
    <2>3. Unreported' = 0 /\ Unreported = 0
        BY <2>1, <2>2, ReportedTyped, FS_EmptySet DEF Unreported
    <2> QED
        BY <2>1, <2>3, UncountedStep
<1>4. ASSUME NEW t \in Task, StartRollout(t) \/ RetryOrFail(t)
      PROVE  CountsInv'
    <2>1. /\ st[t] \in {"ready", "running"} /\ late = {} /\ late' = late
          /\ count' = count /\ pc' = pc /\ st' \in [Task -> {"none", "ready", "running"} \union Final]
        BY <1>4 DEF StartRollout, RetryOrFail, TypeOK, CountsInv, LateFirst
    <2>2. \A r \in Task : st'[r] = "completed" <=> st[r] = "completed"
        BY <1>4, <2>1 DEF StartRollout, RetryOrFail, TypeOK
    <2>3. Done(st', "completed") = Done(st, "completed")
        BY <2>2 DEF Done
    <2>4. LateFirst' /\ Unreported' = Unreported
        BY <2>1, <2>3, ReportedTyped DEF LateFirst, Unreported
    <2> QED
        BY <2>1, <2>4, UncountedStep
<1>5. ASSUME NEW t \in Task, Completes(t)
      PROVE  CountsInv'
    <2>1. /\ count'.completed = count.completed + 1
          /\ count'.reported = count.reported /\ count'.lost = count.lost
        BY <1>5 DEF Completes, TypeOK
    <2>2. late' = late /\ LateFirst'
        BY <1>5 DEF Completes, CountsInv, LateFirst, TypeOK
    <2>3. Unreported' = Unreported + 1
        BY <1>5, OneMoreReported DEF Completes, Unreported
    <2> QED
        BY <2>1, <2>2, <2>3, CountsTyped DEF CountsInv, Counts
<1>6. CASE AllDone
    <2>1. late' = late /\ LateFirst' /\ st' = st
        BY <1>6 DEF AllDone, CountsInv, LateFirst, batchVars
    <2>2. Unreported = Reported(st) /\ Unreported' = 0
        BY <1>6 DEF AllDone, Unreported
    <2>3. /\ count'.completed = count.completed
          /\ count'.reported = count.reported + Reported(st)
          /\ count'.lost = count.lost + Cardinality(Done(st, "cancelled"))
        BY <1>6, CollectedCounts DEF AllDone, TypeOK
    <2>4. Cardinality(Done(st, "cancelled")) \in Nat
        BY DoneFinite
    <2> QED
        BY <2>1, <2>2, <2>3, <2>4, CountsTyped DEF CountsInv, Counts
<1>7. CASE WindowCloses
    <2>1. late = {} /\ LateFirst'
        BY <1>7 DEF WindowCloses, LateFirst, Final
    <2>2. Done(st', "completed") = Done(st, "completed") /\ late' \in SUBSET Done(st', "cancelled")
        BY <1>7 DEF WindowCloses, Done, Final, TypeOK
    <2>3. Unreported = Reported(st) /\ Unreported' = 0 /\ Reported(st') = Reported(st)
        BY <1>7, <2>2, ReportedTyped DEF WindowCloses, Unreported
    <2>4. /\ count'.completed = count.completed
          /\ count'.reported = count.reported + Reported(st')
          /\ count'.lost = count.lost + Cardinality(Done(st', "cancelled"))
        BY <1>7, CollectedCounts DEF WindowCloses, TypeOK
    <2>5. /\ Cardinality(Done(st', "cancelled")) \in Nat
          /\ Cardinality(late') \in Nat /\ Cardinality(late') <= Cardinality(Done(st', "cancelled"))
        BY <2>2, DoneFinite, SubsetSmaller
    <2>6. Cardinality(late) = 0
        BY <2>1, FS_EmptySet
    <2> QED
        BY <2>1, <2>3, <2>4, <2>5, <2>6, CountsTyped DEF CountsInv, Counts
<1>8. ASSUME NEW t \in Task, LateEnd(t)
      PROVE  CountsInv'
    <2>1. LateFirst' /\ Unreported' = Unreported
        BY <1>8 DEF LateEnd, CountsInv, LateFirst, Unreported
    <2>2. Cardinality(late') = Cardinality(late) - 1
        BY <1>8, CountsTyped, FS_RemoveElement DEF LateEnd
    <2>3. /\ count'.completed \in {count.completed, count.completed + 1}
          /\ count'.reported = count.reported /\ count'.lost = count.lost
        BY <1>8 DEF LateEnd, TypeOK
    <2> QED
        BY <2>1, <2>2, <2>3, CountsTyped DEF CountsInv, Counts
<1> QED
    BY <1>1, <1>2, <1>3, <1>4, <1>5, <1>6, <1>7, <1>8 DEF Next, Main, Distill, Schedule

\* total_completed counts every completed result that was returned, and no
\* other rollouts than those reported as cancelled besides (schedule).
THEOREM CountersAgree == Spec => []CountsAgree
<1>1. Init => CountsInv
    BY FS_EmptySet DEF Init, CountsInv, Counts, LateFirst, Unreported, NoCount
<1>2. TypeOK /\ CountsInv => CountsAgree
    <2> SUFFICES ASSUME TypeOK, CountsInv, pc # "batch"
                 PROVE  count.completed \in count.reported..(count.reported + count.lost)
        BY DEF CountsAgree
    <2>1. Unreported = 0
        BY DEF Unreported
    <2> QED
        BY <2>1, CountsTyped DEF CountsInv, Counts
<1> QED
    BY <1>1, <1>2, NextKeepsCounts, TypeCorrect, PTL DEF Spec

=============================================================================
