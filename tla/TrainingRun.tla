------------------------------ MODULE TrainingRun ------------------------------
(***************************************************************************)
(* The two programs that train: zilli/run_training.py main, an epoch loop   *)
(* over AsyncRolloutScheduler.schedule, DynamicSOTAScheduler and            *)
(* DistillationScheduler, and zilli/cli.py _run_distill, which resumes a    *)
(* DistillationScheduler from a checkpoint.  A rollout may suspend, as the  *)
(* scheduler allows any coroutine; the rollouts of main deliver rewards     *)
(* above zero, so that no failure rate rises.  Samples are counted.         *)
(***************************************************************************)
EXTENDS Naturals, FiniteSets

CONSTANTS
    Task,       \* tasks of a batch
    Bad,        \* tasks whose rollout always raises
    MaxRetries, \* AsyncRolloutScheduler.max_retries
    Epochs,     \* num_epochs
    Threshold,  \* DistillationScheduler.lora_threshold
    PerRun,     \* num_samples of the distill command
    Reserve,    \* calls that use up nine tenths of the SOTA budget
    MaxRuns,    \* bound: programs started
    MaxFaults   \* bound: write errors and crashes

\* Without tasks main makes one up.
ASSUME TaskAssumption == IsFiniteSet(Task) /\ Task # {} /\ Bad \subseteq Task
ASSUME SizeAssumption ==
    {MaxRetries, Epochs, Threshold, PerRun, Reserve, MaxRuns, MaxFaults} \subseteq Nat

VARIABLES
    pc,       \* where main or _run_distill is, "idle" without a process
    st,       \* of the run_single of each task
    tries,    \* retry_count of each task
    useSota,  \* tasks whose running rollout decided to call the planner
    late,     \* run_singles of the last batch that were cancelled while running
    count,    \* total_completed, and the results schedule() returned as completed or cancelled
    charged,  \* total_calls of the SOTA scheduler
    epoch,    \* epochs logged
    distill,  \* the DistillationScheduler of the process
    saved,    \* the checkpoint file of the distill command
    runs,     \* programs started
    faults    \* errors and crashes so far

batchVars == <<st, tries, useSota, late>>
vars == <<pc, st, tries, useSota, late, count, charged, epoch, distill, saved, runs, faults>>

Final == {"completed", "failed", "cancelled"}
Training == {"epoch", "batch", "collected", "distilling", "logging"}
Distilling == {"add", "cycle", "save"}

Fresh == [buffer |-> 0, total |-> 0, cycles |-> 0, cycled |-> 0]
NoCount == [completed |-> 0, reported |-> 0, lost |-> 0]
NoTries == [t \in Task |-> 0]

Init ==
    /\ pc = "idle"
    /\ st = [t \in Task |-> "none"]
    /\ tries = NoTries
    /\ useSota = {}
    /\ late = {}
    /\ count = NoCount
    /\ charged = 0
    /\ epoch = 0
    /\ distill = Fresh
    /\ saved = [file |-> "none", state |-> Fresh]
    /\ runs = 0
    /\ faults = 0

Fault ==
    /\ faults < MaxFaults
    /\ faults' = faults + 1

\* The process ends and takes its memory with it.
Exit ==
    /\ pc' = "idle"
    /\ st' = [t \in Task |-> "none"]
    /\ tries' = NoTries
    /\ useSota' = {}
    /\ late' = {}
    /\ count' = NoCount
    /\ charged' = 0
    /\ epoch' = 0
    /\ distill' = Fresh

-----------------------------------------------------------------------------
(* DistillationScheduler *)

Add(d, n) == [d EXCEPT !.buffer = @ + n, !.total = @ + n]

\* run_cycle: the cycle is recorded and the buffer cleared after the log.
Cycle_KeepsBuffer(d) ==
    IF d.buffer = 0 THEN d ELSE [d EXCEPT !.cycles = @ + 1, !.cycled = @ + d.buffer]

Cycle(d) ==
    IF d.buffer = 0 THEN d
    ELSE [d EXCEPT !.cycles = @ + 1, !.cycled = @ + d.buffer, !.buffer = 0]

\* should_distill; without the threshold the interval since the last cycle decides.
MayDistill(d) == {d.buffer > 0 /\ d.buffer >= Threshold, d.buffer > 0 /\ (d.buffer >= Threshold \/ d.cycles > 0)}

-----------------------------------------------------------------------------
(* AsyncRolloutScheduler.schedule *)

StartTraining ==
    /\ pc = "idle"
    /\ runs < MaxRuns
    /\ runs' = runs + 1
    /\ pc' = "epoch"
    /\ UNCHANGED <<batchVars, count, charged, epoch, distill, saved, faults>>

StartBatch ==
    /\ pc = "epoch"
    /\ epoch < Epochs
    /\ pc' = "batch"
    /\ st' = [t \in Task |-> "ready"]
    /\ tries' = NoTries
    /\ useSota' = useSota \intersect late
    /\ UNCHANGED <<late, count, charged, epoch, distill, saved, runs, faults>>

\* should_call_sota, asked by each rollout when it starts; no failure is
\* recorded in main, so below a tenth of the budget the answer is no.
Decide_Ungated(t) == \E use \in BOOLEAN : useSota' = IF use THEN useSota \union {t} ELSE useSota \ {t}

Decide(t) ==
    \E use \in BOOLEAN :
        /\ use => charged < Reserve
        /\ useSota' = IF use THEN useSota \union {t} ELSE useSota \ {t}

\* Tool errors become observations with a negative reward: run_rollout raises
\* only for a task it cannot read.
Delivers(t) == t \notin Bad

\* record_call or record_without_sota, when the rollout has ended.
Charge(t) == charged' = IF t \in useSota THEN charged + 1 ELSE charged

\* The event loop runs what the last batch left before the new tasks.
StartRollout(t) ==
    /\ pc = "batch"
    /\ st[t] = "ready"
    /\ late = {}
    /\ st' = [st EXCEPT ![t] = "running"]
    /\ Decide(t)
    /\ UNCHANGED <<pc, tries, late, count, charged, epoch, distill, saved, runs, faults>>

Completes(t) ==
    /\ pc = "batch"
    /\ st[t] = "running"
    /\ Delivers(t)
    /\ st' = [st EXCEPT ![t] = "completed"]
    /\ count' = [count EXCEPT !.completed = @ + 1]
    /\ Charge(t)
    /\ UNCHANGED <<pc, tries, useSota, late, epoch, distill, saved, runs, faults>>

\* The rollout raises, or wait_for gives up on it: run_single calls itself.
RetryOrFail_Forever(t) ==
    /\ pc = "batch"
    /\ st[t] = "running"
    /\ Decide(t)
    /\ UNCHANGED <<pc, st, tries, count, late, charged, epoch, distill, saved, runs, faults>>

RetryOrFail(t) ==
    /\ pc = "batch"
    /\ st[t] = "running"
    /\ IF tries[t] < MaxRetries
         THEN /\ tries' = [tries EXCEPT ![t] = @ + 1]
              /\ Decide(t)
              /\ UNCHANGED st
         ELSE /\ st' = [st EXCEPT ![t] = "failed"]
              /\ UNCHANGED <<tries, useSota>>
    /\ UNCHANGED <<pc, late, count, charged, epoch, distill, saved, runs, faults>>

Reported(s) == Cardinality({t \in Task : s[t] = "completed"})
Collected(s) ==
    count' = [count EXCEPT !.reported = @ + Reported(s),
                           !.lost = @ + Cardinality({t \in Task : s[t] = "cancelled"})]

AllDone ==
    /\ pc = "batch"
    /\ late = {}
    /\ \A t \in Task : st[t] \in Final
    /\ pc' = "collected"
    /\ Collected(st)
    /\ UNCHANGED <<batchVars, charged, epoch, distill, saved, runs, faults>>

WindowCloses_Drops ==
    /\ pc = "batch"
    /\ late = {}
    /\ \E t \in Task : st[t] \notin Final
    /\ late' = {t \in Task : st[t] = "running"}
    /\ pc' = "collected"
    /\ Collected(st)
    /\ UNCHANGED <<st, tries, useSota, charged, epoch, distill, saved, runs, faults>>

\* What is pending is cancelled without being awaited, and reported as such.
WindowCloses ==
    /\ pc = "batch"
    /\ late = {}
    /\ \E t \in Task : st[t] \notin Final
    /\ late' = {t \in Task : st[t] = "running"}
    /\ st' = [t \in Task |-> IF st[t] \in Final THEN st[t] ELSE "cancelled"]
    /\ pc' = "collected"
    /\ Collected(st')
    /\ UNCHANGED <<tries, useSota, charged, epoch, distill, saved, runs, faults>>

\* A cancelled rollout that had just finished is counted where wait_for
\* returns its result all the same, and forgotten where it does not.
LateEnd(t) ==
    /\ pc = "batch"
    /\ t \in late
    /\ late' = late \ {t}
    /\ \/ UNCHANGED <<count, charged>>
       \/ /\ Delivers(t)
          /\ Charge(t)
          /\ count' = [count EXCEPT !.completed = @ + 1]
    /\ UNCHANGED <<pc, st, tries, useSota, epoch, distill, saved, runs, faults>>

-----------------------------------------------------------------------------
(* The rest of main *)

\* Every completed rollout is turned into samples, counted as one here.
Collect ==
    /\ pc = "collected"
    /\ distill' = Add(distill, Reported(st))
    /\ \E go \in MayDistill(distill') : pc' = IF go THEN "distilling" ELSE "logging"
    /\ UNCHANGED <<batchVars, count, charged, epoch, saved, runs, faults>>

RunCycle ==
    /\ pc = "distilling"
    /\ distill' = Cycle(distill)
    /\ pc' = "logging"
    /\ UNCHANGED <<batchVars, count, charged, epoch, saved, runs, faults>>

LogEpoch ==
    /\ pc = "logging"
    /\ epoch' = epoch + 1
    /\ pc' = "epoch"
    /\ UNCHANGED <<batchVars, count, charged, distill, saved, runs, faults>>

\* The final checkpoint, which no program reads.
Finish ==
    /\ pc = "epoch"
    /\ epoch = Epochs
    /\ Exit
    /\ UNCHANGED <<saved, runs, faults>>

\* A crash, or an OSError of a log or a checkpoint, which main does not catch.
Stops ==
    /\ pc # "idle"
    /\ Fault
    /\ saved' = saved \/ (pc = "save" /\ saved' = [saved EXCEPT !.file = "broken"])
    /\ Exit
    /\ UNCHANGED runs

-----------------------------------------------------------------------------
(* _run_distill *)

\* A checkpoint that a crash cut short cannot be decoded: the command raises.
StartDistill ==
    /\ pc = "idle"
    /\ runs < MaxRuns
    /\ saved.file # "broken"
    /\ runs' = runs + 1
    /\ distill' = IF saved.file = "none" THEN Fresh ELSE saved.state
    /\ pc' = "add"
    /\ UNCHANGED <<batchVars, count, charged, epoch, saved, faults>>

AddBatch ==
    /\ pc = "add"
    /\ distill' = Add(distill, PerRun)
    /\ pc' = "cycle"
    /\ UNCHANGED <<batchVars, count, charged, epoch, saved, runs, faults>>

DistillCycle ==
    /\ pc = "cycle"
    /\ distill' = Cycle(distill)
    /\ pc' = "save"
    /\ UNCHANGED <<batchVars, count, charged, epoch, saved, runs, faults>>

SaveCheckpoint ==
    /\ pc = "save"
    /\ saved' = [file |-> "whole", state |-> distill]
    /\ Exit
    /\ UNCHANGED <<runs, faults>>

Schedule ==
    \/ StartBatch
    \/ \E t \in Task : StartRollout(t) \/ Completes(t) \/ RetryOrFail(t) \/ LateEnd(t)
    \/ AllDone
    \/ WindowCloses

Main == Schedule \/ Collect \/ RunCycle \/ LogEpoch \/ Finish
Distill == AddBatch \/ DistillCycle \/ SaveCheckpoint

Next == StartTraining \/ Main \/ Stops \/ StartDistill \/ Distill

Spec == Init /\ [][Next]_vars /\ WF_vars(Main) /\ WF_vars(Distill)

-----------------------------------------------------------------------------
(* Properties *)

Scheduler == [buffer : Nat, total : Nat, cycles : Nat, cycled : Nat]

\* The type invariant.
TypeOK ==
    /\ pc \in {"idle"} \union Training \union Distilling
    /\ st \in [Task -> {"none", "ready", "running"} \union Final]
    /\ tries \in [Task -> 0..MaxRetries]
    /\ useSota \subseteq Task
    /\ late \subseteq Task
    /\ count \in [completed : Nat, reported : Nat, lost : Nat]
    /\ charged \in Nat
    /\ epoch \in Nat
    /\ distill \in Scheduler
    /\ saved \in [file : {"none", "whole", "broken"}, state : Scheduler]
    /\ runs \in 0..MaxRuns
    /\ faults \in 0..MaxFaults

\* A rollout decides by the remaining budget when it starts and is charged when
\* it ends (should_call_sota, record_call): the calls made below the reserve
\* are never more than the rollouts of one batch.
BudgetFloor == charged < Reserve + Cardinality(Task)

\* total_completed of the scheduler counts every completed result it returned
\* and at most the rollouts it reported as cancelled besides: no retry, timeout
\* or late end is counted twice (schedule).
CountsAgree ==
    pc # "batch" => count.completed \in count.reported..(count.reported + count.lost)

Conserved(d) == d.total = d.buffer + d.cycled

\* Every sample ever added is in the buffer or in exactly one recorded cycle,
\* in the process and in the checkpoint, through crashes and resumed runs
\* (run_cycle, save_checkpoint, load_checkpoint).
SamplesConserved ==
    /\ Conserved(distill)
    /\ saved.file = "whole" => Conserved(saved.state)

\* Training ends, although rollouts raise and are tried again: retries are
\* bounded (run_single) and the window cuts off what is left (schedule).
TrainingEnds == pc \in Training ~> pc = "idle"

=============================================================================
