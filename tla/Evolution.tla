------------------------------- MODULE Evolution -------------------------------
(***************************************************************************)
(* zilli/pipeline/evolution.py: EvolutionPipeline.run_cycle over the        *)
(* samples of zilli/evaluation/meta_evaluator.py and the optimizer of       *)
(* zilli/adaptive/moo.py; and zilli/evolution/skill_evolution.py, which     *)
(* asks zilli/envs/cost_controller.py before it reflects with the planner   *)
(* and records the call, as zilli/cli.py does, with a budget file saved now *)
(* and then.                                                                *)
(* run_cycle has no await: nothing else of the process runs while it does.  *)
(* ChampionChallenger_proofs extends this module too: the names the two      *)
(* would share begin with Evolution here.                                   *)
(***************************************************************************)
EXTENDS Integers, Sequences, FiniteSetsExt

CONSTANTS
    Window,      \* MetaEvaluator.window_size
    MinSamples,  \* samples a reliable evaluation needs, 10 in evaluate
    Limit,       \* square of reliability_threshold, in the unit of Errors
    Errors,      \* squared errors of samples
    Objectives,  \* number of objectives, all minimized
    Points,      \* objective vectors of candidates
    Size,        \* population_size
    Generations, \* max_generations of a cycle
    Reserve,     \* planner calls that use up nine tenths of the budget
    Debounce,    \* seconds between two saves of the budget
    MaxCalls,    \* bound: planner calls of an evaluation, off the budget at once
    MaxSamples,  \* bound: samples recorded
    MaxVersions, \* bound: versions deployed
    MaxFaults    \* bound: errors of models and files, crashes

ASSUME WindowAssumption == {Window, MinSamples, Size, Debounce} \subseteq Nat \ {0}
ASSUME NumberAssumption ==
    /\ Errors \subseteq Nat
    /\ {Limit, Objectives, Generations, Reserve, MaxCalls, MaxSamples, MaxVersions, MaxFaults} \subseteq Nat
ASSUME PointAssumption == Points # {} /\ Points \subseteq [1..Objectives -> Nat]

VARIABLES
    history,    \* MetaEvaluator._history
    recorded,   \* samples ever recorded
    population, \* of the optimizer while it runs, else empty
    generation,
    dropped,    \* history: candidates the last generation dropped
    deployed,   \* number of the deployed version, 0 for none
    rollback,   \* _rollback_versions
    charged,    \* planner calls off the budget
    budgetFile, \* the planner calls in the budget file, or NoFile
    sinceSave,  \* seconds since _last_save_time, up to Debounce
    sinceWrite, \* history: the same since the file was written
    unsaved,    \* history: sinceWrite at the last call the file misses
    torn,       \* history: the last save of the process failed
    faults

evaluatorVars == <<history, recorded>>
optimizerVars == <<population, generation, dropped>>
versionVars == <<deployed, rollback>>
costVars == <<charged, budgetFile, sinceSave, sinceWrite, unsaved, torn>>
evolutionVars == <<history, recorded, population, generation, dropped, deployed, rollback,
          charged, budgetFile, sinceSave, sinceWrite, unsaved, torn, faults>>

NoFile == -1
NoCall == -1

EvolutionInit ==
    /\ history = <<>> /\ recorded = 0
    /\ population = <<>> /\ generation = 0 /\ dropped = {}
    /\ deployed = 0 /\ rollback = <<>>
    /\ charged = 0 /\ budgetFile = NoFile
    /\ sinceSave = Debounce /\ sinceWrite = Debounce
    /\ unsaved = NoCall /\ torn = FALSE
    /\ faults = 0

Idle == population = <<>>

Fault ==
    /\ faults < MaxFaults
    /\ faults' = faults + 1

-----------------------------------------------------------------------------
(* MetaEvaluator *)

LastOf(s, n) == IF Len(s) <= n THEN s ELSE SubSeq(s, Len(s) - n + 1, Len(s))

Trimmed_Oldest(s) == IF Len(s) > 3 * Window THEN SubSeq(s, 1, 2 * Window) ELSE s
Trimmed(s) == IF Len(s) > 3 * Window THEN LastOf(s, 2 * Window) ELSE s

Record(error) ==
    /\ Idle
    /\ recorded < MaxSamples
    /\ recorded' = recorded + 1
    /\ history' = Trimmed(Append(history, [number |-> recorded + 1, error |-> error]))
    /\ UNCHANGED <<optimizerVars, versionVars, costVars, faults>>

Total(s) == LET sum[i \in 0..Len(s)] == IF i = 0 THEN 0 ELSE sum[i - 1] + s[i].error IN sum[Len(s)]

\* The mean squared error of the window is below the threshold.
Reliable ==
    LET window == LastOf(history, Window)
    IN  Len(window) >= MinSamples /\ Total(window) < Limit * Len(window)

\* The last window is worse than the one before it by more than a tenth.
Drift ==
    /\ Len(history) >= 2 * Window
    /\ LET old == SubSeq(history, Len(history) - 2 * Window + 1, Len(history) - Window)
       IN  10 * Total(LastOf(history, Window)) > 11 * Total(old)

-----------------------------------------------------------------------------
(* MultiObjectiveOptimizer *)

Dominates(p, q) == p # q /\ \A o \in DOMAIN p : p[o] <= q[o]

\* _fast_non_dominated_sort counts for each candidate the ones that dominate it;
\* those without any are the first front.
Dominators(pop, j) == {i \in DOMAIN pop : Dominates(pop[i], pop[j])}

FirstFront(pop) ==
    LET count == [j \in DOMAIN pop |-> Cardinality(Dominators(pop, j))]
    IN  [count |-> count, front |-> {j \in DOMAIN pop : count[j] = 0}]

\* Each candidate of a front is counted off from those it dominates; the ones
\* whose count comes down to zero are the next front.
NextFront_FirstDominator(pop, s) ==
    LET count == [j \in DOMAIN pop |-> IF Dominators(pop, j) \cap s.front = {} THEN s.count[j] ELSE 0]
    IN  [count |-> count, front |-> {j \in DOMAIN pop : s.count[j] > 0 /\ count[j] <= 0}]

NextFront(pop, s) ==
    LET count == [j \in DOMAIN pop |-> s.count[j] - Cardinality(Dominators(pop, j) \cap s.front)]
    IN  [count |-> count, front |-> {j \in DOMAIN pop : s.count[j] > 0 /\ count[j] <= 0}]

Fronts(pop) ==
    LET sort[k \in 0..Len(pop)] == IF k = 0 THEN FirstFront(pop) ELSE NextFront(pop, sort[k - 1])
    IN  [k \in 0..Len(pop) |-> sort[k].front]

\* The population is filled front by front until it is full or the fronts end; the
\* crowding distance chooses within the front that does not fit.
Survivors(pop) ==
    LET front == Fronts(pop)
        placed == UNION {front[k] : k \in DOMAIN front}
    IN  {s \in SUBSET placed :
            /\ Cardinality(s) = Size \/ (Cardinality(s) < Size /\ s = placed)
            /\ \A k, m \in DOMAIN front : m < k /\ s \cap front[k] # {} => front[m] \subseteq s}

Vectors == [1..Size -> Points]

\* Crossover and mutation make any offspring.
NextGeneration ==
    /\ ~Idle
    /\ generation < Generations
    /\ \E offspring \in Vectors :
         LET combined == population \o offspring
         IN  \E kept \in Survivors(combined) :
               \E order \in [1..Cardinality(kept) -> kept] :
                 /\ \A i, j \in DOMAIN order : i < j => order[i] < order[j]
                 /\ population' = [i \in DOMAIN order |-> combined[order[i]]]
                 /\ dropped' = {combined[i] : i \in DOMAIN combined \ kept}
    /\ generation' = generation + 1
    /\ UNCHANGED <<evaluatorVars, versionVars, costVars, faults>>

-----------------------------------------------------------------------------
(* EvolutionPipeline.run_cycle *)

Deploy ==
    /\ rollback' = IF deployed = 0 THEN rollback ELSE Append(rollback, deployed)
    /\ deployed' = deployed + 1

RollbackVersion ==
    IF rollback = <<>> THEN UNCHANGED versionVars
    ELSE /\ deployed' = rollback[Len(rollback)]
         /\ rollback' = SubSeq(rollback, 1, Len(rollback) - 1)

\* The evaluation after the evolution reads the samples the cycle began with.
Evaluate == IF Reliable THEN Deploy ELSE RollbackVersion

\* With a registry a model suggests an improvement; its error ends the cycle.
ModelCycle ==
    /\ Idle
    /\ deployed < MaxVersions
    /\ Drift \/ ~Reliable
    /\ (Evaluate /\ UNCHANGED faults) \/ (Fault /\ UNCHANGED versionVars)
    /\ UNCHANGED <<evaluatorVars, optimizerVars, costVars>>

\* Without one the optimizer runs, filled up with random candidates.
OptimizerCycle ==
    /\ Idle
    /\ deployed < MaxVersions
    /\ Drift \/ ~Reliable
    /\ population' \in Vectors
    /\ UNCHANGED <<evaluatorVars, generation, dropped, versionVars, costVars, faults>>

CycleEnds ==
    /\ ~Idle
    /\ generation = Generations
    /\ population' = <<>> /\ generation' = 0 /\ dropped' = {}
    /\ Evaluate
    /\ UNCHANGED <<evaluatorVars, costVars, faults>>

-----------------------------------------------------------------------------
(* SkillEvolutionEngine and CostController *)

Second ==
    /\ sinceSave' = Min({sinceSave + 1, Debounce})
    /\ sinceWrite' = Min({sinceWrite + 1, Debounce})
    /\ Idle
    /\ UNCHANGED <<evaluatorVars, optimizerVars, versionVars, charged, budgetFile, unsaved, torn, faults>>

\* _save; a write that fails may leave a file that cannot be read.
Save(calls) ==
    \/ /\ budgetFile' = calls
       /\ sinceWrite' = 0
       /\ unsaved' = NoCall
       /\ torn' = FALSE
       /\ UNCHANGED faults
    \/ /\ budgetFile' \in {budgetFile, NoFile}
       /\ torn' = TRUE
       /\ Fault
       /\ UNCHANGED <<sinceWrite, unsaved>>

\* record_planner_call with its debounced save.
Recorded_Always ==
    /\ charged' = charged + 1
    /\ sinceSave' = 0
    /\ IF sinceSave < Debounce
         THEN unsaved' = sinceWrite /\ UNCHANGED <<budgetFile, sinceWrite, torn, faults>>
         ELSE Save(charged + 1)

Recorded ==
    /\ charged' = charged + 1
    /\ IF sinceSave < Debounce
         THEN unsaved' = sinceWrite /\ UNCHANGED <<budgetFile, sinceSave, sinceWrite, torn, faults>>
         ELSE sinceSave' = 0 /\ Save(charged + 1)

\* record_executor_call charges nothing and saves as well.
ExecutorRecorded ==
    /\ sinceSave >= Debounce
    /\ sinceSave' = 0
    /\ Save(charged)
    /\ UNCHANGED charged

\* should_use_planner and the record of the call it decides for; a planner is
\* asked as long as fewer than `limit` calls are off the budget.
Charge(limit) ==
    /\ Idle
    /\ (charged < limit /\ Recorded) \/ ExecutorRecorded
    /\ UNCHANGED <<evaluatorVars, optimizerVars, versionVars>>

\* evolve, each strategy of evolve_multi_strategy and each epoch of zilli train:
\* below a tenth of the budget the planner is not asked.
Evolve == Charge(Reserve)
EvolveStrategy == Charge(Reserve)
TrainEpoch == Charge(Reserve)

\* A step of zilli evaluate: tasks that fail enough go on asking it.
EvaluationStep == Charge(MaxCalls)

ResetMonthly ==
    /\ Idle
    /\ charged' = 0
    /\ Save(0)
    /\ UNCHANGED <<evaluatorVars, optimizerVars, versionVars, sinceSave>>

\* A new process has the budget of the file, or the whole one if it cannot be
\* read, and neither samples nor versions.
Kept == IF budgetFile = NoFile THEN 0 ELSE budgetFile

Restart ==
    /\ charged' = Kept'
    /\ sinceSave' = Debounce /\ sinceWrite' = Debounce
    /\ unsaved' = NoCall /\ torn' = FALSE
    /\ history' = <<>> /\ recorded' = 0
    /\ population' = <<>> /\ generation' = 0 /\ dropped' = {}
    /\ deployed' = 0 /\ rollback' = <<>>

\* A command ends, without a last save, and the next one starts.
NextCommand ==
    /\ Idle
    /\ UNCHANGED <<budgetFile, faults>>
    /\ Restart

\* A crash while a due save writes the file leaves it empty.
CrashAndRestart ==
    /\ Fault
    /\ UNCHANGED budgetFile \/ (sinceSave >= Debounce /\ budgetFile' = NoFile)
    /\ Restart

EvolutionNext ==
    \/ \E error \in Errors : Record(error)
    \/ ModelCycle
    \/ OptimizerCycle
    \/ NextGeneration
    \/ CycleEnds
    \/ Second
    \/ Evolve
    \/ EvolveStrategy
    \/ TrainEpoch
    \/ EvaluationStep
    \/ ResetMonthly
    \/ NextCommand
    \/ CrashAndRestart

EvolutionSpec == EvolutionInit /\ [][EvolutionNext]_evolutionVars

-----------------------------------------------------------------------------
(* Properties *)

EvolutionTypeOK ==
    /\ history \in Seq([number : Nat, error : Nat]) /\ recorded \in Nat
    /\ population \in {<<>>} \union Vectors /\ generation \in Nat /\ dropped \subseteq Points
    /\ deployed \in Nat /\ rollback \in Seq(Nat)
    /\ charged \in Nat /\ budgetFile \in Nat \union {NoFile}
    /\ sinceSave \in 0..Debounce /\ sinceWrite \in 0..Debounce
    /\ unsaved \in {NoCall} \union 0..Debounce /\ torn \in BOOLEAN
    /\ faults \in Nat

\* What a generation dropped is compared with the population it left, and what
\* the file misses with the save before it.
NothingDroppedYet == Idle => dropped = {}

SavesAreDebounced ==
    ~torn => /\ sinceWrite <= sinceSave
             /\ unsaved < Debounce
             /\ unsaved = NoCall => charged = Kept

\* The history is an unbroken run of samples that ends with the last one and
\* holds two windows as soon as there are as many.
HistoryIsRecent ==
    /\ \A i \in DOMAIN history : history[i].number = recorded - Len(history) + i
    /\ Len(history) >= 2 * Window \/ Len(history) = recorded

\* The versions to roll back to are older than the deployed one, in their order.
VersionsDescend ==
    /\ \A i, j \in DOMAIN rollback : i < j => rollback[i] < rollback[j]
    /\ \A i \in DOMAIN rollback : 0 < rollback[i] /\ rollback[i] < deployed

\* However samples, deployments and rollbacks follow each other: trimming never
\* changes what a cycle evaluates, and the version a cycle rolls back to is the
\* one that was deployed before (record, _deploy, _rollback).
PipelineKeepsOrder == HistoryIsRecent /\ VersionsDescend

\* Counting down the dominators loses no candidate and puts none too early: every
\* generation is complete, and it keeps no candidate that one it dropped dominates
\* (_fast_non_dominated_sort, optimize).
FrontsSurvive ==
    /\ ~Idle => Len(population) = Size
    /\ \A i \in DOMAIN population : \A p \in dropped : ~Dominates(p, population[i])

\* Calls are given back to the budget by the monthly reset, by a crash inside a
\* save, which leaves an empty file, and by a restart after a save that failed;
\* any other exit or crash gives back only calls made within the debounce of the
\* last write (record_planner_call, _debounced_save, _save).
LostCallsAreRecent ==
    [][charged' < charged => ResetMonthly \/ budgetFile' # budgetFile \/ torn
                             \/ unsaved \in 0..(Debounce - 1)]_evolutionVars

=============================================================================
