-------------------------------- MODULE MetaLoop --------------------------------
(***************************************************************************)
(* zilli/loops: a LoopRunner driven by MetaLoopRunner.run or by             *)
(* run_forever, with its CycleMemory, the WeaknessMiner and the             *)
(* HarnessOrchestrator.  Cycles are sequential; what is unknown is what a   *)
(* cycle or an evaluation task yields, and when the trigger stops.          *)
(*                                                                          *)
(* Rates are counted in units of 1/Scale.  The windows, the cap and the     *)
(* cluster size are parameters: the code fixes 20, 10, 10 and defaults to 2.*)
(***************************************************************************)
EXTENDS Integers, Sequences, FiniteSets, Bags

CONSTANTS
    Causes,         \* causal_status of a failed cycle
    HeldIn,         \* held-in evaluation tasks
    HeldOut,        \* held-out evaluation tasks
    Scale,          \* a rate of 1.0
    Threshold,      \* improvement_threshold
    MinCluster,     \* WeaknessMiner._min_size
    InitialRetries, \* values of LoopRunner(max_retries)
    RetryCap,       \* the cap of MetaLoopRunner._tune
    RateWindow,     \* success_rate(n=20) of the convergence test
    TuneWindow,     \* success_rate(n=10) of _tune
    MaxEntries,     \* CycleMemory(max_entries)
    MaxMeta,        \* max_meta_iterations
    MaxSuccesses    \* bound: successful runs of run_forever

ASSUME ScaleAssumption ==
    /\ Scale \in Nat \ {0}
    /\ Threshold \in Nat
ASSUME RetryAssumption ==
    /\ InitialRetries \subseteq Nat
    /\ RetryCap \in Nat \ {0}
ASSUME WindowAssumption ==
    /\ {RateWindow, TuneWindow, MaxEntries, MinCluster} \subseteq Nat \ {0}
    /\ MaxMeta \in Nat \ {0} /\ MaxSuccesses \in Nat
ASSUME TasksFinite == IsFiniteSet(HeldIn) /\ IsFiniteSet(HeldOut)

VARIABLES
    driver,      \* which loop calls LoopRunner.run, and the mode of the meta loop
    pc,          \* where the driver is
    max_retries, \* LoopRunner._max_retries
    cycle_count, \* LoopRunner._cycle_count
    attempt,     \* of the current run
    memory,      \* CycleMemory._entries: whether each cycle passed
    failed,      \* the failed cycles of every LoopResult so far
    result,      \* what the last run returned
    successes,   \* successful runs of run_forever, counted for the bound only
    results,     \* MetaLoopRunner._history
    best,        \* best_result
    traces,      \* MetaLoopRunner._traces
    records,     \* WeaknessMiner._all_records
    history,     \* HarnessOrchestrator._history
    streak       \* consecutive_failures of run_forever

loop == <<max_retries, cycle_count, attempt, memory, failed, result>>
meta == <<results, best, traces>>
forever == <<streak, successes>>
harness == <<records, history>>
vars == <<driver, pc, loop, meta, forever, harness>>

Failure == [id : Nat \ {0}, cause : Causes]
Result == [success : BOOLEAN, retries : Nat]
NoResult == [success |-> FALSE, retries |-> -1]
Candidate == [held_in : 0..Scale, held_out : 0..Scale, passing : SUBSET HeldOut]

TypeOK ==
    /\ driver \in {"param_tune", "harness_evolve", "run_forever"}
    /\ pc \in {"idle", "cycle", "ran", "evolve", "tune", "wait", "done"}
    /\ max_retries \in Nat /\ cycle_count \in Nat /\ attempt \in Nat
    /\ memory \in Seq(BOOLEAN) /\ Len(memory) <= MaxEntries
    /\ failed \subseteq Failure /\ traces \subseteq failed
    /\ DOMAIN records \subseteq failed /\ \A f \in DOMAIN records : records[f] \in Nat \ {0}
    /\ results \in Seq(Result) /\ {result, best} \subseteq Result \cup {NoResult}
    /\ history \in Seq(Candidate)
    /\ streak \in Nat /\ successes \in Nat

\* A new runner, whose memory may have been loaded from the file of earlier ones.
Init ==
    /\ driver \in {"param_tune", "harness_evolve", "run_forever"}
    /\ pc = "idle"
    /\ max_retries \in InitialRetries
    /\ cycle_count = 0 /\ attempt = 0
    /\ memory \in UNION {[1..n -> BOOLEAN] : n \in 0..MaxEntries}
    /\ failed = {} /\ traces = {} /\ records = EmptyBag
    /\ result = NoResult /\ results = <<>> /\ best = NoResult /\ history = <<>>
    /\ streak = 0 /\ successes = 0

-----------------------------------------------------------------------------
Lesser(a, b) == IF a < b THEN a ELSE b

FirstOf(s, n) == SubSeq(s, 1, Lesser(n, Len(s)))
LastOf(s, n) == SubSeq(s, Len(s) - Lesser(n, Len(s)) + 1, Len(s))

\* CycleMemory.add, a deque that drops its oldest entry
Remember(passed) == LastOf(Append(memory, passed), MaxEntries)

\* the cycles among the last n that failed, and how many cycles there were
FailuresOf(n) == Cardinality({i \in DOMAIN LastOf(memory, n) : ~LastOf(memory, n)[i]})
CyclesOf(n) == Len(LastOf(memory, n))

\* run is called: the first cycle of at most max_retries + 1.
StartRun ==
    /\ pc = "idle"
    /\ pc' = "cycle"
    /\ cycle_count' = cycle_count + 1
    /\ attempt' = 0
    /\ UNCHANGED <<driver, max_retries, memory, failed, result, meta, forever, harness>>

\* Process and verifier pass: run returns a success after attempt retries.
CyclePasses ==
    /\ pc = "cycle"
    /\ driver = "run_forever" => successes < MaxSuccesses
    /\ pc' = "ran"
    /\ memory' = Remember(TRUE)
    /\ result' = [success |-> TRUE, retries |-> attempt]
    /\ UNCHANGED <<driver, max_retries, cycle_count, attempt, failed, meta, forever, harness>>

Fails(cause) ==
    /\ pc = "cycle"
    /\ memory' = Remember(FALSE)
    /\ failed' = failed \cup {[id |-> cycle_count, cause |-> cause]}
    /\ UNCHANGED <<driver, max_retries, meta, forever, harness>>

RetryCycle_NoLimit(cause) ==
    /\ Fails(cause)
    /\ attempt' = attempt
    /\ cycle_count' = cycle_count
    /\ UNCHANGED <<pc, result>>

\* The verifier rejects, or process, verifier or correction raises, and a retry
\* is left.
RetryCycle(cause) ==
    /\ Fails(cause)
    /\ attempt < max_retries
    /\ attempt' = attempt + 1
    /\ cycle_count' = cycle_count + 1
    /\ UNCHANGED <<pc, result>>

\* The same on the last attempt: run escalates, a failing handler is only
\* logged, and returns the failure.
Escalate(cause) ==
    /\ Fails(cause)
    /\ attempt = max_retries
    /\ pc' = "ran"
    /\ result' = [success |-> FALSE, retries |-> max_retries]
    /\ UNCHANGED <<cycle_count, attempt>>

\* The failed cycles of the run that just returned.
OfThisRun(failures) == {f \in failures : f.id >= cycle_count - attempt}

-----------------------------------------------------------------------------
(***************************************************************************)
(* MetaLoopRunner.run                                                       *)
(***************************************************************************)
Better(r, b) ==
    \/ b = NoResult
    \/ r.success /\ ~b.success
    \/ r.success /\ b.success /\ r.retries < b.retries

RecordRun_OnlyFailures ==
    /\ driver # "run_forever" /\ pc = "ran"
    /\ results' = Append(results, result)
    /\ best' = IF Better(result, best) THEN result ELSE best
    /\ traces' = IF result.success THEN traces ELSE traces \cup OfThisRun(failed)
    /\ pc' = IF driver = "harness_evolve" THEN "evolve" ELSE "tune"
    /\ UNCHANGED <<driver, loop, forever, harness>>

\* The result is kept, compared with the best so far, and its failed cycles
\* become traces, also when the run succeeded in the end.
RecordRun ==
    /\ driver # "run_forever" /\ pc = "ran"
    /\ results' = Append(results, result)
    /\ best' = IF Better(result, best) THEN result ELSE best
    /\ traces' = traces \cup OfThisRun(failed)
    /\ pc' = IF driver = "harness_evolve" THEN "evolve" ELSE "tune"
    /\ UNCHANGED <<driver, loop, forever, harness>>

Copies(bag, cause) ==
    BagCardinality([f \in {g \in DOMAIN bag : g.cause = cause} |-> bag[f]])

\* WeaknessMiner.cluster_failures: the causes with enough records
Clusters(bag) == {c \in Causes : Copies(bag, c) >= MinCluster}

\* An evaluation that raises is logged and left out of the rate.
Outcomes == {"pass", "fail", "raise"}
Passing(outcome) == {t \in DOMAIN outcome : outcome[t] = "pass"}
Rate(outcome) ==
    LET counted == {t \in DOMAIN outcome : outcome[t] # "raise"}
    IN  IF counted = {} THEN 0
        ELSE (Cardinality(Passing(outcome)) * Scale) \div Cardinality(counted)

\* The rates a candidate is compared with: none held in, all held out at first.
PreviousHeldIn == IF history = <<>> THEN 0 ELSE history[Len(history)].held_in
PreviousHeldOut == IF history = <<>> THEN Scale ELSE history[Len(history)].held_out

Accepts_HeldInOnly(held_in, held_out) == held_in - PreviousHeldIn >= Threshold

Accepts(held_in, held_out) ==
    /\ held_in - PreviousHeldIn >= Threshold
    /\ held_out >= PreviousHeldOut

\* The traces are mined, with everything mined before, and no cluster is large
\* enough: run_cycle returns None.
NothingToEvolve ==
    /\ pc = "evolve"
    /\ records' = records (+) SetToBag(traces)
    /\ Clusters(records') = {}
    /\ pc' = "tune"
    /\ UNCHANGED <<driver, loop, meta, forever, history>>

\* Edits are proposed for the largest clusters and evaluated; an accepted
\* candidate becomes the next version and empties the traces.
Evolve(held_in, held_out, passing) ==
    /\ pc = "evolve"
    /\ records' = records (+) SetToBag(traces)
    /\ Clusters(records') # {}
    /\ \/ /\ Accepts(held_in, held_out)
          /\ history' = Append(history, [held_in |-> held_in, held_out |-> held_out,
                                         passing |-> passing])
          /\ traces' = {}
       \/ /\ ~Accepts(held_in, held_out)
          /\ UNCHANGED <<history, traces>>
    /\ pc' = "tune"
    /\ UNCHANGED <<driver, loop, results, best, forever>>

Validate(in, out) == Evolve(Rate(in), Rate(out), Passing(out))

Converged == result.success /\ 10 * FailuresOf(RateWindow) <= CyclesOf(RateWindow)

\* _tune compares 1.0 - success_rate with 0.2: at exactly one failure in five the
\* difference is less than 0.2 in floating point.
Tuned ==
    IF 2 * FailuresOf(TuneWindow) > CyclesOf(TuneWindow)
      THEN Lesser(max_retries + 1, RetryCap)
    ELSE IF 5 * FailuresOf(TuneWindow) <= CyclesOf(TuneWindow) /\ max_retries > 1
      THEN max_retries - 1
      ELSE max_retries

Converge ==
    /\ pc = "tune"
    /\ Converged
    /\ pc' = "done"
    /\ UNCHANGED <<driver, loop, meta, forever, harness>>

Tune ==
    /\ pc = "tune"
    /\ ~Converged
    /\ max_retries' = Tuned
    /\ pc' = IF Len(results) < MaxMeta THEN "idle" ELSE "done"
    /\ UNCHANGED <<driver, cycle_count, attempt, memory, failed, result, meta, forever, harness>>

-----------------------------------------------------------------------------
(***************************************************************************)
(* LoopRunner.run_forever                                                   *)
(***************************************************************************)
Streak == IF result.success THEN 0 ELSE streak + 1

\* After a failed run its failures are mined; too many in a row end the loop.
CountRun ==
    /\ driver = "run_forever" /\ pc = "ran"
    /\ streak' = Streak
    /\ successes' = IF result.success THEN successes + 1 ELSE successes
    /\ records' = IF result.success THEN records ELSE records (+) SetToBag(OfThisRun(failed))
    /\ pc' = IF streak' >= max_retries + 1 THEN "done" ELSE "wait"
    /\ UNCHANGED <<driver, loop, meta, history>>

\* Trigger.wait returns True, or False when it timed out.
TriggerFires ==
    /\ pc = "wait"
    /\ pc' \in {"idle", "done"}
    /\ UNCHANGED <<driver, loop, meta, forever, harness>>

Next ==
    \/ StartRun
    \/ CyclePasses
    \/ \E cause \in Causes : RetryCycle(cause) \/ Escalate(cause)
    \/ RecordRun
    \/ NothingToEvolve
    \/ \E in \in [HeldIn -> Outcomes], out \in [HeldOut -> Outcomes] : Validate(in, out)
    \/ Converge
    \/ Tune
    \/ CountRun
    \/ TriggerFires

Spec == Init /\ [][Next]_vars

\* Each await of the loops comes back: process, verifier and evaluation tasks
\* end, sleeps elapse and triggers have a period or a timeout.
FairSpec == Spec /\ WF_vars(Next)

-----------------------------------------------------------------------------
Ended == IF pc = "cycle" THEN cycle_count - 1 ELSE cycle_count
FailedIds == {f.id : f \in failed}

\* What the meta loop returns is a success if any run was one, and the one with
\* the fewest retries, although later runs may be worse.
BestOfRuns ==
    LET returned == {results[i] : i \in DOMAIN results}
        won == {r \in returned : r.success}
    IN  /\ best = NoResult <=> returned = {}
        /\ best \in returned \cup {NoResult}
        /\ won # {} => best \in won /\ \A r \in won : best.retries <= r.retries

\* Every failed cycle reaches the miner before the run after it starts, those of
\* runs that succeeded in the end included.
NoFailureLost ==
    driver = "harness_evolve" /\ pc \in {"idle", "tune", "done"} => failed \subseteq DOMAIN records

\* Along the accepted versions the held-in rate climbs by the threshold each
\* time and the held-out rate never falls: there can only be so many versions.
VersionsImprove ==
    \A i \in DOMAIN history :
        /\ history[i].held_out = Scale
        /\ history[i].held_in >= (IF i = 1 THEN 0 ELSE history[i - 1].held_in) + Threshold

\* Both loops end: the meta loop by convergence or its last iteration, run_forever
\* once it fails often enough in a row.
LoopsEnd == <>(pc = "done")

=============================================================================
