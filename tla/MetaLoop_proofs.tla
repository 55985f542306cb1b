---------------------------- MODULE MetaLoop_proofs ----------------------------
(***************************************************************************)
(* MetaLoop for every number of tasks, every scale, threshold, window and   *)
(* retry limit.  Everything but the shape of the state follows from few     *)
(* facts: a rate never exceeds Scale, and history only grows by candidates  *)
(* that Accepts lets through.                                               *)
(***************************************************************************)
EXTENDS MetaLoop, SWEAgent, SequenceTheorems, FiniteSetTheorems, WellFoundedInduction, TLAPS

\* A quotient of two cardinalities of which the first is the smaller one.
LEMMA Quotient ==
  ASSUME NEW p \in Nat, NEW c \in Nat \ {0}, p <= c
  PROVE  (p * Scale) \div c \in 0..Scale
<1>1. p * Scale <= c * Scale /\ p * Scale \in Nat
  BY ScaleAssumption
<1>2. (p * Scale) \div c <= Scale /\ (p * Scale) \div c >= 0
  BY <1>1, ScaleAssumption
<1> QED
  BY <1>1, <1>2, ScaleAssumption

\* The rate of an evaluation lies between 0 and 1.0, whatever raises.
LEMMA RateBounded ==
  ASSUME NEW T, IsFiniteSet(T), NEW outcome \in [T -> Outcomes]
  PROVE  Rate(outcome) \in 0..Scale
<1> DEFINE counted == {t \in DOMAIN outcome : outcome[t] # "raise"}
<1>1. counted \subseteq T /\ Passing(outcome) \subseteq counted
  BY DEF Passing
<1>2. IsFiniteSet(counted) /\ Cardinality(Passing(outcome)) <= Cardinality(counted)
  BY <1>1, FS_Subset
<1>3. Cardinality(Passing(outcome)) \in Nat /\ Cardinality(counted) \in Nat
  BY <1>1, <1>2, FS_Subset, FS_CardinalityType
<1>4. counted # {} => Cardinality(counted) # 0
  BY <1>2, FS_EmptySet
<1>5. CASE counted = {}
  BY <1>5, ScaleAssumption DEF Rate
<1>6. CASE counted # {}
  BY <1>2, <1>3, <1>4, <1>6, Quotient DEF Rate
<1> QED
  BY <1>5, <1>6

\* CycleMemory.add keeps a sequence of at most MaxEntries outcomes.
LEMMA RememberTyped ==
  ASSUME memory \in Seq(BOOLEAN), NEW passed \in BOOLEAN
  PROVE  /\ Remember(passed) \in Seq(BOOLEAN)
         /\ Len(Remember(passed)) <= MaxEntries
<1> DEFINE s == Append(memory, passed)
           m == Len(s) - Lesser(MaxEntries, Len(s)) + 1
<1>1. s \in Seq(BOOLEAN) /\ Len(s) \in Nat \ {0}
  OBVIOUS
<1> HIDE DEF s
<1>2. m \in 1..Len(s) /\ Len(s) - m + 1 <= MaxEntries
  BY <1>1, WindowAssumption DEF Lesser
<1>3. Remember(passed) = SubSeq(s, m, Len(s))
  BY DEF Remember, LastOf, s
<1>4. \A i \in m..Len(s) : s[i] \in BOOLEAN
  BY <1>1, <1>2, ElementOfSeq
<1> HIDE DEF m
<1>5. /\ SubSeq(s, m, Len(s)) \in Seq(BOOLEAN)
      /\ Len(SubSeq(s, m, Len(s))) = Len(s) - m + 1
  BY <1>1, <1>2, <1>4, SubSeqProperties
<1> QED
  BY <1>2, <1>3, <1>5

\* Mining adds each trace to the records once more.
LEMMA Mined ==
  ASSUME NEW S, NEW bag, \A f \in DOMAIN bag : bag[f] \in Nat \ {0}
  PROVE  /\ DOMAIN (bag (+) SetToBag(S)) = DOMAIN bag \cup S
         /\ \A f \in DOMAIN (bag (+) SetToBag(S)) : (bag (+) SetToBag(S))[f] \in Nat \ {0}
BY DEF SetToBag, (+)

\* The strengthening: a cycle under way has been counted, and a run that ended
\* has a result.
RunInv ==
    /\ pc = "cycle" => cycle_count > 0
    /\ pc = "ran" => result \in Result

TypeInv == TypeOK /\ RunInv

LEMMA InitTyped == Init => TypeInv
<1> SUFFICES ASSUME Init
             PROVE  TypeInv
  OBVIOUS
<1>1. memory \in Seq(BOOLEAN) /\ Len(memory) <= MaxEntries
  <2>1. PICK n \in 0..MaxEntries : memory \in [1..n -> BOOLEAN]
    BY DEF Init
  <2>2. n \in Nat /\ memory \in Seq(BOOLEAN)
    BY <2>1, SeqDef, WindowAssumption
  <2> QED
    BY <2>1, <2>2, LenProperties, WindowAssumption
<1>2. DOMAIN records = {}
  BY DEF Init, EmptyBag, SetToBag
<1> QED
  BY <1>1, <1>2, RetryAssumption DEF Init, TypeInv, TypeOK, RunInv

LEMMA StepTyped == TypeInv /\ [Next]_vars => TypeInv'
<1> SUFFICES ASSUME TypeInv, [Next]_vars
             PROVE  TypeInv'
  OBVIOUS
<1> USE DEF TypeInv, TypeOK, RunInv, loop, meta, forever, harness
<1>1. CASE StartRun
  BY <1>1 DEF StartRun
<1>2. CASE CyclePasses
  <2>1. memory' \in Seq(BOOLEAN) /\ Len(memory') <= MaxEntries
    BY <1>2, RememberTyped DEF CyclePasses
  <2>2. result' \in Result
    BY <1>2 DEF CyclePasses, Result
  <2> QED
    BY <1>2, <2>1, <2>2 DEF CyclePasses
<1>3. ASSUME NEW cause \in Causes, Fails(cause)
      PROVE  /\ memory' \in Seq(BOOLEAN) /\ Len(memory') <= MaxEntries
             /\ failed' \subseteq Failure /\ failed \subseteq failed'
             /\ UNCHANGED <<driver, max_retries, meta, forever, harness>>
  <2>1. memory' \in Seq(BOOLEAN) /\ Len(memory') <= MaxEntries
    BY <1>3, RememberTyped DEF Fails
  <2>2. [id |-> cycle_count, cause |-> cause] \in Failure
    BY <1>3 DEF Fails, Failure
  <2> QED
    BY <1>3, <2>1, <2>2 DEF Fails
<1>4. ASSUME NEW cause \in Causes, RetryCycle(cause)
      PROVE  TypeInv'
  <2>1. Fails(cause)
    BY <1>4 DEF RetryCycle
  <2> QED
    BY <1>3, <1>4, <2>1 DEF RetryCycle
<1>5. ASSUME NEW cause \in Causes, Escalate(cause)
      PROVE  TypeInv'
  <2>1. Fails(cause)
    BY <1>5 DEF Escalate
  <2>2. result' \in Result
    BY <1>5 DEF Escalate, Result
  <2> QED
    BY <1>3, <1>5, <2>1, <2>2 DEF Escalate
<1>6. CASE RecordRun
  <2>1. results' \in Seq(Result) /\ {result, best}' \subseteq Result \cup {NoResult}
    BY <1>6 DEF RecordRun
  <2>2. traces' \subseteq failed
    BY <1>6 DEF RecordRun, OfThisRun
  <2> QED
    BY <1>6, <2>1, <2>2 DEF RecordRun
<1>7. /\ DOMAIN (records (+) SetToBag(traces)) \subseteq failed
      /\ \A f \in DOMAIN (records (+) SetToBag(traces)) :
            (records (+) SetToBag(traces))[f] \in Nat \ {0}
  <2> HIDE DEF TypeInv, RunInv
  <2>1. \A f \in DOMAIN records : records[f] \in Nat \ {0}
    BY DEF TypeInv
  <2>2. DOMAIN records \subseteq failed /\ traces \subseteq failed
    BY DEF TypeInv
  <2> HIDE DEF TypeOK
  <2> QED
    BY <2>1, <2>2, Mined
<1>8. CASE NothingToEvolve
  BY <1>7, <1>8 DEF NothingToEvolve
<1>9. ASSUME NEW in \in [HeldIn -> Outcomes], NEW out \in [HeldOut -> Outcomes],
             Validate(in, out)
      PROVE  TypeInv'
  <2>1. Rate(in) \in 0..Scale /\ Rate(out) \in 0..Scale /\ Passing(out) \subseteq HeldOut
    BY RateBounded, TasksFinite DEF Passing
  <2>2. [held_in |-> Rate(in), held_out |-> Rate(out), passing |-> Passing(out)] \in Candidate
    BY <2>1 DEF Candidate
  <2>3. history' \in Seq(Candidate)
    <3> DEFINE c == [held_in |-> Rate(in), held_out |-> Rate(out), passing |-> Passing(out)]
    <3>1. history \in Seq(Candidate)
      OBVIOUS
    <3>2. history' = history \/ history' = Append(history, c)
      BY <1>9 DEF Validate, Evolve
    <3>3. c \in Candidate
      BY <2>2
    <3> HIDE DEF c, TypeInv, TypeOK
    <3> QED
      BY <3>1, <3>2, <3>3
  <2>4. traces' \subseteq traces
    BY <1>9 DEF Validate, Evolve
  <2> QED
    BY <1>7, <1>9, <2>3, <2>4 DEF Validate, Evolve
<1>10. CASE Converge
  BY <1>10 DEF Converge
<1>11. CASE Tune
  <2>1. max_retries' \in Nat
    BY <1>11, RetryAssumption DEF Tune, Tuned, Lesser
  <2> QED
    BY <1>11, <2>1 DEF Tune
<1>12. CASE CountRun
  <2>1. /\ DOMAIN (records (+) SetToBag(OfThisRun(failed))) = DOMAIN records \cup OfThisRun(failed)
        /\ \A f \in DOMAIN (records (+) SetToBag(OfThisRun(failed))) :
              (records (+) SetToBag(OfThisRun(failed)))[f] \in Nat \ {0}
    <3>1. \A f \in DOMAIN records : records[f] \in Nat \ {0}
      OBVIOUS
    <3> QED
      BY <3>1, Mined
  <2>2. DOMAIN records' \subseteq failed /\ \A f \in DOMAIN records' : records'[f] \in Nat \ {0}
    BY <1>12, <2>1 DEF CountRun, OfThisRun
  <2>3. streak' \in Nat /\ successes' \in Nat
    BY <1>12 DEF CountRun, Streak
  <2> QED
    BY <1>12, <2>2, <2>3 DEF CountRun
<1>13. CASE TriggerFires
  BY <1>13 DEF TriggerFires
<1>14. CASE UNCHANGED vars
  BY <1>14 DEF vars
<1> QED
  BY <1>1, <1>2, <1>4, <1>5, <1>6, <1>8, <1>9, <1>10, <1>11, <1>12, <1>13, <1>14 DEF Next

LEMMA AlwaysTyped == Spec => []TypeInv
BY InitTyped, StepTyped, PTL DEF Spec

\* Type correctness of the loops, whatever cycles, tasks and triggers do.
THEOREM TypeCorrect == Spec => []TypeOK
<1>1. TypeInv => TypeOK
  BY DEF TypeInv
<1> QED
  BY <1>1, AlwaysTyped, PTL

-----------------------------------------------------------------------------
\* VersionsImprove is about the orchestrator only: no step but Validate touches
\* its history.
THEOREM HarnessImproves == Spec => []VersionsImprove
<1>1. Init => VersionsImprove
  BY DEF Init, VersionsImprove
<1>2. TypeInv /\ VersionsImprove /\ [Next]_vars => VersionsImprove'
  <2> SUFFICES ASSUME TypeInv, VersionsImprove, [Next]_vars
               PROVE  VersionsImprove'
    OBVIOUS
  <2>1. CASE UNCHANGED history
    BY <2>1 DEF VersionsImprove
  <2>2. ASSUME NEW in \in [HeldIn -> Outcomes], NEW out \in [HeldOut -> Outcomes],
               Validate(in, out)
        PROVE  VersionsImprove'
    <3> DEFINE n == Len(history) + 1
               c == [held_in |-> Rate(in), held_out |-> Rate(out), passing |-> Passing(out)]
    <3>1. CASE UNCHANGED history
      BY <3>1, <2>1
    <3>2. CASE Accepts(Rate(in), Rate(out)) /\ history' = Append(history, c)
      <4>1. history \in Seq(Candidate) /\ Len(history) \in Nat
        BY DEF TypeInv, TypeOK
      <4>2. Rate(in) \in 0..Scale /\ Rate(out) \in 0..Scale
        BY RateBounded, TasksFinite
      <4>3. /\ DOMAIN history = 1..(n - 1) /\ DOMAIN history' = 1..n
            /\ history'[n] = c
            /\ \A i \in 1..(n - 1) : history'[i] = history[i]
        BY <3>2, <4>1
      <4>4. history = <<>> <=> n = 1
        BY <4>1
      <4>5. n > 1 => history[n - 1] \in Candidate /\ history[n - 1].held_out = Scale
        BY <4>1, <4>3, ElementOfSeq DEF VersionsImprove
      <4>6. /\ c.held_out = Scale
            /\ c.held_in >= (IF n = 1 THEN 0 ELSE history[n - 1].held_in) + Threshold
        BY <3>2, <4>1, <4>2, <4>4, <4>5, ScaleAssumption
           DEF Accepts, PreviousHeldIn, PreviousHeldOut, Candidate
      <4> HIDE DEF c
      <4>7. ASSUME NEW i \in 1..n
            PROVE  /\ history'[i].held_out = Scale
                   /\ history'[i].held_in
                        >= (IF i = 1 THEN 0 ELSE history'[i - 1].held_in) + Threshold
        <5>1. CASE i = n
          BY <4>1, <4>3, <4>6, <5>1
        <5>2. CASE i # n
          <6>1. i \in 1..(n - 1) /\ i \in DOMAIN history
            BY <4>1, <4>3, <5>2
          <6>2. i # 1 => history'[i - 1] = history[i - 1]
            BY <4>1, <4>3, <6>1
          <6> QED
            BY <4>3, <6>1, <6>2 DEF VersionsImprove
        <5> QED
          BY <5>1, <5>2
      <4> QED
        BY <4>3, <4>7 DEF VersionsImprove
    <3> QED
      BY <2>2, <3>1, <3>2 DEF Validate, Evolve
  <2>3. \/ UNCHANGED history
        \/ \E in \in [HeldIn -> Outcomes], out \in [HeldOut -> Outcomes] : Validate(in, out)
    BY DEF Next, StartRun, CyclePasses, Fails, RetryCycle, Escalate, RecordRun, NothingToEvolve,
           Converge, Tune, CountRun, TriggerFires, vars, harness
  <2> QED
    BY <2>1, <2>2, <2>3
<1> QED
  BY <1>1, <1>2, AlwaysTyped, PTL DEF Spec

-----------------------------------------------------------------------------
\* One more result: the best of the results so far is still the best, or the
\* new one is.
LEMMA BestExtends ==
  ASSUME TypeInv, BestOfRuns, RecordRun
  PROVE  BestOfRuns'
<1> DEFINE returned == {results[i] : i \in DOMAIN results}
           Won(S) == {r \in S : r.success}
<1>1. result \in Result /\ results \in Seq(Result)
  BY DEF TypeInv, TypeOK, RunInv, RecordRun
<1>2. best' = IF Better(result, best) THEN result ELSE best
  BY DEF RecordRun
<1>3. returned' = returned \cup {result}
  <2>1. results' = Append(results, result)
    BY DEF RecordRun
  <2>2. /\ DOMAIN results' = DOMAIN results \cup {Len(results) + 1}
        /\ \A i \in DOMAIN results : results'[i] = results[i]
        /\ results'[Len(results) + 1] = result
    BY <1>1, <2>1
  <2> QED
    BY <2>2
<1>4. returned \subseteq Result
  BY <1>1, ElementOfSeq, LenProperties
<1>5. \A r \in Result : r.retries \in Nat /\ r.success \in BOOLEAN /\ r # NoResult
  BY DEF Result, NoResult
<1>6. /\ best = NoResult <=> returned = {}
      /\ best \in returned \cup {NoResult}
      /\ Won(returned) # {} =>
            best \in Won(returned) /\ \A r \in Won(returned) : best.retries <= r.retries
  BY DEF BestOfRuns
<1> HIDE DEF returned
<1>7. best' \in returned \cup {result} /\ best' # NoResult
  BY <1>1, <1>2, <1>4, <1>5, <1>6 DEF Better
<1>8. ASSUME NEW r \in Won(returned \cup {result})
      PROVE  best' \in Won(returned \cup {result}) /\ best'.retries <= r.retries
  <2>1. CASE Better(result, best)
    <3>1. result.success
      BY <1>1, <1>4, <1>5, <1>6, <1>8, <2>1 DEF Better
    <3>2. \A w \in Won(returned) : result.retries <= w.retries
      BY <1>1, <1>4, <1>5, <1>6, <2>1 DEF Better
    <3> QED
      BY <1>1, <1>2, <1>5, <1>8, <2>1, <3>1, <3>2
  <2>2. CASE ~Better(result, best)
    <3>1. best \in returned
      BY <1>6, <2>2 DEF Better
    <3>2. CASE r = result
      BY <1>1, <1>2, <1>4, <1>5, <1>6, <1>8, <2>2, <3>1, <3>2 DEF Better
    <3>3. CASE r \in Won(returned)
      BY <1>2, <1>6, <2>2, <3>1, <3>3
    <3> QED
      BY <1>8, <3>2, <3>3
  <2> QED
    BY <2>1, <2>2
<1>9. /\ best' = NoResult <=> returned' = {}
      /\ best' \in returned' \cup {NoResult}
      /\ Won(returned') # {} =>
            best' \in Won(returned') /\ \A r \in Won(returned') : best'.retries <= r.retries
  BY <1>3, <1>7, <1>8
<1> QED
  BY <1>9 DEF BestOfRuns, returned

\* The meta loop returns a success whenever it had one, with the fewest retries.
THEOREM BestReturned == Spec => []BestOfRuns
<1>1. Init => BestOfRuns
  BY DEF Init, BestOfRuns
<1>2. TypeInv /\ BestOfRuns /\ [Next]_vars => BestOfRuns'
  <2> SUFFICES ASSUME TypeInv, BestOfRuns, [Next]_vars
               PROVE  BestOfRuns'
    OBVIOUS
  <2>1. CASE RecordRun
    BY <2>1, BestExtends
  <2>2. CASE UNCHANGED <<results, best>>
    BY <2>2 DEF BestOfRuns
  <2>3. RecordRun \/ UNCHANGED <<results, best>>
    BY DEF Next, StartRun, CyclePasses, Fails, RetryCycle, Escalate, NothingToEvolve, Validate,
           Evolve, Converge, Tune, CountRun, TriggerFires, vars, meta
  <2> QED
    BY <2>1, <2>2, <2>3
<1> QED
  BY <1>1, <1>2, AlwaysTyped, PTL DEF Spec

-----------------------------------------------------------------------------
(***************************************************************************)
(* Where a failed cycle is until it is mined: among the cycles of the run   *)
(* under way, then among the traces, which only an accepted candidate       *)
(* empties, and which are in the records by then.                           *)
(***************************************************************************)
FailuresKept ==
    driver = "harness_evolve" =>
        /\ pc \in {"idle", "tune", "done", "wait"} => failed \subseteq DOMAIN records
        /\ pc = "evolve" => failed \subseteq DOMAIN records \cup traces
        /\ pc \in {"cycle", "ran"} =>
              \A f \in failed : f \in DOMAIN records \/ f.id >= cycle_count - attempt

LEMMA FailuresStep == TypeInv /\ FailuresKept /\ [Next]_vars => FailuresKept'
<1> SUFFICES ASSUME TypeInv, FailuresKept, [Next]_vars, driver' = "harness_evolve"
             PROVE  FailuresKept'
  BY DEF FailuresKept
<1> USE DEF FailuresKept, loop, meta, forever, harness
<1>1. driver = "harness_evolve"
  BY DEF Next, StartRun, CyclePasses, Fails, RetryCycle, Escalate, RecordRun, NothingToEvolve,
         Validate, Evolve, Converge, Tune, CountRun, TriggerFires, vars
<1>2. DOMAIN (records (+) SetToBag(traces)) = DOMAIN records \cup traces
  BY Mined DEF TypeInv, TypeOK
<1>3. CASE StartRun
  BY <1>1, <1>3 DEF StartRun
<1>4. CASE CyclePasses
  BY <1>1, <1>4 DEF CyclePasses
<1>5. ASSUME NEW cause \in Causes, RetryCycle(cause) \/ Escalate(cause)
      PROVE  FailuresKept'
  <2>1. /\ failed' = failed \cup {[id |-> cycle_count, cause |-> cause]}
        /\ records' = records /\ pc = "cycle" /\ pc' \in {"cycle", "ran"}
        /\ cycle_count' - attempt' = cycle_count - attempt
    <3>1. cycle_count \in Nat /\ attempt \in Nat
      BY DEF TypeInv, TypeOK
    <3>2. CASE RetryCycle(cause)
      BY <3>1, <3>2 DEF RetryCycle, Fails
    <3>3. CASE Escalate(cause)
      BY <3>1, <3>3 DEF Escalate, Fails
    <3> QED
      BY <1>5, <3>2, <3>3
  <2>2. cycle_count >= cycle_count - attempt
    BY DEF TypeInv, TypeOK
  <2> QED
    BY <1>1, <2>1, <2>2
<1>6. CASE RecordRun
  BY <1>1, <1>6 DEF RecordRun, OfThisRun
<1>7. CASE NothingToEvolve
  BY <1>1, <1>2, <1>7 DEF NothingToEvolve
<1>8. ASSUME NEW in \in [HeldIn -> Outcomes], NEW out \in [HeldOut -> Outcomes],
             Validate(in, out)
      PROVE  FailuresKept'
  <2>1. /\ pc = "evolve" /\ pc' = "tune" /\ failed' = failed
        /\ records' = records (+) SetToBag(traces)
    BY <1>8 DEF Validate, Evolve
  <2> QED
    BY <1>1, <1>2, <2>1
<1>9. CASE Converge
  BY <1>1, <1>9 DEF Converge
<1>10. CASE Tune
  BY <1>1, <1>10 DEF Tune
<1>11. CASE CountRun
  BY <1>1, <1>11 DEF CountRun
<1>12. CASE TriggerFires
  BY <1>1, <1>12 DEF TriggerFires
<1>13. CASE UNCHANGED vars
  BY <1>13 DEF vars
<1> QED
  BY <1>3, <1>4, <1>5, <1>6, <1>7, <1>8, <1>9, <1>10, <1>11, <1>12, <1>13 DEF Next

\* No failed cycle escapes the miner, whatever is retried, accepted or rejected
\* in between.
THEOREM FailuresMined == Spec => []NoFailureLost
<1>1. Init => FailuresKept
  BY DEF Init, FailuresKept
<1>2. FailuresKept => NoFailureLost
  BY DEF FailuresKept, NoFailureLost
<1> QED
  BY <1>1, <1>2, FailuresStep, AlwaysTyped, PTL DEF Spec

-----------------------------------------------------------------------------
(***************************************************************************)
(* SWEAgent, whose attempts are cycles of a LoopRunner: what it leaves in    *)
(* the working copy, for every set of files and texts and any number of      *)
(* attempts.                                                                *)
(***************************************************************************)
\* A non-empty set of positions has a last one.
LEMMA LastPosition ==
  ASSUME NEW n \in Nat, NEW S, S \subseteq 1..n, S # {}
  PROVE  Max(S) \in S /\ \A i \in S : i <= Max(S)
<1> DEFINE T == {n - i : i \in S}
<1>1. PICK x \in T : \A y \in T : <<y, x>> \notin OpToRel(<, Nat)
  <2>1. \A i \in S : n - i \in Nat
    OBVIOUS
  <2>2. T \subseteq Nat /\ T # {}
    BY <2>1
  <2> HIDE DEF T
  <2> QED
    BY <2>2, NatLessThanWellFounded, WFMin, Zenon
<1>2. \A i \in S : i \in Nat /\ n - i \in Nat /\ n - i \in T
  OBVIOUS
<1>3. PICK m \in S : x = n - m
  OBVIOUS
<1> HIDE DEF T
<1>4. \A i \in S : ~ (n - i < n - m)
  BY <1>1, <1>2, <1>3, Zenon DEF OpToRel
<1>5. \A i \in S : m >= i
  BY <1>2, <1>4
<1> QED
  BY <1>5 DEF Max

\* The working copy, the patch and the test output keep their shapes
\* (CodeContext, SWEPatch, LoopResult).
LEMMA AgentTyped == AgentSpec => []AgentTypeOK
<1> USE DEF AgentTypeOK, Copy, Path
<1>1. AgentInit => AgentTypeOK
  <2> SUFFICES ASSUME AgentInit
               PROVE  AgentTypeOK
    OBVIOUS
  <2>1. Base \in Copy
    BY SWEAssumption DEF Base
  <2>2. patch \in Patch /\ diff \in Patch /\ written \in 0..Len(patch)
    BY DEF AgentInit, Patch
  <2>3. success \in BOOLEAN /\ torn \in BOOLEAN /\ tries \in Nat /\ faults \in Nat
    BY DEF AgentInit
  <2> QED
    BY <2>1, <2>2, <2>3, Zenon DEF AgentInit
<1>2. AgentTypeOK /\ [AgentNext]_agentVars => AgentTypeOK'
  <2> SUFFICES ASSUME AgentTypeOK, [AgentNext]_agentVars
               PROVE  AgentTypeOK'
    OBVIOUS
  <2>1. CASE Run
    BY <2>1 DEF Run, EnsureContainer
  <2>2. CASE Explore
    BY <2>2 DEF Explore, BeginAttempt, AttemptRaises, Patch
  <2>3. CASE Diagnose
    BY <2>3 DEF Diagnose, AttemptFails, AttemptRaises
  <2>4. CASE Propose
    <3> DEFINE f == Head(targets)
    <3>1. CASE patch' = patch
      BY <2>4, <3>1 DEF Propose, AttemptFails, AttemptRaises
    <3>2. ASSUME Readable(f), NEW new \in Text, patch' = AddFile(f, new)
          PROVE  AgentTypeOK'
      <4> DEFINE e == PatchFile(f, Universal[work[f]], new)
      <4>1. e \in [path : Path, old : Text, new : Text]
        BY <3>2, SWEAssumption DEF PatchFile, Readable
      <4>2. patch' = Append(patch, e)
        BY <3>2 DEF AddFile
      <4> HIDE DEF e
      <4>3. patch' \in Patch /\ Len(patch') = Len(patch) + 1
        BY <4>1, <4>2 DEF Patch
      <4>4. written \in 0..Len(patch')
        BY <4>3 DEF Patch
      <4> QED
        BY <2>4, <4>3, <4>4 DEF Propose, AttemptFails, AttemptRaises
    <3> QED
      BY <2>4, <3>1, <3>2 DEF Propose, Answers
  <2>5. CASE Write
    <3>1. written + 1 \in 1..Len(patch)
      BY <2>5 DEF Write, Patch
    <3>2. patch[written + 1].new \in Text
      <4> DEFINE P == [path : Path, old : Text, new : Text]
      <4>1. patch \in Seq(P)
        BY DEF Patch
      <4> HIDE DEF P
      <4>2. patch[written + 1] \in P
        BY <3>1, <4>1, ElementOfSeq
      <4> QED
        BY <4>2 DEF P
    <3>3. work' \in Copy
      BY <2>5, <3>2 DEF Write
    <3> QED
      BY <2>5, <3>1, <3>3 DEF Write
  <2>6. CASE WriteFails
    BY <2>6 DEF WriteFails, Fault, AttemptFails, AttemptRaises
  <2>7. CASE Applied
    BY <2>7 DEF Applied, Recorded
  <2>8. CASE TestsPass
    BY <2>8 DEF TestsPass
  <2>9. CASE TestsFail
    BY <2>9 DEF TestsFail, NarrowScope, AttemptFails, AttemptRaises
  <2>10. CASE Cleanup
    BY <2>10 DEF Cleanup, Fault
  <2>11. CASE Cancel
    BY <2>11 DEF Cancel, Fault
  <2>12. CASE UNCHANGED agentVars
    BY <2>12 DEF agentVars
  <2> QED
    BY <2>1, <2>2, <2>3, <2>4, <2>5, <2>6, <2>7, <2>8, <2>9, <2>10, <2>11, <2>12 DEF AgentNext
<1> QED
  BY <1>1, <1>2, PTL DEF AgentSpec

-----------------------------------------------------------------------------
\* Whatever a step does to the patch, it appends an entry with the text of the
\* copy, or starts a new patch (_fix_attempt, add_file).
LEMMA PatchSteps ==
  ASSUME AgentTypeOK, PatchOfAttempt, [AgentNext]_agentVars
  PROVE  PatchOfAttempt'
<1> USE DEF PatchOfAttempt
<1>1. CASE Run
  BY <1>1 DEF Run, Entries
<1>2. CASE Explore
  BY <1>2 DEF Explore, BeginAttempt, AttemptRaises
<1>3. CASE Diagnose
  BY <1>3 DEF Diagnose, AttemptFails, AttemptRaises, Entries
<1>4. CASE Propose
  <2> DEFINE f == Head(targets)
  <2>1. step = "propose" /\ targets # <<>> /\ written = 0 /\ work = before
    BY <1>4 DEF Propose
  <2>2. UNCHANGED <<work, before, written>> /\ step' \in {step, "attempt", "cleanup"}
    BY <1>4 DEF Propose, AttemptFails, AttemptRaises
  <2>3. ASSUME NEW new \in Text, Readable(f), patch' = AddFile(f, new)
        PROVE  \A i \in DOMAIN patch' :
                  /\ before'[patch'[i].path] \in Text
                  /\ patch'[i].old = Universal[before'[patch'[i].path]]
    <3> DEFINE e == PatchFile(f, Universal[work[f]], new)
    <3>1. e.path = f /\ e.old = Universal[before[f]] /\ before[f] \in Text
      BY <2>1, <2>3 DEF PatchFile, Readable
    <3>2. /\ patch' = Append(patch, e)
          /\ patch \in Seq([path : Path, old : Text, new : Text])
      BY <2>3 DEF AddFile, AgentTypeOK, Patch
    <3> HIDE DEF e
    <3>3. ASSUME NEW i \in DOMAIN patch'
          PROVE  before[patch'[i].path] \in Text /\ patch'[i].old = Universal[before[patch'[i].path]]
      <4>1. CASE i = Len(patch) + 1
        BY <3>1, <3>2, <4>1
      <4>2. CASE i # Len(patch) + 1
        <5>1. i \in DOMAIN patch /\ patch'[i] = patch[i]
          BY <3>2, <4>2
        <5> QED
          BY <5>1
      <4> QED
        BY <4>1, <4>2
    <3> QED
      BY <2>2, <3>3
  <2>4. \/ patch' = patch
        \/ Readable(f) /\ \E new \in Text : patch' = AddFile(f, new)
    BY <1>4 DEF Propose, Answers
  <2>5. \A i \in DOMAIN patch' :
           /\ before'[patch'[i].path] \in Text
           /\ patch'[i].old = Universal[before'[patch'[i].path]]
    BY <2>2, <2>3, <2>4
  <2> QED
    BY <2>1, <2>2, <2>5
<1>5. CASE Write
  <2> DEFINE e == patch[written + 1]
  <2>1. written + 1 \in DOMAIN patch /\ written' = written + 1 /\ written \in Nat
    BY <1>5 DEF Write, AgentTypeOK, Patch
  <2>2. ASSUME NEW g \in Path, work'[g] # before[g]
        PROVE  Entries(g) # {}
    <3>1. CASE g = e.path
      BY <2>1, <3>1 DEF Entries
    <3>2. CASE g # e.path
      BY <1>5, <2>2, <3>2 DEF Write, AgentTypeOK, Copy
    <3> QED
      BY <3>1, <3>2
  <2>3. UNCHANGED <<patch, before, step, targets>> /\ step = "propose" /\ targets = <<>>
    BY <1>5 DEF Write
  <2> QED
    BY <2>1, <2>2, <2>3 DEF Entries
<1>6. CASE WriteFails
  <2> DEFINE e == patch[written + 1]
  <2>1. written + 1 \in DOMAIN patch
    BY <1>6 DEF WriteFails, AgentTypeOK, Patch
  <2>2. ASSUME NEW g \in Path, work'[g] # before[g]
        PROVE  Entries(g) # {}
    <3>1. CASE g = e.path
      BY <2>1, <3>1 DEF Entries
    <3>2. CASE g # e.path
      BY <1>6, <2>2, <3>2 DEF WriteFails, AgentTypeOK, Copy
    <3> QED
      BY <3>1, <3>2
  <2>3. UNCHANGED <<patch, before>> /\ step' \in {"attempt", "cleanup"}
    BY <1>6 DEF WriteFails, AttemptFails, AttemptRaises
  <2> QED
    BY <2>2, <2>3 DEF Entries
<1>7. CASE Applied
  BY <1>7 DEF Applied, Entries
<1>8. CASE TestsPass
  BY <1>8 DEF TestsPass, Entries
<1>9. CASE TestsFail
  BY <1>9 DEF TestsFail, AttemptFails, AttemptRaises, Entries
<1>10. CASE Cleanup
  BY <1>10 DEF Cleanup, Entries
<1>11. CASE Cancel
  BY <1>11 DEF Cancel, Entries
<1>12. CASE UNCHANGED agentVars
  BY <1>12 DEF agentVars, Entries
<1> QED
  BY <1>1, <1>2, <1>3, <1>4, <1>5, <1>6, <1>7, <1>8, <1>9, <1>10, <1>11, <1>12 DEF AgentNext

\* The patch of an attempt describes what the attempt did to the copy.
LEMMA PatchDescribesAttempt == AgentSpec => []PatchOfAttempt
<1>1. AgentInit => PatchOfAttempt
  BY DEF AgentInit, PatchOfAttempt
<1>2. AgentTypeOK /\ PatchOfAttempt /\ [AgentNext]_agentVars => PatchOfAttempt'
  BY PatchSteps
<1>3. AgentSpec => []AgentTypeOK
  BY AgentTyped
<1> QED
  BY <1>1, <1>2, <1>3, PTL DEF AgentSpec

\* Whatever part of a patch an attempt wrote before it ended or failed, however a
\* write was cut and however often a file is listed, revert gives the copy back:
\* its texts but for their line ends, and exactly where they were newlines (apply,
\* revert, read_file_content).
THEOREM RevertGivesBack == AgentSpec => []RevertRestores
<1>1. AgentTypeOK /\ PatchOfAttempt => RevertRestores
  <2> SUFFICES ASSUME AgentTypeOK, PatchOfAttempt, NEW f \in Path
               PROVE  /\ SameText(Reverted(work)[f], before[f])
                      /\ before[f] \in Text /\ Universal[before[f]] = before[f]
                            => Reverted(work)[f] = before[f]
    BY DEF RevertRestores
  <2>1. DOMAIN work = Path
    BY DEF AgentTypeOK, Copy
  <2>2. CASE Entries(f) = {}
    BY <2>1, <2>2 DEF Reverted, PatchOfAttempt, SameText
  <2>3. CASE Entries(f) # {}
    <3>1. Entries(f) \subseteq 1..Len(patch) /\ Len(patch) \in Nat
      BY DEF Entries, AgentTypeOK, Patch
    <3>2. Max(Entries(f)) \in Entries(f)
      BY <2>3, <3>1, LastPosition
    <3>3. before[f] \in Text /\ patch[Max(Entries(f))].old = Universal[before[f]]
      BY <3>2 DEF Entries, PatchOfAttempt
    <3>4. Reverted(work)[f] = Universal[before[f]]
      BY <2>1, <2>3, <3>3 DEF Reverted
    <3>5. Universal[before[f]] \in Text /\ Universal[Universal[before[f]]] = Universal[before[f]]
      BY <3>3, SWEAssumption
    <3> QED
      BY <3>3, <3>4, <3>5 DEF SameText
  <2> QED
    BY <2>2, <2>3
<1>2. AgentSpec => []AgentTypeOK
  BY AgentTyped
<1>3. AgentSpec => []PatchOfAttempt
  BY PatchDescribesAttempt
<1> QED
  BY <1>1, <1>2, <1>3, PTL

-----------------------------------------------------------------------------
\* One more file written is one more entry that the copy holds.
LEMMA WriteHolds ==
  ASSUME NEW copy \in Copy, NEW p \in Patch, NEW n \in Nat, n + 1 \in DOMAIN p, Holds(copy, p, n)
  PROVE  Holds([copy EXCEPT ![p[n + 1].path] = p[n + 1].new], p, n + 1)
<1> DEFINE e == p[n + 1]
           next == [copy EXCEPT ![e.path] = e.new]
<1>1. p \in Seq([path : Path, old : Text, new : Text])
  BY DEF Patch
<1>2. \A i \in DOMAIN p : p[i].path \in Path
  <2> TAKE i \in DOMAIN p
  <2> DEFINE P == [path : Path, old : Text, new : Text]
  <2>1. p \in Seq(P)
    BY <1>1
  <2> HIDE DEF P
  <2>2. i \in 1..Len(p)
    BY <2>1
  <2>3. p[i] \in P
    BY <2>1, <2>2, ElementOfSeq
  <2> QED
    BY <2>3 DEF P
<1>3. DOMAIN copy = Path /\ DOMAIN p = 1..Len(p) /\ Len(p) \in Nat
  BY <1>1 DEF Copy
<1>4. ASSUME NEW i \in 1..(n + 1), \A j \in (i + 1)..(n + 1) : p[j].path # p[i].path
      PROVE  next[p[i].path] = p[i].new
  <2>1. CASE i = n + 1
    BY <1>2, <1>3, <2>1
  <2>2. CASE i # n + 1
    <3>1. i \in 1..n /\ i \in DOMAIN p /\ n + 1 \in (i + 1)..(n + 1)
      BY <1>3, <2>2
    <3>2. e.path # p[i].path
      BY <1>4, <3>1
    <3>3. \A j \in (i + 1)..n : p[j].path # p[i].path
      BY <1>4
    <3>4. copy[p[i].path] = p[i].new
      BY <3>1, <3>3 DEF Holds
    <3> QED
      BY <1>2, <1>3, <3>1, <3>2, <3>4
  <2> QED
    BY <2>1, <2>2
<1> QED
  BY <1>4 DEF Holds

\* A change of the copy is either in the diff or still being written.
LEMMA ChangeSteps ==
  ASSUME AgentTypeOK, PatchOfAttempt, ChangeInProgress, [AgentNext]_agentVars
  PROVE  ChangeInProgress'
<1> USE DEF ChangeInProgress, AgentTypeOK
<1>1. Base' = Base
  BY DEF Base
<1>2. CASE Run
  BY <1>1, <1>2 DEF Run, Holds
<1>3. CASE Explore
  BY <1>1, <1>3 DEF Explore, BeginAttempt, AttemptRaises, Holds
<1>4. CASE Diagnose
  BY <1>1, <1>4 DEF Diagnose, AttemptFails, AttemptRaises, PatchOfAttempt, Holds
<1>5. CASE Propose
  \* Nothing is written before the last answer.
  <2>1. step = "propose" /\ written = 0 /\ ~success
    BY <1>5 DEF Propose, PatchOfAttempt
  <2>2. UNCHANGED <<work, written, diff, success, torn>>
    BY <1>5 DEF Propose
  <2> QED
    BY <1>1, <2>1, <2>2 DEF Holds
<1>6. CASE Write
  <2>1. /\ step = "propose" /\ written + 1 \in DOMAIN patch /\ written \in Nat
        /\ work' = [work EXCEPT ![patch[written + 1].path] = patch[written + 1].new]
        /\ written' = written + 1 /\ UNCHANGED <<step, patch, success, torn>>
    BY <1>6 DEF Write, Patch
  <2>2. ASSUME ~torn
        PROVE  Holds(work', patch, written + 1)
    <3>1. Holds(work, patch, written)
      BY <2>1, <2>2 DEF Holds
    <3> QED
      BY <2>1, <3>1, WriteHolds
  <2>3. step' = "propose" /\ written' > 0
    BY <2>1
  <2> QED
    BY <2>1, <2>2, <2>3 DEF Holds
<1>7. CASE WriteFails
  BY <1>1, <1>7 DEF WriteFails, AttemptFails, AttemptRaises
<1>8. CASE Applied
  \* What has been written is a whole patch, and that becomes the diff.
  <2>1. /\ step = "propose" /\ step' = "verify" /\ written = Len(patch)
        /\ UNCHANGED <<work, success, torn>> /\ diff' = Recorded
    BY <1>8 DEF Applied
  <2>2. CASE patch = <<>>
    BY <1>1, <2>1, <2>2 DEF Recorded, Holds
  <2>3. CASE patch # <<>>
    <3>1. diff' = patch /\ written > 0
      BY <2>1, <2>3 DEF Recorded, Patch
    <3> QED
      BY <2>1, <2>3, <3>1 DEF Holds
  <2> QED
    BY <2>2, <2>3
<1>9. CASE TestsPass
  BY <1>1, <1>9 DEF TestsPass, Holds
<1>10. CASE TestsFail
  BY <1>1, <1>10 DEF TestsFail, AttemptFails, AttemptRaises, Holds
<1>11. CASE Cleanup
  BY <1>1, <1>11 DEF Cleanup, Holds
<1>12. CASE Cancel
  BY <1>1, <1>12 DEF Cancel, Holds
<1>13. CASE UNCHANGED agentVars
  BY <1>1, <1>13 DEF agentVars, Holds
<1> QED
  BY <1>2, <1>3, <1>4, <1>5, <1>6, <1>7, <1>8, <1>9, <1>10, <1>11, <1>12, <1>13 DEF AgentNext

\* The context of a run whose tests passed tells the last change that was made,
\* whichever attempt made it, and the copy has its texts (_fix_attempt).
THEOREM ChangeTold == AgentSpec => []ContextTellsChange
<1>1. AgentInit => ChangeInProgress
  BY DEF AgentInit, ChangeInProgress, Holds
<1>2. AgentTypeOK /\ PatchOfAttempt /\ ChangeInProgress /\ [AgentNext]_agentVars
        => ChangeInProgress'
  BY ChangeSteps
<1>3. AgentTypeOK /\ ChangeInProgress => ContextTellsChange
  BY DEF AgentTypeOK, ChangeInProgress, ContextTellsChange
<1>4. AgentSpec => []AgentTypeOK
  BY AgentTyped
<1>5. AgentSpec => []PatchOfAttempt
  BY PatchDescribesAttempt
<1> QED
  BY <1>1, <1>2, <1>3, <1>4, <1>5, PTL DEF AgentSpec

-----------------------------------------------------------------------------
\* Between a test failure and the next write the copy stays as it was tested.
LEMMA OutputSteps ==
  ASSUME AgentTypeOK, PatchOfAttempt, OutputOfCopy, [AgentNext]_agentVars
  PROVE  OutputOfCopy'
<1> USE DEF OutputOfCopy, AgentTypeOK
<1>1. CASE Run
  BY <1>1 DEF Run
<1>2. CASE Explore
  BY <1>2 DEF Explore, BeginAttempt, AttemptRaises
<1>3. CASE Diagnose
  BY <1>3 DEF Diagnose, AttemptFails, AttemptRaises
<1>4. CASE Propose
  <2>1. step = "propose" /\ written = 0
    BY <1>4 DEF Propose, PatchOfAttempt
  <2>2. UNCHANGED <<work, written, output, torn>> /\ step' # "start"
    BY <1>4 DEF Propose, AttemptFails, AttemptRaises
  <2> QED
    BY <2>1, <2>2
<1>5. CASE Write
  BY <1>5 DEF Write, Patch
<1>6. CASE WriteFails
  BY <1>6 DEF WriteFails, AttemptFails, AttemptRaises
<1>7. CASE Applied
  BY <1>7 DEF Applied
<1>8. CASE TestsPass
  BY <1>8 DEF TestsPass
<1>9. CASE TestsFail
  BY <1>9 DEF TestsFail, NarrowScope, AttemptFails, AttemptRaises
<1>10. CASE Cleanup
  BY <1>10 DEF Cleanup
<1>11. CASE Cancel
  BY <1>11 DEF Cancel
<1>12. CASE UNCHANGED agentVars
  BY <1>12 DEF agentVars
<1> QED
  BY <1>1, <1>2, <1>3, <1>4, <1>5, <1>6, <1>7, <1>8, <1>9, <1>10, <1>11, <1>12 DEF AgentNext

\* A diagnosis is made of the copy whose test failure it reads, whatever
\* attempts raised in between (_narrow_scope, _diagnose).
THEOREM DiagnosisFresh == AgentSpec => []DiagnosisSeesLastTest
<1>1. AgentInit => OutputOfCopy
  BY DEF AgentInit, OutputOfCopy
<1>2. AgentTypeOK /\ PatchOfAttempt /\ OutputOfCopy /\ [AgentNext]_agentVars
        => OutputOfCopy'
  BY OutputSteps
<1>3. OutputOfCopy => DiagnosisSeesLastTest
  BY DEF OutputOfCopy, DiagnosisSeesLastTest
<1>4. AgentSpec => []AgentTypeOK
  BY AgentTyped
<1>5. AgentSpec => []PatchOfAttempt
  BY PatchDescribesAttempt
<1> QED
  BY <1>1, <1>2, <1>3, <1>4, <1>5, PTL DEF AgentSpec

=============================================================================
