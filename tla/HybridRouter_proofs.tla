-------------------------- MODULE HybridRouter_proofs --------------------------
(***************************************************************************)
(* Proofs about HybridRouter for every finite number of concurrent          *)
(* requests, every window, every ratio and every chain of models, and about *)
(* ResponseCache, which answers before the router does.                     *)
(***************************************************************************)
EXTENDS HybridRouter, ResponseCache, FiniteSetTheorems, FunctionTheorems, TLAPS

Log == Seq({"planner", "executor"})

(***************************************************************************)
(* The window of calls.                                                    *)
(***************************************************************************)
LEMMA WithCallType ==
    ASSUME TypeOK, NEW role \in {"planner", "executor"}
    PROVE  /\ WithCall(role) \in Log
           /\ Len(calls) <= Len(WithCall(role))
           /\ Len(WithCall(role)) <= Window
<1> USE WindowAssumption DEF TypeOK, Log
<1>1. CASE Len(calls) < Window
    BY <1>1 DEF WithCall
<1>2. CASE ~ (Len(calls) < Window)
    <2>1. calls # <<>> /\ Len(calls) = Window
        BY <1>2
    <2>2. Tail(calls) \in Log /\ Len(Tail(calls)) = Len(calls) - 1
        BY <2>1
    <2>3. QED
        BY <1>2, <2>1, <2>2 DEF WithCall
<1>3. QED
    BY <1>1, <1>2

LEMMA PlannerCallsFinite ==
    ASSUME NEW log \in Log
    PROVE  /\ IsFiniteSet(PlannerCalls(log))
           /\ Cardinality(PlannerCalls(log)) \in Nat
<1>1. Len(log) \in Nat
    BY DEF Log
<1>2. IsFiniteSet(1..Len(log))
    BY <1>1, FS_Interval
<1>3. PlannerCalls(log) \in SUBSET (1..Len(log))
    BY DEF PlannerCalls
<1>4. QED
    BY <1>2, <1>3, FS_Subset, FS_CardinalityType

\* Appending counts the new call and nothing else.
LEMMA CountAppend ==
    ASSUME NEW log \in Log, NEW role \in {"planner", "executor"}
    PROVE  Cardinality(PlannerCalls(Append(log, role)))
             = Cardinality(PlannerCalls(log)) + (IF role = "planner" THEN 1 ELSE 0)
<1> DEFINE n == Len(log) + 1
<1>1. Len(log) \in Nat /\ n \notin PlannerCalls(log)
    BY DEF Log, PlannerCalls
<1>2. PlannerCalls(Append(log, role))
        = IF role = "planner" THEN PlannerCalls(log) \cup {n} ELSE PlannerCalls(log)
    BY DEF Log, PlannerCalls
<1>3. CASE role = "planner"
    BY <1>1, <1>2, <1>3, PlannerCallsFinite, FS_AddElement
<1>4. CASE role # "planner"
    BY <1>2, <1>4, PlannerCallsFinite
<1>5. QED
    BY <1>3, <1>4

\* Dropping the oldest call counts no call twice.
LEMMA CountTail ==
    ASSUME NEW log \in Log, log # <<>>
    PROVE  Cardinality(PlannerCalls(Tail(log))) <= Cardinality(PlannerCalls(log))
<1> DEFINE S == PlannerCalls(Tail(log))
           T == PlannerCalls(log)
           shift == [i \in S |-> i + 1]
<1>1. Len(log) \in Nat \ {0} /\ Len(Tail(log)) = Len(log) - 1
    BY DEF Log
<1>2. \A i \in S : i \in Nat /\ i + 1 \in T
    BY <1>1 DEF Log, PlannerCalls
<1>3. shift \in Injection(S, T)
    BY <1>2 DEF Injection, IsInjective
<1>4. QED
    BY <1>3, PlannerCallsFinite, FS_Injection

LEMMA CountWithCall ==
    ASSUME TypeOK, NEW role \in {"planner", "executor"}
    PROVE  Cardinality(PlannerCalls(WithCall(role)))
             <= Cardinality(PlannerCalls(calls)) + (IF role = "planner" THEN 1 ELSE 0)
<1> USE DEF TypeOK, Log
<1>1. CASE Len(calls) < Window
    <2>1. WithCall(role) = Append(calls, role)
        BY <1>1 DEF WithCall
    <2>2. QED
        BY <2>1, CountAppend, PlannerCallsFinite
<1>2. CASE ~ (Len(calls) < Window)
    <2>1. calls # <<>> /\ WithCall(role) = Append(Tail(calls), role)
        BY <1>2, WindowAssumption DEF WithCall
    <2>2. Tail(calls) \in Log
        BY <2>1
    <2>3. Cardinality(PlannerCalls(Tail(calls))) <= Cardinality(PlannerCalls(calls))
        BY <2>1, CountTail
    <2>4. Cardinality(PlannerCalls(WithCall(role)))
            = Cardinality(PlannerCalls(Tail(calls))) + (IF role = "planner" THEN 1 ELSE 0)
        BY <2>1, <2>2, CountAppend
    <2>5. /\ Cardinality(PlannerCalls(Tail(calls))) \in Nat
          /\ Cardinality(PlannerCalls(calls)) \in Nat
        BY <2>2, PlannerCallsFinite
    <2>6. QED
        BY <2>3, <2>4, <2>5
<1>3. QED
    BY <1>1, <1>2

(***************************************************************************)
(* Type correctness.                                                       *)
(***************************************************************************)
LEMMA RecordCallType ==
    ASSUME TypeOK, NEW s \in Slots, NEW role \in {"planner", "executor"}, RecordCall(s, role)
    PROVE  /\ calls' \in Seq({"planner", "executor"})
           /\ Len(calls') <= Window
           /\ recorded' \in [Slots -> Log]
<1>1. Append(recorded[s], role) \in Log
    BY DEF TypeOK, Log
<1>2. QED
    BY <1>1, WithCallType DEF RecordCall, TypeOK, Log

LEMMA EnterType ==
    ASSUME TypeOK, NEW s \in Slots, NEW st \in Stages, Enter(s, st)
    PROVE  /\ stage' \in [Slots -> Stages]
           /\ phase' \in [Slots -> {"none", "cached", "health", "generate"}]
           /\ at' \in [Slots -> Nat]
BY DEF Enter, TypeOK

LEMMA FinishType ==
    ASSUME TypeOK, NEW s \in Slots, NEW error \in {"none", "planner", "executor"},
           NEW decision \in {"fast_lane", "full_route"},
           NEW route \in {"fast_lane", "full_route"}, Finish(s, decision, route, error)
    PROVE  /\ stage' \in [Slots -> Stages]
           /\ phase' \in [Slots -> {"none", "cached", "health", "generate"}]
           /\ at' \in [Slots -> Nat]
           /\ answer' \in [Slots -> Answers]
<1>1. [decision |-> decision, route |-> route, error |-> error] \in Answers
    BY DEF Answers
<1>2. QED
    BY <1>1 DEF Finish, TypeOK, Stages

LEMMA ReplyType ==
    ASSUME TypeOK, NEW s \in Slots, NEW ok \in BOOLEAN, Reply(s, ok),
           errorReply' \in [Slots -> BOOLEAN]
    PROVE  TypeOK'
<1> USE DEF Log
<1>0. ExecutorError(ok) \in {"none", "planner", "executor"}
    BY DEF ExecutorError
<1>1. CASE FastReply(s, ok)
    BY <1>0, <1>1, FinishType DEF FastReply, NoRecord, TypeOK
<1>2. CASE DirectReply(s, ok)
    BY <1>0, <1>2, FinishType, RecordCallType DEF DirectReply, TypeOK
<1>3. CASE PlanReply(s, ok)
    <2>1. CASE RecordCall(s, "planner") /\ Enter(s, "execute") /\ UNCHANGED answer
        BY <2>1, EnterType, RecordCallType DEF TypeOK, Stages
    <2>2. CASE NoRecord /\ Finish(s, "full_route", "full_route", "planner")
        BY <2>2, FinishType DEF NoRecord, TypeOK
    <2>3. QED
        BY <1>3, <2>1, <2>2 DEF PlanReply
<1>4. CASE ExecuteReply(s, ok)
    <2>1. CASE RecordCall(s, "executor") /\ Enter(s, "review") /\ UNCHANGED answer
        BY <2>1, EnterType, RecordCallType DEF TypeOK, Stages
    <2>2. CASE NoRecord /\ Finish(s, "full_route", "full_route", "executor")
        BY <2>2, FinishType DEF NoRecord, TypeOK
    <2>3. QED
        BY <1>4, <2>1, <2>2 DEF ExecuteReply
<1>5. CASE ReviewReply(s, ok)
    BY <1>5, FinishType DEF ReviewReply, NoRecord, TypeOK
<1>6. QED
    BY <1>1, <1>2, <1>3, <1>4, <1>5 DEF Reply

LEMMA ArriveType ==
    ASSUME TypeOK, NEW s \in Slots, NEW route \in {"fast_lane", "full_route"}, Arrive(s, route)
    PROVE  TypeOK'
<1>1. PICK st \in {"fast", "plan", "direct"} : Enter(s, st)
    BY DEF Arrive
<1>2. NoAnswer \in Answers
    BY DEF NoAnswer, Answers
<1>3. QED
    BY <1>1, <1>2, EnterType DEF Arrive, TypeOK, Stages

\* Every field of the router's requests and of the budget has its type, and the
\* window never outgrows its size.
THEOREM TypeCorrect == Spec => []TypeOK
<1>1. Init => TypeOK
    BY WindowAssumption DEF Init, TypeOK, Stages, NoAnswer, Answers
<1>2. TypeOK /\ [Next]_vars => TypeOK'
    <2> SUFFICES ASSUME TypeOK, [Next]_vars
                 PROVE  TypeOK'
        OBVIOUS
    <2>1. ASSUME NEW s \in Slots, NEW route \in {"fast_lane", "full_route"}, Arrive(s, route)
          PROVE  TypeOK'
        BY <2>1, ArriveType
    <2>2. ASSUME NEW s \in Slots, CacheHit(s) \/ Generates(s) \/ AllModelsFailed(s)
          PROVE  TypeOK'
        <3>1. errorReply' \in [Slots -> BOOLEAN]
            BY <2>2 DEF CacheHit, Generates, AllModelsFailed, TypeOK
        <3>2. Reply(s, TRUE) \/ Reply(s, FALSE)
            BY <2>2 DEF CacheHit, Generates, AllModelsFailed
        <3>3. QED
            BY <3>1, <3>2, ReplyType
    <2>3. ASSUME NEW s \in Slots, GenerateReturnsError(s)
          PROVE  TypeOK'
        <3>1. errorReply' \in [Slots -> BOOLEAN]
            BY <2>3 DEF GenerateReturnsError, TypeOK
        <3>2. QED
            BY <2>3, <3>1, ReplyType DEF GenerateReturnsError
    <2>4. ASSUME NEW s \in Slots, Healthy(s)
          PROVE  TypeOK'
        BY <2>4 DEF Healthy, TypeOK
    <2>5. ASSUME NEW s \in Slots, Unhealthy(s) \/ GenerateRaises(s)
          PROVE  TypeOK'
        <3>1. NextModel(s)
            BY <2>5 DEF Unhealthy, GenerateRaises
        <3>2. at' \in [Slots -> Nat]
            BY <3>1 DEF NextModel, TypeOK
        <3>3. phase' \in [Slots -> {"none", "cached", "health", "generate"}]
            BY <3>1 DEF NextModel, TypeOK
        <3>4. QED
            BY <3>1, <3>2, <3>3 DEF NextModel, TypeOK
    <2>6. CASE UNCHANGED vars
        BY <2>6 DEF vars, TypeOK
    <2>7. QED
        BY <2>1, <2>2, <2>3, <2>4, <2>5, <2>6 DEF Next, Progress
<1>3. QED
    BY <1>1, <1>2, PTL DEF Spec

(***************************************************************************)
(* The overrun of the planner ratio.  Every step is one of four kinds.      *)
(***************************************************************************)
Idles      == calls' = calls /\ Planning' \subseteq Planning
Admits     == calls' = calls /\ MayUsePlanner
Spends     == /\ calls' = WithCall("planner")
              /\ \E s \in Planning : Planning' \subseteq Planning \ {s}
Dilutes    == calls' = WithCall("executor") /\ Planning' \subseteq Planning

LEMMA ReplyKinds ==
    ASSUME TypeOK, NEW s \in Slots, NEW ok \in BOOLEAN, Reply(s, ok)
    PROVE  Idles \/ Spends \/ Dilutes
<1> USE DEF TypeOK
<1>1. ASSUME stage[s] = "plan", stage' = [stage EXCEPT ![s] = "execute"]
      PROVE  s \in Planning /\ Planning' \subseteq Planning \ {s}
    BY <1>1 DEF Planning
<1>2. ASSUME NEW st \in {"idle", "review"}, stage' = [stage EXCEPT ![s] = st]
      PROVE  Planning' \subseteq Planning
    BY <1>2 DEF Planning
<1>3. CASE FastReply(s, ok)
    BY <1>2, <1>3 DEF FastReply, NoRecord, Finish, Idles
<1>4. CASE DirectReply(s, ok)
    BY <1>2, <1>4 DEF DirectReply, RecordCall, Finish, Dilutes
<1>5. CASE PlanReply(s, ok)
    BY <1>1, <1>2, <1>5 DEF PlanReply, RecordCall, NoRecord, Enter, Finish, Idles, Spends
<1>6. CASE ExecuteReply(s, ok)
    BY <1>2, <1>6 DEF ExecuteReply, RecordCall, NoRecord, Enter, Finish, Idles, Dilutes
<1>7. CASE ReviewReply(s, ok)
    BY <1>2, <1>7 DEF ReviewReply, NoRecord, Finish, Idles
<1>8. QED
    BY <1>3, <1>4, <1>5, <1>6, <1>7 DEF Reply

LEMMA StepKinds ==
    ASSUME TypeOK, [Next]_vars
    PROVE  Idles \/ Admits \/ Spends \/ Dilutes
<1> USE DEF TypeOK
<1>1. ASSUME NEW s \in Slots, NEW route \in {"fast_lane", "full_route"}, Arrive(s, route)
      PROVE  Idles \/ Admits
    <2>1. CASE MayUsePlanner
        BY <1>1, <2>1 DEF Arrive, Admits
    <2>2. CASE ~ MayUsePlanner
        BY <1>1, <2>2 DEF Arrive, Enter, Planning, Idles
    <2>3. QED
        BY <2>1, <2>2
<1>2. ASSUME NEW s \in Slots, Progress(s)
      PROVE  Idles \/ Spends \/ Dilutes
    <2>1. CASE CacheHit(s) \/ Generates(s) \/ GenerateReturnsError(s) \/ AllModelsFailed(s)
        BY <2>1, ReplyKinds DEF CacheHit, Generates, GenerateReturnsError, AllModelsFailed
    <2>2. CASE Healthy(s) \/ Unhealthy(s) \/ GenerateRaises(s)
        BY <2>2 DEF Healthy, Unhealthy, GenerateRaises, NextModel, Idles, Planning
    <2>3. QED
        BY <1>2, <2>1, <2>2 DEF Progress
<1>3. CASE UNCHANGED vars
    BY <1>3 DEF vars, Idles, Planning
<1>4. QED
    BY <1>1, <1>2, <1>3 DEF Next

LEMMA PlanningFinite ==
    /\ Cardinality(Slots) \in Nat
    /\ \A P \in SUBSET Slots : /\ IsFiniteSet(P)
                               /\ Cardinality(P) \in Nat
                               /\ Cardinality(P) <= Cardinality(Slots)
BY SlotsAssumption, FS_Subset, FS_CardinalityType

LEMMA Scale ==
    ASSUME NEW c \in Nat, NEW a \in Nat, NEW b \in Nat, a <= b
    PROVE  c * a \in Nat /\ c * b \in Nat /\ c * a <= c * b
BY SMT

\* The bound survives every step that does not raise the planner calls recorded
\* or under way and does not shorten the window.
LEMMA BoundMonotone ==
    ASSUME NEW num \in Nat, NEW den \in Nat, NEW n \in Nat,
           NEW held \in Nat, NEW heldNext \in Nat, NEW len \in Nat, NEW lenNext \in Nat,
           den * held <= num * len + den * n, heldNext <= held, len <= lenNext
    PROVE  den * heldNext <= num * lenNext + den * n
<1>1. den * heldNext \in Nat /\ den * held \in Nat /\ den * heldNext <= den * held
    BY Scale
<1>2. num * len \in Nat /\ num * lenNext \in Nat /\ num * len <= num * lenNext
    BY Scale
<1>3. den * n \in Nat
    BY SMT
<1>4. QED
    BY <1>1, <1>2, <1>3

\* Concurrent requests overrun the planner ratio by at most one call per slot.
THEOREM OverrunBounded == Spec => []OverrunBound
<1> USE RatioAssumption
<1>1. Init => OverrunBound
    <2> SUFFICES ASSUME Init PROVE OverrunBound
        OBVIOUS
    <2>1. Planning = {} /\ PlannerCalls(calls) = {} /\ Len(calls) = 0
        BY DEF Init, Planning, PlannerCalls
    <2>2. Cardinality(Planning) = 0 /\ Cardinality(PlannerCalls(calls)) = 0
        BY <2>1, FS_EmptySet
    <2>3. RatioDen * Cardinality(Slots) \in Nat
        BY PlanningFinite, SMT
    <2>4. QED
        BY <2>1, <2>2, <2>3 DEF OverrunBound
<1>2. TypeOK /\ OverrunBound /\ [Next]_vars /\ TypeOK' => OverrunBound'
    <2> SUFFICES ASSUME TypeOK, OverrunBound, [Next]_vars, TypeOK'
                 PROVE  OverrunBound'
        OBVIOUS
    <2> DEFINE p  == Cardinality(PlannerCalls(calls))
               q  == Cardinality(Planning)
               n  == Cardinality(Slots)
    <2>1. /\ p \in Nat /\ p' \in Nat
          /\ q \in Nat /\ q' \in Nat /\ q' <= n /\ n \in Nat
          /\ Len(calls) \in Nat /\ Len(calls') \in Nat
        <3>1. calls \in Log /\ calls' \in Log
            BY DEF TypeOK, Log
        <3>2. Planning \in SUBSET Slots /\ Planning' \in SUBSET Slots
            BY DEF Planning
        <3>3. QED
            BY <3>1, <3>2, PlannerCallsFinite, PlanningFinite DEF Log
    <2>2. CASE p' + q' <= p + q /\ Len(calls) <= Len(calls')
        <3>1. p + q \in Nat /\ p' + q' \in Nat
            BY <2>1
        <3>2. RatioDen * (p' + q') <= RatioNum * Len(calls') + RatioDen * n
            BY <2>1, <2>2, <3>1, BoundMonotone DEF OverrunBound
        <3>3. QED
            BY <3>2 DEF OverrunBound
    <2>3. CASE Idles
        <3>1. p' = p /\ q' <= q
            BY <2>3, PlanningFinite, FS_Subset DEF Idles, Planning
        <3>2. QED
            BY <2>1, <2>2, <2>3, <3>1 DEF Idles
    <2>4. CASE Dilutes
        <3>1. p' <= p
            BY <2>1, <2>4, CountWithCall DEF Dilutes
        <3>2. q' <= q
            BY <2>4, PlanningFinite, FS_Subset DEF Dilutes, Planning
        <3>3. Len(calls) <= Len(calls')
            BY <2>4, WithCallType DEF Dilutes
        <3>4. QED
            BY <2>1, <2>2, <3>1, <3>2, <3>3
    <2>5. CASE Spends
        <3>1. p' <= p + 1
            BY <2>1, <2>5, CountWithCall DEF Spends
        <3>2. q' <= q - 1
            <4>1. PICK s \in Planning : Planning' \subseteq Planning \ {s}
                BY <2>5 DEF Spends
            <4>2. IsFiniteSet(Planning) /\ IsFiniteSet(Planning \ {s})
                BY PlanningFinite DEF Planning
            <4>3. Cardinality(Planning \ {s}) = q - 1
                BY <4>2, FS_RemoveElement
            <4>4. QED
                BY <4>1, <4>2, <4>3, FS_Subset
        <3>3. Len(calls) <= Len(calls')
            BY <2>5, WithCallType DEF Spends
        <3>4. QED
            BY <2>1, <2>2, <3>1, <3>2, <3>3
    <2>6. CASE Admits
        <3>1. calls' = calls /\ p' = p
            BY <2>6 DEF Admits
        <3>2. p * RatioDen <= RatioNum * Len(calls)
            <4>1. CASE calls = <<>>
                <5>1. PlannerCalls(calls) = {}
                    BY <4>1 DEF PlannerCalls
                <5>2. p = 0 /\ Len(calls) = 0
                    BY <4>1, <5>1, FS_EmptySet
                <5>3. QED
                    BY <5>2
            <4>2. CASE p * RatioDen < RatioNum * Len(calls)
                <5>1. p * RatioDen \in Nat /\ RatioNum * Len(calls) \in Nat
                    BY <2>1, SMT
                <5>2. QED
                    BY <4>2, <5>1
            <4>3. QED
                BY <2>6, <4>1, <4>2 DEF Admits, MayUsePlanner
        <3>3. RatioDen * q' <= RatioDen * n
            BY <2>1, Scale
        <3>4. RatioDen * (p + q') = p * RatioDen + RatioDen * q'
            BY <2>1, SMT
        <3>5. /\ RatioDen * q' \in Nat /\ RatioDen * n \in Nat
              /\ p * RatioDen \in Nat /\ RatioNum * Len(calls) \in Nat
            BY <2>1, SMT
        <3>6. RatioDen * (p' + q') <= RatioNum * Len(calls') + RatioDen * n
            BY <3>1, <3>2, <3>3, <3>4, <3>5
        <3>7. QED
            BY <3>6 DEF OverrunBound
    <2>7. QED
        BY <2>3, <2>4, <2>5, <2>6, StepKinds
<1>3. QED
    BY <1>1, <1>2, TypeCorrect, PTL DEF Spec

(***************************************************************************)
(* What an answer records, and which failures reach it.  Both are facts of  *)
(* a single slot, which no other slot's step can disturb.                   *)
(***************************************************************************)
Kept(s) == UNCHANGED <<stage[s], phase[s], at[s], answer[s], recorded[s], errorReply[s]>>

RecordedIn(st) ==
    CASE st = "execute" -> <<"planner">>
      [] st = "review"  -> <<"planner", "executor">>
      [] OTHER          -> <<>>

\* A request under way has no answer yet, and its stage says what it recorded.
Underway(s) == stage[s] # "idle" => answer[s] = NoAnswer /\ recorded[s] = RecordedIn(stage[s])

Matches(s) == answer[s] # NoAnswer => recorded[s] = RecordFor(answer[s])

\* The models the fallback loop has left behind may fail.
Tried(s) ==
    phase[s] \in {"health", "generate"} => \A i \in 1..(at[s] - 1) : Asked(s)[i] \notin Reliable

Lacking == ~ HasReliable("planner") \/ ~ HasReliable("executor")
Explained(s) == answer[s].error = "none" \/ errorReply[s] \/ Lacking

SlotInv(s) == Underway(s) /\ Matches(s) /\ Tried(s) /\ Explained(s)

LEMMA KeptInv ==
    ASSUME NEW s \in Slots, SlotInv(s), Kept(s)
    PROVE  SlotInv(s)'
BY DEF SlotInv, Kept, Underway, Matches, Tried, Explained, Asked, Lacking, HasReliable

\* A step of one slot leaves the others alone.
LEMMA ReplyKeeps ==
    ASSUME TypeOK, NEW r \in Slots, NEW ok, Reply(r, ok), NEW s \in Slots \ {r}
    PROVE  UNCHANGED <<stage[s], phase[s], at[s], answer[s], recorded[s]>>
<1>1. ASSUME NEW decision, NEW route, NEW error, Finish(r, decision, route, error)
      PROVE  UNCHANGED <<stage[s], phase[s], at[s], answer[s]>>
    BY <1>1 DEF Finish, TypeOK
<1>2. ASSUME NEW st, Enter(r, st)
      PROVE  UNCHANGED <<stage[s], phase[s], at[s]>>
    BY <1>2 DEF Enter, TypeOK
<1>3. ASSUME NEW role, RecordCall(r, role)
      PROVE  UNCHANGED recorded[s]
    BY <1>3 DEF RecordCall, TypeOK
<1>4. CASE FastReply(r, ok)
    BY <1>1, <1>4 DEF FastReply, NoRecord
<1>5. CASE DirectReply(r, ok)
    BY <1>1, <1>3, <1>5 DEF DirectReply
<1>6. CASE PlanReply(r, ok)
    BY <1>1, <1>2, <1>3, <1>6 DEF PlanReply, NoRecord
<1>7. CASE ExecuteReply(r, ok)
    BY <1>1, <1>2, <1>3, <1>7 DEF ExecuteReply, NoRecord
<1>8. CASE ReviewReply(r, ok)
    BY <1>1, <1>8 DEF ReviewReply, NoRecord
<1>9. QED
    BY <1>4, <1>5, <1>6, <1>7, <1>8 DEF Reply

\* A reply: the call has ended in an error only for a reason.
LEMMA ReplyInv ==
    ASSUME TypeOK, NEW s \in Slots, NEW ok \in BOOLEAN, SlotInv(s), Reply(s, ok),
           errorReply[s] => errorReply'[s],
           ~ ok /\ stage[s] # "review" => errorReply'[s] \/ Lacking
    PROVE  SlotInv(s)'
<1>1. ASSUME NEW decision, NEW route, NEW error, Finish(s, decision, route, error)
      PROVE  /\ stage'[s] = "idle" /\ phase'[s] = "none"
             /\ answer'[s] = [decision |-> decision, route |-> route, error |-> error]
    BY <1>1 DEF Finish, TypeOK
<1>2. ASSUME NEW st, Enter(s, st)
      PROVE  stage'[s] = st /\ at'[s] = 1
    BY <1>2 DEF Enter, TypeOK
<1>3. ASSUME NEW role, RecordCall(s, role)
      PROVE  recorded'[s] = Append(recorded[s], role)
    BY <1>3 DEF RecordCall, TypeOK
<1>4. ASSUME stage'[s] = "idle" /\ phase'[s] = "none"
      PROVE  Underway(s)' /\ Tried(s)'
    BY <1>4 DEF Underway, Tried
<1>5. ASSUME at'[s] = 1
      PROVE  Tried(s)'
    BY <1>5 DEF Tried
\* A finished request: its record and its error decide the rest.
<1>6. ASSUME NEW decision, NEW route, NEW error, Finish(s, decision, route, error),
             recorded'[s] = RecordFor([decision |-> decision, route |-> route, error |-> error]),
             error = "none" \/ errorReply'[s] \/ Lacking
      PROVE  SlotInv(s)'
    <2>1. Underway(s)' /\ Tried(s)'
        BY <1>1, <1>4, <1>6
    <2>2. Matches(s)'
        BY <1>1, <1>6 DEF Matches
    <2>3. Explained(s)'
        BY <1>1, <1>6 DEF Explained, Lacking, HasReliable
    <2> QED
        BY <2>1, <2>2, <2>3 DEF SlotInv
\* A request that goes on to its next call.
<1>7. ASSUME NEW st \in {"execute", "review"}, Enter(s, st), answer'[s] = NoAnswer,
             recorded'[s] = RecordedIn(st)
      PROVE  SlotInv(s)'
    <2>1. Underway(s)' /\ Tried(s)'
        BY <1>2, <1>5, <1>7 DEF Underway
    <2>2. Matches(s)' /\ Explained(s)'
        BY <1>7 DEF Matches, Explained, NoAnswer
    <2> QED
        BY <2>1, <2>2 DEF SlotInv
<1>8. stage[s] # "idle" => recorded[s] = RecordedIn(stage[s]) /\ answer[s] = NoAnswer
    BY DEF SlotInv, Underway
<1>9. CASE FastReply(s, ok)
    <2>1. recorded'[s] = <<>> /\ Finish(s, "fast_lane", "fast_lane", ExecutorError(ok))
        BY <1>8, <1>9 DEF FastReply, NoRecord, RecordedIn
    <2>2. ExecutorError(ok) = "none" \/ errorReply'[s] \/ Lacking
        BY <1>9 DEF FastReply, ExecutorError
    <2> QED
        BY <1>6, <2>1, <2>2 DEF RecordFor
<1>10. CASE DirectReply(s, ok)
    <2>1. recorded'[s] = <<"executor">> /\ Finish(s, "full_route", "fast_lane", ExecutorError(ok))
        BY <1>3, <1>8, <1>10 DEF DirectReply, RecordedIn
    <2>2. ExecutorError(ok) = "none" \/ errorReply'[s] \/ Lacking
        BY <1>10 DEF DirectReply, ExecutorError
    <2>3. RecordFor([decision |-> "full_route", route |-> "fast_lane", error |-> ExecutorError(ok)])
            = <<"executor">>
        BY DEF RecordFor
    <2> QED
        BY <1>6, <2>1, <2>2, <2>3
<1>11. CASE PlanReply(s, ok)
    <2>1. recorded[s] = <<>> /\ answer[s] = NoAnswer
        BY <1>8, <1>11 DEF PlanReply, RecordedIn
    <2>2. CASE ok /\ RecordCall(s, "planner") /\ Enter(s, "execute") /\ UNCHANGED answer
        <3>1. recorded'[s] = RecordedIn("execute") /\ answer'[s] = NoAnswer
            BY <1>3, <2>1, <2>2 DEF RecordedIn
        <3> QED
            BY <1>7, <2>2, <3>1
    <2>3. CASE ~ ok /\ NoRecord /\ Finish(s, "full_route", "full_route", "planner")
        <3>1. recorded'[s] = <<>> /\ (errorReply'[s] \/ Lacking)
            BY <1>11, <2>1, <2>3 DEF PlanReply, NoRecord
        <3> QED
            BY <1>6, <2>3, <3>1 DEF RecordFor
    <2> QED
        BY <1>11, <2>2, <2>3 DEF PlanReply
<1>12. CASE ExecuteReply(s, ok)
    <2>1. recorded[s] = <<"planner">> /\ answer[s] = NoAnswer
        BY <1>8, <1>12 DEF ExecuteReply, RecordedIn
    <2>2. CASE ok /\ RecordCall(s, "executor") /\ Enter(s, "review") /\ UNCHANGED answer
        <3>1. recorded'[s] = RecordedIn("review") /\ answer'[s] = NoAnswer
            BY <1>3, <2>1, <2>2 DEF RecordedIn
        <3> QED
            BY <1>7, <2>2, <3>1
    <2>3. CASE ~ ok /\ NoRecord /\ Finish(s, "full_route", "full_route", "executor")
        <3>1. recorded'[s] = <<"planner">> /\ (errorReply'[s] \/ Lacking)
            BY <1>12, <2>1, <2>3 DEF ExecuteReply, NoRecord
        <3> QED
            BY <1>6, <2>3, <3>1 DEF RecordFor
    <2> QED
        BY <1>12, <2>2, <2>3 DEF ExecuteReply
<1>13. CASE ReviewReply(s, ok)
    <2>1. recorded'[s] = <<"planner", "executor">> /\ Finish(s, "full_route", "full_route", "none")
        BY <1>8, <1>13 DEF ReviewReply, NoRecord, RecordedIn
    <2> QED
        BY <1>6, <2>1 DEF RecordFor
<1>14. QED
    BY <1>9, <1>10, <1>11, <1>12, <1>13 DEF Reply

\* A loop that has passed every model of a role has found none that is reliable.
LEMMA ExhaustedLacks ==
    ASSUME TypeOK, NEW s \in Slots, SlotInv(s), phase[s] = "health", Exhausted(s),
           stage[s] # "review"
    PROVE  Lacking
<1>1. Role(stage[s]) \in {"planner", "executor"}
    BY DEF Role, TypeOK, Stages
<1>2. Asked(s) \in Seq(Models)
    BY <1>1, ChainAssumption DEF Asked, Roles
<1>3. ASSUME NEW i \in DOMAIN Asked(s)
      PROVE  Asked(s)[i] \notin Reliable
    <2>1. i \in 1..(at[s] - 1)
        BY <1>2 DEF Exhausted, TypeOK
    <2> QED
        BY <2>1 DEF SlotInv, Tried
<1>4. ~ HasReliable(Role(stage[s]))
    BY <1>3 DEF HasReliable, Asked
<1>5. QED
    BY <1>1, <1>4 DEF Lacking

LEMMA NextModelInv ==
    ASSUME TypeOK, NEW s \in Slots, SlotInv(s), MayFail(s), NextModel(s),
           phase[s] \in {"health", "generate"}
    PROVE  SlotInv(s)'
<1>1. /\ at'[s] = at[s] + 1 /\ at[s] \in Nat /\ stage'[s] = stage[s]
      /\ answer'[s] = answer[s] /\ recorded'[s] = recorded[s] /\ errorReply'[s] = errorReply[s]
    BY DEF NextModel, TypeOK
<1>2. ASSUME NEW i \in 1..(at'[s] - 1)
      PROVE  Asked(s)[i] \notin Reliable
    <2>1. i = at[s] \/ i \in 1..(at[s] - 1)
        BY <1>1
    <2> QED
        BY <2>1 DEF MayFail, SlotInv, Tried
<1>3. Tried(s)'
    BY <1>1, <1>2 DEF Tried, Asked
<1>4. QED
    BY <1>1, <1>3 DEF SlotInv, Underway, Matches, Explained, Lacking, HasReliable

\* A request that arrives has answered and recorded nothing.
LEMMA ArriveInv ==
    ASSUME TypeOK, NEW s \in Slots, NEW route, Arrive(s, route)
    PROVE  SlotInv(s)'
<1>1. PICK st \in {"fast", "plan", "direct"} : Enter(s, st)
    BY DEF Arrive
<1>2. /\ stage'[s] \in {"fast", "plan", "direct"} /\ at'[s] = 1
      /\ answer'[s] = NoAnswer /\ recorded'[s] = <<>>
    BY <1>1 DEF Arrive, Enter, TypeOK
<1>3. Tried(s)'
    BY <1>2 DEF Tried
<1>4. QED
    BY <1>2, <1>3 DEF SlotInv, Underway, RecordedIn, Matches, Explained, NoAnswer

LEMMA NextKeepsSlots ==
    TypeOK /\ (\A s \in Slots : SlotInv(s)) /\ [Next]_vars => (\A s \in Slots : SlotInv(s))'
<1> SUFFICES ASSUME TypeOK, \A s \in Slots : SlotInv(s), [Next]_vars, NEW s \in Slots
             PROVE  SlotInv(s)'
    OBVIOUS
<1>1. ASSUME NEW r \in Slots, NEW route, Arrive(r, route)
      PROVE  SlotInv(s)'
    <2>1. CASE r = s
        BY <1>1, <2>1, ArriveInv
    <2>2. CASE r # s
        <3>1. Kept(s)
            BY <1>1, <2>2 DEF Arrive, Enter, Kept, TypeOK
        <3> QED
            BY <3>1, KeptInv
    <2> QED
        BY <2>1, <2>2
<1>2. ASSUME NEW r \in Slots, NEW ok \in BOOLEAN, Reply(r, ok), r # s, errorReply'[s] = errorReply[s]
      PROVE  SlotInv(s)'
    <2>1. Kept(s)
        BY <1>2, ReplyKeeps DEF Kept
    <2> QED
        BY <2>1, KeptInv
<1>3. ASSUME NEW r \in Slots, CacheHit(r) \/ Generates(r)
      PROVE  SlotInv(s)'
    <2>1. Reply(r, TRUE) /\ errorReply' = errorReply
        BY <1>3 DEF CacheHit, Generates
    <2>2. CASE r = s
        BY <2>1, <2>2, ReplyInv
    <2> QED
        BY <1>2, <2>1, <2>2
<1>4. ASSUME NEW r \in Slots, GenerateReturnsError(r)
      PROVE  SlotInv(s)'
    <2>1. Reply(r, FALSE) /\ errorReply' = [errorReply EXCEPT ![r] = TRUE]
        BY <1>4 DEF GenerateReturnsError
    <2>2. CASE r = s
        <3>1. errorReply'[s]
            BY <2>1, <2>2 DEF TypeOK
        <3> QED
            BY <2>1, <2>2, <3>1, ReplyInv
    <2>3. CASE r # s
        BY <1>2, <2>1, <2>3 DEF TypeOK
    <2> QED
        BY <2>2, <2>3
<1>5. ASSUME NEW r \in Slots, AllModelsFailed(r)
      PROVE  SlotInv(s)'
    <2>1. Reply(r, FALSE) /\ errorReply' = errorReply /\ phase[r] = "health" /\ Exhausted(r)
        BY <1>5 DEF AllModelsFailed
    <2>2. CASE r = s
        <3>1. stage[s] # "review" => Lacking
            BY <2>1, <2>2, ExhaustedLacks
        <3> QED
            BY <2>1, <2>2, <3>1, ReplyInv
    <2> QED
        BY <1>2, <2>1, <2>2
<1>6. ASSUME NEW r \in Slots, Healthy(r)
      PROVE  SlotInv(s)'
    <2>1. CASE r = s
        BY <1>6, <2>1 DEF Healthy, TypeOK, SlotInv, Underway, Matches, Tried, Explained, Asked, Lacking, HasReliable
    <2>2. CASE r # s
        <3>1. Kept(s)
            BY <1>6, <2>2 DEF Healthy, Kept, TypeOK
        <3> QED
            BY <3>1, KeptInv
    <2> QED
        BY <2>1, <2>2
<1>7. ASSUME NEW r \in Slots, Unhealthy(r) \/ GenerateRaises(r)
      PROVE  SlotInv(s)'
    <2>1. MayFail(r) /\ NextModel(r) /\ phase[r] \in {"health", "generate"}
        BY <1>7 DEF Unhealthy, GenerateRaises
    <2>2. CASE r = s
        BY <2>1, <2>2, NextModelInv
    <2>3. CASE r # s
        <3>1. Kept(s)
            BY <2>1, <2>3 DEF NextModel, Kept, TypeOK
        <3> QED
            BY <3>1, KeptInv
    <2> QED
        BY <2>2, <2>3
<1>8. CASE UNCHANGED vars
    <2>1. Kept(s)
        BY <1>8 DEF vars, Kept
    <2> QED
        BY <2>1, KeptInv
<1>9. QED
    BY <1>1, <1>3, <1>4, <1>5, <1>6, <1>7, <1>8 DEF Next, Progress

LEMMA InitSlots == Init => \A s \in Slots : SlotInv(s)
BY DEF Init, SlotInv, Underway, Matches, Tried, Explained, NoAnswer

\* The answer of a request tells exactly which calls it left in the budget, in
\* which order and each once: none for the fast lane and for a failed plan, the
\* executor for a request the budget turned away, the planner alone if the
\* execution failed, both once the review was reached (LocalHybridRouter.run,
\* PlannerBudget.record_call).
THEOREM RecordsMatch == Spec => []AnswerMatchesRecord
<1>1. TypeOK /\ (\A s \in Slots : SlotInv(s)) => AnswerMatchesRecord
    BY DEF SlotInv, Underway, Matches, RecordedIn, AnswerMatchesRecord
<1>2. QED
    BY <1>1, InitSlots, NextKeepsSlots, TypeCorrect, PTL DEF Spec

\* A request fails only if a role it needs has no reliable model or a model
\* returned its error as a result (ModelRegistry.generate, run).
THEOREM FailuresExplained == Spec => []FailsOnlyWithoutModels
<1>1. (\A s \in Slots : SlotInv(s)) => FailsOnlyWithoutModels
    BY DEF SlotInv, Explained, Lacking, FailsOnlyWithoutModels
<1>2. QED
    BY <1>1, InitSlots, NextKeepsSlots, TypeCorrect, PTL DEF Spec


-----------------------------------------------------------------------------
(***************************************************************************)
(* ResponseCache, through which the registry answers the router: which text *)
(* a key can have, for any number of threads, keys and sets and any size of *)
(* the memory.                                                              *)
(***************************************************************************)
\* Trimming the memory forgets entries and changes none (_trim_memory).
LEMMA TrimForgets ==
  ASSUME NEW m \in [Key -> [text : Nat, hits : Nat]], NEW t \in Trimmed(m)
  PROVE  /\ t \in [Key -> [text : Nat, hits : Nat]]
         /\ \A k \in Key : t[k].text \in {None, m[k].text}
<1> USE DEF None
<1>1. CASE t = m
  BY <1>1
<1>2. ASSUME NEW j \in Key, t = [m EXCEPT ![j].text = 0, ![j].hits = 0]
      PROVE  /\ t \in [Key -> [text : Nat, hits : Nat]]
             /\ \A k \in Key : t[k].text \in {0, m[k].text}
  BY <1>2
<1> QED
  BY <1>1, <1>2 DEF Trimmed, Held

\* An entry with a hit more is an entry (get).
LEMMA HitTyped == \A n \in Nat : Hit(n) \in Nat
BY SizeAssumption DEF Hit

\* What a thread that is not idle is about, and how its step moves on.
LEMMA CallShapes ==
  ASSUME CacheTypeOK, NEW th \in Thread
  PROVE  /\ doing[th].op \in WorkOps =>
              /\ doing[th] \in Working
              /\ \E q \in Key : doing[th].keys = {q}
              /\ \A o \in WorkOps :
                   [doing[th] EXCEPT !.op = o] = [op |-> o, keys |-> doing[th].keys, text |-> doing[th].text]
         /\ doing[th].op = "saving" => doing[th] \in Saving /\ \E q \in Key : doing[th].keys = {q}
         /\ doing[th].op = "unlink" => doing[th] \in Unlinking
         /\ doing[th].op # "none" => About(doing[th]) = doing[th].keys
         /\ About(Idle) = {}
         /\ About(doing[th]) \subseteq Key
<1>1. doing[th] \in {Idle} \union Working \union Saving \union Unlinking
  BY DEF CacheTypeOK, CacheCalls
<1>2. CASE doing[th] = Idle
  BY <1>2 DEF Idle, About, WorkOps
<1>3. CASE doing[th] \in Working
  BY <1>3 DEF Working, Idle, About, WorkOps
<1>4. CASE doing[th] \in Saving
  BY <1>4 DEF Saving, Idle, About, WorkOps
<1>5. CASE doing[th] \in Unlinking
  BY <1>5 DEF Unlinking, Idle, About, WorkOps
<1> QED
  BY <1>1, <1>2, <1>3, <1>4, <1>5

\* The memory, the files and the index of the cache keep their shapes, and so do
\* the calls of its threads.
LEMMA CacheTyped == CacheSpec => []CacheTypeOK
<1> USE DEF None
<1>1. CacheInit => CacheTypeOK
  <2> SUFFICES ASSUME CacheInit
               PROVE  CacheTypeOK
    OBVIOUS
  <2>1. memory \in [Key -> [text : Nat, hits : Nat]]
    BY DEF CacheInit, Empty
  <2>2. doing \in [Thread -> CacheCalls]
    BY DEF CacheInit, CacheCalls
  <2>3. index \in (SUBSET Key) \union {NoIndex}
    BY DEF CacheInit
  <2>4. sets \in 0..MaxSets /\ faults \in Nat /\ latest \in [Key -> 0..MaxSets]
    BY SizeAssumption DEF CacheInit
  <2>5. disk \in [Key -> Nat] /\ mixed \subseteq Key /\ expired \subseteq Nat
    BY DEF CacheInit
  <2> QED
    BY <2>1, <2>2, <2>3, <2>4, <2>5 DEF CacheTypeOK
<1>2. CacheTypeOK /\ [CacheNext]_cacheVars => CacheTypeOK'
  <2> SUFFICES ASSUME CacheTypeOK, [CacheNext]_cacheVars
               PROVE  CacheTypeOK'
    OBVIOUS
  <2>1. Broken \in Nat /\ Text \subseteq Nat /\ MaxSets \in Nat
    BY SizeAssumption DEF Broken, Text
  <2>2. ASSUME NEW th, NEW keys \in SUBSET Key, mixed' = mixed \union (keys \intersect Busy(th))
        PROVE  mixed' \subseteq Key
    BY <2>2 DEF CacheTypeOK
  <2>7. ASSUME NEW th \in Thread, NEW d \in CacheCalls, doing' = [doing EXCEPT ![th] = d]
        PROVE  doing' \in [Thread -> CacheCalls]
    BY <2>7 DEF CacheTypeOK
  <2>18. Idle \in CacheCalls /\ Working \subseteq CacheCalls /\ Saving \subseteq CacheCalls
         /\ Unlinking \subseteq CacheCalls
    BY DEF CacheCalls
  <2>19. ASSUME NEW th \in Thread, NEW o \in WorkOps, doing[th].op \in WorkOps
         PROVE  [doing[th] EXCEPT !.op = o] \in CacheCalls
    <3>1. [doing[th] EXCEPT !.op = o] \in Working
      BY <2>19, CallShapes DEF Working
    <3> QED
      BY <2>18, <3>1
  <2>20. ASSUME NEW th \in Thread, NEW k \in Key, NEW text \in Text, NEW o \in WorkOps
         PROVE  [op |-> o, keys |-> {k}, text |-> text] \in CacheCalls
    <3>1. [op |-> o, keys |-> {k}, text |-> text] \in Working
      BY DEF Working
    <3> QED
      BY <2>18, <3>1
  <2>3. CASE Expire
    BY <2>3 DEF Expire, CacheTypeOK
  <2>4. ASSUME NEW th \in Thread, NEW k \in Key, GetFromMemory(th, k)
        PROVE  CacheTypeOK'
    <3>1. memory' \in [Key -> [text : Nat, hits : Nat]]
      BY <2>4, HitTyped DEF GetFromMemory, CacheTypeOK
    <3>2. mixed' \subseteq Key
      <4>1. {k} \in SUBSET Key /\ Overlap(th, {k})
        BY <2>4 DEF GetFromMemory
      <4> QED
        BY <2>2, <4>1 DEF Overlap
    <3> QED
      BY <2>4, <3>1, <3>2 DEF GetFromMemory, CacheTypeOK
  <2>5. ASSUME NEW th \in Thread, NEW k \in Key, GetFromDisk(th, k)
        PROVE  CacheTypeOK'
    <3>1. [op |-> "load", keys |-> {k}, text |-> disk[k]] \in CacheCalls
      BY <2>5, <2>20 DEF GetFromDisk, WorkOps
    <3>2. doing' = [doing EXCEPT ![th] = [op |-> "load", keys |-> {k}, text |-> disk[k]]]
      BY <2>5 DEF GetFromDisk, Begin
    <3>3. doing' \in [Thread -> CacheCalls]
      BY <2>7, <3>1, <3>2
    <3>4. mixed' \subseteq Key
      <4>1. {k} \in SUBSET Key /\ Overlap(th, {k})
        BY <2>5 DEF GetFromDisk, Begin
      <4> QED
        BY <2>2, <4>1 DEF Overlap
    <3> QED
      BY <2>5, <3>3, <3>4 DEF GetFromDisk, CacheTypeOK
  <2>21. ASSUME NEW th \in Thread, NEW k \in Key, Load(th, k)
         PROVE  CacheTypeOK'
    <3>1. doing[th].text \in Nat
      BY <2>1, <2>21, CallShapes DEF Load, Working, WorkOps
    <3>2. memory' \in [Key -> [text : Nat, hits : Nat]]
      BY <2>21, <3>1 DEF Load, CacheTypeOK
    <3>3. disk' \in [Key -> Nat]
      BY <2>21 DEF Load, CacheTypeOK
    <3>4. [doing[th] EXCEPT !.op = "trimGet"] \in CacheCalls
      BY <2>19, <2>21 DEF Load, WorkOps
    <3>5. PICK d \in CacheCalls : doing' = [doing EXCEPT ![th] = d]
      BY <2>18, <2>21, <3>4 DEF Load
    <3>6. doing' \in [Thread -> CacheCalls]
      BY <2>7, <3>5
    <3> QED
      BY <2>21, <3>2, <3>3, <3>6 DEF Load, CacheTypeOK
  <2>22. ASSUME NEW th \in Thread, Trim(th)
         PROVE  CacheTypeOK'
    <3>1. memory' \in [Key -> [text : Nat, hits : Nat]]
      BY <2>22, TrimForgets DEF Trim, CacheTypeOK
    <3>2. [doing[th] EXCEPT !.op = "truncate"] \in CacheCalls
      BY <2>19, <2>22 DEF Trim, WorkOps
    <3>3. PICK d \in CacheCalls : doing' = [doing EXCEPT ![th] = d]
      BY <2>18, <2>22, <3>2 DEF Trim
    <3>4. doing' \in [Thread -> CacheCalls]
      BY <2>7, <3>3
    <3> QED
      BY <2>22, <3>1, <3>4 DEF Trim, CacheTypeOK
  <2>23. ASSUME NEW th \in Thread, TrimRaises(th)
         PROVE  CacheTypeOK'
    <3>1. doing[th].keys \subseteq Key
      BY <2>23, CallShapes DEF TrimRaises, WorkOps
    <3>2. doing' \in [Thread -> CacheCalls]
      BY <2>7, <2>18, <2>23 DEF TrimRaises
    <3> QED
      BY <2>23, <3>1, <3>2 DEF TrimRaises, CacheTypeOK
  <2>6. ASSUME NEW th \in Thread, NEW k \in Key, SetMemory(th, k)
        PROVE  CacheTypeOK'
    <3>1. sets + 1 \in Text /\ sets + 1 \in 0..MaxSets /\ sets' = sets + 1 /\ sets + 1 \in Nat
      BY <2>1, <2>6 DEF SetMemory, CacheTypeOK, Text
    <3>2. memory' \in [Key -> [text : Nat, hits : Nat]]
      BY <2>6, <3>1 DEF SetMemory, CacheTypeOK
    <3>3. PICK o \in WorkOps : doing' = [doing EXCEPT ![th] = [op |-> o, keys |-> {k}, text |-> sets + 1]]
      BY <2>6 DEF SetMemory, Begin, WorkOps
    <3>4. [op |-> o, keys |-> {k}, text |-> sets + 1] \in CacheCalls
      BY <2>20, <3>1
    <3>5. doing' \in [Thread -> CacheCalls]
      BY <2>7, <3>3, <3>4
    <3>6. mixed' \subseteq Key
      <4>1. {k} \in SUBSET Key /\ Overlap(th, {k})
        BY <2>6 DEF SetMemory, Begin
      <4> QED
        BY <2>2, <4>1 DEF Overlap
    <3>7. latest' \in [Key -> 0..MaxSets]
      BY <2>6, <3>1 DEF SetMemory, CacheTypeOK
    <3> QED
      BY <2>6, <3>1, <3>2, <3>5, <3>6, <3>7 DEF SetMemory, CacheTypeOK
  <2>24. ASSUME NEW th \in Thread, NEW k \in Key, SetTooLarge(th, k)
         PROVE  CacheTypeOK'
    <3>1. sets' \in 0..MaxSets
      BY <2>1, <2>24 DEF SetTooLarge, CacheTypeOK
    <3> QED
      BY <2>24, <3>1 DEF SetTooLarge, CacheTypeOK
  <2>8. ASSUME NEW th \in Thread, Truncate(th)
        PROVE  CacheTypeOK'
    <3>1. PICK q \in Key : doing[th].keys = {q}
      BY <2>8, CallShapes DEF Truncate, WorkOps
    <3>2. disk' \in [Key -> Nat]
      BY <2>1, <2>8, <3>1 DEF Truncate, CacheTypeOK
    <3>3. [doing[th] EXCEPT !.op = "write"] \in CacheCalls
      BY <2>8, <2>19 DEF Truncate, WorkOps
    <3>4. doing' = [doing EXCEPT ![th] = [doing[th] EXCEPT !.op = "write"]]
      BY <2>8 DEF Truncate
    <3>5. doing' \in [Thread -> CacheCalls]
      BY <2>7, <3>3, <3>4
    <3> QED
      BY <2>8, <3>2, <3>5 DEF Truncate, CacheTypeOK
  <2>9. ASSUME NEW th \in Thread, Write(th)
        PROVE  CacheTypeOK'
    <3>1. doing[th].text \in Nat
      BY <2>1, <2>9, CallShapes DEF Write, Working, WorkOps
    <3>2. PICK q \in Key : doing[th].keys = {q}
      BY <2>9, CallShapes DEF Write, WorkOps
    <3>3. PICK file \in Written(q, doing[th].text) : disk' = [disk EXCEPT ![q] = file]
      BY <2>9, <3>2 DEF Write
    <3>4. file \in Nat
      BY <2>1, <3>1, <3>3 DEF Written
    <3>5. disk' \in [Key -> Nat]
      BY <3>3, <3>4 DEF CacheTypeOK
    <3>6. [doing[th] EXCEPT !.op = "index"] \in CacheCalls
      BY <2>9, <2>19 DEF Write, WorkOps
    <3>7. doing' = [doing EXCEPT ![th] = [doing[th] EXCEPT !.op = "index"]]
      BY <2>9 DEF Write
    <3>8. doing' \in [Thread -> CacheCalls]
      BY <2>7, <3>6, <3>7
    <3> QED
      BY <2>9, <3>5, <3>8 DEF Write, CacheTypeOK
  <2>10. ASSUME NEW th \in Thread, WriteFails(th)
        PROVE  CacheTypeOK'
    <3>1. doing[th].keys \subseteq Key
      BY <2>10, CallShapes DEF WriteFails, WorkOps
    <3>2. [doing[th] EXCEPT !.op = "index"] \in CacheCalls
      BY <2>10, <2>19 DEF WriteFails, WorkOps
    <3>3. doing' = [doing EXCEPT ![th] = [doing[th] EXCEPT !.op = "index"]]
      BY <2>10 DEF WriteFails
    <3>4. doing' \in [Thread -> CacheCalls]
      BY <2>7, <3>2, <3>3
    <3> QED
      BY <2>10, <3>1, <3>4 DEF WriteFails, Fault, CacheTypeOK
  <2>11. ASSUME NEW th \in Thread, SaveIndex(th)
        PROVE  CacheTypeOK'
    <3> DEFINE d == [op |-> "saving", keys |-> doing[th].keys, text |-> doing[th].text,
                     listed |-> Held(memory)]
    <3>1. doing[th] \in Working
      BY <2>11, CallShapes DEF SaveIndex, WorkOps
    <3>2. d \in Saving
      BY <3>1 DEF Working, Saving, Held
    <3>3. doing' = [doing EXCEPT ![th] = d]
      BY <2>11 DEF SaveIndex
    <3> HIDE DEF d
    <3>4. doing' \in [Thread -> CacheCalls]
      BY <2>7, <2>18, <3>2, <3>3
    <3> QED
      BY <2>11, <3>4 DEF SaveIndex, CacheTypeOK
  <2>25. ASSUME NEW th \in Thread, WriteIndex(th)
         PROVE  CacheTypeOK'
    <3>1. doing[th].listed \in SUBSET Key
      BY <2>25, CallShapes DEF WriteIndex, Saving
    <3>2. doing' \in [Thread -> CacheCalls]
      BY <2>7, <2>18, <2>25 DEF WriteIndex
    <3>3. index' \in (SUBSET Key) \union {NoIndex}
      <4>1. index' \in {NoIndex, {}, doing[th].listed}
        BY <2>25 DEF WriteIndex
      <4> QED
        BY <3>1, <4>1
    <3> QED
      BY <2>25, <3>2, <3>3 DEF WriteIndex, CacheTypeOK
  <2>26. ASSUME NEW th \in Thread, IndexFails(th)
         PROVE  CacheTypeOK'
    <3>1. doing' \in [Thread -> CacheCalls]
      BY <2>7, <2>18, <2>26 DEF IndexFails
    <3> QED
      BY <2>26, <3>1 DEF IndexFails, Fault, CacheTypeOK
  <2>12. ASSUME NEW th \in Thread, NEW keys \in SUBSET Key,
                Begin(th, [op |-> "unlink", keys |-> keys], keys)
        PROVE  /\ doing' \in [Thread -> CacheCalls]
               /\ mixed' \subseteq Key
    <3>1. [op |-> "unlink", keys |-> keys] \in CacheCalls
      BY <2>18 DEF Unlinking
    <3>2. mixed' \subseteq Key
      BY <2>2, <2>12 DEF Begin, Overlap
    <3> QED
      BY <2>7, <2>12, <3>1, <3>2 DEF Begin
  <2>13. ASSUME NEW th \in Thread, NEW k \in Key, Invalidate(th, k)
        PROVE  CacheTypeOK'
    <3>1. memory' \in [Key -> [text : Nat, hits : Nat]]
      BY <2>13 DEF Invalidate, Forgotten, CacheTypeOK
    <3>2. latest' \in [Key -> 0..MaxSets]
      BY <2>1, <2>13 DEF Invalidate, CacheTypeOK
    <3>3. {k} \in SUBSET Key /\ Begin(th, [op |-> "unlink", keys |-> {k}], {k})
      BY <2>13 DEF Invalidate
    <3>4. /\ doing' \in [Thread -> CacheCalls]
          /\ mixed' \subseteq Key
      BY <2>12, <3>3
    <3> QED
      BY <2>13, <3>1, <3>2, <3>4 DEF Invalidate, CacheTypeOK
  <2>14. ASSUME NEW th \in Thread, Clear(th)
        PROVE  CacheTypeOK'
    <3>1. memory' \in [Key -> [text : Nat, hits : Nat]]
      BY <2>14 DEF Clear, Empty
    <3>2. latest' \in [Key -> 0..MaxSets]
      BY <2>1, <2>14 DEF Clear
    <3> QED
      BY <2>12, <2>14, <3>1, <3>2 DEF Clear, CacheTypeOK
  <2>15. ASSUME NEW th \in Thread, Unlink(th)
        PROVE  CacheTypeOK'
    <3>1. doing' \in [Thread -> CacheCalls]
      BY <2>7, <2>15, <2>18 DEF Unlink
    <3>2. index' \in (SUBSET Key) \union {NoIndex}
      BY <2>15 DEF Unlink, CacheTypeOK
    <3>3. disk' \in [Key -> Nat]
      BY <2>15 DEF Unlink, CacheTypeOK
    <3>4. UNCHANGED <<memory, expired, sets, latest, mixed, faults>>
      BY <2>15 DEF Unlink
    <3> QED
      BY <3>1, <3>2, <3>3, <3>4 DEF CacheTypeOK
  <2>27. ASSUME NEW th \in Thread, UnlinkFails(th)
         PROVE  CacheTypeOK'
    <3>1. doing' \in [Thread -> CacheCalls]
      BY <2>7, <2>18, <2>27 DEF UnlinkFails
    <3>2. doing[th].keys \subseteq Key
      BY <2>27, CallShapes DEF UnlinkFails, Unlinking
    <3>3. disk' \in [Key -> Nat]
      BY <2>27 DEF UnlinkFails, CacheTypeOK
    <3> QED
      BY <2>27, <3>1, <3>2, <3>3 DEF UnlinkFails, Fault, CacheTypeOK
  <2>16. CASE CrashAndRestart
    <3>1. memory' \in [Key -> [text : Nat, hits : Nat]]
      BY <2>16 DEF CrashAndRestart, Loaded, CacheTypeOK
    <3>2. mixed' \subseteq Key
      <4>1. \A th \in Thread : About(doing[th]) \subseteq Key
        BY CallShapes
      <4>2. mixed' = mixed \union UNION {About(doing[th]) : th \in Thread}
        BY <2>16 DEF CrashAndRestart
      <4> QED
        BY <4>1, <4>2 DEF CacheTypeOK
    <3>3. doing' \in [Thread -> CacheCalls]
      BY <2>16, <2>18 DEF CrashAndRestart
    <3> QED
      BY <2>16, <3>1, <3>2, <3>3 DEF CrashAndRestart, Fault, CacheTypeOK
  <2>17. CASE UNCHANGED cacheVars
    BY <2>17 DEF cacheVars, CacheTypeOK
  <2> QED
    BY <2>3, <2>4, <2>5, <2>6, <2>8, <2>9, <2>10, <2>11, <2>13, <2>14, <2>15, <2>16, <2>17,
       <2>21, <2>22, <2>23, <2>24, <2>25, <2>26, <2>27
    DEF CacheNext
<1> QED
  BY <1>1, <1>2, PTL DEF CacheSpec

-----------------------------------------------------------------------------
\* A step that changes no call about k, nor the file and the latest text of k,
\* leaves k as it was, even if the memory forgets k.
LEMMA KeyUntouched ==
  ASSUME CacheTypeOK, NEW k \in Key, KeyInOneHand(k),
         memory'[k].text \in {None, memory[k].text},
         disk'[k] = disk[k], latest'[k] = latest[k], expired \subseteq expired',
         \A th \in Thread : k \in About(doing'[th]) \/ k \in About(doing[th]) => doing'[th] = doing[th]
  PROVE  KeyInOneHand(k)'
<1>1. None' = None /\ Text' = Text /\ Broken' = Broken
  BY DEF None, Text, Broken
<1>2. \A th \in Thread : (About(doing[th]))' = About(doing'[th])
  BY DEF About
<1>3. \A th \in Thread : k \in About(doing'[th]) => k \in About(doing[th]) /\ doing'[th] = doing[th]
  OBVIOUS
<1>4. \A th \in Thread : k \in About(doing[th]) => k \in About(doing'[th]) /\ doing'[th] = doing[th]
  OBVIOUS
<1> QED
  BY <1>1, <1>2, <1>3, <1>4 DEF KeyInOneHand

\* A call that begins is about its keys alone; of those whose calls do not
\* overlap no other thread has any (_lock, set, invalidate, clear).
LEMMA CallBegins ==
  ASSUME CacheTypeOK, NEW th \in Thread, NEW d, NEW keys \in SUBSET Key,
         d.keys = keys, d.op # "none", Begin(th, d, keys)
  PROVE  /\ doing[th] = Idle /\ About(doing[th]) = {}
         /\ doing'[th] = d /\ About(doing'[th]) = keys
         /\ \A o \in Thread \ {th} : doing'[o] = doing[o]
         /\ \A k \in keys \ mixed' : \A o \in Thread \ {th} : k \notin About(doing[o])
         /\ mixed \subseteq mixed'
<1>1. doing[th] = Idle /\ doing' = [doing EXCEPT ![th] = d] /\ mixed' = mixed \union (keys \intersect Busy(th))
  BY DEF Begin, Overlap
<1>2. doing'[th] = d /\ \A o \in Thread \ {th} : doing'[o] = doing[o]
  BY <1>1 DEF CacheTypeOK
<1>3. \A k \in keys \ mixed' : \A o \in Thread \ {th} : k \notin About(doing[o])
  BY <1>1 DEF Busy
<1>4. About(doing[th]) = {} /\ About(d) = keys
  BY <1>1 DEF About, Idle
<1> QED
  BY <1>1, <1>2, <1>3, <1>4

\* Every step keeps each key whose calls do not overlap in the hands of one
\* thread, and moves its text to the file with that thread.
LEMMA OneHandSteps ==
  ASSUME CacheTypeOK, OneHand, [CacheNext]_cacheVars
  PROVE  OneHand'
<1> SUFFICES ASSUME NEW k \in Key, k \notin mixed'
             PROVE  KeyInOneHand(k)'
  BY DEF OneHand
<1> USE DEF None
<1>1. Text' = Text /\ Broken' = Broken /\ Text \subseteq Nat /\ 0 \notin Text
      /\ Broken # 0 /\ Broken \notin Text
  BY SizeAssumption DEF Text, Broken
<1>2. /\ memory \in [Key -> [text : Nat, hits : Nat]]
      /\ disk \in [Key -> Nat] /\ doing \in [Thread -> CacheCalls]
      /\ latest \in [Key -> 0..MaxSets] /\ latest[k] \in Nat
  BY SizeAssumption DEF CacheTypeOK
<1>3. k \notin mixed => KeyInOneHand(k)
  BY DEF OneHand
<1>4. \A th \in Thread : (About(doing[th]))' = About(doing'[th])
  BY DEF About
<1>5. About(Idle) = {} /\ Idle.op = "none"
  BY DEF About, Idle
<1>6. CASE Expire
  <2>1. k \notin mixed /\ expired \subseteq expired' /\ UNCHANGED <<memory, disk, latest, doing>>
    BY <1>6 DEF Expire
  <2> QED
    BY <1>3, <2>1, KeyUntouched
<1>7. ASSUME NEW th \in Thread, NEW q \in Key, GetFromMemory(th, q)
      PROVE  KeyInOneHand(k)'
  <2>1. k \notin mixed /\ UNCHANGED <<disk, expired, doing, latest>>
    BY <1>7 DEF GetFromMemory, Overlap
  <2>2. memory'[k].text \in {0, memory[k].text}
    BY <1>2, <1>7 DEF GetFromMemory
  <2> QED
    BY <1>3, <2>1, <2>2, KeyUntouched
\* The step of a thread on a call about other keys.
<1>20. ASSUME NEW th \in Thread, NEW d, About(d) \subseteq About(doing[th]), k \notin About(doing[th]),
              k \notin mixed, doing' = [doing EXCEPT ![th] = d],
              memory'[k].text \in {0, memory[k].text}, UNCHANGED <<expired, latest>>, disk'[k] = disk[k]
       PROVE  KeyInOneHand(k)'
  <2>1. doing'[th] = d /\ \A o \in Thread \ {th} : doing'[o] = doing[o]
    BY <1>2, <1>20
  <2>2. \A o \in Thread : k \in About(doing'[o]) \/ k \in About(doing[o]) => doing'[o] = doing[o]
    BY <1>20, <2>1
  <2> QED
    BY <1>3, <1>20, <2>2, KeyUntouched
\* The call about k ends, or goes on with the same text.
<1>21. ASSUME NEW th \in Thread, NEW d, k \in About(doing[th]), KeyInOneHand(k),
              doing' = [doing EXCEPT ![th] = d], About(d) = {} \/ About(d) = {k}
       PROVE  /\ doing'[th] = d
              /\ \A o \in Thread : k \in About(doing[o]) => o = th
              /\ \A o \in Thread : k \in About(doing'[o]) => o = th
  <2>1. doing'[th] = d /\ \A o \in Thread \ {th} : doing'[o] = doing[o]
    BY <1>2, <1>21
  <2>2. \A o \in Thread : k \in About(doing[o]) => o = th
    BY <1>21 DEF KeyInOneHand
  <2> QED
    BY <2>1, <2>2
<1>8. ASSUME NEW th \in Thread, NEW q \in Key, GetFromDisk(th, q)
      PROVE  KeyInOneHand(k)'
  <2> DEFINE d == [op |-> "load", keys |-> {q}, text |-> disk[q]]
  <2>1. d.op = "load" /\ d.keys = {q} /\ d.text = disk[q] /\ {q} \in SUBSET Key /\ Begin(th, d, {q})
    BY <1>8 DEF GetFromDisk
  <2> HIDE DEF d
  <2>2. /\ About(doing[th]) = {} /\ doing'[th] = d /\ About(doing'[th]) = {q}
        /\ \A o \in Thread \ {th} : doing'[o] = doing[o]
        /\ \A j \in {q} \ mixed' : \A o \in Thread \ {th} : j \notin About(doing[o])
        /\ mixed \subseteq mixed'
    BY <2>1, CallBegins
  <2>3. UNCHANGED <<memory, disk, expired, latest>> /\ k \notin mixed /\ KeyInOneHand(k)
    BY <1>3, <1>8, <2>2 DEF GetFromDisk
  <2>4. CASE k # q
    <3>1. \A o \in Thread : k \in About(doing'[o]) \/ k \in About(doing[o]) => doing'[o] = doing[o]
      BY <2>2, <2>4
    <3> QED
      BY <2>3, <3>1, KeyUntouched
  <2>5. CASE k = q
    \* Nobody works on k, so its file has the latest text.
    <3>1. \A o \in Thread : k \notin About(doing[o])
      BY <2>2, <2>5
    <3>2. disk[k] = latest[k] /\ latest[k] \in Text
      BY <1>1, <1>8, <2>3, <2>5, <3>1 DEF KeyInOneHand, GetFromDisk
    <3>3. \A o \in Thread : k \in About(doing'[o]) => o = th
      BY <2>2, <2>5
    <3> QED
      BY <1>1, <1>4, <2>1, <2>2, <2>3, <2>5, <3>2, <3>3 DEF KeyInOneHand
  <2> QED
    BY <2>4, <2>5
<1>22. ASSUME NEW th \in Thread, NEW q \in Key, Load(th, q)
       PROVE  KeyInOneHand(k)'
  <2>1. k \notin mixed /\ KeyInOneHand(k) /\ UNCHANGED <<expired, latest>> /\ doing[th].op = "load"
        /\ doing[th].keys = {q}
    BY <1>3, <1>22 DEF Load
  <2>2. About(doing[th]) = {q} /\ doing[th] \in Working
    BY <2>1, CallShapes DEF WorkOps
  <2>3. [doing[th] EXCEPT !.op = "trimGet"] = [op |-> "trimGet", keys |-> {q}, text |-> doing[th].text]
    BY <2>1, CallShapes DEF WorkOps
  <2>4. PICK d : /\ doing' = [doing EXCEPT ![th] = d]
                 /\ d = Idle \/ d = [op |-> "trimGet", keys |-> {q}, text |-> doing[th].text]
    BY <1>22, <2>3 DEF Load
  <2>5. About(d) = {} \/ (About(d) = {q} /\ d.op = "trimGet" /\ d.text = doing[th].text)
    BY <1>5, <2>4 DEF About
  <2>6. memory'[k].text \in {memory[k].text, IF k = q THEN doing[th].text ELSE memory[k].text}
    BY <1>2, <1>22 DEF Load
  <2>7. disk'[k] = disk[k] \/ (k = q /\ disk'[k] = 0 /\ doing[th].text \in expired)
    BY <1>2, <1>22 DEF Load
  <2>8. CASE k # q
    BY <1>20, <2>1, <2>2, <2>4, <2>5, <2>6, <2>7, <2>8
  <2>9. CASE k = q
    <3>1. /\ doing'[th] = d
          /\ \A o \in Thread : k \in About(doing[o]) => o = th
          /\ \A o \in Thread : k \in About(doing'[o]) => o = th
      BY <1>21, <2>1, <2>2, <2>4, <2>5, <2>9
    <3>2. doing[th].text = latest[k] /\ latest[k] \in Text
      BY <2>1, <2>2, <2>9 DEF KeyInOneHand
    <3>3. disk[k] = latest[k] \/ (disk[k] = 0 /\ latest[k] \in expired)
      BY <2>1, <3>1 DEF KeyInOneHand
    <3>4. memory'[k].text \in {0, latest[k]}
      BY <2>1, <2>6, <2>9, <3>2 DEF KeyInOneHand
    <3>5. disk'[k] = latest[k] \/ (disk'[k] = 0 /\ latest[k] \in expired)
      BY <2>7, <3>2, <3>3
    <3> QED
      BY <1>1, <1>4, <2>1, <2>5, <2>9, <3>1, <3>2, <3>4, <3>5 DEF KeyInOneHand
  <2> QED
    BY <2>8, <2>9
<1>23. ASSUME NEW th \in Thread, Trim(th)
       PROVE  KeyInOneHand(k)'
  <2>1. k \notin mixed /\ KeyInOneHand(k) /\ UNCHANGED <<disk, expired, latest>>
        /\ doing[th].op \in {"trimGet", "trimSet"}
    BY <1>3, <1>23 DEF Trim
  <2>2. PICK q \in Key : doing[th].keys = {q}
    BY <2>1, CallShapes DEF WorkOps
  <2>3. About(doing[th]) = {q} /\ doing[th] \in Working
        /\ [doing[th] EXCEPT !.op = "truncate"] = [op |-> "truncate", keys |-> {q}, text |-> doing[th].text]
    BY <2>1, <2>2, CallShapes DEF WorkOps
  <2>4. memory'[k].text \in {0, memory[k].text}
    BY <1>2, <1>23, TrimForgets DEF Trim
  <2>5. PICK d : /\ doing' = [doing EXCEPT ![th] = d]
                 /\ \/ d = Idle /\ doing[th].op = "trimGet"
                    \/ d = [op |-> "truncate", keys |-> {q}, text |-> doing[th].text]
    BY <1>23, <2>3 DEF Trim
  <2>6. \/ About(d) = {} /\ doing[th].op = "trimGet"
        \/ About(d) = {q} /\ d.op = "truncate" /\ d.text = doing[th].text
    BY <1>5, <2>5 DEF About
  <2>7. CASE k # q
    BY <1>20, <2>1, <2>3, <2>4, <2>5, <2>6, <2>7
  <2>8. CASE k = q
    <3>1. /\ doing'[th] = d
          /\ \A o \in Thread : k \in About(doing[o]) => o = th
          /\ \A o \in Thread : k \in About(doing'[o]) => o = th
      BY <1>21, <2>1, <2>3, <2>5, <2>6, <2>8
    <3>2. doing[th].text = latest[k] /\ latest[k] \in Text
      BY <2>1, <2>3, <2>8 DEF KeyInOneHand
    <3>3. doing[th].op = "trimGet" => disk[k] = latest[k] \/ (disk[k] = 0 /\ latest[k] \in expired)
      BY <2>1, <3>1 DEF KeyInOneHand
    <3>4. memory'[k].text \in {0, latest[k]}
      BY <2>1, <2>4 DEF KeyInOneHand
    <3>5. CASE About(d) = {} /\ doing[th].op = "trimGet"
      <4>1. \A o \in Thread : k \notin About(doing'[o])
        BY <3>1, <3>5
      <4> QED
        BY <1>1, <1>4, <2>1, <3>3, <3>4, <3>5, <4>1 DEF KeyInOneHand
    <3>6. CASE About(d) = {q} /\ d.op = "truncate" /\ d.text = doing[th].text
      <4>1. k \in About(doing'[th]) /\ doing'[th].op = "truncate" /\ doing'[th].text = latest[k]
        BY <2>8, <3>1, <3>2, <3>6
      <4> QED
        BY <1>1, <1>4, <2>1, <3>1, <3>2, <3>4, <4>1 DEF KeyInOneHand
    <3> QED
      BY <2>6, <3>5, <3>6
  <2> QED
    BY <2>7, <2>8
<1>24. ASSUME NEW th \in Thread, TrimRaises(th)
       PROVE  KeyInOneHand(k)'
  <2>1. k \notin mixed /\ UNCHANGED <<memory, disk, expired, latest>> /\ doing' = [doing EXCEPT ![th] = Idle]
        /\ k \notin doing[th].keys
    BY <1>24 DEF TrimRaises
  <2>2. About(doing[th]) = doing[th].keys
    BY <1>24, CallShapes DEF TrimRaises
  <2> QED
    BY <1>5, <1>20, <2>1, <2>2
<1>9. ASSUME NEW th \in Thread, NEW q \in Key, SetMemory(th, q)
      PROVE  KeyInOneHand(k)'
  <2>1. PICK d : /\ d.op \in {"trimSet", "truncate"} /\ d.keys = {q} /\ d.text = sets + 1
                 /\ {q} \in SUBSET Key /\ Begin(th, d, {q})
    BY <1>9 DEF SetMemory
  <2>2. /\ About(doing[th]) = {} /\ doing'[th] = d /\ About(doing'[th]) = {q}
        /\ \A o \in Thread \ {th} : doing'[o] = doing[o]
        /\ \A j \in {q} \ mixed' : \A o \in Thread \ {th} : j \notin About(doing[o])
        /\ mixed \subseteq mixed'
    BY <2>1, CallBegins
  <2>3. sets + 1 \in Text /\ sets + 1 \in Nat
    BY <1>9, SizeAssumption DEF SetMemory, CacheTypeOK, Text
  <2>4. memory'[k].text = IF k = q THEN sets + 1 ELSE memory[k].text
    BY <1>2, <1>9 DEF SetMemory
  <2>5. UNCHANGED <<disk, expired>> /\ latest' = [latest EXCEPT ![q] = sets + 1]
    BY <1>9 DEF SetMemory
  <2>6. CASE k # q
    <3>1. latest'[k] = latest[k]
      BY <1>2, <2>5, <2>6
    <3>2. \A o \in Thread : k \in About(doing'[o]) \/ k \in About(doing[o]) => doing'[o] = doing[o]
      BY <2>2, <2>6
    <3> QED
      BY <1>3, <2>2, <2>4, <2>5, <2>6, <3>1, <3>2, KeyUntouched
  <2>7. CASE k = q
    <3>1. latest'[k] = sets + 1
      BY <1>2, <2>5, <2>7
    <3>2. \A o \in Thread : k \in About(doing'[o]) => o = th
      BY <2>2, <2>7
    <3>3. k \in About(doing'[th]) /\ doing'[th].op \in {"trimSet", "truncate"} /\ doing'[th].text = sets + 1
      BY <2>1, <2>2, <2>7
    <3> QED
      BY <1>1, <1>4, <2>3, <2>4, <2>7, <3>1, <3>2, <3>3 DEF KeyInOneHand
  <2> QED
    BY <2>6, <2>7
<1>25. ASSUME NEW th \in Thread, NEW q \in Key, SetTooLarge(th, q)
       PROVE  KeyInOneHand(k)'
  <2>1. k \notin mixed /\ UNCHANGED <<memory, disk, expired, doing, latest>>
    BY <1>25 DEF SetTooLarge
  <2> QED
    BY <1>3, <2>1, KeyUntouched
<1>10. ASSUME NEW th \in Thread, Truncate(th) \/ Write(th)
       PROVE  KeyInOneHand(k)'
  <2>1. k \notin mixed /\ KeyInOneHand(k) /\ UNCHANGED <<memory, expired, latest>>
    BY <1>3, <1>10 DEF Truncate, Write
  <2>2. PICK q \in Key : doing[th].keys = {q}
    BY <1>10, CallShapes DEF Truncate, Write, WorkOps
  <2>3. PICK o, file :
            /\ o \in {"write", "index"}
            /\ doing' = [doing EXCEPT ![th].op = o] /\ doing[th].op \in {"truncate", "write"}
            /\ disk' = [disk EXCEPT ![q] = file]
            /\ o = "write" => file = Broken
            /\ o = "index" => doing[th].op = "write" /\ file \in Written(q, doing[th].text)
    BY <1>10, <2>2 DEF Truncate, Write
  <2>4. /\ doing[th] \in Working /\ About(doing[th]) = {q}
        /\ [doing[th] EXCEPT !.op = o] = [op |-> o, keys |-> {q}, text |-> doing[th].text]
    BY <2>2, <2>3, CallShapes DEF WorkOps
  <2> DEFINE d == [op |-> o, keys |-> {q}, text |-> doing[th].text]
  <2>5. /\ doing' = [doing EXCEPT ![th] = d] /\ About(d) = {q}
        /\ d.op = o /\ d.text = doing[th].text
    BY <2>3, <2>4 DEF About
  <2> HIDE DEF d
  <2>6. disk'[k] = IF k = q THEN file ELSE disk[k]
    BY <1>2, <2>3
  <2>7. CASE k # q
    BY <1>20, <2>1, <2>4, <2>5, <2>6, <2>7
  <2>8. CASE k = q
    <3>1. /\ doing'[th] = d
          /\ \A c \in Thread : k \in About(doing[c]) => c = th
          /\ \A c \in Thread : k \in About(doing'[c]) => c = th
      BY <1>21, <2>1, <2>4, <2>5, <2>8
    <3>2. doing[th].text = latest[k] /\ latest[k] \in Text
      BY <2>1, <2>3, <2>4, <2>8 DEF KeyInOneHand
    <3>3. o = "index" => disk'[k] = latest[k]
      <4>1. doing[th].op = "write" => disk[k] = Broken
        BY <2>1, <2>4, <2>8 DEF KeyInOneHand
      <4> QED
        BY <2>3, <2>6, <2>8, <3>2, <4>1 DEF Written
    <3>4. k \in About(doing'[th]) /\ doing'[th].op = o /\ doing'[th].text = latest[k]
      BY <2>5, <2>8, <3>1, <3>2
    <3>5. o = "write" => disk'[k] = Broken
      BY <2>3, <2>6, <2>8
    <3>6. o \in {"write", "index"}
      BY <2>3
    <3> QED
      BY <1>1, <1>4, <2>1, <3>1, <3>2, <3>3, <3>4, <3>5, <3>6 DEF KeyInOneHand
  <2> QED
    BY <2>7, <2>8
<1>11. ASSUME NEW th \in Thread, WriteFails(th)
       PROVE  KeyInOneHand(k)'
  <2>1. k \notin mixed /\ UNCHANGED <<memory, disk, expired, latest>> /\ k \notin doing[th].keys
        /\ doing' = [doing EXCEPT ![th] = [doing[th] EXCEPT !.op = "index"]]
        /\ doing[th].op \in {"truncate", "write"}
    BY <1>11 DEF WriteFails
  <2>2. /\ About(doing[th]) = doing[th].keys
        /\ [doing[th] EXCEPT !.op = "index"]
             = [op |-> "index", keys |-> doing[th].keys, text |-> doing[th].text]
    BY <2>1, CallShapes DEF WorkOps
  <2>3. About([doing[th] EXCEPT !.op = "index"]) = doing[th].keys
    BY <2>2 DEF About
  <2> QED
    BY <1>20, <2>1, <2>2, <2>3
<1>26. ASSUME NEW th \in Thread, NEW d, doing' = [doing EXCEPT ![th] = d],
              doing[th].op \in {"index", "saving"},
              d = Idle \/ (d.op = "saving" /\ d.keys = doing[th].keys /\ d.text = doing[th].text),
              UNCHANGED <<memory, disk, expired, latest, mixed>>
       PROVE  KeyInOneHand(k)'
  <2>1. k \notin mixed /\ KeyInOneHand(k)
    BY <1>3, <1>26
  <2>2. PICK q \in Key : doing[th].keys = {q}
    BY <1>26, CallShapes DEF WorkOps
  <2>3. About(doing[th]) = {q}
    BY <1>26, <2>2, CallShapes
  <2>4. About(d) = {} \/ (About(d) = {q} /\ d.op = "saving" /\ d.text = doing[th].text)
    BY <1>5, <1>26, <2>2 DEF About
  <2>5. CASE k # q
    BY <1>20, <1>26, <2>1, <2>3, <2>4, <2>5
  <2>6. CASE k = q
    <3>1. /\ doing'[th] = d
          /\ \A c \in Thread : k \in About(doing[c]) => c = th
          /\ \A c \in Thread : k \in About(doing'[c]) => c = th
      BY <1>21, <1>26, <2>1, <2>3, <2>4, <2>6
    <3>2. doing[th].text = latest[k] /\ latest[k] \in Text
      BY <1>26, <2>1, <2>3, <2>6 DEF KeyInOneHand
    <3>3. disk[k] = latest[k] \/ (disk[k] = 0 /\ latest[k] \in expired)
      BY <1>26, <2>1, <3>1 DEF KeyInOneHand
    <3> QED
      BY <1>1, <1>4, <1>26, <2>1, <2>4, <3>1, <3>2, <3>3 DEF KeyInOneHand
  <2> QED
    BY <2>5, <2>6
<1>12. ASSUME NEW th \in Thread, SaveIndex(th) \/ WriteIndex(th) \/ IndexFails(th)
       PROVE  KeyInOneHand(k)'
  <2>1. PICK d : /\ doing' = [doing EXCEPT ![th] = d]
                 /\ d = Idle \/ (d.op = "saving" /\ d.keys = doing[th].keys /\ d.text = doing[th].text)
    BY <1>12 DEF SaveIndex, WriteIndex, IndexFails
  <2>2. doing[th].op \in {"index", "saving"} /\ UNCHANGED <<memory, disk, expired, latest, mixed>>
    BY <1>12 DEF SaveIndex, WriteIndex, IndexFails
  <2> QED
    BY <1>26, <2>1, <2>2
<1>13. ASSUME NEW th \in Thread, NEW keys \in SUBSET Key,
              Begin(th, [op |-> "unlink", keys |-> keys], keys),
              UNCHANGED <<disk, expired>>,
              memory'[k].text = IF k \in keys THEN 0 ELSE memory[k].text,
              latest'[k] = IF k \in keys THEN 0 ELSE latest[k]
       PROVE  KeyInOneHand(k)'
  <2> DEFINE d == [op |-> "unlink", keys |-> keys]
  <2>1. d.op = "unlink" /\ d.keys = keys /\ Begin(th, d, keys)
    BY <1>13
  <2> HIDE DEF d
  <2>3. /\ About(doing[th]) = {} /\ doing'[th] = d /\ About(doing'[th]) = keys
        /\ \A o \in Thread \ {th} : doing'[o] = doing[o]
        /\ \A j \in keys \ mixed' : \A o \in Thread \ {th} : j \notin About(doing[o])
        /\ mixed \subseteq mixed'
    BY <2>1, CallBegins
  <2>4. CASE k \notin keys
    <3>1. \A o \in Thread : k \in About(doing'[o]) \/ k \in About(doing[o]) => doing'[o] = doing[o]
      BY <2>3, <2>4
    <3> QED
      BY <1>3, <1>13, <2>3, <2>4, <3>1, KeyUntouched
  <2>5. CASE k \in keys
    <3>1. \A o \in Thread : k \in About(doing'[o]) => o = th
      BY <2>3, <2>5
    <3>2. k \in About(doing'[th]) /\ doing'[th].op = "unlink"
      BY <2>1, <2>3, <2>5
    <3> QED
      BY <1>1, <1>4, <1>13, <2>5, <3>1, <3>2 DEF KeyInOneHand
  <2> QED
    BY <2>4, <2>5
<1>14. ASSUME NEW th \in Thread, NEW q \in Key, Invalidate(th, q)
       PROVE  KeyInOneHand(k)'
  <2>1. {q} \in SUBSET Key /\ Begin(th, [op |-> "unlink", keys |-> {q}], {q}) /\ UNCHANGED <<disk, expired>>
    BY <1>14 DEF Invalidate
  <2>2. memory'[k].text = IF k \in {q} THEN 0 ELSE memory[k].text
    BY <1>14 DEF Invalidate, Forgotten
  <2>3. latest'[k] = IF k \in {q} THEN 0 ELSE latest[k]
    BY <1>2, <1>14 DEF Invalidate
  <2> QED
    BY <1>13, <2>1, <2>2, <2>3
<1>15. ASSUME NEW th \in Thread, Clear(th)
       PROVE  KeyInOneHand(k)'
  <2>1. Key \in SUBSET Key /\ Begin(th, [op |-> "unlink", keys |-> Key], Key) /\ UNCHANGED <<disk, expired>>
    BY <1>15 DEF Clear
  <2>2. memory'[k].text = 0 /\ latest'[k] = 0
    BY <1>15 DEF Clear, Empty
  <2> QED
    BY <1>13, <2>1, <2>2
<1>16. ASSUME NEW th \in Thread, Unlink(th)
       PROVE  KeyInOneHand(k)'
  <2>1. k \notin mixed /\ KeyInOneHand(k) /\ UNCHANGED <<memory, expired, latest>>
    BY <1>3, <1>16 DEF Unlink
  <2>2. /\ doing[th].op = "unlink" /\ doing'[th] = Idle /\ About(doing'[th]) = {}
        /\ \A c \in Thread \ {th} : doing'[c] = doing[c]
    BY <1>2, <1>5, <1>16 DEF Unlink
  <2>3. About(doing[th]) = doing[th].keys
    BY <2>2, CallShapes
  <2>4. disk'[k] = IF k \in doing[th].keys THEN 0 ELSE disk[k]
    BY <1>16 DEF Unlink
  <2>5. CASE k \notin About(doing[th])
    <3>1. \A c \in Thread : k \in About(doing'[c]) \/ k \in About(doing[c]) => doing'[c] = doing[c]
      BY <2>2, <2>5
    <3> QED
      BY <2>1, <2>3, <2>4, <2>5, <3>1, KeyUntouched
  <2>6. CASE k \in About(doing[th])
    <3>1. \A c \in Thread : k \notin About(doing'[c])
      BY <2>1, <2>2, <2>6 DEF KeyInOneHand
    <3>2. latest[k] = 0 /\ disk'[k] = 0
      BY <2>1, <2>2, <2>3, <2>4, <2>6 DEF KeyInOneHand
    <3> QED
      BY <1>4, <2>1, <3>1, <3>2 DEF KeyInOneHand
  <2> QED
    BY <2>5, <2>6
<1>27. ASSUME NEW th \in Thread, UnlinkFails(th)
       PROVE  KeyInOneHand(k)'
  <2>1. k \notin mixed /\ UNCHANGED <<memory, expired, latest>> /\ doing' = [doing EXCEPT ![th] = Idle]
        /\ k \notin doing[th].keys
    BY <1>27 DEF UnlinkFails
  <2>2. disk'[k] = disk[k]
    BY <1>2, <1>27, <2>1 DEF UnlinkFails
  <2>3. About(doing[th]) = doing[th].keys
    BY <1>27, CallShapes DEF UnlinkFails
  <2> QED
    BY <1>5, <1>20, <2>1, <2>2, <2>3
<1>17. CASE CrashAndRestart
  <2>1. /\ k \notin mixed /\ UNCHANGED <<disk, expired, latest>>
        /\ doing' = [th \in Thread |-> Idle]
        /\ \A th \in Thread : k \notin About(doing[th])
    BY <1>17 DEF CrashAndRestart
  <2>2. PICK keys \in SUBSET index : memory' = Loaded(keys)
    BY <1>17 DEF CrashAndRestart
  <2>3. memory'[k].text \in {0, disk[k]} /\ (memory'[k].text # 0 => disk[k] \in Text)
    BY <2>2 DEF Loaded
  <2>4. disk[k] = latest[k] \/ (disk[k] = 0 /\ latest[k] \in expired)
    BY <1>3, <2>1 DEF KeyInOneHand
  <2>5. \A th \in Thread : k \notin About(doing'[th])
    BY <1>5, <2>1
  <2> QED
    BY <1>1, <1>4, <2>1, <2>3, <2>4, <2>5 DEF KeyInOneHand
<1>18. CASE UNCHANGED cacheVars
  <2>1. k \notin mixed /\ UNCHANGED <<memory, disk, expired, doing, latest>>
    BY <1>18 DEF cacheVars
  <2> QED
    BY <1>3, <2>1, KeyUntouched
<1> QED
  BY <1>6, <1>7, <1>8, <1>9, <1>10, <1>11, <1>12, <1>14, <1>15, <1>16, <1>17, <1>18, <1>22, <1>23,
     <1>24, <1>25, <1>27 DEF CacheNext

\* Whatever is evicted, loaded, expired or lost in a crash, a key whose calls
\* neither overlapped nor failed has the last text stored for it or none (get,
\* set, invalidate, clear, _load_index).
THEOREM CacheCoherent == CacheSpec => []Coherent
<1>1. CacheInit => OneHand
  BY DEF CacheInit, OneHand, KeyInOneHand, Empty, None, About, Idle
<1>2. CacheTypeOK /\ OneHand /\ [CacheNext]_cacheVars => OneHand'
  BY OneHandSteps
<1>3. OneHand => Coherent
  BY DEF OneHand, KeyInOneHand, Coherent
<1> QED
  BY <1>1, <1>2, <1>3, CacheTyped, PTL DEF CacheSpec

=============================================================================
