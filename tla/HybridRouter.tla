------------------------------ MODULE HybridRouter ------------------------------
(***************************************************************************)
(* zilli/routing/router.py: LocalHybridRouter.run, with the PlannerBudget   *)
(* of zilli/envs/planner_budget.py that it consults and the fallback loop   *)
(* of ModelRegistry.generate in zilli/models/registry.py that it awaits.    *)
(*                                                                         *)
(* A slot is a coroutine of the server that runs one request after another. *)
(* Steps end at an await: other slots move between may_use_planner, the     *)
(* reply of the planner and record_call.  Texts are abstracted to whether   *)
(* the reply carries an error.  What CacheEngine holds is left open: a      *)
(* lookup may hit, in which case the reply comes without any model; the     *)
(* steps after a hit are separate here, though the code does not suspend    *)
(* there, so the model has a few more interleavings than the event loop.    *)
(***************************************************************************)
EXTENDS Naturals, Sequences, FiniteSets

CONSTANTS
    Slots,       \* coroutines that call run concurrently
    Models,      \* registered models
    Chain,       \* role -> its models, in the order generate tries them
    Reliable,    \* models that are healthy and answer, always
    Window,      \* PlannerBudget._window_size
    RatioNum, RatioDen   \* PlannerBudget._max_ratio = RatioNum / RatioDen

Roles == {"planner", "executor", "reviewer"}

ASSUME SlotsAssumption  == IsFiniteSet(Slots)
ASSUME ChainAssumption  == Chain \in [Roles -> Seq(Models)]
ASSUME WindowAssumption == Window \in Nat \ {0}
ASSUME RatioAssumption  == RatioNum \in Nat /\ RatioDen \in Nat \ {0}

VARIABLES
    calls,      \* PlannerBudget._calls
    stage,      \* which awaited call of run each slot is in
    phase,      \* what that call awaits: a cached entry, a health check, a generation
    at,         \* position in Chain of the model being asked
    answer,     \* the RouteResult of the slot's last request
    recorded,   \* history: the roles this request recorded, in order
    errorReply  \* history: some model returned an error instead of raising it

vars == <<calls, stage, phase, at, answer, recorded, errorReply>>

Stages == {"idle", "fast", "direct", "plan", "execute", "review"}
Role(st) == CASE st = "plan"   -> "planner"
              [] st = "review" -> "reviewer"
              [] OTHER         -> "executor"

\* RouteResult: the classifier's decision, the route taken, and the role whose
\* failure the error reports.
NoAnswer == [decision |-> "none", route |-> "none", error |-> "none"]
Answers  == [decision : {"none", "fast_lane", "full_route"},
             route    : {"none", "fast_lane", "full_route"},
             error    : {"none", "planner", "executor"}]

TypeOK ==
    /\ calls \in Seq({"planner", "executor"})
    /\ Len(calls) <= Window
    /\ stage \in [Slots -> Stages]
    /\ phase \in [Slots -> {"none", "cached", "health", "generate"}]
    /\ at \in [Slots -> Nat]
    /\ answer \in [Slots -> Answers]
    /\ recorded \in [Slots -> Seq({"planner", "executor"})]
    /\ errorReply \in [Slots -> BOOLEAN]

Init ==
    /\ calls = <<>>
    /\ stage = [s \in Slots |-> "idle"]
    /\ phase = [s \in Slots |-> "none"]
    /\ at = [s \in Slots |-> 0]
    /\ answer = [s \in Slots |-> NoAnswer]
    /\ recorded = [s \in Slots |-> <<>>]
    /\ errorReply = [s \in Slots |-> FALSE]

-----------------------------------------------------------------------------
(***************************************************************************)
(* PlannerBudget.                                                          *)
(***************************************************************************)
PlannerCalls(log) == {i \in 1..Len(log) : log[i] = "planner"}

MayUsePlanner_RatioOfWindow ==
    calls = <<>> \/ Cardinality(PlannerCalls(calls)) * RatioDen < RatioNum * Window

\* ratio < max_ratio, over the calls now in the window.
MayUsePlanner ==
    calls = <<>> \/ Cardinality(PlannerCalls(calls)) * RatioDen < RatioNum * Len(calls)

\* A deque(maxlen=Window) drops its oldest entry.
WithCall(role) == Append(IF Len(calls) < Window THEN calls ELSE Tail(calls), role)

RecordCall(s, role) ==
    /\ calls' = WithCall(role)
    /\ recorded' = [recorded EXCEPT ![s] = Append(@, role)]

NoRecord == UNCHANGED <<calls, recorded>>

-----------------------------------------------------------------------------
(***************************************************************************)
(* LocalHybridRouter.run.                                                  *)
(***************************************************************************)

\* Await _with_cache: the cache answers at once or the first model is checked.
Enter(s, st) ==
    /\ stage' = [stage EXCEPT ![s] = st]
    /\ at' = [at EXCEPT ![s] = 1]
    /\ \E p \in {"cached", "health"} : phase' = [phase EXCEPT ![s] = p]

Finish(s, decision, route, error) ==
    /\ stage' = [stage EXCEPT ![s] = "idle"]
    /\ phase' = [phase EXCEPT ![s] = "none"]
    /\ at' = [at EXCEPT ![s] = 0]
    /\ answer' = [answer EXCEPT ![s] = [decision |-> decision, route |-> route, error |-> error]]

ExecutorError(ok) == IF ok THEN "none" ELSE "executor"

\* A request arrives at a free slot; route is the classifier's decision, or
\* force_full_route.
Arrive(s, route) ==
    /\ stage[s] = "idle"
    /\ Enter(s, IF route = "fast_lane" THEN "fast"
                ELSE IF MayUsePlanner THEN "plan" ELSE "direct")
    /\ answer' = [answer EXCEPT ![s] = NoAnswer]
    /\ recorded' = [recorded EXCEPT ![s] = <<>>]
    /\ errorReply' = [errorReply EXCEPT ![s] = FALSE]
    /\ UNCHANGED calls

FastReply(s, ok) ==
    /\ stage[s] = "fast"
    /\ NoRecord
    /\ Finish(s, "fast_lane", "fast_lane", ExecutorError(ok))

\* The budget was exceeded: one executor call, recorded whatever it returned.
DirectReply_Unrecorded(s, ok) ==
    /\ stage[s] = "direct"
    /\ NoRecord
    /\ Finish(s, "full_route", "fast_lane", ExecutorError(ok))

DirectReply(s, ok) ==
    /\ stage[s] = "direct"
    /\ RecordCall(s, "executor")
    /\ Finish(s, "full_route", "fast_lane", ExecutorError(ok))

\* plan raises on an error reply and run answers with the error; the planner's
\* call is then not recorded.
PlanReply(s, ok) ==
    /\ stage[s] = "plan"
    /\ \/ ok /\ RecordCall(s, "planner") /\ Enter(s, "execute") /\ UNCHANGED answer
       \/ ~ ok /\ NoRecord /\ Finish(s, "full_route", "full_route", "planner")

ExecuteReply_RecordsError(s, ok) ==
    /\ stage[s] = "execute"
    /\ RecordCall(s, "executor")
    /\ \/ ok /\ Enter(s, "review") /\ UNCHANGED answer
       \/ ~ ok /\ Finish(s, "full_route", "full_route", "executor")

ExecuteReply(s, ok) ==
    /\ stage[s] = "execute"
    /\ \/ ok /\ RecordCall(s, "executor") /\ Enter(s, "review") /\ UNCHANGED answer
       \/ ~ ok /\ NoRecord /\ Finish(s, "full_route", "full_route", "executor")

\* review falls back to the draft when the reviewer fails.
ReviewReply(s, ok) ==
    /\ stage[s] = "review"
    /\ NoRecord
    /\ Finish(s, "full_route", "full_route", "none")

Reply(s, ok) ==
    \/ FastReply(s, ok)
    \/ DirectReply(s, ok)
    \/ PlanReply(s, ok)
    \/ ExecuteReply(s, ok)
    \/ ReviewReply(s, ok)

-----------------------------------------------------------------------------
(***************************************************************************)
(* ModelRegistry.generate, awaited by the slot.                            *)
(***************************************************************************)
Asked(s) == Chain[Role(stage[s])]
Exhausted(s) == at[s] > Len(Asked(s))
MayFail(s) == Asked(s)[at[s]] \notin Reliable

CacheHit(s) ==
    /\ phase[s] = "cached"
    /\ Reply(s, TRUE)
    /\ UNCHANGED errorReply

Healthy(s) ==
    /\ phase[s] = "health" /\ ~ Exhausted(s)
    /\ phase' = [phase EXCEPT ![s] = "generate"]
    /\ UNCHANGED <<calls, stage, at, answer, recorded, errorReply>>

NextModel_Same(s) ==
    /\ phase' = [phase EXCEPT ![s] = "health"]
    /\ UNCHANGED <<calls, stage, at, answer, recorded, errorReply>>

NextModel_Stops(s) ==
    /\ at' = [at EXCEPT ![s] = Len(Asked(s)) + 1]
    /\ phase' = [phase EXCEPT ![s] = "health"]
    /\ UNCHANGED <<calls, stage, answer, recorded, errorReply>>

NextModel(s) ==
    /\ at' = [at EXCEPT ![s] = @ + 1]
    /\ phase' = [phase EXCEPT ![s] = "health"]
    /\ UNCHANGED <<calls, stage, answer, recorded, errorReply>>

\* health_check returned False or raised.
Unhealthy(s) ==
    /\ phase[s] = "health" /\ ~ Exhausted(s) /\ MayFail(s)
    /\ NextModel(s)

GenerateRaises(s) ==
    /\ phase[s] = "generate" /\ MayFail(s)
    /\ NextModel(s)

Generates(s) ==
    /\ phase[s] = "generate"
    /\ Reply(s, TRUE)
    /\ UNCHANGED errorReply

\* The backends catch their exceptions and return a result with an error, which
\* generate hands on without trying the next model.
GenerateReturnsError(s) ==
    /\ phase[s] = "generate" /\ MayFail(s)
    /\ Reply(s, FALSE)
    /\ errorReply' = [errorReply EXCEPT ![s] = TRUE]

AllModelsFailed(s) ==
    /\ phase[s] = "health" /\ Exhausted(s)
    /\ Reply(s, FALSE)
    /\ UNCHANGED errorReply

Progress(s) ==
    \/ CacheHit(s)
    \/ Healthy(s)
    \/ Unhealthy(s)
    \/ GenerateRaises(s)
    \/ Generates(s)
    \/ GenerateReturnsError(s)
    \/ AllModelsFailed(s)

Next ==
    \/ \E s \in Slots, route \in {"fast_lane", "full_route"} : Arrive(s, route)
    \/ \E s \in Slots : Progress(s)

Spec == Init /\ [][Next]_vars

\* Awaited models answer (the backends' clients time out) and requests for the
\* full route keep coming.
FairSpec ==
    /\ Spec
    /\ \A s \in Slots : WF_vars(Progress(s))
    /\ \A s \in Slots : SF_vars(Arrive(s, "full_route"))

-----------------------------------------------------------------------------
(***************************************************************************)
(* Properties.                                                             *)
(***************************************************************************)
Planning == {s \in Slots : stage[s] = "plan"}

\* The check and the record are an await apart, so concurrent requests overrun
\* the ratio, but never by more than one planner call per slot, counting the
\* calls still under way.
OverrunBound ==
    RatioDen * (Cardinality(PlannerCalls(calls)) + Cardinality(Planning))
        <= RatioNum * Len(calls) + RatioDen * Cardinality(Slots)

\* What run records for a request that ended in this answer.
RecordFor(a) ==
    CASE a.decision = "fast_lane"                      -> <<>>
      [] a.decision # a.route                          -> <<"executor">>
      [] a.route = "full_route" /\ a.error = "planner"  -> <<>>
      [] a.route = "full_route" /\ a.error = "executor" -> <<"planner">>
      [] OTHER                                         -> <<"planner", "executor">>

\* The answer of a request tells exactly which calls it left in the budget, in
\* which order and each once: nothing for the fast lane, failed or not, and for
\* a failed plan; the executor for a request the budget turned away, whatever
\* the executor returned; the planner alone if the execution failed; and both,
\* also when the review failed and the draft was returned.  Until then nothing
\* is answered, and a request that waits for a plan has recorded nothing.
AnswerMatchesRecord ==
    \A s \in Slots :
        /\ answer[s] # NoAnswer => stage[s] = "idle" /\ recorded[s] = RecordFor(answer[s])
        /\ stage[s] = "plan" => recorded[s] = <<>>

HasReliable(role) == \E i \in DOMAIN Chain[role] : Chain[role][i] \in Reliable

\* Whatever models are down or raise, a request fails only if some role it
\* needs has no reliable model or a model returned its error as a result.
FailsOnlyWithoutModels ==
    \A s \in Slots :
        answer[s].error # "none" => errorReply[s] \/ ~ HasReliable("planner") \/ ~ HasReliable("executor")

\* Every request is answered.
RequestsAnswered == \A s \in Slots : stage[s] # "idle" ~> stage[s] = "idle"

\* A budget that blocks the planner reopens, because each request that falls
\* back to the executor is recorded and pushes planner calls out of the window.
BudgetReopens == []<>MayUsePlanner

=============================================================================
