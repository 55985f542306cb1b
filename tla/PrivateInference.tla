--------------------------- MODULE PrivateInference ---------------------------
(***************************************************************************)
(* Every way a text takes to a model past PrivacyEngine: zilli/hybrid       *)
(* (PrivacyGatekeeper.decide, HybridExecutor.execute) with users who give   *)
(* and revoke consent and an operator who sets policies in a PolicyStore    *)
(* kept in a file, the endpoints of zilli/server/app.py, and                *)
(* zilli/privacy/sandbox.py with its budget.                                *)
(***************************************************************************)
EXTENDS PrivacyEngine, Sequences

CONSTANTS
    Text,       \* prompts and queries
    Provider,   \* cloud providers
    Policy,     \* policies the operator sets
    Default,    \* DataGovernancePolicy()
    RoleModels, \* where the models of the roles run: ModelConfig.deployment
    Total,      \* total_epsilon of the sandbox
    Cost,       \* epsilons of its queries
    MaxDepth,   \* bound: queries made by the handlers of queries
    MaxFaults   \* bound: errors and crashes while policies are saved

NoProvider == "no provider"

ASSUME TextAssumption == Text \subseteq Texts
ASSUME PolicyAssumption ==
    /\ Policy \subseteq Policies(Provider)
    /\ Default \in Policies(Provider)
    /\ Default.maxClass = Confidential
    /\ NoProvider \notin Provider
ASSUME DeploymentAssumption == RoleModels \subseteq {"local", "cloud"}
ASSUME SandboxAssumption == Total \in Nat /\ Cost \subseteq Nat /\ MaxDepth \in Nat \ {0} /\ MaxFaults \in Nat

VARIABLES
    policy,    \* the tenant's policy in memory
    file,      \* the policy file
    up,        \* whether the process runs
    consented, \* the uses the user consents to
    request,   \* the request of HybridExecutor.execute
    last,      \* history: the last text handed to a model
    status,    \* of the sandbox
    used,      \* used_epsilon
    open,      \* epsilons of the queries whose handler runs, the last one innermost
    nested,    \* history: a handler has queried the sandbox
    faults

requestVars == <<request, last>>
sandboxVars == <<status, used, open, nested>>
vars == <<policy, file, up, consented, request, last, status, used, open, nested, faults>>

Idle == [phase |-> "none"]
Nothing == [by |-> "nobody"]
Absent == [state |-> "absent"]
Broken == [state |-> "broken"]
Stored(p) == [state |-> "whole", policy |-> p]

Init ==
    /\ policy = Default
    /\ file = Absent
    /\ up = TRUE
    /\ consented = {}
    /\ request = Idle
    /\ last = Nothing
    /\ status = "created"
    /\ used = 0
    /\ open = <<>>
    /\ nested = FALSE
    /\ faults = 0

-----------------------------------------------------------------------------
(* Consent and policies *)

ChangeConsent ==
    /\ up
    /\ \E uses \in SUBSET {"local", "cloud"} : uses # consented /\ consented' = uses
    /\ UNCHANGED <<policy, file, up, requestVars, sandboxVars, faults>>

\* The memory changes first; an error while writing leaves it ahead of the file.
SetPolicy(p) ==
    /\ up
    /\ policy' = p
    /\ \/ file' = Stored(p) /\ UNCHANGED faults
       \/ file' \in {file, Broken} /\ faults < MaxFaults /\ faults' = faults + 1
    /\ UNCHANGED <<up, consented, requestVars, sandboxVars>>

\* The process dies, perhaps while it rewrites the policy file.
Crash ==
    /\ up
    /\ faults < MaxFaults
    /\ faults' = faults + 1
    /\ up' = FALSE
    /\ file' \in {file, Broken}
    /\ request' = Idle
    /\ status' = "created"
    /\ used' = 0
    /\ open' = <<>>
    /\ nested' = FALSE
    /\ UNCHANGED <<policy, consented, last>>

\* _load raises on a broken file, and the process cannot start.
Restart ==
    /\ ~up
    /\ file.state # "broken"
    /\ up' = TRUE
    /\ policy' = IF file.state = "absent" THEN Default ELSE file.policy
    /\ UNCHANGED <<file, consented, requestVars, sandboxVars, faults>>

-----------------------------------------------------------------------------
(* The gatekeeper and the executor *)

Verdict(t, user, mode, cloud) == Evaluate(t, mode, cloud, user, consented, policy)

\* A decision is a target and the verdict whose text is used.
Decide(t, user, preferred) ==
    LET verdict == Verdict(t, user, "auto", FALSE)
        strict == Verdict(t, user, "strict", TRUE)
        allowed == preferred = NoProvider \/ preferred \in policy.providers
    IN  IF DataClass(t) >= Restricted
          THEN IF strict.canCloud /\ allowed
                 THEN [target |-> "cloud", verdict |-> strict]
                 ELSE [target |-> "rejected", verdict |-> verdict]
          ELSE [target |-> CASE verdict.canCloud /\ verdict.canLocal /\ preferred # NoProvider -> "fallback"
                             [] verdict.canLocal /\ ~(verdict.canCloud /\ preferred # NoProvider) -> "local"
                             [] OTHER -> "rejected",
                verdict |-> verdict]

\* What path a text was handed over on, to a model running where.
Sent(by, t, user, sanitized, where) ==
    [by |-> by, text |-> t, sanitized |-> sanitized, where |-> where,
     consent |-> user => where \in consented]

\* The decision and the start of the first call, with no await between them.
Execute(t, user, preferred) ==
    LET decision == Decide(t, user, preferred)
        where == IF decision.target = "cloud" THEN "cloud" ELSE "local"
    IN  /\ up
        /\ request = Idle
        /\ IF decision.target = "rejected"
             THEN UNCHANGED requestVars
             ELSE /\ request' = [phase |-> where, text |-> t, user |-> user, decision |-> decision]
                  /\ last' = Sent("hybrid", t, user, decision.verdict.sanitized, where)
        /\ UNCHANGED <<policy, file, up, consented, sandboxVars, faults>>

\* generate_local and generate_cloud: the first healthy model of the deployment
\* answers.
CallAnswers ==
    /\ up
    /\ request # Idle
    /\ request' = Idle
    /\ UNCHANGED <<policy, file, up, consented, last, sandboxVars, faults>>

\* No model answers, or one with an error; a decision for both targets then
\* tries the cloud, with the text as it was decided.
CallFails ==
    /\ up
    /\ request # Idle
    /\ IF request.phase = "local" /\ request.decision.target = "fallback"
         THEN /\ request' = [request EXCEPT !.phase = "cloud"]
              /\ last' = Sent("hybrid", request.text, request.user, request.decision.verdict.sanitized, "cloud")
         ELSE request' = Idle /\ UNCHANGED last
    /\ UNCHANGED <<policy, file, up, consented, sandboxVars, faults>>

-----------------------------------------------------------------------------
(* The server, whose engine has the default policy and knows no users *)

\* A text the engine does not pass is refused, the others go to the router,
\* which asks the registry for a model of a role: generate looks at the role and
\* not at where its model runs.
Admit(by, t) ==
    LET verdict == Evaluate(t, "auto", FALSE, FALSE, {}, Default)
    IN  /\ up
        /\ verdict.passed
        /\ \E where \in RoleModels : last' = Sent(by, t, FALSE, verdict.sanitized, where)
        /\ UNCHANGED <<policy, file, up, consented, request, sandboxVars, faults>>

Route(t) == Admit("route", t)
ChatCompletions(t) == Admit("chat", t)
StreamChat(t) == Admit("stream", t)

\* /v1/industry evaluates nothing and sanitizes unless the caller declines.
ServeIndustry(t, sanitize) ==
    /\ up
    /\ \E where \in RoleModels : last' = Sent("industry", t, FALSE, sanitize, where)
    /\ UNCHANGED <<policy, file, up, consented, request, sandboxVars, faults>>

-----------------------------------------------------------------------------
(* The sandbox *)

Activate ==
    /\ up
    /\ status' = "active"
    /\ UNCHANGED <<policy, file, up, consented, requestVars, used, open, nested, faults>>

Destroy ==
    /\ up
    /\ status' = "destroyed"
    /\ UNCHANGED <<policy, file, up, consented, requestVars, used, open, nested, faults>>

\* _check_budget.
WithinBudget_Exhausted(epsilon) == used < Total
WithinBudget(epsilon) == used < Total /\ used + epsilon <= Total

\* execute up to the handler, which may query the sandbox itself; with its
\* default configuration a sandbox takes public texts only.
Query(t, epsilon) ==
    /\ up
    /\ status = "active"
    /\ Len(open) < MaxDepth
    /\ WithinBudget(epsilon)
    /\ DataClass(t) = Public
    /\ open' = Append(open, epsilon)
    /\ nested' = (nested \/ open # <<>>)
    /\ UNCHANGED <<policy, file, up, consented, requestVars, status, used, faults>>

Innermost == open[Len(open)]
Outer == SubSeq(open, 1, Len(open) - 1)

\* The handler returns: only now is the query charged.
HandlerReturns ==
    /\ up
    /\ open # <<>>
    /\ used' = used + Innermost
    /\ open' = Outer
    /\ UNCHANGED <<policy, file, up, consented, requestVars, status, nested, faults>>

\* A handler that raises or takes too long is charged nothing.
HandlerFails ==
    /\ up
    /\ open # <<>>
    /\ status' = "failed"
    /\ open' = Outer
    /\ UNCHANGED <<policy, file, up, consented, requestVars, used, nested, faults>>

Next ==
    \/ ChangeConsent
    \/ \E p \in Policy : SetPolicy(p)
    \/ Crash
    \/ Restart
    \/ \E t \in Text, user \in BOOLEAN, p \in Provider \union {NoProvider} : Execute(t, user, p)
    \/ CallAnswers
    \/ CallFails
    \/ \E t \in Text : Route(t) \/ ChatCompletions(t) \/ StreamChat(t)
    \/ \E t \in Text, sanitize \in BOOLEAN : ServeIndustry(t, sanitize)
    \/ Activate
    \/ Destroy
    \/ \E t \in Text, epsilon \in Cost : Query(t, epsilon)
    \/ HandlerReturns
    \/ HandlerFails

Spec == Init /\ [][Next]_vars

-----------------------------------------------------------------------------
(* Properties *)

\* The type invariant; the request is typed as far as its call goes.
TypeOK ==
    /\ policy \in Policies(Provider)
    /\ file \in {Absent, Broken} \union {Stored(p) : p \in Policies(Provider)}
    /\ up \in BOOLEAN
    /\ consented \subseteq {"local", "cloud"}
    /\ request.phase \in {"none", "local", "cloud"}
    /\ last.by \in {"nobody", "hybrid", "route", "chat", "stream", "industry"}
    /\ status \in {"created", "active", "failed", "destroyed"}
    /\ used \in Nat
    /\ open \in Seq(Cost)
    /\ Len(open) <= MaxDepth
    /\ nested \in BOOLEAN
    /\ faults \in 0..MaxFaults

\* Outside the industry workflows no restricted or regulated text reaches a
\* model, and a confidential one only sanitized. What passes the gatekeeper stays
\* with local models, whatever consents and policies change while a call is under
\* way, and its user has consented at the moment the call starts. An endpoint's
\* text goes wherever the model of its role runs, to the cloud too: there the
\* class and the sanitizing are all that is promised (decide, execute, route,
\* chat_completions, _stream_chat, ModelRegistry.generate).
SensitiveStaysHome ==
    /\ last.by \in {"hybrid", "route", "chat", "stream"} =>
          /\ DataClass(last.text) <= Confidential
          /\ RequiresSanitization(last.text) => last.sanitized
    /\ last.by = "hybrid" => last.where = "local" /\ last.consent

\* The budget of the sandbox is never overspent, whatever order of activation,
\* failure and destruction, as long as no handler queries the sandbox it runs
\* for; with nested queries the excess stays below what was open at once
\* (_check_budget before the handler, the charge after it).
BudgetHolds ==
    /\ ~nested => used <= Total
    /\ \A c \in Cost : (\A d \in Cost : d <= c) => used <= Total + (MaxDepth - 1) * c

=============================================================================
