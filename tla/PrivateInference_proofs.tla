------------------------ MODULE PrivateInference_proofs ------------------------
(***************************************************************************)
(* Proofs about PrivateInference for every set of texts, providers and      *)
(* policies, every budget and cost, and every depth of nested queries, and  *)
(* about the Server in front of it, for every number of clients and tenants.*)
(***************************************************************************)
EXTENDS PrivateInference, Server, SequenceTheorems, FiniteSetTheorems, WellFoundedInduction, TLAPS

\* classify chooses one of the classes of a text, and no class is above it.
LEMMA ClassOfText ==
    ASSUME NEW t \in Text
    PROVE  DataClass(t) \in Class
<1> DEFINE S == t.pii \union {t.keyword}
           k == t.keyword
<1>1. S \subseteq 0..4 /\ k \in S
    BY TextAssumption DEF Texts, Class, Public, Regulated, Confidential
<1>2. \E c \in S : \A d \in S : d <= c
    <2> HIDE DEF S, k
    <2>1. CASE 4 \in S
        BY <1>1, <2>1
    <2>2. CASE 4 \notin S /\ 3 \in S
        BY <1>1, <2>2
    <2>3. CASE 4 \notin S /\ 3 \notin S /\ 2 \in S
        BY <1>1, <2>3
    <2>4. CASE 4 \notin S /\ 3 \notin S /\ 2 \notin S /\ 1 \in S
        BY <1>1, <2>4
    <2>5. CASE 4 \notin S /\ 3 \notin S /\ 2 \notin S /\ 1 \notin S
        <3>1. ASSUME NEW d \in S
              PROVE  d = 0
            <4>1. d \in 0..4 /\ d # 4 /\ d # 3 /\ d # 2 /\ d # 1
                BY <1>1, <2>5
            <4> QED
                BY <4>1
        <3>2. k = 0 /\ \A d \in S : d <= k
            BY <1>1, <3>1
        <3> QED
            BY <1>1, <3>2
    <2> QED
        BY <2>1, <2>2, <2>3, <2>4, <2>5
<1>3. DataClass(t) \in S
    BY <1>2 DEF DataClass
<1> QED
    BY <1>1, <1>3 DEF Class, Public, Regulated

-----------------------------------------------------------------------------
(* Decisions *)

\* A decision that hands a text to a model: to the local one, with consent of
\* the user, and sanitized if its class needs it.
LEMMA DecisionIsLocal ==
    ASSUME NEW t \in Text, NEW user \in BOOLEAN, NEW p, Decide(t, user, p).target # "rejected"
    PROVE  /\ Decide(t, user, p).target = "local"
           /\ DataClass(t) <= Confidential
           /\ RequiresSanitization(t) => Decide(t, user, p).verdict.sanitized
           /\ user => "local" \in consented
<1> DEFINE verdict == Verdict(t, user, "auto", FALSE)
           strict == Verdict(t, user, "strict", TRUE)
<1>1. DataClass(t) \in 0..4
    BY ClassOfText DEF Class, Public, Regulated
<1>2. /\ verdict.canCloud = FALSE
      /\ verdict.canLocal => (user => "local" \in consented)
      /\ RequiresSanitization(t) => verdict.sanitized
    BY DEF Verdict, Evaluate, Sanitizes
<1>3. CASE DataClass(t) >= Restricted
    <2>1. ~strict.canCloud
        BY <1>1, <1>3 DEF Verdict, Evaluate, CanUseCloud, Restricted, Internal
    <2> QED
        BY <1>3, <2>1 DEF Decide
<1>4. CASE ~(DataClass(t) >= Restricted)
    <2> HIDE DEF verdict
    <2>1. DataClass(t) <= Confidential
        BY <1>1, <1>4 DEF Restricted, Confidential
    <2>2. Decide(t, user, p) = [target |-> CASE verdict.canCloud /\ verdict.canLocal /\ p # NoProvider -> "fallback"
                                             [] verdict.canLocal /\ ~(verdict.canCloud /\ p # NoProvider) -> "local"
                                             [] OTHER -> "rejected",
                                verdict |-> verdict]
        BY <1>4 DEF Decide, verdict
    <2>3. Decide(t, user, p).verdict = verdict
        BY <2>2
    <2>4. Decide(t, user, p).target = IF verdict.canLocal THEN "local" ELSE "rejected"
        BY <1>2, <2>2
    <2> QED
        BY <1>2, <2>1, <2>3, <2>4
<1> QED
    BY <1>3, <1>4

\* A text the server's engine passes.
LEMMA AdmittedText ==
    ASSUME NEW t \in Text, NEW by, Admit(by, t)
    PROVE  /\ DataClass(t) <= Confidential
           /\ RequiresSanitization(t) => last'.sanitized
           /\ last'.text = t /\ last'.by = by
<1> DEFINE verdict == Evaluate(t, "auto", FALSE, FALSE, {}, Default)
<1>1. verdict.passed => DataClass(t) <= Default.maxClass
    BY DEF Evaluate
<1>2. RequiresSanitization(t) => verdict.sanitized
    BY DEF Evaluate, Sanitizes
<1>3. PICK where \in RoleModels : verdict.passed /\ last' = Sent(by, t, FALSE, verdict.sanitized, where)
    BY DEF Admit
<1> HIDE DEF verdict
<1> QED
    BY <1>1, <1>2, <1>3, PolicyAssumption DEF Sent

\* What is under way is a local call that has no way to the cloud.
LocalCall == request # Idle => request.phase = "local" /\ request.decision.target = "local"

PrivacyInv == LocalCall /\ SensitiveStaysHome

LEMMA NextKeepsPrivacy == PrivacyInv /\ [Next]_vars => PrivacyInv'
<1> SUFFICES ASSUME PrivacyInv, [Next]_vars
             PROVE  PrivacyInv'
    OBVIOUS
<1>1. ASSUME UNCHANGED last, request' \in {request, Idle}
      PROVE  PrivacyInv'
    BY <1>1 DEF PrivacyInv, LocalCall, SensitiveStaysHome
<1>2. ASSUME NEW t \in Text, NEW user \in BOOLEAN, NEW p, Execute(t, user, p)
      PROVE  PrivacyInv'
    <2> DEFINE decision == Decide(t, user, p)
    <2>1. CASE decision.target = "rejected"
        BY <1>1, <1>2, <2>1 DEF Execute, requestVars
    <2>2. CASE decision.target # "rejected"
        <3>1. /\ decision.target = "local"
              /\ DataClass(t) <= Confidential
              /\ RequiresSanitization(t) => decision.verdict.sanitized
              /\ user => "local" \in consented
            BY <2>2, DecisionIsLocal
        <3>2. /\ request' = [phase |-> "local", text |-> t, user |-> user, decision |-> decision]
              /\ last' = Sent("hybrid", t, user, decision.verdict.sanitized, "local")
            BY <1>2, <2>2, <3>1 DEF Execute
        <3> HIDE DEF decision
        <3>3. /\ last'.text = t /\ last'.by = "hybrid" /\ last'.where = "local"
              /\ last'.sanitized = decision.verdict.sanitized
              /\ last'.consent
            BY <3>1, <3>2 DEF Sent
        <3>4. request'.phase = "local" /\ request'.decision.target = "local"
            BY <3>1, <3>2
        <3> QED
            BY <3>1, <3>3, <3>4 DEF PrivacyInv, LocalCall, SensitiveStaysHome
    <2> QED
        BY <2>1, <2>2
<1>3. CASE CallFails
    <2>1. request.decision.target # "fallback"
        BY <1>3 DEF CallFails, PrivacyInv, LocalCall
    <2> QED
        BY <1>1, <1>3, <2>1 DEF CallFails
<1>4. ASSUME NEW t \in Text, NEW by \in {"route", "chat", "stream"}, Admit(by, t)
      PROVE  PrivacyInv'
    <2>1. request' = request
        BY <1>4 DEF Admit
    <2>2. /\ DataClass(t) <= Confidential
          /\ RequiresSanitization(t) => last'.sanitized
          /\ last'.text = t /\ last'.by = by
        BY <1>4, AdmittedText
    <2> QED
        BY <2>1, <2>2 DEF PrivacyInv, LocalCall, SensitiveStaysHome
<1>5. ASSUME NEW t \in Text, NEW sanitize \in BOOLEAN, ServeIndustry(t, sanitize)
      PROVE  PrivacyInv'
    BY <1>5 DEF ServeIndustry, Sent, PrivacyInv, LocalCall, SensitiveStaysHome
<1>6. CASE ChangeConsent \/ (\E p \in Policy : SetPolicy(p)) \/ Restart \/ Activate \/ Destroy
           \/ (\E t \in Text, epsilon \in Cost : Query(t, epsilon)) \/ HandlerReturns \/ HandlerFails
           \/ UNCHANGED vars
    <2>1. UNCHANGED requestVars
        BY <1>6 DEF ChangeConsent, SetPolicy, Restart, Activate, Destroy, Query, HandlerReturns,
                    HandlerFails, vars, requestVars
    <2> QED
        BY <1>1, <2>1 DEF requestVars
<1>7. CASE Crash \/ CallAnswers
    BY <1>1, <1>7 DEF Crash, CallAnswers
<1> QED
    BY <1>2, <1>3, <1>4, <1>5, <1>6, <1>7 DEF Next, Route, ChatCompletions, StreamChat

LEMMA InitPrivate == Init => PrivacyInv
BY DEF Init, PrivacyInv, LocalCall, SensitiveStaysHome, Nothing

\* Outside the industry workflows no restricted or regulated text reaches a
\* model and a confidential one only sanitized, wherever the models of the roles
\* run; what passes the gatekeeper stays with local models, and its user has
\* consented at the moment the call starts (decide, execute, route,
\* chat_completions, _stream_chat).
THEOREM PrivacyKept == Spec => []SensitiveStaysHome
<1>1. PrivacyInv => SensitiveStaysHome
    BY DEF PrivacyInv
<1> QED
    BY <1>1, InitPrivate, NextKeepsPrivacy, PTL DEF Spec

-----------------------------------------------------------------------------
(* The sandbox *)

SandboxTyped ==
    /\ used \in Nat
    /\ open \in Seq(Cost) /\ Len(open) <= MaxDepth

LEMMA NoneOpen ==
    <<>> \in Seq(Cost) /\ Len(<<>>) = 0 /\ \A q \in Seq(Cost) : q # <<>> => Len(q) \in Nat \ {0}
BY EmptySeq

LEMMA Bounds ==
    /\ \A c \in Cost : c \in Nat
    /\ Total \in Nat /\ MaxDepth \in Nat /\ MaxDepth # 0 /\ 1 <= MaxDepth
BY SandboxAssumption

\* What is open: its length, its last element, and what is left without it.
LEMMA OpenQueries ==
    ASSUME open \in Seq(Cost), open # <<>>
    PROVE  /\ Len(open) \in Nat \ {0}
           /\ Innermost \in Cost /\ Innermost \in Nat
           /\ Outer \in Seq(Cost) /\ Len(Outer) = Len(open) - 1
           /\ \A i \in 1..(Len(open) - 1) : Outer[i] = open[i] /\ open[i] \in Nat
<1>1. Len(open) \in Nat \ {0}
    BY NoneOpen
<1>2. \A i \in 1..Len(open) : open[i] \in Cost
    BY ElementOfSeq
<1>3. Innermost \in Cost /\ Innermost \in Nat
    <2>1. Len(open) \in 1..Len(open)
        BY <1>1
    <2> QED
        BY <1>2, <2>1, Bounds DEF Innermost
<1> DEFINE n == Len(open) - 1
<1>4. 1 \in Int /\ n \in Int /\ \A i \in 1..n : open[i] \in Cost
    BY <1>1, <1>2
<1>5. /\ SubSeq(open, 1, n) \in Seq(Cost)
      /\ Len(SubSeq(open, 1, n)) = IF 1 <= n THEN n - 1 + 1 ELSE 0
      /\ \A i \in 1..(n - 1 + 1) : SubSeq(open, 1, n)[i] = open[1 + i - 1]
    <2> HIDE DEF n
    <2> QED
        BY <1>4, SubSeqProperties
<1> HIDE DEF n
<1>6. n \in Nat /\ Outer = SubSeq(open, 1, n) /\ Len(open) = n + 1
    BY <1>1 DEF n, Outer
<1>7. Outer \in Seq(Cost) /\ Len(Outer) = n
    BY <1>5, <1>6
<1>8. ASSUME NEW i \in 1..n
      PROVE  Outer[i] = open[i] /\ open[i] \in Nat
    BY <1>4, <1>5, <1>6, Bounds
<1> QED
    BY <1>1, <1>3, <1>7, <1>8 DEF n

LEMMA QueryOpens ==
    ASSUME SandboxTyped, NEW t \in Text, NEW epsilon \in Cost, Query(t, epsilon)
    PROVE  /\ open' \in Seq(Cost) /\ Len(open') = Len(open) + 1 /\ open'[Len(open')] = epsilon
           /\ Len(open') <= MaxDepth /\ open' # <<>>
           /\ epsilon \in Nat /\ used' = used /\ used + epsilon <= Total
           /\ ~nested' => ~nested /\ open = <<>>
<1>1. Len(open) \in Nat /\ epsilon \in Nat
    BY LenProperties, Bounds DEF SandboxTyped
<1>2. open' = Append(open, epsilon) /\ used' = used /\ used + epsilon <= Total /\ Len(open) < MaxDepth
    BY DEF Query, WithinBudget
<1>5. ~nested' => ~nested /\ open = <<>>
    BY Zenon DEF Query
<1>3. open' \in Seq(Cost) /\ Len(open') = Len(open) + 1 /\ open'[Len(open) + 1] = epsilon
    BY <1>2, AppendProperties DEF SandboxTyped
<1>4. open' # <<>>
    BY <1>1, <1>3, NoneOpen
<1> QED
    BY <1>1, <1>2, <1>3, <1>4, <1>5, Bounds

\* The steps that leave budget and queries alone.
Apart == UNCHANGED <<used, open, nested>>

\* How a step changes the budget and the open queries.
LEMMA SandboxSteps ==
    ASSUME [Next]_vars
    PROVE  \/ Apart
           \/ used' = 0 /\ open' = <<>> /\ nested' = FALSE
           \/ \E t \in Text, epsilon \in Cost : Query(t, epsilon)
           \/ HandlerReturns
           \/ HandlerFails
<1>1. CASE ChangeConsent \/ (\E p \in Policy : SetPolicy(p)) \/ Restart \/ CallAnswers \/ CallFails
           \/ (\E t \in Text, user \in BOOLEAN, p \in Provider \union {NoProvider} : Execute(t, user, p))
           \/ (\E t \in Text : Route(t) \/ ChatCompletions(t) \/ StreamChat(t))
           \/ (\E t \in Text, sanitize \in BOOLEAN : ServeIndustry(t, sanitize))
           \/ Activate \/ Destroy \/ UNCHANGED vars
    BY <1>1 DEF Apart, ChangeConsent, SetPolicy, Restart, CallAnswers, CallFails, Execute, Route,
                ChatCompletions, StreamChat, Admit, ServeIndustry, Activate, Destroy, vars, sandboxVars
<1>2. CASE Crash
    BY <1>2 DEF Crash
<1> QED
    BY <1>1, <1>2 DEF Next

LEMMA NextKeepsSandbox == SandboxTyped /\ [Next]_vars => SandboxTyped'
<1> SUFFICES ASSUME SandboxTyped, [Next]_vars
             PROVE  SandboxTyped'
    OBVIOUS
<1>1. CASE Apart
    BY <1>1 DEF Apart, SandboxTyped
<1>2. CASE used' = 0 /\ open' = <<>> /\ nested' = FALSE
    BY <1>2, NoneOpen, Bounds DEF SandboxTyped
<1>3. ASSUME NEW t \in Text, NEW epsilon \in Cost, Query(t, epsilon)
      PROVE  SandboxTyped'
    BY <1>3, QueryOpens DEF SandboxTyped
<1>4. CASE HandlerReturns \/ HandlerFails
    <2>1. open # <<>> /\ open' = Outer /\ used' \in {used, used + Innermost} /\ nested' = nested
        BY <1>4 DEF HandlerReturns, HandlerFails
    <2>2. /\ Len(open) \in Nat \ {0} /\ Innermost \in Nat
          /\ open' \in Seq(Cost) /\ Len(open') = Len(open) - 1
        BY <2>1, OpenQueries DEF SandboxTyped
    <2>3. Len(open') <= MaxDepth
        BY <2>2, Bounds DEF SandboxTyped
    <2> QED
        BY <2>1, <2>2, <2>3 DEF SandboxTyped
<1> QED
    BY <1>1, <1>2, <1>3, <1>4, SandboxSteps

\* Without nested queries one query is open at most, and was checked against
\* what is used.
FlatInv ==
    ~nested =>
        /\ used <= Total
        /\ Len(open) <= 1
        /\ open # <<>> => used + Innermost <= Total

\* With them, the innermost query was checked, and each one it is nested in
\* can add the greatest cost to the excess.
NestedInv ==
    \A c \in Cost : (\A d \in Cost : d <= c) =>
        IF open = <<>> THEN used <= Total + (MaxDepth - 1) * c
        ELSE used + Innermost <= Total + (MaxDepth - Len(open)) * c

LEMMA NextKeepsFlat == SandboxTyped /\ FlatInv /\ [Next]_vars => FlatInv'
<1> SUFFICES ASSUME SandboxTyped, FlatInv, [Next]_vars
             PROVE  FlatInv'
    OBVIOUS
<1>1. CASE Apart
    BY <1>1 DEF Apart, FlatInv, Innermost
<1>2. CASE used' = 0 /\ open' = <<>> /\ nested' = FALSE
    BY <1>2, NoneOpen, Bounds DEF FlatInv, SandboxTyped
<1>3. ASSUME NEW t \in Text, NEW epsilon \in Cost, Query(t, epsilon)
      PROVE  FlatInv'
    <2>1. /\ Len(open') = Len(open) + 1 /\ open'[Len(open')] = epsilon
          /\ epsilon \in Nat /\ used' = used /\ used + epsilon <= Total
          /\ ~nested' => open = <<>>
        BY <1>3, QueryOpens
    <2>2. used' + Innermost' <= Total /\ used' <= Total
        BY <2>1, Bounds DEF SandboxTyped, Innermost
    <2>3. ~nested' => Len(open') <= 1
        BY <2>1, NoneOpen
    <2> QED
        BY <2>2, <2>3 DEF FlatInv
<1>4. CASE HandlerReturns \/ HandlerFails
    <2>1. open # <<>> /\ open' = Outer /\ used' \in {used, used + Innermost} /\ nested' = nested
        BY <1>4 DEF HandlerReturns, HandlerFails
    <2>2. ASSUME ~nested
          PROVE  Len(open') = 0 /\ open' = <<>> /\ used' <= Total
        <3>1. Len(open) = 1
            BY <2>1, <2>2, OpenQueries DEF FlatInv, SandboxTyped
        <3>2. Len(open') = 0 /\ open' \in Seq(Cost)
            BY <2>1, <3>1, OpenQueries DEF SandboxTyped
        <3>3. open' = <<>>
            BY <3>2, NoneOpen
        <3> QED
            BY <2>1, <2>2, <3>2, <3>3 DEF FlatInv
    <2> QED
        BY <2>1, <2>2 DEF FlatInv
<1> QED
    BY <1>1, <1>2, <1>3, <1>4, SandboxSteps

\* One level less of nesting leaves room for one cost more.
LEMMA OneLevel ==
    ASSUME NEW n \in Nat, NEW c \in Nat
    PROVE  (n + 1) * c = n * c + c /\ n * c \in Nat /\ n * c >= 0
OBVIOUS

LEMMA SumsBounded ==
    ASSUME NEW u \in Nat, NEW e \in Nat, NEW total \in Nat, NEW k \in Nat, NEW c \in Nat
    PROVE  /\ u <= total + k /\ e <= c => u + e <= total + (k + c)
           /\ u + e <= total => u + e <= total + k
OBVIOUS

LEMMA NextKeepsNested == SandboxTyped /\ NestedInv /\ [Next]_vars => NestedInv'
<1> SUFFICES ASSUME SandboxTyped, NestedInv, [Next]_vars,
                    NEW c \in Cost, \A d \in Cost : d <= c
             PROVE  IF open' = <<>> THEN used' <= Total + (MaxDepth - 1) * c
                    ELSE used' + Innermost' <= Total + (MaxDepth - Len(open')) * c
    BY DEF NestedInv
<1>1. c \in Nat /\ used \in Nat /\ Total \in Nat /\ MaxDepth \in Nat \ {0} /\ open \in Seq(Cost) /\ Len(open) \in Nat
    BY Bounds, LenProperties DEF SandboxTyped
<1>2. CASE Apart
    BY <1>2 DEF Apart, NestedInv, Innermost
<1>3. CASE used' = 0 /\ open' = <<>> /\ nested' = FALSE
    <2>1. MaxDepth - 1 \in Nat
        BY <1>1
    <2>2. (MaxDepth - 1) * c \in Nat
        BY <1>1, <2>1, OneLevel
    <2> QED
        BY <1>1, <1>3, <2>2
<1>4. ASSUME NEW t \in Text, NEW epsilon \in Cost, Query(t, epsilon)
      PROVE  open' # <<>> /\ used' + Innermost' <= Total + (MaxDepth - Len(open')) * c
    <2>0. Innermost' = open'[Len(open')]
        BY DEF Innermost
    <2>1. open' # <<>> /\ Innermost' = epsilon /\ used' + epsilon <= Total
          /\ Len(open') = Len(open) + 1 /\ Len(open') <= MaxDepth /\ epsilon \in Nat /\ used' \in Nat
        BY <1>1, <1>4, <2>0, QueryOpens
    <2> DEFINE n == MaxDepth - Len(open')
    <2>2. n \in Nat
        BY <1>1, <2>1
    <2> HIDE DEF n
    <2>3. n * c \in Nat
        BY <1>1, <2>2, OneLevel
    <2> DEFINE k == n * c
    <2>4. used' + Innermost' <= Total + k
        <3> HIDE DEF k
        <3>1. k \in Nat
            BY <2>3 DEF k
        <3>2. used' \in Nat /\ Innermost' \in Nat /\ used' + Innermost' <= Total
            BY <2>1
        <3> QED
            BY <1>1, <3>1, <3>2, SumsBounded
    <2> QED
        BY <2>1, <2>4 DEF n
<1>5. CASE HandlerReturns \/ HandlerFails
    <2> DEFINE n == MaxDepth - Len(open)
               k == n * c
    <2>1. open # <<>> /\ open' = Outer /\ used' \in {used, used + Innermost}
        BY <1>5 DEF HandlerReturns, HandlerFails
    <2>2. /\ Len(open) \in Nat \ {0} /\ Innermost \in Nat
          /\ open' \in Seq(Cost) /\ Len(open') = Len(open) - 1
          /\ \A i \in 1..(Len(open) - 1) : open'[i] = open[i] /\ open[i] \in Nat
        BY <1>1, <2>1, OpenQueries
    <2>3. n \in Nat /\ MaxDepth - Len(open') = n + 1
        BY <1>1, <2>2 DEF SandboxTyped
    <2>4. used + Innermost <= Total + k
        BY <2>1 DEF NestedInv
    <2> HIDE DEF n
    <2>5. k \in Nat /\ (n + 1) * c = k + c
        BY <1>1, <2>3, OneLevel
    <2> HIDE DEF k
    <2>6. used' \in Nat /\ used' <= Total + k
        BY <1>1, <2>1, <2>2, <2>4, <2>5
    <2>7. CASE open' = <<>>
        <3>1. Len(open') = 0
            BY <2>7, NoneOpen
        <3>2. Len(open) = 1
            BY <2>2, <3>1
        <3>3. MaxDepth - 1 = n
            BY <3>2 DEF n
        <3>4. used' <= Total + (MaxDepth - 1) * c
            BY <2>6, <3>3 DEF k
        <3> QED
            BY <2>7, <3>4
    <2>8. CASE open' # <<>>
        <3>1. Len(open') \in Nat \ {0}
            BY <2>2, <2>8, NoneOpen
        <3>2. open'[Len(open')] \in Cost
            BY <2>2, <3>1, ElementOfSeq
        <3>3. Innermost' \in Nat /\ Innermost' <= c
            BY <3>2, Bounds DEF Innermost
        <3>4. used' + Innermost' <= Total + (k + c)
            <4>1. k \in Nat
                BY <2>5
            <4> QED
                BY <1>1, <2>6, <3>3, <4>1, SumsBounded
        <3> QED
            BY <2>3, <2>5, <2>8, <3>4
    <2> QED
        BY <2>7, <2>8
<1> QED
    BY <1>2, <1>3, <1>4, <1>5, SandboxSteps

\* The sandbox is never overspent as long as no handler queries the sandbox it
\* runs for, and with nested queries by less than what was open at once
\* (_check_budget, execute).
THEOREM SandboxBudget == Spec => []BudgetHolds
<1> DEFINE Inv == SandboxTyped /\ FlatInv /\ NestedInv
<1>1. Init => Inv
    <2> SUFFICES ASSUME Init PROVE Inv
        OBVIOUS
    <2>1. used = 0 /\ open = <<>> /\ nested = FALSE
        BY DEF Init
    <2>2. SandboxTyped /\ FlatInv
        BY <2>1, NoneOpen, Bounds DEF SandboxTyped, FlatInv
    <2>3. ASSUME NEW c \in Cost
          PROVE  0 <= Total + (MaxDepth - 1) * c
        <3>1. MaxDepth - 1 \in Nat /\ c \in Nat /\ Total \in Nat
            BY Bounds
        <3>2. (MaxDepth - 1) * c \in Nat
            BY <3>1, OneLevel
        <3> QED
            BY <3>1, <3>2
    <2> QED
        BY <2>1, <2>2, <2>3 DEF NestedInv
<1>2. Inv /\ [Next]_vars => Inv'
    BY NextKeepsSandbox, NextKeepsFlat, NextKeepsNested
<1>3. Inv => BudgetHolds
    <2> SUFFICES ASSUME Inv, NEW c \in Cost, \A d \in Cost : d <= c
                 PROVE  used <= Total + (MaxDepth - 1) * c
        BY DEF BudgetHolds, FlatInv
    <2>1. CASE open = <<>>
        BY <2>1 DEF NestedInv
    <2>2. CASE open # <<>>
        <3>1. /\ used \in Nat /\ Innermost \in Nat /\ c \in Nat /\ Total \in Nat
              /\ Len(open) \in Nat \ {0} /\ Len(open) <= MaxDepth /\ MaxDepth \in Nat
            BY <2>2, OpenQueries, Bounds DEF SandboxTyped
        <3>2. used + Innermost <= Total + (MaxDepth - Len(open)) * c
            BY <2>2 DEF NestedInv
        <3> DEFINE n == MaxDepth - Len(open)
                   m == Len(open) - 1
        <3>3. n \in Nat /\ m \in Nat /\ MaxDepth - 1 = n + m
            BY <3>1
        <3> HIDE DEF n, m
        <3>4. n * c \in Nat /\ m * c \in Nat /\ (n + m) * c = n * c + m * c
            BY <3>1, <3>3
        <3>5. used <= Total + (n + m) * c
            <4> DEFINE k == n * c
                       l == m * c
            <4>1. used + Innermost <= Total + k /\ k \in Nat /\ l \in Nat /\ (n + m) * c = k + l
                BY <3>2, <3>4 DEF n
            <4> HIDE DEF k, l
            <4>2. used <= Total + (k + l)
                BY <3>1, <4>1
            <4> QED
                BY <4>1, <4>2
        <3> QED
            BY <3>3, <3>5
    <2> QED
        BY <2>1, <2>2
<1> QED
    BY <1>1, <1>2, <1>3, PTL DEF Spec

-----------------------------------------------------------------------------
(* Type correctness *)

Files == {Absent, Broken} \union {Stored(p) : p \in Policies(Provider)}
Phases == {"none", "local", "cloud"}
Paths == {"nobody", "hybrid", "route", "chat", "stream", "industry"}
Statuses == {"created", "active", "failed", "destroyed"}

\* The parts of the type invariant beside the sandbox's budget.
RestTyped ==
    /\ policy \in Policies(Provider)
    /\ file \in Files
    /\ up \in BOOLEAN
    /\ consented \subseteq {"local", "cloud"}
    /\ request.phase \in Phases
    /\ last.by \in Paths
    /\ status \in Statuses
    /\ nested \in BOOLEAN
    /\ faults \in 0..MaxFaults

LEMMA TypeParts == TypeOK <=> SandboxTyped /\ RestTyped
BY DEF TypeOK, SandboxTyped, RestTyped, Files, Phases, Paths, Statuses

\* A further fault within the bound.
LEMMA FaultCounted ==
    ASSUME faults \in 0..MaxFaults
    PROVE  faults < MaxFaults => faults + 1 \in 0..MaxFaults
BY SandboxAssumption

LEMMA NextTyped == RestTyped /\ LocalCall /\ [Next]_vars => RestTyped'
<1> SUFFICES ASSUME RestTyped, LocalCall, [Next]_vars
             PROVE  RestTyped'
    OBVIOUS
<1> USE DEF RestTyped
<1>1. CASE ChangeConsent
    BY <1>1 DEF ChangeConsent, requestVars, sandboxVars
<1>2. ASSUME NEW p \in Policy, SetPolicy(p)
      PROVE  RestTyped'
    <2>1. p \in Policies(Provider)
        BY PolicyAssumption
    <2>2. file' \in Files
        BY <1>2, <2>1 DEF SetPolicy, Files
    <2>3. faults' \in 0..MaxFaults
        BY <1>2, FaultCounted DEF SetPolicy
    <2> QED
        BY <1>2, <2>1, <2>2, <2>3 DEF SetPolicy, requestVars, sandboxVars
<1>3. CASE Crash
    <2>1. file' \in Files
        BY <1>3 DEF Crash, Files
    <2>2. faults' \in 0..MaxFaults
        BY <1>3, FaultCounted DEF Crash
    <2> QED
        BY <1>3, <2>1, <2>2 DEF Crash, Idle, Phases, Statuses
<1>4. CASE Restart
    <2>1. CASE file = Absent
        BY <1>4, <2>1, PolicyAssumption DEF Restart, Absent, requestVars, sandboxVars
    <2>2. ASSUME NEW p \in Policies(Provider), file = Stored(p)
          PROVE  RestTyped'
        BY <1>4, <2>2 DEF Restart, Stored, requestVars, sandboxVars
    <2> QED
        BY <1>4, <2>1, <2>2 DEF Restart, Files, Broken
<1>5. ASSUME NEW t \in Text, NEW user \in BOOLEAN, NEW p, Execute(t, user, p)
      PROVE  RestTyped'
    <2> DEFINE decision == Decide(t, user, p)
               where == IF decision.target = "cloud" THEN "cloud" ELSE "local"
    <2>1. CASE UNCHANGED requestVars
        BY <1>5, <2>1 DEF Execute, requestVars, sandboxVars
    <2>2. CASE request' = [phase |-> where, text |-> t, user |-> user, decision |-> decision]
               /\ last' = Sent("hybrid", t, user, decision.verdict.sanitized, where)
        <3>1. where \in {"local", "cloud"}
            OBVIOUS
        <3> HIDE DEF where
        <3>2. request'.phase \in Phases /\ last'.by \in Paths
            BY <2>2, <3>1 DEF Sent, Phases, Paths
        <3> QED
            BY <1>5, <3>2 DEF Execute, sandboxVars
    <2> QED
        BY <1>5, <2>1, <2>2 DEF Execute
<1>6. CASE CallAnswers
    BY <1>6 DEF CallAnswers, Idle, Phases, sandboxVars
<1>7. CASE CallFails
    <2>1. request.decision.target # "fallback"
        BY <1>7 DEF CallFails, LocalCall
    <2> QED
        BY <1>7, <2>1 DEF CallFails, Idle, Phases, sandboxVars
<1>8. ASSUME NEW t \in Text, NEW by \in {"route", "chat", "stream"}, Admit(by, t)
      PROVE  RestTyped'
    <2>1. last'.by \in Paths
        BY <1>8, AdmittedText DEF Paths
    <2> QED
        BY <1>8, <2>1 DEF Admit, sandboxVars
<1>9. ASSUME NEW t \in Text, NEW sanitize \in BOOLEAN, ServeIndustry(t, sanitize)
      PROVE  RestTyped'
    BY <1>9 DEF ServeIndustry, Sent, Paths, sandboxVars
<1>10. CASE Activate \/ Destroy
    BY <1>10 DEF Activate, Destroy, Statuses, requestVars
<1>11. ASSUME NEW t \in Text, NEW epsilon \in Cost, Query(t, epsilon)
       PROVE  RestTyped'
    BY <1>11 DEF Query, requestVars
<1>12. CASE HandlerReturns \/ HandlerFails
    BY <1>12 DEF HandlerReturns, HandlerFails, Statuses, requestVars
<1>13. CASE UNCHANGED vars
    BY <1>13 DEF vars
<1> QED
    BY <1>1, <1>2, <1>3, <1>4, <1>5, <1>6, <1>7, <1>8, <1>9, <1>10, <1>11, <1>12, <1>13
       DEF Next, Route, ChatCompletions, StreamChat

\* Type correctness of the gatekeeper, the endpoints, the policy store and the
\* sandbox, for all texts, policies and budgets.
THEOREM TypeCorrect == Spec => []TypeOK
<1>1. Init => SandboxTyped /\ RestTyped
    <2> SUFFICES ASSUME Init PROVE SandboxTyped /\ RestTyped
        OBVIOUS
    <2>1. SandboxTyped
        BY NoneOpen, Bounds DEF Init, SandboxTyped
    <2>2. policy \in Policies(Provider) /\ file \in Files /\ up \in BOOLEAN /\ nested \in BOOLEAN
        BY PolicyAssumption DEF Init, Files
    <2>3. consented \subseteq {"local", "cloud"} /\ status \in Statuses
        BY DEF Init, Statuses
    <2>4. request.phase \in Phases /\ last.by \in Paths
        BY DEF Init, Phases, Paths, Idle, Nothing
    <2>5. faults \in 0..MaxFaults
        BY SandboxAssumption DEF Init
    <2> QED
        BY <2>1, <2>2, <2>3, <2>4, <2>5 DEF RestTyped
<1>2. PrivacyInv => LocalCall
    BY DEF PrivacyInv
<1> QED
    BY <1>1, <1>2, TypeParts, InitPrivate, NextKeepsPrivacy, NextKeepsSandbox, NextTyped, PTL DEF Spec

-----------------------------------------------------------------------------
(***************************************************************************)
(* Sums over a finite set, by cardinality: the least number of elements     *)
(* with which a statement about them could fail has none.                   *)
(***************************************************************************)
\* A set of numbers has a least one.
LEMMA LeastNumber ==
  ASSUME NEW N \in SUBSET Nat, N # {}
  PROVE  \E n \in N : \A m \in N : n <= m
<1>1. PICK n \in N : \A m \in N : ~ (<<m, n>> \in OpToRel(<, Nat))
  BY NatLessThanWellFounded, WFMin, Zenon
<1>2. \A m \in N : ~ (m < n)
  BY <1>1, Zenon DEF OpToRel
<1> QED
  BY <1>2

Some(s) == CHOOSE x \in s : TRUE

\* g gives the sum of f over each subset of S.
Sums(g, f, S) == g = [s \in SUBSET S |-> IF s = {} THEN 0 ELSE f[Some(s)] + g[s \ {Some(s)}]]

LEMMA OneLess ==
  ASSUME NEW S, IsFiniteSet(S), NEW s \in SUBSET S, s # {}
  PROVE  /\ Some(s) \in s
         /\ s \ {Some(s)} \in SUBSET S
         /\ Cardinality(s) \in Nat \ {0}
         /\ Cardinality(s \ {Some(s)}) = Cardinality(s) - 1
<1>1. IsFiniteSet(s)
  BY FS_Subset
<1>2. Some(s) \in s
  BY DEF Some
<1>3. Cardinality(s) \in Nat /\ Cardinality(s) # 0
  BY <1>1, FS_CardinalityType, FS_EmptySet
<1>4. Cardinality(s \ {Some(s)}) = Cardinality(s) - 1
  BY <1>1, <1>2, FS_RemoveElement
<1> QED
  BY <1>2, <1>3, <1>4

\* The function a sum is folded with exists: one that is right for the subsets of
\* up to n elements gives one that is right for those of n + 1.
LEMMA SumExists ==
  ASSUME NEW S, IsFiniteSet(S), NEW f
  PROVE  \E g : Sums(g, f, S)
<1> DEFINE Next1(g) == [s \in SUBSET S |-> IF s = {} THEN 0 ELSE f[Some(s)] + g[s \ {Some(s)}]]
           Right(g, n) == /\ g = [s \in SUBSET S |-> g[s]]
                          /\ \A s \in SUBSET S : Cardinality(s) <= n => g[s] = Next1(g)[s]
           Bad == {n \in Nat : ~ \E g : Right(g, n)}
<1> Bad \in SUBSET Nat
  OBVIOUS
<1>1. Bad = {}
  <2>1. SUFFICES ASSUME Bad # {}
                 PROVE  FALSE
    OBVIOUS
  <2>2. PICK n \in Bad : \A m \in Bad : n <= m
    BY <2>1, LeastNumber
  <2>3. CASE n = 0
    <3> DEFINE g == [s \in SUBSET S |-> 0]
    <3>1. ASSUME NEW s \in SUBSET S, Cardinality(s) <= 0
          PROVE  s = {}
      <4>1. s # {} => Cardinality(s) \in Nat \ {0}
        BY OneLess
      <4> QED
        BY <3>1, <4>1
    <3>2. Right(g, 0)
      BY <3>1
    <3>3. ~ (\E e : Right(e, n))
      BY <2>2
    <3> HIDE DEF Right, g
    <3> QED
      BY <2>3, <3>2, <3>3
  <2>4. CASE n # 0
    <3>1. \E g : Right(g, n - 1)
      <4>1. n - 1 \in Nat /\ n - 1 \notin Bad
        <5> HIDE DEF Bad
        <5> QED
          BY <2>2, <2>4
      <4> HIDE DEF Right
      <4> QED
        BY <4>1
    <3>2. PICK g : Right(g, n - 1)
      BY <3>1
    <3> DEFINE h == Next1(g)
    <3>3. ASSUME NEW s \in SUBSET S, Cardinality(s) <= n
          PROVE  h[s] = Next1(h)[s]
      <4>1. CASE s = {}
        BY <4>1
      <4>2. CASE s # {}
        <5> DEFINE r == s \ {Some(s)}
        <5>1. r \in SUBSET S /\ Cardinality(r) <= n - 1
          BY <3>3, <4>2, OneLess
        <5>2. g[r] = h[r]
          BY <3>2, <5>1
        <5> QED
          BY <4>2, <5>1, <5>2
      <4> QED
        BY <4>1, <4>2
    <3>4. Right(h, n)
      BY <3>3
    <3> QED
      BY <2>2, <3>4
  <2> QED
    BY <2>3, <2>4
<1>2. Cardinality(S) \in Nat
  BY FS_CardinalityType
<1>3. PICK g : Right(g, Cardinality(S))
  BY <1>1, <1>2
<1>4. \A s \in SUBSET S : Cardinality(s) <= Cardinality(S)
  BY FS_Subset
<1>5. g = Next1(g)
  BY <1>3, <1>4
<1>6. Sums(g, f, S)
  BY <1>5 DEF Sums
<1> HIDE DEF Right
<1> QED
  BY <1>6

LEMMA SumUnfolds ==
  ASSUME NEW S, IsFiniteSet(S), NEW f
  PROVE  \E g : SumOver(f, S) = g[S] /\ Sums(g, f, S)
<1>1. SumOver(f, S) = (CHOOSE g : Sums(g, f, S))[S]
  BY Zenon DEF SumOver, FoldFunctionOnSet, MapThenFoldSet, Some, Sums
<1> QED
  BY <1>1, SumExists, Zenon

\* The sum of a function that is zero everywhere, and the sum of one that differs
\* from another in one place.
LEMMA SumOfZeros ==
  ASSUME NEW S, IsFiniteSet(S), NEW f, \A x \in S : f[x] = 0
  PROVE  SumOver(f, S) = 0
<1>1. PICK g : SumOver(f, S) = g[S] /\ Sums(g, f, S)
  BY SumUnfolds
<1> DEFINE Bad == {n \in Nat : \E s \in SUBSET S : Cardinality(s) = n /\ g[s] # 0}
<1>2. Bad = {}
  <2>1. SUFFICES ASSUME Bad # {}
                 PROVE  FALSE
    OBVIOUS
  <2>2. PICK n \in Bad : \A m \in Bad : n <= m
    BY <2>1, LeastNumber
  <2>3. PICK s \in SUBSET S : Cardinality(s) = n /\ g[s] # 0
    BY <2>2
  <2>4. s # {}
    BY <1>1, <2>3 DEF Sums
  <2> DEFINE r == s \ {Some(s)}
  <2>5. r \in SUBSET S /\ Some(s) \in S /\ Cardinality(r) \in Nat /\ Cardinality(r) < n
    BY <2>3, <2>4, OneLess
  <2>6. g[r] = 0
    BY <2>2, <2>5
  <2>7. g[s] = f[Some(s)] + g[r]
    BY <1>1, <2>4 DEF Sums
  <2> QED
    BY <2>3, <2>5, <2>6, <2>7
<1>3. Cardinality(S) \in Nat
  BY FS_CardinalityType
<1> QED
  BY <1>1, <1>2, <1>3

LEMMA SumChanges ==
  ASSUME NEW S, IsFiniteSet(S), NEW f \in [S -> Int], NEW h \in [S -> Int],
         NEW t \in S, \A x \in S \ {t} : h[x] = f[x]
  PROVE  /\ SumOver(f, S) \in Int
         /\ SumOver(h, S) = SumOver(f, S) + h[t] - f[t]
<1>1. PICK F : SumOver(f, S) = F[S] /\ Sums(F, f, S)
  BY SumUnfolds
<1>2. PICK H : SumOver(h, S) = H[S] /\ Sums(H, h, S)
  BY SumUnfolds
<1> DEFINE Change(s) == IF t \in s THEN h[t] - f[t] ELSE 0
           Good(s) == F[s] \in Int /\ H[s] = F[s] + Change(s)
           Bad == {n \in Nat : \E s \in SUBSET S : Cardinality(s) = n /\ ~ Good(s)}
<1>3. Bad = {}
  <2>1. SUFFICES ASSUME Bad # {}
                 PROVE  FALSE
    OBVIOUS
  <2>2. PICK n \in Bad : \A m \in Bad : n <= m
    BY <2>1, LeastNumber
  <2>3. PICK s \in SUBSET S : Cardinality(s) = n /\ ~ Good(s)
    BY <2>2
  <2>4. s # {}
    BY <1>1, <1>2, <2>3 DEF Sums
  <2> DEFINE r == s \ {Some(s)}
  <2>5. r \in SUBSET S /\ Some(s) \in S /\ Some(s) \in s /\ Cardinality(r) \in Nat /\ Cardinality(r) < n
    BY <2>3, <2>4, OneLess
  <2>6. Good(r)
    <3> HIDE DEF Good
    <3> QED
      BY <2>2, <2>5
  <2>7. F[s] = f[Some(s)] + F[r] /\ H[s] = h[Some(s)] + H[r]
    BY <1>1, <1>2, <2>4 DEF Sums
  <2>8. f[Some(s)] \in Int /\ h[Some(s)] \in Int /\ f[t] \in Int /\ h[t] \in Int
    BY <2>5
  <2>9. CASE Some(s) = t
    BY <2>3, <2>5, <2>6, <2>7, <2>8, <2>9
  <2>10. CASE Some(s) # t
    <3>1. h[Some(s)] = f[Some(s)] /\ (t \in s <=> t \in r)
      BY <2>5, <2>10
    <3> QED
      BY <2>3, <2>5, <2>6, <2>7, <2>8, <3>1
  <2> QED
    BY <2>9, <2>10
<1>4. Cardinality(S) \in Nat
  BY FS_CardinalityType
<1>5. Good(S)
  <2> HIDE DEF Good
  <2> QED
    BY <1>3, <1>4
<1> QED
  BY <1>1, <1>2, <1>5

LEMMA SumTyped ==
  ASSUME NEW S, IsFiniteSet(S), NEW f \in [S -> Int]
  PROVE  SumOver(f, S) \in Int
<1>1. CASE S = {}
  <2>1. \A x \in S : f[x] = 0
    BY <1>1
  <2> QED
    BY <2>1, SumOfZeros
<1>2. CASE S # {}
  <2>1. PICK t \in S : TRUE
    BY <1>2
  <2> QED
    BY <2>1, SumChanges
<1> QED
  BY <1>1, <1>2

-----------------------------------------------------------------------------
(***************************************************************************)
(* The rate limiter.                                                       *)
(***************************************************************************)
\* What check leaves of a deque: its end, from the first time in the window on.
LEMMA RecentIsEnd ==
  ASSUME NEW dq \in Seq(Nat), now \in Nat
  PROVE  \E k \in 0..Len(dq) :
           /\ Recent(dq) \in Seq(Nat) /\ Len(Recent(dq)) = Len(dq) - k
           /\ \A i \in 1..(Len(dq) - k) : Recent(dq)[i] = dq[k + i]
           /\ \A i \in 1..k : dq[i] <= now - Window
<1> DEFINE First(i) == /\ \A j \in 1..(i - 1) : dq[j] <= now - Window
                       /\ i <= Len(dq) => dq[i] > now - Window
           Fresh == {i \in 1..Len(dq) : dq[i] > now - Window}
<1>1. Window \in Nat /\ \A i \in 1..Len(dq) : dq[i] \in Nat
  BY LimitAssumption, ElementOfSeq
<1>2. \E i \in 1..(Len(dq) + 1) : First(i)
  <2>1. CASE Fresh = {}
    <3>1. First(Len(dq) + 1)
      BY <1>1, <2>1
    <3> HIDE DEF First
    <3> QED
      BY <3>1
  <2>2. CASE Fresh # {}
    <3>1. Fresh \in SUBSET Nat
      OBVIOUS
    <3>2. PICK i \in Fresh : \A m \in Fresh : i <= m
      BY <2>2, <3>1, LeastNumber
    <3>3. First(i)
      BY <1>1, <3>2
    <3> HIDE DEF First
    <3> QED
      BY <3>2, <3>3
  <2> QED
    BY <2>1, <2>2
<1>3. FirstRecent(dq) \in 1..(Len(dq) + 1) /\ First(FirstRecent(dq))
  <2>1. FirstRecent(dq) = CHOOSE i \in 1..(Len(dq) + 1) : First(i)
    BY DEF FirstRecent
  <2> HIDE DEF First
  <2> QED
    BY <1>2, <2>1
<1> DEFINE k == FirstRecent(dq) - 1
<1>4. k \in 0..Len(dq) /\ \A i \in 1..k : dq[i] <= now - Window
  BY <1>3
<1>5. Recent(dq) = SubSeq(dq, k + 1, Len(dq))
  <2>1. k + 1 = FirstRecent(dq)
    BY <1>3
  <2> HIDE DEF k
  <2> QED
    BY <2>1 DEF Recent
<1> HIDE DEF k
<1>6. /\ Recent(dq) \in Seq(Nat) /\ Len(Recent(dq)) = Len(dq) - k
      /\ \A i \in 1..(Len(dq) - k) : Recent(dq)[i] = dq[k + i]
  BY <1>4, <1>5
<1> QED
  BY <1>4, <1>6

\* Time passes, the periodic cleanup deletes a deque, check takes old times from
\* it, and a request is let through.
LEMMA LatestLater ==
  ASSUME NEW dq \in Seq(Nat), NEW adm \in Seq(Nat), NEW time \in Nat, Latest(dq, adm, time)
  PROVE  Latest(dq, adm, time + 1)
<1>1. Window \in Nat /\ \A i \in 1..Len(adm) : adm[i] \in Nat
  BY LimitAssumption, ElementOfSeq
<1> QED
  BY <1>1 DEF Latest

LEMMA LatestCleaned ==
  ASSUME NEW dq \in Seq(Nat), NEW adm \in Seq(Nat), NEW time \in Nat, Latest(dq, adm, time),
         dq # <<>>, dq[Len(dq)] <= time - Window
  PROVE  Latest(<<>>, adm, time)
<1>1. Window \in Nat /\ MaxRequests \in Nat /\ \A i \in 1..Len(adm) : adm[i] \in Nat
  BY LimitAssumption, ElementOfSeq
<1>2. Len(dq) \in 1..Len(adm) /\ dq[Len(dq)] = adm[Len(adm)]
  BY DEF Latest
<1>3. ASSUME NEW i \in 1..Len(adm)
      PROVE  adm[i] + Window <= time
  <2>1. adm[i] <= adm[Len(adm)] /\ adm[i] \in Nat /\ adm[Len(adm)] \in Nat
    BY <1>1 DEF Latest
  <2> QED
    BY <1>1, <1>2, <2>1
<1>4. Len(<<>>) = 0
  OBVIOUS
<1> QED
  BY <1>1, <1>3, <1>4 DEF Latest

LEMMA LatestRecent ==
  ASSUME NEW dq \in Seq(Nat), NEW adm \in Seq(Nat), now \in Nat, Latest(dq, adm, now)
  PROVE  Latest(Recent(dq), adm, now)
<1>1. Window \in Nat /\ \A i \in 1..Len(adm) : adm[i] \in Nat
  BY LimitAssumption, ElementOfSeq
<1>2. PICK k \in 0..Len(dq) :
         /\ Recent(dq) \in Seq(Nat) /\ Len(Recent(dq)) = Len(dq) - k
         /\ \A i \in 1..(Len(dq) - k) : Recent(dq)[i] = dq[k + i]
         /\ \A i \in 1..k : dq[i] <= now - Window
  BY RecentIsEnd
<1> DEFINE d == Len(adm) - Len(dq)
<1>3. Len(dq) <= Len(adm) /\ Len(dq) <= MaxRequests /\ MaxRequests \in Nat
  BY LimitAssumption DEF Latest
<1>4. Len(adm) - Len(Recent(dq)) = d + k
  BY <1>2, <1>3
<1>5. \A i \in 1..Len(Recent(dq)) : Recent(dq)[i] = adm[(d + k) + i]
  <2> TAKE i \in 1..Len(Recent(dq))
  <2>1. k + i \in 1..Len(dq) /\ Recent(dq)[i] = dq[k + i]
    BY <1>2
  <2>2. dq[k + i] = adm[d + (k + i)]
    BY <2>1 DEF Latest
  <2>3. d + (k + i) = (d + k) + i
    BY <1>3, <2>1
  <2> QED
    BY <2>1, <2>2, <2>3
<1>6. \A i \in 1..(d + k) : adm[i] + Window <= now
  <2> TAKE i \in 1..(d + k)
  <2>1. CASE i <= d
    BY <1>3, <2>1 DEF Latest
  <2>2. CASE i > d
    <3>1. i - d \in 1..k /\ i - d \in 1..Len(dq)
      BY <1>3, <2>2
    <3>2. dq[i - d] = adm[d + (i - d)] /\ dq[i - d] <= now - Window
      BY <1>2, <3>1 DEF Latest
    <3>3. d + (i - d) = i /\ i \in 1..Len(adm)
      BY <1>3, <3>1
    <3> QED
      BY <1>1, <3>2, <3>3
  <2> QED
    BY <1>3, <2>1, <2>2
<1>7. Len(Recent(dq)) <= Len(adm) /\ Len(Recent(dq)) <= MaxRequests
  BY <1>2, <1>3
<1> HIDE DEF d
<1> QED
  BY <1>4, <1>5, <1>6, <1>7 DEF Latest

LEMMA LatestAdmitted ==
  ASSUME NEW dq \in Seq(Nat), NEW adm \in Seq(Nat), NEW time \in Nat, Latest(dq, adm, time),
         Len(dq) < MaxRequests, Spread(adm)
  PROVE  /\ Latest(Append(dq, time), Append(adm, time), time)
         /\ Spread(Append(adm, time))
<1> DEFINE n == Len(adm)
           m == Len(dq)
           A == Append(adm, time)
           Q == Append(dq, time)
<1>1. Window \in Nat /\ MaxRequests \in Nat \ {0} /\ \A i \in 1..n : adm[i] \in Nat
  BY LimitAssumption, ElementOfSeq
<1>2. /\ Len(A) = n + 1 /\ A[n + 1] = time /\ \A i \in 1..n : A[i] = adm[i]
      /\ Len(Q) = m + 1 /\ Q[m + 1] = time /\ \A i \in 1..m : Q[i] = dq[i]
  OBVIOUS
<1>3. /\ m <= n /\ m \in Nat /\ n \in Nat
      /\ \A i \in 1..m : dq[i] = adm[(n - m) + i]
      /\ \A i \in 1..(n - m) : adm[i] + Window <= time
      /\ \A i \in 1..n : adm[i] <= time /\ \A j \in i..n : adm[i] <= adm[j]
  BY DEF Latest
<1> HIDE DEF n, m, A, Q
<1>4. Latest(Q, A, time)
  <2>1. Len(A) - Len(Q) = n - m
    BY <1>2, <1>3
  <2>2. \A i \in 1..Len(Q) : Q[i] = A[(n - m) + i]
    BY <1>2, <1>3
  <2>3. \A i \in 1..(n - m) : A[i] + Window <= time
    <3> TAKE i \in 1..(n - m)
    <3>1. i \in 1..n
      BY <1>3
    <3> QED
      BY <1>2, <1>3, <3>1
  <2>4. \A i \in 1..Len(A) : A[i] <= time /\ \A j \in i..Len(A) : A[i] <= A[j]
    <3> TAKE i \in 1..Len(A)
    <3>1. A[i] <= time
      <4>1. i \in 1..n \/ i = n + 1
        BY <1>2, <1>3
      <4> QED
        BY <1>2, <1>3, <4>1
    <3>2. \A j \in i..Len(A) : A[i] <= A[j]
      BY <1>2, <1>3, <3>1
    <3> QED
      BY <3>1, <3>2
  <2>5. Len(Q) <= Len(A) /\ Len(Q) <= MaxRequests
    BY <1>1, <1>2, <1>3 DEF m
  <2> QED
    BY <2>1, <2>2, <2>3, <2>4, <2>5 DEF Latest
<1>5. ASSUME NEW i \in 1..Len(A), i > MaxRequests
      PROVE  A[i] >= A[i - MaxRequests] + Window
  <2>1. i - MaxRequests \in 1..n
    BY <1>1, <1>2, <1>3, <1>5
  <2>2. CASE i <= n
    <3>1. adm[i] >= adm[i - MaxRequests] + Window
      BY <1>5, <2>1, <2>2 DEF n, Spread
    <3>2. A[i] = adm[i] /\ A[i - MaxRequests] = adm[i - MaxRequests]
      BY <1>1, <1>2, <2>1, <2>2, <1>5
    <3> QED
      BY <3>1, <3>2
  <2>3. CASE i = n + 1
    <3>1. i - MaxRequests \in 1..(n - m)
      BY <1>1, <1>3, <2>1, <2>3 DEF m
    <3> QED
      BY <1>1, <1>2, <1>3, <2>1, <2>3, <3>1
  <2> QED
    BY <1>2, <1>3, <2>2, <2>3
<1> QED
  BY <1>4, <1>5 DEF A, Q, Spread

\* check, whatever client it is for: the cleanup may delete any deque, the client's
\* own loses its old times and gets the new one if it is let through.
LEMMA CheckKeeps ==
  ASSUME ServerTypeOK, TimesAreLatest, RateBound, NEW c \in Client, Check(c), now' = now
  PROVE  /\ times' \in [Client -> Seq(Nat)] /\ admitted' \in [Client -> Seq(Nat)]
         /\ lastCleanup' \in Nat
         /\ TimesAreLatest' /\ RateBound'
<1>1. /\ now \in Nat /\ times \in [Client -> Seq(Nat)] /\ admitted \in [Client -> Seq(Nat)]
      /\ lastCleanup \in Nat /\ Window \in Nat /\ MaxRequests \in Nat /\ Capacity \in Nat
      /\ MaxRequests <= Capacity
  BY LimitAssumption DEF ServerTypeOK
<1>2. \A d \in Client : Latest(times[d], admitted[d], now)
  BY DEF TimesAreLatest
<1>3. \A d \in Client : Cleaned[d] \in Seq(Nat) /\ Latest(Cleaned[d], admitted[d], now)
  <2> TAKE d \in Client
  <2>1. Cleaned[d] = times[d] \/
          (times[d] # <<>> /\ times[d][Len(times[d])] <= now - Window /\ Cleaned[d] = <<>>)
    BY DEF Cleaned
  <2>2. times[d] \in Seq(Nat) /\ admitted[d] \in Seq(Nat) /\ <<>> \in Seq(Nat)
    BY <1>1
  <2>3. CASE Cleaned[d] = times[d]
    BY <1>2, <2>2, <2>3
  <2>4. CASE times[d] # <<>> /\ times[d][Len(times[d])] <= now - Window /\ Cleaned[d] = <<>>
    BY <1>1, <1>2, <2>2, <2>4, LatestCleaned
  <2> QED
    BY <2>1, <2>3, <2>4
<1> DEFINE recent == Recent(Cleaned[c])
<1>4. recent \in Seq(Nat) /\ Latest(recent, admitted[c], now)
  BY <1>1, <1>3, RecentIsEnd, LatestRecent
<1>5. Cleaned \in [Client -> Seq(Nat)]
  <2>1. Cleaned = [d \in Client |-> Cleaned[d]]
    BY <1>1 DEF Cleaned
  <2> HIDE DEF recent
  <2> QED
    BY <1>3, <2>1
<1>6. lastCleanup' \in Nat
  BY <1>1 DEF Check
<1>7. CASE Admits(c)
  <2>1. Len(recent) < MaxRequests /\ Kept(recent) = Append(recent, now)
    BY <1>1, <1>4, <1>7 DEF Admits, Kept
  <2>2. /\ times' = [Cleaned EXCEPT ![c] = Append(recent, now)]
        /\ admitted' = [admitted EXCEPT ![c] = Append(admitted[c], now)]
    BY <1>7, <2>1 DEF Check
  <2>3. Spread(admitted[c])
    BY DEF RateBound
  <2> HIDE DEF recent
  <2>4. /\ Latest(Append(recent, now), Append(admitted[c], now), now)
        /\ Spread(Append(admitted[c], now))
    BY <1>1, <1>4, <2>1, <2>3, LatestAdmitted
  <2>5. times' \in [Client -> Seq(Nat)] /\ admitted' \in [Client -> Seq(Nat)]
    BY <1>1, <1>4, <1>5, <2>2
  <2>6. /\ times'[c] = Append(recent, now) /\ admitted'[c] = Append(admitted[c], now)
        /\ \A d \in Client \ {c} : times'[d] = Cleaned[d] /\ admitted'[d] = admitted[d]
    BY <1>1, <1>5, <2>2
  <2>7. TimesAreLatest'
    <3> SUFFICES ASSUME NEW d \in Client
                 PROVE  Latest(times'[d], admitted'[d], now)
      BY DEF TimesAreLatest, Latest
    <3> QED
      BY <1>3, <2>4, <2>6
  <2>8. RateBound'
    <3> SUFFICES ASSUME NEW d \in Client
                 PROVE  Spread(admitted'[d])
      BY DEF RateBound, Spread
    <3> QED
      BY <2>3, <2>4, <2>6 DEF RateBound
  <2> QED
    BY <1>6, <2>5, <2>7, <2>8
<1>8. CASE ~ Admits(c)
  <2>1. times' = [Cleaned EXCEPT ![c] = recent] /\ admitted' = admitted
    BY <1>8 DEF Check
  <2> HIDE DEF recent
  <2>2. times' \in [Client -> Seq(Nat)] /\ admitted' \in [Client -> Seq(Nat)]
    BY <1>1, <1>4, <1>5, <2>1
  <2>3. TimesAreLatest'
    <3> SUFFICES ASSUME NEW d \in Client
                 PROVE  Latest(times'[d], admitted'[d], now)
      BY DEF TimesAreLatest, Latest
    <3> QED
      BY <1>3, <1>4, <1>5, <2>1
  <2>4. RateBound'
    BY <2>1 DEF RateBound
  <2> QED
    BY <1>6, <2>2, <2>3, <2>4
<1> QED
  BY <1>7, <1>8

-----------------------------------------------------------------------------
(***************************************************************************)
(* The audit files.                                                        *)
(***************************************************************************)
\* Files are accounted for with the cost d + e of a change where they were before.
LEMMA CostOfChange ==
  ASSUME NEW a \in AuditFiles, NEW b \in AuditFiles, NEW n \in Nat, NEW m \in Nat, Accounted(a, n),
         NEW t \in Tenant, NEW u \in Tenant, NEW d \in 0..1, NEW e \in 0..1,
         \A x \in Tenant :
            Missed(b)[x] = Missed(a)[x] + (IF x = t THEN d ELSE 0) + (IF x = u THEN e ELSE 0),
         d + e + AtStake(b) <= AtStake(a) + 2 * (m - n),
         n <= m, b.cut => a.cut \/ n < m
  PROVE  Accounted(b, m)
<1>1. /\ Missed(a) \in [Tenant -> Int] /\ Missed(b) \in [Tenant -> Int]
      /\ \A x \in Tenant : /\ Missed(a)[x] = a.logged[x] - Counted(a, x)
                           /\ Missed(b)[x] = b.logged[x] - Counted(b, x)
                           /\ a.logged[x] \in Nat /\ Counted(a, x) \in Nat
                           /\ b.logged[x] \in Nat /\ Counted(b, x) \in Nat
  BY DEF Missed, Counted, AuditFiles
<1>2. \A x \in Tenant : Counted(b, x) <= b.logged[x]
  <2> TAKE x \in Tenant
  <2>1. Missed(a)[x] >= 0
    BY <1>1 DEF Accounted
  <2>2. Missed(b)[x] >= 0
    <3> HIDE DEF Missed
    <3> QED
      BY <1>1, <2>1
  <2> QED
    BY <1>1, <2>2
<1>3. AtStake(a) \in 0..2 /\ AtStake(b) \in 0..2
  BY DEF AtStake
<1>4. SumOver(Missed(b), Tenant) = SumOver(Missed(a), Tenant) + d + e /\ SumOver(Missed(a), Tenant) \in Int
  <2>1. IsFiniteSet(Tenant) /\ d \in Int /\ e \in Int
    BY TenantAssumption
  <2> DEFINE F == Missed(a)
             H == Missed(b)
  <2>2. F \in [Tenant -> Int] /\ H \in [Tenant -> Int]
    BY <1>1
  <2>3. \A x \in Tenant : H[x] = F[x] + (IF x = t THEN d ELSE 0) + (IF x = u THEN e ELSE 0)
    OBVIOUS
  <2> HIDE DEF F, H
  <2> DEFINE G == [F EXCEPT ![t] = @ + d]
  <2>4. G \in [Tenant -> Int] /\ G[t] = F[t] + d /\ \A x \in Tenant \ {t} : G[x] = F[x]
    BY <2>1, <2>2
  <2>5. H[u] = G[u] + e /\ \A x \in Tenant \ {u} : H[x] = G[x]
    BY <2>2, <2>3, <2>4
  <2>6. F[t] \in Int /\ G[u] \in Int
    BY <2>2, <2>4
  <2> HIDE DEF G
  <2>7. SumOver(F, Tenant) \in Int /\ SumOver(G, Tenant) = SumOver(F, Tenant) + G[t] - F[t]
    <3>1. IsFiniteSet(Tenant)
      BY <2>1
    <3>2. F \in [Tenant -> Int] /\ G \in [Tenant -> Int] /\ \A x \in Tenant \ {t} : G[x] = F[x]
      BY <2>2, <2>4
    <3> QED
      BY <3>1, <3>2, SumChanges
  <2>8. SumOver(H, Tenant) = SumOver(G, Tenant) + H[u] - G[u]
    <3>1. IsFiniteSet(Tenant)
      BY <2>1
    <3>2. G \in [Tenant -> Int] /\ H \in [Tenant -> Int] /\ \A x \in Tenant \ {u} : H[x] = G[x]
      BY <2>2, <2>4, <2>5
    <3> QED
      BY <3>1, <3>2, SumChanges
  <2>9. SumOver(F, Tenant) \in Int /\ SumOver(H, Tenant) = SumOver(F, Tenant) + d + e
    BY <2>1, <2>4, <2>5, <2>6, <2>7, <2>8
  <2> QED
    BY <2>9 DEF F, H
<1>5. SumOver(Missed(a), Tenant) + AtStake(a) <= 2 * n
  BY DEF Accounted
<1>6. b.cut => m > 0
  BY DEF Accounted
<1> QED
  BY <1>2, <1>3, <1>4, <1>5, <1>6 DEF Accounted

\* An event that is written, whatever the file ends with.
LEMMA LogAccounted ==
  ASSUME NEW a \in AuditFiles, NEW t \in Tenant, NEW n \in Nat, Accounted(a, n)
  PROVE  Log(a, t) \in AuditFiles /\ Accounted(Log(a, t), n)
<1> DEFINE b == Log(a, t)
<1>1. /\ a.tail \in Tenant \union {NoTail, Torn} /\ a.lines \in [Tenant -> Nat] /\ a.logged \in [Tenant -> Nat]
      /\ NoTail \notin Tenant /\ Torn \notin Tenant /\ NoTail # Torn
  BY TenantAssumption DEF AuditFiles, NoTail, Torn
<1>2. /\ b.lines = (IF a.tail = NoTail THEN [a.lines EXCEPT ![t] = @ + 1] ELSE a.lines)
      /\ b.tail = NoTail /\ b.logged = [a.logged EXCEPT ![t] = @ + 1]
      /\ b.cut = a.cut /\ a.cut \in BOOLEAN
  BY DEF Log, AuditFiles
<1>3. b \in AuditFiles
  BY <1>1, <1>2 DEF Log, AuditFiles
<1> HIDE DEF b
<1>4. AtStake(b) = 0
  BY <1>1, <1>2 DEF AtStake
<1>5. CASE a.tail = NoTail
  <2>1. ASSUME NEW x \in Tenant
        PROVE  Missed(b)[x] = Missed(a)[x] + (IF x = t THEN 0 ELSE 0) + (IF x = t THEN 0 ELSE 0)
    <3>1. /\ Counted(b, x) = b.lines[x] /\ Counted(a, x) = a.lines[x]
          /\ a.lines[x] \in Nat /\ a.logged[x] \in Nat
      BY <1>1, <1>2, <1>5 DEF Counted
    <3>2. CASE x = t
      BY <1>1, <1>2, <1>5, <3>1, <3>2 DEF Missed
    <3>3. CASE x # t
      BY <1>1, <1>2, <1>5, <3>1, <3>3 DEF Missed
    <3> QED
      BY <3>2, <3>3
  <2>2. AtStake(a) = 0
    BY <1>1, <1>5 DEF AtStake
  <2>3. Accounted(b, n)
    BY <1>2, <1>3, <1>4, <2>1, <2>2, CostOfChange
  <2> QED
    BY <1>3, <2>3 DEF b
<1>6. CASE a.tail = Torn
  <2>1. \A x \in Tenant : Missed(b)[x] = Missed(a)[x] + (IF x = t THEN 1 ELSE 0) + (IF x = t THEN 0 ELSE 0)
    BY <1>1, <1>2, <1>6 DEF Missed, Counted
  <2>2. AtStake(a) = 1
    BY <1>1, <1>6 DEF AtStake
  <2>3. Accounted(b, n)
    BY <1>2, <1>3, <1>4, <2>1, <2>2, CostOfChange
  <2> QED
    BY <1>3, <2>3 DEF b
<1>7. CASE a.tail \in Tenant
  <2> DEFINE u == a.tail
  <2>1. \A x \in Tenant : Missed(b)[x] = Missed(a)[x] + (IF x = t THEN 1 ELSE 0) + (IF x = u THEN 1 ELSE 0)
    BY <1>1, <1>2, <1>7 DEF Missed, Counted
  <2>2. AtStake(a) = 2
    BY <1>1, <1>7 DEF AtStake
  <2>3. u \in Tenant
    BY <1>7
  <2> HIDE DEF u
  <2>4. Accounted(b, n)
    BY <1>2, <1>3, <1>4, <2>1, <2>2, <2>3, CostOfChange
  <2> QED
    BY <1>3, <2>4 DEF b
<1> QED
  BY <1>1, <1>5, <1>6, <1>7

\* An event of which nothing, a part or all but the newline is written.
LEMMA PartAccounted ==
  ASSUME NEW a \in AuditFiles, NEW t \in Tenant, NEW n \in Nat, Accounted(a, n),
         NEW b \in AuditFiles, b.lines = a.lines, b.logged = [a.logged EXCEPT ![t] = @ + 1],
         NEW end \in {a.tail, Torn, IF a.tail = NoTail THEN t ELSE Torn}, b.tail = end
  PROVE  Accounted(b, n + 1)
<1>1. /\ a.tail \in Tenant \union {NoTail, Torn} /\ a.lines \in [Tenant -> Nat] /\ a.logged \in [Tenant -> Nat]
      /\ NoTail \notin Tenant /\ Torn \notin Tenant /\ NoTail # Torn
  BY TenantAssumption DEF AuditFiles, NoTail, Torn
<1>2. n + 1 \in Nat /\ n <= n + 1 /\ (b.cut => a.cut \/ n < n + 1)
  OBVIOUS
<1>5. AtStake(a) = (IF a.tail = NoTail THEN 0 ELSE IF a.tail = Torn THEN 1 ELSE 2)
  BY <1>1 DEF AtStake
<1>6. AtStake(b) = (IF end = NoTail THEN 0 ELSE IF end = Torn THEN 1 ELSE 2)
  BY <1>1 DEF AtStake
<1>7. CASE end = a.tail
  <2>1. \A x \in Tenant : Missed(b)[x] = Missed(a)[x] + (IF x = t THEN 1 ELSE 0) + (IF x = t THEN 0 ELSE 0)
    BY <1>1, <1>7 DEF Missed, Counted
  <2>2. 1 + 0 + AtStake(b) <= AtStake(a) + 2 * ((n + 1) - n)
    BY <1>1, <1>5, <1>6, <1>7
  <2> QED
    BY <1>2, <2>1, <2>2, CostOfChange
<1>8. CASE end = Torn /\ a.tail \notin Tenant
  <2>1. \A x \in Tenant : Missed(b)[x] = Missed(a)[x] + (IF x = t THEN 1 ELSE 0) + (IF x = t THEN 0 ELSE 0)
    BY <1>1, <1>8 DEF Missed, Counted
  <2>2. 1 + 0 + AtStake(b) <= AtStake(a) + 2 * ((n + 1) - n)
    BY <1>1, <1>5, <1>6, <1>8
  <2> QED
    BY <1>2, <2>1, <2>2, CostOfChange
<1>9. CASE end = Torn /\ a.tail \in Tenant
  <2> DEFINE u == a.tail
  <2>1. \A x \in Tenant : Missed(b)[x] = Missed(a)[x] + (IF x = t THEN 1 ELSE 0) + (IF x = u THEN 1 ELSE 0)
    BY <1>1, <1>9 DEF Missed, Counted
  <2>2. 1 + 1 + AtStake(b) <= AtStake(a) + 2 * ((n + 1) - n)
    BY <1>1, <1>5, <1>6, <1>9
  <2>3. u \in Tenant
    BY <1>9
  <2> HIDE DEF u
  <2> QED
    BY <1>2, <2>1, <2>2, <2>3, CostOfChange
<1>10. CASE end = t /\ a.tail = NoTail
  <2>1. \A x \in Tenant : Missed(b)[x] = Missed(a)[x] + (IF x = t THEN 0 ELSE 0) + (IF x = t THEN 0 ELSE 0)
    BY <1>1, <1>10 DEF Missed, Counted
  <2>2. 0 + 0 + AtStake(b) <= AtStake(a) + 2 * ((n + 1) - n)
    BY <1>1, <1>5, <1>6, <1>10
  <2> QED
    BY <1>2, <2>1, <2>2, CostOfChange
<1> QED
  BY <1>1, <1>7, <1>8, <1>9, <1>10

\* An event whose write failed: it may be in the file all the same.
LEMMA UnwrittenAccounted ==
  ASSUME NEW a \in AuditFiles, NEW t \in Tenant, NEW n \in Nat, Accounted(a, n),
         NEW b \in Unwritten(a, t)
  PROVE  b \in AuditFiles /\ Accounted(b, n + 1)
<1>1. CASE b = Log(a, t)
  <2>1. b \in AuditFiles /\ Accounted(b, n)
    BY <1>1, LogAccounted
  <2>2. SumOver(Missed(b), Tenant) \in Int /\ AtStake(b) \in 0..2
    <3>1. Missed(b) \in [Tenant -> Int]
      BY <2>1 DEF Missed, Counted, AuditFiles
    <3> QED
      BY <3>1, TenantAssumption, SumTyped DEF AtStake
  <2> QED
    BY <2>1, <2>2 DEF Accounted
<1>2. CASE \E end \in {a.tail, Torn, IF a.tail = NoTail THEN t ELSE Torn} :
             b = [a EXCEPT !.logged[t] = @ + 1, !.tail = end]
  <2>1. PICK end \in {a.tail, Torn, IF a.tail = NoTail THEN t ELSE Torn} :
          b = [a EXCEPT !.logged[t] = @ + 1, !.tail = end]
    BY <1>2
  <2>2. b.lines = a.lines /\ b.logged = [a.logged EXCEPT ![t] = @ + 1] /\ b.tail = end
    BY <2>1 DEF AuditFiles
  <2>3. b = [lines |-> a.lines, tail |-> end, cut |-> a.cut, logged |-> [a.logged EXCEPT ![t] = @ + 1]]
    BY <2>1 DEF AuditFiles
  <2>4. b \in AuditFiles
    BY <2>3 DEF AuditFiles
  <2> QED
    BY <2>2, <2>4, PartAccounted
<1>3. CASE b = [a EXCEPT !.logged[t] = @ + 1, !.tail = Torn, !.cut = TRUE]
  <2>1. b.lines = a.lines /\ b.logged = [a.logged EXCEPT ![t] = @ + 1] /\ b.tail = Torn
    BY <1>3 DEF AuditFiles
  <2>2. b = [lines |-> a.lines, tail |-> Torn, cut |-> TRUE, logged |-> [a.logged EXCEPT ![t] = @ + 1]]
    BY <1>3 DEF AuditFiles
  <2>3. b \in AuditFiles
    BY <2>2 DEF AuditFiles
  <2> QED
    BY <2>1, <2>3, PartAccounted
<1> QED
  BY <1>1, <1>2, <1>3 DEF Unwritten

LEMMA OutcomeAccounted ==
  ASSUME NEW a \in AuditFiles, NEW t \in Tenant, NEW n \in Nat, Accounted(a, n),
         NEW o \in Outcomes(a, t)
  PROVE  /\ o.files \in AuditFiles /\ o.failed \in 0..1
         /\ Accounted(o.files, n + o.failed)
<1>1. CASE o = [files |-> Log(a, t), failed |-> 0]
  BY <1>1, LogAccounted
<1>2. CASE o \in [files : Unwritten(a, t), failed : {1}]
  BY <1>2, UnwrittenAccounted
<1> QED
  BY <1>1, <1>2 DEF Outcomes

\* The events of another day go to a new file: the tail of the old one is a line.
LEMMA NewDayAccounted ==
  ASSUME NEW a \in AuditFiles, NEW n \in Nat, Accounted(a, n)
  PROVE  Closed(a) \in AuditFiles /\ Accounted(Closed(a), n)
<1> DEFINE b == Closed(a)
<1>1. /\ a.tail \in Tenant \union {NoTail, Torn} /\ a.lines \in [Tenant -> Nat] /\ a.logged \in [Tenant -> Nat]
      /\ NoTail \notin Tenant /\ Torn \notin Tenant /\ NoTail # Torn
  BY TenantAssumption DEF AuditFiles, NoTail, Torn
<1> DEFINE lines == IF a.tail \in Tenant THEN [a.lines EXCEPT ![a.tail] = @ + 1] ELSE a.lines
<1>2. b = [lines |-> lines, tail |-> NoTail, cut |-> a.cut, logged |-> a.logged] /\ a.cut \in BOOLEAN
  BY DEF Closed, AuditFiles
<1> HIDE DEF b
<1>3. /\ b \in AuditFiles
      /\ b.lines = lines /\ b.tail = NoTail /\ b.logged = a.logged /\ b.cut = a.cut
  <2>1. lines \in [Tenant -> Nat] /\ NoTail \in Tenant \union {NoTail, Torn}
    BY <1>1
  <2> HIDE DEF lines
  <2> QED
    BY <1>1, <1>2, <2>1 DEF AuditFiles
<1>4. \A x \in Tenant : Missed(b)[x] = Missed(a)[x]
  BY <1>1, <1>3 DEF Missed, Counted
<1>5. Missed(b) = Missed(a) /\ AtStake(b) <= AtStake(a)
  BY <1>1, <1>3, <1>4 DEF Missed, AtStake
<1>6. \A x \in Tenant : Counted(b, x) <= b.logged[x]
  BY <1>1, <1>3 DEF Accounted, Counted
<1>7. SumOver(Missed(a), Tenant) \in Int /\ AtStake(a) \in 0..2 /\ AtStake(b) \in 0..2
  <2>1. Missed(a) \in [Tenant -> Int]
    BY <1>1 DEF Missed, Counted
  <2> QED
    BY <2>1, TenantAssumption, SumTyped DEF AtStake
<1> QED
  BY <1>3, <1>5, <1>6, <1>7 DEF Accounted, b

-----------------------------------------------------------------------------
(***************************************************************************)
(* The server, for any number of clients, tenants, requests and failures.  *)
(***************************************************************************)
ServerInvariant == ServerTypeOK /\ TimesAreLatest /\ RateBound /\ MissesAccounted

LEMMA ServerStarts == ServerInit => ServerInvariant
<1> SUFFICES ASSUME ServerInit
             PROVE  ServerInvariant
  OBVIOUS
<1>1. ServerTypeOK
  BY DEF ServerInit, ServerTypeOK, AuditFiles
<1>2. TimesAreLatest /\ RateBound
  <2>1. /\ \A c \in Client : times[c] = <<>> /\ admitted[c] = <<>>
        /\ Len(<<>>) = 0 /\ MaxRequests \in Nat
    BY LimitAssumption DEF ServerInit
  <2>2. Latest(<<>>, <<>>, now) /\ Spread(<<>>)
    BY <2>1 DEF Latest, Spread
  <2> QED
    BY <2>1, <2>2 DEF TimesAreLatest, RateBound
<1>3. MissesAccounted
  <2>1. \A t \in Tenant : Missed(audit)[t] = 0 /\ Counted(audit, t) <= audit.logged[t]
    BY TenantAssumption DEF ServerInit, Missed, Counted
  <2>2. SumOver(Missed(audit), Tenant) = 0
    BY <2>1, TenantAssumption, SumOfZeros
  <2>3. AtStake(audit) = 0 /\ failures = 0 /\ ~ audit.cut
    BY DEF ServerInit, AtStake, NoTail, Torn
  <2> QED
    BY <2>1, <2>2, <2>3 DEF MissesAccounted, Accounted
<1> QED
  BY <1>1, <1>2, <1>3 DEF ServerInvariant

\* A server that stops forgets its deques, and with them whom it let through.
LEMMA StoppedKeeps ==
  ASSUME ServerTypeOK, Stopped
  PROVE  /\ times' \in [Client -> Seq(Nat)] /\ admitted' \in [Client -> Seq(Nat)]
         /\ lastCleanup' \in Nat /\ serving' \in BOOLEAN /\ working' \in [Tenant -> Nat]
         /\ now' \in Nat
         /\ TimesAreLatest' /\ RateBound'
<1>1. /\ times' \in [Client -> Seq(Nat)] /\ admitted' \in [Client -> Seq(Nat)]
      /\ lastCleanup' \in Nat /\ serving' \in BOOLEAN /\ working' \in [Tenant -> Nat]
      /\ now' \in Nat
  <2>1. <<>> \in Seq(Nat)
    OBVIOUS
  <2>2. /\ times' = [c \in Client |-> <<>>] /\ admitted' = [c \in Client |-> <<>>]
        /\ lastCleanup' = 0 /\ serving' = FALSE /\ working' = [t \in Tenant |-> 0]
        /\ now' = now /\ now \in Nat
    BY DEF Stopped, ServerTypeOK
  <2>3. times' \in [Client -> Seq(Nat)] /\ admitted' \in [Client -> Seq(Nat)]
    BY <2>1, <2>2
  <2> QED
    BY <2>2, <2>3
<1>2. /\ \A c \in Client : times'[c] = <<>> /\ admitted'[c] = <<>>
      /\ Len(<<>>) = 0 /\ MaxRequests \in Nat
  BY LimitAssumption DEF Stopped
<1>3. \A c \in Client : Latest(times'[c], admitted'[c], now') /\ Spread(admitted'[c])
  <2>1. Latest(<<>>, <<>>, now') /\ Spread(<<>>)
    BY <1>2 DEF Latest, Spread
  <2> QED
    BY <1>2, <2>1
<1> QED
  BY <1>1, <1>3 DEF TimesAreLatest, RateBound, Latest, Spread

LEMMA ServerStep == ServerInvariant /\ [ServerNext]_serverVars => ServerInvariant'
<1> SUFFICES ASSUME ServerInvariant, [ServerNext]_serverVars
             PROVE  ServerInvariant'
  OBVIOUS
<1>0. /\ ServerTypeOK /\ TimesAreLatest /\ RateBound /\ MissesAccounted
      /\ audit \in AuditFiles /\ failures \in Nat /\ Accounted(audit, failures)
  BY DEF ServerInvariant, ServerTypeOK, MissesAccounted
<1>1. ASSUME UNCHANGED <<audit, failures>>
      PROVE  MissesAccounted'
  BY <1>0, <1>1 DEF MissesAccounted
<1>2. ASSUME UNCHANGED <<times, admitted, now>>
      PROVE  TimesAreLatest' /\ RateBound'
  BY <1>0, <1>2 DEF TimesAreLatest, RateBound, Latest, Spread
<1>3. ASSUME audit' \in AuditFiles, failures' \in Nat, Accounted(audit', failures')
      PROVE  MissesAccounted'
  BY <1>3 DEF MissesAccounted
<1>4. CASE Tick
  <2>1. ServerTypeOK'
    BY <1>0, <1>4 DEF Tick, limiterVars, ServerTypeOK
  <2>2. UNCHANGED <<times, admitted, audit, failures>> /\ now' = now + 1
    BY <1>4 DEF Tick, limiterVars
  <2>3. TimesAreLatest'
    <3> SUFFICES ASSUME NEW c \in Client
                 PROVE  Latest(times[c], admitted[c], now + 1)
      BY <2>2 DEF TimesAreLatest, Latest
    <3>1. times[c] \in Seq(Nat) /\ admitted[c] \in Seq(Nat) /\ now \in Nat /\ Latest(times[c], admitted[c], now)
      BY <1>0 DEF ServerTypeOK, TimesAreLatest
    <3> QED
      BY <3>1, LatestLater
  <2>4. RateBound'
    BY <1>0, <2>2 DEF RateBound
  <2> QED
    BY <1>1, <2>1, <2>2, <2>3, <2>4 DEF ServerInvariant
<1>5. ASSUME NEW c \in Client, Request(c)
      PROVE  ServerInvariant'
  <2>1. Check(c) /\ UNCHANGED <<now, serving, working, audit, failures>>
    BY <1>5 DEF Request
  <2>2. /\ times' \in [Client -> Seq(Nat)] /\ admitted' \in [Client -> Seq(Nat)]
        /\ lastCleanup' \in Nat /\ TimesAreLatest' /\ RateBound'
    BY <1>0, <2>1, CheckKeeps
  <2>3. ServerTypeOK'
    BY <1>0, <2>1, <2>2 DEF ServerTypeOK
  <2> QED
    BY <1>1, <2>1, <2>2, <2>3 DEF ServerInvariant
<1>6. ASSUME NEW c \in Client, NEW t \in Tenant, IndustryRequest(c, t)
      PROVE  ServerInvariant'
  <2>1. Check(c) /\ UNCHANGED <<now, serving, audit, failures>> /\ working' = [working EXCEPT ![t] = @ + 1]
    BY <1>6 DEF IndustryRequest
  <2>2. /\ times' \in [Client -> Seq(Nat)] /\ admitted' \in [Client -> Seq(Nat)]
        /\ lastCleanup' \in Nat /\ TimesAreLatest' /\ RateBound'
    BY <1>0, <2>1, CheckKeeps
  <2>3. ServerTypeOK'
    BY <1>0, <2>1, <2>2 DEF ServerTypeOK
  <2> QED
    BY <1>1, <2>1, <2>2, <2>3 DEF ServerInvariant
<1>7. ASSUME NEW t \in Tenant, Answer(t)
      PROVE  ServerInvariant'
  <2>1. PICK route \in Outcomes(audit, t) :
          \E error \in {[files |-> route.files, failed |-> 0]} \union Outcomes(route.files, t) :
             failures' = failures + route.failed + error.failed /\ audit' = error.files
    BY <1>7 DEF Answer
  <2>2. PICK error \in {[files |-> route.files, failed |-> 0]} \union Outcomes(route.files, t) :
             failures' = failures + route.failed + error.failed /\ audit' = error.files
    BY <2>1
  <2>3. /\ route.files \in AuditFiles /\ route.failed \in 0..1
        /\ Accounted(route.files, failures + route.failed)
    BY <1>0, OutcomeAccounted
  <2>4. /\ error.files \in AuditFiles /\ error.failed \in 0..1
        /\ Accounted(error.files, (failures + route.failed) + error.failed)
    <3>1. failures + route.failed \in Nat
      BY <1>0, <2>3
    <3>2. CASE error = [files |-> route.files, failed |-> 0]
      <4>1. error.files = route.files /\ error.failed = 0
        BY <3>2
      <4>2. (failures + route.failed) + error.failed = failures + route.failed
        BY <3>1, <4>1
      <4> QED
        BY <2>3, <4>1, <4>2
    <3>3. CASE error \in Outcomes(route.files, t)
      BY <2>3, <3>1, <3>3, OutcomeAccounted
    <3> QED
      BY <3>2, <3>3
  <2>5. failures' \in Nat /\ failures' = (failures + route.failed) + error.failed
    BY <1>0, <2>2, <2>3, <2>4
  <2>6. audit' \in AuditFiles /\ Accounted(audit', failures')
    BY <2>2, <2>4, <2>5
  <2>7. UNCHANGED <<now, times, lastCleanup, admitted, serving>>
    BY <1>7 DEF Answer, limiterVars
  <2>8. working' \in [Tenant -> Nat]
    BY <1>0, <1>7 DEF Answer, ServerTypeOK
  <2>9. ServerTypeOK'
    BY <1>0, <2>5, <2>6, <2>7, <2>8 DEF ServerTypeOK
  <2> QED
    BY <1>2, <1>3, <2>5, <2>6, <2>7, <2>9 DEF ServerInvariant
<1>8. ASSUME NEW t \in Tenant, AnswerFails(t)
      PROVE  ServerInvariant'
  <2>1. UNCHANGED <<now, times, lastCleanup, admitted, serving, audit, failures>>
    BY <1>8 DEF AnswerFails, limiterVars
  <2>2. ServerTypeOK'
    BY <1>0, <1>8, <2>1 DEF AnswerFails, ServerTypeOK
  <2> QED
    BY <1>1, <1>2, <2>1, <2>2 DEF ServerInvariant
<1>9. CASE NewDay
  <2>1. audit' = Closed(audit) /\ UNCHANGED <<now, times, lastCleanup, admitted, serving, working, failures>>
    BY <1>9 DEF NewDay, limiterVars
  <2>2. audit' \in AuditFiles /\ Accounted(audit', failures')
    BY <1>0, <2>1, NewDayAccounted
  <2>3. ServerTypeOK'
    BY <1>0, <2>1, <2>2 DEF ServerTypeOK
  <2> QED
    BY <1>0, <1>2, <1>3, <2>1, <2>2, <2>3 DEF ServerInvariant
<1>10. CASE ServerCrash
  <2>1. Stopped /\ failures' = failures + 1
    BY <1>10 DEF ServerCrash
  <2>2. audit' \in AuditFiles /\ Accounted(audit', failures + 1)
    <3>1. CASE UNCHANGED audit
      <4>1. Missed(audit) \in [Tenant -> Int]
        BY <1>0 DEF Missed, Counted, AuditFiles
      <4>2. SumOver(Missed(audit), Tenant) \in Int /\ AtStake(audit) \in 0..2
        BY <4>1, TenantAssumption, SumTyped DEF AtStake
      <4> QED
        BY <1>0, <3>1, <4>2 DEF Accounted
    <3>2. CASE \E t \in Tenant : audit' \in Unwritten(audit, t)
      BY <1>0, <3>2, UnwrittenAccounted
    <3> QED
      BY <1>10, <3>1, <3>2 DEF ServerCrash
  <2>3. /\ times' \in [Client -> Seq(Nat)] /\ admitted' \in [Client -> Seq(Nat)]
        /\ lastCleanup' \in Nat /\ serving' \in BOOLEAN /\ working' \in [Tenant -> Nat]
        /\ now' \in Nat
        /\ TimesAreLatest' /\ RateBound'
    BY <1>0, <2>1, StoppedKeeps
  <2>4. ServerTypeOK'
    BY <1>0, <2>1, <2>2, <2>3 DEF ServerTypeOK
  <2> QED
    BY <1>0, <1>3, <2>1, <2>2, <2>3, <2>4 DEF ServerInvariant
<1>11. CASE ServerRestart
  <2>1. UNCHANGED <<now, times, lastCleanup, admitted, working, audit, failures>> /\ serving' = TRUE
    BY <1>11 DEF ServerRestart, limiterVars
  <2>2. ServerTypeOK'
    BY <1>0, <2>1 DEF ServerTypeOK
  <2> QED
    BY <1>1, <1>2, <2>1, <2>2 DEF ServerInvariant
<1>12. CASE UNCHANGED serverVars
  <2>1. UNCHANGED <<now, times, lastCleanup, admitted, serving, working, audit, failures>>
    BY <1>12 DEF serverVars
  <2>2. ServerTypeOK'
    BY <1>0, <2>1 DEF ServerTypeOK
  <2> QED
    BY <1>1, <1>2, <2>1, <2>2 DEF ServerInvariant
<1> QED
  BY <1>4, <1>5, <1>6, <1>7, <1>8, <1>9, <1>10, <1>11, <1>12 DEF ServerNext

\* No client gets more than max_requests requests through in any window
\* (RateLimiter.check, _periodic_cleanup).
THEOREM RateHolds == ServerSpec => []RateBound
<1>1. ServerInvariant => RateBound
  BY DEF ServerInvariant
<1> QED
  BY <1>1, ServerStarts, ServerStep, PTL DEF ServerSpec

\* A compliance report counts no event that was not logged and misses at most two
\* for each write that failed; it raises instead only after a write that failed
\* (AuditLogger.log, ComplianceReporter.generate).
THEOREM FewEventsMissed == ServerSpec => []ReportMissesFew
<1>1. ServerInvariant => ReportMissesFew
  <2> SUFFICES ASSUME ServerInvariant
               PROVE  ReportMissesFew
    OBVIOUS
  <2>1. audit \in AuditFiles /\ failures \in Nat /\ Accounted(audit, failures)
    BY DEF ServerInvariant, ServerTypeOK, MissesAccounted
  <2>2. Missed(audit) \in [Tenant -> Int]
    BY <2>1 DEF Missed, Counted, AuditFiles
  <2>3. SumOver(Missed(audit), Tenant) \in Int /\ AtStake(audit) \in 0..2
    BY <2>2, TenantAssumption, SumTyped DEF AtStake
  <2>4. ASSUME ~ audit.cut
        PROVE  \A total \in Report(audit) :
                 /\ \A t \in Tenant : total[t] = Counted(audit, t)
                 /\ [t \in Tenant |-> audit.logged[t] - total[t]] = Missed(audit)
    BY <2>4 DEF Report, Missed
  <2>5. (Report(audit) = {}) <=> audit.cut
    BY DEF Report
  <2>6. \A total \in Report(audit) :
          /\ \A t \in Tenant : total[t] <= audit.logged[t]
          /\ SumOver([t \in Tenant |-> audit.logged[t] - total[t]], Tenant) <= 2 * failures
    <3> SUFFICES ASSUME NEW total \in Report(audit)
                 PROVE  /\ \A t \in Tenant : total[t] <= audit.logged[t]
                        /\ SumOver([t \in Tenant |-> audit.logged[t] - total[t]], Tenant) <= 2 * failures
      OBVIOUS
    <3>1. ~ audit.cut
      BY <2>5
    <3>2. SumOver(Missed(audit), Tenant) <= 2 * failures
      BY <2>1, <2>3 DEF Accounted
    <3> QED
      BY <2>1, <2>4, <3>1, <3>2 DEF Accounted
  <2> QED
    BY <2>1, <2>5, <2>6 DEF ReportMissesFew, Accounted
<1> QED
  BY <1>1, ServerStarts, ServerStep, PTL DEF ServerSpec

=============================================================================
