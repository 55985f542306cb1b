----------------------- MODULE ChampionChallenger_proofs -----------------------
(***************************************************************************)
(* Proofs about ChampionChallenger for every set of models, every warm-up   *)
(* and every number of matches, registrations and rollbacks; and about      *)
(* Evolution, the pipeline that breeds and deploys the models, for every    *)
(* population, budget and number of crashes.                                *)
(***************************************************************************)
EXTENDS ChampionChallenger, Evolution, SequenceTheorems, FiniteSetTheorems, WellFoundedInduction, TLAPS

\* Every field of the arena has its type.
THEOREM TypeCorrect == Spec => []TypeOK
<1> USE NoneAssumption
<1>1. Init => TypeOK
    <2> SUFFICES ASSUME Init PROVE TypeOK
        OBVIOUS
    <2>1. matches \in Seq(Match)
        BY DEF Init
    <2>2. status \in [Names -> Status] /\ retired_at \in [Names -> Nat]
        BY DEF Init, Status
    <2>3. careful \in BOOLEAN /\ callbackRaised \in BOOLEAN
        BY DEF Init
    <2>4. QED
        BY <2>1, <2>2, <2>3 DEF Init, TypeOK
<1>2. TypeOK /\ [Next]_vars => TypeOK'
    <2> SUFFICES ASSUME TypeOK, [Next]_vars
                 PROVE  TypeOK'
        OBVIOUS
    <2> USE DEF TypeOK, counters
    <2>1. ASSUME NEW n \in Names, NEW s \in Status \ {"absent"}, Register(n, s)
          PROVE  TypeOK'
        BY <2>1 DEF Register, Status
    <2>2. ASSUME NEW n \in Names, NEW w \in Names \cup {None}, RunMatch(n, w)
          PROVE  TypeOK'
        <3>1. MatchRecord(n, w) \in Match
            BY <2>2 DEF RunMatch, MatchRecord, Match
        <3>2. matches' \in Seq(Match)
            BY <2>2, <3>1 DEF RunMatch
        <3>3. champion_wins' \in Nat /\ challenger_wins' \in Nat
            BY <2>2 DEF RunMatch, Tally
        <3> DEFINE Rest == /\ status' \in [Names -> Status]
                           /\ retired_at' \in [Names -> Nat]
                           /\ champion' \in Names \cup {None}
                           /\ deployments' \in Nat
                           /\ displaced' \in Names \cup {None}
                           /\ live' \in Names \cup {None}
                           /\ callbackRaised' \in BOOLEAN
        <3>4. Rest
            <4>1. champion \in Names /\ rollbacks \in Nat
                BY <2>2 DEF RunMatch
            <4>2. CASE Promote(n) /\ UNCHANGED callbackRaised
                <5>1. status' \in [Names -> Status]
                    BY <4>1, <4>2 DEF Promote, Status
                <5>2. retired_at' \in [Names -> Nat]
                    BY <4>1, <4>2 DEF Promote, Now
                <5>3. QED
                    BY <4>1, <4>2, <5>1, <5>2 DEF Promote
            <4>3. CASE NoPromotion /\ live' \in {live, n} /\ callbackRaised' = TRUE
                BY <4>3 DEF NoPromotion
            <4>4. CASE NoPromotion /\ UNCHANGED <<live, callbackRaised>>
                BY <4>4 DEF NoPromotion
            <4>5. QED
                BY <2>2, <4>2, <4>3, <4>4 DEF RunMatch
        <3>5. QED
            BY <2>2, <3>2, <3>3, <3>4 DEF RunMatch
    <2>3. ASSUME NEW t \in Names, Rollback(t)
          PROVE  TypeOK'
        <3>1. status' \in [Names -> Status]
            BY <2>3 DEF Rollback, Status
        <3>2. retired_at' \in [Names -> Nat]
            BY <2>3 DEF Rollback, Now
        <3>3. live' \in Names \cup {None} /\ callbackRaised' \in BOOLEAN
            BY <2>3 DEF Rollback
        <3>4. QED
            BY <2>3, <3>1, <3>2, <3>3 DEF Rollback
    <2>4. CASE UNCHANGED vars
        BY <2>4 DEF vars
    <2>5. QED
        BY <2>1, <2>2, <2>3, <2>4 DEF Next
<1>3. QED
    BY <1>1, <1>2, PTL DEF Spec

(***************************************************************************)
(* What the match list and the counters tell of each other.                *)
(***************************************************************************)

\* The wins stats() reports add up to the matches played, and each deployment
\* has a challenger's win of its own.
THEOREM MatchesAccounted == Spec => []MatchAccounting
<1>1. Init => MatchAccounting
    BY DEF Init, MatchAccounting
<1>2. TypeOK /\ MatchAccounting /\ [Next]_vars => MatchAccounting'
    <2> SUFFICES ASSUME TypeOK, MatchAccounting, [Next]_vars
                 PROVE  MatchAccounting'
        OBVIOUS
    <2> USE DEF TypeOK, MatchAccounting, counters
    <2>1. ASSUME NEW n \in Names, NEW s \in Status \ {"absent"}, Register(n, s)
          PROVE  MatchAccounting'
        BY <2>1 DEF Register
    <2>2. ASSUME NEW n \in Names, NEW w \in Names \cup {None}, RunMatch(n, w)
          PROVE  MatchAccounting'
        <3>1. Len(matches') = Len(matches) + 1
            BY <2>2 DEF RunMatch
        <3>2. CASE w = n
            <4>1. challenger_wins' = challenger_wins + 1 /\ champion_wins' = champion_wins
                BY <2>2, <3>2 DEF RunMatch, Tally
            <4>2. deployments' \in {deployments, deployments + 1}
                BY <2>2 DEF RunMatch, Promote, NoPromotion
            <4>3. QED
                BY <3>1, <4>1, <4>2
        <3>3. CASE w # n
            <4>1. challenger_wins' = challenger_wins /\ champion_wins' = champion_wins + 1
                BY <2>2, <3>3 DEF RunMatch, Tally
            <4>2. deployments' = deployments
                BY <2>2, <3>3 DEF RunMatch, NoPromotion
            <4>3. QED
                BY <3>1, <4>1, <4>2
        <3>4. QED
            BY <3>2, <3>3
    <2>3. ASSUME NEW t \in Names, Rollback(t)
          PROVE  MatchAccounting'
        BY <2>3 DEF Rollback
    <2>4. CASE UNCHANGED vars
        BY <2>4 DEF vars
    <2>5. QED
        BY <2>1, <2>2, <2>3, <2>4 DEF Next
<1>3. QED
    BY <1>1, <1>2, TypeCorrect, PTL DEF Spec

(***************************************************************************)
(* The succession of champions.  DatesInOrder is the strengthening that     *)
(* rollback needs: its sort by retirement date finds the champion replaced  *)
(* last because nobody else RETIRED has a date as late.                     *)
(***************************************************************************)
DatesInOrder ==
    /\ \A n \in Names : retired_at[n] <= deployments + rollbacks
    /\ displaced = None => Retired = {}
    /\ displaced # None =>
          /\ status[displaced] = "RETIRED"
          /\ \A r \in Retired \ {displaced} : retired_at[r] < retired_at[displaced]

Succession ==
    /\ OneChampion
    /\ careful => DatesInOrder
    /\ LiveIsChampion
    /\ champion = None => deployments + rollbacks = 0

\* As long as DatesInOrder holds, rollback has one target.
LEMMA OneTarget ==
    ASSUME TypeOK, DatesInOrder, NEW t \in RollbackTargets
    PROVE  t = displaced
BY DEF TypeOK, DatesInOrder, RollbackTargets, Retired

LEMMA SuccessionHolds == Spec => []Succession
<1> USE NoneAssumption
<1>1. Init => Succession
    BY DEF Init, Succession, OneChampion, DatesInOrder, Retired, LiveIsChampion
<1>2. TypeOK /\ Succession /\ [Next]_vars => Succession'
    <2> SUFFICES ASSUME TypeOK, Succession, [Next]_vars
                 PROVE  Succession'
        OBVIOUS
    <2> USE DEF TypeOK, Succession, OneChampion, LiveIsChampion
    <2>1. ASSUME NEW n \in Names, NEW s \in Status \ {"absent"}, Register(n, s)
          PROVE  Succession'
        <3>1. (champion = None => deployments + rollbacks = 0)'
            BY <2>1 DEF Register, counters
        <3>2. SUFFICES ASSUME careful' PROVE (OneChampion /\ DatesInOrder /\ LiveIsChampion)'
            BY <3>1
        <3>3. careful /\ status[n] = "absent" /\ s # "RETIRED" /\ (s = "CHAMPION" => champion = None)
            BY <2>1, <3>2 DEF Register
        <3>4. OneChampion'
            BY <2>1, <3>3 DEF Register
        <3>5. Retired' = Retired
            BY <2>1, <3>3 DEF Register, Retired
        <3>6. DatesInOrder'
            BY <2>1, <3>3, <3>5 DEF Register, DatesInOrder, Retired, counters
        <3>7. LiveIsChampion'
            BY <2>1, <3>3 DEF Register, counters
        <3>8. QED
            BY <3>4, <3>6, <3>7
    <2>2. ASSUME NEW n \in Names, NEW w \in Names \cup {None}, RunMatch(n, w)
          PROVE  Succession'
        <3>1. careful' = careful /\ rollbacks' = rollbacks
            BY <2>2 DEF RunMatch
        <3>2. CASE Promote(n) /\ UNCHANGED callbackRaised
            <4>1. champion \in Names
                BY <2>2 DEF RunMatch
            <4>2. OneChampion'
                BY <3>1, <3>2, <4>1 DEF Promote
            <4>3. ASSUME careful PROVE DatesInOrder'
                <5>1. CASE n = champion
                    <6>1. status' = status
                        BY <3>2, <4>1, <4>3, <5>1 DEF Promote
                    <6>2. Retired' = Retired /\ n \notin Retired
                        BY <4>3, <5>1, <6>1 DEF Retired
                    <6>3. displaced' = displaced
                        BY <3>2, <5>1 DEF Promote
                    <6>4. QED
                        BY <3>1, <3>2, <4>1, <4>3, <5>1, <6>1, <6>2, <6>3
                        DEF Promote, DatesInOrder, Now, Retired
                <5>2. CASE n # champion
                    <6>1. displaced' = champion /\ status'[champion] = "RETIRED"
                        BY <3>2, <4>1, <5>2 DEF Promote
                    <6>2. /\ retired_at'[champion] = deployments' + rollbacks'
                          /\ deployments' = deployments + 1
                        BY <3>1, <3>2, <4>1 DEF Promote, Now
                    <6>3. \A m \in Names \ {champion} : retired_at'[m] <= deployments + rollbacks
                        BY <3>2, <4>3 DEF Promote, DatesInOrder
                    <6>4. ASSUME NEW m \in Names \ {champion}
                          PROVE  retired_at'[m] \in Nat /\ retired_at'[m] < retired_at'[champion]
                        <7>1. retired_at'[m] = retired_at[m]
                            BY <3>2 DEF Promote
                        <7>2. QED
                            BY <3>1, <6>2, <6>3, <7>1
                    <6>5. \A m \in Names : retired_at'[m] <= deployments' + rollbacks'
                        BY <3>1, <6>2, <6>4
                    <6>6. \A r \in Retired' \ {champion} : retired_at'[r] < retired_at'[champion]
                        BY <6>4 DEF Retired
                    <6>7. QED
                        BY <4>1, <6>1, <6>5, <6>6, NoneAssumption DEF DatesInOrder
                <5>3. QED
                    BY <5>1, <5>2
            <4>4. QED
                BY <3>1, <3>2, <4>1, <4>2, <4>3 DEF Promote
        <3>3. CASE NoPromotion /\ (UNCHANGED <<live, callbackRaised>> \/ callbackRaised' = TRUE)
            BY <3>1, <3>3 DEF NoPromotion, DatesInOrder, Retired
        <3>4. QED
            BY <2>2, <3>2, <3>3 DEF RunMatch
    <2>3. ASSUME NEW t \in Names, Rollback(t)
          PROVE  Succession'
        <3>1. /\ careful' = careful
              /\ deployments' = deployments
              /\ rollbacks' = rollbacks + 1
              /\ champion \in Names
            BY <2>3 DEF Rollback
        <3>2. OneChampion'
            BY <2>3, <3>1 DEF Rollback
        <3>3. ASSUME careful PROVE DatesInOrder'
            <4>1. t # champion
                BY <2>3, <3>3 DEF Rollback, RollbackTargets, Retired
            <4>2. displaced' = champion /\ status'[champion] = "RETIRED"
                BY <2>3, <3>1, <4>1 DEF Rollback
            <4>3. retired_at'[champion] = deployments' + rollbacks'
                BY <2>3, <3>1 DEF Rollback, Now
            <4>4. \A m \in Names \ {champion} : retired_at'[m] <= deployments + rollbacks
                BY <2>3, <3>3 DEF Rollback, DatesInOrder
            <4>5. ASSUME NEW m \in Names \ {champion}
                  PROVE  retired_at'[m] \in Nat /\ retired_at'[m] < retired_at'[champion]
                <5>1. retired_at'[m] = retired_at[m]
                    BY <2>3 DEF Rollback
                <5>2. QED
                    BY <3>1, <4>3, <4>4, <5>1
            <4>6. \A m \in Names : retired_at'[m] <= deployments' + rollbacks'
                BY <3>1, <4>3, <4>5
            <4>7. \A r \in Retired' \ {champion} : retired_at'[r] < retired_at'[champion]
                BY <4>5 DEF Retired
            <4>8. QED
                BY <3>1, <4>2, <4>6, <4>7 DEF DatesInOrder
        <3>4. (LiveIsChampion /\ champion # None)'
            BY <2>3, <3>1 DEF Rollback
        <3>5. QED
            BY <3>1, <3>2, <3>3, <3>4
    <2>4. CASE UNCHANGED vars
        BY <2>4 DEF vars, counters, DatesInOrder, Retired
    <2>5. QED
        BY <2>1, <2>2, <2>3, <2>4 DEF Next
<1>3. QED
    BY <1>1, <1>2, TypeCorrect, PTL DEF Spec

\* The model the arena calls champion is the only one with that status.
THEOREM ChampionUnique == Spec => []OneChampion
BY SuccessionHolds, PTL DEF Succession

\* Without a failing callback the model in service is the champion.
THEOREM ServiceFollowsArena == Spec => []LiveIsChampion
BY SuccessionHolds, PTL DEF Succession

\* rollback finds the champion that was replaced last.
THEOREM RollbackFindsDisplaced == Spec => RollbackRestores
<1>1. TypeOK /\ Succession /\ [Next]_vars
          => [careful /\ rollbacks' # rollbacks => champion' = displaced]_vars
    <2> SUFFICES ASSUME TypeOK, Succession, Next, careful, rollbacks' # rollbacks
                 PROVE  champion' = displaced
        OBVIOUS
    <2>1. PICK t \in Names : Rollback(t)
        BY DEF Next, Register, RunMatch, counters
    <2>2. champion' = t /\ t \in RollbackTargets
        BY <2>1 DEF Rollback
    <2>3. QED
        BY <2>2, OneTarget DEF Succession
<1>2. QED
    BY <1>1, TypeCorrect, SuccessionHolds, PTL DEF Spec, RollbackRestores

\* Last5 is what the property asks for: it is the only set of at most five that
\* is closed towards the later matches and lacks none unless it is full.
LEMMA Last5Unique ==
    ASSUME NEW mine \in SUBSET Nat, IsFiniteSet(mine), NEW ms \in SUBSET mine,
           Cardinality(ms) <= 5,
           ms = mine \/ Cardinality(ms) = 5,
           \A i \in ms, j \in mine : j > i => j \in ms
    PROVE  Last5(mine) = ms
<1>1. ASSUME NEW i \in ms PROVE i \in Last5(mine)
    <2> DEFINE later == {j \in mine : j >= i}
    <2>1. later \subseteq ms
        <3>1. ASSUME NEW k \in later PROVE k \in ms
            <4>1. k = i \/ k > i
                BY <1>1, <3>1
            <4>2. QED
                BY <1>1, <3>1, <4>1
        <3>2. QED
            BY <3>1
    <2>2. IsFiniteSet(ms)
        BY FS_Subset
    <2>3. Cardinality(later) <= Cardinality(ms) /\ Cardinality(later) \in Nat /\ Cardinality(ms) \in Nat
        BY <2>1, <2>2, FS_Subset, FS_CardinalityType
    <2>4. QED
        BY <1>1, <2>3 DEF Last5
<1>2. ASSUME NEW i \in mine \ ms PROVE i \notin Last5(mine)
    <2> DEFINE later == {j \in mine : j >= i}
    <2>1. ms \cup {i} \subseteq later
        <3>1. ASSUME NEW k \in ms PROVE k > i
            <4>1. k # i /\ ~ (i > k)
                BY <1>2, <3>1
            <4>2. QED
                BY <1>2, <3>1, <4>1
        <3>2. QED
            BY <1>2, <3>1
    <2>2. IsFiniteSet(ms) /\ IsFiniteSet(later)
        BY FS_Subset
    <2>3. Cardinality(ms \cup {i}) = 6 /\ IsFiniteSet(ms \cup {i})
        <3>1. Cardinality(ms) = 5
            BY <1>2
        <3>2. Cardinality(ms \cup {i}) = Cardinality(ms) + 1 /\ IsFiniteSet(ms \cup {i})
            BY <1>2, <2>2, FS_AddElement
        <3>3. QED
            BY <3>1, <3>2
    <2>4. Cardinality(ms \cup {i}) <= Cardinality(later) /\ Cardinality(later) \in Nat
        BY <2>1, <2>2, FS_Subset, FS_CardinalityType
    <2>5. QED
        BY <1>2, <2>3, <2>4 DEF Last5
<1>3. QED
    BY <1>1, <1>2 DEF Last5

\* Only run_match deploys, and only a challenger that _should_deploy approved.
LEMMA OnlyEarned ==
    ASSUME TypeOK, Next, deployments' # deployments
    PROVE  /\ Cardinality(Against(matches', champion)) >= WarmupRounds
           /\ GoodRecord(matches', champion')
           /\ Len(matches') \in ByChallenger(matches', champion')
           /\ matches'[Len(matches')].winner = champion'
           /\ ByChallenger(matches', champion') \in SUBSET Nat
           /\ IsFiniteSet(ByChallenger(matches', champion'))
<1>1. PICK n \in Names, w \in Names \cup {None} : RunMatch(n, w)
    BY DEF Next, Register, Rollback, counters
<1>2. w = n /\ ShouldDeploy(matches', n) /\ champion' = n
    BY <1>1 DEF RunMatch, Promote, NoPromotion
<1>3. matches' = Append(matches, MatchRecord(n, n))
    BY <1>1, <1>2 DEF RunMatch
<1>4. /\ DOMAIN matches' = 1 .. Len(matches')
      /\ Len(matches') = Len(matches) + 1 /\ Len(matches) \in Nat
      /\ matches'[Len(matches')] = MatchRecord(n, n)
    BY <1>3 DEF TypeOK
<1>5. Len(matches') \in DOMAIN matches'
    BY <1>4
<1>6. ByChallenger(matches', n) \in SUBSET Nat /\ IsFiniteSet(ByChallenger(matches', n))
    <2>1. IsFiniteSet(1 .. Len(matches'))
        BY <1>4, FS_Interval
    <2>2. QED
        BY <1>4, <2>1, FS_Subset DEF ByChallenger
<1>7. QED
    BY <1>2, <1>4, <1>5, <1>6 DEF ByChallenger, MatchRecord, ShouldDeploy, WarmedUp

\* A champion falls only to a challenger that has earned it.
THEOREM PromotionsEarned == Spec => PromotionEarned
<1>1. TypeOK /\ [Next]_vars
          => [deployments' # deployments =>
                LET n    == champion'
                    mine == {i \in DOMAIN matches' : matches'[i].challenger = n}
                IN  /\ Cardinality({i \in DOMAIN matches' : matches'[i].champion = champion})
                           >= WarmupRounds
                    /\ Len(matches') \in mine /\ matches'[Len(matches')].winner = n
                    /\ \A ms \in SUBSET mine :
                         /\ Cardinality(ms) \in 2..5
                         /\ ms = mine \/ Cardinality(ms) = 5
                         /\ \A i \in ms, j \in mine : j > i => j \in ms
                         => 5 * Cardinality({i \in ms : matches'[i].winner = n})
                               >= 3 * Cardinality(ms)]_vars
    <2> DEFINE mine == ByChallenger(matches', champion')
    <2>1. SUFFICES ASSUME TypeOK, Next, deployments' # deployments
                   PROVE  /\ Cardinality(Against(matches', champion)) >= WarmupRounds
                          /\ Len(matches') \in mine
                          /\ matches'[Len(matches')].winner = champion'
                          /\ \A ms \in SUBSET mine :
                               /\ Cardinality(ms) \in 2..5
                               /\ ms = mine \/ Cardinality(ms) = 5
                               /\ \A i \in ms, j \in mine : j > i => j \in ms
                               => 5 * Wins(matches', ms, champion') >= 3 * Cardinality(ms)
        BY DEF Against, ByChallenger, Wins, vars, counters
    <2>2. mine \in SUBSET Nat
        BY <2>1, OnlyEarned
    <2>3. ASSUME NEW ms \in SUBSET mine,
                 Cardinality(ms) \in 2..5,
                 ms = mine \/ Cardinality(ms) = 5,
                 \A i \in ms, j \in mine : j > i => j \in ms
          PROVE  5 * Wins(matches', ms, champion') >= 3 * Cardinality(ms)
        <3>1. Last5(mine) = ms
            BY <2>1, <2>2, <2>3, OnlyEarned, Last5Unique
        <3>2. QED
            BY <2>1, <2>3, <3>1, OnlyEarned DEF GoodRecord
    <2>4. QED
        BY <2>1, <2>3, OnlyEarned
<1>2. QED
    BY <1>1, TypeCorrect, PTL DEF Spec, PromotionEarned

-----------------------------------------------------------------------------
(***************************************************************************)
(* Evolution: the fronts of a population.  Domination is a strict order, so *)
(* counting down the dominators puts each candidate into a front, and into  *)
(* one after those of its dominators.                                       *)
(***************************************************************************)
\* A set of numbers has a least one.
LEMMA LeastNumber ==
  ASSUME NEW N \in SUBSET Nat, N # {}
  PROVE  \E n \in N : \A m \in N : n <= m
<1>1. PICK n \in N : \A m \in N : ~ (<<m, n>> \in OpToRel(<, Nat))
  BY NatLessThanWellFounded, WFMin, Zenon
<1>2. \A m \in N : ~ (m < n)
  BY <1>1, Zenon DEF OpToRel
<1> QED
  BY <1>2

LEMMA DominationOrders ==
  ASSUME NEW pop \in Seq(Points), NEW i \in DOMAIN pop, NEW j \in Dominators(pop, i)
  PROVE  /\ Dominators(pop, j) \subseteq Dominators(pop, i)
         /\ j \notin Dominators(pop, j)
         /\ Cardinality(Dominators(pop, j)) \in Nat
         /\ Cardinality(Dominators(pop, i)) \in Nat
         /\ Cardinality(Dominators(pop, j)) < Cardinality(Dominators(pop, i))
<1>1. /\ j \in DOMAIN pop /\ Dominates(pop[j], pop[i])
      /\ \A k \in DOMAIN pop : pop[k] \in [1..Objectives -> Nat]
  BY PointAssumption DEF Dominators
<1>2. j \notin Dominators(pop, j)
  BY DEF Dominators, Dominates
<1>3. ASSUME NEW k \in Dominators(pop, j)
      PROVE  k \in Dominators(pop, i)
  <2>1. k \in DOMAIN pop /\ Dominates(pop[k], pop[j])
    BY <1>3 DEF Dominators
  <2> DEFINE p == pop[k]
             q == pop[j]
             r == pop[i]
  <2>2. p \in [1..Objectives -> Nat] /\ q \in [1..Objectives -> Nat] /\ r \in [1..Objectives -> Nat]
    BY <1>1, <2>1
  <2>3. p # q /\ q # r /\ \A o \in 1..Objectives : p[o] <= q[o] /\ q[o] <= r[o]
    BY <1>1, <2>1, <2>2 DEF Dominates
  <2> HIDE DEF p, q, r
  <2>4. \A o \in 1..Objectives : p[o] <= r[o]
    BY <2>2, <2>3
  <2>5. p # r
    <3>1. SUFFICES ASSUME p = r
                   PROVE  p = q
      BY <2>3
    <3>2. \A o \in 1..Objectives : p[o] = q[o]
      BY <2>2, <2>3, <3>1
    <3>3. p = [o \in 1..Objectives |-> p[o]] /\ q = [o \in 1..Objectives |-> q[o]]
      BY <2>2
    <3> QED
      BY <3>2, <3>3, Zenon
  <2>6. Dominates(p, r)
    BY <2>2, <2>4, <2>5 DEF Dominates
  <2> QED
    BY <2>1, <2>6 DEF Dominators, p, r
<1>4. IsFiniteSet(Dominators(pop, i))
  <2>1. DOMAIN pop = 1..Len(pop) /\ Len(pop) \in Nat
    OBVIOUS
  <2>2. IsFiniteSet(DOMAIN pop)
    BY <2>1, FS_Interval
  <2> QED
    BY <2>2, FS_Subset DEF Dominators
<1>5. Cardinality(Dominators(pop, j)) < Cardinality(Dominators(pop, i))
  <2>1. Dominators(pop, j) \subseteq Dominators(pop, i) /\ Dominators(pop, j) # Dominators(pop, i)
    BY <1>2, <1>3
  <2>2. /\ Cardinality(Dominators(pop, j)) <= Cardinality(Dominators(pop, i))
        /\ Cardinality(Dominators(pop, j)) # Cardinality(Dominators(pop, i))
    BY <1>4, <2>1, FS_Subset
  <2>3. Cardinality(Dominators(pop, j)) \in Nat /\ Cardinality(Dominators(pop, i)) \in Nat
    BY <1>4, <2>1, FS_Subset, FS_CardinalityType
  <2> QED
    BY <2>2, <2>3
<1>6. IsFiniteSet(Dominators(pop, j))
  BY <1>3, <1>4, FS_Subset
<1> QED
  BY <1>2, <1>3, <1>4, <1>5, <1>6, FS_CardinalityType

\* The dominators of a candidate are finitely many, and are counted.
LEMMA DominatorsCounted ==
  ASSUME NEW pop \in Seq(Points), NEW j \in DOMAIN pop
  PROVE  /\ Len(pop) \in Nat /\ DOMAIN pop = 1..Len(pop)
         /\ IsFiniteSet(Dominators(pop, j))
         /\ Cardinality(Dominators(pop, j)) \in Nat
         /\ Cardinality(Dominators(pop, j)) <= Len(pop)
<1>1. DOMAIN pop = 1..Len(pop) /\ Len(pop) \in Nat
  OBVIOUS
<1>2. IsFiniteSet(DOMAIN pop) /\ Cardinality(DOMAIN pop) = Len(pop)
  <2> DEFINE n == Len(pop)
  <2>1. n \in Nat /\ 1 \in Int /\ n \in Int
    BY <1>1
  <2> HIDE DEF n
  <2>2. IsFiniteSet(1..n) /\ Cardinality(1..n) = (IF 1 > n THEN 0 ELSE n - 1 + 1)
    BY <2>1, FS_Interval
  <2>3. Cardinality(1..n) = n
    BY <2>1, <2>2
  <2> QED
    BY <1>1, <2>2, <2>3 DEF n
<1>3. Dominators(pop, j) \subseteq DOMAIN pop
  BY DEF Dominators
<1>4. IsFiniteSet(Dominators(pop, j)) /\ Cardinality(Dominators(pop, j)) <= Cardinality(DOMAIN pop)
  BY <1>2, <1>3, FS_Subset
<1>5. Cardinality(Dominators(pop, j)) \in Nat
  BY <1>4, FS_CardinalityType
<1> QED
  BY <1>1, <1>2, <1>4, <1>5

\* What the sort has between two fronts: the candidates of V are counted off, and
\* those counted down to zero are V and the front.
CountedDown(pop, s) == {j \in DOMAIN pop : s.count[j] <= 0}
Counted(pop, s, V) ==
    /\ \A j \in DOMAIN pop : s.count[j] = Cardinality(Dominators(pop, j) \ V)
    /\ V \subseteq CountedDown(pop, s)
    /\ s.front = CountedDown(pop, s) \ V

\* Who is not counted down has dominators left to count off, and the others none.
LEMMA CountsAreLeft ==
  ASSUME NEW pop \in Seq(Points), NEW s, NEW V, Counted(pop, s, V), NEW j \in DOMAIN pop
  PROVE  /\ s.count[j] \in Nat
         /\ j \in CountedDown(pop, s) <=> Dominators(pop, j) \subseteq V
<1> DEFINE left == Dominators(pop, j) \ V
<1>1. IsFiniteSet(left)
  BY DominatorsCounted, FS_Difference
<1>2. s.count[j] = Cardinality(left)
  BY DEF Counted
<1>3. left = {} <=> Dominators(pop, j) \subseteq V
  OBVIOUS
<1> HIDE DEF left
<1>4. Cardinality(left) \in Nat /\ (Cardinality(left) = 0 <=> left = {})
  BY <1>1, FS_CardinalityType, FS_EmptySet
<1> QED
  BY <1>2, <1>3, <1>4 DEF CountedDown

LEMMA FirstFrontCounted ==
  ASSUME NEW pop \in Seq(Points)
  PROVE  Counted(pop, FirstFront(pop), {})
<1> DEFINE s == FirstFront(pop)
<1>1. \A j \in DOMAIN pop : s.count[j] = Cardinality(Dominators(pop, j))
  BY DEF FirstFront
<1>2. s.front = {j \in DOMAIN pop : s.count[j] = 0}
  BY DEF FirstFront
<1> HIDE DEF s
<1>3. \A j \in DOMAIN pop : s.count[j] \in Nat
  BY <1>1, DominatorsCounted
<1>4. \A j \in DOMAIN pop : Dominators(pop, j) \ {} = Dominators(pop, j)
  OBVIOUS
<1>5. CountedDown(pop, s) = s.front
  BY <1>2, <1>3 DEF CountedDown
<1> QED
  BY <1>1, <1>4, <1>5 DEF Counted, s

\* A front counted off leaves the candidates whose dominators all have been.
LEMMA NextFrontCounted ==
  ASSUME NEW pop \in Seq(Points), NEW s, NEW V, Counted(pop, s, V)
  PROVE  Counted(pop, NextFront(pop, s), CountedDown(pop, s))
<1> DEFINE n == NextFront(pop, s)
           Z == CountedDown(pop, s)
<1>1. \A j \in DOMAIN pop : n.count[j] = s.count[j] - Cardinality(Dominators(pop, j) \cap s.front)
  BY DEF NextFront
<1>2. n.front = {j \in DOMAIN pop : s.count[j] > 0 /\ n.count[j] <= 0}
  BY DEF NextFront
<1> HIDE DEF n
<1>3. V \subseteq Z /\ s.front = Z \ V
  BY DEF Counted
<1>4. ASSUME NEW j \in DOMAIN pop
      PROVE  n.count[j] = Cardinality(Dominators(pop, j) \ Z) /\ n.count[j] <= s.count[j]
  <2> DEFINE D == Dominators(pop, j)
             left == D \ V
  <2> HIDE DEF D, Z
  <2>1. IsFiniteSet(D)
    BY DominatorsCounted DEF D
  <2>2. IsFiniteSet(left)
    BY <2>1, FS_Difference
  <2>3. left \cap s.front = D \cap s.front /\ left \ s.front = D \ Z
    BY <1>3
  <2>4. s.count[j] = Cardinality(left)
    BY DEF Counted, D
  <2> HIDE DEF left
  <2>5. /\ Cardinality(left \ s.front) = Cardinality(left) - Cardinality(left \cap s.front)
        /\ IsFiniteSet(left \cap s.front)
    BY <2>2, FS_Difference, FS_Intersection
  <2>6. Cardinality(left) \in Nat /\ Cardinality(left \cap s.front) \in Nat
    BY <2>2, <2>5, FS_CardinalityType
  <2>7. n.count[j] = Cardinality(left) - Cardinality(left \cap s.front)
    BY <1>1, <2>3, <2>4 DEF D
  <2>8. n.count[j] = Cardinality(D \ Z)
    BY <2>3, <2>5, <2>7
  <2>9. n.count[j] <= s.count[j]
    <3> DEFINE a == Cardinality(left)
               b == Cardinality(left \cap s.front)
    <3>1. a \in Nat /\ b \in Nat /\ n.count[j] = a - b /\ s.count[j] = a
      BY <2>4, <2>6, <2>7
    <3> HIDE DEF a, b
    <3>2. a - b <= a
      BY <3>1
    <3> QED
      BY <3>1, <3>2
  <2> QED
    BY <2>8, <2>9 DEF D
<1>5. ASSUME NEW j \in DOMAIN pop
      PROVE  s.count[j] \in Nat /\ n.count[j] \in Int
  <2>1. s.count[j] \in Nat
    BY CountsAreLeft
  <2>2. IsFiniteSet(Dominators(pop, j) \cap s.front)
    BY DominatorsCounted, FS_Intersection
  <2>3. Cardinality(Dominators(pop, j) \cap s.front) \in Nat
    BY <2>2, FS_CardinalityType
  <2>4. n.count[j] = s.count[j] - Cardinality(Dominators(pop, j) \cap s.front)
    BY <1>1
  <2> HIDE DEF Z
  <2> QED
    BY <2>1, <2>3, <2>4
<1>6. Z \subseteq CountedDown(pop, n) /\ n.front = CountedDown(pop, n) \ Z
  <2> DEFINE Y == CountedDown(pop, n)
  <2>1. ASSUME NEW j \in DOMAIN pop
        PROVE  /\ j \in Z <=> ~ (s.count[j] > 0)
               /\ j \in Y <=> n.count[j] <= 0
               /\ j \in Z => j \in Y
    <3>1. s.count[j] \in Nat /\ n.count[j] \in Int /\ n.count[j] <= s.count[j]
      BY <1>4, <1>5
    <3> QED
      BY <3>1 DEF CountedDown
  <2>2. Z \subseteq DOMAIN pop /\ Y \subseteq DOMAIN pop
    BY DEF CountedDown
  <2> HIDE DEF Y, Z
  <2>3. Z \subseteq Y
    BY <2>1, <2>2
  <2>4. n.front = Y \ Z
    BY <1>2, <2>1, <2>2
  <2> QED
    BY <2>3, <2>4 DEF Y
<1> QED
  BY <1>4, <1>6 DEF Counted, n

\* g is what the sort has at each of its fronts.
Sorts(g, pop) ==
    g = [k \in 0..Len(pop) |-> IF k = 0 THEN FirstFront(pop) ELSE NextFront(pop, g[k - 1])]

\* It exists: one that is right for fewer than n fronts gives one that is right
\* for n.
LEMMA SortExists ==
  ASSUME NEW pop \in Seq(Points)
  PROVE  \E g : Sorts(g, pop)
<1> DEFINE Better(g) == [k \in 0..Len(pop) |-> IF k = 0 THEN FirstFront(pop) ELSE NextFront(pop, g[k - 1])]
           Right(g, n) == /\ g = [k \in 0..Len(pop) |-> g[k]]
                          /\ \A k \in 0..Len(pop) : k < n => g[k] = Better(g)[k]
           Bad == {n \in Nat : ~ \E g : Right(g, n)}
<1>1. Len(pop) \in Nat
  OBVIOUS
<1>2. Bad = {}
  <2>1. SUFFICES ASSUME Bad # {}
                 PROVE  FALSE
    OBVIOUS
  <2>2. PICK n \in Bad : \A m \in Bad : n <= m
    <3>1. Bad \in SUBSET Nat
      OBVIOUS
    <3> HIDE DEF Bad
    <3> QED
      BY <2>1, <3>1, LeastNumber
  <2>3. n \in Nat /\ ~ \E g : Right(g, n)
    BY <2>2
  <2>4. CASE n = 0
    <3> DEFINE g == [k \in 0..Len(pop) |-> 0]
    <3>1. Right(g, 0)
      OBVIOUS
    <3> HIDE DEF Right, g
    <3> QED
      BY <2>3, <2>4, <3>1
  <2>5. CASE n # 0
    <3>1. \E g : Right(g, n - 1)
      <4>1. n - 1 \in Nat /\ n - 1 \notin Bad
        <5> HIDE DEF Bad
        <5> QED
          BY <2>2, <2>3, <2>5
      <4> HIDE DEF Right
      <4> QED
        BY <4>1
    <3>2. PICK g : Right(g, n - 1)
      BY <3>1
    <3> DEFINE h == Better(g)
    <3>3. ASSUME NEW k \in 0..Len(pop), k < n
          PROVE  h[k] = Better(h)[k]
      <4>1. CASE k = 0
        BY <4>1
      <4>2. CASE k # 0
        <5>1. k - 1 \in 0..Len(pop) /\ k - 1 < n - 1
          BY <2>3, <3>3, <4>2
        <5>2. g[k - 1] = h[k - 1]
          BY <3>2, <5>1
        <5> QED
          BY <4>2, <5>1, <5>2
      <4> QED
        BY <4>1, <4>2
    <3>4. Right(h, n)
      BY <3>3
    <3> HIDE DEF Right, h
    <3> QED
      BY <2>3, <3>4
  <2> QED
    BY <2>4, <2>5
<1>3. PICK g : Right(g, Len(pop) + 1)
  <2>1. Len(pop) + 1 \in Nat
    OBVIOUS
  <2> HIDE DEF Right
  <2> QED
    BY <1>2, <2>1
<1>4. \A k \in 0..Len(pop) : g[k] = Better(g)[k]
  <2>1. \A k \in 0..Len(pop) : k < Len(pop) + 1
    BY <1>1
  <2> HIDE DEF Better
  <2> QED
    BY <1>3, <2>1
<1>5. g = Better(g)
  BY <1>3, <1>4
<1> QED
  BY <1>5 DEF Sorts

LEMMA FrontsSorted ==
  ASSUME NEW pop \in Seq(Points)
  PROVE  \E g : Sorts(g, pop) /\ Fronts(pop) = [k \in 0..Len(pop) |-> g[k].front]
<1>1. Fronts(pop) = [k \in 0..Len(pop) |-> (CHOOSE g : Sorts(g, pop))[k].front]
  BY Zenon DEF Fronts, Sorts
<1> QED
  BY <1>1, SortExists, Zenon

\* The candidates counted down before front k.
Before(g, pop, k) == IF k = 0 THEN {} ELSE CountedDown(pop, g[k - 1])

LEMMA SortCounted ==
  ASSUME NEW pop \in Seq(Points), NEW g, Sorts(g, pop)
  PROVE  \A k \in 0..Len(pop) : Counted(pop, g[k], Before(g, pop, k))
<1> DEFINE Bad == {k \in 0..Len(pop) : ~Counted(pop, g[k], Before(g, pop, k))}
<1>1. Len(pop) \in Nat
  OBVIOUS
<1>2. SUFFICES ASSUME Bad # {}
               PROVE  FALSE
  OBVIOUS
<1>3. PICK k \in Bad : \A m \in Bad : k <= m
  <2>1. Bad \in SUBSET Nat
    OBVIOUS
  <2> HIDE DEF Bad
  <2> QED
    BY <1>2, <2>1, LeastNumber
<1>4. k \in 0..Len(pop) /\ ~Counted(pop, g[k], Before(g, pop, k))
  BY <1>3
<1>5. CASE k = 0
  <2>1. g[k] = FirstFront(pop) /\ Before(g, pop, k) = {}
    BY <1>1, <1>5 DEF Sorts, Before
  <2> QED
    BY <1>4, <2>1, FirstFrontCounted
<1>6. CASE k # 0
  <2>1. k - 1 \in 0..Len(pop) /\ ~ (k <= k - 1)
    BY <1>1, <1>4, <1>6
  <2>2. k - 1 \notin Bad
    <3> HIDE DEF Bad
    <3> QED
      BY <1>3, <2>1
  <2>3. Counted(pop, g[k - 1], Before(g, pop, k - 1))
    BY <2>1, <2>2
  <2>4. g[k] = NextFront(pop, g[k - 1]) /\ Before(g, pop, k) = CountedDown(pop, g[k - 1])
    BY <1>4, <1>6 DEF Sorts, Before
  <2> QED
    BY <1>4, <2>3, <2>4, NextFrontCounted
<1> QED
  BY <1>5, <1>6

\* Who is counted down at a front is in it or in an earlier one.
LEMMA CountedDownInFront ==
  ASSUME NEW pop \in Seq(Points), NEW g, Sorts(g, pop),
         NEW k \in 0..Len(pop), NEW j \in CountedDown(pop, g[k])
  PROVE  \E m \in 0..k : j \in g[m].front
<1> DEFINE Good == {m \in 0..k : j \in CountedDown(pop, g[m])}
<1>1. Len(pop) \in Nat
  OBVIOUS
<1>2. PICK m \in Good : \A l \in Good : m <= l
  <2>1. Good \in SUBSET Nat /\ k \in Good
    BY <1>1
  <2> HIDE DEF Good
  <2> QED
    BY <2>1, LeastNumber
<1>3. m \in 0..k /\ m \in 0..Len(pop) /\ j \in CountedDown(pop, g[m])
  BY <1>1, <1>2
<1>4. g[m].front = CountedDown(pop, g[m]) \ Before(g, pop, m)
  BY <1>3, SortCounted DEF Counted
<1>5. j \notin Before(g, pop, m)
  <2>1. CASE m = 0
    BY <2>1 DEF Before
  <2>2. CASE m # 0
    <3>1. m - 1 \in 0..k /\ ~ (m <= m - 1)
      BY <1>3, <2>2
    <3>2. m - 1 \notin Good
      <4> HIDE DEF Good
      <4> QED
        BY <1>2, <3>1
    <3> QED
      BY <2>2, <3>1, <3>2 DEF Before
  <2> QED
    BY <2>1, <2>2
<1> QED
  BY <1>3, <1>4, <1>5

\* What is counted down stays so.
LEMMA CountedDownStays ==
  ASSUME NEW pop \in Seq(Points), NEW g, Sorts(g, pop),
         NEW k \in 0..Len(pop), NEW j \in CountedDown(pop, g[k])
  PROVE  \A m \in k..Len(pop) : j \in CountedDown(pop, g[m])
<1> DEFINE Bad == {m \in k..Len(pop) : j \notin CountedDown(pop, g[m])}
<1>1. Len(pop) \in Nat
  OBVIOUS
<1>2. SUFFICES ASSUME Bad # {}
               PROVE  FALSE
  OBVIOUS
<1>3. PICK m \in Bad : \A l \in Bad : m <= l
  <2>1. Bad \in SUBSET Nat
    OBVIOUS
  <2> HIDE DEF Bad
  <2> QED
    BY <1>2, <2>1, LeastNumber
<1>4. m \in k..Len(pop) /\ j \notin CountedDown(pop, g[m]) /\ m # k
  BY <1>3
<1>5. m \in 0..Len(pop) /\ m # 0 /\ m - 1 \in k..Len(pop) /\ ~ (m <= m - 1)
  BY <1>1, <1>4
<1>6. m - 1 \notin Bad
  <2> HIDE DEF Bad
  <2> QED
    BY <1>3, <1>5
<1>7. j \in Before(g, pop, m)
  BY <1>5, <1>6 DEF Before
<1>8. Before(g, pop, m) \subseteq CountedDown(pop, g[m])
  BY <1>5, SortCounted DEF Counted
<1> QED
  BY <1>4, <1>7, <1>8

\* A candidate with c dominators is counted down by front c.
LEMMA AllCountedDown ==
  ASSUME NEW pop \in Seq(Points), NEW g, Sorts(g, pop)
  PROVE  \A j \in DOMAIN pop : j \in CountedDown(pop, g[Cardinality(Dominators(pop, j))])
<1> DEFINE Size1(j) == Cardinality(Dominators(pop, j))
           Bad == {c \in Nat : \E j \in DOMAIN pop : Size1(j) = c /\ j \notin CountedDown(pop, g[c])}
<1>1. \A j \in DOMAIN pop : Size1(j) \in Nat /\ Size1(j) \in 0..Len(pop)
  <2> TAKE j \in DOMAIN pop
  <2> QED
    BY DominatorsCounted
<1>2. SUFFICES ASSUME Bad # {}
               PROVE  FALSE
  BY <1>1
<1>3. PICK c \in Bad : \A e \in Bad : c <= e
  <2>1. Bad \in SUBSET Nat
    OBVIOUS
  <2> HIDE DEF Bad
  <2> QED
    BY <1>2, <2>1, LeastNumber
<1>4. PICK j \in DOMAIN pop : Size1(j) = c /\ j \notin CountedDown(pop, g[c])
  BY <1>3
<1>5. c \in 0..Len(pop) /\ c \in Nat
  BY <1>1, <1>4
<1>6. Counted(pop, g[c], Before(g, pop, c))
  BY <1>5, SortCounted
<1>7. Dominators(pop, j) \subseteq Before(g, pop, c)
  <2> SUFFICES ASSUME NEW d \in Dominators(pop, j)
               PROVE  d \in Before(g, pop, c)
    OBVIOUS
  <2>1. d \in DOMAIN pop
    BY DEF Dominators
  <2>2. Size1(d) \in Nat /\ Size1(d) < c
    BY <1>4, DominationOrders
  <2>3. d \in CountedDown(pop, g[Size1(d)])
    <3>1. Size1(d) \notin Bad
      <4> HIDE DEF Bad
      <4> QED
        BY <1>3, <1>5, <2>2
    <3> QED
      BY <2>1, <2>2, <3>1
  <2>4. Size1(d) \in 0..Len(pop) /\ c - 1 \in Size1(d)..Len(pop)
    BY <1>1, <1>5, <2>1, <2>2
  <2>5. d \in CountedDown(pop, g[c - 1])
    <3> DEFINE e == Size1(d)
    <3> HIDE DEF e
    <3>1. e \in 0..Len(pop) /\ c - 1 \in e..Len(pop) /\ d \in CountedDown(pop, g[e])
      BY <2>3, <2>4 DEF e
    <3> QED
      BY <3>1, CountedDownStays
  <2> QED
    BY <1>5, <2>2, <2>5 DEF Before
<1> QED
  BY <1>4, <1>6, <1>7, CountsAreLeft

\* Each candidate is in a front, and its dominators are in earlier ones.
LEMMA FrontsAreRight ==
  ASSUME NEW pop \in Seq(Points)
  PROVE  /\ DOMAIN Fronts(pop) = 0..Len(pop)
         /\ \A j \in DOMAIN pop : \E k \in 0..Len(pop) : j \in Fronts(pop)[k]
         /\ \A k \in 0..Len(pop) : Fronts(pop)[k] \subseteq DOMAIN pop
         /\ \A k \in 0..Len(pop) : \A i \in Fronts(pop)[k] : \A j \in Dominators(pop, i) :
               \E m \in 0..Len(pop) : m < k /\ j \in Fronts(pop)[m]
<1>1. PICK g : Sorts(g, pop) /\ Fronts(pop) = [k \in 0..Len(pop) |-> g[k].front]
  BY FrontsSorted
<1>2. Len(pop) \in Nat /\ \A k \in 0..Len(pop) : Fronts(pop)[k] = g[k].front
  BY <1>1
<1>3. \A k \in 0..Len(pop) : g[k].front = CountedDown(pop, g[k]) \ Before(g, pop, k)
  BY <1>1, SortCounted DEF Counted
<1>4. ASSUME NEW j \in DOMAIN pop
      PROVE  \E k \in 0..Len(pop) : j \in g[k].front
  <2> DEFINE c == Cardinality(Dominators(pop, j))
  <2>1. c \in 0..Len(pop)
    BY DominatorsCounted
  <2>2. j \in CountedDown(pop, g[c])
    BY <1>1, AllCountedDown
  <2> HIDE DEF c
  <2>3. \E m \in 0..c : j \in g[m].front
    BY <1>1, <2>1, <2>2, CountedDownInFront
  <2> QED
    BY <1>2, <2>1, <2>3
<1>5. ASSUME NEW k \in 0..Len(pop), NEW i \in g[k].front, NEW j \in Dominators(pop, i)
      PROVE  \E m \in 0..Len(pop) : m < k /\ j \in g[m].front
  <2>1. i \in DOMAIN pop /\ i \in CountedDown(pop, g[k])
    BY <1>3, <1>5 DEF CountedDown
  <2>2. j \in Before(g, pop, k)
    BY <1>1, <1>5, <2>1, SortCounted, CountsAreLeft
  <2>3. k # 0 /\ j \in CountedDown(pop, g[k - 1])
    BY <2>2 DEF Before
  <2>4. k - 1 \in 0..Len(pop)
    BY <1>2, <2>3
  <2>5. \E m \in 0..(k - 1) : j \in g[m].front
    BY <1>1, <2>3, <2>4, CountedDownInFront
  <2> QED
    BY <1>2, <2>5
<1> QED
  BY <1>1, <1>2, <1>3, <1>4, <1>5 DEF CountedDown

-----------------------------------------------------------------------------
(***************************************************************************)
(* The pipeline, the optimizer and the budget file, step by step, for any  *)
(* windows, objectives, populations and debounce.                          *)
(***************************************************************************)
LEMMA EndOfSequence ==
  ASSUME NEW T, NEW s \in Seq(T), NEW d \in 0..Len(s)
  PROVE  /\ SubSeq(s, d + 1, Len(s)) \in Seq(T)
         /\ Len(SubSeq(s, d + 1, Len(s))) = Len(s) - d
         /\ \A i \in 1..(Len(s) - d) : SubSeq(s, d + 1, Len(s))[i] = s[d + i]
OBVIOUS

\* The last 2 * Window samples of an unbroken run are one.
LEMMA TrimmedIsRecent ==
  ASSUME NEW s \in Seq([number : Nat, error : Nat]), NEW n \in Nat,
         \A i \in 1..Len(s) : s[i].number = n - Len(s) + i,
         Len(s) >= 2 * Window \/ Len(s) = n
  PROVE  /\ Trimmed(s) \in Seq([number : Nat, error : Nat])
         /\ \A i \in 1..Len(Trimmed(s)) : Trimmed(s)[i].number = n - Len(Trimmed(s)) + i
         /\ Len(Trimmed(s)) >= 2 * Window \/ Len(Trimmed(s)) = n
<1>1. Window \in Nat \ {0} /\ Len(s) \in Nat
  BY WindowAssumption
<1>2. CASE Len(s) > 3 * Window
  <2> DEFINE d == Len(s) - 2 * Window
  <2>1. Trimmed(s) = SubSeq(s, d + 1, Len(s))
    BY <1>1, <1>2 DEF Trimmed, LastOf
  <2>2. d \in 0..Len(s) /\ Len(s) - d = 2 * Window
    BY <1>1, <1>2
  <2> HIDE DEF d
  <2>3. /\ Trimmed(s) \in Seq([number : Nat, error : Nat])
        /\ Len(Trimmed(s)) = Len(s) - d
        /\ \A i \in 1..(Len(s) - d) : Trimmed(s)[i] = s[d + i]
    BY <2>1, <2>2, EndOfSequence
  <2>4. Len(Trimmed(s)) = 2 * Window
    BY <2>2, <2>3
  <2>5. ASSUME NEW i \in 1..(Len(s) - d)
        PROVE  Trimmed(s)[i].number = n - (Len(s) - d) + i
    <3>1. d + i \in 1..Len(s) /\ Trimmed(s)[i] = s[d + i]
      <4>1. Trimmed(s)[i] = s[d + i]
        BY <2>3
      <4>2. Len(s) \in Nat /\ d \in 0..Len(s) /\ i \in 1..(Len(s) - d)
        BY <1>1, <2>2
      <4> QED
        BY <4>1, <4>2
    <3>2. s[d + i].number = n - Len(s) + (d + i)
      BY <3>1
    <3> QED
      BY <1>1, <2>2, <3>1, <3>2
  <2> QED
    BY <1>1, <2>3, <2>4, <2>5
<1>3. CASE ~ (Len(s) > 3 * Window)
  BY <1>3 DEF Trimmed
<1> QED
  BY <1>2, <1>3

LEMMA RecordKeepsRecent ==
  ASSUME EvolutionTypeOK, HistoryIsRecent, NEW e \in Errors, Record(e)
  PROVE  /\ history' \in Seq([number : Nat, error : Nat]) /\ recorded' \in Nat
         /\ HistoryIsRecent'
<1> DEFINE s == Append(history, [number |-> recorded + 1, error |-> e])
<1>1. /\ history \in Seq([number : Nat, error : Nat]) /\ recorded \in Nat /\ e \in Nat
      /\ Window \in Nat /\ Len(history) \in Nat
  BY NumberAssumption, WindowAssumption DEF EvolutionTypeOK
<1>2. /\ s \in Seq([number : Nat, error : Nat]) /\ Len(s) = Len(history) + 1
      /\ s[Len(history) + 1] = [number |-> recorded + 1, error |-> e]
      /\ \A i \in 1..Len(history) : s[i] = history[i]
  BY <1>1
<1>3. history' = Trimmed(s) /\ recorded' = recorded + 1
  BY DEF Record
<1>4. \A i \in 1..Len(history) : history[i].number = recorded - Len(history) + i
  BY <1>1 DEF HistoryIsRecent
<1>5. Len(history) >= 2 * Window \/ Len(history) = recorded
  BY DEF HistoryIsRecent
<1> HIDE DEF s
<1>6. \A i \in 1..Len(s) : s[i].number = (recorded + 1) - Len(s) + i
  <2> TAKE i \in 1..Len(s)
  <2>1. CASE i = Len(history) + 1
    BY <1>1, <1>2, <2>1
  <2>2. CASE i # Len(history) + 1
    <3>1. i \in 1..Len(history)
      BY <1>1, <1>2, <2>2
    <3>2. s[i] = history[i] /\ history[i].number = recorded - Len(history) + i
      BY <1>2, <1>4, <3>1
    <3>3. (recorded + 1) - Len(s) + i = recorded - Len(history) + i
      BY <1>1, <1>2
    <3> QED
      BY <3>2, <3>3
  <2> QED
    BY <2>1, <2>2
<1>7. Len(s) >= 2 * Window \/ Len(s) = recorded + 1
  BY <1>1, <1>2, <1>5
<1>8. recorded + 1 \in Nat
  BY <1>1
<1>9. /\ Trimmed(s) \in Seq([number : Nat, error : Nat])
      /\ \A i \in 1..Len(Trimmed(s)) : Trimmed(s)[i].number = (recorded + 1) - Len(Trimmed(s)) + i
      /\ Len(Trimmed(s)) >= 2 * Window \/ Len(Trimmed(s)) = recorded + 1
  BY <1>2, <1>6, <1>7, <1>8, TrimmedIsRecent
<1>10. DOMAIN Trimmed(s) = 1..Len(Trimmed(s))
  BY <1>9
<1> QED
  BY <1>3, <1>8, <1>9, <1>10 DEF HistoryIsRecent

\* Deploying puts the version that was deployed on top, rolling back takes it off.
LEMMA EvaluateKeepsOrder ==
  ASSUME EvolutionTypeOK, VersionsDescend, Evaluate
  PROVE  deployed' \in Nat /\ rollback' \in Seq(Nat) /\ VersionsDescend'
<1>1. deployed \in Nat /\ rollback \in Seq(Nat) /\ Len(rollback) \in Nat
  BY DEF EvolutionTypeOK
<1>2. /\ \A i, j \in 1..Len(rollback) : i < j => rollback[i] < rollback[j]
      /\ \A i \in 1..Len(rollback) : 0 < rollback[i] /\ rollback[i] < deployed /\ rollback[i] \in Nat
  <2>1. DOMAIN rollback = 1..Len(rollback)
    BY <1>1
  <2> QED
    BY <1>1, <2>1, ElementOfSeq DEF VersionsDescend
<1>3. CASE Deploy
  <2>1. CASE deployed = 0
    <3>1. rollback' = rollback /\ deployed' = 1
      BY <1>3, <2>1 DEF Deploy
    <3> QED
      BY <1>1, <1>2, <2>1, <3>1 DEF VersionsDescend
  <2>2. CASE deployed # 0
    <3>1. rollback' = Append(rollback, deployed) /\ deployed' = deployed + 1
      BY <1>3, <2>2 DEF Deploy
    <3>2. /\ rollback' \in Seq(Nat) /\ DOMAIN rollback' = 1..(Len(rollback) + 1)
          /\ rollback'[Len(rollback) + 1] = deployed
          /\ \A i \in 1..Len(rollback) : rollback'[i] = rollback[i]
      BY <1>1, <3>1
    <3>3. ASSUME NEW i \in 1..(Len(rollback) + 1)
          PROVE  0 < rollback'[i] /\ rollback'[i] < deployed'
      <4>1. i \in 1..Len(rollback) \/ i = Len(rollback) + 1
        BY <1>1
      <4> QED
        BY <1>1, <1>2, <2>2, <3>1, <3>2, <4>1
    <3>4. ASSUME NEW i \in 1..(Len(rollback) + 1), NEW j \in 1..(Len(rollback) + 1), i < j
          PROVE  rollback'[i] < rollback'[j]
      <4>1. i \in 1..Len(rollback) /\ (j \in 1..Len(rollback) \/ j = Len(rollback) + 1)
        BY <1>1, <3>4
      <4> QED
        BY <1>2, <3>2, <3>4, <4>1
    <3> QED
      BY <1>1, <3>1, <3>2, <3>3, <3>4 DEF VersionsDescend
  <2> QED
    BY <2>1, <2>2
<1>4. CASE RollbackVersion
  <2>1. CASE rollback = <<>>
    <3>1. UNCHANGED <<deployed, rollback>>
      BY <1>4, <2>1 DEF RollbackVersion, versionVars
    <3> QED
      BY <1>1, <3>1 DEF VersionsDescend
  <2>2. CASE rollback # <<>>
    <3>1. deployed' = rollback[Len(rollback)] /\ rollback' = SubSeq(rollback, 1, Len(rollback) - 1)
      BY <1>4, <2>2 DEF RollbackVersion
    <3>2. Len(rollback) \in 1..Len(rollback)
      BY <1>1, <2>2
    <3>3. /\ rollback' \in Seq(Nat) /\ DOMAIN rollback' = 1..(Len(rollback) - 1)
          /\ \A i \in 1..(Len(rollback) - 1) : rollback'[i] = rollback[i]
      BY <1>1, <3>1, <3>2
    <3>4. \A i \in 1..(Len(rollback) - 1) : i \in 1..Len(rollback) /\ i < Len(rollback)
      BY <1>1
    <3>5. deployed' \in Nat
      BY <1>2, <3>1, <3>2
    <3> QED
      BY <1>2, <3>1, <3>2, <3>3, <3>4, <3>5 DEF VersionsDescend
  <2> QED
    BY <2>1, <2>2
<1> QED
  BY <1>3, <1>4 DEF Evaluate

LEMMA VectorsHaveSize ==
  ASSUME NEW v \in Vectors
  PROVE  v \in Seq(Points) /\ Len(v) = Size
<1>1. Size \in Nat /\ v \in [1..Size -> Points]
  BY WindowAssumption DEF Vectors
<1>2. [1..Size -> Points] \subseteq Seq(Points)
  BY <1>1, SeqDef
<1> QED
  BY <1>1, <1>2

\* A generation keeps no candidate that one it drops dominates: the dominator
\* would be in an earlier front, which is kept first.
LEMMA GenerationKeepsFronts ==
  ASSUME EvolutionTypeOK, NextGeneration
  PROVE  /\ population' \in Vectors /\ dropped' \subseteq Points
         /\ FrontsSurvive'
<1>1. PICK offspring \in Vectors : \E kept \in Survivors(population \o offspring) :
        \E order \in [1..Cardinality(kept) -> kept] :
          /\ population' = [i \in DOMAIN order |-> (population \o offspring)[order[i]]]
          /\ dropped' = {(population \o offspring)[i] : i \in DOMAIN (population \o offspring) \ kept}
  BY Zenon DEF NextGeneration
<1> DEFINE pop == population \o offspring
<1>2. pop \in Seq(Points) /\ DOMAIN pop = 1..(Size + Size) /\ Size \in Nat \ {0}
  <2>1. Size \in Nat \ {0}
    BY WindowAssumption
  <2>2. population \in Vectors /\ offspring \in Vectors
    BY DEF EvolutionTypeOK, NextGeneration, Idle
  <2>3. /\ population \in Seq(Points) /\ Len(population) = Size
        /\ offspring \in Seq(Points) /\ Len(offspring) = Size
    BY <2>2, VectorsHaveSize
  <2> QED
    BY <2>1, <2>3 DEF pop
<1> HIDE DEF pop
<1>3. PICK kept \in Survivors(pop) : \E order \in [1..Cardinality(kept) -> kept] :
          /\ population' = [i \in DOMAIN order |-> pop[order[i]]]
          /\ dropped' = {pop[i] : i \in DOMAIN pop \ kept}
  BY <1>1 DEF pop
<1>4. PICK order \in [1..Cardinality(kept) -> kept] :
          /\ population' = [i \in DOMAIN order |-> pop[order[i]]]
          /\ dropped' = {pop[i] : i \in DOMAIN pop \ kept}
  BY <1>3
<1> DEFINE front == Fronts(pop)
           placed == UNION {front[k] : k \in DOMAIN front}
<1>5. /\ DOMAIN front = 0..Len(pop)
      /\ \A j \in DOMAIN pop : \E k \in 0..Len(pop) : j \in front[k]
      /\ \A k \in 0..Len(pop) : front[k] \subseteq DOMAIN pop
      /\ \A k \in 0..Len(pop) : \A i \in front[k] : \A j \in Dominators(pop, i) :
            \E m \in 0..Len(pop) : m < k /\ j \in front[m]
  BY <1>2, FrontsAreRight
<1>6. /\ kept \subseteq placed
      /\ Cardinality(kept) = Size \/ (Cardinality(kept) < Size /\ kept = placed)
      /\ \A k, m \in DOMAIN front : m < k /\ kept \cap front[k] # {} => front[m] \subseteq kept
  BY DEF Survivors
<1> HIDE DEF front
<1>7. placed = DOMAIN pop
  BY <1>5
<1> HIDE DEF placed
<1>8. kept \subseteq DOMAIN pop /\ Cardinality(kept) = Size
  <2>1. Cardinality(DOMAIN pop) = Size + Size
    BY <1>2, FS_Interval
  <2> QED
    BY <1>2, <1>6, <1>7, <2>1
<1>9. \A i \in DOMAIN pop : pop[i] \in Points
  BY <1>2
<1>10. population' \in Vectors /\ dropped' \subseteq Points
  <2>1. order \in [1..Size -> kept]
    BY <1>4, <1>8
  <2> QED
    BY <1>4, <1>8, <1>9, <2>1 DEF Vectors
<1>11. ASSUME NEW i \in DOMAIN population', NEW p \in dropped', Dominates(p, population'[i])
       PROVE  FALSE
  <2>1. order[i] \in kept /\ population'[i] = pop[order[i]]
    BY <1>4
  <2>2. PICK j \in DOMAIN pop \ kept : p = pop[j]
    BY <1>4
  <2>3. j \in Dominators(pop, order[i]) /\ order[i] \in DOMAIN pop
    BY <1>8, <1>11, <2>1, <2>2 DEF Dominators
  <2>4. PICK k \in 0..Len(pop) : order[i] \in front[k]
    BY <1>5, <2>3
  <2>5. PICK m \in 0..Len(pop) : m < k /\ j \in front[m]
    BY <1>5, <2>3, <2>4
  <2>6. front[m] \subseteq kept
    BY <1>5, <1>6, <2>1, <2>4, <2>5
  <2> QED
    BY <2>2, <2>5, <2>6
<1>12. Len(population') = Size
  BY <1>10, VectorsHaveSize
<1>13. FrontsSurvive'
  BY <1>11, <1>12 DEF FrontsSurvive, Dominates
<1> QED
  BY <1>10, <1>13

\* A save that succeeds leaves nothing to lose, and one that fails is remembered.
LEMMA SaveKeepsDebounce ==
  ASSUME EvolutionTypeOK, SavesAreDebounced, NEW calls \in Nat, Save(calls),
         charged' = calls, sinceSave' \in 0..Debounce
  PROVE  /\ budgetFile' \in Nat \union {NoFile} /\ sinceWrite' \in 0..Debounce
         /\ unsaved' \in {NoCall} \union 0..Debounce /\ torn' \in BOOLEAN /\ faults' \in Nat
         /\ SavesAreDebounced'
<1>1. Debounce \in Nat \ {0} /\ NoCall < Debounce
  BY WindowAssumption DEF NoCall
<1>2. CASE budgetFile' = calls /\ sinceWrite' = 0 /\ unsaved' = NoCall /\ torn' = FALSE /\ UNCHANGED faults
  <2>1. Kept' = calls
    BY <1>2 DEF Kept, NoFile
  <2>2. SavesAreDebounced'
    BY <1>1, <1>2, <2>1 DEF SavesAreDebounced
  <2>3. 0 \in 0..Debounce /\ faults' \in Nat
    BY <1>1, <1>2 DEF EvolutionTypeOK
  <2> QED
    BY <1>2, <2>2, <2>3
<1>3. CASE budgetFile' \in {budgetFile, NoFile} /\ torn' = TRUE /\ Fault /\ UNCHANGED <<sinceWrite, unsaved>>
  BY <1>3 DEF EvolutionTypeOK, SavesAreDebounced, Fault
<1> QED
  BY <1>2, <1>3 DEF Save

LEMMA ChargeKeepsDebounce ==
  ASSUME EvolutionTypeOK, SavesAreDebounced, NEW limit \in Nat, Charge(limit)
  PROVE  /\ charged' \in Nat /\ sinceSave' \in 0..Debounce
         /\ budgetFile' \in Nat \union {NoFile} /\ sinceWrite' \in 0..Debounce
         /\ unsaved' \in {NoCall} \union 0..Debounce /\ torn' \in BOOLEAN /\ faults' \in Nat
         /\ SavesAreDebounced'
<1>1. /\ Debounce \in Nat \ {0} /\ charged \in Nat /\ charged + 1 \in Nat
      /\ sinceSave \in 0..Debounce /\ sinceWrite \in 0..Debounce /\ 0 \in 0..Debounce
  BY WindowAssumption DEF EvolutionTypeOK
<1>2. CASE Recorded
  <2>1. CASE sinceSave < Debounce
    <3>1. /\ charged' = charged + 1 /\ unsaved' = sinceWrite
          /\ UNCHANGED <<budgetFile, sinceSave, sinceWrite, torn, faults>>
      BY <1>2, <2>1 DEF Recorded
    <3> QED
      BY <1>1, <2>1, <3>1 DEF EvolutionTypeOK, SavesAreDebounced, NoCall
  <2>2. CASE ~ (sinceSave < Debounce)
    <3>1. charged' = charged + 1 /\ sinceSave' = 0 /\ Save(charged + 1)
      BY <1>2, <2>2 DEF Recorded
    <3> QED
      BY <1>1, <3>1, SaveKeepsDebounce
  <2> QED
    BY <2>1, <2>2
<1>3. CASE ExecutorRecorded
  <2>1. charged' = charged /\ sinceSave' = 0 /\ Save(charged)
    BY <1>3 DEF ExecutorRecorded
  <2> QED
    BY <1>1, <2>1, SaveKeepsDebounce
<1> QED
  BY <1>2, <1>3 DEF Charge

EvolutionInvariant ==
    /\ EvolutionTypeOK
    /\ HistoryIsRecent /\ VersionsDescend
    /\ NothingDroppedYet /\ FrontsSurvive
    /\ SavesAreDebounced

LEMMA EvolutionStarts == EvolutionInit => EvolutionInvariant
<1> SUFFICES ASSUME EvolutionInit
             PROVE  EvolutionInvariant
  OBVIOUS
<1>1. Debounce \in Nat \ {0} /\ Size \in Nat /\ Window \in Nat
  BY WindowAssumption
<1>2. EvolutionTypeOK
  <2>1. /\ <<>> \in Seq([number : Nat, error : Nat]) /\ <<>> \in Seq(Nat)
        /\ 0 \in Nat /\ Debounce \in 0..Debounce
    BY <1>1
  <2> QED
    BY <2>1 DEF EvolutionInit, EvolutionTypeOK
<1>3. HistoryIsRecent /\ VersionsDescend
  BY <1>1 DEF EvolutionInit, HistoryIsRecent, VersionsDescend
<1>4. NothingDroppedYet /\ FrontsSurvive
  BY DEF EvolutionInit, NothingDroppedYet, FrontsSurvive, Idle
<1>5. SavesAreDebounced
  BY <1>1 DEF EvolutionInit, SavesAreDebounced, NoCall, NoFile, Kept
<1> QED
  BY <1>2, <1>3, <1>4, <1>5 DEF EvolutionInvariant

\* A new process has no samples, no versions and no population, and a save is due.
LEMMA RestartKeeps ==
  ASSUME EvolutionTypeOK, SavesAreDebounced, Restart,
         budgetFile' \in Nat \union {NoFile}, faults' \in Nat
  PROVE  EvolutionInvariant'
<1>1. Debounce \in Nat \ {0} /\ Size \in Nat /\ Window \in Nat
  BY WindowAssumption
<1>2. /\ sinceSave' = Debounce /\ sinceWrite' = Debounce /\ unsaved' = NoCall
      /\ history' = <<>> /\ recorded' = 0
      /\ population' = <<>> /\ generation' = 0 /\ dropped' = {}
      /\ deployed' = 0 /\ rollback' = <<>> /\ torn' = FALSE
      /\ charged' = Kept' /\ charged' \in Nat
  BY DEF Restart, Kept
<1>3. EvolutionTypeOK'
  <2>1. /\ <<>> \in Seq([number : Nat, error : Nat]) /\ <<>> \in Seq(Nat)
        /\ 0 \in Nat /\ Debounce \in 0..Debounce
    BY <1>1
  <2> QED
    BY <1>2, <2>1 DEF EvolutionTypeOK
<1>4. HistoryIsRecent' /\ VersionsDescend'
  BY <1>1, <1>2 DEF HistoryIsRecent, VersionsDescend
<1>5. NothingDroppedYet' /\ FrontsSurvive'
  BY <1>2 DEF NothingDroppedYet, FrontsSurvive, Idle
<1>6. SavesAreDebounced'
  BY <1>1, <1>2 DEF SavesAreDebounced, NoCall
<1> QED
  BY <1>3, <1>4, <1>5, <1>6 DEF EvolutionInvariant

LEMMA EvolutionStep == EvolutionInvariant /\ [EvolutionNext]_evolutionVars => EvolutionInvariant'
<1> SUFFICES ASSUME EvolutionInvariant, [EvolutionNext]_evolutionVars
             PROVE  EvolutionInvariant'
  OBVIOUS
<1>0. /\ EvolutionTypeOK /\ HistoryIsRecent /\ VersionsDescend
      /\ NothingDroppedYet /\ FrontsSurvive /\ SavesAreDebounced
  BY DEF EvolutionInvariant
<1>1. ASSUME UNCHANGED <<history, recorded>>
      PROVE  HistoryIsRecent'
  BY <1>0, <1>1 DEF HistoryIsRecent
<1>2. ASSUME UNCHANGED <<deployed, rollback>>
      PROVE  VersionsDescend'
  BY <1>0, <1>2 DEF VersionsDescend
<1>3. ASSUME UNCHANGED <<population, dropped>>
      PROVE  NothingDroppedYet' /\ FrontsSurvive'
  BY <1>0, <1>3 DEF NothingDroppedYet, FrontsSurvive, Idle
<1>4. ASSUME UNCHANGED <<charged, budgetFile, sinceSave, sinceWrite, unsaved, torn>>
      PROVE  SavesAreDebounced'
  BY <1>0, <1>4 DEF SavesAreDebounced, Kept
<1>5. ASSUME NEW error \in Errors, Record(error)
      PROVE  EvolutionInvariant'
  <2>1. UNCHANGED <<population, generation, dropped, deployed, rollback, charged, budgetFile,
                    sinceSave, sinceWrite, unsaved, torn, faults>>
    BY <1>5 DEF Record, optimizerVars, versionVars, costVars
  <2>2. history' \in Seq([number : Nat, error : Nat]) /\ recorded' \in Nat /\ HistoryIsRecent'
    BY <1>0, <1>5, RecordKeepsRecent
  <2>3. EvolutionTypeOK'
    BY <1>0, <2>1, <2>2 DEF EvolutionTypeOK
  <2> QED
    BY <1>2, <1>3, <1>4, <2>1, <2>2, <2>3 DEF EvolutionInvariant
<1>6. CASE ModelCycle
  <2>1. UNCHANGED <<history, recorded, population, generation, dropped, charged, budgetFile,
                    sinceSave, sinceWrite, unsaved, torn>>
    BY <1>6 DEF ModelCycle, evaluatorVars, optimizerVars, costVars
  <2>2. deployed' \in Nat /\ rollback' \in Seq(Nat) /\ VersionsDescend' /\ faults' \in Nat
    <3>1. CASE Evaluate /\ UNCHANGED faults
      BY <1>0, <3>1, EvaluateKeepsOrder DEF EvolutionTypeOK
    <3>2. CASE Fault /\ UNCHANGED versionVars
      BY <1>0, <1>2, <3>2 DEF EvolutionTypeOK, Fault, versionVars
    <3> QED
      BY <1>6, <3>1, <3>2 DEF ModelCycle
  <2>3. EvolutionTypeOK'
    BY <1>0, <2>1, <2>2 DEF EvolutionTypeOK
  <2> QED
    BY <1>1, <1>3, <1>4, <2>1, <2>2, <2>3 DEF EvolutionInvariant
<1>7. CASE OptimizerCycle
  <2>1. UNCHANGED <<history, recorded, generation, dropped, deployed, rollback, charged, budgetFile,
                    sinceSave, sinceWrite, unsaved, torn, faults>>
    BY <1>7 DEF OptimizerCycle, evaluatorVars, versionVars, costVars
  <2>2. population' \in Vectors /\ dropped' = {}
    BY <1>0, <1>7, <2>1 DEF OptimizerCycle, NothingDroppedYet
  <2>3. NothingDroppedYet' /\ FrontsSurvive'
    <3>1. Len(population') = Size
      <4>1. population' \in Vectors /\ Size \in Nat
        BY <2>2, WindowAssumption
      <4> QED
        BY <4>1, VectorsHaveSize
    <3> QED
      BY <2>2, <3>1 DEF NothingDroppedYet, FrontsSurvive
  <2>4. EvolutionTypeOK'
    BY <1>0, <2>1, <2>2 DEF EvolutionTypeOK
  <2> QED
    BY <1>1, <1>2, <1>4, <2>1, <2>3, <2>4 DEF EvolutionInvariant
<1>8. CASE NextGeneration
  <2>1. UNCHANGED <<history, recorded, deployed, rollback, charged, budgetFile,
                    sinceSave, sinceWrite, unsaved, torn, faults>> /\ generation' = generation + 1
    BY <1>8 DEF NextGeneration, evaluatorVars, versionVars, costVars
  <2>2. population' \in Vectors /\ dropped' \subseteq Points /\ FrontsSurvive'
    BY <1>0, <1>8, GenerationKeepsFronts
  <2>3. NothingDroppedYet'
    <3>1. population' # <<>>
      BY <2>2, WindowAssumption DEF Vectors
    <3> QED
      BY <3>1 DEF NothingDroppedYet, Idle
  <2>4. EvolutionTypeOK'
    BY <1>0, <2>1, <2>2 DEF EvolutionTypeOK
  <2> QED
    BY <1>1, <1>2, <1>4, <2>1, <2>2, <2>3, <2>4 DEF EvolutionInvariant
<1>9. CASE CycleEnds
  <2>1. UNCHANGED <<history, recorded, charged, budgetFile, sinceSave, sinceWrite, unsaved, torn, faults>>
    BY <1>9 DEF CycleEnds, evaluatorVars, costVars
  <2>2. population' = <<>> /\ generation' = 0 /\ dropped' = {}
    BY <1>9 DEF CycleEnds
  <2>3. deployed' \in Nat /\ rollback' \in Seq(Nat) /\ VersionsDescend'
    BY <1>0, <1>9, EvaluateKeepsOrder DEF CycleEnds
  <2>4. NothingDroppedYet' /\ FrontsSurvive'
    BY <2>2 DEF NothingDroppedYet, FrontsSurvive, Idle
  <2>5. EvolutionTypeOK'
    BY <1>0, <2>1, <2>2, <2>3 DEF EvolutionTypeOK
  <2> QED
    BY <1>1, <1>4, <2>1, <2>3, <2>4, <2>5 DEF EvolutionInvariant
<1>10. CASE Second
  <2>1. UNCHANGED <<history, recorded, population, generation, dropped, deployed, rollback,
                    charged, budgetFile, unsaved, torn, faults>>
    BY <1>10 DEF Second, evaluatorVars, optimizerVars, versionVars
  <2>2. /\ sinceSave' \in 0..Debounce /\ sinceWrite' \in 0..Debounce
        /\ sinceWrite <= sinceSave => sinceWrite' <= sinceSave'
    <3>1. ASSUME NEW x \in 0..Debounce
          PROVE  Min({x + 1, Debounce}) = (IF x = Debounce THEN Debounce ELSE x + 1)
      <4>1. Debounce \in Nat
        BY WindowAssumption
      <4> DEFINE m == IF x = Debounce THEN Debounce ELSE x + 1
      <4>2. m \in {x + 1, Debounce} /\ \A y \in {x + 1, Debounce} : m <= y
        BY <4>1
      <4>3. \A z \in {x + 1, Debounce} : (\A y \in {x + 1, Debounce} : z <= y) => z = m
        BY <4>1, <4>2
      <4> HIDE DEF m
      <4>4. Min({x + 1, Debounce}) = m
        BY <4>2, <4>3 DEF Min
      <4> QED
        BY <4>4 DEF m
    <3>2. sinceSave \in 0..Debounce /\ sinceWrite \in 0..Debounce /\ Debounce \in Nat
      BY <1>0, WindowAssumption DEF EvolutionTypeOK
    <3>3. /\ sinceSave' = (IF sinceSave = Debounce THEN Debounce ELSE sinceSave + 1)
          /\ sinceWrite' = (IF sinceWrite = Debounce THEN Debounce ELSE sinceWrite + 1)
      BY <1>10, <3>1, <3>2 DEF Second
    <3> QED
      BY <3>2, <3>3
  <2>3. SavesAreDebounced'
    BY <1>0, <2>1, <2>2 DEF SavesAreDebounced, Kept
  <2>4. EvolutionTypeOK'
    BY <1>0, <2>1, <2>2 DEF EvolutionTypeOK
  <2> QED
    BY <1>1, <1>2, <1>3, <2>1, <2>3, <2>4 DEF EvolutionInvariant
<1>11. CASE Evolve \/ EvolveStrategy \/ TrainEpoch \/ EvaluationStep
  <2>1. PICK limit \in Nat : Charge(limit)
    BY <1>11, NumberAssumption DEF Evolve, EvolveStrategy, TrainEpoch, EvaluationStep
  <2>2. UNCHANGED <<history, recorded, population, generation, dropped, deployed, rollback>>
    BY <2>1 DEF Charge, evaluatorVars, optimizerVars, versionVars
  <2>3. /\ charged' \in Nat /\ sinceSave' \in 0..Debounce
        /\ budgetFile' \in Nat \union {NoFile} /\ sinceWrite' \in 0..Debounce
        /\ unsaved' \in {NoCall} \union 0..Debounce /\ torn' \in BOOLEAN /\ faults' \in Nat
        /\ SavesAreDebounced'
    BY <1>0, <2>1, ChargeKeepsDebounce
  <2>4. EvolutionTypeOK'
    BY <1>0, <2>2, <2>3 DEF EvolutionTypeOK
  <2> QED
    BY <1>1, <1>2, <1>3, <2>2, <2>3, <2>4 DEF EvolutionInvariant
<1>12. CASE ResetMonthly
  <2>1. /\ UNCHANGED <<history, recorded, population, generation, dropped, deployed, rollback, sinceSave>>
        /\ charged' = 0 /\ Save(0)
    BY <1>12 DEF ResetMonthly, evaluatorVars, optimizerVars, versionVars
  <2>2. /\ budgetFile' \in Nat \union {NoFile} /\ sinceWrite' \in 0..Debounce
        /\ unsaved' \in {NoCall} \union 0..Debounce /\ torn' \in BOOLEAN /\ faults' \in Nat
        /\ SavesAreDebounced'
    <3>1. sinceSave' \in 0..Debounce /\ 0 \in Nat
      BY <1>0, <2>1 DEF EvolutionTypeOK
    <3> QED
      BY <1>0, <2>1, <3>1, SaveKeepsDebounce
  <2>3. EvolutionTypeOK'
    BY <1>0, <2>1, <2>2 DEF EvolutionTypeOK
  <2> QED
    BY <1>1, <1>2, <1>3, <2>1, <2>2, <2>3 DEF EvolutionInvariant
<1>13. CASE NextCommand
  <2>1. budgetFile' \in Nat \union {NoFile} /\ faults' \in Nat /\ Restart
    BY <1>0, <1>13 DEF NextCommand, EvolutionTypeOK
  <2> QED
    BY <1>0, <2>1, RestartKeeps
<1>14. CASE CrashAndRestart
  <2>1. budgetFile' \in Nat \union {NoFile} /\ faults' \in Nat /\ Restart
    BY <1>0, <1>14 DEF CrashAndRestart, Fault, EvolutionTypeOK
  <2> QED
    BY <1>0, <2>1, RestartKeeps
<1>15. CASE UNCHANGED evolutionVars
  <2>1. UNCHANGED <<history, recorded, population, generation, dropped, deployed, rollback,
                    charged, budgetFile, sinceSave, sinceWrite, unsaved, torn, faults>>
    BY <1>15 DEF evolutionVars
  <2>2. EvolutionTypeOK'
    BY <1>0, <2>1 DEF EvolutionTypeOK
  <2> QED
    BY <1>1, <1>2, <1>3, <1>4, <2>1, <2>2 DEF EvolutionInvariant
<1> QED
  BY <1>5, <1>6, <1>7, <1>8, <1>9, <1>10, <1>11, <1>12, <1>13, <1>14, <1>15 DEF EvolutionNext

LEMMA EvolutionHolds == EvolutionSpec => []EvolutionInvariant
<1> QED
  BY EvolutionStarts, EvolutionStep, PTL DEF EvolutionSpec

\* Trimming never changes what a cycle evaluates, and a cycle rolls back to the
\* version that was deployed before (MetaEvaluator.record, EvolutionPipeline._deploy
\* and _rollback).
THEOREM PipelineInOrder == EvolutionSpec => []PipelineKeepsOrder
<1>1. EvolutionInvariant => PipelineKeepsOrder
  BY DEF EvolutionInvariant, PipelineKeepsOrder
<1> QED
  BY <1>1, EvolutionHolds, PTL

\* Counting down the dominators loses no candidate and puts none too early: every
\* generation is complete, and it keeps no candidate that one it dropped dominates
\* (MultiObjectiveOptimizer._fast_non_dominated_sort, optimize).
THEOREM FrontsKept == EvolutionSpec => []FrontsSurvive
<1>1. EvolutionInvariant => FrontsSurvive
  BY DEF EvolutionInvariant
<1> QED
  BY <1>1, EvolutionHolds, PTL

\* Without a reset only a restart gives calls back. The calls the file misses were
\* then made within the debounce of its last write.
LEMMA LostCallsStep ==
  ASSUME EvolutionInvariant, EvolutionNext, charged' < charged,
         ~ ResetMonthly, budgetFile' = budgetFile, ~ torn
  PROVE  unsaved \in 0..(Debounce - 1)
<1>1. /\ charged \in Nat /\ Debounce \in Nat \ {0}
      /\ unsaved \in {NoCall} \union 0..Debounce
      /\ unsaved < Debounce
      /\ unsaved = NoCall => charged = Kept
  BY WindowAssumption DEF EvolutionInvariant, EvolutionTypeOK, SavesAreDebounced
<1>2. charged' = charged \/ charged' = charged + 1 \/ charged' = Kept'
  <2>1. CASE \E error \in Errors : Record(error)
    BY <2>1 DEF Record, costVars
  <2>2. CASE ModelCycle \/ OptimizerCycle \/ NextGeneration \/ CycleEnds \/ Second
    BY <2>2 DEF ModelCycle, OptimizerCycle, NextGeneration, CycleEnds, Second, costVars
  <2>3. CASE Evolve \/ EvolveStrategy \/ TrainEpoch \/ EvaluationStep
    <3>1. PICK limit : Charge(limit)
      BY <2>3 DEF Evolve, EvolveStrategy, TrainEpoch, EvaluationStep
    <3> QED
      BY <3>1 DEF Charge, Recorded, ExecutorRecorded
  <2>4. CASE NextCommand \/ CrashAndRestart
    BY <2>4 DEF NextCommand, CrashAndRestart, Restart
  <2> QED
    BY <2>1, <2>2, <2>3, <2>4 DEF EvolutionNext
<1>3. Kept' = Kept
  BY DEF Kept
<1>4. charged # Kept
  BY <1>1, <1>2, <1>3
<1> QED
  BY <1>1, <1>4 DEF NoCall

\* Apart from the monthly reset, a crash inside a save and a restart after a save
\* that failed, only calls made within the debounce of the last write are given
\* back (CostController.record_planner_call, _debounced_save, _save).
THEOREM OnlyRecentCallsLost == EvolutionSpec => LostCallsAreRecent
<1>1. EvolutionInvariant /\ [EvolutionNext]_evolutionVars =>
        [charged' < charged => ResetMonthly \/ budgetFile' # budgetFile \/ torn
                               \/ unsaved \in 0..(Debounce - 1)]_evolutionVars
  <2> SUFFICES ASSUME EvolutionInvariant, [EvolutionNext]_evolutionVars, charged' < charged,
                      ~ ResetMonthly, budgetFile' = budgetFile, ~ torn,
                      ~ UNCHANGED evolutionVars
               PROVE  unsaved \in 0..(Debounce - 1)
    OBVIOUS
  <2> QED
    BY LostCallsStep
<1> QED
  BY <1>1, EvolutionHolds, PTL DEF EvolutionSpec, LostCallsAreRecent

=============================================================================
