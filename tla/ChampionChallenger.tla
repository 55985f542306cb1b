--------------------------- MODULE ChampionChallenger ---------------------------
(***************************************************************************)
(* zilli/training/champion_challenger.py: the arena that promotes a model   *)
(* trained by distillation over the one in service, and rolls it back.      *)
(*                                                                         *)
(* Scores are abstracted to what _evaluate_match makes of them: a           *)
(* significant winner or none.  Of a match the code later reads champion,   *)
(* challenger and winner.  time.time() stamps are the number of changes of  *)
(* champion so far: only their order matters.                               *)
(*                                                                         *)
(* `live` is outside the arena: the model the deploy and rollback callbacks *)
(* last put in service.  A callback that raises may have done its work or   *)
(* not.  `careful`, `displaced` and `callbackRaised` are history variables. *)
(***************************************************************************)
EXTENDS Naturals, Sequences, FiniteSets

CONSTANTS
    Names,         \* model names
    None,          \* Python's None
    WarmupRounds,  \* matches a champion must have played before it can lose
    MaxMatches,    \* bound: matches played
    MaxRegisters,  \* bound: calls of register_model
    MaxRollbacks   \* bound: calls of rollback that change the champion

ASSUME NoneAssumption   == None \notin Names
ASSUME WarmupAssumption == WarmupRounds \in Nat

VARIABLES
    status,          \* _models[n].status, or "absent"
    retired_at,      \* _models[n].retired_at; 0 is None
    champion,        \* _champion
    matches,         \* _matches
    champion_wins, challenger_wins, deployments, rollbacks,
    registers,       \* calls of register_model so far (bounds the model)
    live,            \* the model in service, as the callbacks left it
    careful,         \* register_model was used as every caller uses it
    displaced,       \* the champion replaced last, while it stays RETIRED
    callbackRaised   \* some callback raised

counters == <<champion_wins, challenger_wins, deployments, rollbacks>>
vars == <<status, retired_at, champion, matches, counters, registers, live, careful,
          displaced, callbackRaised>>

Status == {"absent", "CHAMPION", "CHALLENGER", "CONTENDER", "RETIRED"}
Match  == [champion : Names, challenger : Names, winner : Names \cup {None}]

TypeOK ==
    /\ status \in [Names -> Status]
    /\ retired_at \in [Names -> Nat]
    /\ champion \in Names \cup {None}
    /\ matches \in Seq(Match)
    /\ champion_wins \in Nat /\ challenger_wins \in Nat
    /\ deployments \in Nat /\ rollbacks \in Nat
    /\ registers \in Nat
    /\ live \in Names \cup {None}
    /\ careful \in BOOLEAN
    /\ displaced \in Names \cup {None}
    /\ callbackRaised \in BOOLEAN

Init ==
    /\ status = [n \in Names |-> "absent"]
    /\ retired_at = [n \in Names |-> 0]
    /\ champion = None
    /\ matches = <<>>
    /\ champion_wins = 0 /\ challenger_wins = 0 /\ deployments = 0 /\ rollbacks = 0
    /\ registers = 0
    /\ live = None
    /\ careful = TRUE
    /\ displaced = None
    /\ callbackRaised = FALSE

\* time.time() at the next change of champion.
Now == deployments + rollbacks + 1

(***************************************************************************)
(* register_model overwrites an existing entry and does not retire the      *)
(* previous champion.  Its callers register each name once, a champion only *)
(* while there is none, and never a RETIRED model: that is `careful`.       *)
(***************************************************************************)
Register(n, s) ==
    /\ registers < MaxRegisters
    /\ registers' = registers + 1
    /\ status' = [status EXCEPT ![n] = s]
    /\ retired_at' = [retired_at EXCEPT ![n] = 0]
    /\ champion' = IF s = "CHAMPION" THEN n ELSE champion
    /\ careful' = (/\ careful
                   /\ status[n] = "absent"
                   /\ s # "RETIRED"
                   /\ s = "CHAMPION" => champion = None)
    /\ UNCHANGED <<matches, counters, live, displaced, callbackRaised>>

(***************************************************************************)
(* _should_deploy, evaluated after the match has been appended to `played`. *)
(***************************************************************************)
Against(played, c) == {i \in DOMAIN played : played[i].champion = c}
ByChallenger(played, n) == {i \in DOMAIN played : played[i].challenger = n}

\* The last five of some matches, or all of them when there are fewer.
Last5(ms) == {i \in ms : Cardinality({j \in ms : j >= i}) <= 5}

Wins(played, ms, n) == Cardinality({i \in ms : played[i].winner = n})

WarmedUp_Always(played) == TRUE
WarmedUp(played) == Cardinality(Against(played, champion)) >= WarmupRounds

\* `wins < len(recent) * 0.6`, over integers.
GoodRecord(played, n) ==
    LET recent == Last5(ByChallenger(played, n))
    IN  Cardinality(recent) >= 2 => 5 * Wins(played, recent, n) >= 3 * Cardinality(recent)

ShouldDeploy(played, n) == WarmedUp(played) /\ GoodRecord(played, n)

(***************************************************************************)
(* _promote_challenger, after a deploy callback that returned (or none).    *)
(* The old champion is retired first: a champion that beats itself in a     *)
(* match of the same name stays CHAMPION, with a retirement date.           *)
(***************************************************************************)
Promote_KeepsOld(n) ==
    /\ status' = [status EXCEPT ![n] = "CHAMPION"]
    /\ retired_at' = [retired_at EXCEPT ![champion] = Now]
    /\ displaced' = IF n = champion THEN displaced ELSE champion
    /\ champion' = n
    /\ deployments' = deployments + 1
    /\ live' = n

Promote(n) ==
    /\ status' = [status EXCEPT ![champion] = "RETIRED", ![n] = "CHAMPION"]
    /\ retired_at' = [retired_at EXCEPT ![champion] = Now]
    /\ displaced' = IF n = champion THEN displaced ELSE champion
    /\ champion' = n
    /\ deployments' = deployments + 1
    /\ live' = n

NoPromotion == UNCHANGED <<status, retired_at, champion, deployments, displaced>>

MatchRecord(n, winner) == [champion |-> champion, challenger |-> n, winner |-> winner]

\* A draw counts as a win of the champion.
Tally(n, winner) ==
    /\ challenger_wins' = challenger_wins + (IF winner = n THEN 1 ELSE 0)
    /\ champion_wins' = champion_wins + (IF winner = n THEN 0 ELSE 1)

\* run_match: `winner` is what _evaluate_match found.
RunMatch(n, winner) ==
    /\ Len(matches) < MaxMatches
    /\ champion # None
    /\ status[n] # "absent"
    /\ winner \in {None, champion, n}
    /\ matches' = Append(matches, MatchRecord(n, winner))
    /\ Tally(n, winner)
    /\ IF winner = n /\ ShouldDeploy(matches', n)
       THEN \/ Promote(n) /\ UNCHANGED callbackRaised
            \/ NoPromotion /\ live' \in {live, n} /\ callbackRaised' = TRUE
       ELSE NoPromotion /\ UNCHANGED <<live, callbackRaised>>
    /\ UNCHANGED <<rollbacks, registers, careful>>

-----------------------------------------------------------------------------

Retired == {n \in Names : status[n] = "RETIRED"}

\* The sort is stable and descending: a most recently retired model.
RollbackTargets_Oldest == {t \in Retired : \A r \in Retired : retired_at[t] <= retired_at[r]}
RollbackTargets == {t \in Retired : \A r \in Retired : retired_at[r] <= retired_at[t]}

Rollback_SkipsCallback(t) ==
    /\ rollbacks < MaxRollbacks
    /\ matches # <<>>
    /\ t \in RollbackTargets
    /\ champion # None
    /\ status' = [status EXCEPT ![champion] = "RETIRED", ![t] = "CHAMPION"]
    /\ retired_at' = [retired_at EXCEPT ![champion] = Now]
    /\ displaced' = champion
    /\ champion' = t
    /\ rollbacks' = rollbacks + 1
    /\ UNCHANGED <<live, callbackRaised>>
    /\ UNCHANGED <<matches, champion_wins, challenger_wins, deployments, registers, careful>>

\* rollback changes the arena first and calls the callback afterwards.
Rollback(t) ==
    /\ rollbacks < MaxRollbacks
    /\ matches # <<>>
    /\ t \in RollbackTargets
    /\ champion # None
    /\ status' = [status EXCEPT ![champion] = "RETIRED", ![t] = "CHAMPION"]
    /\ retired_at' = [retired_at EXCEPT ![champion] = Now]
    /\ displaced' = IF t = champion THEN displaced ELSE champion
    /\ champion' = t
    /\ rollbacks' = rollbacks + 1
    /\ \/ live' = t /\ UNCHANGED callbackRaised
       \/ live' \in {live, t} /\ callbackRaised' = TRUE
    /\ UNCHANGED <<matches, champion_wins, challenger_wins, deployments, registers, careful>>

Next ==
    \/ \E n \in Names, s \in Status \ {"absent"} : Register(n, s)
    \/ \E n \in Names, w \in Names \cup {None} : RunMatch(n, w)
    \/ \E t \in Names : Rollback(t)

Spec == Init /\ [][Next]_vars

-----------------------------------------------------------------------------
(***************************************************************************)
(* Properties.                                                             *)
(***************************************************************************)

\* However matches, self-matches, aborted promotions and rollbacks follow each
\* other, exactly the model _champion names has status CHAMPION.
OneChampion ==
    careful => \A n \in Names : status[n] = "CHAMPION" <=> champion = n

\* The counters stats() reports add up to the match list, and a deployment
\* needs a challenger's win of its own.
MatchAccounting ==
    /\ champion_wins + challenger_wins = Len(matches)
    /\ deployments <= challenger_wins

\* rollback brings back the champion that was replaced last, whatever other
\* models were retired before and whatever retirement dates self-matches left.
RollbackRestores ==
    [][careful /\ rollbacks' # rollbacks => champion' = displaced]_vars

\* Once the arena has changed its champion and as long as no callback raised,
\* the model in service is the champion.
LiveIsChampion ==
    careful /\ ~ callbackRaised /\ deployments + rollbacks > 0 => live = champion

\* A champion falls only after it has played its warm-up matches, to a
\* challenger that won the match just played and, from its second match on, at
\* least 60 % of the five latest it played (of all, when they are fewer).
PromotionEarned ==
    [][deployments' # deployments =>
         LET n    == champion'
             mine == {i \in DOMAIN matches' : matches'[i].challenger = n}
         IN  /\ Cardinality({i \in DOMAIN matches' : matches'[i].champion = champion})
                    >= WarmupRounds
             /\ Len(matches') \in mine /\ matches'[Len(matches')].winner = n
             /\ \A ms \in SUBSET mine :
                  /\ Cardinality(ms) \in 2..5
                  /\ ms = mine \/ Cardinality(ms) = 5
                  /\ \A i \in ms, j \in mine : j > i => j \in ms
                  => 5 * Cardinality({i \in ms : matches'[i].winner = n})
                        >= 3 * Cardinality(ms)]_vars
=============================================================================
