------------------------------ MODULE MCVersions ------------------------------
(***************************************************************************)
(* What is live: the arena's champion, the version the evolution pipeline   *)
(* deployed and the budget that evolving is charged to.  None of the three  *)
(* reads another's state, so each is explored while the others have not     *)
(* started: a property of one holds of the three together if it holds so.   *)
(*                                                                          *)
(* With a warm-up of two, four matches are enough for two promotions, and   *)
(* two rollbacks allow a double rollback.  Windows hold one sample that is  *)
(* good, tolerable or bad, and an optimizer has two candidates with two     *)
(* objectives.                                                              *)
(***************************************************************************)
EXTENDS ChampionChallenger, Evolution, TLC

CONSTANTS m1, m2, m3

MCNames == {m1, m2, m3}

MCErrors == {0, 1, 2}
MCPoints == {<<0, 0>>, <<0, 1>>, <<1, 0>>, <<1, 1>>}

MCSymmetry == Permutations(MCNames)

PipelineUnused == <<evaluatorVars, optimizerVars, versionVars>> = <<<<<<>>, 0>>, <<<<>>, 0, {}>>, <<0, <<>>>>>>
BudgetUnused == <<charged, budgetFile, sinceSave, sinceWrite, unsaved>> = <<0, NoFile, Debounce, Debounce, NoCall>>

MCInit == Init /\ EvolutionInit

MCNext ==
    \/ EvolutionInit /\ Next /\ UNCHANGED evolutionVars
    \/ Init /\ EvolutionNext /\ UNCHANGED vars /\ (PipelineUnused' \/ BudgetUnused')

MCSpec == MCInit /\ [][MCNext]_<<vars, evolutionVars>>

=============================================================================
