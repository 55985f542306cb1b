----------------------------- MODULE MCTrainingRun -----------------------------
(***************************************************************************)
(* Two epochs of three tasks, one of them always raising, mixed with runs   *)
(* of the distill command.                                                  *)
(***************************************************************************)
EXTENDS TrainingRun

CONSTANTS t1, t2, t3

MCTask == {t1, t2, t3}
MCBad == {t2}
=============================================================================
