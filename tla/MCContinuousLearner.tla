-------------------------- MODULE MCContinuousLearner --------------------------
(* Two good files around one with a malformed trajectory and one that is not *)
(* UTF-8, and a store that overflows.                                        *)
EXTENDS ContinuousLearner

MCFile == 1..4
MCContent == << <<"golden", "failure">>, <<"neutral", "malformed">>, <<"golden">>, <<"short", "golden">> >>
MCUndecodable == {3}

=============================================================================
