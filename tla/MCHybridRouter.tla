----------------------------- MODULE MCHybridRouter -----------------------------
(***************************************************************************)
(* Bounds for HybridRouter: two planners of which the first may fail, one   *)
(* executor that may fail before a reliable one, and a reviewer that may    *)
(* fail.                                                                    *)
(***************************************************************************)
EXTENDS HybridRouter

CONSTANTS sota, backup, local, spare, judge

MCModels == {sota, backup, local, spare, judge}

MCChain == [planner |-> <<sota, backup>>, executor |-> <<local, spare>>, reviewer |-> <<judge>>]

MCReliable == {backup, spare}
=============================================================================
