------------------------------- MODULE MCMetaLoop -------------------------------
(***************************************************************************)
(* Bounds for MetaLoop: windows of two and three cycles stand for those of  *)
(* ten and twenty, and a memory of three for one of a thousand, so that all *)
(* of them overflow within three runs of up to three cycles.                *)
(***************************************************************************)
EXTENDS MetaLoop, TLC

CONSTANTS rejected, crashed, in1, in2, out1, out2

MCCauses == {rejected, crashed}
MCHeldIn == {in1, in2}
MCHeldOut == {out1, out2}

MCSymmetry == Permutations(MCCauses) \cup Permutations(MCHeldIn) \cup Permutations(MCHeldOut)
=============================================================================
