---------------------------- MODULE MCResponseCache ----------------------------
(* Two threads and two keys for one place in memory. *)
EXTENDS ResponseCache, TLC

CONSTANTS th1, th2, k1, k2

MCThread == {th1, th2}
MCKey == {k1, k2}
MCSymmetry == Permutations(MCThread) \union Permutations(MCKey)

=============================================================================
