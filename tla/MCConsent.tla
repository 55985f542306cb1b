------------------------------- MODULE MCConsent -------------------------------
(***************************************************************************)
(* Bounds for Consent: with three records a revoked one can lie between an  *)
(* older and a newer one of the same subject and use, expired or not.       *)
(***************************************************************************)
EXTENDS Consent, TLC

CONSTANTS alice, bob, cloud, local

MCSubjects == {alice, bob}
MCUses == {cloud, local}

MCSymmetry == Permutations(MCSubjects) \cup Permutations(MCUses)
=============================================================================
