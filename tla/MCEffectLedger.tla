--------------------------- MODULE MCEffectLedger ---------------------------
(***************************************************************************)
(* Small instances of EffectLedger for TLC.                                *)
(***************************************************************************)
EXTENDS EffectLedger, TLC

CONSTANTS c1, c2, c3

CallerSymmetry == Permutations(Caller)
=============================================================================
