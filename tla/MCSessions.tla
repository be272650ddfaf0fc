----------------------------- MODULE MCSessions -----------------------------
(***************************************************************************)
(* An instance of Sessions for TLC.                                        *)
(***************************************************************************)
EXTENDS SessionsProperties, TLC

CONSTANTS c1, c2

Symmetry == Permutations({c1, c2})
=============================================================================
