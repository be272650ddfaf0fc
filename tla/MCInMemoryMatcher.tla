------------------------- MODULE MCInMemoryMatcher --------------------------
(***************************************************************************)
(* Instances of InMemoryMatcher for TLC.                                   *)
(***************************************************************************)
EXTENDS InMemoryMatcherProperties, TLC

CONSTANTS c1, c2, u1

ClientSymmetry == Permutations({c1, c2})
=============================================================================
