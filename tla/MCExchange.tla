----------------------------- MODULE MCExchange -----------------------------
(***************************************************************************)
(* Instances of Exchange for TLC.                                          *)
(***************************************************************************)
EXTENDS ExchangeProperties, TLC

CONSTANTS c1, c2, u1, u2

\* Users start with the same funds, and no property names one of them.
UserSymmetry == Permutations({u1, u2})
ClientSymmetry == Permutations({c1, c2})
BothSymmetry == UserSymmetry \cup ClientSymmetry
=============================================================================
