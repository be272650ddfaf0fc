--------------------------- MODULE MCIdempotency ----------------------------
(***************************************************************************)
(* An instance of Idempotency for TLC.                                     *)
(***************************************************************************)
EXTENDS IdempotencyProperties

CONSTANTS c1, c2, c3, k1, k2, p1, p2
=============================================================================
