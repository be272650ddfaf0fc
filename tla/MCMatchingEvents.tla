-------------------------- MODULE MCMatchingEvents --------------------------
(***************************************************************************)
(* An instance of MatchingEvents for TLC: orders of two symbols.           *)
(***************************************************************************)
EXTENDS MatchingEventsProperties

CONSTANTS o1, o2, btc, eth, sys, s1, r1

Book == (o1 :> btc) @@ (o2 :> eth) @@ (System :> sys)

\* A resting order through the database; a limit order that fills and rests in memory.
Outcomes ==
    {[fills |-> 0, left |-> TRUE, rests |-> FALSE, cancelled |-> FALSE, delta |-> FALSE],
     [fills |-> 1, left |-> FALSE, rests |-> FALSE, cancelled |-> FALSE, delta |-> FALSE]}
=============================================================================
