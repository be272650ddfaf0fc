--------------------------- MODULE MCAgentTrading ---------------------------
(***************************************************************************)
(* An instance of AgentTrading for TLC.                                    *)
(***************************************************************************)
EXTENDS AgentTradingProperties, TLC

CONSTANTS c1, c2, r1, r2, n1, n2, n3, h1, h2, u1, m1, symbol

\* The symbol admits fewer than its user, who is counted first.
SmallLimit == [k \in WindowKey |-> IF k = Symbol THEN 2 ELSE 3]

\* A mandate for one order a day that ends before the clock does.
SmallRows ==
    {[action |-> "TRADE", market |-> m1, maxOrders |-> 1, notBefore |-> 0, expiresAt |-> 3]}

Symmetry == Permutations({c1, c2}) \cup Permutations({n1, n2, n3})
=============================================================================
