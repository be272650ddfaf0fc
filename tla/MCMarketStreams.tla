--------------------------- MODULE MCMarketStreams ---------------------------
(***************************************************************************)
(* An instance of MarketStreams for TLC: offers of one symbol, of which    *)
(* the second is the better one.  What the properties relate is explored   *)
(* together, and what shares no state is not: controls while the market    *)
(* rests, snapshots while administrators rest, and candles without         *)
(* streams.                                                                *)
(***************************************************************************)
EXTENDS MarketStreamsProperties

CONSTANTS
    btc, s1,
    SnapshotTrades, SnapshotTime   \* bounds: trades and clock beside a snapshot

OneSymbol == [o \in Orders |-> btc]

Offers == [o \in Orders |-> "SELL"]

SecondIsBest == [o \in Orders |-> IF o = 2 THEN 1 ELSE 2]

Switches ==
    {[enableSSE |-> b] : b \in BOOLEAN} \cup {[publicAllowL3 |-> b] : b \in BOOLEAN}
        \cup {[streamDefaultLevel |-> 3]}

\* The client asks for little.
Controls ==
    /\ now = 0
    /\ \A o \in Orders : order[o] = "NONE"
    /\ asked[s1].depth = 1 /\ asked[s1].since = 0

Snapshots ==
    /\ changes = 0
    /\ now =< SnapshotTime
    /\ Len(tape[btc]) =< SnapshotTrades
    /\ \A i \in DOMAIN tape[btc] : tape[btc][i].price = 1

CandlesAlone ==
    /\ changes = 0
    /\ stage[s1] = "none"
    /\ \A o \in Orders \ {1} : order[o] = "NONE"

MCNext ==
    \/ Controls /\ Administer /\ Controls'
    \/ (Snapshots \/ CandlesAlone) /\ Market /\ (Snapshots' \/ CandlesAlone')
    \/ (Controls \/ Snapshots) /\ Watch /\ (Controls' \/ Snapshots')

\* It allows what Spec allows, within these bounds.
MCSpec == Init /\ [][MCNext]_vars
=============================================================================
