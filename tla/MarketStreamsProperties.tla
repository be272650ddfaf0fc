----------------------- MODULE MarketStreamsProperties -----------------------
(***************************************************************************)
(* What MarketStreams is checked for.                                      *)
(***************************************************************************)
EXTENDS MarketStreams, FiniteSetsExt

Status == {"NONE", "OPEN", "PARTIALLY_FILLED", "FILLED", "CANCELLED"}

Control == [mode : Modes, nr : -1..MaxChanges]

Trades == [order : Orders, price : Prices, qty : Nat, at : 0..MaxTime]

Asked ==
    [symbol : Symbols \cup {Everyone}, admin : BOOLEAN, level : {2, 3},
     depth : Nat \ {0}, limit : Nat \ {0}, since : Nat]

TypeOK ==
    /\ control \in [Symbols -> [mode : Modes, nr : 0..MaxChanges]]
    /\ defaults \in Flags
    /\ override \in [Symbols -> Flags \cup {NoFlags}]
    /\ changes \in 0..MaxChanges
    /\ now \in 0..MaxTime
    /\ order \in [Orders -> Status]
    /\ tape \in [Symbols -> Seq(Trades)]
    /\ stage \in [Streams -> {"none", "candles", "book", "trades", "open"}]
    /\ asked \in [Streams -> Asked]
    /\ first \in [Streams -> Control]
    /\ unseen \in [Streams -> SUBSET Orders]
    /\ beyond \in [Streams -> SUBSET Orders]
    /\ pending \in [Streams -> SUBSET Control]
    /\ shown \in [Streams -> Control]
    /\ newest \in [Streams -> -1..MaxChanges]
    /\ snapshot \subseteq Streams
    /\ overtaken \subseteq Streams
    /\ left \subseteq Streams
    /\ escaped \subseteq Streams

\* A client who is no administrator is served only what the flags of the symbol allow, from
\* the request to the end of the stream, through defaults, overrides and their removal: "If
\* public SSE got disabled while connected (and user is not admin), terminate stream".  Those
\* that are still reading their snapshot when the flags change escape.
StreamsObeyFlags ==
    \A s \in Streams :
        stage[s] # "none" => ~Forbids(FlagsOf(asked[s].symbol), asked[s]) \/ s \in escaped

\* A client that has its snapshot was last told the trading mode that is in force, unless an
\* older message, its snapshot or one that waited for its book, came after a newer one.
LastControlIsCurrent ==
    \A s \in snapshot : shown[s] = control[asked[s].symbol] \/ s \in overtaken

\* An order that was open when the stream began is in the book of the snapshot or among its
\* trades, unless it was cancelled: what a fill takes from the book between two reads is
\* found in the trades.  That is within what the client asked for: not when the order was open
\* behind depth orders (level 3), depth prices or takeRaw orders (level 2) as the book was read,
\* nor when all its trades were before sinceMs or had limit others as new as they as the trades were.
SnapshotMissesNothing ==
    \A s \in snapshot : \A o \in unseen[s] \ beyond[s] : order[o] = "CANCELLED"

\* What was traded in the period that begins at t.
Volume(in, t) == FoldLeft(LAMBDA v, tr : IF FloorTo(tr.at) = t THEN v + tr.qty ELSE v, 0, in)

\* What c says of its period is what the trades of the window say; without any, it repeats the
\* last price before it, or if there is none the first of the window.
Describes(c, in, old) ==
    LET mine == {j \in DOMAIN in : FloorTo(in[j].at) = c.t}
        before == {j \in DOMAIN old : old[j].at < c.t}
    IN  IF mine # {}
        THEN /\ c.o = in[Min(mine)].price /\ c.c = in[Max(mine)].price
             /\ c.h = Max({in[j].price : j \in mine})
             /\ c.l = Min({in[j].price : j \in mine})
             /\ c.v = Volume(in, c.t)
             /\ c.n = Cardinality(mine)
        ELSE c = Flat(c.t, old[IF before # {} THEN Max(before) ELSE 1].price)

\* A window has one candle for each period, in order, if there are trades at all.
AreCandles(candles, in, old, time) ==
    /\ Len(candles) = IF old = <<>> THEN 0 ELSE Limit
    /\ \A i \in DOMAIN candles :
        candles[i].t = Start(time) + (i - 1) * Period /\ Describes(candles[i], in, old)

\* How many trades there were before the window.
Older(trades, time) == Cardinality({i \in DOMAIN trades : trades[i].at < Start(time)})

\* The trades that candles are made of: those before the window and its first TakeTrades.
Known(trades, time) == SubSeq(trades, 1, Smaller(Len(trades), Older(trades, time) + TakeTrades))

\* The candles of a window are one for each period, and they are those that its trades define,
\* up to the TakeTrades oldest of them: in a period with trades the first and last price, the
\* extremes, the sum and the count; in one without, the last price before it, or if there is
\* none the first of the window.
CandlesDescribeTrades ==
    \A sym \in Symbols :
        LET known == Known(tape[sym], now)
        IN  AreCandles(GapFilledCandles(tape[sym], now),
                       SubSeq(known, Older(tape[sym], now) + 1, Len(known)), known, now)
=============================================================================
