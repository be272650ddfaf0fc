------------------------------- MODULE Candles -------------------------------
(***************************************************************************)
(* Candles from trades (routes/stream.ts, getGapFilledCandles): trades of  *)
(* a window are gathered by period, and a period without a trade repeats   *)
(* the last close.  Trades are records with price, qty and at, in a        *)
(* sequence ordered by at.                                                 *)
(***************************************************************************)
EXTENDS Integers, Sequences, SequencesExt

CONSTANTS
    Period,       \* periodMs
    Limit,        \* candles asked for
    TakeTrades    \* 20000: trades that are gathered at most

ASSUME CandlesAssumption ==
    /\ Period \in Nat \ {0}
    /\ Limit \in Nat \ {0}
    /\ TakeTrades \in Nat \ {0}

FloorTo(t) == (t \div Period) * Period

Start(now) == FloorTo(now) - (Limit - 1) * Period

Larger(a, b) == IF a > b THEN a ELSE b

Smaller(a, b) == IF a < b THEN a ELSE b

\* The trades of a span, in the order of the tape.
Within(tape, from, to) ==
    FoldLeft(LAMBDA in, tr : IF from =< tr.at /\ tr.at < to THEN Append(in, tr) ELSE in,
             <<>>, tape)

\* The trades before the window: time begins at 0.
Earlier(tape, now) == Within(tape, 0, Start(now))

\* Wrong on purpose: when the cap binds, the newest trades of the window are kept.
Gathered_Newest(tape, now) ==
    LET in == Within(tape, Start(now), FloorTo(now) + Period)
    IN  SubSeq(in, Larger(1, Len(in) - TakeTrades + 1), Len(in))

\* The oldest trades of the window.
Gathered(tape, now) ==
    LET in == Within(tape, Start(now), FloorTo(now) + Period)
    IN  SubSeq(in, 1, Smaller(Len(in), TakeTrades))

\* aggregateTradesToCandles: buckets by their start.
Opened(t, tr) ==
    [t |-> t, o |-> tr.price, h |-> tr.price, l |-> tr.price, c |-> tr.price, v |-> tr.qty, n |-> 1]

Moved(b, tr) ==
    [b EXCEPT !.c = tr.price, !.h = Larger(@, tr.price), !.l = Smaller(@, tr.price),
              !.v = @ + tr.qty, !.n = @ + 1]

AddTrade(buckets, tr) ==
    LET t == FloorTo(tr.at) IN
    [u \in DOMAIN buckets \cup {t} |->
        IF u # t THEN buckets[u]
        ELSE IF t \in DOMAIN buckets THEN Moved(buckets[t], tr) ELSE Opened(t, tr)]

Buckets(trades) == FoldLeft(AddTrade, <<>>, trades)

Flat(t, price) ==
    [t |-> t, o |-> price, h |-> price, l |-> price, c |-> price, v |-> 0, n |-> 0]

\* The close that gaps at the start repeat: of the last trade before the window, or else the
\* open of the first candle; none if there are no trades at all.
Seed(tape, now) ==
    LET before == Earlier(tape, now)
        in == Gathered(tape, now)
    IN  IF before # <<>> THEN {Last(before).price}
        ELSE IF in # <<>> THEN {in[1].price} ELSE {}

\* One more period: its candle, or a flat one at the last close.
NextCandle(buckets, filled, t) ==
    LET c == IF t \in DOMAIN buckets THEN buckets[t] ELSE Flat(t, filled.close)
    IN  [candles |-> Append(filled.candles, c), close |-> c.c]

\* materializeAndFillGaps, over the periods of the window.
Filled(buckets, seed, now) ==
    FoldLeft(LAMBDA filled, t : NextCandle(buckets, filled, t),
             [candles |-> <<>>, close |-> seed],
             [i \in 1..Limit |-> Start(now) + (i - 1) * Period])

GapFilledCandles(tape, now) ==
    IF Seed(tape, now) = {} THEN <<>>
    ELSE Filled(Buckets(Gathered(tape, now)), CHOOSE p \in Seed(tape, now) : TRUE, now).candles
=============================================================================
