---------------------------- MODULE MarketStreams ----------------------------
(***************************************************************************)
(* GET /v1/stream/:symbol (routes/stream.ts): a snapshot, read in three    *)
(* statements, and what administrators change while a client listens.      *)
(*                                                                         *)
(* A stream listens before it reads its snapshot.  It can be closed, by    *)
(* its client or by the flags, only after: shutdown needs the timer that   *)
(* is created last, and throws before.  Nothing in the process emits       *)
(* "trade" or "orderbook", so those listeners are left out.                *)
(*                                                                         *)
(* Of the market it keeps the status of the orders, whose side and price   *)
(* are given with their numbers, and the trades of each symbol.  The two   *)
(* sides of a book are read at once: an order is on one of them only.      *)
(***************************************************************************)
EXTENDS ControlPlane, Candles, FiniteSets

CONSTANTS
    Streams,     \* connections at a time
    Orders,      \* numbered as they are created
    SymbolOf, SideOf, PriceOf,
    Depths,      \* what clients ask for: orders or prices of a side,
    Limits,      \* trades,
    Sinces,      \* and from when on; 0 is always
    RawPerLevel, RawMin, RawMax,  \* 50, 200, 2000: orders read for depth prices
    Prices,      \* of trades
    MaxTrades,   \* bound: trades of a symbol
    MaxTime      \* bound: the clock

ASSUME StreamsAssumption ==
    /\ Orders \subseteq Nat /\ IsFiniteSet(Orders)
    /\ SymbolOf \in [Orders -> Symbols]
    /\ SideOf \in [Orders -> {"BUY", "SELL"}]
    /\ PriceOf \in [Orders -> Nat]
    /\ Depths \subseteq Nat \ {0} /\ Limits \subseteq Nat \ {0} /\ Sinces \subseteq Nat
    /\ RawPerLevel \in Nat /\ RawMin \in Nat /\ RawMax \in Nat
    /\ Prices \subseteq Nat
    /\ MaxTrades \in Nat
    /\ MaxTime \in Nat

VARIABLES
    now,
    order,      \* status of an order
    tape,       \* the trades of a symbol, oldest first
    stage,      \* of a stream: "none", what it reads next, or "open"
    asked,      \* what its client asked for, and whether it is an administrator
    first,      \* the control it has put into its snapshot
    unseen,     \* orders that were open when it began and that it has not read
    beyond,     \* history: orders that it had not asked for when it read
    snapshot,   \* streams that have sent one
    pending,    \* controls that wait for the book they go out with
    shown,      \* the last control its client has received
    newest,     \* the highest number of a control its client has received
    overtaken,  \* streams whose last control went out after a newer one
    left,       \* streams whose client has gone before shutdown could be called
    escaped     \* streams that the flags closed in vain

marketVars == <<now, order, tape>>
clientVars == <<shown, newest, overtaken>>
streamVars == <<stage, asked, first, unseen, beyond, snapshot, pending, clientVars,
                left, escaped>>
vars == <<controlVars, marketVars, streamVars>>

NoControl == [mode |-> "OPEN", nr |-> -1]

Nobody == [symbol |-> Everyone, admin |-> FALSE, level |-> 2, depth |-> 1, limit |-> 1, since |-> 0]

Init ==
    /\ ControlInit
    /\ now = 0
    /\ order = [o \in Orders |-> "NONE"]
    /\ tape = [sym \in Symbols |-> <<>>]
    /\ stage = [s \in Streams |-> "none"]
    /\ asked = [s \in Streams |-> Nobody]
    /\ first = [s \in Streams |-> NoControl]
    /\ unseen = [s \in Streams |-> {}]
    /\ beyond = [s \in Streams |-> {}]
    /\ snapshot = {}
    /\ pending = [s \in Streams |-> {}]
    /\ shown = [s \in Streams |-> NoControl]
    /\ newest = [s \in Streams |-> -1]
    /\ overtaken = {}
    /\ left = {}
    /\ escaped = {}

-----------------------------------------------------------------------------
(* The market.                                                             *)

\* Those that are created first need not be committed first.
Place(o) ==
    /\ order[o] = "NONE"
    /\ order' = [order EXCEPT ![o] = "OPEN"]
    /\ UNCHANGED <<now, tape, controlVars, streamVars>>

Cancel(o) ==
    /\ order[o] \in {"OPEN", "PARTIALLY_FILLED"}
    /\ order' = [order EXCEPT ![o] = "CANCELLED"]
    /\ UNCHANGED <<now, tape, controlVars, streamVars>>

Trade(o, price, status) ==
    LET sym == SymbolOf[o] IN
    /\ order[o] \in {"OPEN", "PARTIALLY_FILLED"}
    /\ Len(tape[sym]) < MaxTrades
    /\ tape' = [tape EXCEPT ![sym] = Append(@, [order |-> o, price |-> price, qty |-> 1, at |-> now])]
    /\ order' = [order EXCEPT ![o] = status]
    /\ UNCHANGED <<now, controlVars, streamVars>>

Clock ==
    /\ now < MaxTime
    /\ now' = now + 1
    /\ UNCHANGED <<order, tape, controlVars, streamVars>>

-----------------------------------------------------------------------------
(* What is read of the market for a client that asked for a.               *)

\* A PARTIALLY_FILLED order is not in the book that is read.
OpenOf(sym) == {o \in Orders : SymbolOf[o] = sym /\ order[o] = "OPEN"}

Better(p, o) ==
    /\ SideOf[p] = SideOf[o]
    /\ IF SideOf[o] = "BUY" THEN PriceOf[p] > PriceOf[o] ELSE PriceOf[p] < PriceOf[o]

\* orderBy: by price, and those of one price by age.
Ahead(p, o) == Better(p, o) \/ (SideOf[p] = SideOf[o] /\ PriceOf[p] = PriceOf[o] /\ p < o)

OrdersAhead(open, o) == {p \in open : Ahead(p, o)}

PricesAhead(open, o) == {PriceOf[p] : p \in {q \in open : Better(q, o)}}

\* take, of each side.
Take(open, n) == {o \in open : Cardinality(OrdersAhead(open, o)) < n}

\* aggregateByPrice: the best prices of each side, with all their orders.
Levels(open, n) == {o \in open : Cardinality(PricesAhead(open, o)) < n}

TakeRaw(depth) == Smaller(Larger(depth * RawPerLevel, RawMin), RawMax)

Book(a) ==
    LET open == OpenOf(a.symbol) IN
    IF a.level = 3 THEN Take(open, a.depth) ELSE Levels(Take(open, TakeRaw(a.depth)), a.depth)

Since(a) == {i \in DOMAIN tape[a.symbol] : tape[a.symbol][i].at >= a.since}

\* getRecentTrades: the newest of the trades; among those of one time the database chooses.
NewestTrades(a) ==
    {read \in SUBSET Since(a) :
        /\ Cardinality(read) = Smaller(Cardinality(Since(a)), a.limit)
        /\ \A i \in read, j \in Since(a) \ read : tape[a.symbol][i].at >= tape[a.symbol][j].at}

\* The orders that the next read of a stream may show.
Findings(s) ==
    LET a == asked[s] IN
    CASE stage[s] = "book" -> {Book(a)}
      [] stage[s] = "trades" -> {{tape[a.symbol][i].order : i \in read} : read \in NewestTrades(a)}
      [] OTHER -> {{}}

-----------------------------------------------------------------------------
(* What a client did not ask for, whatever is read for it.                 *)

\* Open orders with depth orders ahead of them, or at level 2 depth better prices, or more
\* orders than are read to find so many prices.
OutOfDepth(a) ==
    {o \in OpenOf(a.symbol) :
        LET orders == Cardinality(OrdersAhead(OpenOf(a.symbol), o))
            prices == Cardinality(PricesAhead(OpenOf(a.symbol), o))
        IN  IF a.level = 3 THEN orders >= a.depth
            ELSE prices >= a.depth \/ orders >= TakeRaw(a.depth)}

\* Orders that traded only before since, or with limit other trades at the time or after it.
OutOfLimits(a) ==
    LET trades == tape[a.symbol]
        others(i) == {j \in DOMAIN trades \ {i} : trades[j].at >= trades[i].at}
    IN  {o \in {trades[i].order : i \in DOMAIN trades} :
            \A i \in DOMAIN trades : trades[i].order = o =>
                trades[i].at < a.since \/ Cardinality(others(i)) >= a.limit}

NotAsked(s) ==
    CASE stage[s] = "book" -> OutOfDepth(asked[s])
      [] stage[s] = "trades" -> OutOfLimits(asked[s])
      [] OTHER -> {}

-----------------------------------------------------------------------------
(* The life of a stream.                                                   *)

Requests ==
    [symbol : Symbols, admin : BOOLEAN, level : {0, 2, 3}, depth : Depths, limit : Limits, since : Sinces]

Forbids(f, a) == ~a.admin /\ (~f.enableSSE \/ (a.level = 3 /\ ~f.publicAllowL3))

\* Without a level in the request, the flags say it.  The listeners are there at once.
Connect(s, request, candles) ==
    LET f == FlagsOf(request.symbol)
        a == [request EXCEPT !.level = IF @ = 0 THEN f.streamDefaultLevel ELSE @]
    IN  /\ stage[s] = "none"
        /\ ~Forbids(f, a)
        /\ stage' = [stage EXCEPT ![s] = IF candles THEN "candles" ELSE "book"]
        /\ asked' = [asked EXCEPT ![s] = a]
        /\ first' = [first EXCEPT ![s] = control[a.symbol]]
        /\ unseen' = [unseen EXCEPT ![s] = OpenOf(a.symbol)]
        /\ UNCHANGED <<beyond, snapshot, pending, clientVars, left, escaped, controlVars, marketVars>>

\* A control goes out.
Receive(s, c) ==
    /\ shown' = [shown EXCEPT ![s] = c]
    /\ newest' = [newest EXCEPT ![s] = Larger(@, c.nr)]
    /\ overtaken' = IF c.nr < newest[s] THEN overtaken \cup {s} ELSE overtaken \ {s}

\* Wrong on purpose: trades are read before the book.
NextRead_TradesFirst(step) ==
    CASE step = "candles" -> "trades" [] step = "trades" -> "book" [] step = "book" -> "open"

NextRead(step) ==
    CASE step = "candles" -> "book" [] step = "book" -> "trades" [] step = "trades" -> "open"

\* One more part of the snapshot; with the last it goes out, and the timer is set.
Read(s) ==
    /\ stage[s] \notin {"none", "open"}
    /\ stage' = [stage EXCEPT ![s] = NextRead(@)]
    /\ \E found \in Findings(s) : unseen' = [unseen EXCEPT ![s] = @ \ found]
    /\ beyond' = [beyond EXCEPT ![s] = @ \cup NotAsked(s)]
    /\ IF stage'[s] = "open" /\ s \notin left
       THEN snapshot' = snapshot \cup {s} /\ Receive(s, first[s])
       ELSE UNCHANGED <<snapshot, clientVars>>
    /\ first' = IF stage'[s] = "open" THEN [first EXCEPT ![s] = NoControl] ELSE first
    /\ UNCHANGED <<asked, pending, left, escaped, controlVars, marketVars>>

\* A read fails: the client is told, and the stream stays open without its snapshot.
SnapshotFails(s) ==
    /\ stage[s] \notin {"none", "open"}
    /\ stage' = [stage EXCEPT ![s] = "open"]
    /\ first' = [first EXCEPT ![s] = NoControl]
    /\ UNCHANGED <<asked, unseen, beyond, snapshot, pending, clientVars, left, escaped, controlVars,
                   marketVars>>

\* shutdown, of all streams of gone.
Closed(gone) ==
    /\ stage' = [s \in Streams |-> IF s \in gone THEN "none" ELSE stage[s]]
    /\ asked' = [s \in Streams |-> IF s \in gone THEN Nobody ELSE asked[s]]
    /\ unseen' = [s \in Streams |-> IF s \in gone THEN {} ELSE unseen[s]]
    /\ beyond' = [s \in Streams |-> IF s \in gone THEN {} ELSE beyond[s]]
    /\ pending' = [s \in Streams |-> IF s \in gone THEN {} ELSE pending[s]]
    /\ shown' = [s \in Streams |-> IF s \in gone THEN NoControl ELSE shown[s]]
    /\ newest' = [s \in Streams |-> IF s \in gone THEN -1 ELSE newest[s]]
    /\ snapshot' = snapshot \ gone
    /\ overtaken' = overtaken \ gone
    /\ left' = left \ gone

\* The client goes; nobody notices before the snapshot is complete, nor after.
Leave(s) ==
    /\ stage[s] # "none"
    /\ s \notin left
    /\ IF stage[s] = "open" THEN Closed({s}) /\ escaped' = escaped \ {s}
       ELSE /\ left' = left \cup {s}
            /\ UNCHANGED <<stage, asked, unseen, beyond, snapshot, pending, clientVars, escaped>>
    /\ UNCHANGED <<first, controlVars, marketVars>>

-----------------------------------------------------------------------------
(* Listeners.                                                              *)

\* Wrong on purpose: a stream listens from its snapshot on.
Told_Open(sym) == {s \in Streams : stage[s] = "open" /\ (sym = Everyone \/ asked[s].symbol = sym)}

\* Wrong on purpose: a change of the defaults is not heard.
Told_OwnSymbol(sym) == {s \in Streams : stage[s] # "none" /\ asked[s].symbol = sym}

Told(sym) == {s \in Streams : stage[s] # "none" /\ (sym = Everyone \/ asked[s].symbol = sym)}

\* onMode: the control at once, and again with the book, as it is now.
HearMode(sym) ==
    LET hears == Told(sym) \ left IN
    /\ shown' = [s \in Streams |-> IF s \in hears THEN control'[sym] ELSE shown[s]]
    /\ newest' = [s \in Streams |-> IF s \in hears THEN control'[sym].nr ELSE newest[s]]
    /\ overtaken' = overtaken \ hears
    /\ pending' = [s \in Streams |-> IF s \in hears THEN pending[s] \cup {control'[sym]} ELSE pending[s]]
    /\ UNCHANGED <<stage, asked, first, unseen, beyond, snapshot, left, escaped, marketVars>>

\* The book has been read, or has not: then the message is not sent.
AnswerMode(s) ==
    /\ \E c \in pending[s] :
        /\ pending' = [pending EXCEPT ![s] = @ \ {c}]
        /\ Receive(s, c) \/ UNCHANGED clientVars
    /\ UNCHANGED <<stage, asked, first, unseen, beyond, snapshot, left, escaped, controlVars, marketVars>>

Forbidden(sym) == {s \in Told(sym) : Forbids(NewFlags(asked[s].symbol), asked[s])}

\* onFlags: a stream that the flags forbid is closed, if it has its timer.
HearFlags(sym) ==
    LET open == {s \in Forbidden(sym) : stage[s] = "open"} IN
    /\ Closed(open)
    /\ escaped' = (escaped \cup Forbidden(sym)) \ open
    /\ UNCHANGED <<first, marketVars>>

Administer ==
    \/ \E sym \in Symbols, mode \in Modes : SetMode(sym, mode) /\ HearMode(sym)
    \/ \E patch \in Patches : SetDefaults(patch) /\ HearFlags(Everyone)
    \/ \E sym \in Symbols, patch \in Patches : SetFlags(sym, patch) /\ HearFlags(sym)
    \/ \E sym \in Symbols : ClearFlags(sym) /\ HearFlags(sym)

\* The market moves.
Market ==
    \/ Clock
    \/ \E o \in Orders :
        \/ Place(o) \/ Cancel(o)
        \/ \E price \in Prices, status \in {"FILLED", "PARTIALLY_FILLED"} : Trade(o, price, status)

\* A stream moves.
Watch ==
    \E s \in Streams :
        \/ \E request \in Requests, candles \in BOOLEAN : Connect(s, request, candles)
        \/ Read(s) \/ SnapshotFails(s) \/ Leave(s) \/ AnswerMode(s)

Next == Administer \/ Market \/ Watch

Spec == Init /\ [][Next]_vars
=============================================================================
