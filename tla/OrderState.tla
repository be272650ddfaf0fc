----------------------------- MODULE OrderState -----------------------------
(***************************************************************************)
(* The pure rules of an order's life: lib/ledger/order-state.ts (statuses, *)
(* transitions, quantities), lib/ledger/time-in-force.ts, the price and    *)
(* fee helpers of lib/ledger/execution.ts and hold-release.ts, and the     *)
(* price-time priority of lib/ledger/matching-priority.ts.                 *)
(*                                                                         *)
(* Quantities, prices and amounts are naturals: one unit is the smallest   *)
(* decimal step that the modelled orders use, so that no rounding occurs.  *)
(*                                                                         *)
(* Operators named X_Y are variants of X that a slip in the code could     *)
(* have produced; nothing uses them, except to see a property notice.      *)
(***************************************************************************)
EXTENDS Integers

\* Statuses an Order row can have.
Status == {"OPEN", "PARTIALLY_FILLED", "FILLED", "CANCEL_PENDING", "CANCELLED"}

\* The statuses that `VALID_TRANSITIONS` lists after each status.
ValidTransitions ==
    [s \in Status |->
        CASE s = "OPEN" ->
                 {"PARTIALLY_FILLED", "FILLED", "CANCEL_PENDING", "CANCELLED"}
          [] s = "PARTIALLY_FILLED" ->
                 {"PARTIALLY_FILLED", "FILLED", "CANCEL_PENDING", "CANCELLED"}
          [] s = "CANCEL_PENDING" -> {"CANCELLED", "PARTIALLY_FILLED", "FILLED"}
          [] OTHER -> {}]

\* assertValidTransition does not throw: staying put is always allowed.
IsValidTransition(from, to) == from = to \/ to \in ValidTransitions[from]

RemainingQty(qty, executed) == IF executed > qty THEN 0 ELSE qty - executed

\* deriveOrderStatus: terminal statuses are kept, otherwise the fills decide.
DeriveStatus(current, qty, executed) ==
    IF current \in {"CANCELLED", "FILLED"} THEN current
    ELSE IF executed >= qty THEN "FILLED"
    ELSE IF executed > 0 THEN "PARTIALLY_FILLED"
    ELSE IF current = "CANCEL_PENDING" THEN "CANCEL_PENDING" ELSE "OPEN"

CanReceiveFills(s) == s \in {"OPEN", "PARTIALLY_FILLED", "CANCEL_PENDING"}

CanCancel(s) == s \in {"OPEN", "PARTIALLY_FILLED"}

\* Statuses whose orders getMatchingOrders and the book views consider.
Resting == {"OPEN", "PARTIALLY_FILLED"}

-----------------------------------------------------------------------------
TimeInForce == {"GTC", "IOC", "FOK", "POST_ONLY"}

\* Wrong on purpose: forgets that an IOC remainder does not rest.
TifAction_IocRests(tif, executed, qty) ==
    IF executed >= qty THEN "FILLED"
    ELSE IF tif = "FOK" THEN "CANCEL_REMAINDER" ELSE "KEEP_OPEN"

\* deriveTifRestingAction, once the book has been walked.
TifAction(tif, executed, qty) ==
    IF executed >= qty THEN "FILLED"
    ELSE IF tif \in {"IOC", "FOK"} THEN "CANCEL_REMAINDER" ELSE "KEEP_OPEN"

-----------------------------------------------------------------------------
Side == {"BUY", "SELL"}

Opposite(side) == IF side = "BUY" THEN "SELL" ELSE "BUY"

\* Wrong on purpose: equal prices do not trade.
Crosses_Strictly(takerSide, takerPrice, makerPrice) ==
    IF takerSide = "BUY" THEN makerPrice < takerPrice ELSE makerPrice > takerPrice

\* isCrossingLimitOrder
Crosses(takerSide, takerPrice, makerPrice) ==
    IF takerSide = "BUY" THEN makerPrice =< takerPrice ELSE makerPrice >= takerPrice

\* Wrong on purpose: reserves as many units of quote as of base.
HoldAmount_Unpriced(side, price, qty) == qty

\* What an order reserves for a quantity: quote for a BUY, base for a SELL.
HoldAmount(side, price, qty) == IF side = "BUY" THEN price * qty ELSE qty

\* computeQuoteFeeAmount, exact because the units are fine enough.
QuoteFee(gross, bps) == (gross * bps) \div 10000

\* Wrong on purpose: keeps the improvement in the held account, or gives it back for
\* one unit whatever the quantity.
PriceImprovement_None(limit, execution, qty) == 0
PriceImprovement_PerUnit(limit, execution, qty) ==
    IF execution >= limit THEN 0 ELSE limit - execution

\* computeBuyPriceImprovementReleaseAmount
PriceImprovement(limit, execution, qty) ==
    IF execution >= limit THEN 0 ELSE (limit - execution) * qty

\* computeBuyHeldQuoteRelease, for the quote that one execution spent.
ResidualHold(qty, limit, executed, spent) ==
    IF RemainingQty(qty, executed) > 0 \/ qty * limit < spent
    THEN 0 ELSE qty * limit - spent

\* Wrong on purpose: the fill is what the maker has left, wanted or not.
Lesser_Second(a, b) == b

Lesser(a, b) == IF a =< b THEN a ELSE b
=============================================================================
