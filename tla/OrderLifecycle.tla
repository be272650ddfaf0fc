--------------------------- MODULE OrderLifecycle ---------------------------
(***************************************************************************)
(* What lib/ledger/order-state.ts promises of every order, seen from       *)
(* outside: quantity executed never exceeds the order's and never shrinks, *)
(* the status is the one the fills imply unless the order was cancelled,   *)
(* statuses change only as VALID_TRANSITIONS allows, and FILLED and        *)
(* CANCELLED are final.  Exchange implements this when requests do not     *)
(* overlap.                                                                *)
(***************************************************************************)
EXTENDS OrderState

CONSTANTS
    Ids,   \* order ids
    Size   \* the quantity ordered, a set of naturals

VARIABLES
    size,     \* quantity of each order, 0 before the order exists
    state,    \* its status, "NONE" before it exists
    filled    \* quantity executed so far

Init ==
    /\ size = [o \in Ids |-> 0]
    /\ state = [o \in Ids |-> "NONE"]
    /\ filled = [o \in Ids |-> 0]

\* An order that is not final may gain fills, be cancelled, or both.
Advances(o) ==
    /\ state[o] \in {"OPEN", "PARTIALLY_FILLED"}
    /\ filled'[o] \in filled[o]..size[o]
    /\ \/ state'[o] = DeriveStatus(state[o], size[o], filled'[o])
       \/ state'[o] = "CANCELLED" /\ filled'[o] < size[o]
    /\ IsValidTransition(state[o], state'[o])
    /\ size'[o] = size[o]

\* A new order is first seen with the outcome of its own matching.
Appears(o) ==
    /\ state[o] = "NONE"
    /\ size'[o] \in Size
    /\ filled'[o] \in 0..size'[o]
    /\ \/ state'[o] = DeriveStatus("OPEN", size'[o], filled'[o])
       \/ state'[o] = "CANCELLED" /\ filled'[o] < size'[o]

Rests(o) == state'[o] = state[o] /\ filled'[o] = filled[o] /\ size'[o] = size[o]

Next == \A o \in Ids : Advances(o) \/ Appears(o) \/ Rests(o)

Spec == Init /\ [][Next]_<<size, state, filled>>
=============================================================================
