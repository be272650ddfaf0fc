------------------------ MODULE OperationsProperties ------------------------
(***************************************************************************)
(* What Operations is checked for.                                         *)
(***************************************************************************)
EXTENDS Operations

Concluded(r) == stage[r] \notin {"none", "checking"}

\* The check of a run looks at what is wrong: at the whole ledger; at a trade, if it was no
\* older than lookbackMinutes when the run began and is one of the newest TakeTrades still; at
\* an order, if fewer than TakeOrders have been placed since.
InSight(r, d) ==
    CASE d.check = "RECENT_TRADE_SETTLEMENT" ->
            \E i \in DOMAIN tape : tape[i] = d.of /\ i > cutoff[r] /\ Len(tape) - i < TakeTrades
      [] d.check = "ORDER_STATUS_CONSISTENCY" ->
            Cardinality({o \in OrderIds : o > d.of /\ status[o] # "NONE"}) < TakeOrders
      [] OTHER -> TRUE

\* A run that overlaps placements and fills fails a check only if there is a defect it looks
\* for, a query failed, or an order it had read as active was filled before it read the
\* order's trades; and each defect there was when it began fails its check, unless it was out
\* of sight: an unsettled trade that is older than lookbackMinutes passes.
VerdictsAreRight ==
    \A r \in Runs : Concluded(r) =>
        /\ \A c \in failed[r] \ broken[r] :
            \/ \E d \in Defects : d.check = c
            \/ c = "ORDER_STATUS_CONSISTENCY" /\ raced[r]
        /\ \A d \in had[r] : InSight(r, d) => d.check \in failed[r]

\* After a signal no run begins but at an administrator's request, unless the signal came
\* before the process had started its worker.
NoRunAfterStop ==
    [][\A r \in Runs :
          shuttingDown /\ stage[r] # "checking" /\ stage'[r] = "checking"
              => origin'[r] = "ADMIN" \/ startedLate']_opVars
=============================================================================
