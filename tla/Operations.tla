----------------------------- MODULE Operations -----------------------------
(***************************************************************************)
(* The process around the exchange: it starts, watches the ledger, tells   *)
(* what it finds, and stops.                                               *)
(*                                                                         *)
(*   server.ts                    main, signals, shutdown                  *)
(*   workers/reconciliation.ts    four checks, audit, note, alert; worker  *)
(*   lib/runtime/*.ts             runtime status, alerts                   *)
(*   routes/reconciliation.ts     POST /run, by an administrator           *)
(*                                                                         *)
(* Of the exchange it keeps what the checks read: orders that are placed   *)
(* and filled, the trades, their ledger transactions.  A fill commits them *)
(* together; what is wrong with the data is put there by a defect, and     *)
(* stays.                                                                  *)
(***************************************************************************)
EXTENDS Integers, Sequences, FiniteSets

CONSTANTS
    MaxOrders,    \* bound: orders placed
    Runs,         \* bound: reconciliation runs that overlap
    TakeOrders,   \* active orders that a run looks at, the newest first
    TakeTrades,   \* trades of the last lookbackMinutes that a run looks at, the newest first
    Streams,      \* connections that stay open
    MaxFaults     \* bound: defects, and queries that fail

OrderIds == 1..MaxOrders

Checks == {"GLOBAL_BALANCE", "NON_NEGATIVE_BALANCES", "RECENT_TRADE_SETTLEMENT",
           "ORDER_STATUS_CONSISTENCY"}

ASSUME OperationsAssumption ==
    /\ MaxOrders \in Nat
    /\ TakeOrders \in Nat \ {0}
    /\ TakeTrades \in Nat \ {0}
    /\ MaxFaults \in Nat

VARIABLES
    status,       \* of an order: "NONE", "OPEN", "FILLED"
    tape,         \* the trades, each named by the order it fills, oldest first
    past,         \* how many of them, the oldest, are older than lookbackMinutes
    settled,      \* trades with a ledger transaction
    wrong,        \* "GLOBAL_BALANCE", "NON_NEGATIVE_BALANCES": the ledger is
    faults,       \* how much of MaxFaults is used
    server,       \* "none", "listening", "closing", "closed"
    streams,      \* open connections
    worker,       \* intervalHandle is set
    started,      \* runtimeState.started
    shuttingDown,
    startedLate,  \* the worker was started after the signal
    exited,       \* "no", "clean", "failed", "forced"
    stage,        \* of a run: "none", "checking", "auditing", "alerting", "done"
    origin,       \* "INITIAL", "INTERVAL", "ADMIN"
    todo,         \* statements of the run that are still to come
    cutoff,       \* how many trades were too old for it when it began
    trades,       \* trades it has read
    open,         \* active orders it has read and not yet looked into
    failed,       \* checks that are not ok
    broken,       \* those of them whose query failed
    had,          \* the defects there were when the run began
    raced,        \* an order was filled after the run had read it as active
    noted         \* the run whose result the status shows, 0 if none

dataVars == <<status, tape, past, settled, wrong, faults>>
processVars == <<server, streams, worker, started, shuttingDown, startedLate, exited>>
runVars == <<stage, origin, todo, cutoff, trades, open, failed, broken, had, raced>>
opVars == <<dataVars, processVars, runVars, noted>>

OpInit ==
    /\ status = [o \in OrderIds |-> "NONE"]
    /\ tape = <<>>
    /\ past = 0
    /\ settled = {}
    /\ wrong = {}
    /\ faults = 0
    /\ server = "none"
    /\ streams = {}
    /\ worker = FALSE
    /\ started = FALSE
    /\ shuttingDown = FALSE
    /\ startedLate = FALSE
    /\ exited = "no"
    /\ stage = [r \in Runs |-> "none"]
    /\ origin = [r \in Runs |-> "NONE"]
    /\ todo = [r \in Runs |-> {}]
    /\ cutoff = [r \in Runs |-> 0]
    /\ trades = [r \in Runs |-> {}]
    /\ open = [r \in Runs |-> {}]
    /\ failed = [r \in Runs |-> {}]
    /\ broken = [r \in Runs |-> {}]
    /\ had = [r \in Runs |-> {}]
    /\ raced = [r \in Runs |-> FALSE]
    /\ noted = 0

Running == exited = "no"

-----------------------------------------------------------------------------
(* The data that is watched.                                               *)

Traded == {tape[i] : i \in DOMAIN tape}

\* Orders that say they are open although they are filled.
Unmarked == {o \in OrderIds : status[o] = "OPEN" /\ o \in Traded}

Unsettled == Traded \ settled

\* What is wrong, each with the check that looks for it, and the order it is about or 0.
Defects ==
    [check : wrong, of : {0}]
        \cup [check : {"RECENT_TRADE_SETTLEMENT"}, of : Unsettled]
        \cup [check : {"ORDER_STATUS_CONSISTENCY"}, of : Unmarked]

Place(o) ==
    /\ status[o] = "NONE"
    /\ \A p \in OrderIds : p < o => status[p] # "NONE"
    /\ status' = [status EXCEPT ![o] = "OPEN"]
    /\ UNCHANGED <<tape, past, settled, wrong, faults, processVars, runVars, noted>>

\* The trade, its ledger transaction and the status; a defect leaves one of the latter out.
Fill(o, settles, marks) ==
    /\ status[o] = "OPEN"
    /\ o \notin Traded
    /\ IF settles /\ marks THEN UNCHANGED faults ELSE faults < MaxFaults /\ faults' = faults + 1
    /\ tape' = Append(tape, o)
    /\ settled' = IF settles THEN settled \cup {o} ELSE settled
    /\ status' = IF marks THEN [status EXCEPT ![o] = "FILLED"] ELSE status
    /\ raced' = [r \in Runs |-> raced[r] \/ o \in open[r]]
    /\ UNCHANGED <<past, wrong, processVars, stage, origin, todo, cutoff, trades, open, failed,
                   broken, had, noted>>

\* The oldest trade of the last lookbackMinutes has become older than that.
Age ==
    /\ past < Len(tape)
    /\ past' = past + 1
    /\ UNCHANGED <<status, tape, settled, wrong, faults, processVars, runVars, noted>>

\* Postings that do not add up, or an account that is overdrawn.
Spoil(check) ==
    /\ faults < MaxFaults
    /\ faults' = faults + 1
    /\ wrong' = wrong \cup {check}
    /\ UNCHANGED <<status, tape, past, settled, processVars, runVars, noted>>

-----------------------------------------------------------------------------
(* A reconciliation run.                                                   *)

Statements == {"global", "negative", "trades", "settlements", "orders", "fills"}

CheckOf(q) ==
    CASE q = "global" -> "GLOBAL_BALANCE"
      [] q = "negative" -> "NON_NEGATIVE_BALANCES"
      [] q \in {"trades", "settlements"} -> "RECENT_TRADE_SETTLEMENT"
      [] q \in {"orders", "fills"} -> "ORDER_STATUS_CONSISTENCY"

\* The four checks begin together, and what is recent is settled then.
Begins(r, who) ==
    /\ stage[r] \in {"none", "done"}
    /\ stage' = [stage EXCEPT ![r] = "checking"]
    /\ origin' = [origin EXCEPT ![r] = who]
    /\ todo' = [todo EXCEPT ![r] = {"global", "negative", "trades", "orders"}]
    /\ cutoff' = [cutoff EXCEPT ![r] = past]
    /\ had' = [had EXCEPT ![r] = Defects]
    /\ failed' = [failed EXCEPT ![r] = {}]
    /\ broken' = [broken EXCEPT ![r] = {}]
    /\ raced' = [raced EXCEPT ![r] = FALSE]
    /\ UNCHANGED <<trades, open>>

\* The trades since the cutoff of a run, or the newest TakeTrades of them.
RecentTrades(r) ==
    {tape[i] : i \in {j \in DOMAIN tape : j > cutoff[r] /\ Len(tape) - j < TakeTrades}}

\* The newest active orders: no more than TakeOrders of them are newer.
ActiveOrders ==
    LET active == {o \in OrderIds : status[o] = "OPEN"}
    IN  {o \in active : Cardinality({p \in active : p > o}) < TakeOrders}

\* An answer: the check of q is not ok if bad, and the next statement follows.
Answered(r, q, bad, next) ==
    /\ stage[r] = "checking"
    /\ q \in todo[r]
    /\ todo' = [todo EXCEPT ![r] = (@ \ {q}) \cup next]
    /\ failed' = IF bad THEN [failed EXCEPT ![r] = @ \cup {CheckOf(q)}] ELSE failed
    /\ UNCHANGED <<dataVars, processVars, stage, origin, cutoff, broken, had, noted>>

\* One statement sums the postings of every asset, another those of every account.
Sum(r, q) ==
    /\ q \in {"global", "negative"}
    /\ Answered(r, q, CheckOf(q) \in wrong, {})
    /\ UNCHANGED <<trades, open, raced>>

\* No recent trades: nothing to reconcile.
ReadTrades(r) ==
    /\ trades' = [trades EXCEPT ![r] = RecentTrades(r)]
    /\ Answered(r, "trades", FALSE, IF RecentTrades(r) = {} THEN {} ELSE {"settlements"})
    /\ UNCHANGED <<open, raced>>

ReadSettlements(r) ==
    /\ Answered(r, "settlements", trades[r] \ settled # {}, {})
    /\ trades' = [trades EXCEPT ![r] = {}]
    /\ UNCHANGED <<open, raced>>

ReadOrders(r) ==
    /\ open' = [open EXCEPT ![r] = ActiveOrders]
    /\ Answered(r, "orders", FALSE, IF ActiveOrders = {} THEN {} ELSE {"fills"})
    /\ UNCHANGED <<trades, raced>>

\* The trades of one order after the other, against the status read before.
ReadFills(r) ==
    /\ \E o \in open[r] :
        /\ \A p \in open[r] : p =< o
        /\ open' = [open EXCEPT ![r] = @ \ {o}]
        /\ Answered(r, "fills", o \in Traded, IF open[r] = {o} THEN {} ELSE {"fills"})
    /\ UNCHANGED <<trades, raced>>

\* Wrong on purpose: a check whose query fails is left out of the results.
QueryFails_Silently(r, q) ==
    /\ stage[r] = "checking"
    /\ q \in todo[r]
    /\ todo' = [todo EXCEPT ![r] = @ \ {q}]
    /\ faults < MaxFaults
    /\ faults' = faults + 1
    /\ trades' = IF q = "settlements" THEN [trades EXCEPT ![r] = {}] ELSE trades
    /\ open' = IF q = "fills" THEN [open EXCEPT ![r] = {}] ELSE open
    /\ UNCHANGED <<status, tape, past, settled, wrong, processVars, stage, origin, cutoff, failed,
                   broken, had, raced, noted>>

\* A query fails: its check is not ok, and says so.
QueryFails(r, q) ==
    /\ stage[r] = "checking"
    /\ q \in todo[r]
    /\ todo' = [todo EXCEPT ![r] = @ \ {q}]
    /\ faults < MaxFaults
    /\ faults' = faults + 1
    /\ trades' = IF q = "settlements" THEN [trades EXCEPT ![r] = {}] ELSE trades
    /\ open' = IF q = "fills" THEN [open EXCEPT ![r] = {}] ELSE open
    /\ failed' = [failed EXCEPT ![r] = @ \cup {CheckOf(q)}]
    /\ broken' = [broken EXCEPT ![r] = @ \cup {CheckOf(q)}]
    /\ UNCHANGED <<status, tape, past, settled, wrong, processVars, stage, origin, cutoff, had,
                   raced, noted>>

\* A run with failures is audited before it is noted; one without is noted at once.
Conclude(r) ==
    /\ stage[r] = "checking"
    /\ todo[r] = {}
    /\ stage' = [stage EXCEPT ![r] = IF failed[r] = {} THEN "done" ELSE "auditing"]
    /\ noted' = IF failed[r] = {} THEN r ELSE noted
    /\ UNCHANGED <<dataVars, processVars, origin, todo, cutoff, trades, open, failed, broken, had,
                   raced>>

\* The audit has been written, or has failed: recordSecurityAudit does not throw.
Note(r) ==
    /\ stage[r] = "auditing"
    /\ stage' = [stage EXCEPT ![r] = "alerting"]
    /\ noted' = r
    /\ UNCHANGED <<dataVars, processVars, origin, todo, cutoff, trades, open, failed, broken, had,
                   raced>>

\* The webhook has answered, or has not, or there is none.
AlertEnds(r) ==
    /\ stage[r] = "alerting"
    /\ stage' = [stage EXCEPT ![r] = "done"]
    /\ UNCHANGED <<dataVars, processVars, origin, todo, cutoff, trades, open, failed, broken, had,
                   raced, noted>>

-----------------------------------------------------------------------------
(* The process.                                                            *)

\* main, once the secrets are there: it does not ask whether a signal has come meanwhile.
Boot(r) ==
    /\ server = "none"
    /\ server' = "listening"
    /\ worker' = TRUE
    /\ started' = TRUE
    /\ startedLate' = shuttingDown
    /\ Begins(r, "INITIAL")
    /\ UNCHANGED <<dataVars, streams, shuttingDown, exited, noted>>

\* setInterval
Tick(r) ==
    /\ worker
    /\ Begins(r, "INTERVAL")
    /\ UNCHANGED <<dataVars, processVars, noted>>

\* POST /run; a connection that is open may still ask while the server is closing.
Ask(r) ==
    /\ server = "listening" \/ (server = "closing" /\ streams # {})
    /\ Begins(r, "ADMIN")
    /\ UNCHANGED <<dataVars, processVars, noted>>

Connect(x) ==
    /\ server = "listening"
    /\ x \notin streams
    /\ streams' = streams \cup {x}
    /\ UNCHANGED <<dataVars, server, worker, started, shuttingDown, startedLate, exited, runVars,
                   noted>>

Leave(x) ==
    /\ x \in streams
    /\ streams' = streams \ {x}
    /\ UNCHANGED <<dataVars, server, worker, started, shuttingDown, startedLate, exited, runVars,
                   noted>>

\* Wrong on purpose: the worker is left to the end of the process.
Signal_WorkerStays ==
    /\ ~shuttingDown
    /\ shuttingDown' = TRUE
    /\ started' = FALSE
    /\ server' = IF server = "listening" THEN "closing" ELSE server
    /\ UNCHANGED <<dataVars, streams, worker, startedLate, exited, runVars, noted>>

\* SIGTERM, SIGINT or an uncaught exception: shutdown, which a second one does not repeat.
Signal ==
    /\ ~shuttingDown
    /\ shuttingDown' = TRUE
    /\ worker' = FALSE
    /\ started' = FALSE
    /\ server' = IF server = "listening" THEN "closing" ELSE server
    /\ UNCHANGED <<dataVars, streams, startedLate, exited, runVars, noted>>

\* server.close calls back when the last connection has ended.
Closed ==
    /\ server = "closing"
    /\ streams = {}
    /\ server' = "closed"
    /\ UNCHANGED <<dataVars, streams, worker, started, shuttingDown, startedLate, exited, runVars,
                   noted>>

\* What the process held is gone with it.
Ends(how) ==
    /\ exited' = how
    /\ server' = "none"
    /\ streams' = {}
    /\ worker' = FALSE
    /\ started' = FALSE
    /\ startedLate' = FALSE
    /\ noted' = 0
    /\ stage' = [r \in Runs |-> "none"]
    /\ origin' = [r \in Runs |-> "NONE"]
    /\ todo' = [r \in Runs |-> {}]
    /\ cutoff' = [r \in Runs |-> 0]
    /\ trades' = [r \in Runs |-> {}]
    /\ open' = [r \in Runs |-> {}]
    /\ failed' = [r \in Runs |-> {}]
    /\ broken' = [r \in Runs |-> {}]
    /\ had' = [r \in Runs |-> {}]
    /\ raced' = [r \in Runs |-> FALSE]
    /\ UNCHANGED <<dataVars, shuttingDown>>

BootFails == server = "none" /\ Ends("failed")

\* Nothing was listening at the signal, or everything has been closed since.
Exit == shuttingDown /\ server # "closing" /\ \E how \in {"clean", "failed"} : Ends(how)

\* forceExitTimer
ForceExit == shuttingDown /\ Ends("forced")

Reconcile(r) ==
    \/ ReadTrades(r) \/ ReadSettlements(r) \/ ReadOrders(r) \/ ReadFills(r)
    \/ \E q \in Statements : Sum(r, q) \/ QueryFails(r, q)
    \/ Conclude(r) \/ Note(r) \/ AlertEnds(r)

Step ==
    \/ \E o \in OrderIds : Place(o) \/ \E settles, marks \in BOOLEAN : Fill(o, settles, marks)
    \/ Age
    \/ \E check \in {"GLOBAL_BALANCE", "NON_NEGATIVE_BALANCES"} : Spoil(check)
    \/ \E r \in Runs : Boot(r) \/ Tick(r) \/ Ask(r) \/ Reconcile(r)
    \/ \E x \in Streams : Connect(x) \/ Leave(x)
    \/ BootFails \/ Signal \/ Closed \/ Exit \/ ForceExit

OpNext == Running /\ Step

OpSpec == OpInit /\ [][OpNext]_opVars
=============================================================================
