--------------------------- MODULE MatchingEvents ---------------------------
(***************************************************************************)
(* The events a submission leaves, who hears them and what is stored:      *)
(*                                                                         *)
(*   lib/matching/matching-events.ts    ids, log, listeners, stored rows   *)
(*   lib/matching/submit-limit-order.ts emits, then stores, then commits   *)
(*   routes/matching-events.ts          /stream, /replay                   *)
(*                                                                         *)
(* Ids, log and listeners belong to the process; rows belong to the        *)
(* database, and those a submission writes appear when it commits.  Events *)
(* of the runtime's status and of reconciliation are emitted and never     *)
(* stored.                                                                 *)
(***************************************************************************)
EXTENDS Integers, Sequences, SequencesExt, Folds

CONSTANTS
    Submissions,
    System,        \* what events of no order are about
    Executions,    \* outcomes of matching: [fills, left, rests, cancelled, delta]
    SymbolOf,      \* of a submission, and of System
    AnySymbol,     \* a stream or a reader without a filter
    Filters,       \* filters that clients ask for
    Streams,       \* clients of /stream
    Readers,       \* clients that page through /replay
    SnapshotSize,  \* 200
    PageSize,      \* limit of a page
    MaxRuns,       \* bound: runs of the process
    Notices,       \* events that are about no order
    MaxNotices     \* bound: how many of them

Symbols == {SymbolOf[x] : x \in Submissions \cup {System}}

Execution == [fills : Nat, left : BOOLEAN, rests : BOOLEAN, cancelled : BOOLEAN, delta : BOOLEAN]

ASSUME EventsAssumption ==
    /\ System \notin Submissions
    /\ Executions \subseteq Execution
    /\ AnySymbol \notin Symbols
    /\ Filters \subseteq Symbols \cup {AnySymbol}
    /\ Notices \subseteq {"RUNTIME_STATUS", "RECONCILIATION_RESULT"}
    /\ SnapshotSize \in Nat \ {0}
    /\ PageSize \in Nat \ {0}
    /\ MaxRuns \in Nat \ {0}
    /\ MaxNotices \in Nat

VARIABLES
    run,      \* which run of the process this is
    log,      \* matchingEvents: the event with id i is log[i]
    stage,    \* of a submission: "new", "storing", "committed", "undone"
    emitted,  \* the ids of the events it emitted, in this run
    stored,   \* those it has upserted
    rows,     \* the committed MatchingEvent rows
    filter,   \* of an open stream
    opened,   \* how long the log was when the stream opened, or -1
    stream,   \* what the client of the stream has received
    after,    \* the last id a reader has, 0 before the first page, -1 before it starts
    wanted,   \* of a reader: its filter
    base,     \* the rows there were when it began
    got,      \* what it has read
    ended,    \* readers whose last page was not full
    notices   \* how much of MaxNotices is used

feedVars == <<filter, opened, stream>>
readVars == <<after, wanted, base, got, ended>>
vars == <<run, log, stage, emitted, stored, rows, feedVars, readVars, notices>>

Init ==
    /\ run = 1
    /\ log = <<>>
    /\ stage = [o \in Submissions |-> "new"]
    /\ emitted = [o \in Submissions |-> {}]
    /\ stored = [o \in Submissions |-> {}]
    /\ rows = {}
    /\ filter = [s \in Streams |-> AnySymbol]
    /\ opened = [s \in Streams |-> -1]
    /\ stream = [s \in Streams |-> <<>>]
    /\ after = [r \in Readers |-> -1]
    /\ wanted = [r \in Readers |-> AnySymbol]
    /\ base = [r \in Readers |-> {}]
    /\ got = [r \in Readers |-> <<>>]
    /\ ended = {}
    /\ notices = 0

-----------------------------------------------------------------------------
(* What a submission tells.                                                *)

Told(said, kind) == IF said THEN <<kind>> ELSE <<>>

\* buildMatchingEventsFromSubmission
Kinds(x) ==
    <<"ORDER_ACCEPTED">>
    \o [i \in 1..x.fills |-> "ORDER_FILL"]
    \o Told(x.fills > 0, IF x.left THEN "ORDER_PARTIALLY_FILLED" ELSE "ORDER_FILLED")
    \o Told(x.rests, "ORDER_RESTED")
    \o Told(x.cancelled, "ORDER_CANCELLED")
    \o Told(x.delta, "BOOK_DELTA")

\* Events with consecutive ids, about x.
Envelopes(x, kinds) ==
    [i \in 1..Len(kinds) |-> [id |-> Len(log) + i, run |-> run, about |-> x, kind |-> kinds[i]]]

Passes(e, f) == f = AnySymbol \/ SymbolOf[e.about] = f

\* The events that pass a filter, in their order.
Passing(events, f) ==
    FoldLeft(LAMBDA heard, e : IF Passes(e, f) THEN Append(heard, e) ELSE heard, <<>>, events)

\* Wrong on purpose: a listener hears only the first event of a submission.
Publish_First(events) ==
    /\ log' = log \o events
    /\ stream' = [s \in Streams |->
                    IF opened[s] = -1 \/ events = <<>> THEN stream[s]
                    ELSE stream[s] \o Passing(<<events[1]>>, filter[s])]
    /\ UNCHANGED <<filter, opened>>

\* emitMatchingEvents: the log, and every listener, without a pause.
Publish(events) ==
    /\ log' = log \o events
    /\ stream' = [s \in Streams |->
                    IF opened[s] = -1 THEN stream[s] ELSE stream[s] \o Passing(events, filter[s])]
    /\ UNCHANGED <<filter, opened>>

-----------------------------------------------------------------------------
(* A submission, inside its transaction.                                   *)

Match(o, x) ==
    /\ stage[o] = "new"
    /\ LET events == Envelopes(o, Kinds(x)) IN
        /\ Publish(events)
        /\ emitted' = [emitted EXCEPT ![o] = {Len(log) + i : i \in 1..Len(events)}]
    /\ stage' = [stage EXCEPT ![o] = "storing"]
    /\ UNCHANGED <<run, stored, rows, readVars, notices>>

\* The row of one more event, in the order of the ids.
Store(o) ==
    /\ stage[o] = "storing"
    /\ \E i \in emitted[o] \ stored[o] :
        /\ \A j \in emitted[o] \ stored[o] : i =< j
        /\ stored' = [stored EXCEPT ![o] = @ \cup {i}]
    /\ UNCHANGED <<run, log, stage, emitted, rows, feedVars, readVars, notices>>

\* Wrong on purpose: an event that has a row already is not written again.
Upserted_Create(ids) == rows \cup {log[i] : i \in {j \in ids : \A e \in rows : e.id # j}}

\* Rows for the events with these ids: one with the same id is overwritten.
Upserted(ids) == {e \in rows : e.id \notin ids} \cup {log[i] : i \in ids}

Commit(o) ==
    /\ stage[o] = "storing"
    /\ stored[o] = emitted[o]
    /\ stage' = [stage EXCEPT ![o] = "committed"]
    /\ rows' = Upserted(stored[o])
    /\ UNCHANGED <<run, log, emitted, stored, feedVars, readVars, notices>>

\* Wrong on purpose: the rows are written outside the transaction.
RollBack_KeepsRows(o) ==
    /\ stage[o] \in {"new", "storing"}
    /\ stage' = [stage EXCEPT ![o] = "undone"]
    /\ rows' = Upserted(stored[o])
    /\ UNCHANGED <<run, log, emitted, stored, feedVars, readVars, notices>>

\* A statement or the commit fails: the events have been heard, and stay in the log.
RollBack(o) ==
    /\ stage[o] \in {"new", "storing"}
    /\ stage' = [stage EXCEPT ![o] = "undone"]
    /\ UNCHANGED <<run, log, emitted, stored, rows, feedVars, readVars, notices>>

\* markRuntimeStarted, markRuntimeStopped, noteReconciliationRun
Notice(kind) ==
    /\ notices < MaxNotices
    /\ notices' = notices + 1
    /\ Publish(Envelopes(System, <<kind>>))
    /\ UNCHANGED <<run, stage, emitted, stored, rows, readVars>>

-----------------------------------------------------------------------------
(* GET /stream: the end of the log, filtered, then what is published.      *)

Recent == SubSeq(log, IF Len(log) < SnapshotSize THEN 1 ELSE Len(log) - SnapshotSize + 1, Len(log))

OpenStream(s, f) ==
    /\ opened[s] = -1
    /\ filter' = [filter EXCEPT ![s] = f]
    /\ opened' = [opened EXCEPT ![s] = Len(log)]
    /\ stream' = [stream EXCEPT ![s] = Passing(Recent, f)]
    /\ UNCHANGED <<run, log, stage, emitted, stored, rows, readVars, notices>>

CloseStream(s) ==
    /\ opened[s] # -1
    /\ opened' = [opened EXCEPT ![s] = -1]
    /\ stream' = [stream EXCEPT ![s] = <<>>]
    /\ UNCHANGED <<run, log, stage, emitted, stored, rows, filter, readVars, notices>>

-----------------------------------------------------------------------------
(* GET /replay, page after page.                                           *)

StartReading(r, f) ==
    /\ after[r] = -1
    /\ after' = [after EXCEPT ![r] = 0]
    /\ wanted' = [wanted EXCEPT ![r] = f]
    /\ base' = [base EXCEPT ![r] = {e \in rows : Passes(e, f)}]
    /\ UNCHANGED <<run, log, stage, emitted, stored, rows, feedVars, got, ended, notices>>

\* Rows ordered by their ids, the highest last.
ById(events) ==
    MapThenFoldSet(LAMBDA e, found : Append(found, e), <<>>, LAMBDA e : e,
                   LAMBDA found : CHOOSE e \in found : \A d \in found : d.id =< e.id, events)

\* Wrong on purpose: the newest rows come first.
Page_Newest(r) ==
    LET found == ById({e \in rows : e.id > after[r] /\ Passes(e, wanted[r])})
        first == IF Len(found) > PageSize THEN Len(found) - PageSize + 1 ELSE 1
    IN  SubSeq(found, first, Len(found))

\* listPersistedMatchingEvents
Page(r) ==
    LET found == ById({e \in rows : e.id > after[r] /\ Passes(e, wanted[r])})
    IN  SubSeq(found, 1, IF Len(found) > PageSize THEN PageSize ELSE Len(found))

ReadPage(r) ==
    /\ after[r] # -1
    /\ r \notin ended
    /\ LET page == Page(r) IN
        /\ got' = [got EXCEPT ![r] = @ \o page]
        /\ after' = IF page = <<>> THEN after ELSE [after EXCEPT ![r] = Last(page).id]
        /\ ended' = IF Len(page) < PageSize THEN ended \cup {r} ELSE ended
    /\ UNCHANGED <<run, log, stage, emitted, stored, rows, feedVars, wanted, base, notices>>

-----------------------------------------------------------------------------
\* The process starts again: transactions in progress are undone, ids begin at 1.
Restart ==
    /\ run < MaxRuns
    /\ run' = run + 1
    /\ log' = <<>>
    /\ stage' = [o \in Submissions |-> IF stage[o] = "storing" THEN "undone" ELSE stage[o]]
    /\ emitted' = [o \in Submissions |-> {}]
    /\ stored' = [o \in Submissions |-> {}]
    /\ filter' = [s \in Streams |-> AnySymbol]
    /\ opened' = [s \in Streams |-> -1]
    /\ stream' = [s \in Streams |-> <<>>]
    /\ UNCHANGED <<rows, readVars, notices>>

Submit(o) ==
    \/ \E x \in Executions : Match(o, x)
    \/ Store(o) \/ Commit(o) \/ RollBack(o)

Next ==
    \/ Restart
    \/ \E o \in Submissions : Submit(o)
    \/ \E kind \in Notices : Notice(kind)
    \/ \E s \in Streams : CloseStream(s) \/ \E f \in Filters : OpenStream(s, f)
    \/ \E r \in Readers : ReadPage(r) \/ \E f \in Filters : StartReading(r, f)

Spec == Init /\ [][Next]_vars
=============================================================================
