---------------------- MODULE MatchingEventsProperties ----------------------
(***************************************************************************)
(* What MatchingEvents is checked for.                                     *)
(***************************************************************************)
EXTENDS MatchingEvents

Event == [id : Nat \ {0}, run : Nat \ {0}, about : Submissions \cup {System},
          kind : {"ORDER_ACCEPTED", "ORDER_FILL", "ORDER_PARTIALLY_FILLED", "ORDER_FILLED",
                  "ORDER_RESTED", "ORDER_CANCELLED", "BOOK_DELTA", "RUNTIME_STATUS",
                  "RECONCILIATION_RESULT"}]

\* A client of /stream has received, without a gap and without a repetition, the events
\* that pass its filter from some event of its snapshot up to now: nothing is published
\* between the snapshot and the subscription.
StreamsFollowLog ==
    \A s \in Streams : opened[s] # -1 =>
        \E k \in 0..opened[s] : stream[s] = Passing(SubSeq(log, k + 1, Len(log)), filter[s])

\* What the submissions committed by this run have emitted.
CommittedEvents ==
    UNION {{log[i] : i \in emitted[o]} : o \in {p \in Submissions : stage[p] = "committed"}}

\* The rows this run has written are the events of the submissions it has committed, every
\* one of them, as they were published: events of a submission that was undone reach streams
\* only.  And an id has one row, although the ids begin at 1 with every run.
RowsAreCommitted ==
    /\ {e \in rows : e.run = run} = CommittedEvents
    /\ \A d, e \in rows : d.id = e.id => d = e

\* A reader that follows afterEventId reads no id twice, and has read, up to where it has
\* come, every row that was there when it began and still is; a page that is not full is
\* the last one.
ReplayComplete ==
    \A r \in Readers :
        /\ \A i, j \in DOMAIN got[r] : i < j => got[r][i].id < got[r][j].id
        /\ \A e \in base[r] \cap rows :
            e.id =< after[r] \/ r \in ended => e \in Range(got[r])
=============================================================================
