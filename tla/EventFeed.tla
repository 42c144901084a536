------------------------------- MODULE EventFeed -------------------------------
(***************************************************************************)
(* What the stream of audit events promises one client (src/README.md,     *)
(* "SSE stream of audit events"; SPEC 10, progress in real time): the      *)
(* events arrive as they are published and the stream is closed only when  *)
(* the case is complete and nothing is left to send.  If the feed is       *)
(* ordered, that is grows only at its end, every event arrives once and in *)
(* its place; if not, only the number of deliveries is promised.           *)
(***************************************************************************)
EXTENDS Integers, Sequences, SequencesExt

VARIABLES
    ordered,     \* does the feed grow only at its end?
    feed,        \* the events published so far
    complete,    \* is the case complete?
    delivered,   \* the events the client has received
    closed       \* did the stream end by itself?

Init ==
    /\ ordered \in BOOLEAN
    /\ feed = <<>> /\ delivered = <<>>
    /\ complete = FALSE /\ closed = FALSE

Publish ==
    /\ ~complete
    /\ Len(feed') > Len(feed)
    /\ ordered => IsPrefix(feed, feed')
    /\ UNCHANGED <<ordered, complete, delivered, closed>>

Complete ==
    /\ ~complete
    /\ complete' = TRUE
    /\ UNCHANGED <<ordered, feed, delivered, closed>>

Deliver ==
    /\ ~closed
    /\ Len(delivered) < Len(feed)
    /\ \E i \in DOMAIN feed :
          /\ delivered' = Append(delivered, feed[i])
          /\ ordered => i = Len(delivered) + 1
    /\ UNCHANGED <<ordered, feed, complete, closed>>

Close ==
    /\ complete /\ ~closed
    /\ Len(delivered) = Len(feed)
    /\ closed' = TRUE
    /\ UNCHANGED <<ordered, feed, complete, delivered>>

Next == Publish \/ Complete \/ Deliver \/ Close

Spec == Init /\ [][Next]_<<ordered, feed, complete, delivered, closed>>
===============================================================================
