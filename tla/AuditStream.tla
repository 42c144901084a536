------------------------------ MODULE AuditStream ------------------------------
(***************************************************************************)
(* The audit events of one case on their way from the nodes to a client of *)
(* GET /cases/{id}/events: the emitters of each superstep, the sink that   *)
(* stores what they emit, and the generator of api/main.py that polls the  *)
(* sink and the status of the case.                                        *)
(*                                                                         *)
(* The case itself is only its plan, the emitters of each superstep: the   *)
(* nodes run one after the other, except that the workers of an extraction *)
(* superstep run together.  An event gets its timestamp when it is made.   *)
(* The in-memory sink appends it in the same step of the event loop, that  *)
(* of PostgreSQL inserts it after an await, or not at all.  The clock of   *)
(* the process does not go back and no two events share a microsecond.     *)
(***************************************************************************)
EXTENDS Integers, Sequences, FiniteSets

CONSTANTS
    Plans,       \* the supersteps a case may take: sequences of sets of emitters
    Emits,       \* Emits[e]: how many events emitter e makes
    Backends,    \* settings.persistence_backend: "memory", "postgres" or both
    MayFail      \* may a statement sent to PostgreSQL fail?

Emitters == DOMAIN Emits

ASSUME StreamAssumption ==
    /\ Emits \in [Emitters -> Nat] /\ IsFiniteSet(Emitters)
    /\ "finalize" \in Emitters /\ Emits["finalize"] = 1
    /\ \A plan \in Plans :
          /\ plan \in Seq(SUBSET Emitters)
          /\ plan # <<>> /\ plan[Len(plan)] = {"finalize"}
          /\ \A i, j \in DOMAIN plan : i # j => plan[i] \cap plan[j] = {}
    /\ Backends \subseteq {"memory", "postgres"}
    /\ MayFail \in BOOLEAN

VARIABLES
    plan, backend,
    (* the run of the case *)
    at,          \* its superstep; 0 before the first checkpoint
    alive,       \* is its task, or the review that resumed it, still at work?
    made,        \* made[e]: the events emitter e has made
    clock,       \* the timestamp of the last event
    (* the audit trail *)
    writing,     \* events on their way to PostgreSQL
    stored,      \* the rows of audit_events
    (* the generator of one client *)
    pc,          \* where it stands
    told,        \* the status it was last told
    snapshot,    \* the list it read last
    sent,        \* how many events of it were yielded
    delivered,   \* all the client has received
    gone         \* has the client disconnected?

case   == <<plan, backend, at, alive, made, clock>>
trail  == <<writing, stored>>
stream == <<pc, told, snapshot, sent, delivered, gone>>
vars   == <<case, trail, stream>>

Event == [by: Emitters, n: Nat, ts: Nat]

(***************************************************************************)
(* events(case_id): the rows in the order of their timestamps, which for   *)
(* the in-memory sink is the order in which they were appended.            *)
(***************************************************************************)
Rank(row) == Cardinality({r \in stored : r.ts <= row.ts})
Feed == [i \in 1..Cardinality(stored) |-> CHOOSE row \in stored : Rank(row) = i]

Completed == at > Len(plan)

Init ==
    /\ plan \in Plans /\ backend \in Backends
    /\ at = 0 /\ alive = TRUE
    /\ made = [e \in Emitters |-> 0] /\ clock = 0
    /\ writing = {} /\ stored = {}
    /\ pc = "idle" /\ told = "none" /\ snapshot = <<>> /\ sent = 0
    /\ delivered = <<>> /\ gone = FALSE

(***************************************************************************)
(* The run.                                                                *)
(***************************************************************************)
(* The task of _run gets to work and the input is checkpointed. *)
RunBegins ==
    /\ alive /\ at = 0
    /\ at' = 1
    /\ UNCHANGED <<plan, backend, alive, made, clock, trail, stream>>

Emitting(e) == alive /\ at \in DOMAIN plan /\ e \in plan[at] /\ made[e] < Emits[e]

(* emit: the event is made with its timestamp and handed to the sink. *)
Emit(e) ==
    LET event == [by |-> e, n |-> made[e] + 1, ts |-> clock + 1]
    IN  /\ Emitting(e)
        /\ ~\E w \in writing : w.by = e
        /\ made' = [made EXCEPT ![e] = @ + 1]
        /\ clock' = clock + 1
        /\ IF backend = "memory"
           THEN stored' = stored \cup {event} /\ UNCHANGED writing
           ELSE writing' = writing \cup {event} /\ UNCHANGED stored
        /\ UNCHANGED <<plan, backend, at, alive, stream>>

(* Mutant: an insert that succeeded is sent again. *)
InsertRetried(event) ==
    /\ stored' = stored \cup {event}
    /\ UNCHANGED <<writing, case, stream>>
Insert(event) ==
    /\ stored' = stored \cup {event}
    /\ writing' = writing \ {event}
    /\ UNCHANGED <<case, stream>>

(* SafeAuditSink logs that the write failed and goes on. *)
Lose(event) ==
    /\ MayFail
    /\ writing' = writing \ {event}
    /\ UNCHANGED <<stored, case, stream>>

(* Every emitter of the superstep has returned; the checkpoint is written. *)
AllReturned == writing = {} /\ \A e \in plan[at] : made[e] = Emits[e]

SuperstepEnds ==
    /\ alive /\ at \in DOMAIN plan
    /\ AllReturned
    /\ at' = at + 1
    /\ alive' = (at < Len(plan))
    /\ UNCHANGED <<plan, backend, made, clock, trail, stream>>

(* An exception ends the run and cancels the other workers. *)
RunFails ==
    /\ alive
    /\ alive' = FALSE
    /\ \E kept \in SUBSET writing : stored' = stored \cup kept
    /\ writing' = {}
    /\ UNCHANGED <<plan, backend, at, made, clock, stream>>

(***************************************************************************)
(* The stream.  status() reads the checkpoint and, when there is none, the *)
(* task map; the await in between is a step of its own.                    *)
(***************************************************************************)
Status == IF at = 0 THEN "none" ELSE IF Completed THEN "completed" ELSE "processing"

At(here) == pc = here /\ UNCHANGED <<case, trail, gone>>

Missing == told = "none" /\ ~alive

(* exists(): the endpoint answers 404 before it starts a stream. *)
Connect ==
    /\ At("idle")
    /\ told' = Status
    /\ pc' = "opening"
    /\ UNCHANGED <<snapshot, sent, delivered>>

Opened ==
    /\ At("opening")
    /\ pc' = IF Missing THEN "notfound" ELSE "poll"
    /\ UNCHANGED <<told, snapshot, sent, delivered>>

Poll ==
    /\ At("poll")
    /\ snapshot' = Feed
    /\ pc' = "send"
    /\ UNCHANGED <<told, sent, delivered>>

(* One event of events[sent:] is yielded.  The code sets sent to the       *)
(* length of the list after the last of them, the same number.             *)
Send ==
    /\ At("send")
    /\ sent < Len(snapshot)
    /\ delivered' = Append(delivered, snapshot[sent + 1])
    /\ sent' = sent + 1
    /\ UNCHANGED <<pc, told, snapshot>>

AskStatus ==
    /\ At("send")
    /\ sent >= Len(snapshot)
    /\ told' = Status
    /\ pc' = "told"
    /\ UNCHANGED <<snapshot, sent, delivered>>

(* is_finished raises CaseNotFoundError out of the generator. *)
CaseNotFound ==
    /\ At("told")
    /\ Missing
    /\ pc' = "broken"
    /\ UNCHANGED <<told, snapshot, sent, delivered>>

NotFinished ==
    /\ At("told")
    /\ told # "completed" /\ ~Missing
    /\ pc' = "pause"
    /\ UNCHANGED <<told, snapshot, sent, delivered>>

(* Mutant: the list is not read again after the status. *)
SentLastList == sent = Len(snapshot)
(* Mutant: the stream waits for the events that were made, not the stored ones. *)
SentAllMade == sent = clock
SentAll == sent = Cardinality(stored)

Finished ==
    /\ At("told")
    /\ told = "completed"
    /\ pc' = IF SentAll THEN "closed" ELSE "pause"
    /\ UNCHANGED <<told, snapshot, sent, delivered>>

(* is_disconnected, then the sleep of _SSE_POLL_SECONDS. *)
Pause ==
    /\ At("pause")
    /\ pc' = IF gone THEN "left" ELSE "poll"
    /\ UNCHANGED <<told, snapshot, sent, delivered>>

(* A query of the stream fails; nothing catches it. *)
ReadFails ==
    /\ At(pc) /\ pc \in {"poll", "send", "told"}
    /\ backend = "postgres" /\ MayFail
    /\ pc' = "broken"
    /\ UNCHANGED <<told, snapshot, sent, delivered>>

Disconnect ==
    /\ ~gone /\ pc \in {"poll", "send", "told", "pause"}
    /\ gone' = TRUE
    /\ UNCHANGED <<case, trail, pc, told, snapshot, sent, delivered>>

Ended == pc \in {"notfound", "closed", "left", "broken"}
Stopped == Ended /\ ~alive /\ UNCHANGED vars

Generator ==
    \/ Opened \/ Poll \/ Send \/ AskStatus \/ CaseNotFound \/ NotFinished
    \/ Finished \/ Pause

Run ==
    \/ RunBegins \/ SuperstepEnds \/ RunFails
    \/ \E e \in Emitters : Emit(e)
    \/ \E event \in writing : Insert(event) \/ Lose(event)

Next == Run \/ Connect \/ Generator \/ ReadFails \/ Disconnect \/ Stopped

Spec == Init /\ [][Next]_vars

(* Fairness: the event loop goes on with an open stream.  None is assumed  *)
(* of the run, which may wait for a reviewer for ever.                     *)
FairSpec == Spec /\ WF_vars(Generator)

-------------------------------------------------------------------------------
(***************************************************************************)
(* Properties                                                              *)
(***************************************************************************)
(* Every variable keeps its type; an event is stored once, with one        *)
(* timestamp, and never while it is still being written.                   *)
TypeOK ==
    /\ plan \in Plans /\ backend \in Backends
    /\ at \in 0 .. Len(plan) + 1 /\ alive \in BOOLEAN
    /\ made \in [Emitters -> Nat] /\ clock \in Nat
    /\ writing \subseteq Event /\ stored \subseteq Event /\ writing \cap stored = {}
    /\ IsFiniteSet(stored)
    /\ \A r, s \in writing \cup stored : r.ts = s.ts => r = s
    /\ pc \in {"idle", "opening", "notfound", "poll", "send", "told", "pause",
               "closed", "left", "broken"}
    /\ told \in {"none", "processing", "completed"}
    /\ snapshot \in Seq(Event) /\ sent \in Nat
    /\ delivered \in Seq(Event) /\ gone \in BOOLEAN

(* The stream implements the feed, whatever fails: it closes only when the *)
(* case is complete and it has sent as many events as are stored; and when *)
(* the sink is the one in memory, or no two emitters ever run together,    *)
(* every event arrives once and in its place.                              *)
InOrder == backend = "memory" \/ \A i \in DOMAIN plan : Cardinality(plan[i]) <= 1

FeedOfCase == INSTANCE EventFeed WITH
    ordered <- InOrder, feed <- Feed, complete <- Completed, closed <- pc = "closed"

ImplementsFeed == FeedOfCase!Spec

(* A client whose stream was closed has seen the case close: the event of  *)
(* finalize, if the sink has it, was the last to arrive, even where the    *)
(* sink reorders the others.                                               *)
ClosedWithLastEvent ==
    pc = "closed" =>
        \A event \in stored :
            event.by = "finalize" =>
                delivered # <<>> /\ delivered[Len(delivered)] = event

(* No stream outlives its case or its client: once the case is completed,  *)
(* or the client has gone, it ends.                                        *)
StreamEnds == (pc # "idle" /\ Completed) \/ gone ~> Ended

-------------------------------------------------------------------------------
(***************************************************************************)
(* What the documentation says and the code does otherwise.                *)
(***************************************************************************)
(* main.py: "SSE stream of audit events until the case reaches a final     *)
(* state".  Of two events of workers that ran together, the one made first *)
(* and stored last is never sent, and the other one is sent twice.         *)
EveryEventStreamed ==
    pc = "closed" => \A event \in stored : \E i \in DOMAIN delivered : delivered[i] = event
===============================================================================
