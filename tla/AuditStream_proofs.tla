-------------------------- MODULE AuditStream_proofs --------------------------
(***************************************************************************)
(* Theorems about AuditStream, for any plans of a case, any number of      *)
(* events, either sink, and with or without failing statements: the types, *)
(* that the stream implements EventFeed, and what a closed stream has      *)
(* delivered.                                                              *)
(***************************************************************************)
EXTENDS AuditStream, FiniteSetTheorems, FunctionTheorems, TLAPS

(***************************************************************************)
(* Rows in the order of their timestamps, for any set of rows.             *)
(***************************************************************************)
RankIn(S, row) == Cardinality({r \in S : r.ts <= row.ts})
FeedIn(S) == [i \in 1..Cardinality(S) |-> CHOOSE row \in S : RankIn(S, row) = i]

(* No two rows share a timestamp. *)
Rows(S) ==
    /\ S \subseteq Event /\ IsFiniteSet(S)
    /\ \A r, s \in S : r.ts = s.ts => r = s

LEMMA FeedIsFeedIn == Feed = FeedIn(stored)
BY DEF Feed, FeedIn, Rank, RankIn

LEMMA RankType ==
  ASSUME NEW S, Rows(S), NEW row \in S
  PROVE  RankIn(S, row) \in 1..Cardinality(S)
<1> DEFINE upTo == {r \in S : r.ts <= row.ts}
<1>1. IsFiniteSet(upTo) /\ Cardinality(upTo) <= Cardinality(S) /\ Cardinality(S) \in Nat
      /\ Cardinality(upTo) \in Nat
  BY FS_Subset, FS_CardinalityType DEF Rows
<1>2. row \in upTo
  BY DEF Rows, Event
<1>3. Cardinality(upTo) # 0
  BY <1>1, <1>2, FS_EmptySet
<1>. QED  BY <1>1, <1>3 DEF RankIn

LEMMA RankOrder ==
  ASSUME NEW S, Rows(S), NEW r \in S, NEW s \in S, r.ts < s.ts
  PROVE  RankIn(S, r) < RankIn(S, s)
<1> DEFINE R == {q \in S : q.ts <= r.ts}
           Q == {q \in S : q.ts <= s.ts}
<1>1. r.ts \in Nat /\ s.ts \in Nat /\ \A q \in S : q.ts \in Nat
  BY DEF Rows, Event
<1>2. IsFiniteSet(Q) /\ Cardinality(Q) \in Nat
  BY FS_Subset, FS_CardinalityType DEF Rows
<1>3. R \subseteq Q /\ s \in Q /\ s \notin R
  BY <1>1
<1>4. Cardinality(R) <= Cardinality(Q) /\ (Cardinality(Q) = Cardinality(R) => Q = R)
      /\ IsFiniteSet(R)
  BY <1>2, <1>3, FS_Subset
<1>5. Cardinality(R) \in Nat /\ Cardinality(Q) # Cardinality(R)
  BY <1>3, <1>4, FS_CardinalityType
<1>. QED  BY <1>2, <1>4, <1>5 DEF RankIn

(* A rank belongs to one row ... *)
LEMMA RankUnique ==
  ASSUME NEW S, Rows(S), NEW r \in S, NEW s \in S, RankIn(S, r) = RankIn(S, s)
  PROVE  r = s
<1>1. r.ts \in Nat /\ s.ts \in Nat
  BY DEF Rows, Event
<1>2. RankIn(S, r) \in Int /\ RankIn(S, s) \in Int
  BY RankType
<1>3. ~(r.ts < s.ts) /\ ~(s.ts < r.ts)
  BY <1>2, RankOrder
<1>. QED  BY <1>1, <1>3 DEF Rows

(* ... and every position is the rank of a row. *)
LEMMA RankOnto ==
  ASSUME NEW S, Rows(S), NEW i \in 1..Cardinality(S)
  PROVE  \E row \in S : RankIn(S, row) = i
<1> DEFINE N == Cardinality(S)
           f == [row \in S |-> RankIn(S, row)]
<1>1. N \in Nat /\ IsFiniteSet(S)
  BY FS_CardinalityType DEF Rows
<1>2. IsFiniteSet(1..N) /\ Cardinality(1..N) = N
  BY <1>1, FS_Interval
<1>3. f \in [S -> 1..N]
  BY RankType
<1>4. \A r, s \in S : f[r] = f[s] => r = s
  BY RankUnique
<1>5. f \in Injection(S, 1..N)
  BY <1>3, <1>4 DEF Injection, IsInjective
<1>6. f \in Surjection(S, 1..N)
  BY <1>2, <1>5, FS_Injection
<1>7. \E row \in S : f[row] = i
  BY <1>6 DEF Surjection
<1>. QED  BY <1>7

(* The feed holds every row, at its rank. *)
LEMMA FeedRows ==
  ASSUME NEW S, Rows(S)
  PROVE  /\ FeedIn(S) \in Seq(S) /\ Len(FeedIn(S)) = Cardinality(S)
         /\ DOMAIN FeedIn(S) = 1..Cardinality(S) /\ Cardinality(S) \in Nat
         /\ \A i \in 1..Cardinality(S) : FeedIn(S)[i] \in S /\ RankIn(S, FeedIn(S)[i]) = i
         /\ \A row \in S : FeedIn(S)[RankIn(S, row)] = row
<1>1. Cardinality(S) \in Nat
  BY FS_CardinalityType DEF Rows
<1>2. \A i \in 1..Cardinality(S) : FeedIn(S)[i] \in S /\ RankIn(S, FeedIn(S)[i]) = i
  BY RankOnto DEF FeedIn
<1>3. \A row \in S : FeedIn(S)[RankIn(S, row)] = row
  BY <1>2, RankType, RankUnique
<1>4. FeedIn(S) \in Seq(S) /\ Len(FeedIn(S)) = Cardinality(S)
      /\ DOMAIN FeedIn(S) = 1..Cardinality(S)
  BY <1>1, <1>2 DEF FeedIn
<1>. QED  BY <1>1, <1>2, <1>3, <1>4

(* Rows with later timestamps go to the end. *)
LEMMA FeedGrows ==
  ASSUME NEW S, NEW T, Rows(S), Rows(T), S \subseteq T,
         \A r \in S, t \in T \ S : r.ts < t.ts
  PROVE  \A i \in 1..Cardinality(S) : i \in 1..Cardinality(T) /\ FeedIn(T)[i] = FeedIn(S)[i]
<1>1. Cardinality(S) \in Nat /\ Cardinality(T) \in Nat /\ Cardinality(S) <= Cardinality(T)
  BY FS_CardinalityType, FS_Subset DEF Rows
<1>2. SUFFICES ASSUME NEW i \in 1..Cardinality(S)
               PROVE  FeedIn(T)[i] = FeedIn(S)[i]
  BY <1>1
<1>3. PICK row \in S : FeedIn(S)[i] = row /\ RankIn(S, row) = i
  BY FeedRows
<1>4. {r \in S : r.ts <= row.ts} = {r \in T : r.ts <= row.ts}
  <2>1. \A t \in T \ S : ~(t.ts <= row.ts)
    BY DEF Rows, Event
  <2>. QED  BY <2>1
<1>5. RankIn(T, row) = i
  BY <1>3, <1>4 DEF RankIn
<1>. QED  BY <1>3, <1>5, FeedRows

(* The row with the latest timestamp is the last. *)
LEMMA LatestIsLast ==
  ASSUME NEW S, Rows(S), NEW row \in S, \A r \in S : r.ts <= row.ts
  PROVE  FeedIn(S)[Cardinality(S)] = row
<1>1. {r \in S : r.ts <= row.ts} = S
  OBVIOUS
<1>2. RankIn(S, row) = Cardinality(S)
  BY <1>1 DEF RankIn
<1>. QED  BY <1>2, FeedRows

(***************************************************************************)
(* The inductive invariant.                                                *)
(***************************************************************************)
(* An event carries a number its emitter and a time the clock has reached. *)
Stamped ==
    /\ IsFiniteSet(writing)
    /\ \A r \in writing \cup stored :
          r.ts <= clock /\ 1 <= r.n /\ r.n <= made[r.by]

(* Only the superstep at work is writing, each of its emitters one event.  *)
Writers ==
    /\ alive => at <= Len(plan)
    /\ backend = "memory" => writing = {}
    /\ \A w \in writing : alive /\ at \in DOMAIN plan /\ w.by \in plan[at]
    /\ \A v, w \in writing : v.by = w.by => v = w

(* finalize is the last emitter, and has the last event. *)
FinalizeLast ==
    /\ made["finalize"] > 0 => at >= Len(plan)
    /\ \A f, r \in writing \cup stored : f.by = "finalize" => r.ts <= f.ts

(* Where no two emitters run together, what is stored later is later. *)
Later == InOrder => \A w \in writing, r \in stored : r.ts < w.ts

(* What the generator has read and sent, against what is stored. *)
Sending ==
    /\ sent = Len(delivered) /\ sent <= Len(snapshot)
    /\ Len(snapshot) <= Cardinality(stored)
    /\ \A i \in DOMAIN snapshot : snapshot[i] \in stored
    /\ InOrder => \A i \in DOMAIN snapshot : snapshot[i] = Feed[i]
    /\ Len(snapshot) = Cardinality(stored) => snapshot = Feed

(* A status of "completed" was true and stays it. *)
Closing ==
    /\ told = "completed" => Completed
    /\ pc = "closed" => Completed /\ sent = Cardinality(stored)

(* Once all the rows are sent, that of finalize was the last. *)
SentLast ==
    \A f \in stored : f.by = "finalize" /\ sent = Cardinality(stored) =>
        delivered # <<>> /\ delivered[Len(delivered)] = f

(* The run and its trail, and the client. *)
RunType ==
    /\ plan \in Plans /\ backend \in Backends
    /\ at \in 0 .. Len(plan) + 1 /\ alive \in BOOLEAN
    /\ made \in [Emitters -> Nat] /\ clock \in Nat
    /\ writing \subseteq Event /\ stored \subseteq Event /\ writing \cap stored = {}
    /\ IsFiniteSet(stored)
    /\ \A r, s \in writing \cup stored : r.ts = s.ts => r = s

ClientType ==
    /\ pc \in {"idle", "opening", "notfound", "poll", "send", "told", "pause",
               "closed", "left", "broken"}
    /\ told \in {"none", "processing", "completed"}
    /\ snapshot \in Seq(Event) /\ sent \in Nat
    /\ delivered \in Seq(Event) /\ gone \in BOOLEAN

RunInv == RunType /\ Stamped /\ Writers /\ FinalizeLast /\ Later
ClientInv == ClientType /\ Sending /\ Closing /\ SentLast

(***************************************************************************)
(* The run.                                                                *)
(***************************************************************************)
LEMMA PlanFacts ==
  ASSUME plan \in Plans, backend \in Backends
  PROVE  /\ plan \in Seq(SUBSET Emitters) /\ Len(plan) \in Nat \ {0}
         /\ DOMAIN plan = 1..Len(plan) /\ plan[Len(plan)] = {"finalize"}
         /\ \A i \in DOMAIN plan : "finalize" \in plan[i] => i = Len(plan)
         /\ backend \in {"memory", "postgres"}
<1>1. /\ plan \in Seq(SUBSET Emitters) /\ plan # <<>> /\ plan[Len(plan)] = {"finalize"}
      /\ \A i, j \in DOMAIN plan : i # j => plan[i] \cap plan[j] = {}
      /\ backend \in {"memory", "postgres"}
  BY StreamAssumption
<1>2. Len(plan) \in Nat \ {0} /\ DOMAIN plan = 1..Len(plan)
  BY <1>1
<1>3. \A i \in DOMAIN plan : "finalize" \in plan[i] => i = Len(plan)
  BY <1>1, <1>2
<1>. QED  BY <1>1, <1>2, <1>3

LEMMA RunInit == Init => RunInv
<1>. SUFFICES ASSUME Init PROVE RunInv
  OBVIOUS
<1>1. Len(plan) \in Nat \ {0} /\ "finalize" \in Emitters /\ IsFiniteSet({})
  BY PlanFacts, StreamAssumption, FS_EmptySet DEF Init
<1>. QED  BY <1>1 DEF Init, RunInv, RunType, Stamped, Writers, FinalizeLast, Later

(* Where no two emitters run together, one event at most is being written. *)
LEMMA OneWriter ==
  ASSUME RunType, Writers, InOrder, NEW v \in writing
  PROVE  writing = {v}
<1>1. backend # "memory" /\ at \in DOMAIN plan /\ v.by \in plan[at]
  BY DEF Writers
<1>2. Cardinality(plan[at]) <= 1
  BY <1>1 DEF InOrder
<1>3. IsFiniteSet(plan[at])
  BY <1>1, PlanFacts, StreamAssumption, FS_Subset DEF RunType
<1>4. Cardinality(plan[at]) = 1
  BY <1>1, <1>2, <1>3, FS_CardinalityType, FS_EmptySet
<1>5. PICK e : plan[at] = {e}
  BY <1>3, <1>4, FS_Singleton
<1>. QED  BY <1>1, <1>5 DEF Writers

LEMMA EmitKeepsRunInv ==
  ASSUME RunInv, NEW e \in Emitters, Emit(e)
  PROVE  RunInv'
<1> DEFINE event == [by |-> e, n |-> made[e] + 1, ts |-> clock + 1]
<1>. USE DEF RunInv
<1>1. /\ Emitting(e) /\ ~\E w \in writing : w.by = e
      /\ made' = [made EXCEPT ![e] = @ + 1] /\ clock' = clock + 1
      /\ \/ backend = "memory" /\ stored' = stored \cup {event} /\ writing' = writing
         \/ backend # "memory" /\ writing' = writing \cup {event} /\ stored' = stored
      /\ UNCHANGED <<plan, backend, at, alive>>
  BY DEF Emit
<1>2. /\ event \in Event /\ event.by = e /\ event.n = made[e] + 1 /\ event.ts = clock + 1
      /\ made[e] \in Nat /\ clock \in Nat
  BY DEF RunType, Event
<1>3. \A r \in writing \cup stored : /\ r.by \in Emitters /\ r.ts \in Nat /\ r.n \in Nat
                                      /\ r.ts < event.ts /\ r # event
  BY <1>2 DEF RunType, Stamped, Event
<1>4. writing' \cup stored' = (writing \cup stored) \cup {event}
  BY <1>1
<1>5. RunType'
  <2>1. IsFiniteSet(stored')
    <3>1. IsFiniteSet(stored \cup {event})
      BY FS_AddElement DEF RunType
    <3>. QED  BY <1>1, <3>1 DEF RunType
  <2>2. made' \in [Emitters -> Nat] /\ clock' \in Nat
    BY <1>1, <1>2 DEF RunType
  <2>3. writing' \subseteq Event /\ stored' \subseteq Event /\ writing' \cap stored' = {}
    BY <1>1, <1>2, <1>3 DEF RunType
  <2>4. \A r, s \in writing' \cup stored' : r.ts = s.ts => r = s
    BY <1>2, <1>3, <1>4 DEF RunType
  <2>. QED  BY <1>1, <2>1, <2>2, <2>3, <2>4 DEF RunType
<1>6. Stamped'
  <2>1. IsFiniteSet(writing')
    <3>1. IsFiniteSet(writing)
      BY DEF Stamped
    <3>2. IsFiniteSet(writing \cup {event})
      BY <3>1, FS_AddElement
    <3>. QED  BY <1>1, <3>1, <3>2
  <2>2. \A r \in writing \cup stored : r.ts <= clock' /\ 1 <= r.n /\ r.n <= made'[r.by]
    BY <1>1, <1>2, <1>3 DEF Stamped, RunType
  <2>3. event.ts <= clock' /\ 1 <= event.n /\ event.n <= made'[event.by]
    BY <1>1, <1>2 DEF RunType
  <2>. QED  BY <2>1, <2>2, <2>3, <1>4 DEF Stamped
<1>7. Writers'
  BY <1>1, <1>2 DEF Writers, Emitting
<1>8. FinalizeLast'
  <2>1. e = "finalize" => at = Len(plan)
    BY <1>1, PlanFacts DEF Emitting, RunType
  <2>2. (made["finalize"] > 0)' => at' >= Len(plan)'
    <3>1. CASE e = "finalize"
      BY <3>1, <2>1, <1>1, PlanFacts DEF RunType
    <3>2. CASE e # "finalize"
      BY <3>2, <1>1 DEF RunType, FinalizeLast
    <3>. QED  BY <3>1, <3>2
  <2>3. ASSUME NEW f \in writing \cup stored, f.by = "finalize" PROVE FALSE
    <3>1. made["finalize"] > 0
      BY <2>3, <1>3 DEF Stamped, RunType
    <3>2. at = Len(plan) /\ e \in plan[at] /\ made[e] < Emits[e]
      BY <3>1, <1>1, PlanFacts DEF FinalizeLast, Emitting, RunType
    <3>3. e = "finalize" /\ Emits[e] = 1
      BY <3>2, PlanFacts, StreamAssumption DEF RunType
    <3>. QED  BY <3>1, <3>2, <3>3 DEF RunType
  <2>4. \A f, r \in writing' \cup stored' : f.by = "finalize" => r.ts <= f.ts
    BY <1>2, <1>3, <1>4, <2>3
  <2>. QED  BY <2>2, <2>4 DEF FinalizeLast
<1>9. Later'
  <2>1. InOrder' <=> InOrder
    BY <1>1 DEF InOrder
  <2>2. CASE backend = "memory"
    BY <2>2, <1>1 DEF Writers, Later
  <2>3. CASE backend # "memory"
    <3>1. \A r \in stored' : r.ts < event.ts
      BY <2>3, <1>1, <1>3
    <3>. QED  BY <2>1, <2>3, <3>1, <1>1 DEF Later
  <2>. QED  BY <2>2, <2>3
<1>. QED  BY <1>5, <1>6, <1>7, <1>8, <1>9

(* Rows that are inserted, or lost, come from those being written. *)
LEMMA FewerWriters ==
  ASSUME RunInv, writing' \subseteq writing, stored \subseteq stored',
         stored' \subseteq stored \cup writing, writing' \cap stored' = {},
         UNCHANGED <<plan, backend, at, made, clock>>,
         alive' \in BOOLEAN, alive' => alive, writing' # {} => alive',
         Later'
  PROVE  RunInv'
<1>. USE DEF RunInv
<1>1. IsFiniteSet(stored') /\ IsFiniteSet(writing')
  <2>1. IsFiniteSet(stored \cup writing)
    BY FS_Union DEF RunType, Stamped
  <2>. QED  BY <2>1, FS_Subset DEF Stamped
<1>2. writing' \cup stored' \subseteq writing \cup stored
  OBVIOUS
<1>3. RunType'
  BY <1>1, <1>2 DEF RunType
<1>4. Stamped' /\ FinalizeLast'
  BY <1>1, <1>2 DEF Stamped, FinalizeLast
<1>5. Writers'
  BY DEF Writers
<1>. QED  BY <1>3, <1>4, <1>5

LEMMA RunStep == RunInv /\ [Run]_<<case, trail>> => RunInv'
<1>. SUFFICES ASSUME RunInv, [Run]_<<case, trail>> PROVE RunInv'
  OBVIOUS
<1>1. CASE UNCHANGED <<case, trail>>
  <2>1. UNCHANGED <<plan, backend, at, alive, made, clock, writing, stored>>
    BY <1>1 DEF case, trail
  <2>2. RunType' /\ Stamped'
    BY <2>1 DEF RunInv, RunType, Stamped
  <2>3. Writers' /\ FinalizeLast' /\ Later'
    BY <2>1 DEF RunInv, Writers, FinalizeLast, Later, InOrder
  <2>. QED  BY <2>2, <2>3 DEF RunInv
<1>2. CASE RunBegins
  BY <1>2, PlanFacts DEF RunBegins, trail, RunInv, RunType, Stamped, Writers, FinalizeLast,
                         Later, InOrder
<1>3. CASE SuperstepEnds
  <2>1. /\ alive /\ at \in DOMAIN plan /\ writing = {} /\ at' = at + 1
        /\ alive' = (at < Len(plan))
        /\ UNCHANGED <<plan, backend, made, clock, writing, stored>>
    BY <1>3 DEF SuperstepEnds, AllReturned, trail
  <2>2. RunType' /\ Stamped'
    BY <2>1, PlanFacts DEF RunInv, RunType, Stamped
  <2>3. at < Len(plan) => at' <= Len(plan)
    BY <2>1, PlanFacts DEF RunInv, RunType
  <2>4. Writers'
    BY <2>1, <2>3 DEF Writers
  <2>5. FinalizeLast' /\ Later'
    BY <2>1, PlanFacts DEF RunInv, RunType, FinalizeLast, Later, InOrder
  <2>. QED  BY <2>2, <2>4, <2>5 DEF RunInv
<1>4. CASE RunFails
  BY <1>4, FewerWriters DEF RunFails, Later
<1>5. ASSUME NEW e \in Emitters, Emit(e) PROVE RunInv'
  BY <1>5, EmitKeepsRunInv
<1>6. ASSUME NEW event \in writing, Insert(event) PROVE RunInv'
  <2>1. Later'
    BY <1>6, OneWriter DEF Insert, case, InOrder, RunInv, Later
  <2>. QED  BY <1>6, <2>1, FewerWriters DEF Insert, case, RunInv, RunType, Writers
<1>7. ASSUME NEW event \in writing, Lose(event) PROVE RunInv'
  <2>1. Later'
    BY <1>7 DEF Lose, case, InOrder, RunInv, Later
  <2>. QED  BY <1>7, <2>1, FewerWriters DEF Lose, case, RunInv, RunType, Writers
<1>. QED  BY <1>1, <1>2, <1>3, <1>4, <1>5, <1>6, <1>7 DEF Run

(* What a step of the run does to the trail: rows are added, none before   *)
(* the first row where the feed is in order, and none to a completed case. *)
RowsAdded ==
    /\ Rows(stored) /\ Rows(stored)' /\ stored \subseteq stored'
    /\ (InOrder <=> InOrder') /\ (Completed => Completed' /\ stored' = stored)
    /\ InOrder => \A r \in stored, t \in stored' \ stored : r.ts < t.ts

LEMMA RunAddsRows == RunInv /\ RunInv' /\ [Run]_<<case, trail>> => RowsAdded
<1>. SUFFICES ASSUME RunInv, RunInv', [Run]_<<case, trail>> PROVE RowsAdded
  OBVIOUS
<1>1. Rows(stored) /\ Rows(stored)'
  BY DEF RunInv, RunType, Rows
<1>2. /\ UNCHANGED <<plan, backend>> /\ (Completed => Completed')
      /\ Completed => at \notin DOMAIN plan
  BY PlanFacts DEF Completed, Run, RunBegins, SuperstepEnds, RunFails, Emit, Insert, Lose,
                   case, trail, RunInv, RunType
<1>3. InOrder <=> InOrder'
  BY <1>2 DEF InOrder
<1>4. CASE \E e \in Emitters : Emit(e)
  <2>1. PICK e \in Emitters : Emit(e)
    BY <1>4
  <2>2. \/ stored' = stored
        \/ stored' = stored \cup {[by |-> e, n |-> made[e] + 1, ts |-> clock + 1]}
    BY <2>1 DEF Emit
  <2>3. \A r \in stored : r.ts < clock + 1
    BY DEF RunInv, RunType, Stamped, Event
  <2>4. ~Completed
    BY <1>2, <2>1 DEF Emit, Emitting
  <2>. QED  BY <1>1, <1>2, <1>3, <2>2, <2>3, <2>4 DEF RowsAdded
<1>5. CASE /\ stored \subseteq stored' /\ stored' \subseteq stored \cup writing
  <2>1. Completed => stored' = stored
    BY <1>2, <1>5 DEF RunInv, Writers
  <2>2. InOrder => \A r \in stored, t \in stored' \ stored : r.ts < t.ts
    BY <1>5 DEF RunInv, Later
  <2>. QED  BY <1>1, <1>2, <1>3, <1>5, <2>1, <2>2 DEF RowsAdded
<1>6. \/ \E e \in Emitters : Emit(e)
      \/ stored \subseteq stored' /\ stored' \subseteq stored \cup writing
  BY DEF Run, RunBegins, SuperstepEnds, RunFails, Insert, Lose, case, trail
<1>. QED  BY <1>4, <1>5, <1>6

(***************************************************************************)
(* The client.                                                             *)
(***************************************************************************)
LEMMA ClientInit == Init => ClientInv
<1>. SUFFICES ASSUME Init PROVE ClientInv
  OBVIOUS
<1>1. ClientType
  <2>1. <<>> \in Seq(Event)
    OBVIOUS
  <2>. QED  BY <2>1 DEF Init, ClientType
<1>2. Rows(stored) /\ Cardinality(stored) = 0
  BY FS_EmptySet DEF Init, Rows
<1>3. Feed = <<>>
  BY <1>2, FeedRows, FeedIsFeedIn
<1>. QED  BY <1>1, <1>2, <1>3 DEF Init, ClientInv, Sending, Closing, SentLast

(* The client stands still while the run goes on. *)
LEMMA RunKeepsClientInv ==
  ASSUME ClientInv, RowsAdded, UNCHANGED stream
  PROVE  ClientInv'
<1>1. UNCHANGED <<pc, told, snapshot, sent, delivered, gone>>
  BY DEF stream
<1>2. ClientType'
  BY <1>1 DEF ClientInv, ClientType
<1>3. Closing'
  BY <1>1 DEF ClientInv, Closing, RowsAdded
<1>4. /\ Cardinality(stored) \in Nat /\ Cardinality(stored') \in Nat
      /\ Cardinality(stored) <= Cardinality(stored')
      /\ Cardinality(stored) = Cardinality(stored') => stored = stored'
  BY FS_CardinalityType, FS_Subset DEF RowsAdded, Rows
<1>5. Len(snapshot) \in Nat /\ DOMAIN snapshot = 1..Len(snapshot) /\ sent \in Nat
  BY DEF ClientInv, ClientType
<1>6. Len(snapshot) = Cardinality(stored') => stored = stored'
  BY <1>4, <1>5 DEF ClientInv, Sending
<1>7. Sending'
  <2>1. ASSUME InOrder, NEW i \in DOMAIN snapshot
        PROVE  snapshot[i] = FeedIn(stored')[i]
    <3>1. i \in 1..Cardinality(stored) /\ snapshot[i] = FeedIn(stored)[i]
      BY <2>1, <1>4, <1>5, FeedIsFeedIn DEF ClientInv, Sending
    <3>2. /\ Rows(stored) /\ Rows(stored') /\ stored \subseteq stored'
          /\ \A r \in stored, t \in stored' \ stored : r.ts < t.ts
      BY <2>1 DEF RowsAdded, Rows
    <3>. QED  BY <3>1, <3>2, FeedGrows
  <2>2. Feed' = FeedIn(stored')
    BY FeedIsFeedIn DEF Feed, FeedIn, Rank, RankIn
  <2>3. (InOrder => \A i \in DOMAIN snapshot : snapshot[i] = Feed[i])'
    BY <1>1, <2>1, <2>2 DEF RowsAdded
  <2>4. (Len(snapshot) = Cardinality(stored) => snapshot = Feed)'
    BY <1>1, <1>6, <2>2, FeedIsFeedIn DEF ClientInv, Sending
  <2>5. Len(snapshot) <= Cardinality(stored')
    BY <1>4, <1>5 DEF ClientInv, Sending
  <2>. QED  BY <1>1, <2>3, <2>4, <2>5 DEF ClientInv, Sending, RowsAdded
<1>8. SentLast'
  <2>1. sent = Cardinality(stored') => stored = stored'
    BY <1>4, <1>5 DEF ClientInv, Sending
  <2>. QED  BY <1>1, <2>1 DEF ClientInv, SentLast
<1>. QED  BY <1>2, <1>3, <1>7, <1>8 DEF ClientInv

(* Actions that neither read, send nor close. *)
LEMMA WaitingKeepsClientInv ==
  ASSUME ClientInv, ClientType', UNCHANGED <<case, trail>>,
         UNCHANGED <<snapshot, sent, delivered>>,
         told' \in {told, Status}, pc' = "closed" => pc = "closed"
  PROVE  ClientInv'
<1>1. UNCHANGED <<plan, backend, at, writing, stored>>
  BY DEF case, trail
<1>2. (Completed <=> Completed') /\ (InOrder <=> InOrder') /\ Feed' = Feed
  BY <1>1 DEF Completed, InOrder, Feed, Rank
<1>3. Status = "completed" => Completed
  BY DEF Status
<1>4. Sending'
  BY <1>1, <1>2 DEF ClientInv, Sending
<1>5. Closing'
  BY <1>1, <1>2, <1>3 DEF ClientInv, Closing
<1>6. SentLast'
  BY <1>1 DEF ClientInv, SentLast
<1>. QED  BY <1>4, <1>5, <1>6 DEF ClientInv

LEMMA PollKeepsClientInv ==
  ASSUME RunInv, ClientInv, Poll
  PROVE  ClientInv'
<1>1. /\ pc' = "send" /\ UNCHANGED <<plan, backend, at, writing, stored>>
      /\ UNCHANGED <<told, sent, delivered, gone>> /\ snapshot' = Feed
  BY DEF Poll, At, case, trail
<1>2. (Completed <=> Completed') /\ (InOrder <=> InOrder') /\ Feed' = Feed
  BY <1>1 DEF Completed, InOrder, Feed, Rank
<1>3. Rows(stored)
  BY DEF RunInv, RunType, Rows
<1>4. /\ Feed \in Seq(stored) /\ Len(Feed) = Cardinality(stored) /\ Cardinality(stored) \in Nat
      /\ \A i \in DOMAIN Feed : Feed[i] \in stored
  BY <1>3, FeedRows, FeedIsFeedIn
<1>5. Feed \in Seq(Event)
  BY <1>3, <1>4 DEF Rows
<1>6. ClientType'
  BY <1>1, <1>5 DEF ClientInv, ClientType
<1>7. sent <= Cardinality(stored)
  BY <1>4 DEF ClientInv, ClientType, Sending
<1>8. Sending'
  BY <1>1, <1>2, <1>4, <1>7 DEF ClientInv, Sending
<1>9. Closing' /\ SentLast'
  BY <1>1, <1>2 DEF ClientInv, Closing, SentLast
<1>. QED  BY <1>6, <1>8, <1>9 DEF ClientInv

LEMMA SendKeepsClientInv ==
  ASSUME RunInv, ClientInv, Send
  PROVE  ClientInv'
<1>1. /\ pc = "send" /\ sent < Len(snapshot) /\ sent' = sent + 1
      /\ delivered' = Append(delivered, snapshot[sent + 1])
      /\ UNCHANGED <<plan, backend, at, writing, stored>>
      /\ UNCHANGED <<pc, told, snapshot, gone>>
  BY DEF Send, At, case, trail
<1>2. (Completed <=> Completed') /\ (InOrder <=> InOrder') /\ Feed' = Feed
  BY <1>1 DEF Completed, InOrder, Feed, Rank
<1>3. /\ snapshot \in Seq(Event) /\ delivered \in Seq(Event) /\ sent \in Nat
      /\ Len(snapshot) \in Nat /\ sent + 1 \in DOMAIN snapshot
      /\ sent = Len(delivered)
  BY <1>1 DEF ClientInv, ClientType, Sending
<1>4. /\ delivered' \in Seq(Event) /\ Len(delivered') = sent + 1 /\ delivered' # <<>>
      /\ delivered'[sent + 1] = snapshot[sent + 1]
  BY <1>1, <1>3
<1>5. ClientType'
  BY <1>1, <1>3, <1>4 DEF ClientInv, ClientType
<1>6. Sending'
  BY <1>1, <1>2, <1>3, <1>4 DEF ClientInv, Sending
<1>7. Closing'
  BY <1>1, <1>2 DEF ClientInv, Closing
<1>8. ASSUME NEW f \in stored, f.by = "finalize", sent + 1 = Cardinality(stored)
      PROVE  snapshot[sent + 1] = f
  <2>1. Rows(stored) /\ Cardinality(stored) \in Nat
    BY FS_CardinalityType DEF RunInv, RunType, Rows
  <2>2. Len(snapshot) = Cardinality(stored)
    BY <1>1, <1>3, <1>8, <2>1 DEF ClientInv, Sending
  <2>3. snapshot = FeedIn(stored)
    BY <2>2, FeedIsFeedIn DEF ClientInv, Sending
  <2>4. \A r \in stored : r.ts <= f.ts
    BY <1>8 DEF RunInv, FinalizeLast
  <2>. QED  BY <1>8, <2>1, <2>3, <2>4, LatestIsLast
<1>9. SentLast'
  BY <1>1, <1>4, <1>8 DEF SentLast
<1>. QED  BY <1>5, <1>6, <1>7, <1>9 DEF ClientInv

LEMMA FinishedKeepsClientInv ==
  ASSUME ClientInv, Finished
  PROVE  ClientInv'
<1>1. /\ UNCHANGED <<plan, backend, at, writing, stored>> /\ told = "completed"
      /\ UNCHANGED <<told, snapshot, sent, delivered, gone>>
      /\ pc' = IF sent = Cardinality(stored) THEN "closed" ELSE "pause"
  BY DEF Finished, SentAll, At, case, trail
<1>2. (Completed <=> Completed') /\ (InOrder <=> InOrder') /\ Feed' = Feed
  BY <1>1 DEF Completed, InOrder, Feed, Rank
<1>3. ClientType'
  BY <1>1 DEF ClientInv, ClientType
<1>4. Sending'
  BY <1>1, <1>2 DEF ClientInv, Sending
<1>5. Closing' /\ SentLast'
  BY <1>1, <1>2 DEF ClientInv, Closing, SentLast
<1>. QED  BY <1>3, <1>4, <1>5 DEF ClientInv

LEMMA ClientStep == RunInv /\ RunInv' /\ ClientInv /\ [Next]_vars => ClientInv'
<1>. SUFFICES ASSUME RunInv, RunInv', ClientInv, [Next]_vars PROVE ClientInv'
  OBVIOUS
<1>1. CASE Run
  BY <1>1, RunAddsRows, RunKeepsClientInv DEF Run, RunBegins, SuperstepEnds, RunFails, Emit,
                                              Insert, Lose
<1>2. CASE Poll
  BY <1>2, PollKeepsClientInv
<1>3. CASE Send
  BY <1>3, SendKeepsClientInv
<1>4. CASE Finished
  BY <1>4, FinishedKeepsClientInv
<1>5. CASE \/ Connect \/ Opened \/ AskStatus \/ CaseNotFound \/ NotFinished \/ Pause
           \/ ReadFails \/ Disconnect \/ Stopped \/ UNCHANGED vars
  <2>1. /\ UNCHANGED <<case, trail>> /\ UNCHANGED <<snapshot, sent, delivered>>
        /\ told' \in {told, Status} /\ (pc' = "closed" => pc = "closed")
    BY <1>5 DEF Connect, Opened, AskStatus, CaseNotFound, NotFinished, Pause, ReadFails,
                Disconnect, Stopped, At, vars, stream
  <2>2. ClientType'
    BY <1>5 DEF Connect, Opened, AskStatus, CaseNotFound, NotFinished, Pause, ReadFails,
                Disconnect, Stopped, At, vars, stream, Status, ClientInv, ClientType
  <2>. QED  BY <2>1, <2>2, WaitingKeepsClientInv
<1>. QED  BY <1>1, <1>2, <1>3, <1>4, <1>5 DEF Next, Generator

LEMMA RunOrStill == [Next]_vars => [Run]_<<case, trail>>
BY DEF Next, Connect, Generator, Opened, Poll, Send, AskStatus, CaseNotFound, NotFinished,
       Finished, Pause, ReadFails, Disconnect, Stopped, At, vars

LEMMA AlwaysStreamInv == Spec => [](RunInv /\ ClientInv)
<1>1. RunInv /\ ClientInv /\ [Next]_vars => (RunInv /\ ClientInv)'
  BY RunStep, ClientStep, RunOrStill
<1>. QED  BY <1>1, RunInit, ClientInit, PTL DEF Spec

(* An event is stored once, with one timestamp, and never while it is      *)
(* still being written, for any plans, failures and clients.               *)
THEOREM TypeCorrect == Spec => []TypeOK
<1>1. RunInv /\ ClientInv => TypeOK
  BY DEF RunInv, RunType, ClientInv, ClientType, TypeOK
<1>. QED  BY <1>1, AlwaysStreamInv, PTL

(* A client whose stream was closed was sent the event of finalize last,   *)
(* if the sink has it, in whatever order the sink stored the others.       *)
THEOREM ClosedWithLastEventHolds == Spec => []ClosedWithLastEvent
<1>1. RunInv /\ ClientInv => ClosedWithLastEvent
  BY DEF ClientInv, Closing, SentLast, ClosedWithLastEvent
<1>. QED  BY <1>1, AlwaysStreamInv, PTL

(***************************************************************************)
(* The stream implements the feed.                                         *)
(***************************************************************************)
LEMMA FeedInit == Init => FeedOfCase!Init
<1>. SUFFICES ASSUME Init PROVE FeedOfCase!Init
  OBVIOUS
<1>1. Rows(stored) /\ Cardinality(stored) = 0
  BY FS_EmptySet DEF Init, Rows
<1>2. Feed = <<>>
  BY <1>1, FeedRows, FeedIsFeedIn
<1>3. Completed = FALSE
  BY PlanFacts DEF Init, Completed
<1>4. InOrder \in BOOLEAN /\ (pc = "closed") = FALSE /\ delivered = <<>>
  BY DEF Init, InOrder
<1>. QED  BY <1>2, <1>3, <1>4 DEF FeedOfCase!Init

FeedVars == <<InOrder, Feed, Completed, delivered, pc = "closed">>

(* Rows are published, the case completes, or nothing of the feed changes. *)
LEMMA RunFeeds ==
  ASSUME RunInv, RunInv', Run, UNCHANGED stream
  PROVE  FeedOfCase!Publish \/ FeedOfCase!Complete \/ UNCHANGED FeedVars
<1>1. RowsAdded
  BY RunAddsRows
<1>2. UNCHANGED <<plan, backend, pc, delivered>>
  BY DEF Run, RunBegins, SuperstepEnds, RunFails, Emit, Insert, Lose, case, trail, stream
<1>3. InOrder' = InOrder /\ (pc = "closed")' = (pc = "closed") /\ delivered' = delivered
  BY <1>2 DEF InOrder
<1>4. Feed = FeedIn(stored) /\ Feed' = FeedIn(stored')
  BY FeedIsFeedIn DEF Feed, FeedIn, Rank, RankIn
<1>5. Rows(stored) /\ Rows(stored')
  BY <1>1 DEF RowsAdded, Rows
<1>6. CASE stored' = stored
  <2>1. Feed' = Feed
    BY <1>4, <1>6
  <2>2. CASE Completed' = Completed
    BY <1>3, <2>1, <2>2 DEF FeedVars
  <2>3. CASE Completed' # Completed
    <3>1. ~Completed /\ Completed' = TRUE
      BY <1>1, <2>3 DEF RowsAdded, Completed
    <3>. QED  BY <1>3, <2>1, <3>1 DEF FeedOfCase!Complete
  <2>. QED  BY <2>2, <2>3
<1>7. CASE stored' # stored
  <2>1. ~Completed
    BY <1>1, <1>7 DEF RowsAdded
  <2>2. UNCHANGED at
    BY <1>7 DEF Run, RunBegins, SuperstepEnds, RunFails, Emit, Insert, Lose, case, trail
  <2>3. Completed' = Completed
    BY <1>2, <2>2 DEF Completed
  <2>4. Len(Feed') > Len(Feed)
    <3>1. /\ Cardinality(stored) <= Cardinality(stored')
          /\ Cardinality(stored') # Cardinality(stored)
      BY <1>1, <1>5, <1>7, FS_Subset DEF RowsAdded, Rows
    <3>. QED  BY <1>4, <1>5, <3>1, FeedRows
  <2>5. InOrder => FeedOfCase!IsPrefix(Feed, Feed')
    <3>1. SUFFICES ASSUME InOrder PROVE FeedOfCase!IsPrefix(Feed, Feed')
      OBVIOUS
    <3>2. \A i \in 1..Cardinality(stored) : i \in 1..Cardinality(stored') /\ Feed'[i] = Feed[i]
      BY <1>1, <1>4, <1>5, <3>1, FeedGrows DEF RowsAdded
    <3>3. /\ Feed \in Seq(stored) /\ Len(Feed) = Cardinality(stored)
          /\ Feed' \in Seq(stored') /\ Len(Feed) \in Nat /\ Len(Feed') \in Nat
      BY <1>4, <1>5, FeedRows
    <3>4. SubSeq(Feed, 1, Len(Feed)) = SubSeq(Feed', 1, Len(Feed))
      BY <3>2, <3>3, <2>4
    <3>. QED  BY <2>4, <3>3, <3>4 DEF FeedOfCase!IsPrefix
  <2>. QED  BY <1>3, <2>1, <2>3, <2>4, <2>5 DEF FeedOfCase!Publish
<1>. QED  BY <1>6, <1>7

LEMMA SendDelivers ==
  ASSUME RunInv, ClientInv, Send
  PROVE  FeedOfCase!Deliver
<1>1. /\ pc = "send" /\ sent < Len(snapshot) /\ UNCHANGED <<plan, backend, at, stored, pc>>
      /\ delivered' = Append(delivered, snapshot[sent + 1])
  BY DEF Send, At, case, trail
<1>2. /\ InOrder' = InOrder /\ Completed' = Completed /\ Feed' = Feed
      /\ (pc = "closed")' = (pc = "closed") /\ ~(pc = "closed")
  BY <1>1 DEF InOrder, Completed, Feed, Rank
<1>3. Rows(stored)
  BY DEF RunInv, RunType, Rows
<1>4. /\ Feed = FeedIn(stored) /\ DOMAIN Feed = 1..Cardinality(stored)
      /\ Len(Feed) = Cardinality(stored) /\ Cardinality(stored) \in Nat
  BY <1>3, FeedRows, FeedIsFeedIn
<1>5. /\ sent \in Nat /\ sent = Len(delivered) /\ sent + 1 \in DOMAIN snapshot
      /\ Len(snapshot) <= Cardinality(stored) /\ Len(snapshot) \in Nat
  BY <1>1 DEF ClientInv, ClientType, Sending
<1>6. sent + 1 \in DOMAIN Feed /\ Len(delivered) < Len(Feed)
  BY <1>1, <1>4, <1>5
<1>7. \E i \in DOMAIN Feed : /\ delivered' = Append(delivered, Feed[i])
                             /\ InOrder => i = Len(delivered) + 1
  <2>1. CASE InOrder
    <3>1. snapshot[sent + 1] = Feed[sent + 1]
      BY <2>1, <1>5 DEF ClientInv, Sending
    <3>. QED  BY <3>1, <1>1, <1>5, <1>6
  <2>2. CASE ~InOrder
    <3>1. snapshot[sent + 1] \in stored
      BY <1>5 DEF ClientInv, Sending
    <3>2. /\ RankIn(stored, snapshot[sent + 1]) \in DOMAIN Feed
          /\ Feed[RankIn(stored, snapshot[sent + 1])] = snapshot[sent + 1]
      BY <3>1, <1>3, <1>4, RankType, FeedRows
    <3>. QED  BY <3>2, <2>2, <1>1
  <2>. QED  BY <2>1, <2>2
<1>. QED  BY <1>2, <1>6, <1>7 DEF FeedOfCase!Deliver

LEMMA FinishedCloses ==
  ASSUME RunInv, ClientInv, Finished
  PROVE  FeedOfCase!Close \/ UNCHANGED FeedVars
<1>1. /\ pc = "told" /\ told = "completed" /\ UNCHANGED <<plan, backend, at, stored, delivered>>
      /\ \/ pc' = "closed" /\ sent = Cardinality(stored)
         \/ pc' = "pause"
  BY DEF Finished, SentAll, At, case, trail
<1>2. InOrder' = InOrder /\ Completed' = Completed /\ Feed' = Feed
  BY <1>1 DEF InOrder, Completed, Feed, Rank
<1>3. CASE pc' = "closed" /\ sent = Cardinality(stored)
  <2>1. Completed /\ Len(delivered) = sent
    BY <1>1 DEF ClientInv, Closing, Sending
  <2>2. Len(Feed) = Cardinality(stored)
    BY FeedRows, FeedIsFeedIn DEF RunInv, RunType, Rows
  <2>3. ~(pc = "closed") /\ (pc = "closed")' = TRUE
    BY <1>1, <1>3
  <2>. QED  BY <1>1, <1>2, <1>3, <2>1, <2>2, <2>3 DEF FeedOfCase!Close
<1>4. CASE pc' = "pause"
  <2>1. (pc = "closed")' = (pc = "closed")
    BY <1>1, <1>4
  <2>. QED  BY <1>1, <1>2, <2>1 DEF FeedVars
<1>. QED  BY <1>1, <1>3, <1>4

LEMMA FeedStep ==
  RunInv /\ RunInv' /\ ClientInv /\ [Next]_vars => FeedOfCase!Next \/ UNCHANGED FeedVars
<1>. SUFFICES ASSUME RunInv, RunInv', ClientInv, [Next]_vars
              PROVE  FeedOfCase!Next \/ UNCHANGED FeedVars
  OBVIOUS
<1>1. CASE Run
  <2>1. UNCHANGED stream
    BY <1>1 DEF Run, RunBegins, SuperstepEnds, RunFails, Emit, Insert, Lose
  <2>. QED  BY <1>1, <2>1, RunFeeds DEF FeedOfCase!Next
<1>2. CASE Send
  BY <1>2, SendDelivers DEF FeedOfCase!Next
<1>3. CASE Finished
  BY <1>3, FinishedCloses DEF FeedOfCase!Next
<1>4. CASE \/ Connect \/ Opened \/ Poll \/ AskStatus \/ CaseNotFound \/ NotFinished \/ Pause
           \/ ReadFails \/ Disconnect \/ Stopped \/ UNCHANGED vars
  <2>1. UNCHANGED <<plan, backend, at, stored, delivered>>
    BY <1>4 DEF Connect, Opened, Poll, AskStatus, CaseNotFound, NotFinished, Pause, ReadFails,
                Disconnect, Stopped, At, vars, case, trail, stream
  <2>2. (pc = "closed")' = (pc = "closed")
    BY <1>4 DEF Connect, Opened, Poll, AskStatus, CaseNotFound, NotFinished, Pause, ReadFails,
                Disconnect, Stopped, At, vars, stream
  <2>3. InOrder' = InOrder /\ Completed' = Completed /\ Feed' = Feed
    BY <2>1 DEF InOrder, Completed, Feed, Rank
  <2>. QED  BY <2>1, <2>2, <2>3 DEF FeedVars
<1>. QED  BY <1>1, <1>2, <1>3, <1>4 DEF Next, Generator

(* Whatever fails and however the events are reordered, the stream closes  *)
(* only beside a completed case with as many events sent as are stored;    *)
(* where no two emitters run together, or the sink is the one in memory,   *)
(* every event arrives once and in its place.                              *)
THEOREM ImplementsFeedHolds == Spec => ImplementsFeed
<1>1. RunInv /\ RunInv' /\ ClientInv /\ [Next]_vars
      => [FeedOfCase!Next]_<<InOrder, Feed, Completed, delivered, pc = "closed">>
  BY FeedStep DEF FeedVars
<1>. QED  BY <1>1, FeedInit, AlwaysStreamInv, PTL DEF Spec, ImplementsFeed, FeedOfCase!Spec
===============================================================================
