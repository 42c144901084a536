--------------------------- MODULE CaseService_proofs ---------------------------
(***************************************************************************)
(* Theorems about CaseService, for any number of reviewers, clients and    *)
(* restarts.  DecisionRecordedHolds, VerdictStandsHolds and                *)
(* AcceptedByAnalystHolds need no assumption on the reviews;               *)
(* OneVerdictHolds, AcceptedDecidesHolds, StatusGoesForwardHolds,          *)
(* RepliesStandHolds and ImplementsDeskHolds are proved for reviews that   *)
(* do not overlap.                                                         *)
(***************************************************************************)
EXTENDS CaseService, TLAPS

(***************************************************************************)
(* Status requests change nothing of the case: seen without the clients,   *)
(* a step is one of the case or a restart.                                 *)
(***************************************************************************)
CaseNext == CaseStep \/ Restart

LEMMA ViewersOnlyLook == [Next]_vars => [CaseNext]_caseVars
BY DEF Next, CaseNext, vars

(***************************************************************************)
(* Types                                                                   *)
(***************************************************************************)
LEMMA InvocationsType ==
    /\ "run" \in Invocations /\ Reviewers \subseteq Invocations
    /\ \A i \in Invocations \ {"run"} : i \in Reviewers
BY DEF Invocations

LEMMA SaveType ==
    ASSUME mine \in [Invocations -> Checkpoint],
           NEW i \in Invocations, NEW c \in Checkpoint, Save(i, c)
    PROVE  /\ mine' \in [Invocations -> Checkpoint] /\ mine'[i] = c /\ saved' = c
           /\ \A j \in Invocations \ {i} : mine'[j] = mine[j]
BY DEF Save

LEMMA StoredType == \A c \in Checkpoint : c.next # "none" => c \in Stored
BY DEF Checkpoint, NoCheckpoint

LEMMA ReturnedType ==
    ASSUME NEW i \in Invocations, mine[i] \in Checkpoint, Emitting(i)
    PROVE  /\ Returned(i) \in Stored /\ Returned(i).next \in {"finalize", "end"}
           /\ EventOf(i) \in Events
<1>1. mine[i] \in Stored
  BY StoredType DEF Emitting
<1>2. CASE mine[i].next = "human_review"
  <2>1. i \in Reviewers /\ Wants[i] \in Outcomes
    BY <1>2, ServiceAssumption DEF Emitting
  <2>. QED  BY <1>1, <1>2, <2>1 DEF Returned, EventOf, Stored, Events, Actors
<1>3. CASE mine[i].next \in {"auto_decision", "finalize"}
  BY <1>1, <1>3 DEF Returned, EventOf, Stored, Statuses, Events
<1>. QED  BY <1>2, <1>3 DEF Emitting

LEMMA TypeInit == Init => CaseTypeOK
BY ServiceAssumption
   DEF Init, CaseTypeOK, NoCheckpoint, Checkpoint, Actors, Invocations

LEMMA TypeStep == CaseTypeOK /\ [CaseNext]_caseVars => CaseTypeOK'
<1>1. SUFFICES ASSUME CaseTypeOK, [CaseNext]_caseVars PROVE CaseTypeOK'
  OBVIOUS
<1>. USE InvocationsType
<1>2. CASE UNCHANGED caseVars
  BY <1>1, <1>2 DEF caseVars, CaseTypeOK, Emitting
<1>3. CASE Submit
  BY <1>1, <1>3 DEF Submit, Become, CaseTypeOK, Emitting
<1>4. CASE RunStep
  <2>1. CASE RunBegins
    <3>1. Input \in Checkpoint
      BY DEF Input, NoCheckpoint, Checkpoint, Stored, Statuses, Actors
    <3>. QED  BY <1>1, <2>1, <3>1 DEF RunBegins, Become, Save, CaseTypeOK, Emitting
  <2>2. ASSUME NEW c \in Stored, Save("run", c), phase["run"] = "running",
               UNCHANGED <<phase, answer, trail, restarts>>
        PROVE  CaseTypeOK'
    BY <1>1, <2>2 DEF Save, CaseTypeOK, Emitting, Checkpoint
  <2>3. CASE Intake \/ Decides \/ Escalates
    <3>1. /\ phase["run"] = "running" /\ UNCHANGED <<phase, answer, trail, restarts>>
          /\ mine["run"].next = "work"
      BY <2>3 DEF Intake, Decides, Escalates, Executing
    <3>2. mine["run"] \in Stored
      <4>1. mine["run"] \in Checkpoint
        BY <1>1 DEF CaseTypeOK
      <4>. QED  BY <3>1, <4>1, StoredType
    <3>3. CASE Intake
      BY <2>2, <3>1, <3>2, <3>3 DEF Intake, Stored, Statuses
    <3>4. CASE Decides
      BY <2>2, <3>1, <3>2, <3>4 DEF Decides, Stored, Actors
    <3>5. CASE Escalates
      BY <2>2, <3>1, <3>2, <3>5 DEF Escalates, Stored, Statuses, Actors
    <3>. QED  BY <2>3, <3>3, <3>4, <3>5
  <2>5. CASE RunFails
    BY <1>1, <2>5 DEF RunFails, Executing, Become, CaseTypeOK, Emitting
  <2>6. CASE Interrupts
    <3>1. mine["run"] \in Stored
      BY <1>1, <2>6, StoredType DEF Interrupts, Executing, CaseTypeOK
    <3>2. saved' \in Checkpoint
      BY <2>6, <3>1 DEF Interrupts, Stored, Checkpoint
    <3>. QED  BY <1>1, <2>6, <3>2 DEF Interrupts, Become, CaseTypeOK, Emitting
  <2>7. CASE RunEnds
    BY <1>1, <2>7 DEF RunEnds, Executing, Become, CaseTypeOK, Emitting
  <2>. QED  BY <1>4, <2>1, <2>3, <2>5, <2>6, <2>7 DEF RunStep
<1>5. CASE Restart
  BY <1>1, <1>5, ServiceAssumption DEF Restart, CaseTypeOK, Emitting
<1>6. ASSUME NEW r \in Reviewers, Asks(r) PROVE CaseTypeOK'
  BY <1>1, <1>6
  DEF Asks, ReviewRefused, ReviewChecked, MayAsk, Refusal, Become, CaseTypeOK, Emitting
<1>7. ASSUME NEW r \in Reviewers, ReviewStep(r) PROVE CaseTypeOK'
  BY <1>1, <1>7
  DEF ReviewStep, ReviewLoads, ReviewAnswered, Executing, Become, CaseTypeOK, Emitting
<1>8. ASSUME NEW i \in Invocations, NodeStep(i) PROVE CaseTypeOK'
  <2>1. CASE NodeEmits(i)
    BY <1>1, <2>1, ReturnedType DEF NodeEmits, Become, CaseTypeOK, Emitting
  <2>2. CASE NodeReturns(i)
    <3>1. Returned(i) \in Checkpoint
      BY <1>1, <2>2, ReturnedType DEF NodeReturns, CaseTypeOK, Checkpoint
    <3>. QED  BY <1>1, <2>2, <3>1 DEF NodeReturns, Become, Save, CaseTypeOK, Emitting
  <2>. QED  BY <1>8, <2>1, <2>2 DEF NodeStep
<1>. QED  BY <1>1, <1>2, <1>3, <1>4, <1>5, <1>6, <1>7, <1>8 DEF CaseNext, CaseStep

LEMMA ServiceTypeInit == Init => TypeOK
BY TypeInit DEF Init, TypeOK, NotAsking, NoReply, Answer, Answers

LEMMA ServiceTypeStep == TypeOK /\ [Next]_vars => TypeOK'
<1>1. SUFFICES ASSUME TypeOK, [Next]_vars PROVE TypeOK'
  OBVIOUS
<1>2. CaseTypeOK'
  BY <1>1, TypeStep, ViewersOnlyLook DEF TypeOK
<1>3. Answer(saved.status, saved.asked) \in Answers
  <2>1. saved.status \in Statuses \cup {"none"} /\ saved.asked \in BOOLEAN
    <3>1. saved = NoCheckpoint \/ saved \in Stored
      BY <1>1 DEF TypeOK, CaseTypeOK, Checkpoint
    <3>2. CASE saved = NoCheckpoint
      BY <3>2 DEF NoCheckpoint
    <3>3. CASE saved \in Stored
      <4>1. saved.status \in Statuses /\ saved.asked \in BOOLEAN
        BY <3>3, Zenon DEF Stored
      <4>. QED  BY <4>1
    <3>. QED  BY <3>1, <3>2, <3>3
  <2>. QED  BY <2>1, Zenon DEF Answer, Answers
<1>4. looked' \in [Viewers -> Answers \cup {NotAsking}] /\ reply' \in [Viewers -> Answers]
  <2>1. CASE UNCHANGED <<looked, reply>>
    BY <1>1, <2>1 DEF TypeOK
  <2>2. CASE Restart
    BY <1>1, <2>2 DEF Restart, TypeOK
  <2>3. ASSUME NEW v \in Viewers, StatusReads(v)
        PROVE  looked' \in [Viewers -> Answers \cup {NotAsking}] /\ reply' = reply
    BY <1>1, <1>3, <2>3 DEF StatusReads, TypeOK
  <2>4. ASSUME NEW v \in Viewers, StatusAnswers(v)
        PROVE  /\ looked' \in [Viewers -> Answers \cup {NotAsking}]
               /\ reply' \in [Viewers -> Answers]
    <3>1. /\ looked[v] \in Answers
          /\ \A tracked \in BOOLEAN :
                Answer(IF tracked THEN "received" ELSE "404", FALSE) \in Answers
      BY <1>1, <2>4 DEF StatusAnswers, TypeOK, Answer, Answers, Statuses
    <3>. QED  BY <1>1, <2>4, <3>1 DEF StatusAnswers, TypeOK, Tracked
  <2>. QED  BY <1>1, <2>1, <2>2, <2>3, <2>4 DEF Next, ViewerStep, vars, TypeOK
<1>. QED  BY <1>2, <1>4 DEF TypeOK

(* Every variable keeps its type: the checkpoint and the copies of the     *)
(* invocations, and what the clients were answered.                        *)
THEOREM ServiceTypeCorrect == Spec => []TypeOK
BY ServiceTypeInit, ServiceTypeStep, PTL DEF Spec

(***************************************************************************)
(* The trail is ahead of every copy of the channels, not only of the       *)
(* latest checkpoint: an invocation may have loaded its copy long ago and  *)
(* store it again.                                                         *)
(***************************************************************************)
Announced(c) ==
    \E e \in trail : /\ e.node \in {"auto_decision", "human_review"}
                     /\ e.outcome = c.outcome /\ e.by = c.by

Closed(c) == [node |-> "finalize", outcome |-> c.outcome, by |-> c.by] \in trail

Recorded(c) ==
    /\ c.outcome \in Outcomes => c.next \in {"auto_decision", "finalize", "end"}
    /\ c.next \in {"finalize", "end"} => Announced(c)
    /\ c.next = "end" => Closed(c)
    /\ c.status = "completed" => c.next = "end"

RecordInv ==
    /\ CaseTypeOK
    /\ Recorded(saved)
    /\ \A i \in Invocations : Recorded(mine[i])
    /\ \A i \in Invocations : phase[i] = "emitted" => EventOf(i) \in trail

LEMMA RecordInit == Init => RecordInv
BY TypeInit DEF Init, RecordInv, Recorded, NoCheckpoint, Outcomes

(* What a node that has written its event returns is recorded. *)
LEMMA ReturnedRecorded ==
    ASSUME NEW i \in Invocations, mine[i] \in Checkpoint, Emitting(i),
           Recorded(mine[i]), EventOf(i) \in trail
    PROVE  Recorded(Returned(i))
<1>1. mine[i] \in Stored
  BY StoredType DEF Emitting
<1>2. CASE mine[i].next = "auto_decision"
  <2>1. /\ EventOf(i).node = "auto_decision" /\ EventOf(i).outcome = Returned(i).outcome
        /\ EventOf(i).by = Returned(i).by
    BY <1>1, <1>2 DEF EventOf
  <2>2. Returned(i).next = "finalize" /\ Returned(i).status = mine[i].status
    BY <1>1, <1>2 DEF Returned, Stored
  <2>. QED  BY <1>2, <2>1, <2>2 DEF Recorded, Announced
<1>3. CASE mine[i].next = "human_review"
  <2>1. /\ EventOf(i).node = "human_review" /\ EventOf(i).outcome = Returned(i).outcome
        /\ EventOf(i).by = Returned(i).by
    BY <1>1, <1>3 DEF EventOf
  <2>2. Returned(i).next = "finalize" /\ Returned(i).status = mine[i].status
    BY <1>1, <1>3 DEF Returned, Stored
  <2>. QED  BY <1>3, <2>1, <2>2 DEF Recorded, Announced
<1>4. CASE mine[i].next = "finalize"
  <2>1. EventOf(i) = [node |-> "finalize", outcome |-> Returned(i).outcome,
                      by |-> Returned(i).by]
    BY <1>4 DEF EventOf
  <2>2. /\ Returned(i).next = "end" /\ Returned(i).outcome = mine[i].outcome
        /\ Returned(i).by = mine[i].by
    BY <1>1, <1>4 DEF Returned, Stored
  <2>. QED  BY <1>4, <2>1, <2>2 DEF Recorded, Announced, Closed
<1>. QED  BY <1>2, <1>3, <1>4 DEF Emitting

LEMMA RecordStep == RecordInv /\ [CaseNext]_caseVars => RecordInv'
<1>1. SUFFICES ASSUME RecordInv, [CaseNext]_caseVars PROVE RecordInv'
  OBVIOUS
<1>2. CaseTypeOK'
  BY <1>1, TypeStep DEF RecordInv
<1>. USE InvocationsType
(* Steps that neither store nor announce anything. *)
<1>3. ASSUME UNCHANGED <<saved, mine, trail>>,
             \A i \in Invocations : phase'[i] = "emitted" => phase[i] = "emitted"
      PROVE  RecordInv'
  BY <1>1, <1>2, <1>3 DEF RecordInv, Recorded, Announced, Closed, EventOf, Returned
(* Steps that store one more copy, in the hands of i. *)
<1>4. ASSUME NEW i \in Invocations, NEW c, Recorded(c),
             Save(i, c), UNCHANGED trail, phase'[i] # "emitted",
             \A j \in Invocations : phase'[j] = "emitted" => phase[j] = "emitted"
      PROVE  RecordInv'
  <2>1. /\ saved' = c /\ mine'[i] = c
        /\ \A j \in Invocations \ {i} : mine'[j] = mine[j]
    BY <1>1, <1>4 DEF Save, RecordInv, CaseTypeOK
  <2>2. Recorded(saved)' /\ \A j \in Invocations : Recorded(mine[j])'
    BY <1>1, <1>4, <2>1 DEF RecordInv, Recorded, Announced, Closed
  <2>3. \A j \in Invocations : phase'[j] = "emitted" => (EventOf(j) \in trail)'
    BY <1>1, <1>4, <2>1 DEF RecordInv, EventOf, Returned
  <2>. QED  BY <1>2, <2>2, <2>3 DEF RecordInv
<1>5. CASE UNCHANGED caseVars
  BY <1>3, <1>5 DEF caseVars
<1>6. CASE Submit
  BY <1>1, <1>3, <1>6 DEF Submit, Become, RecordInv, CaseTypeOK
<1>7. CASE RunStep
  <2>1. CASE RunBegins
    <3>1. Recorded(Input)
      BY DEF Recorded, Input, NoCheckpoint, Outcomes
    <3>. QED  BY <1>1, <1>4, <2>1, <3>1 DEF RunBegins, Become, RecordInv, CaseTypeOK
  <2>2. CASE Intake \/ Decides \/ Escalates
    <3>1. mine["run"] \in Stored /\ mine["run"].next = "work"
      <4>1. mine["run"].next = "work"
        BY <2>2 DEF Intake, Decides, Escalates, Executing
      <4>2. mine["run"] \in Checkpoint
        BY <1>1 DEF RecordInv, CaseTypeOK
      <4>. QED  BY <4>1, <4>2, StoredType
    <3>2. Recorded(mine["run"])
      BY <1>1 DEF RecordInv
    <3>3. \A c \in Stored : /\ c.next \in {"work", "auto_decision", "human_review"}
                            /\ c.outcome \in Outcomes => c.next = "auto_decision"
                            /\ c.status # "completed"
                            => Recorded(c)
      BY DEF Recorded
    <3>4. mine["run"].status # "completed" /\ mine["run"].outcome \notin Outcomes
      BY <3>1, <3>2 DEF Recorded
    <3>5. ASSUME Intake PROVE \E c : Save("run", c) /\ Recorded(c)
      <4>1. PICK c \in Stored : /\ Save("run", c) /\ c.next = "work"
                              /\ c.outcome \notin Outcomes /\ c.status # "completed"
        BY <3>1, <3>4, <3>5 DEF Intake, Stored, Statuses
      <4>. QED  BY <3>3, <4>1
    <3>6. ASSUME Decides PROVE \E c : Save("run", c) /\ Recorded(c)
      <4>1. PICK o \in Outcomes :
               Save("run", [mine["run"] EXCEPT !.next = "auto_decision", !.outcome = o,
                                               !.by = "system"])
        BY <3>6 DEF Decides
      <4>. DEFINE c == [mine["run"] EXCEPT !.next = "auto_decision", !.outcome = o,
                                           !.by = "system"]
      <4>2. c \in Stored /\ c.next = "auto_decision" /\ c.status # "completed"
        BY <3>1, <3>4 DEF Stored, Actors
      <4>. QED  BY <3>3, <4>1, <4>2
    <3>7. ASSUME Escalates PROVE \E c : Save("run", c) /\ Recorded(c)
      <4>. DEFINE c == [mine["run"] EXCEPT !.next = "human_review", !.outcome = "escalate",
                                           !.status = "awaiting_human_review",
                                           !.by = "system"]
      <4>1. Save("run", c)
        BY <3>7 DEF Escalates
      <4>2. /\ c \in Stored /\ c.next = "human_review" /\ c.outcome = "escalate"
            /\ c.status # "completed"
        BY <3>1 DEF Stored, Statuses, Actors
      <4>. QED  BY <3>3, <4>1, <4>2 DEF Outcomes
    <3>8. PICK c : Save("run", c) /\ Recorded(c)
      BY <2>2, <3>5, <3>6, <3>7
    <3>. QED  BY <1>4, <2>2, <3>8 DEF Intake, Decides, Escalates, Executing
  <2>3. CASE Interrupts
    <3>1. mine["run"] \in Stored
      BY <1>1, <2>3, StoredType DEF Interrupts, Executing, RecordInv, CaseTypeOK
    <3>2. Recorded(saved)'
      BY <1>1, <2>3, <3>1 DEF Interrupts, Executing, RecordInv, Recorded, Stored
    <3>3. \A i \in Invocations : Recorded(mine[i])'
      BY <1>1, <2>3 DEF Interrupts, RecordInv, Recorded, Announced, Closed
    <3>4. \A i \in Invocations : phase'[i] = "emitted" => (EventOf(i) \in trail)'
      BY <1>1, <2>3 DEF Interrupts, Become, RecordInv, CaseTypeOK, EventOf, Returned
    <3>. QED  BY <1>2, <3>2, <3>3, <3>4 DEF RecordInv
  <2>4. CASE RunFails \/ RunEnds
    BY <1>1, <1>3, <2>4 DEF RunFails, RunEnds, Become, RecordInv, CaseTypeOK
  <2>. QED  BY <1>7, <2>1, <2>2, <2>3, <2>4 DEF RunStep
<1>8. CASE Restart
  BY <1>3, <1>8 DEF Restart
<1>9. ASSUME NEW r \in Reviewers, Asks(r) PROVE RecordInv'
  BY <1>1, <1>3, <1>9 DEF Asks, ReviewRefused, ReviewChecked, MayAsk, Become, RecordInv, CaseTypeOK
<1>10. ASSUME NEW r \in Reviewers, ReviewStep(r) PROVE RecordInv'
  <2>1. CASE ReviewLoads(r)
    <3>1. mine' = [mine EXCEPT ![r] = saved] /\ UNCHANGED <<saved, trail>>
      BY <2>1 DEF ReviewLoads
    <3>2. /\ phase'[r] = "running"
          /\ \A i \in Invocations \ {r} : phase'[i] = phase[i] /\ mine'[i] = mine[i]
      BY <1>1, <2>1 DEF ReviewLoads, Become, RecordInv, CaseTypeOK
    <3>3. \A i \in Invocations : Recorded(mine[i])'
      BY <1>1, <3>1 DEF RecordInv, CaseTypeOK, Recorded, Announced, Closed
    <3>4. \A i \in Invocations : phase'[i] = "emitted" => (EventOf(i) \in trail)'
      BY <1>1, <3>1, <3>2 DEF RecordInv, EventOf, Returned
    <3>5. Recorded(saved)'
      BY <1>1, <3>1 DEF RecordInv, Recorded, Announced, Closed
    <3>. QED  BY <1>2, <3>3, <3>4, <3>5 DEF RecordInv
  <2>2. CASE ReviewAnswered(r)
    BY <1>1, <1>3, <2>2 DEF ReviewAnswered, Become, RecordInv, CaseTypeOK
  <2>. QED  BY <1>10, <2>1, <2>2 DEF ReviewStep
<1>11. ASSUME NEW i \in Invocations, NodeStep(i) PROVE RecordInv'
  <2>1. CASE NodeEmits(i)
    <3>1. trail \subseteq trail' /\ EventOf(i) \in trail' /\ UNCHANGED <<saved, mine>>
      BY <2>1 DEF NodeEmits
    <3>2. \A j \in Invocations \ {i} : phase'[j] = phase[j]
      BY <1>1, <2>1 DEF NodeEmits, Become, RecordInv, CaseTypeOK
    <3>3. Recorded(saved)' /\ \A j \in Invocations : Recorded(mine[j])'
      BY <1>1, <3>1 DEF RecordInv, Recorded, Announced, Closed
    <3>4. \A j \in Invocations : phase'[j] = "emitted" => (EventOf(j) \in trail)'
      BY <1>1, <3>1, <3>2 DEF RecordInv, EventOf, Returned
    <3>. QED  BY <1>2, <3>3, <3>4 DEF RecordInv
  <2>2. CASE NodeReturns(i)
    <3>1. Recorded(Returned(i))
      BY <1>1, <2>2, ReturnedRecorded DEF NodeReturns, RecordInv, CaseTypeOK
    <3>. QED  BY <1>1, <1>4, <2>2, <3>1 DEF NodeReturns, Become, RecordInv, CaseTypeOK
  <2>. QED  BY <1>11, <2>1, <2>2 DEF NodeStep
<1>. QED  BY <1>1, <1>5, <1>6, <1>7, <1>8, <1>9, <1>10, <1>11 DEF CaseNext, CaseStep

(* Whatever overlaps and whenever the process restarts, the trail holds    *)
(* the event of every verdict that is stored and of every completed case.  *)
THEOREM DecisionRecordedHolds == Spec => []DecisionRecorded
<1>1. RecordInv /\ [Next]_vars => RecordInv'
  BY RecordStep, ViewersOnlyLook
<1>2. RecordInv => DecisionRecorded
  BY DEF RecordInv, Recorded, Announced, Closed, DecisionRecorded
<1>. QED  BY RecordInit, <1>1, <1>2, PTL DEF Spec

(***************************************************************************)
(* Reviews that do not overlap.  At most one invocation is open, and its   *)
(* copy of the channels is the latest checkpoint: the run's before the     *)
(* question is asked, one reviewer's after it.                             *)
(***************************************************************************)
RunOpen == phase["run"] \in {"idle", "accepted", "running", "emitted"}

SoloRun ==
    /\ phase["run"] \in {"idle", "accepted"} => saved = NoCheckpoint
    /\ phase["run"] \in {"running", "emitted"} => mine["run"] = saved
    /\ RunOpen => ~saved.asked /\ \A r \in Reviewers : ~Open(r)

SoloReview ==
    /\ \A q, r \in Reviewers : Open(q) /\ Open(r) => q = r
    /\ \A r \in Reviewers : phase[r] = "checked" => saved.asked
    /\ \A r \in Reviewers : phase[r] \in {"running", "emitted"} =>
          /\ mine[r] = saved
          /\ saved.next \in {"human_review", "finalize", "end"}
          /\ saved.next # "human_review" => saved.by = r /\ saved.outcome = Wants[r]

SoloCheckpoint ==
    /\ saved.asked => saved.next = "human_review"
    /\ saved.next \in {"none", "work", "human_review"} => saved.outcome \notin Outcomes
    /\ saved.next = "end" <=> saved.status = "completed"

SoloInv == CaseTypeOK /\ SoloRun /\ SoloReview /\ SoloCheckpoint /\ AcceptedDecides

LEMMA SoloInit == Init => SoloInv
BY TypeInit, ServiceAssumption
   DEF Init, SoloInv, SoloRun, RunOpen, SoloReview, SoloCheckpoint, AcceptedDecides,
       NoCheckpoint, Open, Outcomes, Invocations

(* A step that stores a checkpoint from a copy that is the latest one, and *)
(* is not yet completed, does not disturb a verdict.                       *)
LEMMA SoloStep == ~Overlap /\ SoloInv /\ [CaseNext]_caseVars => SoloInv' /\ [VerdictStep]_saved
<1>1. SUFFICES ASSUME ~Overlap, SoloInv, [CaseNext]_caseVars PROVE SoloInv' /\ VerdictStep
  OBVIOUS
<1>2. CaseTypeOK /\ CaseTypeOK'
  BY <1>1, TypeStep DEF SoloInv
<1>. USE InvocationsType, ServiceAssumption
(* Steps that change neither the checkpoint nor any copy. *)
<1>3. ASSUME UNCHANGED <<saved, mine>>, SoloRun', SoloReview', AcceptedDecides'
      PROVE  SoloInv' /\ VerdictStep
  BY <1>1, <1>2, <1>3 DEF SoloInv, SoloCheckpoint, VerdictStep
(* Steps of the run that store the checkpoint c. *)
<1>4. ASSUME NEW c, RunOpen, saved.outcome \notin Outcomes, saved.status # "completed",
             mine["run"]' = c, saved' = c, phase["run"]' = "running",
             \A r \in Reviewers : phase'[r] = phase[r], UNCHANGED answer,
             ~c.asked, c.next \in {"work", "human_review"} => c.outcome \notin Outcomes,
             c.next \notin {"none", "end"}, c.status # "completed"
      PROVE  SoloInv' /\ VerdictStep
  <2>1. \A r \in Reviewers : ~Open(r) /\ ~Open(r)' /\ answer[r] # 200
    BY <1>1, <1>4 DEF SoloInv, SoloRun, Open, AcceptedDecides
  <2>2. SoloRun' /\ SoloReview' /\ SoloCheckpoint'
    BY <1>4, <2>1 DEF SoloRun, SoloReview, SoloCheckpoint, RunOpen, Open
  <2>3. AcceptedDecides' /\ VerdictStep
    BY <1>4, <2>1 DEF AcceptedDecides, VerdictStep
  <2>. QED  BY <1>2, <2>2, <2>3 DEF SoloInv
<1>5. CASE UNCHANGED caseVars
  BY <1>1, <1>3, <1>5
  DEF caseVars, SoloInv, SoloRun, RunOpen, SoloReview, Open, AcceptedDecides
<1>6. CASE Submit
  <2>1. /\ phase'["run"] = "accepted" /\ UNCHANGED <<saved, mine, answer>>
        /\ \A r \in Reviewers : phase'[r] = phase[r]
    BY <1>2, <1>6 DEF Submit, Become, CaseTypeOK
  <2>2. SoloRun'
    BY <1>1, <1>6, <2>1 DEF Submit, SoloInv, SoloRun, RunOpen, Open
  <2>. QED  BY <1>1, <1>3, <2>1, <2>2 DEF SoloInv, SoloReview, Open, AcceptedDecides
<1>7. CASE RunStep
  <2>1. CASE RunBegins
    <3>1. saved = NoCheckpoint /\ RunOpen
      BY <1>1, <2>1 DEF RunBegins, SoloInv, SoloRun, RunOpen
    <3>2. /\ phase'["run"] = "running" /\ \A r \in Reviewers : phase'[r] = phase[r]
          /\ mine'["run"] = Input /\ saved' = Input
      BY <1>2, <2>1 DEF RunBegins, Become, Save, CaseTypeOK
    <3>3. UNCHANGED answer
      BY <2>1 DEF RunBegins
    <3>. HIDE DEF RunOpen
    <3>. QED  BY <1>4, <3>1, <3>2, <3>3 DEF Input, NoCheckpoint, Outcomes
  <2>2. CASE Intake \/ Decides \/ Escalates
    <3>1. /\ RunOpen /\ mine["run"] = saved /\ saved.next = "work" /\ phase["run"] = "running"
          /\ UNCHANGED <<phase, answer>> /\ ~saved.asked
      BY <1>1, <2>2 DEF Intake, Decides, Escalates, Executing, SoloInv, SoloRun, RunOpen
    <3>2. saved.outcome \notin Outcomes /\ saved.status # "completed"
      BY <1>1, <3>1 DEF SoloInv, SoloCheckpoint
    <3>3. saved \in Stored
      BY <1>2, <3>1, StoredType DEF CaseTypeOK
    <3>4. \A c : Save("run", c) => mine'["run"] = c /\ saved' = c
      BY <1>2 DEF Save, CaseTypeOK
    <3>5. ASSUME Intake PROVE SoloInv' /\ VerdictStep
      <4>. DEFINE c == [saved EXCEPT !.status = "processing"]
      <4>1. mine'["run"] = c /\ saved' = c
        BY <3>1, <3>4, <3>5 DEF Intake
      <4>2. /\ c.next = "work" /\ c.outcome \notin Outcomes /\ ~c.asked
            /\ c.status # "completed"
        BY <3>1, <3>2, <3>3 DEF Stored
      <4>. HIDE DEF c
      <4>. QED  BY <1>4, <3>1, <3>2, <4>1, <4>2
    <3>6. ASSUME Decides PROVE SoloInv' /\ VerdictStep
      <4>1. PICK o \in Outcomes :
               Save("run", [saved EXCEPT !.next = "auto_decision", !.outcome = o,
                                         !.by = "system"])
        BY <3>1, <3>6 DEF Decides
      <4>. DEFINE c == [saved EXCEPT !.next = "auto_decision", !.outcome = o, !.by = "system"]
      <4>2. mine'["run"] = c /\ saved' = c
        BY <3>4, <4>1
      <4>3. c.next = "auto_decision" /\ ~c.asked /\ c.status # "completed"
        BY <3>1, <3>2, <3>3 DEF Stored
      <4>. HIDE DEF c
      <4>. QED  BY <1>4, <3>1, <3>2, <4>2, <4>3
    <3>7. ASSUME Escalates PROVE SoloInv' /\ VerdictStep
      <4>. DEFINE c == [saved EXCEPT !.next = "human_review", !.outcome = "escalate",
                                     !.status = "awaiting_human_review", !.by = "system"]
      <4>1. mine'["run"] = c /\ saved' = c
        BY <3>1, <3>4, <3>7 DEF Escalates
      <4>2. /\ c.next = "human_review" /\ c.outcome \notin Outcomes /\ ~c.asked
            /\ c.status # "completed"
        BY <3>1, <3>3 DEF Stored, Outcomes
      <4>. HIDE DEF c
      <4>. QED  BY <1>4, <3>1, <3>2, <4>1, <4>2
    <3>. QED  BY <2>2, <3>5, <3>6, <3>7
  <2>3. CASE Interrupts
    <3>1. /\ RunOpen /\ mine["run"] = saved /\ saved.next = "human_review"
          /\ UNCHANGED <<mine, answer>>
      BY <1>1, <2>3 DEF Interrupts, Executing, SoloInv, SoloRun, RunOpen
    <3>2. phase'["run"] = "ended" /\ \A r \in Reviewers : phase'[r] = phase[r]
      BY <1>2, <2>3 DEF Interrupts, Become, CaseTypeOK
    <3>3. /\ saved'.next = saved.next /\ saved'.outcome = saved.outcome
          /\ saved'.by = saved.by /\ saved'.status = saved.status
      BY <1>2, <2>3, <3>1, StoredType DEF Interrupts, CaseTypeOK, Stored
    <3>4. \A r \in Reviewers : ~Open(r) /\ ~Open(r)' /\ answer[r] # 200
      BY <1>1, <3>1, <3>2 DEF SoloInv, SoloRun, SoloCheckpoint, Open, AcceptedDecides
    <3>5. SoloRun' /\ SoloReview'
      BY <3>2, <3>4 DEF SoloRun, SoloReview, RunOpen, Open
    <3>6. SoloCheckpoint'
      BY <1>1, <3>1, <3>3 DEF SoloInv, SoloCheckpoint
    <3>7. saved.outcome \notin Outcomes
      BY <1>1, <3>1 DEF SoloInv, SoloCheckpoint
    <3>. QED  BY <1>2, <3>1, <3>4, <3>5, <3>6, <3>7 DEF SoloInv, AcceptedDecides, VerdictStep
  <2>4. CASE RunFails \/ RunEnds
    <3>1. phase'["run"] = "ended" /\ \A r \in Reviewers : phase'[r] = phase[r]
      BY <1>2, <2>4 DEF RunFails, RunEnds, Become, CaseTypeOK
    <3>2. UNCHANGED <<saved, mine, answer>>
      BY <2>4 DEF RunFails, RunEnds
    <3>. QED  BY <1>1, <1>3, <3>1, <3>2
              DEF SoloInv, SoloRun, RunOpen, SoloReview, Open, AcceptedDecides
  <2>. QED  BY <1>7, <2>1, <2>2, <2>3, <2>4 DEF RunStep
<1>8. CASE Restart
  <2>1. phase'["run"] = "ended" /\ \A r \in Reviewers : phase'[r] = "idle"
    BY <1>8 DEF Restart
  <2>2. UNCHANGED <<saved, mine, answer>>
    BY <1>8 DEF Restart
  <2>. QED  BY <1>1, <1>3, <2>1, <2>2
            DEF SoloInv, SoloRun, RunOpen, SoloReview, Open, AcceptedDecides
<1>9. ASSUME NEW r \in Reviewers, Asks(r) PROVE SoloInv' /\ VerdictStep
  <2>1. UNCHANGED <<saved, mine>> /\ phase'["run"] = phase["run"] /\ ~Open(r)
    BY <1>2, <1>9 DEF Asks, ReviewRefused, ReviewChecked, MayAsk, Become, CaseTypeOK, Open
  <2>2. \A q \in Reviewers \ {r} : phase'[q] = phase[q] /\ answer'[q] = answer[q]
    BY <1>2, <1>9 DEF Asks, ReviewRefused, ReviewChecked, MayAsk, Become, CaseTypeOK
  <2>3. \A q \in Reviewers : ~Open(q)
    BY <1>1, <1>9 DEF Asks, ReviewRefused, ReviewChecked, MayAsk
  <2>4. answer'[r] # 200 /\ ((phase'[r] = "checked" /\ saved.asked) \/ phase'[r] = phase[r])
    BY <1>2, <1>9 DEF Asks, ReviewRefused, ReviewChecked, MayAsk, Refusal, Become, CaseTypeOK
  <2>5. SoloRun'
    BY <1>1, <2>1, <2>2, <2>3, <2>4 DEF SoloInv, SoloRun, RunOpen, Open
  <2>6. SoloReview'
    BY <1>1, <2>1, <2>2, <2>3, <2>4 DEF SoloInv, SoloReview, Open
  <2>. QED  BY <1>1, <1>3, <2>1, <2>2, <2>4, <2>5, <2>6 DEF SoloInv, AcceptedDecides
<1>10. ASSUME NEW r \in Reviewers, ReviewStep(r) PROVE SoloInv' /\ VerdictStep
  <2>1. CASE ReviewLoads(r)
    <3>1. UNCHANGED <<saved, answer>> /\ mine' = [mine EXCEPT ![r] = saved]
      BY <2>1 DEF ReviewLoads
    <3>2. /\ phase'["run"] = phase["run"] /\ phase[r] = "checked" /\ phase'[r] = "running"
          /\ \A q \in Reviewers \ {r} : phase'[q] = phase[q] /\ mine'[q] = mine[q]
          /\ mine'["run"] = mine["run"] /\ mine'[r] = saved
      BY <1>2, <2>1, <3>1 DEF ReviewLoads, Become, CaseTypeOK
    <3>3. saved.next = "human_review" /\ ~RunOpen
      BY <1>1, <3>2 DEF SoloInv, SoloRun, SoloReview, SoloCheckpoint, Open
    <3>4. \A q \in Reviewers \ {r} : ~Open(q)
      BY <1>1, <3>2 DEF SoloInv, SoloReview, Open
    <3>5. SoloRun'
      BY <3>2, <3>3 DEF SoloRun, RunOpen
    <3>6. SoloReview'
      BY <3>1, <3>2, <3>3, <3>4 DEF SoloReview, Open
    <3>. QED  BY <1>1, <1>2, <3>1, <3>5, <3>6
              DEF SoloInv, SoloCheckpoint, AcceptedDecides, VerdictStep
  <2>2. CASE ReviewAnswered(r)
    <3>1. /\ UNCHANGED <<saved, mine>> /\ phase[r] = "running" /\ phase'[r] = "idle"
          /\ phase'["run"] = phase["run"]
          /\ \A q \in Reviewers \ {r} : phase'[q] = phase[q] /\ answer'[q] = answer[q]
      BY <1>2, <2>2 DEF ReviewAnswered, Executing, Become, CaseTypeOK
    <3>2. saved.next = "end" /\ saved.by = r /\ saved.outcome = Wants[r]
      BY <1>1, <2>2, <3>1 DEF ReviewAnswered, Executing, SoloInv, SoloReview
    <3>3. SoloRun' /\ SoloReview'
      BY <1>1, <3>1 DEF SoloInv, SoloRun, SoloReview, RunOpen, Open
    <3>4. AcceptedDecides'
      BY <1>1, <3>1, <3>2 DEF SoloInv, SoloCheckpoint, AcceptedDecides
    <3>. QED  BY <1>3, <3>1, <3>3, <3>4
  <2>. QED  BY <1>10, <2>1, <2>2 DEF ReviewStep
<1>11. ASSUME NEW i \in Invocations, NodeStep(i) PROVE SoloInv' /\ VerdictStep
  <2>1. CASE NodeEmits(i)
    <3>1. /\ UNCHANGED <<saved, mine, answer>> /\ phase[i] = "running" /\ phase'[i] = "emitted"
          /\ \A j \in Invocations \ {i} : phase'[j] = phase[j]
      BY <1>2, <2>1 DEF NodeEmits, Become, CaseTypeOK
    <3>2. SoloRun'
      BY <1>1, <3>1 DEF SoloInv, SoloRun, RunOpen, Open
    <3>3. SoloReview'
      BY <1>1, <3>1 DEF SoloInv, SoloReview, Open
    <3>. QED  BY <1>1, <1>3, <3>1, <3>2, <3>3 DEF SoloInv, AcceptedDecides
  <2>2. CASE NodeReturns(i)
    <3>1. /\ UNCHANGED answer /\ phase[i] = "emitted" /\ phase'[i] = "running"
          /\ \A j \in Invocations \ {i} : phase'[j] = phase[j] /\ mine'[j] = mine[j]
          /\ mine'[i] = Returned(i) /\ saved' = Returned(i)
      BY <1>2, <2>2 DEF NodeReturns, Become, Save, CaseTypeOK
    <3>2. Emitting(i) /\ mine[i] = saved
      BY <1>1, <1>2, <3>1 DEF SoloInv, SoloRun, SoloReview, CaseTypeOK
    <3>3. saved \in Stored
      BY <1>2, <3>2, StoredType DEF CaseTypeOK, Emitting
    <3>4. \A r \in Reviewers : answer[r] # 200
      BY <1>1, <3>2 DEF SoloInv, SoloCheckpoint, AcceptedDecides, Emitting
    <3>5. ~saved.asked \/ saved.next = "human_review"
      BY <1>1 DEF SoloInv, SoloCheckpoint
    <3>6. /\ saved'.next \in {"finalize", "end"} /\ ~saved'.asked
          /\ saved'.next = "end" <=> saved'.status = "completed"
      BY <1>1, <3>1, <3>2, <3>3, <3>5 DEF Returned, Emitting, Stored, SoloInv, SoloCheckpoint
    <3>7. CASE i = "run"
      <4>1. \A r \in Reviewers : ~Open(r) /\ ~Open(r)'
        BY <1>1, <3>1, <3>7 DEF SoloInv, SoloRun, RunOpen, Open
      <4>2. SoloRun' /\ SoloReview'
        BY <3>1, <3>6, <3>7, <4>1 DEF SoloRun, SoloReview, RunOpen, Open
      <4>3. saved'.outcome = saved.outcome /\ saved'.by = saved.by /\ saved.status # "completed"
        BY <1>1, <3>1, <3>2, <3>3, <3>7
        DEF Returned, Emitting, Stored, SoloInv, SoloCheckpoint
      <4>. QED  BY <1>2, <3>1, <3>4, <3>6, <4>2, <4>3
                DEF SoloInv, SoloCheckpoint, AcceptedDecides, VerdictStep
    <3>8. CASE i \in Reviewers
      <4>1. ~RunOpen /\ \A r \in Reviewers \ {i} : ~Open(r)
        BY <1>1, <3>1, <3>8 DEF SoloInv, SoloRun, SoloReview, Open
      <4>2. SoloRun'
        BY <3>1, <3>8, <4>1 DEF SoloRun, RunOpen
      <4>3. saved'.by = i /\ saved'.outcome = Wants[i]
        BY <1>1, <3>1, <3>2, <3>3, <3>8 DEF Returned, Emitting, Stored, SoloInv, SoloReview
      <4>4. SoloReview'
        BY <3>1, <3>6, <3>8, <4>1, <4>3 DEF SoloReview, Open
      <4>5. VerdictStep
        BY <1>1, <3>1, <3>2, <3>8, <4>3
        DEF SoloInv, SoloReview, SoloCheckpoint, Emitting, VerdictStep
      <4>. QED  BY <1>2, <3>1, <3>4, <3>6, <4>2, <4>4, <4>5
                DEF SoloInv, SoloCheckpoint, AcceptedDecides
    <3>. QED  BY <3>7, <3>8
  <2>. QED  BY <1>11, <2>1, <2>2 DEF NodeStep
<1>. QED  BY <1>1, <1>5, <1>6, <1>7, <1>8, <1>9, <1>10, <1>11 DEF CaseNext, CaseStep

(* As long as reviews do not overlap, a stored verdict never changes and a *)
(* completed case stays as it is, whatever restarts happen.                *)
THEOREM OneVerdictHolds ==
    ASSUME ~Overlap
    PROVE  Spec => OneVerdict
<1>1. SoloInv /\ [Next]_vars => SoloInv' /\ [VerdictStep]_saved
  BY SoloStep, ViewersOnlyLook
<1>. QED  BY SoloInit, <1>1, PTL DEF Spec, OneVerdict

(* As long as reviews do not overlap, whoever is answered 200 has decided  *)
(* the case.                                                               *)
THEOREM AcceptedDecidesHolds ==
    ASSUME ~Overlap
    PROVE  Spec => []AcceptedDecides
<1>1. SoloInv /\ [Next]_vars => SoloInv'
  BY SoloStep, ViewersOnlyLook
<1>2. SoloInv => AcceptedDecides
  BY DEF SoloInv
<1>. QED  BY SoloInit, <1>1, <1>2, PTL DEF Spec

(***************************************************************************)
(* What the clients were told, for reviews that overlap or not.  Once the  *)
(* event of a human decision is written nothing remains to be shown; until *)
(* then a question that was stored is not taken back, because the run is   *)
(* over and no reviewer has stored a checkpoint.                           *)
(***************************************************************************)
Answered == \E e \in trail : e.node = "human_review"

UnansweredRun ==
    /\ phase["run"] # "ended" => ~saved.asked /\ ~mine["run"].asked
    /\ saved.asked => /\ saved.status = "awaiting_human_review"
                      /\ saved.next = "human_review"
    /\ mine["run"].next = "human_review" => mine["run"].status = "awaiting_human_review"

UnansweredReviews ==
    /\ \A r \in Reviewers : phase[r] \in {"checked", "running", "emitted"} => saved.asked
    /\ \A r \in Reviewers : phase[r] = "running" => mine[r].next = "human_review"
    /\ \A r \in Reviewers : phase[r] # "emitted"

UnansweredShown ==
    \A v \in Viewers : looked[v].asked \/ reply[v].asked => saved.asked

(* A run that began has a checkpoint; one that never will was cut off. *)
Begun == phase["run"] \in {"idle", "accepted"} \/ saved # NoCheckpoint \/ restarts > 0

RepliesInv ==
    /\ TypeOK
    /\ \A v \in Viewers : looked[v] # NotAsking => phase["run"] # "idle"
    /\ \A v \in Viewers : reply[v].status = "received" => phase["run"] # "idle"
    /\ Begun
    /\ phase["run"] \in {"idle", "accepted"} => mine["run"] = NoCheckpoint
    /\ ~Answered => UnansweredRun /\ UnansweredReviews /\ UnansweredShown

LEMMA RepliesInit == Init => RepliesInv
<1>1. ASSUME Init PROVE TypeOK
  BY <1>1, ServiceTypeInit
<1>2. ASSUME Init PROVE \A i \in Invocations : mine[i] = NoCheckpoint /\ phase[i] = "idle"
  BY <1>2 DEF Init
<1>. QED  BY <1>1, <1>2, InvocationsType
          DEF Init, RepliesInv, Begun, UnansweredRun, UnansweredReviews, UnansweredShown,
              NoCheckpoint, NotAsking, NoReply, Answer

LEMMA TrailGrows == [CaseNext]_caseVars => trail \subseteq trail'
BY DEF CaseNext, CaseStep, caseVars, Submit, RunStep, RunBegins, Intake, Decides, Escalates,
       RunFails, Interrupts, RunEnds, Restart, Asks, ReviewRefused, ReviewChecked, MayAsk,
       ReviewStep, ReviewLoads, ReviewAnswered, NodeStep, NodeEmits, NodeReturns

(* A step of the case leaves a question that was asked alone, as long as   *)
(* no human decision was announced.                                        *)
LEMMA QuestionStays ==
    ASSUME CaseTypeOK, [CaseNext]_caseVars, ~Answered', UnansweredRun, UnansweredReviews,
           phase["run"] \in {"idle", "accepted"} => mine["run"] = NoCheckpoint
    PROVE  /\ ~Answered
           /\ UnansweredRun' /\ UnansweredReviews'
           /\ saved.asked => saved'.asked
<1>. USE InvocationsType, ServiceAssumption
<1>1. CaseTypeOK'
  BY TypeStep
<1>2. trail \subseteq trail'
  BY TrailGrows
<1>3. ~Answered
  BY <1>2 DEF Answered
<1>. SUFFICES UnansweredRun' /\ UnansweredReviews' /\ (saved.asked => saved'.asked)
  BY <1>3
(* Steps that store nothing and open no review. *)
<1>4. ASSUME UNCHANGED <<saved, mine>>,
             \A r \in Reviewers : phase'[r] = phase[r] \/ phase'[r] = "idle",
             phase["run"] = "ended" => phase'["run"] = "ended"
      PROVE  UnansweredRun' /\ UnansweredReviews' /\ (saved.asked => saved'.asked)
  BY <1>4 DEF UnansweredRun, UnansweredReviews
(* Steps of the run that store the checkpoint c. *)
<1>5. ASSUME NEW c, phase["run"] # "ended", saved' = c, mine'["run"] = c, ~c.asked,
             c.next = "human_review" => c.status = "awaiting_human_review",
             \A r \in Reviewers : phase'[r] = phase[r]
      PROVE  UnansweredRun' /\ UnansweredReviews' /\ (saved.asked => saved'.asked)
  BY <1>5 DEF UnansweredRun, UnansweredReviews
<1>6. CASE UNCHANGED caseVars
  BY <1>4, <1>6 DEF caseVars
<1>7. CASE Submit
  BY <1>4, <1>7 DEF Submit, Become, CaseTypeOK
<1>8. CASE RunStep
  <2>1. CASE RunBegins
    <3>1. /\ mine'["run"] = Input /\ saved' = Input /\ phase["run"] # "ended"
          /\ \A r \in Reviewers : phase'[r] = phase[r]
      BY <2>1 DEF RunBegins, Become, Save, CaseTypeOK
    <3>2. ~Input.asked /\ Input.next # "human_review"
      BY DEF Input, NoCheckpoint
    <3>. QED  BY <1>5, <3>1, <3>2
  <2>2. CASE Intake \/ Decides \/ Escalates
    <3>1. mine["run"] \in Stored /\ mine["run"].next = "work" /\ phase["run"] = "running"
      BY <2>2, StoredType DEF Intake, Decides, Escalates, Executing, CaseTypeOK
    <3>2. ~mine["run"].asked /\ UNCHANGED phase
      BY <2>2, <3>1 DEF UnansweredRun, Intake, Decides, Escalates
    <3>3. \A c : Save("run", c) => mine'["run"] = c /\ saved' = c
      BY DEF Save, CaseTypeOK
    <3>4. ASSUME Intake
          PROVE  \E c \in Stored : Save("run", c) /\ ~c.asked /\ c.next # "human_review"
      <4>. DEFINE c == [mine["run"] EXCEPT !.status = "processing"]
      <4>1. Save("run", c)
        BY <3>4 DEF Intake
      <4>2. c \in Stored /\ ~c.asked /\ c.next # "human_review"
        BY <3>1, <3>2 DEF Stored, Statuses
      <4>. QED  BY <4>1, <4>2
    <3>5. ASSUME Decides
          PROVE  \E c \in Stored : Save("run", c) /\ ~c.asked /\ c.next # "human_review"
      <4>1. PICK o \in Outcomes :
               Save("run", [mine["run"] EXCEPT !.next = "auto_decision", !.outcome = o,
                                               !.by = "system"])
        BY <3>5 DEF Decides
      <4>. DEFINE c == [mine["run"] EXCEPT !.next = "auto_decision", !.outcome = o,
                                           !.by = "system"]
      <4>2. c \in Stored /\ ~c.asked /\ c.next # "human_review"
        BY <3>1, <3>2 DEF Stored, Actors
      <4>. QED  BY <4>1, <4>2
    <3>6. ASSUME Escalates
          PROVE  \E c \in Stored : /\ Save("run", c) /\ ~c.asked
                                   /\ c.status = "awaiting_human_review"
      <4>. DEFINE c == [mine["run"] EXCEPT !.next = "human_review", !.outcome = "escalate",
                                           !.status = "awaiting_human_review",
                                           !.by = "system"]
      <4>1. Save("run", c)
        BY <3>6 DEF Escalates
      <4>2. c \in Stored /\ ~c.asked /\ c.status = "awaiting_human_review"
        BY <3>1, <3>2 DEF Stored, Statuses, Actors
      <4>. QED  BY <4>1, <4>2
    <3>7. PICK c : /\ Save("run", c) /\ ~c.asked
                   /\ c.next = "human_review" => c.status = "awaiting_human_review"
      BY <2>2, <3>4, <3>5, <3>6
    <3>. QED  BY <1>5, <3>1, <3>2, <3>3, <3>7
  <2>3. CASE Interrupts
    <3>1. mine["run"].next = "human_review" /\ mine["run"] \in Stored
      BY <2>3, StoredType DEF Interrupts, Executing, CaseTypeOK
    <3>2. /\ saved'.asked /\ saved'.status = "awaiting_human_review"
          /\ saved'.next = "human_review"
      BY <2>3, <3>1 DEF Interrupts, UnansweredRun, Stored
    <3>3. /\ phase'["run"] = "ended" /\ mine' = mine
          /\ \A r \in Reviewers : phase'[r] = phase[r]
      BY <2>3 DEF Interrupts, Become, CaseTypeOK
    <3>. QED  BY <3>2, <3>3 DEF UnansweredRun, UnansweredReviews
  <2>4. CASE RunFails \/ RunEnds
    BY <1>4, <2>4 DEF RunFails, RunEnds, Become, CaseTypeOK
  <2>. QED  BY <1>8, <2>1, <2>2, <2>3, <2>4 DEF RunStep
<1>9. CASE Restart
  BY <1>4, <1>9 DEF Restart
<1>10. ASSUME NEW r \in Reviewers, Asks(r)
       PROVE  UnansweredRun' /\ UnansweredReviews' /\ (saved.asked => saved'.asked)
  <2>1. /\ UNCHANGED <<saved, mine>> /\ phase'["run"] = phase["run"]
        /\ \A q \in Reviewers \ {r} : phase'[q] = phase[q]
        /\ phase'[r] = "idle" \/ (phase'[r] = "checked" /\ saved.asked)
    BY <1>10 DEF Asks, ReviewRefused, ReviewChecked, MayAsk, Refusal, Become, CaseTypeOK
  <2>. QED  BY <2>1 DEF UnansweredRun, UnansweredReviews
<1>11. ASSUME NEW r \in Reviewers, ReviewStep(r)
       PROVE  UnansweredRun' /\ UnansweredReviews' /\ (saved.asked => saved'.asked)
  <2>1. CASE ReviewLoads(r)
    <3>1. /\ UNCHANGED saved /\ phase'["run"] = phase["run"] /\ mine'["run"] = mine["run"]
          /\ phase[r] = "checked" /\ phase'[r] = "running" /\ mine'[r] = saved
          /\ \A q \in Reviewers \ {r} : phase'[q] = phase[q] /\ mine'[q] = mine[q]
      BY <2>1 DEF ReviewLoads, Become, CaseTypeOK
    <3>2. saved.asked /\ saved.next = "human_review"
      BY <3>1 DEF UnansweredRun, UnansweredReviews
    <3>. QED  BY <3>1, <3>2 DEF UnansweredRun, UnansweredReviews
  <2>2. CASE ReviewAnswered(r)
    BY <1>4, <2>2 DEF ReviewAnswered, Become, CaseTypeOK
  <2>. QED  BY <1>11, <2>1, <2>2 DEF ReviewStep
<1>12. ASSUME NEW i \in Invocations, NodeStep(i)
       PROVE  UnansweredRun' /\ UnansweredReviews' /\ (saved.asked => saved'.asked)
  <2>1. CASE NodeEmits(i)
    <3>1. CASE i = "run"
      BY <1>4, <2>1, <3>1 DEF NodeEmits, Become, CaseTypeOK
    <3>2. CASE i \in Reviewers
      <4>1. EventOf(i) \in trail' /\ phase[i] = "running"
        BY <2>1 DEF NodeEmits
      <4>2. EventOf(i).node = "human_review"
        BY <3>2, <4>1 DEF EventOf, UnansweredReviews
      <4>. QED  BY <4>1, <4>2 DEF Answered
    <3>. QED  BY <3>1, <3>2
  <2>2. CASE NodeReturns(i)
    <3>1. i = "run" /\ phase["run"] = "emitted"
      BY <2>2 DEF NodeReturns, UnansweredReviews
    <3>2. Emitting("run") /\ mine["run"].next \in {"auto_decision", "finalize"}
      BY <3>1 DEF CaseTypeOK, Emitting
    <3>3. ~mine["run"].asked /\ mine["run"] \in Stored
      BY <3>1, <3>2, StoredType DEF UnansweredRun, CaseTypeOK
    <3>4. ~Returned("run").asked /\ Returned("run").next # "human_review"
      BY <3>2, <3>3 DEF Returned, Stored
    <3>5. /\ saved' = Returned("run") /\ mine'["run"] = Returned("run")
          /\ \A r \in Reviewers : phase'[r] = phase[r]
      BY <2>2, <3>1 DEF NodeReturns, Become, Save, CaseTypeOK
    <3>. QED  BY <1>5, <3>1, <3>4, <3>5
  <2>. QED  BY <1>12, <2>1, <2>2 DEF NodeStep
<1>. QED  BY <1>6, <1>7, <1>8, <1>9, <1>10, <1>11, <1>12 DEF CaseNext, CaseStep

(* A case that has a checkpoint keeps one, and only a restart takes a run  *)
(* that was accepted away before it stores the first.                      *)
LEMMA BegunStays ==
    ASSUME CaseTypeOK, [CaseNext]_caseVars, Begun
    PROVE  Begun'
<1>. USE InvocationsType, ServiceAssumption
<1>1. \A c \in Stored : c # NoCheckpoint
  BY DEF Stored, NoCheckpoint
(* Steps that leave the run where it is, or open it. *)
<1>2. ASSUME UNCHANGED <<saved, restarts>>,
             \/ phase'["run"] = phase["run"] \/ phase'["run"] \in {"idle", "accepted"}
             \/ phase["run"] \notin {"idle", "accepted"}
      PROVE  Begun'
  BY <1>2 DEF Begun
<1>3. ASSUME saved' # NoCheckpoint PROVE Begun'
  BY <1>3 DEF Begun
<1>4. CASE UNCHANGED caseVars \/ Submit \/ RunFails \/ RunEnds
  BY <1>2, <1>4 DEF caseVars, Submit, RunFails, RunEnds, Executing, Become, CaseTypeOK
<1>5. CASE RunBegins
  BY <1>3, <1>5 DEF RunBegins, Save, Input, NoCheckpoint
<1>6. CASE Intake \/ Decides \/ Escalates
  <2>1. /\ phase["run"] = "running" /\ UNCHANGED phase /\ mine["run"].next = "work"
        /\ mine["run"] \in Stored
    BY <1>6, StoredType DEF Intake, Decides, Escalates, Executing, CaseTypeOK
  <2>2. CASE Intake
    BY <1>3, <2>1, <2>2 DEF Intake, Save, Stored, NoCheckpoint
  <2>3. CASE Decides
    <3>1. PICK o \in Outcomes :
             saved' = [mine["run"] EXCEPT !.next = "auto_decision", !.outcome = o,
                                          !.by = "system"]
      BY <2>3 DEF Decides, Save
    <3>2. saved'.next = "auto_decision"
      BY <2>1, <3>1 DEF Stored
    <3>. QED  BY <1>3, <3>2 DEF NoCheckpoint
  <2>4. CASE Escalates
    BY <1>3, <2>1, <2>4 DEF Escalates, Save, Stored, NoCheckpoint
  <2>. QED  BY <1>6, <2>2, <2>3, <2>4
<1>7. CASE Interrupts
  <2>1. mine["run"].next = "human_review" /\ mine["run"] \in Stored
    BY <1>7, StoredType DEF Interrupts, Executing, CaseTypeOK
  <2>2. saved'.asked
    BY <1>7, <2>1 DEF Interrupts, Stored
  <2>. QED  BY <1>3, <2>2 DEF NoCheckpoint
<1>8. CASE Restart
  BY <1>8 DEF Restart, Begun, CaseTypeOK
<1>9. ASSUME NEW r \in Reviewers, Asks(r) \/ ReviewStep(r) PROVE Begun'
  BY <1>2, <1>9
  DEF Asks, ReviewRefused, ReviewChecked, MayAsk, ReviewStep, ReviewLoads, ReviewAnswered,
      Become, CaseTypeOK
<1>10. ASSUME NEW i \in Invocations, NodeEmits(i) PROVE Begun'
  BY <1>2, <1>10 DEF NodeEmits, Become, CaseTypeOK
<1>11. ASSUME NEW i \in Invocations, NodeReturns(i) PROVE Begun'
  <2>1. saved' = Returned(i) /\ Returned(i) \in Stored
    BY <1>11, ReturnedType DEF NodeReturns, Save, CaseTypeOK
  <2>. QED  BY <1>1, <1>3, <2>1
<1>. QED  BY <1>4, <1>5, <1>6, <1>7, <1>8, <1>9, <1>10, <1>11
          DEF CaseNext, CaseStep, RunStep, NodeStep

LEMMA RepliesStep == RepliesInv /\ [Next]_vars => RepliesInv'
<1>1. SUFFICES ASSUME RepliesInv, [Next]_vars PROVE RepliesInv'
  OBVIOUS
<1>. USE InvocationsType, ServiceAssumption
<1>2. TypeOK /\ TypeOK' /\ CaseTypeOK /\ [CaseNext]_caseVars
  BY <1>1, ServiceTypeStep, ViewersOnlyLook DEF RepliesInv, TypeOK
(* The run never comes back, and works on nothing before it begins. *)
<1>3. /\ phase["run"] # "idle" => phase'["run"] # "idle"
      /\ phase'["run"] \in {"idle", "accepted"} => mine'["run"] = NoCheckpoint
  <2>1. mine["run"] = NoCheckpoint \/ phase["run"] \notin {"idle", "accepted"}
    BY <1>1 DEF RepliesInv
  <2>2. CASE UNCHANGED caseVars
    BY <2>1, <2>2 DEF caseVars
  <2>3. CASE Submit \/ RunFails \/ Interrupts \/ RunEnds
    BY <1>2, <2>1, <2>3
    DEF Submit, RunFails, Interrupts, RunEnds, Executing, Become, CaseTypeOK
  <2>7. CASE RunBegins
    BY <1>2, <2>7 DEF RunBegins, Become, CaseTypeOK
  <2>8. CASE Intake \/ Decides \/ Escalates
    BY <2>8 DEF Intake, Decides, Escalates, Executing
  <2>4. CASE Restart
    BY <2>4 DEF Restart
  <2>5. ASSUME NEW r \in Reviewers, Asks(r) \/ ReviewStep(r)
        PROVE  phase'["run"] = phase["run"] /\ mine'["run"] = mine["run"]
    BY <1>2, <2>5
    DEF Asks, ReviewRefused, ReviewChecked, MayAsk, ReviewStep, ReviewLoads, ReviewAnswered,
        Become, CaseTypeOK
  <2>6. ASSUME NEW i \in Invocations, NodeStep(i)
        PROVE  \/ phase'["run"] = phase["run"] /\ mine'["run"] = mine["run"]
               \/ phase["run"] \in {"running", "emitted"} /\ phase'["run"] \in {"running", "emitted"}
    BY <1>2, <2>6 DEF NodeStep, NodeEmits, NodeReturns, Become, Save, CaseTypeOK
  <2>. QED  BY <1>2, <2>1, <2>2, <2>3, <2>4, <2>5, <2>6, <2>7, <2>8
            DEF CaseNext, CaseStep, RunStep
<1>4. ASSUME ~Answered'
      PROVE  /\ ~Answered /\ UnansweredRun' /\ UnansweredReviews' /\ UnansweredShown
             /\ saved.asked => saved'.asked
  <2>1. trail \subseteq trail'
    BY <1>2, TrailGrows
  <2>2. ~Answered
    BY <1>4, <2>1 DEF Answered
  <2>3. /\ UnansweredRun /\ UnansweredReviews /\ UnansweredShown
        /\ phase["run"] \in {"idle", "accepted"} => mine["run"] = NoCheckpoint
    BY <1>1, <2>2 DEF RepliesInv
  <2>. QED  BY <1>2, <1>4, <2>2, <2>3, QuestionStays
(* What the clients see. *)
<1>5. ASSUME NEW v \in Viewers
      PROVE  /\ looked'[v] # NotAsking => phase'["run"] # "idle"
             /\ reply'[v].status = "received" => phase'["run"] # "idle"
             /\ ~Answered' => (looked'[v].asked \/ reply'[v].asked => saved'.asked)
  <2>1. /\ looked[v] # NotAsking => phase["run"] # "idle"
        /\ reply[v].status = "received" => phase["run"] # "idle"
        /\ ~Answered' => (looked[v].asked \/ reply[v].asked => saved'.asked)
    BY <1>1, <1>4 DEF RepliesInv, UnansweredShown
  <2>2. CASE UNCHANGED <<looked, reply>> \/ Restart
    <3>1. looked'[v] \in {looked[v], NotAsking} /\ reply'[v] = reply[v]
      BY <2>2 DEF Restart
    <3>2. ~NotAsking.asked
      BY DEF NotAsking, Answer
    <3>3. CASE looked'[v] = looked[v]
      BY <1>3, <2>1, <3>1, <3>3
    <3>4. CASE looked'[v] = NotAsking
      BY <1>3, <2>1, <3>1, <3>2, <3>4
    <3>. QED  BY <3>1, <3>3, <3>4
  <2>3. ASSUME NEW w \in Viewers, StatusReads(w), UNCHANGED caseVars
        PROVE  /\ looked'[v] # NotAsking => phase'["run"] # "idle"
               /\ reply'[v].status = "received" => phase'["run"] # "idle"
               /\ ~Answered' => (looked'[v].asked \/ reply'[v].asked => saved'.asked)
    <3>1. /\ looked'[v] \in {looked[v], Answer(saved.status, saved.asked)}
          /\ reply' = reply /\ phase["run"] # "idle"
      BY <1>2, <2>3 DEF StatusReads, TypeOK
    <3>. QED  BY <2>1, <2>3, <3>1 DEF Answer, caseVars
  <2>4. ASSUME NEW w \in Viewers, StatusAnswers(w), UNCHANGED caseVars
        PROVE  /\ looked'[v] # NotAsking => phase'["run"] # "idle"
               /\ reply'[v].status = "received" => phase'["run"] # "idle"
               /\ ~Answered' => (looked'[v].asked \/ reply'[v].asked => saved'.asked)
    <3>1. CASE w # v
      <4>1. looked'[v] = looked[v] /\ reply'[v] = reply[v]
        BY <1>2, <2>4, <3>1 DEF StatusAnswers, TypeOK
      <4>. QED  BY <2>1, <2>4, <4>1 DEF caseVars
    <3>2. CASE w = v
      <4>1. /\ looked[v] # NotAsking /\ looked'[v] = NotAsking
            /\ reply'[v] = IF looked[v].status # "none" THEN looked[v]
                           ELSE Answer(IF Tracked THEN "received" ELSE "404", FALSE)
        BY <1>2, <2>4, <3>2 DEF StatusAnswers, TypeOK
      <4>. QED  BY <2>1, <2>4, <4>1 DEF caseVars, NotAsking, Answer
    <3>. QED  BY <3>1, <3>2
  <2>. QED  BY <1>1, <2>2, <2>3, <2>4 DEF Next, ViewerStep, vars
<1>6. Begun'
  BY <1>1, <1>2, BegunStays DEF RepliesInv
<1>. QED  BY <1>2, <1>3, <1>4, <1>5, <1>6 DEF RepliesInv, UnansweredShown

(* Overlapping reviews and restarts included, an acknowledged case is      *)
(* forgotten by nothing but a restart, and a question that was shown stays *)
(* open until a human has answered it.                                     *)
LEMMA RepliesAlways == Spec => [](AcknowledgedStands /\ QuestionStands)
<1>1. RepliesInv => AcknowledgedStands /\ QuestionStands
  BY DEF RepliesInv, Begun, Tracked, UnansweredRun, UnansweredShown, Answered,
         AcknowledgedStands, QuestionStands
<1>. QED  BY RepliesInit, RepliesStep, <1>1, PTL DEF Spec

(***************************************************************************)
(* What the clients see goes forward, as long as reviews do not overlap.   *)
(* The property compares two answers to one client; what makes it hold is  *)
(* that every copy that is stored is the latest checkpoint, and that a     *)
(* snapshot which waits for its answer lies between the last answer given  *)
(* and the checkpoint of now.                                              *)
(***************************************************************************)
SnapshotsInBetween ==
    \A v \in Viewers :
        /\ Rank(reply[v].status) <= Rank(saved.status)
        /\ looked[v] # NotAsking =>
              /\ Rank(reply[v].status) <= Rank(looked[v].status)
              /\ Rank(looked[v].status) <= Rank(saved.status)

ForwardInv == TypeOK /\ SoloInv /\ SnapshotsInBetween

AnswersForward == \A v \in Viewers : Rank(reply[v].status) <= Rank(reply'[v].status)

LEMMA RankType == \A s : Rank(s) \in 0..3
BY DEF Rank

LEMMA ForwardInit == Init => ForwardInv
BY ServiceTypeInit, SoloInit, RankType
   DEF Init, ForwardInv, SnapshotsInBetween, NoCheckpoint, NoReply, Answer, Rank

(* No step of the case takes the status of the checkpoint back.            *)
LEMMA StatusRises ==
    ASSUME ~Overlap, SoloInv, [CaseNext]_caseVars
    PROVE  Rank(saved.status) <= Rank(saved'.status)
<1>. USE InvocationsType, RankType
<1>1. CaseTypeOK
  BY DEF SoloInv
<1>2. ASSUME UNCHANGED saved PROVE Rank(saved.status) <= Rank(saved'.status)
  BY <1>2
<1>3. CASE RunBegins
  <2>1. saved.status = "none"
    BY <1>3 DEF RunBegins, SoloInv, SoloRun, NoCheckpoint
  <2>. QED  BY <2>1 DEF Rank
<1>4. CASE Intake \/ Decides \/ Escalates
  <2>1. mine["run"] = saved /\ saved.status \in {"received", "processing"}
    BY <1>4 DEF Intake, Decides, Escalates, Executing, SoloInv, SoloRun
  <2>2. saved \in Stored
    BY <1>1, <1>4, <2>1, StoredType DEF CaseTypeOK, Intake, Decides, Escalates, Executing
  <2>3. CASE Intake
    BY <2>1, <2>2, <2>3 DEF Intake, Save, Stored, Rank
  <2>4. CASE Decides
    BY <2>1, <2>2, <2>4 DEF Decides, Save, Stored
  <2>5. CASE Escalates
    BY <2>1, <2>2, <2>5 DEF Escalates, Save, Stored, Rank
  <2>. QED  BY <1>4, <2>3, <2>4, <2>5
<1>5. CASE Interrupts
  <2>1. mine["run"] = saved /\ saved \in Stored
    BY <1>1, <1>5, StoredType DEF Interrupts, Executing, SoloInv, SoloRun, CaseTypeOK
  <2>. QED  BY <1>5, <2>1 DEF Interrupts, Stored
<1>6. ASSUME NEW i \in Invocations, NodeReturns(i)
      PROVE  Rank(saved.status) <= Rank(saved'.status)
  <2>1. mine[i] = saved /\ Emitting(i)
    BY <1>1, <1>6 DEF NodeReturns, SoloInv, SoloRun, SoloReview, CaseTypeOK
  <2>2. saved \in Stored
    BY <1>1, <2>1, StoredType DEF Emitting, CaseTypeOK
  <2>3. saved' = Returned(i)
    BY <1>6 DEF NodeReturns, Save
  <2>4. Returned(i).status \in {saved.status, "completed"}
    BY <2>1, <2>2 DEF Returned, Stored
  <2>. QED  BY <2>3, <2>4 DEF Rank
<1>7. CASE UNCHANGED caseVars \/ Submit \/ RunFails \/ RunEnds \/ Restart
  BY <1>2, <1>7 DEF caseVars, Submit, RunFails, RunEnds, Restart
<1>8. ASSUME NEW r \in Reviewers, Asks(r) \/ ReviewStep(r) PROVE UNCHANGED saved
  BY <1>8 DEF Asks, ReviewRefused, ReviewChecked, MayAsk, ReviewStep, ReviewLoads, ReviewAnswered
<1>9. ASSUME NEW i \in Invocations, NodeEmits(i) PROVE UNCHANGED saved
  BY <1>9 DEF NodeEmits
<1>. QED  BY <1>2, <1>3, <1>4, <1>5, <1>6, <1>7, <1>8, <1>9
          DEF CaseNext, CaseStep, RunStep, NodeStep

LEMMA ForwardStep ==
    ~Overlap /\ ForwardInv /\ [Next]_vars => ForwardInv' /\ [AnswersForward]_reply
<1>1. SUFFICES ASSUME ~Overlap, ForwardInv, [Next]_vars
               PROVE  ForwardInv' /\ AnswersForward
  OBVIOUS
<1>. USE RankType
<1>2. TypeOK /\ TypeOK' /\ SoloInv /\ SoloInv'
  BY <1>1, ServiceTypeStep, ViewersOnlyLook, SoloStep DEF ForwardInv
<1>3. Rank(saved.status) <= Rank(saved'.status)
  BY <1>1, <1>2, ViewersOnlyLook, StatusRises
<1>. SUFFICES ASSUME NEW v \in Viewers
              PROVE  /\ Rank(reply[v].status) <= Rank(reply'[v].status)
                     /\ Rank(reply'[v].status) <= Rank(saved'.status)
                     /\ looked'[v] # NotAsking =>
                           /\ Rank(reply'[v].status) <= Rank(looked'[v].status)
                           /\ Rank(looked'[v].status) <= Rank(saved'.status)
  BY <1>2 DEF ForwardInv, SnapshotsInBetween, AnswersForward
<1>4. /\ Rank(reply[v].status) <= Rank(saved.status)
      /\ looked[v] # NotAsking =>
            /\ Rank(reply[v].status) <= Rank(looked[v].status)
            /\ Rank(looked[v].status) <= Rank(saved.status)
  BY <1>1 DEF ForwardInv, SnapshotsInBetween
<1>5. ASSUME reply'[v] = reply[v], looked'[v] \in {looked[v], NotAsking}
      PROVE  /\ Rank(reply[v].status) <= Rank(reply'[v].status)
             /\ Rank(reply'[v].status) <= Rank(saved'.status)
             /\ looked'[v] # NotAsking =>
                   /\ Rank(reply'[v].status) <= Rank(looked'[v].status)
                   /\ Rank(looked'[v].status) <= Rank(saved'.status)
  BY <1>3, <1>4, <1>5
<1>6. CASE UNCHANGED <<looked, reply>> \/ Restart
  BY <1>5, <1>6 DEF Restart
<1>7. ASSUME NEW w \in Viewers, StatusReads(w), UNCHANGED caseVars, w = v
      PROVE  /\ reply'[v] = reply[v] /\ looked'[v].status = saved.status
             /\ saved' = saved
  BY <1>2, <1>7 DEF StatusReads, Answer, TypeOK, caseVars
<1>8. ASSUME NEW w \in Viewers, StatusAnswers(w), UNCHANGED caseVars, w = v
      PROVE  /\ looked[v] # NotAsking /\ looked'[v] = NotAsking /\ saved' = saved
             /\ Rank(reply'[v].status) = Rank(looked[v].status)
  <2>1. /\ looked[v] # NotAsking /\ looked'[v] = NotAsking /\ saved' = saved
        /\ reply'[v] = IF looked[v].status # "none" THEN looked[v]
                       ELSE Answer(IF Tracked THEN "received" ELSE "404", FALSE)
    BY <1>2, <1>8 DEF StatusAnswers, TypeOK, caseVars
  <2>2. CASE looked[v].status = "none"
    BY <2>1, <2>2 DEF Answer, Rank
  <2>. QED  BY <2>1, <2>2
<1>9. ASSUME NEW w \in Viewers \ {v}, ViewerStep(w)
      PROVE  reply'[v] = reply[v] /\ looked'[v] = looked[v]
  BY <1>2, <1>9 DEF ViewerStep, StatusReads, StatusAnswers, TypeOK
<1>. QED  BY <1>1, <1>3, <1>4, <1>5, <1>6, <1>7, <1>8, <1>9 DEF Next, ViewerStep, vars

(* As long as reviews do not overlap, no client is told an earlier status  *)
(* than before, however old the snapshot of its request, and whatever      *)
(* restarts happen.                                                        *)
THEOREM StatusGoesForwardHolds ==
    ASSUME ~Overlap
    PROVE  Spec => StatusGoesForward
<1>1. ForwardInv /\ [Next]_vars => ForwardInv' /\ [AnswersForward]_reply
  BY ForwardStep
<1>2. [AnswersForward]_reply
        <=> [\A v \in Viewers : Rank(reply[v].status) <= Rank(reply'[v].status)]_reply
  BY DEF AnswersForward
<1>. QED  BY ForwardInit, <1>1, <1>2, PTL DEF Spec, StatusGoesForward

(* As long as reviews do not overlap, what a client was told stands: the   *)
(* status of the case never falls behind it, an acknowledged case is       *)
(* stored or at work unless the process restarted, and a question shown is *)
(* open or answered, for any reviewers, clients and restarts.              *)
THEOREM RepliesStandHolds ==
    ASSUME ~Overlap
    PROVE  Spec => []RepliesStand
<1>1. ForwardInv /\ [Next]_vars => ForwardInv'
  BY ForwardStep
<1>2. ForwardInv => StatusStands
  BY DEF ForwardInv, SnapshotsInBetween, StatusStands
<1>. QED  BY ForwardInit, <1>1, <1>2, RepliesAlways, PTL DEF Spec, RepliesStand

(***************************************************************************)
(* Reviews that overlap.  Whatever invocation stores whatever copy, a copy *)
(* has only the values its next node allows, and no reviewer works on the  *)
(* case before the question was asked: from then on a copy that is stored  *)
(* either carries the question or the verdict of a reviewer.               *)
(***************************************************************************)
ByReviewer(c) == c.by \in Reviewers /\ c.outcome = Wants[c.by]

Decided(c) == c.outcome \in Outcomes /\ (c.by = "system" \/ ByReviewer(c))

Staged(c) ==
    /\ c.next = "none" => c = NoCheckpoint
    /\ c.next = "work" => /\ c.status \in {"received", "processing"}
                          /\ c.outcome = "none" /\ c.by = "none"
    /\ c.next = "auto_decision" => /\ c.status = "processing"
                                   /\ c.outcome \in Outcomes /\ c.by = "system"
    /\ c.next = "human_review" => /\ c.status = "awaiting_human_review"
                                  /\ c.outcome = "escalate" /\ c.by = "system"
    /\ c.next = "finalize" => /\ Decided(c)
                              /\ c.status \in {"processing", "awaiting_human_review"}
                              /\ c.by = "system" => c.status = "processing"
    /\ c.next = "end" => c.status = "completed" /\ Decided(c)
    /\ c.asked => c.next = "human_review"

StagedInv == Staged(saved) /\ \A i \in Invocations : Staged(mine[i])

SharedReview ==
    \A r \in Reviewers :
        /\ Open(r) => saved.asked \/ ByReviewer(saved)
        /\ phase[r] \in {"running", "emitted"} =>
              \/ mine[r].next = "human_review"
              \/ ByReviewer(mine[r]) /\ ByReviewer(saved)

StandInv == CaseTypeOK /\ StagedInv /\ SoloRun /\ SharedReview /\ AcceptedByAnalyst

DeskInv ==
    /\ SoloInv /\ StandInv
    /\ \A r \in Reviewers : Open(r) => answer[r] = 0
    /\ \A r \in Reviewers :
          phase[r] \in {"running", "emitted"} /\ saved.next = "human_review" => saved.asked

LEMMA StagedInit == Init => StagedInv
BY DEF Init, StagedInv, Staged, NoCheckpoint, Invocations

LEMMA SaveStaged ==
    ASSUME CaseTypeOK, StagedInv, NEW i \in Invocations, NEW c, Staged(c), Save(i, c)
    PROVE  StagedInv'
<1>1. saved' = c /\ \A j \in Invocations : mine'[j] \in {c, mine[j]}
  BY DEF Save, CaseTypeOK
<1>2. Staged(saved)'
  BY <1>1 DEF Staged, Decided, ByReviewer
<1>3. ASSUME NEW j \in Invocations PROVE Staged(mine[j])'
  <2>1. Staged(mine[j])
    BY DEF StagedInv
  <2>2. CASE mine'[j] = c
    BY <2>2 DEF Staged, Decided, ByReviewer
  <2>3. CASE mine'[j] = mine[j]
    BY <2>1, <2>3 DEF Staged, Decided, ByReviewer
  <2>. QED  BY <1>1, <2>2, <2>3
<1>. QED  BY <1>2, <1>3 DEF StagedInv

(* What the run stores before the nodes that announce something. *)
LEMMA RunStaged ==
    ASSUME CaseTypeOK, StagedInv, Intake \/ Decides \/ Escalates
    PROVE  \E c : /\ Save("run", c) /\ Staged(c) /\ ~c.asked
                  /\ c.next \in {"work", "auto_decision", "human_review"}
<1>. USE InvocationsType
<1>1. mine["run"] \in Stored /\ mine["run"].next = "work" /\ Staged(mine["run"])
  BY StoredType DEF CaseTypeOK, StagedInv, Intake, Decides, Escalates, Executing
<1>2. /\ mine["run"].outcome = "none" /\ mine["run"].by = "none" /\ ~mine["run"].asked
      /\ mine["run"].status \in {"received", "processing"}
  BY <1>1 DEF Staged
<1>3. CASE Intake
  <2>. DEFINE c == [mine["run"] EXCEPT !.status = "processing"]
  <2>1. Save("run", c)
    BY <1>3 DEF Intake
  <2>2. /\ c.next = "work" /\ c.status = "processing" /\ c.outcome = "none"
        /\ c.by = "none" /\ ~c.asked
    BY <1>1, <1>2 DEF Stored
  <2>. HIDE DEF c
  <2>3. Staged(c)
    BY <2>2 DEF Staged
  <2>. QED  BY <2>1, <2>2, <2>3
<1>4. CASE Decides
  <2>1. PICK o \in Outcomes :
           Save("run", [mine["run"] EXCEPT !.next = "auto_decision", !.outcome = o,
                                           !.by = "system"])
    BY <1>4 DEF Decides
  <2>. DEFINE c == [mine["run"] EXCEPT !.next = "auto_decision", !.outcome = o,
                                       !.by = "system"]
  <2>2. mine["run"].status = "processing"
    BY <1>4 DEF Decides
  <2>3. Save("run", c)
    BY <2>1
  <2>4. /\ c.next = "auto_decision" /\ c.status = "processing" /\ c.outcome \in Outcomes
        /\ c.by = "system" /\ ~c.asked
    BY <1>1, <1>2, <2>2 DEF Stored
  <2>. HIDE DEF c
  <2>5. Staged(c)
    BY <2>4 DEF Staged
  <2>. QED  BY <2>3, <2>4, <2>5
<1>5. CASE Escalates
  <2>. DEFINE c == [mine["run"] EXCEPT !.next = "human_review", !.outcome = "escalate",
                                       !.status = "awaiting_human_review", !.by = "system"]
  <2>1. Save("run", c)
    BY <1>5 DEF Escalates
  <2>2. /\ c.next = "human_review" /\ c.status = "awaiting_human_review"
        /\ c.outcome = "escalate" /\ c.by = "system" /\ ~c.asked
    BY <1>1, <1>2 DEF Stored
  <2>. HIDE DEF c
  <2>3. Staged(c)
    BY <2>2 DEF Staged
  <2>. QED  BY <2>1, <2>2, <2>3
<1>. QED  BY <1>3, <1>4, <1>5

(* What an announcing node returns: the verdict of its reviewer, or the    *)
(* verdict it was given.                                                   *)
LEMMA ReturnedStaged ==
    ASSUME NEW i \in Invocations, mine[i] \in Checkpoint, Emitting(i), Staged(mine[i])
    PROVE  /\ Staged(Returned(i)) /\ ~Returned(i).asked
           /\ Returned(i).outcome \in Outcomes
           /\ IF mine[i].next = "human_review"
              THEN /\ i \in Reviewers /\ Returned(i).by = i /\ Returned(i).outcome = Wants[i]
                   /\ Returned(i).next = "finalize"
                   /\ Returned(i).status = "awaiting_human_review"
              ELSE /\ Returned(i).by = mine[i].by /\ Returned(i).outcome = mine[i].outcome
                   /\ mine[i].outcome \in Outcomes
                   /\ mine[i].next = "auto_decision" =>
                         /\ Returned(i).next = "finalize"
                         /\ Returned(i).status = mine[i].status
                   /\ mine[i].next = "finalize" =>
                         Returned(i).next = "end" /\ Returned(i).status = "completed"
<1>1. mine[i] \in Stored
  BY StoredType DEF Emitting
<1>2. CASE mine[i].next = "human_review"
  <2>1. i \in Reviewers /\ Wants[i] \in Outcomes /\ i # "system"
    BY <1>2, ServiceAssumption DEF Emitting
  <2>2. mine[i].status = "awaiting_human_review"
    BY <1>2 DEF Staged
  <2>3. /\ Returned(i).next = "finalize" /\ Returned(i).outcome = Wants[i]
        /\ Returned(i).by = i /\ ~Returned(i).asked
        /\ Returned(i).status = "awaiting_human_review"
    BY <1>1, <1>2, <2>2 DEF Returned, Stored
  <2>4. Staged(Returned(i))
    BY <2>1, <2>3 DEF Staged, Decided, ByReviewer
  <2>. QED  BY <1>2, <2>1, <2>3, <2>4
<1>3. CASE mine[i].next = "auto_decision"
  <2>1. /\ mine[i].status = "processing" /\ mine[i].outcome \in Outcomes
        /\ mine[i].by = "system" /\ ~mine[i].asked
    BY <1>3 DEF Staged
  <2>2. /\ Returned(i).next = "finalize" /\ Returned(i).outcome = mine[i].outcome
        /\ Returned(i).by = mine[i].by /\ ~Returned(i).asked
        /\ Returned(i).status = mine[i].status
    BY <1>1, <1>3, <2>1 DEF Returned, Stored
  <2>3. Staged(Returned(i))
    BY <2>1, <2>2 DEF Staged, Decided
  <2>. QED  BY <1>3, <2>1, <2>2, <2>3
<1>4. CASE mine[i].next = "finalize"
  <2>1. Decided(mine[i]) /\ ~mine[i].asked
    BY <1>4 DEF Staged
  <2>2. /\ Returned(i).next = "end" /\ Returned(i).outcome = mine[i].outcome
        /\ Returned(i).by = mine[i].by /\ ~Returned(i).asked
        /\ Returned(i).status = "completed"
    BY <1>1, <1>4, <2>1 DEF Returned, Stored
  <2>3. Staged(Returned(i))
    BY <2>1, <2>2 DEF Staged, Decided, ByReviewer
  <2>. QED  BY <1>4, <2>1, <2>2, <2>3 DEF Decided
<1>. QED  BY <1>2, <1>3, <1>4 DEF Emitting

LEMMA StandInit == Init => StandInv
BY TypeInit, StagedInit, InvocationsType, ServiceAssumption
   DEF Init, StandInv, SoloRun, RunOpen, SharedReview, AcceptedByAnalyst, Open, NoCheckpoint

LEMMA StandInvStep == StandInv /\ [CaseNext]_caseVars => StandInv' /\ [StandStep]_saved
<1>1. SUFFICES ASSUME StandInv, [CaseNext]_caseVars PROVE StandInv' /\ [StandStep]_saved
  OBVIOUS
<1>2. CaseTypeOK /\ CaseTypeOK' /\ StagedInv /\ SoloRun /\ SharedReview /\ AcceptedByAnalyst
  BY <1>1, TypeStep DEF StandInv
<1>. USE InvocationsType, ServiceAssumption
(* Steps that change neither the checkpoint nor any copy. *)
<1>3. ASSUME UNCHANGED <<saved, mine>>, SoloRun', SharedReview', AcceptedByAnalyst'
      PROVE  StandInv' /\ [StandStep]_saved
  <2>1. StagedInv'
    BY <1>2, <1>3 DEF StagedInv, Staged, Decided, ByReviewer
  <2>. QED  BY <1>2, <1>3, <2>1 DEF StandInv
(* Steps of the run that store a checkpoint before any verdict. *)
<1>4. ASSUME NEW c, RunOpen, saved.outcome \notin Outcomes, saved.by \notin Reviewers,
             Save("run", c), phase'["run"] = "running",
             \A r \in Reviewers : phase'[r] = phase[r], UNCHANGED answer,
             Staged(c), ~c.asked
      PROVE  StandInv' /\ [StandStep]_saved
  <2>1. StagedInv'
    BY <1>2, <1>4, SaveStaged
  <2>2. mine'["run"] = c /\ saved' = c
    BY <1>2, <1>4 DEF Save, CaseTypeOK
  <2>3. \A r \in Reviewers : ~Open(r) /\ ~Open(r)' /\ answer[r] # 200
    BY <1>2, <1>4 DEF SoloRun, Open, AcceptedByAnalyst
  <2>4. SoloRun'
    BY <1>4, <2>2, <2>3 DEF SoloRun, Open
  <2>5. SharedReview' /\ AcceptedByAnalyst'
    BY <1>4, <2>3 DEF SharedReview, Open, AcceptedByAnalyst
  <2>6. StandStep
    BY <1>4 DEF StandStep
  <2>. QED  BY <1>2, <2>1, <2>4, <2>5, <2>6 DEF StandInv
<1>5. CASE UNCHANGED caseVars
  BY <1>2, <1>3, <1>5
  DEF caseVars, SoloRun, RunOpen, SharedReview, ByReviewer, Open, AcceptedByAnalyst
<1>6. CASE Submit
  <2>1. /\ phase'["run"] = "accepted" /\ UNCHANGED <<saved, mine, answer>>
        /\ \A r \in Reviewers : phase'[r] = phase[r]
    BY <1>2, <1>6 DEF Submit, Become, CaseTypeOK
  <2>2. SoloRun'
    BY <1>2, <1>6, <2>1 DEF Submit, SoloRun, RunOpen, Open
  <2>. QED  BY <1>2, <1>3, <2>1, <2>2 DEF SharedReview, ByReviewer, Open, AcceptedByAnalyst
<1>7. CASE RunStep
  <2>1. CASE RunBegins
    <3>1. saved = NoCheckpoint /\ RunOpen
      BY <1>2, <2>1 DEF RunBegins, SoloRun, RunOpen
    <3>2. phase'["run"] = "running" /\ \A r \in Reviewers : phase'[r] = phase[r]
      BY <1>2, <2>1 DEF RunBegins, Become, CaseTypeOK
    <3>3. Save("run", Input) /\ UNCHANGED answer
      BY <2>1 DEF RunBegins
    <3>4. Staged(Input) /\ ~Input.asked
      BY DEF Input, NoCheckpoint, Staged
    <3>5. saved.outcome \notin Outcomes /\ saved.by \notin Reviewers
      BY <3>1 DEF NoCheckpoint, Outcomes
    <3>. HIDE DEF RunOpen
    <3>. QED  BY <1>4, <3>1, <3>2, <3>3, <3>4, <3>5
  <2>2. CASE Intake \/ Decides \/ Escalates
    <3>1. /\ RunOpen /\ mine["run"] = saved /\ saved.next = "work" /\ phase["run"] = "running"
          /\ UNCHANGED <<phase, answer>>
      BY <1>2, <2>2 DEF Intake, Decides, Escalates, Executing, SoloRun, RunOpen
    <3>2. saved.outcome \notin Outcomes /\ saved.by \notin Reviewers
      BY <1>2, <3>1 DEF StagedInv, Staged, Outcomes
    <3>3. PICK c : Save("run", c) /\ Staged(c) /\ ~c.asked
      BY <1>2, <2>2, RunStaged
    <3>. QED  BY <1>4, <3>1, <3>2, <3>3
  <2>3. CASE Interrupts
    <3>1. /\ RunOpen /\ mine["run"] = saved /\ saved.next = "human_review"
          /\ UNCHANGED <<mine, answer>>
      BY <1>2, <2>3 DEF Interrupts, Executing, SoloRun, RunOpen
    <3>2. phase'["run"] = "ended" /\ \A r \in Reviewers : phase'[r] = phase[r]
      BY <1>2, <2>3 DEF Interrupts, Become, CaseTypeOK
    <3>3. /\ saved'.next = saved.next /\ saved'.outcome = saved.outcome
          /\ saved'.by = saved.by /\ saved'.status = saved.status
      BY <1>2, <2>3, <3>1, StoredType DEF Interrupts, CaseTypeOK, Stored
    <3>4. saved.outcome = "escalate" /\ saved.by = "system"
          /\ saved.status = "awaiting_human_review"
      BY <1>2, <3>1 DEF StagedInv, Staged
    <3>5. \A r \in Reviewers : ~Open(r) /\ ~Open(r)' /\ answer[r] # 200
      BY <1>2, <3>1, <3>2, <3>4 DEF SoloRun, Open, AcceptedByAnalyst
    <3>6. Staged(saved)'
      BY <3>1, <3>3, <3>4 DEF Staged
    <3>7. \A i \in Invocations : Staged(mine[i])'
      BY <1>2, <3>1 DEF StagedInv, Staged, Decided, ByReviewer
    <3>8. SoloRun' /\ SharedReview' /\ AcceptedByAnalyst'
      BY <3>1, <3>2, <3>5 DEF SoloRun, RunOpen, SharedReview, Open, AcceptedByAnalyst
    <3>9. StandStep
      BY <3>4 DEF StandStep, Outcomes
    <3>. QED  BY <1>2, <3>6, <3>7, <3>8, <3>9 DEF StandInv, StagedInv
  <2>4. CASE RunFails \/ RunEnds
    <3>1. phase'["run"] = "ended" /\ \A r \in Reviewers : phase'[r] = phase[r]
      BY <1>2, <2>4 DEF RunFails, RunEnds, Become, CaseTypeOK
    <3>2. UNCHANGED <<saved, mine, answer>>
      BY <2>4 DEF RunFails, RunEnds
    <3>. QED  BY <1>2, <1>3, <3>1, <3>2
              DEF SoloRun, RunOpen, SharedReview, ByReviewer, Open, AcceptedByAnalyst
  <2>. QED  BY <1>7, <2>1, <2>2, <2>3, <2>4 DEF RunStep
<1>8. CASE Restart
  <2>1. phase'["run"] = "ended" /\ \A r \in Reviewers : phase'[r] = "idle"
    BY <1>8 DEF Restart
  <2>2. UNCHANGED <<saved, mine, answer>>
    BY <1>8 DEF Restart
  <2>. QED  BY <1>2, <1>3, <2>1, <2>2
            DEF SoloRun, RunOpen, SharedReview, Open, AcceptedByAnalyst
<1>9. ASSUME NEW r \in Reviewers, Asks(r) PROVE StandInv' /\ [StandStep]_saved
  <2>1. UNCHANGED <<saved, mine>> /\ phase'["run"] = phase["run"]
    BY <1>2, <1>9 DEF Asks, ReviewRefused, ReviewChecked, MayAsk, Become, CaseTypeOK
  <2>2. \A q \in Reviewers \ {r} : phase'[q] = phase[q] /\ answer'[q] = answer[q]
    BY <1>2, <1>9 DEF Asks, ReviewRefused, ReviewChecked, MayAsk, Become, CaseTypeOK
  <2>3. answer'[r] # 200 /\ phase[r] = "idle"
        /\ ((phase'[r] = "checked" /\ saved.asked) \/ phase'[r] = phase[r])
    BY <1>2, <1>9 DEF Asks, ReviewRefused, ReviewChecked, MayAsk, Refusal, Become, CaseTypeOK
  <2>4. SoloRun'
    BY <1>2, <2>1, <2>2, <2>3 DEF SoloRun, RunOpen, Open
  <2>5. SharedReview'
    BY <1>2, <2>1, <2>2, <2>3 DEF SharedReview, ByReviewer, Open
  <2>. QED  BY <1>2, <1>3, <2>1, <2>2, <2>3, <2>4, <2>5 DEF AcceptedByAnalyst
<1>10. ASSUME NEW r \in Reviewers, ReviewStep(r) PROVE StandInv' /\ [StandStep]_saved
  <2>1. CASE ReviewLoads(r)
    <3>1. UNCHANGED <<saved, answer>> /\ mine' = [mine EXCEPT ![r] = saved]
      BY <2>1 DEF ReviewLoads
    <3>2. /\ phase'["run"] = phase["run"] /\ phase[r] = "checked" /\ phase'[r] = "running"
          /\ \A q \in Reviewers \ {r} : phase'[q] = phase[q] /\ mine'[q] = mine[q]
          /\ mine'["run"] = mine["run"] /\ mine'[r] = saved
      BY <1>2, <2>1, <3>1 DEF ReviewLoads, Become, CaseTypeOK
    <3>3. ~RunOpen /\ (saved.asked \/ ByReviewer(saved))
      BY <1>2, <3>2 DEF SoloRun, SharedReview, Open
    <3>4. saved.next = "human_review" \/ ByReviewer(saved)
      BY <1>2, <3>3 DEF StagedInv, Staged
    <3>5. SoloRun'
      BY <3>2, <3>3 DEF SoloRun, RunOpen
    <3>6. SharedReview'
      <4>1. ASSUME NEW q \in Reviewers \ {r}
            PROVE  /\ Open(q)' => (saved.asked \/ ByReviewer(saved))'
                   /\ phase'[q] \in {"running", "emitted"} =>
                         \/ mine'[q].next = "human_review"
                         \/ (ByReviewer(mine[q]) /\ ByReviewer(saved))'
        BY <1>2, <3>1, <3>2 DEF SharedReview, ByReviewer, Open
      <4>2. /\ (saved.asked \/ ByReviewer(saved))'
            /\ \/ mine'[r].next = "human_review"
               \/ (ByReviewer(mine[r]) /\ ByReviewer(saved))'
        BY <3>1, <3>2, <3>3, <3>4 DEF ByReviewer
      <4>. QED  BY <4>1, <4>2 DEF SharedReview
    <3>7. StagedInv'
      BY <1>2, <3>1 DEF StagedInv, Staged, Decided, ByReviewer, CaseTypeOK
    <3>. QED  BY <1>2, <3>1, <3>5, <3>6, <3>7 DEF StandInv, AcceptedByAnalyst
  <2>2. CASE ReviewAnswered(r)
    <3>1. /\ UNCHANGED <<saved, mine>> /\ phase[r] = "running" /\ phase'[r] = "idle"
          /\ phase'["run"] = phase["run"] /\ mine[r].next = "end"
          /\ \A q \in Reviewers \ {r} : phase'[q] = phase[q] /\ answer'[q] = answer[q]
      BY <1>2, <2>2 DEF ReviewAnswered, Executing, Become, CaseTypeOK
    <3>2. ByReviewer(saved)
      BY <1>2, <3>1 DEF SharedReview
    <3>3. SoloRun' /\ SharedReview'
      BY <1>2, <3>1 DEF SoloRun, RunOpen, SharedReview, ByReviewer, Open
    <3>4. AcceptedByAnalyst'
      BY <1>2, <3>1, <3>2 DEF AcceptedByAnalyst, ByReviewer
    <3>. QED  BY <1>3, <3>1, <3>3, <3>4
  <2>. QED  BY <1>10, <2>1, <2>2 DEF ReviewStep
<1>11. ASSUME NEW i \in Invocations, NodeStep(i) PROVE StandInv' /\ [StandStep]_saved
  <2>1. CASE NodeEmits(i)
    <3>1. /\ UNCHANGED <<saved, mine, answer>> /\ phase[i] = "running" /\ phase'[i] = "emitted"
          /\ \A j \in Invocations \ {i} : phase'[j] = phase[j]
      BY <1>2, <2>1 DEF NodeEmits, Become, CaseTypeOK
    <3>2. SoloRun'
      BY <1>2, <3>1 DEF SoloRun, RunOpen, Open
    <3>3. SharedReview'
      BY <1>2, <3>1 DEF SharedReview, ByReviewer, Open
    <3>. QED  BY <1>2, <1>3, <3>1, <3>2, <3>3 DEF AcceptedByAnalyst
  <2>2. CASE NodeReturns(i)
    <3>1. /\ UNCHANGED answer /\ phase[i] = "emitted" /\ phase'[i] = "running"
          /\ \A j \in Invocations \ {i} : phase'[j] = phase[j] /\ mine'[j] = mine[j]
          /\ mine'[i] = Returned(i) /\ saved' = Returned(i)
      BY <1>2, <2>2 DEF NodeReturns, Become, Save, CaseTypeOK
    <3>2. Emitting(i) /\ mine[i] \in Checkpoint /\ Staged(mine[i])
      BY <1>2, <3>1 DEF StagedInv, CaseTypeOK
    <3>3. Staged(Returned(i)) /\ ~Returned(i).asked /\ Returned(i).outcome \in Outcomes
      BY <3>2, ReturnedStaged
    <3>4. StagedInv'
      BY <1>2, <2>2, <3>3, SaveStaged DEF NodeReturns
    <3>5. CASE i = "run"
      <4>1. mine[i].next # "human_review" /\ mine[i] = saved
        BY <1>2, <3>1, <3>2, <3>5, ReturnedStaged DEF SoloRun
      <4>2. saved'.by = saved.by /\ saved'.outcome = saved.outcome
        BY <3>1, <3>2, <4>1, ReturnedStaged
      <4>3. \A r \in Reviewers : ~Open(r) /\ ~Open(r)'
        BY <1>2, <3>1, <3>5 DEF SoloRun, RunOpen, Open
      <4>4. SoloRun' /\ SharedReview'
        BY <3>1, <3>3, <3>5, <4>3 DEF SoloRun, RunOpen, SharedReview, Open
      <4>5. AcceptedByAnalyst'
        BY <1>2, <3>1, <4>2 DEF AcceptedByAnalyst
      <4>6. saved.by = "system" \/ saved.by \in Reviewers
        BY <3>2, <4>1 DEF Emitting, Staged, Decided, ByReviewer
      <4>7. StandStep
        BY <3>1, <3>3, <4>2, <4>6 DEF StandStep
      <4>. QED  BY <1>2, <3>4, <4>4, <4>5, <4>7 DEF StandInv
    <3>6. CASE i \in Reviewers
      <4>1. ~RunOpen /\ (saved.asked \/ ByReviewer(saved))
        BY <1>2, <3>1, <3>6 DEF SoloRun, SharedReview, Open
      <4>2. ByReviewer(Returned(i))
        BY <1>2, <3>1, <3>2, <3>6, ReturnedStaged DEF SharedReview, ByReviewer
      <4>3. SoloRun'
        BY <3>1, <3>6, <4>1 DEF SoloRun, RunOpen
      <4>4. SharedReview'
        BY <1>2, <3>1, <3>6, <4>2 DEF SharedReview, ByReviewer, Open
      <4>5. AcceptedByAnalyst'
        BY <3>1, <4>2 DEF AcceptedByAnalyst, ByReviewer
      <4>6. saved.asked => saved.outcome \notin Outcomes
        BY <1>2 DEF StagedInv, Staged, Outcomes
      <4>7. StandStep
        BY <3>1, <3>3, <4>1, <4>2, <4>6 DEF StandStep, ByReviewer
      <4>. QED  BY <1>2, <3>4, <4>3, <4>4, <4>5, <4>7 DEF StandInv
    <3>. QED  BY <3>5, <3>6
  <2>. QED  BY <1>11, <2>1, <2>2 DEF NodeStep
<1>. QED  BY <1>1, <1>5, <1>6, <1>7, <1>8, <1>9, <1>10, <1>11 DEF CaseNext, CaseStep

(* Reviews that overlap may replace each other's verdict, but no step      *)
(* takes a verdict back, asks the question again or touches what the       *)
(* system decided, for any reviewers, clients and restarts.                *)
THEOREM VerdictStandsHolds == Spec => VerdictStands
<1>1. StandInv /\ [Next]_vars => StandInv' /\ [StandStep]_saved
  BY StandInvStep, ViewersOnlyLook
<1>. QED  BY StandInit, <1>1, PTL DEF Spec, VerdictStands

(* Whoever is answered 200 finds the case decided by an analyst, with the  *)
(* outcome that analyst posted, reviews that overlap included.             *)
THEOREM AcceptedByAnalystHolds == Spec => []AcceptedByAnalyst
<1>1. StandInv /\ [Next]_vars => StandInv'
  BY StandInvStep, ViewersOnlyLook
<1>2. StandInv => AcceptedByAnalyst
  BY DEF StandInv
<1>. QED  BY StandInit, <1>1, <1>2, PTL DEF Spec

(***************************************************************************)
(* Reviews that do not overlap implement CaseDesk.  What the desk sees of  *)
(* a checkpoint are its status, its question and its verdict; the copies   *)
(* of the invocations are not seen, because each is the latest checkpoint. *)
(***************************************************************************)
LEMMA DeskInit == Init => DeskInv /\ Desk!Init
<1>1. Init => DeskInv
  BY SoloInit, StandInit, InvocationsType DEF Init, DeskInv, Open
<1>2. Init => Desk!Init
  BY DEF Init, Desk!Init, Desk!NoVerdict, NoCheckpoint, Outcomes
<1>. QED  BY <1>1, <1>2

LEMMA DeskInvStep == ~Overlap /\ DeskInv /\ [CaseNext]_caseVars => DeskInv'
<1>1. SUFFICES ASSUME ~Overlap, DeskInv, [CaseNext]_caseVars PROVE DeskInv'
  OBVIOUS
<1>2. SoloInv /\ SoloInv' /\ StandInv /\ StandInv' /\ CaseTypeOK /\ CaseTypeOK'
  BY <1>1, SoloStep, StandInvStep DEF DeskInv, SoloInv
<1>. USE InvocationsType
<1>. SUFFICES ASSUME NEW r \in Reviewers
              PROVE  /\ Open(r)' => answer'[r] = 0
                     /\ phase'[r] \in {"running", "emitted"} /\ saved'.next = "human_review"
                           => saved'.asked
  BY <1>2 DEF DeskInv
<1>3. /\ Open(r) => answer[r] = 0
      /\ phase[r] \in {"running", "emitted"} /\ saved.next = "human_review" => saved.asked
  BY <1>1 DEF DeskInv
<1>4. CASE phase'["run"] \in {"idle", "accepted", "running", "emitted"}
  BY <1>2, <1>4 DEF SoloInv, SoloRun, RunOpen, Open
(* Steps that neither store a checkpoint nor concern r. *)
<1>5. ASSUME UNCHANGED saved, phase'[r] \in {phase[r], "idle"}, answer'[r] = answer[r]
      PROVE  /\ Open(r)' => answer'[r] = 0
             /\ phase'[r] \in {"running", "emitted"} /\ saved'.next = "human_review"
                   => saved'.asked
  BY <1>3, <1>5 DEF Open
<1>6. CASE UNCHANGED caseVars \/ Submit \/ RunFails \/ RunEnds \/ Restart
  <2>1. UNCHANGED <<saved, answer>>
    BY <1>6 DEF caseVars, Submit, RunFails, RunEnds, Restart
  <2>2. phase'[r] \in {phase[r], "idle"}
    <3>1. r # "run" /\ phase \in [Invocations -> {"idle", "accepted", "checked", "running",
                                                  "emitted", "ended"}]
      BY <1>2, ServiceAssumption DEF CaseTypeOK
    <3>2. CASE UNCHANGED caseVars
      BY <3>2 DEF caseVars
    <3>3. CASE Submit \/ RunFails \/ RunEnds
      BY <3>1, <3>3 DEF Submit, RunFails, RunEnds, Become
    <3>4. CASE Restart
      BY <3>1, <3>4 DEF Restart
    <3>. QED  BY <1>6, <3>2, <3>3, <3>4
  <2>. QED  BY <1>5, <2>1, <2>2
<1>7. CASE RunBegins \/ Intake \/ Decides \/ Escalates
  <2>1. CASE RunBegins
    BY <1>2, <1>4, <2>1 DEF RunBegins, Become, CaseTypeOK
  <2>2. CASE Intake \/ Decides \/ Escalates
    <3>1. phase'["run"] = "running"
      BY <2>2 DEF Intake, Decides, Escalates, Executing
    <3>. QED  BY <1>4, <3>1
  <2>. QED  BY <1>7, <2>1, <2>2
<1>8. CASE Interrupts
  <2>1. phase[r] = phase'[r] /\ ~Open(r)
    BY <1>2, <1>8, ServiceAssumption
    DEF Interrupts, Executing, Become, CaseTypeOK, SoloInv, SoloRun, RunOpen
  <2>. QED  BY <2>1 DEF Open
<1>9. ASSUME NEW q \in Reviewers, Asks(q) \/ ReviewStep(q)
      PROVE  /\ Open(r)' => answer'[r] = 0
             /\ phase'[r] \in {"running", "emitted"} /\ saved'.next = "human_review"
                   => saved'.asked
  <2>1. UNCHANGED saved
    BY <1>9 DEF Asks, ReviewRefused, ReviewChecked, MayAsk, ReviewStep, ReviewLoads, ReviewAnswered
  <2>2. CASE q # r
    <3>1. phase'[r] = phase[r] /\ answer'[r] = answer[r]
      BY <1>2, <1>9, <2>2
      DEF Asks, ReviewRefused, ReviewChecked, MayAsk, ReviewStep, ReviewLoads, ReviewAnswered,
          Become, CaseTypeOK
    <3>. QED  BY <1>5, <2>1, <3>1
  <2>3. CASE q = r
    <3>1. CASE ReviewRefused(r)
      BY <1>2, <3>1 DEF ReviewRefused, MayAsk, CaseTypeOK, Open
    <3>2. CASE ReviewChecked(r)
      BY <1>2, <3>2 DEF ReviewChecked, Become, CaseTypeOK
    <3>3. CASE ReviewLoads(r)
      <4>1. phase[r] = "checked" /\ answer'[r] = answer[r]
        BY <3>3 DEF ReviewLoads
      <4>. QED  BY <1>2, <1>3, <2>1, <4>1 DEF SoloInv, SoloReview, Open
    <3>4. CASE ReviewAnswered(r)
      BY <1>2, <3>4 DEF ReviewAnswered, Become, CaseTypeOK, Open
    <3>. QED  BY <1>9, <2>3, <3>1, <3>2, <3>3, <3>4 DEF Asks, ReviewStep
  <2>. QED  BY <2>2, <2>3
<1>10. ASSUME NEW i \in Invocations, NodeEmits(i)
       PROVE  /\ Open(r)' => answer'[r] = 0
              /\ phase'[r] \in {"running", "emitted"} /\ saved'.next = "human_review"
                    => saved'.asked
  <2>1. UNCHANGED <<saved, answer>> /\ (phase'[r] = phase[r] \/ phase[r] = "running")
    BY <1>2, <1>10 DEF NodeEmits, Become, CaseTypeOK
  <2>. QED  BY <1>3, <2>1 DEF Open
<1>11. ASSUME NEW i \in Invocations, NodeReturns(i)
       PROVE  /\ Open(r)' => answer'[r] = 0
              /\ phase'[r] \in {"running", "emitted"} /\ saved'.next = "human_review"
                    => saved'.asked
  <2>1. UNCHANGED answer /\ saved' = Returned(i)
        /\ (phase'[r] = phase[r] \/ phase[r] = "emitted")
    BY <1>2, <1>11 DEF NodeReturns, Become, Save, CaseTypeOK
  <2>2. Returned(i).next \in {"finalize", "end"}
    BY <1>2, <1>11, ReturnedType DEF NodeReturns, CaseTypeOK
  <2>. QED  BY <1>3, <2>1, <2>2 DEF Open
<1>. QED  BY <1>1, <1>6, <1>7, <1>8, <1>9, <1>10, <1>11
          DEF CaseNext, CaseStep, RunStep, NodeStep

(* What the nodes before the question store, seen from the desk. *)
LEMMA DeskRuns ==
    ASSUME DeskInv, RunBegins \/ Intake \/ Decides \/ Escalates \/ Interrupts
    PROVE  Desk!Receive \/ Desk!Begin \/ Desk!DecideAlone \/ Desk!Escalate \/ Desk!Ask
<1>. USE InvocationsType
<1>1. CaseTypeOK /\ StagedInv /\ SoloRun
  BY DEF DeskInv, StandInv
<1>2. CASE RunBegins
  <2>1. saved = NoCheckpoint /\ saved' = Input /\ UNCHANGED answer
    BY <1>1, <1>2 DEF RunBegins, Save, SoloRun
  <2>. QED  BY <2>1 DEF Desk!Receive, Input, NoCheckpoint, Outcomes
<1>3. ASSUME Intake \/ Decides \/ Escalates
      PROVE  /\ mine["run"] = saved /\ saved \in Stored /\ ~saved.asked
             /\ saved.outcome = "none" /\ UNCHANGED answer
  <2>1. mine["run"] = saved /\ saved.next = "work" /\ UNCHANGED answer /\ ~saved.asked
    BY <1>1, <1>3 DEF Intake, Decides, Escalates, Executing, SoloRun, RunOpen
  <2>2. saved \in Stored /\ saved.outcome = "none"
    BY <1>1, <2>1, StoredType DEF CaseTypeOK, StagedInv, Staged
  <2>. QED  BY <2>1, <2>2
<1>4. CASE Intake
  <2>1. /\ saved.status = "received" /\ saved'.status = "processing"
        /\ saved'.asked = saved.asked /\ saved'.outcome = saved.outcome
    BY <1>3, <1>4 DEF Intake, Save, Stored
  <2>. QED  BY <1>3, <1>4, <2>1 DEF Desk!Begin, Outcomes
<1>5. CASE Decides
  <2>1. PICK o \in Outcomes :
           saved' = [mine["run"] EXCEPT !.next = "auto_decision", !.outcome = o,
                                        !.by = "system"]
    BY <1>5 DEF Decides, Save
  <2>2. /\ saved.status = "processing" /\ saved'.status = saved.status
        /\ saved'.asked = saved.asked /\ saved'.outcome = o /\ saved'.by = "system"
    BY <1>3, <1>5, <2>1 DEF Decides, Stored
  <2>. QED  BY <1>3, <1>5, <2>2 DEF Desk!DecideAlone, Desk!NoVerdict, Desk!Verdict, Outcomes
<1>6. CASE Escalates
  <2>1. /\ saved.status = "processing" /\ saved'.status = "awaiting_human_review"
        /\ saved'.asked = saved.asked /\ saved'.outcome = "escalate"
    BY <1>3, <1>6 DEF Escalates, Save, Stored
  <2>. QED  BY <1>3, <1>6, <2>1 DEF Desk!Escalate, Desk!NoVerdict, Outcomes
<1>7. CASE Interrupts
  <2>1. mine["run"] = saved /\ saved.next = "human_review" /\ UNCHANGED answer /\ ~saved.asked
    BY <1>1, <1>7 DEF Interrupts, Executing, SoloRun, RunOpen
  <2>2. /\ saved \in Stored /\ saved.status = "awaiting_human_review"
        /\ saved.outcome = "escalate"
    BY <1>1, <2>1, StoredType DEF CaseTypeOK, StagedInv, Staged
  <2>3. /\ saved'.asked = TRUE /\ saved'.status = saved.status
        /\ saved'.outcome = saved.outcome
    BY <1>7, <2>1, <2>2 DEF Interrupts, Stored
  <2>4. ~saved.asked /\ saved'.asked
    BY <2>1, <2>3
  <2>. QED  BY <2>1, <2>2, <2>3, <2>4 DEF Desk!Ask, Desk!NoVerdict, Outcomes
<1>. QED  BY <1>2, <1>4, <1>5, <1>6, <1>7

(* A review that is refused, admitted or confirmed. *)
LEMMA DeskAsks ==
    ASSUME ~Overlap, DeskInv, NEW r \in Reviewers, Asks(r) \/ ReviewStep(r)
    PROVE  \/ Desk!Refuse(r) \/ Desk!Admit(r) \/ Desk!Confirm(r)
           \/ UNCHANGED <<saved, answer>>
<1>. USE InvocationsType
<1>1. CaseTypeOK /\ SoloInv /\ StagedInv
  BY DEF DeskInv, StandInv
<1>2. CASE ReviewRefused(r)
  <2>1. /\ Refusal(saved) # 0 /\ UNCHANGED saved
        /\ answer' = [answer EXCEPT ![r] = Refusal(saved)]
    BY <1>2 DEF ReviewRefused, MayAsk
  <2>2. saved = NoCheckpoint <=> saved.status = "none"
    BY <1>1 DEF CaseTypeOK, Checkpoint, Stored, Statuses, NoCheckpoint
  <2>3. ~saved.asked
    BY <2>1 DEF Refusal, NoCheckpoint
  <2>4. Refusal(saved) = IF saved.status = "none" THEN 404 ELSE 409
    BY <2>2, <2>3 DEF Refusal
  <2>. QED  BY <2>1, <2>3, <2>4 DEF Desk!Refuse
<1>3. CASE ReviewChecked(r)
  <2>1. /\ Refusal(saved) = 0 /\ UNCHANGED saved /\ answer' = [answer EXCEPT ![r] = 0]
    BY <1>3 DEF ReviewChecked, MayAsk
  <2>2. saved.asked
    BY <2>1 DEF Refusal
  <2>. QED  BY <2>1, <2>2 DEF Desk!Admit
<1>4. CASE ReviewAnswered(r)
  <2>1. /\ UNCHANGED saved /\ phase[r] = "running" /\ mine[r].next = "end"
        /\ answer' = [answer EXCEPT ![r] = 200]
    BY <1>4 DEF ReviewAnswered, Executing
  <2>2. saved.next = "end" /\ saved.by = r /\ saved.outcome = Wants[r]
    BY <1>1, <2>1 DEF SoloInv, SoloReview
  <2>3. saved.status = "completed" /\ saved.outcome \in Outcomes
    BY <1>1, <2>2 DEF StagedInv, Staged, Decided
  <2>4. answer[r] = 0
    BY <2>1 DEF DeskInv, Open
  <2>. QED  BY <2>1, <2>2, <2>3, <2>4 DEF Desk!Confirm, Desk!Verdict
<1>5. CASE ReviewLoads(r)
  BY <1>5 DEF ReviewLoads
<1>. QED  BY <1>2, <1>3, <1>4, <1>5 DEF Asks, ReviewStep

(* The checkpoint of human_review is the instant of the decision, that of  *)
(* finalize the completion; that of auto_decision is not seen.             *)
LEMMA DeskNodes ==
    ASSUME ~Overlap, DeskInv, NEW i \in Invocations, NodeReturns(i)
    PROVE  \/ i \in Reviewers /\ Desk!Decide(i)
           \/ Desk!Complete
           \/ UNCHANGED Desk!desk
<1>. USE InvocationsType
<1>1. CaseTypeOK /\ SoloInv /\ StagedInv
  BY DEF DeskInv, StandInv
<1>2. phase[i] = "emitted" /\ saved' = Returned(i) /\ UNCHANGED answer
  BY DEF NodeReturns, Save
<1>3. Emitting(i) /\ mine[i] = saved /\ mine[i] \in Checkpoint /\ Staged(mine[i])
  BY <1>1, <1>2 DEF SoloInv, SoloRun, SoloReview, CaseTypeOK, StagedInv
<1>4. ~saved'.asked /\ saved'.outcome \in Outcomes
  BY <1>2, <1>3, ReturnedStaged
<1>5. CASE mine[i].next = "human_review"
  <2>1. /\ i \in Reviewers /\ saved'.by = i /\ saved'.outcome = Wants[i]
        /\ saved'.status = "awaiting_human_review"
    BY <1>2, <1>3, <1>5, ReturnedStaged
  <2>2. saved.status = "awaiting_human_review"
    BY <1>3, <1>5 DEF Staged
  <2>3. answer[i] = 0 /\ saved.asked
    BY <1>2, <1>3, <1>5, <2>1 DEF DeskInv, Open
  <2>4. saved'.asked = FALSE
    BY <1>1, <1>2, <1>3, <1>4, ReturnedType, Zenon DEF Stored
  <2>. QED  BY <1>2, <1>4, <2>1, <2>2, <2>3, <2>4 DEF Desk!Decide, Desk!Verdict
<1>6. CASE mine[i].next # "human_review"
  <2>1. /\ saved'.by = saved.by /\ saved'.outcome = saved.outcome
        /\ saved.outcome \in Outcomes
    BY <1>2, <1>3, <1>6, ReturnedStaged
  <2>2. saved'.asked = saved.asked
    <3>1. ~saved.asked
      BY <1>3, <1>6 DEF Staged
    <3>2. saved \in Stored /\ saved' \in Stored
      BY <1>2, <1>3, ReturnedType, StoredType DEF Emitting
    <3>3. saved.asked \in BOOLEAN /\ saved'.asked \in BOOLEAN
      BY <3>2, Zenon DEF Stored
    <3>. QED  BY <1>4, <3>1, <3>3
  <2>3. CASE mine[i].next = "auto_decision"
    <3>1. saved'.status = saved.status
      BY <1>2, <1>3, <2>3, ReturnedStaged
    <3>. QED  BY <1>2, <2>1, <2>2, <3>1 DEF Desk!desk
  <2>4. CASE mine[i].next = "finalize"
    <3>1. saved'.status = "completed"
      BY <1>2, <1>3, <2>4, ReturnedStaged
    <3>2. saved.status \in {"processing", "awaiting_human_review"}
      BY <1>3, <2>4 DEF Staged
    <3>3. saved.outcome # "none"
      BY <2>1 DEF Outcomes
    <3>. QED  BY <1>2, <2>1, <2>2, <3>1, <3>2, <3>3 DEF Desk!Complete, Desk!NoVerdict
  <2>. QED  BY <1>3, <1>6, <2>3, <2>4 DEF Emitting
<1>. QED  BY <1>5, <1>6

LEMMA DeskStep ==
    ~Overlap /\ DeskInv /\ [CaseNext]_caseVars => DeskInv' /\ [Desk!Next]_(Desk!desk)
<1>1. SUFFICES ASSUME ~Overlap, DeskInv, [CaseNext]_caseVars
               PROVE  DeskInv' /\ [Desk!Next]_(Desk!desk)
  OBVIOUS
<1>2. DeskInv'
  BY <1>1, DeskInvStep
<1>3. ASSUME UNCHANGED <<saved, answer>> PROVE UNCHANGED Desk!desk
  BY <1>3 DEF Desk!desk
<1>4. CASE UNCHANGED caseVars \/ Submit \/ RunFails \/ RunEnds \/ Restart
  BY <1>2, <1>3, <1>4 DEF caseVars, Submit, RunFails, RunEnds, Restart
<1>5. CASE RunBegins \/ Intake \/ Decides \/ Escalates \/ Interrupts
  BY <1>1, <1>2, <1>5, DeskRuns DEF Desk!Next
<1>6. ASSUME NEW r \in Reviewers, Asks(r) \/ ReviewStep(r)
      PROVE  [Desk!Next]_(Desk!desk)
  BY <1>1, <1>3, <1>6, DeskAsks DEF Desk!Next
<1>7. ASSUME NEW i \in Invocations, NodeStep(i) PROVE [Desk!Next]_(Desk!desk)
  <2>1. CASE NodeEmits(i)
    BY <1>3, <2>1 DEF NodeEmits
  <2>2. CASE NodeReturns(i)
    BY <1>1, <2>2, DeskNodes DEF Desk!Next
  <2>. QED  BY <1>7, <2>1, <2>2 DEF NodeStep
<1>. QED  BY <1>1, <1>2, <1>4, <1>5, <1>6, <1>7 DEF CaseNext, CaseStep, RunStep

(* Analysts who review one at a time see a desk: each review takes effect  *)
(* at one instant while the question is open or not at all, and its answer *)
(* is truthful, for any reviewers, clients and restarts.                   *)
THEOREM ImplementsDeskHolds ==
    ASSUME ~Overlap
    PROVE  Spec => ImplementsDesk
<1>1. Init => DeskInv /\ Desk!Init
  BY DeskInit
<1>2. DeskInv /\ [Next]_vars => DeskInv' /\ [Desk!Next]_(Desk!desk)
  BY DeskStep, ViewersOnlyLook
<1>. QED  BY <1>1, <1>2, PTL DEF Spec, ImplementsDesk, Desk!Spec
===============================================================================
