-------------------------- MODULE CaseLifecycle_proofs --------------------------
(***************************************************************************)
(* The pipeline implements CaseLifecycle: every step of the graph, every   *)
(* failure and every crash is a step of the life the documentation         *)
(* promises, or no step of it at all.                                      *)
(***************************************************************************)
EXTENDS CasePipeline_proofs

Mandatory == risk.triggered # {} \/ degraded # {}
VerdictOf(d) == IF d.outcome \in Outcomes
                THEN [outcome |-> d.outcome, decided_by |-> d.decided_by]
                ELSE [outcome |-> "none", decided_by |-> "none"]

(* The abstract step taken, when the three mapped values make it. *)
LEMMA StutterMaps ==
  ASSUME status' = status, Mandatory' <=> Mandatory, VerdictOf(decision)' = VerdictOf(decision)
  PROVE  [Lifecycle!Next]_(Lifecycle!lifecycle)
BY DEF Lifecycle!lifecycle, Mandatory, VerdictOf

LEMMA RequireHumanMaps ==
  ASSUME status = "processing", status' = status, decision = NoDecision,
         UNCHANGED decision, Mandatory'
  PROVE  Lifecycle!Next
<1>1. Lifecycle!RequireHuman
  BY DEF Lifecycle!RequireHuman, Lifecycle!NoVerdict, Mandatory, NoDecision, None, Outcomes
<1>. QED  BY <1>1 DEF Lifecycle!Next

LEMMA BeginMaps == DecisionInv /\ Intake => Lifecycle!Next
<1>1. SUFFICES ASSUME DecisionInv, Intake PROVE Lifecycle!Begin
  BY DEF Lifecycle!Next
<1>2. status = "received" /\ status' = "processing" /\ UNCHANGED <<risk, degraded, decision>>
  BY <1>1 DEF Intake, Running, DecisionInv, BeforeGate
<1>. QED  BY <1>2 DEF Lifecycle!Begin

(* Before the gate a step can only add reasons to ask a human. *)
LEMMA BeforeGateMaps ==
  ASSUME DecisionInv,
         \/ RouterClassifies \/ RouterExhausted \/ Orchestrator \/ FanIn
         \/ ValidatorReports \/ ValidatorExhausted \/ RiskScorer \/ HandleError
  PROVE  [Lifecycle!Next]_(Lifecycle!lifecycle)
<1>1. next \in Undecided \ {"intake", "decision_gate"}
  BY DEF RouterClassifies, RouterExhausted, Orchestrator, FanIn, ValidatorReports,
         ValidatorExhausted, RiskScorer, HandleError, Running, Undecided
<1>2. status = "processing" /\ decision = NoDecision /\ risk = NoRisk
  BY <1>1 DEF DecisionInv, BeforeGate
<1>3. UNCHANGED decision
  BY DEF RouterClassifies, RouterExhausted, Orchestrator, FanIn, ValidatorReports,
         ValidatorExhausted, RiskScorer, HandleError
<1>4. status' = status
  BY <1>2 DEF RouterClassifies, RouterExhausted, Orchestrator, FanIn, ValidatorReports,
         ValidatorExhausted, RiskScorer, HandleError
<1>5. degraded \subseteq degraded'
  BY DEF RouterClassifies, RouterExhausted, Orchestrator, FanIn, ValidatorReports,
         ValidatorExhausted, RiskScorer, HandleError, Degrade
<1>6. Mandatory => Mandatory'
  BY <1>2, <1>5 DEF Mandatory, NoRisk
<1>7. CASE Mandatory'
  BY <1>2, <1>3, <1>4, <1>7, RequireHumanMaps
<1>8. CASE ~Mandatory'
  BY <1>3, <1>4, <1>6, <1>8, StutterMaps DEF VerdictOf
<1>. QED  BY <1>7, <1>8

(* The gate escalates what a human must decide, and decides the rest. *)
LEMMA GateMaps == DecisionInv /\ DecisionGate => Lifecycle!Next
<1>1. SUFFICES ASSUME DecisionInv, DecisionGate PROVE Lifecycle!Next
  OBVIOUS
<1>2. BeforeGate' /\ AfterGate'
  BY <1>1, DecisionGateStep
<1>3. /\ status = "processing" /\ decision = NoDecision
      /\ decision' = GateDecision /\ status' = GateStatus(GateDecision.outcome)
      /\ next' = IF GateDecision.outcome = "escalate" THEN "human_review" ELSE "auto_decision"
      /\ UNCHANGED <<risk, degraded>>
  BY <1>1 DEF DecisionGate, Running, Goto, DecisionInv, BeforeGate, Undecided
<1>4. CASE GateDecision.outcome = "escalate"
  <2>1. status' = "awaiting_human_review" /\ ~Unforced
    BY <1>2, <1>3, <1>4 DEF GateStatus, AfterGate, Unforced
  <2>2. Lifecycle!Escalate
    BY <1>3, <1>4, <2>1 DEF Lifecycle!Escalate, Lifecycle!NoVerdict, Unforced, NoDecision,
                            None, Outcomes
  <2>. QED  BY <2>2 DEF Lifecycle!Next
<1>5. CASE GateDecision.outcome # "escalate"
  <2>1. status' = "processing" /\ Alone' /\ Unforced'
    BY <1>2, <1>3, <1>5 DEF GateStatus, AfterGate
  <2>2. Lifecycle!DecideAlone
    BY <1>3, <2>1 DEF Lifecycle!DecideAlone, Lifecycle!NoVerdict, Lifecycle!Verdict, Unforced,
                      Alone, NoDecision, None, Outcomes
  <2>. QED  BY <2>2 DEF Lifecycle!Next
<1>. QED  BY <1>4, <1>5

LEMMA DecideByHumanMaps == DecisionInv /\ HumanReviewDecides => Lifecycle!Next
<1>1. SUFFICES ASSUME DecisionInv, HumanReviewDecides PROVE Lifecycle!DecideByHuman
  BY DEF Lifecycle!Next
<1>2. /\ next = "human_review" /\ resume \in Outcomes
      /\ decision'.outcome = resume /\ decision'.decided_by = "human"
      /\ UNCHANGED <<status, risk, degraded>>
  BY <1>1 DEF HumanReviewDecides, Running, ValidReview
<1>3. status = "awaiting_human_review" /\ decision.outcome = "escalate"
  BY <1>1, <1>2 DEF DecisionInv, AfterGate
<1>. QED  BY <1>2, <1>3 DEF Lifecycle!DecideByHuman, Lifecycle!NoVerdict, Lifecycle!Verdict,
                            Outcomes

LEMMA CompleteMaps == DecisionInv /\ Finalize => Lifecycle!Next
<1>1. SUFFICES ASSUME DecisionInv, Finalize PROVE Lifecycle!Complete
  BY DEF Lifecycle!Next
<1>2. /\ next = "finalize" /\ status' = "completed"
      /\ UNCHANGED <<decision, risk, degraded>>
  BY <1>1 DEF Finalize, Running
<1>3. status \in {"processing", "awaiting_human_review"}
  BY <1>1, <1>2 DEF DecisionInv, AfterGate
<1>4. decision.outcome \in Outcomes
  BY <1>1, <1>2 DEF DecisionInv, AfterGate, Alone, ByHuman
<1>. QED  BY <1>2, <1>3, <1>4 DEF Lifecycle!Complete, Lifecycle!NoVerdict, Outcomes

(* Everything else leaves the three mapped values alone. *)
LEMMA OutsideMaps ==
  ASSUME \/ \E d \in Docs : Worker(d)
         \/ ValidatorRaises \/ RecursionLimitHit \/ AutoDecision \/ HumanReviewInterrupts
         \/ \E value \in Outcomes \cup {"invalid"} : Review(value)
         \/ Crash \/ Stopped \/ UNCHANGED vars
  PROVE  [Lifecycle!Next]_(Lifecycle!lifecycle)
<1>1. UNCHANGED <<status, risk, degraded, decision>>
  BY DEF Worker, ExtractDocument, ExtractUnreadable, ExtractExhausted, Working,
         ValidatorRaises, RecursionLimitHit, AutoDecision, HumanReviewInterrupts, Review,
         Crash, Stopped, vars, channels
<1>. QED  BY <1>1, StutterMaps DEF Mandatory, VerdictOf

LEMMA NextMaps == DecisionInv /\ [Next]_vars => [Lifecycle!Next]_(Lifecycle!lifecycle)
BY BeginMaps, BeforeGateMaps, GateMaps, DecideByHumanMaps, CompleteMaps, OutsideMaps
   DEF Next, Node

LEMMA InitMaps == Init => Lifecycle!Init
BY DEF Init, Lifecycle!Init, Lifecycle!NoVerdict, NoRisk, NoDecision, None, Outcomes

(* The graph implements the promised life of a case, for all constants. *)
THEOREM ImplementsLifecycleHolds == Spec => ImplementsLifecycle
BY InitMaps, NextMaps, AlwaysDecisionInv, PTL
   DEF Spec, ImplementsLifecycle, Lifecycle!Spec
================================================================================
