-------------------------- MODULE CasePipeline_proofs --------------------------
(***************************************************************************)
(* Theorems about CasePipeline, for every value of its constants.          *)
(***************************************************************************)
EXTENDS CasePipeline, RuleLemmas

-------------------------------------------------------------------------------
(***************************************************************************)
(* Type correctness                                                        *)
(***************************************************************************)
(* Whichever of the events are kept, the trail holds audit events only. *)
LEMMA EmitType ==
  ASSUME trail \subseteq AuditEvent, NEW events, events \subseteq AuditEvent, Emit(events)
  PROVE  trail' \subseteq AuditEvent
<1>1. PICK kept \in Kept(events) : trail' = trail \cup kept
  BY DEF Emit
<1>2. kept \subseteq events
  BY <1>1 DEF Kept
<1>. QED  BY <1>1, <1>2

(* The details of an event that is no rule. *)
LEMMA EventType ==
  ASSUME NEW node \in EventNodes, NEW type \in EventTypes, NEW what \in EventDetails
  PROVE  Event(node, type, what) \in AuditEvent
BY DEF Event, AuditEvent

(* Rule events of a node of the graph are audit events. *)
LEMMA RuleEventsType ==
  ASSUME NEW node \in EventNodes, NEW rules, rules \subseteq EventDetails
  PROVE  RuleEvents(node, rules) \subseteq AuditEvent
BY EventType DEF RuleEvents, EventTypes

(* The names that are screened are texts. *)
LEMMA NamesType ==
  ASSUME NEW applicant \in Packages, NEW exs, exs \subseteq ExtractionResult
  PROVE  /\ PersonNames(applicant, exs) \subseteq Texts
         /\ CompanyNames(applicant, exs) \subseteq Texts
         /\ OwnerNames(exs) \subseteq Texts
<1>1. applicant.full_name \in Texts /\ applicant.company_name \in Texts \cup {None}
  BY PackagesAssumption
<1>2. \A e \in exs : Got(e, "full_name") \subseteq Texts /\ Got(e, "company_name") \subseteq Texts
  BY GotIsText
<1>3. \A e \in exs : \A g \in Got(e, "beneficial_owners") : g \subseteq Texts
  <2>1. SUFFICES ASSUME NEW e \in exs, "beneficial_owners" \in DOMAIN e.reading.fields
                 PROVE  e.reading.fields["beneficial_owners"] \subseteq Texts
    BY DEF Got
  <2>2. e.reading \in AllReadings /\ e.reading # NoReading
    BY <2>1 DEF ExtractionResult, NoReading
  <2>3. PICK t \in KnownTypes : e.reading \in Readings[t]
    BY <2>2 DEF AllReadings
  <2>. QED  BY <2>1, <2>3, ReadingsAssumption
<1>4. PersonNames(applicant, exs) \subseteq Texts
  BY <1>1, <1>2 DEF PersonNames, Readable
<1>5. CompanyNames(applicant, exs) \subseteq Texts
  BY <1>1, <1>2 DEF CompanyNames, Readable
<1>6. OwnerNames(exs) \subseteq Texts
  BY <1>3 DEF OwnerNames, Readable
<1>. QED  BY <1>4, <1>5, <1>6

(* The initial state is well-typed. *)
LEMMA InitType == Init => TypeOK
<1>1. SUFFICES ASSUME Init PROVE TypeOK
  OBVIOUS
<1>2. NoResults \in [Docs -> Result]
  <2>1. NoReading \in AllReadings
    BY DEF AllReadings
  <2>2. Budget \in Nat
    BY RetriesAssumption DEF Budget
  <2>. QED  BY <2>1, <2>2 DEF NoResults, NoResult, Result
<1>3. steps \in 0..RecursionLimit /\ crashes \in 0..MaxCrashes
  BY <1>1, PipelineAssumption DEF Init
<1>4. NoValidation \in [flags: SUBSET RuleFlag, confidence: 0..100]
  BY DEF NoValidation
<1>. QED  BY <1>1, <1>2, <1>3, <1>4
          DEF Init, TypeOK, CaseStatus, NoRisk, NoInterrupt, Nodes, AuditEvent

(* The superstep that ends with Goto keeps the control well-typed. *)
LEMMA GotoType ==
  ASSUME TypeOK, NEW n, NEW m \in Nodes, Running(n), Goto(m)
  PROVE  /\ pkg' \in Packages
         /\ next' \in Nodes
         /\ results' \in [Docs -> Result]
         /\ run' \in {"running", "interrupted", "ended", "failed", "lost"}
         /\ interrupt' \in [pending: BOOLEAN, codes: SUBSET ReasonCodes, reject: BOOLEAN,
                            degraded: BOOLEAN, invalid: BOOLEAN]
         /\ resume' \in Outcomes \cup {"invalid", None}
         /\ steps' \in 0..RecursionLimit /\ crashes' \in 0..MaxCrashes
<1>1. steps + 1 \in 0..RecursionLimit
  BY PipelineAssumption DEF TypeOK, Running
<1>. QED  BY <1>1 DEF Goto, TypeOK

(* The attempts of a step are counted under a key of retry_counts. *)
LEMMA TriesType ==
  ASSUME NEW s \in Steps, NEW count \in 0..Budget
  PROVE  Tries(s, count) \subseteq Attempt
<1>1. Key(s) \in Steps
  BY DocsAssumption DEF Key, Steps
<1>2. Budget \in Nat
  BY RetriesAssumption DEF Budget
<1>. QED  BY <1>1, <1>2 DEF Tries, Attempt

(* The reducers of errors and retry_counts keep their types. *)
LEMMA CountType ==
  ASSUME TypeOK, NEW s \in Steps, NEW failed \in 0..Budget, NEW attempts \in 0..Budget,
         Count(s, failed, attempts)
  PROVE  errors' \subseteq Attempt /\ retries' \subseteq Attempt
BY TriesType DEF TypeOK, Count

LEMMA IntakeType == TypeOK /\ Intake => TypeOK'
<1>1. SUFFICES ASSUME TypeOK, Intake PROVE TypeOK'
  OBVIOUS
<1>2. trail' \subseteq AuditEvent
  <2>1. Completed("intake") \in AuditEvent
    BY EventType DEF Completed, EventNodes, Nodes, EventTypes, EventDetails
  <2>. QED  BY <1>1, <2>1, EmitType DEF Intake, TypeOK
<1>3. "router" \in Nodes
  BY DEF Nodes
<1>. QED  BY <1>1, <1>2, <1>3, GotoType DEF Intake, TypeOK, CaseStatus

LEMMA RouterType == TypeOK /\ (RouterClassifies \/ RouterExhausted) => TypeOK'
<1>0. Budget \in 0..Budget /\ \A n \in Recovered : n \in 0..Budget /\ n + 1 \in 0..Budget
  BY RetriesAssumption DEF Budget, Recovered
<1>1. "router" \in Steps /\ {"orchestrator", "handle_error"} \subseteq Nodes
  BY DEF Steps, Nodes
<1>2. ASSUME TypeOK, RouterClassifies PROVE TypeOK'
  <2>1. Completed("router") \in AuditEvent
    BY EventType DEF Completed, EventNodes, Nodes, EventTypes, EventDetails
  <2>2. trail' \subseteq AuditEvent
    BY <1>2, <2>1, EmitType DEF RouterClassifies, TypeOK
  <2>3. errors' \subseteq Attempt /\ retries' \subseteq Attempt
    BY <1>0, <1>1, <1>2, CountType DEF RouterClassifies
  <2>. QED  BY <1>1, <1>2, <2>2, <2>3, GotoType DEF RouterClassifies, TypeOK
<1>3. ASSUME TypeOK, RouterExhausted PROVE TypeOK'
  <2>1. Event("router", "error", None) \in AuditEvent
    BY EventType DEF EventNodes, Nodes, EventTypes, EventDetails
  <2>2. trail' \subseteq AuditEvent
    BY <1>3, <2>1, EmitType DEF RouterExhausted, TypeOK
  <2>3. errors' \subseteq Attempt /\ retries' \subseteq Attempt
    BY <1>0, <1>1, <1>3, CountType DEF RouterExhausted
  <2>. QED  BY <1>1, <1>3, <2>2, <2>3, GotoType DEF RouterExhausted, TypeOK, Degrade
<1>. QED  BY <1>2, <1>3

LEMMA OrchestratorType == TypeOK /\ Orchestrator => TypeOK'
<1>1. SUFFICES ASSUME TypeOK, Orchestrator PROVE TypeOK'
  OBVIOUS
<1>2. trail' \subseteq AuditEvent
  <2>1. Completed("orchestrator") \in AuditEvent
    BY EventType DEF Completed, EventNodes, Nodes, EventTypes, EventDetails
  <2>2. RuleEvents("orchestrator", {"INCOMPLETE_PACKAGE"}) \subseteq AuditEvent
    BY RuleEventsType DEF EventNodes, Nodes, EventDetails, ReasonCodes
  <2>3. \A key \in Unclassified : UnreadableEvent(key) \in AuditEvent
    BY DocsAssumption, EventType
    DEF Unclassified, UnreadableEvent, EventNodes, Nodes, EventTypes, EventDetails
  <2>. QED  BY <1>1, <2>1, <2>2, <2>3, EmitType DEF Orchestrator, TypeOK
<1>3. degraded' \subseteq Steps /\ incomplete' \in BOOLEAN
  <2>1. Unclassified \subseteq Docs
    BY DocsAssumption DEF Unclassified
  <2>2. degraded' = degraded \cup Unclassified
    BY <1>1 DEF Orchestrator, Degrade
  <2>3. degraded' \subseteq Steps
    BY <1>1, <2>1, <2>2 DEF TypeOK, Steps
  <2>4. incomplete' \in BOOLEAN
    BY <1>1 DEF Orchestrator, Incomplete
  <2>. QED  BY <2>3, <2>4
<1>4. {"decision_gate", "extract_document"} \subseteq Nodes
  BY DEF Nodes
<1>. QED  BY <1>1, <1>2, <1>3, <1>4, GotoType DEF Orchestrator, TypeOK

LEMMA WorkerType == TypeOK /\ (\E d \in Docs : Worker(d)) => TypeOK'
<1>1. SUFFICES ASSUME TypeOK, NEW d \in Docs, Worker(d) PROVE TypeOK'
  OBVIOUS
<1>2. Budget \in Nat /\ Recovered \subseteq 0..Budget /\ \A n \in Recovered : n + 1 \in 0..Budget
  BY RetriesAssumption DEF Budget, Recovered
<1>3. NoReading \in AllReadings
  BY DEF AllReadings
<1>4. Working(d) /\ d \in Known
  BY <1>1 DEF Worker, ExtractDocument, ExtractUnreadable, ExtractExhausted, Working, Pending
<1>5. Readings[classified[d]] \subseteq AllReadings
  BY <1>4 DEF Known, AllReadings
<1>6. \A e \in BOOLEAN, r \in AllReadings, n \in 0..Budget, a \in 0..Budget :
         Return(d, e, r, n, a) => results' \in [Docs -> Result]
  BY <1>1 DEF Return, Result, TypeOK
<1>7. results' \in [Docs -> Result]
  <2>1. CASE ExtractDocument(d)
    <3>1. PICK reading \in Readings[classified[d]], failed \in Recovered :
             Return(d, FALSE, reading, failed, failed + 1)
      BY <2>1 DEF ExtractDocument
    <3>2. reading \in AllReadings /\ failed \in 0..Budget /\ failed + 1 \in 0..Budget
      BY <1>2, <1>5, <3>1
    <3>. QED  BY <1>6, <3>1, <3>2
  <2>2. CASE ExtractUnreadable(d)
    <3>1. PICK failed \in Recovered : Return(d, TRUE, NoReading, failed, failed + 1)
      BY <2>2 DEF ExtractUnreadable
    <3>2. failed \in 0..Budget /\ failed + 1 \in 0..Budget
      BY <1>2, <3>1
    <3>. QED  BY <1>3, <1>6, <3>1, <3>2
  <2>3. CASE ExtractExhausted(d)
    <3>1. Budget \in 0..Budget
      BY <1>2
    <3>. QED  BY <1>3, <1>6, <2>3, <3>1 DEF ExtractExhausted
  <2>. QED  BY <1>1, <2>1, <2>2, <2>3 DEF Worker
<1>8. trail' \subseteq AuditEvent
  <2>1. Completed(Source[d]) \in AuditEvent /\ Event(Source[d], "error", None) \in AuditEvent
    BY DocsAssumption, EventType DEF Completed, EventNodes, EventTypes, EventDetails
  <2>. QED  BY <1>1, <2>1, EmitType
            DEF Worker, ExtractDocument, ExtractUnreadable, ExtractExhausted, TypeOK
<1>. QED  BY <1>1, <1>4, <1>7, <1>8 DEF Working, TypeOK, channels

LEMMA FanInType == TypeOK /\ FanIn => TypeOK'
<1>1. SUFFICES ASSUME TypeOK, FanIn PROVE TypeOK'
  OBVIOUS
<1>2. \A d \in Known : Extraction(d) \in ExtractionResult
  BY <1>1, DocsAssumption DEF Extraction, ExtractionResult, TypeOK, Result, Known
<1>3. extractions' \subseteq ExtractionResult
  BY <1>1, <1>2 DEF FanIn, TypeOK
<1>4. degraded' \subseteq Steps
  <2>1. Unreadable \subseteq Docs
    BY DocsAssumption DEF Unreadable, Known
  <2>2. degraded' = degraded \cup Unreadable
    BY <1>1 DEF FanIn, Degrade
  <2>. QED  BY <1>1, <2>1, <2>2 DEF TypeOK, Steps
<1>5. \A d \in Known : /\ Tries(d, results[d].errors) \subseteq Attempt
                       /\ Tries(d, results[d].attempts) \subseteq Attempt
  BY <1>1, TriesType DEF TypeOK, Result, Known, Steps
<1>6. errors' \subseteq Attempt /\ retries' \subseteq Attempt
  BY <1>1, <1>5 DEF FanIn, TypeOK
<1>7. NoResults \in [Docs -> Result]
  BY RetriesAssumption DEF NoResults, NoResult, Result, AllReadings, Budget
<1>8. steps' \in 0..RecursionLimit
  BY <1>1, PipelineAssumption DEF FanIn, Running, TypeOK
<1>. QED  BY <1>1, <1>3, <1>4, <1>6, <1>7, <1>8 DEF FanIn, TypeOK, Nodes

LEMMA ValidatorType ==
  TypeOK /\ (ValidatorReports \/ ValidatorExhausted \/ ValidatorRaises) => TypeOK'
<1>1. ASSUME TypeOK, ValidatorReports PROVE TypeOK'
  <2>1. PICK ungrounded \in SUBSET GroundingCalls :
          LET grounding == GroundingFlags(ungrounded)
              flags == RunValidationRules(pkg, extractions) \cup grounding
          IN  /\ validation' =
                   [flags |-> flags,
                    confidence |-> OverallConfidence(extractions, grounding, flags)]
              /\ \E recovered \in Recoveries(1) : Emit(recovered \cup ValidatorEvents(flags))
    BY <1>1 DEF ValidatorReports
  <2> DEFINE grounding == GroundingFlags(ungrounded)
             flags == RunValidationRules(pkg, extractions) \cup grounding
  <2>2. grounding \subseteq RuleFlag
    BY <1>1 DEF GroundingCalls, Readable, GroundingFlags, Flag, RuleFlag, ValidationRules,
                Severity, FlagFields, TypeOK, ExtractionResult
  <2>3. flags \subseteq RuleFlag
    BY <1>1, <2>2, ValidationFlagsType DEF TypeOK
  <2>4. OverallConfidence(extractions, grounding, flags) \in 0..100
    <3> HIDE DEF grounding, flags
    <3>. QED  BY <1>1, <2>3, ConfidenceType DEF TypeOK
  <2>5. validation' \in [flags: SUBSET RuleFlag, confidence: 0..100]
    BY <2>1, <2>3, <2>4
  <2>6. trail' \subseteq AuditEvent
    <3>1. PICK recovered \in Recoveries(1) : Emit(recovered \cup ValidatorEvents(flags))
      BY <2>1
    <3>2. Event("validator", "error", "recovered") \in AuditEvent
          /\ Completed("validator") \in AuditEvent
      BY EventType DEF Completed, EventNodes, Nodes, EventTypes, EventDetails
    <3>3. {f.rule : f \in flags} \subseteq EventDetails
      BY <2>3 DEF RuleFlag, EventDetails
    <3>4. RuleEvents("validator", {f.rule : f \in flags}) \subseteq AuditEvent
      BY <3>3, RuleEventsType DEF EventNodes, Nodes
    <3>5. recovered \cup ValidatorEvents(flags) \subseteq AuditEvent
      BY <3>1, <3>2, <3>4 DEF ValidatorEvents, Recoveries
    <3>6. trail \subseteq AuditEvent
      BY <1>1 DEF TypeOK
    <3> HIDE DEF flags
    <3>. QED  BY <3>1, <3>5, <3>6, EmitType
  <2>7. "risk_scorer" \in Nodes
    BY DEF Nodes
  <2>8. Running("validator") /\ Goto("risk_scorer")
    BY <1>1 DEF ValidatorReports
  <2>9. UNCHANGED <<status, classified, incomplete, extractions, risk, decision,
                    errors, retries, degraded, screened>>
    BY <1>1 DEF ValidatorReports
  <2>. QED  BY <1>1, <2>5, <2>6, <2>7, <2>8, <2>9, GotoType DEF TypeOK
<1>2. ASSUME TypeOK, ValidatorExhausted PROVE TypeOK'
  <2>1. Event("validator", "error", None) \in AuditEvent
        /\ Event("validator", "error", "recovered") \in AuditEvent
    BY EventType DEF EventNodes, Nodes, EventTypes, EventDetails
  <2>2. trail' \subseteq AuditEvent
    BY <1>2, <2>1, EmitType DEF ValidatorExhausted, Recoveries, TypeOK
  <2>3. errors' \subseteq Attempt /\ retries' \subseteq Attempt
    <3>1. "validator" \in Steps /\ Budget \in 0..Budget
      BY RetriesAssumption DEF Steps, Budget
    <3>. QED  BY <1>2, <3>1, CountType DEF ValidatorExhausted
  <2>4. "handle_error" \in Nodes /\ {"validator"} \subseteq Steps
    BY DEF Nodes, Steps
  <2>. QED  BY <1>2, <2>2, <2>3, <2>4, GotoType DEF ValidatorExhausted, TypeOK, Degrade
<1>3. ASSUME TypeOK, ValidatorRaises PROVE TypeOK'
  BY <1>3 DEF ValidatorRaises, TypeOK, channels
<1>. QED  BY <1>1, <1>2, <1>3

LEMMA RiskScorerType == TypeOK /\ RiskScorer => TypeOK'
<1>1. SUFFICES ASSUME TypeOK, RiskScorer PROVE TypeOK'
  OBVIOUS
<1> DEFINE persons   == PersonNames(pkg, extractions)
           companies == CompanyNames(pkg, extractions)
           owners    == OwnerNames(extractions)
<1>2. persons \subseteq Texts /\ companies \subseteq Texts /\ owners \subseteq Texts
  BY <1>1, NamesType DEF TypeOK
<1>3. PICK s \in Screens(persons \cup companies, persons \cap companies, Sanctioned),
           p \in Screens(persons, {}, Peps),
           us \in Screens(owners, {}, Sanctioned), up \in Screens(owners, {}, Peps) :
        LET unavailable == Unavailable(s, p, us, up)
            triggered == EvaluateRiskRules(pkg, validation.confidence, validation.flags,
                            s.hits, p.hits, us.hits \cup up.hits, unavailable)
        IN  /\ risk' = [level |-> RiskLevel(triggered), triggered |-> triggered,
                        sanctions |-> s.hits, pep |-> p.hits \cup us.hits \cup up.hits]
            /\ screened' = [sanctions |-> s.answered \cup us.answered,
                            pep |-> p.answered \cup up.answered]
            /\ Emit({Completed("risk_scorer")}
                    \cup {Event("risk_scorer", "error", r) : r \in unavailable}
                    \cup RuleEvents("risk_scorer", triggered))
  BY <1>1 DEF RiskScorer
<1>4. \A names \in SUBSET Texts, listed \in SUBSET Texts : \A again :
         \A r \in Screens(names, again, listed) :
            r.hits \in SUBSET Texts /\ r.answered \in SUBSET Texts
  BY DEF Screens, Screen
<1>5. /\ s.hits \in SUBSET Texts /\ s.answered \in SUBSET Texts
      /\ p.hits \in SUBSET Texts /\ p.answered \in SUBSET Texts
      /\ us.hits \in SUBSET Texts /\ us.answered \in SUBSET Texts
      /\ up.hits \in SUBSET Texts /\ up.answered \in SUBSET Texts
  <2>1. persons \cup companies \in SUBSET Texts /\ persons \in SUBSET Texts
        /\ owners \in SUBSET Texts /\ Sanctioned \in SUBSET Texts /\ Peps \in SUBSET Texts
    BY <1>2, TextsAssumption
  <2> HIDE DEF persons, companies, owners
  <2>. QED  BY <1>4, <2>1
<1> DEFINE unavailable == Unavailable(s, p, us, up)
           triggered == EvaluateRiskRules(pkg, validation.confidence, validation.flags,
                           s.hits, p.hits, us.hits \cup up.hits, unavailable)
<1>6. triggered \in SUBSET EscalationRules
  BY TriggersType
<1>7. unavailable \subseteq Registries
  BY DEF Unavailable, NoAnswer, Registries
<1>8. RiskLevel(triggered) \in {None, "low", "medium", "high"}
  BY DEF RiskLevel
<1>9. /\ risk' = [level |-> RiskLevel(triggered), triggered |-> triggered,
                  sanctions |-> s.hits, pep |-> p.hits \cup us.hits \cup up.hits]
      /\ screened' = [sanctions |-> s.answered \cup us.answered,
                      pep |-> p.answered \cup up.answered]
      /\ Emit({Completed("risk_scorer")}
              \cup {Event("risk_scorer", "error", r) : r \in unavailable}
              \cup RuleEvents("risk_scorer", triggered))
  BY <1>3
<1> HIDE DEF triggered, unavailable, persons, companies, owners
<1>10. risk' \in [level: {None, "low", "medium", "high"}, triggered: SUBSET EscalationRules,
                  sanctions: SUBSET Texts, pep: SUBSET Texts]
  <2>1. p.hits \cup us.hits \cup up.hits \in SUBSET Texts
    BY <1>5
  <2>. QED  BY <1>5, <1>6, <1>8, <1>9, <2>1
<1>11. screened' \in [Registries -> SUBSET Texts]
  BY <1>5, <1>9 DEF Registries
<1>12. trail' \subseteq AuditEvent
  <2>1. Completed("risk_scorer") \in AuditEvent
    BY EventType DEF Completed, EventNodes, Nodes, EventTypes, EventDetails
  <2>2. \A r \in unavailable : Event("risk_scorer", "error", r) \in AuditEvent
    BY <1>7, EventType DEF EventNodes, Nodes, EventTypes, EventDetails
  <2>3. RuleEvents("risk_scorer", triggered) \subseteq AuditEvent
    BY <1>6, RuleEventsType DEF EventNodes, Nodes, EventDetails, ReasonCodes
  <2>4. trail \subseteq AuditEvent
    BY <1>1 DEF TypeOK
  <2>. QED  BY <1>9, <2>1, <2>2, <2>3, <2>4, EmitType
<1>13. "decision_gate" \in Nodes
  BY DEF Nodes
<1>14. Running("risk_scorer") /\ Goto("decision_gate")
  BY <1>1 DEF RiskScorer
<1>15. UNCHANGED <<status, classified, incomplete, extractions, validation, decision,
                   errors, retries, degraded>>
  BY <1>1 DEF RiskScorer
<1>. QED  BY <1>1, <1>10, <1>11, <1>12, <1>13, <1>14, <1>15, GotoType DEF TypeOK

LEMMA GateType == TypeOK /\ DecisionGate => TypeOK'
<1>1. SUFFICES ASSUME TypeOK, DecisionGate PROVE TypeOK'
  OBVIOUS
<1>2. GateDecision \in Decision
  <2>1. incomplete \in BOOLEAN /\ risk.triggered \in SUBSET EscalationRules
        /\ (degraded # {}) \in BOOLEAN
    BY <1>1 DEF TypeOK
  <2>. QED  BY <2>1, GateMatrix DEF GateDecision
<1>3. decision' \in Decision \cup {NoDecision} /\ status' \in CaseStatus
  BY <1>1, <1>2 DEF DecisionGate, GateStatus, TypeOK, CaseStatus
<1>4. trail' \subseteq AuditEvent
  <2>1. Completed("decision_gate") \in AuditEvent
    BY EventType DEF Completed, EventNodes, Nodes, EventTypes, EventDetails
  <2>. QED  BY <1>1, <2>1, EmitType DEF DecisionGate, TypeOK
<1>5. {"human_review", "auto_decision"} \subseteq Nodes
  BY DEF Nodes
<1>. QED  BY <1>1, <1>3, <1>4, <1>5, GotoType DEF DecisionGate, TypeOK

(* Events that name the outcome of the decision. *)
LEMMA OutcomeEventType ==
  ASSUME TypeOK
  PROVE  /\ DecisionMade \in AuditEvent
         /\ CaseCompleted \in AuditEvent
         /\ \A o \in Outcomes : HumanDecided(o) \in AuditEvent
<1>1. decision.outcome \in EventDetails
  BY DEF TypeOK, Decision, NoDecision, EventDetails, Outcomes
<1>2. Outcomes \subseteq EventDetails
  BY DEF EventDetails
<1>3. {"auto_decision", "finalize", "human_review"} \subseteq EventNodes
  BY DEF EventNodes, Nodes
<1>4. {"decision_made", "case_completed", "human_decision"} \subseteq EventTypes
  BY DEF EventTypes
<1>. QED  BY <1>1, <1>2, <1>3, <1>4, EventType DEF DecisionMade, CaseCompleted, HumanDecided

LEMMA AutoDecisionType == TypeOK /\ AutoDecision => TypeOK'
<1>1. SUFFICES ASSUME TypeOK, AutoDecision PROVE TypeOK'
  OBVIOUS
<1>2. trail' \subseteq AuditEvent
  BY <1>1, OutcomeEventType, EmitType DEF AutoDecision, TypeOK
<1>3. "finalize" \in Nodes
  BY DEF Nodes
<1>. QED  BY <1>1, <1>2, <1>3, GotoType DEF AutoDecision, TypeOK, channels

LEMMA HumanReviewType ==
  TypeOK /\ (HumanReviewInterrupts \/ HumanReviewDecides) => TypeOK'
<1>1. ASSUME TypeOK, HumanReviewInterrupts PROVE TypeOK'
  <2>1. decision.reason_codes \subseteq ReasonCodes
    BY <1>1 DEF TypeOK, Decision, NoDecision
  <2>2. interrupt' \in [pending: BOOLEAN, codes: SUBSET ReasonCodes, reject: BOOLEAN,
                        degraded: BOOLEAN, invalid: BOOLEAN]
    BY <1>1, <2>1 DEF HumanReviewInterrupts, ReviewPayload
  <2>. QED  BY <1>1, <2>2 DEF HumanReviewInterrupts, TypeOK, channels
<1>2. ASSUME TypeOK, HumanReviewDecides PROVE TypeOK'
  <2>1. resume \in Outcomes
    BY <1>2 DEF HumanReviewDecides, ValidReview
  <2>2. decision' \in Decision
    BY <1>2, <2>1 DEF HumanReviewDecides, TypeOK, Decision, NoDecision, Outcomes
  <2>3. trail' \subseteq AuditEvent
    BY <1>2, <2>1, OutcomeEventType, EmitType DEF HumanReviewDecides, TypeOK
  <2>4. steps' \in 0..RecursionLimit
    BY <1>2, PipelineAssumption DEF HumanReviewDecides, Running, TypeOK
  <2>5. interrupt' \in [pending: BOOLEAN, codes: SUBSET ReasonCodes, reject: BOOLEAN,
                        degraded: BOOLEAN, invalid: BOOLEAN]
    BY <1>2 DEF HumanReviewDecides, NoInterrupt
  <2>. QED  BY <1>2, <2>2, <2>3, <2>4, <2>5 DEF HumanReviewDecides, AfterReview, TypeOK, Nodes
<1>. QED  BY <1>1, <1>2

LEMMA ReviewType ==
  TypeOK /\ (\E value \in Outcomes \cup {"invalid"} : Review(value)) => TypeOK'
<1>1. 0 \in 0..RecursionLimit
  BY PipelineAssumption
<1>. QED  BY <1>1 DEF Review, FreshBudget, TypeOK, channels

LEMMA FinalizeType == TypeOK /\ Finalize => TypeOK'
<1>1. SUFFICES ASSUME TypeOK, Finalize PROVE TypeOK'
  OBVIOUS
<1>2. trail' \subseteq AuditEvent
  BY <1>1, OutcomeEventType, EmitType DEF Finalize, TypeOK
<1>3. steps' \in 0..RecursionLimit
  BY <1>1, PipelineAssumption DEF Finalize, Running, TypeOK
<1>. QED  BY <1>1, <1>2, <1>3 DEF Finalize, TypeOK, Nodes, CaseStatus

LEMMA HandleErrorType == TypeOK /\ HandleError => TypeOK'
<1>1. SUFFICES ASSUME TypeOK, HandleError PROVE TypeOK'
  OBVIOUS
<1>2. trail' \subseteq AuditEvent
  <2>1. Event("handle_error", "error", None) \in AuditEvent
    BY EventType DEF EventNodes, Nodes, EventTypes, EventDetails
  <2>. QED  BY <1>1, <2>1, EmitType DEF HandleError, TypeOK
<1>3. AfterError \in Nodes
  BY DEF AfterError, Nodes
<1>. QED  BY <1>1, <1>2, <1>3, GotoType DEF HandleError, TypeOK, CaseStatus

LEMMA CrashType == TypeOK /\ Crash => TypeOK'
<1>1. SUFFICES ASSUME TypeOK, Crash PROVE TypeOK'
  OBVIOUS
<1>2. trail' \subseteq AuditEvent
  <2>1. InFlight \subseteq AuditEvent
    BY <1>1, OutcomeEventType DEF InFlight
  <2>. QED  BY <1>1, <2>1 DEF Crash, TypeOK
<1>3. NoResults \in [Docs -> Result]
  BY RetriesAssumption DEF NoResults, NoResult, Result, AllReadings, Budget
<1>4. crashes' \in 0..MaxCrashes
  BY <1>1, PipelineAssumption DEF Crash, TypeOK
<1>. QED  BY <1>1, <1>2, <1>3, <1>4 DEF Crash, TypeOK, channels

(* Every step keeps the types. *)
LEMMA NextType == TypeOK /\ [Next]_vars => TypeOK'
<1>1. SUFFICES ASSUME TypeOK, [Next]_vars PROVE TypeOK'
  OBVIOUS
<1>2. CASE RecursionLimitHit
  BY <1>1, <1>2 DEF RecursionLimitHit, TypeOK, channels
<1>3. CASE Stopped \/ UNCHANGED vars
  BY <1>1, <1>3 DEF Stopped, TypeOK, vars, channels, control
<1>. QED
  BY <1>1, <1>2, <1>3, IntakeType, RouterType, OrchestratorType, WorkerType, FanInType,
     ValidatorType, RiskScorerType, GateType, AutoDecisionType, HumanReviewType,
     ReviewType, FinalizeType, HandleErrorType, CrashType
  DEF Next, Node

(* Type correctness: every channel of KYCState keeps a value of its        *)
(* declared type, whatever the extractors, registries and reviewers        *)
(* answer, and whenever the process dies.                                  *)
THEOREM TypeCorrect == Spec => []TypeOK
BY InitType, NextType, PTL DEF Spec

-------------------------------------------------------------------------------
(***************************************************************************)
(* The inductive invariant.  EscalationRecall speaks of the channels only; *)
(* that it survives a step depends on where the case stands in the graph.  *)
(***************************************************************************)
Undecided == {"intake", "router", "orchestrator", "extract_document", "validator",
              "risk_scorer", "decision_gate", "handle_error"}

(* Up to the gate nothing is decided; only an incomplete package, which is *)
(* never scored, and a scored or failed case stand before the gate.        *)
BeforeGate ==
    /\ next \in Undecided => decision = NoDecision
    /\ next = "intake" => status = "received"
    /\ next \in Undecided \ {"intake"} => status = "processing"
    /\ next \in Undecided \ {"decision_gate"} => ~incomplete /\ risk = NoRisk
    /\ incomplete => risk.triggered = {}

(* Past the gate the system's own verdicts rest on a case without triggers *)
(* and degradation, and everything else goes through the human.            *)
Alone == decision.decided_by = "system" /\ decision.outcome \in Outcomes
ByHuman == decision.decided_by = "human" /\ decision.outcome \in Outcomes
Unforced == risk.triggered = {} /\ degraded = {}

AfterGate ==
    /\ next = "auto_decision" => Alone /\ Unforced /\ status = "processing"
    /\ next = "human_review" =>
          /\ decision.decided_by = "system" /\ decision.outcome = "escalate"
          /\ decision.reason_codes # {}
          /\ ~Unforced /\ status = "awaiting_human_review"
    /\ next \in {"finalize", "end"} => ByHuman \/ (Alone /\ Unforced)
    /\ next = "finalize" => status = IF ByHuman THEN "awaiting_human_review" ELSE "processing"
    /\ status = "completed" <=> next = "end"

(* A resume value or an interrupted run means that a payload was shown,    *)
(* and a run that reached the end has ended.                               *)
ReviewInv ==
    /\ run = "interrupted" \/ resume # None => interrupt.pending
    /\ next = "end" => run = "ended"
    /\ PayloadIsCurrent

DecisionInv == TypeOK /\ BeforeGate /\ AfterGate /\ ReviewInv

LEMMA InitDecision == Init => DecisionInv
<1>1. Init => BeforeGate /\ AfterGate /\ ReviewInv
  BY DEF Init, BeforeGate, AfterGate, ReviewInv, PayloadIsCurrent, Undecided, NoInterrupt, NoRisk
<1>. QED  BY <1>1, InitType DEF DecisionInv

(* A superstep before the gate that neither decides nor scores the case,   *)
(* and leads to a node before the gate, keeps the invariant.               *)
LEMMA UndecidedStep ==
  ASSUME DecisionInv, next \in Undecided \ {"decision_gate"},
         next' \in Undecided \ {"intake"}, status' = "processing",
         UNCHANGED <<decision, run, interrupt, resume>>,
         next' = "decision_gate" \/ UNCHANGED <<incomplete, risk>>,
         incomplete' => risk'.triggered = {}
  PROVE  BeforeGate' /\ AfterGate' /\ ReviewInv'
<1>1. ~interrupt.pending /\ decision = NoDecision
  BY DEF DecisionInv, BeforeGate, ReviewInv, PayloadIsCurrent, Undecided
<1>2. next' \notin {"auto_decision", "human_review", "finalize", "end"}
  BY DEF Undecided
<1>3. BeforeGate'
  BY <1>1 DEF DecisionInv, BeforeGate
<1>4. AfterGate'
  BY <1>1, <1>2 DEF AfterGate
<1>5. ReviewInv'
  BY <1>1, <1>2 DEF DecisionInv, ReviewInv, PayloadIsCurrent
<1>. QED  BY <1>3, <1>4, <1>5

LEMMA DecisionGateStep ==
  DecisionInv /\ DecisionGate => BeforeGate' /\ AfterGate' /\ ReviewInv'
<1>1. SUFFICES ASSUME DecisionInv, DecisionGate PROVE BeforeGate' /\ AfterGate' /\ ReviewInv'
  OBVIOUS
<1> DEFINE d == GateDecision
<1>2. /\ d \in Decision
      /\ d.decided_by = "system"
      /\ degraded # {} => d.outcome = "escalate"
      /\ risk.triggered # {} /\ ~incomplete => d.outcome = "escalate"
      /\ d.outcome = "escalate" => ~Unforced /\ d.reason_codes # {}
  <2>1. incomplete \in BOOLEAN /\ risk.triggered \in SUBSET EscalationRules
        /\ (degraded # {}) \in BOOLEAN
    BY <1>1 DEF DecisionInv, TypeOK
  <2> DEFINE manual == degraded # {}
             g == DecideGate(incomplete, validation.flags, risk.triggered, manual)
  <2>2. manual \in BOOLEAN
    BY <2>1
  <2> HIDE DEF manual
  <2>3. /\ g \in Decision
        /\ g.decided_by = "system"
        /\ manual => g.outcome = "escalate"
        /\ risk.triggered # {} /\ ~incomplete => g.outcome = "escalate"
        /\ g.outcome = "escalate" => (risk.triggered # {} \/ manual) /\ g.reason_codes # {}
    BY <2>1, <2>2, GateMatrix
  <2>4. d = g
    BY DEF GateDecision, manual
  <2>. HIDE DEF d, g
  <2>. QED  BY <2>3, <2>4 DEF manual, Unforced
<1>3. /\ ~interrupt.pending /\ run = "running" /\ resume = None
      /\ status = "processing"
      /\ incomplete => risk.triggered = {}
  BY <1>1 DEF DecisionInv, DecisionGate, Running, BeforeGate, ReviewInv, PayloadIsCurrent,
              Undecided
<1>4. /\ decision' = d
      /\ status' = GateStatus(d.outcome)
      /\ next' = IF d.outcome = "escalate" THEN "human_review" ELSE "auto_decision"
      /\ UNCHANGED <<incomplete, risk, degraded, run, interrupt, resume>>
  BY <1>1 DEF DecisionGate, Goto
<1>5. d.outcome # "escalate" => d.outcome \in Outcomes /\ Unforced
  BY <1>2, <1>3 DEF Unforced, Decision, Outcomes
<1>. HIDE DEF d
<1>6. BeforeGate'
  BY <1>3, <1>4 DEF BeforeGate, Undecided
<1>7. AfterGate'
  BY <1>2, <1>3, <1>4, <1>5 DEF AfterGate, GateStatus, Alone, Unforced
<1>8. ReviewInv'
  BY <1>3, <1>4 DEF ReviewInv, PayloadIsCurrent
<1>. QED  BY <1>6, <1>7, <1>8

(* The other nodes before the gate. *)
LEMMA BeforeGateStep ==
  ASSUME DecisionInv,
         \/ Intake \/ RouterClassifies \/ RouterExhausted \/ Orchestrator \/ FanIn
         \/ ValidatorReports \/ ValidatorExhausted \/ RiskScorer \/ HandleError
  PROVE  BeforeGate' /\ AfterGate' /\ ReviewInv'
<1>1. /\ next \in Undecided \ {"decision_gate"}
      /\ UNCHANGED <<decision, run, interrupt, resume>>
  BY DEF Intake, RouterClassifies, RouterExhausted, Orchestrator, FanIn, ValidatorReports,
         ValidatorExhausted, RiskScorer, HandleError, Running, Goto, Undecided
<1>2. status' = "processing"
  BY DEF Intake, RouterClassifies, RouterExhausted, Orchestrator, FanIn, ValidatorReports,
         ValidatorExhausted, RiskScorer, HandleError, Running, DecisionInv, BeforeGate, Undecided
<1>3. next' \in Undecided \ {"intake"}
  BY DEF Intake, RouterClassifies, RouterExhausted, Orchestrator, FanIn, ValidatorReports,
         ValidatorExhausted, RiskScorer, HandleError, Goto, Undecided, AfterError
<1>4. ~incomplete /\ risk = NoRisk
  BY <1>1 DEF DecisionInv, BeforeGate
<1>5. next' = "decision_gate" \/ UNCHANGED <<incomplete, risk>>
  <2>1. CASE Orchestrator
    <3>1. next' = IF Incomplete THEN "decision_gate" ELSE "extract_document"
      BY <2>1 DEF Orchestrator, Goto
    <3>2. incomplete' = Incomplete /\ UNCHANGED risk
      BY <2>1 DEF Orchestrator
    <3>3. Incomplete \in BOOLEAN /\ incomplete \in BOOLEAN
      BY DEF Incomplete, DecisionInv, TypeOK
    <3>. QED  BY <1>4, <3>1, <3>2, <3>3
  <2>2. CASE RiskScorer
    BY <2>2 DEF RiskScorer, Goto
  <2>. QED  BY <2>1, <2>2 DEF Intake, RouterClassifies, RouterExhausted, FanIn,
                   ValidatorReports, ValidatorExhausted, HandleError
<1>6. incomplete' => risk'.triggered = {}
  <2>1. CASE RiskScorer
    BY <1>4, <2>1 DEF RiskScorer
  <2>2. CASE ~RiskScorer
    <3>1. UNCHANGED risk
      BY <2>2 DEF Intake, RouterClassifies, RouterExhausted, Orchestrator, FanIn,
                  ValidatorReports, ValidatorExhausted, HandleError
    <3>. QED  BY <1>4, <3>1 DEF NoRisk
  <2>. QED  BY <2>1, <2>2
<1>. QED  BY <1>1, <1>2, <1>3, <1>5, <1>6, UndecidedStep

(* The nodes behind the gate. *)
LEMMA AfterGateStep ==
  ASSUME DecisionInv, AutoDecision \/ HumanReviewInterrupts \/ HumanReviewDecides \/ Finalize
  PROVE  BeforeGate' /\ AfterGate' /\ ReviewInv'
<1>1. CASE AutoDecision
  <2>1. next = "auto_decision" /\ next' = "finalize"
        /\ UNCHANGED <<status, incomplete, risk, decision, degraded, run, interrupt, resume>>
    BY <1>1 DEF AutoDecision, Running, Goto, channels
  <2>2. BeforeGate'
    BY <2>1 DEF DecisionInv, BeforeGate, Undecided
  <2>3. AfterGate'
    BY <2>1 DEF DecisionInv, AfterGate, Alone, ByHuman, Unforced
  <2>4. ReviewInv'
    BY <2>1 DEF DecisionInv, ReviewInv, PayloadIsCurrent
  <2>. QED  BY <2>2, <2>3, <2>4
<1>2. CASE HumanReviewInterrupts
  <2>1. /\ next = "human_review" /\ run' = "interrupted" /\ resume' = None
        /\ interrupt' = ReviewPayload(resume # None)
        /\ UNCHANGED <<status, incomplete, risk, decision, degraded, next>>
    BY <1>2 DEF HumanReviewInterrupts, Running, channels
  <2>2. BeforeGate'
    BY <2>1 DEF DecisionInv, BeforeGate, Undecided
  <2>3. AfterGate'
    BY <2>1 DEF DecisionInv, AfterGate, Alone, ByHuman, Unforced
  <2>4. ReviewInv'
    BY <2>1 DEF DecisionInv, AfterGate, ReviewInv, PayloadIsCurrent, ReviewPayload
  <2>. QED  BY <2>2, <2>3, <2>4
<1>3. CASE HumanReviewDecides
  <2>1. /\ next = "human_review" /\ next' = "finalize" /\ resume' = None
        /\ run = "running" /\ interrupt' = NoInterrupt /\ resume \in Outcomes
        /\ decision' = [outcome |-> resume, decided_by |-> "human",
                        reason_codes |-> decision.reason_codes]
        /\ UNCHANGED <<status, incomplete, risk, degraded, run>>
    BY <1>3 DEF HumanReviewDecides, AfterReview, Running, ValidReview
  <2>2. BeforeGate'
    BY <2>1 DEF DecisionInv, BeforeGate, Undecided
  <2>3. AfterGate'
    BY <2>1 DEF DecisionInv, AfterGate, Alone, ByHuman, Unforced
  <2>4. ReviewInv'
    BY <2>1 DEF DecisionInv, ReviewInv, PayloadIsCurrent, NoInterrupt
  <2>. QED  BY <2>2, <2>3, <2>4
<1>4. CASE Finalize
  <2>1. /\ next = "finalize" /\ next' = "end" /\ run' = "ended" /\ status' = "completed"
        /\ run = "running"
        /\ UNCHANGED <<incomplete, risk, decision, degraded, interrupt, resume>>
    BY <1>4 DEF Finalize, Running
  <2>2. BeforeGate'
    BY <2>1 DEF DecisionInv, BeforeGate, Undecided
  <2>3. AfterGate'
    BY <2>1 DEF DecisionInv, AfterGate, Alone, ByHuman, Unforced
  <2>4. ReviewInv'
    BY <2>1 DEF DecisionInv, ReviewInv, PayloadIsCurrent
  <2>. QED  BY <2>2, <2>3, <2>4
<1>. QED  BY <1>1, <1>2, <1>3, <1>4

(* A worker, a failure, a crash or a reviewer moves the run and the review *)
(* in hand, never the channels or the place of the case in the graph.      *)
LEMMA OutsideStep ==
  ASSUME DecisionInv,
         \/ \E d \in Docs : Worker(d)
         \/ ValidatorRaises \/ RecursionLimitHit
         \/ \E value \in Outcomes \cup {"invalid"} : Review(value)
         \/ Crash \/ Stopped \/ UNCHANGED vars
  PROVE  BeforeGate' /\ AfterGate' /\ ReviewInv'
<1>1. UNCHANGED <<channels, next>>
  BY DEF Worker, ExtractDocument, ExtractUnreadable, ExtractExhausted, Working,
         ValidatorRaises, RecursionLimitHit, Review, Crash, Stopped, vars, control
<1>2. BeforeGate' /\ AfterGate'
  BY <1>1 DEF DecisionInv, BeforeGate, AfterGate, Alone, ByHuman, Unforced, channels
<1>3. UNCHANGED interrupt
  BY DEF Worker, ExtractDocument, ExtractUnreadable, ExtractExhausted, Working,
         ValidatorRaises, RecursionLimitHit, Review, Crash, Stopped, vars, control
<1>4. PayloadIsCurrent'
  BY <1>1, <1>3 DEF DecisionInv, ReviewInv, PayloadIsCurrent, channels
<1>5. (run = "interrupted" \/ resume # None => interrupt.pending)'
  <2>1. CASE \E value \in Outcomes \cup {"invalid"} : Review(value)
    BY <1>3, <2>1 DEF DecisionInv, ReviewInv, Review
  <2>2. CASE Crash
    BY <1>3, <2>2 DEF DecisionInv, ReviewInv, Crash
  <2>3. CASE ValidatorRaises \/ RecursionLimitHit
    BY <1>3, <2>3 DEF DecisionInv, ReviewInv, ValidatorRaises, RecursionLimitHit
  <2>4. CASE (\E d \in Docs : Worker(d)) \/ Stopped \/ UNCHANGED vars
    BY <1>3, <2>4 DEF DecisionInv, ReviewInv, Worker, ExtractDocument, ExtractUnreadable,
                      ExtractExhausted, Working, Stopped, vars, control
  <2>. QED  BY <2>1, <2>2, <2>3, <2>4
<1>6. (next = "end" => run = "ended")'
  <2>1. UNCHANGED next
    BY <1>1
  <2>2. next = "end" => run = "ended"
    BY DEF DecisionInv, ReviewInv
  <2>3. run = "ended" => run' = "ended"
    BY DEF Worker, ExtractDocument, ExtractUnreadable, ExtractExhausted, Working, Running,
           ValidatorRaises, RecursionLimitHit, Review, Crash, Stopped, vars, control
  <2>. QED  BY <2>1, <2>2, <2>3
<1>. QED  BY <1>2, <1>4, <1>5, <1>6 DEF ReviewInv

LEMMA NextDecision == DecisionInv /\ [Next]_vars => DecisionInv'
<1>1. SUFFICES ASSUME DecisionInv, [Next]_vars PROVE DecisionInv'
  OBVIOUS
<1>2. TypeOK'
  BY <1>1, NextType DEF DecisionInv
<1>3. BeforeGate' /\ AfterGate' /\ ReviewInv'
  BY <1>1, DecisionGateStep, BeforeGateStep, AfterGateStep, OutsideStep DEF Next, Node
<1>. QED  BY <1>2, <1>3 DEF DecisionInv

LEMMA AlwaysDecisionInv == Spec => []DecisionInv
BY InitDecision, NextDecision, PTL DEF Spec

(* Escalation recall: whatever fails, crashes or is answered, a case with  *)
(* a mandatory trigger or a degraded step is closed by a human only.       *)
THEOREM EscalationRecallHolds == Spec => []EscalationRecall
<1>1. DecisionInv => EscalationRecall
  <2>1. SUFFICES ASSUME DecisionInv, ~Unforced
                 PROVE  /\ decision.decided_by = "system" => decision.outcome = "escalate"
                        /\ status = "completed" => decision.decided_by = "human"
    BY DEF EscalationRecall, Unforced
  <2>2. next \in Undecided \cup {"auto_decision", "human_review", "finalize", "end"}
    BY <2>1 DEF DecisionInv, TypeOK, Nodes, Undecided
  <2>3. CASE next \in Undecided
    <3>1. decision = NoDecision /\ status # "completed"
      BY <2>1, <2>3 DEF DecisionInv, BeforeGate, AfterGate, Undecided
    <3>. QED  BY <3>1 DEF NoDecision, None
  <2>4. CASE next \in {"auto_decision", "human_review", "finalize", "end"}
    BY <2>1, <2>4 DEF DecisionInv, AfterGate, Alone, ByHuman
  <2>. QED  BY <2>2, <2>3, <2>4
<1>. QED  BY <1>1, AlwaysDecisionInv, PTL

(* The analyst always decides on the case as it is stored. *)
THEOREM PayloadIsCurrentHolds == Spec => []PayloadIsCurrent
<1>1. DecisionInv => PayloadIsCurrent
  BY DEF DecisionInv, ReviewInv
<1>. QED  BY <1>1, AlwaysDecisionInv, PTL

(* Decisions are made at the gate and by a human who saw the payload, and  *)
(* a completed case never changes.                                         *)
THEOREM DecisionDisciplineHolds == Spec => DecisionDiscipline
<1>1. ASSUME DecisionInv, [Next]_vars PROVE [DecisionStep]_vars
  <2>1. ASSUME decision' # decision
        PROVE  \/ decision = NoDecision /\ next = "decision_gate"
               \/ /\ decision.outcome = "escalate" /\ interrupt.pending
                  /\ decision'.decided_by = "human"
                  /\ decision'.outcome \in Outcomes /\ decision'.outcome = resume
                  /\ decision'.reason_codes = decision.reason_codes
    <3>1. DecisionGate \/ HumanReviewDecides
      BY <1>1, <2>1 DEF Next, Node, Intake, RouterClassifies, RouterExhausted, Orchestrator,
         FanIn, ValidatorReports, ValidatorExhausted, ValidatorRaises, RiskScorer,
         AutoDecision, HumanReviewInterrupts, Review, Finalize, HandleError,
         RecursionLimitHit, Crash, Stopped, Worker, ExtractDocument, ExtractUnreadable,
         ExtractExhausted, Working, channels, vars
    <3>2. CASE DecisionGate
      BY <1>1, <3>2 DEF DecisionGate, Running, DecisionInv, BeforeGate, Undecided
    <3>3. CASE HumanReviewDecides
      BY <1>1, <3>3 DEF HumanReviewDecides, Running, ValidReview, DecisionInv, AfterGate,
                        ReviewInv, Outcomes, None
    <3>. QED  BY <3>1, <3>2, <3>3
  <2>2. ASSUME status = "completed" PROVE UNCHANGED vars
    <3>1. next = "end" /\ run = "ended"
      BY <1>1, <2>2 DEF DecisionInv, AfterGate, ReviewInv
    <3>. QED
      BY <1>1, <3>1 DEF Next, Node, Intake, RouterClassifies, RouterExhausted, Orchestrator,
         FanIn, ValidatorReports, ValidatorExhausted, ValidatorRaises, RiskScorer,
         DecisionGate, AutoDecision, HumanReviewInterrupts, HumanReviewDecides, Review,
         Finalize, HandleError, RecursionLimitHit, Crash, Stopped, Worker, ExtractDocument,
         ExtractUnreadable, ExtractExhausted, Working, Running
  <2>. QED  BY <2>1, <2>2 DEF DecisionStep
<1>2. DecisionInv /\ [Next]_vars => [DecisionStep]_vars
  BY <1>1
<1>. QED  BY <1>2, AlwaysDecisionInv, PTL DEF Spec, DecisionDiscipline

-------------------------------------------------------------------------------
(***************************************************************************)
(* The limits, said of the documents, are what the rules compare: within   *)
(* them no rule finds a critical mismatch or an expired document, and      *)
(* without such a finding the case is within them.                         *)
(***************************************************************************)
Objections(flags) ==
    {f \in flags : f.rule = "DOC_EXPIRED" \/ (f.severity = "critical"
                                                /\ f.rule \in CriticalMismatchSources)}

(* The rules object to one document if and only if it passes a limit. *)
LEMMA DocumentLimits ==
  ASSUME TypeOK, NEW e \in Readable(extractions)
  PROVE  /\ Objections(CompletenessFlags(e)) = {}
         /\ Objections(NameFlags(e, "full_name", "NAME_MISMATCH")) = {}
               <=> Similar(e, "full_name")
         /\ Objections(NameFlags(e, "company_name", "COMPANY_NAME_MISMATCH")) = {}
               <=> Similar(e, "company_name")
         /\ \A declared : Objections(ExactFlags(declared, e, "date_of_birth", "DOB_MISMATCH")) = {}
               <=> Agrees(e, "date_of_birth", declared)
         /\ \A declared : Objections(ExactFlags(declared, e, "registration_number",
                                                "REG_NUMBER_MISMATCH")) = {}
               <=> Agrees(e, "registration_number", declared)
         /\ Objections(AddressFlags(e)) = {}
         /\ Objections(ExpiryFlags(e)) = {}
               <=> \A day \in Got(e, "expiry_date") \cap DOMAIN Day : Day[day] >= Today
<1>1. e \in ExtractionResult
  BY DEF TypeOK, Readable
<1>2. Objections(CompletenessFlags(e)) = {} /\ Objections(AddressFlags(e)) = {}
  BY DEF Objections, CompletenessFlags, AddressFlags, Flag, CriticalMismatchSources
<1>3. ASSUME NEW field \in {"full_name", "company_name"},
             NEW rule \in {"NAME_MISMATCH", "COMPANY_NAME_MISMATCH"}
      PROVE  Objections(NameFlags(e, field, rule)) = {} <=> Similar(e, field)
  <2>1. \A v \in Got(e, field) : Ratio[v] \in 0..100
    BY <1>1, GotIsText, TextsAssumption
  <2>2. \A f \in NameFlags(e, field, rule) :
           f \in Objections(NameFlags(e, field, rule)) <=> f.severity = "critical"
    BY DEF NameFlags, Objections, Flag, CriticalMismatchSources
  <2>3. ASSUME NEW v \in Got(e, field), Ratio[v] < NameCritical
        PROVE  Objections(NameFlags(e, field, rule)) # {}
    <3>1. Ratio[v] < NameWarning
      BY <2>1, <2>3, ThresholdsAssumption
    <3>2. Flag(rule, "critical", e.doc, field) \in NameFlags(e, field, rule)
      BY <2>3, <3>1 DEF NameFlags
    <3>. QED  BY <2>2, <3>2 DEF Flag
  <2>4. ASSUME NEW f \in NameFlags(e, field, rule), f.severity = "critical"
        PROVE  \E v \in Got(e, field) : Ratio[v] < NameCritical
    BY <2>4 DEF NameFlags, Flag
  <2>5. Similar(e, field) <=> ~ \E v \in Got(e, field) : Ratio[v] < NameCritical
    BY <2>1, ThresholdsAssumption DEF Similar
  <2>. QED  BY <2>2, <2>3, <2>4, <2>5 DEF Objections
<1>4. ASSUME NEW declared, NEW field, NEW rule \in {"DOB_MISMATCH", "REG_NUMBER_MISMATCH"}
      PROVE  Objections(ExactFlags(declared, e, field, rule)) = {} <=> Agrees(e, field, declared)
  <2>1. \A f \in ExactFlags(declared, e, field, rule) : f.rule = rule /\ f.severity = "critical"
    BY DEF ExactFlags, Flag
  <2>2. Objections(ExactFlags(declared, e, field, rule)) = ExactFlags(declared, e, field, rule)
    BY <2>1 DEF Objections, CriticalMismatchSources
  <2>3. ExactFlags(declared, e, field, rule) = {} <=> Agrees(e, field, declared)
    BY DEF ExactFlags, Agrees
  <2>. QED  BY <2>2, <2>3
<1>5. Objections(ExpiryFlags(e)) = {}
        <=> \A day \in Got(e, "expiry_date") \cap DOMAIN Day : Day[day] >= Today
  <2>1. \A day \in DOMAIN Day : ExpiredBefore(Day[day]) <=> ~(Day[day] >= Today)
    BY DEF Day, Today, ExpiredBefore
  <2>2. Objections(ExpiryFlags(e)) = ExpiryFlags(e)
    BY DEF Objections, ExpiryFlags, Flag
  <2>3. ExpiryFlags(e) = {}
          <=> \A day \in Got(e, "expiry_date") \cap DOMAIN Day : ~ExpiredBefore(Day[day])
    BY DEF ExpiryFlags
  <2>. QED  BY <2>1, <2>2, <2>3
<1>. QED  BY <1>2, <1>3, <1>4, <1>5

LEMMA LimitsAreTheRules ==
  ASSUME TypeOK
  PROVE  WithinLimits <=> /\ ~ExceedsVolume(pkg)
                          /\ Objections(RunValidationRules(pkg, extractions)) = {}
<1>1. pkg.volume \in Nat /\ pkg.customer \in CustomerType
  BY PackagesAssumption DEF TypeOK
<1>2. pkg.volume <= HighVolume[pkg.customer] <=> ~ExceedsVolume(pkg)
  BY <1>1, ThresholdsAssumption DEF ExceedsVolume
<1>3. ASSUME NEW e \in Readable(extractions)
      PROVE  Objections(TypeFlags(pkg, e)) = {}
               <=> /\ e.type = "id_document" =>
                         /\ Similar(e, "full_name")
                         /\ Agrees(e, "date_of_birth", pkg.date_of_birth)
                         /\ \A day \in Got(e, "expiry_date") \cap DOMAIN Day : Day[day] >= Today
                   /\ e.type = "business_registration" =>
                         /\ pkg.company_name \notin {None, ""} => Similar(e, "company_name")
                         /\ Agrees(e, "registration_number", pkg.registration_number)
  <2>1. \A A, B : Objections(A \cup B) = {} <=> Objections(A) = {} /\ Objections(B) = {}
    BY DEF Objections
  <2>2. Objections({}) = {}
    BY DEF Objections
  <2>3. CASE e.type = "id_document"
    <3>. DEFINE names == NameFlags(e, "full_name", "NAME_MISMATCH")
                births == ExactFlags(pkg.date_of_birth, e, "date_of_birth", "DOB_MISMATCH")
    <3>1. TypeFlags(pkg, e) = names \cup births \cup ExpiryFlags(e)
      BY <2>3 DEF TypeFlags
    <3>2. /\ Objections(names) = {} <=> Similar(e, "full_name")
          /\ Objections(births) = {} <=> Agrees(e, "date_of_birth", pkg.date_of_birth)
          /\ Objections(ExpiryFlags(e)) = {}
                <=> \A day \in Got(e, "expiry_date") \cap DOMAIN Day : Day[day] >= Today
      BY DocumentLimits
    <3>. HIDE DEF names, births
    <3>3. Objections(TypeFlags(pkg, e)) = {}
            <=> Objections(names) = {} /\ Objections(births) = {} /\ Objections(ExpiryFlags(e)) = {}
      <4>1. Objections((names \cup births) \cup ExpiryFlags(e)) = {}
              <=> Objections(names \cup births) = {} /\ Objections(ExpiryFlags(e)) = {}
        BY <2>1, Zenon
      <4>2. Objections(names \cup births) = {} <=> Objections(names) = {} /\ Objections(births) = {}
        BY <2>1, Zenon
      <4>. QED  BY <3>1, <4>1, <4>2
    <3>. QED  BY <2>3, <3>2, <3>3
  <2>4. CASE e.type = "proof_of_address"
    BY <2>4, DocumentLimits DEF TypeFlags
  <2>5. CASE e.type = "business_registration"
    BY <2>1, <2>2, <2>5, DocumentLimits DEF TypeFlags
  <2>6. CASE e.type \notin {"id_document", "proof_of_address", "business_registration"}
    BY <2>2, <2>6 DEF TypeFlags
  <2>. QED  BY <2>3, <2>4, <2>5, <2>6
<1>4. Objections(RunValidationRules(pkg, extractions)) = {}
        <=> \A e \in Readable(extractions) :
               Objections(CompletenessFlags(e)) = {} /\ Objections(TypeFlags(pkg, e)) = {}
  BY DEF RunValidationRules, Objections
<1>5. \A e \in Readable(extractions) : Objections(CompletenessFlags(e)) = {}
  BY DocumentLimits
<1>. QED  BY <1>2, <1>3, <1>4, <1>5 DEF WithinLimits

(***************************************************************************)
(* An automatic approval is earned.  The approval is given at the gate,    *)
(* which sees the flags, the triggers and the degradation; the invariant   *)
(* carries what each node established, as long as nothing is degraded,     *)
(* along the path to it.                                                   *)
(***************************************************************************)
Sent ==
    /\ RequiredDocs[pkg.customer] \subseteq {classified[d] : d \in Docs}
    /\ Docs = Known

AllRead ==
    /\ Sent
    /\ {e.doc : e \in Readable(extractions)} = Docs

Validated ==
    /\ AllRead
    /\ RunValidationRules(pkg, extractions) \subseteq validation.flags
    /\ \A f \in validation.flags :
          f.rule = "EVALUATOR_DISCREPANCY" => f.severity = "critical"

Cleared ==
    /\ PersonNames(pkg, extractions) \subseteq
          (screened["sanctions"] \cap screened["pep"]) \ (Sanctioned \cup Peps)
    /\ CompanyNames(pkg, extractions) \subseteq screened["sanctions"] \ Sanctioned
    /\ OwnerNames(extractions) \subseteq
          (screened["sanctions"] \cap screened["pep"]) \ (Sanctioned \cup Peps)
    /\ ~ExceedsVolume(pkg)
    /\ validation.confidence >= ConfidenceThreshold
    /\ CriticalMismatches(validation.flags) = {}

EarnedInv ==
    /\ next \in {"intake", "router", "orchestrator", "extract_document"} => extractions = {}
    /\ next = "handle_error" => degraded # {}
    /\ degraded = {} =>
          /\ next = "extract_document" => Sent
          /\ next = "validator" => AllRead
          /\ next = "risk_scorer" => Validated
          /\ next = "decision_gate" /\ ~incomplete =>
                Validated /\ (risk.triggered = {} => Cleared)
    /\ AutoApproved => Validated /\ Cleared /\ ~Expired(validation.flags)

(* Nothing the invariant speaks of changes while the channels do not. *)
LEMMA EarnedFrame ==
  ASSUME UNCHANGED <<pkg, classified, extractions, validation, screened>>
  PROVE  /\ Sent' <=> Sent
         /\ AllRead' <=> AllRead
         /\ Validated' <=> Validated
         /\ Cleared' <=> Cleared
         /\ Expired(validation.flags)' <=> Expired(validation.flags)
BY DEF Sent, AllRead, Validated, Cleared, Known

(* Before the gate has decided, nothing is approved yet. *)
LEMMA UndecidedNotApproved ==
  ASSUME DecisionInv, next \in Undecided
  PROVE  ~AutoApproved
BY DEF DecisionInv, BeforeGate, AutoApproved, NoDecision, None

(* The orchestrator only sends a package whose known documents suffice. *)
LEMMA OrchestratorEarns == DecisionInv /\ EarnedInv /\ Orchestrator => EarnedInv'
<1>1. SUFFICES ASSUME DecisionInv, EarnedInv, Orchestrator PROVE EarnedInv'
  OBVIOUS
<1>2. /\ next = "orchestrator" /\ extractions = {}
      /\ next' = IF Incomplete THEN "decision_gate" ELSE "extract_document"
      /\ degraded' = degraded \cup Unclassified /\ incomplete' = Incomplete
      /\ UNCHANGED <<pkg, classified, extractions, validation, decision, screened>>
  BY <1>1 DEF Orchestrator, Running, Goto, Degrade, EarnedInv
<1>3. ~AutoApproved'
  BY <1>1, <1>2, UndecidedNotApproved DEF AutoApproved, Undecided
<1>4. degraded' = {} /\ ~Incomplete => Sent
  <2>1. SUFFICES ASSUME degraded' = {}, ~Incomplete PROVE Sent
    OBVIOUS
  <2>2. Docs = Known
    BY <1>2, <2>1 DEF Known, Unclassified
  <2>. QED  BY <2>1, <2>2 DEF Incomplete, MissingDocs, Sent
<1>5. Sent' <=> Sent
  BY <1>2, EarnedFrame
<1>. QED  BY <1>2, <1>3, <1>4, <1>5 DEF EarnedInv

(* When the workers are done and no document was unreadable, all were read. *)
LEMMA FanInEarns == DecisionInv /\ EarnedInv /\ FanIn => EarnedInv'
<1>1. SUFFICES ASSUME DecisionInv, EarnedInv, FanIn PROVE EarnedInv'
  OBVIOUS
<1>2. /\ next = "extract_document" /\ next' = "validator" /\ extractions = {}
      /\ degraded' = degraded \cup Unreadable
      /\ extractions' = {Extraction(d) : d \in Known}
      /\ UNCHANGED <<pkg, classified, validation, decision, screened>>
  BY <1>1 DEF FanIn, Running, Degrade, EarnedInv
<1>3. ~AutoApproved'
  BY <1>1, <1>2, UndecidedNotApproved DEF AutoApproved, Undecided
<1>4. ASSUME degraded' = {} PROVE AllRead'
  <2>1. Sent /\ Unreadable = {}
    BY <1>1, <1>2, <1>4 DEF EarnedInv
  <2>2. Sent'
    BY <1>2, <2>1 DEF Sent, Known
  <2>3. \A d \in Docs : Extraction(d).doc = d /\ ~Extraction(d).error
    BY <2>1 DEF Sent, Unreadable, Extraction
  <2>4. extractions' = {Extraction(d) : d \in Docs}
    BY <1>2, <2>1 DEF Sent
  <2>5. {e.doc : e \in Readable(extractions')} = Docs
    BY <2>3, <2>4 DEF Readable
  <2>. QED  BY <2>2, <2>5 DEF AllRead
<1>. QED  BY <1>2, <1>3, <1>4 DEF EarnedInv

(* The rules and the evaluator raise different flags. *)
LEMMA RulesNeverEvaluate ==
  ASSUME NEW applicant, NEW read
  PROVE  \A f \in RunValidationRules(applicant, read) : f.rule # "EVALUATOR_DISCREPANCY"
<1>1. ASSUME NEW e PROVE \A f \in CompletenessFlags(e) : f.rule # "EVALUATOR_DISCREPANCY"
  BY DEF CompletenessFlags, Flag
<1>2. ASSUME NEW e PROVE \A f \in TypeFlags(applicant, e) : f.rule # "EVALUATOR_DISCREPANCY"
  <2>1. /\ \A field : \A f \in NameFlags(e, field, "NAME_MISMATCH")
                        \cup NameFlags(e, field, "COMPANY_NAME_MISMATCH") :
              f.rule # "EVALUATOR_DISCREPANCY"
        /\ \A declared, field : \A f \in ExactFlags(declared, e, field, "DOB_MISMATCH")
                        \cup ExactFlags(declared, e, field, "REG_NUMBER_MISMATCH") :
              f.rule # "EVALUATOR_DISCREPANCY"
        /\ \A f \in ExpiryFlags(e) \cup AddressFlags(e) : f.rule # "EVALUATOR_DISCREPANCY"
    BY DEF NameFlags, ExactFlags, ExpiryFlags, AddressFlags, Flag
  <2>. QED  BY <2>1 DEF TypeFlags
<1>. QED  BY <1>1, <1>2 DEF RunValidationRules

LEMMA ValidatorEarns == DecisionInv /\ EarnedInv /\ ValidatorReports => EarnedInv'
<1>1. SUFFICES ASSUME DecisionInv, EarnedInv, ValidatorReports PROVE EarnedInv'
  OBVIOUS
<1>2. /\ next = "validator" /\ next' = "risk_scorer"
      /\ UNCHANGED <<pkg, classified, extractions, decision, degraded>>
  BY <1>1 DEF ValidatorReports, Running, Goto
<1>3. ~AutoApproved'
  BY <1>1, <1>2, UndecidedNotApproved DEF AutoApproved, Undecided
<1>4. RunValidationRules(pkg, extractions) \subseteq validation'.flags
  BY <1>1 DEF ValidatorReports
<1>5. \A f \in validation'.flags :
         f.rule = "EVALUATOR_DISCREPANCY" => f.severity = "critical"
  BY <1>1, RulesNeverEvaluate DEF ValidatorReports, GroundingFlags, Flag
<1>6. degraded = {} => Validated'
  BY <1>1, <1>2, <1>4, <1>5 DEF EarnedInv, Validated, AllRead, Sent, Known
<1>. QED  BY <1>2, <1>3, <1>6 DEF EarnedInv

(* A screening that answered for every name without a hit cleared them. *)
LEMMA ScreenClears ==
  ASSUME NEW names, NEW again, NEW listed, NEW r \in Screens(names, again, listed),
         r.ok, r.hits = {}
  PROVE  r.answered = names /\ names \cap listed = {}
<1>1. r = Screen(names, listed, TRUE)
  BY DEF Screens, Screen
<1>. QED  BY <1>1 DEF Screen

(* No trigger means that both screenings answered for everyone. *)
LEMMA RiskScorerEarns == DecisionInv /\ EarnedInv /\ RiskScorer => EarnedInv'
<1>1. SUFFICES ASSUME DecisionInv, EarnedInv, RiskScorer PROVE EarnedInv'
  OBVIOUS
<1>2. /\ next = "risk_scorer" /\ next' = "decision_gate"
      /\ UNCHANGED <<pkg, classified, extractions, validation, decision, degraded>>
  BY <1>1 DEF RiskScorer, Running, Goto
<1>3. ~AutoApproved'
  BY <1>1, <1>2, UndecidedNotApproved DEF AutoApproved, Undecided
<1>4. degraded = {} => Validated'
  BY <1>1, <1>2 DEF EarnedInv, Validated, AllRead, Sent, Known
<1> DEFINE persons   == PersonNames(pkg, extractions)
           companies == CompanyNames(pkg, extractions)
           owners    == OwnerNames(extractions)
<1>5. ASSUME risk'.triggered = {} PROVE Cleared'
  <2>0. PICK s \in Screens(persons \cup companies, persons \cap companies, Sanctioned),
             p \in Screens(persons, {}, Peps),
             us \in Screens(owners, {}, Sanctioned), up \in Screens(owners, {}, Peps) :
          LET unavailable == Unavailable(s, p, us, up)
              triggered == EvaluateRiskRules(pkg, validation.confidence, validation.flags,
                              s.hits, p.hits, us.hits \cup up.hits, unavailable)
          IN  /\ risk' = [level |-> RiskLevel(triggered), triggered |-> triggered,
                          sanctions |-> s.hits, pep |-> p.hits \cup us.hits \cup up.hits]
              /\ screened' = [sanctions |-> s.answered \cup us.answered,
                              pep |-> p.answered \cup up.answered]
              /\ Emit({Completed("risk_scorer")}
                      \cup {Event("risk_scorer", "error", r) : r \in unavailable}
                      \cup RuleEvents("risk_scorer", triggered))
    BY <1>1 DEF RiskScorer
  <2>1. /\ risk'.triggered = EvaluateRiskRules(pkg, validation.confidence, validation.flags,
              s.hits, p.hits, us.hits \cup up.hits, Unavailable(s, p, us, up))
        /\ screened' = [sanctions |-> s.answered \cup us.answered,
                        pep |-> p.answered \cup up.answered]
    BY <2>0
  <2>2. /\ s.hits = {} /\ p.hits = {} /\ us.hits \cup up.hits = {}
        /\ Unavailable(s, p, us, up) = {}
        /\ ~ExceedsVolume(pkg)
        /\ ~(validation.confidence < ConfidenceThreshold)
        /\ CriticalMismatches(validation.flags) = {}
    <3>1. EvaluateRiskRules(pkg, validation.confidence, validation.flags, s.hits, p.hits,
             us.hits \cup up.hits, Unavailable(s, p, us, up)) = {}
      BY <1>5, <2>1
    <3>. QED  BY <3>1, NoTriggers
  <2>3. s.ok /\ us.ok /\ p.ok /\ up.ok
    BY <2>2 DEF Unavailable, NoAnswer
  <2>4. /\ s.answered = persons \cup companies /\ (persons \cup companies) \cap Sanctioned = {}
        /\ p.answered = persons /\ persons \cap Peps = {}
        /\ us.answered = owners /\ owners \cap Sanctioned = {}
        /\ up.answered = owners /\ owners \cap Peps = {}
    <3> HIDE DEF persons, companies, owners
    <3>. QED  BY <2>0, <2>2, <2>3, ScreenClears
  <2>5. validation.confidence >= ConfidenceThreshold
    BY <1>1, <2>2, ThresholdsAssumption DEF DecisionInv, TypeOK
  <2>6. /\ screened'["sanctions"] = persons \cup companies \cup owners
        /\ screened'["pep"] = persons \cup owners
    BY <2>1, <2>4
  <2> HIDE DEF persons, companies, owners
  <2>7. /\ persons \subseteq (screened'["sanctions"] \cap screened'["pep"])
                                \ (Sanctioned \cup Peps)
        /\ companies \subseteq screened'["sanctions"] \ Sanctioned
        /\ owners \subseteq (screened'["sanctions"] \cap screened'["pep"])
                                \ (Sanctioned \cup Peps)
    BY <2>4, <2>6
  <2>. QED  BY <1>2, <2>2, <2>5, <2>7 DEF Cleared, persons, companies, owners
<1>. QED  BY <1>2, <1>3, <1>4, <1>5 DEF EarnedInv

(* The gate approves a case that nothing degraded and no rule objects to. *)
LEMMA GateEarns == DecisionInv /\ EarnedInv /\ DecisionGate => EarnedInv'
<1>1. SUFFICES ASSUME DecisionInv, EarnedInv, DecisionGate PROVE EarnedInv'
  OBVIOUS
<1>2. /\ next = "decision_gate" /\ next' \in {"human_review", "auto_decision"}
      /\ decision' = GateDecision
      /\ UNCHANGED <<pkg, classified, extractions, validation, screened>>
  BY <1>1 DEF DecisionGate, Running, Goto
<1>3. ASSUME AutoApproved' PROVE Validated /\ Cleared /\ ~Expired(validation.flags)
  <2> DEFINE manual == degraded # {}
             g == DecideGate(incomplete, validation.flags, risk.triggered, manual)
  <2>1. incomplete \in BOOLEAN /\ risk.triggered \in SUBSET EscalationRules
        /\ manual \in BOOLEAN
    BY <1>1 DEF DecisionInv, TypeOK
  <2>2. g.outcome = "approve"
    BY <1>2, <1>3 DEF AutoApproved, GateDecision
  <2> HIDE DEF manual
  <2>3. ~incomplete /\ ~manual /\ risk.triggered = {} /\ ~Expired(validation.flags)
    BY <2>1, <2>2, GateMatrix
  <2>. QED  BY <1>1, <1>2, <2>3 DEF EarnedInv, manual
<1>. QED  BY <1>2, <1>3, EarnedFrame DEF EarnedInv

(* The nodes that lead on without establishing anything. *)
LEMMA OtherNodeEarns ==
  ASSUME DecisionInv, EarnedInv,
         Intake \/ RouterClassifies \/ RouterExhausted \/ ValidatorExhausted \/ HandleError
  PROVE  EarnedInv'
<1>1. /\ next \in Undecided /\ UNCHANGED <<decision, extractions>>
  BY DEF Intake, RouterClassifies, RouterExhausted, ValidatorExhausted, HandleError, Running,
         Undecided
<1>2. ~AutoApproved'
  BY <1>1, UndecidedNotApproved DEF AutoApproved
<1>3. CASE Intake \/ RouterClassifies
  BY <1>2, <1>3 DEF Intake, RouterClassifies, Running, Goto, EarnedInv
<1>4. CASE RouterExhausted \/ ValidatorExhausted
  BY <1>2, <1>4 DEF RouterExhausted, ValidatorExhausted, Running, Goto, Degrade, EarnedInv
<1>5. CASE HandleError
  BY <1>2, <1>5 DEF HandleError, AfterError, Running, Goto, EarnedInv
<1>. QED  BY <1>3, <1>4, <1>5

(* Behind the gate, and outside the nodes, only a human changes a decision. *)
LEMMA LaterStepEarns ==
  ASSUME DecisionInv, EarnedInv,
         \/ AutoDecision \/ HumanReviewInterrupts \/ HumanReviewDecides \/ Finalize
         \/ \E d \in Docs : Worker(d)
         \/ ValidatorRaises \/ RecursionLimitHit
         \/ \E value \in Outcomes \cup {"invalid"} : Review(value)
         \/ Crash \/ Stopped \/ UNCHANGED vars
  PROVE  EarnedInv'
<1>1. UNCHANGED <<pkg, classified, extractions, validation, screened>>
  BY DEF AutoDecision, HumanReviewInterrupts, HumanReviewDecides, Finalize, Goto, Worker,
         ExtractDocument, ExtractUnreadable, ExtractExhausted, Working, ValidatorRaises,
         RecursionLimitHit, Review, Crash, Stopped, vars, channels
<1>2. UNCHANGED <<incomplete, risk, degraded>>
  BY DEF AutoDecision, HumanReviewInterrupts, HumanReviewDecides, Finalize, Goto, Worker,
         ExtractDocument, ExtractUnreadable, ExtractExhausted, Working, ValidatorRaises,
         RecursionLimitHit, Review, Crash, Stopped, vars, channels
<1>3. next' = next \/ next' \in {"finalize", "end"}
  BY DEF AutoDecision, HumanReviewInterrupts, HumanReviewDecides, Finalize, Goto, Worker,
         ExtractDocument, ExtractUnreadable, ExtractExhausted, Working, ValidatorRaises,
         RecursionLimitHit, Review, Crash, Stopped, AfterReview, vars, control
<1>4. AutoApproved' => AutoApproved
  <2>1. CASE HumanReviewDecides
    BY <2>1 DEF HumanReviewDecides, AutoApproved
  <2>2. CASE ~HumanReviewDecides
    <3>1. UNCHANGED decision
      BY <2>2 DEF AutoDecision, HumanReviewInterrupts, Finalize, Worker, ExtractDocument,
         ExtractUnreadable, ExtractExhausted, Working, ValidatorRaises, RecursionLimitHit,
         Review, Crash, Stopped, vars, channels
    <3>. QED  BY <3>1 DEF AutoApproved
  <2>. QED  BY <2>1, <2>2
<1>5. /\ Sent' <=> Sent
      /\ AllRead' <=> AllRead
      /\ Validated' <=> Validated
      /\ Cleared' <=> Cleared
      /\ Expired(validation.flags)' <=> Expired(validation.flags)
  BY <1>1, EarnedFrame
<1>. QED  BY <1>1, <1>2, <1>3, <1>4, <1>5 DEF EarnedInv

LEMMA NextEarned == DecisionInv /\ EarnedInv /\ [Next]_vars => EarnedInv'
BY OrchestratorEarns, FanInEarns, ValidatorEarns, RiskScorerEarns, GateEarns, OtherNodeEarns,
   LaterStepEarns DEF Next, Node

LEMMA InitEarned == Init => EarnedInv
BY DEF Init, EarnedInv, NoDecision, None, AutoApproved

(* An automatic approval is earned, whatever failed on the way to it: the  *)
(* package was complete and read, every name was answered for and matched  *)
(* nothing, and no rule objected.                                          *)
THEOREM AutoApprovalIsEarnedHolds == Spec => []AutoApprovalIsEarned
<1>1. DecisionInv /\ EarnedInv => AutoApprovalIsEarned
  <2>1. SUFFICES ASSUME DecisionInv, EarnedInv, AutoApproved PROVE AutoApprovalIsEarned
    BY DEF AutoApprovalIsEarned
  <2>2. Validated /\ Cleared /\ ~Expired(validation.flags)
    BY <2>1 DEF EarnedInv
  <2>3. Objections(validation.flags) = {}
    BY <2>2 DEF Expired, Cleared, CriticalMismatches, Objections
  <2>4. WithinLimits
    <3>1. Objections(RunValidationRules(pkg, extractions)) = {}
      BY <2>2, <2>3 DEF Validated, Objections
    <3>. QED  BY <2>1, <2>2, <3>1, LimitsAreTheRules DEF DecisionInv, Cleared
  <2>5. ~Ungrounded
    <3>1. \A f \in validation.flags : f.rule = "EVALUATOR_DISCREPANCY" => f.severity = "critical"
      BY <2>2 DEF Validated
    <3>. QED  BY <2>3, <3>1 DEF Ungrounded, Objections, CriticalMismatchSources
  <2>. QED  BY <2>2, <2>4, <2>5
            DEF AutoApprovalIsEarned, AllRecognised, Validated, AllRead, Sent, Cleared
<1>2. DecisionInv /\ EarnedInv /\ [Next]_vars => EarnedInv'
  BY NextEarned
<1>. QED  BY <1>1, <1>2, InitEarned, AlwaysDecisionInv, PTL DEF Spec

-------------------------------------------------------------------------------
(***************************************************************************)
(* An approval that is due is granted.  Nothing stands against a case at   *)
(* the gate that the documents and the registries do not say: each flag is *)
(* one of the rules or the evaluator's, each trigger has its reason, and a *)
(* package that was taken for incomplete is.                               *)
(***************************************************************************)
FlagsFound ==
    \A f \in validation.flags :
        f \in RunValidationRules(pkg, extractions) \/ f.rule = "EVALUATOR_DISCREPANCY"

TriggersFound ==
    LET persons   == PersonNames(pkg, extractions)
        companies == CompanyNames(pkg, extractions)
        owners    == OwnerNames(extractions)
    IN  /\ "SANCTIONS_HIT" \in risk.triggered => (persons \cup companies) \cap Sanctioned # {}
        /\ "PEP_MATCH" \in risk.triggered => persons \cap Peps # {}
        /\ "UBO_SANCTIONS_OR_PEP" \in risk.triggered => owners \cap (Sanctioned \cup Peps) # {}
        /\ "HIGH_VOLUME" \in risk.triggered => ExceedsVolume(pkg)
        /\ "LOW_CONFIDENCE" \in risk.triggered => validation.confidence < ConfidenceThreshold
        /\ "CRITICAL_MISMATCH" \in risk.triggered => CriticalMismatches(validation.flags) # {}

GrantInv ==
    /\ next \in {"intake", "router", "orchestrator", "extract_document", "validator"} =>
          validation = NoValidation
    /\ incomplete => ~AllRecognised
    /\ FlagsFound /\ TriggersFound
    /\ decision.decided_by = "system" => decision = GateDecision

(* No trigger needs no reason. *)
LEMMA NoneTriggered == risk.triggered = {} => TriggersFound
BY DEF TriggersFound

(* Steps that leave what the invariant speaks of alone. *)
LEMMA GrantFrame ==
  ASSUME GrantInv, UNCHANGED <<pkg, classified, extractions, validation, risk, incomplete>>,
         next' = next \/ next' \notin {"intake", "router", "orchestrator", "extract_document",
                                       "validator"},
         decision'.decided_by = "system" => decision' = GateDecision'
  PROVE  GrantInv'
BY DEF GrantInv, AllRecognised, FlagsFound, TriggersFound

(* Before the gate the case is undecided, unscored and not incomplete. *)
LEMMA EarlyGrant ==
  ASSUME DecisionInv, GrantInv, next \in Undecided \ {"decision_gate"}, UNCHANGED decision,
         incomplete' => ~AllRecognised', FlagsFound', TriggersFound',
         next' \in {"router", "orchestrator", "extract_document", "validator"} =>
            validation' = NoValidation,
         next' # "intake"
  PROVE  GrantInv'
<1>1. decision'.decided_by # "system"
  BY DEF DecisionInv, BeforeGate, NoDecision, None, Undecided
<1>. QED  BY <1>1 DEF GrantInv

LEMMA BeforeGateGrants ==
  ASSUME DecisionInv, GrantInv,
         \/ Intake \/ RouterClassifies \/ RouterExhausted \/ Orchestrator \/ FanIn
         \/ ValidatorReports \/ ValidatorExhausted \/ HandleError
  PROVE  GrantInv'
<1>1. /\ next \in Undecided \ {"decision_gate"} /\ UNCHANGED <<pkg, decision, risk>>
      /\ next' # "intake"
  BY DEF Intake, RouterClassifies, RouterExhausted, Orchestrator, FanIn, ValidatorReports,
         ValidatorExhausted, HandleError, Running, Goto, Undecided, AfterError
<1>2. ~incomplete /\ risk.triggered = {}
  BY <1>1 DEF DecisionInv, BeforeGate, NoRisk
<1>3. TriggersFound'
  BY <1>1, <1>2, NoneTriggered DEF TriggersFound
<1>4. incomplete' => ~AllRecognised'
  <2>1. CASE Orchestrator
    <3>1. incomplete' = Incomplete /\ UNCHANGED classified
      BY <2>1 DEF Orchestrator
    <3>2. RequiredDocs[pkg.customer] \subseteq KnownTypes
      BY PackagesAssumption DEF DecisionInv, TypeOK, CustomerType, RequiredDocs, KnownTypes
    <3>. QED  BY <1>1, <3>1, <3>2 DEF Incomplete, MissingDocs, AllRecognised, Known
  <2>2. CASE ~Orchestrator
    <3>1. UNCHANGED incomplete
      BY <2>2 DEF Intake, RouterClassifies, RouterExhausted, FanIn, ValidatorReports,
                  ValidatorExhausted, HandleError
    <3>. QED  BY <1>2, <3>1
  <2>. QED  BY <2>1, <2>2
<1>5. /\ FlagsFound'
      /\ next' \in {"router", "orchestrator", "extract_document", "validator"} =>
            validation' = NoValidation
  <2>1. CASE ValidatorReports
    <3>1. next' = "risk_scorer" /\ UNCHANGED <<pkg, extractions>>
      BY <2>1 DEF ValidatorReports, Goto
    <3>2. \A f \in validation'.flags :
             f \in RunValidationRules(pkg, extractions) \/ f.rule = "EVALUATOR_DISCREPANCY"
      BY <2>1 DEF ValidatorReports, GroundingFlags, Flag
    <3>. QED  BY <3>1, <3>2 DEF FlagsFound
  <2>2. CASE HandleError
    <3>1. next' = "decision_gate" /\ UNCHANGED <<pkg, extractions, validation>>
      BY <2>2 DEF HandleError, Goto, AfterError
    <3>. QED  BY <3>1 DEF GrantInv, FlagsFound
  <2>3. CASE ~ValidatorReports /\ ~HandleError
    <3>1. UNCHANGED validation
      BY <2>3 DEF Intake, RouterClassifies, RouterExhausted, Orchestrator, FanIn,
                  ValidatorExhausted
    <3>2. next \in {"intake", "router", "orchestrator", "extract_document", "validator"}
      BY <2>3 DEF Intake, RouterClassifies, RouterExhausted, Orchestrator, FanIn,
                  ValidatorExhausted, Running
    <3>3. validation = NoValidation
      BY <3>2 DEF GrantInv
    <3>. QED  BY <3>1, <3>3 DEF FlagsFound, NoValidation
  <2>. QED  BY <2>1, <2>2, <2>3
<1>. QED  BY <1>1, <1>3, <1>4, <1>5, EarlyGrant

(* Each trigger the rules fire has its reason: the hits of a screening are *)
(* listed names among those that were to be screened.                      *)
LEMMA ScreenHits ==
  ASSUME NEW names, NEW again, NEW listed, NEW r \in Screens(names, again, listed)
  PROVE  r.hits \subseteq names \cap listed
BY DEF Screens, Screen

LEMMA FiredWithReason ==
  ASSUME NEW applicant, NEW confidence, NEW flags, NEW sanctions, NEW pep, NEW ubo,
         NEW unavailable
  PROVE  LET triggered == EvaluateRiskRules(applicant, confidence, flags, sanctions, pep,
                                            ubo, unavailable)
         IN  /\ "SANCTIONS_HIT" \in triggered => sanctions # {}
             /\ "PEP_MATCH" \in triggered => pep # {}
             /\ "UBO_SANCTIONS_OR_PEP" \in triggered => ubo # {}
             /\ "HIGH_VOLUME" \in triggered => ExceedsVolume(applicant)
             /\ "LOW_CONFIDENCE" \in triggered => confidence < ConfidenceThreshold
             /\ "CRITICAL_MISMATCH" \in triggered => CriticalMismatches(flags) # {}
BY DEF EvaluateRiskRules, Fired

LEMMA RiskScorerGrants == DecisionInv /\ GrantInv /\ RiskScorer => GrantInv'
<1>1. SUFFICES ASSUME DecisionInv, GrantInv, RiskScorer PROVE GrantInv'
  OBVIOUS
<1>2. /\ next = "risk_scorer" /\ next' = "decision_gate"
      /\ UNCHANGED <<pkg, classified, incomplete, extractions, validation, decision>>
  BY <1>1 DEF RiskScorer, Running, Goto
<1> DEFINE persons   == PersonNames(pkg, extractions)
           companies == CompanyNames(pkg, extractions)
           owners    == OwnerNames(extractions)
<1>0. PICK s \in Screens(persons \cup companies, persons \cap companies, Sanctioned),
           p \in Screens(persons, {}, Peps),
           us \in Screens(owners, {}, Sanctioned), up \in Screens(owners, {}, Peps) :
        LET unavailable == Unavailable(s, p, us, up)
            triggered == EvaluateRiskRules(pkg, validation.confidence, validation.flags,
                            s.hits, p.hits, us.hits \cup up.hits, unavailable)
        IN  /\ risk' = [level |-> RiskLevel(triggered), triggered |-> triggered,
                        sanctions |-> s.hits, pep |-> p.hits \cup us.hits \cup up.hits]
            /\ screened' = [sanctions |-> s.answered \cup us.answered,
                            pep |-> p.answered \cup up.answered]
            /\ Emit({Completed("risk_scorer")}
                    \cup {Event("risk_scorer", "error", r) : r \in unavailable}
                    \cup RuleEvents("risk_scorer", triggered))
  BY <1>1 DEF RiskScorer
<1>3. risk'.triggered = EvaluateRiskRules(pkg, validation.confidence, validation.flags,
              s.hits, p.hits, us.hits \cup up.hits, Unavailable(s, p, us, up))
  BY <1>0
<1>4. /\ s.hits \subseteq (persons \cup companies) \cap Sanctioned
      /\ p.hits \subseteq persons \cap Peps
      /\ us.hits \subseteq owners \cap Sanctioned
      /\ up.hits \subseteq owners \cap Peps
  <2>. HIDE DEF persons, companies, owners
  <2>. QED  BY <1>3, ScreenHits
<1>5. /\ "SANCTIONS_HIT" \in risk'.triggered => s.hits # {}
      /\ "PEP_MATCH" \in risk'.triggered => p.hits # {}
      /\ "UBO_SANCTIONS_OR_PEP" \in risk'.triggered => us.hits \cup up.hits # {}
      /\ "HIGH_VOLUME" \in risk'.triggered => ExceedsVolume(pkg)
      /\ "LOW_CONFIDENCE" \in risk'.triggered => validation.confidence < ConfidenceThreshold
      /\ "CRITICAL_MISMATCH" \in risk'.triggered => CriticalMismatches(validation.flags) # {}
  BY <1>3, FiredWithReason
<1>6. /\ "SANCTIONS_HIT" \in risk'.triggered => (persons \cup companies) \cap Sanctioned # {}
      /\ "PEP_MATCH" \in risk'.triggered => persons \cap Peps # {}
      /\ "UBO_SANCTIONS_OR_PEP" \in risk'.triggered => owners \cap (Sanctioned \cup Peps) # {}
  <2>. HIDE DEF persons, companies, owners
  <2>. QED  BY <1>4, <1>5
<1>7. TriggersFound'
  <2>1. /\ PersonNames(pkg, extractions)' = persons
        /\ CompanyNames(pkg, extractions)' = companies
        /\ OwnerNames(extractions)' = owners
    BY <1>2
  <2>. QED  BY <1>2, <1>5, <1>6, <2>1 DEF TriggersFound
<1>8. FlagsFound' /\ (incomplete' => ~AllRecognised')
  BY <1>1, <1>2 DEF GrantInv, FlagsFound, AllRecognised
<1>. QED  BY <1>1, <1>2, <1>7, <1>8, EarlyGrant DEF Undecided

(* The gate's decision is the matrix, and stays so until a human decides. *)
LEMMA LaterStepGrants ==
  ASSUME DecisionInv, GrantInv,
         \/ DecisionGate
         \/ AutoDecision \/ HumanReviewInterrupts \/ HumanReviewDecides \/ Finalize
         \/ \E d \in Docs : Worker(d)
         \/ ValidatorRaises \/ RecursionLimitHit
         \/ \E value \in Outcomes \cup {"invalid"} : Review(value)
         \/ Crash \/ Stopped \/ UNCHANGED vars
  PROVE  GrantInv'
<1>1. UNCHANGED <<pkg, classified, extractions, validation, risk, incomplete, degraded>>
  BY DEF DecisionGate, AutoDecision, HumanReviewInterrupts, HumanReviewDecides, Finalize, Goto,
         Worker, ExtractDocument, ExtractUnreadable, ExtractExhausted, Working, ValidatorRaises,
         RecursionLimitHit, Review, Crash, Stopped, vars, channels
<1>2. next' = next \/ next' \in {"auto_decision", "human_review", "finalize", "end"}
  BY DEF DecisionGate, AutoDecision, HumanReviewInterrupts, HumanReviewDecides, Finalize, Goto,
         Worker, ExtractDocument, ExtractUnreadable, ExtractExhausted, Working, ValidatorRaises,
         RecursionLimitHit, Review, Crash, Stopped, AfterReview, vars, control
<1>3. GateDecision' = GateDecision
  BY <1>1 DEF GateDecision
<1>4. decision'.decided_by = "system" => decision' = GateDecision
  <2>1. CASE DecisionGate
    BY <2>1 DEF DecisionGate
  <2>2. CASE HumanReviewDecides
    BY <2>2 DEF HumanReviewDecides
  <2>3. CASE ~DecisionGate /\ ~HumanReviewDecides
    <3>1. UNCHANGED decision
      BY <2>3 DEF AutoDecision, HumanReviewInterrupts, Finalize, Worker, ExtractDocument,
         ExtractUnreadable, ExtractExhausted, Working, ValidatorRaises, RecursionLimitHit,
         Review, Crash, Stopped, vars, channels
    <3>. QED  BY <3>1 DEF GrantInv
  <2>. QED  BY <2>1, <2>2, <2>3
<1>. QED  BY <1>1, <1>2, <1>3, <1>4, GrantFrame

LEMMA NextGrants == DecisionInv /\ GrantInv /\ [Next]_vars => GrantInv'
BY BeforeGateGrants, RiskScorerGrants, LaterStepGrants DEF Next, Node

LEMMA InitGrants == Init => GrantInv
<1>1. Init => decision.decided_by # "system" /\ validation.flags = {} /\ risk.triggered = {}
  BY DEF Init, NoDecision, None, NoValidation, NoRisk
<1>. QED  BY <1>1, NoneTriggered DEF Init, GrantInv, FlagsFound

(* An approval that is due is granted: a case that no failure, registry or *)
(* list stands against, and that passes no limit, meeting one included, is *)
(* approved whenever the system decides it, for any documents, readings,   *)
(* declared values and limits.                                             *)
THEOREM ApprovalIsGrantedHolds == Spec => []ApprovalIsGranted
<1>1. DecisionInv /\ GrantInv => ApprovalIsGranted
  <2>1. SUFFICES ASSUME DecisionInv, GrantInv,
                        decision.decided_by = "system",
                        degraded = {}, "REGISTRY_UNAVAILABLE" \notin risk.triggered,
                        AllRecognised, Unlisted, WithinLimits, ~Ungrounded,
                        incomplete \/ validation.confidence >= ConfidenceThreshold
                 PROVE  decision.outcome = "approve"
    BY DEF ApprovalIsGranted
  <2>2. ~incomplete
    BY <2>1 DEF GrantInv
  <2>3. ~ExceedsVolume(pkg) /\ Objections(RunValidationRules(pkg, extractions)) = {}
    BY <2>1, LimitsAreTheRules DEF DecisionInv
  <2>4. Objections(validation.flags) = {}
    BY <2>1, <2>3 DEF GrantInv, FlagsFound, Ungrounded, Objections
  <2>5. ~Expired(validation.flags) /\ CriticalMismatches(validation.flags) = {}
    BY <2>4 DEF Objections, Expired, CriticalMismatches
  <2>6. ~(validation.confidence < ConfidenceThreshold)
    BY <2>1, <2>2, ThresholdsAssumption DEF DecisionInv, TypeOK
  <2>7. risk.triggered = {}
    <3>1. risk.triggered \subseteq EscalationRules
      BY <2>1 DEF DecisionInv, TypeOK
    <3>2. /\ "SANCTIONS_HIT" \notin risk.triggered /\ "PEP_MATCH" \notin risk.triggered
          /\ "UBO_SANCTIONS_OR_PEP" \notin risk.triggered
      BY <2>1 DEF GrantInv, TriggersFound, Unlisted
    <3>3. /\ "HIGH_VOLUME" \notin risk.triggered /\ "LOW_CONFIDENCE" \notin risk.triggered
          /\ "CRITICAL_MISMATCH" \notin risk.triggered
      BY <2>1, <2>3, <2>5, <2>6 DEF GrantInv, TriggersFound
    <3>. QED  BY <2>1, <3>1, <3>2, <3>3 DEF EscalationRules
  <2>. QED  BY <2>1, <2>2, <2>5, <2>7 DEF GrantInv, GateDecision, DecideGate, BySystem
<1>. QED  BY <1>1, InitGrants, NextGrants, AlwaysDecisionInv, PTL DEF Spec
===============================================================================
