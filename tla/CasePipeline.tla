----------------------------- MODULE CasePipeline -----------------------------
(***************************************************************************)
(* One case on its way through the LangGraph graph of graph/builder.py.    *)
(*                                                                         *)
(* Every node of graph/nodes.py is an action (two or three when it returns *)
(* to different nodes).  The graph runs in supersteps: the writes of a     *)
(* node reach the channels, and the checkpoint, when the superstep ends.   *)
(* Only extract_document runs several times in one superstep, so its       *)
(* results wait in "results" until FanIn applies them.                     *)
(***************************************************************************)
EXTENDS ValidationRules, RiskRules, ServiceCalls

CONSTANTS
    RecursionLimit,     \* settings.graph_recursion_limit
    EvaluatorEnabled,   \* ctx.evaluator_enabled
    AuditMayFail,       \* may the inner audit sink lose a write?
    DaysUp,             \* for how many days the process has been running
    MaxCrashes          \* bound: how often the process dies during the case

ASSUME PipelineAssumption ==
    /\ RecursionLimit \in Nat /\ MaxCrashes \in Nat /\ DaysUp \in Nat
    /\ EvaluatorEnabled \in BOOLEAN /\ AuditMayFail \in BOOLEAN

VARIABLES
    pkg,            \* state["package"]
    (* the channels of KYCState, as of the last checkpoint *)
    status, classified, incomplete, extractions, validation, risk, decision,
    errors, retries, degraded,
    (* the run of the graph (LangGraph, external) *)
    next,           \* the node the next superstep runs, or "end"
    results,        \* results[d]: the update returned by the worker of d
    run,            \* running, interrupted, ended, failed or lost
    interrupt,      \* the pending review payload, checkpointed
    resume,         \* the resume value of Command(resume=...), or None
    steps,          \* supersteps executed by the current ainvoke
    crashes,        \* crashes so far, at most MaxCrashes
    (* what an observer sees *)
    trail,          \* the audit events that were written
    screened        \* screened[r]: the names registry r has answered for

channels == <<status, classified, incomplete, extractions, validation, risk,
              decision, errors, retries, degraded>>
control  == <<next, results, run, interrupt, resume, steps, crashes>>
vars     == <<pkg, channels, control, trail, screened>>

(***************************************************************************)
(* Domains                                                                 *)
(***************************************************************************)
Nodes == {"intake", "router", "orchestrator", "extract_document", "validator",
          "risk_scorer", "decision_gate", "auto_decision", "human_review",
          "finalize", "handle_error", "end"}

(* The keys of errors, retry_counts and degraded_reasons: a worker goes by *)
(* the document_id of its document, and Source[d] stands for that id.      *)
Steps == {"router", "validator"} \cup Docs
Key(s) == IF s \in Docs THEN Source[s] ELSE s

Registries == {"sanctions", "pep"}

Known == {d \in Docs : classified[d] \in KnownTypes}

NoValidation == [flags |-> {}, confidence |-> 0]
NoRisk       == [level |-> None, triggered |-> {}, sanctions |-> {}, pep |-> {}]
NoDecision   == [outcome |-> None, decided_by |-> None, reason_codes |-> {}]
NoInterrupt  == [pending |-> FALSE, codes |-> {}, reject |-> FALSE,
                 degraded |-> FALSE, invalid |-> FALSE]
NoResult     == [done |-> FALSE, error |-> FALSE, reading |-> NoReading,
                 errors |-> 0, attempts |-> 0]

NoResults == [d \in Docs |-> NoResult]
Pending   == {d \in Known : ~results[d].done}

(***************************************************************************)
(* errors and retry_counts are additive channels (operator.add and         *)
(* _merge_counts).  They are kept as the sets of the failed attempts and   *)
(* of all attempts, "by" telling apart two workers with one key, so that   *)
(* adding is a union and a count is the number of a key's attempts.        *)
(***************************************************************************)
Tries(s, count) == {[step |-> Key(s), by |-> s, attempt |-> i] : i \in 1..count}

Count(s, failed, attempts) ==
    /\ errors' = errors \cup Tries(s, failed)
    /\ retries' = retries \cup Tries(s, attempts)

Degrade(reasons) == degraded' = degraded \cup reasons

(***************************************************************************)
(* emit through SafeAuditSink: a write that fails is swallowed.            *)
(***************************************************************************)
Event(node, type, what) == [node |-> node, type |-> type, what |-> what]
Completed(node) == Event(node, "node_completed", None)
RuleEvents(node, rules) == {Event(node, "rule_triggered", r) : r \in rules}

Kept(events) == IF AuditMayFail THEN SUBSET events ELSE {events}
Emit(events) == \E kept \in Kept(events) : trail' = trail \cup kept

(***************************************************************************)
(* The Pregel loop: the superstep of node n runs and the next one is m.    *)
(***************************************************************************)
Running(n) == run = "running" /\ next = n /\ steps < RecursionLimit

Goto(m) ==
    /\ next' = m
    /\ steps' = steps + 1
    /\ UNCHANGED <<pkg, results, run, interrupt, resume, crashes>>

Init ==
    /\ pkg \in Packages
    /\ status = "received"
    /\ classified = [d \in Docs |-> None]
    /\ incomplete = FALSE
    /\ extractions = {}
    /\ validation = NoValidation
    /\ risk = NoRisk
    /\ decision = NoDecision
    /\ errors = {}
    /\ retries = {}
    /\ degraded = {}
    /\ next = "intake"
    /\ results = NoResults
    /\ run = "running"
    /\ interrupt = NoInterrupt
    /\ resume = None
    /\ steps = 0
    /\ crashes = 0
    /\ trail = {}
    /\ screened = [r \in Registries |-> {}]

Intake ==
    /\ Running("intake")
    /\ status' = "processing"
    /\ Emit({Completed("intake")})
    /\ Goto("router")
    /\ UNCHANGED <<classified, incomplete, extractions, validation, risk,
                   decision, errors, retries, degraded, screened>>

(* The classifier may give any document any type, unknown included. *)
RouterClassifies ==
    /\ Running("router")
    /\ classified' \in [Docs -> DocumentType]
    /\ \E failed \in Recovered : Count("router", failed, failed + 1)
    /\ Emit({Completed("router")})
    /\ Goto("orchestrator")
    /\ UNCHANGED <<status, incomplete, extractions, validation, risk, decision,
                   degraded, screened>>

RouterExhausted ==
    /\ Running("router")
    /\ Count("router", Budget, Budget)
    /\ Degrade({"router"})
    /\ Emit({Event("router", "error", None)})
    /\ Goto("handle_error")
    /\ UNCHANGED <<status, classified, incomplete, extractions, validation, risk,
                   decision, screened>>

(***************************************************************************)
(* orchestrator: an unclassifiable document degrades the case; a package   *)
(* whose known documents miss a required type goes straight to the gate;   *)
(* otherwise one worker is sent per known document.                        *)
(***************************************************************************)
Unclassified == {Source[d] : d \in Docs \ Known}
UnreadableEvent(key) == Event("orchestrator", "rule_triggered", key)

Incomplete == MissingDocs(pkg.customer, {classified[d] : d \in Known}) # {}

Orchestrator ==
    /\ Running("orchestrator")
    /\ Degrade(Unclassified)
    /\ incomplete' = Incomplete
    /\ Emit({UnreadableEvent(key) : key \in Unclassified}
            \cup IF Incomplete THEN RuleEvents("orchestrator", {"INCOMPLETE_PACKAGE"})
                               ELSE {Completed("orchestrator")})
    /\ Goto(IF Incomplete THEN "decision_gate" ELSE "extract_document")
    /\ UNCHANGED <<status, classified, extractions, validation, risk, decision,
                   errors, retries, screened>>

(***************************************************************************)
(* extract_document, the worker sent for d.  It reads docs_by_id, so two   *)
(* documents with one id are both read from the last of them.              *)
(***************************************************************************)
Return(d, error, reading, failed, attempts) ==
    results' = [results EXCEPT ![d] =
        [done |-> TRUE, error |-> error, reading |-> reading,
         errors |-> failed, attempts |-> attempts]]

Working(d) ==
    /\ Running("extract_document")
    /\ d \in Pending
    /\ UNCHANGED <<pkg, channels, next, run, interrupt, resume, steps, crashes, screened>>

ExtractDocument(d) ==
    /\ Working(d)
    /\ \E reading \in Readings[classified[d]], failed \in Recovered :
          Return(d, FALSE, reading, failed, failed + 1)
    /\ Emit({Completed(Source[d])})

ExtractUnreadable(d) ==
    /\ Working(d)
    /\ \E failed \in Recovered : Return(d, TRUE, NoReading, failed, failed + 1)
    /\ Emit({Completed(Source[d])})

ExtractExhausted(d) ==
    /\ Working(d)
    /\ Return(d, TRUE, NoReading, Budget, Budget)
    /\ Emit({Event(Source[d], "error", None)})

(* The end of the superstep: the reducers merge what the workers returned. *)
Extraction(d) ==
    [doc |-> d, source |-> Source[d], type |-> classified[d],
     error |-> results[d].error, reading |-> results[d].reading]

(* Mutant: a worker that exhausted its budget forgets its reason. *)
UnreadableUnlessExhausted ==
    {Source[d] : d \in {x \in Known : results[x].error /\ results[x].errors < Budget}}
Unreadable == {Source[d] : d \in {x \in Known : results[x].error}}

FanIn ==
    /\ Running("extract_document")
    /\ Pending = {}
    /\ extractions' = extractions \cup {Extraction(d) : d \in Known}
    /\ Degrade(Unreadable)
    /\ errors' = errors \cup UNION {Tries(d, results[d].errors) : d \in Known}
    /\ retries' = retries \cup UNION {Tries(d, results[d].attempts) : d \in Known}
    /\ results' = NoResults
    /\ next' = "validator"
    /\ steps' = steps + 1
    /\ UNCHANGED <<pkg, status, classified, incomplete, validation, risk, decision,
                   run, interrupt, resume, crashes, trail, screened>>

(***************************************************************************)
(* validator: the deterministic rules, then one grounding call for every   *)
(* readable document.  The rules run outside run_resilient, so what they   *)
(* raise ends the run.                                                     *)
(***************************************************************************)
GroundingCalls == IF EvaluatorEnabled THEN Readable(extractions) ELSE {}

GroundingFlags(ungrounded) ==
    {Flag("EVALUATOR_DISCREPANCY", "critical", e.doc, "grounding") : e \in ungrounded}

(* At least n grounding calls are needed for one of them to have recovered. *)
Recoveries(n) ==
    {events \in SUBSET {Event("validator", "error", "recovered")} :
        events # {} => Cardinality(GroundingCalls) >= n}

(* Mutant: only critical flags reach the audit trail. *)
CriticalValidatorEvents(flags) ==
    {Completed("validator")}
    \cup RuleEvents("validator", {f.rule : f \in {g \in flags : g.severity = "critical"}})
ValidatorEvents(flags) ==
    {Completed("validator")} \cup RuleEvents("validator", {f.rule : f \in flags})

ValidatorReports ==
    /\ Running("validator")
    /\ ~ParseFails(extractions)
    /\ \E ungrounded \in SUBSET GroundingCalls :
          LET grounding == GroundingFlags(ungrounded)
              flags == RunValidationRules(pkg, extractions) \cup grounding
          IN  /\ validation' =
                   [flags |-> flags,
                    confidence |-> OverallConfidence(extractions, grounding, flags)]
              /\ \E recovered \in Recoveries(1) : Emit(recovered \cup ValidatorEvents(flags))
    /\ Goto("risk_scorer")
    /\ UNCHANGED <<status, classified, incomplete, extractions, risk, decision,
                   errors, retries, degraded, screened>>

ValidatorExhausted ==
    /\ Running("validator")
    /\ ~ParseFails(extractions)
    /\ GroundingCalls # {}
    /\ Count("validator", Budget, Budget)
    /\ Degrade({"validator"})
    /\ \E recovered \in Recoveries(2) : Emit(recovered \cup {Event("validator", "error", None)})
    /\ Goto("handle_error")
    /\ UNCHANGED <<status, classified, incomplete, extractions, validation, risk,
                   decision, screened>>

ValidatorRaises ==
    /\ Running("validator")
    /\ ParseFails(extractions)
    /\ run' = "failed"
    /\ UNCHANGED <<pkg, channels, next, results, interrupt, resume, steps, crashes,
                   trail, screened>>

(***************************************************************************)
(* risk_scorer: the names found are screened with both registries, those   *)
(* of the owners on their own, and what no registry answered for fires a   *)
(* trigger of its own.                                                     *)
(***************************************************************************)
RiskScorer ==
    LET persons   == PersonNames(pkg, extractions)
        companies == CompanyNames(pkg, extractions)
        owners    == OwnerNames(extractions)
    IN
    /\ Running("risk_scorer")
    /\ \E s \in Screens(persons \cup companies, persons \cap companies, Sanctioned),
          p \in Screens(persons, {}, Peps),
          us \in Screens(owners, {}, Sanctioned), up \in Screens(owners, {}, Peps) :
          LET unavailable == Unavailable(s, p, us, up)
              triggered == EvaluateRiskRules(pkg, validation.confidence, validation.flags,
                              s.hits, p.hits, us.hits \cup up.hits, unavailable)
          IN  /\ risk' = [level |-> RiskLevel(triggered), triggered |-> triggered,
                          sanctions |-> s.hits, pep |-> p.hits \cup us.hits \cup up.hits]
              /\ screened' = [sanctions |-> s.answered \cup us.answered,
                              pep |-> p.answered \cup up.answered]
              /\ Emit({Completed("risk_scorer")}
                      \cup {Event("risk_scorer", "error", r) : r \in unavailable}
                      \cup RuleEvents("risk_scorer", triggered))
    /\ Goto("decision_gate")
    /\ UNCHANGED <<status, classified, incomplete, extractions, validation, decision,
                   errors, retries, degraded>>

(***************************************************************************)
(* decision_gate.  An escalation announces awaiting_human_review in the    *)
(* gate's own checkpoint, one superstep before human_review interrupts.    *)
(***************************************************************************)
GateDecision == DecideGate(incomplete, validation.flags, risk.triggered, degraded # {})

(* Mutant: the gate itself closes what it decides. *)
GateCloses(outcome) == IF outcome = "escalate" THEN "awaiting_human_review" ELSE "completed"
GateStatus(outcome) == IF outcome = "escalate" THEN "awaiting_human_review" ELSE status

DecisionGate ==
    /\ Running("decision_gate")
    /\ decision' = GateDecision
    /\ status' = GateStatus(GateDecision.outcome)
    /\ Emit({Completed("decision_gate")})
    /\ Goto(IF GateDecision.outcome = "escalate" THEN "human_review" ELSE "auto_decision")
    /\ UNCHANGED <<classified, incomplete, extractions, validation, risk, errors,
                   retries, degraded, screened>>

DecisionMade == Event("auto_decision", "decision_made", decision.outcome)

AutoDecision ==
    /\ Running("auto_decision")
    /\ Emit({DecisionMade})
    /\ Goto("finalize")
    /\ UNCHANGED <<channels, screened>>

(***************************************************************************)
(* human_review: interrupt() stops the run with the review payload; a      *)
(* resume value that is no HumanDecision interrupts again, with the error. *)
(***************************************************************************)
ReviewPayload(invalid) ==
    [pending |-> TRUE, codes |-> decision.reason_codes,
     reject |-> decision.reason_codes
                  \cap {"SANCTIONS_HIT", "PEP_MATCH", "UBO_SANCTIONS_OR_PEP"} # {},
     degraded |-> degraded # {}, invalid |-> invalid]

Outcomes == {"approve", "reject"}

(* HumanDecision.model_validate *)
(* Mutant: the resume value is used without validation. *)
AnyReview(value) == value # None
ValidReview(value) == value \in Outcomes

HumanReviewInterrupts ==
    /\ Running("human_review")
    /\ ~ValidReview(resume)
    /\ interrupt' = ReviewPayload(resume # None)
    /\ run' = "interrupted"
    /\ resume' = None
    /\ UNCHANGED <<pkg, channels, next, results, steps, crashes, trail, screened>>

(* Every ainvoke has a superstep budget of its own. *)
FreshBudget == 0

(* Command(resume=value) of a reviewer, a new ainvoke with a budget of its *)
(* own; "invalid" stands for any value that is no HumanDecision.           *)
Review(value) ==
    /\ run = "interrupted"
    /\ run' = "running"
    /\ resume' = value
    /\ steps' = FreshBudget
    /\ UNCHANGED <<pkg, channels, next, results, interrupt, crashes, trail, screened>>

(* Mutant: the decision of the human goes back to the gate. *)
AfterReviewGate == "decision_gate"
AfterReview == "finalize"

HumanDecided(outcome) == Event("human_review", "human_decision", outcome)

HumanReviewDecides ==
    /\ Running("human_review")
    /\ ValidReview(resume)
    /\ decision' = [outcome |-> resume, decided_by |-> "human",
                    reason_codes |-> decision.reason_codes]
    /\ Emit({HumanDecided(resume)})
    /\ interrupt' = NoInterrupt
    /\ resume' = None
    /\ next' = AfterReview
    /\ steps' = steps + 1
    /\ UNCHANGED <<pkg, status, classified, incomplete, extractions, validation, risk,
                   errors, retries, degraded, results, run, crashes, screened>>

CaseCompleted == Event("finalize", "case_completed", decision.outcome)

Finalize ==
    /\ Running("finalize")
    /\ Emit({CaseCompleted})
    /\ status' = "completed"
    /\ next' = "end"
    /\ run' = "ended"
    /\ steps' = steps + 1
    /\ UNCHANGED <<pkg, classified, incomplete, extractions, validation, risk, decision,
                   errors, retries, degraded, results, interrupt, resume, crashes, screened>>

(* Mutant: a failed step is tried again from the start. *)
AfterErrorRetries == "router"
AfterError == "decision_gate"

HandleError ==
    /\ Running("handle_error")
    /\ Emit({Event("handle_error", "error", None)})
    /\ status' = "processing"
    /\ Goto(AfterError)
    /\ UNCHANGED <<classified, incomplete, extractions, validation, risk, decision,
                   errors, retries, degraded, screened>>

(***************************************************************************)
(* CaseService._run logs GraphRecursionError and gives up on the run.      *)
(***************************************************************************)
RecursionLimitHit ==
    /\ run = "running" /\ steps = RecursionLimit
    /\ run' = "failed"
    /\ UNCHANGED <<pkg, channels, next, results, interrupt, resume, steps, crashes,
                   trail, screened>>

(***************************************************************************)
(* The process dies in the middle of a superstep.  Its writes are lost,    *)
(* though not the audit event it may have written already; no code starts  *)
(* a run again, but a checkpointed interrupt can still be resumed.         *)
(* Events of the nodes before auto_decision are left out: the case goes    *)
(* nowhere from there.                                                     *)
(***************************************************************************)
InFlight ==
    CASE next = "auto_decision" -> {DecisionMade}
      [] next = "human_review"  -> {HumanDecided(o) : o \in {resume} \cap Outcomes}
      [] next = "finalize"      -> {CaseCompleted}
      [] OTHER                  -> {}

Crash ==
    /\ run = "running"
    /\ crashes < MaxCrashes
    /\ crashes' = crashes + 1
    /\ run' = IF interrupt.pending THEN "interrupted" ELSE "lost"
    /\ results' = NoResults
    /\ resume' = None
    /\ \E written \in SUBSET InFlight : trail' = trail \cup written
    /\ UNCHANGED <<pkg, channels, next, interrupt, steps, screened>>

Stopped == run \in {"ended", "failed", "lost"} /\ UNCHANGED vars

Worker(d) == ExtractDocument(d) \/ ExtractUnreadable(d) \/ ExtractExhausted(d)

Node ==
    \/ Intake \/ RouterClassifies \/ RouterExhausted \/ Orchestrator
    \/ (\E d \in Docs : Worker(d)) \/ FanIn
    \/ ValidatorReports \/ ValidatorExhausted \/ ValidatorRaises
    \/ RiskScorer \/ DecisionGate \/ AutoDecision
    \/ HumanReviewInterrupts \/ HumanReviewDecides
    \/ Finalize \/ HandleError \/ RecursionLimitHit

Next ==
    \/ Node
    \/ \E value \in Outcomes \cup {"invalid"} : Review(value)
    \/ Crash
    \/ Stopped

Spec == Init /\ [][Next]_vars

(***************************************************************************)
(* Fairness.  The event loop keeps running the tasks of a run that has     *)
(* work to do, and every service call returns (none of them has a timeout, *)
(* so this is an assumption on the providers).  ReviewedSpec adds a        *)
(* reviewer who, shown the case again and again, in the end gives a valid  *)
(* answer.                                                                 *)
(***************************************************************************)
FairSpec == Spec /\ WF_vars(Node)

ReviewedSpec == FairSpec /\ SF_vars(\E o \in Outcomes : Review(o))

-------------------------------------------------------------------------------
(***************************************************************************)
(* Properties                                                              *)
(***************************************************************************)
Result ==
    [done: BOOLEAN, error: BOOLEAN, reading: AllReadings,
     errors: 0..Budget, attempts: 0..Budget]

EventNodes == Nodes \cup Docs
EventTypes == {"node_completed", "error", "rule_triggered", "decision_made",
               "human_decision", "case_completed"}
EventDetails == ReasonCodes \cup ValidationRules \cup Registries \cup Outcomes \cup Docs
                \cup {None, "recovered", "escalate"}
Attempt == [step: Steps, by: Steps, attempt: 1..Budget]
AuditEvent == [node: EventNodes, type: EventTypes, what: EventDetails]

(* Every variable keeps its type: the channels of KYCState hold values of  *)
(* their declared types (graph/state.py) and the control is well-formed.   *)
TypeOK ==
    /\ pkg \in Packages
    /\ status \in CaseStatus
    /\ classified \in [Docs -> DocumentType \cup {None}]
    /\ incomplete \in BOOLEAN
    /\ extractions \subseteq ExtractionResult
    /\ validation \in [flags: SUBSET RuleFlag, confidence: 0..100]
    /\ risk \in [level: {None, "low", "medium", "high"}, triggered: SUBSET EscalationRules,
                 sanctions: SUBSET Texts, pep: SUBSET Texts]
    /\ decision \in Decision \cup {NoDecision}
    /\ errors \subseteq Attempt /\ retries \subseteq Attempt
    /\ degraded \subseteq Steps
    /\ next \in Nodes
    /\ results \in [Docs -> Result]
    /\ run \in {"running", "interrupted", "ended", "failed", "lost"}
    /\ interrupt \in [pending: BOOLEAN, codes: SUBSET ReasonCodes, reject: BOOLEAN,
                      degraded: BOOLEAN, invalid: BOOLEAN]
    /\ resume \in Outcomes \cup {"invalid", None}
    /\ steps \in 0..RecursionLimit /\ crashes \in 0..MaxCrashes
    /\ trail \subseteq AuditEvent
    /\ screened \in [Registries -> SUBSET Texts]

AutoApproved == decision.outcome = "approve" /\ decision.decided_by = "system"

(* The recall invariant of rules/risk.py: once a mandatory trigger fired,  *)
(* or any step degraded the case, the system on its own neither approves   *)
(* nor rejects it; the only decision that can close it is a human's.       *)
EscalationRecall ==
    risk.triggered # {} \/ degraded # {} =>
        /\ decision.decided_by = "system" => decision.outcome = "escalate"
        /\ status = "completed" => decision.decided_by = "human"

(* What the applicant declared and the documents, as far as they could be  *)
(* read, say of the limits of SPEC 7: a limit that is just met is met, a   *)
(* document expires after its last day, and what is absent contradicts     *)
(* nothing.  This is said without the rules of rules/.                     *)
Similar(e, field) == \A v \in Got(e, field) : Ratio[v] >= NameCritical

Agrees(e, field, declared) ==
    \A v \in Got(e, field) : declared = None \/ v = declared

WithinLimits ==
    /\ pkg.volume <= HighVolume[pkg.customer]
    /\ \A e \in Readable(extractions) :
          /\ e.type = "id_document" =>
                /\ Similar(e, "full_name")
                /\ Agrees(e, "date_of_birth", pkg.date_of_birth)
                /\ \A day \in Got(e, "expiry_date") \cap DOMAIN Day : Day[day] >= Today
          /\ e.type = "business_registration" =>
                /\ pkg.company_name \notin {None, ""} => Similar(e, "company_name")
                /\ Agrees(e, "registration_number", pkg.registration_number)

Ungrounded == \E f \in validation.flags : f.rule = "EVALUATOR_DISCREPANCY"

AllRecognised == RequiredDocs[pkg.customer] \subseteq {classified[d] : d \in Docs}

(* What must be true of a case the system approves by itself, whatever     *)
(* failed on the way: all required documents were recognised, the worker   *)
(* of every document returned fields, every name found was answered for by *)
(* the registries that screen it and matched none, and the volume, the     *)
(* dates, the confidence and all that was declared are within the limits.  *)
(* No channel says so directly: the gate only sees flags and triggers.     *)
AutoApprovalIsEarned ==
    AutoApproved =>
        /\ AllRecognised
        /\ {e.doc : e \in Readable(extractions)} = Docs
        /\ PersonNames(pkg, extractions) \subseteq
              (screened["sanctions"] \cap screened["pep"]) \ (Sanctioned \cup Peps)
        /\ CompanyNames(pkg, extractions) \subseteq screened["sanctions"] \ Sanctioned
        /\ OwnerNames(extractions) \subseteq
              (screened["sanctions"] \cap screened["pep"]) \ (Sanctioned \cup Peps)
        /\ WithinLimits /\ ~Ungrounded
        /\ validation.confidence >= ConfidenceThreshold

Unlisted ==
    /\ (PersonNames(pkg, extractions) \cup OwnerNames(extractions))
           \cap (Sanctioned \cup Peps) = {}
    /\ CompanyNames(pkg, extractions) \cap Sanctioned = {}

(* The other way round, so that a case which just meets a limit falls on   *)
(* the side SPEC 7 gives it: a case that is complete, grounded, confident  *)
(* and within every limit, that matches no list and that no failed step or *)
(* registry stands in the way of, is approved; nothing else may keep the   *)
(* system from approving it.  A package that was taken for incomplete has  *)
(* no confidence yet.                                                      *)
ApprovalIsGranted ==
    /\ decision.decided_by = "system"
    /\ degraded = {} /\ "REGISTRY_UNAVAILABLE" \notin risk.triggered
    /\ AllRecognised /\ Unlisted /\ WithinLimits /\ ~Ungrounded
    /\ incomplete \/ validation.confidence >= ConfidenceThreshold
    => decision.outcome = "approve"

(* A step that failed every attempt always leaves its reason: no update    *)
(* merged by the reducers, two workers with one key included, may record   *)
(* the failures and lose the reason that sends the case to a human         *)
(* (SPEC 4.7).                                                             *)
ExhaustedStepDegrades ==
    /\ errors \subseteq retries
    /\ \A a \in retries :
          \/ a.step \in degraded
          \/ \E b \in retries \ errors : b.by = a.by

(* The trail explains the decision: when a case completes, every document, *)
(* rule and failed step its decision rests on has its event, and so have   *)
(* the decision and the end; unless the process died on the way, no event  *)
(* announced any other outcome than the one that was stored.               *)
TrailExplainsDecision ==
    status = "completed" =>
        /\ RuleEvents("validator", {f.rule : f \in validation.flags}) \subseteq trail
        /\ RuleEvents("risk_scorer", risk.triggered) \subseteq trail
        /\ \A s \in degraded :
              \E e \in trail : \/ e.node = s /\ e.type \in {"error", "node_completed"}
                               \/ e = UnreadableEvent(s)
        /\ CaseCompleted \in trail
        /\ crashes = 0 =>
              \A e \in trail :
                 e.type \in {"decision_made", "human_decision"} => e.what = decision.outcome
        /\ IF decision.decided_by = "human" THEN HumanDecided(decision.outcome) \in trail
                                            ELSE DecisionMade \in trail

(* The analyst decides on the case as it is stored: the payload shown with *)
(* a pending interrupt still agrees with the checkpointed channels, and a  *)
(* case with a pending interrupt awaits review.                            *)
PayloadIsCurrent ==
    interrupt.pending =>
        /\ status = "awaiting_human_review" /\ next = "human_review"
        /\ decision.outcome = "escalate" /\ interrupt.codes = decision.reason_codes
        /\ interrupt.degraded = (degraded # {})
        /\ interrupt.codes # {}

(* The one way a run of the graph may fail is a date the rules cannot      *)
(* parse: no path, error paths and rejected reviews included, is long      *)
(* enough to trip the recursion limit.                                     *)
FailsOnlyOnBadDate == run = "failed" => ParseFails(extractions)

(* A decision is made by the system only at the gate and replaced only by  *)
(* a human who was shown the payload and gave a valid answer; a completed  *)
(* case never changes again.                                               *)
DecisionStep ==
    /\ decision' # decision =>
          \/ decision = NoDecision /\ next = "decision_gate"
          \/ /\ decision.outcome = "escalate" /\ interrupt.pending
             /\ decision'.decided_by = "human"
             /\ decision'.outcome \in Outcomes /\ decision'.outcome = resume
             /\ decision'.reason_codes = decision.reason_codes
    /\ status = "completed" => UNCHANGED vars

DecisionDiscipline == [][DecisionStep]_vars

(* A case that is processed is never silently dropped (SPEC 4.7): it       *)
(* reaches a human, or completes, or is marked failed.  Two things stand   *)
(* in the way, a run that died with its process and a date that the rules  *)
(* cannot parse; nothing else does, whatever steps fail.                   *)
Settled == status \in {"awaiting_human_review", "completed", "failed"}

SettledUnlessLost ==
    status = "received" ~> Settled \/ run = "lost" \/ ParseFails(extractions)

(* With a reviewer who in the end answers properly, every escalated case   *)
(* completes, even if invalid answers and a crash come in between: only a  *)
(* crash that hits no pending interrupt (before it is stored, or after the *)
(* answer) loses the run for good.                                         *)
ReviewedCaseCompletes ==
    status = "awaiting_human_review" ~> status = "completed" \/ run = "lost"

(* The graph implements the life of a case that SPEC 6.4 promises, crashes *)
(* and invalid reviews included: the verdict is the decision once it is    *)
(* more than an escalation, and a human is mandatory as soon as the        *)
(* channels hold a trigger or a reason of degradation.                     *)
Lifecycle == INSTANCE CaseLifecycle WITH
    mandatory <- risk.triggered # {} \/ degraded # {},
    verdict <- IF decision.outcome \in Outcomes
               THEN [outcome |-> decision.outcome, decided_by |-> decision.decided_by]
               ELSE [outcome |-> "none", decided_by |-> "none"]

ImplementsLifecycle == Lifecycle!Spec

-------------------------------------------------------------------------------
(***************************************************************************)
(* What the documentation says and the code does otherwise.                *)
(***************************************************************************)
(* SPEC.md 4.7: a case never drops silently.  A date that is no ISO date   *)
(* makes the rules raise: the run ends and the case stays in processing.   *)
NeverDropped == status = "received" ~> Settled

(* SPEC.md 7.2: DOC_EXPIRED when the expiry date lies before today.  The   *)
(* process asks for the date when it starts, so that one which has been    *)
(* running since yesterday approves a document that has expired since.     *)
NothingExpiredApproved ==
    AutoApproved =>
        \A e \in Readable(extractions) :
            e.type = "id_document" =>
                \A day \in Got(e, "expiry_date") \cap DOMAIN Day : Day[day] >= Today + DaysUp
===============================================================================
