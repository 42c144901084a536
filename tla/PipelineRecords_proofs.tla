------------------------- MODULE PipelineRecords_proofs -------------------------
(***************************************************************************)
(* What a case leaves behind: the counts of its attempts, the supersteps   *)
(* of its runs and its audit trail.  Theorems about CasePipeline, for      *)
(* every value of its constants.                                           *)
(***************************************************************************)
EXTENDS CasePipeline_proofs

-------------------------------------------------------------------------------
(***************************************************************************)
(* A step that failed for good leaves its reason.                          *)
(***************************************************************************)
(* What a worker may return: an unreadable document, exhausted or not, or  *)
(* an answer to the attempt after the last failure.                        *)
ResultsCount ==
    \A d \in Docs : results[d].done =>
        /\ results[d].errors <= results[d].attempts
        /\ results[d].error \/ results[d].attempts = results[d].errors + 1

(* Two workers with one key are told apart by who made the attempt, and    *)
(* no worker has counted before the end of its superstep.                  *)
CountsInv ==
    /\ ExhaustedStepDegrades
    /\ ResultsCount
    /\ \A a \in retries : a.step = Key(a.by)
    /\ next \in {"intake", "router"} => retries = {}
    /\ next \in {"intake", "router", "orchestrator", "extract_document"} =>
          \A a \in retries : a.by \notin Docs

(* The attempts of a step, one by one. *)
LEMMA TriesAre ==
  ASSUME NEW s, NEW count \in 0..Budget
  PROVE  /\ \A a \in Tries(s, count) : a.step = Key(s) /\ a.by = s /\ a.attempt \in 1..count
         /\ \A i \in 1..count : [step |-> Key(s), by |-> s, attempt |-> i] \in Tries(s, count)
BY DEF Tries

(* An answered step counts one attempt more than failures. *)
LEMMA AnsweredAttempt ==
  ASSUME NEW s, NEW failed \in Nat, NEW attempts \in 0..Budget, failed + 1 = attempts
  PROVE  \E b \in Tries(s, attempts) : b.by = s /\ b \notin Tries(s, failed)
<1> DEFINE b == [step |-> Key(s), by |-> s, attempt |-> attempts]
<1>1. attempts \in 1..attempts /\ failed \in 0..Budget /\ attempts \notin 1..failed
  BY RetriesAssumption DEF Budget
<1>2. b \in Tries(s, attempts)
  BY <1>1 DEF Tries
<1>3. b \notin Tries(s, failed)
  BY <1>1 DEF Tries
<1>. QED  BY <1>2, <1>3

(* Fewer failures than attempts are counted as such. *)
LEMMA TriesGrow ==
  ASSUME NEW s, NEW m \in Nat, NEW n \in Nat, m <= n
  PROVE  Tries(s, m) \subseteq Tries(s, n)
BY DEF Tries

LEMMA InitCounts == Init => CountsInv
BY DEF Init, CountsInv, ExhaustedStepDegrades, ResultsCount, NoResults, NoResult

LEMMA RouterCounts == TypeOK /\ CountsInv /\ (RouterClassifies \/ RouterExhausted) => CountsInv'
<1>0. SUFFICES ASSUME TypeOK, CountsInv, RouterClassifies \/ RouterExhausted PROVE CountsInv'
  OBVIOUS
<1>1. /\ retries = {} /\ errors = {}
      /\ next' \in {"orchestrator", "handle_error"}
      /\ UNCHANGED results
  BY <1>0 DEF RouterClassifies, RouterExhausted, Running, Goto, CountsInv, ExhaustedStepDegrades
<1>2. Budget \in Nat /\ "router" \notin Docs /\ Key("router") = "router"
  BY RetriesAssumption, DocsAssumption DEF Budget, Key
<1>3. ResultsCount'
  BY <1>0, <1>1 DEF CountsInv, ResultsCount
<1>4. CASE RouterClassifies
  <2>1. PICK failed \in Recovered : Count("router", failed, failed + 1)
    BY <1>4 DEF RouterClassifies
  <2>2. failed \in Nat /\ failed + 1 \in 0..Budget
    BY <1>2 DEF Recovered
  <2>3. errors' = Tries("router", failed) /\ retries' = Tries("router", failed + 1)
    BY <1>1, <2>1 DEF Count
  <2>4. errors' \subseteq retries'
    BY <2>2, <2>3, TriesGrow
  <2>5. \E b \in retries' \ errors' : b.by = "router"
    BY <2>2, <2>3, AnsweredAttempt
  <2>6. \A a \in retries' : a.by = "router" /\ a.step = "router"
    BY <1>2, <2>2, <2>3, TriesAre
  <2>7. ExhaustedStepDegrades'
    BY <2>4, <2>5, <2>6 DEF ExhaustedStepDegrades
  <2>. QED  BY <1>1, <1>2, <1>3, <2>6, <2>7 DEF CountsInv, Key
<1>5. CASE RouterExhausted
  <2>1. errors' = Tries("router", Budget) /\ retries' = Tries("router", Budget)
        /\ "router" \in degraded'
    BY <1>1, <1>5 DEF RouterExhausted, Count, Degrade
  <2>2. \A a \in retries' : a.by = "router" /\ a.step = "router"
    BY <1>2, <2>1, TriesAre
  <2>3. ExhaustedStepDegrades'
    BY <2>1, <2>2 DEF ExhaustedStepDegrades
  <2>. QED  BY <1>1, <1>2, <1>3, <2>2, <2>3 DEF CountsInv, Key
<1>. QED  BY <1>0, <1>4, <1>5

LEMMA WorkerCounts == TypeOK /\ CountsInv /\ (\E d \in Docs : Worker(d)) => CountsInv'
<1>1. SUFFICES ASSUME TypeOK, CountsInv, NEW d \in Docs, Worker(d) PROVE CountsInv'
  OBVIOUS
<1>2. UNCHANGED <<errors, retries, degraded, next>>
  BY <1>1 DEF Worker, ExtractDocument, ExtractUnreadable, ExtractExhausted, Working, channels
<1>3. ASSUME NEW e, NEW r, NEW n \in Nat, NEW a \in Nat, Return(d, e, r, n, a),
             n <= a, e = TRUE \/ a = n + 1
      PROVE  ResultsCount'
  <2>1. results' = [results EXCEPT ![d] = [done |-> TRUE, error |-> e, reading |-> r,
                                           errors |-> n, attempts |-> a]]
    BY <1>3 DEF Return
  <2>2. \A x \in Docs : x # d => results'[x] = results[x]
    BY <1>1, <2>1 DEF TypeOK
  <2>3. results'[d].errors = n /\ results'[d].attempts = a /\ results'[d].error = e
    BY <1>1, <2>1 DEF TypeOK
  <2>. QED  BY <1>1, <1>3, <2>2, <2>3 DEF CountsInv, ResultsCount
<1>4. Budget \in Nat /\ \A n \in Recovered : n \in Nat
  BY RetriesAssumption DEF Budget, Recovered
<1>5. ResultsCount'
  <2>1. CASE ExtractDocument(d)
    <3>1. PICK reading \in Readings[classified[d]], failed \in Recovered :
             Return(d, FALSE, reading, failed, failed + 1)
      BY <2>1 DEF ExtractDocument
    <3>2. failed \in Nat /\ failed + 1 \in Nat /\ failed <= failed + 1
      BY <1>4
    <3>. QED  BY <1>3, <3>1, <3>2
  <2>2. CASE ExtractUnreadable(d)
    <3>1. PICK failed \in Recovered : Return(d, TRUE, NoReading, failed, failed + 1)
      BY <2>2 DEF ExtractUnreadable
    <3>2. failed \in Nat /\ failed + 1 \in Nat /\ failed <= failed + 1
      BY <1>4
    <3>. QED  BY <1>3, <3>1, <3>2
  <2>3. CASE ExtractExhausted(d)
    <3>1. Return(d, TRUE, NoReading, Budget, Budget)
      BY <2>3 DEF ExtractExhausted
    <3>2. Budget <= Budget
      BY <1>4
    <3>. QED  BY <1>3, <1>4, <3>1, <3>2
  <2>. QED  BY <1>1, <2>1, <2>2, <2>3 DEF Worker
<1>6. ExhaustedStepDegrades'
  BY <1>1, <1>2 DEF CountsInv, ExhaustedStepDegrades
<1>. QED  BY <1>1, <1>2, <1>5, <1>6 DEF CountsInv

LEMMA FanInCounts == TypeOK /\ CountsInv /\ FanIn => CountsInv'
<1>1. SUFFICES ASSUME TypeOK, CountsInv, FanIn PROVE CountsInv'
  OBVIOUS
<1>2. /\ next = "extract_document" /\ next' = "validator" /\ results' = NoResults
      /\ degraded' = degraded \cup Unreadable
      /\ errors' = errors \cup UNION {Tries(d, results[d].errors) : d \in Known}
      /\ retries' = retries \cup UNION {Tries(d, results[d].attempts) : d \in Known}
  BY <1>1 DEF FanIn, Running, Degrade
<1>3. \A d \in Known : /\ d \in Docs /\ results[d].done
                       /\ results[d].errors \in 0..Budget /\ results[d].attempts \in 0..Budget
                       /\ results[d].error \in BOOLEAN
  BY <1>1 DEF FanIn, Pending, Known, TypeOK, Result
<1>4. ResultsCount'
  BY <1>2 DEF ResultsCount, NoResults, NoResult
<1>5. Budget \in Nat
  BY RetriesAssumption DEF Budget
<1>6. \A d \in Known : Tries(d, results[d].errors) \subseteq Tries(d, results[d].attempts)
  BY <1>1, <1>3, <1>5, TriesGrow DEF CountsInv, ResultsCount
<1>7. errors' \subseteq retries'
  BY <1>1, <1>2, <1>6 DEF CountsInv, ExhaustedStepDegrades
<1>8. \A a \in retries : a.by \notin Docs /\ a \in retries'
  BY <1>1, <1>2 DEF CountsInv
<1>9. \A d \in Known : \A a \in Tries(d, results[d].errors) \cup Tries(d, results[d].attempts) :
         a.by = d /\ a.step = Source[d]
  BY <1>3, TriesAre DEF Key
<1>10. \A b \in retries \ errors : b \notin errors'
  BY <1>2, <1>3, <1>8, <1>9
<1>11. ASSUME NEW a \in retries'
       PROVE  a.step \in degraded' \/ \E b \in retries' \ errors' : b.by = a.by
  <2>1. CASE a \in retries
    <3>1. a.step \in degraded \/ \E b \in retries \ errors : b.by = a.by
      BY <1>1, <2>1 DEF CountsInv, ExhaustedStepDegrades
    <3>. QED  BY <1>2, <1>8, <1>10, <3>1
  <2>2. CASE a \notin retries
    <3>1. PICK d \in Known : a \in Tries(d, results[d].attempts)
      BY <1>2, <1>11, <2>2
    <3>2. CASE results[d].error
      BY <1>2, <1>9, <3>1, <3>2 DEF Unreadable
    <3>3. CASE ~results[d].error
      <4>1. results[d].errors + 1 = results[d].attempts
        BY <1>1, <1>3, <3>3 DEF CountsInv, ResultsCount
      <4>2. results[d].errors \in Nat
        BY <1>3, <1>5
      <4>3. PICK b \in Tries(d, results[d].attempts) : b.by = d /\ b \notin Tries(d, results[d].errors)
        BY <1>3, <4>1, <4>2, AnsweredAttempt
      <4>4. b \in retries' /\ a.by = d
        BY <1>2, <1>9, <3>1, <4>3
      <4>5. b \notin errors
        BY <1>1, <1>3, <1>8, <4>3 DEF CountsInv, ExhaustedStepDegrades
      <4>6. \A x \in Known : b \in Tries(x, results[x].errors) => x = d
        BY <1>9, <4>3
      <4>7. b \notin errors'
        BY <1>2, <4>3, <4>5, <4>6
      <4>. QED  BY <4>3, <4>4, <4>7
    <3>. QED  BY <1>3, <3>1, <3>2, <3>3
  <2>. QED  BY <2>1, <2>2
<1>12. \A a \in retries' : a.step = Key(a.by)
  <2>1. SUFFICES ASSUME NEW a \in retries', a \notin retries PROVE a.step = Key(a.by)
    BY <1>1 DEF CountsInv
  <2>2. PICK d \in Known : a \in Tries(d, results[d].attempts)
    BY <1>2, <2>1
  <2>. QED  BY <1>3, <1>9, <2>2 DEF Key
<1>13. ExhaustedStepDegrades'
  BY <1>7, <1>11 DEF ExhaustedStepDegrades
<1>. QED  BY <1>2, <1>4, <1>12, <1>13 DEF CountsInv

LEMMA ValidatorCounts == TypeOK /\ CountsInv /\ ValidatorExhausted => CountsInv'
<1>1. SUFFICES ASSUME TypeOK, CountsInv, ValidatorExhausted PROVE CountsInv'
  OBVIOUS
<1> DEFINE new == Tries("validator", Budget)
<1>2. /\ errors' = errors \cup new /\ retries' = retries \cup new
      /\ degraded' = degraded \cup {"validator"}
      /\ next' = "handle_error" /\ UNCHANGED results
  BY <1>1 DEF ValidatorExhausted, Count, Degrade, Goto
<1>3. Budget \in Nat /\ Key("validator") = "validator"
  BY RetriesAssumption, DocsAssumption DEF Budget, Key
<1>4. \A a \in new : a.by = "validator" /\ a.step = "validator"
  BY <1>3, TriesAre
<1> HIDE DEF new
<1>5. ASSUME NEW a \in retries'
      PROVE  a.step \in degraded' \/ \E b \in retries' \ errors' : b.by = a.by
  <2>1. CASE a \in new
    BY <1>2, <1>4, <2>1
  <2>2. CASE a \in retries
    <3>1. CASE \E b \in retries \ errors : b.by = a.by
      <4>1. PICK b \in retries \ errors : b.by = a.by
        BY <3>1
      <4>2. CASE b \in new
        BY <1>1, <1>2, <1>3, <1>4, <2>2, <4>1, <4>2 DEF CountsInv
      <4>. QED  BY <1>2, <4>1, <4>2
    <3>2. CASE a.step \in degraded
      BY <1>2, <3>2
    <3>. QED  BY <1>1, <2>2, <3>1, <3>2 DEF CountsInv, ExhaustedStepDegrades
  <2>. QED  BY <1>2, <1>5, <2>1, <2>2
<1>6. ExhaustedStepDegrades'
  BY <1>1, <1>2, <1>5 DEF CountsInv, ExhaustedStepDegrades
<1>7. \A a \in retries' : a.step = Key(a.by)
  BY <1>1, <1>2, <1>3, <1>4 DEF CountsInv
<1>. QED  BY <1>1, <1>2, <1>6, <1>7 DEF CountsInv, ResultsCount

(* The steps that count nothing only ever add reasons and move on. *)
LEMMA OtherCounts ==
  ASSUME CountsInv, UNCHANGED <<errors, retries>>, degraded \subseteq degraded',
         results' \in {results, NoResults},
         \/ next' = next
         \/ next = "intake" /\ next' = "router"
         \/ next = "orchestrator" /\ next' = "extract_document"
         \/ next' \notin {"intake", "router", "orchestrator", "extract_document"}
  PROVE  CountsInv'
<1>1. ExhaustedStepDegrades'
  BY DEF CountsInv, ExhaustedStepDegrades
<1>2. ResultsCount'
  BY DEF CountsInv, ResultsCount, NoResults, NoResult
<1>. QED  BY <1>1, <1>2 DEF CountsInv

LEMMA NextCounts == TypeOK /\ CountsInv /\ [Next]_vars => CountsInv'
<1>1. SUFFICES ASSUME TypeOK, CountsInv, [Next]_vars PROVE CountsInv'
  OBVIOUS
<1>2. CASE Intake \/ Orchestrator
  BY <1>1, <1>2, OtherCounts DEF Intake, Orchestrator, Running, Goto, Degrade
<1>3. CASE ValidatorReports \/ RiskScorer \/ DecisionGate
  BY <1>1, <1>3, OtherCounts DEF ValidatorReports, RiskScorer, DecisionGate, Goto
<1>4. CASE AutoDecision \/ HumanReviewDecides \/ Finalize \/ HandleError
  BY <1>1, <1>4, OtherCounts
     DEF AutoDecision, HumanReviewDecides, Finalize, HandleError, AfterReview, AfterError, Goto,
         channels
<1>5. CASE \/ HumanReviewInterrupts \/ ValidatorRaises \/ RecursionLimitHit
           \/ (\E value \in Outcomes \cup {"invalid"} : Review(value))
           \/ Crash \/ Stopped \/ UNCHANGED vars
  BY <1>1, <1>5, OtherCounts
     DEF HumanReviewInterrupts, ValidatorRaises, RecursionLimitHit, Review, Crash, Stopped,
         channels, control, vars
<1>. QED
  BY <1>1, <1>2, <1>3, <1>4, <1>5, RouterCounts, WorkerCounts, FanInCounts, ValidatorCounts
  DEF Next, Node

(* A step whose every attempt failed is named in degraded_reasons, for any *)
(* documents, with any number of them under one document_id, any number of *)
(* retries and whatever crashes.                                           *)
THEOREM ExhaustedStepDegradesHolds == Spec => []ExhaustedStepDegrades
<1>1. CountsInv => ExhaustedStepDegrades
  BY DEF CountsInv
<1>. QED  BY <1>1, InitCounts, NextCounts, TypeCorrect, PTL DEF Spec
-------------------------------------------------------------------------------
(***************************************************************************)
(* No path is too long.  Reached says how many supersteps the current      *)
(* ainvoke may have executed when it comes to a node: a resumed run starts *)
(* at human_review with none.                                              *)
(***************************************************************************)
Reached ==
    [intake |-> 0, router |-> 1, orchestrator |-> 2, extract_document |-> 3, validator |-> 4,
     risk_scorer |-> 5, handle_error |-> 5, decision_gate |-> 6, auto_decision |-> 7,
     human_review |-> 7, finalize |-> 8, end |-> 9]

PathInv ==
    /\ run = "running" => steps <= Reached[next]
    /\ FailsOnlyOnBadDate

(* A run that is at work has not come to its end. *)
LEMMA WithinNine ==
  ASSUME DecisionInv, PathInv, run = "running"
  PROVE  steps \in Nat /\ steps <= 8
<1>1. next \in Nodes /\ steps \in Nat /\ next # "end"
  BY PipelineAssumption DEF DecisionInv, TypeOK, ReviewInv
<1>. QED  BY <1>1 DEF PathInv, Reached, Nodes

(* The nodes: each leads to one that may be reached a superstep later. *)
LEMMA PathStep ==
  ASSUME DecisionInv, PathInv, run = "running", steps' = steps + 1,
         next' \in Nodes, Reached[next] < Reached[next'],
         run' \in {"running", "ended"}
  PROVE  PathInv'
<1>1. steps \in Nat /\ next \in Nodes
  BY PipelineAssumption DEF DecisionInv, TypeOK
<1>2. Reached \in [Nodes -> Nat]
  BY DEF Reached, Nodes
<1>3. steps' <= Reached[next']
  BY <1>1, <1>2 DEF PathInv
<1>. QED  BY <1>3 DEF PathInv, FailsOnlyOnBadDate

LEMMA NodePath ==
  ASSUME DecisionInv, PathInv,
         \/ Intake \/ RouterClassifies \/ RouterExhausted \/ Orchestrator \/ FanIn
         \/ ValidatorReports \/ ValidatorExhausted \/ RiskScorer \/ DecisionGate
         \/ AutoDecision \/ HumanReviewDecides \/ Finalize \/ HandleError
  PROVE  PathInv'
<1>1. run = "running" /\ steps' = steps + 1 /\ run' \in {"running", "ended"}
  BY DEF Intake, RouterClassifies, RouterExhausted, Orchestrator, FanIn, ValidatorReports,
         ValidatorExhausted, RiskScorer, DecisionGate, AutoDecision, HumanReviewDecides,
         Finalize, HandleError, Running, Goto
<1>2. \/ next = "intake" /\ next' = "router"
      \/ next = "router" /\ next' \in {"orchestrator", "handle_error"}
      \/ next = "orchestrator" /\ next' \in {"extract_document", "decision_gate"}
      \/ next = "extract_document" /\ next' = "validator"
      \/ next = "validator" /\ next' \in {"risk_scorer", "handle_error"}
      \/ next \in {"risk_scorer", "handle_error"} /\ next' = "decision_gate"
      \/ next = "decision_gate" /\ next' \in {"human_review", "auto_decision"}
      \/ next \in {"human_review", "auto_decision"} /\ next' = "finalize"
      \/ next = "finalize" /\ next' = "end"
  <2>1. CASE Intake \/ RouterClassifies \/ RouterExhausted \/ Orchestrator \/ FanIn
    BY <2>1 DEF Intake, RouterClassifies, RouterExhausted, Orchestrator, FanIn, Running, Goto
  <2>2. CASE ValidatorReports \/ ValidatorExhausted \/ RiskScorer \/ HandleError
    BY <2>2 DEF ValidatorReports, ValidatorExhausted, RiskScorer, HandleError, Running, Goto,
                AfterError
  <2>3. CASE DecisionGate \/ AutoDecision \/ HumanReviewDecides \/ Finalize
    BY <2>3 DEF DecisionGate, AutoDecision, HumanReviewDecides, Finalize, Running, Goto,
                AfterReview
  <2>. QED  BY <2>1, <2>2, <2>3
<1>3. next' \in Nodes
  BY <1>2 DEF Nodes
<1>4. Reached[next] < Reached[next']
  BY <1>2 DEF Reached
<1>. QED  BY <1>1, <1>3, <1>4, PathStep

(* Everything else stays where it is; a crash or an interrupt takes the    *)
(* run away, and a review brings it back with nothing executed.            *)
LEMMA OtherPath ==
  ASSUME RecursionLimit >= 9, DecisionInv, PathInv,
         \/ \E d \in Docs : Worker(d)
         \/ HumanReviewInterrupts \/ ValidatorRaises \/ RecursionLimitHit
         \/ \E value \in Outcomes \cup {"invalid"} : Review(value)
         \/ Crash \/ Stopped \/ UNCHANGED vars
  PROVE  PathInv'
<1>1. CASE \E d \in Docs : Worker(d)
  BY <1>1 DEF Worker, ExtractDocument, ExtractUnreadable, ExtractExhausted, Working, Running,
              channels, PathInv, FailsOnlyOnBadDate
<1>2. CASE HumanReviewInterrupts \/ Crash
  BY <1>2 DEF HumanReviewInterrupts, Crash, PathInv, FailsOnlyOnBadDate
<1>3. CASE ValidatorRaises
  BY <1>3 DEF ValidatorRaises, PathInv, FailsOnlyOnBadDate, channels
<1>4. CASE RecursionLimitHit
  BY <1>4, WithinNine, PipelineAssumption DEF RecursionLimitHit
<1>5. CASE \E value \in Outcomes \cup {"invalid"} : Review(value)
  <2>1. run' = "running" /\ steps' = 0 /\ next' = next /\ next \in Nodes
    BY <1>5 DEF Review, FreshBudget, DecisionInv, TypeOK
  <2>. QED  BY <2>1 DEF PathInv, FailsOnlyOnBadDate, Reached, Nodes
<1>6. CASE Stopped \/ UNCHANGED vars
  BY <1>6 DEF Stopped, vars, control, channels, PathInv, FailsOnlyOnBadDate
<1>. QED  BY <1>1, <1>2, <1>3, <1>4, <1>5, <1>6

LEMMA NextPath ==
  ASSUME RecursionLimit >= 9
  PROVE  DecisionInv /\ PathInv /\ [Next]_vars => PathInv'
BY NodePath, OtherPath DEF Next, Node

(* With the nine supersteps of the longest path (the code allows 25) a run *)
(* fails only on a date that the rules cannot parse, whatever the retries, *)
(* failures, invalid reviews and crashes on the way.                       *)
THEOREM FailsOnlyOnBadDateHolds ==
  ASSUME RecursionLimit >= 9
  PROVE  Spec => []FailsOnlyOnBadDate
<1>1. Init => PathInv
  BY DEF Init, PathInv, FailsOnlyOnBadDate, Reached
<1>2. DecisionInv /\ PathInv /\ [Next]_vars => PathInv'
  BY NextPath
<1>3. PathInv => FailsOnlyOnBadDate
  BY DEF PathInv
<1>. QED  BY <1>1, <1>2, <1>3, AlwaysDecisionInv, PTL DEF Spec
-------------------------------------------------------------------------------
(***************************************************************************)
(* The trail explains the decision.  What each node wrote before it left   *)
(* its mark on the channels stays in the trail; only the verdict itself    *)
(* can be announced twice, if the process dies between the event of        *)
(* human_review and its checkpoint.                                        *)
(***************************************************************************)
Explained(s) ==
    \E e \in trail : \/ e.node = s /\ e.type \in {"error", "node_completed"}
                     \/ e = UnreadableEvent(s)

Announced == IF decision.decided_by = "human" THEN HumanDecided(decision.outcome) \in trail
                                              ELSE DecisionMade \in trail

Closing == next \in {"finalize", "end"}

(* What has its event in every trail, crashes included. *)
TrailInv ==
    /\ RuleEvents("validator", {f.rule : f \in validation.flags}) \subseteq trail
    /\ RuleEvents("risk_scorer", risk.triggered) \subseteq trail
    /\ \A s \in degraded : Explained(s)
    /\ \A d \in Docs : results[d].done => Explained(Source[d])
    /\ Closing => Announced
    /\ next = "end" => CaseCompleted \in trail

(* No other verdict was announced than the one stored, before a crash. *)
OneVerdict ==
    \A e \in trail : e.type \in {"decision_made", "human_decision"} =>
        Closing /\ e.what = decision.outcome

VerdictInv == crashes = 0 => OneVerdict

(* A sink that loses nothing holds all that was emitted. *)
LEMMA AllKept ==
  ASSUME ~AuditMayFail, NEW events, Emit(events)
  PROVE  trail' = trail \cup events
BY DEF Emit, Kept

(* What was explained stays explained. *)
LEMMA StaysExplained ==
  ASSUME trail \subseteq trail', NEW s, Explained(s)
  PROVE  Explained(s)'
BY DEF Explained

(* A step that leaves flags, triggers and verdict alone, and explains what *)
(* it adds to the reasons and to the results of the workers.               *)
LEMMA TrailGrows ==
  ASSUME TrailInv, trail \subseteq trail', UNCHANGED <<validation, risk, decision>>,
         \A s \in degraded' \ degraded : Explained(s)',
         \A d \in Docs : results'[d].done => results[d].done \/ Explained(Source[d])',
         Closing' => Closing \/ Announced',
         next' = "end" => next = "end" \/ CaseCompleted' \in trail'
  PROVE  TrailInv'
<1>1. \A s \in degraded' : Explained(s)'
  BY StaysExplained DEF TrailInv
<1>2. \A d \in Docs : results'[d].done => Explained(Source[d])'
  BY StaysExplained DEF TrailInv
<1>3. Closing' => Announced'
  BY DEF TrailInv, Announced, DecisionMade, HumanDecided
<1>4. next' = "end" => CaseCompleted' \in trail'
  BY DEF TrailInv, CaseCompleted
<1>. QED  BY <1>1, <1>2, <1>3, <1>4 DEF TrailInv

LEMMA RouterTrail ==
  ASSUME ~AuditMayFail, TrailInv, Intake \/ RouterClassifies \/ RouterExhausted \/ HandleError
  PROVE  TrailInv'
<1>1. UNCHANGED <<validation, risk, decision, results>> /\ ~Closing'
  BY DEF Intake, RouterClassifies, RouterExhausted, HandleError, AfterError, Goto, Closing
<1>2. trail \subseteq trail'
  BY AllKept DEF Intake, RouterClassifies, RouterExhausted, HandleError
<1>3. \A s \in degraded' \ degraded : Explained(s)'
  <2>1. CASE RouterExhausted
    <3>1. degraded' = degraded \cup {"router"} /\ Event("router", "error", None) \in trail'
      BY <2>1, AllKept DEF RouterExhausted, Degrade
    <3>. QED  BY <3>1 DEF Explained, Event
  <2>2. CASE Intake \/ RouterClassifies \/ HandleError
    BY <2>2 DEF Intake, RouterClassifies, HandleError
  <2>. QED  BY <2>1, <2>2
<1>. QED  BY <1>1, <1>2, <1>3, TrailGrows DEF Closing

LEMMA OrchestratorTrail ==
  ASSUME ~AuditMayFail, TrailInv, Orchestrator
  PROVE  TrailInv'
<1>1. UNCHANGED <<validation, risk, decision, results>> /\ ~Closing'
  BY DEF Orchestrator, Goto, Closing
<1>2. trail \subseteq trail' /\ \A key \in Unclassified : UnreadableEvent(key) \in trail'
  BY AllKept DEF Orchestrator
<1>3. degraded' = degraded \cup Unclassified
  BY DEF Orchestrator, Degrade
<1>4. \A s \in degraded' \ degraded : Explained(s)'
  BY <1>2, <1>3 DEF Explained, UnreadableEvent
<1>. QED  BY <1>1, <1>2, <1>4, TrailGrows DEF Closing

LEMMA WorkerTrail ==
  ASSUME ~AuditMayFail, TypeOK, TrailInv, NEW d \in Docs, Worker(d)
  PROVE  TrailInv'
<1>1. UNCHANGED <<validation, risk, decision, degraded, next>> /\ ~Closing
  BY DEF Worker, ExtractDocument, ExtractUnreadable, ExtractExhausted, Working, Running, channels,
         Closing
<1>2. \A x \in Docs : x # d => results'[x] = results[x]
  BY DEF Worker, ExtractDocument, ExtractUnreadable, ExtractExhausted, Return, TypeOK
<1>3. \/ trail' = trail \cup {Completed(Source[d])}
      \/ trail' = trail \cup {Event(Source[d], "error", None)}
  BY AllKept DEF Worker, ExtractDocument, ExtractUnreadable, ExtractExhausted
<1>4. PICK e : /\ trail' = trail \cup {e}
               /\ e \in {Completed(Source[d]), Event(Source[d], "error", None)}
  BY <1>3
<1>5. e.node = Source[d] /\ e.type \in {"error", "node_completed"}
  BY <1>4 DEF Completed, Event
<1>6. trail \subseteq trail' /\ Explained(Source[d])'
  BY <1>4, <1>5 DEF Explained
<1>7. \A x \in Docs : results'[x].done => results[x].done \/ Explained(Source[x])'
  BY <1>2, <1>6
<1>. QED  BY <1>1, <1>6, <1>7, TrailGrows DEF Closing

LEMMA FanInTrail ==
  ASSUME TrailInv, FanIn
  PROVE  TrailInv'
<1>1. /\ UNCHANGED <<validation, risk, decision, trail>> /\ ~Closing'
      /\ degraded' = degraded \cup Unreadable /\ results' = NoResults
  BY DEF FanIn, Degrade, Closing
<1>2. \A d \in Known : d \in Docs /\ results[d].done
  BY DEF FanIn, Pending, Known
<1>3. \A s \in Unreadable : Explained(s)
  BY <1>2 DEF Unreadable, TrailInv
<1>4. \A s \in degraded' \ degraded : Explained(s)'
  BY <1>1, <1>3, StaysExplained
<1>5. \A d \in Docs : ~results'[d].done
  BY <1>1 DEF NoResults, NoResult
<1>. QED  BY <1>1, <1>4, <1>5, TrailGrows DEF Closing

LEMMA ValidatorTrail ==
  ASSUME ~AuditMayFail, TrailInv, ValidatorReports \/ ValidatorExhausted
  PROVE  TrailInv'
<1>1. CASE ValidatorExhausted
  <2>1. UNCHANGED <<validation, risk, decision, results>> /\ ~Closing'
        /\ degraded' = degraded \cup {"validator"}
    BY <1>1 DEF ValidatorExhausted, Goto, Closing, Degrade
  <2>2. PICK recovered \in Recoveries(2) :
           Emit(recovered \cup {Event("validator", "error", None)})
    BY <1>1 DEF ValidatorExhausted
  <2>3. trail \subseteq trail' /\ Event("validator", "error", None) \in trail'
    BY <2>2, AllKept
  <2>4. \A s \in degraded' \ degraded : Explained(s)'
    BY <2>1, <2>3 DEF Explained, Event
  <2>. QED  BY <2>1, <2>3, <2>4, TrailGrows DEF Closing
<1>2. CASE ValidatorReports
  <2>1. UNCHANGED <<risk, degraded, results>> /\ ~Closing'
    BY <1>2 DEF ValidatorReports, Goto, Closing
  <2>2. PICK ungrounded \in SUBSET GroundingCalls :
          LET grounding == GroundingFlags(ungrounded)
              flags == RunValidationRules(pkg, extractions) \cup grounding
          IN  /\ validation' =
                   [flags |-> flags,
                    confidence |-> OverallConfidence(extractions, grounding, flags)]
              /\ \E recovered \in Recoveries(1) : Emit(recovered \cup ValidatorEvents(flags))
    BY <1>2 DEF ValidatorReports
  <2> DEFINE flags == RunValidationRules(pkg, extractions) \cup GroundingFlags(ungrounded)
  <2>3. trail \subseteq trail' /\ ValidatorEvents(validation'.flags) \subseteq trail'
    <3>1. validation'.flags = flags
      BY <2>2
    <3>2. PICK recovered \in Recoveries(1) : Emit(recovered \cup ValidatorEvents(flags))
      BY <2>2
    <3> HIDE DEF flags
    <3>3. trail' = trail \cup (recovered \cup ValidatorEvents(flags))
      BY <3>2, AllKept
    <3>. QED  BY <3>1, <3>3
  <2>4. RuleEvents("validator", {f.rule : f \in validation'.flags}) \subseteq trail'
    BY <2>3 DEF ValidatorEvents
  <2>5. /\ \A s \in degraded' : Explained(s)'
        /\ \A d \in Docs : results'[d].done => Explained(Source[d])'
    BY <2>1, <2>3, StaysExplained DEF TrailInv
  <2>. QED  BY <2>1, <2>3, <2>4, <2>5 DEF TrailInv, Closing
<1>. QED  BY <1>1, <1>2

(* What risk_scorer writes: the outages, and the triggers it stores. *)
LEMMA RiskScorerEmits ==
  ASSUME RiskScorer
  PROVE  \E outages : /\ \A e \in outages : e.type = "error"
                      /\ Emit({Completed("risk_scorer")} \cup outages
                              \cup RuleEvents("risk_scorer", risk'.triggered))
<1> DEFINE persons   == PersonNames(pkg, extractions)
           companies == CompanyNames(pkg, extractions)
           owners    == OwnerNames(extractions)
<1>1. PICK s \in Screens(persons \cup companies, persons \cap companies, Sanctioned),
           p \in Screens(persons, {}, Peps),
           us \in Screens(owners, {}, Sanctioned), up \in Screens(owners, {}, Peps) :
        LET unavailable == Unavailable(s, p, us, up)
            triggered == EvaluateRiskRules(pkg, validation.confidence, validation.flags,
                            s.hits, p.hits, us.hits \cup up.hits, unavailable)
        IN  /\ risk' = [level |-> RiskLevel(triggered), triggered |-> triggered,
                        sanctions |-> s.hits, pep |-> p.hits \cup us.hits \cup up.hits]
            /\ screened' = [sanctions |-> s.answered \cup us.answered,
                            pep |-> p.answered \cup up.answered]
            /\ Emit({Completed("risk_scorer")}
                    \cup {Event("risk_scorer", "error", r) : r \in unavailable}
                    \cup RuleEvents("risk_scorer", triggered))
  BY DEF RiskScorer
<1> DEFINE outages == {Event("risk_scorer", "error", r) : r \in Unavailable(s, p, us, up)}
<1>2. Emit({Completed("risk_scorer")} \cup outages
           \cup RuleEvents("risk_scorer", risk'.triggered))
  BY <1>1
<1>3. \A e \in outages : e.type = "error"
  BY DEF Event
<1> HIDE DEF outages
<1>. QED  BY <1>2, <1>3

LEMMA RiskScorerTrail ==
  ASSUME ~AuditMayFail, TrailInv, RiskScorer
  PROVE  TrailInv'
<1>1. UNCHANGED <<validation, degraded, results>> /\ ~Closing'
  BY DEF RiskScorer, Goto, Closing
<1>2. PICK outages : Emit({Completed("risk_scorer")} \cup outages
                          \cup RuleEvents("risk_scorer", risk'.triggered))
  BY RiskScorerEmits
<1>3. trail \subseteq trail' /\ RuleEvents("risk_scorer", risk'.triggered) \subseteq trail'
  BY <1>2, AllKept
<1>4. /\ \A s \in degraded' : Explained(s)'
      /\ \A d \in Docs : results'[d].done => Explained(Source[d])'
  BY <1>1, <1>3, StaysExplained DEF TrailInv
<1>. QED  BY <1>1, <1>3, <1>4 DEF TrailInv, Closing

LEMMA GateTrail ==
  ASSUME ~AuditMayFail, TrailInv, DecisionGate
  PROVE  TrailInv'
<1>1. UNCHANGED <<validation, risk, degraded, results>> /\ ~Closing'
  BY DEF DecisionGate, Goto, Closing
<1>2. trail \subseteq trail'
  BY AllKept DEF DecisionGate
<1>3. /\ \A s \in degraded' : Explained(s)'
      /\ \A d \in Docs : results'[d].done => Explained(Source[d])'
  BY <1>1, <1>2, StaysExplained DEF TrailInv
<1>. QED  BY <1>1, <1>2, <1>3 DEF TrailInv, Closing

(* The announcement of the verdict and that of the end. *)
LEMMA ClosingTrail ==
  ASSUME ~AuditMayFail, DecisionInv, TrailInv, AutoDecision \/ HumanReviewDecides \/ Finalize
  PROVE  TrailInv'
<1>1. UNCHANGED <<validation, risk, degraded, results>>
  BY DEF AutoDecision, HumanReviewDecides, Finalize, Goto, channels
<1>2. trail \subseteq trail'
  BY AllKept DEF AutoDecision, HumanReviewDecides, Finalize
<1>3. /\ \A s \in degraded' : Explained(s)'
      /\ \A d \in Docs : results'[d].done => Explained(Source[d])'
  BY <1>1, <1>2, StaysExplained DEF TrailInv
<1>4. Announced'
  <2>1. CASE AutoDecision
    <3>1. UNCHANGED decision /\ decision.decided_by # "human" /\ DecisionMade \in trail'
      BY <2>1, AllKept DEF AutoDecision, channels, Running, DecisionInv, AfterGate, Alone
    <3>. QED  BY <3>1 DEF Announced, DecisionMade
  <2>2. CASE HumanReviewDecides
    <3>1. /\ decision'.decided_by = "human" /\ decision'.outcome = resume
          /\ HumanDecided(resume) \in trail'
      BY <2>2, AllKept DEF HumanReviewDecides
    <3>. QED  BY <3>1 DEF Announced
  <2>3. CASE Finalize
    <3>1. UNCHANGED decision /\ Announced
      BY <2>3 DEF Finalize, Running, TrailInv, Closing
    <3>. QED  BY <1>2, <3>1 DEF Announced, DecisionMade, HumanDecided
  <2>. QED  BY <2>1, <2>2, <2>3
<1>5. next' = "end" => CaseCompleted' \in trail'
  <2>1. CASE Finalize
    <3>1. UNCHANGED decision /\ CaseCompleted \in trail'
      BY <2>1, AllKept DEF Finalize
    <3>. QED  BY <3>1 DEF CaseCompleted
  <2>2. CASE AutoDecision \/ HumanReviewDecides
    BY <2>2 DEF AutoDecision, HumanReviewDecides, Goto, AfterReview
  <2>. QED  BY <2>1, <2>2
<1>. QED  BY <1>1, <1>2, <1>3, <1>4, <1>5 DEF TrailInv

LEMMA OutsideTrail ==
  ASSUME TrailInv,
         \/ HumanReviewInterrupts \/ ValidatorRaises \/ RecursionLimitHit
         \/ \E value \in Outcomes \cup {"invalid"} : Review(value)
         \/ Crash \/ Stopped \/ UNCHANGED vars
  PROVE  TrailInv'
<1>1. UNCHANGED <<validation, risk, decision, degraded, next>>
  BY DEF HumanReviewInterrupts, ValidatorRaises, RecursionLimitHit, Review, Crash, Stopped,
         channels, control, vars
<1>2. trail \subseteq trail'
  BY DEF HumanReviewInterrupts, ValidatorRaises, RecursionLimitHit, Review, Crash, Stopped, vars
<1>3. \A d \in Docs : results'[d].done => results[d].done
  BY DEF HumanReviewInterrupts, ValidatorRaises, RecursionLimitHit, Review, Crash, Stopped,
         control, vars, NoResults, NoResult
<1>. QED  BY <1>1, <1>2, <1>3, TrailGrows DEF Closing

LEMMA NextTrail ==
  ASSUME ~AuditMayFail
  PROVE  DecisionInv /\ TrailInv /\ [Next]_vars => TrailInv'
<1>1. SUFFICES ASSUME DecisionInv, TrailInv, [Next]_vars PROVE TrailInv'
  OBVIOUS
<1>2. TypeOK
  BY <1>1 DEF DecisionInv
<1>. QED
  BY <1>1, <1>2, RouterTrail, OrchestratorTrail, WorkerTrail, FanInTrail, ValidatorTrail,
     RiskScorerTrail, GateTrail, ClosingTrail, OutsideTrail DEF Next, Node

LEMMA InitTrail == Init => TrailInv
BY DEF Init, TrailInv, NoValidation, NoRisk, RuleEvents, NoResults, NoResult, Closing

LEMMA AlwaysTrailInv ==
  ASSUME ~AuditMayFail
  PROVE  Spec => []TrailInv
<1>1. DecisionInv /\ TrailInv /\ [Next]_vars => TrailInv'
  BY NextTrail
<1>. QED  BY <1>1, InitTrail, AlwaysDecisionInv, PTL DEF Spec

(* In every completed case, crashes or not, each flag, trigger and reason  *)
(* of degradation has its event, and so have the verdict and the end.      *)
DecisionOnRecord ==
    status = "completed" =>
        /\ RuleEvents("validator", {f.rule : f \in validation.flags}) \subseteq trail
        /\ RuleEvents("risk_scorer", risk.triggered) \subseteq trail
        /\ \A s \in degraded : Explained(s)
        /\ Announced
        /\ CaseCompleted \in trail

(* As long as the sink loses nothing, a completed case is on record, for   *)
(* any documents, failures, reviews and crashes.                           *)
THEOREM DecisionOnRecordHolds ==
  ASSUME ~AuditMayFail
  PROVE  Spec => []DecisionOnRecord
<1>1. DecisionInv /\ TrailInv => DecisionOnRecord
  BY DEF DecisionInv, AfterGate, TrailInv, Closing, DecisionOnRecord
<1>. QED  BY <1>1, AlwaysDecisionInv, AlwaysTrailInv, PTL

(***************************************************************************)
(* Without crashes the verdict is announced once.                          *)
(***************************************************************************)
(* Events of nodes that announce no verdict. *)
LEMMA NoVerdict ==
  ASSUME OneVerdict, UNCHANGED decision, Closing => Closing',
         \A e \in trail' \ trail : e.type \notin {"decision_made", "human_decision"}
  PROVE  OneVerdict'
BY DEF OneVerdict

(* The nodes before the gate, and the gate itself, write other events. *)
LEMMA EarlyVerdict ==
  ASSUME ~AuditMayFail, DecisionInv, OneVerdict,
         \/ Intake \/ RouterClassifies \/ RouterExhausted \/ Orchestrator \/ HandleError
         \/ (\E d \in Docs : Worker(d)) \/ FanIn
         \/ ValidatorReports \/ ValidatorExhausted \/ RiskScorer \/ DecisionGate
  PROVE  OneVerdict'
<1>1. ~Closing
  BY DEF Intake, RouterClassifies, RouterExhausted, Orchestrator, HandleError, Worker,
         ExtractDocument, ExtractUnreadable, ExtractExhausted, Working, FanIn, ValidatorReports,
         ValidatorExhausted, RiskScorer, DecisionGate, Running, Closing
<1>2. \A e \in trail' \ trail : e.type \in {"node_completed", "error", "rule_triggered"}
  <2>1. CASE Intake \/ RouterClassifies \/ RouterExhausted \/ HandleError \/ DecisionGate
    <3>1. \/ Emit({Completed("intake")}) \/ Emit({Completed("router")})
          \/ Emit({Completed("decision_gate")}) \/ Emit({Event("router", "error", None)})
          \/ Emit({Event("handle_error", "error", None)})
      BY <2>1 DEF Intake, RouterClassifies, RouterExhausted, HandleError, DecisionGate
    <3>2. \/ trail' = trail \cup {Completed("intake")}
          \/ trail' = trail \cup {Completed("router")}
          \/ trail' = trail \cup {Completed("decision_gate")}
          \/ trail' = trail \cup {Event("router", "error", None)}
          \/ trail' = trail \cup {Event("handle_error", "error", None)}
      BY <3>1, AllKept
    <3>. QED  BY <3>2 DEF Completed, Event
  <2>2. CASE Orchestrator
    <3>1. trail' = trail \cup ({UnreadableEvent(key) : key \in Unclassified}
             \cup IF Incomplete THEN RuleEvents("orchestrator", {"INCOMPLETE_PACKAGE"})
                                ELSE {Completed("orchestrator")})
      BY <2>2, AllKept DEF Orchestrator
    <3>. QED  BY <3>1 DEF UnreadableEvent, RuleEvents, Completed, Event
  <2>3. CASE \E d \in Docs : Worker(d)
    <3>1. PICK d \in Docs : \/ trail' = trail \cup {Completed(Source[d])}
                            \/ trail' = trail \cup {Event(Source[d], "error", None)}
      BY <2>3, AllKept DEF Worker, ExtractDocument, ExtractUnreadable, ExtractExhausted
    <3>. QED  BY <3>1 DEF Completed, Event
  <2>4. CASE FanIn
    BY <2>4 DEF FanIn
  <2>5. CASE ValidatorExhausted
    <3>1. PICK recovered \in Recoveries(2) :
             Emit(recovered \cup {Event("validator", "error", None)})
      BY <2>5 DEF ValidatorExhausted
    <3>2. trail' = trail \cup (recovered \cup {Event("validator", "error", None)})
      BY <3>1, AllKept
    <3>. QED  BY <3>1, <3>2 DEF Recoveries, Event
  <2>6. CASE ValidatorReports
    <3>1. \E flags : \E recovered \in Recoveries(1) :
             Emit(recovered \cup ValidatorEvents(flags))
      <4>1. PICK ungrounded \in SUBSET GroundingCalls :
              \E recovered \in Recoveries(1) :
                 Emit(recovered \cup ValidatorEvents(RunValidationRules(pkg, extractions)
                                                     \cup GroundingFlags(ungrounded)))
        BY <2>6 DEF ValidatorReports
      <4>. QED  BY <4>1
    <3>2. PICK flags : \E recovered \in Recoveries(1) :
             Emit(recovered \cup ValidatorEvents(flags))
      BY <3>1
    <3>3. PICK recovered \in Recoveries(1) : Emit(recovered \cup ValidatorEvents(flags))
      BY <3>2
    <3>4. trail' = trail \cup (recovered \cup ValidatorEvents(flags))
      BY <3>3, AllKept
    <3>. QED  BY <3>3, <3>4 DEF Recoveries, ValidatorEvents, RuleEvents, Completed, Event
  <2>7. CASE RiskScorer
    <3>1. PICK outages : /\ \A e \in outages : e.type = "error"
                         /\ Emit({Completed("risk_scorer")} \cup outages
                                 \cup RuleEvents("risk_scorer", risk'.triggered))
      BY <2>7, RiskScorerEmits
    <3>2. trail' = trail \cup ({Completed("risk_scorer")} \cup outages
                               \cup RuleEvents("risk_scorer", risk'.triggered))
      BY <3>1, AllKept
    <3>. QED  BY <3>1, <3>2 DEF RuleEvents, Completed, Event
  <2>. QED  BY <2>1, <2>2, <2>3, <2>4, <2>5, <2>6, <2>7
<1>. QED  BY <1>1, <1>2 DEF OneVerdict

LEMMA LateVerdict ==
  ASSUME ~AuditMayFail, OneVerdict,
         \/ AutoDecision \/ HumanReviewInterrupts \/ HumanReviewDecides \/ Finalize
         \/ ValidatorRaises \/ RecursionLimitHit
         \/ \E value \in Outcomes \cup {"invalid"} : Review(value)
         \/ Stopped \/ UNCHANGED vars
  PROVE  OneVerdict'
<1>1. CASE AutoDecision
  <2>1. /\ trail' = trail \cup {DecisionMade} /\ UNCHANGED decision
        /\ next = "auto_decision" /\ next' = "finalize"
    BY <1>1, AllKept DEF AutoDecision, Running, Goto, channels
  <2>. QED  BY <2>1 DEF OneVerdict, Closing, DecisionMade, Event
<1>2. CASE HumanReviewDecides
  <2>1. /\ trail' = trail \cup {HumanDecided(resume)} /\ decision'.outcome = resume
        /\ next = "human_review" /\ next' = "finalize"
    BY <1>2, AllKept DEF HumanReviewDecides, Running, AfterReview
  <2>. QED  BY <2>1 DEF OneVerdict, Closing, HumanDecided, Event
<1>3. CASE Finalize
  <2>1. trail' = trail \cup {CaseCompleted} /\ UNCHANGED decision /\ next' = "end"
    BY <1>3, AllKept DEF Finalize
  <2>2. \A e \in trail' \ trail : e.type = "case_completed"
    BY <2>1 DEF CaseCompleted, Event
  <2>. QED  BY <2>1, <2>2, NoVerdict DEF Closing
<1>4. CASE \/ HumanReviewInterrupts \/ ValidatorRaises \/ RecursionLimitHit
           \/ (\E value \in Outcomes \cup {"invalid"} : Review(value))
           \/ Stopped \/ UNCHANGED vars
  <2>1. UNCHANGED <<trail, decision, next>>
    BY <1>4 DEF HumanReviewInterrupts, ValidatorRaises, RecursionLimitHit, Review, Stopped,
                channels, control, vars
  <2>. QED  BY <2>1, NoVerdict DEF Closing
<1>. QED  BY <1>1, <1>2, <1>3, <1>4

(* Only a crash counts as one. *)
LEMMA CrashesCounted ==
  ASSUME [Next]_vars, ~Crash
  PROVE  UNCHANGED crashes
BY DEF Next, Node, Intake, RouterClassifies, RouterExhausted, Orchestrator, Worker,
       ExtractDocument, ExtractUnreadable, ExtractExhausted, Working, Return, FanIn,
       ValidatorReports, ValidatorExhausted, ValidatorRaises, RiskScorer, DecisionGate,
       AutoDecision, HumanReviewInterrupts, HumanReviewDecides, Finalize, HandleError,
       RecursionLimitHit, Review, Stopped, Goto, control, vars

LEMMA NextVerdict ==
  ASSUME ~AuditMayFail
  PROVE  DecisionInv /\ VerdictInv /\ [Next]_vars => VerdictInv'
<1>1. SUFFICES ASSUME DecisionInv, VerdictInv, [Next]_vars, crashes' = 0 PROVE OneVerdict'
  BY DEF VerdictInv
<1>2. ~Crash
  BY <1>1, PipelineAssumption DEF Crash, DecisionInv, TypeOK
<1>3. OneVerdict
  BY <1>1, <1>2, CrashesCounted DEF VerdictInv
<1>. QED  BY <1>1, <1>2, <1>3, EarlyVerdict, LateVerdict DEF Next, Node

(* A completed case is explained by its trail, and unless the process died *)
(* on the way no event in it names another verdict than the one stored:    *)
(* for every case and any crashes, as long as the sink loses nothing.      *)
THEOREM TrailExplainsDecisionHolds ==
  ASSUME ~AuditMayFail
  PROVE  Spec => []TrailExplainsDecision
<1>1. Init => VerdictInv
  BY DEF Init, VerdictInv, OneVerdict
<1>2. DecisionInv /\ VerdictInv /\ [Next]_vars => VerdictInv'
  BY NextVerdict
<1>3. DecisionOnRecord /\ VerdictInv => TrailExplainsDecision
  BY DEF DecisionOnRecord, VerdictInv, OneVerdict, TrailExplainsDecision, Explained, Announced
<1>. QED  BY <1>1, <1>2, <1>3, AlwaysDecisionInv, DecisionOnRecordHolds, PTL DEF Spec
===============================================================================
