# Verification of the Nordvik KYC pipeline

The program under `src/` processes *cases* of customer due diligence: a package of documents is
classified, extracted by parallel workers, validated, screened against registries, and decided
either by the system or by a compliance analyst. It is a LangGraph state machine behind a FastAPI
service, checkpointed in PostgreSQL. This directory holds its TLA+ models, the TLC runs that
check them on small instances, and proofs that TLAPS checks for every value of the constants.

Paths below are relative to `src/src/kyc_agent/` unless they start with `src/`.

## 1. Inventory

| Component | State it keeps | Operations | Talks to |
|---|---|---|---|
| Graph: `graph/builder.py`, `nodes.py`, `state.py` | the channels of `KYCState` (status, classified, extractions, validation, risk, decision, errors, retry_counts, degraded_reasons), checkpointed after every superstep | one node per step; `extract_document` fans out as one worker per document and fans in by additive reducers; `interrupt()` in `human_review` | services through `run_resilient`, registries, audit sink |
| Rules: `rules/*.py` and the pure helpers of `nodes.py` | none | validation checks, confidence formula, mandatory triggers, decision matrix | called by validator, risk_scorer, decision_gate |
| Resilience: `llm/resilience.py` | attempts and errors of one call | primary `1 + max_retries` times, then the fallback once | wraps every service and registry call |
| Services: `llm/live.py`, `fake.py`, `factory.py` | none | classify, extract, verify_grounding, narrate | LLM providers |
| Registries: `tools/registries.py` | lists of names | search | called by risk_scorer |
| Case service: `api/service.py` | `_tasks`: the runs of this process | submit, `_run`, status, review, exists, is_finished | graph (ainvoke, aget_state) |
| API: `api/main.py` | position of each SSE stream | endpoints, SSE poller | case service, audit sink |
| Audit: `audit/sink.py`, `persistence/db.py` | append-only events | emit (failures swallowed), events (sorted by ts, id) | written by nodes, read by the API |
| Evaluation: `src/eval/` | the rows of each configuration | runs the golden set with and without the evaluator, computes metrics, sets the exit code | graph, offline services |

What is hard in it, and what makes each part correct:

- **Failure of one step among many.** Any classification, extraction, grounding or registry call
  may fail every attempt, in any combination and after others succeeded. Correct means that a
  failure never looks like a clean result: an exhausted step always degrades
  (`ExhaustedStepDegrades`), a degraded or triggered case is never decided by the system
  (`EscalationRecall`), and what the system approves by itself was really complete, read,
  screened and clean (`AutoApprovalIsEarned`). Nor may a limit be met on the wrong side: a case
  that is just within every limit is approved when nothing else speaks against it
  (`ApprovalIsGranted`).
- **Concurrency.** The extraction workers of a superstep interleave and their updates merge.
- **Interrupts, restarts, bad answers.** A review may be answered wrongly any number of times, the
  process may die at any point. Correct means that what the analyst is shown agrees with what is
  stored (`PayloadIsCurrent`), only a valid answer decides, once (`DecisionDiscipline`,
  `ImplementsLifecycle`), and a reviewed case completes (`ReviewedCaseCompletes`).
- **Bounded execution.** The superstep limit must not be smaller than the longest path
  (`FailsOnlyOnBadDate`), and a run that is not lost must settle (`SettledUnlessLost`).
- **Attempts.** Retries, fallbacks and loops that end early are counted and merged; nothing may come
  out of them but what the nodes are written for (`ImplementsSteps`, `OutageReported`).
- **The record and its readers.** The audit trail must explain the decision
  (`TrailExplainsDecision`) and be written before it (`DecisionRecorded`); the stream polls two
  sources that change between its awaits, and must deliver what is stored and end
  (`ImplementsFeed`, `StreamEnds`). What a client was told of a case must stand or have been
  passed: the status, the open question, and that the case exists (`RepliesStand`,
  `StatusGoesForward`). The code does not keep the last of these over a restart, nor any of them
  when reviews overlap (sections 4 and 5).
- **Analysts.** A review checks, then resumes, and the case may change in between. To analysts who
  review one at a time the service must look like a desk at which each review takes effect at one
  instant or not at all and is answered truthfully (`ImplementsDesk`, `AcceptedDecides`); whatever
  overlaps, a verdict must never be taken back and a 200 must mean that an analyst has decided
  (`VerdictStands`, `AcceptedByAnalyst`).
- **The gate of the release.** Exit code 0 of the harness must mean that no escalation was missed
  (`ExitZeroMeansNoMiss`), and the evaluator must be what catches a hallucination
  (`HallucinationNotApproved`, `ResultsReproduced`).

The hazards, each at its line, are in `PROJECT.json`.

## 2. Modules

| Module | Models | Lines of code it follows |
|---|---|---|
| `KycData` | types, tables, rule identifiers, thresholds; the constants and what is assumed of them | `schemas/`, `rules/ids.py`, `config.py` |
| `ValidationRules` | completeness, name/exact/address checks, expiry, `run_validation_rules` | `rules/validation.py` |
| `RiskRules` | confidence formula, names to screen, triggers, risk level, `decide_gate` | `rules/risk.py`, `nodes.py:240-261,395-420` |
| `ServiceCalls` | what a node sees of its calls: attempts, early ends, merged availability | `llm/resilience.py`, `nodes.py:355-448` |
| `CasePipeline` | the graph: one case from `intake` to `finalize`, with reviews and crashes; its properties | `graph/`, `api/service.py`, `audit/sink.py` |
| `CaseLifecycle` | the abstract specification: order of statuses, who may decide, one verdict | SPEC 6.4, 7.3, 7.4 as the graph promises it |
| `CaseService` | one case seen from outside: background run, concurrent reviews, status requests, restarts, on one checkpoint | `api/service.py`, `nodes.py:514-644` |
| `CaseDesk` | the abstract specification of `CaseService`: reviews that take effect at once, truthful answers | SPEC 7.4, 10 as the service promises them |
| `Resilience` | the calls of one node, attempt by attempt | `llm/resilience.py`, loops of `nodes.py` |
| `ServiceSteps` | the abstract specification of `Resilience`: one step for each loop of calls | `nodes.py:355-392` |
| `AuditStream` | emitters, sink, and the generator of `GET /cases/{id}/events` | `api/main.py:117-146`, `audit/sink.py`, `persistence/db.py` |
| `EventFeed` | the abstract specification of `AuditStream`: what a client of the stream is promised | SPEC 10, `src/README.md:155` |
| `OfflineServices` | what the deterministic services and registries answer | `llm/fake.py`, `tools/registries.py` |
| `EvalHarness` | the harness: two configurations over a golden set, metrics, exit code | `src/eval/run_eval.py` |
| `GoldenSet` | the seventeen cases and what `results.json` has recorded of them | `src/eval/generate_golden_set.py` |
| `MCCasePipeline`, `MCCaseService`, `MCResilience`, `MCAuditStream`, `MCEvalHarness` | small values of the constants for TLC | - |
| `RuleLemmas` | lemmas about the rules, proved | - |
| `CasePipeline_proofs` | theorems about `CasePipeline` | - |
| `CaseLifecycle_proofs` | the refinement theorem | - |
| `PipelineRecords_proofs` | theorems about what `CasePipeline` keeps: attempts, supersteps, the trail | - |
| `CaseService_proofs` | theorems about `CaseService` | - |
| `Resilience_proofs`, `AuditStream_proofs` | theorems about these two, with their refinements | - |
| `EvalHarness_proofs` | theorems about the harness and the offline services | - |

`ValidationRules` and `RiskRules` extend `KycData`. `CasePipeline` extends both and `ServiceCalls`,
and refines `CaseLifecycle` through the instance `Lifecycle`. `Resilience` extends `ServiceCalls`
and refines `ServiceSteps`, which is written with the operators `CasePipeline` uses: so the
attempts are left out of `CasePipeline` without loss. `CaseService` has the interleavings that
`CasePipeline` leaves out (several `ainvoke` on one case), summarises the nodes that `CasePipeline`
has in full, and refines `CaseDesk` through the instance `Desk`. `AuditStream` summarises the case further, to who emits
when, and refines `EventFeed`. `OfflineServices` extends the rules, and `EvalHarness` composes them
with the harness.

## 3. How the modules correspond to the code

### `CasePipeline`

*Channels.* The variables `status` ... `degraded` are the channels of `KYCState` as of the last
checkpoint. A node reads them at the start of its superstep and its writes appear at the end, so
one action per node is the code's own atomicity. The exception is `extract_document`, of which
several run in one superstep: each worker is a separate action that only fills its entry of
`results`, and `FanIn` applies the reducers when none is pending.

*Control.* `next` is the node the next superstep runs, `steps` the supersteps of the current
`ainvoke` (compared with `recursion_limit`), `run` whether the run is running, interrupted, ended,
failed (an exception that `_run` logs) or lost (the process died). `interrupt` is the checkpointed
payload, `resume` the value of `Command(resume=...)`. This part is LangGraph's and is modelled as
the code uses it: its exact accounting may put the superstep limit one or two away from the
model's, which is why the runs choose the limit relative to the longest path.

*Nodes with several outcomes* are split by outcome: `RouterClassifies`/`RouterExhausted`,
`ExtractDocument`/`ExtractUnreadable`/`ExtractExhausted`, `ValidatorReports`/
`ValidatorExhausted`/`ValidatorRaises`, `HumanReviewInterrupts`/`HumanReviewDecides`. The last
of the validator's is the exception of `date.fromisoformat`, which is raised outside
`run_resilient` and ends the run.

*Services* are nondeterministic: any type for any document, any of `Readings[type]`, any set of
ungrounded documents, any registry answering for any subset of the names it is asked (`_screen`
stops at the first name that exhausts its attempts and keeps the hits found; as `persons +
companies` may hold a name twice, it may also stop after every name was answered once). A call to
`run_resilient` is seen as "n attempts failed, then one succeeded" (`Recovered`) or "all `Budget`
failed". `Resilience` shows that this is all there is to see.

*Errors and retry counts* are additive channels. They are kept as sets of attempts (step key,
worker, number), so merging is union and a count is a cardinality; two workers that share a
`document_id` have one key and different workers.

*Crash* may happen in every running state: the superstep is lost, except an audit event it may
have written already; nothing starts a run again, but a checkpointed interrupt can still be
resumed. The events of the nodes before `auto_decision` are not kept in that case, as the case
goes nowhere from there.

*Audit.* `trail` is the set of events written, by node, type and subject; `Emit` loses any subset
when `AuditMayFail`. Events are keyed by their rule and not by document, and the `registry_checked`
events are summarised by `screened`.

*Abstractions of data.* A text is a model string; what the rules read of it is whether it is
absent, empty, equal to the declared value and how similar to it (`Ratio`, hundredths). Dates are
yesterday, today, tomorrow or unparsable, and today is the day on which the process was started
(`build_context` asks once); `DaysUp` is how many days it has been up since. Confidences are hundredths. Details, rationales and
comments are left out. Package sizes, thresholds, volumes and names are constants.

### `CaseService`

*Invocations.* `submit` starts one `ainvoke` of the graph for a case, every `review` that passes
its check starts another, and nothing in the service keeps them apart. An invocation loads the
latest checkpoint, works on its own copy of the channels (`mine[i]`), and writes a checkpoint after
each node; `saved` is the latest one written. `phase[i]` says how far an invocation is: for the
run accepted (202 answered, no checkpoint yet), running, emitted, ended; for a review checked (it
passed the check of `service.py:95-99` and has not loaded the checkpoint yet), running, emitted,
and idle again once answered. A node that writes an audit event is two actions, `NodeEmits` and
`NodeReturns`, since the event is committed before the checkpoint.

*Checkpoints* hold the next node, the status, the outcome and author of the decision, and whether
an interrupt is pending (`asked`). The gate's checkpoint (`Escalates`) and the interrupt
(`Interrupts`) are two steps, as are the human decision and `finalize`. A run may fail in any node
before the gate's result is stored (`RunFails`, which stands for every exception `_run` logs).

*Restart* ends every invocation; the checkpoint, the trail and the answers already given remain.
The checkpointer is PostgreSQL's: with the in-memory backend a restart loses everything, by design.

*Status requests.* A client (`Viewers`) asks again and again: `StatusReads` is the snapshot,
`StatusAnswers` the look into the task map and the answer, with anything in between. `Tracked` is
`case_id in self._tasks`; the done callback that removes the entry runs after the task has ended
and is folded into its end. `exists` and `is_finished` read the same two places in the same order
and are in `AuditStream`.

*`CaseDesk`* knows no invocations, copies or checkpoints: a status, whether the question is open, a
verdict and the last answer to each analyst. The mapping reads the first three from `saved`. A
review takes effect (`Decide`) with the checkpoint of `human_review`; its check is `Refuse` or
`Admit`, its answer `Confirm`; loading the checkpoint, writing an event, the checkpoint of
`auto_decision`, a failing run and a restart are not seen. So a review that a restart has cut off
either never happened or is in the verdict, and it is not confirmed.

*External.* That a resume on a finished thread executes nothing, that a resume on a thread past
`human_review` goes on from its next node, and that a checkpoint is written per superstep are
LangGraph's and modelled as the service uses them. Its default durability writes checkpoints in
the background, in order; the model writes them at once.

### `Resilience` and `ServiceSteps`

`Plans[node]` lists the loops of calls of a node: the router's single call, the validator's call
for each readable document, the screenings of the risk scorer (applicant and company, applicant,
owners, owners) and the narrator. A worker's extraction is a single call like the router's. Each
attempt is two actions, asking (`AskPrimary`, `AskFallback`) and `Answers` or `Fails`; a loop ends
by `LoopReturns` or, when a call has used its budget, by `Exhausted`. `raises` tells the loops
whose node gives up (router, validator) from those that go on (a screening returns the hits found
so far, the narrator's text is replaced). What was found by the audit events in between is not
repeated here.

### `AuditStream` and `EventFeed`

The case is reduced to the emitters of each superstep. `Emit` makes an event with its timestamp;
the in-memory sink appends it in the same step of the event loop, the PostgreSQL sink inserts it
after an await (`Insert`) or fails and is ignored (`Lose`). `RunFails` is an exception that ends
the run and cancels the workers, any of whose inserts may already be under way. The generator's
program counter `pc` follows `main.py:123-144` statement by statement, with an await between any
two: `Poll` reads the list, `Send` yields one event, `AskStatus` and what follows is `is_finished`
(which may raise `CaseNotFoundError`, `CaseNotFound`), `Finished` reads the list once more,
`Pause` is `is_disconnected` and the sleep. The status it needs is none, processing or completed.

`EventFeed` promises: events are delivered as many as are published, the stream closes only when
the case is complete and nothing is left, and if the feed grows only at its end each event arrives
once and in its place. `InOrder` says when it does: with the in-memory sink, or when no two
emitters ever run together.

### `OfflineServices`, `EvalHarness` and `GoldenSet`

A document is the record of what `fake.py` looks for in its text: the types whose keywords occur,
the value behind the label of each field, the owners, whether one of their shares has the form of a
number without being one, the markers `[OCR-GLITCH:...]`, and the values that occur outside the
markers. `Classify`, `Extract` and `Grounding` follow the three services. `float` raises on such a
share at every attempt, primary and fallback, so the document is unreadable and the case degraded; a
marker on the owners puts a text where a list belongs, and it names nobody.
As these and the registries neither fail nor are random here, the graph is an operator
(`Verdict`), written with the same `DecideGate`, `RunValidationRules` and `EvaluateRiskRules` as
`CasePipeline`; an exception of the validator ends the harness (`CaseRaises`). The recursion limit
and the checkpointer play no part.

`GoldenSet` has the builders and the seventeen cases of the generator, with real names, volumes
and thresholds. `ResultsReproduced` compares the metrics of the model with `src/eval/results.json`:
this checks the model against the program.

## 4. Runs

The `Pipeline...` runs use `MCCasePipeline`: two documents, so that two workers interleave and every
customer type can have its two required documents, an extra one of the wrong type, or an unreadable
one. Readings are chosen to lie on both sides of each threshold and on it: similarity 94 and 84
below the two name limits and 85 on the critical one, 69 and 70 around the address limit,
confidence 74 and 75 (85 less two warnings), expiry yesterday and today, volume equal to and
above the limit. `MaxRetries` is 0 where the number of
failed attempts does not matter (the budget is then two attempts: the primary and the fallback).

| Run | Instance | Shows |
|---|---|---|
| `PipelineCase` | 7 + 4 + 5 + 4 readings, individuals and companies at and above the volume limit, listed persons, companies and owners | `TypeOK`, `AutoApprovalIsEarned`, `EscalationRecall`, `ApprovalIsGranted` |
| `PipelineControl` | one retry, one crash, a bad date, one shared document id, limit 9, a fair reviewer | `ExhaustedStepDegrades`, `PayloadIsCurrent`, `FailsOnlyOnBadDate`, `TrailExplainsDecision`, `DecisionDiscipline`, `ImplementsLifecycle`, `SettledUnlessLost`, `ReviewedCaseCompletes` |
| `ServiceReview` | two reviewers who disagree, one review at a time, one client asking for the status, two restarts | `TypeOK`, `DecisionRecorded`, `AcceptedDecides`, `RepliesStand`, `OneVerdict`, `ImplementsDesk`, `StatusGoesForward`, `QuestionIsAnswered` |
| `StreamFeed` | a case without workers and one with two, both backends, writes that fail | `TypeOK`, `ClosedWithLastEvent`, `ImplementsFeed`, `StreamEnds` |
| `ResilienceCalls` | router, validator with two documents, risk scorer with a listed owner, one retry | `TypeOK`, `OutageReported`, `ImplementsSteps`, `NodeEnds` |
| `EvalGolden` | the golden set of the repository, all pairs of a damaged, mistaken or hallucinated case within the volume limit and one above it, and each of 42 companies with hallucinated or unparsable owners | `TypeOK`, `ExitZeroMeansNoMiss`, `AblationOnlyLoses`, `HallucinationNotApproved`, `CrashNeedsMarker`, `ResultsReproduced` |
| `PipelineBadDate` | a date that does not parse | `NeverDropped` is violated |
| `PipelineStaleToday` | a process that has been up for a day | `NothingExpiredApproved` (SPEC 7.2) is violated |
| `ServiceRestart` | one reviewer, one restart | `EscalatedCaseSurvives` (`src/README.md:44`) is violated |
| `ServiceAccepted` | one client, one restart | `AcceptedCaseIsKnown` (SPEC 10) is violated |
| `ServiceOverlap` | two reviews at the same time, no restart | `LateReviewIsRefused` (SPEC 10) is violated |
| `StreamSkips` | PostgreSQL, two workers, no failure | `EveryEventStreamed` (`api/main.py:119`) is violated |

*Bounds.* `MaxCrashes` (1) bounds crashes: one is enough to die at every point of a run, and after
it only a pending interrupt goes on. `RecursionLimit` is 9 in `PipelineControl`, which the longest
path fits exactly; a resumed run has a budget of its own. It is 8 in `PipelineCase`, so that the
exhaustion of the limit occurs: a case that the system decides is then cut off before `finalize`.
The properties of that run speak of the decision as soon as the gate has stored it; those that speak
of completion, and the trail, are checked in `PipelineControl`. Elsewhere it is the code's 25.
`DaysUp` is 1 only in
`PipelineStaleToday`. In `ServiceReview` `MaxRestarts` is 2, so that a review can be cut off
after its event and again after its checkpoint; two reviewers with different outcomes are enough
for one to undo or repeat the other, and one client for an answer to be overtaken. Two workers
with one event each are the fewest that can change places in the list; a third would only repeat
it. Two golden cases are the fewest of which one can hide the other in a metric.

*`Overlap`* is a constant of `CaseService` and not a bound: the code allows overlapping reviews.
`ServiceReview` sets it to FALSE, which is a use of the service (one analyst per case), because
`OneVerdict`, `AcceptedDecides`, `ImplementsDesk`, `RepliesStand` and `StatusGoesForward` hold only
then: with overlap the verdict of one analyst may replace that of another, and a late copy can take a
completed case back to `awaiting_human_review`, after clients were told that it is completed.
`ServiceOverlap` shows where a document denies it. What remains true is proved without the assumption
(section 6): the verdict is on record, it is never taken back (`VerdictStands`), what the system
decided is final, and who is answered 200 knows that some analyst has decided (`AcceptedByAnalyst`).

*Fairness.* `FairSpec` assumes weak fairness of the graph's own steps: the event loop goes on with
a run that has something to do, and every service call returns. The code sets no timeouts, so the
latter is an assumption about the providers. `ReviewedSpec` adds strong fairness of a valid
review: the reviewer, shown the case again after each invalid answer, in the end answers properly
(strong, as the interrupted state comes and goes). No fairness of crashes or invalid answers.
`FairSpec` of `CaseService` assumes weak fairness of every open invocation and of "some reviewer
posts": analysts who try again as long as the case is not completed. Restarts have none.
`FairSpec` of `AuditStream` assumes that the event loop goes on with an open stream, and nothing of
the run or of the client; that of `Resilience` that each call returns or raises.

## 5. Where the documentation and the code disagree

1. `SPEC.md:186` says no case is dropped silently. `rules/validation.py:225` parses the extracted
   expiry date outside `run_resilient`; a value that is no ISO date ends the run, the exception is
   only logged, and the case stays in `processing` (`PipelineBadDate`). `CaseStatus.FAILED` is
   never assigned.
2. `src/README.md:44` says that a case survives a restart between the escalation and the human
   decision. It does once the interrupt is pending; a restart after the gate's checkpoint and
   before the interrupt, or between the human decision and `finalize`, leaves the status
   `awaiting_human_review` with nothing to resume, and `review` answers 409 from then on
   (`ServiceRestart`).
3. `SPEC.md:509` answers 409 to the review of a case that is not awaiting one. `service.py:98`
   checks first and resumes later; a review that another one overtakes in between is answered 200
   and dropped (`ServiceOverlap`).
4. `SPEC.md:378` raises `DOC_EXPIRED` when the expiry date is before today. `graph/context.py:50`
   asks for today once, when the process starts, so that a process up since yesterday approves a
   document that has expired in between (`PipelineStaleToday`).
5. `api/main.py:119` calls the stream one of audit events until the case reaches a final state. Its
   position is an index into a list ordered by the time the events were made: an event stored after
   a later one of another worker is skipped, and the later one is sent twice (`StreamSkips`).
6. `SPEC.md:509` keeps 404 for an unknown case, and `api/service.py:4` has any instance serve any case
   after a restart. `submit` answers 202 while the run is a task in memory: a restart before its first
   checkpoint loses the accepted case, which is answered 404 from then on (`ServiceAccepted`). The same
   answer is given once, without a restart, to a request that reads its snapshot before the first
   checkpoint and looks into the task map after the end of the run (`service.py:73-78`).

Four more were found by reading and have no run: a review posted before the first checkpoint of its
case is answered 404 (`service.py:96-97`), where `SPEC.md:509` has 409; `SPEC.md:117` starts a worker for every classified
document, but with a `document_id` used twice `docs_by_id` (`nodes.py:124`) keeps the last document
only, both workers read that one and nothing degrades; `SPEC.md:357` requires a
`decision_made` event before a case is finalized, and the human path writes `human_decision` only;
`SPEC.md:409` approves automatically when there are no flags, and warnings do not block an approval
(the unit tests of the rules and the golden case `address-mismatch-warning` agree with the code).

## 6. What is proved

Every safety and refinement property of the passing runs is a theorem, except
`ResultsReproduced` (see the end of this section). The proofs of `CasePipeline` assume only the
named assumptions of `KycData`, `RetriesAssumption` and `PipelineAssumption`: finitely many
documents, a similarity table, readings with non-empty fields graded between 0 and 1, thresholds in
range, natural bounds. They hold for any number of documents, retries and crashes, with or without
the evaluator, with shared ids and, where nothing else is said, with an audit sink that loses
writes. What a theorem assumes beyond that stands in its statement:

| Theorem | Assumes | Why the code justifies it |
|---|---|---|
| `FailsOnlyOnBadDateHolds` | `RecursionLimit >= 9` | the code leaves LangGraph's 25; nine is the longest path; with eight it runs into the limit (`PipelineCase`) |
| `DecisionOnRecordHolds` | `~AuditMayFail` | `SafeAuditSink` drops failed writes by design; the trail is then incomplete |
| `TrailExplainsDecisionHolds` | `~AuditMayFail`; no crash for "no other verdict" (in the property) | as above; after a crash the trail may also hold the event of a decision that was lost, by design (section 7) |
| `OneVerdictHolds`, `AcceptedDecidesHolds`, `RepliesStandHolds`, `StatusGoesForwardHolds`, `ImplementsDeskHolds` | `~Overlap` | one analyst per case; `ServiceOverlap` shows what happens otherwise, `VerdictStandsHolds` and `AcceptedByAnalystHolds` what remains |
| `ExitZeroMeansNoMissHolds` | fewer than 20,000 cases (in the property) | the recall is rounded to four digits |

### The pipeline

- `TypeCorrect`: `TypeOK` is inductive by itself; one lemma for each action.
- `EscalationRecallHolds`, `PayloadIsCurrentHolds`, `DecisionDisciplineHolds`: none of these is
  inductive. `DecisionInv` adds where the case is: before the gate there is no decision, no
  interrupt and a status of received or processing (`BeforeGate`); after it the decision is either
  still what the gate computes from the channels, with the node it leads to, or a human's
  (`AfterGate`); and a pending interrupt goes with the node `human_review` and the payload of the
  channels (`ReviewInv`). The gate is used only through `GateMatrix`, which characterises the
  matrix by one equivalence for each outcome.
- `AutoApprovalIsEarnedHolds`: `EarnedInv` carries facts along the pipeline: past the orchestrator
  the package is complete or flagged, past the fan-in every document has exactly its extraction and
  an unreadable one a reason, past the validator the flags contain those of the rules, past the
  risk scorer an empty set of triggers means that everything was answered and nothing matched. The
  property states the limits without the operators of the rules (`WithinLimits`, `Ungrounded`);
  `LimitsAreTheRules` proves that a case without objections of the rules is within them, equality on
  each limit included, and the converse.
- `ApprovalIsGrantedHolds`: `GrantInv` carries the other direction: a flag comes from the rules or the
  evaluator (`FlagsFound`), each trigger has a reason among the names, the volume, the confidence or
  the flags (`TriggersFound`), and a package taken for incomplete lacks a document. So a case within
  the limits that matches no list gives the gate nothing to object to.
- `ImplementsLifecycleHolds`: the initial state maps to the initial state and each action to a
  step of `CaseLifecycle` or a stutter, using `DecisionInv`.
- `ExhaustedStepDegradesHolds`: `CountsInv` adds that no node has counted before its superstep has
  ended and that a worker's result is consistent (an error-free one has one attempt more than
  errors), so that two workers with one `document_id` cannot lend each other a success.
- `FailsOnlyOnBadDateHolds`: `PathInv` bounds the supersteps of the present `ainvoke` by the
  distance of the node it has come to (`Reached`).
- `DecisionOnRecordHolds`, `TrailExplainsDecisionHolds`: `TrailInv` says what is on record before
  the case completes: every flag, trigger and reason at once when it is stored, the result of a
  worker before the fan-in merges it, the verdict before the node `finalize`. `VerdictInv`, that no
  *other* verdict is on record, is stated for as long as nothing has crashed.

### The service

- `DecisionRecordedHolds`: the property speaks of the latest checkpoint, but an
  invocation may store a copy it loaded long ago, so `RecordInv` demands that the trail is ahead of
  *every* copy, and that a node which has written its event wrote the one of the update it will
  return.
- `OneVerdictHolds`, `AcceptedDecidesHolds`: `SoloInv` says that at most
  one invocation is open, that its copy is the latest checkpoint, and that a review past
  `human_review` is the author of what is stored. One lemma (`SoloStep`) proves that it is inductive
  and that each step leaves a verdict alone.
- `StatusGoesForwardHolds`: by `SoloInv` no step takes the status of the checkpoint back
  (`StatusRises`); `SnapshotsInBetween` says that a snapshot which waits for its answer lies between
  the last answer given to that client and the present checkpoint.
- `RepliesStandHolds`: that the status told stands is part of the same invariant. That an acknowledged
  case is stored or at work, and that a question shown is open or answered, needs neither `SoloInv`
  nor an assumption on overlaps (`RepliesAlways`): `RepliesInv` adds that a request which has read a
  snapshot but not answered read one of this case, and that a run which began has a checkpoint unless
  a restart cut it off (`Begun`); `ViewersOnlyLook` and `CaseNext` separate the steps of the clients
  from those of the case. No clause is about the answer 404: that the code gives it to a case it has
  accepted is shown by `ServiceAccepted`.

- `VerdictStandsHolds`, `AcceptedByAnalystHolds`: for reviews that overlap in any way (`VerdictStands`
  and `AcceptedByAnalyst` say what is left of `OneVerdict` and `AcceptedDecides` then). `Staged` says
  which values a copy has before each node, and holds of every copy, however old. `SharedReview`
  ties the copies to the checkpoint: while a review is open, either the question is still asked or
  a reviewer's verdict is stored, and a copy past `human_review` carries such a verdict *and* so does
  the checkpoint. The last conjunct is a strengthening the first attempt lacked: a copy that carries
  a verdict did not exclude that the question was still open beside it, so that a 200 proved
  nothing. No invocation of the run is left by then (`SoloRun`, which needs no assumption on
  overlaps), so nothing without a verdict is stored again.
- `ImplementsDeskHolds`: `DeskInv` joins `SoloInv` with `StandInv` and adds that the last answer to an
  analyst whose review is open is none, and that the question is open as long as that analyst's
  copy waits for `human_review`. Then `DeskRuns`, `DeskAsks` and `DeskNodes` map the steps of the run,
  of the requests and of the announcing nodes to those of `CaseDesk`.

### The calls

For any plans that satisfy `PlansAssumption` (the risk scorer makes its five loops in order and
catches what they raise). `CallsInv` says that nothing is left of a call between two loops and that
the item answered last was answered within its budget; `EndsInv` that each loop that has ended did
so in one of the ways of `ServiceSteps`.

- `ImplementsStepsHolds`: each end of a loop is a step of `ServiceSteps`, every other step a
  stutter. The first attempt at this proof failed, and rightly: `ServiceSteps` had a failing
  screening leave at least one *name* unanswered, but what is left is an *item* of `persons +
  companies`, and the applicant's name may be a company's as well. `Screens` now allows for it, in
  `CasePipeline` too, and the lists of `MCResilience` and the readings of `MCCasePipeline` have such
  a name.
- `OutageReportedHolds`: with the same correction, a registry is reported just when one of its
  screenings failed for good.

### The stream

For any superstep plans with finitely many emitters, any number of events, both sinks, with
or without failing statements. `RunInv` says that timestamps are unique and below the clock
(`Stamped`), that only the emitters of the present superstep are writing, and with the in-memory
sink none (`Writers`), that `finalize` comes last (`FinalizeLast`), and that where no two emitters
run together an event being written is later than all that is stored (`Later`). `ClientInv` ties the
generator to what is stored: it has sent a prefix of its snapshot, the snapshot holds stored events
and is the feed when it is as long (`Sending`); a status of completed that it was told stays true
(`Closing`); and once all is sent, the event of `finalize` was the last (`SentLast`).

- `ClosedWithLastEventHolds` follows from the invariant: the event of `finalize` has the greatest
  timestamp, so whatever was reordered before it, it is the last of the list and the last sent.
- `ImplementsFeedHolds`: the feed is the stored set in the order of its timestamps, defined by
  `CHOOSE` on ranks. The lemmas on `RankIn` and `FeedIn` show that it lists every row once
  and that adding a row with a later timestamp appends it, which is where `InOrder` is used.

### The harness

For any golden set that satisfies `EvalAssumption` (its labels are as the generator writes them: an
expiry date that is written is a date). `RowsInv` says that a row is the pipeline's verdict on its
case, `EndInv` what has been run by the time the harness stops; the properties are then facts about
`Verdict`.

- `AblationOnlyLosesHolds`, `HallucinationNotApprovedHolds`: through `GateMatrix`; turning the
  evaluator off changes a verdict only where it found a discrepancy, a discrepancy escalates every
  complete case (`EvaluatorEscalates`), and a marker whose value is not in the document is one, unless
  nothing could be extracted, which degrades the case (`MarkerIsFound`). This holds of every field
  but the four dates, which the evaluator leaves out (`fake.py:79,206`): a date put in by a marker is
  seen by the rules only, and only if it is a date of birth or of expiry.
- `CrashNeedsMarkerHolds`: only a marker can put a value that is no date behind an expiry label.
- `ExitZeroMeansNoMissHolds`: a recall that rounds to 1.0000 over fewer than 20,000 cases is 1.

### Only model-checked

- The liveness properties `SettledUnlessLost`, `ReviewedCaseCompletes`, `QuestionIsAnswered`,
  `StreamEnds` and `NodeEnds`: liveness under fairness is out of the prover's reach.
- `ResultsReproduced`: the evaluation of one fixed golden set with its concrete values; a computation
  and nothing to prove.

Each inductive invariant was also checked by TLC, as an invariant of the run of its module, before
it was proved; `VerdictStands`, `AcceptedByAnalyst` and their invariant `StandInv`, which belong to
no run, with three reviewers who overlap and one restart.

## 7. Not modelled

The regular expressions and prompts of the services, the fuzzy matching itself, the HTTP layer, the
connection pool, DDL, logging, and the choice of a class for a model name (`llm/factory.py`): pure
data transformation or I/O. Of the evaluation: `field_accuracy`, dates of birth, addresses beyond
"declared or not", and the report that is written. The dropping of `narrate` failures changes only
a text. Several cases at once are not modelled: they share no state but the connection pool, whose
exhaustion would only delay. `DecisionRecorded` is about the event of the stored decision; that the
trail may also hold the event of a decision that a restart threw away is the price of writing events
before checkpoints, and no property forbids it.

## 8. Plan

1. *(done)* The rules, `CasePipeline`, `CaseLifecycle`, `CaseService` with status requests,
   `Resilience`, `AuditStream`, `EvalHarness` with the golden set.
2. *(done)* Theorems for every safety and refinement property of the passing runs (section 6).
3. *(done)* What `CaseService` promises with overlapping reviews (`VerdictStands`,
   `AcceptedByAnalyst`), and that without them it implements an abstract service (`CaseDesk`).

Left for a next step, where the code grows: several cases on one pool, once they share more than
connections, and the report of the harness.
