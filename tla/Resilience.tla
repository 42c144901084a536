------------------------------- MODULE Resilience -------------------------------
(***************************************************************************)
(* The calls of one node, attempt by attempt: run_resilient of             *)
(* llm/resilience.py inside the loops of router, extract_document,         *)
(* validator and risk_scorer.  Any attempt may fail; the node asks again,  *)
(* asks the fallback, gives up the loop or gives up altogether.  Plans     *)
(* says which loops a node has (ServiceSteps explains their fields).       *)
(***************************************************************************)
EXTENDS ServiceCalls, Sequences

CONSTANT Plans

Loop(names) ==
    [service: STRING, items: Seq(names), listed: SUBSET names, fallback: BOOLEAN, raises: BOOLEAN]

Subjects(plan) == UNION {{plan[k].items[i] : i \in DOMAIN plan[k].items} : k \in DOMAIN plan}

(* The risk scorer screens the applicant and his company, then the owners, *)
(* with both registries, and asks the narrator; it catches what they raise. *)
RiskServices == <<"sanctions", "pep", "sanctions", "pep", "narrator">>

ASSUME PlansAssumption ==
    \A n \in DOMAIN Plans :
        /\ Plans[n] \in Seq(Loop(Subjects(Plans[n])))
        /\ n = "risk_scorer" =>
              /\ [k \in DOMAIN Plans[n] |-> Plans[n][k].service] = RiskServices
              /\ \A k \in DOMAIN Plans[n] : ~Plans[n][k].raises

VARIABLES
    node,       \* the node that runs
    results,    \* results[k]: what came out of its loop k
    raised,     \* has StepExhaustedError left a loop that does not catch it?
    item,       \* the position in the present loop
    attempt,    \* attempts made for this item
    errors,     \* the attempt numbers of the errors collected for it
    asking,     \* the service whose answer is awaited, or "none"
    last        \* the errors and the attempts of the item answered last

vars == <<node, results, raised, item, attempt, errors, asking, last>>

loops == Plans[node]
Busy  == ~raised /\ Len(results) < Len(loops)
loop  == loops[Len(results) + 1]

NoneYet == [failed |-> 0, attempts |-> 0]

Init ==
    /\ node \in DOMAIN Plans
    /\ results = <<>> /\ raised = FALSE
    /\ item = 1 /\ attempt = 0 /\ errors = <<>> /\ asking = "none" /\ last = NoneYet

Calling == Busy /\ asking = "none" /\ item <= Len(loop.items)

(* Mutant: the primary service is given one attempt too many. *)
OneMoreLeft == attempt < 2 + MaxRetries
PrimaryLeft == attempt < 1 + MaxRetries

(* Mutant: the fallback is tried as often as the primary service. *)
FallbackAgain == loop.fallback /\ attempt < 2 * (1 + MaxRetries)
FallbackLeft == loop.fallback /\ attempt = 1 + MaxRetries

Ask(service) ==
    /\ asking' = service
    /\ attempt' = attempt + 1
    /\ UNCHANGED <<node, results, raised, item, errors, last>>

AskPrimary == Calling /\ PrimaryLeft /\ Ask("primary")
AskFallback == Calling /\ ~PrimaryLeft /\ FallbackLeft /\ Ask("fallback")

(* The call returns, and the loop goes on with the next item. *)
Answers ==
    /\ asking # "none"
    /\ asking' = "none"
    /\ item' = item + 1 /\ attempt' = 0 /\ errors' = <<>>
    /\ last' = [failed |-> Len(errors), attempts |-> attempt]
    /\ UNCHANGED <<node, results, raised>>

(* Mutant: a call that fails is started anew. *)
FailsAnew ==
    /\ asking # "none"
    /\ asking' = "none"
    /\ errors' = <<>> /\ attempt' = 0
    /\ UNCHANGED <<node, results, raised, item, last>>

Fails ==
    /\ asking # "none"
    /\ asking' = "none"
    /\ errors' = Append(errors, attempt)
    /\ UNCHANGED <<node, results, raised, item, attempt, last>>

(***************************************************************************)
(* The end of a loop: every item was answered, or one of them exhausted    *)
(* its attempts.                                                           *)
(***************************************************************************)
Answered == {loop.items[i] : i \in 1 .. item - 1}

Finish(ok, counts) ==
    /\ results' = Append(results,
          [screen |-> Screen(Answered, loop.listed, ok),
           failed |-> counts.failed, attempts |-> counts.attempts])
    /\ raised' = (loop.raises /\ ~ok)
    /\ item' = 1 /\ attempt' = 0 /\ errors' = <<>> /\ last' = NoneYet
    /\ UNCHANGED <<node, asking>>

LoopReturns == Busy /\ asking = "none" /\ item > Len(loop.items) /\ Finish(TRUE, last)

Exhausted ==
    /\ Calling /\ ~PrimaryLeft /\ ~FallbackLeft
    /\ Finish(FALSE, [failed |-> Len(errors), attempts |-> attempt])

Step == AskPrimary \/ AskFallback \/ Answers \/ Fails \/ LoopReturns \/ Exhausted
Stopped == ~Busy /\ UNCHANGED vars
Next == Step \/ Stopped

Spec == Init /\ [][Next]_vars

(* Fairness: the event loop goes on with the node, and a call returns or   *)
(* raises in the end (no timeout is set: an assumption on the providers).  *)
FairSpec == Spec /\ WF_vars(Step)

-------------------------------------------------------------------------------
(***************************************************************************)
(* Properties                                                              *)
(***************************************************************************)
(* Every variable keeps its type; no call is attempted more often than its *)
(* budget allows, and the errors of a call carry the numbers of the        *)
(* attempts that failed, each once (ProcessingError.attempt).              *)
TypeOK ==
    /\ node \in DOMAIN Plans
    /\ results \in Seq([screen: [hits: SUBSET Subjects(loops), answered: SUBSET Subjects(loops),
                                 ok: BOOLEAN],
                        failed: 0 .. Budget, attempts: 0 .. Budget])
    /\ Len(results) <= Len(loops)
    /\ raised \in BOOLEAN
    /\ item \in Nat \ {0} /\ attempt \in Nat
    /\ asking \in {"none", "primary", "fallback"}
    /\ last \in [failed: 0 .. Budget, attempts: 0 .. Budget]
    /\ Busy => attempt <= Attempts(loop.fallback)
    /\ errors = [i \in 1 .. attempt - (IF asking = "none" THEN 0 ELSE 1) |-> i]

(* What CasePipeline takes for one step is all that the retries, the       *)
(* fallbacks and the early ends of the loops can produce: the counts that  *)
(* reach retry_counts are the attempts made, a failure for good used the   *)
(* whole budget, and the hits are those of the names answered.             *)
StepsOfNode == INSTANCE ServiceSteps

ImplementsSteps == StepsOfNode!Spec

(* A registry that failed for good in one screening is reported            *)
(* unavailable at the end of the risk scorer, whoever the name belongs to  *)
(* and whatever it said of the others, and no other registry is (SPEC      *)
(* 7.3); so one that left a name unanswered is always reported.            *)
Reported ==
    Unavailable(results[1].screen, results[2].screen, results[3].screen, results[4].screen)

OutageReported ==
    node = "risk_scorer" /\ ~Busy =>
        \A registry \in {"sanctions", "pep"} :
            LET asked == {k \in DOMAIN loops : loops[k].service = registry}
            IN  /\ registry \in Reported <=>
                      \E k \in asked : results[k].failed = Attempts(loops[k].fallback)
                /\ \A k \in asked :
                      results[k].screen.answered # StepsOfNode!Names(loops[k]) =>
                          registry \in Reported


(* Whatever fails, the node comes to an end. *)
NodeEnds == <>(~Busy)
===============================================================================
