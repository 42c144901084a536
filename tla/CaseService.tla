------------------------------ MODULE CaseService ------------------------------
(***************************************************************************)
(* One case as the service sees it: the background run that submit starts, *)
(* the review requests that resume it, the clients that ask for its status *)
(* and the process that may restart.                                       *)
(*                                                                         *)
(* Every ainvoke of the graph is an invocation: it loads the latest        *)
(* checkpoint, executes one node after the other on its own copy, and      *)
(* writes a checkpoint after each.  Nothing keeps two invocations of one   *)
(* case apart; the latest checkpoint written is the state of the case.     *)
(* The nodes before the gate are summarised (CasePipeline has them all).   *)
(* The checkpointer is the one of PostgreSQL, which outlives the process,  *)
(* and the audit sink loses no write.                                      *)
(***************************************************************************)
EXTENDS Integers

CONSTANTS
    Reviewers,      \* clients that post reviews of the case, again and again
    Wants,          \* Wants[r]: the outcome r posts
    Viewers,        \* clients that ask for the status of the case, again and again
    Overlap,        \* may two reviews be open at the same time?
    MaxRestarts     \* bound: how often the process restarts

Outcomes == {"approve", "reject"}

ASSUME ServiceAssumption ==
    /\ "run" \notin Reviewers /\ "system" \notin Reviewers /\ "none" \notin Reviewers
    /\ Wants \in [Reviewers -> Outcomes]
    /\ Overlap \in BOOLEAN
    /\ MaxRestarts \in Nat

VARIABLES
    saved,      \* the latest checkpoint of the case
    phase,      \* phase[i]: how far invocation i has come
    mine,       \* mine[i]: the copy of the channels invocation i works on
    answer,     \* answer[r]: the HTTP status of the last answer to r, 0 before it
    trail,      \* the audit events of the nodes that decide and complete
    restarts,   \* restarts so far, at most MaxRestarts
    looked,     \* looked[v]: what the status request of v has read so far
    reply       \* reply[v]: the last answer to a status request of v

caseVars == <<saved, phase, mine, answer, trail, restarts>>
vars == <<caseVars, looked, reply>>

Invocations == Reviewers \cup {"run"}

(***************************************************************************)
(* A checkpoint: the node to run next, the channels status and decision,   *)
(* and whether an interrupt is pending on it.                              *)
(***************************************************************************)
NoCheckpoint ==
    [next |-> "none", status |-> "none", outcome |-> "none", by |-> "none", asked |-> FALSE]

(* Mutant: the input of the graph carries no status. *)
InputWithoutStatus == [NoCheckpoint EXCEPT !.next = "work"]
Input == [NoCheckpoint EXCEPT !.next = "work", !.status = "received"]

(***************************************************************************)
(* A status request reads a snapshot of the case and then, when there is   *)
(* none, the map of the tasks.  An answer has the status and whether it    *)
(* carries the review request; "404" is CaseNotFoundError.                 *)
(***************************************************************************)
Answer(status, asked) == [status |-> status, asked |-> asked]
NotAsking == Answer("idle", FALSE)
NoReply == Answer("none", FALSE)

Open(r) == phase[r] \in {"checked", "running", "emitted"}

Init ==
    /\ saved = NoCheckpoint
    /\ phase = [i \in Invocations |-> "idle"]
    /\ mine = [i \in Invocations |-> NoCheckpoint]
    /\ answer = [r \in Reviewers |-> 0]
    /\ trail = {}
    /\ restarts = 0
    /\ looked = [v \in Viewers |-> NotAsking]
    /\ reply = [v \in Viewers |-> NoReply]

Become(i, p) == phase' = [phase EXCEPT ![i] = p]

(* The end of a superstep of invocation i: its copy is now the latest. *)
Save(i, checkpoint) ==
    /\ mine' = [mine EXCEPT ![i] = checkpoint]
    /\ saved' = checkpoint

(***************************************************************************)
(* submit creates the task of _run and answers at once; the input of the   *)
(* graph is checkpointed only when the task gets to run.                   *)
(***************************************************************************)
Submit ==
    /\ phase["run"] = "idle"
    /\ Become("run", "accepted")
    /\ UNCHANGED <<saved, mine, answer, trail, restarts>>

RunBegins ==
    /\ phase["run"] = "accepted"
    /\ Become("run", "running")
    /\ Save("run", Input)
    /\ UNCHANGED <<answer, trail, restarts>>

Executing(i, node) == phase[i] = "running" /\ mine[i].next = node

Intake ==
    /\ Executing("run", "work") /\ mine["run"].status = "received"
    /\ Save("run", [mine["run"] EXCEPT !.status = "processing"])
    /\ UNCHANGED <<phase, answer, trail, restarts>>

(* decision_gate *)
Decides ==
    /\ Executing("run", "work") /\ mine["run"].status = "processing"
    /\ \E outcome \in Outcomes :
          Save("run", [mine["run"] EXCEPT !.next = "auto_decision", !.outcome = outcome,
                                          !.by = "system"])
    /\ UNCHANGED <<phase, answer, trail, restarts>>

Escalates ==
    /\ Executing("run", "work") /\ mine["run"].status = "processing"
    /\ Save("run", [mine["run"] EXCEPT !.next = "human_review", !.outcome = "escalate",
                                       !.status = "awaiting_human_review", !.by = "system"])
    /\ UNCHANGED <<phase, answer, trail, restarts>>

(* What a node raises is logged by _run, which then returns. *)
RunFails ==
    /\ Executing("run", "work")
    /\ Become("run", "ended")
    /\ UNCHANGED <<saved, mine, answer, trail, restarts>>

Interrupts ==
    /\ Executing("run", "human_review")
    /\ Become("run", "ended")
    /\ saved' = [mine["run"] EXCEPT !.asked = TRUE]
    /\ UNCHANGED <<mine, answer, trail, restarts>>

(***************************************************************************)
(* review: the check on a snapshot of the case, then the ainvoke, which    *)
(* loads the checkpoint once more.                                         *)
(***************************************************************************)
(* Mutant: the check reads the status instead of the pending interrupts. *)
RefusalByStatus(checkpoint) ==
    IF checkpoint = NoCheckpoint THEN 404
    ELSE IF checkpoint.status = "awaiting_human_review" THEN 0 ELSE 409
Refusal(checkpoint) ==
    IF checkpoint = NoCheckpoint THEN 404 ELSE IF checkpoint.asked THEN 0 ELSE 409

MayAsk(r) ==
    /\ phase["run"] # "idle"
    /\ phase[r] = "idle"
    /\ Overlap \/ \A q \in Reviewers : ~Open(q)
    /\ UNCHANGED <<saved, mine, trail, restarts>>

ReviewRefused(r) ==
    /\ MayAsk(r)
    /\ Refusal(saved) # 0
    /\ answer' = [answer EXCEPT ![r] = Refusal(saved)]
    /\ UNCHANGED phase

ReviewChecked(r) ==
    /\ MayAsk(r)
    /\ Refusal(saved) = 0
    /\ answer' = [answer EXCEPT ![r] = 0]
    /\ Become(r, "checked")

ReviewLoads(r) ==
    /\ phase[r] = "checked"
    /\ mine' = [mine EXCEPT ![r] = saved]
    /\ Become(r, "running")
    /\ UNCHANGED <<saved, answer, trail, restarts>>

(***************************************************************************)
(* The nodes that write an audit event and then return their update.       *)
(***************************************************************************)
(* Mutant: the human decision sends the case back to processing. *)
ReturnedToProcessing(i) ==
    CASE mine[i].next = "auto_decision" -> [mine[i] EXCEPT !.next = "finalize"]
      [] mine[i].next = "human_review"  ->
             [mine[i] EXCEPT !.next = "finalize", !.status = "processing",
                             !.outcome = Wants[i], !.by = i, !.asked = FALSE]
      [] OTHER -> [mine[i] EXCEPT !.next = "end", !.status = "completed"]
(* Mutant: the edge from human_review to finalize is missing. *)
ReturnedToEnd(i) ==
    CASE mine[i].next = "auto_decision" -> [mine[i] EXCEPT !.next = "finalize"]
      [] mine[i].next = "human_review"  ->
             [mine[i] EXCEPT !.next = "end", !.outcome = Wants[i], !.by = i, !.asked = FALSE]
      [] OTHER -> [mine[i] EXCEPT !.next = "end", !.status = "completed"]
(* Mutant: the answered interrupt stays pending. *)
ReturnedStillAsked(i) ==
    CASE mine[i].next = "auto_decision" -> [mine[i] EXCEPT !.next = "finalize"]
      [] mine[i].next = "human_review"  ->
             [mine[i] EXCEPT !.next = "finalize", !.outcome = Wants[i], !.by = i]
      [] OTHER -> [mine[i] EXCEPT !.next = "end", !.status = "completed"]
Returned(i) ==
    CASE mine[i].next = "auto_decision" -> [mine[i] EXCEPT !.next = "finalize"]
      [] mine[i].next = "human_review"  ->
             [mine[i] EXCEPT !.next = "finalize", !.outcome = Wants[i], !.by = i,
                             !.asked = FALSE]
      [] OTHER -> [mine[i] EXCEPT !.next = "end", !.status = "completed"]

(* Mutant: the event is built from the decision the node was given. *)
EventOfOldDecision(i) ==
    [node |-> mine[i].next, outcome |-> mine[i].outcome, by |-> mine[i].by]
EventOf(i) ==
    LET update == Returned(i)
    IN  [node |-> mine[i].next, outcome |-> update.outcome, by |-> update.by]

Emitting(i) ==
    \/ mine[i].next \in {"auto_decision", "finalize"}
    \/ mine[i].next = "human_review" /\ i \in Reviewers

NodeEmits(i) ==
    /\ phase[i] = "running" /\ Emitting(i)
    /\ trail' = trail \cup {EventOf(i)}
    /\ Become(i, "emitted")
    /\ UNCHANGED <<saved, mine, answer, restarts>>

NodeReturns(i) ==
    /\ phase[i] = "emitted"
    /\ Save(i, Returned(i))
    /\ Become(i, "running")
    /\ UNCHANGED <<answer, trail, restarts>>

RunEnds ==
    /\ Executing("run", "end")
    /\ Become("run", "ended")
    /\ UNCHANGED <<saved, mine, answer, trail, restarts>>

(* The client may post again. *)
ReviewAnswered(r) ==
    /\ Executing(r, "end")
    /\ answer' = [answer EXCEPT ![r] = 200]
    /\ Become(r, "idle")
    /\ UNCHANGED <<saved, mine, trail, restarts>>

(***************************************************************************)
(* status.  A client knows the case_id from the answer of submit.  The     *)
(* task of the run is registered by submit and removed by a done callback  *)
(* (exists looks at the same two places in the same order).                *)
(***************************************************************************)
Tracked == phase["run"] \notin {"idle", "ended"}

StatusReads(v) ==
    /\ phase["run"] # "idle"
    /\ looked[v] = NotAsking
    /\ looked' = [looked EXCEPT ![v] = Answer(saved.status, saved.asked)]
    /\ UNCHANGED reply

StatusAnswers(v) ==
    /\ looked[v] # NotAsking
    /\ reply' = [reply EXCEPT ![v] =
                    IF looked[v].status # "none" THEN looked[v]
                    ELSE Answer(IF Tracked THEN "received" ELSE "404", FALSE)]
    /\ looked' = [looked EXCEPT ![v] = NotAsking]

(***************************************************************************)
(* A restart ends every invocation and every request; clients see a closed *)
(* connection.  The new process starts none of the runs again.             *)
(***************************************************************************)
(* Mutant: the new process runs an accepted case again from its input. *)
RestartReruns ==
    /\ phase["run"] # "idle"
    /\ restarts < MaxRestarts
    /\ restarts' = restarts + 1
    /\ phase' = [i \in Invocations |-> IF i = "run" THEN "accepted" ELSE "idle"]
    /\ looked' = [v \in Viewers |-> NotAsking]
    /\ UNCHANGED <<saved, mine, answer, trail, reply>>
Restart ==
    /\ phase["run"] # "idle"
    /\ restarts < MaxRestarts
    /\ restarts' = restarts + 1
    /\ phase' = [i \in Invocations |-> IF i = "run" THEN "ended" ELSE "idle"]
    /\ looked' = [v \in Viewers |-> NotAsking]
    /\ UNCHANGED <<saved, mine, answer, trail, reply>>

RunStep == RunBegins \/ Intake \/ Decides \/ Escalates \/ RunFails \/ Interrupts \/ RunEnds

ReviewStep(r) == ReviewLoads(r) \/ ReviewAnswered(r)

NodeStep(i) == NodeEmits(i) \/ NodeReturns(i)

Asks(r) == ReviewRefused(r) \/ ReviewChecked(r)

CaseStep ==
    \/ Submit \/ RunStep
    \/ \E r \in Reviewers : Asks(r) \/ ReviewStep(r)
    \/ \E i \in Invocations : NodeStep(i)

ViewerStep(v) == StatusReads(v) \/ StatusAnswers(v)

Next ==
    \/ CaseStep /\ UNCHANGED <<looked, reply>>
    \/ Restart
    \/ \E v \in Viewers : ViewerStep(v) /\ UNCHANGED caseVars

Spec == Init /\ [][Next]_vars

(***************************************************************************)
(* Fairness: the event loop goes on with every open invocation, and some   *)
(* reviewer posts again and again as long as the case is not completed.    *)
(***************************************************************************)
FairSpec ==
    /\ Spec
    /\ WF_caseVars(RunStep)
    /\ \A r \in Reviewers : WF_caseVars(ReviewStep(r))
    /\ \A i \in Invocations : WF_caseVars(NodeStep(i))
    /\ WF_caseVars(\E r \in Reviewers : Asks(r))

-------------------------------------------------------------------------------
(***************************************************************************)
(* Properties                                                              *)
(***************************************************************************)
Actors == Reviewers \cup {"system", "none"}

Statuses == {"received", "processing", "awaiting_human_review", "completed"}

Stored ==
    [next: {"work", "auto_decision", "human_review", "finalize", "end"},
     status: Statuses,
     outcome: Outcomes \cup {"none", "escalate"}, by: Actors, asked: BOOLEAN]

Checkpoint == {NoCheckpoint} \cup Stored

Events ==
    [node: {"auto_decision", "human_review", "finalize"},
     outcome: Outcomes \cup {"none", "escalate"}, by: Actors]

Answers == [status: Statuses \cup {"none", "404"}, asked: BOOLEAN]

CaseTypeOK ==
    /\ saved \in Checkpoint
    /\ phase \in [Invocations -> {"idle", "accepted", "checked", "running", "emitted", "ended"}]
    /\ mine \in [Invocations -> Checkpoint]
    /\ answer \in [Reviewers -> {0, 200, 404, 409}]
    /\ trail \subseteq Events
    /\ restarts \in 0..MaxRestarts
    /\ \A i \in Invocations : phase[i] = "emitted" => Emitting(i)

(* Every variable keeps its type; a checkpoint has a status, and only a    *)
(* node that writes an event waits to return.                              *)
TypeOK ==
    /\ CaseTypeOK
    /\ looked \in [Viewers -> Answers \cup {NotAsking}]
    /\ reply \in [Viewers -> Answers]

(* The trail is ahead of the state, over crashes and overlapping reviews:  *)
(* a verdict that is stored was announced by its node with this author and *)
(* outcome, and a completed case has its closing event (audit/sink.py,     *)
(* "the decision trail itself is written before a case finalizes").        *)
DecisionRecorded ==
    /\ saved.outcome \in Outcomes /\ saved.next # "auto_decision" =>
          \E e \in trail : /\ e.node \in {"auto_decision", "human_review"}
                           /\ e.outcome = saved.outcome /\ e.by = saved.by
    /\ saved.status = "completed" =>
          [node |-> "finalize", outcome |-> saved.outcome, by |-> saved.by] \in trail

(* As long as reviews do not overlap, a verdict is given once, whatever    *)
(* restarts happen in between: once stored, neither its author nor its     *)
(* outcome ever changes, and a completed case stays completed.             *)
VerdictStep ==
    saved.outcome \in Outcomes =>
        /\ saved'.outcome = saved.outcome /\ saved'.by = saved.by
        /\ saved.status = "completed" => saved' = saved

OneVerdict == [][VerdictStep]_saved

(* A reviewer who gets 200 has decided the case: the case is completed     *)
(* with that reviewer's outcome.  Holds as long as reviews do not overlap. *)
AcceptedDecides ==
    \A r \in Reviewers :
        answer[r] = 200 =>
            saved.status = "completed" /\ saved.by = r /\ saved.outcome = Wants[r]

(* Seen by analysts who review one at a time, the service is CaseDesk:     *)
(* each review takes effect at one instant while the question is open, and *)
(* its answer is truthful, whatever restarts cut off in between.           *)
Desk == INSTANCE CaseDesk WITH
    status <- saved.status,
    question <- saved.asked,
    verdict <- IF saved.outcome \in Outcomes
               THEN [outcome |-> saved.outcome, by |-> saved.by]
               ELSE [outcome |-> "none", by |-> "none"]

ImplementsDesk == Desk!Spec

(* With reviews that overlap, a verdict may still be replaced, by that of  *)
(* another analyst who was shown the question, but it is never taken back: *)
(* the question is not asked again, and what the system decided is final.  *)
StandStep ==
    saved.outcome \in Outcomes =>
        /\ saved'.outcome \in Outcomes /\ ~saved'.asked
        /\ IF saved.by = "system"
           THEN saved'.by = saved.by /\ saved'.outcome = saved.outcome
           ELSE saved'.by \in Reviewers

VerdictStands == [][StandStep]_saved

(* With reviews that overlap, an analyst who is answered 200 knows that an *)
(* analyst decided the case, and that what is stored is what the one named *)
(* as its author asked for.                                                *)
AcceptedByAnalyst ==
    \A r \in Reviewers :
        answer[r] = 200 => saved.by \in Reviewers /\ saved.outcome = Wants[saved.by]

(* How far a case has come. *)
Rank(status) ==
    CASE status = "processing" -> 1
      [] status = "awaiting_human_review" -> 2
      [] status = "completed" -> 3
      [] OTHER -> 0

(* What a client was told stands, however its request, the run, the review *)
(* and the restarts interleave: the case still has the status it was told  *)
(* or has passed it; a case that was acknowledged is forgotten by nothing  *)
(* but a restart; and the question of a review request that was shown is   *)
(* still open, unless a human has answered it.  The status of the case is  *)
(* taken back by reviews that overlap, and then only by them.              *)
StatusStands == \A v \in Viewers : Rank(reply[v].status) <= Rank(saved.status)

AcknowledgedStands ==
    \A v \in Viewers :
        reply[v].status = "received" => saved # NoCheckpoint \/ Tracked \/ restarts > 0

QuestionStands ==
    \A v \in Viewers :
        reply[v].asked =>
            \/ saved.asked /\ saved.status = "awaiting_human_review"
            \/ \E e \in trail : e.node = "human_review"

RepliesStand == StatusStands /\ AcknowledgedStands /\ QuestionStands

(* A client that asks again and again never sees the case go backwards,    *)
(* however old the snapshot is that its request read: once it saw a status *)
(* of a checkpoint it sees that one or a later one, never an unknown case. *)
StatusGoesForward ==
    [][\A v \in Viewers : Rank(reply[v].status) <= Rank(reply'[v].status)]_reply

(* A case on which an interrupt is pending completes, or the process       *)
(* restarts: the service never loses the way from the question to the      *)
(* answer by itself.                                                       *)
QuestionIsAnswered ==
    \A n \in 0..MaxRestarts :
        saved.asked /\ restarts = n ~> saved.status = "completed" \/ restarts > n

-------------------------------------------------------------------------------
(***************************************************************************)
(* What the documentation says and the code does otherwise.                *)
(***************************************************************************)
(* src/README.md: the case survives a restart between the escalation and   *)
(* the human decision.  A restart after the checkpoint of the gate and     *)
(* before the interrupt, or after the human decision and before finalize,  *)
(* leaves the case awaiting review with nothing to resume.                 *)
EscalatedCaseSurvives ==
    saved.status = "awaiting_human_review" ~> saved.status = "completed"

(* SPEC 10: 404 stands for an unknown case, and by the head of service.py  *)
(* any instance can serve any case after a restart.  A case that submit    *)
(* acknowledged is answered 404 once a restart came before its first       *)
(* checkpoint; and, without one, when the snapshot was read before that    *)
(* checkpoint and the map of the tasks after the end of the run.           *)
AcceptedCaseIsKnown == \A v \in Viewers : reply[v].status # "404"

(* SPEC 10: a review of a case that is not awaiting_human_review is        *)
(* answered with 409.  A second review that passed the check before the    *)
(* first one completed the case is answered with 200 and dropped.          *)
LateReviewIsRefused ==
    \A r \in Reviewers :
        answer[r] = 200 => \E e \in trail : e.node = "human_review" /\ e.by = r
===============================================================================
