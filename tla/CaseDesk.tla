-------------------------------- MODULE CaseDesk --------------------------------
(***************************************************************************)
(* What the service promises to the analysts of one case (SPEC 7.4, 10) as *)
(* long as one of them reviews it at a time: a review takes effect at one  *)
(* instant or not at all, only while the question is open, and its answer  *)
(* tells the analyst truthfully which.  Requests, copies, checkpoints and  *)
(* restarts are not seen here.                                             *)
(***************************************************************************)
CONSTANTS
    Reviewers,   \* the analysts
    Wants        \* Wants[r]: the outcome r posts

VARIABLES
    status,      \* the status the API reports, "none" for an unknown case
    question,    \* is the review request open?
    verdict,     \* NoVerdict, or who decided what
    answer       \* answer[r]: the last answer to r, 0 as long as there is none

desk == <<status, question, verdict, answer>>

NoVerdict == [outcome |-> "none", by |-> "none"]
Verdict(outcome, by) == [outcome |-> outcome, by |-> by]

Init ==
    /\ status = "none"
    /\ question = FALSE
    /\ verdict = NoVerdict
    /\ answer = [r \in Reviewers |-> 0]

Receive ==
    /\ status = "none"
    /\ status' = "received"
    /\ UNCHANGED <<question, verdict, answer>>

Begin ==
    /\ status = "received"
    /\ status' = "processing"
    /\ UNCHANGED <<question, verdict, answer>>

DecideAlone ==
    /\ status = "processing" /\ verdict = NoVerdict
    /\ \E outcome \in {"approve", "reject"} : verdict' = Verdict(outcome, "system")
    /\ UNCHANGED <<status, question, answer>>

Escalate ==
    /\ status = "processing" /\ verdict = NoVerdict
    /\ status' = "awaiting_human_review"
    /\ UNCHANGED <<question, verdict, answer>>

Ask ==
    /\ status = "awaiting_human_review" /\ verdict = NoVerdict /\ ~question
    /\ question' = TRUE
    /\ UNCHANGED <<status, verdict, answer>>

(* A review is refused, or it will be answered later. *)
Refuse(r) ==
    /\ ~question
    /\ answer' = [answer EXCEPT ![r] = IF status = "none" THEN 404 ELSE 409]
    /\ UNCHANGED <<status, question, verdict>>

Admit(r) ==
    /\ question
    /\ answer' = [answer EXCEPT ![r] = 0]
    /\ UNCHANGED <<status, question, verdict>>

(* The instant at which the review of r takes effect. *)
Decide(r) ==
    /\ question /\ answer[r] = 0
    /\ question' = FALSE
    /\ verdict' = Verdict(Wants[r], r)
    /\ UNCHANGED <<status, answer>>

Complete ==
    /\ status \in {"processing", "awaiting_human_review"} /\ verdict # NoVerdict
    /\ status' = "completed"
    /\ UNCHANGED <<question, verdict, answer>>

Confirm(r) ==
    /\ status = "completed" /\ verdict = Verdict(Wants[r], r) /\ answer[r] = 0
    /\ answer' = [answer EXCEPT ![r] = 200]
    /\ UNCHANGED <<status, question, verdict>>

Next ==
    \/ Receive \/ Begin \/ DecideAlone \/ Escalate \/ Ask \/ Complete
    \/ \E r \in Reviewers : Refuse(r) \/ Admit(r) \/ Decide(r) \/ Confirm(r)

Spec == Init /\ [][Next]_desk
===============================================================================
