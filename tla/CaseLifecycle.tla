----------------------------- MODULE CaseLifecycle -----------------------------
(***************************************************************************)
(* What the service promises about one case (SPEC 6.4, 7.3, 7.4), without  *)
(* saying how it is processed: the order of the statuses, who may decide   *)
(* the case, and that a verdict is given once.                             *)
(***************************************************************************)
VARIABLES
    status,      \* the status the API reports
    mandatory,   \* has anything made a human decision mandatory?
    verdict      \* None, or who decided what

NoVerdict == [outcome |-> "none", decided_by |-> "none"]
Verdict(outcome, by) == [outcome |-> outcome, decided_by |-> by]

lifecycle == <<status, mandatory, verdict>>

Init ==
    /\ status = "received"
    /\ mandatory = FALSE
    /\ verdict = NoVerdict

Begin ==
    /\ status = "received"
    /\ status' = "processing"
    /\ UNCHANGED <<mandatory, verdict>>

(* A trigger fires or a step degrades the case. *)
RequireHuman ==
    /\ status = "processing" /\ verdict = NoVerdict
    /\ mandatory' = TRUE
    /\ UNCHANGED <<status, verdict>>

DecideAlone ==
    /\ status = "processing" /\ verdict = NoVerdict /\ ~mandatory
    /\ \E outcome \in {"approve", "reject"} : verdict' = Verdict(outcome, "system")
    /\ UNCHANGED <<status, mandatory>>

Escalate ==
    /\ status = "processing" /\ verdict = NoVerdict /\ mandatory
    /\ status' = "awaiting_human_review"
    /\ UNCHANGED <<mandatory, verdict>>

DecideByHuman ==
    /\ status = "awaiting_human_review" /\ verdict = NoVerdict
    /\ \E outcome \in {"approve", "reject"} : verdict' = Verdict(outcome, "human")
    /\ UNCHANGED <<status, mandatory>>

Complete ==
    /\ status \in {"processing", "awaiting_human_review"}
    /\ verdict # NoVerdict
    /\ status' = "completed"
    /\ UNCHANGED <<mandatory, verdict>>

Next ==
    \/ Begin \/ RequireHuman \/ DecideAlone \/ Escalate \/ DecideByHuman \/ Complete

Spec == Init /\ [][Next]_lifecycle
===============================================================================
