------------------------------ MODULE RiskRules ------------------------------
(***************************************************************************)
(* rules/risk.py (the mandatory escalation triggers, the risk level and    *)
(* the decision matrix) and the two pure helpers of graph/nodes.py that    *)
(* feed it: the overall confidence and the names to screen.                *)
(***************************************************************************)
EXTENDS KycData, FiniteSetsExt

(***************************************************************************)
(* _overall_confidence, in hundredths: the worst field confidence, capped  *)
(* at 40 by a grounding discrepancy and at 50 by an unreadable document,   *)
(* less 5 for each of at most three warnings.                              *)
(***************************************************************************)
FieldConfidences(extractions) ==
    UNION {{e.reading.confidence[f] : f \in DOMAIN e.reading.confidence} :
              e \in Readable(extractions)}

Least(a, b) == IF a <= b THEN a ELSE b

BaseConfidence(extractions) ==
    IF FieldConfidences(extractions) = {} THEN 30 ELSE Min(FieldConfidences(extractions))

ConfidenceCap(extractions, grounding) ==
    IF grounding # {} THEN 40
    ELSE IF Readable(extractions) # extractions THEN 50 ELSE 100

(* Mutant: warnings raise the confidence. *)
WarningsRaiseConfidence(extractions, grounding, flags) ==
    LET warnings == {f \in flags : f.severity = "warning"}
    IN  Least(BaseConfidence(extractions), ConfidenceCap(extractions, grounding))
            + 5 * Least(Cardinality(warnings), 3)

OverallConfidence(extractions, grounding, flags) ==
    LET warnings == {f \in flags : f.severity = "warning"}
        capped   == Least(BaseConfidence(extractions), ConfidenceCap(extractions, grounding))
        shaved   == capped - 5 * Least(Cardinality(warnings), 3)
    IN  IF shaved < 0 THEN 0 ELSE shaved

(* _screening_names *)
PersonNames(applicant, extractions) ==
    {applicant.full_name} \cup
    (UNION {Got(e, "full_name") :
               e \in {x \in Readable(extractions) :
                         x.type \in {"id_document", "proof_of_address"}}})

CompanyNames(applicant, extractions) ==
    {n \in {applicant.company_name} :
        applicant.customer = "business" /\ n \notin {None, ""}}
    \cup (UNION {Got(e, "company_name") : e \in Readable(extractions)})

OwnerNames(extractions) ==
    (UNION UNION {Got(e, "beneficial_owners") : e \in Readable(extractions)}) \ {""}

(***************************************************************************)
(* evaluate_risk_rules.  sanctions, pep and ubo are the names matched by   *)
(* each screening, unavailable the registries that gave no answer.         *)
(***************************************************************************)
CriticalMismatches(flags) ==
    {f \in flags : f.rule \in CriticalMismatchSources /\ f.severity = "critical"}

(* Mutant: a volume that meets the limit exceeds it. *)
ReachesVolume(applicant) == applicant.volume >= HighVolume[applicant.customer]
ExceedsVolume(applicant) == applicant.volume > HighVolume[applicant.customer]

Fired(rule, holds) == IF holds THEN {rule} ELSE {}

EvaluateRiskRules(applicant, confidence, flags, sanctions, pep, ubo, unavailable) ==
         Fired("SANCTIONS_HIT", sanctions # {})
    \cup Fired("PEP_MATCH", pep # {})
    \cup Fired("UBO_SANCTIONS_OR_PEP", ubo # {})
    \cup Fired("HIGH_VOLUME", ExceedsVolume(applicant))
    \cup Fired("LOW_CONFIDENCE", confidence < ConfidenceThreshold)
    \cup Fired("CRITICAL_MISMATCH", CriticalMismatches(flags) # {})
    \cup Fired("REGISTRY_UNAVAILABLE", unavailable # {})

HighRisk == {"SANCTIONS_HIT", "PEP_MATCH", "UBO_SANCTIONS_OR_PEP", "REGISTRY_UNAVAILABLE"}

RiskLevel(triggered) ==
    IF triggered \cap HighRisk # {} THEN "high"
    ELSE IF triggered # {} THEN "medium" ELSE "low"

(***************************************************************************)
(* decide_gate: the decision matrix, evaluated top-down.                   *)
(***************************************************************************)
Decision ==
    [outcome: {"approve", "reject", "escalate"}, decided_by: {"system", "human"},
     reason_codes: SUBSET ReasonCodes]

BySystem(outcome, codes) ==
    [outcome |-> outcome, decided_by |-> "system", reason_codes |-> codes]

Expired(flags) == \E f \in flags : f.rule = "DOC_EXPIRED"

(* Mutant: degradation only protects from the rejections. *)
GateIgnoresDegraded(incomplete, flags, triggers, degraded) ==
    IF incomplete /\ ~degraded
    THEN BySystem("reject", {"INCOMPLETE_PACKAGE"})
    ELSE IF Expired(flags) /\ triggers = {} /\ ~degraded
    THEN BySystem("reject", {"DOCUMENT_EXPIRED"})
    ELSE IF triggers # {}
    THEN BySystem("escalate", triggers)
    ELSE BySystem("approve", {"ALL_CHECKS_PASSED"})

(* Mutant: an escalation does not name the degradation. *)
GateHidesDegraded(incomplete, flags, triggers, degraded) ==
    IF incomplete /\ ~degraded
    THEN BySystem("reject", {"INCOMPLETE_PACKAGE"})
    ELSE IF triggers # {} \/ degraded
    THEN BySystem("escalate", triggers)
    ELSE BySystem("approve", {"ALL_CHECKS_PASSED"})

DecideGate(incomplete, flags, triggers, degraded) ==
    IF incomplete /\ ~degraded
    THEN BySystem("reject", {"INCOMPLETE_PACKAGE"})
    ELSE IF Expired(flags) /\ triggers = {} /\ ~degraded
    THEN BySystem("reject", {"DOCUMENT_EXPIRED"})
    ELSE IF triggers # {} \/ degraded
    THEN BySystem("escalate", triggers \cup Fired("DEGRADED_TO_MANUAL", degraded))
    ELSE BySystem("approve", {"ALL_CHECKS_PASSED"})
=============================================================================
