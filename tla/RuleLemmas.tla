------------------------------ MODULE RuleLemmas ------------------------------
(***************************************************************************)
(* What the rules return, for every value of the constants: the flags of   *)
(* the validation rules, the confidence, the triggers and the decision     *)
(* matrix.  The proofs about CasePipeline cite these facts.                *)
(***************************************************************************)
EXTENDS ValidationRules, RiskRules, TLAPS, FiniteSetTheorems, WellFoundedInduction

(***************************************************************************)
(* Finiteness                                                              *)
(***************************************************************************)
(* The range 0..100 of the confidences is finite. *)
LEMMA PercentFinite == IsFiniteSet(0..100)
<1>1. 0 \in Int /\ 100 \in Int
  OBVIOUS
<1>. QED  BY ONLY <1>1, FS_Interval

(* A nonempty set of confidences has a least element, the one Min chooses. *)
LEMMA MinInSet ==
  ASSUME NEW S, S \subseteq 0..100, S # {}
  PROVE  Min(S) \in S
<1> DEFINE Below(x) == {y \in S : y < x}
           T == {Below(x) : x \in S}
           R == StrictSubsetOrdering(S)
<1>0. \A x \in S : x \in Int
  OBVIOUS
<1>1. IsFiniteSet(S)
  BY PercentFinite, FS_Subset
<1>2. IsWellFoundedOn(R, FiniteSubsetsOf(S))
  BY FS_StrictSubsetOrderingWellFounded
<1>3. T \subseteq FiniteSubsetsOf(S)
  <2>1. SUFFICES ASSUME NEW x \in S PROVE Below(x) \in FiniteSubsetsOf(S)
    OBVIOUS
  <2>2. Below(x) \in SUBSET S
    OBVIOUS
  <2>3. IsFiniteSet(Below(x))
    BY <1>1, <2>2, FS_Subset
  <2>. QED  BY <2>2, <2>3 DEF FiniteSubsetsOf
<1>4. T # {}
  OBVIOUS
<1>5. \E t \in T : \A u \in T : ~(<<u, t>> \in R)
  <2> HIDE DEF T, R
  <2>. QED BY <1>2, <1>3, <1>4, WFMin
<1>6. PICK x \in S : \A y \in S : ~(<<Below(y), Below(x)>> \in R)
  BY <1>5
<1>7. \A y \in S : x <= y
  <2>1. SUFFICES ASSUME NEW y \in S, y < x PROVE FALSE
    BY <1>0
  <2>2. Below(y) \subseteq Below(x)
    <3>1. SUFFICES ASSUME NEW z \in S, z < y PROVE z < x
      OBVIOUS
    <3>2. x \in Int /\ y \in Int /\ z \in Int
      BY <1>0
    <3>. QED  BY ONLY <3>1, <3>2, <2>1
  <2>3. y \in Below(x) /\ y \notin Below(y)
    BY <1>0, <2>1
  <2>4. <<Below(y), Below(x)>> \in R
    <3> HIDE DEF Below
    <3>1. Below(x) \in SUBSET S /\ Below(y) \in SUBSET S
      BY DEF Below
    <3>. QED BY <2>2, <2>3, <3>1 DEF StrictSubsetOrdering
  <2>. QED  BY <1>6, <2>4
<1>. QED  BY <1>7, Zenon DEF Min

(* Four more elements keep a set finite. *)
LEMMA AddFourFinite ==
  ASSUME NEW S, IsFiniteSet(S), NEW a, NEW b, NEW c, NEW d
  PROVE  IsFiniteSet(S \cup {a, b, c, d})
<1>1. IsFiniteSet(S \cup {a})
  BY FS_AddElement
<1>2. IsFiniteSet((S \cup {a}) \cup {b})
  BY <1>1, FS_AddElement
<1>3. IsFiniteSet(((S \cup {a}) \cup {b}) \cup {c})
  BY <1>2, FS_AddElement
<1>4. IsFiniteSet((((S \cup {a}) \cup {b}) \cup {c}) \cup {d})
  BY <1>3, FS_AddElement
<1>5. S \cup {a, b, c, d} = (((S \cup {a}) \cup {b}) \cup {c}) \cup {d}
  OBVIOUS
<1>. QED  BY <1>4, <1>5

(* There are finitely many flags, because there are finitely many documents. *)
LEMMA RuleFlagFinite == IsFiniteSet(RuleFlag)
<1> DEFINE A == ValidationRules \X Severity
           B == Docs \X FlagFields
           f == [p \in A \X B |-> Flag(p[1][1], p[1][2], p[2][1], p[2][2])]
<1>1. IsFiniteSet(ValidationRules)
  <2>1. IsFiniteSet({} \cup {"DOC_EXPIRED", "NAME_MISMATCH", "DOB_MISMATCH", "ADDRESS_MISMATCH"})
    BY AddFourFinite, FS_EmptySet
  <2>2. IsFiniteSet(({} \cup {"DOC_EXPIRED", "NAME_MISMATCH", "DOB_MISMATCH", "ADDRESS_MISMATCH"})
           \cup {"COMPANY_NAME_MISMATCH", "REG_NUMBER_MISMATCH", "EXTRACTION_INCOMPLETE",
                 "EVALUATOR_DISCREPANCY"})
    BY <2>1, AddFourFinite
  <2>. QED  BY <2>2, FS_Subset DEF ValidationRules
<1>2. IsFiniteSet(Severity)
  <2>1. IsFiniteSet({} \cup {"warning", "critical", "critical", "critical"})
    BY AddFourFinite, FS_EmptySet
  <2>. QED  BY <2>1, FS_Subset DEF Severity
<1>3. IsFiniteSet(FlagFields)
  <2>1. IsFiniteSet({} \cup {"full_name", "date_of_birth", "document_number", "expiry_date"})
    BY AddFourFinite, FS_EmptySet
  <2>2. IsFiniteSet(({} \cup {"full_name", "date_of_birth", "document_number", "expiry_date"})
           \cup {"address", "company_name", "registration_number", "beneficial_owners"})
    BY <2>1, AddFourFinite
  <2>3. IsFiniteSet((({} \cup {"full_name", "date_of_birth", "document_number", "expiry_date"})
           \cup {"address", "company_name", "registration_number", "beneficial_owners"})
           \cup {"grounding"})
    BY <2>2, FS_AddElement
  <2>. QED  BY <2>3, FS_Subset DEF FlagFields
<1>4. IsFiniteSet(A \X B)
  BY <1>1, <1>2, <1>3, DocsAssumption, FS_Product
<1>5. f \in Surjection(A \X B, RuleFlag)
  <2>1. f \in [A \X B -> RuleFlag]
    BY DEF Flag, RuleFlag
  <2>2. ASSUME NEW r \in RuleFlag
        PROVE  \E p \in A \X B : f[p] = r
    <3>1. <<<<r.rule, r.severity>>, <<r.doc, r.field>>>> \in A \X B
      BY DEF RuleFlag
    <3>2. f[<<<<r.rule, r.severity>>, <<r.doc, r.field>>>>] = r
      BY <3>1 DEF Flag, RuleFlag
    <3>. QED  BY <3>1, <3>2
  <2>. QED  BY <2>1, <2>2 DEF Surjection
<1>. QED  BY <1>4, <1>5, FS_Surjection

-------------------------------------------------------------------------------
(***************************************************************************)
(* The validation rules                                                    *)
(***************************************************************************)
(* Whatever a check reads of a field is a value the field has. *)
LEMMA GotIsText ==
  ASSUME NEW e \in ExtractionResult, NEW f, f # "beneficial_owners"
  PROVE  Got(e, f) \subseteq Texts
<1>1. SUFFICES ASSUME f \in DOMAIN e.reading.fields
               PROVE  e.reading.fields[f] \in Texts
  BY DEF Got
<1>2. e.reading \in AllReadings
  BY DEF ExtractionResult
<1>3. e.reading # NoReading
  BY <1>1 DEF NoReading
<1>4. PICK t \in KnownTypes : e.reading \in Readings[t]
  BY <1>2, <1>3 DEF AllReadings
<1>. QED  BY <1>1, <1>4, ReadingsAssumption

(* Every flag of the validation rules is a RuleFlag of a document. *)
LEMMA ValidationFlagsType ==
  ASSUME NEW applicant, NEW extractions, extractions \subseteq ExtractionResult
  PROVE  RunValidationRules(applicant, extractions) \subseteq RuleFlag
<1>1. SUFFICES ASSUME NEW e \in extractions
               PROVE  /\ CompletenessFlags(e) \subseteq RuleFlag
                      /\ TypeFlags(applicant, e) \subseteq RuleFlag
  BY DEF RunValidationRules, Readable
<1>2. e.doc \in Docs /\ e.type \in KnownTypes
  BY DEF ExtractionResult
<1>3. CompletenessFlags(e) \subseteq RuleFlag
  <2>1. RequiredFields[e.type] \subseteq FlagFields
    BY <1>2 DEF RequiredFields, KnownTypes, FlagFields
  <2>. QED  BY <1>2, <2>1
            DEF CompletenessFlags, Flag, RuleFlag, ValidationRules, Severity
<1>4. \A f \in FlagFields, r \in ValidationRules : NameFlags(e, f, r) \subseteq RuleFlag
  BY <1>2 DEF NameFlags, Flag, RuleFlag, Severity
<1>5. \A d : \A f \in FlagFields, r \in ValidationRules : ExactFlags(d, e, f, r) \subseteq RuleFlag
  BY <1>2 DEF ExactFlags, Flag, RuleFlag, Severity
<1>6. AddressFlags(e) \subseteq RuleFlag /\ ExpiryFlags(e) \subseteq RuleFlag
  BY <1>2 DEF AddressFlags, ExpiryFlags, Flag, RuleFlag, ValidationRules, Severity, FlagFields
<1>7. TypeFlags(applicant, e) \subseteq RuleFlag
  <2>1. {"full_name", "date_of_birth", "company_name", "registration_number"} \subseteq FlagFields
    BY DEF FlagFields
  <2>2. {"NAME_MISMATCH", "DOB_MISMATCH", "COMPANY_NAME_MISMATCH", "REG_NUMBER_MISMATCH"}
          \subseteq ValidationRules
    BY DEF ValidationRules
  <2>3. /\ NameFlags(e, "full_name", "NAME_MISMATCH") \subseteq RuleFlag
        /\ NameFlags(e, "company_name", "COMPANY_NAME_MISMATCH") \subseteq RuleFlag
    BY <1>4, <2>1, <2>2
  <2>4. /\ ExactFlags(applicant.date_of_birth, e, "date_of_birth", "DOB_MISMATCH")
              \subseteq RuleFlag
        /\ ExactFlags(applicant.registration_number, e, "registration_number",
                      "REG_NUMBER_MISMATCH") \subseteq RuleFlag
    BY <1>5, <2>1, <2>2
  <2>. QED  BY <1>2, <1>6, <2>3, <2>4 DEF TypeFlags, KnownTypes
<1>. QED  BY <1>3, <1>7

-------------------------------------------------------------------------------
(***************************************************************************)
(* The confidence, the triggers and the decision matrix                    *)
(***************************************************************************)
(* The confidence stays a percentage: it is shaved, never below zero. *)
LEMMA ConfidenceType ==
  ASSUME NEW extractions, extractions \subseteq ExtractionResult,
         NEW grounding, NEW flags, flags \subseteq RuleFlag
  PROVE  OverallConfidence(extractions, grounding, flags) \in 0..100
<1>1. FieldConfidences(extractions) \subseteq 0..100
  <2>1. SUFFICES ASSUME NEW e \in extractions, NEW f \in DOMAIN e.reading.confidence
                 PROVE  e.reading.confidence[f] \in 0..100
    BY DEF FieldConfidences, Readable
  <2>2. e.reading \in AllReadings
    BY DEF ExtractionResult
  <2>3. e.reading # NoReading
    BY <2>1 DEF NoReading
  <2>4. PICK t \in KnownTypes : e.reading \in Readings[t]
    BY <2>2, <2>3 DEF AllReadings
  <2>. QED  BY <2>4, ReadingsAssumption
<1>2. BaseConfidence(extractions) \in 0..100
  BY <1>1, MinInSet DEF BaseConfidence
<1>3. ConfidenceCap(extractions, grounding) \in 0..100
  BY DEF ConfidenceCap
<1> DEFINE warnings == {f \in flags : f.severity = "warning"}
<1>4. Cardinality(warnings) \in Nat
  <2>1. IsFiniteSet(warnings)
    BY RuleFlagFinite, FS_Subset
  <2>. QED  BY <2>1, FS_CardinalityType
<1>. HIDE DEF warnings
<1>5. Least(Cardinality(warnings), 3) \in 0..3
  BY <1>4 DEF Least
<1>6. Least(BaseConfidence(extractions), ConfidenceCap(extractions, grounding)) \in 0..100
  BY <1>2, <1>3 DEF Least
<1>. QED  BY <1>5, <1>6 DEF OverallConfidence, warnings

(* The triggers are escalation rules, whatever the registries answered. *)
LEMMA TriggersType ==
  ASSUME NEW applicant, NEW confidence, NEW flags, NEW sanctions, NEW pep, NEW ubo,
         NEW unavailable
  PROVE  EvaluateRiskRules(applicant, confidence, flags, sanctions, pep, ubo, unavailable)
            \subseteq EscalationRules
BY DEF EvaluateRiskRules, Fired, EscalationRules

(* No trigger means that nothing any of the rules looks for was found. *)
LEMMA NoTriggers ==
  ASSUME NEW applicant, NEW confidence, NEW flags, NEW sanctions, NEW pep, NEW ubo,
         NEW unavailable,
         EvaluateRiskRules(applicant, confidence, flags, sanctions, pep, ubo, unavailable) = {}
  PROVE  /\ sanctions = {} /\ pep = {} /\ ubo = {} /\ unavailable = {}
         /\ ~ExceedsVolume(applicant)
         /\ ~(confidence < ConfidenceThreshold)
         /\ CriticalMismatches(flags) = {}
BY DEF EvaluateRiskRules, Fired

(* The decision matrix: a trigger or a degradation always escalates when   *)
(* the package was complete or the case is degraded, and an approval needs *)
(* neither of them, a complete package and no expired document.            *)
LEMMA GateMatrix ==
  ASSUME NEW missing \in BOOLEAN, NEW flags, NEW triggers \in SUBSET EscalationRules,
         NEW manual \in BOOLEAN
  PROVE  LET d == DecideGate(missing, flags, triggers, manual)
         IN  /\ d \in Decision
             /\ d.decided_by = "system"
             /\ manual => d.outcome = "escalate"
             /\ triggers # {} /\ ~missing => d.outcome = "escalate"
             /\ d.outcome = "escalate" =>
                   (triggers # {} \/ manual) /\ d.reason_codes # {}
             /\ d.outcome = "approve" =>
                   ~missing /\ ~manual /\ triggers = {} /\ ~Expired(flags)
<1>1. EscalationRules \cup {"DEGRADED_TO_MANUAL", "INCOMPLETE_PACKAGE", "DOCUMENT_EXPIRED",
                            "ALL_CHECKS_PASSED"} \subseteq ReasonCodes
  BY DEF ReasonCodes
<1>2. triggers \cup Fired("DEGRADED_TO_MANUAL", manual) \subseteq ReasonCodes
  BY <1>1 DEF Fired
<1>3. CASE missing /\ ~manual
  BY <1>1, <1>3 DEF DecideGate, BySystem, Decision
<1>4. CASE ~(missing /\ ~manual) /\ Expired(flags) /\ triggers = {} /\ ~manual
  BY <1>1, <1>4 DEF DecideGate, BySystem, Decision
<1>5. CASE ~(missing /\ ~manual) /\ (triggers # {} \/ manual)
  <2>1. DecideGate(missing, flags, triggers, manual)
          = BySystem("escalate", triggers \cup Fired("DEGRADED_TO_MANUAL", manual))
    BY <1>5 DEF DecideGate
  <2>2. triggers \cup Fired("DEGRADED_TO_MANUAL", manual) # {}
    BY <1>5 DEF Fired
  <2>. QED  BY <1>2, <1>5, <2>1, <2>2 DEF BySystem, Decision
<1>6. CASE ~missing /\ ~manual /\ triggers = {} /\ ~Expired(flags)
  BY <1>1, <1>6 DEF DecideGate, BySystem, Decision
<1>. QED  BY <1>3, <1>4, <1>5, <1>6
===============================================================================
