------------------------------- MODULE KycData -------------------------------
(***************************************************************************)
(* The data of a KYC case: schemas/{documents,case,decisions}.py, the rule *)
(* identifiers of rules/ids.py and the business thresholds of config.py.   *)
(*                                                                         *)
(* Texts are abstract: what the rules read of an extracted text is whether *)
(* it equals the declared one and how similar it is to it (Ratio, in       *)
(* hundredths, the value of fuzzy_ratio).  Dates of expiry are days.       *)
(***************************************************************************)
EXTENDS Integers, FiniteSets

CONSTANTS
    Docs,                \* entries of package.documents
    Source,              \* Source[d]: the last entry with the document_id of d
    Texts,               \* values an extractor may put in a text field
    Ratio,               \* Ratio[v]: similarity of v to the declared value
    Readings,            \* Readings[t]: what extraction of a type-t document returns
    Packages,            \* the submitted packages (applicant and customer type)
    Sanctioned, Peps,    \* names the sanctions and the PEP registry match
    NameCritical, NameWarning, AddressThreshold,    \* MatchThresholds
    ConfidenceThreshold, HighVolume                 \* RiskThresholds

None == "none"

(***************************************************************************)
(* schemas/documents.py and schemas/case.py                                *)
(***************************************************************************)
CustomerType == {"individual", "business"}

KnownTypes ==
    {"id_document", "proof_of_address", "business_registration", "ubo_declaration"}

DocumentType == KnownTypes \cup {"unknown"}

RequiredDocs ==
    [individual |-> {"id_document", "proof_of_address"},
     business   |-> {"business_registration", "ubo_declaration"}]

RequiredFields ==
    [id_document |-> {"full_name", "date_of_birth", "document_number", "expiry_date"},
     proof_of_address      |-> {"full_name", "address"},
     business_registration |-> {"company_name", "registration_number"},
     ubo_declaration       |-> {"company_name", "beneficial_owners"}]

CaseStatus ==
    {"received", "processing", "awaiting_human_review", "completed", "failed"}

(***************************************************************************)
(* An expiry date is a day; a text that is no ISO date has none, and then  *)
(* date.fromisoformat raises.  Today is the day on which the process was   *)
(* started: build_context asks for the date once and never again.          *)
(***************************************************************************)
Day == [yesterday |-> 0, today |-> 1, tomorrow |-> 2]
Today == Day["today"]

(***************************************************************************)
(* What one extraction returned: the fields found and a confidence for     *)
(* each of them, in hundredths.  NoReading is the empty dicts of an        *)
(* ExtractionResult that carries an extraction_error.                      *)
(***************************************************************************)
NoReading == [fields |-> <<>>, confidence |-> <<>>]

AllReadings == (UNION {Readings[t] : t \in KnownTypes}) \cup {NoReading}

ExtractionResult ==
    [doc: Docs, source: Docs, type: KnownTypes, error: BOOLEAN, reading: AllReadings]

(* The value of a field of an extraction, as a set of at most one element. *)
Got(e, field) ==
    {e.reading.fields[f] : f \in DOMAIN e.reading.fields \cap {field}}

Readable(extractions) == {e \in extractions : ~e.error}

(***************************************************************************)
(* rules/ids.py                                                            *)
(***************************************************************************)
Severity == {"warning", "critical"}

ValidationRules ==
    {"DOC_EXPIRED", "NAME_MISMATCH", "DOB_MISMATCH", "ADDRESS_MISMATCH",
     "COMPANY_NAME_MISMATCH", "REG_NUMBER_MISMATCH", "EXTRACTION_INCOMPLETE",
     "EVALUATOR_DISCREPANCY"}

EscalationRules ==
    {"SANCTIONS_HIT", "PEP_MATCH", "UBO_SANCTIONS_OR_PEP", "HIGH_VOLUME",
     "LOW_CONFIDENCE", "CRITICAL_MISMATCH", "REGISTRY_UNAVAILABLE"}

ReasonCodes ==
    EscalationRules \cup {"INCOMPLETE_PACKAGE", "DOCUMENT_EXPIRED",
                          "ALL_CHECKS_PASSED", "DEGRADED_TO_MANUAL"}

CriticalMismatchSources ==
    {"NAME_MISMATCH", "DOB_MISMATCH", "COMPANY_NAME_MISMATCH",
     "REG_NUMBER_MISMATCH", "EVALUATOR_DISCREPANCY"}

(* A RuleFlag; doc and field stand for its details. *)
Flag(rule, severity, doc, field) ==
    [rule |-> rule, severity |-> severity, doc |-> doc, field |-> field]

FlagFields ==
    {"full_name", "date_of_birth", "document_number", "expiry_date", "address",
     "company_name", "registration_number", "beneficial_owners", "grounding"}

RuleFlag ==
    [rule: ValidationRules, severity: Severity, doc: Docs, field: FlagFields]

(***************************************************************************)
(* What is assumed of the constants.  A reading never has an empty field   *)
(* set (both extractors then return an extraction_error) and grades        *)
(* exactly the fields it found.                                            *)
(***************************************************************************)
ASSUME DocsAssumption ==
    /\ IsFiniteSet(Docs) /\ Docs # {}
    /\ {"router", "validator", None} \cap Docs = {}
    /\ Source \in [Docs -> Docs]
    /\ \A d \in Docs : Source[Source[d]] = Source[d]

ASSUME TextsAssumption ==
    /\ None \notin Texts
    /\ Ratio \in [Texts -> 0..100]
    /\ Sanctioned \subseteq Texts
    /\ Peps \subseteq Texts

ASSUME ReadingsAssumption ==
    /\ DOMAIN Readings = KnownTypes
    /\ \A t \in KnownTypes : \A r \in Readings[t] :
          /\ DOMAIN r = {"fields", "confidence"}
          /\ DOMAIN r.fields # {}
          /\ DOMAIN r.confidence = DOMAIN r.fields
          /\ \A f \in DOMAIN r.fields :
                /\ r.confidence[f] \in 0..100
                /\ IF f = "beneficial_owners" THEN r.fields[f] \subseteq Texts
                                              ELSE r.fields[f] \in Texts

ASSUME PackagesAssumption ==
    Packages \subseteq
        [customer: CustomerType, full_name: Texts, date_of_birth: Texts \cup {None},
         company_name: Texts \cup {None}, registration_number: Texts \cup {None},
         volume: Nat]

ASSUME ThresholdsAssumption ==
    /\ NameCritical \in 0..100 /\ NameWarning \in 0..100
    /\ NameCritical <= NameWarning
    /\ AddressThreshold \in 0..100 /\ ConfidenceThreshold \in 0..100
    /\ HighVolume \in [CustomerType -> Nat]
=============================================================================
