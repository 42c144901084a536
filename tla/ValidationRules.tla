--------------------------- MODULE ValidationRules ---------------------------
(***************************************************************************)
(* rules/validation.py: package completeness, the cross-checks of the      *)
(* extracted fields against what the applicant declared, and document      *)
(* expiry.  Every check returns the set of flags it raises.                *)
(***************************************************************************)
EXTENDS KycData

MissingDocs(customer, types) == RequiredDocs[customer] \ types

(***************************************************************************)
(* check_extraction_completeness: one warning per required field that is   *)
(* absent, the empty text or the empty list.                               *)
(***************************************************************************)
Blank(field) == IF field = "beneficial_owners" THEN {} ELSE ""

CompletenessFlags(e) ==
    {Flag("EXTRACTION_INCOMPLETE", "warning", e.doc, f) :
        f \in {g \in RequiredFields[e.type] : Got(e, g) \subseteq {Blank(g)}}}

(* check_name, for NAME_MISMATCH and COMPANY_NAME_MISMATCH. *)
NameFlags(e, field, rule) ==
    {Flag(rule, IF Ratio[v] < NameCritical THEN "critical" ELSE "warning", e.doc, field) :
        v \in {w \in Got(e, field) : Ratio[w] < NameWarning}}

(* check_exact: nothing is compared when one of the two sides is absent. *)
ExactFlags(declared, e, field, rule) ==
    {Flag(rule, "critical", e.doc, field) :
        v \in {w \in Got(e, field) : declared # None /\ w # declared}}

AddressFlags(e) ==
    {Flag("ADDRESS_MISMATCH", "warning", e.doc, "address") :
        v \in {w \in Got(e, "address") : Ratio[w] < AddressThreshold}}

(***************************************************************************)
(* check_document_expiry.  The caller parses expiry_date first, so a value *)
(* that is neither empty nor an ISO date raises ValueError instead.        *)
(***************************************************************************)
ExpiredBefore(day) == day < Today

ExpiryFlags(e) ==
    {Flag("DOC_EXPIRED", "critical", e.doc, "expiry_date") :
        v \in {w \in Got(e, "expiry_date") \cap DOMAIN Day : ExpiredBefore(Day[w])}}

ParseFails(extractions) ==
    \E e \in Readable(extractions) :
        /\ e.type = "id_document"
        /\ ~(Got(e, "expiry_date") \subseteq DOMAIN Day \cup {""})

(* The checks run_validation_rules makes of one readable document. *)
TypeFlags(applicant, e) ==
    CASE e.type = "id_document" ->
             NameFlags(e, "full_name", "NAME_MISMATCH")
        \cup ExactFlags(applicant.date_of_birth, e, "date_of_birth", "DOB_MISMATCH")
        \cup ExpiryFlags(e)
      [] e.type = "proof_of_address" -> AddressFlags(e)
      [] e.type = "business_registration" ->
             (IF applicant.company_name \in {None, ""} THEN {}
              ELSE NameFlags(e, "company_name", "COMPANY_NAME_MISMATCH"))
        \cup ExactFlags(applicant.registration_number, e, "registration_number",
                        "REG_NUMBER_MISMATCH")
      [] OTHER -> {}

RunValidationRules(applicant, extractions) ==
    UNION {CompletenessFlags(e) \cup TypeFlags(applicant, e) :
              e \in Readable(extractions)}
=============================================================================
