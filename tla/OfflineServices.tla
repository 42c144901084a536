---------------------------- MODULE OfflineServices ----------------------------
(***************************************************************************)
(* The deterministic services of llm/fake.py: what the router, the         *)
(* extractor and the evaluator answer when no model is asked, and of       *)
(* tools/registries.py: whom the registries find.                          *)
(*                                                                         *)
(* A document is what these services look for in its text: the keywords of *)
(* the types, the value behind the label of a field, the owners listed,    *)
(* whether one of their shares is digits and points but no number, and the *)
(* markers [OCR-GLITCH:<field>=<value>].  Its body is all the text outside *)
(* the markers, as the set of the values that occur in it.                 *)
(***************************************************************************)
EXTENDS ValidationRules, RiskRules, Sequences

CONSTANT IsoDate    \* IsoDate[v]: the ISO form of a text that is a date

(* "other" stands for the fields that are extracted and that no rule       *)
(* reads, those that are no dates.                                         *)
ExtractedFields ==
    [id_document           |-> {"full_name", "date_of_birth", "document_number",
                                "expiry_date", "other"},
     proof_of_address      |-> {"full_name", "address", "issue_date", "other"},
     business_registration |-> {"company_name", "registration_number",
                                "registration_date", "other"},
     ubo_declaration       |-> {"company_name"}]

DateFields == {"date_of_birth", "expiry_date", "issue_date", "registration_date"}

(* FakeRouter: the first type one of whose keywords occurs. *)
KeywordOrder ==
    <<"ubo_declaration", "business_registration", "id_document", "proof_of_address">>

Classify(document) ==
    IF document.keywords = {} THEN "unknown"
    ELSE KeywordOrder[Min({i \in DOMAIN KeywordOrder : KeywordOrder[i] \in document.keywords})]

(* _parse_date: what is no date is not reported at all. *)
(* Mutant: it is reported as it stands. *)
UsableText(field, raw) == TRUE
Usable(field, raw) == field \in DateFields => raw \in DOMAIN IsoDate

Reported(field, raw) ==
    IF field \in DateFields /\ raw \in DOMAIN IsoDate THEN IsoDate[raw] ELSE raw

(* FakeExtractor: what a marker says of a field replaces what was found; a *)
(* text in the place of the list of owners names nobody.  A share that is  *)
(* no number raises at every attempt, so extract_document comes back with  *)
(* its error and without fields.                                           *)
Labelled(document, type) ==
    {f \in ExtractedFields[type] \cap DOMAIN document.labels : Usable(f, document.labels[f])}

Listed(document, type) ==
    {f \in {"beneficial_owners"} : type = "ubo_declaration" /\ document.owners # {}}

FoundIn(document, type) ==
    IF type = "ubo_declaration" /\ document.bad_share THEN {}
    ELSE Labelled(document, type) \cup Listed(document, type) \cup DOMAIN document.glitch

Extract(d, document, type) ==
    LET found == FoundIn(document, type)
        marked == DOMAIN document.glitch
        value(f) == CASE f = "beneficial_owners" -> IF f \in marked THEN {""} ELSE document.owners
                      [] f # "beneficial_owners" /\ f \in marked -> document.glitch[f]
                      [] OTHER -> Reported(f, document.labels[f])
    IN  [doc |-> d, source |-> d, type |-> type, error |-> found = {},
         reading |-> [fields |-> [f \in found |-> value(f)],
                      confidence |-> [f \in found |-> 98]]]

(* FakeEvaluator: a text that occurs in the body is grounded; dates are    *)
(* not checked.                                                            *)
(* Mutant: the markers count as evidence. *)
BodyAndMarkers(document) ==
    document.body \cup {document.glitch[f] : f \in DOMAIN document.glitch}
Evidence(document) == document.body

Claimed(document, e, f) ==
    IF f \in DOMAIN document.glitch THEN {document.glitch[f]}
    ELSE IF f = "beneficial_owners" THEN e.reading.fields[f] ELSE {e.reading.fields[f]}

Ungrounded(document, e) ==
    {f \in DOMAIN e.reading.fields \ DateFields :
        ~(Claimed(document, e, f) \subseteq Evidence(document))}

Grounding(documents, extractions) ==
    {Flag("EVALUATOR_DISCREPANCY", "critical", e.doc, "grounding") :
        e \in {x \in Readable(extractions) : Ungrounded(documents[x.doc], x) # {}}}

(* MockRegistryClient.search, which never fails without a failure_rate. *)
Search(names, entries) == names \cap entries
===============================================================================
