--------------------------- MODULE EvalHarness_proofs ---------------------------
(***************************************************************************)
(* Theorems about EvalHarness, for any golden sets that EvalAssumption     *)
(* admits, any thresholds and any lists: the rows, what the evaluator adds *)
(* to a verdict, what brings the harness down, and what exit code 0 means. *)
(***************************************************************************)
EXTENDS EvalHarness, RuleLemmas

(***************************************************************************)
(* The verdict on one case                                                 *)
(***************************************************************************)
GroundingOf(case, evaluator) ==
    IF evaluator THEN Grounding(case.documents, Extractions(case)) ELSE {}

FlagsOf(case, evaluator) ==
    RunValidationRules(case.package, Extractions(case)) \cup GroundingOf(case, evaluator)

TriggersOf(case, evaluator) ==
    Screened(case, FlagsOf(case, evaluator),
        OverallConfidence(Extractions(case), GroundingOf(case, evaluator),
                          FlagsOf(case, evaluator)))

LEMMA VerdictParts ==
  ASSUME NEW case, NEW evaluator
  PROVE  /\ IncompleteCase(case) =>
               Verdict(case, evaluator) = DecideGate(TRUE, {}, {}, DegradedCase(case))
         /\ ~IncompleteCase(case) =>
               Verdict(case, evaluator) = DecideGate(FALSE, FlagsOf(case, evaluator),
                                             TriggersOf(case, evaluator), DegradedCase(case))
BY DEF Verdict, FlagsOf, TriggersOf, GroundingOf

LEMMA TriggersOfType ==
  ASSUME NEW case, NEW evaluator
  PROVE  TriggersOf(case, evaluator) \subseteq EscalationRules
BY TriggersType DEF TriggersOf, Screened

LEMMA CaseBooleans ==
  ASSUME NEW case
  PROVE  IncompleteCase(case) \in BOOLEAN /\ DegradedCase(case) \in BOOLEAN
BY DEF IncompleteCase, DegradedCase

(* The decision matrix on a case, complete or not. *)
LEMMA CaseDecided ==
  ASSUME NEW case, NEW flags, NEW triggers \in SUBSET EscalationRules
  PROVE  /\ DecideGate(TRUE, {}, {}, DegradedCase(case)) \in Decision
         /\ DecideGate(FALSE, flags, triggers, DegradedCase(case)) \in Decision
         /\ triggers # {} =>
               DecideGate(FALSE, flags, triggers, DegradedCase(case)).outcome = "escalate"
<1> DEFINE manual == DegradedCase(case)
<1>1. manual \in BOOLEAN
  BY CaseBooleans
<1>. HIDE DEF manual
<1>2. TRUE \in BOOLEAN /\ FALSE \in BOOLEAN /\ {} \in SUBSET EscalationRules
  OBVIOUS
<1>3. DecideGate(TRUE, {}, {}, manual) \in Decision
  BY <1>1, <1>2, GateMatrix
<1>4. /\ DecideGate(FALSE, flags, triggers, manual) \in Decision
      /\ triggers # {} /\ ~FALSE =>
            DecideGate(FALSE, flags, triggers, manual).outcome = "escalate"
  BY <1>1, <1>2, GateMatrix
<1>. QED  BY <1>3, <1>4 DEF manual

LEMMA VerdictType ==
  ASSUME NEW case, NEW evaluator
  PROVE  Verdict(case, evaluator) \in Decision
<1>1. TriggersOf(case, evaluator) \in SUBSET EscalationRules
  BY TriggersOfType
<1>. QED  BY <1>1, VerdictParts, CaseDecided

(* A discrepancy that the evaluator finds is a trigger. *)
LEMMA DiscrepancyTriggers ==
  ASSUME NEW case, GroundingOf(case, TRUE) # {}
  PROVE  TriggersOf(case, TRUE) # {}
<1>1. PICK f \in GroundingOf(case, TRUE) : TRUE
  OBVIOUS
<1>2. f.rule = "EVALUATOR_DISCREPANCY" /\ f.severity = "critical"
  BY <1>1 DEF GroundingOf, Grounding, Flag
<1>3. f \in CriticalMismatches(FlagsOf(case, TRUE))
  BY <1>1, <1>2 DEF CriticalMismatches, CriticalMismatchSources, FlagsOf
<1>. QED  BY <1>3 DEF TriggersOf, Screened, EvaluateRiskRules, Fired

(* Without a discrepancy the evaluator changes nothing; with one, a        *)
(* complete case is escalated.                                             *)
LEMMA EvaluatorEscalates ==
  ASSUME NEW case
  PROVE  /\ GroundingOf(case, TRUE) = {} => Verdict(case, TRUE) = Verdict(case, FALSE)
         /\ IncompleteCase(case) => /\ Verdict(case, TRUE) = Verdict(case, FALSE)
                                    /\ Verdict(case, TRUE).outcome # "approve"
         /\ ~IncompleteCase(case) /\ GroundingOf(case, TRUE) # {} =>
               Verdict(case, TRUE).outcome = "escalate"
<1>1. GroundingOf(case, FALSE) = {}
  BY DEF GroundingOf
<1>2. GroundingOf(case, TRUE) = {} => Verdict(case, TRUE) = Verdict(case, FALSE)
  BY <1>1, VerdictParts DEF FlagsOf, TriggersOf
<1>3. IncompleteCase(case) => Verdict(case, TRUE) = Verdict(case, FALSE)
  BY VerdictParts
<1>4. IncompleteCase(case) => Verdict(case, TRUE).outcome # "approve"
  <2>1. DecideGate(TRUE, {}, {}, DegradedCase(case)).outcome # "approve"
    BY CaseBooleans DEF DecideGate, BySystem
  <2>. QED  BY <2>1, VerdictParts
<1>5. ~IncompleteCase(case) /\ GroundingOf(case, TRUE) # {} =>
         Verdict(case, TRUE).outcome = "escalate"
  <2>1. TriggersOf(case, TRUE) \in SUBSET EscalationRules
    BY TriggersOfType
  <2>. QED  BY <2>1, VerdictParts, CaseDecided, DiscrepancyTriggers
<1>. QED  BY <1>2, <1>3, <1>4, <1>5

(***************************************************************************)
(* What the offline extractor reports                                      *)
(***************************************************************************)
IsCase(case) == \E golden_set \in GoldenSets : \E i \in DOMAIN golden_set : case = golden_set[i]

LEMMA CaseFacts ==
  ASSUME NEW case, IsCase(case), NEW d \in DOMAIN case.documents
  PROVE  \A f \in DOMAIN case.documents[d].labels \cap {"expiry_date"} :
            \A raw \in {case.documents[d].labels[f]} \cap DOMAIN IsoDate :
               IsoDate[raw] \in DOMAIN Day
BY EvalAssumption DEF IsCase

(* The fields of an extraction, and what each of them says: the marker, if *)
(* there is one, or the text behind the label.                             *)
LEMMA ExtractFacts ==
  ASSUME NEW d, NEW document, NEW type
  PROVE  LET e == Extract(d, document, type)
         IN  /\ e.doc = d /\ e.type = type
             /\ e.error <=> FoundIn(document, type) = {}
             /\ DOMAIN e.reading.fields = FoundIn(document, type)
             /\ \A f \in FoundIn(document, type) \ DOMAIN document.glitch :
                   f # "beneficial_owners" =>
                       e.reading.fields[f] = Reported(f, document.labels[f])
<1> DEFINE found == FoundIn(document, type)
           marked == DOMAIN document.glitch
           value(f) == CASE f = "beneficial_owners" ->
                                IF f \in marked THEN {""} ELSE document.owners
                         [] f # "beneficial_owners" /\ f \in marked -> document.glitch[f]
                         [] OTHER -> Reported(f, document.labels[f])
           e == Extract(d, document, type)
<1>1. e = [doc |-> d, source |-> d, type |-> type, error |-> found = {},
           reading |-> [fields |-> [f \in found |-> value(f)],
                        confidence |-> [f \in found |-> 98]]]
  BY DEF Extract
<1>2. \A f : f # "beneficial_owners" /\ f \notin marked =>
                 value(f) = Reported(f, document.labels[f])
  OBVIOUS
<1>. HIDE DEF found, e, value
<1>3. e.doc = d /\ e.type = type /\ e.reading.fields = [f \in found |-> value(f)]
  BY <1>1
<1>4. e.error <=> found = {}
  BY <1>1, Zenon
<1>. QED  BY <1>2, <1>3, <1>4 DEF found, e

(* A recognised document of a case, and its extraction. *)
LEMMA RecognisedExtraction ==
  ASSUME NEW case, NEW e \in Extractions(case)
  PROVE  \E d \in DOMAIN case.documents : e = Extract(d, case.documents[d], Types(case)[d])
BY DEF Extractions, Recognised

(* A marker whose value is not in the document is a discrepancy, unless    *)
(* the document has a share that is no number: then nothing is extracted   *)
(* from it.                                                                *)
LEMMA MarkerIsFound ==
  ASSUME NEW case, IsCase(case), Hallucinated(case)
  PROVE  \/ GroundingOf(case, TRUE) # {}
         \/ Readable(Extractions(case)) # Extractions(case)
<1>1. PICK d \in Recognised(case) :
         \E f \in DOMAIN case.documents[d].glitch \ DateFields :
            case.documents[d].glitch[f] \notin case.documents[d].body
  BY DEF Hallucinated
<1>2. PICK f \in DOMAIN case.documents[d].glitch \ DateFields :
         case.documents[d].glitch[f] \notin case.documents[d].body
  BY <1>1
<1> DEFINE document == case.documents[d]
           type == Types(case)[d]
           e == Extract(d, document, type)
<1>3. e \in Extractions(case)
  BY DEF Extractions
<1>4. CASE FoundIn(document, type) = {}
  <2>1. e.error
    BY <1>4, ExtractFacts
  <2>. QED  BY <1>3, <2>1 DEF Readable
<1>5. CASE FoundIn(document, type) # {}
  <2>1. f \in FoundIn(document, type)
    BY <1>2, <1>5 DEF FoundIn
  <2>2. e.doc = d /\ ~e.error /\ f \in DOMAIN e.reading.fields
    BY <1>5, <2>1, ExtractFacts
  <2>. HIDE DEF e
  <2>3. f \in Ungrounded(document, e)
    BY <1>2, <2>2 DEF Ungrounded, Claimed, Evidence
  <2>4. e \in {x \in Readable(Extractions(case)) : Ungrounded(case.documents[x.doc], x) # {}}
    BY <1>3, <2>2, <2>3 DEF Readable
  <2>. QED  BY <2>4 DEF GroundingOf, Grounding
<1>. QED  BY <1>4, <1>5

(* So the case is rejected as incomplete or escalated. *)
LEMMA HallucinationStops ==
  ASSUME NEW case, IsCase(case), Hallucinated(case)
  PROVE  Verdict(case, TRUE).outcome # "approve"
<1>1. CASE IncompleteCase(case) \/ GroundingOf(case, TRUE) # {}
  BY <1>1, EvaluatorEscalates
<1>2. CASE ~IncompleteCase(case) /\ Readable(Extractions(case)) # Extractions(case)
  <2>1. DegradedCase(case) = TRUE
    BY <1>2 DEF DegradedCase
  <2>2. DecideGate(FALSE, FlagsOf(case, TRUE), TriggersOf(case, TRUE), TRUE).outcome = "escalate"
    BY TriggersOfType, GateMatrix
  <2>. QED  BY <1>2, <2>1, <2>2, VerdictParts
<1>. QED  BY <1>1, <1>2, MarkerIsFound

(* A date behind a label is dropped or reported as a day; only a marker    *)
(* puts another text into the field of the expiry date.                    *)
LEMMA OnlyMarkersRaise ==
  ASSUME NEW case, IsCase(case), Raises(case)
  PROVE  \E d \in DOMAIN case.documents : "expiry_date" \in DOMAIN case.documents[d].glitch
<1>1. PICK e \in Extractions(case) : ~(Got(e, "expiry_date") \subseteq DOMAIN Day \cup {""})
  BY DEF Raises, ParseFails, Readable
<1>2. /\ "expiry_date" \in DOMAIN e.reading.fields
      /\ e.reading.fields["expiry_date"] \notin DOMAIN Day
  BY <1>1 DEF Got
<1>3. PICK d \in DOMAIN case.documents : e = Extract(d, case.documents[d], Types(case)[d])
  BY RecognisedExtraction
<1> DEFINE document == case.documents[d]
<1>4. SUFFICES ASSUME "expiry_date" \notin DOMAIN document.glitch PROVE FALSE
  OBVIOUS
<1>5. /\ "expiry_date" \in Labelled(document, Types(case)[d])
      /\ e.reading.fields["expiry_date"] = Reported("expiry_date", document.labels["expiry_date"])
  <2>1. "expiry_date" \in FoundIn(document, Types(case)[d])
    BY <1>2, <1>3, ExtractFacts
  <2>2. e.reading.fields["expiry_date"] = Reported("expiry_date", document.labels["expiry_date"])
    BY <1>3, <1>4, <2>1, ExtractFacts
  <2>. QED  BY <1>4, <2>1, <2>2 DEF FoundIn, Listed
<1>6. /\ "expiry_date" \in DOMAIN document.labels
      /\ document.labels["expiry_date"] \in DOMAIN IsoDate
  BY <1>5 DEF Labelled, Usable, DateFields
<1>7. IsoDate[document.labels["expiry_date"]] \in DOMAIN Day
  BY <1>6, CaseFacts
<1>. QED  BY <1>2, <1>5, <1>6, <1>7 DEF Reported, DateFields

(***************************************************************************)
(* The inductive invariant                                                 *)
(***************************************************************************)
Configs == {"full", "ablation"}

(* Row i of a configuration is what the pipeline makes of case i. *)
RowsInv ==
    \A c \in Configs : \A i \in DOMAIN rows[c] : rows[c][i] = Row(golden[i], EvaluatorOn(c))

(* What has been run by the time the harness stops. *)
EndInv ==
    /\ config # "full" /\ ~no_validator => Len(rows["full"]) = Len(golden)
    /\ exit = "0" =>
          /\ config = "done"
          /\ no_validator \/ Summary(rows["full"]).escalation_recall = 10000
    /\ exit = "crashed" =>
          /\ config \in Configs /\ Len(rows[config]) < Len(golden)
          /\ Raises(Current)

HarnessInv == TypeOK /\ RowsInv /\ EndInv

LEMMA GoldenFacts ==
  ASSUME golden \in GoldenSets
  PROVE  /\ Len(golden) \in Nat /\ DOMAIN golden = 1 .. Len(golden)
         /\ \A i \in DOMAIN golden : /\ IsCase(golden[i])
                                     /\ golden[i].expected \in BOOLEAN
                                     /\ golden[i].typical \in BOOLEAN
BY EvalAssumption DEF IsCase

LEMMA HarnessInit == Init => HarnessInv
<1>. SUFFICES ASSUME Init PROVE HarnessInv
  OBVIOUS
<1>1. /\ golden \in GoldenSets /\ no_validator \in AblationOnly /\ exit = "running"
      /\ config \in Configs /\ (~no_validator => config = "full")
      /\ rows = [c \in Configs |-> <<>>]
  BY DEF Init, Configs
<1>2. rows \in [Configs -> Seq(ResultRow)] /\ \A c \in Configs : rows[c] = <<>>
  <2>1. <<>> \in Seq(ResultRow)
    OBVIOUS
  <2>. QED  BY <1>1, <2>1
<1>3. TypeOK
  BY <1>1, <1>2, GoldenFacts DEF TypeOK, Configs
<1>4. RowsInv /\ EndInv
  BY <1>1, <1>2 DEF RowsInv, EndInv
<1>. QED  BY <1>3, <1>4 DEF HarnessInv

LEMMA RowType ==
  ASSUME NEW i \in DOMAIN golden, golden \in GoldenSets, NEW evaluator
  PROVE  LET row == Row(golden[i], evaluator)
         IN  /\ row \in ResultRow
             /\ row.escalated <=> row.outcome = "escalate"
             /\ row.expected = golden[i].expected
<1> DEFINE row == Row(golden[i], evaluator)
           verdict == Verdict(golden[i], evaluator)
<1>1. verdict.outcome \in {"approve", "reject", "escalate"}
  BY VerdictType DEF Decision
<1>2. row = [expected |-> golden[i].expected, typical |-> golden[i].typical,
             outcome |-> verdict.outcome,
             escalated |-> verdict.outcome = "escalate",
             outcome_ok |-> verdict.outcome = golden[i].outcome,
             codes_ok |-> golden[i].codes \subseteq verdict.reason_codes]
  BY DEF Row
<1>. HIDE DEF row, verdict
<1>3. golden[i].expected \in BOOLEAN /\ golden[i].typical \in BOOLEAN
  BY GoldenFacts
<1>4. /\ (verdict.outcome = "escalate") \in BOOLEAN
      /\ (verdict.outcome = golden[i].outcome) \in BOOLEAN
      /\ (golden[i].codes \subseteq verdict.reason_codes) \in BOOLEAN
  OBVIOUS
<1>5. row \in ResultRow
  BY <1>1, <1>2, <1>3, <1>4, Zenon DEF ResultRow
<1>6. /\ row.escalated = (verdict.outcome = "escalate") /\ row.outcome = verdict.outcome
      /\ row.expected = golden[i].expected
  BY <1>2, Zenon
<1>. QED  BY <1>5, <1>6 DEF row

LEMMA RunCaseStep ==
  ASSUME HarnessInv, RunCase
  PROVE  HarnessInv'
<1> DEFINE n == Len(rows[config]) + 1
           row == Row(golden[n], EvaluatorOn(config))
<1>1. /\ exit = "running" /\ config \in Configs /\ Len(rows[config]) < Len(golden)
      /\ rows' = [rows EXCEPT ![config] = Append(@, row)]
      /\ UNCHANGED <<golden, no_validator, config, exit>>
      /\ golden \in GoldenSets /\ rows \in [Configs -> Seq(ResultRow)]
  BY DEF RunCase, Running, Current, HarnessInv, TypeOK, Configs
<1>2. n \in DOMAIN golden
  BY <1>1, GoldenFacts
<1>3. row \in ResultRow /\ (row.escalated <=> row.outcome = "escalate")
  BY <1>1, <1>2, RowType
<1>. HIDE DEF row
<1>4. /\ rows' \in [Configs -> Seq(ResultRow)]
      /\ rows'[config] = Append(rows[config], row)
      /\ \A c \in Configs \ {config} : rows'[c] = rows[c]
  BY <1>1, <1>3
<1>5. /\ Len(rows'[config]) = n /\ DOMAIN rows'[config] = DOMAIN rows[config] \cup {n}
      /\ rows'[config][n] = row /\ \A i \in DOMAIN rows[config] : rows'[config][i] = rows[config][i]
  BY <1>1, <1>3, <1>4
<1>6. n <= Len(golden)
  BY <1>1, <1>2, GoldenFacts
<1>7. TypeOK'
  <2>1. \A c \in Configs : Len(rows'[c]) <= Len(golden)
    BY <1>4, <1>5, <1>6 DEF HarnessInv, TypeOK, Configs
  <2>2. \A c \in Configs : \A i \in DOMAIN rows'[c] :
           rows'[c][i].escalated <=> rows'[c][i].outcome = "escalate"
    <3>1. \A i \in DOMAIN rows'[config] :
             rows'[config][i].escalated <=> rows'[config][i].outcome = "escalate"
      BY <1>1, <1>3, <1>5 DEF HarnessInv, TypeOK, Configs
    <3>2. \A c \in Configs : \A i \in DOMAIN rows[c] :
             rows[c][i].escalated <=> rows[c][i].outcome = "escalate"
      BY DEF HarnessInv, TypeOK, Configs
    <3>3. \A c \in Configs \ {config} : \A i \in DOMAIN rows'[c] :
             rows'[c][i].escalated <=> rows'[c][i].outcome = "escalate"
      BY <1>4, <3>2
    <3>. QED  BY <3>1, <3>3
  <2>. QED  BY <1>1, <1>4, <2>1, <2>2 DEF HarnessInv, TypeOK, Configs
<1>8. RowsInv'
  <2>1. \A i \in DOMAIN rows'[config] : rows'[config][i] = Row(golden[i], EvaluatorOn(config))
    BY <1>1, <1>5 DEF HarnessInv, RowsInv, row
  <2>2. \A c \in Configs \ {config} : \A i \in DOMAIN rows'[c] :
           rows'[c][i] = Row(golden[i], EvaluatorOn(c))
    BY <1>4 DEF HarnessInv, RowsInv
  <2>3. golden' = golden
    BY <1>1
  <2>. QED  BY <2>1, <2>2, <2>3 DEF RowsInv
<1>9. EndInv'
  <2>1. config # "full" => rows'["full"] = rows["full"]
    BY <1>1, <1>4 DEF Configs
  <2>. QED  BY <1>1, <2>1 DEF HarnessInv, EndInv
<1>. QED  BY <1>7, <1>8, <1>9 DEF HarnessInv

LEMMA HarnessStep == HarnessInv /\ [Next]_vars => HarnessInv'
<1>. SUFFICES ASSUME HarnessInv, [Next]_vars PROVE HarnessInv'
  OBVIOUS
<1>1. CASE RunCase
  BY <1>1, RunCaseStep
<1>2. CASE CaseRaises
  <2>1. /\ config \in Configs /\ Len(rows[config]) < Len(golden) /\ Raises(Current)
        /\ exit' = "crashed" /\ UNCHANGED <<golden, no_validator, config, rows>>
    BY <1>2 DEF CaseRaises, Running, HarnessInv, TypeOK, Configs
  <2>2. Current' = Current
    BY <2>1 DEF Current
  <2>3. TypeOK' /\ RowsInv'
    BY <2>1 DEF HarnessInv, TypeOK, RowsInv
  <2>4. EndInv'
    BY <2>1, <2>2 DEF HarnessInv, EndInv
  <2>. QED  BY <2>3, <2>4 DEF HarnessInv
<1>3. CASE ConfigEnds
  <2>1. /\ exit = "running" /\ Len(rows[config]) = Len(golden)
        /\ config' = IF config = "full" THEN "ablation" ELSE "done"
        /\ UNCHANGED <<golden, no_validator, rows, exit>>
    BY <1>3 DEF ConfigEnds, Running
  <2>2. TypeOK' /\ RowsInv'
    BY <2>1 DEF HarnessInv, TypeOK, RowsInv
  <2>3. EndInv'
    BY <2>1 DEF HarnessInv, EndInv
  <2>. QED  BY <2>2, <2>3 DEF HarnessInv
<1>4. CASE Exit
  <2>1. /\ config = "done" /\ UNCHANGED <<golden, no_validator, config, rows>>
        /\ exit' \in {"0", "1"}
        /\ exit' = "0" => no_validator \/ Summary(rows["full"]).escalation_recall = 10000
    BY <1>4 DEF Exit
  <2>2. TypeOK' /\ RowsInv'
    BY <2>1 DEF HarnessInv, TypeOK, RowsInv
  <2>3. EndInv'
    BY <2>1 DEF HarnessInv, EndInv, Summary
  <2>. QED  BY <2>2, <2>3 DEF HarnessInv
<1>5. CASE Stopped \/ UNCHANGED vars
  <2>1. UNCHANGED <<golden, no_validator, config, rows, exit>>
    BY <1>5 DEF Stopped, vars
  <2>2. Current' = Current
    BY <2>1 DEF Current
  <2>3. TypeOK' /\ RowsInv'
    BY <2>1 DEF HarnessInv, TypeOK, RowsInv
  <2>4. EndInv'
    BY <2>1, <2>2 DEF HarnessInv, EndInv
  <2>. QED  BY <2>3, <2>4 DEF HarnessInv
<1>. QED  BY <1>1, <1>2, <1>3, <1>4, <1>5 DEF Next

LEMMA AlwaysHarnessInv == Spec => []HarnessInv
BY HarnessInit, HarnessStep, PTL DEF Spec

(***************************************************************************)
(* The properties                                                          *)
(***************************************************************************)
(* A row calls a case escalated when the graph stopped to ask a human.     *)
THEOREM HarnessTypeCorrect == Spec => []TypeOK
<1>1. HarnessInv => TypeOK
  BY DEF HarnessInv
<1>. QED  BY <1>1, AlwaysHarnessInv, PTL

(* What the rows of the two configurations are, case by case. *)
LEMMA RowOf ==
  ASSUME HarnessInv, NEW c \in Configs, NEW i \in DOMAIN rows[c]
  PROVE  /\ i \in DOMAIN golden /\ IsCase(golden[i])
         /\ rows[c][i].outcome = Verdict(golden[i], EvaluatorOn(c)).outcome
         /\ rows[c][i].escalated <=> rows[c][i].outcome = "escalate"
         /\ rows[c][i].expected = golden[i].expected
<1>1. /\ golden \in GoldenSets /\ rows[c] \in Seq(ResultRow) /\ Len(rows[c]) <= Len(golden)
      /\ rows[c][i].escalated <=> rows[c][i].outcome = "escalate"
  BY DEF HarnessInv, TypeOK, Configs
<1>2. i \in DOMAIN golden
  BY <1>1, GoldenFacts
<1>3. rows[c][i] = Row(golden[i], EvaluatorOn(c))
  BY DEF HarnessInv, RowsInv
<1>. QED  BY <1>1, <1>2, <1>3, GoldenFacts DEF Row

LEMMA Evaluators == EvaluatorOn("full") = TRUE /\ EvaluatorOn("ablation") = FALSE
BY DEF EvaluatorOn

(* Without the evaluator no case is escalated that is not escalated with   *)
(* it, for any documents and thresholds.                                   *)
THEOREM AblationOnlyLosesHolds == Spec => []AblationOnlyLoses
<1>1. HarnessInv => AblationOnlyLoses
  <2>1. SUFFICES ASSUME HarnessInv, NEW i \in DOMAIN rows["full"] \cap DOMAIN rows["ablation"],
                        rows["ablation"][i].escalated
                 PROVE  rows["full"][i].escalated
    BY DEF AblationOnlyLoses
  <2>2. Verdict(golden[i], FALSE).outcome = "escalate"
    BY <2>1, RowOf, Evaluators DEF Configs
  <2>3. Verdict(golden[i], TRUE).outcome = "escalate"
    BY <2>2, EvaluatorEscalates
  <2>. QED  BY <2>1, <2>3, RowOf, Evaluators DEF Configs
<1>. QED  BY <1>1, AlwaysHarnessInv, PTL

(* A case with a marker on any field but the four dates, the owners        *)
(* included, whose value is not in the document is not approved by the     *)
(* full pipeline.                                                          *)
THEOREM HallucinationNotApprovedHolds == Spec => []HallucinationNotApproved
<1>1. HarnessInv => HallucinationNotApproved
  <2>1. SUFFICES ASSUME HarnessInv, NEW i \in DOMAIN rows["full"], Hallucinated(golden[i])
                 PROVE  rows["full"][i].outcome # "approve"
    BY DEF HallucinationNotApproved
  <2>2. IsCase(golden[i]) /\ rows["full"][i].outcome = Verdict(golden[i], TRUE).outcome
    BY <2>1, RowOf, Evaluators DEF Configs
  <2>3. Verdict(golden[i], TRUE).outcome # "approve"
    BY <2>1, <2>2, HallucinationStops
  <2>. QED  BY <2>2, <2>3
<1>. QED  BY <1>1, AlwaysHarnessInv, PTL

(* Only a marker of an expiry date brings the harness down. *)
THEOREM CrashNeedsMarkerHolds == Spec => []CrashNeedsMarker
<1>1. HarnessInv => CrashNeedsMarker
  <2>1. SUFFICES ASSUME HarnessInv, exit = "crashed"
                 PROVE  \E d \in DOMAIN Current.documents :
                           "expiry_date" \in DOMAIN Current.documents[d].glitch
    BY DEF CrashNeedsMarker
  <2>2. /\ config \in Configs /\ Len(rows[config]) < Len(golden) /\ Raises(Current)
        /\ golden \in GoldenSets /\ rows[config] \in Seq(ResultRow)
    BY <2>1 DEF HarnessInv, EndInv, TypeOK, Configs
  <2>3. IsCase(Current)
    <3>1. Len(rows[config]) + 1 \in DOMAIN golden
      BY <2>2, GoldenFacts
    <3>. QED  BY <2>2, <3>1, GoldenFacts DEF Current
  <2>. QED  BY <2>2, <2>3, OnlyMarkersRaise
<1>. QED  BY <1>1, AlwaysHarnessInv, PTL

(***************************************************************************)
(* The recall                                                              *)
(***************************************************************************)
(* For fewer than twenty thousand cases a share rounds up to the whole     *)
(* only if nothing is missing.                                             *)
LEMMA RoundedWhole ==
  ASSUME NEW a \in Nat, NEW b \in Nat, 0 < b, a <= b, b < 20000, Rounded(a, b) = 10000
  PROVE  a = b
<1> DEFINE x == 20000 * a + b
           y == 2 * b
<1>1. x \in Nat /\ y \in Nat /\ y > 0 /\ x \div y = 10000
  BY DEF Rounded
<1>. HIDE DEF x, y
<1>2. y * (x \div y) <= x
  BY <1>1
<1>3. y * 10000 <= x
  BY <1>1, <1>2
<1>. QED  BY <1>3 DEF x, y

LEMMA WholeShare ==
  ASSUME NEW part, NEW whole, IsFiniteSet(whole), Cardinality(whole) < 20000,
         Share(part, whole) = 10000
  PROVE  whole \subseteq part
<1>1. whole # {} /\ Rounded(Cardinality(part \cap whole), Cardinality(whole)) = 10000
  BY DEF Share
<1>2. /\ Cardinality(whole) \in Nat /\ Cardinality(whole) # 0
      /\ part \cap whole \in SUBSET whole
  BY <1>1, FS_CardinalityType, FS_EmptySet
<1>3. /\ IsFiniteSet(part \cap whole) /\ Cardinality(part \cap whole) <= Cardinality(whole)
      /\ Cardinality(whole) = Cardinality(part \cap whole) => whole = part \cap whole
  BY <1>2, FS_Subset
<1>4. Cardinality(part \cap whole) \in Nat
  BY <1>3, FS_CardinalityType
<1>5. Cardinality(part \cap whole) = Cardinality(whole)
  BY <1>1, <1>2, <1>3, <1>4, RoundedWhole
<1>. QED  BY <1>3, <1>5

LEMMA FirstNumbers ==
  ASSUME NEW n \in Nat
  PROVE  IsFiniteSet(1 .. n) /\ Cardinality(1 .. n) = n
<1>1. IsFiniteSet(1 .. n) /\ Cardinality(1 .. n) = IF 1 > n THEN 0 ELSE n - 1 + 1
  BY FS_Interval
<1>. QED  BY <1>1

(* Exit code 0 of a run of the full pipeline means that every case         *)
(* expected to be escalated was, in a golden set of fewer than twenty      *)
(* thousand cases.                                                         *)
THEOREM ExitZeroMeansNoMissHolds == Spec => []ExitZeroMeansNoMiss
<1>1. HarnessInv => ExitZeroMeansNoMiss
  <2>1. SUFFICES ASSUME HarnessInv, exit = "0", ~no_validator, Len(golden) < 20000,
                        NEW i \in DOMAIN golden, golden[i].expected
                 PROVE  rows["full"][i].escalated
    BY DEF ExitZeroMeansNoMiss
  <2> DEFINE r == rows["full"]
  <2>2. /\ Recall(r) = 10000 /\ Len(r) = Len(golden) /\ r \in Seq(ResultRow)
        /\ golden \in GoldenSets
    BY <2>1 DEF HarnessInv, EndInv, TypeOK, Summary, Configs
  <2>3. DOMAIN r = 1 .. Len(golden) /\ DOMAIN golden = DOMAIN r /\ Len(golden) \in Nat
    BY <2>2, GoldenFacts
  <2>4. IsFiniteSet(Should(r)) /\ Cardinality(Should(r)) < 20000
    <3>1. IsFiniteSet(DOMAIN r) /\ Cardinality(DOMAIN r) = Len(golden)
      BY <2>3, FirstNumbers
    <3>2. Should(r) \in SUBSET DOMAIN r
      BY DEF Should
    <3>3. IsFiniteSet(Should(r)) /\ Cardinality(Should(r)) <= Len(golden)
      BY <3>1, <3>2, FS_Subset
    <3>. QED  BY <2>1, <2>3, <3>3, FS_CardinalityType
  <2>5. Should(r) \subseteq Did(r)
    BY <2>2, <2>4, WholeShare DEF Recall
  <2>6. i \in Should(r)
    BY <2>1, <2>3, RowOf DEF Should, Configs
  <2>. QED  BY <2>5, <2>6 DEF Did
<1>. QED  BY <1>1, AlwaysHarnessInv, PTL
===============================================================================
