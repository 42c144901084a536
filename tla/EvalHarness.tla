------------------------------ MODULE EvalHarness ------------------------------
(***************************************************************************)
(* eval/run_eval.py: the golden set is run case by case through the graph  *)
(* with the offline services, with the evaluator and then without it, and  *)
(* the exit code says whether an escalation was missed.                    *)
(*                                                                         *)
(* The offline services and registries neither fail nor are random, so     *)
(* what the graph makes of a case is an operator here.                     *)
(***************************************************************************)
EXTENDS OfflineServices

CONSTANTS
    GoldenSets,     \* sequences of cases: a package, its documents, and what
                    \* is expected of it
    AblationOnly    \* values of the option --no-validator

ASSUME EvalAssumption ==
    /\ AblationOnly \subseteq BOOLEAN
    /\ \A golden \in GoldenSets :
          Len(golden) \in Nat /\ DOMAIN golden = 1 .. Len(golden)
    /\ \A golden \in GoldenSets : \A i \in DOMAIN golden :
          /\ golden[i].expected \in BOOLEAN /\ golden[i].typical \in BOOLEAN
          /\ golden[i].outcome \in {"approve", "reject", "escalate"}
          /\ golden[i].codes \subseteq ReasonCodes
          /\ golden[i].package \in Packages
          /\ DOMAIN golden[i].documents \subseteq Docs
          /\ \A d \in DOMAIN golden[i].documents :
                LET document == golden[i].documents[d]
                IN  /\ document.keywords \subseteq KnownTypes
                    /\ document.bad_share \in BOOLEAN
                    /\ document.owners \subseteq document.body
                    /\ \A f \in DOMAIN document.labels : document.labels[f] \in document.body
                    /\ \A f \in DOMAIN document.labels \cap {"expiry_date"} :
                          \A raw \in {document.labels[f]} \cap DOMAIN IsoDate :
                              IsoDate[raw] \in DOMAIN Day

(***************************************************************************)
(* The pipeline on one case (CasePipeline when no service fails).          *)
(***************************************************************************)
Types(case) == [d \in DOMAIN case.documents |-> Classify(case.documents[d])]
Recognised(case) == {d \in DOMAIN case.documents : Types(case)[d] # "unknown"}

IncompleteCase(case) ==
    MissingDocs(case.package.customer, {Types(case)[d] : d \in Recognised(case)}) # {}

Extractions(case) ==
    {Extract(d, case.documents[d], Types(case)[d]) : d \in Recognised(case)}

DegradedCase(case) ==
    \/ Recognised(case) # DOMAIN case.documents
    \/ ~IncompleteCase(case) /\ Readable(Extractions(case)) # Extractions(case)

Raises(case) == ~IncompleteCase(case) /\ ParseFails(Extractions(case))

Screened(case, flags, confidence) ==
    LET extractions == Extractions(case)
        persons == PersonNames(case.package, extractions)
        owners  == OwnerNames(extractions)
    IN  EvaluateRiskRules(case.package, confidence, flags,
            Search(persons \cup CompanyNames(case.package, extractions), Sanctioned),
            Search(persons, Peps), Search(owners, Sanctioned) \cup Search(owners, Peps), {})

Verdict(case, evaluator) ==
    IF IncompleteCase(case) THEN DecideGate(TRUE, {}, {}, DegradedCase(case))
    ELSE LET extractions == Extractions(case)
             grounding == IF evaluator THEN Grounding(case.documents, extractions) ELSE {}
             flags == RunValidationRules(case.package, extractions) \cup grounding
             triggers == Screened(case, flags, OverallConfidence(extractions, grounding, flags))
         IN  DecideGate(FALSE, flags, triggers, DegradedCase(case))

(***************************************************************************)
(* The harness.                                                            *)
(***************************************************************************)
VARIABLES
    golden,         \* the golden set
    no_validator,   \* the option
    config,         \* the configuration that runs: "full", "ablation" or "done"
    rows,           \* rows[c]: the results of configuration c so far
    exit            \* the exit code, "running" or "crashed"

vars == <<golden, no_validator, config, rows, exit>>

Init ==
    /\ golden \in GoldenSets /\ no_validator \in AblationOnly
    /\ config = IF no_validator THEN "ablation" ELSE "full"
    /\ rows = [c \in {"full", "ablation"} |-> <<>>]
    /\ exit = "running"

(* Mutant: the option is read the wrong way round. *)
EvaluatorOff(c) == c = "ablation"
EvaluatorOn(c) == c = "full"

(* Mutant: a trigger counts as an escalation. *)
RowByCodes(case, evaluator) ==
    LET verdict == Verdict(case, evaluator)
    IN  [expected |-> case.expected, typical |-> case.typical, outcome |-> verdict.outcome,
         escalated |-> verdict.reason_codes \cap EscalationRules # {},
         outcome_ok |-> verdict.outcome = case.outcome,
         codes_ok |-> case.codes \subseteq verdict.reason_codes]
Row(case, evaluator) ==
    LET verdict == Verdict(case, evaluator)
    IN  [expected |-> case.expected, typical |-> case.typical, outcome |-> verdict.outcome,
         escalated |-> verdict.outcome = "escalate",
         outcome_ok |-> verdict.outcome = case.outcome,
         codes_ok |-> case.codes \subseteq verdict.reason_codes]

Running == exit = "running" /\ config # "done"
Current == golden[Len(rows[config]) + 1]

RunCase ==
    /\ Running /\ Len(rows[config]) < Len(golden)
    /\ ~Raises(Current)
    /\ rows' = [rows EXCEPT ![config] = Append(@, Row(Current, EvaluatorOn(config)))]
    /\ UNCHANGED <<golden, no_validator, config, exit>>

(* The exception of the graph goes through the harness. *)
CaseRaises ==
    /\ Running /\ Len(rows[config]) < Len(golden)
    /\ Raises(Current)
    /\ exit' = "crashed"
    /\ UNCHANGED <<golden, no_validator, config, rows>>

ConfigEnds ==
    /\ Running /\ Len(rows[config]) = Len(golden)
    /\ config' = IF config = "full" THEN "ablation" ELSE "done"
    /\ UNCHANGED <<golden, no_validator, rows, exit>>

(***************************************************************************)
(* summarize, with the shares in ten-thousandths; a share of nothing is    *)
(* None, here -1.                                                          *)
(***************************************************************************)
Rounded(a, b) == (20000 * a + b) \div (2 * b)

Share(part, whole) ==
    IF whole = {} THEN -1 ELSE Rounded(Cardinality(part \cap whole), Cardinality(whole))

Should(r) == {i \in DOMAIN r : r[i].expected}
Did(r) == {i \in DOMAIN r : r[i].escalated}

(* Mutant of Recall: the two sets are swapped. *)
Precision(r) == Share(Should(r), Did(r))
Recall(r) == Share(Did(r), Should(r))

Summary(r) ==
    LET typical == {i \in DOMAIN r : r[i].typical}
    IN  [auto_rate_typical     |-> Share(typical \ Did(r), typical),
         escalation_recall     |-> Recall(r),
         escalation_precision  |-> Precision(r),
         decision_accuracy     |-> Share({i \in DOMAIN r : r[i].outcome_ok}, DOMAIN r),
         reason_codes_accuracy |-> Share({i \in DOMAIN r : r[i].codes_ok}, DOMAIN r),
         false_auto_approvals  |->
             Cardinality({i \in Should(r) \ Did(r) : r[i].outcome = "approve"})]

Exit ==
    /\ exit = "running" /\ config = "done"
    /\ exit' = IF no_validator \/ Summary(rows["full"]).escalation_recall = 10000
               THEN "0" ELSE "1"
    /\ UNCHANGED <<golden, no_validator, config, rows>>

Stopped == exit # "running" /\ UNCHANGED vars

Next == RunCase \/ CaseRaises \/ ConfigEnds \/ Exit \/ Stopped

Spec == Init /\ [][Next]_vars

-------------------------------------------------------------------------------
(***************************************************************************)
(* Properties                                                              *)
(***************************************************************************)
ResultRow ==
    [expected: BOOLEAN, typical: BOOLEAN, outcome: {"approve", "reject", "escalate"},
     escalated: BOOLEAN, outcome_ok: BOOLEAN, codes_ok: BOOLEAN]

(* Every variable keeps its type, and a row calls a case escalated when    *)
(* the graph stopped to ask a human.                                       *)
TypeOK ==
    /\ golden \in GoldenSets /\ no_validator \in AblationOnly
    /\ config \in {"full", "ablation", "done"}
    /\ rows \in [{"full", "ablation"} -> Seq(ResultRow)]
    /\ exit \in {"running", "crashed", "0", "1"}
    /\ \A c \in {"full", "ablation"} :
          /\ Len(rows[c]) <= Len(golden)
          /\ \A i \in DOMAIN rows[c] : rows[c][i].escalated <=> rows[c][i].outcome = "escalate"

(* The hard invariant of the harness (src/README.md, "exits non-zero if    *)
(* escalation_recall of the full pipeline is ever below 1.0"): exit code 0 *)
(* means that every case expected to be escalated was.  The recall is      *)
(* rounded to four digits before it is compared, so this is for fewer than *)
(* twenty thousand cases.                                                  *)
ExitZeroMeansNoMiss ==
    exit = "0" /\ ~no_validator /\ Len(golden) < 20000 =>
        \A i \in DOMAIN golden : golden[i].expected => rows["full"][i].escalated

(* What the ablation measures is what the evaluator adds: without it no    *)
(* case is escalated that is not escalated with it.                        *)
AblationOnlyLoses ==
    \A i \in DOMAIN rows["full"] \cap DOMAIN rows["ablation"] :
        rows["ablation"][i].escalated => rows["full"][i].escalated

(* A hallucinated text never passes the full pipeline: a case with a       *)
(* marker on any field but the four dates that the evaluator leaves out,   *)
(* whose value is not in the document itself, is not approved.             *)
Hallucinated(case) ==
    \E d \in Recognised(case) :
        LET document == case.documents[d]
        IN  \E f \in DOMAIN document.glitch \ DateFields : document.glitch[f] \notin document.body

HallucinationNotApproved ==
    \A i \in DOMAIN rows["full"] : Hallucinated(golden[i]) => rows["full"][i].outcome # "approve"

(* The offline extractor drops what is no date, so the validator never     *)
(* raises on what it found itself: only a marker may bring the harness     *)
(* down.                                                                   *)
CrashNeedsMarker ==
    exit = "crashed" =>
        \E d \in DOMAIN Current.documents : "expiry_date" \in DOMAIN Current.documents[d].glitch
===============================================================================
