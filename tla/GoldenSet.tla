------------------------------- MODULE GoldenSet -------------------------------
(***************************************************************************)
(* The golden set of eval/generate_golden_set.py: seventeen packages, what *)
(* is expected of each, and what the harness has recorded of them in       *)
(* eval/results.json.  Running the model on it compares the model with the *)
(* program, not only with itself.                                          *)
(*                                                                         *)
(* Every applicant is born on the day his document says and every document *)
(* has a number, so one text stands for all of them; so do two addresses,  *)
(* the declared one and another.  The expected values of single fields are *)
(* left out.  A case is expected to be escalated exactly if the expected   *)
(* outcome is "escalate".                                                  *)
(***************************************************************************)
EXTENDS EvalHarness

Paper(keyword, labels, owners) ==
    [keywords |-> {keyword}, labels |-> labels, owners |-> owners, bad_share |-> FALSE,
     glitch |-> <<>>, body |-> owners \cup {labels[f] : f \in DOMAIN labels}]

IdCard(name, expiry) ==
    Paper("id_document",
          [full_name |-> name, date_of_birth |-> "01.01.1980", document_number |-> "number",
           expiry_date |-> expiry, other |-> "nationality"], {})

(* An invoice and a bank statement differ in their wording only. *)
Bill(name, address) ==
    Paper("proof_of_address",
          [full_name |-> name, address |-> address, issue_date |-> "01.05.2026",
           other |-> "issuer"], {})

RegistrationCert(company, number) ==
    Paper("business_registration",
          [company_name |-> company, registration_number |-> number,
           registration_date |-> "01.02.2019", other |-> "legal form"], {})

UboDeclaration(company, owners) ==
    Paper("ubo_declaration", [company_name |-> company], owners)

Garbage ==
    [keywords |-> {}, labels |-> <<>>, owners |-> {}, bad_share |-> FALSE,
     glitch |-> <<>>, body |-> {}]

Individual(name, volume) ==
    [customer |-> "individual", full_name |-> name, date_of_birth |-> "1980-01-01",
     company_name |-> None, registration_number |-> None, volume |-> volume]

Business(name, company, number, volume) ==
    [customer |-> "business", full_name |-> name, date_of_birth |-> None,
     company_name |-> company, registration_number |-> number, volume |-> volume]

Case(typical, package, documents, outcome, codes) ==
    [typical |-> typical, package |-> package, documents |-> documents,
     outcome |-> outcome, expected |-> outcome = "escalate", codes |-> codes]

Home == "declared address"
Valid == "01.05.2030"

IdAndBill(id, bill) == [d \in {"doc-id", "doc-poa"} |-> IF d = "doc-id" THEN id ELSE bill]
CertAndUbo(cert, ubo) == [d \in {"doc-reg", "doc-ubo"} |-> IF d = "doc-reg" THEN cert ELSE ubo]

CleanCase(name, volume) ==
    Case(TRUE, Individual(name, volume), IdAndBill(IdCard(name, Valid), Bill(name, Home)),
         "approve", {"ALL_CHECKS_PASSED"})

EscalatedCase(typical, name, volume, id, code) ==
    Case(typical, Individual(name, volume), IdAndBill(id, Bill(name, Home)), "escalate", {code})

CleanIndividuals ==
    <<CleanCase("Anna Virtanen", 2500), CleanCase("Mikael Korhonen", 4200),
      CleanCase("Sofia Lehtinen", 1800), CleanCase("Ville Niemi", 3100),
      CleanCase("Laura Makela", 2200)>>

SystemDecides ==
    <<(* address-mismatch-warning *)
      Case(TRUE, Individual("Noora Hakala", 2000),
           IdAndBill(IdCard("Noora Hakala", Valid), Bill("Noora Hakala", "another address")),
           "approve", {"ALL_CHECKS_PASSED"}),
      (* expired-document *)
      Case(TRUE, Individual("Jukka Salminen", 2600),
           IdAndBill(IdCard("Jukka Salminen", "01.05.2024"), Bill("Jukka Salminen", Home)),
           "reject", {"DOCUMENT_EXPIRED"}),
      (* incomplete-package *)
      Case(TRUE, Individual("Emil Nyberg", 1500),
           [d \in {"doc-id"} |-> IdCard("Emil Nyberg", Valid)],
           "reject", {"INCOMPLETE_PACKAGE"})>>

HumanDecides ==
    <<(* name-mismatch-critical, sanctions-hit, pep-match, high-volume *)
      EscalatedCase(TRUE, "Elena Sokolova", 3000, IdCard("Boris Petrov", Valid),
                    "CRITICAL_MISMATCH"),
      EscalatedCase(TRUE, "Viktor Salo", 4000, IdCard("Viktor Salo", Valid), "SANCTIONS_HIT"),
      EscalatedCase(FALSE, "Maarika Kask", 5200, IdCard("Maarika Kask", Valid), "PEP_MATCH"),
      EscalatedCase(TRUE, "Tomas Berg", 15000, IdCard("Tomas Berg", Valid), "HIGH_VOLUME"),
      (* corrupted-document, hallucination-bait *)
      EscalatedCase(TRUE, "Henrik Laine", 2700, Garbage, "DEGRADED_TO_MANUAL"),
      EscalatedCase(FALSE, "Anna Virtanen", 2400,
                    [IdCard("Anja Wirtanen", Valid) EXCEPT
                        !.glitch = [full_name |-> "Anna Virtanen"]],
                    "CRITICAL_MISMATCH")>>

BusinessCase(typical, name, company, number, volume, owners, outcome, code) ==
    Case(typical, Business(name, company, number, volume),
         CertAndUbo(RegistrationCert(company, number), UboDeclaration(company, owners)),
         outcome, {code})

Businesses ==
    <<BusinessCase(TRUE, "Karl Tamm", "Meridian Trade OU", "EE-1447291", 30000,
                   {"Karl Tamm", "Liis Kukk"}, "approve", "ALL_CHECKS_PASSED"),
      BusinessCase(TRUE, "Aino Jarvinen", "Aurora Consulting Oy", "FI-2093714", 22000,
                   {"Aino Jarvinen"}, "approve", "ALL_CHECKS_PASSED"),
      BusinessCase(FALSE, "Oskar Vaher", "Nordic Bridge OU", "EE-1899020", 18000,
                   {"Oskar Vaher", "Viktor Salo"}, "escalate", "UBO_SANCTIONS_OR_PEP")>>

Cases == CleanIndividuals \o SystemDecides \o HumanDecides \o Businesses

-------------------------------------------------------------------------------
(***************************************************************************)
(* Properties                                                              *)
(***************************************************************************)
(* What eval/results.json has recorded of the two configurations. *)
Recorded(config_name) ==
    IF config_name = "full"
    THEN [auto_rate_typical |-> 7143, escalation_recall |-> 10000,
          escalation_precision |-> 10000, decision_accuracy |-> 10000,
          reason_codes_accuracy |-> 10000, false_auto_approvals |-> 0]
    ELSE [auto_rate_typical |-> 7143, escalation_recall |-> 8571,
          escalation_precision |-> 10000, decision_accuracy |-> 9412,
          reason_codes_accuracy |-> 9412, false_auto_approvals |-> 1]

(* The model comes to the numbers that the program has recorded of its     *)
(* golden set (src/README.md, "Evaluation"): every expectation is met with *)
(* the evaluator, and without it the hallucination alone is approved.      *)
ResultsReproduced ==
    golden = Cases /\ exit # "running" =>
        /\ exit = "0"
        /\ Summary(rows["ablation"]) = Recorded("ablation")
        /\ no_validator \/ Summary(rows["full"]) = Recorded("full")
===============================================================================
