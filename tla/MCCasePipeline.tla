---------------------------- MODULE MCCasePipeline ----------------------------
(***************************************************************************)
(* Small instances of CasePipeline for TLC.  The declared values are       *)
(* "alice" (full_name), "born" (date_of_birth), "acme" (company_name) and  *)
(* "reg1" (registration_number).                                           *)
(***************************************************************************)
EXTENDS CasePipeline

MCTexts == {"", "alice", "alicia", "mallory", "born", "other_day", "no1", "here", "away",
            "acme", "acme_oy", "shell", "reg1", "reg2", "yesterday", "today",
            "tomorrow", "not_a_date", "olaf"}

(* Similarity to the declared value, on both sides of and on each limit. *)
MCRatio ==
    [v \in MCTexts |->
        CASE v = "acme_oy"              -> 94
          [] v = "alicia"               -> 85
          [] v \in {"mallory", "shell"} -> 84
          [] v = "away"                 -> 69
          [] v = "here"                 -> 70
          [] v = ""                     -> 0
          [] OTHER                      -> 100]

MCHighVolume == [individual |-> 10, business |-> 50]

OwnText == [d \in Docs |-> d]
(* The first two documents were submitted under one document_id. *)
SharedText == [d \in Docs |-> IF d = "d1" THEN "d2" ELSE d]

(* A reading of the fields in f that are not None, all graded c. *)
Read(f, c) ==
    LET found == {k \in DOMAIN f : f[k] # None}
    IN  [fields |-> [k \in found |-> f[k]], confidence |-> [k \in found |-> c]]

Id(name, dob, expiry, c) ==
    Read([full_name |-> name, date_of_birth |-> dob, document_number |-> "no1",
          expiry_date |-> expiry], c)
Poa(name, address) == Read([full_name |-> name, address |-> address], 98)
Reg(company, number) == Read([company_name |-> company, registration_number |-> number], 98)
Ubo(company, owners) ==
    LET found == {"company_name", "beneficial_owners"}
    IN  [fields |-> [f \in found |-> IF f = "company_name" THEN company ELSE owners],
         confidence |-> [f \in found |-> 98]]

GoodId == Id("alice", "born", "tomorrow", 98)

CaseReadings ==
    [id_document |->
        {GoodId, Id("alicia", "born", "today", 85), Id("mallory", "born", "tomorrow", 98),
         Id("alice", "other_day", "yesterday", 98), Id("alice", "born", "yesterday", 90),
         Id("alice", "born", "tomorrow", 74), Id(None, None, None, 90)},
     proof_of_address |->
        {Poa("alice", "here"), Poa("mallory", "away"), Poa("alice", None), Poa("", "here")},
     business_registration |->
        {Reg("acme", "reg1"), Reg("acme_oy", "reg1"), Reg("shell", "reg1"),
         Reg("acme", "reg2"), Reg("acme", None)},
     ubo_declaration |->
        {Ubo("acme", {"olaf"}), Ubo("acme", {"alice", "olaf"}), Ubo("acme", {}), Ubo("mallory", {"alice"})}]

PlainReadings ==
    [id_document |-> {GoodId, Id("alice", "born", "yesterday", 98)},
     proof_of_address |-> {Poa("alice", "here")},
     business_registration |-> {Reg("acme", "reg1")},
     ubo_declaration |-> {Ubo("acme", {"olaf"})}]

BadDateReadings ==
    [PlainReadings EXCEPT !["id_document"] =
        {GoodId, Id("alice", None, "yesterday", 98), Id("alice", "born", "not_a_date", 98)}]

TodayReadings ==
    [PlainReadings EXCEPT !["id_document"] = {Id("alice", "born", "today", 98)}]

Individual(volume) ==
    [customer |-> "individual", full_name |-> "alice", date_of_birth |-> "born",
     company_name |-> None, registration_number |-> None, volume |-> volume]

Business(company, number, volume) ==
    [customer |-> "business", full_name |-> "alice", date_of_birth |-> None,
     company_name |-> company, registration_number |-> number, volume |-> volume]

Individuals == {Individual(10), Individual(11)}
OneIndividual == {Individual(10)}
Businesses == {Business("acme", "reg1", 50), Business(None, None, 51)}
Customers == Individuals \cup Businesses
===============================================================================
