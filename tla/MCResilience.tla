------------------------------ MODULE MCResilience ------------------------------
(***************************************************************************)
(* The nodes of a small package for TLC: two documents, an applicant with  *)
(* two companies, one of which has his name, and an owner who is listed.   *)
(***************************************************************************)
EXTENDS Resilience

Calls(service, items, fallback, raises) ==
    [service |-> service, items |-> items, fallback |-> fallback, raises |-> raises,
     listed |-> {items[i] : i \in DOMAIN items} \cap {"olaf"}]

MCPlans ==
    [router |-> <<Calls("router", <<"package">>, TRUE, TRUE)>>,
     validator |-> <<Calls("evaluator", <<"d1", "d2">>, TRUE, TRUE)>>,
     risk_scorer |->
        <<Calls("sanctions", <<"alice", "acme", "alice">>, FALSE, FALSE),
          Calls("pep", <<"alice">>, FALSE, FALSE),
          Calls("sanctions", <<"olaf">>, FALSE, FALSE),
          Calls("pep", <<"olaf">>, FALSE, FALSE),
          Calls("narrator", <<"summary">>, TRUE, FALSE)>>]
================================================================================
