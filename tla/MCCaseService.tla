---------------------------- MODULE MCCaseService ----------------------------
(***************************************************************************)
(* Small instances of CaseService for TLC: two or three reviewers who do   *)
(* not agree.                                                              *)
(***************************************************************************)
EXTENDS CaseService

OneApproves == [r \in Reviewers |-> IF r = "anna" THEN "approve" ELSE "reject"]
==============================================================================
