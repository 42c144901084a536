----------------------------- MODULE MCAuditStream -----------------------------
(***************************************************************************)
(* Small instances of AuditStream for TLC: a package whose documents are   *)
(* missing, which has no workers, and one with two documents.              *)
(***************************************************************************)
EXTENDS AuditStream

MCEmits == [intake |-> 1, gate |-> 2, doc1 |-> 1, doc2 |-> 1, finalize |-> 1]

Sequential == <<{"intake"}, {"gate"}, {"finalize"}>>
Parallel   == <<{"intake"}, {"doc1", "doc2"}, {"finalize"}>>

MCPlans == {Sequential, Parallel}
===============================================================================
