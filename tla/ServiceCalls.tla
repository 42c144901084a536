------------------------------ MODULE ServiceCalls ------------------------------
(***************************************************************************)
(* What the nodes of the graph see of the calls they make to the services  *)
(* and the registries: how often a call may fail, and what is left of a    *)
(* series of calls when one of them fails for good.  CasePipeline uses     *)
(* these operators as they are; Resilience makes the calls one by one and  *)
(* shows that nothing else comes out of them.                              *)
(***************************************************************************)
EXTENDS Integers

CONSTANT MaxRetries         \* settings.max_step_retries

ASSUME RetriesAssumption == MaxRetries \in Nat

(***************************************************************************)
(* run_resilient gives the primary service 1 + MaxRetries attempts and the *)
(* fallback, if there is one, a last one.  A call that returned failed as  *)
(* often as Recovered says before it did; one that did not, Budget times.  *)
(***************************************************************************)
Attempts(fallback) == 1 + MaxRetries + (IF fallback THEN 1 ELSE 0)

Budget == MaxRetries + 2
Recovered == 0 .. (Budget - 1)

(***************************************************************************)
(* _screen asks a registry for one name after the other and stops at the   *)
(* first that exhausts its attempts, returning the hits of the names       *)
(* answered so far.  The list may hold some names twice (again: the name   *)
(* of the applicant may be that of a company); the second call of such a   *)
(* name may be the one that fails.                                         *)
(***************************************************************************)
Screen(answered, listed, ok) ==
    [hits |-> answered \cap listed, answered |-> answered, ok |-> ok]

Screens(names, again, listed) ==
    {Screen(names, listed, TRUE)} \cup
    {Screen(answered, listed, FALSE) :
        answered \in {some \in SUBSET names : some = names => again # {}}}

(***************************************************************************)
(* risk_scorer screens the applicant and then the owners, each with both   *)
(* registries; a registry that left one name out has given no answer.      *)
(***************************************************************************)
NoAnswer(sanctions_ok, pep_ok) ==
    (IF sanctions_ok THEN {} ELSE {"sanctions"}) \cup (IF pep_ok THEN {} ELSE {"pep"})

(* Mutant: the owners' screening overwrites the availability of the first one. *)
UnavailableForOwnersOnly(s, p, us, up) == NoAnswer(us.ok, up.ok)
(* Mutant: the availability of the owners' screening is not merged in. *)
UnavailableForPersonsOnly(s, p, us, up) == NoAnswer(s.ok, p.ok)
Unavailable(s, p, us, up) == NoAnswer(s.ok /\ us.ok, p.ok /\ up.ok)
===============================================================================
