------------------------------ MODULE ServiceSteps ------------------------------
(***************************************************************************)
(* A node of the graph as CasePipeline sees it: every loop of calls it     *)
(* makes is one step that ends in one of the ways ServiceCalls allows.     *)
(***************************************************************************)
EXTENDS ServiceCalls, Sequences

CONSTANT Plans      \* Plans[n]: the loops of calls of node n, in order

VARIABLES
    node,           \* the node that runs
    results,        \* results[k]: what came out of loop k
    raised          \* has a loop ended the node with StepExhaustedError?

(***************************************************************************)
(* A loop calls service for each of its items; listed is what a registry   *)
(* has listed, fallback whether there is one, and raises whether a call    *)
(* that failed for good ends the node or only the loop.                    *)
(***************************************************************************)
Names(loop) == {loop.items[i] : i \in DOMAIN loop.items}
Repeated(loop) ==
    {loop.items[i] : i \in {j \in DOMAIN loop.items : \E k \in 1 .. j - 1 :
                                                      loop.items[k] = loop.items[j]}}
EndsOf(loop) == Screens(Names(loop), Repeated(loop), loop.listed)

(* How a loop may end, with the errors and the attempts of its last call.  *)
Ending(loop, screen, failed, attempts) ==
    /\ screen \in EndsOf(loop)
    /\ IF ~screen.ok THEN failed = Attempts(loop.fallback) /\ attempts = failed
       ELSE IF loop.items = <<>> THEN failed = 0 /\ attempts = 0
       ELSE /\ failed \in Recovered /\ attempts = failed + 1
            /\ attempts <= Attempts(loop.fallback)

Init == node \in DOMAIN Plans /\ results = <<>> /\ raised = FALSE

RunLoop ==
    /\ ~raised /\ Len(results) < Len(Plans[node])
    /\ LET loop == Plans[node][Len(results) + 1]
       IN  \E screen \in EndsOf(loop), failed \in 0 .. Budget, attempts \in 0 .. Budget :
              /\ Ending(loop, screen, failed, attempts)
              /\ results' = Append(results,
                    [screen |-> screen, failed |-> failed, attempts |-> attempts])
              /\ raised' = (loop.raises /\ ~screen.ok)
    /\ UNCHANGED node

Spec == Init /\ [][RunLoop]_<<node, results, raised>>
===============================================================================
