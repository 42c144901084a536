--------------------------- MODULE Resilience_proofs ---------------------------
(***************************************************************************)
(* Theorems about Resilience, for any loops of calls, any number of items  *)
(* and any MaxRetries: the types and the budget, that the calls of a loop  *)
(* end as ServiceSteps allows, and which registries are reported.          *)
(***************************************************************************)
EXTENDS Resilience, TLAPS

(***************************************************************************)
(* The plans                                                               *)
(***************************************************************************)
LEMMA LoopsType ==
  ASSUME node \in DOMAIN Plans
  PROVE  loops \in Seq(Loop(Subjects(loops)))
BY PlansAssumption DEF loops

LEMMA LoopType ==
  ASSUME node \in DOMAIN Plans, Len(results) \in Nat, Busy
  PROVE  /\ Len(results) + 1 \in DOMAIN loops
         /\ loop.items \in Seq(Subjects(loops)) /\ loop.listed \in SUBSET Subjects(loops)
         /\ loop.fallback \in BOOLEAN /\ loop.raises \in BOOLEAN
<1>1. Len(results) + 1 \in DOMAIN loops
  BY LoopsType DEF Busy
<1>2. loop \in Loop(Subjects(loops))
  BY <1>1, LoopsType DEF loop
<1>. QED  BY <1>1, <1>2 DEF Loop

LEMMA AttemptsType ==
  ASSUME NEW fallback
  PROVE  /\ Attempts(fallback) \in Nat /\ Attempts(fallback) >= 1
         /\ Attempts(fallback) <= Budget /\ Budget \in Nat
         /\ StepsOfNode!Attempts(fallback) = Attempts(fallback)
         /\ StepsOfNode!Budget = Budget /\ StepsOfNode!Recovered = Recovered
BY RetriesAssumption
   DEF Attempts, Budget, Recovered, StepsOfNode!Attempts, StepsOfNode!Budget,
       StepsOfNode!Recovered

LEMMA BudgetType == Budget \in Nat
BY RetriesAssumption DEF Budget

(***************************************************************************)
(* The inductive invariant                                                 *)
(***************************************************************************)
(* Between two loops nothing is left of the calls; in a loop, the item     *)
(* after the last one was not asked for, and the item answered last was    *)
(* answered within its budget.                                             *)
InLoop ==
    /\ item <= Len(loop.items) + 1
    /\ item > Len(loop.items) => attempt = 0
    /\ asking # "none" => attempt >= 1
    /\ IF item = 1 THEN last = NoneYet
       ELSE /\ last.failed \in Recovered /\ last.attempts = last.failed + 1
            /\ last.attempts <= Attempts(loop.fallback)

CallsInv ==
    /\ ~Busy => item = 1 /\ attempt = 0 /\ asking = "none" /\ last = NoneYet
    /\ Busy => InLoop

(* A loop that has ended has ended as ServiceSteps allows. *)
EndsInv ==
    /\ \A k \in DOMAIN results :
          StepsOfNode!Ending(loops[k], results[k].screen, results[k].failed, results[k].attempts)
    /\ raised => \E k \in DOMAIN results : loops[k].raises

ResilienceInv == TypeOK /\ CallsInv /\ EndsInv

LEMMA InvInit == Init => ResilienceInv
<1>. SUFFICES ASSUME Init PROVE ResilienceInv
  OBVIOUS
<1>1. Len(results) = 0 /\ DOMAIN results = {} /\ loops \in Seq(Loop(Subjects(loops)))
  BY LoopsType DEF Init
<1>2. NoneYet \in [failed: 0 .. Budget, attempts: 0 .. Budget]
  BY AttemptsType DEF NoneYet
<1>3. TypeOK
  <2>1. \A f : 0 <= Attempts(f)
    BY AttemptsType
  <2>2. /\ errors = [i \in 1 .. attempt - (IF asking = "none" THEN 0 ELSE 1) |-> i]
        /\ results \in Seq([screen: [hits: SUBSET Subjects(loops), answered: SUBSET Subjects(loops),
                                    ok: BOOLEAN],
                           failed: 0 .. Budget, attempts: 0 .. Budget])
    BY DEF Init
  <2>3. /\ node \in DOMAIN Plans /\ raised \in BOOLEAN /\ item \in Nat \ {0} /\ attempt \in Nat
        /\ asking \in {"none", "primary", "fallback"}
        /\ last \in [failed: 0 .. Budget, attempts: 0 .. Budget]
    <3>1. /\ node \in DOMAIN Plans /\ raised = FALSE /\ item = 1 /\ attempt = 0
          /\ asking = "none" /\ last = NoneYet
      BY DEF Init
    <3>2. raised \in BOOLEAN
      BY <3>1, Zenon
    <3>3. item \in Nat \ {0} /\ attempt \in Nat
      BY <3>1
    <3>4. asking \in {"none", "primary", "fallback"}
      BY <3>1
    <3>. QED  BY <3>1, <3>2, <3>3, <3>4, <1>2, Zenon
  <2>5. Len(results) <= Len(loops)
    <3>1. Len(loops) \in Nat
      BY <1>1
    <3>. QED  BY <1>1, <3>1
  <2>4. Busy => attempt <= Attempts(loop.fallback)
    BY <2>1 DEF Init
  <2>. QED  BY <2>2, <2>3, <2>4, <2>5 DEF TypeOK
<1>4. CallsInv
  BY <1>1 DEF Init, CallsInv, InLoop
<1>5. EndsInv
  BY <1>1 DEF Init, EndsInv
<1>. QED  BY <1>3, <1>4, <1>5 DEF ResilienceInv

(* A call is made. *)
LEMMA AskStep ==
  ASSUME ResilienceInv, AskPrimary \/ AskFallback
  PROVE  ResilienceInv'
<1>1. /\ Busy /\ asking = "none" /\ item <= Len(loop.items)
      /\ asking' \in {"primary", "fallback"} /\ attempt' = attempt + 1
      /\ UNCHANGED <<node, results, raised, item, errors, last>>
      /\ \/ attempt < 1 + MaxRetries
         \/ loop.fallback /\ attempt = 1 + MaxRetries
  BY DEF AskPrimary, AskFallback, Calling, Ask, PrimaryLeft, FallbackLeft
<1>2. loops' = loops /\ loop' = loop /\ Busy'
  BY <1>1 DEF loops, loop, Busy
<1>3. attempt \in Nat /\ attempt + 1 <= Attempts(loop.fallback)
  BY <1>1, RetriesAssumption DEF ResilienceInv, TypeOK, Attempts
<1>4. TypeOK'
  BY <1>1, <1>2, <1>3 DEF ResilienceInv, TypeOK
<1>5. CallsInv'
  BY <1>1, <1>2, <1>3, LoopType DEF ResilienceInv, TypeOK, CallsInv, InLoop
<1>6. EndsInv'
  BY <1>1, <1>2 DEF ResilienceInv, EndsInv
<1>. QED  BY <1>4, <1>5, <1>6 DEF ResilienceInv

LEMMA CallFacts ==
  ASSUME ResilienceInv, asking # "none"
  PROVE  /\ Busy /\ attempt \in Nat \ {0} /\ attempt <= Attempts(loop.fallback)
         /\ item \in Nat \ {0} /\ item <= Len(loop.items)
         /\ errors = [i \in 1 .. attempt - 1 |-> i] /\ errors \in Seq(Nat)
         /\ Len(errors) = attempt - 1
<1>1. Busy /\ InLoop
  BY DEF ResilienceInv, CallsInv
<1>2. /\ attempt \in Nat \ {0} /\ attempt <= Attempts(loop.fallback) /\ item \in Nat \ {0}
      /\ errors = [i \in 1 .. attempt - 1 |-> i]
  BY <1>1 DEF ResilienceInv, TypeOK, InLoop
<1>3. item <= Len(loop.items)
  <2>1. Len(loop.items) \in Nat
    BY <1>1, LoopType DEF ResilienceInv, TypeOK
  <2>. QED  BY <1>1, <1>2, <2>1 DEF InLoop
<1>. QED  BY <1>1, <1>2, <1>3

(* A call returns. *)
LEMMA AnswersStep ==
  ASSUME ResilienceInv, Answers
  PROVE  ResilienceInv'
<1>1. /\ asking # "none" /\ asking' = "none" /\ item' = item + 1 /\ attempt' = 0 /\ errors' = <<>>
      /\ last' = [failed |-> Len(errors), attempts |-> attempt]
      /\ UNCHANGED <<node, results, raised>>
  BY DEF Answers
<1>2. loops' = loops /\ loop' = loop /\ Busy'
  BY <1>1, CallFacts DEF loops, loop, Busy
<1>3. /\ last'.failed \in Recovered /\ last'.attempts = last'.failed + 1
      /\ last'.attempts <= Attempts(loop.fallback)
      /\ last' \in [failed: 0 .. Budget, attempts: 0 .. Budget]
  <2>1. /\ Len(errors) = attempt - 1 /\ attempt \in Nat \ {0}
        /\ attempt <= Attempts(loop.fallback)
    BY <1>1, CallFacts
  <2>2. Attempts(loop.fallback) \in Nat /\ Attempts(loop.fallback) <= Budget /\ Budget \in Nat
    BY AttemptsType
  <2>3. last'.failed = Len(errors) /\ last'.attempts = attempt
    BY <1>1
  <2>4. Len(errors) \in 0 .. Budget - 1 /\ attempt \in 0 .. Budget
    BY <2>1, <2>2
  <2>5. last' \in [failed: 0 .. Budget, attempts: 0 .. Budget]
    BY <1>1, <2>2, <2>4
  <2>. QED  BY <2>1, <2>3, <2>4, <2>5 DEF Recovered
<1>4. TypeOK'
  BY <1>1, <1>2, <1>3, CallFacts, AttemptsType DEF ResilienceInv, TypeOK
<1>5. CallsInv'
  BY <1>1, <1>2, <1>3, CallFacts, LoopType DEF ResilienceInv, TypeOK, CallsInv, InLoop
<1>6. EndsInv'
  BY <1>1, <1>2 DEF ResilienceInv, EndsInv
<1>. QED  BY <1>4, <1>5, <1>6 DEF ResilienceInv

(* A call raises. *)
LEMMA FailsStep ==
  ASSUME ResilienceInv, Fails
  PROVE  ResilienceInv'
<1>1. /\ asking # "none" /\ asking' = "none" /\ errors' = Append(errors, attempt)
      /\ UNCHANGED <<node, results, raised, item, attempt, last>>
  BY DEF Fails
<1>2. loops' = loops /\ loop' = loop /\ Busy'
  BY <1>1, CallFacts DEF loops, loop, Busy
<1>3. errors' = [i \in 1 .. attempt |-> i]
  <2>1. /\ attempt \in Nat \ {0} /\ errors \in Seq(Nat) /\ Len(errors) = attempt - 1
        /\ \A i \in 1 .. attempt - 1 : errors[i] = i
    BY <1>1, CallFacts
  <2>2. /\ errors' \in Seq(Nat) /\ Len(errors') = attempt
        /\ \A i \in 1 .. attempt : errors'[i] = i
    BY <1>1, <2>1
  <2>. QED  BY <2>2
<1>4. TypeOK'
  BY <1>1, <1>2, <1>3, CallFacts DEF ResilienceInv, TypeOK
<1>5. CallsInv'
  BY <1>1, <1>2, CallFacts, LoopType DEF ResilienceInv, TypeOK, CallsInv, InLoop
<1>6. EndsInv'
  BY <1>1, <1>2 DEF ResilienceInv, EndsInv
<1>. QED  BY <1>4, <1>5, <1>6 DEF ResilienceInv

(***************************************************************************)
(* The end of a loop                                                       *)
(***************************************************************************)
Result ==
    [screen: [hits: SUBSET Subjects(loops), answered: SUBSET Subjects(loops), ok: BOOLEAN],
     failed: 0 .. Budget, attempts: 0 .. Budget]

(* What a loop leaves behind. *)
Left(screen, failed, attempts) ==
    /\ screen = Screen(Answered, loop.listed, screen.ok) /\ screen.ok \in BOOLEAN
    /\ failed \in 0 .. Budget /\ attempts \in 0 .. Budget
    /\ StepsOfNode!Ending(loop, screen, failed, attempts)
    /\ results' = Append(results, [screen |-> screen, failed |-> failed, attempts |-> attempts])
    /\ raised' = (loop.raises /\ ~screen.ok)

LEMMA AnsweredNames ==
  ASSUME ResilienceInv, Busy
  PROVE  /\ Answered \subseteq StepsOfNode!Names(loop)
         /\ Answered \subseteq Subjects(loops)
         /\ StepsOfNode!Names(loop) \subseteq Subjects(loops)
<1>1. /\ item \in Nat \ {0} /\ item <= Len(loop.items) + 1
      /\ loop.items \in Seq(Subjects(loops)) /\ Len(loop.items) \in Nat
  BY LoopType DEF ResilienceInv, TypeOK, CallsInv, InLoop
<1>2. 1 .. item - 1 \subseteq DOMAIN loop.items
  BY <1>1
<1>. QED  BY <1>1, <1>2 DEF Answered, StepsOfNode!Names

LEMMA ReturnLeaves ==
  ASSUME ResilienceInv, LoopReturns
  PROVE  Left(Screen(Answered, loop.listed, TRUE), last.failed, last.attempts)
<1> DEFINE screen == Screen(Answered, loop.listed, TRUE)
<1>1. Busy /\ asking = "none" /\ item > Len(loop.items) /\ Finish(TRUE, last)
  BY DEF LoopReturns
<1>2. /\ item \in Nat \ {0} /\ item = Len(loop.items) + 1 /\ InLoop
      /\ loop.items \in Seq(Subjects(loops)) /\ Len(loop.items) \in Nat
  <2>1. InLoop /\ item \in Nat \ {0}
    BY <1>1 DEF ResilienceInv, TypeOK, CallsInv
  <2>2. loop.items \in Seq(Subjects(loops)) /\ Len(loop.items) \in Nat
    BY <1>1, LoopType DEF ResilienceInv, TypeOK
  <2>. QED  BY <1>1, <2>1, <2>2 DEF InLoop
<1>3. Answered = StepsOfNode!Names(loop)
  BY <1>2 DEF Answered, StepsOfNode!Names
<1>4. screen \in StepsOfNode!EndsOf(loop)
  BY <1>3 DEF StepsOfNode!EndsOf, StepsOfNode!Screens, StepsOfNode!Screen, Screen
<1>5. /\ screen.ok = TRUE /\ screen = Screen(Answered, loop.listed, screen.ok)
      /\ results' = Append(results, [screen |-> screen, failed |-> last.failed,
                                     attempts |-> last.attempts])
      /\ raised' = (loop.raises /\ ~screen.ok)
  BY <1>1 DEF Screen, Finish
<1>. HIDE DEF screen
<1>6. CASE loop.items = <<>>
  <2>1. last.failed = 0 /\ last.attempts = 0
    BY <1>2, <1>6 DEF InLoop, NoneYet
  <2>2. StepsOfNode!Ending(loop, screen, last.failed, last.attempts)
    BY <1>4, <1>5, <1>6, <2>1 DEF StepsOfNode!Ending
  <2>3. last.failed \in 0 .. Budget /\ last.attempts \in 0 .. Budget
    BY <2>1, BudgetType
  <2>. QED  BY <1>5, <2>2, <2>3 DEF Left, screen
<1>7. CASE loop.items # <<>>
  <2>1. /\ last.failed \in Recovered /\ last.attempts = last.failed + 1
        /\ last.attempts <= Attempts(loop.fallback)
    BY <1>2, <1>7 DEF InLoop
  <2>2. last.failed \in 0 .. Budget /\ last.attempts \in 0 .. Budget
    BY DEF ResilienceInv, TypeOK
  <2>3. StepsOfNode!Ending(loop, screen, last.failed, last.attempts)
    BY <1>4, <1>5, <1>7, <2>1, AttemptsType DEF StepsOfNode!Ending
  <2>. QED  BY <1>5, <2>2, <2>3 DEF Left, screen
<1>. QED  BY <1>6, <1>7

LEMMA ExhaustedLeaves ==
  ASSUME ResilienceInv, Exhausted
  PROVE  Left(Screen(Answered, loop.listed, FALSE), Len(errors), attempt)
<1> DEFINE screen == Screen(Answered, loop.listed, FALSE)
<1>1. /\ Busy /\ asking = "none" /\ item <= Len(loop.items)
      /\ ~(attempt < 1 + MaxRetries) /\ ~(loop.fallback /\ attempt = 1 + MaxRetries)
      /\ Finish(FALSE, [failed |-> Len(errors), attempts |-> attempt])
  BY DEF Exhausted, Calling, PrimaryLeft, FallbackLeft
<1>2. /\ item \in 1 .. Len(loop.items) /\ attempt \in Nat /\ attempt <= Attempts(loop.fallback)
      /\ errors = [i \in 1 .. attempt |-> i]
      /\ loop.items \in Seq(Subjects(loops)) /\ Len(loop.items) \in Nat
      /\ loop.fallback \in BOOLEAN
  BY <1>1, LoopType DEF ResilienceInv, TypeOK
<1>3. attempt = Attempts(loop.fallback) /\ Len(errors) = attempt
  BY <1>1, <1>2, RetriesAssumption DEF Attempts
<1>4. screen \in StepsOfNode!EndsOf(loop)
  <2>1. Answered \subseteq StepsOfNode!Names(loop)
    BY <1>1, AnsweredNames
  <2>2. ASSUME Answered = StepsOfNode!Names(loop) PROVE StepsOfNode!Repeated(loop) # {}
    <3>1. loop.items[item] \in Answered
      BY <2>2, <1>2 DEF StepsOfNode!Names
    <3>2. \E k \in 1 .. item - 1 : loop.items[k] = loop.items[item]
      BY <3>1 DEF Answered
    <3>3. item \in DOMAIN loop.items
      BY <1>2
    <3>. QED  BY <3>2, <3>3 DEF StepsOfNode!Repeated
  <2>. QED  BY <2>1, <2>2
            DEF StepsOfNode!EndsOf, StepsOfNode!Screens, StepsOfNode!Screen, Screen
<1>5. screen.ok = FALSE
  BY DEF Screen
<1>6. Len(errors) \in 0 .. Budget /\ attempt \in 0 .. Budget
  BY <1>3, AttemptsType
<1>. QED  BY <1>1, <1>3, <1>4, <1>5, <1>6, AttemptsType DEF Left, Finish, StepsOfNode!Ending

LEMMA LeftStep ==
  ASSUME ResilienceInv, Busy, asking = "none", NEW ok, NEW counts, Finish(ok, counts),
         NEW screen, NEW failed, NEW attempts, Left(screen, failed, attempts)
  PROVE  ResilienceInv'
<1> DEFINE result == [screen |-> screen, failed |-> failed, attempts |-> attempts]
<1>1. /\ item' = 1 /\ attempt' = 0 /\ errors' = <<>> /\ last' = NoneYet /\ UNCHANGED <<node, asking>>
      /\ results' = Append(results, result) /\ raised' = (loop.raises /\ ~screen.ok)
  BY DEF Finish, Left
<1>2. loops' = loops /\ loops \in Seq(Loop(Subjects(loops)))
  BY <1>1, LoopsType DEF loops, ResilienceInv, TypeOK
<1>3. results \in Seq(Result) /\ Len(results) < Len(loops)
  BY DEF ResilienceInv, TypeOK, Result, Busy
<1>4. result \in Result
  <2>1. Answered \in SUBSET Subjects(loops) /\ Answered \cap loop.listed \in SUBSET Subjects(loops)
    BY AnsweredNames
  <2>2. screen = [hits |-> Answered \cap loop.listed, answered |-> Answered, ok |-> screen.ok]
    BY DEF Left, Screen
  <2>3. screen.ok \in BOOLEAN /\ failed \in 0 .. Budget /\ attempts \in 0 .. Budget
    BY DEF Left
  <2>4. screen \in [hits: SUBSET Subjects(loops), answered: SUBSET Subjects(loops), ok: BOOLEAN]
    BY <2>1, <2>2, <2>3
  <2>. QED  BY <2>3, <2>4 DEF Result
<1>5. /\ results' \in Seq(Result) /\ Len(results') = Len(results) + 1
      /\ DOMAIN results' = DOMAIN results \cup {Len(results) + 1}
      /\ \A k \in DOMAIN results : results'[k] = results[k]
      /\ results'[Len(results) + 1] = result
  BY <1>1, <1>3, <1>4
<1>6. Len(results') <= Len(loops)
  BY <1>2, <1>3, <1>5
<1>7. TypeOK'
  <2>1. (0 <= Attempts(loop.fallback))'
    BY AttemptsType
  <2>2. NoneYet \in [failed: 0 .. Budget, attempts: 0 .. Budget]
    BY AttemptsType DEF NoneYet
  <2>3. raised' \in BOOLEAN
    BY <1>1
  <2>4. results' \in Seq([screen: [hits: SUBSET Subjects(loops), answered: SUBSET Subjects(loops),
                                 ok: BOOLEAN],
                        failed: 0 .. Budget, attempts: 0 .. Budget])
    BY <1>5 DEF Result
  <2>5. errors' = [i \in 1 .. attempt' - (IF asking' = "none" THEN 0 ELSE 1) |-> i]
    BY <1>1
  <2>. QED  BY <1>1, <1>2, <1>6, <2>1, <2>2, <2>3, <2>4, <2>5 DEF ResilienceInv, TypeOK
<1>8. CallsInv'
  <2>1. Busy' => Len(loop.items)' \in Nat
    BY <1>1, <1>5, <1>7, LoopType DEF TypeOK
  <2>. QED  BY <1>1, <2>1 DEF CallsInv, InLoop
<1>9. EndsInv'
  <2>1. StepsOfNode!Ending(loop, screen, failed, attempts)
    BY DEF Left
  <2>2. loop = loops[Len(results) + 1]
    BY DEF loop
  <2>3. \A k \in DOMAIN results' : StepsOfNode!Ending(loops[k], results'[k].screen,
                                     results'[k].failed, results'[k].attempts)
    BY <2>1, <2>2, <1>5 DEF ResilienceInv, EndsInv
  <2>4. raised' => \E k \in DOMAIN results' : loops[k].raises
    BY <1>1, <1>5, <2>2
  <2>. QED  BY <1>2, <2>3, <2>4 DEF EndsInv, StepsOfNode!Ending, StepsOfNode!EndsOf
<1>. QED  BY <1>7, <1>8, <1>9 DEF ResilienceInv

(* Every loop that ends, ends in one of the ways a step of ServiceSteps has. *)
LEMMA EndOfLoop ==
  ASSUME ResilienceInv, LoopReturns \/ Exhausted
  PROVE  \E screen, failed, attempts :
            Left(screen, failed, attempts) /\ Busy /\ UNCHANGED node
BY ReturnLeaves, ExhaustedLeaves DEF LoopReturns, Exhausted, Calling, Finish

LEMMA InvStep == ResilienceInv /\ [Next]_vars => ResilienceInv'
<1>. SUFFICES ASSUME ResilienceInv, [Next]_vars PROVE ResilienceInv'
  OBVIOUS
<1>1. CASE AskPrimary \/ AskFallback
  BY <1>1, AskStep
<1>2. CASE Answers
  BY <1>2, AnswersStep
<1>3. CASE Fails
  BY <1>3, FailsStep
<1>4. CASE LoopReturns
  BY <1>4, ReturnLeaves, LeftStep DEF LoopReturns
<1>5. CASE Exhausted
  BY <1>5, ExhaustedLeaves, LeftStep DEF Exhausted, Calling
<1>6. CASE UNCHANGED vars
  <2>1. /\ UNCHANGED <<node, results, raised, item, attempt, errors, asking, last>>
        /\ loops' = loops /\ loop' = loop /\ (Busy <=> Busy')
    BY <1>6 DEF vars, loops, loop, Busy
  <2>2. TypeOK'
    BY <2>1 DEF ResilienceInv, TypeOK
  <2>3. CallsInv' /\ EndsInv'
    BY <2>1 DEF ResilienceInv, CallsInv, InLoop, EndsInv
  <2>. QED  BY <2>2, <2>3 DEF ResilienceInv
<1>. QED  BY <1>1, <1>2, <1>3, <1>4, <1>5, <1>6 DEF Next, Step, Stopped

LEMMA AlwaysResilienceInv == Spec => []ResilienceInv
BY InvInit, InvStep, PTL DEF Spec

(* No call is attempted more often than its budget allows, and its errors  *)
(* carry the numbers of the attempts that failed, each once.               *)
THEOREM CallsTypeCorrect == Spec => []TypeOK
<1>1. ResilienceInv => TypeOK
  BY DEF ResilienceInv
<1>. QED  BY <1>1, AlwaysResilienceInv, PTL

(***************************************************************************)
(* The calls implement the steps of ServiceSteps.                          *)
(***************************************************************************)
LEMMA LeftRunsLoop ==
  ASSUME Busy, UNCHANGED node, NEW screen, NEW failed, NEW attempts,
         Left(screen, failed, attempts)
  PROVE  StepsOfNode!RunLoop
<1>1. /\ screen \in StepsOfNode!EndsOf(loop)
      /\ StepsOfNode!Ending(loop, screen, failed, attempts)
      /\ failed \in 0 .. StepsOfNode!Budget /\ attempts \in 0 .. StepsOfNode!Budget
      /\ results' = Append(results, [screen |-> screen, failed |-> failed, attempts |-> attempts])
      /\ raised' = (loop.raises /\ ~screen.ok)
  BY DEF Left, StepsOfNode!Ending, Budget, StepsOfNode!Budget
<1>2. loop = Plans[node][Len(results) + 1] /\ ~raised /\ Len(results) < Len(Plans[node])
  BY DEF loop, loops, Busy
<1>. QED  BY <1>1, <1>2 DEF StepsOfNode!RunLoop

LEMMA CallsStep ==
  ResilienceInv /\ [Next]_vars => [StepsOfNode!RunLoop]_<<node, results, raised>>
<1>. SUFFICES ASSUME ResilienceInv, [Next]_vars
              PROVE  [StepsOfNode!RunLoop]_<<node, results, raised>>
  OBVIOUS
<1>1. CASE LoopReturns \/ Exhausted
  BY <1>1, EndOfLoop, LeftRunsLoop
<1>2. CASE AskPrimary \/ AskFallback \/ Answers \/ Fails \/ Stopped \/ UNCHANGED vars
  BY <1>2 DEF AskPrimary, AskFallback, Ask, Answers, Fails, Stopped, vars
<1>. QED  BY <1>1, <1>2 DEF Next, Step

(* All that the retries, the fallbacks and the early ends of the loops can *)
(* produce is what CasePipeline takes for one step of a node.              *)
THEOREM ImplementsStepsHolds == Spec => ImplementsSteps
<1>1. Init => StepsOfNode!Init
  BY DEF Init, StepsOfNode!Init
<1>. QED  BY <1>1, CallsStep, AlwaysResilienceInv, PTL DEF Spec, ImplementsSteps, StepsOfNode!Spec

(***************************************************************************)
(* Outages                                                                 *)
(***************************************************************************)
(* A loop is not ok just when its last call used up its budget, and one    *)
(* that is ok answered for every name.                                     *)
LEMMA EndingFacts ==
  ASSUME NEW k \in DOMAIN results, ResilienceInv
  PROVE  /\ results[k].failed = Attempts(loops[k].fallback) <=> ~results[k].screen.ok
         /\ results[k].screen.ok => results[k].screen.answered = StepsOfNode!Names(loops[k])
<1> DEFINE r == results[k]
           A == Attempts(loops[k].fallback)
<1>1. StepsOfNode!Ending(loops[k], r.screen, r.failed, r.attempts)
  BY DEF ResilienceInv, EndsInv
<1>2. A \in Nat /\ A >= 1 /\ StepsOfNode!Attempts(loops[k].fallback) = A
  BY AttemptsType
<1>3. ~r.screen.ok => r.failed = A
  BY <1>1, <1>2 DEF StepsOfNode!Ending
<1>4. r.screen.ok => r.failed # A
  <2>1. CASE loops[k].items = <<>>
    BY <1>1, <1>2, <2>1 DEF StepsOfNode!Ending
  <2>2. CASE loops[k].items # <<>>
    BY <1>1, <1>2, <2>2, RetriesAssumption
       DEF StepsOfNode!Ending, StepsOfNode!Recovered, StepsOfNode!Budget
  <2>. QED  BY <2>1, <2>2
<1>5. r.screen.ok => r.screen.answered = StepsOfNode!Names(loops[k])
  BY <1>1 DEF StepsOfNode!Ending, StepsOfNode!EndsOf, StepsOfNode!Screens, StepsOfNode!Screen
<1>. QED  BY <1>3, <1>4, <1>5

(* A sequence with the positions 1 to 5 has length 5. *)
LEMMA FiveLong ==
  ASSUME NEW n \in Nat, 1 .. n = 1 .. 5
  PROVE  n = 5
<1>1. n >= 5
  <2>1. 5 \in 1 .. 5
    OBVIOUS
  <2>2. 5 \in 1 .. n
    BY <2>1
  <2>. QED  BY <2>2
<1>2. n <= 5
  <2>1. n \in 1 .. n
    BY <1>1
  <2>2. n \in 1 .. 5
    BY <2>1
  <2>. QED  BY <2>2
<1>. QED  BY <1>1, <1>2

(* At the end of the risk scorer a registry is reported unavailable just   *)
(* when one of its screenings failed for good, and always when it left a   *)
(* name unanswered, for any lists of names, repeated ones included.        *)
THEOREM OutageReportedHolds == Spec => []OutageReported
<1>1. ResilienceInv => OutageReported
  <2>1. SUFFICES ASSUME ResilienceInv, node = "risk_scorer", ~Busy PROVE OutageReported
    BY DEF OutageReported
  <2>2. /\ node \in DOMAIN Plans /\ loops \in Seq(Loop(Subjects(loops)))
        /\ [k \in DOMAIN loops |-> loops[k].service] = RiskServices
        /\ \A k \in DOMAIN loops : ~loops[k].raises
    BY <2>1, PlansAssumption DEF ResilienceInv, TypeOK, loops
  <2>3. /\ DOMAIN loops = 1 .. 5 /\ Len(loops) = 5
        /\ loops[1].service = "sanctions" /\ loops[2].service = "pep"
        /\ loops[3].service = "sanctions" /\ loops[4].service = "pep"
        /\ loops[5].service = "narrator"
    <3>1. DOMAIN RiskServices = DOMAIN loops
      BY <2>2
    <3>2. DOMAIN RiskServices = 1 .. 5 /\ RiskServices[1] = "sanctions"
          /\ RiskServices[2] = "pep" /\ RiskServices[3] = "sanctions"
          /\ RiskServices[4] = "pep" /\ RiskServices[5] = "narrator"
      BY DEF RiskServices
    <3>3. \A k \in 1 .. 5 : loops[k].service = RiskServices[k]
      BY <2>2, <3>1, <3>2
    <3>4. Len(loops) = 5 /\ DOMAIN loops = 1 .. 5
      <4>1. DOMAIN loops = 1 .. Len(loops) /\ Len(loops) \in Nat
        BY <2>2
      <4>2. DOMAIN loops = 1 .. 5
        BY <3>1, <3>2
      <4>. QED  BY <4>1, <4>2, FiveLong
    <3>. QED  BY <3>2, <3>3, <3>4
  <2>4. DOMAIN results = 1 .. 5
    <3>1. ~raised
      <4>1. DOMAIN results \subseteq DOMAIN loops
        BY <2>1, <2>2 DEF ResilienceInv, TypeOK
      <4>. QED  BY <2>1, <2>2, <4>1 DEF ResilienceInv, EndsInv
    <3>2. DOMAIN results = 1 .. Len(results) /\ Len(results) \in Nat /\ Len(results) <= Len(loops)
      BY <2>1 DEF ResilienceInv, TypeOK
    <3>3. ~(Len(results) < Len(loops))
      BY <2>1, <3>1 DEF Busy
    <3>. QED  BY <2>3, <3>2, <3>3
  <2> DEFINE ok(k) == results[k].screen.ok
  <2>5. \A k \in 1 .. 5 :
           /\ results[k].failed = Attempts(loops[k].fallback) <=> ~ok(k)
           /\ ok(k) => results[k].screen.answered = StepsOfNode!Names(loops[k])
    BY <2>1, <2>4, EndingFacts
  <2>6. /\ "sanctions" \in Reported <=> ~ok(1) \/ ~ok(3)
        /\ "pep" \in Reported <=> ~ok(2) \/ ~ok(4)
    BY DEF Reported, Unavailable, NoAnswer
  <2>7. ASSUME NEW registry \in {"sanctions", "pep"}
        PROVE  registry \in Reported <=>
                  \E k \in {j \in 1 .. 5 : loops[j].service = registry} : ~ok(k)
    <3>1. CASE registry = "sanctions"
      BY <2>3, <2>6, <3>1
    <3>2. CASE registry = "pep"
      BY <2>3, <2>6, <3>2
    <3>. QED  BY <3>1, <3>2
  <2>. HIDE DEF ok
  <2>. QED  BY <2>3, <2>5, <2>7 DEF OutageReported
<1>. QED  BY <1>1, AlwaysResilienceInv, PTL
===============================================================================
