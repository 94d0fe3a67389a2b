--------------------------- MODULE Platform_proofs ---------------------------
(***************************************************************************)
(* Theorems about the platform package: PlatformDeployer, for any number   *)
(* of deployments, batches, slots, retries and cancellations, and then     *)
(* PlatformMonitor, for any platforms, clients, threshold and starts.      *)
(***************************************************************************)
EXTENDS PlatformDeployer, PlatformMonitor, FiniteSetTheorems, TLAPS

-----------------------------------------------------------------------------
(* Types *)

LEMMA TypesInit == Init => TypeOK
    BY DeployerConstants
    DEF Init, TypeOK, Callers, Statuses, Places, Working, Final

\* What a step of an execution leaves well-typed, whatever it does to the books.
LEMMA GoesOnTypes ==
    ASSUME TypeOK, NEW d \in Deployments, NEW from, NEW next \in Places,
           NEW shown \in Statuses, GoesOn(d, from, next, shown)
    PROVE  /\ status' \in [Deployments -> Statuses]
           /\ retries' \in [Deployments -> 0..MaxRetries]
           /\ via' \in [Deployments -> Callers]
           /\ run' \in [Deployments -> Places]
           /\ asking' \in [Deployments -> 0..MaxCancels]
           /\ cancelled' \subseteq Deployments
           /\ touched' \subseteq Deployments /\ cleaned' \subseteq Deployments
    BY DEF TypeOK, GoesOn

LEMMA CountsTypes ==
    ASSUME TypeOK, NEW outcome \in Final, Counts(outcome)
    PROVE  stats' \in [Final -> Nat]
    BY DEF TypeOK, Counts

LEMMA CompletesTypes ==
    ASSUME TypeOK, NEW d \in Deployments, Completes(d)
    PROVE  active' \subseteq Deployments /\ completed' \subseteq Deployments
    BY DEF TypeOK, Completes

LEMMA SlotTypes ==
    ASSUME TypeOK, NEW d \in Deployments, TakesSlot(d) \/ GivesSlotBack(d)
    PROVE  free' \in [Batches -> Nat]
    BY DEF TypeOK, TakesSlot, GivesSlotBack

LEMMA ExecutionTypes ==
    ASSUME TypeOK, NEW d \in Deployments, Execution(d)
    PROVE  TypeOK'
<1>1. CASE Begin(d)
    BY <1>1, GoesOnTypes, SlotTypes DEF Begin, TypeOK, books, Places, Working, Statuses
<1>2. CASE Validate(d)
    BY <1>2, GoesOnTypes DEF Validate, TypeOK, books, Places, Working, Statuses
<1>3. CASE Convert(d)
    BY <1>3, GoesOnTypes DEF Convert, TypeOK, books, Places, Working, Statuses
<1>4. CASE Deploy(d)
    BY <1>4, GoesOnTypes DEF Deploy, TypeOK, books, Places, Working, Statuses
<1>5. CASE Succeed(d)
    <2>1. GoesOn(d, {"deploying"}, "reporting", "success") /\ Completes(d) /\ Counts("success")
        BY <1>5 DEF Succeed
    <2>2. deployed' \subseteq Deployments /\ UNCHANGED free
        BY <1>5 DEF Succeed, TypeOK
    <2> QED  BY <2>1, <2>2, GoesOnTypes, CompletesTypes, CountsTypes
             DEF TypeOK, Places, Working, Statuses, Final
<1>6. CASE Fail(d)
    <2>1. Counts("failed")
        BY <1>6 DEF Fail
    <2> QED  BY <1>6, <2>1, GoesOnTypes, CountsTypes
             DEF Fail, TypeOK, books, Places, Working, Statuses, Final
<1>7. CASE Reported(d)
    <2>1. status[d] \in Statuses
        BY DEF TypeOK
    <2> QED  BY <1>7, <2>1, GoesOnTypes, SlotTypes DEF Reported, TypeOK, books, Places
<1>8. CASE Raise(d)
    <2>1. (IF via[d] = Background THEN "failed" ELSE status[d]) \in Statuses
        BY DEF TypeOK, Statuses, Final
    <2>2. Completes(d) /\ GivesSlotBack(d) /\ UNCHANGED <<stats, deployed>>
        BY <1>8 DEF Raise
    <2>3. GoesOn(d, {"erring"}, "ended", IF via[d] = Background THEN "failed" ELSE status[d])
        BY <1>8 DEF Raise
    <2> QED  BY <2>1, <2>2, <2>3, GoesOnTypes, CompletesTypes, SlotTypes DEF TypeOK, Places
<1> QED  BY <1>1, <1>2, <1>3, <1>4, <1>5, <1>6, <1>7, <1>8 DEF Execution

LEMMA CancellationTypes ==
    ASSUME TypeOK, NEW d \in Deployments, Cancellation(d)
    PROVE  TypeOK'
<1> USE DeployerConstants
<1>1. ASSUME NEW force \in BOOLEAN, CancelBegins(d, force)
      PROVE  TypeOK'
    BY <1>1 DEF CancelBegins, TypeOK, books, Statuses
<1>2. CASE CancelReturns(d)
    <2>1. Completes(d)
        BY <1>2 DEF CancelReturns, CancelMoves
    <2>2. stats' \in [Final -> Nat]
        BY <1>2, CountsTypes DEF CancelReturns, CancelMoves, TypeOK, Final
    <2>3. /\ status' \in [Deployments -> Statuses]
          /\ cancelled' \subseteq Deployments
        BY <1>2 DEF CancelReturns, CancelMoves, TypeOK, Statuses, Final
    <2>4. asking' \in [Deployments -> 0..MaxCancels]
        BY <1>2 DEF CancelReturns, CancelMoves, CancelAnswered, TypeOK
    <2> QED  BY <1>2, <2>1, <2>2, <2>3, <2>4, CompletesTypes
             DEF CancelReturns, CancelMoves, CancelAnswered, TypeOK
<1>3. CASE CancelRaises(d)
    BY <1>3 DEF CancelRaises, CancelAnswered, TypeOK, books, Statuses, Final
<1> QED  BY <1>1, <1>2, <1>3 DEF Cancellation

LEMMA RequestTypes ==
    ASSUME TypeOK,
           \/ \E d \in Deployments, c \in {Single, Background} : DeploySkill(d, c)
           \/ \E b \in Batches, ds \in SUBSET Deployments :
                \E begun \in SUBSET ds : DeployBatch(b, ds, begun)
           \/ \E d, n \in Deployments : RetryDeployment(d, n)
           \/ \E old \in SUBSET Deployments : Cleanup(old)
    PROVE  TypeOK'
<1> USE DeployerConstants
<1>1. ASSUME NEW d \in Deployments, NEW c \in {Single, Background}, DeploySkill(d, c)
      PROVE  TypeOK'
    BY <1>1 DEF DeploySkill, TypeOK, history, Callers, Places
<1>2. ASSUME NEW b \in Batches, NEW ds \in SUBSET Deployments, NEW begun \in SUBSET ds,
             DeployBatch(b, ds, begun)
      PROVE  TypeOK'
    BY <1>2 DEF DeployBatch, TypeOK, history, Callers, Places
<1>3. ASSUME NEW d \in Deployments, NEW n \in Deployments, RetryDeployment(d, n)
      PROVE  TypeOK'
    <2>1. retries[d] + 1 \in 0..MaxRetries
        BY <1>3 DEF RetryDeployment, CanRetry, TypeOK
    <2>2. retries' \in [Deployments -> 0..MaxRetries]
        BY <1>3, <2>1 DEF RetryDeployment, TypeOK
    <2> QED  BY <1>3, <2>2 DEF RetryDeployment, TypeOK, history, Callers, Places, Statuses
<1>4. ASSUME NEW old \in SUBSET Deployments, Cleanup(old)
      PROVE  TypeOK'
    BY <1>4 DEF Cleanup, TypeOK
<1> QED  BY <1>1, <1>2, <1>3, <1>4

LEMMA TypesStep == TypeOK /\ [Next]_vars => TypeOK'
<1> SUFFICES ASSUME TypeOK, [Next]_vars PROVE TypeOK'
    OBVIOUS
<1>1. CASE UNCHANGED vars
    BY <1>1 DEF vars, books, history, TypeOK
<1>2. CASE Next
    BY <1>2, ExecutionTypes, CancellationTypes, RequestTypes DEF Next
<1> QED  BY <1>1, <1>2

\* Every state is well-typed: in particular no chain of retries is longer than
\* max_retries, because a retry carries the count of the deployment it retries.
THEOREM TypesHold == Spec => []TypeOK
    BY TypesInit, TypesStep, PTL DEF Spec

-----------------------------------------------------------------------------
(* The books *)

\* A cancellation succeeds only of what was in active_deployments.
CancelledAsked == cancelled \subseteq Requested

\* What nobody tried to cancel is moved and marked by its execution alone.
Undisturbed(d) ==
    /\ asking[d] = 0
    /\ d \in completed => d \in Through
    /\ run[d] = "reporting" => d \in deployed
    /\ d \in deployed => status[d] = "success"

IInv ==
    /\ TypeOK
    /\ Accounted
    /\ CancelledAsked
    /\ deployed \subseteq Through
    /\ \A d \in Deployments : d \notin touched => Undisturbed(d)

LEMMA IInvInit == Init => IInv
<1> SUFFICES ASSUME Init PROVE IInv
    OBVIOUS
<1>1. Requested = {} /\ Through = {}
    BY DEF Init, Requested, Through
<1>2. Accounted /\ CancelledAsked /\ deployed \subseteq Through
    BY <1>1 DEF Init, Accounted, CancelledAsked
<1>3. \A d \in Deployments : Undisturbed(d)
    BY DEF Init, Undisturbed
<1> QED  BY <1>2, <1>3, TypesInit DEF IInv

\* A step of an execution that leaves the books alone.
LEMMA QuietStep ==
    ASSUME IInv, TypeOK', NEW d \in Deployments,
           NEW from, NEW next, NEW shown,
           GoesOn(d, from, next, shown),
           UNCHANGED <<books, deployed>>,
           "new" \notin from, "new" # next,
           \/ /\ next \notin {"reporting", "ended"}
              /\ from \cap {"reporting", "ended"} = {}
           \/ from = {"reporting"} /\ next = "ended" /\ shown = status[d]
    PROVE  IInv'
<1>1. /\ Requested' = Requested
      /\ Through' = Through
      /\ UNCHANGED <<active, completed, deployed, cancelled, touched, cleaned, asking>>
    BY DEF GoesOn, Requested, Through, IInv, TypeOK, books
<1>2. Accounted' /\ CancelledAsked' /\ (deployed \subseteq Through)'
    BY <1>1 DEF IInv, Accounted, CancelledAsked
<1>3. ASSUME NEW e \in Deployments, e \notin touched'
      PROVE  Undisturbed(e)'
    <2>1. Undisturbed(e)
        BY <1>1, <1>3 DEF IInv
    <2>2. CASE e # d
        BY <1>1, <2>1, <2>2 DEF Undisturbed, GoesOn, IInv, TypeOK
    <2>3. CASE e = d
        <3>1. run[d] \in from /\ run'[d] = next /\ status'[d] = shown
            BY DEF GoesOn, IInv, TypeOK
        <3>2. d \in deployed => d \in Through
            BY DEF IInv
        <3> QED  BY <1>1, <2>1, <2>3, <3>1, <3>2 DEF Undisturbed, Through
    <2> QED  BY <2>2, <2>3
<1> QED  BY <1>2, <1>3 DEF IInv

LEMMA SucceedIInv ==
    ASSUME IInv, TypeOK', NEW d \in Deployments, Succeed(d)
    PROVE  IInv'
<1>1. /\ run[d] = "deploying"
      /\ \A e \in Deployments : run'[e] = IF e = d THEN "reporting" ELSE run[e]
      /\ \A e \in Deployments : status'[e] = IF e = d THEN "success" ELSE status[e]
      /\ UNCHANGED <<asking, cancelled, touched, cleaned>>
      /\ completed' = completed \cup {d} /\ active' = active \ {d}
      /\ deployed' = deployed \cup {d}
    BY DEF Succeed, GoesOn, Completes, IInv, TypeOK
<1>2. Requested' = Requested /\ Through' = Through \cup {d}
    BY <1>1 DEF Requested, Through
<1>3. Accounted' /\ CancelledAsked' /\ (deployed \subseteq Through)'
    BY <1>1, <1>2 DEF IInv, Accounted, CancelledAsked
<1>4. \A e \in Deployments : e \notin touched' => Undisturbed(e)'
    BY <1>1, <1>2 DEF IInv, Undisturbed
<1> QED  BY <1>3, <1>4 DEF IInv

LEMMA RaiseIInv ==
    ASSUME IInv, TypeOK', NEW d \in Deployments, Raise(d)
    PROVE  IInv'
<1>1. /\ run[d] = "erring"
      /\ \A e \in Deployments : run'[e] = IF e = d THEN "ended" ELSE run[e]
      /\ \A e \in Deployments : e # d => status'[e] = status[e]
      /\ UNCHANGED <<asking, cancelled, touched, cleaned, deployed>>
      /\ completed' = completed \cup {d} /\ active' = active \ {d}
    BY DEF Raise, GoesOn, Completes, IInv, TypeOK
<1>2. Requested' = Requested /\ Through' = Through \cup {d}
    BY <1>1 DEF Requested, Through
<1>3. Accounted' /\ CancelledAsked' /\ (deployed \subseteq Through)'
    BY <1>1, <1>2 DEF IInv, Accounted, CancelledAsked
<1>4. d \notin deployed
    BY <1>1 DEF IInv, Through
<1>5. \A e \in Deployments : e \notin touched' => Undisturbed(e)'
    BY <1>1, <1>2, <1>4 DEF IInv, Undisturbed
<1> QED  BY <1>3, <1>5 DEF IInv

LEMMA ExecutionIInv ==
    ASSUME IInv, NEW d \in Deployments, Execution(d)
    PROVE  IInv'
<1>0. TypeOK'
    BY ExecutionTypes DEF IInv
<1>1. CASE Begin(d)
    BY <1>0, <1>1, QuietStep DEF Begin
<1>2. CASE Validate(d)
    BY <1>0, <1>2, QuietStep DEF Validate
<1>3. CASE Convert(d)
    BY <1>0, <1>3, QuietStep DEF Convert
<1>4. CASE Deploy(d)
    BY <1>0, <1>4, QuietStep DEF Deploy
<1>5. CASE Fail(d)
    BY <1>0, <1>5, QuietStep DEF Fail
<1>6. CASE Reported(d)
    BY <1>0, <1>6, QuietStep DEF Reported
<1>7. CASE Succeed(d)
    BY <1>0, <1>7, SucceedIInv
<1>8. CASE Raise(d)
    BY <1>0, <1>8, RaiseIInv
<1> QED  BY <1>1, <1>2, <1>3, <1>4, <1>5, <1>6, <1>7, <1>8 DEF Execution

LEMMA CancellationIInv ==
    ASSUME IInv, NEW d \in Deployments, Cancellation(d)
    PROVE  IInv'
<1>0. TypeOK'
    BY CancellationTypes DEF IInv
<1>1. UNCHANGED <<run, deployed, cleaned>>
    BY DEF Cancellation, CancelBegins, CancelReturns, CancelMoves, CancelRaises, CancelAnswered
<1>2. Requested' = Requested /\ Through' = Through
    BY <1>1 DEF Requested, Through
<1>3. ASSUME NEW force \in BOOLEAN, CancelBegins(d, force)
      PROVE  IInv'
    <2>1. /\ UNCHANGED <<active, completed, cancelled>>
          /\ touched' = touched \cup {d}
          /\ \A e \in Deployments : e # d => status'[e] = status[e] /\ asking'[e] = asking[e]
        BY <1>3 DEF CancelBegins, IInv, TypeOK, books
    <2>2. Accounted' /\ CancelledAsked' /\ (deployed \subseteq Through)'
        BY <1>1, <1>2, <2>1 DEF IInv, Accounted, CancelledAsked
    <2>3. \A e \in Deployments : e \notin touched' => Undisturbed(e)'
        BY <1>1, <1>2, <2>1 DEF IInv, Undisturbed
    <2> QED  BY <1>0, <2>2, <2>3 DEF IInv
<1>4. CASE CancelReturns(d) \/ CancelRaises(d)
    <2>1. /\ asking[d] > 0
          /\ UNCHANGED touched
          /\ \A e \in Deployments : e # d => status'[e] = status[e] /\ asking'[e] = asking[e]
        BY <1>4 DEF CancelReturns, CancelMoves, CancelRaises, CancelAnswered, IInv, TypeOK
    <2>2. d \in touched
        BY <2>1 DEF IInv, Undisturbed, TypeOK
    <2>3. \/ UNCHANGED <<active, completed, cancelled>>
          \/ /\ completed' = completed \cup {d} /\ active' = active \ {d}
             /\ cancelled' = IF d \in active THEN cancelled \cup {d} ELSE cancelled
        BY <1>4 DEF CancelReturns, CancelMoves, CancelRaises, Completes, books
    <2>4. Accounted' /\ CancelledAsked' /\ (deployed \subseteq Through)'
        BY <1>1, <1>2, <2>3 DEF IInv, Accounted, CancelledAsked
    <2>5. \A e \in Deployments : e \notin touched' => Undisturbed(e)'
        BY <1>1, <1>2, <2>1, <2>2, <2>3 DEF IInv, Undisturbed
    <2> QED  BY <1>0, <2>4, <2>5 DEF IInv
<1> QED  BY <1>3, <1>4 DEF Cancellation

\* ds: the deployments a request enters
LEMMA RequestIInv ==
    ASSUME IInv, TypeOK', NEW ds \in SUBSET Deployments,
           \A d \in ds : New(d),
           active' = active \cup ds,
           \A d \in ds : run'[d] \in {"scheduled", "never"},
           \A d \in Deployments \ ds : run'[d] = run[d],
           UNCHANGED <<completed, asking, history>>,
           \A d \in deployed : status[d] = "success" => status'[d] = status[d]
    PROVE  IInv'
<1>1. Requested' = Requested \cup ds /\ Through' = Through /\ Requested \cap ds = {}
    BY DEF Requested, Through, New
<1>2. Through \subseteq Requested
    BY DEF Through, Requested
<1>3. Accounted' /\ CancelledAsked' /\ (deployed \subseteq Through)'
    BY <1>1, <1>2 DEF IInv, Accounted, CancelledAsked, history
<1>4. \A d \in Deployments : d \notin touched' => Undisturbed(d)'
    BY <1>1 DEF IInv, Undisturbed, history
<1> QED  BY <1>3, <1>4 DEF IInv

LEMMA IInvStep == IInv /\ [Next]_vars => IInv'
<1> SUFFICES ASSUME IInv, [Next]_vars PROVE IInv'
    OBVIOUS
<1>0. TypeOK'
    BY TypesStep DEF IInv
<1>1. CASE UNCHANGED vars
    BY <1>0, <1>1 DEF vars, books, history, IInv, Accounted, CancelledAsked, Requested,
                      Through, Undisturbed
<1>2. ASSUME NEW d \in Deployments, Execution(d) \/ Cancellation(d)
      PROVE  IInv'
    BY <1>2, ExecutionIInv, CancellationIInv
<1>3. ASSUME NEW d \in Deployments, NEW c \in {Single, Background}, DeploySkill(d, c)
      PROVE  IInv'
    <2>1. /\ \A e \in {d} : New(e) /\ run'[e] \in {"scheduled", "never"}
          /\ \A e \in Deployments \ {d} : run'[e] = run[e]
        BY <1>3 DEF DeploySkill, IInv, TypeOK
    <2>2. {d} \in SUBSET Deployments
        OBVIOUS
    <2>3. /\ active' = active \cup {d}
          /\ UNCHANGED <<completed, asking, history>>
          /\ \A e \in deployed : status[e] = "success" => status'[e] = status[e]
        BY <1>3, <2>1 DEF DeploySkill
    <2> QED  BY <1>0, <2>1, <2>2, <2>3, RequestIInv
<1>4. ASSUME NEW b \in Batches, NEW ds \in SUBSET Deployments, NEW begun \in SUBSET ds,
             DeployBatch(b, ds, begun)
      PROVE  IInv'
    <2>1. /\ \A d \in ds : run'[d] \in {"scheduled", "never"}
          /\ \A d \in Deployments \ ds : run'[d] = run[d]
        BY <1>4 DEF DeployBatch
    <2> QED  BY <1>0, <1>4, <2>1, RequestIInv DEF DeployBatch
<1>5. ASSUME NEW d \in Deployments, NEW n \in Deployments, RetryDeployment(d, n)
      PROVE  IInv'
    <2>1. /\ \A e \in {n} : New(e) /\ run'[e] \in {"scheduled", "never"}
          /\ \A e \in Deployments \ {n} : run'[e] = run[e]
          /\ \A e \in deployed : status[e] = "success" => status'[e] = status[e]
        BY <1>5 DEF RetryDeployment, CanRetry, IInv, TypeOK
    <2>2. {n} \in SUBSET Deployments
        OBVIOUS
    <2>3. /\ active' = active \cup {n}
          /\ UNCHANGED <<completed, asking, history>>
          /\ \A e \in deployed : status[e] = "success" => status'[e] = status[e]
        BY <1>5, <2>1 DEF RetryDeployment
    <2> QED  BY <1>0, <2>1, <2>2, <2>3, RequestIInv
<1>6. ASSUME NEW old \in SUBSET Deployments, Cleanup(old)
      PROVE  IInv'
    <2>1. Requested' = Requested /\ Through' = Through
        BY <1>6 DEF Cleanup, Requested, Through
    <2>2. Accounted' /\ CancelledAsked' /\ (deployed \subseteq Through)'
        BY <1>6, <2>1 DEF Cleanup, IInv, Accounted, CancelledAsked
    <2>3. \A d \in Deployments : d \notin touched' => Undisturbed(d)'
        BY <1>6, <2>1 DEF Cleanup, IInv, Undisturbed
    <2> QED  BY <1>0, <2>2, <2>3 DEF IInv
<1> QED  BY <1>1, <1>2, <1>3, <1>4, <1>5, <1>6 DEF Next

\* Whatever races, active_deployments is exactly what is neither through nor
\* cancelled, and no deployment asked for is lost.
THEOREM AlwaysAccounted == Spec => []Accounted
<1>1. IInv => Accounted
    BY DEF IInv
<1> QED  BY <1>1, IInvInit, IInvStep, PTL DEF Spec

LEMMA RetryStep ==
    ASSUME IInv, [Next]_vars, NEW d \in Deployments,
           status[d] # "retrying", status'[d] = "retrying", d \notin touched
    PROVE  d \notin deployed /\ run[d] = "ended"
<1>1. PICK e, n \in Deployments : RetryDeployment(e, n)
    <2>1. ~UNCHANGED vars
        BY DEF vars
    <2>2. \A e \in Deployments : ~Execution(e)
        BY DEF Execution, Begin, Validate, Convert, Deploy, Succeed, Fail, Reported, Raise,
               GoesOn, IInv, TypeOK
    <2>3. \A e \in Deployments : ~Cancellation(e)
        BY DEF Cancellation, CancelBegins, CancelReturns, CancelMoves, CancelRaises, IInv, TypeOK
    <2>4. \A e \in Deployments, c \in {Single, Background} : ~DeploySkill(e, c)
        BY DEF DeploySkill
    <2>5. \A b \in Batches, ds \in SUBSET Deployments :
            \A begun \in SUBSET ds : ~DeployBatch(b, ds, begun)
        BY DEF DeployBatch
    <2>6. \A old \in SUBSET Deployments : ~Cleanup(old)
        BY DEF Cleanup
    <2> QED  BY <2>1, <2>2, <2>3, <2>4, <2>5, <2>6 DEF Next
<1>2. e = d
    BY <1>1 DEF RetryDeployment, IInv, TypeOK
<1>3. d \in completed /\ status[d] = "failed" /\ Undisturbed(d)
    BY <1>1, <1>2 DEF RetryDeployment, CanRetry, IInv
<1> QED  BY <1>3 DEF Undisturbed, Through

\* Unless somebody tried to cancel it, a deployment the platform carried out, or
\* whose execution is not over, is never retried.
THEOREM RetriesOnlyFailed == Spec => RetryOnlyFailed
<1>1. IInv /\ [Next]_vars =>
        [\A d \in Deployments :
           status[d] # "retrying" /\ status'[d] = "retrying" /\ d \notin touched
             => d \notin deployed /\ run[d] = "ended"]_vars
    BY RetryStep
<1> QED  BY <1>1, IInvInit, IInvStep, PTL DEF Spec, RetryOnlyFailed

-----------------------------------------------------------------------------
(* The semaphore of a batch *)

LEMMA BatchFinite ==
    ASSUME NEW b
    PROVE  IsFiniteSet(InBatch(b)) /\ Cardinality(InBatch(b)) \in Nat
    BY DeployerConstants, FS_Subset, FS_CardinalityType DEF InBatch

\* An execution that begins takes a slot of its batch and joins the ones under way.
LEMMA BeginKeepsSlots ==
    ASSUME TypeOK, SlotsMatchExecutions, NEW d \in Deployments, Begin(d), NEW b \in Batches
    PROVE  free'[b] + Cardinality(InBatch(b)') = MaxSlots
<1>1. /\ UNCHANGED via
      /\ \A e \in Deployments : run'[e] = IF e = d THEN "starting" ELSE run[e]
      /\ run[d] = "scheduled"
    BY DEF Begin, GoesOn, TypeOK
<1>2. free[b] + Cardinality(InBatch(b)) = MaxSlots /\ free[b] \in Nat
    BY DEF SlotsMatchExecutions, TypeOK
<1>3. CASE via[d] = b
    <2>1. InBatch(b)' = InBatch(b) \cup {d} /\ d \notin InBatch(b)
        BY <1>1, <1>3 DEF InBatch, Working
    <2>2. free'[b] = free[b] - 1
        BY <1>3 DEF Begin, TakesSlot
    <2>3. Cardinality(InBatch(b)') = Cardinality(InBatch(b)) + 1
        BY <2>1, BatchFinite, FS_AddElement
    <2> QED  BY <1>2, <2>2, <2>3, BatchFinite, DeployerConstants
<1>4. CASE via[d] # b
    <2>1. InBatch(b)' = InBatch(b)
        BY <1>1, <1>4 DEF InBatch
    <2>2. free'[b] = free[b]
        BY <1>4 DEF Begin, TakesSlot
    <2> QED  BY <1>2, <2>1, <2>2
<1> QED  BY <1>3, <1>4

\* One that ends leaves them and gives the slot back.
LEMMA EndKeepsSlots ==
    ASSUME TypeOK, SlotsMatchExecutions, NEW d \in Deployments, Reported(d) \/ Raise(d),
           NEW b \in Batches
    PROVE  free'[b] + Cardinality(InBatch(b)') = MaxSlots
<1>1. /\ UNCHANGED via
      /\ \A e \in Deployments : run'[e] = IF e = d THEN "ended" ELSE run[e]
      /\ run[d] \in {"reporting", "erring"}
      /\ GivesSlotBack(d)
    BY DEF Reported, Raise, GoesOn, TypeOK
<1>2. free[b] + Cardinality(InBatch(b)) = MaxSlots /\ free[b] \in Nat
    BY DEF SlotsMatchExecutions, TypeOK
<1>3. CASE via[d] = b
    <2>1. InBatch(b)' = InBatch(b) \ {d} /\ d \in InBatch(b)
        BY <1>1, <1>3 DEF InBatch, Working
    <2>2. free'[b] = free[b] + 1
        BY <1>1, <1>3 DEF GivesSlotBack
    <2>3. Cardinality(InBatch(b)') = Cardinality(InBatch(b)) - 1
        BY <2>1, BatchFinite, FS_RemoveElement
    <2> QED  BY <1>2, <2>2, <2>3, BatchFinite, DeployerConstants
<1>4. CASE via[d] # b
    <2>1. InBatch(b)' = InBatch(b)
        BY <1>1, <1>4 DEF InBatch
    <2>2. free'[b] = free[b]
        BY <1>1, <1>4 DEF GivesSlotBack
    <2> QED  BY <1>2, <2>1, <2>2
<1> QED  BY <1>3, <1>4

\* Every other step leaves the semaphores and the executions under way alone.
LEMMA OthersKeepSlots ==
    ASSUME TypeOK, [Next]_vars, NEW b \in Batches,
           ~\E d \in Deployments : Begin(d) \/ Reported(d) \/ Raise(d)
    PROVE  UNCHANGED <<free, InBatch(b)>>
<1>1. ASSUME NEW d \in Deployments, Execution(d)
      PROVE  UNCHANGED <<free, InBatch(b)>>
    <2>1. Validate(d) \/ Convert(d) \/ Deploy(d) \/ Succeed(d) \/ Fail(d)
        BY <1>1 DEF Execution
    <2>2. /\ UNCHANGED <<free, via>>
          /\ run[d] \in Working /\ run'[d] \in Working
          /\ \A e \in Deployments : e # d => run'[e] = run[e]
        BY <2>1 DEF Validate, Convert, Deploy, Succeed, Fail, GoesOn, Working, TypeOK
    <2> QED  BY <2>2 DEF InBatch
<1>2. ASSUME NEW d \in Deployments, NEW c \in {Single, Background}, DeploySkill(d, c)
      PROVE  UNCHANGED <<free, InBatch(b)>>
    BY <1>2 DEF DeploySkill, New, InBatch, Working, TypeOK
<1>3. ASSUME NEW a \in Batches, NEW ds \in SUBSET Deployments, NEW begun \in SUBSET ds,
             DeployBatch(a, ds, begun)
      PROVE  UNCHANGED <<free, InBatch(b)>>
    BY <1>3 DEF DeployBatch, New, InBatch, Working, TypeOK
<1>4. ASSUME NEW d \in Deployments, NEW n \in Deployments, RetryDeployment(d, n)
      PROVE  UNCHANGED <<free, InBatch(b)>>
    BY <1>4 DEF RetryDeployment, New, InBatch, Working, TypeOK
<1>5. ASSUME NEW d \in Deployments, Cancellation(d)
      PROVE  UNCHANGED <<free, run, via>>
    BY <1>5 DEF Cancellation, CancelBegins, CancelReturns, CancelMoves, CancelRaises,
                CancelAnswered
<1>6. ASSUME NEW old \in SUBSET Deployments, Cleanup(old)
      PROVE  UNCHANGED <<free, run, via>>
    BY <1>6 DEF Cleanup
<1>7. CASE UNCHANGED vars
    BY <1>7 DEF vars, InBatch
<1>8. CASE UNCHANGED <<free, run, via>>
    BY <1>8 DEF InBatch
<1> QED  BY <1>1, <1>2, <1>3, <1>4, <1>5, <1>6, <1>7, <1>8 DEF Next

LEMMA SlotsStep ==
    ASSUME TypeOK, SlotsMatchExecutions, [Next]_vars
    PROVE  SlotsMatchExecutions'
<1> SUFFICES ASSUME NEW b \in Batches
             PROVE  free'[b] + Cardinality(InBatch(b)') = MaxSlots
    BY DEF SlotsMatchExecutions
<1>1. CASE \E d \in Deployments : Begin(d) \/ Reported(d) \/ Raise(d)
    BY <1>1, BeginKeepsSlots, EndKeepsSlots
<1>2. CASE ~\E d \in Deployments : Begin(d) \/ Reported(d) \/ Raise(d)
    BY <1>2, OthersKeepSlots DEF SlotsMatchExecutions
<1> QED  BY <1>1, <1>2

\* Every slot of a batch's semaphore is free or held by exactly one execution that
\* is under way, however executions end and whatever is cancelled meanwhile.
THEOREM SlotsAlwaysMatch == Spec => []SlotsMatchExecutions
<1>1. Init => SlotsMatchExecutions
    <2> SUFFICES ASSUME Init, NEW b \in Batches
                 PROVE  free[b] + Cardinality(InBatch(b)) = MaxSlots
        BY DEF SlotsMatchExecutions
    <2>1. InBatch(b) = {} /\ free[b] = MaxSlots
        BY DEF Init, InBatch, Working
    <2> QED  BY <2>1, FS_EmptySet, DeployerConstants
<1>2. TypeOK /\ SlotsMatchExecutions /\ [Next]_vars => SlotsMatchExecutions'
    BY SlotsStep
<1> QED  BY <1>1, <1>2, TypesHold, PTL DEF Spec

-----------------------------------------------------------------------------
(* The statistics *)

\* the executions whose outcome is known
Known == {d \in Deployments : run[d] \in {"reporting", "erring", "ended"}}

LEMMA OneMore ==
    ASSUME NEW S \in SUBSET Deployments, NEW d \in Deployments, d \notin S
    PROVE  Cardinality(S \cup {d}) = Cardinality(S) + 1 /\ Cardinality(S) \in Nat
    BY DeployerConstants, FS_Subset, FS_AddElement, FS_CardinalityType

LEMMA UncountedStep ==
    ASSUME StatsAddUp, UNCHANGED <<stats, deployed, cancelled>>, Known' = Known
    PROVE  StatsAddUp'
    BY DEF StatsAddUp, Known

LEMMA ExecutionCounts ==
    ASSUME IInv, StatsAddUp, NEW d \in Deployments, Execution(d)
    PROVE  StatsAddUp'
<1>1. CASE Begin(d) \/ Validate(d) \/ Convert(d) \/ Deploy(d) \/ Reported(d) \/ Raise(d)
    <2>1. Known' = Known
        BY <1>1 DEF Begin, Validate, Convert, Deploy, Reported, Raise, GoesOn, Known, IInv, TypeOK
    <2>2. UNCHANGED <<stats, deployed, cancelled>>
        BY <1>1 DEF Begin, Validate, Convert, Deploy, Reported, Raise, GoesOn
    <2> QED  BY <2>1, <2>2, UncountedStep
<1>2. CASE Succeed(d)
    <2>1. /\ run[d] = "deploying" /\ run'[d] = "reporting"
          /\ \A e \in Deployments : e # d => run'[e] = run[e]
          /\ deployed' = deployed \cup {d} /\ cancelled' = cancelled
          /\ stats' = [stats EXCEPT !["success"] = @ + 1]
        BY <1>2 DEF Succeed, GoesOn, Counts, IInv, TypeOK
    <2>2. Known' = Known \cup {d} /\ d \notin Known
        BY <2>1 DEF Known
    <2>3. d \notin deployed /\ deployed \subseteq Deployments
        BY <2>1 DEF IInv, Through, TypeOK
    <2>4. /\ stats["success"] \in Nat /\ stats["failed"] \in Nat
          /\ stats'["success"] = stats["success"] + 1 /\ stats'["failed"] = stats["failed"]
          /\ stats'["cancelled"] = stats["cancelled"]
        BY <2>1 DEF IInv, TypeOK, Final
    <2>5. Cardinality(Known') = Cardinality(Known) + 1 /\ Cardinality(Known) \in Nat
        BY <2>2, OneMore DEF Known
    <2>6. Cardinality(deployed') = Cardinality(deployed) + 1 /\ Cardinality(deployed) \in Nat
        BY <2>1, <2>3, OneMore
    <2>7. stats["success"] = Cardinality(deployed) /\ stats["success"] + stats["failed"] = Cardinality(Known)
          /\ stats["cancelled"] = Cardinality(cancelled)
        BY DEF StatsAddUp, Known
    <2> QED  BY <2>1, <2>4, <2>5, <2>6, <2>7 DEF StatsAddUp, Known
<1>3. CASE Fail(d)
    <2>1. /\ run[d] \in {"validating", "converting", "deploying"} /\ run'[d] = "erring"
          /\ \A e \in Deployments : e # d => run'[e] = run[e]
          /\ deployed' = deployed /\ cancelled' = cancelled
          /\ stats' = [stats EXCEPT !["failed"] = @ + 1]
        BY <1>3 DEF Fail, GoesOn, Counts, IInv, TypeOK
    <2>2. Known' = Known \cup {d} /\ d \notin Known
        BY <2>1 DEF Known
    <2>3. /\ stats["success"] \in Nat /\ stats["failed"] \in Nat
          /\ stats'["success"] = stats["success"] /\ stats'["failed"] = stats["failed"] + 1
          /\ stats'["cancelled"] = stats["cancelled"]
        BY <2>1 DEF IInv, TypeOK, Final
    <2>4. Cardinality(Known') = Cardinality(Known) + 1 /\ Cardinality(Known) \in Nat
        BY <2>2, OneMore DEF Known
    <2>5. stats["success"] = Cardinality(deployed) /\ stats["success"] + stats["failed"] = Cardinality(Known)
          /\ stats["cancelled"] = Cardinality(cancelled)
        BY DEF StatsAddUp, Known
    <2> QED  BY <2>1, <2>3, <2>4, <2>5 DEF StatsAddUp, Known
<1> QED  BY <1>1, <1>2, <1>3 DEF Execution

LEMMA CancellationCounts ==
    ASSUME IInv, StatsAddUp, NEW d \in Deployments, Cancellation(d)
    PROVE  StatsAddUp'
<1>1. Known' = Known /\ deployed' = deployed
    BY DEF Cancellation, CancelBegins, CancelReturns, CancelMoves, CancelRaises, CancelAnswered, Known
<1>2. CASE UNCHANGED <<stats, cancelled>>
    BY <1>1, <1>2, UncountedStep
<1>3. CASE CancelReturns(d) /\ d \in active
    <2>1. cancelled' = cancelled \cup {d} /\ stats' = [stats EXCEPT !["cancelled"] = @ + 1]
        BY <1>3 DEF CancelReturns, CancelMoves, Counts
    <2>2. d \notin cancelled /\ cancelled \subseteq Deployments
        BY <1>3 DEF IInv, Accounted, TypeOK
    <2>3. /\ stats'["success"] = stats["success"] /\ stats'["failed"] = stats["failed"]
          /\ stats'["cancelled"] = stats["cancelled"] + 1
        BY <2>1 DEF IInv, TypeOK, Final
    <2>4. Cardinality(cancelled') = Cardinality(cancelled) + 1
        BY <2>1, <2>2, OneMore
    <2> QED  BY <1>1, <2>3, <2>4 DEF StatsAddUp, Known
<1> QED  BY <1>2, <1>3 DEF Cancellation, CancelBegins, CancelReturns, CancelMoves, CancelRaises

LEMMA StatsStep == IInv /\ StatsAddUp /\ [Next]_vars => StatsAddUp'
<1> SUFFICES ASSUME IInv, StatsAddUp, [Next]_vars PROVE StatsAddUp'
    OBVIOUS
<1>1. ASSUME NEW d \in Deployments, Execution(d) \/ Cancellation(d)
      PROVE  StatsAddUp'
    BY <1>1, ExecutionCounts, CancellationCounts
<1>2. ASSUME NEW d \in Deployments, NEW c \in {Single, Background}, DeploySkill(d, c)
      PROVE  StatsAddUp'
    <2>1. Known' = Known
        BY <1>2 DEF DeploySkill, New, Known, IInv, TypeOK
    <2> QED  BY <1>2, <2>1, UncountedStep DEF DeploySkill, history
<1>3. ASSUME NEW b \in Batches, NEW ds \in SUBSET Deployments, NEW begun \in SUBSET ds,
             DeployBatch(b, ds, begun)
      PROVE  StatsAddUp'
    <2>1. Known' = Known
        BY <1>3 DEF DeployBatch, New, Known, IInv, TypeOK
    <2> QED  BY <1>3, <2>1, UncountedStep DEF DeployBatch, history
<1>4. ASSUME NEW d \in Deployments, NEW n \in Deployments, RetryDeployment(d, n)
      PROVE  StatsAddUp'
    <2>1. Known' = Known
        BY <1>4 DEF RetryDeployment, New, Known, IInv, TypeOK
    <2> QED  BY <1>4, <2>1, UncountedStep DEF RetryDeployment, history
<1>5. ASSUME (\E old \in SUBSET Deployments : Cleanup(old)) \/ UNCHANGED vars
      PROVE  StatsAddUp'
    BY <1>5, UncountedStep DEF Cleanup, vars, history, Known
<1> QED  BY <1>1, <1>2, <1>3, <1>4, <1>5 DEF Next

\* Every execution and every cancellation that succeeded is counted exactly once,
\* however they race.
THEOREM StatsAlwaysAddUp == Spec => []StatsAddUp
<1>1. Init => StatsAddUp
    <2> SUFFICES ASSUME Init PROVE StatsAddUp
        OBVIOUS
    <2>1. {d \in Deployments : run[d] \in {"reporting", "erring", "ended"}} = {}
        BY DEF Init
    <2> QED  BY <2>1, FS_EmptySet DEF Init, StatsAddUp, Final
<1> QED  BY <1>1, IInvInit, IInvStep, StatsStep, PTL DEF Spec

-----------------------------------------------------------------------------
(* Why executions end: the steps of an execution lead on, and none leads back. *)

Stretch(place) ==
    CASE place = "new"        -> 0
      [] place = "scheduled"  -> 1
      [] place = "starting"   -> 2
      [] place = "validating" -> 3
      [] place = "converting" -> 4
      [] place = "deploying"  -> 5
      [] place \in {"reporting", "erring"} -> 6
      [] place \in {"ended", "never"}      -> 7

\* No execution is begun twice, resumed, or set back, by a retry or a batch either.
ExecutionsGoOn ==
    [][\A d \in Deployments :
         run'[d] = run[d] \/ Stretch(run[d]) < Stretch(run'[d])]_vars

LEMMA GoesOnLeadsOn ==
    ASSUME TypeOK, NEW d \in Deployments, NEW from, NEW next, NEW shown,
           GoesOn(d, from, next, shown),
           \A place \in from : Stretch(place) < Stretch(next)
    PROVE  \A e \in Deployments : run'[e] = run[e] \/ Stretch(run[e]) < Stretch(run'[e])
  BY DEF TypeOK, GoesOn

LEMMA ExecutionLeadsOn ==
    ASSUME TypeOK, NEW d \in Deployments, Execution(d)
    PROVE  \A e \in Deployments : run'[e] = run[e] \/ Stretch(run[e]) < Stretch(run'[e])
<1>1. /\ Stretch("scheduled") < Stretch("starting")
      /\ Stretch("starting") < Stretch("validating")
      /\ Stretch("validating") < Stretch("converting")
      /\ Stretch("validating") < Stretch("deploying")
      /\ Stretch("converting") < Stretch("deploying")
      /\ Stretch("deploying") < Stretch("reporting")
      /\ \A place \in {"validating", "converting", "deploying"} : Stretch(place) < Stretch("erring")
      /\ Stretch("reporting") < Stretch("ended")
      /\ Stretch("erring") < Stretch("ended")
    BY DEF Stretch
<1>2. CASE Begin(d)
    BY <1>1, <1>2, GoesOnLeadsOn DEF Begin
<1>3. CASE Validate(d)
    BY <1>1, <1>3, GoesOnLeadsOn DEF Validate
<1>4. CASE Convert(d)
    BY <1>1, <1>4, GoesOnLeadsOn DEF Convert
<1>5. CASE Deploy(d)
    BY <1>1, <1>5, GoesOnLeadsOn DEF Deploy
<1>6. CASE Succeed(d)
    BY <1>1, <1>6, GoesOnLeadsOn DEF Succeed
<1>7. CASE Fail(d)
    BY <1>1, <1>7, GoesOnLeadsOn DEF Fail
<1>8. CASE Reported(d)
    BY <1>1, <1>8, GoesOnLeadsOn DEF Reported
<1>9. CASE Raise(d)
    <2>1. PICK shown : GoesOn(d, {"erring"}, "ended", shown)
        BY <1>9 DEF Raise
    <2> QED  BY <1>1, <2>1, GoesOnLeadsOn
<1> QED  BY <1>2, <1>3, <1>4, <1>5, <1>6, <1>7, <1>8, <1>9 DEF Execution

\* Every change in an execution takes it nearer to its end, and a retry is a new
\* deployment: with an event loop that runs what can run, that is why every
\* execution ends.  (_execute_deployment, retry_deployment.)
THEOREM ExecutionsAlwaysGoOn == Spec => ExecutionsGoOn
<1>1. TypeOK /\ [Next]_vars =>
        [\A d \in Deployments :
           run'[d] = run[d] \/ Stretch(run[d]) < Stretch(run'[d])]_vars
    <2> SUFFICES ASSUME TypeOK, Next
                 PROVE  \A e \in Deployments :
                          run'[e] = run[e] \/ Stretch(run[e]) < Stretch(run'[e])
        OBVIOUS
    <2>1. Stretch("new") < Stretch("scheduled") /\ Stretch("new") < Stretch("never")
        BY DEF Stretch
    <2>2. ASSUME NEW d \in Deployments, Execution(d)
          PROVE  \A e \in Deployments :
                   run'[e] = run[e] \/ Stretch(run[e]) < Stretch(run'[e])
        BY <2>2, ExecutionLeadsOn
    <2>3. ASSUME NEW d \in Deployments, New(d), run' = [run EXCEPT ![d] = "scheduled"]
          PROVE  \A e \in Deployments :
                   run'[e] = run[e] \/ Stretch(run[e]) < Stretch(run'[e])
        BY <2>1, <2>3 DEF New, TypeOK
    <2>4. ASSUME NEW b \in Batches, NEW ds \in SUBSET Deployments, NEW begun \in SUBSET ds,
                 DeployBatch(b, ds, begun)
          PROVE  \A e \in Deployments :
                   run'[e] = run[e] \/ Stretch(run[e]) < Stretch(run'[e])
        BY <2>1, <2>4 DEF DeployBatch, New
    <2>5. CASE UNCHANGED run
        BY <2>5
    <2>6. ASSUME NEW d \in Deployments, NEW caller, DeploySkill(d, caller)
          PROVE  New(d) /\ run' = [run EXCEPT ![d] = "scheduled"]
        BY <2>6 DEF DeploySkill
    <2>7. ASSUME NEW d \in Deployments, NEW n \in Deployments, RetryDeployment(d, n)
          PROVE  New(n) /\ run' = [run EXCEPT ![n] = "scheduled"]
        BY <2>7 DEF RetryDeployment
    <2>8. ASSUME NEW d \in Deployments, Cancellation(d)
          PROVE  UNCHANGED run
        BY <2>8 DEF Cancellation, CancelBegins, CancelReturns, CancelMoves, CancelRaises, CancelAnswered
    <2>9. ASSUME NEW old, Cleanup(old)
          PROVE  UNCHANGED run
        BY <2>9 DEF Cleanup
    <2> QED  BY <2>2, <2>3, <2>4, <2>5, <2>6, <2>7, <2>8, <2>9 DEF Next
<1> QED  BY <1>1, TypesHold, PTL DEF Spec, ExecutionsGoOn

-----------------------------------------------------------------------------
(* PlatformMonitor: the inductive invariant *)

\* Loops are started one after the other, told to cancel only once started, and
\* all over when monitoring goes on, unless a start overtook a stop.
LoopsInTurn ==
    /\ cancelled_loops \subseteq 1..monitoring_task
    /\ is_monitoring => monitoring_task \in Loops
    /\ \A l \in Loops : l > monitoring_task => loop[l] = "none"
    /\ ~overtook /\ is_monitoring => \A l \in cancelled_loops : ~Alive(l)

\* Only a loop that gathers results has checks under way.
LoopsGather ==
    \A l \in Loops, p \in Platforms :
        loop[l] # "checking" \/ l \in cancelled_loops => check[<<l, p>>] = "none"

\* AlertsMatchStatus before the checks are through: once no check is left that
\* has yet to look at the alerts, they match the status, but for a degraded
\* alert that a check is about to resolve.
At(p, place) == {c \in Checks : c[2] = p /\ check[c] = place}
Follow(p) ==
    /\ health[p] = "healthy" =>
          /\ <<p, "unhealthy">> \notin active_alerts
          /\ <<p, "degraded">> \in active_alerts => At(p, "resolving") # {}
    /\ failures[p] >= Threshold => <<p, "unhealthy">> \in active_alerts
    /\ health[p] = "degraded" /\ "overtaken" \notin excused[p]
          => <<p, "degraded">> \in active_alerts
Following(p) ==
    At(p, "reporting") = {} /\ excused[p] \cap {"by hand", "cut off"} = {} => Follow(p)
AlertsFollow == \A p \in Platforms : Following(p)

MonitorInv == MonitorTypeOK /\ LoopsInTurn /\ MonitoredByOne /\ LoopsGather /\ AlertsFollow

(* Types *)

CheckPlaces == {"none", "created", "probing", "reporting", "resolving", "alerting", "announcing"}

LEMMA FoundIsStatus == Found \subseteq {"healthy", "degraded", "unhealthy"}
<1> SUFFICES ASSUME NEW r \in Results
             PROVE  DeterminePlatformStatus(r) \in {"healthy", "degraded", "unhealthy"}
  BY DEF Found
<1> QED BY DEF DeterminePlatformStatus

\* The count of failures stays below the threshold, and is 0 unless unhealthy.
LEMMA FailuresCounted ==
    ASSUME NEW n \in 0..Threshold, NEW st
    PROVE  /\ CountFailures(n, st) \in 0..Threshold
           /\ CountFailures(n, st) > 0 <=> st = "unhealthy"
<1>1. Threshold \in Nat \ {0}
  BY MonitorConstants
<1>2. CASE st = "unhealthy"
  BY <1>1, <1>2 DEF CountFailures
<1>3. CASE st # "unhealthy"
  BY <1>1, <1>3 DEF CountFailures
<1> QED BY <1>2, <1>3

\* Whatever the alerts say, looking at them moves one check on, and opens or
\* closes alerts of its platform.
LEMMA AlertsTypes ==
    ASSUME MonitorTypeOK, NEW c \in Checks, NEW p \in Platforms, NEW st, NEW n,
           CheckAndGenerateAlerts(c, p, st, n) \/ ResolveDegraded(c, p)
    PROVE  /\ active_alerts' \subseteq AlertKeys
           /\ check' \in [Checks -> CheckPlaces]
           /\ \A b \in Checks : b # c => check'[b] = check[b]
<1>1. \A key \in AlertKeys : OpenAlert(c, key) =>
        /\ active_alerts' \subseteq AlertKeys
        /\ \E place \in CheckPlaces : Goes(c, place)
  BY DEF MonitorTypeOK, OpenAlert, CheckPlaces
<1>2. ResolveDegraded(c, p) =>
        /\ active_alerts' \subseteq AlertKeys
        /\ \E place \in CheckPlaces : Goes(c, place)
  BY DEF MonitorTypeOK, ResolveDegraded, CheckPlaces
<1>3. <<p, "unhealthy">> \in AlertKeys /\ <<p, "degraded">> \in AlertKeys
  BY DEF AlertKeys
<1>4. "announcing" \in CheckPlaces /\ "resolving" \in CheckPlaces
  BY DEF CheckPlaces
<1>5. /\ active_alerts' \subseteq AlertKeys
      /\ \E place \in CheckPlaces : Goes(c, place)
  BY <1>1, <1>2, <1>3, <1>4 DEF CheckAndGenerateAlerts, MonitorTypeOK
<1>6. PICK place \in CheckPlaces : check' = [check EXCEPT ![c] = place]
  BY <1>5 DEF Goes
<1>7. check \in [Checks -> CheckPlaces]
  BY DEF MonitorTypeOK, CheckPlaces
<1> QED BY <1>5, <1>6, <1>7

LEMMA CheckTypes ==
    ASSUME MonitorTypeOK, NEW c \in Checks, ClientChecks(c) \/ CheckStep(c)
    PROVE  MonitorTypeOK'
<1>0. c[2] \in Platforms /\ check \in [Checks -> CheckPlaces]
  BY DEF Checks, MonitorTypeOK, CheckPlaces
<1> DEFINE p == c[2]
<1>1. CASE ClientChecks(c) \/ CheckBegins(c) \/ Alerted(c) \/ Announced(c)
  <2>1. PICK place \in CheckPlaces : check' = [check EXCEPT ![c] = place]
    BY <1>1 DEF ClientChecks, CheckBegins, Alerted, Announced, Goes, CheckPlaces
  <2>2. check' \in [Checks -> CheckPlaces]
    BY <1>0, <2>1
  <2>3. UNCHANGED <<registry, health, failures, active_alerts, excused, monitoring>>
    BY <1>1 DEF ClientChecks, CheckBegins, Alerted, Announced
  <2> QED BY <2>2, <2>3 DEF MonitorTypeOK, registry, monitoring, CheckPlaces
<1>2. CASE Probed(c)
  <2>1. PICK st \in Found :
          /\ health' = [health EXCEPT ![p] = st]
          /\ failures' = [failures EXCEPT ![p] = CountFailures(failures[p], st)]
          /\ excused' = [excused EXCEPT ![p] = {}]
          /\ \/ Goes(c, "reporting") /\ UNCHANGED active_alerts
             \/ CheckAndGenerateAlerts(c, p, st, CountFailures(failures[p], st))
    BY <1>2 DEF Probed
  <2> DEFINE n == CountFailures(failures[p], st)
  <2>2. n \in 0..Threshold /\ (n > 0 <=> st = "unhealthy")
    <3>1. failures[p] \in 0..Threshold
      BY <1>0 DEF MonitorTypeOK
    <3> QED BY <3>1, FailuresCounted
  <2> HIDE DEF n
  <2>3. failures' = [failures EXCEPT ![p] = n]
    BY <2>1 DEF n
  <2>4. active_alerts' \subseteq AlertKeys /\ check' \in [Checks -> CheckPlaces]
    <3>1. CASE Goes(c, "reporting") /\ active_alerts' = active_alerts
      BY <1>0, <3>1 DEF Goes, MonitorTypeOK, CheckPlaces
    <3>2. CASE CheckAndGenerateAlerts(c, p, st, n)
      BY <1>0, <3>2, AlertsTypes
    <3> QED BY <2>1, <3>1, <3>2 DEF n
  <2>5. st \in {"unknown", "healthy", "degraded", "unhealthy"}
    BY FoundIsStatus
  <2>6. /\ health' \in [Platforms -> {"unknown", "healthy", "degraded", "unhealthy"}]
        /\ \A q \in Platforms : health'[q] = IF q = p THEN st ELSE health[q]
    BY <2>1, <2>5 DEF MonitorTypeOK
  <2>7. /\ failures' \in [Platforms -> 0..Threshold]
        /\ \A q \in Platforms : failures'[q] = IF q = p THEN n ELSE failures[q]
    BY <2>2, <2>3 DEF MonitorTypeOK
  <2>8. \A q \in Platforms : failures'[q] > 0 <=> health'[q] = "unhealthy"
    BY <2>2, <2>6, <2>7 DEF MonitorTypeOK
  <2>9. excused' \in [Platforms -> SUBSET {"by hand", "cut off", "overtaken"}]
    BY <2>1 DEF MonitorTypeOK
  <2>10. UNCHANGED <<registry, monitoring>>
    BY <1>2 DEF Probed
  <2> QED BY <2>4, <2>6, <2>7, <2>8, <2>9, <2>10 DEF MonitorTypeOK, registry, monitoring, CheckPlaces
<1>3. CASE StatusReported(c)
  <2>1. /\ CheckAndGenerateAlerts(c, p, health[p], failures[p])
        /\ UNCHANGED <<registry, health, failures, excused, monitoring>>
    BY <1>3 DEF StatusReported
  <2>2. active_alerts' \subseteq AlertKeys /\ check' \in [Checks -> CheckPlaces]
    BY <1>0, <2>1, AlertsTypes
  <2> QED BY <2>1, <2>2 DEF MonitorTypeOK, registry, monitoring, CheckPlaces
<1>4. CASE Resolved(c)
  <2>1. /\ ResolveDegraded(c, p)
        /\ excused' = excused \/ excused' = [excused EXCEPT ![p] = @ \cup {"overtaken"}]
        /\ UNCHANGED <<registry, health, failures, monitoring>>
    BY <1>4 DEF Resolved
  <2>2. active_alerts' \subseteq AlertKeys /\ check' \in [Checks -> CheckPlaces]
    BY <1>0, <2>1, AlertsTypes
  <2>3. excused' \in [Platforms -> SUBSET {"by hand", "cut off", "overtaken"}]
    <3>1. CASE excused' = excused
      BY <3>1 DEF MonitorTypeOK
    <3>2. CASE excused' = [excused EXCEPT ![p] = @ \cup {"overtaken"}]
      <4>1. excused[p] \cup {"overtaken"} \in SUBSET {"by hand", "cut off", "overtaken"}
        BY <1>0 DEF MonitorTypeOK
      <4> QED BY <1>0, <3>2, <4>1 DEF MonitorTypeOK
    <3> QED BY <2>1, <3>1, <3>2
  <2> QED BY <2>1, <2>2, <2>3 DEF MonitorTypeOK, registry, monitoring, CheckPlaces
<1> QED BY <1>1, <1>2, <1>3, <1>4 DEF CheckStep

LEMMA MonitoringTypes ==
    ASSUME MonitorTypeOK, LoopsInTurn,
           \/ StartMonitoring \/ StopMonitoring
           \/ \E l \in Loops : LoopStep(l)
           \/ \E key \in AlertKeys : ResolveAlert(key)
           \/ \E p \in Platforms : RegistryStep(p)
    PROVE  MonitorTypeOK'
<1>0. MaxStarts \in Nat /\ Loops = 1..MaxStarts
  BY MonitorConstants DEF Loops
<1>1. CASE StartMonitoring
  <2>1. monitoring_task + 1 \in 0..MaxStarts
    <3>1. monitoring_task \in 0..MaxStarts /\ monitoring_task < MaxStarts
      BY <1>1 DEF StartMonitoring, MonitorTypeOK
    <3> QED BY <1>0, <3>1
  <2>2. overtook' \in BOOLEAN
    <3>1. overtook' = (overtook \/ \E l \in cancelled_loops : Alive(l))
      BY <1>1 DEF StartMonitoring
    <3> QED BY ONLY <3>1, Zenon
  <2> QED BY <1>1, <2>1, <2>2 DEF StartMonitoring, MonitorTypeOK, registry
<1>2. CASE StopMonitoring
  <2>1. monitoring_task \in 0..MaxStarts /\ check \in [Checks -> CheckPlaces]
    BY DEF MonitorTypeOK, CheckPlaces
  <2>2. monitoring_task \in Loops
    BY <1>2 DEF StopMonitoring, LoopsInTurn
  <2> QED BY <1>2, <2>1, <2>2 DEF StopMonitoring, MonitorTypeOK, registry, CheckPlaces
<1>3. ASSUME NEW l \in Loops, LoopStep(l) PROVE MonitorTypeOK'
  BY <1>3 DEF LoopStep, LoopTests, LoopSleeps, LoopCancelled, MonitorTypeOK, registry
<1>4. ASSUME NEW key \in AlertKeys, ResolveAlert(key) PROVE MonitorTypeOK'
  <2>1. key[1] \in Platforms
    BY DEF AlertKeys
  <2> QED BY <1>4, <2>1 DEF ResolveAlert, MonitorTypeOK, registry, monitoring
<1>5. ASSUME NEW p \in Platforms, RegistryStep(p) PROVE MonitorTypeOK'
  BY <1>5 DEF RegistryStep, RegisterAdapter, LoadAdapter, UnloadAdapter, UnregisterAdapter,
     MonitorTypeOK, monitoring
<1> QED BY <1>1, <1>2, <1>3, <1>4, <1>5

-----------------------------------------------------------------------------
(* PlatformMonitor: one loop at work *)

\* Loops do not end by themselves while monitoring goes on.
LEMMA CheckKeepsLoops ==
    ASSUME LoopsInTurn, MonitoredByOne, UNCHANGED monitoring
    PROVE  LoopsInTurn' /\ MonitoredByOne'
BY DEF LoopsInTurn, MonitoredByOne, monitoring, Alive

LEMMA StartKeepsLoops ==
    ASSUME MonitorTypeOK, LoopsInTurn, MonitoredByOne, StartMonitoring
    PROVE  LoopsInTurn' /\ MonitoredByOne'
<1> DEFINE m == monitoring_task + 1
<1>1. /\ ~is_monitoring /\ is_monitoring' = TRUE /\ monitoring_task' = m
      /\ loop' = [loop EXCEPT ![m] = "starting"] /\ cancelled_loops' = cancelled_loops
      /\ monitoring_task < MaxStarts
  BY DEF StartMonitoring
<1>2. ~overtook' => ~overtook /\ \A l \in cancelled_loops : ~Alive(l)
  <2>1. overtook' = (overtook \/ \E l \in cancelled_loops : Alive(l))
    BY DEF StartMonitoring
  <2> QED BY ONLY <2>1, Zenon
<1>3. monitoring_task \in Nat /\ MaxStarts \in Nat
  <2>1. monitoring_task \in 0..MaxStarts
    BY DEF MonitorTypeOK
  <2> QED BY <2>1, MonitorConstants
<1>4. m \in Loops /\ m \in Nat /\ ~(m <= monitoring_task)
  BY <1>1, <1>3 DEF Loops
<1>5. m \notin cancelled_loops /\ cancelled_loops \subseteq 1..m
  BY <1>3, <1>4 DEF LoopsInTurn
<1>6. \A l \in Loops : loop'[l] = IF l = m THEN "starting" ELSE loop[l]
  BY <1>1 DEF MonitorTypeOK
<1>7. \A l \in Loops : l > m => loop'[l] = "none"
  BY <1>3, <1>4, <1>6 DEF LoopsInTurn, Loops
<1>8. cancelled_loops \subseteq Loops
  BY DEF MonitorTypeOK
<1> HIDE DEF m
<1>9. ~overtook' => \A l \in cancelled_loops : ~Alive(l)'
  BY <1>2, <1>5, <1>6, <1>8 DEF Alive
<1>10. loop'[m] \notin {"none", "ended"}
  BY <1>4, <1>6
<1>11. ~overtook' => \A l \in Loops : Alive(l)' /\ l \notin cancelled_loops => l = m
  BY <1>1, <1>2, <1>6 DEF Alive, MonitoredByOne
<1>12. LoopsInTurn'
  BY <1>1, <1>4, <1>5, <1>7, <1>9 DEF LoopsInTurn
<1>13. MonitoredByOne'
  <2>1. loop'[monitoring_task'] \notin {"none", "ended"} /\ monitoring_task' \notin cancelled_loops'
    BY <1>1, <1>5, <1>10
  <2> QED BY <1>1, <1>11, <2>1 DEF MonitoredByOne, Alive
<1> QED BY <1>12, <1>13

LEMMA StopKeepsLoops ==
    ASSUME MonitorTypeOK, LoopsInTurn, MonitoredByOne, StopMonitoring
    PROVE  LoopsInTurn' /\ MonitoredByOne'
<1>1. /\ is_monitoring /\ is_monitoring' = FALSE
      /\ cancelled_loops' = cancelled_loops \cup {monitoring_task}
      /\ monitoring_task' = monitoring_task /\ loop' = loop /\ overtook' = overtook
  BY DEF StopMonitoring
<1>2. monitoring_task \in 1..monitoring_task
  BY <1>1, MonitorConstants DEF LoopsInTurn, Loops
<1> QED BY <1>1, <1>2 DEF LoopsInTurn, MonitoredByOne, Alive

LEMMA LoopKeepsLoops ==
    ASSUME MonitorTypeOK, LoopsInTurn, MonitoredByOne, NEW l \in Loops, LoopStep(l)
    PROVE  LoopsInTurn' /\ MonitoredByOne'
<1>0. monitoring_task \in Nat /\ l \in Nat
  <2>1. monitoring_task \in 0..MaxStarts
    BY DEF MonitorTypeOK
  <2> QED BY <2>1, MonitorConstants DEF Loops
<1>1. CASE LoopTests(l) \/ LoopSleeps(l)
  <2>1. PICK place \in {"checking", "sleeping", "ended"} :
          /\ loop' = [loop EXCEPT ![l] = place]
          /\ is_monitoring => place # "ended"
          /\ l \notin cancelled_loops /\ Alive(l)
          /\ UNCHANGED <<is_monitoring, monitoring_task, cancelled_loops, overtook>>
    BY <1>1 DEF LoopTests, LoopSleeps, Alive
  <2>2. \A k \in Loops : loop'[k] = IF k = l THEN place ELSE loop[k]
    BY <2>1 DEF MonitorTypeOK
  <2>3. \A k \in Loops : k # l => (Alive(k)' <=> Alive(k))
    BY <2>2 DEF Alive
  <2>4. LoopsInTurn'
    <3>1. l <= monitoring_task
      BY <1>0, <2>1 DEF LoopsInTurn, Alive
    <3>2. \A k \in Loops : k > monitoring_task => loop'[k] = "none"
      BY <1>0, <2>2, <3>1 DEF LoopsInTurn
    <3>3. cancelled_loops \subseteq Loops
      BY DEF MonitorTypeOK
    <3> QED BY <2>1, <2>3, <3>2, <3>3 DEF LoopsInTurn
  <2>5. MonitoredByOne'
    <3>1. is_monitoring => loop'[monitoring_task] \notin {"none", "ended"}
      <4> SUFFICES ASSUME is_monitoring PROVE loop'[monitoring_task] \notin {"none", "ended"}
        OBVIOUS
      <4>1. monitoring_task \in Loops /\ loop[monitoring_task] \notin {"none", "ended"}
        BY DEF LoopsInTurn, MonitoredByOne, Alive
      <4> QED BY <2>1, <2>2, <4>1
    <3>2. is_monitoring => monitoring_task \notin cancelled_loops
      BY DEF MonitoredByOne
    <3>3. ASSUME ~overtook, NEW k \in Loops, Alive(k)', k \notin cancelled_loops
          PROVE  is_monitoring /\ k = monitoring_task
      <4>1. Alive(k)
        BY <2>1, <2>3, <3>3
      <4> QED BY <3>3, <4>1 DEF MonitoredByOne
    <3> QED BY <2>1, <3>1, <3>2, <3>3 DEF MonitoredByOne, Alive
  <2> QED BY <2>4, <2>5
<1>2. CASE LoopCancelled(l)
  <2>1. /\ l \in cancelled_loops /\ Alive(l)
        /\ loop' = [loop EXCEPT ![l] = "ended"]
        /\ is_monitoring' => is_monitoring
        /\ UNCHANGED <<monitoring_task, cancelled_loops, overtook>>
    BY <1>2 DEF LoopCancelled
  <2>2. \A k \in Loops : loop'[k] = IF k = l THEN "ended" ELSE loop[k]
    BY <2>1 DEF MonitorTypeOK
  <2>3. \A k \in Loops : Alive(k)' <=> Alive(k) /\ k # l
    BY <2>2 DEF Alive
  <2>4. LoopsInTurn'
    <3>1. l <= monitoring_task
      BY <1>0, <2>1 DEF LoopsInTurn
    <3>2. \A k \in Loops : k > monitoring_task => loop'[k] = "none"
      BY <1>0, <2>2, <3>1 DEF LoopsInTurn
    <3>3. cancelled_loops \subseteq Loops
      BY DEF MonitorTypeOK
    <3> QED BY <2>1, <2>3, <3>2, <3>3 DEF LoopsInTurn
  <2>5. MonitoredByOne'
    <3>1. is_monitoring' => loop'[monitoring_task] \notin {"none", "ended"} /\ monitoring_task \notin cancelled_loops
      BY <2>1, <2>2 DEF MonitoredByOne, LoopsInTurn, Alive
    <3>2. ASSUME ~overtook, NEW k \in Loops, Alive(k)', k \notin cancelled_loops
          PROVE  FALSE \/ (is_monitoring' /\ k = monitoring_task)
      <4>1. is_monitoring
        BY <2>3, <3>2 DEF MonitoredByOne
      <4> QED BY <2>1, <3>2, <4>1 DEF LoopsInTurn
    <3> QED BY <2>1, <3>1, <3>2 DEF MonitoredByOne, Alive
  <2> QED BY <2>4, <2>5
<1> QED BY <1>1, <1>2 DEF LoopStep

-----------------------------------------------------------------------------
(* PlatformMonitor: a loop has no checks left when it starts others *)

\* What a step of a check does to the checks.
LEMMA CheckMoves ==
    ASSUME MonitorTypeOK, NEW c \in Checks, ClientChecks(c) \/ CheckStep(c)
    PROVE  /\ check' \in [Checks -> CheckPlaces]
           /\ \A b \in Checks : b # c => check'[b] = check[b]
           /\ check[c] # "none" \/ c[1] \in Clients
           /\ UNCHANGED monitoring
<1>0. c[2] \in Platforms /\ check \in [Checks -> CheckPlaces]
  BY DEF Checks, MonitorTypeOK, CheckPlaces
<1>1. ASSUME NEW place \in CheckPlaces, Goes(c, place)
      PROVE  check' \in [Checks -> CheckPlaces] /\ \A b \in Checks : b # c => check'[b] = check[b]
  BY <1>0, <1>1 DEF Goes
<1>2. ASSUME NEW st, NEW n, CheckAndGenerateAlerts(c, c[2], st, n) \/ ResolveDegraded(c, c[2])
      PROVE  check' \in [Checks -> CheckPlaces] /\ \A b \in Checks : b # c => check'[b] = check[b]
  BY <1>0, <1>2, AlertsTypes
<1>3. CASE ClientChecks(c) \/ CheckBegins(c) \/ Alerted(c) \/ Announced(c)
  <2>1. \E place \in CheckPlaces : Goes(c, place)
    BY <1>3 DEF ClientChecks, CheckBegins, Alerted, Announced, CheckPlaces
  <2> QED BY <1>1, <1>3, <2>1 DEF ClientChecks, CheckBegins, Alerted, Announced
<1>4. CASE Probed(c)
  <2>1. PICK st \in Found :
          \/ Goes(c, "reporting")
          \/ CheckAndGenerateAlerts(c, c[2], st, CountFailures(failures[c[2]], st))
    BY <1>4 DEF Probed
  <2>2. "reporting" \in CheckPlaces
    BY DEF CheckPlaces
  <2>3. check[c] = "probing" /\ UNCHANGED monitoring
    BY <1>4 DEF Probed
  <2> QED BY <1>1, <1>2, <2>1, <2>2, <2>3
<1>5. CASE StatusReported(c)
  BY <1>2, <1>5 DEF StatusReported
<1>6. CASE Resolved(c)
  BY <1>2, <1>6 DEF Resolved
<1> QED BY <1>3, <1>4, <1>5, <1>6 DEF CheckStep

LEMMA CheckKeepsGathering ==
    ASSUME MonitorTypeOK, LoopsGather, NEW c \in Checks, ClientChecks(c) \/ CheckStep(c)
    PROVE  LoopsGather'
<1>1. /\ \A b \in Checks : b # c => check'[b] = check[b]
      /\ check[c] # "none" \/ c[1] \in Clients
      /\ loop' = loop /\ cancelled_loops' = cancelled_loops
  BY CheckMoves DEF monitoring
<1> SUFFICES ASSUME NEW l \in Loops, NEW p \in Platforms, loop[l] # "checking" \/ l \in cancelled_loops
             PROVE  check'[<<l, p>>] = "none"
  BY <1>1 DEF LoopsGather
<1>2. check[<<l, p>>] = "none" /\ <<l, p>> \in Checks
  BY DEF LoopsGather, Checks
<1>3. <<l, p>> # c
  <2>1. l \notin Clients
    BY MonitorConstants
  <2> QED BY <1>1, <1>2, <2>1
<1> QED BY <1>1, <1>2, <1>3

LEMMA MonitoringKeepsGathering ==
    ASSUME MonitorTypeOK, LoopsInTurn, LoopsGather,
           StartMonitoring \/ StopMonitoring \/ \E l \in Loops : LoopStep(l)
    PROVE  LoopsGather'
<1>0. \A l \in Loops, p \in Platforms : <<l, p>> \in Checks /\ <<l, p>>[1] = l
  BY DEF Checks
<1>1. CASE StartMonitoring
  <2> DEFINE m == monitoring_task + 1
  <2>1. /\ loop' = [loop EXCEPT ![m] = "starting"] /\ check' = check
        /\ cancelled_loops' = cancelled_loops /\ monitoring_task < MaxStarts
    BY <1>1 DEF StartMonitoring
  <2>2. m \in Loops /\ m > monitoring_task
    <3>1. monitoring_task \in 0..MaxStarts /\ MaxStarts \in Nat
      BY MonitorConstants DEF MonitorTypeOK
    <3> QED BY <2>1, <3>1 DEF Loops
  <2>3. loop[m] = "none"
    BY <2>2 DEF LoopsInTurn
  <2> HIDE DEF m
  <2>4. \A l \in Loops : loop'[l] = IF l = m THEN "starting" ELSE loop[l]
    BY <2>1 DEF MonitorTypeOK
  <2> QED BY <2>1, <2>3, <2>4 DEF LoopsGather
<1>2. CASE StopMonitoring
  <2>1. /\ \A c \in Checks : check'[c] = IF c[1] = monitoring_task THEN "none" ELSE check[c]
        /\ cancelled_loops' = cancelled_loops \cup {monitoring_task} /\ loop' = loop
    BY <1>2 DEF StopMonitoring
  <2> QED BY <1>0, <2>1 DEF LoopsGather
<1>3. ASSUME NEW l \in Loops, LoopTests(l) PROVE LoopsGather'
  <2>1. /\ \A c \in Checks : check'[c] = IF c[1] = l /\ is_monitoring /\ c[2] \in registered
                                         THEN "created" ELSE check[c]
        /\ cancelled_loops' = cancelled_loops /\ l \notin cancelled_loops
        /\ loop[l] \in {"starting", "sleeping"}
    BY <1>3 DEF LoopTests
  <2>2. \A k \in Loops : loop'[k] = IF k # l THEN loop[k]
                                    ELSE IF is_monitoring THEN "checking" ELSE "ended"
    BY <1>3 DEF LoopTests, MonitorTypeOK
  <2> SUFFICES ASSUME NEW k \in Loops, NEW p \in Platforms,
                      loop'[k] # "checking" \/ k \in cancelled_loops
               PROVE  check'[<<k, p>>] = "none"
    BY <2>1 DEF LoopsGather
  <2>3. CASE k = l
    <3>1. ~is_monitoring
      BY <2>1, <2>2, <2>3
    <3>2. check[<<k, p>>] = "none"
      BY <2>1, <2>3 DEF LoopsGather
    <3> QED BY <1>0, <2>1, <3>1, <3>2
  <2>4. CASE k # l
    <3>1. check[<<k, p>>] = "none"
      BY <2>2, <2>4 DEF LoopsGather
    <3> QED BY <1>0, <2>1, <2>4, <3>1
  <2> QED BY <2>3, <2>4
<1>4. ASSUME NEW l \in Loops, LoopSleeps(l) PROVE LoopsGather'
  BY <1>4 DEF LoopSleeps, LoopsGather, MonitorTypeOK
<1>5. ASSUME NEW l \in Loops, LoopCancelled(l) PROVE LoopsGather'
  BY <1>5 DEF LoopCancelled, LoopsGather, MonitorTypeOK
<1> QED BY <1>1, <1>2, <1>3, <1>4, <1>5 DEF LoopStep

-----------------------------------------------------------------------------
(* PlatformMonitor: the alerts follow the status *)

\* A platform is left alone by a step that leaves its snapshot and its alerts,
\* and that no check of it takes from looking at the alerts or from resolving.
LEMMA LeftAlone ==
    ASSUME NEW p \in Platforms, Following(p),
           health'[p] = health[p], failures'[p] = failures[p], excused'[p] = excused[p],
           \A kind \in {"unhealthy", "degraded"} :
               <<p, kind>> \in active_alerts' <=> <<p, kind>> \in active_alerts,
           \A c \in Checks : c[2] = p /\ check[c] \in {"reporting", "resolving"} => check'[c] = check[c]
    PROVE  Following(p)'
<1>1. At(p, "reporting")' = {} => At(p, "reporting") = {}
  BY DEF At
<1>2. At(p, "resolving") # {} => At(p, "resolving")' # {}
  BY DEF At
<1>3. /\ <<p, "unhealthy">> \in active_alerts' <=> <<p, "unhealthy">> \in active_alerts
      /\ <<p, "degraded">> \in active_alerts' <=> <<p, "degraded">> \in active_alerts
  OBVIOUS
<1> QED BY <1>1, <1>2, <1>3 DEF Following, Follow

\* A check that has looked at the alerts leaves them as the snapshot says, or
\* is about to resolve the second one.
LEMMA GeneratedFollow ==
    ASSUME MonitorTypeOK, NEW c \in Checks, NEW p \in Platforms, c[2] = p,
           NEW st \in {"unknown", "healthy", "degraded", "unhealthy"}, NEW n \in 0..Threshold,
           n > 0 <=> st = "unhealthy",
           CheckAndGenerateAlerts(c, p, st, n), health'[p] = st, failures'[p] = n
    PROVE  Following(p)'
<1>1. Threshold \in Nat \ {0} /\ n \in Nat
  BY MonitorConstants
<1>2. CASE st = "unhealthy"
  <2>1. n >= Threshold => <<p, "unhealthy">> \in active_alerts'
    BY <1>1, <1>2 DEF CheckAndGenerateAlerts, OpenAlert
  <2> QED BY <1>2, <2>1 DEF Following, Follow
<1>3. CASE st = "degraded"
  <2>1. ~(n >= Threshold)
    BY <1>1, <1>3
  <2>2. <<p, "degraded">> \in active_alerts'
    BY <1>3 DEF CheckAndGenerateAlerts, OpenAlert
  <2> QED BY <1>3, <2>1, <2>2 DEF Following, Follow
<1>4. CASE st = "healthy"
  <2>1. ~(n >= Threshold)
    BY <1>1, <1>4
  <2>2. CASE <<p, "unhealthy">> \in active_alerts
    <3>1. active_alerts' = active_alerts \ {<<p, "unhealthy">>} /\ Goes(c, "resolving")
      BY <1>4, <2>2 DEF CheckAndGenerateAlerts
    <3>2. c \in At(p, "resolving")'
      BY <3>1 DEF At, Goes, MonitorTypeOK
    <3> QED BY <1>4, <2>1, <3>1, <3>2 DEF Following, Follow
  <2>3. CASE <<p, "unhealthy">> \notin active_alerts
    <3>1. ResolveDegraded(c, p)
      BY <1>4, <2>3 DEF CheckAndGenerateAlerts
    <3>2. <<p, "unhealthy">> \notin active_alerts' /\ <<p, "degraded">> \notin active_alerts'
      BY <2>3, <3>1 DEF ResolveDegraded
    <3> QED BY <1>4, <2>1, <3>2 DEF Following, Follow
  <2> QED BY <2>2, <2>3
<1>5. CASE st = "unknown"
  <2>1. ~(n >= Threshold)
    BY <1>1, <1>5
  <2> QED BY <1>5, <2>1 DEF Following, Follow
<1> QED BY <1>2, <1>3, <1>4, <1>5

\* Looking at the alerts of one platform is nothing to the others.
LEMMA OthersAlerts ==
    ASSUME NEW c, NEW p, NEW st, NEW n, NEW q, q # p, NEW kind,
           CheckAndGenerateAlerts(c, p, st, n) \/ ResolveDegraded(c, p)
    PROVE  <<q, kind>> \in active_alerts' <=> <<q, kind>> \in active_alerts
<1>1. \A any : <<q, kind>> # <<p, any>>
  OBVIOUS
<1>2. ASSUME NEW key, key # <<q, kind>>, OpenAlert(c, key)
      PROVE  <<q, kind>> \in active_alerts' <=> <<q, kind>> \in active_alerts
  BY <1>2 DEF OpenAlert
<1>3. ASSUME ResolveDegraded(c, p)
      PROVE  <<q, kind>> \in active_alerts' <=> <<q, kind>> \in active_alerts
  BY <1>1, <1>3 DEF ResolveDegraded
<1> QED BY <1>1, <1>2, <1>3 DEF CheckAndGenerateAlerts

LEMMA CheckKeepsFollowing ==
    ASSUME MonitorTypeOK, AlertsFollow, NEW c \in Checks, ClientChecks(c) \/ CheckStep(c)
    PROVE  AlertsFollow'
<1> DEFINE p == c[2]
<1>0. p \in Platforms
  BY DEF Checks
<1>1. /\ \A b \in Checks : b # c => check'[b] = check[b]
      /\ check \in [Checks -> CheckPlaces]
  BY CheckMoves DEF MonitorTypeOK, CheckPlaces
<1>2. ASSUME NEW q \in Platforms, q # p,
             health'[q] = health[q], failures'[q] = failures[q], excused'[q] = excused[q],
             \A kind \in {"unhealthy", "degraded"} :
               <<q, kind>> \in active_alerts' <=> <<q, kind>> \in active_alerts
      PROVE  Following(q)'
  BY <1>1, <1>2, LeftAlone DEF AlertsFollow
<1>3. CASE ClientChecks(c) \/ CheckBegins(c) \/ Alerted(c) \/ Announced(c)
  <2>1. /\ check[c] \notin {"reporting", "resolving"}
        /\ UNCHANGED <<health, failures, active_alerts, excused>>
    BY <1>3 DEF ClientChecks, CheckBegins, Alerted, Announced
  <2> SUFFICES ASSUME NEW q \in Platforms PROVE Following(q)'
    BY DEF AlertsFollow
  <2>2. \A b \in Checks : b[2] = q /\ check[b] \in {"reporting", "resolving"} => check'[b] = check[b]
    BY <1>1, <2>1
  <2> QED BY <2>1, <2>2, LeftAlone DEF AlertsFollow
<1>4. CASE Probed(c)
  <2>1. PICK st \in Found :
          /\ health' = [health EXCEPT ![p] = st]
          /\ failures' = [failures EXCEPT ![p] = CountFailures(failures[p], st)]
          /\ excused' = [excused EXCEPT ![p] = {}]
          /\ \/ Goes(c, "reporting") /\ UNCHANGED active_alerts
             \/ CheckAndGenerateAlerts(c, p, st, CountFailures(failures[p], st))
    BY <1>4 DEF Probed
  <2> DEFINE n == CountFailures(failures[p], st)
  <2>2. n \in 0..Threshold /\ (n > 0 <=> st = "unhealthy")
    <3>1. failures[p] \in 0..Threshold
      BY <1>0 DEF MonitorTypeOK
    <3> QED BY <3>1, FailuresCounted
  <2>3. /\ \A q \in Platforms : health'[q] = IF q = p THEN st ELSE health[q]
        /\ \A q \in Platforms : excused'[q] = IF q = p THEN {} ELSE excused[q]
    BY <2>1 DEF MonitorTypeOK
  <2>4. \A q \in Platforms : failures'[q] = IF q = p THEN n ELSE failures[q]
    BY <2>1 DEF MonitorTypeOK
  <2>5. \/ check' = [check EXCEPT ![c] = "reporting"] /\ active_alerts' = active_alerts
        \/ CheckAndGenerateAlerts(c, p, st, n)
    BY <2>1 DEF Goes
  <2> HIDE DEF n
  <2>6. Following(p)'
    <3>1. CASE CheckAndGenerateAlerts(c, p, st, n)
      <4>1. st \in {"unknown", "healthy", "degraded", "unhealthy"}
        BY FoundIsStatus
      <4>2. health'[p] = st /\ failures'[p] = n
        BY <1>0, <2>3, <2>4
      <4> QED BY <1>0, <2>2, <3>1, <4>1, <4>2, GeneratedFollow
    <3>2. CASE check' = [check EXCEPT ![c] = "reporting"]
      <4>1. c \in At(p, "reporting")'
        BY <1>1, <3>2 DEF At
      <4> QED BY <4>1 DEF Following
    <3> QED BY <2>5, <3>1, <3>2
  <2>7. ASSUME NEW q \in Platforms, q # p PROVE Following(q)'
    <3>1. \A kind \in {"unhealthy", "degraded"} :
               <<q, kind>> \in active_alerts' <=> <<q, kind>> \in active_alerts
      BY <2>5, <2>7, OthersAlerts
    <3> QED BY <1>2, <2>3, <2>4, <2>7, <3>1
  <2> QED BY <2>6, <2>7 DEF AlertsFollow
<1>5. CASE StatusReported(c)
  <2>1. /\ CheckAndGenerateAlerts(c, p, health[p], failures[p])
        /\ UNCHANGED <<health, failures, excused>>
    BY <1>5 DEF StatusReported
  <2>2. /\ health[p] \in {"unknown", "healthy", "degraded", "unhealthy"}
        /\ failures[p] \in 0..Threshold
        /\ failures[p] > 0 <=> health[p] = "unhealthy"
    BY <1>0 DEF MonitorTypeOK
  <2>3. Following(p)'
    BY <1>0, <2>1, <2>2, GeneratedFollow
  <2>4. ASSUME NEW q \in Platforms, q # p PROVE Following(q)'
    <3>1. \A kind \in {"unhealthy", "degraded"} :
               <<q, kind>> \in active_alerts' <=> <<q, kind>> \in active_alerts
      BY <2>1, <2>4, OthersAlerts
    <3> QED BY <1>2, <2>1, <2>4, <3>1
  <2> QED BY <2>3, <2>4 DEF AlertsFollow
<1>6. CASE Resolved(c)
  <2>1. /\ check[c] = "resolving" /\ ResolveDegraded(c, p)
        /\ excused' = IF health[p] = "healthy" \/ <<p, "degraded">> \notin active_alerts
                      THEN excused ELSE [excused EXCEPT ![p] = excused[p] \cup {"overtaken"}]
        /\ UNCHANGED <<health, failures>>
    BY <1>6 DEF Resolved
  <2>2. /\ <<p, "degraded">> \notin active_alerts'
        /\ <<p, "unhealthy">> \in active_alerts' <=> <<p, "unhealthy">> \in active_alerts
    BY <2>1 DEF ResolveDegraded
  <2>3. /\ \A q \in Platforms : q # p => excused'[q] = excused[q]
        /\ excused[p] \subseteq excused'[p]
        /\ health[p] = "degraded" /\ "overtaken" \notin excused'[p] => <<p, "degraded">> \notin active_alerts
    BY <1>0, <2>1 DEF MonitorTypeOK
  <2>4. Following(p)'
    <3> SUFFICES ASSUME At(p, "reporting")' = {}, excused'[p] \cap {"by hand", "cut off"} = {}
                 PROVE  Follow(p)'
      BY DEF Following
    <3>1. At(p, "reporting") = {}
      BY <1>1, <2>1 DEF At
    <3>2. Follow(p)
      BY <1>0, <2>3, <3>1 DEF AlertsFollow, Following
    <3> QED BY <2>1, <2>2, <2>3, <3>2 DEF Follow
  <2>5. ASSUME NEW q \in Platforms, q # p PROVE Following(q)'
    <3>1. \A kind \in {"unhealthy", "degraded"} :
               <<q, kind>> \in active_alerts' <=> <<q, kind>> \in active_alerts
      BY <2>1, <2>5, OthersAlerts
    <3> QED BY <1>2, <2>1, <2>3, <2>5, <3>1
  <2> QED BY <2>4, <2>5 DEF AlertsFollow
<1> QED BY <1>3, <1>4, <1>5, <1>6 DEF CheckStep

LEMMA MonitoringKeepsFollowing ==
    ASSUME MonitorTypeOK, LoopsGather, AlertsFollow,
           \/ StartMonitoring \/ StopMonitoring
           \/ \E l \in Loops : LoopStep(l)
           \/ \E key \in AlertKeys : ResolveAlert(key)
           \/ \E p \in Platforms : RegistryStep(p)
    PROVE  AlertsFollow'
<1>1. ASSUME UNCHANGED <<health, failures, active_alerts, excused>>,
             \A c \in Checks : check[c] \in {"reporting", "resolving"} => check'[c] = check[c]
      PROVE  AlertsFollow'
  <2> SUFFICES ASSUME NEW q \in Platforms PROVE Following(q)'
    BY DEF AlertsFollow
  <2> QED BY <1>1, LeftAlone DEF AlertsFollow
<1>2. CASE StartMonitoring
  BY <1>1, <1>2 DEF StartMonitoring
<1>3. CASE StopMonitoring
  <2> DEFINE l == monitoring_task
  <2>1. /\ \A c \in Checks : check'[c] = IF c[1] = l THEN "none" ELSE check[c]
        /\ \A p \in Platforms : excused'[p] = IF <<l, p>> \in Checking(p)
                                              THEN excused[p] \cup {"cut off"} ELSE excused[p]
        /\ UNCHANGED <<health, failures, active_alerts>>
    BY <1>3 DEF StopMonitoring
  <2> HIDE DEF l
  <2> SUFFICES ASSUME NEW q \in Platforms PROVE Following(q)'
    BY DEF AlertsFollow
  <2>2. CASE <<l, q>> \in Checking(q)
    <3>1. "cut off" \in excused'[q]
      BY <2>1, <2>2
    <3> QED BY <3>1 DEF Following
  <2>3. CASE <<l, q>> \notin Checking(q)
    <3>1. ASSUME NEW c \in Checks, c[2] = q, check[c] \in {"reporting", "resolving"}
          PROVE  check'[c] = check[c]
      <4>1. c = <<c[1], c[2]>>
        BY DEF Checks
      <4>2. c[1] # l
        BY <2>3, <3>1, <4>1 DEF Checking
      <4> QED BY <2>1, <4>2
    <3> QED BY <2>1, <2>3, <3>1, LeftAlone DEF AlertsFollow
  <2> QED BY <2>2, <2>3
<1>4. ASSUME NEW l \in Loops, LoopTests(l) PROVE AlertsFollow'
  <2>1. /\ \A c \in Checks : check'[c] = IF c[1] = l /\ is_monitoring /\ c[2] \in registered
                                         THEN "created" ELSE check[c]
        /\ loop[l] # "checking"
        /\ UNCHANGED <<health, failures, active_alerts, excused>>
    BY <1>4 DEF LoopTests
  <2>2. ASSUME NEW c \in Checks, check[c] \in {"reporting", "resolving"} PROVE check'[c] = check[c]
    <3>1. c = <<c[1], c[2]>> /\ c[2] \in Platforms
      BY DEF Checks
    <3>2. c[1] # l
      BY <2>1, <2>2, <3>1 DEF LoopsGather
    <3> QED BY <2>1, <3>2
  <2> QED BY <1>1, <2>1, <2>2
<1>5. ASSUME NEW l \in Loops, LoopSleeps(l) \/ LoopCancelled(l) PROVE AlertsFollow'
  BY <1>1, <1>5 DEF LoopSleeps, LoopCancelled
<1>6. ASSUME NEW key \in AlertKeys, ResolveAlert(key) PROVE AlertsFollow'
  <2>0. PICK r \in Platforms, seen \in {"unhealthy", "degraded"} : key = <<r, seen>>
    BY DEF AlertKeys
  <2>1. /\ key[1] = r
        /\ active_alerts' = active_alerts \ {<<r, seen>>}
        /\ excused' = [excused EXCEPT ![r] = excused[r] \cup {"by hand"}]
        /\ UNCHANGED <<health, failures, check>>
    BY <1>6, <2>0 DEF ResolveAlert
  <2> SUFFICES ASSUME NEW q \in Platforms PROVE Following(q)'
    BY DEF AlertsFollow
  <2>2. CASE q = r
    <3>1. "by hand" \in excused'[q]
      BY <2>1, <2>2 DEF MonitorTypeOK
    <3> QED BY <3>1 DEF Following
  <2>3. CASE q # r
    <3>1. excused'[q] = excused[q]
      BY <2>1, <2>3 DEF MonitorTypeOK
    <3>2. \A kind : <<q, kind>> # <<r, seen>>
      BY <2>3
    <3> QED BY <2>1, <3>1, <3>2, LeftAlone DEF AlertsFollow
  <2> QED BY <2>2, <2>3
<1>7. ASSUME NEW p \in Platforms, RegistryStep(p) PROVE AlertsFollow'
  BY <1>1, <1>7 DEF RegistryStep
<1> QED BY <1>2, <1>3, <1>4, <1>5, <1>6, <1>7 DEF LoopStep

-----------------------------------------------------------------------------
(* PlatformMonitor: the theorems *)

LEMMA MonitorInvInit == MonitorInit => MonitorInv
<1> SUFFICES ASSUME MonitorInit PROVE MonitorInv
  OBVIOUS
<1>1. Threshold \in Nat \ {0} /\ MaxStarts \in Nat
  BY MonitorConstants
<1>2. MonitorTypeOK
  <2>1. \A p \in Platforms : failures[p] = 0 /\ health[p] = "unknown"
    BY DEF MonitorInit
  <2>2. failures \in [Platforms -> 0..Threshold] /\ monitoring_task \in 0..MaxStarts
    BY <1>1 DEF MonitorInit
  <2>3. \A p \in Platforms : failures[p] > 0 <=> health[p] = "unhealthy"
    BY <2>1
  <2> QED BY <2>2, <2>3 DEF MonitorInit, MonitorTypeOK
<1>3. LoopsInTurn /\ MonitoredByOne /\ LoopsGather
  BY DEF MonitorInit, LoopsInTurn, MonitoredByOne, Alive, LoopsGather, Checks
<1>4. AlertsFollow
  BY <1>1 DEF MonitorInit, AlertsFollow, Following, Follow
<1> QED BY <1>2, <1>3, <1>4 DEF MonitorInv

LEMMA MonitorInvStep == MonitorInv /\ [MonitorNext]_monitor_vars => MonitorInv'
<1> SUFFICES ASSUME MonitorInv, [MonitorNext]_monitor_vars PROVE MonitorInv'
  OBVIOUS
<1> USE DEF MonitorInv
<1>1. ASSUME NEW c \in Checks, ClientChecks(c) \/ CheckStep(c) PROVE MonitorInv'
  <2>1. MonitorTypeOK' /\ LoopsGather' /\ AlertsFollow' /\ UNCHANGED monitoring
    BY <1>1, CheckTypes, CheckKeepsGathering, CheckKeepsFollowing, CheckMoves
  <2> QED BY <2>1, CheckKeepsLoops
<1>2. ASSUME StartMonitoring \/ StopMonitoring \/ \E l \in Loops : LoopStep(l) PROVE MonitorInv'
  <2>1. MonitorTypeOK' /\ LoopsGather' /\ AlertsFollow'
    BY <1>2, MonitoringTypes, MonitoringKeepsGathering, MonitoringKeepsFollowing
  <2> QED BY <1>2, <2>1, StartKeepsLoops, StopKeepsLoops, LoopKeepsLoops
<1>3. ASSUME (\E key \in AlertKeys : ResolveAlert(key)) \/ \E p \in Platforms : RegistryStep(p)
      PROVE  MonitorInv'
  <2>1. MonitorTypeOK' /\ AlertsFollow'
    BY <1>3, MonitoringTypes, MonitoringKeepsFollowing
  <2>2. UNCHANGED monitoring /\ check' = check
    BY <1>3 DEF ResolveAlert, RegistryStep
  <2>3. LoopsGather'
    BY <2>2 DEF LoopsGather, monitoring
  <2> QED BY <2>1, <2>2, <2>3, CheckKeepsLoops
<1>4. CASE UNCHANGED monitor_vars
  <2>1. UNCHANGED <<registered, instances, health, failures, active_alerts, check, excused, monitoring>>
    BY <1>4 DEF monitor_vars
  <2>2. LoopsInTurn' /\ MonitoredByOne'
    BY <2>1, CheckKeepsLoops
  <2>3. LoopsGather' /\ MonitorTypeOK'
    BY <2>1 DEF LoopsGather, MonitorTypeOK, monitoring
  <2>4. AlertsFollow'
    BY <2>1 DEF AlertsFollow, Following, Follow, At
  <2> QED BY <2>2, <2>3, <2>4
<1> QED BY <1>1, <1>2, <1>3, <1>4 DEF MonitorNext

LEMMA MonitorInvHolds == MonitorSpec => []MonitorInv
BY MonitorInvInit, MonitorInvStep, PTL DEF MonitorSpec

\* Types, and that consecutive_failures is counted just while the platform is
\* unhealthy.
THEOREM MonitorTypesHold == MonitorSpec => []MonitorTypeOK
<1>1. MonitorInv => MonitorTypeOK
  BY DEF MonitorInv
<1> QED BY MonitorInvHolds, <1>1, PTL

\* The alerts say what the status says once the checks are through, for any
\* platforms, clients, threshold and starts.  (check_platform_health and
\* _check_and_generate_alerts.)
THEOREM AlertsAlwaysMatch == MonitorSpec => []AlertsMatchStatus
<1>1. MonitorInv => AlertsMatchStatus
  <2> SUFFICES ASSUME MonitorInv, NEW p \in Platforms, Checking(p) = {},
                      excused[p] \cap {"by hand", "cut off"} = {}
               PROVE  Follow(p) /\ At(p, "resolving") = {}
    BY DEF AlertsMatchStatus, Follow
  <2>1. At(p, "reporting") = {} /\ At(p, "resolving") = {}
    BY DEF At, Checking
  <2> QED BY <2>1 DEF MonitorInv, AlertsFollow, Following
<1> QED BY MonitorInvHolds, <1>1, PTL

\* One loop is at work while is_monitoring is set, and none otherwise, unless a
\* start overtook a stop.  (start_monitoring, stop_monitoring, _monitoring_loop.)
THEOREM AlwaysMonitoredByOne == MonitorSpec => []MonitoredByOne
<1>1. MonitorInv => MonitoredByOne
  BY DEF MonitorInv
<1> QED BY MonitorInvHolds, <1>1, PTL
=============================================================================
