---------------------------- MODULE PlatformDeployer ----------------------------
(***************************************************************************)
(* PlatformDeployer (backend/app/platform/deployer.py): deployments,       *)
(* batches of deployments, cancellations and retries.                      *)
(*                                                                         *)
(* Everything runs on one event loop and takes no lock.  An execution      *)
(* suspends in the handlers of its events and in the adapter's and the     *)
(* converter's methods; a cancellation suspends in the adapter's.          *)
(* cancel_deployment changes the books and the status and asks the         *)
(* adapter; the coroutine that executes the deployment goes on.            *)
(***************************************************************************)
EXTENDS Naturals, FiniteSets

CONSTANTS
    Deployments, \* deployment ids, each used once
    Batches,     \* calls of deploy_batch
    Single,      \* deploy_skill, its result awaited
    Background,  \* deploy_skill in async_mode, retry_deployment
    MaxSlots,    \* max_concurrent of a batch
    MaxRetries,  \* max_retries of a deployment
    MaxCancels   \* bound: cancellations of one deployment at a time

ASSUME DeployerConstants ==
    /\ IsFiniteSet(Deployments)
    /\ Single \notin Batches /\ Background \notin Batches
    /\ MaxSlots \in Nat \ {0}
    /\ MaxRetries \in Nat /\ MaxCancels \in Nat

VARIABLES
    active,    \* active_deployments
    completed, \* completed_deployments
    status,    \* the status of each deployment
    retries,   \* its retry_count
    via,       \* who runs its execution
    run,       \* where its execution is
    asking,    \* cancellations of it that wait for the adapter
    free,      \* the value of each batch's semaphore
    stats,     \* DeploymentStatistics: how often each outcome was counted
    deployed,  \* history: deployments the platform has carried out
    cancelled, \* history: deployments of which a cancellation succeeded
    touched,   \* history: deployments somebody tried to cancel
    cleaned    \* history: deployments dropped by a cleanup

books   == <<active, completed>>
history == <<deployed, cancelled, touched, cleaned>>
vars    == <<books, status, retries, via, run, asking, free, stats, history>>

Callers  == Batches \cup {Single, Background}
Final    == {"success", "failed", "cancelled"}
Statuses == Final \cup {"pending", "validating", "converting", "deploying",
                        "retrying", "cancelling"}
Working  == {"starting", "validating", "converting", "deploying", "reporting", "erring"}
Places   == Working \cup {"new", "never", "scheduled", "ended"}

TypeOK ==
    /\ active \subseteq Deployments /\ completed \subseteq Deployments
    /\ status \in [Deployments -> Statuses]
    /\ retries \in [Deployments -> 0..MaxRetries]
    /\ via \in [Deployments -> Callers]
    /\ run \in [Deployments -> Places]
    /\ asking \in [Deployments -> 0..MaxCancels]
    /\ free \in [Batches -> Nat]
    /\ stats \in [Final -> Nat]
    /\ deployed \subseteq Deployments /\ cancelled \subseteq Deployments
    /\ touched \subseteq Deployments /\ cleaned \subseteq Deployments

Init ==
    /\ active = {} /\ completed = {}
    /\ status = [d \in Deployments |-> "pending"]
    /\ retries = [d \in Deployments |-> 0]
    /\ via = [d \in Deployments |-> Single]
    /\ run = [d \in Deployments |-> "new"]
    /\ asking = [d \in Deployments |-> 0]
    /\ free = [b \in Batches |-> MaxSlots]
    /\ stats = [o \in Final |-> 0]
    /\ deployed = {} /\ cancelled = {} /\ touched = {} /\ cleaned = {}

-----------------------------------------------------------------------------
(* Requests *)

New(d) == run[d] = "new"

\* deploy_skill
DeploySkill(d, caller) ==
    /\ New(d)
    /\ active' = active \cup {d}
    /\ via' = [via EXCEPT ![d] = caller]
    /\ run' = [run EXCEPT ![d] = "scheduled"]
    /\ UNCHANGED <<completed, status, retries, asking, free, stats, history>>

\* deploy_batch: the requests of ds are entered, and those of begun scheduled:
\* all of them; none, without wait_for_all; or the ones before a malformed
\* request, on which gather raises
DeployBatch(b, ds, begun) ==
    /\ \A d \in Deployments : via[d] # b
    /\ \A d \in ds : New(d)
    /\ active' = active \cup ds
    /\ via' = [d \in Deployments |-> IF d \in ds THEN b ELSE via[d]]
    /\ run' = [d \in Deployments |-> IF d \in begun THEN "scheduled"
                                     ELSE IF d \in ds THEN "never" ELSE run[d]]
    /\ UNCHANGED <<completed, status, retries, asking, free, stats, history>>

-----------------------------------------------------------------------------
(* _execute_deployment *)

\* the semaphore of the batch, around the whole execution
TakesSlot(d) ==
    /\ via[d] \in Batches => free[via[d]] > 0
    /\ free' = [b \in Batches |-> IF b = via[d] THEN free[b] - 1 ELSE free[b]]

\* not in a finally
GivesSlotBackIfReturned(d) ==
    free' = [b \in Batches |-> IF b = via[d] /\ run[d] # "erring"
                               THEN free[b] + 1 ELSE free[b]]

GivesSlotBack(d) ==
    free' = [b \in Batches |-> IF b = via[d] THEN free[b] + 1 ELSE free[b]]

\* the execution of d goes on to the next place, which is also its status
GoesOn(d, from, next, shown) ==
    /\ run[d] \in from
    /\ run' = [run EXCEPT ![d] = next]
    /\ status' = [status EXCEPT ![d] = shown]
    /\ UNCHANGED <<retries, via, asking, cancelled, touched, cleaned>>

Begin(d) ==
    /\ TakesSlot(d)
    /\ GoesOn(d, {"scheduled"}, "starting", "pending")
    /\ UNCHANGED <<books, stats, deployed>>

Validate(d) ==
    /\ GoesOn(d, {"starting"}, "validating", "validating")
    /\ UNCHANGED <<books, free, stats, deployed>>

\* unless source and target format are the same
Convert(d) ==
    /\ GoesOn(d, {"validating"}, "converting", "converting")
    /\ UNCHANGED <<books, free, stats, deployed>>

Deploy(d) ==
    /\ GoesOn(d, {"validating", "converting"}, "deploying", "deploying")
    /\ UNCHANGED <<books, free, stats, deployed>>

CompletesCopying(d) ==
    /\ completed' = completed \cup {d}
    /\ UNCHANGED active

Completes(d) ==
    /\ completed' = completed \cup {d}
    /\ active' = active \ {d}

Counts(outcome) == stats' = [stats EXCEPT ![outcome] = @ + 1]

\* the adapter has deployed the skill; the completion event comes last
Succeed(d) ==
    /\ GoesOn(d, {"deploying"}, "reporting", "success")
    /\ Completes(d)
    /\ Counts("success")
    /\ deployed' = deployed \cup {d}
    /\ UNCHANGED free

\* a step fails; the error event comes before the books are changed
Fail(d) ==
    /\ GoesOn(d, {"validating", "converting", "deploying"}, "erring", "failed")
    /\ Counts("failed")
    /\ UNCHANGED <<books, free, deployed>>

\* the handlers of the last event are through
Reported(d) ==
    /\ GoesOn(d, {"reporting"}, "ended", status[d])
    /\ GivesSlotBack(d)
    /\ UNCHANGED <<books, stats, deployed>>

RaiseAsError(d) ==
    /\ GoesOn(d, {"erring"}, "ended",
              IF via[d] = Background THEN "error" ELSE status[d])
    /\ Completes(d)
    /\ GivesSlotBack(d)
    /\ UNCHANGED <<stats, deployed>>

\* the error is raised to the caller; _deploy_skill_async catches it
Raise(d) ==
    /\ GoesOn(d, {"erring"}, "ended",
              IF via[d] = Background THEN "failed" ELSE status[d])
    /\ Completes(d)
    /\ GivesSlotBack(d)
    /\ UNCHANGED <<stats, deployed>>

-----------------------------------------------------------------------------
(* cancel_deployment *)

CancelBegins(d, force) ==
    /\ d \in active
    /\ force \/ status[d] \notin Final
    /\ asking[d] < MaxCancels
    /\ asking' = [asking EXCEPT ![d] = @ + 1]
    /\ status' = [status EXCEPT ![d] = "cancelling"]
    /\ touched' = touched \cup {d}
    /\ UNCHANGED <<books, retries, via, run, free, stats, deployed, cancelled, cleaned>>

CancelAnswered(d) ==
    /\ asking[d] > 0
    /\ asking' = [asking EXCEPT ![d] = @ - 1]
    /\ UNCHANGED <<retries, via, run, deployed, touched, cleaned>>

CancelCountsFirst(d) ==
    /\ CancelAnswered(d)
    /\ Counts("cancelled")
    /\ status' = [status EXCEPT ![d] = IF d \in active THEN "cancelled" ELSE "failed"]
    /\ cancelled' = IF d \in active THEN cancelled \cup {d} ELSE cancelled
    /\ Completes(d)
    /\ UNCHANGED free

\* The adapter is done.  If the deployment has left active_deployments
\* meanwhile, the del raises, after the move: the status becomes FAILED.
CancelMoves(d) ==
    /\ CancelAnswered(d)
    /\ IF d \in active
       THEN /\ status' = [status EXCEPT ![d] = "cancelled"]
            /\ Counts("cancelled")
            /\ cancelled' = cancelled \cup {d}
       ELSE /\ status' = [status EXCEPT ![d] = "failed"]
            /\ UNCHANGED <<stats, cancelled>>
    /\ Completes(d)

CancelFreesSlot(d) == CancelMoves(d) /\ GivesSlotBack(d)
CancelReturns(d) == CancelMoves(d) /\ UNCHANGED free

\* the adapter raises
CancelRaises(d) ==
    /\ CancelAnswered(d)
    /\ status' = [status EXCEPT ![d] = "failed"]
    /\ UNCHANGED <<books, free, stats, cancelled>>

-----------------------------------------------------------------------------
(* retry_deployment, cleanup_completed_deployments *)

CanRetryAny(d) == retries[d] < MaxRetries
CanRetry(d)    == status[d] = "failed" /\ retries[d] < MaxRetries

\* n is the new deployment
RetryDeployment(d, n) ==
    /\ d \in completed
    /\ CanRetry(d)
    /\ New(n)
    /\ active' = active \cup {n}
    /\ retries' = [retries EXCEPT ![n] = retries[d] + 1]
    /\ via' = [via EXCEPT ![n] = Background]
    /\ run' = [run EXCEPT ![n] = "scheduled"]
    /\ status' = [status EXCEPT ![d] = "retrying"]
    /\ UNCHANGED <<completed, asking, free, stats, history>>

\* old: the ones that have been completed for older_than_hours
Cleanup(old) ==
    /\ old # {} /\ old \subseteq completed
    /\ completed' = completed \ old
    /\ cleaned' = cleaned \cup old
    /\ UNCHANGED <<active, status, retries, via, run, asking, free, stats, deployed,
                   cancelled, touched>>

-----------------------------------------------------------------------------
Execution(d) ==
    \/ Begin(d) \/ Validate(d) \/ Convert(d) \/ Deploy(d)
    \/ Succeed(d) \/ Fail(d) \/ Reported(d) \/ Raise(d)

Cancellation(d) ==
    \/ \E force \in BOOLEAN : CancelBegins(d, force)
    \/ CancelReturns(d) \/ CancelRaises(d)

Next ==
    \/ \E d \in Deployments :
         \/ \E caller \in {Single, Background} : DeploySkill(d, caller)
         \/ Execution(d) \/ Cancellation(d)
         \/ \E n \in Deployments : RetryDeployment(d, n)
    \/ \E b \in Batches, ds \in SUBSET Deployments :
         \E begun \in SUBSET ds : DeployBatch(b, ds, begun)
    \/ \E old \in SUBSET Deployments : Cleanup(old)

Spec == Init /\ [][Next]_vars

\* the event loop runs what can run; adapters, converter and handlers return
FairSpec == Spec /\ \A d \in Deployments : WF_vars(Execution(d))

-----------------------------------------------------------------------------
(* Properties *)

Requested == {d \in Deployments : run[d] # "new"}
Through   == {d \in Deployments : run[d] \in {"reporting", "ended"}}

\* active_deployments holds exactly the deployments that are neither through
\* nor cancelled, and every other deployment asked for is a completed one or was
\* cleaned up, however executions, cancellations, retries and cleanups meet.
Accounted ==
    /\ active = Requested \ (Through \cup cancelled)
    /\ Requested \subseteq active \cup completed \cup cleaned

\* Every slot of a batch is free or held by one execution that is under way: no
\* way an execution can end keeps its slot, and none gives it back while the
\* handlers of its last event run, whatever cancellation changes its status or
\* moves it in the books meanwhile.  So no more than max_concurrent run at once.
InBatch(b) == {d \in Deployments : via[d] = b /\ run[d] \in Working}
SlotsMatchExecutions ==
    \A b \in Batches : free[b] + Cardinality(InBatch(b)) = MaxSlots

\* The statistics count every execution once, when its outcome is known, and
\* every cancellation that succeeded once, even if two cancellations of a
\* deployment, or one and its execution, race to finish.
StatsAddUp ==
    /\ stats["success"] = Cardinality(deployed)
    /\ stats["success"] + stats["failed"] =
           Cardinality({d \in Deployments : run[d] \in {"reporting", "erring", "ended"}})
    /\ stats["cancelled"] = Cardinality(cancelled)

\* Unless somebody tried to cancel it, a deployment is retried only if the
\* platform has not carried it out, and never while its execution is under way.
RetryOnlyFailed ==
    [][\A d \in Deployments :
         status[d] # "retrying" /\ status'[d] = "retrying" /\ d \notin touched
           => d \notin deployed /\ run[d] = "ended"]_vars

\* Every execution that is scheduled, alone or in a batch, gets its turn and
\* comes to an end, and its deployment becomes a completed one.
EveryExecutionEnds ==
    \A d \in Deployments :
        run[d] = "scheduled" ~> run[d] = "ended" /\ d \in completed \cup cleaned
=============================================================================
