------------------------------- MODULE WorkQueue -------------------------------
(***************************************************************************)
(* What a retrying work queue promises one consumer: a published message   *)
(* is delivered, and then it is done, delivered again after a failure, or  *)
(* given up after MaxRetries failures.  It may only vanish by expiring.    *)
(* RedisQueue is shown to implement this for a single consumer.            *)
(***************************************************************************)
EXTENDS Naturals

CONSTANTS Msgs, MaxRetries

VARIABLES state, tries

States == {"unpublished", "ready", "delivered", "done", "dead", "expired"}

TypeOK ==
    /\ state \in [Msgs -> States]
    /\ tries \in [Msgs -> 0..MaxRetries]

Init ==
    /\ state = [m \in Msgs |-> "unpublished"]
    /\ tries = [m \in Msgs |-> 0]

Move(m, from, to) ==
    /\ state[m] = from
    /\ state' = [state EXCEPT ![m] = to]

Publish(m) == Move(m, "unpublished", "ready") /\ UNCHANGED tries

\* a delivery hands out a batch
Deliver(B) ==
    /\ \A m \in B : state[m] = "ready"
    /\ state' = [m \in Msgs |-> IF m \in B THEN "delivered" ELSE state[m]]
    /\ UNCHANGED tries

Done(m)   == Move(m, "delivered", "done") /\ UNCHANGED tries
Expire(m) == Move(m, "delivered", "expired") /\ UNCHANGED tries

Retry(m) ==
    /\ Move(m, "delivered", "ready")
    /\ tries' = [tries EXCEPT ![m] = @ + 1]
    /\ tries'[m] < MaxRetries

GiveUp(m) ==
    /\ Move(m, "delivered", "dead")
    /\ tries' = [tries EXCEPT ![m] = @ + 1]
    /\ tries'[m] = MaxRetries

Next ==
    \/ \E B \in (SUBSET Msgs) \ {{}} : Deliver(B)
    \/ \E m \in Msgs : \/ Publish(m) \/ Done(m) \/ Expire(m)
                       \/ Retry(m) \/ GiveUp(m)

Spec == Init /\ [][Next]_<<state, tries>>
=============================================================================
