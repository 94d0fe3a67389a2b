----------------------------- MODULE MCRedisQueue -----------------------------
(* Instances of RedisQueue for TLC. *)
EXTENDS RedisQueue, TLC

CONSTANTS m1, m2, c1, c2

OneMsg     == {m1}
TwoMsgs    == {m1, m2}
OneConsumer  == {c1}
TwoConsumers == {c1, c2}

\* m1 outranks m2
TwoPriorities == m1 :> "high" @@ m2 :> "low"
OnePriority   == m1 :> "normal"
NoCallerTTL   == [m \in Msgs |-> 0]
\* only m2 expires before the clock stops
ShortForOne   == m1 :> 0 @@ m2 :> 3

\* interchangeable consumers
ConsumerSymmetry == Permutations(TwoConsumers)
=============================================================================
