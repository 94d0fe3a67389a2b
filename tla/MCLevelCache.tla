---------------------------- MODULE MCLevelCache ----------------------------
(* Instances of LevelCache for TLC. *)
EXTENDS LevelCache, TLC

CONSTANTS p1, p2, a, b, c, k1, k2, x, date, text

TwoProcs   == {p1, p2}
ThreeTasks == {a, b, c}
TwoTasks   == {a, b}
OneKey     == {k1}
TwoKeys    == {k1, k2}
Written    == [k \in Keys |-> IF k = k1 THEN {x, date} ELSE {x}]
AllValues  == {x, date, text}
\* a date comes back from Redis as text
AsText     == (x :> x) @@ (date :> text) @@ (text :> text)
\* a uses both keys in p1, b one of them, in either process
BInBoth    == [t \in Tasks |-> IF t = a THEN {p1} \X Keys ELSE Procs \X {k1}]
OnlyP1     == {p1}
OnlyA      == {a}
Policies   == [p \in Procs |-> IF p = p1 THEN "lru" ELSE "ttl"]
=============================================================================
