---------------------------- MODULE VolatileCache ----------------------------
(***************************************************************************)
(* What a cache in front of nothing can promise several processes: it may  *)
(* forget at any time and answer that it has nothing, but a value is read  *)
(* only while it may still be somewhere.  may[p][k] is what process p can  *)
(* still be told of k.  Only a put adds to it, for every process at once;  *)
(* a value that has left it does not come back.                            *)
(***************************************************************************)
CONSTANTS Procs, Keys, Values, Tasks,
          Json,      \* what a value becomes when it is stored as text and read
          None

VARIABLES may, answer

vars == <<may, answer>>

NoAnswer == [proc |-> None, key |-> None, value |-> None]

Init ==
    /\ may = [p \in Procs |-> [k \in Keys |-> {}]]
    /\ answer = [t \in Tasks |-> NoAnswer]

\* nothing is added to what p may be told of k, beyond new
Fades(p, k, new) == may'[p][k] \subseteq may[p][k] \cup new

Forget ==
    /\ \A p \in Procs, k \in Keys : Fades(p, k, {})
    /\ \A t \in Tasks : answer'[t] \in {answer[t], NoAnswer}

Put(k, v) ==
    /\ \A p \in Procs, j \in Keys : Fades(p, j, IF j = k THEN {v, Json[v]} ELSE {})
    /\ UNCHANGED answer

Answer(t, p, k) ==
    /\ \A q \in Procs, j \in Keys : Fades(q, j, {})
    /\ \E v \in may[p][k] :
         answer' = [answer EXCEPT ![t] = [proc |-> p, key |-> k, value |-> v]]

Next ==
    \/ Forget
    \/ \E k \in Keys, v \in Values : Put(k, v)
    \/ \E t \in Tasks, p \in Procs, k \in Keys : Answer(t, p, k)

Spec == Init /\ [][Next]_vars
=============================================================================
