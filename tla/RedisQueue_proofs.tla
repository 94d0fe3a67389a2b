--------------------------- MODULE RedisQueue_proofs ---------------------------
(***************************************************************************)
(* Proofs about RedisQueue, for any number of messages, consumers and      *)
(* faults: the type invariant, that no message is lost or given up before  *)
(* MaxRetries failures of it were reported, that batches are worked off,   *)
(* and that one consumer without faults implements WorkQueue.              *)
(***************************************************************************)
EXTENDS RedisQueue, TLAPS

LEMMA PowerIsInt == ASSUME NEW n \in Nat PROVE 2^n \in Int
  BY SMT

LEMMA NoBodyType == NoBody \in Body
  BY DEF NoBody, Body, Statuses

LEMMA BodyUpdates ==
    ASSUME NEW b \in Body, NEW e \in Nat
    PROVE  /\ [b EXCEPT !.status = "completed"] \in Body
           /\ [b EXCEPT !.exp = e] \in Body
  BY DEF Body, Statuses

LEMMA OptionalFacts ==
    ASSUME NEW S
    PROVE  /\ {} \in Optional(S)
           /\ \A x \in S : {x} \in Optional(S)
           /\ \A T \in Optional(S) : T \subseteq S
           /\ \A T \in Optional(S) : \A x \in T : T = {x}
  BY DEF Optional

LEMMA TypeInit == Init => TypeOK
  BY ConstantsAssumption
     DEF Init, TypeOK, Body, NoBody, Statuses, PublisherStates, ConsumerStates, Optional

LEMMA TypeStep == TypeOK /\ [Next]_vars => TypeOK'
<1> SUFFICES ASSUME TypeOK, [Next]_vars PROVE TypeOK'
  OBVIOUS
<1> USE ConstantsAssumption DEF TypeOK
<1>1. ASSUME NEW m \in Msgs, PublishBody(m) PROVE TypeOK'
  BY <1>1 DEF PublishBody, Body, NoBody, Statuses, PublisherStates, consumers, history, Expiry, TTL
<1>2. ASSUME NEW m \in Msgs, PublishPending(m) PROVE TypeOK'
  BY <1>2 DEF PublishPending, consumers, history, PublisherStates, TTL
<1>3. ASSUME NEW m \in Msgs, PublishPriority(m) PROVE TypeOK'
  BY <1>3 DEF PublishPriority, consumers, history, PublisherStates, PriorityScore, Priorities
<1>4. ASSUME NEW m \in Msgs, PublishFails(m) PROVE TypeOK'
  BY <1>4 DEF PublishFails, redis, consumers, history, PublisherStates
<1>5. ASSUME NEW c \in Consumers, ConsumeScan(c) PROVE TypeOK'
  BY <1>5 DEF ConsumeScan, redis, history, ConsumerStates, Batches, Due
<1>6. ASSUME NEW c \in Consumers, ConsumeClaim(c) PROVE TypeOK'
  BY <1>6 DEF ConsumeClaim, history, ConsumerStates
<1>7. ASSUME NEW c \in Consumers, NEW m \in Msgs, ConsumeFetch(c, m) PROVE TypeOK'
  BY <1>7 DEF ConsumeFetch, redis, history, ConsumerStates
<1>8. ASSUME NEW c \in Consumers, NEW m \in Msgs, AckRemove(c, m) PROVE TypeOK'
  BY <1>8, OptionalFacts DEF AckRemove, Start, ConsumerStates
<1>9. ASSUME NEW c \in Consumers, AckDelete(c) PROVE TypeOK'
  BY <1>9 DEF AckDelete, Goto, history, ConsumerStates, Body, NoBody, Statuses
<1>10. ASSUME NEW c \in Consumers, AckGet(c) PROVE TypeOK'
  <2>1. PICK m \in current[c] :
          \/ ~Alive(m) /\ Finish(c)
          \/ /\ data' = [data EXCEPT ![c] = [body[m] EXCEPT !.status = "completed"]]
             /\ pc' = [pc EXCEPT ![c] = "ack_set"]
             /\ UNCHANGED <<ids, messages, current>>
    BY <1>10 DEF AckGet
  <2>2. m \in Msgs
    BY OptionalFacts
  <2>3. data' \in [Consumers -> Body]
    <3>1. body[m] \in Body
      BY <2>2
    <3>2. [body[m] EXCEPT !.status = "completed"] \in Body
      BY <3>1, BodyUpdates, 0 \in Nat
    <3> QED
      BY <2>1, <3>2, NoBodyType DEF Finish
  <2>4. /\ pc' \in [Consumers -> ConsumerStates]
        /\ current' \in [Consumers -> Optional(Msgs)]
        /\ UNCHANGED <<ids, messages>>
    <3>0. {} \in Optional(Msgs)
      BY OptionalFacts
    <3>1. CASE Finish(c)
      BY <3>0, <3>1 DEF Finish, Rest, ConsumerStates
    <3>2. CASE pc' = [pc EXCEPT ![c] = "ack_set"] /\ UNCHANGED <<ids, messages, current>>
      BY <3>2 DEF ConsumerStates
    <3> QED
      BY <2>1, <3>1, <3>2
  <2> QED
    BY <1>10, <2>3, <2>4 DEF AckGet, redis, history
<1>11. ASSUME NEW c \in Consumers, AckSet(c) PROVE TypeOK'
  <2>1. body' \in [Msgs -> Body]
    <3>1. [data[c] EXCEPT !.exp = now + CompletedTTL] \in Body
      BY BodyUpdates, now + CompletedTTL \in Nat
    <3> QED
      BY <1>11, <3>1 DEF AckSet
  <2>2. /\ pc' \in [Consumers -> ConsumerStates]
        /\ current' \in [Consumers -> Optional(Msgs)]
        /\ data' \in [Consumers -> Body]
    BY <1>11, OptionalFacts DEF AckSet, Finish, Rest, ConsumerStates, Body, NoBody, Statuses
  <2> QED
    BY <1>11, <2>1, <2>2 DEF AckSet, Finish, history
<1>12. ASSUME NEW c \in Consumers, NEW m \in Msgs, FailGone(c, m) PROVE TypeOK'
  BY <1>12 DEF FailGone, redis, history, ConsumerStates
<1>13. ASSUME NEW c \in Consumers, NEW m \in Msgs, FailGet(c, m) PROVE TypeOK'
  <2>1. data' \in [Consumers -> Body]
    <3>1. body[m] \in Body
      OBVIOUS
    <3>2. body[m].retry_count + 1 \in Nat
      BY <3>1 DEF Body
    <3>3. FailureStatus(body[m].retry_count + 1) \in Statuses
      BY DEF FailureStatus, Statuses
    <3> QED
      BY <1>13, <3>1, <3>2, <3>3 DEF FailGet, Body
  <2>2. /\ pc' \in [Consumers -> ConsumerStates]
        /\ current' \in [Consumers -> Optional(Msgs)]
        /\ messages' \in [Consumers -> SUBSET Msgs]
    BY <1>13, OptionalFacts DEF FailGet, Start, ConsumerStates
  <2> QED
    BY <1>13, <2>1, <2>2 DEF FailGet, redis, history
<1>14. ASSUME NEW c \in Consumers, FailRemove(c) PROVE TypeOK'
  BY <1>14 DEF FailRemove, Goto, history, ConsumerStates
<1>15. ASSUME NEW c \in Consumers, FailMove(c) PROVE TypeOK'
  <2>1. PICK m \in current[c] :
          /\ failures' = [failures EXCEPT ![m] = @ + 1]
          /\ \/ /\ dead_letter' = dead_letter \cup {m}
                /\ UNCHANGED <<priority, score>>
             \/ /\ priority' = priority \cup {m}
                /\ score' = [score EXCEPT ![m] = now + RetryDelay * 2^data[c].retry_count]
                /\ UNCHANGED dead_letter
    BY <1>15 DEF FailMove
  <2>2. m \in Msgs /\ data[c].retry_count \in Nat
    BY OptionalFacts DEF Body
  <2>3. now + RetryDelay * 2^data[c].retry_count \in Int
    BY <2>2, PowerIsInt
  <2>4. /\ failures' \in [Msgs -> Nat]
        /\ dead_letter' \subseteq Msgs
        /\ priority' \subseteq Msgs
        /\ score' \in [Msgs -> Int]
    BY <2>1, <2>2, <2>3
  <2>5. pc' \in [Consumers -> ConsumerStates]
    BY <1>15 DEF FailMove, Goto, ConsumerStates
  <2> QED
    BY <1>15, <2>4, <2>5 DEF FailMove, Goto
<1>16. ASSUME NEW c \in Consumers, FailSet(c) PROVE TypeOK'
  <2>1. body' \in [Msgs -> Body]
    <3>1. [data[c] EXCEPT !.exp = now + MessageTTL] \in Body
      BY BodyUpdates, now + MessageTTL \in Nat
    <3> QED
      BY <1>16, <3>1 DEF FailSet
  <2>2. /\ pc' \in [Consumers -> ConsumerStates]
        /\ current' \in [Consumers -> Optional(Msgs)]
        /\ data' \in [Consumers -> Body]
    BY <1>16, OptionalFacts DEF FailSet, Finish, Rest, ConsumerStates, Body, NoBody, Statuses
  <2> QED
    BY <1>16, <2>1, <2>2 DEF FailSet, Finish, history
<1>17. ASSUME NEW c \in Consumers, AckRaises(c) PROVE TypeOK'
  BY <1>17, OptionalFacts DEF AckRaises, Finish, Rest, redis, history, ConsumerStates, Body, NoBody, Statuses
<1>18. ASSUME NEW c \in Consumers, ConsumerCrash(c) PROVE TypeOK'
  BY <1>18, OptionalFacts DEF ConsumerCrash, redis, history, ConsumerStates, Body, NoBody, Statuses
<1>19. CASE CleanupScan
  BY <1>19 DEF CleanupScan, redis, consumers, history
<1>20. CASE CleanupDelete
  BY <1>20 DEF CleanupDelete, consumers, history, Body, NoBody, Statuses
<1>21. CASE Tick
  BY <1>21 DEF Tick, redis, consumers, history
<1>22. CASE UNCHANGED vars
  BY <1>22 DEF vars, redis, consumers, history
<1> QED
  BY <1>1, <1>2, <1>3, <1>4, <1>5, <1>6, <1>7, <1>8, <1>9, <1>10, <1>11, <1>12,
     <1>13, <1>14, <1>15, <1>16, <1>17, <1>18, <1>19, <1>20, <1>21, <1>22
     DEF Next, Publish, Consume, Acknowledge

\* Every variable keeps its type under every operation, with any interleaving
\* of publishers, consumers, cleaning and faults.
THEOREM TypeInvariant == Spec => []TypeOK
  BY TypeInit, TypeStep, PTL DEF Spec

-----------------------------------------------------------------------------
(* DeadLetterEarned.  The sets alone are not inductive: what matters is that *)
(* no copy of retry_count, neither the stored one nor the one that an        *)
(* acknowledgement carries around, runs ahead of the failures reported.      *)

\* a count that an acknowledgement has read but not yet written back
CarriedCount(c) == \A m \in current[c] :
    /\ pc[c] \in {"fail_rem", "fail_move"} => data[c].retry_count <= failures[m] + 1
    /\ pc[c] \in {"fail_set", "ack_set"}   => data[c].retry_count <= failures[m]

EarnedInv ==
    /\ TypeOK
    /\ \A m \in Msgs : body[m].retry_count <= failures[m]
    /\ \A c \in Consumers : CarriedCount(c)
    /\ DeadLetterEarned

LEMMA EarnedInit == Init => EarnedInv
  BY ConstantsAssumption, TypeInit
     DEF Init, EarnedInv, CarriedCount, DeadLetterEarned, NoBody

LEMMA EarnedStep == EarnedInv /\ [Next]_vars => EarnedInv'
<1> SUFFICES ASSUME EarnedInv, [Next]_vars PROVE EarnedInv'
  OBVIOUS
<1>t. TypeOK /\ TypeOK'
  BY TypeStep DEF EarnedInv
<1> USE DEF EarnedInv, CarriedCount, DeadLetterEarned
<1>1. ASSUME UNCHANGED <<body, consumers, failures, dead_letter>> PROVE EarnedInv'
  BY <1>1, <1>t DEF consumers
<1>2. ASSUME NEW m \in Msgs, PublishBody(m) PROVE EarnedInv'
  BY <1>2, <1>t DEF PublishBody, NoBody, consumers, history, TypeOK, Body
<1>3. ASSUME NEW c \in Consumers, NEW m \in Msgs, AckRemove(c, m) PROVE EarnedInv'
  BY <1>3, <1>t DEF AckRemove, Start, TypeOK
<1>4. ASSUME NEW c \in Consumers, AckDelete(c) PROVE EarnedInv'
  BY <1>4, <1>t DEF AckDelete, Goto, NoBody, history, TypeOK, Body
<1>5. ASSUME NEW c \in Consumers, AckGet(c) PROVE EarnedInv'
  <2>1. PICK m \in current[c] :
          \/ Finish(c)
          \/ /\ data' = [data EXCEPT ![c] = [body[m] EXCEPT !.status = "completed"]]
             /\ pc' = [pc EXCEPT ![c] = "ack_set"]
             /\ UNCHANGED <<ids, messages, current>>
    BY <1>5 DEF AckGet
  <2>2. UNCHANGED <<body, failures, dead_letter>>
    BY <1>5 DEF AckGet, redis, history
  <2>3. CASE Finish(c)
    BY <2>2, <2>3, <1>t DEF Finish, Rest, TypeOK
  <2>4. CASE /\ data' = [data EXCEPT ![c] = [body[m] EXCEPT !.status = "completed"]]
             /\ pc' = [pc EXCEPT ![c] = "ack_set"]
             /\ UNCHANGED <<ids, messages, current>>
    <3>1. current[c] = {m}
      BY <1>t, OptionalFacts DEF TypeOK
    <3> QED
      BY <2>2, <2>4, <3>1, <1>t, OptionalFacts DEF TypeOK, Body
  <2> QED
    BY <2>1, <2>3, <2>4
<1>6. ASSUME NEW c \in Consumers, AckSet(c) PROVE EarnedInv'
  <2>1. \A m \in Msgs : body'[m].retry_count <= failures'[m]
    BY <1>6, <1>t DEF AckSet, history, TypeOK, Body
  <2>2. \A d \in Consumers : CarriedCount(d)'
    BY <1>6, <1>t DEF AckSet, Finish, Rest, history, TypeOK
  <2> QED
    BY <1>6, <1>t, <2>1, <2>2 DEF AckSet, history
<1>7. ASSUME NEW c \in Consumers, NEW m \in Msgs, FailGet(c, m) PROVE EarnedInv'
  BY <1>7, <1>t DEF FailGet, Start, redis, history, TypeOK, Body
<1>8. ASSUME NEW c \in Consumers, FailRemove(c) PROVE EarnedInv'
  BY <1>8, <1>t DEF FailRemove, Goto, history, TypeOK
<1>9. ASSUME NEW c \in Consumers, FailMove(c) PROVE EarnedInv'
  <2>1. PICK m \in current[c] :
          /\ failures' = [failures EXCEPT ![m] = @ + 1]
          /\ \/ data[c].retry_count >= MaxRetries /\ dead_letter' = dead_letter \cup {m}
             \/ UNCHANGED dead_letter
    BY <1>9 DEF FailMove, GivesUp
  <2>2. current[c] = {m} /\ m \in Msgs
    BY <1>t, OptionalFacts DEF TypeOK
  <2>3. /\ pc[c] = "fail_move" /\ pc' = [pc EXCEPT ![c] = "fail_set"]
        /\ UNCHANGED <<body, current, data>>
    BY <1>9 DEF FailMove, Goto
  <2>4. \A n \in Msgs : failures'[n] >= failures[n]
    BY <2>1, <2>2, <1>t DEF TypeOK
  <2>5. \A n \in Msgs : body'[n].retry_count <= failures'[n]
    BY <2>3, <2>4, <1>t DEF TypeOK, Body
  <2>6. data[c].retry_count <= failures[m] + 1 /\ failures'[m] = failures[m] + 1
    BY <2>1, <2>2, <2>3, <1>t DEF TypeOK
  <2>7. \A d \in Consumers : CarriedCount(d)'
    <3>1. CarriedCount(c)'
      BY <2>2, <2>3, <2>6, <1>t DEF TypeOK
    <3>2. ASSUME NEW d \in Consumers, d # c PROVE CarriedCount(d)'
      <4>1. \A n \in current[d] : n \in Msgs
        BY <1>t, OptionalFacts DEF TypeOK
      <4>2. data[d].retry_count \in Nat
        BY <1>t DEF TypeOK, Body
      <4>3. pc'[d] = pc[d] /\ current'[d] = current[d] /\ data'[d] = data[d]
        BY <2>3, <3>2, <1>t DEF TypeOK
      <4> QED
        BY <2>4, <4>1, <4>2, <4>3, <1>t DEF TypeOK
    <3> QED
      BY <3>1, <3>2
  <2>8. DeadLetterEarned'
    BY <2>1, <2>2, <2>4, <2>6, ConstantsAssumption, <1>t DEF TypeOK, Body
  <2> QED
    BY <1>t, <2>5, <2>7, <2>8
<1>10. ASSUME NEW c \in Consumers, FailSet(c) PROVE EarnedInv'
  <2>1. \A m \in Msgs : body'[m].retry_count <= failures'[m]
    BY <1>10, <1>t DEF FailSet, history, TypeOK, Body
  <2>2. \A d \in Consumers : CarriedCount(d)'
    BY <1>10, <1>t DEF FailSet, Finish, Rest, history, TypeOK
  <2> QED
    BY <1>10, <1>t, <2>1, <2>2 DEF FailSet, history
<1>11. ASSUME NEW c \in Consumers, NEW m \in Msgs, ConsumeFetch(c, m) PROVE EarnedInv'
  BY <1>11, <1>t DEF ConsumeFetch, redis, history, TypeOK
<1>12. ASSUME NEW c \in Consumers, NEW m \in Msgs, FailGone(c, m) PROVE EarnedInv'
  BY <1>12, <1>t DEF FailGone, redis, history, TypeOK
<1>13. ASSUME NEW c \in Consumers, ConsumeScan(c) PROVE EarnedInv'
  BY <1>13, <1>t DEF ConsumeScan, redis, history, TypeOK
<1>14. ASSUME NEW c \in Consumers, ConsumeClaim(c) PROVE EarnedInv'
  BY <1>14, <1>t DEF ConsumeClaim, history, TypeOK
<1>15. ASSUME NEW c \in Consumers, AckRaises(c) PROVE EarnedInv'
  BY <1>15, <1>t DEF AckRaises, Finish, Rest, redis, history, TypeOK
<1>16. ASSUME NEW c \in Consumers, ConsumerCrash(c) PROVE EarnedInv'
  BY <1>16, <1>t DEF ConsumerCrash, redis, history, TypeOK
<1>17. CASE CleanupDelete
  BY <1>17, <1>t DEF CleanupDelete, NoBody, consumers, history, TypeOK, Body
<1>18. ASSUME NEW m \in Msgs, PublishPending(m) \/ PublishPriority(m) \/ PublishFails(m)
       PROVE  EarnedInv'
  BY <1>1, <1>18 DEF PublishPending, PublishPriority, PublishFails, redis, history
<1>19. CASE CleanupScan \/ Tick \/ UNCHANGED vars
  BY <1>1, <1>19 DEF CleanupScan, Tick, vars, redis, history
<1> QED
  BY <1>2, <1>3, <1>4, <1>5, <1>6, <1>7, <1>8, <1>9, <1>10, <1>11, <1>12, <1>13,
     <1>14, <1>15, <1>16, <1>17, <1>18, <1>19
     DEF Next, Publish, Consume, Acknowledge

\* No message is given up before MaxRetries failures were reported for it, for
\* any number of consumers, faults and messages.
THEOREM GivenUpOnlyWhenEarned == Spec => []DeadLetterEarned
<1>1. Spec => []EarnedInv
  BY EarnedInit, EarnedStep, PTL DEF Spec
<1>2. EarnedInv => DeadLetterEarned
  BY DEF EarnedInv
<1> QED
  BY <1>1, <1>2, PTL

-----------------------------------------------------------------------------
(* NotLost.  Until the first fault, what is published and not acknowledged  *)
(* stays in a set or on the way into one, also after its body has expired.  *)

Somewhere(m) == m \in priority \cup processing \cup dead_letter \/ Moving(m)

NoneLost == faults = 0 => \A m \in Msgs : publisher[m] = "done" /\ m \notin acked => Somewhere(m)

LEMMA NoneLostStep == TypeOK /\ NoneLost /\ [Next]_vars => NoneLost'
<1> SUFFICES ASSUME TypeOK, NoneLost, [Next]_vars, faults' = 0,
                    NEW m \in Msgs, publisher'[m] = "done", m \notin acked'
             PROVE  Somewhere(m)'
  BY DEF NoneLost
<1> DEFINE Kept == /\ faults = 0 /\ m \notin acked
                   /\ publisher[m] # "done" => publisher'[m] # "done"
<1>1. ASSUME Kept, UNCHANGED <<pc, current>>,
             priority \subseteq priority', processing \subseteq processing', dead_letter \subseteq dead_letter'
      PROVE  Somewhere(m)'
  BY <1>1 DEF NoneLost, Somewhere, Moving
<1>2. ASSUME Kept, NEW c \in Consumers, pc[c] # "fail_move",
             \A d \in Consumers : d # c => pc'[d] = pc[d] /\ current'[d] = current[d],
             priority \cup processing \subseteq priority' \cup processing', dead_letter \subseteq dead_letter'
      PROVE  Somewhere(m)'
  BY <1>2 DEF NoneLost, Somewhere, Moving
<1>3. ASSUME NEW n \in Msgs, PublishBody(n) \/ PublishPending(n) \/ PublishPriority(n) PROVE Somewhere(m)'
  <2>1. CASE n = m
    BY <1>3, <2>1 DEF PublishBody, PublishPending, PublishPriority, Somewhere, TypeOK
  <2>2. CASE n # m
    BY <1>1, <1>3, <2>2 DEF PublishBody, PublishPending, PublishPriority, TypeOK, consumers, history
  <2> QED
    BY <2>1, <2>2
<1>4. ASSUME NEW c \in Consumers, ConsumeScan(c) \/ ConsumeClaim(c) PROVE Somewhere(m)'
  BY <1>2, <1>4 DEF ConsumeScan, ConsumeClaim, redis, history, TypeOK
<1>5. ASSUME NEW c \in Consumers, NEW n \in Msgs,
             ConsumeFetch(c, n) \/ FailGone(c, n) \/ FailGet(c, n)
      PROVE Somewhere(m)'
  BY <1>2, <1>5 DEF ConsumeFetch, FailGone, FailGet, Start, redis, history, TypeOK
<1>6. ASSUME NEW c \in Consumers, NEW n \in Msgs, AckRemove(c, n) PROVE Somewhere(m)'
  <2>1. m # n /\ faults = 0 /\ m \notin acked /\ publisher[m] = "done" /\ pc[c] = "working"
    BY <1>6 DEF AckRemove, Start
  <2> QED
    BY <1>6, <2>1 DEF AckRemove, Start, NoneLost, Somewhere, Moving, TypeOK
<1>7. ASSUME NEW c \in Consumers, AckDelete(c) \/ AckGet(c) \/ AckSet(c) \/ FailSet(c) PROVE Somewhere(m)'
  BY <1>2, <1>7 DEF AckDelete, AckGet, AckSet, FailSet, Goto, Finish, redis, history, TypeOK
<1>8. ASSUME NEW c \in Consumers, FailRemove(c) PROVE Somewhere(m)'
  <2>1. CASE m \in current[c]
    BY <1>8, <2>1 DEF FailRemove, Goto, Somewhere, Moving, TypeOK
  <2>2. CASE m \notin current[c]
    BY <1>8, <2>2 DEF FailRemove, Goto, NoneLost, Somewhere, Moving, TypeOK, history
  <2> QED
    BY <2>1, <2>2
<1>9. ASSUME NEW c \in Consumers, FailMove(c) PROVE Somewhere(m)'
  <2>1. PICK n \in current[c] :
          \/ dead_letter' = dead_letter \cup {n} /\ priority' = priority
          \/ priority' = priority \cup {n} /\ dead_letter' = dead_letter
    BY <1>9 DEF FailMove
  <2>2. current[c] = {n}
    BY OptionalFacts DEF TypeOK
  <2>3. UNCHANGED <<processing, publisher, faults, acked, current>> /\ pc[c] = "fail_move"
        /\ \A d \in Consumers : d # c => pc'[d] = pc[d]
    BY <1>9 DEF FailMove, Goto, TypeOK
  <2> QED
    BY <2>1, <2>2, <2>3 DEF NoneLost, Somewhere, Moving
<1>10. ASSUME NEW c \in Consumers, AckRaises(c) \/ ConsumerCrash(c) PROVE Somewhere(m)'
  BY <1>10, ConstantsAssumption DEF AckRaises, ConsumerCrash, TypeOK
<1>11. ASSUME NEW n \in Msgs, PublishFails(n) PROVE Somewhere(m)'
  BY <1>11, ConstantsAssumption DEF PublishFails, TypeOK
<1>12. CASE CleanupScan \/ CleanupDelete \/ Tick \/ UNCHANGED vars
  BY <1>1, <1>12 DEF CleanupScan, CleanupDelete, Tick, vars, redis, consumers, history
<1> QED
  BY <1>3, <1>4, <1>5, <1>6, <1>7, <1>8, <1>9, <1>10, <1>11, <1>12
     DEF Next, Publish, Consume, Acknowledge

\* Until the first fault no message is lost, for any number of messages and of
\* consumers that take the same one.
THEOREM NothingLost == Spec => []NotLost
<1>1. Init => NoneLost
  BY DEF Init, NoneLost
<1>2. Spec => []NoneLost
  BY <1>1, TypeInvariant, NoneLostStep, PTL DEF Spec
<1>3. NoneLost => NotLost
  BY DEF NoneLost, NotLost, Somewhere
<1> QED
  BY <1>2, <1>3, PTL

-----------------------------------------------------------------------------
(* One consumer that never fails *)

Alone == MaxFaults = 0 /\ \E c \in Consumers : Consumers = {c}

Sets == priority \cup processing \cup dead_letter

\* nobody has what is not published
UnpublishedIsNowhere ==
    \A m \in Msgs : publisher[m] # "done" =>
        /\ m \notin Sets \cup acked
        /\ \A c \in Consumers : m \notin ids[c] \cup messages[c] \cup current[c]

\* what the consumer is to fetch, and what it was handed
ReadsAndHolds(c) ==
    /\ pc[c] = "scanned" => ids[c] \subseteq priority
    /\ pc[c] = "fetching" => ids[c] \subseteq processing
    /\ pc[c] \notin {"scanned", "fetching"} => ids[c] = {}
    /\ pc[c] \in {"idle", "scanned"} => messages[c] = {}
    /\ messages[c] \subseteq processing
    /\ messages[c] \cap (ids[c] \cup current[c]) = {}

\* where the message is that it is acknowledging
Acknowledges(c) ==
    /\ pc[c] \in {"idle", "scanned", "fetching", "working"} => current[c] = {}
    /\ pc[c] = "fail_rem" => current[c] \subseteq processing
    /\ pc[c] = "fail_move" => current[c] \cap (Sets \cup acked) = {}
    /\ pc[c] = "fail_set" => current[c] \cap processing = {} /\ current[c] \subseteq priority \cup dead_letter
    /\ pc[c] \in {"ack_del", "ack_get", "ack_set"} => current[c] \subseteq acked

AckedIsNowhere == acked \cap Sets = {}

AloneInv ==
    /\ OneHome /\ ProcessingIsHeld /\ UnpublishedIsNowhere /\ AckedIsNowhere
    /\ \A c \in Consumers : ReadsAndHolds(c) /\ Acknowledges(c)

LEMMA AloneInit == Init => AloneInv
BY DEF Init, AloneInv, OneHome, ProcessingIsHeld, UnpublishedIsNowhere, AckedIsNowhere, ReadsAndHolds, Acknowledges, Sets

LEMMA AloneStep == ASSUME Alone PROVE TypeOK /\ AloneInv /\ [Next]_vars => AloneInv'
<1> SUFFICES ASSUME TypeOK, AloneInv, [Next]_vars PROVE AloneInv'
  OBVIOUS
<1>a. TypeOK'
  BY TypeStep
<1>b. \A c, d \in Consumers : c = d
  BY DEF Alone
<1> USE DEF AloneInv, OneHome, ProcessingIsHeld, UnpublishedIsNowhere, AckedIsNowhere, ReadsAndHolds, Acknowledges, Sets, Holds
<1>1. ASSUME UNCHANGED <<priority, processing, dead_letter, publisher, pc, ids, messages, current, acked>>,
             \A m \in processing : Alive(m)' => Alive(m)
      PROVE  AloneInv'
  BY <1>1
<1>2. ASSUME NEW m \in Msgs, PublishBody(m) PROVE AloneInv'
  <2>1. m \notin processing
    BY <1>2 DEF PublishBody
  <2>2. \A n \in processing : Alive(n)' => Alive(n)
    BY <1>2, <2>1 DEF PublishBody, TypeOK, Alive
  <2> QED
    BY <1>2, <2>2 DEF PublishBody, TypeOK, consumers, history
<1>3. ASSUME NEW m \in Msgs, PublishPending(m) PROVE AloneInv'
  BY <1>3 DEF PublishPending, TypeOK, consumers, history, Alive
<1>4. ASSUME NEW m \in Msgs, PublishPriority(m) PROVE AloneInv'
  BY <1>4 DEF PublishPriority, TypeOK, consumers, history, Alive
<1>5. ASSUME NEW c \in Consumers, ConsumeScan(c) PROVE AloneInv'
  <2>1. PICK B \in SUBSET priority : ids' = [ids EXCEPT ![c] = B]
    BY <1>5 DEF ConsumeScan, Batches, Due
  <2> QED
    BY <1>5, <1>b, <2>1 DEF ConsumeScan, TypeOK, redis, history, Alive
<1>6. ASSUME NEW c \in Consumers, ConsumeClaim(c) PROVE AloneInv'
  BY <1>6, <1>b DEF ConsumeClaim, TypeOK, history, Alive
<1>7. ASSUME NEW c \in Consumers, NEW m \in Msgs, ConsumeFetch(c, m) PROVE AloneInv'
  <2>1. /\ pc[c] = "fetching" /\ m \in ids[c] /\ ids[c] \subseteq Msgs
        /\ ids'[c] = ids[c] \ {m}
        /\ messages'[c] = IF Alive(m) THEN messages[c] \cup {m} ELSE messages[c]
        /\ pc'[c] \in {"fetching", "working", "idle"}
        /\ pc'[c] = "fetching" <=> ids'[c] # {}
        /\ pc'[c] = "idle" => messages'[c] = {}
    BY <1>7 DEF ConsumeFetch, TypeOK
  <2>2. UNCHANGED <<now, redis, publisher, current, acked>>
    BY <1>7 DEF ConsumeFetch, history
  <2>3. \A d \in Consumers : ReadsAndHolds(d)' /\ Acknowledges(d)'
    BY <1>b, <2>1, <2>2 DEF redis
  <2>4. OneHome' /\ UnpublishedIsNowhere' /\ AckedIsNowhere'
    BY <1>b, <2>1, <2>2 DEF redis
  <2>5. ProcessingIsHeld'
    BY <1>b, <2>1, <2>2 DEF redis, Alive
  <2> QED
    BY <2>3, <2>4, <2>5
<1>8. ASSUME NEW c \in Consumers, NEW m \in Msgs, AckRemove(c, m) PROVE AloneInv'
  BY <1>8, <1>b DEF AckRemove, Start, TypeOK, Alive
<1>9. ASSUME NEW c \in Consumers, AckDelete(c) PROVE AloneInv'
  BY <1>9, <1>b DEF AckDelete, Goto, TypeOK, history, Alive, NoBody
<1>10. ASSUME NEW c \in Consumers, AckGet(c) PROVE AloneInv'
  BY <1>10, <1>b DEF AckGet, Finish, Rest, TypeOK, redis, history, Alive
<1>11. ASSUME NEW c \in Consumers, AckSet(c) PROVE AloneInv'
  BY <1>11, <1>b DEF AckSet, Finish, Rest, TypeOK, history, Alive
<1>12. ASSUME NEW c \in Consumers, NEW m \in Msgs, FailGone(c, m) PROVE AloneInv'
  BY <1>12, <1>b DEF FailGone, TypeOK, redis, history, Alive
<1>13. ASSUME NEW c \in Consumers, NEW m \in Msgs, FailGet(c, m) PROVE AloneInv'
  BY <1>13, <1>b DEF FailGet, Start, TypeOK, redis, history, Alive
<1>14. ASSUME NEW c \in Consumers, FailRemove(c) PROVE AloneInv'
  BY <1>14, <1>b DEF FailRemove, Goto, TypeOK, history, Alive
<1>15. ASSUME NEW c \in Consumers, FailMove(c) PROVE AloneInv'
  <2>1. PICK m \in current[c] :
          \/ dead_letter' = dead_letter \cup {m} /\ priority' = priority
          \/ priority' = priority \cup {m} /\ dead_letter' = dead_letter
    BY <1>15 DEF FailMove
  <2>2. current[c] = {m} /\ m \in Msgs
    BY OptionalFacts DEF TypeOK
  <2>3. UNCHANGED <<now, body, processing, publisher, ids, messages, current, acked>>
        /\ pc[c] = "fail_move" /\ pc' = [pc EXCEPT ![c] = "fail_set"]
    BY <1>15 DEF FailMove, Goto
  <2> QED
    BY <1>b, <2>1, <2>2, <2>3 DEF TypeOK, Alive
<1>16. ASSUME NEW c \in Consumers, FailSet(c) PROVE AloneInv'
  BY <1>16, <1>b DEF FailSet, Finish, Rest, TypeOK, history, Alive
<1>17. CASE CleanupDelete
  BY <1>1, <1>17, ConstantsAssumption DEF CleanupDelete, TypeOK, consumers, history, Alive, NoBody
<1>18. CASE CleanupScan \/ Tick \/ UNCHANGED vars
  BY <1>1, <1>18 DEF CleanupScan, Tick, vars, redis, consumers, history, TypeOK, Alive, Body
<1>19. ASSUME NEW c \in Consumers, AckRaises(c) \/ ConsumerCrash(c) PROVE AloneInv'
  BY <1>19 DEF AckRaises, ConsumerCrash, TypeOK, Alone
<1>20. ASSUME NEW m \in Msgs, PublishFails(m) PROVE AloneInv'
  BY <1>20 DEF PublishFails, TypeOK, Alone
<1> QED
  BY <1>2, <1>3, <1>4, <1>5, <1>6, <1>7, <1>8, <1>9, <1>10, <1>11, <1>12, <1>13, <1>14, <1>15, <1>16, <1>17,
     <1>18, <1>19, <1>20 DEF Next, Publish, Consume, Acknowledge

LEMMA AloneAlways == ASSUME Alone PROVE Spec => []AloneInv
<1>1. TypeOK /\ AloneInv /\ [Next]_vars => AloneInv'
  BY AloneStep
<1> QED
  BY <1>1, AloneInit, TypeInvariant, PTL DEF Spec

\* With one consumer that never fails, a message is in one set at a time.
THEOREM AloneOneHome == ASSUME Alone PROVE Spec => []OneHome
<1>1. AloneInv => OneHome
  BY DEF AloneInv
<1> QED
  BY <1>1, AloneAlways, PTL

\* And nothing that exists rests in "processing" unnoticed.
THEOREM AloneProcessingIsHeld == ASSUME Alone PROVE Spec => []ProcessingIsHeld
<1>1. AloneInv => ProcessingIsHeld
  BY DEF AloneInv
<1> QED
  BY <1>1, AloneAlways, PTL

-----------------------------------------------------------------------------
(* The refinement.  The number of tries of the abstract queue is that of the *)
(* reported failures, so the counts that decide have to agree with it.  They *)
(* do not without a time to live: FailSet then stores nothing.               *)

Writing(m) == \E c \in Consumers : pc[c] = "fail_set" /\ m \in current[c]

CountsAgree ==
    /\ \A m \in Msgs :
         /\ publisher[m] # "done" => failures[m] = 0
         /\ m \notin dead_letter => failures[m] < MaxRetries
         /\ Alive(m) /\ m \notin acked \cup dead_letter /\ ~Writing(m) => body[m].retry_count = failures[m]
    /\ \A c \in Consumers : \A m \in current[c] :
         /\ pc[c] \in {"fail_rem", "fail_move"} => data[c].retry_count = failures[m] + 1
         /\ pc[c] = "fail_set" => data[c].retry_count = failures[m]

LEMMA CountsInit == Init => CountsAgree
BY ConstantsAssumption DEF Init, CountsAgree, Alive, NoBody

LEMMA CountsStep ==
    ASSUME Alone, MessageTTL # 0 PROVE TypeOK /\ AloneInv /\ CountsAgree /\ [Next]_vars => CountsAgree'
<1> SUFFICES ASSUME TypeOK, AloneInv, CountsAgree, [Next]_vars PROVE CountsAgree'
  OBVIOUS
<1>a. TypeOK'
  BY TypeStep
<1>b. \A c, d \in Consumers : c = d
  BY DEF Alone
<1>1. ASSUME UNCHANGED <<dead_letter, publisher, pc, current, data, acked, failures>>,
             \A m \in Msgs : Alive(m)' => Alive(m) /\ body'[m] = body[m]
      PROVE  CountsAgree'
  BY <1>1 DEF CountsAgree, Writing
<1>2. ASSUME NEW m \in Msgs, PublishBody(m) PROVE CountsAgree'
  <2>1. publisher[m] = "new" /\ failures[m] = 0 /\ body'[m].retry_count = 0
    BY <1>2 DEF PublishBody, CountsAgree, TypeOK, NoBody
  <2>2. now' = now /\ dead_letter' = dead_letter /\ pc' = pc /\ current' = current /\ data' = data
        /\ acked' = acked /\ failures' = failures
    BY <1>2 DEF PublishBody, consumers, history
  <2>3. ASSUME NEW n \in Msgs
        PROVE  /\ n # m => body'[n] = body[n]
               /\ publisher'[n] # "done" => publisher[n] # "done"
    BY <1>2 DEF PublishBody, TypeOK
  <2>4. ASSUME NEW n \in Msgs, Alive(n)', n \notin acked' \cup dead_letter', ~Writing(n)'
        PROVE  body'[n].retry_count = failures'[n]
    <3>1. ~Writing(n)
      BY <2>2, <2>4 DEF Writing
    <3>2. n # m => Alive(n)
      BY <2>2, <2>3, <2>4 DEF Alive
    <3> QED
      BY <2>1, <2>2, <2>3, <2>4, <3>1, <3>2 DEF CountsAgree
  <2>5. \A n \in Msgs : publisher'[n] # "done" => failures'[n] = 0
    BY <2>2, <2>3 DEF CountsAgree
  <2> QED
    BY <2>2, <2>4, <2>5 DEF CountsAgree
<1>3. ASSUME NEW m \in Msgs, PublishPending(m) \/ PublishPriority(m) PROVE CountsAgree'
  BY <1>3 DEF PublishPending, PublishPriority, CountsAgree, Writing, TypeOK, consumers, history, Alive
<1>4. ASSUME NEW c \in Consumers,
             ConsumeScan(c) \/ ConsumeClaim(c) \/ \E m \in Msgs : ConsumeFetch(c, m) \/ FailGone(c, m)
      PROVE  CountsAgree'
  <2>1. pc[c] \notin {"fail_rem", "fail_move", "fail_set"} /\ pc'[c] \notin {"fail_rem", "fail_move", "fail_set"}
    BY <1>4 DEF ConsumeScan, ConsumeClaim, ConsumeFetch, FailGone, TypeOK
  <2>2. UNCHANGED <<now, body, dead_letter, publisher, current, acked, failures>>
    BY <1>4 DEF ConsumeScan, ConsumeClaim, ConsumeFetch, FailGone, redis, history
  <2> QED
    BY <1>b, <2>1, <2>2 DEF CountsAgree, Writing, Alive
<1>5. ASSUME NEW c \in Consumers, NEW m \in Msgs, AckRemove(c, m) PROVE CountsAgree'
  BY <1>5, <1>b DEF AckRemove, Start, CountsAgree, Writing, TypeOK, Alive
<1>6. ASSUME NEW c \in Consumers, AckDelete(c) PROVE CountsAgree'
  <2>1. pc[c] = "ack_del" /\ pc'[c] = "ack_get"
    BY <1>6 DEF AckDelete, Goto, TypeOK
  <2>2. UNCHANGED <<now, dead_letter, publisher, current, data, acked, failures>>
        /\ \A m \in Msgs : m \notin current[c] => body'[m] = body[m]
    BY <1>6 DEF AckDelete, Goto, history
  <2>3. current[c] \subseteq acked
    BY <2>1 DEF AloneInv, Acknowledges
  <2> QED
    BY <1>b, <2>1, <2>2, <2>3 DEF CountsAgree, Writing, Alive
<1>7. ASSUME NEW c \in Consumers, AckGet(c) PROVE CountsAgree'
  <2>1. pc[c] = "ack_get" /\ pc'[c] \in {"ack_set", "idle", "working"}
    BY <1>7 DEF AckGet, Finish, Rest, TypeOK
  <2>2. UNCHANGED <<now, body, dead_letter, publisher, acked, failures>>
    BY <1>7 DEF AckGet, redis, history
  <2> QED
    BY <1>b, <2>1, <2>2 DEF CountsAgree, Writing, Alive
<1>8. ASSUME NEW c \in Consumers, AckSet(c) PROVE CountsAgree'
  <2>1. pc[c] = "ack_set" /\ pc'[c] \in {"idle", "working"}
    BY <1>8 DEF AckSet, Finish, Rest, TypeOK
  <2>2. UNCHANGED <<now, dead_letter, publisher, acked, failures>> /\ current[c] \subseteq acked
        /\ \A m \in Msgs : m \notin current[c] => body'[m] = body[m]
    BY <1>8 DEF AckSet, history, AloneInv, Acknowledges
  <2> QED
    BY <1>b, <2>1, <2>2 DEF CountsAgree, Writing, Alive
<1>9. ASSUME NEW c \in Consumers, NEW m \in Msgs, FailGet(c, m) PROVE CountsAgree'
  <2>1. /\ pc[c] = "working" /\ pc'[c] = "fail_rem" /\ current'[c] = {m} /\ Alive(m) /\ m \in messages[c]
        /\ data'[c].retry_count = body[m].retry_count + 1
    BY <1>9 DEF FailGet, Start, TypeOK, Body
  <2>2. UNCHANGED <<now, body, dead_letter, publisher, acked, failures>>
    BY <1>9 DEF FailGet, redis, history
  <2>3. m \notin acked \cup dead_letter
    BY <2>1 DEF AloneInv, ReadsAndHolds, OneHome, AckedIsNowhere, Sets
  <2>4. ~Writing(m)
    BY <1>b, <2>1 DEF Writing
  <2>5. data'[c].retry_count = failures[m] + 1
    BY <2>1, <2>3, <2>4 DEF CountsAgree
  <2> QED
    BY <1>b, <2>1, <2>2, <2>5 DEF CountsAgree, Writing, Alive
<1>10. ASSUME NEW c \in Consumers, FailRemove(c) PROVE CountsAgree'
  BY <1>10, <1>b DEF FailRemove, Goto, CountsAgree, Writing, TypeOK, history, Alive
<1>11. ASSUME NEW c \in Consumers, FailMove(c) PROVE CountsAgree'
  <2>1. PICK m \in current[c] :
          /\ failures' = [failures EXCEPT ![m] = @ + 1]
          /\ \/ data[c].retry_count >= MaxRetries /\ dead_letter' = dead_letter \cup {m}
             \/ ~(data[c].retry_count >= MaxRetries) /\ dead_letter' = dead_letter
    BY <1>11 DEF FailMove, GivesUp
  <2>2. current[c] = {m} /\ m \in Msgs
    BY OptionalFacts DEF TypeOK
  <2>3. UNCHANGED <<now, body, publisher, current, data, acked>>
        /\ pc[c] = "fail_move" /\ pc'[c] = "fail_set"
    BY <1>11 DEF FailMove, Goto, TypeOK
  <2>4. data[c].retry_count = failures[m] + 1 /\ failures'[m] = failures[m] + 1 /\ failures[m] \in Nat
        /\ \A n \in Msgs : n # m => failures'[n] = failures[n]
    BY <2>1, <2>2, <2>3 DEF CountsAgree, TypeOK
  <2>5. publisher[m] = "done"
    BY <2>2 DEF AloneInv, UnpublishedIsNowhere
  <2>6. MaxRetries \in Nat
    BY ConstantsAssumption
  <2>7. Writing(m)' /\ \A n \in Msgs : n # m => (Alive(n)' => Alive(n)) /\ ~Writing(n)
    BY <1>b, <2>2, <2>3 DEF Writing, Alive
  <2> QED
    BY <1>b, <2>1, <2>2, <2>3, <2>4, <2>5, <2>6, <2>7 DEF CountsAgree
<1>12. ASSUME NEW c \in Consumers, FailSet(c) PROVE CountsAgree'
  <2>1. pc[c] = "fail_set" /\ pc'[c] \in {"idle", "working"}
    BY <1>12 DEF FailSet, Finish, Rest, TypeOK
  <2>2. UNCHANGED <<now, dead_letter, publisher, acked, failures>>
        /\ \A m \in Msgs : m \notin current[c] => body'[m] = body[m]
    BY <1>12 DEF FailSet, history
  <2>3. \A m \in Msgs : m \in current[c] => body'[m].retry_count = data[c].retry_count
    BY <1>12 DEF FailSet, TypeOK, Body
  <2>4. \A m \in Msgs : m \in current[c] => body'[m].retry_count = failures[m]
    BY <2>1, <2>3 DEF CountsAgree
  <2>5. \A m \in Msgs : m \notin current[c] => (Alive(m)' => Alive(m)) /\ ~Writing(m)
    BY <1>b, <2>2 DEF Alive, Writing
  <2>6. \A m \in Msgs : Alive(m)' /\ m \notin acked \cup dead_letter => body'[m].retry_count = failures[m]
    BY <2>2, <2>4, <2>5 DEF CountsAgree
  <2> QED
    BY <1>b, <2>1, <2>2, <2>6 DEF CountsAgree
<1>13. CASE CleanupDelete
  BY <1>1, <1>13, ConstantsAssumption DEF CleanupDelete, TypeOK, consumers, history, Alive, NoBody
<1>14. CASE CleanupScan \/ Tick \/ UNCHANGED vars
  <2>1. UNCHANGED <<body, dead_letter, publisher, pc, current, data, acked, failures>>
    BY <1>14 DEF CleanupScan, Tick, vars, redis, consumers, history
  <2>2. now' >= now
    BY <1>14 DEF CleanupScan, Tick, vars, TypeOK
  <2>3. \A m \in Msgs : Alive(m)' => Alive(m)
    BY <1>a, <2>1, <2>2, ConstantsAssumption DEF Alive, TypeOK, Body
  <2> QED
    BY <1>1, <2>1, <2>3
<1>15. ASSUME NEW c \in Consumers, AckRaises(c) \/ ConsumerCrash(c) PROVE CountsAgree'
  BY <1>15 DEF AckRaises, ConsumerCrash, TypeOK, Alone
<1>16. ASSUME NEW m \in Msgs, PublishFails(m) PROVE CountsAgree'
  BY <1>16 DEF PublishFails, TypeOK, Alone
<1> QED
  BY <1>2, <1>3, <1>4, <1>5, <1>6, <1>7, <1>8, <1>9, <1>10, <1>11, <1>12, <1>13, <1>14, <1>15, <1>16
     DEF Next, Publish, Consume, Acknowledge

Held(m) == \E c \in Consumers : Holds(c, m)

Seen == [m \in Msgs |-> QueueState(m)]

\* where a message is decides what the abstract queue sees
SeenByPlace ==
    /\ DOMAIN Seen = Msgs
    /\ \A m \in Msgs :
         /\ m \in acked => Seen[m] = "done"
         /\ m \in dead_letter => Seen[m] = "dead"
         /\ m \in priority => Seen[m] = "ready"
         /\ m \notin acked \cup dead_letter \cup priority /\ Held(m) => Seen[m] = "delivered"
         /\ m \in processing /\ ~Held(m) => Seen[m] = "expired"
         /\ m \notin acked \cup Sets /\ ~Held(m) => Seen[m] = "unpublished"

LEMMA SeenFacts == AloneInv => SeenByPlace
<1> SUFFICES ASSUME AloneInv, NEW m \in Msgs
             PROVE  /\ m \in acked => QueueState(m) = "done"
                    /\ m \in dead_letter => QueueState(m) = "dead"
                    /\ m \in priority => QueueState(m) = "ready"
                    /\ m \notin acked \cup dead_letter \cup priority /\ Held(m) => QueueState(m) = "delivered"
                    /\ m \in processing /\ ~Held(m) => QueueState(m) = "expired"
                    /\ m \notin acked \cup Sets /\ ~Held(m) => QueueState(m) = "unpublished"
  BY DEF SeenByPlace, Seen
<1>1. /\ m \in acked => m \notin Sets
      /\ ~(m \in priority /\ m \in processing)
      /\ ~(m \in priority /\ m \in dead_letter)
      /\ ~(m \in processing /\ m \in dead_letter)
  BY DEF AloneInv, AckedIsNowhere, OneHome
<1> QED
  BY <1>1 DEF QueueState, Held, Sets

LEMMA SeenFactsNext == AloneInv' => SeenByPlace'
BY SeenFacts, PTL

LEMMA SeenInit == Init => Abstract!Init
<1> SUFFICES ASSUME Init PROVE Abstract!Init
  OBVIOUS
<1>1. SeenByPlace
  BY AloneInit, SeenFacts
<1>2. \A m \in Msgs : m \notin acked \cup Sets /\ ~Held(m)
  BY DEF Init, Held, Holds, Sets
<1>3. \A m \in Msgs : Seen[m] = "unpublished"
  BY <1>1, <1>2 DEF SeenByPlace
<1> QED
  BY <1>3 DEF Init, Seen, Abstract!Init

\* the place of message n, which is all that Seen[n] depends on
SamePlace(n) ==
    /\ n \in acked' <=> n \in acked
    /\ n \in dead_letter' <=> n \in dead_letter
    /\ n \in priority' <=> n \in priority
    /\ Held(n)' <=> Held(n)
    /\ ~Held(n) => (n \in processing' <=> n \in processing)

LEMMA SameSeen ==
    ASSUME AloneInv, SeenByPlace, SeenByPlace', NEW n \in Msgs, SamePlace(n)
    PROVE  Seen'[n] = Seen[n]
BY DEF SeenByPlace, SamePlace, Sets, AloneInv, AckedIsNowhere

LEMMA SeenStutters ==
    ASSUME AloneInv, SeenByPlace, SeenByPlace', failures' = failures, \A n \in Msgs : SamePlace(n)
    PROVE  [Abstract!Next]_<<Seen, failures>>
<1>1. \A n \in Msgs : Seen'[n] = Seen[n]
  BY SameSeen
<1>2. Seen' = Seen
  BY <1>1 DEF Seen
<1> QED
  BY <1>2

LEMMA SeenMoves ==
    ASSUME AloneInv, SeenByPlace, SeenByPlace', NEW m \in Msgs, \A n \in Msgs : n # m => SamePlace(n)
    PROVE  Seen' = [Seen EXCEPT ![m] = Seen'[m]]
<1>1. \A n \in Msgs : n # m => Seen'[n] = Seen[n]
  BY SameSeen
<1> QED
  BY <1>1 DEF Seen

LEMMA SeenStep ==
    ASSUME Alone, MessageTTL # 0
    PROVE  TypeOK /\ AloneInv /\ AloneInv' /\ CountsAgree /\ [Next]_vars => [Abstract!Next]_<<Seen, failures>>
<1> SUFFICES ASSUME TypeOK, AloneInv, AloneInv', CountsAgree, [Next]_vars
             PROVE  [Abstract!Next]_<<Seen, failures>>
  OBVIOUS
<1>a. SeenByPlace /\ SeenByPlace'
  BY SeenFacts, SeenFactsNext
<1>b. \A c, d \in Consumers : c = d
  BY DEF Alone
<1>c. TypeOK'
  BY TypeStep
<1> DEFINE Same == \A n \in Msgs : SamePlace(n)
           Others(m) == \A n \in Msgs : n # m => SamePlace(n)
<1>1. ASSUME Same, failures' = failures PROVE [Abstract!Next]_<<Seen, failures>>
  BY <1>1, <1>a, SeenStutters
<1>2. ASSUME NEW m \in Msgs, Others(m)
      PROVE  Seen' = [Seen EXCEPT ![m] = Seen'[m]]
  BY <1>2, <1>a, SeenMoves
<1>3. ASSUME UNCHANGED <<priority, processing, dead_letter, pc, ids, messages, current, acked, failures>>
      PROVE  [Abstract!Next]_<<Seen, failures>>
  BY <1>1, <1>3 DEF SamePlace, Held, Holds
<1>4. ASSUME NEW m \in Msgs, PublishBody(m) \/ PublishPending(m) PROVE [Abstract!Next]_<<Seen, failures>>
  BY <1>3, <1>4 DEF PublishBody, PublishPending, consumers, history
<1>5. ASSUME NEW m \in Msgs, PublishPriority(m) PROVE [Abstract!Next]_<<Seen, failures>>
  <2>1. publisher[m] # "done" /\ priority' = priority \cup {m}
        /\ UNCHANGED <<processing, dead_letter, pc, ids, messages, current, acked, failures>>
    BY <1>5 DEF PublishPriority, consumers, history
  <2>2. m \notin acked \cup Sets /\ ~Held(m)
    BY <2>1 DEF AloneInv, UnpublishedIsNowhere, Held, Holds
  <2>3. Others(m)
    BY <2>1 DEF SamePlace, Held, Holds
  <2>4. Seen[m] = "unpublished" /\ Seen'[m] = "ready" /\ Seen' = [Seen EXCEPT ![m] = Seen'[m]]
    BY <1>2, <1>a, <2>1, <2>2, <2>3 DEF SeenByPlace
  <2>5. Abstract!Publish(m)
    BY <2>1, <2>4 DEF Abstract!Publish, Abstract!Move, Seen
  <2> QED
    BY <2>5 DEF Abstract!Next
<1>6. ASSUME NEW c \in Consumers, ConsumeScan(c) PROVE [Abstract!Next]_<<Seen, failures>>
  <2>1. pc[c] = "idle" /\ pc'[c] = "scanned"
        /\ UNCHANGED <<priority, processing, dead_letter, messages, current, acked, failures>>
    BY <1>6 DEF ConsumeScan, TypeOK, redis, history
  <2>2. Same
    BY <1>b, <2>1 DEF SamePlace, Held, Holds
  <2> QED
    BY <1>1, <2>1, <2>2
<1>7. ASSUME NEW c \in Consumers, ConsumeClaim(c) PROVE [Abstract!Next]_<<Seen, failures>>
  <2>1. pc[c] = "scanned" /\ pc'[c] = "fetching" /\ ids[c] \subseteq Msgs
        /\ priority' = priority \ ids[c] /\ processing' = processing \cup ids[c]
        /\ UNCHANGED <<dead_letter, ids, messages, current, acked, failures>>
    BY <1>7 DEF ConsumeClaim, TypeOK, history
  <2>2. ids[c] \subseteq priority
    BY <2>1 DEF AloneInv, ReadsAndHolds
  <2>3. \A n \in Msgs : n \notin ids[c] => SamePlace(n)
    BY <1>b, <2>1 DEF SamePlace, Held, Holds
  <2>4. \A n \in Msgs : n \notin ids[c] => Seen'[n] = Seen[n]
    BY <1>a, <2>3, SameSeen
  <2>5. \A n \in ids[c] : Held(n)' /\ n \notin acked \cup dead_letter
    BY <2>1, <2>2 DEF Held, Holds, AloneInv, OneHome, AckedIsNowhere, Sets
  <2>6. \A n \in ids[c] : Seen[n] = "ready" /\ Seen'[n] = "delivered"
    BY <1>a, <2>1, <2>2, <2>5 DEF SeenByPlace
  <2>7. Seen' = [n \in Msgs |-> IF n \in ids[c] THEN "delivered" ELSE Seen[n]]
    BY <2>4, <2>6, <2>1 DEF Seen
  <2>8. Abstract!Deliver(ids[c])
    BY <2>1, <2>6, <2>7 DEF Abstract!Deliver, Seen
  <2>9. CASE ids[c] = {}
    BY <1>1, <2>1, <2>3, <2>9
  <2>10. CASE ids[c] # {}
    BY <2>1, <2>8, <2>10 DEF Abstract!Next
  <2> QED
    BY <2>9, <2>10
<1>8. ASSUME NEW c \in Consumers, NEW m \in Msgs, Seen[m] = "delivered", Seen'[m] = "expired", Others(m),
             failures' = failures
      PROVE  [Abstract!Next]_<<Seen, failures>>
  <2>1. Abstract!Expire(m)
    BY <1>2, <1>8 DEF Abstract!Expire, Abstract!Move, Seen
  <2> QED
    BY <2>1 DEF Abstract!Next
<1>9. ASSUME NEW c \in Consumers, NEW m \in Msgs, ConsumeFetch(c, m) PROVE [Abstract!Next]_<<Seen, failures>>
  <2>1. /\ pc[c] = "fetching" /\ m \in ids[c] /\ ids'[c] = ids[c] \ {m}
        /\ messages'[c] = IF Alive(m) THEN messages[c] \cup {m} ELSE messages[c]
        /\ pc'[c] = IF ids'[c] # {} THEN "fetching" ELSE IF messages'[c] # {} THEN "working" ELSE "idle"
        /\ UNCHANGED <<priority, processing, dead_letter, current, acked, failures>>
    BY <1>9 DEF ConsumeFetch, TypeOK, redis, history
  <2>2. Others(m)
    BY <1>b, <2>1 DEF SamePlace, Held, Holds
  <2>3. /\ m \in processing /\ m \notin acked \cup dead_letter \cup priority
        /\ m \notin messages[c] \cup current[c]
    BY <2>1 DEF AloneInv, ReadsAndHolds, Acknowledges, OneHome, AckedIsNowhere, Sets
  <2>4. Held(m)
    BY <2>1 DEF Held, Holds
  <2>5. Held(m)' <=> Alive(m)
    BY <1>b, <2>1, <2>3 DEF Held, Holds
  <2>6. CASE Alive(m)
    BY <1>1, <2>1, <2>2, <2>4, <2>5, <2>6 DEF SamePlace
  <2>7. CASE ~Alive(m)
    BY <1>8, <1>a, <2>1, <2>2, <2>3, <2>4, <2>5, <2>7 DEF SeenByPlace
  <2> QED
    BY <2>6, <2>7
<1>10. ASSUME NEW c \in Consumers, NEW m \in Msgs, AckRemove(c, m) PROVE [Abstract!Next]_<<Seen, failures>>
  <2>1. /\ pc[c] = "working" /\ pc'[c] = "ack_del" /\ m \in messages[c]
        /\ messages'[c] = messages[c] \ {m} /\ current'[c] = {m}
        /\ processing' = processing \ {m} /\ acked' = acked \cup {m}
        /\ UNCHANGED <<priority, dead_letter, failures>>
    BY <1>10 DEF AckRemove, Start, TypeOK
  <2>2. current[c] = {} /\ m \notin acked \cup dead_letter \cup priority /\ Held(m)
    BY <2>1 DEF AloneInv, ReadsAndHolds, Acknowledges, OneHome, AckedIsNowhere, Sets, Held, Holds
  <2>3. Others(m)
    BY <1>b, <2>1, <2>2 DEF SamePlace, Held, Holds
  <2>4. Seen[m] = "delivered" /\ Seen'[m] = "done" /\ Seen' = [Seen EXCEPT ![m] = Seen'[m]]
    BY <1>2, <1>a, <2>1, <2>2, <2>3 DEF SeenByPlace
  <2>5. Abstract!Done(m)
    BY <2>1, <2>4 DEF Abstract!Done, Abstract!Move, Seen
  <2> QED
    BY <2>5 DEF Abstract!Next
<1>11. ASSUME NEW c \in Consumers, NEW m \in Msgs, FailGone(c, m) PROVE [Abstract!Next]_<<Seen, failures>>
  <2>1. /\ pc[c] = "working" /\ pc'[c] # "fetching" /\ m \in messages[c]
        /\ messages'[c] = messages[c] \ {m}
        /\ UNCHANGED <<priority, processing, dead_letter, current, acked, failures>>
    BY <1>11 DEF FailGone, TypeOK, redis, history
  <2>2. /\ current[c] = {} /\ m \in processing /\ m \notin acked \cup dead_letter \cup priority /\ Held(m)
    BY <2>1 DEF AloneInv, ReadsAndHolds, Acknowledges, OneHome, AckedIsNowhere, Sets, Held, Holds
  <2>3. Others(m)
    BY <1>b, <2>1, <2>2 DEF SamePlace, Held, Holds
  <2>4. ~Held(m)'
    BY <1>b, <2>1, <2>2 DEF Held, Holds
  <2> QED
    BY <1>8, <1>a, <2>1, <2>2, <2>3, <2>4 DEF SeenByPlace
<1>12. ASSUME NEW c \in Consumers, NEW m \in Msgs, FailGet(c, m) PROVE [Abstract!Next]_<<Seen, failures>>
  <2>1. /\ pc[c] = "working" /\ pc'[c] = "fail_rem" /\ m \in messages[c]
        /\ messages'[c] = messages[c] \ {m} /\ current'[c] = {m}
        /\ UNCHANGED <<priority, processing, dead_letter, acked, failures>>
    BY <1>12 DEF FailGet, Start, TypeOK, redis, history
  <2>2. current[c] = {}
    BY <2>1 DEF AloneInv, Acknowledges
  <2>3. Same
    BY <1>b, <2>1, <2>2 DEF SamePlace, Held, Holds
  <2> QED
    BY <1>1, <2>1, <2>3
<1>13. ASSUME NEW c \in Consumers, FailRemove(c) \/ AckDelete(c) PROVE [Abstract!Next]_<<Seen, failures>>
  <2>1. /\ pc[c] # "fetching" /\ pc'[c] # "fetching"
        /\ \A n \in Msgs : n \notin current[c] => (n \in processing' <=> n \in processing)
        /\ UNCHANGED <<priority, dead_letter, messages, current, acked, failures>>
    BY <1>13 DEF FailRemove, AckDelete, Goto, TypeOK, history
  <2>2. \A n \in Msgs : n \in current[c] => Held(n)
    BY DEF Held, Holds
  <2>3. Same
    BY <1>b, <2>1, <2>2 DEF SamePlace, Held, Holds
  <2> QED
    BY <1>1, <2>1, <2>3
<1>14. ASSUME NEW c \in Consumers, FailMove(c) PROVE [Abstract!Next]_<<Seen, failures>>
  <2>1. PICK m \in current[c] :
          /\ failures' = [failures EXCEPT ![m] = @ + 1]
          /\ \/ /\ GivesUp(data[c].retry_count)
                /\ dead_letter' = dead_letter \cup {m} /\ priority' = priority
             \/ /\ ~GivesUp(data[c].retry_count)
                /\ priority' = priority \cup {m} /\ dead_letter' = dead_letter
    BY <1>14 DEF FailMove
  <2>2. pc[c] = "fail_move" /\ pc'[c] = "fail_set" /\ UNCHANGED <<processing, messages, current, acked>>
    BY <1>14 DEF FailMove, Goto, TypeOK
  <2>3. current[c] = {m} /\ m \in Msgs
    BY OptionalFacts DEF TypeOK
  <2>4. m \notin acked \cup Sets /\ Held(m)
    BY <2>2, <2>3 DEF AloneInv, Acknowledges, Held, Holds
  <2>5. Others(m)
    BY <1>b, <2>1, <2>2 DEF SamePlace, Held, Holds
  <2>6. Seen[m] = "delivered" /\ Seen' = [Seen EXCEPT ![m] = Seen'[m]]
    BY <1>2, <1>a, <2>3, <2>4, <2>5 DEF SeenByPlace, Sets
  <2>7. /\ failures \in [Msgs -> Nat] /\ failures[m] < MaxRetries /\ MaxRetries \in Nat
        /\ data[c].retry_count = failures[m] + 1
    BY <2>2, <2>3, <2>4, ConstantsAssumption DEF CountsAgree, TypeOK, Sets
  <2>8. failures'[m] = failures[m] + 1
    BY <2>1, <2>3, <2>7
  <2>9. CASE GivesUp(data[c].retry_count)
    <3>1. Seen'[m] = "dead"
      BY <1>a, <2>1, <2>3, <2>9 DEF SeenByPlace
    <3>2. failures'[m] = MaxRetries
      BY <2>3, <2>7, <2>8, <2>9 DEF GivesUp
    <3>3. Abstract!GiveUp(m)
      BY <2>1, <2>6, <3>1, <3>2 DEF Abstract!GiveUp, Abstract!Move, Seen
    <3> QED
      BY <2>3, <3>3 DEF Abstract!Next
  <2>10. CASE ~GivesUp(data[c].retry_count)
    <3>1. Seen'[m] = "ready"
      BY <1>a, <2>1, <2>3, <2>10 DEF SeenByPlace
    <3>2. failures'[m] < MaxRetries
      BY <2>3, <2>7, <2>8, <2>10 DEF GivesUp
    <3>3. Abstract!Retry(m)
      BY <2>1, <2>6, <3>1, <3>2 DEF Abstract!Retry, Abstract!Move, Seen
    <3> QED
      BY <2>3, <3>3 DEF Abstract!Next
  <2> QED
    BY <2>9, <2>10
<1>15. ASSUME NEW c \in Consumers, AckGet(c) \/ AckSet(c) \/ FailSet(c) PROVE [Abstract!Next]_<<Seen, failures>>
  <2>1. /\ pc[c] \in {"ack_get", "ack_set", "fail_set"} /\ pc'[c] # "fetching"
        /\ current'[c] = {} \/ current'[c] = current[c]
        /\ UNCHANGED <<priority, processing, dead_letter, messages, acked, failures>>
    BY <1>15 DEF AckGet, AckSet, FailSet, Finish, Rest, TypeOK, redis, history
  <2>2. current[c] \subseteq acked \cup priority \cup dead_letter
    BY <2>1 DEF AloneInv, Acknowledges
  <2>3. \A n \in Msgs : n \notin current[c] => SamePlace(n)
    BY <1>b, <2>1 DEF SamePlace, Held, Holds
  <2>4. \A n \in current[c] \cap Msgs : Seen'[n] = Seen[n]
    BY <1>a, <2>1, <2>2 DEF SeenByPlace
  <2>5. \A n \in Msgs : Seen'[n] = Seen[n]
    BY <1>a, <2>3, <2>4, SameSeen
  <2>6. Seen' = Seen
    BY <2>5 DEF Seen
  <2> QED
    BY <2>1, <2>6
<1>16. CASE CleanupScan \/ CleanupDelete \/ Tick \/ UNCHANGED vars
  BY <1>3, <1>16 DEF CleanupScan, CleanupDelete, Tick, vars, redis, consumers, history
<1>17. ASSUME NEW c \in Consumers, AckRaises(c) \/ ConsumerCrash(c) PROVE FALSE
  BY <1>17, <1>c DEF AckRaises, ConsumerCrash, TypeOK, Alone
<1>18. ASSUME NEW m \in Msgs, PublishFails(m) PROVE FALSE
  BY <1>18, <1>c DEF PublishFails, TypeOK, Alone
<1> QED
  BY <1>4, <1>5, <1>6, <1>7, <1>9, <1>10, <1>11, <1>12, <1>13, <1>14, <1>15, <1>16, <1>17, <1>18
     DEF Next, Publish, Consume, Acknowledge

\* With one consumer that never fails, and bodies that have a time to live, the
\* sets and bodies in Redis implement the abstract retrying queue.
THEOREM AloneImplementsWorkQueue == ASSUME Alone, MessageTTL # 0 PROVE Spec => ImplementsWorkQueue
<1>1. Init => CountsAgree
  BY CountsInit
<1>2. TypeOK /\ AloneInv /\ CountsAgree /\ [Next]_vars => CountsAgree'
  BY CountsStep
<1>3. TypeOK /\ AloneInv /\ AloneInv' /\ CountsAgree /\ [Next]_vars
        => [Abstract!Next]_<<[m \in Msgs |-> QueueState(m)], failures>>
  BY SeenStep DEF Seen
<1> QED
  BY <1>1, <1>2, <1>3, SeenInit, TypeInvariant, AloneAlways, PTL DEF Spec, ImplementsWorkQueue, Abstract!Spec
-----------------------------------------------------------------------------
(* The safety half of EventuallySettled: batches are worked off *)

\* what the variables of consume, acknowledge and handle_message_failure hold at
\* each place: there is always something for the next command to be about
InHand(c) ==
    /\ pc[c] = "idle" => ids[c] = {} /\ messages[c] = {}
    /\ pc[c] \in {"scanned", "fetching"} => ids[c] # {}
    /\ pc[c] = "scanned" => messages[c] = {}
    /\ pc[c] = "working" => messages[c] # {}
    /\ pc[c] \notin {"scanned", "fetching"} => ids[c] = {}
    /\ current[c] = {} <=> pc[c] \in {"idle", "scanned", "fetching", "working"}
BatchInHand == \A c \in Consumers : InHand(c)

\* what consumer c has still to look at, and the commands before it looks at the next
Batch(c) == ids[c] \cup messages[c]
CommandsLeft(place) ==
    CASE place = "scanned"                   -> 5
      [] place = "fetching"                  -> 4
      [] place \in {"ack_del", "fail_rem"}   -> 3
      [] place \in {"ack_get", "fail_move"}  -> 2
      [] place \in {"ack_set", "fail_set"}   -> 1
      [] place \in {"working", "idle"}       -> 0

\* by the batch, the ids not fetched yet and the commands left, in this order
WorksOff(c) ==
    \/ Batch(c)' \subseteq Batch(c) /\ Batch(c)' # Batch(c)
    \/ Batch(c)' = Batch(c) /\ ids'[c] \subseteq ids[c] /\ ids'[c] # ids[c]
    \/ /\ Batch(c)' = Batch(c) /\ ids'[c] = ids[c]
       /\ CommandsLeft(pc'[c]) < CommandsLeft(pc[c])

Waits(c) == /\ pc'[c] = pc[c] /\ ids'[c] = ids[c]
            /\ messages'[c] = messages[c] /\ current'[c] = current[c]

BatchesWorkOff ==
    [][\A c \in Consumers : pc[c] # "idle" => Waits(c) \/ WorksOff(c)]_vars

\* the step is one of consumer c, and keeps its variables together
Goes(c) ==
    /\ InHand(c)'
    /\ pc[c] # "idle" => WorksOff(c)
    /\ \A d \in Consumers \ {c} : Waits(d)

LEMMA InHandInit == Init => BatchInHand
  BY DEF Init, BatchInHand, InHand

LEMMA FinishGoes ==
    ASSUME TypeOK, BatchInHand, NEW c \in Consumers, Finish(c),
           pc[c] \in ConsumerStates \ {"idle", "scanned", "fetching", "working"}
    PROVE  Goes(c)
<1>1. /\ current' = [current EXCEPT ![c] = {}] /\ ids' = ids /\ messages' = messages
      /\ pc' = [pc EXCEPT ![c] = IF messages[c] = {} THEN "idle" ELSE "working"]
  BY DEF Finish, Rest
<1>2. /\ current'[c] = {} /\ ids'[c] = ids[c] /\ messages'[c] = messages[c]
      /\ pc'[c] = IF messages[c] = {} THEN "idle" ELSE "working"
      /\ \A d \in Consumers \ {c} : Waits(d)
  BY <1>1 DEF TypeOK, Waits
<1>3. ids[c] = {}
  BY DEF BatchInHand, InHand
<1>4. InHand(c)'
  BY <1>2, <1>3 DEF InHand
<1>5. CommandsLeft(pc'[c]) = 0 /\ CommandsLeft(pc[c]) \in {1, 2, 3}
  BY <1>2 DEF CommandsLeft, ConsumerStates
<1>6. WorksOff(c)
  BY <1>2, <1>5 DEF WorksOff, Batch
<1> QED
  BY <1>2, <1>4, <1>6 DEF Goes

\* the next command about the same message
LEMMA GotoGoes ==
    ASSUME TypeOK, BatchInHand, NEW c \in Consumers, NEW place,
           pc' = [pc EXCEPT ![c] = place], UNCHANGED <<ids, messages, current>>,
           \/ pc[c] = "ack_del" /\ place = "ack_get"
           \/ pc[c] = "ack_get" /\ place = "ack_set"
           \/ pc[c] = "fail_rem" /\ place = "fail_move"
           \/ pc[c] = "fail_move" /\ place = "fail_set"
    PROVE  Goes(c)
<1>1. /\ pc'[c] = place /\ ids'[c] = ids[c] /\ messages'[c] = messages[c]
      /\ current'[c] = current[c]
      /\ \A d \in Consumers \ {c} : Waits(d)
  BY DEF TypeOK, Waits
<1>2. InHand(c)'
  BY <1>1 DEF BatchInHand, InHand
<1>3. CommandsLeft(place) < CommandsLeft(pc[c])
  BY DEF CommandsLeft
<1>4. WorksOff(c)
  BY <1>1, <1>3 DEF WorksOff, Batch
<1> QED
  BY <1>1, <1>2, <1>4 DEF Goes

LEMMA StartGoes ==
    ASSUME TypeOK, BatchInHand, NEW c \in Consumers, NEW m \in Msgs,
           NEW place \in {"ack_del", "fail_rem"}, Start(c, m, place), ids' = ids
    PROVE  Goes(c)
<1>1. /\ pc[c] = "working" /\ m \in messages[c]
      /\ pc'[c] = place /\ ids'[c] = ids[c] /\ messages'[c] = messages[c] \ {m}
      /\ current'[c] = {m}
      /\ \A d \in Consumers \ {c} : Waits(d)
  BY DEF TypeOK, Waits, Start
<1>2. ids[c] = {}
  BY <1>1 DEF BatchInHand, InHand
<1>3. InHand(c)'
  BY <1>1, <1>2 DEF InHand
<1>4. Batch(c)' = messages[c] \ {m} /\ Batch(c) = messages[c]
  BY <1>1, <1>2 DEF Batch
<1>5. WorksOff(c)
  BY <1>1, <1>4 DEF WorksOff
<1> QED
  BY <1>1, <1>3, <1>5 DEF Goes

LEMMA FetchGoes ==
    ASSUME TypeOK, BatchInHand, NEW c \in Consumers, NEW m \in Msgs, ConsumeFetch(c, m)
    PROVE  Goes(c)
<1>1. /\ pc[c] = "fetching" /\ m \in ids[c] /\ ids'[c] = ids[c] \ {m}
      /\ messages'[c] = messages[c] \/ messages'[c] = messages[c] \cup {m}
      /\ pc'[c] = IF ids'[c] # {} THEN "fetching"
                  ELSE IF messages'[c] # {} THEN "working" ELSE "idle"
      /\ current'[c] = current[c]
      /\ \A d \in Consumers \ {c} : Waits(d)
  BY DEF TypeOK, Waits, ConsumeFetch
<1>2. current[c] = {}
  BY <1>1 DEF BatchInHand, InHand
<1>3. InHand(c)'
  BY <1>1, <1>2 DEF InHand
<1>4. Batch(c)' \subseteq Batch(c)
  BY <1>1 DEF Batch
<1>5. WorksOff(c)
  BY <1>1, <1>4 DEF WorksOff
<1> QED
  BY <1>1, <1>3, <1>5 DEF Goes

LEMMA GoneGoes ==
    ASSUME TypeOK, BatchInHand, NEW c \in Consumers, NEW m \in Msgs, FailGone(c, m)
    PROVE  Goes(c)
<1>1. /\ pc[c] = "working" /\ m \in messages[c] /\ ids'[c] = ids[c]
      /\ messages'[c] = messages[c] \ {m} /\ current'[c] = current[c]
      /\ pc'[c] = IF messages'[c] = {} THEN "idle" ELSE "working"
      /\ \A d \in Consumers \ {c} : Waits(d)
  BY DEF TypeOK, Waits, FailGone
<1>2. ids[c] = {} /\ current[c] = {}
  BY <1>1 DEF BatchInHand, InHand
<1>3. InHand(c)'
  BY <1>1, <1>2 DEF InHand
<1>4. Batch(c)' = messages[c] \ {m} /\ Batch(c) = messages[c]
  BY <1>1, <1>2 DEF Batch
<1>5. WorksOff(c)
  BY <1>1, <1>4 DEF WorksOff
<1> QED
  BY <1>1, <1>3, <1>5 DEF Goes

LEMMA ScanGoes ==
    ASSUME TypeOK, BatchInHand, NEW c \in Consumers, ConsumeScan(c)
    PROVE  Goes(c)
<1>1. /\ pc[c] = "idle" /\ pc'[c] = "scanned" /\ ids'[c] # {}
      /\ messages'[c] = messages[c] /\ current'[c] = current[c]
      /\ \A d \in Consumers \ {c} : Waits(d)
  BY DEF TypeOK, Waits, ConsumeScan, Batches
<1>2. InHand(c)'
  BY <1>1 DEF BatchInHand, InHand
<1> QED
  BY <1>1, <1>2 DEF Goes

LEMMA ClaimGoes ==
    ASSUME TypeOK, BatchInHand, NEW c \in Consumers, ConsumeClaim(c)
    PROVE  Goes(c)
<1>1. /\ pc[c] = "scanned" /\ pc'[c] = "fetching" /\ ids'[c] = ids[c]
      /\ messages'[c] = messages[c] /\ current'[c] = current[c]
      /\ \A d \in Consumers \ {c} : Waits(d)
  BY DEF TypeOK, Waits, ConsumeClaim
<1>2. InHand(c)'
  BY <1>1 DEF BatchInHand, InHand
<1>3. CommandsLeft(pc'[c]) < CommandsLeft(pc[c])
  BY <1>1 DEF CommandsLeft
<1> QED
  BY <1>1, <1>2, <1>3 DEF Goes, WorksOff, Batch

LEMMA CrashGoes ==
    ASSUME TypeOK, BatchInHand, NEW c \in Consumers, ConsumerCrash(c)
    PROVE  Goes(c)
<1>1. /\ pc[c] # "idle" /\ pc'[c] = "idle" /\ ids'[c] = {}
      /\ messages'[c] = {} /\ current'[c] = {}
      /\ \A d \in Consumers \ {c} : Waits(d)
  BY DEF TypeOK, Waits, ConsumerCrash
<1>2. InHand(c)'
  BY <1>1 DEF InHand
<1>3. CASE Batch(c) # {}
  BY <1>1, <1>2, <1>3 DEF Goes, WorksOff, Batch
<1>4. CASE Batch(c) = {}
  <2>1. ids[c] = {} /\ messages[c] = {}
    BY <1>4 DEF Batch
  <2>2. pc[c] \notin {"idle", "scanned", "fetching", "working"} /\ pc[c] \in ConsumerStates
    BY <1>1, <2>1 DEF BatchInHand, InHand, TypeOK
  <2>3. CommandsLeft(pc'[c]) < CommandsLeft(pc[c])
    BY <1>1, <2>2 DEF CommandsLeft, ConsumerStates
  <2> QED
    BY <1>1, <1>2, <2>1, <2>3 DEF Goes, WorksOff, Batch
<1> QED
  BY <1>3, <1>4

\* Every step is one of a consumer that goes on, or of none.
LEMMA BatchStep ==
    ASSUME TypeOK, BatchInHand, Next
    PROVE  (\E c \in Consumers : Goes(c)) \/ (\A c \in Consumers : Waits(c))
<1>1. ASSUME NEW c \in Consumers, NEW m \in Msgs, AckRemove(c, m) \/ FailGet(c, m)
      PROVE  Goes(c)
  BY <1>1, StartGoes DEF AckRemove, FailGet
<1>2. ASSUME NEW c \in Consumers, AckDelete(c) \/ FailRemove(c) \/ FailMove(c)
      PROVE  Goes(c)
  BY <1>2, GotoGoes DEF AckDelete, FailRemove, FailMove, Goto
<1>3. ASSUME NEW c \in Consumers, AckGet(c)
      PROVE  Goes(c)
  <2>1. pc[c] = "ack_get"
    BY <1>3 DEF AckGet
  <2>2. \/ Finish(c)
        \/ pc' = [pc EXCEPT ![c] = "ack_set"] /\ UNCHANGED <<ids, messages, current>>
    BY <1>3 DEF AckGet
  <2> QED
    BY <2>1, <2>2, FinishGoes, GotoGoes DEF ConsumerStates
<1>4. ASSUME NEW c \in Consumers, AckSet(c) \/ FailSet(c)
      PROVE  Goes(c)
  BY <1>4, FinishGoes DEF AckSet, FailSet, ConsumerStates
<1>5. ASSUME NEW c \in Consumers, AckRaises(c)
      PROVE  Goes(c)
  <2>1. Finish(c) /\ current[c] # {}
    BY <1>5 DEF AckRaises
  <2>2. pc[c] \in ConsumerStates \ {"idle", "scanned", "fetching", "working"}
    BY <2>1 DEF BatchInHand, InHand, TypeOK
  <2> QED
    BY <2>1, <2>2, FinishGoes
<1>6. ASSUME NEW c \in Consumers, Consume(c)
      PROVE  Goes(c)
  BY <1>6, ScanGoes, ClaimGoes, FetchGoes DEF Consume
<1>7. ASSUME NEW c \in Consumers, Acknowledge(c)
      PROVE  Goes(c)
  BY <1>1, <1>2, <1>3, <1>4, <1>7, GoneGoes DEF Acknowledge
<1>8. ASSUME \/ \E m \in Msgs : Publish(m) \/ PublishFails(m)
             \/ CleanupScan \/ CleanupDelete \/ Tick
      PROVE  \A c \in Consumers : Waits(c)
  BY <1>8 DEF Publish, PublishBody, PublishPending, PublishPriority, PublishFails,
     CleanupScan, CleanupDelete, Tick, consumers, Waits
<1> QED
  BY <1>5, <1>6, <1>7, <1>8, CrashGoes DEF Next

LEMMA InHandStep == TypeOK /\ BatchInHand /\ [Next]_vars => BatchInHand'
<1> SUFFICES ASSUME TypeOK, BatchInHand, [Next]_vars, NEW c \in Consumers PROVE InHand(c)'
  BY DEF BatchInHand
<1>1. InHand(c)
  BY DEF BatchInHand
<1>2. Waits(c) => InHand(c)'
  BY <1>1 DEF Waits, InHand
<1>3. CASE Next
  BY <1>2, <1>3, BatchStep DEF Goes
<1>4. CASE UNCHANGED vars
  BY <1>2, <1>4 DEF vars, consumers, Waits
<1> QED
  BY <1>3, <1>4

\* Wherever a consumer stands it has what its next command is about: a batch to
\* fetch, a message to work on or one to acknowledge, whatever crashed or raised
\* before.  (consume, acknowledge, handle_message_failure.)
THEOREM BatchesStayInHand == Spec => []BatchInHand
  BY InHandInit, InHandStep, TypeInvariant, PTL DEF Spec

\* Each command of a consumer brings it nearer to the end of its batch, with any
\* number of consumers that hold the same messages, and whatever raises: no id is
\* added to a batch after it was read, and none in it is worked on twice.
\* (consume, acknowledge, handle_message_failure.)
THEOREM BatchesAlwaysWorkOff == Spec => BatchesWorkOff
<1>1. TypeOK /\ BatchInHand /\ [Next]_vars =>
        [\A c \in Consumers : pc[c] # "idle" => Waits(c) \/ WorksOff(c)]_vars
  BY BatchStep DEF Goes
<1> QED
  BY <1>1, BatchesStayInHand, TypeInvariant, PTL DEF Spec, BatchesWorkOff
=============================================================================
