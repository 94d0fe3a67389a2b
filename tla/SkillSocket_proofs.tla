--------------------------- MODULE SkillSocket_proofs ---------------------------
(***************************************************************************)
(* Proofs about SkillSocket: the types, which hold because the monitor     *)
(* takes every silent connection off the table before the clock ticks      *)
(* again, the agreement of the two indexes with the connections, and that  *)
(* a broadcast owes a send only to connections that are in the table.      *)
(***************************************************************************)
EXTENDS SkillSocket, TLAPS

\* The monitor, when it has run since the last tick, has left only connections
\* within the timeout; a tick adds one to that.
IdleBounded ==
    \A c \in table : idle[c] <= IF due THEN Timeout + 1 ELSE Timeout


\* A connection id whose endpoint has not connected yet has left no trace.
NewIsBlank ==
    \A c \in Conns : endpoint[c] = "new" => /\ c \notin table
                                            /\ skills[c] = {}
                                            /\ idle[c] = 0

IInv == TypeOK /\ IdleBounded /\ NewIsBlank /\ IndexesAgree

LEMMA InitIInv == Init => IInv
<1> SUFFICES ASSUME Init
             PROVE  IInv
    OBVIOUS
<1>1. TypeOK
    <2>1. /\ table \subseteq Conns
          /\ users \in [Users -> SUBSET Conns]
          /\ subs \in [Conns -> SUBSET Types]
          /\ skills \in [Conns -> SUBSET Skills]
          /\ index \in [Skills -> SUBSET Conns]
          /\ due \in BOOLEAN
        BY DEF Init
    <2>2. /\ active \in [Conns -> BOOLEAN]
          /\ idle \in [Conns -> 0..Timeout + 1]
          /\ endpoint \in [Conns -> {"new", "receiving", "replying", "failing", "ended"}]
          /\ peer \in [Conns -> {"up", "stuck", "left"}]
        BY SocketConstants DEF Init
    <2>3. /\ todo \in [Broadcasts -> SUBSET Conns]
          /\ sending \in [Broadcasts -> SUBSET Conns]
          /\ got \in [Broadcasts -> SUBSET Conns]
          /\ staying \in [Broadcasts -> SUBSET Conns]
        BY DEF Init
    <2> QED  BY <2>1, <2>2, <2>3 DEF TypeOK
<1>2. IdleBounded
    BY DEF Init, IdleBounded
<1>3. NewIsBlank
    BY DEF Init, NewIsBlank
<1>4. IndexesAgree
    BY DEF Init, IndexesAgree
<1> QED  BY <1>1, <1>2, <1>3, <1>4 DEF IInv

-----------------------------------------------------------------------------
\* disconnect keeps the tables' types, and both indexes in agreement with them,
\* whoever calls it and for however many connections.
LEMMA DisconnectKeepsTables ==
    ASSUME IInv, NEW gone \in SUBSET Conns, Disconnect(gone)
    PROVE  /\ table' = table \ gone
           /\ users' \in [Users -> SUBSET Conns]
           /\ index' \in [Skills -> SUBSET Conns]
           /\ staying' \in [Broadcasts -> SUBSET Conns]
           /\ UNCHANGED <<subs, skills>>
           /\ IndexesAgree'
<1>1. /\ table' = table \ gone
      /\ UNCHANGED <<subs, skills>>
      /\ users' = [u \in Users |-> users[u] \ {c \in gone \cap table : UserOf[c] = u}]
      /\ index' = [s \in Skills |-> index[s] \ {c \in gone \cap table : s \in skills[c]}]
      /\ staying' = [b \in Broadcasts |-> staying[b] \ gone]
    BY DEF Disconnect
<1>2. users' \in [Users -> SUBSET Conns] /\ index' \in [Skills -> SUBSET Conns]
    BY <1>1 DEF IInv, TypeOK
<1>3. staying' \in [Broadcasts -> SUBSET Conns]
    BY <1>1 DEF IInv, TypeOK
<1>4. ASSUME NEW u \in Users
      PROVE  users'[u] = {c \in table' : UserOf[c] = u}
    BY <1>1 DEF IInv, IndexesAgree
<1>5. ASSUME NEW s \in Skills
      PROVE  index'[s] = {c \in table' : s \in skills'[c]}
    BY <1>1 DEF IInv, IndexesAgree
<1> QED
    BY <1>1, <1>2, <1>3, <1>4, <1>5 DEF IndexesAgree

\* Steps that leave the tables alone leave the indexes right.
LEMMA TablesUnchanged ==
    ASSUME IInv, UNCHANGED <<table, conns>>
    PROVE  IndexesAgree'
BY DEF IInv, IndexesAgree, conns

\* Steps that leave the tables, the clock and the endpoints alone only have to
\* keep their types.
LEMMA OnlyTypes ==
    ASSUME IInv, UNCHANGED <<table, conns, idle, due, endpoint>>, TypeOK'
    PROVE  IInv'
<1>1. IdleBounded'
    BY DEF IInv, IdleBounded
<1>2. NewIsBlank'
    BY DEF IInv, NewIsBlank, conns
<1> QED  BY <1>1, <1>2, TablesUnchanged DEF IInv

-----------------------------------------------------------------------------
\* The endpoint's steps.
LEMMA ConnectIInv ==
    ASSUME IInv, NEW c \in Conns, Connect(c)
    PROVE  IInv'
<1> USE SocketConstants
<1>1. TypeOK'
    <2>1. table' \subseteq Conns /\ users' \in [Users -> SUBSET Conns]
        BY DEF Connect, IInv, TypeOK
    <2>2. endpoint' \in [Conns -> {"new", "receiving", "replying", "failing", "ended"}]
        BY DEF Connect, IInv, TypeOK
    <2> QED  BY <2>1, <2>2 DEF Connect, IInv, TypeOK, sends
<1>2. IdleBounded'
    BY DEF Connect, IInv, TypeOK, IdleBounded, NewIsBlank
<1>3. NewIsBlank'
    BY DEF Connect, IInv, TypeOK, NewIsBlank
<1>4. IndexesAgree'
    <2>1. ASSUME NEW w \in Users
          PROVE  users'[w] = {d \in table' : UserOf[d] = w}
        BY DEF Connect, IInv, TypeOK, IndexesAgree
    <2>2. ASSUME NEW s \in Skills
          PROVE  index'[s] = {d \in table' : s \in skills'[d]}
        BY DEF Connect, IInv, TypeOK, IndexesAgree, NewIsBlank
    <2> QED  BY <2>1, <2>2 DEF IndexesAgree
<1> QED  BY <1>1, <1>2, <1>3, <1>4 DEF IInv

LEMMA HeartbeatIInv ==
    ASSUME IInv, NEW c \in Conns, Heartbeat(c)
    PROVE  IInv'
<1> USE SocketConstants
<1>1. TypeOK'
    <2>1. idle' \in [Conns -> 0..Timeout + 1]
        BY DEF Heartbeat, IInv, TypeOK
    <2>2. endpoint' \in [Conns -> {"new", "receiving", "replying", "failing", "ended"}]
        BY DEF Heartbeat, Answers, IInv, TypeOK
    <2> QED  BY <2>1, <2>2 DEF Heartbeat, IInv, TypeOK, conns, sends
<1>2. IdleBounded'
    BY DEF Heartbeat, IInv, TypeOK, IdleBounded
<1>3. NewIsBlank'
    BY DEF Heartbeat, Answers, Receives, IInv, TypeOK, NewIsBlank, conns
<1> QED  BY <1>1, <1>2, <1>3, TablesUnchanged DEF Heartbeat, IInv

LEMMA SubscribeIInv ==
    ASSUME IInv, NEW c \in Conns, NEW t \in Types, NEW s \in SkillsOrNone,
           Subscribe(c, t, s)
    PROVE  IInv'
<1> USE SocketConstants
<1>1. /\ subs' \in [Conns -> SUBSET Types]
      /\ skills' \in [Conns -> SUBSET Skills]
      /\ index' \in [Skills -> SUBSET Conns]
    BY DEF Subscribe, SkillsOrNone, IInv, TypeOK
<1>3. endpoint' \in [Conns -> {"new", "receiving", "replying", "failing", "ended"}]
    BY DEF Subscribe, Answers, IInv, TypeOK
<1>4. TypeOK'
    BY <1>1, <1>3 DEF Subscribe, IInv, TypeOK, sends
<1>5. IdleBounded'
    BY DEF Subscribe, IInv, IdleBounded
<1>6. NewIsBlank'
    BY DEF Subscribe, Answers, Receives, IInv, TypeOK, NewIsBlank
<1>7. IndexesAgree'
    <2>1. ASSUME NEW w \in Users
          PROVE  users'[w] = {d \in table' : UserOf[d] = w}
        BY DEF Subscribe, IInv, IndexesAgree
    <2>2. ASSUME NEW k \in Skills
          PROVE  index'[k] = {d \in table' : k \in skills'[d]}
        <3>0. s \in Skills \/ s = NoSkill
            BY DEF SkillsOrNone
        <3>1. index[k] = {d \in table : k \in skills[d]} /\ table' = table
            BY DEF IInv, IndexesAgree, Subscribe
        <3>2. CASE c \notin table
            BY <3>1, <3>2 DEF Subscribe
        <3>3. CASE c \in table
            <4>1. \A d \in Conns : skills'[d] = IF d = c THEN skills[c] \cup ({s} \ {NoSkill})
                                                         ELSE skills[d]
                BY <3>3 DEF Subscribe, IInv, TypeOK
            <4>2. index'[k] = IF k = s THEN index[k] \cup {c} ELSE index[k]
                <5>1. CASE s = NoSkill
                    BY <3>3, <5>1 DEF Subscribe
                <5>2. CASE s \in Skills
                    <6>1. index' = [index EXCEPT ![s] = @ \cup {c}]
                        BY <3>3, <5>2 DEF Subscribe
                    <6> QED  BY <5>2, <6>1 DEF IInv, TypeOK
                <5> QED  BY <3>0, <5>1, <5>2
            <4>3. \A d \in table : k \in skills'[d] <=> d \in index'[k]
                BY <3>0, <3>1, <3>3, <4>1, <4>2 DEF IInv, TypeOK
            <4>4. index'[k] \subseteq table
                BY <3>1, <3>3, <4>2
            <4>5. index'[k] = {d \in table : k \in skills'[d]}
                BY <4>3, <4>4, Zenon
            <4> QED  BY <3>1, <4>5, Zenon
        <3> QED  BY <3>2, <3>3
    <2> QED  BY <2>1, <2>2 DEF IndexesAgree
<1> QED  BY <1>4, <1>5, <1>6, <1>7 DEF IInv

LEMMA UnsubscribeIInv ==
    ASSUME IInv, NEW c \in Conns, NEW t \in Types, NEW s \in SkillsOrNone,
           Unsubscribe(c, t, s)
    PROVE  IInv'
<1> USE SocketConstants
<1>1. /\ subs' \in [Conns -> SUBSET Types]
      /\ skills' \in [Conns -> SUBSET Skills]
      /\ index' \in [Skills -> SUBSET Conns]
    <2>0. s \in Skills \/ s = NoSkill
        BY DEF SkillsOrNone
    <2>1. CASE c \in table
        <3>1. subs' = [subs EXCEPT ![c] = @ \ {t}] /\ subs' \in [Conns -> SUBSET Types]
            BY <2>1 DEF Unsubscribe, IInv, TypeOK
        <3>2. skills' = [skills EXCEPT ![c] = @ \ {s}] /\ skills' \in [Conns -> SUBSET Skills]
            BY <2>1 DEF Unsubscribe, IInv, TypeOK
        <3>3. index' \in [Skills -> SUBSET Conns]
            BY <2>0, <2>1 DEF Unsubscribe, IInv, TypeOK
        <3> QED  BY <3>1, <3>2, <3>3
    <2>2. CASE c \notin table
        BY <2>2 DEF Unsubscribe, IInv, TypeOK
    <2> QED  BY <2>1, <2>2
<1>3. endpoint' \in [Conns -> {"new", "receiving", "replying", "failing", "ended"}]
    BY DEF Unsubscribe, Answers, IInv, TypeOK
<1>4. TypeOK'
    BY <1>1, <1>3 DEF Unsubscribe, IInv, TypeOK, sends
<1>5. IdleBounded'
    BY DEF Unsubscribe, IInv, IdleBounded
<1>6. NewIsBlank'
    BY DEF Unsubscribe, Answers, Receives, IInv, TypeOK, NewIsBlank
<1>7. IndexesAgree'
    <2>1. ASSUME NEW w \in Users
          PROVE  users'[w] = {d \in table' : UserOf[d] = w}
        BY DEF Unsubscribe, IInv, IndexesAgree
    <2>2. ASSUME NEW k \in Skills
          PROVE  index'[k] = {d \in table' : k \in skills'[d]}
        <3>0. s \in Skills \/ s = NoSkill
            BY DEF SkillsOrNone
        <3>1. index[k] = {d \in table : k \in skills[d]} /\ table' = table
            BY DEF IInv, IndexesAgree, Unsubscribe
        <3>2. CASE c \notin table
            BY <3>1, <3>2 DEF Unsubscribe
        <3>3. CASE c \in table
            <4>1. \A d \in Conns : skills'[d] = IF d = c THEN skills[c] \ {s}
                                                         ELSE skills[d]
                BY <3>3 DEF Unsubscribe, IInv, TypeOK
            <4>2. index'[k] = IF k = s THEN index[k] \ {c} ELSE index[k]
                <5>1. CASE s = NoSkill
                    BY <3>3, <5>1 DEF Unsubscribe
                <5>2. CASE s \in Skills
                    <6>1. index' = [index EXCEPT ![s] = @ \ {c}]
                        BY <3>3, <5>2 DEF Unsubscribe
                    <6> QED  BY <5>2, <6>1 DEF IInv, TypeOK
                <5> QED  BY <3>0, <5>1, <5>2
            <4>3. \A d \in table : k \in skills'[d] <=> d \in index'[k]
                BY <3>0, <3>1, <3>3, <4>1, <4>2 DEF IInv, TypeOK
            <4>4. index'[k] \subseteq table
                BY <3>1, <3>3, <4>2
            <4>5. index'[k] = {d \in table : k \in skills'[d]}
                BY <4>3, <4>4, Zenon
            <4> QED  BY <3>1, <4>5, Zenon
        <3> QED  BY <3>2, <3>3
    <2> QED  BY <2>1, <2>2 DEF IndexesAgree
<1> QED  BY <1>4, <1>5, <1>6, <1>7 DEF IInv

LEMMA AnswerIInv ==
    ASSUME IInv, NEW c \in Conns, OtherMessage(c) \/ Garbage(c) \/ AnswerReturns(c)
    PROVE  IInv'
<1>1. /\ UNCHANGED <<table, conns, idle, peer, due, sends, staying>>
      /\ endpoint[c] # "new"
      /\ \E e \in {"failing", "receiving", "replying"} : endpoint' = [endpoint EXCEPT ![c] = e]
      /\ active' \in [Conns -> BOOLEAN]
    BY DEF OtherMessage, Garbage, AnswerReturns, Answers, Receives, IInv, TypeOK
<1>2. TypeOK'
    <2>1. endpoint' \in [Conns -> {"new", "receiving", "replying", "failing", "ended"}]
        BY <1>1 DEF IInv, TypeOK
    <2> QED  BY <1>1, <2>1 DEF IInv, TypeOK, conns, sends
<1>3. IdleBounded'
    BY <1>1 DEF IInv, IdleBounded
<1>4. NewIsBlank'
    BY <1>1 DEF IInv, TypeOK, NewIsBlank, conns
<1> QED  BY <1>1, <1>2, <1>3, <1>4, TablesUnchanged DEF IInv

LEMMA EndpointEndsIInv ==
    ASSUME IInv, NEW c \in Conns, EndpointEnds(c)
    PROVE  IInv'
<1>1. /\ Disconnect({c})
      /\ endpoint[c] # "new"
      /\ endpoint' = [endpoint EXCEPT ![c] = "ended"]
      /\ UNCHANGED <<active, idle, peer, due, sends>>
    BY DEF EndpointEnds
<1>2. /\ table' = table \ {c}
      /\ users' \in [Users -> SUBSET Conns]
      /\ index' \in [Skills -> SUBSET Conns]
      /\ staying' \in [Broadcasts -> SUBSET Conns]
      /\ UNCHANGED <<subs, skills>>
      /\ IndexesAgree'
    BY <1>1, DisconnectKeepsTables
<1>3. TypeOK'
    <2>1. endpoint' \in [Conns -> {"new", "receiving", "replying", "failing", "ended"}]
        BY <1>1 DEF IInv, TypeOK
    <2> QED  BY <1>1, <1>2, <2>1 DEF IInv, TypeOK, sends
<1>4. IdleBounded'
    BY <1>1, <1>2 DEF IInv, IdleBounded
<1>5. NewIsBlank'
    BY <1>1, <1>2 DEF IInv, TypeOK, NewIsBlank
<1> QED  BY <1>2, <1>3, <1>4, <1>5 DEF IInv

-----------------------------------------------------------------------------
\* The broadcasts and the clients.
LEMMA BroadcastIInv ==
    ASSUME IInv, NEW b \in Broadcasts,
           \/ \E t \in Types, s \in SkillsOrNone : Broadcast(b, t, s)
           \/ \E c \in Conns : SendBegins(b, c) \/ SendReturns(b, c)
    PROVE  IInv'
<1>1. ASSUME NEW t \in Types, NEW s \in SkillsOrNone, Broadcast(b, t, s)
      PROVE  IInv'
    <2>1. Subscribers(t, s) \subseteq Conns
        BY DEF Subscribers, IInv, TypeOK
    <2>2. TypeOK'
        BY <1>1, <2>1 DEF Broadcast, IInv, TypeOK, conns
    <2> QED  BY <1>1, <2>2, OnlyTypes DEF Broadcast
<1>2. ASSUME NEW c \in Conns, SendBegins(b, c)
      PROVE  IInv'
    <2>1. TypeOK'
        BY <1>2 DEF SendBegins, IInv, TypeOK, conns
    <2> QED  BY <1>2, <2>1, OnlyTypes DEF SendBegins
<1>3. ASSUME NEW c \in Conns, SendReturns(b, c)
      PROVE  IInv'
    <2>1. /\ sending' \in [Broadcasts -> SUBSET Conns]
          /\ got' \in [Broadcasts -> SUBSET Conns]
        BY <1>3 DEF SendReturns, IInv, TypeOK
    <2>2. active' \in [Conns -> BOOLEAN]
        BY <1>3 DEF SendReturns, IInv, TypeOK
    <2>3. TypeOK'
        BY <1>3, <2>1, <2>2 DEF SendReturns, IInv, TypeOK, conns
    <2> QED  BY <1>3, <2>3, OnlyTypes DEF SendReturns
<1> QED  BY <1>1, <1>2, <1>3

LEMMA ClientIInv ==
    ASSUME IInv, NEW c \in Conns, Fails(c) \/ Recovers(c)
    PROVE  IInv'
<1>1. CASE Fails(c)
    <2>1. peer' \in [Conns -> {"up", "stuck", "left"}]
        BY <1>1 DEF Fails, IInv, TypeOK
    <2>2. staying' \in [Broadcasts -> SUBSET Conns]
        <3>1. staying' = [b \in Broadcasts |-> staying[b] \ {c}]
            BY <1>1 DEF Fails
        <3> QED  BY <3>1 DEF IInv, TypeOK
    <2>3. TypeOK'
        BY <1>1, <2>1, <2>2 DEF Fails, IInv, TypeOK, conns, sends
    <2> QED  BY <1>1, <2>3, OnlyTypes DEF Fails
<1>2. CASE Recovers(c)
    <2>1. TypeOK'
        BY <1>2 DEF Recovers, IInv, TypeOK, conns, sends
    <2> QED  BY <1>2, <2>1, OnlyTypes DEF Recovers
<1> QED  BY <1>1, <1>2

-----------------------------------------------------------------------------
\* The clock and the monitor.
LEMMA TickIInv ==
    ASSUME IInv, Tick
    PROVE  IInv'
<1>1. idle' \in [Conns -> 0..Timeout + 1]
    <2>1. ASSUME NEW c \in Conns, c \in table
          PROVE  idle[c] <= Timeout
        BY <2>1 DEF Tick, IInv, IdleBounded
    <2> QED  BY <2>1, SocketConstants DEF Tick, IInv, TypeOK
<1>2. TypeOK'
    BY <1>1 DEF Tick, IInv, TypeOK, conns, sends
<1>3. IdleBounded'
    BY <1>1, SocketConstants DEF Tick, IInv, TypeOK, IdleBounded
<1>4. NewIsBlank'
    BY DEF Tick, IInv, NewIsBlank, TypeOK, conns
<1> QED  BY <1>2, <1>3, <1>4, TablesUnchanged DEF Tick, IInv

LEMMA MonitorIInv ==
    ASSUME IInv, Monitor
    PROVE  IInv'
<1>1. Stale \in SUBSET Conns
    BY DEF Stale, IInv, TypeOK
<1>2. /\ table' = table \ Stale
      /\ users' \in [Users -> SUBSET Conns]
      /\ index' \in [Skills -> SUBSET Conns]
      /\ staying' \in [Broadcasts -> SUBSET Conns]
      /\ UNCHANGED <<subs, skills>>
      /\ IndexesAgree'
    BY <1>1, DisconnectKeepsTables DEF Monitor
<1>3. TypeOK'
    BY <1>2 DEF Monitor, IInv, TypeOK, sends
<1>4. IdleBounded'
    BY <1>2, SocketConstants DEF Monitor, Stale, IInv, TypeOK, IdleBounded
<1>5. NewIsBlank'
    BY <1>2 DEF Monitor, IInv, NewIsBlank
<1> QED  BY <1>2, <1>3, <1>4, <1>5 DEF IInv

-----------------------------------------------------------------------------
LEMMA StepIInv == IInv /\ [Next]_vars => IInv'
<1> SUFFICES ASSUME IInv, [Next]_vars
             PROVE  IInv'
    OBVIOUS
<1>1. ASSUME NEW c \in Conns, EndpointStep(c)
      PROVE  IInv'
    BY <1>1, ConnectIInv, HeartbeatIInv, SubscribeIInv, UnsubscribeIInv, AnswerIInv,
       EndpointEndsIInv DEF EndpointStep
<1>2. ASSUME NEW c \in Conns, Fails(c) \/ Recovers(c)
      PROVE  IInv'
    BY <1>2, ClientIInv
<1>3. ASSUME NEW b \in Broadcasts,
             \/ \E t \in Types, s \in SkillsOrNone : Broadcast(b, t, s)
             \/ \E c \in Conns : SendBegins(b, c) \/ SendReturns(b, c)
      PROVE  IInv'
    BY <1>3, BroadcastIInv
<1>4. CASE Tick \/ Monitor
    BY <1>4, TickIInv, MonitorIInv
<1>5. CASE UNCHANGED vars
    <2>1. TypeOK'
        BY <1>5 DEF vars, conns, sends, IInv, TypeOK
    <2> QED  BY <1>5, <2>1, OnlyTypes DEF vars
<1> QED  BY <1>1, <1>2, <1>3, <1>4, <1>5 DEF Next

\* In every reachable state everything has its type; in particular nothing in
\* the table is idle for longer than the timeout and one period of the monitor.
THEOREM TypesHold == Spec => []TypeOK
<1>1. IInv => TypeOK
    BY DEF IInv
<1> QED  BY <1>1, InitIInv, StepIInv, PTL DEF Spec

\* In every reachable state user_connections and skill_subscriptions are what
\* the connections in the table say.
THEOREM IndexesAlwaysAgree == Spec => []IndexesAgree
<1>1. IInv => IndexesAgree
    BY DEF IInv
<1> QED  BY <1>1, InitIInv, StepIInv, PTL DEF Spec

-----------------------------------------------------------------------------
(* Broadcasts: the safety half of BroadcastReaches *)

\* send_message marks a connection inactive only when its client has left
InactiveHasLeft == \A c \in Conns : ~active[c] => peer[c] = "left"

\* a send of a broadcast is to begin, under way or done, and one of these only
SentOnce ==
    \A b \in Broadcasts :
        todo[b] \cap sending[b] = {} /\ got[b] \cap (todo[b] \cup sending[b]) = {}

\* a target that stays is still known and up, and has the broadcast or will be
\* sent it: no other send, endpoint or monitor takes it off the list
StayersServed ==
    \A b \in Broadcasts : \A c \in staying[b] :
        /\ c \in table /\ peer[c] = "up"
        /\ c \in todo[b] \cup sending[b] \cup got[b]

BroadcastsInOrder == InactiveHasLeft /\ SentOnce /\ StayersServed

SendsInv == TypeOK /\ BroadcastsInOrder

LEMMA SendsInit == Init => SendsInv
<1> SUFFICES ASSUME Init PROVE SendsInv
    OBVIOUS
<1>1. TypeOK
    BY InitIInv DEF IInv
<1>2. BroadcastsInOrder
    BY DEF Init, BroadcastsInOrder, InactiveHasLeft, SentOnce, StayersServed
<1> QED  BY <1>1, <1>2 DEF SendsInv

\* nothing happens to the sends, and who leaves or fails does not stay
LEMMA SendsUntouched ==
    ASSUME SendsInv, sends' = sends, active' = active,
           \A b \in Broadcasts : \A c \in staying'[b] :
               c \in staying[b] /\ (c \in table => c \in table') /\ peer'[c] = peer[c],
           \A c \in Conns : peer[c] = "left" => peer'[c] = "left"
    PROVE  BroadcastsInOrder'
<1>1. InactiveHasLeft'
    BY DEF SendsInv, BroadcastsInOrder, InactiveHasLeft
<1>2. SentOnce'
    BY DEF SendsInv, BroadcastsInOrder, SentOnce, sends
<1>3. StayersServed'
    BY DEF SendsInv, BroadcastsInOrder, StayersServed, sends
<1> QED  BY <1>1, <1>2, <1>3 DEF BroadcastsInOrder

\* one cell of a table of sets
LEMMA OneCell ==
    ASSUME NEW a \in [Broadcasts -> SUBSET Conns], NEW b \in Broadcasts, NEW S
    PROVE  \A d \in Broadcasts : [a EXCEPT ![b] = S][d] = IF d = b THEN S ELSE a[d]
    OBVIOUS

LEMMA BroadcastInOrder ==
    ASSUME SendsInv, NEW b \in Broadcasts, NEW t \in Types, NEW s \in SkillsOrNone, Broadcast(b, t, s)
    PROVE  BroadcastsInOrder'
<1> DEFINE targets == Subscribers(t, s)
           up == {c \in targets : peer[c] = "up"}
<1>1. /\ todo' = [todo EXCEPT ![b] = targets] /\ got' = [got EXCEPT ![b] = {}]
      /\ staying' = [staying EXCEPT ![b] = up]
      /\ todo[b] = {} /\ sending[b] = {}
      /\ UNCHANGED <<table, active, peer, sending>>
    BY DEF Broadcast, Resting
<1>2. targets \subseteq table /\ up \subseteq targets /\ \A c \in up : peer[c] = "up"
    BY DEF Subscribers
<1> HIDE DEF targets, up
<1>3. /\ todo \in [Broadcasts -> SUBSET Conns] /\ got \in [Broadcasts -> SUBSET Conns]
      /\ staying \in [Broadcasts -> SUBSET Conns]
    BY DEF SendsInv, TypeOK
<1>4. \A d \in Broadcasts :
        /\ todo'[d] = IF d = b THEN targets ELSE todo[d]
        /\ got'[d] = IF d = b THEN {} ELSE got[d]
        /\ staying'[d] = IF d = b THEN up ELSE staying[d]
    BY <1>1, <1>3, OneCell
<1>5. InactiveHasLeft'
    BY <1>1 DEF SendsInv, BroadcastsInOrder, InactiveHasLeft
<1>6. SentOnce'
    BY <1>1, <1>4 DEF SendsInv, BroadcastsInOrder, SentOnce
<1>7. StayersServed'
    BY <1>1, <1>2, <1>4 DEF SendsInv, BroadcastsInOrder, StayersServed
<1> QED  BY <1>5, <1>6, <1>7 DEF BroadcastsInOrder

LEMMA SendBeginsInOrder ==
    ASSUME SendsInv, NEW b \in Broadcasts, NEW c \in Conns, SendBegins(b, c)
    PROVE  BroadcastsInOrder'
<1>1. /\ c \in todo[b] /\ todo' = [todo EXCEPT ![b] = @ \ {c}]
      /\ sending' = IF Sendable(c) THEN [sending EXCEPT ![b] = @ \cup {c}] ELSE sending
      /\ UNCHANGED <<table, active, peer, got, staying>>
    BY DEF SendBegins
<1>2. todo \in [Broadcasts -> SUBSET Conns] /\ sending \in [Broadcasts -> SUBSET Conns]
    BY DEF SendsInv, TypeOK
<1>3. \A d \in Broadcasts :
        /\ todo'[d] = IF d = b THEN todo[d] \ {c} ELSE todo[d]
        /\ sending'[d] = IF d = b /\ Sendable(c) THEN sending[d] \cup {c} ELSE sending[d]
    BY <1>1, <1>2
<1>4. c \in staying[b] => Sendable(c)
    BY DEF SendsInv, TypeOK, BroadcastsInOrder, StayersServed, InactiveHasLeft, Sendable
<1>5. InactiveHasLeft'
    BY <1>1 DEF SendsInv, BroadcastsInOrder, InactiveHasLeft
<1>6. SentOnce'
    BY <1>1, <1>3 DEF SendsInv, BroadcastsInOrder, SentOnce
<1>7. StayersServed'
    BY <1>1, <1>3, <1>4 DEF SendsInv, BroadcastsInOrder, StayersServed
<1> QED  BY <1>5, <1>6, <1>7 DEF BroadcastsInOrder

LEMMA SendReturnsInOrder ==
    ASSUME SendsInv, NEW b \in Broadcasts, NEW c \in Conns, SendReturns(b, c)
    PROVE  BroadcastsInOrder'
<1>1. /\ c \in sending[b] /\ peer[c] # "stuck" /\ sending' = [sending EXCEPT ![b] = @ \ {c}]
      /\ peer[c] = "up" => got' = [got EXCEPT ![b] = @ \cup {c}] /\ active' = active
      /\ peer[c] # "up" => active' = [active EXCEPT ![c] = FALSE] /\ got' = got
      /\ UNCHANGED <<table, peer, todo, staying>>
    BY DEF SendReturns
<1>2. /\ sending \in [Broadcasts -> SUBSET Conns] /\ got \in [Broadcasts -> SUBSET Conns]
      /\ active \in [Conns -> BOOLEAN] /\ peer[c] \in {"up", "stuck", "left"}
    BY DEF SendsInv, TypeOK
<1>3. \A d \in Broadcasts :
        /\ sending'[d] = IF d = b THEN sending[d] \ {c} ELSE sending[d]
        /\ got'[d] = IF d = b /\ peer[c] = "up" THEN got[d] \cup {c} ELSE got[d]
    BY <1>1, <1>2
<1>4. InactiveHasLeft'
    <2> SUFFICES ASSUME NEW e \in Conns, ~active'[e] PROVE peer[e] = "left"
        BY <1>1 DEF InactiveHasLeft
    <2>1. active'[e] = active[e] \/ (e = c /\ peer[c] = "left")
        BY <1>1, <1>2
    <2> QED  BY <2>1 DEF SendsInv, BroadcastsInOrder, InactiveHasLeft
<1>5. c \in sending[b] /\ UNCHANGED <<table, peer, todo, staying>>
    BY <1>1
<1>6. SentOnce'
    <2> SUFFICES ASSUME NEW d \in Broadcasts
                 PROVE  /\ todo'[d] \cap sending'[d] = {}
                        /\ got'[d] \cap (todo'[d] \cup sending'[d]) = {}
        BY DEF SentOnce
    <2>1. todo[d] \cap sending[d] = {} /\ got[d] \cap (todo[d] \cup sending[d]) = {}
        BY DEF SendsInv, BroadcastsInOrder, SentOnce
    <2>2. todo'[d] = todo[d]
        BY <1>5
    <2> QED  BY <1>3, <1>5, <2>1, <2>2
<1>7. StayersServed'
    <2> SUFFICES ASSUME NEW d \in Broadcasts, NEW e \in staying[d]
                 PROVE  /\ e \in table /\ peer[e] = "up"
                        /\ e \in todo[d] \cup sending'[d] \cup got'[d]
        BY <1>5 DEF StayersServed
    <2>1. e \in table /\ peer[e] = "up" /\ e \in todo[d] \cup sending[d] \cup got[d]
        BY DEF SendsInv, BroadcastsInOrder, StayersServed
    <2> QED  BY <1>3, <2>1
<1> QED  BY <1>4, <1>6, <1>7 DEF BroadcastsInOrder

\* disconnecting takes those who are gone off the lists of those who stay
LEMMA DisconnectInOrder ==
    ASSUME SendsInv, NEW gone \in SUBSET Conns, Disconnect(gone), UNCHANGED <<sends, active, peer>>
    PROVE  BroadcastsInOrder'
<1>1. table' = table \ gone /\ staying' = [b \in Broadcasts |-> staying[b] \ gone]
    BY DEF Disconnect
<1> QED  BY <1>1, SendsUntouched

LEMMA EndpointInOrder ==
    ASSUME SendsInv, NEW c \in Conns, EndpointStep(c)
    PROVE  BroadcastsInOrder'
<1>1. CASE EndpointEnds(c)
    BY <1>1, DisconnectInOrder DEF EndpointEnds
<1>2. CASE AnswerReturns(c)
    <2>1. /\ active' = [active EXCEPT ![c] = @ /\ peer[c] # "left"]
          /\ UNCHANGED <<table, peer, sends, staying>>
        BY <1>2 DEF AnswerReturns
    <2>2. \A e \in Conns : ~active'[e] => ~active[e] \/ peer[e] = "left"
        <3> DEFINE n == active[c] /\ peer[c] # "left"
        <3>1. active' = [active EXCEPT ![c] = n] /\ active \in [Conns -> BOOLEAN]
            BY <2>1 DEF SendsInv, TypeOK
        <3>2. ~n => ~active[c] \/ peer[c] = "left"
            OBVIOUS
        <3> HIDE DEF n
        <3>3. \A e \in Conns : active'[e] = IF e = c THEN n ELSE active[e]
            BY <3>1
        <3> QED  BY <3>2, <3>3
    <2>3. InactiveHasLeft'
        BY <2>1, <2>2 DEF SendsInv, BroadcastsInOrder, InactiveHasLeft
    <2>4. SentOnce' /\ StayersServed'
        BY <2>1 DEF SendsInv, BroadcastsInOrder, SentOnce, StayersServed, sends
    <2> QED  BY <2>3, <2>4 DEF BroadcastsInOrder
<1>3. CASE Connect(c)
    BY <1>3, SendsUntouched DEF Connect
<1>4. CASE Heartbeat(c)
    BY <1>4, SendsUntouched DEF Heartbeat
<1>5. CASE OtherMessage(c)
    BY <1>5, SendsUntouched DEF OtherMessage
<1>6. CASE Garbage(c)
    BY <1>6, SendsUntouched DEF Garbage
<1>7. ASSUME NEW t \in Types, NEW s \in SkillsOrNone, Subscribe(c, t, s) \/ Unsubscribe(c, t, s)
      PROVE  BroadcastsInOrder'
    BY <1>7, SendsUntouched DEF Subscribe, Unsubscribe
<1> QED  BY <1>1, <1>2, <1>3, <1>4, <1>5, <1>6, <1>7 DEF EndpointStep

LEMMA ClientInOrder ==
    ASSUME SendsInv, NEW c \in Conns, Fails(c) \/ Recovers(c)
    PROVE  BroadcastsInOrder'
<1>1. CASE Fails(c)
    <2>1. PICK how : peer' = [peer EXCEPT ![c] = how]
        BY <1>1 DEF Fails
    <2>2. /\ peer[c] # "left" /\ UNCHANGED <<table, active, sends>>
          /\ staying' = [b \in Broadcasts |-> staying[b] \ {c}]
        BY <1>1 DEF Fails
    <2>3. \A e \in Conns \ {c} : peer'[e] = peer[e]
        BY <2>1 DEF SendsInv, TypeOK
    <2>4. \A b \in Broadcasts : staying[b] \subseteq Conns
        BY DEF SendsInv, TypeOK
    <2> QED  BY <2>2, <2>3, <2>4, SendsUntouched
<1>2. CASE Recovers(c)
    <2>1. /\ peer[c] = "stuck" /\ peer' = [peer EXCEPT ![c] = "up"]
          /\ UNCHANGED <<table, active, sends, staying>>
        BY <1>2 DEF Recovers
    <2>2. \A e \in Conns \ {c} : peer'[e] = peer[e]
        BY <2>1 DEF SendsInv, TypeOK
    <2>3. \A b \in Broadcasts : staying[b] \subseteq Conns \ {c}
        BY <2>1 DEF SendsInv, TypeOK, BroadcastsInOrder, StayersServed
    <2> QED  BY <2>1, <2>2, <2>3, SendsUntouched
<1> QED  BY <1>1, <1>2

LEMMA SendsStep == IInv /\ SendsInv /\ [Next]_vars => SendsInv'
<1> SUFFICES ASSUME IInv, SendsInv, [Next]_vars PROVE SendsInv'
    OBVIOUS
<1>1. TypeOK'
    BY StepIInv DEF IInv
<1> SUFFICES BroadcastsInOrder'
    BY <1>1 DEF SendsInv
<1>2. ASSUME NEW b \in Broadcasts,
             \/ \E t \in Types, s \in SkillsOrNone : Broadcast(b, t, s)
             \/ \E c \in Conns : SendBegins(b, c) \/ SendReturns(b, c)
      PROVE  BroadcastsInOrder'
    BY <1>2, BroadcastInOrder, SendBeginsInOrder, SendReturnsInOrder
<1>3. CASE Tick
    BY <1>3, SendsUntouched DEF Tick
<1>4. CASE Monitor
    <2>1. Stale \in SUBSET Conns
        BY DEF Stale, SendsInv, TypeOK
    <2> QED  BY <1>4, <2>1, DisconnectInOrder DEF Monitor
<1>5. CASE UNCHANGED vars
    BY <1>5, SendsUntouched DEF vars
<1> QED  BY <1>2, <1>3, <1>4, <1>5, EndpointInOrder, ClientInOrder DEF Next

\* A target that stays connected and up has received the broadcast or will be
\* sent it, once, whatever other sends, endpoints and the monitor do meanwhile;
\* and only clients that have left are marked inactive.
\* (broadcast_to_subscribers, send_message, disconnect.)
THEOREM BroadcastsStayInOrder == Spec => []BroadcastsInOrder
<1>1. SendsInv => BroadcastsInOrder
    BY DEF SendsInv
<1> QED  BY <1>1, InitIInv, StepIInv, SendsInit, SendsStep, PTL DEF Spec
=============================================================================
