------------------------------ MODULE SkillSocket ------------------------------
(***************************************************************************)
(* ConnectionManager, the endpoint that serves one connection, the         *)
(* broadcasts and the heartbeat monitor                                    *)
(* (backend/app/api/websocket/skill_websocket.py).                         *)
(*                                                                         *)
(* An endpoint, a broadcast's sends and the monitor interleave where they  *)
(* await: a receive, a send, the monitor's sleep.  A send raises when the  *)
(* client has left and does not return while the client is stuck (up, but  *)
(* not reading).  A tick of the clock is the monitor's sleep.              *)
(***************************************************************************)
EXTENDS Naturals, FiniteSets

CONSTANTS
    Conns,      \* connection ids, each used once
    Users,
    UserOf,     \* the user_id of each connection
    Types,      \* SubscriptionType
    Skills,
    NoSkill,    \* skill_id None
    Broadcasts, \* broadcasting coroutines
    Timeout,    \* 120 seconds, in ticks
    Faults      \* what each client does: of "left", "stuck", "garbage"

ASSUME SocketConstants ==
    /\ UserOf \in [Conns -> Users]
    /\ NoSkill \notin Skills
    /\ Timeout \in Nat

VARIABLES
    table,    \* active_connections
    users,    \* user_connections, {} for a user that is no key
    subs,     \* the subscriptions of each connection
    skills,   \* the skill_ids of each connection
    index,    \* skill_subscriptions, {} for a skill that is no key
    active,   \* is_active
    idle,     \* time since last_heartbeat, in ticks, up to Timeout + 2
    endpoint, \* where the endpoint of each connection is
    peer,     \* the client
    due,      \* the monitor's sleep is over
    todo,     \* sends of a broadcast that have not begun
    sending,  \* sends of a broadcast that have not returned
    got,      \* history: who received the broadcast
    staying   \* history: its targets that have been connected and up since

conns == <<users, subs, skills, index>>
sends == <<todo, sending, got>>
vars  == <<table, conns, active, idle, endpoint, peer, due, sends, staying>>

\* In particular no connection in the table is idle for longer than the timeout
\* and one period of the monitor: the cap of Timeout + 2 is never reached.
TypeOK ==
    /\ table \subseteq Conns
    /\ users \in [Users -> SUBSET Conns]
    /\ subs \in [Conns -> SUBSET Types]
    /\ skills \in [Conns -> SUBSET Skills]
    /\ index \in [Skills -> SUBSET Conns]
    /\ active \in [Conns -> BOOLEAN]
    /\ idle \in [Conns -> 0..Timeout + 1]
    /\ endpoint \in [Conns -> {"new", "receiving", "replying", "failing", "ended"}]
    /\ peer \in [Conns -> {"up", "stuck", "left"}]
    /\ due \in BOOLEAN
    /\ todo \in [Broadcasts -> SUBSET Conns]
    /\ sending \in [Broadcasts -> SUBSET Conns]
    /\ got \in [Broadcasts -> SUBSET Conns]
    /\ staying \in [Broadcasts -> SUBSET Conns]

Init ==
    /\ table = {}
    /\ users = [u \in Users |-> {}]
    /\ subs = [c \in Conns |-> {}]
    /\ skills = [c \in Conns |-> {}]
    /\ index = [s \in Skills |-> {}]
    /\ active = [c \in Conns |-> TRUE]
    /\ idle = [c \in Conns |-> 0]
    /\ endpoint = [c \in Conns |-> "new"]
    /\ peer = [c \in Conns |-> "up"]
    /\ due = FALSE
    /\ todo = [b \in Broadcasts |-> {}]
    /\ sending = [b \in Broadcasts |-> {}]
    /\ got = [b \in Broadcasts |-> {}]
    /\ staying = [b \in Broadcasts |-> {}]

-----------------------------------------------------------------------------
(* ConnectionManager *)

\* send_message has something to do: the connection is known and active
Sendable(c) == c \in table /\ active[c]

DisconnectKeepsSkills(gone) ==
    /\ table' = table \ gone
    /\ users' = [u \in Users |-> users[u] \ {c \in gone \cap table : UserOf[c] = u}]
    /\ staying' = [b \in Broadcasts |-> staying[b] \ gone]
    /\ UNCHANGED <<index, subs, skills>>

\* disconnect, of several connections at once when the monitor calls it
Disconnect(gone) ==
    /\ table' = table \ gone
    /\ users' = [u \in Users |-> users[u] \ {c \in gone \cap table : UserOf[c] = u}]
    /\ index' = [s \in Skills |-> index[s] \ {c \in gone \cap table : s \in skills[c]}]
    /\ staying' = [b \in Broadcasts |-> staying[b] \ gone]
    /\ UNCHANGED <<subs, skills>>

\* the connections broadcast_to_subscribers sends to
Subscribers(t, s) ==
    {c \in table : t \in subs[c] /\ (s # NoSkill => s \in skills[c])}

-----------------------------------------------------------------------------
(* The endpoint *)

\* whatever it did, it answers; send_message drops the answer to a connection
\* that is not sendable
Answers(c) == endpoint' = [endpoint EXCEPT ![c] = IF Sendable(c) THEN "replying"
                                                                 ELSE "receiving"]

\* accepted, entered in the tables, and being welcomed
Connect(c) ==
    /\ endpoint[c] = "new"
    /\ table' = table \cup {c}
    /\ users' = [users EXCEPT ![UserOf[c]] = @ \cup {c}]
    /\ endpoint' = [endpoint EXCEPT ![c] = "replying"]
    /\ UNCHANGED <<subs, skills, index, active, idle, peer, due, sends, staying>>

\* a message from the client
Receives(c) == endpoint[c] = "receiving" /\ peer[c] = "up"

Heartbeat(c) ==
    /\ Receives(c)
    /\ idle' = IF c \in table THEN [idle EXCEPT ![c] = 0] ELSE idle
    /\ Answers(c)
    /\ UNCHANGED <<table, conns, active, peer, due, sends, staying>>

Subscribe(c, t, s) ==
    /\ Receives(c)
    /\ IF c \in table
       THEN /\ subs' = [subs EXCEPT ![c] = @ \cup {t}]
            /\ skills' = [skills EXCEPT ![c] = @ \cup ({s} \ {NoSkill})]
            /\ index' = IF s = NoSkill THEN index
                                       ELSE [index EXCEPT ![s] = @ \cup {c}]
       ELSE UNCHANGED <<subs, skills, index>>
    /\ Answers(c)
    /\ UNCHANGED <<table, users, active, idle, peer, due, sends, staying>>

\* the type goes whatever the skill, and the skill whatever the type
Unsubscribe(c, t, s) ==
    /\ Receives(c)
    /\ IF c \in table
       THEN /\ subs' = [subs EXCEPT ![c] = @ \ {t}]
            /\ skills' = [skills EXCEPT ![c] = @ \ {s}]
            /\ index' = IF s = NoSkill THEN index
                                       ELSE [index EXCEPT ![s] = @ \ {c}]
       ELSE UNCHANGED <<subs, skills, index>>
    /\ Answers(c)
    /\ UNCHANGED <<table, users, active, idle, peer, due, sends, staying>>

\* a message of another MessageType is answered with an error
OtherMessage(c) ==
    /\ Receives(c)
    /\ Answers(c)
    /\ UNCHANGED <<table, conns, active, idle, peer, due, sends, staying>>

\* a message that is not JSON or of no MessageType ends the endpoint's loop;
\* it reports the error first
Garbage(c) ==
    /\ "garbage" \in Faults[c]
    /\ Receives(c)
    /\ endpoint' = [endpoint EXCEPT ![c] = "failing"]
    /\ UNCHANGED <<table, conns, active, idle, peer, due, sends, staying>>

\* the send of an answer returns; a failed one only marks the connection
AnswerReturns(c) ==
    /\ endpoint[c] = "replying"
    /\ peer[c] # "stuck"
    /\ endpoint' = [endpoint EXCEPT ![c] = "receiving"]
    /\ active' = [active EXCEPT ![c] = @ /\ peer[c] # "left"]
    /\ UNCHANGED <<table, conns, idle, peer, due, sends, staying>>

\* the finally clause, after WebSocketDisconnect or the report of an error
EndpointEnds(c) ==
    /\ \/ endpoint[c] = "receiving" /\ peer[c] = "left"
       \/ endpoint[c] = "failing" /\ (Sendable(c) => peer[c] # "stuck")
    /\ endpoint' = [endpoint EXCEPT ![c] = "ended"]
    /\ Disconnect({c})
    /\ UNCHANGED <<active, idle, peer, due, sends>>

-----------------------------------------------------------------------------
(* Broadcasts: gather runs the sends side by side *)

Resting(b) == todo[b] = {} /\ sending[b] = {}

Broadcast(b, t, s) ==
    /\ Resting(b)
    /\ todo' = [todo EXCEPT ![b] = Subscribers(t, s)]
    /\ got' = [got EXCEPT ![b] = {}]
    /\ staying' = [staying EXCEPT ![b] = {c \in Subscribers(t, s) : peer[c] = "up"}]
    /\ UNCHANGED <<table, conns, active, idle, endpoint, peer, due, sending>>

SendInTurn(b, c) ==
    /\ c \in todo[b] /\ sending[b] = {}
    /\ todo' = [todo EXCEPT ![b] = @ \ {c}]
    /\ sending' = IF Sendable(c) THEN [sending EXCEPT ![b] = @ \cup {c}] ELSE sending
    /\ UNCHANGED <<table, conns, active, idle, endpoint, peer, due, got, staying>>

SendBegins(b, c) ==
    /\ c \in todo[b]
    /\ todo' = [todo EXCEPT ![b] = @ \ {c}]
    /\ sending' = IF Sendable(c) THEN [sending EXCEPT ![b] = @ \cup {c}] ELSE sending
    /\ UNCHANGED <<table, conns, active, idle, endpoint, peer, due, got, staying>>

SendReturns(b, c) ==
    /\ c \in sending[b]
    /\ peer[c] # "stuck"
    /\ sending' = [sending EXCEPT ![b] = @ \ {c}]
    /\ IF peer[c] = "up"
       THEN got' = [got EXCEPT ![b] = @ \cup {c}] /\ UNCHANGED active
       ELSE active' = [active EXCEPT ![c] = FALSE] /\ UNCHANGED got
    /\ UNCHANGED <<table, conns, idle, endpoint, peer, due, todo, staying>>

-----------------------------------------------------------------------------
(* monitor_heartbeats *)

Tick ==
    /\ ~due
    /\ due' = TRUE
    /\ idle' = [c \in Conns |-> IF c \in table /\ idle[c] <= Timeout + 1
                                THEN idle[c] + 1 ELSE idle[c]]
    /\ UNCHANGED <<table, conns, active, endpoint, peer, sends, staying>>

StaleInactive == {c \in table : idle[c] > Timeout /\ ~active[c]}

\* whom it finds stale
Stale == {c \in table : idle[c] > Timeout}

Monitor ==
    /\ due
    /\ due' = FALSE
    /\ Disconnect(Stale)
    /\ UNCHANGED <<active, idle, endpoint, peer, sends>>

-----------------------------------------------------------------------------
(* The clients *)

Fails(c) ==
    /\ endpoint[c] \notin {"new", "ended"} /\ peer[c] # "left"
    /\ \E how \in Faults[c] \cap {"left", "stuck"} : peer' = [peer EXCEPT ![c] = how]
    /\ staying' = [b \in Broadcasts |-> staying[b] \ {c}]
    /\ UNCHANGED <<table, conns, active, idle, endpoint, due, sends>>

Recovers(c) ==
    /\ peer[c] = "stuck"
    /\ peer' = [peer EXCEPT ![c] = "up"]
    /\ UNCHANGED <<table, conns, active, idle, endpoint, due, sends, staying>>

-----------------------------------------------------------------------------
SkillsOrNone == Skills \cup {NoSkill}

EndpointStep(c) ==
    \/ Connect(c) \/ Heartbeat(c) \/ OtherMessage(c) \/ Garbage(c)
    \/ \E t \in Types, s \in SkillsOrNone : Subscribe(c, t, s) \/ Unsubscribe(c, t, s)
    \/ AnswerReturns(c) \/ EndpointEnds(c)

Next ==
    \/ \E c \in Conns : EndpointStep(c) \/ Fails(c) \/ Recovers(c)
    \/ \E b \in Broadcasts :
         \/ \E t \in Types, s \in SkillsOrNone : Broadcast(b, t, s)
         \/ \E c \in Conns : SendBegins(b, c) \/ SendReturns(b, c)
    \/ Tick \/ Monitor

Spec == Init /\ [][Next]_vars

\* the event loop runs what can run, and time passes; clients owe nothing
FairSpec ==
    /\ Spec
    /\ \A c \in Conns : WF_vars(AnswerReturns(c)) /\ WF_vars(EndpointEnds(c))
    /\ \A b \in Broadcasts, c \in Conns :
         WF_vars(SendBegins(b, c)) /\ WF_vars(SendReturns(b, c))
    /\ WF_vars(Tick) /\ WF_vars(Monitor)

-----------------------------------------------------------------------------
(* Properties *)

\* user_connections and skill_subscriptions say of the connections in the table
\* exactly what the connections say themselves, and name no other: the
\* endpoint's disconnect and the monitor's, in either order, leave nothing.
IndexesAgree ==
    /\ \A u \in Users : users[u] = {c \in table : UserOf[c] = u}
    /\ \A s \in Skills : index[s] = {c \in table : s \in skills[c]}

\* gather keeps the sends of a broadcast apart: a target that stays connected
\* and up receives it even if the send to another never returns.
BroadcastReaches ==
    \A b \in Broadcasts, c \in Conns :
        c \in staying[b] ~> c \in got[b] \/ c \notin staying[b]

\* A client that leaves, or gets stuck while its endpoint or a broadcast waits
\* for it, is forgotten, unless it comes back.
FailedIsForgotten ==
    \A c \in Conns : c \in table /\ peer[c] # "up" ~> c \notin table \/ peer[c] = "up"
=============================================================================
