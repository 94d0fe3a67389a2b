------------------------------ MODULE RedisQueue ------------------------------
(***************************************************************************)
(* RedisMessageQueue (backend/app/progress/redis_message_queue.py).        *)
(*                                                                         *)
(* One queue.  Its state lives in Redis: the body of each message (a       *)
(* string key with a time to live) and the sorted sets "pending",          *)
(* "priority", "processing" and "dead_letter".  Every await on a Redis     *)
(* command is a step of its own, so that any number of publishing,         *)
(* consuming and cleaning coroutines, in one process or in several, may    *)
(* interleave between two commands of the same method.  A pipeline is one  *)
(* step: redis-py runs it as a transaction.                                *)
(*                                                                         *)
(* The clock is a counter of whole ticks.  A fresh message has a score of  *)
(* at most 500, which any real clock reading exceeds: Epoch.               *)
(***************************************************************************)
EXTENDS Integers, FiniteSets

CONSTANTS
    Msgs,         \* message ids; each is published at most once
    Consumers,    \* coroutines that consume and acknowledge
    Priority,     \* the priority each message is published with
    CallerTTL,    \* the ttl argument of publish, 0 when it is not given
    MessageTTL,   \* QueueConfig.message_ttl, 0 for "no time to live"
    RetryDelay,   \* QueueConfig.retry_delay
    MaxRetries,   \* Message.max_retries
    BatchSize,    \* the smaller of consume's batch_size and the queue's
    CompletedTTL, \* the 300 seconds a completed body is meant to be kept
    Epoch,        \* the clock when the model starts
    Horizon,      \* bound: the clock stops here
    MaxFaults     \* bound: crashes and failed Redis commands in a behaviour

Priorities == {"critical", "high", "normal", "low"}

ASSUME ConstantsAssumption ==
    /\ Priority \in [Msgs -> Priorities]
    /\ CallerTTL \in [Msgs -> Nat]
    /\ {MessageTTL, RetryDelay, CompletedTTL, MaxFaults} \subseteq Nat
    /\ MaxRetries \in Nat \ {0}
    /\ BatchSize \in Nat \ {0}
    /\ Epoch \in Nat /\ Epoch > 500
    /\ Horizon \in Nat /\ Horizon >= Epoch

VARIABLES
    now,          \* time.time()
    body,         \* msg:<queue>:<id>; absent or expired when exp <= now
    pending,      \* ids in queue:<queue>:pending
    deadline,     \* their scores
    priority,     \* ids in queue:<queue>:priority
    score,        \* their scores
    processing,   \* ids in queue:<queue>:processing
    dead_letter,  \* ids in queue:<queue>:dead_letter
    publisher,    \* how far publish has come for each message
    pc,           \* where each consumer stands
    ids,          \* message_ids of its consume call that are not fetched yet
    messages,     \* what it has been handed and has not acknowledged
    current,      \* the message_id it is acknowledging
    data,         \* the body that acknowledgement has read
    expired_ids,  \* what cleanup_expired_messages has read
    faults,       \* crashes and failed commands so far
    acked,        \* history: ids acknowledged with success
    failures      \* history: failed deliveries reported per message

redis     == <<body, pending, deadline, priority, score, processing, dead_letter>>
consumers == <<pc, ids, messages, current, data>>
history   == <<acked, failures>>
vars == <<now, redis, publisher, consumers, expired_ids, faults, history>>

Statuses == {"pending", "completed", "retry", "dead_letter"}
Body     == [retry_count : Nat, status : Statuses, exp : Nat]
NoBody   == [retry_count |-> 0, status |-> "pending", exp |-> 0]

PublisherStates == {"new", "stored", "listed", "done", "failed"}
ConsumerStates  == {"idle", "scanned", "fetching", "working",
                    "ack_del", "ack_get", "ack_set",
                    "fail_rem", "fail_move", "fail_set"}

\* at most one element
Optional(S) == {{}} \cup {{x} : x \in S}

Alive(m) == body[m].exp > now

TypeOK ==
    /\ now \in Epoch..Horizon
    /\ body \in [Msgs -> Body]
    /\ pending \subseteq Msgs     /\ deadline \in [Msgs -> Int]
    /\ priority \subseteq Msgs    /\ score \in [Msgs -> Int]
    /\ processing \subseteq Msgs  /\ dead_letter \subseteq Msgs
    /\ publisher \in [Msgs -> PublisherStates]
    /\ pc \in [Consumers -> ConsumerStates]
    /\ ids \in [Consumers -> SUBSET Msgs]
    /\ messages \in [Consumers -> SUBSET Msgs]
    /\ current \in [Consumers -> Optional(Msgs)]
    /\ data \in [Consumers -> Body]
    /\ expired_ids \subseteq Msgs
    /\ faults \in 0..MaxFaults
    /\ acked \subseteq Msgs
    /\ failures \in [Msgs -> Nat]

Init ==
    /\ now = Epoch
    /\ body = [m \in Msgs |-> NoBody]
    /\ pending = {}     /\ deadline = [m \in Msgs |-> 0]
    /\ priority = {}    /\ score = [m \in Msgs |-> 0]
    /\ processing = {}  /\ dead_letter = {}
    /\ publisher = [m \in Msgs |-> "new"]
    /\ pc = [c \in Consumers |-> "idle"]
    /\ ids = [c \in Consumers |-> {}]
    /\ messages = [c \in Consumers |-> {}]
    /\ current = [c \in Consumers |-> {}]
    /\ data = [c \in Consumers |-> NoBody]
    /\ expired_ids = {}
    /\ faults = 0
    /\ acked = {}
    /\ failures = [m \in Msgs |-> 0]

-----------------------------------------------------------------------------
(* publish: body, then pending, then priority *)

TTL(m) == IF CallerTTL[m] # 0 THEN CallerTTL[m] ELSE MessageTTL

\* SET without a time to live outlives the model
Expiry(ttl) == IF ttl = 0 THEN Horizon + 1 ELSE now + ttl

PriorityScore(p) ==
    CASE p = "critical" -> -1000
      [] p = "high"     -> -500
      [] p = "normal"   -> 0
      [] p = "low"      -> 500

PublishBody(m) ==
    /\ publisher[m] = "new"
    /\ body' = [body EXCEPT ![m] = [NoBody EXCEPT !.exp = Expiry(TTL(m))]]
    /\ publisher' = [publisher EXCEPT ![m] = "stored"]
    /\ UNCHANGED <<now, pending, deadline, priority, score, processing,
                   dead_letter, consumers, expired_ids, faults, history>>

PublishPending(m) ==
    /\ publisher[m] = "stored"
    /\ pending' = pending \cup {m}
    /\ deadline' = [deadline EXCEPT ![m] = now + TTL(m)]
    /\ publisher' = [publisher EXCEPT ![m] = "listed"]
    /\ UNCHANGED <<now, body, priority, score, processing, dead_letter,
                   consumers, expired_ids, faults, history>>

PublishPriority(m) ==
    /\ publisher[m] = "listed"
    /\ priority' = priority \cup {m}
    /\ score' = [score EXCEPT ![m] = PriorityScore(Priority[m])]
    /\ publisher' = [publisher EXCEPT ![m] = "done"]
    /\ UNCHANGED <<now, body, pending, deadline, processing, dead_letter,
                   consumers, expired_ids, faults, history>>

\* a command raises, or the process dies, with the message half published
PublishFails(m) ==
    /\ publisher[m] \in {"stored", "listed"}
    /\ faults < MaxFaults
    /\ faults' = faults + 1
    /\ publisher' = [publisher EXCEPT ![m] = "failed"]
    /\ UNCHANGED <<now, redis, consumers, expired_ids, history>>

-----------------------------------------------------------------------------
(* consume: read a batch of due ids, claim them, fetch their bodies *)

DueFromZero == {m \in priority : score[m] \in 0..now}
Due == {m \in priority : score[m] <= now}

\* the batches zrangebyscore may return: ties are broken by id
Batches(S) ==
    {B \in SUBSET S : /\ B # {}
                      /\ Cardinality(B) = BatchSize
                           \/ (Cardinality(B) < BatchSize /\ B = S)
                      /\ \A m \in B, n \in S \ B : score[m] <= score[n]}

\* with nothing due the call sleeps and returns an empty list
ConsumeScan(c) ==
    /\ pc[c] = "idle"
    /\ \E B \in Batches(Due) : ids' = [ids EXCEPT ![c] = B]
    /\ pc' = [pc EXCEPT ![c] = "scanned"]
    /\ UNCHANGED <<now, redis, publisher, messages, current, data,
                   expired_ids, faults, history>>

ConsumeClaimCopies(c) ==
    /\ pc[c] = "scanned"
    /\ processing' = processing \cup ids[c]
    /\ pc' = [pc EXCEPT ![c] = "fetching"]
    /\ UNCHANGED <<now, body, pending, deadline, priority, score, dead_letter,
                   publisher, ids, messages, current, data, expired_ids, faults,
                   history>>

ConsumeClaimDrops(c) ==
    /\ pc[c] = "scanned"
    /\ priority' = priority \ ids[c]
    /\ pc' = [pc EXCEPT ![c] = "fetching"]
    /\ UNCHANGED <<now, body, pending, deadline, score, processing, dead_letter,
                   publisher, ids, messages, current, data, expired_ids, faults,
                   history>>

\* the results of the ZREMs are not looked at
ConsumeClaim(c) ==
    /\ pc[c] = "scanned"
    /\ priority' = priority \ ids[c]
    /\ processing' = processing \cup ids[c]
    /\ pc' = [pc EXCEPT ![c] = "fetching"]
    /\ UNCHANGED <<now, body, pending, deadline, score, dead_letter, publisher,
                   ids, messages, current, data, expired_ids, faults, history>>

\* an id whose body is gone is skipped and stays in "processing"
ConsumeFetch(c, m) ==
    /\ pc[c] = "fetching"
    /\ m \in ids[c]
    /\ ids' = [ids EXCEPT ![c] = @ \ {m}]
    /\ messages' = [messages EXCEPT ![c] = IF Alive(m) THEN @ \cup {m} ELSE @]
    /\ pc' = [pc EXCEPT ![c] = IF ids'[c] # {} THEN "fetching"
                               ELSE IF messages'[c] # {} THEN "working" ELSE "idle"]
    /\ UNCHANGED <<now, redis, publisher, current, data, expired_ids, faults,
                   history>>

-----------------------------------------------------------------------------
(* acknowledge and handle_message_failure *)

\* the caller is done with message m and starts acknowledging it
Start(c, m, state) ==
    /\ pc[c] = "working"
    /\ m \in messages[c]
    /\ messages' = [messages EXCEPT ![c] = @ \ {m}]
    /\ current' = [current EXCEPT ![c] = {m}]
    /\ pc' = [pc EXCEPT ![c] = state]

\* acknowledge returns; the caller goes on with the rest of its batch
Rest(c) == IF messages[c] = {} THEN "idle" ELSE "working"
Finish(c) ==
    /\ current' = [current EXCEPT ![c] = {}]
    /\ data' = [data EXCEPT ![c] = NoBody]
    /\ pc' = [pc EXCEPT ![c] = Rest(c)]
    /\ UNCHANGED <<ids, messages>>

Goto(c, state) ==
    /\ pc' = [pc EXCEPT ![c] = state]
    /\ UNCHANGED <<ids, messages, current, data>>

AckRemove(c, m) ==
    /\ Start(c, m, "ack_del")
    /\ processing' = processing \ {m}
    /\ acked' = acked \cup {m}
    /\ UNCHANGED <<now, body, pending, deadline, priority, score, dead_letter,
                   publisher, ids, data, expired_ids, faults, failures>>

AckDelete(c) ==
    /\ pc[c] = "ack_del"
    /\ body' = [m \in Msgs |-> IF m \in current[c] THEN NoBody ELSE body[m]]
    /\ Goto(c, "ack_get")
    /\ UNCHANGED <<now, pending, deadline, priority, score, processing,
                   dead_letter, publisher, expired_ids, faults, history>>

\* the body is written again only when somebody re-created it meanwhile
AckGet(c) ==
    /\ pc[c] = "ack_get"
    /\ \E m \in current[c] :
         \/ /\ ~Alive(m)
            /\ Finish(c)
         \/ /\ Alive(m)
            /\ data' = [data EXCEPT ![c] = [body[m] EXCEPT !.status = "completed"]]
            /\ pc' = [pc EXCEPT ![c] = "ack_set"]
            /\ UNCHANGED <<ids, messages, current>>
    /\ UNCHANGED <<now, redis, publisher, expired_ids, faults, history>>

AckSet(c) ==
    /\ pc[c] = "ack_set"
    /\ body' = [m \in Msgs |-> IF m \in current[c]
                               THEN [data[c] EXCEPT !.exp = now + CompletedTTL]
                               ELSE body[m]]
    /\ Finish(c)
    /\ UNCHANGED <<now, pending, deadline, priority, score, processing,
                   dead_letter, publisher, expired_ids, faults, history>>

\* a failure of a message whose body is gone leaves everything as it is
FailGone(c, m) ==
    /\ pc[c] = "working"
    /\ m \in messages[c]
    /\ ~Alive(m)
    /\ messages' = [messages EXCEPT ![c] = @ \ {m}]
    /\ pc' = [pc EXCEPT ![c] = IF messages'[c] = {} THEN "idle" ELSE "working"]
    /\ UNCHANGED <<now, redis, publisher, ids, current, data, expired_ids,
                   faults, history>>

GivesUpEarly(tries) == tries + 1 >= MaxRetries
GivesUpLate(tries)  == tries > MaxRetries
GivesUp(tries)      == tries >= MaxRetries

FailureStatusFailed(tries) == IF GivesUp(tries) THEN "failed" ELSE "retry"
FailureStatus(tries)       == IF GivesUp(tries) THEN "dead_letter" ELSE "retry"

FailGet(c, m) ==
    /\ Alive(m)
    /\ Start(c, m, "fail_rem")
    /\ LET tries == body[m].retry_count + 1
       IN  data' = [data EXCEPT ![c] =
                      [body[m] EXCEPT !.retry_count = tries,
                                      !.status = FailureStatus(tries)]]
    /\ UNCHANGED <<now, redis, publisher, ids, expired_ids, faults, history>>

FailRemoveForgotten(c) ==
    /\ pc[c] = "fail_rem"
    /\ Goto(c, "fail_move")
    /\ UNCHANGED <<now, redis, publisher, expired_ids, faults, history>>

FailRemove(c) ==
    /\ pc[c] = "fail_rem"
    /\ processing' = processing \ current[c]
    /\ Goto(c, "fail_move")
    /\ UNCHANGED <<now, body, pending, deadline, priority, score, dead_letter,
                   publisher, expired_ids, faults, history>>

\* to the dead letters after MaxRetries tries, else back with a growing delay
FailMove(c) ==
    /\ pc[c] = "fail_move"
    /\ \E m \in current[c] :
         /\ failures' = [failures EXCEPT ![m] = @ + 1]
         /\ \/ /\ GivesUp(data[c].retry_count)
               /\ dead_letter' = dead_letter \cup {m}
               /\ UNCHANGED <<priority, score>>
            \/ /\ ~GivesUp(data[c].retry_count)
               /\ priority' = priority \cup {m}
               /\ score' = [score EXCEPT
                              ![m] = now + RetryDelay * 2^data[c].retry_count]
               /\ UNCHANGED dead_letter
    /\ Goto(c, "fail_set")
    /\ UNCHANGED <<now, body, pending, deadline, processing, publisher,
                   expired_ids, faults, acked>>

\* SETEX refuses a time to live of 0; the error is logged and swallowed
FailSet(c) ==
    /\ pc[c] = "fail_set"
    /\ body' = [m \in Msgs |-> IF m \in current[c] /\ MessageTTL # 0
                               THEN [data[c] EXCEPT !.exp = now + MessageTTL]
                               ELSE body[m]]
    /\ Finish(c)
    /\ UNCHANGED <<now, pending, deadline, priority, score, processing,
                   dead_letter, publisher, expired_ids, faults, history>>

\* a command of acknowledge raises: logged and swallowed
AckRaises(c) ==
    /\ current[c] # {}
    /\ faults < MaxFaults
    /\ faults' = faults + 1
    /\ Finish(c)
    /\ UNCHANGED <<now, redis, publisher, expired_ids, history>>

\* the consumer's process dies, or a command of consume raises
ConsumerCrash(c) ==
    /\ pc[c] # "idle"
    /\ faults < MaxFaults
    /\ faults' = faults + 1
    /\ pc' = [pc EXCEPT ![c] = "idle"]
    /\ ids' = [ids EXCEPT ![c] = {}]
    /\ messages' = [messages EXCEPT ![c] = {}]
    /\ current' = [current EXCEPT ![c] = {}]
    /\ data' = [data EXCEPT ![c] = NoBody]
    /\ UNCHANGED <<now, redis, publisher, expired_ids, history>>

-----------------------------------------------------------------------------
(* cleanup_expired_messages: read the ids, then delete in one pipeline *)

CleanupScan ==
    /\ expired_ids = {}
    /\ expired_ids' = {m \in pending : deadline[m] \in 0..now}
    /\ UNCHANGED <<now, redis, publisher, consumers, faults, history>>

CleanupDelete ==
    /\ expired_ids # {}
    /\ body' = [m \in Msgs |-> IF m \in expired_ids THEN NoBody ELSE body[m]]
    /\ pending' = pending \ expired_ids
    /\ expired_ids' = {}
    /\ UNCHANGED <<now, deadline, priority, score, processing, dead_letter,
                   publisher, consumers, faults, history>>

Tick ==
    /\ now < Horizon
    /\ now' = now + 1
    /\ UNCHANGED <<redis, publisher, consumers, expired_ids, faults, history>>

-----------------------------------------------------------------------------
Publish(m) == PublishBody(m) \/ PublishPending(m) \/ PublishPriority(m)

Consume(c) == \/ ConsumeScan(c) \/ ConsumeClaim(c)
              \/ \E m \in Msgs : ConsumeFetch(c, m)

Acknowledge(c) ==
    \/ \E m \in Msgs : AckRemove(c, m) \/ FailGone(c, m) \/ FailGet(c, m)
    \/ AckDelete(c) \/ AckGet(c) \/ AckSet(c)
    \/ FailRemove(c) \/ FailMove(c) \/ FailSet(c)

Next ==
    \/ \E m \in Msgs : Publish(m) \/ PublishFails(m)
    \/ \E c \in Consumers : \/ Consume(c) \/ Acknowledge(c)
                            \/ AckRaises(c) \/ ConsumerCrash(c)
    \/ CleanupScan \/ CleanupDelete
    \/ Tick

Spec == Init /\ [][Next]_vars

\* coroutines keep running and time passes; cleaning is up to the caller
Fairness ==
    /\ \A m \in Msgs : WF_vars(Publish(m))
    /\ \A c \in Consumers : WF_vars(Consume(c) \/ Acknowledge(c))
    /\ WF_vars(Tick)

FairSpec == Spec /\ Fairness

-----------------------------------------------------------------------------
(* Properties *)

\* consumer c has claimed m and has not let go of it
Holds(c, m) == \/ m \in messages[c] \cup current[c]
               \/ pc[c] = "fetching" /\ m \in ids[c]

\* handle_message_failure has taken m out of "processing" and not yet put it
\* anywhere else
Moving(m) == \E c \in Consumers : pc[c] = "fail_move" /\ m \in current[c]

\* With one consumer a message is in one place: waiting, being processed, or
\* dead.  (consume and handle_message_failure move it with separate commands.)
OneHome ==
    \A m \in Msgs :
        /\ ~(m \in priority /\ m \in processing)
        /\ ~(m \in priority /\ m \in dead_letter)
        /\ ~(m \in processing /\ m \in dead_letter)

\* With one consumer and no fault nothing rests in "processing" unnoticed: an
\* entry whose message still exists is in the hands of the consumer.  Nothing
\* else ever takes an entry out of that set.
ProcessingIsHeld ==
    \A m \in processing : Alive(m) => \E c \in Consumers : Holds(c, m)

\* Without faults, but with any number of consumers that may take the same
\* message, a published message that has neither expired nor been acknowledged
\* is never lost: some set names it, or a failure is moving it.
NotLost ==
    faults = 0 =>
        \A m \in Msgs :
            publisher[m] = "done" /\ Alive(m) /\ m \notin acked
                => m \in priority \cup processing \cup dead_letter \/ Moving(m)

\* A message is given up only after MaxRetries failures were reported for it,
\* however consumers that hold it twice overwrite each other's retry_count.
DeadLetterEarned ==
    \A m \in dead_letter : failures[m] >= MaxRetries

\* Without faults every published message is settled or expires, unless its next
\* try is due after the end of the model's clock.
EventuallySettled ==
    \A m \in Msgs :
        publisher[m] = "done" ~>
            \/ m \in acked \cup dead_letter \/ ~Alive(m)
            \/ m \in priority /\ score[m] > Horizon

\* what the abstract queue sees of a message
QueueState(m) ==
    CASE m \in acked -> "done"
      [] m \in dead_letter -> "dead"
      [] m \notin acked \cup dead_letter /\ m \in priority -> "ready"
      [] m \notin acked \cup dead_letter \cup priority
           /\ \E c \in Consumers : Holds(c, m) -> "delivered"
      [] m \in processing
           /\ m \notin acked \cup dead_letter \cup priority
           /\ \A c \in Consumers : ~Holds(c, m) -> "expired"
      [] OTHER -> "unpublished"

Abstract == INSTANCE WorkQueue
              WITH state <- [m \in Msgs |-> QueueState(m)], tries <- failures

\* With one consumer and no fault the four sets and the bodies implement the
\* abstract retrying queue.
ImplementsWorkQueue == Abstract!Spec
=============================================================================
