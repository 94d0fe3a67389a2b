----------------------------- MODULE FileEvents -----------------------------
(***************************************************************************)
(* FileOperationEventManager (backend/app/file/event_manager.py): events   *)
(* are put into a bounded queue and worked off by one task, which is       *)
(* started and stopped; each event is handed to its handlers at the same   *)
(* time, and the next one waits for all of them.                           *)
(*                                                                         *)
(* Handlers are coroutines, which may publish further events, or functions *)
(* run in a pool of threads, large enough here.  One that raises counts as *)
(* one that returns.  The worker waits for an event with asyncio.wait_for  *)
(* of Python 3.11 (backend/Dockerfile), which drops a cancellation that    *)
(* comes when the event is already taken.  Statistics are left out, and so *)
(* are the module's functions that create one manager for the process.     *)
(***************************************************************************)
EXTENDS Integers, Sequences, FiniteSets

CONSTANTS
    Handlers,   \* registrations, for one type of event or for all of them
    Threaded,   \* the handlers that are plain functions
    MaxQueue,   \* maxsize of _event_queue
    MaxHistory, \* _max_history_size
    MaxEvents,  \* bound: events, numbered in the order they are published
    MaxStarts,  \* bound: workers, numbered in the order they are started
    Inline      \* bound: events that may be published with async_mode=False

Events  == 1..MaxEvents
Workers == 1..MaxStarts

ASSUME FileEventConstants ==
    /\ Threaded \subseteq Handlers
    /\ MaxQueue \in Nat \ {0} /\ MaxHistory \in Nat \ {0}
    /\ MaxEvents \in Nat /\ MaxStarts \in Nat

VARIABLES
    published, \* how many events there were
    stage,     \* what has become of each
    from,      \* the handler that waits for room for it, if one does
    queue,     \* _event_queue
    history,   \* _event_history
    registered,\* _handlers of the type and _global_handlers
    calls,     \* the call of each handler for each event
    running,   \* _running
    started,   \* how many workers there were; the last one is _worker_task
    worker,    \* where each of them is, and its event
    stopping,  \* workers a stop() waits for
    executor,  \* whether the pool takes more functions
    overlapped \* history: a start() came while a stop() was waiting

life == <<running, started, stopping, executor, overlapped>>
vars == <<published, stage, from, queue, history, registered, calls, worker, life>>

Stages  == {"none", "waiting", "queued", "taken", "processing", "inline", "handled", "dropped"}
Nobody  == <<0, "nobody">>
\* none: also a call that has ended; busy: in a coroutine or a thread; cancelled: a coroutine that was told and
\* may clean up; abandoned: a thread nobody awaits any longer
CallStates == {"none", "ready", "busy", "putting", "cancelled", "abandoned"}
\* taken: the event is off the queue, the worker was not resumed yet;
\* ending: cancelled while it waits for the handlers
Places  == {"none", "new", "getting", "leaving", "taken", "processing", "ending", "over"}

TypeOK ==
    /\ published \in 0..MaxEvents
    /\ stage \in [Events -> Stages]
    /\ from \in [Events -> {Nobody} \cup (Events \X Handlers)]
    /\ queue \in Seq(Events) /\ Len(queue) <= MaxQueue
    /\ history \in Seq(Events) /\ Len(history) <= MaxHistory
    /\ registered \subseteq Handlers
    /\ calls \in [Events -> [Handlers -> CallStates]]
    /\ running \in BOOLEAN /\ executor \in BOOLEAN /\ overlapped \in BOOLEAN
    /\ started \in 0..MaxStarts
    /\ worker \in [Workers -> [at : Places, event : 0..MaxEvents]]
    /\ stopping \subseteq Workers

Init ==
    /\ published = 0
    /\ stage = [e \in Events |-> "none"]
    /\ from = [e \in Events |-> Nobody]
    /\ queue = <<>> /\ history = <<>>
    /\ registered = {}
    /\ calls = [e \in Events |-> [h \in Handlers |-> "none"]]
    /\ running = FALSE /\ executor = TRUE /\ overlapped = FALSE
    /\ started = 0
    /\ worker = [i \in Workers |-> [at |-> "none", event |-> 0]]
    /\ stopping = {}

-----------------------------------------------------------------------------
(* Registering, and the history *)

RegisterHandler(h) ==
    /\ registered' = registered \cup {h}
    /\ UNCHANGED <<published, stage, from, queue, history, calls, worker, life>>

UnregisterHandler(h) ==
    /\ registered' = registered \ {h}
    /\ UNCHANGED <<published, stage, from, queue, history, calls, worker, life>>

ClearHistory ==
    /\ history' = <<>>
    /\ UNCHANGED <<published, stage, from, queue, registered, calls, worker, life>>

Trim(h) == IF Len(h) > MaxHistory THEN SubSeq(h, Len(h) - MaxHistory + 1, Len(h)) ELSE h

-----------------------------------------------------------------------------
(* publish_event *)

New(e) == e = published + 1 /\ published' = e

\* into the queue, or waiting for room in it, from outside or from a handler
Put(e, from1) ==
    IF Len(queue) < MaxQueue
    THEN /\ queue' = Append(queue, e)
         /\ stage' = [stage EXCEPT ![e] = "queued"]
         /\ UNCHANGED <<from, calls>>
    ELSE /\ stage' = [stage EXCEPT ![e] = "waiting"]
         /\ from' = [from EXCEPT ![e] = from1]
         /\ calls' = IF from1 = Nobody THEN calls
                     ELSE [calls EXCEPT ![from1[1]][from1[2]] = "putting"]
         /\ UNCHANGED queue

Publish(e) ==
    /\ New(e) /\ Put(e, Nobody)
    /\ UNCHANGED <<history, registered, worker, life>>

HandlerPublishes(e, d, h) ==
    /\ h \notin Threaded /\ calls[d][h] = "busy"
    /\ New(e) /\ Put(e, <<d, h>>)
    /\ UNCHANGED <<history, registered, worker, life>>

\* the queue has room again for somebody who waits, in no order
PutResumes(e) ==
    /\ stage[e] = "waiting" /\ Len(queue) < MaxQueue
    /\ queue' = Append(queue, e)
    /\ stage' = [stage EXCEPT ![e] = "queued"]
    /\ from' = [from EXCEPT ![e] = Nobody]
    /\ calls' = IF from[e] = Nobody THEN calls
                ELSE [calls EXCEPT ![from[e][1]][from[e][2]] = "busy"]
    /\ UNCHANGED <<published, history, registered, worker, life>>

\* _process_event up to the gather: a task for each handler there is now
Dispatch(e, to) ==
    /\ history' = Trim(Append(history, e))
    /\ calls' = [calls EXCEPT ![e] = [h \in Handlers |->
                                        IF h \in registered THEN "ready" ELSE "none"]]
    /\ stage' = [stage EXCEPT ![e] = IF registered = {} THEN "handled" ELSE to]

\* async_mode=False: the publisher itself waits for the handlers
PublishInline(e) ==
    /\ e \in Inline /\ New(e) /\ Dispatch(e, "inline")
    /\ UNCHANGED <<from, queue, registered, worker, life>>

Ended(e) == \A h \in Handlers : calls[e][h] \in {"none", "abandoned"}

InlineEnds(e) ==
    /\ stage[e] = "inline" /\ Ended(e)
    /\ stage' = [stage EXCEPT ![e] = "handled"]
    /\ UNCHANGED <<published, from, queue, history, registered, calls, worker, life>>

-----------------------------------------------------------------------------
(* _execute_handler *)

Called(e, h, state) ==
    /\ calls' = [calls EXCEPT ![e][h] = state]
    /\ UNCHANGED <<published, stage, from, queue, history, registered, worker, life>>

\* a pool that was shut down takes no function: RuntimeError
HandlerBegins(e, h) ==
    /\ calls[e][h] = "ready"
    /\ Called(e, h, IF h \in Threaded /\ ~executor THEN "none" ELSE "busy")

HandlerEnds(e, h) ==
    /\ calls[e][h] \in {"busy", "cancelled", "abandoned"}
    /\ Called(e, h, "none")

HandlerStep(e, h) == HandlerBegins(e, h) \/ HandlerEnds(e, h)

-----------------------------------------------------------------------------
(* _event_worker *)

Goes(i, at, e) == worker' = [worker EXCEPT ![i] = [at |-> at, event |-> e]]
\* the test of the loop
Loops(i) == Goes(i, IF running THEN "getting" ELSE "over", 0)

WorkerBegins(i) ==
    /\ worker[i].at = "new"
    /\ Loops(i)
    /\ UNCHANGED <<published, stage, from, queue, history, registered, calls, life>>

Take(i) ==
    /\ queue # <<>>
    /\ queue' = Tail(queue)
    /\ stage' = [stage EXCEPT ![Head(queue)] = "taken"]
    /\ Goes(i, "taken", Head(queue))

Get(i) ==
    /\ worker[i].at = "getting"
    /\ Take(i)
    /\ UNCHANGED <<published, from, history, registered, calls, life>>

\* asyncio.TimeoutError after a second
GetTimesOut(i) ==
    /\ worker[i].at = "getting"
    /\ Loops(i)
    /\ UNCHANGED <<published, stage, from, queue, history, registered, calls, life>>

ProcessAndReturn(i) ==
    /\ worker[i].at = "taken"
    /\ Dispatch(worker[i].event, "processing")
    /\ IF registered = {} THEN Goes(i, "over", 0)
       ELSE Goes(i, "processing", worker[i].event)
    /\ UNCHANGED <<published, from, queue, registered, life>>
Process(i) ==
    /\ worker[i].at = "taken"
    /\ Dispatch(worker[i].event, "processing")
    /\ IF registered = {} THEN Loops(i) ELSE Goes(i, "processing", worker[i].event)
    /\ UNCHANGED <<published, from, queue, registered, life>>

\* gather returns; in a worker that was cancelled it raises, then
Processed(i) ==
    /\ worker[i].at \in {"processing", "ending"}
    /\ Ended(worker[i].event)
    /\ stage' = [stage EXCEPT ![worker[i].event] = "handled"]
    /\ IF worker[i].at = "ending" THEN Goes(i, "over", 0) ELSE Loops(i)
    /\ UNCHANGED <<published, from, queue, history, registered, calls, life>>

Leave(i) ==
    /\ worker[i].at = "leaving"
    /\ Goes(i, "over", 0)
    /\ UNCHANGED <<published, stage, from, queue, history, registered, calls, life>>

WorkerStep(i) ==
    \/ WorkerBegins(i) \/ Get(i) \/ GetTimesOut(i)
    \/ Process(i) \/ Processed(i) \/ Leave(i)

-----------------------------------------------------------------------------
(* start and stop *)

Start(i) ==
    /\ ~running /\ i = started + 1
    /\ running' = TRUE /\ started' = i
    /\ overlapped' = (overlapped \/ stopping # {})
    /\ Goes(i, "new", 0)
    /\ UNCHANGED <<published, stage, from, queue, history, registered, calls, stopping, executor>>

\* cancelling the gather cancels the handlers; a thread goes on unawaited
CancelledCall(h, state) ==
    CASE state = "ready"                          -> "none"
      [] state = "busy" /\ h \in Threaded         -> "abandoned"
      [] state \in {"busy", "putting"} /\ h \notin Threaded -> "cancelled"
      [] OTHER                                    -> state

CancelHandlers(e) ==
    /\ calls' = [calls EXCEPT ![e] = [h \in Handlers |-> CancelledCall(h, calls[e][h])]]
    /\ stage' = [d \in Events |-> IF from[d] # Nobody /\ from[d][1] = e THEN "dropped" ELSE stage[d]]
    /\ from' = [d \in Events |-> IF from[d][1] = e THEN Nobody ELSE from[d]]

\* _running is reset and the worker cancelled, wherever it is
Stop(i) ==
    /\ running /\ i = started
    /\ running' = FALSE /\ stopping' = stopping \cup {i}
    /\ \/ /\ worker[i].at \in {"new", "getting"}
          /\ Goes(i, "leaving", 0)
          /\ UNCHANGED <<stage, from, queue, calls>>
       \/ worker[i].at = "getting" /\ Take(i) /\ UNCHANGED <<from, calls>>
       \/ worker[i].at = "taken" /\ UNCHANGED <<stage, from, queue, calls, worker>>
       \/ /\ worker[i].at = "processing"
          /\ CancelHandlers(worker[i].event)
          /\ Goes(i, "ending", worker[i].event)
          /\ UNCHANGED queue
    /\ UNCHANGED <<published, history, registered, started, executor, overlapped>>

\* the worker has ended; the pool is shut down, and its threads waited for
StopReturnsAtOnce(i) ==
    /\ i \in stopping /\ worker[i].at = "over"
    /\ stopping' = stopping \ {i}
    /\ executor' = FALSE
    /\ UNCHANGED <<published, stage, from, queue, history, registered, calls, worker,
                   running, started, overlapped>>
StopReturns(i) ==
    /\ i \in stopping /\ worker[i].at = "over"
    /\ stopping' = stopping \ {i}
    /\ executor' = FALSE
    /\ calls' = [e \in Events |-> [h \in Handlers |->
                   IF calls[e][h] = "abandoned" THEN "none" ELSE calls[e][h]]]
    /\ UNCHANGED <<published, stage, from, queue, history, registered, worker,
                   running, started, overlapped>>

-----------------------------------------------------------------------------
Next ==
    \/ \E h \in Handlers : RegisterHandler(h) \/ UnregisterHandler(h)
    \/ ClearHistory
    \/ \E e \in Events : Publish(e) \/ PutResumes(e) \/ PublishInline(e) \/ InlineEnds(e)
    \/ \E e, d \in Events, h \in Handlers : HandlerPublishes(e, d, h)
    \/ \E e \in Events, h \in Handlers : HandlerStep(e, h)
    \/ \E i \in Workers : WorkerStep(i) \/ Start(i) \/ Stop(i) \/ StopReturns(i)

Spec == Init /\ [][Next]_vars

\* workers and stops that can go on are run; while handlers can go on, some
\* handler does, so that each ends, since a call takes two steps; nobody has to
\* start, stop, publish or register, and who waits for room need not get it
FairSpec ==
    /\ Spec
    /\ \A i \in Workers : WF_vars(WorkerStep(i)) /\ WF_vars(StopReturns(i))
    /\ WF_vars(\E e \in Events, h \in Handlers : HandlerStep(e, h))

-----------------------------------------------------------------------------
(* Properties *)

\* a handler runs, or will, for an event the worker took
InHands(e) ==
    /\ stage[e] \in {"processing", "handled"}
    /\ \E h \in Handlers : calls[e][h] # "none"

\* Queued events are handled one after the other: no handler of one runs, not
\* even in a thread that stop() gave up waiting for, while another is handled,
\* and none after stop() has returned.  Only a start() that overtakes a stop()
\* may break this.  (_event_worker, stop.)
OneAfterTheOther ==
    ~overlapped =>
        /\ \A d, e \in Events : InHands(d) /\ InHands(e) => d = e
        /\ ~running /\ stopping = {} => \A e \in Events : ~InHands(e)

\* a handler the worker waits for waits itself for room in the full queue
Stuck ==
    /\ Len(queue) = MaxQueue
    /\ \E e \in Events, h \in Handlers : stage[e] = "processing" /\ calls[e][h] = "putting"

\* While the manager runs, what is in the queue gets handled, unless a handler
\* publishes into a full queue; and stop() returns, wherever the worker was when
\* it was cancelled, unless that was dropped and such a handler holds the worker
\* up, or a start() overtook it.  (_event_worker, stop.)
EveryoneGetsOn ==
    /\ \A e \in Events :
         running /\ stage[e] = "queued" ~> stage[e] = "handled" \/ ~running \/ Stuck
    /\ \A i \in Workers : i \in stopping ~> i \notin stopping \/ overlapped \/ Stuck
=============================================================================
