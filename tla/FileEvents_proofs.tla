------------------------- MODULE FileEvents_proofs -------------------------
(***************************************************************************)
(* Theorems about FileEvents: every variable keeps its type, events are    *)
(* handled one after the other, a worker waits in vain only for room in    *)
(* the full queue, and a stop takes its worker nearer to the end with each *)
(* of its steps, for any number of events, handlers and workers and any    *)
(* size of the queue and the history.                                      *)
(***************************************************************************)
EXTENDS FileEvents, TLAPS

Busy(i) == worker[i].at \in {"processing", "ending"}

\* the event a worker has taken is one
TakenIsEvent == \A i \in Workers : worker[i].at \in {"taken", "processing", "ending"} => worker[i].event \in Events

\* only events that were dispatched have handlers, and once they are handled
\* only such as nobody waits for
StagesAndCalls ==
    \A e \in Events :
        /\ stage[e] \notin {"processing", "inline", "handled"} => \A h \in Handlers : calls[e][h] = "none"
        /\ stage[e] = "handled" => \A h \in Handlers : calls[e][h] \in {"none", "abandoned"}
        /\ e > published => stage[e] = "none"

\* a handler waits for room for one event at most, and does nothing else
WaitersPut ==
    \A d \in Events : from[d] # Nobody =>
        /\ stage[d] = "waiting"
        /\ calls[from[d][1]][from[d][2]] = "putting"
        /\ \A c \in Events : from[c] = from[d] => c = d

QueueIsQueued ==
    \A k \in 1..Len(queue) :
        /\ stage[queue[k]] = "queued"
        /\ \A l \in 1..Len(queue) : queue[k] = queue[l] => k = l

\* only the worker started last is alive, and when it was told to stop somebody waits
OneWorker ==
    /\ \A i \in Workers : worker[i].at \notin {"none", "over"} => i = started /\ (running \/ i \in stopping)
    /\ running => stopping = {}
    /\ stopping \subseteq {started}

HasItsEvent ==
    /\ \A i \in Workers : /\ worker[i].at = "taken" => stage[worker[i].event] = "taken"
                          /\ Busy(i) => stage[worker[i].event] = "processing"
    /\ \A e \in Events : stage[e] = "processing" => \E i \in Workers : Busy(i) /\ worker[i].event = e

\* threads nobody awaits serve the one event the last stop() interrupted, and
\* it waits for them
AbandonedByStop ==
    \A e \in Events, h \in Handlers : calls[e][h] = "abandoned" =>
        /\ ~running /\ stopping # {}
        /\ stage[e] = "processing" \/ (stage[e] = "handled" /\ worker[started].at = "over")
        /\ \A d \in Events, g \in Handlers : calls[d][g] = "abandoned" => d = e

Orderly == StagesAndCalls /\ WaitersPut /\ QueueIsQueued /\ OneWorker /\ HasItsEvent /\ AbandonedByStop

TypeInv == TypeOK /\ TakenIsEvent
IInv == TypeInv /\ (~overlapped => Orderly)

-----------------------------------------------------------------------------
(* Types *)

LEMMA HistoryIsTrimmed ==
    ASSUME NEW e \in Events, history \in Seq(Events), Len(history) <= MaxHistory
    PROVE  /\ Trim(Append(history, e)) \in Seq(Events)
           /\ Len(Trim(Append(history, e))) <= MaxHistory
<1> DEFINE h == Append(history, e)
<1>1. MaxHistory \in Nat \ {0}
  BY FileEventConstants
<1>2. h \in Seq(Events) /\ Len(h) = Len(history) + 1 /\ Len(history) \in Nat
  OBVIOUS
<1>3. CASE Len(h) <= MaxHistory
  BY <1>1, <1>2, <1>3 DEF Trim
<1>4. CASE Len(h) > MaxHistory
  <2>1. Len(h) = MaxHistory + 1
    BY <1>1, <1>2, <1>4
  <2> HIDE DEF h
  <2>2. SubSeq(h, 2, Len(h)) \in Seq(Events) /\ Len(SubSeq(h, 2, Len(h))) = MaxHistory
    BY <1>1, <1>2, <2>1
  <2>3. Trim(h) = SubSeq(h, 2, Len(h))
    BY <1>1, <2>1 DEF Trim
  <2> QED
    BY <2>2, <2>3, <1>1 DEF h
<1> QED
  BY <1>1, <1>2, <1>3, <1>4

LEMMA TypesInitially == Init => TypeInv
<1> SUFFICES ASSUME Init PROVE TypeInv
  OBVIOUS
<1>1. 0 \in 0..MaxEvents /\ 0 \in 0..MaxStarts
  BY FileEventConstants
<1>2. worker \in [Workers -> [at : Places, event : 0..MaxEvents]]
  <2>1. [at |-> "none", event |-> 0] \in [at : Places, event : 0..MaxEvents]
    BY <1>1 DEF Places
  <2> QED
    BY <2>1 DEF Init
<1>3. queue \in Seq(Events) /\ Len(queue) <= MaxQueue /\ history \in Seq(Events) /\ Len(history) <= MaxHistory
  BY FileEventConstants DEF Init
<1>4. calls \in [Events -> [Handlers -> CallStates]]
  BY DEF Init, CallStates
<1>5. stage \in [Events -> Stages] /\ from \in [Events -> {Nobody} \cup (Events \X Handlers)]
  BY DEF Init, Stages
<1>6. TakenIsEvent
  BY DEF Init, TakenIsEvent
<1> QED
  BY <1>1, <1>2, <1>3, <1>4, <1>5, <1>6 DEF Init, TypeInv, TypeOK

\* A worker that goes somewhere with an event, or nowhere with none
LEMMA GoesKeepsTypes ==
    ASSUME TypeInv, NEW i \in Workers, NEW at \in Places, NEW e \in 0..MaxEvents,
           at \in {"taken", "processing", "ending"} => e \in Events,
           Goes(i, at, e)
    PROVE  worker' \in [Workers -> [at : Places, event : 0..MaxEvents]] /\ TakenIsEvent'
<1>1. [at |-> at, event |-> e] \in [at : Places, event : 0..MaxEvents]
  OBVIOUS
<1>2. \A j \in Workers : worker'[j] = IF j = i THEN [at |-> at, event |-> e] ELSE worker[j]
  BY DEF TypeInv, TypeOK, Goes
<1>3. worker' \in [Workers -> [at : Places, event : 0..MaxEvents]]
  BY <1>1 DEF TypeInv, TypeOK, Goes
<1> QED
  BY <1>2, <1>3 DEF TypeInv, TakenIsEvent

LEMMA LoopsKeepsTypes ==
    ASSUME TypeInv, NEW i \in Workers, Loops(i)
    PROVE  worker' \in [Workers -> [at : Places, event : 0..MaxEvents]] /\ TakenIsEvent'
<1>1. 0 \in 0..MaxEvents
  BY FileEventConstants
<1>2. PICK at \in {"getting", "over"} : Goes(i, at, 0)
  BY DEF Loops
<1>3. at \in Places /\ at \notin {"taken", "processing", "ending"}
  BY <1>2 DEF Places
<1> QED
  BY <1>1, <1>2, <1>3, GoesKeepsTypes

LEMMA PutKeepsTypes ==
    ASSUME TypeInv, NEW e \in Events, NEW w \in {Nobody} \cup (Events \X Handlers),
           New(e), Put(e, w), UNCHANGED <<history, registered, worker, life>>
    PROVE  TypeInv'
<1>1. published' \in 0..MaxEvents
  BY FileEventConstants DEF New, Events
<1>2. CASE Len(queue) < MaxQueue
  <2>1. queue' \in Seq(Events) /\ Len(queue') <= MaxQueue
    <3>1. queue \in Seq(Events) /\ Len(queue) \in Nat /\ MaxQueue \in Nat /\ queue' = Append(queue, e)
      BY <1>2, FileEventConstants DEF Put, TypeInv, TypeOK
    <3> QED
      BY <3>1, <1>2
  <2>2. stage' \in [Events -> Stages]
    BY <1>2 DEF Put, TypeInv, TypeOK, Stages
  <2> QED
    BY <1>1, <1>2, <2>1, <2>2 DEF Put, TypeInv, TypeOK, TakenIsEvent, life
<1>3. CASE ~(Len(queue) < MaxQueue)
  <2>1. stage' \in [Events -> Stages]
    BY <1>3 DEF Put, TypeInv, TypeOK, Stages
  <2>2. from' \in [Events -> {Nobody} \cup (Events \X Handlers)]
    <3>1. from \in [Events -> {Nobody} \cup (Events \X Handlers)]
      BY DEF TypeInv, TypeOK
    <3>2. from' = [from EXCEPT ![e] = w]
      BY <1>3 DEF Put
    <3> QED
      BY <3>1, <3>2
  <2>3. calls' \in [Events -> [Handlers -> CallStates]]
    <3>1. CASE w = Nobody
      BY <1>3, <3>1 DEF Put, TypeInv, TypeOK
    <3>2. CASE w # Nobody
      <4>1. w[1] \in Events /\ w[2] \in Handlers
        BY <3>2
      <4>2. calls' = [calls EXCEPT ![w[1]][w[2]] = "putting"]
        BY <1>3, <3>2 DEF Put
      <4>3. calls \in [Events -> [Handlers -> CallStates]] /\ "putting" \in CallStates
        BY DEF TypeInv, TypeOK, CallStates
      <4> QED
        BY <4>1, <4>2, <4>3
    <3> QED
      BY <3>1, <3>2
  <2> QED
    BY <1>1, <1>3, <2>1, <2>2, <2>3 DEF Put, TypeInv, TypeOK, TakenIsEvent, life
<1> QED
  BY <1>2, <1>3

LEMMA DispatchKeepsTypes ==
    ASSUME TypeInv, NEW e \in Events, NEW to \in Stages, Dispatch(e, to)
    PROVE  /\ history' \in Seq(Events) /\ Len(history') <= MaxHistory
           /\ stage' \in [Events -> Stages]
           /\ calls' \in [Events -> [Handlers -> CallStates]]
<1>1. history' \in Seq(Events) /\ Len(history') <= MaxHistory
  BY HistoryIsTrimmed DEF Dispatch, TypeInv, TypeOK
<1>2. stage' \in [Events -> Stages]
  BY DEF Dispatch, TypeInv, TypeOK, Stages
<1>3. [h \in Handlers |-> IF h \in registered THEN "ready" ELSE "none"] \in [Handlers -> CallStates]
  BY DEF CallStates
<1>4. calls' \in [Events -> [Handlers -> CallStates]]
  BY <1>3 DEF Dispatch, TypeInv, TypeOK
<1> QED
  BY <1>1, <1>2, <1>4

LEMMA CalledKeepsTypes ==
    ASSUME TypeInv, NEW e \in Events, NEW h \in Handlers, NEW state \in CallStates, Called(e, h, state)
    PROVE  TypeInv'
<1>1. calls' \in [Events -> [Handlers -> CallStates]]
  BY DEF Called, TypeInv, TypeOK
<1> QED
  BY <1>1 DEF Called, TypeInv, TypeOK, TakenIsEvent, life

LEMMA TakeKeepsTypes ==
    ASSUME TypeInv, NEW i \in Workers, Take(i)
    PROVE  /\ queue' \in Seq(Events) /\ Len(queue') <= MaxQueue
           /\ stage' \in [Events -> Stages]
           /\ worker' \in [Workers -> [at : Places, event : 0..MaxEvents]] /\ TakenIsEvent'
<1>1. queue \in Seq(Events) /\ queue # <<>> /\ Len(queue) <= MaxQueue /\ MaxQueue \in Nat
  BY FileEventConstants DEF Take, TypeInv, TypeOK
<1>2. Head(queue) \in Events /\ Tail(queue) \in Seq(Events) /\ Len(Tail(queue)) = Len(queue) - 1
  BY <1>1
<1>3. queue' \in Seq(Events) /\ Len(queue') <= MaxQueue
  BY <1>1, <1>2 DEF Take
<1>4. stage' \in [Events -> Stages]
  BY <1>2 DEF Take, TypeInv, TypeOK, Stages
<1>5. Head(queue) \in 0..MaxEvents
  BY <1>2, FileEventConstants DEF Events
<1>6. worker' \in [Workers -> [at : Places, event : 0..MaxEvents]] /\ TakenIsEvent'
  BY <1>2, <1>5, GoesKeepsTypes DEF Take, Places
<1> QED
  BY <1>3, <1>4, <1>6

LEMMA CancelKeepsTypes ==
    ASSUME TypeInv, NEW e \in Events, CancelHandlers(e)
    PROVE  /\ calls' \in [Events -> [Handlers -> CallStates]]
           /\ stage' \in [Events -> Stages]
           /\ from' \in [Events -> {Nobody} \cup (Events \X Handlers)]
<1>1. \A h \in Handlers : CancelledCall(h, calls[e][h]) \in CallStates
  BY DEF CancelledCall, CallStates, TypeInv, TypeOK
<1>2. [h \in Handlers |-> CancelledCall(h, calls[e][h])] \in [Handlers -> CallStates]
  BY <1>1
<1>3. calls' \in [Events -> [Handlers -> CallStates]]
  BY <1>2 DEF CancelHandlers, TypeInv, TypeOK
<1>4. stage' \in [Events -> Stages]
  BY DEF CancelHandlers, Stages, TypeInv, TypeOK
<1>5. from' \in [Events -> {Nobody} \cup (Events \X Handlers)]
  BY DEF CancelHandlers, TypeInv, TypeOK
<1> QED
  BY <1>3, <1>4, <1>5

LEMMA TypesStep == TypeInv /\ [Next]_vars => TypeInv'
<1> SUFFICES ASSUME TypeInv, [Next]_vars PROVE TypeInv'
  OBVIOUS
<1>1. ASSUME NEW h \in Handlers, RegisterHandler(h) \/ UnregisterHandler(h) PROVE TypeInv'
  BY <1>1 DEF RegisterHandler, UnregisterHandler, TypeInv, TypeOK, TakenIsEvent, life
<1>2. CASE ClearHistory
  <2>1. history' \in Seq(Events) /\ Len(history') <= MaxHistory
    BY <1>2, FileEventConstants DEF ClearHistory
  <2> QED
    BY <1>2, <2>1 DEF ClearHistory, TypeInv, TypeOK, TakenIsEvent, life
<1>3. ASSUME NEW e \in Events, Publish(e) PROVE TypeInv'
  BY <1>3, PutKeepsTypes DEF Publish
<1>4. ASSUME NEW e \in Events, NEW d \in Events, NEW h \in Handlers, HandlerPublishes(e, d, h) PROVE TypeInv'
  BY <1>4, PutKeepsTypes DEF HandlerPublishes
<1>5. ASSUME NEW e \in Events, PutResumes(e) PROVE TypeInv'
  <2>1. queue' \in Seq(Events) /\ Len(queue') <= MaxQueue
    <3>1. queue \in Seq(Events) /\ Len(queue) \in Nat /\ MaxQueue \in Nat /\ queue' = Append(queue, e) /\ Len(queue) < MaxQueue
      BY <1>5, FileEventConstants DEF PutResumes, TypeInv, TypeOK
    <3> QED
      BY <3>1
  <2>2. stage' \in [Events -> Stages] /\ from' \in [Events -> {Nobody} \cup (Events \X Handlers)]
    BY <1>5 DEF PutResumes, TypeInv, TypeOK, Stages
  <2>3. calls' \in [Events -> [Handlers -> CallStates]]
    <3>1. CASE from[e] = Nobody
      BY <1>5, <3>1 DEF PutResumes, TypeInv, TypeOK
    <3>2. CASE from[e] # Nobody
      <4>1. from[e][1] \in Events /\ from[e][2] \in Handlers
        BY <3>2 DEF TypeInv, TypeOK
      <4>2. calls' = [calls EXCEPT ![from[e][1]][from[e][2]] = "busy"]
        BY <1>5, <3>2 DEF PutResumes
      <4>3. calls \in [Events -> [Handlers -> CallStates]] /\ "busy" \in CallStates
        BY DEF TypeInv, TypeOK, CallStates
      <4> QED
        BY <4>1, <4>2, <4>3
    <3> QED
      BY <3>1, <3>2
  <2> QED
    BY <1>5, <2>1, <2>2, <2>3 DEF PutResumes, TypeInv, TypeOK, TakenIsEvent, life
<1>6. ASSUME NEW e \in Events, PublishInline(e) PROVE TypeInv'
  <2>1. "inline" \in Stages
    BY DEF Stages
  <2>2. /\ history' \in Seq(Events) /\ Len(history') <= MaxHistory
        /\ stage' \in [Events -> Stages]
        /\ calls' \in [Events -> [Handlers -> CallStates]]
    BY <1>6, <2>1, DispatchKeepsTypes DEF PublishInline
  <2>3. published' \in 0..MaxEvents
    BY <1>6, FileEventConstants DEF PublishInline, New, Events
  <2> QED
    BY <1>6, <2>2, <2>3 DEF PublishInline, TypeInv, TypeOK, TakenIsEvent, life
<1>7. ASSUME NEW e \in Events, InlineEnds(e) PROVE TypeInv'
  <2>1. stage' \in [Events -> Stages]
    BY <1>7 DEF InlineEnds, TypeInv, TypeOK, Stages
  <2> QED
    BY <1>7, <2>1 DEF InlineEnds, TypeInv, TypeOK, TakenIsEvent, life
<1>8. ASSUME NEW e \in Events, NEW h \in Handlers, HandlerStep(e, h) PROVE TypeInv'
  <2>1. PICK state \in {"none", "busy"} : Called(e, h, state)
    BY <1>8 DEF HandlerStep, HandlerBegins, HandlerEnds
  <2> QED
    BY <2>1, CalledKeepsTypes DEF CallStates
<1>9. ASSUME NEW i \in Workers, WorkerBegins(i) \/ GetTimesOut(i) \/ Leave(i) PROVE TypeInv'
  <2>1. worker' \in [Workers -> [at : Places, event : 0..MaxEvents]] /\ TakenIsEvent'
    <3>1. CASE Loops(i)
      BY <3>1, LoopsKeepsTypes
    <3>2. CASE Goes(i, "over", 0)
      BY <3>2, FileEventConstants, GoesKeepsTypes DEF Places
    <3> QED
      BY <1>9, <3>1, <3>2 DEF WorkerBegins, GetTimesOut, Leave
  <2> QED
    BY <1>9, <2>1 DEF WorkerBegins, GetTimesOut, Leave, TypeInv, TypeOK, life
<1>10. ASSUME NEW i \in Workers, Get(i) PROVE TypeInv'
  <2>1. Take(i)
    BY <1>10 DEF Get
  <2> QED
    BY <1>10, <2>1, TakeKeepsTypes DEF Get, TypeInv, TypeOK, life
<1>11. ASSUME NEW i \in Workers, Process(i) PROVE TypeInv'
  <2>1. worker[i].event \in Events /\ "processing" \in Stages
    BY <1>11 DEF Process, TypeInv, TakenIsEvent, Stages
  <2>2. /\ history' \in Seq(Events) /\ Len(history') <= MaxHistory
        /\ stage' \in [Events -> Stages]
        /\ calls' \in [Events -> [Handlers -> CallStates]]
    BY <1>11, <2>1, DispatchKeepsTypes DEF Process
  <2>3. worker' \in [Workers -> [at : Places, event : 0..MaxEvents]] /\ TakenIsEvent'
    <3>1. CASE Loops(i)
      BY <3>1, LoopsKeepsTypes
    <3>2. CASE Goes(i, "processing", worker[i].event)
      <4>1. worker[i].event \in 0..MaxEvents /\ "processing" \in Places
        BY DEF TypeInv, TypeOK, Places
      <4> QED
        BY <3>2, <2>1, <4>1, GoesKeepsTypes
    <3> QED
      BY <1>11, <3>1, <3>2 DEF Process
  <2> QED
    BY <1>11, <2>2, <2>3 DEF Process, TypeInv, TypeOK, life
<1>12. ASSUME NEW i \in Workers, Processed(i) PROVE TypeInv'
  <2>1. stage' \in [Events -> Stages]
    BY <1>12 DEF Processed, TypeInv, TypeOK, Stages
  <2>2. worker' \in [Workers -> [at : Places, event : 0..MaxEvents]] /\ TakenIsEvent'
    <3>1. CASE Loops(i)
      BY <3>1, LoopsKeepsTypes
    <3>2. CASE Goes(i, "over", 0)
      BY <3>2, FileEventConstants, GoesKeepsTypes DEF Places
    <3> QED
      BY <1>12, <3>1, <3>2 DEF Processed
  <2> QED
    BY <1>12, <2>1, <2>2 DEF Processed, TypeInv, TypeOK, life
<1>13. ASSUME NEW i \in Workers, Start(i) PROVE TypeInv'
  <2>1. started' \in 0..MaxStarts
    BY <1>13, FileEventConstants DEF Start, Workers
  <2>2. worker' \in [Workers -> [at : Places, event : 0..MaxEvents]] /\ TakenIsEvent'
    <3>1. Goes(i, "new", 0) /\ "new" \in Places /\ 0 \in 0..MaxEvents
      BY <1>13, FileEventConstants DEF Start, Places
    <3> QED
      BY <3>1, GoesKeepsTypes
  <2> QED
    BY <1>13, <2>1, <2>2 DEF Start, TypeInv, TypeOK
<1>14. ASSUME NEW i \in Workers, Stop(i) PROVE TypeInv'
  <2>1. CASE /\ worker[i].at \in {"new", "getting"} /\ Goes(i, "leaving", 0)
             /\ UNCHANGED <<stage, from, queue, calls>>
    <3>1. worker' \in [Workers -> [at : Places, event : 0..MaxEvents]] /\ TakenIsEvent'
      BY <2>1, FileEventConstants, GoesKeepsTypes DEF Places
    <3> QED
      BY <1>14, <2>1, <3>1 DEF Stop, TypeInv, TypeOK
  <2>2. CASE Take(i) /\ UNCHANGED <<from, calls>>
    BY <1>14, <2>2, TakeKeepsTypes DEF Stop, TypeInv, TypeOK
  <2>3. CASE UNCHANGED <<stage, from, queue, calls, worker>>
    BY <1>14, <2>3 DEF Stop, TypeInv, TypeOK, TakenIsEvent
  <2>4. CASE /\ worker[i].at = "processing" /\ CancelHandlers(worker[i].event)
             /\ Goes(i, "ending", worker[i].event) /\ UNCHANGED queue
    <3>1. worker[i].event \in Events /\ worker[i].event \in 0..MaxEvents /\ "ending" \in Places
      BY <2>4 DEF TypeInv, TypeOK, TakenIsEvent, Places
    <3>2. worker' \in [Workers -> [at : Places, event : 0..MaxEvents]] /\ TakenIsEvent'
      BY <2>4, <3>1, GoesKeepsTypes
    <3>3. /\ calls' \in [Events -> [Handlers -> CallStates]]
          /\ stage' \in [Events -> Stages]
          /\ from' \in [Events -> {Nobody} \cup (Events \X Handlers)]
      BY <2>4, <3>1, CancelKeepsTypes
    <3> QED
      BY <1>14, <2>4, <3>2, <3>3 DEF Stop, TypeInv, TypeOK
  <2> QED
    BY <1>14, <2>1, <2>2, <2>3, <2>4 DEF Stop
<1>15. ASSUME NEW i \in Workers, StopReturns(i) PROVE TypeInv'
  <2>1. calls' \in [Events -> [Handlers -> CallStates]]
    BY <1>15 DEF StopReturns, TypeInv, TypeOK, CallStates
  <2> QED
    BY <1>15, <2>1 DEF StopReturns, TypeInv, TypeOK, TakenIsEvent
<1>16. CASE UNCHANGED vars
  BY <1>16 DEF vars, TypeInv, TypeOK, TakenIsEvent, life
<1> QED
  BY <1>1, <1>2, <1>3, <1>4, <1>5, <1>6, <1>7, <1>8, <1>9, <1>10, <1>11, <1>12, <1>13, <1>14, <1>15, <1>16
     DEF Next, WorkerStep

\* Every variable keeps its type, with any number of workers started.
THEOREM TypesHold == Spec => []TypeOK
<1>1. TypeInv => TypeOK
  BY DEF TypeInv
<1> QED
  BY <1>1, TypesInitially, TypesStep, PTL DEF Spec

-----------------------------------------------------------------------------
(* What is put into the queue, and what handlers do *)

\* A handler that begins or ends.
LEMMA HandlersKeepOrder ==
    ASSUME TypeInv, Orderly, NEW e \in Events, NEW h \in Handlers, HandlerStep(e, h)
    PROVE  Orderly'
<1>1. PICK state \in {"none", "busy"} :
        /\ Called(e, h, state)
        /\ calls[e][h] \in {"ready", "busy", "cancelled", "abandoned"}
        /\ calls[e][h] = "abandoned" => state = "none"
  BY DEF HandlerStep, HandlerBegins, HandlerEnds
<1>2. \A d \in Events, g \in Handlers : calls'[d][g] = IF d = e /\ g = h THEN state ELSE calls[d][g]
  BY <1>1 DEF Called, TypeInv, TypeOK
<1>3. UNCHANGED <<published, stage, from, queue, worker, running, started, stopping>>
  BY <1>1 DEF Called, life
<1>4. StagesAndCalls'
  BY <1>1, <1>2, <1>3 DEF Orderly, StagesAndCalls
<1>5. WaitersPut'
  <2> SUFFICES ASSUME NEW d \in Events, from[d] # Nobody
               PROVE  /\ stage[d] = "waiting" /\ calls'[from[d][1]][from[d][2]] = "putting"
                      /\ \A c \in Events : from[c] = from[d] => c = d
    BY <1>3 DEF WaitersPut
  <2>1. from[d][1] \in Events /\ from[d][2] \in Handlers
    BY DEF TypeInv, TypeOK
  <2> QED
    BY <1>1, <1>2, <2>1 DEF Orderly, WaitersPut
<1>6. QueueIsQueued' /\ OneWorker' /\ HasItsEvent'
  BY <1>3 DEF Orderly, QueueIsQueued, OneWorker, HasItsEvent, Busy
<1>7. AbandonedByStop'
  BY <1>1, <1>2, <1>3 DEF Orderly, AbandonedByStop
<1> QED
  BY <1>4, <1>5, <1>6, <1>7 DEF Orderly

\* An event put into the queue, or made to wait for room.
LEMMA PutKeepsOrder ==
    ASSUME TypeInv, Orderly, NEW e \in Events, NEW w \in {Nobody} \cup (Events \X Handlers),
           w # Nobody => calls[w[1]][w[2]] = "busy",
           New(e), Put(e, w), UNCHANGED <<history, registered, worker, life>>
    PROVE  Orderly'
<1>1. stage[e] = "none" /\ e > published /\ published' = e /\ published \in Nat /\ e \in Nat
  BY FileEventConstants DEF New, TypeInv, TypeOK, Orderly, StagesAndCalls, Events
<1>2. UNCHANGED <<worker, running, started, stopping>>
  BY DEF life
<1>3. \A h \in Handlers : calls[e][h] = "none"
  BY <1>1 DEF Orderly, StagesAndCalls
<1>4. stage'[e] \in {"queued", "waiting"} /\ \A d \in Events : d # e => stage'[d] = stage[d]
  BY DEF Put, TypeInv, TypeOK
<1>5. from[e] = Nobody
  BY <1>1 DEF Orderly, WaitersPut
<1>6. OneWorker'
  BY <1>2 DEF Orderly, OneWorker
<1>7. HasItsEvent'
  BY <1>1, <1>2, <1>4 DEF Orderly, HasItsEvent, Busy, TypeInv, TakenIsEvent
<1>8. \A d \in Events : d > published' => d # e /\ d > published
  BY <1>1 DEF Events
<1>9. CASE Len(queue) < MaxQueue
  <2>1. UNCHANGED <<from, calls>> /\ queue' = Append(queue, e) /\ stage'[e] = "queued"
    BY <1>9 DEF Put, TypeInv, TypeOK
  <2>2. StagesAndCalls'
    BY <1>3, <1>4, <1>8, <2>1 DEF Orderly, StagesAndCalls
  <2>3. WaitersPut'
    BY <1>4, <1>5, <2>1 DEF Orderly, WaitersPut
  <2>4. QueueIsQueued'
    <3>1. queue \in Seq(Events)
      BY DEF TypeInv, TypeOK
    <3>2. Len(queue') = Len(queue) + 1 /\ queue'[Len(queue) + 1] = e
          /\ \A k \in 1..Len(queue) : queue'[k] = queue[k] /\ queue[k] \in Events
      BY <2>1, <3>1
    <3>3. \A k \in 1..Len(queue) : queue[k] # e
      BY <1>1 DEF Orderly, QueueIsQueued
    <3>4. Len(queue) \in Nat /\ 1..Len(queue') = 1..Len(queue) \cup {Len(queue) + 1}
      BY <3>1, <3>2
    <3> QED
      BY <1>4, <2>1, <3>2, <3>3, <3>4 DEF Orderly, QueueIsQueued
  <2>5. AbandonedByStop'
    BY <1>2, <1>3, <1>4, <2>1 DEF Orderly, AbandonedByStop
  <2> QED
    BY <1>6, <1>7, <2>2, <2>3, <2>4, <2>5 DEF Orderly
<1>10. CASE ~(Len(queue) < MaxQueue)
  <2>1. queue' = queue /\ stage'[e] = "waiting"
        /\ from' = [from EXCEPT ![e] = w]
    BY <1>10 DEF Put, TypeInv, TypeOK
  <2>2. w # Nobody => w[1] \in Events /\ w[2] \in Handlers /\ w = <<w[1], w[2]>>
    OBVIOUS
  <2>3. \A d \in Events, g \in Handlers :
           calls'[d][g] = IF w # Nobody /\ d = w[1] /\ g = w[2] THEN "putting" ELSE calls[d][g]
    <3>1. CASE w = Nobody
      BY <1>10, <3>1 DEF Put
    <3>2. CASE w # Nobody
      <4>1. calls' = [calls EXCEPT ![w[1]][w[2]] = "putting"]
        BY <1>10, <3>2 DEF Put
      <4>2. calls \in [Events -> [Handlers -> CallStates]]
        BY DEF TypeInv, TypeOK
      <4> QED
        BY <2>2, <3>2, <4>1, <4>2
    <3> QED
      BY <3>1, <3>2
  <2>4. \A d \in Events : from'[d] = IF d = e THEN w ELSE from[d]
    BY <2>1 DEF TypeInv, TypeOK
  <2>5. w # Nobody => w[1] # e /\ stage[w[1]] \in {"processing", "inline"}
    <3> SUFFICES ASSUME w # Nobody PROVE w[1] # e /\ stage[w[1]] \in {"processing", "inline"}
      OBVIOUS
    <3>1. calls[w[1]][w[2]] = "busy" /\ w[1] \in Events /\ w[2] \in Handlers
      BY <2>2
    <3> QED
      BY <1>3, <3>1 DEF Orderly, StagesAndCalls
  <2>6. StagesAndCalls'
    BY <1>3, <1>4, <1>8, <2>3, <2>5 DEF Orderly, StagesAndCalls
  <2>7. WaitersPut'
    <3>1. \A d \in Events : from[d] # Nobody => /\ from[d][1] \in Events /\ from[d][2] \in Handlers
                                               /\ calls[from[d][1]][from[d][2]] = "putting"
                                               /\ from[d] # w
      BY DEF Orderly, WaitersPut, TypeInv, TypeOK
    <3>2. \A d \in Events : d # e /\ from[d] # Nobody =>
            /\ stage'[d] = "waiting" /\ calls'[from[d][1]][from[d][2]] = "putting"
            /\ \A c \in Events : from'[c] = from[d] => c = d
      BY <1>4, <2>3, <2>4, <3>1 DEF Orderly, WaitersPut
    <3>3. w # Nobody => /\ calls'[w[1]][w[2]] = "putting"
                        /\ \A c \in Events : from'[c] = w => c = e
      BY <2>2, <2>3, <2>4, <3>1
    <3> QED
      BY <2>1, <2>4, <3>2, <3>3 DEF WaitersPut
  <2>8. QueueIsQueued'
    <3>1. \A k \in 1..Len(queue) : queue[k] # e /\ queue[k] \in Events
      BY <1>1 DEF Orderly, QueueIsQueued, TypeInv, TypeOK
    <3> QED
      BY <1>4, <2>1, <3>1 DEF Orderly, QueueIsQueued
  <2>9. AbandonedByStop'
    BY <1>2, <1>3, <1>4, <2>3 DEF Orderly, AbandonedByStop
  <2> QED
    BY <1>6, <1>7, <2>6, <2>7, <2>8, <2>9 DEF Orderly
<1> QED
  BY <1>9, <1>10

\* Somebody who waited for room gets it.
LEMMA ResumingKeepsOrder ==
    ASSUME TypeInv, Orderly, NEW e \in Events, PutResumes(e)
    PROVE  Orderly'
<1>1. stage[e] = "waiting" /\ queue' = Append(queue, e) /\ queue \in Seq(Events)
  BY DEF PutResumes, TypeInv, TypeOK
<1>2. UNCHANGED <<published, worker, running, started, stopping>>
  BY DEF PutResumes, life
<1>3. \A d \in Events : /\ stage'[d] = IF d = e THEN "queued" ELSE stage[d]
                       /\ from'[d] = IF d = e THEN Nobody ELSE from[d]
  BY DEF PutResumes, TypeInv, TypeOK
<1>4. from[e] # Nobody => from[e][1] \in Events /\ from[e][2] \in Handlers
  BY DEF TypeInv, TypeOK
<1>5. \A d \in Events, g \in Handlers :
         calls'[d][g] = IF from[e] # Nobody /\ d = from[e][1] /\ g = from[e][2] THEN "busy" ELSE calls[d][g]
  <2>1. CASE from[e] = Nobody
    BY <2>1 DEF PutResumes
  <2>2. CASE from[e] # Nobody
    <3>1. calls' = [calls EXCEPT ![from[e][1]][from[e][2]] = "busy"]
      BY <2>2 DEF PutResumes
    <3>2. calls \in [Events -> [Handlers -> CallStates]]
      BY DEF TypeInv, TypeOK
    <3> QED
      BY <1>4, <2>2, <3>1, <3>2
  <2> QED
    BY <2>1, <2>2
<1>6. from[e] # Nobody => calls[from[e][1]][from[e][2]] = "putting" /\ stage[from[e][1]] \in {"processing", "inline"}
  <2> SUFFICES ASSUME from[e] # Nobody
               PROVE  calls[from[e][1]][from[e][2]] = "putting" /\ stage[from[e][1]] \in {"processing", "inline"}
    OBVIOUS
  <2>1. calls[from[e][1]][from[e][2]] = "putting"
    BY DEF Orderly, WaitersPut
  <2> QED
    BY <1>4, <2>1 DEF Orderly, StagesAndCalls
<1>7. StagesAndCalls'
  BY <1>1, <1>2, <1>3, <1>5, <1>6 DEF Orderly, StagesAndCalls
<1>8. WaitersPut'
  <2> SUFFICES ASSUME NEW d \in Events, d # e, from[d] # Nobody
               PROVE  /\ stage[d] = "waiting" /\ calls'[from[d][1]][from[d][2]] = "putting"
                      /\ \A c \in Events : from'[c] = from[d] => c = d
    BY <1>3 DEF WaitersPut
  <2>1. from[d][1] \in Events /\ from[d][2] \in Handlers /\ from[d] = <<from[d][1], from[d][2]>>
    BY DEF TypeInv, TypeOK
  <2>2. stage[d] = "waiting" /\ calls[from[d][1]][from[d][2]] = "putting" /\ \A c \in Events : from[c] = from[d] => c = d
    BY DEF Orderly, WaitersPut
  <2>3. from[e] # from[d]
    BY <2>2
  <2>4. from[e] # Nobody => from[e] = <<from[e][1], from[e][2]>>
    BY DEF TypeInv, TypeOK
  <2> QED
    BY <1>3, <1>5, <2>1, <2>2, <2>3, <2>4
<1>9. QueueIsQueued'
  <2>1. Len(queue') = Len(queue) + 1 /\ queue'[Len(queue) + 1] = e
        /\ \A k \in 1..Len(queue) : queue'[k] = queue[k] /\ queue[k] \in Events
    BY <1>1
  <2>2. \A k \in 1..Len(queue) : queue[k] # e
    BY <1>1 DEF Orderly, QueueIsQueued
  <2>3. Len(queue) \in Nat /\ 1..Len(queue') = 1..Len(queue) \cup {Len(queue) + 1}
    BY <1>1, <2>1
  <2> QED
    BY <1>3, <2>1, <2>2, <2>3 DEF Orderly, QueueIsQueued
<1>10. OneWorker'
  BY <1>2 DEF Orderly, OneWorker
<1>11. HasItsEvent'
  BY <1>1, <1>2, <1>3 DEF Orderly, HasItsEvent, Busy, TypeInv, TakenIsEvent
<1>12. AbandonedByStop'
  BY <1>1, <1>2, <1>3, <1>5 DEF Orderly, AbandonedByStop
<1> QED
  BY <1>7, <1>8, <1>9, <1>10, <1>11, <1>12 DEF Orderly

-----------------------------------------------------------------------------
(* Dispatching *)

\* Handing an event to its handlers, before anybody knows where the worker goes.
LEMMA DispatchKeepsOrder ==
    ASSUME TypeInv, Orderly, NEW e \in Events, NEW to \in {"inline", "processing"},
           stage[e] \in {"none", "taken"}, Dispatch(e, to),
           UNCHANGED <<from, queue>>, published' \in Nat, published' >= published, published' >= e
    PROVE  /\ StagesAndCalls' /\ WaitersPut' /\ QueueIsQueued'
           /\ \A d \in Events : d # e => stage'[d] = stage[d]
           /\ stage'[e] = IF registered = {} THEN "handled" ELSE to
           /\ \A d \in Events, h \in Handlers : calls'[d][h] = "abandoned" => calls[d][h] = "abandoned" /\ d # e
<1>1. \A d \in Events : stage'[d] = IF d # e THEN stage[d] ELSE IF registered = {} THEN "handled" ELSE to
  BY DEF Dispatch, TypeInv, TypeOK
<1>2. \A d \in Events, h \in Handlers :
         calls'[d][h] = IF d # e THEN calls[d][h] ELSE IF h \in registered THEN "ready" ELSE "none"
  BY DEF Dispatch, TypeInv, TypeOK
<1>3. \A h \in Handlers : calls[e][h] = "none"
  BY DEF Orderly, StagesAndCalls
<1>4. published \in Nat /\ \A d \in Events : d > published' => d # e /\ d > published
  BY FileEventConstants DEF TypeInv, TypeOK, Events
<1>5. StagesAndCalls'
  BY <1>1, <1>2, <1>4 DEF Orderly, StagesAndCalls
<1>6. WaitersPut'
  <2> SUFFICES ASSUME NEW d \in Events, from[d] # Nobody
               PROVE  /\ stage'[d] = "waiting" /\ calls'[from[d][1]][from[d][2]] = "putting"
                      /\ \A c \in Events : from[c] = from[d] => c = d
    BY DEF WaitersPut
  <2>1. from[d][1] \in Events /\ from[d][2] \in Handlers
    BY DEF TypeInv, TypeOK
  <2>2. stage[d] = "waiting" /\ calls[from[d][1]][from[d][2]] = "putting" /\ \A c \in Events : from[c] = from[d] => c = d
    BY DEF Orderly, WaitersPut
  <2>3. from[d][1] # e
    BY <1>3, <2>1, <2>2
  <2> QED
    BY <1>1, <1>2, <2>1, <2>2, <2>3
<1>7. QueueIsQueued'
  <2>1. \A k \in 1..Len(queue) : queue[k] # e /\ queue[k] \in Events
    BY DEF Orderly, QueueIsQueued, TypeInv, TypeOK
  <2> QED
    BY <1>1, <2>1 DEF Orderly, QueueIsQueued
<1> QED
  BY <1>1, <1>2, <1>3, <1>5, <1>6, <1>7

LEMMA InlineKeepsOrder ==
    ASSUME TypeInv, Orderly, NEW e \in Events, PublishInline(e)
    PROVE  Orderly'
<1>1. stage[e] = "none" /\ published' \in Nat /\ published' >= published /\ published' >= e
  BY FileEventConstants DEF PublishInline, New, TypeInv, TypeOK, Orderly, StagesAndCalls, Events
<1>2. UNCHANGED <<from, queue, worker, running, started, stopping>>
  BY DEF PublishInline, life
<1>3. Dispatch(e, "inline")
  BY DEF PublishInline
<1>4. /\ StagesAndCalls' /\ WaitersPut' /\ QueueIsQueued'
      /\ \A d \in Events : d # e => stage'[d] = stage[d]
      /\ stage'[e] \in {"handled", "inline"}
      /\ \A d \in Events, h \in Handlers : calls'[d][h] = "abandoned" => calls[d][h] = "abandoned" /\ d # e
  BY <1>1, <1>2, <1>3, DispatchKeepsOrder
<1>5. OneWorker'
  BY <1>2 DEF Orderly, OneWorker
<1>6. HasItsEvent'
  BY <1>1, <1>2, <1>4 DEF Orderly, HasItsEvent, Busy, TypeInv, TakenIsEvent
<1>7. AbandonedByStop'
  BY <1>2, <1>4 DEF Orderly, AbandonedByStop
<1> QED
  BY <1>4, <1>5, <1>6, <1>7 DEF Orderly

\* The publisher that waited for the handlers itself goes on.
LEMMA InlineEndKeepsOrder ==
    ASSUME TypeInv, Orderly, NEW e \in Events, InlineEnds(e)
    PROVE  Orderly'
<1>1. stage[e] = "inline" /\ \A h \in Handlers : calls[e][h] \in {"none", "abandoned"}
  BY DEF InlineEnds, Ended
<1>2. UNCHANGED <<published, from, queue, calls, worker, running, started, stopping>>
  BY DEF InlineEnds, life
<1>3. \A d \in Events : stage'[d] = IF d = e THEN "handled" ELSE stage[d]
  BY DEF InlineEnds, TypeInv, TypeOK
<1>4. e <= published \/ stage[e] = "none"
  BY FileEventConstants DEF Orderly, StagesAndCalls, TypeInv, TypeOK, Events
<1>5. StagesAndCalls'
  BY <1>1, <1>2, <1>3 DEF Orderly, StagesAndCalls
<1>6. WaitersPut'
  BY <1>1, <1>2, <1>3 DEF Orderly, WaitersPut
<1>7. QueueIsQueued'
  <2>1. \A k \in 1..Len(queue) : queue[k] # e /\ queue[k] \in Events
    BY <1>1 DEF Orderly, QueueIsQueued, TypeInv, TypeOK
  <2> QED
    BY <1>2, <1>3, <2>1 DEF Orderly, QueueIsQueued
<1>8. OneWorker'
  BY <1>2 DEF Orderly, OneWorker
<1>9. HasItsEvent'
  BY <1>1, <1>2, <1>3 DEF Orderly, HasItsEvent, Busy, TypeInv, TakenIsEvent
<1>10. AbandonedByStop'
  BY <1>1, <1>2, <1>3 DEF Orderly, AbandonedByStop
<1> QED
  BY <1>5, <1>6, <1>7, <1>8, <1>9, <1>10 DEF Orderly

-----------------------------------------------------------------------------
(* The worker *)

LEMMA GoesIs ==
    ASSUME TypeInv, NEW i \in Workers, NEW at, NEW e, Goes(i, at, e)
    PROVE  /\ worker'[i].at = at /\ worker'[i].event = e
           /\ \A j \in Workers : j # i => worker'[j] = worker[j]
BY DEF Goes, TypeInv, TypeOK

\* where the loop takes the worker
LEMMA LoopsIs ==
    ASSUME TypeInv, NEW i \in Workers, Loops(i)
    PROVE  /\ worker'[i].at = IF running THEN "getting" ELSE "over"
           /\ \A j \in Workers : j # i => worker'[j] = worker[j]
BY GoesIs DEF Loops

\* The only worker alive
LEMMA OthersAreOver ==
    ASSUME Orderly, NEW i \in Workers, worker[i].at \notin {"none", "over"}
    PROVE  /\ i = started /\ (running \/ i \in stopping)
           /\ \A j \in Workers : j # i => worker[j].at \in {"none", "over"}
BY DEF Orderly, OneWorker

\* A worker that has no event goes on, or to its end.
LEMMA LoopKeepsOrder ==
    ASSUME TypeInv, Orderly, NEW i \in Workers, WorkerBegins(i) \/ GetTimesOut(i) \/ Leave(i)
    PROVE  Orderly'
<1>1. UNCHANGED <<published, stage, from, queue, calls, running, started, stopping>>
  BY DEF WorkerBegins, GetTimesOut, Leave, life
<1>2. worker[i].at \in {"new", "getting", "leaving"}
  BY DEF WorkerBegins, GetTimesOut, Leave
<1>3. worker'[i].at \in {"getting", "over"} /\ \A j \in Workers : j # i => worker'[j] = worker[j]
  BY GoesIs, LoopsIs DEF WorkerBegins, GetTimesOut, Leave
<1>4. /\ i = started /\ (running \/ i \in stopping)
      /\ \A j \in Workers : j # i => worker[j].at \in {"none", "over"}
  BY <1>2, OthersAreOver
<1>5. StagesAndCalls' /\ WaitersPut' /\ QueueIsQueued'
  BY <1>1 DEF Orderly, StagesAndCalls, WaitersPut, QueueIsQueued
<1>6. OneWorker'
  BY <1>1, <1>3, <1>4 DEF Orderly, OneWorker
<1>7. HasItsEvent'
  BY <1>1, <1>2, <1>3 DEF Orderly, HasItsEvent, Busy
<1>8. AbandonedByStop'
  BY <1>1, <1>2, <1>4 DEF Orderly, AbandonedByStop
<1> QED
  BY <1>5, <1>6, <1>7, <1>8 DEF Orderly

\* An event leaves the queue; the worker's life aside.
LEMMA TakingKeepsOrder ==
    ASSUME TypeInv, Orderly, NEW i \in Workers, worker[i].at = "getting", Take(i),
           UNCHANGED <<published, from, calls>>
    PROVE  /\ StagesAndCalls' /\ WaitersPut' /\ QueueIsQueued' /\ HasItsEvent'
           /\ worker'[i].at = "taken" /\ \A j \in Workers : j # i => worker'[j] = worker[j]
           /\ \A e \in Events, h \in Handlers : calls[e][h] # "none" => stage'[e] = stage[e]
<1> DEFINE e == Head(queue)
<1>1. queue \in Seq(Events) /\ queue # <<>> /\ queue' = Tail(queue) /\ e = queue[1] /\ 1 \in 1..Len(queue)
  BY DEF Take, TypeInv, TypeOK
<1>2. e \in Events /\ stage[e] = "queued"
  BY <1>1 DEF Orderly, QueueIsQueued
<1>3. stage' = [stage EXCEPT ![e] = "taken"] /\ Goes(i, "taken", e)
  BY DEF Take
<1> HIDE DEF e
<1>4. \A d \in Events : stage'[d] = IF d = e THEN "taken" ELSE stage[d]
  BY <1>3 DEF TypeInv, TypeOK
<1>5. worker'[i].at = "taken" /\ worker'[i].event = e /\ \A j \in Workers : j # i => worker'[j] = worker[j]
  BY <1>3, GoesIs
<1>6. \A h \in Handlers : calls[e][h] = "none"
  BY <1>2 DEF Orderly, StagesAndCalls
<1>7. StagesAndCalls'
  BY <1>2, <1>4, <1>6 DEF Orderly, StagesAndCalls
<1>8. WaitersPut'
  BY <1>2, <1>4 DEF Orderly, WaitersPut
<1>9. QueueIsQueued'
  <2>1. Len(queue') = Len(queue) - 1 /\ Len(queue) \in Nat
        /\ \A k \in 1..Len(queue') : queue'[k] = queue[k + 1] /\ k + 1 \in 1..Len(queue) /\ k + 1 # 1
    BY <1>1
  <2>2. \A k \in 1..Len(queue) : k # 1 => queue[k] # e /\ queue[k] \in Events
    BY <1>1 DEF Orderly, QueueIsQueued
  <2> SUFFICES ASSUME NEW k \in 1..Len(queue')
               PROVE  /\ stage'[queue'[k]] = "queued"
                      /\ \A l \in 1..Len(queue') : queue'[k] = queue'[l] => k = l
    BY DEF QueueIsQueued
  <2>3. stage'[queue'[k]] = "queued"
    <3>1. queue'[k] = queue[k + 1] /\ k + 1 \in 1..Len(queue) /\ queue[k + 1] \in Events /\ queue[k + 1] # e
      BY <2>1, <2>2
    <3>2. stage[queue[k + 1]] = "queued"
      BY <3>1 DEF Orderly, QueueIsQueued
    <3> QED
      BY <1>4, <3>1, <3>2
  <2>4. ASSUME NEW l \in 1..Len(queue'), queue'[k] = queue'[l] PROVE k = l
    <3>1. queue[k + 1] = queue[l + 1] /\ k + 1 \in 1..Len(queue) /\ l + 1 \in 1..Len(queue)
      BY <2>1, <2>4
    <3>2. k + 1 = l + 1
      BY <3>1 DEF Orderly, QueueIsQueued
    <3> QED
      BY <2>1, <3>2
  <2> QED
    BY <2>3, <2>4
<1>10. HasItsEvent'
  <2>1. \A j \in Workers : j # i => worker[j].at \in {"none", "over"}
    BY OthersAreOver
  <2> QED
    BY <1>2, <1>4, <1>5, <2>1 DEF Orderly, HasItsEvent, Busy
<1> QED
  BY <1>4, <1>5, <1>6, <1>7, <1>8, <1>9, <1>10

LEMMA GetKeepsOrder ==
    ASSUME TypeInv, Orderly, NEW i \in Workers, Get(i)
    PROVE  Orderly'
<1>1. worker[i].at = "getting" /\ Take(i) /\ UNCHANGED <<published, from, calls, running, started, stopping>>
  BY DEF Get, life
<1>2. /\ StagesAndCalls' /\ WaitersPut' /\ QueueIsQueued' /\ HasItsEvent'
      /\ worker'[i].at = "taken" /\ \A j \in Workers : j # i => worker'[j] = worker[j]
      /\ \A e \in Events, h \in Handlers : calls[e][h] # "none" => stage'[e] = stage[e]
  BY <1>1, TakingKeepsOrder
<1>3. /\ i = started /\ (running \/ i \in stopping)
      /\ \A j \in Workers : j # i => worker[j].at \in {"none", "over"}
  BY <1>1, OthersAreOver
<1>4. OneWorker'
  BY <1>1, <1>2, <1>3 DEF Orderly, OneWorker
<1>5. AbandonedByStop'
  BY <1>1, <1>2, <1>3 DEF Orderly, AbandonedByStop
<1> QED
  BY <1>2, <1>4, <1>5 DEF Orderly

LEMMA ProcessKeepsOrder ==
    ASSUME TypeInv, Orderly, NEW i \in Workers, Process(i)
    PROVE  Orderly'
<1> DEFINE e == worker[i].event
<1>1. worker[i].at = "taken" /\ e \in Events /\ stage[e] = "taken" /\ Dispatch(e, "processing")
  BY DEF Process, TypeInv, TakenIsEvent, Orderly, HasItsEvent
<1>2. UNCHANGED <<published, from, queue, running, started, stopping>>
  BY DEF Process, life
<1>3. e <= published /\ published \in Nat
  BY <1>1, FileEventConstants DEF Orderly, StagesAndCalls, TypeInv, TypeOK, Events
<1>4. worker'[i].at = (IF registered = {} THEN IF running THEN "getting" ELSE "over" ELSE "processing")
      /\ (registered # {} => worker'[i].event = e)
      /\ \A j \in Workers : j # i => worker'[j] = worker[j]
  BY GoesIs, LoopsIs DEF Process
<1> HIDE DEF e
<1>5. /\ StagesAndCalls' /\ WaitersPut' /\ QueueIsQueued'
      /\ \A d \in Events : d # e => stage'[d] = stage[d]
      /\ stage'[e] = IF registered = {} THEN "handled" ELSE "processing"
      /\ \A d \in Events, h \in Handlers : calls'[d][h] = "abandoned" => calls[d][h] = "abandoned" /\ d # e
  BY <1>1, <1>2, <1>3, DispatchKeepsOrder
<1>6. /\ i = started /\ (running \/ i \in stopping)
      /\ \A j \in Workers : j # i => worker[j].at \in {"none", "over"}
  BY <1>1, OthersAreOver
<1>7. OneWorker'
  BY <1>2, <1>4, <1>6 DEF Orderly, OneWorker
<1>8. \A d \in Events : stage[d] # "processing"
  BY <1>1, <1>6 DEF Orderly, HasItsEvent, Busy
<1>9. HasItsEvent'
  <2>1. CASE registered = {}
    BY <1>4, <1>5, <1>6, <1>8, <2>1 DEF HasItsEvent, Busy
  <2>2. CASE registered # {}
    BY <1>4, <1>5, <1>6, <1>8, <2>2 DEF HasItsEvent, Busy
  <2> QED
    BY <2>1, <2>2
<1>10. AbandonedByStop'
  BY <1>1, <1>2, <1>5, <1>6, <1>8 DEF Orderly, AbandonedByStop
<1> QED
  BY <1>5, <1>7, <1>9, <1>10 DEF Orderly

LEMMA ProcessedKeepsOrder ==
    ASSUME TypeInv, Orderly, NEW i \in Workers, Processed(i)
    PROVE  Orderly'
<1> DEFINE e == worker[i].event
<1>1. Busy(i) /\ e \in Events /\ stage[e] = "processing" /\ \A h \in Handlers : calls[e][h] \in {"none", "abandoned"}
  BY DEF Processed, Ended, Busy, TypeInv, TakenIsEvent, Orderly, HasItsEvent
<1>2. UNCHANGED <<published, from, queue, calls, running, started, stopping>>
  BY DEF Processed, life
<1>3. \A d \in Events : stage'[d] = IF d = e THEN "handled" ELSE stage[d]
  BY <1>1 DEF Processed, TypeInv, TypeOK
<1>4. worker'[i].at \in {"getting", "over"} /\ (~running => worker'[i].at = "over")
      /\ \A j \in Workers : j # i => worker'[j] = worker[j]
  BY GoesIs, LoopsIs DEF Processed
<1> HIDE DEF e
<1>5. /\ i = started /\ (running \/ i \in stopping)
      /\ \A j \in Workers : j # i => worker[j].at \in {"none", "over"}
  BY <1>1, OthersAreOver DEF Busy
<1>6. StagesAndCalls'
  BY <1>1, <1>2, <1>3 DEF Orderly, StagesAndCalls
<1>7. WaitersPut'
  BY <1>1, <1>2, <1>3 DEF Orderly, WaitersPut
<1>8. QueueIsQueued'
  <2>1. \A k \in 1..Len(queue) : queue[k] # e /\ queue[k] \in Events
    BY <1>1 DEF Orderly, QueueIsQueued, TypeInv, TypeOK
  <2> QED
    BY <1>2, <1>3, <2>1 DEF Orderly, QueueIsQueued
<1>9. OneWorker'
  BY <1>2, <1>4, <1>5 DEF Orderly, OneWorker
<1>10. HasItsEvent'
  <2>1. \A d \in Events : d # e => stage[d] # "processing"
    BY <1>5 DEF Orderly, HasItsEvent, Busy, e
  <2>2. \A j \in Workers : ~Busy(j)' /\ worker'[j].at # "taken"
    BY <1>4, <1>5 DEF Busy
  <2> QED
    BY <1>3, <2>1, <2>2 DEF HasItsEvent
<1>11. AbandonedByStop'
  <2> SUFFICES ASSUME NEW d \in Events, NEW h \in Handlers, calls[d][h] = "abandoned"
               PROVE  /\ ~running /\ stopping # {}
                      /\ stage'[d] = "processing" \/ (stage'[d] = "handled" /\ worker'[started].at = "over")
                      /\ \A c \in Events, g \in Handlers : calls[c][g] = "abandoned" => c = d
    BY <1>2 DEF AbandonedByStop
  <2>1. /\ ~running /\ stopping # {}
        /\ \A c \in Events, g \in Handlers : calls[c][g] = "abandoned" => c = d
        /\ stage[d] \in {"processing", "handled"}
    BY DEF Orderly, AbandonedByStop
  <2> QED
    BY <1>3, <1>4, <1>5, <2>1
<1> QED
  BY <1>6, <1>7, <1>8, <1>9, <1>10, <1>11 DEF Orderly

-----------------------------------------------------------------------------
(* start and stop *)

LEMMA StartKeepsOrder ==
    ASSUME TypeInv, Orderly, NEW i \in Workers, Start(i), ~overlapped'
    PROVE  Orderly'
<1>1. ~running /\ stopping = {} /\ running' /\ started' = i
      /\ UNCHANGED <<published, stage, from, queue, calls, stopping>>
  BY DEF Start
<1>2. \A j \in Workers : worker[j].at \in {"none", "over"}
  BY <1>1 DEF Orderly, OneWorker
<1>3. worker'[i].at = "new" /\ \A j \in Workers : j # i => worker'[j] = worker[j]
  BY GoesIs DEF Start
<1>4. StagesAndCalls' /\ WaitersPut' /\ QueueIsQueued'
  BY <1>1 DEF Orderly, StagesAndCalls, WaitersPut, QueueIsQueued
<1>5. OneWorker'
  BY <1>1, <1>2, <1>3 DEF OneWorker
<1>6. HasItsEvent'
  BY <1>1, <1>2, <1>3 DEF Orderly, HasItsEvent, Busy
<1>7. AbandonedByStop'
  BY <1>1 DEF Orderly, AbandonedByStop
<1> QED
  BY <1>4, <1>5, <1>6, <1>7 DEF Orderly

\* The handlers of the event under way are cancelled.
LEMMA CancellingKeepsOrder ==
    ASSUME TypeInv, Orderly, NEW e \in Events, stage[e] = "processing", CancelHandlers(e),
           \A d \in Events, h \in Handlers : calls[d][h] # "abandoned",
           UNCHANGED <<published, queue>>
    PROVE  /\ StagesAndCalls' /\ WaitersPut' /\ QueueIsQueued'
           /\ \A d \in Events : stage'[d] = "processing" <=> stage[d] = "processing"
           /\ \A d \in Events, h \in Handlers : calls'[d][h] = "abandoned" => d = e
<1>1. \A d \in Events, h \in Handlers : d # e => calls'[d][h] = calls[d][h]
  BY DEF CancelHandlers, TypeInv, TypeOK
<1>2. \A d \in Events : stage'[d] = IF from[d] # Nobody /\ from[d][1] = e THEN "dropped" ELSE stage[d]
  BY DEF CancelHandlers
<1>3. \A d \in Events : from[d] # Nobody => stage[d] = "waiting"
  BY DEF Orderly, WaitersPut
<1>4. \A d \in Events : stage'[d] # stage[d] => stage[d] = "waiting" /\ stage'[d] = "dropped"
  BY <1>2, <1>3
<1>5. \A d \in Events : from'[d] # Nobody => from'[d] = from[d] /\ from[d][1] # e
  BY DEF CancelHandlers
<1>6. stage'[e] = "processing"
  BY <1>4
<1>7. StagesAndCalls'
  BY <1>1, <1>4, <1>6 DEF Orderly, StagesAndCalls
<1>8. WaitersPut'
  <2> SUFFICES ASSUME NEW d \in Events, from'[d] # Nobody
               PROVE  /\ stage'[d] = "waiting" /\ calls'[from'[d][1]][from'[d][2]] = "putting"
                      /\ \A c \in Events : from'[c] = from'[d] => c = d
    BY DEF WaitersPut
  <2>1. from'[d] = from[d] /\ from[d][1] # e /\ from[d] # Nobody
    BY <1>5
  <2>2. from[d][1] \in Events /\ from[d][2] \in Handlers
    BY <2>1 DEF TypeInv, TypeOK
  <2>3. stage[d] = "waiting" /\ calls[from[d][1]][from[d][2]] = "putting" /\ \A c \in Events : from[c] = from[d] => c = d
    BY <2>1 DEF Orderly, WaitersPut
  <2>4. stage'[d] = "waiting" /\ calls'[from[d][1]][from[d][2]] = "putting"
    BY <1>1, <1>2, <2>1, <2>2, <2>3
  <2>5. ASSUME NEW c \in Events, from'[c] = from'[d] PROVE c = d
    BY <1>5, <2>1, <2>3, <2>5
  <2> QED
    BY <2>1, <2>4, <2>5
<1>9. QueueIsQueued'
  <2>1. \A k \in 1..Len(queue) : queue[k] \in Events /\ stage[queue[k]] = "queued"
    BY DEF Orderly, QueueIsQueued, TypeInv, TypeOK
  <2>2. \A k \in 1..Len(queue) : stage'[queue[k]] = "queued"
    BY <1>4, <2>1
  <2> QED
    BY <2>2 DEF Orderly, QueueIsQueued
<1>10. \A d \in Events, h \in Handlers : calls'[d][h] = "abandoned" => d = e
  BY <1>1
<1>11. \A d \in Events : stage'[d] = "processing" <=> stage[d] = "processing"
  BY <1>4
<1> QED
  BY <1>7, <1>8, <1>9, <1>10, <1>11

LEMMA StopKeepsOrder ==
    ASSUME TypeInv, Orderly, NEW i \in Workers, Stop(i)
    PROVE  Orderly'
<1>1. /\ running /\ i = started /\ ~running' /\ stopping' = stopping \cup {i}
      /\ UNCHANGED <<published, started>>
  BY DEF Stop
<1>2. /\ stopping = {}
      /\ \A e \in Events, h \in Handlers : calls[e][h] # "abandoned"
      /\ \A j \in Workers : j # i => worker[j].at \in {"none", "over"}
  BY <1>1 DEF Orderly, OneWorker, AbandonedByStop
<1>3. CASE (\A j \in Workers : j # i => worker'[j] = worker[j])
  <2>1. OneWorker'
    BY <1>1, <1>2, <1>3 DEF OneWorker
  <2>2. CASE /\ worker[i].at \in {"new", "getting"} /\ Goes(i, "leaving", 0)
             /\ UNCHANGED <<stage, from, queue, calls>>
    <3>1. worker'[i].at = "leaving"
      BY <2>2, GoesIs
    <3>2. StagesAndCalls' /\ WaitersPut' /\ QueueIsQueued'
      BY <1>1, <2>2 DEF Orderly, StagesAndCalls, WaitersPut, QueueIsQueued
    <3>3. HasItsEvent'
      BY <1>3, <2>2, <3>1 DEF Orderly, HasItsEvent, Busy
    <3>4. AbandonedByStop'
      BY <1>2, <2>2 DEF AbandonedByStop
    <3> QED
      BY <2>1, <3>2, <3>3, <3>4 DEF Orderly
  <2>3. CASE worker[i].at = "getting" /\ Take(i) /\ UNCHANGED <<from, calls>>
    <3>1. StagesAndCalls' /\ WaitersPut' /\ QueueIsQueued' /\ HasItsEvent'
      BY <1>1, <2>3, TakingKeepsOrder
    <3>2. AbandonedByStop'
      BY <1>2, <2>3 DEF AbandonedByStop
    <3> QED
      BY <2>1, <3>1, <3>2 DEF Orderly
  <2>4. CASE UNCHANGED <<stage, from, queue, calls, worker>>
    <3>1. StagesAndCalls' /\ WaitersPut' /\ QueueIsQueued' /\ HasItsEvent'
      BY <1>1, <2>4 DEF Orderly, StagesAndCalls, WaitersPut, QueueIsQueued, HasItsEvent, Busy
    <3>2. AbandonedByStop'
      BY <1>2, <2>4 DEF AbandonedByStop
    <3> QED
      BY <2>1, <3>1, <3>2 DEF Orderly
  <2>5. CASE /\ worker[i].at = "processing" /\ CancelHandlers(worker[i].event)
             /\ Goes(i, "ending", worker[i].event) /\ UNCHANGED queue
    <3>1. /\ worker[i].event \in Events /\ stage[worker[i].event] = "processing"
          /\ worker'[i].at = "ending" /\ worker'[i].event = worker[i].event
      BY <2>5, GoesIs DEF TypeInv, TakenIsEvent, Orderly, HasItsEvent, Busy
    <3>2. /\ StagesAndCalls' /\ WaitersPut' /\ QueueIsQueued'
          /\ \A d \in Events : stage'[d] = "processing" <=> stage[d] = "processing"
          /\ \A d \in Events, h \in Handlers : calls'[d][h] = "abandoned" => d = worker[i].event
      BY <1>1, <1>2, <2>5, <3>1, CancellingKeepsOrder
    <3>3. \A d \in Events : stage[d] = "processing" => d = worker[i].event
      <4>1. i = started /\ \A j \in Workers : Busy(j) => j = i
        BY <1>1, <1>2 DEF Busy
      <4> QED
        BY <4>1 DEF Orderly, HasItsEvent
    <3>4. HasItsEvent'
      BY <1>2, <1>3, <3>1, <3>2, <3>3 DEF HasItsEvent, Busy
    <3>5. AbandonedByStop'
      <4>1. ~running' /\ stopping' # {}
        BY <1>1
      <4> QED
        BY <3>1, <3>2, <4>1 DEF AbandonedByStop
    <3> QED
      BY <2>1, <3>2, <3>4, <3>5 DEF Orderly
  <2> QED
    BY <2>2, <2>3, <2>4, <2>5 DEF Stop
<1>4. \A j \in Workers : j # i => worker'[j] = worker[j]
  BY GoesIs DEF Stop, Take
<1> QED
  BY <1>3, <1>4

LEMMA ReturningKeepsOrder ==
    ASSUME TypeInv, Orderly, NEW i \in Workers, StopReturns(i)
    PROVE  Orderly'
<1>1. /\ i \in stopping /\ worker[i].at = "over" /\ stopping' = stopping \ {i}
      /\ UNCHANGED <<published, stage, from, queue, worker, running, started>>
  BY DEF StopReturns
<1>2. \A e \in Events, h \in Handlers : calls'[e][h] = IF calls[e][h] = "abandoned" THEN "none" ELSE calls[e][h]
  BY DEF StopReturns
<1>3. StagesAndCalls'
  BY <1>1, <1>2 DEF Orderly, StagesAndCalls
<1>4. WaitersPut'
  <2>1. \A d \in Events : from[d] # Nobody => from[d][1] \in Events /\ from[d][2] \in Handlers
    BY DEF TypeInv, TypeOK
  <2> QED
    BY <1>1, <1>2, <2>1 DEF Orderly, WaitersPut
<1>5. QueueIsQueued' /\ HasItsEvent'
  BY <1>1 DEF Orderly, QueueIsQueued, HasItsEvent, Busy
<1>6. OneWorker'
  BY <1>1 DEF Orderly, OneWorker
<1>7. AbandonedByStop'
  BY <1>2 DEF AbandonedByStop
<1> QED
  BY <1>3, <1>4, <1>5, <1>6, <1>7 DEF Orderly

-----------------------------------------------------------------------------
LEMMA OrderInitially == Init => Orderly
BY FileEventConstants DEF Init, Orderly, StagesAndCalls, WaitersPut, QueueIsQueued, OneWorker, HasItsEvent,
   AbandonedByStop, Busy, Nobody

LEMMA OverlapStays == [Next]_vars => (overlapped => overlapped')
BY DEF Next, vars, life, RegisterHandler, UnregisterHandler, ClearHistory, Publish, PutResumes, PublishInline,
   InlineEnds, HandlerPublishes, HandlerStep, HandlerBegins, HandlerEnds, Called, WorkerStep, WorkerBegins, Get,
   GetTimesOut, Process, Processed, Leave, Start, Stop, StopReturns

LEMMA OrderStep == TypeInv /\ Orderly /\ [Next]_vars /\ ~overlapped' => Orderly'
<1> SUFFICES ASSUME TypeInv, Orderly, [Next]_vars, ~overlapped' PROVE Orderly'
  OBVIOUS
<1>1. ASSUME UNCHANGED <<published, stage, from, queue, calls, worker, life>> PROVE Orderly'
  BY <1>1 DEF Orderly, StagesAndCalls, WaitersPut, QueueIsQueued, OneWorker, HasItsEvent, AbandonedByStop, Busy, life
<1>2. ASSUME NEW h \in Handlers, RegisterHandler(h) \/ UnregisterHandler(h) PROVE Orderly'
  BY <1>1, <1>2 DEF RegisterHandler, UnregisterHandler
<1>3. CASE ClearHistory \/ UNCHANGED vars
  BY <1>1, <1>3 DEF ClearHistory, vars
<1>4. ASSUME NEW e \in Events, Publish(e) PROVE Orderly'
  BY <1>4, PutKeepsOrder DEF Publish
<1>5. ASSUME NEW e \in Events, NEW d \in Events, NEW h \in Handlers, HandlerPublishes(e, d, h) PROVE Orderly'
  <2>1. <<d, h>> \in {Nobody} \cup (Events \X Handlers) /\ <<d, h>>[1] = d /\ <<d, h>>[2] = h
    OBVIOUS
  <2> QED
    BY <1>5, <2>1, PutKeepsOrder DEF HandlerPublishes
<1>6. ASSUME NEW i \in Workers, WorkerStep(i) PROVE Orderly'
  BY <1>6, LoopKeepsOrder, GetKeepsOrder, ProcessKeepsOrder, ProcessedKeepsOrder DEF WorkerStep
<1> QED
  BY <1>2, <1>3, <1>4, <1>5, <1>6, HandlersKeepOrder, ResumingKeepsOrder, InlineKeepsOrder, InlineEndKeepsOrder,
     StartKeepsOrder, StopKeepsOrder, ReturningKeepsOrder DEF Next

LEMMA OrderIsEnough == IInv => OneAfterTheOther
<1> SUFFICES ASSUME IInv, ~overlapped
             PROVE  /\ \A d, e \in Events : InHands(d) /\ InHands(e) => d = e
                    /\ ~running /\ stopping = {} => \A e \in Events : ~InHands(e)
  BY DEF OneAfterTheOther
<1>1. \A e \in Events : InHands(e) =>
         \/ stage[e] = "processing" /\ \E i \in Workers : Busy(i) /\ worker[i].event = e /\ i = started /\ (running \/ i \in stopping)
         \/ stage[e] = "handled" /\ \E h \in Handlers : calls[e][h] = "abandoned"
  BY DEF InHands, IInv, Orderly, HasItsEvent, StagesAndCalls, OneWorker, Busy
<1> QED
  BY <1>1 DEF IInv, Orderly, AbandonedByStop, Busy

LEMMA InductiveStep == IInv /\ [Next]_vars => IInv'
BY TypesStep, OrderStep, OverlapStays DEF IInv

\* Queued events are handled one after the other and none after stop() has
\* returned, for any number of handlers, events and starts, as long as no
\* start() overtakes a stop().
THEOREM EventsInTurn == Spec => []OneAfterTheOther
<1>1. Init => IInv
  BY TypesInitially, OrderInitially DEF IInv
<1> QED
  BY <1>1, InductiveStep, OrderIsEnough, PTL DEF Spec

-----------------------------------------------------------------------------
(* The safety half of EveryoneGetsOn *)

\* a handler that waits for room has an event it waits with
PuttersWait ==
    \A e \in Events, h \in Handlers : calls[e][h] = "putting" =>
        h \notin Threaded /\ \E d \in Events : from[d] = <<e, h>>

\* the handlers of a worker that was cancelled have been told
HandlersTold ==
    \A i \in Workers : worker[i].at = "ending" =>
        \A h \in Handlers : calls[worker[i].event][h] \in {"none", "cancelled", "abandoned"}

\* a worker somebody stops does not wait for events any longer
StoppedLeave ==
    \A i \in stopping : worker[i].at \in {"leaving", "taken", "processing", "ending", "over"}

HandingOn == PuttersWait /\ HandlersTold /\ StoppedLeave
HInv == IInv /\ (~overlapped => HandingOn)

\* what a worker waits for can go on, unless it is a handler that waits for room
\* in the full queue
WorkerGetsOn ==
    \A i \in Workers : Busy(i) =>
        \/ Ended(worker[i].event)
        \/ \E h \in Handlers : calls[worker[i].event][h] \in {"ready", "busy", "cancelled"}
        \/ \E d \in Events : /\ stage[d] = "waiting" /\ Len(queue) < MaxQueue
                             /\ from[d][1] = worker[i].event
        \/ Stuck

\* how far a worker that was stopped is from its end
StepsLeft(at) ==
    CASE at = "taken"                 -> 3
      [] at = "processing"            -> 2
      [] at \in {"ending", "leaving"} -> 1
      [] at = "over"                  -> 0

\* its steps take it there, and it takes no further event
StopsDrawNear ==
    [][~overlapped => \A i \in stopping :
         worker'[i] = worker[i] \/ StepsLeft(worker'[i].at) < StepsLeft(worker[i].at)]_vars

LEMMA HandingOnInitially == Init => HandingOn
BY DEF Init, HandingOn, PuttersWait, HandlersTold, StoppedLeave

\* the handlers a cancelled worker waits for are not called again
LEMMA ToldKept ==
    ASSUME HandlersTold,
           \A i \in Workers : worker'[i].at = "ending" =>
              /\ worker'[i] = worker[i]
              /\ \A h \in Handlers :
                   calls[worker[i].event][h] \in {"none", "cancelled", "abandoned"}
                     => calls'[worker[i].event][h] \in {"none", "cancelled", "abandoned"}
    PROVE  HandlersTold'
BY DEF HandlersTold

LEMMA HandingUntouched ==
    ASSUME HandingOn, UNCHANGED <<calls, from, worker, stopping>>
    PROVE  HandingOn'
BY DEF HandingOn, PuttersWait, HandlersTold, StoppedLeave

LEMMA HandlersHandOn ==
    ASSUME TypeInv, HandingOn, NEW e \in Events, NEW h \in Handlers, HandlerStep(e, h)
    PROVE  HandingOn'
<1>1. PICK state \in {"none", "busy"} :
        /\ Called(e, h, state)
        /\ state = "busy" => calls[e][h] = "ready"
  BY DEF HandlerStep, HandlerBegins, HandlerEnds
<1>2. calls' = [calls EXCEPT ![e][h] = state] /\ UNCHANGED <<from, worker, stopping>>
  BY <1>1 DEF Called, life
<1>3. \A d \in Events, g \in Handlers : calls'[d][g] = IF d = e /\ g = h THEN state ELSE calls[d][g]
  BY <1>2 DEF TypeInv, TypeOK
<1>4. PuttersWait'
  BY <1>2, <1>3 DEF HandingOn, PuttersWait
<1>5. HandlersTold'
  <2> SUFFICES ASSUME NEW i \in Workers, worker[i].at = "ending", NEW g \in Handlers,
                      calls[worker[i].event][g] \in {"none", "cancelled", "abandoned"}
               PROVE  calls'[worker[i].event][g] \in {"none", "cancelled", "abandoned"}
    BY <1>2, ToldKept DEF HandingOn
  <2>1. worker[i].event \in Events
    BY DEF TypeInv, TakenIsEvent
  <2> QED
    BY <1>1, <1>3, <2>1
<1>6. StoppedLeave'
  BY <1>2 DEF HandingOn, StoppedLeave
<1> QED
  BY <1>4, <1>5, <1>6 DEF HandingOn

LEMMA PutHandsOn ==
    ASSUME TypeInv, Orderly, HandingOn, NEW e \in Events, NEW w \in {Nobody} \cup (Events \X Handlers),
           w # Nobody => calls[w[1]][w[2]] = "busy" /\ w[2] \notin Threaded,
           New(e), Put(e, w), UNCHANGED <<history, registered, worker, life>>
    PROVE  HandingOn'
<1>1. UNCHANGED <<worker, stopping>>
  BY DEF life
<1>2. CASE UNCHANGED <<calls, from>>
  BY <1>1, <1>2, HandingUntouched
<1>3. CASE ~ UNCHANGED <<calls, from>>
  <2>1. from' = [from EXCEPT ![e] = w]
    BY <1>3 DEF Put
  <2>2. w = Nobody => calls' = calls
    BY <1>3 DEF Put
  <2>3. w # Nobody => calls' = [calls EXCEPT ![w[1]][w[2]] = "putting"] /\ w[1] \in Events /\ w[2] \in Handlers /\ w = <<w[1], w[2]>>
    BY <1>3 DEF Put
  <2>4. from[e] = Nobody
    <3>1. stage[e] = "none"
      BY DEF New, Orderly, StagesAndCalls, TypeInv, TypeOK, Events
    <3> QED
      BY <3>1 DEF Orderly, WaitersPut
  <2>5. \A d \in Events : from'[d] = IF d = e THEN w ELSE from[d]
    BY <2>1 DEF TypeInv, TypeOK
  <2>6. \A d \in Events, g \in Handlers :
          \/ calls'[d][g] = calls[d][g]
          \/ calls'[d][g] = "putting" /\ calls[d][g] = "busy" /\ w = <<d, g>> /\ w # Nobody
    <3>1. CASE w = Nobody
      BY <2>2, <3>1
    <3>2. CASE w # Nobody
      <4>1. \A d \in Events, g \in Handlers :
              calls'[d][g] = IF d = w[1] /\ g = w[2] THEN "putting" ELSE calls[d][g]
        BY <2>3, <3>2 DEF TypeInv, TypeOK
      <4> QED
        BY <2>3, <3>2, <4>1
    <3> QED
      BY <3>1, <3>2
  <2>7. PuttersWait'
    <3> SUFFICES ASSUME NEW d \in Events, NEW g \in Handlers, calls'[d][g] = "putting"
                 PROVE  g \notin Threaded /\ \E c \in Events : from'[c] = <<d, g>>
      BY DEF PuttersWait
    <3>1. CASE calls[d][g] = "putting"
      <4>1. g \notin Threaded /\ \E c \in Events : from[c] = <<d, g>>
        BY <3>1 DEF HandingOn, PuttersWait
      <4>2. <<d, g>> # Nobody
        BY FileEventConstants DEF Nobody, Events
      <4> QED
        BY <2>4, <2>5, <4>1, <4>2
    <3>2. CASE calls[d][g] # "putting"
      <4>1. w = <<d, g>> /\ w # Nobody
        BY <2>6, <3>2
      <4>2. w[2] = g /\ w[2] \notin Threaded
        BY <4>1
      <4>3. from'[e] = <<d, g>>
        BY <2>5, <4>1
      <4> QED
        BY <4>2, <4>3
    <3> QED
      BY <3>1, <3>2
  <2>8. HandlersTold'
    <3> SUFFICES ASSUME NEW i \in Workers, worker[i].at = "ending", NEW g \in Handlers,
                        calls[worker[i].event][g] \in {"none", "cancelled", "abandoned"}
                 PROVE  calls'[worker[i].event][g] \in {"none", "cancelled", "abandoned"}
      BY <1>1, ToldKept DEF HandingOn
    <3>1. worker[i].event \in Events
      BY DEF TypeInv, TakenIsEvent
    <3> QED
      BY <2>6, <3>1
  <2>9. StoppedLeave'
    BY <1>1 DEF HandingOn, StoppedLeave
  <2> QED
    BY <2>7, <2>8, <2>9 DEF HandingOn
<1> QED
  BY <1>2, <1>3

LEMMA ResumingHandsOn ==
    ASSUME TypeInv, Orderly, HandingOn, NEW e \in Events, PutResumes(e)
    PROVE  HandingOn'
<1>1. /\ from' = [from EXCEPT ![e] = Nobody]
      /\ from[e] = Nobody => calls' = calls
      /\ from[e] # Nobody => calls' = [calls EXCEPT ![from[e][1]][from[e][2]] = "busy"]
      /\ UNCHANGED <<worker, stopping>>
  BY DEF PutResumes, life
<1>2. \A d \in Events : from'[d] = IF d = e THEN Nobody ELSE from[d]
  BY <1>1 DEF TypeInv, TypeOK
<1>3. \A d \in Events, g \in Handlers :
        \/ calls'[d][g] = calls[d][g] /\ from[e] # <<d, g>>
        \/ calls'[d][g] = "busy" /\ calls[d][g] = "putting"
  <2>1. CASE from[e] = Nobody
    <3>1. \A d \in Events, g \in Handlers : <<d, g>> # Nobody
      BY FileEventConstants DEF Nobody, Events
    <3> QED
      BY <1>1, <2>1, <3>1
  <2>2. CASE from[e] # Nobody
    <3>1. PICK d \in Events, g \in Handlers : from[e] = <<d, g>>
      BY <2>2 DEF TypeInv, TypeOK
    <3>2. from[e][1] = d /\ from[e][2] = g
      BY <3>1
    <3>3. calls[d][g] = "putting" /\ calls' = [calls EXCEPT ![d][g] = "busy"]
      BY <1>1, <2>2, <3>2 DEF Orderly, WaitersPut
    <3>4. \A c \in Events, k \in Handlers : calls'[c][k] = IF c = d /\ k = g THEN "busy" ELSE calls[c][k]
      BY <3>3 DEF TypeInv, TypeOK
    <3>5. \A c \in Events, k \in Handlers : from[e] = <<c, k>> => c = d /\ k = g
      BY <3>1
    <3> QED
      BY <3>3, <3>4, <3>5
  <2> QED
    BY <2>1, <2>2
<1>4. PuttersWait'
  <2> SUFFICES ASSUME NEW d \in Events, NEW g \in Handlers, calls'[d][g] = "putting"
               PROVE  g \notin Threaded /\ \E c \in Events : from'[c] = <<d, g>>
    BY DEF PuttersWait
  <2>1. calls[d][g] = "putting" /\ from[e] # <<d, g>>
    BY <1>3
  <2>2. g \notin Threaded /\ \E c \in Events : from[c] = <<d, g>>
    BY <2>1 DEF HandingOn, PuttersWait
  <2> QED
    BY <1>2, <2>1, <2>2
<1>5. HandlersTold'
  <2> SUFFICES ASSUME NEW i \in Workers, worker[i].at = "ending", NEW g \in Handlers,
                      calls[worker[i].event][g] \in {"none", "cancelled", "abandoned"}
               PROVE  calls'[worker[i].event][g] \in {"none", "cancelled", "abandoned"}
    BY <1>1, ToldKept DEF HandingOn
  <2>1. worker[i].event \in Events
    BY DEF TypeInv, TakenIsEvent
  <2> QED
    BY <1>3, <2>1
<1>6. StoppedLeave'
  BY <1>1 DEF HandingOn, StoppedLeave
<1> QED
  BY <1>4, <1>5, <1>6 DEF HandingOn

\* a new row of calls has nobody who waits in it
LEMMA DispatchHandsOn ==
    ASSUME TypeInv, Orderly, HandingOn, NEW e \in Events, NEW to, Dispatch(e, to),
           stage[e] # "processing", UNCHANGED from,
           \A i \in Workers : worker'[i].at = "ending" => worker'[i] = worker[i]
    PROVE  PuttersWait' /\ HandlersTold'
<1>1. \A d \in Events, g \in Handlers :
        calls'[d][g] = IF d = e THEN (IF g \in registered THEN "ready" ELSE "none") ELSE calls[d][g]
  BY DEF Dispatch, TypeInv, TypeOK
<1>2. PuttersWait'
  BY <1>1 DEF HandingOn, PuttersWait
<1>3. HandlersTold'
  <2> SUFFICES ASSUME NEW i \in Workers, worker[i].at = "ending", NEW g \in Handlers,
                      calls[worker[i].event][g] \in {"none", "cancelled", "abandoned"}
               PROVE  calls'[worker[i].event][g] \in {"none", "cancelled", "abandoned"}
    BY ToldKept DEF HandingOn
  <2>1. worker[i].event \in Events /\ stage[worker[i].event] = "processing"
    BY DEF TypeInv, TakenIsEvent, Orderly, HasItsEvent, Busy
  <2> QED
    BY <1>1, <2>1
<1> QED
  BY <1>2, <1>3

LEMMA InlineHandsOn ==
    ASSUME TypeInv, Orderly, HandingOn, NEW e \in Events, PublishInline(e)
    PROVE  HandingOn'
<1>1. stage[e] = "none"
  BY DEF PublishInline, New, Orderly, StagesAndCalls, TypeInv, TypeOK, Events
<1>2. Dispatch(e, "inline") /\ UNCHANGED <<from, worker, stopping>>
  BY DEF PublishInline, life
<1>3. PuttersWait' /\ HandlersTold'
  BY <1>1, <1>2, DispatchHandsOn
<1> QED
  BY <1>2, <1>3 DEF HandingOn, StoppedLeave

\* where a step of a worker takes one that was stopped
LEMMA StoppedMoves ==
    ASSUME TypeInv, Orderly, StoppedLeave, NEW i \in stopping, NEW j \in Workers, WorkerStep(j)
    PROVE  \/ worker'[i] = worker[i]
           \/ /\ worker'[i].at \in {"leaving", "taken", "processing", "ending", "over"}
              /\ StepsLeft(worker'[i].at) < StepsLeft(worker[i].at)
<1>1. i \in Workers /\ ~running /\ worker[i].at \in {"leaving", "taken", "processing", "ending", "over"}
  BY DEF TypeInv, TypeOK, Orderly, OneWorker, StoppedLeave
<1>2. CASE j # i
  <2>1. \A at, e : Goes(j, at, e) => worker'[i] = worker[i]
    BY <1>1, <1>2, GoesIs
  <2>2. Loops(j) => worker'[i] = worker[i]
    BY <1>1, <1>2, LoopsIs
  <2> QED
    BY <2>1, <2>2 DEF WorkerStep, WorkerBegins, Get, Take, GetTimesOut, Process, Processed, Leave
<1>3. CASE j = i
  <2>1. Loops(i) => worker'[i].at = "over"
    BY <1>1, LoopsIs
  <2>2. \A at, e : Goes(i, at, e) => worker'[i].at = at
    BY <1>1, GoesIs
  <2>3. ~WorkerBegins(i) /\ ~Get(i) /\ ~GetTimesOut(i)
    BY <1>1 DEF WorkerBegins, Get, GetTimesOut
  <2>4. CASE Process(i)
    BY <2>1, <2>2, <2>4 DEF Process, StepsLeft
  <2>5. CASE Processed(i)
    BY <2>1, <2>2, <2>5 DEF Processed, StepsLeft
  <2>6. CASE Leave(i)
    BY <2>2, <2>6 DEF Leave, StepsLeft
  <2> QED
    BY <1>3, <2>3, <2>4, <2>5, <2>6 DEF WorkerStep
<1> QED
  BY <1>2, <1>3

LEMMA WorkersHandOn ==
    ASSUME TypeInv, Orderly, HandingOn, NEW i \in Workers, WorkerStep(i)
    PROVE  HandingOn'
<1>1. stopping' = stopping /\ from' = from
  BY DEF WorkerStep, WorkerBegins, Get, GetTimesOut, Process, Processed, Leave, life
<1>2. StoppedLeave'
  BY <1>1, StoppedMoves DEF HandingOn, StoppedLeave
<1>3. \A j \in Workers : worker'[j].at = "ending" => worker'[j] = worker[j]
  <2>1. \A at, e : Goes(i, at, e) => worker'[i].at = at /\ \A j \in Workers : j # i => worker'[j] = worker[j]
    BY GoesIs
  <2>2. Loops(i) => worker'[i].at \in {"getting", "over"} /\ \A j \in Workers : j # i => worker'[j] = worker[j]
    BY LoopsIs
  <2>3. \/ Loops(i)
        \/ \E at \in {"taken", "over", "processing"}, e \in 0..MaxEvents \cup Events : Goes(i, at, e)
    <3>1. CASE Get(i)
      <4>1. Head(queue) \in Events
        BY <3>1 DEF Get, Take, TypeInv, TypeOK
      <4> QED
        BY <3>1, <4>1 DEF Get, Take
    <3>2. CASE Process(i)
      BY <3>2 DEF Process, TypeInv, TakenIsEvent
    <3>3. CASE Processed(i) \/ Leave(i)
      BY <3>3, FileEventConstants DEF Processed, Leave
    <3> QED
      BY <3>1, <3>2, <3>3 DEF WorkerStep, WorkerBegins, GetTimesOut
  <2> QED
    BY <2>1, <2>2, <2>3
<1>4. PuttersWait' /\ HandlersTold'
  <2>1. CASE Process(i)
    <3>1. worker[i].event \in Events /\ stage[worker[i].event] = "taken"
      BY <2>1 DEF Process, TypeInv, TakenIsEvent, Orderly, HasItsEvent
    <3>2. Dispatch(worker[i].event, "processing")
      BY <2>1 DEF Process
    <3> QED
      BY <1>1, <1>3, <3>1, <3>2, DispatchHandsOn
  <2>2. CASE calls' = calls
    BY <1>1, <1>3, <2>2, ToldKept DEF HandingOn, PuttersWait
  <2> QED
    BY <2>1, <2>2 DEF WorkerStep, WorkerBegins, Get, GetTimesOut, Processed, Leave
<1> QED
  BY <1>2, <1>4 DEF HandingOn

\* cancelling its gather tells every handler of the event
LEMMA CancellingHandsOn ==
    ASSUME TypeInv, HandingOn, NEW e \in Events, CancelHandlers(e)
    PROVE  /\ PuttersWait'
           /\ \A h \in Handlers : calls'[e][h] \in {"none", "cancelled", "abandoned"}
           /\ \A d \in Events \ {e} : calls'[d] = calls[d]
<1>1. /\ \A d \in Events, h \in Handlers :
           calls'[d][h] = IF d = e THEN CancelledCall(h, calls[e][h]) ELSE calls[d][h]
      /\ \A d \in Events \ {e} : calls'[d] = calls[d]
      /\ \A d \in Events : from[d][1] # e => from'[d] = from[d]
  BY DEF CancelHandlers, TypeInv, TypeOK
<1>2. ASSUME NEW h \in Handlers PROVE calls'[e][h] \in {"none", "cancelled", "abandoned"}
  <2>1. calls[e][h] \in CallStates /\ (calls[e][h] = "putting" => h \notin Threaded)
    BY DEF TypeInv, TypeOK, HandingOn, PuttersWait
  <2>2. calls'[e][h] = CancelledCall(h, calls[e][h])
    BY <1>1
  <2> QED
    BY <2>1, <2>2 DEF CancelledCall, CallStates
<1>3. PuttersWait'
  <2> SUFFICES ASSUME NEW d \in Events, NEW g \in Handlers, calls'[d][g] = "putting"
               PROVE  g \notin Threaded /\ \E c \in Events : from'[c] = <<d, g>>
    BY DEF PuttersWait
  <2>1. d # e /\ calls[d][g] = "putting"
    BY <1>1, <1>2
  <2>2. g \notin Threaded
    BY <2>1 DEF HandingOn, PuttersWait
  <2>3. PICK c \in Events : from[c] = <<d, g>>
    BY <2>1 DEF HandingOn, PuttersWait
  <2>4. from[c][1] = d
    BY <2>3
  <2> QED
    BY <1>1, <2>1, <2>2, <2>3, <2>4
<1> QED
  BY <1>1, <1>2, <1>3

LEMMA StopHandsOn ==
    ASSUME TypeInv, Orderly, HandingOn, NEW i \in Workers, Stop(i)
    PROVE  HandingOn'
<1>1. stopping = {} /\ stopping' = {i}
  BY DEF Stop, Orderly, OneWorker
<1>2. CASE /\ worker[i].at \in {"new", "getting"} /\ Goes(i, "leaving", 0)
           /\ UNCHANGED <<stage, from, queue, calls>>
  <2>1. worker'[i].at = "leaving" /\ \A j \in Workers : j # i => worker'[j] = worker[j]
    BY <1>2, GoesIs
  <2>2. HandlersTold'
    BY <1>2, <2>1, ToldKept DEF HandingOn
  <2> QED
    BY <1>1, <1>2, <2>1, <2>2 DEF HandingOn, PuttersWait, StoppedLeave
<1>3. CASE worker[i].at = "getting" /\ Take(i) /\ UNCHANGED <<from, calls>>
  <2>1. worker'[i].at = "taken" /\ \A j \in Workers : j # i => worker'[j] = worker[j]
    BY <1>3, GoesIs DEF Take
  <2>2. HandlersTold'
    BY <1>3, <2>1, ToldKept DEF HandingOn
  <2> QED
    BY <1>1, <1>3, <2>1, <2>2 DEF HandingOn, PuttersWait, StoppedLeave
<1>4. CASE worker[i].at = "taken" /\ UNCHANGED <<stage, from, queue, calls, worker>>
  <2>1. HandlersTold'
    BY <1>4, ToldKept DEF HandingOn
  <2> QED
    BY <1>1, <1>4, <2>1 DEF HandingOn, PuttersWait, StoppedLeave
<1>5. CASE /\ worker[i].at = "processing" /\ CancelHandlers(worker[i].event)
           /\ Goes(i, "ending", worker[i].event)
  <2>1. /\ worker'[i].at = "ending" /\ worker'[i].event = worker[i].event
        /\ \A j \in Workers : j # i => worker'[j] = worker[j]
    BY <1>5, GoesIs
  <2>2. worker[i].event \in Events
    BY <1>5 DEF TypeInv, TakenIsEvent
  <2>3. /\ PuttersWait'
        /\ \A h \in Handlers : calls'[worker[i].event][h] \in {"none", "cancelled", "abandoned"}
        /\ \A d \in Events \ {worker[i].event} : calls'[d] = calls[d]
    BY <1>5, <2>2, CancellingHandsOn
  <2>4. HandlersTold'
    <3> SUFFICES ASSUME NEW j \in Workers, worker'[j].at = "ending", NEW h \in Handlers
                 PROVE  calls'[worker'[j].event][h] \in {"none", "cancelled", "abandoned"}
      BY DEF HandlersTold
    <3>1. CASE j = i
      BY <2>1, <2>3, <3>1
    <3>2. CASE j # i
      <4>1. worker'[j] = worker[j] /\ worker[j].at = "ending" /\ worker[j].event \in Events
        BY <2>1, <3>2 DEF TypeInv, TakenIsEvent
      <4>2. calls[worker[j].event][h] \in {"none", "cancelled", "abandoned"}
        BY <4>1 DEF HandingOn, HandlersTold
      <4> QED
        BY <2>3, <4>1, <4>2
    <3> QED
      BY <3>1, <3>2
  <2> QED
    BY <1>1, <2>1, <2>3, <2>4 DEF HandingOn, StoppedLeave
<1> QED
  BY <1>2, <1>3, <1>4, <1>5 DEF Stop

LEMMA ReturningHandsOn ==
    ASSUME TypeInv, HandingOn, NEW i \in Workers, StopReturns(i)
    PROVE  HandingOn'
<1>1. /\ stopping' = stopping \ {i} /\ UNCHANGED <<from, worker>>
      /\ \A e \in Events, h \in Handlers : calls'[e][h] = IF calls[e][h] = "abandoned" THEN "none" ELSE calls[e][h]
  BY DEF StopReturns
<1>2. PuttersWait'
  BY <1>1 DEF HandingOn, PuttersWait
<1>3. HandlersTold'
  <2> SUFFICES ASSUME NEW j \in Workers, worker[j].at = "ending", NEW g \in Handlers,
                      calls[worker[j].event][g] \in {"none", "cancelled", "abandoned"}
               PROVE  calls'[worker[j].event][g] \in {"none", "cancelled", "abandoned"}
    BY <1>1, ToldKept DEF HandingOn
  <2>1. worker[j].event \in Events
    BY DEF TypeInv, TakenIsEvent
  <2> QED
    BY <1>1, <2>1
<1> QED
  BY <1>1, <1>2, <1>3 DEF HandingOn, StoppedLeave

LEMMA StartHandsOn ==
    ASSUME TypeInv, HandingOn, NEW i \in Workers, Start(i), ~overlapped'
    PROVE  HandingOn'
<1>1. stopping' = {} /\ Goes(i, "new", 0) /\ UNCHANGED <<calls, from>>
  BY DEF Start
<1>2. worker'[i].at = "new" /\ \A j \in Workers : j # i => worker'[j] = worker[j]
  BY <1>1, GoesIs
<1>3. HandlersTold'
  BY <1>1, <1>2, ToldKept DEF HandingOn
<1> QED
  BY <1>1, <1>3 DEF HandingOn, PuttersWait, StoppedLeave

LEMMA HandingOnStep == TypeInv /\ Orderly /\ HandingOn /\ [Next]_vars /\ ~overlapped' => HandingOn'
<1> SUFFICES ASSUME TypeInv, Orderly, HandingOn, [Next]_vars, ~overlapped' PROVE HandingOn'
  OBVIOUS
<1>1. ASSUME NEW h \in Handlers, RegisterHandler(h) \/ UnregisterHandler(h) PROVE HandingOn'
  BY <1>1, HandingUntouched DEF RegisterHandler, UnregisterHandler, life
<1>2. CASE ClearHistory \/ UNCHANGED vars
  BY <1>2, HandingUntouched DEF ClearHistory, vars, life
<1>3. ASSUME NEW e \in Events, InlineEnds(e) PROVE HandingOn'
  BY <1>3, HandingUntouched DEF InlineEnds, life
<1>4. ASSUME NEW e \in Events, Publish(e) PROVE HandingOn'
  BY <1>4, PutHandsOn DEF Publish
<1>5. ASSUME NEW e \in Events, NEW d \in Events, NEW h \in Handlers, HandlerPublishes(e, d, h) PROVE HandingOn'
  <2>1. <<d, h>> \in {Nobody} \cup (Events \X Handlers) /\ <<d, h>>[1] = d /\ <<d, h>>[2] = h
    OBVIOUS
  <2> QED
    BY <1>5, <2>1, PutHandsOn DEF HandlerPublishes
<1> QED
  BY <1>1, <1>2, <1>3, <1>4, <1>5, HandlersHandOn, ResumingHandsOn, InlineHandsOn, WorkersHandOn,
     StartHandsOn, StopHandsOn, ReturningHandsOn DEF Next

LEMMA HInvStep == HInv /\ [Next]_vars => HInv'
BY InductiveStep, HandingOnStep, OverlapStays DEF HInv, IInv

LEMMA HInvInit == Init => HInv
BY TypesInitially, OrderInitially, HandingOnInitially DEF HInv, IInv

\* Unless a start() overtook a stop(), a worker that handles an event waits for
\* something that can go on: a handler that runs, will run or was cancelled, or
\* one that waits for room where there is some.  Only a handler that waits for
\* room in the full queue is waited for in vain.  (_event_worker, publish_event.)
THEOREM WorkersAlwaysGetOn == Spec => [](~overlapped => WorkerGetsOn)
<1>1. HInv => (~overlapped => WorkerGetsOn)
  <2> SUFFICES ASSUME HInv, ~overlapped, NEW i \in Workers, Busy(i),
                      ~Ended(worker[i].event),
                      \A h \in Handlers : calls[worker[i].event][h] \notin {"ready", "busy", "cancelled"},
                      ~Stuck
               PROVE  \E d \in Events : /\ stage[d] = "waiting" /\ Len(queue) < MaxQueue
                                        /\ from[d][1] = worker[i].event
    BY DEF WorkerGetsOn
  <2>1. worker[i].event \in Events /\ stage[worker[i].event] = "processing"
    BY DEF HInv, IInv, TypeInv, TakenIsEvent, Orderly, HasItsEvent, Busy
  <2>2. PICK h \in Handlers : calls[worker[i].event][h] = "putting"
    BY <2>1 DEF HInv, IInv, TypeInv, TypeOK, CallStates, Ended
  <2>3. Len(queue) \in Nat /\ MaxQueue \in Nat /\ Len(queue) <= MaxQueue /\ Len(queue) # MaxQueue
    BY <2>1, <2>2, FileEventConstants DEF HInv, IInv, TypeInv, TypeOK, Stuck
  <2>4. PICK d \in Events : from[d] = <<worker[i].event, h>>
    BY <2>1, <2>2 DEF HInv, HandingOn, PuttersWait
  <2>5. from[d] # Nobody /\ from[d][1] = worker[i].event
    BY <2>1, <2>4, FileEventConstants DEF Nobody, Events
  <2>6. stage[d] = "waiting"
    BY <2>5 DEF HInv, IInv, Orderly, WaitersPut
  <2> QED
    BY <2>3, <2>5, <2>6
<1> QED
  BY <1>1, HInvInit, HInvStep, PTL DEF Spec

LEMMA StoppedStep ==
    ASSUME HInv, ~overlapped, Next, NEW i \in stopping
    PROVE  worker'[i] = worker[i] \/ StepsLeft(worker'[i].at) < StepsLeft(worker[i].at)
<1>1. ASSUME NEW j \in Workers, WorkerStep(j)
      PROVE  worker'[i] = worker[i] \/ StepsLeft(worker'[i].at) < StepsLeft(worker[i].at)
  BY <1>1, StoppedMoves DEF HInv, IInv, HandingOn
<1>2. ASSUME NEW j \in Workers, Start(j) PROVE worker'[i] = worker[i]
  <2>1. i = started /\ j = started + 1 /\ i \in Nat /\ Goes(j, "new", 0) /\ i \in Workers
    BY <1>2, FileEventConstants DEF Start, HInv, IInv, Orderly, OneWorker, TypeInv, TypeOK, Workers
  <2>2. i # j
    BY <2>1
  <2> QED
    BY <2>1, <2>2, GoesIs DEF HInv, IInv
<1>3. ASSUME NEW j \in Workers, Stop(j) PROVE FALSE
  BY <1>3 DEF Stop, HInv, IInv, Orderly, OneWorker
<1>4. ASSUME NEW j \in Workers, StopReturns(j) PROVE worker'[i] = worker[i]
  BY <1>4 DEF StopReturns
<1>5. ASSUME NEW e \in Events, Publish(e) \/ PutResumes(e) \/ PublishInline(e) \/ InlineEnds(e)
      PROVE  worker'[i] = worker[i]
  BY <1>5 DEF Publish, PutResumes, PublishInline, InlineEnds
<1>6. ASSUME NEW e \in Events, NEW d \in Events, NEW h \in Handlers, HandlerPublishes(e, d, h) \/ HandlerStep(e, h)
      PROVE  worker'[i] = worker[i]
  BY <1>6 DEF HandlerPublishes, HandlerStep, HandlerBegins, HandlerEnds, Called
<1>7. ASSUME NEW h \in Handlers, RegisterHandler(h) \/ UnregisterHandler(h) \/ ClearHistory
      PROVE  worker'[i] = worker[i]
  BY <1>7 DEF RegisterHandler, UnregisterHandler, ClearHistory
<1>8. CASE ClearHistory
  BY <1>8 DEF ClearHistory
<1> QED
  BY <1>1, <1>2, <1>3, <1>4, <1>5, <1>6, <1>7, <1>8 DEF Next

\* Every step of a worker that was stopped takes it nearer to its end, wherever
\* it was when it was cancelled, also if the cancellation was dropped: until a
\* start() overtakes it, stop() waits for a few steps at most.  (stop, _event_worker.)
THEOREM StopsAlwaysDrawNear == Spec => StopsDrawNear
<1>1. HInv /\ [Next]_vars =>
        [~overlapped => \A i \in stopping :
           worker'[i] = worker[i] \/ StepsLeft(worker'[i].at) < StepsLeft(worker[i].at)]_vars
  BY StoppedStep
<1> QED
  BY <1>1, HInvInit, HInvStep, PTL DEF Spec, StopsDrawNear
=============================================================================
