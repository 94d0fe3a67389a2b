----------------------------- MODULE SkillEvents -----------------------------
(***************************************************************************)
(* SkillEventManager (backend/app/skill/event_manager.py): the handlers of *)
(* one event type, the global handlers, the history, and the delivery of   *)
(* events by publish_event.                                                *)
(*                                                                         *)
(* A delivery walks the two lists themselves, not copies, and may suspend  *)
(* in every handler it awaits; the lock guards the history only and is     *)
(* never held across a suspension.  A handler that raises is logged and    *)
(* counts as called.                                                       *)
(***************************************************************************)
EXTENDS Integers, Sequences, SequencesExt

CONSTANTS
    Publishers,   \* coroutines that publish
    Handlers,
    MaxHistorySize,  \* _max_history_size
    Uses,         \* what clients use of "unregister", "clear", "query", "clear_history"
    MaxEvents     \* bound: events in a behaviour

ASSUME EventConstants ==
    /\ MaxHistorySize \in Nat \ {0}
    /\ MaxEvents \in Nat

Kinds == {"typed", "global"}

VARIABLES
    lists,     \* _handlers[event_type] and _global_handlers
    history,   \* _event_history: events are known by their timestamps
    clock,     \* the latest timestamp
    cleared,   \* history: the clock when the history was last cleared
    running,   \* the handler each publisher awaits: kind of list and index
    detached,  \* <<the typed list a publisher still walks>> once it was dropped
    calls,     \* history: calls of each handler by the delivery under way
    watching,  \* history: handlers registered ever since it began
    disturbed  \* history: whether a handler was taken off meanwhile

delivery == <<running, detached, calls, watching, disturbed>>
vars == <<lists, history, clock, cleared, delivery>>

Idle == <<"idle", 0>>
Listed(kind) == ToSet(lists[kind])

TypeOK ==
    /\ lists \in [Kinds -> Seq(Handlers)]
    /\ history \in Seq(1..MaxEvents)
    /\ clock \in 0..MaxEvents /\ cleared \in 0..MaxEvents
    /\ running \in [Publishers -> {Idle} \cup (Kinds \X (Nat \ {0}))]
    /\ detached \in [Publishers -> Seq(Seq(Handlers))]
    /\ calls \in [Publishers -> [Kinds -> [Handlers -> Nat]]]
    /\ watching \in [Publishers -> [Kinds -> SUBSET Handlers]]
    /\ disturbed \in [Publishers -> BOOLEAN]
    /\ \A p \in Publishers : detached[p] # <<>> => running[p][1] = "typed"

NoCalls == [k \in Kinds |-> [h \in Handlers |-> 0]]

Init ==
    /\ lists = [k \in Kinds |-> <<>>]
    /\ history = <<>>
    /\ clock = 0 /\ cleared = 0
    /\ running = [p \in Publishers |-> Idle]
    /\ detached = [p \in Publishers |-> <<>>]
    /\ calls = [p \in Publishers |-> NoCalls]
    /\ watching = [p \in Publishers |-> [k \in Kinds |-> {}]]
    /\ disturbed = [p \in Publishers |-> FALSE]

-----------------------------------------------------------------------------
(* publish_event *)

TrimTail(h) == IF Len(h) > MaxHistorySize THEN SubSeq(h, 1, MaxHistorySize) ELSE h
Trim(h) == IF Len(h) > MaxHistorySize
           THEN SubSeq(h, Len(h) - MaxHistorySize + 1, Len(h)) ELSE h

\* the list p walks while it serves the handlers of the type
Walked(p) == IF detached[p] = <<>> THEN lists["typed"] ELSE detached[p][1]

\* the handler to be awaited after entry i of the kind of list
FollowingAgain(p, kind, i) ==
    CASE kind = "typed" /\ i < Len(Walked(p)) -> <<"typed", i + 1>>
      [] i < Len(lists["global"])             -> <<"global", i + 1>>
      [] OTHER                                -> Idle
Following(p, kind, i) ==
    CASE kind = "typed" /\ i < Len(Walked(p))            -> <<"typed", i + 1>>
      [] kind = "typed" /\ i >= Len(Walked(p))
           /\ lists["global"] # <<>>                     -> <<"global", 1>>
      [] kind = "global" /\ i < Len(lists["global"])     -> <<"global", i + 1>>
      [] OTHER                                           -> Idle

Handler(p, at) == IF at[1] = "typed" THEN Walked(p)[at[2]] ELSE lists["global"][at[2]]

\* p calls the next handler, without a suspension in between, or is done
Advance(p, at, counts) ==
    /\ running' = [running EXCEPT ![p] = at]
    /\ detached' = [detached EXCEPT ![p] = IF at[1] = "typed" THEN @ ELSE <<>>]
    /\ calls' = [calls EXCEPT ![p] =
                   IF at = Idle THEN NoCalls
                   ELSE [counts EXCEPT ![at[1]][Handler(p, at)] = @ + 1]]

PublishEvent(p) ==
    /\ running[p] = Idle
    /\ clock < MaxEvents
    /\ clock' = clock + 1
    /\ history' = Trim(Append(history, clock + 1))
    /\ Advance(p, Following(p, "typed", 0), NoCalls)
    /\ watching' = [watching EXCEPT ![p] = [k \in Kinds |->
                       IF running'[p] = Idle THEN {} ELSE Listed(k)]]
    /\ UNCHANGED disturbed
    /\ UNCHANGED <<lists, cleared>>

\* the awaited handler returned or raised
HandlerReturns(p) ==
    /\ running[p] # Idle
    /\ Advance(p, Following(p, running[p][1], running[p][2]), calls[p])
    /\ LET done == running'[p] = Idle
       IN  /\ watching' = [watching EXCEPT ![p] =
                             IF done THEN [k \in Kinds |-> {}] ELSE @]
           /\ disturbed' = [disturbed EXCEPT ![p] = @ /\ ~done]
    /\ UNCHANGED <<lists, history, clock, cleared>>

-----------------------------------------------------------------------------
(* register_handler, unregister_handler, clear_handlers and their global     *)
(* counterparts.  A handler is registered once in each list (bound).         *)

Register(kind, h) ==
    /\ h \notin Listed(kind)
    /\ lists' = [lists EXCEPT ![kind] = Append(@, h)]
    /\ UNCHANGED <<history, clock, cleared, delivery>>

\* the deliveries under way no longer owe a call to the handlers of gone
TakenOff(gone) ==
    /\ watching' = [p \in Publishers |-> [k \in Kinds |-> watching[p][k] \ gone[k]]]
    /\ disturbed' = [p \in Publishers |-> running[p] # Idle]

Unregister(kind, h) ==
    /\ "unregister" \in Uses
    /\ \E i \in DOMAIN lists[kind] :
         /\ lists[kind][i] = h
         /\ lists' = [lists EXCEPT ![kind] = RemoveAt(@, i)]
    /\ TakenOff([k \in Kinds |-> IF k = kind THEN {h} ELSE {}])
    /\ UNCHANGED <<history, clock, cleared, running, detached, calls>>

\* the typed list is dropped, the global one is emptied in place: whoever
\* walks the typed list goes on with it
ClearHandlers(kinds) ==
    /\ "clear" \in Uses
    /\ lists' = [k \in Kinds |-> IF k \in kinds THEN <<>> ELSE lists[k]]
    /\ detached' = [p \in Publishers |->
                      IF running[p][1] = "typed" THEN <<Walked(p)>> ELSE <<>>]
    /\ TakenOff([k \in Kinds |-> IF k \in kinds THEN Listed(k) ELSE {}])
    /\ UNCHANGED <<history, clock, cleared, running, calls>>

-----------------------------------------------------------------------------
(* get_event_history and clear_event_history *)

NewestFirst(h) ==
    {s \in [DOMAIN h -> ToSet(h)] : /\ ToSet(s) = ToSet(h)
                                   /\ \A i, j \in DOMAIN h : i < j => s[i] > s[j]}

\* without a filter the history itself is sorted
QueryHistory ==
    /\ "query" \in Uses
    /\ history' \in NewestFirst(history)
    /\ UNCHANGED <<lists, clock, cleared, delivery>>

ClearHistory ==
    /\ "clear_history" \in Uses
    /\ history' = <<>>
    /\ cleared' = clock
    /\ UNCHANGED <<lists, clock, delivery>>

Next ==
    \/ \E p \in Publishers : PublishEvent(p) \/ HandlerReturns(p)
    \/ \E k \in Kinds, h \in Handlers : Register(k, h) \/ Unregister(k, h)
    \/ \E kinds \in {{"typed"}, Kinds} : ClearHandlers(kinds)
    \/ QueryHistory \/ ClearHistory

Spec == Init /\ [][Next]_vars

-----------------------------------------------------------------------------
(* Properties *)

\* p has just served its last handler
Done(p) == running[p] # Idle /\ running'[p] = Idle

\* A handler that stays registered during a delivery is called once by it: at
\* most once however the lists change, and at least once if no handler is
\* taken off meanwhile, whatever is added.
CalledOnce ==
    [][\A p \in Publishers : Done(p) =>
         \A k \in Kinds, h \in Handlers :
            h \in watching[p][k] => /\ calls[p][k][h] <= 1
                                    /\ ~disturbed[p] => calls[p][k][h] = 1]_vars

\* The history holds no event twice and none from before it was cleared, never
\* exceeds its limit, and always has the event published last.
HistorySound ==
    /\ Len(history) <= MaxHistorySize
    /\ IsInjective(history)
    /\ \A t \in ToSet(history) : t > cleared
    /\ clock > cleared => clock \in ToSet(history)
=============================================================================
