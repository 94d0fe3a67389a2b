----------------------------- MODULE LevelCache -----------------------------
(***************************************************************************)
(* MultiLevelCache (backend/app/progress/multi_level_cache.py) in several  *)
(* processes: each has its own memory (L1), all share Redis (L2).          *)
(*                                                                         *)
(* L1 is changed without a suspension.  A command of Redis is executed at  *)
(* one time and its answer awaited: a task reads L1, has the command       *)
(* executed, and goes on later.  Nothing orders the commands of different  *)
(* tasks, and no process hears of another's writes.  Expiry is a step that *)
(* may come at any time, since time to live is a parameter of every put.   *)
(* CacheInvalidator (cache_invalidation.py) deletes through the cache.     *)
(***************************************************************************)
EXTENDS Integers, Sequences, FiniteSets, SequencesExt

CONSTANTS
    Procs, Tasks, Keys, Values, None,
    Asked,     \* the processes and keys of the calls a task makes
    Given,     \* the values they put under a key
    Warms,     \* tasks that warm the cache and delete
    Managed,   \* processes that are cleared, frozen and restarted
    Json,      \* what json.dumps(default=str) and json.loads make of a value
    MaxSize,   \* max_size of L1
    Policy,    \* eviction_policy of the L1 of each process
    MaxUses    \* bound: hits of an entry where the policy counts them

ASSUME CacheConstants ==
    /\ Asked \in [Tasks -> SUBSET (Procs \X Keys)]
    /\ Warms \subseteq Tasks /\ Managed \subseteq Procs
    /\ Given \in [Keys -> SUBSET Values]
    /\ Json \in [Values -> Values]
    /\ None \notin Values /\ None \notin Keys /\ None \notin Procs
    /\ MaxSize \in Nat \ {0} /\ MaxUses \in Nat
    /\ Policy \in [Procs -> {"lru", "fifo", "lfu", "ttl"}]

VARIABLES
    l1,       \* MemoryCache._cache of each process: the values
    order,    \* the order of its keys
    uses,     \* access_count of its entries (where the policy reads it)
    l2,       \* the entries in Redis
    frozen,   \* the processes whose event loop waits for a lock it holds
    task,     \* the call each task is in
    lone,     \* history: tasks whose call has met no other on its key
    settled   \* history: process and value of the last write of a key, if it
              \* met no other call and no error

levels == <<l1, order, uses, l2>>
vars == <<levels, frozen, task, lone, settled>>

Stored == Values \cup {None}
Idle == [at |-> "idle", proc |-> None, key |-> None, value |-> None, warm |-> FALSE]
Unsettled == <<None, None>>

\* the places of a call: on its way to Redis, back with what Redis said,
\* waiting for the value to warm the cache with, returning a value
Waiting == {"reading", "read", "fetching", "writing", "deleting"}
CallStates == [at : Waiting \cup {"idle", "answered"}, proc : Procs \cup {None}, key : Keys \cup {None},
          value : Stored, warm : BOOLEAN]

Init ==
    /\ l1 = [p \in Procs |-> [k \in Keys |-> None]]
    /\ order = [p \in Procs |-> <<>>]
    /\ uses = [p \in Procs |-> [k \in Keys |-> 0]]
    /\ l2 = [k \in Keys |-> None]
    /\ frozen = {}
    /\ task = [t \in Tasks |-> Idle]
    /\ lone = {}
    /\ settled = [k \in Keys |-> Unsettled]

-----------------------------------------------------------------------------
(* MemoryCache *)

Held(p) == {k \in Keys : l1[p][k] # None}

\* the place in the order of what _evict_entry removes; under "ttl" nothing
Victim(p) ==
    CASE order[p] = <<>> \/ Policy[p] = "ttl" -> 0
      [] order[p] # <<>> /\ Policy[p] \in {"lru", "fifo"} -> 1
      [] order[p] # <<>> /\ Policy[p] = "lfu" ->
           SelectInSeq(order[p], LAMBDA k : \A j \in Held(p) : uses[p][k] <= uses[p][j])

FullLate(p) == Len(order[p]) > MaxSize
Full(p) == Len(order[p]) >= MaxSize

\* MemoryCache.put; a key that is there keeps its place
MemoryPut(p, k, v) ==
    LET at == IF l1[p][k] = None /\ Full(p) THEN Victim(p) ELSE 0
        out == IF at = 0 THEN {} ELSE {order[p][at]}
        left == IF at = 0 THEN order[p] ELSE RemoveAt(order[p], at)
    IN  /\ l1' = [l1 EXCEPT ![p] = [j \in Keys |-> IF j = k THEN v
                                                  ELSE IF j \in out THEN None ELSE @[j]]]
        /\ order' = [order EXCEPT ![p] = IF l1[p][k] = None THEN Append(left, k) ELSE @]
        /\ uses' = [uses EXCEPT ![p] = [j \in Keys |-> IF j \in out \cup {k} THEN 0 ELSE @[j]]]

MemoryDelete(p, k) ==
    /\ l1' = [l1 EXCEPT ![p][k] = None]
    /\ order' = [order EXCEPT ![p] = RemoveFirst(@, k)]
    /\ uses' = [uses EXCEPT ![p][k] = 0]

\* MemoryCache.get of an entry that has not expired
MemoryHit(p, k) ==
    /\ l1[p][k] # None
    /\ Policy[p] = "lfu" => uses[p][k] < MaxUses
    /\ order' = [order EXCEPT ![p] = Append(RemoveFirst(@, k), k)]
    /\ uses' = [uses EXCEPT ![p][k] = IF Policy[p] = "lfu" THEN @ + 1 ELSE 0]
    /\ UNCHANGED l1

\* ... of a key that is not there, or whose entry has expired and is dropped
MemoryMiss(p, k) ==
    \/ l1[p][k] = None /\ UNCHANGED <<l1, order, uses>>
    \/ l1[p][k] # None /\ MemoryDelete(p, k)

MemoryClear(p) ==
    /\ l1' = [l1 EXCEPT ![p] = [k \in Keys |-> None]]
    /\ order' = [order EXCEPT ![p] = <<>>]
    /\ uses' = [uses EXCEPT ![p] = [k \in Keys |-> 0]]

-----------------------------------------------------------------------------
(* The calls *)

Runs(p) == p \notin frozen
CanCall(t, p, k) == Runs(p) /\ task[t] = Idle /\ <<p, k>> \in Asked[t]
Calls(t, at, p, k, v, warm) == task' = [task EXCEPT ![t] =
    [at |-> at, proc |-> p, key |-> k, value |-> v, warm |-> warm]]
GoesOn(t, at, v) == task' = [task EXCEPT ![t].at = at, ![t].value = v]
Returns(t) == task' = [task EXCEPT ![t] = Idle]

\* the calls on k that wait for something
Busy(k) == {t \in Tasks : task[t].key = k /\ task[t].at \in Waiting}
Meets(t, k) == lone' = IF Busy(k) = {} THEN lone \cup {t} ELSE lone \ (Busy(k) \cup {t})

\* get: L1 first.  warm_cache starts with a get
GetHit(t, p, k, warm) ==
    /\ CanCall(t, p, k)
    /\ warm => t \in Warms
    /\ MemoryHit(p, k)
    /\ IF warm THEN Returns(t) ELSE Calls(t, "answered", p, k, l1[p][k], FALSE)
    /\ UNCHANGED <<l2, frozen, lone, settled>>
GetMiss(t, p, k, warm) ==
    /\ CanCall(t, p, k)
    /\ warm => t \in Warms
    /\ MemoryMiss(p, k)
    /\ Calls(t, "reading", p, k, None, warm)
    /\ Meets(t, k)
    /\ UNCHANGED <<l2, frozen, settled>>

\* Redis executes the GET; without an entry, or if it fails, there is no value
RedisGet(t) ==
    /\ task[t].at = "reading"
    /\ \E v \in {l2[task[t].key], None} : GoesOn(t, "read", v)
    /\ UNCHANGED <<levels, frozen, lone, settled>>

\* the answer is there: it is promoted to L1 and returned
PromoteThrough(t) ==
    /\ MemoryPut(task[t].proc, task[t].key, task[t].value)
    /\ l2' = [l2 EXCEPT ![task[t].key] = Json[task[t].value]]
Promote(t) == MemoryPut(task[t].proc, task[t].key, task[t].value) /\ UNCHANGED l2
GotValue(t) ==
    /\ task[t].at = "read" /\ task[t].value # None
    /\ Runs(task[t].proc)
    /\ Promote(t)
    /\ IF task[t].warm THEN Returns(t)
       ELSE GoesOn(t, "answered", task[t].value)
    /\ lone' = lone \ {t}
    /\ UNCHANGED <<frozen, settled>>
\* or it is not, and a warming goes on to fetch_func
GotNone(t) ==
    /\ task[t].at = "read" /\ task[t].value = None
    /\ Runs(task[t].proc)
    /\ IF task[t].warm THEN GoesOn(t, "fetching", None) /\ UNCHANGED lone
       ELSE Returns(t) /\ lone' = lone \ {t}
    /\ UNCHANGED <<levels, frozen, settled>>
Answered(t) ==
    /\ task[t].at = "answered"
    /\ Runs(task[t].proc)
    /\ Returns(t)
    /\ UNCHANGED <<levels, frozen, lone, settled>>

\* put: L1, then SETEX
Put(t, p, k, v) ==
    /\ CanCall(t, p, k)
    /\ MemoryPut(p, k, v)
    /\ Calls(t, "writing", p, k, v, FALSE)
    /\ Meets(t, k)
    /\ settled' = [settled EXCEPT ![k] = Unsettled]
    /\ UNCHANGED <<l2, frozen>>
\* fetch_func returns a value, which is put, or nothing, or raises
Fetched(t, k, v) ==
    /\ task[t].at = "fetching" /\ task[t].key = k
    /\ Runs(task[t].proc)
    /\ MemoryPut(task[t].proc, k, v)
    /\ GoesOn(t, "writing", v)
    /\ settled' = [settled EXCEPT ![k] = Unsettled]
    /\ UNCHANGED <<l2, frozen, lone>>
FetchedNothing(t) ==
    /\ task[t].at = "fetching"
    /\ Runs(task[t].proc)
    /\ Returns(t)
    /\ lone' = lone \ {t}
    /\ UNCHANGED <<levels, frozen, settled>>

\* Redis executes the command and the call returns; an error is swallowed,
\* whether the command was executed or not
RedisWrite(t, v) ==
    /\ Returns(t)
    /\ lone' = lone \ {t}
    /\ \/ /\ l2' = [l2 EXCEPT ![task[t].key] = v]
          /\ settled' = [settled EXCEPT ![task[t].key] =
                           IF t \in lone THEN <<task[t].proc, task[t].value>> ELSE Unsettled]
       \/ UNCHANGED <<l2, settled>>
    /\ UNCHANGED <<l1, order, uses, frozen>>
RedisSetOnce(t) ==
    /\ task[t].at = "writing"
    /\ LET there == l2[task[t].key]
       IN  RedisWrite(t, IF there = None THEN Json[task[t].value] ELSE there)
RedisSet(t) == task[t].at = "writing" /\ RedisWrite(t, Json[task[t].value])

\* delete, and manual_invalidate one key after the other
Delete(t, p, k) ==
    /\ CanCall(t, p, k)
    /\ t \in Warms
    /\ MemoryDelete(p, k)
    /\ Calls(t, "deleting", p, k, None, FALSE)
    /\ Meets(t, k)
    /\ settled' = [settled EXCEPT ![k] = Unsettled]
    /\ UNCHANGED <<l2, frozen>>
RedisDelete(t) == task[t].at = "deleting" /\ RedisWrite(t, None)

\* clear: the command to Redis names the key "<name>:*", which nobody has
Clear(p) ==
    /\ Runs(p)
    /\ MemoryClear(p)
    /\ UNCHANGED <<l2, frozen, task, lone, settled>>

-----------------------------------------------------------------------------
(* The loops, the life of a process, expiry in Redis *)

\* one round of _cleanup_loop
CleanupRoundIdle(p) == Runs(p) /\ UNCHANGED vars
CleanupRound(p) ==
    /\ Runs(p)
    /\ MemoryClear(p)
    /\ UNCHANGED <<l2, frozen, task, lone, settled>>

\* cascade_invalidate: invalidate_key takes the thread lock and calls
\* get_dependents, which takes it again, on the thread of the event loop
CascadeInvalidate(p) ==
    /\ Runs(p)
    /\ frozen' = frozen \cup {p}
    /\ UNCHANGED <<levels, task, lone, settled>>

\* the process ends and is started again; what it had asked of Redis and
\* was not executed is not executed any more
Restart(p) ==
    LET mine == {t \in Tasks : task[t].proc = p} IN
    /\ MemoryClear(p)
    /\ frozen' = frozen \ {p}
    /\ task' = [t \in Tasks |-> IF t \in mine THEN Idle ELSE task[t]]
    /\ lone' = lone \ mine
    /\ UNCHANGED <<l2, settled>>

RedisExpires(k) ==
    /\ l2[k] # None
    /\ l2' = [l2 EXCEPT ![k] = None]
    /\ UNCHANGED <<l1, order, uses, frozen, task, lone, settled>>

-----------------------------------------------------------------------------

\* what Redis and the event loop do with a call that is under way
Proceeds(t) ==
    \/ RedisGet(t) \/ GotValue(t) \/ GotNone(t) \/ Answered(t)
    \/ RedisSet(t) \/ RedisDelete(t)

Next ==
    \/ \E t \in Tasks : Proceeds(t)
    \/ \E t \in Tasks, k \in Keys : \E v \in Given[k] : Fetched(t, k, v)
    \/ \E t \in Tasks : FetchedNothing(t)
    \/ \E t \in Tasks, p \in Procs, k \in Keys :
         \/ \E warm \in BOOLEAN : GetHit(t, p, k, warm) \/ GetMiss(t, p, k, warm)
         \/ \E v \in Given[k] : Put(t, p, k, v)
         \/ Delete(t, p, k)
    \/ \E p \in Procs : CleanupRound(p)
    \/ \E p \in Managed : Clear(p) \/ CascadeInvalidate(p) \/ Restart(p)
    \/ \E k \in Keys : RedisExpires(k)

Spec == Init /\ [][Next]_vars

\* Redis answers, the loop runs what is ready, and its timer fires
FairSpec ==
    /\ Spec
    /\ \A t \in Tasks : WF_vars(Proceeds(t))
    /\ \A p \in Procs : WF_vars(CleanupRound(p))

-----------------------------------------------------------------------------
(* Properties *)

\* Types; the order lists each key of L1 once; L1 keeps to max_size under the
\* policies that evict.
TypeOK ==
    /\ l1 \in [Procs -> [Keys -> Stored]]
    /\ order \in [Procs -> Seq(Keys)]
    /\ uses \in [Procs -> [Keys -> 0..MaxUses]]
    /\ l2 \in [Keys -> Stored]
    /\ frozen \subseteq Procs
    /\ task \in [Tasks -> CallStates]
    /\ lone \subseteq Tasks
    /\ settled \in [Keys -> (Procs \X Stored) \cup {Unsettled}]
    /\ \A p \in Procs :
         /\ ToSet(order[p]) = Held(p) /\ IsInjective(order[p])
         /\ Policy[p] # "ttl" => Len(order[p]) <= MaxSize

\* The two levels agree after a write: when a put or a delete of a key met no
\* other call on that key and no error, then until the next write Redis and
\* the memory of the process that wrote have what was written, or nothing.
\* (MultiLevelCache.put and delete write the two levels one after the other,
\* and get promotes what it read before.)
SettledSticks ==
    \A k \in Keys : settled[k] # Unsettled =>
        LET p == settled[k][1]  v == settled[k][2]
        IN  IF v = None THEN l1[p][k] = None /\ l2[k] = None
            ELSE l1[p][k] \in {None, v, Json[v]} /\ l2[k] \in {None, Json[v]}

\* what p may still be told of k: what the levels have, what is on its way to
\* Redis, and what its own reads have got from there
Visible(p, k) ==
    ({l1[p][k], l2[k]}
       \cup {task[t].value : t \in {u \in Busy(k) : task[u].at = "read" /\ task[u].proc = p}}
       \cup UNION {{task[t].value, Json[task[t].value]} :
                      t \in {u \in Busy(k) : task[u].at = "writing"}}) \ {None}
\* what the call of t returns to its caller
Told(t) ==
    IF task[t].at = "answered"
    THEN [proc |-> task[t].proc, key |-> task[t].key, value |-> task[t].value]
    ELSE [proc |-> None, key |-> None, value |-> None]
Promise == INSTANCE VolatileCache WITH
    may <- [p \in Procs |-> [k \in Keys |-> Visible(p, k)]],
    answer <- [t \in Tasks |-> Told(t)]

\* The cache implements VolatileCache: whatever the interleaving of reads,
\* promotions, writes, evictions and restarts, a process is never told a value
\* that had disappeared from its memory, from Redis and from every call under
\* way, unless it is put again.
ImplementsVolatileCache == Promise!Spec

\* Once nobody writes any more, and no process is frozen,
\* each memory comes to agree with Redis: what an overlapping promotion or a
\* write of another process has left stale goes with the next cleanup.
Calm ==
    /\ frozen = {}
    /\ \A t \in Tasks : task[t].at \notin {"fetching", "writing", "deleting"}
LevelsAgree ==
    \A p \in Procs, k \in Keys :
        l1[p][k] = None \/ l2[k] \in {l1[p][k], Json[l1[p][k]]} \ {None}
Converges == <>[]Calm => <>[]LevelsAgree
=============================================================================
