-------------------------- MODULE LevelCache_proofs --------------------------
(***************************************************************************)
(* Theorems about LevelCache, for any processes, calls, keys, values and   *)
(* eviction policies.                                                      *)
(***************************************************************************)
EXTENDS LevelCache, SequenceTheorems, WellFoundedInduction, TLAPS

\* The types of all but the order and the uses, which OrderOK is about.
ValuesOK ==
    /\ l1 \in [Procs -> [Keys -> Stored]]
    /\ l2 \in [Keys -> Stored]
    /\ task \in [Tasks -> CallStates]
    /\ lone \in SUBSET Tasks
    /\ settled \in [Keys -> (Procs \X Stored) \cup {Unsettled}]

\* A call that waits is one of a process on a key; only a write carries the
\* value to be written.
CallsOK ==
    \A t \in Tasks :
        /\ task[t].at # "idle" => task[t].proc \in Procs /\ task[t].key \in Keys
        /\ task[t].at = "writing" => task[t].value \in Values
        /\ task[t].at = "deleting" => task[t].value = None

\* A lone call is the only one that waits on its key.
LoneIsAlone ==
    \A t \in lone :
        /\ task[t].at \in Waiting
        /\ \A u \in Tasks \ {t} :
              task[u].key # task[t].key \/ task[u].at \notin Waiting

\* While a lone write is under way the memory of its process has what is
\* written, or nothing.
LoneWrites ==
    \A t \in lone :
        LET held == l1[task[t].proc][task[t].key]
        IN  /\ task[t].at = "writing" => held \in {None, task[t].value}
            /\ task[t].at = "deleting" => held = None

\* A key is settled only while nobody writes it, and what was read of it since
\* is what was written.
SettledIsQuiet ==
    \A k \in Keys : settled[k] # Unsettled => \A t \in Busy(k) :
        /\ task[t].at \notin {"writing", "deleting"}
        /\ task[t].at = "read" =>
             task[t].value \in IF settled[k][2] = None THEN {None}
                               ELSE {None, Json[settled[k][2]]}

SInv == ValuesOK /\ CallsOK /\ LoneIsAlone /\ LoneWrites /\ SettledIsQuiet /\ SettledSticks

\* the memories only lose entries
MemoryFades ==
    /\ l1' \in [Procs -> [Keys -> Stored]]
    /\ \A p \in Procs, k \in Keys : l1'[p][k] \in {l1[p][k], None}
RedisFades ==
    /\ l2' \in [Keys -> Stored]
    /\ \A k \in Keys : l2'[k] \in {l2[k], None}

-----------------------------------------------------------------------------
(* MemoryCache *)

\* A put sets its key and at most takes others out.
LEMMA PutSetsOne ==
    ASSUME ValuesOK, NEW p \in Procs, NEW k \in Keys, NEW v \in Values, MemoryPut(p, k, v)
    PROVE  /\ l1' \in [Procs -> [Keys -> Stored]]
           /\ l1'[p][k] = v
           /\ \A q \in Procs, j \in Keys :
                (q # p \/ j # k) => l1'[q][j] \in {l1[q][j], None}
BY DEF MemoryPut, ValuesOK, Stored

\* Deleting, missing and clearing only take entries out.
LEMMA DropFades ==
    ASSUME ValuesOK, NEW p \in Procs, NEW k \in Keys,
           MemoryDelete(p, k) \/ MemoryMiss(p, k) \/ MemoryClear(p)
    PROVE  MemoryFades
<1>1. CASE MemoryDelete(p, k)
  BY <1>1 DEF MemoryDelete, MemoryFades, ValuesOK, Stored
<1>2. CASE MemoryClear(p)
  BY <1>2 DEF MemoryClear, MemoryFades, ValuesOK, Stored
<1>3. CASE MemoryMiss(p, k)
  BY <1>1, <1>3 DEF MemoryMiss, MemoryFades, ValuesOK
<1> QED BY <1>1, <1>2, <1>3

-----------------------------------------------------------------------------
(* The invariant *)

\* A step in which entries disappear and calls end, and nothing else, keeps
\* the invariant: most steps are of this kind.
LEMMA FadingKeepsInv ==
    ASSUME SInv, MemoryFades, RedisFades, settled' = settled,
           task' \in [Tasks -> CallStates],
           \A t \in Tasks : \/ task'[t] = task[t]
                            \/ task'[t] = Idle
                            \/ /\ task'[t].at = "answered"
                               /\ task'[t].proc \in Procs /\ task'[t].key \in Keys,
           lone' \subseteq lone,
           \A t \in lone' : task'[t] = task[t]
    PROVE  SInv'
<1> USE DEF SInv
<1>1. ValuesOK'
  BY DEF ValuesOK, MemoryFades, RedisFades
<1>2. CallsOK'
  BY DEF CallsOK, Idle
<1>3. \A k \in Keys : Busy(k)' \subseteq Busy(k)
  BY DEF Busy, Waiting, Idle
<1>4. LoneIsAlone'
  BY <1>3 DEF LoneIsAlone, Busy, ValuesOK, CallsOK, Waiting
<1>5. LoneWrites'
  <2> SUFFICES ASSUME NEW t \in lone'
               PROVE  /\ task[t].at = "writing" =>
                            l1'[task[t].proc][task[t].key] \in {None, task[t].value}
                      /\ task[t].at = "deleting" => l1'[task[t].proc][task[t].key] = None
    BY DEF LoneWrites
  <2>1. t \in lone /\ t \in Tasks /\ task[t].at \in Waiting
    BY DEF LoneIsAlone, ValuesOK
  <2>2. task[t].proc \in Procs /\ task[t].key \in Keys
    BY <2>1 DEF CallsOK, Waiting
  <2> QED BY <2>1, <2>2 DEF LoneWrites, MemoryFades
<1>6. SettledIsQuiet'
  <2> SUFFICES ASSUME NEW k \in Keys, settled[k] # Unsettled, NEW t \in Busy(k)'
               PROVE  /\ task'[t].at \notin {"writing", "deleting"}
                      /\ task'[t].at = "read" =>
                           task'[t].value \in IF settled[k][2] = None THEN {None}
                                             ELSE {None, Json[settled[k][2]]}
    BY DEF SettledIsQuiet
  <2>1. t \in Busy(k) /\ task'[t] = task[t]
    BY <1>3 DEF Busy, Waiting, Idle
  <2> QED BY <2>1 DEF SettledIsQuiet
<1>7. SettledSticks'
  <2> SUFFICES ASSUME NEW k \in Keys, settled[k] # Unsettled
               PROVE  LET p == settled[k][1]  v == settled[k][2]
                      IN  IF v = None THEN l1'[p][k] = None /\ l2'[k] = None
                          ELSE l1'[p][k] \in {None, v, Json[v]} /\ l2'[k] \in {None, Json[v]}
    BY DEF SettledSticks
  <2>1. settled[k][1] \in Procs
    BY DEF ValuesOK
  <2> QED BY <2>1 DEF SettledSticks, MemoryFades, RedisFades
<1> QED BY <1>1, <1>2, <1>4, <1>5, <1>6, <1>7

\* A call that begins is alone if nobody else waits on its key, and whoever
\* else was alone there is not any more.
LEMMA BeginningIsAlone ==
    ASSUME ValuesOK, LoneIsAlone, NEW t \in Tasks, NEW k \in Keys, task[t] = Idle,
           NEW c \in CallStates, c.key = k, c.at \in Waiting,
           task' = [task EXCEPT ![t] = c], Meets(t, k)
    PROVE  /\ LoneIsAlone'
           /\ lone' \in SUBSET Tasks
           /\ \A u \in lone' : u # t => u \in lone /\ task'[u] = task[u] /\ task[u].key # k
           /\ \A j \in Keys : Busy(j)' = IF j = k THEN Busy(k) \cup {t} ELSE Busy(j)
<1>1. task[t].at \notin Waiting /\ t \notin lone
  BY DEF Idle, Waiting, LoneIsAlone
<1>2. \A j : Busy(j)' = IF j = k THEN Busy(k) \cup {t} ELSE Busy(j)
  BY <1>1 DEF Busy, ValuesOK
<1>3. \A u \in lone' : u # t => u \in lone /\ task'[u] = task[u] /\ task[u].key # k
  <2> SUFFICES ASSUME NEW u \in lone', u # t
               PROVE  u \in lone /\ task'[u] = task[u] /\ task[u].key # k
    OBVIOUS
  <2>1. u \in lone /\ u \in Tasks /\ u \notin Busy(k)
    BY DEF Meets, ValuesOK
  <2>2. task[u].at \in Waiting
    BY <2>1 DEF LoneIsAlone
  <2> QED BY <2>1, <2>2 DEF Busy, ValuesOK
<1>4. LoneIsAlone'
  <2> SUFFICES ASSUME NEW u \in lone'
               PROVE  /\ task'[u].at \in Waiting
                      /\ \A w \in Tasks \ {u} :
                            task'[w].key # task'[u].key \/ task'[w].at \notin Waiting
    BY DEF LoneIsAlone
  <2>1. CASE u = t
    <3>1. Busy(k) = {}
      BY <1>1, <2>1 DEF Meets
    <3> QED BY <2>1, <3>1 DEF ValuesOK, Busy
  <2>2. CASE u # t
    BY <1>3, <2>2 DEF LoneIsAlone, ValuesOK
  <2> QED BY <2>1, <2>2
<1>5. lone' \in SUBSET Tasks
  BY DEF Meets, ValuesOK
<1> QED BY <1>2, <1>3, <1>4, <1>5

\* What the other lone calls find in memory is only ever lost while a step puts
\* under a key they do not wait on.
LEMMA OthersKeepWrites ==
    ASSUME SInv, NEW t \in Tasks,
           \A u \in lone' : u # t => u \in lone /\ task'[u] = task[u],
           \A u \in lone' : u # t => \A q \in Procs :
               l1'[q][task[u].key] \in {l1[q][task[u].key], None},
           t \in lone' => LET held == l1'[task'[t].proc][task'[t].key]
                          IN  /\ task'[t].at = "writing" => held \in {None, task'[t].value}
                              /\ task'[t].at = "deleting" => held = None
    PROVE  LoneWrites'
<1> SUFFICES ASSUME NEW u \in lone'
             PROVE  LET held == l1'[task'[u].proc][task'[u].key]
                    IN  /\ task'[u].at = "writing" => held \in {None, task'[u].value}
                        /\ task'[u].at = "deleting" => held = None
  BY DEF LoneWrites
<1>1. CASE u = t
  BY <1>1
<1>2. CASE u # t
  <2>1. u \in lone /\ u \in Tasks /\ task'[u] = task[u] /\ task[u].proc \in Procs
    BY <1>2 DEF SInv, ValuesOK, CallsOK, LoneIsAlone, Waiting
  <2>2. l1'[task[u].proc][task[u].key] \in {l1[task[u].proc][task[u].key], None}
    BY <1>2, <2>1
  <2> QED BY <2>1, <2>2 DEF SInv, LoneWrites
<1> QED BY <1>1, <1>2

LEMMA GetMissKeepsInv ==
    ASSUME SInv, NEW t \in Tasks, NEW p \in Procs, NEW k \in Keys, NEW warm \in BOOLEAN,
           GetMiss(t, p, k, warm)
    PROVE  SInv'
<1> USE DEF SInv
<1> DEFINE c == [at |-> "reading", proc |-> p, key |-> k, value |-> None, warm |-> warm]
<1>1. /\ task[t] = Idle /\ task' = [task EXCEPT ![t] = c] /\ Meets(t, k)
      /\ UNCHANGED <<l2, settled>> /\ MemoryMiss(p, k)
  BY DEF GetMiss, CanCall, Calls
<1>2. c \in CallStates /\ c.at \in Waiting /\ c.key = k
  BY DEF CallStates, Waiting, Stored
<1>3. MemoryFades
  BY <1>1, DropFades
<1> HIDE DEF c
<1>4. /\ LoneIsAlone'
      /\ lone' \in SUBSET Tasks
      /\ \A u \in lone' : u # t => u \in lone /\ task'[u] = task[u] /\ task[u].key # k
      /\ \A j \in Keys : Busy(j)' = IF j = k THEN Busy(k) \cup {t} ELSE Busy(j)
  BY <1>1, <1>2, BeginningIsAlone
<1>5. ValuesOK'
  BY <1>1, <1>2, <1>3, <1>4 DEF ValuesOK, MemoryFades
<1>6. CallsOK'
  BY <1>1 DEF CallsOK, ValuesOK, c
<1>7. LoneWrites'
  <2>1. \A u \in lone' : u # t => \A q \in Procs :
               l1'[q][task[u].key] \in {l1[q][task[u].key], None}
    BY <1>3, <1>4 DEF MemoryFades, CallsOK, LoneIsAlone, Waiting, ValuesOK
  <2>2. task'[t].at = "reading"
    BY <1>1 DEF ValuesOK, c
  <2> QED BY <1>4, <2>1, <2>2, OthersKeepWrites
<1>8. SettledIsQuiet'
  <2>1. task'[t].at = "reading" /\ \A u \in Tasks : u # t => task'[u] = task[u]
    BY <1>1 DEF ValuesOK, c
  <2> SUFFICES ASSUME NEW j \in Keys, settled[j] # Unsettled, NEW u \in Busy(j)'
               PROVE  /\ task'[u].at \notin {"writing", "deleting"}
                      /\ task'[u].at = "read" =>
                           task'[u].value \in IF settled[j][2] = None THEN {None}
                                             ELSE {None, Json[settled[j][2]]}
    BY <1>1 DEF SettledIsQuiet
  <2>2. CASE u = t
    BY <2>1, <2>2
  <2>3. CASE u # t
    <3>1. u \in Busy(j) /\ task'[u] = task[u]
      BY <1>4, <2>1, <2>3 DEF Busy
    <3> QED BY <3>1 DEF SettledIsQuiet
  <2> QED BY <2>2, <2>3
<1>9. SettledSticks'
  <2> SUFFICES ASSUME NEW j \in Keys, settled[j] # Unsettled
               PROVE  LET q == settled[j][1]  v == settled[j][2]
                      IN  IF v = None THEN l1'[q][j] = None /\ l2'[j] = None
                          ELSE l1'[q][j] \in {None, v, Json[v]} /\ l2'[j] \in {None, Json[v]}
    BY <1>1 DEF SettledSticks
  <2>1. settled[j][1] \in Procs
    BY DEF ValuesOK
  <2> QED BY <1>1, <1>3, <2>1 DEF SettledSticks, MemoryFades
<1> QED BY <1>4, <1>5, <1>6, <1>7, <1>8, <1>9

\* A call that goes on waiting, or ends, leaves the others as alone as they were.
LEMMA GoingOnKeepsAlone ==
    ASSUME ValuesOK, LoneIsAlone, NEW t \in Tasks,
           \A u \in Tasks : u # t => task'[u] = task[u],
           lone' \subseteq lone,
           \/ task'[t].at \notin Waiting /\ t \notin lone'
           \/ task[t].at \in Waiting /\ task'[t].at \in Waiting /\ task'[t].key = task[t].key
    PROVE  LoneIsAlone'
BY DEF LoneIsAlone, ValuesOK

\* If keys are at most unsettled and t is quiet, all is quiet.
LEMMA GoingOnKeepsQuiet ==
    ASSUME SInv, NEW t \in Tasks,
           \A u \in Tasks : u # t => task'[u] = task[u],
           \A j \in Keys : settled'[j] \in {settled[j], Unsettled},
           \A j \in Keys : (settled'[j] # Unsettled /\ t \in Busy(j)') =>
               /\ task'[t].at \notin {"writing", "deleting"}
               /\ task'[t].at = "read" =>
                    task'[t].value \in IF settled[j][2] = None THEN {None}
                                      ELSE {None, Json[settled[j][2]]}
    PROVE  SettledIsQuiet'
<1> SUFFICES ASSUME NEW j \in Keys, settled'[j] # Unsettled, NEW u \in Busy(j)'
             PROVE  /\ task'[u].at \notin {"writing", "deleting"}
                    /\ task'[u].at = "read" =>
                         task'[u].value \in IF settled'[j][2] = None THEN {None}
                                           ELSE {None, Json[settled'[j][2]]}
  BY DEF SettledIsQuiet
<1>1. settled'[j] = settled[j]
  OBVIOUS
<1>2. CASE u = t
  BY <1>1, <1>2
<1>3. CASE u # t
  <2>1. u \in Busy(j) /\ task'[u] = task[u]
    BY <1>3 DEF Busy
  <2> QED BY <1>1, <2>1 DEF SInv, SettledIsQuiet
<1> QED BY <1>2, <1>3

LEMMA RedisGetKeepsInv ==
    ASSUME SInv, NEW t \in Tasks, RedisGet(t)
    PROVE  SInv'
<1> USE DEF SInv
<1> DEFINE k == task[t].key
<1>1. /\ task[t].at = "reading" /\ k \in Keys
      /\ UNCHANGED <<l1, l2, lone, settled>>
  BY DEF RedisGet, levels, CallsOK
<1>2. PICK v \in {l2[k], None} :
        task' = [task EXCEPT ![t].at = "read", ![t].value = v]
  BY DEF RedisGet, GoesOn
<1>3. v \in Stored
  BY <1>1, <1>2 DEF ValuesOK, Stored
<1>a. task[t] \in CallStates /\ task \in [Tasks -> CallStates]
  BY DEF ValuesOK
<1>b. [task[t] EXCEPT !.at = "read", !.value = v] \in CallStates
  BY <1>3, <1>a DEF CallStates, Waiting
<1> HIDE DEF k
<1>4. /\ task'[t] = [task[t] EXCEPT !.at = "read", !.value = v]
      /\ \A u \in Tasks : u # t => task'[u] = task[u]
      /\ task' \in [Tasks -> CallStates]
  BY <1>2, <1>a, <1>b
<1> USE DEF k
<1>5. /\ task'[t].at = "read" /\ task'[t].value = v /\ task'[t].key = k
      /\ task'[t].proc = task[t].proc
  BY <1>4 DEF ValuesOK, CallStates
<1>6. ValuesOK'
  BY <1>1, <1>4 DEF ValuesOK
<1>7. CallsOK'
  BY <1>1, <1>4, <1>5 DEF CallsOK
<1>8. LoneIsAlone'
  BY <1>1, <1>4, <1>5, GoingOnKeepsAlone DEF Waiting
<1>9. LoneWrites'
  <2>1. \A u \in lone' : u # t => \A q \in Procs :
               l1'[q][task[u].key] \in {l1[q][task[u].key], None}
    BY <1>1
  <2>2. \A u \in lone' : u # t => u \in lone /\ task'[u] = task[u]
    BY <1>1, <1>4 DEF ValuesOK
  <2> QED BY <1>5, <2>1, <2>2, OthersKeepWrites
<1>10. SettledIsQuiet'
  <2>1. \A j \in Keys : settled'[j] # Unsettled /\ t \in Busy(j)' =>
               v \in IF settled[j][2] = None THEN {None} ELSE {None, Json[settled[j][2]]}
    BY <1>1, <1>2, <1>5 DEF Busy, SettledSticks
  <2> QED BY <1>1, <1>4, <1>5, <2>1, GoingOnKeepsQuiet
<1>11. SettledSticks'
  BY <1>1 DEF SettledSticks
<1> QED BY <1>6, <1>7, <1>8, <1>9, <1>10, <1>11

\* a warming that found nothing
LEMMA FetchingKeepsInv ==
    ASSUME SInv, NEW t \in Tasks, task[t].at = "read", GoesOn(t, "fetching", None),
           UNCHANGED <<l1, l2, lone, settled>>
    PROVE  SInv'
<1> USE DEF SInv
<1>4. /\ task'[t] = [task[t] EXCEPT !.at = "fetching", !.value = None]
      /\ \A u \in Tasks : u # t => task'[u] = task[u]
      /\ task' \in [Tasks -> CallStates]
  BY DEF ValuesOK, CallStates, Waiting, GoesOn, Stored
<1>5. /\ task'[t].at = "fetching" /\ task'[t].key = task[t].key
      /\ task'[t].proc = task[t].proc
  BY <1>4 DEF ValuesOK, CallStates
<1>6. ValuesOK' /\ CallsOK'
  BY <1>4, <1>5 DEF ValuesOK, CallsOK
<1>8. LoneIsAlone'
  BY <1>4, <1>5, GoingOnKeepsAlone DEF Waiting
<1>9. LoneWrites'
  BY <1>4, <1>5, OthersKeepWrites DEF ValuesOK
<1>10. SettledIsQuiet'
  BY <1>4, <1>5, GoingOnKeepsQuiet
<1>11. SettledSticks'
  BY DEF SettledSticks
<1> QED BY <1>6, <1>8, <1>9, <1>10, <1>11

\* A call that waits is not a call others are alone with.
LEMMA OthersWaitElsewhere ==
    ASSUME ValuesOK, LoneIsAlone, NEW t \in Tasks, task[t].at \in Waiting,
           NEW u \in lone, u # t
    PROVE  task[u].key # task[t].key
BY DEF LoneIsAlone, ValuesOK

LEMMA GotValueKeepsInv ==
    ASSUME SInv, NEW t \in Tasks, GotValue(t)
    PROVE  SInv'
<1> USE DEF SInv
<1> DEFINE p == task[t].proc
           k == task[t].key
           v == task[t].value
<1>1. /\ task[t].at = "read" /\ v # None /\ MemoryPut(p, k, v)
      /\ l2' = l2 /\ settled' = settled /\ lone' = lone \ {t}
  BY DEF GotValue, Promote
<1>2. p \in Procs /\ k \in Keys /\ v \in Values
  BY <1>1 DEF CallsOK, ValuesOK, CallStates, Stored
<1>3. /\ l1' \in [Procs -> [Keys -> Stored]] /\ l1'[p][k] = v
      /\ \A q \in Procs, j \in Keys : (q # p \/ j # k) => l1'[q][j] \in {l1[q][j], None}
  BY <1>1, <1>2, PutSetsOne
<1>4. /\ \A u \in Tasks : u # t => task'[u] = task[u]
      /\ task'[t] = Idle \/ task'[t] = [task[t] EXCEPT !.at = "answered", !.value = v]
      /\ task' \in [Tasks -> CallStates]
  <2>1. task[t] \in CallStates /\ task \in [Tasks -> CallStates]
    BY DEF ValuesOK
  <2>2. Idle \in CallStates /\ [task[t] EXCEPT !.at = "answered", !.value = v] \in CallStates
    BY <1>2, <2>1 DEF CallStates, Idle, Stored
  <2>3. \/ task' = [task EXCEPT ![t] = Idle]
        \/ task' = [task EXCEPT ![t].at = "answered", ![t].value = v]
    BY DEF GotValue, Returns, GoesOn
  <2> QED BY <2>1, <2>2, <2>3
<1>5. /\ task'[t].at \in {"idle", "answered"}
      /\ task'[t].at = "answered" => task'[t].proc = p /\ task'[t].key = k
  <2>1. task[t] \in CallStates
    BY DEF ValuesOK
  <2>2. CASE task'[t] = Idle
    BY <2>2 DEF Idle
  <2>3. CASE task'[t] = [task[t] EXCEPT !.at = "answered", !.value = v]
    BY <2>1, <2>3 DEF CallStates
  <2> QED BY <1>4, <2>2, <2>3
<1>6. ValuesOK' /\ CallsOK'
  BY <1>1, <1>2, <1>3, <1>4, <1>5 DEF ValuesOK, CallsOK
<1>7. LoneIsAlone'
  BY <1>1, <1>4, <1>5, GoingOnKeepsAlone DEF Waiting
<1>8. LoneWrites'
  <2>1. \A u \in lone' : u # t => u \in lone /\ task'[u] = task[u] /\ task[u].key # k
    BY <1>1, <1>4, OthersWaitElsewhere DEF ValuesOK, Waiting
  <2>2. \A u \in lone' : u # t => \A q \in Procs :
               l1'[q][task[u].key] \in {l1[q][task[u].key], None}
    BY <1>3, <2>1 DEF CallsOK, LoneIsAlone, Waiting, ValuesOK
  <2> QED BY <1>5, <2>1, <2>2, OthersKeepWrites
<1>9. SettledIsQuiet'
  <2>1. \A j \in Keys : t \notin Busy(j)'
    BY <1>5 DEF Busy, Waiting
  <2> QED BY <1>1, <1>4, <2>1, GoingOnKeepsQuiet
<1>10. SettledSticks'
  <2> SUFFICES ASSUME NEW j \in Keys, settled[j] # Unsettled
               PROVE  LET q == settled[j][1]  w == settled[j][2]
                      IN  IF w = None THEN l1'[q][j] = None /\ l2'[j] = None
                          ELSE l1'[q][j] \in {None, w, Json[w]} /\ l2'[j] \in {None, Json[w]}
    BY <1>1 DEF SettledSticks
  <2>1. settled[j][1] \in Procs
    BY DEF ValuesOK
  <2>2. CASE j = k /\ settled[j][1] = p
    <3>1. t \in Busy(k)
      BY <1>1 DEF Busy, Waiting
    <3>2. settled[j][2] # None /\ v = Json[settled[j][2]]
      BY <1>1, <2>2, <3>1 DEF SettledIsQuiet
    <3> QED BY <1>1, <1>3, <2>2, <3>2 DEF SettledSticks
  <2>3. CASE j # k \/ settled[j][1] # p
    BY <1>1, <1>3, <2>1, <2>3 DEF SettledSticks
  <2> QED BY <2>2, <2>3
<1> QED BY <1>6, <1>7, <1>8, <1>9, <1>10

\* A put that is on its way, of a call that begins or of a warming that has
\* fetched its value.
Writing(t, p, k, v) ==
    /\ MemoryPut(p, k, v) /\ l2' = l2
    /\ settled' = [settled EXCEPT ![k] = Unsettled]
    /\ LoneIsAlone' /\ lone' \in SUBSET Tasks
    /\ task' \in [Tasks -> CallStates]
    /\ task'[t].at = "writing" /\ task'[t].proc = p /\ task'[t].key = k /\ task'[t].value = v
    /\ \A u \in Tasks : u # t => task'[u] = task[u]
    /\ \A u \in lone' : u # t => u \in lone /\ task[u].key # k

LEMMA WritingKeepsInv ==
    ASSUME SInv, NEW t \in Tasks, NEW p \in Procs, NEW k \in Keys, NEW v \in Values,
           Writing(t, p, k, v)
    PROVE  SInv'
<1> USE DEF SInv, Writing
<1>1. /\ l1' \in [Procs -> [Keys -> Stored]] /\ l1'[p][k] = v
      /\ \A q \in Procs, j \in Keys : (q # p \/ j # k) => l1'[q][j] \in {l1[q][j], None}
  BY PutSetsOne
<1>2. settled'[k] = Unsettled /\ \A j \in Keys : j # k => settled'[j] = settled[j]
  BY DEF ValuesOK
<1>3. ValuesOK'
  BY <1>1, <1>2 DEF ValuesOK
<1>4. CallsOK'
  BY DEF CallsOK
<1>5. LoneWrites'
  <2>1. \A u \in lone' : u # t => u \in lone /\ task'[u] = task[u]
    OBVIOUS
  <2>2. \A u \in lone' : u # t => \A q \in Procs :
               l1'[q][task[u].key] \in {l1[q][task[u].key], None}
    BY <1>1 DEF CallsOK, LoneIsAlone, Waiting, ValuesOK
  <2> QED BY <1>1, <2>1, <2>2, OthersKeepWrites
<1>6. SettledIsQuiet'
  <2>1. \A j \in Keys : settled'[j] \in {settled[j], Unsettled}
    BY <1>2
  <2>2. \A j \in Keys : settled'[j] # Unsettled => t \notin Busy(j)'
    BY <1>2 DEF Busy
  <2> QED BY <2>1, <2>2, GoingOnKeepsQuiet
<1>7. SettledSticks'
  <2> SUFFICES ASSUME NEW j \in Keys, settled'[j] # Unsettled
               PROVE  LET q == settled'[j][1]  w == settled'[j][2]
                      IN  IF w = None THEN l1'[q][j] = None /\ l2'[j] = None
                          ELSE l1'[q][j] \in {None, w, Json[w]} /\ l2'[j] \in {None, Json[w]}
    BY DEF SettledSticks
  <2>1. j # k /\ settled'[j] = settled[j] /\ settled[j][1] \in Procs
    BY <1>2 DEF ValuesOK
  <2> QED BY <1>1, <2>1 DEF SettledSticks
<1> QED BY <1>3, <1>4, <1>5, <1>6, <1>7

LEMMA PutKeepsInv ==
    ASSUME SInv, NEW t \in Tasks, NEW p \in Procs, NEW k \in Keys, NEW v \in Values,
           Put(t, p, k, v)
    PROVE  SInv'
<1> USE DEF SInv
<1> DEFINE c == [at |-> "writing", proc |-> p, key |-> k, value |-> v, warm |-> FALSE]
<1>1. /\ task[t] = Idle /\ task' = [task EXCEPT ![t] = c] /\ Meets(t, k)
      /\ l2' = l2 /\ settled' = [settled EXCEPT ![k] = Unsettled] /\ MemoryPut(p, k, v)
  BY DEF Put, CanCall, Calls
<1>2. c \in CallStates /\ c.at = "writing" /\ c.at \in Waiting /\ c.key = k
  BY DEF CallStates, Waiting, Stored
<1>3. c.proc = p /\ c.value = v
  OBVIOUS
<1> HIDE DEF c
<1>4. /\ LoneIsAlone'
      /\ lone' \in SUBSET Tasks
      /\ \A u \in lone' : u # t => u \in lone /\ task'[u] = task[u] /\ task[u].key # k
  BY <1>1, <1>2, BeginningIsAlone
<1>5. task'[t] = c /\ (\A u \in Tasks : u # t => task'[u] = task[u])
      /\ task' \in [Tasks -> CallStates]
  BY <1>1, <1>2 DEF ValuesOK
<1>6. /\ task'[t].at = "writing" /\ task'[t].proc = p
      /\ task'[t].key = k /\ task'[t].value = v
  BY <1>2, <1>3, <1>5
<1>7. \A u \in lone' : u # t => u \in lone /\ task[u].key # k
  BY <1>4
<1>8. Writing(t, p, k, v)
  BY <1>1, <1>4, <1>5, <1>6, <1>7 DEF Writing
<1> HIDE DEF SInv
<1> QED BY <1>8, WritingKeepsInv

LEMMA FetchedKeepsInv ==
    ASSUME SInv, NEW t \in Tasks, NEW k \in Keys, NEW v \in Values, Fetched(t, k, v)
    PROVE  SInv'
<1> USE DEF SInv
<1> DEFINE p == task[t].proc
<1>1. /\ task[t].at = "fetching" /\ task[t].key = k /\ p \in Procs
      /\ task' = [task EXCEPT ![t].at = "writing", ![t].value = v]
      /\ l2' = l2 /\ settled' = [settled EXCEPT ![k] = Unsettled] /\ MemoryPut(p, k, v)
      /\ lone' = lone
  BY DEF Fetched, GoesOn, CallsOK
<1>2. task[t] \in CallStates /\ task \in [Tasks -> CallStates]
  BY DEF ValuesOK
<1>3. [task[t] EXCEPT !.at = "writing", !.value = v] \in CallStates
  BY <1>2 DEF CallStates, Waiting, Stored
<1>4. /\ task'[t] = [task[t] EXCEPT !.at = "writing", !.value = v]
      /\ \A u \in Tasks : u # t => task'[u] = task[u]
      /\ task' \in [Tasks -> CallStates]
  BY <1>1, <1>2, <1>3
<1>5. task'[t].at = "writing" /\ task'[t].proc = p /\ task'[t].key = k /\ task'[t].value = v
  BY <1>1, <1>2, <1>4 DEF CallStates
<1>6. LoneIsAlone'
  BY <1>1, <1>4, <1>5, GoingOnKeepsAlone DEF Waiting
<1>7. \A u \in lone' : u # t => u \in lone /\ task[u].key # k
  BY <1>1, OthersWaitElsewhere DEF Waiting
<1>8. lone' \in SUBSET Tasks
  BY <1>1 DEF ValuesOK
<1>9. Writing(t, p, k, v)
  BY <1>1, <1>4, <1>5, <1>6, <1>7, <1>8 DEF Writing
<1> HIDE DEF p, SInv
<1> QED BY <1>1, <1>9, WritingKeepsInv

LEMMA DeleteKeepsInv ==
    ASSUME SInv, NEW t \in Tasks, NEW p \in Procs, NEW k \in Keys, Delete(t, p, k)
    PROVE  SInv'
<1> USE DEF SInv
<1> DEFINE c == [at |-> "deleting", proc |-> p, key |-> k, value |-> None, warm |-> FALSE]
<1>1. /\ task[t] = Idle /\ task' = [task EXCEPT ![t] = c] /\ Meets(t, k)
      /\ l2' = l2 /\ settled' = [settled EXCEPT ![k] = Unsettled] /\ MemoryDelete(p, k)
  BY DEF Delete, CanCall, Calls
<1>2. c \in CallStates /\ c.at = "deleting" /\ c.at \in Waiting /\ c.key = k
  BY DEF CallStates, Waiting, Stored
<1>3. c.proc = p /\ c.value = None
  OBVIOUS
<1>4. MemoryFades /\ l1'[p][k] = None
  BY <1>1, DropFades DEF MemoryDelete, ValuesOK
<1> HIDE DEF c
<1>5. /\ LoneIsAlone'
      /\ lone' \in SUBSET Tasks
      /\ \A u \in lone' : u # t => u \in lone /\ task'[u] = task[u] /\ task[u].key # k
  BY <1>1, <1>2, BeginningIsAlone
<1>6. task'[t] = c /\ (\A u \in Tasks : u # t => task'[u] = task[u])
      /\ task' \in [Tasks -> CallStates]
  BY <1>1, <1>2 DEF ValuesOK
<1>7. settled'[k] = Unsettled /\ \A j \in Keys : j # k => settled'[j] = settled[j]
  BY <1>1 DEF ValuesOK
<1>8. ValuesOK' /\ CallsOK'
  BY <1>1, <1>2, <1>3, <1>4, <1>5, <1>6, <1>7 DEF ValuesOK, CallsOK, MemoryFades
<1>9. LoneWrites'
  <2>1. \A u \in lone' : u # t => \A q \in Procs :
               l1'[q][task[u].key] \in {l1[q][task[u].key], None}
    BY <1>4, <1>5 DEF MemoryFades, CallsOK, LoneIsAlone, Waiting, ValuesOK
  <2> QED BY <1>2, <1>3, <1>4, <1>5, <1>6, <2>1, OthersKeepWrites
<1>10. SettledIsQuiet'
  <2>1. \A j \in Keys : settled'[j] \in {settled[j], Unsettled}
    BY <1>7
  <2>2. \A j \in Keys : settled'[j] # Unsettled => t \notin Busy(j)'
    BY <1>2, <1>6, <1>7 DEF Busy
  <2> QED BY <1>6, <2>1, <2>2, GoingOnKeepsQuiet
<1>11. SettledSticks'
  <2> SUFFICES ASSUME NEW j \in Keys, settled'[j] # Unsettled
               PROVE  LET q == settled'[j][1]  w == settled'[j][2]
                      IN  IF w = None THEN l1'[q][j] = None /\ l2'[j] = None
                          ELSE l1'[q][j] \in {None, w, Json[w]} /\ l2'[j] \in {None, Json[w]}
    BY DEF SettledSticks
  <2>1. j # k /\ settled'[j] = settled[j] /\ settled[j][1] \in Procs
    BY <1>7 DEF ValuesOK
  <2> QED BY <1>1, <1>4, <2>1 DEF SettledSticks, MemoryFades
<1> QED BY <1>5, <1>8, <1>9, <1>10, <1>11

\* Redis has executed the write: nobody else waits on the key if it was alone.
LEMMA WrittenKeepsInv ==
    ASSUME SInv, NEW t \in Tasks, NEW v \in Stored,
           task[t].at = "writing" => v = Json[task[t].value],
           task[t].at = "deleting" => v = None,
           task[t].at \in {"writing", "deleting"},
           Returns(t), lone' = lone \ {t}, l1' = l1,
           l2' = [l2 EXCEPT ![task[t].key] = v],
           settled' = [settled EXCEPT ![task[t].key] =
                         IF t \in lone THEN <<task[t].proc, task[t].value>> ELSE Unsettled]
    PROVE  SInv'
<1> USE DEF SInv
<1> DEFINE p == task[t].proc
           k == task[t].key
           w == task[t].value
<1>1. /\ p \in Procs /\ k \in Keys /\ w \in Stored
      /\ task[t].at \in Waiting /\ t \in Busy(k)
  BY DEF CallsOK, ValuesOK, CallStates, Waiting, Busy
<1>2. /\ task'[t] = Idle /\ \A u \in Tasks : u # t => task'[u] = task[u]
      /\ task' \in [Tasks -> CallStates]
  BY DEF Returns, ValuesOK, CallStates, Idle, Stored
<1>3. /\ settled'[k] = IF t \in lone THEN <<p, w>> ELSE Unsettled
      /\ \A j \in Keys : j # k => settled'[j] = settled[j]
      /\ l2'[k] = v /\ \A j \in Keys : j # k => l2'[j] = l2[j]
      /\ l2' \in [Keys -> Stored]
  BY <1>1 DEF ValuesOK
<1>4. ValuesOK'
  BY <1>1, <1>2, <1>3 DEF ValuesOK
<1>5. CallsOK'
  BY <1>2 DEF CallsOK, Idle
<1>6. LoneIsAlone'
  BY <1>2, GoingOnKeepsAlone DEF Idle, Waiting
<1>7. LoneWrites'
  BY <1>2, OthersKeepWrites DEF ValuesOK
<1>8. SettledIsQuiet'
  <2> SUFFICES ASSUME NEW j \in Keys, settled'[j] # Unsettled, NEW u \in Busy(j)'
               PROVE  /\ task'[u].at \notin {"writing", "deleting"}
                      /\ task'[u].at = "read" =>
                           task'[u].value \in IF settled'[j][2] = None THEN {None}
                                             ELSE {None, Json[settled'[j][2]]}
    BY DEF SettledIsQuiet
  <2>1. u # t /\ u \in Tasks /\ task'[u] = task[u] /\ u \in Busy(j)
    BY <1>2 DEF Busy, Idle, Waiting
  <2>2. j # k
    BY <1>1, <1>3, <2>1 DEF LoneIsAlone, Busy
  <2> QED BY <1>3, <2>1, <2>2 DEF SettledIsQuiet
<1>9. SettledSticks'
  <2> SUFFICES ASSUME NEW j \in Keys, settled'[j] # Unsettled
               PROVE  LET q == settled'[j][1]  x == settled'[j][2]
                      IN  IF x = None THEN l1[q][j] = None /\ l2'[j] = None
                          ELSE l1[q][j] \in {None, x, Json[x]} /\ l2'[j] \in {None, Json[x]}
    BY DEF SettledSticks
  <2>1. CASE j = k
    <3>1. t \in lone /\ settled'[j][1] = p /\ settled'[j][2] = w
      BY <1>3, <2>1
    <3>2. CASE task[t].at = "writing"
      <4>1. w \in Values /\ w # None
        BY <3>2, CacheConstants DEF CallsOK
      <4> QED BY <1>3, <2>1, <3>1, <3>2, <4>1 DEF LoneWrites
    <3>3. CASE task[t].at = "deleting"
      BY <1>3, <2>1, <3>1, <3>3 DEF LoneWrites, CallsOK
    <3> QED BY <3>2, <3>3
  <2>2. CASE j # k
    BY <1>3, <2>2 DEF SettledSticks
  <2> QED BY <2>1, <2>2
<1> QED BY <1>4, <1>5, <1>6, <1>7, <1>8, <1>9

\* The rest of what Redis and the event loop do with a call: it ends, and at
\* most something has disappeared.
LEMMA ProceedsKeepsInv ==
    ASSUME SInv, NEW t \in Tasks, Proceeds(t)
    PROVE  SInv'
<1>1. task \in [Tasks -> CallStates] /\ Idle \in CallStates /\ task[t] \in CallStates
      /\ l1 \in [Procs -> [Keys -> Stored]] /\ l2 \in [Keys -> Stored]
  BY DEF SInv, ValuesOK, CallStates, Idle, Stored
<1>2. ASSUME Returns(t), l1' = l1, l2' = l2, settled' = settled,
             t \notin lone', lone' \subseteq lone
      PROVE  SInv'
  <2>1. MemoryFades /\ RedisFades
    BY <1>1, <1>2 DEF MemoryFades, RedisFades
  <2>2. task' \in [Tasks -> CallStates] /\ task'[t] = Idle
        /\ \A u \in Tasks : u # t => task'[u] = task[u]
    BY <1>1, <1>2 DEF Returns
  <2>3. lone \subseteq Tasks
    BY DEF SInv, ValuesOK
  <2> QED BY <1>2, <2>1, <2>2, <2>3, FadingKeepsInv
<1>3. CASE RedisGet(t)
  BY <1>3, RedisGetKeepsInv
<1>4. CASE GotValue(t)
  BY <1>4, GotValueKeepsInv
<1>5. CASE GotNone(t)
  <2>1. CASE task[t].warm
    BY <1>5, <2>1, FetchingKeepsInv DEF GotNone, levels
  <2>2. CASE ~task[t].warm
    <3>1. /\ Returns(t) /\ t \notin lone' /\ lone' \subseteq lone
          /\ l1' = l1 /\ l2' = l2 /\ settled' = settled
      BY <1>5, <2>2 DEF GotNone, levels
    <3> QED BY <1>2, <3>1
  <2> QED BY <2>1, <2>2
<1>6. CASE Answered(t)
  <2>1. /\ Returns(t) /\ lone' = lone /\ task[t].at = "answered"
        /\ l1' = l1 /\ l2' = l2 /\ settled' = settled
    BY <1>6 DEF Answered, levels
  <2>2. t \notin lone'
    BY <2>1 DEF SInv, LoneIsAlone, Waiting
  <2> QED BY <1>2, <2>1, <2>2
<1>7. ASSUME NEW v \in Stored, RedisWrite(t, v), task[t].at \in {"writing", "deleting"},
             task[t].at = "writing" => v = Json[task[t].value],
             task[t].at = "deleting" => v = None
      PROVE  SInv'
  <2>1. CASE UNCHANGED <<l2, settled>>
    <3>1. /\ Returns(t) /\ t \notin lone' /\ lone' \subseteq lone
          /\ l1' = l1 /\ l2' = l2 /\ settled' = settled
      BY <1>7, <2>1 DEF RedisWrite
    <3> QED BY <1>2, <3>1
  <2>2. CASE ~UNCHANGED <<l2, settled>>
    BY <1>7, <2>2, WrittenKeepsInv DEF RedisWrite
  <2> QED BY <2>1, <2>2
<1>8. CASE RedisSet(t)
  <2>1. task[t].at = "writing" /\ RedisWrite(t, Json[task[t].value])
    BY <1>8 DEF RedisSet
  <2>2. Json[task[t].value] \in Stored
    BY <2>1, CacheConstants DEF SInv, CallsOK, Stored
  <2> QED BY <1>7, <2>1, <2>2
<1>9. CASE RedisDelete(t)
  BY <1>7, <1>9 DEF RedisDelete, Stored
<1> QED BY <1>3, <1>4, <1>5, <1>6, <1>8, <1>9 DEF Proceeds

LEMMA StepKeepsInv ==
    ASSUME SInv, [Next]_vars
    PROVE  SInv'
<1>1. /\ task \in [Tasks -> CallStates] /\ Idle \in CallStates
      /\ l1 \in [Procs -> [Keys -> Stored]] /\ l2 \in [Keys -> Stored]
      /\ lone \subseteq Tasks
  BY DEF SInv, ValuesOK, CallStates, Idle, Stored
<1>2. ASSUME NEW t \in Tasks, Proceeds(t)
      PROVE  SInv'
  BY <1>2, ProceedsKeepsInv
<1>3. ASSUME NEW t \in Tasks, NEW k \in Keys, NEW v \in Given[k], Fetched(t, k, v)
      PROVE  SInv'
  BY <1>3, CacheConstants, FetchedKeepsInv
<1>4. ASSUME NEW t \in Tasks, FetchedNothing(t)
      PROVE  SInv'
  <2>1. MemoryFades /\ RedisFades
    BY <1>1, <1>4 DEF FetchedNothing, levels, MemoryFades, RedisFades
  <2> QED BY <1>1, <1>4, <2>1, FadingKeepsInv DEF FetchedNothing, Returns
<1>5. ASSUME NEW t \in Tasks, NEW p \in Procs, NEW k \in Keys, NEW warm \in BOOLEAN,
             GetHit(t, p, k, warm)
      PROVE  SInv'
  <2>1. /\ MemoryFades /\ RedisFades /\ settled' = settled /\ lone' = lone
        /\ l1[p][k] \in Stored /\ task[t] = Idle
    BY <1>1, <1>5 DEF GetHit, MemoryHit, CanCall, MemoryFades, RedisFades
  <2>2. t \notin lone
    BY <2>1 DEF SInv, LoneIsAlone, Idle, Waiting
  <2> DEFINE c == [at |-> "answered", proc |-> p, key |-> k, value |-> l1[p][k], warm |-> FALSE]
  <2>3. c \in CallStates /\ c.at = "answered" /\ c.proc \in Procs /\ c.key \in Keys
    BY <2>1 DEF CallStates
  <2>4. task' = [task EXCEPT ![t] = Idle] \/ task' = [task EXCEPT ![t] = c]
    BY <1>5 DEF GetHit, Calls, Returns
  <2> HIDE DEF c
  <2>5. /\ task' \in [Tasks -> CallStates] /\ task'[t] \in {Idle, c}
        /\ \A u \in Tasks : u # t => task'[u] = task[u]
    BY <1>1, <2>3, <2>4
  <2>6. \A u \in lone' : task'[u] = task[u]
    BY <1>1, <2>1, <2>2, <2>5
  <2>7. \A u \in Tasks : \/ task'[u] = task[u]
                         \/ task'[u] = Idle
                         \/ /\ task'[u].at = "answered"
                            /\ task'[u].proc \in Procs /\ task'[u].key \in Keys
    BY <2>3, <2>5
  <2> QED BY <2>1, <2>5, <2>6, <2>7, FadingKeepsInv
<1>6. ASSUME NEW t \in Tasks, NEW p \in Procs, NEW k \in Keys, NEW warm \in BOOLEAN,
             GetMiss(t, p, k, warm)
      PROVE  SInv'
  BY <1>6, GetMissKeepsInv
<1>7. ASSUME NEW t \in Tasks, NEW p \in Procs, NEW k \in Keys, NEW v \in Given[k],
             Put(t, p, k, v)
      PROVE  SInv'
  BY <1>7, CacheConstants, PutKeepsInv
<1>8. ASSUME NEW t \in Tasks, NEW p \in Procs, NEW k \in Keys, Delete(t, p, k)
      PROVE  SInv'
  BY <1>8, DeleteKeepsInv
<1>9. ASSUME NEW p \in Procs, CleanupRound(p) \/ Clear(p)
      PROVE  SInv'
  <2>1. MemoryClear(p) /\ UNCHANGED <<l2, frozen, task, lone, settled>>
    BY <1>9 DEF CleanupRound, Clear
  <2>2. MemoryFades /\ RedisFades
    BY <1>1, <2>1 DEF MemoryClear, MemoryFades, RedisFades, Stored
  <2> QED BY <1>1, <2>1, <2>2, FadingKeepsInv
<1>10. ASSUME NEW p \in Procs, CascadeInvalidate(p)
       PROVE  SInv'
  <2>1. MemoryFades /\ RedisFades
    BY <1>1, <1>10 DEF CascadeInvalidate, levels, MemoryFades, RedisFades
  <2> QED BY <1>1, <1>10, <2>1, FadingKeepsInv DEF CascadeInvalidate
<1>11. ASSUME NEW p \in Procs, Restart(p)
       PROVE  SInv'
  <2>1. MemoryFades /\ RedisFades
    BY <1>1, <1>11 DEF Restart, MemoryClear, MemoryFades, RedisFades, Stored
  <2>2. task' \in [Tasks -> CallStates]
        /\ \A u \in Tasks : task'[u] = task[u] \/ task'[u] = Idle
    BY <1>1, <1>11 DEF Restart
  <2>3. lone' \subseteq lone /\ \A u \in lone' : task'[u] = task[u]
    BY <1>1, <1>11 DEF Restart
  <2> QED BY <1>11, <2>1, <2>2, <2>3, FadingKeepsInv DEF Restart
<1>12. ASSUME NEW k \in Keys, RedisExpires(k)
       PROVE  SInv'
  <2>1. MemoryFades /\ RedisFades
    BY <1>1, <1>12 DEF RedisExpires, MemoryFades, RedisFades, Stored
  <2> QED BY <1>1, <1>12, <2>1, FadingKeepsInv DEF RedisExpires
<1>13. CASE UNCHANGED vars
  <2>1. MemoryFades /\ RedisFades
    BY <1>1, <1>13 DEF vars, levels, MemoryFades, RedisFades
  <2> QED BY <1>1, <1>13, <2>1, FadingKeepsInv DEF vars
<1>14. Managed \subseteq Procs
  BY CacheConstants
<1> QED BY <1>2, <1>3, <1>4, <1>5, <1>6, <1>7, <1>8, <1>9, <1>10, <1>11, <1>12, <1>13, <1>14
        DEF Next

LEMMA InitSettled == Init => SInv
<1> SUFFICES ASSUME Init PROVE SInv
  OBVIOUS
<1>1. ValuesOK
  BY DEF Init, ValuesOK, Stored, Idle, CallStates
<1>2. CallsOK /\ LoneIsAlone /\ LoneWrites
  BY DEF Init, CallsOK, Idle, LoneIsAlone, LoneWrites
<1>3. SettledIsQuiet /\ SettledSticks
  BY DEF Init, SettledIsQuiet, SettledSticks
<1> QED BY <1>1, <1>2, <1>3 DEF SInv

LEMMA InvHolds == Spec => []SInv
<1>1. SInv /\ [Next]_vars => SInv'
  BY StepKeepsInv
<1> QED BY InitSettled, <1>1, PTL DEF Spec

\* The levels agree after a write that met no other call and no error, until
\* the key is written again: however reads, promotions, evictions, expiry and
\* restarts of MultiLevelCache are interleaved, in any number of processes.
THEOREM SettledHolds == Spec => []SettledSticks
<1>1. SInv => SettledSticks
  BY DEF SInv
<1> QED BY InvHolds, <1>1, PTL

-----------------------------------------------------------------------------
(* The refinement *)

\* nothing becomes visible but what is new under k
Shows(k, new) == \A p \in Procs, j \in Keys :
    Visible(p, j)' \subseteq Visible(p, j) \cup IF j = k THEN new ELSE {}
NothingTold == [proc |-> None, key |-> None, value |-> None]

\* What is visible is in memory, in Redis, or under way.
LEMMA VisibleIs ==
    \A p \in Procs, k \in Keys : \A v : v \in Visible(p, k) <=>
       /\ v # None
       /\ \/ v \in {l1[p][k], l2[k]}
          \/ \E t \in Busy(k) : task[t].at = "read" /\ task[t].proc = p /\ task[t].value = v
          \/ \E t \in Busy(k) : task[t].at = "writing" /\ v \in {task[t].value, Json[task[t].value]}
BY DEF Visible

\* A step that shows nothing new and tells at most nothing more is a Forget.
LEMMA ForgetStep ==
    ASSUME Shows(None, {}), \A t \in Tasks : Told(t)' \in {Told(t), NothingTold}
    PROVE  Promise!Forget
BY DEF Shows, NothingTold, Promise!Forget, Promise!Fades, Promise!NoAnswer

LEMMA PutStep ==
    ASSUME NEW k \in Keys, NEW v \in Values, Shows(k, {v, Json[v]}),
           \A t \in Tasks : Told(t)' = Told(t)
    PROVE  Promise!Put(k, v)
BY DEF Shows, Promise!Put, Promise!Fades

LEMMA AnswerStep ==
    ASSUME Shows(None, {}), NEW t \in Tasks, NEW p \in Procs, NEW k \in Keys, NEW v \in Visible(p, k),
           Told(t)' = [proc |-> p, key |-> k, value |-> v],
           \A u \in Tasks : u # t => Told(u)' = Told(u)
    PROVE  Promise!Answer(t, p, k)
BY DEF Shows, Promise!Answer, Promise!Fades

\* What a step may do to memory, Redis and the calls without showing anything
\* but new under k.
Hides(k, new) ==
    /\ \A p \in Procs, j \in Keys :
         LET old == Visible(p, j) \cup {None} \cup IF j = k THEN new ELSE {}
         IN  l1'[p][j] \in old /\ l2'[j] \in old
    /\ \A t \in Tasks :
         \/ task'[t] = task[t]
         \/ task'[t].at \notin {"read", "writing"}
         \/ /\ task'[t].at = "read"
            /\ task'[t].value \in Visible(task'[t].proc, task'[t].key) \cup {None}
         \/ /\ task'[t].at = "writing" /\ task'[t].key = k
            /\ {task'[t].value, Json[task'[t].value]} \subseteq new

LEMMA HidesShows ==
    ASSUME NEW k, NEW new, Hides(k, new)
    PROVE  Shows(k, new)
<1> SUFFICES ASSUME NEW p \in Procs, NEW j \in Keys, NEW v \in Visible(p, j)'
             PROVE  v \in Visible(p, j) \cup IF j = k THEN new ELSE {}
  BY DEF Shows
<1>1. /\ v # None
      /\ \/ v \in {l1'[p][j], l2'[j]}
         \/ \E t \in Busy(j)' : task'[t].at = "read" /\ task'[t].proc = p /\ task'[t].value = v
         \/ \E t \in Busy(j)' : task'[t].at = "writing"
                                /\ v \in {task'[t].value, Json[task'[t].value]}
  BY DEF Visible
<1>2. CASE v \in {l1'[p][j], l2'[j]}
  BY <1>1, <1>2 DEF Hides
<1>3. CASE \E t \in Busy(j)' : task'[t].at = "read" /\ task'[t].proc = p /\ task'[t].value = v
  <2>1. PICK t \in Busy(j)' : task'[t].at = "read" /\ task'[t].proc = p /\ task'[t].value = v
    BY <1>3
  <2>2. t \in Tasks /\ task'[t].key = j
    BY DEF Busy
  <2>3. CASE task'[t] = task[t]
    BY <1>1, <2>1, <2>2, <2>3, VisibleIs DEF Busy
  <2>4. CASE task'[t] # task[t]
    BY <1>1, <2>1, <2>2, <2>4 DEF Hides
  <2> QED BY <2>3, <2>4
<1>4. CASE \E t \in Busy(j)' : task'[t].at = "writing"
                               /\ v \in {task'[t].value, Json[task'[t].value]}
  <2>1. PICK t \in Busy(j)' : task'[t].at = "writing"
                              /\ v \in {task'[t].value, Json[task'[t].value]}
    BY <1>4
  <2>2. t \in Tasks /\ task'[t].key = j
    BY DEF Busy
  <2>3. CASE task'[t] = task[t]
    BY <1>1, <2>1, <2>2, <2>3, VisibleIs DEF Busy
  <2>4. CASE task'[t] # task[t]
    BY <1>1, <2>1, <2>2, <2>4 DEF Hides
  <2> QED BY <2>3, <2>4
<1> QED BY <1>1, <1>2, <1>3, <1>4

\* If entries disappear, and calls end, fetch, or begin to read or delete.
LEMMA FadingHides ==
    ASSUME MemoryFades, RedisFades,
           \A t \in Tasks : task'[t] = task[t] \/ task'[t].at \notin {"read", "writing"}
    PROVE  Hides(None, {})
<1> SUFFICES ASSUME NEW p \in Procs, NEW j \in Keys
             PROVE  /\ l1'[p][j] \in Visible(p, j) \cup {None}
                    /\ l2'[j] \in Visible(p, j) \cup {None}
  BY DEF Hides
<1>1. l1'[p][j] \in {l1[p][j], None} /\ l2'[j] \in {l2[j], None}
  BY DEF MemoryFades, RedisFades
<1> QED BY <1>1, VisibleIs

\* The steps that make entries disappear and tell nothing new.
LEMMA FadingIsForget ==
    ASSUME MemoryFades, RedisFades,
           \A t \in Tasks : \/ task'[t] = task[t]
                            \/ task'[t].at \notin {"read", "writing", "answered"}
    PROVE  Promise!Forget
<1>1. Shows(None, {})
  BY FadingHides, HidesShows
<1>2. \A t \in Tasks : Told(t)' \in {Told(t), NothingTold}
  BY DEF Told, NothingTold
<1> QED BY <1>1, <1>2, ForgetStep

LEMMA GetHitTells ==
    ASSUME SInv, NEW t \in Tasks, NEW p \in Procs, NEW k \in Keys, NEW warm \in BOOLEAN,
           GetHit(t, p, k, warm)
    PROVE  Promise!Next
<1>1. /\ task \in [Tasks -> CallStates] /\ task[t] = Idle /\ l1[p][k] # None
      /\ MemoryFades /\ RedisFades
  BY DEF SInv, ValuesOK, GetHit, CanCall, MemoryHit, MemoryFades, RedisFades
<1>2. CASE warm
  <2>1. \A u \in Tasks : task'[u] = task[u] \/ task'[u].at \notin {"read", "writing", "answered"}
    BY <1>1, <1>2 DEF GetHit, Returns, Idle
  <2> QED BY <1>1, <2>1, FadingIsForget DEF Promise!Next
<1>3. CASE ~warm
  <2>1. task'[t] = [at |-> "answered", proc |-> p, key |-> k, value |-> l1[p][k], warm |-> FALSE]
        /\ \A u \in Tasks : u # t => task'[u] = task[u]
    BY <1>1, <1>3 DEF GetHit, Calls
  <2>2. Told(t)' = [proc |-> p, key |-> k, value |-> l1[p][k]]
        /\ \A u \in Tasks : u # t => Told(u)' = Told(u)
    BY <2>1 DEF Told
  <2>3. Shows(None, {})
    BY <1>1, <2>1, FadingHides, HidesShows
  <2>4. l1[p][k] \in Visible(p, k)
    BY <1>1, VisibleIs
  <2> QED BY <2>2, <2>3, <2>4, AnswerStep DEF Promise!Next
<1> QED BY <1>2, <1>3

LEMMA RedisGetForgets ==
    ASSUME SInv, NEW t \in Tasks, RedisGet(t)
    PROVE  Promise!Forget
<1>1. task \in [Tasks -> CallStates] /\ task[t] \in CallStates /\ task[t].key \in Keys
      /\ task[t].proc \in Procs /\ task[t].at = "reading"
  BY DEF SInv, ValuesOK, CallsOK, RedisGet
<1>2. PICK v \in {l2[task[t].key], None} :
        task' = [task EXCEPT ![t].at = "read", ![t].value = v]
  BY DEF RedisGet, GoesOn
<1>3. /\ \A u \in Tasks : u # t => task'[u] = task[u]
      /\ task'[t] = [task[t] EXCEPT !.at = "read", !.value = v]
  BY <1>1, <1>2
<1>4. /\ task'[t].at = "read" /\ task'[t].value = v
      /\ task'[t].proc = task[t].proc /\ task'[t].key = task[t].key
  BY <1>1, <1>3 DEF CallStates
<1>5. v \in Visible(task[t].proc, task[t].key) \cup {None}
  BY <1>1, <1>2, VisibleIs
<1>6. Hides(None, {})
  <2>1. \A p \in Procs, j \in Keys :
          l1'[p][j] \in Visible(p, j) \cup {None} /\ l2'[j] \in Visible(p, j) \cup {None}
    BY VisibleIs DEF RedisGet, levels
  <2> QED BY <1>3, <1>4, <1>5, <2>1 DEF Hides
<1>7. \A u \in Tasks : Told(u)' = Told(u)
  BY <1>1, <1>3, <1>4 DEF Told
<1> QED BY <1>6, <1>7, HidesShows, ForgetStep

LEMMA GotValueTells ==
    ASSUME SInv, NEW t \in Tasks, GotValue(t)
    PROVE  Promise!Next
<1> DEFINE p == task[t].proc
           k == task[t].key
           v == task[t].value
<1>1. /\ task \in [Tasks -> CallStates] /\ task[t] \in CallStates /\ task[t].at = "read"
      /\ p \in Procs /\ k \in Keys /\ v \in Values /\ v # None
      /\ MemoryPut(p, k, v) /\ l2' = l2
  BY DEF SInv, ValuesOK, CallsOK, GotValue, Promote, CallStates, Stored
<1>2. v \in Visible(p, k)
  <2>1. t \in Busy(k)
    BY <1>1 DEF Busy, Waiting
  <2> QED BY <1>1, <2>1, VisibleIs
<1>3. /\ l1'[p][k] = v
      /\ \A q \in Procs, j \in Keys : (q # p \/ j # k) => l1'[q][j] \in {l1[q][j], None}
  BY <1>1, PutSetsOne DEF SInv
<1>4. /\ \A u \in Tasks : u # t => task'[u] = task[u]
      /\ IF task[t].warm THEN task'[t] = Idle
         ELSE task'[t] = [task[t] EXCEPT !.at = "answered", !.value = v]
  BY <1>1 DEF GotValue, Returns, GoesOn
<1>5. /\ task'[t].at \in {"idle", "answered"}
      /\ Told(t)' \in {NothingTold, [proc |-> p, key |-> k, value |-> v]}
      /\ Told(t) = NothingTold
  <2>1. CASE task[t].warm
    BY <1>1, <1>4, <2>1 DEF Told, NothingTold, Idle
  <2>2. CASE ~task[t].warm
    BY <1>1, <1>4, <2>2 DEF Told, NothingTold, CallStates
  <2> QED BY <2>1, <2>2
<1>6. Shows(None, {})
  <2>1. \A q \in Procs, j \in Keys :
          l1'[q][j] \in Visible(q, j) \cup {None} /\ l2'[j] \in Visible(q, j) \cup {None}
    BY <1>1, <1>2, <1>3, VisibleIs
  <2> QED BY <1>4, <1>5, <2>1, HidesShows DEF Hides
<1>7. \A u \in Tasks : u # t => Told(u)' = Told(u)
  BY <1>4 DEF Told
<1>8. CASE Told(t)' = NothingTold
  BY <1>5, <1>6, <1>7, <1>8, ForgetStep DEF Promise!Next
<1>9. CASE Told(t)' = [proc |-> p, key |-> k, value |-> v]
  <2> HIDE DEF p, k, v
  <2>1. Promise!Answer(t, p, k)
    BY <1>1, <1>2, <1>6, <1>7, <1>9, AnswerStep
  <2> QED BY <1>1, <2>1 DEF Promise!Next
<1> QED BY <1>5, <1>8, <1>9

\* A put shows its value, and what Redis makes of it.
LEMMA WritingIsPut ==
    ASSUME SInv, NEW t \in Tasks, NEW p \in Procs, NEW k \in Keys, NEW v \in Values,
           MemoryPut(p, k, v), l2' = l2, task[t].at # "answered",
           task'[t].at = "writing", task'[t].key = k, task'[t].value = v,
           \A u \in Tasks : u # t => task'[u] = task[u]
    PROVE  Promise!Next
<1>1. /\ l1'[p][k] = v
      /\ \A q \in Procs, j \in Keys : (q # p \/ j # k) => l1'[q][j] \in {l1[q][j], None}
  BY PutSetsOne DEF SInv
<1>2. Hides(k, {v, Json[v]})
  <2>1. \A q \in Procs, j \in Keys :
          LET old == Visible(q, j) \cup {None} \cup IF j = k THEN {v, Json[v]} ELSE {}
          IN  l1'[q][j] \in old /\ l2'[j] \in old
    BY <1>1, VisibleIs
  <2> QED BY <2>1 DEF Hides
<1>3. \A u \in Tasks : Told(u)' = Told(u)
  BY DEF Told
<1>4. Promise!Put(k, v)
  BY <1>2, <1>3, HidesShows, PutStep
<1> QED BY <1>4 DEF Promise!Next

LEMMA RedisWriteForgets ==
    ASSUME SInv, NEW t \in Tasks, NEW v \in {Json[task[t].value], None}, RedisWrite(t, v),
           v # None => task[t].at = "writing", task[t].at # "answered", task[t].at # "idle"
    PROVE  Promise!Forget
<1>1. /\ task \in [Tasks -> CallStates] /\ task[t] \in CallStates
      /\ task[t].key \in Keys /\ l2 \in [Keys -> Stored] /\ l1' = l1
  BY DEF SInv, ValuesOK, CallsOK, RedisWrite
<1>2. task'[t] = Idle /\ \A u \in Tasks : u # t => task'[u] = task[u]
  BY <1>1 DEF RedisWrite, Returns
<1>3. \A j \in Keys : l2'[j] = l2[j] \/ (j = task[t].key /\ l2'[j] = v)
  BY <1>1 DEF RedisWrite
<1>4. \A p \in Procs : v \in Visible(p, task[t].key) \cup {None}
  <2>1. CASE v = None
    BY <2>1
  <2>2. CASE v # None
    <3>1. t \in Busy(task[t].key)
      BY <2>2 DEF Busy, Waiting
    <3> QED BY <1>1, <2>2, <3>1, VisibleIs
  <2> QED BY <2>1, <2>2
<1>5. Hides(None, {})
  <2>1. \A p \in Procs, j \in Keys :
          l1'[p][j] \in Visible(p, j) \cup {None} /\ l2'[j] \in Visible(p, j) \cup {None}
    BY <1>1, <1>3, <1>4, VisibleIs
  <2> QED BY <1>2, <2>1 DEF Hides, Idle
<1>6. \A u \in Tasks : Told(u)' = Told(u)
  BY <1>2 DEF Told, Idle
<1> QED BY <1>5, <1>6, HidesShows, ForgetStep

\* A call that turns to writing keeps its key.
LEMMA WritingCall ==
    ASSUME NEW call \in CallStates, NEW v
    PROVE  /\ [call EXCEPT !.at = "writing", !.value = v].at = "writing"
           /\ [call EXCEPT !.at = "writing", !.value = v].key = call.key
           /\ [call EXCEPT !.at = "writing", !.value = v].value = v
<1>1. [call EXCEPT !.at = "writing", !.value = v].at = "writing"
  BY SMTT(30) DEF CallStates
<1>2. [call EXCEPT !.at = "writing", !.value = v].key = call.key
  BY SMTT(30) DEF CallStates
<1>3. [call EXCEPT !.at = "writing", !.value = v].value = v
  BY SMTT(30) DEF CallStates
<1> QED BY <1>1, <1>2, <1>3

\* Every step is a step of the promise, or changes nothing of it.
LEMMA StepKeepsPromise ==
    ASSUME SInv, [Next]_vars
    PROVE  [Promise!Next]_Promise!vars
<1>1. /\ task \in [Tasks -> CallStates]
      /\ l1 \in [Procs -> [Keys -> Stored]] /\ l2 \in [Keys -> Stored]
  BY DEF SInv, ValuesOK
<1>2. ASSUME MemoryFades, RedisFades,
             \A t \in Tasks : \/ task'[t] = task[t]
                              \/ task'[t].at \notin {"read", "writing", "answered"}
      PROVE  Promise!Next
  BY <1>2, FadingIsForget DEF Promise!Next
<1>3. ASSUME NEW t \in Tasks, Proceeds(t)
      PROVE  Promise!Next
  <2>1. CASE RedisGet(t)
    BY <2>1, RedisGetForgets DEF Promise!Next
  <2>2. CASE GotValue(t)
    BY <2>2, GotValueTells
  <2>3. CASE GotNone(t)
    <3>1. MemoryFades /\ RedisFades
      BY <1>1, <2>3 DEF GotNone, levels, MemoryFades, RedisFades
    <3>2. \A u \in Tasks : task'[u] = task[u] \/ task'[u].at \notin {"read", "writing", "answered"}
      <4>1. task[t] \in CallStates
        BY <1>1
      <4>2. \/ task' = [task EXCEPT ![t].at = "fetching", ![t].value = None]
            \/ task' = [task EXCEPT ![t] = Idle]
        BY <2>3 DEF GotNone, GoesOn, Returns
      <4> QED BY <1>1, <4>1, <4>2 DEF Idle, CallStates
    <3> QED BY <1>2, <3>1, <3>2
  <2>4. CASE Answered(t)
    <3>1. MemoryFades /\ RedisFades
      BY <1>1, <2>4 DEF Answered, levels, MemoryFades, RedisFades
    <3>2. \A u \in Tasks : task'[u] = task[u] \/ task'[u].at \notin {"read", "writing", "answered"}
      BY <1>1, <2>4 DEF Answered, Returns, Idle
    <3> QED BY <1>2, <3>1, <3>2
  <2>5. CASE RedisSet(t)
    BY <2>5, RedisWriteForgets DEF RedisSet, Promise!Next
  <2>6. CASE RedisDelete(t)
    BY <2>6, RedisWriteForgets DEF RedisDelete, Promise!Next
  <2> QED BY <1>3, <2>1, <2>2, <2>3, <2>4, <2>5, <2>6 DEF Proceeds
<1>4. ASSUME NEW t \in Tasks, NEW k \in Keys, NEW v \in Given[k], Fetched(t, k, v)
      PROVE  Promise!Next
  <2>1. /\ v \in Values /\ task[t] \in CallStates /\ task[t].at = "fetching" /\ task[t].key = k
        /\ task[t].proc \in Procs /\ MemoryPut(task[t].proc, k, v) /\ l2' = l2
        /\ task' = [task EXCEPT ![t].at = "writing", ![t].value = v]
    BY <1>1, <1>4, CacheConstants DEF Fetched, GoesOn, SInv, CallsOK
  <2>2. /\ task'[t] = [task[t] EXCEPT !.at = "writing", !.value = v]
        /\ \A u \in Tasks : u # t => task'[u] = task[u]
    BY <1>1, <2>1
  <2>3. task'[t].at = "writing" /\ task'[t].key = k /\ task'[t].value = v
    <3> DEFINE call == task[t]
    <3>1. call \in CallStates /\ call.key = k /\ task'[t] = [call EXCEPT !.at = "writing", !.value = v]
      BY <2>1, <2>2
    <3>2. \A c \in CallStates :
             /\ [c EXCEPT !.at = "writing", !.value = v].at = "writing"
             /\ [c EXCEPT !.at = "writing", !.value = v].key = c.key
             /\ [c EXCEPT !.at = "writing", !.value = v].value = v
      BY WritingCall
    <3> HIDE DEF call
    <3>3. /\ [call EXCEPT !.at = "writing", !.value = v].at = "writing"
          /\ [call EXCEPT !.at = "writing", !.value = v].key = call.key
          /\ [call EXCEPT !.at = "writing", !.value = v].value = v
      BY <3>1, <3>2
    <3> QED BY <3>1, <3>3
  <2> QED BY <2>1, <2>2, <2>3, WritingIsPut
<1>5. ASSUME NEW t \in Tasks, FetchedNothing(t)
      PROVE  Promise!Next
  <2>1. MemoryFades /\ RedisFades
    BY <1>1, <1>5 DEF FetchedNothing, levels, MemoryFades, RedisFades
  <2>2. \A u \in Tasks : task'[u] = task[u] \/ task'[u].at \notin {"read", "writing", "answered"}
    BY <1>1, <1>5 DEF FetchedNothing, Returns, Idle
  <2> QED BY <1>2, <2>1, <2>2
<1>6. ASSUME NEW t \in Tasks, NEW p \in Procs, NEW k \in Keys, NEW warm \in BOOLEAN,
             GetMiss(t, p, k, warm)
      PROVE  Promise!Next
  <2>1. MemoryFades
    BY <1>6, DropFades DEF GetMiss, SInv
  <2>2. RedisFades
    BY <1>1, <1>6 DEF GetMiss, RedisFades
  <2>3. \A u \in Tasks : task'[u] = task[u] \/ task'[u].at \notin {"read", "writing", "answered"}
    BY <1>1, <1>6 DEF GetMiss, Calls
  <2> QED BY <1>2, <2>1, <2>2, <2>3
<1>7. ASSUME NEW t \in Tasks, NEW p \in Procs, NEW k \in Keys, NEW v \in Given[k],
             Put(t, p, k, v)
      PROVE  Promise!Next
  <2>1. /\ v \in Values /\ task[t] = Idle /\ MemoryPut(p, k, v) /\ l2' = l2
        /\ task' = [task EXCEPT ![t] =
             [at |-> "writing", proc |-> p, key |-> k, value |-> v, warm |-> FALSE]]
    BY <1>7, CacheConstants DEF Put, CanCall, Calls
  <2>2. /\ task[t].at # "answered" /\ task'[t].at = "writing" /\ task'[t].key = k
        /\ task'[t].value = v /\ \A u \in Tasks : u # t => task'[u] = task[u]
    BY <1>1, <2>1 DEF Idle
  <2> QED BY <2>1, <2>2, WritingIsPut
<1>8. ASSUME NEW t \in Tasks, NEW p \in Procs, NEW k \in Keys, Delete(t, p, k)
      PROVE  Promise!Next
  <2>1. MemoryFades
    BY <1>8, DropFades DEF Delete, SInv
  <2>2. RedisFades
    BY <1>1, <1>8 DEF Delete, RedisFades
  <2>3. \A u \in Tasks : task'[u] = task[u] \/ task'[u].at \notin {"read", "writing", "answered"}
    BY <1>1, <1>8 DEF Delete, Calls
  <2> QED BY <1>2, <2>1, <2>2, <2>3
<1>9. ASSUME NEW p \in Procs, CleanupRound(p) \/ Clear(p)
      PROVE  Promise!Next
  <2>1. MemoryClear(p) /\ UNCHANGED <<l2, task>>
    BY <1>9 DEF CleanupRound, Clear
  <2>2. MemoryFades /\ RedisFades
    BY <1>1, <2>1 DEF MemoryClear, MemoryFades, RedisFades, Stored
  <2> QED BY <1>2, <2>1, <2>2
<1>10. ASSUME NEW p \in Procs, CascadeInvalidate(p)
       PROVE  Promise!Next
  <2>1. MemoryFades /\ RedisFades
    BY <1>1, <1>10 DEF CascadeInvalidate, levels, MemoryFades, RedisFades
  <2> QED BY <1>2, <1>10, <2>1 DEF CascadeInvalidate
<1>11. ASSUME NEW p \in Procs, Restart(p)
       PROVE  Promise!Next
  <2>1. MemoryFades /\ RedisFades
    BY <1>1, <1>11 DEF Restart, MemoryClear, MemoryFades, RedisFades, Stored
  <2>2. \A u \in Tasks : task'[u] = task[u] \/ task'[u].at \notin {"read", "writing", "answered"}
    BY <1>11 DEF Restart, Idle
  <2> QED BY <1>2, <2>1, <2>2
<1>12. ASSUME NEW k \in Keys, RedisExpires(k)
       PROVE  Promise!Next
  <2>1. MemoryFades /\ RedisFades
    BY <1>1, <1>12 DEF RedisExpires, MemoryFades, RedisFades, Stored
  <2> QED BY <1>2, <1>12, <2>1 DEF RedisExpires
<1>13. CASE UNCHANGED vars
  BY <1>13 DEF vars, levels, Promise!vars, Visible, Busy, Told
<1>14. Managed \subseteq Procs
  BY CacheConstants
<1>15. ASSUME NEW t \in Tasks, NEW p \in Procs, NEW k \in Keys, NEW warm \in BOOLEAN,
             GetHit(t, p, k, warm)
      PROVE  Promise!Next
  BY <1>15, GetHitTells
<1> QED BY <1>3, <1>4, <1>5, <1>6, <1>7, <1>8, <1>9, <1>10, <1>11, <1>12, <1>13, <1>14, <1>15
        DEF Next

LEMMA InitKeepsPromise == Init => Promise!Init
<1> SUFFICES ASSUME Init PROVE Promise!Init
  OBVIOUS
<1>1. \A p \in Procs, k \in Keys : Visible(p, k) = {}
  BY DEF Init, Visible, Busy, Waiting, Idle
<1>2. \A t \in Tasks : Told(t) = NothingTold
  BY DEF Init, Told, Idle, NothingTold
<1> QED BY <1>1, <1>2 DEF Promise!Init, Promise!NoAnswer, NothingTold

\* MultiLevelCache implements VolatileCache: whatever is interleaved, a process
\* is told a value only while memory, Redis or a call under way still has it.
THEOREM CacheKeepsPromise == Spec => ImplementsVolatileCache
<1>1. SInv /\ [Next]_vars => [Promise!Next]_Promise!vars
  BY StepKeepsPromise
<1> QED BY InvHolds, InitKeepsPromise, <1>1, PTL DEF Spec, ImplementsVolatileCache, Promise!Spec

-----------------------------------------------------------------------------
(* The order of the keys: sequences *)

LEMMA Removed ==
    ASSUME NEW S, NEW s \in Seq(S), NEW r \in 1..Len(s)
    PROVE  /\ RemoveAt(s, r) \in Seq(S)
           /\ Len(RemoveAt(s, r)) = Len(s) - 1
           /\ \A i \in 1..Len(s) - 1 : RemoveAt(s, r)[i] = IF i < r THEN s[i] ELSE s[i + 1]
<1> DEFINE a == SubSeq(s, 1, r - 1)
           b == SubSeq(s, r + 1, Len(s))
<1>0. Len(s) \in Nat /\ r \in Int
  OBVIOUS
<1>1. /\ a \in Seq(S) /\ Len(a) = r - 1
      /\ \A i \in 1..r - 1 : a[i] = s[i]
  <2>1. \A i \in 1..r - 1 : s[i] \in S
    OBVIOUS
  <2> QED BY <1>0, <2>1, SubSeqProperties
<1>2. /\ b \in Seq(S) /\ Len(b) = Len(s) - r
      /\ \A i \in 1..Len(s) - r : b[i] = s[r + i]
  <2>1. \A i \in r + 1..Len(s) : s[i] \in S
    OBVIOUS
  <2> QED BY <1>0, <2>1, SubSeqProperties
<1>3. RemoveAt(s, r) = a \o b
  BY DEF RemoveAt
<1> HIDE DEF a, b
<1>4. /\ a \o b \in Seq(S) /\ Len(a \o b) = Len(a) + Len(b)
      /\ \A i \in 1..Len(a) + Len(b) : (a \o b)[i] = IF i <= Len(a) THEN a[i] ELSE b[i - Len(a)]
  BY <1>1, <1>2, ConcatProperties
<1>5. Len(a) + Len(b) = Len(s) - 1
  BY <1>0, <1>1, <1>2
<1>6. ASSUME NEW i \in 1..Len(s) - 1 PROVE (a \o b)[i] = IF i < r THEN s[i] ELSE s[i + 1]
  <2>1. (a \o b)[i] = IF i <= r - 1 THEN a[i] ELSE b[i - (r - 1)]
    BY <1>1, <1>4, <1>5
  <2>2. CASE i < r
    BY <1>0, <1>1, <2>1, <2>2
  <2>3. CASE ~(i < r)
    <3>1. i - (r - 1) \in 1..Len(s) - r /\ r + (i - (r - 1)) = i + 1 /\ ~(i <= r - 1)
      BY <1>0, <2>3
    <3> QED BY <1>0, <1>2, <2>1, <2>3, <3>1
  <2> QED BY <2>2, <2>3
<1> QED BY <1>3, <1>4, <1>5, <1>6

\* Without one place, a sequence without repetitions lacks what stood there.
LEMMA RemovedOne ==
    ASSUME NEW S, NEW s \in Seq(S), IsInjective(s), NEW r \in 1..Len(s)
    PROVE  IsInjective(RemoveAt(s, r)) /\ ToSet(RemoveAt(s, r)) = ToSet(s) \ {s[r]}
<1> DEFINE t == RemoveAt(s, r)
<1>0. Len(s) \in Nat /\ r \in Nat
  OBVIOUS
<1>1. /\ t \in Seq(S) /\ Len(t) = Len(s) - 1 /\ Len(s) \in Nat /\ r \in Nat
      /\ \A i \in 1..Len(s) - 1 : t[i] = IF i < r THEN s[i] ELSE s[i + 1]
  <2>1. /\ RemoveAt(s, r) \in Seq(S) /\ Len(RemoveAt(s, r)) = Len(s) - 1
        /\ \A i \in 1..Len(s) - 1 : RemoveAt(s, r)[i] = IF i < r THEN s[i] ELSE s[i + 1]
    BY Removed
  <2> QED BY <1>0, <2>1
<1>2. DOMAIN t = 1..Len(s) - 1 /\ DOMAIN s = 1..Len(s)
  BY <1>1
<1> HIDE DEF t
<1>3. \A i, j \in 1..Len(s) : s[i] = s[j] => i = j
  BY <1>2 DEF IsInjective
<1>4. ASSUME NEW i \in 1..Len(s) - 1, NEW j \in 1..Len(s) - 1, t[i] = t[j] PROVE i = j
  <2>1. i \in 1..Len(s) /\ j \in 1..Len(s) /\ i + 1 \in 1..Len(s) /\ j + 1 \in 1..Len(s)
    BY <1>1
  <2> QED BY <1>1, <1>3, <1>4, <2>1
<1>5. ASSUME NEW i \in 1..Len(s), s[i] # s[r] PROVE \E j \in 1..Len(s) - 1 : t[j] = s[i]
  <2>1. CASE i < r
    <3>1. i \in 1..Len(s) - 1 /\ t[i] = s[i]
      BY <1>1, <2>1
    <3> QED BY <3>1
  <2>2. CASE i > r
    <3>1. i - 1 \in 1..Len(s) - 1 /\ ~(i - 1 < r) /\ i - 1 + 1 = i
      BY <1>1, <2>2
    <3>2. t[i - 1] = s[i]
      BY <1>1, <3>1
    <3> QED BY <3>1, <3>2
  <2> QED BY <1>1, <1>5, <2>1, <2>2
<1>6. ASSUME NEW j \in 1..Len(s) - 1 PROVE \E i \in 1..Len(s) : t[j] = s[i] /\ s[i] # s[r]
  <2>1. j \in 1..Len(s) /\ j + 1 \in 1..Len(s)
    BY <1>1
  <2>2. CASE j < r
    BY <1>1, <1>3, <2>1, <2>2
  <2>3. CASE ~(j < r)
    <3>1. t[j] = s[j + 1] /\ j + 1 # r
      BY <1>1, <2>1, <2>3
    <3> QED BY <1>3, <2>1, <3>1
  <2> QED BY <2>2, <2>3
<1>7. ToSet(t) = ToSet(s) \ {s[r]}
  <2>1. \A i \in 1..Len(s) : s[i] # s[r] => s[i] \in ToSet(t)
    BY <1>2, <1>5 DEF ToSet
  <2>2. \A x \in ToSet(t) : x \in ToSet(s) \ {s[r]}
    BY <1>2, <1>6 DEF ToSet
  <2>3. \A x \in ToSet(s) : \E i \in 1..Len(s) : x = s[i]
    BY <1>2 DEF ToSet
  <2> QED BY <2>1, <2>2, <2>3
<1> QED BY <1>2, <1>4, <1>7 DEF IsInjective, t

\* What SelectInSeq finds is a place that passes the test, if there is one.
LEMMA SmallestPlace ==
    ASSUME NEW I \in SUBSET Nat, I # {}
    PROVE  Min(I) \in I
<1> DEFINE R == {ss \in Nat \X Nat : ss[1] < ss[2]}
<1>0. IsWellFoundedOn(R, Nat)
  BY NatLessThanWellFounded DEF OpToRel
<1> HIDE DEF R
<1>1. PICK x \in I : \A y \in I : ~(<<y, x>> \in R)
  BY <1>0, WFMin
<1>2. ASSUME NEW y \in I PROVE x <= y
  <2>1. x \in Nat /\ y \in Nat /\ ~(<<y, x>> \in R)
    BY <1>1
  <2> QED BY <2>1 DEF R
<1> QED BY <1>2 DEF Min

LEMMA RemovedKey ==
    ASSUME NEW S, NEW s \in Seq(S), IsInjective(s), NEW e
    PROVE  /\ RemoveFirst(s, e) \in Seq(S) /\ IsInjective(RemoveFirst(s, e))
           /\ ToSet(RemoveFirst(s, e)) = ToSet(s) \ {e}
           /\ Len(RemoveFirst(s, e)) = IF e \in ToSet(s) THEN Len(s) - 1 ELSE Len(s)
<1>1. DOMAIN s = 1..Len(s) /\ Len(s) \in Nat
  OBVIOUS
<1>2. CASE \E i \in 1..Len(s) : s[i] = e
  <2> DEFINE I == {i \in 1..Len(s) : s[i] = e}
  <2>a. I \in SUBSET Nat /\ I # {}
    BY <1>1, <1>2
  <2>1. Min(I) \in I
    BY <2>a, SmallestPlace
  <2>2. RemoveFirst(s, e) = RemoveAt(s, Min(I))
    BY <1>2 DEF RemoveFirst, SelectInSeq
  <2>3. e \in ToSet(s)
    BY <1>1, <1>2 DEF ToSet
  <2> HIDE DEF I
  <2>4. Min(I) \in 1..Len(s) /\ s[Min(I)] = e
    BY <2>1 DEF I
  <2> QED BY <2>2, <2>3, <2>4, Removed, RemovedOne
<1>3. CASE ~(\E i \in 1..Len(s) : s[i] = e)
  <2>1. RemoveFirst(s, e) = s /\ e \notin ToSet(s)
    BY <1>1, <1>3 DEF RemoveFirst, ToSet
  <2> QED BY <2>1
<1> QED BY <1>2, <1>3

LEMMA AddedKey ==
    ASSUME NEW S, NEW s \in Seq(S), IsInjective(s), NEW e \in S, e \notin ToSet(s)
    PROVE  /\ Append(s, e) \in Seq(S) /\ IsInjective(Append(s, e))
           /\ ToSet(Append(s, e)) = ToSet(s) \cup {e}
           /\ Len(Append(s, e)) = Len(s) + 1
<1> DEFINE t == Append(s, e)
<1>1. /\ t \in Seq(S) /\ Len(t) = Len(s) + 1 /\ t[Len(s) + 1] = e
      /\ \A i \in 1..Len(s) : t[i] = s[i]
  BY AppendProperties
<1>2. DOMAIN s = 1..Len(s) /\ Len(s) \in Nat /\ DOMAIN t = 1..Len(s) + 1
  BY <1>1
<1> HIDE DEF t
<1>3. \A i \in 1..Len(s) + 1 : i \in 1..Len(s) \/ i = Len(s) + 1
  BY <1>2
<1>4. \A i \in 1..Len(s) : i \in 1..Len(s) + 1 /\ s[i] # e
  BY <1>2 DEF ToSet
<1>5. Len(s) + 1 \in 1..Len(s) + 1
  BY <1>2
<1>6. IsInjective(t)
  BY <1>1, <1>2, <1>3, <1>4 DEF IsInjective
<1>7. ToSet(t) = ToSet(s) \cup {e}
  BY <1>1, <1>2, <1>3, <1>4, <1>5 DEF ToSet
<1> QED BY <1>1, <1>6, <1>7 DEF t

-----------------------------------------------------------------------------
(* The order of the keys: MemoryCache *)

\* s lists the keys of the set held once each, and not too many of them in a
\* process that evicts.
Lists(p, s, held) ==
    /\ s \in Seq(Keys) /\ IsInjective(s)
    /\ ToSet(s) = held
    /\ Policy[p] # "ttl" => Len(s) <= MaxSize
OrderOK ==
    /\ order \in [Procs -> Seq(Keys)]
    /\ uses \in [Procs -> [Keys -> 0..MaxUses]]
    /\ \A p \in Procs : Lists(p, order[p], Held(p))

\* What is evicted stands in the order; without anything to evict there is
\* room, or the policy is "ttl".
LEMMA VictimStands ==
    ASSUME OrderOK, NEW p \in Procs, Full(p)
    PROVE  IF Policy[p] = "ttl" THEN Victim(p) = 0 ELSE Victim(p) \in 1..Len(order[p])
<1> DEFINE s == order[p]
<1>1. s \in Seq(Keys) /\ Len(s) \in Nat /\ DOMAIN s = 1..Len(s) /\ ToSet(s) = Held(p)
  BY DEF OrderOK, Lists
<1>2. Policy[p] \in {"lru", "fifo", "lfu", "ttl"} /\ MaxSize \in Nat \ {0}
  BY CacheConstants
<1>3. Len(s) >= 1 /\ s # <<>>
  BY <1>1, <1>2 DEF Full
<1>4. CASE Policy[p] = "ttl"
  BY <1>4 DEF Victim
<1>5. CASE Policy[p] \in {"lru", "fifo"}
  BY <1>1, <1>3, <1>5 DEF Victim
<1>6. CASE Policy[p] = "lfu"
  <2> DEFINE T == {uses[p][k] : k \in Held(p)}
             R == {ss \in Nat \X Nat : ss[1] < ss[2]}
             I == {i \in 1..Len(s) : \A j \in Held(p) : uses[p][s[i]] <= uses[p][j]}
  <2>1. IsWellFoundedOn(R, Nat)
    BY NatLessThanWellFounded DEF OpToRel
  <2>2. \A k \in Held(p) : uses[p][k] \in Nat
    BY CacheConstants DEF OrderOK, Held
  <2>3. s[1] \in Held(p)
    BY <1>1, <1>3 DEF ToSet
  <2>4. T \subseteq Nat /\ T # {}
    BY <2>2, <2>3
  <2> HIDE DEF R
  <2>5. PICK n \in T : \A m \in T : ~(<<m, n>> \in R)
    BY <2>1, <2>4, WFMin
  <2>6. PICK k \in Held(p) : n = uses[p][k]
    BY <2>5
  <2>7. ASSUME NEW j \in Held(p) PROVE uses[p][k] <= uses[p][j]
    <3>1. uses[p][j] \in T /\ uses[p][j] \in Nat /\ uses[p][k] \in Nat
      BY <2>2
    <3>2. ~(<<uses[p][j], uses[p][k]>> \in R)
      BY <2>5, <2>6, <3>1
    <3> QED BY <3>1, <3>2 DEF R
  <2>8. PICK i \in 1..Len(s) : s[i] = k
    BY <1>1 DEF ToSet
  <2>9. I \in SUBSET Nat /\ I # {}
    BY <1>1, <2>7, <2>8
  <2>10. Victim(p) = Min(I)
    BY <1>3, <1>6, <2>9 DEF Victim, SelectInSeq
  <2>11. Min(I) \in I
    BY <2>9, SmallestPlace
  <2> QED BY <1>6, <2>10, <2>11
<1> QED BY <1>2, <1>4, <1>5, <1>6

\* What the others hold does not change.
LEMMA OthersListed ==
    ASSUME OrderOK, ValuesOK, NEW p \in Procs,
           \A q \in Procs \ {p} : l1'[q] = l1[q] /\ order'[q] = order[q],
           order' \in [Procs -> Seq(Keys)], uses' \in [Procs -> [Keys -> 0..MaxUses]],
           Lists(p, order'[p], Held(p)')
    PROVE  OrderOK'
<1> SUFFICES ASSUME NEW q \in Procs PROVE Lists(q, order'[q], Held(q)')
  BY DEF OrderOK
<1>1. CASE q = p
  BY <1>1
<1>2. CASE q # p
  <2>1. Held(q)' = Held(q)
    BY <1>2 DEF Held
  <2> QED BY <1>2, <2>1 DEF OrderOK
<1> QED BY <1>1, <1>2

\* A put lists its key at the end, and at most one key less.
LEMMA PutLists ==
    ASSUME OrderOK, ValuesOK, NEW p \in Procs, NEW k \in Keys, NEW v \in Values, MemoryPut(p, k, v)
    PROVE  OrderOK'
<1> DEFINE s == order[p]
           at == IF l1[p][k] = None /\ Full(p) THEN Victim(p) ELSE 0
           out == IF at = 0 THEN {} ELSE {s[at]}
           left == IF at = 0 THEN s ELSE RemoveAt(s, at)
           after == IF l1[p][k] = None THEN Append(left, k) ELSE s
<1>1. /\ s \in Seq(Keys) /\ IsInjective(s) /\ ToSet(s) = Held(p)
      /\ Policy[p] # "ttl" => Len(s) <= MaxSize
      /\ Len(s) \in Nat /\ MaxSize \in Nat \ {0} /\ MaxUses \in Nat
  BY CacheConstants DEF OrderOK, Lists
<1>2. \/ at = 0 /\ (l1[p][k] = None /\ Policy[p] # "ttl" => Len(s) < MaxSize)
      \/ at \in 1..Len(s) /\ l1[p][k] = None
  BY <1>1, VictimStands DEF Full
<1>3. /\ left \in Seq(Keys) /\ IsInjective(left)
      /\ ToSet(left) = Held(p) \ out
      /\ l1[p][k] = None /\ Policy[p] # "ttl" => Len(left) < MaxSize
      /\ l1[p][k] # None => left = s /\ out = {}
  <2>1. CASE at = 0
    BY <1>1, <1>2, <2>1
  <2>2. CASE at # 0
    <3>1. at \in 1..Len(s) /\ l1[p][k] = None
      BY <1>2, <2>2
    <3> HIDE DEF at
    <3>2. /\ RemoveAt(s, at) \in Seq(Keys) /\ Len(RemoveAt(s, at)) = Len(s) - 1
          /\ IsInjective(RemoveAt(s, at)) /\ ToSet(RemoveAt(s, at)) = ToSet(s) \ {s[at]}
      BY <1>1, <3>1, Removed, RemovedOne
    <3> QED BY <1>1, <2>2, <3>1, <3>2
  <2> QED BY <2>1, <2>2
<1>4. k \notin ToSet(left) \/ l1[p][k] # None
  BY <1>3 DEF Held
<1> HIDE DEF left, out
<1>5. /\ after \in Seq(Keys) /\ IsInjective(after)
      /\ ToSet(after) = (Held(p) \ out) \cup {k}
      /\ Policy[p] # "ttl" => Len(after) <= MaxSize
  <2>1. CASE l1[p][k] = None
    <3>1. /\ Append(left, k) \in Seq(Keys) /\ IsInjective(Append(left, k))
          /\ ToSet(Append(left, k)) = ToSet(left) \cup {k} /\ Len(Append(left, k)) = Len(left) + 1
      BY <1>3, <1>4, <2>1, AddedKey
    <3>2. Len(left) \in Nat
      BY <1>3
    <3> QED BY <1>1, <1>3, <2>1, <3>1, <3>2
  <2>2. CASE l1[p][k] # None
    BY <1>1, <1>3, <2>2 DEF Held
  <2> QED BY <2>1, <2>2
<1>6. /\ l1' = [l1 EXCEPT ![p] = [j \in Keys |-> IF j = k THEN v
                                              ELSE IF j \in out THEN None ELSE l1[p][j]]]
      /\ order' = [order EXCEPT ![p] = after]
      /\ uses' = [uses EXCEPT ![p] = [j \in Keys |-> IF j \in out \cup {k} THEN 0 ELSE uses[p][j]]]
  BY DEF MemoryPut, left, out
<1> HIDE DEF after, at
<1>7. Held(p)' = (Held(p) \ out) \cup {k}
  <2>1. \A j \in Keys : l1'[p][j] = IF j = k THEN v ELSE IF j \in out THEN None ELSE l1[p][j]
    BY <1>6 DEF ValuesOK
  <2>2. v # None
    BY CacheConstants
  <2> QED BY <2>1, <2>2 DEF Held
<1>8. order' \in [Procs -> Seq(Keys)] /\ order'[p] = after
  BY <1>5, <1>6 DEF OrderOK
<1>9. uses' \in [Procs -> [Keys -> 0..MaxUses]]
  BY <1>1, <1>6 DEF OrderOK
<1>10. \A q \in Procs \ {p} : l1'[q] = l1[q] /\ order'[q] = order[q]
  BY <1>6 DEF OrderOK, ValuesOK
<1>11. Lists(p, order'[p], Held(p)')
  BY <1>5, <1>7, <1>8 DEF Lists
<1> QED BY <1>8, <1>9, <1>10, <1>11, OthersListed

LEMMA DeleteLists ==
    ASSUME OrderOK, ValuesOK, NEW p \in Procs, NEW k \in Keys, MemoryDelete(p, k)
    PROVE  OrderOK'
<1>1. /\ order[p] \in Seq(Keys) /\ IsInjective(order[p]) /\ ToSet(order[p]) = Held(p)
      /\ Policy[p] # "ttl" => Len(order[p]) <= MaxSize
      /\ Len(order[p]) \in Nat /\ MaxSize \in Nat \ {0} /\ MaxUses \in Nat
  BY CacheConstants DEF OrderOK, Lists
<1> DEFINE after == RemoveFirst(order[p], k)
<1>2. /\ after \in Seq(Keys) /\ IsInjective(after)
      /\ ToSet(after) = Held(p) \ {k} /\ Len(after) \in {Len(order[p]), Len(order[p]) - 1}
  BY <1>1, RemovedKey
<1> HIDE DEF after
<1>3. order' = [order EXCEPT ![p] = after] /\ l1' = [l1 EXCEPT ![p][k] = None]
      /\ uses' = [uses EXCEPT ![p][k] = 0]
  BY DEF MemoryDelete, after
<1>4. order' \in [Procs -> Seq(Keys)] /\ order'[p] = after
  BY <1>2, <1>3 DEF OrderOK
<1>5. uses' \in [Procs -> [Keys -> 0..MaxUses]]
  BY <1>1, <1>3 DEF OrderOK
<1>6. \A q \in Procs \ {p} : l1'[q] = l1[q] /\ order'[q] = order[q]
  BY <1>3 DEF OrderOK, ValuesOK
<1>7. Held(p)' = Held(p) \ {k}
  <2>1. \A j \in Keys : l1'[p][j] = IF j = k THEN None ELSE l1[p][j]
    BY <1>3 DEF ValuesOK
  <2> QED BY <2>1 DEF Held
<1>8. Lists(p, order'[p], Held(p)')
  BY <1>1, <1>2, <1>4, <1>7 DEF Lists
<1> QED BY <1>4, <1>5, <1>6, <1>8, OthersListed

LEMMA HitLists ==
    ASSUME OrderOK, ValuesOK, NEW p \in Procs, NEW k \in Keys, MemoryHit(p, k)
    PROVE  OrderOK'
<1>1. /\ order[p] \in Seq(Keys) /\ IsInjective(order[p]) /\ ToSet(order[p]) = Held(p)
      /\ Policy[p] # "ttl" => Len(order[p]) <= MaxSize
      /\ Len(order[p]) \in Nat /\ MaxSize \in Nat \ {0} /\ MaxUses \in Nat
  BY CacheConstants DEF OrderOK, Lists
<1>2. k \in ToSet(order[p])
  BY <1>1 DEF MemoryHit, Held
<1> DEFINE left == RemoveFirst(order[p], k)
           after == Append(left, k)
<1>3. /\ left \in Seq(Keys) /\ IsInjective(left)
      /\ ToSet(left) = ToSet(order[p]) \ {k} /\ Len(left) = Len(order[p]) - 1
  BY <1>1, <1>2, RemovedKey
<1> HIDE DEF left
<1>4. /\ after \in Seq(Keys) /\ IsInjective(after)
      /\ ToSet(after) = ToSet(left) \cup {k} /\ Len(after) = Len(left) + 1
  <2>1. k \notin ToSet(left)
    BY <1>3
  <2> QED BY <1>3, <2>1, AddedKey
<1>5. order' = [order EXCEPT ![p] = after] /\ l1' = l1
  BY DEF MemoryHit, left
<1> HIDE DEF after
<1>6. order' \in [Procs -> Seq(Keys)] /\ order'[p] = after
  BY <1>4, <1>5 DEF OrderOK
<1>7. uses' \in [Procs -> [Keys -> 0..MaxUses]]
  <2> DEFINE n == IF Policy[p] = "lfu" THEN uses[p][k] + 1 ELSE 0
  <2>1. uses[p][k] \in 0..MaxUses
    BY DEF OrderOK
  <2>2. n \in 0..MaxUses
    BY <1>1, <2>1 DEF MemoryHit
  <2>3. uses' = [uses EXCEPT ![p][k] = n]
    BY DEF MemoryHit
  <2> HIDE DEF n
  <2> QED BY <2>2, <2>3 DEF OrderOK
<1>8. \A q \in Procs \ {p} : l1'[q] = l1[q] /\ order'[q] = order[q]
  BY <1>5 DEF OrderOK
<1>9. Held(p)' = Held(p)
  BY <1>5 DEF Held
<1>10. Lists(p, order'[p], Held(p)')
  <2>1. ToSet(after) = Held(p)
    BY <1>1, <1>2, <1>3, <1>4
  <2>2. Len(after) = Len(order[p])
    BY <1>1, <1>3, <1>4
  <2> QED BY <1>1, <1>4, <1>6, <1>9, <2>1, <2>2 DEF Lists
<1> QED BY <1>6, <1>7, <1>8, <1>10, OthersListed

LEMMA ClearLists ==
    ASSUME OrderOK, ValuesOK, NEW p \in Procs, MemoryClear(p)
    PROVE  OrderOK'
<1>1. /\ order' = [order EXCEPT ![p] = <<>>]
      /\ l1' = [l1 EXCEPT ![p] = [k \in Keys |-> None]]
      /\ uses' = [uses EXCEPT ![p] = [k \in Keys |-> 0]]
  BY DEF MemoryClear
<1>2. MaxSize \in Nat /\ MaxUses \in Nat
  BY CacheConstants
<1>3. order' \in [Procs -> Seq(Keys)] /\ order'[p] = <<>>
  BY <1>1 DEF OrderOK
<1>4. uses' \in [Procs -> [Keys -> 0..MaxUses]]
  BY <1>1, <1>2 DEF OrderOK
<1>5. \A q \in Procs \ {p} : l1'[q] = l1[q] /\ order'[q] = order[q]
  BY <1>1 DEF OrderOK, ValuesOK
<1>6. Held(p)' = {}
  BY <1>1 DEF Held, ValuesOK
<1>7. Lists(p, <<>>, {})
  BY <1>2 DEF Lists, ToSet, IsInjective
<1> QED BY <1>3, <1>4, <1>5, <1>6, <1>7, OthersListed

LEMMA MissLists ==
    ASSUME OrderOK, ValuesOK, NEW p \in Procs, NEW k \in Keys, MemoryMiss(p, k)
    PROVE  OrderOK'
<1>1. CASE l1' = l1 /\ order' = order /\ uses' = uses
  BY <1>1 DEF OrderOK, Held
<1>2. CASE MemoryDelete(p, k)
  BY <1>2, DeleteLists
<1> QED BY <1>1, <1>2 DEF MemoryMiss

LEMMA StepKeepsOrder ==
    ASSUME OrderOK, SInv, [Next]_vars
    PROVE  OrderOK'
<1>0. ValuesOK /\ CallsOK
  BY DEF SInv
<1>1. ASSUME l1' = l1, order' = order, uses' = uses PROVE OrderOK'
  BY <1>1 DEF OrderOK, Held
<1>2. ASSUME NEW t \in Tasks, Proceeds(t) PROVE OrderOK'
  <2>1. CASE GotValue(t)
    <3>1. /\ task[t].at = "read" /\ task[t].value # None
          /\ MemoryPut(task[t].proc, task[t].key, task[t].value)
      BY <2>1 DEF GotValue, Promote
    <3>2. task[t].proc \in Procs /\ task[t].key \in Keys /\ task[t].value \in Values
      BY <1>0, <3>1 DEF CallsOK, ValuesOK, CallStates, Stored
    <3> QED BY <1>0, <3>1, <3>2, PutLists
  <2>2. CASE RedisGet(t) \/ GotNone(t) \/ Answered(t)
    BY <1>1, <2>2 DEF RedisGet, GotNone, Answered, levels
  <2>3. CASE RedisSet(t) \/ RedisDelete(t)
    BY <1>1, <2>3 DEF RedisSet, RedisDelete, RedisWrite
  <2> QED BY <1>2, <2>1, <2>2, <2>3 DEF Proceeds
<1>3. ASSUME NEW t \in Tasks, NEW k \in Keys, NEW v \in Given[k], Fetched(t, k, v) PROVE OrderOK'
  <2>1. task[t].at = "fetching" /\ task[t].key = k /\ MemoryPut(task[t].proc, k, v)
    BY <1>3 DEF Fetched
  <2>2. task[t].proc \in Procs /\ v \in Values
    BY <1>0, <2>1, CacheConstants DEF CallsOK
  <2> QED BY <1>0, <2>1, <2>2, PutLists
<1>4. ASSUME NEW t \in Tasks, FetchedNothing(t) PROVE OrderOK'
  BY <1>1, <1>4 DEF FetchedNothing, levels
<1>5. ASSUME NEW t \in Tasks, NEW p \in Procs, NEW k \in Keys, NEW warm \in BOOLEAN,
             GetHit(t, p, k, warm) \/ GetMiss(t, p, k, warm)
      PROVE  OrderOK'
  BY <1>0, <1>5, HitLists, MissLists DEF GetHit, GetMiss
<1>6. ASSUME NEW t \in Tasks, NEW p \in Procs, NEW k \in Keys, NEW v \in Given[k], Put(t, p, k, v)
      PROVE  OrderOK'
  <2>1. v \in Values /\ MemoryPut(p, k, v)
    BY <1>6, CacheConstants DEF Put
  <2> QED BY <1>0, <2>1, PutLists
<1>7. ASSUME NEW t \in Tasks, NEW p \in Procs, NEW k \in Keys, Delete(t, p, k) PROVE OrderOK'
  BY <1>0, <1>7, DeleteLists DEF Delete
<1>8. ASSUME NEW p \in Procs, CleanupRound(p) \/ Clear(p) \/ Restart(p) PROVE OrderOK'
  BY <1>0, <1>8, ClearLists DEF CleanupRound, Clear, Restart
<1>9. ASSUME NEW p \in Procs, CascadeInvalidate(p) PROVE OrderOK'
  BY <1>1, <1>9 DEF CascadeInvalidate, levels
<1>10. ASSUME NEW k \in Keys, RedisExpires(k) PROVE OrderOK'
  BY <1>1, <1>10 DEF RedisExpires
<1>11. CASE UNCHANGED vars
  BY <1>1, <1>11 DEF vars, levels
<1> QED
  BY <1>2, <1>3, <1>4, <1>5, <1>6, <1>7, <1>8, <1>9, <1>10, <1>11, CacheConstants DEF Next

LEMMA FrozenAreProcesses ==
    ASSUME frozen \subseteq Procs, [Next]_vars
    PROVE  (frozen \subseteq Procs)'
<1>1. ASSUME NEW t \in Tasks, Proceeds(t) PROVE frozen' = frozen
  BY <1>1 DEF Proceeds, RedisGet, GotValue, GotNone, Answered, RedisSet, RedisDelete, RedisWrite
<1>2. ASSUME NEW t \in Tasks, NEW k \in Keys, NEW v \in Given[k], Fetched(t, k, v)
      PROVE  frozen' = frozen
  BY <1>2 DEF Fetched
<1>3. ASSUME NEW t \in Tasks, FetchedNothing(t) PROVE frozen' = frozen
  BY <1>3 DEF FetchedNothing
<1>4. ASSUME NEW t \in Tasks, NEW p \in Procs, NEW k \in Keys, NEW warm \in BOOLEAN,
             GetHit(t, p, k, warm) \/ GetMiss(t, p, k, warm)
      PROVE  frozen' = frozen
  BY <1>4 DEF GetHit, GetMiss
<1>5. ASSUME NEW t \in Tasks, NEW p \in Procs, NEW k \in Keys, NEW v \in Given[k], Put(t, p, k, v)
      PROVE  frozen' = frozen
  BY <1>5 DEF Put
<1>6. ASSUME NEW t \in Tasks, NEW p \in Procs, NEW k \in Keys, Delete(t, p, k)
      PROVE  frozen' = frozen
  BY <1>6 DEF Delete
<1>7. ASSUME NEW p \in Procs, CleanupRound(p) \/ Clear(p) PROVE frozen' = frozen
  BY <1>7 DEF CleanupRound, Clear
<1>8. ASSUME NEW p \in Procs, CascadeInvalidate(p) \/ Restart(p)
      PROVE  frozen' \subseteq frozen \cup {p}
  BY <1>8 DEF CascadeInvalidate, Restart
<1>9. ASSUME NEW k \in Keys, RedisExpires(k) PROVE frozen' = frozen
  BY <1>9 DEF RedisExpires
<1>10. CASE UNCHANGED vars
  BY <1>10 DEF vars
<1> QED
  BY <1>1, <1>2, <1>3, <1>4, <1>5, <1>6, <1>7, <1>8, <1>9, <1>10, CacheConstants DEF Next

LEMMA InitLists == Init => OrderOK /\ frozen \subseteq Procs
<1> SUFFICES ASSUME Init PROVE OrderOK /\ frozen \subseteq Procs
  OBVIOUS
<1>1. MaxSize \in Nat /\ MaxUses \in Nat
  BY CacheConstants
<1>2. order \in [Procs -> Seq(Keys)] /\ uses \in [Procs -> [Keys -> 0..MaxUses]]
  BY <1>1 DEF Init
<1>3. ASSUME NEW p \in Procs PROVE Lists(p, order[p], Held(p))
  <2>1. order[p] = <<>> /\ Held(p) = {}
    BY DEF Init, Held
  <2>2. Lists(p, <<>>, {})
    BY <1>1 DEF Lists, ToSet, IsInjective
  <2> QED BY <2>1, <2>2
<1> QED BY <1>2, <1>3 DEF OrderOK, Init

\* L1 and its order say the same, and L1 keeps to max_size under each policy
\* that evicts, whoever gets, puts, promotes and deletes.  (MemoryCache.put,
\* get, delete, clear and _evict_entry.)
THEOREM CacheTypesHold == Spec => []TypeOK
<1> DEFINE Inv == SInv /\ OrderOK /\ frozen \subseteq Procs
<1>1. Init => Inv
  BY InitSettled, InitLists
<1>2. Inv /\ [Next]_vars => Inv'
  BY StepKeepsInv, StepKeepsOrder, FrozenAreProcesses
<1>3. Inv => TypeOK
  BY DEF SInv, ValuesOK, OrderOK, Lists, TypeOK
<1> HIDE DEF Inv
<1> QED BY <1>1, <1>2, <1>3, PTL DEF Spec
-----------------------------------------------------------------------------
(* What Converges rests on *)

\* what p has of k: in its memory, and from Redis for its reads
Brought(p, k) ==
    {l1[p][k]} \cup {task[t].value : t \in {u \in Tasks : /\ task[u].at = "read"
                                                          /\ task[u].proc = p
                                                          /\ task[u].key = k}}
\* ... that Redis does not have
Stale(p, k) == {v \in Brought(p, k) : v # None /\ l2[k] \notin {v, Json[v]}}

\* Where nobody writes, a step takes an entry of Redis away or brings a process
\* nothing that Redis does not have: what is stale only gets less.
NothingGetsStaler ==
    [][Calm /\ Calm' => \A p \in Procs, k \in Keys :
         /\ l2'[k] \in {l2[k], None}
         /\ l2'[k] = l2[k] => Stale(p, k)' \subseteq Stale(p, k)]_vars

GetsStaler == \E p \in Procs, k \in Keys :
    \/ l2'[k] \notin {l2[k], None}
    \/ l2'[k] = l2[k] /\ ~(Stale(p, k)' \subseteq Stale(p, k))

\* What a step brings a process it had before, or Redis has.
LEMMA BroughtFromRedis ==
    ASSUME RedisFades,
           \A p \in Procs, k \in Keys : l1'[p][k] \in Brought(p, k) \cup {None},
           \A t \in Tasks : task'[t].at = "read" =>
               task'[t] = task[t] \/ task'[t].value \in {None, l2[task'[t].key]}
    PROVE  ~GetsStaler
<1> SUFFICES ASSUME NEW p \in Procs, NEW k \in Keys, l2'[k] = l2[k], NEW v \in Stale(p, k)'
             PROVE  v \in Stale(p, k)
  BY DEF GetsStaler, RedisFades
<1>1. v \in Brought(p, k)' /\ v # None /\ l2[k] \notin {v, Json[v]}
  BY DEF Stale
<1>2. v \in Brought(p, k)
  <2>1. CASE v = l1'[p][k]
    BY <1>1, <2>1
  <2>2. CASE v # l1'[p][k]
    <3>1. PICK t \in Tasks : /\ task'[t].at = "read" /\ task'[t].proc = p
                             /\ task'[t].key = k /\ task'[t].value = v
      BY <1>1, <2>2 DEF Brought
    <3>2. task'[t] = task[t]
      BY <1>1, <3>1
    <3> QED BY <3>1, <3>2 DEF Brought
  <2> QED BY <2>1, <2>2
<1> QED BY <1>1, <1>2 DEF Stale

\* Most steps only lose entries and begin no answer of Redis.
LEMMA FadingBringsNothing ==
    ASSUME MemoryFades, RedisFades,
           \A t \in Tasks : task'[t].at = "read" => task'[t] = task[t]
    PROVE  ~GetsStaler
<1>1. \A p \in Procs, k \in Keys : l1'[p][k] \in Brought(p, k) \cup {None}
  BY DEF MemoryFades, Brought
<1> QED BY <1>1, BroughtFromRedis

LEMMA RedisGetBrings ==
    ASSUME SInv, NEW t \in Tasks, RedisGet(t)
    PROVE  ~GetsStaler
<1>1. /\ task \in [Tasks -> CallStates] /\ task[t] \in CallStates
      /\ l1' = l1 /\ l2' = l2 /\ l2 \in [Keys -> Stored]
  BY DEF SInv, ValuesOK, RedisGet, levels
<1>2. PICK v \in {l2[task[t].key], None} :
        task' = [task EXCEPT ![t].at = "read", ![t].value = v]
  BY DEF RedisGet, GoesOn
<1>3. /\ \A u \in Tasks : u # t => task'[u] = task[u]
      /\ task'[t] = [task[t] EXCEPT !.at = "read", !.value = v]
  BY <1>1, <1>2
<1>4. task'[t].value = v /\ task'[t].key = task[t].key
  BY <1>1, <1>3 DEF CallStates
<1>5. \A p \in Procs, k \in Keys : l1'[p][k] \in Brought(p, k) \cup {None}
  BY <1>1 DEF Brought
<1>6. \A u \in Tasks : task'[u].at = "read" =>
          task'[u] = task[u] \/ task'[u].value \in {None, l2[task'[u].key]}
  BY <1>2, <1>3, <1>4
<1> QED BY <1>1, <1>5, <1>6, BroughtFromRedis DEF RedisFades

LEMMA GotValueBrings ==
    ASSUME SInv, NEW t \in Tasks, GotValue(t)
    PROVE  ~GetsStaler
<1> DEFINE p == task[t].proc
           k == task[t].key
           v == task[t].value
<1>1. /\ task \in [Tasks -> CallStates] /\ task[t] \in CallStates /\ task[t].at = "read"
      /\ p \in Procs /\ k \in Keys /\ v \in Values
      /\ MemoryPut(p, k, v) /\ l2' = l2 /\ l2 \in [Keys -> Stored]
  BY DEF SInv, ValuesOK, CallsOK, GotValue, Promote, CallStates, Stored
<1>2. v \in Brought(p, k)
  BY <1>1 DEF Brought
<1>3. /\ l1'[p][k] = v
      /\ \A q \in Procs, j \in Keys : (q # p \/ j # k) => l1'[q][j] \in {l1[q][j], None}
  BY <1>1, PutSetsOne DEF SInv
<1>4. \A q \in Procs, j \in Keys : l1[q][j] \in Brought(q, j)
  BY DEF Brought
<1>5. \A q \in Procs, j \in Keys : l1'[q][j] \in Brought(q, j) \cup {None}
  BY <1>2, <1>3, <1>4
<1>6. /\ \A u \in Tasks : u # t => task'[u] = task[u]
      /\ task'[t] \in {Idle, [task[t] EXCEPT !.at = "answered", !.value = v]}
  BY <1>1 DEF GotValue, Returns, GoesOn
<1>7. task'[t].at # "read"
  <2>1. CASE task'[t] = Idle
    BY <2>1 DEF Idle
  <2>2. CASE task'[t] = [task[t] EXCEPT !.at = "answered", !.value = v]
    BY <1>1, <2>2 DEF CallStates
  <2> QED BY <1>6, <2>1, <2>2
<1> QED BY <1>1, <1>5, <1>6, <1>7, BroughtFromRedis DEF RedisFades

LEMMA ProceedsBrings ==
    ASSUME SInv, Calm, Calm', NEW t \in Tasks, Proceeds(t)
    PROVE  ~GetsStaler
<1>1. /\ task \in [Tasks -> CallStates]
      /\ l1 \in [Procs -> [Keys -> Stored]] /\ l2 \in [Keys -> Stored]
  BY DEF SInv, ValuesOK
<1>2. ~RedisSet(t) /\ ~RedisDelete(t)
  BY DEF Calm, RedisSet, RedisDelete
<1>3. CASE GotNone(t) \/ Answered(t)
  <2>1. MemoryFades /\ RedisFades
    BY <1>1, <1>3 DEF GotNone, Answered, levels, MemoryFades, RedisFades
  <2>2. \/ task' = [task EXCEPT ![t].at = "fetching", ![t].value = None]
        \/ task' = [task EXCEPT ![t] = Idle]
    BY <1>3 DEF GotNone, Answered, GoesOn, Returns
  <2>3. \A u \in Tasks : task'[u] = task[u] \/ task'[u].at # "read"
    <3>1. task[t] \in CallStates
      BY <1>1
    <3> QED BY <1>1, <2>2, <3>1 DEF Idle, CallStates
  <2> QED BY <2>1, <2>3, FadingBringsNothing
<1> QED BY <1>2, <1>3, RedisGetBrings, GotValueBrings DEF Proceeds

LEMMA StepBringsNothingStale ==
    ASSUME SInv, Calm, Calm', [Next]_vars
    PROVE  ~GetsStaler
<1>1. /\ task \in [Tasks -> CallStates]
      /\ l1 \in [Procs -> [Keys -> Stored]] /\ l2 \in [Keys -> Stored]
      /\ Managed \subseteq Procs
  BY CacheConstants DEF SInv, ValuesOK
<1>2. ASSUME NEW t \in Tasks, NEW k \in Keys, NEW v \in Given[k], Fetched(t, k, v)
      PROVE  FALSE
  BY <1>2 DEF Calm, Fetched
<1>3. ASSUME NEW t \in Tasks, FetchedNothing(t)
      PROVE  FALSE
  BY <1>3 DEF Calm, FetchedNothing
<1>4. ASSUME NEW t \in Tasks, NEW p \in Procs, NEW k \in Keys, NEW warm \in BOOLEAN,
             GetHit(t, p, k, warm)
      PROVE  ~GetsStaler
  <2>1. MemoryFades /\ RedisFades
    BY <1>1, <1>4 DEF GetHit, MemoryHit, MemoryFades, RedisFades
  <2>2. \A u \in Tasks : task'[u] = task[u] \/ task'[u].at # "read"
    BY <1>1, <1>4 DEF GetHit, Calls, Returns, Idle
  <2> QED BY <2>1, <2>2, FadingBringsNothing
<1>5. ASSUME NEW t \in Tasks, NEW p \in Procs, NEW k \in Keys, NEW warm \in BOOLEAN,
             GetMiss(t, p, k, warm)
      PROVE  ~GetsStaler
  <2>1. MemoryFades
    BY <1>5, DropFades DEF GetMiss, SInv
  <2>2. RedisFades
    BY <1>1, <1>5 DEF GetMiss, RedisFades
  <2>3. \A u \in Tasks : task'[u] = task[u] \/ task'[u].at # "read"
    BY <1>1, <1>5 DEF GetMiss, Calls
  <2> QED BY <2>1, <2>2, <2>3, FadingBringsNothing
<1>6. ASSUME NEW t \in Tasks, NEW p \in Procs, NEW k \in Keys, NEW v \in Given[k],
             Put(t, p, k, v)
      PROVE  FALSE
  <2>1. task'[t].at = "writing"
    BY <1>1, <1>6 DEF Put, Calls
  <2> QED BY <2>1 DEF Calm
<1>7. ASSUME NEW t \in Tasks, NEW p \in Procs, NEW k \in Keys, Delete(t, p, k)
      PROVE  FALSE
  <2>1. task'[t].at = "deleting"
    BY <1>1, <1>7 DEF Delete, Calls
  <2> QED BY <2>1 DEF Calm
<1>8. ASSUME NEW p \in Procs, CleanupRound(p) \/ Clear(p)
      PROVE  ~GetsStaler
  <2>1. MemoryClear(p) /\ UNCHANGED <<l2, task>>
    BY <1>8 DEF CleanupRound, Clear
  <2>2. MemoryFades /\ RedisFades
    BY <1>1, <2>1 DEF MemoryClear, MemoryFades, RedisFades, Stored
  <2> QED BY <2>1, <2>2, FadingBringsNothing
<1>9. ASSUME NEW p \in Procs, CascadeInvalidate(p)
      PROVE  FALSE
  BY <1>9 DEF CascadeInvalidate, Calm
<1>10. ASSUME NEW p \in Procs, Restart(p)
       PROVE  ~GetsStaler
  <2>1. MemoryFades /\ RedisFades
    BY <1>1, <1>10 DEF Restart, MemoryClear, MemoryFades, RedisFades, Stored
  <2>2. \A u \in Tasks : task'[u] = task[u] \/ task'[u].at # "read"
    BY <1>10 DEF Restart, Idle
  <2> QED BY <2>1, <2>2, FadingBringsNothing
<1>11. ASSUME NEW k \in Keys, RedisExpires(k)
       PROVE  ~GetsStaler
  <2>1. MemoryFades /\ RedisFades
    BY <1>1, <1>11 DEF RedisExpires, MemoryFades, RedisFades, Stored
  <2> QED BY <1>11, <2>1, FadingBringsNothing DEF RedisExpires
<1>12. CASE UNCHANGED vars
  <2>1. MemoryFades /\ RedisFades /\ task' = task
    BY <1>1, <1>12 DEF vars, levels, MemoryFades, RedisFades
  <2> QED BY <2>1, FadingBringsNothing
<1> QED BY <1>1, <1>2, <1>3, <1>4, <1>5, <1>6, <1>7, <1>8, <1>9, <1>10, <1>11, <1>12,
           ProceedsBrings DEF Next

\* While nobody writes and no process is frozen, no read that overlapped a
\* write, no promotion and no restart makes a memory staler than it is: the
\* safety half of Converges.  (MultiLevelCache.get, MemoryCache.put.)
THEOREM CalmBringsNothingStale == Spec => NothingGetsStaler
<1>1. SInv /\ [Next]_vars => [Calm /\ Calm' => \A p \in Procs, k \in Keys :
         /\ l2'[k] \in {l2[k], None}
         /\ l2'[k] = l2[k] => Stale(p, k)' \subseteq Stale(p, k)]_vars
  BY StepBringsNothingStale DEF GetsStaler
<1> QED BY InvHolds, <1>1, PTL DEF Spec, NothingGetsStaler
=============================================================================
