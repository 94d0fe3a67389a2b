---------------------------- MODULE SkillVersions ----------------------------
(***************************************************************************)
(* SkillVersionManager (backend/app/skill/version_manager.py): versions,   *)
(* tags and branches of one skill.                                         *)
(*                                                                         *)
(* create_version, rollback_version, merge_branches and                    *)
(* cleanup_old_versions run under one asyncio.Lock, which serves its       *)
(* waiters in order and cannot be taken twice by the same coroutine.  The  *)
(* others take no lock and run without a suspension.                       *)
(*                                                                         *)
(* EventManagers says what may become of the keyword arguments             *)
(* create_version publishes its event with: the repository's own           *)
(* SkillEventManager raises ("own"), the tests' stand-in takes them        *)
(* ("mock"), and may suspend in a handler.                                 *)
(***************************************************************************)
EXTENDS Integers, Sequences, FiniteSets

CONSTANTS
    Callers,        \* coroutines that use the manager
    Names,          \* version strings a caller may ask for
    BranchNames,
    Contents,       \* what the skill's file may hold
    Mixed,          \* the content of a merged file
    NoContent,      \* no file, no cache entry
    Nobody,         \* the lock is free
    Keeps,          \* the keep_count arguments of cleanup_old_versions
    EventManagers,
    MaxStamp,       \* bound: commits in a behaviour
    MaxBranches     \* bound: branches in a behaviour

ASSUME VersionConstants ==
    /\ NoContent \notin Contents \cup {Mixed}
    /\ Nobody \notin Callers
    /\ Keeps \subseteq Nat
    /\ EventManagers \subseteq {"own", "mock"}
    /\ {MaxStamp, MaxBranches} \subseteq Nat

VARIABLES
    file,           \* the skill's file in workspace_path
    versions,       \* the commits of the dict, whose order nothing depends on
    version_cache,  \* content per version
    tags,           \* versions that carry a tag
    branches,       \* [name, version] in order of creation
    owner,          \* who holds _lock
    waiters,        \* who waits for it, first come first served
    pc,             \* where each caller stands
    call,           \* the call it makes
    outcome,        \* how its last call ended
    stamp           \* datetime.now(), one tick per commit

vars == <<file, versions, version_cache, tags, branches, owner, waiters, pc,
          call, outcome, stamp>>

Commit == [version : Names, file_hash : Contents \cup {Mixed},
           timestamp : Nat \ {0}]
Call ==
    [op : {"create", "rollback"}, version : Names]
      \cup [op : {"merge"}, source : BranchNames, target : BranchNames]
      \cup [op : {"cleanup"}, keep : Keeps]
      \cup {[op |-> "none"]}
Outcomes == {"none", "ok", "nothing", "raised"}

Known(v) == \E r \in versions : r.version = v

TypeOK ==
    /\ file \in Contents \cup {Mixed, NoContent}
    /\ versions \subseteq Commit
    /\ version_cache \in [Names -> Contents \cup {Mixed, NoContent}]
    /\ tags \subseteq Names
    /\ branches \in Seq([name : BranchNames, version : Names])
    /\ owner \in Callers \cup {Nobody}
    /\ waiters \in Seq(Callers)
    /\ pc \in [Callers -> {"idle", "waiting", "publishing"}]
    /\ call \in [Callers -> Call]
    /\ outcome \in [Callers -> Outcomes]
    /\ stamp \in Nat

Init ==
    /\ file = NoContent
    /\ versions = {}
    /\ version_cache = [v \in Names |-> NoContent]
    /\ tags = {}
    /\ branches = <<>>
    /\ owner = Nobody
    /\ waiters = <<>>
    /\ pc = [c \in Callers |-> "idle"]
    /\ call = [c \in Callers |-> [op |-> "none"]]
    /\ outcome = [c \in Callers |-> "none"]
    /\ stamp = 0

\* somebody edits the skill's file
Edit ==
    /\ \E x \in Contents \ {file} : file' = x
    /\ UNCHANGED <<versions, version_cache, tags, branches, owner, waiters,
                   pc, call, outcome, stamp>>

-----------------------------------------------------------------------------
(* _cache_version and _get_version_content *)

CacheOnce(cache, v, x) == IF cache[v] = NoContent THEN [cache EXCEPT ![v] = x]
                                                  ELSE cache
Cache(cache, v, x) == [cache EXCEPT ![v] = x]

\* a known version whose content is not cached is read from the skill's file
GetContent(v) ==
    CASE version_cache[v] # NoContent -> version_cache[v]
      [] version_cache[v] = NoContent /\ Known(v) -> file
      [] OTHER -> NoContent

\* what reading the versions vs leaves in the cache
Read(vs) == [v \in Names |-> IF v \in vs THEN GetContent(v) ELSE version_cache[v]]

-----------------------------------------------------------------------------
(* the lock *)

\* bound: no more creations are asked for than MaxStamp allows
Asked == stamp + Cardinality({c \in Callers : call[c].op = "create"})

Acquire(c, request) ==
    /\ pc[c] = "idle"
    /\ request.op = "create" => Asked < MaxStamp
    /\ pc' = [pc EXCEPT ![c] = "waiting"]
    /\ call' = [call EXCEPT ![c] = request]
    /\ outcome' = [outcome EXCEPT ![c] = "none"]
    /\ waiters' = Append(waiters, c)
    /\ UNCHANGED <<file, versions, version_cache, tags, branches, owner, stamp>>

\* the critical section of c's call begins
Granted(c, op) ==
    /\ owner = Nobody
    /\ waiters # <<>> /\ Head(waiters) = c
    /\ call[c].op = op

\* and ends in the same step: "async with" gives the lock back on every path
ReturnsHolding(c, how) ==
    /\ waiters' = Tail(waiters)
    /\ pc' = [pc EXCEPT ![c] = "idle"]
    /\ call' = [call EXCEPT ![c] = [op |-> "none"]]
    /\ outcome' = [outcome EXCEPT ![c] = how]
    /\ owner' = c

Returns(c, how) ==
    /\ waiters' = Tail(waiters)
    /\ pc' = [pc EXCEPT ![c] = "idle"]
    /\ call' = [call EXCEPT ![c] = [op |-> "none"]]
    /\ outcome' = [outcome EXCEPT ![c] = how]
    /\ UNCHANGED owner

\* rollback_version and merge_branches call create_version, which takes the
\* lock their own coroutine holds: it queues behind everybody, for itself
NestedCreate(c) ==
    /\ owner' = c
    /\ waiters' = Append(Tail(waiters), c)
    /\ UNCHANGED <<pc, call, outcome>>

-----------------------------------------------------------------------------
(* create_version *)

NewCommit(v) == [version |-> v, file_hash |-> file, timestamp |-> stamp + 1]

\* a version created again replaces the commit it had
Store(v) == {r \in versions : r.version # v} \cup {NewCommit(v)}

CreateWithoutFile(c) ==
    /\ Granted(c, "create")
    /\ file = NoContent
    /\ Returns(c, "nothing")
    /\ UNCHANGED <<file, versions, version_cache, tags, branches, stamp>>

CreateVersion(c) ==
    /\ Granted(c, "create")
    /\ file # NoContent
    /\ stamp' = stamp + 1
    /\ versions' = Store(call[c].version)
    /\ version_cache' = Cache(version_cache, call[c].version, file)
    /\ \/ /\ "own" \in EventManagers  \* publish_event raises: logged, None
          /\ Returns(c, "nothing")
       \/ /\ "mock" \in EventManagers
          /\ owner' = c
          /\ waiters' = Tail(waiters)
          /\ pc' = [pc EXCEPT ![c] = "publishing"]
          /\ UNCHANGED <<call, outcome>>
    /\ UNCHANGED <<file, tags, branches>>

\* the handlers of the event are through
Published(c) ==
    /\ pc[c] = "publishing"
    /\ pc' = [pc EXCEPT ![c] = "idle"]
    /\ call' = [call EXCEPT ![c] = [op |-> "none"]]
    /\ outcome' = [outcome EXCEPT ![c] = "ok"]
    /\ owner' = Nobody
    /\ UNCHANGED <<file, versions, version_cache, tags, branches, waiters, stamp>>

-----------------------------------------------------------------------------
(* rollback_version, merge_branches, cleanup_old_versions *)

\* skillKnown: whether the skill manager has the skill
RollbackVersion(c) ==
    /\ Granted(c, "rollback")
    /\ version_cache' = Read({call[c].version})
    /\ \E skillKnown \in BOOLEAN :
         IF GetContent(call[c].version) # NoContent /\ skillKnown
         THEN NestedCreate(c)
         ELSE Returns(c, "nothing")
    /\ UNCHANGED <<file, versions, tags, branches, stamp>>

\* the first branch of that name
BranchVersion(name) ==
    LET found == {i \in DOMAIN branches : branches[i].name = name}
    IN  {branches[i].version : i \in {i \in found : \A j \in found : i <= j}}

\* the file is written before the commit that would record it is created
MergeBranches(c) ==
    /\ Granted(c, "merge")
    /\ LET heads == BranchVersion(call[c].source) \cup BranchVersion(call[c].target)
           named == /\ BranchVersion(call[c].source) # {}
                    /\ BranchVersion(call[c].target) # {}
           found == named /\ \A v \in heads : GetContent(v) # NoContent
       IN  /\ version_cache' = IF named THEN Read(heads) ELSE version_cache
           /\ \E skillKnown \in BOOLEAN :
                IF found /\ skillKnown
                THEN /\ \E v \in BranchVersion(call[c].source) :
                          file' \in {GetContent(v), Mixed}
                     /\ NestedCreate(c)
                ELSE /\ Returns(c, "nothing")
                     /\ UNCHANGED file
    /\ UNCHANGED <<versions, tags, branches, stamp>>

Newer(r) == {s \in versions : s.timestamp > r.timestamp}
OldestFirst(keep) ==
    {r \in versions : Cardinality(versions \ Newer(r)) <= keep}
Newest(keep) == {r \in versions : Cardinality(Newer(r)) < keep}

\* only the commits go: their cached content, tags and branches stay
CleanupOldVersions(c) ==
    /\ Granted(c, "cleanup")
    /\ versions' = Newest(call[c].keep)
    /\ Returns(c, "ok")
    /\ UNCHANGED <<file, version_cache, tags, branches, stamp>>

-----------------------------------------------------------------------------
(* Without the lock.  EventType has no VERSION_TAGGED, BRANCH_CREATED or     *)
(* VERSION_COMPARED: naming one raises AttributeError, after the change is   *)
(* made; only compare_versions catches it.                                   *)

Ends(c, how) ==
    /\ pc[c] = "idle"
    /\ outcome' = [outcome EXCEPT ![c] = how]
    /\ UNCHANGED <<file, versions, owner, waiters, pc, call, stamp>>

TagVersion(c, v) ==
    /\ Ends(c, IF Known(v) THEN "raised" ELSE "nothing")
    /\ tags' = IF Known(v) THEN tags \cup {v} ELSE tags
    /\ UNCHANGED <<version_cache, branches>>

CreateBranch(c, v, name) ==
    /\ Len(branches) < MaxBranches
    /\ Ends(c, IF Known(v) THEN "raised" ELSE "nothing")
    /\ branches' = IF Known(v)
                   THEN Append(branches, [name |-> name, version |-> v])
                   ELSE branches
    /\ UNCHANGED <<version_cache, tags>>

CompareVersions(c, v, w) ==
    /\ Ends(c, "nothing")
    /\ version_cache' = Read({v, w})
    /\ UNCHANGED <<tags, branches>>

-----------------------------------------------------------------------------
LockedStep(c) ==
    \/ CreateWithoutFile(c) \/ CreateVersion(c) \/ Published(c)
    \/ RollbackVersion(c) \/ MergeBranches(c) \/ CleanupOldVersions(c)

Next ==
    \/ Edit
    \/ \E c \in Callers :
         \/ \E request \in Call \ {[op |-> "none"]} : Acquire(c, request)
         \/ LockedStep(c)
         \/ \E v \in Names :
              \/ TagVersion(c, v)
              \/ \E name \in BranchNames : CreateBranch(c, v, name)
              \/ \E w \in Names : CompareVersions(c, v, w)

Spec == Init /\ [][Next]_vars

\* the event loop runs every coroutine that can go on
FairSpec == Spec /\ \A c \in Callers : WF_vars(LockedStep(c))

-----------------------------------------------------------------------------
(* Properties *)

\* the coroutine c waits for a lock it holds itself
SelfBlocked(c) == owner = c /\ pc[c] = "waiting"

\* Whatever is created again, cleaned up or compared, the content read for a
\* version is the content its commit recorded, so the fallback of
\* _get_version_content, which would serve today's file for an old version,
\* is never reached.
ContentMatchesCommit ==
    \A r \in versions : version_cache[r.version] = r.file_hash

\* cleanup_old_versions drops only commits that are older than all it keeps,
\* and it is the only call that drops any.
CleanupKeepsNewest ==
    [][\A r \in versions :
         ~(\E s \in versions' : s.version = r.version)
           => /\ \E c \in Callers : call[c].op = "cleanup" /\ pc'[c] = "idle"
              /\ \A s \in versions' : s.timestamp > r.timestamp]_vars

\* Every call under the lock comes back, unless a rollback or a merge that got
\* past its checks blocks the manager for good; nothing else can.
EveryCallReturns ==
    \A c \in Callers :
        pc[c] # "idle" ~> pc[c] = "idle" \/ \E d \in Callers : SelfBlocked(d)

\* test_rollback_version asserts "result is True": a rollback returns at all.
RollbackReturns ==
    \A c \in Callers : call[c].op = "rollback" ~> pc[c] = "idle"
=============================================================================
