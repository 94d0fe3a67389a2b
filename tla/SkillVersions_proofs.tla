-------------------------- MODULE SkillVersions_proofs --------------------------
(***************************************************************************)
(* Theorems about SkillVersions, for any callers, names, contents and      *)
(* numbers of versions to keep: types, what is read for a version, which   *)
(* commits a cleanup may drop, and who gets the lock.                     *)
(***************************************************************************)
EXTENDS SkillVersions, FiniteSetTheorems, SequenceTheorems, TLAPS

Any == Contents \cup {Mixed, NoContent}

Branch == [name : BranchNames, version : Names]

-----------------------------------------------------------------------------
(* What the operators return *)

LEMMA CallFields ==
    ASSUME NEW r \in Call
    PROVE  /\ r.op \in {"create", "rollback"} => r.version \in Names
           /\ r.op = "merge" => r.source \in BranchNames /\ r.target \in BranchNames
           /\ r.op = "cleanup" => r.keep \in Keeps
BY DEF Call

LEMMA GetContentType == ASSUME TypeOK, NEW v \in Names PROVE GetContent(v) \in Any
BY DEF GetContent, TypeOK, Any

LEMMA ReadType == ASSUME TypeOK, NEW vs \in SUBSET Names PROVE Read(vs) \in [Names -> Any]
BY GetContentType DEF Read, TypeOK, Any

LEMMA BranchVersionType == ASSUME TypeOK, NEW name PROVE BranchVersion(name) \subseteq Names
<1>1. branches \in Seq(Branch)
  BY DEF TypeOK, Branch
<1>2. \A i \in DOMAIN branches : branches[i] \in Branch
  BY <1>1
<1>3. \A b \in Branch : b.version \in Names
  BY DEF Branch
<1> QED
  BY <1>2, <1>3 DEF BranchVersion

LEMMA StoreType ==
    ASSUME TypeOK, NEW v \in Names, file # NoContent
    PROVE  Store(v) \subseteq Commit /\ NewCommit(v) \in Commit
BY DEF Store, NewCommit, Commit, TypeOK

-----------------------------------------------------------------------------
(* Types *)

LEMMA TypeInit == Init => TypeOK
BY DEF Init, TypeOK, Call, Outcomes

\* what a caller is about, once its critical section has begun
LEMMA GrantedFacts ==
    ASSUME TypeOK, NEW c \in Callers, NEW op, Granted(c, op)
    PROVE  waiters # <<>> /\ Tail(waiters) \in Seq(Callers) /\ call[c] \in Call /\ call[c].op = op
BY DEF Granted, TypeOK

LEMMA ReturnsTypes ==
    ASSUME TypeOK, NEW c \in Callers, NEW how \in Outcomes, Tail(waiters) \in Seq(Callers), Returns(c, how)
    PROVE  /\ waiters' \in Seq(Callers) /\ owner' \in Callers \cup {Nobody}
           /\ pc' \in [Callers -> {"idle", "waiting", "publishing"}]
           /\ call' \in [Callers -> Call] /\ outcome' \in [Callers -> Outcomes]
BY DEF Returns, TypeOK, Call

LEMMA NestedTypes ==
    ASSUME TypeOK, NEW c \in Callers, Tail(waiters) \in Seq(Callers), NestedCreate(c)
    PROVE  /\ waiters' \in Seq(Callers) /\ owner' \in Callers \cup {Nobody}
           /\ pc' \in [Callers -> {"idle", "waiting", "publishing"}]
           /\ call' \in [Callers -> Call] /\ outcome' \in [Callers -> Outcomes]
BY DEF NestedCreate, TypeOK

LEMMA LockedTypes ==
    ASSUME TypeOK, NEW c \in Callers, LockedStep(c)
    PROVE  TypeOK'
<1>0. {"nothing", "ok", "raised"} \subseteq Outcomes
  BY DEF Outcomes
<1>1. CASE CreateWithoutFile(c)
  BY <1>0, <1>1, GrantedFacts, ReturnsTypes DEF CreateWithoutFile, TypeOK
<1>2. CASE CreateVersion(c)
  <2>1. call[c].version \in Names /\ Tail(waiters) \in Seq(Callers)
    BY <1>2, GrantedFacts, CallFields DEF CreateVersion
  <2>2. versions' \subseteq Commit /\ stamp' \in Nat /\ file' \in Any
    BY <1>2, <2>1, StoreType DEF CreateVersion, TypeOK, Any
  <2>3. version_cache' \in [Names -> Any]
    BY <1>2, <2>1 DEF CreateVersion, Cache, TypeOK, Any
  <2>4. /\ waiters' \in Seq(Callers) /\ owner' \in Callers \cup {Nobody}
        /\ pc' \in [Callers -> {"idle", "waiting", "publishing"}]
        /\ call' \in [Callers -> Call] /\ outcome' \in [Callers -> Outcomes]
    <3>1. CASE Returns(c, "nothing")
      BY <1>0, <2>1, <3>1, ReturnsTypes
    <3>2. CASE /\ owner' = c /\ waiters' = Tail(waiters)
               /\ pc' = [pc EXCEPT ![c] = "publishing"] /\ UNCHANGED <<call, outcome>>
      BY <2>1, <3>2 DEF TypeOK
    <3> QED
      BY <1>2, <3>1, <3>2 DEF CreateVersion
  <2>5. UNCHANGED <<tags, branches>>
    BY <1>2 DEF CreateVersion
  <2> QED
    BY <2>2, <2>3, <2>4, <2>5 DEF TypeOK, Any
<1>3. CASE Published(c)
  BY <1>0, <1>3 DEF Published, TypeOK, Call
<1>4. CASE RollbackVersion(c)
  <2>1. call[c].version \in Names /\ Tail(waiters) \in Seq(Callers)
    BY <1>4, GrantedFacts, CallFields DEF RollbackVersion
  <2>2. version_cache' \in [Names -> Any]
    BY <1>4, <2>1, ReadType DEF RollbackVersion
  <2>3. NestedCreate(c) \/ Returns(c, "nothing")
    BY <1>4 DEF RollbackVersion
  <2>4. UNCHANGED <<file, versions, tags, branches, stamp>>
    BY <1>4 DEF RollbackVersion
  <2> QED
    BY <1>0, <2>1, <2>2, <2>3, <2>4, ReturnsTypes, NestedTypes DEF TypeOK, Any
<1>5. CASE MergeBranches(c)
  <2> DEFINE heads == BranchVersion(call[c].source) \cup BranchVersion(call[c].target)
  <2>1. Tail(waiters) \in Seq(Callers) /\ heads \in SUBSET Names
    BY <1>5, GrantedFacts, BranchVersionType DEF MergeBranches
  <2>2. version_cache' \in [Names -> Any]
    BY <1>5, <2>1, ReadType DEF MergeBranches, TypeOK, Any
  <2>3. NestedCreate(c) \/ Returns(c, "nothing")
    BY <1>5 DEF MergeBranches
  <2>4. file' = file \/ file' = Mixed \/ \E v \in heads : file' = GetContent(v)
    BY <1>5 DEF MergeBranches
  <2>5. file' \in Any
    BY <2>1, <2>4, GetContentType DEF TypeOK, Any
  <2>6. UNCHANGED <<versions, tags, branches, stamp>>
    BY <1>5 DEF MergeBranches
  <2> QED
    BY <1>0, <2>1, <2>2, <2>3, <2>5, <2>6, ReturnsTypes, NestedTypes DEF TypeOK, Any
<1>6. CASE CleanupOldVersions(c)
  <2>1. versions' \subseteq versions
    BY <1>6 DEF CleanupOldVersions, Newest
  <2> QED
    BY <1>0, <1>6, <2>1, GrantedFacts, ReturnsTypes DEF CleanupOldVersions, TypeOK
<1> QED
  BY <1>1, <1>2, <1>3, <1>4, <1>5, <1>6 DEF LockedStep

\* the calls that take no lock
Unlocked(c) ==
    \E v \in Names :
        \/ TagVersion(c, v)
        \/ \E name \in BranchNames : CreateBranch(c, v, name)
        \/ \E w \in Names : CompareVersions(c, v, w)

LEMMA EndsTypes ==
    ASSUME TypeOK, NEW c \in Callers, NEW how \in Outcomes, Ends(c, how)
    PROVE  /\ outcome' \in [Callers -> Outcomes]
           /\ UNCHANGED <<file, versions, owner, waiters, pc, call, stamp>>
BY DEF Ends, TypeOK

LEMMA UnlockedTypes ==
    ASSUME TypeOK, NEW c \in Callers, Unlocked(c)
    PROVE  TypeOK'
<1>0. {"nothing", "ok", "raised"} \subseteq Outcomes
  BY DEF Outcomes
<1>1. ASSUME NEW v \in Names, TagVersion(c, v) PROVE TypeOK'
  <2>1. (IF Known(v) THEN "raised" ELSE "nothing") \in Outcomes
    BY <1>0
  <2> QED
    BY <1>1, <2>1, EndsTypes DEF TagVersion, TypeOK
<1>2. ASSUME NEW v \in Names, NEW name \in BranchNames, CreateBranch(c, v, name) PROVE TypeOK'
  <2>1. (IF Known(v) THEN "raised" ELSE "nothing") \in Outcomes
    BY <1>0
  <2>2. branches' \in Seq([name : BranchNames, version : Names])
    <3>1. branches' = branches \/ branches' = Append(branches, [name |-> name, version |-> v])
      BY <1>2 DEF CreateBranch
    <3>2. [name |-> name, version |-> v] \in Branch
      BY DEF Branch
    <3>3. branches \in Seq(Branch)
      BY DEF TypeOK, Branch
    <3>4. branches' \in Seq(Branch)
      BY <3>1, <3>2, <3>3
    <3> QED
      BY <3>4 DEF Branch
  <2> QED
    BY <1>2, <2>1, <2>2, EndsTypes DEF CreateBranch, TypeOK
<1>3. ASSUME NEW v \in Names, NEW w \in Names, CompareVersions(c, v, w) PROVE TypeOK'
  <2>1. version_cache' \in [Names -> Any]
    BY <1>3, ReadType DEF CompareVersions
  <2> QED
    BY <1>0, <1>3, <2>1, EndsTypes DEF CompareVersions, TypeOK, Any
<1> QED
  BY <1>1, <1>2, <1>3 DEF Unlocked

LEMMA TypeStep == TypeOK /\ [Next]_vars => TypeOK'
<1> SUFFICES ASSUME TypeOK, [Next]_vars PROVE TypeOK'
  OBVIOUS
<1>1. CASE Edit
  BY <1>1 DEF Edit, TypeOK
<1>2. ASSUME NEW c \in Callers, NEW request \in Call, Acquire(c, request) PROVE TypeOK'
  BY <1>2 DEF Acquire, TypeOK, Outcomes
<1>3. ASSUME NEW c \in Callers, LockedStep(c) \/ Unlocked(c) PROVE TypeOK'
  BY <1>3, LockedTypes, UnlockedTypes
<1>4. CASE UNCHANGED vars
  BY <1>4 DEF vars, TypeOK
<1> QED
  BY <1>1, <1>2, <1>3, <1>4 DEF Next, Unlocked

\* Every variable keeps its type, whatever is called in whatever order.
THEOREM TypesHold == Spec => []TypeOK
BY TypeInit, TypeStep, PTL DEF Spec

-----------------------------------------------------------------------------
(* The commits *)

\* one commit per version and per tick of the clock
CommitsDiffer ==
    \A r, s \in versions :
        /\ r.version = s.version => r = s
        /\ r.timestamp <= stamp

IInv == TypeOK /\ IsFiniteSet(versions) /\ CommitsDiffer /\ ContentMatchesCommit

LEMMA IInvInit == Init => IInv
BY TypeInit, FS_EmptySet DEF Init, IInv, CommitsDiffer, ContentMatchesCommit

\* reading known versions takes nothing from the file
LEMMA ReadKeeps ==
    ASSUME IInv, NEW vs \in SUBSET Names, NEW r \in versions
    PROVE  Read(vs)[r.version] = r.file_hash
<1>1. r.version \in Names /\ r.file_hash # NoContent /\ version_cache[r.version] = r.file_hash
  BY VersionConstants DEF IInv, TypeOK, Commit, ContentMatchesCommit
<1> QED
  BY <1>1 DEF Read, GetContent

\* fewer commits, or the same, and a cache that agrees with them
LEMMA FewerCommits ==
    ASSUME IInv, TypeOK', versions' \subseteq versions, stamp' = stamp,
           \/ version_cache' = version_cache
           \/ \E vs \in SUBSET Names : version_cache' = Read(vs)
    PROVE  IInv'
<1>1. IsFiniteSet(versions')
  BY FS_Subset DEF IInv
<1>2. CommitsDiffer'
  BY DEF IInv, CommitsDiffer
<1>3. ContentMatchesCommit'
  BY ReadKeeps DEF IInv, ContentMatchesCommit
<1> QED
  BY <1>1, <1>2, <1>3 DEF IInv

LEMMA CreateKeeps ==
    ASSUME IInv, TypeOK', NEW c \in Callers, CreateVersion(c)
    PROVE  IInv'
<1> DEFINE v == call[c].version
           kept == {r \in versions : r.version # v}
<1>1. v \in Names
  BY GrantedFacts, CallFields DEF CreateVersion, IInv
<1>2. versions' = kept \cup {NewCommit(v)} /\ stamp' = stamp + 1 /\ stamp \in Nat
      /\ version_cache' = [version_cache EXCEPT ![v] = file]
  BY DEF CreateVersion, Store, Cache, IInv, TypeOK
<1>3. NewCommit(v).version = v /\ NewCommit(v).file_hash = file /\ NewCommit(v).timestamp = stamp + 1
  BY DEF NewCommit
<1>4. IsFiniteSet(versions')
  BY <1>2, FS_Subset, FS_AddElement DEF IInv
<1>5. \A r \in kept : r.version # v /\ r \in versions /\ r.timestamp \in Nat /\ r.version \in Names
  BY DEF IInv, TypeOK, Commit
<1>6. CommitsDiffer'
  BY <1>2, <1>3, <1>5 DEF IInv, CommitsDiffer
<1>7. ContentMatchesCommit'
  BY <1>1, <1>2, <1>3, <1>5 DEF IInv, ContentMatchesCommit, TypeOK
<1> QED
  BY <1>4, <1>6, <1>7 DEF IInv

LEMMA IInvStep == IInv /\ [Next]_vars => IInv'
<1> SUFFICES ASSUME IInv, [Next]_vars PROVE IInv'
  OBVIOUS
<1>0. TypeOK /\ TypeOK'
  BY TypeStep DEF IInv
<1>1. CASE UNCHANGED <<versions, version_cache, stamp>>
  BY <1>0, <1>1, FewerCommits
<1>2. ASSUME NEW c \in Callers, RollbackVersion(c) PROVE IInv'
  <2>1. call[c].version \in Names
    BY <1>0, <1>2, GrantedFacts, CallFields DEF RollbackVersion
  <2> QED
    BY <1>0, <1>2, <2>1, FewerCommits DEF RollbackVersion
<1>3. ASSUME NEW c \in Callers, MergeBranches(c) PROVE IInv'
  <2>1. BranchVersion(call[c].source) \cup BranchVersion(call[c].target) \in SUBSET Names
    BY <1>0, BranchVersionType
  <2> QED
    BY <1>0, <1>3, <2>1, FewerCommits DEF MergeBranches
<1>4. ASSUME NEW c \in Callers, CleanupOldVersions(c) PROVE IInv'
  BY <1>0, <1>4, FewerCommits DEF CleanupOldVersions, Newest
<1>5. ASSUME NEW c \in Callers, NEW v \in Names, NEW w \in Names, CompareVersions(c, v, w) PROVE IInv'
  BY <1>0, <1>5, FewerCommits DEF CompareVersions, Ends
<1>6. ASSUME NEW c \in Callers, CreateVersion(c) PROVE IInv'
  BY <1>0, <1>6, CreateKeeps
<1>7. ASSUME NEW c \in Callers, CreateWithoutFile(c) \/ Published(c) PROVE IInv'
  BY <1>1, <1>7 DEF CreateWithoutFile, Published
<1>8. ASSUME NEW c \in Callers, NEW v \in Names,
             TagVersion(c, v) \/ \E name \in BranchNames : CreateBranch(c, v, name)
      PROVE  IInv'
  BY <1>1, <1>8 DEF TagVersion, CreateBranch, Ends
<1>9. ASSUME NEW c \in Callers, NEW request, Acquire(c, request) PROVE IInv'
  BY <1>1, <1>9 DEF Acquire
<1>10. CASE Edit \/ UNCHANGED vars
  BY <1>1, <1>10 DEF Edit, vars
<1> QED
  BY <1>2, <1>3, <1>4, <1>5, <1>6, <1>7, <1>8, <1>9, <1>10 DEF Next, LockedStep

\* What is read for a version is what its commit recorded: the file as it is
\* today is never served for an old version.
THEOREM ContentAlwaysMatches == Spec => []ContentMatchesCommit
<1>1. IInv => ContentMatchesCommit
  BY DEF IInv
<1> QED
  BY <1>1, IInvInit, IInvStep, PTL DEF Spec

-----------------------------------------------------------------------------
(* Cleaning up *)

LEMMA NewestAreNewer ==
    ASSUME IInv, NEW keep \in Nat, NEW r \in versions \ Newest(keep), NEW s \in Newest(keep)
    PROVE  s.timestamp > r.timestamp
<1>1. s \in versions /\ r.timestamp \in Nat /\ s.timestamp \in Nat
  BY DEF Newest, IInv, TypeOK, Commit
<1>2. IsFiniteSet(Newer(s)) /\ Cardinality(Newer(s)) \in Nat /\ Cardinality(Newer(r)) \in Nat
  BY FS_Subset, FS_CardinalityType DEF Newer, IInv
<1>3. Cardinality(Newer(s)) < Cardinality(Newer(r))
  BY <1>2 DEF Newest
<1>4. ASSUME s.timestamp <= r.timestamp PROVE FALSE
  <2>1. Newer(r) \subseteq Newer(s)
    BY <1>1, <1>4 DEF Newer, IInv, TypeOK, Commit
  <2>2. Cardinality(Newer(r)) <= Cardinality(Newer(s))
    BY <1>2, <2>1, FS_Subset
  <2> QED
    BY <1>2, <1>3, <2>2
<1> QED
  BY <1>1, <1>4

LEMMA DroppedStep ==
    ASSUME IInv, [Next]_vars, NEW r \in versions, ~(\E s \in versions' : s.version = r.version)
    PROVE  /\ \E c \in Callers : call[c].op = "cleanup" /\ pc'[c] = "idle"
           /\ \A s \in versions' : s.timestamp > r.timestamp
<1>1. PICK c \in Callers : CleanupOldVersions(c)
  <2>1. versions' # versions
    OBVIOUS
  <2>2. ASSUME NEW c \in Callers, CreateVersion(c) PROVE FALSE
    <3> DEFINE v == call[c].version
    <3>1. versions' = {s \in versions : s.version # v} \cup {NewCommit(v)}
      BY <2>2 DEF CreateVersion, Store
    <3>2. NewCommit(v).version = v
      BY DEF NewCommit
    <3> QED
      BY <3>1, <3>2
  <2> QED
    BY <2>1, <2>2 DEF Next, vars, Edit, Acquire, LockedStep, CreateWithoutFile, Published, RollbackVersion,
       MergeBranches, TagVersion, CreateBranch, CompareVersions, Ends
<1>2. call[c].op = "cleanup" /\ call[c].keep \in Nat
  BY <1>1, GrantedFacts, CallFields, VersionConstants DEF CleanupOldVersions, IInv
<1>3. pc'[c] = "idle" /\ versions' = Newest(call[c].keep)
  BY <1>1 DEF CleanupOldVersions, Returns, IInv, TypeOK
<1>4. r \notin versions'
  OBVIOUS
<1> QED
  BY <1>2, <1>3, <1>4, NewestAreNewer

\* Only a cleanup drops commits, and only such as are older than all it keeps.
THEOREM CleanupAlwaysKeepsNewest == Spec => CleanupKeepsNewest
<1>1. IInv /\ [Next]_vars =>
        [\A r \in versions :
           ~(\E s \in versions' : s.version = r.version)
             => /\ \E c \in Callers : call[c].op = "cleanup" /\ pc'[c] = "idle"
                /\ \A s \in versions' : s.timestamp > r.timestamp]_vars
  BY DroppedStep
<1> QED
  BY <1>1, IInvInit, IInvStep, PTL DEF Spec, CleanupKeepsNewest
-----------------------------------------------------------------------------
(* The lock: who holds it, who waits for it, and what blocks it *)

Waiting(c) == \E i \in DOMAIN waiters : waiters[i] = c

LockInOrder ==
    /\ owner # Nobody => pc[owner] = "publishing" \/ SelfBlocked(owner)
    /\ \A c \in Callers : pc[c] = "publishing" => owner = c
    /\ \A c \in Callers : pc[c] = "waiting" <=> Waiting(c)
    /\ \A i, j \in DOMAIN waiters : waiters[i] = waiters[j] => i = j
    /\ \A c \in Callers : pc[c] = "idle" <=> call[c].op = "none"

LockInv == TypeOK /\ LockInOrder

\* the first of the waiters holds the free lock: for good, if it queues again
Serves(c) ==
    /\ owner = Nobody /\ waiters # <<>> /\ Head(waiters) = c
    /\ \/ \E how \in Outcomes : Returns(c, how)
       \/ NestedCreate(c)
       \/ /\ owner' = c /\ waiters' = Tail(waiters)
          /\ pc' = [pc EXCEPT ![c] = "publishing"] /\ call' = call

Leaves(c) ==
    /\ pc[c] = "publishing" /\ owner' = Nobody /\ waiters' = waiters
    /\ pc' = [pc EXCEPT ![c] = "idle"]
    /\ call' = [call EXCEPT ![c] = [op |-> "none"]]

\* somebody can be served, or somebody's handlers can end
SomebodyGoesOn ==
    \E d \in Callers : pc[d] = "publishing" \/ (Granted(d, call[d].op) /\ call[d].op # "none")

\* a coroutine that waits for itself does so for ever, and nobody returns
BlockedForGood ==
    \A c \in Callers :
        SelfBlocked(c) => SelfBlocked(c)' /\ \A d \in Callers : pc[d] # "idle" => pc'[d] # "idle"

NobodyStarves ==
    (\E c \in Callers : pc[c] # "idle") => SomebodyGoesOn \/ \E d \in Callers : SelfBlocked(d)

\* a coroutine whose critical section begins has its entry among the waiters
LEMMA HeadWaits ==
    ASSUME LockInv, waiters # <<>>
    PROVE  /\ Head(waiters) \in Callers /\ pc[Head(waiters)] = "waiting"
           /\ 1 \in DOMAIN waiters /\ Head(waiters) = waiters[1]
<1>1. waiters \in Seq(Callers) /\ Len(waiters) \in Nat /\ Len(waiters) > 0
  BY DEF LockInv, TypeOK
<1>2. 1 \in DOMAIN waiters /\ Head(waiters) = waiters[1]
  BY <1>1
<1>3. Head(waiters) \in Callers
  BY <1>1, <1>2
<1> QED
  BY <1>2, <1>3 DEF LockInv, LockInOrder, Waiting

\* what remains when the first of them has gone
LEMMA RestWaits ==
    ASSUME LockInv, waiters # <<>>
    PROVE  /\ Tail(waiters) \in Seq(Callers)
           /\ \A c : (\E i \in DOMAIN Tail(waiters) : Tail(waiters)[i] = c)
                       <=> Waiting(c) /\ c # Head(waiters)
           /\ \A i, j \in DOMAIN Tail(waiters) : Tail(waiters)[i] = Tail(waiters)[j] => i = j
<1>1. waiters \in Seq(Callers) /\ Len(waiters) \in Nat /\ Len(waiters) > 0 /\ DOMAIN waiters = 1 .. Len(waiters)
  BY DEF LockInv, TypeOK
<1>2. /\ Tail(waiters) \in Seq(Callers) /\ DOMAIN Tail(waiters) = 1 .. Len(waiters) - 1
      /\ \A i \in 1 .. Len(waiters) - 1 : Tail(waiters)[i] = waiters[i + 1]
      /\ Head(waiters) = waiters[1]
  BY <1>1
<1>3. \A i, j \in DOMAIN waiters : waiters[i] = waiters[j] => i = j
  BY DEF LockInv, LockInOrder
<1>4. \A i, j \in DOMAIN Tail(waiters) : Tail(waiters)[i] = Tail(waiters)[j] => i = j
  <2> SUFFICES ASSUME NEW i \in DOMAIN Tail(waiters), NEW j \in DOMAIN Tail(waiters),
                      Tail(waiters)[i] = Tail(waiters)[j]
               PROVE  i = j
    OBVIOUS
  <2>1. i \in Int /\ j \in Int /\ i + 1 \in DOMAIN waiters /\ j + 1 \in DOMAIN waiters
    BY <1>1, <1>2
  <2>2. waiters[i + 1] = waiters[j + 1]
    BY <1>2
  <2> QED
    BY <2>1, <2>2, <1>3
<1>5. ASSUME NEW c, NEW i \in DOMAIN Tail(waiters), Tail(waiters)[i] = c
      PROVE  Waiting(c) /\ c # Head(waiters)
  <2>1. i \in Int /\ i >= 1 /\ i + 1 \in DOMAIN waiters /\ 1 \in DOMAIN waiters /\ waiters[i + 1] = c
    BY <1>1, <1>2, <1>5
  <2>2. i + 1 # 1
    BY <2>1
  <2> QED
    BY <2>1, <2>2, <1>2, <1>3 DEF Waiting
<1>6. ASSUME NEW c, Waiting(c), c # Head(waiters)
      PROVE  \E i \in DOMAIN Tail(waiters) : Tail(waiters)[i] = c
  <2>1. PICK k \in DOMAIN waiters : waiters[k] = c
    BY <1>6 DEF Waiting
  <2>2. k \in Int /\ k # 1 /\ k >= 1 /\ k <= Len(waiters)
    BY <2>1, <1>1, <1>2, <1>6
  <2>3. k - 1 \in 1 .. Len(waiters) - 1 /\ (k - 1) + 1 = k
    BY <2>2, <1>1
  <2> QED
    BY <2>1, <2>3, <1>2
<1> QED
  BY <1>2, <1>4, <1>5, <1>6

\* a sequence without duplicates that takes in one more element
LEMMA AppendOne ==
    ASSUME NEW S, NEW s \in Seq(S), NEW x \in S,
           \A i, j \in DOMAIN s : s[i] = s[j] => i = j,
           ~ \E i \in DOMAIN s : s[i] = x
    PROVE  /\ \A c : (\E i \in DOMAIN Append(s, x) : Append(s, x)[i] = c)
                       <=> (\E i \in DOMAIN s : s[i] = c) \/ c = x
           /\ \A i, j \in DOMAIN Append(s, x) : Append(s, x)[i] = Append(s, x)[j] => i = j
<1> DEFINE a == Append(s, x)
<1>1. Len(s) \in Nat /\ DOMAIN s = 1 .. Len(s)
  OBVIOUS
<1>2. /\ DOMAIN a = 1 .. Len(s) + 1 /\ a[Len(s) + 1] = x
      /\ \A i \in 1 .. Len(s) : a[i] = s[i]
  BY <1>1
<1> HIDE DEF a
<1>3. \A i \in DOMAIN a : i \in DOMAIN s \/ i = Len(s) + 1
  BY <1>1, <1>2
<1>4. DOMAIN s \subseteq DOMAIN a /\ Len(s) + 1 \in DOMAIN a
  BY <1>1, <1>2
<1>5. \A i \in DOMAIN s : a[i] = s[i]
  BY <1>1, <1>2
<1>6. \A c : (\E i \in DOMAIN a : a[i] = c) <=> (\E i \in DOMAIN s : s[i] = c) \/ c = x
  BY <1>2, <1>3, <1>4, <1>5
<1>7. \A i, j \in DOMAIN a : a[i] = a[j] => i = j
  BY <1>2, <1>3, <1>5
<1> QED
  BY <1>6, <1>7 DEF a

LEMMA LockInit == Init => LockInv
<1> SUFFICES ASSUME Init PROVE LockInv
  OBVIOUS
<1>1. TypeOK
  BY TypeInit
<1>2. waiters = <<>> /\ owner = Nobody /\ \A c \in Callers : pc[c] = "idle" /\ call[c].op = "none"
  BY DEF Init
<1> QED
  BY <1>1, <1>2 DEF LockInv, LockInOrder, Waiting

\* c asks for the lock
LEMMA AcquireInOrder ==
    ASSUME LockInv, TypeOK', NEW c \in Callers, NEW request \in Call \ {[op |-> "none"]}, Acquire(c, request)
    PROVE  LockInOrder'
<1>1. /\ pc[c] = "idle" /\ waiters' = Append(waiters, c) /\ owner' = owner
      /\ pc' = [pc EXCEPT ![c] = "waiting"] /\ call' = [call EXCEPT ![c] = request]
  BY DEF Acquire
<1>2. request.op # "none"
  BY DEF Call
<1>3. /\ owner # Nobody => owner \in Callers /\ (pc[owner] = "publishing" \/ SelfBlocked(owner))
      /\ \A d \in Callers : pc[d] = "publishing" => owner = d
      /\ \A d \in Callers : pc[d] = "waiting" <=> Waiting(d)
      /\ \A i, j \in DOMAIN waiters : waiters[i] = waiters[j] => i = j
      /\ \A d \in Callers : pc[d] = "idle" <=> call[d].op = "none"
  BY DEF LockInv, LockInOrder, TypeOK
<1>4. /\ pc'[c] = "waiting" /\ call'[c] = request
      /\ \A d \in Callers \ {c} : pc'[d] = pc[d] /\ call'[d] = call[d]
  BY <1>1 DEF LockInv, TypeOK
<1>5. waiters \in Seq(Callers) /\ ~Waiting(c)
  BY <1>1, <1>3 DEF LockInv, TypeOK
<1>6. /\ \A d : Waiting(d)' <=> Waiting(d) \/ d = c
      /\ \A i, j \in DOMAIN waiters' : waiters'[i] = waiters'[j] => i = j
  BY <1>1, <1>3, <1>5, AppendOne DEF Waiting
<1>7. owner' # Nobody => pc'[owner'] = "publishing" \/ SelfBlocked(owner)'
  BY <1>1, <1>3, <1>4 DEF SelfBlocked
<1> QED
  BY <1>1, <1>2, <1>3, <1>4, <1>6, <1>7 DEF LockInOrder, SelfBlocked

\* c's critical section, and the lock it leaves or keeps
LEMMA ServedInOrder ==
    ASSUME LockInv, NEW c \in Callers, Serves(c)
    PROVE  LockInOrder'
<1>1. owner = Nobody /\ waiters # <<>> /\ Head(waiters) = c /\ pc[c] = "waiting"
  BY HeadWaits DEF Serves
<1>2. /\ \A d \in Callers : pc[d] # "publishing"
      /\ \A d \in Callers : pc[d] = "waiting" <=> Waiting(d)
      /\ \A d \in Callers : pc[d] = "idle" <=> call[d].op = "none"
  BY <1>1, VersionConstants DEF LockInv, LockInOrder
<1>3. pc \in [Callers -> {"idle", "waiting", "publishing"}] /\ call \in [Callers -> Call]
  BY DEF LockInv, TypeOK
<1>4. CASE \E how \in Outcomes : Returns(c, how)
  <2>1. /\ waiters' = Tail(waiters) /\ owner' = owner
        /\ pc' = [pc EXCEPT ![c] = "idle"] /\ call' = [call EXCEPT ![c] = [op |-> "none"]]
    BY <1>4 DEF Returns
  <2>2. /\ pc'[c] = "idle" /\ call'[c].op = "none"
        /\ \A d \in Callers \ {c} : pc'[d] = pc[d] /\ call'[d] = call[d]
    BY <2>1, <1>3
  <2>3. /\ \A d : Waiting(d)' <=> Waiting(d) /\ d # c
        /\ \A i, j \in DOMAIN waiters' : waiters'[i] = waiters'[j] => i = j
    BY <2>1, <1>1, RestWaits DEF Waiting
  <2> QED
    BY <2>1, <2>2, <2>3, <1>1, <1>2 DEF LockInOrder
<1>5. CASE NestedCreate(c)
  <2>1. owner' = c /\ waiters' = Append(Tail(waiters), c) /\ pc' = pc /\ call' = call
    BY <1>5 DEF NestedCreate
  <2> DEFINE rest == Tail(waiters)
  <2>2. /\ rest \in Seq(Callers)
        /\ \A d : (\E i \in DOMAIN rest : rest[i] = d) <=> Waiting(d) /\ d # c
        /\ \A i, j \in DOMAIN rest : rest[i] = rest[j] => i = j
    BY <1>1, RestWaits
  <2>3. waiters' = Append(rest, c)
    BY <2>1
  <2> HIDE DEF rest
  <2>4. ~ \E i \in DOMAIN rest : rest[i] = c
    BY <2>2
  <2>5. /\ \A d : (\E i \in DOMAIN Append(rest, c) : Append(rest, c)[i] = d)
                    <=> (\E i \in DOMAIN rest : rest[i] = d) \/ d = c
        /\ \A i, j \in DOMAIN Append(rest, c) : Append(rest, c)[i] = Append(rest, c)[j] => i = j
    BY <2>2, <2>4, AppendOne
  <2>6. Waiting(c)
    BY <1>1, <1>2
  <2>7. /\ \A d : Waiting(d)' <=> Waiting(d)
        /\ \A i, j \in DOMAIN waiters' : waiters'[i] = waiters'[j] => i = j
    BY <2>2, <2>3, <2>5, <2>6 DEF Waiting
  <2>8. SelfBlocked(owner)'
    BY <2>1, <1>1 DEF SelfBlocked
  <2> QED
    BY <2>1, <2>7, <2>8, <1>2 DEF LockInOrder
<1>6. CASE /\ owner' = c /\ waiters' = Tail(waiters)
           /\ pc' = [pc EXCEPT ![c] = "publishing"] /\ call' = call
  <2>1. pc'[c] = "publishing" /\ \A d \in Callers \ {c} : pc'[d] = pc[d]
    BY <1>3, <1>6
  <2>2. /\ \A d : Waiting(d)' <=> Waiting(d) /\ d # c
        /\ \A i, j \in DOMAIN waiters' : waiters'[i] = waiters'[j] => i = j
    BY <1>6, <1>1, RestWaits DEF Waiting
  <2> QED
    BY <1>6, <2>1, <2>2, <1>1, <1>2 DEF LockInOrder
<1> QED
  BY <1>4, <1>5, <1>6 DEF Serves

\* c's handlers are through
LEMMA LeavesInOrder ==
    ASSUME LockInv, NEW c \in Callers, Leaves(c)
    PROVE  LockInOrder'
<1>1. /\ pc[c] = "publishing" /\ owner' = Nobody /\ waiters' = waiters
      /\ pc' = [pc EXCEPT ![c] = "idle"] /\ call' = [call EXCEPT ![c] = [op |-> "none"]]
  BY DEF Leaves
<1>2. /\ pc'[c] = "idle" /\ call'[c].op = "none"
      /\ \A d \in Callers \ {c} : pc'[d] = pc[d] /\ call'[d] = call[d]
  BY <1>1 DEF LockInv, TypeOK
<1>3. owner = c /\ ~Waiting(c) /\ \A d \in Callers \ {c} : pc[d] # "publishing"
  BY <1>1 DEF LockInv, LockInOrder
<1>4. \A d : Waiting(d)' <=> Waiting(d)
  BY <1>1 DEF Waiting
<1> QED
  BY <1>1, <1>2, <1>3, <1>4 DEF LockInv, LockInOrder

\* what a locked step does to the lock
LEMMA LockedMoves ==
    ASSUME NEW c \in Callers, LockedStep(c)
    PROVE  Serves(c) \/ Leaves(c)
<1>0. {"nothing", "ok"} \subseteq Outcomes
  BY DEF Outcomes
<1>1. CASE CreateWithoutFile(c)
  BY <1>0, <1>1 DEF CreateWithoutFile, Serves, Granted
<1>2. CASE CreateVersion(c)
  <2>1. owner = Nobody /\ waiters # <<>> /\ Head(waiters) = c
    BY <1>2 DEF CreateVersion, Granted
  <2>2. \/ Returns(c, "nothing")
        \/ /\ owner' = c /\ waiters' = Tail(waiters)
           /\ pc' = [pc EXCEPT ![c] = "publishing"] /\ call' = call
    BY <1>2 DEF CreateVersion
  <2> QED
    BY <1>0, <2>1, <2>2 DEF Serves
<1>3. CASE Published(c)
  BY <1>3 DEF Published, Leaves
<1>4. CASE RollbackVersion(c)
  <2>1. owner = Nobody /\ waiters # <<>> /\ Head(waiters) = c
    BY <1>4 DEF RollbackVersion, Granted
  <2>2. NestedCreate(c) \/ Returns(c, "nothing")
    BY <1>4 DEF RollbackVersion
  <2> QED
    BY <1>0, <2>1, <2>2 DEF Serves
<1>5. CASE MergeBranches(c)
  <2>1. owner = Nobody /\ waiters # <<>> /\ Head(waiters) = c
    BY <1>5 DEF MergeBranches, Granted
  <2>2. NestedCreate(c) \/ Returns(c, "nothing")
    BY <1>5 DEF MergeBranches
  <2> QED
    BY <1>0, <2>1, <2>2 DEF Serves
<1>6. CASE CleanupOldVersions(c)
  BY <1>0, <1>6 DEF CleanupOldVersions, Serves, Granted
<1> QED
  BY <1>1, <1>2, <1>3, <1>4, <1>5, <1>6 DEF LockedStep

\* the steps of the lock, and those that leave it alone
LEMMA LockMoves ==
    ASSUME [Next]_vars
    PROVE  \/ \E c \in Callers, request \in Call \ {[op |-> "none"]} : Acquire(c, request)
           \/ \E c \in Callers : Serves(c) \/ Leaves(c)
           \/ UNCHANGED <<owner, waiters, pc, call>>
<1>1. ASSUME NEW c \in Callers, Unlocked(c) PROVE UNCHANGED <<owner, waiters, pc, call>>
  BY <1>1 DEF Unlocked, TagVersion, CreateBranch, CompareVersions, Ends
<1> QED
  BY <1>1, LockedMoves DEF Next, Unlocked, Edit, vars

LEMMA LockKept ==
    ASSUME LockInv, TypeOK', UNCHANGED <<owner, waiters, pc, call>>
    PROVE  LockInOrder'
<1>1. \A d : Waiting(d)' <=> Waiting(d)
  BY DEF Waiting
<1> QED
  BY <1>1 DEF LockInv, LockInOrder, SelfBlocked

LEMMA LockInvStep == LockInv /\ [Next]_vars => LockInv'
<1> SUFFICES ASSUME LockInv, [Next]_vars PROVE LockInv'
  OBVIOUS
<1>1. TypeOK'
  BY TypeStep DEF LockInv
<1>2. LockInOrder'
  BY <1>1, LockMoves, AcquireInOrder, ServedInOrder, LeavesInOrder, LockKept
<1> QED
  BY <1>1, <1>2 DEF LockInv

\* The lock has one holder at most, and each call that waits is queued once:
\* so long as no rollback or merge queues behind itself, some call can go on.
THEOREM LockNeverStarves == Spec => [](LockInOrder /\ NobodyStarves)
<1>1. LockInv => LockInOrder /\ NobodyStarves
  <2> SUFFICES ASSUME LockInv, NEW c \in Callers, pc[c] # "idle",
                      ~ \E d \in Callers : SelfBlocked(d)
               PROVE  SomebodyGoesOn
    BY DEF LockInv, NobodyStarves
  <2>1. CASE owner # Nobody
    BY <2>1 DEF LockInv, LockInOrder, TypeOK, SomebodyGoesOn
  <2>2. CASE owner = Nobody
    <3>1. waiters # <<>>
      BY <2>2, VersionConstants DEF LockInv, LockInOrder, TypeOK, Waiting
    <3>2. Head(waiters) \in Callers /\ call[Head(waiters)].op # "none"
      BY <3>1, HeadWaits DEF LockInv, LockInOrder
    <3> QED
      BY <2>2, <3>1, <3>2 DEF SomebodyGoesOn, Granted
  <2> QED
    BY <2>1, <2>2
<1> QED
  BY <1>1, LockInit, LockInvStep, PTL DEF Spec

LEMMA BlockedStep == LockInv /\ [Next]_vars => BlockedForGood
<1> SUFFICES ASSUME LockInv, [Next]_vars, NEW c \in Callers, SelfBlocked(c)
             PROVE  SelfBlocked(c)' /\ \A d \in Callers : pc[d] # "idle" => pc'[d] # "idle"
  BY DEF BlockedForGood
<1>1. owner = c /\ owner # Nobody /\ pc[c] = "waiting" /\ \A d \in Callers : pc[d] # "publishing"
  BY VersionConstants DEF SelfBlocked, LockInv, LockInOrder
<1>2. ASSUME NEW d \in Callers, NEW request, Acquire(d, request)
      PROVE  owner' = owner /\ \A e \in Callers : pc[e] # "idle" => pc'[e] = pc[e]
  BY <1>2 DEF Acquire, LockInv, TypeOK
<1>3. \A d \in Callers : ~Serves(d) /\ ~Leaves(d)
  BY <1>1 DEF Serves, Leaves
<1>4. owner' = owner /\ \A e \in Callers : pc[e] # "idle" => pc'[e] = pc[e]
  BY <1>2, <1>3, LockMoves
<1> QED
  BY <1>1, <1>4 DEF SelfBlocked

\* rollback_version and merge_branches call create_version under the lock it
\* takes: whoever gets there waits for itself for ever, and from then on no
\* call under the lock returns.
THEOREM SelfBlockIsForGood == Spec => [][BlockedForGood]_vars
<1>1. LockInv /\ [Next]_vars => [BlockedForGood]_vars
  BY BlockedStep
<1> QED
  BY <1>1, LockInit, LockInvStep, PTL DEF Spec
=============================================================================
