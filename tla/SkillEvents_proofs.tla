--------------------------- MODULE SkillEvents_proofs ---------------------------
(***************************************************************************)
(* Theorems about SkillEvents, for any number of publishers, handlers and  *)
(* events: types, the soundness of the history, and that a delivery that   *)
(* walks lists which change under it calls everybody once.                 *)
(***************************************************************************)
EXTENDS SkillEvents, SequenceTheorems, TLAPS

-----------------------------------------------------------------------------
(* Sequences *)

LEMMA SeqIndex ==
    ASSUME NEW S, NEW s \in Seq(S)
    PROVE  /\ Len(s) \in Nat /\ DOMAIN s = 1..Len(s)
           /\ \A i \in 1..Len(s) : s[i] \in S
OBVIOUS

LEMMA Removed ==
    ASSUME NEW S, NEW s \in Seq(S), NEW r \in 1..Len(s)
    PROVE  /\ RemoveAt(s, r) \in Seq(S)
           /\ Len(RemoveAt(s, r)) = Len(s) - 1
           /\ \A i \in 1..Len(s) - 1 : RemoveAt(s, r)[i] = IF i < r THEN s[i] ELSE s[i + 1]
<1> DEFINE a == SubSeq(s, 1, r - 1)
           b == SubSeq(s, r + 1, Len(s))
<1>0. Len(s) \in Nat /\ r \in Int
  OBVIOUS
<1>1. /\ a \in Seq(S) /\ Len(a) = r - 1
      /\ \A i \in 1..r - 1 : a[i] = s[i]
  <2>1. \A i \in 1..r - 1 : s[i] \in S
    OBVIOUS
  <2> QED
    BY <1>0, <2>1, SubSeqProperties
<1>2. /\ b \in Seq(S) /\ Len(b) = Len(s) - r
      /\ \A i \in 1..Len(s) - r : b[i] = s[r + i]
  <2>1. \A i \in r + 1..Len(s) : s[i] \in S
    OBVIOUS
  <2> QED
    BY <1>0, <2>1, SubSeqProperties
<1>3. RemoveAt(s, r) = a \o b
  BY DEF RemoveAt
<1> HIDE DEF a, b
<1>4. /\ a \o b \in Seq(S) /\ Len(a \o b) = Len(a) + Len(b)
      /\ \A i \in 1..Len(a) + Len(b) : (a \o b)[i] = IF i <= Len(a) THEN a[i] ELSE b[i - Len(a)]
  BY <1>1, <1>2, ConcatProperties
<1>5. Len(a) + Len(b) = Len(s) - 1
  BY <1>0, <1>1, <1>2
<1>6. ASSUME NEW i \in 1..Len(s) - 1 PROVE (a \o b)[i] = IF i < r THEN s[i] ELSE s[i + 1]
  <2>1. (a \o b)[i] = IF i <= r - 1 THEN a[i] ELSE b[i - (r - 1)]
    BY <1>1, <1>4, <1>5
  <2>2. CASE i < r
    BY <1>0, <1>1, <2>1, <2>2
  <2>3. CASE ~(i < r)
    <3>1. i - (r - 1) \in 1..Len(s) - r /\ r + (i - (r - 1)) = i + 1 /\ ~(i <= r - 1)
      BY <1>0, <2>3
    <3> QED
      BY <1>0, <1>2, <2>1, <2>3, <3>1
  <2> QED
    BY <2>2, <2>3
<1> QED
  BY <1>3, <1>4, <1>5, <1>6

LEMMA Appended ==
    ASSUME NEW S, NEW s \in Seq(S), NEW x \in S
    PROVE  /\ Append(s, x) \in Seq(S) /\ Len(Append(s, x)) = Len(s) + 1
           /\ \A i \in 1..Len(s) : Append(s, x)[i] = s[i]
           /\ Append(s, x)[Len(s) + 1] = x
BY AppendProperties

-----------------------------------------------------------------------------
(* What a walk through list L up to entry i has done for the handlers W that *)
(* are owed a call; d: somebody was taken off                                *)

Served(L, W, C, d, i) ==
    /\ \A h \in W : C[h] <= 1
    /\ \A j \in 1..Len(L) : j > i /\ L[j] \in W => C[L[j]] = 0
    /\ ~d => \A h \in W : \E j \in 1..Len(L) : L[j] = h /\ (j <= i => C[h] = 1)

AllServed(W, C, d) == \A h \in W : C[h] <= 1 /\ (~d => C[h] = 1)

Counts == [Handlers -> Nat]

LEMMA ServedStart ==
    ASSUME NEW L \in Seq(Handlers), NEW W \in SUBSET ToSet(L), NEW C \in Counts, NEW d,
           \A h \in Handlers : C[h] = 0
    PROVE  Served(L, W, C, d, 0)
<1>1. \A h \in W : \E j \in 1..Len(L) : L[j] = h
  BY DEF ToSet
<1>2. W \subseteq Handlers
  BY DEF ToSet
<1> QED
  BY <1>1, <1>2 DEF Served

LEMMA ServedNext ==
    ASSUME NEW L \in Seq(Handlers), IsInjective(L), NEW W \in SUBSET Handlers, NEW C \in Counts, NEW d,
           NEW i \in Nat, i < Len(L), Served(L, W, C, d, i)
    PROVE  Served(L, W, [C EXCEPT ![L[i + 1]] = @ + 1], d, i + 1)
<1> DEFINE g == L[i + 1]
           D == [C EXCEPT ![g] = @ + 1]
<1>1. g \in Handlers /\ i + 1 \in 1..Len(L)
  OBVIOUS
<1>2. \A h \in Handlers : D[h] = IF h = g THEN C[h] + 1 ELSE C[h]
  BY DEF Counts
<1>3. \A j, k \in 1..Len(L) : L[j] = L[k] => j = k
  BY DEF IsInjective
<1>4. \A j \in 1..Len(L) : L[j] \in Handlers
  OBVIOUS
<1>5. g \in W => C[g] = 0
  BY <1>1 DEF Served
<1>6. \A h \in W : D[h] <= 1
  BY <1>2, <1>5 DEF Served
<1>7. \A j \in 1..Len(L) : j > i + 1 /\ L[j] \in W => D[L[j]] = 0
  BY <1>1, <1>2, <1>3, <1>4 DEF Served
<1>8. ASSUME ~d, NEW h \in W PROVE \E j \in 1..Len(L) : L[j] = h /\ (j <= i + 1 => D[h] = 1)
  <2>1. PICK j \in 1..Len(L) : L[j] = h /\ (j <= i => C[h] = 1)
    BY <1>8 DEF Served
  <2>2. j <= i + 1 => D[h] = 1
    BY <1>1, <1>2, <1>3, <1>5, <2>1
  <2> QED
    BY <2>1, <2>2
<1> QED
  BY <1>6, <1>7, <1>8 DEF Served

LEMMA ServedAppend ==
    ASSUME NEW L \in Seq(Handlers), NEW W, NEW C, NEW d, NEW i \in Nat, Served(L, W, C, d, i),
           NEW g \in Handlers, g \notin W
    PROVE  Served(Append(L, g), W, C, d, i)
<1>1. /\ Len(Append(L, g)) = Len(L) + 1 /\ Len(L) \in Nat
      /\ \A j \in 1..Len(L) : Append(L, g)[j] = L[j]
      /\ Append(L, g)[Len(L) + 1] = g
  BY Appended
<1>2. \A j \in 1..Len(L) + 1 : j \in 1..Len(L) \/ j = Len(L) + 1
  BY <1>1
<1>3. 1..Len(L) \subseteq 1..Len(L) + 1
  BY <1>1
<1> QED
  BY <1>1, <1>2, <1>3 DEF Served

LEMMA ServedRemove ==
    ASSUME NEW L \in Seq(Handlers), NEW W, NEW C, NEW d, NEW i \in Nat, Served(L, W, C, d, i),
           NEW r \in 1..Len(L), NEW V \in SUBSET W
    PROVE  Served(RemoveAt(L, r), V, C, TRUE, i)
<1>1. /\ Len(RemoveAt(L, r)) = Len(L) - 1 /\ Len(L) \in Nat
      /\ \A j \in 1..Len(L) - 1 : RemoveAt(L, r)[j] = IF j < r THEN L[j] ELSE L[j + 1]
  BY Removed
<1>2. ASSUME NEW j \in 1..Len(L) - 1, j > i, RemoveAt(L, r)[j] \in V
      PROVE  C[RemoveAt(L, r)[j]] = 0
  BY <1>1, <1>2 DEF Served
<1> QED
  BY <1>1, <1>2 DEF Served

\* fewer are owed a call, the list is the same
LEMMA ServedFewer ==
    ASSUME NEW L, NEW W, NEW C, NEW d, NEW i, Served(L, W, C, d, i), NEW V \in SUBSET W
    PROVE  Served(L, V, C, TRUE, i)
BY DEF Served

LEMMA ServedNobody == ASSUME NEW L, NEW C, NEW i PROVE Served(L, {}, C, TRUE, i)
BY DEF Served

LEMMA ServedEnd ==
    ASSUME NEW L \in Seq(Handlers), NEW W, NEW C, NEW d, NEW i \in Nat, Served(L, W, C, d, i), i >= Len(L)
    PROVE  AllServed(W, C, d)
BY DEF Served, AllServed

-----------------------------------------------------------------------------
(* A delivery: the typed list L, then the global list G *)

Walk(L, G, W, C, d, k, i) ==
    IF k = "typed"
    THEN Served(L, W["typed"], C["typed"], d, i) /\ Served(G, W["global"], C["global"], d, 0)
    ELSE AllServed(W["typed"], C["typed"], d) /\ Served(G, W["global"], C["global"], d, i)

LEMMA WalkTyped ==
    ASSUME NEW L \in Seq(Handlers), IsInjective(L), NEW G, NEW W \in [Kinds -> SUBSET Handlers],
           NEW C \in [Kinds -> Counts], NEW d, NEW i \in Nat, i < Len(L), Walk(L, G, W, C, d, "typed", i)
    PROVE  Walk(L, G, W, [C EXCEPT !["typed"][L[i + 1]] = @ + 1], d, "typed", i + 1)
<1> DEFINE D == [C EXCEPT !["typed"][L[i + 1]] = @ + 1]
<1>1. D["typed"] = [C["typed"] EXCEPT ![L[i + 1]] = @ + 1] /\ D["global"] = C["global"]
  BY DEF Kinds
<1>2. C["typed"] \in Counts /\ W["typed"] \in SUBSET Handlers
  BY DEF Kinds
<1> QED
  BY <1>1, <1>2, ServedNext DEF Walk

LEMMA WalkGlobal ==
    ASSUME NEW L, NEW G \in Seq(Handlers), IsInjective(G), NEW W \in [Kinds -> SUBSET Handlers],
           NEW C \in [Kinds -> Counts], NEW d, NEW i \in Nat, i < Len(G), Walk(L, G, W, C, d, "global", i)
    PROVE  Walk(L, G, W, [C EXCEPT !["global"][G[i + 1]] = @ + 1], d, "global", i + 1)
<1> DEFINE D == [C EXCEPT !["global"][G[i + 1]] = @ + 1]
<1>1. D["global"] = [C["global"] EXCEPT ![G[i + 1]] = @ + 1] /\ D["typed"] = C["typed"]
  BY DEF Kinds
<1>2. C["global"] \in Counts /\ W["global"] \in SUBSET Handlers
  BY DEF Kinds
<1> QED
  BY <1>1, <1>2, ServedNext DEF Walk

\* the typed list is through
LEMMA WalkOver ==
    ASSUME NEW L \in Seq(Handlers), NEW G, NEW W, NEW C, NEW d, NEW i \in Nat, i >= Len(L),
           Walk(L, G, W, C, d, "typed", i)
    PROVE  \A M : Walk(M, G, W, C, d, "global", 0)
<1>1. Served(L, W["typed"], C["typed"], d, i) /\ Served(G, W["global"], C["global"], d, 0)
  BY DEF Walk
<1>2. AllServed(W["typed"], C["typed"], d)
  BY <1>1, ServedEnd
<1> QED
  BY <1>1, <1>2 DEF Walk

\* and so is the global one
LEMMA WalkEnd ==
    ASSUME NEW L, NEW G \in Seq(Handlers), NEW W, NEW C, NEW d, NEW i \in Nat, i >= Len(G),
           Walk(L, G, W, C, d, "global", i)
    PROVE  \A k \in Kinds : AllServed(W[k], C[k], d)
<1>1. AllServed(W["typed"], C["typed"], d) /\ Served(G, W["global"], C["global"], d, i)
  BY DEF Walk
<1>2. AllServed(W["global"], C["global"], d)
  BY <1>1, ServedEnd
<1> QED
  BY <1>1, <1>2 DEF Kinds

-----------------------------------------------------------------------------
(* The state of a delivery *)

Spots == {Idle} \cup (Kinds \X (Nat \ {0}))

LEMMA SpotFacts ==
    ASSUME NEW at \in Spots
    PROVE  \/ at = Idle /\ at[1] = "idle"
           \/ at # Idle /\ at[1] \in Kinds /\ at[2] \in Nat \ {0} /\ at = <<at[1], at[2]>>
BY DEF Spots, Idle, Kinds

ListsDiffer ==
    /\ \A k \in Kinds : IsInjective(lists[k])
    /\ \A p \in Publishers : IsInjective(Walked(p))

LEMMA ListTypes ==
    ASSUME TypeOK
    PROVE  /\ \A k \in Kinds : lists[k] \in Seq(Handlers)
           /\ lists["typed"] \in Seq(Handlers) /\ lists["global"] \in Seq(Handlers)
           /\ \A p \in Publishers : Walked(p) \in Seq(Handlers)
<1>1. \A k \in Kinds : lists[k] \in Seq(Handlers)
  BY DEF TypeOK
<1>2. lists["typed"] \in Seq(Handlers) /\ lists["global"] \in Seq(Handlers)
  BY <1>1 DEF Kinds
<1>3. ASSUME NEW p \in Publishers PROVE Walked(p) \in Seq(Handlers)
  <2>1. detached[p] \in Seq(Seq(Handlers))
    BY DEF TypeOK
  <2>2. CASE detached[p] # <<>>
    <3>1. 1 \in 1..Len(detached[p])
      BY <2>1, <2>2
    <3>2. detached[p][1] \in Seq(Handlers)
      BY <2>1, <3>1, ElementOfSeq
    <3> QED
      BY <2>2, <3>2 DEF Walked
  <2>3. CASE detached[p] = <<>>
    BY <1>2, <2>3 DEF Walked
  <2> QED
    BY <2>2, <2>3
<1> QED
  BY <1>1, <1>2, <1>3

LEMMA FollowingIs ==
    ASSUME TypeOK, NEW p \in Publishers, NEW kind \in Kinds, NEW i \in Nat
    PROVE  \/ /\ kind = "typed" /\ i < Len(Walked(p)) /\ Following(p, kind, i) = <<"typed", i + 1>>
           \/ /\ kind = "typed" /\ i >= Len(Walked(p)) /\ 0 < Len(lists["global"])
              /\ Following(p, kind, i) = <<"global", 1>>
           \/ /\ kind = "global" /\ i < Len(lists["global"]) /\ Following(p, kind, i) = <<"global", i + 1>>
           \/ /\ kind = "typed" => i >= Len(Walked(p)) /\ Len(lists["global"]) = 0
              /\ kind = "global" => i >= Len(lists["global"])
              /\ Following(p, kind, i) = Idle
<1>1. Walked(p) \in Seq(Handlers) /\ lists["global"] \in Seq(Handlers)
  BY ListTypes
<1>2. Len(Walked(p)) \in Nat /\ Len(lists["global"]) \in Nat
      /\ (lists["global"] = <<>> <=> Len(lists["global"]) = 0)
  BY <1>1
<1>3. CASE kind = "typed"
  BY <1>2, <1>3 DEF Following
<1>4. CASE kind = "global"
  BY <1>2, <1>4 DEF Following
<1> QED
  BY <1>3, <1>4 DEF Kinds

\* p goes on after entry i of the list of that kind
LEMMA AdvanceTypes ==
    ASSUME TypeOK, NEW p \in Publishers, NEW kind \in Kinds, NEW i \in Nat, NEW C \in [Kinds -> Counts],
           Advance(p, Following(p, kind, i), C), detached[p] # <<>> => kind = "typed"
    PROVE  /\ running' \in [Publishers -> Spots]
           /\ detached' \in [Publishers -> Seq(Seq(Handlers))]
           /\ calls' \in [Publishers -> [Kinds -> Counts]]
           /\ \A q \in Publishers : detached'[q] # <<>> => running'[q][1] = "typed"
           /\ \A q \in Publishers : q # p => /\ running'[q] = running[q] /\ detached'[q] = detached[q]
                                             /\ calls'[q] = calls[q]
<1> DEFINE at == Following(p, kind, i)
<1>1. \/ at = Idle
      \/ at[1] = "typed" /\ at[2] \in 1..Len(Walked(p)) /\ at \in Spots
      \/ at[1] = "global" /\ at[2] \in 1..Len(lists["global"]) /\ at \in Spots
  <2>1. Len(Walked(p)) \in Nat /\ Len(lists["global"]) \in Nat
    BY ListTypes, SeqIndex
  <2> QED
    BY <2>1, FollowingIs DEF Spots, Kinds
<1>2. at \in Spots
  BY <1>1 DEF Spots
<1>3. at = Idle \/ (at[1] \in Kinds /\ Handler(p, at) \in Handlers)
  <2>1. Walked(p) \in Seq(Handlers) /\ lists["global"] \in Seq(Handlers)
    BY ListTypes
  <2>2. \A j \in 1..Len(Walked(p)) : Walked(p)[j] \in Handlers
    BY <2>1
  <2>3. \A j \in 1..Len(lists["global"]) : lists["global"][j] \in Handlers
    BY <2>1
  <2> QED
    BY <1>1, <2>2, <2>3 DEF Handler, Kinds
<1> HIDE DEF at
<1>4. Advance(p, at, C)
  BY DEF at
<1>5. (IF at = Idle THEN NoCalls ELSE [C EXCEPT ![at[1]][Handler(p, at)] = @ + 1]) \in [Kinds -> Counts]
  <2>1. NoCalls \in [Kinds -> Counts]
    BY DEF NoCalls, Counts
  <2>2. CASE at # Idle
    <3>1. C[at[1]] \in Counts
      BY <1>3, <2>2
    <3>2. [C[at[1]] EXCEPT ![Handler(p, at)] = @ + 1] \in Counts
      BY <1>3, <2>2, <3>1 DEF Counts
    <3> QED
      BY <1>3, <2>2, <3>2
  <2> QED
    BY <2>1, <2>2
<1>6. calls' \in [Publishers -> [Kinds -> Counts]] /\ running' \in [Publishers -> Spots]
  <2>1. calls \in [Publishers -> [Kinds -> Counts]] /\ running \in [Publishers -> Spots]
    BY DEF TypeOK, Counts, Spots
  <2>2. calls' = [calls EXCEPT ![p] = IF at = Idle THEN NoCalls ELSE [C EXCEPT ![at[1]][Handler(p, at)] = @ + 1]]
        /\ running' = [running EXCEPT ![p] = at]
    BY <1>4 DEF Advance
  <2> QED
    BY <1>2, <1>5, <2>1, <2>2
<1>7. detached' \in [Publishers -> Seq(Seq(Handlers))]
  BY <1>4 DEF Advance, TypeOK
<1>8. \A q \in Publishers : q # p => /\ running'[q] = running[q] /\ detached'[q] = detached[q]
                                     /\ calls'[q] = calls[q]
  BY <1>4 DEF Advance, TypeOK
<1>9. detached'[p] # <<>> => running'[p][1] = "typed"
  BY <1>4 DEF Advance, TypeOK
<1> QED
  BY <1>6, <1>7, <1>8, <1>9 DEF TypeOK

\* and keeps the account of its walk
LEMMA AdvanceWalks ==
    ASSUME TypeOK, ListsDiffer, NEW p \in Publishers, NEW kind \in Kinds, NEW i \in Nat,
           NEW C \in [Kinds -> Counts], NEW W \in [Kinds -> SUBSET Handlers], NEW d,
           Walk(Walked(p), lists["global"], W, C, d, kind, i),
           Advance(p, Following(p, kind, i), C), lists' = lists
    PROVE  /\ running'[p] # Idle =>
                Walk(Walked(p)', lists["global"], W, calls'[p], d, running'[p][1], running'[p][2])
           /\ running'[p] = Idle => \A k \in Kinds : AllServed(W[k], C[k], d)
<1> DEFINE at == Following(p, kind, i)
           L == Walked(p)
           G == lists["global"]
<1>1. running'[p] = at
  BY DEF Advance, TypeOK
<1>2. L \in Seq(Handlers) /\ G \in Seq(Handlers) /\ IsInjective(L) /\ IsInjective(G) /\ Len(G) \in Nat
  BY ListTypes DEF ListsDiffer, Kinds
<1>a. at # Idle => calls'[p] = [C EXCEPT ![at[1]][Handler(p, at)] = @ + 1]
  <2>1. calls' = [calls EXCEPT ![p] = IF at = Idle THEN NoCalls ELSE [C EXCEPT ![at[1]][Handler(p, at)] = @ + 1]]
        /\ DOMAIN calls = Publishers
    BY DEF Advance, TypeOK
  <2> HIDE DEF at
  <2> QED
    BY <2>1
<1>3. CASE kind = "typed" /\ i < Len(L) /\ at = <<"typed", i + 1>>
  <2>0. at[1] = "typed" /\ at[2] = i + 1 /\ at # Idle
    BY <1>3 DEF Idle
  <2>1. calls'[p] = [C EXCEPT !["typed"][L[i + 1]] = @ + 1]
    <3>1. Handler(p, at) = L[i + 1]
      BY <2>0 DEF Handler
    <3> HIDE DEF at
    <3> QED
      BY <1>a, <2>0, <3>1
  <2>2. Walked(p)' = L
    BY <1>3 DEF Advance, Walked, TypeOK
  <2>3. Walk(L, G, W, [C EXCEPT !["typed"][L[i + 1]] = @ + 1], d, "typed", i + 1)
    BY <1>2, <1>3, WalkTyped
  <2> QED
    BY <1>1, <2>0, <2>1, <2>2, <2>3
<1>4. CASE kind = "typed" /\ i >= Len(L) /\ 0 < Len(G) /\ at = <<"global", 1>>
  <2>0. at[1] = "global" /\ at[2] = 0 + 1 /\ at # Idle
    BY <1>4 DEF Idle
  <2>1. calls'[p] = [C EXCEPT !["global"][G[0 + 1]] = @ + 1]
    <3>1. Handler(p, at) = G[0 + 1]
      BY <2>0 DEF Handler
    <3> HIDE DEF at
    <3> QED
      BY <1>a, <2>0, <3>1
  <2>2. Walk(Walked(p)', G, W, C, d, "global", 0)
    BY <1>2, <1>4, WalkOver
  <2>3. Walk(Walked(p)', G, W, [C EXCEPT !["global"][G[0 + 1]] = @ + 1], d, "global", 0 + 1)
    BY <1>2, <1>4, <2>2, WalkGlobal
  <2> QED
    BY <1>1, <2>0, <2>1, <2>3
<1>5. CASE kind = "global" /\ i < Len(G) /\ at = <<"global", i + 1>>
  <2>0. at[1] = "global" /\ at[2] = i + 1 /\ at # Idle
    BY <1>5 DEF Idle
  <2>1. calls'[p] = [C EXCEPT !["global"][G[i + 1]] = @ + 1]
    <3>1. Handler(p, at) = G[i + 1]
      BY <2>0 DEF Handler
    <3> HIDE DEF at
    <3> QED
      BY <1>a, <2>0, <3>1
  <2>2. Walk(Walked(p)', G, W, C, d, "global", i)
    BY <1>5 DEF Walk
  <2>3. Walk(Walked(p)', G, W, [C EXCEPT !["global"][G[i + 1]] = @ + 1], d, "global", i + 1)
    BY <1>2, <1>5, <2>2, WalkGlobal
  <2> QED
    BY <1>1, <2>0, <2>1, <2>3
<1>6. CASE /\ kind = "typed" => i >= Len(L) /\ Len(G) = 0
           /\ kind = "global" => i >= Len(G)
           /\ at = Idle
  <2>1. CASE kind = "typed"
    <3>1. Walk(L, G, W, C, d, "global", 0)
      BY <1>2, <1>6, <2>1, WalkOver
    <3>2. Served(G, W["global"], C["global"], d, 0) /\ AllServed(W["typed"], C["typed"], d)
      BY <3>1 DEF Walk
    <3> QED
      BY <1>1, <1>2, <1>6, <2>1, <3>2, ServedEnd DEF Kinds
  <2>2. CASE kind = "global"
    BY <1>1, <1>2, <1>6, <2>2, WalkEnd
  <2> QED
    BY <2>1, <2>2 DEF Kinds
<1> QED
  BY <1>3, <1>4, <1>5, <1>6, FollowingIs

-----------------------------------------------------------------------------
(* The history *)

\* events come in with rising timestamps and leave in any order
HistoryInv ==
    /\ HistorySound
    /\ cleared <= clock
    /\ \A i \in 1..Len(history) : history[i] <= clock

\* h is the history with event t added, the oldest entry dropped if by = 1
Trimmed(h, t, by) ==
    /\ h \in Seq(1..MaxEvents) /\ Len(h) \in 1..MaxHistorySize
    /\ h[Len(h)] = t
    /\ \A i \in 1..Len(h) - 1 : i + by \in 1..Len(history) /\ h[i] = history[i + by]

LEMMA TrimIs ==
    ASSUME TypeOK, HistoryInv, clock < MaxEvents
    PROVE  \E by \in {0, 1} : Trimmed(Trim(Append(history, clock + 1)), clock + 1, by)
<1> DEFINE a == Append(history, clock + 1)
<1>1. /\ history \in Seq(1..MaxEvents) /\ clock + 1 \in 1..MaxEvents
      /\ Len(history) \in Nat /\ Len(history) <= MaxHistorySize /\ MaxHistorySize \in Nat \ {0}
  BY EventConstants DEF TypeOK, HistoryInv, HistorySound
<1>2. /\ a \in Seq(1..MaxEvents) /\ Len(a) = Len(history) + 1
      /\ \A i \in 1..Len(history) : a[i] = history[i]
      /\ a[Len(history) + 1] = clock + 1
  BY <1>1, Appended
<1> HIDE DEF a
<1>3. CASE Len(history) < MaxHistorySize
  <2>1. Trim(a) = a
    BY <1>1, <1>2, <1>3 DEF Trim
  <2>2. \A i \in 1..Len(a) - 1 : i + 0 \in 1..Len(history) /\ a[i] = history[i + 0]
    BY <1>1, <1>2
  <2>3. Trimmed(a, clock + 1, 0)
    BY <1>1, <1>2, <1>3, <2>2 DEF Trimmed
  <2> QED
    BY <2>1, <2>3 DEF a
<1>4. CASE Len(history) = MaxHistorySize
  <2> DEFINE h == SubSeq(a, 2, Len(a))
  <2>1. Trim(a) = h
    BY <1>1, <1>2, <1>4 DEF Trim
  <2>2. \A i \in 2..Len(a) : a[i] \in 1..MaxEvents
    <3>1. \A i \in 2..Len(a) : i \in 1..Len(a)
      BY <1>1, <1>2
    <3> QED
      BY <1>2, <3>1, ElementOfSeq
  <2>3. /\ h \in Seq(1..MaxEvents) /\ Len(h) = Len(history)
        /\ \A i \in 1..Len(history) : h[i] = a[i + 1]
    BY <1>1, <1>2, <1>4, <2>2, SubSeqProperties
  <2> HIDE DEF h
  <2>4. \A i \in 1..Len(h) - 1 : i + 1 \in 1..Len(history) /\ h[i] = history[i + 1]
    BY <1>1, <1>2, <2>3
  <2>5. h[Len(h)] = clock + 1
    BY <1>1, <1>2, <1>4, <2>3
  <2>6. Trimmed(h, clock + 1, 1)
    BY <1>1, <1>4, <2>3, <2>4, <2>5 DEF Trimmed
  <2> QED
    BY <2>1, <2>6 DEF a
<1> QED
  BY <1>1, <1>3, <1>4

\* the history as facts about indices
LEMMA HistoryIs ==
    ASSUME TypeOK, HistoryInv
    PROVE  /\ clock \in Nat /\ cleared \in Nat /\ cleared <= clock
           /\ history \in Seq(1..MaxEvents) /\ DOMAIN history = 1..Len(history) /\ Len(history) \in Nat
           /\ \A i \in 1..Len(history) : /\ history[i] \in 1..MaxEvents
                                         /\ history[i] <= clock /\ history[i] > cleared
           /\ \A i, j \in 1..Len(history) : history[i] = history[j] => i = j
<1>1. /\ history \in Seq(1..MaxEvents) /\ DOMAIN history = 1..Len(history) /\ Len(history) \in Nat
      /\ \A i \in 1..Len(history) : history[i] \in 1..MaxEvents
  <2>1. history \in Seq(1..MaxEvents)
    BY DEF TypeOK
  <2> QED
    BY <2>1, SeqIndex
<1>2. \A i \in 1..Len(history) : history[i] \in ToSet(history)
  BY <1>1 DEF ToSet
<1>3. \A i \in 1..Len(history) : history[i] <= clock /\ history[i] > cleared
  BY <1>2 DEF HistoryInv, HistorySound
<1>4. \A i, j \in 1..Len(history) : history[i] = history[j] => i = j
  BY <1>1 DEF HistoryInv, HistorySound, IsInjective
<1>5. clock \in Nat /\ cleared \in Nat /\ cleared <= clock
  BY DEF TypeOK, HistoryInv
<1> QED
  BY <1>1, <1>3, <1>4, <1>5

\* and back: a sequence, its length and its bounds
LEMMA HistoryFrom ==
    ASSUME NEW h \in Seq(1..MaxEvents), Len(h) <= MaxHistorySize, NEW c \in Nat, NEW t \in Nat, c <= t,
           \A i \in 1..Len(h) : h[i] <= t /\ h[i] > c,
           \A i, j \in 1..Len(h) : h[i] = h[j] => i = j,
           t > c => t \in ToSet(h),
           history' = h, clock' = t, cleared' = c
    PROVE  HistoryInv'
<1>1. DOMAIN h = 1..Len(h)
  OBVIOUS
<1>2. \A e \in ToSet(h) : e > c
  BY <1>1 DEF ToSet
<1>3. IsInjective(h)
  BY <1>1 DEF IsInjective
<1> QED
  BY <1>2, <1>3 DEF HistoryInv, HistorySound

LEMMA PublishKeepsHistory ==
    ASSUME TypeOK, HistoryInv, clock < MaxEvents, clock' = clock + 1, cleared' = cleared,
           history' = Trim(Append(history, clock + 1))
    PROVE  HistoryInv' /\ history' \in Seq(1..MaxEvents)
<1> DEFINE h == Trim(Append(history, clock + 1))
           n == Len(h)
<1>1. PICK by \in {0, 1} : Trimmed(h, clock + 1, by)
  BY TrimIs
<1> HIDE DEF h
<1>2. /\ h \in Seq(1..MaxEvents) /\ n \in Nat /\ n >= 1 /\ n <= MaxHistorySize
      /\ h[n] = clock + 1
      /\ \A i \in 1..n - 1 : i + by \in 1..Len(history) /\ h[i] = history[i + by]
  BY <1>1, EventConstants DEF Trimmed
<1> HIDE DEF n
<1>3. \A i \in 1..n : i = n \/ i \in 1..n - 1
  BY <1>2
<1>4. \A i \in 1..n - 1 : h[i] <= clock /\ h[i] > cleared /\ h[i] \in Nat
  BY <1>2, HistoryIs
<1>5. \A i \in 1..n : h[i] <= clock + 1 /\ h[i] > cleared
  <2>1. clock \in Nat /\ cleared \in Nat /\ cleared <= clock
    BY HistoryIs
  <2> QED
    BY <1>2, <1>3, <1>4, <2>1
<1>6. \A i, j \in 1..n : h[i] = h[j] => i = j
  <2>1. ASSUME NEW i \in 1..n - 1, NEW j \in 1..n - 1, h[i] = h[j] PROVE i = j
    <3>1. i + by = j + by
      BY <1>2, <2>1, HistoryIs
    <3> QED
      BY <1>2, <3>1
  <2>2. ASSUME NEW i \in 1..n - 1 PROVE h[i] # h[n]
    <3>1. clock \in Nat
      BY HistoryIs
    <3> QED
      BY <1>2, <1>4, <3>1
  <2> QED
    BY <1>3, <2>1, <2>2
<1>7. clock + 1 \in ToSet(h)
  <2>1. n \in DOMAIN h
    BY <1>2 DEF n
  <2> QED
    BY <1>2, <2>1 DEF ToSet
<1>8. /\ clock + 1 \in Nat /\ cleared \in Nat /\ cleared <= clock + 1
  BY HistoryIs
<1>9. history' = h
  BY DEF h
<1> QED
  BY <1>2, <1>5, <1>6, <1>7, <1>8, <1>9, HistoryFrom DEF n

LEMMA QueryKeepsHistory ==
    ASSUME TypeOK, HistoryInv, clock' = clock, cleared' = cleared, history' \in NewestFirst(history)
    PROVE  HistoryInv' /\ history' \in Seq(1..MaxEvents)
<1> DEFINE n == Len(history)
<1>1. /\ n \in Nat /\ DOMAIN history = 1..n
      /\ \A e \in ToSet(history) : e \in 1..MaxEvents /\ e <= clock /\ e > cleared
  BY HistoryIs DEF ToSet
<1> HIDE DEF n
<1>2. PICK h \in [1..n -> ToSet(history)] :
        /\ history' = h /\ ToSet(h) = ToSet(history)
        /\ \A i, j \in 1..n : i < j => h[i] > h[j]
  BY <1>1 DEF NewestFirst
<1>3. h \in [1..n -> 1..MaxEvents]
  BY <1>1, <1>2
<1>4. h \in Seq(1..MaxEvents) /\ Len(h) = n
  <2>1. n \in Nat /\ DOMAIN h = 1..n
    BY <1>1, <1>3
  <2>2. h \in Seq(1..MaxEvents)
    BY <1>3, <2>1, SeqDef
  <2> QED
    BY <2>1, <2>2
<1>5. \A i \in 1..n : h[i] \in Nat /\ h[i] <= clock /\ h[i] > cleared
  BY <1>1, <1>2
<1>6. \A i, j \in 1..n : h[i] = h[j] => i = j
  BY <1>1, <1>2, <1>5
<1>7. n <= MaxHistorySize /\ (clock > cleared => clock \in ToSet(h))
  BY <1>2 DEF HistoryInv, HistorySound, n
<1>8. clock \in Nat /\ cleared \in Nat /\ cleared <= clock
  BY HistoryIs
<1> QED
  BY <1>2, <1>4, <1>5, <1>6, <1>7, <1>8, HistoryFrom

-----------------------------------------------------------------------------
(* Types *)

LEMMA TypeInit == Init => TypeOK
BY EventConstants DEF Init, TypeOK, NoCalls, Kinds, Idle

LEMMA DeliveryTypes ==
    ASSUME TypeOK, NEW p \in Publishers, PublishEvent(p) \/ HandlerReturns(p)
    PROVE  /\ running' \in [Publishers -> Spots]
           /\ detached' \in [Publishers -> Seq(Seq(Handlers))]
           /\ calls' \in [Publishers -> [Kinds -> Counts]]
           /\ \A q \in Publishers : detached'[q] # <<>> => running'[q][1] = "typed"
           /\ \A q \in Publishers : q # p => /\ running'[q] = running[q] /\ detached'[q] = detached[q]
                                             /\ calls'[q] = calls[q]
<1>1. CASE PublishEvent(p)
  <2>1. NoCalls \in [Kinds -> Counts] /\ "typed" \in Kinds /\ 0 \in Nat
    BY DEF NoCalls, Counts, Kinds
  <2> QED
    BY <1>1, <2>1, AdvanceTypes DEF PublishEvent
<1>2. CASE HandlerReturns(p)
  <2>1. running[p] \in Spots /\ running[p] # Idle /\ calls[p] \in [Kinds -> Counts]
    BY <1>2 DEF HandlerReturns, TypeOK, Spots, Counts
  <2>2. running[p][1] \in Kinds /\ running[p][2] \in Nat
    BY <2>1, SpotFacts
  <2>3. detached[p] # <<>> => running[p][1] = "typed"
    BY DEF TypeOK
  <2> QED
    BY <1>2, <2>1, <2>2, <2>3, AdvanceTypes DEF HandlerReturns
<1> QED
  BY <1>1, <1>2

LEMMA ListedTypes == ASSUME TypeOK, NEW k \in Kinds PROVE Listed(k) \subseteq Handlers
<1>1. lists[k] \in Seq(Handlers)
  BY DEF TypeOK
<1> QED
  BY <1>1 DEF Listed, ToSet

LEMMA TypeStep == TypeOK /\ HistoryInv /\ [Next]_vars => TypeOK' /\ HistoryInv'
<1> SUFFICES ASSUME TypeOK, HistoryInv, [Next]_vars PROVE TypeOK' /\ HistoryInv'
  OBVIOUS
<1>1. ASSUME NEW p \in Publishers, PublishEvent(p) PROVE TypeOK' /\ HistoryInv'
  <2>1. clock < MaxEvents /\ clock' = clock + 1 /\ cleared' = cleared /\ lists' = lists
        /\ history' = Trim(Append(history, clock + 1)) /\ disturbed' = disturbed
    BY <1>1 DEF PublishEvent
  <2>2. history' \in Seq(1..MaxEvents) /\ HistoryInv'
    BY <2>1, PublishKeepsHistory
  <2>3. watching' \in [Publishers -> [Kinds -> SUBSET Handlers]]
    BY <1>1, ListedTypes DEF PublishEvent, TypeOK
  <2>4. clock' \in 0..MaxEvents /\ cleared' \in 0..MaxEvents
    BY <2>1, EventConstants DEF TypeOK
  <2> QED
    BY <1>1, <2>1, <2>2, <2>3, <2>4, DeliveryTypes DEF TypeOK, Spots, Counts
<1>2. ASSUME NEW p \in Publishers, HandlerReturns(p) PROVE TypeOK' /\ HistoryInv'
  <2>1. UNCHANGED <<lists, history, clock, cleared>>
    BY <1>2 DEF HandlerReturns
  <2>2. watching' \in [Publishers -> [Kinds -> SUBSET Handlers]]
    BY <1>2 DEF HandlerReturns, TypeOK
  <2>3. disturbed' \in [Publishers -> BOOLEAN]
    BY <1>2 DEF HandlerReturns, TypeOK
  <2>4. HistoryInv'
    BY <2>1 DEF HistoryInv, HistorySound
  <2> QED
    BY <1>2, <2>1, <2>2, <2>3, <2>4, DeliveryTypes DEF TypeOK, Spots, Counts
<1>3. ASSUME NEW k \in Kinds, NEW h \in Handlers, Register(k, h) PROVE TypeOK' /\ HistoryInv'
  <2>1. lists' \in [Kinds -> Seq(Handlers)]
    BY <1>3 DEF Register, TypeOK
  <2> QED
    BY <1>3, <2>1 DEF Register, TypeOK, HistoryInv, HistorySound, delivery
<1>4. ASSUME NEW k \in Kinds, NEW h \in Handlers, Unregister(k, h) PROVE TypeOK' /\ HistoryInv'
  <2>1. PICK i \in DOMAIN lists[k] : lists' = [lists EXCEPT ![k] = RemoveAt(@, i)]
    BY <1>4 DEF Unregister
  <2>2. lists[k] \in Seq(Handlers)
    BY DEF TypeOK
  <2>3. RemoveAt(lists[k], i) \in Seq(Handlers)
    BY <2>2, Removed
  <2>4. lists' \in [Kinds -> Seq(Handlers)]
    BY <2>1, <2>3 DEF TypeOK
  <2>5. /\ watching' \in [Publishers -> [Kinds -> SUBSET Handlers]]
        /\ disturbed' \in [Publishers -> BOOLEAN]
        /\ UNCHANGED <<history, clock, cleared, running, detached, calls>>
    BY <1>4 DEF Unregister, TakenOff, TypeOK
  <2> QED
    BY <2>4, <2>5 DEF TypeOK, HistoryInv, HistorySound
<1>5. ASSUME NEW kinds \in {{"typed"}, Kinds}, ClearHandlers(kinds) PROVE TypeOK' /\ HistoryInv'
  <2>1. lists' \in [Kinds -> Seq(Handlers)]
    BY <1>5 DEF ClearHandlers, TypeOK
  <2>2. detached' \in [Publishers -> Seq(Seq(Handlers))]
        /\ \A p \in Publishers : detached'[p] # <<>> => running'[p][1] = "typed"
    <3>1. \A p \in Publishers : <<Walked(p)>> \in Seq(Seq(Handlers)) /\ <<>> \in Seq(Seq(Handlers))
      BY ListTypes
    <3> QED
      BY <1>5, <3>1 DEF ClearHandlers
  <2>3. /\ watching' \in [Publishers -> [Kinds -> SUBSET Handlers]]
        /\ disturbed' \in [Publishers -> BOOLEAN]
        /\ UNCHANGED <<history, clock, cleared, running, calls>>
    BY <1>5 DEF ClearHandlers, TakenOff, TypeOK
  <2> QED
    BY <2>1, <2>2, <2>3 DEF TypeOK, HistoryInv, HistorySound
<1>6. CASE QueryHistory
  BY <1>6, QueryKeepsHistory DEF QueryHistory, TypeOK, delivery
<1>7. CASE ClearHistory
  <2>1. history' = <<>> /\ cleared' = clock /\ UNCHANGED <<lists, clock, delivery>>
    BY <1>7 DEF ClearHistory
  <2>2. HistoryInv'
    BY <2>1, EventConstants DEF HistoryInv, HistorySound, IsInjective, ToSet, TypeOK
  <2> QED
    BY <2>1, <2>2 DEF TypeOK, delivery
<1>8. CASE UNCHANGED vars
  BY <1>8 DEF vars, delivery, TypeOK, HistoryInv, HistorySound
<1> QED
  BY <1>1, <1>2, <1>3, <1>4, <1>5, <1>6, <1>7, <1>8 DEF Next

LEMMA HistoryInit == Init => HistoryInv
BY EventConstants DEF Init, HistoryInv, HistorySound, IsInjective, ToSet

-----------------------------------------------------------------------------
(* A delivery while the lists change *)

\* the walk goes on, over list M for L and H for G
LEMMA WalkGrows ==
    ASSUME NEW L, NEW G, NEW W, NEW C, NEW d, NEW k, NEW i, Walk(L, G, W, C, d, k, i), NEW M, NEW H,
           Served(L, W["typed"], C["typed"], d, i) => Served(M, W["typed"], C["typed"], d, i),
           Served(G, W["global"], C["global"], d, i) => Served(H, W["global"], C["global"], d, i),
           Served(G, W["global"], C["global"], d, 0) => Served(H, W["global"], C["global"], d, 0)
    PROVE  Walk(M, H, W, C, d, k, i)
BY DEF Walk

\* or for the handlers V of W, when somebody was taken off
ServedOff(L, W, C, i) == Served(L, W, C, TRUE, i)
WalkOff(L, G, W, C, k, i) == Walk(L, G, W, C, TRUE, k, i)

LEMMA WalkShrinks ==
    ASSUME NEW L, NEW G, NEW W, NEW C, NEW d, NEW k, NEW i, Walk(L, G, W, C, d, k, i), NEW M, NEW H,
           NEW V, V["typed"] \subseteq W["typed"],
           Served(L, W["typed"], C["typed"], d, i) => ServedOff(M, V["typed"], C["typed"], i),
           Served(G, W["global"], C["global"], d, i) => ServedOff(H, V["global"], C["global"], i),
           Served(G, W["global"], C["global"], d, 0) => ServedOff(H, V["global"], C["global"], 0)
    PROVE  WalkOff(M, H, V, C, k, i)
<1>1. AllServed(W["typed"], C["typed"], d) => AllServed(V["typed"], C["typed"], TRUE)
  BY DEF AllServed
<1> QED
  BY <1>1 DEF Walk, WalkOff, ServedOff

LEMMA ServedShrinks ==
    ASSUME NEW L \in Seq(Handlers), NEW W, NEW C, NEW d, NEW i \in Nat, Served(L, W, C, d, i),
           NEW M, M = L \/ (\E r \in 1..Len(L) : M = RemoveAt(L, r)), NEW V \in SUBSET W
    PROVE  ServedOff(M, V, C, i)
<1>1. CASE M = L
  BY <1>1, ServedFewer DEF ServedOff
<1>2. ASSUME NEW r \in 1..Len(L), M = RemoveAt(L, r) PROVE ServedOff(M, V, C, i)
  BY <1>2, ServedRemove DEF ServedOff
<1> QED
  BY <1>1, <1>2

LEMMA AppendDiffers ==
    ASSUME NEW s \in Seq(Handlers), IsInjective(s), NEW h \in Handlers, h \notin ToSet(s)
    PROVE  IsInjective(Append(s, h)) /\ ToSet(s) \subseteq ToSet(Append(s, h))
<1> DEFINE t == Append(s, h)
<1>1. /\ t \in Seq(Handlers) /\ Len(t) = Len(s) + 1 /\ Len(s) \in Nat
      /\ \A i \in 1..Len(s) : t[i] = s[i]
      /\ t[Len(s) + 1] = h
  BY Appended
<1>2. DOMAIN t = 1..Len(s) + 1 /\ DOMAIN s = 1..Len(s)
  BY <1>1
<1> HIDE DEF t
<1>3. \A i \in 1..Len(s) + 1 : i \in 1..Len(s) \/ i = Len(s) + 1
  BY <1>1
<1>4. \A i, j \in 1..Len(s) : s[i] = s[j] => i = j
  BY <1>2 DEF IsInjective
<1>5. \A i \in 1..Len(s) : s[i] # h
  BY <1>2 DEF ToSet
<1>6. IsInjective(t)
  BY <1>1, <1>2, <1>3, <1>4, <1>5 DEF IsInjective
<1>7. ToSet(s) \subseteq ToSet(t)
  BY <1>1, <1>2 DEF ToSet
<1> QED
  BY <1>6, <1>7 DEF t

LEMMA RemoveDiffers ==
    ASSUME NEW s \in Seq(Handlers), IsInjective(s), NEW r \in 1..Len(s)
    PROVE  IsInjective(RemoveAt(s, r)) /\ ToSet(s) \ {s[r]} \subseteq ToSet(RemoveAt(s, r))
<1> DEFINE t == RemoveAt(s, r)
<1>1. /\ t \in Seq(Handlers) /\ Len(t) = Len(s) - 1 /\ Len(s) \in Nat /\ r \in Nat
      /\ \A i \in 1..Len(s) - 1 : t[i] = IF i < r THEN s[i] ELSE s[i + 1]
  BY Removed
<1>2. DOMAIN t = 1..Len(s) - 1 /\ DOMAIN s = 1..Len(s)
  BY <1>1
<1> HIDE DEF t
<1>3. \A i, j \in 1..Len(s) : s[i] = s[j] => i = j
  BY <1>2 DEF IsInjective
<1>4. \A i, j \in 1..Len(s) - 1 : t[i] = t[j] => i = j
  <2>1. SUFFICES ASSUME NEW i \in 1..Len(s) - 1, NEW j \in 1..Len(s) - 1, t[i] = t[j] PROVE i = j
    OBVIOUS
  <2>2. i \in 1..Len(s) /\ j \in 1..Len(s) /\ i + 1 \in 1..Len(s) /\ j + 1 \in 1..Len(s)
    BY <1>1
  <2> QED
    BY <1>1, <1>3, <2>1, <2>2
<1>5. ASSUME NEW i \in 1..Len(s), s[i] # s[r] PROVE \E j \in 1..Len(s) - 1 : t[j] = s[i]
  <2>1. CASE i < r
    <3>1. i \in 1..Len(s) - 1 /\ t[i] = s[i]
      BY <1>1, <2>1
    <3> QED
      BY <3>1
  <2>2. CASE i > r
    <3>1. i - 1 \in 1..Len(s) - 1 /\ ~(i - 1 < r) /\ i - 1 + 1 = i
      BY <1>1, <2>2
    <3>2. t[i - 1] = s[i]
      BY <1>1, <3>1
    <3> QED
      BY <3>1, <3>2
  <2> QED
    BY <1>1, <1>5, <2>1, <2>2
<1>6. ToSet(s) \ {s[r]} \subseteq ToSet(t)
  BY <1>2, <1>5 DEF ToSet
<1> QED
  BY <1>2, <1>4, <1>6 DEF IsInjective, t

-----------------------------------------------------------------------------
(* The inductive invariant *)

\* a delivery owes calls only to handlers that are registered
WatchingListed == \A p \in Publishers, k \in Kinds : watching[p][k] \subseteq Listed(k)

\* every delivery has done for them what its place in the lists says
Delivering ==
    \A p \in Publishers : running[p] # Idle =>
        Walk(Walked(p), lists["global"], watching[p], calls[p], disturbed[p],
             running[p][1], running[p][2])

DeliveryInv == ListsDiffer /\ WatchingListed /\ Delivering

LEMMA DeliveryInit == Init => DeliveryInv
<1> SUFFICES ASSUME Init PROVE DeliveryInv
  OBVIOUS
<1>1. /\ \A k \in Kinds : lists[k] = <<>>
      /\ \A p \in Publishers : detached[p] = <<>> /\ running[p] = Idle
      /\ \A p \in Publishers, k \in Kinds : watching[p][k] = {}
  BY DEF Init
<1>2. \A p \in Publishers : Walked(p) = <<>>
  BY <1>1 DEF Walked, Kinds
<1>3. IsInjective(<<>>)
  BY DEF IsInjective
<1> QED
  BY <1>1, <1>2, <1>3 DEF DeliveryInv, ListsDiffer, WatchingListed, Delivering

\* the lists stay as they are: a walk ends or goes on over the same list
LEMMA WalkedSame ==
    ASSUME TypeOK, ListsDiffer, lists' = lists,
           \A q \in Publishers : detached'[q] = detached[q] \/ detached'[q] = <<>>
    PROVE  ListsDiffer' /\ \A q \in Publishers : detached'[q] = detached[q] => Walked(q)' = Walked(q)
<1>1. \A q \in Publishers : detached'[q] = detached[q] => Walked(q)' = Walked(q)
  BY DEF Walked
<1>2. \A q \in Publishers : detached'[q] = <<>> => Walked(q)' = lists["typed"]
  BY DEF Walked
<1>3. \A q \in Publishers : IsInjective(Walked(q)')
  BY <1>1, <1>2 DEF ListsDiffer, Kinds
<1> QED
  BY <1>1, <1>3 DEF ListsDiffer

LEMMA IdleWalks ==
    ASSUME TypeOK, NEW p \in Publishers, running[p] = Idle
    PROVE  detached[p] = <<>> /\ Walked(p) = lists["typed"]
<1>1. running[p][1] # "typed"
  BY DEF Idle
<1> QED
  BY <1>1 DEF TypeOK, Walked

LEMMA DetachedStep ==
    ASSUME TypeOK, NEW p \in Publishers, NEW at, NEW C, Advance(p, at, C)
    PROVE  \A q \in Publishers : detached'[q] = detached[q] \/ detached'[q] = <<>>
BY DEF Advance, TypeOK

LEMMA PublishWalks ==
    ASSUME TypeOK, DeliveryInv, NEW p \in Publishers, PublishEvent(p)
    PROVE  DeliveryInv'
<1> DEFINE W == [k \in Kinds |-> Listed(k)]
<1>1. /\ running[p] = Idle /\ lists' = lists /\ disturbed' = disturbed
      /\ Advance(p, Following(p, "typed", 0), NoCalls)
      /\ watching' = [watching EXCEPT ![p] = [k \in Kinds |-> IF running'[p] = Idle THEN {} ELSE Listed(k)]]
  BY DEF PublishEvent
<1>2. ListsDiffer /\ ListsDiffer' /\ \A q \in Publishers : detached'[q] = detached[q] => Walked(q)' = Walked(q)
  BY <1>1, DetachedStep, WalkedSame DEF DeliveryInv
<1>3. \A k \in Kinds : Listed(k)' = Listed(k)
  BY <1>1 DEF Listed
<1>4. /\ \A q \in Publishers : q # p => watching'[q] = watching[q]
      /\ running'[p] # Idle => watching'[p] = W
      /\ \A k \in Kinds : watching'[p][k] \subseteq Listed(k)
  BY <1>1 DEF TypeOK
<1>5. WatchingListed'
  BY <1>3, <1>4 DEF DeliveryInv, WatchingListed
<1>6. Walk(Walked(p), lists["global"], W, NoCalls, disturbed[p], "typed", 0)
  <2>1. /\ NoCalls["typed"] \in Counts /\ NoCalls["global"] \in Counts
        /\ \A h \in Handlers : NoCalls["typed"][h] = 0 /\ NoCalls["global"][h] = 0
    BY DEF NoCalls, Counts, Kinds
  <2>2. lists["typed"] \in Seq(Handlers) /\ lists["global"] \in Seq(Handlers)
    BY ListTypes
  <2>3. W["typed"] = ToSet(lists["typed"]) /\ W["global"] = ToSet(lists["global"])
    BY DEF Listed, Kinds
  <2>4. Walked(p) = lists["typed"]
    BY <1>1, IdleWalks
  <2> HIDE DEF W
  <2>5. Served(lists["typed"], W["typed"], NoCalls["typed"], disturbed[p], 0)
    BY <2>1, <2>2, <2>3, ServedStart
  <2>6. Served(lists["global"], W["global"], NoCalls["global"], disturbed[p], 0)
    BY <2>1, <2>2, <2>3, ServedStart
  <2> QED
    BY <2>4, <2>5, <2>6 DEF Walk
<1>7. W \in [Kinds -> SUBSET Handlers] /\ NoCalls \in [Kinds -> Counts] /\ "typed" \in Kinds /\ 0 \in Nat
  BY ListedTypes DEF NoCalls, Counts, Kinds
<1> HIDE DEF W
<1>8. running'[p] # Idle =>
        Walk(Walked(p)', lists["global"], W, calls'[p], disturbed[p], running'[p][1], running'[p][2])
  BY <1>1, <1>2, <1>6, <1>7, AdvanceWalks
<1>9. \A q \in Publishers : q # p => /\ running'[q] = running[q] /\ detached'[q] = detached[q]
                                     /\ calls'[q] = calls[q]
  BY DeliveryTypes
<1>10. Delivering'
  <2>1. SUFFICES ASSUME NEW q \in Publishers, running'[q] # Idle
                 PROVE  Walk(Walked(q)', lists'["global"], watching'[q], calls'[q], disturbed'[q],
                             running'[q][1], running'[q][2])
    BY DEF Delivering
  <2>2. CASE q = p
    BY <1>1, <1>4, <1>8, <2>1, <2>2
  <2>3. CASE q # p
    BY <1>1, <1>2, <1>4, <1>9, <2>1, <2>3 DEF DeliveryInv, Delivering
  <2> QED
    BY <2>2, <2>3
<1> QED
  BY <1>2, <1>5, <1>10 DEF DeliveryInv

\* what p does next: its account, and that of a delivery that is through
LEMMA ReturnAdvances ==
    ASSUME TypeOK, DeliveryInv, NEW p \in Publishers, HandlerReturns(p)
    PROVE  /\ running'[p] # Idle =>
                Walk(Walked(p)', lists["global"], watching[p], calls'[p], disturbed[p],
                     running'[p][1], running'[p][2])
           /\ running'[p] = Idle => \A k \in Kinds : AllServed(watching[p][k], calls[p][k], disturbed[p])
<1>1. running[p] \in Spots /\ running[p] # Idle /\ calls[p] \in [Kinds -> Counts]
      /\ watching[p] \in [Kinds -> SUBSET Handlers]
  BY DEF HandlerReturns, TypeOK, Spots, Counts
<1>2. running[p][1] \in Kinds /\ running[p][2] \in Nat
  BY <1>1, SpotFacts
<1>3. /\ lists' = lists
      /\ Advance(p, Following(p, running[p][1], running[p][2]), calls[p])
  BY DEF HandlerReturns
<1>4. Walk(Walked(p), lists["global"], watching[p], calls[p], disturbed[p], running[p][1], running[p][2])
  BY <1>1 DEF DeliveryInv, Delivering
<1>5. ListsDiffer
  BY DEF DeliveryInv
<1> QED
  BY <1>1, <1>2, <1>3, <1>4, <1>5, AdvanceWalks

LEMMA ReturnWalks ==
    ASSUME TypeOK, DeliveryInv, NEW p \in Publishers, HandlerReturns(p)
    PROVE  DeliveryInv'
<1>1. /\ lists' = lists
      /\ Advance(p, Following(p, running[p][1], running[p][2]), calls[p])
  BY DEF HandlerReturns
<1>2. ListsDiffer' /\ \A q \in Publishers : detached'[q] = detached[q] => Walked(q)' = Walked(q)
  BY <1>1, DetachedStep, WalkedSame DEF DeliveryInv
<1>3. \A k \in Kinds : Listed(k)' = Listed(k)
  BY <1>1 DEF Listed
<1>4. /\ \A q \in Publishers : q # p => watching'[q] = watching[q] /\ disturbed'[q] = disturbed[q]
      /\ running'[p] # Idle => watching'[p] = watching[p] /\ disturbed'[p] = disturbed[p]
      /\ running'[p] = Idle => \A k \in Kinds : watching'[p][k] = {}
  <2>1. disturbed[p] \in BOOLEAN
    BY DEF TypeOK
  <2> QED
    BY <2>1 DEF HandlerReturns, TypeOK
<1>5. WatchingListed'
  <2>1. SUFFICES ASSUME NEW q \in Publishers, NEW k \in Kinds PROVE watching'[q][k] \subseteq Listed(k)
    BY <1>3 DEF WatchingListed
  <2>2. watching[q][k] \subseteq Listed(k)
    BY DEF DeliveryInv, WatchingListed
  <2>3. watching'[q] = watching[q] \/ watching'[q][k] = {}
    BY <1>4
  <2> QED
    BY <2>2, <2>3
<1>6. \A q \in Publishers : q # p => /\ running'[q] = running[q] /\ detached'[q] = detached[q]
                                     /\ calls'[q] = calls[q]
  BY DeliveryTypes
<1>7. Delivering'
  <2>1. SUFFICES ASSUME NEW q \in Publishers, running'[q] # Idle
                 PROVE  Walk(Walked(q)', lists'["global"], watching'[q], calls'[q], disturbed'[q],
                             running'[q][1], running'[q][2])
    BY DEF Delivering
  <2>2. CASE q = p
    BY <1>1, <1>4, <2>1, <2>2, ReturnAdvances
  <2>3. CASE q # p
    BY <1>1, <1>2, <1>4, <1>6, <2>1, <2>3 DEF DeliveryInv, Delivering
  <2> QED
    BY <2>2, <2>3
<1> QED
  BY <1>2, <1>5, <1>7 DEF DeliveryInv

LEMMA RegisterWalks ==
    ASSUME TypeOK, DeliveryInv, NEW kind \in Kinds, NEW h \in Handlers, Register(kind, h)
    PROVE  DeliveryInv'
<1>1. /\ h \notin ToSet(lists[kind])
      /\ \A k \in Kinds : lists'[k] = IF k = kind THEN Append(lists[k], h) ELSE lists[k]
      /\ running' = running /\ detached' = detached /\ calls' = calls
      /\ watching' = watching /\ disturbed' = disturbed
  BY DEF Register, delivery, Listed, TypeOK
<1>2. \A k \in Kinds : lists[k] \in Seq(Handlers) /\ IsInjective(lists[k])
  BY ListTypes DEF DeliveryInv, ListsDiffer
<1>3. /\ IsInjective(Append(lists[kind], h))
      /\ ToSet(lists[kind]) \subseteq ToSet(Append(lists[kind], h))
  BY <1>1, <1>2, AppendDiffers
<1>4. \A k \in Kinds : IsInjective(lists'[k]) /\ ToSet(lists[k]) \subseteq ToSet(lists'[k])
  BY <1>1, <1>2, <1>3
<1>5. \A p \in Publishers : IF detached[p] = <<>> THEN Walked(p) = lists["typed"] /\ Walked(p)' = lists'["typed"]
                            ELSE Walked(p)' = Walked(p)
  BY <1>1 DEF Walked
<1>6. ListsDiffer'
  <2>1. \A p \in Publishers : IsInjective(Walked(p)')
    BY <1>4, <1>5 DEF DeliveryInv, ListsDiffer, Kinds
  <2> QED
    BY <1>4, <2>1 DEF ListsDiffer
<1>7. WatchingListed'
  BY <1>1, <1>4 DEF DeliveryInv, WatchingListed, Listed
<1>8. Delivering'
  <2>1. SUFFICES ASSUME NEW p \in Publishers, running[p] # Idle
                 PROVE  Walk(Walked(p)', lists'["global"], watching[p], calls[p], disturbed[p],
                             running[p][1], running[p][2])
    BY <1>1 DEF Delivering
  <2> DEFINE L == Walked(p)
             G == lists["global"]
             W == watching[p]
             C == calls[p]
             d == disturbed[p]
             i == running[p][2]
  <2>2. Walk(L, G, W, C, d, running[p][1], i) /\ i \in Nat
    <3>1. running[p] \in Spots
      BY DEF TypeOK, Spots
    <3> QED
      BY <2>1, <3>1, SpotFacts DEF DeliveryInv, Delivering
  <2>3. h \notin W[kind] /\ d \in BOOLEAN
    BY <1>1 DEF DeliveryInv, WatchingListed, Listed, TypeOK
  <2>4. L \in Seq(Handlers) /\ G \in Seq(Handlers)
    BY ListTypes
  <2>5. L \in Seq(Handlers) /\ kind = "typed" /\ Walked(p)' # L => Walked(p)' = Append(L, h)
    BY <1>1, <1>5, <2>4 DEF Kinds
  <2>6. Walked(p)' # L => kind = "typed"
    BY <1>1, <1>5 DEF Kinds
  <2>7. lists'["global"] = IF kind = "global" THEN Append(G, h) ELSE G
    BY <1>1 DEF Kinds
  <2>8. Served(L, W["typed"], C["typed"], d, i) => Served(Walked(p)', W["typed"], C["typed"], d, i)
    <3> HIDE DEF L, W, C, d, i
    <3> QED
      BY <2>2, <2>3, <2>4, <2>5, <2>6, ServedAppend
  <2>9. \A j \in Nat : Served(G, W["global"], C["global"], d, j)
                       => Served(lists'["global"], W["global"], C["global"], d, j)
    <3> HIDE DEF G, W, C, d
    <3> QED
      BY <2>3, <2>4, <2>7, ServedAppend
  <2> HIDE DEF L, G, W, C, d, i
  <2>10. Walk(Walked(p)', lists'["global"], W, C, d, running[p][1], i)
    <3>1. \A j \in {0, i} : Served(G, W["global"], C["global"], d, j)
                           => Served(lists'["global"], W["global"], C["global"], d, j)
      BY <2>2, <2>9
    <3> QED
      BY <2>2, <2>8, <3>1, WalkGrows
  <2> QED
    BY <2>10 DEF W, C, d, i
<1> QED
  BY <1>6, <1>7, <1>8 DEF DeliveryInv

LEMMA UnregisterWalks ==
    ASSUME TypeOK, DeliveryInv, NEW kind \in Kinds, NEW h \in Handlers, Unregister(kind, h)
    PROVE  DeliveryInv'
<1>1. PICK r \in DOMAIN lists[kind] : lists[kind][r] = h /\ lists' = [lists EXCEPT ![kind] = RemoveAt(@, r)]
  BY DEF Unregister
<1>2. /\ \A k \in Kinds : lists'[k] = IF k = kind THEN RemoveAt(lists[k], r) ELSE lists[k]
      /\ running' = running /\ detached' = detached /\ calls' = calls
      /\ \A p \in Publishers, k \in Kinds :
            watching'[p][k] = watching[p][k] \ (IF k = kind THEN {h} ELSE {})
      /\ \A p \in Publishers : running[p] # Idle => disturbed'[p]
  BY <1>1 DEF Unregister, TakenOff, TypeOK
<1>3. \A k \in Kinds : lists[k] \in Seq(Handlers) /\ IsInjective(lists[k])
  BY ListTypes DEF DeliveryInv, ListsDiffer
<1>4. r \in 1..Len(lists[kind])
  BY <1>1, <1>3
<1>5. /\ IsInjective(RemoveAt(lists[kind], r))
      /\ ToSet(lists[kind]) \ {h} \subseteq ToSet(RemoveAt(lists[kind], r))
  BY <1>1, <1>3, <1>4, RemoveDiffers
<1>6. \A k \in Kinds : IsInjective(lists'[k])
  BY <1>2, <1>3, <1>5
<1>7. \A p \in Publishers : IF detached[p] = <<>> THEN Walked(p) = lists["typed"] /\ Walked(p)' = lists'["typed"]
                            ELSE Walked(p)' = Walked(p)
  BY <1>2 DEF Walked
<1>8. ListsDiffer'
  <2>1. \A p \in Publishers : IsInjective(Walked(p)')
    BY <1>6, <1>7 DEF DeliveryInv, ListsDiffer, Kinds
  <2> QED
    BY <1>6, <2>1 DEF ListsDiffer
<1>9. WatchingListed'
  <2>1. SUFFICES ASSUME NEW p \in Publishers, NEW k \in Kinds PROVE watching'[p][k] \subseteq ToSet(lists'[k])
    BY DEF WatchingListed, Listed
  <2>2. watching[p][k] \subseteq ToSet(lists[k])
    BY DEF DeliveryInv, WatchingListed, Listed
  <2> QED
    BY <1>2, <1>5, <2>2
<1>10. Delivering'
  <2>1. SUFFICES ASSUME NEW p \in Publishers, running[p] # Idle
                 PROVE  Walk(Walked(p)', lists'["global"], watching'[p], calls[p], disturbed'[p],
                             running[p][1], running[p][2])
    BY <1>2 DEF Delivering
  <2> DEFINE L == Walked(p)
             G == lists["global"]
             W == watching[p]
             C == calls[p]
             d == disturbed[p]
             V == watching'[p]
             e == disturbed'[p]
             i == running[p][2]
  <2>2. Walk(L, G, W, C, d, running[p][1], i) /\ i \in Nat
    <3>1. running[p] \in Spots
      BY DEF TypeOK, Spots
    <3> QED
      BY <2>1, <3>1, SpotFacts DEF DeliveryInv, Delivering
  <2>3. V["typed"] \subseteq W["typed"] /\ V["global"] \subseteq W["global"] /\ e
    BY <1>2, <2>1 DEF Kinds
  <2>e. e = TRUE
    BY <1>2, <2>1 DEF Unregister, TakenOff
  <2>4. L \in Seq(Handlers) /\ G \in Seq(Handlers)
    BY ListTypes
  <2>5. \/ Walked(p)' = L
        \/ r \in 1..Len(L) /\ Walked(p)' = RemoveAt(L, r)
    BY <1>2, <1>4, <1>7 DEF Kinds
  <2>6. \/ lists'["global"] = G
        \/ r \in 1..Len(G) /\ lists'["global"] = RemoveAt(G, r)
    BY <1>2, <1>4 DEF Kinds
  <2> HIDE DEF L, G, W, C, d, V, e, i
  <2>7. Served(L, W["typed"], C["typed"], d, i) => ServedOff(Walked(p)', V["typed"], C["typed"], i)
    BY <2>2, <2>3, <2>4, <2>5, ServedShrinks
  <2>8. \A j \in Nat : Served(G, W["global"], C["global"], d, j)
                       => ServedOff(lists'["global"], V["global"], C["global"], j)
    BY <2>3, <2>4, <2>6, ServedShrinks
  <2>9. WalkOff(Walked(p)', lists'["global"], V, C, running[p][1], i)
    <3>1. \A j \in {0, i} : Served(G, W["global"], C["global"], d, j)
                           => ServedOff(lists'["global"], V["global"], C["global"], j)
      BY <2>2, <2>8
    <3> QED
      BY <2>2, <2>3, <2>7, <3>1, WalkShrinks
  <2> QED
    BY <2>9, <2>e DEF V, e, C, i, WalkOff
<1> QED
  BY <1>8, <1>9, <1>10 DEF DeliveryInv

LEMMA ClearWalks ==
    ASSUME TypeOK, DeliveryInv, NEW kinds \in {{"typed"}, Kinds}, ClearHandlers(kinds)
    PROVE  DeliveryInv'
<1>1. /\ \A k \in Kinds : lists'[k] = IF k \in kinds THEN <<>> ELSE lists[k]
      /\ running' = running /\ calls' = calls
      /\ \A p \in Publishers : detached'[p] = IF running[p][1] = "typed" THEN <<Walked(p)>> ELSE <<>>
      /\ \A p \in Publishers, k \in Kinds :
            watching'[p][k] = watching[p][k] \ (IF k \in kinds THEN Listed(k) ELSE {})
      /\ \A p \in Publishers : running[p] # Idle => disturbed'[p] = TRUE
  BY DEF ClearHandlers, TakenOff, TypeOK
<1>2. IsInjective(<<>>) /\ "typed" \in kinds
  BY DEF IsInjective, Kinds
<1>3. \A k \in Kinds : IsInjective(lists'[k])
  BY <1>1, <1>2 DEF DeliveryInv, ListsDiffer
<1>4. \A p \in Publishers : Walked(p)' = Walked(p) \/ Walked(p)' = lists'["typed"]
  <2>1. SUFFICES ASSUME NEW p \in Publishers PROVE Walked(p)' = Walked(p) \/ Walked(p)' = lists'["typed"]
    OBVIOUS
  <2>2. CASE detached'[p] = <<>>
    BY <2>2 DEF Walked
  <2>3. CASE detached'[p] = <<Walked(p)>>
    <3>1. detached'[p] # <<>> /\ detached'[p][1] = Walked(p)
      BY <2>3
    <3> QED
      BY <3>1 DEF Walked
  <2> QED
    BY <1>1, <2>2, <2>3
<1>5. ListsDiffer'
  <2>1. \A p \in Publishers : IsInjective(Walked(p)')
    BY <1>3, <1>4 DEF DeliveryInv, ListsDiffer, Kinds
  <2> QED
    BY <1>3, <2>1 DEF ListsDiffer
<1>6. \A p \in Publishers, k \in Kinds : /\ watching[p][k] \subseteq ToSet(lists[k])
                                         /\ k \in kinds => watching'[p][k] = {}
                                         /\ k \notin kinds => watching'[p][k] = watching[p][k]
  <2>1. SUFFICES ASSUME NEW p \in Publishers, NEW k \in Kinds
                 PROVE  /\ watching[p][k] \subseteq ToSet(lists[k])
                        /\ k \in kinds => watching'[p][k] = {}
                        /\ k \notin kinds => watching'[p][k] = watching[p][k]
    OBVIOUS
  <2>2. watching[p][k] \subseteq Listed(k)
    BY DEF DeliveryInv, WatchingListed
  <2>3. watching'[p][k] = watching[p][k] \ (IF k \in kinds THEN Listed(k) ELSE {})
    BY <1>1
  <2>4. k \in kinds => watching'[p][k] = {}
    BY <2>2, <2>3
  <2>5. k \notin kinds => watching'[p][k] = watching[p][k]
    BY <2>3
  <2> QED
    BY <2>2, <2>4, <2>5 DEF Listed
<1>7. WatchingListed'
  BY <1>1, <1>6 DEF WatchingListed, Listed
<1>8. Delivering'
  <2>1. SUFFICES ASSUME NEW p \in Publishers, running[p] # Idle
                 PROVE  WalkOff(Walked(p)', lists'["global"], watching'[p], calls[p],
                                running[p][1], running[p][2])
    BY <1>1 DEF Delivering, WalkOff
  <2>2. Walk(Walked(p), lists["global"], watching[p], calls[p], disturbed[p], running[p][1], running[p][2])
    BY <2>1 DEF DeliveryInv, Delivering
  <2>3. watching'[p]["typed"] = {} /\ watching'[p]["typed"] \subseteq watching[p]["typed"]
    BY <1>2, <1>6 DEF Kinds
  <2>4. \/ watching'[p]["global"] = {}
        \/ watching'[p]["global"] \subseteq watching[p]["global"] /\ lists'["global"] = lists["global"]
    BY <1>1, <1>6 DEF Kinds
  <2>5. ASSUME NEW j, Served(lists["global"], watching[p]["global"], calls[p]["global"], disturbed[p], j)
        PROVE  ServedOff(lists'["global"], watching'[p]["global"], calls[p]["global"], j)
    BY <2>4, <2>5, ServedFewer, ServedNobody DEF ServedOff
  <2>6. ServedOff(Walked(p)', watching'[p]["typed"], calls[p]["typed"], running[p][2])
    BY <2>3, ServedNobody DEF ServedOff
  <2> QED
    BY <2>2, <2>3, <2>5, <2>6, WalkShrinks
<1> QED
  BY <1>5, <1>7, <1>8 DEF DeliveryInv

LEMMA DeliverySame ==
    ASSUME DeliveryInv, lists' = lists, UNCHANGED delivery
    PROVE  DeliveryInv'
<1>1. /\ running' = running /\ detached' = detached /\ calls' = calls
      /\ watching' = watching /\ disturbed' = disturbed
  BY DEF delivery
<1>2. \A p \in Publishers : Walked(p)' = Walked(p)
  BY <1>1 DEF Walked
<1>3. ListsDiffer'
  BY <1>2 DEF DeliveryInv, ListsDiffer
<1>4. WatchingListed'
  BY <1>1 DEF DeliveryInv, WatchingListed, Listed
<1>5. Delivering'
  BY <1>1, <1>2 DEF DeliveryInv, Delivering
<1> QED
  BY <1>3, <1>4, <1>5 DEF DeliveryInv

LEMMA DeliveryStep == TypeOK /\ DeliveryInv /\ [Next]_vars => DeliveryInv'
<1> SUFFICES ASSUME TypeOK, DeliveryInv, [Next]_vars PROVE DeliveryInv'
  OBVIOUS
<1>1. CASE QueryHistory
  BY <1>1, DeliverySame DEF QueryHistory
<1>2. CASE ClearHistory
  BY <1>2, DeliverySame DEF ClearHistory
<1>3. CASE UNCHANGED vars
  BY <1>3, DeliverySame DEF vars
<1> QED
  BY <1>1, <1>2, <1>3, PublishWalks, ReturnWalks, RegisterWalks, UnregisterWalks, ClearWalks DEF Next

LEMMA DoneServed ==
    ASSUME TypeOK, DeliveryInv, [Next]_vars, NEW p \in Publishers, Done(p),
           NEW k \in Kinds, NEW h \in Handlers, h \in watching[p][k]
    PROVE  calls[p][k][h] <= 1 /\ (~disturbed[p] => calls[p][k][h] = 1)
<1>1. running'[p] # running[p]
  BY DEF Done
<1>2. ASSUME NEW q \in Publishers, PublishEvent(q) PROVE FALSE
  <2>1. q # p
    BY <1>2 DEF PublishEvent, Done
  <2> QED
    BY <1>1, <1>2, <2>1, DeliveryTypes
<1>3. ASSUME NEW q \in Publishers, HandlerReturns(q) PROVE q = p
  BY <1>1, <1>3, DeliveryTypes
<1>4. HandlerReturns(p)
  <2>1. ASSUME running' = running PROVE FALSE
    BY <1>1, <2>1
  <2> QED
    BY <1>2, <1>3, <2>1
       DEF Next, Register, Unregister, ClearHandlers, QueryHistory, ClearHistory, delivery, vars
<1> QED
  BY <1>4, ReturnAdvances DEF Done, AllServed

\* Every variable keeps its type; a delivery holds on to a list only while it
\* walks it.
THEOREM TypesHold == Spec => []TypeOK
BY TypeInit, HistoryInit, TypeStep, PTL DEF Spec

\* The history is sound, read and cleared whenever.
THEOREM HistoryIsSound == Spec => []HistorySound
<1>1. HistoryInv => HistorySound
  BY DEF HistoryInv
<1> QED
  BY <1>1, TypeInit, HistoryInit, TypeStep, PTL DEF Spec

\* A handler that stays registered during a delivery is called once by it,
\* however the lists change under the loops that walk them.
THEOREM EverybodyCalledOnce == Spec => CalledOnce
<1>1. TypeOK /\ DeliveryInv /\ [Next]_vars =>
        [\A p \in Publishers : Done(p) =>
           \A k \in Kinds, h \in Handlers :
              h \in watching[p][k] => /\ calls[p][k][h] <= 1
                                      /\ ~disturbed[p] => calls[p][k][h] = 1]_vars
  BY DoneServed
<1> QED
  BY <1>1, TypeInit, HistoryInit, TypeStep, DeliveryInit, DeliveryStep, PTL DEF Spec, CalledOnce
=============================================================================
