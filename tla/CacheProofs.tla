----------------------------- MODULE CacheProofs -----------------------------
(***************************************************************************)
(* What overlaps of fetches and writers can do to the cache, for any keys, *)
(* tags, fetchers and writers, and whatever calls are rejected.            *)
(*                                                                         *)
(* A cached key that no tag has lost is in the sets of all its tags, or a  *)
(* fetch that has set it is still adding it (RegisteredOrTagging).  So a   *)
(* write that begins beside no fetch of the key finds it, and from then on *)
(* its invalidation has the key in hand until it deletes it (WriterFinds). *)
(* A fetch that is not overlapped has read nothing outdated (GotFresh), so *)
(* an outdated key is exposed, lost, or about to be deleted                *)
(* (StaleIsDropped).                                                       *)
(***************************************************************************)
EXTENDS Cache, CacheClients, TLAPS

FetchShape(f) ==
    IF at[f] = "idle" THEN key[f] = None /\ got[f] = Nothing /\ tagged[f] = 0
    ELSE /\ key[f] \in CacheKeys
         /\ IF at[f] = "tag" THEN tagged[f] + 1 \in DOMAIN TagsOf[key[f]] ELSE tagged[f] = 0

FetchShapes == \A f \in Fetchers : FetchShape(f)

WriteShapes == \A w \in Writers : writing[w] = None <=> ~write[w] /\ drop[w] = "none"

HistoryOK == overlapped \subseteq Fetchers /\ exposed \subseteq CacheKeys /\ lost \subseteq CacheKeys

Base == TypeOK /\ FetchShapes /\ WriteShapes

(* A fetch before its SET, and a database write to what it reads.          *)
OverlapsSeen ==
    \A f \in Fetchers, w \in Writers :
        write[w] /\ at[f] \in {"resolve", "set"} /\ writing[w] \in Reads[key[f]]
            => f \in overlapped

GotFresh ==
    \A f \in Fetchers : at[f] \in {"resolve", "set"} => \A c \in Reads[key[f]] :
        /\ f \notin overlapped => got[f][c] # "old"
        /\ at[f] = "set" => got[f][c] # "absent"

Registered(k) == \A i \in DOMAIN TagsOf[k] : k \in tagset[TagsOf[k][i]]

Tagging(f, k) ==
    /\ key[f] = k /\ at[f] = "tag"
    /\ \A i \in 1..tagged[f] : k \in tagset[TagsOf[k][i]]

RegisteredOrTagging ==
    \A k \in CacheKeys : cached[k] # None /\ k \notin lost
        => Registered(k) \/ \E f \in Fetchers : Tagging(f, k)

(* The invalidation of w has read k from the tag set, or is about to.      *)
Drops(w, k) ==
    \/ drop[w] = "smembers" /\ k \in tagset[TagOf[writing[w]]]
    \/ drop[w] = "del" /\ k \in members[w]

Unhurt(k) == cached[k] # None /\ k \notin exposed /\ k \notin lost

WriterFinds ==
    \A w \in Writers, k \in CacheKeys :
        write[w] /\ writing[w] \in Reads[k] /\ Unhurt(k) => Drops(w, k)

StaleIsDropped ==
    \A k \in CacheKeys : Unhurt(k) => \A c \in Reads[k] :
        cached[k][c] = "new" \/ \E w \in Writers : writing[w] = c /\ Drops(w, k)

(* What the cached methods and the writers of their documents agree on: a  *)
(* key has the tag that the writers of each collection it reads invalidate. *)
TagsFollowReads == \A k \in CacheKeys : \A c \in Reads[k] : TagOf[c] \in Range(TagsOf[k])

-----------------------------------------------------------------------------
(* Types *)

LEMMA TagTypes ==
  ASSUME NEW k \in CacheKeys
  PROVE  /\ Reads[k] \subseteq Collections
         /\ \A i \in DOMAIN TagsOf[k] : TagsOf[k][i] \in Tags /\ TagsOf[k][i] \in Range(TagsOf[k])
         /\ 1 \in DOMAIN TagsOf[k]
         /\ DOMAIN TagsOf[k] \subseteq Nat
         /\ \A i \in DOMAIN TagsOf[k] : \A j \in 1..i : j \in DOMAIN TagsOf[k]
<1>1. Reads[k] \subseteq Collections /\ Len(TagsOf[k]) \in Nat \ {0}
      /\ DOMAIN TagsOf[k] = 1..Len(TagsOf[k])
  BY TagsAssumption
<1>2. \A i \in DOMAIN TagsOf[k] : TagsOf[k][i] \in Range(TagsOf[k])
  BY DEF Range
<1> QED BY <1>1, <1>2 DEF Tags

LEMMA WriterTagType ==
  ASSUME NEW c \in Collections
  PROVE  TagOf[c] \in Tags
  BY DEF Tags

LEMMA OutdatedType ==
  ASSUME NEW v \in Values, NEW c \in Collections
  PROVE  Outdated(v, c) \in Values
  BY DEF Outdated, Values

LEMMA NothingType == Nothing \in Values
  BY DEF Nothing, Values

LEMMA InitBase == Init => Base
  BY NothingType DEF Init, Base, TypeOK, FetchShapes, FetchShape, WriteShapes

LEMMA Fetching ==
  ASSUME Base, NEW f \in Fetchers, at[f] # "idle"
  PROVE  key[f] \in CacheKeys /\ key[f] # None
  BY NoneAssumption DEF Base, FetchShapes, FetchShape

LEMMA Writing ==
  ASSUME Base, NEW w \in Writers, write[w] \/ drop[w] # "none"
  PROVE  writing[w] \in Collections /\ writing[w] # None /\ TagOf[writing[w]] \in Tags
<1>1. writing[w] # None
  BY DEF Base, WriteShapes
<1> QED BY <1>1, WriterTagType DEF Base, TypeOK

LEMMA HistoryStep ==
  ASSUME Base, [Next]_vars
  PROVE  HistoryOK'
<1> USE DEF HistoryOK
<1>1. HistoryOK
  BY DEF Base, TypeOK
<1>2. CASE UNCHANGED history
  BY <1>1, <1>2 DEF history
<1>3. ASSUME NEW f \in Fetchers, NEW k \in CacheKeys, GetMiss(f, k) PROVE HistoryOK'
  BY <1>1, <1>3 DEF GetMiss
<1>4. ASSUME NEW f \in Fetchers, Set(f) PROVE HistoryOK'
  <2>1. key[f] \in CacheKeys
    BY <1>4, Fetching DEF Set
  <2> QED BY <1>1, <1>4, <2>1 DEF Set, Remember
<1>5. ASSUME NEW f \in Fetchers, AddCkToTag(f) PROVE HistoryOK'
  BY <1>1, <1>5 DEF AddCkToTag, Return
<1>6. ASSUME NEW f \in Fetchers, FetchRejects(f) PROVE HistoryOK'
  <2>1. at[f] \in {"set", "tag"} => key[f] \in CacheKeys
    BY <1>6, Fetching
  <2> QED BY <1>1, <1>6, <2>1 DEF FetchRejects, Remember, Return
<1>7. ASSUME NEW w \in Writers, NEW c \in Collections, StartWrite(w, c) PROVE HistoryOK'
  <2>1. \A f \in Reading(c) : f \in Fetchers /\ key[f] \in CacheKeys
    BY Fetching DEF Reading
  <2> QED BY <1>1, <1>7, <2>1 DEF StartWrite, Remember
<1>8. ASSUME NEW w \in Writers, Del(w) PROVE HistoryOK'
  <2>1. tagset[TagOf[writing[w]]] \subseteq CacheKeys
    BY <1>8, Writing DEF Del, Base, TypeOK
  <2> QED BY <1>1, <1>8, <2>1 DEF Del, Remember
<1>9. ASSUME NEW w \in Writers, InvalidationRejects(w) PROVE HistoryOK'
  <2>1. tagset[TagOf[writing[w]]] \subseteq CacheKeys \/ drop[w] # "smembers"
    BY <1>9, Writing DEF Base, TypeOK
  <2>2. members[w] \subseteq CacheKeys
    BY DEF Base, TypeOK
  <2> QED BY <1>1, <1>9, <2>1, <2>2 DEF InvalidationRejects, Remember
<1> QED BY <1>2, <1>3, <1>4, <1>5, <1>6, <1>7, <1>8, <1>9 DEF Next, vars, ResolverReads, DbWrite,
           DbWriteRejects, SMembers

LEMMA ReturnBase ==
  ASSUME Base, HistoryOK', NEW f \in Fetchers, Return(f), UNCHANGED writers,
         cached' \in [CacheKeys -> Values \cup {None}], tagset' \in [Tags -> SUBSET CacheKeys]
  PROVE  Base'
<1>1. TypeOK'
  BY NothingType DEF Base, TypeOK, HistoryOK, Return, writers
<1>2. FetchShapes'
  BY DEF Base, TypeOK, FetchShapes, FetchShape, Return
<1>3. WriteShapes'
  BY DEF Base, WriteShapes, writers
<1> QED BY <1>1, <1>2, <1>3 DEF Base

LEMMA GetMissBase ==
  ASSUME Base, HistoryOK', NEW f \in Fetchers, NEW k \in CacheKeys, GetMiss(f, k)
  PROVE  Base'
<1>1. TypeOK'
  BY DEF Base, TypeOK, HistoryOK, GetMiss, writers
<1>2. FetchShapes'
  BY DEF Base, TypeOK, FetchShapes, FetchShape, GetMiss
<1>3. WriteShapes'
  BY DEF Base, WriteShapes, GetMiss, writers
<1> QED BY <1>1, <1>2, <1>3 DEF Base

LEMMA ResolverReadsBase ==
  ASSUME Base, HistoryOK', NEW f \in Fetchers, NEW c \in Collections, ResolverReads(f, c)
  PROVE  Base'
<1>1. got' \in [Fetchers -> Values] /\ at' \in [Fetchers -> {"idle", "resolve", "set", "tag"}]
  BY DEF Base, TypeOK, ResolverReads, Values
<1>2. TypeOK'
  BY <1>1 DEF Base, TypeOK, HistoryOK, ResolverReads, writers
<1>3. FetchShapes'
  BY Fetching DEF Base, TypeOK, FetchShapes, FetchShape, ResolverReads
<1>4. WriteShapes'
  BY DEF Base, WriteShapes, ResolverReads, writers
<1> QED BY <1>2, <1>3, <1>4 DEF Base

LEMMA SetBase ==
  ASSUME Base, HistoryOK', NEW f \in Fetchers, Set(f)
  PROVE  Base'
<1>1. key[f] \in CacheKeys /\ 1 \in DOMAIN TagsOf[key[f]]
  BY Fetching, TagTypes DEF Set
<1>2. TypeOK'
  BY <1>1 DEF Base, TypeOK, HistoryOK, Set, writers
<1>3. FetchShapes'
  BY <1>1 DEF Base, TypeOK, FetchShapes, FetchShape, Set
<1>4. WriteShapes'
  BY DEF Base, WriteShapes, Set, writers
<1> QED BY <1>2, <1>3, <1>4 DEF Base

LEMMA AddCkToTagBase ==
  ASSUME Base, HistoryOK', NEW f \in Fetchers, AddCkToTag(f)
  PROVE  Base'
<1> DEFINE k == key[f]
           i == tagged[f] + 1
<1>1. k \in CacheKeys /\ i \in DOMAIN TagsOf[k] /\ tagged[f] \in Nat
  BY Fetching DEF Base, TypeOK, FetchShapes, FetchShape, AddCkToTag
<1>2. TagsOf[k][i] \in Tags
  BY <1>1, TagTypes
<1>3. tagset' \in [Tags -> SUBSET CacheKeys]
  BY <1>1, <1>2 DEF Base, TypeOK, AddCkToTag
<1>4. CASE Untagged(f) = {i}
  BY <1>3, <1>4, ReturnBase DEF AddCkToTag, Base, TypeOK
<1>5. CASE Untagged(f) # {i}
  <2>1. i \in Untagged(f)
    BY <1>1 DEF Untagged
  <2>2. PICK j \in DOMAIN TagsOf[k] : j > tagged[f] /\ j # i
    BY <1>5, <2>1 DEF Untagged
  <2>3. j \in Nat /\ i + 1 \in 1..j
    BY <1>1, <2>2, TagTypes
  <2>4. i + 1 \in DOMAIN TagsOf[k]
    BY <1>1, <2>3, TagTypes
  <2>5. tagged' = [tagged EXCEPT ![f] = i] /\ UNCHANGED <<at, key, got, cached, writers>>
    BY <1>5 DEF AddCkToTag
  <2>6. TypeOK'
    BY <1>1, <1>3, <2>5 DEF Base, TypeOK, HistoryOK, writers
  <2>7. FetchShapes'
    BY <1>1, <2>4, <2>5 DEF Base, TypeOK, FetchShapes, FetchShape, AddCkToTag
  <2>8. WriteShapes'
    BY <2>5 DEF Base, WriteShapes, writers
  <2> QED BY <2>6, <2>7, <2>8 DEF Base
<1> QED BY <1>4, <1>5

LEMMA AfterBase ==
  ASSUME Base, HistoryOK', NEW w \in Writers, writing[w] # None, NEW s \in BOOLEAN,
         NEW d \in {"none", "smembers", "del"}, After(w, s, d), UNCHANGED <<at, key, tagged>>,
         cached' \in [CacheKeys -> Values \cup {None}], tagset' \in [Tags -> SUBSET CacheKeys],
         members' \in [Writers -> SUBSET CacheKeys], got' \in [Fetchers -> Values],
         \A f \in Fetchers : got[f] = Nothing => got'[f] = Nothing
  PROVE  Base'
<1>1. write' \in [Writers -> BOOLEAN] /\ drop' \in [Writers -> {"none", "smembers", "del"}]
  BY DEF Base, TypeOK, After
<1>2. writing' \in [Writers -> Collections \cup {None}]
  BY DEF Base, TypeOK, After
<1>3. TypeOK'
  BY <1>1, <1>2 DEF Base, TypeOK, HistoryOK
<1>4. FetchShapes'
  BY DEF Base, FetchShapes, FetchShape
<1>5. WriteShapes'
  <2> SUFFICES ASSUME NEW v \in Writers
               PROVE  writing'[v] = None <=> ~write'[v] /\ drop'[v] = "none"
    BY DEF WriteShapes
  <2>1. CASE v = w
    <3>1. write'[w] = s /\ drop'[w] = d
      BY DEF Base, TypeOK, After
    <3>2. writing'[w] = IF ~s /\ d = "none" THEN None ELSE writing[w]
      BY DEF Base, TypeOK, After
    <3> QED BY <2>1, <3>1, <3>2
  <2>2. CASE v # w
    <3>1. write'[v] = write[v] /\ drop'[v] = drop[v] /\ writing'[v] = writing[v]
      BY <2>2 DEF Base, TypeOK, After
    <3> QED BY <3>1 DEF Base, WriteShapes
  <2> QED BY <2>1, <2>2
<1> QED BY <1>3, <1>4, <1>5 DEF Base

LEMMA StartWriteBase ==
  ASSUME Base, HistoryOK', NEW w \in Writers, NEW c \in Collections, StartWrite(w, c)
  PROVE  Base'
<1>1. TypeOK'
  BY DEF Base, TypeOK, HistoryOK, StartWrite, fetching
<1>2. FetchShapes'
  BY DEF Base, FetchShapes, FetchShape, StartWrite, fetching
<1>3. WriteShapes'
  <2> SUFFICES ASSUME NEW v \in Writers
               PROVE  writing'[v] = None <=> ~write'[v] /\ drop'[v] = "none"
    BY DEF WriteShapes
  <2>1. CASE v = w
    <3>1. drop'[w] = "smembers" /\ writing'[w] = c
      BY DEF Base, TypeOK, StartWrite
    <3> QED BY <2>1, <3>1, NoneAssumption
  <2>2. CASE v # w
    <3>1. write'[v] = write[v] /\ drop'[v] = drop[v] /\ writing'[v] = writing[v]
      BY <2>2 DEF Base, TypeOK, StartWrite
    <3> QED BY <3>1 DEF Base, WriteShapes
  <2> QED BY <2>1, <2>2
<1> QED BY <1>1, <1>2, <1>3 DEF Base

LEMMA DbWriteBase ==
  ASSUME Base, HistoryOK', NEW w \in Writers, DbWrite(w)
  PROVE  Base'
<1> DEFINE c == writing[w]
<1>1. c \in Collections /\ c # None
  BY Writing DEF DbWrite
<1>2. cached' \in [CacheKeys -> Values \cup {None}]
  BY <1>1, OutdatedType DEF Base, TypeOK, DbWrite
<1>3. got' \in [Fetchers -> Values]
  BY <1>1, OutdatedType DEF Base, TypeOK, DbWrite
<1>4. Outdated(Nothing, c) = Nothing
  BY <1>1 DEF Outdated, Nothing
<1>5. \A f \in Fetchers : got[f] = Nothing => got'[f] = Nothing
  BY <1>4 DEF DbWrite
<1>6. After(w, FALSE, drop[w]) /\ drop[w] \in {"none", "smembers", "del"} /\ FALSE \in BOOLEAN
      /\ UNCHANGED <<at, key, tagged>> /\ tagset' \in [Tags -> SUBSET CacheKeys]
      /\ members' \in [Writers -> SUBSET CacheKeys]
  BY DEF Base, TypeOK, DbWrite
<1> HIDE DEF c
<1> QED BY <1>1, <1>2, <1>3, <1>5, <1>6, AfterBase DEF c

LEMMA DbWriteRejectsBase ==
  ASSUME Base, HistoryOK', NEW w \in Writers, DbWriteRejects(w)
  PROVE  Base'
<1>1. writing[w] # None
  BY Writing DEF DbWriteRejects
<1>2. After(w, FALSE, drop[w]) /\ drop[w] \in {"none", "smembers", "del"} /\ FALSE \in BOOLEAN
      /\ UNCHANGED <<cached, tagset, at, key, got, tagged, members>>
  BY DEF Base, TypeOK, DbWriteRejects, fetching
<1> QED BY <1>1, <1>2, AfterBase DEF Base, TypeOK

LEMMA SMembersBase ==
  ASSUME Base, HistoryOK', NEW w \in Writers, SMembers(w)
  PROVE  Base'
<1> DEFINE d == IF tagset[TagOf[writing[w]]] = {} THEN "none" ELSE "del"
<1>1. writing[w] # None /\ TagOf[writing[w]] \in Tags
  BY Writing DEF SMembers
<1>2. members' \in [Writers -> SUBSET CacheKeys]
  BY <1>1 DEF Base, TypeOK, SMembers
<1>3. After(w, write[w], d) /\ d \in {"none", "smembers", "del"} /\ write[w] \in BOOLEAN
      /\ UNCHANGED <<cached, tagset, at, key, got, tagged>>
  BY DEF Base, TypeOK, SMembers, fetching
<1> HIDE DEF d
<1> QED BY <1>1, <1>2, <1>3, AfterBase DEF Base, TypeOK

LEMMA DelBase ==
  ASSUME Base, HistoryOK', NEW w \in Writers, Del(w)
  PROVE  Base'
<1>1. writing[w] # None /\ TagOf[writing[w]] \in Tags
  BY Writing DEF Del
<1>2. members' \in [Writers -> SUBSET CacheKeys] /\ tagset' \in [Tags -> SUBSET CacheKeys]
      /\ cached' \in [CacheKeys -> Values \cup {None}]
  BY <1>1 DEF Base, TypeOK, Del
<1>3. After(w, write[w], "none") /\ write[w] \in BOOLEAN /\ UNCHANGED <<at, key, got, tagged>>
  BY DEF Base, TypeOK, Del, fetching
<1> QED BY <1>1, <1>2, <1>3, AfterBase DEF Base, TypeOK

LEMMA InvalidationRejectsBase ==
  ASSUME Base, HistoryOK', NEW w \in Writers, InvalidationRejects(w)
  PROVE  Base'
<1>1. writing[w] # None
  BY Writing DEF InvalidationRejects
<1>2. members' \in [Writers -> SUBSET CacheKeys]
  BY DEF Base, TypeOK, InvalidationRejects
<1>3. After(w, write[w], "none") /\ write[w] \in BOOLEAN
      /\ UNCHANGED <<cached, tagset, at, key, got, tagged>>
  BY DEF Base, TypeOK, InvalidationRejects, fetching
<1> QED BY <1>1, <1>2, <1>3, AfterBase DEF Base, TypeOK

LEMMA NextBase ==
  ASSUME Base, [Next]_vars
  PROVE  Base'
<1>h. HistoryOK'
  BY HistoryStep
<1>1. ASSUME NEW f \in Fetchers, FetchRejects(f)
      PROVE  Base'
  <2>1. at[f] = "set" => key[f] \in CacheKeys
    BY <1>1, Fetching
  <2>2. cached' \in [CacheKeys -> Values \cup {None}]
    BY <1>1, <2>1 DEF FetchRejects, Base, TypeOK
  <2> QED BY <1>h, <1>1, <2>2, ReturnBase DEF FetchRejects, Base, TypeOK
<1>2. CASE UNCHANGED vars
  BY <1>2 DEF Base, TypeOK, FetchShapes, FetchShape, WriteShapes, vars, fetching, writers, history
<1> QED BY <1>h, <1>1, <1>2, GetMissBase, ResolverReadsBase, SetBase, AddCkToTagBase, StartWriteBase,
           DbWriteBase, DbWriteRejectsBase, SMembersBase, DelBase, InvalidationRejectsBase
           DEF Next

THEOREM BaseHolds == Spec => []Base
  BY InitBase, NextBase, PTL DEF Spec

(* The values, the tag sets and the state of every fetch and every         *)
(* invalidation stay of the kinds the code gives them, whatever overlaps.  *)
THEOREM CacheTypeOK == Spec => []TypeOK
  BY BaseHolds, PTL DEF Base

-----------------------------------------------------------------------------
(* What a step does to one key and to one writer *)

LEMMA ReturnEffect ==
  ASSUME Base, NEW f \in Fetchers, Return(f)
  PROVE  /\ at'[f] = "idle" /\ key'[f] = None
         /\ \A g \in Fetchers : g # f => at'[g] = at[g] /\ key'[g] = key[g] /\ got'[g] = got[g]
                                         /\ tagged'[g] = tagged[g]
         /\ \A g \in Fetchers : g # f => (g \in overlapped' <=> g \in overlapped)
  BY DEF Base, TypeOK, Return

LEMMA AfterEffect ==
  ASSUME Base, NEW w \in Writers, NEW s, NEW d, After(w, s, d)
  PROVE  /\ drop'[w] = d /\ write'[w] = s
         /\ s => writing'[w] = writing[w]
         /\ d # "none" => writing'[w] = writing[w]
         /\ \A v \in Writers : v # w => writing'[v] = writing[v] /\ drop'[v] = drop[v]
                                        /\ write'[v] = write[v]
  BY DEF Base, TypeOK, After

(* A key is cached by a SET; until then its value is only ever outdated,   *)
(* and its history only grows.                                             *)
SetsKey(k) == \E f \in Fetchers : Set(f) /\ key[f] = k

Goes(k) ==
    /\ cached[k] # None
    /\ k \in exposed => k \in exposed'
    /\ k \in lost => k \in lost'
    /\ \/ cached'[k] = cached[k]
       \/ \E w \in Writers : DbWrite(w) /\ cached'[k] = Outdated(cached[k], writing[w])

LEMMA KeyStep ==
  ASSUME Base, [Next]_vars, NEW k \in CacheKeys, cached'[k] # None, k \notin lost'
  PROVE  SetsKey(k) \/ Goes(k)
<1>1. ASSUME NEW f \in Fetchers, Set(f) PROVE SetsKey(k) \/ Goes(k)
  BY <1>1 DEF Set, SetsKey, Goes, Remember, Base, TypeOK
<1>2. ASSUME NEW f \in Fetchers, FetchRejects(f) PROVE Goes(k)
  BY <1>2 DEF FetchRejects, Goes, Remember, Base, TypeOK
<1>3. ASSUME NEW w \in Writers, NEW c \in Collections, StartWrite(w, c) PROVE Goes(k)
  BY <1>3 DEF StartWrite, Goes, Remember
<1>4. ASSUME NEW w \in Writers, DbWrite(w) PROVE Goes(k)
  BY <1>4 DEF DbWrite, Goes, history
<1>5. ASSUME NEW w \in Writers, Del(w) PROVE Goes(k)
  BY <1>5 DEF Del, Goes, Remember
<1>6. ASSUME NEW w \in Writers, InvalidationRejects(w) PROVE Goes(k)
  BY <1>6 DEF InvalidationRejects, Goes, Remember
<1>7. CASE UNCHANGED <<cached, exposed, lost>>
  BY <1>7 DEF Goes
<1> QED BY <1>1, <1>2, <1>3, <1>4, <1>5, <1>6, <1>7 DEF Next, vars, history, GetMiss, ResolverReads,
           AddCkToTag, DbWriteRejects, SMembers

(* A key that stays cached leaves the set of a tag only by becoming lost.  *)
LEMMA TagStays ==
  ASSUME Base, [Next]_vars, NEW k \in CacheKeys, NEW t, k \in tagset[t], t \in Tags,
         cached'[k] # None, k \notin lost'
  PROVE  k \in tagset'[t]
<1>1. ASSUME NEW f \in Fetchers, AddCkToTag(f) PROVE k \in tagset'[t]
  BY <1>1 DEF AddCkToTag, Base, TypeOK
<1>2. ASSUME NEW w \in Writers, Del(w) PROVE k \in tagset'[t]
  <2>1. k \notin members[w] /\ ~(k \in tagset[TagOf[writing[w]]] \ members[w])
    BY <1>2 DEF Del, Remember
  <2>2. t # TagOf[writing[w]]
    BY <2>1
  <2> QED BY <1>2, <2>2 DEF Del, Base, TypeOK
<1>3. CASE tagset' = tagset
  BY <1>3
<1> QED BY <1>1, <1>2, <1>3 DEF Next, vars, GetMiss, ResolverReads, Set, FetchRejects,
           StartWrite, DbWrite, DbWriteRejects, SMembers, InvalidationRejects

(* An invalidation that has a key in hand keeps it until it deletes it, or *)
(* is rejected, which exposes the key.                                     *)
LEMMA DropsStays ==
  ASSUME Base, [Next]_vars, NEW w \in Writers, NEW k \in CacheKeys, Drops(w, k),
         Unhurt(k)'
  PROVE  Drops(w, k)' /\ writing'[w] = writing[w]
<1> USE DEF Drops, Unhurt
<1>1. drop[w] # "none" /\ writing[w] # None /\ TagOf[writing[w]] \in Tags
  BY Writing
<1>2. k \in tagset[TagOf[writing[w]]] => k \in tagset'[TagOf[writing[w]]]
  BY <1>1, TagStays
<1>3. CASE drop'[w] = drop[w] /\ writing'[w] = writing[w] /\ members'[w] = members[w]
  BY <1>2, <1>3
<1>4. ASSUME NEW v \in Writers, NEW c \in Collections, StartWrite(v, c)
      PROVE  Drops(w, k)' /\ writing'[w] = writing[w]
  <2>1. v # w
    BY <1>1, <1>4 DEF StartWrite
  <2> QED BY <1>3, <1>4, <2>1 DEF StartWrite, Base, TypeOK
<1>5. ASSUME NEW v \in Writers, NEW s, After(v, s, drop[v]), UNCHANGED members
      PROVE  Drops(w, k)' /\ writing'[w] = writing[w]
  BY <1>1, <1>3, <1>5, AfterEffect
<1>6. ASSUME NEW v \in Writers, SMembers(v)
      PROVE  Drops(w, k)' /\ writing'[w] = writing[w]
  <2> DEFINE d == IF tagset[TagOf[writing[v]]] = {} THEN "none" ELSE "del"
  <2>1. /\ drop'[v] = d
        /\ d # "none" => writing'[v] = writing[v]
        /\ \A u \in Writers : u # v => writing'[u] = writing[u] /\ drop'[u] = drop[u]
    <3>1. After(v, write[v], d)
      BY <1>6 DEF SMembers
    <3> HIDE DEF d
    <3> QED BY <3>1, AfterEffect
  <2>2. /\ drop[v] = "smembers" /\ members'[v] = tagset[TagOf[writing[v]]]
        /\ \A u \in Writers : u # v => members'[u] = members[u]
    BY <1>6 DEF SMembers, Base, TypeOK
  <2>3. CASE v = w
    BY <2>1, <2>2, <2>3
  <2>4. CASE v # w
    BY <1>3, <2>1, <2>2, <2>4
  <2> QED BY <2>3, <2>4
<1>7. ASSUME NEW v \in Writers, Del(v)
      PROVE  Drops(w, k)' /\ writing'[w] = writing[w]
  <2>1. v # w
    BY <1>7 DEF Del
  <2>2. writing'[w] = writing[w] /\ drop'[w] = drop[w]
    BY <1>7, <2>1, AfterEffect DEF Del
  <2>3. members'[w] = members[w]
    BY <1>7, <2>1 DEF Del, Base, TypeOK
  <2> QED BY <1>3, <2>2, <2>3
<1>8. CASE UNCHANGED <<writing, drop, members>>
  BY <1>3, <1>8
<1>9. ASSUME NEW v \in Writers, InvalidationRejects(v)
      PROVE  Drops(w, k)' /\ writing'[w] = writing[w]
  <2>1. v # w
    BY <1>9 DEF InvalidationRejects, Remember
  <2>2. writing'[w] = writing[w] /\ drop'[w] = drop[w]
    BY <1>9, <2>1, AfterEffect DEF InvalidationRejects
  <2>3. members'[w] = members[w]
    BY <1>9, <2>1 DEF InvalidationRejects, Base, TypeOK
  <2> QED BY <1>3, <2>2, <2>3
<1> QED BY <1>4, <1>5, <1>6, <1>7, <1>8, <1>9 DEF Next, vars, writers, GetMiss, ResolverReads, Set,
           AddCkToTag, FetchRejects, DbWrite, DbWriteRejects

-----------------------------------------------------------------------------
(* The parts of the invariant *)

LEMMA NextOverlapsSeen ==
  ASSUME Base, OverlapsSeen, [Next]_vars
  PROVE  OverlapsSeen'
<1> USE DEF OverlapsSeen
<1>1. ASSUME NEW f \in Fetchers, NEW k \in CacheKeys, GetMiss(f, k) PROVE OverlapsSeen'
  BY <1>1 DEF GetMiss, Base, TypeOK, writers
<1>2. ASSUME NEW f \in Fetchers, NEW c \in Collections, ResolverReads(f, c) PROVE OverlapsSeen'
  BY <1>2 DEF ResolverReads, Base, TypeOK, writers, history
<1>3. ASSUME NEW f \in Fetchers, Set(f) PROVE OverlapsSeen'
  BY <1>3 DEF Set, Base, TypeOK, writers
<1>4. ASSUME NEW f \in Fetchers, Return(f), UNCHANGED writers PROVE OverlapsSeen'
  <2>1. at'[f] \notin {"resolve", "set"}
    BY <1>4, ReturnEffect
  <2> QED BY <1>4, <2>1, ReturnEffect DEF writers
<1>5. ASSUME NEW f \in Fetchers, AddCkToTag(f) PROVE OverlapsSeen'
  BY <1>4, <1>5 DEF AddCkToTag, writers
<1>6. ASSUME NEW w \in Writers, NEW c \in Collections, StartWrite(w, c) PROVE OverlapsSeen'
  BY <1>6 DEF StartWrite, Reading, Base, TypeOK, fetching
<1>7. ASSUME NEW w \in Writers, NEW d, After(w, FALSE, d), UNCHANGED <<at, key, overlapped>>
      PROVE  OverlapsSeen'
  BY <1>7, AfterEffect
<1>8. ASSUME NEW w \in Writers, NEW d, After(w, write[w], d), UNCHANGED <<at, key, overlapped>>
      PROVE  OverlapsSeen'
  BY <1>8, AfterEffect
<1>9. CASE UNCHANGED <<write, writing, at, key, overlapped>>
  BY <1>9
<1> QED BY <1>1, <1>2, <1>3, <1>4, <1>5, <1>6, <1>7, <1>8, <1>9 DEF Next, vars, fetching, writers,
           history, FetchRejects, DbWrite, DbWriteRejects, SMembers, Del, InvalidationRejects

LEMMA NextGotFresh ==
  ASSUME Base, OverlapsSeen, GotFresh, [Next]_vars
  PROVE  GotFresh'
<1> USE DEF GotFresh
<1>1. ASSUME NEW f \in Fetchers, NEW k \in CacheKeys, GetMiss(f, k) PROVE GotFresh'
  <2>1. got[f] = Nothing
    BY <1>1 DEF GetMiss, Base, FetchShapes, FetchShape
  <2>2. \A c \in Reads[k] : got[f][c] = "absent"
    BY <2>1, TagTypes DEF Nothing
  <2> QED BY <1>1, <2>2 DEF GetMiss, Base, TypeOK
<1>2. ASSUME NEW f \in Fetchers, NEW c \in Collections, ResolverReads(f, c) PROVE GotFresh'
  <2>1. key[f] \in CacheKeys /\ Reads[key[f]] \subseteq Collections
    BY <1>2, Fetching, TagTypes DEF ResolverReads
  <2>2. /\ \A d \in Reads[key[f]] : got'[f][d] = IF d = c THEN "new" ELSE got[f][d]
        /\ at'[f] = "set" => \A d \in Reads[key[f]] \ {c} : got[f][d] # "absent"
        /\ \A g \in Fetchers : g # f => at'[g] = at[g] /\ got'[g] = got[g]
        /\ UNCHANGED <<key, overlapped>> /\ at[f] = "resolve"
    BY <1>2, <2>1 DEF ResolverReads, Base, TypeOK, Values, history
  <2> QED BY <2>2
<1>3. ASSUME NEW f \in Fetchers, Set(f) PROVE GotFresh'
  BY <1>3 DEF Set, Base, TypeOK
<1>4. ASSUME NEW f \in Fetchers, Return(f) PROVE GotFresh'
  <2>1. at'[f] \notin {"resolve", "set"}
    BY <1>4, ReturnEffect
  <2> QED BY <1>4, <2>1, ReturnEffect
<1>5. ASSUME NEW f \in Fetchers, AddCkToTag(f) PROVE GotFresh'
  BY <1>4, <1>5 DEF AddCkToTag
<1>6. ASSUME NEW w \in Writers, NEW c \in Collections, StartWrite(w, c) PROVE GotFresh'
  BY <1>6 DEF StartWrite, fetching
<1>7. ASSUME NEW w \in Writers, DbWrite(w) PROVE GotFresh'
  <2> SUFFICES ASSUME NEW f \in Fetchers, at[f] \in {"resolve", "set"}, NEW c \in Reads[key[f]]
               PROVE  /\ f \notin overlapped => got'[f][c] # "old"
                      /\ at[f] = "set" => got'[f][c] # "absent"
    BY <1>7 DEF DbWrite, history
  <2>1. c \in Collections
    BY Fetching, TagTypes
  <2>2. got'[f] = Outdated(got[f], writing[w]) /\ got[f] \in Values
    BY <1>7 DEF DbWrite, Base, TypeOK
  <2>3. got'[f][c] = got[f][c] \/ (c = writing[w] /\ got'[f][c] = "old")
    BY <2>1, <2>2 DEF Outdated, Values
  <2>4. c = writing[w] => f \in overlapped
    BY <1>7 DEF DbWrite, OverlapsSeen
  <2> QED BY <2>3, <2>4
<1>8. CASE UNCHANGED <<at, key, got, overlapped>>
  BY <1>8
<1> QED BY <1>1, <1>2, <1>3, <1>4, <1>5, <1>6, <1>7, <1>8 DEF Next, vars, fetching, history,
           FetchRejects, DbWriteRejects, SMembers, Del, InvalidationRejects

LEMMA RegisteredStays ==
  ASSUME Base, [Next]_vars, NEW k \in CacheKeys, Registered(k), cached'[k] # None, k \notin lost'
  PROVE  Registered(k)'
  BY TagStays, TagTypes DEF Registered

LEMMA NextRegistered ==
  ASSUME Base, RegisteredOrTagging, [Next]_vars
  PROVE  RegisteredOrTagging'
<1> SUFFICES ASSUME NEW k \in CacheKeys, cached'[k] # None, k \notin lost'
             PROVE  Registered(k)' \/ \E f \in Fetchers : Tagging(f, k)'
  BY DEF RegisteredOrTagging
<1>1. CASE SetsKey(k)
  <2>1. PICK f \in Fetchers : Set(f) /\ key[f] = k
    BY <1>1 DEF SetsKey
  <2>2. tagged[f] = 0
    BY <2>1 DEF Set, Base, FetchShapes, FetchShape
  <2>3. Tagging(f, k)'
    BY <2>1, <2>2 DEF Tagging, Set, Base, TypeOK
  <2> QED BY <2>3
<1>2. CASE Goes(k)
  <2>1. CASE Registered(k)
    BY <2>1, RegisteredStays
  <2>2. ASSUME NEW f \in Fetchers, Tagging(f, k)
        PROVE  Registered(k)' \/ Tagging(f, k)'
    <3> DEFINE i == tagged[f] + 1
    <3>1. key[f] = k /\ at[f] = "tag" /\ i \in DOMAIN TagsOf[k] /\ tagged[f] \in Nat
      BY <2>2 DEF Tagging, Base, TypeOK, FetchShapes, FetchShape
    <3>2. \A j \in 1..tagged[f] : TagsOf[k][j] \in Tags
      BY <3>1, TagTypes
    <3>3. \A j \in 1..tagged[f] : k \in tagset'[TagsOf[k][j]]
      BY <2>2, <3>2, TagStays DEF Tagging
    <3>4. CASE AddCkToTag(f)
      <4>1. TagsOf[k][i] \in Tags
        BY <3>1, TagTypes
      <4>2. k \in tagset'[TagsOf[k][i]]
        BY <3>1, <3>4, <4>1 DEF AddCkToTag, Base, TypeOK
      <4>3. CASE Untagged(f) = {i}
        <5>1. ASSUME NEW j \in DOMAIN TagsOf[k] PROVE j = i \/ j \in 1..tagged[f]
          <6>1. j \in Nat /\ j # 0
            BY TagsAssumption
          <6>2. j > tagged[f] => j = i
            BY <3>1, <4>3 DEF Untagged
          <6> QED BY <3>1, <6>1, <6>2
        <5> QED BY <3>3, <4>2, <5>1 DEF Registered
      <4>4. CASE Untagged(f) # {i}
        <5>1. tagged'[f] = i /\ at'[f] = "tag" /\ key'[f] = k
          BY <3>1, <3>4, <4>4 DEF AddCkToTag, Base, TypeOK
        <5>2. \A j \in 1..i : j = i \/ j \in 1..tagged[f]
          BY <3>1
        <5> QED BY <3>3, <4>2, <5>1, <5>2 DEF Tagging
      <4> QED BY <4>3, <4>4
    <3>5. CASE FetchRejects(f)
      BY <3>1, <3>5 DEF FetchRejects, Remember
    <3>6. CASE key'[f] = key[f] /\ at'[f] = at[f] /\ tagged'[f] = tagged[f]
      BY <3>1, <3>3, <3>6 DEF Tagging
    <3>7. ASSUME NEW g \in Fetchers, Return(g), g # f
          PROVE  key'[f] = key[f] /\ at'[f] = at[f] /\ tagged'[f] = tagged[f]
      BY <3>7, ReturnEffect
    <3>8. ASSUME NEW g \in Fetchers, AddCkToTag(g), g # f
          PROVE  key'[f] = key[f] /\ at'[f] = at[f] /\ tagged'[f] = tagged[f]
      BY <3>7, <3>8 DEF AddCkToTag, Base, TypeOK
    <3>9. ASSUME NEW g \in Fetchers, NEW c,
                 GetMiss(g, c) \/ ResolverReads(g, c) \/ Set(g)
          PROVE  key'[f] = key[f] /\ at'[f] = at[f] /\ tagged'[f] = tagged[f]
      BY <3>1, <3>9 DEF GetMiss, ResolverReads, Set, Base, TypeOK
    <3>10. CASE UNCHANGED <<key, at, tagged>>
      BY <3>6, <3>10
    <3> QED BY <3>4, <3>5, <3>6, <3>7, <3>8, <3>9, <3>10 DEF Next, vars, fetching, FetchRejects,
               StartWrite, DbWrite, DbWriteRejects, SMembers, Del, InvalidationRejects
  <2> QED BY <1>2, <2>1, <2>2 DEF RegisteredOrTagging, Goes
<1> QED BY <1>1, <1>2, KeyStep

LEMMA NextWriterFinds ==
  ASSUME Base, OverlapsSeen, RegisteredOrTagging, WriterFinds, TagsFollowReads, [Next]_vars
  PROVE  WriterFinds'
<1> SUFFICES ASSUME NEW w \in Writers, NEW k \in CacheKeys, write'[w], writing'[w] \in Reads[k],
                    Unhurt(k)'
             PROVE  Drops(w, k)'
  BY DEF WriterFinds
<1>1. cached'[k] # None /\ k \notin exposed' /\ k \notin lost'
  BY DEF Unhurt
<1>2. ASSUME ~write[w] PROVE \E c \in Collections : StartWrite(w, c)
  <2>1. ASSUME NEW v \in Writers, NEW d, After(v, write[v], d) \/ After(v, FALSE, d)
        PROVE  FALSE
    BY <1>2, <2>1, AfterEffect DEF Base, TypeOK
  <2>2. ASSUME NEW v \in Writers, NEW c \in Collections, StartWrite(v, c) PROVE StartWrite(w, c)
    <3>1. v = w
      BY <1>2, <2>2 DEF StartWrite, Base, TypeOK
    <3> QED BY <2>2, <3>1
  <2> QED BY <1>2, <2>1, <2>2 DEF Next, vars, writers, GetMiss, ResolverReads, Set, AddCkToTag,
             FetchRejects, DbWrite, DbWriteRejects, SMembers, Del, InvalidationRejects
<1>3. ASSUME write[w] PROVE writing'[w] = writing[w]
  <2>1. ASSUME NEW v \in Writers, NEW d, After(v, write[v], d) \/ After(v, FALSE, d)
        PROVE  writing'[w] = writing[w]
    <3>1. CASE v = w
      BY <1>3, <2>1, <3>1, AfterEffect
    <3>2. CASE v # w
      BY <2>1, <3>2, AfterEffect
    <3> QED BY <3>1, <3>2
  <2>2. ASSUME NEW v \in Writers, NEW c \in Collections, StartWrite(v, c)
        PROVE  writing'[w] = writing[w]
    <3>1. v # w
      BY <1>3, <2>2, Writing DEF StartWrite
    <3> QED BY <2>2, <3>1 DEF StartWrite, Base, TypeOK
  <2> QED BY <2>1, <2>2 DEF Next, vars, writers, GetMiss, ResolverReads, Set, AddCkToTag,
             FetchRejects, DbWrite, DbWriteRejects, SMembers, Del, InvalidationRejects
<1>4. CASE SetsKey(k)
  <2>1. PICK f \in Fetchers : Set(f) /\ key[f] = k
    BY <1>4 DEF SetsKey
  <2>2. write[w] /\ writing[w] \in Reads[k]
    BY <2>1 DEF Set, writers
  <2>3. f \in overlapped
    BY <2>1, <2>2 DEF Set, OverlapsSeen
  <2>4. k \in exposed'
    BY <1>1, <2>1, <2>3 DEF Set, Remember
  <2> QED BY <1>1, <2>4
<1>5. CASE Goes(k) /\ write[w]
  <2>1. Unhurt(k)
    BY <1>1, <1>5 DEF Goes, Unhurt
  <2>2. Drops(w, k)
    BY <1>3, <1>5, <2>1 DEF WriterFinds
  <2> QED BY <1>1, <2>2, DropsStays
<1>6. CASE Goes(k) /\ ~write[w]
  <2>1. PICK c \in Collections : StartWrite(w, c)
    BY <1>2, <1>6
  <2>2. /\ writing'[w] = c /\ drop'[w] = "smembers" /\ UNCHANGED <<tagset, cached>>
        /\ c \in Reads[k]
    BY <2>1 DEF StartWrite, Base, TypeOK
  <2>3. ASSUME NEW f \in Fetchers, Tagging(f, k) PROVE FALSE
    <3>1. f \in Reading(c) /\ at[f] = "tag" /\ key[f] = k
      BY <2>2, <2>3 DEF Tagging, Reading
    <3>2. k \in exposed'
      BY <1>1, <2>1, <3>1 DEF StartWrite, Remember
    <3> QED BY <1>1, <3>2
  <2>4. Registered(k)
    BY <1>1, <1>6, <2>3 DEF Goes, RegisteredOrTagging
  <2>5. TagOf[c] \in Range(TagsOf[k])
    BY <2>2 DEF TagsFollowReads
  <2>6. k \in tagset[TagOf[c]]
    BY <2>4, <2>5 DEF Registered, Range
  <2> QED BY <2>2, <2>6 DEF Drops
<1> QED BY <1>1, <1>4, <1>5, <1>6, KeyStep

LEMMA NextStaleIsDropped ==
  ASSUME Base, GotFresh, WriterFinds, StaleIsDropped, [Next]_vars
  PROVE  StaleIsDropped'
<1> SUFFICES ASSUME NEW k \in CacheKeys, Unhurt(k)', NEW c \in Reads[k], cached'[k][c] # "new"
             PROVE  \E w \in Writers : writing'[w] = c /\ Drops(w, k)'
  BY DEF StaleIsDropped
<1>1. cached'[k] # None /\ k \notin exposed' /\ k \notin lost' /\ c \in Collections
  BY TagTypes DEF Unhurt
<1>2. CASE SetsKey(k)
  <2>1. PICK f \in Fetchers : Set(f) /\ key[f] = k
    BY <1>2 DEF SetsKey
  <2>2. f \notin overlapped
    BY <1>1, <2>1 DEF Set, Remember
  <2>3. got[f][c] = "new"
    BY <1>1, <2>1, <2>2 DEF Set, GotFresh, Base, TypeOK, Values
  <2> QED BY <2>1, <2>3 DEF Set, Base, TypeOK
<1>3. CASE Goes(k)
  <2>1. Unhurt(k)
    BY <1>1, <1>3 DEF Goes, Unhurt
  <2>2. \E w \in Writers : writing[w] = c /\ Drops(w, k)
    <3>1. CASE cached[k][c] # "new"
      BY <2>1, <3>1 DEF StaleIsDropped
    <3>2. CASE cached[k][c] = "new"
      <4>1. PICK w \in Writers : DbWrite(w) /\ cached'[k] = Outdated(cached[k], writing[w])
        BY <1>3, <3>2 DEF Goes
      <4>2. cached[k] \in Values
        BY <1>3 DEF Goes, Base, TypeOK
      <4>3. writing[w] = c
        BY <1>1, <3>2, <4>1, <4>2 DEF Outdated, Values
      <4> QED BY <2>1, <4>1, <4>3 DEF DbWrite, WriterFinds
    <3> QED BY <3>1, <3>2
  <2> QED BY <1>1, <2>2, DropsStays
<1> QED BY <1>1, <1>2, <1>3, KeyStep

-----------------------------------------------------------------------------
(* The theorems *)

LEMMA InitInductive ==
  Init => OverlapsSeen /\ GotFresh /\ RegisteredOrTagging /\ WriterFinds /\ StaleIsDropped
  BY DEF Init, OverlapsSeen, GotFresh, RegisteredOrTagging, WriterFinds, StaleIsDropped, Unhurt

Unconditional == Base /\ OverlapsSeen /\ GotFresh /\ RegisteredOrTagging

LEMMA UnconditionalHolds == Spec => []Unconditional
<1>1. Unconditional /\ [Next]_vars => Unconditional'
  BY NextBase, NextOverlapsSeen, NextGotFresh, NextRegistered DEF Unconditional
<1>2. Init => Unconditional
  BY InitBase, InitInductive DEF Unconditional
<1> QED BY <1>1, <1>2, PTL DEF Spec

(* A cached key that no fetch is filling can be found by every write that  *)
(* has to drop it, whatever fetches and invalidations overlap: it leaves   *)
(* the set of a tag only in the gap between SMEMBERS and DEL, or when the  *)
(* SADD itself is rejected.                                                *)
THEOREM WritersFindCached == Spec => []CachedIsRegistered
<1>1. Unconditional => CachedIsRegistered
  BY DEF Unconditional, RegisteredOrTagging, Tagging, CachedIsRegistered, Registered
<1> QED BY <1>1, UnconditionalHolds, PTL

LEMMA StaleHolds == Spec => [](TagsFollowReads => WriterFinds /\ StaleIsDropped)
<1> DEFINE IInv == WriterFinds /\ StaleIsDropped
<1>1. Unconditional /\ (TagsFollowReads => IInv) /\ [Next]_vars => (TagsFollowReads => IInv)'
  BY NextWriterFinds, NextStaleIsDropped DEF Unconditional, TagsFollowReads
<1>2. Init => IInv
  BY InitInductive
<1> HIDE DEF IInv
<1>3. Spec => [](TagsFollowReads => IInv)
  BY <1>1, <1>2, UnconditionalHolds, PTL DEF Spec
<1> QED BY <1>3 DEF IInv

(* A hit returns what a miss would, where each key has the tag that the    *)
(* writers of what it reads invalidate: of all the keys that overlapping   *)
(* fetches and writers touch, only those last set beside a database write  *)
(* to what they hold, and those a tag has lost, can be outdated.           *)
THEOREM HitsAreMisses == Spec => [](TagsFollowReads => HitEqualsMiss)
<1>1. StaleIsDropped => HitEqualsMiss
  BY DEF StaleIsDropped, HitEqualsMiss, Unhurt, QuietFor
<1> QED BY <1>1, StaleHolds, PTL

-----------------------------------------------------------------------------
(* The methods and the writers of the four services *)

OfClients ==
    /\ CacheKeys \subseteq Keys
    /\ Reads = [k \in CacheKeys |-> Resolves(k)]
    /\ TagsOf = [k \in CacheKeys |-> FetchTags(k)]
    /\ TagOf = [c \in Collections |-> WriterTag(c)]

(* Each key the services build has the tag that the writers of the         *)
(* documents it reads build: the owner's tag, or the module's of bookings. *)
THEOREM ClientTags ==
  ASSUME NEW k \in Keys, NEW c \in Resolves(k)
  PROVE  WriterTag(c) \in Range(FetchTags(k))
<1>1. ModuleTag(k) \in Range(FetchTags(k))
  BY DEF FetchTags, Range
<1>2. CASE k.service = "bookings"
  <2>1. c = Collection("bookings", Unset)
    BY <1>2 DEF Resolves
  <2>2. WriterTag(c) = ModuleTag(k)
    BY <1>2, <2>1 DEF WriterTag, Collection, ModuleTag, GetMethodCk
  <2> QED BY <1>1, <2>2
<1>3. CASE k.service # "bookings"
  <2>1. k \in ListKeys \cup GetByIdKeys
    BY <1>3 DEF Keys, FindByIdKeys, FindAllKeys, GetMethodCk
  <2>2. k.owner \in Businesses /\ k.method \in {"list", "getById"}
    BY <2>1 DEF ListKeys, GetByIdKeys, GetMethodCk
  <2>3. k.owner # Unset
    BY <2>2, UnsetAssumption
  <2>4. OwnerTag(k) \in Range(FetchTags(k))
    BY <2>2 DEF FetchTags, Range
  <2>5. c = Collection(k.service, k.owner)
    BY <1>3 DEF Resolves
  <2>6. WriterTag(c) = OwnerTag(k)
    BY <1>3, <2>3, <2>5 DEF WriterTag, OwnerTag, Collection, GetMethodCk
  <2> QED BY <2>4, <2>6
<1> QED BY <1>2, <1>3

(* So the services keep this discipline on tags: their hits return what    *)
(* misses would, up to the keys that an overlap has hurt, for any owners,  *)
(* items and callers.                                                      *)
THEOREM ClientHits == Spec => [](OfClients => HitEqualsMiss)
<1>1. OfClients => TagsFollowReads
  <2> SUFFICES ASSUME OfClients, NEW k \in CacheKeys, NEW c \in Reads[k]
               PROVE  TagOf[c] \in Range(TagsOf[k])
    BY DEF TagsFollowReads
  <2>1. k \in Keys /\ Reads[k] = Resolves(k) /\ TagsOf[k] = FetchTags(k)
    BY DEF OfClients
  <2>2. c \in Collections
    BY TagTypes
  <2>3. TagOf[c] = WriterTag(c)
    BY <2>2 DEF OfClients
  <2> QED BY <2>1, <2>3, ClientTags
<1> QED BY <1>1, HitsAreMisses, PTL
=============================================================================
