--------------------------- MODULE LockStoreProofs ---------------------------
(***************************************************************************)
(* What each operation of the lock store does to its invariants.  The      *)
(* protocols that use the store (SearchProofs, BookingProofs) cite these   *)
(* lemmas, one per script or command.                                      *)
(***************************************************************************)
EXTENDS LockStore, TLAPS

StoreInv == StoreType /\ HeldHasEnd /\ HeldOnce /\ SlotsDisjoint

Nowhere(b) == \A d \in Days : ~Held(d, b)

(* The empty store is a good store. *)
LEMMA StoreInitInv == StoreInit => StoreInv
  BY DEF StoreInit, StoreInv, StoreType, HeldHasEnd, HeldOnce, SlotsDisjoint, HeldIds, Held

(* atomic-booking-lock.lua keeps the held slots of a day disjoint when the *)
(* id it adds holds nothing yet.                                           *)
LEMMA AcquireKeepsStore ==
  ASSUME StoreInv, NEW b \in Ids, NEW s \in Slots, Nowhere(b), AcquireScript(b, s)
  PROVE  StoreInv'
<1> USE NoneAssumption, SlotsAssumption
<1>1. StoreType'
  BY DEF StoreInv, StoreType, AcquireScript
<1>2. \A d \in Days, c \in Ids : ~(d = s.day /\ c = b) => zset'[d][c] = zset[d][c]
  BY DEF StoreInv, StoreType, AcquireScript
<1>3. zset'[s.day][b] = s.start /\ endTimes'[b] = s.end
  BY DEF StoreInv, StoreType, AcquireScript
<1>4. \A c \in Ids \ {b} : endTimes'[c] = endTimes[c]
  BY DEF StoreInv, StoreType, AcquireScript
<1>5. HeldHasEnd'
  BY <1>2, <1>3, <1>4 DEF StoreInv, HeldHasEnd, HeldIds, Held, Nowhere
<1>6. HeldOnce'
  BY <1>2, <1>3 DEF StoreInv, HeldOnce, Held, Nowhere
<1>7. \A c \in Ids \ {b} : Held(s.day, c) =>
          endTimes[c] \in Int /\ zset[s.day][c] \in Int
          /\ (endTimes[c] <= s.start \/ s.end <= zset[s.day][c])
  BY DEF StoreInv, StoreType, HeldHasEnd, HeldIds, Held, AcquireScript,
         AcquireConflict, StartsBy, EndsAfter
<1>8. SlotsDisjoint'
  <2> SUFFICES ASSUME NEW d \in Days, NEW x \in Ids, NEW y \in Ids, x # y,
                      zset'[d][x] # None, zset'[d][y] # None
               PROVE  endTimes'[x] <= zset'[d][y] \/ endTimes'[y] <= zset'[d][x]
    BY DEF SlotsDisjoint, HeldIds, Held
  <2>1. CASE x # b /\ y # b
    BY <2>1, <1>2, <1>4 DEF StoreInv, SlotsDisjoint, HeldHasEnd, HeldIds, Held
  <2>2. CASE x = b
    BY <2>2, <1>2, <1>3, <1>4, <1>7 DEF Held, Nowhere
  <2>3. CASE y = b
    BY <2>3, <1>2, <1>3, <1>4, <1>7 DEF Held, Nowhere
  <2> QED BY <2>1, <2>2, <2>3
<1> QED BY <1>1, <1>5, <1>6, <1>8 DEF StoreInv

(* zRem takes one entry away and disturbs nothing else. *)
LEMMA ZRemKeepsStore ==
  ASSUME StoreInv, NEW b \in Ids, NEW d \in Days, ZRem(b, d)
  PROVE  StoreInv'
<1>1. StoreType'
  BY DEF StoreInv, StoreType, ZRem
<1>2. \A e \in Days, c \in Ids :
         zset'[e][c] # None => zset'[e][c] = zset[e][c]
  BY DEF StoreInv, StoreType, ZRem
<1>3. endTimes' = endTimes
  BY DEF ZRem
<1>4. HeldHasEnd' /\ HeldOnce'
  BY <1>2, <1>3 DEF StoreInv, HeldHasEnd, HeldOnce, HeldIds, Held
<1>5. SlotsDisjoint'
  <2> SUFFICES ASSUME NEW e \in Days, NEW x \in Ids, NEW y \in Ids, x # y,
                      zset'[e][x] # None, zset'[e][y] # None,
                      endTimes'[x] # None, endTimes'[y] # None
               PROVE  endTimes'[x] <= zset'[e][y] \/ endTimes'[y] <= zset'[e][x]
    BY DEF SlotsDisjoint, HeldIds, Held
  <2>1. zset[e][x] # None /\ zset[e][y] # None
    BY <1>2
  <2>2. endTimes[x] <= zset[e][y] \/ endTimes[y] <= zset[e][x]
    BY <2>1, <1>3 DEF StoreInv, SlotsDisjoint, HeldIds, Held
  <2> QED BY <2>2, <1>2, <1>3
<1> QED BY <1>1, <1>4, <1>5 DEF StoreInv

(* hDel is safe only for an id that no sorted set contains any more. *)
LEMMA HDelKeepsStore ==
  ASSUME StoreInv, NEW b \in Ids, Nowhere(b), HDel(b)
  PROVE  StoreInv'
<1>1. StoreType'
  BY DEF StoreInv, StoreType, HDel
<1>2. zset' = zset
  BY DEF HDel
<1>3. \A c \in Ids : c # b => endTimes'[c] = endTimes[c]
  BY DEF StoreInv, StoreType, HDel
<1>4. HeldHasEnd' /\ HeldOnce'
  BY <1>2, <1>3 DEF StoreInv, HeldHasEnd, HeldOnce, HeldIds, Held, Nowhere
<1>5. SlotsDisjoint'
  BY <1>2, <1>3 DEF StoreInv, SlotsDisjoint, HeldIds, Held, Nowhere
<1> QED BY <1>1, <1>4, <1>5 DEF StoreInv

(* atomic-reschedule-swap.lua moves the slot of b and keeps the slots      *)
(* disjoint, provided oldDay is the only day on which b may hold one.      *)
LEMMA SwapKeepsStore ==
  ASSUME StoreInv, NEW b \in Ids, NEW oldDay \in Days, NEW s \in Slots,
         \A d \in Days : Held(d, b) => d = oldDay,
         SwapScript(b, oldDay, s)
  PROVE  StoreInv'
<1> USE NoneAssumption, SlotsAssumption
<1>1. StoreType'
  BY DEF StoreInv, StoreType, SwapScript
<1>2. \A d \in Days, c \in Ids : c # b => zset'[d][c] = zset[d][c]
  BY DEF StoreInv, StoreType, SwapScript
<1>3. zset'[s.day][b] = s.start /\ endTimes'[b] = s.end
  BY DEF StoreInv, StoreType, SwapScript
<1>4. \A d \in Days : d # s.day => zset'[d][b] = None
  BY DEF StoreInv, StoreType, SwapScript, Held
<1>5. \A c \in Ids \ {b} : endTimes'[c] = endTimes[c]
  BY DEF StoreInv, StoreType, SwapScript
<1>6. HeldHasEnd'
  BY <1>2, <1>3, <1>5 DEF StoreInv, HeldHasEnd, HeldIds, Held
<1>7. HeldOnce'
  BY <1>2, <1>4 DEF StoreInv, HeldOnce, Held
<1>8. \A c \in Ids \ {b} : Held(s.day, c) =>
          endTimes[c] \in Int /\ zset[s.day][c] \in Int
          /\ (endTimes[c] <= s.start \/ s.end <= zset[s.day][c])
  BY DEF StoreInv, StoreType, HeldHasEnd, HeldIds, Held, SwapScript, SwapRefused, StartsBy
<1>9. SlotsDisjoint'
  <2> SUFFICES ASSUME NEW d \in Days, NEW x \in Ids, NEW y \in Ids, x # y,
                      zset'[d][x] # None, zset'[d][y] # None
               PROVE  endTimes'[x] <= zset'[d][y] \/ endTimes'[y] <= zset'[d][x]
    BY DEF SlotsDisjoint, HeldIds, Held
  <2>1. CASE x # b /\ y # b
    BY <2>1, <1>2, <1>5 DEF StoreInv, SlotsDisjoint, HeldHasEnd, HeldIds, Held
  <2>2. CASE x = b
    BY <2>2, <1>2, <1>3, <1>4, <1>5, <1>8 DEF Held
  <2>3. CASE y = b
    BY <2>3, <1>2, <1>3, <1>4, <1>5, <1>8 DEF Held
  <2> QED BY <2>1, <2>2, <2>3
<1> QED BY <1>1, <1>6, <1>7, <1>9 DEF StoreInv

(* A step that touches neither structure keeps the invariant. *)
LEMMA StoreUnchanged == StoreInv /\ UNCHANGED store => StoreInv'
  BY DEF StoreInv, store, StoreType, HeldHasEnd, HeldOnce, SlotsDisjoint, HeldIds, Held
=============================================================================
