---------------------------- MODULE SearchProofs ----------------------------
(***************************************************************************)
(* The lock service and the searches beside it, for any ids, slots, days,  *)
(* calendars, services and concurrent requests.                            *)
(*                                                                         *)
(* The lock service keeps the held slots of every day disjoint where its   *)
(* callers follow Discipline.  SlotsDisjoint is not inductive: an hDel is  *)
(* harmless only because the id has left every sorted set, which holds     *)
(* only because the zRem before it addressed the right day and no swap     *)
(* came in between; and a swap leaves one entry only because the entry it  *)
(* read is still there.  IInv says so.                                     *)
(*                                                                         *)
(* In a good store the sweep returns exactly the free time.  It is a fold, *)
(* a recursion over the set of bookings: SweepExists builds the function   *)
(* that the recursion chooses, and SweepInv is the invariant of its loop.  *)
(*                                                                         *)
(* A search is a loop around the sweep, with the writers running between   *)
(* its turns.  ExactInv is the invariant of that loop: on the dates that   *)
(* it has passed, what it has found is what can be booked.                 *)
(***************************************************************************)
EXTENDS Search, LockStoreProofs, FiniteSetTheorems, WellFoundedInduction

(***************************************************************************)
(* The lock service                                                        *)
(***************************************************************************)

(* What a caller knows while it waits. *)
CallsTyped ==
    \A c \in Callers :
        /\ pc[c] = "idle" <=> about[c] = None
        /\ about[c] # None => home[about[c]] # None
        /\ pc[c] \in {"hget", "eval"} => "swap" \in Calls /\ to[c] \in Slots
        /\ pc[c] = "hdel" => "release" \in Calls

TypeInv == TypeOK /\ CallsTyped

FreshIsNowhere == \A b \in Ids : home[b] = None => Nowhere(b)

OneCallEach ==
    Serial => \A c, e \in Callers : about[c] # None /\ about[c] = about[e] => c = e

StaysHome ==
    "swap" \notin Calls \/ OneDay =>
        \A b \in Ids, d \in Days : Held(d, b) => home[b] # None /\ d = home[b].day

SwapSeesEntry ==
    \A c \in Callers : pc[c] \in {"hget", "eval"} => Held(home[about[c]].day, about[c])

ReleasedIsNowhere == \A c \in Callers : pc[c] = "hdel" => Nowhere(about[c])

StrayEndsLeave ==
    \A b \in Ids : endTimes[b] # None /\ Nowhere(b) =>
        \E c \in Callers : pc[c] = "hdel" /\ about[c] = b

NeverLost == "release" \notin Calls => SwapKeepsSlot

CallInv == FreshIsNowhere /\ OneCallEach /\ StaysHome /\ SwapSeesEntry /\ ReleasedIsNowhere

IInv == TypeInv /\ StoreInv /\ CallInv /\ StrayEndsLeave /\ NeverLost

-----------------------------------------------------------------------------
LEMMA InitIInv == Init => IInv
<1> SUFFICES ASSUME Init PROVE IInv
  OBVIOUS
<1>1. TypeInv
  BY DEF Init, StoreInit, TypeInv, CallsTyped, TypeOK, StoreType
<1>2. StoreInv
  BY StoreInitInv DEF Init
<1>3. CallInv /\ StrayEndsLeave /\ NeverLost
  BY DEF Init, StoreInit, CallInv, FreshIsNowhere, OneCallEach, StaysHome, SwapSeesEntry,
         ReleasedIsNowhere, StrayEndsLeave, NeverLost, SwapKeepsSlot, Nowhere, Held
<1> QED BY <1>1, <1>2, <1>3 DEF IInv

(* Type correctness needs no discipline. *)
LEMMA TypeStep == TypeInv /\ [Next]_vars => TypeInv'
<1> SUFFICES ASSUME TypeInv, [Next]_vars PROVE TypeInv'
  OBVIOUS
<1> USE SlotsAssumption, NoneAssumption, CallersAssumption
        DEF TypeInv, CallsTyped, TypeOK, StoreType
<1>1. CASE \E b \in Ids, s \in Slots : TryAcquireSlot(b, s)
  BY <1>1 DEF TryAcquireSlot, AcquireScript
<1>2. CASE \E c \in Callers, b \in Ids : ReleaseZRem(c, b)
  BY <1>2 DEF ReleaseZRem, ZRem, MayCall
<1>3. CASE \E c \in Callers : ReleaseHDel(c)
  BY <1>3 DEF ReleaseHDel, HDel, Return
<1>4. CASE \E c \in Callers, b \in Ids, s \in Slots : SwapZScore(c, b, s)
  BY <1>4 DEF SwapZScore, MayCall
<1>5. CASE \E c \in Callers : SwapHGet(c)
  BY <1>5 DEF SwapHGet, Return
<1>6. CASE \E c \in Callers : SwapEval(c)
  <2> PICK c \in Callers : SwapEval(c)
    BY <1>6
  <2>1. about[c] \in Ids /\ to[c] \in Slots /\ home[about[c]] \in Slots
    BY DEF SwapEval
  <2>2. CASE UNCHANGED store
    BY <2>2 DEF SwapEval, Return, store
  <2>3. CASE SwapScript(about[c], home[about[c]].day, to[c])
    <3>1. StoreType'
      BY <2>1, <2>3 DEF SwapScript
    <3> QED BY <3>1 DEF SwapEval, Return
  <2> QED BY <2>2, <2>3 DEF SwapEval
<1>7. CASE UNCHANGED vars
  BY <1>7 DEF vars
<1> QED BY <1>1, <1>2, <1>3, <1>4, <1>5, <1>6, <1>7 DEF Next

-----------------------------------------------------------------------------
LEMMA AcquireStep ==
  ASSUME IInv, TypeInv', NEW b \in Ids, NEW s \in Slots, TryAcquireSlot(b, s)
  PROVE  IInv'
<1>1. Nowhere(b)
  BY DEF IInv, CallInv, FreshIsNowhere, TryAcquireSlot
<1>2. StoreInv'
  BY <1>1, AcquireKeepsStore DEF IInv, TryAcquireSlot
<1>3. \A d \in Days, c \in Ids : c # b => zset'[d][c] = zset[d][c]
  BY DEF IInv, StoreInv, StoreType, TryAcquireSlot, AcquireScript
<1>4. /\ zset'[s.day][b] = s.start
      /\ \A d \in Days : d # s.day => zset'[d][b] = zset[d][b]
  BY SlotsAssumption DEF IInv, StoreInv, StoreType, TryAcquireSlot, AcquireScript
<1>5. /\ \A c \in Ids : c # b => endTimes'[c] = endTimes[c] /\ home'[c] = home[c]
      /\ home[b] = None /\ home'[b] = s
      /\ UNCHANGED <<pc, about, to>>
  BY DEF IInv, TypeInv, TypeOK, StoreInv, StoreType, TryAcquireSlot, AcquireScript
<1>6. \A c \in Callers : pc[c] # "idle" => about[c] \in Ids /\ about[c] # b
  BY <1>5 DEF IInv, TypeInv, TypeOK, CallsTyped
<1>7. s.day \in Days /\ s.start # None
  BY SlotsAssumption, NoneAssumption
<1>8. CallInv'
  <2>1. FreshIsNowhere'
    BY <1>3, <1>5, NoneAssumption DEF IInv, CallInv, FreshIsNowhere, Nowhere, Held
  <2>2. OneCallEach'
    BY <1>5 DEF IInv, CallInv, OneCallEach
  <2>3. StaysHome'
    BY <1>1, <1>3, <1>4, <1>5, NoneAssumption DEF IInv, CallInv, StaysHome, Nowhere, Held
  <2>4. SwapSeesEntry'
    <3> SUFFICES ASSUME NEW c \in Callers, pc[c] \in {"hget", "eval"}
                 PROVE  zset'[home[about[c]].day][about[c]] # None
      BY <1>5, <1>6 DEF SwapSeesEntry, Held
    <3>1. about[c] \in Ids /\ about[c] # b /\ home[about[c]] \in Slots
      BY <1>6 DEF IInv, TypeInv, TypeOK, CallsTyped
    <3> QED BY <3>1, <1>3, SlotsAssumption DEF IInv, CallInv, SwapSeesEntry, Held
  <2>5. ReleasedIsNowhere'
    BY <1>3, <1>5, <1>6 DEF IInv, CallInv, ReleasedIsNowhere, Nowhere, Held
  <2> QED BY <2>1, <2>2, <2>3, <2>4, <2>5 DEF CallInv
<1>9. StrayEndsLeave'
  BY <1>3, <1>4, <1>5, <1>7 DEF IInv, StrayEndsLeave, Nowhere, Held
<1>10. NeverLost'
  BY <1>3, <1>4, <1>5, <1>7 DEF IInv, NeverLost, SwapKeepsSlot, Held
<1> QED BY <1>2, <1>8, <1>9, <1>10 DEF IInv

LEMMA ZRemStep ==
  ASSUME Discipline, IInv, TypeInv', NEW c \in Callers, NEW b \in Ids, ReleaseZRem(c, b)
  PROVE  IInv'
<1> DEFINE d == home[b].day
<1>1. /\ home[b] \in Slots /\ d \in Days
      /\ "release" \in Calls
      /\ pc[c] = "idle" /\ about[c] = None
      /\ Serial => ~InFlight(b)
      /\ UNCHANGED <<home, endTimes>>
  BY SlotsAssumption DEF IInv, TypeInv, TypeOK, CallsTyped, ReleaseZRem, MayCall, ZRem
<1>2. StoreInv'
  BY <1>1, ZRemKeepsStore DEF IInv, ReleaseZRem
<1>3. zset' = [zset EXCEPT ![d][b] = None]
  BY DEF ReleaseZRem, ZRem
<1>4. \A e \in Days, x \in Ids : x # b => zset'[e][x] = zset[e][x]
  BY <1>1, <1>3 DEF IInv, StoreInv, StoreType
<1>5. \A e \in Days, x \in Ids : zset[e][x] = None => zset'[e][x] = None
  BY <1>1, <1>3 DEF IInv, StoreInv, StoreType
<1>6. zset'[d][b] = None /\ \A e \in Days : e # d => zset'[e][b] = zset[e][b]
  BY <1>1, <1>3 DEF IInv, StoreInv, StoreType
<1>7. \A e \in Days : zset'[e][b] = None
  BY <1>1, <1>5, <1>6, NoneAssumption DEF Discipline, IInv, CallInv, StaysHome, Held
<1>8. /\ \A e \in Callers : e # c => pc'[e] = pc[e] /\ about'[e] = about[e]
      /\ pc'[c] = "hdel" /\ about'[c] = b
  BY DEF IInv, TypeInv, TypeOK, ReleaseZRem
<1>9. CallInv'
  <2>1. FreshIsNowhere'
    BY <1>1, <1>5 DEF IInv, CallInv, FreshIsNowhere, Nowhere, Held
  <2>2. OneCallEach'
    BY <1>1, <1>8 DEF IInv, CallInv, OneCallEach, InFlight
  <2>3. StaysHome'
    BY <1>1, <1>5 DEF IInv, CallInv, StaysHome, Held
  <2>4. SwapSeesEntry'
    <3> SUFFICES ASSUME NEW e \in Callers, pc'[e] \in {"hget", "eval"}
                 PROVE  zset'[home[about'[e]].day][about'[e]] # None
      BY <1>1 DEF SwapSeesEntry, Held
    <3>1. e # c /\ pc[e] \in {"hget", "eval"} /\ about'[e] = about[e]
      BY <1>8
    <3>2. Serial
      BY <3>1 DEF Discipline, IInv, TypeInv, CallsTyped
    <3>3. about[e] \in Ids /\ about[e] # b /\ home[about[e]] \in Slots
      BY <1>1, <3>1, <3>2 DEF IInv, TypeInv, TypeOK, CallsTyped, InFlight
    <3> QED BY <3>1, <3>3, <1>4, SlotsAssumption DEF IInv, CallInv, SwapSeesEntry, Held
  <2>5. ReleasedIsNowhere'
    <3> SUFFICES ASSUME NEW e \in Callers, pc'[e] = "hdel", NEW x \in Days
                 PROVE  zset'[x][about'[e]] = None
      BY DEF ReleasedIsNowhere, Nowhere, Held
    <3>1. CASE e = c
      BY <3>1, <1>7, <1>8
    <3>2. CASE e # c
      <4>1. pc[e] = "hdel" /\ about'[e] = about[e]
        BY <3>2, <1>8
      <4>2. about[e] \in Ids /\ zset[x][about[e]] = None
        BY <4>1 DEF IInv, TypeInv, TypeOK, CallsTyped, CallInv, ReleasedIsNowhere, Nowhere, Held
      <4> QED BY <4>1, <4>2, <1>5
    <3> QED BY <3>1, <3>2
  <2> QED BY <2>1, <2>2, <2>3, <2>4, <2>5 DEF CallInv
<1>10. StrayEndsLeave'
  <2> SUFFICES ASSUME NEW x \in Ids, endTimes[x] # None, \A e \in Days : zset'[e][x] = None
               PROVE  \E e \in Callers : pc'[e] = "hdel" /\ about'[e] = x
    BY <1>1 DEF StrayEndsLeave, Nowhere, Held
  <2>1. CASE x = b
    BY <2>1, <1>8
  <2>2. CASE x # b
    <3>1. PICK e \in Callers : pc[e] = "hdel" /\ about[e] = x
      BY <2>2, <1>4 DEF IInv, StrayEndsLeave, Nowhere, Held
    <3> QED BY <3>1, <1>1, <1>8
  <2> QED BY <2>1, <2>2
<1>11. NeverLost'
  BY <1>1 DEF NeverLost
<1> QED BY <1>2, <1>9, <1>10, <1>11 DEF IInv

LEMMA HDelStep ==
  ASSUME IInv, TypeInv', NEW c \in Callers, ReleaseHDel(c)
  PROVE  IInv'
<1> DEFINE b == about[c]
<1>1. b \in Ids /\ Nowhere(b) /\ pc[c] = "hdel"
  BY DEF IInv, TypeInv, TypeOK, CallsTyped, CallInv, ReleasedIsNowhere, ReleaseHDel
<1>2. StoreInv'
  BY <1>1, HDelKeepsStore DEF IInv, ReleaseHDel
<1>3. /\ UNCHANGED <<zset, home>>
      /\ endTimes'[b] = None
      /\ \A x \in Ids : x # b => endTimes'[x] = endTimes[x]
  BY <1>1 DEF IInv, StoreInv, StoreType, ReleaseHDel, HDel
<1>4. /\ \A e \in Callers : e # c => pc'[e] = pc[e] /\ about'[e] = about[e]
      /\ pc'[c] = "idle" /\ about'[c] = None
  BY DEF IInv, TypeInv, TypeOK, ReleaseHDel, Return
<1>5. CallInv'
  BY <1>3, <1>4 DEF IInv, CallInv, FreshIsNowhere, OneCallEach, StaysHome, SwapSeesEntry,
     ReleasedIsNowhere, Nowhere, Held
<1>6. StrayEndsLeave'
  BY <1>3, <1>4 DEF IInv, StrayEndsLeave, Nowhere, Held
<1>7. NeverLost'
  BY <1>3 DEF IInv, NeverLost, SwapKeepsSlot, Held
<1> QED BY <1>2, <1>5, <1>6, <1>7 DEF IInv

LEMMA SwapReadStep ==
  ASSUME IInv, TypeInv', NEW c \in Callers,
         (\E b \in Ids, s \in Slots : SwapZScore(c, b, s)) \/ SwapHGet(c)
  PROVE  IInv'
<1>1. UNCHANGED <<zset, endTimes, home>>
  BY DEF SwapZScore, SwapHGet
<1>2. StoreInv'
  BY <1>1, StoreUnchanged DEF IInv, store
<1>3. \A e \in Callers : e # c => pc'[e] = pc[e] /\ about'[e] = about[e]
  BY DEF IInv, TypeInv, TypeOK, SwapZScore, SwapHGet, Return
<1>4. pc'[c] # "hdel" /\ pc[c] # "hdel"
  BY DEF IInv, TypeInv, TypeOK, SwapZScore, SwapHGet, Return, MayCall
<1>5. CASE \E b \in Ids, s \in Slots : SwapZScore(c, b, s)
  <2> PICK b \in Ids, s \in Slots : SwapZScore(c, b, s)
    BY <1>5
  <2>1. about'[c] = b /\ about[c] = None /\ Held(home[b].day, b) /\ (Serial => ~InFlight(b))
    BY DEF IInv, TypeInv, TypeOK, CallsTyped, SwapZScore, MayCall
  <2>2. OneCallEach' /\ SwapSeesEntry'
    BY <1>1, <1>3, <2>1 DEF IInv, CallInv, OneCallEach, SwapSeesEntry, InFlight, Held
  <2> QED BY <1>1, <1>2, <1>3, <1>4, <2>2
      DEF IInv, CallInv, FreshIsNowhere, StaysHome, ReleasedIsNowhere, StrayEndsLeave,
          NeverLost, SwapKeepsSlot, Nowhere, Held
<1>6. CASE SwapHGet(c)
  <2>1. /\ pc[c] = "hget"
        /\ \/ pc'[c] = "eval" /\ about'[c] = about[c]
           \/ pc'[c] = "idle" /\ about'[c] = None
    BY <1>6 DEF IInv, TypeInv, TypeOK, SwapHGet, Return
  <2>2. OneCallEach' /\ SwapSeesEntry'
    BY <1>1, <1>3, <2>1 DEF IInv, CallInv, OneCallEach, SwapSeesEntry, Held
  <2> QED BY <1>1, <1>2, <1>3, <1>4, <2>2
      DEF IInv, CallInv, FreshIsNowhere, StaysHome, ReleasedIsNowhere, StrayEndsLeave,
          NeverLost, SwapKeepsSlot, Nowhere, Held
<1> QED BY <1>5, <1>6

LEMMA SwapEvalStep ==
  ASSUME Discipline, IInv, TypeInv', NEW c \in Callers, SwapEval(c)
  PROVE  IInv'
<1> DEFINE b == about[c]  d == home[b].day  s == to[c]
<1>1. /\ b \in Ids /\ home[b] \in Slots /\ d \in Days /\ s \in Slots
      /\ "swap" \in Calls /\ pc[c] = "eval"
      /\ Held(d, b)
  BY SlotsAssumption DEF IInv, TypeInv, TypeOK, CallsTyped, CallInv, SwapSeesEntry, SwapEval
<1>2. Serial
  BY <1>1 DEF Discipline
<1>3. \A e \in Callers : e # c => about[e] # b
  BY <1>1, <1>2, NoneAssumption DEF IInv, CallInv, OneCallEach
<1>4. /\ home' = home
      /\ \A e \in Callers : e # c => pc'[e] = pc[e] /\ about'[e] = about[e]
      /\ pc'[c] = "idle" /\ about'[c] = None
  BY DEF IInv, TypeInv, TypeOK, SwapEval, Return
<1>5. CASE UNCHANGED store
  <2>1. UNCHANGED <<zset, endTimes>>
    BY <1>5 DEF store
  <2>2. StoreInv'
    BY <1>5, StoreUnchanged DEF IInv
  <2>3. CallInv'
    BY <1>4, <2>1 DEF IInv, CallInv, FreshIsNowhere, OneCallEach, StaysHome, SwapSeesEntry,
       ReleasedIsNowhere, Nowhere, Held
  <2>4. StrayEndsLeave' /\ NeverLost'
    BY <1>1, <1>4, <2>1 DEF IInv, StrayEndsLeave, NeverLost, SwapKeepsSlot, Nowhere, Held
  <2> QED BY <2>2, <2>3, <2>4 DEF IInv
<1>6. CASE SwapScript(b, d, s)
  <2>1. \A e \in Days : Held(e, b) => e = d
    BY <1>1 DEF IInv, StoreInv, HeldOnce
  <2>2. StoreInv'
    BY <1>1, <1>6, <2>1, SwapKeepsStore DEF IInv
  <2>3. \A e \in Days, x \in Ids : x # b => zset'[e][x] = zset[e][x]
    BY <1>1, <1>6 DEF IInv, StoreInv, StoreType, SwapScript
  <2>4. s.day \in Days /\ zset'[s.day][b] = s.start /\ s.start # None
    BY <1>1, <1>6, SlotsAssumption, NoneAssumption DEF IInv, StoreInv, StoreType, SwapScript
  <2>5. \A x \in Ids : x # b => endTimes'[x] = endTimes[x]
    BY <1>1, <1>6 DEF IInv, StoreInv, StoreType, SwapScript
  <2>6. CallInv'
    <3>1. FreshIsNowhere'
      BY <1>1, <1>4, <2>3, NoneAssumption DEF IInv, CallInv, FreshIsNowhere, Nowhere, Held
    <3>2. OneCallEach'
      BY <1>4 DEF IInv, CallInv, OneCallEach
    <3>6. StaysHome'
      <4> SUFFICES ASSUME OneDay, NEW x \in Ids, NEW e \in Days, zset'[e][x] # None
                   PROVE  home[x] # None /\ e = home[x].day
        BY <1>1, <1>4 DEF StaysHome, Held
      <4>1. CASE x = b
        <5>1. e = s.day
          BY <4>1, <1>1, <1>6, <2>1 DEF IInv, StoreInv, StoreType, SwapScript, Held
        <5> QED BY <4>1, <5>1, <1>1, NoneAssumption DEF OneDay
      <4>2. CASE x # b
        BY <4>2, <2>3 DEF IInv, CallInv, StaysHome, Held
      <4> QED BY <4>1, <4>2
    <3>3. \A e \in Callers : pc'[e] # "idle" =>
             pc'[e] = pc[e] /\ about'[e] = about[e] /\ about[e] \in Ids \ {b}
                /\ home[about[e]] \in Slots
      BY <1>3, <1>4 DEF IInv, TypeInv, TypeOK, CallsTyped
    <3>4. SwapSeesEntry'
      BY <1>4, <2>3, <3>3, SlotsAssumption DEF IInv, CallInv, SwapSeesEntry, Held
    <3>5. ReleasedIsNowhere'
      BY <2>3, <3>3 DEF IInv, CallInv, ReleasedIsNowhere, Nowhere, Held
    <3> QED BY <3>1, <3>2, <3>4, <3>5, <3>6 DEF CallInv
  <2>7. StrayEndsLeave'
    BY <1>1, <1>4, <2>3, <2>4, <2>5 DEF IInv, StrayEndsLeave, Nowhere, Held
  <2>8. NeverLost'
    BY <1>4, <2>3, <2>4 DEF IInv, NeverLost, SwapKeepsSlot, Held
  <2> QED BY <2>2, <2>6, <2>7, <2>8 DEF IInv
<1> QED BY <1>5, <1>6 DEF SwapEval

LEMMA StepIInv == ASSUME Discipline PROVE IInv /\ [Next]_vars => IInv'
<1> SUFFICES ASSUME IInv, [Next]_vars PROVE IInv'
  OBVIOUS
<1>1. TypeInv'
  BY TypeStep DEF IInv
<1>2. CASE UNCHANGED vars
  BY <1>1, <1>2, StoreUnchanged
     DEF vars, store, IInv, CallInv, FreshIsNowhere, OneCallEach, StaysHome, SwapSeesEntry,
         ReleasedIsNowhere, StrayEndsLeave, NeverLost, SwapKeepsSlot, Nowhere, Held
<1>3. CASE \E b \in Ids, s \in Slots : TryAcquireSlot(b, s)
  BY <1>1, <1>3, AcquireStep
<1>4. CASE \E c \in Callers, b \in Ids : ReleaseZRem(c, b)
  BY <1>1, <1>4, ZRemStep
<1>5. CASE \E c \in Callers : ReleaseHDel(c)
  BY <1>1, <1>5, HDelStep
<1>6. CASE \E c \in Callers, b \in Ids, s \in Slots : SwapZScore(c, b, s)
  BY <1>1, <1>6, SwapReadStep
<1>7. CASE \E c \in Callers : SwapHGet(c)
  BY <1>1, <1>7, SwapReadStep
<1>8. CASE \E c \in Callers : SwapEval(c)
  BY <1>1, <1>8, SwapEvalStep
<1> QED BY <1>2, <1>3, <1>4, <1>5, <1>6, <1>7, <1>8 DEF Next

-----------------------------------------------------------------------------
(* Every variable keeps its type, whatever the callers do. *)
THEOREM TypeCorrect == Spec => []TypeOK
<1>1. Init => TypeInv
  BY InitIInv DEF IInv
<1>2. TypeInv => TypeOK
  BY DEF TypeInv
<1> QED BY <1>1, <1>2, TypeStep, PTL DEF Spec

LEMMA InvHolds ==
  ASSUME Discipline
  PROVE  Spec => []IInv
<1>1. IInv /\ [Next]_vars => IInv'
  BY StepIInv
<1> QED BY <1>1, InitIInv, PTL DEF Spec

(* Callers that follow the discipline never hold overlapping slots of a    *)
(* day (BookingLockService with its scripts).                              *)
THEOREM LockSafety ==
  ASSUME Discipline
  PROVE  Spec => []SlotsDisjoint
<1>1. IInv => SlotsDisjoint
  BY DEF IInv, StoreInv
<1> QED BY <1>1, InvHolds, PTL

(* Nor does an entry ever lack its end time, without which the acquire     *)
(* script does not see it, although release and swap write in two steps.   *)
THEOREM EntriesHaveEnds ==
  ASSUME Discipline
  PROVE  Spec => []HeldHasEnd
<1>1. IInv => HeldHasEnd
  BY DEF IInv, StoreInv
<1> QED BY <1>1, InvHolds, PTL

(* Nor does a booking hold slots of two days, although a swap looks for    *)
(* its entry in one round trip and moves it in a later one.                *)
THEOREM OneSlotEach ==
  ASSUME Discipline
  PROVE  Spec => []HeldOnce
<1>1. IInv => HeldOnce
  BY DEF IInv, StoreInv
<1> QED BY <1>1, InvHolds, PTL

(* Once no call about a booking is under way, it has an end time exactly   *)
(* when it holds a slot: the two commands of a release leave nothing.      *)
THEOREM NothingStrays ==
  ASSUME Discipline
  PROVE  Spec => []NoStrayEnd
<1>1. IInv => NoStrayEnd
  <2> SUFFICES ASSUME IInv, NEW b \in Ids, ~InFlight(b)
               PROVE  endTimes[b] # None <=> \E d \in Days : Held(d, b)
    BY DEF NoStrayEnd
  <2>1. endTimes[b] # None => ~Nowhere(b)
    BY DEF IInv, StrayEndsLeave, InFlight
  <2>2. \A d \in Days : Held(d, b) => endTimes[b] # None
    BY DEF IInv, StoreInv, HeldHasEnd, HeldIds
  <2> QED BY <2>1, <2>2 DEF Nowhere
<1> QED BY <1>1, InvHolds, PTL

(* Where only swaps run, one per booking at a time, a booking that has     *)
(* acquired a slot holds a slot for ever: a reschedule never loses it.     *)
THEOREM SwapLosesNothing ==
  ASSUME Serial, Calls \subseteq {"swap"}
  PROVE  Spec => []SwapKeepsSlot
<1>1. Discipline
  BY DEF Discipline
<1>2. IInv => SwapKeepsSlot
  BY DEF IInv, NeverLost
<1>3. IInv /\ [Next]_vars => IInv'
  BY <1>1, StepIInv
<1> QED BY <1>2, <1>3, InitIInv, PTL DEF Spec

(***************************************************************************)
(* The sweep                                                               *)
(***************************************************************************)

(* Induction over the subsets of a finite set: of the sets that fail, one  *)
(* has no failing set one element below it.                                *)
LEMMA MinimalSet ==
  ASSUME NEW S, IsFiniteSet(S), NEW Failing \in SUBSET SUBSET S, Failing # {}
  PROVE  \E s \in Failing : \A x \in s : s \ {x} \notin Failing
<1>1. Failing \subseteq FiniteSubsetsOf(S)
  BY FS_Subset DEF FiniteSubsetsOf
<1>2. PICK s \in Failing : \A t \in Failing : ~(<<t, s>> \in StrictSubsetOrdering(S))
  BY <1>1, FS_StrictSubsetOrderingWellFounded, WFMin
<1>3. ASSUME NEW x \in s, s \ {x} \in Failing
      PROVE  FALSE
  <2>1. <<s \ {x}, s>> \in StrictSubsetOrdering(S)
    BY <1>3 DEF StrictSubsetOrdering
  <2> QED BY <1>2, <1>3, <2>1
<1> QED BY <1>3

LEMMA SmallestOf ==
  ASSUME NEW N \in SUBSET Nat, N # {}
  PROVE  \E n \in N : \A m \in N : n <= m
<1>1. PICK n \in N : \A m \in N : ~(<<m, n>> \in OpToRel(<, Nat))
  BY NatLessThanWellFounded, WFMin
<1>2. ASSUME NEW m \in N
      PROVE  ~(m < n)
  BY <1>1, <1>2 DEF OpToRel
<1> QED BY <1>2

(* The bookings that a sweep may visit. *)
Sweepable(d, S) ==
    IsFiniteSet(S) /\ \A b \in S : zset[d][b] \in Int /\ endTimes[b] \in Int

Last(d, S) == CHOOSE b \in S : \A c \in S : zset[d][c] <= zset[d][b]

LEMMA LastIsLast ==
  ASSUME NEW d, NEW S, Sweepable(d, S), S # {}
  PROVE  Last(d, S) \in S /\ \A c \in S : zset[d][c] <= zset[d][Last(d, S)]
<1> DEFINE Failing == {s \in SUBSET S : s # {} /\ \A b \in s : \E c \in s : ~(zset[d][c] <= zset[d][b])}
<1>1. Failing = {}
  <2> SUFFICES ASSUME Failing # {} PROVE FALSE
    OBVIOUS
  <2>1. PICK s \in Failing : \A x \in s : s \ {x} \notin Failing
    BY MinimalSet DEF Sweepable
  <2>2. PICK x \in s : TRUE
    OBVIOUS
  <2>3. CASE s = {x}
    BY <2>3 DEF Sweepable
  <2>4. CASE s # {x}
    <3>1. PICK b \in s \ {x} : \A c \in s \ {x} : zset[d][c] <= zset[d][b]
      BY <2>1, <2>2, <2>4
    <3>2. CASE zset[d][x] <= zset[d][b]
      BY <3>1, <3>2
    <3>3. CASE ~(zset[d][x] <= zset[d][b])
      BY <2>2, <3>1, <3>3 DEF Sweepable
    <3> QED BY <3>2, <3>3
  <2> QED BY <2>3, <2>4
<1>2. \E b \in S : \A c \in S : zset[d][c] <= zset[d][b]
  BY <1>1
<1> QED BY <1>2 DEF Last

(* The state of the loop after the bookings of s. *)
AfterVisits(d, opens, need, f, s) ==
    IF s = {} THEN [cursor |-> opens, gaps |-> {}]
    ELSE Visit(d, need, Last(d, s), f[s \ {Last(d, s)}])

Swept(d, opens, need, S, f) == f = [s \in SUBSET S |-> AfterVisits(d, opens, need, f, s)]

SweepOf(d, opens, need, S) == CHOOSE f : Swept(d, opens, need, S, f)

LEMMA SweepIsFold ==
  ASSUME NEW d, NEW opens, NEW closes, NEW need, NEW skip
  PROVE  LET S == StartsBy(d, closes) \ skip
             end == SweepOf(d, opens, need, S)[S]
         IN  AvailableSlots(d, opens, closes, need, skip)
                 = end.gaps \cup GapIfFits(end.cursor, closes, need)
  BY DEF AvailableSlots, MapThenFoldSet, SweepOf, Swept, AfterVisits, Last

(* The recursion of the fold has a solution: it is built for the sets of   *)
(* at most n bookings, one n after the other.                              *)
LEMMA SweepExists ==
  ASSUME NEW d, NEW opens, NEW need, NEW S, Sweepable(d, S)
  PROVE  Swept(d, opens, need, S, SweepOf(d, opens, need, S))
<1> DEFINE UpTo(n) == {s \in SUBSET S : Cardinality(s) <= n}
           Partly(n, f) == f = [s \in UpTo(n) |-> AfterVisits(d, opens, need, f, s)]
           Missing == {n \in Nat : ~\E f : Partly(n, f)}
<1>0. \A s \in SUBSET S : IsFiniteSet(s) /\ Cardinality(s) \in Nat
  BY FS_Subset, FS_CardinalityType DEF Sweepable
<1>1. ASSUME NEW s \in SUBSET S, s # {}
      PROVE  Last(d, s) \in s /\ Cardinality(s \ {Last(d, s)}) = Cardinality(s) - 1
  <2>1. Last(d, s) \in s
    BY <1>0, <1>1, LastIsLast DEF Sweepable
  <2> QED BY <1>0, <2>1, FS_RemoveElement
<1>2. 0 \notin Missing
  <2> DEFINE f == [s \in UpTo(0) |-> [cursor |-> opens, gaps |-> {}]]
  <2>1. \A s \in UpTo(0) : s = {}
    BY <1>0, FS_EmptySet
  <2>2. f = [s \in UpTo(0) |-> AfterVisits(d, opens, need, f, s)]
    BY <2>1 DEF AfterVisits
  <2> QED BY <2>2
<1>3. ASSUME NEW n \in Nat, n \notin Missing
      PROVE  n + 1 \notin Missing
  <2>1. PICK f : Partly(n, f)
    BY <1>3
  <2> DEFINE g == [s \in UpTo(n + 1) |-> AfterVisits(d, opens, need, f, s)]
  <2>2. ASSUME NEW s \in UpTo(n)
        PROVE  s \in UpTo(n + 1) /\ g[s] = f[s]
    <3>1. s \in UpTo(n + 1)
      BY <1>0
    <3> QED BY <2>1, <3>1
  <2>3. ASSUME NEW s \in UpTo(n + 1)
        PROVE  AfterVisits(d, opens, need, f, s) = AfterVisits(d, opens, need, g, s)
    <3>1. CASE s = {}
      BY <3>1 DEF AfterVisits
    <3>2. CASE s # {}
      <4>1. s \ {Last(d, s)} \in UpTo(n)
        BY <1>0, <1>1, <3>2
      <4> QED BY <2>2, <3>2, <4>1 DEF AfterVisits
    <3> QED BY <3>1, <3>2
  <2>4. Partly(n + 1, g)
    BY <2>3
  <2> QED BY <2>4
<1>4. Missing = {}
  <2>0. Missing \in SUBSET Nat
    OBVIOUS
  <2> HIDE DEF Missing
  <2> SUFFICES ASSUME Missing # {} PROVE FALSE
    OBVIOUS
  <2>1. PICK n \in Missing : \A m \in Missing : n <= m
    BY <2>0, SmallestOf
  <2>2. n \in Nat /\ n # 0
    BY <1>2, <2>0
  <2>3. n - 1 \in Nat /\ n - 1 \notin Missing
    BY <2>1, <2>2
  <2>4. (n - 1) + 1 \notin Missing
    BY <1>3, <2>3
  <2> QED BY <2>2, <2>4
<1>5. UpTo(Cardinality(S)) = SUBSET S /\ Cardinality(S) \in Nat
  BY <1>0, FS_Subset DEF Sweepable
<1>6. \E f : Swept(d, opens, need, S, f)
  <2>1. PICK f : Partly(Cardinality(S), f)
    BY <1>4, <1>5
  <2>2. f = [s \in SUBSET S |-> AfterVisits(d, opens, need, f, s)]
    BY <1>5, <2>1
  <2> QED BY <2>2 DEF Swept
<1> QED BY <1>6 DEF SweepOf

(* The recursion, turn by turn. *)
Unfolds(d, opens, need, S, f) ==
    /\ f[{}] = [cursor |-> opens, gaps |-> {}]
    /\ \A s \in SUBSET S : s # {} =>
           /\ Last(d, s) \in s /\ \A c \in s : zset[d][c] <= zset[d][Last(d, s)]
           /\ f[s] = Visit(d, need, Last(d, s), f[s \ {Last(d, s)}])

LEMMA SweepUnfolds ==
  ASSUME NEW d, NEW opens, NEW need, NEW S, Sweepable(d, S)
  PROVE  Unfolds(d, opens, need, S, SweepOf(d, opens, need, S))
<1> SUFFICES ASSUME NEW f, Swept(d, opens, need, S, f)
             PROVE  Unfolds(d, opens, need, S, f)
  BY SweepExists
<1>1. f = [s \in SUBSET S |-> AfterVisits(d, opens, need, f, s)]
  BY DEF Swept
<1>2. f[{}] = [cursor |-> opens, gaps |-> {}]
  BY <1>1 DEF AfterVisits
<1>3. ASSUME NEW s \in SUBSET S, s # {}
      PROVE  /\ Last(d, s) \in s /\ \A c \in s : zset[d][c] <= zset[d][Last(d, s)]
             /\ f[s] = Visit(d, need, Last(d, s), f[s \ {Last(d, s)}])
  <2>1. Sweepable(d, s)
    BY FS_Subset DEF Sweepable
  <2>2. f[s] = AfterVisits(d, opens, need, f, s)
    BY <1>1
  <2> QED BY <1>3, <2>1, <2>2, LastIsLast DEF AfterVisits
<1> QED BY <1>2, <1>3 DEF Unfolds

(* A time that does not meet a booking. *)
Misses(d, b, from, until) == endTimes[b] <= from \/ until <= zset[d][b]

(* After the bookings of s: the cursor is behind all of them; each gap     *)
(* fits, meets none of them and ends where one starts; and each free time  *)
(* is in a gap or still ahead.                                             *)
SweepInv(d, opens, need, s, sweep) ==
    /\ sweep.cursor \in Int /\ opens <= sweep.cursor
    /\ \A b \in s : endTimes[b] <= sweep.cursor
    /\ \A g \in sweep.gaps :
           /\ g \in [start: Int, end: Int]
           /\ opens <= g.start /\ need <= g.end - g.start
           /\ \E b \in s : g.end <= zset[d][b]
           /\ \A b \in s : Misses(d, b, g.start, g.end)
    /\ \A t \in Int : opens <= t /\ (\A b \in s : Misses(d, b, t, t + need)) =>
           \/ sweep.cursor <= t
           \/ \E g \in sweep.gaps : g.start <= t /\ t + need <= g.end

LEMMA VisitKeepsInv ==
  ASSUME NEW d, NEW opens \in Int, NEW need \in Int, NEW s, NEW x \in s, NEW sweep,
         \A b \in s : zset[d][b] \in Int /\ endTimes[b] \in Int /\ zset[d][b] <= zset[d][x],
         SweepInv(d, opens, need, s \ {x}, sweep)
  PROVE  SweepInv(d, opens, need, s, Visit(d, need, x, sweep))
<1>1. /\ sweep.cursor \in Int /\ opens <= sweep.cursor
      /\ \A b \in s \ {x} : endTimes[b] <= sweep.cursor
      /\ \A g \in sweep.gaps :
           /\ g \in [start: Int, end: Int] /\ g.start \in Int /\ g.end \in Int
           /\ opens <= g.start /\ need <= g.end - g.start
           /\ \E b \in s \ {x} : g.end <= zset[d][b]
           /\ \A b \in s \ {x} : Misses(d, b, g.start, g.end)
  BY DEF SweepInv
<1>2. \A g \in sweep.gaps :
           /\ g.end <= zset[d][x]
           /\ \A b \in s : Misses(d, b, g.start, g.end)
  BY <1>1 DEF Misses
<1>3. ASSUME NEW t \in Int, opens <= t, \A b \in s : Misses(d, b, t, t + need)
      PROVE  \/ sweep.cursor <= t
             \/ \E g \in sweep.gaps : g.start <= t /\ t + need <= g.end
  BY <1>3 DEF SweepInv
<1>4. CASE ~(endTimes[x] > sweep.cursor)
  <2>1. Visit(d, need, x, sweep) = sweep
    BY <1>4 DEF Visit
  <2>2. \A b \in s : endTimes[b] <= sweep.cursor
    BY <1>1, <1>4
  <2> QED BY <1>1, <1>2, <1>3, <2>1, <2>2 DEF SweepInv
<1>5. CASE endTimes[x] > sweep.cursor
  <2> DEFINE new == Visit(d, need, x, sweep)
             gap == Gap(sweep.cursor, zset[d][x])
  <2>1. new.cursor = endTimes[x] /\ new.gaps = sweep.gaps \cup GapIfFits(sweep.cursor, zset[d][x], need)
    BY <1>5 DEF Visit
  <2> HIDE DEF new
  <2>2. gap \in [start: Int, end: Int] /\ gap.start = sweep.cursor /\ gap.end = zset[d][x]
    BY <1>1 DEF Gap
  <2>3. \A b \in s : endTimes[b] <= new.cursor
    BY <1>1, <1>5, <2>1
  <2>4. ASSUME NEW g \in new.gaps
        PROVE  /\ g \in [start: Int, end: Int]
               /\ opens <= g.start /\ need <= g.end - g.start
               /\ \E b \in s : g.end <= zset[d][b]
               /\ \A b \in s : Misses(d, b, g.start, g.end)
    <3>1. CASE g \in sweep.gaps
      BY <1>1, <1>2, <3>1
    <3>2. CASE g = gap /\ zset[d][x] - sweep.cursor >= need
      BY <1>1, <2>2, <3>2 DEF Misses
    <3> QED BY <2>1, <3>1, <3>2 DEF GapIfFits
  <2>5. ASSUME NEW t \in Int, opens <= t, \A b \in s : Misses(d, b, t, t + need)
        PROVE  \/ new.cursor <= t
               \/ \E g \in new.gaps : g.start <= t /\ t + need <= g.end
    <3>1. CASE \E g \in sweep.gaps : g.start <= t /\ t + need <= g.end
      BY <2>1, <3>1
    <3>2. CASE sweep.cursor <= t /\ endTimes[x] <= t
      BY <2>1, <3>2
    <3>3. CASE sweep.cursor <= t /\ t + need <= zset[d][x]
      <4>1. zset[d][x] - sweep.cursor >= need
        BY <1>1, <3>3
      <4>2. gap \in new.gaps
        BY <2>1, <4>1 DEF GapIfFits
      <4> QED BY <2>2, <3>3, <4>2
    <3> QED BY <1>3, <2>5, <3>1, <3>2, <3>3 DEF Misses
  <2>6. new.cursor \in Int /\ opens <= new.cursor
    BY <1>1, <1>5, <2>1
  <2> QED BY <2>3, <2>4, <2>5, <2>6 DEF SweepInv, new
<1> QED BY <1>4, <1>5

LEMMA SweepKeepsInv ==
  ASSUME NEW d, NEW opens \in Int, NEW need \in Int, NEW S, Sweepable(d, S)
  PROVE  SweepInv(d, opens, need, S, SweepOf(d, opens, need, S)[S])
<1> SUFFICES ASSUME NEW f, Unfolds(d, opens, need, S, f)
             PROVE  SweepInv(d, opens, need, S, f[S])
  BY SweepUnfolds
<1> DEFINE Failing == {s \in SUBSET S : ~SweepInv(d, opens, need, s, f[s])}
<1>1. /\ f[{}] = [cursor |-> opens, gaps |-> {}]
      /\ \A s \in SUBSET S : s # {} =>
             /\ Last(d, s) \in s /\ \A c \in s : zset[d][c] <= zset[d][Last(d, s)]
             /\ f[s] = Visit(d, need, Last(d, s), f[s \ {Last(d, s)}])
  BY DEF Unfolds
<1>2. SweepInv(d, opens, need, {}, f[{}])
  BY <1>1 DEF SweepInv
<1>3. ASSUME NEW s \in SUBSET S, s # {}, \A x \in s : s \ {x} \notin Failing
      PROVE  s \notin Failing
  <2>1. Last(d, s) \in s
    BY <1>1, <1>3
  <2>2. SweepInv(d, opens, need, s \ {Last(d, s)}, f[s \ {Last(d, s)}])
    BY <1>3, <2>1
  <2>3. SweepInv(d, opens, need, s, Visit(d, need, Last(d, s), f[s \ {Last(d, s)}]))
    BY <1>1, <1>3, <2>1, <2>2, VisitKeepsInv DEF Sweepable
  <2> QED BY <1>1, <1>3, <2>3
<1>4. Failing = {}
  <2>1. {} \notin Failing
    BY <1>2
  <2>2. Failing \in SUBSET SUBSET S
    OBVIOUS
  <2> HIDE DEF Failing
  <2> QED BY <1>3, <2>1, <2>2, MinimalSet DEF Sweepable
<1> QED BY <1>4

(* What the scripts return: exactly the free time.                         *)
LEMMA GapsOfSweep ==
  ASSUME StoreInv, NEW d \in Days, NEW opens \in Int, NEW closes \in Int, NEW need \in Nat \ {0}, NEW skip
  PROVE  /\ \A g \in AvailableSlots(d, opens, closes, need, skip) :
                /\ g \in [start: Int, end: Int]
                /\ opens <= g.start /\ g.end <= closes
                /\ need <= g.end - g.start
                /\ Free(d, skip, g.start, g.end)
         /\ \A t \in Int : opens <= t /\ t + need <= closes /\ Free(d, skip, t, t + need) =>
                \E g \in AvailableSlots(d, opens, closes, need, skip) : g.start <= t /\ t + need <= g.end
<1> DEFINE S == StartsBy(d, closes) \ skip
           end == SweepOf(d, opens, need, S)[S]
           gap == Gap(end.cursor, closes)
<1>1. \A b \in HeldIds(d) : zset[d][b] \in Int /\ endTimes[b] \in Int
  BY NoneAssumption DEF StoreInv, StoreType, HeldHasEnd, HeldIds, Held
<1>2. Sweepable(d, S)
  <2>1. S \in SUBSET Ids
    BY DEF StartsBy, HeldIds
  <2> QED BY <1>1, <2>1, IdsAssumption, FS_Subset DEF Sweepable, StartsBy
<1>3. SweepInv(d, opens, need, S, end)
  BY <1>2, SweepKeepsInv
<1>4. AvailableSlots(d, opens, closes, need, skip) = end.gaps \cup GapIfFits(end.cursor, closes, need)
  BY SweepIsFold
<1>5. \A b \in HeldIds(d) \ skip : b \in S \/ closes < zset[d][b]
  BY <1>1 DEF StartsBy
<1>6. \A b \in S : b \in HeldIds(d) \ skip /\ zset[d][b] <= closes
  BY DEF StartsBy
<1>7. ASSUME NEW from \in Int, NEW until \in Int, from < until
      PROVE  Free(d, skip, from, until) <=> \A b \in HeldIds(d) \ skip : Misses(d, b, from, until)
  BY <1>1, <1>7 DEF Free, Overlap, Gap, Misses
<1> HIDE DEF S, end
<1>8. gap \in [start: Int, end: Int] /\ gap.start = end.cursor /\ gap.end = closes
  BY <1>3 DEF Gap, SweepInv
<1>9. ASSUME NEW g \in AvailableSlots(d, opens, closes, need, skip)
      PROVE  /\ g \in [start: Int, end: Int]
             /\ opens <= g.start /\ g.end <= closes
             /\ need <= g.end - g.start
             /\ Free(d, skip, g.start, g.end)
  <2>1. CASE g \in end.gaps
    <3>1. /\ g \in [start: Int, end: Int] /\ g.start \in Int /\ g.end \in Int
          /\ opens <= g.start /\ need <= g.end - g.start
          /\ \E b \in S : g.end <= zset[d][b]
          /\ \A b \in S : Misses(d, b, g.start, g.end)
      BY <1>3, <2>1 DEF SweepInv
    <3>2. g.end <= closes
      BY <1>1, <1>6, <3>1
    <3>3. \A b \in HeldIds(d) \ skip : Misses(d, b, g.start, g.end)
      BY <1>1, <1>5, <3>1, <3>2 DEF Misses
    <3>4. g.start < g.end
      BY <3>1
    <3> QED BY <1>7, <3>1, <3>2, <3>3, <3>4
  <2>2. CASE g = gap /\ closes - end.cursor >= need
    <3>1. end.cursor \in Int /\ opens <= end.cursor /\ \A b \in S : endTimes[b] <= end.cursor
      BY <1>3 DEF SweepInv
    <3>2. \A b \in HeldIds(d) \ skip : Misses(d, b, end.cursor, closes)
      BY <1>1, <1>5, <3>1 DEF Misses
    <3>3. end.cursor < closes
      BY <2>2, <3>1
    <3>4. Free(d, skip, end.cursor, closes)
      BY <1>7, <3>1, <3>2, <3>3
    <3> QED BY <1>8, <2>2, <3>1, <3>4
  <2> HIDE DEF gap
  <2> QED BY <1>4, <2>1, <2>2 DEF GapIfFits, gap
<1>10. ASSUME NEW t \in Int, opens <= t, t + need <= closes, Free(d, skip, t, t + need)
       PROVE  \E g \in AvailableSlots(d, opens, closes, need, skip) : g.start <= t /\ t + need <= g.end
  <2>1. \A b \in S : Misses(d, b, t, t + need)
    BY <1>6, <1>7, <1>10
  <2>2. CASE \E g \in end.gaps : g.start <= t /\ t + need <= g.end
    BY <1>4, <2>2
  <2>3. CASE end.cursor <= t
    <3>1. end.cursor \in Int
      BY <1>3 DEF SweepInv
    <3>2. closes - end.cursor >= need
      BY <1>10, <2>3, <3>1
    <3>3. gap \in AvailableSlots(d, opens, closes, need, skip)
      BY <1>4, <3>2 DEF GapIfFits
    <3> QED BY <1>8, <1>10, <2>3, <3>3
  <2> QED BY <1>3, <1>10, <2>1, <2>2, <2>3 DEF SweepInv
<1> QED BY <1>9, <1>10

LEMMA SweepIsExact == StoreInv => GapsAreFree /\ GapsAreComplete /\ OffersAreGranted
<1> SUFFICES ASSUME StoreInv PROVE GapsAreFree /\ GapsAreComplete /\ OffersAreGranted
  OBVIOUS
<1>1. \A o \in Openings, need \in Needs :
         o.day \in Days /\ o.start \in Int /\ o.end \in Int /\ need \in Nat \ {0}
  BY OpeningsAssumption
<1>2. GapsAreFree
  <2> SUFFICES ASSUME NEW o \in Openings, NEW need \in Needs, NEW skip \in Exclusions,
                      NEW g \in AvailableSlots(o.day, o.start, o.end, need, skip)
               PROVE  /\ o.start <= g.start /\ g.end <= o.end
                      /\ g.end - g.start >= need
                      /\ Free(o.day, skip, g.start, g.end)
    BY DEF GapsAreFree
  <2>1. /\ g \in [start: Int, end: Int] /\ o.start <= g.start /\ g.end <= o.end
        /\ need <= g.end - g.start
        /\ Free(o.day, skip, g.start, g.end)
    BY <1>1, GapsOfSweep
  <2> QED BY <1>1, <2>1
<1>3. GapsAreComplete
  <2> SUFFICES ASSUME NEW o \in Openings, NEW need \in Needs, NEW skip \in Exclusions,
                      NEW t \in o.start..(o.end - need), Free(o.day, skip, t, t + need)
               PROVE  \E g \in AvailableSlots(o.day, o.start, o.end, need, skip) :
                          g.start <= t /\ t + need <= g.end
    BY DEF GapsAreComplete
  <2>1. t \in Int /\ o.start <= t /\ t + need <= o.end
    BY <1>1
  <2> QED BY <1>1, <2>1, GapsOfSweep
<1>4. OffersAreGranted
  <2> SUFFICES ASSUME NEW o \in Openings, NEW need \in Needs,
                      NEW g \in AvailableSlots(o.day, o.start, o.end, need, {}),
                      NEW t \in g.start..(g.end - need - 1),
                      NEW b \in StartsBy(o.day, t + need), EndsAfter(b, t)
               PROVE  FALSE
    BY DEF OffersAreGranted, AcquireConflict
  <2>1. g.start \in Int /\ g.end \in Int /\ Free(o.day, {}, g.start, g.end)
    BY <1>1, GapsOfSweep
  <2>2. b \in HeldIds(o.day) /\ zset[o.day][b] <= t + need /\ endTimes[b] > t
    BY DEF StartsBy, EndsAfter
  <2>3. zset[o.day][b] \in Int /\ endTimes[b] \in Int
    BY <1>1, <2>2, NoneAssumption DEF StoreInv, StoreType, HeldHasEnd, HeldIds, Held
  <2>4. ~(g.start < endTimes[b] /\ zset[o.day][b] < g.end)
    BY <2>1, <2>2 DEF Free, Overlap, Gap
  <2> QED BY <1>1, <2>1, <2>2, <2>3, <2>4
<1> QED BY <1>2, <1>3, <1>4

(***************************************************************************)
(* The search                                                              *)
(***************************************************************************)

LEMMA SearchStep == [SearchNext]_searchVars => [Next]_vars
  BY DEF SearchNext, searchVars, vars, LockStep, SetSchedule, SetOverride, DeleteOverride,
         GetBusinessConfig, ReadHours, ReadGaps, Answer

(* To the lock service, the searches and the owner of the calendar are     *)
(* invisible: their steps leave its locks and its callers alone.           *)
THEOREM SearchesOnlyRead == SearchSpec => Spec
<1>1. SearchInit => Init
  BY DEF SearchInit
<1> QED BY <1>1, SearchStep, PTL DEF SearchSpec, Spec

LEMMA SearchKeepsIInv ==
  ASSUME Discipline
  PROVE  SearchSpec => []IInv
  BY InvHolds, SearchesOnlyRead, PTL

(* What the sweep returns lies in the opening hours, fits the service and  *)
(* meets no booking, whatever the requests beside it do.                   *)
THEOREM SweepFindsFree ==
  ASSUME Discipline
  PROVE  SearchSpec => []GapsAreFree
<1>1. IInv => GapsAreFree
  BY SweepIsExact DEF IInv
<1> QED BY <1>1, SearchKeepsIInv, PTL

(* And it returns every such interval.                                     *)
THEOREM SweepFindsAll ==
  ASSUME Discipline
  PROVE  SearchSpec => []GapsAreComplete
<1>1. IInv => GapsAreComplete
  BY SweepIsExact DEF IInv
<1> QED BY <1>1, SearchKeepsIInv, PTL

(* The sweep of get-available-slots.lua and the scan of                    *)
(* atomic-booking-lock.lua agree: what one offers, the other grants, for   *)
(* as long as nothing has been booked in between.                          *)
THEOREM OffersGranted ==
  ASSUME Discipline
  PROVE  SearchSpec => []OffersAreGranted
<1>1. IInv => OffersAreGranted
  BY SweepIsExact DEF IInv
<1> QED BY <1>1, SearchKeepsIInv, PTL
-----------------------------------------------------------------------------
(* The search *)

(* Where the loop of a search begins. *)
FirstDate(q) == Later(asked[q].from, config.from)

(* A search under way has a request and a configuration, and its date is   *)
(* in their range while it reads the bookings of that date.                *)
Underway(q) ==
    at[q] # "idle" =>
        /\ config # None
        /\ asked[q] \in [service: Services, from: Days, until: Days]
        /\ at[q] \in {"hours", "gaps"} => FirstDate(q) <= date[q]
        /\ at[q] = "gaps" => date[q] <= LastDate(q) /\ hours[q] \in OpeningTimes

SearchInv == SearchTypeOK /\ \A q \in Searchers : Underway(q)

(* The dates that a search has been through. *)
Passed(q, d) ==
    /\ FirstDate(q) <= d /\ d <= LastDate(q)
    /\ at[q] = "done" \/ d < date[q]

ExactOn(q, d) ==
    \A time \in 0..(DayLength - 1) :
        WithinDate(time, asked[q].service) =>
            (Offered(q, d, time) <=> CanBeBooked(asked[q].service, d, time))

(* Until something changes, the slots found are those of the dates passed, *)
(* all of them, and the hours read are still those of the date.            *)
Exact(q) ==
    at[q] # "idle" /\ found[q] # None =>
        /\ \A o \in found[q] : Passed(q, o.date)
        /\ \A d \in Days : Passed(q, d) => ExactOn(q, d)
        /\ at[q] = "gaps" => hours[q] = Hours(date[q], schedule, override[date[q]])

ExactInv == \A q \in Searchers : Exact(q)

LEMMA HoursType ==
  ASSUME NEW d \in Days, NEW s \in Schedules \cup {None}, NEW o \in Overrides \cup {None}
  PROVE  Hours(d, s, o) \in OpeningTimes \cup {None}
  BY CalendarAssumption DEF Hours

(* The dates that a search goes through are dates. *)
LEMMA RangeTypes ==
  ASSUME SearchTypeOK, NEW q \in Searchers, Underway(q), at[q] # "idle"
  PROVE  /\ asked[q].service \in Services /\ asked[q].from \in Days /\ asked[q].until \in Days
         /\ config \in Schedules /\ FirstDate(q) \in Int /\ LastDate(q) \in Int
         /\ \A d \in Int : FirstDate(q) <= d /\ d <= LastDate(q) => d \in Days
<1>1. /\ asked[q].service \in Services /\ asked[q].from \in Days /\ asked[q].until \in Days
      /\ config \in Schedules
  BY DEF Underway, SearchTypeOK
<1>2. /\ asked[q].from \in Int /\ asked[q].until \in Int
      /\ config.from \in Int /\ config.until \in Int \cup {None}
  BY <1>1, DaysAssumption, CalendarAssumption
<1>3. FirstDate(q) \in Int /\ asked[q].from <= FirstDate(q)
  BY <1>2 DEF FirstDate, Later
<1>4. LastDate(q) \in Int /\ LastDate(q) <= asked[q].until
  BY <1>2 DEF LastDate, Earlier
<1>5. ASSUME NEW d \in Int, FirstDate(q) <= d, d <= LastDate(q)
      PROVE  d \in Days
  <2>1. d \in asked[q].from..asked[q].until
    BY <1>2, <1>3, <1>4, <1>5
  <2> QED BY <1>1, <2>1, DaysAssumption
<1> QED BY <1>1, <1>3, <1>4, <1>5

LEMMA EpochType ==
  ASSUME NEW d \in Days, NEW time \in Int
  PROVE  Epoch(d, time) \in Int
<1>1. d * DayLength \in Int
  BY DaysAssumption, ServicesAssumption
<1> QED BY <1>1 DEF Epoch

LEMMA TimeOfDayType ==
  ASSUME NEW instant \in Int
  PROVE  TimeOfDay(instant) \in 0..(DayLength - 1)
  BY ServicesAssumption DEF TimeOfDay

(* GapsOfSweep at the times and the need of a service on a date.           *)
LEMMA GapsOfDate ==
  ASSUME StoreInv, NEW d \in Days, NEW h \in OpeningTimes, NEW service \in Services
  PROVE  LET gaps == AvailableSlots(d, Epoch(d, h.start), Epoch(d, h.end), TimeNeeded(service), {})
         IN  /\ \A g \in gaps :
                    /\ g.start \in Int /\ g.end \in Int
                    /\ Epoch(d, h.start) <= g.start /\ g.end <= Epoch(d, h.end)
                    /\ TimeNeeded(service) <= g.end - g.start
                    /\ Free(d, {}, g.start, g.end)
             /\ \A t \in Int :
                    /\ Epoch(d, h.start) <= t /\ t + TimeNeeded(service) <= Epoch(d, h.end)
                    /\ Free(d, {}, t, t + TimeNeeded(service))
                    => \E g \in gaps : g.start <= t /\ t + TimeNeeded(service) <= g.end
<1>1. Epoch(d, h.start) \in Int /\ Epoch(d, h.end) \in Int
  BY EpochType DEF OpeningTimes
<1>2. TimeNeeded(service) \in Nat \ {0}
  BY ServicesAssumption DEF TimeNeeded
<1> QED BY <1>1, <1>2, GapsOfSweep

LEMMA BookableTypes ==
  ASSUME SearchTypeOK, StoreInv, NEW q \in Searchers, Underway(q), at[q] = "gaps"
  PROVE  /\ Bookable(q) \subseteq [date: Days, start: 0..DayLength, end: 0..DayLength]
         /\ date[q] \in Days
<1>1. date[q] \in Days /\ hours[q] \in OpeningTimes /\ asked[q].service \in Services
  BY RangeTypes DEF Underway, SearchTypeOK
<1>2. ASSUME NEW g \in GapsFor(q)
      PROVE  /\ TimeOfDay(g.start + asked[q].service.before) \in 0..DayLength
             /\ TimeOfDay(g.end - asked[q].service.after) \in 0..DayLength
  <2>1. g.start \in Int /\ g.end \in Int
    BY <1>1, GapsOfDate DEF GapsFor
  <2>2. /\ g.start + asked[q].service.before \in Int /\ g.end - asked[q].service.after \in Int
        /\ DayLength \in Nat
    BY <1>1, <2>1, ServicesAssumption
  <2> QED BY <2>2, TimeOfDayType
<1> QED BY <1>1, <1>2 DEF Bookable

(* A search that a step leaves alone is still under way. *)
LEMMA UnderwayStays ==
  ASSUME NEW q \in Searchers, Underway(q),
         at'[q] = at[q], asked'[q] = asked[q], date'[q] = date[q], hours'[q] = hours[q],
         config' = config \/ at[q] = "idle"
  PROVE  Underway(q)'
  BY DEF Underway, FirstDate, LastDate

LEMMA InitSearchInv == SearchInit => SearchInv
<1> SUFFICES ASSUME SearchInit PROVE SearchInv
  OBVIOUS
<1>1. TypeOK
  BY InitIInv DEF SearchInit, IInv, TypeInv
<1> QED BY <1>1, DaysAssumption DEF SearchInit, SearchInv, SearchTypeOK, Underway

LEMMA StartKeepsInv ==
  ASSUME SearchInv, TypeOK', NEW q \in Searchers, NEW service \in Services,
         NEW from \in Days, NEW until \in Days, GetBusinessConfig(q, service, from, until)
  PROVE  SearchInv'
<1>1. FoundConfig \in Schedules /\ FoundConfig # None
  BY DEF SearchInv, SearchTypeOK, FoundConfig, GetBusinessConfig
<1>2. Later(from, FoundConfig.from) \in Int
  BY <1>1, DaysAssumption, CalendarAssumption DEF Later
<1>3. /\ config' = FoundConfig
      /\ asked'[q] = [service |-> service, from |-> from, until |-> until]
      /\ date'[q] = Later(from, FoundConfig.from) /\ at'[q] = "hours" /\ found'[q] = {}
      /\ UNCHANGED <<schedule, override, hours>>
      /\ \A r \in Searchers \ {q} : /\ at'[r] = at[r] /\ asked'[r] = asked[r]
                                    /\ date'[r] = date[r] /\ found'[r] = found[r]
  BY DEF GetBusinessConfig, SearchInv, SearchTypeOK, SearchInit, calendar
<1>4. SearchTypeOK'
  BY <1>1, <1>2, <1>3 DEF GetBusinessConfig, SearchInv, SearchTypeOK
<1>5. Underway(q)'
  BY <1>1, <1>2, <1>3 DEF Underway, FirstDate
<1>6. ASSUME NEW r \in Searchers \ {q}
      PROVE  Underway(r)'
  <2>1. config' = config \/ at[r] = "idle"
    BY <1>3 DEF SearchInv, Underway, FoundConfig
  <2> QED BY <1>3, <2>1, UnderwayStays DEF SearchInv
<1> QED BY <1>4, <1>5, <1>6 DEF SearchInv

LEMMA ReadHoursKeepsInv ==
  ASSUME SearchInv, TypeOK', NEW q \in Searchers, ReadHours(q)
  PROVE  SearchInv'
<1> DEFINE h == Hours(date[q], schedule, override[date[q]])
<1>1. at[q] = "hours" /\ date[q] <= LastDate(q) /\ FirstDate(q) <= date[q] /\ date[q] \in Int
  BY DEF ReadHours, SearchInv, SearchTypeOK, Underway
<1>2. date[q] \in Days
  BY <1>1, RangeTypes DEF SearchInv
<1>3. h \in OpeningTimes \cup {None}
  BY <1>2, HoursType DEF SearchInv, SearchTypeOK
<1> HIDE DEF h
<1>4. /\ hours'[q] = h
      /\ h = None => date'[q] = date[q] + 1 /\ at'[q] = "hours"
      /\ h # None => date'[q] = date[q] /\ at'[q] = "gaps"
      /\ UNCHANGED <<schedule, override, config, asked, found>>
      /\ \A r \in Searchers \ {q} : at'[r] = at[r] /\ date'[r] = date[r] /\ hours'[r] = hours[r]
  BY <1>1 DEF ReadHours, SearchInv, SearchTypeOK, calendar, h
<1>5. SearchTypeOK'
  BY <1>1, <1>3, <1>4 DEF ReadHours, SearchInv, SearchTypeOK, h
<1>6. FirstDate(q)' = FirstDate(q) /\ LastDate(q)' = LastDate(q) /\ FirstDate(q) \in Int
  BY <1>1, <1>4, RangeTypes DEF FirstDate, LastDate, SearchInv
<1>7. Underway(q)'
  BY <1>1, <1>3, <1>4, <1>6 DEF SearchInv, Underway
<1>8. \A r \in Searchers \ {q} : Underway(r)'
  BY <1>4, UnderwayStays DEF SearchInv
<1> QED BY <1>5, <1>7, <1>8 DEF SearchInv

LEMMA ReadGapsKeepsInv ==
  ASSUME SearchInv, StoreInv, TypeOK', NEW q \in Searchers, ReadGaps(q)
  PROVE  SearchInv'
<1>1. at[q] = "gaps" /\ FirstDate(q) <= date[q] /\ date[q] \in Int
  BY DEF ReadGaps, SearchInv, SearchTypeOK, Underway
<1>2. Bookable(q) \subseteq [date: Days, start: 0..DayLength, end: 0..DayLength]
  BY <1>1, BookableTypes DEF SearchInv
<1>3. /\ found'[q] = IF found[q] = None THEN None ELSE found[q] \cup Bookable(q)
      /\ date'[q] = date[q] + 1 /\ at'[q] = "hours" /\ hours'[q] = None
      /\ UNCHANGED <<schedule, override, config, asked>>
      /\ \A r \in Searchers \ {q} : /\ at'[r] = at[r] /\ date'[r] = date[r]
                                    /\ hours'[r] = hours[r] /\ found'[r] = found[r]
  BY DEF ReadGaps, SearchInv, SearchTypeOK, calendar
<1>4. SearchTypeOK'
  <2> DEFINE Found == [date: Days, start: 0..DayLength, end: 0..DayLength]
  <2>1. found' \in [Searchers -> {None} \cup SUBSET Found]
    <3>1. Bookable(q) \subseteq Found
      BY <1>2
    <3>2. found \in [Searchers -> {None} \cup SUBSET Found]
      BY DEF SearchInv, SearchTypeOK
    <3> HIDE DEF Found
    <3> QED BY <3>1, <3>2 DEF ReadGaps
  <2>2. /\ at' \in [Searchers -> {"idle", "hours", "gaps", "done"}]
        /\ date' \in [Searchers -> Int]
        /\ hours' \in [Searchers -> OpeningTimes \cup {None}]
    BY <1>1 DEF ReadGaps, SearchInv, SearchTypeOK
  <2> QED BY <1>3, <2>1, <2>2 DEF SearchInv, SearchTypeOK
<1>5. FirstDate(q)' = FirstDate(q) /\ FirstDate(q) \in Int
  BY <1>1, <1>3, RangeTypes DEF FirstDate, SearchInv
<1>6. Underway(q)'
  BY <1>1, <1>3, <1>5 DEF SearchInv, Underway
<1>7. \A r \in Searchers \ {q} : Underway(r)'
  BY <1>3, UnderwayStays DEF SearchInv
<1> QED BY <1>4, <1>6, <1>7 DEF SearchInv

LEMMA AnswerKeepsInv ==
  ASSUME SearchInv, TypeOK', NEW q \in Searchers, Answer(q)
  PROVE  SearchInv'
<1>1. /\ at[q] = "hours" /\ at'[q] = "done"
      /\ UNCHANGED <<schedule, override, config, asked, hours, found>>
      /\ \A r \in Searchers \ {q} : at'[r] = at[r] /\ date'[r] = date[r]
  BY DEF Answer, SearchInv, SearchTypeOK, calendar
<1>2. SearchTypeOK'
  BY <1>1, DaysAssumption DEF Answer, SearchInv, SearchTypeOK
<1>3. Underway(q)'
  BY <1>1 DEF SearchInv, Underway
<1>4. \A r \in Searchers \ {q} : Underway(r)'
  BY <1>1, UnderwayStays DEF SearchInv
<1> QED BY <1>2, <1>3, <1>4 DEF SearchInv

LEMMA CalendarKeepsInv ==
  ASSUME SearchInv, TypeOK', UNCHANGED <<config, searches>>,
         schedule' \in Schedules \cup {None}, override' \in [Days -> Overrides \cup {None}],
         found' = found \/ found' = Disturbed
  PROVE  SearchInv'
<1>1. SearchTypeOK'
  BY DEF SearchInv, SearchTypeOK, Disturbed, searches
<1>2. \A q \in Searchers : Underway(q)'
  BY UnderwayStays DEF SearchInv, searches
<1> QED BY <1>1, <1>2 DEF SearchInv

LEMMA StepSearchInv ==
  ASSUME SearchInv, StoreInv, TypeOK', [SearchNext]_searchVars
  PROVE  SearchInv'
<1>0. schedule \in Schedules \cup {None} /\ override \in [Days -> Overrides \cup {None}]
  BY DEF SearchInv, SearchTypeOK
<1>1. CASE LockStep
  BY <1>0, <1>1, CalendarKeepsInv DEF LockStep, calendar
<1>2. CASE \E s \in Schedules \cup {None} : SetSchedule(s)
  BY <1>0, <1>2, CalendarKeepsInv DEF SetSchedule
<1>3. ASSUME NEW o \in Overrides, SetOverride(o) PROVE SearchInv'
  <2>1. o.date \in Days
    BY CalendarAssumption
  <2>2. override' \in [Days -> Overrides \cup {None}]
    BY <1>0, <1>3, <2>1 DEF SetOverride
  <2> QED BY <1>0, <1>3, <2>2, CalendarKeepsInv DEF SetOverride
<1>4. ASSUME NEW d \in Days, DeleteOverride(d) PROVE SearchInv'
  <2>1. override' \in [Days -> Overrides \cup {None}]
    BY <1>0, <1>4 DEF DeleteOverride
  <2> QED BY <1>0, <1>4, <2>1, CalendarKeepsInv DEF DeleteOverride
<1>5. CASE UNCHANGED searchVars
  BY <1>0, <1>5, CalendarKeepsInv DEF searchVars, calendar
<1> QED BY <1>1, <1>2, <1>3, <1>4, <1>5, StartKeepsInv, ReadHoursKeepsInv, ReadGapsKeepsInv,
           AnswerKeepsInv DEF SearchNext

LEMMA SearchInvHolds ==
  ASSUME Discipline
  PROVE  SearchSpec => []SearchInv
<1>1. IInv => StoreInv /\ TypeOK
  BY DEF IInv, TypeInv
<1>2. SearchInv /\ IInv /\ IInv' /\ [SearchNext]_searchVars => SearchInv'
  BY <1>1, StepSearchInv DEF IInv, TypeInv
<1> QED BY <1>2, InitSearchInv, SearchKeepsIInv, PTL DEF SearchSpec

(* The searches and the calendar keep their types: the dates of the slots  *)
(* found are dates, and their times are times of day.                      *)
THEOREM SearchTypes ==
  ASSUME Discipline
  PROVE  SearchSpec => []SearchTypeOK
<1>1. SearchInv => SearchTypeOK
  BY DEF SearchInv
<1> QED BY <1>1, SearchInvHolds, PTL

-----------------------------------------------------------------------------
(* What a search finds *)

(* No service can end at midnight.  Opening hours may end at 24:00, since  *)
(* no request body refuses it; where no buffer follows the service, such a *)
(* slot would be shown as ending at 00:00 (epochToTime).                   *)
EndsBeforeMidnight ==
    \A service \in Services :
        /\ \A s \in Schedules : s.hours.end < DayLength + service.after
        /\ \A o \in Overrides : o.type # "closed" /\ o.hours # None =>
               o.hours.end < DayLength + service.after

LEMMA HoursEndBeforeMidnight ==
  ASSUME EndsBeforeMidnight, NEW d, NEW s \in Schedules \cup {None}, NEW o \in Overrides \cup {None},
         Hours(d, s, o) # None, NEW service \in Services
  PROVE  Hours(d, s, o).end < DayLength + service.after
  BY DEF EndsBeforeMidnight, Hours

(* The time of day of an instant of a date. *)
LEMMA TimeOfDayOf ==
  ASSUME NEW d \in Int, NEW x \in 0..(DayLength - 1)
  PROVE  TimeOfDay(d * DayLength + x) = x
<1>1. DayLength \in Nat \ {0}
  BY ServicesAssumption
<1> QED BY <1>1 DEF TimeOfDay

LEMMA FreeWithin ==
  ASSUME StoreInv, NEW d \in Days, NEW from \in Int, NEW until \in Int, NEW s \in Int, NEW e \in Int,
         Free(d, {}, from, until), from <= s, e <= until
  PROVE  Free(d, {}, s, e)
<1>1. \A b \in HeldIds(d) : zset[d][b] \in Int /\ endTimes[b] \in Int
  BY NoneAssumption DEF StoreInv, StoreType, HeldHasEnd, HeldIds, Held
<1> QED BY <1>1 DEF Free, Overlap, Gap

(* A time is in what the search shows of a gap exactly when the validation *)
(* accepts it and no booking is in the way.                                *)
LEMMA GapsAreBookable ==
  ASSUME StoreInv, NEW d \in Days, NEW h \in OpeningTimes, h # None, NEW service \in Services,
         h.end < DayLength + service.after,
         NEW time \in 0..(DayLength - 1), WithinDate(time, service)
  PROVE  LET gaps == AvailableSlots(d, Epoch(d, h.start), Epoch(d, h.end), TimeNeeded(service), {})
         IN  (\E g \in gaps : /\ TimeOfDay(g.start + service.before) <= time
                              /\ time + service.duration <= TimeOfDay(g.end - service.after))
             <=> /\ ValidBookingTime(d, h, time, service)
                 /\ Free(d, {}, StartWithBuffer(service, Epoch(d, time)),
                         EndWithBuffer(service, Epoch(d, time)))
<1> DEFINE gaps == AvailableSlots(d, Epoch(d, h.start), Epoch(d, h.end), TimeNeeded(service), {})
           m == d * DayLength
           need == service.before + service.duration + service.after
           first == time - service.before
           last == time + service.duration + service.after
           InGap(g) == /\ TimeOfDay(g.start + service.before) <= time
                       /\ time + service.duration <= TimeOfDay(g.end - service.after)
<1>1. /\ DayLength \in Nat \ {0} /\ d \in Int /\ time \in Int /\ m \in Int
      /\ service.duration \in Nat \ {0} /\ service.before \in Nat /\ service.after \in Nat
      /\ h.start \in Nat /\ h.end \in Nat
  BY ServicesAssumption, DaysAssumption DEF OpeningTimes
<1>2. first \in 0..(DayLength - 1) /\ last \in 0..(DayLength - 1) /\ last = first + need /\ need \in Nat
  BY <1>1 DEF WithinDate, EndWithBuffer
<1>3. \A x \in 0..(DayLength - 1) : TimeOfDay(m + x) = x
  BY <1>1, TimeOfDayOf
<1>4. \A x : Epoch(d, x) = m + x
  BY DEF Epoch
<1>5. TimeNeeded(service) = need
  BY DEF TimeNeeded
<1>6. /\ \A g \in gaps : /\ g.start \in Int /\ g.end \in Int
                         /\ m + h.start <= g.start /\ g.end <= m + h.end
                         /\ need <= g.end - g.start
                         /\ Free(d, {}, g.start, g.end)
      /\ \A t \in Int : m + h.start <= t /\ t + need <= m + h.end /\ Free(d, {}, t, t + need)
             => \E g \in gaps : g.start <= t /\ t + need <= g.end
  BY <1>4, <1>5, GapsOfDate
<1> HIDE DEF gaps, m
<1>7. /\ StartWithBuffer(service, Epoch(d, time)) = m + first
      /\ EndWithBuffer(service, Epoch(d, time)) = m + last
  BY <1>1, <1>4 DEF StartWithBuffer, EndWithBuffer
<1>8. ValidBookingTime(d, h, time, service) <=> h.start <= first /\ last <= h.end
  BY <1>1, <1>2, <1>3, <1>7 DEF ValidBookingTime
<1>9. ASSUME NEW g \in gaps
      PROVE  InGap(g) <=> g.start <= m + first /\ m + last <= g.end
  <2> DEFINE x == g.start + service.before - m
             y == g.end - service.after - m
  <2>1. x \in Int /\ y \in Int /\ 0 <= x /\ x + service.duration <= y /\ y < DayLength
    BY <1>1, <1>6
  <2>2. x \in 0..(DayLength - 1) /\ y \in 0..(DayLength - 1)
    BY <1>1, <2>1
  <2>3. g.start + service.before = m + x /\ g.end - service.after = m + y
    BY <1>1, <1>6
  <2>4. TimeOfDay(g.start + service.before) = x /\ TimeOfDay(g.end - service.after) = y
    BY <1>3, <2>2, <2>3
  <2> QED BY <1>1, <1>6, <2>4
<1> HIDE DEF InGap
<1>10. ASSUME NEW g \in gaps, InGap(g)
       PROVE  h.start <= first /\ last <= h.end /\ Free(d, {}, m + first, m + last)
  <2>1. m + first \in Int /\ m + last \in Int
    BY <1>1
  <2>2. Free(d, {}, m + first, m + last)
    BY <1>6, <1>9, <1>10, <2>1, FreeWithin
  <2> QED BY <1>1, <1>6, <1>9, <1>10, <2>2
<1>11. ASSUME h.start <= first, last <= h.end, Free(d, {}, m + first, m + last)
       PROVE  \E g \in gaps : InGap(g)
  <2>1. m + first \in Int /\ (m + first) + need = m + last
    BY <1>1, <1>2
  <2>2. m + h.start <= m + first /\ m + last <= m + h.end
    BY <1>1, <1>11
  <2>3. \E g \in gaps : g.start <= m + first /\ m + last <= g.end
    BY <1>6, <1>11, <2>1, <2>2
  <2> QED BY <1>9, <2>3
<1>12. (\E g \in gaps : InGap(g)) <=>
           /\ ValidBookingTime(d, h, time, service)
           /\ Free(d, {}, StartWithBuffer(service, Epoch(d, time)), EndWithBuffer(service, Epoch(d, time)))
  BY <1>7, <1>8, <1>10, <1>11
<1> QED BY <1>12 DEF gaps, InGap

LEMMA BookableIsExact ==
  ASSUME EndsBeforeMidnight, SearchTypeOK, StoreInv, NEW q \in Searchers, Underway(q), at[q] = "gaps",
         hours[q] = Hours(date[q], schedule, override[date[q]]),
         NEW time \in 0..(DayLength - 1), WithinDate(time, asked[q].service)
  PROVE  (\E o \in Bookable(q) : o.start <= time /\ time + asked[q].service.duration <= o.end)
         <=> CanBeBooked(asked[q].service, date[q], time)
<1> DEFINE service == asked[q].service  d == date[q]  h == hours[q]
<1>1. /\ d \in Days /\ service \in Services
      /\ h \in OpeningTimes /\ h # None
  BY RangeTypes, CalendarAssumption DEF Underway, SearchTypeOK
<1>2. schedule \in Schedules \cup {None} /\ override[d] \in Overrides \cup {None}
  BY <1>1 DEF SearchTypeOK
<1>3. h.end < DayLength + service.after
  BY <1>1, <1>2, HoursEndBeforeMidnight
<1>4. (\E o \in Bookable(q) : o.start <= time /\ time + service.duration <= o.end)
      <=> \E g \in GapsFor(q) : /\ TimeOfDay(g.start + service.before) <= time
                                /\ time + service.duration <= TimeOfDay(g.end - service.after)
  <2> DEFINE shown(g) == [date |-> d, start |-> TimeOfDay(g.start + service.before),
                          end |-> TimeOfDay(g.end - service.after)]
  <2>1. Bookable(q) = {shown(g) : g \in GapsFor(q)}
    BY DEF Bookable
  <2>2. \A g : /\ shown(g).start = TimeOfDay(g.start + service.before)
               /\ shown(g).end = TimeOfDay(g.end - service.after)
    OBVIOUS
  <2> HIDE DEF shown
  <2> QED BY <2>1, <2>2
<1>5. CanBeBooked(service, d, time)
      <=> /\ ValidBookingTime(d, h, time, service)
          /\ Free(d, {}, StartWithBuffer(service, Epoch(d, time)), EndWithBuffer(service, Epoch(d, time)))
  BY DEF CanBeBooked
<1> HIDE DEF service, d, h
<1>6. WithinDate(time, service)
  BY DEF service
<1>7. GapsFor(q) = AvailableSlots(d, Epoch(d, h.start), Epoch(d, h.end), TimeNeeded(service), {})
  BY DEF GapsFor, service, d, h
<1>8. (\E g \in GapsFor(q) : /\ TimeOfDay(g.start + service.before) <= time
                             /\ time + service.duration <= TimeOfDay(g.end - service.after))
      <=> /\ ValidBookingTime(d, h, time, service)
          /\ Free(d, {}, StartWithBuffer(service, Epoch(d, time)), EndWithBuffer(service, Epoch(d, time)))
  BY <1>1, <1>3, <1>6, <1>7, GapsAreBookable
<1> QED BY <1>4, <1>5, <1>8 DEF service, d

(* A search that a step leaves alone has found what it had found, as long  *)
(* as neither the calendar nor the locks change.                           *)
LEMMA ExactStays ==
  ASSUME NEW q \in Searchers, Exact(q), UNCHANGED <<schedule, override, zset, endTimes>>,
         at'[q] = at[q], asked'[q] = asked[q], date'[q] = date[q], hours'[q] = hours[q],
         found'[q] = found[q], config' = config \/ at[q] = "idle"
  PROVE  Exact(q)'
<1>1. CASE at[q] = "idle"
  BY <1>1 DEF Exact
<1>2. CASE config' = config
  <2>1. \A d : Passed(q, d)' <=> Passed(q, d)
    BY <1>2 DEF Passed, FirstDate, LastDate
  <2>2. \A d : ExactOn(q, d)' <=> ExactOn(q, d)
    BY DEF ExactOn, Offered, CanBeBooked, Free, HeldIds, Held
  <2> QED BY <2>1, <2>2 DEF Exact
<1> QED BY <1>1, <1>2

LEMMA DisturbedIsExact ==
  ASSUME found' = Disturbed
  PROVE  ExactInv'
  BY DEF ExactInv, Exact, Disturbed

LEMMA StartKeepsExact ==
  ASSUME ExactInv, SearchInv, SearchInv', NEW q \in Searchers, NEW service \in Services,
         NEW from \in Days, NEW until \in Days, GetBusinessConfig(q, service, from, until)
  PROVE  ExactInv'
<1>1. /\ config' = FoundConfig
      /\ asked'[q] = [service |-> service, from |-> from, until |-> until]
      /\ date'[q] = Later(from, FoundConfig.from) /\ at'[q] = "hours" /\ found'[q] = {}
      /\ UNCHANGED <<schedule, override, zset, endTimes, hours>>
      /\ \A r \in Searchers \ {q} : /\ at'[r] = at[r] /\ asked'[r] = asked[r]
                                    /\ date'[r] = date[r] /\ found'[r] = found[r]
  BY DEF GetBusinessConfig, SearchInv, SearchTypeOK, calendar, vars
<1>2. date'[q] = FirstDate(q)'
  BY <1>1 DEF FirstDate
<1>3. date'[q] \in Int
  BY DEF SearchInv, SearchTypeOK
<1>4. ASSUME NEW d \in Days
      PROVE  ~Passed(q, d)'
  <2>1. d \in Int
    BY DaysAssumption
  <2> QED BY <1>1, <1>2, <1>3, <2>1 DEF Passed
<1>5. Exact(q)'
  BY <1>1, <1>4 DEF Exact
<1>6. ASSUME NEW r \in Searchers \ {q}
      PROVE  Exact(r)'
  <2>1. config' = config \/ at[r] = "idle"
    BY <1>1 DEF SearchInv, Underway, FoundConfig
  <2> QED BY <1>1, <2>1, ExactStays DEF ExactInv
<1> QED BY <1>5, <1>6 DEF ExactInv

(* One date more has been passed. *)
LEMMA NextDate ==
  ASSUME NEW q \in Searchers, FirstDate(q)' = FirstDate(q), LastDate(q)' = LastDate(q),
         FirstDate(q) <= date[q], date[q] <= LastDate(q), date[q] \in Int, date'[q] = date[q] + 1,
         at[q] # "done", at'[q] # "done", NEW d \in Days
  PROVE  Passed(q, d)' <=> Passed(q, d) \/ d = date[q]
<1>1. d \in Int
  BY DaysAssumption
<1>2. d < date[q] + 1 <=> d < date[q] \/ d = date[q]
  BY <1>1
<1> QED BY <1>1, <1>2 DEF Passed

LEMMA ReadHoursKeepsExact ==
  ASSUME ExactInv, SearchInv, NEW q \in Searchers, ReadHours(q)
  PROVE  ExactInv'
<1> DEFINE h == Hours(date[q], schedule, override[date[q]])
<1>1. /\ at[q] = "hours" /\ date[q] \in Int /\ date[q] <= LastDate(q) /\ FirstDate(q) <= date[q]
      /\ hours'[q] = h
      /\ h = None => date'[q] = date[q] + 1 /\ at'[q] = "hours"
      /\ h # None => date'[q] = date[q] /\ at'[q] = "gaps"
      /\ UNCHANGED <<schedule, override, zset, endTimes, config, asked, found>>
      /\ \A r \in Searchers \ {q} : at'[r] = at[r] /\ date'[r] = date[r] /\ hours'[r] = hours[r]
  <2> HIDE DEF h
  <2> QED BY DEF ReadHours, SearchInv, SearchTypeOK, Underway, calendar, vars, h
<1> HIDE DEF h
<1>2. FirstDate(q)' = FirstDate(q) /\ LastDate(q)' = LastDate(q)
  BY <1>1 DEF FirstDate, LastDate
<1>3. \A d : ExactOn(q, d)' <=> ExactOn(q, d)
  BY <1>1 DEF ExactOn, Offered, CanBeBooked, Free, HeldIds, Held
<1>4. Exact(q)'
  <2> SUFFICES ASSUME found[q] # None
               PROVE  /\ \A o \in found[q] : Passed(q, o.date)'
                      /\ \A d \in Days : Passed(q, d)' => ExactOn(q, d)
                      /\ at'[q] = "gaps" => hours'[q] = h
    BY <1>1, <1>3 DEF Exact, h
  <2>1. /\ \A o \in found[q] : Passed(q, o.date) /\ o.date \in Days
        /\ \A d \in Days : Passed(q, d) => ExactOn(q, d)
    BY <1>1 DEF ExactInv, Exact, SearchInv, SearchTypeOK
  <2>2. CASE h # None
    <3>1. \A d : Passed(q, d)' <=> Passed(q, d)
      BY <1>1, <1>2, <2>2 DEF Passed
    <3> QED BY <1>1, <2>1, <3>1
  <2>3. CASE h = None
    <3>1. \A d \in Days : Passed(q, d)' <=> Passed(q, d) \/ d = date[q]
      BY <1>1, <1>2, <2>3, NextDate
    <3>2. \A o \in found[q] : o.date # date[q]
      BY <1>1, <2>1, DaysAssumption DEF Passed
    <3>3. ExactOn(q, date[q])
      BY <2>3, <3>2 DEF ExactOn, Offered, CanBeBooked, ValidBookingTime, h
    <3> QED BY <1>1, <2>1, <2>3, <3>1, <3>3
  <2> QED BY <2>2, <2>3
<1>5. \A r \in Searchers \ {q} : Exact(r)'
  BY <1>1, ExactStays DEF ExactInv
<1> QED BY <1>4, <1>5 DEF ExactInv

LEMMA ReadGapsKeepsExact ==
  ASSUME EndsBeforeMidnight, ExactInv, SearchInv, StoreInv, NEW q \in Searchers, ReadGaps(q)
  PROVE  ExactInv'
<1>1. /\ at[q] = "gaps" /\ FirstDate(q) <= date[q] /\ date[q] <= LastDate(q) /\ date[q] \in Int
      /\ found'[q] = IF found[q] = None THEN None ELSE found[q] \cup Bookable(q)
      /\ date'[q] = date[q] + 1 /\ at'[q] = "hours"
      /\ UNCHANGED <<schedule, override, zset, endTimes, config, asked>>
      /\ \A r \in Searchers \ {q} : /\ at'[r] = at[r] /\ date'[r] = date[r]
                                    /\ hours'[r] = hours[r] /\ found'[r] = found[r]
  BY DEF ReadGaps, SearchInv, SearchTypeOK, Underway, calendar, vars
<1>2. FirstDate(q)' = FirstDate(q) /\ LastDate(q)' = LastDate(q)
  BY <1>1 DEF FirstDate, LastDate
<1>3. Exact(q)'
  <2>1. CASE found[q] = None
    BY <1>1, <2>1 DEF Exact
  <2>2. CASE found[q] # None
    <3>1. /\ \A o \in found[q] : Passed(q, o.date) /\ o.date \in Days
          /\ \A d \in Days : Passed(q, d) => ExactOn(q, d)
          /\ hours[q] = Hours(date[q], schedule, override[date[q]])
      BY <1>1, <2>2 DEF ExactInv, Exact, SearchInv, SearchTypeOK
    <3>2. \A d \in Days : Passed(q, d)' <=> Passed(q, d) \/ d = date[q]
      BY <1>1, <1>2, NextDate
    <3>3. \A o \in found[q] : o.date # date[q]
      BY <1>1, <3>1, DaysAssumption DEF Passed
    <3>4. date[q] \in Days /\ \A o \in Bookable(q) : o.date = date[q]
      BY <1>1, BookableTypes DEF SearchInv, Bookable
    <3>5. ASSUME NEW d \in Days, Passed(q, d)'
          PROVE  ExactOn(q, d)'
      <4> SUFFICES ASSUME NEW time \in 0..(DayLength - 1), WithinDate(time, asked[q].service)
                   PROVE  Offered(q, d, time)' <=> CanBeBooked(asked[q].service, d, time)
        BY <1>1 DEF ExactOn, CanBeBooked, Free, HeldIds, Held
      <4>1. Offered(q, d, time)' <=>
               \E o \in found[q] \cup Bookable(q) :
                   o.date = d /\ o.start <= time /\ time + asked[q].service.duration <= o.end
        BY <1>1, <2>2 DEF Offered
      <4>2. CASE d = date[q]
        <5>1. (\E o \in Bookable(q) : o.start <= time /\ time + asked[q].service.duration <= o.end)
              <=> CanBeBooked(asked[q].service, d, time)
          BY <1>1, <3>1, <4>2, BookableIsExact DEF SearchInv
        <5> QED BY <3>3, <3>4, <4>1, <4>2, <5>1
      <4>3. CASE d # date[q]
        <5>1. Offered(q, d, time) <=> CanBeBooked(asked[q].service, d, time)
          BY <3>1, <3>2, <3>5, <4>3 DEF ExactOn
        <5> QED BY <3>4, <4>1, <4>3, <5>1 DEF Offered
      <4> QED BY <4>2, <4>3
    <3>6. \A o \in found'[q] : Passed(q, o.date)'
      BY <1>1, <2>2, <3>1, <3>2, <3>4
    <3> QED BY <1>1, <3>5, <3>6 DEF Exact
  <2> QED BY <2>1, <2>2
<1>4. \A r \in Searchers \ {q} : Exact(r)'
  BY <1>1, ExactStays DEF ExactInv
<1> QED BY <1>3, <1>4 DEF ExactInv

LEMMA AnswerKeepsExact ==
  ASSUME ExactInv, SearchInv, NEW q \in Searchers, Answer(q)
  PROVE  ExactInv'
<1>1. /\ at[q] = "hours" /\ at'[q] = "done" /\ date[q] > LastDate(q) /\ date[q] \in Int
      /\ UNCHANGED <<schedule, override, zset, endTimes, config, asked, hours, found>>
      /\ \A r \in Searchers \ {q} : at'[r] = at[r] /\ date'[r] = date[r]
  BY DEF Answer, SearchInv, SearchTypeOK, calendar, vars
<1>2. LastDate(q) \in Int
  BY <1>1, RangeTypes DEF SearchInv
<1>3. \A d \in Days : Passed(q, d)' <=> Passed(q, d)
  BY <1>1, <1>2, DaysAssumption DEF Passed, FirstDate, LastDate
<1>4. \A d : ExactOn(q, d)' <=> ExactOn(q, d)
  BY <1>1 DEF ExactOn, Offered, CanBeBooked, Free, HeldIds, Held
<1>5. found[q] # None => \A o \in found[q] : o.date \in Days
  BY DEF SearchInv, SearchTypeOK
<1>6. Exact(q)'
  BY <1>1, <1>3, <1>4, <1>5 DEF ExactInv, Exact
<1>7. \A r \in Searchers \ {q} : Exact(r)'
  BY <1>1, ExactStays DEF ExactInv
<1> QED BY <1>6, <1>7 DEF ExactInv

LEMMA StepExactInv ==
  ASSUME EndsBeforeMidnight, ExactInv, SearchInv, SearchInv', StoreInv, [SearchNext]_searchVars
  PROVE  ExactInv'
<1>1. CASE LockStep
  <2>1. CASE store' = store
    BY <1>1, <2>1, ExactStays DEF LockStep, ExactInv, calendar, searches, store
  <2>2. CASE store' # store
    BY <1>1, <2>2, DisturbedIsExact DEF LockStep
  <2> QED BY <2>1, <2>2
<1>2. CASE \/ \E s \in Schedules \cup {None} : SetSchedule(s)
           \/ \E o \in Overrides : SetOverride(o)
           \/ \E d \in Days : DeleteOverride(d)
  BY <1>2, DisturbedIsExact DEF SetSchedule, SetOverride, DeleteOverride
<1>3. CASE UNCHANGED searchVars
  BY <1>3, ExactStays DEF ExactInv, searchVars, calendar, searches, vars
<1> QED BY <1>1, <1>2, <1>3, StartKeepsExact, ReadHoursKeepsExact, ReadGapsKeepsExact,
           AnswerKeepsExact DEF SearchNext

(* A search during which nothing changes is exact on every date that its   *)
(* schedule covers: it offers what the validation accepts and no booking   *)
(* occupies, nothing less and nothing more, whatever runs beside it.       *)
THEOREM SearchExact ==
  ASSUME Discipline, EndsBeforeMidnight
  PROVE  SearchSpec => []SearchIsExact
<1>1. SearchInit => ExactInv
  BY DEF SearchInit, ExactInv, Exact
<1>2. ExactInv /\ SearchInv /\ SearchInv' /\ IInv /\ [SearchNext]_searchVars => ExactInv'
  BY StepExactInv DEF IInv
<1>3. SearchInv /\ ExactInv => SearchIsExact
  <2> SUFFICES ASSUME SearchInv, ExactInv, NEW q \in Searchers, at[q] = "done", found[q] # None,
                      config = schedule, NEW d \in asked[q].from..asked[q].until,
                      Covers(schedule, d)
               PROVE  ExactOn(q, d)
    BY DEF SearchIsExact, Answered, AnswerIsExact, ExactOn
  <2>1. asked[q].from \in Days /\ asked[q].until \in Days /\ config \in Schedules
    BY RangeTypes DEF SearchInv
  <2>2. d \in Days /\ d \in Int
    BY <2>1, DaysAssumption
  <2>3. Passed(q, d)
    BY <2>1, <2>2, DaysAssumption, CalendarAssumption
       DEF Passed, FirstDate, LastDate, Later, Earlier, Covers
  <2> QED BY <2>2, <2>3 DEF ExactInv, Exact
<1> QED BY <1>1, <1>2, <1>3, SearchInvHolds, SearchKeepsIInv, PTL DEF SearchSpec
=============================================================================
