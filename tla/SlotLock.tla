------------------------------- MODULE SlotLock -------------------------------
(***************************************************************************)
(* BookingLockService: concurrent calls of tryAcquireSlot, releaseSlot and *)
(* atomicRescheduleSwap over the lock store.  A call is one atomic script  *)
(* (acquire) or several Redis round trips (release: zRem then hDel; swap:  *)
(* zScore, hGet, then the script), between which other calls run.          *)
(*                                                                         *)
(* The service is called as BookingService calls it: an id is acquired     *)
(* once, by the request that minted it, and every later call about the id  *)
(* passes the day of its booking document, which never changes: home[b].   *)
(***************************************************************************)
EXTENDS LockStore

CONSTANTS
    Callers,    \* requests that may be inside the service at one time
    Calls,      \* subset of {"release", "swap"}: what they call besides acquire
    Serial      \* TRUE: at most one call in flight per booking

ASSUME CallsAssumption == Calls \subseteq {"release", "swap"} /\ Serial \in BOOLEAN

ASSUME CallersAssumption == None \notin Callers

VARIABLES
    home,       \* home[b]: the slot b was acquired for (its document's), or None
    pc,         \* pc[c]: where caller c waits
    about,      \* about[c]: the booking of c's call, or None
    to          \* to[c]: the slot c wants to move its booking to, or None

vars == <<zset, endTimes, home, pc, about, to>>

TypeOK ==
    /\ StoreType
    /\ home \in [Ids -> Slots \cup {None}]
    /\ pc \in [Callers -> {"idle", "hdel", "hget", "eval"}]
    /\ about \in [Callers -> Ids \cup {None}]
    /\ to \in [Callers -> Slots \cup {None}]

Init ==
    /\ StoreInit
    /\ home = [b \in Ids |-> None]
    /\ pc = [c \in Callers |-> "idle"]
    /\ about = [c \in Callers |-> None]
    /\ to = [c \in Callers |-> None]

InFlight(b) == \E c \in Callers : about[c] = b

MayCall(c, b) ==
    /\ pc[c] = "idle"
    /\ home[b] # None
    /\ Serial => ~InFlight(b)

(* Mutant: the caller never comes back from the service. *)
ReturnLost(c) ==
    /\ pc' = [pc EXCEPT ![c] = "lost"]
    /\ UNCHANGED <<about, to>>

Return(c) ==
    /\ pc' = [pc EXCEPT ![c] = "idle"]
    /\ about' = [about EXCEPT ![c] = None]
    /\ to' = [to EXCEPT ![c] = None]

-----------------------------------------------------------------------------
(* tryAcquireSlot; a refused attempt changes nothing. *)
TryAcquireSlot(b, s) ==
    /\ home[b] = None
    /\ AcquireScript(b, s)
    /\ home' = [home EXCEPT ![b] = s]
    /\ UNCHANGED <<pc, about, to>>

(* releaseSlot *)
ReleaseZRem(c, b) ==
    /\ "release" \in Calls
    /\ MayCall(c, b)
    /\ ZRem(b, home[b].day)
    /\ pc' = [pc EXCEPT ![c] = "hdel"]
    /\ about' = [about EXCEPT ![c] = b]
    /\ UNCHANGED <<home, to>>

ReleaseHDel(c) ==
    /\ pc[c] = "hdel"
    /\ HDel(about[c])
    /\ Return(c)
    /\ UNCHANGED home

(* atomicRescheduleSwap: with no score the call still reads the end time,  *)
(* to no effect, and returns false.                                        *)
SwapZScore(c, b, s) ==
    /\ "swap" \in Calls
    /\ MayCall(c, b)
    /\ Held(home[b].day, b)
    /\ pc' = [pc EXCEPT ![c] = "hget"]
    /\ about' = [about EXCEPT ![c] = b]
    /\ to' = [to EXCEPT ![c] = s]
    /\ UNCHANGED <<zset, endTimes, home>>

SwapHGet(c) ==
    /\ pc[c] = "hget"
    /\ \/ /\ endTimes[about[c]] # None
          /\ pc' = [pc EXCEPT ![c] = "eval"]
          /\ UNCHANGED <<about, to>>
       \/ /\ endTimes[about[c]] = None
          /\ Return(c)
    /\ UNCHANGED <<zset, endTimes, home>>

SwapEval(c) ==
    /\ pc[c] = "eval"
    /\ \/ SwapScript(about[c], home[about[c]].day, to[c])
       \/ SwapRefused(about[c], to[c]) /\ UNCHANGED store
    /\ Return(c)
    /\ UNCHANGED home

Next ==
    \/ \E b \in Ids, s \in Slots : TryAcquireSlot(b, s)
    \/ \E c \in Callers, b \in Ids : ReleaseZRem(c, b)
    \/ \E c \in Callers : ReleaseHDel(c)
    \/ \E c \in Callers, b \in Ids, s \in Slots : SwapZScore(c, b, s)
    \/ \E c \in Callers : SwapHGet(c)
    \/ \E c \in Callers : SwapEval(c)

Spec == Init /\ [][Next]_vars

-----------------------------------------------------------------------------
(* SlotsDisjoint, HeldHasEnd and HeldOnce (LockStore) are the safety       *)
(* properties.  They hold under one of three disciplines of the callers:   *)
(* no swaps; swaps without releases, serialised per booking; both, where   *)
(* no slot is of another day.                                              *)
OneDay == \A s, t \in Slots : s.day = t.day

Discipline ==
    \/ Calls \subseteq {"release"}
    \/ Serial /\ Calls \subseteq {"swap"}
    \/ Serial /\ OneDay

(* A booking about which no call is in flight leaves no stray end time: it *)
(* has one exactly when it holds a slot.                                   *)
NoStrayEnd ==
    \A b \in Ids : ~InFlight(b) =>
        (endTimes[b] # None <=> \E d \in Days : Held(d, b))

(* A swap moves a slot or leaves it; it never loses it.  Checked where     *)
(* nothing is released: an acquired booking holds a slot for ever.         *)
SwapKeepsSlot == \A b \in Ids : home[b] # None => \E d \in Days : Held(d, b)
=============================================================================
