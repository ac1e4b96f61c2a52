------------------------------ MODULE LockStore ------------------------------
(***************************************************************************)
(* The Redis lock store of one business: one sorted set per day            *)
(* (bookings:<businessId>:<date>, member = booking id, score = start) and  *)
(* the hash booking_end_times (booking id -> end), with the commands and   *)
(* Lua scripts that BookingLockService sends.  Redis executes a command or *)
(* a script atomically, so each is one operation on the two variables.     *)
(*                                                                         *)
(* This module has no specification of its own: SlotLock and Booking are   *)
(* the protocols that use the store.  Times are epoch values on one axis   *)
(* and include the buffers of the service.  Other businesses use other     *)
(* sorted sets and other ids, so one business is enough.                   *)
(***************************************************************************)
EXTENDS Integers

CONSTANTS
    Ids,        \* booking ids (fresh ObjectIds)
    Days,       \* the dates that name the sorted sets
    Slots,      \* the slots clients ask for: [day, start, end, ...]
    None        \* "no such member / field / document"

ASSUME SlotsAssumption ==
    \A s \in Slots : /\ s.day \in Days
                     /\ s.start \in Int
                     /\ s.end \in Int
                     /\ s.start < s.end

ASSUME NoneAssumption == None \notin Int /\ None \notin Ids /\ None \notin Slots

VARIABLES
    zset,       \* zset[d][b]: score of b in the sorted set of day d, or None
    endTimes    \* endTimes[b]: field b of booking_end_times, or None

store == <<zset, endTimes>>

StoreType ==
    /\ zset \in [Days -> [Ids -> Int \cup {None}]]
    /\ endTimes \in [Ids -> Int \cup {None}]

StoreInit ==
    /\ zset = [d \in Days |-> [b \in Ids |-> None]]
    /\ endTimes = [b \in Ids |-> None]

Held(d, b) == zset[d][b] # None

HeldIds(d) == {b \in Ids : Held(d, b)}

-----------------------------------------------------------------------------
(* atomic-booking-lock.lua *)

(* ZRANGEBYSCORE key -inf end: both bounds are inclusive. *)
StartsBy(d, time) == {b \in HeldIds(d) : zset[d][b] <= time}

(* A candidate without an end time never conflicts. *)
(* Mutant: a booking that ends where the new slot starts is in the way. *)
EndsAtOrAfter(b, time) == endTimes[b] # None /\ endTimes[b] >= time

EndsAfter(b, time) == endTimes[b] # None /\ endTimes[b] > time

(* Mutant: the scan for candidates ends where the new slot starts. *)
ConflictScanTooShort(s) == \E b \in StartsBy(s.day, s.start) : EndsAfter(b, s.start)

AcquireConflict(s) == \E b \in StartsBy(s.day, s.end) : EndsAfter(b, s.start)

AcquireScript(b, s) ==
    /\ ~AcquireConflict(s)
    /\ zset' = [zset EXCEPT ![s.day][b] = s.start]
    /\ endTimes' = [endTimes EXCEPT ![b] = s.end]

-----------------------------------------------------------------------------
(* releaseSlot: two commands, sent in this order on one connection *)

(* Mutants: one of the two commands of a release is missing. *)
ZRemMissing(b, d) == UNCHANGED store

HDelMissing(b) == UNCHANGED store

ZRem(b, d) ==
    /\ zset' = [zset EXCEPT ![d][b] = None]
    /\ UNCHANGED endTimes

HDel(b) ==
    /\ endTimes' = [endTimes EXCEPT ![b] = None]
    /\ UNCHANGED zset

-----------------------------------------------------------------------------
(* atomic-reschedule-swap.lua *)

(* Another booking refuses the swap when it overlaps the new slot, or when *)
(* it has no end time: comparing nil with a number aborts the script.  The *)
(* script has written nothing by then, and either way the caller throws.   *)
(* Mutant: the scan for candidates ends where the new slot starts. *)
SwapScanTooShort(b, s) ==
    \E c \in StartsBy(s.day, s.start - 1) \ {b} :
        \/ endTimes[c] = None
        \/ endTimes[c] > s.start /\ zset[s.day][c] < s.end

SwapRefused(b, s) ==
    \E c \in StartsBy(s.day, s.end) \ {b} :
        \/ endTimes[c] = None
        \/ endTimes[c] > s.start /\ zset[s.day][c] < s.end

(* ZREM from the old day, ZADD on the new one.  The script skips the ZREM  *)
(* when nothing changes, which the ZADD of the same member makes           *)
(* indistinguishable from doing it.                                        *)
(* Mutants: the swap keeps the old entry; it keeps the old end time. *)
SwapLeavesOldEntry(b, oldDay, s) ==
    /\ ~SwapRefused(b, s)
    /\ zset' = [zset EXCEPT ![s.day][b] = s.start]
    /\ endTimes' = [endTimes EXCEPT ![b] = s.end]

SwapKeepsOldEnd(b, oldDay, s) ==
    /\ ~SwapRefused(b, s)
    /\ zset' = [zset EXCEPT ![oldDay][b] = None, ![s.day][b] = s.start]
    /\ UNCHANGED endTimes

SwapScript(b, oldDay, s) ==
    /\ ~SwapRefused(b, s)
    /\ zset' = [zset EXCEPT ![oldDay][b] = None, ![s.day][b] = s.start]
    /\ endTimes' = [endTimes EXCEPT ![b] = s.end]

-----------------------------------------------------------------------------
(* What the store is for *)

Overlap(s, t) == s.start < t.end /\ t.start < s.end

(* No two bookings hold overlapping time in the same sorted set. *)
SlotsDisjoint ==
    \A d \in Days : \A b, c \in HeldIds(d) :
        b # c /\ endTimes[b] # None /\ endTimes[c] # None
            => endTimes[b] <= zset[d][c] \/ endTimes[c] <= zset[d][b]

(* Every member of a sorted set has an end time: without one the acquire   *)
(* script does not see the booking and the other scripts abort on it.      *)
HeldHasEnd == \A d \in Days : \A b \in HeldIds(d) : endTimes[b] # None

(* A booking holds one slot at most. *)
HeldOnce == \A b \in Ids : \A d, e \in Days : Held(d, b) /\ Held(e, b) => d = e
=============================================================================
