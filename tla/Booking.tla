------------------------------- MODULE Booking -------------------------------
(***************************************************************************)
(* BookingService: the create, cancel and reschedule handlers running      *)
(* concurrently over the Redis lock store, the bookings collection and the *)
(* outbox collection.  A handler is a sequence of awaited calls; every     *)
(* call is one action, and the calls of a Promise.all are tasks that       *)
(* finish in any order, also after the handler has failed.                 *)
(*                                                                         *)
(* A request serves one call of one handler and mints at most one booking  *)
(* id, so requests and booking ids are the same set, Ids.  A request that  *)
(* is refused before its first write has no effect and is not modelled     *)
(* further.  Who may act on a booking (the owner or an administrator) is   *)
(* such a refusal.                                                         *)
(***************************************************************************)
EXTENDS LockStore

CONSTANTS
    Keys,       \* idempotency keys
    Ops,        \* subset of {"create", "cancel", "reschedule"}: what clients call
    Faults,     \* the calls that may be rejected without having any effect
    Exclusive   \* TRUE: clients never address one booking by two requests at once

TaskNames == {"insert", "update", "event", "release"}

ASSUME OpsAssumption ==
    /\ Ops \subseteq {"create", "cancel", "reschedule"}
    /\ Faults \subseteq TaskNames \cup {"enqueue"}
    /\ Exclusive \in BOOLEAN
    /\ None \notin Keys

VARIABLES
    bookings,   \* bookings[b]: the document with _id b, or None
    events,     \* requests whose outbox event is stored
    jobs,       \* requests whose outbox job is queued
    req,        \* req[r]: the call request r serves
    pc,         \* pc[r]: where its handler waits
    tasks       \* tasks[r][t]: state of the Promise.all branches of r

vars == <<zset, endTimes, bookings, events, jobs, req, pc, tasks>>

Statuses == {"confirmed", "cancelled"}

Documents == [slot: Slots, key: Keys, status: Statuses, from: Ids \cup {None}]

ASSUME NoDocument == None \notin Documents

(* "No overnight booking" (README.md:352): slots of different days are     *)
(* apart, so a conflict can only be within one sorted set.                 *)
ASSUME DaysApart == \A s, t \in Slots : s.day # t.day => ~Overlap(s, t)

Calls == [op: {"none", "create", "cancel", "reschedule"}, target: Ids \cup {None},
          slot: Slots \cup {None}, key: Keys \cup {None}]

Ended == {"new", "done", "refused", "failed"}

TypeOK ==
    /\ StoreType
    /\ bookings \in [Ids -> Documents \cup {None}]
    /\ events \subseteq Ids
    /\ jobs \subseteq Ids
    /\ req \in [Ids -> Calls]
    /\ pc \in [Ids -> Ended \cup {"validate", "hget", "swap", "parallel",
                                  "enqueue", "catch", "unlock"}]
    /\ tasks \in [Ids -> [TaskNames -> {"off", "pending", "sent", "ok", "failed"}]]

NoTasks == [t \in TaskNames |-> "off"]

Init ==
    /\ StoreInit
    /\ bookings = [b \in Ids |-> None]
    /\ events = {}
    /\ jobs = {}
    /\ req = [r \in Ids |-> [op |-> "none", target |-> None, slot |-> None, key |-> None]]
    /\ pc = [r \in Ids |-> "new"]
    /\ tasks = [r \in Ids |-> NoTasks]

Start(ts) == [t \in TaskNames |-> IF t \in ts THEN "pending" ELSE "off"]

Running(r, t) == tasks[r][t] \in {"pending", "sent"}

(* The handler of r has ended and none of its calls is still under way. *)
Settled(r) == pc[r] \in Ended /\ \A t \in TaskNames : ~Running(r, t)

Undisturbed(b) ==
    Exclusive => Settled(b) /\ \A r \in Ids : req[r].target = b => Settled(r)

Exists(b) == bookings[b] # None

Confirmed(b) == Exists(b) /\ bookings[b].status = "confirmed"

Goto(r, where) == pc' = [pc EXCEPT ![r] = where]

-----------------------------------------------------------------------------
(* create: idempotency lookup, validation, lock *)

CreateLookup(r, s, k) ==
    /\ "create" \in Ops
    /\ pc[r] = "new"
    /\ req' = [req EXCEPT ![r] = [op |-> "create", target |-> None, slot |-> s, key |-> k]]
    /\ IF \E b \in Ids : Exists(b) /\ bookings[b].key = k
       THEN Goto(r, "done")
       ELSE Goto(r, "validate")
    /\ UNCHANGED <<store, bookings, events, jobs, tasks>>

(* The time lies outside the opening hours, also for reschedule. *)
Refuse(r) ==
    /\ pc[r] = "validate"
    /\ Goto(r, "refused")
    /\ UNCHANGED <<store, bookings, events, jobs, req, tasks>>

CreateAcquire(r) ==
    /\ pc[r] = "validate"
    /\ req[r].op = "create"
    /\ \/ /\ AcquireScript(r, req[r].slot)
          /\ Goto(r, "parallel")
          /\ tasks' = [tasks EXCEPT ![r] = Start({"insert", "event"})]
       \/ /\ AcquireConflict(req[r].slot)
          /\ Goto(r, "refused")
          /\ UNCHANGED <<store, tasks>>
    /\ UNCHANGED <<bookings, events, jobs, req>>

-----------------------------------------------------------------------------
(* cancel: read the booking, whatever its status, and start its writes *)

CancelRead(r, b) ==
    /\ "cancel" \in Ops
    /\ pc[r] = "new"
    /\ Exists(b)
    /\ Undisturbed(b)
    /\ req' = [req EXCEPT ![r] = [op |-> "cancel", target |-> b, slot |-> None, key |-> None]]
    /\ Goto(r, "parallel")
    /\ tasks' = [tasks EXCEPT ![r] = Start({"update", "event", "release"})]
    /\ UNCHANGED <<store, bookings, events, jobs>>

-----------------------------------------------------------------------------
(* reschedule: read, validate, and atomicRescheduleSwap in three round     *)
(* trips.  The swap moves the slot of the old id; the new booking gets an  *)
(* id of its own.                                                          *)

RescheduleRead(r, b, s, k) ==
    /\ "reschedule" \in Ops
    /\ pc[r] = "new"
    /\ Confirmed(b)
    /\ Undisturbed(b)
    /\ req' = [req EXCEPT ![r] = [op |-> "reschedule", target |-> b, slot |-> s, key |-> k]]
    /\ Goto(r, "validate")
    /\ UNCHANGED <<store, bookings, events, jobs, tasks>>

(* The day of the booking that r addresses, as read from its document. *)
OldDay(r) == bookings[req[r].target].slot.day

SwapZScore(r) ==
    /\ pc[r] = "validate"
    /\ req[r].op = "reschedule"
    /\ Goto(r, IF Held(OldDay(r), req[r].target) THEN "hget" ELSE "refused")
    /\ UNCHANGED <<store, bookings, events, jobs, req, tasks>>

SwapHGet(r) ==
    /\ pc[r] = "hget"
    /\ Goto(r, IF endTimes[req[r].target] # None THEN "swap" ELSE "refused")
    /\ UNCHANGED <<store, bookings, events, jobs, req, tasks>>

SwapEval(r) ==
    /\ pc[r] = "swap"
    /\ \/ /\ SwapScript(req[r].target, OldDay(r), req[r].slot)
          /\ Goto(r, "parallel")
          /\ tasks' = [tasks EXCEPT ![r] = Start({"insert", "update", "event"})]
       \/ /\ SwapRefused(req[r].target, req[r].slot)
          /\ Goto(r, "refused")
          /\ UNCHANGED <<store, tasks>>
    /\ UNCHANGED <<bookings, events, jobs, req>>

-----------------------------------------------------------------------------
(* The branches of the Promise.all.  Its last branch, invalidateByTag,      *)
(* changes nothing here: that it resolves late is one more delay before    *)
(* AllResolved, and its rejection has the effect of CreateEvent's.         *)

EndTask(r, t, how) == tasks' = [tasks EXCEPT ![r][t] = how]

(* The unique indexes of bookings: idempotencyKey, and businessId,         *)
(* serviceId, startsAt among confirmed bookings.                           *)
(* Mutant: no unique index on idempotencyKey. *)
DuplicateSlotOnly(s, k) ==
    \E b \in Ids : Confirmed(b) /\ bookings[b].slot.startsAt = s.startsAt
                                /\ bookings[b].slot.service = s.service

Duplicate(s, k) ==
    \E b \in Ids :
        /\ Exists(b)
        /\ \/ bookings[b].key = k
           \/ Confirmed(b) /\ bookings[b].slot.startsAt = s.startsAt
                           /\ bookings[b].slot.service = s.service

InsertBooking(r) ==
    /\ tasks[r]["insert"] = "pending"
    /\ \/ /\ ~Duplicate(req[r].slot, req[r].key)
          /\ bookings' = [bookings EXCEPT ![r] =
                [slot |-> req[r].slot, key |-> req[r].key,
                 status |-> "confirmed", from |-> req[r].target]]
          /\ EndTask(r, "insert", "ok")
       \/ /\ Duplicate(req[r].slot, req[r].key) \/ "insert" \in Faults
          /\ EndTask(r, "insert", "failed")
          /\ UNCHANGED bookings
    /\ UNCHANGED <<store, events, jobs, req, pc>>

(* Mutants: the update matches no document; it misspells the status. *)
UpdateMatchesNothing(r) ==
    /\ tasks[r]["update"] = "pending"
    /\ EndTask(r, "update", "ok")
    /\ UNCHANGED <<store, bookings, events, jobs, req, pc>>

UpdateMisspelt(r) ==
    /\ tasks[r]["update"] = "pending"
    /\ bookings' = [bookings EXCEPT ![req[r].target].status = "canceled"]
    /\ EndTask(r, "update", "ok")
    /\ UNCHANGED <<store, events, jobs, req, pc>>

UpdateBooking(r) ==
    /\ tasks[r]["update"] = "pending"
    /\ \/ /\ bookings' = [bookings EXCEPT ![req[r].target].status = "cancelled"]
          /\ EndTask(r, "update", "ok")
       \/ /\ "update" \in Faults
          /\ EndTask(r, "update", "failed")
          /\ UNCHANGED bookings
    /\ UNCHANGED <<store, events, jobs, req, pc>>

CreateEvent(r) ==
    /\ tasks[r]["event"] = "pending"
    /\ \/ /\ events' = events \cup {r}
          /\ EndTask(r, "event", "ok")
       \/ /\ "event" \in Faults
          /\ EndTask(r, "event", "failed")
          /\ UNCHANGED events
    /\ UNCHANGED <<store, bookings, jobs, req, pc>>

ReleaseZRem(r) ==
    /\ tasks[r]["release"] = "pending"
    /\ \/ /\ ZRem(req[r].target, OldDay(r))
          /\ EndTask(r, "release", "sent")
       \/ /\ "release" \in Faults
          /\ EndTask(r, "release", "failed")
          /\ UNCHANGED store
    /\ UNCHANGED <<bookings, events, jobs, req, pc>>

ReleaseHDel(r) ==
    /\ tasks[r]["release"] = "sent"
    /\ \/ /\ HDel(req[r].target)
          /\ EndTask(r, "release", "ok")
       \/ /\ "release" \in Faults
          /\ EndTask(r, "release", "failed")
          /\ UNCHANGED store
    /\ UNCHANGED <<bookings, events, jobs, req, pc>>

-----------------------------------------------------------------------------
(* After the Promise.all *)

(* create catches the first rejection; the other handlers throw it. *)
(* Mutant: create has no catch block. *)
OnRejectionThrow(r) == "failed"

OnRejection(r) == IF req[r].op = "create" THEN "catch" ELSE "failed"

(* Mutant: createEvent is not awaited. *)
AllResolvedButEvent(r) ==
    /\ pc[r] = "parallel"
    /\ \A t \in TaskNames \ {"event"} : tasks[r][t] \in {"off", "ok"}
    /\ Goto(r, "enqueue")
    /\ UNCHANGED <<store, bookings, events, jobs, req, tasks>>

AllResolved(r) ==
    /\ pc[r] = "parallel"
    /\ \A t \in TaskNames : tasks[r][t] \in {"off", "ok"}
    /\ Goto(r, "enqueue")
    /\ UNCHANGED <<store, bookings, events, jobs, req, tasks>>

OneRejected(r) ==
    /\ pc[r] = "parallel"
    /\ \E t \in TaskNames : tasks[r][t] = "failed"
    /\ Goto(r, OnRejection(r))
    /\ UNCHANGED <<store, bookings, events, jobs, req, tasks>>

EnqueueJob(r) ==
    /\ pc[r] = "enqueue"
    /\ \/ /\ jobs' = jobs \cup {r}
          /\ Goto(r, "done")
       \/ /\ "enqueue" \in Faults
          /\ Goto(r, OnRejection(r))
          /\ UNCHANGED jobs
    /\ UNCHANGED <<store, bookings, events, req, tasks>>

(* The catch block of create: releaseSlot, then rethrow. *)
CatchZRem(r) ==
    /\ pc[r] = "catch"
    /\ ZRem(r, req[r].slot.day)
    /\ Goto(r, "unlock")
    /\ UNCHANGED <<bookings, events, jobs, req, tasks>>

CatchHDel(r) ==
    /\ pc[r] = "unlock"
    /\ HDel(r)
    /\ Goto(r, "failed")
    /\ UNCHANGED <<bookings, events, jobs, req, tasks>>

-----------------------------------------------------------------------------
Arrive(r) ==
    \/ \E s \in Slots, k \in Keys : CreateLookup(r, s, k)
    \/ \E b \in Ids : CancelRead(r, b)
    \/ \E b \in Ids, s \in Slots, k \in Keys : RescheduleRead(r, b, s, k)

Task(r) ==
    \/ InsertBooking(r)
    \/ UpdateBooking(r)
    \/ CreateEvent(r)
    \/ ReleaseZRem(r)
    \/ ReleaseHDel(r)

Step(r) ==
    \/ Refuse(r)
    \/ CreateAcquire(r)
    \/ SwapZScore(r)
    \/ SwapHGet(r)
    \/ SwapEval(r)
    \/ AllResolved(r)
    \/ OneRejected(r)
    \/ EnqueueJob(r)
    \/ CatchZRem(r)
    \/ CatchHDel(r)

Next == \E r \in Ids : Arrive(r) \/ Step(r) \/ Task(r)

Spec == Init /\ [][Next]_vars

(* Every call a handler awaits is answered, so a handler that has started  *)
(* does not stop half-way.                                                 *)
FairSpec == Spec /\ \A r \in Ids : WF_vars(Step(r) \/ Task(r))

-----------------------------------------------------------------------------
(* A request has yet to mark b cancelled: a cancel of b, or its reschedule. *)
Leaving(b) == \E r \in Ids : req[r].target = b /\ tasks[r]["update"] = "pending"

Live(b) == Confirmed(b) /\ ~Leaving(b)

(* "This approach guarantees zero double-bookings even under high          *)
(* concurrent load" (README.md:221): two confirmed bookings, neither being *)
(* withdrawn, never overlap.                                               *)
NoDoubleBooking ==
    \A a, b \in Ids : a # b /\ Live(a) /\ Live(b)
        => ~Overlap(bookings[a].slot, bookings[b].slot)

(* The id whose entry in the lock store protects b: a booking made by a    *)
(* reschedule is protected by the entry of the booking it came from.       *)
Holder(b) == IF bookings[b].from = None THEN b ELSE bookings[b].from

HoldsSlot(h, s) == zset[s.day][h] = s.start /\ endTimes[h] = s.end

(* Redis is the source of truth for locks (README.md:33): a live booking   *)
(* is backed by a lock entry for exactly its time.                         *)
LiveHoldsSlot == \A b \in Ids : Live(b) => HoldsSlot(Holder(b), bookings[b].slot)

(* A cancel releases the entry under the id of its booking, also when a    *)
(* reschedule has moved that entry away from it: nobody does so.           *)
MovedAreSpared ==
    \A q, r \in Ids :
        req[q].op = "cancel" /\ req[r].op = "reschedule" /\ req[q].target = req[r].target
            => tasks[r]["update"] = "off"

(* Up to there creates, cancels and reschedules of one another's bookings  *)
(* keep the promise of README.md:221, and every live booking is backed by  *)
(* its entry.                                                              *)
SparedNeverOverlap == MovedAreSpared => NoDoubleBooking
SparedHoldsSlot == MovedAreSpared => LiveHoldsSlot

(* The catch block of create has given back the slot of b.  The document   *)
(* of b may be stored all the same: by an insert that was still under way  *)
(* when createEvent was rejected, or before enqueueJob was.                *)
Disowned(b) == req[b].op = "create" /\ pc[b] \in {"unlock", "failed"}

Kept(b) == Live(b) /\ ~Disowned(b)

(* The promise of README.md:221 to every client who is not told that the   *)
(* booking has failed: whatever creates of others are rejected after they  *)
(* have stored a booking, no two bookings that are kept overlap.           *)
KeptNeverOverlap ==
    \A a, b \in Ids : a # b /\ Kept(a) /\ Kept(b)
        => ~Overlap(bookings[a].slot, bookings[b].slot)

(* A booking that is kept is backed by the entry for exactly its time:     *)
(* the catch block of another create never gives that entry away.          *)
KeptHoldsSlot == \A b \in Ids : Kept(b) => HoldsSlot(b, bookings[b].slot)

(* When every request has come to rest, the lock store holds the slots of  *)
(* the confirmed bookings that were not disowned and nothing else:         *)
(* refused, failed and cancelled requests leave no slot blocked.           *)
AllSettled == \A r \in Ids : Settled(r)

LocksMatchBookings ==
    AllSettled => \A b \in Ids :
        IF Kept(b) THEN HoldsSlot(b, bookings[b].slot)
                   ELSE endTimes[b] = None /\ \A d \in Days : ~Held(d, b)

(* One booking per idempotency key, however many requests carry the key    *)
(* (README.md:219).                                                        *)
OneBookingPerKey ==
    \A a, b \in Ids : a # b /\ Exists(a) /\ Exists(b) => bookings[a].key # bookings[b].key

(* Every lifecycle event of a booking is recorded (README.md:37): a        *)
(* booking whose request succeeded has its event, and so has its end,      *)
(* unless the client of every request that withdrew it was told of a       *)
(* failure.                                                                *)
ChangesRecorded ==
    \A b \in Ids : Exists(b) =>
        /\ pc[b] = "done" => b \in events
        /\ ~Confirmed(b) /\ AllSettled =>
               \E r \in Ids : /\ req[r].target = b /\ tasks[r]["update"] = "ok"
                              /\ r \in events \/ pc[r] = "failed"

(* "Zero lost bookings under concurrent load" (README.md:578): when every  *)
(* request has come to rest, a client whose reschedule failed still has a  *)
(* booking, the old one or the new one.                                    *)
NoBookingLost ==
    AllSettled => \A r \in Ids :
        req[r].op = "reschedule" /\ pc[r] = "failed" => Confirmed(req[r].target) \/ Confirmed(r)

(* A slot taken by a create ends up booked or free again.                  *)
SlotNotStranded ==
    \A r \in Ids : (endTimes[r] # None /\ ~Exists(r)) ~> (endTimes[r] = None \/ Exists(r))

(* The calendar of confirmed bookings that still hold their slot.          *)
reserved ==
    [b \in Ids |-> IF Confirmed(b) /\ Held(bookings[b].slot.day, b)
                   THEN bookings[b].slot ELSE None]

BookingCalendar == INSTANCE Calendar WITH reserved <- reserved

ImplementsCalendar == BookingCalendar!Spec
=============================================================================
