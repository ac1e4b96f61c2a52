---------------------------- MODULE BookingProofs ----------------------------
(***************************************************************************)
(* Creating and cancelling bookings is safe for any number of requests,    *)
(* bookings, days, slots and keys, in every interleaving, whichever        *)
(* inserts of bookings, events and jobs are rejected.                      *)
(*                                                                         *)
(* The inductive invariant follows the slot of a booking through its life: *)
(* nobody but the request that minted an id touches its entry until the    *)
(* document exists (LockOfCreate); from then on it stays until a cancel or *)
(* the catch block of its own create removes it (KeptUntilReleased), and a *)
(* cancel that has removed it also withdraws the booking (Shapes,          *)
(* UpdateCancels).                                                         *)
(***************************************************************************)
EXTENDS Booking, LockStoreProofs

(* The setting of the theorems: no reschedules, and no rejected update or  *)
(* release.                                                                *)
CreateCancelOnly ==
    Ops \subseteq {"create", "cancel"} /\ Faults \subseteq {"insert", "event", "enqueue"}

Insert(r) == tasks[r]["insert"]
Update(r) == tasks[r]["update"]
Event(r) == tasks[r]["event"]
Release(r) == tasks[r]["release"]

Creating(r) ==
    /\ req[r].slot \in Slots /\ req[r].key \in Keys /\ req[r].target = None
    /\ Update(r) = "off" /\ Release(r) = "off"
    /\ Insert(r) = "off" => pc[r] \in {"validate", "refused", "done"}
    /\ Insert(r) # "off" => pc[r] \in {"parallel", "enqueue", "done", "catch", "unlock", "failed"}
    /\ Insert(r) = "off" <=> Event(r) = "off"
    /\ Insert(r) # "off" /\ pc[r] \in {"enqueue", "done"} => Insert(r) = "ok" /\ Event(r) = "ok"

Cancelling(r) ==
    /\ req[r].target \in Ids /\ Exists(req[r].target)
    /\ Insert(r) = "off"
    /\ Update(r) \in {"pending", "ok"} /\ Release(r) \in {"pending", "sent", "ok"}
    /\ Event(r) # "off"
    /\ pc[r] \in {"parallel", "enqueue", "done", "failed"}
    /\ pc[r] \in {"enqueue", "done"} => Update(r) = "ok" /\ Release(r) = "ok" /\ Event(r) = "ok"

NewShape(r) == pc[r] = "new" /\ req[r].target = None /\ tasks[r] = NoTasks

Shape(r) ==
    /\ req[r].op \in {"none", "create", "cancel"}
    /\ req[r].op = "none" => NewShape(r)
    /\ req[r].op = "create" => Creating(r)
    /\ req[r].op = "cancel" => Cancelling(r)
    /\ Insert(r) # "sent" /\ Event(r) \in {"off", "pending", "ok", "failed"}

Shapes == \A r \in Ids : Shape(r)

(* The entry of r while its own create has it in hand. *)
LockOf(r) ==
    /\ Insert(r) = "off" => ~Exists(r) /\ Nowhere(r) /\ endTimes[r] = None
    /\ Insert(r) \in {"pending", "failed"} =>
           ~Exists(r) /\ (Disowned(r) \/ HoldsSlot(r, req[r].slot))
    /\ Insert(r) = "ok" =>
           /\ Exists(r)
           /\ bookings[r].slot = req[r].slot
           /\ bookings[r].from = None
    /\ Disowned(r) => Nowhere(r)
    /\ Disowned(r) /\ pc[r] = "failed" => endTimes[r] = None

LockOfCreate == \A r \in Ids : LockOf(r)

Released(b) == \E r \in Ids : req[r].target = b /\ Release(r) \in {"sent", "ok"}

KeptUntilReleased ==
    \A b \in Ids : Exists(b) =>
        IF Released(b) \/ Disowned(b) THEN Nowhere(b) ELSE HoldsSlot(b, bookings[b].slot)

ReleaseClears == \A r \in Ids : Release(r) = "ok" => endTimes[req[r].target] = None

UpdateCancels ==
    /\ \A r \in Ids : Update(r) = "ok" => ~Confirmed(req[r].target)
    /\ \A b \in Ids : Exists(b) /\ ~Confirmed(b) =>
           \E r \in Ids : req[r].target = b /\ Update(r) = "ok"

IInv ==
    /\ TypeOK
    /\ StoreInv
    /\ Shapes
    /\ LockOfCreate
    /\ KeptUntilReleased
    /\ ReleaseClears
    /\ UpdateCancels
    /\ OneBookingPerKey

-----------------------------------------------------------------------------
LEMMA InitIInv == Init => IInv
<1> SUFFICES ASSUME Init PROVE IInv
  OBVIOUS
<1>1. TypeOK
  BY DEF Init, StoreInit, TypeOK, StoreType, Calls, NoTasks, Ended
<1>2. StoreInv
  BY StoreInitInv DEF Init
<1>3. Shapes
  BY DEF Init, Shapes, Shape, NewShape, NoTasks, TaskNames, Insert, Event
<1>4. LockOfCreate
  BY DEF Init, StoreInit, LockOfCreate, LockOf, NoTasks, TaskNames, Insert, Exists, Disowned, Nowhere, Held
<1>5. KeptUntilReleased /\ ReleaseClears /\ UpdateCancels /\ OneBookingPerKey
  BY DEF Init, KeptUntilReleased, ReleaseClears, UpdateCancels, OneBookingPerKey, Exists,
         NoTasks, TaskNames, Release, Update
<1> QED BY <1>1, <1>2, <1>3, <1>4, <1>5 DEF IInv

(* A slot that is held is held on the slot's day only. *)
LEMMA HolderIsElsewhereNowhere ==
  ASSUME StoreInv, NEW b \in Ids, NEW s \in Slots, HoldsSlot(b, s)
  PROVE  \A d \in Days : Held(d, b) => d = s.day
  BY SlotsAssumption, NoneAssumption DEF HoldsSlot, StoreInv, HeldOnce, Held

(* The states of the tasks of a request. *)
LEMMA TaskStates ==
  ASSUME IInv, NEW r \in Ids
  PROVE  /\ Insert(r) \in {"off", "pending", "ok", "failed"}
         /\ {Update(r), Release(r)} \subseteq {"off", "pending", "sent", "ok", "failed"}
         /\ Event(r) \in {"off", "pending", "ok", "failed"}
  BY DEF IInv, TypeOK, TaskNames, Shapes, Shape, Insert, Update, Event, Release

(* A request that has not arrived has done nothing. *)
LEMMA NewRequest ==
  ASSUME IInv, NEW r \in Ids, pc[r] = "new"
  PROVE  req[r].op = "none" /\ NewShape(r)
  BY TaskStates DEF IInv, Shapes, Shape, Creating, Cancelling

-----------------------------------------------------------------------------
(* Steps that touch neither the lock store nor the bookings *)

LEMMA LookupStep ==
  ASSUME IInv, NEW r \in Ids, NEW s \in Slots, NEW k \in Keys, CreateLookup(r, s, k)
  PROVE  IInv'
<1>1. /\ pc[r] = "new" /\ req[r].op = "none"
      /\ UNCHANGED <<zset, endTimes, bookings, events, jobs, tasks>>
      /\ req'[r] = [op |-> "create", target |-> None, slot |-> s, key |-> k]
      /\ pc'[r] \in {"done", "validate"}
      /\ \A q \in Ids \ {r} : req'[q] = req[q] /\ pc'[q] = pc[q]
      /\ tasks[r] = NoTasks /\ req[r].target = None
  BY NewRequest DEF IInv, TypeOK, NewShape, CreateLookup, Goto, store
<1>2. TypeOK'
  BY <1>1 DEF IInv, TypeOK, StoreType, CreateLookup, Goto, Calls, Ended
<1>3. StoreInv'
  BY <1>1, StoreUnchanged DEF IInv, store
<1>4. \A q \in Ids : req'[q].target = req[q].target
  BY <1>1
<1>5. Shapes'
  <2> SUFFICES ASSUME NEW q \in Ids PROVE Shape(q)'
    BY DEF Shapes
  <2>1. CASE q = r
    BY <1>1, <2>1 DEF Shape, Creating, NoTasks, TaskNames, Insert, Update, Event, Release
  <2>2. CASE q # r
    BY <1>1, <2>2 DEF IInv, Shapes, Shape, NewShape, Creating, Cancelling, Insert, Update,
       Event, Release, Exists
  <2> QED BY <2>1, <2>2
<1>6. LockOfCreate'
  BY <1>1 DEF IInv, LockOfCreate, LockOf, NoTasks, TaskNames, Insert, Exists, Disowned, Nowhere, Held, HoldsSlot
<1>7. (KeptUntilReleased /\ ReleaseClears /\ UpdateCancels /\ OneBookingPerKey)'
  BY <1>1, <1>4 DEF IInv, KeptUntilReleased, Released, ReleaseClears, UpdateCancels,
     OneBookingPerKey, Exists, Confirmed, Disowned, Nowhere, Held, HoldsSlot, Release, Update
<1> QED BY <1>2, <1>3, <1>5, <1>6, <1>7 DEF IInv

LEMMA CancelReadStep ==
  ASSUME IInv, NEW r \in Ids, NEW b \in Ids, CancelRead(r, b)
  PROVE  IInv'
<1>1. /\ pc[r] = "new" /\ req[r].op = "none" /\ Exists(b)
      /\ UNCHANGED <<zset, endTimes, bookings, events, jobs>>
      /\ req'[r] = [op |-> "cancel", target |-> b, slot |-> None, key |-> None]
      /\ pc'[r] = "parallel"
      /\ tasks'[r] = Start({"update", "event", "release"})
      /\ \A q \in Ids \ {r} : req'[q] = req[q] /\ pc'[q] = pc[q] /\ tasks'[q] = tasks[q]
      /\ tasks[r] = NoTasks /\ req[r].target = None
  BY NewRequest DEF IInv, TypeOK, NewShape, CancelRead, Goto, store
<1>2. TypeOK'
  <2>1. Start({"update", "event", "release"}) \in [TaskNames -> {"off", "pending", "sent", "ok", "failed"}]
    BY DEF Start
  <2> QED BY <1>1, <2>1 DEF IInv, TypeOK, StoreType, CancelRead, Goto, Calls, Ended
<1>3. StoreInv'
  BY <1>1, StoreUnchanged DEF IInv, store
<1>4. /\ Insert(r)' = "off" /\ Update(r)' = "pending"
      /\ Event(r)' = "pending" /\ Release(r)' = "pending"
  BY <1>1 DEF Insert, Update, Event, Release, Start, TaskNames
<1>5. Insert(r) = "off" /\ Update(r) = "off" /\ Release(r) = "off"
  BY <1>1 DEF NoTasks, TaskNames, Insert, Update, Release
<1>6. Shapes'
  <2> SUFFICES ASSUME NEW q \in Ids PROVE Shape(q)'
    BY DEF Shapes
  <2>1. CASE q = r
    BY <1>1, <1>4, <2>1 DEF Shape, Cancelling, Exists
  <2>2. CASE q # r
    BY <1>1, <2>2 DEF IInv, Shapes, Shape, NewShape, Creating, Cancelling, Insert, Update,
       Event, Release, Exists
  <2> QED BY <2>1, <2>2
<1>7. LockOfCreate'
  BY <1>1, <1>4, <1>5 DEF IInv, LockOfCreate, LockOf, Insert, Exists, Disowned, Nowhere, Held, HoldsSlot
<1>8. \A q \in Ids, c \in Ids :
         (req'[q].target = c /\ Release(q)' \in {"sent", "ok"}) <=>
         (req[q].target = c /\ Release(q) \in {"sent", "ok"})
  BY <1>1, <1>4, <1>5 DEF Release
<1>9. KeptUntilReleased'
  BY <1>1, <1>8 DEF IInv, KeptUntilReleased, Released, Exists, Disowned, Nowhere, Held, HoldsSlot
<1>10. (ReleaseClears /\ UpdateCancels /\ OneBookingPerKey)'
  BY <1>1, <1>4, <1>5 DEF IInv, ReleaseClears, UpdateCancels, OneBookingPerKey, Exists, Confirmed,
     Release, Update
<1> QED BY <1>2, <1>3, <1>6, <1>7, <1>9, <1>10 DEF IInv

(* The handler moves on; its tasks, the bookings and the locks stay. *)
LEMMA ControlStep ==
  ASSUME CreateCancelOnly, IInv, NEW r \in Ids,
         Refuse(r) \/ AllResolved(r) \/ OneRejected(r) \/ EnqueueJob(r)
  PROVE  IInv'
<1>1. /\ UNCHANGED <<zset, endTimes, bookings, events, req, tasks>>
      /\ jobs' \subseteq Ids
      /\ \A q \in Ids \ {r} : pc'[q] = pc[q]
  BY DEF IInv, TypeOK, Refuse, AllResolved, OneRejected, EnqueueJob, Goto, store
<1>2. Shape(r)
  BY DEF IInv, Shapes
<1>3. /\ Shape(r)'
      /\ pc'[r] \in Ended \cup {"parallel", "enqueue", "catch"}
      /\ ~Disowned(r) /\ ~Disowned(r)'
  <2>1. CASE Refuse(r)
    BY <1>1, <1>2, <2>1 DEF IInv, TypeOK, Refuse, Goto, Shape, NewShape, Creating, Cancelling,
       Insert, Update, Event, Release, Exists, Ended, Disowned
  <2>2. CASE AllResolved(r)
    <3>1. pc[r] = "parallel" /\ req[r].op \in {"create", "cancel"} /\ pc'[r] = "enqueue"
      BY <1>2, <2>2 DEF IInv, TypeOK, AllResolved, Goto, Shape, NewShape
    <3>2. {Insert(r), Update(r), Event(r), Release(r)} \subseteq {"off", "ok"}
      BY <2>2 DEF AllResolved, TaskNames, Insert, Update, Event, Release
    <3> QED BY <1>1, <1>2, <3>1, <3>2 DEF Shape, NewShape, Creating, Cancelling,
          Insert, Update, Event, Release, Exists, Disowned
  <2>3. CASE OneRejected(r)
    <3>1. pc[r] = "parallel" /\ req[r].op \in {"create", "cancel"} /\ pc'[r] = OnRejection(r)
      BY <1>2, <2>3 DEF IInv, TypeOK, OneRejected, Goto, Shape, NewShape
    <3>2. req[r].op = "create" => Insert(r) # "off"
      BY <1>2, <3>1 DEF Shape, Creating
    <3> QED BY <1>1, <1>2, <3>1, <3>2 DEF OnRejection, Shape, NewShape, Creating, Cancelling,
          Insert, Update, Event, Release, Exists, Ended, Disowned
  <2>4. CASE EnqueueJob(r)
    <3>1. pc[r] = "enqueue" /\ req[r].op \in {"create", "cancel"} /\ pc'[r] \in {"done", OnRejection(r)}
      BY <1>2, <2>4 DEF IInv, TypeOK, EnqueueJob, Goto, Shape, NewShape
    <3>2. req[r].op = "create" => Insert(r) # "off"
      BY <1>2, <3>1 DEF Shape, Creating
    <3> QED BY <1>1, <1>2, <3>1, <3>2 DEF OnRejection, Shape, NewShape, Creating, Cancelling,
          Insert, Update, Event, Release, Exists, Ended, Disowned
  <2> QED BY <2>1, <2>2, <2>3, <2>4
<1>4. TypeOK'
  <2>1. pc' \in [Ids -> Ended \cup {"validate", "hget", "swap", "parallel", "enqueue", "catch", "unlock"}]
    BY <1>3 DEF IInv, TypeOK, Refuse, AllResolved, OneRejected, EnqueueJob, Goto
  <2> QED BY <1>1, <2>1 DEF IInv, TypeOK, StoreType
<1>5. StoreInv'
  BY <1>1, StoreUnchanged DEF IInv, store
<1>6. Shapes'
  BY <1>1, <1>3 DEF IInv, Shapes, Shape, NewShape, Creating, Cancelling, Insert, Update,
     Event, Release, Exists
<1>7. LockOfCreate'
  BY <1>1, <1>3 DEF IInv, LockOfCreate, LockOf, Insert, Exists, Disowned, Nowhere, Held, HoldsSlot
<1>8. \A q \in Ids : Disowned(q)' <=> Disowned(q)
  BY <1>1, <1>3 DEF Disowned
<1>9. (KeptUntilReleased /\ ReleaseClears /\ UpdateCancels /\ OneBookingPerKey)'
  BY <1>1, <1>8 DEF IInv, KeptUntilReleased, Released, ReleaseClears, UpdateCancels,
     OneBookingPerKey, Exists, Confirmed, Nowhere, Held, HoldsSlot, Release, Update
<1> QED BY <1>4, <1>5, <1>6, <1>7, <1>9 DEF IInv

LEMMA CreateEventStep ==
  ASSUME IInv, NEW r \in Ids, CreateEvent(r)
  PROVE  IInv'
<1>1. PICK how \in {"ok", "failed"} :
         /\ UNCHANGED <<zset, endTimes, bookings, jobs, req, pc>>
         /\ events' \subseteq Ids
         /\ tasks' = [tasks EXCEPT ![r]["event"] = how]
         /\ tasks[r]["event"] = "pending"
  BY DEF IInv, TypeOK, CreateEvent, EndTask, store
<1>2. \A q \in Ids : /\ Insert(q)' = Insert(q) /\ Update(q)' = Update(q) /\ Release(q)' = Release(q)
                     /\ Event(q)' = IF q = r THEN how ELSE Event(q)
  BY <1>1 DEF IInv, TypeOK, TaskNames, Insert, Update, Release, Event
<1>3. TypeOK'
  BY <1>1 DEF IInv, TypeOK, StoreType, TaskNames
<1>4. StoreInv'
  BY <1>1, StoreUnchanged DEF IInv, store
<1>5. Shapes'
  <2> SUFFICES ASSUME NEW q \in Ids PROVE Shape(q)'
    BY DEF Shapes
  <2>1. Shape(q)
    BY DEF IInv, Shapes
  <2>2. CASE q = r
    <3>1. Event(r) = "pending" /\ ~NewShape(r)
      BY <1>1 DEF NewShape, NoTasks, TaskNames, Event
    <3> QED BY <1>1, <1>2, <2>1, <2>2, <3>1 DEF Shape, Creating, Cancelling, Exists
  <2>3. CASE q # r
    <3>1. tasks'[q] = tasks[q]
      BY <1>1, <2>3 DEF IInv, TypeOK
    <3> QED BY <1>1, <1>2, <2>1, <2>3, <3>1 DEF Shape, NewShape, Creating, Cancelling, Exists
  <2> QED BY <2>2, <2>3
<1>6. (LockOfCreate /\ KeptUntilReleased /\ ReleaseClears /\ UpdateCancels /\ OneBookingPerKey)'
  BY <1>1, <1>2 DEF IInv, LockOfCreate, LockOf, KeptUntilReleased, Released, ReleaseClears, UpdateCancels,
     OneBookingPerKey, Exists, Confirmed, Disowned, Nowhere, Held, HoldsSlot
<1> QED BY <1>3, <1>4, <1>5, <1>6 DEF IInv

-----------------------------------------------------------------------------
(* Steps on the lock store *)

(* A request with an insert is a create, and its slot is a slot. *)
LEMMA InsertsAreCreates ==
  ASSUME IInv, NEW r \in Ids, Insert(r) # "off"
  PROVE  req[r].op = "create" /\ Creating(r) /\ req[r].slot \in Slots
<1>1. Shape(r)
  BY DEF IInv, Shapes
<1>2. req[r].op # "none"
  BY <1>1 DEF Shape, NewShape, NoTasks, TaskNames, Insert
<1>3. req[r].op # "cancel"
  BY <1>1 DEF Shape, Cancelling
<1> QED BY <1>1, <1>2, <1>3 DEF Shape, Creating

(* So is the slot of a booking. *)
LEMMA BookedSlots ==
  ASSUME IInv, NEW b \in Ids, Exists(b)
  PROVE  /\ bookings[b] \in Documents
         /\ bookings[b].slot \in Slots /\ bookings[b].slot.day \in Days
  BY SlotsAssumption DEF IInv, TypeOK, Exists, Documents

(* Only a cancel, of an existing booking, updates or releases. *)
LEMMA CancelTasks ==
  ASSUME IInv, NEW r \in Ids, Update(r) # "off" \/ Release(r) # "off"
  PROVE  /\ req[r].op = "cancel" /\ Cancelling(r)
         /\ req[r].target \in Ids /\ Exists(req[r].target)
         /\ Insert(req[r].target) = "ok"
<1>1. Shape(r)
  BY DEF IInv, Shapes
<1>2. req[r].op # "none"
  BY <1>1 DEF Shape, NewShape, NoTasks, TaskNames, Update, Release
<1>3. req[r].op # "create"
  BY <1>1 DEF Shape, Creating
<1>4. req[r].op = "cancel" /\ Cancelling(r)
  BY <1>1, <1>2, <1>3 DEF Shape
<1>5. req[r].target \in Ids /\ Exists(req[r].target)
  BY <1>4 DEF Cancelling
<1>6. Insert(req[r].target) = "ok"
  BY <1>5, TaskStates DEF IInv, LockOfCreate, LockOf
<1> QED BY <1>4, <1>5, <1>6

LEMMA CreateAcquireStep ==
  ASSUME CreateCancelOnly, IInv, NEW r \in Ids, CreateAcquire(r)
  PROVE  IInv'
<1> DEFINE s == req[r].slot
<1>1. /\ req[r].op = "create" /\ pc[r] = "validate" /\ Shape(r) /\ Creating(r)
      /\ s \in Slots /\ s.day \in Days
      /\ UNCHANGED <<bookings, events, jobs, req>>
      /\ \A q \in Ids \ {r} : pc'[q] = pc[q] /\ tasks'[q] = tasks[q]
  BY SlotsAssumption DEF IInv, TypeOK, Shapes, Shape, Creating, CreateAcquire, Goto
<1>2. Insert(r) = "off"
  BY <1>1, TaskStates DEF Creating
<1>3. ~Exists(r) /\ Nowhere(r) /\ endTimes[r] = None
  BY <1>2 DEF IInv, LockOfCreate, LockOf
<1>4. CASE AcquireConflict(s) /\ UNCHANGED <<store, tasks>> /\ Goto(r, "refused")
  <2>1. UNCHANGED <<zset, endTimes, tasks>> /\ pc'[r] = "refused"
    BY <1>4 DEF IInv, TypeOK, Goto, store
  <2>2. TypeOK' /\ StoreInv'
    BY <1>1, <1>4, <2>1, StoreUnchanged DEF IInv, TypeOK, StoreType, Goto, Ended
  <2>3. Shapes'
    BY <1>1, <1>2, <2>1 DEF IInv, Shapes, Shape, NewShape, Creating, Cancelling, Insert,
       Update, Event, Release, Exists
  <2>4. LockOfCreate'
    BY <1>1, <1>2, <2>1 DEF IInv, LockOfCreate, LockOf, Insert, Exists, Disowned, Nowhere, Held, HoldsSlot
  <2>5. (KeptUntilReleased /\ ReleaseClears /\ UpdateCancels /\ OneBookingPerKey)'
    BY <1>1, <2>1 DEF IInv, KeptUntilReleased, Released, ReleaseClears, UpdateCancels,
       OneBookingPerKey, Exists, Confirmed, Disowned, Nowhere, Held, HoldsSlot, Release, Update
  <2> QED BY <2>2, <2>3, <2>4, <2>5 DEF IInv
<1>5. CASE /\ AcquireScript(r, s) /\ Goto(r, "parallel")
           /\ tasks' = [tasks EXCEPT ![r] = Start({"insert", "event"})]
  <2>1. StoreInv'
    BY <1>1, <1>3, <1>5, AcquireKeepsStore DEF IInv
  <2>2. /\ tasks'[r] = Start({"insert", "event"}) /\ pc'[r] = "parallel"
        /\ Start({"insert", "event"}) \in [TaskNames -> {"off", "pending", "sent", "ok", "failed"}]
    BY <1>5 DEF IInv, TypeOK, Goto, Start
  <2>3. TypeOK'
    BY <1>1, <1>5, <2>1, <2>2 DEF IInv, StoreInv, TypeOK, Goto, Ended
  <2>4. /\ Insert(r)' = "pending" /\ Update(r)' = "off"
        /\ Event(r)' = "pending" /\ Release(r)' = "off"
    BY <2>2 DEF Insert, Update, Event, Release, Start, TaskNames
  <2>5. /\ \A d \in Days, x \in Ids : x # r => zset'[d][x] = zset[d][x]
        /\ \A x \in Ids : x # r => endTimes'[x] = endTimes[x]
        /\ zset'[s.day][r] = s.start /\ endTimes'[r] = s.end
    BY <1>1, <1>5 DEF IInv, StoreInv, StoreType, AcquireScript
  <2>6. Shapes'
    <3> SUFFICES ASSUME NEW q \in Ids PROVE Shape(q)'
      BY DEF Shapes
    <3>1. CASE q = r
      BY <1>1, <2>2, <2>4, <3>1 DEF Shape, Creating
    <3>2. CASE q # r
      BY <1>1, <3>2 DEF IInv, Shapes, Shape, NewShape, Creating, Cancelling, Insert, Update,
         Event, Release, Exists
    <3> QED BY <3>1, <3>2
  <2>7. LockOfCreate'
    <3> SUFFICES ASSUME NEW q \in Ids PROVE LockOf(q)'
      BY DEF LockOfCreate
    <3>1. CASE q = r
      BY <1>1, <1>3, <2>2, <2>4, <2>5, <3>1 DEF LockOf, Exists, HoldsSlot, Disowned
    <3>2. CASE q # r
      <4>1. Insert(q)' = Insert(q) /\ pc'[q] = pc[q]
        BY <1>1, <3>2 DEF Insert
      <4>2. Insert(q) # "off" => req[q].slot.day \in Days
        BY InsertsAreCreates, SlotsAssumption
      <4> QED BY <1>1, <2>5, <3>2, <4>1, <4>2 DEF IInv, LockOfCreate, LockOf, Exists, Disowned, Nowhere, Held, HoldsSlot
    <3> QED BY <3>1, <3>2
  <2>8. \A q \in Ids : Release(q)' \in {"sent", "ok"} => q # r /\ Release(q)' = Release(q)
    BY <1>1, <2>4 DEF Release
  <2>9. \A q \in Ids : Release(q) \in {"sent", "ok"} => q # r /\ Release(q)' = Release(q)
    BY <1>1 DEF Release, Creating
  <2>10. \A q \in Ids : Update(q)' = Update(q)
    BY <1>1, <2>4 DEF Update, Creating
  <2>11. KeptUntilReleased'
    BY <1>1, <1>3, <2>5, <2>8, <2>9, BookedSlots
       DEF IInv, KeptUntilReleased, Released, Exists, Disowned, Nowhere, Held, HoldsSlot
  <2>12. ReleaseClears'
    <3> SUFFICES ASSUME NEW q \in Ids, Release(q)' = "ok" PROVE endTimes'[req[q].target] = None
      BY <1>1 DEF ReleaseClears
    <3>1. Release(q) = "ok" /\ q # r
      BY <2>8
    <3>2. req[q].target \in Ids /\ Exists(req[q].target)
      BY <3>1, CancelTasks
    <3> QED BY <1>3, <2>5, <3>1, <3>2 DEF IInv, ReleaseClears
  <2>13. (UpdateCancels /\ OneBookingPerKey)'
    BY <1>1, <2>10 DEF IInv, UpdateCancels, OneBookingPerKey, Exists, Confirmed
  <2> QED BY <2>1, <2>3, <2>6, <2>7, <2>11, <2>12, <2>13 DEF IInv
<1> QED BY <1>4, <1>5 DEF CreateAcquire

(* The catch block runs in a create that has taken its slot. *)
LEMMA CatchesAreCreates ==
  ASSUME IInv, NEW r \in Ids, pc[r] \in {"catch", "unlock"}
  PROVE  /\ req[r].op = "create" /\ Creating(r) /\ Insert(r) # "off"
         /\ req[r].slot \in Slots /\ req[r].slot.day \in Days
<1>1. Shape(r)
  BY DEF IInv, Shapes
<1>2. req[r].op = "create" /\ Creating(r) /\ Insert(r) # "off"
  BY <1>1 DEF Shape, NewShape, Creating, Cancelling
<1> QED BY <1>2, SlotsAssumption DEF Creating

(* What an id holds in the lock store before its catch block runs. *)
LEMMA EntryBeforeCatch ==
  ASSUME IInv, NEW r \in Ids, pc[r] = "catch"
  PROVE  Nowhere(r) \/ HoldsSlot(r, req[r].slot)
<1>1. Insert(r) \in {"pending", "failed", "ok"} /\ ~Disowned(r)
  BY CatchesAreCreates, TaskStates DEF Disowned
<1> QED BY <1>1 DEF IInv, LockOfCreate, LockOf, KeptUntilReleased

LEMMA CatchZRemStep ==
  ASSUME IInv, NEW r \in Ids, CatchZRem(r)
  PROVE  IInv'
<1> DEFINE s == req[r].slot
<1>1. /\ pc[r] = "catch" /\ Creating(r) /\ req[r].op = "create" /\ Insert(r) # "off"
      /\ s \in Slots /\ s.day \in Days
  BY CatchesAreCreates DEF CatchZRem
<1>2. /\ UNCHANGED <<endTimes, bookings, events, jobs, req, tasks>>
      /\ zset' = [zset EXCEPT ![s.day][r] = None]
      /\ pc'[r] = "unlock"
      /\ \A q \in Ids \ {r} : pc'[q] = pc[q]
  BY DEF IInv, TypeOK, CatchZRem, ZRem, Goto
<1>3. StoreInv'
  BY <1>1, ZRemKeepsStore DEF IInv, CatchZRem
<1>4. /\ \A d \in Days, x \in Ids : x # r => zset'[d][x] = zset[d][x]
      /\ \A d \in Days : d # s.day => zset'[d][r] = zset[d][r]
      /\ zset'[s.day][r] = None
  BY <1>1, <1>2 DEF IInv, StoreInv, StoreType
<1>5. \A d \in Days : zset'[d][r] = None
  <2>1. CASE Nowhere(r)
    BY <1>1, <1>4, <2>1 DEF Nowhere, Held
  <2>2. CASE HoldsSlot(r, s)
    BY <1>1, <1>4, <2>2, HolderIsElsewhereNowhere DEF IInv, Held
  <2> QED BY <1>1, <2>1, <2>2, EntryBeforeCatch
<1>6. Disowned(r)' /\ ~Disowned(r) /\ \A q \in Ids \ {r} : Disowned(q)' <=> Disowned(q)
  BY <1>1, <1>2 DEF Disowned
<1>7. TypeOK'
  BY <1>2, <1>3 DEF IInv, StoreInv, TypeOK, CatchZRem, Goto
<1>8. Shapes'
  BY <1>1, <1>2 DEF IInv, Shapes, Shape, NewShape, Creating, Cancelling, Insert, Update,
     Event, Release, Exists
<1>9. LockOfCreate'
  <2> SUFFICES ASSUME NEW q \in Ids PROVE LockOf(q)'
    BY DEF LockOfCreate
  <2>1. LockOf(q)
    BY DEF IInv, LockOfCreate
  <2>2. CASE q = r
    BY <1>1, <1>2, <1>5, <1>6, <2>1, <2>2 DEF LockOf, Insert, Exists, Nowhere, Held
  <2>3. CASE q # r
    <3>1. Insert(q) # "off" => req[q].slot.day \in Days
      BY InsertsAreCreates, SlotsAssumption
    <3> QED BY <1>2, <1>4, <1>6, <2>1, <2>3, <3>1 DEF LockOf, Insert, Exists, Nowhere, Held, HoldsSlot
  <2> QED BY <2>2, <2>3
<1>10. KeptUntilReleased'
  <2> SUFFICES ASSUME NEW x \in Ids, Exists(x)
               PROVE  IF Released(x)' \/ Disowned(x)' THEN Nowhere(x)' ELSE HoldsSlot(x, bookings[x].slot)'
    BY <1>2 DEF KeptUntilReleased, Exists
  <2>1. CASE x = r
    BY <1>5, <1>6, <2>1 DEF Nowhere, Held
  <2>2. CASE x # r
    <3>1. bookings[x].slot.day \in Days /\ (Released(x)' <=> Released(x))
      BY <1>2, BookedSlots DEF Released, Release
    <3> QED BY <1>2, <1>4, <1>6, <2>2, <3>1 DEF IInv, KeptUntilReleased, Nowhere, Held, HoldsSlot
  <2> QED BY <2>1, <2>2
<1>11. (ReleaseClears /\ UpdateCancels /\ OneBookingPerKey)'
  BY <1>2 DEF IInv, ReleaseClears, UpdateCancels, OneBookingPerKey, Exists, Confirmed, Release, Update
<1> QED BY <1>3, <1>7, <1>8, <1>9, <1>10, <1>11 DEF IInv

LEMMA CatchHDelStep ==
  ASSUME IInv, NEW r \in Ids, CatchHDel(r)
  PROVE  IInv'
<1>1. pc[r] = "unlock" /\ Creating(r) /\ req[r].op = "create" /\ Insert(r) # "off" /\ Disowned(r)
  BY CatchesAreCreates DEF CatchHDel, Disowned
<1>2. /\ UNCHANGED <<zset, bookings, events, jobs, req, tasks>>
      /\ endTimes' = [endTimes EXCEPT ![r] = None]
      /\ pc'[r] = "failed"
      /\ \A q \in Ids \ {r} : pc'[q] = pc[q]
  BY DEF IInv, TypeOK, CatchHDel, HDel, Goto
<1>3. Nowhere(r)
  BY <1>1 DEF IInv, LockOfCreate, LockOf
<1>4. StoreInv'
  BY <1>3, HDelKeepsStore DEF IInv, CatchHDel
<1>5. /\ \A x \in Ids : x # r => endTimes'[x] = endTimes[x]
      /\ endTimes'[r] = None
      /\ \A q \in Ids : Disowned(q)' <=> Disowned(q)
  BY <1>1, <1>2 DEF IInv, StoreInv, StoreType, Disowned
<1>6. TypeOK'
  BY <1>2, <1>4 DEF IInv, StoreInv, TypeOK, CatchHDel, Goto, Ended
<1>7. Shapes'
  BY <1>1, <1>2 DEF IInv, Shapes, Shape, NewShape, Creating, Cancelling, Insert, Update,
     Event, Release, Exists
<1>8. LockOfCreate'
  <2> SUFFICES ASSUME NEW q \in Ids PROVE LockOf(q)'
    BY DEF LockOfCreate
  <2>1. LockOf(q)
    BY DEF IInv, LockOfCreate
  <2> QED BY <1>1, <1>2, <1>3, <1>5, <2>1 DEF LockOf, Insert, Exists, Nowhere, Held, HoldsSlot
<1>9. KeptUntilReleased'
  <2>1. \A x \in Ids : Released(x)' <=> Released(x)
    BY <1>2 DEF Released, Release
  <2> QED BY <1>1, <1>2, <1>5, <2>1 DEF IInv, KeptUntilReleased, Exists, Nowhere, Held, HoldsSlot
<1>10. ReleaseClears'
  BY <1>2, <1>5, CancelTasks DEF IInv, ReleaseClears, Release
<1>11. (UpdateCancels /\ OneBookingPerKey)'
  BY <1>2 DEF IInv, UpdateCancels, OneBookingPerKey, Exists, Confirmed, Update
<1> QED BY <1>4, <1>6, <1>7, <1>8, <1>9, <1>10, <1>11 DEF IInv

LEMMA ReleaseZRemStep ==
  ASSUME CreateCancelOnly, IInv, NEW r \in Ids, ReleaseZRem(r)
  PROVE  IInv'
<1> DEFINE b == req[r].target  s == bookings[b].slot
<1>1. /\ Cancelling(r) /\ req[r].op = "cancel" /\ b \in Ids /\ Exists(b) /\ Insert(b) = "ok"
      /\ s \in Slots /\ s.day \in Days
      /\ Release(r) = "pending"
  BY CancelTasks, BookedSlots DEF ReleaseZRem, Release
<1>2. /\ UNCHANGED <<endTimes, bookings, events, jobs, req, pc>>
      /\ zset' = [zset EXCEPT ![s.day][b] = None]
      /\ tasks' = [tasks EXCEPT ![r]["release"] = "sent"]
  BY DEF CreateCancelOnly, ReleaseZRem, ZRem, EndTask, OldDay
<1>3. StoreInv'
  BY <1>1, ZRemKeepsStore DEF CreateCancelOnly, IInv, ReleaseZRem, OldDay
<1>4. /\ \A d \in Days, x \in Ids : x # b => zset'[d][x] = zset[d][x]
      /\ \A d \in Days : d # s.day => zset'[d][b] = zset[d][b]
      /\ zset'[s.day][b] = None
  BY <1>1, <1>2 DEF IInv, StoreInv, StoreType
<1>5. \A d \in Days : zset'[d][b] = None
  <2>1. CASE Released(b) \/ Disowned(b)
    BY <1>1, <1>4, <2>1 DEF IInv, KeptUntilReleased, Nowhere, Held
  <2>2. CASE ~(Released(b) \/ Disowned(b))
    BY <1>1, <1>4, <2>2, HolderIsElsewhereNowhere DEF IInv, KeptUntilReleased, Held
  <2> QED BY <2>1, <2>2
<1>6. \A q \in Ids : /\ Insert(q)' = Insert(q) /\ Update(q)' = Update(q) /\ Event(q)' = Event(q)
                     /\ Release(q)' = IF q = r THEN "sent" ELSE Release(q)
  BY <1>2 DEF IInv, TypeOK, TaskNames, Insert, Update, Release, Event
<1>7. TypeOK'
  BY <1>2, <1>3 DEF IInv, StoreInv, TypeOK, TaskNames
<1>8. Shapes'
  <2> SUFFICES ASSUME NEW q \in Ids PROVE Shape(q)'
    BY DEF Shapes
  <2>1. Shape(q)
    BY DEF IInv, Shapes
  <2>2. CASE q = r
    BY <1>1, <1>2, <1>6, <2>1, <2>2 DEF Shape, Cancelling, Exists
  <2>3. CASE q # r
    <3>1. tasks'[q] = tasks[q]
      BY <1>2, <2>3 DEF IInv, TypeOK
    <3> QED BY <1>2, <1>6, <2>1, <2>3, <3>1 DEF Shape, NewShape, Creating, Cancelling, Exists
  <2> QED BY <2>2, <2>3
<1>9. LockOfCreate'
  <2>1. \A q \in Ids : Insert(q) # "off" => req[q].slot.day \in Days
    BY InsertsAreCreates, SlotsAssumption
  <2>2. SUFFICES ASSUME NEW q \in Ids PROVE LockOf(q)'
    BY DEF LockOfCreate
  <2>3. LockOf(q)
    BY DEF IInv, LockOfCreate
  <2>4. CASE q = b
    <3>1. Insert(q)' = "ok" /\ (Exists(q) <=> Exists(q)') /\ bookings'[q] = bookings[q]
      BY <1>1, <1>2, <1>6, <2>4 DEF Exists
    <3>2. Nowhere(q)'
      BY <1>5, <2>4 DEF Nowhere, Held
    <3>3. endTimes'[q] = endTimes[q] /\ req'[q] = req[q] /\ pc'[q] = pc[q]
      BY <1>2
    <3> QED BY <1>1, <2>3, <2>4, <3>1, <3>2, <3>3 DEF LockOf, Disowned
  <2>5. CASE q # b
    <3>1. Insert(q)' = Insert(q) /\ (Exists(q)' <=> Exists(q)) /\ (Disowned(q)' <=> Disowned(q))
      BY <1>2, <1>6, <2>5 DEF Exists, Disowned
    <3>2. \A d \in Days : zset'[d][q] = zset[d][q]
      BY <1>4, <2>5
    <3>3. Nowhere(q)' <=> Nowhere(q)
      BY <3>2 DEF Nowhere, Held
    <3>4. Insert(q) # "off" => (HoldsSlot(q, req[q].slot)' <=> HoldsSlot(q, req[q].slot))
      BY <1>2, <2>1, <3>2 DEF HoldsSlot
    <3> QED BY <1>2, <2>3, <3>1, <3>3, <3>4 DEF LockOf
  <2> QED BY <2>4, <2>5
<1>10. KeptUntilReleased'
  <2> SUFFICES ASSUME NEW x \in Ids, Exists(x)
               PROVE  IF Released(x)' \/ Disowned(x)' THEN Nowhere(x)' ELSE HoldsSlot(x, bookings[x].slot)'
    BY <1>2 DEF KeptUntilReleased, Exists
  <2>1. CASE x = b
    BY <1>1, <1>2, <1>5, <1>6, <2>1 DEF Released, Disowned, Nowhere, Held
  <2>2. CASE x # b
    <3>1. Released(x)' <=> Released(x)
      BY <1>2, <1>6, <2>2 DEF Released
    <3>2. bookings[x].slot.day \in Days
      BY BookedSlots
    <3>3. Disowned(x)' <=> Disowned(x)
      BY <1>2 DEF Disowned
    <3> QED BY <1>2, <1>4, <2>2, <3>1, <3>2, <3>3 DEF IInv, KeptUntilReleased, Nowhere, Held, HoldsSlot
  <2> QED BY <2>1, <2>2
<1>11. (ReleaseClears /\ UpdateCancels /\ OneBookingPerKey)'
  BY <1>2, <1>6 DEF IInv, ReleaseClears, UpdateCancels, OneBookingPerKey, Exists, Confirmed
<1> QED BY <1>3, <1>7, <1>8, <1>9, <1>10, <1>11 DEF IInv

LEMMA ReleaseHDelStep ==
  ASSUME CreateCancelOnly, IInv, NEW r \in Ids, ReleaseHDel(r)
  PROVE  IInv'
<1> DEFINE b == req[r].target
<1>1. /\ Cancelling(r) /\ req[r].op = "cancel" /\ b \in Ids /\ Exists(b) /\ Insert(b) = "ok"
      /\ Release(r) = "sent"
  BY CancelTasks DEF ReleaseHDel, Release
<1>2. Released(b) /\ Nowhere(b)
  BY <1>1 DEF IInv, Released, KeptUntilReleased
<1>3. /\ UNCHANGED <<zset, bookings, events, jobs, req, pc>>
      /\ endTimes' = [endTimes EXCEPT ![b] = None]
      /\ tasks' = [tasks EXCEPT ![r]["release"] = "ok"]
  BY DEF CreateCancelOnly, ReleaseHDel, HDel, EndTask
<1>4. StoreInv'
  BY <1>1, <1>2, HDelKeepsStore DEF CreateCancelOnly, IInv, ReleaseHDel
<1>5. /\ \A x \in Ids : x # b => endTimes'[x] = endTimes[x]
      /\ endTimes'[b] = None
  BY <1>1, <1>3 DEF IInv, StoreInv, StoreType
<1>6. \A q \in Ids : /\ Insert(q)' = Insert(q) /\ Update(q)' = Update(q) /\ Event(q)' = Event(q)
                     /\ Release(q)' = IF q = r THEN "ok" ELSE Release(q)
  BY <1>3 DEF IInv, TypeOK, TaskNames, Insert, Update, Release, Event
<1>7. TypeOK'
  BY <1>3, <1>4 DEF IInv, StoreInv, TypeOK, TaskNames
<1>8. Shapes'
  <2> SUFFICES ASSUME NEW q \in Ids PROVE Shape(q)'
    BY DEF Shapes
  <2>1. Shape(q)
    BY DEF IInv, Shapes
  <2>2. CASE q = r
    BY <1>1, <1>3, <1>6, <2>1, <2>2 DEF Shape, Cancelling, Exists
  <2>3. CASE q # r
    <3>1. tasks'[q] = tasks[q]
      BY <1>3, <2>3 DEF IInv, TypeOK
    <3> QED BY <1>3, <1>6, <2>1, <2>3, <3>1 DEF Shape, NewShape, Creating, Cancelling, Exists
  <2> QED BY <2>2, <2>3
<1>9. LockOfCreate'
  <2> SUFFICES ASSUME NEW q \in Ids PROVE LockOf(q)'
    BY DEF LockOfCreate
  <2>1. LockOf(q)
    BY DEF IInv, LockOfCreate
  <2> QED BY <1>1, <1>3, <1>5, <1>6, <2>1 DEF LockOf, Exists, Disowned, Nowhere, Held, HoldsSlot
<1>10. KeptUntilReleased'
  <2>1. \A x \in Ids : Released(x)' <=> Released(x)
    BY <1>1, <1>3, <1>6 DEF Released
  <2> QED BY <1>1, <1>2, <1>3, <1>5, <2>1 DEF IInv, KeptUntilReleased, Exists, Disowned, Nowhere, Held, HoldsSlot
<1>11. ReleaseClears'
  <2> SUFFICES ASSUME NEW q \in Ids, Release(q)' = "ok" PROVE endTimes'[req[q].target] = None
    BY <1>3 DEF ReleaseClears
  <2>1. CASE q = r
    BY <1>5, <2>1
  <2>2. CASE q # r
    <3>1. Release(q) = "ok"
      BY <1>6, <2>2
    <3> QED BY <1>5, <3>1, CancelTasks DEF IInv, ReleaseClears
  <2> QED BY <2>1, <2>2
<1>12. (UpdateCancels /\ OneBookingPerKey)'
  BY <1>3, <1>6 DEF IInv, UpdateCancels, OneBookingPerKey, Exists, Confirmed
<1> QED BY <1>4, <1>7, <1>8, <1>9, <1>10, <1>11, <1>12 DEF IInv

-----------------------------------------------------------------------------
(* Steps on the bookings *)

LEMMA InsertBookingStep ==
  ASSUME IInv, NEW r \in Ids, InsertBooking(r)
  PROVE  IInv'
<1> DEFINE s == req[r].slot  k == req[r].key
<1>1. /\ Insert(r) = "pending" /\ Creating(r) /\ req[r].op = "create"
      /\ s \in Slots /\ k \in Keys /\ req[r].target = None
      /\ UNCHANGED <<zset, endTimes, events, jobs, req, pc>>
  BY InsertsAreCreates DEF InsertBooking, Insert, Creating, store
<1>2. ~Exists(r) /\ (Disowned(r) \/ HoldsSlot(r, s)) /\ (Disowned(r) => Nowhere(r))
  BY <1>1 DEF IInv, LockOfCreate, LockOf
<1>3. StoreInv'
  BY <1>1, StoreUnchanged DEF IInv, store
<1>4. PICK how \in {"ok", "failed"} : EndTask(r, "insert", how)
  BY DEF InsertBooking
<1>5. \A q \in Ids : /\ Update(q)' = Update(q) /\ Release(q)' = Release(q) /\ Event(q)' = Event(q)
                     /\ Insert(q)' = IF q = r THEN how ELSE Insert(q)
                     /\ q # r => tasks'[q] = tasks[q]
  BY <1>4 DEF IInv, TypeOK, TaskNames, EndTask, Insert, Update, Release, Event
<1>6. \A q \in Ids : Update(q) # "off" \/ Release(q) # "off" =>
         req[q].target \in Ids /\ Exists(req[q].target) /\ req[q].target # r
  BY <1>2, CancelTasks
<1>7. tasks' \in [Ids -> [TaskNames -> {"off", "pending", "sent", "ok", "failed"}]]
  BY <1>4 DEF IInv, TypeOK, EndTask, TaskNames
<1>8. \A q \in Ids : Shape(q)
  BY DEF IInv, Shapes
<1>9. CASE how = "failed" /\ UNCHANGED bookings
  <2>1. TypeOK'
    BY <1>1, <1>7, <1>9 DEF IInv, TypeOK, StoreType
  <2>2. Shapes'
    <3> SUFFICES ASSUME NEW q \in Ids PROVE Shape(q)'
      BY DEF Shapes
    <3>1. CASE q = r
      BY <1>1, <1>2, <1>5, <1>8, <1>9, <3>1 DEF Shape, Creating
    <3>2. CASE q # r
      BY <1>1, <1>5, <1>8, <1>9, <3>2 DEF Shape, NewShape, Creating, Cancelling, Exists
    <3> QED BY <3>1, <3>2
  <2>3. (LockOfCreate /\ KeptUntilReleased /\ ReleaseClears /\ UpdateCancels /\ OneBookingPerKey)'
    BY <1>1, <1>2, <1>5, <1>9 DEF IInv, LockOfCreate, LockOf, KeptUntilReleased, Released,
       ReleaseClears, UpdateCancels, OneBookingPerKey, Exists, Confirmed, Disowned, Nowhere, Held, HoldsSlot
  <2> QED BY <1>3, <2>1, <2>2, <2>3 DEF IInv
<1>10. CASE /\ how = "ok" /\ ~Duplicate(s, k)
            /\ bookings' = [bookings EXCEPT ![r] =
                  [slot |-> s, key |-> k, status |-> "confirmed", from |-> req[r].target]]
  <2>1. /\ bookings'[r] = [slot |-> s, key |-> k, status |-> "confirmed", from |-> None]
        /\ bookings'[r] \in Documents
        /\ \A b \in Ids \ {r} : bookings'[b] = bookings[b]
        /\ bookings' \in [Ids -> Documents \cup {None}]
    BY <1>1, <1>10 DEF IInv, TypeOK, Documents, Statuses
  <2>2. Exists(r)' /\ Confirmed(r)'
    BY <2>1, NoDocument DEF Exists, Confirmed
  <2>3. TypeOK'
    BY <1>1, <1>7, <2>1 DEF IInv, TypeOK, StoreType
  <2>4. Shapes'
    <3> SUFFICES ASSUME NEW q \in Ids PROVE Shape(q)'
      BY DEF Shapes
    <3>1. CASE q = r
      BY <1>1, <1>2, <1>5, <1>8, <1>10, <3>1 DEF Shape, Creating
    <3>2. CASE q # r
      BY <1>1, <1>5, <1>6, <1>8, <2>1, <3>2 DEF Shape, NewShape, Creating, Cancelling, Exists
    <3> QED BY <3>1, <3>2
  <2>5. LockOfCreate'
    BY <1>1, <1>2, <1>5, <1>10, <2>1, <2>2 DEF IInv, LockOfCreate, LockOf, Exists, Disowned, Nowhere, Held, HoldsSlot
  <2>6. \A b \in Ids : Released(b)' <=> Released(b)
    BY <1>1, <1>5 DEF Released
  <2>7. ~Released(r)
    BY <1>6 DEF Released
  <2>8. KeptUntilReleased'
    BY <1>1, <1>2, <2>1, <2>6, <2>7 DEF IInv, KeptUntilReleased, Exists, Disowned, Nowhere, Held, HoldsSlot
  <2>9. ReleaseClears'
    BY <1>1, <1>5 DEF IInv, ReleaseClears
  <2>10. UpdateCancels'
    <3>1. \A q \in Ids : Update(q) = "ok" => ~Confirmed(req[q].target)'
      <4> SUFFICES ASSUME NEW q \in Ids, Update(q) = "ok" PROVE ~Confirmed(req[q].target)'
        OBVIOUS
      <4>1. req[q].target \in Ids \ {r} /\ ~Confirmed(req[q].target)
        BY <1>6 DEF IInv, UpdateCancels
      <4>2. bookings'[req[q].target] = bookings[req[q].target]
        BY <2>1, <4>1
      <4> QED BY <1>1, <4>1, <4>2 DEF Confirmed, Exists
    <3>2. \A b \in Ids : Exists(b)' /\ ~Confirmed(b)' => b # r /\ Exists(b) /\ ~Confirmed(b)
      BY <2>1, <2>2 DEF Exists, Confirmed
    <3> QED BY <1>1, <1>5, <3>1, <3>2 DEF IInv, UpdateCancels
  <2>11. OneBookingPerKey'
    BY <1>10, <2>1 DEF IInv, OneBookingPerKey, Exists, Duplicate
  <2> QED BY <1>3, <2>3, <2>4, <2>5, <2>8, <2>9, <2>10, <2>11 DEF IInv
<1> QED
  <2>1. tasks'[r]["insert"] = how
    BY <1>5 DEF Insert
  <2>2. tasks \in [Ids -> [TaskNames -> {"off", "pending", "sent", "ok", "failed"}]]
    BY DEF IInv, TypeOK
  <2>3. \/ how = "failed" /\ UNCHANGED bookings
        \/ /\ how = "ok" /\ ~Duplicate(s, k)
           /\ bookings' = [bookings EXCEPT ![r] =
                  [slot |-> s, key |-> k, status |-> "confirmed", from |-> req[r].target]]
    BY <2>1, <2>2 DEF InsertBooking, EndTask, TaskNames
  <2> QED BY <1>9, <1>10, <2>3

LEMMA UpdateBookingStep ==
  ASSUME CreateCancelOnly, IInv, NEW r \in Ids, UpdateBooking(r)
  PROVE  IInv'
<1> DEFINE b == req[r].target
<1>1. /\ Cancelling(r) /\ req[r].op = "cancel" /\ b \in Ids /\ Exists(b) /\ Insert(b) = "ok"
      /\ bookings[b] \in Documents
      /\ Update(r) = "pending"
  BY CancelTasks, BookedSlots DEF UpdateBooking, Update
<1>2. /\ UNCHANGED <<zset, endTimes, events, jobs, req, pc>>
      /\ bookings' = [bookings EXCEPT ![b].status = "cancelled"]
      /\ tasks' = [tasks EXCEPT ![r]["update"] = "ok"]
  BY DEF CreateCancelOnly, UpdateBooking, EndTask, store
<1>3. StoreInv'
  BY <1>2, StoreUnchanged DEF IInv, store
<1>4. /\ bookings'[b] = [bookings[b] EXCEPT !.status = "cancelled"]
      /\ \A x \in Ids : x # b => bookings'[x] = bookings[x]
  BY <1>1, <1>2 DEF IInv, TypeOK
<1>5. /\ bookings'[b] \in Documents
      /\ bookings'[b].slot = bookings[b].slot /\ bookings'[b].key = bookings[b].key
      /\ bookings'[b].from = bookings[b].from /\ bookings'[b].status = "cancelled"
  BY <1>1, <1>4 DEF Documents, Statuses
<1>6. /\ \A x \in Ids : Exists(x)' <=> Exists(x)
      /\ \A x \in Ids : Exists(x) => bookings'[x].slot = bookings[x].slot
                           /\ bookings'[x].key = bookings[x].key
                           /\ bookings'[x].from = bookings[x].from
      /\ ~Confirmed(b)'
      /\ \A x \in Ids : x # b => (Confirmed(x)' <=> Confirmed(x))
  <2>1. Exists(b)'
    BY <1>2, <1>5, NoDocument DEF Exists
  <2>2. \A x \in Ids : Exists(x)' <=> Exists(x)
    BY <1>1, <1>2, <1>4, <2>1 DEF Exists
  <2>3. ~Confirmed(b)'
    BY <1>2, <1>5 DEF Confirmed
  <2>4. \A x \in Ids : x # b => (Confirmed(x)' <=> Confirmed(x))
    BY <1>4 DEF Exists, Confirmed
  <2>5. ASSUME NEW x \in Ids, Exists(x)
        PROVE  /\ bookings'[x].slot = bookings[x].slot
               /\ bookings'[x].key = bookings[x].key
               /\ bookings'[x].from = bookings[x].from
    BY <1>4, <1>5, <2>5
  <2> QED BY <2>2, <2>3, <2>4, <2>5
<1>7. \A q \in Ids : /\ Insert(q)' = Insert(q) /\ Release(q)' = Release(q) /\ Event(q)' = Event(q)
                     /\ Update(q)' = IF q = r THEN "ok" ELSE Update(q)
                     /\ q # r => tasks'[q] = tasks[q]
  BY <1>2 DEF IInv, TypeOK, TaskNames, Insert, Update, Release, Event
<1>8. TypeOK'
  <2>1. bookings' \in [Ids -> Documents \cup {None}]
    BY <1>1, <1>2, <1>4, <1>5 DEF IInv, TypeOK
  <2> QED BY <1>2, <2>1 DEF IInv, TypeOK, StoreType, TaskNames
<1>9. Shapes'
  <2> SUFFICES ASSUME NEW q \in Ids PROVE Shape(q)'
    BY DEF Shapes
  <2>1. Shape(q)
    BY DEF IInv, Shapes
  <2>2. CASE q = r
    BY <1>1, <1>2, <1>6, <1>7, <2>1, <2>2 DEF Shape, Cancelling
  <2>3. CASE q # r
    BY <1>2, <1>6, <1>7, <2>1, <2>3 DEF Shape, NewShape, Creating, Cancelling
  <2> QED BY <2>2, <2>3
<1>10. LockOfCreate'
  BY <1>2, <1>6, <1>7 DEF IInv, LockOfCreate, LockOf, Disowned, Nowhere, Held, HoldsSlot
<1>11. KeptUntilReleased'
  BY <1>2, <1>6, <1>7 DEF IInv, KeptUntilReleased, Released, Disowned, Nowhere, Held, HoldsSlot
<1>12. ReleaseClears'
  BY <1>2, <1>7 DEF IInv, ReleaseClears
<1>13. UpdateCancels'
  <2>1. ASSUME NEW q \in Ids, Update(q)' = "ok" PROVE ~Confirmed(req[q].target)'
    <3>1. CASE q = r
      BY <1>6, <3>1
    <3>2. CASE q # r
      <4>1. Update(q) = "ok"
        BY <1>7, <2>1, <3>2
      <4>2. req[q].target \in Ids /\ ~Confirmed(req[q].target)
        BY <4>1, CancelTasks DEF IInv, UpdateCancels
      <4> QED
        <5>1. CASE req[q].target = b
          BY <1>2, <1>6, <5>1 DEF Confirmed, Exists
        <5>2. CASE req[q].target # b
          BY <1>2, <1>6, <4>2, <5>2 DEF Confirmed, Exists
        <5> QED BY <5>1, <5>2
    <3> QED BY <3>1, <3>2
  <2>2. ASSUME NEW x \in Ids, Exists(x)', ~Confirmed(x)'
        PROVE  \E q \in Ids : req[q].target = x /\ Update(q)' = "ok"
    <3>1. CASE x = b
      BY <1>7, <3>1
    <3>2. CASE x # b
      <4>1. PICK q \in Ids : req[q].target = x /\ Update(q) = "ok"
        BY <1>6, <2>2, <3>2 DEF IInv, UpdateCancels
      <4> QED BY <1>7, <4>1
    <3> QED BY <3>1, <3>2
  <2> QED BY <1>2, <2>1, <2>2 DEF UpdateCancels
<1>14. OneBookingPerKey'
  BY <1>6 DEF IInv, OneBookingPerKey
<1> QED BY <1>3, <1>8, <1>9, <1>10, <1>11, <1>12, <1>13, <1>14 DEF IInv

-----------------------------------------------------------------------------
(* With creates and cancels only, no handler is inside a swap. *)
LEMMA NoSwaps ==
  ASSUME IInv, NEW r \in Ids
  PROVE  ~SwapZScore(r) /\ ~SwapHGet(r) /\ ~SwapEval(r)
<1>1. Shape(r)
  BY DEF IInv, Shapes
<1>2. pc[r] \notin {"hget", "swap"}
  <2>1. req[r].op = "create" => pc[r] \in {"validate", "refused", "done", "parallel", "enqueue",
                                          "catch", "unlock", "failed"}
    BY <1>1, TaskStates DEF Shape, Creating
  <2> QED BY <1>1, <2>1 DEF Shape, NewShape, Cancelling
<1> QED BY <1>1, <1>2 DEF Shape, SwapZScore, SwapHGet, SwapEval

LEMMA StepIInv ==
  ASSUME CreateCancelOnly, IInv, [Next]_vars
  PROVE  IInv'
<1>1. CASE UNCHANGED vars
  <2>1. UNCHANGED <<zset, endTimes, bookings, events, jobs, req, pc, tasks>>
    BY <1>1 DEF vars
  <2>2. TypeOK'
    BY <2>1 DEF IInv, TypeOK, StoreType
  <2>3. StoreInv'
    BY <2>1, StoreUnchanged DEF IInv, store
  <2>4. Shapes'
    BY <2>1 DEF IInv, Shapes, Shape, NewShape, Creating, Cancelling, Insert, Update, Event,
       Release, Exists
  <2>5. (LockOfCreate /\ KeptUntilReleased /\ ReleaseClears /\ UpdateCancels /\ OneBookingPerKey)'
    BY <2>1 DEF IInv, LockOfCreate, LockOf, KeptUntilReleased, Released, ReleaseClears, UpdateCancels,
       OneBookingPerKey, Exists, Confirmed, Disowned, Nowhere, Held, HoldsSlot, Insert, Update, Release
  <2> QED BY <2>2, <2>3, <2>4, <2>5 DEF IInv
<1>2. ASSUME NEW r \in Ids, Arrive(r) PROVE IInv'
  BY <1>2, LookupStep, CancelReadStep DEF Arrive, RescheduleRead, CreateCancelOnly
<1>3. ASSUME NEW r \in Ids, Step(r) PROVE IInv'
  BY <1>3, NoSwaps, ControlStep, CreateAcquireStep, CatchZRemStep, CatchHDelStep DEF Step
<1>4. ASSUME NEW r \in Ids, Task(r) PROVE IInv'
  BY <1>4, InsertBookingStep, UpdateBookingStep, CreateEventStep, ReleaseZRemStep, ReleaseHDelStep
  DEF Task
<1> QED BY <1>1, <1>2, <1>3, <1>4 DEF Next

-----------------------------------------------------------------------------
(* What the inductive invariant says of the properties of Booking *)

(* A booking that is kept holds its slot. *)
LEMMA KeptIsHeld ==
  ASSUME IInv, NEW b \in Ids, Kept(b)
  PROVE  HoldsSlot(b, bookings[b].slot)
<1>1. Exists(b) /\ Confirmed(b) /\ ~Leaving(b) /\ ~Disowned(b)
  BY DEF Kept, Live, Confirmed
<1>2. ~Released(b)
  <2> SUFFICES ASSUME NEW r \in Ids, req[r].target = b, Release(r) \in {"sent", "ok"} PROVE FALSE
    BY DEF Released
  <2>1. Update(r) \in {"pending", "ok"}
    BY CancelTasks DEF Cancelling
  <2> QED BY <1>1, <2>1 DEF Leaving, Update, IInv, UpdateCancels
<1> QED BY <1>1, <1>2 DEF IInv, KeptUntilReleased

(* Two slots that are held do not overlap. *)
LEMMA HeldSlotsApart ==
  ASSUME StoreInv, NEW a \in Ids, NEW b \in Ids, a # b,
         NEW s \in Slots, NEW t \in Slots, HoldsSlot(a, s), HoldsSlot(b, t)
  PROVE  ~Overlap(s, t)
<1>1. CASE s.day # t.day
  BY <1>1, DaysApart
<1>2. CASE s.day = t.day
  <2>1. Held(s.day, a) /\ Held(s.day, b) /\ endTimes[a] # None /\ endTimes[b] # None /\ s.day \in Days
    BY <1>2, SlotsAssumption, NoneAssumption DEF HoldsSlot, Held
  <2>2. s.end <= t.start \/ t.end <= s.start
    BY <1>2, <2>1 DEF StoreInv, SlotsDisjoint, HeldIds, HoldsSlot
  <2> QED BY <2>2, SlotsAssumption DEF Overlap
<1> QED BY <1>1, <1>2

(* The properties of creates and cancels. *)
BookingSafe ==
    /\ KeptNeverOverlap
    /\ KeptHoldsSlot
    /\ LocksMatchBookings

LEMMA IInvIsSafe == IInv => BookingSafe
<1> SUFFICES ASSUME IInv PROVE BookingSafe
  OBVIOUS
<1>1. KeptHoldsSlot
  BY KeptIsHeld DEF KeptHoldsSlot
<1>2. KeptNeverOverlap
  <2> SUFFICES ASSUME NEW a \in Ids, NEW b \in Ids, a # b, Kept(a), Kept(b)
               PROVE  ~Overlap(bookings[a].slot, bookings[b].slot)
    BY DEF KeptNeverOverlap
  <2>1. bookings[a].slot \in Slots /\ bookings[b].slot \in Slots
    BY BookedSlots DEF Kept, Live, Confirmed
  <2> QED BY <2>1, KeptIsHeld, HeldSlotsApart DEF IInv
<1>3. LocksMatchBookings
  <2> SUFFICES ASSUME AllSettled, NEW b \in Ids, ~Kept(b)
               PROVE  endTimes[b] = None /\ Nowhere(b)
    BY KeptIsHeld DEF LocksMatchBookings, Nowhere
  <2>1. \A r \in Ids : /\ pc[r] \in Ended
                        /\ {Insert(r), Update(r), Event(r), Release(r)} \cap {"pending", "sent"} = {}
    BY DEF AllSettled, Settled, Running, TaskNames, Insert, Update, Event, Release
  <2>2. CASE Disowned(b)
    BY <2>1, <2>2 DEF IInv, LockOfCreate, LockOf, Disowned, Ended
  <2>3. CASE Exists(b) /\ ~Confirmed(b)
    <3>1. PICK r \in Ids : req[r].target = b /\ Update(r) = "ok"
      BY <2>3 DEF IInv, UpdateCancels
    <3>2. Release(r) = "ok"
      BY <2>1, <3>1, CancelTasks DEF Cancelling
    <3> QED BY <2>3, <3>1, <3>2 DEF IInv, Released, KeptUntilReleased, ReleaseClears
  <2>4. CASE ~Exists(b) /\ ~Disowned(b)
    <3>1. Insert(b) \in {"off", "failed"}
      BY <2>1, <2>4, TaskStates DEF IInv, LockOfCreate, LockOf
    <3>2. Insert(b) = "failed" => Disowned(b)
      BY <2>1, InsertsAreCreates DEF Creating, Ended, Disowned
    <3> QED BY <2>4, <3>1, <3>2 DEF IInv, LockOfCreate, LockOf
  <2>5. Exists(b) /\ Confirmed(b) => Disowned(b)
    <3>1. ~Leaving(b)
      BY <2>1 DEF Leaving, Update
    <3> QED BY <3>1 DEF Kept, Live
  <2> QED BY <2>2, <2>3, <2>4, <2>5
<1> QED BY <1>1, <1>2, <1>3 DEF BookingSafe

-----------------------------------------------------------------------------
(* The theorems *)

LEMMA InductiveInvariant == CreateCancelOnly => (Spec => []IInv)
<1> SUFFICES ASSUME CreateCancelOnly PROVE Spec => []IInv
  OBVIOUS
<1>1. Init => IInv
  BY InitIInv
<1>2. IInv /\ [Next]_vars => IInv'
  BY StepIInv
<1> QED BY <1>1, <1>2, PTL DEF Spec

(* Creates and cancels never double-book (README.md:221) a client who was  *)
(* not told of a failure, whatever creates of others fail half-way.        *)
THEOREM KeptApart == CreateCancelOnly => (Spec => []KeptNeverOverlap)
<1> SUFFICES ASSUME CreateCancelOnly PROVE Spec => []KeptNeverOverlap
  OBVIOUS
<1>1. IInv => KeptNeverOverlap
  BY IInvIsSafe DEF BookingSafe
<1> QED BY <1>1, InductiveInvariant, PTL

(* A booking that is kept has its exact time in Redis, from its insert on: *)
(* neither a cancel nor the catch block of another create gives it away.   *)
THEOREM KeptIsLocked == CreateCancelOnly => (Spec => []KeptHoldsSlot)
<1> SUFFICES ASSUME CreateCancelOnly PROVE Spec => []KeptHoldsSlot
  OBVIOUS
<1>1. IInv => KeptHoldsSlot
  BY IInvIsSafe DEF BookingSafe
<1> QED BY <1>1, InductiveInvariant, PTL

(* When all requests have come to rest, the locks in Redis are exactly the *)
(* slots of the confirmed bookings that were not disowned.                 *)
THEOREM NothingLeaked == CreateCancelOnly => (Spec => []LocksMatchBookings)
<1> SUFFICES ASSUME CreateCancelOnly PROVE Spec => []LocksMatchBookings
  OBVIOUS
<1>1. IInv => LocksMatchBookings
  BY IInvIsSafe DEF BookingSafe
<1> QED BY <1>1, InductiveInvariant, PTL

-----------------------------------------------------------------------------
(* Refinement: the handlers implement the abstract calendar *)

LEMMA InitCalendar == Init => BookingCalendar!Init
  BY DEF Init, BookingCalendar!Init, reserved, Confirmed, Exists

(* A reservation is a held slot of an existing booking. *)
LEMMA ReservedIsHeld ==
  ASSUME IInv, NEW b \in Ids, Confirmed(b), Held(bookings[b].slot.day, b)
  PROVE  HoldsSlot(b, bookings[b].slot)
<1>1. Exists(b) /\ ~Nowhere(b)
  BY BookedSlots DEF Confirmed, Nowhere
<1> QED BY <1>1 DEF IInv, KeptUntilReleased

(* Any step that keeps the bookings and the reservations stutters. *)
LEMMA SameReservations ==
  ASSUME \A b \in Ids : /\ bookings'[b] = bookings[b]
                        /\ Confirmed(b) => \A d \in Days : Held(d, b)' <=> Held(d, b),
         IInv
  PROVE  reserved' = reserved
<1>1. \A b \in Ids : /\ (Confirmed(b) /\ Held(bookings[b].slot.day, b))' <=>
                          (Confirmed(b) /\ Held(bookings[b].slot.day, b))
                      /\ bookings'[b].slot = bookings[b].slot
  <2> SUFFICES ASSUME NEW b \in Ids
               PROVE  (Confirmed(b) /\ Held(bookings[b].slot.day, b))' <=>
                      (Confirmed(b) /\ Held(bookings[b].slot.day, b))
    OBVIOUS
  <2>1. Confirmed(b)' <=> Confirmed(b)
    BY DEF Confirmed, Exists
  <2>2. Confirmed(b) => bookings[b].slot.day \in Days
    BY BookedSlots DEF Confirmed
  <2> QED BY <2>1, <2>2 DEF Held
<1> QED BY <1>1 DEF reserved

LEMMA InsertReserves ==
  ASSUME IInv, NEW r \in Ids, InsertBooking(r)
  PROVE  [BookingCalendar!Next]_reserved
<1> DEFINE s == req[r].slot
<1>1. /\ Insert(r) = "pending" /\ Creating(r) /\ s \in Slots /\ s.day \in Days
      /\ ~Exists(r) /\ (Nowhere(r) \/ HoldsSlot(r, s)) /\ UNCHANGED <<zset, endTimes, req>>
  BY InsertsAreCreates, SlotsAssumption
  DEF InsertBooking, Insert, IInv, LockOfCreate, LockOf, store
<1>2. CASE UNCHANGED bookings
  BY <1>1, <1>2, SameReservations DEF Held
<1>3. CASE bookings' = [bookings EXCEPT ![r] = [slot |-> s, key |-> req[r].key,
                          status |-> "confirmed", from |-> req[r].target]]
  <2> DEFINE doc == [slot |-> s, key |-> req[r].key, status |-> "confirmed", from |-> req[r].target]
  <2>1. bookings'[r] = doc /\ doc \in Documents /\ \A b \in Ids \ {r} : bookings'[b] = bookings[b]
    BY <1>1, <1>3 DEF IInv, TypeOK, Documents, Statuses, Creating
  <2>2. reserved[r] = None
    BY <1>1 DEF reserved, Confirmed
  <2>3. \A b \in Ids \ {r} : reserved'[b] = reserved[b]
    BY <1>1, <2>1 DEF reserved, Confirmed, Exists, Held
  <2>4. ASSUME Nowhere(r) PROVE reserved' = reserved
    <3>1. reserved'[r] = None
      BY <1>1, <2>1, <2>4 DEF reserved, Confirmed, Nowhere, Held
    <3> QED BY <2>2, <2>3, <3>1 DEF reserved
  <2>5. ASSUME HoldsSlot(r, s) PROVE BookingCalendar!Reserve(r, s)
    <3>1. Held(s.day, r)
      BY <1>1, <2>5, SlotsAssumption, NoneAssumption DEF HoldsSlot, Held
    <3>2. reserved'[r] = s
      BY <1>1, <2>1, <3>1, NoDocument DEF reserved, Confirmed, Exists, Held
    <3>3. reserved' = [reserved EXCEPT ![r] = s]
      BY <2>3, <3>2 DEF reserved
    <3>4. ASSUME NEW c \in Ids \ {r}, reserved[c] # None
          PROVE  ~BookingCalendar!Overlapping(s, reserved[c])
      <4>1. Confirmed(c) /\ Held(bookings[c].slot.day, c) /\ reserved[c] = bookings[c].slot
        BY <3>4 DEF reserved
      <4>2. HoldsSlot(c, bookings[c].slot) /\ bookings[c].slot \in Slots
        BY <4>1, ReservedIsHeld, BookedSlots DEF Confirmed
      <4>3. ~Overlap(s, bookings[c].slot)
        BY <1>1, <2>5, <4>2, HeldSlotsApart DEF IInv
      <4> QED BY <4>1, <4>3 DEF Overlap, BookingCalendar!Overlapping
    <3> QED BY <2>2, <3>3, <3>4 DEF BookingCalendar!Reserve, BookingCalendar!FreeOfOthers
  <2> QED BY <1>1, <2>4, <2>5 DEF BookingCalendar!Next
<1> QED BY <1>2, <1>3 DEF InsertBooking

LEMMA UpdateDrops ==
  ASSUME IInv, NEW r \in Ids, UpdateBooking(r), Update(r) # "off"
  PROVE  [BookingCalendar!Next]_reserved
<1> DEFINE b == req[r].target
<1>1. b \in Ids /\ Exists(b) /\ UNCHANGED <<zset, req>>
  BY CancelTasks DEF UpdateBooking, store
<1>2. CASE UNCHANGED bookings
  BY <1>1, <1>2, SameReservations DEF Held
<1>3. CASE bookings' = [bookings EXCEPT ![b].status = "cancelled"]
  <2>1. ~Confirmed(b)' /\ \A c \in Ids \ {b} : bookings'[c] = bookings[c]
    <3>1. bookings[b] \in Documents
      BY <1>1, BookedSlots
    <3> QED BY <1>1, <1>3, <3>1 DEF IInv, TypeOK, Documents, Confirmed
  <2>2. reserved'[b] = None /\ \A c \in Ids \ {b} : reserved'[c] = reserved[c]
    BY <1>1, <2>1 DEF reserved, Confirmed, Exists, Held
  <2>3. reserved' = [reserved EXCEPT ![b] = None]
    BY <1>1, <2>2 DEF reserved
  <2>4. CASE reserved[b] = None
    BY <1>1, <2>3, <2>4 DEF reserved
  <2>5. CASE reserved[b] # None
    BY <1>1, <2>3, <2>5 DEF BookingCalendar!Next, BookingCalendar!Drop
  <2> QED BY <2>4, <2>5
<1> QED BY <1>2, <1>3 DEF UpdateBooking

LEMMA ReleaseDrops ==
  ASSUME CreateCancelOnly, IInv, NEW r \in Ids, ReleaseZRem(r)
  PROVE  [BookingCalendar!Next]_reserved
<1> DEFINE b == req[r].target  d == bookings[b].slot.day
<1>1. b \in Ids /\ Exists(b) /\ d \in Days
  BY CancelTasks, BookedSlots DEF ReleaseZRem, Release
<1>2. UNCHANGED <<bookings, req>> /\ zset' = [zset EXCEPT ![d][b] = None]
  BY DEF CreateCancelOnly, ReleaseZRem, ZRem, OldDay
<1>3. /\ ~Held(d, b)'
      /\ \A c \in Ids, e \in Days : c # b => (Held(e, c)' <=> Held(e, c))
  BY <1>1, <1>2 DEF IInv, StoreInv, StoreType, Held
<1>4. reserved'[b] = None /\ \A c \in Ids \ {b} : reserved'[c] = reserved[c]
  <2>1. reserved'[b] = None
    BY <1>1, <1>2, <1>3 DEF reserved, Confirmed, Exists, Held
  <2>2. \A c \in Ids \ {b} : Confirmed(c) => bookings[c].slot.day \in Days
    BY BookedSlots DEF Confirmed
  <2> QED BY <1>2, <1>3, <2>1, <2>2 DEF reserved, Confirmed, Exists, Held
<1>5. reserved' = [reserved EXCEPT ![b] = None]
  BY <1>1, <1>4 DEF reserved
<1>6. CASE reserved[b] = None
  BY <1>1, <1>5, <1>6 DEF reserved
<1>7. CASE reserved[b] # None
  BY <1>1, <1>5, <1>7 DEF BookingCalendar!Next, BookingCalendar!Drop
<1> QED BY <1>6, <1>7

LEMMA StepCalendar ==
  ASSUME CreateCancelOnly, IInv, [Next]_vars
  PROVE  [BookingCalendar!Next]_reserved
<1>1. CASE UNCHANGED <<zset, bookings>>
  BY <1>1, SameReservations DEF Held
<1>2. ASSUME NEW r \in Ids, Arrive(r) PROVE UNCHANGED <<zset, bookings>>
  BY <1>2 DEF Arrive, CreateLookup, CancelRead, RescheduleRead, store
<1>3. ASSUME NEW r \in Ids, CreateAcquire(r) PROVE reserved' = reserved
  <2>1. Insert(r) = "off" /\ UNCHANGED bookings
    <3>1. Creating(r)
      BY <1>3 DEF IInv, Shapes, Shape, CreateAcquire
    <3> QED BY <1>3, <3>1, TaskStates DEF CreateAcquire, Creating
  <2>2. ~Confirmed(r)
    BY <2>1 DEF IInv, LockOfCreate, LockOf, Confirmed
  <2>3. \A b \in Ids \ {r}, d \in Days : Held(d, b)' <=> Held(d, b)
    BY <1>3 DEF IInv, StoreInv, StoreType, CreateAcquire, AcquireScript, store, Held
  <2> QED BY <2>1, <2>2, <2>3, SameReservations
<1>4. ASSUME NEW r \in Ids, CatchZRem(r) PROVE [BookingCalendar!Next]_reserved
  <2> DEFINE d == req[r].slot.day
  <2>1. Creating(r) /\ Insert(r) # "off" /\ d \in Days /\ UNCHANGED <<bookings, req>> /\ zset' = [zset EXCEPT ![d][r] = None]
    BY <1>4, CatchesAreCreates DEF CatchZRem, ZRem
  <2>2. Confirmed(r) => bookings[r].slot.day = d
    <3>1. Insert(r) \in {"pending", "failed", "ok"} /\ LockOf(r)
      BY <2>1, TaskStates DEF IInv, LockOfCreate
    <3> QED BY <3>1 DEF LockOf, Confirmed
  <2>3. /\ ~Held(d, r)'
        /\ \A c \in Ids, e \in Days : c # r => (Held(e, c)' <=> Held(e, c))
    BY <2>1 DEF IInv, StoreInv, StoreType, Held
  <2>4. reserved'[r] = None /\ \A c \in Ids \ {r} : reserved'[c] = reserved[c]
    <3>1. reserved'[r] = None
      BY <2>1, <2>2, <2>3 DEF reserved, Confirmed, Exists, Held
    <3>2. \A c \in Ids \ {r} : Confirmed(c) => bookings[c].slot.day \in Days
      BY BookedSlots DEF Confirmed
    <3> QED BY <2>1, <2>3, <3>1, <3>2 DEF reserved, Confirmed, Exists, Held
  <2>5. reserved' = [reserved EXCEPT ![r] = None]
    BY <2>4 DEF reserved
  <2>6. CASE reserved[r] = None
    BY <2>5, <2>6 DEF reserved
  <2>7. CASE reserved[r] # None
    BY <2>5, <2>7 DEF BookingCalendar!Next, BookingCalendar!Drop
  <2> QED BY <2>6, <2>7
<1>5. ASSUME NEW r \in Ids, Step(r)
      PROVE  UNCHANGED <<zset, bookings>> \/ [BookingCalendar!Next]_reserved
  BY <1>3, <1>4, <1>5, NoSwaps
  DEF Step, Refuse, AllResolved, OneRejected, EnqueueJob, CatchHDel, HDel, store
<1>6. ASSUME NEW r \in Ids, Task(r)
      PROVE  UNCHANGED <<zset, bookings>> \/ [BookingCalendar!Next]_reserved
  <2>1. UpdateBooking(r) => Update(r) # "off"
    BY DEF UpdateBooking, Update
  <2> QED BY <1>6, <2>1, InsertReserves, UpdateDrops, ReleaseDrops
        DEF Task, CreateEvent, ReleaseHDel, HDel, store
<1>7. UNCHANGED vars => UNCHANGED <<zset, bookings>>
  BY DEF vars
<1> QED BY <1>1, <1>2, <1>5, <1>6, <1>7 DEF Next

(* Every behaviour of the handlers is a behaviour of the calendar: a slot  *)
(* is reserved only where no other reservation is, and then dropped.       *)
THEOREM Implements == CreateCancelOnly => (Spec => ImplementsCalendar)
<1> SUFFICES ASSUME CreateCancelOnly PROVE Spec => BookingCalendar!Spec
  BY DEF ImplementsCalendar
<1>1. Init => BookingCalendar!Init
  BY InitCalendar
<1>2. IInv /\ [Next]_vars => [BookingCalendar!Next]_reserved
  BY StepCalendar
<1> QED BY <1>1, <1>2, InductiveInvariant, PTL DEF Spec, BookingCalendar!Spec
-----------------------------------------------------------------------------
(* Whatever clients call, and whatever calls are rejected *)

(* What a request carries where its handler uses it. *)
Equipped ==
    /\ \A r \in Ids : pc[r] = "new" => tasks[r] = NoTasks
    /\ \A r \in Ids : pc[r] \in {"validate", "hget", "swap"} \/ Insert(r) # "off" =>
           req[r].slot \in Slots /\ req[r].key \in Keys
    /\ \A r \in Ids : pc[r] \in {"hget", "swap"} => req[r].op = "reschedule"
    /\ \A r \in Ids : req[r].op = "reschedule" \/ Update(r) # "off" => req[r].target # None
    /\ \A r \in Ids : req[r].target # None => Exists(req[r].target)

BaseInv == TypeOK /\ Equipped /\ OneBookingPerKey

LEMMA InitBaseInv == Init => BaseInv
<1> SUFFICES ASSUME Init PROVE BaseInv
  OBVIOUS
<1>1. TypeOK /\ OneBookingPerKey
  BY InitIInv DEF IInv
<1>2. Equipped
  BY DEF Init, Equipped, NoTasks, TaskNames, Insert, Update
<1> QED BY <1>1, <1>2 DEF BaseInv

(* A request arrives. *)
LEMMA BaseArrive ==
  ASSUME BaseInv, NEW r \in Ids, Arrive(r)
  PROVE  BaseInv'
<1>1. /\ pc[r] = "new" /\ tasks[r] = NoTasks
      /\ UNCHANGED <<zset, endTimes, bookings, events, jobs>>
  BY DEF BaseInv, Equipped, Arrive, CreateLookup, CancelRead, RescheduleRead, store
<1>2. PICK call \in Calls, where \in {"done", "validate", "parallel"}, ts \in {NoTasks, Start({"update", "event", "release"})} :
         /\ req' = [req EXCEPT ![r] = call]
         /\ pc' = [pc EXCEPT ![r] = where]
         /\ tasks' = [tasks EXCEPT ![r] = ts]
         /\ where = "validate" => call.slot \in Slots /\ call.key \in Keys
         /\ call.op = "reschedule" \/ ts # NoTasks => call.target # None
         /\ call.target # None => Exists(call.target)
  <2>1. CASE \E s \in Slots, k \in Keys : CreateLookup(r, s, k)
    <3>1. PICK s \in Slots, k \in Keys : CreateLookup(r, s, k)
      BY <2>1
    <3> DEFINE c == [op |-> "create", target |-> None, slot |-> s, key |-> k]
    <3>2. c \in Calls /\ c.target = None /\ c.op = "create" /\ c.slot = s /\ c.key = k
      BY DEF Calls
    <3>3. tasks' = [tasks EXCEPT ![r] = NoTasks]
      BY <1>1, <3>1 DEF BaseInv, TypeOK, CreateLookup
    <3>4. req' = [req EXCEPT ![r] = c] /\ \E where \in {"done", "validate"} : pc' = [pc EXCEPT ![r] = where]
      BY <3>1 DEF CreateLookup, Goto
    <3> HIDE DEF c
    <3> QED BY <3>2, <3>3, <3>4
  <2>2. CASE \E b \in Ids : CancelRead(r, b)
    <3>1. PICK b \in Ids : CancelRead(r, b)
      BY <2>2
    <3> DEFINE c == [op |-> "cancel", target |-> b, slot |-> None, key |-> None]
    <3>2. c \in Calls /\ c.target = b /\ c.op = "cancel" /\ b # None /\ Exists(b)
      BY <3>1, NoneAssumption DEF Calls, CancelRead
    <3>3. /\ req' = [req EXCEPT ![r] = c] /\ pc' = [pc EXCEPT ![r] = "parallel"]
          /\ tasks' = [tasks EXCEPT ![r] = Start({"update", "event", "release"})]
      BY <3>1 DEF CancelRead, Goto
    <3> HIDE DEF c
    <3> QED BY <3>2, <3>3
  <2>3. CASE \E b \in Ids, s \in Slots, k \in Keys : RescheduleRead(r, b, s, k)
    <3>1. PICK b \in Ids, s \in Slots, k \in Keys : RescheduleRead(r, b, s, k)
      BY <2>3
    <3> DEFINE c == [op |-> "reschedule", target |-> b, slot |-> s, key |-> k]
    <3>2. c \in Calls /\ c.target = b /\ c.slot = s /\ c.key = k /\ b # None /\ Exists(b)
      BY <3>1, NoneAssumption DEF Calls, RescheduleRead, Confirmed
    <3>3. tasks' = [tasks EXCEPT ![r] = NoTasks]
      BY <1>1, <3>1 DEF BaseInv, TypeOK, RescheduleRead
    <3>4. req' = [req EXCEPT ![r] = c] /\ pc' = [pc EXCEPT ![r] = "validate"]
      BY <3>1 DEF RescheduleRead, Goto
    <3> HIDE DEF c
    <3> QED BY <3>2, <3>3, <3>4
  <2> QED BY <2>1, <2>2, <2>3 DEF Arrive
<1>3. ts \in [TaskNames -> {"off", "pending", "sent", "ok", "failed"}] /\ ts["insert"] = "off"
  BY DEF NoTasks, Start, TaskNames
<1>4. ts["update"] # "off" => ts # NoTasks
  BY DEF NoTasks, TaskNames
<1>5. TypeOK'
  BY <1>1, <1>2, <1>3 DEF BaseInv, TypeOK, StoreType, Ended
<1>6. /\ req'[r] = call /\ pc'[r] = where /\ tasks'[r] = ts
      /\ \A q \in Ids \ {r} : req'[q] = req[q] /\ pc'[q] = pc[q] /\ tasks'[q] = tasks[q]
  BY <1>2 DEF BaseInv, TypeOK
<1>7. Equipped'
  BY <1>1, <1>2, <1>3, <1>4, <1>6 DEF BaseInv, Equipped, Exists, Insert, Update
<1>8. OneBookingPerKey'
  BY <1>1 DEF BaseInv, OneBookingPerKey, Exists
<1> QED BY <1>5, <1>7, <1>8 DEF BaseInv

(* The handler of r goes on. *)
LEMMA BaseStep ==
  ASSUME BaseInv, NEW r \in Ids, Step(r)
  PROVE  BaseInv'
<1>1. /\ pc[r] # "new" /\ UNCHANGED <<bookings, events, req>>
      /\ jobs' \subseteq Ids
      /\ \A q \in Ids \ {r} : pc'[q] = pc[q] /\ tasks'[q] = tasks[q]
      /\ pc' \in [Ids -> Ended \cup {"validate", "hget", "swap", "parallel", "enqueue", "catch", "unlock"}]
  BY DEF BaseInv, TypeOK, Step, Refuse, CreateAcquire, SwapZScore, SwapHGet, SwapEval, AllResolved,
     OneRejected, EnqueueJob, CatchZRem, CatchHDel, Goto, OnRejection, Ended
<1>2. /\ pc'[r] # "new" /\ pc'[r] # "validate"
      /\ pc'[r] \in {"hget", "swap"} => req[r].op = "reschedule" /\ pc[r] \in {"validate", "hget"}
  BY DEF BaseInv, TypeOK, Equipped, Step, Refuse, CreateAcquire, SwapZScore, SwapHGet, SwapEval, AllResolved,
     OneRejected, EnqueueJob, CatchZRem, CatchHDel, Goto, OnRejection
<1>3. /\ tasks' \in [Ids -> [TaskNames -> {"off", "pending", "sent", "ok", "failed"}]]
      /\ tasks'[r] # tasks[r] =>
             /\ pc[r] \in {"validate", "swap"}
             /\ Update(r)' # "off" => pc[r] = "swap"
  <2>1. \A ts \in SUBSET TaskNames : Start(ts) \in [TaskNames -> {"off", "pending", "sent", "ok", "failed"}]
    BY DEF Start
  <2>2. CASE UNCHANGED tasks
    BY <2>2 DEF BaseInv, TypeOK
  <2>3. CASE pc[r] = "validate" /\ tasks' = [tasks EXCEPT ![r] = Start({"insert", "event"})]
    <3>1. Start({"insert", "event"})["update"] = "off"
      BY DEF Start, TaskNames
    <3>2. tasks'[r] = Start({"insert", "event"})
      BY <2>3 DEF BaseInv, TypeOK
    <3> QED BY <2>1, <2>3, <3>1, <3>2 DEF BaseInv, TypeOK, TaskNames, Update
  <2>4. CASE pc[r] = "swap" /\ tasks' = [tasks EXCEPT ![r] = Start({"insert", "update", "event"})]
    BY <2>1, <2>4 DEF BaseInv, TypeOK, TaskNames
  <2> QED BY <2>2, <2>3, <2>4 DEF Step, Refuse, CreateAcquire, SwapZScore, SwapHGet, SwapEval, AllResolved,
        OneRejected, EnqueueJob, CatchZRem, CatchHDel
<1>4. StoreType'
  <2>1. CASE UNCHANGED store
    BY <2>1 DEF BaseInv, TypeOK, StoreType, store
  <2>2. CASE CreateAcquire(r) /\ AcquireScript(r, req[r].slot)
    BY <2>2, SlotsAssumption DEF BaseInv, TypeOK, StoreType, Equipped, CreateAcquire, AcquireScript
  <2>3. CASE SwapEval(r) /\ SwapScript(req[r].target, OldDay(r), req[r].slot)
    BY <2>3, SlotsAssumption DEF BaseInv, TypeOK, StoreType, Equipped, SwapEval, SwapScript
  <2>4. CASE CatchZRem(r)
    BY <2>4 DEF BaseInv, TypeOK, StoreType, CatchZRem, ZRem
  <2>5. CASE CatchHDel(r)
    BY <2>5 DEF BaseInv, TypeOK, StoreType, CatchHDel, HDel
  <2> QED BY <2>1, <2>2, <2>3, <2>4, <2>5 DEF Step, Refuse, CreateAcquire, SwapZScore, SwapHGet,
        SwapEval, AllResolved, OneRejected, EnqueueJob
<1>5. TypeOK'
  BY <1>1, <1>3, <1>4 DEF BaseInv, TypeOK
<1>6. Equipped'
  BY <1>1, <1>2, <1>3 DEF BaseInv, Equipped, Exists, Insert, Update
<1>7. OneBookingPerKey'
  BY <1>1 DEF BaseInv, OneBookingPerKey, Exists
<1> QED BY <1>5, <1>6, <1>7 DEF BaseInv

(* A branch of the Promise.all of r ends. *)
LEMMA BaseTask ==
  ASSUME BaseInv, NEW r \in Ids, Task(r)
  PROVE  BaseInv'
<1> DEFINE doc == [slot |-> req[r].slot, key |-> req[r].key, status |-> "confirmed", from |-> req[r].target]
<1>1. PICK t \in TaskNames, how \in {"sent", "ok", "failed"} :
         /\ tasks[r][t] # "off" /\ EndTask(r, t, how)
         /\ events' \subseteq Ids /\ UNCHANGED <<jobs, req, pc>>
  <2>1. \A t \in {"insert", "update", "event", "release"} : t \in TaskNames
    BY DEF TaskNames
  <2>2. CASE InsertBooking(r)
    BY <2>1, <2>2 DEF BaseInv, TypeOK, InsertBooking
  <2>3. CASE UpdateBooking(r)
    BY <2>1, <2>3 DEF BaseInv, TypeOK, UpdateBooking
  <2>4. CASE CreateEvent(r)
    BY <2>1, <2>4 DEF BaseInv, TypeOK, CreateEvent
  <2>5. CASE ReleaseZRem(r) \/ ReleaseHDel(r)
    BY <2>1, <2>5 DEF BaseInv, TypeOK, ReleaseZRem, ReleaseHDel
  <2> QED BY <2>2, <2>3, <2>4, <2>5 DEF Task
<1>2. /\ tasks' \in [Ids -> [TaskNames -> {"off", "pending", "sent", "ok", "failed"}]]
      /\ pc[r] # "new"
      /\ \A q \in Ids : (Insert(q)' # "off" => Insert(q) # "off") /\ (Update(q)' # "off" => Update(q) # "off")
      /\ \A q \in Ids : q # r => tasks'[q] = tasks[q]
  <2>1. tasks[r] # NoTasks
    BY <1>1 DEF NoTasks
  <2> QED BY <1>1, <2>1 DEF BaseInv, TypeOK, Equipped, EndTask, TaskNames, Insert, Update
<1>3. StoreType'
  <2>1. CASE UNCHANGED store
    BY <2>1 DEF BaseInv, TypeOK, StoreType, store
  <2>2. CASE ZRem(req[r].target, OldDay(r))
    BY <2>2 DEF BaseInv, TypeOK, StoreType, ZRem
  <2>3. CASE HDel(req[r].target)
    BY <2>3 DEF BaseInv, TypeOK, StoreType, HDel
  <2> QED BY <2>1, <2>2, <2>3 DEF Task, InsertBooking, UpdateBooking, CreateEvent, ReleaseZRem, ReleaseHDel
<1>4. CASE UNCHANGED bookings
  <2>1. TypeOK'
    BY <1>1, <1>2, <1>3, <1>4 DEF BaseInv, TypeOK
  <2>2. Equipped'
    BY <1>1, <1>2, <1>4 DEF BaseInv, Equipped, Exists
  <2>3. OneBookingPerKey'
    BY <1>4 DEF BaseInv, OneBookingPerKey, Exists
  <2> QED BY <2>1, <2>2, <2>3 DEF BaseInv
<1>5. CASE /\ Insert(r) # "off" /\ ~Duplicate(req[r].slot, req[r].key)
           /\ bookings' = [bookings EXCEPT ![r] = doc]
  <2>1. doc \in Documents /\ doc # None /\ doc.key = req[r].key
    <3>1. req[r].slot \in Slots /\ req[r].key \in Keys /\ req[r].target \in Ids \cup {None}
      BY <1>5 DEF BaseInv, TypeOK, Equipped, Calls
    <3>2. doc \in Documents
      BY <3>1 DEF Documents, Statuses
    <3> QED BY <3>2, NoDocument
  <2> HIDE DEF doc
  <2>2. bookings'[r] = doc /\ \A b \in Ids \ {r} : bookings'[b] = bookings[b]
    BY <1>5 DEF BaseInv, TypeOK
  <2>3. TypeOK'
    BY <1>1, <1>2, <1>3, <1>5, <2>1 DEF BaseInv, TypeOK
  <2>4. Equipped'
    <3>1. \A b \in Ids : Exists(b) => Exists(b)'
      BY <2>1, <2>2 DEF Exists
    <3>2. \A q \in Ids : req[q].target # None => req[q].target \in Ids
      BY DEF BaseInv, TypeOK, Calls
    <3>3. \A q \in Ids : req[q].target # None => Exists(req[q].target)'
      BY <1>1, <3>1, <3>2, <2>1, <2>2 DEF BaseInv, Equipped, Exists
    <3> QED BY <1>1, <1>2, <3>3 DEF BaseInv, Equipped
  <2>5. OneBookingPerKey'
    <3>1. \A b \in Ids : Exists(b) => bookings[b].key # req[r].key
      BY <1>5 DEF Duplicate
    <3> QED BY <2>1, <2>2, <3>1 DEF BaseInv, OneBookingPerKey, Exists
  <2> QED BY <2>3, <2>4, <2>5 DEF BaseInv
<1>6. CASE /\ Update(r) = "pending"
           /\ bookings' = [bookings EXCEPT ![req[r].target].status = "cancelled"]
  <2>1. req[r].target \in Ids /\ bookings[req[r].target] \in Documents
    BY <1>6 DEF BaseInv, TypeOK, Equipped, Exists, Calls
  <2>2. /\ bookings'[req[r].target] = [bookings[req[r].target] EXCEPT !.status = "cancelled"]
        /\ \A x \in Ids : x # req[r].target => bookings'[x] = bookings[x]
    BY <1>6, <2>1 DEF BaseInv, TypeOK
  <2>3. /\ bookings'[req[r].target] \in Documents
        /\ bookings'[req[r].target].key = bookings[req[r].target].key
    BY <2>1, <2>2 DEF Documents, Statuses
  <2>4. \A x \in Ids : (Exists(x)' <=> Exists(x)) /\ bookings'[x].key = bookings[x].key
    BY <2>1, <2>2, <2>3, NoDocument DEF Exists
  <2>5. TypeOK'
    <3>1. bookings' \in [Ids -> Documents \cup {None}]
      BY <1>6, <2>1, <2>2, <2>3 DEF BaseInv, TypeOK
    <3> QED BY <1>1, <1>2, <1>3, <3>1 DEF BaseInv, TypeOK
  <2>6. Equipped'
    <3>1. \A q \in Ids : req[q].target # None => req[q].target \in Ids /\ Exists(req[q].target)
      BY DEF BaseInv, TypeOK, Equipped, Calls
    <3>2. \A q \in Ids : req[q].target # None => Exists(req[q].target)'
      BY <1>1, <2>4, <3>1
    <3> QED BY <1>1, <1>2, <3>2 DEF BaseInv, Equipped
  <2>7. OneBookingPerKey'
    BY <2>4 DEF BaseInv, OneBookingPerKey
  <2> QED BY <2>5, <2>6, <2>7 DEF BaseInv
<1> QED
  BY <1>4, <1>5, <1>6 DEF Task, InsertBooking, UpdateBooking, CreateEvent, ReleaseZRem, ReleaseHDel,
     Insert, Update

LEMMA BaseInvHolds == Spec => []BaseInv
<1>1. Init => BaseInv
  BY InitBaseInv
<1>2. BaseInv /\ [Next]_vars => BaseInv'
  <2> SUFFICES ASSUME BaseInv, [Next]_vars PROVE BaseInv'
    OBVIOUS
  <2>1. CASE UNCHANGED vars
    BY <2>1 DEF vars, BaseInv, TypeOK, StoreType, Equipped, OneBookingPerKey, Exists, Insert, Update
  <2> QED BY <2>1, BaseArrive, BaseStep, BaseTask DEF Next
<1> QED BY <1>1, <1>2, PTL DEF Spec

(* Type correctness, of all handlers and whatever fails: in particular an  *)
(* update or a reschedule always finds the document it addresses.          *)
THEOREM BookingTypeOK == Spec => []TypeOK
<1>1. BaseInv => TypeOK
  BY DEF BaseInv
<1> QED BY <1>1, BaseInvHolds, PTL

(* However many creates and reschedules carry one idempotency key, and     *)
(* whatever fails, one booking results (README.md:219).                    *)
THEOREM Idempotent == Spec => []OneBookingPerKey
<1>1. BaseInv => OneBookingPerKey
  BY DEF BaseInv
<1> QED BY <1>1, BaseInvHolds, PTL
-----------------------------------------------------------------------------
(* Events, and the catch block of create, in every interleaving: clients    *)
(* may call anything, and address one booking by many requests at once.    *)

(* What a request has done so far, and what its end says of its branches.  *)
Recording(r) ==
    /\ pc[r] = "new" => req[r].op = "none"
    /\ pc[r] \in {"new", "validate", "hget", "swap", "refused"} => tasks[r] = NoTasks
    /\ Insert(r) # "off" \/ Update(r) # "off" => Event(r) # "off"
    /\ Event(r) = "ok" => r \in events
    /\ Event(r) = "failed" => "event" \in Faults
    /\ pc[r] \in {"enqueue", "done"} => Event(r) \in {"off", "ok"}
    /\ Exists(r) => Insert(r) = "ok"
    /\ Exists(r) /\ ~Confirmed(r) => \E q \in Ids : req[q].target = r /\ Update(q) = "ok"
    /\ req[r].op = "create" =>
           /\ Update(r) = "off" /\ Release(r) = "off"
           /\ pc[r] \in {"catch", "unlock", "failed"} =>
                  Insert(r) = "failed" \/ {"event", "enqueue"} \cap Faults # {}

RecordInv == \A r \in Ids : Recording(r)

LEMMA InitRecordInv == Init => RecordInv
<1> SUFFICES ASSUME Init, NEW r \in Ids PROVE Recording(r)
  BY DEF RecordInv
<1>1. pc[r] = "new" /\ req[r].op = "none" /\ tasks[r] = NoTasks /\ ~Exists(r)
  BY DEF Init, Exists
<1>2. Insert(r) = "off" /\ Update(r) = "off" /\ Event(r) = "off"
  BY <1>1 DEF NoTasks, TaskNames, Insert, Update, Event
<1> QED BY <1>1, <1>2 DEF Recording

LEMMA RecordArrive ==
  ASSUME BaseInv, RecordInv, NEW r \in Ids, Arrive(r)
  PROVE  RecordInv'
<1>1. /\ pc[r] = "new" /\ tasks[r] = NoTasks
      /\ UNCHANGED <<bookings, events>>
      /\ \A q \in Ids \ {r} : req'[q] = req[q] /\ pc'[q] = pc[q] /\ tasks'[q] = tasks[q]
      /\ \/ pc'[r] \in {"done", "validate"} /\ tasks'[r] = NoTasks
         \/ /\ pc'[r] = "parallel" /\ tasks'[r] = Start({"update", "event", "release"})
            /\ req'[r].op = "cancel"
  BY DEF BaseInv, TypeOK, Equipped, Arrive, CreateLookup, CancelRead, RescheduleRead, Goto
<1>2. Insert(r) = "off" /\ Update(r) = "off" /\ Event(r) = "off" /\ Release(r) = "off" /\ ~Exists(r)
  BY <1>1 DEF RecordInv, Recording, NoTasks, TaskNames, Insert, Update, Event, Release
<1>3. \/ tasks'[r] = NoTasks /\ Insert(r)' = "off" /\ Update(r)' = "off" /\ Event(r)' = "off" /\ Release(r)' = "off"
      \/ req'[r].op = "cancel" /\ Insert(r)' = "off" /\ Event(r)' = "pending"
  BY <1>1 DEF NoTasks, Start, TaskNames, Insert, Update, Event, Release
<1>4. \A q \in Ids : Recording(q)
  BY DEF RecordInv
<1>5. Recording(r)'
  <2>1. ~Exists(r)'
    BY <1>1, <1>2 DEF Exists
  <2>2. /\ pc'[r] \in {"done", "validate", "parallel"}
        /\ pc'[r] = "validate" => tasks'[r] = NoTasks
        /\ pc'[r] = "done" => tasks'[r] = NoTasks
    BY <1>1
  <2>3. CASE tasks'[r] = NoTasks /\ Insert(r)' = "off" /\ Update(r)' = "off" /\ Event(r)' = "off" /\ Release(r)' = "off"
    BY <2>1, <2>2, <2>3 DEF Recording
  <2>4. CASE tasks'[r] # NoTasks /\ req'[r].op = "cancel" /\ Insert(r)' = "off" /\ Event(r)' = "pending"
    BY <2>1, <2>2, <2>4 DEF Recording
  <2> QED BY <1>3, <2>3, <2>4 DEF NoTasks, TaskNames, Insert, Update, Event, Release
<1> SUFFICES ASSUME NEW q \in Ids PROVE Recording(q)'
  BY DEF RecordInv
<1>6. CASE q # r
  <2>1. \A p \in Ids : req[p].target = q /\ Update(p) = "ok" => req'[p].target = q /\ Update(p)' = "ok"
    BY <1>1, <1>2 DEF Update
  <2> QED BY <1>1, <1>4, <1>6, <2>1 DEF Recording, Exists, Confirmed, Insert, Update, Event, Release
<1> QED BY <1>5, <1>6

LEMMA RecordStep ==
  ASSUME BaseInv, RecordInv, NEW r \in Ids, Step(r)
  PROVE  RecordInv'
<1>1. /\ UNCHANGED <<bookings, events, req>>
      /\ \A q \in Ids \ {r} : pc'[q] = pc[q] /\ tasks'[q] = tasks[q]
  BY DEF BaseInv, TypeOK, Step, Refuse, CreateAcquire, SwapZScore, SwapHGet, SwapEval, AllResolved,
     OneRejected, EnqueueJob, CatchZRem, CatchHDel, Goto
<1>2. \A q \in Ids : Recording(q)
  BY DEF RecordInv
<1>3. \A q, p \in Ids : req[p].target = q /\ Update(p) = "ok" => req'[p].target = q /\ Update(p)' = "ok"
  <2>1. Update(r) = "ok" => pc[r] \notin {"validate", "swap"}
    BY <1>2 DEF Recording, NoTasks, TaskNames, Update
  <2>2. Update(r) = "ok" => tasks'[r] = tasks[r]
    BY <2>1 DEF Step, Refuse, CreateAcquire, SwapZScore, SwapHGet, SwapEval, AllResolved,
       OneRejected, EnqueueJob, CatchZRem, CatchHDel
  <2> QED BY <1>1, <2>2 DEF Update
<1>4. \A q \in Ids : q # r => Recording(q)'
  BY <1>1, <1>2, <1>3 DEF Recording, Exists, Confirmed, Insert, Update, Event, Release
<1>5. CASE UNCHANGED tasks
  <2>1. /\ pc[r] \notin {"new", "done"} /\ pc'[r] \notin {"new", "validate"}
        /\ pc'[r] \in {"hget", "swap", "refused"} => pc[r] \in {"validate", "hget", "swap"}
        /\ pc'[r] \in {"enqueue", "done"} => pc[r] = "enqueue" \/ Event(r) \in {"off", "ok"}
    BY <1>5 DEF BaseInv, TypeOK, Step, Refuse, CreateAcquire, SwapZScore, SwapHGet, SwapEval, AllResolved,
       OneRejected, EnqueueJob, CatchZRem, CatchHDel, Goto, OnRejection, TaskNames, Event
  <2>2. pc'[r] \in {"catch", "unlock", "failed"} =>
           \/ pc[r] \in {"catch", "unlock"}
           \/ "failed" \in {Insert(r), Update(r), Event(r), Release(r)}
           \/ "enqueue" \in Faults
    BY <1>5 DEF BaseInv, TypeOK, Step, Refuse, CreateAcquire, SwapZScore, SwapHGet, SwapEval, AllResolved,
       OneRejected, EnqueueJob, CatchZRem, CatchHDel, Goto, TaskNames, Insert, Update, Event, Release
  <2>3. Recording(r)'
    BY <1>1, <1>2, <1>3, <1>5, <2>1, <2>2 DEF Recording, Exists, Confirmed, Insert, Update, Event, Release
  <2> QED BY <1>4, <2>3 DEF RecordInv
<1>6. CASE /\ pc[r] \in {"validate", "swap"} /\ pc'[r] = "parallel"
           /\ \/ req[r].op = "create" /\ tasks'[r] = Start({"insert", "event"})
              \/ req[r].op = "reschedule" /\ tasks'[r] = Start({"insert", "update", "event"})
  <2>1. ~Exists(r)
    BY <1>2, <1>6 DEF Recording, NoTasks, TaskNames, Insert
  <2>2. /\ Event(r)' = "pending" /\ Release(r)' = "off"
        /\ req[r].op = "create" => Update(r)' = "off"
    BY <1>6 DEF Start, TaskNames, Insert, Update, Event, Release
  <2>3. Recording(r)'
    BY <1>1, <1>6, <2>1, <2>2 DEF Recording, Exists
  <2> QED BY <1>4, <2>3 DEF RecordInv
<1>7. CreateAcquire(r) => UNCHANGED tasks \/
         (pc[r] = "validate" /\ pc'[r] = "parallel" /\ req[r].op = "create" /\ tasks'[r] = Start({"insert", "event"}))
  BY DEF BaseInv, TypeOK, CreateAcquire, Goto
<1>8. SwapEval(r) => UNCHANGED tasks \/
         (pc[r] = "swap" /\ pc'[r] = "parallel" /\ req[r].op = "reschedule" /\ tasks'[r] = Start({"insert", "update", "event"}))
  BY DEF BaseInv, TypeOK, Equipped, SwapEval, Goto
<1> QED BY <1>5, <1>6, <1>7, <1>8 DEF Step, Refuse, SwapZScore, SwapHGet, AllResolved,
      OneRejected, EnqueueJob, CatchZRem, CatchHDel

LEMMA RecordTask ==
  ASSUME BaseInv, RecordInv, NEW r \in Ids, Task(r)
  PROVE  RecordInv'
<1>1. UNCHANGED <<req, pc>>
  BY DEF Task, InsertBooking, UpdateBooking, CreateEvent, ReleaseZRem, ReleaseHDel
<1>2. PICK t \in TaskNames, how \in {"sent", "ok", "failed"} :
         /\ Running(r, t) /\ tasks' = [tasks EXCEPT ![r][t] = how]
         /\ t \in {"insert", "update", "event"} => how # "sent"
         /\ t # "event" => UNCHANGED events
         /\ t = "event" => IF how = "ok" THEN events' = events \cup {r} ELSE "event" \in Faults /\ UNCHANGED events
         /\ t \notin {"insert", "update"} \/ how # "ok" => UNCHANGED bookings
         /\ t = "insert" => \A b \in Ids : b # r => bookings'[b] = bookings[b]
         /\ t = "insert" /\ how = "ok" => Confirmed(r)'
         /\ t = "update" /\ how = "ok" => \A b \in Ids : b # req[r].target => bookings'[b] = bookings[b]
  <2>1. \A t \in {"insert", "update", "event", "release"} : t \in TaskNames
    BY DEF TaskNames
  <2>2. CASE InsertBooking(r)
    <3> DEFINE doc == [slot |-> req[r].slot, key |-> req[r].key, status |-> "confirmed", from |-> req[r].target]
    <3>1. doc \in Documents
      <4>1. Insert(r) # "off"
        BY <2>2 DEF InsertBooking, Insert
      <4> QED BY <4>1 DEF BaseInv, TypeOK, Equipped, Calls, Documents, Statuses
    <3>2. doc # None /\ doc.status = "confirmed"
      BY <3>1, NoDocument
    <3>3. bookings' = [bookings EXCEPT ![r] = doc] => Confirmed(r)' /\ \A b \in Ids : b # r => bookings'[b] = bookings[b]
      BY <3>2 DEF BaseInv, TypeOK, Confirmed, Exists
    <3> HIDE DEF doc
    <3>4. \/ bookings' = [bookings EXCEPT ![r] = doc] /\ EndTask(r, "insert", "ok")
          \/ EndTask(r, "insert", "failed") /\ UNCHANGED bookings
      BY <2>2 DEF InsertBooking, doc
    <3> QED BY <2>1, <2>2, <3>3, <3>4 DEF InsertBooking, EndTask, Running
  <2>3. CASE UpdateBooking(r)
    <3>1. bookings' = [bookings EXCEPT ![req[r].target].status = "cancelled"]
             => \A b \in Ids : b # req[r].target => bookings'[b] = bookings[b]
      BY DEF BaseInv, TypeOK
    <3>2. \/ bookings' = [bookings EXCEPT ![req[r].target].status = "cancelled"] /\ EndTask(r, "update", "ok")
          \/ EndTask(r, "update", "failed") /\ UNCHANGED bookings
      BY <2>3 DEF UpdateBooking
    <3> QED BY <2>1, <2>3, <3>1, <3>2 DEF UpdateBooking, EndTask, Running
  <2>4. CASE CreateEvent(r)
    BY <2>1, <2>4 DEF CreateEvent, EndTask, Running
  <2>5. CASE ReleaseZRem(r)
    BY <2>1, <2>5 DEF ReleaseZRem, EndTask, Running
  <2>6. CASE ReleaseHDel(r)
    BY <2>1, <2>6 DEF ReleaseHDel, EndTask, Running
  <2> QED BY <2>2, <2>3, <2>4, <2>5, <2>6 DEF Task
<1>3. /\ \A q \in Ids : q # r => tasks'[q] = tasks[q]
      /\ \A u \in TaskNames : tasks'[r][u] = IF u = t THEN how ELSE tasks[r][u]
  BY <1>2 DEF BaseInv, TypeOK
<1>4. /\ Insert(r)' = IF t = "insert" THEN how ELSE Insert(r)
      /\ Update(r)' = IF t = "update" THEN how ELSE Update(r)
      /\ Event(r)' = IF t = "event" THEN how ELSE Event(r)
      /\ Release(r)' = IF t = "release" THEN how ELSE Release(r)
  BY <1>3 DEF TaskNames, Insert, Update, Event, Release
<1>5. \A q \in Ids : q # r => /\ Insert(q)' = Insert(q) /\ Update(q)' = Update(q)
                               /\ Event(q)' = Event(q) /\ Release(q)' = Release(q)
  BY <1>3 DEF Insert, Update, Event, Release
<1>6. /\ t = "insert" => Insert(r) \in {"pending", "sent"}
      /\ t = "update" => Update(r) \in {"pending", "sent"}
      /\ t = "event" => Event(r) \in {"pending", "sent"}
      /\ t = "release" => Release(r) \in {"pending", "sent"}
      /\ tasks[r] # NoTasks
  BY <1>2 DEF Running, Insert, Update, Event, Release, NoTasks
<1>7. \A q \in Ids : Recording(q)
  BY DEF RecordInv
<1>8. t = "update" => req[r].target \in Ids /\ Exists(req[r].target)
  BY <1>6 DEF BaseInv, TypeOK, Equipped, Calls
<1>9. \A q \in Ids : Exists(q)' => Exists(q) \/ (q = r /\ Insert(r)' = "ok")
  BY <1>2, <1>4, <1>8 DEF Exists
<1>10. \A q \in Ids : Exists(q)' /\ ~Confirmed(q)' =>
           \E p \in Ids : req[p].target = q /\ Update(p)' = "ok"
  <2> SUFFICES ASSUME NEW q \in Ids, Exists(q)', ~Confirmed(q)'
               PROVE  \E p \in Ids : req[p].target = q /\ Update(p)' = "ok"
    OBVIOUS
  <2>1. CASE t = "update" /\ how = "ok" /\ q = req[r].target
    BY <1>4, <2>1
  <2>2. CASE bookings'[q] = bookings[q]
    <3>1. PICK p \in Ids : req[p].target = q /\ Update(p) = "ok"
      BY <1>7, <2>2 DEF Recording, Exists, Confirmed
    <3> QED BY <1>4, <1>5, <1>6, <3>1
  <2> QED BY <1>2, <2>1, <2>2
<1>11. Recording(r)'
  <2>1. Exists(r)' => Insert(r)' = "ok"
    BY <1>4, <1>6, <1>7, <1>9 DEF Recording
  <2>2. pc'[r] = pc[r] /\ req'[r] = req[r] /\ pc[r] \notin {"new", "validate", "hget", "swap", "refused"}
    BY <1>1, <1>4, <1>6, <1>7 DEF Recording
  <2>3. Recording(r)
    BY <1>7
  <2>4. Insert(r)' # "off" \/ Update(r)' # "off" => Event(r)' # "off"
    BY <1>2, <1>4, <1>6, <2>3 DEF Recording
  <2>5. Event(r)' = "ok" => r \in events'
    BY <1>2, <1>4, <2>3 DEF Recording
  <2>6. Event(r)' = "failed" => "event" \in Faults
    BY <1>2, <1>4, <2>3 DEF Recording
  <2>7. pc[r] \in {"enqueue", "done"} => Event(r)' \in {"off", "ok"}
    BY <1>4, <1>6, <2>3 DEF Recording
  <2>8. req[r].op = "create" =>
           /\ Update(r)' = "off" /\ Release(r)' = "off"
           /\ pc[r] \in {"catch", "unlock", "failed"} =>
                  Insert(r)' = "failed" \/ {"event", "enqueue"} \cap Faults # {}
    BY <1>2, <1>4, <1>6, <2>3 DEF Recording
  <2>9. Exists(r)' /\ ~Confirmed(r)' => \E q \in Ids : req'[q].target = r /\ Update(q)' = "ok"
    BY <1>1, <1>10
  <2> QED BY <2>9, <2>1, <2>2, <2>4, <2>5, <2>6, <2>7, <2>8 DEF Recording
<1> SUFFICES ASSUME NEW q \in Ids PROVE Recording(q)'
  BY DEF RecordInv
<1>12. CASE q # r
  <2>1. Exists(q)' => Exists(q)
    BY <1>9, <1>12
  <2>2. q \in events' <=> q \in events
    BY <1>2, <1>12
  <2> QED BY <1>1, <1>3, <1>5, <1>7, <1>10, <1>12, <2>1, <2>2 DEF Recording
<1> QED BY <1>11, <1>12

LEMMA RecordInvHolds == Spec => [](BaseInv /\ RecordInv)
<1>1. Init => RecordInv
  BY InitRecordInv
<1>2. BaseInv /\ RecordInv /\ [Next]_vars => RecordInv'
  <2> SUFFICES ASSUME BaseInv, RecordInv, [Next]_vars PROVE RecordInv'
    OBVIOUS
  <2>1. CASE UNCHANGED vars
    BY <2>1 DEF vars, RecordInv, Recording, Exists, Confirmed, Insert, Update, Event, Release
  <2> QED BY <2>1, RecordArrive, RecordStep, RecordTask DEF Next
<1> QED BY <1>1, <1>2, BaseInvHolds, PTL DEF Spec

(* A request that has finished has its event, and so has every withdrawal, *)
(* also when clients cancel and move one booking at the same time and      *)
(* whatever calls are rejected, unless its client was told of a failure.   *)
THEOREM Recorded == Spec => []ChangesRecorded
<1>1. BaseInv /\ RecordInv => ChangesRecorded
  <2> SUFFICES ASSUME BaseInv, RecordInv, NEW b \in Ids, Exists(b)
               PROVE  /\ pc[b] = "done" => b \in events
                      /\ ~Confirmed(b) /\ AllSettled =>
                             \E r \in Ids : /\ req[r].target = b /\ tasks[r]["update"] = "ok"
                                            /\ r \in events \/ pc[r] = "failed"
    BY DEF ChangesRecorded
  <2>1. \A r \in Ids : Recording(r)
    BY DEF RecordInv
  <2>2. pc[b] = "done" => b \in events
    BY <2>1 DEF Recording
  <2>3. ASSUME ~Confirmed(b), AllSettled
        PROVE  \E r \in Ids : /\ req[r].target = b /\ tasks[r]["update"] = "ok"
                              /\ r \in events \/ pc[r] = "failed"
    <3>1. PICK r \in Ids : req[r].target = b /\ Update(r) = "ok"
      BY <2>1, <2>3 DEF Recording
    <3>2. Event(r) # "off" /\ (Event(r) = "ok" => r \in events)
      BY <2>1, <3>1 DEF Recording
    <3>3. Event(r) \in {"off", "pending", "sent", "ok", "failed"}
      BY DEF BaseInv, TypeOK, TaskNames, Event
    <3>4. Event(r) \notin {"pending", "sent"} /\ pc[r] \in Ended
      BY <2>3 DEF AllSettled, Settled, Running, TaskNames, Event
    <3>5. pc[r] \notin {"new", "refused"}
      BY <2>1, <3>1 DEF Recording, NoTasks, TaskNames, Update
    <3>6. Event(r) = "failed" => pc[r] = "failed"
      BY <2>1, <3>4, <3>5 DEF Recording, Ended
    <3> QED BY <3>1, <3>2, <3>3, <3>4, <3>6 DEF Update
  <2> QED BY <2>2, <2>3
<1> QED BY <1>1, RecordInvHolds, PTL

(* With rejected inserts of bookings only, a create that has given its slot *)
(* back has stored nothing, and no two bookings overlap at all.            *)
THEOREM NoOverlapEver ==
  CreateCancelOnly /\ {"event", "enqueue"} \cap Faults = {} => (Spec => []NoDoubleBooking)
<1> SUFFICES ASSUME CreateCancelOnly, {"event", "enqueue"} \cap Faults = {}
             PROVE  Spec => []NoDoubleBooking
  OBVIOUS
<1>1. RecordInv /\ KeptNeverOverlap => NoDoubleBooking
  <2> SUFFICES ASSUME RecordInv, NEW b \in Ids, Live(b) PROVE Kept(b)
    BY DEF KeptNeverOverlap, NoDoubleBooking
  <2>1. Exists(b) /\ Recording(b)
    BY DEF RecordInv, Live, Confirmed
  <2> QED BY <2>1 DEF Recording, Kept, Disowned
<1> QED BY <1>1, RecordInvHolds, KeptApart, PTL
=============================================================================
