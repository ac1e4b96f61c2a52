--------------------------- MODULE RescheduleProofs ---------------------------
(***************************************************************************)
(* Creating, cancelling and moving bookings, over any days and in chains   *)
(* of any length, is safe as long as no booking is addressed by two        *)
(* requests at once, nobody cancels a booking that a reschedule has moved, *)
(* and only inserts are rejected.                                          *)
(*                                                                         *)
(* The lock entry of a booking that was created stays under its id until a *)
(* cancel releases it: a reschedule moves it to the new slot, where it     *)
(* protects the new booking under the id of the old one.  So the invariant *)
(* says for whom each entry stands (EntryKept), that it is moved once at   *)
(* most (MovedOnce), because the booking it came from is cancelled by then *)
(* or about to be (UpdateWithdraws, InHand), and that a booking made by a  *)
(* reschedule has no entry of its own, so that no chain can move it again, *)
(* and a cancel of it releases nothing.                                    *)
(*                                                                         *)
(* That no booking ends up with entries on two days needs less: the last   *)
(* section proves it for any cancels and rejections.                       *)
(***************************************************************************)
EXTENDS BookingProofs

(* The setting of the theorems. *)
OneAtATime == Exclusive /\ Faults \subseteq {"insert"}

(* A create and a cancel when only inserts are rejected. *)
CreateShape(r) ==
    /\ req[r].slot \in Slots /\ req[r].key \in Keys /\ req[r].target = None
    /\ Update(r) = "off" /\ Release(r) = "off"
    /\ Insert(r) = "off" => pc[r] \in {"validate", "refused", "done"}
    /\ Insert(r) = "off" <=> Event(r) = "off"
    /\ Insert(r) = "pending" => pc[r] = "parallel"
    /\ Insert(r) = "ok" => pc[r] \in {"parallel", "enqueue", "done"}
    /\ Insert(r) = "failed" => pc[r] \in {"parallel", "catch", "unlock", "failed"}
    /\ Insert(r) = "ok" /\ pc[r] # "parallel" => Event(r) = "ok"

CancelShape(r) ==
    /\ req[r].target \in Ids /\ Exists(req[r].target)
    /\ Insert(r) = "off"
    /\ Update(r) \in {"pending", "ok"} /\ Release(r) \in {"pending", "sent", "ok"}
    /\ Event(r) # "off"
    /\ pc[r] \in {"parallel", "enqueue", "done"}
    /\ pc[r] # "parallel" => Update(r) = "ok" /\ Release(r) = "ok" /\ Event(r) = "ok"

Asking(r) == pc[r] \in {"validate", "hget", "swap"}

(* A reschedule before its swap, or refused. *)
AskingShape(r) ==
    /\ tasks[r] = NoTasks
    /\ Asking(r) => Confirmed(req[r].target)
    /\ pc[r] \in {"hget", "swap"} => req[req[r].target].op = "create"

(* A reschedule after its swap. *)
MovingShape(r) ==
    /\ req[req[r].target].op = "create"
    /\ pc[r] \in {"parallel", "enqueue", "done", "failed"}
    /\ Insert(r) \in {"pending", "ok", "failed"}
    /\ Update(r) \in {"pending", "ok"}
    /\ Event(r) \in {"pending", "ok"}
    /\ pc[r] \in {"enqueue", "done"} => Insert(r) = "ok" /\ Update(r) = "ok" /\ Event(r) = "ok"
    /\ pc[r] = "failed" => Insert(r) = "failed"

RescheduleShape(r) ==
    /\ req[r].target \in Ids /\ Exists(req[r].target)
    /\ req[r].slot \in Slots /\ req[r].key \in Keys
    /\ IF Asking(r) \/ pc[r] = "refused" THEN AskingShape(r) ELSE MovingShape(r)

RequestShape(r) ==
    /\ req[r].op \in {"none", "create", "cancel", "reschedule"}
    /\ req[r].op = "none" => NewShape(r)
    /\ req[r].op = "create" => CreateShape(r)
    /\ req[r].op = "cancel" => CancelShape(r)
    /\ req[r].op = "reschedule" => RescheduleShape(r)
    /\ Insert(r) # "sent" /\ Event(r) \in {"off", "pending", "ok"}
    /\ req[r].op # "cancel" => Release(r) = "off"

RequestShapes == \A r \in Ids : RequestShape(r)

(* A reschedule under way has its booking to itself. *)
InHand ==
    \A r \in Ids : req[r].op = "reschedule" /\ ~Settled(r) =>
        /\ Settled(req[r].target)
        /\ \A q \in Ids : req[q].target = req[r].target => q = r \/ Settled(q)

(* Reschedule r has moved the entry of b. *)
Moved(b, r) == req[r].op = "reschedule" /\ req[r].target = b /\ Update(r) # "off"

MovedOnce == \A b, q, r \in Ids : Moved(b, q) /\ Moved(b, r) => q = r

UpdateWithdraws == \A r \in Ids : Update(r) = "ok" => ~Confirmed(req[r].target)

(* The entry of a create until its booking is stored, and the document     *)
(* that a request stores.                                                  *)
EntryOf(r) ==
    /\ req[r].op # "create" => Nowhere(r) /\ endTimes[r] = None
    /\ Insert(r) = "off" => ~Exists(r) /\ Nowhere(r) /\ endTimes[r] = None
    /\ Insert(r) = "pending" =>
           /\ ~Exists(r)
           /\ req[r].op = "create" => HoldsSlot(r, req[r].slot)
    /\ Insert(r) = "failed" =>
           /\ ~Exists(r)
           /\ req[r].op = "create" =>
                  /\ pc[r] \in {"parallel", "catch"} => HoldsSlot(r, req[r].slot)
                  /\ pc[r] \in {"unlock", "failed"} => Nowhere(r)
    /\ Insert(r) = "ok" =>
           /\ Exists(r)
           /\ bookings[r].slot = req[r].slot
           /\ bookings[r].from = req[r].target

Entries == \A r \in Ids : EntryOf(r)

(* The entry of a booking once it is stored. *)
EntryKept ==
    \A b \in Ids : Exists(b) /\ req[b].op = "create" =>
        /\ \A r \in Ids : Moved(b, r) => HoldsSlot(b, req[r].slot)
        /\ (\A r \in Ids : ~Moved(b, r)) =>
               IF Released(b) THEN Nowhere(b) ELSE HoldsSlot(b, bookings[b].slot)

MoveInv ==
    /\ TypeOK
    /\ StoreInv
    /\ RequestShapes
    /\ InHand
    /\ MovedOnce
    /\ UpdateWithdraws
    /\ Entries
    /\ EntryKept
    /\ OneBookingPerKey

-----------------------------------------------------------------------------
LEMMA InitMoveInv == Init => MoveInv
<1> SUFFICES ASSUME Init PROVE MoveInv
  OBVIOUS
<1>1. TypeOK /\ StoreInv
  BY InitIInv DEF IInv
<1>2. RequestShapes
  BY DEF Init, RequestShapes, RequestShape, NewShape, NoTasks, TaskNames, Insert, Event, Release
<1>3. InHand
  BY DEF Init, InHand
<1>4. MovedOnce /\ UpdateWithdraws
  BY DEF Init, MovedOnce, Moved, UpdateWithdraws, NoTasks, TaskNames, Update
<1>5. Entries
  BY DEF Init, StoreInit, Entries, EntryOf, NoTasks, TaskNames, Insert, Exists, Nowhere, Held
<1>6. EntryKept /\ OneBookingPerKey
  BY DEF Init, EntryKept, OneBookingPerKey, Exists
<1> QED BY <1>1, <1>2, <1>3, <1>4, <1>5, <1>6 DEF MoveInv

(* The states of the tasks of a request. *)
LEMMA MoveTaskStates ==
  ASSUME MoveInv, NEW r \in Ids
  PROVE  /\ Insert(r) \in {"off", "pending", "ok", "failed"}
         /\ Update(r) \in {"off", "pending", "ok"}
         /\ Event(r) \in {"off", "pending", "ok"}
         /\ Release(r) \in {"off", "pending", "sent", "ok"}
         /\ req[r].op # "cancel" => Release(r) = "off"
<1>1. RequestShape(r)
  BY DEF MoveInv, RequestShapes
<1>2. Insert(r) \in {"off", "pending", "sent", "ok", "failed"}
  BY DEF MoveInv, TypeOK, TaskNames, Insert
<1>3. Update(r) \in {"off", "pending", "ok"}
  BY <1>1 DEF RequestShape, NewShape, CreateShape, CancelShape, RescheduleShape, AskingShape, MovingShape,
     NoTasks, TaskNames, Update
<1> QED BY <1>1, <1>2, <1>3 DEF RequestShape, CancelShape

(* A request that has not arrived has done nothing. *)
LEMMA NewMoveRequest ==
  ASSUME MoveInv, NEW r \in Ids, pc[r] = "new"
  PROVE  /\ req[r].op = "none" /\ NewShape(r)
         /\ Insert(r) = "off" /\ Update(r) = "off" /\ ~Exists(r)
<1>1. RequestShape(r)
  BY DEF MoveInv, RequestShapes
<1>2. req[r].op = "none"
  BY <1>1, MoveTaskStates DEF RequestShape, CreateShape, CancelShape, RescheduleShape, Asking, MovingShape
<1>3. NewShape(r)
  BY <1>1, <1>2 DEF RequestShape
<1>4. Insert(r) = "off" /\ Update(r) = "off"
  BY <1>3 DEF NewShape, NoTasks, TaskNames, Insert, Update
<1> QED BY <1>2, <1>3, <1>4 DEF MoveInv, Entries, EntryOf

(* Who is addressed exists. *)
LEMMA TargetsExist ==
  ASSUME MoveInv, NEW r \in Ids, req[r].target # None
  PROVE  /\ \/ req[r].op = "reschedule" /\ RescheduleShape(r)
            \/ req[r].op = "cancel" /\ CancelShape(r)
         /\ req[r].target \in Ids /\ Exists(req[r].target)
         /\ Insert(req[r].target) = "ok"
<1>1. RequestShape(r)
  BY DEF MoveInv, RequestShapes
<1>2. \/ req[r].op = "reschedule" /\ RescheduleShape(r)
      \/ req[r].op = "cancel" /\ CancelShape(r)
  BY <1>1 DEF RequestShape, NewShape, CreateShape
<1>3. req[r].target \in Ids /\ Exists(req[r].target)
  BY <1>2 DEF RescheduleShape, CancelShape
<1>4. Insert(req[r].target) = "ok"
  BY <1>3, MoveTaskStates DEF MoveInv, Entries, EntryOf
<1> QED BY <1>2, <1>3, <1>4

(* Who updates or releases is a cancel, or a reschedule that has swapped   *)
(* and so has moved the entry of a created booking.                        *)
LEMMA MoversSwapped ==
  ASSUME MoveInv, NEW r \in Ids, Update(r) # "off" \/ Release(r) # "off"
  PROVE  /\ req[r].target \in Ids /\ Exists(req[r].target)
         /\ req[r].op \in {"reschedule", "cancel"}
         /\ req[r].op = "reschedule" =>
                /\ MovingShape(r) /\ ~Asking(r) /\ pc[r] # "refused"
                /\ req[r].slot \in Slots /\ Insert(r) # "off" /\ Event(r) # "off"
         /\ req[r].op = "cancel" => CancelShape(r)
<1>1. RequestShape(r)
  BY DEF MoveInv, RequestShapes
<1>2. \/ req[r].op = "reschedule" /\ RescheduleShape(r)
      \/ req[r].op = "cancel" /\ CancelShape(r)
  BY <1>1 DEF RequestShape, NewShape, CreateShape, NoTasks, TaskNames, Update, Release
<1>3. req[r].op = "reschedule" => MovingShape(r) /\ ~Asking(r) /\ pc[r] # "refused"
  BY <1>1, <1>2 DEF RequestShape, RescheduleShape, AskingShape, NoTasks, TaskNames, Update
<1> QED BY <1>2, <1>3 DEF RescheduleShape, MovingShape, CancelShape

(* Steps of a request under way leave everybody else as settled as they    *)
(* were, so a reschedule keeps its booking to itself.                      *)
LEMMA InHandStays ==
  ASSUME MoveInv, NEW r \in Ids, ~Settled(r), req' = req,
         \A q \in Ids \ {r} : pc'[q] = pc[q] /\ tasks'[q] = tasks[q]
  PROVE  InHand'
<1>1. \A q \in Ids \ {r} : Settled(q)' <=> Settled(q)
  BY DEF Settled, Running
<1> SUFFICES ASSUME NEW p \in Ids, req[p].op = "reschedule", ~Settled(p)'
             PROVE  /\ Settled(req[p].target)'
                    /\ \A q \in Ids : req[q].target = req[p].target => q = p \/ Settled(q)'
  BY DEF InHand
<1>2. ~Settled(p) /\ RequestShape(p)
  BY <1>1 DEF MoveInv, RequestShapes
<1>3. req[p].target \in Ids
  BY <1>2 DEF RequestShape, RescheduleShape
<1>4. /\ Settled(req[p].target)
      /\ \A q \in Ids : req[q].target = req[p].target => q = p \/ Settled(q)
  BY <1>2 DEF MoveInv, InHand
<1> QED BY <1>1, <1>3, <1>4

(* A request that is past its arrival and not at its end is under way. *)
LEMMA UnderWay ==
  ASSUME NEW r \in Ids,
         pc[r] \notin Ended \/ \E t \in TaskNames : Running(r, t)
  PROVE  ~Settled(r)
  BY DEF Settled

-----------------------------------------------------------------------------
(* Steps that touch neither the lock store nor the bookings *)

LEMMA MoveLookupStep ==
  ASSUME MoveInv, NEW r \in Ids, NEW s \in Slots, NEW k \in Keys, CreateLookup(r, s, k)
  PROVE  MoveInv'
<1>1. /\ pc[r] = "new" /\ req[r].op = "none" /\ tasks[r] = NoTasks /\ req[r].target = None
      /\ Insert(r) = "off" /\ Update(r) = "off" /\ ~Exists(r)
      /\ UNCHANGED <<zset, endTimes, bookings, events, jobs, tasks>>
      /\ req'[r] = [op |-> "create", target |-> None, slot |-> s, key |-> k]
      /\ pc'[r] \in {"done", "validate"}
      /\ \A q \in Ids \ {r} : req'[q] = req[q] /\ pc'[q] = pc[q]
  BY NewMoveRequest DEF MoveInv, TypeOK, NewShape, CreateLookup, Goto, store
<1>2. TypeOK'
  BY <1>1 DEF MoveInv, TypeOK, StoreType, CreateLookup, Goto, Calls, Ended
<1>3. StoreInv'
  BY <1>1, StoreUnchanged DEF MoveInv, store
<1>4. \A q \in Ids : req'[q].target = req[q].target
  BY <1>1
<1>5. \A q \in Ids : req[q].target # r
  BY <1>1, TargetsExist, NoneAssumption
<1>6. RequestShapes'
  <2> SUFFICES ASSUME NEW q \in Ids PROVE RequestShape(q)'
    BY DEF RequestShapes
  <2>1. CASE q = r
    BY <1>1, <2>1 DEF RequestShape, CreateShape, NoTasks, TaskNames, Insert, Update, Event, Release
  <2>2. CASE q # r
    <3>1. RequestShape(q)
      BY DEF MoveInv, RequestShapes
    <3>2. req[q].target \in Ids => req'[req[q].target] = req[req[q].target]
      BY <1>1, <1>5
    <3> QED BY <1>1, <2>2, <3>1, <3>2 DEF RequestShape, NewShape, CreateShape, CancelShape, RescheduleShape,
          AskingShape, MovingShape, Asking, Insert, Update, Event, Release, Exists, Confirmed
  <2> QED BY <2>1, <2>2
<1>7. InHand'
  <2>1. \A q \in Ids \ {r} : Settled(q)' <=> Settled(q)
    BY <1>1 DEF Settled, Running
  <2> SUFFICES ASSUME NEW p \in Ids, req'[p].op = "reschedule", ~Settled(p)'
               PROVE  /\ Settled(req[p].target)'
                      /\ \A q \in Ids : req[q].target = req[p].target => q = p \/ Settled(q)'
    BY <1>4 DEF InHand
  <2>2. p # r /\ req[p].op = "reschedule" /\ ~Settled(p) /\ RequestShape(p)
    BY <1>1, <2>1 DEF MoveInv, RequestShapes
  <2>3. req[p].target \in Ids \ {r} /\ req[r].target # req[p].target
    BY <1>1, <1>5, <2>2, NoneAssumption DEF RequestShape, RescheduleShape
  <2>4. /\ Settled(req[p].target)
        /\ \A q \in Ids : req[q].target = req[p].target => q = p \/ Settled(q)
    BY <2>2 DEF MoveInv, InHand
  <2> QED BY <1>4, <2>1, <2>3, <2>4
<1>8. Entries'
  BY <1>1 DEF MoveInv, Entries, EntryOf, Insert, Exists, Nowhere, Held, HoldsSlot
<1>9. (MovedOnce /\ UpdateWithdraws /\ OneBookingPerKey)'
  BY <1>1, <1>4 DEF MoveInv, MovedOnce, Moved, UpdateWithdraws, OneBookingPerKey, Exists, Confirmed, Update
<1>10. EntryKept'
  BY <1>1, <1>4 DEF MoveInv, EntryKept, Moved, Exists, HoldsSlot, Update, Released, Release, Nowhere, Held
<1> QED BY <1>2, <1>3, <1>6, <1>7, <1>8, <1>9, <1>10 DEF MoveInv

LEMMA RescheduleReadStep ==
  ASSUME OneAtATime, MoveInv, NEW r \in Ids, NEW b \in Ids, NEW s \in Slots, NEW k \in Keys,
         RescheduleRead(r, b, s, k)
  PROVE  MoveInv'
<1>1. /\ pc[r] = "new" /\ req[r].op = "none" /\ tasks[r] = NoTasks /\ req[r].target = None
      /\ Insert(r) = "off" /\ Update(r) = "off" /\ ~Exists(r)
      /\ Confirmed(b) /\ b # r
      /\ UNCHANGED <<zset, endTimes, bookings, events, jobs, tasks>>
      /\ req'[r] = [op |-> "reschedule", target |-> b, slot |-> s, key |-> k]
      /\ pc'[r] = "validate"
      /\ \A q \in Ids \ {r} : req'[q] = req[q] /\ pc'[q] = pc[q]
  BY NewMoveRequest DEF MoveInv, TypeOK, NewShape, RescheduleRead, Goto, store, Confirmed
<1>2. Settled(b) /\ \A q \in Ids : req[q].target = b => Settled(q)
  BY DEF OneAtATime, RescheduleRead, Undisturbed
<1>3. TypeOK'
  BY <1>1 DEF MoveInv, TypeOK, StoreType, RescheduleRead, Goto, Calls, Ended
<1>4. StoreInv'
  BY <1>1, StoreUnchanged DEF MoveInv, store
<1>5. \A q \in Ids : req[q].target # r
  BY <1>1, TargetsExist, NoneAssumption
<1>6. RequestShapes'
  <2> SUFFICES ASSUME NEW q \in Ids PROVE RequestShape(q)'
    BY DEF RequestShapes
  <2>1. CASE q = r
    <3>1. Event(r) = "off" /\ Release(r) = "off"
      BY <1>1 DEF NoTasks, TaskNames, Event, Release
    <3>2. Insert(r)' = "off" /\ Event(r)' = "off" /\ Release(r)' = "off"
      BY <1>1, <3>1 DEF Insert, Event, Release
    <3> QED BY <1>1, <2>1, <3>2 DEF RequestShape, RescheduleShape, AskingShape, Asking, Exists, Confirmed
  <2>2. CASE q # r
    <3>1. RequestShape(q)
      BY DEF MoveInv, RequestShapes
    <3>2. req[q].target \in Ids => req'[req[q].target] = req[req[q].target]
      BY <1>1, <1>5
    <3> QED BY <1>1, <2>2, <3>1, <3>2 DEF RequestShape, NewShape, CreateShape, CancelShape, RescheduleShape,
          AskingShape, MovingShape, Asking, Insert, Update, Event, Release, Exists, Confirmed
  <2> QED BY <2>1, <2>2
<1>7. InHand'
  <2>1. \A q \in Ids \ {r} : (Settled(q)' <=> Settled(q)) /\ req'[q] = req[q]
    BY <1>1 DEF Settled, Running
  <2> SUFFICES ASSUME NEW p \in Ids, req'[p].op = "reschedule", ~Settled(p)'
               PROVE  /\ Settled(req[p].target)'
                      /\ \A q \in Ids : req'[q].target = req'[p].target => q = p \/ Settled(q)'
    BY DEF InHand
  <2>2. CASE p = r
    BY <1>1, <1>2, <2>1, <2>2
  <2>3. CASE p # r
    <3>1. req[p].op = "reschedule" /\ ~Settled(p) /\ RequestShape(p)
      BY <2>1, <2>3 DEF MoveInv, RequestShapes
    <3>2. req[p].target \in Ids \ {r} /\ req'[p] = req[p]
      BY <1>5, <2>1, <2>3, <3>1 DEF RequestShape, RescheduleShape
    <3>3. req[p].target # b
      BY <1>2, <3>1
    <3>4. /\ Settled(req[p].target)
          /\ \A q \in Ids : req[q].target = req[p].target => q = p \/ Settled(q)
      BY <3>1 DEF MoveInv, InHand
    <3> QED BY <1>1, <2>1, <3>2, <3>3, <3>4
  <2> QED BY <2>2, <2>3
<1>8. Entries'
  BY <1>1 DEF MoveInv, Entries, EntryOf, Insert, Exists, Nowhere, Held, HoldsSlot
<1>9. \A q, c \in Ids : Moved(c, q)' <=> Moved(c, q)
  BY <1>1 DEF Moved, Update
<1>10. (MovedOnce /\ UpdateWithdraws /\ OneBookingPerKey)'
  BY <1>1, <1>9 DEF MoveInv, MovedOnce, UpdateWithdraws, OneBookingPerKey, Exists, Confirmed, Update
<1>11. EntryKept'
  <2>1. \A q, c \in Ids : Moved(c, q) => req'[q] = req[q]
    BY <1>1 DEF Moved
  <2>2. \A c \in Ids : (Released(c)' <=> Released(c)) /\ (Exists(c) => req'[c] = req[c])
    <3>1. Release(r) = "off"
      BY <1>1 DEF NoTasks, TaskNames, Release
    <3> QED BY <1>1, <3>1 DEF Released, Release
  <2> QED BY <1>1, <1>9, <2>1, <2>2 DEF MoveInv, EntryKept, Exists, HoldsSlot, Nowhere, Held
<1> QED BY <1>3, <1>4, <1>6, <1>7, <1>8, <1>10, <1>11 DEF MoveInv

LEMMA MoveCancelReadStep ==
  ASSUME OneAtATime, MoveInv, NEW r \in Ids, NEW b \in Ids, CancelRead(r, b)
  PROVE  MoveInv'
<1>1. /\ pc[r] = "new" /\ req[r].op = "none" /\ tasks[r] = NoTasks /\ req[r].target = None
      /\ Insert(r) = "off" /\ Update(r) = "off" /\ ~Exists(r)
      /\ Exists(b) /\ b # r
      /\ UNCHANGED <<zset, endTimes, bookings, events, jobs>>
      /\ req'[r] = [op |-> "cancel", target |-> b, slot |-> None, key |-> None]
      /\ pc'[r] = "parallel"
      /\ tasks'[r] = Start({"update", "event", "release"})
      /\ \A q \in Ids \ {r} : req'[q] = req[q] /\ pc'[q] = pc[q] /\ tasks'[q] = tasks[q]
  BY NewMoveRequest DEF MoveInv, TypeOK, NewShape, CancelRead, Goto, store, Exists
<1>2. \A q \in Ids : req[q].target = b => Settled(q)
  BY DEF OneAtATime, CancelRead, Undisturbed
<1>3. TypeOK'
  <2>1. Start({"update", "event", "release"}) \in [TaskNames -> {"off", "pending", "sent", "ok", "failed"}]
    BY DEF Start
  <2> QED BY <1>1, <2>1 DEF MoveInv, TypeOK, StoreType, CancelRead, Goto, Calls, Ended
<1>4. StoreInv'
  BY <1>1, StoreUnchanged DEF MoveInv, store
<1>5. \A q \in Ids : req[q].target # r
  BY <1>1, TargetsExist, NoneAssumption
<1>6. /\ Insert(r)' = "off" /\ Update(r)' = "pending"
      /\ Event(r)' = "pending" /\ Release(r)' = "pending"
  BY <1>1 DEF Insert, Update, Event, Release, Start, TaskNames
<1>7. Release(r) = "off"
  BY <1>1 DEF NoTasks, TaskNames, Release
<1>8. RequestShapes'
  <2>1. RequestShape(r)'
    BY <1>1, <1>6 DEF RequestShape, CancelShape, Exists
  <2> SUFFICES ASSUME NEW q \in Ids, q # r PROVE RequestShape(q)'
    BY <2>1 DEF RequestShapes
  <2>2. RequestShape(q)
    BY DEF MoveInv, RequestShapes
  <2>3. req[q].target \in Ids => req'[req[q].target] = req[req[q].target]
    BY <1>1, <1>5
  <2> QED BY <1>1, <2>2, <2>3 DEF RequestShape, NewShape, CreateShape, CancelShape, RescheduleShape,
        AskingShape, MovingShape, Asking, Insert, Update, Event, Release, Exists, Confirmed
<1>9. InHand'
  <2>1. \A q \in Ids \ {r} : (Settled(q)' <=> Settled(q)) /\ req'[q] = req[q]
    BY <1>1 DEF Settled, Running
  <2> SUFFICES ASSUME NEW p \in Ids, req'[p].op = "reschedule", ~Settled(p)'
               PROVE  /\ Settled(req[p].target)'
                      /\ \A q \in Ids : req'[q].target = req'[p].target => q = p \/ Settled(q)'
    BY DEF InHand
  <2>2. p # r
    BY <1>1
  <2>3. req'[p] = req[p] /\ req[p].op = "reschedule" /\ ~Settled(p) /\ RequestShape(p)
    BY <2>1, <2>2 DEF MoveInv, RequestShapes
  <2>4. req[p].target \in Ids \ {r} /\ req[p].target # b
    BY <1>2, <1>5, <2>3 DEF RequestShape, RescheduleShape
  <2>5. /\ Settled(req[p].target)
        /\ \A q \in Ids : req[q].target = req[p].target => q = p \/ Settled(q)
    BY <2>3 DEF MoveInv, InHand
  <2> QED BY <1>1, <2>1, <2>3, <2>4, <2>5
<1>10. Entries'
  BY <1>1, <1>6 DEF MoveInv, Entries, EntryOf, Insert, Exists, Nowhere, Held, HoldsSlot
<1>11. \A q, c \in Ids : Moved(c, q)' <=> Moved(c, q)
  BY <1>1 DEF Moved, Update
<1>12. \A c \in Ids : Released(c)' <=> Released(c)
  BY <1>1, <1>6, <1>7 DEF Released, Release
<1>13. (MovedOnce /\ UpdateWithdraws /\ OneBookingPerKey)'
  BY <1>1, <1>6, <1>11 DEF MoveInv, MovedOnce, UpdateWithdraws, OneBookingPerKey, Exists, Confirmed, Update
<1>14. EntryKept'
  <2>1. \A q, c \in Ids : Moved(c, q) => req'[q] = req[q]
    BY <1>1 DEF Moved
  <2>2. \A c \in Ids : Exists(c) => req'[c] = req[c]
    BY <1>1
  <2> QED BY <1>1, <1>11, <1>12, <2>1, <2>2 DEF MoveInv, EntryKept, Exists, HoldsSlot, Nowhere, Held
<1> QED BY <1>3, <1>4, <1>8, <1>9, <1>10, <1>13, <1>14 DEF MoveInv

(* The handler moves on; its tasks, the bookings and the locks stay. *)
LEMMA MoveControlStep ==
  ASSUME OneAtATime, MoveInv, NEW r \in Ids,
         \/ Refuse(r) \/ SwapZScore(r) \/ SwapHGet(r)
         \/ AllResolved(r) \/ OneRejected(r) \/ EnqueueJob(r)
  PROVE  MoveInv'
<1>1. /\ UNCHANGED <<zset, endTimes, bookings, events, req, tasks>>
      /\ jobs' \subseteq Ids
      /\ \A q \in Ids \ {r} : pc'[q] = pc[q]
  BY DEF MoveInv, TypeOK, Refuse, SwapZScore, SwapHGet, AllResolved, OneRejected, EnqueueJob, Goto, store
<1>2. RequestShape(r) /\ EntryOf(r)
  BY DEF MoveInv, RequestShapes, Entries
<1>3. pc[r] \in {"validate", "hget", "parallel", "enqueue"}
  BY DEF Refuse, SwapZScore, SwapHGet, AllResolved, OneRejected, EnqueueJob
<1>4. /\ RequestShape(r)'
      /\ pc'[r] \in Ended \cup {"hget", "swap", "parallel", "enqueue", "catch"}
      /\ Insert(r) = "failed" /\ req[r].op = "create" => pc[r] = "parallel" /\ pc'[r] = "catch"
  <2>1. CASE Refuse(r)
    <3>1. pc[r] = "validate" /\ pc'[r] = "refused"
      BY <2>1 DEF MoveInv, TypeOK, Refuse, Goto
    <3> QED BY <1>1, <1>2, <3>1 DEF RequestShape, NewShape, CreateShape, CancelShape, RescheduleShape, AskingShape,
          Asking, Insert, Update, Event, Release, Exists, Ended
  <2>2. CASE SwapZScore(r)
    <3>1. /\ pc[r] = "validate" /\ req[r].op = "reschedule"
          /\ pc'[r] = IF Held(OldDay(r), req[r].target) THEN "hget" ELSE "refused"
      BY <2>2 DEF MoveInv, TypeOK, SwapZScore, Goto
    <3>2. /\ req[r].target \in Ids /\ Exists(req[r].target) /\ Confirmed(req[r].target)
          /\ tasks[r] = NoTasks /\ req[r].slot \in Slots /\ req[r].key \in Keys
      BY <1>2, <3>1 DEF RequestShape, RescheduleShape, AskingShape, Asking
    <3>3. OldDay(r) \in Days
      BY <3>2, SlotsAssumption DEF MoveInv, TypeOK, Exists, Documents, OldDay
    <3>4. Held(OldDay(r), req[r].target) => req[req[r].target].op = "create"
      BY <3>2, <3>3 DEF MoveInv, Entries, EntryOf, Nowhere
    <3> QED BY <1>1, <1>2, <3>1, <3>2, <3>4 DEF RequestShape, RescheduleShape, AskingShape, Asking,
          Insert, Event, Release, Exists, Confirmed, Ended
  <2>3. CASE SwapHGet(r)
    <3>1. pc[r] = "hget" /\ pc'[r] \in {"swap", "refused"}
      BY <2>3 DEF MoveInv, TypeOK, SwapHGet, Goto
    <3>2. req[r].op = "reschedule"
      BY <1>2, <3>1, MoveTaskStates DEF RequestShape, NewShape, CreateShape, CancelShape
    <3> QED BY <1>1, <1>2, <3>1, <3>2 DEF RequestShape, RescheduleShape, AskingShape,
          Asking, Insert, Event, Release, Exists, Confirmed, Ended
  <2>4. CASE AllResolved(r)
    <3>1. pc[r] = "parallel" /\ pc'[r] = "enqueue"
      BY <2>4 DEF MoveInv, TypeOK, AllResolved, Goto
    <3>2. {Insert(r), Update(r), Event(r), Release(r)} \subseteq {"off", "ok"}
      BY <2>4 DEF AllResolved, TaskNames, Insert, Update, Event, Release
    <3> QED BY <1>1, <1>2, <3>1, <3>2 DEF RequestShape, NewShape, CreateShape, CancelShape, RescheduleShape,
          MovingShape, Asking, Insert, Update, Event, Release, Exists
  <2>5. CASE OneRejected(r)
    <3>1. pc[r] = "parallel" /\ pc'[r] = OnRejection(r)
      BY <2>5 DEF MoveInv, TypeOK, OneRejected, Goto, OnRejection
    <3>2. "failed" \in {Insert(r), Update(r), Event(r), Release(r)}
      BY <2>5 DEF OneRejected, TaskNames, Insert, Update, Event, Release
    <3>3. Insert(r) = "failed"
      BY <3>2, MoveTaskStates
    <3> QED BY <1>1, <1>2, <3>1, <3>3 DEF OnRejection, RequestShape, NewShape, CreateShape, CancelShape,
          RescheduleShape, MovingShape, Asking, Insert, Update, Event, Release, Exists, Ended
  <2>6. CASE EnqueueJob(r)
    <3>1. pc[r] = "enqueue" /\ pc'[r] = "done"
      BY <2>6 DEF OneAtATime, MoveInv, TypeOK, EnqueueJob, Goto
    <3> QED BY <1>1, <1>2, <3>1 DEF RequestShape, NewShape, CreateShape, CancelShape,
          RescheduleShape, MovingShape, Asking, Insert, Update, Event, Release, Exists, Ended
  <2> QED BY <2>1, <2>2, <2>3, <2>4, <2>5, <2>6
<1>5. TypeOK'
  <2>1. pc' \in [Ids -> Ended \cup {"validate", "hget", "swap", "parallel", "enqueue", "catch", "unlock"}]
    BY <1>4 DEF MoveInv, TypeOK, Refuse, SwapZScore, SwapHGet, AllResolved, OneRejected, EnqueueJob, Goto
  <2> QED BY <1>1, <2>1 DEF MoveInv, TypeOK, StoreType
<1>6. StoreInv'
  BY <1>1, StoreUnchanged DEF MoveInv, store
<1>7. RequestShapes'
  <2> SUFFICES ASSUME NEW q \in Ids, q # r PROVE RequestShape(q)'
    BY <1>4 DEF RequestShapes
  <2> QED BY <1>1 DEF MoveInv, RequestShapes, RequestShape, NewShape, CreateShape, CancelShape, RescheduleShape,
        AskingShape, MovingShape, Asking, Insert, Update, Event, Release, Exists, Confirmed
<1>8. InHand'
  <2>1. ~Settled(r)
    BY <1>3, UnderWay DEF Ended
  <2> QED BY <1>1, <2>1, InHandStays
<1>9. Entries'
  BY <1>1, <1>4 DEF MoveInv, Entries, EntryOf, Insert, Exists, Nowhere, Held, HoldsSlot
<1>10. (MovedOnce /\ UpdateWithdraws /\ EntryKept /\ OneBookingPerKey)'
  BY <1>1 DEF MoveInv, MovedOnce, Moved, UpdateWithdraws, EntryKept, OneBookingPerKey, Exists,
     Confirmed, HoldsSlot, Update, Released, Release, Nowhere, Held
<1> QED BY <1>5, <1>6, <1>7, <1>8, <1>9, <1>10 DEF MoveInv

LEMMA MoveCreateEventStep ==
  ASSUME OneAtATime, MoveInv, NEW r \in Ids, CreateEvent(r)
  PROVE  MoveInv'
<1>1. /\ UNCHANGED <<zset, endTimes, bookings, jobs, req, pc>>
      /\ events' = events \cup {r}
      /\ tasks' = [tasks EXCEPT ![r]["event"] = "ok"]
      /\ tasks[r]["event"] = "pending"
  BY DEF OneAtATime, CreateEvent, EndTask, store
<1>2. \A q \in Ids : /\ Insert(q)' = Insert(q) /\ Update(q)' = Update(q) /\ Release(q)' = Release(q)
                     /\ Event(q)' = IF q = r THEN "ok" ELSE Event(q)
                     /\ q # r => tasks'[q] = tasks[q]
  BY <1>1 DEF MoveInv, TypeOK, TaskNames, Insert, Update, Release, Event
<1>3. TypeOK'
  BY <1>1 DEF MoveInv, TypeOK, StoreType, TaskNames
<1>4. StoreInv'
  BY <1>1, StoreUnchanged DEF MoveInv, store
<1>5. RequestShapes'
  <2> SUFFICES ASSUME NEW q \in Ids PROVE RequestShape(q)'
    BY DEF RequestShapes
  <2>1. RequestShape(q)
    BY DEF MoveInv, RequestShapes
  <2>2. CASE q = r
    <3>1. tasks[r] # NoTasks /\ Event(r) = "pending"
      BY <1>1 DEF NoTasks, TaskNames, Event
    <3> QED BY <1>1, <1>2, <2>1, <2>2, <3>1 DEF RequestShape, NewShape, CreateShape, CancelShape, RescheduleShape,
          AskingShape, MovingShape, Asking, Exists
  <2>3. CASE q # r
    BY <1>1, <1>2, <2>1, <2>3 DEF RequestShape, NewShape, CreateShape, CancelShape, RescheduleShape,
       AskingShape, MovingShape, Asking, Exists, Confirmed
  <2> QED BY <2>2, <2>3
<1>6. InHand'
  <2>1. ~Settled(r)
    BY <1>1, UnderWay DEF Running, TaskNames
  <2> QED BY <1>1, <1>2, <2>1, InHandStays
<1>7. (Entries /\ MovedOnce /\ UpdateWithdraws /\ EntryKept /\ OneBookingPerKey)'
  BY <1>1, <1>2 DEF MoveInv, Entries, EntryOf, MovedOnce, Moved, UpdateWithdraws, EntryKept,
     OneBookingPerKey, Exists, Confirmed, Nowhere, Held, HoldsSlot, Released
<1> QED BY <1>3, <1>4, <1>5, <1>6, <1>7 DEF MoveInv

-----------------------------------------------------------------------------
(* Steps on the lock store *)

(* The slots that entries stand for are slots. *)
LEMMA EntrySlots ==
  ASSUME MoveInv, NEW r \in Ids
  PROVE  /\ Insert(r) # "off" \/ (req[r].op = "reschedule" /\ Update(r) # "off") =>
                req[r].slot \in Slots /\ req[r].slot.day \in Days
         /\ Exists(r) => bookings[r].slot \in Slots /\ bookings[r].slot.day \in Days
<1>1. RequestShape(r)
  BY DEF MoveInv, RequestShapes
<1>2. Insert(r) # "off" \/ (req[r].op = "reschedule" /\ Update(r) # "off") => req[r].slot \in Slots
  BY <1>1 DEF RequestShape, NewShape, CreateShape, CancelShape, RescheduleShape, NoTasks, TaskNames, Insert, Update
<1>3. Exists(r) => bookings[r].slot \in Slots
  BY DEF MoveInv, TypeOK, Exists, Documents
<1> QED BY <1>2, <1>3, SlotsAssumption

LEMMA MoveAcquireStep ==
  ASSUME OneAtATime, MoveInv, NEW r \in Ids, CreateAcquire(r)
  PROVE  MoveInv'
<1> DEFINE s == req[r].slot
<1>1. /\ req[r].op = "create" /\ pc[r] = "validate" /\ CreateShape(r)
      /\ s \in Slots /\ s.day \in Days
      /\ UNCHANGED <<bookings, events, jobs, req>>
      /\ \A q \in Ids \ {r} : pc'[q] = pc[q] /\ tasks'[q] = tasks[q]
  BY SlotsAssumption DEF MoveInv, TypeOK, RequestShapes, RequestShape, CreateShape, CreateAcquire, Goto
<1>2. Insert(r) = "off"
  BY <1>1, MoveTaskStates DEF CreateShape
<1>3. ~Exists(r) /\ Nowhere(r) /\ endTimes[r] = None
  BY <1>2 DEF MoveInv, Entries, EntryOf
<1>4. InHand'
  <2>1. ~Settled(r)
    BY <1>1, UnderWay DEF Ended
  <2> QED BY <1>1, <2>1, InHandStays
<1>5. \A q \in Ids : req[q].target # r
  BY <1>3, TargetsExist, NoneAssumption
<1>6. CASE AcquireConflict(s) /\ UNCHANGED <<store, tasks>> /\ Goto(r, "refused")
  <2>1. UNCHANGED <<zset, endTimes, tasks>> /\ pc'[r] = "refused"
    BY <1>6 DEF MoveInv, TypeOK, Goto, store
  <2>2. TypeOK' /\ StoreInv'
    BY <1>1, <1>6, <2>1, StoreUnchanged DEF MoveInv, TypeOK, StoreType, Goto, Ended
  <2>3. RequestShapes'
    <3> SUFFICES ASSUME NEW q \in Ids PROVE RequestShape(q)'
      BY DEF RequestShapes
    <3>1. RequestShape(q)
      BY DEF MoveInv, RequestShapes
    <3> QED BY <1>1, <1>2, <2>1, <3>1 DEF RequestShape, NewShape, CreateShape, CancelShape, RescheduleShape,
          AskingShape, MovingShape, Asking, Insert, Update, Event, Release, Exists, Confirmed
  <2>4. Entries'
    BY <1>1, <1>2, <2>1 DEF MoveInv, Entries, EntryOf, Insert, Exists, Nowhere, Held, HoldsSlot
  <2>5. (MovedOnce /\ UpdateWithdraws /\ EntryKept /\ OneBookingPerKey)'
    BY <1>1, <2>1 DEF MoveInv, MovedOnce, Moved, UpdateWithdraws, EntryKept, OneBookingPerKey, Exists,
       Confirmed, HoldsSlot, Update, Released, Release, Nowhere, Held
  <2> QED BY <1>4, <2>2, <2>3, <2>4, <2>5 DEF MoveInv
<1>7. CASE /\ AcquireScript(r, s) /\ Goto(r, "parallel")
           /\ tasks' = [tasks EXCEPT ![r] = Start({"insert", "event"})]
  <2>1. StoreInv'
    BY <1>1, <1>3, <1>7, AcquireKeepsStore DEF MoveInv
  <2>2. /\ tasks'[r] = Start({"insert", "event"}) /\ pc'[r] = "parallel"
        /\ Start({"insert", "event"}) \in [TaskNames -> {"off", "pending", "sent", "ok", "failed"}]
    BY <1>7 DEF MoveInv, TypeOK, Goto, Start
  <2>3. TypeOK'
    BY <1>1, <1>7, <2>1, <2>2 DEF MoveInv, StoreInv, TypeOK, Goto, Ended
  <2>4. /\ Insert(r)' = "pending" /\ Update(r)' = "off"
        /\ Event(r)' = "pending" /\ Release(r)' = "off"
    BY <2>2 DEF Insert, Update, Event, Release, Start, TaskNames
  <2>5. /\ \A d \in Days, x \in Ids : x # r => zset'[d][x] = zset[d][x]
        /\ \A x \in Ids : x # r => endTimes'[x] = endTimes[x]
        /\ zset'[s.day][r] = s.start /\ endTimes'[r] = s.end
    BY <1>1, <1>7 DEF MoveInv, StoreInv, StoreType, AcquireScript
  <2>6. RequestShapes'
    <3> SUFFICES ASSUME NEW q \in Ids PROVE RequestShape(q)'
      BY DEF RequestShapes
    <3>1. CASE q = r
      BY <1>1, <2>2, <2>4, <3>1 DEF RequestShape, CreateShape
    <3>2. CASE q # r
      <4>1. RequestShape(q)
        BY DEF MoveInv, RequestShapes
      <4> QED BY <1>1, <3>2, <4>1 DEF RequestShape, NewShape, CreateShape, CancelShape, RescheduleShape,
            AskingShape, MovingShape, Asking, Insert, Update, Event, Release, Exists, Confirmed
    <3> QED BY <3>1, <3>2
  <2>7. \A q \in Ids \ {r} : Insert(q)' = Insert(q) /\ Update(q)' = Update(q)
    BY <1>1 DEF Insert, Update
  <2>8. Entries'
    <3> SUFFICES ASSUME NEW q \in Ids PROVE EntryOf(q)'
      BY DEF Entries
    <3>1. CASE q = r
      BY <1>1, <1>3, <2>4, <2>5, <3>1 DEF EntryOf, Exists, HoldsSlot
    <3>2. CASE q # r
      BY <1>1, <2>5, <2>7, <3>2, EntrySlots
         DEF MoveInv, Entries, EntryOf, Exists, Nowhere, Held, HoldsSlot
    <3> QED BY <3>1, <3>2
  <2>9. \A b, q \in Ids : Moved(b, q)' <=> Moved(b, q)
    BY <1>1, <1>5, <2>4, <2>7, NoneAssumption DEF Moved, CreateShape
  <2>10. (MovedOnce /\ UpdateWithdraws /\ OneBookingPerKey)'
    BY <1>1, <2>4, <2>7, <2>9 DEF MoveInv, MovedOnce, UpdateWithdraws, OneBookingPerKey, Exists, Confirmed
  <2>12. \A b \in Ids : Released(b)' <=> Released(b)
    BY <1>1, <1>5, <2>4, NoneAssumption DEF Released, Release, CreateShape
  <2>11. EntryKept'
    <3> SUFFICES ASSUME NEW b \in Ids, Exists(b), req[b].op = "create"
                 PROVE  /\ \A q \in Ids : Moved(b, q) => HoldsSlot(b, req[q].slot)'
                        /\ (\A q \in Ids : ~Moved(b, q)) =>
                               IF Released(b) THEN Nowhere(b)' ELSE HoldsSlot(b, bookings[b].slot)'
      BY <1>1, <2>9, <2>12 DEF EntryKept, Exists
    <3>1. b # r
      BY <1>3
    <3>2. \A q \in Ids : Moved(b, q) => req[q].slot.day \in Days
      BY EntrySlots DEF Moved
    <3>3. bookings[b].slot.day \in Days
      BY EntrySlots
    <3> QED BY <1>1, <2>5, <3>1, <3>2, <3>3 DEF MoveInv, EntryKept, HoldsSlot, Nowhere, Held
  <2> QED BY <1>4, <2>1, <2>3, <2>6, <2>8, <2>10, <2>11 DEF MoveInv
<1> QED BY <1>6, <1>7 DEF CreateAcquire

(* The catch block of a create whose insert was rejected. *)
LEMMA CatchOwner ==
  ASSUME MoveInv, NEW r \in Ids, pc[r] \in {"catch", "unlock"}
  PROVE  /\ Insert(r) = "failed" /\ CreateShape(r) /\ req[r].op = "create"
         /\ req[r].slot \in Slots /\ req[r].slot.day \in Days
         /\ ~Exists(r) /\ ~Settled(r)
         /\ \A q \in Ids : req[q].target # r
<1>1. RequestShape(r)
  BY DEF MoveInv, RequestShapes
<1>2. req[r].op = "create" /\ CreateShape(r)
  BY <1>1 DEF RequestShape, NewShape, CancelShape, RescheduleShape, MovingShape, Asking
<1>3. Insert(r) = "failed"
  BY <1>2, MoveTaskStates DEF CreateShape
<1>4. ~Exists(r)
  BY <1>3 DEF MoveInv, Entries, EntryOf
<1>5. ~Settled(r)
  BY UnderWay DEF Ended
<1> QED BY <1>2, <1>3, <1>4, <1>5, EntrySlots, TargetsExist, NoneAssumption

LEMMA MoveCatchZRemStep ==
  ASSUME MoveInv, NEW r \in Ids, CatchZRem(r)
  PROVE  MoveInv'
<1> DEFINE s == req[r].slot
<1>1. /\ UNCHANGED <<endTimes, bookings, events, jobs, req, tasks>>
      /\ zset' = [zset EXCEPT ![s.day][r] = None]
      /\ pc[r] = "catch" /\ pc'[r] = "unlock"
      /\ \A q \in Ids \ {r} : pc'[q] = pc[q]
  BY DEF MoveInv, TypeOK, CatchZRem, ZRem, Goto
<1>2. /\ Insert(r) = "failed" /\ CreateShape(r) /\ req[r].op = "create"
      /\ s \in Slots /\ s.day \in Days /\ ~Exists(r) /\ ~Settled(r)
  BY <1>1, CatchOwner
<1>3. StoreInv'
  BY <1>2, ZRemKeepsStore DEF MoveInv, CatchZRem
<1>4. /\ \A d \in Days, x \in Ids : x # r => zset'[d][x] = zset[d][x]
      /\ \A d \in Days : d # s.day => zset'[d][r] = zset[d][r]
      /\ zset'[s.day][r] = None
  BY <1>1, <1>2 DEF MoveInv, StoreInv, StoreType
<1>5. HoldsSlot(r, s)
  BY <1>1, <1>2 DEF MoveInv, Entries, EntryOf
<1>6. \A d \in Days : zset'[d][r] = None
  BY <1>2, <1>4, <1>5, HolderIsElsewhereNowhere DEF MoveInv, Held
<1>7. TypeOK'
  BY <1>1, <1>3 DEF MoveInv, StoreInv, TypeOK, CatchZRem, Goto
<1>8. RequestShapes'
  <2> SUFFICES ASSUME NEW q \in Ids PROVE RequestShape(q)'
    BY DEF RequestShapes
  <2>1. RequestShape(q)
    BY DEF MoveInv, RequestShapes
  <2> QED BY <1>1, <1>2, <2>1 DEF RequestShape, NewShape, CreateShape, CancelShape, RescheduleShape,
        AskingShape, MovingShape, Asking, Insert, Update, Event, Release, Exists, Confirmed
<1>9. InHand'
  BY <1>1, <1>2, InHandStays
<1>10. Entries'
  BY <1>1, <1>2, <1>4, <1>5, <1>6, EntrySlots
     DEF MoveInv, Entries, EntryOf, Insert, Update, Exists, Nowhere, Held, HoldsSlot
<1>11. (MovedOnce /\ UpdateWithdraws /\ OneBookingPerKey)'
  BY <1>1 DEF MoveInv, MovedOnce, Moved, UpdateWithdraws, OneBookingPerKey, Exists, Confirmed, Update
<1>12. EntryKept'
  BY <1>1, <1>2, <1>4, EntrySlots DEF MoveInv, EntryKept, Moved, Released, Exists, HoldsSlot, Nowhere, Held,
     Update, Release
<1> QED BY <1>3, <1>7, <1>8, <1>9, <1>10, <1>11, <1>12 DEF MoveInv

LEMMA MoveCatchHDelStep ==
  ASSUME MoveInv, NEW r \in Ids, CatchHDel(r)
  PROVE  MoveInv'
<1>1. /\ UNCHANGED <<zset, bookings, events, jobs, req, tasks>>
      /\ endTimes' = [endTimes EXCEPT ![r] = None]
      /\ pc[r] = "unlock" /\ pc'[r] = "failed"
      /\ \A q \in Ids \ {r} : pc'[q] = pc[q]
  BY DEF MoveInv, TypeOK, CatchHDel, HDel, Goto
<1>2. Insert(r) = "failed" /\ CreateShape(r) /\ req[r].op = "create" /\ ~Exists(r) /\ ~Settled(r)
  BY <1>1, CatchOwner
<1>3. Nowhere(r)
  BY <1>1, <1>2 DEF MoveInv, Entries, EntryOf
<1>4. StoreInv'
  BY <1>3, HDelKeepsStore DEF MoveInv, CatchHDel
<1>5. \A x \in Ids : x # r => endTimes'[x] = endTimes[x]
  BY <1>1 DEF MoveInv, StoreInv, StoreType
<1>6. TypeOK'
  BY <1>1, <1>4 DEF MoveInv, StoreInv, TypeOK, CatchHDel, Goto, Ended
<1>7. RequestShapes'
  <2> SUFFICES ASSUME NEW q \in Ids PROVE RequestShape(q)'
    BY DEF RequestShapes
  <2>1. RequestShape(q)
    BY DEF MoveInv, RequestShapes
  <2> QED BY <1>1, <1>2, <2>1 DEF RequestShape, NewShape, CreateShape, CancelShape, RescheduleShape,
        AskingShape, MovingShape, Asking, Insert, Update, Event, Release, Exists, Confirmed
<1>8. InHand'
  BY <1>1, <1>2, InHandStays
<1>9. Entries'
  BY <1>1, <1>2, <1>3, <1>5 DEF MoveInv, Entries, EntryOf, Insert, Exists, Nowhere, Held, HoldsSlot
<1>10. (MovedOnce /\ UpdateWithdraws /\ EntryKept /\ OneBookingPerKey)'
  BY <1>1, <1>2, <1>5 DEF MoveInv, MovedOnce, Moved, UpdateWithdraws, EntryKept, OneBookingPerKey,
     Exists, Confirmed, HoldsSlot, Update, Released, Release, Nowhere, Held
<1> QED BY <1>4, <1>6, <1>7, <1>8, <1>9, <1>10 DEF MoveInv

(* Before the swap of r nothing has moved its booking, whose entry is      *)
(* still for the slot of the document.                                     *)
LEMMA UnmovedBeforeSwap ==
  ASSUME MoveInv, NEW r \in Ids, pc[r] = "swap"
  PROVE  /\ req[r].op = "reschedule" /\ RescheduleShape(r) /\ tasks[r] = NoTasks
         /\ req[r].target \in Ids \ {r} /\ Exists(req[r].target)
         /\ Insert(req[r].target) = "ok" /\ Insert(r) = "off" /\ ~Exists(r)
         /\ req[req[r].target].op = "create"
         /\ \A q \in Ids : ~Moved(req[r].target, q)
         /\ ~Released(req[r].target)
         /\ HoldsSlot(req[r].target, bookings[req[r].target].slot)
         /\ ~Settled(r)
<1> DEFINE b == req[r].target
<1>1. req[r].op = "reschedule" /\ RescheduleShape(r)
  BY MoveTaskStates DEF MoveInv, RequestShapes, RequestShape, NewShape, CreateShape, CancelShape
<1>2. /\ b \in Ids /\ Exists(b) /\ AskingShape(r) /\ tasks[r] = NoTasks
      /\ Confirmed(b) /\ req[b].op = "create"
  BY <1>1 DEF RescheduleShape, AskingShape, Asking
<1>3. Insert(b) = "ok"
  BY <1>2, MoveTaskStates DEF MoveInv, Entries, EntryOf
<1>4. Insert(r) = "off" /\ Update(r) = "off"
  BY <1>2 DEF NoTasks, TaskNames, Insert, Update
<1>5. ~Exists(r) /\ b # r
  BY <1>3, <1>4 DEF MoveInv, Entries, EntryOf
<1>6. ~Settled(r)
  BY UnderWay DEF Ended
<1>7. ASSUME NEW q \in Ids, Moved(b, q) PROVE FALSE
  <2>1. Update(q) = "pending"
    BY <1>2, <1>7, MoveTaskStates DEF MoveInv, UpdateWithdraws, Moved
  <2>2. ~Settled(q)
    BY <2>1, UnderWay DEF Running, TaskNames, Update
  <2>3. q = r
    BY <1>1, <1>6, <1>7, <2>2 DEF MoveInv, InHand, Moved
  <2> QED BY <1>4, <2>1, <2>3
<1>9. ~Released(b)
  <2> SUFFICES ASSUME NEW q \in Ids, req[q].target = b, Release(q) \in {"sent", "ok"} PROVE FALSE
    BY DEF Released
  <2>1. Update(q) = "pending"
    BY <1>2, MoversSwapped, MoveTaskStates DEF MoveInv, UpdateWithdraws, CancelShape
  <2>2. ~Settled(q)
    BY <2>1, UnderWay DEF Running, TaskNames, Update
  <2>3. q = r
    BY <1>1, <1>6, <2>2 DEF MoveInv, InHand
  <2> QED BY <1>4, <2>1, <2>3
<1>8. HoldsSlot(b, bookings[b].slot)
  BY <1>2, <1>7, <1>9 DEF MoveInv, EntryKept
<1> QED BY <1>1, <1>2, <1>3, <1>4, <1>5, <1>6, <1>7, <1>8, <1>9

LEMMA SwapEvalStep ==
  ASSUME MoveInv, NEW r \in Ids, SwapEval(r)
  PROVE  MoveInv'
<1> DEFINE b == req[r].target  s == req[r].slot  old == bookings[b].slot
<1>1. /\ pc[r] = "swap" /\ UNCHANGED <<bookings, events, jobs, req>>
      /\ \A q \in Ids \ {r} : pc'[q] = pc[q] /\ tasks'[q] = tasks[q]
  BY DEF MoveInv, TypeOK, SwapEval, Goto
<1>2. /\ req[r].op = "reschedule" /\ RescheduleShape(r) /\ tasks[r] = NoTasks
      /\ b \in Ids \ {r} /\ Exists(b) /\ Insert(b) = "ok" /\ Insert(r) = "off" /\ ~Exists(r)
      /\ req[b].op = "create"
      /\ \A q \in Ids : ~Moved(b, q)
      /\ HoldsSlot(b, old) /\ ~Settled(r)
  BY <1>1, UnmovedBeforeSwap
<1>3. s \in Slots /\ s.day \in Days /\ old \in Slots /\ old.day \in Days /\ OldDay(r) = old.day
  BY <1>2, EntrySlots, SlotsAssumption DEF RescheduleShape, OldDay
<1>4. InHand'
  BY <1>1, <1>2, InHandStays
<1>5. CASE SwapRefused(b, s) /\ Goto(r, "refused") /\ UNCHANGED <<store, tasks>>
  <2>1. UNCHANGED <<zset, endTimes, tasks>> /\ pc'[r] = "refused"
    BY <1>5 DEF MoveInv, TypeOK, Goto, store
  <2>2. TypeOK' /\ StoreInv'
    BY <1>1, <1>5, <2>1, StoreUnchanged DEF MoveInv, TypeOK, StoreType, Goto, Ended
  <2>3. RequestShapes'
    <3> SUFFICES ASSUME NEW q \in Ids PROVE RequestShape(q)'
      BY DEF RequestShapes
    <3>1. RequestShape(q)
      BY DEF MoveInv, RequestShapes
    <3>2. CASE q = r
      BY <1>1, <1>2, <2>1, <3>1, <3>2 DEF RequestShape, RescheduleShape, AskingShape, Asking,
         Insert, Event, Release, Exists
    <3>3. CASE q # r
      BY <1>1, <2>1, <3>1, <3>3 DEF RequestShape, NewShape, CreateShape, CancelShape, RescheduleShape,
         AskingShape, MovingShape, Asking, Insert, Update, Event, Release, Exists, Confirmed
    <3> QED BY <3>2, <3>3
  <2>4. Entries'
    BY <1>1, <1>2, <2>1 DEF MoveInv, Entries, EntryOf, Insert, Exists, Nowhere, Held, HoldsSlot
  <2>5. (MovedOnce /\ UpdateWithdraws /\ EntryKept /\ OneBookingPerKey)'
    BY <1>1, <2>1 DEF MoveInv, MovedOnce, Moved, UpdateWithdraws, EntryKept, OneBookingPerKey, Exists,
       Confirmed, HoldsSlot, Update, Released, Release, Nowhere, Held
  <2> QED BY <1>4, <2>2, <2>3, <2>4, <2>5 DEF MoveInv
<1>6. CASE /\ SwapScript(b, old.day, s) /\ Goto(r, "parallel")
           /\ tasks' = [tasks EXCEPT ![r] = Start({"insert", "update", "event"})]
  <2>1. StoreInv'
    <3>1. \A d \in Days : Held(d, b) => d = old.day
      BY <1>2, <1>3, HolderIsElsewhereNowhere DEF MoveInv
    <3> QED BY <1>2, <1>3, <1>6, <3>1, SwapKeepsStore DEF MoveInv
  <2>2. /\ tasks'[r] = Start({"insert", "update", "event"}) /\ pc'[r] = "parallel"
        /\ Start({"insert", "update", "event"}) \in [TaskNames -> {"off", "pending", "sent", "ok", "failed"}]
    BY <1>6 DEF MoveInv, TypeOK, Goto, Start
  <2>3. TypeOK'
    BY <1>1, <1>6, <2>1, <2>2 DEF MoveInv, StoreInv, TypeOK, Goto, Ended
  <2>4. /\ Insert(r)' = "pending" /\ Update(r)' = "pending"
        /\ Event(r)' = "pending" /\ Release(r)' = "off"
    BY <2>2 DEF Insert, Update, Event, Release, Start, TaskNames
  <2>5. /\ \A d \in Days, x \in Ids : x # b => zset'[d][x] = zset[d][x]
        /\ \A x \in Ids : x # b => endTimes'[x] = endTimes[x]
        /\ zset'[s.day][b] = s.start /\ endTimes'[b] = s.end
    BY <1>2, <1>3, <1>6 DEF MoveInv, StoreInv, StoreType, SwapScript
  <2>6. RequestShapes'
    <3> SUFFICES ASSUME NEW q \in Ids PROVE RequestShape(q)'
      BY DEF RequestShapes
    <3>1. CASE q = r
      BY <1>1, <1>2, <2>2, <2>4, <3>1 DEF RequestShape, RescheduleShape, MovingShape, Asking, Exists
    <3>2. CASE q # r
      <4>1. RequestShape(q)
        BY DEF MoveInv, RequestShapes
      <4> QED BY <1>1, <3>2, <4>1 DEF RequestShape, NewShape, CreateShape, CancelShape, RescheduleShape,
            AskingShape, MovingShape, Asking, Insert, Update, Event, Release, Exists, Confirmed
    <3> QED BY <3>1, <3>2
  <2>7. \A q \in Ids \ {r} : Insert(q)' = Insert(q) /\ Update(q)' = Update(q)
    BY <1>1 DEF Insert, Update
  <2>8. Entries'
    <3> SUFFICES ASSUME NEW q \in Ids PROVE EntryOf(q)'
      BY DEF Entries
    <3>1. EntryOf(q)
      BY DEF MoveInv, Entries
    <3>2. CASE q = r
      BY <1>1, <1>2, <2>4, <2>5, <3>1, <3>2 DEF EntryOf, Exists, Nowhere, Held
    <3>3. CASE q = b
      BY <1>1, <1>2, <2>7, <3>1, <3>3 DEF EntryOf, Exists
    <3>4. CASE q # r /\ q # b
      BY <1>1, <2>5, <2>7, <3>1, <3>4, EntrySlots DEF EntryOf, Exists, Nowhere, Held, HoldsSlot
    <3> QED BY <3>2, <3>3, <3>4
  <2>9. \A c, q \in Ids : Moved(c, q)' <=> Moved(c, q) \/ (c = b /\ q = r)
    BY <1>1, <1>2, <2>4, <2>7 DEF Moved
  <2>10. MovedOnce'
    BY <1>2, <2>9 DEF MoveInv, MovedOnce
  <2>11. (UpdateWithdraws /\ OneBookingPerKey)'
    BY <1>1, <2>4, <2>7 DEF MoveInv, UpdateWithdraws, OneBookingPerKey, Exists, Confirmed
  <2>13. \A c \in Ids : Released(c)' <=> Released(c)
    <3>1. Release(r) = "off"
      BY <1>2 DEF NoTasks, TaskNames, Release
    <3> QED BY <1>1, <2>4, <3>1 DEF Released, Release
  <2>12. EntryKept'
    <3> SUFFICES ASSUME NEW c \in Ids, Exists(c), req[c].op = "create"
                 PROVE  /\ \A q \in Ids : Moved(c, q)' => HoldsSlot(c, req[q].slot)'
                        /\ (\A q \in Ids : ~Moved(c, q)') =>
                               IF Released(c) THEN Nowhere(c)' ELSE HoldsSlot(c, bookings[c].slot)'
      BY <1>1, <2>13 DEF EntryKept, Exists
    <3>1. CASE c = b
      <4>1. \A q \in Ids : Moved(c, q)' => q = r
        BY <1>2, <2>9, <3>1
      <4>2. Moved(c, r)'
        BY <2>9, <3>1
      <4> QED BY <1>1, <2>5, <3>1, <4>1, <4>2 DEF HoldsSlot
    <3>2. CASE c # b
      <4>1. \A q \in Ids : Moved(c, q)' <=> Moved(c, q)
        BY <2>9, <3>2
      <4>2. \A q \in Ids : Moved(c, q) => req[q].slot.day \in Days
        BY EntrySlots DEF Moved
      <4>3. bookings[c].slot.day \in Days
        BY EntrySlots
      <4> QED BY <1>1, <2>5, <3>2, <4>1, <4>2, <4>3 DEF MoveInv, EntryKept, HoldsSlot, Nowhere, Held
    <3> QED BY <3>1, <3>2
  <2> QED BY <1>4, <2>1, <2>3, <2>6, <2>8, <2>10, <2>11, <2>12 DEF MoveInv
<1> QED BY <1>3, <1>5, <1>6 DEF SwapEval

-----------------------------------------------------------------------------
(* Steps on the bookings *)

LEMMA MoveInsertStep ==
  ASSUME MoveInv, NEW r \in Ids, InsertBooking(r)
  PROVE  MoveInv'
<1> DEFINE s == req[r].slot  k == req[r].key
           doc == [slot |-> s, key |-> k, status |-> "confirmed", from |-> req[r].target]
<1>1. /\ tasks[r]["insert"] = "pending"
      /\ UNCHANGED <<zset, endTimes, events, jobs, req, pc>>
  BY DEF InsertBooking, store
<1>2. /\ RequestShape(r) /\ req[r].op \in {"create", "reschedule"} /\ Insert(r) = "pending"
      /\ ~Exists(r) /\ s \in Slots /\ k \in Keys /\ req[r].target \in Ids \cup {None}
      /\ req[r].op = "create" => HoldsSlot(r, s)
  <2>1. Insert(r) = "pending" /\ RequestShape(r) /\ EntryOf(r)
    BY <1>1 DEF Insert, MoveInv, RequestShapes, Entries
  <2>2. req[r].op # "none"
    BY <1>1, <2>1 DEF RequestShape, NewShape, NoTasks, TaskNames
  <2> QED BY <2>1, <2>2 DEF RequestShape, CreateShape, CancelShape, RescheduleShape, EntryOf
<1>3. ~Settled(r)
  BY <1>1, UnderWay DEF Running, TaskNames
<1>4. StoreInv'
  BY <1>1, StoreUnchanged DEF MoveInv, store
<1>5. PICK how \in {"ok", "failed"} :
         /\ EndTask(r, "insert", how)
         /\ \/ how = "failed" /\ UNCHANGED bookings
            \/ how = "ok" /\ ~Duplicate(s, k) /\ bookings' = [bookings EXCEPT ![r] = doc]
  BY DEF InsertBooking
<1>6. \A q \in Ids : /\ Update(q)' = Update(q) /\ Release(q)' = Release(q) /\ Event(q)' = Event(q)
                     /\ Insert(q)' = IF q = r THEN how ELSE Insert(q)
                     /\ q # r => tasks'[q] = tasks[q]
  BY <1>5 DEF MoveInv, TypeOK, TaskNames, EndTask, Insert, Update, Release, Event
<1>7. tasks' \in [Ids -> [TaskNames -> {"off", "pending", "sent", "ok", "failed"}]]
  BY <1>5 DEF MoveInv, TypeOK, EndTask, TaskNames
<1>8. InHand'
  BY <1>1, <1>3, <1>6, InHandStays
<1>9. \A q \in Ids : req[q].target # r
  BY <1>2, TargetsExist, NoneAssumption
<1>10. /\ \A b \in Ids \ {r} : bookings'[b] = bookings[b]
       /\ how = "failed" => bookings'[r] = bookings[r]
       /\ how = "ok" => bookings'[r] = doc
       /\ bookings' \in [Ids -> Documents \cup {None}]
  <2>1. doc \in Documents
    BY <1>2 DEF Documents, Statuses
  <2> QED BY <1>5, <2>1 DEF MoveInv, TypeOK
<1>11. doc # None
  <2>1. doc \in Documents
    BY <1>2 DEF Documents, Statuses
  <2> QED BY <2>1, NoDocument
<1>12. TypeOK'
  BY <1>1, <1>7, <1>10 DEF MoveInv, TypeOK, StoreType
<1>13. RequestShapes'
  <2> SUFFICES ASSUME NEW q \in Ids PROVE RequestShape(q)'
    BY DEF RequestShapes
  <2>1. RequestShape(q)
    BY DEF MoveInv, RequestShapes
  <2>2. req[q].target \in Ids => bookings'[req[q].target] = bookings[req[q].target]
    BY <1>9, <1>10
  <2>3. CASE q = r
    <3>1. tasks[r] # NoTasks
      BY <1>1 DEF NoTasks, TaskNames
    <3>2. pc[r] = "parallel"
      BY <1>2, <2>1, <2>3, <3>1 DEF RequestShape, CreateShape, RescheduleShape, AskingShape, MovingShape
    <3> QED BY <1>1, <1>2, <1>6, <2>1, <2>2, <2>3, <3>1, <3>2 DEF RequestShape, CreateShape,
          RescheduleShape, AskingShape, MovingShape, Asking, Exists
  <2>4. CASE q # r
    BY <1>1, <1>6, <2>1, <2>2, <2>4 DEF RequestShape, NewShape, CreateShape, CancelShape, RescheduleShape,
       AskingShape, MovingShape, Asking, Exists, Confirmed
  <2> QED BY <2>3, <2>4
<1>14. Entries'
  <2> SUFFICES ASSUME NEW q \in Ids PROVE EntryOf(q)'
    BY DEF Entries
  <2>1. EntryOf(q)
    BY DEF MoveInv, Entries
  <2>2. CASE q = r
    <3>1. pc[r] = "parallel" \/ req[r].op = "reschedule"
      BY <1>2 DEF RequestShape, CreateShape
    <3>2. Exists(r)' <=> how = "ok"
      BY <1>2, <1>5, <1>10, <1>11 DEF Exists
    <3> QED BY <1>1, <1>2, <1>6, <1>10, <2>1, <2>2, <3>1, <3>2
        DEF EntryOf, Nowhere, Held, HoldsSlot
  <2>3. CASE q # r
    BY <1>1, <1>6, <1>10, <2>1, <2>3 DEF EntryOf, Exists, Nowhere, Held, HoldsSlot
  <2> QED BY <2>2, <2>3
<1>15. \A b, q \in Ids : Moved(b, q)' <=> Moved(b, q)
  BY <1>1, <1>6 DEF Moved
<1>16. MovedOnce'
  BY <1>15 DEF MoveInv, MovedOnce
<1>17. UpdateWithdraws'
  <2> SUFFICES ASSUME NEW q \in Ids, Update(q) = "ok" PROVE ~Confirmed(req[q].target)'
    BY <1>6 DEF UpdateWithdraws
  <2>1. req[q].target \in Ids \ {r} /\ ~Confirmed(req[q].target)
    BY <1>9, MoversSwapped DEF MoveInv, UpdateWithdraws
  <2> QED BY <1>1, <1>10, <2>1 DEF Confirmed, Exists
<1>20. \A b \in Ids : Released(b)' <=> Released(b)
  BY <1>1, <1>6 DEF Released
<1>18. EntryKept'
  <2> SUFFICES ASSUME NEW b \in Ids, Exists(b)', req[b].op = "create"
               PROVE  /\ \A q \in Ids : Moved(b, q) => HoldsSlot(b, req[q].slot)
                      /\ (\A q \in Ids : ~Moved(b, q)) =>
                             IF Released(b) THEN Nowhere(b) ELSE HoldsSlot(b, bookings[b].slot)'
    BY <1>1, <1>15, <1>20 DEF EntryKept, HoldsSlot, Nowhere, Held
  <2>1. CASE b = r
    <3>1. ~Released(b) /\ \A q \in Ids : ~Moved(b, q)
      BY <1>9, <2>1 DEF Moved, Released
    <3>2. how = "ok"
      BY <1>2, <1>10, <2>1 DEF Exists
    <3> QED BY <1>1, <1>2, <1>10, <2>1, <3>1, <3>2 DEF HoldsSlot
  <2>2. CASE b # r
    BY <1>1, <1>10, <2>2 DEF MoveInv, EntryKept, Exists, HoldsSlot
  <2> QED BY <2>1, <2>2
<1>19. OneBookingPerKey'
  <2>1. CASE how = "failed"
    BY <1>5, <2>1 DEF MoveInv, OneBookingPerKey, Exists
  <2>2. CASE how = "ok"
    <3>1. \A b \in Ids : Exists(b) => bookings[b].key # k
      BY <1>5, <2>2 DEF Duplicate
    <3> QED BY <1>10, <2>2, <3>1 DEF MoveInv, OneBookingPerKey, Exists
  <2> QED BY <2>1, <2>2
<1> QED BY <1>4, <1>8, <1>12, <1>13, <1>14, <1>16, <1>17, <1>18, <1>19 DEF MoveInv

LEMMA MoveUpdateStep ==
  ASSUME OneAtATime, MoveInv, NEW r \in Ids, UpdateBooking(r)
  PROVE  MoveInv'
<1> DEFINE b == req[r].target
<1>1. /\ tasks[r]["update"] = "pending"
      /\ UNCHANGED <<zset, endTimes, events, jobs, req, pc>>
      /\ bookings' = [bookings EXCEPT ![b].status = "cancelled"]
      /\ tasks' = [tasks EXCEPT ![r]["update"] = "ok"]
  BY DEF OneAtATime, UpdateBooking, EndTask, store
<1>2. /\ b \in Ids /\ Exists(b) /\ bookings[b] \in Documents /\ Update(r) = "pending"
      /\ \/ req[r].op = "reschedule" /\ MovingShape(r) /\ ~Asking(r) /\ pc[r] # "refused"
         \/ req[r].op = "cancel" /\ CancelShape(r)
  BY <1>1, MoversSwapped DEF MoveInv, TypeOK, Exists, Update
<1>3. ~Settled(r)
  BY <1>1, UnderWay DEF Running, TaskNames
<1>4. StoreInv'
  BY <1>1, StoreUnchanged DEF MoveInv, store
<1>5. /\ bookings'[b] = [bookings[b] EXCEPT !.status = "cancelled"]
      /\ \A x \in Ids : x # b => bookings'[x] = bookings[x]
  BY <1>1, <1>2 DEF MoveInv, TypeOK
<1>6. /\ bookings'[b] \in Documents
      /\ bookings'[b].slot = bookings[b].slot /\ bookings'[b].key = bookings[b].key
      /\ bookings'[b].from = bookings[b].from /\ bookings'[b].status = "cancelled"
  BY <1>2, <1>5 DEF Documents, Statuses
<1>7. \A x \in Ids : Exists(x)' <=> Exists(x)
  <2>1. Exists(b)'
    BY <1>1, <1>6, NoDocument DEF Exists
  <2> QED BY <1>1, <1>2, <1>5, <2>1 DEF Exists
<1>8. \A x \in Ids : /\ bookings'[x].slot = bookings[x].slot
                     /\ bookings'[x].key = bookings[x].key
                     /\ bookings'[x].from = bookings[x].from
                     /\ x = b => bookings'[x].status = "cancelled"
                     /\ x # b => bookings'[x].status = bookings[x].status
  BY <1>5, <1>6
<1>9. \A x \in Ids : /\ x = b => ~Confirmed(x)'
                     /\ x # b => (Confirmed(x)' <=> Confirmed(x))
  BY <1>7, <1>8 DEF Confirmed
<1>10. \A q \in Ids : /\ Insert(q)' = Insert(q) /\ Release(q)' = Release(q) /\ Event(q)' = Event(q)
                      /\ Update(q)' = IF q = r THEN "ok" ELSE Update(q)
                      /\ q # r => tasks'[q] = tasks[q]
  BY <1>1 DEF MoveInv, TypeOK, TaskNames, Insert, Update, Release, Event
<1>11. InHand'
  BY <1>1, <1>3, <1>10, InHandStays
<1>12. TypeOK'
  <2>1. bookings' \in [Ids -> Documents \cup {None}]
    BY <1>1, <1>2, <1>5, <1>6 DEF MoveInv, TypeOK
  <2> QED BY <1>1, <2>1 DEF MoveInv, TypeOK, StoreType, TaskNames
<1>13. \A q \in Ids \ {r} : req[q].op = "reschedule" /\ Asking(q) => req[q].target # b
  <2> SUFFICES ASSUME NEW q \in Ids \ {r}, req[q].op = "reschedule", Asking(q), req[q].target = b PROVE FALSE
    OBVIOUS
  <2>1. ~Settled(q)
    BY UnderWay DEF Asking, Ended
  <2> QED BY <1>2, <1>3, <2>1 DEF MoveInv, InHand
<1>14. RequestShapes'
  <2> SUFFICES ASSUME NEW q \in Ids PROVE RequestShape(q)'
    BY DEF RequestShapes
  <2>1. RequestShape(q)
    BY DEF MoveInv, RequestShapes
  <2>2. req[q].target \in Ids => (Exists(req[q].target)' <=> Exists(req[q].target))
    BY <1>1, <1>7
  <2>3. CASE q = r
    BY <1>1, <1>2, <1>10, <2>1, <2>2, <2>3 DEF RequestShape, RescheduleShape, MovingShape, CancelShape, Asking
  <2>4. CASE q # r
    <3>1. req[q].op = "reschedule" /\ Asking(q) =>
             (Confirmed(req[q].target)' <=> Confirmed(req[q].target))
      BY <1>1, <1>9, <1>13, <2>1, <2>4 DEF RequestShape, RescheduleShape
    <3> QED BY <1>1, <1>10, <2>1, <2>2, <2>4, <3>1 DEF RequestShape, NewShape, CreateShape, CancelShape,
          RescheduleShape, AskingShape, MovingShape, Asking
  <2> QED BY <2>3, <2>4
<1>15. Entries'
  BY <1>1, <1>7, <1>8, <1>10 DEF MoveInv, Entries, EntryOf, Nowhere, Held, HoldsSlot
<1>16. \A c, q \in Ids : Moved(c, q)' <=> Moved(c, q)
  BY <1>1, <1>2, <1>10 DEF Moved
<1>17. MovedOnce'
  BY <1>16 DEF MoveInv, MovedOnce
<1>18. UpdateWithdraws'
  <2> SUFFICES ASSUME NEW q \in Ids, Update(q)' = "ok" PROVE ~Confirmed(req[q].target)'
    BY DEF UpdateWithdraws
  <2>1. CASE q = r
    BY <1>1, <1>2, <1>9, <2>1
  <2>2. CASE q # r
    <3>1. Update(q) = "ok"
      BY <1>10, <2>2
    <3>2. req[q].target \in Ids /\ ~Confirmed(req[q].target)
      BY <3>1, MoversSwapped DEF MoveInv, UpdateWithdraws
    <3> QED BY <1>1, <1>9, <3>2
  <2> QED BY <2>1, <2>2
<1>19. EntryKept'
  <2>1. \A x \in Ids : Released(x)' <=> Released(x)
    BY <1>1, <1>10 DEF Released
  <2> QED BY <1>1, <1>7, <1>8, <1>16, <2>1 DEF MoveInv, EntryKept, HoldsSlot, Nowhere, Held
<1>20. OneBookingPerKey'
  BY <1>7, <1>8 DEF MoveInv, OneBookingPerKey
<1> QED BY <1>4, <1>11, <1>12, <1>14, <1>15, <1>17, <1>18, <1>19, <1>20 DEF MoveInv

-----------------------------------------------------------------------------
(* The two calls of releaseSlot, of a cancel.  Its booking has not been    *)
(* moved, so the entry under its id is its own, or gone already.           *)

LEMMA ReleasedBooking ==
  ASSUME MovedAreSpared, MoveInv, NEW r \in Ids, Release(r) \in {"pending", "sent"}
  PROVE  /\ req[r].op = "cancel" /\ CancelShape(r)
         /\ req[r].target \in Ids /\ Exists(req[r].target) /\ Insert(req[r].target) = "ok"
         /\ \A q \in Ids : ~Moved(req[r].target, q)
         /\ OldDay(r) = bookings[req[r].target].slot.day /\ OldDay(r) \in Days
         /\ \/ Nowhere(req[r].target)
            \/ /\ req[req[r].target].op = "create" /\ ~Released(req[r].target)
               /\ HoldsSlot(req[r].target, bookings[req[r].target].slot)
<1> DEFINE b == req[r].target
<1>1. req[r].op = "cancel" /\ CancelShape(r) /\ b \in Ids /\ Exists(b)
  BY MoversSwapped, MoveTaskStates
<1>2. Insert(b) = "ok"
  BY <1>1, MoveTaskStates DEF MoveInv, Entries, EntryOf
<1>3. \A q \in Ids : ~Moved(b, q)
  BY <1>1 DEF MovedAreSpared, Moved, Update
<1>4. OldDay(r) = bookings[b].slot.day /\ OldDay(r) \in Days
  BY <1>1, EntrySlots DEF OldDay
<1>5. \/ Nowhere(b)
      \/ req[b].op = "create" /\ ~Released(b) /\ HoldsSlot(b, bookings[b].slot)
  BY <1>1, <1>3 DEF MoveInv, Entries, EntryOf, EntryKept
<1> QED BY <1>1, <1>2, <1>3, <1>4, <1>5

LEMMA MoveReleaseZRemStep ==
  ASSUME OneAtATime, MovedAreSpared, MoveInv, NEW r \in Ids, ReleaseZRem(r)
  PROVE  MoveInv'
<1> DEFINE b == req[r].target  d == OldDay(r)
<1>1. /\ UNCHANGED <<endTimes, bookings, events, jobs, req, pc>>
      /\ ZRem(b, d) /\ zset' = [zset EXCEPT ![d][b] = None]
      /\ tasks' = [tasks EXCEPT ![r]["release"] = "sent"]
      /\ Release(r) = "pending"
  BY DEF OneAtATime, ReleaseZRem, ZRem, EndTask, Release
<1>2. /\ req[r].op = "cancel" /\ CancelShape(r)
      /\ b \in Ids /\ Exists(b) /\ Insert(b) = "ok"
      /\ \A q \in Ids : ~Moved(b, q)
      /\ d = bookings[b].slot.day /\ d \in Days
      /\ \/ Nowhere(b)
         \/ HoldsSlot(b, bookings[b].slot)
  BY <1>1, ReleasedBooking
<1>3. StoreInv'
  BY <1>1, <1>2, ZRemKeepsStore DEF MoveInv
<1>4. /\ \A e \in Days, x \in Ids : x # b => zset'[e][x] = zset[e][x]
      /\ \A e \in Days : e # d => zset'[e][b] = zset[e][b]
      /\ zset'[d][b] = None
  BY <1>1, <1>2 DEF MoveInv, StoreInv, StoreType
<1>5. Nowhere(b)'
  <2>1. HoldsSlot(b, bookings[b].slot) => \A e \in Days : Held(e, b) => e = d
    BY <1>2, EntrySlots, HolderIsElsewhereNowhere DEF MoveInv
  <2>2. \A e \in Days : zset'[e][b] = None
    BY <1>2, <1>4, <2>1 DEF Nowhere, Held
  <2> QED BY <1>1, <2>2 DEF Nowhere, Held
<1>6. \A q \in Ids : /\ Insert(q)' = Insert(q) /\ Update(q)' = Update(q) /\ Event(q)' = Event(q)
                     /\ Release(q)' = IF q = r THEN "sent" ELSE Release(q)
                     /\ q # r => tasks'[q] = tasks[q]
  BY <1>1 DEF MoveInv, TypeOK, TaskNames, Insert, Update, Release, Event
<1>7. TypeOK'
  BY <1>1, <1>3 DEF MoveInv, StoreInv, TypeOK, TaskNames
<1>8. RequestShapes'
  <2> SUFFICES ASSUME NEW q \in Ids PROVE RequestShape(q)'
    BY DEF RequestShapes
  <2>1. RequestShape(q)
    BY DEF MoveInv, RequestShapes
  <2>2. CASE q = r
    BY <1>1, <1>2, <1>6, <2>1, <2>2 DEF RequestShape, CancelShape, Exists
  <2>3. CASE q # r
    BY <1>1, <1>6, <2>1, <2>3 DEF RequestShape, NewShape, CreateShape, CancelShape, RescheduleShape,
       AskingShape, MovingShape, Asking, Exists, Confirmed
  <2> QED BY <2>2, <2>3
<1>9. InHand'
  <2>1. ~Settled(r)
    BY <1>1, UnderWay DEF Running, TaskNames, Release
  <2> QED BY <1>1, <1>6, <2>1, InHandStays
<1>10. Entries'
  <2> SUFFICES ASSUME NEW q \in Ids PROVE EntryOf(q)'
    BY DEF Entries
  <2>1. EntryOf(q)
    BY DEF MoveInv, Entries
  <2>2. CASE q = b
    <3>1. EntryOf(b)
      BY <1>2 DEF MoveInv, Entries
    <3>2. EntryOf(b)'
      BY <1>1, <1>2, <1>5, <1>6, <3>1 DEF EntryOf, Exists
    <3> QED BY <2>2, <3>2, <1>1
  <2>3. CASE q # b
    BY <1>1, <1>4, <1>6, <2>1, <2>3, EntrySlots DEF EntryOf, Exists, Nowhere, Held, HoldsSlot
  <2> QED BY <2>2, <2>3
<1>11. \A c, q \in Ids : Moved(c, q)' <=> Moved(c, q)
  BY <1>1, <1>6 DEF Moved
<1>12. \A c \in Ids : Released(c)' <=> Released(c) \/ c = b
  BY <1>1, <1>2, <1>6 DEF Released
<1>13. (MovedOnce /\ UpdateWithdraws /\ OneBookingPerKey)'
  BY <1>1, <1>6, <1>11 DEF MoveInv, MovedOnce, UpdateWithdraws, OneBookingPerKey, Exists, Confirmed
<1>14. EntryKept'
  <2> SUFFICES ASSUME NEW c \in Ids, Exists(c), req[c].op = "create"
               PROVE  /\ \A q \in Ids : Moved(c, q) => HoldsSlot(c, req[q].slot)'
                      /\ (\A q \in Ids : ~Moved(c, q)) =>
                             IF Released(c)' THEN Nowhere(c)' ELSE HoldsSlot(c, bookings[c].slot)'
    BY <1>1, <1>11 DEF EntryKept, Exists
  <2>1. CASE c = b
    <3>1. Nowhere(c)' /\ Released(c)' /\ \A q \in Ids : ~Moved(c, q)
      BY <1>1, <1>2, <1>5, <1>12, <2>1 DEF Nowhere, Held
    <3> QED BY <1>1, <3>1
  <2>2. CASE c # b
    <3>1. \A q \in Ids : Moved(c, q) => req[q].slot.day \in Days
      BY EntrySlots DEF Moved
    <3>2. bookings[c].slot.day \in Days
      BY EntrySlots
    <3>3. Released(c)' <=> Released(c)
      BY <1>12, <2>2
    <3> QED BY <1>1, <1>4, <2>2, <3>1, <3>2, <3>3 DEF MoveInv, EntryKept, HoldsSlot, Nowhere, Held
  <2> QED BY <2>1, <2>2
<1> QED BY <1>3, <1>7, <1>8, <1>9, <1>10, <1>13, <1>14 DEF MoveInv

LEMMA MoveReleaseHDelStep ==
  ASSUME OneAtATime, MovedAreSpared, MoveInv, NEW r \in Ids, ReleaseHDel(r)
  PROVE  MoveInv'
<1> DEFINE b == req[r].target
<1>1. /\ UNCHANGED <<zset, bookings, events, jobs, req, pc>>
      /\ HDel(b) /\ endTimes' = [endTimes EXCEPT ![b] = None]
      /\ tasks' = [tasks EXCEPT ![r]["release"] = "ok"]
      /\ Release(r) = "sent"
  BY DEF OneAtATime, ReleaseHDel, HDel, EndTask, Release
<1>2. /\ req[r].op = "cancel" /\ CancelShape(r)
      /\ b \in Ids /\ Exists(b) /\ Insert(b) = "ok"
      /\ \A q \in Ids : ~Moved(b, q)
      /\ Released(b) /\ Nowhere(b)
  <2>1. b \in Ids /\ Released(b)
    BY <1>1, ReleasedBooking DEF Released
  <2> QED BY <1>1, <2>1, ReleasedBooking
<1>3. StoreInv'
  BY <1>1, <1>2, HDelKeepsStore DEF MoveInv
<1>4. \A x \in Ids : x # b => endTimes'[x] = endTimes[x]
  BY <1>1 DEF MoveInv, StoreInv, StoreType
<1>5. endTimes'[b] = None
  BY <1>1, <1>2 DEF MoveInv, StoreInv, StoreType
<1>6. \A q \in Ids : /\ Insert(q)' = Insert(q) /\ Update(q)' = Update(q) /\ Event(q)' = Event(q)
                     /\ Release(q)' = IF q = r THEN "ok" ELSE Release(q)
                     /\ q # r => tasks'[q] = tasks[q]
  BY <1>1 DEF MoveInv, TypeOK, TaskNames, Insert, Update, Release, Event
<1>7. TypeOK'
  BY <1>1, <1>3 DEF MoveInv, StoreInv, TypeOK, TaskNames
<1>8. RequestShapes'
  <2> SUFFICES ASSUME NEW q \in Ids PROVE RequestShape(q)'
    BY DEF RequestShapes
  <2>1. RequestShape(q)
    BY DEF MoveInv, RequestShapes
  <2>2. CASE q = r
    BY <1>1, <1>2, <1>6, <2>1, <2>2 DEF RequestShape, CancelShape, Exists
  <2>3. CASE q # r
    BY <1>1, <1>6, <2>1, <2>3 DEF RequestShape, NewShape, CreateShape, CancelShape, RescheduleShape,
       AskingShape, MovingShape, Asking, Exists, Confirmed
  <2> QED BY <2>2, <2>3
<1>9. InHand'
  <2>1. ~Settled(r)
    BY <1>1, UnderWay DEF Running, TaskNames, Release
  <2> QED BY <1>1, <1>6, <2>1, InHandStays
<1>10. Entries'
  <2> SUFFICES ASSUME NEW q \in Ids PROVE EntryOf(q)'
    BY DEF Entries
  <2>1. EntryOf(q)
    BY DEF MoveInv, Entries
  <2>2. CASE q = b
    <3>1. EntryOf(b)
      BY <1>2 DEF MoveInv, Entries
    <3>2. EntryOf(b)'
      BY <1>1, <1>2, <1>5, <1>6, <3>1 DEF EntryOf, Exists, Nowhere, Held
    <3> QED BY <2>2, <3>2, <1>1
  <2>3. CASE q # b
    BY <1>1, <1>4, <1>6, <2>1, <2>3 DEF EntryOf, Exists, Nowhere, Held, HoldsSlot
  <2> QED BY <2>2, <2>3
<1>11. \A c, q \in Ids : Moved(c, q)' <=> Moved(c, q)
  BY <1>1, <1>6 DEF Moved
<1>12. \A c \in Ids : Released(c)' <=> Released(c)
  BY <1>1, <1>2, <1>6 DEF Released
<1>13. (MovedOnce /\ UpdateWithdraws /\ OneBookingPerKey)'
  BY <1>1, <1>6, <1>11 DEF MoveInv, MovedOnce, UpdateWithdraws, OneBookingPerKey, Exists, Confirmed
<1>14. EntryKept'
  <2> SUFFICES ASSUME NEW c \in Ids, Exists(c), req[c].op = "create"
               PROVE  /\ \A q \in Ids : Moved(c, q) => HoldsSlot(c, req[q].slot)'
                      /\ (\A q \in Ids : ~Moved(c, q)) =>
                             IF Released(c) THEN Nowhere(c)' ELSE HoldsSlot(c, bookings[c].slot)'
    BY <1>1, <1>11, <1>12 DEF EntryKept, Exists
  <2>1. CASE c = b
    BY <1>1, <1>2, <2>1 DEF Nowhere, Held
  <2>2. CASE c # b
    BY <1>1, <1>4, <2>2 DEF MoveInv, EntryKept, HoldsSlot, Nowhere, Held
  <2> QED BY <2>1, <2>2
<1> QED BY <1>3, <1>7, <1>8, <1>9, <1>10, <1>13, <1>14 DEF MoveInv

-----------------------------------------------------------------------------
LEMMA StepMoveInv ==
  ASSUME OneAtATime, MovedAreSpared, MoveInv, [Next]_vars
  PROVE  MoveInv'
<1>1. CASE UNCHANGED vars
  <2>1. UNCHANGED <<zset, endTimes, bookings, events, jobs, req, pc, tasks>>
    BY <1>1 DEF vars
  <2>2. TypeOK' /\ StoreInv'
    BY <2>1, StoreUnchanged DEF MoveInv, TypeOK, StoreType, store
  <2>3. (RequestShapes /\ InHand)'
    BY <2>1 DEF MoveInv, RequestShapes, RequestShape, NewShape, CreateShape, CancelShape, RescheduleShape,
       AskingShape, MovingShape, Asking, Insert, Update, Event, Release, Exists, Confirmed,
       InHand, Settled, Running
  <2>4. (Entries /\ MovedOnce /\ UpdateWithdraws /\ EntryKept /\ OneBookingPerKey)'
    BY <2>1 DEF MoveInv, Entries, EntryOf, MovedOnce, Moved, UpdateWithdraws, EntryKept,
       OneBookingPerKey, Exists, Confirmed, Nowhere, Held, HoldsSlot, Released, Insert, Update, Release
  <2> QED BY <2>2, <2>3, <2>4 DEF MoveInv
<1>2. ASSUME NEW r \in Ids, Arrive(r) PROVE MoveInv'
  BY <1>2, MoveLookupStep, MoveCancelReadStep, RescheduleReadStep DEF Arrive
<1>3. ASSUME NEW r \in Ids, Step(r) PROVE MoveInv'
  BY <1>3, MoveControlStep, MoveAcquireStep, SwapEvalStep, MoveCatchZRemStep, MoveCatchHDelStep DEF Step
<1>4. ASSUME NEW r \in Ids, Task(r) PROVE MoveInv'
  BY <1>4, MoveInsertStep, MoveUpdateStep, MoveCreateEventStep, MoveReleaseZRemStep, MoveReleaseHDelStep
  DEF Task
<1> QED BY <1>1, <1>2, <1>3, <1>4 DEF Next

-----------------------------------------------------------------------------
(* What the inductive invariant says of the properties of Booking *)

(* A booking that is not being withdrawn is backed by the entry of its     *)
(* holder, which has not been moved away from it.                          *)
LEMMA LiveHolder ==
  ASSUME MoveInv, NEW b \in Ids, Live(b)
  PROVE  /\ Holder(b) \in Ids
         /\ HoldsSlot(Holder(b), bookings[b].slot)
         /\ Exists(b) /\ \A r \in Ids : ~Moved(b, r)
         /\ IF req[b].op = "create" THEN Holder(b) = b ELSE Moved(Holder(b), b)
<1>1. Exists(b) /\ Confirmed(b) /\ ~Leaving(b)
  BY DEF Live, Confirmed
<1>2. ASSUME NEW r \in Ids, Moved(b, r) PROVE FALSE
  BY <1>1, <1>2, MoveTaskStates DEF Leaving, Moved, Update, MoveInv, UpdateWithdraws
<1>3. /\ Insert(b) = "ok" /\ RequestShape(b)
      /\ bookings[b].slot = req[b].slot /\ bookings[b].from = req[b].target
  BY <1>1, MoveTaskStates DEF MoveInv, RequestShapes, Entries, EntryOf
<1>4. CASE req[b].op = "create"
  <2>1. Holder(b) = b
    BY <1>3, <1>4 DEF RequestShape, CreateShape, Holder
  <2>2. ~Released(b)
    <3> SUFFICES ASSUME NEW q \in Ids, req[q].target = b, Release(q) \in {"sent", "ok"} PROVE FALSE
      BY DEF Released
    <3>1. Update(q) = "pending"
      BY <1>1, MoversSwapped, MoveTaskStates DEF MoveInv, UpdateWithdraws, CancelShape
    <3> QED BY <1>1, <3>1 DEF Leaving, Update
  <2> QED BY <1>1, <1>2, <1>4, <2>1, <2>2 DEF MoveInv, EntryKept
<1>5. CASE req[b].op # "create"
  <2>1. req[b].op = "reschedule" /\ RescheduleShape(b)
    BY <1>3, <1>5 DEF RequestShape, NewShape, CancelShape, NoTasks, TaskNames, Insert
  <2>2. req[b].target \in Ids /\ Exists(req[b].target) /\ MovingShape(b)
    BY <1>3, <2>1 DEF RescheduleShape, AskingShape, NoTasks, TaskNames, Insert
  <2>3. Holder(b) = req[b].target /\ Moved(req[b].target, b) /\ req[req[b].target].op = "create"
    BY <1>3, <2>1, <2>2, NoneAssumption DEF Holder, Moved, MovingShape
  <2> QED BY <1>1, <1>2, <1>3, <1>5, <2>2, <2>3 DEF MoveInv, EntryKept
<1> QED BY <1>4, <1>5

(* Different live bookings have different holders. *)
LEMMA HoldersDiffer ==
  ASSUME MoveInv, NEW a \in Ids, NEW b \in Ids, a # b, Live(a), Live(b)
  PROVE  Holder(a) # Holder(b)
<1>1. CASE req[a].op = "create" /\ req[b].op = "create"
  BY <1>1, LiveHolder
<1>2. CASE req[a].op = "create" /\ req[b].op # "create"
  BY <1>2, LiveHolder
<1>3. CASE req[a].op # "create" /\ req[b].op = "create"
  BY <1>3, LiveHolder
<1>4. CASE req[a].op # "create" /\ req[b].op # "create"
  BY <1>4, LiveHolder DEF MoveInv, MovedOnce
<1> QED BY <1>1, <1>2, <1>3, <1>4

LEMMA MoveInvIsSafe == MoveInv => NoDoubleBooking /\ LiveHoldsSlot
<1> SUFFICES ASSUME MoveInv PROVE NoDoubleBooking /\ LiveHoldsSlot
  OBVIOUS
<1>1. NoDoubleBooking
  <2> SUFFICES ASSUME NEW a \in Ids, NEW b \in Ids, a # b, Live(a), Live(b)
               PROVE  ~Overlap(bookings[a].slot, bookings[b].slot)
    BY DEF NoDoubleBooking
  <2>1. /\ Holder(a) \in Ids /\ HoldsSlot(Holder(a), bookings[a].slot) /\ Exists(a)
        /\ Holder(b) \in Ids /\ HoldsSlot(Holder(b), bookings[b].slot) /\ Exists(b)
    BY LiveHolder
  <2>2. bookings[a].slot \in Slots /\ bookings[b].slot \in Slots
    BY <2>1, EntrySlots
  <2> QED BY <2>1, <2>2, HoldersDiffer, HeldSlotsApart DEF MoveInv
<1>2. LiveHoldsSlot
  BY LiveHolder DEF LiveHoldsSlot
<1> QED BY <1>1, <1>2

-----------------------------------------------------------------------------
(* Who has cancelled a moved booking will always have cancelled it, so in  *)
(* a state where nobody has, the invariant has held all along.             *)
LEMMA SparedSoFar ==
  ASSUME BaseInv, RecordInv, [Next]_vars, MovedAreSpared'
  PROVE  MovedAreSpared
<1>1. \A r \in Ids : Recording(r)
  BY DEF RecordInv
<1>2. \A r \in Ids : pc[r] # "new" => req'[r] = req[r]
  <2>1. CASE UNCHANGED vars
    BY <2>1 DEF vars
  <2>2. ASSUME NEW q \in Ids, Arrive(q) PROVE \A r \in Ids : pc[r] # "new" => req'[r] = req[r]
    BY <2>2 DEF BaseInv, TypeOK, Arrive, CreateLookup, CancelRead, RescheduleRead
  <2>3. ASSUME NEW q \in Ids, Step(q) PROVE req' = req
    BY <2>3 DEF Step, Refuse, CreateAcquire, SwapZScore, SwapHGet, SwapEval, AllResolved,
       OneRejected, EnqueueJob, CatchZRem, CatchHDel
  <2>4. ASSUME NEW q \in Ids, Task(q) PROVE req' = req
    BY <2>4 DEF Task, InsertBooking, UpdateBooking, CreateEvent, ReleaseZRem, ReleaseHDel
  <2> QED BY <2>1, <2>2, <2>3, <2>4 DEF Next
<1>3. \A r \in Ids : Update(r) # "off" => pc[r] \notin {"new", "validate", "swap"} /\ Update(r)' # "off"
  <2> SUFFICES ASSUME NEW r \in Ids, Update(r) # "off"
               PROVE  pc[r] \notin {"new", "validate", "swap"} /\ Update(r)' # "off"
    OBVIOUS
  <2>1. pc[r] \notin {"new", "validate", "swap"}
    BY <1>1 DEF Recording, NoTasks, TaskNames, Update
  <2>2. CASE UNCHANGED vars
    BY <2>1, <2>2 DEF vars, Update
  <2>3. ASSUME NEW q \in Ids, Arrive(q) PROVE tasks'[r] = tasks[r]
    BY <2>1, <2>3 DEF BaseInv, TypeOK, Arrive, CreateLookup, CancelRead, RescheduleRead
  <2>4. ASSUME NEW q \in Ids, Step(q) PROVE tasks'[r] = tasks[r]
    BY <2>1, <2>4 DEF BaseInv, TypeOK, Step, Refuse, CreateAcquire, SwapZScore, SwapHGet, SwapEval,
       AllResolved, OneRejected, EnqueueJob, CatchZRem, CatchHDel
  <2>5. ASSUME NEW q \in Ids, Task(q) PROVE Update(r)' # "off"
    <3>1. PICK t \in TaskNames, how \in {"sent", "ok", "failed"} : EndTask(q, t, how)
      BY <2>5 DEF Task, InsertBooking, UpdateBooking, CreateEvent, ReleaseZRem, ReleaseHDel, TaskNames
    <3> QED BY <3>1 DEF BaseInv, TypeOK, EndTask, TaskNames, Update
  <2> QED BY <2>1, <2>2, <2>3, <2>4, <2>5 DEF Next, Update
<1> SUFFICES ASSUME NEW q \in Ids, NEW r \in Ids, req[q].op = "cancel", req[r].op = "reschedule",
                    req[q].target = req[r].target, Update(r) # "off"
             PROVE  FALSE
  BY DEF MovedAreSpared, Update
<1>4. req'[q] = req[q] /\ req'[r] = req[r] /\ Update(r)' # "off"
  BY <1>1, <1>2, <1>3 DEF Recording
<1> QED BY <1>4 DEF MovedAreSpared, Update

LEMMA SparedMoveInv == OneAtATime => (Spec => [](MovedAreSpared => MoveInv))
<1> SUFFICES ASSUME OneAtATime PROVE Spec => [](MovedAreSpared => MoveInv)
  OBVIOUS
<1>1. Init => MoveInv
  BY InitMoveInv
<1>2. /\ BaseInv /\ RecordInv
      /\ MovedAreSpared => MoveInv
      /\ [Next]_vars
      => (MovedAreSpared => MoveInv)'
  BY SparedSoFar, StepMoveInv
<1> QED BY <1>1, <1>2, RecordInvHolds, PTL DEF Spec

-----------------------------------------------------------------------------
(* The theorems *)

(* All three handlers together: as long as nobody cancels a booking that a *)
(* reschedule has moved, no two live bookings overlap (README.md:221),     *)
(* over any days, slots, cancels and chains of reschedules.                *)
THEOREM SparedMovesNeverOverlap == OneAtATime => (Spec => []SparedNeverOverlap)
<1> SUFFICES ASSUME OneAtATime PROVE Spec => []SparedNeverOverlap
  OBVIOUS
<1>1. (MovedAreSpared => MoveInv) => SparedNeverOverlap
  BY MoveInvIsSafe DEF SparedNeverOverlap
<1> QED BY <1>1, SparedMoveInv, PTL

(* A booking that is not being withdrawn has its exact time in Redis:      *)
(* under its own id when it was created, under the id of the booking it    *)
(* came from when it was rescheduled (booking.service.ts:384-399).         *)
THEOREM SparedMovesAreLocked == OneAtATime => (Spec => []SparedHoldsSlot)
<1> SUFFICES ASSUME OneAtATime PROVE Spec => []SparedHoldsSlot
  OBVIOUS
<1>1. (MovedAreSpared => MoveInv) => SparedHoldsSlot
  BY MoveInvIsSafe DEF SparedHoldsSlot
<1> QED BY <1>1, SparedMoveInv, PTL

(* Where cancels are not called at all, nobody cancels a moved booking.    *)
LEMMA NobodyCancels == Ops \subseteq {"create", "reschedule"} => (Spec => []MovedAreSpared)
<1> DEFINE NoCancel == \A r \in Ids : req[r].op # "cancel"
<1> SUFFICES ASSUME Ops \subseteq {"create", "reschedule"} PROVE Spec => []MovedAreSpared
  OBVIOUS
<1>1. Init => NoCancel
  <2> SUFFICES ASSUME Init, NEW r \in Ids PROVE req[r].op # "cancel"
    OBVIOUS
  <2>1. req[r].op = "none"
    BY DEF Init
  <2> QED BY <2>1
<1>2. BaseInv /\ NoCancel /\ [Next]_vars => NoCancel'
  <2> SUFFICES ASSUME BaseInv, NoCancel, [Next]_vars PROVE NoCancel'
    OBVIOUS
  <2>1. CASE UNCHANGED vars
    BY <2>1 DEF vars
  <2>2. ASSUME NEW q \in Ids, Arrive(q) PROVE NoCancel'
    BY <2>2 DEF BaseInv, TypeOK, Arrive, CreateLookup, CancelRead, RescheduleRead
  <2>3. ASSUME NEW q \in Ids, Step(q) PROVE req' = req
    BY <2>3 DEF Step, Refuse, CreateAcquire, SwapZScore, SwapHGet, SwapEval, AllResolved,
       OneRejected, EnqueueJob, CatchZRem, CatchHDel
  <2>4. ASSUME NEW q \in Ids, Task(q) PROVE req' = req
    BY <2>4 DEF Task, InsertBooking, UpdateBooking, CreateEvent, ReleaseZRem, ReleaseHDel
  <2> QED BY <2>1, <2>2, <2>3, <2>4 DEF Next
<1>3. NoCancel => MovedAreSpared
  BY DEF MovedAreSpared
<1> QED BY <1>1, <1>2, <1>3, BaseInvHolds, PTL DEF Spec

(* So creates and reschedules by themselves never double-book.             *)
THEOREM MovesNeverOverlap ==
  OneAtATime /\ Ops \subseteq {"create", "reschedule"} => (Spec => []NoDoubleBooking)
<1> SUFFICES ASSUME OneAtATime, Ops \subseteq {"create", "reschedule"} PROVE Spec => []NoDoubleBooking
  OBVIOUS
<1>1. Spec => []SparedNeverOverlap
  BY SparedMovesNeverOverlap
<1>2. Spec => []MovedAreSpared
  BY NobodyCancels
<1>3. MovedAreSpared /\ SparedNeverOverlap => NoDoubleBooking
  BY DEF SparedNeverOverlap
<1> QED BY <1>1, <1>2, <1>3, PTL

(* And every live booking of theirs has its entry.                         *)
THEOREM MovedIsLocked ==
  OneAtATime /\ Ops \subseteq {"create", "reschedule"} => (Spec => []LiveHoldsSlot)
<1> SUFFICES ASSUME OneAtATime, Ops \subseteq {"create", "reschedule"} PROVE Spec => []LiveHoldsSlot
  OBVIOUS
<1>1. Spec => []SparedHoldsSlot
  BY SparedMovesAreLocked
<1>2. Spec => []MovedAreSpared
  BY NobodyCancels
<1>3. MovedAreSpared /\ SparedHoldsSlot => LiveHoldsSlot
  BY DEF SparedHoldsSlot
<1> QED BY <1>1, <1>2, <1>3, PTL

-----------------------------------------------------------------------------
(* Entries, whatever is rejected and whatever clients cancel: as long as   *)
(* no booking is addressed by two requests at once, the entry that a swap  *)
(* found is still there, and the only one, when the script runs.           *)

(* A reschedule before its swap has its booking to itself. *)
AskingAlone ==
    \A r \in Ids : req[r].op = "reschedule" /\ Asking(r) =>
        /\ Settled(req[r].target)
        /\ \A q \in Ids : req[q].target = req[r].target => q = r \/ Settled(q)

Unlocked == \A r \in Ids : Insert(r) = "off" => Nowhere(r)

FoundEntry == \A r \in Ids : pc[r] \in {"hget", "swap"} => Held(OldDay(r), req[r].target)

OnceInv == HeldOnce /\ Unlocked /\ FoundEntry /\ AskingAlone

LEMMA InitOnceInv == Init => OnceInv
<1> SUFFICES ASSUME Init PROVE OnceInv
  OBVIOUS
<1>1. \A d \in Days, b \in Ids : ~Held(d, b)
  BY DEF Init, StoreInit, Held
<1>2. \A r \in Ids : pc[r] = "new"
  BY DEF Init
<1> QED BY <1>1, <1>2 DEF OnceInv, HeldOnce, Unlocked, FoundEntry, AskingAlone, Asking, Nowhere

(* A booking in the collection was stored by its request, which is not new. *)
LEMMA TargetsStored ==
  ASSUME BaseInv, RecordInv, NEW r \in Ids, req[r].target # None
  PROVE  req[r].target \in Ids /\ Insert(req[r].target) = "ok" /\ pc[req[r].target] # "new"
<1>1. req[r].target \in Ids /\ Exists(req[r].target)
  BY DEF BaseInv, TypeOK, Calls, Equipped
<1>2. Recording(req[r].target)
  BY <1>1 DEF RecordInv
<1> QED BY <1>1, <1>2 DEF Recording, NoTasks, TaskNames, Insert

(* An arriving request was new, and addresses nobody else's booking in use. *)
LEMMA ArriveEffect ==
  ASSUME BaseInv, RecordInv, Exclusive, NEW r \in Ids, Arrive(r)
  PROVE  /\ pc[r] = "new"
         /\ UNCHANGED <<zset, endTimes, bookings>>
         /\ Insert(r)' = "off"
         /\ \A q \in Ids : q # r => req'[q] = req[q] /\ pc'[q] = pc[q] /\ tasks'[q] = tasks[q]
         /\ pc'[r] \in {"done", "validate", "parallel"}
         /\ req'[r].target # None =>
                /\ req'[r].target \in Ids /\ Exists(req'[r].target)
                /\ Settled(req'[r].target)
                /\ \A q \in Ids : req[q].target = req'[r].target => Settled(q)
         /\ req'[r].op = "reschedule" => req'[r].target # None
<1>1. pc[r] = "new" /\ tasks[r] = NoTasks
  BY DEF Arrive, CreateLookup, CancelRead, RescheduleRead, BaseInv, Equipped
<1>2. CASE \E s \in Slots, k \in Keys : CreateLookup(r, s, k)
  BY <1>1, <1>2 DEF CreateLookup, Goto, store, BaseInv, TypeOK, Insert, NoTasks, TaskNames
<1>3. CASE \E b \in Ids : CancelRead(r, b)
  <2>1. PICK b \in Ids : CancelRead(r, b)
    BY <1>3
  <2>2. b # None
    BY NoneAssumption
  <2> QED BY <1>1, <2>1, <2>2 DEF CancelRead, Goto, store, Undisturbed, BaseInv, TypeOK, Insert, Start, TaskNames
<1>4. CASE \E b \in Ids, s \in Slots, k \in Keys : RescheduleRead(r, b, s, k)
  <2>1. PICK b \in Ids, s \in Slots, k \in Keys : RescheduleRead(r, b, s, k)
    BY <1>4
  <2>2. b # None
    BY NoneAssumption
  <2> QED BY <1>1, <2>1, <2>2 DEF RescheduleRead, Goto, store, Undisturbed, Confirmed, BaseInv, TypeOK,
          Insert, NoTasks, TaskNames
<1> QED BY <1>2, <1>3, <1>4 DEF Arrive

(* A request that takes a step is not settled, and touches its own state. *)
LEMMA StepEffect ==
  ASSUME BaseInv, RecordInv, NEW r \in Ids, Step(r) \/ Task(r)
  PROVE  /\ ~Settled(r) /\ req' = req
         /\ \A q \in Ids : q # r => pc'[q] = pc[q] /\ tasks'[q] = tasks[q]
         /\ Asking(r)' => Asking(r)
         /\ pc'[r] = "hget" => pc[r] = "validate" /\ Held(OldDay(r), req[r].target)
         /\ pc'[r] = "swap" => pc[r] = "hget"
         /\ Insert(r)' = "off" => Insert(r) = "off"
         /\ pc'[r] \in {"hget", "swap"} => UNCHANGED zset /\ req[r].op = "reschedule"
<1>1. Recording(r)
  BY DEF RecordInv
<1>2. CASE Step(r)
  BY <1>1, <1>2 DEF Step, Refuse, CreateAcquire, SwapZScore, SwapHGet, SwapEval, AllResolved, OneRejected,
     OnRejection, EnqueueJob, CatchZRem, CatchHDel, Goto, store, BaseInv, Equipped, TypeOK, Settled, Ended, Asking,
     Insert, Start, TaskNames, NoTasks, Recording
<1>3. CASE Task(r)
  <2>1. PICK t \in TaskNames, how \in {"sent", "ok", "failed"} :
            tasks[r][t] \in {"pending", "sent"} /\ EndTask(r, t, how)
    BY <1>3 DEF Task, InsertBooking, UpdateBooking, CreateEvent, ReleaseZRem, ReleaseHDel, TaskNames
  <2>2. UNCHANGED <<req, pc>>
    BY <1>3 DEF Task, InsertBooking, UpdateBooking, CreateEvent, ReleaseZRem, ReleaseHDel
  <2>3. pc[r] \notin {"validate", "hget", "swap"}
    BY <1>1, <2>1 DEF Recording, NoTasks, TaskNames
  <2> QED BY <2>1, <2>2, <2>3 DEF EndTask, BaseInv, TypeOK, Settled, Running, Asking, Insert, TaskNames
<1> QED BY <1>2, <1>3

LEMMA AskingAloneStep ==
  ASSUME BaseInv, RecordInv, Exclusive, AskingAlone, [Next]_vars
  PROVE  AskingAlone'
<1> SUFFICES ASSUME NEW r \in Ids, req'[r].op = "reschedule", Asking(r)'
             PROVE  /\ Settled(req[r].target)'
                    /\ \A q \in Ids : req'[q].target = req'[r].target => q = r \/ Settled(q)'
  BY DEF AskingAlone
<1>1. CASE UNCHANGED vars
  BY <1>1 DEF vars, AskingAlone, Asking, Settled, Running
<1>2. ASSUME NEW p \in Ids, Arrive(p)
      PROVE  /\ Settled(req[r].target)'
             /\ \A q \in Ids : req'[q].target = req'[r].target => q = r \/ Settled(q)'
  <2>1. \A q \in Ids : q # p => req'[q] = req[q] /\ Settled(q)' = Settled(q)
    BY <1>2, ArriveEffect DEF Settled, Running
  <2>2. CASE r = p
    <3>1. req'[r].target \in Ids /\ req'[r].target # r
      BY <1>2, <2>2, ArriveEffect DEF RecordInv, Recording, NoTasks, TaskNames, Insert
    <3> QED BY <1>2, <2>1, <2>2, <3>1, ArriveEffect
  <2>3. CASE r # p
    <3>1. req'[r] = req[r] /\ req[r].op = "reschedule" /\ Asking(r) /\ ~Settled(r)
      BY <1>2, <2>3, ArriveEffect DEF Asking, Settled, Ended
    <3>2. req[r].target # None
      BY <3>1 DEF BaseInv, Equipped
    <3>3. req[r].target \in Ids /\ req[r].target # p
      BY <1>2, <3>2, TargetsStored, ArriveEffect
    <3>4. req'[p].target # req[r].target
      BY <1>2, <3>1, <3>2, ArriveEffect
    <3> QED BY <2>1, <3>1, <3>3, <3>4 DEF AskingAlone
  <2> QED BY <2>2, <2>3
<1>3. ASSUME NEW p \in Ids, Step(p) \/ Task(p)
      PROVE  /\ Settled(req[r].target)'
             /\ \A q \in Ids : req'[q].target = req'[r].target => q = r \/ Settled(q)'
  <2>1. \A q \in Ids : Settled(q) => Settled(q)'
    BY <1>3, StepEffect DEF Settled, Running
  <2>2. req' = req /\ req[r].op = "reschedule" /\ Asking(r)
    BY <1>3, StepEffect DEF Asking
  <2>3. req[r].target \in Ids
    BY <2>2, TargetsStored DEF BaseInv, Equipped
  <2> QED BY <2>1, <2>2, <2>3 DEF AskingAlone
<1> QED BY <1>1, <1>2, <1>3 DEF Next

(* An acquire adds the first entry of its request. *)
LEMMA OnceAcquireStep ==
  ASSUME BaseInv, RecordInv, OnceInv, NEW r \in Ids, CreateAcquire(r), AcquireScript(r, req[r].slot)
  PROVE  HeldOnce' /\ Unlocked' /\ FoundEntry'
<1> DEFINE s == req[r].slot
<1>1. /\ pc[r] = "validate" /\ req[r].op = "create" /\ UNCHANGED <<bookings, req>>
      /\ zset' = [zset EXCEPT ![s.day][r] = s.start]
      /\ pc' = [pc EXCEPT ![r] = "parallel"]
      /\ tasks' = [tasks EXCEPT ![r] = Start({"insert", "event"})]
  <2>1. \/ /\ Goto(r, "parallel")
           /\ tasks' = [tasks EXCEPT ![r] = Start({"insert", "event"})]
        \/ AcquireConflict(s)
    BY DEF CreateAcquire
  <2>2. ~AcquireConflict(s) /\ zset' = [zset EXCEPT ![s.day][r] = s.start]
    BY DEF AcquireScript
  <2> QED BY <2>1, <2>2 DEF CreateAcquire, Goto
<1>2. Nowhere(r)
  BY <1>1 DEF RecordInv, Recording, NoTasks, TaskNames, Insert, OnceInv, Unlocked
<1>3. s \in Slots /\ s.day \in Days /\ s.start # None
  BY <1>1, SlotsAssumption, NoneAssumption DEF BaseInv, Equipped
<1>4. /\ \A d \in Days, b \in Ids : b # r => zset'[d][b] = zset[d][b]
      /\ \A d \in Days : d # s.day => zset'[d][r] = zset[d][r]
      /\ zset'[s.day][r] = s.start
  BY <1>1, <1>3 DEF BaseInv, TypeOK, StoreType
<1>5. HeldOnce'
  BY <1>2, <1>3, <1>4 DEF OnceInv, HeldOnce, Held, Nowhere
<1>6. \A q \in Ids : Insert(q)' = IF q = r THEN "pending" ELSE Insert(q)
  BY <1>1 DEF BaseInv, TypeOK, Insert, Start, TaskNames
<1>7. Unlocked'
  BY <1>4, <1>6 DEF OnceInv, Unlocked, Nowhere, Held
<1>8. FoundEntry'
  <2> SUFFICES ASSUME NEW q \in Ids, pc'[q] \in {"hget", "swap"} PROVE Held(OldDay(q), req[q].target)'
    BY DEF FoundEntry
  <2>1. q # r /\ pc[q] \in {"hget", "swap"} /\ Held(OldDay(q), req[q].target)
    BY <1>1 DEF BaseInv, TypeOK, OnceInv, FoundEntry
  <2>2. req[q].target \in Ids /\ req[q].target # r
    <3>1. req[q].target # None
      BY <2>1 DEF BaseInv, Equipped
    <3> QED BY <1>1, <3>1, TargetsStored DEF RecordInv, Recording, NoTasks, TaskNames, Insert
  <2>3. OldDay(q)' = OldDay(q) /\ OldDay(q) \in Days
    BY <1>1, <2>1, <2>2, SlotsAssumption, TargetsStored DEF OldDay, BaseInv, TypeOK, Documents, Equipped, Exists
  <2> QED BY <1>1, <1>4, <2>1, <2>2, <2>3 DEF Held
<1> QED BY <1>5, <1>7, <1>8

(* A swap takes the only entry of its booking away and adds one. *)
LEMMA OnceSwapStep ==
  ASSUME BaseInv, RecordInv, OnceInv, NEW r \in Ids, SwapEval(r),
         SwapScript(req[r].target, OldDay(r), req[r].slot)
  PROVE  HeldOnce' /\ Unlocked' /\ FoundEntry'
<1> DEFINE s == req[r].slot  b == req[r].target  old == OldDay(r)
<1>1. /\ pc[r] = "swap" /\ UNCHANGED <<bookings, req>>
      /\ zset' = [zset EXCEPT ![old][b] = None, ![s.day][b] = s.start]
      /\ pc' = [pc EXCEPT ![r] = "parallel"]
      /\ tasks' = [tasks EXCEPT ![r] = Start({"insert", "update", "event"})]
  <2>1. \/ /\ Goto(r, "parallel")
           /\ tasks' = [tasks EXCEPT ![r] = Start({"insert", "update", "event"})]
        \/ SwapRefused(b, s)
    BY DEF SwapEval
  <2>2. ~SwapRefused(b, s) /\ zset' = [zset EXCEPT ![old][b] = None, ![s.day][b] = s.start]
    BY DEF SwapScript
  <2> QED BY <2>1, <2>2 DEF SwapEval, Goto
<1>2. /\ req[r].op = "reschedule" /\ b \in Ids /\ Insert(b) = "ok" /\ Exists(b)
      /\ s \in Slots /\ s.day \in Days /\ old \in Days
  <2>1. req[r].op = "reschedule" /\ b # None /\ s \in Slots
    BY <1>1 DEF BaseInv, Equipped
  <2>2. b \in Ids /\ Insert(b) = "ok" /\ Exists(b)
    BY <2>1, TargetsStored DEF BaseInv, Equipped
  <2> QED BY <2>1, <2>2, SlotsAssumption DEF OldDay, BaseInv, TypeOK, Documents, Exists
<1>3. /\ \A d \in Days, c \in Ids : c # b => zset'[d][c] = zset[d][c]
      /\ \A d \in Days : d # s.day => zset'[d][b] = IF d = old THEN None ELSE zset[d][b]
  BY <1>1, <1>2 DEF BaseInv, TypeOK, StoreType
<1>4. \A d \in Days : Held(d, b) => d = old
  BY <1>1, <1>2 DEF OnceInv, FoundEntry, HeldOnce
<1>5. HeldOnce'
  BY <1>2, <1>3, <1>4 DEF OnceInv, HeldOnce, Held
<1>6. \A q \in Ids : Insert(q)' = IF q = r THEN "pending" ELSE Insert(q)
  BY <1>1 DEF BaseInv, TypeOK, Insert, Start, TaskNames
<1>7. Unlocked'
  BY <1>2, <1>3, <1>6 DEF OnceInv, Unlocked, Nowhere, Held
<1>8. FoundEntry'
  <2> SUFFICES ASSUME NEW q \in Ids, pc'[q] \in {"hget", "swap"} PROVE Held(OldDay(q), req[q].target)'
    BY DEF FoundEntry
  <2>1. q # r /\ pc[q] \in {"hget", "swap"} /\ Held(OldDay(q), req[q].target)
    BY <1>1 DEF BaseInv, TypeOK, OnceInv, FoundEntry
  <2>2. req[q].op = "reschedule" /\ req[q].target # None
    BY <2>1 DEF BaseInv, Equipped
  <2>3. req[q].target # b
    BY <1>1, <1>2, <2>1, <2>2 DEF OnceInv, AskingAlone, Asking, Settled, Ended
  <2>4. OldDay(q)' = OldDay(q) /\ OldDay(q) \in Days /\ req[q].target \in Ids
    BY <1>1, <2>2, SlotsAssumption, TargetsStored DEF OldDay, BaseInv, TypeOK, Documents, Equipped, Exists
  <2> QED BY <1>1, <1>3, <2>1, <2>3, <2>4 DEF Held
<1> QED BY <1>5, <1>7, <1>8

(* Every other step leaves entries where they are, or removes those of a   *)
(* booking that its request is about.                                      *)
LEMMA RemovalEffect ==
  ASSUME BaseInv, NEW r \in Ids, Step(r) \/ Task(r)
  PROVE  \/ CreateAcquire(r) /\ AcquireScript(r, req[r].slot)
         \/ SwapEval(r) /\ SwapScript(req[r].target, OldDay(r), req[r].slot)
         \/ UNCHANGED zset
         \/ \E b \in {r, req[r].target}, d \in Days \cup {OldDay(r), req[r].slot.day} :
                 zset' = [zset EXCEPT ![d][b] = None]
<1>1. CASE Step(r)
  BY <1>1 DEF Step, Refuse, CreateAcquire, SwapZScore, SwapHGet, SwapEval, AllResolved, OneRejected,
     EnqueueJob, CatchZRem, CatchHDel, ZRem, HDel, store
<1>2. CASE Task(r)
  BY <1>2 DEF Task, InsertBooking, UpdateBooking, CreateEvent, ReleaseZRem, ReleaseHDel, ZRem, HDel, store
<1> QED BY <1>1, <1>2

LEMMA OldDayStays ==
  ASSUME BaseInv, RecordInv, NEW r \in Ids, Step(r) \/ Task(r), NEW q \in Ids, req[q].target # None
  PROVE  OldDay(q)' = OldDay(q) /\ OldDay(q) \in Days
<1>1. req' = req
  BY StepEffect
<1>2. req[q].target \in Ids /\ Exists(req[q].target) /\ Insert(req[q].target) = "ok"
  BY TargetsStored DEF BaseInv, Equipped
<1>3. OldDay(q) \in Days
  BY <1>2, SlotsAssumption DEF OldDay, BaseInv, TypeOK, Documents, Exists
<1>4. CASE Step(r)
  BY <1>1, <1>3, <1>4 DEF Step, Refuse, CreateAcquire, SwapZScore, SwapHGet, SwapEval, AllResolved, OneRejected,
     EnqueueJob, CatchZRem, CatchHDel, OldDay
<1>5. CASE InsertBooking(r)
  <2>1. req[q].target # r
    BY <1>2, <1>5 DEF InsertBooking, Insert
  <2> QED BY <1>1, <1>2, <1>3, <1>5, <2>1 DEF InsertBooking, OldDay, BaseInv, TypeOK
<1>6. CASE UpdateBooking(r)
  <2>1. Update(r) # "off"
    BY <1>6 DEF UpdateBooking, Update
  <2>2. req[r].target \in Ids /\ Exists(req[r].target)
    BY <2>1, TargetsStored DEF BaseInv, Equipped
  <2>3. \/ UNCHANGED bookings
        \/ bookings' = [bookings EXCEPT ![req[r].target].status = "cancelled"]
    BY <1>6 DEF UpdateBooking
  <2>4. \A b \in Ids : Exists(b) => bookings'[b].slot = bookings[b].slot
    <3> SUFFICES ASSUME NEW b \in Ids, Exists(b) PROVE bookings'[b].slot = bookings[b].slot
      OBVIOUS
    <3>1. bookings \in [Ids -> Documents \cup {None}] /\ bookings[b] \in Documents
      BY DEF BaseInv, TypeOK, Exists
    <3>2. CASE UNCHANGED bookings
      BY <3>2
    <3>3. CASE bookings' = [bookings EXCEPT ![req[r].target].status = "cancelled"]
      <4>1. CASE b # req[r].target
        BY <2>2, <3>1, <3>3, <4>1
      <4>2. CASE b = req[r].target
        <5>1. bookings'[b] = [bookings[b] EXCEPT !.status = "cancelled"]
          BY <3>1, <3>3, <4>2
        <5> QED BY <3>1, <5>1 DEF Documents
      <4> QED BY <4>1, <4>2
    <3> QED BY <2>3, <3>2, <3>3
  <2> QED BY <1>1, <1>2, <1>3, <2>4 DEF OldDay
<1>7. CASE CreateEvent(r) \/ ReleaseZRem(r) \/ ReleaseHDel(r)
  BY <1>1, <1>3, <1>7 DEF CreateEvent, ReleaseZRem, ReleaseHDel, OldDay
<1> QED BY <1>4, <1>5, <1>6, <1>7 DEF Task

LEMMA OnceRemovalStep ==
  ASSUME BaseInv, RecordInv, OnceInv, NEW r \in Ids, Step(r) \/ Task(r),
         \/ UNCHANGED zset
         \/ \E b \in {r, req[r].target}, d \in Days \cup {OldDay(r), req[r].slot.day} :
                 zset' = [zset EXCEPT ![d][b] = None]
  PROVE  HeldOnce' /\ Unlocked' /\ FoundEntry'
<1>1. \A d \in Days, b \in Ids :
          /\ Held(d, b)' => Held(d, b)
          /\ b # r /\ b # req[r].target => zset'[d][b] = zset[d][b]
  BY DEF Held, BaseInv, TypeOK, StoreType
<1>2. HeldOnce' /\ Unlocked'
  <2>1. \A q \in Ids : Insert(q)' = "off" => Insert(q) = "off"
    BY StepEffect DEF Insert
  <2> QED BY <1>1, <2>1 DEF OnceInv, HeldOnce, Unlocked, Nowhere
<1>3. FoundEntry'
  <2> SUFFICES ASSUME NEW q \in Ids, pc'[q] \in {"hget", "swap"} PROVE Held(OldDay(q), req[q].target)'
    BY DEF FoundEntry
  <2>1. Asking(q) /\ Held(OldDay(q), req[q].target)
    BY StepEffect DEF OnceInv, FoundEntry, Asking
  <2>2. req'[q] = req[q] /\ req[q].op = "reschedule" /\ req[q].target # None
    <3>1. req[q].op = "reschedule"
      BY StepEffect DEF BaseInv, Equipped
    <3> QED BY <3>1, StepEffect DEF BaseInv, Equipped
  <2>3. req[q].target \in Ids /\ OldDay(q)' = OldDay(q) /\ OldDay(q) \in Days
    BY <2>2, TargetsStored, OldDayStays
  <2>4. CASE q = r
    BY <2>1, <2>2, <2>3, <2>4, StepEffect DEF Held
  <2>5. CASE q # r
    <3>1. ~Settled(r)
      BY StepEffect
    <3>2. req[q].target # r /\ req[q].target # req[r].target
      BY <2>1, <2>2, <2>5, <3>1 DEF OnceInv, AskingAlone
    <3> QED BY <1>1, <2>1, <2>2, <2>3, <3>2 DEF Held
  <2> QED BY <2>4, <2>5
<1> QED BY <1>2, <1>3

LEMMA StepOnceInv ==
  ASSUME BaseInv, RecordInv, Exclusive, OnceInv, [Next]_vars
  PROVE  OnceInv'
<1>1. AskingAlone'
  BY AskingAloneStep DEF OnceInv
<1>2. CASE UNCHANGED vars
  BY <1>1, <1>2 DEF OnceInv, vars, HeldOnce, Unlocked, FoundEntry, Held, Nowhere, Insert, OldDay
<1>3. ASSUME NEW r \in Ids, Arrive(r) PROVE HeldOnce' /\ Unlocked' /\ FoundEntry'
  <2>1. UNCHANGED <<zset, bookings>>
    BY <1>3, ArriveEffect
  <2>2. \A q \in Ids : Insert(q)' = "off" => Insert(q) = "off"
    BY <1>3, ArriveEffect DEF RecordInv, Recording, NoTasks, TaskNames, Insert
  <2>3. \A q \in Ids : pc'[q] \in {"hget", "swap"} => pc[q] = pc'[q] /\ req'[q] = req[q]
    BY <1>3, ArriveEffect
  <2> QED BY <2>1, <2>2, <2>3 DEF OnceInv, HeldOnce, Unlocked, FoundEntry, Held, Nowhere, OldDay
<1>4. ASSUME NEW r \in Ids, Step(r) \/ Task(r) PROVE HeldOnce' /\ Unlocked' /\ FoundEntry'
  BY <1>4, RemovalEffect, OnceAcquireStep, OnceSwapStep, OnceRemovalStep
<1> QED BY <1>1, <1>2, <1>3, <1>4 DEF OnceInv, Next

(* The swap leaves no entry on the old day: no id holds slots of two days, *)
(* whatever calls are rejected, and even if clients cancel bookings that a *)
(* reschedule has moved, provided that no booking is addressed by two      *)
(* requests at once.                                                       *)
THEOREM MovedHoldsOnce == Exclusive => (Spec => []HeldOnce)
<1> SUFFICES ASSUME Exclusive PROVE Spec => []HeldOnce
  OBVIOUS
<1>1. Init => OnceInv
  BY InitOnceInv
<1>2. BaseInv /\ RecordInv /\ OnceInv /\ [Next]_vars => OnceInv'
  BY StepOnceInv
<1>3. OnceInv => HeldOnce
  BY DEF OnceInv
<1> QED BY <1>1, <1>2, <1>3, RecordInvHolds, PTL DEF Spec
=============================================================================
