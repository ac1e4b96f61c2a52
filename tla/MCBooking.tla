------------------------------ MODULE MCBooking ------------------------------
(* Booking on small instances.  Slots overlap, touch and lie on two days;  *)
(* slots that overlap start at different times, so that the unique index   *)
(* on startsAt does not do the lock's work.                                *)
EXTENDS Booking, TLC

CONSTANTS b1, b2, b3, b4, k1, k2, k3, d1, d2

Slot(d, from, until) ==
    [day |-> d, start |-> from, end |-> until, startsAt |-> from, service |-> "cut"]

OverlappingSlots == {Slot(d1, 0, 2), Slot(d1, 1, 3)}
TwoDaySlots == {Slot(d1, 0, 2), Slot(d1, 1, 3), Slot(d2, 10, 12)}

(* Ids and keys are interchangeable, which TLC's symmetry reduction may not *)
(* exploit under liveness properties.  Here they are used in a fixed order, *)
(* which every behaviour is up to a renaming; it delays no fair action.    *)
InOrder ==
    /\ \A next \in {<<b1, b2>>, <<b2, b3>>} :
           pc'[next[1]] = "new" => pc'[next[2]] = "new"
    /\ (\E r \in Ids : req'[r].key = k2) => \E r \in Ids : req'[r].key = k1

Symmetry == Permutations(Ids) \cup Permutations(Keys)
=============================================================================
