------------------------------- MODULE MCSearch -------------------------------
(* Search and the slot lock on small instances: two dates, searched on the *)
(* day before, slots that overlap, touch and lie outside the hours, a      *)
(* schedule that ends between the dates and one that does not, a service   *)
(* with different buffers.                                                 *)
EXTENDS Search, TLC

CONSTANTS b1, b2, c1, c2, q1

Span(from, until) == [start |-> from, end |-> until]

Slot(from, until) == [day |-> 1, start |-> Epoch(1, from), end |-> Epoch(1, until)]

SomeSlots == {Slot(1, 3), Slot(2, 4), Slot(4, 6)}

SomeOpenings == {Slot(2, 5)}

DayOfDate == (1 :> "mon") @@ (2 :> "tue")

SomeSchedules == {[days |-> {"mon", "tue"}, hours |-> Span(1, 7), from |-> 0, until |-> None],
                  [days |-> {"mon", "tue"}, hours |-> Span(2, 7), from |-> 0, until |-> 1]}

SomeOverrides == {[date |-> 2, type |-> "modified_hours", hours |-> Span(3, 6)]}

SomeServices == {[duration |-> 1, before |-> 0, after |-> 1]}

Symmetry == Permutations({b1, b2}) \cup Permutations({c1, c2})
=============================================================================
