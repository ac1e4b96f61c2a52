---------------------------- MODULE MCAvailability ----------------------------
(* Availability on small instances: four dates of two days of the week,    *)
(* bounded and open-ended schedules, overrides of two dates.               *)
EXTENDS Availability, TLC

CONSTANTS s1, s2, o1, o2, r1, r2

Opening(from, until) == [start |-> from, end |-> until]

DayOfDate == (1 :> "mon") @@ (2 :> "tue") @@ (3 :> "mon") @@ (4 :> "tue")

Schedule(days, hours, from, until) ==
    [days |-> days, hours |-> hours, from |-> from, until |-> until, active |-> TRUE]

SomeSchedules == {Schedule({"mon"}, Opening(1, 3), 1, None), Schedule({"mon", "tue"}, Opening(0, 2), 2, 4),
                  Schedule({"tue"}, Opening(1, 2), 1, 2)}
SomePatches == {[active |-> FALSE], [until |-> 2], [until |-> 4, active |-> TRUE], [days |-> {"tue"}]}

SomeOverrides == {[date |-> 1, type |-> "closed", hours |-> None, active |-> TRUE],
                  [date |-> 2, type |-> "modified_hours", hours |-> Opening(2, 3), active |-> TRUE]}
SomeOverridePatches == {[date |-> 2], [active |-> FALSE], [active |-> TRUE]}

SomeServices == {[duration |-> 1, before |-> 0, after |-> 0],
                 [duration |-> 1, before |-> 1, after |-> 0]}

Symmetry == Permutations({s1, s2}) \cup Permutations({o1, o2}) \cup Permutations({r1, r2})
=============================================================================
