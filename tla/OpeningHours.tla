----------------------------- MODULE OpeningHours -----------------------------
(***************************************************************************)
(* AvailabilityValidationService on the documents that it has read: the    *)
(* hours of a date, and whether a booking lies inside them.                *)
(*                                                                         *)
(* Dates are numbers; a time of day is a number below DayLength, its order *)
(* that of the strings HH:mm; an instant is date * DayLength + time.       *)
(***************************************************************************)
EXTENDS Integers

CONSTANTS
    WeekDay,        \* WeekDay[d]: the day of the week of date d
    DayLength,      \* minutes of a day
    Services,       \* [duration, before, after]: a service and its buffers
    None            \* no document, no hours

ASSUME TimesAssumption ==
    /\ DayLength \in Nat \ {0}
    /\ \A s \in Services : s.duration \in 1..DayLength /\ s.before \in Nat /\ s.after \in Nat

(* Mutants: overrides are left out; the end of a schedule is left out. *)
HoursWithoutOverrides(date, schedule, override) ==
    IF /\ schedule # None
       /\ schedule.from <= date
       /\ schedule.until = None \/ date <= schedule.until
       /\ WeekDay[date] \in schedule.days
    THEN schedule.hours ELSE None

HoursWithoutEnd(date, schedule, override) ==
    IF override # None THEN IF override.type = "closed" THEN None ELSE override.hours
    ELSE IF schedule # None /\ schedule.from <= date /\ WeekDay[date] \in schedule.days
    THEN schedule.hours ELSE None

(* getEffectiveHoursForDate, once its queries have returned a schedule and *)
(* an override, or None.  An override without hours has None.              *)
Hours(date, schedule, override) ==
    IF override # None THEN IF override.type = "closed" THEN None ELSE override.hours
    ELSE IF /\ schedule # None
            /\ schedule.from <= date
            /\ schedule.until = None \/ date <= schedule.until
            /\ WeekDay[date] \in schedule.days
    THEN schedule.hours ELSE None

(* getTime: only the time of day of an instant remains. *)
TimeOfDay(instant) == instant % DayLength

(* timeToEpoch *)
Epoch(date, time) == date * DayLength + time

(* What a booking occupies, buffers included. *)
StartWithBuffer(service, instant) == instant - service.before

EndWithBuffer(service, instant) == instant + service.duration + service.after

TimeNeeded(service) == service.before + service.duration + service.after

(* validateBookingTime does not throw. *)
ValidBookingTime(date, hours, time, service) ==
    LET instant == Epoch(date, time)
    IN  /\ hours # None
        /\ TimeOfDay(StartWithBuffer(service, instant)) >= hours.start
        /\ TimeOfDay(EndWithBuffer(service, instant)) <= hours.end

(* A booking that, with its buffers, starts and ends on the date itself.   *)
WithinDate(time, service) ==
    time >= service.before /\ EndWithBuffer(service, time) < DayLength
=============================================================================
