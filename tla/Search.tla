-------------------------------- MODULE Search --------------------------------
(***************************************************************************)
(* AvailabilitySearchService running beside BookingLockService and the     *)
(* owner of the calendar.  A search takes the cached configuration of the  *)
(* business, clips the dates it was asked for to the schedule in it, and   *)
(* then goes through them: it reads the hours of a date, runs the sweep    *)
(* script over that date's bookings, and takes the buffers off each gap.   *)
(* The configuration is cached without expiry, under a tag that no writer  *)
(* invalidates, and is never read from the database again.                 *)
(*                                                                         *)
(* The calendar has one schedule; Availability models how schedules and    *)
(* overrides are written.                                                  *)
(***************************************************************************)
EXTENDS SlotLock, SlotSweep

CONSTANTS
    WeekDay, DayLength, Services,       \* see OpeningHours
    Today,          \* the date of every search
    Schedules,      \* what the owner may set: [days, hours, from, until]
    Overrides,      \* likewise: [date, type, hours]
    Searchers

INSTANCE OpeningHours

(* Days are consecutive dates. *)
ASSUME DaysAssumption ==
    /\ Days \subseteq Int /\ Today \in Int
    /\ \A d, e \in Days : d..e \subseteq Days

ASSUME ServicesAssumption ==
    /\ DayLength \in Nat \ {0}
    /\ \A s \in Services : s.duration \in 1..DayLength /\ s.before \in Nat /\ s.after \in Nat

OpeningTimes == [start: Nat, end: Nat]

ASSUME CalendarAssumption ==
    /\ \A s \in Schedules : /\ s.hours \in OpeningTimes
                            /\ s.from \in Int /\ s.until \in Int \cup {None}
    /\ \A o \in Overrides : o.date \in Days /\ (o.type = "closed" \/ o.hours \in OpeningTimes \cup {None})
    /\ None \notin OpeningTimes \cup Schedules \cup Overrides

VARIABLES
    schedule,       \* the active schedule in the database, or None
    override,       \* override[d]: the active override of date d, or None
    config,         \* the cached schedule, or None before the first search
    at,             \* at[q]: where search q waits
    asked,          \* asked[q]: what q was asked: [service, from, until]
    date,           \* date[q]: `current`
    hours,          \* hours[q]: the hours of that date, as q has read them
    found           \* found[q]: the slots q has collected, or None once the
                    \*   calendar or a booking has changed during q: no
                    \*   property speaks of such a search

calendar == <<schedule, override>>
searches == <<at, asked, date, hours>>
searchVars == <<vars, calendar, config, searches, found>>

SearchTypeOK ==
    /\ TypeOK
    /\ schedule \in Schedules \cup {None}
    /\ override \in [Days -> Overrides \cup {None}]
    /\ config \in Schedules \cup {None}
    /\ at \in [Searchers -> {"idle", "hours", "gaps", "done"}]
    /\ asked \in [Searchers -> [service: Services, from: Days, until: Days] \cup {None}]
    /\ date \in [Searchers -> Int]
    /\ hours \in [Searchers -> OpeningTimes \cup {None}]
    /\ found \in [Searchers -> {None} \cup SUBSET [date: Days, start: 0..DayLength, end: 0..DayLength]]

SearchInit ==
    /\ Init
    /\ schedule = None
    /\ override = [d \in Days |-> None]
    /\ config = None
    /\ at = [q \in Searchers |-> "idle"]
    /\ asked = [q \in Searchers |-> None]
    /\ date = [q \in Searchers |-> Today]
    /\ hours = [q \in Searchers |-> None]
    /\ found = [q \in Searchers |-> None]

Disturbed == [q \in Searchers |-> None]

Later(d, e) == IF d > e THEN d ELSE e

Earlier(d, e) == IF e = None \/ d < e THEN d ELSE e

-----------------------------------------------------------------------------
(* The owner, and the requests that take and free slots *)

SetSchedule(s) ==
    /\ schedule' = s
    /\ found' = Disturbed
    /\ UNCHANGED <<vars, override, config, searches>>

SetOverride(o) ==
    /\ override' = [override EXCEPT ![o.date] = o]
    /\ found' = Disturbed
    /\ UNCHANGED <<vars, schedule, config, searches>>

DeleteOverride(d) ==
    /\ override' = [override EXCEPT ![d] = None]
    /\ found' = Disturbed
    /\ UNCHANGED <<vars, schedule, config, searches>>

LockStep ==
    /\ Next
    /\ found' = IF store' = store THEN found ELSE Disturbed
    /\ UNCHANGED <<calendar, config, searches>>

-----------------------------------------------------------------------------
(* search *)

(* The resolver of the configuration asks for a schedule in force now, and *)
(* compares instants: both ends of a range are midnights and it is later   *)
(* in the day than that, so a schedule is not found on its last date.      *)
InForceNow(s) == s # None /\ s.from <= Today /\ (s.until = None \/ Today < s.until)

FoundConfig ==
    IF config # None THEN config ELSE IF InForceNow(schedule) THEN schedule ELSE None

(* #getBusinessConfig; without a configuration the search throws.  From    *)
(* the configuration only the range of the schedule is used.               *)
GetBusinessConfig(q, service, from, until) ==
    /\ at[q] \in {"idle", "done"}
    /\ FoundConfig # None
    /\ config' = FoundConfig
    /\ asked' = [asked EXCEPT ![q] = [service |-> service, from |-> from, until |-> until]]
    /\ date' = [date EXCEPT ![q] = Later(from, FoundConfig.from)]
    /\ at' = [at EXCEPT ![q] = "hours"]
    /\ found' = [found EXCEPT ![q] = {}]
    /\ UNCHANGED <<vars, calendar, hours>>

(* effectiveEnd *)
LastDate(q) == Earlier(asked[q].until, config.until)

(* One turn of the loop: a date without hours is passed over. *)
ReadHours(q) ==
    /\ at[q] = "hours"
    /\ date[q] <= LastDate(q)
    /\ LET h == Hours(date[q], schedule, override[date[q]])
       IN  /\ hours' = [hours EXCEPT ![q] = h]
           /\ IF h = None
              THEN date' = [date EXCEPT ![q] = @ + 1] /\ UNCHANGED at
              ELSE at' = [at EXCEPT ![q] = "gaps"] /\ UNCHANGED date
    /\ UNCHANGED <<vars, calendar, config, asked, found>>

GapsFor(q) ==
    AvailableSlots(date[q], Epoch(date[q], hours[q].start), Epoch(date[q], hours[q].end),
                   TimeNeeded(asked[q].service), {})

(* Mutant: the buffer after the service is not taken off. *)
BookableWithLateEnd(q) ==
    {[date |-> date[q], start |-> TimeOfDay(g.start + asked[q].service.before),
      end |-> TimeOfDay(g.end)] : g \in GapsFor(q)}

(* The part of each gap in which the service itself may lie. *)
Bookable(q) ==
    {[date |-> date[q], start |-> TimeOfDay(g.start + asked[q].service.before),
      end |-> TimeOfDay(g.end - asked[q].service.after)] : g \in GapsFor(q)}

ReadGaps(q) ==
    /\ at[q] = "gaps"
    /\ found' = [found EXCEPT ![q] = IF @ = None THEN None ELSE @ \cup Bookable(q)]
    /\ date' = [date EXCEPT ![q] = @ + 1]
    /\ at' = [at EXCEPT ![q] = "hours"]
    /\ hours' = [hours EXCEPT ![q] = None]
    /\ UNCHANGED <<vars, calendar, config, asked>>

Answer(q) ==
    /\ at[q] = "hours"
    /\ date[q] > LastDate(q)
    /\ at' = [at EXCEPT ![q] = "done"]
    /\ date' = [date EXCEPT ![q] = Today]
    /\ UNCHANGED <<vars, calendar, config, asked, hours, found>>

-----------------------------------------------------------------------------
SearchNext ==
    \/ LockStep
    \/ \E s \in Schedules \cup {None} : SetSchedule(s)
    \/ \E o \in Overrides : SetOverride(o)
    \/ \E d \in Days : DeleteOverride(d)
    \/ \E q \in Searchers, service \in Services, from, until \in Days :
           GetBusinessConfig(q, service, from, until)
    \/ \E q \in Searchers : ReadHours(q)
    \/ \E q \in Searchers : ReadGaps(q)
    \/ \E q \in Searchers : Answer(q)

SearchSpec == SearchInit /\ [][SearchNext]_searchVars

-----------------------------------------------------------------------------
(* The service of q may start on date d at a time of day: the slot is      *)
(* offered by the answer to q; it would be booked by the create handler.   *)
Offered(q, d, time) ==
    \E o \in found[q] : /\ o.date = d
                        /\ o.start <= time
                        /\ time + asked[q].service.duration <= o.end

CanBeBooked(service, d, time) ==
    /\ ValidBookingTime(d, Hours(d, schedule, override[d]), time, service)
    /\ Free(d, {}, StartWithBuffer(service, Epoch(d, time)), EndWithBuffer(service, Epoch(d, time)))

(* q has its answer, and nothing has changed since it began. *)
Answered(q) == at[q] = "done" /\ found[q] # None

(* Elsewhere the dates of a range are whole days.                          *)
Covers(s, d) == s # None /\ s.from <= d /\ (s.until = None \/ d <= s.until)

AnswerIsExact(q) ==
    \A d \in asked[q].from..asked[q].until :
        Covers(schedule, d) =>
            \A time \in 0..(DayLength - 1) :
                WithinDate(time, asked[q].service) =>
                    (Offered(q, d, time) <=> CanBeBooked(asked[q].service, d, time))

(* The search "Respects working hours, buffers, and schedule overrides"    *)
(* (README.md:182): on the dates of the request that the schedule covers,  *)
(* the answer offers a time exactly when the validation accepts it and no  *)
(* booking is in the way.  Stated for searches whose cached configuration  *)
(* is still the schedule.                                                  *)
SearchIsExact ==
    \A q \in Searchers : Answered(q) /\ config = schedule => AnswerIsExact(q)

(* "Always accurate availability - no stale cache issues" (README.md:575): *)
(* the same for every search.                                              *)
SearchIsUpToDate == \A q \in Searchers : Answered(q) => AnswerIsExact(q)
=============================================================================
