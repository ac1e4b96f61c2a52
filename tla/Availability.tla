----------------------------- MODULE Availability -----------------------------
(***************************************************************************)
(* The opening hours of one business: its schedules and overrides, kept by *)
(* AvailabilityScheduleService and AvailabilityOverrideService, and read   *)
(* by AvailabilityValidationService.  Creates and updates read, validate   *)
(* and write in separate awaited calls, so requests can interleave between *)
(* a validation and the write it allows.  Their cache invalidations are    *)
(* the writers of Cache.                                                   *)
(***************************************************************************)
EXTENDS OpeningHours

CONSTANTS
    ScheduleIds, OverrideIds,
    Dates,          \* the dates that clients ask about
    WeekDays,       \* the days of the week
    Schedules,      \* bodies of create requests: [days, hours, from, until, active]
    Overrides,      \* bodies of create requests: [date, type, hours, active]
    SchedulePatches, OverridePatches,   \* bodies of update requests
    Requests,
    Serial,         \* TRUE: at most one request at a time changes schedules, or overrides
    Deleted         \* a soft-deleted document

ASSUME DatesAssumption == Dates \subseteq Int /\ None \notin Int

Span == [start: Nat, end: Nat]

(* The fields of the documents and of the bodies of requests. *)
ScheduleFields ==
    [days |-> SUBSET WeekDays, hours |-> Span, from |-> Dates, until |-> Dates \cup {None},
     active |-> BOOLEAN]

OverrideFields ==
    [date |-> Dates, type |-> {"closed", "modified_hours"}, hours |-> Span \cup {None},
     active |-> BOOLEAN]

ScheduleDocs ==
    [days: ScheduleFields.days, hours: ScheduleFields.hours, from: ScheduleFields.from,
     until: ScheduleFields.until, active: ScheduleFields.active]

OverrideDocs ==
    [date: OverrideFields.date, type: OverrideFields.type, hours: OverrideFields.hours,
     active: OverrideFields.active]

(* A create request has every field, an update request some of them.       *)
ASSUME BodiesAssumption ==
    /\ Schedules \subseteq ScheduleDocs
    /\ Overrides \subseteq OverrideDocs
    /\ \A p \in SchedulePatches : \A f \in DOMAIN p :
           f \in DOMAIN ScheduleFields /\ p[f] \in ScheduleFields[f]
    /\ \A p \in OverridePatches : \A f \in DOMAIN p :
           f \in DOMAIN OverrideFields /\ p[f] \in OverrideFields[f]

(* What a request goes through: see Begin. *)
CallsOf(kind, op, Ids, Bodies, Docs) ==
    [kind: {kind}, op: {op}, id: Ids, body: Bodies, doc: Docs, stage: {"validate", "write"}]

Calls ==
    CallsOf("schedule", "create", ScheduleIds, Schedules, ScheduleDocs)
        \cup CallsOf("schedule", "update", ScheduleIds, SchedulePatches, ScheduleDocs)
        \cup CallsOf("override", "create", OverrideIds, Overrides, OverrideDocs)
        \cup CallsOf("override", "update", OverrideIds, OverridePatches, OverrideDocs)

ASSUME NoDocument ==
    /\ None # Deleted /\ None \notin Calls
    /\ None \notin ScheduleDocs /\ Deleted \notin ScheduleDocs
    /\ None \notin OverrideDocs /\ Deleted \notin OverrideDocs

VARIABLES
    schedules,      \* schedules[s]: the document with id s, None or Deleted
    overrides,      \* overrides[o]: likewise
    request         \* request[r]: what request r is doing, or None

vars == <<schedules, overrides, request>>

Apply(patch, doc) ==
    [f \in DOMAIN doc |-> IF f \in DOMAIN patch THEN patch[f] ELSE doc[f]]

Stored(collection) == {id \in DOMAIN collection : collection[id] \notin {None, Deleted}}

Active(collection) == {id \in Stored(collection) : collection[id].active}

Init ==
    /\ schedules = [s \in ScheduleIds |-> None]
    /\ overrides = [o \in OverrideIds |-> None]
    /\ request = [r \in Requests |-> None]

(* Request r on a document of one kind: `body` is what it will write, doc  *)
(* the document it expects to result, which is what it validates.          *)
Begin(r, kind, op, id, body, doc, stage) ==
    /\ request[r] = None
    /\ \A q \in Requests : request[q] # None /\ request[q].kind = kind
           => ~Serial /\ ~(op = "create" /\ request[q].id = id)
    /\ request' = [request EXCEPT ![r] =
           [kind |-> kind, op |-> op, id |-> id, body |-> body, doc |-> doc, stage |-> stage]]
    /\ UNCHANGED <<schedules, overrides>>

At(r, kind, stage) ==
    request[r] # None /\ request[r].kind = kind /\ request[r].stage = stage

EndRequest(r) == request' = [request EXCEPT ![r] = None]

(* A validation that finds a conflict throws. *)
Validate(r, conflict) ==
    /\ IF conflict THEN EndRequest(r)
                   ELSE request' = [request EXCEPT ![r].stage = "write"]
    /\ UNCHANGED <<schedules, overrides>>

(* Mutant: an update replaces the document by the patch. *)
Replaced(collection, call) == [collection EXCEPT ![call.id] = call.body]

(* The database write: an update of a deleted document matches nothing. *)
Written(collection, call) ==
    IF call.op = "create" THEN [collection EXCEPT ![call.id] = call.body]
    ELSE IF collection[call.id] = Deleted THEN collection
    ELSE [collection EXCEPT ![call.id] = Apply(call.body, @)]

-----------------------------------------------------------------------------
(* AvailabilityScheduleService *)

Ordered(doc) == doc.until # None => doc.from < doc.until

CreateSchedule(r, s, body) ==
    /\ schedules[s] = None
    /\ Ordered(body)
    /\ Begin(r, "schedule", "create", s, body, body, "validate")

(* Only an update of the days or the range is validated. *)
UpdateSchedule(r, s, patch) ==
    /\ s \in Stored(schedules)
    /\ LET doc == Apply(patch, schedules[s])
           validated == doc.active /\ DOMAIN patch \cap {"days", "from", "until"} # {}
       IN  /\ Ordered(doc)
           /\ Begin(r, "schedule", "update", s, patch, doc,
                    IF validated THEN "validate" ELSE "write")

(* Mutant: an open-ended schedule is not looked for. *)
OverlapsBounded(doc, other) ==
    /\ doc.days \cap other.days # {}
    /\ doc.until = None \/ other.from <= doc.until
    /\ other.until # None /\ doc.from <= other.until

Overlaps(doc, other) ==
    /\ doc.days \cap other.days # {}
    /\ doc.until = None \/ other.from <= doc.until
    /\ other.until = None \/ doc.from <= other.until

ValidateNoOverlap(r) ==
    /\ At(r, "schedule", "validate")
    /\ Validate(r, \E s \in Active(schedules) \ {request[r].id} :
                       Overlaps(request[r].doc, schedules[s]))

WriteSchedule(r) ==
    /\ At(r, "schedule", "write")
    /\ schedules' = Written(schedules, request[r])
    /\ EndRequest(r)
    /\ UNCHANGED overrides

DeleteSchedule(s) ==
    /\ s \in Stored(schedules)
    /\ schedules' = [schedules EXCEPT ![s] = Deleted]
    /\ UNCHANGED <<overrides, request>>

-----------------------------------------------------------------------------
(* AvailabilityOverrideService *)

CreateOverride(r, o, body) ==
    /\ overrides[o] = None
    /\ Begin(r, "override", "create", o, body, body, "validate")

UpdateOverride(r, o, patch) ==
    /\ o \in Stored(overrides)
    /\ Begin(r, "override", "update", o, patch, Apply(patch, overrides[o]),
             IF "date" \in DOMAIN patch THEN "validate" ELSE "write")

(* Mutant: an override that is not active is not looked for. *)
ActiveOverridesOn(date) == {o \in Active(overrides) : overrides[o].date = date}

OverridesOn(date) == {o \in Stored(overrides) : overrides[o].date = date}

ValidateNoExistingOverride(r) ==
    /\ At(r, "override", "validate")
    /\ Validate(r, OverridesOn(request[r].doc.date) \ {request[r].id} # {})

WriteOverride(r) ==
    /\ At(r, "override", "write")
    /\ overrides' = Written(overrides, request[r])
    /\ EndRequest(r)
    /\ UNCHANGED schedules

DeleteOverride(o) ==
    /\ o \in Stored(overrides)
    /\ overrides' = [overrides EXCEPT ![o] = Deleted]
    /\ UNCHANGED <<schedules, request>>

-----------------------------------------------------------------------------
ScheduleSteps ==
    \/ \E r \in Requests, s \in ScheduleIds, b \in Schedules : CreateSchedule(r, s, b)
    \/ \E r \in Requests, s \in ScheduleIds, p \in SchedulePatches : UpdateSchedule(r, s, p)
    \/ \E r \in Requests : ValidateNoOverlap(r)
    \/ \E r \in Requests : WriteSchedule(r)
    \/ \E s \in ScheduleIds : DeleteSchedule(s)

OverrideSteps ==
    \/ \E r \in Requests, o \in OverrideIds, b \in Overrides : CreateOverride(r, o, b)
    \/ \E r \in Requests, o \in OverrideIds, p \in OverridePatches : UpdateOverride(r, o, p)
    \/ \E r \in Requests : ValidateNoExistingOverride(r)
    \/ \E r \in Requests : WriteOverride(r)
    \/ \E o \in OverrideIds : DeleteOverride(o)

Next == ScheduleSteps \/ OverrideSteps

Spec == Init /\ [][Next]_vars

-----------------------------------------------------------------------------
(* AvailabilityValidationService.  findOne returns any document that       *)
(* matches, so the hours of a date are a set of possible answers.          *)

FoundSchedules ==
    IF Active(schedules) = {} THEN {None} ELSE {schedules[s] : s \in Active(schedules)}

FoundOverrides(date) ==
    LET found == OverridesOn(date) \cap Active(overrides)
    IN  IF found = {} THEN {None} ELSE {overrides[o] : o \in found}

EffectiveHours(date) ==
    {Hours(date, s, o) : s \in FoundSchedules, o \in FoundOverrides(date)}

-----------------------------------------------------------------------------
TypeOK ==
    /\ schedules \in [ScheduleIds -> ScheduleDocs \cup {None, Deleted}]
    /\ overrides \in [OverrideIds -> OverrideDocs \cup {None, Deleted}]
    /\ request \in [Requests -> Calls \cup {None}]

(* Schedule s is in force on a date. *)
Covers(s, date) ==
    /\ s \in Active(schedules)
    /\ WeekDay[date] \in schedules[s].days
    /\ schedules[s].from <= date
    /\ schedules[s].until = None \/ date <= schedules[s].until

(* "Validates that no overlapping active schedules exist" (availability-   *)
(* schedule.service.ts:34): no date has two schedules, whatever sequence   *)
(* of creates, updates and deletes led here.                               *)
SchedulesDisjoint ==
    \A s, t \in ScheduleIds : \A d \in Dates : Covers(s, d) /\ Covers(t, d) => s = t

(* "Validates that no other override exists for the same date"             *)
(* (availability-override.service.ts:33), also through updates of the date *)
(* and of isActive.                                                        *)
OneOverridePerDate ==
    \A o, p \in Stored(overrides) : overrides[o].date = overrides[p].date => o = p

(* A holiday closure (README.md:176) closes its date, whichever documents  *)
(* the two findOne queries come back with.                                 *)
ClosedDateIsClosed ==
    \A o \in Active(overrides) : overrides[o].type = "closed"
        => EffectiveHours(overrides[o].date) = {None}

(* The hours a date was given by its owner. *)
Openings(date) ==
    LET on == OverridesOn(date) \cap Active(overrides)
    IN  IF on # {} THEN {overrides[o].hours : o \in on}
        ELSE {schedules[s].hours : s \in {t \in ScheduleIds : Covers(t, date)}}

(* "Respects working hours, buffers, and schedule overrides"               *)
(* (README.md:182): a booking that is accepted, and does not reach into    *)
(* another day, lies with its buffers inside hours its owner has set for   *)
(* that date.  (One that does is compared by its times of day alone.)      *)
AcceptedIsOpen ==
    \A d \in Dates : \A hours \in EffectiveHours(d) :
        \A time \in 0..(DayLength - 1), service \in Services :
            /\ ValidBookingTime(d, hours, time, service)
            /\ WithinDate(time, service)
            => \E open \in Openings(d) : /\ open.start <= StartWithBuffer(service, time)
                                         /\ EndWithBuffer(service, time) <= open.end

(* "Weekly schedules: Define working hours per day of week"                *)
(* (README.md:174): a date that a schedule covers and no override changes  *)
(* is open at the hours of that schedule.                                  *)
OpenOnScheduledDays ==
    \A d \in Dates : \A s \in ScheduleIds :
        Covers(s, d) /\ FoundOverrides(d) = {None} => schedules[s].hours \in EffectiveHours(d)
                                                      /\ None \notin EffectiveHours(d)
=============================================================================
