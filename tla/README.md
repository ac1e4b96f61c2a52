# Verification of the service-booking backend

TLA+ models of the backend in this repository (NestJS, MongoDB, Redis, BullMQ),
TLC runs that check them on small instances, and TLAPS proofs about all of them
for every value of the constants. Paths below are relative to the repository;
`README.md:<line>` is the repository's own README.

## The system

Clients search free slots of a business and create, cancel and reschedule
bookings; businesses maintain services, weekly schedules and date overrides.
Everything runs in one or more Node processes that share MongoDB, Redis and a
BullMQ queue. Inside a process the only points where another request can run
are the `await`s, so in the models every awaited call is one atomic step and
anything can happen between two of them. `Promise.all` starts its branches
together; they end in any order, and when one rejects the others still go on.

| Component | State | Operations | What makes it correct |
|---|---|---|---|
| Slot lock (`booking-lock.service.ts`, Lua) | Redis: one sorted set per business and day (booking id, start), one hash (booking id, end) | acquire, release, swap (atomic scripts and single commands) | held slots never overlap, both keys agree, nothing is left behind |
| Slot search (Lua sweeps) | none | gaps of a day, optionally without one booking | exactly the free time is offered, what is offered can be booked |
| Booking (`booking.service.ts`) | `bookings` with two unique indexes | create, cancel, reschedule, reads | no double booking; locks and bookings agree; idempotency; every change recorded; nothing lost or leaked |
| Outbox (service, relay, processor) | `outboxevents`, the job queue | store, relay every 10 s, process, fail | processed means delivered; no event stranded; every event eventually delivered |
| Cache (`cache.service.ts`) | Redis: keys and tag sets | `fetch`, `invalidateByTag` | a hit is what a miss would return; every key reachable by its tags |
| Services catalogue | `services` | CRUD, cached reads | cached reads follow writes |
| Schedules, overrides, validation | two collections | CRUD with overlap checks; `validateBookingTime` | schedules of a business disjoint, one override per date, bookings inside opening hours |
| Availability search | cached configuration | clip the dates to the schedule, then hours, sweep and buffers date by date | the answer offers exactly what could be booked; the configuration follows writes |
| Sessions and auth | `users`, `businesses`, a Redis session per user | three sign-ups, sign-in, logout, the guard of every request | emails unique; the newest token works and replaced ones do not; the session says what the user document says |
| Repositories, controllers, infrastructure | - | single calls and wiring | - |

Interactions: Booking calls validation, slot lock, its collection, the outbox
and the queue, and invalidates the cache. The outbox processor calls a webhook
over HTTP. The search reads the cached configuration, the calendar's documents
and the lock store. Every request but sign-up and sign-in passes the guard,
which reads the session.

The hard behaviours are the interleavings of booking requests over three stores
without a transaction, the half-failed `Promise.all`, duplicated and retried
jobs and worker crashes in the outbox, cache fills racing invalidations,
check-then-write of schedules, emails and session versions, and a search that
awaits one date after the other. `PROJECT.json` lists them one by one
("hazards"), each at its line with the properties that watch it.

## Modules

| Module | Models | Notes |
|---|---|---|
| `LockStore` | the two Redis keys, the acquire and swap scripts, `zRem`, `hDel` | operators on `zset`, `endTimes`; each command or script is atomic |
| `SlotLock` | `BookingLockService`: concurrent calls, each Redis round trip a step | EXTENDS `LockStore` |
| `SlotSweep` | `get-available-slots*.lua` | a fold over the bookings in the order of their start; EXTENDS `LockStore` |
| `OpeningHours` | `AvailabilityValidationService` on documents already read: hours of a date, buffers, validation of a booking time | operators only; used by `Availability` and `Search` |
| `Search` | `AvailabilitySearchService` beside the lock service and the owner of the calendar | composes `SlotLock`, `SlotSweep` and `OpeningHours` |
| `Booking` | the three handlers of `BookingService` over `LockStore`, the collection with its unique indexes, the events and the jobs | EXTENDS `LockStore` |
| `Calendar` | the abstract promise: reservations that never overlap | `Booking` implements it: `BookingCalendar` is its instance with the confirmed bookings that hold their slot as `reserved` |
| `Outbox` | handlers that store events, relay, queue, workers, crashes | |
| `Cache` | `fetch` and `invalidateByTag` with the Redis calls interleaved | keys and tags are constants |
| `CacheClients` | the keys and tags that the services build with `CacheKey` | operators only; they give `Cache` its constants |
| `Availability` | CRUD of schedules and overrides as read, validate, write; the queries for a date | EXTENDS `OpeningHours`; a query that may return several documents is a set of answers |
| `Sessions` | sign-ups, sign-in, logout, the guard, and the expiry of tokens and sessions | each awaited call is a step |
| `LockStoreProofs`, `SearchProofs`, `BookingProofs`, `RescheduleProofs` | the theorems about locks, searches and bookings | each EXTENDS the module it is about and the lemmas it needs: `LockStoreProofs` serves the other three, `SearchProofs` is about `Search` and the modules it composes, `RescheduleProofs` EXTENDS `BookingProofs` |
| `OutboxProofs`, `CacheProofs`, `AvailabilityProofs`, `SessionsProofs` | the theorems about the other components | `CacheProofs` joins `Cache` and `CacheClients` |
| `MCSearch`, `MCBooking`, `MCOutbox`, `MCCache`, `MCAvailability`, `MCSessions` | slots, symmetry and keys of the small instances | |

How state corresponds to code. `zset[d][b]` is the score of member `b` in
`bookings:<business>:<d>` and `endTimes[b]` its field in `booking_end_times`.
One business is enough: other businesses use other keys and other ids. In
`Booking`, `bookings[b]` is the document with `_id` b; `req`, `pc` and `tasks`
are the local state of a request: what it serves, where its handler waits, and
how far each branch of its `Promise.all` is. A request mints at most one id, so
requests and ids are one set. `Slots` are the times clients ask for, buffers
included; the guards on the service and on the owner of a booking refuse before
any write and have no effect. The opening-hours check is an arbitrary refusal
(`Refuse`). Times are integers: only their order matters. Documents in `Cache`
are reduced to whether a value read earlier is still what the database holds,
which needs no bound on writes. A key of `CacheClients` is a record of the
service, method, owner and item it was built from, since `CacheKey` joins these
parts without loss; a tag is a tuple. In `Sessions` a request mints at most one
user, so requests and user ids are one set too. History variables, which no
action reads, are `newest` and `past` in `Sessions`, `abandoned` in `Outbox`
(the events of workers that could not record their failure) and `overlapped`,
`exposed` and `lost` in `Cache` (what an overlap or a rejection may have hurt).
In `Search` `at`, `asked`, `date`, `hours` and `found` are the locals of a search;
`found` is `None` once something has changed while the search was under way, and
no property speaks of it then.

The scripts of Redis are modelled by what they do at the edges: the acquire
script's candidate scan includes bookings that start exactly at the new end, a
missing end time never conflicts in acquire and aborts the swap.

## Runs

| Run | Question | Outcome |
|---|---|---|
| `Search` | Do concurrent acquires, releases and swaps keep the lock store consistent, do the scripts offer exactly the free time, and does a search over several dates offer exactly what could be booked? | holds while the cached configuration is current |
| `SearchStale` | "no stale cache issues" (README.md:575): the same for every search? | violated: the configuration is never refreshed |
| `BookingCancel` | Are creates and cancels safe under every interleaving, when events or jobs are rejected and inserts refused? Do they implement `Calendar`? Does every lock end in a booking or a release? | holds for all bookings but those whose client was told of a failure |
| `BookingReschedule` | Are creates, cancels and chains of reschedules safe across days when no booking has two requests at once? | holds until someone cancels a booking that a reschedule has moved; that no id holds slots on two days holds beyond that |
| `BookingDouble` | "zero double-bookings" (README.md:221) with cancels as well? | violated: cancelling the old booking after its reschedule frees the new one's slot |
| `BookingLost` | "Zero lost bookings" (README.md:578)? | violated: a reschedule with a used idempotency key cancels the old booking and stores no new one |
| `Outbox` | Does "processed" imply delivered, is no event stranded, does every event settle? | holds for two failures; an event stays in processing only where markAsFailed was rejected too |
| `OutboxRetry` | "Reliable event delivery with retries" (README.md:246)? | violated: a failed event is never tried again |
| `Cache` | Are cached schedules and overrides what the database holds, and reachable by tag, with the keys and tags the services build, whatever overlaps and whichever call is rejected? | holds for all keys but those that an overlap or a rejection has just hurt |
| `Availability` | Are schedules disjoint, overrides unique per date, closures respected, accepted bookings inside the hours set by the owner, after any sequence of requests? | holds when requests on one collection are serial and no update activates a schedule without also touching its days or range |
| `OpenDays` | Is a business open on the days of its schedules (README.md:174)? | violated: with two schedules the lookup may return the wrong one |
| `Sessions` | Are emails unique, does the guard accept the newest token and none it replaced, does the session say what the user document says? | holds when requests of one account are serial and sessions outlive tokens |

Each violated property quotes a promise of the repository; PROJECT.json's
"findings" say where the code differs.

### Bounds, and why they are enough

- `Search`: two bookings, two callers besides the atomic acquires, three slots
  of which one overlaps another and touches the third; two dates from tomorrow
  on; a schedule that ends on the first date and one that does not, an override
  of the second, and their removal; a service with a buffer, a day of eight
  units; one search at a time, any number after one another. The resolver of the
  configuration compares instants and a schedule ends at midnight, so one that
  ends today is not found (`InForceNow`); hence the dates after today. Two
  bookings give a gap before, between and after them; a search only reads, so a
  second one beside it could share no more than the cached configuration. The
  sweep is also evaluated on its own in every state, with opening times that cut
  the first and the last slot and services of length 1 and 2, so that gaps
  before, between and after the bookings are too short, just long enough and
  longer.
- `BookingCancel`: three requests, two keys, two overlapping slots; `createEvent`
  and `enqueueJob` may be rejected any number of times, inserts are refused by
  the unique indexes. One create can be raced by a create and by a cancel of
  either, and its catch block by its own late insert. `InOrder` uses ids and keys
  in a fixed order, which every behaviour is up to a renaming (TLC may not use
  symmetry under liveness) and which delays arrivals only. The safety properties
  and the refinement are also proved for any number.
- `BookingReschedule`: four requests of any of the three kinds, three keys, two
  days: a create, a reschedule of it, an attempt to reschedule the result
  (refused by the lock service, whose entry has the old id) or a cancel of
  either booking, and a competing create. Two of its properties speak of the
  states where `MovedAreSpared`: nobody has yet cancelled a booking that a
  reschedule moved. All three are also proved for any number of requests.
- The slots of the booking runs start at different times where they overlap, so
  that MongoDB's unique index on `startsAt` cannot stand in for the lock.
- `Outbox`: two events, two workers, batches of one, so that the relay has to
  take turns; at most one waiting job per event, while a second one may be on a
  worker: copies of one event do run side by side. Two failures: a rejected call
  anywhere and a crash anywhere, or a second rejection in the `markAsFailed` that
  the first one led to (`FailuresMeet`). `MaxFaults` and `MaxCrashes`
  bound what really is unbounded: a second crash of the same job strands the
  event in processing, since BullMQ gives a stalled job one more chance only.
  For rejected calls `NoEventForgotten` has no bound.
- `Availability`: two schedules out of bounded, open-ended and overlapping
  bodies, two overrides, two requests, four dates of two days of the week, a
  day of four units. Disjointness is a matter of pairs; deletions are final.
- `Cache`: two fetchers, two writers and two keys, `getById` of a schedule and the
  list of overrides of one owner: they share the owner's tag and the module's,
  and add them in different orders, so that one invalidation can find a key in
  one set and not in the other. Any call may be rejected, any number of times;
  three of the four callers are under way at a time (`ThreeAtOnce`): two fetches
  of one key beside a writer, or two writers beside a fetch. The number of writes
  is not bounded. The catalogue of services has the shape of the overrides; the
  keys of bookings, which have the module's tag only, are covered by `ClientHits`.
- `Sessions`: five requests over two emails: a sign-up and four more calls, or
  two accounts side by side; each request may be any of the calls. A version
  is wrongly reused only after a session has gone, so three sign-ins with an
  expiry or a logout in between are enough.

`CHECK_DEADLOCK FALSE` is set where behaviours really end: all ids used up, all
callers idle, all events settled. `Cache` never stops and is checked for it.

### Fairness

`BookingCancel` assumes that every awaited call is answered (a handler that has
started goes on): weak fairness of the steps of each request, none of
arrivals. `Outbox` assumes that cron keeps calling the relay and that workers
keep running, nothing of the request handlers: one that stops after storing its
event is the case the relay exists for. Throwing and crashing are never fair.

## Proofs

Every theorem holds for every number of ids, days, slots, users, documents,
keys and concurrent callers, and for times that are any integers with start
before end. The constants are assumed to be no more than what `ASSUME` says in
the module that declares them (types, `None` outside the values, finitely
many ids where the sweep visits them, consecutive dates, services no longer than
a day, slots of different days apart); TLC evaluates these assumptions in the runs. What a
theorem needs besides is in its statement, mostly as a discipline of the
callers; the section after this one says what each leaves out. `BookingTypeOK`,
`Idempotent`, `Recorded`, `WritersFindCached`, `AcceptedLiesInHours`,
`EmailsAreUnique`, `SearchesOnlyRead`, `ProcessedOnlyIfDelivered` and all type
theorems but `SearchTypes` need none. The
invariants of the lock service, the bookings, the outbox, the cache, schedules
and sessions were checked by TLC on the component's run before they were proved;
those of the sweep and the search were not, as they quantify over all functions
or over times outside the small instance, but the properties they give were.

| Module | Theorems | Setting |
|---|---|---|
| `LockStoreProofs` | lemmas: each script and command preserves `SlotsDisjoint`, `HeldHasEnd`, `HeldOnce` | an acquired id holds nothing yet; `hDel` only after the id has left the sorted sets |
| `SearchProofs` | `TypeCorrect`, `SearchesOnlyRead` | any |
| | `LockSafety`, `EntriesHaveEnds`, `OneSlotEach`, `NothingStrays` | `SlotLock!Discipline`: no swaps; or swaps without releases, one call per booking; or both, one call per booking and slots of one day (the run `Search`) |
| | `SwapLosesNothing` | swaps only, one call per booking |
| | `SweepFindsFree`, `SweepFindsAll`, `OffersGranted`, `SearchTypes` | `Discipline` |
| | `SearchExact` | `Discipline`, `EndsBeforeMidnight` |
| `BookingProofs` | `BookingTypeOK`, `Idempotent` | any operations, any rejected calls |
| | `KeptApart`, `KeptIsLocked`, `NothingLeaked`, `Implements` | `CreateCancelOnly`: creates and cancels; `createEvent`, `enqueueJob` and inserts may be rejected (the run `BookingCancel`, where inserts only by the indexes) |
| | `NoOverlapEver` | the same, `createEvent` and `enqueueJob` succeed |
| | `Recorded` | any operations and interleaving, any rejected calls |
| `RescheduleProofs` | `SparedMovesNeverOverlap`, `SparedMovesAreLocked` | `OneAtATime`: all three handlers, `Exclusive`, inserts may be rejected (the run `BookingReschedule`, where only duplicates are) |
| | `MovesNeverOverlap`, `MovedIsLocked` | the same with creates and reschedules only; there the condition `MovedAreSpared` is always true |
| | `MovedHoldsOnce` | `Exclusive`; all three handlers, any rejected calls |
| `OutboxProofs` | `OutboxTypeOK`, `ProcessedOnlyIfDelivered` | any |
| | `NoEventForgotten` | up to the second crash; any rejected calls, those of `markAsFailed` included |
| `CacheProofs` | `CacheTypeOK` | any |
| | `WritersFindCached` | any |
| | `HitsAreMisses` | each key has the tag that the writers of what it reads invalidate (`TagsFollowReads`) |
| | `ClientTags` | any: a fact about the keys and tags the services build |
| | `ClientHits` | keys and tags of the services |
| `AvailabilityProofs` | `AvailabilityTypeOK`, `AcceptedLiesInHours` | any |
| | `SchedulesStayDisjoint` | `Serial`, `ActivationsValidated` |
| | `OneOverrideOfADate`, `ClosuresClose` | `Serial` |
| `SessionsProofs` | `SessionsTypeOK`, `EmailsAreUnique` | any |
| | `SignInIsKept` | `LongSessions` |
| | `SessionCarriesBusiness` | `Serial` |
| | `OlderTokensRefused` | both |

Hardly any of the properties is inductive. What had to be added, and why:

- Slot lock. An `hDel` is harmless only for an id that is in no sorted set, so
  `IInv` says that a releaser's id has left them (`ReleasedIsNowhere`), that a
  swap still finds the entry it read (`SwapSeesEntry`), and that entries stay on
  the day of the document where nothing moves them to another (`StaysHome`).
- Sweep. It is a fold over a set of bookings: a recursive function that TLA+
  defines by CHOOSE. `SweepExists` shows that such a function exists, for the
  subsets of at most n bookings and one n after the other; `SweepUnfolds` turns
  it into a loop, one booking in the order of start per turn. `SweepInv` is the
  invariant of that loop: the cursor is behind all visited bookings, each gap
  fits and meets none of them, each free time is in a gap or still ahead. The
  induction over the bookings takes a smallest set that fails (`MinimalSet`).
  That visiting in the order of start keeps the cursor right needs
  `SlotsDisjoint`, so the sweep rests on the lock service's discipline.
- Search. The lock service's invariant carries over because searches and the
  owner of the calendar leave its variables alone (`SearchesOnlyRead`).
  `SearchInv` says that a search under way has a configuration and a date within
  the range it works on; `ExactInv`, that on each date it has passed what it
  found is what the validation accepts and no booking occupies, provided nothing
  changed meanwhile. A step of the loop adds one date: the gaps of that date,
  exact by the sweep, less the buffers, are what `validateBookingTime` accepts
  (`EndsBeforeMidnight` is needed here: a slot that ends at 24:00 is offered as
  ending at 00:00).
- Creates and cancels. Between acquire and insert a slot is held by a booking
  that does not exist yet, and what keeps a second one out is its lock entry. So
  `IInv` says where each request is: which branches of its `Promise.all` are on,
  that a create has its entry from the acquire until it is refused, released in
  the catch block or cancelled, and that a cancel has a booking to cancel, whose
  document keeps its slot. A create whose `createEvent` or `enqueueJob` was
  rejected may have stored its booking, or store it after the catch block has
  released its slot (`booking.service.ts:97-149`): such a booking is `Disowned`
  and has no entry, all others are `Kept`. Then the entries are exactly the
  slots of kept bookings stored or about to be, and `SlotsDisjoint` carries
  over. For the refinement every step leaves `reserved` alone, reserves (the
  insert, whose slot was free because it was locked) or drops (the status
  update or the release, whichever is first, also that of the catch block).
- Types and idempotency of all three handlers need much less: `BaseInv` says
  that a request that may insert has a slot and a key, and one that may update
  has a booking that exists (`Equipped`). The unique index does the rest.
- Events need no discipline either: `RecordInv` says what a request has done by
  the state of its branches: a booking that exists was inserted by its request, a
  cancelled one was updated by some request, either starts its event in the same
  `Promise.all`, and a request succeeds only if that event was stored; create
  reaches its catch block only with a failed insert or one of the two rejections,
  which gives `NoOverlapEver` from `KeptApart`.
- Reschedules. The entry of a created booking stays under its id until a cancel
  releases it; a reschedule moves it to the new slot, where it protects the new
  booking under the old id. `MoveInv` says for whom each entry stands
  (`EntryKept`: the document of its booking, the request that moved it, or nobody
  once released), that it is moved at most once (`MovedOnce`), because the
  booking it came from is withdrawn by then or by the request that holds it
  (`UpdateWithdraws`, `InHand`), and that a booking made by a reschedule has no
  entry of its own: this is why chains of reschedules are refused, why they are
  safe, and why cancelling the new booking releases nothing. A cancel of the old
  booking breaks it (`BookingDouble`), so the invariant of the behaviours is
  `MovedAreSpared => MoveInv`; `SparedSoFar` shows that `MovedAreSpared`, once
  false, stays false, so that a state where it is true has had `MoveInv` all
  along.
- Entries on two days. `MovedHoldsOnce` needs neither `MovedAreSpared` nor
  successful calls: until its swap a reschedule is the only active request for
  its booking (`AskingAlone`), so the entry it looked up stays there
  (`FoundEntry`); with one entry at most to begin with, the swap takes it away
  and leaves one. An acquire is for an id without entries (`Unlocked`).
- Outbox. A worker about to mark an event has published it (`PublishedFirst`);
  a job that BullMQ will not queue again has been through a crash
  (`StallsFollowCrashes`), so that with one crash at most there still is a
  worker or a queued job for each event in processing. Where `markAsFailed` itself
  rejects (`process-outbox.processor.ts:58`), the job is over and the event is
  `abandoned` until another job takes it up.
- Cache. A key that no tag has lost is in all its tag sets or a fetch is still
  adding it (`RegisteredOrTagging`): this alone is `CachedIsRegistered`. So a
  write that begins beside no fetch of the key finds it there, and its
  invalidation has the key in hand until it deletes it (`WriterFinds`). A fetch
  beside no database write has read nothing outdated (`OverlapsSeen`,
  `GotFresh`), so an outdated key is exposed, lost or about to be deleted
  (`StaleIsDropped`). Nothing keeps fetches and writers apart; what their
  overlaps can hurt is said by the history variables: `exposed` has the keys set
  beside a database write and those a rejected invalidation left, `lost` those
  that came into a tag set between SMEMBERS and DEL and those whose fetch was
  rejected at its SET or a SADD. Both forget a key when it is deleted or set
  again. Without any one of these exemptions TLC finds a violation. `ClientTags`
  shows by cases over the four services that the writers' tags are among the
  fetchers', which discharges the assumption on tags.
- Availability. What a request has validated is still true at its write, since
  meanwhile the other documents can only have been deleted (`ScheduleInv`,
  `OverrideInv`). `AcceptedIsOpen` needs no history: it follows from what the
  query for a date can return and from the arithmetic of buffers.
- Sessions. `Base` ties a token and a session to the user they were made for;
  with requests of one account taken one at a time nobody else is between the
  read of the user or of the old version and the write of the session
  (`Alone`, `ReadFresh`, `VersionFresh`), and no token is above its session's
  version (`VersionsBelow`).

Only model-checked:

- Liveness (`SlotNotStranded`, `PendingIsTaken`, `EventSettles`): the prover has
  no rule for fairness and ENABLED.
- The violations: a counterexample of TLC is the proof.

Every invariant and the refinement that the passing runs check is stated by a
theorem; `NoDoubleBooking`, which the run `BookingDouble` refutes for all three
operations, is a theorem without cancels (`MovesNeverOverlap`) and without
reschedules (`NoOverlapEver`).

### What the disciplines leave out

Some passing runs hold under a discipline of the callers, or for less than every
booking, key or event, because the code has no defence beyond. The disciplines are
constants, so that the other case is one change of a .cfg away:

- `Faults` in `Booking`: the runs with reschedules reject inserts by the indexes
  only, and no run rejects an update or a release. A rejected `createEvent` or
  `enqueueJob` is in `BookingCancel`: create then gives back the slot of a stored
  booking, which stays confirmed and may be overlapped; `Kept` leaves it out.
- `Exclusive` in `Booking`: two reschedules of one booking hold two slots.
- `MovedAreSpared` in the `Spared` properties: cancelling the old booking of a
  reschedule removes the lock of the new one (`booking.service.ts:286`).
- `Serial` in `SlotLock` as `Search` uses it: the same for swaps and releases.
- `exposed` and `lost` in `Cache`: keys that are cached with an old value, or out
  of reach of their writers, until they are set again; nothing expires them.
- `abandoned` in `Outbox`: events that stay in processing because `markAsFailed`
  was rejected; the relay does not look at them.
- `Serial` in `Availability`: two validations pass before either write.
  `ActivationsValidated` (the constants of the run satisfy it, the theorem names
  it): an update that sets nothing but `isActive` is not validated
  (`availability-schedule.service.ts:185`) and may activate a schedule that
  overlaps another.
- `Serial` in `Sessions`: two sign-ins of one user at once give two tokens one
  version. `LongSessions`: with an `AUTH_SESSION_TTL` below the six days of a
  token (`.env.example` has seven days, the CI workflow one) a session that
  expires first lets the version start again while an older token is valid.
- `past` in `Sessions`: `OnlyNewestAccepted` leaves out tokens issued before
  the last logout, since a logout also restarts the version.

Properties have exceptions for the same reason, stated at each: `SearchIsExact`
speaks of searches during which nothing changed, of dates that the schedule
covers, and of services that with their buffers lie within one date; its theorem
adds `EndsBeforeMidnight`, since request bodies accept opening hours up to 24:00
and a slot that ends there is shown as ending at 00:00;
`OffersAreGranted` leaves out the slot that ends exactly where the next begins,
which the acquire script refuses (README.md:405-413 would accept it);
`HitEqualsMiss` speaks of the collections a key's own module writes, not of the
service names and prices that a cached booking carries along.

Hours are read from the database by every search; of the cached configuration
only the range of the schedule is used, and nothing reads its `overrideMap`,
which JSON turns into `{}`.

## Not modelled, and why

- A Redis restart: locks are only in Redis, nothing rebuilds them
  (`persistBooking` has no caller), so every property would simply end there.
- A crash of a request handler inside `BookingService`: same reason; a slot
  locked by a dead handler stays locked.
- Fees and refunds, mails, formatting: data without influence on control.
- Service names and prices inside cached bookings (`booking.service.ts:163`):
  no tag follows their writers, so they stay as they were first cached.
- Two first searches that fill the configuration's cache entry side by side:
  fetch and resolver are one step of `Search`; their races are in `Cache`.
- The roles guard, the admin lists and the discovery of businesses: they read a
  session or a collection and change nothing.
- `invalidate`, `invalidateByPrefix`, `listParams`, `persistBooking` and the
  update and delete of users have no caller.
- Controllers, DTO validation, rate limiting, health, seeding, HTTP client,
  database and queue libraries; BullMQ enters as an external queue with its
  default options.

## Plan

1. Done: the models of all components above, and proofs of every safety property
   and the refinement that a passing run checks.
2. Stay with TLC: liveness. Open for a proof: `LocksMatchBookings` beyond
   creates and cancels, which needs a statement of where the entry of a
   rescheduled booking is left after its cancel.
