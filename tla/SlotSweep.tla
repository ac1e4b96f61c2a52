------------------------------ MODULE SlotSweep ------------------------------
(***************************************************************************)
(* The availability search: get-available-slots.lua and its variant for a  *)
(* reschedule sweep the bookings of one sorted set in the order of their   *)
(* start and collect the gaps of the opening hours that fit a service.     *)
(* The scripts only read the lock store, so this module has operators and  *)
(* properties of its states; they are evaluated in the states of Search.   *)
(***************************************************************************)
EXTENDS LockStore, FiniteSets, Folds

CONSTANTS
    Openings,       \* [day, start, end]: the days searched, dayStart and dayEnd
    Needs           \* values of totalTimeNeeded

(* The sweep visits every booking of a sorted set. *)
ASSUME IdsAssumption == IsFiniteSet(Ids)

ASSUME OpeningsAssumption ==
    /\ \A o \in Openings : o.day \in Days /\ o.start \in Int /\ o.end \in Int
    /\ Needs \subseteq Nat \ {0}

Gap(from, until) == [start |-> from, end |-> until]

GapIfFits(from, until, need) ==
    IF until - from >= need THEN {Gap(from, until)} ELSE {}

(* One turn of the loop.  Its booking has an end time (HeldHasEnd); the    *)
(* script would abort on one without.  math.max(cursor, bookingEnd) is     *)
(* bookingEnd where the condition holds.                                   *)
Visit(d, need, b, sweep) ==
    IF endTimes[b] > sweep.cursor
    THEN [cursor |-> endTimes[b],
          gaps   |-> sweep.gaps \cup GapIfFits(sweep.cursor, zset[d][b], need)]
    ELSE sweep

(* Mutants: bookings that start in the day are not read; the time after    *)
(* the last booking is left out.                                           *)
SweepOfEarlyBookings(d, opens, closes, need, skip) ==
    LET last(S) == CHOOSE b \in S : \A c \in S : zset[d][c] <= zset[d][b]
        end == MapThenFoldSet(LAMBDA b, sweep : Visit(d, need, b, sweep),
                              [cursor |-> opens, gaps |-> {}],
                              LAMBDA b : b, last, StartsBy(d, opens) \ skip)
    IN  end.gaps \cup GapIfFits(end.cursor, closes, need)

SweepWithoutEvening(d, opens, closes, need, skip) ==
    LET last(S) == CHOOSE b \in S : \A c \in S : zset[d][c] <= zset[d][b]
    IN  MapThenFoldSet(LAMBDA b, sweep : Visit(d, need, b, sweep),
                       [cursor |-> opens, gaps |-> {}],
                       LAMBDA b : b, last, StartsBy(d, closes) \ skip).gaps

(* The gaps between opens and closes on day d that fit `need`; skip is the *)
(* booking that is being rescheduled, or nothing.  The fold visits the     *)
(* last booking last.                                                      *)
AvailableSlots(d, opens, closes, need, skip) ==
    LET last(S) == CHOOSE b \in S : \A c \in S : zset[d][c] <= zset[d][b]
        end == MapThenFoldSet(LAMBDA b, sweep : Visit(d, need, b, sweep),
                              [cursor |-> opens, gaps |-> {}],
                              LAMBDA b : b, last, StartsBy(d, closes) \ skip)
    IN  end.gaps \cup GapIfFits(end.cursor, closes, need)

-----------------------------------------------------------------------------
Exclusions == {{}} \cup {{b} : b \in Ids}

Free(d, skip, from, until) ==
    \A b \in HeldIds(d) \ skip : ~Overlap(Gap(from, until), Gap(zset[d][b], endTimes[b]))

(* What the search offers is free: a gap lies in the opening hours, fits   *)
(* the service and overlaps no booking.                                    *)
GapsAreFree ==
    \A o \in Openings, need \in Needs, skip \in Exclusions :
        \A g \in AvailableSlots(o.day, o.start, o.end, need, skip) :
            /\ o.start <= g.start /\ g.end <= o.end
            /\ g.end - g.start >= need
            /\ Free(o.day, skip, g.start, g.end)

(* And the search offers all of it: every free interval in the opening     *)
(* hours that fits the service lies in a gap.                              *)
GapsAreComplete ==
    \A o \in Openings, need \in Needs, skip \in Exclusions :
        LET gaps == AvailableSlots(o.day, o.start, o.end, need, skip)
        IN  \A t \in o.start..(o.end - need) :
                Free(o.day, skip, t, t + need)
                    => \E g \in gaps : g.start <= t /\ t + need <= g.end

(* Search and lock agree: a slot that starts in a gap and ends before the  *)
(* gap does is granted by the acquire script.  (One that ends exactly      *)
(* where the next booking starts is offered and refused: the candidates of *)
(* atomic-booking-lock.lua:7 include it.)                                  *)
OffersAreGranted ==
    \A o \in Openings, need \in Needs :
        \A g \in AvailableSlots(o.day, o.start, o.end, need, {}) :
            \A t \in g.start..(g.end - need - 1) :
                ~AcquireConflict([day |-> o.day, start |-> t, end |-> t + need])
=============================================================================
