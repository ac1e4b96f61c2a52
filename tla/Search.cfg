SPECIFICATION SearchSpec
CONSTANTS
    b1 = b1
    b2 = b2
    c1 = c1
    c2 = c2
    q1 = q1
    None = None
    Ids = {b1, b2}
    Callers = {c1, c2}
    Days = {1, 2}
    Slots <- SomeSlots
    Calls = {"release", "swap"}
    Serial = TRUE
    Openings <- SomeOpenings
    Needs = {1, 2}
    WeekDay <- DayOfDate
    DayLength = 8
    Services <- SomeServices
    Today = 0
    Schedules <- SomeSchedules
    Overrides <- SomeOverrides
    Searchers = {q1}
SYMMETRY Symmetry
CHECK_DEADLOCK FALSE
INVARIANTS SearchTypeOK SlotsDisjoint HeldHasEnd NoStrayEnd GapsAreFree GapsAreComplete OffersAreGranted SearchIsExact
