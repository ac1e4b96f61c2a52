SPECIFICATION Spec
CONSTANTS
    s1 = s1
    s2 = s2
    o1 = o1
    o2 = o2
    r1 = r1
    r2 = r2
    None = None
    Deleted = Deleted
    ScheduleIds = {s1, s2}
    OverrideIds = {o1, o2}
    Dates = {1, 2, 3, 4}
    WeekDays = {"mon", "tue"}
    WeekDay <- DayOfDate
    Schedules <- SomeSchedules
    Overrides <- SomeOverrides
    SchedulePatches <- SomePatches
    OverridePatches <- SomeOverridePatches
    DayLength = 4
    Services <- SomeServices
    Requests = {r1, r2}
    Serial = TRUE
CHECK_DEADLOCK FALSE
INVARIANT OpenOnScheduledDays
