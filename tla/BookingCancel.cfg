SPECIFICATION FairSpec
CONSTANTS
    b1 = b1
    b2 = b2
    b3 = b3
    b4 = b4
    k1 = k1
    k2 = k2
    k3 = k3
    d1 = d1
    d2 = d2
    None = None
    Ids = {b1, b2, b3}
    Days = {d1, d2}
    Keys = {k1, k2}
    Slots <- OverlappingSlots
    Ops = {"create", "cancel"}
    Faults = {"event", "enqueue"}
    Exclusive = FALSE
ACTION_CONSTRAINT InOrder
CHECK_DEADLOCK FALSE
INVARIANTS TypeOK KeptNeverOverlap KeptHoldsSlot LocksMatchBookings OneBookingPerKey ChangesRecorded
PROPERTIES SlotNotStranded ImplementsCalendar
