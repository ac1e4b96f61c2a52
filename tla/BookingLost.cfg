SPECIFICATION Spec
CONSTANTS
    b1 = b1
    b2 = b2
    b3 = b3
    b4 = b4
    k1 = k1
    k2 = k2
    k3 = k3
    d1 = d1
    d2 = d2
    None = None
    Ids = {b1, b2}
    Days = {d1, d2}
    Keys = {k1, k2}
    Slots <- OverlappingSlots
    Ops = {"create", "reschedule"}
    Faults = {}
    Exclusive = TRUE
CHECK_DEADLOCK FALSE
INVARIANT NoBookingLost
SYMMETRY Symmetry
