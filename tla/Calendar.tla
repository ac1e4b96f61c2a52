------------------------------- MODULE Calendar -------------------------------
(***************************************************************************)
(* What a booking system promises of one business's time: a calendar of    *)
(* reservations, no two of which overlap.  A reservation is made only      *)
(* where the calendar is free, may move to a slot that is free of other    *)
(* reservations, and may be dropped.                                       *)
(***************************************************************************)
EXTENDS Integers

CONSTANTS Ids, Slots, None

VARIABLE reserved      \* reserved[b]: the slot [day, start, end] of b, or None

Overlapping(s, t) == s.day = t.day /\ s.start < t.end /\ t.start < s.end

FreeOfOthers(b, s) ==
    \A c \in Ids \ {b} : reserved[c] # None => ~Overlapping(s, reserved[c])

Init == reserved = [b \in Ids |-> None]

Reserve(b, s) ==
    /\ reserved[b] = None
    /\ FreeOfOthers(b, s)
    /\ reserved' = [reserved EXCEPT ![b] = s]

Move(b, s) ==
    /\ reserved[b] # None
    /\ FreeOfOthers(b, s)
    /\ reserved' = [reserved EXCEPT ![b] = s]

Drop(b) ==
    /\ reserved[b] # None
    /\ reserved' = [reserved EXCEPT ![b] = None]

Next ==
    \E b \in Ids :
        \/ \E s \in Slots : Reserve(b, s) \/ Move(b, s)
        \/ Drop(b)

Spec == Init /\ [][Next]_reserved
=============================================================================
