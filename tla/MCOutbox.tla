------------------------------ MODULE MCOutbox ------------------------------
(* Outbox on small instances. *)
EXTENDS Outbox

CONSTANTS w1, w2

(* Bound: two things go wrong in a behaviour at most, rejected calls and   *)
(* crashes together, and a second call is rejected only where the first    *)
(* rejection led to it, in markAsFailed.  None of this is a fair action.   *)
FailuresMeet ==
    /\ faults' + crashes' <= 2
    /\ faults = 1 /\ faults' = 2 => abandoned' # {}
=============================================================================
