---------------------------- MODULE CacheClients ----------------------------
(***************************************************************************)
(* The keys and tags that ServicesService, AvailabilityScheduleService,    *)
(* AvailabilityOverrideService and BookingService build with CacheKey:     *)
(* what their cached methods read and store, and what their writers        *)
(* invalidate.  The configuration that the search caches is in Search.     *)
(*                                                                         *)
(* A key is a record of the service, the method, and the owner and item    *)
(* that were set, or Unset.  Its text is the join of these parts, and their *)
(* tags are sequences of them.                                             *)
(***************************************************************************)
CONSTANTS
    Businesses, Clients,
    Items,          \* ids of documents that are fetched one by one
    Unset           \* no owner, no item

ASSUME UnsetAssumption == Unset \notin Businesses \cup Clients \cup Items

(* The services with documents of a business, and the bookings. *)
Owned == {"services", "schedules", "overrides"}

(* AppModules: schedules and overrides are one module. *)
ModuleOf(service) == IF service \in {"schedules", "overrides"} THEN "availability" ELSE service

GetMethodCk(service, method, owner, item) ==
    [service |-> service, method |-> method, owner |-> owner, item |-> item]

ModuleTag(ck) == <<ModuleOf(ck.service)>>

(* Mutant: the tag is made from the prefix, which has the method in it. *)
OwnerTagOfMethod(ck) == <<ModuleOf(ck.service), ck.service, ck.method, ck.owner>>

OwnerTag(ck) ==
    IF ck.owner # Unset THEN <<ModuleOf(ck.service), ck.owner>>
    ELSE <<ModuleOf(ck.service), ck.service, ck.method>>

-----------------------------------------------------------------------------
(* The cached methods *)

ListKeys == {GetMethodCk(s, "list", b, Unset) : s \in Owned, b \in Businesses}

GetByIdKeys == {GetMethodCk(s, "getById", b, i) : s \in Owned, b \in Businesses, i \in Items}

FindByIdKeys == {GetMethodCk("bookings", "findById", Unset, i) : i \in Items}

FindAllKeys == {GetMethodCk("bookings", "findAll", o, Unset) : o \in Clients \cup Businesses}

Keys == ListKeys \cup GetByIdKeys \cup FindByIdKeys \cup FindAllKeys

(* In the order in which fetch adds them. *)
FetchTags(ck) ==
    CASE ck.method = "findById" -> <<ModuleTag(ck)>>
      [] ck.method = "getById" -> <<ModuleTag(ck), OwnerTag(ck)>>
      [] OTHER -> <<OwnerTag(ck), ModuleTag(ck)>>

-----------------------------------------------------------------------------
(* What they read, and what the writers of it invalidate *)

Collection(service, owner) == [service |-> service, owner |-> owner]

AllCollections ==
    {Collection(s, b) : s \in Owned, b \in Businesses} \cup {Collection("bookings", Unset)}

(* Without the names and prices that the queries for bookings populate     *)
(* from other modules: no tag of a booking key follows their writers.      *)
Resolves(ck) ==
    IF ck.service = "bookings" THEN {Collection("bookings", Unset)}
    ELSE {Collection(ck.service, ck.owner)}

(* create, update and delete of a business's documents invalidate the      *)
(* owner's tag; create, cancel and reschedule of a booking the module's.   *)
WriterTag(c) ==
    IF c.service = "bookings" THEN ModuleTag(GetMethodCk("bookings", "cancel", Unset, Unset))
    ELSE OwnerTag(GetMethodCk(c.service, "update", c.owner, Unset))
=============================================================================
