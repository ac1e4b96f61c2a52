-------------------------- MODULE AvailabilityProofs --------------------------
(***************************************************************************)
(* The opening hours of a business, for any dates, documents and requests. *)
(*                                                                         *)
(* Where requests on schedules, or on overrides, are taken one at a time,  *)
(* what a request has validated is still true when it writes: meanwhile    *)
(* the other documents can only be deleted (SchedulesAgree,                *)
(* OverridesAgree).  The schedules need one thing more: that no update     *)
(* makes a schedule active without touching its days or its range, since   *)
(* such an update is not validated (ActivationsValidated).                 *)
(***************************************************************************)
EXTENDS Availability, TLAPS

Disjoint ==
    \A s, t \in Active(schedules) : s # t => ~Overlaps(schedules[s], schedules[t])

(* The document with this id will be what request c expects, or is gone.   *)
Expected(collection, c) ==
    IF c.op = "create" THEN collection[c.id] = None /\ c.doc = c.body
    ELSE \/ collection[c.id] = Deleted
         \/ c.id \in Stored(collection) /\ c.doc = Apply(c.body, collection[c.id])

ScheduleAgrees(c, collection) ==
    /\ Expected(collection, c)
    /\ c.stage = "write" /\ c.doc.active =>
           \A s \in Active(collection) \ {c.id} : ~Overlaps(c.doc, collection[s])

SchedulesAgree ==
    \A r \in Requests : request[r] # None /\ request[r].kind = "schedule"
        => ScheduleAgrees(request[r], schedules)

OverrideAgrees(c, collection) ==
    /\ Expected(collection, c)
    /\ c.stage = "write" =>
           \A o \in Stored(collection) \ {c.id} : collection[o].date # c.doc.date

OverridesAgree ==
    \A r \in Requests : request[r] # None /\ request[r].kind = "override"
        => OverrideAgrees(request[r], overrides)

OneOfAKind ==
    \A q, r \in Requests :
        /\ request[q] # None /\ request[r] # None
        /\ request[q].kind = request[r].kind
        => q = r

ActivationsValidated ==
    \A p \in SchedulePatches :
        "active" \in DOMAIN p /\ p.active => DOMAIN p \cap {"days", "from", "until"} # {}

ScheduleInv == OneOfAKind /\ Disjoint /\ SchedulesAgree

OverrideInv == OneOfAKind /\ OneOverridePerDate /\ OverridesAgree

(* Updates are of documents that exist, or did. *)
Known ==
    \A r \in Requests : request[r] # None /\ request[r].op = "update" =>
        /\ request[r].kind = "schedule" => schedules[request[r].id] # None
        /\ request[r].kind = "override" => overrides[request[r].id] # None

Base == TypeOK /\ Known

-----------------------------------------------------------------------------
(* Operators *)

LEMMA ApplySchedule ==
  ASSUME NEW p \in SchedulePatches, NEW doc \in ScheduleDocs
  PROVE  /\ Apply(p, doc) \in ScheduleDocs
         /\ "days" \notin DOMAIN p => Apply(p, doc).days = doc.days
         /\ "from" \notin DOMAIN p => Apply(p, doc).from = doc.from
         /\ "until" \notin DOMAIN p => Apply(p, doc).until = doc.until
         /\ "active" \notin DOMAIN p => Apply(p, doc).active = doc.active
         /\ "active" \in DOMAIN p => Apply(p, doc).active = p.active
<1> DEFINE F == {"days", "hours", "from", "until", "active"}
<1>1. DOMAIN doc = F
  BY DEF ScheduleDocs
<1>2. Apply(p, doc) = [f \in F |-> IF f \in DOMAIN p THEN p[f] ELSE doc[f]]
  BY <1>1 DEF Apply
<1>3. \A f \in F : doc[f] \in ScheduleFields[f] /\ (f \in DOMAIN p => p[f] \in ScheduleFields[f])
  BY BodiesAssumption DEF ScheduleDocs, ScheduleFields
<1>4. \A f \in F : Apply(p, doc)[f] \in ScheduleFields[f]
  BY <1>2, <1>3
<1>5. Apply(p, doc) \in ScheduleDocs
  BY <1>2, <1>4 DEF ScheduleDocs
<1> QED BY <1>2, <1>5

LEMMA ApplyOverride ==
  ASSUME NEW p \in OverridePatches, NEW doc \in OverrideDocs
  PROVE  /\ Apply(p, doc) \in OverrideDocs
         /\ "date" \notin DOMAIN p => Apply(p, doc).date = doc.date
<1> DEFINE F == {"date", "type", "hours", "active"}
<1>1. DOMAIN doc = F
  BY DEF OverrideDocs
<1>2. Apply(p, doc) = [f \in F |-> IF f \in DOMAIN p THEN p[f] ELSE doc[f]]
  BY <1>1 DEF Apply
<1>3. \A f \in F : doc[f] \in OverrideFields[f] /\ (f \in DOMAIN p => p[f] \in OverrideFields[f])
  BY BodiesAssumption DEF OverrideDocs, OverrideFields
<1>4. \A f \in F : Apply(p, doc)[f] \in OverrideFields[f]
  BY <1>2, <1>3
<1>5. Apply(p, doc) \in OverrideDocs
  BY <1>2, <1>4 DEF OverrideDocs
<1> QED BY <1>2, <1>5

LEMMA CallTypes ==
  ASSUME NEW c \in Calls
  PROVE  /\ c.kind \in {"schedule", "override"} /\ c.op \in {"create", "update"}
         /\ c.stage \in {"validate", "write"}
         /\ c.kind = "schedule" =>
               /\ c.id \in ScheduleIds /\ c.doc \in ScheduleDocs
               /\ c.op = "create" => c.body \in Schedules
               /\ c.op = "update" => c.body \in SchedulePatches
         /\ c.kind = "override" =>
               /\ c.id \in OverrideIds /\ c.doc \in OverrideDocs
               /\ c.op = "create" => c.body \in Overrides
               /\ c.op = "update" => c.body \in OverridePatches
  BY DEF Calls, CallsOf

LEMMA NextStage ==
  ASSUME NEW c \in Calls
  PROVE  /\ [c EXCEPT !.stage = "write"] \in Calls
         /\ [c EXCEPT !.stage = "write"].stage = "write"
         /\ [c EXCEPT !.stage = "write"].kind = c.kind
         /\ [c EXCEPT !.stage = "write"].op = c.op
         /\ [c EXCEPT !.stage = "write"].id = c.id
         /\ [c EXCEPT !.stage = "write"].body = c.body
         /\ [c EXCEPT !.stage = "write"].doc = c.doc
  BY DEF Calls, CallsOf

LEMMA ScheduleTypes ==
  ASSUME TypeOK, NEW s \in Stored(schedules)
  PROVE  s \in ScheduleIds /\ schedules[s] \in ScheduleDocs
  BY DEF TypeOK, Stored

LEMMA OverrideTypes ==
  ASSUME TypeOK, NEW o \in Stored(overrides)
  PROVE  o \in OverrideIds /\ overrides[o] \in OverrideDocs
  BY DEF TypeOK, Stored

LEMMA ValidateType ==
  ASSUME TypeOK, NEW r \in Requests, request[r] # None, NEW conflict, Validate(r, conflict)
  PROVE  /\ TypeOK' /\ schedules' = schedules /\ overrides' = overrides
         /\ \A q \in Requests \ {r} : request'[q] = request[q]
         /\ IF conflict THEN request'[r] = None
                        ELSE request'[r] = [request[r] EXCEPT !.stage = "write"]
  BY NextStage DEF TypeOK, Validate, EndRequest

LEMMA BeginEffect ==
  ASSUME TypeOK, NEW r \in Requests, NEW kind, NEW op, NEW id, NEW body, NEW doc, NEW stage,
         Begin(r, kind, op, id, body, doc, stage),
         [kind |-> kind, op |-> op, id |-> id, body |-> body, doc |-> doc, stage |-> stage] \in Calls
  PROVE  /\ TypeOK' /\ schedules' = schedules /\ overrides' = overrides
         /\ request[r] = None
         /\ request'[r] = [kind |-> kind, op |-> op, id |-> id, body |-> body, doc |-> doc,
                           stage |-> stage]
         /\ \A q \in Requests \ {r} : request'[q] = request[q]
         /\ Serial => \A q \in Requests : request[q] # None => request[q].kind # kind
  BY DEF TypeOK, Begin

LEMMA EndEffect ==
  ASSUME TypeOK, NEW r \in Requests, EndRequest(r)
  PROVE  /\ request'[r] = None /\ \A q \in Requests \ {r} : request'[q] = request[q]
         /\ request' \in [Requests -> Calls \cup {None}]
  BY DEF TypeOK, EndRequest

LEMMA CreateScheduleBegins ==
  ASSUME TypeOK, NEW r \in Requests, NEW s \in ScheduleIds, NEW b \in Schedules,
         CreateSchedule(r, s, b)
  PROVE  /\ Begin(r, "schedule", "create", s, b, b, "validate") /\ schedules[s] = None
         /\ [kind |-> "schedule", op |-> "create", id |-> s, body |-> b, doc |-> b,
             stage |-> "validate"] \in Calls
  BY BodiesAssumption DEF CreateSchedule, Calls, CallsOf

LEMMA UpdateScheduleBegins ==
  ASSUME TypeOK, NEW r \in Requests, NEW s \in ScheduleIds, NEW p \in SchedulePatches,
         UpdateSchedule(r, s, p)
  PROVE  LET doc == Apply(p, schedules[s])
         IN  \E stage \in {"validate", "write"} :
                /\ Begin(r, "schedule", "update", s, p, doc, stage) /\ s \in Stored(schedules)
                /\ stage = "write" => ~doc.active \/ DOMAIN p \cap {"days", "from", "until"} = {}
                /\ [kind |-> "schedule", op |-> "update", id |-> s, body |-> p, doc |-> doc,
                    stage |-> stage] \in Calls
<1> DEFINE doc == Apply(p, schedules[s])
           stage == IF doc.active /\ DOMAIN p \cap {"days", "from", "until"} # {}
                    THEN "validate" ELSE "write"
<1>1. s \in Stored(schedules) /\ Begin(r, "schedule", "update", s, p, doc, stage)
  BY DEF UpdateSchedule
<1>2. doc \in ScheduleDocs
  BY <1>1, ScheduleTypes, ApplySchedule
<1>3. stage \in {"validate", "write"}
  OBVIOUS
<1>4. stage = "write" => ~doc.active \/ DOMAIN p \cap {"days", "from", "until"} = {}
  OBVIOUS
<1> HIDE DEF doc, stage
<1>5. [kind |-> "schedule", op |-> "update", id |-> s, body |-> p, doc |-> doc,
       stage |-> stage] \in Calls
  BY <1>2, <1>3 DEF Calls, CallsOf
<1> QED BY <1>1, <1>3, <1>4, <1>5 DEF doc

LEMMA CreateOverrideBegins ==
  ASSUME TypeOK, NEW r \in Requests, NEW o \in OverrideIds, NEW b \in Overrides,
         CreateOverride(r, o, b)
  PROVE  /\ Begin(r, "override", "create", o, b, b, "validate") /\ overrides[o] = None
         /\ [kind |-> "override", op |-> "create", id |-> o, body |-> b, doc |-> b,
             stage |-> "validate"] \in Calls
  BY BodiesAssumption DEF CreateOverride, Calls, CallsOf

LEMMA UpdateOverrideBegins ==
  ASSUME TypeOK, NEW r \in Requests, NEW o \in OverrideIds, NEW p \in OverridePatches,
         UpdateOverride(r, o, p)
  PROVE  LET doc == Apply(p, overrides[o])
         IN  \E stage \in {"validate", "write"} :
                /\ Begin(r, "override", "update", o, p, doc, stage) /\ o \in Stored(overrides)
                /\ stage = "write" => "date" \notin DOMAIN p
                /\ [kind |-> "override", op |-> "update", id |-> o, body |-> p, doc |-> doc,
                    stage |-> stage] \in Calls
<1> DEFINE doc == Apply(p, overrides[o])
           stage == IF "date" \in DOMAIN p THEN "validate" ELSE "write"
<1>1. o \in Stored(overrides) /\ Begin(r, "override", "update", o, p, doc, stage)
  BY DEF UpdateOverride
<1>2. doc \in OverrideDocs
  BY <1>1, OverrideTypes, ApplyOverride
<1>3. stage \in {"validate", "write"} /\ (stage = "write" => "date" \notin DOMAIN p)
  OBVIOUS
<1> HIDE DEF doc, stage
<1>5. [kind |-> "override", op |-> "update", id |-> o, body |-> p, doc |-> doc,
       stage |-> stage] \in Calls
  BY <1>2, <1>3 DEF Calls, CallsOf
<1> QED BY <1>1, <1>3, <1>5 DEF doc

LEMMA WriteScheduleEffect ==
  ASSUME Base, NEW r \in Requests, WriteSchedule(r)
  PROVE  LET c == request[r]
             new == IF c.op = "create" THEN c.body
                    ELSE IF schedules[c.id] = Deleted THEN Deleted
                    ELSE Apply(c.body, schedules[c.id])
         IN  /\ c \in Calls /\ c.kind = "schedule" /\ c.stage = "write"
             /\ c.id \in ScheduleIds
             /\ new \in ScheduleDocs \cup {Deleted}
             /\ schedules' = [schedules EXCEPT ![c.id] = new]
             /\ overrides' = overrides
             /\ EndRequest(r)
<1> DEFINE c == request[r]
           new == IF c.op = "create" THEN c.body
                  ELSE IF schedules[c.id] = Deleted THEN Deleted
                  ELSE Apply(c.body, schedules[c.id])
<1>1. c \in Calls /\ c.kind = "schedule" /\ c.stage = "write" /\ overrides' = overrides
      /\ EndRequest(r) /\ schedules' = Written(schedules, c)
  BY DEF WriteSchedule, At, Base, TypeOK
<1>2. c.id \in ScheduleIds /\ c.op \in {"create", "update"}
  BY <1>1, CallTypes
<1>3. new \in ScheduleDocs \cup {Deleted}
  <2>1. CASE c.op = "create"
    BY <1>1, <2>1, CallTypes, BodiesAssumption
  <2>2. CASE c.op = "update" /\ schedules[c.id] # Deleted
    <3>1. schedules[c.id] # None
      BY <1>1, <2>2, NoDocument DEF Base, Known
    <3>2. schedules[c.id] \in ScheduleDocs
      BY <1>2, <2>2, <3>1 DEF Base, TypeOK
    <3>3. c.body \in SchedulePatches
      BY <1>1, <2>2, CallTypes
    <3> QED BY <2>2, <3>2, <3>3, ApplySchedule
  <2> QED BY <1>2, <2>1, <2>2
<1>4. schedules' = [schedules EXCEPT ![c.id] = new]
  BY <1>1, <1>2 DEF Written, Base, TypeOK
<1> QED BY <1>1, <1>2, <1>3, <1>4

LEMMA WriteOverrideEffect ==
  ASSUME Base, NEW r \in Requests, WriteOverride(r)
  PROVE  LET c == request[r]
             new == IF c.op = "create" THEN c.body
                    ELSE IF overrides[c.id] = Deleted THEN Deleted
                    ELSE Apply(c.body, overrides[c.id])
         IN  /\ c \in Calls /\ c.kind = "override" /\ c.stage = "write"
             /\ c.id \in OverrideIds
             /\ new \in OverrideDocs \cup {Deleted}
             /\ overrides' = [overrides EXCEPT ![c.id] = new]
             /\ schedules' = schedules
             /\ EndRequest(r)
<1> DEFINE c == request[r]
           new == IF c.op = "create" THEN c.body
                  ELSE IF overrides[c.id] = Deleted THEN Deleted
                  ELSE Apply(c.body, overrides[c.id])
<1>1. c \in Calls /\ c.kind = "override" /\ c.stage = "write" /\ schedules' = schedules
      /\ EndRequest(r) /\ overrides' = Written(overrides, c)
  BY DEF WriteOverride, At, Base, TypeOK
<1>2. c.id \in OverrideIds /\ c.op \in {"create", "update"}
  BY <1>1, CallTypes
<1>3. new \in OverrideDocs \cup {Deleted}
  <2>1. CASE c.op = "create"
    BY <1>1, <2>1, CallTypes, BodiesAssumption
  <2>2. CASE c.op = "update" /\ overrides[c.id] # Deleted
    <3>1. overrides[c.id] # None
      BY <1>1, <2>2, NoDocument DEF Base, Known
    <3>2. overrides[c.id] \in OverrideDocs
      BY <1>2, <2>2, <3>1 DEF Base, TypeOK
    <3>3. c.body \in OverridePatches
      BY <1>1, <2>2, CallTypes
    <3> QED BY <2>2, <3>2, <3>3, ApplyOverride
  <2> QED BY <1>2, <2>1, <2>2
<1>4. overrides' = [overrides EXCEPT ![c.id] = new]
  BY <1>1, <1>2 DEF Written, Base, TypeOK
<1> QED BY <1>1, <1>2, <1>3, <1>4

-----------------------------------------------------------------------------
(* Types *)

LEMMA InitBase == Init => Base
  BY DEF Init, Base, TypeOK, Known

(* What keeps documents known: none becomes None again.                    *)
LEMMA StaysKnown ==
  ASSUME Base, TypeOK', NEW r \in Requests,
         \A q \in Requests \ {r} : request'[q] = request[q],
         \A s \in ScheduleIds : schedules[s] # None => schedules'[s] # None,
         \A o \in OverrideIds : overrides[o] # None => overrides'[o] # None,
         \/ request'[r] = None
         \/ /\ request[r] # None /\ request'[r].id = request[r].id
            /\ request'[r].op = request[r].op /\ request'[r].kind = request[r].kind
         \/ request'[r].op = "create"
         \/ request'[r].kind = "schedule" /\ schedules'[request'[r].id] # None
         \/ request'[r].kind = "override" /\ overrides'[request'[r].id] # None
  PROVE  Base'
<1> SUFFICES ASSUME NEW q \in Requests, request'[q] # None, request'[q].op = "update"
             PROVE  /\ request'[q].kind = "schedule" => schedules'[request'[q].id] # None
                    /\ request'[q].kind = "override" => overrides'[request'[q].id] # None
  BY DEF Base, Known
<1>1. request'[q] \in Calls
  BY DEF TypeOK
<1>2. /\ request'[q].kind = "schedule" => request'[q].id \in ScheduleIds
      /\ request'[q].kind = "override" => request'[q].id \in OverrideIds
      /\ request'[q].kind \in {"schedule", "override"}
  BY <1>1, CallTypes
<1>3. CASE q # r
  BY <1>2, <1>3 DEF Base, Known
<1>4. CASE q = r
  BY <1>2, <1>4 DEF Base, Known
<1> QED BY <1>3, <1>4

LEMMA NextBase ==
  ASSUME Base, [Next]_vars
  PROVE  Base'
<1>t. TypeOK
  BY DEF Base
<1>1. ASSUME NEW r \in Requests, NEW s \in ScheduleIds, NEW b \in Schedules, CreateSchedule(r, s, b)
      PROVE  Base'
  <2> DEFINE call == [kind |-> "schedule", op |-> "create", id |-> s, body |-> b, doc |-> b,
                      stage |-> "validate"]
  <2>1. Begin(r, "schedule", "create", s, b, b, "validate") /\ call \in Calls
    BY <1>t, <1>1, CreateScheduleBegins
  <2>2. /\ TypeOK' /\ schedules' = schedules /\ overrides' = overrides /\ request'[r] = call
        /\ \A q \in Requests \ {r} : request'[q] = request[q]
    BY <1>t, <2>1, BeginEffect
  <2>3. call.op = "create"
    OBVIOUS
  <2> HIDE DEF call
  <2> QED BY <2>2, <2>3, StaysKnown
<1>2. ASSUME NEW r \in Requests, NEW s \in ScheduleIds, NEW p \in SchedulePatches,
             UpdateSchedule(r, s, p)
      PROVE  Base'
  <2> DEFINE doc == Apply(p, schedules[s])
  <2>1. PICK stage \in {"validate", "write"} :
           /\ Begin(r, "schedule", "update", s, p, doc, stage) /\ s \in Stored(schedules)
           /\ [kind |-> "schedule", op |-> "update", id |-> s, body |-> p, doc |-> doc,
               stage |-> stage] \in Calls
    BY <1>t, <1>2, UpdateScheduleBegins
  <2> HIDE DEF doc
  <2>2. schedules[s] # None
    BY <2>1 DEF Stored
  <2> QED BY <1>t, <2>1, <2>2, BeginEffect, StaysKnown
<1>3. ASSUME NEW r \in Requests, NEW conflict, Validate(r, conflict), request[r] # None PROVE Base'
  <2>1. request[r] \in Calls
    BY <1>t, <1>3 DEF TypeOK
  <2> QED BY <1>t, <1>3, <2>1, ValidateType, NextStage, StaysKnown
<1>4. ASSUME NEW r \in Requests, WriteSchedule(r) PROVE Base'
  <2> DEFINE c == request[r]
             new == IF c.op = "create" THEN c.body
                    ELSE IF schedules[c.id] = Deleted THEN Deleted
                    ELSE Apply(c.body, schedules[c.id])
  <2>1. /\ c.id \in ScheduleIds /\ new \in ScheduleDocs \cup {Deleted}
        /\ schedules' = [schedules EXCEPT ![c.id] = new] /\ overrides' = overrides /\ EndRequest(r)
    BY <1>4, WriteScheduleEffect
  <2> HIDE DEF new
  <2>2. new # None
    BY <2>1, NoDocument
  <2>3. TypeOK'
    BY <1>t, <2>1, EndEffect DEF TypeOK
  <2>4. \A s \in ScheduleIds : schedules[s] # None => schedules'[s] # None
    BY <1>t, <2>1, <2>2 DEF TypeOK
  <2> QED BY <1>t, <2>1, <2>3, <2>4, EndEffect, StaysKnown
<1>5. ASSUME NEW r \in Requests, WriteOverride(r) PROVE Base'
  <2> DEFINE c == request[r]
             new == IF c.op = "create" THEN c.body
                    ELSE IF overrides[c.id] = Deleted THEN Deleted
                    ELSE Apply(c.body, overrides[c.id])
  <2>1. /\ c.id \in OverrideIds /\ new \in OverrideDocs \cup {Deleted}
        /\ overrides' = [overrides EXCEPT ![c.id] = new] /\ schedules' = schedules /\ EndRequest(r)
    BY <1>5, WriteOverrideEffect
  <2> HIDE DEF new
  <2>2. new # None
    BY <2>1, NoDocument
  <2>3. TypeOK'
    BY <1>t, <2>1, EndEffect DEF TypeOK
  <2>4. \A o \in OverrideIds : overrides[o] # None => overrides'[o] # None
    BY <1>t, <2>1, <2>2 DEF TypeOK
  <2> QED BY <1>t, <2>1, <2>3, <2>4, EndEffect, StaysKnown
<1>6. ASSUME NEW r \in Requests, NEW o \in OverrideIds, NEW b \in Overrides, CreateOverride(r, o, b)
      PROVE  Base'
  <2> DEFINE call == [kind |-> "override", op |-> "create", id |-> o, body |-> b, doc |-> b,
                      stage |-> "validate"]
  <2>1. Begin(r, "override", "create", o, b, b, "validate") /\ call \in Calls
    BY <1>t, <1>6, CreateOverrideBegins
  <2>2. /\ TypeOK' /\ schedules' = schedules /\ overrides' = overrides /\ request'[r] = call
        /\ \A q \in Requests \ {r} : request'[q] = request[q]
    BY <1>t, <2>1, BeginEffect
  <2>3. call.op = "create"
    OBVIOUS
  <2> HIDE DEF call
  <2> QED BY <2>2, <2>3, StaysKnown
<1>7. ASSUME NEW r \in Requests, NEW o \in OverrideIds, NEW p \in OverridePatches,
             UpdateOverride(r, o, p)
      PROVE  Base'
  <2> DEFINE doc == Apply(p, overrides[o])
  <2>1. PICK stage \in {"validate", "write"} :
           /\ Begin(r, "override", "update", o, p, doc, stage) /\ o \in Stored(overrides)
           /\ [kind |-> "override", op |-> "update", id |-> o, body |-> p, doc |-> doc,
               stage |-> stage] \in Calls
    BY <1>t, <1>7, UpdateOverrideBegins
  <2> HIDE DEF doc
  <2>2. overrides[o] # None
    BY <2>1 DEF Stored
  <2> QED BY <1>t, <2>1, <2>2, BeginEffect, StaysKnown
<1>8. ASSUME NEW s \in ScheduleIds, DeleteSchedule(s) PROVE Base'
  BY <1>8, NoDocument DEF DeleteSchedule, Base, TypeOK, Known
<1>9. ASSUME NEW o \in OverrideIds, DeleteOverride(o) PROVE Base'
  BY <1>9, NoDocument DEF DeleteOverride, Base, TypeOK, Known
<1>10. CASE UNCHANGED vars
  BY <1>10 DEF vars, Base, TypeOK, Known
<1>11. ASSUME NEW r \in Requests, ValidateNoOverlap(r) \/ ValidateNoExistingOverride(r) PROVE Base'
  BY <1>3, <1>11 DEF ValidateNoOverlap, ValidateNoExistingOverride, At
<1> QED BY <1>1, <1>2, <1>4, <1>5, <1>6, <1>7, <1>8, <1>9, <1>10, <1>11
        DEF Next, ScheduleSteps, OverrideSteps

THEOREM BaseHolds == Spec => []Base
  BY InitBase, NextBase, PTL DEF Spec

(* Every document keeps the fields of its schema, and every request works  *)
(* on a document of its own kind, however requests interleave.             *)
THEOREM AvailabilityTypeOK == Spec => []TypeOK
  BY BaseHolds, PTL DEF Base

-----------------------------------------------------------------------------
(* Requests one at a time *)

LEMMA NextOneOfAKind ==
  ASSUME Base, Serial, OneOfAKind, [Next]_vars
  PROVE  OneOfAKind'
<1>t. TypeOK
  BY DEF Base
<1>1. ASSUME NEW r \in Requests, NEW kind, NEW op, NEW id, NEW body, NEW doc, NEW stage,
             Begin(r, kind, op, id, body, doc, stage)
      PROVE  OneOfAKind'
  <2>1. /\ request'[r].kind = kind /\ \A q \in Requests \ {r} : request'[q] = request[q]
        /\ \A q \in Requests : request[q] # None => request[q].kind # kind
    BY <1>t, <1>1 DEF Begin, TypeOK
  <2> QED BY <2>1 DEF OneOfAKind
<1>2. ASSUME NEW r \in Requests, NEW conflict, Validate(r, conflict), request[r] # None
      PROVE  OneOfAKind'
  <2>1. request[r] \in Calls
    BY <1>t, <1>2 DEF TypeOK
  <2>2. /\ \A q \in Requests \ {r} : request'[q] = request[q]
        /\ request'[r] # None => request'[r].kind = request[r].kind
    BY <1>t, <1>2, <2>1, ValidateType, NextStage
  <2> QED BY <1>2, <2>2 DEF OneOfAKind
<1>3. ASSUME NEW r \in Requests, EndRequest(r) PROVE OneOfAKind'
  BY <1>t, <1>3, EndEffect DEF OneOfAKind
<1>4. CASE request' = request
  BY <1>4 DEF OneOfAKind
<1>5. CASE \E r \in Requests, s \in ScheduleIds, b \in Schedules : CreateSchedule(r, s, b)
  BY <1>1, <1>5 DEF CreateSchedule
<1>6. CASE \E r \in Requests, s \in ScheduleIds, p \in SchedulePatches : UpdateSchedule(r, s, p)
  BY <1>t, <1>1, <1>6, UpdateScheduleBegins
<1>7. CASE \E r \in Requests, o \in OverrideIds, b \in Overrides : CreateOverride(r, o, b)
  BY <1>1, <1>7 DEF CreateOverride
<1>8. CASE \E r \in Requests, o \in OverrideIds, p \in OverridePatches : UpdateOverride(r, o, p)
  BY <1>t, <1>1, <1>8, UpdateOverrideBegins
<1>9. CASE \E r \in Requests : ValidateNoOverlap(r) \/ ValidateNoExistingOverride(r)
  BY <1>2, <1>9 DEF ValidateNoOverlap, ValidateNoExistingOverride, At
<1>10. CASE \E r \in Requests : WriteSchedule(r) \/ WriteOverride(r)
  BY <1>3, <1>10 DEF WriteSchedule, WriteOverride
<1> QED BY <1>4, <1>5, <1>6, <1>7, <1>8, <1>9, <1>10
        DEF Next, ScheduleSteps, OverrideSteps, DeleteSchedule, DeleteOverride, vars

LEMMA InActive ==
  ASSUME NEW collection, NEW id
  PROVE  id \in Active(collection) <=> /\ id \in DOMAIN collection
                                      /\ collection[id] \notin {None, Deleted}
                                      /\ collection[id].active
  BY DEF Active, Stored

LEMMA ActiveTypes ==
  ASSUME TypeOK, NEW s \in Active(schedules)
  PROVE  s \in ScheduleIds /\ schedules[s] \in ScheduleDocs /\ schedules[s].active
  BY ScheduleTypes DEF Active

LEMMA OverlapsBothWays ==
  ASSUME NEW s, NEW t
  PROVE  Overlaps(s, t) <=> Overlaps(t, s)
  BY DEF Overlaps

-----------------------------------------------------------------------------
(* Schedules *)

(* A step that leaves the schedules alone, and gives request r its new     *)
(* state, keeps the invariant if that state agrees with them.              *)
LEMMA RequestAgrees ==
  ASSUME Disjoint, SchedulesAgree, schedules' = schedules, NEW r \in Requests,
         \A q \in Requests \ {r} : request'[q] = request[q],
         request'[r] # None /\ request'[r].kind = "schedule" => ScheduleAgrees(request'[r], schedules)
  PROVE  Disjoint' /\ SchedulesAgree'
  BY DEF Disjoint, SchedulesAgree

LEMMA CreateScheduleAgrees ==
  ASSUME TypeOK, Disjoint, SchedulesAgree, NEW r \in Requests, NEW s \in ScheduleIds,
         NEW b \in Schedules, CreateSchedule(r, s, b)
  PROVE  Disjoint' /\ SchedulesAgree'
<1> DEFINE call == [kind |-> "schedule", op |-> "create", id |-> s, body |-> b, doc |-> b,
                    stage |-> "validate"]
<1>1. Begin(r, "schedule", "create", s, b, b, "validate") /\ call \in Calls /\ schedules[s] = None
  BY CreateScheduleBegins
<1>2. /\ schedules' = schedules /\ request'[r] = call
      /\ \A q \in Requests \ {r} : request'[q] = request[q]
  BY <1>1, BeginEffect
<1>3. ScheduleAgrees(call, schedules)
  BY <1>1 DEF ScheduleAgrees, Expected
<1> HIDE DEF call
<1> QED BY <1>2, <1>3, RequestAgrees

LEMMA UpdateScheduleAgrees ==
  ASSUME TypeOK, Disjoint, SchedulesAgree, ActivationsValidated, NEW r \in Requests,
         NEW s \in ScheduleIds, NEW p \in SchedulePatches, UpdateSchedule(r, s, p)
  PROVE  Disjoint' /\ SchedulesAgree'
<1> DEFINE doc == Apply(p, schedules[s])
<1>1. PICK stage \in {"validate", "write"} :
         /\ Begin(r, "schedule", "update", s, p, doc, stage) /\ s \in Stored(schedules)
         /\ stage = "write" => ~doc.active \/ DOMAIN p \cap {"days", "from", "until"} = {}
         /\ [kind |-> "schedule", op |-> "update", id |-> s, body |-> p, doc |-> doc,
             stage |-> stage] \in Calls
  BY UpdateScheduleBegins
<1> DEFINE call == [kind |-> "schedule", op |-> "update", id |-> s, body |-> p, doc |-> doc,
                    stage |-> stage]
<1>2. /\ schedules' = schedules /\ request'[r] = call
      /\ \A q \in Requests \ {r} : request'[q] = request[q]
  <2> HIDE DEF doc
  <2> QED BY <1>1, BeginEffect
<1>3. schedules[s] \in ScheduleDocs
  BY <1>1, ScheduleTypes
<1>4. ASSUME stage = "write", doc.active, NEW t \in Active(schedules) \ {s}
      PROVE  ~Overlaps(doc, schedules[t])
  <2>1. "days" \notin DOMAIN p /\ "from" \notin DOMAIN p /\ "until" \notin DOMAIN p
    BY <1>1, <1>4
  <2>2. doc.days = schedules[s].days /\ doc.from = schedules[s].from /\ doc.until = schedules[s].until
    BY <1>3, <2>1, ApplySchedule
  <2>3. "active" \in DOMAIN p => ~p.active
    BY <2>1 DEF ActivationsValidated
  <2>4. "active" \in DOMAIN p => doc.active = p.active
    BY <1>3, ApplySchedule
  <2>5. "active" \notin DOMAIN p
    BY <1>4, <2>3, <2>4
  <2>6. doc.active = schedules[s].active
    BY <1>3, <2>5, ApplySchedule
  <2>7. s \in Active(schedules)
    BY <1>1, <1>4, <2>6 DEF Active
  <2>8. ~Overlaps(schedules[s], schedules[t])
    BY <1>4, <2>7 DEF Disjoint
  <2> HIDE DEF doc
  <2> QED BY <2>2, <2>8 DEF Overlaps
<1>5. ScheduleAgrees(call, schedules)
  BY <1>1, <1>4 DEF ScheduleAgrees, Expected
<1> HIDE DEF call
<1> QED BY <1>2, <1>5, RequestAgrees

LEMMA ValidateScheduleAgrees ==
  ASSUME TypeOK, Disjoint, SchedulesAgree, NEW r \in Requests, ValidateNoOverlap(r)
  PROVE  Disjoint' /\ SchedulesAgree'
<1> DEFINE c == request[r]
           conflict == \E s \in Active(schedules) \ {c.id} : Overlaps(c.doc, schedules[s])
<1>1. c # None /\ c.kind = "schedule" /\ Validate(r, conflict) /\ c \in Calls
  BY DEF ValidateNoOverlap, At, TypeOK
<1>2. /\ schedules' = schedules /\ \A q \in Requests \ {r} : request'[q] = request[q]
      /\ IF conflict THEN request'[r] = None ELSE request'[r] = [c EXCEPT !.stage = "write"]
  <2> HIDE DEF conflict
  <2> QED BY <1>1, ValidateType
<1>3. ASSUME ~conflict PROVE ScheduleAgrees([c EXCEPT !.stage = "write"], schedules)
  <2>1. ScheduleAgrees(c, schedules)
    BY <1>1 DEF SchedulesAgree
  <2> DEFINE d == [c EXCEPT !.stage = "write"]
  <2>2. d.op = c.op /\ d.id = c.id /\ d.doc = c.doc /\ d.body = c.body
    BY <1>1, NextStage
  <2> HIDE DEF d
  <2> QED BY <1>3, <2>1, <2>2 DEF ScheduleAgrees, Expected
<1> HIDE DEF conflict
<1> QED BY <1>2, <1>3, RequestAgrees

LEMMA WriteScheduleAgrees ==
  ASSUME Base, OneOfAKind, Disjoint, SchedulesAgree, NEW r \in Requests, WriteSchedule(r)
  PROVE  Disjoint' /\ SchedulesAgree'
<1> DEFINE c == request[r]
           new == IF c.op = "create" THEN c.body
                  ELSE IF schedules[c.id] = Deleted THEN Deleted
                  ELSE Apply(c.body, schedules[c.id])
<1>t. TypeOK
  BY DEF Base
<1>1. /\ c \in Calls /\ c.kind = "schedule" /\ c.stage = "write" /\ c.id \in ScheduleIds
      /\ schedules' = [schedules EXCEPT ![c.id] = new] /\ EndRequest(r)
  BY WriteScheduleEffect
<1>2. c # None /\ ScheduleAgrees(c, schedules)
  BY <1>1, NoDocument DEF SchedulesAgree
<1>3. new = Deleted \/ new = c.doc
  BY <1>2 DEF ScheduleAgrees, Expected
<1> HIDE DEF new
<1>4. request'[r] = None /\ \A q \in Requests \ {r} : request'[q] = request[q]
  BY <1>t, <1>1, EndEffect
<1>5. SchedulesAgree'
  BY <1>1, <1>2, <1>4 DEF SchedulesAgree, OneOfAKind
<1>6. /\ schedules'[c.id] = new /\ \A s \in ScheduleIds \ {c.id} : schedules'[s] = schedules[s]
      /\ DOMAIN schedules' = ScheduleIds /\ DOMAIN schedules = ScheduleIds
  BY <1>t, <1>1 DEF TypeOK
<1>7. \A s \in Active(schedules') : s # c.id => s \in Active(schedules)
  BY <1>6, InActive
<1>8. \A s \in Active(schedules') : s \in ScheduleIds
  BY <1>6, InActive
<1>9. c.id \in Active(schedules') => new = c.doc /\ c.doc.active
  BY <1>3, <1>6, InActive
<1>10. ASSUME NEW s \in Active(schedules'), s # c.id, c.id \in Active(schedules')
       PROVE  ~Overlaps(c.doc, schedules[s])
  BY <1>1, <1>2, <1>7, <1>9, <1>10 DEF ScheduleAgrees
<1>11. Disjoint'
  <2> SUFFICES ASSUME NEW s \in Active(schedules'), NEW t \in Active(schedules'), s # t
               PROVE  ~Overlaps(schedules'[s], schedules'[t])
    BY DEF Disjoint, Overlaps
  <2>1. CASE s = c.id
    BY <1>6, <1>8, <1>9, <1>10, <2>1
  <2>2. CASE t = c.id
    BY <1>6, <1>8, <1>9, <1>10, <2>2, OverlapsBothWays
  <2>3. CASE s # c.id /\ t # c.id
    BY <1>6, <1>7, <1>8, <2>3 DEF Disjoint
  <2> QED BY <2>1, <2>2, <2>3
<1> QED BY <1>5, <1>11

LEMMA DeleteScheduleAgrees ==
  ASSUME TypeOK, Disjoint, SchedulesAgree, NEW s \in ScheduleIds, DeleteSchedule(s)
  PROVE  Disjoint' /\ SchedulesAgree'
<1>1. /\ schedules'[s] = Deleted /\ \A t \in ScheduleIds \ {s} : schedules'[t] = schedules[t]
      /\ DOMAIN schedules' = ScheduleIds /\ DOMAIN schedules = ScheduleIds
      /\ request' = request /\ schedules[s] # None
  BY DEF DeleteSchedule, TypeOK, Stored
<1>2. \A t : t \in Active(schedules)' => /\ t \in Active(schedules) /\ t \in ScheduleIds
                                         /\ schedules'[t] = schedules[t]
  BY <1>1 DEF Active, Stored
<1>3. Disjoint'
  BY <1>2 DEF Disjoint, Overlaps
<1>4. SchedulesAgree'
  <2> SUFFICES ASSUME NEW r \in Requests, request[r] # None, request[r].kind = "schedule"
               PROVE  ScheduleAgrees(request[r], schedules')
    BY <1>1 DEF SchedulesAgree
  <2> DEFINE c == request[r]
  <2>1. c.id \in ScheduleIds /\ ScheduleAgrees(c, schedules)
    BY CallTypes DEF TypeOK, SchedulesAgree
  <2>2. Expected(schedules', c)
    <3>1. CASE c.id = s
      BY <1>1, <2>1, <3>1 DEF ScheduleAgrees, Expected
    <3>2. CASE c.id # s
      BY <1>1, <2>1, <3>2 DEF ScheduleAgrees, Expected, Stored
    <3> QED BY <3>1, <3>2
  <2>3. \A t \in Active(schedules') : t \in Active(schedules) /\ schedules'[t] = schedules[t]
    BY <1>1 DEF Active, Stored
  <2> QED BY <2>1, <2>2, <2>3 DEF ScheduleAgrees, Overlaps
<1> QED BY <1>3, <1>4

LEMMA InitScheduleInv == Init => ScheduleInv
  BY DEF Init, ScheduleInv, OneOfAKind, Disjoint, SchedulesAgree, Active, Stored

LEMMA NextScheduleInv ==
  ASSUME Base, ScheduleInv, Serial, ActivationsValidated, [Next]_vars
  PROVE  ScheduleInv'
<1>t. TypeOK /\ OneOfAKind /\ Disjoint /\ SchedulesAgree
  BY DEF Base, ScheduleInv
<1>1. Disjoint' /\ SchedulesAgree'
  <2>1. CASE ScheduleSteps
    BY <1>t, <2>1, CreateScheduleAgrees, UpdateScheduleAgrees, ValidateScheduleAgrees,
       WriteScheduleAgrees, DeleteScheduleAgrees DEF ScheduleSteps
  <2>2. ASSUME NEW r \in Requests, NEW o \in OverrideIds, NEW b \in Overrides, CreateOverride(r, o, b)
        PROVE  Disjoint' /\ SchedulesAgree'
    <3>1. /\ schedules' = schedules /\ request'[r].kind = "override"
          /\ \A q \in Requests \ {r} : request'[q] = request[q]
      BY <1>t, <2>2 DEF CreateOverride, Begin, TypeOK
    <3> QED BY <1>t, <3>1, RequestAgrees
  <2>3. ASSUME NEW r \in Requests, NEW o \in OverrideIds, NEW p \in OverridePatches,
               UpdateOverride(r, o, p)
        PROVE  Disjoint' /\ SchedulesAgree'
    <3>1. /\ schedules' = schedules /\ request'[r].kind = "override"
          /\ \A q \in Requests \ {r} : request'[q] = request[q]
      BY <1>t, <2>3 DEF UpdateOverride, Begin, TypeOK
    <3> QED BY <1>t, <3>1, RequestAgrees
  <2>4. ASSUME NEW r \in Requests, ValidateNoExistingOverride(r) PROVE Disjoint' /\ SchedulesAgree'
    <3>1. request[r] # None /\ request[r].kind = "override" /\ request[r] \in Calls
      BY <1>t, <2>4 DEF ValidateNoExistingOverride, At, TypeOK
    <3>2. PICK conflict : Validate(r, conflict)
      BY <2>4 DEF ValidateNoExistingOverride
    <3>3. /\ schedules' = schedules /\ \A q \in Requests \ {r} : request'[q] = request[q]
          /\ request'[r] # None => request'[r].kind = "override"
      BY <1>t, <3>1, <3>2, ValidateType, NextStage
    <3> QED BY <1>t, <3>3, RequestAgrees
  <2>5. ASSUME NEW r \in Requests, WriteOverride(r) PROVE Disjoint' /\ SchedulesAgree'
    BY <1>t, <2>5, EndEffect, RequestAgrees DEF WriteOverride
  <2>6. CASE UNCHANGED <<schedules, request>>
    BY <1>t, <2>6 DEF Disjoint, SchedulesAgree
  <2> QED BY <2>1, <2>2, <2>3, <2>4, <2>5, <2>6 DEF Next, OverrideSteps, DeleteOverride, vars
<1> QED BY <1>t, <1>1, NextOneOfAKind DEF ScheduleInv

THEOREM ScheduleInvHolds == Spec => [](Serial /\ ActivationsValidated => ScheduleInv)
<1>1. Base /\ (Serial /\ ActivationsValidated => ScheduleInv) /\ [Next]_vars
        => (Serial /\ ActivationsValidated => ScheduleInv)'
  BY NextScheduleInv DEF ActivationsValidated
<1> QED BY <1>1, InitScheduleInv, BaseHolds, PTL DEF Spec

(* No two active schedules ever cover one date, for any ranges, bounded or *)
(* not: where requests on schedules are taken one at a time and every      *)
(* update that activates a schedule also touches its days or its range.    *)
THEOREM SchedulesStayDisjoint ==
  Spec => [](Serial /\ ActivationsValidated => SchedulesDisjoint)
<1>1. TypeOK /\ Disjoint => SchedulesDisjoint
  <2> SUFFICES ASSUME TypeOK, Disjoint, NEW s \in ScheduleIds, NEW t \in ScheduleIds,
                      NEW d \in Dates, Covers(s, d), Covers(t, d), s # t
               PROVE  FALSE
    BY DEF SchedulesDisjoint
  <2>1. s \in Active(schedules) /\ t \in Active(schedules)
    BY DEF Covers
  <2>2. /\ schedules[s].from \in Int /\ schedules[s].until \in Int \cup {None}
        /\ schedules[t].from \in Int /\ schedules[t].until \in Int \cup {None} /\ d \in Int
    BY <2>1, ActiveTypes, DatesAssumption DEF ScheduleDocs, ScheduleFields
  <2>3. WeekDay[d] \in schedules[s].days \cap schedules[t].days
    BY DEF Covers
  <2>4. schedules[s].until = None \/ schedules[t].from <= schedules[s].until
    BY <2>2 DEF Covers
  <2>5. schedules[t].until = None \/ schedules[s].from <= schedules[t].until
    BY <2>2 DEF Covers
  <2>6. Overlaps(schedules[s], schedules[t])
    BY <2>3, <2>4, <2>5 DEF Overlaps
  <2> QED BY <2>1, <2>6 DEF Disjoint
<1> QED BY <1>1, ScheduleInvHolds, AvailabilityTypeOK, PTL DEF ScheduleInv

-----------------------------------------------------------------------------
(* Overrides *)

LEMMA InStored ==
  ASSUME NEW collection, NEW id
  PROVE  id \in Stored(collection) <=> id \in DOMAIN collection /\ collection[id] \notin {None, Deleted}
  BY DEF Stored

LEMMA RequestAgreesToo ==
  ASSUME OneOverridePerDate, OverridesAgree, overrides' = overrides, NEW r \in Requests,
         \A q \in Requests \ {r} : request'[q] = request[q],
         request'[r] # None /\ request'[r].kind = "override" => OverrideAgrees(request'[r], overrides)
  PROVE  OneOverridePerDate' /\ OverridesAgree'
  BY DEF OneOverridePerDate, OverridesAgree

LEMMA CreateOverrideAgrees ==
  ASSUME TypeOK, OneOverridePerDate, OverridesAgree, NEW r \in Requests, NEW o \in OverrideIds,
         NEW b \in Overrides, CreateOverride(r, o, b)
  PROVE  OneOverridePerDate' /\ OverridesAgree'
<1> DEFINE call == [kind |-> "override", op |-> "create", id |-> o, body |-> b, doc |-> b,
                    stage |-> "validate"]
<1>1. Begin(r, "override", "create", o, b, b, "validate") /\ call \in Calls /\ overrides[o] = None
  BY CreateOverrideBegins
<1>2. /\ overrides' = overrides /\ request'[r] = call
      /\ \A q \in Requests \ {r} : request'[q] = request[q]
  BY <1>1, BeginEffect
<1>3. OverrideAgrees(call, overrides)
  BY <1>1 DEF OverrideAgrees, Expected
<1> HIDE DEF call
<1> QED BY <1>2, <1>3, RequestAgreesToo

LEMMA UpdateOverrideAgrees ==
  ASSUME TypeOK, OneOverridePerDate, OverridesAgree, NEW r \in Requests,
         NEW o \in OverrideIds, NEW p \in OverridePatches, UpdateOverride(r, o, p)
  PROVE  OneOverridePerDate' /\ OverridesAgree'
<1> DEFINE doc == Apply(p, overrides[o])
<1>1. PICK stage \in {"validate", "write"} :
         /\ Begin(r, "override", "update", o, p, doc, stage) /\ o \in Stored(overrides)
         /\ stage = "write" => "date" \notin DOMAIN p
         /\ [kind |-> "override", op |-> "update", id |-> o, body |-> p, doc |-> doc,
             stage |-> stage] \in Calls
  BY UpdateOverrideBegins
<1> DEFINE call == [kind |-> "override", op |-> "update", id |-> o, body |-> p, doc |-> doc,
                    stage |-> stage]
<1>2. /\ overrides' = overrides /\ request'[r] = call
      /\ \A q \in Requests \ {r} : request'[q] = request[q]
  <2> HIDE DEF doc
  <2> QED BY <1>1, BeginEffect
<1>3. stage = "write" => doc.date = overrides[o].date
  BY <1>1, OverrideTypes, ApplyOverride
<1>4. stage = "write" => \A x \in Stored(overrides) \ {o} : overrides[x].date # doc.date
  <2> HIDE DEF doc
  <2> QED BY <1>1, <1>3 DEF OneOverridePerDate
<1>5. OverrideAgrees(call, overrides)
  BY <1>1, <1>4 DEF OverrideAgrees, Expected
<1> HIDE DEF call
<1> QED BY <1>2, <1>5, RequestAgreesToo

LEMMA ValidateOverrideAgrees ==
  ASSUME TypeOK, OneOverridePerDate, OverridesAgree, NEW r \in Requests,
         ValidateNoExistingOverride(r)
  PROVE  OneOverridePerDate' /\ OverridesAgree'
<1> DEFINE c == request[r]
           conflict == OverridesOn(c.doc.date) \ {c.id} # {}
<1>1. c # None /\ c.kind = "override" /\ Validate(r, conflict) /\ c \in Calls
  BY DEF ValidateNoExistingOverride, At, TypeOK
<1>2. /\ overrides' = overrides /\ \A q \in Requests \ {r} : request'[q] = request[q]
      /\ IF conflict THEN request'[r] = None ELSE request'[r] = [c EXCEPT !.stage = "write"]
  <2> HIDE DEF conflict
  <2> QED BY <1>1, ValidateType
<1>3. ASSUME ~conflict PROVE OverrideAgrees([c EXCEPT !.stage = "write"], overrides)
  <2>1. OverrideAgrees(c, overrides)
    BY <1>1 DEF OverridesAgree
  <2>2. \A o \in Stored(overrides) \ {c.id} : overrides[o].date # c.doc.date
    BY <1>3 DEF OverridesOn
  <2> DEFINE d == [c EXCEPT !.stage = "write"]
  <2>3. d.op = c.op /\ d.id = c.id /\ d.doc = c.doc /\ d.body = c.body
    BY <1>1, NextStage
  <2> HIDE DEF d
  <2> QED BY <2>1, <2>2, <2>3 DEF OverrideAgrees, Expected
<1> HIDE DEF conflict
<1> QED BY <1>2, <1>3, RequestAgreesToo

LEMMA WriteOverrideAgrees ==
  ASSUME Base, OneOfAKind, OneOverridePerDate, OverridesAgree, NEW r \in Requests, WriteOverride(r)
  PROVE  OneOverridePerDate' /\ OverridesAgree'
<1> DEFINE c == request[r]
           new == IF c.op = "create" THEN c.body
                  ELSE IF overrides[c.id] = Deleted THEN Deleted
                  ELSE Apply(c.body, overrides[c.id])
<1>t. TypeOK
  BY DEF Base
<1>1. /\ c \in Calls /\ c.kind = "override" /\ c.stage = "write" /\ c.id \in OverrideIds
      /\ overrides' = [overrides EXCEPT ![c.id] = new] /\ EndRequest(r)
  BY WriteOverrideEffect
<1>2. c # None /\ OverrideAgrees(c, overrides)
  BY <1>1, NoDocument DEF OverridesAgree
<1>3. new = Deleted \/ new = c.doc
  BY <1>2 DEF OverrideAgrees, Expected
<1> HIDE DEF new
<1>4. request'[r] = None /\ \A q \in Requests \ {r} : request'[q] = request[q]
  BY <1>t, <1>1, EndEffect
<1>5. OverridesAgree'
  BY <1>1, <1>2, <1>4 DEF OverridesAgree, OneOfAKind
<1>6. /\ overrides'[c.id] = new /\ \A o \in OverrideIds \ {c.id} : overrides'[o] = overrides[o]
      /\ DOMAIN overrides' = OverrideIds /\ DOMAIN overrides = OverrideIds
  BY <1>t, <1>1 DEF TypeOK
<1>7. \A o \in Stored(overrides') : o \in OverrideIds /\ (o # c.id => o \in Stored(overrides))
  BY <1>6, InStored
<1>8. c.id \in Stored(overrides') => new = c.doc
  BY <1>3, <1>6, InStored
<1>9. \A o \in Stored(overrides') :
         o # c.id /\ c.id \in Stored(overrides') => overrides'[o].date # new.date
  BY <1>1, <1>2, <1>6, <1>7, <1>8 DEF OverrideAgrees
<1>10. OneOverridePerDate'
  <2> SUFFICES ASSUME NEW o \in Stored(overrides'), NEW p \in Stored(overrides'),
                      overrides'[o].date = overrides'[p].date, o # p
               PROVE  FALSE
    BY DEF OneOverridePerDate
  <2>1. CASE o = c.id
    BY <1>6, <1>9, <2>1
  <2>2. CASE p = c.id
    BY <1>6, <1>9, <2>2
  <2>3. CASE o # c.id /\ p # c.id
    BY <1>6, <1>7, <2>3 DEF OneOverridePerDate
  <2> QED BY <2>1, <2>2, <2>3
<1> QED BY <1>5, <1>10

LEMMA DeleteOverrideAgrees ==
  ASSUME TypeOK, OneOverridePerDate, OverridesAgree, NEW o \in OverrideIds, DeleteOverride(o)
  PROVE  OneOverridePerDate' /\ OverridesAgree'
<1>1. /\ overrides'[o] = Deleted /\ \A x \in OverrideIds \ {o} : overrides'[x] = overrides[x]
      /\ DOMAIN overrides' = OverrideIds /\ DOMAIN overrides = OverrideIds
      /\ request' = request /\ overrides[o] # None
  BY DEF DeleteOverride, TypeOK, Stored
<1>2. \A x \in Stored(overrides') : x \in Stored(overrides) /\ overrides'[x] = overrides[x]
  BY <1>1, InStored
<1>3. OneOverridePerDate'
  BY <1>2 DEF OneOverridePerDate
<1>4. OverridesAgree'
  <2> SUFFICES ASSUME NEW r \in Requests, request[r] # None, request[r].kind = "override"
               PROVE  OverrideAgrees(request[r], overrides')
    BY <1>1 DEF OverridesAgree
  <2> DEFINE c == request[r]
  <2>1. c.id \in OverrideIds /\ OverrideAgrees(c, overrides)
    BY CallTypes DEF TypeOK, OverridesAgree
  <2>2. Expected(overrides', c)
    <3>1. CASE c.id = o
      BY <1>1, <2>1, <3>1 DEF OverrideAgrees, Expected
    <3>2. CASE c.id # o
      BY <1>1, <2>1, <3>2, InStored DEF OverrideAgrees, Expected
    <3> QED BY <3>1, <3>2
  <2> QED BY <1>2, <2>1, <2>2 DEF OverrideAgrees
<1> QED BY <1>3, <1>4

LEMMA InitOverrideInv == Init => OverrideInv
  BY DEF Init, OverrideInv, OneOfAKind, OneOverridePerDate, OverridesAgree, Stored

LEMMA NextOverrideInv ==
  ASSUME Base, OverrideInv, Serial, [Next]_vars
  PROVE  OverrideInv'
<1>t. TypeOK /\ OneOfAKind /\ OneOverridePerDate /\ OverridesAgree
  BY DEF Base, OverrideInv
<1>1. OneOverridePerDate' /\ OverridesAgree'
  <2>1. CASE OverrideSteps
    BY <1>t, <2>1, CreateOverrideAgrees, UpdateOverrideAgrees, ValidateOverrideAgrees,
       WriteOverrideAgrees, DeleteOverrideAgrees DEF OverrideSteps
  <2>2. ASSUME NEW r \in Requests, NEW s \in ScheduleIds, NEW b \in Schedules, CreateSchedule(r, s, b)
        PROVE  OneOverridePerDate' /\ OverridesAgree'
    <3>1. /\ overrides' = overrides /\ request'[r].kind = "schedule"
          /\ \A q \in Requests \ {r} : request'[q] = request[q]
      BY <1>t, <2>2 DEF CreateSchedule, Begin, TypeOK
    <3> QED BY <1>t, <3>1, RequestAgreesToo
  <2>3. ASSUME NEW r \in Requests, NEW s \in ScheduleIds, NEW p \in SchedulePatches,
               UpdateSchedule(r, s, p)
        PROVE  OneOverridePerDate' /\ OverridesAgree'
    <3> DEFINE doc == Apply(p, schedules[s])
    <3>1. PICK stage : Begin(r, "schedule", "update", s, p, doc, stage)
      BY <1>t, <2>3, UpdateScheduleBegins
    <3> HIDE DEF doc
    <3>2. /\ overrides' = overrides /\ request'[r].kind = "schedule"
          /\ \A q \in Requests \ {r} : request'[q] = request[q]
      BY <1>t, <3>1 DEF Begin, TypeOK
    <3> QED BY <1>t, <3>2, RequestAgreesToo
  <2>4. ASSUME NEW r \in Requests, ValidateNoOverlap(r) PROVE OneOverridePerDate' /\ OverridesAgree'
    <3>1. request[r] # None /\ request[r].kind = "schedule" /\ request[r] \in Calls
      BY <1>t, <2>4 DEF ValidateNoOverlap, At, TypeOK
    <3>2. PICK conflict : Validate(r, conflict)
      BY <2>4 DEF ValidateNoOverlap
    <3>3. /\ overrides' = overrides /\ \A q \in Requests \ {r} : request'[q] = request[q]
          /\ request'[r] # None => request'[r].kind = "schedule"
      BY <1>t, <3>1, <3>2, ValidateType, NextStage
    <3> QED BY <1>t, <3>3, RequestAgreesToo
  <2>5. ASSUME NEW r \in Requests, WriteSchedule(r) PROVE OneOverridePerDate' /\ OverridesAgree'
    BY <1>t, <2>5, EndEffect, RequestAgreesToo DEF WriteSchedule
  <2>6. CASE UNCHANGED <<overrides, request>>
    BY <1>t, <2>6 DEF OneOverridePerDate, OverridesAgree
  <2> QED BY <2>1, <2>2, <2>3, <2>4, <2>5, <2>6 DEF Next, ScheduleSteps, DeleteSchedule, vars
<1> QED BY <1>t, <1>1, NextOneOfAKind DEF OverrideInv

THEOREM OverrideInvHolds == Spec => [](Serial => OverrideInv)
<1>1. Base /\ (Serial => OverrideInv) /\ [Next]_vars => (Serial => OverrideInv)'
  BY NextOverrideInv
<1> QED BY <1>1, InitOverrideInv, BaseHolds, PTL DEF Spec

(* A date has at most one override, active or not, where requests on       *)
(* overrides are taken one at a time: also when an override is moved to    *)
(* another date, or deactivated and activated again.                       *)
THEOREM OneOverrideOfADate == Spec => [](Serial => OneOverridePerDate)
  BY OverrideInvHolds, PTL DEF OverrideInv

(* A date with a closure has no hours, whichever documents the queries     *)
(* come back with, under the same discipline.                              *)
THEOREM ClosuresClose == Spec => [](Serial => ClosedDateIsClosed)
<1>1. OneOverridePerDate => ClosedDateIsClosed
  <2> SUFFICES ASSUME OneOverridePerDate, NEW o \in Active(overrides),
                      overrides[o].type = "closed"
               PROVE  EffectiveHours(overrides[o].date) = {None}
    BY DEF ClosedDateIsClosed
  <2> DEFINE d == overrides[o].date
             found == OverridesOn(d) \cap Active(overrides)
  <2>1. o \in Stored(overrides) /\ overrides[o] # None
    BY DEF Active, Stored
  <2>2. \A x \in found : x = o
    BY <2>1 DEF OneOverridePerDate, OverridesOn
  <2>3. o \in found
    BY <2>1 DEF OverridesOn
  <2>4. FoundOverrides(d) = {overrides[o]}
    BY <2>2, <2>3 DEF FoundOverrides
  <2>5. \A s : Hours(d, s, overrides[o]) = None
    BY <2>1 DEF Hours
  <2>6. \E s : s \in FoundSchedules
    BY DEF FoundSchedules
  <2> QED BY <2>4, <2>5, <2>6 DEF EffectiveHours
<1> QED BY <1>1, OneOverrideOfADate, PTL

-----------------------------------------------------------------------------
(* Bookings inside the hours *)

LEMMA ModOfMultiple ==
  ASSUME NEW n \in Nat \ {0}, NEW d \in Int, NEW x \in 0..(n - 1)
  PROVE  (d * n + x) % n = x
  OBVIOUS
(* The times of day that validateBookingTime compares are those of the     *)
(* booking, where it lies within one date.                                 *)
LEMMA TimesOfDay ==
  ASSUME NEW d \in Dates, NEW time \in 0..(DayLength - 1), NEW service \in Services,
         WithinDate(time, service)
  PROVE  /\ TimeOfDay(StartWithBuffer(service, Epoch(d, time))) = StartWithBuffer(service, time)
         /\ TimeOfDay(EndWithBuffer(service, Epoch(d, time))) = EndWithBuffer(service, time)
<1> DEFINE s == time - service.before
           e == time + service.duration + service.after
<1>1. /\ DayLength \in Nat \ {0} /\ d \in Int /\ time \in Int
      /\ service.duration \in Int /\ service.before \in Int /\ service.after \in Int
      /\ service.before >= 0 /\ service.duration >= 0 /\ service.after >= 0
  BY TimesAssumption, DatesAssumption
<1>2. s \in 0..(DayLength - 1) /\ e \in 0..(DayLength - 1)
  BY <1>1 DEF WithinDate, EndWithBuffer
<1>3. d * DayLength \in Int
  BY <1>1
<1>4. /\ StartWithBuffer(service, Epoch(d, time)) = d * DayLength + s
      /\ EndWithBuffer(service, Epoch(d, time)) = d * DayLength + e
  <2> DEFINE m == d * DayLength
  <2>1. m \in Int
    BY <1>3
  <2> HIDE DEF m
  <2>2. (m + time) - service.before = m + s /\ (m + time) + service.duration + service.after = m + e
    BY <1>1, <2>1
  <2> QED BY <2>2 DEF m, StartWithBuffer, EndWithBuffer, Epoch
<1> HIDE DEF s, e
<1>5. (d * DayLength + s) % DayLength = s /\ (d * DayLength + e) % DayLength = e
  BY <1>1, <1>2, ModOfMultiple
<1> QED BY <1>4, <1>5 DEF s, e, TimeOfDay, StartWithBuffer, EndWithBuffer

(* A booking that validation accepts, and that does not reach into another *)
(* day, lies with its buffers in hours the owner gave its date, for any    *)
(* schedules and overrides, overlapping ones and racing requests included. *)
THEOREM AcceptedLiesInHours == Spec => []AcceptedIsOpen
<1>1. TypeOK => AcceptedIsOpen
  <2> SUFFICES ASSUME TypeOK, NEW d \in Dates, NEW hours \in EffectiveHours(d),
                      NEW time \in 0..(DayLength - 1), NEW service \in Services,
                      ValidBookingTime(d, hours, time, service), WithinDate(time, service)
               PROVE  \E open \in Openings(d) : /\ open.start <= StartWithBuffer(service, time)
                                                /\ EndWithBuffer(service, time) <= open.end
    BY DEF AcceptedIsOpen
  <2> DEFINE on == OverridesOn(d) \cap Active(overrides)
  <2>1. PICK s \in FoundSchedules, o \in FoundOverrides(d) : hours = Hours(d, s, o)
    BY DEF EffectiveHours
  <2>2. hours # None /\ hours \in Openings(d)
    <3>1. hours # None
      BY DEF ValidBookingTime
    <3>2. CASE on # {}
      <4>1. PICK x \in on : o = overrides[x]
        BY <3>2 DEF FoundOverrides
      <4>2. o # None
        BY <4>1 DEF Active, Stored
      <4>3. hours = o.hours
        BY <2>1, <3>1, <4>2 DEF Hours
      <4> QED BY <3>1, <3>2, <4>1, <4>3 DEF Openings
    <3>3. CASE on = {}
      <4>1. o = None
        BY <3>3 DEF FoundOverrides
      <4>2. s # None /\ hours = s.hours
        BY <2>1, <3>1, <4>1 DEF Hours
      <4>3. PICK t \in Active(schedules) : s = schedules[t]
        BY <4>2 DEF FoundSchedules
      <4>4. t \in ScheduleIds /\ Covers(t, d)
        BY <2>1, <3>1, <4>1, <4>3, ActiveTypes DEF Covers, Hours
      <4> QED BY <3>1, <3>3, <4>2, <4>3, <4>4 DEF Openings
    <3> QED BY <3>1, <3>2, <3>3
  <2>3. /\ TimeOfDay(StartWithBuffer(service, Epoch(d, time))) >= hours.start
        /\ TimeOfDay(EndWithBuffer(service, Epoch(d, time))) <= hours.end
    BY DEF ValidBookingTime
  <2>4. hours.start <= StartWithBuffer(service, time) /\ EndWithBuffer(service, time) <= hours.end
    BY <2>3, TimesOfDay
  <2> QED BY <2>2, <2>4
<1> QED BY <1>1, AvailabilityTypeOK, PTL
=============================================================================
