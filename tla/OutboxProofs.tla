----------------------------- MODULE OutboxProofs -----------------------------
(***************************************************************************)
(* What the outbox keeps however many handlers, relay runs and workers     *)
(* race, and whatever calls are rejected: an event is marked processed     *)
(* only after its delivery, and an event in "processing" is forgotten only *)
(* where markAsFailed is rejected, as long as BullMQ gives stalled jobs    *)
(* back, which it does after a first crash of a worker.                    *)
(*                                                                         *)
(* Neither is inductive.  The first needs to know that a worker about to   *)
(* mark an event has published it; the second that a job BullMQ will not   *)
(* queue again has already been through a crash.                           *)
(***************************************************************************)
EXTENDS Outbox, SequenceTheorems, TLAPS

Queued == {queue[i] : i \in DOMAIN queue}

NewJob(e) == [event |-> e, stalls |-> 0]

(* A worker has a job exactly while it runs. *)
JobInHand == \A w \in Workers : IF pc[w] = "idle" THEN job[w] = NoJob ELSE job[w] \in Jobs

PublishedFirst == \A w \in Workers : pc[w] = "processed" => job[w].event \in delivered

StallsFollowCrashes ==
    /\ \A j \in Queued : j.stalls = 1 => crashes > 0
    /\ \A w \in Workers : pc[w] # "idle" /\ job[w].stalls = 1 => crashes > 0

AttendedUntilSecondCrash == crashes <= 1 => ProcessingIsAttended

IInv ==
    /\ TypeOK
    /\ JobInHand
    /\ PublishedFirst
    /\ ProcessedWasDelivered
    /\ StallsFollowCrashes
    /\ AttendedUntilSecondCrash

LEMMA InitIInv == Init => IInv
<1> SUFFICES ASSUME Init PROVE IInv
  OBVIOUS
<1>1. TypeOK
  BY BoundsAssumption DEF Init, TypeOK, Statuses
<1> QED BY <1>1 DEF Init, IInv, JobInHand, PublishedFirst, ProcessedWasDelivered, Queued,
           StallsFollowCrashes, AttendedUntilSecondCrash, ProcessingIsAttended

-----------------------------------------------------------------------------
(* The queue *)

LEMMA WaitingIsQueued ==
  ASSUME NEW e
  PROVE  Waiting(e) # {} <=> \E j \in Queued : j.event = e
  BY DEF Waiting, Queued

(* enqueueJob puts one job behind the others. *)
LEMMA AddJobQueues ==
  ASSUME queue \in Seq(Jobs), NEW e \in Events, AddJob(e)
  PROVE  queue' \in Seq(Jobs) /\ Queued' = Queued \cup {NewJob(e)}
<1>1. NewJob(e) \in Jobs /\ queue' = Append(queue, NewJob(e))
  BY DEF NewJob, Jobs, AddJob
<1>2. /\ queue' \in Seq(Jobs) /\ Len(queue') = Len(queue) + 1 /\ Len(queue) \in Nat
      /\ \A i \in 1..Len(queue) : queue'[i] = queue[i]
      /\ queue'[Len(queue) + 1] = NewJob(e)
  BY <1>1, AppendProperties, LenProperties
<1>3. DOMAIN queue = 1..Len(queue) /\ DOMAIN queue' = 1..(Len(queue) + 1)
  BY <1>2, LenProperties
<1> QED BY <1>2, <1>3 DEF Queued

(* A worker takes the first job of the queue and no other. *)
LEMMA TakeHead ==
  ASSUME queue \in Seq(Jobs), queue # <<>>, queue' = Tail(queue)
  PROVE  /\ Head(queue) \in Queued /\ Head(queue) \in Jobs
         /\ queue' \in Seq(Jobs)
         /\ Queued' \subseteq Queued
         /\ Queued \subseteq Queued' \cup {Head(queue)}
<1>1. /\ Head(queue) \in Jobs /\ Head(queue) = queue[1]
      /\ queue' \in Seq(Jobs) /\ Len(queue') = Len(queue) - 1
      /\ Len(queue) \in Nat \ {0}
      /\ \A i \in 1..Len(queue') : queue'[i] = queue[i + 1]
  BY HeadTailProperties, LenProperties, EmptySeq
<1>2. DOMAIN queue = 1..Len(queue) /\ DOMAIN queue' = 1..(Len(queue) - 1)
  BY <1>1, LenProperties
<1>3. \A i \in DOMAIN queue : i = 1 \/ (i - 1 \in DOMAIN queue' /\ queue'[i - 1] = queue[i])
  BY <1>1, <1>2
<1>4. \A i \in DOMAIN queue' : i + 1 \in DOMAIN queue /\ queue'[i] = queue[i + 1]
  BY <1>1, <1>2
<1>5. Queued' \subseteq Queued
  BY <1>4 DEF Queued
<1>6. Queued \subseteq Queued' \cup {Head(queue)}
  BY <1>1, <1>3 DEF Queued
<1>7. Head(queue) \in Queued
  BY <1>1, <1>2 DEF Queued
<1> QED BY <1>1, <1>5, <1>6, <1>7

(* A stalled job goes to the front. *)
LEMMA StalledJobQueues ==
  ASSUME queue \in Seq(Jobs), NEW j \in Jobs, queue' = <<j>> \o queue
  PROVE  queue' \in Seq(Jobs) /\ Queued' = Queued \cup {j}
<1>1. <<j>> \in Seq(Jobs) /\ Len(<<j>>) = 1 /\ <<j>>[1] = j
  OBVIOUS
<1>2. /\ queue' \in Seq(Jobs) /\ Len(queue') = 1 + Len(queue) /\ Len(queue) \in Nat
      /\ \A i \in 1..(1 + Len(queue)) : queue'[i] = IF i <= 1 THEN <<j>>[i] ELSE queue[i - 1]
  BY <1>1, ConcatProperties, LenProperties
<1>3. DOMAIN queue = 1..Len(queue) /\ DOMAIN queue' = 1..(1 + Len(queue))
  BY <1>2, LenProperties
<1>4. queue'[1] = j /\ \A i \in DOMAIN queue : i + 1 \in DOMAIN queue' /\ queue'[i + 1] = queue[i]
  BY <1>1, <1>2, <1>3
<1>5. \A i \in DOMAIN queue' : i = 1 \/ (i - 1 \in DOMAIN queue /\ queue'[i] = queue[i - 1])
  BY <1>2, <1>3
<1>6. Queued' \subseteq Queued \cup {j}
  BY <1>4, <1>5 DEF Queued
<1>7. Queued \subseteq Queued'
  BY <1>4 DEF Queued
<1>8. j \in Queued'
  BY <1>2, <1>3, <1>4 DEF Queued
<1> QED BY <1>2, <1>6, <1>7, <1>8
-----------------------------------------------------------------------------
(* Handlers and relay *)

(* Who attends to an event does not lose it while workers keep their jobs  *)
(* and nothing leaves the queue.                                           *)
LEMMA StillAttended ==
  ASSUME NEW e, OnWorker(e) \/ Waiting(e) # {} \/ e \in abandoned,
         UNCHANGED <<pc, job, abandoned>>, Queued \subseteq Queued'
  PROVE  (OnWorker(e) \/ Waiting(e) # {} \/ e \in abandoned)'
<1>1. CASE OnWorker(e)
  BY <1>1 DEF OnWorker
<1>2. CASE Waiting(e) # {}
  <2>1. \E j \in Queued' : j.event = e
    BY <1>2, WaitingIsQueued
  <2> QED BY <2>1 DEF Waiting, Queued
<1>3. CASE e \in abandoned
  BY <1>3
<1> QED BY <1>1, <1>2, <1>3

LEMMA QueueingStep ==
  ASSUME IInv, NEW e \in Events, AddJob(e) \/ UNCHANGED queue,
         UNCHANGED <<status, pc, job, delivered, abandoned, crashes>>, TypeOK'
  PROVE  IInv'
<1>1. Queued \subseteq Queued' /\ Queued' \subseteq Queued \cup {NewJob(e)}
  BY AddJobQueues DEF IInv, TypeOK, Queued
<1>2. StallsFollowCrashes'
  BY <1>1 DEF IInv, StallsFollowCrashes, NewJob
<1>3. AttendedUntilSecondCrash'
  BY <1>1, StillAttended DEF IInv, AttendedUntilSecondCrash, ProcessingIsAttended
<1> QED BY <1>2, <1>3 DEF IInv, JobInHand, PublishedFirst, ProcessedWasDelivered

LEMMA CreateEventStep ==
  ASSUME IInv, NEW e \in Events, CreateEvent(e)
  PROVE  IInv'
<1>1. /\ UNCHANGED <<queue, pc, job, delivered, abandoned, crashes>>
      /\ status'[e] = "pending" /\ \A f \in Events \ {e} : status'[f] = status[f]
  BY DEF IInv, TypeOK, CreateEvent
<1>2. TypeOK'
  BY <1>1 DEF IInv, TypeOK, CreateEvent, Statuses
<1>3. Queued' = Queued
  BY <1>1 DEF Queued
<1>4. AttendedUntilSecondCrash'
  BY <1>1, <1>3, StillAttended DEF IInv, AttendedUntilSecondCrash, ProcessingIsAttended
<1> QED BY <1>1, <1>2, <1>3, <1>4
        DEF IInv, JobInHand, PublishedFirst, ProcessedWasDelivered, StallsFollowCrashes

LEMMA EnqueueStep ==
  ASSUME IInv, NEW e \in Events, EnqueueJob(e) \/ RelayEnqueue(e)
  PROVE  IInv'
<1>1. /\ AddJob(e) \/ UNCHANGED queue
      /\ UNCHANGED <<status, retryCount, pc, job, seen, delivered, abandoned, crashes>>
      /\ toQueue' \subseteq Events /\ batch' \subseteq Events
      /\ UNCHANGED faults \/ (faults < MaxFaults /\ faults' = faults + 1)
  BY DEF IInv, TypeOK, EnqueueJob, RelayEnqueue, Rejected
<1>2. queue' \in Seq(Jobs)
  BY <1>1, AddJobQueues DEF IInv, TypeOK
<1>3. TypeOK'
  BY <1>1, <1>2, BoundsAssumption DEF IInv, TypeOK
<1> QED BY <1>1, <1>3, QueueingStep

LEMMA RelayReadStep ==
  ASSUME IInv, RelayRead
  PROVE  IInv'
<1>1. UNCHANGED <<status, queue, pc, job, delivered, abandoned, crashes>>
  BY DEF RelayRead
<1>2. TypeOK'
  BY DEF IInv, TypeOK, RelayRead, PendingEvents, Pending
<1>3. Queued' = Queued
  BY <1>1 DEF Queued
<1>4. AttendedUntilSecondCrash'
  BY <1>1, <1>3, StillAttended DEF IInv, AttendedUntilSecondCrash, ProcessingIsAttended
<1> QED BY <1>1, <1>2, <1>3, <1>4
        DEF IInv, JobInHand, PublishedFirst, ProcessedWasDelivered, StallsFollowCrashes

-----------------------------------------------------------------------------
(* Workers *)

LEMMA TakeStep ==
  ASSUME IInv, NEW w \in Workers, Take(w)
  PROVE  IInv'
<1> DEFINE j == Head(queue)
<1>1. /\ j \in Queued /\ j \in Jobs /\ queue' \in Seq(Jobs)
      /\ Queued' \subseteq Queued /\ Queued \subseteq Queued' \cup {j}
  BY TakeHead DEF IInv, TypeOK, Take
<1>2. /\ pc[w] = "idle" /\ pc'[w] = "lookup" /\ job'[w] = j
      /\ \A v \in Workers \ {w} : pc'[v] = pc[v] /\ job'[v] = job[v]
      /\ UNCHANGED <<status, retryCount, toQueue, batch, seen, delivered, abandoned, faults, crashes>>
  BY DEF IInv, TypeOK, Take, Goto
<1>3. TypeOK'
  <2>1. pc' \in [Workers -> {"idle", "failing", "failed"} \cup Caught]
    BY DEF IInv, TypeOK, Take, Goto, Caught
  <2>2. job' \in [Workers -> Jobs \cup {NoJob}]
    BY <1>1 DEF IInv, TypeOK, Take
  <2> QED BY <1>1, <1>2, <2>1, <2>2 DEF IInv, TypeOK
<1>4. JobInHand' /\ PublishedFirst' /\ ProcessedWasDelivered'
  BY <1>1, <1>2 DEF IInv, JobInHand, PublishedFirst, ProcessedWasDelivered
<1>5. StallsFollowCrashes'
  BY <1>1, <1>2 DEF IInv, StallsFollowCrashes
<1>6. ASSUME NEW e, OnWorker(e) \/ Waiting(e) # {} \/ e \in abandoned
      PROVE  (OnWorker(e) \/ Waiting(e) # {} \/ e \in abandoned)'
  <2>1. CASE OnWorker(e)
    BY <1>2, <2>1 DEF OnWorker
  <2>2. CASE Waiting(e) # {}
    <3>1. PICK k \in Queued : k.event = e
      BY <2>2, WaitingIsQueued
    <3>2. CASE k = j
      BY <1>2, <3>1, <3>2 DEF OnWorker
    <3>3. CASE k \in Queued'
      BY <3>1, <3>3 DEF Waiting, Queued
    <3> QED BY <1>1, <3>1, <3>2, <3>3
  <2>3. CASE e \in abandoned
    BY <1>2, <2>3
  <2> QED BY <1>6, <2>1, <2>2, <2>3
<1>7. AttendedUntilSecondCrash'
  BY <1>2, <1>6 DEF IInv, AttendedUntilSecondCrash, ProcessingIsAttended
<1> QED BY <1>3, <1>4, <1>5, <1>7 DEF IInv

(* A call of worker w that touches the document of its own event only, and *)
(* leaves it in "processing" only if w goes on with it or abandons it.      *)
LEMMA CallStep ==
  ASSUME IInv, TypeOK', NEW w \in Workers, pc[w] # "idle",
         UNCHANGED <<queue, crashes>>,
         \A v \in Workers \ {w} : pc'[v] = pc[v] /\ job'[v] = job[v],
         IF pc'[w] = "idle" THEN job'[w] = NoJob ELSE job'[w] = job[w],
         delivered \subseteq delivered',
         pc'[w] = "processed" => job[w].event \in delivered',
         \A e \in Events \ {job[w].event} : status'[e] = status[e],
         status'[job[w].event] = "processed" => job[w].event \in delivered',
         \A e \in Events \ {job[w].event} : e \in abandoned => e \in abandoned',
         pc'[w] = "idle" /\ status'[job[w].event] = "processing" => job[w].event \in abandoned'
  PROVE  IInv'
<1>1. JobInHand' /\ PublishedFirst'
  BY DEF IInv, JobInHand, PublishedFirst
<1>2. ProcessedWasDelivered'
  BY DEF IInv, ProcessedWasDelivered
<1>3. Queued' = Queued
  BY DEF Queued
<1>4. StallsFollowCrashes'
  <2>1. \A v \in Workers : pc'[v] # "idle" => pc[v] # "idle" /\ job'[v] = job[v]
    OBVIOUS
  <2> QED BY <1>3, <2>1 DEF IInv, StallsFollowCrashes
<1>5. ASSUME crashes <= 1, NEW e \in Events, status'[e] = "processing"
      PROVE  OnWorker(e)' \/ Waiting(e)' # {} \/ e \in abandoned'
  <2>1. CASE e = job[w].event
    BY <1>5, <2>1 DEF OnWorker
  <2>2. CASE e # job[w].event
    <3>1. OnWorker(e) \/ Waiting(e) # {} \/ e \in abandoned
      BY <1>5, <2>2 DEF IInv, AttendedUntilSecondCrash, ProcessingIsAttended
    <3>2. OnWorker(e) => OnWorker(e)'
      BY <2>2 DEF OnWorker
    <3>3. Waiting(e)' = Waiting(e)
      BY DEF Waiting
    <3> QED BY <2>2, <3>1, <3>2, <3>3
  <2> QED BY <2>1, <2>2
<1>6. AttendedUntilSecondCrash'
  BY <1>5 DEF AttendedUntilSecondCrash, ProcessingIsAttended
<1> QED BY <1>1, <1>2, <1>4, <1>6 DEF IInv

LEMMA WorkerHasEvent ==
  ASSUME IInv, NEW w \in Workers, pc[w] # "idle"
  PROVE  job[w] \in Jobs /\ job[w].event \in Events /\ job[w].stalls \in {0, 1}
  BY DEF IInv, JobInHand, Jobs

LEMMA LookupStep ==
  ASSUME IInv, NEW w \in Workers, Lookup(w)
  PROVE  IInv'
<1>1. /\ pc[w] = "lookup" /\ UNCHANGED <<status, delivered, abandoned, queue, crashes>>
      /\ \A v \in Workers \ {w} : pc'[v] = pc[v] /\ job'[v] = job[v]
      /\ \/ status[job[w].event] = "processed" /\ pc'[w] = "idle" /\ job'[w] = NoJob
         \/ pc'[w] = "processing" /\ job'[w] = job[w]
  BY DEF IInv, TypeOK, Lookup, Goto, End
<1>2. TypeOK'
  <2>1. pc' \in [Workers -> {"idle", "failing", "failed"} \cup Caught]
    BY DEF IInv, TypeOK, Lookup, Goto, End, Caught
  <2>2. /\ job' = job \/ job' = [job EXCEPT ![w] = NoJob]
        /\ seen' = seen \/ seen' = [seen EXCEPT ![w] = 0]
    BY DEF Lookup, End
  <2>3. job' \in [Workers -> Jobs \cup {NoJob}]
    BY <2>2 DEF IInv, TypeOK
  <2>4. seen' \in [Workers -> Nat]
    BY <2>2 DEF IInv, TypeOK
  <2> QED BY <2>1, <2>3, <2>4 DEF IInv, TypeOK, Lookup
<1>3. job[w].event \in Events
  BY <1>1, WorkerHasEvent
<1>4. status[job[w].event] = "processed" => job[w].event \in delivered
  BY <1>3 DEF IInv, ProcessedWasDelivered
<1> QED BY <1>1, <1>2, <1>4, CallStep

LEMMA MarkAsProcessingStep ==
  ASSUME IInv, NEW w \in Workers, MarkAsProcessing(w)
  PROVE  IInv'
<1>1. job[w].event \in Events
  BY WorkerHasEvent DEF MarkAsProcessing
<1>2. /\ pc[w] = "processing" /\ pc'[w] = "publish" /\ UNCHANGED <<job, delivered, queue, crashes>>
      /\ \A v \in Workers \ {w} : pc'[v] = pc[v]
      /\ status'[job[w].event] = "processing"
      /\ \A e \in Events \ {job[w].event} :
             status'[e] = status[e] /\ (e \in abandoned => e \in abandoned')
  BY <1>1 DEF IInv, TypeOK, MarkAsProcessing, Goto
<1>3. TypeOK'
  BY <1>1 DEF IInv, TypeOK, Caught, MarkAsProcessing, Goto, Statuses
<1> QED BY <1>2, <1>3, CallStep

LEMMA PublishStep ==
  ASSUME IInv, NEW w \in Workers, PublishEvent(w)
  PROVE  IInv'
<1>1. job[w].event \in Events
  BY WorkerHasEvent DEF PublishEvent
<1>2. /\ pc[w] = "publish" /\ pc'[w] = "processed" /\ UNCHANGED <<status, abandoned, job, queue, crashes>>
      /\ \A v \in Workers \ {w} : pc'[v] = pc[v]
      /\ delivered' = delivered \cup {job[w].event}
  BY DEF IInv, TypeOK, PublishEvent, Goto
<1>3. TypeOK'
  BY <1>1 DEF IInv, TypeOK, Caught, PublishEvent, Goto
<1> QED BY <1>2, <1>3, CallStep

LEMMA MarkAsProcessedStep ==
  ASSUME IInv, NEW w \in Workers, MarkAsProcessed(w)
  PROVE  IInv'
<1>1. job[w].event \in Events
  BY WorkerHasEvent DEF MarkAsProcessed
<1>2. /\ pc[w] = "processed" /\ pc'[w] = "idle" /\ job'[w] = NoJob
      /\ UNCHANGED <<delivered, abandoned, queue, crashes>>
      /\ \A v \in Workers \ {w} : pc'[v] = pc[v] /\ job'[v] = job[v]
      /\ status'[job[w].event] = "processed"
      /\ \A e \in Events \ {job[w].event} : status'[e] = status[e]
  BY <1>1 DEF IInv, TypeOK, MarkAsProcessed, Goto, End
<1>3. TypeOK'
  BY <1>1 DEF IInv, TypeOK, MarkAsProcessed, Goto, End, Statuses
<1>4. job[w].event \in delivered
  BY <1>2 DEF IInv, PublishedFirst
<1> QED BY <1>2, <1>3, <1>4, CallStep

LEMMA ThrowStep ==
  ASSUME IInv, NEW w \in Workers, Throw(w)
  PROVE  IInv'
<1>1. job[w].event \in Events
  BY WorkerHasEvent DEF Throw, Caught
<1>2. /\ pc[w] # "idle" /\ pc'[w] = "failing" /\ UNCHANGED <<status, abandoned, job, queue, crashes>>
      /\ \A v \in Workers \ {w} : pc'[v] = pc[v]
      /\ delivered' \in {delivered, delivered \cup {job[w].event}}
      /\ faults < MaxFaults /\ faults' = faults + 1
  BY DEF IInv, TypeOK, Throw, Goto, Rejected, Caught
<1>3. TypeOK'
  <2>1. pc' \in [Workers -> {"idle", "failing", "failed"} \cup Caught]
    BY DEF IInv, TypeOK, Throw, Goto
  <2>2. faults' \in 0..MaxFaults
    BY <1>2, BoundsAssumption DEF IInv, TypeOK
  <2> QED BY <1>1, <1>2, <2>1, <2>2 DEF IInv, TypeOK, Throw
<1>4. status[job[w].event] = "processed" => job[w].event \in delivered
  BY <1>1 DEF IInv, ProcessedWasDelivered
<1> QED BY <1>2, <1>3, <1>4, CallStep

LEMMA MarkAsFailedReadStep ==
  ASSUME IInv, NEW w \in Workers, MarkAsFailedRead(w)
  PROVE  IInv'
<1>1. job[w].event \in Events
  BY WorkerHasEvent DEF MarkAsFailedRead
<1>2. /\ pc[w] = "failing" /\ pc'[w] = "failed"
      /\ UNCHANGED <<status, delivered, abandoned, job, queue, crashes>>
      /\ \A v \in Workers \ {w} : pc'[v] = pc[v]
  BY DEF IInv, TypeOK, MarkAsFailedRead, Goto
<1>3. TypeOK'
  BY <1>1 DEF IInv, TypeOK, MarkAsFailedRead, Goto
<1>4. status[job[w].event] = "processed" => job[w].event \in delivered
  BY <1>1 DEF IInv, ProcessedWasDelivered
<1> QED BY <1>2, <1>3, <1>4, CallStep

LEMMA MarkAsFailedStep ==
  ASSUME IInv, NEW w \in Workers, MarkAsFailed(w)
  PROVE  IInv'
<1>1. job[w].event \in Events
  BY WorkerHasEvent DEF MarkAsFailed
<1>2. /\ pc[w] = "failed" /\ pc'[w] = "idle" /\ job'[w] = NoJob
      /\ UNCHANGED <<delivered, abandoned, queue, crashes>>
      /\ \A v \in Workers \ {w} : pc'[v] = pc[v] /\ job'[v] = job[v]
      /\ status'[job[w].event] = "failed"
      /\ \A e \in Events \ {job[w].event} : status'[e] = status[e]
  BY <1>1 DEF IInv, TypeOK, MarkAsFailed, Goto, End
<1>3. TypeOK'
  BY <1>1 DEF IInv, TypeOK, MarkAsFailed, Goto, End, Statuses
<1> QED BY <1>2, <1>3, CallStep

(* The one step that stops without a record of it.                         *)
LEMMA MarkAsFailedThrowsStep ==
  ASSUME IInv, NEW w \in Workers, MarkAsFailedThrows(w)
  PROVE  IInv'
<1>1. job[w].event \in Events
  BY WorkerHasEvent DEF MarkAsFailedThrows
<1>2. /\ pc[w] # "idle" /\ pc'[w] = "idle" /\ job'[w] = NoJob
      /\ UNCHANGED <<status, delivered, queue, crashes>>
      /\ \A v \in Workers \ {w} : pc'[v] = pc[v] /\ job'[v] = job[v]
      /\ abandoned' = abandoned \cup {job[w].event}
      /\ faults < MaxFaults /\ faults' = faults + 1
  BY DEF IInv, TypeOK, MarkAsFailedThrows, Goto, End, Rejected
<1>3. TypeOK'
  <2>1. faults' \in 0..MaxFaults
    BY <1>2, BoundsAssumption DEF IInv, TypeOK
  <2> QED BY <1>1, <1>2, <2>1 DEF IInv, TypeOK, MarkAsFailedThrows, Goto, End
<1>4. status[job[w].event] = "processed" => job[w].event \in delivered
  BY <1>1 DEF IInv, ProcessedWasDelivered
<1> QED BY <1>2, <1>3, <1>4, CallStep

(* A first crash gives the job back; a job that was given back before has  *)
(* seen a crash, so its loss is at least the second.                       *)
LEMMA CrashStep ==
  ASSUME IInv, NEW w \in Workers, Crash(w)
  PROVE  IInv'
<1> DEFINE j == [job[w] EXCEPT !.stalls = 1]
<1>1. job[w] \in Jobs /\ j \in Jobs /\ j.event = job[w].event
  <2>1. job[w] \in Jobs
    BY WorkerHasEvent DEF Crash
  <2> QED BY <2>1 DEF Jobs
<1>2. /\ pc[w] # "idle" /\ pc'[w] = "idle" /\ job'[w] = NoJob
      /\ UNCHANGED <<status, retryCount, toQueue, batch, delivered, abandoned, faults>>
      /\ \A v \in Workers \ {w} : pc'[v] = pc[v] /\ job'[v] = job[v]
      /\ crashes < MaxCrashes /\ crashes' = crashes + 1
  BY DEF IInv, TypeOK, Crash, Goto, End
<1>3. /\ queue' \in Seq(Jobs) /\ Queued \subseteq Queued' /\ Queued' \subseteq Queued \cup {j}
      /\ job[w].stalls = 0 => j \in Queued'
  <2>1. CASE job[w].stalls = 0
    <3>1. queue' = <<j>> \o queue
      BY <2>1 DEF Crash
    <3> HIDE DEF j
    <3> QED BY <1>1, <3>1, StalledJobQueues DEF IInv, TypeOK
  <2>2. CASE job[w].stalls # 0
    <3>1. queue' = queue
      BY <2>2 DEF Crash
    <3> QED BY <2>2, <3>1 DEF IInv, TypeOK, Queued
  <2> QED BY <2>1, <2>2
<1>4. crashes \in Nat /\ crashes' > 0 /\ crashes' \in 0..MaxCrashes
  BY <1>2, BoundsAssumption DEF IInv, TypeOK
<1>5. TypeOK'
  <2>1. pc' \in [Workers -> {"idle", "failing", "failed"} \cup Caught]
    BY DEF IInv, TypeOK, Crash, Goto, End
  <2>2. job' \in [Workers -> Jobs \cup {NoJob}] /\ seen' \in [Workers -> Nat]
    BY DEF IInv, TypeOK, Crash, End
  <2> QED BY <1>2, <1>3, <1>4, <2>1, <2>2 DEF IInv, TypeOK
<1>6. JobInHand' /\ PublishedFirst' /\ ProcessedWasDelivered'
  BY <1>2 DEF IInv, JobInHand, PublishedFirst, ProcessedWasDelivered
<1>7. StallsFollowCrashes'
  BY <1>4 DEF StallsFollowCrashes
<1>8. ASSUME crashes' <= 1, NEW e \in Events, status'[e] = "processing"
      PROVE  OnWorker(e)' \/ Waiting(e)' # {} \/ e \in abandoned'
  <2>1. crashes = 0 /\ crashes <= 1 /\ status[e] = "processing"
    BY <1>2, <1>4, <1>8
  <2>2. job[w].stalls = 0
    BY <1>1, <1>2, <2>1 DEF IInv, StallsFollowCrashes, Jobs
  <2>3. OnWorker(e) \/ Waiting(e) # {} \/ e \in abandoned
    BY <2>1 DEF IInv, AttendedUntilSecondCrash, ProcessingIsAttended
  <2>4. CASE Waiting(e) # {}
    <3>1. \E k \in Queued' : k.event = e
      BY <1>3, <2>4, WaitingIsQueued
    <3> QED BY <3>1 DEF Waiting, Queued
  <2>5. CASE job[w].event = e
    <3>1. j \in Queued' /\ j.event = e
      BY <1>1, <1>3, <2>2, <2>5
    <3> HIDE DEF j
    <3> QED BY <3>1 DEF Waiting, Queued
  <2>6. CASE OnWorker(e) /\ job[w].event # e
    BY <1>2, <2>6 DEF OnWorker
  <2>7. CASE e \in abandoned
    BY <1>2, <2>7
  <2> QED BY <2>3, <2>4, <2>5, <2>6, <2>7
<1>9. AttendedUntilSecondCrash'
  BY <1>8 DEF AttendedUntilSecondCrash, ProcessingIsAttended
<1> QED BY <1>5, <1>6, <1>7, <1>9 DEF IInv

-----------------------------------------------------------------------------
LEMMA StepIInv == IInv /\ [Next]_vars => IInv'
<1> SUFFICES ASSUME IInv, [Next]_vars PROVE IInv'
  OBVIOUS
<1>1. CASE UNCHANGED vars
  BY <1>1 DEF vars, IInv, TypeOK, JobInHand, PublishedFirst, ProcessedWasDelivered, Queued,
     StallsFollowCrashes, AttendedUntilSecondCrash, ProcessingIsAttended, OnWorker, Waiting
<1>2. ASSUME NEW e \in Events, CreateEvent(e) \/ EnqueueJob(e) \/ RelayEnqueue(e)
      PROVE  IInv'
  BY <1>2, CreateEventStep, EnqueueStep
<1>3. CASE RelayRead
  BY <1>3, RelayReadStep
<1>4. ASSUME NEW w \in Workers, Work(w)
      PROVE  IInv'
  BY <1>4, TakeStep, LookupStep, MarkAsProcessingStep, PublishStep, MarkAsProcessedStep,
     MarkAsFailedReadStep, MarkAsFailedStep DEF Work
<1>5. ASSUME NEW w \in Workers, Throw(w) \/ MarkAsFailedThrows(w) \/ Crash(w)
      PROVE  IInv'
  BY <1>5, ThrowStep, MarkAsFailedThrowsStep, CrashStep
<1> QED BY <1>1, <1>2, <1>3, <1>4, <1>5 DEF Next

LEMMA InductiveInvariant == Spec => []IInv
<1> QED BY InitIInv, StepIInv, PTL DEF Spec

-----------------------------------------------------------------------------
(* Type correctness: every variable of Outbox keeps its type.              *)
THEOREM OutboxTypeOK == Spec => []TypeOK
<1>1. IInv => TypeOK
  BY DEF IInv
<1> QED BY <1>1, InductiveInvariant, PTL

(* Whatever workers race on an event, and wherever their calls fail or     *)
(* they crash, it is marked processed only after the webhook has it.       *)
THEOREM ProcessedOnlyIfDelivered == Spec => []ProcessedWasDelivered
<1>1. IInv => ProcessedWasDelivered
  BY DEF IInv
<1> QED BY <1>1, InductiveInvariant, PTL

(* No event is forgotten in "processing", where the relay never looks:     *)
(* before a second crash a worker has it, a job waits for it, or the call  *)
(* that failed was that of markAsFailed, after which nobody has it.        *)
THEOREM NoEventForgotten == Spec => [](crashes <= 1 => ProcessingIsAttended)
<1>1. IInv => (crashes <= 1 => ProcessingIsAttended)
  BY DEF IInv, AttendedUntilSecondCrash
<1> QED BY <1>1, InductiveInvariant, PTL
=============================================================================
