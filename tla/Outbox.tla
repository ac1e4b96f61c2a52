-------------------------------- MODULE Outbox --------------------------------
(***************************************************************************)
(* The outbox: request handlers store events and queue a job for each, the *)
(* relay queues jobs for events that are still pending, and the workers of *)
(* the processor publish the event of a job to the webhook.                *)
(*                                                                         *)
(* Handlers, relay and workers run concurrently, in any number of          *)
(* processes, and every awaited call is one action.  A handler may stop    *)
(* between storing its event and queueing the job.  The queue is BullMQ    *)
(* with its default options: a job is tried once, and a job whose worker   *)
(* has crashed is queued again, once.                                      *)
(***************************************************************************)
EXTENDS Integers, Sequences, FiniteSets

CONSTANTS
    Events,         \* event ids, numbered in the order of createdAt
    Workers,        \* concurrent executions of process()
    BATCH_SIZE,     \* OutboxRelayService.BATCH_SIZE
    MAX_RETRY_COUNT,\* OutboxService.MAX_RETRY_COUNT
    Faults,         \* the calls that may be rejected
    MaxFaults,      \* bound: rejected calls in a behaviour
    MaxCrashes,     \* bound: crashes of a worker in a behaviour
    MaxCopies       \* bound: jobs that wait for one event

(* The calls whose rejection process() catches, and those of its catch block. *)
Caught == {"lookup", "processing", "publish", "processed"}

Calls == Caught \cup {"failing", "failed", "enqueue"}

ASSUME EventsAssumption == Events \subseteq Nat

ASSUME BoundsAssumption ==
    /\ {BATCH_SIZE, MAX_RETRY_COUNT, MaxCopies} \subseteq Nat \ {0}
    /\ MaxFaults \in Nat /\ MaxCrashes \in Nat
    /\ Faults \subseteq Calls

VARIABLES
    status,         \* status[e]: of the stored event, "none" before createEvent
    retryCount,     \* retryCount[e]
    toQueue,        \* events whose handler is about to queue the job
    batch,          \* events the relay has read and not yet queued
    queue,          \* the jobs that wait, oldest first
    pc,             \* pc[w]: the call worker w awaits
    job,            \* job[w]: its job
    seen,           \* seen[w]: the retryCount it has read
    delivered,      \* events the webhook has received
    abandoned,      \* history, read by no action: the events of workers that could
                    \* not record their failure, until a worker takes one up again
    faults, crashes \* counters of rejected calls and crashes

vars == <<status, retryCount, toQueue, batch, queue, pc, job, seen, delivered,
          abandoned, faults, crashes>>

Statuses == {"none", "pending", "processing", "processed", "failed"}

Jobs == [event: Events, stalls: {0, 1}]

NoJob == [event |-> 0, stalls |-> 0]

TypeOK ==
    /\ status \in [Events -> Statuses]
    /\ retryCount \in [Events -> Nat]
    /\ toQueue \subseteq Events
    /\ batch \subseteq Events
    /\ queue \in Seq(Jobs)
    /\ pc \in [Workers -> {"idle", "failing", "failed"} \cup Caught]
    /\ job \in [Workers -> Jobs \cup {NoJob}]
    /\ seen \in [Workers -> Nat]
    /\ delivered \subseteq Events
    /\ abandoned \subseteq Events
    /\ faults \in 0..MaxFaults
    /\ crashes \in 0..MaxCrashes

Init ==
    /\ status = [e \in Events |-> "none"]
    /\ retryCount = [e \in Events |-> 0]
    /\ toQueue = {}
    /\ batch = {}
    /\ queue = <<>>
    /\ pc = [w \in Workers |-> "idle"]
    /\ job = [w \in Workers |-> NoJob]
    /\ seen = [w \in Workers |-> 0]
    /\ delivered = {}
    /\ abandoned = {}
    /\ faults = 0
    /\ crashes = 0

Waiting(e) == {i \in DOMAIN queue : queue[i].event = e}

AddJob(e) == queue' = Append(queue, [event |-> e, stalls |-> 0])

Rejected(call) ==
    /\ call \in Faults
    /\ faults < MaxFaults
    /\ faults' = faults + 1

-----------------------------------------------------------------------------
(* Handlers *)

(* createEvent, in a Promise.all of BookingService *)
CreateEvent(e) ==
    /\ status[e] = "none"
    /\ \A f \in Events : f < e => status[f] # "none"
    /\ status' = [status EXCEPT ![e] = "pending"]
    /\ toQueue' = toQueue \cup {e}
    /\ UNCHANGED <<retryCount, batch, queue, pc, job, seen, delivered, abandoned, faults, crashes>>

(* enqueueJob, once the Promise.all has resolved *)
EnqueueJob(e) ==
    /\ e \in toQueue
    /\ Cardinality(Waiting(e)) < MaxCopies
    /\ toQueue' = toQueue \ {e}
    /\ \/ AddJob(e) /\ UNCHANGED faults
       \/ Rejected("enqueue") /\ UNCHANGED queue
    /\ UNCHANGED <<status, retryCount, batch, pc, job, seen, delivered, abandoned, crashes>>

-----------------------------------------------------------------------------
(* OutboxRelayService, every ten seconds *)

(* Mutant: the relay looks for failed events instead of pending ones. *)
FailedEvents == {e \in Events : status[e] = "failed" /\ retryCount[e] < MAX_RETRY_COUNT}

Pending == {e \in Events : status[e] = "pending" /\ retryCount[e] < MAX_RETRY_COUNT}

(* getPendingEvents: the oldest ones, at most BATCH_SIZE. *)
PendingEvents == {e \in Pending : Cardinality({f \in Pending : f < e}) < BATCH_SIZE}

RelayRead ==
    /\ batch = {}
    /\ PendingEvents # {}
    /\ batch' = PendingEvents
    /\ UNCHANGED <<status, retryCount, toQueue, queue, pc, job, seen, delivered, abandoned, faults, crashes>>

(* A rejected call ends the Promise.all and is logged; the others go on. *)
RelayEnqueue(e) ==
    /\ e \in batch
    /\ Cardinality(Waiting(e)) < MaxCopies
    /\ batch' = batch \ {e}
    /\ \/ AddJob(e) /\ UNCHANGED faults
       \/ Rejected("enqueue") /\ UNCHANGED queue
    /\ UNCHANGED <<status, retryCount, toQueue, pc, job, seen, delivered, abandoned, crashes>>

-----------------------------------------------------------------------------
(* ProcessOutboxProcessor *)

Goto(w, call) == pc' = [pc EXCEPT ![w] = call]

(* process() returns or throws; its job is over either way. *)
End(w) ==
    /\ Goto(w, "idle")
    /\ job' = [job EXCEPT ![w] = NoJob]
    /\ seen' = [seen EXCEPT ![w] = 0]

Take(w) ==
    /\ pc[w] = "idle"
    /\ queue # <<>>
    /\ job' = [job EXCEPT ![w] = Head(queue)]
    /\ queue' = Tail(queue)
    /\ Goto(w, "lookup")
    /\ UNCHANGED <<status, retryCount, toQueue, batch, seen, delivered, abandoned, faults, crashes>>

(* Mutant: an event that is being processed is skipped too. *)
LookupPendingOnly(w) ==
    /\ pc[w] = "lookup"
    /\ IF status[job[w].event] \in {"processed", "processing"}
       THEN End(w)
       ELSE Goto(w, "processing") /\ UNCHANGED <<job, seen>>
    /\ UNCHANGED <<status, retryCount, toQueue, batch, queue, delivered, abandoned, faults, crashes>>

(* A job is queued for a stored event only, and events are not deleted, so *)
(* the event is always found.                                              *)
Lookup(w) ==
    /\ pc[w] = "lookup"
    /\ \/ status[job[w].event] = "processed" /\ End(w)
       \/ status[job[w].event] # "processed" /\ Goto(w, "processing") /\ UNCHANGED <<job, seen>>
    /\ UNCHANGED <<status, retryCount, toQueue, batch, queue, delivered, abandoned, faults, crashes>>

(* Mutant: the event is marked processed before it is published. *)
MarkProcessedFirst(w) ==
    /\ pc[w] = "processing"
    /\ status' = [status EXCEPT ![job[w].event] = "processed"]
    /\ abandoned' = abandoned \ {job[w].event}
    /\ Goto(w, "publish")
    /\ UNCHANGED <<retryCount, toQueue, batch, queue, job, seen, delivered, faults, crashes>>

MarkAsProcessing(w) ==
    /\ pc[w] = "processing"
    /\ status' = [status EXCEPT ![job[w].event] = "processing"]
    /\ abandoned' = abandoned \ {job[w].event}
    /\ Goto(w, "publish")
    /\ UNCHANGED <<retryCount, toQueue, batch, queue, job, seen, delivered, faults, crashes>>

PublishEvent(w) ==
    /\ pc[w] = "publish"
    /\ delivered' = delivered \cup {job[w].event}
    /\ Goto(w, "processed")
    /\ UNCHANGED <<status, retryCount, toQueue, batch, queue, job, seen, abandoned, faults, crashes>>

MarkAsProcessed(w) ==
    /\ pc[w] = "processed"
    /\ status' = [status EXCEPT ![job[w].event] = "processed"]
    /\ End(w)
    /\ UNCHANGED <<retryCount, toQueue, batch, queue, delivered, abandoned, faults, crashes>>

(* One of these calls throws.  A rejected database call has had no effect, *)
(* but a rejected publishEvent may have reached the webhook.               *)
Throw(w) ==
    /\ pc[w] \in Caught
    /\ Rejected(pc[w])
    /\ \/ UNCHANGED delivered
       \/ pc[w] = "publish" /\ delivered' = delivered \cup {job[w].event}
    /\ Goto(w, "failing")
    /\ UNCHANGED <<status, retryCount, toQueue, batch, queue, job, seen, abandoned, crashes>>

(* markAsFailed reads the event and writes its count, plus one, back. *)
MarkAsFailedRead(w) ==
    /\ pc[w] = "failing"
    /\ seen' = [seen EXCEPT ![w] = retryCount[job[w].event]]
    /\ Goto(w, "failed")
    /\ UNCHANGED <<status, retryCount, toQueue, batch, queue, job, delivered, abandoned, faults, crashes>>

(* Mutant: the status is one the schema does not know. *)
MarkAsRetry(w) ==
    /\ pc[w] = "failed"
    /\ status' = [status EXCEPT ![job[w].event] = "retry"]
    /\ retryCount' = [retryCount EXCEPT ![job[w].event] = seen[w] + 1]
    /\ End(w)
    /\ UNCHANGED <<toQueue, batch, queue, delivered, abandoned, faults, crashes>>

MarkAsFailed(w) ==
    /\ pc[w] = "failed"
    /\ status' = [status EXCEPT ![job[w].event] = "failed"]
    /\ retryCount' = [retryCount EXCEPT ![job[w].event] = seen[w] + 1]
    /\ End(w)
    /\ UNCHANGED <<toQueue, batch, queue, delivered, abandoned, faults, crashes>>

(* markAsFailed throws in turn, out of process(): the job has failed and   *)
(* the event keeps the status it has.                                      *)
MarkAsFailedThrows(w) ==
    /\ pc[w] \in {"failing", "failed"}
    /\ Rejected(pc[w])
    /\ abandoned' = abandoned \cup {job[w].event}
    /\ End(w)
    /\ UNCHANGED <<status, retryCount, toQueue, batch, queue, delivered, crashes>>

(* The process of w dies.  BullMQ finds the job stalled and queues it      *)
(* again, but only once (maxStalledCount is 1).                            *)
Crash(w) ==
    /\ pc[w] # "idle"
    /\ crashes < MaxCrashes
    /\ crashes' = crashes + 1
    /\ End(w)
    /\ queue' = IF job[w].stalls = 0
                THEN <<[job[w] EXCEPT !.stalls = 1]>> \o queue
                ELSE queue
    /\ UNCHANGED <<status, retryCount, toQueue, batch, delivered, abandoned, faults>>

-----------------------------------------------------------------------------
Work(w) ==
    \/ Take(w)
    \/ Lookup(w)
    \/ MarkAsProcessing(w)
    \/ PublishEvent(w)
    \/ MarkAsProcessed(w)
    \/ MarkAsFailedRead(w)
    \/ MarkAsFailed(w)

Next ==
    \/ \E e \in Events : CreateEvent(e) \/ EnqueueJob(e) \/ RelayEnqueue(e)
    \/ RelayRead
    \/ \E w \in Workers : Work(w) \/ Throw(w) \/ MarkAsFailedThrows(w) \/ Crash(w)

Spec == Init /\ [][Next]_vars

(* Cron keeps calling the relay, and workers keep running.  Nothing is     *)
(* assumed of handlers: one may stop after createEvent for good.           *)
FairSpec ==
    /\ Spec
    /\ WF_vars(RelayRead)
    /\ \A e \in Events : WF_vars(RelayEnqueue(e))
    /\ \A w \in Workers : WF_vars(Work(w))

-----------------------------------------------------------------------------
(* An event is "processed" only if the webhook has received it, whatever   *)
(* workers race on it.                                                     *)
ProcessedWasDelivered == \A e \in Events : status[e] = "processed" => e \in delivered

OnWorker(e) == \E w \in Workers : pc[w] # "idle" /\ job[w].event = e

(* The relay reads pending events only, so nothing would ever look at an   *)
(* event left in "processing": a worker has it, a job waits for it, or a   *)
(* worker failed that could not record its failure either.                 *)
ProcessingIsAttended ==
    \A e \in Events :
        status[e] = "processing" => OnWorker(e) \/ Waiting(e) # {} \/ e \in abandoned

(* A stored event does not stay pending, even if its handler stopped       *)
(* before queueing the job.                                                *)
PendingIsTaken == \A e \in Events : status[e] = "pending" ~> status[e] # "pending"

(* Every stored event ends up processed or failed, and stays so, or in     *)
(* "processing" where a worker could not record its failure.               *)
EventSettles ==
    \A e \in Events : status[e] # "none" ~>
        [](status[e] \in {"processed", "failed"} \/ (status[e] = "processing" /\ e \in abandoned))

(* "Reliable event delivery with retries" (README.md:246): every stored    *)
(* event is delivered, given that the webhook rejects a bounded number of  *)
(* calls.                                                                  *)
EventuallyDelivered == \A e \in Events : status[e] # "none" ~> e \in delivered
=============================================================================
