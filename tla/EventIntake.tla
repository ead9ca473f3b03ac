------------------------------ MODULE EventIntake ------------------------------
(***************************************************************************)
(* Events from the other services: src/src/modules/events (ingest, the     *)
(* worker, the sweep), the alert it may raise                              *)
(* (inbox/notifications.gateway.ts) and ensureReview of the sender-ID desk.*)
(*                                                                         *)
(* A delivery stores the event and queues a job; a worker runs the job;    *)
(* the sweep queues another job for an event that has not finished.  Every *)
(* database or Redis call is a step of its own, any of them may throw, and *)
(* the process may stop anywhere: MaxFaults bounds how often.              *)
(***************************************************************************)
EXTENDS Naturals, FiniteSets

CONSTANTS Events,      \* the event ids the producers use
          Kinds,       \* the event types among them
          Deliveries,  \* ingest calls that run at once: a bound
          Workers,     \* jobs one queue runs at once (5 in the code): a bound
          Retries,     \* sweep jobs of one event on file at once: a bound
          JobTries,    \* DEFAULT_JOB_OPTIONS.attempts
          SweepLimit,  \* the sweep leaves an event with this many attempts alone
          Spike,       \* PAYMENT_FAILURE_SPIKE
          MaxFaults    \* failures and stops in one behaviour: a bound

ASSUME EventAssumption ==
  /\ Kinds \subseteq {"auth.signin", "payment.failed", "senderid.submitted", "usage.recorded"}
  /\ JobTries \in Nat \ {0} /\ SweepLimit \in Nat \ {0} /\ Spike \in Nat \ {0}
  /\ MaxFaults \in Nat
  /\ "main" \notin Retries /\ IsFiniteSet(Workers)

VARIABLES kind,      \* what each event is: the producer's choice
          row,       \* the ingested_events table
          delivery,  \* what each running ingest call has still to do
          job,       \* the events queue
          worker,    \* what each running job has still to do
          recorded,  \* sign-in rows written for an event
          reviews,   \* events whose application has a review row
          overlooked,  \* history: events whose application a run took for a draft
          alerts,    \* payment spike alerts sent
          faults

vars == <<kind, row, delivery, job, worker, recorded, reviews, overlooked, alerts, faults>>

Jobs == Events \X ({"main"} \cup Retries)

NoRow == [status |-> "NONE", attempts |-> 0]

NoJob == [at |-> "none", tries |-> 0, stalled |-> FALSE]

NewJob == [at |-> "waiting", tries |-> 0, stalled |-> FALSE]

Free == [at |-> "idle", job |-> <<>>]

Stored(e) == row[e].status # "NONE"

EventOf(w) == worker[w].job[1]

TypeOK ==
  /\ kind \in [Events -> Kinds]
  /\ row \in [Events ->
       [status : {"NONE", "PENDING", "PROCESSING", "PROCESSED", "FAILED"}, attempts : Nat]]
  /\ delivery \in [Deliveries -> ({"create", "enqueue"} \X Events) \cup {<<>>}]
  /\ job \in [Jobs -> [at : {"none", "waiting", "active"}, tries : 0..JobTries,
                       stalled : BOOLEAN]]
  /\ worker \in [Workers ->
       [at : {"idle", "read", "claim", "handle", "create", "record", "fail"},
        job : Jobs \cup {<<>>}]]
  /\ recorded \in [Events -> Nat] /\ alerts \in Nat
  /\ reviews \subseteq Events /\ overlooked \subseteq Events /\ faults \in 0..MaxFaults

Init ==
  /\ kind \in [Events -> Kinds]
  /\ row = [e \in Events |-> NoRow]
  /\ delivery = [d \in Deliveries |-> <<>>]
  /\ job = [j \in Jobs |-> NoJob]
  /\ worker = [w \in Workers |-> Free]
  /\ recorded = [e \in Events |-> 0]
  /\ reviews = {} /\ overlooked = {} /\ alerts = 0 /\ faults = 0

Fault == faults < MaxFaults /\ faults' = faults + 1

--------------------------------------------------------------------------------
(* ingest.  A known event is answered as a duplicate and changes nothing.  *)

Ingest(d, e) ==
  /\ delivery[d] = <<>>
  /\ ~Stored(e)
  /\ delivery' = [delivery EXCEPT ![d] = <<"create", e>>]
  /\ UNCHANGED <<kind, row, job, worker, recorded, reviews, overlooked, alerts, faults>>

(* event_id is unique: of two racing deliveries the second create throws. *)
CreateRow(d, e) ==
  /\ delivery[d] = <<"create", e>>
  /\ IF Stored(e)
     THEN delivery' = [delivery EXCEPT ![d] = <<>>] /\ UNCHANGED row
     ELSE /\ delivery' = [delivery EXCEPT ![d] = <<"enqueue", e>>]
          /\ row' = [row EXCEPT ![e] = [status |-> "PENDING", attempts |-> 0]]
  /\ UNCHANGED <<kind, job, worker, recorded, reviews, overlooked, alerts, faults>>

Enqueue(d, e) ==
  /\ delivery[d] = <<"enqueue", e>>
  /\ delivery' = [delivery EXCEPT ![d] = <<>>]
  /\ job' = [job EXCEPT ![<<e, "main">>] = NewJob]
  /\ UNCHANGED <<kind, row, worker, recorded, reviews, overlooked, alerts, faults>>

DeliveryStops(d) ==
  /\ delivery[d] # <<>>
  /\ delivery' = [delivery EXCEPT ![d] = <<>>]
  /\ Fault
  /\ UNCHANGED <<kind, row, job, worker, recorded, reviews, overlooked, alerts>>

(* sweep, one event of it.  It reads no queue, so the event's own job may be *)
(* waiting still; how old the row is does not show here, so that any stored  *)
(* row may be two minutes old.                                               *)
SweepPendingOnly(e, r) ==
  /\ row[e].status = "PENDING"
  /\ row[e].attempts < SweepLimit
  /\ job[<<e, r>>] = NoJob
  /\ job' = [job EXCEPT ![<<e, r>>] = NewJob]
  /\ UNCHANGED <<kind, row, delivery, worker, recorded, reviews, overlooked, alerts, faults>>

Sweep(e, r) ==
  /\ row[e].status \in {"PENDING", "PROCESSING"}
  /\ row[e].attempts < SweepLimit
  /\ job[<<e, r>>] = NoJob
  /\ job' = [job EXCEPT ![<<e, r>>] = NewJob]
  /\ UNCHANGED <<kind, row, delivery, worker, recorded, reviews, overlooked, alerts, faults>>

--------------------------------------------------------------------------------
(* The worker: what BullMQ does with a job.                                *)

Take(w, j) ==
  /\ worker[w] = Free
  /\ job[j].at = "waiting"
  /\ job' = [job EXCEPT ![j].at = "active"]
  /\ worker' = [worker EXCEPT ![w] = [at |-> "read", job |-> j]]
  /\ UNCHANGED <<kind, row, delivery, recorded, reviews, overlooked, alerts, faults>>

Goto(w, stage) == worker' = [worker EXCEPT ![w].at = stage]

JobDone(w) ==
  /\ worker' = [worker EXCEPT ![w] = Free]
  /\ job' = [job EXCEPT ![worker[w].job] = NoJob]

(* A job that threw waits for its next try, if it has one left. *)
JobThrew(w) ==
  LET j == worker[w].job
  IN /\ worker' = [worker EXCEPT ![w] = Free]
     /\ job' = [job EXCEPT ![j] =
          IF @.tries + 1 < JobTries
          THEN [at |-> "waiting", tries |-> @.tries + 1, stalled |-> @.stalled]
          ELSE NoJob]

(* The process stops: the job stalls and runs again, once. *)
WorkerStops(w) ==
  /\ worker[w] # Free
  /\ worker' = [worker EXCEPT ![w] = Free]
  /\ job' = [job EXCEPT ![worker[w].job] =
       IF @.stalled THEN NoJob ELSE [at |-> "waiting", tries |-> @.tries, stalled |-> TRUE]]
  /\ Fault
  /\ UNCHANGED <<kind, row, delivery, recorded, reviews, overlooked, alerts>>

(* run: reads the event; a finished one is skipped. *)
ReadEvent(w) ==
  /\ worker[w].at = "read"
  /\ IF row[EventOf(w)].status = "PROCESSED"
     THEN JobDone(w)
     ELSE Goto(w, "claim") /\ UNCHANGED job
  /\ UNCHANGED <<kind, row, delivery, recorded, reviews, overlooked, alerts, faults>>

(* The status is not looked at again: another job may have finished the event. *)
ClaimUncounted(w) ==
  /\ worker[w].at = "claim"
  /\ row' = [row EXCEPT ![EventOf(w)].status = "PROCESSING"]
  /\ Goto(w, "handle")
  /\ UNCHANGED <<kind, delivery, job, recorded, reviews, overlooked, alerts, faults>>

ClaimAsDone(w) ==
  /\ worker[w].at = "claim"
  /\ row' = [row EXCEPT ![EventOf(w)] =
               [status |-> "PROCESSED", attempts |-> row[EventOf(w)].attempts + 1]]
  /\ Goto(w, "handle")
  /\ UNCHANGED <<kind, delivery, job, recorded, reviews, overlooked, alerts, faults>>

Claim(w) ==
  /\ worker[w].at = "claim"
  /\ row' = [row EXCEPT ![EventOf(w)] =
               [status |-> "PROCESSING", attempts |-> row[EventOf(w)].attempts + 1]]
  /\ Goto(w, "handle")
  /\ UNCHANGED <<kind, delivery, job, recorded, reviews, overlooked, alerts, faults>>

--------------------------------------------------------------------------------
(* handle, by the type of the event.                                       *)

(* Events whose rows the rollups read from their source. *)
HandleNothing(w) ==
  /\ worker[w].at = "handle" /\ kind[EventOf(w)] = "usage.recorded"
  /\ Goto(w, "record")
  /\ UNCHANGED <<kind, row, delivery, job, recorded, reviews, overlooked, alerts, faults>>

HandleSignIn(w) ==
  /\ worker[w].at = "handle" /\ kind[EventOf(w)] = "auth.signin"
  /\ recorded' = [recorded EXCEPT ![EventOf(w)] = @ + 1]
  /\ Goto(w, "record")
  /\ UNCHANGED <<kind, row, delivery, job, reviews, overlooked, alerts, faults>>

(* ensureReview: finds the review, or reads the application on a replica    *)
(* that may still lack it, which throws, or still show the draft, which     *)
(* counts as done; a filed one gets its review next.                        *)
HandleSubmitted(w) ==
  /\ worker[w].at = "handle" /\ kind[EventOf(w)] = "senderid.submitted"
  /\ \/ EventOf(w) \in reviews /\ Goto(w, "record") /\ UNCHANGED overlooked
     \/ EventOf(w) \notin reviews /\ Goto(w, "record") /\ overlooked' = overlooked \cup {EventOf(w)}
     \/ EventOf(w) \notin reviews /\ Goto(w, "fail") /\ UNCHANGED overlooked
     \/ EventOf(w) \notin reviews /\ Goto(w, "create") /\ UNCHANGED overlooked
  /\ UNCHANGED <<kind, row, delivery, job, recorded, reviews, alerts, faults>>

(* application_id is unique: a second create throws. *)
CreateReview(w) ==
  /\ worker[w].at = "create"
  /\ reviews' = reviews \cup {EventOf(w)}
  /\ Goto(w, IF EventOf(w) \in reviews THEN "fail" ELSE "record")
  /\ UNCHANGED <<kind, row, delivery, job, recorded, overlooked, alerts, faults>>

(* Failed payments of the last hour: every one received, processed or not.   *)
(* The runs cover one hour.                                                  *)
recent == Cardinality({e \in Events : Stored(e) /\ kind[e] = "payment.failed"})

(* broadcastToPermission: the inbox lines are one write; the live message and *)
(* the mail that follow may throw or are only logged.                         *)
HandlePaymentFailed(w) ==
  /\ worker[w].at = "handle" /\ kind[EventOf(w)] = "payment.failed"
  /\ alerts' = IF recent = Spike THEN alerts + 1 ELSE alerts
  /\ Goto(w, "record")
  /\ UNCHANGED <<kind, row, delivery, job, recorded, reviews, overlooked, faults>>

(* Anything inside the try block throws: what was done stays done. *)
HandleThrows(w) ==
  /\ worker[w].at \in {"handle", "create", "record"}
  /\ Goto(w, "fail")
  /\ Fault
  /\ UNCHANGED <<kind, row, delivery, job, recorded, reviews, overlooked, alerts>>

RecordProcessed(w) ==
  /\ worker[w].at = "record"
  /\ row' = [row EXCEPT ![EventOf(w)].status = "PROCESSED"]
  /\ JobDone(w)
  /\ UNCHANGED <<kind, delivery, recorded, reviews, overlooked, alerts, faults>>

RecordFailed(w) ==
  /\ worker[w].at = "fail"
  /\ row' = [row EXCEPT ![EventOf(w)].status = "FAILED"]
  /\ JobThrew(w)
  /\ UNCHANGED <<kind, delivery, recorded, reviews, overlooked, alerts, faults>>

(* The read, the claim or the catch block's own write throws. *)
RunThrows(w) ==
  /\ worker[w].at \in {"read", "claim", "fail"}
  /\ JobThrew(w)
  /\ Fault
  /\ UNCHANGED <<kind, row, delivery, recorded, reviews, overlooked, alerts>>

Run(w) ==
  \/ ReadEvent(w) \/ Claim(w) \/ HandleNothing(w) \/ HandleSignIn(w) \/ HandleSubmitted(w)
  \/ CreateReview(w) \/ HandlePaymentFailed(w) \/ RecordProcessed(w) \/ RecordFailed(w)

Next ==
  \/ \E d \in Deliveries : \/ \E e \in Events : Ingest(d, e) \/ CreateRow(d, e) \/ Enqueue(d, e)
                           \/ DeliveryStops(d)
  \/ \E e \in Events, r \in Retries : Sweep(e, r)
  \/ \E w \in Workers, j \in Jobs : Take(w, j)
  \/ \E w \in Workers : Run(w) \/ HandleThrows(w) \/ RunThrows(w) \/ WorkerStops(w)

(* The scheduler fires the sweep every ten minutes, the queue hands out its  *)
(* jobs in the order they came, and a running job goes on.  Nothing is       *)
(* assumed of the deliveries: the process may have stopped for good in one.  *)
Fairness ==
  /\ \A e \in Events : WF_vars(\E r \in Retries : Sweep(e, r))
  /\ \A j \in Jobs : SF_vars(\E w \in Workers : Take(w, j))
  /\ \A w \in Workers : WF_vars(Run(w))

Spec == Init /\ [][Next]_vars /\ Fairness

--------------------------------------------------------------------------------
Settled(e) == row[e].status \in {"PROCESSED", "FAILED"}

(* An event that was stored is not forgotten: for good from some point on it *)
(* is processed, or marked failed, or has used up the attempts the sweep     *)
(* allows - though a delivery stops before it queues the job, jobs throw,    *)
(* workers die, and a late job takes up an event another one has finished    *)
(* (sweep and run).                                                          *)
NothingForgotten ==
  \A e \in Events : Stored(e) ~> [](Settled(e) \/ row[e].attempts >= SweepLimit)

(* An event that says PROCESSED had its effect, whichever of its runs wrote  *)
(* that word: the sign-in is on record, and the review exists unless one of  *)
(* the runs took the application for a draft (run, handle, ensureReview).    *)
ProcessedMeansHandled ==
  \A e \in Events : row[e].status = "PROCESSED" =>
    /\ kind[e] = "auth.signin" => recorded[e] > 0
    /\ kind[e] = "senderid.submitted" => e \in reviews \cup overlooked

(* Repeats show: a sign-in is never on record more often than the attempts   *)
(* its event counts, through all retries and overlapping runs (run).         *)
AttemptsCoverEffects == \A e \in Events : recorded[e] <= row[e].attempts

(* "Fires exactly on the threshold crossing, so the alert is sent once."     *)
(* (events.processor.ts:115): two runs that both count after the crossing,   *)
(* or a retry of one, each send it.                                          *)
SpikeAlertSentOnce == alerts <= 1

(* "Creates the review shell when a `senderid.submitted` event arrives."    *)
(* (sender-ids.service.ts:57): such an event is not PROCESSED without one.  *)
(* Not so: the replica may still show the draft, and null is no failure.    *)
SubmittedMeansReview ==
  \A e \in Events :
    row[e].status = "PROCESSED" /\ kind[e] = "senderid.submitted" => e \in reviews
================================================================================
