--------------------------- MODULE EventIntake_proofs ---------------------------
(***************************************************************************)
(* The safety of the event intake, for any events, deliveries, workers,     *)
(* retries, limits and faults.                                              *)
(*                                                                         *)
(* That PROCESSED means handled rests on every run about to write that word *)
(* having handled its event (AboutToRecord).  That a sign-in is on record   *)
(* no more often than its event counts attempts rests on counting the runs  *)
(* that have claimed the event and not handled it yet along with the rows:  *)
(* Claim adds one to both sides, the handler trades a run for a row         *)
(* (CountOK).                                                               *)
(*                                                                         *)
(* The last part is about the rollups of a day (Rollups).  That a day heals *)
(* rests on instants: a run on its own has the latest there is, so what it  *)
(* sweeps is everything it has not written (UsageFits); that a sweep keeps  *)
(* what its run wrote, on whoever swept since having written a later        *)
(* instant in its place, or having left nothing (SweepFits).                *)
(***************************************************************************)
EXTENDS EventIntake, Rollups, FiniteSetTheorems, TLAPS

RunStages == {"read", "claim", "handle", "create", "record", "fail"}

Slots == {Free} \cup [at : RunStages, job : Jobs]

RowType == [status : {"NONE", "PENDING", "PROCESSING", "PROCESSED", "FAILED"}, attempts : Nat]

JobType == [at : {"none", "waiting", "active"}, tries : 0..JobTries, stalled : BOOLEAN]

(* Who works has a job; a row not yet stored counts nothing. *)
SlotsOK == worker \in [Workers -> Slots]

BlankOK == \A e \in Events : ~Stored(e) => row[e] = NoRow

Handled(e) ==
  /\ kind[e] = "auth.signin" => recorded[e] > 0
  /\ kind[e] = "senderid.submitted" => e \in reviews \cup overlooked

AboutToRecord ==
  \A w \in Workers : /\ worker[w].at = "record" => Handled(EventOf(w))
                     /\ worker[w].at = "create" => kind[EventOf(w)] = "senderid.submitted"

(* The runs that have claimed an event and not handled it yet. *)
Claimed(e) == {w \in Workers : worker[w].at = "handle" /\ EventOf(w) = e}

CountOK == \A e \in Events : Cardinality(Claimed(e)) + recorded[e] <= row[e].attempts

IInv ==
  TypeOK /\ SlotsOK /\ BlankOK /\ AboutToRecord /\ ProcessedMeansHandled /\ CountOK

(* What a step may do to the workers: fill, change or empty the slot of w. *)
OnlySlot(w) ==
  worker' \in [Workers -> Slots] /\ \A v \in Workers \ {w} : worker'[v] = worker[v]

--------------------------------------------------------------------------------
(* Slots *)

LEMMA JobParts == ASSUME NEW j \in Jobs PROVE j[1] \in Events
  BY DEF Jobs

LEMMA SlotParts ==
  ASSUME SlotsOK, NEW w \in Workers, worker[w].at # "idle"
  PROVE  /\ worker[w] \in [at : RunStages, job : Jobs] /\ EventOf(w) \in Events
  BY JobParts DEF SlotsOK, Slots, Free, EventOf

LEMMA FreeSlot == Free \in Slots /\ Free.at = "idle" /\ "idle" \notin RunStages
  BY DEF Free, Slots, RunStages

LEMMA GotoSlot ==
  ASSUME SlotsOK, NEW w \in Workers, worker[w].at # "idle", NEW stage \in RunStages, Goto(w, stage)
  PROVE  /\ OnlySlot(w) /\ worker'[w].at = stage /\ EventOf(w)' = EventOf(w)
<1>1. worker[w] \in [at : RunStages, job : Jobs]
  BY SlotParts
<1>2. worker' = [worker EXCEPT ![w] = [worker[w] EXCEPT !.at = stage]]
  BY DEF Goto
<1>3. [worker[w] EXCEPT !.at = stage] \in [at : RunStages, job : Jobs]
  BY <1>1
<1> QED BY <1>1, <1>2, <1>3 DEF SlotsOK, Slots, OnlySlot, EventOf

LEMMA EmptySlot ==
  ASSUME SlotsOK, NEW w \in Workers, worker' = [worker EXCEPT ![w] = Free]
  PROVE  OnlySlot(w) /\ worker'[w].at = "idle"
  BY FreeSlot DEF SlotsOK, OnlySlot

--------------------------------------------------------------------------------
(* Counting *)

LEMMA ClaimedFinite ==
  \A e : IsFiniteSet(Claimed(e)) /\ Cardinality(Claimed(e)) \in Nat
<1> TAKE e
<1>1. IsFiniteSet(Workers) /\ Claimed(e) \subseteq Workers
  BY EventAssumption DEF Claimed
<1> QED BY <1>1, FS_Subset, FS_CardinalityType

(* A step after which nobody new has claimed an event. *)
LEMMA CountKept ==
  ASSUME IInv, NEW w \in Workers, OnlySlot(w), worker'[w].at # "handle",
         recorded' = recorded, row' \in [Events -> RowType],
         \A e \in Events : row'[e].attempts >= row[e].attempts
  PROVE  CountOK'
<1> SUFFICES ASSUME NEW e \in Events
             PROVE  Cardinality(Claimed(e)') + recorded[e] <= row'[e].attempts
  BY DEF CountOK
<1>1. Claimed(e)' \subseteq Claimed(e)
  BY DEF Claimed, OnlySlot, EventOf
<1>2. /\ Cardinality(Claimed(e)') <= Cardinality(Claimed(e))
      /\ Cardinality(Claimed(e)') \in Nat /\ Cardinality(Claimed(e)) \in Nat
  BY <1>1, ClaimedFinite, FS_Subset, FS_CardinalityType
<1>3. Cardinality(Claimed(e)) + recorded[e] <= row[e].attempts
  BY DEF IInv, CountOK
<1>4. recorded[e] \in Nat /\ row[e].attempts \in Nat /\ row'[e].attempts \in Nat
  BY DEF IInv, TypeOK, RowType
<1>5. row'[e].attempts >= row[e].attempts
  OBVIOUS
<1> QED BY <1>2, <1>3, <1>4, <1>5

(* A step that leaves workers and sign-ins alone. *)
LEMMA CountSame ==
  ASSUME IInv, worker' = worker, recorded' = recorded,
         \A e \in Events : row'[e].attempts = row[e].attempts
  PROVE  CountOK'
<1>1. \A e \in Events : Claimed(e)' = Claimed(e)
  BY DEF Claimed, EventOf
<1> QED BY <1>1 DEF IInv, CountOK

LEMMA HandledKept ==
  ASSUME IInv, kind' = kind, reviews \subseteq reviews', overlooked \subseteq overlooked',
         recorded' = recorded, NEW e, Handled(e)
  PROVE  Handled(e)'
  BY DEF Handled

(* A step of one worker that neither claims nor records a sign-in. *)
LEMMA WorkerStep ==
  ASSUME IInv, NEW w \in Workers, OnlySlot(w), worker'[w].at # "handle",
         worker'[w].at = "record" => Handled(EventOf(w))',
         worker'[w].at = "create" => kind[EventOf(w)'] = "senderid.submitted",
         UNCHANGED <<kind, delivery, recorded>>,
         row' \in [Events -> RowType], BlankOK',
         \A e \in Events : row'[e].attempts >= row[e].attempts,
         \A e \in Events : row'[e].status = "PROCESSED" => row[e].status = "PROCESSED" \/ Handled(e),
         job' \in [Jobs -> JobType], reviews \subseteq reviews', reviews' \subseteq Events,
         overlooked \subseteq overlooked', overlooked' \subseteq Events,
         alerts' \in Nat, faults' \in 0..MaxFaults
  PROVE  IInv'
<1>1. SlotsOK'
  BY DEF OnlySlot, SlotsOK
<1>2. TypeOK'
  <2>1. worker' \in [Workers ->
           [at : {"idle", "read", "claim", "handle", "create", "record", "fail"},
            job : Jobs \cup {<<>>}]]
    BY DEF OnlySlot, Slots, Free, RunStages
  <2> QED BY <2>1 DEF IInv, TypeOK, RowType, JobType
<1>3. AboutToRecord'
  BY HandledKept DEF IInv, AboutToRecord, OnlySlot, EventOf
<1>4. ProcessedMeansHandled'
  <2> SUFFICES ASSUME NEW e \in Events, row'[e].status = "PROCESSED"
               PROVE  Handled(e)'
    BY DEF ProcessedMeansHandled, Handled
  <2>1. Handled(e)
    BY DEF IInv, ProcessedMeansHandled, Handled
  <2> QED BY <2>1, HandledKept
<1>5. CountOK'
  BY CountKept
<1> QED BY <1>1, <1>2, <1>3, <1>4, <1>5 DEF IInv

--------------------------------------------------------------------------------
LEMMA Types ==
  ASSUME IInv
  PROVE  /\ SlotsOK /\ BlankOK /\ row \in [Events -> RowType] /\ job \in [Jobs -> JobType]
         /\ recorded \in [Events -> Nat] /\ reviews \subseteq Events /\ alerts \in Nat
         /\ overlooked \subseteq Events
         /\ faults \in 0..MaxFaults
  BY DEF IInv, TypeOK, RowType, JobType

LEMMA JobTypes ==
  /\ NoJob \in JobType /\ NewJob \in JobType
  BY EventAssumption DEF NoJob, NewJob, JobType

LEMMA ThrewJob ==
  ASSUME IInv, NEW w \in Workers, worker[w].at # "idle", JobThrew(w)
  PROVE  /\ OnlySlot(w) /\ worker'[w].at = "idle" /\ job' \in [Jobs -> JobType]
<1>1. worker[w].job \in Jobs
  BY SlotParts, Types
<1>2. OnlySlot(w) /\ worker'[w].at = "idle"
  BY EmptySlot, Types DEF JobThrew
<1> DEFINE old == job[worker[w].job]
           new == IF old.tries + 1 < JobTries
                  THEN [at |-> "waiting", tries |-> old.tries + 1, stalled |-> old.stalled]
                  ELSE NoJob
<1>3. job' = [job EXCEPT ![worker[w].job] = new]
  BY DEF JobThrew
<1>4. old \in JobType
  BY <1>1, Types
<1>5. new \in JobType
  BY <1>4, JobTypes, EventAssumption DEF JobType
<1> HIDE DEF new
<1> QED BY <1>2, <1>3, <1>5, Types

LEMMA DoneJob ==
  ASSUME IInv, NEW w \in Workers, worker[w].at # "idle", JobDone(w)
  PROVE  /\ OnlySlot(w) /\ worker'[w].at = "idle" /\ job' \in [Jobs -> JobType]
<1>1. OnlySlot(w) /\ worker'[w].at = "idle"
  BY EmptySlot, Types DEF JobDone
<1> QED BY <1>1, Types, JobTypes DEF JobDone

(* The row of the event a worker writes. *)
LEMMA RowWritten ==
  ASSUME IInv, NEW w \in Workers, worker[w].at # "idle", NEW status \in {"PROCESSED", "FAILED"},
         row' = [row EXCEPT ![EventOf(w)].status = status]
  PROVE  /\ row' \in [Events -> RowType] /\ BlankOK'
         /\ \A e \in Events : row'[e].attempts >= row[e].attempts
         /\ \A e \in Events : row'[e].status \in {row[e].status, status}
         /\ \A e \in Events \ {EventOf(w)} : row'[e] = row[e]
<1>1. EventOf(w) \in Events /\ row \in [Events -> RowType] /\ BlankOK
  BY SlotParts, Types
<1> DEFINE new == [row[EventOf(w)] EXCEPT !.status = status]
<1>2. row' = [row EXCEPT ![EventOf(w)] = new]
  OBVIOUS
<1>3. new \in RowType /\ new.status = status /\ new.attempts = row[EventOf(w)].attempts
  BY <1>1 DEF RowType
<1> HIDE DEF new
<1>4. row' \in [Events -> RowType]
  BY <1>1, <1>2, <1>3
<1>5. BlankOK'
  BY <1>1, <1>2, <1>3 DEF BlankOK, Stored
<1>6. \A e \in Events : row'[e].attempts = row[e].attempts /\ row[e].attempts \in Nat
  BY <1>1, <1>2, <1>3 DEF RowType
<1>7. \A e \in Events : row'[e].status \in {row[e].status, status}
  BY <1>1, <1>2, <1>3
<1> QED BY <1>1, <1>2, <1>4, <1>5, <1>6, <1>7

--------------------------------------------------------------------------------
(* The start, the deliveries and the sweep *)

LEMMA InitInv == Init => IInv
<1> SUFFICES ASSUME Init PROVE IInv
  OBVIOUS
<1>1. TypeOK
  BY EventAssumption DEF Init, TypeOK, NoRow, NoJob, Free
<1>2. SlotsOK
  BY FreeSlot DEF Init, SlotsOK
<1>3. BlankOK /\ AboutToRecord /\ ProcessedMeansHandled
  BY DEF Init, BlankOK, AboutToRecord, ProcessedMeansHandled, NoRow, Free
<1>4. CountOK
  <2> SUFFICES ASSUME NEW e \in Events
               PROVE  Cardinality(Claimed(e)) + recorded[e] <= row[e].attempts
    BY DEF CountOK
  <2>1. Claimed(e) = {}
    BY DEF Claimed, Init, Free
  <2>2. Cardinality(Claimed(e)) = 0
    BY <2>1, FS_EmptySet
  <2> QED BY <2>2 DEF Init, NoRow
<1> QED BY <1>1, <1>2, <1>3, <1>4 DEF IInv

(* A step that no worker takes. *)
LEMMA OtherStep ==
  ASSUME IInv, UNCHANGED <<kind, worker, recorded, reviews, overlooked, alerts>>,
         delivery' \in [Deliveries -> ({"create", "enqueue"} \X Events) \cup {<<>>}],
         row' \in [Events -> RowType], BlankOK',
         \A e \in Events : row'[e].attempts = row[e].attempts,
         \A e \in Events : row'[e].status = "PROCESSED" => row[e].status = "PROCESSED",
         job' \in [Jobs -> JobType], faults' \in 0..MaxFaults
  PROVE  IInv'
<1>1. TypeOK'
  BY DEF IInv, TypeOK, RowType, JobType
<1>2. SlotsOK' /\ AboutToRecord' /\ ProcessedMeansHandled'
  BY DEF IInv, SlotsOK, AboutToRecord, ProcessedMeansHandled, Handled, EventOf
<1>3. CountOK'
  BY CountSame
<1> QED BY <1>1, <1>2, <1>3 DEF IInv

LEMMA SameRows ==
  ASSUME IInv, row' = row
  PROVE  /\ row' \in [Events -> RowType] /\ BlankOK'
         /\ \A e \in Events : row'[e].attempts = row[e].attempts
         /\ \A e \in Events : row'[e].attempts >= row[e].attempts
         /\ \A e \in Events : row'[e].status = "PROCESSED" => row[e].status = "PROCESSED"
<1>1. row' \in [Events -> RowType] /\ BlankOK'
  BY Types DEF BlankOK, Stored
<1>2. \A e \in Events : row[e].attempts \in Nat
  BY Types DEF RowType
<1> QED BY <1>1, <1>2

LEMMA FaultCounted ==
  ASSUME IInv, Fault
  PROVE  faults' \in 0..MaxFaults
  BY EventAssumption, Types DEF Fault

LEMMA DeliverySteps ==
  ASSUME IInv, NEW d \in Deliveries, NEW e \in Events,
         Ingest(d, e) \/ CreateRow(d, e) \/ Enqueue(d, e)
  PROVE  IInv'
<1> DEFINE Calls == ({"create", "enqueue"} \X Events) \cup {<<>>}
<1>1. delivery \in [Deliveries -> Calls]
  BY DEF IInv, TypeOK
<1>2. <<"create", e>> \in Calls /\ <<"enqueue", e>> \in Calls /\ <<>> \in Calls
  OBVIOUS
<1> HIDE DEF Calls
<1>3. CASE Ingest(d, e)
  <2>1. delivery' \in [Deliveries -> Calls]
    BY <1>1, <1>2, <1>3 DEF Ingest
  <2> QED BY <1>3, <2>1, SameRows, Types, OtherStep DEF Ingest, Calls
<1>4. CASE CreateRow(d, e)
  <2>1. delivery' \in [Deliveries -> Calls]
    BY <1>1, <1>2, <1>4 DEF CreateRow
  <2>2. CASE row' = row
    BY <1>4, <2>1, <2>2, SameRows, Types, OtherStep DEF CreateRow, Calls
  <2>3. CASE ~Stored(e) /\ row' = [row EXCEPT ![e] = [status |-> "PENDING", attempts |-> 0]]
    <3>1. row[e] = NoRow
      BY <2>3, Types DEF BlankOK
    <3>2. [status |-> "PENDING", attempts |-> 0] \in RowType
      BY DEF RowType
    <3>3. row' \in [Events -> RowType] /\ BlankOK'
      BY <2>3, <3>2, Types DEF BlankOK, Stored
    <3>4. /\ \A f \in Events : row'[f].attempts = row[f].attempts
          /\ \A f \in Events : row'[f].status = "PROCESSED" => row[f].status = "PROCESSED"
      BY <2>3, <3>1, Types DEF NoRow
    <3> QED BY <1>4, <2>1, <3>3, <3>4, Types, OtherStep DEF CreateRow, Calls
  <2> QED BY <1>4, <2>2, <2>3 DEF CreateRow
<1>5. CASE Enqueue(d, e)
  <2>1. delivery' \in [Deliveries -> Calls]
    BY <1>1, <1>2, <1>5 DEF Enqueue
  <2>2. job' \in [Jobs -> JobType]
    BY <1>5, Types, JobTypes DEF Enqueue
  <2> QED BY <1>5, <2>1, <2>2, SameRows, Types, OtherStep DEF Enqueue, Calls
<1> QED BY <1>3, <1>4, <1>5

LEMMA DeliveryStopsStep ==
  ASSUME IInv, NEW d \in Deliveries, DeliveryStops(d)
  PROVE  IInv'
<1>1. delivery' \in [Deliveries -> ({"create", "enqueue"} \X Events) \cup {<<>>}]
  BY DEF IInv, TypeOK, DeliveryStops
<1> QED BY <1>1, SameRows, FaultCounted, Types, OtherStep DEF DeliveryStops

LEMMA SweepStep ==
  ASSUME IInv, NEW e \in Events, NEW r \in Retries, Sweep(e, r)
  PROVE  IInv'
<1>1. job' \in [Jobs -> JobType]
  BY Types, JobTypes DEF Sweep
<1>2. delivery' \in [Deliveries -> ({"create", "enqueue"} \X Events) \cup {<<>>}]
  BY DEF IInv, TypeOK, Sweep
<1> QED BY <1>1, <1>2, SameRows, Types, OtherStep DEF Sweep

--------------------------------------------------------------------------------
(* The runs *)

LEMMA TakeStep ==
  ASSUME IInv, NEW w \in Workers, NEW j \in Jobs, Take(w, j)
  PROVE  IInv'
<1>1. [at |-> "read", job |-> j] \in Slots
  BY DEF Slots, RunStages
<1>2. OnlySlot(w) /\ worker'[w].at = "read"
  BY <1>1, Types DEF Take, SlotsOK, OnlySlot
<1> DEFINE new == [job[j] EXCEPT !.at = "active"]
<1>3. job' = [job EXCEPT ![j] = new]
  BY DEF Take
<1>4. new \in JobType
  BY Types DEF JobType
<1> HIDE DEF new
<1>5. job' \in [Jobs -> JobType]
  BY <1>3, <1>4, Types
<1> QED BY <1>2, <1>5, SameRows, Types, WorkerStep DEF Take

LEMMA ReadStep ==
  ASSUME IInv, NEW w \in Workers, ReadEvent(w)
  PROVE  IInv'
<1>1. worker[w].at # "idle"
  BY DEF ReadEvent
<1>2. CASE JobDone(w)
  <2>1. OnlySlot(w) /\ worker'[w].at = "idle" /\ job' \in [Jobs -> JobType]
    BY <1>1, <1>2, DoneJob
  <2> QED BY <2>1, SameRows, Types, WorkerStep DEF ReadEvent
<1>3. CASE Goto(w, "claim") /\ job' = job
  <2>1. OnlySlot(w) /\ worker'[w].at = "claim"
    BY <1>1, <1>3, Types, GotoSlot DEF RunStages
  <2> QED BY <1>3, <2>1, SameRows, Types, WorkerStep DEF ReadEvent
<1> QED BY <1>2, <1>3 DEF ReadEvent

(* Claim: one more run that owes a row, one more attempt. *)
LEMMA ClaimStep ==
  ASSUME IInv, NEW w \in Workers, NEW e \in Events, EventOf(w) = e, Claim(w)
  PROVE  IInv'
<1> DEFINE new == [status |-> "PROCESSING", attempts |-> row[e].attempts + 1]
<1>1. worker[w].at = "claim" /\ worker[w].at # "idle" /\ EventOf(w) = e
  BY DEF Claim
<1>2. OnlySlot(w) /\ worker'[w].at = "handle" /\ EventOf(w)' = e
  BY <1>1, Types, GotoSlot DEF Claim, RunStages
<1>3. row' = [row EXCEPT ![e] = new]
  BY DEF Claim
<1>4. /\ new \in RowType /\ new.attempts = row[e].attempts + 1
      /\ new.status # "PROCESSED" /\ new.status # "NONE" /\ row[e].attempts \in Nat
  BY <1>1, Types DEF RowType
<1> HIDE DEF new
<1>5. row' \in [Events -> RowType] /\ BlankOK'
  BY <1>1, <1>3, <1>4, Types DEF BlankOK, Stored
<1>6. TypeOK'
  <2>1. worker' \in [Workers ->
           [at : {"idle", "read", "claim", "handle", "create", "record", "fail"},
            job : Jobs \cup {<<>>}]]
    BY <1>2 DEF OnlySlot, Slots, Free, RunStages
  <2> QED BY <1>5, <2>1 DEF IInv, TypeOK, RowType, Claim
<1>7. SlotsOK'
  BY <1>2 DEF OnlySlot, SlotsOK
<1>8. AboutToRecord'
  BY <1>2 DEF IInv, AboutToRecord, OnlySlot, EventOf, Handled, Claim
<1>9. ProcessedMeansHandled'
  BY <1>1, <1>3, <1>4, Types DEF IInv, ProcessedMeansHandled, Claim
<1>10. CountOK'
  <2> SUFFICES ASSUME NEW f \in Events
               PROVE  Cardinality(Claimed(f)') + recorded[f] <= row'[f].attempts
    BY DEF CountOK, Claim
  <2>1. Cardinality(Claimed(f)) + recorded[f] <= row[f].attempts
    BY DEF IInv, CountOK
  <2>2. CASE f = e
    <3>1. w \notin Claimed(e) /\ Claimed(e)' = Claimed(e) \cup {w}
      BY <1>1, <1>2 DEF Claimed, OnlySlot, EventOf
    <3>2. Cardinality(Claimed(e)') = Cardinality(Claimed(e)) + 1
      <4>1. IsFiniteSet(Claimed(e))
        BY ClaimedFinite
      <4> QED BY <3>1, <4>1, FS_AddElement
    <3>3. row'[e].attempts = row[e].attempts + 1
      BY <1>1, <1>3, <1>4, Types
    <3>4. Cardinality(Claimed(e)) \in Nat /\ recorded[e] \in Nat
      BY <1>1, ClaimedFinite, Types
    <3> QED BY <1>4, <2>1, <2>2, <3>2, <3>3, <3>4
  <2>3. CASE f # e
    <3>1. Claimed(f)' = Claimed(f)
      BY <1>1, <1>2, <2>3 DEF Claimed, OnlySlot, EventOf
    <3>2. row'[f] = row[f]
      BY <1>3, <2>3, Types
    <3> QED BY <2>1, <3>1, <3>2
  <2> QED BY <2>2, <2>3
<1> QED BY <1>5, <1>6, <1>7, <1>8, <1>9, <1>10 DEF IInv

(* The handlers of events that leave no sign-in. *)
LEMMA HandlerSteps ==
  ASSUME IInv, NEW w \in Workers,
         HandleNothing(w) \/ HandleSubmitted(w) \/ CreateReview(w) \/ HandlePaymentFailed(w)
  PROVE  IInv'
<1>1. worker[w].at # "idle"
  BY DEF HandleNothing, HandleSubmitted, CreateReview, HandlePaymentFailed
<1>2. EventOf(w) \in Events
  BY <1>1, Types, SlotParts
<1>3. CASE HandleNothing(w)
  <2>1. OnlySlot(w) /\ worker'[w].at = "record" /\ EventOf(w)' = EventOf(w)
    BY <1>1, <1>3, Types, GotoSlot DEF HandleNothing, RunStages
  <2>2. Handled(EventOf(w))'
    BY <1>3, <2>1 DEF HandleNothing, Handled
  <2> QED BY <1>3, <2>1, <2>2, SameRows, Types, WorkerStep DEF HandleNothing
<1>4. CASE HandleSubmitted(w)
  <2>1. PICK stage \in {"record", "create", "fail"} :
           Goto(w, stage) /\ (stage = "record" => EventOf(w) \in reviews \cup overlooked')
    BY <1>4 DEF HandleSubmitted
  <2>2. OnlySlot(w) /\ worker'[w].at = stage /\ EventOf(w)' = EventOf(w)
    BY <1>1, <2>1, Types, GotoSlot DEF RunStages
  <2>3. stage = "record" => Handled(EventOf(w))'
    BY <1>4, <2>1, <2>2 DEF HandleSubmitted, Handled
  <2>4. kind[EventOf(w)'] = "senderid.submitted"
    BY <1>4, <2>2 DEF HandleSubmitted
  <2>5. overlooked \subseteq overlooked' /\ overlooked' \subseteq Events
    BY <1>2, <1>4, Types DEF HandleSubmitted
  <2>6. /\ UNCHANGED <<kind, row, delivery, job, recorded, reviews, alerts, faults>>
        /\ worker'[w].at # "handle"
        /\ worker'[w].at = "record" => Handled(EventOf(w))'
    BY <1>4, <2>2, <2>3 DEF HandleSubmitted
  <2> QED BY <2>2, <2>4, <2>5, <2>6, SameRows, Types, WorkerStep
<1>5. CASE CreateReview(w)
  <2>1. PICK stage \in {"record", "fail"} : Goto(w, stage)
    BY <1>5 DEF CreateReview
  <2>2. OnlySlot(w) /\ worker'[w].at = stage /\ EventOf(w)' = EventOf(w)
    BY <1>1, <2>1, Types, GotoSlot DEF RunStages
  <2>3. kind[EventOf(w)] = "senderid.submitted"
    BY <1>5 DEF IInv, AboutToRecord, CreateReview
  <2>4. Handled(EventOf(w))'
    BY <1>5, <2>2, <2>3 DEF CreateReview, Handled
  <2>5. reviews \subseteq reviews' /\ reviews' \subseteq Events
    BY <1>2, <1>5, Types DEF CreateReview
  <2> QED BY <1>5, <2>1, <2>2, <2>4, <2>5, SameRows, Types, WorkerStep DEF CreateReview
<1>6. CASE HandlePaymentFailed(w)
  <2>1. OnlySlot(w) /\ worker'[w].at = "record" /\ EventOf(w)' = EventOf(w)
    BY <1>1, <1>6, Types, GotoSlot DEF HandlePaymentFailed, RunStages
  <2>2. Handled(EventOf(w))'
    BY <1>6, <2>1 DEF HandlePaymentFailed, Handled
  <2>3. alerts' \in Nat
    BY <1>6, Types DEF HandlePaymentFailed
  <2> QED BY <1>6, <2>1, <2>2, <2>3, SameRows, Types, WorkerStep DEF HandlePaymentFailed
<1> QED BY <1>3, <1>4, <1>5, <1>6

(* HandleSignIn: a run that owed a row pays it. *)
LEMMA SignInStep ==
  ASSUME IInv, NEW w \in Workers, NEW e \in Events, EventOf(w) = e, HandleSignIn(w)
  PROVE  IInv'
<1>1. worker[w].at = "handle" /\ worker[w].at # "idle" /\ kind[e] = "auth.signin"
  BY DEF HandleSignIn
<1>2. OnlySlot(w) /\ worker'[w].at = "record" /\ EventOf(w)' = e
  BY <1>1, Types, GotoSlot DEF HandleSignIn, RunStages
<1>3. recorded' = [recorded EXCEPT ![e] = recorded[e] + 1]
  BY DEF HandleSignIn
<1>4. /\ recorded' \in [Events -> Nat]
      /\ \A f \in Events : recorded'[f] >= recorded[f] /\ recorded[f] \in Nat
      /\ recorded'[e] = recorded[e] + 1
  BY <1>3, Types
<1>5. \A f \in Events : Handled(f) => Handled(f)'
  BY <1>4 DEF Handled, HandleSignIn
<1>6. TypeOK'
  <2>1. worker' \in [Workers ->
           [at : {"idle", "read", "claim", "handle", "create", "record", "fail"},
            job : Jobs \cup {<<>>}]]
    BY <1>2 DEF OnlySlot, Slots, Free, RunStages
  <2> QED BY <1>4, <2>1 DEF IInv, TypeOK, HandleSignIn
<1>7. SlotsOK' /\ BlankOK'
  BY <1>2, Types DEF OnlySlot, SlotsOK, BlankOK, Stored, HandleSignIn
<1>8. AboutToRecord'
  <2>1. Handled(e)'
    BY <1>1, <1>4, Types DEF Handled, HandleSignIn
  <2> SUFFICES ASSUME NEW v \in Workers
               PROVE  /\ worker'[v].at = "record" => Handled(EventOf(v))'
                      /\ worker'[v].at = "create" => kind[EventOf(v)'] = "senderid.submitted"
    BY DEF AboutToRecord, HandleSignIn
  <2>2. CASE v = w
    BY <1>2, <2>1, <2>2 DEF Handled
  <2>3. CASE v # w
    <3>1. worker'[v] = worker[v] /\ EventOf(v)' = EventOf(v)
      BY <1>2, <2>3 DEF OnlySlot, EventOf
    <3>2. worker[v].at = "create" => kind[EventOf(v)] = "senderid.submitted"
      BY DEF IInv, AboutToRecord
    <3>3. CASE worker[v].at = "record"
      <4>1. EventOf(v) \in Events /\ Handled(EventOf(v))
        BY <3>3, Types, SlotParts DEF IInv, AboutToRecord
      <4> QED BY <1>4, <3>1, <3>2, <4>1 DEF Handled, HandleSignIn
    <3> QED BY <3>1, <3>2, <3>3
  <2> QED BY <2>2, <2>3
<1>9. ProcessedMeansHandled'
  BY <1>5 DEF IInv, ProcessedMeansHandled, Handled, HandleSignIn
<1>10. CountOK'
  <2> SUFFICES ASSUME NEW f \in Events
               PROVE  Cardinality(Claimed(f)') + recorded'[f] <= row[f].attempts
    BY DEF CountOK, HandleSignIn
  <2>1. Cardinality(Claimed(f)) + recorded[f] <= row[f].attempts
    BY DEF IInv, CountOK
  <2>2. CASE f = e
    <3>1. w \in Claimed(e) /\ Claimed(e)' = Claimed(e) \ {w}
      BY <1>1, <1>2 DEF Claimed, OnlySlot, EventOf
    <3>2. Cardinality(Claimed(e)') = Cardinality(Claimed(e)) - 1
      <4>1. IsFiniteSet(Claimed(e))
        BY ClaimedFinite
      <4> QED BY <3>1, <4>1, FS_RemoveElement
    <3>3. /\ Cardinality(Claimed(e)) \in Nat /\ recorded[e] \in Nat
          /\ row[e].attempts \in Nat
      BY ClaimedFinite, Types DEF RowType
    <3> QED BY <1>4, <2>1, <2>2, <3>2, <3>3
  <2>3. CASE f # e
    <3>1. Claimed(f)' = Claimed(f)
      BY <1>1, <1>2, <2>3 DEF Claimed, OnlySlot, EventOf
    <3>2. recorded'[f] = recorded[f]
      BY <1>3, <2>3, Types
    <3> QED BY <2>1, <3>1, <3>2
  <2> QED BY <2>2, <2>3
<1> QED BY <1>6, <1>7, <1>8, <1>9, <1>10 DEF IInv

(* How a run ends. *)
LEMMA EndSteps ==
  ASSUME IInv, NEW w \in Workers, RecordProcessed(w) \/ RecordFailed(w)
  PROVE  IInv'
<1>1. worker[w].at # "idle"
  BY DEF RecordProcessed, RecordFailed
<1>2. CASE RecordProcessed(w)
  <2>1. OnlySlot(w) /\ worker'[w].at = "idle" /\ job' \in [Jobs -> JobType]
    BY <1>1, <1>2, DoneJob DEF RecordProcessed
  <2>2. Handled(EventOf(w))
    BY <1>2 DEF IInv, AboutToRecord, RecordProcessed
  <2>3. /\ row' \in [Events -> RowType] /\ BlankOK'
        /\ \A e \in Events : row'[e].attempts >= row[e].attempts
        /\ \A e \in Events \ {EventOf(w)} : row'[e] = row[e]
    BY <1>1, <1>2, RowWritten DEF RecordProcessed
  <2>4. \A e \in Events : row'[e].status = "PROCESSED"
                         => row[e].status = "PROCESSED" \/ Handled(e)
    BY <2>2, <2>3
  <2> QED BY <1>2, <2>1, <2>3, <2>4, Types, WorkerStep DEF RecordProcessed
<1>3. CASE RecordFailed(w)
  <2>1. OnlySlot(w) /\ worker'[w].at = "idle" /\ job' \in [Jobs -> JobType]
    BY <1>1, <1>3, ThrewJob DEF RecordFailed
  <2>2. /\ row' \in [Events -> RowType] /\ BlankOK'
        /\ \A e \in Events : row'[e].attempts >= row[e].attempts
        /\ \A e \in Events : row'[e].status \in {row[e].status, "FAILED"}
    BY <1>1, <1>3, RowWritten DEF RecordFailed
  <2>3. \A e \in Events : row'[e].status = "PROCESSED"
                         => row[e].status = "PROCESSED" \/ Handled(e)
    BY <2>2
  <2> QED BY <1>3, <2>1, <2>2, <2>3, Types, WorkerStep DEF RecordFailed
<1> QED BY <1>2, <1>3

LEMMA FaultSteps ==
  ASSUME IInv, NEW w \in Workers, HandleThrows(w) \/ RunThrows(w) \/ WorkerStops(w)
  PROVE  IInv'
<1>1. worker[w].at # "idle"
  BY Types DEF HandleThrows, RunThrows, WorkerStops, SlotsOK, Slots, RunStages
<1>2. Fault /\ UNCHANGED <<kind, row, delivery, recorded, reviews, overlooked, alerts>>
  BY DEF HandleThrows, RunThrows, WorkerStops
<1>3. OnlySlot(w) /\ worker'[w].at \in {"idle", "fail"} /\ job' \in [Jobs -> JobType]
  <2>1. CASE HandleThrows(w)
    BY <1>1, <2>1, Types, GotoSlot DEF HandleThrows, RunStages
  <2>2. CASE RunThrows(w)
    BY <1>1, <2>2, ThrewJob DEF RunThrows
  <2>3. CASE WorkerStops(w)
    <3> DEFINE old == job[worker[w].job]
               new == IF old.stalled THEN NoJob
                      ELSE [at |-> "waiting", tries |-> old.tries, stalled |-> TRUE]
    <3>1. job' = [job EXCEPT ![worker[w].job] = new]
      BY <2>3 DEF WorkerStops
    <3>2. old \in JobType
      BY <1>1, SlotParts, Types
    <3>3. new \in JobType
      BY <3>2, JobTypes DEF JobType
    <3> HIDE DEF new
    <3> QED BY <2>3, <3>1, <3>3, Types, EmptySlot DEF WorkerStops
  <2> QED BY <2>1, <2>2, <2>3
<1> QED BY <1>2, <1>3, SameRows, FaultCounted, Types, WorkerStep

--------------------------------------------------------------------------------
LEMMA NextInv == IInv /\ [Next]_vars => IInv'
<1> SUFFICES ASSUME IInv, [Next]_vars PROVE IInv'
  OBVIOUS
<1>1. ASSUME NEW d \in Deliveries, NEW e \in Events,
             Ingest(d, e) \/ CreateRow(d, e) \/ Enqueue(d, e)
      PROVE  IInv'
  BY <1>1, DeliverySteps
<1>2. ASSUME NEW d \in Deliveries, DeliveryStops(d) PROVE IInv'
  BY <1>2, DeliveryStopsStep
<1>3. ASSUME NEW e \in Events, NEW r \in Retries, Sweep(e, r) PROVE IInv'
  BY <1>3, SweepStep
<1>4. ASSUME NEW w \in Workers, NEW j \in Jobs, Take(w, j) PROVE IInv'
  BY <1>4, TakeStep
<1>5. ASSUME NEW w \in Workers, Run(w) PROVE IInv'
  <2>1. CASE ReadEvent(w) BY <2>1, ReadStep
  <2>2. CASE Claim(w)
    <3>1. EventOf(w) \in Events BY <2>2, Types, SlotParts DEF Claim
    <3> QED BY <2>2, <3>1, ClaimStep
  <2>3. CASE HandleSignIn(w)
    <3>1. EventOf(w) \in Events BY <2>3, Types, SlotParts DEF HandleSignIn
    <3> QED BY <2>3, <3>1, SignInStep
  <2>4. CASE HandleNothing(w) \/ HandleSubmitted(w) \/ CreateReview(w) \/ HandlePaymentFailed(w)
    BY <2>4, HandlerSteps
  <2>5. CASE RecordProcessed(w) \/ RecordFailed(w) BY <2>5, EndSteps
  <2> QED BY <1>5, <2>1, <2>2, <2>3, <2>4, <2>5 DEF Run
<1>6. ASSUME NEW w \in Workers, HandleThrows(w) \/ RunThrows(w) \/ WorkerStops(w)
      PROVE  IInv'
  BY <1>6, FaultSteps
<1>7. CASE UNCHANGED vars
  <2>1. worker' = worker /\ delivery' = delivery /\ row' = row
    BY <1>7 DEF vars
  <2>2. CountOK'
    BY <1>7, CountSame DEF vars
  <2> QED BY <1>7, <2>2 DEF vars, IInv, TypeOK, SlotsOK, BlankOK, Stored, AboutToRecord,
                             ProcessedMeansHandled, Handled, EventOf
<1> QED BY <1>1, <1>2, <1>3, <1>4, <1>5, <1>6, <1>7 DEF Next

(* The inductive invariant of the event intake. *)
THEOREM Invariance == Spec => []IInv
BY InitInv, NextInv, PTL DEF Spec

(* The rows, jobs, running jobs and effects of the event intake stay in      *)
(* their types, whatever fails (events.service.ts, events.processor.ts).     *)
THEOREM TypeCorrect == Spec => []TypeOK
<1>1. IInv => TypeOK BY DEF IInv
<1> QED BY Invariance, <1>1, PTL

(* An event marked PROCESSED had its effect, for any number of events,       *)
(* workers, retries and failures, or one of its runs was shown a draft by    *)
(* the replica: no run writes the word but after handle, and handle leaves   *)
(* no other way out (ensureReview throws on an application it does not find). *)
THEOREM ProcessedHandled == Spec => []ProcessedMeansHandled
<1>1. IInv => ProcessedMeansHandled BY DEF IInv
<1> QED BY Invariance, <1>1, PTL

(* A sign-in is on record no more often than its event counts attempts, for  *)
(* any number of runs side by side: run counts the attempt before it handles *)
(* the event.                                                                *)
THEOREM AttemptsCover == Spec => []AttemptsCoverEffects
<1>1. IInv => AttemptsCoverEffects
  <2> SUFFICES ASSUME IInv, NEW e \in Events
               PROVE  recorded[e] <= row[e].attempts
    BY DEF AttemptsCoverEffects
  <2>1. Cardinality(Claimed(e)) + recorded[e] <= row[e].attempts
    BY DEF IInv, CountOK
  <2>2. /\ Cardinality(Claimed(e)) \in Nat /\ recorded[e] \in Nat
        /\ row[e].attempts \in Nat
    BY ClaimedFinite, Types DEF RowType
  <2> QED BY <2>1, <2>2
<1> QED BY Invariance, <1>1, PTL

--------------------------------------------------------------------------------
(* The rollups of one day (Rollups): what a run that no other overlapped     *)
(* leaves behind, for any buckets, figures, runs and changes of the source.  *)

RollRow == [n : 0..MaxFigure, stamp : Nat]

RollRun == [at : Stages, job : {"roll", "history", "reconcile"}, stamp : Nat,
            read : Figures, alone : BOOLEAN, still : BOOLEAN]

RollTyped ==
  /\ table \in {"usage", "hourly", "requests", "cash", "finance"}
  /\ source \in Figures /\ kept \in Figures /\ clock \in Nat
  /\ daily \in [Buckets -> RollRow] /\ dest \in [Buckets -> RollRow]
  /\ run \in [Runs -> RollRun]

Resting(x) == x.at \in {"new", "done"}

(* A run that is on its own is the only one under way. *)
OnItsOwn(runs) ==
  \A r, q \in Runs : runs[r].alone => ~Resting(runs[r]) /\ (q # r => Resting(runs[q]))

(* The stages of a run are those of its job and its table. *)
StageFits(x, of) ==
  \/ Resting(x)
  \/ /\ of = "usage" /\ x.job = "roll"
     /\ x.at \in {"readDaily", "writeDaily", "sweepDaily", "readDest", "writeDest", "sweepDest"}
  \/ /\ of # "usage" /\ x.job # "reconcile" /\ (x.job = "history" => of \in {"cash", "finance"})
     /\ x.at \in {"read", "write"}
  \/ /\ of = "cash" /\ x.job # "roll"
     /\ x.at \in {"readSettlement", "readCash", "agrees", "differs"}

(* What was read is still true while the source has not changed. *)
ReadFits(x, now) ==
  x.still /\ x.at \in {"writeDaily", "sweepDaily", "writeDest", "sweepDest", "write", "readCash"} =>
    x.read = now

(* Rows that a run with this stamp would sweep, and rows it has written.     *)
Older(rows, stamp) == \A b \in Buckets : rows[b].stamp < stamp
WrittenBy(rows, x) ==
  \A b \in Buckets : IF x.read[b] = 0 THEN rows[b].stamp < x.stamp
                     ELSE rows[b].n = x.read[b] /\ rows[b].stamp = x.stamp

(* The instant of a run on its own is the latest, and so is what it wrote.   *)
UsageFits(x, instant, days, dests, now) ==
  x.alone =>
    /\ x.at \in {"readDaily", "writeDaily", "sweepDaily", "readDest", "writeDest", "sweepDest"} =>
         x.stamp = instant
    /\ x.at \in {"readDaily", "writeDaily"} => Older(days, instant)
    /\ x.at = "sweepDaily" => WrittenBy(days, x)
    /\ x.at \in {"readDest", "writeDest"} => Older(dests, instant)
    /\ x.at = "sweepDest" => WrittenBy(dests, x)
    /\ x.still /\ x.at \in {"readDest", "writeDest", "sweepDest"} =>
         \A b \in Buckets : days[b].n = now[b]

(* On its own and with no change beside it, a run finds what it has written, *)
(* and its verdict is about what there is.                                   *)
CheckFits(x, figures, now) ==
  x.alone /\ x.still =>
    /\ x.job = "history" /\ x.at \in {"readSettlement", "readCash", "agrees", "differs"} =>
         figures = now
    /\ x.at = "agrees" => figures[Main] = now[Main]
    /\ x.at = "differs" => figures[Main] # now[Main]

(* Before its sweep, a run's rows are all there under its instant or a later *)
(* one; or somebody with a later instant has swept, and left it nothing.     *)
SweepFits(x, dests) ==
  x.at = "sweepDest" =>
    \/ \A b \in Buckets : x.read[b] > 0 => dests[b].n > 0 /\ dests[b].stamp >= x.stamp
    \/ \A b \in Buckets : dests[b] = Absent \/ dests[b].stamp >= x.stamp

StampsFit(instant, days, dests, runs) ==
  /\ \A b \in Buckets : days[b].stamp <= instant /\ dests[b].stamp <= instant
  /\ \A r \in Runs : runs[r].stamp <= instant

RollInv ==
  /\ RollTyped /\ OnItsOwn(run) /\ StampsFit(clock, daily, dest, run)
  /\ \A r \in Runs : /\ StageFits(run[r], table) /\ ReadFits(run[r], source)
                     /\ UsageFits(run[r], clock, daily, dest, source)
                     /\ CheckFits(run[r], kept, source) /\ SweepFits(run[r], dest)
  /\ settled => (\A r \in Runs : Resting(run[r])) /\ SettledIsRight

(* One run goes on: whoever is beside it is not on its own, and what the run *)
(* itself claims of the tables is left to show.                              *)
LEMMA RollStep ==
  ASSUME RollInv, NEW r \in Runs, ~Resting(run[r]),
         run' \in [Runs -> RollRun], \A q \in Runs \ {r} : run'[q] = run[q],
         table' = table, source' = source, clock' \in Nat, clock <= clock',
         daily' \in [Buckets -> RollRow], dest' \in [Buckets -> RollRow],
         kept' \in Figures,
         \A b \in Buckets : daily'[b].stamp <= clock' /\ dest'[b].stamp <= clock',
         run'[r].stamp <= clock',
         run'[r].alone => run[r].alone /\ ~Resting(run'[r]),
         StageFits(run'[r], table), ReadFits(run'[r], source),
         UsageFits(run'[r], clock', daily', dest', source),
         CheckFits(run'[r], kept', source), SweepFits(run'[r], dest'),
         \A q \in Runs \ {r} : SweepFits(run[q], dest) => SweepFits(run[q], dest'),
         settled' => run[r].alone /\ Resting(run'[r]) /\ SettledIsRight'
  PROVE  RollInv'
<1>0. /\ RollTyped /\ OnItsOwn(run) /\ StampsFit(clock, daily, dest, run)
      /\ \A q \in Runs : /\ StageFits(run[q], table) /\ ReadFits(run[q], source)
                         /\ SweepFits(run[q], dest)
  BY DEF RollInv
<1>1. RollTyped'
  BY <1>0 DEF RollTyped
<1>2. \A q \in Runs \ {r} : ~run'[q].alone
  BY <1>0 DEF OnItsOwn
<1>3. OnItsOwn(run')
  BY <1>0, <1>2 DEF OnItsOwn
<1>4. \A q \in Runs : run[q].stamp <= clock'
  BY <1>0 DEF StampsFit, RollTyped, RollRun
<1>5. StampsFit(clock', daily', dest', run')
  BY <1>4 DEF StampsFit
<1>6. ASSUME NEW q \in Runs
      PROVE  /\ StageFits(run'[q], table) /\ ReadFits(run'[q], source)
             /\ UsageFits(run'[q], clock', daily', dest', source)
             /\ CheckFits(run'[q], kept', source) /\ SweepFits(run'[q], dest')
  <2>1. CASE q = r
    BY <2>1
  <2>2. CASE q # r
    <3>1. run'[q] = run[q] /\ ~run'[q].alone
      BY <1>2, <2>2
    <3>2. UsageFits(run'[q], clock', daily', dest', source) /\ CheckFits(run'[q], kept', source)
      BY <3>1 DEF UsageFits, CheckFits
    <3> QED BY <1>0, <2>2, <3>1, <3>2
  <2> QED BY <2>1, <2>2
<1>7. settled' => (\A q \in Runs : Resting(run'[q])) /\ SettledIsRight'
  BY <1>0 DEF OnItsOwn
<1> QED BY <1>1, <1>3, <1>5, <1>6, <1>7 DEF RollInv

(* What a run under way finds. *)
LEMMA RollFound ==
  ASSUME RollInv, NEW r \in Runs
  PROVE  /\ run[r] \in RollRun /\ run \in [Runs -> RollRun] /\ clock \in Nat
         /\ source \in Figures /\ kept \in Figures /\ MaxFigure \in Nat
         /\ daily \in [Buckets -> RollRow] /\ dest \in [Buckets -> RollRow]
         /\ \A b \in Buckets : daily[b].stamp <= clock /\ dest[b].stamp <= clock
         /\ run[r].stamp <= clock
         /\ StageFits(run[r], table) /\ ReadFits(run[r], source)
         /\ UsageFits(run[r], clock, daily, dest, source)
         /\ CheckFits(run[r], kept, source) /\ SweepFits(run[r], dest)
         /\ run[r].alone \in BOOLEAN /\ (Resting(run[r]) => ~run[r].alone)
         /\ (~Resting(run[r]) => ~settled)
<1>1. RollTyped /\ OnItsOwn(run) /\ StampsFit(clock, daily, dest, run)
  BY DEF RollInv
<1>2. /\ StageFits(run[r], table) /\ ReadFits(run[r], source)
      /\ UsageFits(run[r], clock, daily, dest, source)
      /\ CheckFits(run[r], kept, source) /\ SweepFits(run[r], dest)
      /\ (~Resting(run[r]) => ~settled)
  BY DEF RollInv
<1>3. run[r] \in RollRun /\ run[r].alone \in BOOLEAN
  BY <1>1 DEF RollTyped, RollRun
<1>4. MaxFigure \in Nat
  BY RollupsAssumption
<1>5. Resting(run[r]) => ~run[r].alone
  BY <1>1 DEF OnItsOwn
<1> QED BY <1>1, <1>2, <1>3, <1>4, <1>5 DEF RollTyped, StampsFit

(* A run reads. *)
LEMMA ReadRolls ==
  ASSUME RollInv, NEW r \in Runs,
         \/ Read(r, "readDaily", "writeDaily") \/ Read(r, "readDest", "writeDest")
         \/ Read(r, "read", "write") \/ Read(r, "readSettlement", "readCash")
  PROVE  RollInv'
<1>0. /\ run[r] \in RollRun /\ run \in [Runs -> RollRun] /\ clock \in Nat
      /\ source \in Figures
  BY RollFound
<1>1. PICK from, to :
        /\ <<from, to>> \in {<<"readDaily", "writeDaily">>, <<"readDest", "writeDest">>,
                            <<"read", "write">>, <<"readSettlement", "readCash">>}
        /\ Read(r, from, to)
  OBVIOUS
<1>2. /\ run[r].at = from /\ run' = [run EXCEPT ![r].read = source, ![r].at = to]
      /\ UNCHANGED <<table, source, clock, daily, dest, kept, settled>>
  BY <1>1 DEF Read, tables
<1>3. run' = [run EXCEPT ![r] = [run[r] EXCEPT !.read = source, !.at = to]]
  BY <1>0, <1>2 DEF RollRun
<1>4. [run[r] EXCEPT !.read = source, !.at = to] \in RollRun
  BY <1>0, <1>1 DEF RollRun, Stages
<1>5. /\ run' \in [Runs -> RollRun] /\ \A q \in Runs \ {r} : run'[q] = run[q]
      /\ run'[r].at = to /\ run'[r].read = source /\ run'[r].stamp = run[r].stamp
      /\ run'[r].job = run[r].job /\ run'[r].alone = run[r].alone /\ run'[r].still = run[r].still
  BY <1>0, <1>3, <1>4 DEF RollRun
<1>6. /\ ~Resting(run[r]) /\ ~Resting(run'[r])
      /\ StageFits(run'[r], table) /\ ReadFits(run'[r], source) /\ SweepFits(run'[r], dest)
  BY <1>1, <1>2, <1>5, RollFound DEF Resting, StageFits, ReadFits, SweepFits
<1>7. UsageFits(run'[r], clock, daily, dest, source)
  BY <1>1, <1>2, <1>5, RollFound DEF UsageFits
<1>8. CheckFits(run'[r], kept, source)
  BY <1>1, <1>2, <1>5, RollFound DEF CheckFits
<1> QED BY <1>2, <1>5, <1>6, <1>7, <1>8, RollFound, RollStep

LEMMA WritesKeep ==
  ASSUME NEW x \in RollRun, NEW old \in [Buckets -> RollRow], NEW new \in [Buckets -> RollRow],
         SweepFits(x, old),
         \A b \in Buckets : new[b] = old[b] \/ (new[b].n > 0 /\ new[b].stamp >= x.stamp)
  PROVE  SweepFits(x, new)
  BY DEF SweepFits

LEMMA SweepsKeep ==
  ASSUME NEW x \in RollRun, NEW old \in [Buckets -> RollRow], NEW new \in [Buckets -> RollRow],
         NEW stamp \in Nat, SweepFits(x, old),
         \A b \in Buckets : new[b] = IF old[b].stamp < stamp THEN Absent ELSE old[b]
  PROVE  SweepFits(x, new)
<1>0. x.stamp \in Nat /\ \A b \in Buckets : old[b].stamp \in Nat
  BY DEF RollRun, RollRow
<1>1. CASE stamp <= x.stamp
  BY <1>0, <1>1 DEF SweepFits
<1>2. CASE x.stamp < stamp
  <2>1. \A b \in Buckets : new[b] = Absent \/ new[b].stamp >= x.stamp
    BY <1>0, <1>2
  <2> QED BY <2>1 DEF SweepFits
<1> QED BY <1>0, <1>1, <1>2

(* An upsert and a sweep, bucket by bucket. *)
LEMMA UpsertedRows ==
  ASSUME RollInv, NEW r \in Runs,
         NEW rows \in [Buckets -> RollRow], NEW stamp \in Nat
  PROVE  /\ Upserted(rows, r, stamp) \in [Buckets -> RollRow]
         /\ \A b \in Buckets :
              /\ run[r].read[b] = 0 => Upserted(rows, r, stamp)[b] = rows[b]
              /\ run[r].read[b] # 0 =>
                   /\ Upserted(rows, r, stamp)[b].n = run[r].read[b]
                   /\ Upserted(rows, r, stamp)[b].n > 0
                   /\ Upserted(rows, r, stamp)[b].stamp = stamp
<1>1. run[r].read \in [Buckets -> 0..MaxFigure] /\ MaxFigure \in Nat
  BY RollFound DEF RollRun, Figures
<1>2. \A b \in Buckets : run[r].read[b] # 0 => [n |-> run[r].read[b], stamp |-> stamp] \in RollRow
  BY <1>1 DEF RollRow
<1>3. Upserted(rows, r, stamp) \in [Buckets -> RollRow]
  BY <1>2 DEF Upserted
<1> QED BY <1>1, <1>3 DEF Upserted

LEMMA SweptRows ==
  ASSUME RollInv, NEW r \in Runs, NEW rows \in [Buckets -> RollRow]
  PROVE  /\ Swept(rows, r) \in [Buckets -> RollRow]
         /\ \A b \in Buckets : /\ Swept(rows, r)[b] =
                                    IF rows[b].stamp < run[r].stamp THEN Absent ELSE rows[b]
                               /\ Swept(rows, r)[b].stamp <= rows[b].stamp
         /\ WrittenBy(rows, run[r]) =>
              \A b \in Buckets : Swept(rows, r)[b].n = run[r].read[b]
<1>1. Absent \in RollRow /\ run[r].stamp \in Nat
  BY RollFound DEF Absent, RollRow, RollRun
<1>2. Swept(rows, r) \in [Buckets -> RollRow]
  BY <1>1 DEF Swept
<1>3. \A b \in Buckets :
        Swept(rows, r)[b] = IF rows[b].stamp < run[r].stamp THEN Absent ELSE rows[b]
  BY DEF Swept
<1>4. Absent.n = 0 /\ Absent.stamp = 0 /\ \A b \in Buckets : rows[b].stamp \in Nat
  BY DEF Absent, RollRow
<1>5. WrittenBy(rows, run[r]) => \A b \in Buckets : Swept(rows, r)[b].n = run[r].read[b]
  BY <1>1, <1>3, <1>4 DEF WrittenBy
<1> QED BY <1>2, <1>3, <1>4, <1>5

LEMMA WriteDailyRolls ==
  ASSUME RollInv, NEW r \in Runs, WriteDaily(r)
  PROVE  RollInv'
<1> DEFINE x == run[r]
<1>0. /\ x \in RollRun /\ run \in [Runs -> RollRun] /\ clock \in Nat /\ x.stamp \in Nat
      /\ daily \in [Buckets -> RollRow] /\ x.stamp <= clock
      /\ \A b \in Buckets : daily[b].stamp <= clock
  BY RollFound DEF RollRun
<1>1. /\ x.at = "writeDaily" /\ run' = [run EXCEPT ![r].at = "sweepDaily"]
      /\ daily' = Upserted(daily, r, x.stamp)
      /\ UNCHANGED <<table, source, clock, dest, kept, settled>>
  BY DEF WriteDaily, Step
<1>2. /\ run' \in [Runs -> RollRun] /\ \A q \in Runs \ {r} : run'[q] = run[q]
      /\ run'[r].at = "sweepDaily" /\ run'[r].read = x.read /\ run'[r].stamp = x.stamp
      /\ run'[r].job = x.job /\ run'[r].alone = x.alone /\ run'[r].still = x.still
  BY <1>0, <1>1 DEF RollRun, Stages
<1>3. /\ daily' \in [Buckets -> RollRow]
      /\ \A b \in Buckets :
           /\ x.read[b] = 0 => daily'[b] = daily[b]
           /\ x.read[b] # 0 => daily'[b].n = x.read[b] /\ daily'[b].stamp = x.stamp
  BY <1>0, <1>1, UpsertedRows
<1>4. \A b \in Buckets : daily'[b].stamp <= clock
  BY <1>0, <1>3
<1>5. /\ ~Resting(x) /\ ~Resting(run'[r])
      /\ StageFits(run'[r], table) /\ ReadFits(run'[r], source) /\ SweepFits(run'[r], dest)
      /\ CheckFits(run'[r], kept, source)
  BY <1>1, <1>2, RollFound DEF Resting, StageFits, ReadFits, SweepFits, CheckFits
<1>6. x.alone => x.stamp = clock /\ Older(daily, clock)
  BY <1>1, RollFound DEF UsageFits
<1>7. x.alone => WrittenBy(daily', run'[r])
  BY <1>2, <1>3, <1>6 DEF WrittenBy, Older
<1>8. UsageFits(run'[r], clock, daily', dest, source)
  BY <1>2, <1>6, <1>7 DEF UsageFits
<1> QED BY <1>1, <1>2, <1>3, <1>4, <1>5, <1>8, RollFound, RollStep

(* The sweep of the daily rows, and the instant the destinations take. *)
LEMMA SweepDailyRolls ==
  ASSUME RollInv, NEW r \in Runs, SweepDaily(r)
  PROVE  RollInv' /\ (run[r].alone => \A b \in Buckets : daily'[b].n = run[r].read[b])
<1> DEFINE x == run[r]
<1>0. /\ x \in RollRun /\ run \in [Runs -> RollRun] /\ clock \in Nat /\ x.stamp \in Nat
      /\ daily \in [Buckets -> RollRow] /\ dest \in [Buckets -> RollRow] /\ x.stamp <= clock
      /\ \A b \in Buckets : daily[b].stamp <= clock /\ dest[b].stamp <= clock
      /\ \A b \in Buckets : daily[b].stamp \in Nat /\ dest[b].stamp \in Nat
  BY RollFound DEF RollRun, RollRow
<1>1. /\ x.at = "sweepDaily" /\ run' = [run EXCEPT ![r].at = "readDest", ![r].stamp = clock + 1]
      /\ daily' = Swept(daily, r) /\ clock' = clock + 1
      /\ UNCHANGED <<table, source, dest, kept, settled>>
  BY DEF SweepDaily
<1>2. /\ run' \in [Runs -> RollRun] /\ \A q \in Runs \ {r} : run'[q] = run[q]
      /\ run'[r].at = "readDest" /\ run'[r].read = x.read /\ run'[r].stamp = clock + 1
      /\ run'[r].job = x.job /\ run'[r].alone = x.alone /\ run'[r].still = x.still
  BY <1>0, <1>1 DEF RollRun, Stages
<1>3. /\ daily' \in [Buckets -> RollRow] /\ \A b \in Buckets : daily'[b].stamp \in Nat
      /\ \A b \in Buckets : daily'[b].stamp <= daily[b].stamp
      /\ WrittenBy(daily, x) => \A b \in Buckets : daily'[b].n = x.read[b]
  BY <1>0, <1>1, SweptRows DEF RollRow
<1>4. \A b \in Buckets : daily'[b].stamp <= clock + 1 /\ dest[b].stamp <= clock + 1
  BY <1>0, <1>3
<1>5. /\ ~Resting(x) /\ ~Resting(run'[r])
      /\ StageFits(run'[r], table) /\ ReadFits(run'[r], source) /\ SweepFits(run'[r], dest)
      /\ CheckFits(run'[r], kept, source)
  BY <1>1, <1>2, RollFound DEF Resting, StageFits, ReadFits, SweepFits, CheckFits
<1>6. x.alone => \A b \in Buckets : daily'[b].n = x.read[b]
  BY <1>1, <1>3, RollFound DEF UsageFits
<1>7. x.still => x.read = source
  BY <1>1, RollFound DEF ReadFits
<1>8. UsageFits(run'[r], clock + 1, daily', dest, source)
  BY <1>0, <1>2, <1>6, <1>7 DEF UsageFits, Older
<1>9. clock' \in Nat /\ clock <= clock' /\ run'[r].stamp <= clock'
  BY <1>0, <1>1, <1>2
<1> QED BY <1>1, <1>2, <1>3, <1>4, <1>5, <1>6, <1>8, <1>9, RollFound, RollStep

LEMMA WriteDestRolls ==
  ASSUME RollInv, NEW r \in Runs, WriteDest(r)
  PROVE  RollInv'
<1> DEFINE x == run[r]
<1>0. /\ x \in RollRun /\ run \in [Runs -> RollRun] /\ clock \in Nat /\ x.stamp \in Nat
      /\ dest \in [Buckets -> RollRow] /\ x.stamp <= clock
      /\ \A b \in Buckets : dest[b].stamp <= clock
  BY RollFound DEF RollRun
<1>1. /\ x.at = "writeDest" /\ run' = [run EXCEPT ![r].at = "sweepDest"]
      /\ dest' = Upserted(dest, r, clock)
      /\ UNCHANGED <<table, source, clock, daily, kept, settled>>
  BY DEF WriteDest, Step
<1>2. /\ run' \in [Runs -> RollRun] /\ \A q \in Runs \ {r} : run'[q] = run[q]
      /\ run'[r].at = "sweepDest" /\ run'[r].read = x.read /\ run'[r].stamp = x.stamp
      /\ run'[r].job = x.job /\ run'[r].alone = x.alone /\ run'[r].still = x.still
  BY <1>0, <1>1 DEF RollRun, Stages
<1>3. /\ dest' \in [Buckets -> RollRow]
      /\ \A b \in Buckets :
           /\ x.read[b] = 0 => dest'[b] = dest[b]
           /\ x.read[b] # 0 => dest'[b].n = x.read[b] /\ dest'[b].n > 0 /\ dest'[b].stamp = clock
  BY <1>0, <1>1, UpsertedRows
<1>4. \A b \in Buckets : dest'[b].stamp <= clock
  BY <1>0, <1>3
<1>5. /\ ~Resting(x) /\ ~Resting(run'[r])
      /\ StageFits(run'[r], table) /\ ReadFits(run'[r], source)
      /\ CheckFits(run'[r], kept, source)
  BY <1>1, <1>2, RollFound DEF Resting, StageFits, ReadFits, CheckFits
<1>6. x.alone => x.stamp = clock /\ Older(dest, clock)
  BY <1>1, RollFound DEF UsageFits
<1>7. x.alone => WrittenBy(dest', run'[r])
  BY <1>2, <1>3, <1>6 DEF WrittenBy, Older
<1>8. x.alone /\ x.still => \A b \in Buckets : daily[b].n = source[b]
  BY <1>1, RollFound DEF UsageFits
<1>9. UsageFits(run'[r], clock, daily, dest', source)
  BY <1>2, <1>6, <1>7, <1>8 DEF UsageFits
<1>10. SweepFits(run'[r], dest')
  BY <1>0, <1>2, <1>3 DEF SweepFits
<1>11. ASSUME NEW q \in Runs \ {r}, SweepFits(run[q], dest)
       PROVE  SweepFits(run[q], dest')
  <2>1. run[q] \in RollRun /\ run[q].stamp <= clock
    BY RollFound
  <2>2. \A b \in Buckets : dest'[b] = dest[b] \/ (dest'[b].n > 0 /\ dest'[b].stamp >= run[q].stamp)
    BY <1>0, <1>3, <2>1 DEF RollRun
  <2> QED BY <1>0, <1>3, <1>11, <2>1, <2>2, WritesKeep
<1> QED BY <1>1, <1>2, <1>3, <1>4, <1>5, <1>9, <1>10, <1>11, RollFound, RollStep

(* A run ends, whatever it wrote: it makes no claim any more. *)
LEMMA EndRolls ==
  ASSUME RollInv, NEW r \in Runs, ~Resting(run[r]),
         run' = [run EXCEPT ![r] = [NotStarted EXCEPT !.at = "done"]],
         UNCHANGED <<table, source, clock>>,
         daily' \in [Buckets -> RollRow], dest' \in [Buckets -> RollRow],
         kept' \in Figures,
         \A b \in Buckets : daily'[b].stamp <= clock /\ dest'[b].stamp <= clock,
         \A q \in Runs \ {r} : SweepFits(run[q], dest) => SweepFits(run[q], dest'),
         settled' => run[r].alone /\ SettledIsRight'
  PROVE  RollInv'
<1>0. run \in [Runs -> RollRun] /\ clock \in Nat /\ MaxFigure \in Nat
  BY RollFound
<1>1. Nothing \in Figures
  BY <1>0 DEF Nothing, Figures
<1>2. /\ [NotStarted EXCEPT !.at = "done"] \in RollRun
      /\ [NotStarted EXCEPT !.at = "done"].at = "done"
      /\ [NotStarted EXCEPT !.at = "done"].stamp = 0
      /\ ~[NotStarted EXCEPT !.at = "done"].alone
      /\ ~[NotStarted EXCEPT !.at = "done"].still
  BY <1>1 DEF NotStarted, RollRun, Stages
<1>3. /\ run' \in [Runs -> RollRun] /\ \A q \in Runs \ {r} : run'[q] = run[q]
      /\ run'[r].at = "done" /\ run'[r].stamp = 0 /\ ~run'[r].alone /\ ~run'[r].still
  BY <1>0, <1>2
<1>4. /\ Resting(run'[r]) /\ StageFits(run'[r], table) /\ ReadFits(run'[r], source)
      /\ UsageFits(run'[r], clock, daily', dest', source)
      /\ CheckFits(run'[r], kept', source) /\ SweepFits(run'[r], dest')
  BY <1>3 DEF Resting, StageFits, ReadFits, UsageFits, CheckFits, SweepFits
<1>5. clock' \in Nat /\ clock' = clock /\ clock <= clock' /\ run'[r].stamp <= clock'
  BY <1>0, <1>3
<1> QED BY <1>3, <1>4, <1>5, RollStep

LEMMA SweepDestRolls ==
  ASSUME RollInv, NEW r \in Runs, SweepDest(r)
  PROVE  RollInv'
<1> DEFINE x == run[r]
<1>0. /\ x \in RollRun /\ clock \in Nat /\ x.stamp \in Nat
      /\ dest \in [Buckets -> RollRow] /\ source \in Figures
      /\ \A b \in Buckets : dest[b].stamp <= clock
      /\ \A b \in Buckets : dest[b].stamp \in Nat
  BY RollFound DEF RollRun, RollRow
<1>1. /\ x.at = "sweepDest" /\ dest' = Swept(dest, r)
      /\ run' = [run EXCEPT ![r] = [NotStarted EXCEPT !.at = "done"]]
      /\ settled' = (x.alone /\ x.still /\ x.job # "reconcile")
      /\ UNCHANGED <<table, source, clock, daily, kept>>
  BY DEF SweepDest, Done
<1>2. /\ dest' \in [Buckets -> RollRow]
      /\ \A b \in Buckets : dest'[b] = IF dest[b].stamp < x.stamp THEN Absent ELSE dest[b]
      /\ \A b \in Buckets : dest'[b].stamp <= dest[b].stamp
      /\ WrittenBy(dest, x) => \A b \in Buckets : dest'[b].n = x.read[b]
  BY <1>0, <1>1, SweptRows
<1>3. \A b \in Buckets : dest'[b].stamp <= clock
  <2>1. \A b \in Buckets : dest'[b].stamp \in Nat
    BY <1>2 DEF RollRow
  <2> QED BY <1>0, <1>2, <2>1
<1>4. \A q \in Runs \ {r} : SweepFits(run[q], dest) => SweepFits(run[q], dest')
  BY <1>0, <1>2, SweepsKeep, RollFound
<1>5. ASSUME settled'
      PROVE  x.alone /\ SettledIsRight'
  <2>1. x.alone /\ x.still
    BY <1>1, <1>5
  <2>2. /\ WrittenBy(dest, x) /\ x.read = source /\ table = "usage"
        /\ \A b \in Buckets : daily[b].n = source[b]
    BY <1>1, <2>1, RollFound DEF UsageFits, ReadFits, StageFits, Resting
  <2>3. Figure(daily') = source'
    BY <1>0, <1>1, <2>2 DEF Figure, Figures
  <2>4. \A b \in Buckets : dest'[b].n = source[b]
    BY <1>2, <2>2
  <2>5. Figure(dest') = source'
    BY <1>0, <1>1, <2>4 DEF Figure, Figures
  <2> QED BY <1>1, <2>1, <2>2, <2>3, <2>5 DEF SettledIsRight, Figure
<1>6. ~Resting(x)
  BY <1>1 DEF Resting
<1> QED BY <1>1, <1>2, <1>3, <1>4, <1>5, <1>6, RollFound, EndRolls

(* A run that only writes the day's figures, and is done. *)
LEMMA FiguresRoll ==
  ASSUME RollInv, NEW r \in Runs, NEW figures \in Figures,
         Write(r, figures), Done(r), table # "usage",
         run[r].read = source => 
           CASE table = "finance" -> \A b \in Buckets \ {Main} : figures[b] = source[b]
             [] table = "cash" -> figures = source
             [] OTHER -> \A b \in Buckets : source[b] > 0 => figures[b] = source[b]
  PROVE  RollInv'
<1> DEFINE x == run[r]
<1>1. /\ x.at = "write" /\ kept' = figures
      /\ run' = [run EXCEPT ![r] = [NotStarted EXCEPT !.at = "done"]]
      /\ settled' = (x.alone /\ x.still /\ x.job # "reconcile")
      /\ UNCHANGED <<table, source, clock, daily, dest>>
  BY DEF Write, Done
<1>2. ASSUME settled'
      PROVE  x.alone /\ SettledIsRight'
  <2>1. x.alone /\ x.still
    BY <1>1, <1>2
  <2>2. x.read = source
    BY <1>1, <2>1, RollFound DEF ReadFits
  <2> QED BY <1>1, <2>1, <2>2 DEF SettledIsRight
<1>3. ~Resting(x)
  BY <1>1 DEF Resting
<1> QED BY <1>1, <1>2, <1>3, RollFound, EndRolls

LEMMA KeyedFigures ==
  ASSUME RollInv, NEW r \in Runs
  PROVE  /\ Keyed(r) \in Figures
         /\ run[r].read = source =>
              \A b \in Buckets : source[b] > 0 => Keyed(r)[b] = source[b]
<1>1. /\ run[r].read \in [Buckets -> 0..MaxFigure] /\ kept \in [Buckets -> 0..MaxFigure]
      /\ MaxFigure \in Nat
  BY RollFound DEF RollRun, Figures
<1>2. Keyed(r) \in Figures
  BY <1>1 DEF Keyed, Figures
<1> QED BY <1>1, <1>2 DEF Keyed

LEMMA FigureTablesRoll ==
  ASSUME RollInv, NEW r \in Runs,
         rollUsage(r) \/ rollRequests(r) \/ snapshotFinance(r)
  PROVE  RollInv'
<1>1. CASE rollUsage(r) \/ rollRequests(r)
  <2>1. table \in {"hourly", "requests"} /\ Write(r, Keyed(r)) /\ Done(r)
    BY <1>1 DEF rollUsage, rollRequests
  <2> QED BY <2>1, KeyedFigures, FiguresRoll
<1>2. CASE snapshotFinance(r)
  <2> DEFINE figures == [b \in Buckets |->
               IF run[r].job = "history" /\ b = Main THEN kept[b] ELSE run[r].read[b]]
  <2>1. table = "finance" /\ Write(r, figures) /\ Done(r)
    BY <1>2 DEF snapshotFinance
  <2>2. figures \in Figures
    BY RollFound DEF RollRun, Figures
  <2>3. run[r].read = source => \A b \in Buckets \ {Main} : figures[b] = source[b]
    OBVIOUS
  <2> HIDE DEF figures
  <2> QED BY <2>1, <2>2, <2>3, FiguresRoll
<1> QED BY <1>1, <1>2

LEMMA CashRolls ==
  ASSUME RollInv, NEW r \in Runs, rollCash(r)
  PROVE  RollInv'
<1> DEFINE x == run[r]
<1>0. /\ x \in RollRun /\ run \in [Runs -> RollRun] /\ clock \in Nat /\ x.read \in Figures
      /\ table = "cash" /\ Write(r, x.read) /\ x.at = "write"
  BY RollFound DEF RollRun, rollCash, Write
<1>1. CASE x.job # "history"
  <2>1. Done(r)
    BY <1>1 DEF rollCash
  <2> QED BY <1>0, <2>1, FiguresRoll
<1>2. CASE x.job = "history"
  <2>1. /\ run' = [run EXCEPT ![r].at = "readSettlement"] /\ kept' = x.read
        /\ UNCHANGED <<table, source, clock, daily, dest, settled>>
    BY <1>0, <1>2 DEF rollCash, Write
  <2>2. /\ run' \in [Runs -> RollRun] /\ \A q \in Runs \ {r} : run'[q] = run[q]
        /\ run'[r].at = "readSettlement" /\ run'[r].stamp = x.stamp
        /\ run'[r].job = x.job /\ run'[r].alone = x.alone /\ run'[r].still = x.still
    BY <1>0, <2>1 DEF RollRun, Stages
  <2>3. /\ ~Resting(x) /\ ~Resting(run'[r])
        /\ StageFits(run'[r], table) /\ ReadFits(run'[r], source) /\ SweepFits(run'[r], dest)
        /\ UsageFits(run'[r], clock, daily, dest, source)
    BY <1>0, <1>2, <2>2 DEF Resting, StageFits, ReadFits, SweepFits, UsageFits
  <2>4. x.still => x.read = source
    BY <1>0, RollFound DEF ReadFits
  <2>5. CheckFits(run'[r], kept', source)
    BY <2>1, <2>2, <2>4 DEF CheckFits
  <2> QED BY <1>0, <2>1, <2>2, <2>3, <2>5, RollFound, RollStep
<1> QED BY <1>1, <1>2

(* The check compares what it read of the product with the row there is. *)
LEMMA ReadCashRolls ==
  ASSUME RollInv, NEW r \in Runs, ReadCash(r)
  PROVE  RollInv'
<1> DEFINE x == run[r]
           at == IF x.read[Main] # kept[Main] THEN "differs" ELSE "agrees"
<1>0. x \in RollRun /\ run \in [Runs -> RollRun] /\ clock \in Nat
  BY RollFound
<1>1. /\ x.at = "readCash" /\ run' = [run EXCEPT ![r].at = at]
      /\ UNCHANGED <<table, source, clock, daily, dest, kept, settled>>
  BY DEF ReadCash, Differs, tables
<1>2. /\ run' \in [Runs -> RollRun] /\ \A q \in Runs \ {r} : run'[q] = run[q]
      /\ run'[r].at = at /\ run'[r].stamp = x.stamp
      /\ run'[r].job = x.job /\ run'[r].alone = x.alone /\ run'[r].still = x.still
  BY <1>0, <1>1 DEF RollRun, Stages
<1>3. /\ ~Resting(x) /\ ~Resting(run'[r])
      /\ StageFits(run'[r], table) /\ ReadFits(run'[r], source) /\ SweepFits(run'[r], dest)
      /\ UsageFits(run'[r], clock, daily, dest, source)
  BY <1>1, <1>2, RollFound DEF Resting, StageFits, ReadFits, SweepFits, UsageFits
<1>4. x.still => x.read = source
  BY <1>1, RollFound DEF ReadFits
<1>5. CheckFits(run'[r], kept, source)
  BY <1>1, <1>2, <1>4, RollFound DEF CheckFits
<1> HIDE DEF at
<1> QED BY <1>0, <1>1, <1>2, <1>3, <1>5, RollFound, RollStep

LEMMA RecordRolls ==
  ASSUME RollInv, NEW r \in Runs, Record(r)
  PROVE  RollInv'
<1> DEFINE x == run[r]
<1>1. /\ x.at \in {"differs", "agrees"}
      /\ run' = [run EXCEPT ![r] = [NotStarted EXCEPT !.at = "done"]]
      /\ settled' = (x.alone /\ x.still /\ x.job # "reconcile")
      /\ UNCHANGED <<table, source, clock, daily, dest, kept>>
  BY DEF Record, Done
<1>2. ASSUME settled'
      PROVE  x.alone /\ SettledIsRight'
  <2>1. x.alone /\ x.still /\ table = "cash" /\ x.job = "history"
    BY <1>1, <1>2, RollFound DEF StageFits, Resting, RollRun
  <2>2. kept = source
    BY <1>1, <2>1, RollFound DEF CheckFits
  <2> QED BY <1>1, <2>1, <2>2 DEF SettledIsRight
<1>3. ~Resting(x)
  BY <1>1 DEF Resting
<1> QED BY <1>1, <1>2, <1>3, RollFound, EndRolls

(* A run stops, its writes half done: what it has written of the             *)
(* destinations carries the latest instant.                                  *)
LEMMA FailRolls ==
  ASSUME RollInv, NEW r \in Runs, Fail(r)
  PROVE  RollInv'
<1> DEFINE x == run[r]
<1>0. /\ run \in [Runs -> RollRun] /\ clock \in Nat /\ x.stamp \in Nat /\ x.stamp <= clock
      /\ daily \in [Buckets -> RollRow] /\ dest \in [Buckets -> RollRow]
      /\ kept \in Figures /\ MaxFigure \in Nat
      /\ \A b \in Buckets : daily[b].stamp <= clock /\ dest[b].stamp <= clock
  BY RollFound DEF RollRun
<1>1. /\ ~Resting(x) /\ ~settled'
      /\ run' = [run EXCEPT ![r] = [NotStarted EXCEPT !.at = "done"]]
      /\ UNCHANGED <<table, source, clock>>
  BY DEF Fail, UnderWay, Resting
<1>2. PICK part \in SUBSET Buckets :
        /\ daily' = IF x.at = "writeDaily"
                    THEN [b \in Buckets |-> IF b \in part THEN Upserted(daily, r, x.stamp)[b]
                                            ELSE daily[b]]
                    ELSE daily
        /\ dest' = IF x.at = "writeDest"
                   THEN [b \in Buckets |-> IF b \in part THEN Upserted(dest, r, clock)[b]
                                           ELSE dest[b]]
                   ELSE dest
        /\ kept' \in {kept, [b \in Buckets |-> IF b \in part THEN Keyed(r)[b] ELSE kept[b]]}
  BY DEF Fail
<1>3. /\ daily' \in [Buckets -> RollRow] /\ \A b \in Buckets : daily'[b].stamp <= clock
  <2>1. /\ Upserted(daily, r, x.stamp) \in [Buckets -> RollRow]
        /\ \A b \in Buckets : \/ Upserted(daily, r, x.stamp)[b] = daily[b]
                              \/ Upserted(daily, r, x.stamp)[b].stamp = x.stamp
    <3>1. /\ Upserted(daily, r, x.stamp) \in [Buckets -> RollRow]
          /\ \A b \in Buckets :
               /\ x.read[b] = 0 => Upserted(daily, r, x.stamp)[b] = daily[b]
               /\ x.read[b] # 0 => Upserted(daily, r, x.stamp)[b].stamp = x.stamp
      BY <1>0, UpsertedRows
    <3> QED BY ONLY <3>1
  <2> HIDE DEF x
  <2> QED BY <1>0, <1>2, <2>1
<1>4. /\ dest' \in [Buckets -> RollRow]
      /\ \A b \in Buckets : dest'[b] = dest[b] \/ (dest'[b].n > 0 /\ dest'[b].stamp = clock)
  <2>1. /\ Upserted(dest, r, clock) \in [Buckets -> RollRow]
        /\ \A b \in Buckets : \/ Upserted(dest, r, clock)[b] = dest[b]
                              \/ /\ Upserted(dest, r, clock)[b].n > 0
                                 /\ Upserted(dest, r, clock)[b].stamp = clock
    <3>1. /\ Upserted(dest, r, clock) \in [Buckets -> RollRow]
          /\ \A b \in Buckets :
               /\ x.read[b] = 0 => Upserted(dest, r, clock)[b] = dest[b]
               /\ x.read[b] # 0 => /\ Upserted(dest, r, clock)[b].n > 0
                                   /\ Upserted(dest, r, clock)[b].stamp = clock
      BY <1>0, UpsertedRows
    <3> QED BY ONLY <3>1
  <2> HIDE DEF x
  <2> QED BY <1>0, <1>2, <2>1
<1>5. \A b \in Buckets : dest'[b].stamp <= clock
  BY <1>0, <1>4
<1>6. kept' \in Figures
  BY <1>0, <1>2, KeyedFigures DEF Figures
<1>7. ASSUME NEW q \in Runs \ {r}, SweepFits(run[q], dest)
      PROVE  SweepFits(run[q], dest')
  <2>1. run[q] \in RollRun /\ run[q].stamp <= clock /\ run[q].stamp \in Nat
    BY RollFound DEF RollRun
  <2>2. \A b \in Buckets : dest'[b] = dest[b] \/ (dest'[b].n > 0 /\ dest'[b].stamp >= run[q].stamp)
    BY <1>0, <1>4, <2>1
  <2> QED BY <1>0, <1>4, <1>7, <2>1, <2>2, WritesKeep
<1> QED BY <1>1, <1>3, <1>4, <1>5, <1>6, <1>7, EndRolls

(* The product changes: no run reads on as if nothing had. *)
LEMMA SourceRolls ==
  ASSUME RollInv, SourceChanges
  PROVE  RollInv'
<1>0. /\ RollTyped /\ OnItsOwn(run) /\ StampsFit(clock, daily, dest, run)
      /\ MaxFigure \in Nat
  BY RollupsAssumption DEF RollInv
<1>1. /\ run' = [q \in Runs |-> [run[q] EXCEPT !.still = FALSE]] /\ ~settled'
      /\ UNCHANGED <<table, clock, daily, dest, kept>>
  BY DEF SourceChanges, tables
<1>2. PICK b \in Buckets, n \in 0..MaxFigure : source' = [source EXCEPT ![b] = n]
  BY DEF SourceChanges
<1>3. source' \in Figures
  BY <1>0, <1>2 DEF RollTyped, Figures
<1>4. \A q \in Runs : /\ run'[q] \in RollRun /\ run'[q].at = run[q].at /\ run'[q].job = run[q].job
                      /\ run'[q].stamp = run[q].stamp /\ run'[q].read = run[q].read
                      /\ run'[q].alone = run[q].alone /\ ~run'[q].still
  BY <1>0, <1>1 DEF RollTyped, RollRun
<1>5. RollTyped'
  <2>1. run' \in [Runs -> RollRun]
    BY <1>1, <1>4
  <2> QED BY <1>0, <1>1, <1>3, <2>1 DEF RollTyped
<1>6. OnItsOwn(run') /\ StampsFit(clock, daily, dest, run')
  BY <1>0, <1>4 DEF OnItsOwn, StampsFit, Resting
<1>7. ASSUME NEW q \in Runs
      PROVE  /\ StageFits(run'[q], table) /\ ReadFits(run'[q], source')
             /\ UsageFits(run'[q], clock, daily, dest, source')
             /\ CheckFits(run'[q], kept, source') /\ SweepFits(run'[q], dest)
  <2>1. StageFits(run'[q], table) /\ ReadFits(run'[q], source')
    BY <1>4, RollFound DEF StageFits, ReadFits, Resting
  <2>2. UsageFits(run'[q], clock, daily, dest, source')
    BY <1>4, RollFound DEF UsageFits, WrittenBy
  <2>3. CheckFits(run'[q], kept, source') /\ SweepFits(run'[q], dest)
    BY <1>4, RollFound DEF CheckFits, SweepFits
  <2> QED BY <2>1, <2>2, <2>3
<1> QED BY <1>1, <1>5, <1>6, <1>7 DEF RollInv

(* A run begins, and takes the latest instant of all. *)
LEMMA BeginRolls ==
  ASSUME RollInv, NEW r \in Runs, NEW task \in RollJobs, Begin(r, task)
  PROVE  RollInv'
<1>0. /\ RollTyped /\ OnItsOwn(run) /\ StampsFit(clock, daily, dest, run)
      /\ run \in [Runs -> RollRun] /\ clock \in Nat /\ MaxFigure \in Nat
      /\ task \in {"roll", "history", "reconcile"}
      /\ \A b \in Buckets : daily[b].stamp \in Nat /\ dest[b].stamp \in Nat
      /\ \A q \in Runs : run[q].stamp \in Nat
  BY RollupsAssumption DEF RollInv, RollTyped, RollJobs, RollRow, RollRun
<1>1. Nothing \in Figures
  BY <1>0 DEF Nothing, Figures
<1> DEFINE begun == [NotStarted EXCEPT !.at = First(task), !.job = task, !.stamp = clock',
                       !.alone = (UnderWay = {}), !.still = TRUE]
<1>2. /\ run[r].at = "new" /\ clock' = IF table = "usage" THEN clock + 1 ELSE clock
      /\ run' = [q \in Runs |-> IF q = r THEN begun ELSE [run[q] EXCEPT !.alone = FALSE]]
      /\ ~settled' /\ UNCHANGED <<table, source, daily, dest, kept>>
  <2>1. run' = [q \in Runs |-> IF q = r THEN begun ELSE [run[q] EXCEPT !.alone = FALSE]]
    BY Zenon DEF Begin
  <2>2. ~settled' /\ UNCHANGED <<table, source, daily, dest, kept>>
    BY Zenon DEF Begin, tables
  <2>3. run[r].at = "new" /\ clock' = IF table = "usage" THEN clock + 1 ELSE clock
    BY Zenon DEF Begin
  <2> QED BY <2>1, <2>2, <2>3, Zenon
<1>3. clock' \in Nat /\ clock <= clock' /\ (table = "usage" => clock < clock')
  <2>1. clock \in Nat /\ clock' = IF table = "usage" THEN clock + 1 ELSE clock
    BY <1>0, <1>2, Zenon
  <2> QED BY ONLY <2>1
<1>4. /\ First(task) \in {"readSettlement", "readDaily", "read"}
      /\ First(task) = "readSettlement" <=> task = "reconcile"
      /\ First(task) = "readDaily" <=> task # "reconcile" /\ table = "usage"
  BY DEF First
<1>5. /\ begun \in RollRun /\ begun.at = First(task) /\ begun.job = task /\ begun.stamp = clock'
      /\ begun.alone = (UnderWay = {})
  BY <1>0, <1>1, <1>3, <1>4 DEF NotStarted, RollRun, Stages
<1> HIDE DEF begun
<1>6. /\ run' \in [Runs -> RollRun] /\ run'[r] = begun
      /\ \A q \in Runs \ {r} : /\ run'[q].at = run[q].at /\ run'[q].job = run[q].job
                              /\ run'[q].stamp = run[q].stamp /\ run'[q].read = run[q].read
                              /\ run'[q].still = run[q].still /\ ~run'[q].alone
  BY <1>0, <1>2, <1>5 DEF RollRun
<1>7. RollTyped'
  BY <1>0, <1>2, <1>3, <1>6 DEF RollTyped
<1>8. OnItsOwn(run')
  <2>1. ~Resting(run'[r])
    BY <1>4, <1>5, <1>6 DEF Resting
  <2>2. run'[r].alone => \A q \in Runs \ {r} : Resting(run'[q])
    BY <1>5, <1>6 DEF UnderWay, Resting
  <2> QED BY <1>6, <2>1, <2>2 DEF OnItsOwn
<1>9. StampsFit(clock', daily, dest, run')
  BY <1>0, <1>3, <1>5, <1>6 DEF StampsFit
<1>10. ASSUME NEW q \in Runs
       PROVE  /\ StageFits(run'[q], table) /\ ReadFits(run'[q], source)
              /\ UsageFits(run'[q], clock', daily, dest, source)
              /\ CheckFits(run'[q], kept, source) /\ SweepFits(run'[q], dest)
  <2>1. CASE q = r
    <3>1. StageFits(begun, table)
      BY <1>4, <1>5 DEF StageFits, RollJobs
    <3>2. ReadFits(begun, source) /\ CheckFits(begun, kept, source) /\ SweepFits(begun, dest)
      BY <1>4, <1>5 DEF ReadFits, CheckFits, SweepFits
    <3>3. table = "usage" => Older(daily, clock')
      BY <1>0, <1>3 DEF Older, StampsFit
    <3>4. UsageFits(begun, clock', daily, dest, source)
      BY <1>4, <1>5, <3>3 DEF UsageFits
    <3> QED BY <1>6, <2>1, <3>1, <3>2, <3>4
  <2>2. CASE q # r
    <3>1. UsageFits(run'[q], clock', daily, dest, source) /\ CheckFits(run'[q], kept, source)
      BY <1>6, <2>2 DEF UsageFits, CheckFits
    <3>2. StageFits(run'[q], table) /\ ReadFits(run'[q], source) /\ SweepFits(run'[q], dest)
      BY <1>6, <2>2, RollFound DEF StageFits, ReadFits, SweepFits, Resting
    <3> QED BY <3>1, <3>2
  <2> QED BY <2>1, <2>2
<1> QED BY <1>2, <1>7, <1>8, <1>9, <1>10 DEF RollInv

LEMMA InitRolls == RollInit => RollInv
<1> SUFFICES ASSUME RollInit
             PROVE  RollInv
  OBVIOUS
<1>1. MaxFigure \in Nat
  BY RollupsAssumption
<1>2. Nothing \in Figures /\ Absent \in RollRow
  BY <1>1 DEF Nothing, Figures, Absent, RollRow
<1>3. /\ NotStarted \in RollRun /\ NotStarted.at = "new" /\ ~NotStarted.alone
      /\ ~NotStarted.still /\ NotStarted.stamp = 0
  BY <1>2 DEF NotStarted, RollRun, Stages
<1>4. RollTyped /\ \A r \in Runs : run[r] = NotStarted
  BY <1>2, <1>3 DEF RollInit, RollTyped
<1>5. OnItsOwn(run)
  BY <1>3, <1>4 DEF OnItsOwn, Resting
<1>6. StampsFit(clock, daily, dest, run)
  BY <1>3, <1>4 DEF RollInit, StampsFit, Absent
<1>7. ASSUME NEW r \in Runs
      PROVE  /\ StageFits(run[r], table) /\ ReadFits(run[r], source)
             /\ UsageFits(run[r], clock, daily, dest, source)
             /\ CheckFits(run[r], kept, source) /\ SweepFits(run[r], dest)
  BY <1>3, <1>4 DEF StageFits, ReadFits, UsageFits, CheckFits, SweepFits, Resting
<1>8. ~settled
  BY DEF RollInit
<1> QED BY <1>4, <1>5, <1>6, <1>7, <1>8 DEF RollInv

LEMMA NextRolls == RollInv /\ [RollNext]_rollVars => RollInv'
<1> SUFFICES ASSUME RollInv, [RollNext]_rollVars
             PROVE  RollInv'
  OBVIOUS
<1>1. CASE SourceChanges
  BY <1>1, SourceRolls
<1>2. ASSUME NEW r \in Runs, NEW task \in RollJobs, Begin(r, task)
      PROVE  RollInv'
  BY <1>2, BeginRolls
<1>3. ASSUME NEW r \in Runs,
             \/ Read(r, "readDaily", "writeDaily") \/ WriteDaily(r) \/ SweepDaily(r)
             \/ Read(r, "readDest", "writeDest") \/ WriteDest(r) \/ SweepDest(r)
             \/ Read(r, "read", "write")
             \/ rollUsage(r) \/ rollRequests(r) \/ rollCash(r) \/ snapshotFinance(r)
             \/ Read(r, "readSettlement", "readCash") \/ ReadCash(r) \/ Record(r)
             \/ Fail(r)
      PROVE  RollInv'
  BY <1>3, ReadRolls, WriteDailyRolls, SweepDailyRolls, WriteDestRolls, SweepDestRolls,
     FigureTablesRoll, CashRolls, ReadCashRolls, RecordRolls, FailRolls
<1>4. CASE UNCHANGED rollVars
  BY <1>4 DEF rollVars, RollInv, RollTyped, SettledIsRight, Figure
<1> QED BY <1>1, <1>2, <1>3, <1>4 DEF RollNext

(* However many runs overlap, fail half-way or are repeated, and whatever    *)
(* the product changes meanwhile: a run on its own carries the latest        *)
(* instant, what it read is there under that instant before it sweeps, and a *)
(* table is called settled only when no run is under way.                    *)
THEOREM RollInvariance == RollSpec => []RollInv
<1>1. RollInit => RollInv
  BY InitRolls
<1>2. RollInv /\ [RollNext]_rollVars => RollInv'
  BY NextRolls
<1> QED BY <1>1, <1>2, PTL DEF RollSpec

(* Late receipts and corrected rows heal: once a run on its own has ended    *)
(* with no change beside it, the tables say what the product says, until     *)
(* something else happens (rollUsage, rollDestinations, rollRequests,        *)
(* rollCash, snapshotFinance).                                               *)
THEOREM SettledRight == RollSpec => []SettledIsRight
<1>1. RollSpec => []RollInv
  BY RollInvariance
<1>2. RollInv => SettledIsRight
  BY DEF RollInv, SettledIsRight
<1> QED BY <1>1, <1>2, PTL

(* Who moves a run, and to which stage: what the properties of the steps     *)
(* need of a step.                                                           *)
LEMMA RollMoves ==
  ASSUME RollInv, RollNext, NEW r \in Runs, run'[r].at # run[r].at
  PROVE  \/ run[r].at \notin {"sweepDaily", "sweepDest", "agrees", "differs"}
         \/ SweepDaily(r) \/ SweepDest(r) \/ Record(r) \/ Fail(r)
<1>0. run \in [Runs -> RollRun] /\ \A q \in Runs : run[q] \in RollRun
  BY RollFound
<1>1. CASE SourceChanges
  <2>1. run'[r] = [run[r] EXCEPT !.still = FALSE]
    BY <1>1 DEF SourceChanges
  <2>2. run'[r].at = run[r].at
    BY <1>0, <2>1 DEF RollRun
  <2> QED BY <2>2
<1>2. ASSUME NEW q \in Runs, NEW task \in RollJobs, Begin(q, task)
      PROVE  run[r].at \notin {"sweepDaily", "sweepDest", "agrees", "differs"}
  <2>1. CASE q = r
    BY <1>2, <2>1 DEF Begin
  <2>2. CASE q # r
    <3>1. run'[r] = [run[r] EXCEPT !.alone = FALSE]
      BY <1>2, <2>2 DEF Begin
    <3>2. run'[r].at = run[r].at
      BY <1>0, <3>1 DEF RollRun
    <3> QED BY <3>2
  <2> QED BY <2>1, <2>2
<1>3. ASSUME NEW q \in Runs,
             \/ Read(q, "readDaily", "writeDaily") \/ WriteDaily(q)
             \/ Read(q, "readDest", "writeDest") \/ WriteDest(q)
             \/ Read(q, "read", "write") \/ Read(q, "readSettlement", "readCash")
             \/ ReadCash(q)
      PROVE  run[r].at \notin {"sweepDaily", "sweepDest", "agrees", "differs"}
  <2>1. \/ q = r
        \/ run'[r] = run[r]
    BY <1>0, <1>3 DEF Read, WriteDaily, WriteDest, ReadCash, Step
  <2>2. run[q].at \notin {"sweepDaily", "sweepDest", "agrees", "differs"}
    BY <1>3 DEF Read, WriteDaily, WriteDest, ReadCash, Step
  <2> QED BY <2>1, <2>2
<1>4. ASSUME NEW q \in Runs,
             \/ rollUsage(q) \/ rollRequests(q) \/ rollCash(q) \/ snapshotFinance(q)
      PROVE  run[r].at \notin {"sweepDaily", "sweepDest", "agrees", "differs"}
  <2>1. run[q].at = "write"
    BY <1>4 DEF rollUsage, rollRequests, rollCash, snapshotFinance, Write
  <2>2. q = r \/ run'[r] = run[r]
    BY <1>0, <1>4 DEF rollUsage, rollRequests, rollCash, snapshotFinance, Done
  <2> QED BY <2>1, <2>2
<1>5. ASSUME NEW q \in Runs,
             SweepDaily(q) \/ SweepDest(q) \/ Record(q) \/ Fail(q)
      PROVE  q = r
  BY <1>0, <1>5 DEF SweepDaily, SweepDest, Record, Fail, Done
<1> QED BY <1>1, <1>2, <1>3, <1>4, <1>5 DEF RollNext

(* A run that no other overlapped replaces the day: what earlier runs left   *)
(* behind, also failed ones, is gone from the daily rows (the stamp and the  *)
(* sweep of finaliseDay and rollCurrentDay).                                 *)
THEOREM AloneReplaces == RollSpec => AloneReplacesTheDay
<1>1. ASSUME RollInv, [RollNext]_rollVars, NEW r \in Runs, run[r].alone,
             run[r].at = "sweepDaily", run'[r].at = "readDest"
      PROVE  Figure(daily') = run[r].read
  <2>1. RollNext
    BY <1>1 DEF rollVars
  <2>2. SweepDaily(r)
    <3>1. ~Fail(r)
      BY <1>1, RollFound DEF Fail, NotStarted
    <3>2. ~SweepDest(r) /\ ~Record(r)
      BY <1>1 DEF SweepDest, Record
    <3> QED BY <1>1, <2>1, <3>1, <3>2, RollMoves
  <2>3. \A b \in Buckets : daily'[b].n = run[r].read[b]
    BY <1>1, <2>2, SweepDailyRolls
  <2>4. run[r].read \in [Buckets -> 0..MaxFigure]
    BY <1>1, RollFound DEF RollRun, Figures
  <2> QED BY <2>3, <2>4 DEF Figure
<1>2. RollInv /\ [RollNext]_rollVars =>
        [\A r \in Runs : run[r].alone /\ run[r].at = "sweepDaily" /\ run'[r].at = "readDest" =>
           Figure(daily') = run[r].read]_rollVars
  BY <1>1
<1>3. RollSpec => []RollInv
  BY RollInvariance
<1> QED BY <1>2, <1>3, PTL DEF RollSpec, AloneReplacesTheDay

(* However runs overlap, a sweep of the destinations never takes away what   *)
(* its own run has read and written: whoever wrote the row since carries a   *)
(* later instant (upsertDestinationRows, the sweep in rollDestinations).     *)
THEOREM DestinationsKept == RollSpec => DestinationSweepsKeep
<1>1. ASSUME RollInv, [RollNext]_rollVars, NEW r \in Runs, NEW b \in Buckets,
             run[r].at = "sweepDest", dest' # dest, run'[r].at = "done", run[r].read[b] > 0
      PROVE  dest'[b].n > 0
  <2>0. /\ dest \in [Buckets -> RollRow] /\ run[r] \in RollRun /\ run[r].stamp \in Nat
        /\ SweepFits(run[r], dest) /\ \A c \in Buckets : dest[c].stamp \in Nat
    BY <1>1, RollFound DEF RollRow, RollRun
  <2>1. RollNext
    BY <1>1 DEF rollVars
  <2>2. SweepDest(r)
    <3>1. ~Fail(r)
      BY <1>1, <2>0 DEF Fail
    <3>2. ~SweepDaily(r) /\ ~Record(r)
      BY <1>1 DEF SweepDaily, Record
    <3> QED BY <1>1, <2>1, <3>1, <3>2, RollMoves
  <2>3. /\ dest' \in [Buckets -> RollRow]
        /\ \A c \in Buckets : dest'[c] = IF dest[c].stamp < run[r].stamp THEN Absent ELSE dest[c]
    BY <1>1, <2>0, <2>2, SweptRows DEF SweepDest
  <2>4. CASE \A c \in Buckets : run[r].read[c] > 0 => dest[c].n > 0 /\ dest[c].stamp >= run[r].stamp
    BY <1>1, <2>0, <2>3, <2>4
  <2>5. CASE ~\A c \in Buckets : run[r].read[c] > 0 => dest[c].n > 0 /\ dest[c].stamp >= run[r].stamp
    <3>1. \A c \in Buckets : dest'[c] = dest[c]
      BY <1>1, <2>0, <2>3, <2>5 DEF SweepFits
    <3>2. dest' = dest
      BY <2>0, <2>3, <3>1
    <3> QED BY <1>1, <3>2
  <2> QED BY <2>4, <2>5
<1>2. RollInv /\ [RollNext]_rollVars =>
        [\A r \in Runs, b \in Buckets :
           run[r].at = "sweepDest" /\ dest' # dest /\ run'[r].at = "done" /\ run[r].read[b] > 0 =>
             dest'[b].n > 0]_rollVars
  BY <1>1
<1>3. RollSpec => []RollInv
  BY RollInvariance
<1> QED BY <1>2, <1>3, PTL DEF RollSpec, DestinationSweepsKeep

(* A check that nothing else ran beside says the truth of what was collected *)
(* (reconcileCash): VARIANCE exactly when the rollup and the product differ. *)
THEOREM ChecksTrue == RollSpec => ChecksAreTrue
<1>1. ASSUME RollInv, [RollNext]_rollVars, NEW r \in Runs, run[r].alone, run[r].still,
             run[r].at \in {"agrees", "differs"}, run'[r].at = "done", checked' # checked
      PROVE  (checked' = "VARIANCE") = (kept[Main] # source[Main])
  <2>1. RollNext
    BY <1>1 DEF rollVars
  <2>2. Record(r)
    <3>1. ~Fail(r)
      BY <1>1 DEF Fail
    <3>2. ~SweepDaily(r) /\ ~SweepDest(r)
      BY <1>1 DEF SweepDaily, SweepDest
    <3> QED BY <1>1, <2>1, <3>1, <3>2, RollMoves
  <2>3. /\ run[r].at = "agrees" => kept[Main] = source[Main]
        /\ run[r].at = "differs" => kept[Main] # source[Main]
    BY <1>1, RollFound DEF CheckFits
  <2>4. checked' = IF run[r].at = "differs" THEN "VARIANCE" ELSE "OK"
    BY <2>2 DEF Record
  <2> QED BY <1>1, <2>3, <2>4
<1>2. RollInv /\ [RollNext]_rollVars =>
        [\A r \in Runs :
           run[r].alone /\ run[r].still /\ run[r].at \in {"agrees", "differs"}
             /\ run'[r].at = "done" /\ checked' # checked =>
             (checked' = "VARIANCE") = (kept[Main] # source[Main])]_rollVars
  BY <1>1
<1>3. RollSpec => []RollInv
  BY RollInvariance
<1> QED BY <1>2, <1>3, PTL DEF RollSpec, ChecksAreTrue

================================================================================
