---------------------------- MODULE FileAccess_proofs ----------------------------
(***************************************************************************)
(* Files are handed over in order, for any exports, fetches, workers and    *)
(* tries.                                                                   *)
(*                                                                          *)
(* A link needs the export's file: a row has a key only once a worker has    *)
(* stored the file, and nothing takes the file away (KeysAreStored,          *)
(* WorkersStored), whichever of the worker's writes to the row throw.  The    *)
(* audit line is the fetch's own business (FetchesInOrder): it is open only   *)
(* with its line on record.                                                  *)
(*                                                                          *)
(* The second part is about the console's lists (Lists): half-way through a  *)
(* walk, what is still to be shown is what lies ahead of the cursor          *)
(* (HalfWay).                                                                *)
(***************************************************************************)
EXTENDS FileAccess, Lists, TLAPS

ExportType ==
  [status : {"none", "QUEUED", "RUNNING", "READY", "FAILED", "EXPIRED"}, key : BOOLEAN]

JobType == [at : {"none", "waiting", "active", "over"}, by : Workers \cup {None},
            tries : 0..JobTries, stalled : BOOLEAN]

WorkerType == [at : {"idle", "start", "rows", "put", "ready", "failed", "done", "threw"},
               export : Exports \cup {None}]

FetchType == [at : {"new", "expire", "audit", "open", "given", "done"},
              route : {"download"} \cup DocumentRoutes,
              export : Exports \cup {None}]

KeysAreStored == \A e \in Exports : export[e].key => e \in stored

WorkersBusy == \A w \in Workers : worker[w].at # "idle" => worker[w].export \in Exports

WorkersStored == \A w \in Workers : worker[w].at = "ready" => worker[w].export \in stored

FetchOK(f) ==
  /\ fetch[f].at \in {"open", "given"} => f \in lines
  /\ fetch[f].export # None => fetch[f].export \in stored
  /\ fetch[f].at = "expire" => fetch[f].export \in Exports

FetchesInOrder == \A f \in Fetches : FetchOK(f)

(* A job that waits or runs has a try left, only its own worker ends it, and *)
(* it is not queued twice.                                                   *)
JobOK(e) ==
  /\ job[e].at # "over" => job[e].tries < JobTries
  /\ job[e].by # None => job[e].at = "active"
  /\ request[e] \in {"new", "row"} => job[e] = NoJob

JobsOK == \A e \in Exports : JobOK(e)

IInv == /\ TypeOK /\ KeysAreStored /\ WorkersBusy /\ WorkersStored /\ FetchesInOrder
        /\ JobsOK

--------------------------------------------------------------------------------
LEMMA Types ==
  ASSUME IInv
  PROVE  /\ request \in [Exports -> {"new", "row", "job", "answered", "stopped"}]
         /\ export \in [Exports -> ExportType] /\ job \in [Exports -> JobType]
         /\ worker \in [Workers -> WorkerType] /\ fetch \in [Fetches -> FetchType]
         /\ stored \subseteq Exports /\ expired \subseteq Exports /\ unsaid \subseteq Exports
         /\ lines \subseteq Exports \cup Fetches
BY DEF IInv, TypeOK, ExportType, JobType, WorkerType, FetchType

LEMMA NewTypes ==
  /\ NoJob \in JobType /\ Resting \in WorkerType /\ NewFetch \in FetchType
  /\ [status |-> "none", key |-> FALSE] \in ExportType
BY FileAccessAssumption DEF NoJob, Resting, NewFetch, JobType, WorkerType, FetchType, ExportType

LEMMA InitInv == Init => IInv
<1> SUFFICES ASSUME Init PROVE IInv
  OBVIOUS
<1>1. TypeOK
  BY NewTypes DEF Init, TypeOK, JobType, WorkerType, FetchType, ExportType
<1>2. KeysAreStored /\ WorkersBusy /\ WorkersStored
  BY DEF Init, KeysAreStored, WorkersBusy, WorkersStored, Resting
<1>3. FetchesInOrder
  BY DEF Init, FetchesInOrder, FetchOK, NewFetch
<1>4. JobsOK
  BY FileAccessAssumption DEF Init, JobsOK, JobOK, NoJob
<1> QED BY <1>1, <1>2, <1>3, <1>4 DEF IInv

(* A step on exports, jobs and workers: files stay and fetches see no        *)
(* difference.                                                               *)
LEMMA MakingStep ==
  ASSUME IInv, fetch' = fetch, lines \subseteq lines', stored \subseteq stored',
         lines' \subseteq Exports \cup Fetches, stored' \subseteq Exports,
         expired' \subseteq Exports, unsaid' \subseteq Exports,
         request' \in [Exports -> {"new", "row", "job", "answered", "stopped"}],
         export' \in [Exports -> ExportType], job' \in [Exports -> JobType],
         worker' \in [Workers -> WorkerType],
         KeysAreStored', WorkersBusy', WorkersStored', JobsOK'
  PROVE  IInv'
<1>1. TypeOK'
  BY Types DEF TypeOK, ExportType, JobType, WorkerType, FetchType
<1>2. FetchesInOrder'
  BY DEF IInv, FetchesInOrder, FetchOK
<1> QED BY <1>1, <1>2 DEF IInv

(* What a change of one row's status leaves alone. *)
LEMMA StatusSet ==
  ASSUME IInv, NEW e \in Exports, SetStatus(e, "RUNNING") \/ SetStatus(e, "FAILED")
               \/ SetStatus(e, "EXPIRED") \/ SetStatus(e, "QUEUED")
  PROVE  /\ export' \in [Exports -> ExportType]
         /\ \A x \in Exports : export'[x].key = export[x].key
<1>1. PICK status \in {"RUNNING", "FAILED", "EXPIRED", "QUEUED"} : SetStatus(e, status)
  OBVIOUS
<1> DEFINE new == [export[e] EXCEPT !.status = status]
<1>2. export' = [export EXCEPT ![e] = new]
  BY <1>1 DEF SetStatus
<1>3. new \in ExportType /\ new.key = export[e].key
  BY Types DEF ExportType
<1> HIDE DEF new
<1> QED BY <1>2, <1>3, Types

LEMMA WorkerMoves ==
  ASSUME IInv, NEW w \in Workers, worker[w].at # "idle",
         NEW stage \in {"rows", "put", "ready", "failed", "done", "threw"}, WorkerGoes(w, stage),
         stage = "ready" => worker[w].export \in stored', stored \subseteq stored'
  PROVE  worker' \in [Workers -> WorkerType] /\ WorkersBusy' /\ WorkersStored'
<1> DEFINE new == [worker[w] EXCEPT !.at = stage]
<1>1. worker' = [worker EXCEPT ![w] = new]
  BY DEF WorkerGoes
<1>2. new \in WorkerType /\ new.at = stage /\ new.export = worker[w].export
  BY Types DEF WorkerType
<1> HIDE DEF new
<1>3. worker' \in [Workers -> WorkerType]
  BY <1>1, <1>2, Types
<1>4. \A v \in Workers : /\ worker'[v].export = worker[v].export
                         /\ v # w => worker'[v].at = worker[v].at
                         /\ v = w => worker'[v].at = stage
  BY <1>1, <1>2, Types
<1> QED BY <1>3, <1>4 DEF IInv, WorkersBusy, WorkersStored

LEMMA WorkerRests ==
  ASSUME IInv, NEW w \in Workers, worker' = [worker EXCEPT ![w] = Resting], stored' = stored
  PROVE  worker' \in [Workers -> WorkerType] /\ WorkersBusy' /\ WorkersStored'
BY NewTypes, Types DEF IInv, WorkersBusy, WorkersStored, Resting

(* A change of one job. *)
LEMMA JobChanged ==
  ASSUME IInv, NEW e \in Exports, NEW new \in JobType, job' = [job EXCEPT ![e] = new],
         new.at # "over" => new.tries < JobTries, new.by # None => new.at = "active",
         request' \in [Exports -> {"new", "row", "job", "answered", "stopped"}],
         request'[e] \notin {"new", "row"},
         \A x \in Exports \ {e} : request'[x] = request[x]
  PROVE  job' \in [Exports -> JobType] /\ JobsOK'
<1>1. job' \in [Exports -> JobType]
  BY Types
<1>2. ASSUME NEW x \in Exports PROVE JobOK(x)'
  <2>1. JobOK(x)
    BY DEF IInv, JobsOK
  <2>2. CASE x = e
    <3>1. job'[x] = new /\ request'[x] \notin {"new", "row"}
      BY <2>2, Types
    <3> QED BY <3>1 DEF JobOK
  <2>3. CASE x # e
    <3>1. job'[x] = job[x] /\ request'[x] = request[x]
      BY <2>3, Types
    <3> QED BY <2>1, <3>1 DEF JobOK
  <2> QED BY <2>2, <2>3
<1> QED BY <1>1, <1>2 DEF JobsOK

--------------------------------------------------------------------------------
LEMMA RequestSteps ==
  ASSUME IInv, NEW e \in Exports,
         CreateRow(e) \/ AddJob(e) \/ RecordRequest(e) \/ RequestStops(e) \/ Expires(e)
  PROVE  IInv'
<1>1. CASE CreateRow(e)
  <2>1. /\ export' \in [Exports -> ExportType]
        /\ \A x \in Exports : export'[x].key = export[x].key
    BY <1>1, StatusSet DEF CreateRow, SetStatus
  <2>2. JobsOK'
    BY <1>1, Types DEF CreateRow, IInv, JobsOK, JobOK
  <2>3. KeysAreStored' /\ WorkersBusy' /\ WorkersStored'
    BY <1>1, <2>1 DEF CreateRow, IInv, KeysAreStored, WorkersBusy, WorkersStored
  <2> QED BY <1>1, <2>1, <2>2, <2>3, Types, MakingStep DEF CreateRow
<1>2. CASE AddJob(e)
  <2> DEFINE new == [job[e] EXCEPT !.at = "waiting"]
  <2>1. job' = [job EXCEPT ![e] = new]
    BY <1>2 DEF AddJob
  <2>2. job[e] = NoJob
    BY <1>2 DEF AddJob, IInv, JobsOK, JobOK
  <2>3. new \in JobType /\ new.tries < JobTries /\ new.by = None
    <3>1. new \in JobType /\ new.tries = job[e].tries /\ new.by = job[e].by
      BY Types DEF JobType
    <3> HIDE DEF new
    <3>2. job[e].tries = 0 /\ job[e].by = None
      BY <2>2 DEF NoJob
    <3> QED BY <3>1, <3>2, FileAccessAssumption
  <2> HIDE DEF new
  <2>4. job' \in [Exports -> JobType] /\ JobsOK'
    BY <1>2, <2>1, <2>3, Types, JobChanged DEF AddJob
  <2>5. KeysAreStored' /\ WorkersBusy' /\ WorkersStored'
    BY <1>2 DEF AddJob, IInv, KeysAreStored, WorkersBusy, WorkersStored
  <2> QED BY <1>2, <2>4, <2>5, Types, MakingStep DEF AddJob
<1>3. CASE RecordRequest(e) \/ RequestStops(e)
  <2>1. JobsOK'
    BY <1>3, Types DEF RecordRequest, RequestStops, IInv, JobsOK, JobOK
  <2>2. KeysAreStored' /\ WorkersBusy' /\ WorkersStored'
    BY <1>3 DEF RecordRequest, RequestStops, IInv, KeysAreStored, WorkersBusy, WorkersStored
  <2> QED BY <1>3, <2>1, <2>2, Types, MakingStep DEF RecordRequest, RequestStops
<1>4. CASE Expires(e)
  <2>1. KeysAreStored' /\ WorkersBusy' /\ WorkersStored' /\ JobsOK'
    BY <1>4 DEF Expires, IInv, KeysAreStored, WorkersBusy, WorkersStored, JobsOK, JobOK
  <2> QED BY <1>4, <2>1, Types, MakingStep DEF Expires
<1> QED BY <1>1, <1>2, <1>3, <1>4

LEMMA TakeStep ==
  ASSUME IInv, NEW w \in Workers, TakeJob(w)
  PROVE  IInv'
<1>1. PICK e \in Exports :
        /\ job[e].at = "waiting"
        /\ job' = [job EXCEPT ![e] = [job[e] EXCEPT !.at = "active", !.by = w]]
        /\ worker' = [worker EXCEPT ![w] = [at |-> "start", export |-> e]]
  BY DEF TakeJob
<1> DEFINE new == [job[e] EXCEPT !.at = "active", !.by = w]
<1>2. JobOK(e) /\ request[e] \notin {"new", "row"}
  BY <1>1 DEF IInv, JobsOK, JobOK, NoJob
<1>3. new \in JobType /\ new.tries < JobTries /\ new.at = "active"
  BY <1>1, <1>2, Types DEF JobType, JobOK
<1>4. job' = [job EXCEPT ![e] = new]
  BY <1>1
<1> HIDE DEF new
<1>5. job' \in [Exports -> JobType] /\ JobsOK'
  BY <1>2, <1>3, <1>4, Types, JobChanged DEF TakeJob
<1>6. worker' \in [Workers -> WorkerType] /\ WorkersBusy' /\ WorkersStored'
  <2>1. [at |-> "start", export |-> e] \in WorkerType
    BY DEF WorkerType
  <2> QED BY <1>1, <2>1, Types DEF IInv, WorkersBusy, WorkersStored, TakeJob
<1>7. KeysAreStored'
  BY DEF TakeJob, IInv, KeysAreStored
<1> QED BY <1>5, <1>6, <1>7, Types, MakingStep DEF TakeJob

(* The worker's way to the file. *)
LEMMA MakeSteps ==
  ASSUME IInv, NEW w \in Workers, StartRunning(w) \/ BuildRows(w) \/ PutObject(w)
  PROVE  IInv'
<1>1. worker[w].at # "idle" /\ worker[w].export \in Exports
  BY DEF IInv, WorkersBusy, StartRunning, BuildRows, PutObject
<1>2. JobsOK'
  BY DEF IInv, JobsOK, JobOK, StartRunning, BuildRows, PutObject
<1>3. CASE StartRunning(w)
  <2>1. /\ export' \in [Exports -> ExportType]
        /\ \A x \in Exports : export'[x].key = export[x].key
    BY <1>1, <1>3, StatusSet, Types DEF StartRunning
  <2>2. worker' \in [Workers -> WorkerType] /\ WorkersBusy' /\ WorkersStored'
    <3>1. PICK stage \in {"rows", "threw"} : WorkerGoes(w, stage) /\ stored' = stored
      BY <1>3 DEF StartRunning
    <3> QED BY <1>1, <3>1, WorkerMoves
  <2>3. KeysAreStored' /\ unsaid' \subseteq Exports
    BY <1>1, <1>3, <2>1, Types DEF StartRunning, IInv, KeysAreStored
  <2> QED BY <1>2, <1>3, <2>1, <2>2, <2>3, Types, MakingStep DEF StartRunning
<1>4. CASE BuildRows(w)
  <2>1. worker' \in [Workers -> WorkerType] /\ WorkersBusy' /\ WorkersStored'
    BY <1>1, <1>4, WorkerMoves DEF BuildRows
  <2>2. KeysAreStored'
    BY <1>4 DEF BuildRows, IInv, KeysAreStored
  <2> QED BY <1>2, <1>4, <2>1, <2>2, Types, MakingStep DEF BuildRows
<1>5. CASE PutObject(w)
  <2>1. stored \subseteq stored' /\ stored' \subseteq Exports
    BY <1>1, <1>5, Types DEF PutObject
  <2>2. worker' \in [Workers -> WorkerType] /\ WorkersBusy' /\ WorkersStored'
    <3>1. CASE WorkerGoes(w, "ready") /\ stored' = stored \cup {worker[w].export}
      BY <1>1, <3>1, WorkerMoves
    <3>2. CASE WorkerGoes(w, "failed") /\ stored' = stored
      BY <1>1, <3>2, WorkerMoves
    <3> QED BY <1>5, <3>1, <3>2 DEF PutObject
  <2>3. KeysAreStored'
    BY <1>5, <2>1 DEF PutObject, IInv, KeysAreStored
  <2> QED BY <1>2, <1>5, <2>1, <2>2, <2>3, Types, MakingStep DEF PutObject
<1> QED BY <1>3, <1>4, <1>5

(* A job as the queue has it once its worker has ended it or lost it. *)
LEMMA ReleasedType ==
  ASSUME IInv, NEW e \in Exports, NEW at \in {"waiting", "over"}
  PROVE  /\ Released(e, at) \in JobType /\ Released(e, at).at = at
         /\ Released(e, at).by = None /\ Released(e, at).tries = job[e].tries
BY Types DEF Released, JobType

LEMMA MineIsActive ==
  ASSUME IInv, NEW w \in Workers, NEW e \in Exports, job[e].by = w
  PROVE  job[e].tries < JobTries /\ request[e] \notin {"new", "row"} /\ job[e].tries \in Nat
<1>1. job[e].by # None /\ JobOK(e)
  BY FileAccessAssumption DEF IInv, JobsOK
<1>2. job[e].tries \in Nat
  BY Types DEF JobType
<1> QED BY <1>1, <1>2 DEF JobOK, NoJob

(* The outcome is written, or not. *)
LEMMA OutcomeSteps ==
  ASSUME IInv, NEW w \in Workers, EndReady(w) \/ EndFailed(w)
  PROVE  IInv'
<1> DEFINE e == worker[w].export
           new == [status |-> "READY", key |-> TRUE]
<1>1. /\ worker[w].at # "idle" /\ e \in Exports
      /\ worker[w].at = "ready" => e \in stored
  BY DEF EndReady, EndFailed, IInv, WorkersBusy, WorkersStored
<1>2. worker' \in [Workers -> WorkerType] /\ WorkersBusy' /\ WorkersStored'
  <2>1. PICK stage \in {"failed", "done", "threw"} : WorkerGoes(w, stage) /\ stored' = stored
    BY DEF EndReady, EndFailed
  <2> QED BY <1>1, <2>1, WorkerMoves
<1>3. export' \in [Exports -> ExportType] /\ KeysAreStored'
  <2>1. new \in ExportType
    BY DEF ExportType
  <2>2. CASE EndReady(w)
    BY <1>1, <2>1, <2>2, Types DEF EndReady, IInv, KeysAreStored
  <2>3. CASE EndFailed(w) /\ SetStatus(e, "FAILED")
    BY <1>1, <2>3, StatusSet DEF EndFailed, IInv, KeysAreStored
  <2>4. CASE EndFailed(w) /\ export' = export
    BY <2>4, Types DEF EndFailed, IInv, KeysAreStored
  <2> QED BY <2>2, <2>3, <2>4 DEF EndFailed
<1>4. unsaid' \subseteq Exports /\ JobsOK'
  BY <1>1, Types DEF EndReady, EndFailed, IInv, JobsOK, JobOK
<1> QED BY <1>2, <1>3, <1>4, Types, MakingStep DEF EndReady, EndFailed

(* A worker's last step: it rests, and its job may change hands. *)
LEMMA RestingStep ==
  ASSUME IInv, NEW w \in Workers, worker' = [worker EXCEPT ![w] = Resting],
         job' \in [Exports -> JobType], JobsOK', unsaid' \subseteq Exports,
         UNCHANGED <<request, export, stored, expired, fetch, lines>>
  PROVE  IInv'
<1>1. worker' \in [Workers -> WorkerType] /\ WorkersBusy' /\ WorkersStored'
  BY WorkerRests
<1>2. KeysAreStored'
  BY DEF IInv, KeysAreStored
<1> QED BY <1>1, <1>2, Types, MakingStep

LEMMA JobDoneStep ==
  ASSUME IInv, NEW w \in Workers, JobDone(w)
  PROVE  IInv'
<1> DEFINE e == worker[w].export
<1>1. e \in Exports
  BY DEF JobDone, IInv, WorkersBusy
<1>2. job' \in [Exports -> JobType] /\ JobsOK'
  <2>1. CASE Mine(w)
    <3>1. job' = [job EXCEPT ![e] = Released(e, "over")]
      BY <2>1 DEF JobDone
    <3>2. request[e] \notin {"new", "row"}
      BY <1>1, <2>1, MineIsActive DEF Mine
    <3> HIDE DEF e
    <3> QED BY <1>1, <3>1, <3>2, ReleasedType, Types, JobChanged DEF JobDone
  <2>2. CASE ~Mine(w)
    <3>1. job' = job
      BY <2>2 DEF JobDone
    <3> QED BY <3>1, Types DEF JobDone, IInv, JobsOK, JobOK
  <2> QED BY <2>1, <2>2
<1> QED BY <1>2, Types, RestingStep DEF JobDone

LEMMA JobThrewStep ==
  ASSUME IInv, NEW w \in Workers, JobThrew(w)
  PROVE  IInv'
<1> DEFINE e == worker[w].export
           tries == job[e].tries + 1
           at == IF tries < JobTries THEN "waiting" ELSE "over"
           new == [Released(e, at) EXCEPT !.tries = tries]
<1>1. e \in Exports
  BY DEF JobThrew, IInv, WorkersBusy
<1>2. job' \in [Exports -> JobType] /\ JobsOK'
  <2>1. CASE Mine(w)
    <3>1. job' = [job EXCEPT ![e] = new]
      BY <2>1 DEF JobThrew
    <3>2. job[e].tries < JobTries /\ request[e] \notin {"new", "row"} /\ job[e].tries \in Nat
      BY <1>1, <2>1, MineIsActive DEF Mine
    <3>3. tries \in 0..JobTries /\ at \in {"waiting", "over"}
      BY <3>2, FileAccessAssumption
    <3>4. /\ new \in JobType /\ new.at = at /\ new.by = None /\ new.tries = tries
      <4> HIDE DEF e, tries, at
      <4>1. Released(e, at) \in JobType /\ Released(e, at).at = at /\ Released(e, at).by = None
        BY <1>1, <3>3, ReleasedType
      <4> QED BY <3>3, <4>1 DEF JobType
    <3>5. new.at # "over" => new.tries < JobTries
      BY <3>4
    <3> HIDE DEF e, tries, at, new
    <3> QED BY <1>1, <3>1, <3>2, <3>4, <3>5, Types, JobChanged DEF JobThrew
  <2>2. CASE ~Mine(w)
    <3>1. job' = job
      BY <2>2 DEF JobThrew
    <3> QED BY <3>1, Types DEF JobThrew, IInv, JobsOK, JobOK
  <2> QED BY <2>1, <2>2
<1> QED BY <1>2, Types, RestingStep DEF JobThrew

(* A job handed out again is still a job in order. *)
LEMMA HandedOut ==
  ASSUME IInv, NEW w \in Workers, NEW e \in Exports, job[e].by = w, HandOutAgain(e),
         request' = request
  PROVE  job' \in [Exports -> JobType] /\ JobsOK'
<1> DEFINE at == IF job[e].stalled THEN "over" ELSE "waiting"
           new == [Released(e, at) EXCEPT !.stalled = TRUE]
<1>1. job' = [job EXCEPT ![e] = new]
  BY DEF HandOutAgain
<1>2. job[e].tries < JobTries /\ request[e] \notin {"new", "row"}
  BY MineIsActive
<1>3. at \in {"waiting", "over"}
  OBVIOUS
<1> HIDE DEF at
<1>4. new \in JobType /\ new.tries < JobTries /\ new.by = None
  BY <1>2, <1>3, ReleasedType DEF JobType
<1> HIDE DEF new
<1> QED BY <1>1, <1>2, <1>4, Types, JobChanged

LEMMA HandOutSteps ==
  ASSUME IInv, NEW w \in Workers, WorkerStops(w) \/ JobStalls(w)
  PROVE  IInv'
<1>1. worker[w].export \in Exports
  BY DEF WorkerStops, JobStalls, IInv, WorkersBusy
<1>2. job' \in [Exports -> JobType] /\ JobsOK'
  <2>1. CASE Mine(w) /\ HandOutAgain(worker[w].export)
    BY <1>1, <2>1, HandedOut DEF Mine, WorkerStops, JobStalls
  <2>2. CASE job' = job
    BY <2>2, Types DEF WorkerStops, JobStalls, IInv, JobsOK, JobOK
  <2> QED BY <2>1, <2>2 DEF WorkerStops, JobStalls
<1>3. unsaid' \subseteq Exports
  BY <1>1, Types DEF WorkerStops, JobStalls
<1>4. CASE WorkerStops(w)
  BY <1>2, <1>3, <1>4, RestingStep DEF WorkerStops
<1>5. CASE JobStalls(w)
  <2>1. KeysAreStored' /\ WorkersBusy' /\ WorkersStored'
    BY <1>5 DEF JobStalls, IInv, KeysAreStored, WorkersBusy, WorkersStored
  <2> QED BY <1>2, <1>3, <1>5, <2>1, Types, MakingStep DEF JobStalls
<1> QED BY <1>4, <1>5

LEMMA ExpireStep ==
  ASSUME IInv, expireExports
  PROVE  IInv'
<1>1. /\ export' \in [Exports -> ExportType]
      /\ \A e \in Exports : export'[e].key = export[e].key
  <2>1. \A e \in Exports : /\ [export[e] EXCEPT !.status = "EXPIRED"] \in ExportType
                           /\ [export[e] EXCEPT !.status = "EXPIRED"].key = export[e].key
    BY Types DEF ExportType
  <2> QED BY <2>1, Types DEF expireExports
<1>2. KeysAreStored' /\ WorkersBusy' /\ WorkersStored' /\ JobsOK'
  BY <1>1 DEF expireExports, IInv, KeysAreStored, WorkersBusy, WorkersStored, JobsOK, JobOK
<1> QED BY <1>1, <1>2, Types, MakingStep DEF expireExports

--------------------------------------------------------------------------------
(* A step of one fetch. *)
LEMMA FetchStep ==
  ASSUME IInv, NEW f \in Fetches, NEW new \in FetchType, fetch' = [fetch EXCEPT ![f] = new],
         new.at \in {"open", "given"} => f \in lines',
         new.export # None => new.export \in stored,
         new.at = "expire" => new.export \in Exports,
         lines \subseteq lines', lines' \subseteq Exports \cup Fetches,
         export' \in [Exports -> ExportType],
         \A e \in Exports : export'[e].key = export[e].key,
         UNCHANGED <<request, job, worker, stored, expired, unsaid>>
  PROVE  IInv'
<1>1. fetch' \in [Fetches -> FetchType]
  BY Types
<1>2. TypeOK'
  BY <1>1, Types DEF TypeOK, ExportType, JobType, WorkerType, FetchType
<1>3. KeysAreStored' /\ WorkersBusy' /\ WorkersStored' /\ JobsOK'
  BY DEF IInv, KeysAreStored, WorkersBusy, WorkersStored, JobsOK, JobOK
<1>4. ASSUME NEW g \in Fetches PROVE FetchOK(g)'
  <2>1. FetchOK(g)
    BY DEF IInv, FetchesInOrder
  <2>2. CASE g = f
    BY <2>2, Types DEF FetchOK
  <2>3. CASE g # f
    BY <2>1, <2>3, Types DEF FetchOK
  <2> QED BY <2>2, <2>3
<1> QED BY <1>2, <1>3, <1>4 DEF IInv, FetchesInOrder

LEMMA FetchStarts ==
  ASSUME IInv, NEW f \in Fetches, StartDownload(f) \/ resolveDocument(f)
  PROVE  IInv'
<1>1. CASE StartDownload(f)
  <2>1. PICK e \in Exports :
          /\ export[e].status = "READY" /\ export[e].key
          /\ fetch' = [fetch EXCEPT ![f] =
               [at |-> IF e \in expired THEN "expire" ELSE "audit", route |-> "download",
                export |-> e]]
    BY <1>1 DEF StartDownload
  <2> DEFINE at == IF e \in expired THEN "expire" ELSE "audit"
             new == [at |-> at, route |-> "download", export |-> e]
  <2>2. e \in stored
    BY <2>1 DEF IInv, KeysAreStored
  <2>3. new \in FetchType
    BY DEF FetchType
  <2>4. new.at \in {"expire", "audit"} /\ new.export = e
    OBVIOUS
  <2>5. fetch' = [fetch EXCEPT ![f] = new]
    BY <2>1
  <2> HIDE DEF new
  <2> QED BY <1>1, <2>2, <2>3, <2>4, <2>5, Types, FetchStep DEF StartDownload, making
<1>2. CASE resolveDocument(f)
  <2>1. PICK route \in DocumentRoutes :
          fetch' = [fetch EXCEPT ![f] = [fetch[f] EXCEPT !.at = "audit", !.route = route]]
    BY <1>2 DEF resolveDocument
  <2> DEFINE new == [fetch[f] EXCEPT !.at = "audit", !.route = route]
  <2>2. fetch[f].at = "new" /\ FetchOK(f)
    BY <1>2 DEF resolveDocument, IInv, FetchesInOrder
  <2>3. /\ new \in FetchType /\ new.at = "audit" /\ new.export = fetch[f].export
    BY Types DEF FetchType
  <2>4. fetch' = [fetch EXCEPT ![f] = new]
    BY <2>1
  <2> HIDE DEF new
  <2> QED BY <1>2, <2>2, <2>3, <2>4, Types, FetchStep DEF resolveDocument, making, FetchOK
<1> QED BY <1>1, <1>2

(* The later steps of a fetch change where it is and nothing else of it. *)
LEMMA FetchMoves ==
  ASSUME IInv, NEW f \in Fetches,
         \/ MarkExpired(f) \/ RecordFetch(f) \/ FetchFails(f)
         \/ HandOver(f) \/ resolve(f) \/ file(f) \/ streamZip(f)
  PROVE  IInv'
<1>1. FetchOK(f)
  BY DEF IInv, FetchesInOrder
<1>2. PICK at \in {"open", "given", "done"} :
        /\ fetch' = [fetch EXCEPT ![f].at = at]
        /\ at = "open" => fetch[f].at = "audit" /\ f \in lines'
        /\ at = "given" => fetch[f].at = "open"
  BY DEF MarkExpired, RecordFetch, FetchFails, HandOver, resolve, file, streamZip, Give
<1> DEFINE new == [fetch[f] EXCEPT !.at = at]
<1>3. fetch' = [fetch EXCEPT ![f] = new]
  BY <1>2
<1>4. /\ new \in FetchType /\ new.at = at /\ new.export = fetch[f].export
  BY Types DEF FetchType
<1> HIDE DEF new
<1>5. /\ export' \in [Exports -> ExportType]
      /\ \A e \in Exports : export'[e].key = export[e].key
  <2>1. CASE MarkExpired(f)
    <3>1. fetch[f].export \in Exports
      BY <1>1, <2>1 DEF MarkExpired, FetchOK
    <3> QED BY <2>1, <3>1, StatusSet DEF MarkExpired
  <2>2. CASE ~MarkExpired(f)
    BY <2>2, Types DEF making, RecordFetch, FetchFails, HandOver, resolve, file, streamZip, Give
  <2> QED BY <2>1, <2>2
<1>6. /\ lines \subseteq lines' /\ lines' \subseteq Exports \cup Fetches
      /\ UNCHANGED <<request, job, worker, stored, expired, unsaid>>
  BY Types DEF making, MarkExpired, RecordFetch, FetchFails, HandOver, resolve, file, streamZip, Give
<1>7. /\ new.at \in {"open", "given"} => f \in lines'
      /\ new.export # None => new.export \in stored
      /\ new.at # "expire"
  BY <1>1, <1>2, <1>4, <1>6 DEF FetchOK
<1> QED BY <1>3, <1>4, <1>5, <1>6, <1>7, FetchStep

--------------------------------------------------------------------------------
LEMMA NextInv == IInv /\ [Next]_vars => IInv'
<1> SUFFICES ASSUME IInv, [Next]_vars PROVE IInv'
  OBVIOUS
<1>1. ASSUME NEW e \in Exports,
             CreateRow(e) \/ AddJob(e) \/ RecordRequest(e) \/ RequestStops(e) \/ Expires(e)
      PROVE  IInv'
  BY <1>1, RequestSteps
<1>2. ASSUME NEW w \in Workers, Working(w) \/ WorkerStops(w) \/ JobStalls(w)
      PROVE  IInv'
  BY <1>2, TakeStep, MakeSteps, OutcomeSteps, JobDoneStep, JobThrewStep,
     HandOutSteps DEF Working
<1>3. ASSUME NEW f \in Fetches,
             \/ StartDownload(f) \/ MarkExpired(f) \/ resolveDocument(f) \/ RecordFetch(f)
             \/ HandOver(f) \/ resolve(f) \/ file(f) \/ streamZip(f) \/ FetchFails(f)
      PROVE  IInv'
  BY <1>3, FetchStarts, FetchMoves
<1>4. CASE UNCHANGED vars
  BY <1>4, Types, MakingStep DEF vars, making, IInv, KeysAreStored, WorkersBusy, WorkersStored,
                                 JobsOK, JobOK
<1> QED BY <1>1, <1>2, <1>3, <1>4, ExpireStep DEF Next

(* The inductive invariant of the files handed to staff. *)
THEOREM Invariance == Spec => []IInv
BY InitInv, NextInv, PTL DEF Spec

(* Requests, export rows, jobs, workers and fetches stay in their types,     *)
(* however often a job is tried or handed out (exports.service.ts,           *)
(* exports.processor.ts).                                                    *)
THEOREM TypeCorrect == Spec => []TypeOK
<1>1. IInv => TypeOK BY DEF IInv
<1> QED BY Invariance, <1>1, PTL

(* Nothing is handed over before its audit line, and no link to a file that  *)
(* is not stored, for any number of workers on one job (download, resolve,   *)
(* file, streamZip).                                                         *)
THEOREM InOrder == Spec => []HandedOverInOrder
<1>1. IInv => HandedOverInOrder
  BY DEF IInv, FetchesInOrder, FetchOK, HandedOverInOrder
<1> QED BY Invariance, <1>1, PTL

--------------------------------------------------------------------------------
(* The console's lists (Lists): a walk that follows its cursor shows each    *)
(* row that stays once, for any rows, dates and page size.                   *)

(* The rows a cursor leaves for later pages. *)
Ahead(l, c, keys, r) ==
  IF l = "senderIds" THEN keys[r] > c.at \/ (keys[r] = c.at /\ r > c.id)
  ELSE keys[r] < c.at \/ (keys[r] = c.at /\ r < c.id)

(* Lists that skip rows count them, the others send the last row's key back. *)
CursorOK ==
  cursor # FirstPage =>
    IF list \in {"table", "drafts"} THEN cursor \in [offset : Nat]
    ELSE cursor \in [at : Moments, id : Rows]

(* Half-way, what stayed and was not shown lies ahead of the cursor, and     *)
(* what stayed where it was and was shown does not.                          *)
HalfWay ==
  ~ended =>
    \A r \in stayed :
      /\ cursor = FirstPage => r \notin seen
      /\ cursor # FirstPage =>
           /\ r \notin seen => Ahead(list, cursor, key, r)
           /\ r \in seen \ moved => ~Ahead(list, cursor, key, r)

WalkInv ==
  /\ WalkTypeOK /\ CursorOK /\ stayed \subseteq table
  /\ Followed => HalfWay /\ Once

LEMMA WalkTyped ==
  ASSUME WalkInv
  PROVE  /\ Rows \subseteq Nat /\ Moments \subseteq Nat /\ Limit \in Nat
         /\ key \in [Rows -> Moments] /\ \A r \in Rows : key[r] \in Nat
         /\ table \subseteq Rows /\ stayed \subseteq table /\ seen \subseteq Rows
<1>1. Rows \subseteq Nat /\ Moments \subseteq Nat /\ Limit \in Nat
  BY ListsAssumption
<1>2. key \in [Rows -> Moments] /\ table \subseteq Rows /\ seen \subseteq Rows /\ stayed \subseteq table
  BY DEF WalkInv, WalkTypeOK
<1> QED BY <1>1, <1>2

LEMMA CursorsDiffer ==
  /\ \A m, r : [at |-> m, id |-> r] # FirstPage
  /\ \A n : [offset |-> n] # FirstPage
<1>1. DOMAIN FirstPage = {"none"}
  BY DEF FirstPage
<1>2. ASSUME NEW m, NEW r
      PROVE  [at |-> m, id |-> r] # FirstPage
  <2>1. DOMAIN [at |-> m, id |-> r] = {"at", "id"}
    OBVIOUS
  <2> QED BY <1>1, <2>1
<1>3. ASSUME NEW n
      PROVE  [offset |-> n] # FirstPage
  <2>1. DOMAIN [offset |-> n] = {"offset"}
    OBVIOUS
  <2> QED BY <1>1, <2>1
<1> QED BY <1>2, <1>3

(* Any page, of any list: what it shows comes from the list. *)
LEMMA ShowTyped ==
  ASSUME WalkInv, NEW data, data \subseteq table,
         NEW hasMore \in BOOLEAN, NEW next, Show(data, hasMore, next),
         hasMore => next = FirstPage
                    \/ (IF list \in {"table", "drafts"} THEN next \in [offset : Nat]
                        ELSE next \in [at : Moments, id : Rows])
  PROVE  WalkTypeOK' /\ CursorOK' /\ (stayed \subseteq table)'
<1>1. WalkTypeOK'
  BY WalkTyped DEF WalkInv, WalkTypeOK, Show
<1>2. CursorOK'
  BY DEF CursorOK, Show
<1>3. (stayed \subseteq table)'
  BY DEF WalkInv, Show
<1> QED BY <1>1, <1>2, <1>3

LEMMA MoreTyped ==
  ASSUME WalkInv, NEW data, data \subseteq table,
         list \notin {"table", "drafts"}, NEW next \in [at : Moments, id : Rows],
         Show(data, TRUE, next)
  PROVE  WalkTypeOK' /\ CursorOK' /\ (stayed \subseteq table)'
  BY ShowTyped

(* A page of a walk that follows its cursor: of what the cursor leaves, the  *)
(* rows before all others.                                                   *)
LEMMA PageFollows ==
  ASSUME WalkInv, Followed, NEW found,
         found = {r \in table : cursor = FirstPage \/ Ahead(list, cursor, key, r)},
         buildPage(found)
  PROVE  WalkInv'
<1>0. /\ WalkTypeOK /\ CursorOK /\ HalfWay /\ Once
      /\ list \in Keyset /\ list \notin {"table", "drafts"}
  BY DEF WalkInv, Followed, Keyset
<1>1. PICK data \in SUBSET found :
        /\ \A a \in data, b \in found \ data : Before(a, b)
        /\ \/ data = found /\ Show(data, FALSE, FirstPage)
           \/ \E last \in data : /\ \A r \in data \ {last} : Before(r, last)
                                 /\ Show(data, TRUE, encodeCursor(last))
  BY DEF buildPage, First
<1>2. data \subseteq table /\ ~ended /\ seen' = seen \cup data
      /\ repeated' = repeated \cup (seen \cap data)
      /\ UNCHANGED <<list, term, table, key, stayed, moved>>
  BY <1>1 DEF Show
<1>3. stayed \cap repeated' \subseteq moved
  <2> SUFFICES ASSUME NEW r \in stayed, r \in seen, r \in data, r \notin moved
               PROVE  FALSE
    BY <1>0, <1>2 DEF Once
  <2>1. cursor # FirstPage
    BY <1>0, <1>2 DEF HalfWay
  <2>2. Ahead(list, cursor, key, r)
    BY <2>1, <1>1
  <2> QED BY <1>0, <1>2, <2>1, <2>2 DEF HalfWay
<1>4. \A r \in stayed : r \in found \/ r \in seen
  BY <1>0, <1>2, WalkTyped DEF HalfWay
<1>5. CASE data = found /\ Show(data, FALSE, FirstPage)
  <2>1. WalkTypeOK' /\ CursorOK' /\ (stayed \subseteq table)'
    BY <1>2, <1>5, ShowTyped
  <2>2. ended' = TRUE
    BY <1>5 DEF Show
  <2>3. HalfWay'
    BY <2>2 DEF HalfWay
  <2>4. Once'
    BY <1>2, <1>3, <1>4, <1>5 DEF Once
  <2> QED BY <2>1, <2>3, <2>4 DEF WalkInv
<1>6. ASSUME NEW last \in data, \A r \in data \ {last} : Before(r, last),
             Show(data, TRUE, encodeCursor(last))
      PROVE  WalkInv'
  <2>0. last \in Rows /\ encodeCursor(last) = [at |-> key[last], id |-> last]
    BY <1>2, WalkTyped DEF encodeCursor
  <2>1. WalkTypeOK' /\ CursorOK' /\ (stayed \subseteq table)'
    <3>1. encodeCursor(last) \in [at : Moments, id : Rows]
      BY <2>0, WalkTyped
    <3>2. list \notin {"table", "drafts"} /\ data \subseteq table
      BY <1>0, <1>2
    <3> QED BY <1>6, <3>1, <3>2, MoreTyped
  <2>2. /\ ended' = FALSE /\ cursor' # FirstPage
        /\ cursor'.at = key[last] /\ cursor'.id = last
    <3>1. cursor' = [at |-> key[last], id |-> last] /\ ended' = FALSE
      BY <1>6, <2>0 DEF Show
    <3>2. [at |-> key[last], id |-> last] # FirstPage
      BY CursorsDiffer
    <3> QED BY <3>1, <3>2
  <2>3. \A r \in Rows : Ahead(list, cursor', key, r) <=> Before(last, r)
    BY <2>0, <2>2, WalkTyped DEF Ahead, Before, Newer, DueFirst
  <2>4. ASSUME NEW r \in stayed, r \notin seen'
        PROVE  Ahead(list, cursor', key, r)
    BY <1>1, <1>2, <1>4, <2>3, <2>4, WalkTyped
  <2>5. ASSUME NEW r \in stayed, r \in seen', r \notin moved
        PROVE  ~Ahead(list, cursor', key, r)
    <3>0. r \in Rows /\ last \in Rows
      BY <2>0, WalkTyped
    <3>1. CASE r \in data
      <4>1. r = last \/ Before(r, last)
        BY <1>6, <3>1
      <4> QED BY <2>3, <3>0, <4>1, WalkTyped DEF Before, Newer, DueFirst
    <3>2. CASE r \in seen
      <4>1. cursor # FirstPage /\ ~Ahead(list, cursor, key, r)
        BY <1>0, <1>2, <2>5, <3>2 DEF HalfWay
      <4>2. Ahead(list, cursor, key, last)
        BY <1>1, <4>1
      <4>3. cursor.at \in Nat /\ cursor.id \in Nat
        BY <1>0, <4>1, WalkTyped DEF CursorOK
      <4> QED BY <2>3, <3>0, <4>1, <4>2, <4>3, WalkTyped
              DEF Ahead, Before, Newer, DueFirst
    <3> QED BY <1>2, <2>5, <3>1, <3>2
  <2>6. HalfWay'
    BY <1>2, <2>2, <2>4, <2>5 DEF HalfWay
  <2>7. Once'
    BY <1>2, <1>3, <2>2 DEF Once
  <2> QED BY <2>1, <2>6, <2>7 DEF WalkInv
<1> QED BY <1>1, <1>5, <1>6

(* A page of a walk that does not follow its cursor. *)
LEMMA PageElse ==
  ASSUME WalkInv, ~Followed, NEW found, found \subseteq table,
         list \notin {"table", "drafts"}, buildPage(found)
  PROVE  WalkInv'
<1>1. PICK data \in SUBSET found :
        \/ Show(data, FALSE, FirstPage)
        \/ \E last \in data : Show(data, TRUE, encodeCursor(last))
  BY DEF buildPage, First
<1>2. CASE Show(data, FALSE, FirstPage)
  BY <1>2, ShowTyped DEF WalkInv, Followed, Show
<1>3. ASSUME NEW last \in data, Show(data, TRUE, encodeCursor(last))
      PROVE  WalkInv'
  <2>1. encodeCursor(last) \in [at : Moments, id : Rows]
    BY WalkTyped DEF encodeCursor
  <2>2. WalkTypeOK' /\ CursorOK' /\ (stayed \subseteq table)'
    BY <1>3, <2>1, MoreTyped
  <2>3. ~Followed'
    BY <1>3 DEF Show, Followed
  <2> QED BY <2>2, <2>3 DEF WalkInv
<1> QED BY <1>1, <1>2, <1>3

LEMMA SkippingTyped ==
  ASSUME WalkInv, list \in {"table", "drafts"}, Skipping
  PROVE  WalkInv'
<1> DEFINE offset == IF cursor = FirstPage THEN 0 ELSE cursor.offset
<1>1. PICK skipped, data :
        data \subseteq table /\ Show(data, data # table \ skipped, [offset |-> offset + Limit])
  BY DEF Skipping, First
<1>2. [offset |-> offset + Limit] \in [offset : Nat]
  BY WalkTyped DEF WalkInv, CursorOK
<1> HIDE DEF offset
<1>3. WalkTypeOK' /\ CursorOK' /\ (stayed \subseteq table)'
  BY <1>1, <1>2, ShowTyped
<1>4. ~Followed'
  BY <1>1 DEF Show, Followed, Keyset
<1> QED BY <1>3, <1>4 DEF WalkInv

LEMMA PagesWalked ==
  ASSUME WalkInv,
         \/ SearchNobodyFlagged \/ SearchCustomers \/ CustomerLedger
         \/ CustomerNotes \/ CustomersTable \/ CustomerRequests
         \/ CampaignsList \/ MessagesList \/ InboxList \/ CreditsList
         \/ AuditList \/ StaffList \/ ExportsList \/ SenderIdsList
         \/ Drafts
  PROVE  WalkInv'
<1>1. CASE SearchNobodyFlagged
  <2>1. table = {} /\ Show({}, FALSE, FirstPage)
    BY <1>1 DEF SearchNobodyFlagged
  <2>2. WalkTypeOK' /\ CursorOK' /\ (stayed \subseteq table)'
    BY <2>1, ShowTyped
  <2>3. ended' = TRUE /\ stayed' = {}
    BY <2>1 DEF Show, WalkInv
  <2> QED BY <2>2, <2>3 DEF WalkInv, HalfWay, Once
<1>2. CASE \/ SearchCustomers \/ CustomerLedger \/ CustomerNotes
           \/ CampaignsList \/ MessagesList \/ InboxList \/ CreditsList
           \/ AuditList \/ (StaffList /\ ~term)
  <2>1. Followed /\ list # "senderIds" /\ buildPage(cursorWhere)
    BY <1>2 DEF SearchCustomers, CustomerLedger, CustomerNotes,
         CampaignsList, MessagesList, InboxList, CreditsList,
         AuditList, StaffList, Followed, Keyset
  <2>2. cursorWhere = {r \in table : cursor = FirstPage \/ Ahead(list, cursor, key, r)}
    BY <2>1 DEF cursorWhere, Ahead
  <2> QED BY <2>1, <2>2, PageFollows
<1>3. CASE SenderIdsList
  <2>1. Followed /\ list = "senderIds" /\ buildPage(queueWhere)
    BY <1>3 DEF SenderIdsList, Followed, Keyset
  <2>2. queueWhere = {r \in table : cursor = FirstPage \/ Ahead(list, cursor, key, r)}
    BY <2>1 DEF queueWhere, Ahead
  <2> QED BY <2>1, <2>2, PageFollows
<1>4. CASE ExportsList \/ (StaffList /\ term)
  <2>1. ~Followed /\ list \notin {"table", "drafts"} /\ buildPage(table)
    BY <1>4 DEF ExportsList, StaffList, Followed, Keyset
  <2> QED BY <2>1, PageElse
<1>5. CASE CustomerRequests
  <2> DEFINE more == Cardinality(table) >= Limit
  <2>1. PICK data \in SUBSET table : list = "requests" /\ Show(data, more, FirstPage)
    BY <1>5 DEF CustomerRequests, First
  <2>0. more \in BOOLEAN
    OBVIOUS
  <2> HIDE DEF more
  <2>2. ~Followed'
    BY <2>1 DEF Show, Followed, Keyset
  <2>3. WalkTypeOK' /\ CursorOK' /\ (stayed \subseteq table)'
    BY <2>0, <2>1, ShowTyped
  <2> QED BY <2>2, <2>3 DEF WalkInv
<1>6. CASE CustomersTable \/ Drafts
  <2>1. list \in {"table", "drafts"} /\ Skipping
    BY <1>6 DEF CustomersTable, Drafts
  <2> QED BY <2>1, SkippingTyped
<1> QED BY <1>1, <1>2, <1>3, <1>4, <1>5, <1>6

(* Rows come, go and move: only what stays counts, and what moves in a list  *)
(* that is followed moves away from the cursor.                              *)
LEMMA RowsChange ==
  ASSUME WalkInv, NEW r \in Rows,
         Insert(r) \/ Leave(r) \/ Move(r)
  PROVE  WalkInv'
<1>0. /\ WalkTypeOK /\ CursorOK /\ stayed \subseteq table /\ UNCHANGED walk
  BY DEF WalkInv, Insert, Leave, Move
<1>1. UNCHANGED <<list, term, cursor, ended, seen, repeated>> /\ (Followed' <=> Followed)
  BY <1>0 DEF walk, Followed
<1>2. CursorOK'
  BY <1>0, <1>1 DEF CursorOK
<1>3. CASE Insert(r)
  <2>1. /\ r \notin stayed /\ table' = table \cup {r} /\ stayed' = stayed /\ moved' = moved
        /\ key' \in [Rows -> Moments] /\ \A s \in stayed : key'[s] = key[s]
    BY <1>0, <1>3, WalkTyped DEF Insert
  <2>2. WalkTypeOK' /\ (stayed \subseteq table)'
    BY <1>0, <1>1, <2>1 DEF WalkTypeOK
  <2>3. ASSUME Followed
        PROVE  HalfWay' /\ Once'
    BY <1>1, <2>1, <2>3 DEF WalkInv, HalfWay, Once, Ahead
  <2> QED BY <1>1, <1>2, <2>2, <2>3 DEF WalkInv
<1>4. CASE Leave(r)
  <2>1. /\ table' = table \ {r} /\ stayed' = stayed \ {r} /\ moved' = moved /\ key' = key
    BY <1>4 DEF Leave
  <2>2. WalkTypeOK' /\ (stayed \subseteq table)'
    BY <1>0, <1>1, <2>1 DEF WalkTypeOK
  <2>3. ASSUME Followed
        PROVE  HalfWay' /\ Once'
    BY <1>1, <2>1, <2>3 DEF WalkInv, HalfWay, Once, Ahead
  <2> QED BY <1>1, <1>2, <2>2, <2>3 DEF WalkInv
<1>5. CASE Move(r)
  <2>1. PICK m \in Moments : m > key[r] /\ key' = [key EXCEPT ![r] = m]
    BY <1>5 DEF Move
  <2>2. /\ list \in {"senderIds", "drafts"} /\ moved' = moved \cup {r}
        /\ table' = table /\ stayed' = stayed
    BY <1>5 DEF Move
  <2>3. WalkTypeOK' /\ (stayed \subseteq table)'
    BY <1>0, <1>1, <2>1, <2>2 DEF WalkTypeOK
  <2>4. ASSUME Followed
        PROVE  HalfWay' /\ Once'
    <3>1. list = "senderIds" /\ HalfWay /\ Once
      BY <2>2, <2>4 DEF Followed, Keyset, WalkInv
    <3>2. Once'
      BY <1>1, <2>2, <3>1 DEF Once
    <3>3. \A s \in Rows : /\ s # r => key'[s] = key[s]
                          /\ key'[s] \in Nat /\ key[s] \in Nat /\ s \in Nat
                          /\ key'[s] >= key[s]
      BY <2>1, WalkTyped
    <3>4. cursor # FirstPage => cursor.at \in Nat /\ cursor.id \in Nat
      BY <1>0, <3>1, WalkTyped DEF CursorOK
    <3>5. \A s \in stayed : s \in Rows
      BY WalkTyped
    <3>6. cursor # FirstPage => \A s \in stayed :
            /\ Ahead(list, cursor, key, s) => Ahead(list, cursor, key', s)
            /\ s # r => (Ahead(list, cursor, key', s) => Ahead(list, cursor, key, s))
      <4> SUFFICES ASSUME cursor # FirstPage, NEW s \in stayed
                   PROVE  /\ Ahead(list, cursor, key, s) => Ahead(list, cursor, key', s)
                          /\ s # r => (Ahead(list, cursor, key', s) => Ahead(list, cursor, key, s))
        OBVIOUS
      <4>1. /\ key[s] \in Nat /\ key'[s] \in Nat /\ s \in Nat /\ key'[s] >= key[s]
            /\ s # r => key'[s] = key[s]
            /\ cursor.at \in Nat /\ cursor.id \in Nat
        BY <3>3, <3>4, <3>5
      <4>2. key'[s] = key[s] \/ key'[s] > key[s]
        BY <4>1
      <4> QED BY <3>1, <4>1, <4>2 DEF Ahead
    <3>7. HalfWay'
      BY <1>1, <2>2, <3>1, <3>6 DEF HalfWay
    <3> QED BY <3>2, <3>7
  <2> QED BY <1>1, <1>2, <2>3, <2>4 DEF WalkInv
<1> QED BY <1>3, <1>4, <1>5

LEMMA InitWalks == WalkInit => WalkInv
  BY DEF WalkInit, Lists, Keyset, WalkInv, WalkTypeOK, CursorOK, HalfWay, Once

LEMMA NextWalks == WalkInv /\ [WalkNext]_walkVars => WalkInv'
<1> SUFFICES ASSUME WalkInv, [WalkNext]_walkVars
             PROVE  WalkInv'
  OBVIOUS
<1>1. CASE Reopen
  BY <1>1 DEF Reopen, WalkInv, WalkTypeOK, CursorOK, HalfWay, Once
<1>2. ASSUME NEW r \in Rows, Insert(r) \/ Leave(r) \/ Move(r)
      PROVE  WalkInv'
  BY <1>2, RowsChange
<1>3. CASE UNCHANGED walkVars
  BY <1>3 DEF walkVars, WalkInv, WalkTypeOK, CursorOK, HalfWay, Once, Followed
<1> QED BY <1>1, <1>2, <1>3, PagesWalked DEF WalkNext

(* Every variable of a walk keeps its type, and half-way through a walk that *)
(* follows its cursor the rows still to be shown are those ahead of it.      *)
THEOREM WalkInvariance == WalkSpec => []WalkInv
<1>1. WalkInit => WalkInv
  BY InitWalks
<1>2. WalkInv /\ [WalkNext]_walkVars => WalkInv'
  BY NextWalks
<1> QED BY <1>1, <1>2, PTL DEF WalkSpec

(* However many rows there are, share a date, come, go or move between the   *)
(* pages: at the end of a walk that follows its cursor every row that stayed *)
(* was shown, and only one that moved was shown twice (buildPage,            *)
(* cursorWhere, SenderIdsService.list).                                      *)
THEOREM ShownOnce == WalkSpec => []EachRowOnce
<1>1. WalkSpec => []WalkInv
  BY WalkInvariance
<1>2. WalkInv => EachRowOnce
  BY DEF WalkInv, EachRowOnce
<1> QED BY <1>1, <1>2, PTL

================================================================================
