------------------------------- MODULE FileAccess ------------------------------
(***************************************************************************)
(* Files handed to staff.  Exports: requested and downloaded through         *)
(* modules/finance/exports.service.ts, made by the export workers            *)
(* (modules/jobs/exports.processor.ts), kept in S3 (integrations/s3/          *)
(* s3.service.ts) and closed by the nightly retention job                     *)
(* (modules/jobs/maintenance.processor.ts).  Sender-ID documents: one by      *)
(* one or all in a zip, through modules/sender-ids/documents.service.ts.      *)
(*                                                                          *)
(* Refused requests leave no trace and are not steps: a role that may not     *)
(* export personal data, a member of staff who neither ran the export nor is   *)
(* a super admin, an export that is not ready, a document that is not of the   *)
(* application.  The rows and cells of an export are left out.                *)
(*                                                                          *)
(* The job queue is BullMQ, used as queues.ts configures it: a job that        *)
(* throws is tried again up to JobTries times, and a job whose worker has       *)
(* stopped answering is handed out once more.  JobTries stands for attempts.  *)
(***************************************************************************)
EXTENDS Naturals, FiniteSets

CONSTANTS Exports,   \* requests for an export
          Fetches,   \* requests for a file
          Workers,   \* export workers, one per instance
          JobTries,  \* how often a job that throws is tried
          None

ASSUME FileAccessAssumption ==
  /\ JobTries \in Nat \ {0}
  /\ None \notin Exports \cup Workers

VARIABLES request, \* where each request for an export is
          export,  \* the rows of export_jobs
          job,     \* the job of each export
          worker,  \* what each worker is doing
          stored,  \* S3: exports with a file
          expired, \* exports whose expiresAt has passed
          fetch,   \* where each request for a file is
          lines,   \* audit: the requests and fetches with a line
          unsaid   \* history: exports with a run that ended, since the last
                   \* outcome written, without writing its own

making == <<request, export, job, worker, stored, expired, unsaid>>
vars == <<making, fetch, lines>>

NoJob == [at |-> "none", by |-> None, tries |-> 0, stalled |-> FALSE]
Resting == [at |-> "idle", export |-> None]
NewFetch == [at |-> "new", route |-> "download", export |-> None]

(* The routes to a document: its address, the file itself, all in a zip. *)
DocumentRoutes == {"resolve", "file", "zip"}

TypeOK ==
  /\ request \in [Exports -> {"new", "row", "job", "answered", "stopped"}]
  /\ export \in [Exports -> [status : {"none", "QUEUED", "RUNNING", "READY", "FAILED", "EXPIRED"},
                             key : BOOLEAN]]
  /\ job \in [Exports -> [at : {"none", "waiting", "active", "over"}, by : Workers \cup {None},
                          tries : 0..JobTries, stalled : BOOLEAN]]
  /\ worker \in [Workers -> [at : {"idle", "start", "rows", "put", "ready", "failed", "done", "threw"},
                             export : Exports \cup {None}]]
  /\ stored \subseteq Exports /\ expired \subseteq Exports /\ unsaid \subseteq Exports
  /\ fetch \in [Fetches -> [at : {"new", "expire", "audit", "open", "given", "done"},
                            route : {"download"} \cup DocumentRoutes,
                            export : Exports \cup {None}]]
  /\ lines \subseteq Exports \cup Fetches

Init ==
  /\ request = [e \in Exports |-> "new"]
  /\ export = [e \in Exports |-> [status |-> "none", key |-> FALSE]]
  /\ job = [e \in Exports |-> NoJob]
  /\ worker = [w \in Workers |-> Resting]
  /\ stored = {} /\ expired = {} /\ lines = {} /\ unsaid = {}
  /\ fetch = [f \in Fetches |-> NewFetch]

--------------------------------------------------------------------------------
(* create: the row, the job, the audit line, the answer. *)
CreateRow(e) ==
  /\ request[e] = "new"
  /\ request' = [request EXCEPT ![e] = "row"]
  /\ export' = [export EXCEPT ![e].status = "QUEUED"]
  /\ UNCHANGED <<job, worker, stored, expired, unsaid, fetch, lines>>

AddJob(e) ==
  /\ request[e] = "row"
  /\ request' = [request EXCEPT ![e] = "job"]
  /\ job' = [job EXCEPT ![e].at = "waiting"]
  /\ UNCHANGED <<export, worker, stored, expired, unsaid, fetch, lines>>

RecordRequest(e) ==
  /\ request[e] = "job"
  /\ request' = [request EXCEPT ![e] = "answered"]
  /\ lines' = lines \cup {e}
  /\ UNCHANGED <<export, job, worker, stored, expired, unsaid, fetch>>

(* The process stops, or the queue or the database is out of reach. *)
RequestStops(e) ==
  /\ request[e] \in {"row", "job"}
  /\ request' = [request EXCEPT ![e] = "stopped"]
  /\ UNCHANGED <<export, job, worker, stored, expired, unsaid, fetch, lines>>

(* A worker takes a job.  Its concurrency is one. *)
TakeJob(w) ==
  /\ worker[w].at = "idle"
  /\ \E e \in Exports :
       /\ job[e].at = "waiting"
       /\ job' = [job EXCEPT ![e] = [@ EXCEPT !.at = "active", !.by = w]]
       /\ worker' = [worker EXCEPT ![w] = [at |-> "start", export |-> e]]
  /\ UNCHANGED <<request, export, stored, expired, unsaid, fetch, lines>>

WorkerGoes(w, stage) == worker' = [worker EXCEPT ![w].at = stage]

SetStatus(e, status) == export' = [export EXCEPT ![e].status = status]

(* A write that throws may have reached the row first.  Nothing catches this *)
(* one, and the queue hears of it.                                          *)
StartRunning(w) ==
  /\ worker[w].at = "start"
  /\ \/ SetStatus(worker[w].export, "RUNNING") /\ WorkerGoes(w, "rows") /\ UNCHANGED unsaid
     \/ /\ SetStatus(worker[w].export, "RUNNING") \/ UNCHANGED export
        /\ WorkerGoes(w, "threw")
        /\ unsaid' = unsaid \cup {worker[w].export}
  /\ UNCHANGED <<request, job, stored, expired, fetch, lines>>

(* rowsFor and putExport: either may throw. *)
BuildRows(w) ==
  /\ worker[w].at = "rows"
  /\ \/ WorkerGoes(w, "put")
     \/ WorkerGoes(w, "failed")
  /\ UNCHANGED <<request, export, job, stored, expired, unsaid, fetch, lines>>

PutObjectLater(w) ==
  /\ worker[w].at = "put"
  /\ WorkerGoes(w, "ready")
  /\ UNCHANGED <<request, export, job, stored, expired, unsaid, fetch, lines>>

PutObject(w) ==
  /\ worker[w].at = "put"
  /\ \/ WorkerGoes(w, "ready") /\ stored' = stored \cup {worker[w].export}
     \/ WorkerGoes(w, "failed") /\ UNCHANGED stored
  /\ UNCHANGED <<request, export, job, expired, unsaid, fetch, lines>>

(* The file is there and the row says so; when that write throws, the run   *)
(* has failed after all.                                                    *)
EndReady(w) ==
  /\ worker[w].at = "ready"
  /\ \/ /\ export' = [export EXCEPT ![worker[w].export] = [status |-> "READY", key |-> TRUE]]
        /\ unsaid' = unsaid \ {worker[w].export}
        /\ WorkerGoes(w, "done") \/ WorkerGoes(w, "failed")
     \/ UNCHANGED <<export, unsaid>> /\ WorkerGoes(w, "failed")
  /\ UNCHANGED <<request, job, stored, expired, fetch, lines>>

EndFailedUnwritten(w) ==
  /\ worker[w].at = "failed"
  /\ WorkerGoes(w, "threw")
  /\ UNCHANGED <<request, export, job, stored, expired, unsaid, fetch, lines>>

(* The error is written to the row and thrown on.  Written in the catch: an *)
(* error of this write is thrown in its place.                              *)
EndFailed(w) ==
  /\ worker[w].at = "failed"
  /\ WorkerGoes(w, "threw")
  /\ \/ SetStatus(worker[w].export, "FAILED") /\ unsaid' = unsaid \ {worker[w].export}
     \/ UNCHANGED export /\ unsaid' = unsaid \cup {worker[w].export}
  /\ UNCHANGED <<request, job, stored, expired, fetch, lines>>

(* What the queue makes of it, unless the job has been handed out again      *)
(* meanwhile: this worker has then lost it.                                 *)
Mine(w) == job[worker[w].export].by = w

Released(e, at) == [job[e] EXCEPT !.at = at, !.by = None]

JobDone(w) ==
  /\ worker[w].at = "done"
  /\ worker' = [worker EXCEPT ![w] = Resting]
  /\ LET e == worker[w].export
     IN job' = IF Mine(w) THEN [job EXCEPT ![e] = Released(e, "over")] ELSE job
  /\ UNCHANGED <<request, export, stored, expired, unsaid, fetch, lines>>

JobThrew(w) ==
  /\ worker[w].at = "threw"
  /\ worker' = [worker EXCEPT ![w] = Resting]
  /\ LET e == worker[w].export
         tries == job[e].tries + 1
     IN job' = IF Mine(w)
               THEN [job EXCEPT ![e] = [Released(e, IF tries < JobTries THEN "waiting" ELSE "over")
                                        EXCEPT !.tries = tries]]
               ELSE job
  /\ UNCHANGED <<request, export, stored, expired, unsaid, fetch, lines>>

(* An instance stops, or is too busy to renew its lock and runs on: the job *)
(* is handed out again.  Once: a job that stalls twice is given up.         *)
HandOutAgain(e) ==
  job' = [job EXCEPT ![e] = [Released(e, IF job[e].stalled THEN "over" ELSE "waiting")
                             EXCEPT !.stalled = TRUE]]

WorkerStops(w) ==
  /\ worker[w].at # "idle"
  /\ \/ Mine(w) /\ HandOutAgain(worker[w].export)
     \/ ~Mine(w) /\ UNCHANGED job
  /\ unsaid' = IF worker[w].at \in {"done", "threw"} THEN unsaid
               ELSE unsaid \cup {worker[w].export}
  /\ worker' = [worker EXCEPT ![w] = Resting]
  /\ UNCHANGED <<request, export, stored, expired, fetch, lines>>

JobStalls(w) ==
  /\ worker[w].at # "idle" /\ Mine(w)
  /\ HandOutAgain(worker[w].export)
  /\ UNCHANGED <<request, export, worker, stored, expired, unsaid, fetch, lines>>

(* The clock, and expireExports in the nightly retention job. *)
Expires(e) ==
  /\ export[e].status # "none" /\ e \notin expired
  /\ expired' = expired \cup {e}
  /\ UNCHANGED <<request, export, job, worker, stored, unsaid, fetch, lines>>

expireExports ==
  /\ \E e \in expired : export[e].status = "READY"
  /\ export' = [e \in Exports |->
       IF e \in expired /\ export[e].status = "READY"
       THEN [export[e] EXCEPT !.status = "EXPIRED"] ELSE export[e]]
  /\ UNCHANGED <<request, job, worker, stored, expired, unsaid, fetch, lines>>

(* download: the row, then the clock. *)
StartDownload(f) ==
  /\ fetch[f].at = "new"
  /\ \E e \in Exports :
       /\ export[e].status = "READY" /\ export[e].key
       /\ fetch' = [fetch EXCEPT ![f] =
            [at |-> IF e \in expired THEN "expire" ELSE "audit", route |-> "download",
             export |-> e]]
  /\ UNCHANGED <<making, lines>>

MarkExpired(f) ==
  /\ fetch[f].at = "expire"
  /\ SetStatus(fetch[f].export, "EXPIRED")
  /\ fetch' = [fetch EXCEPT ![f].at = "done"]
  /\ UNCHANGED <<request, job, worker, stored, expired, unsaid, lines>>

(* A document of the application, or all of them. *)
resolveDocument(f) ==
  /\ fetch[f].at = "new"
  /\ \E route \in DocumentRoutes :
       fetch' = [fetch EXCEPT ![f] = [@ EXCEPT !.at = "audit", !.route = route]]
  /\ UNCHANGED <<making, lines>>

(* The audit line comes before the link, the address, the file or the zip. *)
RecordFetch(f) ==
  /\ fetch[f].at = "audit"
  /\ lines' = lines \cup {f}
  /\ fetch' = [fetch EXCEPT ![f].at = "open"]
  /\ UNCHANGED making

Give(f, route) ==
  /\ fetch[f].at = "open" /\ fetch[f].route = route
  /\ fetch' = [fetch EXCEPT ![f].at = "given"]
  /\ UNCHANGED <<making, lines>>

HandOver(f) == Give(f, "download")
resolve(f) == Give(f, "resolve")
file(f) == Give(f, "file")
(* A document that cannot be read is a note in the zip. *)
streamZip(f) == Give(f, "zip")

(* The audit line cannot be written, storage is out of reach, or the        *)
(* process stops.                                                           *)
FetchFails(f) ==
  /\ fetch[f].at \in {"expire", "audit", "open"}
  /\ fetch' = [fetch EXCEPT ![f].at = "done"]
  /\ UNCHANGED <<making, lines>>

Working(w) ==
  TakeJob(w) \/ StartRunning(w) \/ BuildRows(w) \/ PutObject(w)
  \/ EndReady(w) \/ EndFailed(w) \/ JobDone(w) \/ JobThrew(w)

Next ==
  \/ \E e \in Exports : CreateRow(e) \/ AddJob(e) \/ RecordRequest(e) \/ RequestStops(e) \/ Expires(e)
  \/ \E w \in Workers : Working(w) \/ WorkerStops(w) \/ JobStalls(w)
  \/ \E f \in Fetches :
       \/ StartDownload(f) \/ MarkExpired(f) \/ resolveDocument(f) \/ RecordFetch(f)
       \/ HandOver(f) \/ resolve(f) \/ file(f) \/ streamZip(f) \/ FetchFails(f)
  \/ expireExports

(* Workers take jobs and finish them, and the retention job runs nightly.   *)
Fairness ==
  /\ \A w \in Workers : WF_vars(Working(w))
  /\ WF_vars(expireExports)

Spec == Init /\ [][Next]_vars /\ Fairness

--------------------------------------------------------------------------------
(* A link or a file is handed over only after its audit line, and a link    *)
(* only to an export whose file is in S3, whichever of two runs of one job  *)
(* wrote the row and in whatever order ("the only way to the file",         *)
(* download; "audited before the URL is handed over", resolve).             *)
HandedOverInOrder ==
  \A f \in Fetches : fetch[f].at = "given" =>
    f \in lines /\ (fetch[f].export = None \/ fetch[f].export \in stored)

(* An export that was promised to its requester ends - ready, failed or     *)
(* expired, and not ready when it has expired - through failures, retries   *)
(* and a job handed out twice (run, expireExports).  What remains is an     *)
(* export the queue has given up after a run that could not write how it    *)
(* ended: its RUNNING or FAILED write threw, or its worker stopped.         *)
Ended(e) ==
  /\ export[e].status \in {"READY", "FAILED", "EXPIRED"}
  /\ e \in expired => export[e].status # "READY"

PromisedExportsEnd ==
  <>[](\A e \in Exports : request[e] = "answered" =>
         Ended(e) \/ (e \in unsaid /\ job[e].at = "over"))

(* Violated: without that exception.  A database out of reach for the three *)
(* tries leaves the row QUEUED or RUNNING for good, and so do two stalls.   *)
EveryPromisedExportEnds ==
  <>[](\A e \in Exports : request[e] = "answered" => Ended(e))
================================================================================
