-------------------------------- MODULE Rollups --------------------------------
(***************************************************************************)
(* The rollups of one Africa/Lagos day (modules/rollups/rollups.service.ts,  *)
(* bulk-upsert.ts) and the check of its cash (modules/finance/              *)
(* reconciliation.service.ts), by the jobs that roll the day while it lasts, *)
(* every fifteen minutes and at each start of a process, that finalise it    *)
(* afterwards, and that load it from the product's history (modules/jobs/    *)
(* rollups.processor.ts, two jobs at a time in each process).               *)
(*                                                                         *)
(* The tables have no rows in common, so a behaviour is about one of them,  *)
(* any one: the usage of the day, which is its daily rows and the           *)
(* destinations; its hourly rows; the requests; the cash; the finance       *)
(* snapshot.  What a run does to the others is left out.                    *)
(*                                                                         *)
(* A bucket is a key of the table, or a column of the one row that cash and  *)
(* the snapshot have for a day, and its figure whatever the product's rows   *)
(* add up to, 0 for no rows.  A usage run takes an instant, reads, writes    *)
(* what it has read under that instant, and then deletes what carries an     *)
(* earlier one: first the daily rows, then the destinations.  The other      *)
(* tables are upserts that no sweep follows.                                *)
(***************************************************************************)
EXTENDS Naturals, FiniteSets

CONSTANTS Buckets,
          Main,        \* the column treated apart: cash collected, credit liability
          Runs,        \* runs of the jobs, retries included: the bound on them
          MaxFigure,   \* bound on a bucket's figure
          MaxChanges   \* bound on how often the source changes

ASSUME RollupsAssumption == Main \in Buckets /\ MaxFigure \in Nat \ {0} /\ MaxChanges \in Nat

VARIABLES table,    \* which of them this behaviour is about
          source,   \* the product's rows, summed up
          changes,  \* how often they have changed
          clock,    \* the instants runs have taken so far
          daily,    \* the rows with hour -1, stamped with finalisedAt
          dest,     \* destination_rollups, stamped with updatedAt
          kept,     \* hourly rows, request_rollups, cash_rollups or finance_snapshots
          checked,  \* the day's row in reconciliation_runs
          run,      \* where each run is
          settled   \* history: nothing has happened since a run that was on its own

rollVars == <<table, source, changes, clock, daily, dest, kept, checked, run, settled>>

tables == <<daily, dest, kept, checked>>

(* A run of any job that writes the table is the same, but for the cash,    *)
(* which history runs also check, and the snapshot.                         *)
RollJobs ==
  CASE table = "cash" -> {"roll", "history", "reconcile"}
    [] table = "finance" -> {"roll", "history"}
    [] OTHER -> {"roll"}

Figures == [Buckets -> 0..MaxFigure]
Nothing == [b \in Buckets |-> 0]

Instants == 0..(2 * Cardinality(Runs))

Rows == [n : 0..MaxFigure, stamp : Instants]
Absent == [n |-> 0, stamp |-> 0]

Figure(rows) == [b \in Buckets |-> rows[b].n]

(* alone: no other run was under way at the same time; still: the source    *)
(* has not changed since the run began.                                     *)
NotStarted == [at |-> "new", job |-> "roll", stamp |-> 0, read |-> Nothing,
               alone |-> FALSE, still |-> FALSE]

Stages == {"new", "readDaily", "writeDaily", "sweepDaily",
           "readDest", "writeDest", "sweepDest",
           "read", "write", "readSettlement", "readCash", "agrees", "differs", "done"}

RollTypeOK ==
  /\ table \in {"usage", "hourly", "requests", "cash", "finance"}
  /\ source \in Figures /\ changes \in 0..MaxChanges /\ clock \in Instants
  /\ daily \in [Buckets -> Rows] /\ dest \in [Buckets -> Rows]
  /\ kept \in Figures /\ checked \in {"none", "OK", "VARIANCE"}
  /\ run \in [Runs -> [at : Stages, job : {"roll", "history", "reconcile"}, stamp : Instants, read : Figures,
                       alone : BOOLEAN, still : BOOLEAN]]
  /\ settled \in BOOLEAN

RollInit ==
  /\ table \in {"usage", "hourly", "requests", "cash", "finance"}
  /\ kept = Nothing /\ checked = "none"
  /\ source = Nothing /\ changes = 0 /\ clock = 0
  /\ daily = [b \in Buckets |-> Absent] /\ dest = [b \in Buckets |-> Absent]
  /\ run = [r \in Runs |-> NotStarted]
  /\ settled = FALSE

--------------------------------------------------------------------------------
UnderWay == {r \in Runs : run[r].at \notin {"new", "done"}}

(* Messages are sent, receipts come in late, rows are corrected or deleted. *)
SourceChanges ==
  /\ changes < MaxChanges /\ changes' = changes + 1
  /\ \E b \in Buckets, n \in 0..MaxFigure :
       n # source[b] /\ source' = [source EXCEPT ![b] = n]
  /\ run' = [r \in Runs |-> [run[r] EXCEPT !.still = FALSE]]
  /\ settled' = FALSE
  /\ UNCHANGED <<table, clock, tables>>

Step(r, from, to) ==
  /\ run[r].at = from
  /\ run' = [run EXCEPT ![r].at = to]

First(job) ==
  CASE job = "reconcile" -> "readSettlement"
    [] job # "reconcile" /\ table = "usage" -> "readDaily"
    [] OTHER -> "read"

Begin(r, job) ==
  /\ run[r].at = "new"
  /\ clock' = IF table = "usage" THEN clock + 1 ELSE clock
  /\ run' = [q \in Runs |->
       IF q = r THEN [NotStarted EXCEPT !.at = First(job), !.job = job, !.stamp = clock',
                                        !.alone = (UnderWay = {}), !.still = TRUE]
       ELSE [run[q] EXCEPT !.alone = FALSE]]
  /\ settled' = FALSE
  /\ UNCHANGED <<table, source, changes, tables>>

Read(r, from, to) ==
  /\ run[r].at = from
  /\ run' = [run EXCEPT ![r].read = source, ![r].at = to]
  /\ UNCHANGED <<table, source, changes, clock, tables, settled>>

UpsertedWhereAbsent(rows, r, stamp) ==
  [b \in Buckets |-> IF run[r].read[b] = 0 \/ rows[b].n > 0 THEN rows[b]
                     ELSE [n |-> run[r].read[b], stamp |-> stamp]]

(* An upsert writes the buckets that were read, and leaves the others.      *)
Upserted(rows, r, stamp) ==
  [b \in Buckets |-> IF run[r].read[b] = 0 THEN rows[b] ELSE [n |-> run[r].read[b], stamp |-> stamp]]

(* The daily rows carry the instant the run began. *)
WriteDaily(r) ==
  /\ Step(r, "writeDaily", "sweepDaily")
  /\ daily' = Upserted(daily, r, run[r].stamp)
  /\ UNCHANGED <<table, source, changes, clock, dest, kept, checked, settled>>

Swept(rows, r) == [b \in Buckets |-> IF rows[b].stamp < run[r].stamp THEN Absent ELSE rows[b]]

SweepNothing(r) ==
  /\ run[r].at = "sweepDaily"
  /\ UNCHANGED daily
  /\ clock' = clock + 1
  /\ run' = [run EXCEPT ![r].at = "readDest", ![r].stamp = clock + 1]
  /\ UNCHANGED <<table, source, changes, dest, kept, checked, settled>>

(* After the sweep rollDestinations begins, and takes an instant of its own. *)
SweepDaily(r) ==
  /\ run[r].at = "sweepDaily"
  /\ daily' = Swept(daily, r)
  /\ clock' = clock + 1
  /\ run' = [run EXCEPT ![r].at = "readDest", ![r].stamp = clock + 1]
  /\ UNCHANGED <<table, source, changes, dest, kept, checked, settled>>

WriteDestStampedAtStart(r) ==
  /\ Step(r, "writeDest", "sweepDest")
  /\ dest' = Upserted(dest, r, run[r].stamp)
  /\ UNCHANGED <<table, source, changes, clock, daily, kept, checked, settled>>

(* The destination rows carry the instant they are written. *)
WriteDest(r) ==
  /\ Step(r, "writeDest", "sweepDest")
  /\ dest' = Upserted(dest, r, clock)
  /\ UNCHANGED <<table, source, changes, clock, daily, kept, checked, settled>>

Done(r) ==
  /\ run' = [run EXCEPT ![r] = [NotStarted EXCEPT !.at = "done"]]
  /\ settled' = (run[r].alone /\ run[r].still /\ run[r].job # "reconcile")

SweepDest(r) ==
  /\ run[r].at = "sweepDest" /\ Done(r)
  /\ dest' = Swept(dest, r)
  /\ UNCHANGED <<table, source, changes, clock, daily, kept, checked>>

--------------------------------------------------------------------------------
Write(r, figures) ==
  /\ run[r].at = "write"
  /\ kept' = figures
  /\ UNCHANGED <<table, source, changes, clock, daily, dest, checked>>

(* Of a keyed table an upsert writes the rows that were read; what has gone *)
(* from the product stays.                                                  *)
Keyed(r) == [b \in Buckets |-> IF run[r].read[b] = 0 THEN kept[b] ELSE run[r].read[b]]

rollUsage(r) == table = "hourly" /\ Write(r, Keyed(r)) /\ Done(r)

rollRequests(r) == table = "requests" /\ Write(r, Keyed(r)) /\ Done(r)

(* The row of cash is written whole.  A day of history is reconciled next.  *)
rollCash(r) ==
  /\ table = "cash" /\ Write(r, run[r].read)
  /\ IF run[r].job = "history"
     THEN run' = [run EXCEPT ![r].at = "readSettlement"] /\ UNCHANGED settled
     ELSE Done(r)

(* A history run leaves the liability as it is: what it could write is the  *)
(* balance of today.                                                        *)
snapshotFinance(r) ==
  /\ table = "finance" /\ Done(r)
  /\ Write(r, [b \in Buckets |->
       IF run[r].job = "history" /\ b = Main THEN kept[b] ELSE run[r].read[b]])

DiffersOfEarned(expected, actual) == expected # 0 /\ actual # expected

(* Past the threshold, in the figures told apart here: a day that should    *)
(* have had nothing and has something is 100% off.                          *)
Differs(expected, actual) == actual # expected

(* reconcileCash, after a day of history in the same job. *)
ReadCash(r) ==
  /\ run[r].at = "readCash"
  /\ run' = [run EXCEPT ![r].at = IF Differs(run[r].read[Main], kept[Main])
                                  THEN "differs" ELSE "agrees"]
  /\ UNCHANGED <<table, source, changes, clock, tables, settled>>

Record(r) ==
  /\ run[r].at \in {"differs", "agrees"} /\ Done(r)
  /\ checked' = IF run[r].at = "differs" THEN "VARIANCE" ELSE "OK"
  /\ UNCHANGED <<table, source, changes, clock, daily, dest, kept>>

(* The process stops, or a query throws.  A write of more than 500 rows may  *)
(* have been half done; the job's next attempt is another run.               *)
Fail(r) ==
  /\ r \in UnderWay
  /\ run' = [run EXCEPT ![r] = [NotStarted EXCEPT !.at = "done"]]
  /\ \E part \in SUBSET Buckets :
       LET Half(at, old, new) ==
             IF run[r].at = at THEN [b \in Buckets |-> IF b \in part THEN new[b] ELSE old[b]] ELSE old
       IN  /\ daily' = Half("writeDaily", daily, Upserted(daily, r, run[r].stamp))
           /\ dest' = Half("writeDest", dest, Upserted(dest, r, clock))
           /\ kept' = IF table \in {"hourly", "requests"} THEN Half("write", kept, Keyed(r)) ELSE kept
  /\ settled' = FALSE
  /\ UNCHANGED <<table, source, changes, clock, checked>>

RollNext ==
  \/ SourceChanges
  \/ \E r \in Runs :
       \/ \E job \in RollJobs : Begin(r, job)
       \/ Read(r, "readDaily", "writeDaily") \/ WriteDaily(r) \/ SweepDaily(r)
       \/ Read(r, "readDest", "writeDest") \/ WriteDest(r) \/ SweepDest(r)
       \/ Read(r, "read", "write")
       \/ rollUsage(r) \/ rollRequests(r) \/ rollCash(r) \/ snapshotFinance(r)
       \/ Read(r, "readSettlement", "readCash") \/ ReadCash(r) \/ Record(r)
       \/ Fail(r)

RollSpec == RollInit /\ [][RollNext]_rollVars

--------------------------------------------------------------------------------
(* A run that no other overlapped replaces the day: whatever earlier runs,  *)
(* also failed and overlapping ones, have left behind, the daily rows are   *)
(* then exactly what it read (the stamp and the sweep of finaliseDay and    *)
(* rollCurrentDay).                                                         *)
AloneReplacesTheDay ==
  [][\A r \in Runs : run[r].alone /\ run[r].at = "sweepDaily" /\ run'[r].at = "readDest" =>
       Figure(daily') = run[r].read]_rollVars

(* Late receipts and corrected rows heal: after a run on its own with no    *)
(* change beside it, the daily and the destination rows are what the product *)
(* says, the cash and the snapshot too but for the liability of a day loaded *)
(* from history, and the hourly and the request rows whatever is left of     *)
(* them in the product, until something else happens.                       *)
SettledIsRight ==
  settled =>
    CASE table = "usage" -> Figure(daily) = source /\ Figure(dest) = source
      [] table = "finance" -> \A b \in Buckets \ {Main} : kept[b] = source[b]
      [] table = "cash" -> kept = source
      [] OTHER -> \A b \in Buckets : source[b] > 0 => kept[b] = source[b]

(* However runs overlap, a sweep of the destinations never takes away what  *)
(* its own run has read and written: a row written since carries a later    *)
(* instant (updatedAt in upsertDestinationRows, the sweep in                *)
(* rollDestinations).                                                       *)
DestinationSweepsKeep ==
  [][\A r \in Runs, b \in Buckets :
       run[r].at = "sweepDest" /\ dest' # dest /\ run'[r].at = "done" /\ run[r].read[b] > 0 =>
         dest'[b].n > 0]_rollVars

(* A check that nothing else ran beside says the truth of what was collected *)
(* (reconcileCash): VARIANCE exactly when the rollup and the product differ. *)
ChecksAreTrue ==
  [][\A r \in Runs :
       run[r].alone /\ run[r].still /\ run[r].at \in {"agrees", "differs"}
         /\ run'[r].at = "done" /\ checked' # checked =>
         (checked' = "VARIANCE") = (kept[Main] # source[Main])]_rollVars
================================================================================
