----------------------------- MODULE Finalisation ------------------------------
(***************************************************************************)
(* How every Lagos day comes to be finalised: the nightly tick             *)
(* (jobs/scheduler.service.ts), the catch-up and the history load of a     *)
(* start (jobs/catch-up.service.ts, catch-up.ts), the jobs they queue      *)
(* (jobs/rollups.processor.ts) and the watermarks that remember how far    *)
(* the jobs got (rollups.service.ts).                                      *)
(*                                                                         *)
(* Days are numbered.  The process may stop at any point and start again;  *)
(* an add may throw; a job may throw and be run again, or fail for good.   *)
(* MaxFaults bounds these, Horizon the days.  Any number of nights may pass *)
(* before a stopped process starts again; what a start no longer looks back *)
(* to is left, and said to be.                                             *)
(***************************************************************************)
EXTENDS Naturals, FiniteSets

CONSTANTS Deployed,          \* the day of the console's first start
          Horizon,           \* the last day: a bound
          Concurrency,       \* jobs the rollups queue runs at once
          MAX_CATCH_UP_DAYS, MAX_HISTORY_DAYS, RECENT_DAYS_LEFT_ALONE,
          MaxFaults

(* Of the code's 14 and 3 it matters that the history load leaves today      *)
(* alone, and no more than a start without a marker looks back to.          *)
ASSUME FinalisationAssumption ==
  /\ {Deployed, Horizon, Concurrency, MAX_CATCH_UP_DAYS, MAX_HISTORY_DAYS,
      RECENT_DAYS_LEFT_ALONE, MaxFaults} \subseteq Nat
  /\ 2 < Deployed /\ Deployed <= Horizon /\ 0 < Concurrency
  /\ 2 <= MAX_CATCH_UP_DAYS /\ RECENT_DAYS_LEFT_ALONE \in 1..3

VARIABLES today,
          boot,        \* what the start of the process has still to do
          tick,        \* this night's tick is still to come
          job,         \* the rollups queue, by job id
          marker,      \* watermark usage.finalise: the first day owed, 0 if none
          historyMark, \* watermark history.backfill exists
          finalised,   \* days whose daily rows were built after they ended
          trouble,     \* days whose job failed for good or could not be queued
          left,        \* history: days found unqueued, and past what is looked back to
          faults

nightVars == <<today, boot, tick, job, marker, historyMark, finalised,
               trouble, left, faults>>

(* The product's activity starts on day 1. *)
Days == 1..Horizon

Ids == {"finalise", "history"} \X Days

Up == [at |-> "up", todo |-> {}]

Down == [at |-> "down", todo |-> {}]

NightTypeOK ==
  /\ today \in Days /\ faults \in 0..MaxFaults
  /\ boot \in [at : {"down", "finalise", "history", "up"}, todo : SUBSET Days]
  /\ tick \in BOOLEAN
  /\ job \in [Ids -> {"none", "waiting", "written", "done", "failed"}]
  /\ marker \in 0..Horizon /\ historyMark \in BOOLEAN
  /\ finalised \subseteq Days /\ trouble \subseteq Days /\ left \subseteq Days

NightInit ==
  /\ today = Deployed /\ faults = 0
  /\ boot = Down
  /\ tick = FALSE
  /\ job = [i \in Ids |-> "none"]
  /\ marker = 0 /\ historyMark = FALSE
  /\ finalised = {} /\ trouble = {} /\ left = {}

Fault == faults < MaxFaults /\ faults' = faults + 1

Queued(d) ==
  \E kind \in {"finalise", "history"} : job[<<kind, d>>] \in {"waiting", "written"}

(* The days that have ended and nobody has seen to. *)
Owed == {d \in Days : d < today /\ d \notin finalised \cup trouble /\ ~Queued(d)}

(* queue.add with an id of its own: dropped while a job of that id is on file. *)
Add(i) == job' = IF job[i] = "none" THEN [job EXCEPT ![i] = "waiting"] ELSE job

Later(a, b) == IF a < b THEN b ELSE a

(* n days before d, or 0: no day is numbered less than 1. *)
Minus(d, n) == IF d > n THEN d - n ELSE 0

--------------------------------------------------------------------------------
(* catch-up.ts                                                             *)

missingOneTooFew(processedTo, now) ==
  LET earliest == Minus(now, MAX_CATCH_UP_DAYS)
      from == IF processedTo = 0 THEN Minus(now, 1) ELSE processedTo
  IN {d \in Days : Later(from, earliest) <= d /\ d < now}

missingFinaliseDays(processedTo, now) ==
  LET earliest == Minus(now, MAX_CATCH_UP_DAYS)
      from == IF processedTo = 0 THEN Minus(now, 2) ELSE processedTo
  IN {d \in Days : Later(from, earliest) <= d /\ d < now}

historyDays(now) ==
  {d \in Days : Minus(now, MAX_HISTORY_DAYS) <= d /\ d <= Minus(now, RECENT_DAYS_LEFT_ALONE)}

--------------------------------------------------------------------------------
(* onApplicationBootstrap                                                  *)

(* Without a marker a start looks back two days: it takes this to be the    *)
(* first one.  Unless the history is still to be loaded, what ended before  *)
(* that is left for good.                                                   *)
Reach == IF marker = 0 THEN 2 ELSE MAX_CATCH_UP_DAYS

Start ==
  /\ boot = Down
  /\ boot' = [at |-> "finalise", todo |-> missingFinaliseDays(marker, today)]
  /\ left' = IF historyMark THEN left \cup {d \in Owed : d + Reach < today} ELSE left
  /\ UNCHANGED <<today, tick, job, marker, historyMark, finalised, trouble, faults>>

Oldest(d) == d \in boot.todo /\ \A e \in boot.todo : d <= e

Queue(kind, d) ==
  /\ boot.at = kind
  /\ Add(<<kind, d>>)
  /\ boot' = [boot EXCEPT !.todo = @ \ {d}]
  /\ UNCHANGED <<today, tick, marker, historyMark, finalised, trouble, left, faults>>

AddFinaliseNewestFirst ==
  \E d \in boot.todo : (\A e \in boot.todo : e <= d) /\ Queue("finalise", d)

AddFinalise == \E d \in boot.todo : Oldest(d) /\ Queue("finalise", d)

(* loadHistory *)
CheckHistory ==
  /\ boot.at = "finalise" /\ boot.todo = {}
  /\ IF historyMark
     THEN boot' = Up /\ UNCHANGED left
     ELSE /\ boot' = [at |-> "history", todo |-> historyDays(today)]
          /\ left' = left \cup {d \in Owed : d + MAX_HISTORY_DAYS < today}
  /\ UNCHANGED <<today, tick, job, marker, historyMark, finalised, trouble, faults>>

AddHistory == \E d \in boot.todo : Oldest(d) /\ Queue("history", d)

MarkHistory ==
  /\ boot.at = "history" /\ boot.todo = {}
  /\ historyMark' = TRUE
  /\ boot' = Up
  /\ UNCHANGED <<today, tick, job, marker, finalised, trouble, left, faults>>

(* A failed catch-up never stops the service from starting: what it had not *)
(* queued of the missed days waits for the next start, and is out of its    *)
(* sight once a later day's job has moved the marker past it.               *)
BootThrows ==
  /\ boot.at \notin {"down", "up"}
  /\ trouble' = IF boot.at = "finalise" THEN trouble \cup boot.todo ELSE trouble
  /\ boot' = Up
  /\ Fault
  /\ UNCHANGED <<today, tick, job, marker, historyMark, finalised, left>>

(* The process stops: a job it was running is run again.  (A job that stalls *)
(* a second time fails for good, as one that throws may: JobThrows.)         *)
Stop ==
  /\ boot # Down
  /\ job' = [i \in Ids |-> IF job[i] = "written" THEN "waiting" ELSE job[i]]
  /\ boot' = Down
  /\ Fault
  /\ UNCHANGED <<today, tick, marker, historyMark, finalised, trouble, left>>

--------------------------------------------------------------------------------
(* The nightly tick, at 00:15.  A start's own adds take moments: the tick    *)
(* is taken not to fall between them.  A finished job is off the file a day  *)
(* later.                                                                    *)

Midnight ==
  /\ today < Horizon /\ ~tick
  /\ today' = today + 1
  /\ tick' = TRUE
  /\ job' = [i \in Ids |-> IF job[i] = "done" /\ i[2] + 1 < today THEN "none" ELSE job[i]]
  /\ UNCHANGED <<boot, marker, historyMark, finalised, trouble, left, faults>>

Awake == boot.at \notin {"down", "finalise"}

TickFinalise ==
  /\ Awake /\ tick
  /\ Add(<<"finalise", today - 1>>)
  /\ tick' = FALSE
  /\ UNCHANGED <<today, boot, marker, historyMark, finalised, trouble, left, faults>>

TickThrows ==
  /\ Awake /\ tick
  /\ trouble' = trouble \cup {today - 1}
  /\ tick' = FALSE
  /\ Fault
  /\ UNCHANGED <<today, boot, job, marker, historyMark, finalised, left>>

(* The process was not up at that hour. *)
TickMissed ==
  /\ boot = Down /\ tick
  /\ tick' = FALSE
  /\ UNCHANGED <<today, boot, job, marker, historyMark, finalised, trouble, left, faults>>

--------------------------------------------------------------------------------
(* The jobs.                                                               *)

(* A worker takes the job and finaliseDay replaces the day from its source,  *)
(* whoever else does so too.  Until that is done the job is as good as        *)
(* waiting: nothing looks at what it has written so far.                      *)
FinaliseDay(i) ==
  /\ boot # Down /\ job[i] = "waiting"
  /\ Cardinality({k \in Ids : job[k] = "written"}) < Concurrency
  /\ job' = [job EXCEPT ![i] = "written"]
  /\ finalised' = finalised \cup {i[2]}
  /\ UNCHANGED <<today, boot, tick, marker, historyMark, trouble, left, faults>>

markProcessed(d) == marker' = d + 1

(* The nightly path moves the marker, wherever it stands. *)
FinishFinalise(i) ==
  /\ job[i] = "written" /\ i[1] = "finalise"
  /\ markProcessed(i[2])
  /\ job' = [job EXCEPT ![i] = "done"]
  /\ UNCHANGED <<today, boot, tick, historyMark, finalised, trouble, left, faults>>

(* A day of history is reconciled in the same job, which reads the day only, *)
(* and leaves the marker alone.                                              *)
FinishHistory(i) ==
  /\ job[i] = "written" /\ i[1] = "history"
  /\ job' = [job EXCEPT ![i] = "done"]
  /\ UNCHANGED <<today, boot, tick, marker, historyMark, finalised, trouble, left, faults>>

(* A job throws: it is run again, or its tries are used up.  A failed job    *)
(* stays on file for a week, longer than the days of a run.                  *)
JobThrows(i) ==
  /\ boot # Down /\ job[i] \in {"waiting", "written"}
  /\ \/ job' = [job EXCEPT ![i] = "waiting"] /\ UNCHANGED trouble
     \/ job' = [job EXCEPT ![i] = "failed"] /\ trouble' = trouble \cup {i[2]}
  /\ Fault
  /\ UNCHANGED <<today, boot, tick, marker, historyMark, finalised, left>>

Work(i) ==
  \/ FinaliseDay(i) \/ FinishFinalise(i) \/ FinishHistory(i)

Bootstrap ==
  Start \/ AddFinalise \/ CheckHistory \/ AddHistory \/ MarkHistory

NightNext ==
  \/ Bootstrap \/ BootThrows \/ Stop
  \/ Midnight \/ TickFinalise \/ TickThrows \/ TickMissed
  \/ \E i \in Ids : Work(i) \/ JobThrows(i)

(* A stopped process starts again, a start goes through, ticks fire, and     *)
(* queued jobs run.                                                          *)
NightFairness ==
  /\ WF_nightVars(Bootstrap) /\ WF_nightVars(TickFinalise)
  /\ \A i \in Ids : WF_nightVars(Work(i))

NightSpec == NightInit /\ [][NightNext]_nightVars /\ NightFairness

--------------------------------------------------------------------------------
(* Once a start has gone through and the history is marked as loaded, every  *)
(* day that has ended is finalised, or on its way in the queue, or tonight's *)
(* to come, or one whose job threw for good, or was still unqueued when a    *)
(* start no longer looked back to it: the catch-up, the history load and the *)
(* ticks leave no day between them, whatever order the jobs finish in and    *)
(* wherever the process stopped (catch-up.service.ts, catch-up.ts,           *)
(* markProcessed).                                                           *)
NoDayLost ==
  boot = Up /\ historyMark => \A d \in Owed : d \in left \/ (d = today - 1 /\ tick)

(* And once the history is marked each day that ends is finalised in the     *)
(* end, but for the same two: with a host that starts the process again some *)
(* time and a queue that runs its jobs (the same code).                      *)
EveryDayFinalised ==
  \A d \in Deployed..(Horizon - 1) : d < today /\ historyMark ~> d \in finalised \cup trouble \cup left
================================================================================
