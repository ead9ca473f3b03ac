-------------------------------- MODULE Alerts --------------------------------
(***************************************************************************)
(* The jobs that watch and tell staff: the risk scan (modules/risk/         *)
(* risk.service.ts) with the flags staff raise and resolve themselves      *)
(* (customers/customer-actions.service.ts), the provider samples           *)
(* (services/provider-health.service.ts) and the SLA sweep of the          *)
(* sender-ID desk (sender-ids.service.ts).  Each reads what it watches,    *)
(* and then takes what it found one by one: look at what is on record,     *)
(* write, tell staff.                                                      *)
(*                                                                         *)
(* The five rules of a scan run side by side and touch flags of their own  *)
(* type only, and the three jobs share no rows.  So a behaviour is about   *)
(* one watcher, any one of them, and a run is one job or one rule of it.   *)
(* Any call may throw and the process may stop; the other rules of a scan  *)
(* go on when one throws, while its job is tried again.                    *)
(***************************************************************************)
EXTENDS Naturals, FiniteSets, FiniteSetsExt

CONSTANTS Subjects,   \* accounts, routes (operator and channel) or reviews
          Runners,    \* runs at once, over all processes: a bound
          Countries, Networks, Home,
          MaxSends,   \* what is sent or fails in a day or a window: a bound
          MaxUsual,   \* the daily average of a week: a bound
          MaxNotices, \* alerts counted: a bound
          MaxManual,  \* flags staff raise: a bound
          MaxFaults,
          volumeSpikeMultiple, volumeSpikeMinimum, failureMinimum,
          destinationCountries, signInCountries, pumpingMinimum,  \* RULES
          MIN_SAMPLE

ASSUME AlertsAssumption ==
  /\ Home \in Countries /\ IsFiniteSet(Runners)
  /\ {MaxSends, MaxUsual, MaxNotices, MaxManual, MaxFaults} \subseteq Nat
  /\ {volumeSpikeMultiple, volumeSpikeMinimum, failureMinimum, destinationCountries,
      signInCountries, pumpingMinimum, MIN_SAMPLE} \subseteq Nat \ {0}

VARIABLES watcher,   \* which of them this behaviour is about
          world,     \* what there is to see of each subject
          audience,  \* somebody holds the permission the alert is for
          flags,     \* unresolved risk_flags: by the scan, and by staff
          latest,    \* the status in the newest provider_health_samples row
          notices,   \* staff_notifications of a breach of the review's SLA
          run,
          faults

watchVars == <<watcher, world, audience, flags, latest, notices, run, faults>>

rows == <<flags, latest, notices>>

Rules == {"VOLUME_SPIKE", "HIGH_FAILURE_RATE", "MANY_DESTINATION_COUNTRIES",
          "MANY_SIGNIN_COUNTRIES", "SMS_PUMPING_SUSPECTED"}

Urgent == Rules \ {"HIGH_FAILURE_RATE", "MANY_DESTINATION_COUNTRIES"}

Statuses == {"HEALTHY", "DEGRADED", "OUTAGE"}

Cells == Countries \X Networks

Counts == {c \in [sent : 0..MaxSends, failed : 0..MaxSends] : c.failed <= c.sent}

(* What a watcher can see of a subject. *)
Pictures ==
  CASE watcher = "VOLUME_SPIKE" -> [sent : 0..MaxSends, usual : 0..MaxUsual]
    [] watcher \in {"HIGH_FAILURE_RATE", "health"} -> Counts
    [] watcher = "MANY_DESTINATION_COUNTRIES" -> SUBSET Cells
    [] watcher = "MANY_SIGNIN_COUNTRIES" -> [Countries -> 0..signInCountries]
    [] watcher = "SMS_PUMPING_SUSPECTED" -> [Cells -> 0..1]
    [] watcher = "sla" -> [at : {"inTime", "overdue", "closed"}, assigned : BOOLEAN]

Verdicts == {"over", "assigned", "unassigned"} \cup Statuses

AtRest == [at |-> "idle", todo |-> {}, on |-> <<>>, older |-> {}, overtaken |-> {}]

Stages == {"idle", "read", "next", "create", "refresh", "upsert", "upsertNews", "announce"}

WatchTypeOK ==
  /\ watcher \in Rules \cup {"health", "sla"}
  /\ world \in [Subjects -> Pictures] /\ audience \in BOOLEAN
  /\ flags \in [Subjects -> [auto : Nat, manual : 0..MaxManual]]
  /\ latest \in [Subjects -> Statuses \cup {"none"}]
  /\ notices \in [Subjects -> 0..MaxNotices]
  /\ run \in [Runners ->
       [at : Stages, todo : SUBSET (Subjects \X Verdicts),
        on : (Subjects \X Verdicts) \cup {<<>>}, older : SUBSET Runners,
        overtaken : SUBSET Subjects]]
  /\ faults \in 0..MaxFaults

WatchInit ==
  /\ watcher \in Rules \cup {"health", "sla"}
  /\ world \in [Subjects -> Pictures] /\ audience = TRUE
  /\ watcher = "sla" => \A s \in Subjects : ~world[s].assigned
  /\ flags = [s \in Subjects |-> [auto |-> 0, manual |-> 0]]
  /\ latest = [s \in Subjects |-> "none"]
  /\ notices = [s \in Subjects |-> 0]
  /\ run = [w \in Runners |-> AtRest]
  /\ faults = 0

--------------------------------------------------------------------------------
(* Traffic comes and goes, reviews fall due, are decided and come back.     *)
WorldChanges ==
  /\ \E s \in Subjects, p \in Pictures :
       /\ p # world[s] /\ (watcher = "sla" => p.assigned = world[s].assigned)
       /\ world' = [world EXCEPT ![s] = p]
  /\ UNCHANGED <<watcher, audience, rows, run, faults>>

(* A review is handed to somebody, at any time and whatever its status; it   *)
(* is never handed back.  The assignee's own notice is of another type.      *)
assign(s) ==
  /\ watcher = "sla"
  /\ world' = [world EXCEPT ![s].assigned = TRUE]
  /\ UNCHANGED <<watcher, audience, rows, run, faults>>

(* Nobody looks up the alerts of the other watchers, so who hears them is   *)
(* left out.                                                                *)
StaffChange ==
  /\ watcher = "sla" /\ audience' = ~audience
  /\ UNCHANGED <<watcher, world, rows, run, faults>>

(* Staff raise a flag of any type, without a look at those that are open.   *)
raiseFlag(s) ==
  /\ watcher \in Rules /\ flags[s].manual < MaxManual
  /\ flags' = [flags EXCEPT ![s].manual = @ + 1]
  /\ UNCHANGED <<watcher, world, audience, latest, notices, run, faults>>

resolveFlag(s, source) ==
  /\ flags[s][source] > 0
  /\ flags' = [flags EXCEPT ![s][source] = @ - 1]
  /\ UNCHANGED <<watcher, world, audience, latest, notices, run, faults>>

Open(s) == flags[s].auto + flags[s].manual > 0

--------------------------------------------------------------------------------
(* Today's rows are read whatever their hour: each send is in the row of    *)
(* its hour and in the row of the day.                                      *)
Read2(n) == n + n

volumeSpikes(day) ==
  /\ Read2(day.sent) >= volumeSpikeMinimum
  /\ day.usual # 0
  /\ Read2(day.sent) >= day.usual * volumeSpikeMultiple

failureRates(day) ==
  /\ Read2(day.sent) >= failureMinimum
  /\ 100 * Read2(day.failed) >= 35 * Read2(day.sent)

(* One row for each country and network. *)
destinationSpread(day) == Cardinality(day) >= destinationCountries

(* One row for each sign-in that has a country. *)
signInSpread(day) == MapThenSumSet(LAMBDA c : day[c], Countries) >= signInCountries

pumpingConcentration(day) ==
  LET total == MapThenSumSet(LAMBDA c : day[c], Cells)
  IN  /\ total >= pumpingMinimum
      /\ \E c \in Cells : 100 * day[c] >= 80 * total /\ c[1] # Home

Over(day) ==
  CASE watcher = "VOLUME_SPIKE" -> volumeSpikes(day)
    [] watcher = "HIGH_FAILURE_RATE" -> failureRates(day)
    [] watcher = "MANY_DESTINATION_COUNTRIES" -> destinationSpread(day)
    [] watcher = "MANY_SIGNIN_COUNTRIES" -> signInSpread(day)
    [] watcher = "SMS_PUMPING_SUSPECTED" -> pumpingConcentration(day)

StatusOfDegradedFirst(window) ==
  IF window.sent >= MIN_SAMPLE /\ 100 * window.failed >= 10 * window.sent THEN "DEGRADED"
  ELSE IF window.sent >= MIN_SAMPLE /\ 100 * window.failed >= 40 * window.sent THEN "OUTAGE"
  ELSE "HEALTHY"

StatusOf(window) ==
  IF window.sent < MIN_SAMPLE THEN "HEALTHY"
  ELSE IF 100 * window.failed >= 40 * window.sent THEN "OUTAGE"
  ELSE IF 100 * window.failed >= 10 * window.sent THEN "DEGRADED"
  ELSE "HEALTHY"

(* What a run takes up: a route without traffic in the window has no row.   *)
Shows(picture, verdict) ==
  CASE verdict = "over" -> watcher \in Rules /\ Over(picture)
    [] verdict \in Statuses ->
         watcher = "health" /\ picture.sent > 0 /\ StatusOf(picture) = verdict
    [] verdict \in {"assigned", "unassigned"} ->
         watcher = "sla" /\ picture.at = "overdue" /\ picture.assigned = (verdict = "assigned")

--------------------------------------------------------------------------------
UnderWay == {w \in Runners : run[w].at # "idle"}

Goto(w, at) == run' = [run EXCEPT ![w].at = at]

(* The scheduler ticks, or a failed job is tried again.  A window ends when *)
(* its run begins.                                                          *)
Begin(w) ==
  /\ run[w].at = "idle"
  /\ run' = [run EXCEPT ![w] = [AtRest EXCEPT !.at = "read", !.older = UnderWay]]
  /\ UNCHANGED <<watcher, world, audience, rows, faults>>

Read(w) ==
  /\ run[w].at = "read"
  /\ run' = [run EXCEPT ![w].at = "next",
                        ![w].todo = {p \in Subjects \X Verdicts : Shows(world[p[1]], p[2])}]
  /\ UNCHANGED <<watcher, world, audience, rows, faults>>

(* Look at what is on record of the next one, and decide. *)
Take(w, p, at) ==
  /\ run[w].at = "next" /\ p \in run[w].todo
  /\ run' = [run EXCEPT ![w].at = at, ![w].todo = @ \ {p}, ![w].on = p]
  /\ UNCHANGED <<watcher, world, audience, rows, faults>>

LookForFlagOfStaff(w, p) ==
  /\ watcher \in Rules
  /\ Take(w, p, IF flags[p[1]].manual > 0 THEN "refresh" ELSE "create")

LookForFlag(w, p) ==
  /\ watcher \in Rules
  /\ Take(w, p, IF Open(p[1]) THEN "refresh" ELSE "create")

LookForSample(w, p) ==
  /\ watcher = "health"
  /\ Take(w, p, IF latest[p[1]] \notin {"none", p[2]} /\ p[2] # "HEALTHY"
                THEN "upsertNews" ELSE "upsert")

LookForNotice(w, p) ==
  /\ watcher = "sla"
  /\ Take(w, p, IF notices[p[1]] > 0 THEN "next" ELSE "announce")

(* The flag that was open gets today's evidence, resolved or not by now.    *)
Refresh(w) ==
  /\ run[w].at = "refresh" /\ Goto(w, "next")
  /\ UNCHANGED <<watcher, world, audience, rows, faults>>

Create(w) ==
  /\ run[w].at = "create"
  /\ flags' = [flags EXCEPT ![run[w].on[1]].auto = @ + 1]
  /\ Goto(w, IF watcher \in Urgent THEN "announce" ELSE "next")
  /\ UNCHANGED <<watcher, world, audience, latest, notices, faults>>

(* The newest window is the one that began last, whoever wrote last.        *)
Upsert(w) ==
  /\ run[w].at \in {"upsert", "upsertNews"}
  /\ LET s == run[w].on[1] IN
       /\ latest' = IF s \in run[w].overtaken THEN latest
                    ELSE [latest EXCEPT ![s] = run[w].on[2]]
       /\ run' = [q \in Runners |->
            IF q = w THEN [run[w] EXCEPT !.at = IF @ = "upsert" THEN "next" ELSE "announce"]
            ELSE IF q \in run[w].older THEN [run[q] EXCEPT !.overtaken = @ \cup {s}]
            ELSE run[q]]
  /\ UNCHANGED <<watcher, world, audience, flags, notices, faults>>

(* An assignee is told in person, and the alert waits for him whoever he is *)
(* by now; the others are for whoever holds the permission, if anybody.     *)
Announce(w) ==
  /\ run[w].at = "announce" /\ Goto(w, "next")
  /\ LET p == run[w].on
         heard == p[2] = "assigned" \/ (p[2] = "unassigned" /\ audience)
     IN  notices' = IF heard /\ notices[p[1]] < MaxNotices
                    THEN [notices EXCEPT ![p[1]] = @ + 1] ELSE notices
  /\ UNCHANGED <<watcher, world, audience, flags, latest, faults>>

Rested(w) == [q \in Runners |->
  IF q = w THEN AtRest ELSE [run[q] EXCEPT !.older = @ \ {w}]]

End(w) ==
  /\ run[w].at = "next" /\ run[w].todo = {}
  /\ run' = Rested(w)
  /\ UNCHANGED <<watcher, world, audience, rows, faults>>

(* A call throws, telling the browsers after the rows are in included, or   *)
(* the process stops: the rest of the run is left.                          *)
Fail(w) ==
  /\ w \in UnderWay /\ faults < MaxFaults /\ faults' = faults + 1
  /\ run' = Rested(w)
  /\ UNCHANGED <<watcher, world, audience, rows>>

Step(w) ==
  \/ Read(w)
  \/ \E p \in Subjects \X Verdicts : LookForFlag(w, p) \/ LookForSample(w, p) \/ LookForNotice(w, p)
  \/ Refresh(w) \/ Create(w) \/ Upsert(w) \/ Announce(w) \/ End(w)

WatchNext ==
  \/ WorldChanges \/ StaffChange
  \/ \E s \in Subjects : assign(s) \/ raiseFlag(s) \/ resolveFlag(s, "auto") \/ resolveFlag(s, "manual")
  \/ \E w \in Runners : Begin(w) \/ Step(w) \/ Fail(w)

(* The scheduler keeps ticking, and a run under way goes on. *)
WatchFairness ==
  /\ WF_watchVars(\E w \in Runners : Begin(w))
  /\ \A w \in Runners : WF_watchVars(Step(w))

WatchSpec == WatchInit /\ [][WatchNext]_watchVars /\ WatchFairness

--------------------------------------------------------------------------------
(* "Flags are deduplicated against open flags of the same type"             *)
(* (risk.service.ts:33) and breach alerts "are not repeated"                *)
(* (sender-ids.service.ts:821): what no two runs took up at once is on      *)
(* record once, however often it is seen, resolved and seen again; runs     *)
(* side by side add one each at most.                                       *)
SeldomTwice ==
  \A s \in Subjects :
    /\ flags[s].auto <= Cardinality(Runners)
    /\ watcher = "sla" => notices[s] <= Cardinality(Runners)

(* What the rules mean: by the day's own figures, by countries and not by   *)
(* rows, and the worse status first.                                        *)
Troubled(s) ==
  LET day == world[s] IN
  CASE watcher = "VOLUME_SPIKE" ->
         /\ day.sent >= volumeSpikeMinimum /\ day.usual > 0
         /\ day.sent >= day.usual * volumeSpikeMultiple
    [] watcher = "HIGH_FAILURE_RATE" ->
         day.sent >= failureMinimum /\ 100 * day.failed >= 35 * day.sent
    [] watcher = "MANY_DESTINATION_COUNTRIES" ->
         Cardinality({c[1] : c \in day}) >= destinationCountries
    [] watcher = "MANY_SIGNIN_COUNTRIES" ->
         Cardinality({c \in Countries : day[c] > 0}) >= signInCountries
    [] watcher = "SMS_PUMPING_SUSPECTED" ->
         /\ \E c \in Cells : day[c] >= pumpingMinimum /\ c[1] # Home
         /\ Cardinality({c \in Cells : day[c] > 0}) = 1
    [] watcher = "health" -> day.sent >= MIN_SAMPLE /\ 100 * day.failed >= 40 * day.sent
    [] OTHER -> FALSE

Overdue(s) == watcher = "sla" /\ world[s].at = "overdue"

(* What lasts is told.  An account that stays over a rule has an open flag   *)
(* again and again, also when staff resolve it and scans fail, and a route   *)
(* whose sends keep failing ends up shown as an outage.  A review that stays *)
(* past its SLA is told of to its assignee, or to whoever may review, also   *)
(* when sweeps fail on the way: what says that it was told is the alert      *)
(* itself (scan, sample, sweepSlaBreaches).                                  *)
WhatLastsIsTold ==
  \A s \in Subjects :
    /\ <>[]Troubled(s) => []<>(IF watcher = "health" THEN latest[s] = "OUTAGE" ELSE Open(s))
    /\ (<>[](Overdue(s) /\ world[s].assigned) \/ <>[](Overdue(s) /\ audience)) => <>(notices[s] > 0)
================================================================================
