------------------------------- MODULE Campaigns -------------------------------
(***************************************************************************)
(* One outbound campaign, from its creation to its last recipient: the      *)
(* routes that approve, schedule, retry and cancel it (modules/notifications*)
(* /campaigns.service.ts), the job queue between them, and the worker that   *)
(* sends it (campaign.processor.ts, in-app-delivery.service.ts).            *)
(*                                                                         *)
(* The audience is a saved segment: accounts come to match it and stop       *)
(* matching it at any time, so each look at it may find another set.         *)
(* Each route runs in a call slot of its own and reads the campaign before   *)
(* it writes; each instance has one worker.  A fault is a process that       *)
(* stops, a database call that throws where nothing catches it, or a write   *)
(* or send that fails after it has been carried out.                        *)
(***************************************************************************)
EXTENDS Naturals, FiniteSets

CONSTANTS Accounts,   \* the product's accounts
          Threshold,  \* limits.broadcastApprovalThreshold
          BatchSize,  \* BATCH_SIZE
          Retries,    \* the ids of retry jobs: the bound on retries
          Workers,    \* one per instance
          Calls,      \* how many routes run at once: the bound
          MaxFaults   \* bound on faults

ASSUME CampaignsAssumption ==
  /\ Threshold \in Nat /\ MaxFaults \in Nat
  /\ BatchSize \in Nat \ {0}
  /\ "main" \notin Retries

VARIABLES campaign,    \* the campaigns row
          recipients,  \* the campaign_recipients rows
          job,         \* the campaign's jobs, by id
          worker,      \* what each worker is doing
          call,        \* what each running route has still to do
          sent,        \* history: the messages each account was really sent
          large,       \* history: whether create counted more accounts than the threshold
          overlooked,  \* history: accounts whose notification deliver's look has missed
          faults       \* how many faults there have been

vars == <<campaign, recipients, job, worker, call, sent, large, overlooked, faults>>

Jobs == {"main"} \cup Retries

Statuses == {"DRAFT", "PENDING_APPROVAL", "SCHEDULED", "SENDING", "SENT", "FAILED", "CANCELLED"}

Resting == [at |-> "idle", job |-> "main", contacts |-> {}, batch |-> {}, now |-> {},
            skip |-> {}, verdict |-> "SENT"]

TypeOK ==
  /\ campaign \in [status : Statuses \cup {"NONE"}, requiresApproval : BOOLEAN,
                   approved : BOOLEAN, channel : {"EMAIL", "IN_APP"}]
  /\ recipients \in [Accounts -> {"none", "PENDING", "SENT", "FAILED"}]
  /\ job \in [Jobs -> {"none", "waiting", "active", "done", "failed"}]
  /\ worker \in [Workers ->
       [at : {"idle", "start", "materialise", "contacts", "batch", "gone", "dedupe",
              "send", "markSent", "markFailed", "count", "finish"},
        job : Jobs, contacts : SUBSET Accounts, batch : SUBSET Accounts, now : SUBSET Accounts,
        skip : SUBSET Accounts, verdict : {"SENT", "FAILED"}]]
  /\ call \in [Calls -> {"idle", "schedule", "enqueue", "reset", "reopen", "requeue",
                         "remove", "cancel"}]
  /\ sent \in [Accounts -> Nat]
  /\ large \in BOOLEAN /\ overlooked \subseteq Accounts /\ faults \in 0..MaxFaults

Init ==
  /\ campaign = [status |-> "NONE", requiresApproval |-> FALSE, approved |-> FALSE,
                 channel |-> "EMAIL"]
  /\ recipients = [a \in Accounts |-> "none"]
  /\ job = [j \in Jobs |-> "none"]
  /\ worker = [w \in Workers |-> Resting]
  /\ call = [c \in Calls |-> "idle"]
  /\ sent = [a \in Accounts |-> 0]
  /\ large = FALSE /\ overlooked = {} /\ faults = 0

--------------------------------------------------------------------------------
Fault == faults < MaxFaults /\ faults' = faults + 1

Recorded(status) == {a \in Accounts : recipients[a] = status}

Mark(accounts, status) ==
  recipients' = [a \in Accounts |-> IF a \in accounts THEN status ELSE recipients[a]]

SetStatus(status) == campaign' = [campaign EXCEPT !.status = status]

--------------------------------------------------------------------------------
(* The routes.  Who may call them is not modelled; each goes on as long as  *)
(* its guards hold of the row it has read.                                  *)

requiresApprovalOffByOne(count) == count > Threshold + 1

requiresApproval(count) == count > Threshold

Create(channel, audience) ==
  /\ campaign.status = "NONE"
  /\ campaign' = [status |-> "DRAFT", requiresApproval |-> requiresApproval(Cardinality(audience)),
                  approved |-> FALSE, channel |-> channel]
  /\ large' = (Cardinality(audience) > Threshold)
  /\ UNCHANGED <<recipients, job, worker, call, sent, overlooked, faults>>

Begin(c, stage) ==
  /\ call[c] = "idle"
  /\ call' = [call EXCEPT ![c] = stage]
  /\ UNCHANGED <<campaign, recipients, job, worker, sent, large, overlooked, faults>>

GoOn(c, stage) == call' = [call EXCEPT ![c] = stage]

(* approve: one write, whatever the status. *)
Approve ==
  /\ campaign.status # "NONE"
  /\ campaign' = [campaign EXCEPT !.approved = TRUE]
  /\ UNCHANGED <<recipients, job, worker, call, sent, large, overlooked, faults>>

(* schedule, and sendNow, which schedules for this instant. *)
Schedule(c) ==
  /\ campaign.status \in {"DRAFT", "PENDING_APPROVAL", "SCHEDULED"}
  /\ campaign.requiresApproval => campaign.approved
  /\ Begin(c, "schedule")

WriteScheduled(c) ==
  /\ call[c] = "schedule"
  /\ SetStatus("SCHEDULED")
  /\ GoOn(c, "enqueue")
  /\ UNCHANGED <<recipients, job, worker, sent, large, overlooked, faults>>

(* BullMQ drops a job whose id is still on file, whatever became of it. *)
Enqueue(c) ==
  /\ call[c] = "enqueue"
  /\ job' = IF job["main"] = "none" THEN [job EXCEPT !["main"] = "waiting"] ELSE job
  /\ GoOn(c, "idle")
  /\ UNCHANGED <<campaign, recipients, worker, sent, large, overlooked, faults>>

Retry(c) ==
  /\ campaign.status \in {"SENT", "FAILED"}
  /\ Recorded("FAILED") # {}
  /\ Begin(c, "reset")

ResetEverybody(c) ==
  /\ call[c] = "reset"
  /\ Mark(Recorded("FAILED") \cup Recorded("SENT"), "PENDING")
  /\ GoOn(c, "reopen")
  /\ UNCHANGED <<campaign, job, worker, sent, large, overlooked, faults>>

ResetFailed(c) ==
  /\ call[c] = "reset"
  /\ Mark(Recorded("FAILED"), "PENDING")
  /\ GoOn(c, "reopen")
  /\ UNCHANGED <<campaign, job, worker, sent, large, overlooked, faults>>

Reopen(c) ==
  /\ call[c] = "reopen"
  /\ SetStatus("SCHEDULED")
  /\ GoOn(c, "requeue")
  /\ UNCHANGED <<recipients, job, worker, sent, large, overlooked, faults>>

Requeue(c, j) ==
  /\ call[c] = "requeue" /\ job[j] = "none"
  /\ job' = [job EXCEPT ![j] = "waiting"]
  /\ GoOn(c, "idle")
  /\ UNCHANGED <<campaign, recipients, worker, sent, large, overlooked, faults>>

Cancel(c) ==
  /\ campaign.status \notin {"NONE", "SENT", "SENDING"}
  /\ Begin(c, "remove")

(* A job somebody is working on is locked, and stays. *)
RemoveJob(c) ==
  /\ call[c] = "remove"
  /\ job' = IF job["main"] = "active" THEN job ELSE [job EXCEPT !["main"] = "none"]
  /\ GoOn(c, "cancel")
  /\ UNCHANGED <<campaign, recipients, worker, sent, large, overlooked, faults>>

WriteCancelled(c) ==
  /\ call[c] = "cancel"
  /\ SetStatus("CANCELLED")
  /\ GoOn(c, "idle")
  /\ UNCHANGED <<recipients, job, worker, sent, large, overlooked, faults>>

CallStops(c) ==
  /\ call[c] # "idle"
  /\ Fault
  /\ GoOn(c, "idle")
  /\ UNCHANGED <<campaign, recipients, job, worker, sent, large, overlooked>>

(* removeOnComplete and removeOnFail; a retry's id is never used again. *)
JobForgotten ==
  /\ job["main"] \in {"done", "failed"}
  /\ job' = [job EXCEPT !["main"] = "none"]
  /\ UNCHANGED <<campaign, recipients, worker, call, sent, large, overlooked, faults>>

Routes(c) ==
  \/ Schedule(c) \/ WriteScheduled(c) \/ Enqueue(c)
  \/ Retry(c) \/ ResetFailed(c) \/ Reopen(c) \/ (\E j \in Retries : Requeue(c, j))
  \/ Cancel(c) \/ RemoveJob(c) \/ WriteCancelled(c)
  \/ CallStops(c)

--------------------------------------------------------------------------------
(* The worker.                                                              *)

Goto(w, stage) == worker' = [worker EXCEPT ![w] = [@ EXCEPT !.at = stage]]

(* A job starts by reading the campaign, and may end there: the worker's    *)
(* own look at the approval comes on top of schedule's.                     *)
Unapproved == campaign.requiresApproval /\ ~campaign.approved

PickUpUnless(skipped, w, j) ==
  /\ worker[w] = Resting /\ job[j] = "waiting"
  /\ IF skipped \/ Unapproved
     THEN /\ job' = [job EXCEPT ![j] = "done"]
          /\ campaign' = IF skipped THEN campaign
                         ELSE [campaign EXCEPT !.status = "PENDING_APPROVAL"]
          /\ UNCHANGED worker
     ELSE /\ job' = [job EXCEPT ![j] = "active"]
          /\ worker' = [worker EXCEPT ![w] = [@ EXCEPT !.job = j, !.at = "start"]]
          /\ UNCHANGED campaign
  /\ UNCHANGED <<recipients, call, sent, large, overlooked, faults>>

PickUpUnlessSent(w, j) == PickUpUnless(campaign.status = "SENT", w, j)

PickUp(w, j) == PickUpUnless(campaign.status \in {"CANCELLED", "SENT"}, w, j)

Start(w) ==
  /\ worker[w].at = "start"
  /\ SetStatus("SENDING")
  /\ Goto(w, IF worker[w].job = "main" THEN "materialise" ELSE "contacts")
  /\ UNCHANGED <<recipients, job, call, sent, large, overlooked, faults>>

(* materialiseRecipients: createMany with skipDuplicates. *)
Materialise(w) ==
  /\ worker[w].at = "materialise"
  /\ \E audience \in SUBSET Accounts : Mark(audience \cap Recorded("none"), "PENDING")
  /\ Goto(w, "contacts")
  /\ UNCHANGED <<campaign, job, call, sent, large, overlooked, faults>>

ReadContacts(w) ==
  /\ worker[w].at = "contacts"
  /\ \E audience \in SUBSET Accounts :
       worker' = [worker EXCEPT ![w] = [@ EXCEPT !.contacts = audience, !.at = "batch"]]
  /\ UNCHANGED <<campaign, recipients, job, call, sent, large, overlooked, faults>>

ReadBatch(w) ==
  /\ worker[w].at = "batch"
  /\ \E b \in SUBSET Recorded("PENDING") :
       /\ b = Recorded("PENDING") \/ Cardinality(b) = BatchSize
       /\ Cardinality(b) <= BatchSize
       /\ worker' = [worker EXCEPT ![w] = [@ EXCEPT !.batch = b, !.at =
            IF b = {} THEN "count" ELSE IF campaign.channel = "IN_APP" THEN "gone" ELSE "send"]]
  /\ UNCHANGED <<campaign, recipients, job, call, sent, large, overlooked, faults>>

MarkGoneForgotten(w) ==
  /\ worker[w].at = "gone"
  /\ LET deliverable == worker[w].batch \cap worker[w].contacts
     IN worker' = [worker EXCEPT ![w] = [@ EXCEPT !.batch = {}, !.now = deliverable,
                                 !.at = IF deliverable = {} THEN "batch" ELSE "dedupe"]]
  /\ UNCHANGED <<campaign, recipients, job, call, sent, large, overlooked, faults>>

(* In-app: whoever no longer matches has failed, and the rest go together. *)
MarkGone(w) ==
  /\ worker[w].at = "gone"
  /\ LET deliverable == worker[w].batch \cap worker[w].contacts
     IN /\ Mark(worker[w].batch \ worker[w].contacts, "FAILED")
        /\ worker' = [worker EXCEPT ![w] = [@ EXCEPT !.batch = {}, !.now = deliverable,
                                    !.at = IF deliverable = {} THEN "batch" ELSE "dedupe"]]
  /\ UNCHANGED <<campaign, job, call, sent, large, overlooked, faults>>

(* deliver looks for who has this campaign already, on a replica that shows *)
(* some of what has been sent.                                              *)
Dedupe(w) ==
  /\ worker[w].at = "dedupe"
  /\ LET there == {a \in worker[w].now : sent[a] > 0}
     IN \E seen \in SUBSET there :
          /\ worker' = [worker EXCEPT ![w] = [@ EXCEPT !.skip = seen, !.at = "send"]]
          /\ overlooked' = overlooked \cup (there \ seen)
  /\ UNCHANGED <<campaign, recipients, job, call, sent, large, faults>>

(* Email and SMS go one by one; a recipient with no address has failed.     *)
SkipMissing(w) ==
  /\ worker[w].at = "send"
  /\ \E a \in worker[w].batch \ worker[w].contacts :
       worker' = [worker EXCEPT ![w] = [@ EXCEPT
         !.batch = worker[w].batch \ {a}, !.now = {a}, !.at = "markFailed"]]
  /\ UNCHANGED <<campaign, recipients, job, call, sent, large, overlooked, faults>>

(* Those the next message goes to: one of a batch of emails, or all of an   *)
(* in-app batch.                                                            *)
Addressees(w) ==
  IF worker[w].now # {} THEN {worker[w].now}
  ELSE {{a} : a \in worker[w].batch \cap worker[w].contacts}

Delivered(accounts) == sent' = [a \in Accounts |-> sent[a] + IF a \in accounts THEN 1 ELSE 0]

Attempt(w, who, stage) ==
  worker' = [worker EXCEPT ![w] = [@ EXCEPT
    !.batch = worker[w].batch \ who, !.now = who, !.at = stage]]

SendIgnoringRefusal(w) ==
  /\ worker[w].at = "send"
  /\ \E who \in Addressees(w) :
       /\ Delivered(who \ worker[w].skip) \/ UNCHANGED sent
       /\ Attempt(w, who, "markSent")
  /\ UNCHANGED <<campaign, recipients, job, call, large, overlooked, faults>>

Send(w) ==
  /\ worker[w].at = "send"
  /\ \E who \in Addressees(w) :
       \/ Delivered(who \ worker[w].skip) /\ Attempt(w, who, "markSent") /\ UNCHANGED faults
       \/ UNCHANGED <<sent, faults>> /\ Attempt(w, who, "markFailed")
       \/ Fault /\ Delivered(who \ worker[w].skip) /\ Attempt(w, who, "markFailed")
  /\ UNCHANGED <<campaign, recipients, job, call, large, overlooked>>

AfterMark(w) ==
  worker' = [worker EXCEPT ![w] = [@ EXCEPT !.now = {}, !.skip = {},
                           !.at = IF worker[w].batch = {} THEN "batch" ELSE "send"]]

(* The catch block also takes a failure to record a success for a failure. *)
MarkSent(w) ==
  /\ worker[w].at = "markSent"
  /\ \/ Mark(worker[w].now, "SENT") /\ AfterMark(w) /\ UNCHANGED faults
     \/ Fault /\ Goto(w, "markFailed") /\ UNCHANGED recipients
  /\ UNCHANGED <<campaign, job, call, sent, large, overlooked>>

MarkFailed(w) ==
  /\ worker[w].at = "markFailed"
  /\ Mark(worker[w].now, "FAILED") /\ AfterMark(w)
  /\ UNCHANGED <<campaign, job, call, sent, large, overlooked, faults>>

CountAlwaysSent(w) ==
  /\ worker[w].at = "count"
  /\ worker' = [worker EXCEPT ![w] = [@ EXCEPT !.at = "finish", !.verdict = "SENT"]]
  /\ UNCHANGED <<campaign, recipients, job, call, sent, large, overlooked, faults>>

Count(w) ==
  /\ worker[w].at = "count"
  /\ worker' = [worker EXCEPT ![w] = [@ EXCEPT !.at = "finish", !.verdict =
       IF Recorded("SENT") = {} /\ Recorded("FAILED") # {} THEN "FAILED" ELSE "SENT"]]
  /\ UNCHANGED <<campaign, recipients, job, call, sent, large, overlooked, faults>>

(* BullMQ starts a job that was cut short again, until its attempts are     *)
(* used up.                                                                 *)
CutShort(w) ==
  /\ Fault
  /\ \E next \in {"waiting", "failed"} : job' = [job EXCEPT ![worker[w].job] = next]

(* The process may still stop between the last write and the job's end.     *)
Finish(w) ==
  /\ worker[w].at = "finish"
  /\ SetStatus(worker[w].verdict)
  /\ worker' = [worker EXCEPT ![w] = Resting]
  /\ \/ job' = [job EXCEPT ![worker[w].job] = "done"] /\ UNCHANGED faults
     \/ CutShort(w)
  /\ UNCHANGED <<recipients, call, sent, large, overlooked>>

(* The process stops or the run throws. *)
WorkerStops(w) ==
  /\ worker[w] # Resting
  /\ CutShort(w)
  /\ worker' = [worker EXCEPT ![w] = Resting]
  /\ UNCHANGED <<campaign, recipients, call, sent, large, overlooked>>

Run(w) ==
  \/ Start(w) \/ Materialise(w) \/ ReadContacts(w) \/ ReadBatch(w)
  \/ MarkGone(w) \/ Dedupe(w) \/ SkipMissing(w) \/ Send(w) \/ MarkSent(w) \/ MarkFailed(w)
  \/ Count(w) \/ Finish(w)

Next ==
  \/ JobForgotten \/ Approve
  \/ \E channel \in {"EMAIL", "IN_APP"}, audience \in SUBSET Accounts : Create(channel, audience)
  \/ \E c \in Calls : Routes(c)
  \/ \E w \in Workers : Run(w) \/ WorkerStops(w) \/ \E j \in Jobs : PickUp(w, j)

Spec == Init /\ [][Next]_vars

(* A worker that has a job goes on with it. *)
FairSpec == Spec /\ \A w \in Workers : WF_vars(Run(w))

--------------------------------------------------------------------------------
(* Nobody is recorded as reached who was sent nothing (the try block around *)
(* each send; the dedupe of the in-app delivery, which takes a notification *)
(* it finds for its own).                                                   *)
SentMeansSent == \A a \in Accounts : recipients[a] = "SENT" => sent[a] > 0

(* Every second message to the same account has a fault to answer for it, a *)
(* send or a mark whose outcome was lost, and a second notification also a  *)
(* look of deliver's that missed the first.  Races of the worker with       *)
(* retries, re-schedules and cancels send nothing twice (retry resets only  *)
(* FAILED rows; the loop reads its batches afresh).                         *)
OnceUnlessInDoubt ==
  \A a \in Accounts :
    /\ sent[a] <= 1 + faults
    /\ campaign.channel = "IN_APP" /\ sent[a] > 1 => a \in overlooked

(* A campaign that was counted large is not sent to anybody before it is    *)
(* approved, whichever of the jobs and routes gets there first (the guard   *)
(* of schedule, and the worker's own).                                      *)
CountedLargeWaits ==
  large /\ ~campaign.approved => \A a \in Accounts : sent[a] = 0

NobodyBusy == (\A c \in Calls : call[c] = "idle") /\ \A w \in Workers : worker[w] = Resting

(* What the campaign says of itself is true of its recipients: FAILED means *)
(* it reached nobody, SENT that it reached somebody or failed nobody        *)
(* (docs/notifications-campaigns.md:87-89; the recount at the end of run).  *)
StatusIsTrue ==
  NobodyBusy =>
    /\ campaign.status = "FAILED" => Recorded("SENT") = {}
    /\ campaign.status = "SENT" => Recorded("SENT") # {} \/ Recorded("FAILED") = {}

Closed ==
  /\ campaign.status = "CANCELLED"
  /\ \A c \in Calls : call[c] \in {"idle", "remove", "cancel"}
  /\ \A w \in Workers : worker[w] = Resting

(* A cancellation that nobody raced is final: whatever jobs are still on    *)
(* file, the campaign stays cancelled and nothing more is sent (the         *)
(* worker's check of the status, the guards of schedule and retry).         *)
CancelIsFinal == [][Closed => Closed' /\ sent' = sent]_vars

(* A worker that takes up a campaign gets to the end of it: every turn of   *)
(* its loop settles the recipients it has read, whoever has left the        *)
(* audience in the meantime.                                                *)
WorkersFinish == \A w \in Workers : worker[w].at # "idle" ~> worker[w].at = "idle"

(* "Anything above the broadcast threshold needs Super admin approval       *)
(* before it can be scheduled or sent" (campaigns.service.ts:37-38): an     *)
(* unapproved campaign has no more recipients than the threshold.           *)
(* Not so: the audience may grow after create has counted it.              *)
LargeSendsAreApproved ==
  ~campaign.approved => Cardinality({a \in Accounts : sent[a] > 0}) <= Threshold

(* "A retry after a half-finished batch never doubles up" (deliver,         *)
(* in-app-delivery.service.ts:36-37): nobody has two of one campaign's      *)
(* notifications.                                                           *)
(* Not so: the retry looks for the first one on a replica.                  *)
NeverDoublesUp == campaign.channel = "IN_APP" => \A a \in Accounts : sent[a] <= 1
================================================================================
