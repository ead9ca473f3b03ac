---------------------------- MODULE Campaigns_proofs ----------------------------
(***************************************************************************)
(* Proofs about a campaign, for any number of accounts, workers, routes,    *)
(* retries and faults and any threshold and batch size.                     *)
(***************************************************************************)
EXTENDS Campaigns, TLAPS

(* Before the campaign exists nobody works on it and nothing was sent. *)
Untouched ==
  campaign.status = "NONE" =>
    /\ \A w \in Workers : worker[w] = Resting
    /\ \A c \in Calls : call[c] = "idle"
    /\ \A j \in Jobs : job[j] = "none"
    /\ \A a \in Accounts : sent[a] = 0
    /\ ~large

(* A large campaign was marked so, and while it waits no worker has it. *)
Waits ==
  /\ large => campaign.requiresApproval
  /\ campaign.requiresApproval /\ ~campaign.approved =>
       /\ \A w \in Workers : worker[w] = Resting
       /\ \A a \in Accounts : sent[a] = 0

(* Whoever is about to be marked as reached, or is passed over because the  *)
(* message is there already, was sent one.                                  *)
Reached ==
  /\ \A a \in Accounts : recipients[a] = "SENT" => sent[a] > 0
  /\ \A w \in Workers :
       /\ \A a \in worker[w].skip : sent[a] > 0
       /\ worker[w].at = "markSent" => \A a \in worker[w].now : sent[a] > 0

IInv == TypeOK /\ Untouched /\ Waits /\ Reached

Slots ==
  [at : {"idle", "start", "materialise", "contacts", "batch", "gone", "dedupe",
         "send", "markSent", "markFailed", "count", "finish"},
   job : Jobs, contacts : SUBSET Accounts, batch : SUBSET Accounts, now : SUBSET Accounts,
   skip : SUBSET Accounts, verdict : {"SENT", "FAILED"}]

(* The types of everything but the workers. *)
OthersOK ==
  /\ campaign \in [status : Statuses \cup {"NONE"}, requiresApproval : BOOLEAN,
                   approved : BOOLEAN, channel : {"EMAIL", "IN_APP"}]
  /\ recipients \in [Accounts -> {"none", "PENDING", "SENT", "FAILED"}]
  /\ job \in [Jobs -> {"none", "waiting", "active", "done", "failed"}]
  /\ call \in [Calls -> {"idle", "schedule", "enqueue", "reset", "reopen", "requeue",
                         "remove", "cancel"}]
  /\ sent \in [Accounts -> Nat]
  /\ large \in BOOLEAN /\ overlooked \subseteq Accounts /\ faults \in 0..MaxFaults

LEMMA Types == TypeOK <=> OthersOK /\ worker \in [Workers -> Slots]
  BY DEF TypeOK, OthersOK, Slots

--------------------------------------------------------------------------------
LEMMA InitInv == Init => IInv
  <1> SUFFICES ASSUME Init PROVE IInv
    OBVIOUS
  <1>1. Resting \in Slots
    <2>1. "main" \in Jobs
      BY DEF Jobs
    <2>2. QED
      BY <2>1 DEF Resting, Slots
  <1>2. worker \in [Workers -> Slots]
    BY <1>1 DEF Init
  <1>3. /\ recipients \in [Accounts -> {"none", "PENDING", "SENT", "FAILED"}]
        /\ job \in [Jobs -> {"none", "waiting", "active", "done", "failed"}]
        /\ call \in [Calls -> {"idle", "schedule", "enqueue", "reset", "reopen", "requeue",
                               "remove", "cancel"}]
    BY DEF Init
  <1>5. sent \in [Accounts -> Nat] /\ large \in BOOLEAN /\ overlooked \subseteq Accounts
    BY DEF Init
  <1>9. faults \in 0..MaxFaults
    <2>1. faults = 0
      BY DEF Init
    <2>2. QED
      BY <2>1, CampaignsAssumption
  <1>6. campaign \in [status : Statuses \cup {"NONE"}, requiresApproval : BOOLEAN,
                      approved : BOOLEAN, channel : {"EMAIL", "IN_APP"}]
    BY DEF Init
  <1>7. TypeOK
    BY <1>2, <1>3, <1>5, <1>6, <1>9 DEF TypeOK, Slots
  <1>4. Untouched /\ Waits /\ Reached
    BY DEF Init, Untouched, Waits, Reached, Resting
  <1>8. QED
    BY <1>7, <1>4 DEF IInv

CallStages == {"idle", "schedule", "enqueue", "reset", "reopen", "requeue", "remove", "cancel"}

LEMMA GoOnType ==
  ASSUME TypeOK, NEW c \in Calls
  PROVE  \A stage \in {"idle", "enqueue", "requeue", "cancel"} :
           GoOn(c, stage) => call' \in [Calls -> CallStages]
  BY DEF TypeOK, GoOn, CallStages

(* The routes send nothing and set no worker to work.                       *)
LEMMA RoutesType ==
  ASSUME TypeOK, NEW c \in Calls, Routes(c)
  PROVE  TypeOK'
  <1>1. CASE Schedule(c) \/ Retry(c) \/ Cancel(c)
    BY <1>1 DEF Schedule, Retry, Cancel, Begin, TypeOK
  <1>2. CASE WriteScheduled(c) \/ Reopen(c) \/ WriteCancelled(c)
    <2>1. PICK status \in Statuses : SetStatus(status)
      BY <1>2 DEF WriteScheduled, Reopen, WriteCancelled, Statuses
    <2>2. call' \in [Calls -> CallStages]
      BY <1>2, GoOnType DEF WriteScheduled, Reopen, WriteCancelled
    <2>3. UNCHANGED <<recipients, job, worker, sent, large, overlooked, faults>>
      BY <1>2 DEF WriteScheduled, Reopen, WriteCancelled
    <2>4. QED
      BY <2>1, <2>2, <2>3 DEF SetStatus, TypeOK, CallStages
  <1>3. CASE Enqueue(c) \/ RemoveJob(c) \/ (\E j \in Retries : Requeue(c, j))
    <2>1. job' \in [Jobs -> {"none", "waiting", "active", "done", "failed"}]
      BY <1>3 DEF Enqueue, RemoveJob, Requeue, TypeOK
    <2>2. call' \in [Calls -> CallStages]
      BY <1>3, GoOnType DEF Enqueue, RemoveJob, Requeue
    <2>3. UNCHANGED <<campaign, recipients, worker, sent, large, overlooked, faults>>
      BY <1>3 DEF Enqueue, RemoveJob, Requeue
    <2>4. QED
      BY <2>1, <2>2, <2>3 DEF TypeOK, CallStages
  <1>4. CASE ResetFailed(c)
    BY <1>4 DEF ResetFailed, Mark, GoOn, TypeOK
  <1>5. CASE CallStops(c)
    BY <1>5, CampaignsAssumption DEF CallStops, Fault, GoOn, TypeOK
  <1>6. QED
    BY <1>1, <1>2, <1>3, <1>4, <1>5 DEF Routes

LEMMA RoutesInv ==
  ASSUME IInv, NEW c \in Calls, Routes(c)
  PROVE  IInv'
  <1>1. TypeOK'
    BY RoutesType DEF IInv
  <1>2. campaign.status # "NONE"
    <2>1. CASE call[c] # "idle"
      BY <2>1 DEF IInv, Untouched
    <2>2. CASE call[c] = "idle"
      BY <2>2 DEF Routes, Schedule, WriteScheduled, Enqueue, Retry, ResetFailed, Reopen, Requeue,
         Cancel, RemoveJob, WriteCancelled, CallStops
    <2>3. QED
      BY <2>1, <2>2
  <1>3. /\ UNCHANGED <<worker, sent, large>>
        /\ campaign'.status # "NONE"
        /\ campaign'.requiresApproval = campaign.requiresApproval
        /\ campaign'.approved = campaign.approved
    BY <1>2 DEF Routes, Schedule, WriteScheduled, Enqueue, Retry, ResetFailed, Reopen, Requeue,
       Cancel, RemoveJob, WriteCancelled, CallStops, Begin, SetStatus, IInv, TypeOK
  <1>4. \A a \in Accounts : recipients'[a] = "SENT" => recipients[a] = "SENT"
    BY DEF Routes, Schedule, WriteScheduled, Enqueue, Retry, ResetFailed, Reopen, Requeue,
       Cancel, RemoveJob, WriteCancelled, CallStops, Begin, Mark, IInv, TypeOK
  <1>5. Untouched' /\ Waits' /\ Reached'
    BY <1>3, <1>4 DEF IInv, Untouched, Waits, Reached
  <1>6. QED
    BY <1>1, <1>5 DEF IInv

LEMMA CreateInv ==
  ASSUME IInv, NEW channel \in {"EMAIL", "IN_APP"}, NEW audience \in SUBSET Accounts,
         Create(channel, audience)
  PROVE  IInv'
  <1>1. TypeOK'
    BY DEF Create, requiresApproval, IInv, TypeOK, Statuses
  <1>2. Untouched' /\ Waits' /\ Reached'
    BY DEF Create, requiresApproval, IInv, Untouched, Waits, Reached
  <1>3. QED
    BY <1>1, <1>2 DEF IInv

LEMMA ApproveInv ==
  ASSUME IInv, Approve
  PROVE  IInv'
  BY DEF Approve, IInv, TypeOK, Untouched, Waits, Reached

LEMMA ForgottenInv ==
  ASSUME IInv, JobForgotten
  PROVE  IInv'
  BY DEF JobForgotten, IInv, TypeOK, Jobs, Untouched, Waits, Reached

--------------------------------------------------------------------------------
(* What the steps of one worker have in common: the worker goes on, the     *)
(* messages only grow in number, and SENT is said of none but those reached. *)
LEMMA WorkerStep ==
  ASSUME IInv, OthersOK', NEW w \in Workers, NEW slot \in Slots,
         worker' = [worker EXCEPT ![w] = slot],
         ~Unapproved,
         campaign'.status # "NONE",
         campaign'.requiresApproval = campaign.requiresApproval,
         campaign'.approved = campaign.approved,
         large' = large,
         \A a \in Accounts : sent[a] > 0 => sent'[a] > 0,
         \A a \in Accounts : recipients'[a] = "SENT" => sent'[a] > 0,
         \A a \in slot.skip : sent'[a] > 0,
         slot.at = "markSent" => \A a \in slot.now : sent'[a] > 0
  PROVE  IInv'
  <1>1. worker \in [Workers -> Slots]
    BY Types DEF IInv
  <1>2. worker' \in [Workers -> Slots]
    BY <1>1
  <1>3. TypeOK'
    BY <1>2 DEF TypeOK, OthersOK, Slots
  <1>4. Untouched'
    BY DEF Untouched
  <1>5. Waits'
    BY DEF IInv, Waits, Unapproved
  <1>6. ASSUME NEW v \in Workers
        PROVE  /\ \A a \in worker'[v].skip : sent'[a] > 0
               /\ worker'[v].at = "markSent" => \A a \in worker'[v].now : sent'[a] > 0
    <2>1. CASE v = w
      BY <1>1, <2>1
    <2>2. CASE v # w
      <3>1. worker'[v] = worker[v] /\ worker[v] \in Slots
        BY <1>1, <2>2
      <3>2. QED
        BY <3>1 DEF IInv, Reached, Slots
    <2>3. QED
      BY <2>1, <2>2
  <1>7. Reached'
    BY <1>6 DEF Reached
  <1>8. QED
    BY <1>3, <1>4, <1>5, <1>7 DEF IInv

(* The same for the steps that send nothing and leave the campaign alone,   *)
(* and mark nobody as reached.                                              *)
LEMMA QuietStep ==
  ASSUME IInv, OthersOK', NEW w \in Workers, worker[w] # Resting, NEW slot \in Slots,
         worker' = [worker EXCEPT ![w] = slot],
         UNCHANGED <<campaign, sent, large>>,
         \A a \in Accounts : recipients'[a] = "SENT" => recipients[a] = "SENT",
         \A a \in slot.skip : sent[a] > 0,
         slot.at # "markSent"
  PROVE  IInv'
  <1>1. campaign.status # "NONE" /\ ~Unapproved
    BY DEF IInv, Untouched, Waits, Unapproved
  <1>2. \A a \in Accounts : recipients'[a] = "SENT" => sent[a] > 0
    BY DEF IInv, Reached
  <1>3. slot.skip \subseteq Accounts
    BY DEF Slots
  <1>4. QED
    BY <1>1, <1>2, <1>3, WorkerStep

(* A worker takes up a job only when the campaign need not wait.            *)
LEMMA PickUpInv ==
  ASSUME IInv, NEW w \in Workers, NEW j \in Jobs, PickUp(w, j)
  PROVE  IInv'
  <1>1. worker \in [Workers -> Slots]
    BY Types DEF IInv
  <1>2. OthersOK'
    BY DEF PickUp, PickUpUnless, IInv, TypeOK, OthersOK, Statuses
  <1>3. campaign.status # "NONE"
    BY DEF PickUp, PickUpUnless, IInv, Untouched
  <1>4. CASE UNCHANGED worker
    <2>1. TypeOK'
      BY <1>1, <1>2, <1>4 DEF TypeOK, OthersOK, Slots
    <2>2. /\ UNCHANGED <<worker, recipients, sent, large>>
          /\ campaign'.status # "NONE"
          /\ campaign'.requiresApproval = campaign.requiresApproval
          /\ campaign'.approved = campaign.approved
      BY <1>3, <1>4 DEF PickUp, PickUpUnless, IInv, TypeOK
    <2>3. Untouched' /\ Waits' /\ Reached'
      BY <2>2 DEF IInv, Untouched, Waits, Reached
    <2>4. QED
      BY <2>1, <2>3 DEF IInv
  <1>5. CASE /\ ~Unapproved /\ UNCHANGED <<campaign, recipients, sent, large>>
             /\ worker' = [worker EXCEPT ![w] = [@ EXCEPT !.job = j, !.at = "start"]]
    <2> DEFINE slot == [worker[w] EXCEPT !.job = j, !.at = "start"]
    <2>1. /\ slot \in Slots
          /\ slot.skip = worker[w].skip /\ slot.at = "start"
      BY <1>1 DEF Slots
    <2>2. worker' = [worker EXCEPT ![w] = slot]
      BY <1>1, <1>5
    <2>3. \A a \in slot.skip : sent'[a] > 0
      BY <1>5, <2>1 DEF IInv, Reached
    <2>4. \A a \in Accounts : recipients'[a] = "SENT" => sent'[a] > 0
      BY <1>5 DEF IInv, Reached
    <2> HIDE DEF slot
    <2>5. QED
      BY <1>2, <1>3, <1>5, <2>1, <2>2, <2>3, <2>4, WorkerStep
  <1>6. QED
    BY <1>4, <1>5 DEF PickUp, PickUpUnless

(* The steps of a run, each a QuietStep or, where it sends, marks or writes *)
(* the campaign's status, a WorkerStep.                                     *)
LEMMA StartInv ==
  ASSUME IInv, NEW w \in Workers, Start(w)
  PROVE  IInv'
  <1> DEFINE slot == [worker[w] EXCEPT !.at = IF worker[w].job = "main" THEN "materialise"
                                              ELSE "contacts"]
  <1>1. worker \in [Workers -> Slots]
    BY Types DEF IInv
  <1>2. campaign.status # "NONE" /\ ~Unapproved
    BY DEF Start, Resting, IInv, Untouched, Waits, Unapproved
  <1>3. slot \in Slots /\ slot.skip = worker[w].skip /\ slot.at # "markSent"
    BY <1>1 DEF Slots
  <1>4. worker' = [worker EXCEPT ![w] = slot]
    BY <1>1 DEF Start, Goto
  <1>5. OthersOK'
    BY DEF Start, SetStatus, IInv, TypeOK, OthersOK, Statuses
  <1>6. /\ campaign'.status # "NONE"
        /\ campaign'.requiresApproval = campaign.requiresApproval
        /\ campaign'.approved = campaign.approved
        /\ UNCHANGED <<recipients, sent, large>>
    BY DEF Start, SetStatus, IInv, TypeOK
  <1>7. \A a \in slot.skip : sent'[a] > 0
    BY <1>3, <1>6 DEF IInv, Reached
  <1>8. \A a \in Accounts : recipients'[a] = "SENT" => sent'[a] > 0
    BY <1>6 DEF IInv, Reached
  <1> HIDE DEF slot
  <1>9. QED
    BY <1>2, <1>3, <1>4, <1>5, <1>6, <1>7, <1>8, WorkerStep

LEMMA MaterialiseInv ==
  ASSUME IInv, NEW w \in Workers, Materialise(w)
  PROVE  IInv'
  <1> DEFINE slot == [worker[w] EXCEPT !.at = "contacts"]
  <1>1. worker \in [Workers -> Slots]
    BY Types DEF IInv
  <1>2. slot \in Slots /\ slot.skip = worker[w].skip /\ slot.at # "markSent"
    BY <1>1 DEF Slots
  <1>3. worker' = [worker EXCEPT ![w] = slot] /\ worker[w] # Resting
    BY <1>1 DEF Materialise, Goto, Resting
  <1>4. OthersOK' /\ UNCHANGED <<campaign, sent, large>>
    BY DEF Materialise, Mark, IInv, TypeOK, OthersOK
  <1>5. \A a \in Accounts : recipients'[a] = "SENT" => recipients[a] = "SENT"
    BY DEF Materialise, Mark
  <1>6. \A a \in slot.skip : sent[a] > 0
    BY <1>2 DEF IInv, Reached
  <1> HIDE DEF slot
  <1>7. QED
    BY <1>2, <1>3, <1>4, <1>5, <1>6, QuietStep

LEMMA ReadContactsInv ==
  ASSUME IInv, NEW w \in Workers, ReadContacts(w)
  PROVE  IInv'
  <1>1. worker \in [Workers -> Slots]
    BY Types DEF IInv
  <1>2. PICK audience \in SUBSET Accounts :
          worker' = [worker EXCEPT ![w] = [@ EXCEPT !.contacts = audience, !.at = "batch"]]
    BY DEF ReadContacts
  <1> DEFINE slot == [worker[w] EXCEPT !.contacts = audience, !.at = "batch"]
  <1>3. slot \in Slots /\ slot.skip = worker[w].skip /\ slot.at # "markSent"
    BY <1>1 DEF Slots
  <1>4. worker' = [worker EXCEPT ![w] = slot]
    BY <1>2
  <1>0. worker[w] # Resting
    BY DEF ReadContacts, Resting
  <1>5. OthersOK' /\ UNCHANGED <<campaign, recipients, sent, large>>
    BY DEF ReadContacts, IInv, TypeOK, OthersOK
  <1>6. \A a \in slot.skip : sent[a] > 0
    BY <1>3 DEF IInv, Reached
  <1> HIDE DEF slot
  <1>7. QED
    BY <1>0, <1>3, <1>4, <1>5, <1>6, QuietStep

LEMMA ReadBatchInv ==
  ASSUME IInv, NEW w \in Workers, ReadBatch(w)
  PROVE  IInv'
  <1>1. worker \in [Workers -> Slots]
    BY Types DEF IInv
  <1>2. PICK b \in SUBSET Recorded("PENDING") :
          worker' = [worker EXCEPT ![w] = [@ EXCEPT !.batch = b, !.at =
            IF b = {} THEN "count" ELSE IF campaign.channel = "IN_APP" THEN "gone" ELSE "send"]]
    BY DEF ReadBatch
  <1> DEFINE slot == [worker[w] EXCEPT !.batch = b, !.at =
            IF b = {} THEN "count" ELSE IF campaign.channel = "IN_APP" THEN "gone" ELSE "send"]
  <1>3. b \in SUBSET Accounts
    BY DEF Recorded
  <1>4. slot \in Slots /\ slot.skip = worker[w].skip /\ slot.at # "markSent"
    BY <1>1, <1>3 DEF Slots
  <1>5. worker' = [worker EXCEPT ![w] = slot]
    BY <1>2
  <1>0. worker[w] # Resting
    BY DEF ReadBatch, Resting
  <1>6. OthersOK' /\ UNCHANGED <<campaign, recipients, sent, large>>
    BY DEF ReadBatch, IInv, TypeOK, OthersOK
  <1>7. \A a \in slot.skip : sent[a] > 0
    BY <1>4 DEF IInv, Reached
  <1> HIDE DEF slot
  <1>8. QED
    BY <1>0, <1>4, <1>5, <1>6, <1>7, QuietStep

LEMMA MarkGoneInv ==
  ASSUME IInv, NEW w \in Workers, MarkGone(w)
  PROVE  IInv'
  <1> DEFINE deliverable == worker[w].batch \cap worker[w].contacts
             slot == [worker[w] EXCEPT !.batch = {}, !.now = deliverable,
                                       !.at = IF deliverable = {} THEN "batch" ELSE "dedupe"]
  <1>1. worker \in [Workers -> Slots]
    BY Types DEF IInv
  <1>2. deliverable \in SUBSET Accounts
    BY <1>1 DEF Slots
  <1>3. worker' = [worker EXCEPT ![w] = slot] /\ worker[w] # Resting
    BY <1>1 DEF MarkGone, Resting
  <1> HIDE DEF deliverable
  <1>4. slot \in Slots /\ slot.skip = worker[w].skip /\ slot.at # "markSent"
    BY <1>1, <1>2 DEF Slots
  <1>5. OthersOK' /\ UNCHANGED <<campaign, sent, large>>
    BY DEF MarkGone, Mark, IInv, TypeOK, OthersOK
  <1>6. \A a \in Accounts : recipients'[a] = "SENT" => recipients[a] = "SENT"
    BY DEF MarkGone, Mark
  <1>7. \A a \in slot.skip : sent[a] > 0
    BY <1>4 DEF IInv, Reached
  <1> HIDE DEF slot
  <1>8. QED
    BY <1>3, <1>4, <1>5, <1>6, <1>7, QuietStep

LEMMA DedupeInv ==
  ASSUME IInv, NEW w \in Workers, Dedupe(w)
  PROVE  IInv'
  <1>1. worker \in [Workers -> Slots]
    BY Types DEF IInv
  <1>2. PICK seen \in SUBSET {a \in worker[w].now : sent[a] > 0} :
          worker' = [worker EXCEPT ![w] = [@ EXCEPT !.skip = seen, !.at = "send"]]
    BY DEF Dedupe
  <1> DEFINE slot == [worker[w] EXCEPT !.skip = seen, !.at = "send"]
  <1>3. seen \in SUBSET Accounts /\ \A a \in seen : sent[a] > 0
    BY <1>1 DEF Slots
  <1>4. slot \in Slots /\ slot.skip = seen /\ slot.at # "markSent"
    BY <1>1, <1>3 DEF Slots
  <1>5. worker' = [worker EXCEPT ![w] = slot]
    BY <1>2
  <1>0. worker[w] # Resting
    BY DEF Dedupe, Resting
  <1>6. OthersOK' /\ UNCHANGED <<campaign, recipients, sent, large>>
    BY DEF Dedupe, IInv, TypeOK, OthersOK
  <1> HIDE DEF slot
  <1>7. QED
    BY <1>0, <1>3, <1>4, <1>5, <1>6, QuietStep

LEMMA SkipMissingInv ==
  ASSUME IInv, NEW w \in Workers, SkipMissing(w)
  PROVE  IInv'
  <1>1. worker \in [Workers -> Slots]
    BY Types DEF IInv
  <1>2. PICK a \in worker[w].batch \ worker[w].contacts :
          worker' = [worker EXCEPT ![w] =
            [@ EXCEPT !.batch = worker[w].batch \ {a}, !.now = {a}, !.at = "markFailed"]]
    BY DEF SkipMissing
  <1> DEFINE slot == [worker[w] EXCEPT !.batch = worker[w].batch \ {a}, !.now = {a}, !.at = "markFailed"]
  <1>3. slot \in Slots /\ slot.skip = worker[w].skip /\ slot.at # "markSent"
    BY <1>1 DEF Slots
  <1>4. worker' = [worker EXCEPT ![w] = slot]
    BY <1>2
  <1>0. worker[w] # Resting
    BY DEF SkipMissing, Resting
  <1>5. OthersOK' /\ UNCHANGED <<campaign, recipients, sent, large>>
    BY DEF SkipMissing, IInv, TypeOK, OthersOK
  <1>6. \A b \in slot.skip : sent[b] > 0
    BY <1>3 DEF IInv, Reached
  <1> HIDE DEF slot
  <1>7. QED
    BY <1>0, <1>3, <1>4, <1>5, <1>6, QuietStep

(* Whoever is marked as reached has just been sent the message, or is       *)
(* passed over because of the one already sent.                             *)
LEMMA SendInv ==
  ASSUME IInv, NEW w \in Workers, Send(w)
  PROVE  IInv'
  <1>1. worker \in [Workers -> Slots]
    BY Types DEF IInv
  <1>2. PICK who \in Addressees(w) :
          \/ Delivered(who \ worker[w].skip) /\ Attempt(w, who, "markSent") /\ UNCHANGED faults
          \/ UNCHANGED <<sent, faults>> /\ Attempt(w, who, "markFailed")
          \/ Fault /\ Delivered(who \ worker[w].skip) /\ Attempt(w, who, "markFailed")
    BY DEF Send
  <1>3. who \in SUBSET Accounts
    BY <1>1 DEF Addressees, Slots
  <1>4. PICK stage \in {"markSent", "markFailed"} :
          /\ Attempt(w, who, stage)
          /\ stage = "markSent" => Delivered(who \ worker[w].skip)
    BY <1>2
  <1> DEFINE slot == [worker[w] EXCEPT !.batch = worker[w].batch \ who, !.now = who, !.at = stage]
  <1>5. slot \in Slots /\ slot.skip = worker[w].skip /\ slot.at = stage /\ slot.now = who
    BY <1>1, <1>3 DEF Slots
  <1>6. worker' = [worker EXCEPT ![w] = slot]
    BY <1>4 DEF Attempt
  <1>7. campaign.status # "NONE" /\ ~Unapproved
    BY DEF Send, Resting, IInv, Untouched, Waits, Unapproved
  <1>8. sent \in [Accounts -> Nat]
    BY DEF IInv, TypeOK
  <1>9. UNCHANGED <<campaign, recipients, job, call, large, overlooked>>
    BY DEF Send
  <1>10. /\ sent' \in [Accounts -> Nat]
         /\ \A a \in Accounts : sent[a] > 0 => sent'[a] > 0
    BY <1>2, <1>8 DEF Delivered
  <1>11. faults' \in 0..MaxFaults
    BY <1>2, CampaignsAssumption DEF Fault, IInv, TypeOK
  <1>12. OthersOK'
    BY <1>9, <1>10, <1>11 DEF IInv, TypeOK, OthersOK
  <1>13. \A a \in worker[w].skip : a \in Accounts /\ sent[a] > 0
    BY <1>1 DEF IInv, Reached, Slots
  <1>14. \A a \in slot.skip : sent'[a] > 0
    BY <1>5, <1>10, <1>13
  <1>15. ASSUME stage = "markSent", NEW a \in who
         PROVE  sent'[a] > 0
    <2>1. CASE a \in worker[w].skip
      BY <1>10, <1>13, <2>1
    <2>2. CASE a \notin worker[w].skip
      BY <1>3, <1>4, <1>8, <1>15, <2>2 DEF Delivered
    <2>3. QED
      BY <2>1, <2>2
  <1>16. \A a \in Accounts : recipients'[a] = "SENT" => sent'[a] > 0
    BY <1>9, <1>10 DEF IInv, Reached
  <1> HIDE DEF slot
  <1>17. /\ campaign'.status # "NONE"
         /\ campaign'.requiresApproval = campaign.requiresApproval
         /\ campaign'.approved = campaign.approved
         /\ large' = large
    BY <1>7, <1>9
  <1>18. QED
    BY <1>5, <1>6, <1>7, <1>10, <1>12, <1>14, <1>15, <1>16, <1>17, WorkerStep

LEMMA MarkSentInv ==
  ASSUME IInv, NEW w \in Workers, MarkSent(w)
  PROVE  IInv'
  <1>1. worker \in [Workers -> Slots]
    BY Types DEF IInv
  <1>2. worker[w] # Resting
    BY DEF MarkSent, Resting
  <1>3. UNCHANGED <<campaign, sent, large>>
    BY DEF MarkSent
  <1>4. CASE Mark(worker[w].now, "SENT") /\ AfterMark(w) /\ UNCHANGED faults
    <2> DEFINE slot == [worker[w] EXCEPT !.now = {}, !.skip = {},
                           !.at = IF worker[w].batch = {} THEN "batch" ELSE "send"]
    <2>1. slot \in Slots /\ slot.skip = {} /\ slot.at # "markSent"
      BY <1>1 DEF Slots
    <2>2. worker' = [worker EXCEPT ![w] = slot]
      BY <1>4 DEF AfterMark
    <2>3. OthersOK'
      BY <1>4 DEF MarkSent, Mark, IInv, TypeOK, OthersOK
    <2>4. \A a \in Accounts : recipients'[a] = "SENT" => sent'[a] > 0
      BY <1>3, <1>4 DEF MarkSent, Mark, IInv, Reached
    <2>5. campaign.status # "NONE" /\ ~Unapproved
      BY <1>2 DEF IInv, Untouched, Waits, Unapproved
    <2> HIDE DEF slot
    <2>6. QED
      BY <1>3, <2>1, <2>2, <2>3, <2>4, <2>5, WorkerStep
  <1>5. CASE Fault /\ Goto(w, "markFailed") /\ UNCHANGED recipients
    <2> DEFINE slot == [worker[w] EXCEPT !.at = "markFailed"]
    <2>1. slot \in Slots /\ slot.skip = worker[w].skip /\ slot.at # "markSent"
      BY <1>1 DEF Slots
    <2>2. worker' = [worker EXCEPT ![w] = slot]
      BY <1>5 DEF Goto
    <2>3. faults' \in 0..MaxFaults
      BY <1>5, CampaignsAssumption DEF Fault, IInv, TypeOK
    <2>4. OthersOK'
      BY <1>5, <2>3 DEF MarkSent, IInv, TypeOK, OthersOK
    <2>5. \A a \in slot.skip : sent[a] > 0
      BY <2>1 DEF IInv, Reached
    <2> HIDE DEF slot
    <2>6. QED
      BY <1>2, <1>3, <1>5, <2>1, <2>2, <2>4, <2>5, QuietStep
  <1>6. QED
    BY <1>4, <1>5 DEF MarkSent

LEMMA MarkFailedInv ==
  ASSUME IInv, NEW w \in Workers, MarkFailed(w)
  PROVE  IInv'
  <1> DEFINE slot == [worker[w] EXCEPT !.now = {}, !.skip = {},
                         !.at = IF worker[w].batch = {} THEN "batch" ELSE "send"]
  <1>1. worker \in [Workers -> Slots]
    BY Types DEF IInv
  <1>2. worker[w] # Resting
    BY DEF MarkFailed, Resting
  <1>3. slot \in Slots /\ slot.skip = {} /\ slot.at # "markSent"
    BY <1>1 DEF Slots
  <1>4. worker' = [worker EXCEPT ![w] = slot]
    BY DEF MarkFailed, AfterMark
  <1>5. OthersOK' /\ UNCHANGED <<campaign, sent, large>>
    BY DEF MarkFailed, Mark, IInv, TypeOK, OthersOK
  <1>6. \A a \in Accounts : recipients'[a] = "SENT" => recipients[a] = "SENT"
    BY DEF MarkFailed, Mark
  <1> HIDE DEF slot
  <1>7. QED
    BY <1>2, <1>3, <1>4, <1>5, <1>6, QuietStep

LEMMA CountInv ==
  ASSUME IInv, NEW w \in Workers, Count(w)
  PROVE  IInv'
  <1> DEFINE verdict == IF Recorded("SENT") = {} /\ Recorded("FAILED") # {} THEN "FAILED" ELSE "SENT"
             slot == [worker[w] EXCEPT !.at = "finish", !.verdict = verdict]
  <1>1. worker \in [Workers -> Slots]
    BY Types DEF IInv
  <1>2. worker[w] # Resting
    BY DEF Count, Resting
  <1>3. verdict \in {"SENT", "FAILED"}
    OBVIOUS
  <1>4. worker' = [worker EXCEPT ![w] = slot]
    BY DEF Count
  <1> HIDE DEF verdict
  <1>5. slot \in Slots /\ slot.skip = worker[w].skip /\ slot.at # "markSent"
    BY <1>1, <1>3 DEF Slots
  <1>6. OthersOK' /\ UNCHANGED <<campaign, recipients, sent, large>>
    BY DEF Count, IInv, TypeOK, OthersOK
  <1>7. \A a \in slot.skip : sent[a] > 0
    BY <1>5 DEF IInv, Reached
  <1> HIDE DEF slot
  <1>8. QED
    BY <1>2, <1>4, <1>5, <1>6, <1>7, QuietStep

(* The end of a run, whether it comes to its end or is cut short.           *)
LEMMA CutShortType ==
  ASSUME IInv, NEW w \in Workers, CutShort(w)
  PROVE  /\ job' \in [Jobs -> {"none", "waiting", "active", "done", "failed"}]
         /\ faults' \in 0..MaxFaults
  <1>1. job' \in [Jobs -> {"none", "waiting", "active", "done", "failed"}]
    BY DEF CutShort, IInv, TypeOK
  <1>2. faults' \in 0..MaxFaults
    BY CampaignsAssumption DEF CutShort, Fault, IInv, TypeOK
  <1>3. QED
    BY <1>1, <1>2

LEMMA EndInv ==
  ASSUME IInv, NEW w \in Workers, Finish(w) \/ WorkerStops(w)
  PROVE  IInv'
  <1>1. worker \in [Workers -> Slots] /\ worker[w] \in Slots
    BY Types DEF IInv
  <1>2. worker[w] # Resting
    BY DEF Finish, WorkerStops, Resting
  <1>3. campaign.status # "NONE" /\ ~Unapproved
    BY <1>2 DEF IInv, Untouched, Waits, Unapproved
  <1>4. /\ job' \in [Jobs -> {"none", "waiting", "active", "done", "failed"}]
        /\ faults' \in 0..MaxFaults
    <2>1. CASE CutShort(w)
      BY <2>1, CutShortType
    <2>2. CASE job' = [job EXCEPT ![worker[w].job] = "done"] /\ UNCHANGED faults
      BY <2>2 DEF IInv, TypeOK
    <2>3. QED
      BY <2>1, <2>2 DEF Finish, WorkerStops
  <1>5. /\ campaign' \in [status : Statuses \cup {"NONE"}, requiresApproval : BOOLEAN,
                          approved : BOOLEAN, channel : {"EMAIL", "IN_APP"}]
        /\ campaign'.status # "NONE"
        /\ campaign'.requiresApproval = campaign.requiresApproval
        /\ campaign'.approved = campaign.approved
    <2>1. CASE UNCHANGED campaign
      BY <1>3, <2>1 DEF IInv, TypeOK
    <2>2. CASE SetStatus(worker[w].verdict)
      <3>1. worker[w].verdict \in {"SENT", "FAILED"}
        BY <1>1 DEF Slots
      <3>2. QED
        BY <2>2, <3>1 DEF SetStatus, IInv, TypeOK, Statuses
    <2>3. QED
      BY <2>1, <2>2 DEF Finish, WorkerStops
  <1>6. UNCHANGED <<recipients, call, sent, large, overlooked>>
    BY DEF Finish, WorkerStops
  <1>7. OthersOK'
    BY <1>4, <1>5, <1>6 DEF IInv, TypeOK, OthersOK
  <1>8. worker' = [worker EXCEPT ![w] = Resting]
    BY DEF Finish, WorkerStops
  <1>9. Resting \in Slots /\ Resting.skip = {} /\ Resting.at # "markSent"
    <2>1. "main" \in Jobs
      BY DEF Jobs
    <2>2. QED
      BY <2>1 DEF Resting, Slots
  <1>10. \A a \in Accounts : recipients'[a] = "SENT" => sent'[a] > 0
    BY <1>6 DEF IInv, Reached
  <1>11. QED
    BY <1>3, <1>5, <1>6, <1>7, <1>8, <1>9, <1>10, WorkerStep

--------------------------------------------------------------------------------
LEMMA NextInv ==
  ASSUME IInv, [Next]_vars
  PROVE  IInv'
  <1>1. CASE JobForgotten \/ Approve
    BY <1>1, ForgottenInv, ApproveInv
  <1>2. CASE \E channel \in {"EMAIL", "IN_APP"}, audience \in SUBSET Accounts :
               Create(channel, audience)
    BY <1>2, CreateInv
  <1>3. CASE \E c \in Calls : Routes(c)
    BY <1>3, RoutesInv
  <1>4. ASSUME NEW w \in Workers, Run(w)
        PROVE  IInv'
    <2>1. CASE Start(w) \/ Materialise(w) \/ ReadContacts(w) \/ ReadBatch(w)
      BY <2>1, StartInv, MaterialiseInv, ReadContactsInv, ReadBatchInv
    <2>2. CASE MarkGone(w) \/ Dedupe(w) \/ SkipMissing(w)
      BY <2>2, MarkGoneInv, DedupeInv, SkipMissingInv
    <2>3. CASE Send(w) \/ MarkSent(w) \/ MarkFailed(w)
      BY <2>3, SendInv, MarkSentInv, MarkFailedInv
    <2>4. CASE Count(w) \/ Finish(w)
      BY <2>4, CountInv, EndInv
    <2>5. QED
      BY <1>4, <2>1, <2>2, <2>3, <2>4 DEF Run
  <1>5. CASE \E w \in Workers : WorkerStops(w)
    BY <1>5, EndInv
  <1>6. CASE \E w \in Workers, j \in Jobs : PickUp(w, j)
    BY <1>6, PickUpInv
  <1>7. CASE UNCHANGED vars
    BY <1>7 DEF vars, IInv, TypeOK, Untouched, Waits, Reached
  <1>8. QED
    BY <1>1, <1>2, <1>3, <1>4, <1>5, <1>6, <1>7 DEF Next

(* The strengthened invariant holds of every reachable state.               *)
THEOREM Invariance == Spec => []IInv
  <1>1. Init => IInv
    BY InitInv
  <1>2. IInv /\ [Next]_vars => IInv'
    BY NextInv
  <1>3. QED
    BY <1>1, <1>2, PTL DEF Spec

(* Every variable keeps its type: workers and routes stand at one of the    *)
(* stages the code has, and a row has one of the statuses of the schema.    *)
THEOREM TypeCorrect == Spec => []TypeOK
  <1>1. IInv => TypeOK
    BY DEF IInv
  <1>2. QED
    BY <1>1, Invariance, PTL

(* Nobody is recorded as reached who was sent nothing (run of               *)
(* campaign.processor.ts and deliver of in-app-delivery.service.ts).        *)
THEOREM ReachedIsTrue == Spec => []SentMeansSent
  <1>1. IInv => SentMeansSent
    BY DEF IInv, Reached, SentMeansSent
  <1>2. QED
    BY <1>1, Invariance, PTL

(* A campaign counted above the threshold sends nothing before its approval *)
(* (schedule of campaigns.service.ts, run of campaign.processor.ts).        *)
THEOREM LargeWaits == Spec => []CountedLargeWaits
  <1>1. IInv => CountedLargeWaits
    BY DEF IInv, Waits, CountedLargeWaits
  <1>2. QED
    BY <1>1, Invariance, PTL

--------------------------------------------------------------------------------
(* Of the routes only a cancellation finds anything to do in a campaign that *)
(* was cancelled, and of the workers none.                                  *)
LEMMA ClosedStays ==
  ASSUME TypeOK, Closed, [Next]_vars
  PROVE  Closed' /\ sent' = sent
  <1>1. CASE JobForgotten \/ Approve
    <2>1. UNCHANGED <<worker, call, sent>> /\ campaign'.status = campaign.status
      BY <1>1 DEF JobForgotten, Approve, TypeOK
    <2>2. QED
      BY <2>1 DEF Closed
  <1>2. CASE \E channel \in {"EMAIL", "IN_APP"}, audience \in SUBSET Accounts :
               Create(channel, audience)
    BY <1>2 DEF Create, Closed
  <1>3. ASSUME NEW c \in Calls, Routes(c)
        PROVE  Closed' /\ sent' = sent
    <2>1. Cancel(c) \/ RemoveJob(c) \/ WriteCancelled(c) \/ CallStops(c)
      BY <1>3 DEF Routes, Closed, Schedule, WriteScheduled, Enqueue, Retry, ResetFailed, Reopen,
         Requeue
    <2>2. UNCHANGED <<worker, sent>> /\ campaign'.status = "CANCELLED"
      BY <2>1 DEF Cancel, Begin, RemoveJob, WriteCancelled, SetStatus, CallStops, Closed, TypeOK
    <2>3. PICK stage \in {"idle", "remove", "cancel"} : call' = [call EXCEPT ![c] = stage]
      BY <2>1 DEF Cancel, Begin, RemoveJob, WriteCancelled, CallStops, GoOn
    <2>4. \A d \in Calls : call'[d] \in {"idle", "remove", "cancel"}
      BY <2>3 DEF Closed, TypeOK
    <2>5. QED
      BY <2>2, <2>4 DEF Closed
  <1>4. ASSUME NEW w \in Workers, Run(w) \/ WorkerStops(w) \/ \E j \in Jobs : PickUp(w, j)
        PROVE  Closed' /\ sent' = sent
    <2>1. worker[w] = Resting
      BY DEF Closed
    <2>2. \E j \in Jobs : PickUp(w, j)
      BY <1>4, <2>1 DEF Resting, Run, WorkerStops, Start, Materialise, ReadContacts, ReadBatch,
         MarkGone, Dedupe, SkipMissing, Send, MarkSent, MarkFailed, Count, Finish
    <2>3. UNCHANGED <<campaign, worker, call, sent>>
      BY <2>2 DEF PickUp, PickUpUnless, Closed
    <2>4. QED
      BY <2>3 DEF Closed
  <1>5. CASE UNCHANGED vars
    BY <1>5 DEF vars, Closed
  <1>6. QED
    BY <1>1, <1>2, <1>3, <1>4, <1>5 DEF Next

(* A cancellation that nobody raced is final (cancel of                     *)
(* campaigns.service.ts, the look at the status in campaign.processor.ts).  *)
THEOREM CancelFinal == Spec => CancelIsFinal
  <1>1. TypeOK /\ [Next]_vars => [Closed => Closed' /\ sent' = sent]_vars
    BY ClosedStays
  <1>2. QED
    BY <1>1, TypeCorrect, PTL DEF Spec, CancelIsFinal

--------------------------------------------------------------------------------
(* One worker.  Each instance runs one job at a time (concurrency 1); what    *)
(* follows is about a single instance.  Beside a second one it is false: the  *)
(* jobs of a retry and of a schedule may then run side by side.               *)
OneWorker == \A v, w \in Workers : v = w

(* The worker's batch, and those it is dealing with, are still pending, and   *)
(* nobody is dealt with while a batch is read.                                *)
Held ==
  \A w \in Workers :
    /\ worker[w].batch \cup worker[w].now \subseteq Recorded("PENDING")
    /\ worker[w].batch \cap worker[w].now = {}
    /\ worker[w].at \notin {"dedupe", "send", "markSent", "markFailed"} => worker[w].now = {}

JustSent(a) == \E w \in Workers : worker[w].at = "markSent" /\ a \in worker[w].now

(* Whoever may be sent to again has a fault for every message so far.         *)
Answered ==
  \A a \in Accounts :
    /\ sent[a] <= 1 + faults
    /\ recipients[a] # "SENT" /\ ~JustSent(a) => sent[a] <= faults

IsTrue(verdict, rows) ==
  /\ verdict = "FAILED" => \A a \in Accounts : rows[a] # "SENT"
  /\ verdict = "SENT" => \/ \E a \in Accounts : rows[a] = "SENT"
                         \/ \A a \in Accounts : rows[a] # "FAILED"

(* A verdict stays true from the count on: until the next run has written     *)
(* SENDING nobody is marked, and a retry only makes FAILED rows PENDING.      *)
Truthful ==
  /\ IsTrue(campaign.status, recipients)
  /\ \A w \in Workers :
       /\ campaign.status \in {"FAILED", "SENT"} => worker[w].at \in {"idle", "start"}
       /\ worker[w].at = "finish" => IsTrue(worker[w].verdict, recipients)

Alone == Held /\ Answered /\ Truthful

LEMMA InitAlone == Init => Alone
  BY DEF Init, Alone, Held, Answered, Truthful, IsTrue, Recorded, JustSent, Resting

(* What has to be shown of a step of the one worker. *)
LEMMA AloneStep ==
  ASSUME OneWorker, NEW w \in Workers, NEW slot, worker'[w] = slot,
         slot.batch \cup slot.now \subseteq Recorded("PENDING")',
         slot.batch \cap slot.now = {},
         slot.at \notin {"dedupe", "send", "markSent", "markFailed"} => slot.now = {},
         \A a \in Accounts : sent'[a] <= 1 + faults',
         \A a \in Accounts : recipients'[a] # "SENT" /\ ~(slot.at = "markSent" /\ a \in slot.now)
                               => sent'[a] <= faults',
         IsTrue(campaign'.status, recipients'),
         campaign'.status \in {"FAILED", "SENT"} => slot.at \in {"idle", "start"},
         slot.at = "finish" => IsTrue(slot.verdict, recipients')
  PROVE  Alone'
  <1>1. \A v \in Workers : worker'[v] = slot
    BY DEF OneWorker
  <1>2. Held'
    BY <1>1 DEF Held
  <1>3. Answered'
    BY <1>1 DEF Answered, JustSent
  <1>4. Truthful'
    BY <1>1 DEF Truthful
  <1>5. QED
    BY <1>2, <1>3, <1>4 DEF Alone

(* The same for a step that neither sends nor marks, and leaves the campaign  *)
(* as it is.                                                                  *)
LEMMA AloneQuiet ==
  ASSUME IInv, OneWorker, Alone, NEW w \in Workers, NEW slot \in Slots,
         worker' = [worker EXCEPT ![w] = slot],
         worker[w].at \notin {"idle", "start", "markSent"},
         UNCHANGED <<campaign, recipients, sent, faults>>,
         slot.batch \cup slot.now \subseteq Recorded("PENDING"),
         slot.batch \cap slot.now = {},
         slot.at \notin {"dedupe", "send", "markSent", "markFailed"} => slot.now = {},
         slot.at # "finish"
  PROVE  Alone'
  <1>1. worker'[w] = slot
    BY DEF IInv, TypeOK
  <1>2. campaign.status \notin {"FAILED", "SENT"}
    BY DEF Alone, Truthful
  <1>3. /\ Recorded("PENDING")' = Recorded("PENDING")
        /\ IsTrue(campaign'.status, recipients')
    BY <1>2 DEF Recorded, IsTrue
  <1>4. \A a \in Accounts : ~JustSent(a)
    BY DEF OneWorker, JustSent
  <1>5. \A a \in Accounts : sent'[a] <= 1 + faults' /\ (recipients'[a] # "SENT" => sent'[a] <= faults')
    BY <1>4 DEF Alone, Answered
  <1>6. QED
    BY <1>1, <1>2, <1>3, <1>5, AloneStep

LEMMA RoutesAlone ==
  ASSUME IInv, OneWorker, Alone, NEW c \in Calls, Routes(c)
  PROVE  Alone'
  <1>1. UNCHANGED <<worker, sent>>
    BY DEF Routes, Schedule, WriteScheduled, Enqueue, Retry, ResetFailed, Reopen, Requeue,
       Cancel, RemoveJob, WriteCancelled, CallStops, Begin
  <1>2. campaign'.status = campaign.status \/ campaign'.status \notin {"FAILED", "SENT"}
    BY DEF Routes, Schedule, WriteScheduled, Enqueue, Retry, ResetFailed, Reopen, Requeue,
       Cancel, RemoveJob, WriteCancelled, CallStops, Begin, SetStatus, IInv, TypeOK
  <1>3. UNCHANGED faults \/ faults' = faults + 1
    BY DEF Routes, Schedule, WriteScheduled, Enqueue, Retry, ResetFailed, Reopen, Requeue,
       Cancel, RemoveJob, WriteCancelled, CallStops, Begin, Fault
  <1>4. \A a \in Accounts : \/ recipients'[a] = recipients[a]
                            \/ recipients[a] = "FAILED" /\ recipients'[a] = "PENDING"
    <2>1. CASE UNCHANGED recipients
      BY <2>1
    <2>2. CASE ResetFailed(c)
      BY <2>2 DEF ResetFailed, Mark, Recorded
    <2>3. QED
      BY <2>1, <2>2 DEF Routes, Schedule, WriteScheduled, Enqueue, Retry, Reopen, Requeue,
         Cancel, RemoveJob, WriteCancelled, CallStops, Begin
  <1>5. /\ Recorded("PENDING") \subseteq Recorded("PENDING")'
        /\ Recorded("SENT")' = Recorded("SENT")
        /\ Recorded("FAILED")' \subseteq Recorded("FAILED")
    BY <1>4 DEF Recorded
  <1>6. Held'
    BY <1>1, <1>5 DEF Alone, Held
  <1>7. Answered'
    <2>1. \A a \in Accounts : sent[a] \in Nat /\ faults \in Nat
      BY CampaignsAssumption DEF IInv, TypeOK
    <2>2. \A a \in Accounts : JustSent(a)' <=> JustSent(a)
      BY <1>1 DEF JustSent
    <2>3. QED
      BY <1>1, <1>3, <1>4, <2>1, <2>2 DEF Alone, Answered
  <1>8. Truthful'
    <2>1. ASSUME NEW verdict, IsTrue(verdict, recipients)
          PROVE  IsTrue(verdict, recipients')
      <3>1. \A a \in Accounts : /\ recipients'[a] = "SENT" <=> recipients[a] = "SENT"
                                /\ recipients'[a] = "FAILED" => recipients[a] = "FAILED"
        BY <1>4
      <3>2. QED
        BY <2>1, <3>1 DEF IsTrue
    <2>2. IsTrue(campaign'.status, recipients')
      <3>1. CASE campaign'.status = campaign.status
        BY <2>1, <3>1 DEF Alone, Truthful
      <3>2. CASE campaign'.status \notin {"FAILED", "SENT"}
        BY <3>2 DEF IsTrue
      <3>3. QED
        BY <1>2, <3>1, <3>2
    <2>3. ASSUME NEW w \in Workers, worker'[w].at = "finish"
          PROVE  IsTrue(worker'[w].verdict, recipients')
      <3>1. worker'[w] = worker[w]
        BY <1>1
      <3>2. IsTrue(worker[w].verdict, recipients)
        BY <2>3, <3>1 DEF Alone, Truthful
      <3>3. QED
        BY <2>1, <3>1, <3>2
    <2>4. QED
      BY <1>1, <1>2, <2>2, <2>3 DEF Alone, Truthful
  <1>9. QED
    BY <1>6, <1>7, <1>8 DEF Alone

(* Creating, approving, forgetting a job and taking one up touch neither the  *)
(* recipients nor what was sent.                                              *)
LEMMA AsideAlone ==
  ASSUME IInv, Alone,
         UNCHANGED <<worker, recipients, sent, faults>>,
         campaign'.status = campaign.status \/ campaign'.status \notin {"FAILED", "SENT"}
  PROVE  Alone'
  <1>1. Held'
    BY DEF Alone, Held, Recorded
  <1>2. Answered'
    BY DEF Alone, Answered, JustSent
  <1>3. Truthful'
    BY DEF Alone, Truthful, IsTrue, Recorded
  <1>4. QED
    BY <1>1, <1>2, <1>3 DEF Alone

LEMMA PickUpAlone ==
  ASSUME IInv, OneWorker, Alone, NEW w \in Workers, NEW j \in Jobs, PickUp(w, j)
  PROVE  Alone'
  <1>1. UNCHANGED <<recipients, sent, faults>>
    BY DEF PickUp, PickUpUnless
  <1>2. campaign'.status = campaign.status \/ campaign'.status \notin {"FAILED", "SENT"}
    BY DEF PickUp, PickUpUnless, IInv, TypeOK
  <1>3. CASE UNCHANGED worker
    BY <1>1, <1>2, <1>3, AsideAlone
  <1>4. CASE /\ UNCHANGED campaign
             /\ worker' = [worker EXCEPT ![w] = [@ EXCEPT !.job = j, !.at = "start"]]
    <2> DEFINE slot == [Resting EXCEPT !.job = j, !.at = "start"]
    <2>1. worker'[w] = slot
      BY <1>4 DEF PickUp, PickUpUnless, IInv, TypeOK
    <2>2. slot.at = "start" /\ slot.now = {} /\ slot.batch = {}
      BY DEF Resting
    <2>3. \A a \in Accounts : ~JustSent(a)
      BY DEF OneWorker, JustSent, PickUp, PickUpUnless, Resting
    <2>4. \A a \in Accounts : sent'[a] <= 1 + faults' /\ (recipients'[a] # "SENT" => sent'[a] <= faults')
      BY <1>1, <2>3 DEF Alone, Answered
    <2>5. IsTrue(campaign'.status, recipients')
      BY <1>1, <1>4 DEF Alone, Truthful, IsTrue, Recorded
    <2> HIDE DEF slot
    <2>6. QED
      BY <2>1, <2>2, <2>4, <2>5, AloneStep
  <1>5. QED
    BY <1>3, <1>4 DEF PickUp, PickUpUnless

LEMMA StartAlone ==
  ASSUME IInv, OneWorker, Alone, NEW w \in Workers, Start(w)
  PROVE  Alone'
  <1> DEFINE slot == [worker[w] EXCEPT !.at = IF worker[w].job = "main" THEN "materialise"
                                              ELSE "contacts"]
  <1>1. worker \in [Workers -> Slots] /\ worker[w] \in Slots
    BY Types DEF IInv
  <1>2. worker'[w] = slot
    BY <1>1 DEF Start, Goto
  <1>3. /\ slot.at \in {"materialise", "contacts"}
        /\ slot.now = worker[w].now /\ slot.batch = worker[w].batch
    BY <1>1 DEF Slots
  <1>4. UNCHANGED <<recipients, sent, faults>> /\ campaign'.status = "SENDING"
    BY DEF Start, SetStatus, IInv, TypeOK
  <1>5. slot.now = {} /\ slot.batch \subseteq Recorded("PENDING")'
    BY <1>3, <1>4 DEF Start, Alone, Held, Recorded
  <1>6. \A a \in Accounts : ~JustSent(a)
    BY DEF OneWorker, JustSent, Start
  <1>7. \A a \in Accounts : sent'[a] <= 1 + faults' /\ (recipients'[a] # "SENT" => sent'[a] <= faults')
    BY <1>4, <1>6 DEF Alone, Answered
  <1>8. IsTrue(campaign'.status, recipients')
    BY <1>4 DEF IsTrue
  <1> HIDE DEF slot
  <1>9. QED
    BY <1>2, <1>3, <1>4, <1>5, <1>7, <1>8, AloneStep

(* A worker past its start has written SENDING, or a route has written over   *)
(* that: no verdict is on the row to be kept true.                            *)
LEMMA UnderWay ==
  ASSUME IInv, OneWorker, Alone, NEW w \in Workers, worker[w].at \notin {"idle", "start"}
  PROVE  /\ campaign.status \notin {"FAILED", "SENT"}
         /\ campaign' = campaign => IsTrue(campaign'.status, recipients')
         /\ worker[w].at # "markSent" => \A a \in Accounts : ~JustSent(a)
         /\ \A a \in Accounts : JustSent(a) => a \in worker[w].now
         /\ \A a \in Accounts : sent[a] \in Nat
         /\ faults \in Nat
         /\ worker[w] \in Slots /\ worker \in [Workers -> Slots]
  <1>1. campaign.status \notin {"FAILED", "SENT"}
    BY DEF Alone, Truthful
  <1>2. \A a \in Accounts : sent[a] \in Nat
    BY DEF IInv, TypeOK
  <1>3. faults \in Nat
    BY CampaignsAssumption DEF IInv, TypeOK
  <1>4. worker \in [Workers -> Slots] /\ worker[w] \in Slots
    BY Types DEF IInv
  <1>5. QED
    BY <1>1, <1>2, <1>3, <1>4 DEF IsTrue, OneWorker, JustSent

LEMMA MaterialiseAlone ==
  ASSUME IInv, OneWorker, Alone, NEW w \in Workers, Materialise(w)
  PROVE  Alone'
  <1> DEFINE slot == [worker[w] EXCEPT !.at = "contacts"]
  <1>1. worker[w].at \notin {"idle", "start", "markSent"}
    BY DEF Materialise
  <1>2. worker'[w] = slot
    BY <1>1, UnderWay DEF Materialise, Goto
  <1>3. slot.at = "contacts" /\ slot.now = worker[w].now /\ slot.batch = worker[w].batch
    BY <1>1, UnderWay DEF Slots
  <1>4. \A a \in Accounts : \/ recipients'[a] = recipients[a]
                            \/ recipients[a] = "none" /\ recipients'[a] = "PENDING"
    BY DEF Materialise, Mark, Recorded
  <1>5. slot.now = {} /\ slot.batch \subseteq Recorded("PENDING")'
    BY <1>3, <1>4 DEF Materialise, Alone, Held, Recorded
  <1>6. UNCHANGED <<campaign, sent, faults>>
    BY DEF Materialise
  <1>7. \A a \in Accounts : sent'[a] <= 1 + faults' /\ (recipients'[a] # "SENT" => sent'[a] <= faults')
    BY <1>1, <1>4, <1>6, UnderWay DEF Alone, Answered
  <1> HIDE DEF slot
  <1>8. QED
    BY <1>1, <1>2, <1>3, <1>5, <1>6, <1>7, UnderWay, AloneStep

LEMMA ReadContactsAlone ==
  ASSUME IInv, OneWorker, Alone, NEW w \in Workers, ReadContacts(w)
  PROVE  Alone'
  <1>1. worker[w].at \notin {"idle", "start", "markSent"}
    BY DEF ReadContacts
  <1>2. PICK audience \in SUBSET Accounts :
          worker' = [worker EXCEPT ![w] = [@ EXCEPT !.contacts = audience, !.at = "batch"]]
    BY DEF ReadContacts
  <1> DEFINE slot == [worker[w] EXCEPT !.contacts = audience, !.at = "batch"]
  <1>3. slot \in Slots /\ slot.at = "batch" /\ slot.now = worker[w].now /\ slot.batch = worker[w].batch
    BY <1>1, UnderWay DEF Slots
  <1>4. worker' = [worker EXCEPT ![w] = slot]
    BY <1>2
  <1>5. slot.now = {} /\ slot.batch \subseteq Recorded("PENDING")
    BY <1>3 DEF ReadContacts, Alone, Held
  <1>6. UNCHANGED <<campaign, recipients, sent, faults>>
    BY DEF ReadContacts
  <1> HIDE DEF slot
  <1>7. QED
    BY <1>1, <1>3, <1>4, <1>5, <1>6, AloneQuiet

LEMMA ReadBatchAlone ==
  ASSUME IInv, OneWorker, Alone, NEW w \in Workers, ReadBatch(w)
  PROVE  Alone'
  <1>1. worker[w].at \notin {"idle", "start", "markSent"}
    BY DEF ReadBatch
  <1>2. PICK b \in SUBSET Recorded("PENDING") :
          worker' = [worker EXCEPT ![w] = [@ EXCEPT !.batch = b, !.at =
            IF b = {} THEN "count" ELSE IF campaign.channel = "IN_APP" THEN "gone" ELSE "send"]]
    BY DEF ReadBatch
  <1> DEFINE slot == [worker[w] EXCEPT !.batch = b, !.at =
            IF b = {} THEN "count" ELSE IF campaign.channel = "IN_APP" THEN "gone" ELSE "send"]
  <1>3. b \in SUBSET Accounts
    BY DEF Recorded
  <1>4. /\ slot \in Slots /\ slot.at \in {"count", "gone", "send"}
        /\ slot.now = worker[w].now /\ slot.batch = b
    BY <1>1, <1>3, UnderWay DEF Slots
  <1>5. worker' = [worker EXCEPT ![w] = slot]
    BY <1>2
  <1>6. slot.now = {}
    BY <1>4 DEF ReadBatch, Alone, Held
  <1>7. UNCHANGED <<campaign, recipients, sent, faults>>
    BY DEF ReadBatch
  <1> HIDE DEF slot
  <1>8. QED
    BY <1>1, <1>4, <1>5, <1>6, <1>7, AloneQuiet

LEMMA MarkGoneAlone ==
  ASSUME IInv, OneWorker, Alone, NEW w \in Workers, MarkGone(w)
  PROVE  Alone'
  <1> DEFINE deliverable == worker[w].batch \cap worker[w].contacts
             slot == [worker[w] EXCEPT !.batch = {}, !.now = deliverable,
                                       !.at = IF deliverable = {} THEN "batch" ELSE "dedupe"]
  <1>1. worker[w].at = "gone"
    BY DEF MarkGone
  <1>2. worker'[w] = slot
    BY <1>1, UnderWay DEF MarkGone
  <1>3. slot.batch = {} /\ slot.now = deliverable
    BY <1>1, UnderWay DEF Slots
  <1>4. slot.at \in {"batch", "dedupe"} /\ (slot.at # "dedupe" => deliverable = {})
    BY <1>1, UnderWay DEF Slots
  <1>5. /\ UNCHANGED <<campaign, sent, faults>>
        /\ \A a \in Accounts : recipients'[a] =
             IF a \in worker[w].batch \ worker[w].contacts THEN "FAILED" ELSE recipients[a]
    BY DEF MarkGone, Mark
  <1>6. worker[w].batch \subseteq Recorded("PENDING")
    BY DEF Alone, Held
  <1>7. deliverable \subseteq Recorded("PENDING")'
    BY <1>5, <1>6 DEF Recorded
  <1>8. \A a \in Accounts : sent'[a] <= 1 + faults' /\ (recipients'[a] # "SENT" => sent'[a] <= faults')
    BY <1>1, <1>5, <1>6, UnderWay DEF Alone, Answered, Recorded
  <1> HIDE DEF slot
  <1>9. QED
    BY <1>1, <1>2, <1>3, <1>4, <1>5, <1>7, <1>8, UnderWay, AloneStep

LEMMA DedupeAlone ==
  ASSUME IInv, OneWorker, Alone, NEW w \in Workers, Dedupe(w)
  PROVE  Alone'
  <1>1. worker[w].at \notin {"idle", "start", "markSent"}
    BY DEF Dedupe
  <1>2. PICK seen \in SUBSET {a \in worker[w].now : sent[a] > 0} :
          worker' = [worker EXCEPT ![w] = [@ EXCEPT !.skip = seen, !.at = "send"]]
    BY DEF Dedupe
  <1> DEFINE slot == [worker[w] EXCEPT !.skip = seen, !.at = "send"]
  <1>3. seen \in SUBSET Accounts
    BY <1>1, UnderWay DEF Slots
  <1>4. /\ slot \in Slots /\ slot.at = "send"
        /\ slot.now = worker[w].now /\ slot.batch = worker[w].batch
    BY <1>1, <1>3, UnderWay DEF Slots
  <1>5. worker' = [worker EXCEPT ![w] = slot]
    BY <1>2
  <1>6. /\ slot.batch \cup slot.now \subseteq Recorded("PENDING")
        /\ slot.batch \cap slot.now = {}
    BY <1>4 DEF Alone, Held
  <1>7. UNCHANGED <<campaign, recipients, sent, faults>>
    BY DEF Dedupe
  <1> HIDE DEF slot
  <1>8. QED
    BY <1>1, <1>4, <1>5, <1>6, <1>7, AloneQuiet

LEMMA SkipMissingAlone ==
  ASSUME IInv, OneWorker, Alone, NEW w \in Workers, SkipMissing(w)
  PROVE  Alone'
  <1>1. worker[w].at \notin {"idle", "start", "markSent"}
    BY DEF SkipMissing
  <1>2. PICK a \in worker[w].batch \ worker[w].contacts :
          worker' = [worker EXCEPT ![w] =
            [@ EXCEPT !.batch = worker[w].batch \ {a}, !.now = {a}, !.at = "markFailed"]]
    BY DEF SkipMissing
  <1> DEFINE slot == [worker[w] EXCEPT !.batch = worker[w].batch \ {a}, !.now = {a}, !.at = "markFailed"]
  <1>3. /\ slot \in Slots /\ slot.at = "markFailed"
        /\ slot.now = {a} /\ slot.batch = worker[w].batch \ {a}
    <2>1. worker[w] \in Slots
      BY <1>1, UnderWay
    <2>2. QED
      BY <2>1 DEF Slots
  <1>4. worker' = [worker EXCEPT ![w] = slot]
    BY <1>2
  <1>5. /\ slot.batch \cup slot.now \subseteq Recorded("PENDING")
        /\ slot.batch \cap slot.now = {}
    BY <1>3 DEF Alone, Held
  <1>6. UNCHANGED <<campaign, recipients, sent, faults>>
    BY DEF SkipMissing
  <1> HIDE DEF slot
  <1>7. QED
    BY <1>1, <1>3, <1>4, <1>5, <1>6, AloneQuiet

(* A send adds one to whoever is still pending, and so has no more messages   *)
(* than faults: the one that is on its way needs no fault while the worker is *)
(* about to record it, and costs one when the outcome is lost.                *)
LEMMA SendAlone ==
  ASSUME IInv, OneWorker, Alone, NEW w \in Workers, Send(w)
  PROVE  Alone'
  <1>1. worker[w].at = "send"
    BY DEF Send
  <1>2. PICK who \in Addressees(w) :
          \/ Delivered(who \ worker[w].skip) /\ Attempt(w, who, "markSent") /\ UNCHANGED faults
          \/ UNCHANGED <<sent, faults>> /\ Attempt(w, who, "markFailed")
          \/ Fault /\ Delivered(who \ worker[w].skip) /\ Attempt(w, who, "markFailed")
    BY DEF Send
  <1>3. who \subseteq worker[w].batch \cup worker[w].now
    BY DEF Addressees
  <1>4. PICK stage \in {"markSent", "markFailed"} :
          /\ Attempt(w, who, stage)
          /\ \/ Delivered(who \ worker[w].skip) /\ stage = "markSent" /\ UNCHANGED faults
             \/ UNCHANGED <<sent, faults>>
             \/ Delivered(who \ worker[w].skip) /\ faults' = faults + 1
    BY <1>2 DEF Fault
  <1> DEFINE slot == [worker[w] EXCEPT !.batch = worker[w].batch \ who, !.now = who, !.at = stage]
  <1>5. worker'[w] = slot
    BY <1>1, <1>4, UnderWay DEF Attempt
  <1>6. slot.at = stage /\ slot.now = who /\ slot.batch = worker[w].batch \ who
    BY <1>1, UnderWay DEF Slots
  <1>7. UNCHANGED <<campaign, recipients>>
    BY DEF Send
  <1>8. who \subseteq Recorded("PENDING") /\ worker[w].batch \subseteq Recorded("PENDING")
    BY <1>3 DEF Alone, Held
  <1>9. \A a \in Accounts : \/ sent'[a] = sent[a]
                            \/ a \in who /\ sent'[a] = sent[a] + 1
    <2>1. \A a \in Accounts : sent[a] \in Nat
      BY <1>1, UnderWay
    <2>2. QED
      BY <1>4, <2>1 DEF Delivered
  <1>10. \A a \in Accounts : sent[a] <= 1 + faults /\ (recipients[a] # "SENT" => sent[a] <= faults)
    BY <1>1, UnderWay DEF Alone, Answered
  <1>11. \A a \in who : a \in Accounts /\ sent[a] <= faults
    BY <1>8, <1>10 DEF Recorded
  <1>12. faults' \in Nat /\ faults' >= faults
    BY <1>1, <1>4, UnderWay
  <1>13. \A a \in Accounts : sent'[a] <= 1 + faults'
    BY <1>1, <1>9, <1>10, <1>11, <1>12, UnderWay
  <1>14. ASSUME NEW a \in Accounts, recipients'[a] # "SENT", ~(stage = "markSent" /\ a \in who)
         PROVE  sent'[a] <= faults'
    <2>1. sent[a] <= faults
      BY <1>7, <1>10, <1>14
    <2>2. CASE sent'[a] = sent[a]
      BY <1>1, <1>12, <2>1, <2>2, UnderWay
    <2>3. CASE a \in who /\ sent'[a] = sent[a] + 1
      <3>1. sent[a] \in Nat /\ faults \in Nat
        BY <1>1, UnderWay
      <3>2. stage # "markSent" /\ sent'[a] # sent[a]
        BY <1>14, <2>3, <3>1
      <3>3. faults' = faults + 1
        BY <1>4, <3>2
      <3>4. QED
        BY <2>1, <2>3, <3>1, <3>3
    <2>4. QED
      BY <1>9, <2>2, <2>3
  <1>15. Recorded("PENDING")' = Recorded("PENDING")
    BY <1>7 DEF Recorded
  <1>16. campaign'.status \notin {"FAILED", "SENT"} /\ IsTrue(campaign'.status, recipients')
    BY <1>1, <1>7, UnderWay
  <1> HIDE DEF slot
  <1>17. QED
    BY <1>5, <1>6, <1>8, <1>13, <1>14, <1>15, <1>16, AloneStep

LEMMA MarkSentAlone ==
  ASSUME IInv, OneWorker, Alone, NEW w \in Workers, MarkSent(w)
  PROVE  Alone'
  <1>1. worker[w].at = "markSent"
    BY DEF MarkSent
  <1>2. UNCHANGED <<campaign, sent>>
    BY DEF MarkSent
  <1>3. campaign'.status \notin {"FAILED", "SENT"} /\ IsTrue(campaign'.status, recipients')
    BY <1>1, <1>2, UnderWay
  <1>4. \A a \in Accounts : sent[a] <= 1 + faults
    BY DEF Alone, Answered
  <1>5. /\ worker[w].batch \cup worker[w].now \subseteq Recorded("PENDING")
        /\ worker[w].batch \cap worker[w].now = {}
    BY DEF Alone, Held
  <1>6. \A a \in Accounts : sent[a] \in Nat /\ faults \in Nat
    BY <1>1, UnderWay
  <1>7. CASE Mark(worker[w].now, "SENT") /\ AfterMark(w) /\ UNCHANGED faults
    <2> DEFINE slot == [worker[w] EXCEPT !.now = {}, !.skip = {},
                           !.at = IF worker[w].batch = {} THEN "batch" ELSE "send"]
    <2>1. worker'[w] = slot
      BY <1>1, <1>7, UnderWay DEF AfterMark
    <2>2. slot.at \in {"batch", "send"} /\ slot.now = {} /\ slot.batch = worker[w].batch
      BY <1>1, UnderWay DEF Slots
    <2>3. slot.batch \subseteq Recorded("PENDING")'
      BY <1>5, <1>7, <2>2 DEF Mark, Recorded
    <2>4. \A a \in Accounts : recipients'[a] # "SENT" => sent'[a] <= faults'
      <3>1. \A a \in Accounts : recipients'[a] # "SENT" => recipients[a] # "SENT" /\ a \notin worker[w].now
        BY <1>7 DEF Mark
      <3>2. QED
        BY <1>1, <1>2, <1>7, <3>1, UnderWay DEF Alone, Answered
    <2> HIDE DEF slot
    <2>5. QED
      BY <1>2, <1>3, <1>4, <1>7, <2>1, <2>2, <2>3, <2>4, AloneStep
  <1>8. CASE Fault /\ Goto(w, "markFailed") /\ UNCHANGED recipients
    <2> DEFINE slot == [worker[w] EXCEPT !.at = "markFailed"]
    <2>1. worker'[w] = slot
      BY <1>1, <1>8, UnderWay DEF Goto
    <2>2. slot.at = "markFailed" /\ slot.now = worker[w].now /\ slot.batch = worker[w].batch
      BY <1>1, UnderWay DEF Slots
    <2>3. faults' = faults + 1
      BY <1>8 DEF Fault
    <2>4. \A a \in Accounts : sent'[a] <= faults' /\ sent'[a] <= 1 + faults'
      BY <1>2, <1>4, <1>6, <2>3
    <2>5. Recorded("PENDING")' = Recorded("PENDING")
      BY <1>8 DEF Recorded
    <2> HIDE DEF slot
    <2>6. QED
      BY <1>3, <1>5, <2>1, <2>2, <2>4, <2>5, AloneStep
  <1>9. QED
    BY <1>7, <1>8 DEF MarkSent

LEMMA MarkFailedAlone ==
  ASSUME IInv, OneWorker, Alone, NEW w \in Workers, MarkFailed(w)
  PROVE  Alone'
  <1> DEFINE slot == [worker[w] EXCEPT !.now = {}, !.skip = {},
                         !.at = IF worker[w].batch = {} THEN "batch" ELSE "send"]
  <1>1. worker[w].at = "markFailed"
    BY DEF MarkFailed
  <1>2. worker'[w] = slot
    BY <1>1, UnderWay DEF MarkFailed, AfterMark
  <1>3. slot.at \in {"batch", "send"} /\ slot.now = {} /\ slot.batch = worker[w].batch
    BY <1>1, UnderWay DEF Slots
  <1>4. UNCHANGED <<campaign, sent, faults>>
    BY DEF MarkFailed
  <1>5. \A a \in Accounts : recipients'[a] = IF a \in worker[w].now THEN "FAILED" ELSE recipients[a]
    BY DEF MarkFailed, Mark
  <1>6. slot.batch \subseteq Recorded("PENDING")'
    BY <1>3, <1>5 DEF Alone, Held, Recorded
  <1>7. worker[w].now \subseteq Recorded("PENDING")
    BY DEF Alone, Held
  <1>8. \A a \in Accounts : sent'[a] <= 1 + faults' /\ (recipients'[a] # "SENT" => sent'[a] <= faults')
    BY <1>1, <1>4, <1>5, <1>7, UnderWay DEF Alone, Answered, Recorded
  <1> HIDE DEF slot
  <1>9. QED
    BY <1>1, <1>2, <1>3, <1>4, <1>6, <1>8, UnderWay, AloneStep

(* The count is true of the recipients it has read. *)
LEMMA CountAlone ==
  ASSUME IInv, OneWorker, Alone, NEW w \in Workers, Count(w)
  PROVE  Alone'
  <1> DEFINE verdict == IF Recorded("SENT") = {} /\ Recorded("FAILED") # {} THEN "FAILED" ELSE "SENT"
             slot == [worker[w] EXCEPT !.at = "finish", !.verdict = verdict]
  <1>1. worker[w].at = "count"
    BY DEF Count
  <1>2. UNCHANGED <<campaign, recipients, sent, faults>>
    BY DEF Count
  <1>3. IsTrue(verdict, recipients)
    BY DEF IsTrue, Recorded
  <1>4. worker'[w] = slot
    BY <1>1, UnderWay DEF Count
  <1> HIDE DEF verdict
  <1>5. /\ slot.at = "finish" /\ slot.verdict = verdict
        /\ slot.now = worker[w].now /\ slot.batch = worker[w].batch
    BY <1>1, UnderWay DEF Slots
  <1>6. slot.now = {} /\ slot.batch \subseteq Recorded("PENDING")'
    BY <1>1, <1>2, <1>5 DEF Alone, Held, Recorded
  <1>7. \A a \in Accounts : sent'[a] <= 1 + faults' /\ (recipients'[a] # "SENT" => sent'[a] <= faults')
    BY <1>1, <1>2, UnderWay DEF Alone, Answered
  <1>8. IsTrue(slot.verdict, recipients')
    BY <1>2, <1>3, <1>5
  <1>9. campaign'.status \notin {"FAILED", "SENT"} /\ IsTrue(campaign'.status, recipients')
    BY <1>1, <1>2, UnderWay
  <1> HIDE DEF slot
  <1>10. QED
    BY <1>4, <1>5, <1>6, <1>7, <1>8, <1>9, AloneStep

(* The end of a run: the verdict is still true when it is written, and a run  *)
(* that is cut short has a fault to answer for a message it leaves unmarked.  *)
LEMMA EndAlone ==
  ASSUME IInv, OneWorker, Alone, NEW w \in Workers, Finish(w) \/ WorkerStops(w)
  PROVE  Alone'
  <1>1. worker'[w] = Resting
    <2>1. worker \in [Workers -> Slots]
      BY Types DEF IInv
    <2>2. QED
      BY <2>1 DEF Finish, WorkerStops
  <1>2. Resting.at = "idle" /\ Resting.now = {} /\ Resting.batch = {}
    BY DEF Resting
  <1>3. UNCHANGED <<recipients, sent>>
    BY DEF Finish, WorkerStops
  <1>4. \A a \in Accounts : sent[a] \in Nat /\ faults \in Nat
    BY CampaignsAssumption DEF IInv, TypeOK
  <1>5. \A a \in Accounts : sent[a] <= 1 + faults
    BY DEF Alone, Answered
  <1>6. \A a \in Accounts : sent'[a] <= 1 + faults' /\ (recipients'[a] # "SENT" => sent'[a] <= faults')
    <2>1. CASE faults' = faults + 1
      BY <1>3, <1>4, <1>5, <2>1
    <2>2. CASE Finish(w) /\ UNCHANGED faults
      <3>1. \A a \in Accounts : ~JustSent(a)
        BY <2>2 DEF OneWorker, JustSent, Finish
      <3>2. QED
        BY <1>3, <2>2, <3>1 DEF Alone, Answered
    <2>3. QED
      BY <2>1, <2>2 DEF Finish, WorkerStops, CutShort, Fault
  <1>7. IsTrue(campaign'.status, recipients')
    <2>1. CASE Finish(w)
      <3>1. IsTrue(worker[w].verdict, recipients)
        BY <2>1 DEF Finish, Alone, Truthful
      <3>2. campaign'.status = worker[w].verdict
        BY <2>1 DEF Finish, SetStatus, IInv, TypeOK
      <3>3. QED
        BY <1>3, <3>1, <3>2 DEF IsTrue, Recorded
    <2>2. CASE WorkerStops(w)
      BY <1>3, <2>2 DEF WorkerStops, Alone, Truthful, IsTrue, Recorded
    <2>3. QED
      BY <2>1, <2>2
  <1>8. QED
    BY <1>1, <1>2, <1>6, <1>7, AloneStep

--------------------------------------------------------------------------------
LEMMA NextAlone ==
  ASSUME IInv, OneWorker, Alone, [Next]_vars
  PROVE  Alone'
  <1>1. CASE JobForgotten \/ Approve
    <2>1. UNCHANGED <<worker, recipients, sent, faults>> /\ campaign'.status = campaign.status
      BY <1>1 DEF JobForgotten, Approve, IInv, TypeOK
    <2>2. QED
      BY <2>1, AsideAlone
  <1>2. CASE \E channel \in {"EMAIL", "IN_APP"}, audience \in SUBSET Accounts :
               Create(channel, audience)
    <2>1. UNCHANGED <<worker, recipients, sent, faults>> /\ campaign'.status \notin {"FAILED", "SENT"}
      BY <1>2 DEF Create
    <2>2. QED
      BY <2>1, AsideAlone
  <1>3. CASE \E c \in Calls : Routes(c)
    BY <1>3, RoutesAlone
  <1>4. ASSUME NEW w \in Workers, Run(w)
        PROVE  Alone'
    <2>1. CASE Start(w) \/ Materialise(w) \/ ReadContacts(w) \/ ReadBatch(w)
      BY <2>1, StartAlone, MaterialiseAlone, ReadContactsAlone, ReadBatchAlone
    <2>2. CASE MarkGone(w) \/ Dedupe(w) \/ SkipMissing(w)
      BY <2>2, MarkGoneAlone, DedupeAlone, SkipMissingAlone
    <2>3. CASE Send(w) \/ MarkSent(w) \/ MarkFailed(w)
      BY <2>3, SendAlone, MarkSentAlone, MarkFailedAlone
    <2>4. CASE Count(w) \/ Finish(w)
      BY <2>4, CountAlone, EndAlone
    <2>5. QED
      BY <1>4, <2>1, <2>2, <2>3, <2>4 DEF Run
  <1>5. CASE \E w \in Workers : WorkerStops(w)
    BY <1>5, EndAlone
  <1>6. CASE \E w \in Workers, j \in Jobs : PickUp(w, j)
    BY <1>6, PickUpAlone
  <1>7. CASE UNCHANGED vars
    BY <1>7, AsideAlone DEF vars
  <1>8. QED
    BY <1>1, <1>2, <1>3, <1>4, <1>5, <1>6, <1>7 DEF Next

--------------------------------------------------------------------------------
(* In-app, a batch is dealt with as a whole, and whom it is about to be sent  *)
(* to again were overlooked when deliver looked for them.                     *)
InOneGo(slot) ==
  slot.at \in {"dedupe", "send", "markSent", "markFailed"} => slot.batch = {} /\ slot.now # {}

Looked(slot) ==
  slot.at = "send" => \A a \in slot.now \ slot.skip : sent[a] > 0 => a \in overlooked

Missed ==
  campaign.channel = "IN_APP" =>
    /\ \A a \in Accounts : sent[a] > 1 => a \in overlooked
    /\ \A w \in Workers : InOneGo(worker[w]) /\ Looked(worker[w])

LEMMA InitMissed == Init => Missed
  BY DEF Init, Missed, InOneGo, Looked, Resting

(* The steps beside the worker: the channel is chosen once, before anything   *)
(* is sent.                                                                   *)
LEMMA AsideMissed ==
  ASSUME Missed, UNCHANGED <<worker, sent, overlooked>>, campaign'.channel = campaign.channel
  PROVE  Missed'
  BY DEF Missed, InOneGo, Looked

LEMMA CreateMissed ==
  ASSUME IInv, NEW channel \in {"EMAIL", "IN_APP"}, NEW audience \in SUBSET Accounts,
         Create(channel, audience)
  PROVE  Missed'
  <1>1. /\ \A w \in Workers : worker[w] = Resting
        /\ \A a \in Accounts : sent[a] = 0
        /\ UNCHANGED <<worker, sent>>
    BY DEF Create, IInv, Untouched
  <1>2. \A w \in Workers : worker'[w].at = "idle"
    BY <1>1 DEF Resting
  <1>3. QED
    BY <1>1, <1>2 DEF Missed, InOneGo, Looked

(* What has to be shown of a step of the one worker. *)
LEMMA MissedStep ==
  ASSUME OneWorker, NEW w \in Workers, NEW slot, worker'[w] = slot,
         campaign.channel = "IN_APP" =>
           /\ \A a \in Accounts : sent'[a] > 1 => a \in overlooked'
           /\ InOneGo(slot)
           /\ slot.at = "send" =>
                \A a \in slot.now \ slot.skip : sent'[a] > 0 => a \in overlooked',
         campaign'.channel = campaign.channel
  PROVE  Missed'
  <1>1. \A v \in Workers : worker'[v] = slot
    BY DEF OneWorker
  <1>2. QED
    BY <1>1 DEF Missed, InOneGo, Looked

(* A step that ends beside the sending leaves nothing to look for. *)
LEMMA MissedElsewhere ==
  ASSUME IInv, OneWorker, Missed, NEW w \in Workers, NEW slot, worker'[w] = slot,
         slot.at \notin {"dedupe", "send", "markSent", "markFailed"},
         UNCHANGED <<sent, overlooked>>, campaign'.channel = campaign.channel
  PROVE  Missed'
  <1>1. campaign.channel = "IN_APP" =>
           /\ \A a \in Accounts : sent'[a] > 1 => a \in overlooked'
           /\ InOneGo(slot)
           /\ slot.at = "send" =>
                \A a \in slot.now \ slot.skip : sent'[a] > 0 => a \in overlooked'
    BY DEF Missed, InOneGo
  <1>2. QED
    BY <1>1, MissedStep

LEMMA ElsewhereMissed ==
  ASSUME IInv, OneWorker, Missed, NEW w \in Workers,
         \/ Start(w) \/ Materialise(w) \/ ReadContacts(w)
         \/ Count(w) \/ Finish(w) \/ WorkerStops(w)
  PROVE  Missed'
  <1>1. worker \in [Workers -> Slots] /\ worker[w] \in Slots
    BY Types DEF IInv
  <1>2. UNCHANGED <<sent, overlooked>> /\ campaign'.channel = campaign.channel
    BY DEF Start, Materialise, ReadContacts, Count, Finish, WorkerStops, SetStatus, IInv, TypeOK
  <1>3. worker'[w].at \notin {"dedupe", "send", "markSent", "markFailed"}
    <2>1. CASE Start(w) \/ Materialise(w)
      BY <1>1, <2>1 DEF Start, Materialise, Goto, Slots
    <2>2. CASE ReadContacts(w)
      <3>1. PICK audience : worker' = [worker EXCEPT ![w] = [@ EXCEPT !.contacts = audience, !.at = "batch"]]
        BY <2>2 DEF ReadContacts
      <3>2. worker'[w].at = "batch"
        BY <1>1, <3>1 DEF Slots
      <3>3. QED
        BY <3>2
    <2>5. CASE Count(w)
      <3>1. PICK verdict : worker' = [worker EXCEPT ![w] = [@ EXCEPT !.at = "finish", !.verdict = verdict]]
        BY <2>5 DEF Count
      <3>2. QED
        BY <1>1, <3>1 DEF Slots
    <2>3. CASE Finish(w) \/ WorkerStops(w)
      BY <1>1, <2>3 DEF Finish, WorkerStops, Resting
    <2>4. QED
      BY <2>1, <2>2, <2>3, <2>5
  <1>4. QED
    BY <1>2, <1>3, MissedElsewhere

LEMMA ReadBatchMissed ==
  ASSUME IInv, OneWorker, Missed, NEW w \in Workers, ReadBatch(w)
  PROVE  Missed'
  <1>1. worker[w] \in Slots /\ worker \in [Workers -> Slots]
    BY Types DEF IInv
  <1>2. PICK b \in SUBSET Recorded("PENDING") :
          worker' = [worker EXCEPT ![w] = [@ EXCEPT !.batch = b, !.at =
            IF b = {} THEN "count" ELSE IF campaign.channel = "IN_APP" THEN "gone" ELSE "send"]]
    BY DEF ReadBatch
  <1>3. campaign.channel = "IN_APP" => worker'[w].at \in {"count", "gone"}
    BY <1>1, <1>2 DEF Slots
  <1>4. UNCHANGED <<campaign, sent, overlooked>>
    BY DEF ReadBatch
  <1>5. CASE campaign.channel = "IN_APP"
    BY <1>3, <1>4, <1>5, MissedElsewhere
  <1>6. CASE campaign.channel # "IN_APP"
    BY <1>4, <1>6 DEF Missed
  <1>7. QED
    BY <1>5, <1>6

LEMMA MarkGoneMissed ==
  ASSUME IInv, OneWorker, Missed, NEW w \in Workers, MarkGone(w)
  PROVE  Missed'
  <1>1. worker[w] \in Slots /\ worker \in [Workers -> Slots]
    BY Types DEF IInv
  <1>2. PICK deliverable : worker' = [worker EXCEPT ![w] = [@ EXCEPT !.batch = {}, !.now = deliverable,
                                        !.at = IF deliverable = {} THEN "batch" ELSE "dedupe"]]
    BY DEF MarkGone
  <1>3. UNCHANGED <<campaign, sent, overlooked>>
    BY DEF MarkGone
  <1>4. InOneGo(worker'[w]) /\ worker'[w].at # "send"
    BY <1>1, <1>2 DEF InOneGo, Slots
  <1>5. campaign.channel = "IN_APP" => \A a \in Accounts : sent'[a] > 1 => a \in overlooked'
    BY <1>3 DEF Missed
  <1>6. QED
    BY <1>3, <1>4, <1>5, MissedStep

(* deliver's look: whoever has the notification is skipped or overlooked. *)
LEMMA DedupeMissed ==
  ASSUME IInv, OneWorker, Missed, NEW w \in Workers, Dedupe(w)
  PROVE  Missed'
  <1>1. worker[w] \in Slots /\ worker \in [Workers -> Slots] /\ worker[w].at = "dedupe"
    BY Types DEF IInv, Dedupe
  <1>2. PICK seen \in SUBSET {a \in worker[w].now : sent[a] > 0} :
          /\ worker' = [worker EXCEPT ![w] = [@ EXCEPT !.skip = seen, !.at = "send"]]
          /\ overlooked' = overlooked \cup ({a \in worker[w].now : sent[a] > 0} \ seen)
    BY DEF Dedupe
  <1>3. UNCHANGED <<campaign, sent>>
    BY DEF Dedupe
  <1>4. /\ worker'[w].at = "send" /\ worker'[w].skip = seen
        /\ worker'[w].now = worker[w].now /\ worker'[w].batch = worker[w].batch
    BY <1>1, <1>2 DEF Slots
  <1>5. campaign.channel = "IN_APP" =>
           /\ \A a \in Accounts : sent'[a] > 1 => a \in overlooked'
           /\ InOneGo(worker'[w])
    BY <1>1, <1>2, <1>3, <1>4 DEF Missed, InOneGo
  <1>6. \A a \in worker'[w].now \ worker'[w].skip : sent'[a] > 0 => a \in overlooked'
    BY <1>2, <1>3, <1>4
  <1>7. QED
    BY <1>3, <1>5, <1>6, MissedStep

(* Email's way with a missing address is closed to an in-app batch. *)
LEMMA SkipMissingMissed ==
  ASSUME IInv, OneWorker, Missed, NEW w \in Workers, SkipMissing(w)
  PROVE  Missed'
  <1>1. campaign.channel # "IN_APP" /\ UNCHANGED campaign
    BY DEF SkipMissing, Missed, InOneGo
  <1>2. QED
    BY <1>1 DEF Missed

(* Whoever gets a second notification was not found when deliver looked. *)
LEMMA SendMissed ==
  ASSUME IInv, OneWorker, Missed, NEW w \in Workers, Send(w)
  PROVE  Missed'
  <1>1. /\ worker[w] \in Slots /\ worker \in [Workers -> Slots] /\ worker[w].at = "send"
        /\ sent \in [Accounts -> Nat]
    BY Types DEF IInv, Send, TypeOK
  <1>2. UNCHANGED <<campaign, overlooked>>
    BY DEF Send
  <1>3. CASE campaign.channel # "IN_APP"
    BY <1>2, <1>3 DEF Missed
  <1>4. CASE campaign.channel = "IN_APP"
    <2>1. /\ worker[w].batch = {} /\ worker[w].now # {}
          /\ \A a \in worker[w].now \ worker[w].skip : sent[a] > 0 => a \in overlooked
          /\ \A a \in Accounts : sent[a] > 1 => a \in overlooked
      BY <1>1, <1>4 DEF Missed, InOneGo, Looked
    <2>2. PICK who \in Addressees(w), stage \in {"markSent", "markFailed"} :
            /\ Attempt(w, who, stage)
            /\ Delivered(who \ worker[w].skip) \/ UNCHANGED sent
      BY DEF Send
    <2>3. who = worker[w].now
      BY <2>1 DEF Addressees
    <2>4. /\ worker'[w].batch = {} /\ worker'[w].now # {} /\ worker'[w].at = stage
      BY <1>1, <2>1, <2>2, <2>3 DEF Attempt, Slots
    <2>5. ASSUME NEW a \in Accounts, sent'[a] > 1
          PROVE  a \in overlooked
      <3>1. sent[a] \in Nat
        BY <1>1
      <3>2. sent'[a] = sent[a] \/ (sent'[a] = sent[a] + 1 /\ a \in who \ worker[w].skip)
        BY <1>1, <2>2, <3>1 DEF Delivered
      <3>3. sent[a] > 1 \/ (sent[a] > 0 /\ a \in who \ worker[w].skip)
        BY <2>5, <3>1, <3>2
      <3>4. QED
        BY <2>1, <2>3, <3>3
    <2>6. InOneGo(worker'[w]) /\ worker'[w].at # "send"
      BY <2>4 DEF InOneGo
    <2>7. QED
      BY <1>2, <2>5, <2>6, MissedStep
  <1>5. QED
    BY <1>3, <1>4

LEMMA MarkMissed ==
  ASSUME IInv, OneWorker, Missed, NEW w \in Workers, MarkSent(w) \/ MarkFailed(w)
  PROVE  Missed'
  <1>1. /\ worker[w] \in Slots /\ worker \in [Workers -> Slots]
        /\ worker[w].at \in {"markSent", "markFailed"}
    BY Types DEF IInv, MarkSent, MarkFailed
  <1>2. UNCHANGED <<campaign, sent, overlooked>>
    BY DEF MarkSent, MarkFailed
  <1>3. CASE campaign.channel # "IN_APP"
    BY <1>2, <1>3 DEF Missed
  <1>4. CASE campaign.channel = "IN_APP"
    <2>1. worker[w].batch = {} /\ worker[w].now # {}
      BY <1>1, <1>4 DEF Missed, InOneGo
    <2>2. CASE AfterMark(w)
      <3>1. worker'[w].at = "batch"
        BY <1>1, <2>1, <2>2 DEF AfterMark, Slots
      <3>2. QED
        BY <1>2, <3>1, MissedElsewhere
    <2>3. CASE Goto(w, "markFailed")
      <3>1. /\ worker'[w].at = "markFailed"
            /\ worker'[w].batch = {} /\ worker'[w].now # {}
        BY <1>1, <2>1, <2>3 DEF Goto, Slots
      <3>2. InOneGo(worker'[w]) /\ worker'[w].at # "send"
        BY <3>1 DEF InOneGo
      <3>3. campaign.channel = "IN_APP" => \A a \in Accounts : sent'[a] > 1 => a \in overlooked'
        BY <1>2 DEF Missed
      <3>4. QED
        BY <1>2, <3>2, <3>3, MissedStep
    <2>4. QED
      BY <2>2, <2>3 DEF MarkSent, MarkFailed
  <1>5. QED
    BY <1>3, <1>4

LEMMA PickUpMissed ==
  ASSUME IInv, OneWorker, Missed, NEW w \in Workers, NEW j \in Jobs, PickUp(w, j)
  PROVE  Missed'
  <1>1. UNCHANGED <<sent, overlooked>> /\ campaign'.channel = campaign.channel
    BY DEF PickUp, PickUpUnless, IInv, TypeOK
  <1>2. CASE UNCHANGED worker
    BY <1>1, <1>2, AsideMissed
  <1>3. CASE worker' = [worker EXCEPT ![w] = [@ EXCEPT !.job = j, !.at = "start"]]
    <2>1. worker[w] \in Slots /\ worker \in [Workers -> Slots]
      BY Types DEF IInv
    <2>2. worker'[w].at = "start"
      BY <1>3, <2>1 DEF Slots
    <2>3. QED
      BY <1>1, <2>2, MissedElsewhere
  <1>4. QED
    BY <1>2, <1>3 DEF PickUp, PickUpUnless

LEMMA NextMissed ==
  ASSUME IInv, OneWorker, Missed, [Next]_vars
  PROVE  Missed'
  <1>1. CASE JobForgotten \/ Approve \/ (\E c \in Calls : Routes(c)) \/ UNCHANGED vars
    <2>1. UNCHANGED <<worker, sent, overlooked>> /\ campaign'.channel = campaign.channel
      BY <1>1 DEF JobForgotten, Approve, Routes, Schedule, WriteScheduled, Enqueue, Retry,
         ResetFailed, Reopen, Requeue, Cancel, RemoveJob, WriteCancelled, CallStops, Begin,
         SetStatus, vars, IInv, TypeOK
    <2>2. QED
      BY <2>1, AsideMissed
  <1>2. CASE \E channel \in {"EMAIL", "IN_APP"}, audience \in SUBSET Accounts :
               Create(channel, audience)
    BY <1>2, CreateMissed
  <1>3. ASSUME NEW w \in Workers, Run(w) \/ WorkerStops(w)
        PROVE  Missed'
    <2>1. CASE Start(w) \/ Materialise(w) \/ ReadContacts(w) \/ Count(w) \/ Finish(w) \/ WorkerStops(w)
      BY <2>1, ElsewhereMissed
    <2>2. CASE ReadBatch(w) \/ MarkGone(w) \/ Dedupe(w) \/ SkipMissing(w)
      BY <2>2, ReadBatchMissed, MarkGoneMissed, DedupeMissed, SkipMissingMissed
    <2>3. CASE Send(w) \/ MarkSent(w) \/ MarkFailed(w)
      BY <2>3, SendMissed, MarkMissed
    <2>4. QED
      BY <1>3, <2>1, <2>2, <2>3 DEF Run
  <1>4. CASE \E w \in Workers, j \in Jobs : PickUp(w, j)
    BY <1>4, PickUpMissed
  <1>5. QED
    BY <1>1, <1>2, <1>3, <1>4 DEF Next

(* What an instance on its own keeps: its batch stays pending, a message that *)
(* may be sent again has a fault behind it, and in-app a look that missed it, *)
(* and a verdict stays true.                                                  *)
THEOREM InvarianceAlone == OneWorker => (Spec => [](IInv /\ Alone /\ Missed))
  <1> SUFFICES ASSUME OneWorker PROVE Spec => [](IInv /\ Alone /\ Missed)
    OBVIOUS
  <1>1. Init => IInv /\ Alone /\ Missed
    BY InitInv, InitAlone, InitMissed
  <1>2. IInv /\ Alone /\ Missed /\ [Next]_vars => (IInv /\ Alone /\ Missed)'
    BY NextInv, NextAlone, NextMissed
  <1>3. QED
    BY <1>1, <1>2, PTL DEF Spec

(* With one instance at work no account gets a campaign more than once beyond *)
(* the faults there were, nor a second notification of it unless a look has   *)
(* missed the first, whatever retries, re-schedules and cancels run into it   *)
(* (retry of campaigns.service.ts, the loop of campaign.processor.ts,         *)
(* deliver of in-app-delivery.service.ts).                                    *)
THEOREM OncePerFault == OneWorker => (Spec => []OnceUnlessInDoubt)
  <1> SUFFICES ASSUME OneWorker PROVE Spec => []OnceUnlessInDoubt
    OBVIOUS
  <1>1. IInv /\ Alone /\ Missed => OnceUnlessInDoubt
    BY DEF Alone, Answered, Missed, OnceUnlessInDoubt
  <1>2. Spec => [](IInv /\ Alone /\ Missed)
    BY InvarianceAlone
  <1>3. QED
    BY <1>1, <1>2, PTL

(* With one instance at work a campaign that says FAILED has reached nobody,  *)
(* and one that says SENT somebody, or failed nobody (the recount at the end  *)
(* of campaign.processor.ts's run) - also while routes are under way.         *)
THEOREM StatusTruthful == OneWorker => (Spec => []StatusIsTrue)
  <1> SUFFICES ASSUME OneWorker PROVE Spec => []StatusIsTrue
    OBVIOUS
  <1>1. IInv /\ Alone => StatusIsTrue
    BY DEF Alone, Truthful, IsTrue, StatusIsTrue, Recorded
  <1>2. Spec => [](IInv /\ Alone /\ Missed)
    BY InvarianceAlone
  <1>3. QED
    BY <1>1, <1>2, PTL

================================================================================
