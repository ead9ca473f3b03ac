---------------------------- MODULE SenderIdReviews ----------------------------
(***************************************************************************)
(* The sender-ID compliance queue, for one application                     *)
(* (modules/sender-ids/sender-ids.service.ts, sender-id-state.ts).          *)
(*                                                                         *)
(* The application is the product's row.  The console reads it from a       *)
(* replica that lags, writes decisions to the primary, and keeps a review   *)
(* row of its own that follows: decide updates it after the product, and a  *)
(* sync every ten minutes repairs what drifted.  Workers are the maintenance *)
(* workers of the console's instances; each runs one sync at a time         *)
(* (modules/jobs/maintenance.processor.ts).  Assignees and the SLA clock    *)
(* are left out.  What the customer and the product do to the row on their  *)
(* own is modelled from sender-ids.service.ts (193-196, 707-709).           *)
(***************************************************************************)
EXTENDS Naturals

CONSTANTS Items,       \* the checklist
          Decisions,   \* calls of decide
          Workers,     \* maintenance workers, one per instance
          MaxFilings   \* bound on how often the customer submits the application

ASSUME SenderIdAssumption == MaxFilings \in Nat

VARIABLES app,      \* the status in the product's row
          filings,  \* how often the customer has submitted the application
          replica,  \* what zapiack.read shows of it
          review,   \* the console's review row with its checklist
          ticked,   \* history: items checked since the last filing
          noted,    \* history: the last filing found no review waiting
          decide,   \* where each decision is (latest: history, no filing since its first read)
          job       \* what each worker is doing

vars == <<app, filings, replica, review, ticked, noted, decide, job>>

ProductStatus == {"DRAFT", "PENDING_REVIEW", "APPROVED", "REJECTED"}
ReviewStatus == {"SUBMITTED", "APPROVED", "REJECTED"}

Blank == [i \in Items |-> "blank"]

NoReview == [exists |-> FALSE, status |-> "SUBMITTED", items |-> Blank]

Closed == [at |-> "done", decision |-> "APPROVED", from |-> "DRAFT", latest |-> FALSE]

Undecided == [at |-> "new", decision |-> "APPROVED", from |-> "DRAFT", latest |-> FALSE]

Resting == [at |-> "idle", app |-> "DRAFT", review |-> "none"]

TypeOK ==
  /\ app \in ProductStatus /\ replica \in ProductStatus /\ filings \in 0..MaxFilings
  /\ review \in [exists : BOOLEAN, status : ReviewStatus, items : [Items -> {"blank", "passed", "failed"}]]
  /\ ticked \subseteq Items /\ noted \in BOOLEAN
  /\ decide \in [Decisions -> [at : {"new", "live", "product", "review", "done"},
                               decision : {"APPROVED", "REJECTED"}, from : ProductStatus,
                               latest : BOOLEAN]]
  /\ job \in [Workers -> [at : {"idle", "app", "review", "both", "ensure", "create"},
                          app : ProductStatus, review : ReviewStatus \cup {"none"}]]

Init ==
  /\ app = "DRAFT" /\ filings = 0
  /\ replica = app
  /\ review = NoReview
  /\ ticked = {} /\ noted = FALSE
  /\ decide = [d \in Decisions |-> Undecided]
  /\ job = [w \in Workers |-> Resting]

--------------------------------------------------------------------------------
(* The status a review gets for a product status, and the other way round. *)
toReviewStatus(status) ==
  CASE status = "PENDING_REVIEW" -> "SUBMITTED"
    [] status = "DRAFT"          -> "none"
    [] OTHER                     -> status

presentStatus(status) == IF status = "SUBMITTED" THEN "PENDING_REVIEW" ELSE status

Decided(status) == status \in {"APPROVED", "REJECTED"}

(* The customer's app and the product. *)
CustomerSubmits ==
  /\ app \in {"DRAFT", "REJECTED"} /\ filings < MaxFilings
  /\ app' = "PENDING_REVIEW" /\ filings' = filings + 1
  /\ ticked' = {} /\ noted' = (~review.exists \/ Decided(review.status))
  /\ decide' = [d \in Decisions |-> [decide[d] EXCEPT !.latest = FALSE]]
  /\ UNCHANGED <<replica, review, job>>

ProductMoves ==
  /\ app = "PENDING_REVIEW"
  /\ app' \in {"DRAFT", "APPROVED", "REJECTED"}
  /\ UNCHANGED <<filings, replica, review, ticked, noted, decide, job>>

Replicate ==
  /\ replica # app
  /\ replica' = app
  /\ UNCHANGED <<app, filings, review, ticked, noted, decide, job>>

(* A reviewer ticks an item, at any time and whatever the status. *)
updateChecklist(i, mark) ==
  /\ review.exists
  /\ review' = [review EXCEPT !.items[i] = mark]
  /\ ticked' = ticked \cup {i}
  /\ UNCHANGED <<app, filings, replica, noted, decide, job>>

(* decide, first read: the review and its checklist.  A refusal has its     *)
(* reason, or the call ends here.                                           *)
DecideReadsReview(d, decision) ==
  /\ decide[d].at = "new" /\ review.exists
  /\ review.status # decision
  /\ decision = "APPROVED" => \A i \in Items : review.items[i] = "passed"
  /\ decide' = [decide EXCEPT ![d] = [at |-> "live", decision |-> decision,
                  from |-> presentStatus(review.status), latest |-> TRUE]]
  /\ UNCHANGED <<app, filings, replica, review, ticked, noted, job>>

(* decide, second read: the application, on the replica. *)
DecideReadsLive(d) ==
  /\ decide[d].at = "live"
  /\ decide' = [decide EXCEPT ![d] = IF replica = decide[d].from THEN [@ EXCEPT !.at = "product"]
                                     ELSE Closed]
  /\ UNCHANGED <<app, filings, replica, review, ticked, noted, job>>

(* decide, the product transaction: status, reason and notice together. *)
DecideWritesProduct(d) ==
  /\ decide[d].at = "product"
  /\ app' = decide[d].decision
  /\ decide' = [decide EXCEPT ![d].at = "review"]
  /\ UNCHANGED <<filings, replica, review, ticked, noted, job>>

DecideWritesReview(d) ==
  /\ decide[d].at = "review"
  /\ review' = [review EXCEPT !.status = decide[d].decision]
  /\ decide' = [decide EXCEPT ![d] = Closed]
  /\ UNCHANGED <<app, filings, replica, ticked, noted, job>>

(* The process stops, or a database is out of reach. *)
DecideStops(d) ==
  /\ decide[d].at \in {"live", "product", "review"}
  /\ decide' = [decide EXCEPT ![d] = Closed]
  /\ UNCHANGED <<app, filings, replica, review, ticked, noted, job>>

(* syncFromProduct reads the applications and the reviews side by side. *)
SyncReadsApp(w) ==
  /\ job[w].at \in {"idle", "review"}
  /\ job' = [job EXCEPT ![w] =
       [@ EXCEPT !.app = replica, !.at = IF job[w].at = "idle" THEN "app" ELSE "both"]]
  /\ UNCHANGED <<app, filings, replica, review, ticked, noted, decide>>

SyncReadsReviews(w) ==
  /\ job[w].at \in {"idle", "app"}
  /\ job' = [job EXCEPT ![w] =
       [@ EXCEPT !.review = IF review.exists THEN review.status ELSE "none",
                 !.at = IF job[w].at = "idle" THEN "review" ELSE "both"]]
  /\ UNCHANGED <<app, filings, replica, review, ticked, noted, decide>>

(* What refreshDrifted writes over the review. *)
RefreshedKeepingChecklist(status) ==
  [review EXCEPT !.status = status]

Refreshed(status) ==
  IF Decided(status) THEN [review EXCEPT !.status = status]
  ELSE [review EXCEPT !.status = status, !.items = Blank]

RefreshUndecidedOnly(w) ==
  /\ job[w].at = "both" /\ job[w].review # "none"
  /\ LET mapped == toReviewStatus(job[w].app)
     IN IF mapped # "none" /\ job[w].review = "SUBMITTED" /\ mapped # job[w].review
        THEN review' = Refreshed(mapped)
        ELSE UNCHANGED review
  /\ job' = [job EXCEPT ![w] = Resting]
  /\ UNCHANGED <<app, filings, replica, ticked, noted, decide>>

refreshDrifted(w) ==
  /\ job[w].at = "both" /\ job[w].review # "none"
  /\ LET mapped == toReviewStatus(job[w].app)
     IN IF mapped # "none" /\ mapped # job[w].review
        THEN review' = Refreshed(mapped)
        ELSE UNCHANGED review
  /\ job' = [job EXCEPT ![w] = Resting]
  /\ UNCHANGED <<app, filings, replica, ticked, noted, decide>>

(* An application with no review when the sync looked, or one whose         *)
(* senderid.submitted event arrives: ensureReview reads it again, and       *)
(* creates the review unless another worker's insert has won.               *)
StartEnsure(w) ==
  /\ \/ job[w].at = "both" /\ job[w].review = "none" /\ toReviewStatus(job[w].app) # "none"
     \/ job[w].at = "idle"
  /\ job' = [job EXCEPT ![w] = [Resting EXCEPT !.at = "ensure"]]
  /\ UNCHANGED <<app, filings, replica, review, ticked, noted, decide>>

SkipUnmapped(w) ==
  /\ job[w].at = "both" /\ job[w].review = "none" /\ toReviewStatus(job[w].app) = "none"
  /\ job' = [job EXCEPT ![w] = Resting]
  /\ UNCHANGED <<app, filings, replica, review, ticked, noted, decide>>

EnsureReads(w) ==
  /\ job[w].at = "ensure"
  /\ job' = [job EXCEPT ![w] =
       IF review.exists \/ toReviewStatus(replica) = "none" THEN Resting
       ELSE [Resting EXCEPT !.at = "create", !.app = replica]]
  /\ UNCHANGED <<app, filings, replica, review, ticked, noted, decide>>

EnsureCreates(w) ==
  /\ job[w].at = "create"
  /\ review' = IF review.exists THEN review
               ELSE [NoReview EXCEPT !.exists = TRUE, !.status = toReviewStatus(job[w].app)]
  /\ job' = [job EXCEPT ![w] = Resting]
  /\ UNCHANGED <<app, filings, replica, ticked, noted, decide>>

Reviewing ==
  \/ \E i \in Items, mark \in {"passed", "failed"} : updateChecklist(i, mark)
  \/ \E d \in Decisions, decision \in {"APPROVED", "REJECTED"} : DecideReadsReview(d, decision)
  \/ \E d \in Decisions :
       \/ DecideReadsLive(d) \/ DecideWritesProduct(d)
       \/ DecideWritesReview(d) \/ DecideStops(d)

Syncing(w) ==
  \/ SyncReadsApp(w) \/ SyncReadsReviews(w) \/ refreshDrifted(w)
  \/ StartEnsure(w) \/ SkipUnmapped(w) \/ EnsureReads(w) \/ EnsureCreates(w)

Next ==
  \/ CustomerSubmits \/ ProductMoves \/ Replicate
  \/ Reviewing
  \/ \E w \in Workers : Syncing(w)

Spec == Init /\ [][Next]_vars

(* The replica follows; the clock enqueues a sync every ten minutes, and a   *)
(* worker takes its jobs in order and finishes them.                         *)
Fairness ==
  /\ WF_vars(Replicate)
  /\ \A w \in Workers :
       /\ SF_vars(SyncReadsApp(w) \/ SyncReadsReviews(w))
       /\ WF_vars(job[w].at # "idle" /\ Syncing(w))

FairSpec == Spec /\ Fairness

--------------------------------------------------------------------------------
(* A waiting application is approved on a checklist worked through for the  *)
(* filing it approves, however decisions, customers and syncs that looked   *)
(* at an old replica race (decide's check of the items, and the reset in    *)
(* refreshDrifted).  Out of its reach: a filing made while the decision was *)
(* under way, one made while the review still waited, and a decision on a   *)
(* status other than waiting (see the two findings below).                  *)
ApprovalsRestOnThisFiling ==
  \A d \in Decisions :
    /\ decide[d].at \in {"live", "product", "review"} /\ decide[d].decision = "APPROVED"
    /\ decide[d].from = "PENDING_REVIEW" /\ decide[d].latest /\ noted
    => ticked = Items

(* Whatever decisions race, stop half-way or are overtaken by syncs that    *)
(* read an old replica: once the customer and the reviewers are done, the   *)
(* review says what the product says ("if that last step fails the next     *)
(* sync repairs it from the product", decide).  A draft has no say.         *)
ReviewCatchesUp ==
  <>[](app = "DRAFT" \/ (review.exists /\ presentStatus(review.status) = app))

(* "Back to waiting after a decision means the customer resubmitted"        *)
(* (refreshDrifted): a decided review goes back to waiting only when the    *)
(* application has been filed again since it was decided.                   *)
(* Not so: a sync may have looked at the replica before the decision.       *)
ResubmissionsAreReal ==
  [][Decided(review.status) /\ review'.status = "SUBMITTED" => filings > 1]_vars

(* "Deciding on a stale view would overwrite what they just did" (decide,   *)
(* and docs/sender-id-review.md:87): a decision is written only over the    *)
(* status it was made on.                                                   *)
(* Not so: decide looks at the replica, and at no time again.               *)
NoStaleDecision ==
  [][\A d \in Decisions : decide[d].at = "product" /\ decide'[d].at = "review" =>
       app = decide[d].from]_vars

(* A resubmission starts with "a reset checklist"                           *)
(* (docs/sender-id-review.md:91-93): whatever filing is approved, its items *)
(* were checked after it was made.                                          *)
(* Not so: a filing made while the review still waits is no drift.          *)
EveryFilingIsChecked ==
  \A d \in Decisions :
    /\ decide[d].at = "product" /\ decide[d].decision = "APPROVED"
    /\ decide[d].from = "PENDING_REVIEW" /\ decide[d].latest
    => ticked = Items
================================================================================
