------------------------- MODULE SenderIdReviews_proofs -------------------------
(***************************************************************************)
(* The safety of the sender-ID review queue, for any checklist, any number  *)
(* of decisions and maintenance workers, and any bound on filings.          *)
(*                                                                         *)
(* That an approval rests on a checklist worked through for this filing is  *)
(* not inductive alone: what a decision reads is the items, and what they   *)
(* are worth is that a waiting review has every item blank but those        *)
(* checked since the customer filed, if the filing found no review waiting  *)
(* (TickedOK): what brings such a review to wait blanks its items first.  A *)
(* worker about to create a review has read an application that was filed   *)
(* (CreateOK), which types the new row.                                     *)
(*                                                                         *)
(* The second part is about the jobs that watch and tell staff (Alerts),    *)
(* for any number of runs at once: what is on record and what is about to   *)
(* be are counted together (FewWrite).                                      *)
(***************************************************************************)
EXTENDS SenderIdReviews, Alerts, FiniteSetTheorems, TLAPS

TickedOK ==
  noted /\ review.exists /\ review.status = "SUBMITTED" =>
    \A i \in Items : review.items[i] # "blank" => i \in ticked

CreateOK == \A w \in Workers : job[w].at = "create" => toReviewStatus(job[w].app) # "none"

IInv == TypeOK /\ TickedOK /\ CreateOK /\ ApprovalsRestOnThisFiling

DecideType == [at : {"new", "live", "product", "review", "done"},
               decision : {"APPROVED", "REJECTED"}, from : ProductStatus, latest : BOOLEAN]

(* A decision under way that approves a waiting application, the latest filing. *)
Approving(call) ==
  call.at \in {"live", "product", "review"} /\ call.decision = "APPROVED"
  /\ call.from = "PENDING_REVIEW" /\ call.latest

JobType == [at : {"idle", "app", "review", "both", "ensure", "create"},
            app : ProductStatus, review : ReviewStatus \cup {"none"}]

ReviewType == [exists : BOOLEAN, status : ReviewStatus, items : [Items -> {"blank", "passed", "failed"}]]

--------------------------------------------------------------------------------
(* A review gets a status of its own for every product status but a draft's. *)
LEMMA StatusMapped ==
  ASSUME NEW status \in ProductStatus
  PROVE  /\ toReviewStatus(status) \in ReviewStatus \cup {"none"}
         /\ toReviewStatus(status) # "none" => toReviewStatus(status) \in ReviewStatus
  BY DEF toReviewStatus, ProductStatus, ReviewStatus

LEMMA StatusPresented ==
  ASSUME NEW status \in ReviewStatus
  PROVE  presentStatus(status) \in ProductStatus
  BY DEF presentStatus, ProductStatus, ReviewStatus

(* A step of one worker that leaves reviews and decisions alone. *)
LEMMA JobStep ==
  ASSUME IInv, NEW w \in Workers, NEW new \in JobType,
         job' = [job EXCEPT ![w] = new],
         new.at = "create" => toReviewStatus(new.app) # "none",
         UNCHANGED <<app, filings, replica, review, ticked, noted, decide>>
  PROVE  IInv'
<1>1. TypeOK'
  BY DEF IInv, TypeOK, JobType
<1>2. TickedOK'
  BY DEF IInv, TickedOK
<1>3. CreateOK'
  BY DEF IInv, CreateOK, TypeOK, toReviewStatus
<1>4. ApprovalsRestOnThisFiling'
  BY DEF IInv, ApprovalsRestOnThisFiling
<1> QED BY <1>1, <1>2, <1>3, <1>4 DEF IInv

(* A step of one decision that leaves the review and the workers alone. *)
LEMMA DecideStep ==
  ASSUME IInv, NEW d \in Decisions, NEW new \in DecideType,
         decide' = [decide EXCEPT ![d] = new],
         Approving(new) /\ noted => ticked = Items,
         app' \in ProductStatus,
         UNCHANGED <<filings, replica, review, ticked, noted, job>>
  PROVE  IInv'
<1>1. TypeOK'
  BY DEF IInv, TypeOK, DecideType
<1>2. TickedOK'
  BY DEF IInv, TickedOK
<1>3. CreateOK'
  BY DEF IInv, CreateOK
<1>4. ApprovalsRestOnThisFiling'
  BY DEF IInv, ApprovalsRestOnThisFiling, TypeOK, Approving
<1> QED BY <1>1, <1>2, <1>3, <1>4 DEF IInv

(* A step that writes the review row and perhaps the history of its items. *)
LEMMA ReviewStep ==
  ASSUME IInv, review' \in ReviewType, ticked' \subseteq Items, TickedOK',
         job' \in [Workers -> JobType], decide' \in [Decisions -> DecideType],
         CreateOK', ApprovalsRestOnThisFiling',
         UNCHANGED <<app, filings, replica, noted>>
  PROVE  IInv'
  BY DEF IInv, TypeOK, ReviewType, JobType, DecideType

--------------------------------------------------------------------------------
LEMMA InitInv == Init => IInv
<1> SUFFICES ASSUME Init PROVE IInv
  OBVIOUS
<1>1. Blank \in [Items -> {"blank", "passed", "failed"}] /\ \A i \in Items : Blank[i] = "blank"
  BY DEF Blank
<1>2. NoReview \in ReviewType
  BY <1>1 DEF NoReview, ReviewType, ReviewStatus
<1>3. Undecided \in DecideType /\ Undecided.at = "new"
  BY DEF Undecided, DecideType, ProductStatus
<1>4. Resting \in JobType /\ Resting.at = "idle"
  BY DEF Resting, JobType, ProductStatus, ReviewStatus
<1>5. TypeOK
  <2>1. app \in ProductStatus /\ replica \in ProductStatus /\ filings \in 0..MaxFilings
    BY SenderIdAssumption DEF Init, ProductStatus
  <2> QED BY <2>1, <1>2, <1>3, <1>4 DEF Init, TypeOK, ReviewType, DecideType, JobType
<1>6. TickedOK
  BY <1>1 DEF TickedOK, Init, NoReview
<1>7. CreateOK
  BY <1>4 DEF CreateOK, Init
<1>8. ApprovalsRestOnThisFiling
  BY <1>3 DEF ApprovalsRestOnThisFiling, Init
<1> QED BY <1>5, <1>6, <1>7, <1>8 DEF IInv

LEMMA ProductInv ==
  ASSUME IInv, CustomerSubmits \/ ProductMoves \/ Replicate
  PROVE  IInv'
<1>1. /\ app' \in ProductStatus /\ replica' \in ProductStatus /\ filings' \in 0..MaxFilings
      /\ UNCHANGED <<review, job>>
  BY SenderIdAssumption
  DEF IInv, TypeOK, CustomerSubmits, ProductMoves, Replicate, ProductStatus
<1>2. CASE CustomerSubmits
  <2>1. /\ ticked' = {} /\ noted' = (~review.exists \/ Decided(review.status))
        /\ decide' = [d \in Decisions |-> [decide[d] EXCEPT !.latest = FALSE]]
    BY <1>2 DEF CustomerSubmits
  <2>2. decide \in [Decisions -> DecideType]
    BY DEF IInv, TypeOK, DecideType
  <2>3. decide' \in [Decisions -> DecideType] /\ \A d \in Decisions : ~decide'[d].latest
    BY <2>1, <2>2 DEF DecideType
  <2>4. TypeOK'
    BY <1>1, <2>1, <2>3 DEF IInv, TypeOK, DecideType
  <2>5. TickedOK'
    BY <1>1, <2>1 DEF TickedOK, Decided
  <2>6. CreateOK' /\ ApprovalsRestOnThisFiling'
    BY <1>1, <2>3 DEF IInv, CreateOK, ApprovalsRestOnThisFiling
  <2> QED BY <2>4, <2>5, <2>6 DEF IInv
<1>3. CASE ProductMoves \/ Replicate
  <2>1. UNCHANGED <<ticked, noted, decide>>
    BY <1>3 DEF ProductMoves, Replicate
  <2> QED BY <1>1, <2>1 DEF IInv, TypeOK, TickedOK, CreateOK, ApprovalsRestOnThisFiling
<1> QED BY <1>2, <1>3

LEMMA ChecklistInv ==
  ASSUME IInv, NEW i \in Items, NEW mark \in {"passed", "failed"}, updateChecklist(i, mark)
  PROVE  IInv'
<1> USE DEF updateChecklist
<1>1. review \in ReviewType /\ ticked \subseteq Items
  BY DEF IInv, TypeOK, ReviewType
<1>2. review' \in ReviewType
  BY <1>1 DEF ReviewType
<1>3. TickedOK'
  BY <1>1 DEF IInv, TickedOK, ReviewType
<1>4. job' \in [Workers -> JobType] /\ decide' \in [Decisions -> DecideType]
  BY DEF IInv, TypeOK, JobType, DecideType
<1>5. CreateOK' /\ ApprovalsRestOnThisFiling'
  BY DEF IInv, TypeOK, CreateOK, ApprovalsRestOnThisFiling
<1> QED BY <1>1, <1>2, <1>3, <1>4, <1>5, ReviewStep

(* What decide reads is what the items are worth. *)
LEMMA ReadsReviewInv ==
  ASSUME IInv, NEW d \in Decisions, NEW decision \in {"APPROVED", "REJECTED"},
         DecideReadsReview(d, decision)
  PROVE  IInv'
<1> DEFINE new == [at |-> "live", decision |-> decision,
                   from |-> presentStatus(review.status), latest |-> TRUE]
<1>1. review.status \in ReviewStatus /\ app \in ProductStatus /\ ticked \subseteq Items
  BY DEF IInv, TypeOK
<1>2. new \in DecideType
  BY <1>1, StatusPresented DEF DecideType
<1>3. decision = "APPROVED" /\ presentStatus(review.status) = "PENDING_REVIEW" /\ noted =>
        ticked = Items
  BY <1>1 DEF IInv, TickedOK, DecideReadsReview, presentStatus, ReviewStatus
<1>4. decide' = [decide EXCEPT ![d] = new] /\ UNCHANGED <<app, filings, replica, review, ticked, noted, job>>
  BY DEF DecideReadsReview
<1>5. Approving(new) /\ noted => ticked = Items
  BY <1>3 DEF Approving
<1> HIDE DEF new
<1> QED BY <1>1, <1>2, <1>4, <1>5, DecideStep

LEMMA ClosedType == Closed \in DecideType /\ Closed.at = "done"
  BY DEF Closed, DecideType, ProductStatus

LEMMA DecideInv ==
  ASSUME IInv, NEW d \in Decisions,
         DecideReadsLive(d) \/ DecideWritesProduct(d) \/ DecideStops(d)
  PROVE  IInv'
<1>1. decide \in [Decisions -> DecideType] /\ app \in ProductStatus
  BY DEF IInv, TypeOK, DecideType
<1>2. Approving(decide[d]) /\ noted => ticked = Items
  BY DEF IInv, ApprovalsRestOnThisFiling, Approving
<1>3. \E new \in DecideType :
        /\ decide' = [decide EXCEPT ![d] = new]
        /\ new = Closed \/ \E at \in {"product", "review"} : new = [decide[d] EXCEPT !.at = at]
  <2>1. CASE DecideReadsLive(d)
    BY <2>1, <1>1, ClosedType DEF DecideReadsLive, DecideType
  <2>2. CASE DecideWritesProduct(d)
    BY <2>2, <1>1 DEF DecideWritesProduct, DecideType
  <2>3. CASE DecideStops(d)
    BY <2>3, ClosedType DEF DecideStops
  <2> QED BY <2>1, <2>2, <2>3
<1>4. decide[d].at \in {"live", "product", "review"}
  BY DEF DecideReadsLive, DecideWritesProduct, DecideStops
<1>5. app' \in ProductStatus /\ UNCHANGED <<filings, replica, review, ticked, noted, job>>
  BY <1>1 DEF DecideReadsLive, DecideWritesProduct, DecideStops, DecideType, ProductStatus
<1>6. PICK new \in DecideType :
        /\ decide' = [decide EXCEPT ![d] = new]
        /\ new = Closed \/ \E at \in {"product", "review"} : new = [decide[d] EXCEPT !.at = at]
  BY <1>3
<1>7. Approving(new) /\ noted => ticked = Items
  BY <1>1, <1>2, <1>4, <1>6, ClosedType DEF DecideType, Approving
<1> QED BY <1>5, <1>6, <1>7, DecideStep

LEMMA WritesReviewInv ==
  ASSUME IInv, NEW d \in Decisions, DecideWritesReview(d)
  PROVE  IInv'
<1> USE DEF DecideWritesReview
<1>1. /\ review \in ReviewType /\ ticked \subseteq Items
      /\ job \in [Workers -> JobType] /\ decide \in [Decisions -> DecideType]
  BY DEF IInv, TypeOK, ReviewType, JobType, DecideType
<1>2. review' \in ReviewType
  BY <1>1 DEF ReviewType, ReviewStatus, DecideType
<1>3. TickedOK'
  BY <1>1 DEF IInv, TickedOK, ReviewType, DecideType
<1>4. decide' \in [Decisions -> DecideType] /\ \A e \in Decisions \ {d} : decide'[e] = decide[e]
  BY <1>1, ClosedType
<1>5. ApprovalsRestOnThisFiling'
  BY <1>1, <1>4, ClosedType DEF IInv, ApprovalsRestOnThisFiling
<1>6. CreateOK'
  BY DEF IInv, CreateOK
<1> QED BY <1>1, <1>2, <1>3, <1>4, <1>5, <1>6, ReviewStep

--------------------------------------------------------------------------------
LEMMA RestingType == Resting \in JobType /\ Resting.at = "idle"
  BY DEF Resting, JobType, ProductStatus, ReviewStatus

LEMMA SyncReadsInv ==
  ASSUME IInv, NEW w \in Workers,
         SyncReadsApp(w) \/ SyncReadsReviews(w) \/ StartEnsure(w) \/ SkipUnmapped(w) \/ EnsureReads(w)
  PROVE  IInv'
<1>1. job \in [Workers -> JobType] /\ replica \in ProductStatus /\ review.status \in ReviewStatus
  BY DEF IInv, TypeOK, JobType
<1>2. UNCHANGED <<app, filings, replica, review, ticked, noted, decide>>
  BY DEF SyncReadsApp, SyncReadsReviews, StartEnsure, SkipUnmapped, EnsureReads
<1>3. \E new \in JobType :
        /\ job' = [job EXCEPT ![w] = new]
        /\ new.at = "create" => toReviewStatus(new.app) # "none"
  <2>1. CASE SyncReadsApp(w)
    <3> DEFINE new == [job[w] EXCEPT !.app = replica,
                                     !.at = IF job[w].at = "idle" THEN "app" ELSE "both"]
    <3>1. new \in JobType /\ new.at # "create"
      BY <1>1 DEF JobType
    <3>2. job' = [job EXCEPT ![w] = new]
      BY <2>1 DEF SyncReadsApp
    <3> HIDE DEF new
    <3> QED BY <3>1, <3>2
  <2>2. CASE SyncReadsReviews(w)
    <3> DEFINE new == [job[w] EXCEPT !.review = IF review.exists THEN review.status ELSE "none",
                                     !.at = IF job[w].at = "idle" THEN "review" ELSE "both"]
    <3>1. new \in JobType /\ new.at # "create"
      BY <1>1 DEF JobType
    <3>2. job' = [job EXCEPT ![w] = new]
      BY <2>2 DEF SyncReadsReviews
    <3> HIDE DEF new
    <3> QED BY <3>1, <3>2
  <2>3. CASE StartEnsure(w)
    <3> DEFINE new == [Resting EXCEPT !.at = "ensure"]
    <3>1. new \in JobType /\ new.at # "create"
      BY RestingType DEF JobType
    <3>2. job' = [job EXCEPT ![w] = new]
      BY <2>3 DEF StartEnsure
    <3> HIDE DEF new
    <3> QED BY <3>1, <3>2
  <2>4. CASE SkipUnmapped(w)
    BY <2>4, RestingType DEF SkipUnmapped
  <2>5. CASE EnsureReads(w)
    <3>1. CASE review.exists \/ toReviewStatus(replica) = "none"
      BY <2>5, <3>1, RestingType DEF EnsureReads
    <3>2. CASE ~(review.exists \/ toReviewStatus(replica) = "none")
      <4> DEFINE new == [Resting EXCEPT !.at = "create", !.app = replica]
      <4>1. new \in JobType /\ new.app = replica
        BY <1>1, RestingType DEF JobType
      <4>2. job' = [job EXCEPT ![w] = new]
        BY <2>5, <3>2 DEF EnsureReads
      <4> HIDE DEF new
      <4> QED BY <3>2, <4>1, <4>2
    <3> QED BY <3>1, <3>2
  <2> QED BY <2>1, <2>2, <2>3, <2>4, <2>5
<1> QED BY <1>2, <1>3, JobStep

(* The worker that has written a review rests. *)
LEMMA WorkerWrites ==
  ASSUME IInv, NEW w \in Workers, job' = [job EXCEPT ![w] = Resting],
         review' \in ReviewType, TickedOK',
         UNCHANGED <<app, filings, replica, ticked, noted, decide>>
  PROVE  IInv'
<1>1. job \in [Workers -> JobType] /\ decide' \in [Decisions -> DecideType]
  BY DEF IInv, TypeOK, JobType, DecideType
<1>2. job' \in [Workers -> JobType] /\ \A v \in Workers : job'[v] \in {job[v], Resting}
  BY <1>1, RestingType
<1>3. CreateOK'
  BY <1>2, RestingType DEF IInv, CreateOK, toReviewStatus
<1>4. ApprovalsRestOnThisFiling' /\ ticked' \subseteq Items
  BY DEF IInv, TypeOK, ApprovalsRestOnThisFiling
<1> QED BY <1>1, <1>2, <1>3, <1>4, ReviewStep

LEMMA BlankType == Blank \in [Items -> {"blank", "passed", "failed"}] /\ \A i \in Items : Blank[i] = "blank"
  BY DEF Blank

(* A review that is brought back to wait has its items blanked, so nothing  *)
(* checked for an earlier filing is left on it.                             *)
LEMMA RefreshInv ==
  ASSUME IInv, NEW w \in Workers, refreshDrifted(w)
  PROVE  IInv'
<1> DEFINE mapped == toReviewStatus(job[w].app)
<1>1. review \in ReviewType /\ job[w].app \in ProductStatus
  BY DEF IInv, TypeOK, ReviewType
<1>2. job' = [job EXCEPT ![w] = Resting] /\ UNCHANGED <<app, filings, replica, ticked, noted, decide>>
  BY DEF refreshDrifted
<1>3. mapped # "none" => mapped \in ReviewStatus
  BY <1>1, StatusMapped
<1>4. \/ UNCHANGED review
      \/ /\ mapped # "none" /\ Decided(mapped)
         /\ review' = [review EXCEPT !.status = mapped]
      \/ /\ mapped # "none" /\ ~Decided(mapped)
         /\ review' = [review EXCEPT !.status = mapped, !.items = Blank]
  BY DEF refreshDrifted, Refreshed
<1> HIDE DEF mapped
<1>5. review' \in ReviewType
  BY <1>1, <1>3, <1>4, BlankType DEF ReviewType
<1>6. TickedOK'
  <2>1. CASE UNCHANGED review
    BY <2>1, <1>2 DEF IInv, TickedOK
  <2>2. CASE Decided(mapped) /\ review' = [review EXCEPT !.status = mapped]
    <3>1. review'.status = mapped
      BY <2>2, <1>1 DEF ReviewType
    <3> QED BY <2>2, <3>1 DEF TickedOK, Decided
  <2>3. CASE review' = [review EXCEPT !.status = mapped, !.items = Blank]
    <3>1. review'.items = Blank
      BY <2>3, <1>1 DEF ReviewType
    <3> QED BY <3>1, BlankType DEF TickedOK
  <2> QED BY <1>4, <2>1, <2>2, <2>3
<1> QED BY <1>2, <1>5, <1>6, WorkerWrites

LEMMA CreateInv ==
  ASSUME IInv, NEW w \in Workers, EnsureCreates(w)
  PROVE  IInv'
<1>1. review \in ReviewType /\ ticked \subseteq Items /\ job[w].app \in ProductStatus
  BY DEF IInv, TypeOK, ReviewType
<1>2. job' = [job EXCEPT ![w] = Resting] /\ UNCHANGED <<app, filings, replica, ticked, noted, decide>>
  BY DEF EnsureCreates
<1>3. toReviewStatus(job[w].app) \in ReviewStatus
  BY <1>1, StatusMapped DEF EnsureCreates, IInv, CreateOK
<1>4. CASE review.exists
  <2>1. review' = review
    BY <1>4 DEF EnsureCreates
  <2>2. TickedOK'
    BY <2>1, <1>2 DEF IInv, TickedOK
  <2> QED BY <1>1, <1>2, <2>1, <2>2, WorkerWrites
<1>5. CASE ~review.exists
  <2>1. review' = [exists |-> TRUE, status |-> toReviewStatus(job[w].app), items |-> Blank]
    BY <1>5 DEF EnsureCreates, NoReview
  <2>2. review' \in ReviewType /\ review'.items = Blank
    BY <2>1, <1>3, BlankType DEF ReviewType
  <2>3. TickedOK'
    BY <2>2, BlankType DEF TickedOK
  <2> QED BY <1>1, <1>2, <2>2, <2>3, WorkerWrites
<1> QED BY <1>4, <1>5

--------------------------------------------------------------------------------
(* The strengthened invariant is inductive. *)
LEMMA NextInv == IInv /\ [Next]_vars => IInv'
<1> SUFFICES ASSUME IInv, [Next]_vars PROVE IInv'
  OBVIOUS
<1>1. CASE CustomerSubmits \/ ProductMoves \/ Replicate
  BY <1>1, ProductInv
<1>2. CASE Reviewing
  BY <1>2, ChecklistInv, ReadsReviewInv, DecideInv, WritesReviewInv DEF Reviewing
<1>3. ASSUME NEW w \in Workers, Syncing(w) PROVE IInv'
  BY <1>3, SyncReadsInv, RefreshInv, CreateInv DEF Syncing
<1>4. CASE UNCHANGED vars
  BY <1>4 DEF vars, IInv, TypeOK, TickedOK, CreateOK, ApprovalsRestOnThisFiling
<1> QED BY <1>1, <1>2, <1>3, <1>4 DEF Next

(* The invariant of the review queue: items, their history, decisions under *)
(* way and workers agree, whatever races (SenderIdsService).                *)
THEOREM Invariance == Spec => []IInv
  BY InitInv, NextInv, PTL DEF Spec

(* Every variable of the queue keeps its type. *)
THEOREM TypeCorrect == Spec => []TypeOK
<1>1. IInv => TypeOK
  BY DEF IInv
<1> QED BY <1>1, Invariance, PTL

(* Whatever is filed, withdrawn, decided and synced from an old replica in   *)
(* between, an approval of the latest filing rests on items checked after    *)
(* it was made, if the filing found no review waiting (decide's check of    *)
(* the checklist, and the reset in refreshDrifted).                         *)
THEOREM ApprovalsRest == Spec => []ApprovalsRestOnThisFiling
<1>1. IInv => ApprovalsRestOnThisFiling
  BY DEF IInv
<1> QED BY <1>1, Invariance, PTL

--------------------------------------------------------------------------------
(* The jobs that watch and tell staff, the SLA sweep of this desk among     *)
(* them: no two of their runs open a flag, or tell of a breach, but those   *)
(* that looked before either had written.                                   *)

(* The runs that found nothing on record of a subject and are about to write. *)
Busy(runs, s, stage) == {w \in Runners : runs[w].at = stage /\ runs[w].on[1] = s}

RunType == [at : Stages, todo : SUBSET (Subjects \X Verdicts),
            on : (Subjects \X Verdicts) \cup {<<>>}, older : SUBSET Runners,
            overtaken : SUBSET Subjects]

(* A window's verdict is a status, and only windows are sampled.  A run     *)
(* that writes has taken something up.                                      *)
VerdictOK(runs) ==
  \A w \in Runners :
    /\ \A p \in runs[w].todo : watcher = "health" => p[2] \in Statuses
    /\ runs[w].at \in {"upsert", "upsertNews"} =>
         watcher = "health" /\ runs[w].on[2] \in Statuses
    /\ runs[w].at \in {"create", "announce", "upsert", "upsertNews"} => runs[w].on # <<>>

(* What is on record of a subject and what is about to be, together, is no  *)
(* more than there are runs: who looks when nothing is on record can only   *)
(* be one of them, and who looks later leaves it.                           *)
FewWrite(onFile, told, runs) ==
  \A s \in Subjects :
    /\ onFile[s].auto + Cardinality(Busy(runs, s, "create")) <= Cardinality(Runners)
    /\ watcher = "sla" =>
         told[s] + Cardinality(Busy(runs, s, "announce")) <= Cardinality(Runners)

WatchInv == WatchTypeOK /\ VerdictOK(run) /\ FewWrite(flags, notices, run)

LEMMA BusyFinite ==
  /\ Cardinality(Runners) \in Nat
  /\ \A runs, s, stage :
       /\ IsFiniteSet(Busy(runs, s, stage))
       /\ Cardinality(Busy(runs, s, stage)) \in Nat
       /\ Cardinality(Busy(runs, s, stage)) <= Cardinality(Runners)
<1>1. IsFiniteSet(Runners)
  BY AlertsAssumption
<1>2. \A runs, s, stage : Busy(runs, s, stage) \subseteq Runners
  BY DEF Busy
<1> QED BY <1>1, <1>2, FS_Subset, FS_CardinalityType

LEMMA NoMoreBusy ==
  ASSUME NEW old, NEW new, NEW s, NEW stage,
         Busy(new, s, stage) \subseteq Busy(old, s, stage)
  PROVE  Cardinality(Busy(new, s, stage)) <= Cardinality(Busy(old, s, stage))
BY BusyFinite, FS_Subset

LEMMA OneLessBusy ==
  ASSUME NEW old, NEW new, NEW s, NEW stage, NEW w,
         w \in Busy(old, s, stage), Busy(new, s, stage) \subseteq Busy(old, s, stage) \ {w}
  PROVE  Cardinality(Busy(new, s, stage)) + 1 <= Cardinality(Busy(old, s, stage))
<1>1. /\ IsFiniteSet(Busy(old, s, stage)) /\ IsFiniteSet(Busy(old, s, stage) \ {w})
      /\ Cardinality(Busy(old, s, stage)) \in Nat /\ Cardinality(Busy(new, s, stage)) \in Nat
  BY BusyFinite, FS_Subset
<1>2. Cardinality(Busy(old, s, stage) \ {w}) = Cardinality(Busy(old, s, stage)) - 1
  BY <1>1, FS_RemoveElement
<1>3. Cardinality(Busy(new, s, stage)) <= Cardinality(Busy(old, s, stage) \ {w})
  BY <1>1, FS_Subset
<1> QED BY <1>1, <1>2, <1>3

(* Who does not go on to write leaves the count, whoever resolves a flag.   *)
LEMMA FewStillWrite ==
  ASSUME NEW onFile, NEW runs, FewWrite(flags, notices, run),
         \A s \in Subjects : flags[s].auto \in Nat /\ notices[s] \in Nat,
         \A s \in Subjects : onFile[s].auto \in Nat /\ onFile[s].auto <= flags[s].auto,
         \A w \in Runners : runs[w].at = "create" =>
           run[w].at = "create" /\ run[w].on = runs[w].on,
         watcher = "sla" => \A w \in Runners : runs[w].at = "announce" =>
           run[w].at = "announce" /\ run[w].on = runs[w].on
  PROVE  FewWrite(onFile, notices, runs)
<1> SUFFICES ASSUME NEW s \in Subjects
             PROVE  /\ onFile[s].auto + Cardinality(Busy(runs, s, "create")) <= Cardinality(Runners)
                    /\ watcher = "sla" =>
                         notices[s] + Cardinality(Busy(runs, s, "announce")) <= Cardinality(Runners)
  BY DEF FewWrite
<1>1. Busy(runs, s, "create") \subseteq Busy(run, s, "create")
  BY DEF Busy
<1>2. onFile[s].auto + Cardinality(Busy(runs, s, "create")) <= Cardinality(Runners)
  BY <1>1, NoMoreBusy, BusyFinite DEF FewWrite
<1>3. ASSUME watcher = "sla"
      PROVE  notices[s] + Cardinality(Busy(runs, s, "announce")) <= Cardinality(Runners)
  <2>1. Busy(runs, s, "announce") \subseteq Busy(run, s, "announce")
    BY <1>3 DEF Busy
  <2> QED BY <1>3, <2>1, NoMoreBusy, BusyFinite DEF FewWrite
<1> QED BY <1>2, <1>3

(* A step that leaves the runs alone. *)
LEMMA RunsAside ==
  ASSUME WatchInv, UNCHANGED <<watcher, latest, notices, run, faults>>,
         world' \in [Subjects -> Pictures], audience' \in BOOLEAN,
         flags' \in [Subjects -> [auto : Nat, manual : 0..MaxManual]],
         \A s \in Subjects : flags'[s].auto <= flags[s].auto
  PROVE  WatchInv'
<1> USE DEF WatchInv
<1>1. Pictures' = Pictures
  BY DEF Pictures, Rules, Cells, Counts
<1>2. WatchTypeOK'
  BY <1>1 DEF WatchTypeOK
<1>3. VerdictOK(run)'
  BY DEF VerdictOK
<1>4. MaxNotices \in Nat
  BY AlertsAssumption
<1>5. \A s \in Subjects : flags[s].auto \in Nat /\ notices[s] \in Nat /\ flags'[s].auto \in Nat
  BY <1>4 DEF WatchTypeOK
<1>6. FewWrite(flags', notices, run)
  BY <1>5, FewStillWrite
<1>7. FewWrite(flags, notices, run)'
  BY <1>6 DEF FewWrite
<1> QED BY <1>2, <1>3, <1>7

LEMMA WorldWatched ==
  ASSUME WatchInv,
         \/ WorldChanges \/ StaffChange
         \/ \E s \in Subjects : assign(s) \/ raiseFlag(s)
              \/ resolveFlag(s, "auto") \/ resolveFlag(s, "manual")
  PROVE  WatchInv'
<1> USE DEF WatchInv
<1>0. /\ world \in [Subjects -> Pictures] /\ audience \in BOOLEAN
      /\ flags \in [Subjects -> [auto : Nat, manual : 0..MaxManual]]
      /\ MaxManual \in Nat
  BY AlertsAssumption DEF WatchTypeOK
<1>1. CASE WorldChanges
  BY <1>0, <1>1, RunsAside DEF WorldChanges, rows
<1>2. CASE StaffChange
  BY <1>0, <1>2, RunsAside DEF StaffChange, rows
<1>3. ASSUME NEW s \in Subjects, assign(s)
      PROVE  WatchInv'
  <2>1. Pictures = [at : {"inTime", "overdue", "closed"}, assigned : BOOLEAN]
    BY <1>3 DEF Pictures, assign
  <2>2. world' \in [Subjects -> Pictures]
    BY <1>0, <1>3, <2>1 DEF assign
  <2> QED BY <1>0, <1>3, <2>2, RunsAside DEF assign, rows
<1>4. ASSUME NEW s \in Subjects, raiseFlag(s)
      PROVE  WatchInv'
  BY <1>0, <1>4, RunsAside DEF raiseFlag
<1>5. ASSUME NEW s \in Subjects, resolveFlag(s, "auto")
      PROVE  WatchInv'
  BY <1>0, <1>5, RunsAside DEF resolveFlag
<1>6. ASSUME NEW s \in Subjects, resolveFlag(s, "manual")
      PROVE  WatchInv'
  BY <1>0, <1>6, RunsAside DEF resolveFlag
<1> QED BY <1>1, <1>2, <1>3, <1>4, <1>5, <1>6

(* A step of the runs that writes nothing the counts are about, and begins  *)
(* no writing.                                                              *)
LEMMA RunsGoOn ==
  ASSUME WatchInv, UNCHANGED <<watcher, world, audience, flags, notices>>,
         latest' \in [Subjects -> Statuses \cup {"none"}], faults' \in 0..MaxFaults,
         run' \in [Runners -> RunType], VerdictOK(run'),
         \A w \in Runners : run'[w].at = "create" =>
           run[w].at = "create" /\ run[w].on = run'[w].on,
         watcher = "sla" => \A w \in Runners : run'[w].at = "announce" =>
           run[w].at = "announce" /\ run[w].on = run'[w].on
  PROVE  WatchInv'
<1> USE DEF WatchInv
<1>1. Pictures' = Pictures
  BY DEF Pictures, Rules, Cells, Counts
<1>2. WatchTypeOK'
  BY <1>1 DEF WatchTypeOK, RunType
<1>3. VerdictOK(run)'
  BY DEF VerdictOK
<1>4. MaxNotices \in Nat
  BY AlertsAssumption
<1>5. \A s \in Subjects : flags[s].auto \in Nat /\ notices[s] \in Nat
  BY <1>4 DEF WatchTypeOK
<1>6. FewWrite(flags, notices, run')
  BY <1>5, FewStillWrite
<1>7. FewWrite(flags, notices, run)'
  BY <1>6 DEF FewWrite
<1> QED BY <1>2, <1>3, <1>7

LEMMA RunsTyped ==
  ASSUME WatchInv
  PROVE  /\ WatchTypeOK /\ VerdictOK(run) /\ FewWrite(flags, notices, run)
         /\ run \in [Runners -> RunType] /\ AtRest \in RunType
         /\ latest \in [Subjects -> Statuses \cup {"none"}]
         /\ notices \in [Subjects -> 0..MaxNotices]
         /\ flags \in [Subjects -> [auto : Nat, manual : 0..MaxManual]]
         /\ MaxFaults \in Nat /\ MaxNotices \in Nat /\ faults \in 0..MaxFaults
         /\ \A s \in Subjects : /\ flags[s].auto \in Nat /\ flags[s].manual \in Nat
                                 /\ notices[s] \in Nat
         /\ Cardinality(Runners) \in Nat
<1>1. WatchTypeOK /\ VerdictOK(run) /\ FewWrite(flags, notices, run)
  BY DEF WatchInv
<1>2. /\ run \in [Runners -> RunType] /\ AtRest \in RunType
      /\ latest \in [Subjects -> Statuses \cup {"none"}]
      /\ notices \in [Subjects -> 0..MaxNotices] /\ faults \in 0..MaxFaults
      /\ flags \in [Subjects -> [auto : Nat, manual : 0..MaxManual]]
  BY <1>1 DEF WatchTypeOK, RunType, AtRest, Stages
<1>3. MaxFaults \in Nat /\ MaxNotices \in Nat /\ MaxManual \in Nat
  BY AlertsAssumption
<1>4. \A s \in Subjects : flags[s].auto \in Nat /\ flags[s].manual \in Nat
  BY <1>1, <1>3 DEF WatchTypeOK
<1>5. Cardinality(Runners) \in Nat
  BY BusyFinite
<1> QED BY <1>1, <1>2, <1>3, <1>4, <1>5

(* A run that has taken something up goes on, or tells of it. *)
LEMMA GoesOn ==
  ASSUME run \in [Runners -> RunType], VerdictOK(run), NEW w \in Runners,
         NEW at \in {"next", "announce"}, run[w].on # <<>>,
         run' = [run EXCEPT ![w].at = at]
  PROVE  run' \in [Runners -> RunType] /\ VerdictOK(run')
<1>1. run' \in [Runners -> RunType]
  BY DEF RunType, Stages
<1>2. /\ \A q \in Runners : run'[q].todo = run[q].todo /\ run'[q].on = run[q].on
      /\ \A q \in Runners \ {w} : run'[q].at = run[q].at
      /\ run'[w].at = at
  BY DEF RunType
<1>3. VerdictOK(run')
  BY <1>2 DEF VerdictOK
<1> QED BY <1>1, <1>3

(* What a step does to the record of one run leaves it a record of its kind. *)
LEMMA RunReads ==
  ASSUME NEW r \in RunType, NEW at \in Stages,
         NEW todo \in SUBSET (Subjects \X Verdicts)
  PROVE  [r EXCEPT !.at = at, !.todo = todo] \in RunType
  BY DEF RunType

LEMMA RunTakes ==
  ASSUME NEW r \in RunType, NEW at \in Stages,
         NEW todo \in SUBSET (Subjects \X Verdicts),
         NEW on \in Subjects \X Verdicts
  PROVE  [r EXCEPT !.at = at, !.todo = todo, !.on = on] \in RunType
  BY DEF RunType

LEMMA RunLeft ==
  ASSUME NEW r \in RunType, NEW w
  PROVE  [r EXCEPT !.older = r.older \ {w}] \in RunType
  BY DEF RunType

(* A run begins, reads, refreshes, writes a sample, ends or stops: nothing  *)
(* of it touches a count.                                                   *)
LEMMA RunsWatched ==
  ASSUME WatchInv, NEW w \in Runners,
         \/ Begin(w) \/ Read(w) \/ Refresh(w) \/ Upsert(w)
         \/ End(w) \/ Fail(w)
  PROVE  WatchInv'
<1>0. VerdictOK(run)
  BY DEF WatchInv
<1> USE RunsTyped
<1>1. CASE Begin(w)
  <2>1. run' \in [Runners -> RunType]
    BY <1>1 DEF Begin, UnderWay, AtRest, RunType, Stages
  <2>2. VerdictOK(run')
    BY <1>0, <1>1 DEF Begin, AtRest, VerdictOK
  <2> QED BY <1>1, <2>1, <2>2, RunsGoOn DEF Begin, AtRest, rows
<1>2. CASE Read(w)
  <2> DEFINE found == {p \in Subjects \X Verdicts : Shows(world[p[1]], p[2])}
  <2>1. /\ run' = [run EXCEPT ![w].at = "next", ![w].todo = found]
        /\ UNCHANGED <<watcher, world, audience, flags, latest, notices, faults>>
    BY <1>2 DEF Read, rows
  <2>2. \A p \in found : watcher = "health" => p[2] \in Statuses
    <3> SUFFICES ASSUME NEW p \in Subjects \X Verdicts, watcher = "health",
                        Shows(world[p[1]], p[2]), p[2] \notin Statuses
                 PROVE  FALSE
      OBVIOUS
    <3>1. p[2] \in {"over", "assigned", "unassigned"}
      BY DEF Verdicts
    <3>2. ~Shows(world[p[1]], p[2])
      BY <3>1 DEF Shows, Statuses, Rules
    <3> QED BY <3>2
  <2>3. found \in SUBSET (Subjects \X Verdicts)
    OBVIOUS
  <2> HIDE DEF found
  <2>4. run' \in [Runners -> RunType]
    <3>1. run' = [run EXCEPT ![w] = [run[w] EXCEPT !.at = "next", !.todo = found]]
      BY <2>1
    <3>2. [run[w] EXCEPT !.at = "next", !.todo = found] \in RunType
      <4>1. run[w] \in RunType /\ "next" \in Stages
        BY DEF Stages
      <4> QED BY <2>3, <4>1, RunReads
    <3> QED BY <3>1, <3>2
  <2>5. VerdictOK(run')
    BY <1>0, <2>1, <2>2 DEF VerdictOK
  <2> QED BY <2>1, <2>4, <2>5, RunsGoOn
<1>3. CASE Refresh(w)
  <2>1. run' \in [Runners -> RunType] /\ VerdictOK(run')
    BY <1>0, <1>3 DEF Refresh, Goto, RunType, Stages, VerdictOK
  <2> QED BY <1>3, <2>1, RunsGoOn DEF Refresh, Goto, rows
<1>4. CASE Upsert(w)
  <2>1. watcher = "health" /\ run[w].on[2] \in Statuses /\ run[w].on # <<>>
    BY <1>0, <1>4 DEF Upsert, VerdictOK
  <2>2. run[w].on[1] \in Subjects
    BY <2>1 DEF RunType
  <2>3. /\ run' \in [Runners -> RunType]
        /\ \A q \in Runners : run'[q].todo = run[q].todo /\ run'[q].on = run[q].on
        /\ \A q \in Runners \ {w} : run'[q].at = run[q].at
        /\ run'[w].at \in {"next", "announce"}
    <3> DEFINE at == IF run[w].at = "upsert" THEN "next" ELSE "announce"
               seen == run[w].on[1]
    <3>1. run' = [q \in Runners |->
            IF q = w THEN [run[w] EXCEPT !.at = at]
            ELSE IF q \in run[w].older
                 THEN [run[q] EXCEPT !.overtaken = run[q].overtaken \cup {seen}]
            ELSE run[q]]
      BY <1>4 DEF Upsert
    <3>2. at \in {"next", "announce"} /\ seen \in Subjects
      BY <2>2
    <3> HIDE DEF at, seen
    <3>3. \A q \in Runners : run'[q] \in RunType
      BY <3>1, <3>2 DEF RunType, Stages
    <3>4. run' \in [Runners -> RunType]
      BY <3>1, <3>3
    <3>5. \A q \in Runners : /\ run'[q].todo = run[q].todo /\ run'[q].on = run[q].on
                              /\ run'[q].at = IF q = w THEN at ELSE run[q].at
      BY <3>1 DEF RunType
    <3> QED BY <3>2, <3>4, <3>5
  <2>4. VerdictOK(run')
    BY <1>0, <2>1, <2>3 DEF VerdictOK
  <2>5. latest' \in [Subjects -> Statuses \cup {"none"}]
    BY <1>4, <2>1 DEF Upsert
  <2> QED BY <1>4, <2>1, <2>3, <2>4, <2>5, RunsGoOn DEF Upsert
<1>5. CASE End(w) \/ Fail(w)
  <2>1. run' = Rested(w) /\ UNCHANGED <<watcher, world, audience, flags, latest, notices>>
    BY <1>5 DEF End, Fail, rows
  <2>2. /\ AtRest \in RunType /\ AtRest.at = "idle" /\ AtRest.todo = {}
        /\ run \in [Runners -> RunType]
    BY DEF AtRest
  <2>2a. \A q \in Runners : run'[q] \in RunType
    <3> SUFFICES ASSUME NEW q \in Runners
                 PROVE  run'[q] \in RunType
      OBVIOUS
    <3>1. run'[q] = IF q = w THEN AtRest ELSE [run[q] EXCEPT !.older = run[q].older \ {w}]
      BY <2>1 DEF Rested
    <3>2. [run[q] EXCEPT !.older = run[q].older \ {w}] \in RunType
      BY <2>2, RunLeft
    <3> QED BY <2>2, <3>1, <3>2
  <2>2b. run' \in [Runners -> RunType]
    BY <2>1, <2>2a DEF Rested
  <2>2c. VerdictOK(run')
    BY <1>0, <2>1, <2>2 DEF Rested, VerdictOK, RunType
  <2>3. \A q \in Runners : run'[q].at \in {"create", "announce"} =>
          run[q].at = run'[q].at /\ run[q].on = run'[q].on
    BY <2>1 DEF Rested, AtRest
  <2>4. faults' \in 0..MaxFaults
    BY <1>5 DEF End, Fail
  <2> QED BY <2>1, <2>2b, <2>2c, <2>3, <2>4, RunsGoOn
<1> QED BY <1>1, <1>2, <1>3, <1>4, <1>5

(* A run takes the next one up: it goes on to write only when nothing is on *)
(* record, and then those about to write are all there can be.              *)
LEMMA LookWatched ==
  ASSUME WatchInv, NEW w \in Runners,
         NEW p \in Subjects \X Verdicts,
         LookForFlag(w, p) \/ LookForSample(w, p) \/ LookForNotice(w, p)
  PROVE  WatchInv'
<1>0. /\ VerdictOK(run) /\ FewWrite(flags, notices, run) /\ WatchTypeOK
      /\ run \in [Runners -> RunType] /\ p[1] \in Subjects /\ MaxNotices \in Nat
      /\ \A s \in Subjects : /\ flags[s].auto \in Nat /\ flags[s].manual \in Nat
                              /\ notices[s] \in Nat
      /\ Cardinality(Runners) \in Nat
  BY RunsTyped
<1>1. PICK at \in Stages :
        /\ Take(w, p, at)
        /\ at = "create" => watcher \in Rules /\ flags[p[1]].auto = 0
        /\ at = "announce" => watcher = "sla" /\ notices[p[1]] = 0
        /\ at \in {"upsert", "upsertNews"} => watcher = "health"
  BY <1>0 DEF LookForFlag, LookForSample, LookForNotice, Open, Stages
<1>2. /\ run[w].at = "next" /\ p \in run[w].todo
      /\ run' = [run EXCEPT ![w].at = at, ![w].todo = @ \ {p}, ![w].on = p]
      /\ UNCHANGED <<watcher, world, audience, flags, latest, notices, faults>>
  BY <1>1 DEF Take, rows
<1>3. run' \in [Runners -> RunType]
  <2>1. run' = [run EXCEPT ![w] = [run[w] EXCEPT !.at = at, !.todo = run[w].todo \ {p}, !.on = p]]
    BY <1>2
  <2>2. run[w].todo \ {p} \in SUBSET (Subjects \X Verdicts) /\ run[w] \in RunType
    BY <1>0 DEF RunType
  <2>3. [run[w] EXCEPT !.at = at, !.todo = run[w].todo \ {p}, !.on = p] \in RunType
    BY <2>2, RunTakes
  <2> QED BY <1>0, <2>1, <2>3
<1>4. VerdictOK(run')
  <2>1. /\ run'[w].at = at /\ run'[w].on = p /\ run'[w].todo \subseteq run[w].todo
        /\ \A q \in Runners \ {w} : run'[q] = run[q]
    BY <1>0, <1>2 DEF RunType
  <2>2. p # <<>>
    <3>1. PICK s \in Subjects, verdict \in Verdicts : p = <<s, verdict>>
      OBVIOUS
    <3>2. <<s, verdict>> # <<>>
      OBVIOUS
    <3> QED BY <3>1, <3>2
  <2> QED BY <1>0, <1>1, <1>2, <2>1, <2>2 DEF VerdictOK
<1>5. ASSUME NEW s \in Subjects, NEW stage, s # p[1] \/ stage # at
      PROVE  Busy(run', s, stage) \subseteq Busy(run, s, stage)
  BY <1>0, <1>2, <1>5 DEF Busy, RunType
<1>6. FewWrite(flags, notices, run')
  <2> SUFFICES ASSUME NEW s \in Subjects
               PROVE  /\ flags[s].auto + Cardinality(Busy(run', s, "create")) <= Cardinality(Runners)
                      /\ watcher = "sla" =>
                           notices[s] + Cardinality(Busy(run', s, "announce")) <= Cardinality(Runners)
    BY DEF FewWrite
  <2>1. flags[s].auto + Cardinality(Busy(run', s, "create")) <= Cardinality(Runners)
    <3>1. CASE s = p[1] /\ at = "create"
      BY <1>0, <1>1, <3>1, BusyFinite
    <3>2. CASE s # p[1] \/ "create" # at
      <4>1. Cardinality(Busy(run', s, "create")) <= Cardinality(Busy(run, s, "create"))
        BY <1>5, <3>2, NoMoreBusy
      <4> QED BY <1>0, <4>1, BusyFinite DEF FewWrite
    <3> QED BY <3>1, <3>2
  <2>2. ASSUME watcher = "sla"
        PROVE  notices[s] + Cardinality(Busy(run', s, "announce")) <= Cardinality(Runners)
    <3>1. CASE s = p[1] /\ at = "announce"
      BY <1>0, <1>1, <3>1, BusyFinite
    <3>2. CASE s # p[1] \/ "announce" # at
      <4>1. Cardinality(Busy(run', s, "announce")) <= Cardinality(Busy(run, s, "announce"))
        BY <1>5, <3>2, NoMoreBusy
      <4> QED BY <1>0, <2>2, <4>1, BusyFinite DEF FewWrite
    <3> QED BY <3>1, <3>2
  <2> QED BY <2>1, <2>2
<1>7. Pictures' = Pictures
  BY <1>2 DEF Pictures, Rules, Cells, Counts
<1>8. WatchTypeOK'
  BY <1>0, <1>2, <1>3, <1>7 DEF WatchTypeOK, RunType
<1>9. VerdictOK(run)' /\ FewWrite(flags, notices, run)'
  BY <1>2, <1>4, <1>6 DEF VerdictOK, FewWrite
<1> QED BY <1>8, <1>9 DEF WatchInv

(* A flag is opened: one more on record, one fewer about to be. *)
LEMMA CreateWatched ==
  ASSUME WatchInv, NEW w \in Runners, Create(w)
  PROVE  WatchInv'
<1>0. /\ VerdictOK(run) /\ FewWrite(flags, notices, run) /\ WatchTypeOK
      /\ run \in [Runners -> RunType] /\ MaxNotices \in Nat
      /\ flags \in [Subjects -> [auto : Nat, manual : 0..MaxManual]]
      /\ \A s \in Subjects : flags[s].auto \in Nat /\ notices[s] \in Nat
      /\ Cardinality(Runners) \in Nat
  BY RunsTyped
<1> DEFINE mine == run[w].on[1]
<1>1. run[w].at = "create" /\ mine \in Subjects /\ run[w].on # <<>>
  BY <1>0 DEF Create, VerdictOK, RunType
<1> DEFINE at == IF watcher \in Urgent THEN "announce" ELSE "next"
<1>2. /\ run' = [run EXCEPT ![w].at = at]
      /\ flags' = [flags EXCEPT ![mine].auto = @ + 1]
      /\ UNCHANGED <<watcher, world, audience, latest, notices, faults>>
  BY DEF Create, Goto
<1>2a. at \in {"next", "announce"} /\ (watcher = "sla" => at = "next")
  BY DEF Urgent, Rules
<1> HIDE DEF at, mine
<1>3. run' \in [Runners -> RunType] /\ VerdictOK(run')
  BY <1>0, <1>1, <1>2, <1>2a, GoesOn, Zenon
<1>4. flags' \in [Subjects -> [auto : Nat, manual : 0..MaxManual]]
  <2>1. flags \in [Subjects -> [auto : Nat, manual : 0..MaxManual]]
    BY <1>0
  <2>2. mine \in Subjects /\ flags' = [flags EXCEPT ![mine].auto = @ + 1]
    BY <1>1, <1>2
  <2> QED BY ONLY <2>1, <2>2
<1>5. \A s \in Subjects : flags'[s].auto = IF s = mine THEN flags[s].auto + 1 ELSE flags[s].auto
  BY <1>0, <1>1, <1>2
<1>6. FewWrite(flags', notices, run')
  <2> SUFFICES ASSUME NEW s \in Subjects
               PROVE  /\ flags'[s].auto + Cardinality(Busy(run', s, "create")) <= Cardinality(Runners)
                      /\ watcher = "sla" =>
                           notices[s] + Cardinality(Busy(run', s, "announce")) <= Cardinality(Runners)
    BY DEF FewWrite
  <2>1. Busy(run', s, "create") \subseteq Busy(run, s, "create") \ {w}
    BY <1>0, <1>2, <1>2a DEF Busy, RunType
  <2>2. flags'[s].auto + Cardinality(Busy(run', s, "create")) <= Cardinality(Runners)
    <3>1. CASE s = mine
      <4>1. w \in Busy(run, s, "create")
        BY <1>1, <3>1 DEF Busy, mine
      <4>2. Cardinality(Busy(run', s, "create")) + 1 <= Cardinality(Busy(run, s, "create"))
        BY <2>1, <4>1, OneLessBusy
      <4>3. flags[s].auto + Cardinality(Busy(run, s, "create")) <= Cardinality(Runners)
        BY <1>0 DEF FewWrite
      <4> QED BY <1>0, <1>5, <3>1, <4>2, <4>3, BusyFinite
    <3>2. CASE s # mine
      <4>1. Cardinality(Busy(run', s, "create")) <= Cardinality(Busy(run, s, "create"))
        BY <2>1, NoMoreBusy
      <4> QED BY <1>0, <1>5, <3>2, <4>1, BusyFinite DEF FewWrite
    <3> QED BY <3>1, <3>2
  <2>3. ASSUME watcher = "sla"
        PROVE  notices[s] + Cardinality(Busy(run', s, "announce")) <= Cardinality(Runners)
    <3>1. Busy(run', s, "announce") \subseteq Busy(run, s, "announce")
      BY <1>0, <1>2, <1>2a, <2>3 DEF Busy, RunType
    <3>2. Cardinality(Busy(run', s, "announce")) <= Cardinality(Busy(run, s, "announce"))
      BY <3>1, NoMoreBusy
    <3> QED BY <1>0, <2>3, <3>2, BusyFinite DEF FewWrite
  <2> QED BY <2>2, <2>3
<1>7. Pictures' = Pictures
  BY <1>2 DEF Pictures, Rules, Cells, Counts
<1>8. WatchTypeOK'
  BY <1>0, <1>2, <1>3, <1>4, <1>7 DEF WatchTypeOK, RunType
<1>9. VerdictOK(run)' /\ FewWrite(flags, notices, run)'
  BY <1>2, <1>3, <1>6 DEF VerdictOK, FewWrite
<1> QED BY <1>8, <1>9 DEF WatchInv

(* Staff are told: one more on record, if anybody hears it.  What the other *)
(* watchers tell is no notice of a breach.                                  *)
LEMMA AnnounceWatched ==
  ASSUME WatchInv, NEW w \in Runners, Announce(w)
  PROVE  WatchInv'
<1>0. /\ VerdictOK(run) /\ FewWrite(flags, notices, run) /\ WatchTypeOK
      /\ run \in [Runners -> RunType] /\ MaxNotices \in Nat
      /\ notices \in [Subjects -> 0..MaxNotices]
      /\ \A s \in Subjects : flags[s].auto \in Nat /\ notices[s] \in Nat
      /\ Cardinality(Runners) \in Nat
  BY RunsTyped
<1> DEFINE mine == run[w].on[1]
<1>1. run[w].at = "announce" /\ mine \in Subjects /\ run[w].on # <<>>
  BY <1>0 DEF Announce, VerdictOK, RunType
<1>2. /\ run' = [run EXCEPT ![w].at = "next"]
      /\ notices' = notices \/ (notices[mine] < MaxNotices
                                /\ notices' = [notices EXCEPT ![mine] = @ + 1])
      /\ UNCHANGED <<watcher, world, audience, flags, latest, faults>>
  BY DEF Announce, Goto
<1>3. run' \in [Runners -> RunType] /\ VerdictOK(run')
  BY <1>0, <1>1, <1>2, GoesOn
<1> HIDE DEF mine
<1>4. notices' \in [Subjects -> 0..MaxNotices]
  <2>1. notices \in [Subjects -> 0..MaxNotices] /\ MaxNotices \in Nat /\ mine \in Subjects
    BY <1>0, <1>1
  <2> QED BY <1>2, <2>1
<1>5. \A s \in Subjects :
        notices'[s] \in Nat /\ notices'[s] <= IF s = mine THEN notices[s] + 1 ELSE notices[s]
  BY <1>0, <1>1, <1>2
<1>6. FewWrite(flags, notices', run')
  <2> SUFFICES ASSUME NEW s \in Subjects
               PROVE  /\ flags[s].auto + Cardinality(Busy(run', s, "create")) <= Cardinality(Runners)
                      /\ watcher = "sla" =>
                           notices'[s] + Cardinality(Busy(run', s, "announce")) <= Cardinality(Runners)
    BY DEF FewWrite
  <2>1. /\ Busy(run', s, "create") \subseteq Busy(run, s, "create")
        /\ Busy(run', s, "announce") \subseteq Busy(run, s, "announce") \ {w}
    BY <1>0, <1>2 DEF Busy, RunType
  <2>2. flags[s].auto + Cardinality(Busy(run', s, "create")) <= Cardinality(Runners)
    <3>1. Cardinality(Busy(run', s, "create")) <= Cardinality(Busy(run, s, "create"))
      BY <2>1, NoMoreBusy
    <3> QED BY <1>0, <3>1, BusyFinite DEF FewWrite
  <2>3. ASSUME watcher = "sla"
        PROVE  notices'[s] + Cardinality(Busy(run', s, "announce")) <= Cardinality(Runners)
    <3>0. notices[s] + Cardinality(Busy(run, s, "announce")) <= Cardinality(Runners)
      BY <1>0, <2>3 DEF FewWrite
    <3>1. CASE s = mine
      <4>1. w \in Busy(run, s, "announce")
        BY <1>1, <3>1 DEF Busy, mine
      <4>2. Cardinality(Busy(run', s, "announce")) + 1 <= Cardinality(Busy(run, s, "announce"))
        BY <2>1, <4>1, OneLessBusy
      <4> QED BY <1>0, <1>5, <3>0, <3>1, <4>2, BusyFinite
    <3>2. CASE s # mine
      <4>1. Cardinality(Busy(run', s, "announce")) <= Cardinality(Busy(run, s, "announce"))
        BY <2>1, NoMoreBusy
      <4> QED BY <1>0, <1>5, <3>0, <3>2, <4>1, BusyFinite
    <3> QED BY <3>1, <3>2
  <2> QED BY <2>2, <2>3
<1>7. Pictures' = Pictures
  BY <1>2 DEF Pictures, Rules, Cells, Counts
<1>8. WatchTypeOK'
  BY <1>0, <1>2, <1>3, <1>4, <1>7 DEF WatchTypeOK, RunType
<1>9. VerdictOK(run)' /\ FewWrite(flags, notices, run)'
  BY <1>2, <1>3, <1>6 DEF VerdictOK, FewWrite
<1> QED BY <1>8, <1>9 DEF WatchInv

LEMMA InitWatched == WatchInit => WatchInv
<1> SUFFICES ASSUME WatchInit
             PROVE  WatchInv
  OBVIOUS
<1>1. /\ MaxNotices \in Nat /\ MaxManual \in Nat /\ MaxFaults \in Nat
  BY AlertsAssumption
<1>2. WatchTypeOK
  BY <1>1 DEF WatchInit, WatchTypeOK, AtRest, Stages
<1>3. VerdictOK(run)
  BY DEF WatchInit, AtRest, VerdictOK
<1>4. FewWrite(flags, notices, run)
  BY BusyFinite DEF WatchInit, FewWrite
<1> QED BY <1>2, <1>3, <1>4 DEF WatchInv

LEMMA NextWatched == WatchInv /\ [WatchNext]_watchVars => WatchInv'
<1> SUFFICES ASSUME WatchInv, [WatchNext]_watchVars
             PROVE  WatchInv'
  OBVIOUS
<1>1. CASE \/ WorldChanges \/ StaffChange
           \/ \E s \in Subjects : assign(s) \/ raiseFlag(s)
                \/ resolveFlag(s, "auto") \/ resolveFlag(s, "manual")
  BY <1>1, WorldWatched
<1>2. ASSUME NEW w \in Runners, Begin(w) \/ Fail(w)
      PROVE  WatchInv'
  BY <1>2, RunsWatched
<1>3. ASSUME NEW w \in Runners, Step(w)
      PROVE  WatchInv'
  BY <1>3, RunsWatched, LookWatched, CreateWatched, AnnounceWatched DEF Step
<1>4. CASE UNCHANGED watchVars
  <2>1. /\ UNCHANGED <<watcher, latest, notices, run, faults>>
        /\ world' = world /\ audience' = audience /\ flags' = flags
    BY <1>4 DEF watchVars
  <2>2. \A s \in Subjects : flags'[s].auto <= flags[s].auto
    BY <2>1, RunsTyped
  <2>3. /\ world' \in [Subjects -> Pictures] /\ audience' \in BOOLEAN
        /\ flags' \in [Subjects -> [auto : Nat, manual : 0..MaxManual]]
    BY <2>1, RunsTyped DEF WatchTypeOK
  <2> QED BY <2>1, <2>2, <2>3, RunsAside
<1> QED BY <1>1, <1>2, <1>3, <1>4 DEF WatchNext

(* Every variable of the jobs that watch keeps its type, and what is on     *)
(* record of a subject and about to be is at most what the runs are, from   *)
(* its first reading on (scan, sample, sweepSlaBreaches).                   *)
THEOREM WatchInvariance == WatchSpec => []WatchInv
<1>1. WatchInit => WatchInv
  BY InitWatched
<1>2. WatchInv /\ [WatchNext]_watchVars => WatchInv'
  BY NextWatched
<1> QED BY <1>1, <1>2, PTL DEF WatchSpec

(* However often an account is over a rule or a review past its SLA, and    *)
(* whatever staff resolve, scans and retries raise and fail in between, no  *)
(* more is open or told of it than one for each run there can be at once:   *)
(* the look for an open flag (risk.service.ts:33) and for an earlier notice *)
(* (sender-ids.service.ts:821) hold back every other.                       *)
THEOREM NoticedOnce == WatchSpec => []SeldomTwice
<1>1. WatchSpec => []WatchInv
  BY WatchInvariance
<1>2. WatchInv => SeldomTwice
  <2> SUFFICES ASSUME WatchInv, NEW s \in Subjects
               PROVE  /\ flags[s].auto <= Cardinality(Runners)
                      /\ watcher = "sla" => notices[s] <= Cardinality(Runners)
    BY DEF SeldomTwice
  <2> QED BY RunsTyped, BusyFinite DEF FewWrite
<1> QED BY <1>1, <1>2, PTL

================================================================================
