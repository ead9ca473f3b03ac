--------------------------- MODULE CreditAdjustments ---------------------------
(***************************************************************************)
(* The credit desk: src/src/modules/credits/credits.service.ts and the     *)
(* balance-adjustment call of api-core, which owns the ledger.             *)
(*                                                                         *)
(* Each HTTP request runs the service's code in a slot of its own; every   *)
(* await is a point where the other slots run.  A database write or an     *)
(* audit write may fail, a call to api-core may be refused or time out     *)
(* (and still be carried out later), and the process may stop anywhere.    *)
(***************************************************************************)
EXTENDS Naturals, Sequences

CONSTANTS Adjustments,  \* the adjustment rows that can be created
          Staff, NoOne, \* members of staff, and nobody
          Approvers,    \* active staff whose role holds credits.approve
          Amounts,      \* the amounts staff ask for
          Threshold,    \* limits.creditApprovalThresholdNgn
          Keys, NoKey,  \* idempotency keys
          Requests,     \* how many HTTP requests run at once: the bound
          NoAdjustment

ASSUME CreditAssumption ==
  /\ NoOne \notin Staff
  /\ Approvers \subseteq Staff
  /\ Amounts \subseteq Nat \ {0}
  /\ Threshold \in Nat
  /\ NoKey \notin Keys
  /\ NoAdjustment \notin Adjustments

VARIABLES adjustments,  \* the credit_adjustments table of the admin database
          req,          \* what each running request has still to do
          ledger,       \* api-core's ledger entries, one per key
          late,         \* calls the client gave up on that may still arrive
          audit         \* the audit log

vars == <<adjustments, req, ledger, late, audit>>

Statuses == {"PENDING_APPROVAL", "APPROVED", "APPLIED", "REJECTED", "FAILED"}

(* What a running request does next. *)
Stages == {"idle", "auditRequest", "writeApproval", "auditApproval",
           "auditRejection", "call", "writeApplied", "auditApplied", "writeFailed"}

(* The entries somebody's leave to move money rests on.  The writes of the  *)
(* others (rejected, applied) are steps that may fail; their text is not    *)
(* kept.                                                                    *)
AuditActions == {"adjust_requested", "adjust_approved"}

NoRow == [status |-> "NONE", amount |-> 0, requestedBy |-> NoOne,
          approvedBy |-> NoOne, idempotencyKey |-> NoKey]

Idle == [at |-> "idle", adj |-> NoAdjustment, actor |-> NoOne]

needsApprovalOffByOne(amount) == amount > Threshold + 1

needsApproval(amount) == amount > Threshold

Created(a) == adjustments[a].status # "NONE"

(* What a balance-adjustment call carries. *)
Calls == [key : Keys, adjustment : Adjustments, amount : Amounts]

TypeOK ==
  /\ adjustments \in [Adjustments ->
       [status : Statuses \cup {"NONE"}, amount : Amounts \cup {0},
        requestedBy : Staff \cup {NoOne}, approvedBy : Staff \cup {NoOne},
        idempotencyKey : Keys \cup {NoKey}]]
  /\ req \in [Requests -> [at : Stages, adj : Adjustments \cup {NoAdjustment},
                           actor : Staff \cup {NoOne}]]
  /\ ledger \in Seq(Calls)
  /\ late \subseteq Calls
  /\ audit \subseteq [action : AuditActions, adjustment : Adjustments, actor : Staff]

Init ==
  /\ adjustments = [a \in Adjustments |-> NoRow]
  /\ req = [r \in Requests |-> Idle]
  /\ ledger = <<>> /\ late = {} /\ audit = {}

--------------------------------------------------------------------------------
(* The pieces the handlers are made of.                                    *)

Begin(r, stage, a, s) ==
  /\ req[r] = Idle
  /\ req' = [req EXCEPT ![r] = [at |-> stage, adj |-> a, actor |-> s]]

Goto(r, stage) == req' = [req EXCEPT ![r].at = stage]

Finish(r) == req' = [req EXCEPT ![r] = Idle]

GotoOrFinish(r, stage) == IF stage = "idle" THEN Finish(r) ELSE Goto(r, stage)

SetStatus(a, status) == adjustments' = [adjustments EXCEPT ![a].status = status]

(* audit.record throws when its write fails: the handler goes on to `next`   *)
(* with the entry written, or to `failed` without it.                        *)
AuditRecordSafe(r, action, next, failed) ==
  /\ \/ audit' = audit \cup {[action |-> action, adjustment |-> req[r].adj,
                              actor |-> req[r].actor]}
     \/ UNCHANGED audit
  /\ GotoOrFinish(r, next)

AuditRecord(r, action, next, failed) ==
  \/ /\ audit' = audit \cup {[action |-> action, adjustment |-> req[r].adj,
                              actor |-> req[r].actor]}
     /\ GotoOrFinish(r, next)
  \/ /\ UNCHANGED audit
     /\ GotoOrFinish(r, failed)

Posted(k) == \E i \in DOMAIN ledger : ledger[i].key = k

CallWithNewKey(a) ==
  [key |-> IF \A k \in Keys : Posted(k) THEN adjustments[a].idempotencyKey
           ELSE CHOOSE k \in Keys : ~Posted(k),
   adjustment |-> a, amount |-> adjustments[a].amount]

(* What is sent to api-core: the row's own key travels with the amount. *)
Call(a) == [key |-> adjustments[a].idempotencyKey, adjustment |-> a,
            amount |-> adjustments[a].amount]

(* api-core files a posting under its key, and answers a key it already holds *)
(* with what it did the first time.                                           *)
Post(c) == ledger' = IF Posted(c.key) THEN ledger ELSE Append(ledger, c)

--------------------------------------------------------------------------------
(* request: the row is created before anything else is written.  Telling   *)
(* the approvers, its last step, puts lines in inboxes nothing here reads. *)

Request(r, s, a, amount, k) ==
  /\ ~Created(a)
  /\ \A b \in Adjustments : adjustments[b].idempotencyKey # k
  /\ adjustments' = [adjustments EXCEPT ![a] =
       [status |-> IF needsApproval(amount) THEN "PENDING_APPROVAL" ELSE "APPROVED",
        amount |-> amount, requestedBy |-> s,
        approvedBy |-> IF needsApproval(amount) THEN NoOne ELSE s,
        idempotencyKey |-> k]]
  /\ Begin(r, "auditRequest", a, s)
  /\ UNCHANGED <<ledger, late, audit>>

AuditRequested(r) ==
  /\ req[r].at = "auditRequest"
  /\ AuditRecord(r, "adjust_requested",
                 IF needsApproval(adjustments[req[r].adj].amount) THEN "idle" ELSE "call",
                 "idle")
  /\ UNCHANGED <<adjustments, ledger, late>>

(* approve: reads the row, checks it, and writes what it decided later on. *)
ApproveUnchecked(r, s, a) ==
  /\ Created(a) /\ adjustments[a].status = "PENDING_APPROVAL"
  /\ Begin(r, "writeApproval", a, s)
  /\ UNCHANGED <<adjustments, ledger, late, audit>>

ApproveAnyStatus(r, s, a) ==
  /\ Created(a)
  /\ adjustments[a].requestedBy # s
  /\ Begin(r, "writeApproval", a, s)
  /\ UNCHANGED <<adjustments, ledger, late, audit>>

Approve(r, s, a) ==
  /\ Created(a)
  /\ adjustments[a].status = "PENDING_APPROVAL"
  /\ adjustments[a].requestedBy # s
  /\ Begin(r, "writeApproval", a, s)
  /\ UNCHANGED <<adjustments, ledger, late, audit>>

WriteApproval(r) ==
  /\ req[r].at = "writeApproval"
  /\ adjustments' = [adjustments EXCEPT ![req[r].adj] =
                       [@ EXCEPT !.status = "APPROVED", !.approvedBy = req[r].actor]]
  /\ Goto(r, "auditApproval")
  /\ UNCHANGED <<ledger, late, audit>>

AuditApproved(r) ==
  /\ req[r].at = "auditApproval"
  /\ AuditRecord(r, "adjust_approved", "call", "idle")
  /\ UNCHANGED <<adjustments, ledger, late>>

(* reject: one unconditional write, whatever the status was. *)
Reject(r, s, a) ==
  /\ Created(a)
  /\ SetStatus(a, "REJECTED")
  /\ Begin(r, "auditRejection", a, s)
  /\ UNCHANGED <<ledger, late, audit>>

AuditRejected(r) ==
  /\ req[r].at = "auditRejection"
  /\ Finish(r)
  /\ UNCHANGED <<adjustments, ledger, late, audit>>

(* retry: only a FAILED row goes back to api-core. *)
Retry(r, s, a) ==
  /\ Created(a)
  /\ adjustments[a].status = "FAILED"
  /\ Begin(r, "call", a, s)
  /\ UNCHANGED <<adjustments, ledger, late, audit>>

--------------------------------------------------------------------------------
(* apply: reads the row - only what never changes after its creation - and *)
(* calls api-core.                                                         *)

(* The answer came in time. *)
ApiCoreAnswers(r) ==
  /\ req[r].at = "call"
  /\ Post(Call(req[r].adj))
  /\ Goto(r, "writeApplied")
  /\ UNCHANGED <<adjustments, late, audit>>

(* api-core refused, or could not be reached. *)
ApiCoreRefuses(r) ==
  /\ req[r].at = "call"
  /\ Goto(r, "writeFailed")
  /\ UNCHANGED <<adjustments, ledger, late, audit>>

(* The client gave up; the call may arrive all the same. *)
TimeoutTakenForSuccess(r) ==
  /\ req[r].at = "call"
  /\ late' = late \cup {Call(req[r].adj)}
  /\ Goto(r, "writeApplied")
  /\ UNCHANGED <<adjustments, ledger, audit>>

CallTimesOut(r) ==
  /\ req[r].at = "call"
  /\ late' = late \cup {Call(req[r].adj)}
  /\ Goto(r, "writeFailed")
  /\ UNCHANGED <<adjustments, ledger, audit>>

LateCallArrives(c) ==
  /\ c \in late
  /\ late' = late \ {c}
  /\ Post(c)
  /\ UNCHANGED <<adjustments, req, audit>>

(* The catch block takes a failure of this write for a failure of the call. *)
WriteApplied(r) ==
  /\ req[r].at = "writeApplied"
  /\ \/ SetStatus(req[r].adj, "APPLIED") /\ Goto(r, "auditApplied")
     \/ UNCHANGED adjustments /\ Goto(r, "writeFailed")
  /\ UNCHANGED <<ledger, late, audit>>

AuditApplied(r) ==
  /\ req[r].at = "auditApplied"
  /\ Finish(r) \/ Goto(r, "writeFailed")
  /\ UNCHANGED <<adjustments, ledger, late, audit>>

WriteFailed(r) ==
  /\ req[r].at = "writeFailed"
  /\ SetStatus(req[r].adj, "FAILED")
  /\ Finish(r)
  /\ UNCHANGED <<ledger, late, audit>>

(* The process stops, or a write outside the try block throws: the rest of *)
(* the handler never runs, and a call that was out may still arrive.       *)
Stop(r) ==
  /\ req[r] # Idle
  /\ late' \in IF req[r].at = "call" THEN {late, late \cup {Call(req[r].adj)}} ELSE {late}
  /\ Finish(r)
  /\ UNCHANGED <<adjustments, ledger, audit>>

Step(r) ==
  \/ AuditRequested(r) \/ WriteApproval(r) \/ AuditApproved(r)
  \/ AuditRejected(r) \/ ApiCoreAnswers(r) \/ ApiCoreRefuses(r) \/ CallTimesOut(r)
  \/ WriteApplied(r) \/ AuditApplied(r) \/ WriteFailed(r) \/ Stop(r)

Next ==
  \/ \E r \in Requests, a \in Adjustments :
       \/ \E s \in Staff, amount \in Amounts, k \in Keys : Request(r, s, a, amount, k)
       \/ \E s \in Approvers : Approve(r, s, a) \/ Reject(r, s, a) \/ Retry(r, s, a)
  \/ \E r \in Requests : Step(r)
  \/ \E c \in late : LateCallArrives(c)

Spec == Init /\ [][Next]_vars

--------------------------------------------------------------------------------
(* The money of an adjustment moves at most once, however often its call is *)
(* repeated by racing approvers, retries and calls that arrive after their  *)
(* time-out (apply and retry, and the key created by request).              *)
MovesAtMostOnce ==
  \A i, j \in DOMAIN ledger : ledger[i].adjustment = ledger[j].adjustment => i = j

(* A posting above the threshold was approved by somebody other than the    *)
(* member of staff who asked for it, and the row says who (the guards of    *)
(* approve; the races of two approvers, a reject and a retry).              *)
LargeNeedsSecondPerson ==
  \A i \in DOMAIN ledger : needsApproval(ledger[i].amount) =>
    LET row == adjustments[ledger[i].adjustment]
    IN row.approvedBy \in Staff \ {row.requestedBy}

(* No money moves before the audit log says who let it: the requester of a  *)
(* small adjustment, a second person for a large one (audit.record throws,  *)
(* and apply comes after it).                                               *)
MovesAreAudited ==
  \A i \in DOMAIN ledger :
    LET row == adjustments[ledger[i].adjustment]
    IN \E e \in audit :
         /\ e.adjustment = ledger[i].adjustment
         /\ IF needsApproval(ledger[i].amount)
            THEN e.action = "adjust_approved" /\ e.actor # row.requestedBy
            ELSE e.action = "adjust_requested" /\ e.actor = row.requestedBy

(* A row that says APPLIED has its posting, for its own amount: no time-out, *)
(* refusal or lost answer is taken for a success.                            *)
AppliedHasMoved ==
  \A a \in Adjustments : adjustments[a].status = "APPLIED" =>
    \E i \in DOMAIN ledger : /\ ledger[i].adjustment = a
                             /\ ledger[i].amount = adjustments[a].amount

(* Nobody is on the way to changing row a or moving its money. *)
Quiet(a) ==
  /\ \A r \in Requests : req[r].adj = a => req[r].at = "auditRejection"
  /\ \A c \in late : c.adjustment # a

Closed(a) == adjustments[a].status = "REJECTED" /\ Quiet(a)

Moved(a) == \E i \in DOMAIN ledger : ledger[i].adjustment = a

(* A rejection that nobody raced is final: the row stays rejected, no later *)
(* approve or retry takes it up, and its money stays where it is (the       *)
(* status guards of approve and retry).                                     *)
RejectionIsFinal ==
  [][\A a \in Adjustments : Closed(a) => Closed(a)' /\ (Moved(a)' <=> Moved(a))]_vars

(* What the abstract ledger sees of the rows. *)
Sheet == [a \in Adjustments |-> [amount |-> adjustments[a].amount,
                                 requestedBy |-> adjustments[a].requestedBy,
                                 approvedBy |-> adjustments[a].approvedBy]]

Promise == INSTANCE TwoPersonLedger WITH sheet <- Sheet

(* Every behaviour of the service is one of the abstract ledger: raised     *)
(* once, signed off by a second person when large, moved at most once.      *)
KeepsPromise == Promise!Spec
================================================================================
