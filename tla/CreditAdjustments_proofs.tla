----------------------- MODULE CreditAdjustments_proofs -----------------------
(***************************************************************************)
(* Proofs about the credit desk for every set of adjustments, staff and    *)
(* requests and every threshold.  The invariants TLC checks are not        *)
(* inductive: a posting is the end of a chain (approval read, approval     *)
(* written, audit written, call, late arrival), and the invariant below    *)
(* says what every link of it may rely on.                                 *)
(***************************************************************************)
EXTENDS CreditAdjustments, SequenceTheorems, TLAPS

(* Somebody who may do so has let the money of row a move, and the audit    *)
(* log says so.                                                             *)
Licensed(a) ==
  IF needsApproval(adjustments[a].amount)
  THEN /\ adjustments[a].approvedBy \in Staff \ {adjustments[a].requestedBy}
       /\ \E e \in audit : /\ e.adjustment = a
                           /\ e.action = "adjust_approved"
                           /\ e.actor # adjustments[a].requestedBy
  ELSE \E e \in audit : /\ e.adjustment = a
                        /\ e.action = "adjust_requested"
                        /\ e.actor = adjustments[a].requestedBy

(* A call somebody may have sent: the row's own key and amount, licensed. *)
GoodCall(c) == Created(c.adjustment) /\ Licensed(c.adjustment) /\ c = Call(c.adjustment)

RowsOK ==
  \A a \in Adjustments : Created(a) =>
    /\ adjustments[a].amount \in Amounts
    /\ adjustments[a].requestedBy \in Staff
    /\ adjustments[a].idempotencyKey \in Keys
    /\ adjustments[a].status = "PENDING_APPROVAL" => needsApproval(adjustments[a].amount)
    /\ adjustments[a].status = "FAILED" => Licensed(a)

BlankOK == \A a \in Adjustments : ~Created(a) => adjustments[a] = NoRow

KeysOK ==
  \A a, b \in Adjustments :
    Created(a) /\ Created(b)
      /\ adjustments[a].idempotencyKey = adjustments[b].idempotencyKey => a = b

(* What a running request may rely on, by what it does next. *)
RequestOK(q) ==
  /\ q.adj \in Adjustments /\ q.actor \in Staff /\ Created(q.adj)
  /\ q.at = "auditRequest" => q.actor = adjustments[q.adj].requestedBy
  /\ q.at \in {"writeApproval", "auditApproval"} =>
       /\ needsApproval(adjustments[q.adj].amount)
       /\ q.actor # adjustments[q.adj].requestedBy
  /\ q.at = "auditApproval" =>
       adjustments[q.adj].approvedBy \in Staff \ {adjustments[q.adj].requestedBy}
  /\ q.at \in {"call", "writeApplied", "auditApplied", "writeFailed"} => Licensed(q.adj)
  /\ q.at \in {"writeApplied", "auditApplied"} => Moved(q.adj)

RequestsOK == \A r \in Requests : req[r] = Idle \/ RequestOK(req[r])

LedgerOK == \A i \in DOMAIN ledger : GoodCall(ledger[i])

LateOK == \A c \in late : GoodCall(c)

AppliedOK == \A a \in Adjustments : adjustments[a].status = "APPLIED" => Moved(a)

IInv ==
  /\ TypeOK /\ RowsOK /\ BlankOK /\ KeysOK /\ RequestsOK
  /\ LedgerOK /\ LateOK /\ AppliedOK /\ MovesAtMostOnce
--------------------------------------------------------------------------------
(* What no step undoes: audit entries, postings, and what a row was created *)
(* with.  Only a second person overwrites approvedBy.                       *)
Keeps ==
  /\ audit \subseteq audit'
  /\ \A i \in DOMAIN ledger : i \in DOMAIN ledger' /\ ledger'[i] = ledger[i]
  /\ \A a \in Adjustments : Created(a) =>
       /\ Created(a)'
       /\ adjustments'[a].amount = adjustments[a].amount
       /\ adjustments'[a].requestedBy = adjustments[a].requestedBy
       /\ adjustments'[a].idempotencyKey = adjustments[a].idempotencyKey
       /\ \/ adjustments'[a].approvedBy = adjustments[a].approvedBy
          \/ adjustments'[a].approvedBy \in Staff \ {adjustments[a].requestedBy}

LEMMA KeepsLicences ==
  ASSUME Keeps, NEW a \in Adjustments, Created(a)
  PROVE  /\ Licensed(a) => Licensed(a)'
         /\ Call(a)' = Call(a)
         /\ Moved(a) => Moved(a)'
  <1>1. Call(a)' = Call(a)
    BY DEF Keeps, Call
  <1>2. Moved(a) => Moved(a)'
    BY DEF Keeps, Moved
  <1>3. ASSUME Licensed(a) PROVE Licensed(a)'
    BY <1>3 DEF Keeps, Licensed, needsApproval
  <1>4. QED
    BY <1>1, <1>2, <1>3

(* Filing a posting appends it, unless its key is on file already. *)
LEMMA PostAppends ==
  ASSUME TypeOK, NEW c \in Calls, Post(c)
  PROVE  /\ ledger' \in Seq(Calls)
         /\ \A i \in DOMAIN ledger : i \in DOMAIN ledger' /\ ledger'[i] = ledger[i]
         /\ \A i \in DOMAIN ledger' : i \in DOMAIN ledger \/ (ledger'[i] = c /\ ~Posted(c.key))
         /\ \A i, j \in DOMAIN ledger' : i \notin DOMAIN ledger /\ j \notin DOMAIN ledger => i = j
         /\ \E i \in DOMAIN ledger' : ledger'[i].key = c.key
  <1>1. ledger \in Seq(Calls)
    BY DEF TypeOK
  <1>2. CASE Posted(c.key)
    BY <1>1, <1>2 DEF Post, Posted
  <1>3. CASE ~Posted(c.key)
    <2>1. ledger' = Append(ledger, c)
      BY <1>3 DEF Post
    <2>2. /\ ledger' \in Seq(Calls)
          /\ Len(ledger') = Len(ledger) + 1
          /\ \A i \in 1..Len(ledger) : ledger'[i] = ledger[i]
          /\ ledger'[Len(ledger) + 1] = c
      BY <1>1, <2>1, AppendProperties
    <2>3. DOMAIN ledger = 1..Len(ledger) /\ DOMAIN ledger' = 1..Len(ledger') /\ Len(ledger) \in Nat
      BY <1>1, <2>2
    <2>4. QED
      BY <1>3, <2>2, <2>3
  <1>4. QED
    BY <1>2, <1>3

(* What api-core is sent for an existing, licensed row is a call of the     *)
(* right type.                                                              *)
LEMMA CallType ==
  ASSUME TypeOK, RowsOK, NEW a \in Adjustments, Created(a)
  PROVE  Call(a) \in Calls
  BY DEF RowsOK, Call, Calls

LEMMA Entry ==
  ASSUME NEW s \in Seq(Calls), NEW i \in DOMAIN s
  PROVE  s[i] \in Calls /\ s[i].adjustment \in Adjustments
  <1>1. s[i] \in Calls
    BY ElementOfSeq
  <1>2. QED
    BY <1>1 DEF Calls

(* A posting for an existing row leaves every invariant of the ledger. *)
LEMMA PostSafe ==
  ASSUME IInv, NEW a \in Adjustments, Created(a), Licensed(a), Post(Call(a)),
         UNCHANGED <<adjustments, audit>>
  PROVE  /\ ledger' \in Seq(Calls)
         /\ Keeps /\ LedgerOK' /\ MovesAtMostOnce' /\ Moved(a)'
  <1> DEFINE c == Call(a)
  <1>1. c \in Calls
    BY CallType DEF IInv
  <1>2. /\ ledger' \in Seq(Calls)
        /\ \A i \in DOMAIN ledger : i \in DOMAIN ledger' /\ ledger'[i] = ledger[i]
        /\ \A i \in DOMAIN ledger' : i \in DOMAIN ledger \/ (ledger'[i] = c /\ ~Posted(c.key))
        /\ \A i, j \in DOMAIN ledger' : i \notin DOMAIN ledger /\ j \notin DOMAIN ledger => i = j
        /\ \E i \in DOMAIN ledger' : ledger'[i].key = c.key
    BY <1>1, PostAppends DEF IInv
  <1>3. Keeps
    BY <1>2 DEF Keeps, Created
  <1>4. GoodCall(c)
    BY DEF GoodCall, Call
  <1>5. \A d : GoodCall(d) => GoodCall(d)'
    BY DEF GoodCall, Created, Licensed, Call
  <1>6. LedgerOK'
    BY <1>2, <1>4, <1>5 DEF LedgerOK, IInv
  <1>7. \A i \in DOMAIN ledger : ledger[i].adjustment = a => Posted(c.key)
    BY DEF IInv, LedgerOK, GoodCall, Call, Posted
  <1>8. c.adjustment = a
    BY DEF Call
  <1>9. MovesAtMostOnce'
    BY <1>2, <1>7, <1>8 DEF MovesAtMostOnce, IInv
  <1>10. Moved(a)'
    <2>1. PICK i \in DOMAIN ledger' : ledger'[i].key = c.key
      BY <1>2
    <2>2. ledger'[i].adjustment \in Adjustments
      BY <1>2, Entry
    <2>3. Created(ledger'[i].adjustment) /\ ledger'[i] = Call(ledger'[i].adjustment)
      BY <1>6, <2>1 DEF LedgerOK, GoodCall, Created, Call
    <2>4. ledger'[i].adjustment = a
      BY <2>1, <2>2, <2>3 DEF IInv, KeysOK, Call
    <2>5. QED
      BY <2>4 DEF Moved
  <1>11. QED
    BY <1>2, <1>3, <1>6, <1>9, <1>10

(* The init state. *)
LEMMA InitInv == Init => IInv
  <1> SUFFICES ASSUME Init PROVE IInv
    OBVIOUS
  <1>1. DOMAIN ledger = {}
    BY DEF Init
  <1>2. \A a \in Adjustments : ~Created(a) /\ adjustments[a] = NoRow
    BY DEF Init, Created, NoRow
  <1>3. TypeOK
    BY DEF Init, TypeOK, NoRow, Idle, Stages, Statuses
  <1>4. QED
    BY <1>1, <1>2, <1>3 DEF Init, IInv, RowsOK, BlankOK, KeysOK, RequestsOK, LedgerOK, LateOK,
       AppliedOK, MovesAtMostOnce, NoRow

(* A step that keeps the rows' licences and touches neither the ledger nor  *)
(* the late calls keeps what is said of those.                              *)
LEMMA LedgerKept ==
  ASSUME IInv, Keeps, UNCHANGED ledger, late' \subseteq late
  PROVE  LedgerOK' /\ LateOK' /\ MovesAtMostOnce'
  <1>1. ASSUME NEW c \in Calls, GoodCall(c)
        PROVE  GoodCall(c)'
    BY <1>1, KeepsLicences DEF GoodCall, Keeps, Calls
  <1>2. \A i \in DOMAIN ledger : ledger[i] \in Calls
    BY Entry DEF IInv, TypeOK
  <1>3. LedgerOK'
    BY <1>1, <1>2 DEF IInv, LedgerOK
  <1>4. LateOK'
    <2>1. ASSUME NEW c \in late' PROVE GoodCall(c)'
      <3>1. c \in Calls /\ GoodCall(c)
        BY <2>1 DEF IInv, LateOK, TypeOK
      <3>2. QED
        BY <1>1, <3>1
    <2>2. QED
      BY <2>1 DEF LateOK
  <1>5. QED
    BY <1>3, <1>4 DEF IInv, MovesAtMostOnce

(* The requests that do not take the step still have what they rely on. *)
LEMMA OthersKept ==
  ASSUME IInv, Keeps, NEW r \in Requests, \A q \in Requests \ {r} : req'[q] = req[q]
  PROVE  \A q \in Requests \ {r} : req'[q] = Idle \/ RequestOK(req[q])'
  <1> SUFFICES ASSUME NEW q \in Requests \ {r}, req[q] # Idle
               PROVE  RequestOK(req[q])'
    OBVIOUS
  <1>1. RequestOK(req[q])
    BY DEF IInv, RequestsOK
  <1>2. req[q].adj \in Adjustments /\ Created(req[q].adj)
    BY <1>1 DEF RequestOK
  <1>3. /\ Licensed(req[q].adj) => Licensed(req[q].adj)'
        /\ Moved(req[q].adj) => Moved(req[q].adj)'
    BY <1>2, KeepsLicences
  <1>4. QED
    BY <1>1, <1>2, <1>3 DEF RequestOK, Keeps, needsApproval

--------------------------------------------------------------------------------
(* One lemma per kind of step.                                              *)

LEMMA RequestInv ==
  ASSUME IInv, NEW r \in Requests, NEW a \in Adjustments, NEW s \in Staff,
         NEW amount \in Amounts, NEW k \in Keys, Request(r, s, a, amount, k)
  PROVE  IInv'
  <1> DEFINE row == [status |-> IF needsApproval(amount) THEN "PENDING_APPROVAL"
                                ELSE "APPROVED",
                     amount |-> amount, requestedBy |-> s,
                     approvedBy |-> IF needsApproval(amount) THEN NoOne ELSE s,
                     idempotencyKey |-> k]
  <1>1. TypeOK'
    <2>1. row \in [status : Statuses \cup {"NONE"}, amount : Amounts \cup {0},
                   requestedBy : Staff \cup {NoOne}, approvedBy : Staff \cup {NoOne},
                   idempotencyKey : Keys \cup {NoKey}]
      BY DEF Statuses
    <2>2. adjustments' = [adjustments EXCEPT ![a] = row]
      BY DEF Request
    <2>3. [at |-> "auditRequest", adj |-> a, actor |-> s]
            \in [at : Stages, adj : Adjustments \cup {NoAdjustment}, actor : Staff \cup {NoOne}]
      BY DEF Stages
    <2> HIDE DEF row
    <2>4. QED
      BY <2>1, <2>2, <2>3 DEF IInv, TypeOK, Request, Begin
  <1>2. adjustments'[a] = row
    BY DEF IInv, TypeOK, Request
  <1>3. \A b \in Adjustments : b # a => adjustments'[b] = adjustments[b]
    BY DEF IInv, TypeOK, Request
  <1>4. Keeps
    BY <1>3 DEF Keeps, Request, Created
  <1>5. LedgerOK' /\ LateOK' /\ MovesAtMostOnce'
    BY <1>4, LedgerKept DEF Request
  <1>6. RowsOK'
    <2>1. ASSUME NEW b \in Adjustments, b # a, Created(b)'
          PROVE  Created(b) /\ (Licensed(b) => Licensed(b)')
      <3>1. Created(b)
        BY <1>3, <2>1 DEF Created
      <3>2. QED
        BY <1>4, <3>1, KeepsLicences
    <2>2. \A b \in Adjustments : b # a => needsApproval(adjustments'[b].amount)
                                            = needsApproval(adjustments[b].amount)
      BY <1>3
    <2>3. QED
      BY <1>2, <1>3, <2>1, <2>2 DEF IInv, RowsOK, needsApproval
  <1>7. KeysOK'
    <2>1. \A b \in Adjustments : adjustments[b].idempotencyKey # adjustments'[a].idempotencyKey
      BY <1>2 DEF Request
    <2>2. \A b \in Adjustments : b # a => (Created(b)' <=> Created(b))
      BY <1>3 DEF Created
    <2>3. QED
      BY <1>3, <2>1, <2>2 DEF IInv, KeysOK
  <1>8. req'[r] = [at |-> "auditRequest", adj |-> a, actor |-> s]
    BY DEF Request, Begin, IInv, TypeOK
  <1>9. RequestOK(req[r])'
    BY <1>2, <1>8 DEF RequestOK, Created
  <1>10. RequestsOK'
    BY <1>4, <1>9, OthersKept DEF RequestsOK, Request, Begin, IInv, TypeOK
  <1>11. AppliedOK'
    BY <1>2, <1>3, <1>4 DEF IInv, AppliedOK, Moved, Request
  <1>12. BlankOK'
    BY <1>3, <1>4 DEF IInv, BlankOK, Created, Keeps, Request
  <1>13. QED
    BY <1>1, <1>5, <1>6, <1>7, <1>10, <1>11, <1>12 DEF IInv

(* Every other step changes at most the status of a row, the request that   *)
(* takes it, and the calls still out.                                       *)
NewStatusOK(a) ==
  /\ ~Created(a) => adjustments'[a] = adjustments[a]
  /\ \/ adjustments'[a].status = adjustments[a].status
     \/ /\ Created(a)
        /\ \/ adjustments'[a].status \in {"APPROVED", "REJECTED"}
           \/ adjustments'[a].status = "FAILED" /\ Licensed(a)
           \/ adjustments'[a].status = "APPLIED" /\ Moved(a)

LEMMA StepInv ==
  ASSUME IInv, TypeOK', Keeps, LedgerOK', MovesAtMostOnce', NEW r \in Requests,
         \A q \in Requests \ {r} : req'[q] = req[q],
         req'[r] = Idle \/ RequestOK(req[r])',
         \A a \in Adjustments : NewStatusOK(a),
         \A c \in late' : c \in late \/ GoodCall(c)
  PROVE  IInv'
  <1>1. \A a \in Adjustments : Created(a)' => Created(a)
    BY DEF NewStatusOK, Created
  <1>2. RowsOK'
    <2> SUFFICES ASSUME NEW a \in Adjustments, Created(a), Created(a)'
                 PROVE  /\ adjustments'[a].amount \in Amounts
                        /\ adjustments'[a].requestedBy \in Staff
                        /\ adjustments'[a].idempotencyKey \in Keys
                        /\ adjustments'[a].status = "PENDING_APPROVAL"
                             => needsApproval(adjustments'[a].amount)
                        /\ adjustments'[a].status = "FAILED" => Licensed(a)'
      BY <1>1 DEF RowsOK, needsApproval
    <2>1. /\ adjustments'[a].amount = adjustments[a].amount
          /\ adjustments'[a].requestedBy = adjustments[a].requestedBy
          /\ adjustments'[a].idempotencyKey = adjustments[a].idempotencyKey
      BY DEF Keeps
    <2>2. adjustments'[a].status = "PENDING_APPROVAL" => adjustments[a].status = "PENDING_APPROVAL"
      BY DEF NewStatusOK
    <2>3. adjustments'[a].status = "FAILED" => Licensed(a)'
      <3>1. NewStatusOK(a) /\ (adjustments[a].status = "FAILED" => Licensed(a))
        BY DEF IInv, RowsOK
      <3>2. Licensed(a) => Licensed(a)'
        BY KeepsLicences
      <3>3. QED
        BY <3>1, <3>2 DEF NewStatusOK
    <2>4. QED
      BY <2>1, <2>2, <2>3 DEF IInv, RowsOK
  <1>3. KeysOK'
    BY <1>1 DEF IInv, KeysOK, Keeps, Created
  <1>4. RequestsOK'
    BY OthersKept DEF RequestsOK
  <1>5. LateOK'
    <2>1. ASSUME NEW c \in late' PROVE GoodCall(c)'
      <3>1. GoodCall(c) /\ c \in Calls
        <4>1. c \in late \/ GoodCall(c)
          BY <2>1
        <4>2. c \in Calls
          BY <2>1 DEF TypeOK
        <4>3. QED
          BY <4>1, <4>2 DEF IInv, LateOK
      <3>2. c.adjustment \in Adjustments
        BY <3>1 DEF Calls
      <3>3. QED
        BY KeepsLicences, <3>1, <3>2 DEF GoodCall, Keeps
    <2>2. QED
      BY <2>1 DEF LateOK
  <1>6. AppliedOK'
    <2>1. ASSUME NEW a \in Adjustments, adjustments'[a].status = "APPLIED" PROVE Moved(a)'
      <3>1. NewStatusOK(a) /\ (adjustments[a].status = "APPLIED" => Moved(a))
        BY DEF IInv, AppliedOK
      <3>2. Moved(a) /\ Created(a)
        BY <2>1, <3>1 DEF NewStatusOK, Created
      <3>3. QED
        BY KeepsLicences, <3>2
    <2>2. QED
      BY <2>1 DEF AppliedOK
  <1>7. BlankOK'
    BY DEF IInv, BlankOK, NewStatusOK, Created
  <1>8. QED
    BY <1>2, <1>3, <1>4, <1>5, <1>6, <1>7 DEF IInv

(* Steps that write neither a row nor the ledger. *)
LEMMA RequestOnlyInv ==
  ASSUME IInv, NEW r \in Requests, UNCHANGED <<adjustments, ledger>>, TypeOK',
         audit \subseteq audit',
         \A q \in Requests \ {r} : req'[q] = req[q],
         req'[r] = Idle \/ RequestOK(req[r])',
         \A c \in late' : c \in late \/ GoodCall(c)
  PROVE  IInv'
  <1>1. Keeps
    BY DEF Keeps, Created
  <1>2. LedgerOK'
    <2>1. ASSUME NEW i \in DOMAIN ledger PROVE GoodCall(ledger[i])'
      <3>1. GoodCall(ledger[i]) /\ ledger[i].adjustment \in Adjustments
        BY Entry DEF IInv, TypeOK, LedgerOK
      <3>2. QED
        BY <1>1, <3>1, KeepsLicences DEF GoodCall, Keeps
    <2>2. QED
      BY <2>1 DEF LedgerOK
  <1>3. MovesAtMostOnce'
    BY DEF IInv, MovesAtMostOnce
  <1>4. \A a \in Adjustments : NewStatusOK(a)
    BY DEF NewStatusOK
  <1>5. QED
    BY <1>1, <1>2, <1>3, <1>4, StepInv

LEMMA Running ==
  ASSUME IInv, NEW r \in Requests, req[r].at # "idle"
  PROVE  RequestOK(req[r]) /\ req[r].adj \in Adjustments /\ req[r].actor \in Staff
  BY DEF IInv, RequestsOK, Idle, RequestOK

(* What moving a request on, or ending it, does to the table of requests.   *)
LEMMA GotoStep ==
  ASSUME TypeOK, NEW r \in Requests, NEW stage \in Stages, Goto(r, stage)
  PROVE  /\ req' \in [Requests -> [at : Stages, adj : Adjustments \cup {NoAdjustment},
                                   actor : Staff \cup {NoOne}]]
         /\ \A q \in Requests \ {r} : req'[q] = req[q]
         /\ req'[r] = [req[r] EXCEPT !.at = stage]
  BY DEF TypeOK, Goto

LEMMA FinishStep ==
  ASSUME TypeOK, NEW r \in Requests, Finish(r)
  PROVE  /\ req' \in [Requests -> [at : Stages, adj : Adjustments \cup {NoAdjustment},
                                   actor : Staff \cup {NoOne}]]
         /\ \A q \in Requests \ {r} : req'[q] = req[q]
         /\ req'[r] = Idle
  <1>1. Idle \in [at : Stages, adj : Adjustments \cup {NoAdjustment}, actor : Staff \cup {NoOne}]
    BY DEF Idle, Stages
  <1>2. QED
    BY <1>1 DEF TypeOK, Finish

(* An audit step: one entry more or none, and the request moves on or ends. *)
LEMMA AuditStep ==
  ASSUME TypeOK, NEW r \in Requests, NEW action \in AuditActions,
         NEW next \in Stages, NEW failed \in Stages,
         AuditRecord(r, action, next, failed)
  PROVE  /\ req' \in [Requests -> [at : Stages, adj : Adjustments \cup {NoAdjustment},
                                   actor : Staff \cup {NoOne}]]
         /\ \A q \in Requests \ {r} : req'[q] = req[q]
  <1>1. PICK stage \in {next, failed} : GotoOrFinish(r, stage)
    BY DEF AuditRecord
  <1>2. CASE stage = "idle"
    BY <1>1, <1>2, FinishStep DEF GotoOrFinish
  <1>3. CASE stage # "idle"
    BY <1>1, <1>3, GotoStep DEF GotoOrFinish
  <1>4. QED
    BY <1>2, <1>3

(* Taking up a row that exists: approve and retry. *)
LEMMA BeginInv ==
  ASSUME IInv, NEW r \in Requests, NEW a \in Adjustments, NEW s \in Approvers,
         Approve(r, s, a) \/ Retry(r, s, a)
  PROVE  IInv'
  <1>1. s \in Staff
    BY CreditAssumption
  <1>2. TypeOK'
    <2>1. PICK stage \in {"writeApproval", "call"} :
            req' = [req EXCEPT ![r] = [at |-> stage, adj |-> a, actor |-> s]]
      BY DEF Approve, Retry, Begin
    <2>2. stage \in Stages
      BY DEF Stages
    <2>3. req' \in [Requests -> [at : Stages, adj : Adjustments \cup {NoAdjustment},
                                 actor : Staff \cup {NoOne}]]
      BY <1>1, <2>1, <2>2 DEF IInv, TypeOK
    <2>4. UNCHANGED <<adjustments, ledger, late, audit>>
      BY DEF Approve, Retry
    <2>5. QED
      BY <2>3, <2>4 DEF IInv, TypeOK
  <1>3. /\ \A q \in Requests \ {r} : req'[q] = req[q]
        /\ req'[r].adj = a /\ req'[r].actor = s /\ req'[r].at \in {"writeApproval", "call"}
    BY DEF IInv, TypeOK, Approve, Retry, Begin
  <1>4. RequestOK(req[r])'
    <2>1. CASE Approve(r, s, a)
      <3>1. req'[r].at = "writeApproval"
        BY <2>1 DEF IInv, TypeOK, Approve, Begin
      <3>2. /\ Created(a)' /\ needsApproval(adjustments'[a].amount)
            /\ s # adjustments'[a].requestedBy
        BY <2>1 DEF IInv, RowsOK, Approve, Created
      <3>3. QED
        BY <1>1, <1>3, <3>1, <3>2 DEF RequestOK, Created
    <2>2. CASE Retry(r, s, a)
      <3>1. req'[r].at = "call" /\ UNCHANGED <<adjustments, audit>>
        BY <2>2 DEF IInv, TypeOK, Retry, Begin
      <3>2. Created(a) /\ Licensed(a)
        BY <2>2 DEF IInv, RowsOK, Retry
      <3>3. Created(a)' /\ Licensed(a)'
        BY <3>1, <3>2 DEF Created, Licensed
      <3>4. QED
        BY <1>1, <1>3, <3>1, <3>3 DEF RequestOK
    <2>3. QED
      BY <2>1, <2>2
  <1>5. UNCHANGED <<adjustments, ledger, late, audit>>
    BY DEF Approve, Retry
  <1>6. QED
    BY <1>2, <1>3, <1>4, <1>5, RequestOnlyInv

(* The audit steps before the money moves. *)
LEMMA AuditInv ==
  ASSUME IInv, NEW r \in Requests, AuditRequested(r) \/ AuditApproved(r)
  PROVE  IInv'
  <1>1. PICK a \in Adjustments : a = req[r].adj /\ RequestOK(req[r]) /\ req[r].actor \in Staff
    BY Running DEF AuditRequested, AuditApproved
  <1>2. UNCHANGED <<adjustments, ledger, late>> /\ audit \subseteq audit'
    BY DEF AuditRequested, AuditApproved, AuditRecord
  <1>3. /\ req' \in [Requests -> [at : Stages, adj : Adjustments \cup {NoAdjustment},
                                  actor : Staff \cup {NoOne}]]
        /\ \A q \in Requests \ {r} : req'[q] = req[q]
    <2>1. /\ "idle" \in Stages /\ "call" \in Stages
          /\ "adjust_requested" \in AuditActions /\ "adjust_approved" \in AuditActions
      BY DEF Stages, AuditActions
    <2>2. TypeOK
      BY DEF IInv
    <2>3. CASE AuditRequested(r)
      <3>1. PICK next \in {"idle", "call"} : AuditRecord(r, "adjust_requested", next, "idle")
        BY <2>3 DEF AuditRequested
      <3>2. QED
        BY <2>1, <2>2, <3>1, AuditStep
    <2>4. CASE AuditApproved(r)
      BY <2>1, <2>2, <2>4, AuditStep DEF AuditApproved
    <2>5. QED
      BY <2>3, <2>4
  <1>4. TypeOK'
    <2>1. req' \in [Requests -> [at : Stages, adj : Adjustments \cup {NoAdjustment},
                                 actor : Staff \cup {NoOne}]]
      BY <1>3
    <2>2. audit' \subseteq [action : AuditActions, adjustment : Adjustments, actor : Staff]
      BY <1>1 DEF IInv, TypeOK, AuditRequested, AuditApproved, AuditRecord, AuditActions
    <2>3. QED
      BY <1>2, <2>1, <2>2 DEF IInv, TypeOK
  <1>5. req'[r] = Idle \/ RequestOK(req[r])'
    <2> SUFFICES ASSUME req'[r] # Idle PROVE RequestOK(req[r])'
      OBVIOUS
    <2>1. req'[r].at = "call" /\ req'[r].adj = a /\ req'[r].actor = req[r].actor
      BY <1>1 DEF IInv, TypeOK, AuditRequested, AuditApproved, AuditRecord, GotoOrFinish, Goto,
         Finish
    <2>2. Licensed(a)'
      <3>1. CASE AuditRequested(r)
        <4>1. /\ ~needsApproval(adjustments[a].amount)
              /\ [action |-> "adjust_requested", adjustment |-> a, actor |-> req[r].actor] \in audit'
          BY <1>1, <3>1 DEF IInv, TypeOK, AuditRequested, AuditRecord, GotoOrFinish, Finish
        <4>2. req[r].actor = adjustments[a].requestedBy
          BY <1>1, <3>1 DEF RequestOK, AuditRequested
        <4>3. QED
          BY <1>2, <4>1, <4>2 DEF Licensed, needsApproval
      <3>2. CASE AuditApproved(r)
        <4>1. [action |-> "adjust_approved", adjustment |-> a, actor |-> req[r].actor] \in audit'
          BY <1>1, <3>2 DEF IInv, TypeOK, AuditApproved, AuditRecord, GotoOrFinish, Finish
        <4>2. /\ req[r].actor # adjustments[a].requestedBy
              /\ needsApproval(adjustments[a].amount)
              /\ adjustments[a].approvedBy \in Staff \ {adjustments[a].requestedBy}
          BY <1>1, <3>2 DEF RequestOK, AuditApproved
        <4>3. QED
          BY <1>2, <4>1, <4>2 DEF Licensed, needsApproval
      <3>3. QED
        BY <3>1, <3>2
    <2>3. Created(a)'
      BY <1>1, <1>2 DEF RequestOK, Created
    <2>4. QED
      BY <1>1, <2>1, <2>2, <2>3 DEF RequestOK
  <1>6. QED
    BY <1>2, <1>4, <1>3, <1>5, RequestOnlyInv

(* Steps that end the handler or send it to its catch block. *)
LEMMA FailInv ==
  ASSUME IInv, NEW r \in Requests,
         \/ AuditRejected(r) \/ ApiCoreRefuses(r) \/ CallTimesOut(r)
         \/ AuditApplied(r) \/ Stop(r)
  PROVE  IInv'
  <1>1. PICK a \in Adjustments : a = req[r].adj /\ RequestOK(req[r]) /\ req[r].actor \in Staff
    BY Running DEF AuditRejected, ApiCoreRefuses, CallTimesOut, AuditApplied, Stop, IInv,
       RequestsOK, RequestOK
  <1>2. UNCHANGED <<adjustments, ledger, audit>>
    BY DEF AuditRejected, ApiCoreRefuses, CallTimesOut, AuditApplied, Stop
  <1>3. PICK stage \in {"idle", "writeFailed"} :
          /\ IF stage = "idle" THEN Finish(r) ELSE Goto(r, stage)
          /\ stage = "writeFailed" => req[r].at \in {"call", "auditApplied"}
    BY DEF AuditRejected, ApiCoreRefuses, CallTimesOut, AuditApplied, Stop
  <1>4. /\ req' \in [Requests -> [at : Stages, adj : Adjustments \cup {NoAdjustment},
                                  actor : Staff \cup {NoOne}]]
        /\ \A q \in Requests \ {r} : req'[q] = req[q]
        /\ \/ req'[r] = Idle
           \/ /\ req[r].at \in {"call", "auditApplied"} /\ req'[r].at = "writeFailed"
              /\ req'[r].adj = a /\ req'[r].actor = req[r].actor
    <2>1. TypeOK /\ "writeFailed" \in Stages
      BY DEF IInv, Stages
    <2>2. CASE stage = "idle"
      BY <1>3, <2>1, <2>2, FinishStep
    <2>3. CASE stage = "writeFailed"
      <3>1. /\ req' \in [Requests -> [at : Stages, adj : Adjustments \cup {NoAdjustment},
                                      actor : Staff \cup {NoOne}]]
            /\ \A q \in Requests \ {r} : req'[q] = req[q]
            /\ req'[r] = [req[r] EXCEPT !.at = "writeFailed"]
        BY <1>3, <2>1, <2>3, GotoStep
      <3>2. req[r] \in [at : Stages, adj : Adjustments \cup {NoAdjustment},
                        actor : Staff \cup {NoOne}]
        BY <2>1 DEF TypeOK
      <3>3. QED
        BY <1>1, <1>3, <2>3, <3>1, <3>2
    <2>4. QED
      BY <2>2, <2>3
  <1>5. \/ late' = late
        \/ req[r].at = "call" /\ late' = late \cup {Call(a)}
    BY <1>1 DEF AuditRejected, ApiCoreRefuses, CallTimesOut, AuditApplied, Stop
  <1>6. req[r].at = "call" => GoodCall(Call(a)) /\ Call(a) \in Calls
    BY <1>1, CallType DEF IInv, RequestOK, GoodCall, Call
  <1>7. \A c \in late' : c \in late \/ GoodCall(c)
    BY <1>5, <1>6
  <1>8. TypeOK'
    BY <1>2, <1>4, <1>5, <1>6 DEF IInv, TypeOK
  <1>9. req'[r] = Idle \/ RequestOK(req[r])'
    <2> SUFFICES ASSUME req'[r] # Idle PROVE RequestOK(req[r])'
      OBVIOUS
    <2>1. Created(a) /\ Licensed(a)
      BY <1>1, <1>4 DEF RequestOK
    <2>2. Created(a)' /\ Licensed(a)'
      BY <1>2, <2>1 DEF Created, Licensed
    <2>3. QED
      BY <1>1, <1>4, <2>2 DEF RequestOK
  <1>10. QED
    BY <1>2, <1>4, <1>7, <1>8, <1>9, RequestOnlyInv

(* The approval: status and approver together. *)
LEMMA WriteApprovalInv ==
  ASSUME IInv, NEW r \in Requests, WriteApproval(r)
  PROVE  IInv'
  <1>1. PICK a \in Adjustments : a = req[r].adj /\ RequestOK(req[r]) /\ req[r].actor \in Staff
    BY Running DEF WriteApproval
  <1>2. /\ Created(a) /\ needsApproval(adjustments[a].amount)
        /\ req[r].actor # adjustments[a].requestedBy /\ req[r].at = "writeApproval"
    BY <1>1 DEF WriteApproval, RequestOK
  <1>3. UNCHANGED <<ledger, late, audit>>
    BY DEF WriteApproval
  <1>4. /\ adjustments'[a].status = "APPROVED" /\ adjustments'[a].approvedBy = req[r].actor
        /\ adjustments'[a].amount = adjustments[a].amount
        /\ adjustments'[a].requestedBy = adjustments[a].requestedBy
        /\ adjustments'[a].idempotencyKey = adjustments[a].idempotencyKey
        /\ \A b \in Adjustments \ {a} : adjustments'[b] = adjustments[b]
    BY <1>1 DEF IInv, TypeOK, WriteApproval
  <1>5. TypeOK'
    <2> DEFINE Row == [status : Statuses \cup {"NONE"}, amount : Amounts \cup {0},
                       requestedBy : Staff \cup {NoOne}, approvedBy : Staff \cup {NoOne},
                       idempotencyKey : Keys \cup {NoKey}]
    <2>1. PICK row : row = [adjustments[a] EXCEPT !.status = "APPROVED", !.approvedBy = req[r].actor]
      OBVIOUS
    <2>2. adjustments[a] \in Row
      BY DEF IInv, TypeOK
    <2>3. row \in Row
      BY <1>1, <2>1, <2>2 DEF Statuses
    <2>4. adjustments' = [adjustments EXCEPT ![a] = row]
      BY <1>1, <2>1 DEF WriteApproval
    <2>5. adjustments' \in [Adjustments -> Row]
      BY <2>3, <2>4 DEF IInv, TypeOK
    <2>6. req' \in [Requests -> [at : Stages, adj : Adjustments \cup {NoAdjustment},
                                 actor : Staff \cup {NoOne}]]
      <3>1. TypeOK /\ "auditApproval" \in Stages /\ Goto(r, "auditApproval")
        BY DEF IInv, Stages, WriteApproval
      <3>2. QED
        BY <3>1, GotoStep
    <2>7. QED
      BY <1>3, <2>5, <2>6 DEF IInv, TypeOK
  <1>6. Keeps
    BY <1>1, <1>2, <1>3, <1>4 DEF Keeps, Created
  <1>7. LedgerOK' /\ MovesAtMostOnce'
    BY <1>3, <1>6, LedgerKept
  <1>8. \A b \in Adjustments : NewStatusOK(b)
    BY <1>2, <1>4 DEF NewStatusOK
  <1>9. /\ req'[r].at = "auditApproval" /\ req'[r].adj = a /\ req'[r].actor = req[r].actor
        /\ \A q \in Requests \ {r} : req'[q] = req[q]
    BY <1>1 DEF IInv, TypeOK, WriteApproval, Goto
  <1>10. RequestOK(req[r])'
    BY <1>1, <1>2, <1>4, <1>9 DEF RequestOK, Created, needsApproval
  <1>11. QED
    BY <1>3, <1>5, <1>6, <1>7, <1>8, <1>9, <1>10, StepInv

(* Writes of the status alone: reject, and both ends of apply. *)
LEMMA StatusInv ==
  ASSUME IInv, NEW r \in Requests, NEW a \in Adjustments, Created(a),
         NEW st \in {"REJECTED", "FAILED", "APPLIED"},
         st = "FAILED" => Licensed(a), st = "APPLIED" => Moved(a),
         SetStatus(a, st), UNCHANGED <<ledger, late, audit>>,
         req' \in [Requests -> [at : Stages, adj : Adjustments \cup {NoAdjustment},
                               actor : Staff \cup {NoOne}]],
         \A q \in Requests \ {r} : req'[q] = req[q],
         req'[r] = Idle \/ RequestOK(req[r])'
  PROVE  IInv'
  <1>1. /\ adjustments'[a].status = st
        /\ adjustments'[a].approvedBy = adjustments[a].approvedBy
        /\ adjustments'[a].amount = adjustments[a].amount
        /\ adjustments'[a].requestedBy = adjustments[a].requestedBy
        /\ adjustments'[a].idempotencyKey = adjustments[a].idempotencyKey
        /\ \A b \in Adjustments \ {a} : adjustments'[b] = adjustments[b]
    BY DEF IInv, TypeOK, SetStatus
  <1>2. TypeOK'
    <2>1. st \in Statuses
      BY DEF Statuses
    <2> DEFINE Row == [status : Statuses \cup {"NONE"}, amount : Amounts \cup {0},
                       requestedBy : Staff \cup {NoOne}, approvedBy : Staff \cup {NoOne},
                       idempotencyKey : Keys \cup {NoKey}]
    <2>2. adjustments[a] \in Row /\ adjustments \in [Adjustments -> Row]
      BY DEF IInv, TypeOK
    <2>3. PICK row : row = [adjustments[a] EXCEPT !.status = st]
      OBVIOUS
    <2>4. row \in Row
      BY <2>1, <2>2, <2>3
    <2>5. adjustments' = [adjustments EXCEPT ![a] = row]
      BY <2>3 DEF SetStatus
    <2> HIDE DEF Row
    <2>6. adjustments' \in [Adjustments -> Row]
      BY <2>2, <2>4, <2>5
    <2>7. QED
      BY <2>6 DEF IInv, TypeOK, Row
  <1>3. Keeps
    BY <1>1 DEF Keeps, Created
  <1>4. LedgerOK' /\ MovesAtMostOnce'
    BY <1>3, LedgerKept
  <1>5. \A b \in Adjustments : NewStatusOK(b)
    <2>1. NewStatusOK(a)
      BY <1>1 DEF NewStatusOK
    <2>2. \A b \in Adjustments \ {a} : NewStatusOK(b)
      BY <1>1 DEF NewStatusOK
    <2>3. QED
      BY <2>1, <2>2
  <1>6. QED
    BY <1>2, <1>3, <1>4, <1>5, StepInv

LEMMA RejectInv ==
  ASSUME IInv, NEW r \in Requests, NEW a \in Adjustments, NEW s \in Approvers, Reject(r, s, a)
  PROVE  IInv'
  <1>1. s \in Staff
    BY CreditAssumption
  <1>2. /\ req' \in [Requests -> [at : Stages, adj : Adjustments \cup {NoAdjustment},
                                  actor : Staff \cup {NoOne}]]
        /\ \A q \in Requests \ {r} : req'[q] = req[q]
        /\ req'[r] = [at |-> "auditRejection", adj |-> a, actor |-> s]
    BY <1>1 DEF IInv, TypeOK, Reject, Begin, Stages
  <1>3. Created(a)'
    BY DEF IInv, TypeOK, Reject, SetStatus, Created
  <1>4. RequestOK(req[r])'
    BY <1>1, <1>2, <1>3 DEF RequestOK
  <1>5. QED
    BY <1>2, <1>4, StatusInv DEF Reject

LEMMA WriteEndInv ==
  ASSUME IInv, NEW r \in Requests, WriteApplied(r) \/ WriteFailed(r)
  PROVE  IInv'
  <1>1. PICK a \in Adjustments : a = req[r].adj /\ RequestOK(req[r]) /\ req[r].actor \in Staff
    BY Running DEF WriteApplied, WriteFailed
  <1>2. Created(a) /\ Licensed(a) /\ (req[r].at = "writeApplied" => Moved(a))
    BY <1>1 DEF WriteApplied, WriteFailed, RequestOK
  <1>3. UNCHANGED <<ledger, late, audit>>
    BY DEF WriteApplied, WriteFailed
  <1>4. /\ req' \in [Requests -> [at : Stages, adj : Adjustments \cup {NoAdjustment},
                                  actor : Staff \cup {NoOne}]]
        /\ \A q \in Requests \ {r} : req'[q] = req[q]
    <2>1. TypeOK /\ "auditApplied" \in Stages /\ "writeFailed" \in Stages
      BY DEF IInv, Stages
    <2>2. Finish(r) \/ Goto(r, "auditApplied") \/ Goto(r, "writeFailed")
      BY DEF WriteApplied, WriteFailed
    <2>3. QED
      BY <2>1, <2>2, FinishStep, GotoStep
  <1>5. CASE WriteApplied(r) /\ SetStatus(a, "APPLIED") /\ Goto(r, "auditApplied")
    <2>1. req[r].at = "writeApplied" /\ req'[r] = [req[r] EXCEPT !.at = "auditApplied"]
      BY <1>5 DEF IInv, TypeOK, WriteApplied, Goto
    <2>2. Created(a)' /\ Licensed(a)' /\ Moved(a)'
      BY <1>2, <1>3, <1>5, <2>1 DEF IInv, TypeOK, SetStatus, Created, Licensed, Moved
    <2>3. RequestOK(req[r])'
      BY <1>1, <1>4, <2>1, <2>2 DEF RequestOK
    <2>4. QED
      BY <1>2, <1>3, <1>4, <1>5, <2>1, <2>3, StatusInv
  <1>6. CASE WriteApplied(r) /\ UNCHANGED adjustments /\ Goto(r, "writeFailed")
    <2>1. req'[r] = [req[r] EXCEPT !.at = "writeFailed"]
      BY <1>6 DEF IInv, TypeOK, Goto
    <2>2. Created(a)' /\ Licensed(a)'
      BY <1>2, <1>3, <1>6 DEF Created, Licensed
    <2>3. RequestOK(req[r])'
      BY <1>1, <1>4, <2>1, <2>2 DEF RequestOK
    <2>4. TypeOK'
      BY <1>3, <1>4, <1>6 DEF IInv, TypeOK
    <2>5. QED
      BY <1>3, <1>4, <1>6, <2>3, <2>4, RequestOnlyInv
  <1>7. CASE WriteFailed(r)
    <2>1. SetStatus(a, "FAILED") /\ req'[r] = Idle
      BY <1>1, <1>7 DEF IInv, TypeOK, WriteFailed, Finish
    <2>2. QED
      BY <1>2, <1>3, <1>4, <2>1, StatusInv
  <1>8. QED
    BY <1>1, <1>5, <1>6, <1>7 DEF WriteApplied

(* The postings: an answer that came in time, and a call that came late. *)
LEMMA AnswerInv ==
  ASSUME IInv, NEW r \in Requests, ApiCoreAnswers(r)
  PROVE  IInv'
  <1>1. PICK a \in Adjustments : a = req[r].adj /\ RequestOK(req[r]) /\ req[r].actor \in Staff
    BY Running DEF ApiCoreAnswers
  <1>2. Created(a) /\ Licensed(a) /\ Post(Call(a)) /\ UNCHANGED <<adjustments, late, audit>>
    BY <1>1 DEF ApiCoreAnswers, RequestOK
  <1>3. /\ ledger' \in Seq(Calls)
        /\ Keeps /\ LedgerOK' /\ MovesAtMostOnce' /\ Moved(a)'
    BY <1>2, PostSafe
  <1>4. /\ req' \in [Requests -> [at : Stages, adj : Adjustments \cup {NoAdjustment},
                                  actor : Staff \cup {NoOne}]]
        /\ \A q \in Requests \ {r} : req'[q] = req[q]
        /\ req'[r] = [req[r] EXCEPT !.at = "writeApplied"]
    <2>1. TypeOK /\ "writeApplied" \in Stages
      BY DEF IInv, Stages
    <2>2. Goto(r, "writeApplied")
      BY DEF ApiCoreAnswers
    <2>3. QED
      BY <2>1, <2>2, GotoStep
  <1>5. TypeOK'
    BY <1>2, <1>3, <1>4 DEF IInv, TypeOK
  <1>6. Created(a)' /\ Licensed(a)'
    BY <1>2 DEF Created, Licensed
  <1>7. RequestOK(req[r])'
    BY <1>1, <1>3, <1>4, <1>6 DEF RequestOK
  <1>8. \A b \in Adjustments : NewStatusOK(b)
    BY <1>2 DEF NewStatusOK
  <1>9. QED
    BY <1>2, <1>3, <1>4, <1>5, <1>7, <1>8, StepInv

LEMMA LateInv ==
  ASSUME IInv, NEW c \in late, LateCallArrives(c)
  PROVE  IInv'
  <1>1. PICK a \in Adjustments : a = c.adjustment /\ c = Call(a) /\ Created(a) /\ Licensed(a)
    BY DEF IInv, TypeOK, Calls, LateOK, GoodCall
  <1>2. /\ Post(Call(a)) /\ UNCHANGED <<adjustments, req, audit>> /\ late' \subseteq late
    BY <1>1 DEF LateCallArrives
  <1>3. /\ ledger' \in Seq(Calls)
        /\ Keeps /\ LedgerOK' /\ MovesAtMostOnce'
    BY <1>1, <1>2, PostSafe
  <1>4. TypeOK'
    BY <1>2, <1>3 DEF IInv, TypeOK
  <1>5. \A b \in Adjustments : NewStatusOK(b)
    BY <1>2 DEF NewStatusOK
  <1>6. CASE Requests = {}
    <2>1. RowsOK' /\ AppliedOK'
      <3>1. ASSUME NEW b \in Adjustments, Created(b) PROVE Licensed(b) => Licensed(b)'
        BY <1>3, <3>1, KeepsLicences
      <3>2. ASSUME NEW b \in Adjustments, Created(b) PROVE Moved(b) => Moved(b)'
        BY <1>3, <3>2, KeepsLicences
      <3>3. QED
        BY <1>2, <3>1, <3>2 DEF IInv, RowsOK, BlankOK, AppliedOK, Created, Licensed, needsApproval
    <2>2. QED
      BY <1>2, <1>3, <1>4, <1>6, <2>1
         DEF IInv, BlankOK, KeysOK, RequestsOK, LateOK, GoodCall, Created, Licensed, Call
  <1>7. CASE Requests # {}
    <2>1. PICK r \in Requests : TRUE
      BY <1>7
    <2>2. req[r] = Idle \/ RequestOK(req[r])
      BY DEF IInv, RequestsOK
    <2>3. req[r] # Idle => RequestOK(req[r])'
      <3>1. ASSUME req[r] # Idle PROVE RequestOK(req[r])'
        <4>1. PICK b \in Adjustments : b = req[r].adj /\ RequestOK(req[r])
          BY <2>2, <3>1 DEF RequestOK
        <4>2. Moved(b) => Moved(b)'
          BY <1>3, <4>1, KeepsLicences DEF RequestOK
        <4>3. Created(b)' = Created(b) /\ Licensed(b)' = Licensed(b)
          BY <1>2 DEF Created, Licensed
        <4>4. QED
          BY <1>2, <4>1, <4>2, <4>3 DEF RequestOK
      <3>2. QED
        BY <3>1
    <2>4. QED
      BY <1>2, <1>3, <1>4, <1>5, <2>2, <2>3, StepInv
  <1>8. QED
    BY <1>6, <1>7

--------------------------------------------------------------------------------
(* The invariant holds in every reachable state.                            *)

LEMMA NextInv ==
  ASSUME IInv, Next
  PROVE  IInv'
  <1>1. ASSUME NEW r \in Requests, NEW a \in Adjustments, NEW s \in Staff,
               NEW amount \in Amounts, NEW k \in Keys, Request(r, s, a, amount, k)
        PROVE  IInv'
    BY <1>1, RequestInv
  <1>2. ASSUME NEW r \in Requests, NEW a \in Adjustments, NEW s \in Approvers,
               Approve(r, s, a) \/ Reject(r, s, a) \/ Retry(r, s, a)
        PROVE  IInv'
    BY <1>2, BeginInv, RejectInv
  <1>3. ASSUME NEW r \in Requests, Step(r) PROVE IInv'
    BY <1>3, AuditInv, FailInv, WriteApprovalInv, WriteEndInv, AnswerInv DEF Step
  <1>4. ASSUME NEW c \in late, LateCallArrives(c) PROVE IInv'
    BY <1>4, LateInv
  <1>5. QED
    BY <1>1, <1>2, <1>3, <1>4 DEF Next

LEMMA StutterInv ==
  ASSUME IInv, UNCHANGED vars
  PROVE  IInv'
  BY DEF vars, IInv, TypeOK, RowsOK, BlankOK, KeysOK, RequestsOK, RequestOK, LedgerOK, LateOK,
     AppliedOK, MovesAtMostOnce, GoodCall, Licensed, Created, Call, Moved, needsApproval

(* The strengthened invariant holds in every state: the two-person rule and *)
(* the single move per adjustment of credits.service.ts rest on it.          *)
THEOREM Invariance == Spec => []IInv
  <1>1. IInv /\ [Next]_vars => IInv'
    BY NextInv, StutterInv
  <1>2. QED
    BY InitInv, <1>1, PTL DEF Spec

(* Every variable keeps its type, for any number of adjustments, members of *)
(* staff and concurrent requests (the tables and in-flight handlers of      *)
(* credits.service.ts).                                                     *)
THEOREM TypeCorrect == Spec => []TypeOK
  <1>1. IInv => TypeOK
    BY DEF IInv
  <1>2. QED
    BY <1>1, Invariance, PTL

(* However approvals, retries, time-outs and late calls interleave, no      *)
(* adjustment moves its money twice (apply, with the key made in request).  *)
THEOREM AtMostOnce == Spec => []MovesAtMostOnce
  <1>1. IInv => MovesAtMostOnce
    BY DEF IInv
  <1>2. QED
    BY <1>1, Invariance, PTL

(* No money above the threshold moves on one person's word, and the row     *)
(* names the second one (approve and the races around it).                  *)
THEOREM SecondPerson == Spec => []LargeNeedsSecondPerson
  <1>1. IInv => LargeNeedsSecondPerson
    BY DEF IInv, LedgerOK, GoodCall, Licensed, Call, LargeNeedsSecondPerson
  <1>2. QED
    BY <1>1, Invariance, PTL

(* The audit log names who let each posting happen before it happens        *)
(* (audit.record throws, and apply comes after it).                         *)
THEOREM Audited == Spec => []MovesAreAudited
  <1>1. IInv => MovesAreAudited
    BY DEF IInv, LedgerOK, GoodCall, Licensed, Call, MovesAreAudited
  <1>2. QED
    BY <1>1, Invariance, PTL

(* A row that says APPLIED has its posting, for its own amount (apply).     *)
THEOREM AppliedMoved == Spec => []AppliedHasMoved
  <1>1. IInv => AppliedHasMoved
    BY DEF IInv, AppliedOK, Moved, LedgerOK, GoodCall, Call, AppliedHasMoved
  <1>2. QED
    BY <1>1, Invariance, PTL

--------------------------------------------------------------------------------
(* A rejection nobody raced is final (the status guards of approve and      *)
(* retry): no step takes a closed row up again or moves its money.          *)
LEMMA ClosedStays ==
  ASSUME IInv, Next, NEW a \in Adjustments, Closed(a)
  PROVE  Closed(a)' /\ (Moved(a)' <=> Moved(a))
  <1>1. /\ adjustments[a].status = "REJECTED"
        /\ \A q \in Requests : req[q].adj = a => req[q].at = "auditRejection"
        /\ \A c \in late : c.adjustment # a
    BY DEF Closed, Quiet
  <1>2. ASSUME NEW c, c.adjustment # a, Post(c)
        PROVE  Moved(a)' <=> Moved(a)
    <2>1. CASE Posted(c.key)
      BY <1>2, <2>1 DEF Post, Moved
    <2>2. CASE ~Posted(c.key)
      <3>1. ledger' = Append(ledger, c)
        BY <1>2, <2>2 DEF Post
      <3>2. /\ DOMAIN ledger = 1..Len(ledger) /\ DOMAIN ledger' = 1..(Len(ledger) + 1)
            /\ Len(ledger) \in Nat
            /\ \A i \in 1..Len(ledger) : ledger'[i] = ledger[i]
            /\ ledger'[Len(ledger) + 1] = c
        BY <3>1 DEF IInv, TypeOK
      <3>3. QED
        BY <1>2, <3>2 DEF Moved
    <2>3. QED
      BY <2>1, <2>2
  <1>3. ASSUME NEW r \in Requests, NEW b \in Adjustments, NEW s \in Staff,
               NEW amount \in Amounts, NEW k \in Keys, Request(r, s, b, amount, k)
        PROVE  Closed(a)' /\ (Moved(a)' <=> Moved(a))
    <2>1. b # a
      BY <1>1, <1>3 DEF Request, Created
    <2>2. QED
      BY <1>1, <1>3, <2>1 DEF Request, Begin, Closed, Quiet, Moved, IInv, TypeOK
  <1>4. ASSUME NEW r \in Requests, NEW b \in Adjustments, NEW s \in Approvers,
               Approve(r, s, b) \/ Retry(r, s, b)
        PROVE  Closed(a)' /\ (Moved(a)' <=> Moved(a))
    <2>1. b # a
      BY <1>1, <1>4 DEF Approve, Retry
    <2>2. QED
      BY <1>1, <1>4, <2>1 DEF Approve, Retry, Begin, Closed, Quiet, Moved, IInv, TypeOK
  <1>5. ASSUME NEW r \in Requests, NEW b \in Adjustments, NEW s \in Approvers, Reject(r, s, b)
        PROVE  Closed(a)' /\ (Moved(a)' <=> Moved(a))
    BY <1>1, <1>5 DEF Reject, SetStatus, Begin, Closed, Quiet, Moved, IInv, TypeOK
  <1>6. ASSUME NEW r \in Requests, Step(r), req[r].adj = a
        PROVE  Closed(a)' /\ (Moved(a)' <=> Moved(a))
    <2>1. req[r].at = "auditRejection"
      BY <1>1, <1>6
    <2>2. AuditRejected(r) \/ Stop(r)
      BY <1>6, <2>1 DEF Step, AuditRequested, WriteApproval, AuditApproved, ApiCoreAnswers,
         ApiCoreRefuses, CallTimesOut, WriteApplied, AuditApplied, WriteFailed
    <2>3. UNCHANGED <<adjustments, ledger, late>> /\ req' = [req EXCEPT ![r] = Idle]
      BY <2>1, <2>2 DEF AuditRejected, Stop, Finish
    <2>4. Idle.adj # a
      BY CreditAssumption DEF Idle
    <2>5. QED
      BY <1>1, <2>3, <2>4 DEF Closed, Quiet, Moved, IInv, TypeOK
  <1>7. ASSUME NEW r \in Requests, Step(r), req[r].adj # a
        PROVE  Closed(a)' /\ (Moved(a)' <=> Moved(a))
    <2>1. Idle.adj # a
      BY CreditAssumption DEF Idle
    <2>2. \A q \in Requests : req'[q].adj = a => req'[q] = req[q]
      BY <1>7, <2>1 DEF Step, AuditRequested, WriteApproval, AuditApproved, AuditRejected,
         ApiCoreAnswers, ApiCoreRefuses, CallTimesOut, WriteApplied, AuditApplied, WriteFailed,
         Stop, AuditRecord, GotoOrFinish, Goto, Finish, IInv, TypeOK
    <2>3. adjustments'[a].status = adjustments[a].status
      BY <1>7 DEF Step, AuditRequested, WriteApproval, AuditApproved, AuditRejected,
         ApiCoreAnswers, ApiCoreRefuses, CallTimesOut, WriteApplied, AuditApplied, WriteFailed,
         Stop, SetStatus, IInv, TypeOK
    <2>4. \A c \in late' : c \in late \/ c = Call(req[r].adj)
      BY <1>7 DEF Step, AuditRequested, WriteApproval, AuditApproved, AuditRejected,
         ApiCoreAnswers, ApiCoreRefuses, CallTimesOut, WriteApplied, AuditApplied, WriteFailed,
         Stop
    <2>5. Call(req[r].adj).adjustment # a
      BY <1>7 DEF Call
    <2>6. UNCHANGED ledger \/ Post(Call(req[r].adj))
      BY <1>7 DEF Step, AuditRequested, WriteApproval, AuditApproved, AuditRejected,
         ApiCoreAnswers, ApiCoreRefuses, CallTimesOut, WriteApplied, AuditApplied, WriteFailed,
         Stop
    <2>7. Moved(a)' <=> Moved(a)
      BY <1>2, <2>5, <2>6 DEF Moved
    <2>8. QED
      BY <1>1, <2>2, <2>3, <2>4, <2>5, <2>7 DEF Closed, Quiet
  <1>8. ASSUME NEW c \in late, LateCallArrives(c)
        PROVE  Closed(a)' /\ (Moved(a)' <=> Moved(a))
    BY <1>1, <1>2, <1>8 DEF LateCallArrives, Closed, Quiet
  <1>9. QED
    BY <1>3, <1>4, <1>5, <1>6, <1>7, <1>8 DEF Next

(* Once nobody is at work on it, a rejected adjustment stays rejected and   *)
(* its money where it is, whatever staff do next (approve, reject, retry).  *)
THEOREM RejectionFinal == Spec => RejectionIsFinal
  <1>1. IInv /\ [Next]_vars =>
          [\A a \in Adjustments : Closed(a) => Closed(a)' /\ (Moved(a)' <=> Moved(a))]_vars
    BY ClosedStays
  <1>2. QED
    BY <1>1, Invariance, PTL DEF Spec, RejectionIsFinal

--------------------------------------------------------------------------------
(* The service implements TwoPersonLedger: a created row is a raised sheet,  *)
(* a written approval is a sign-off, the first posting is the move, and      *)
(* everything else is invisible.                                             *)

(* Steps that write no row keep the sheet. *)
LEMMA SheetKept ==
  ASSUME UNCHANGED adjustments
  PROVE  Sheet' = Sheet
  BY DEF Sheet

LEMMA StatusKeepsSheet ==
  ASSUME TypeOK, NEW a \in Adjustments, NEW st, SetStatus(a, st)
  PROVE  Sheet' = Sheet
  BY DEF TypeOK, SetStatus, Sheet

(* A posting is the abstract move, or no change at all. *)
LEMMA PostMoves ==
  ASSUME IInv, NEW a \in Adjustments, Created(a), Licensed(a), Post(Call(a)),
         UNCHANGED adjustments
  PROVE  (\E k \in Keys : Promise!Move(a, k)) \/ UNCHANGED <<Sheet, ledger>>
  <1>1. Sheet' = Sheet
    BY SheetKept
  <1>2. CASE Posted(Call(a).key)
    BY <1>1, <1>2 DEF Post
  <1>3. CASE ~Posted(Call(a).key)
    <2>1. ledger' = Append(ledger, Call(a))
      BY <1>3 DEF Post
    <2>2. \A i \in DOMAIN ledger : ledger[i].adjustment # a
      BY <1>3 DEF IInv, LedgerOK, GoodCall, Call, Posted
    <2>3. adjustments[a].requestedBy \in Staff /\ adjustments[a].idempotencyKey \in Keys
      BY DEF IInv, RowsOK
    <2>4. Promise!SignedOff(Sheet[a])
      BY <2>3, CreditAssumption DEF Sheet, Promise!SignedOff, Promise!Large, Licensed, needsApproval
    <2>5. Sheet[a].amount = adjustments[a].amount
      BY DEF Sheet
    <2>6. Promise!Move(a, adjustments[a].idempotencyKey)
      BY <1>1, <2>1, <2>2, <2>4, <2>5 DEF Promise!Move, Call
    <2>7. QED
      BY <2>3, <2>6
  <1>4. QED
    BY <1>2, <1>3

LEMMA StepMaps ==
  ASSUME IInv, Next
  PROVE  Promise!Next \/ UNCHANGED <<Sheet, ledger>>
  <1>1. ASSUME NEW r \in Requests, NEW a \in Adjustments, NEW s \in Staff,
               NEW amount \in Amounts, NEW k \in Keys, Request(r, s, a, amount, k)
        PROVE  Promise!Next
    <2>1. adjustments[a].status = "NONE" /\ UNCHANGED ledger
      BY <1>1 DEF Request, Created
    <2>2. Sheet' = [Sheet EXCEPT ![a] = [amount |-> amount, requestedBy |-> s,
                      approvedBy |-> IF needsApproval(amount) THEN NoOne ELSE s]]
      BY <1>1 DEF Request, Sheet, IInv, TypeOK
    <2>3. Sheet[a] = Promise!Unraised
      BY <2>1 DEF IInv, BlankOK, Created, NoRow, Sheet, Promise!Unraised
    <2>4. Promise!Raise(a, s, amount)
      BY <2>1, <2>2, <2>3 DEF Promise!Raise, Promise!Large, needsApproval
    <2>5. QED
      BY <1>1, <2>4 DEF Promise!Next
  <1>2. ASSUME NEW r \in Requests, WriteApproval(r) PROVE Promise!Next
    <2>1. PICK a \in Adjustments : a = req[r].adj /\ RequestOK(req[r]) /\ req[r].actor \in Staff
      BY <1>2, Running DEF WriteApproval
    <2>2. req[r].actor # adjustments[a].requestedBy /\ Created(a)
      BY <1>2, <2>1 DEF WriteApproval, RequestOK
    <2>3. adjustments[a].requestedBy # NoOne
      BY <2>2, CreditAssumption DEF IInv, RowsOK
    <2>4. /\ adjustments'[a].approvedBy = req[r].actor
          /\ adjustments'[a].amount = adjustments[a].amount
          /\ adjustments'[a].requestedBy = adjustments[a].requestedBy
          /\ \A b \in Adjustments \ {a} : adjustments'[b] = adjustments[b]
          /\ UNCHANGED ledger
      BY <1>2, <2>1 DEF IInv, TypeOK, WriteApproval
    <2>5. Sheet' = [Sheet EXCEPT ![a].approvedBy = req[r].actor]
      BY <2>4 DEF Sheet
    <2>6. Promise!SignOff(a, req[r].actor)
      BY <2>1, <2>2, <2>3, <2>4, <2>5 DEF Promise!SignOff, Sheet
    <2>7. QED
      BY <2>1, <2>6 DEF Promise!Next
  <1>3. ASSUME NEW r \in Requests, ApiCoreAnswers(r)
        PROVE  Promise!Next \/ UNCHANGED <<Sheet, ledger>>
    <2>1. PICK a \in Adjustments : a = req[r].adj /\ RequestOK(req[r])
      BY <1>3, Running DEF ApiCoreAnswers
    <2>2. Created(a) /\ Licensed(a) /\ Post(Call(a)) /\ UNCHANGED adjustments
      BY <1>3, <2>1 DEF ApiCoreAnswers, RequestOK
    <2>3. QED
      BY <2>2, PostMoves DEF Promise!Next
  <1>4. ASSUME NEW c \in late, LateCallArrives(c)
        PROVE  Promise!Next \/ UNCHANGED <<Sheet, ledger>>
    <2>1. PICK a \in Adjustments : a = c.adjustment /\ c = Call(a) /\ Created(a) /\ Licensed(a)
      BY DEF IInv, TypeOK, Calls, LateOK, GoodCall
    <2>2. Post(Call(a)) /\ UNCHANGED adjustments
      BY <1>4, <2>1 DEF LateCallArrives
    <2>3. QED
      BY <2>1, <2>2, PostMoves DEF Promise!Next
  <1>5. ASSUME NEW r \in Requests, WriteApplied(r) \/ WriteFailed(r)
        PROVE  UNCHANGED <<Sheet, ledger>>
    <2>1. req[r].adj \in Adjustments
      BY <1>5, Running DEF WriteApplied, WriteFailed
    <2>2. QED
      BY <1>5, <2>1, SheetKept, StatusKeepsSheet DEF WriteApplied, WriteFailed, IInv
  <1>6. ASSUME NEW r \in Requests, NEW a \in Adjustments, NEW s \in Approvers, Reject(r, s, a)
        PROVE  UNCHANGED <<Sheet, ledger>>
    BY <1>6, StatusKeepsSheet DEF Reject, IInv
  <1>7. ASSUME UNCHANGED <<adjustments, ledger>> PROVE UNCHANGED <<Sheet, ledger>>
    BY <1>7, SheetKept
  <1>8. QED
    BY <1>1, <1>2, <1>3, <1>4, <1>5, <1>6, <1>7
       DEF Next, Step, Approve, Retry, AuditRequested, AuditApproved, AuditRejected,
           ApiCoreRefuses, CallTimesOut, AuditApplied, Stop

(* For any staff, adjustments and threshold, the service does nothing the   *)
(* abstract two-person ledger does not allow (the whole of request, approve,*)
(* reject, apply and retry).                                                *)
THEOREM Implements == Spec => KeepsPromise
  <1>1. Init => Promise!Init
    BY DEF Init, Promise!Init, Promise!Unraised, Sheet, NoRow
  <1>2. IInv /\ [Next]_vars => [Promise!Next]_<<Sheet, ledger>>
    BY StepMaps, SheetKept DEF vars
  <1>3. QED
    BY <1>1, <1>2, Invariance, PTL DEF Spec, KeepsPromise, Promise!Spec
================================================================================
