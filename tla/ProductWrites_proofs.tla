-------------------------- MODULE ProductWrites_proofs --------------------------
(***************************************************************************)
(* What the console's changes to the product leave behind, for any calls,   *)
(* references, rates, prices and faults.                                    *)
(*                                                                          *)
(* All three rest on what each operation may write (WritesOK).  An entry of  *)
(* api-core's cache: only the operations that clear it write its field.  The *)
(* rates: until the first change of a rate everybody reads the one there is, *)
(* and from then on every rate, the current one included, is mentioned       *)
(* (RatesOK).  The payments: who is about to write a payment's line is the    *)
(* call that found it unpaid, or its line is written; no two of them share a  *)
(* reference (PaymentsOK).                                                   *)
(***************************************************************************)
EXTENDS ProductWrites, FiniteSetTheorems, TLAPS

Fields == {"status", "key", "archived", "product", "rate", "template",
           "active", "public", "free", "price"}

Pending == {"write", "clear", "audit"}

(* What an operation may have in hand. *)
WritesOK(op, data) ==
  /\ DOMAIN data \cap Entries \subseteq Clears(op)
  /\ op \in ApiCoreOps => DOMAIN data \cap (Entries \cup {"rate"}) = {}
  /\ "rate" \in DOMAIN data => op = "upsertPricing"
  /\ op = "upsertPricing" => "rate" \in DOMAIN data
  /\ op = "recordPlanPayment" => data.ref \in Refs

CallOK(c) ==
  /\ DOMAIN call[c] = {"at", "op", "data", "before"}
  /\ call[c].at \in Pending =>
       /\ call[c].op \in Ops /\ WritesOK(call[c].op, call[c].data)
       /\ call[c].op = "upsertPricing" =>
            DOMAIN call[c].before = {"rate"} /\ call[c].before["rate"] \in rates
  /\ call[c].at = "clear" => Clears(call[c].op) # {}

RowsOK == /\ DOMAIN db = Fields /\ DOMAIN replica = Fields
          /\ db["rate"] \in rates /\ replica["rate"] \in rates
          /\ DOMAIN call = Calls /\ DOMAIN audit = Calls /\ DOMAIN fill = Entries
          /\ DOMAIN cache = Entries

CallsOK == \A c \in Calls : CallOK(c)

(* A rate that is in an audit line, in the call about to write one, or in a  *)
(* call cut short.                                                           *)
Mentioned(rate) ==
  \/ rate \in unrecorded
  \/ \E c \in Calls :
       \/ rate \in RatesOf(audit[c].before) \cup RatesOf(audit[c].after)
       \/ call[c].at = "audit" /\ rate \in RatesOf(call[c].before) \cup RatesOf(call[c].data)

RatesOK == rates = {db["rate"]} \/ \A rate \in rates : Mentioned(rate)

(* A call writes its line last. *)
BlankOK == \A c \in Calls : call[c].at # "done" => audit[c] = NoLine

(* The calls that write a payment's line, or have. *)
Owns(c, p) ==
  \/ audit[c].op = "recordPlanPayment" /\ audit[c].after.ref = p
  \/ call[c].at = "audit" /\ call[c].op = "recordPlanPayment" /\ call[c].data.ref = p

PaymentsOK ==
  /\ \A c \in Calls, p \in Refs : Owns(c, p) => p \in paid
  /\ \A p \in Refs, c, d \in Calls : Owns(c, p) /\ Owns(d, p) => c = d

IInv == RowsOK /\ CallsOK /\ BlankOK /\ StaleOnlyThroughLateFill /\ RatesOK /\ PaymentsOK

--------------------------------------------------------------------------------
(* What the operations write *)

LEMMA Domains ==
  /\ DOMAIN NoData = {}
  /\ \A row, fields : DOMAIN Part(row, fields) = fields
  /\ \A row, data : DOMAIN Write(row, data) = DOMAIN row
  /\ \A row, data : \A f \in DOMAIN row :
       Write(row, data)[f] = IF f \in DOMAIN data THEN data[f] ELSE row[f]
BY DEF NoData, Part, Write

LEMMA PlanWrites ==
  ASSUME NEW row, NEW op \in PlanOps, NEW data \in Data(op, row)
  PROVE  DOMAIN data \subseteq PlanFields
<1>1. CASE op = "upsertPlan"
  BY <1>1 DEF Data, upsertPlan, PlanRows, PlanFields
<1>2. CASE op = "updatePlan"
  <2>1. PICK wanted \in [public : BOOLEAN, free : BOOLEAN, price : Prices] :
          data = Changed(row, wanted)
    BY <1>2 DEF Data, updatePlan, planChanges
  <2>2. DOMAIN wanted = {"public", "free", "price"}
    OBVIOUS
  <2>3. DOMAIN data \subseteq DOMAIN wanted
    BY <2>1, Domains DEF Changed
  <2> QED BY <2>2, <2>3 DEF PlanFields
<1>3. CASE op = "setPlanVisibility"
  BY <1>3 DEF Data, setPlanVisibility, PlanFields
<1>4. CASE op = "setPlanActive"
  BY <1>4 DEF Data, setPlanActive, PlanFields
<1> QED BY <1>1, <1>2, <1>3, <1>4 DEF PlanOps

LEMMA DataWrites ==
  ASSUME NEW row, NEW op \in Ops, NEW data \in Data(op, row)
  PROVE  WritesOK(op, data)
<1>1. CASE op \in PlanOps
  <2>1. DOMAIN data \subseteq PlanFields
    BY <1>1, PlanWrites
  <2>2. op \notin ApiCoreOps \cup {"upsertPricing", "recordPlanPayment"}
    BY <1>1 DEF PlanOps, ApiCoreOps
  <2>3. PlanFields \cap (Entries \cup {"rate"}) = {}
    BY DEF PlanFields, Entries
  <2> QED BY <2>1, <2>2, <2>3 DEF WritesOK
<1>2. CASE op = "setStatus"
  BY <1>2 DEF Data, setStatus, WritesOK, Clears, Entries, ApiCoreOps
<1>3. CASE op = "setApiKeyActive"
  BY <1>3 DEF Data, setApiKeyActive, WritesOK, Clears, Entries, ApiCoreOps
<1>4. CASE op = "archiveProject"
  BY <1>4 DEF Data, archiveProject, WritesOK, Clears, Entries, ApiCoreOps
<1>5. CASE op = "createProduct"
  BY <1>5 DEF Data, createProduct, WritesOK, Clears, Entries, ApiCoreOps
<1>6. CASE op = "updateProduct"
  BY <1>6 DEF Data, updateProduct, WritesOK, Clears, Entries, ApiCoreOps
<1>7. CASE op = "upsertPricing"
  BY <1>7 DEF Data, upsertPricing, WritesOK, Clears, Entries, ApiCoreOps
<1>8. CASE op = "decideTemplate"
  BY <1>8 DEF Data, decideTemplate, WritesOK, Clears, Entries, ApiCoreOps
<1>9. CASE op = "recordPlanPayment"
  BY <1>9 DEF Data, recordPlanPayment, WritesOK, Clears, Entries, ApiCoreOps
<1>10. CASE op = "command"
  <2>1. data = NoData
    BY <1>10 DEF Data, command, forceLogout, changePlan, chargePlanToCard, resetRateLimits,
                 changeAvailability, setMarket, removeMarket, generateLetters
  <2> QED BY <1>10, <2>1, Domains DEF WritesOK, Clears, Entries, ApiCoreOps
<1> QED BY <1>1, <1>2, <1>3, <1>4, <1>5, <1>6, <1>7, <1>8, <1>9, <1>10,
           ProductWritesAssumption DEF PlanOps

--------------------------------------------------------------------------------
(* Moves of one call *)

LEMMA Moved ==
  ASSUME IInv, NEW c \in Calls, NEW stage, Goto(c, stage)
  PROVE  /\ DOMAIN call' = Calls /\ DOMAIN call'[c] = {"at", "op", "data", "before"}
         /\ call'[c].at = stage /\ call'[c].op = call[c].op /\ call'[c].data = call[c].data
         /\ call'[c].before = call[c].before
         /\ \A d \in Calls \ {c} : call'[d] = call[d]
<1> DEFINE new == [call[c] EXCEPT !.at = stage]
<1>1. call' = [call EXCEPT ![c] = new]
  BY DEF Goto
<1>2. DOMAIN call = Calls /\ DOMAIN call[c] = {"at", "op", "data", "before"}
  BY DEF IInv, RowsOK, CallsOK, CallOK
<1>3. /\ DOMAIN new = {"at", "op", "data", "before"} /\ new.at = stage /\ new.op = call[c].op
      /\ new.data = call[c].data /\ new.before = call[c].before
  BY <1>2
<1> HIDE DEF new
<1>4. DOMAIN call' = Calls /\ call'[c] = new /\ \A d \in Calls \ {c} : call'[d] = call[d]
  BY <1>1, <1>2
<1> QED BY <1>3, <1>4

LEMMA Ended ==
  ASSUME IInv, NEW c \in Calls, Finish(c)
  PROVE  /\ DOMAIN call' = Calls /\ DOMAIN call'[c] = {"at", "op", "data", "before"}
         /\ call'[c].at = "done" /\ call'[c].op = None
         /\ \A d \in Calls \ {c} : call'[d] = call[d]
<1>1. DOMAIN Done = {"at", "op", "data", "before"} /\ Done.at = "done" /\ Done.op = None
  BY DEF Done, New
<1> HIDE DEF Done
<1>2. call' = [call EXCEPT ![c] = Done] /\ DOMAIN call = Calls
  BY DEF Finish, IInv, RowsOK
<1>3. DOMAIN call' = Calls /\ call'[c] = Done /\ \A d \in Calls \ {c} : call'[d] = call[d]
  BY <1>2
<1> QED BY <1>1, <1>3

(* A call that goes on with what it has, or ends. *)
LEMMA CallsKept ==
  ASSUME IInv, NEW c \in Calls, rates \subseteq rates',
         DOMAIN call'[c] = {"at", "op", "data", "before"},
         \A d \in Calls \ {c} : call'[d] = call[d],
         call'[c].at \in Pending =>
           /\ call[c].at \in Pending /\ call'[c].op = call[c].op
           /\ call'[c].data = call[c].data /\ call'[c].before = call[c].before,
         call'[c].at = "clear" => Clears(call'[c].op) # {}
  PROVE  CallsOK'
<1>1. ASSUME NEW d \in Calls PROVE CallOK(d)'
  <2>1. CallOK(d)
    BY DEF IInv, CallsOK
  <2>2. CASE d # c
    <3>1. call'[d] = call[d]
      BY <2>2
    <3> QED BY <2>1, <3>1 DEF CallOK
  <2>3. CASE d = c
    BY <2>1, <2>3 DEF CallOK
  <2> QED BY <2>2, <2>3
<1> QED BY <1>1 DEF CallsOK

(* No entry and no row of theirs changes, and no call leaves one uncleared. *)
LEMMA StaleKept ==
  ASSUME IInv, \A e \in Entries : db'[e] = db[e] /\ cache'[e] = cache[e],
         outrun \subseteq outrun', uncleared \subseteq uncleared',
         \A d \in Calls : call[d].at = "clear" =>
           \/ call'[d].at = "clear" /\ call'[d].op = call[d].op
           \/ Clears(call[d].op) \subseteq uncleared'
  PROVE  StaleOnlyThroughLateFill'
BY DEF IInv, StaleOnlyThroughLateFill

(* No rate changes, and no call about to write a line leaves. *)
LEMMA RatesKept ==
  ASSUME IInv, db'["rate"] = db["rate"], rates' = rates, audit' = audit,
         unrecorded \subseteq unrecorded',
         \A d \in Calls : call[d].at = "audit" =>
           \/ /\ call'[d].at = "audit" /\ call'[d].data = call[d].data
              /\ call'[d].before = call[d].before
           \/ RatesOf(call[d].before) \cup RatesOf(call[d].data) \subseteq unrecorded'
  PROVE  RatesOK'
<1>1. \A rate : Mentioned(rate) => Mentioned(rate)'
  BY DEF Mentioned
<1> QED BY <1>1 DEF IInv, RatesOK

(* No line is written, and no call begins anew. *)
LEMMA BlankKept ==
  ASSUME IInv, audit' = audit, \A d \in Calls : call'[d].at # "done" => call[d].at # "done"
  PROVE  BlankOK'
BY DEF IInv, BlankOK

(* No payment's line is written or taken on. *)
LEMMA PaymentsKept ==
  ASSUME IInv, audit' = audit, paid \subseteq paid',
         \A d \in Calls : call'[d].at = "audit" /\ call'[d].op = "recordPlanPayment" =>
           call'[d] = call[d]
  PROVE  PaymentsOK'
<1>1. \A d \in Calls, p \in Refs : Owns(d, p)' => Owns(d, p)
  BY DEF Owns
<1> QED BY <1>1 DEF IInv, PaymentsOK

--------------------------------------------------------------------------------
LEMMA Blank == NoLine.op # "recordPlanPayment" /\ RatesOf(NoLine.before) = {} /\ RatesOf(NoLine.after) = {}
<1>1. NoLine.op = None /\ NoLine.before = NoData /\ NoLine.after = NoData
  BY DEF NoLine
<1> QED BY <1>1, Domains, ProductWritesAssumption DEF RatesOf

LEMMA InitInv == Init => IInv
<1> SUFFICES ASSUME Init PROVE IInv
  OBVIOUS
<1>1. DOMAIN db = Fields /\ db["rate"] \in rates /\ rates = {db["rate"]}
  BY DEF Init, Fields
<1>2. New.at = "new" /\ DOMAIN New = {"at", "op", "data", "before"}
  BY DEF New
<1>3. RowsOK
  BY <1>1 DEF Init, RowsOK
<1>4. CallsOK
  BY <1>2 DEF Init, CallsOK, CallOK, Pending
<1>5. StaleOnlyThroughLateFill /\ RatesOK
  BY <1>1 DEF Init, StaleOnlyThroughLateFill, RatesOK
<1>6. \A c \in Calls : audit[c] = NoLine /\ call[c].at = "new"
  BY <1>2 DEF Init
<1>7. BlankOK
  BY <1>6 DEF BlankOK
<1>8. PaymentsOK
  BY <1>6, Blank DEF PaymentsOK, Owns
<1> QED BY <1>3, <1>4, <1>5, <1>7, <1>8 DEF IInv

--------------------------------------------------------------------------------
(* Each action keeps the invariant *)

LEMMA BeginKeeps ==
  ASSUME IInv, NEW c \in Calls, NEW op \in Ops, Begin(c, op)
  PROVE  IInv'
<1>1. PICK data \in Data(op, Read(op)) :
        call' = [call EXCEPT ![c] = [at |-> "write", op |-> op, data |-> data,
                                     before |-> Part(Read(op), Kept(op))]]
  BY DEF Begin
<1> DEFINE new == [at |-> "write", op |-> op, data |-> data, before |-> Part(Read(op), Kept(op))]
<1>2. /\ DOMAIN new = {"at", "op", "data", "before"} /\ new.at = "write" /\ new.op = op
      /\ new.data = data /\ new.before = Part(Read(op), Kept(op))
  OBVIOUS
<1>3. call' = [call EXCEPT ![c] = new]
  BY <1>1
<1> HIDE DEF new
<1>4. /\ call[c].at = "new" /\ DOMAIN call = Calls
      /\ UNCHANGED <<db, replica, cache, fill, paid, late, audit, faults,
                     outrun, uncleared, rates, unrecorded>>
  BY DEF Begin, IInv, RowsOK, apiCore, history
<1>5. DOMAIN call' = Calls /\ call'[c] = new /\ \A d \in Calls \ {c} : call'[d] = call[d]
  BY <1>3, <1>4
<1>6. call'[c].at = "write" /\ \A d \in Calls : d = c \/ call'[d] = call[d]
  BY <1>2, <1>5
<1>7. RowsOK'
  BY <1>4, <1>5 DEF IInv, RowsOK
<1>8. CallsOK'
  <2>1. ASSUME NEW d \in Calls, d # c PROVE CallOK(d)'
    BY <1>4, <1>5, <2>1 DEF IInv, CallsOK, CallOK
  <2>2. WritesOK(op, data)
    BY <1>1, DataWrites
  <2>3. ASSUME op = "upsertPricing"
        PROVE  DOMAIN new.before = {"rate"} /\ new.before["rate"] \in rates
    <3>1. new.before = Part(replica, {"rate"})
      BY <1>2, <2>3 DEF Read, Kept, PlanOps
    <3>2. replica["rate"] \in rates
      BY DEF IInv, RowsOK
    <3> QED BY <3>1, <3>2 DEF Part
  <2>4. CallOK(c)'
    BY <1>2, <1>4, <1>5, <2>2, <2>3 DEF CallOK
  <2> QED BY <2>1, <2>4 DEF CallsOK
<1>9. BlankOK'
  BY <1>4, <1>6, BlankKept
<1>10. StaleOnlyThroughLateFill'
  BY <1>4, <1>6, StaleKept
<1>11. RatesOK'
  BY <1>4, <1>6, RatesKept
<1>12. PaymentsOK'
  BY <1>4, <1>6, PaymentsKept
<1> QED BY <1>7, <1>8, <1>9, <1>10, <1>11, <1>12 DEF IInv

LEMMA WriteRowKeeps ==
  ASSUME IInv, NEW c \in Calls, WriteRow(c)
  PROVE  IInv'
<1> DEFINE op == call[c].op
           data == call[c].data
<1>1. /\ call[c].at = "write" /\ op \notin ApiCoreOps /\ db' = Write(db, data)
      /\ rates' = rates \cup {db'["rate"]} /\ Goto(c, AfterWrite(c))
      /\ UNCHANGED <<replica, cache, fill, paid, late, audit, faults, outrun, uncleared, unrecorded>>
  BY DEF WriteRow, apiCore
<1>2. /\ DOMAIN call' = Calls /\ DOMAIN call'[c] = {"at", "op", "data", "before"}
      /\ call'[c].at = AfterWrite(c) /\ call'[c].op = op /\ call'[c].data = data
      /\ call'[c].before = call[c].before /\ \A d \in Calls \ {c} : call'[d] = call[d]
  BY <1>1, Moved
<1>3. /\ WritesOK(op, data) /\ DOMAIN db = Fields
      /\ op = "upsertPricing" =>
           DOMAIN call[c].before = {"rate"} /\ call[c].before["rate"] \in rates
  BY <1>1 DEF IInv, RowsOK, CallsOK, CallOK, Pending
<1>4. DOMAIN db' = Fields /\ \A f \in Fields : db'[f] = IF f \in DOMAIN data THEN data[f] ELSE db[f]
  BY <1>1, <1>3, Domains
<1>5. call'[c].at \in {"clear", "audit"} /\ (call'[c].at = "clear" <=> Clears(op) # {})
  BY <1>2 DEF AfterWrite
<1>6. RowsOK'
  BY <1>1, <1>2, <1>4 DEF IInv, RowsOK
<1>7. CallsOK'
  BY <1>1, <1>2, <1>5, CallsKept DEF Pending
<1>8. BlankOK'
  BY <1>1, <1>2, BlankKept
<1>9. StaleOnlyThroughLateFill'
  <2> SUFFICES ASSUME NEW e \in Entries, cache'[e] \notin {None, db'[e]},
                      e \notin outrun' \cup uncleared'
               PROVE  \E d \in Calls : call'[d].at = "clear" /\ e \in Clears(call'[d].op)
    BY DEF StaleOnlyThroughLateFill
  <2>1. CASE e \in DOMAIN data
    <3>1. e \in Clears(op)
      BY <1>3, <2>1 DEF WritesOK
    <3> QED BY <1>2, <1>5, <3>1
  <2>2. CASE e \notin DOMAIN data
    <3>1. db'[e] = db[e]
      BY <1>4, <2>2 DEF Entries, Fields
    <3>2. PICK d \in Calls : call[d].at = "clear" /\ e \in Clears(call[d].op)
      BY <1>1, <3>1 DEF IInv, StaleOnlyThroughLateFill
    <3>3. d # c
      BY <1>1, <3>2
    <3> QED BY <1>2, <3>2, <3>3
  <2> QED BY <2>1, <2>2
<1>10. RatesOK'
  <2>1. CASE op = "upsertPricing"
    <3>1. /\ Clears(op) = {} /\ "rate" \in DOMAIN data /\ "rate" \in DOMAIN call[c].before
          /\ call[c].before["rate"] \in rates
      BY <1>3, <2>1 DEF WritesOK, Clears
    <3>2. call'[c].at = "audit"
      BY <1>5, <3>1
    <3>3. db'["rate"] = data.rate
      BY <1>4, <3>1 DEF Fields
    <3>4. ASSUME NEW rate \in rates', rate = db'["rate"] \/ rate = call[c].before["rate"]
          PROVE  Mentioned(rate)'
      <4>1. rate \in RatesOf(call'[c].before) \cup RatesOf(call'[c].data)
        BY <1>2, <3>1, <3>3, <3>4 DEF RatesOf
      <4> QED BY <3>2, <4>1 DEF Mentioned
    <3>5. ASSUME NEW rate \in rates, Mentioned(rate)
          PROVE  Mentioned(rate)'
      BY <1>1, <1>2, <3>5 DEF Mentioned
    <3>6. ASSUME NEW rate \in rates, rate # call[c].before["rate"]
          PROVE  Mentioned(rate)'
      BY <3>1, <3>5, <3>6 DEF IInv, RatesOK
    <3>7. \A rate \in rates' : Mentioned(rate)'
      BY <1>1, <3>4, <3>6
    <3> QED BY <3>7 DEF RatesOK
  <2>2. CASE op # "upsertPricing"
    <3>1. db'["rate"] = db["rate"]
      BY <1>3, <1>4, <2>2 DEF WritesOK, Fields
    <3>2. rates' = rates
      BY <1>1, <3>1 DEF IInv, RowsOK
    <3> QED BY <1>1, <1>2, <3>1, <3>2, RatesKept
  <2> QED BY <2>1, <2>2
<1>11. PaymentsOK'
  <2>1. op # "recordPlanPayment"
    BY <1>1 DEF ApiCoreOps
  <2>2. \A d \in Calls : d = c \/ call'[d] = call[d]
    BY <1>2
  <2> QED BY <1>1, <1>2, <2>1, <2>2, PaymentsKept
<1> QED BY <1>6, <1>7, <1>8, <1>9, <1>10, <1>11 DEF IInv

(* What was asked of api-core writes no entry and no rate. *)
LEMMA ApiCoreWrites ==
  ASSUME IInv, NEW c \in Calls, call[c].at = "write", call[c].op \in ApiCoreOps,
         db' \in {db, Write(db, call[c].data)}
  PROVE  /\ DOMAIN db' = Fields /\ \A f \in Entries \cup {"rate"} : db'[f] = db[f]
         /\ call[c].op = "recordPlanPayment" => call[c].data.ref \in Refs
<1>1. WritesOK(call[c].op, call[c].data) /\ DOMAIN db = Fields
  BY DEF IInv, RowsOK, CallsOK, CallOK, Pending
<1>2. Entries \cup {"rate"} \subseteq Fields
  BY DEF Entries, Fields
<1>3. \A f \in Entries \cup {"rate"} : f \notin DOMAIN call[c].data
  BY <1>1 DEF WritesOK
<1> QED BY <1>1, <1>2, <1>3, Domains DEF WritesOK

LEMMA AskApiCoreKeeps ==
  ASSUME IInv, NEW c \in Calls, AskApiCore(c)
  PROVE  IInv'
<1> DEFINE op == call[c].op
           refs == IF op = "recordPlanPayment" THEN {call[c].data.ref} ELSE {}
<1>1. /\ call[c].at = "write" /\ op \in ApiCoreOps /\ db' = Write(db, call[c].data)
      /\ paid' = paid \cup refs
      /\ IF refs # {} /\ refs \subseteq paid THEN Finish(c) ELSE Goto(c, "audit")
      /\ UNCHANGED <<replica, cache, fill, late, audit, faults, outrun, uncleared, rates, unrecorded>>
  BY DEF AskApiCore, history
<1>2. /\ DOMAIN db' = Fields /\ \A f \in Entries \cup {"rate"} : db'[f] = db[f]
      /\ op = "recordPlanPayment" => call[c].data.ref \in Refs
  BY <1>1, ApiCoreWrites
<1>3. CASE refs # {} /\ refs \subseteq paid
  <2>1. /\ DOMAIN call' = Calls /\ DOMAIN call'[c] = {"at", "op", "data", "before"}
        /\ call'[c].at = "done" /\ \A d \in Calls \ {c} : call'[d] = call[d]
    BY <1>1, <1>3, Ended
  <2>2. RowsOK'
    BY <1>1, <1>2, <2>1 DEF IInv, RowsOK
  <2>3. CallsOK'
    BY <1>1, <2>1, CallsKept DEF Pending
  <2>4. BlankOK'
    BY <1>1, <2>1, BlankKept
  <2>5. StaleOnlyThroughLateFill'
    BY <1>1, <1>2, <2>1, StaleKept
  <2>6. RatesOK'
    BY <1>1, <1>2, <2>1, RatesKept
  <2>7. PaymentsOK'
    BY <1>1, <2>1, PaymentsKept
  <2> QED BY <2>2, <2>3, <2>4, <2>5, <2>6, <2>7 DEF IInv
<1>4. CASE ~(refs # {} /\ refs \subseteq paid)
  <2>1. /\ DOMAIN call' = Calls /\ DOMAIN call'[c] = {"at", "op", "data", "before"}
        /\ call'[c].at = "audit" /\ call'[c].op = op /\ call'[c].data = call[c].data
        /\ call'[c].before = call[c].before /\ \A d \in Calls \ {c} : call'[d] = call[d]
    BY <1>1, <1>4, Moved
  <2>2. RowsOK'
    BY <1>1, <1>2, <2>1 DEF IInv, RowsOK
  <2>3. CallsOK'
    BY <1>1, <2>1, CallsKept DEF Pending
  <2>4. BlankOK'
    BY <1>1, <2>1, BlankKept
  <2>5. StaleOnlyThroughLateFill'
    BY <1>1, <1>2, <2>1, StaleKept
  <2>6. RatesOK'
    BY <1>1, <1>2, <2>1, RatesKept
  <2>7. audit[c].op # "recordPlanPayment"
    BY <1>1, Blank DEF IInv, BlankOK
  <2>8. ASSUME NEW d \in Calls, NEW p \in Refs, Owns(d, p)'
        PROVE  Owns(d, p) \/ (d = c /\ op = "recordPlanPayment" /\ p = call[c].data.ref)
    BY <1>1, <2>1, <2>8 DEF Owns
  <2>9. op = "recordPlanPayment" => call[c].data.ref \notin paid /\ call[c].data.ref \in paid'
    BY <1>1, <1>4
  <2>10. PaymentsOK'
    <3>1. \A d \in Calls, p \in Refs : Owns(d, p) => p \in paid
      BY DEF IInv, PaymentsOK
    <3>2. \A d \in Calls, p \in Refs : Owns(d, p)' => p \in paid'
      BY <1>1, <2>8, <2>9, <3>1
    <3>3. ASSUME NEW p \in Refs, NEW d \in Calls, NEW e \in Calls, Owns(d, p)', Owns(e, p)'
          PROVE  d = e
      <4>1. CASE Owns(d, p) /\ Owns(e, p)
        BY <4>1 DEF IInv, PaymentsOK
      <4>2. CASE ~Owns(d, p) \/ ~Owns(e, p)
        <5>1. op = "recordPlanPayment" /\ p = call[c].data.ref
          BY <2>8, <3>3, <4>2
        <5>2. ~Owns(d, p) /\ ~Owns(e, p)
          BY <2>9, <3>1, <5>1
        <5> QED BY <2>8, <3>3, <5>2
      <4> QED BY <4>1, <4>2
    <3> QED BY <3>2, <3>3 DEF PaymentsOK
  <2> QED BY <2>2, <2>3, <2>4, <2>5, <2>6, <2>10 DEF IInv
<1> QED BY <1>3, <1>4

LEMMA WriteFailsKeeps ==
  ASSUME IInv, NEW c \in Calls, WriteFails(c)
  PROVE  IInv'
<1>1. /\ call[c].at = "write" /\ Finish(c)
      /\ UNCHANGED <<db, replica, cache, fill, paid, late, audit, faults,
                     outrun, uncleared, rates, unrecorded>>
  BY DEF WriteFails, apiCore, history
<1>2. /\ DOMAIN call' = Calls /\ DOMAIN call'[c] = {"at", "op", "data", "before"}
      /\ call'[c].at = "done" /\ \A d \in Calls \ {c} : call'[d] = call[d]
  BY <1>1, Ended
<1>3. RowsOK'
  BY <1>1, <1>2 DEF IInv, RowsOK
<1>4. CallsOK'
  BY <1>1, <1>2, CallsKept DEF Pending
<1>5. BlankOK'
  BY <1>1, <1>2, BlankKept
<1>6. StaleOnlyThroughLateFill' /\ RatesOK' /\ PaymentsOK'
  BY <1>1, <1>2, StaleKept, RatesKept, PaymentsKept
<1> QED BY <1>3, <1>4, <1>5, <1>6 DEF IInv

LEMMA AnswerLostKeeps ==
  ASSUME IInv, NEW c \in Calls, AnswerLost(c)
  PROVE  IInv'
<1>1. /\ call[c].at = "write" /\ call[c].op \in ApiCoreOps /\ db' \in {db, Write(db, call[c].data)}
      /\ Finish(c)
      /\ UNCHANGED <<replica, cache, fill, paid, audit, outrun, uncleared, rates, unrecorded>>
  BY DEF AnswerLost, history
<1>2. DOMAIN db' = Fields /\ \A f \in Entries \cup {"rate"} : db'[f] = db[f]
  BY <1>1, ApiCoreWrites
<1>3. /\ DOMAIN call' = Calls /\ DOMAIN call'[c] = {"at", "op", "data", "before"}
      /\ call'[c].at = "done" /\ \A d \in Calls \ {c} : call'[d] = call[d]
  BY <1>1, Ended
<1>4. RowsOK'
  BY <1>1, <1>2, <1>3 DEF IInv, RowsOK
<1>5. CallsOK'
  BY <1>1, <1>3, CallsKept DEF Pending
<1>6. BlankOK'
  BY <1>1, <1>3, BlankKept
<1>7. StaleOnlyThroughLateFill'
  BY <1>1, <1>2, <1>3, StaleKept
<1>8. RatesOK'
  BY <1>1, <1>2, <1>3, RatesKept
<1>9. PaymentsOK'
  BY <1>1, <1>3, PaymentsKept
<1> QED BY <1>4, <1>5, <1>6, <1>7, <1>8, <1>9 DEF IInv

LEMMA ClearEntryKeeps ==
  ASSUME IInv, NEW c \in Calls, ClearEntry(c)
  PROVE  IInv'
<1> DEFINE es == Clears(call[c].op)
<1>1. /\ call[c].at = "clear" /\ Goto(c, "audit")
      /\ UNCHANGED <<db, replica, fill, paid, late, audit, rates, unrecorded>>
  BY DEF ClearEntry, apiCore
<1>2. \/ /\ cache' = [e \in Entries |-> IF e \in es THEN None ELSE cache[e]]
         /\ outrun' = outrun \ es /\ uncleared' = uncleared \ es
      \/ uncleared' = uncleared \cup es /\ UNCHANGED <<cache, outrun>>
  BY DEF ClearEntry
<1>3. /\ DOMAIN call' = Calls /\ DOMAIN call'[c] = {"at", "op", "data", "before"}
      /\ call'[c].at = "audit" /\ call'[c].op = call[c].op /\ call'[c].data = call[c].data
      /\ call'[c].before = call[c].before /\ \A d \in Calls \ {c} : call'[d] = call[d]
  BY <1>1, Moved
<1>4. RowsOK'
  BY <1>1, <1>2, <1>3 DEF IInv, RowsOK
<1>5. CallsOK'
  BY <1>1, <1>3, CallsKept DEF Pending
<1>6. BlankOK'
  BY <1>1, <1>3, BlankKept
<1>7. StaleOnlyThroughLateFill'
  <2> SUFFICES ASSUME NEW e \in Entries, cache'[e] \notin {None, db[e]},
                      e \notin outrun' \cup uncleared'
               PROVE  \E d \in Calls : call'[d].at = "clear" /\ e \in Clears(call'[d].op)
    BY <1>1 DEF StaleOnlyThroughLateFill
  <2>1. e \notin es /\ cache'[e] = cache[e] /\ e \notin outrun \cup uncleared
    <3>1. CASE /\ cache' = [f \in Entries |-> IF f \in es THEN None ELSE cache[f]]
               /\ outrun' = outrun \ es /\ uncleared' = uncleared \ es
      BY <3>1
    <3>2. CASE uncleared' = uncleared \cup es /\ UNCHANGED <<cache, outrun>>
      BY <1>1, <1>3, <3>2 DEF IInv, StaleOnlyThroughLateFill
    <3> QED BY <1>2, <3>1, <3>2
  <2>2. PICK d \in Calls : call[d].at = "clear" /\ e \in Clears(call[d].op)
    BY <2>1 DEF IInv, StaleOnlyThroughLateFill
  <2> QED BY <1>3, <2>1, <2>2
<1>8. RatesOK'
  BY <1>1, <1>3, RatesKept
<1>9. PaymentsOK'
  <2>1. call[c].op # "recordPlanPayment"
    BY <1>1 DEF IInv, CallsOK, CallOK, Clears
  <2> QED BY <1>1, <1>3, <2>1, PaymentsKept
<1> QED BY <1>4, <1>5, <1>6, <1>7, <1>8, <1>9 DEF IInv

LEMMA RecordLineKeeps ==
  ASSUME IInv, NEW c \in Calls, RecordLine(c)
  PROVE  IInv'
<1> DEFINE line == [op |-> call[c].op, before |-> call[c].before, after |-> call[c].data]
<1>1. /\ call[c].at = "audit" /\ audit' = [audit EXCEPT ![c] = line] /\ Finish(c)
      /\ UNCHANGED <<db, replica, cache, fill, paid, late, faults,
                     outrun, uncleared, rates, unrecorded>>
  BY DEF RecordLine, apiCore, history
<1>2. line.op = call[c].op /\ line.before = call[c].before /\ line.after = call[c].data
  OBVIOUS
<1> HIDE DEF line
<1>3. /\ DOMAIN call' = Calls /\ DOMAIN call'[c] = {"at", "op", "data", "before"}
      /\ call'[c].at = "done" /\ \A d \in Calls \ {c} : call'[d] = call[d]
  BY <1>1, Ended
<1>4. DOMAIN audit' = Calls /\ audit'[c] = line /\ \A d \in Calls \ {c} : audit'[d] = audit[d]
  BY <1>1 DEF IInv, RowsOK
<1>5. RowsOK'
  BY <1>1, <1>3, <1>4 DEF IInv, RowsOK
<1>6. CallsOK'
  BY <1>1, <1>3, CallsKept DEF Pending
<1>7. BlankOK'
  BY <1>3, <1>4 DEF IInv, BlankOK
<1>8. StaleOnlyThroughLateFill'
  BY <1>1, <1>3, StaleKept
<1>9. RatesOK'
  <2>1. ASSUME NEW rate, Mentioned(rate) PROVE Mentioned(rate)'
    <3>1. CASE rate \in unrecorded
      BY <1>1, <3>1 DEF Mentioned
    <3>2. ASSUME NEW d \in Calls,
                 \/ rate \in RatesOf(audit[d].before) \cup RatesOf(audit[d].after)
                 \/ call[d].at = "audit" /\ rate \in RatesOf(call[d].before) \cup RatesOf(call[d].data)
          PROVE  Mentioned(rate)'
      <4>1. CASE d # c
        BY <1>3, <1>4, <3>2, <4>1 DEF Mentioned
      <4>2. CASE d = c
        <5>1. audit[c] = NoLine
          BY <1>1 DEF IInv, BlankOK
        <5>2. rate \in RatesOf(call[c].before) \cup RatesOf(call[c].data)
          BY <3>2, <4>2, <5>1, Blank
        <5>3. rate \in RatesOf(audit'[c].before) \cup RatesOf(audit'[c].after)
          BY <1>2, <1>4, <5>2
        <5> QED BY <5>3 DEF Mentioned
      <4> QED BY <4>1, <4>2
    <3> QED BY <2>1, <3>1, <3>2 DEF Mentioned
  <2> QED BY <1>1, <2>1 DEF IInv, RatesOK
<1>10. PaymentsOK'
  <2>1. ASSUME NEW d \in Calls, NEW p \in Refs, Owns(d, p)' PROVE Owns(d, p)
    <3>1. CASE d # c
      BY <1>3, <1>4, <2>1, <3>1 DEF Owns
    <3>2. CASE d = c
      BY <1>1, <1>2, <1>3, <1>4, <2>1, <3>2 DEF Owns
    <3> QED BY <3>1, <3>2
  <2> QED BY <1>1, <2>1 DEF IInv, PaymentsOK
<1> QED BY <1>5, <1>6, <1>7, <1>8, <1>9, <1>10 DEF IInv

LEMMA StopKeeps ==
  ASSUME IInv, NEW c \in Calls, Stop(c)
  PROVE  IInv'
<1>1. /\ call[c].at \in {"clear", "audit"} /\ Finish(c)
      /\ unrecorded' = unrecorded \cup RatesOf(call[c].before) \cup RatesOf(call[c].data)
      /\ uncleared' = IF call[c].at = "clear" THEN uncleared \cup Clears(call[c].op) ELSE uncleared
      /\ UNCHANGED <<db, replica, cache, fill, paid, late, audit, outrun, rates>>
  BY DEF Stop, apiCore
<1>2. /\ DOMAIN call' = Calls /\ DOMAIN call'[c] = {"at", "op", "data", "before"}
      /\ call'[c].at = "done" /\ \A d \in Calls \ {c} : call'[d] = call[d]
  BY <1>1, Ended
<1>3. RowsOK'
  BY <1>1, <1>2 DEF IInv, RowsOK
<1>4. CallsOK'
  BY <1>1, <1>2, CallsKept DEF Pending
<1>5. BlankOK'
  BY <1>1, <1>2, BlankKept
<1>6. StaleOnlyThroughLateFill'
  BY <1>1, <1>2, StaleKept
<1>7. RatesOK'
  BY <1>1, <1>2, RatesKept
<1>8. PaymentsOK'
  BY <1>1, <1>2, PaymentsKept
<1> QED BY <1>3, <1>4, <1>5, <1>6, <1>7, <1>8 DEF IInv

(* What api-core and the replica do by themselves touches no call. *)
LEMMA OthersKeep ==
  ASSUME IInv, UNCHANGED <<db, call, audit, rates, unrecorded>>, paid \subseteq paid',
         DOMAIN replica' = Fields, replica'["rate"] \in rates,
         DOMAIN cache' = Entries, DOMAIN fill' = Entries, StaleOnlyThroughLateFill'
  PROVE  IInv'
<1>1. RowsOK'
  BY DEF IInv, RowsOK
<1>2. CallsOK'
  BY DEF IInv, CallsOK, CallOK
<1>3. BlankOK' /\ RatesOK' /\ PaymentsOK'
  BY BlankKept, RatesKept, PaymentsKept
<1> QED BY <1>1, <1>2, <1>3 DEF IInv

LEMMA AppliedLateKeeps ==
  ASSUME IInv, NEW p \in Refs, AppliedLate(p)
  PROVE  IInv'
<1>1. /\ paid' = paid \cup {p}
      /\ UNCHANGED <<db, replica, cache, fill, call, audit, outrun, uncleared, rates, unrecorded>>
  BY DEF AppliedLate, history
<1>2. StaleOnlyThroughLateFill'
  BY <1>1, StaleKept
<1> QED BY <1>1, <1>2, OthersKeep DEF IInv, RowsOK

LEMMA ReplicateKeeps ==
  ASSUME IInv, Replicate
  PROVE  IInv'
<1>1. /\ replica' = db
      /\ UNCHANGED <<db, cache, fill, paid, call, audit, outrun, uncleared, rates, unrecorded>>
  BY DEF Replicate, apiCore, history
<1>2. StaleOnlyThroughLateFill'
  BY <1>1, StaleKept
<1> QED BY <1>1, <1>2, OthersKeep DEF IInv, RowsOK

LEMMA FillReadsKeeps ==
  ASSUME IInv, NEW e \in Entries, FillReads(e)
  PROVE  IInv'
<1>1. /\ fill' = [fill EXCEPT ![e] = db[e]]
      /\ UNCHANGED <<db, replica, cache, paid, call, audit, outrun, uncleared, rates, unrecorded>>
  BY DEF FillReads, history
<1>2. StaleOnlyThroughLateFill'
  BY <1>1, StaleKept
<1> QED BY <1>1, <1>2, OthersKeep DEF IInv, RowsOK

LEMMA FillStoresKeeps ==
  ASSUME IInv, NEW e \in Entries, FillStores(e)
  PROVE  IInv'
<1>1. /\ cache' = [cache EXCEPT ![e] = fill[e]] /\ fill' = [fill EXCEPT ![e] = None]
      /\ outrun' = (IF fill[e] # db[e] THEN outrun \cup {e} ELSE outrun \ {e})
      /\ uncleared' = (IF fill[e] = db[e] THEN uncleared \ {e} ELSE uncleared)
      /\ UNCHANGED <<db, replica, paid, call, audit, rates, unrecorded>>
  BY DEF FillStores
<1>2. ASSUME NEW f \in Entries, cache'[f] \notin {None, db[f]}, f \notin outrun' \cup uncleared'
      PROVE  cache[f] = cache'[f] /\ f \notin outrun \cup uncleared
  BY <1>1, <1>2 DEF IInv, RowsOK
<1>3. StaleOnlyThroughLateFill'
  BY <1>1, <1>2 DEF IInv, StaleOnlyThroughLateFill
<1> QED BY <1>1, <1>3, OthersKeep DEF IInv, RowsOK

LEMMA EntryExpiresKeeps ==
  ASSUME IInv, NEW e \in Entries, EntryExpires(e)
  PROVE  IInv'
<1>1. /\ cache' = [cache EXCEPT ![e] = None]
      /\ outrun' = outrun \ {e} /\ uncleared' = uncleared \ {e}
      /\ UNCHANGED <<db, replica, fill, paid, call, audit, rates, unrecorded>>
  BY DEF EntryExpires, apiCore
<1>2. ASSUME NEW f \in Entries, cache'[f] \notin {None, db[f]}, f \notin outrun' \cup uncleared'
      PROVE  cache[f] = cache'[f] /\ f \notin outrun \cup uncleared
  BY <1>1, <1>2 DEF IInv, RowsOK
<1>3. StaleOnlyThroughLateFill'
  BY <1>1, <1>2 DEF IInv, StaleOnlyThroughLateFill
<1> QED BY <1>1, <1>3, OthersKeep DEF IInv, RowsOK

LEMMA NextInv == IInv /\ [Next]_vars => IInv'
<1> SUFFICES ASSUME IInv, [Next]_vars PROVE IInv'
  OBVIOUS
<1>1. CASE \E c \in Calls, op \in Ops : Begin(c, op)
  BY <1>1, BeginKeeps
<1>2. CASE \E c \in Calls :
             \/ WriteRow(c) \/ AskApiCore(c) \/ WriteFails(c) \/ AnswerLost(c)
             \/ ClearEntry(c) \/ RecordLine(c) \/ Stop(c)
  BY <1>2, WriteRowKeeps, AskApiCoreKeeps, WriteFailsKeeps, AnswerLostKeeps,
     ClearEntryKeeps, RecordLineKeeps, StopKeeps
<1>3. CASE \E p \in Refs : AppliedLate(p)
  BY <1>3, AppliedLateKeeps
<1>4. CASE \E e \in Entries : FillReads(e) \/ FillStores(e) \/ EntryExpires(e)
  BY <1>4, FillReadsKeeps, FillStoresKeeps, EntryExpiresKeeps
<1>5. CASE Replicate
  BY <1>5, ReplicateKeeps
<1>6. CASE UNCHANGED vars
  <2>1. UNCHANGED <<db, replica, cache, fill, paid, call, audit, outrun, uncleared, rates, unrecorded>>
    BY <1>6 DEF vars
  <2>2. StaleOnlyThroughLateFill'
    BY <2>1, StaleKept
  <2> QED BY <2>1, <2>2, OthersKeep DEF IInv, RowsOK
<1> QED BY <1>1, <1>2, <1>3, <1>4, <1>5, <1>6 DEF Next

--------------------------------------------------------------------------------
(* The invariant the three results below rest on holds throughout. *)
THEOREM Invariance == Spec => []IInv
<1> QED BY InitInv, NextInv, PTL DEF Spec

(* A suspended account or a key turned off goes on in api-core's cache only  *)
(* through a fill that outran the clearing, or a clearing that failed        *)
(* (setStatus, setApiKeyActive, ProductCacheService.del).                    *)
THEOREM CacheFollowsRows == Spec => []StaleOnlyThroughLateFill
<1>1. IInv => StaleOnlyThroughLateFill
  BY DEF IInv
<1> QED BY <1>1, Invariance, PTL

(* The audit log keeps every rate a price has had (upsertPricing), unless a  *)
(* call that wrote one was cut short.                                        *)
THEOREM RatesAreRecorded == Spec => []EveryRateOnRecord
<1>1. IInv => EveryRateOnRecord
  BY DEF IInv, RatesOK, Mentioned, EveryRateOnRecord
<1> QED BY <1>1, Invariance, PTL

(* No bank reference has two audit lines (recordPlanPayment). *)
THEOREM PaymentsAudited == Spec => []PaymentsAuditedOnce
<1>1. ASSUME IInv PROVE PaymentsAuditedOnce
  <2> SUFFICES ASSUME NEW p \in Refs
               PROVE  Cardinality({c \in Calls : /\ audit[c].op = "recordPlanPayment"
                                                 /\ audit[c].after.ref = p}) <= 1
    BY DEF PaymentsAuditedOnce
  <2> DEFINE S == {c \in Calls : audit[c].op = "recordPlanPayment" /\ audit[c].after.ref = p}
  <2>1. \A c, d \in S : c = d
    BY <1>1 DEF IInv, PaymentsOK, Owns
  <2>2. CASE S = {}
    <3>1. Cardinality(S) = 0
      BY <2>2, FS_EmptySet
    <3> QED BY <3>1
  <2>3. CASE S # {}
    <3>1. PICK c : S = {c}
      BY <2>1, <2>3
    <3>2. Cardinality(S) = 1
      BY <3>1, FS_Singleton
    <3> QED BY <3>2
  <2> QED BY <2>2, <2>3
<1> QED BY <1>1, Invariance, PTL

--------------------------------------------------------------------------------
(* Edits of a plan                                                          *)

Edits == PlanOps \ {"upsertPlan"}

(* Rows that agree on what an edit of a plan looks at.                      *)
SamePlan(row, other) == \A f \in PlanFields : row[f] = other[f]

(* An edit about to write has decided on what it keeps of the row it read.  *)
EditsOK ==
  \A c \in Calls : call[c].at = "write" /\ call[c].op \in Edits =>
    \E row : /\ call[c].before = Part(row, PlanFields)
             /\ call[c].data \in Data(call[c].op, row)

(* A written row has what was asked for where a field was to change, and    *)
(* where it was not, what it had, which is the same.                        *)
LEMMA ChangedWrites ==
  ASSUME NEW row, NEW other, DOMAIN other = Fields, SamePlan(row, other),
         NEW wanted \in [public : BOOLEAN, free : BOOLEAN, price : Prices]
  PROVE  /\ \A f \in {"public", "free", "price"} : Write(other, Changed(row, wanted))[f] = wanted[f]
         /\ Write(other, Changed(row, wanted))["active"] = other["active"]
<1> DEFINE data == Changed(row, wanted)
<1>1. DOMAIN wanted = {"public", "free", "price"}
  OBVIOUS
<1>2. DOMAIN data = {f \in DOMAIN wanted : wanted[f] # row[f]}
  BY Domains DEF Changed
<1>3. \A f \in DOMAIN data : data[f] = wanted[f]
  BY <1>2 DEF Changed, Part
<1>4. \A f \in Fields : Write(other, data)[f] = IF f \in DOMAIN data THEN data[f] ELSE other[f]
  BY Domains
<1> HIDE DEF data
<1>5. ASSUME NEW f \in {"public", "free", "price"}
      PROVE  Write(other, data)[f] = wanted[f]
  <2>1. f \in Fields /\ f \in PlanFields
    BY DEF Fields, PlanFields
  <2>2. CASE f \in DOMAIN data
    BY <1>3, <1>4, <2>1, <2>2
  <2>3. CASE f \notin DOMAIN data
    <3>1. wanted[f] = row[f]
      BY <1>1, <1>2, <2>3
    <3>2. row[f] = other[f]
      BY <2>1 DEF SamePlan
    <3> QED BY <1>4, <2>1, <2>3, <3>1, <3>2
  <2> QED BY <2>2, <2>3
<1>6. "active" \in Fields /\ "active" \notin DOMAIN data
  BY <1>1, <1>2 DEF Fields
<1>7. Write(other, data)["active"] = other["active"]
  BY <1>4, <1>6
<1> QED BY <1>5, <1>7 DEF data

(* Each edit keeps the rules of a plan it has read as it is.                *)
LEMMA EditKeepsRules ==
  ASSUME NEW row, NEW other, DOMAIN other = Fields, SamePlan(row, other), Consistent(other),
         NEW op \in Edits, NEW data \in Data(op, row)
  PROVE  Consistent(Write(other, data))
<1>1. /\ row["active"] = other["active"] /\ row["public"] = other["public"]
      /\ row["free"] = other["free"] /\ row["price"] = other["price"]
  BY DEF SamePlan, PlanFields
<1>2. {"active", "public", "free", "price"} \subseteq DOMAIN other
  BY DEF Fields
<1> DEFINE new == Write(other, data)
<1>3. \A f \in DOMAIN other : new[f] = IF f \in DOMAIN data THEN data[f] ELSE other[f]
  BY Domains
<1>4. CASE op = "updatePlan"
  <2>1. PICK wanted \in [public : BOOLEAN, free : BOOLEAN, price : Prices] :
          /\ data = Changed(row, wanted)
          /\ wanted["public"] /\ ~row["public"] => row["active"]
          /\ wanted["free"] => wanted["price"] = 0
    BY <1>4 DEF Data, updatePlan, planChanges
  <2>2. /\ new["public"] = wanted["public"] /\ new["free"] = wanted["free"]
        /\ new["price"] = wanted["price"] /\ new["active"] = other["active"]
    BY <2>1, ChangedWrites
  <2> HIDE DEF new
  <2>3. wanted["public"] => other["active"]
    BY <1>1, <2>1 DEF Consistent
  <2>4. Consistent(new)
    BY <2>1, <2>2, <2>3 DEF Consistent
  <2> QED BY <2>4 DEF new
<1>5. CASE op = "setPlanVisibility"
  <2>1. PICK on \in BOOLEAN : data = [public |-> on] /\ (on => row["active"])
    BY <1>5 DEF Data, setPlanVisibility
  <2>2. DOMAIN data = {"public"} /\ data["public"] = on
    BY <2>1
  <2>3. /\ new["public"] = on /\ new["free"] = other["free"]
        /\ new["price"] = other["price"] /\ new["active"] = other["active"]
    BY <1>2, <1>3, <2>2
  <2> HIDE DEF new
  <2>4. Consistent(new)
    BY <1>1, <2>1, <2>3 DEF Consistent
  <2> QED BY <2>4 DEF new
<1>6. CASE op = "setPlanActive"
  <2>1. PICK on \in BOOLEAN : data = [active |-> on, public |-> on /\ row["public"]]
    BY <1>6 DEF Data, setPlanActive
  <2>2. DOMAIN data = {"active", "public"} /\ data["active"] = on /\ data["public"] = (on /\ row["public"])
    BY <2>1
  <2>3. /\ new["public"] = (on /\ row["public"]) /\ new["free"] = other["free"]
        /\ new["price"] = other["price"] /\ new["active"] = on
    BY <1>2, <1>3, <2>2
  <2> HIDE DEF new
  <2>4. Consistent(new)
    BY <2>3 DEF Consistent
  <2> QED BY <2>4 DEF new
<1> QED BY <1>4, <1>5, <1>6 DEF Edits, PlanOps

(* Who is about to write has just read the row, or has been about to before. *)
LEMMA WritersRead ==
  ASSUME IInv, [Next]_vars, NEW c \in Calls, call'[c].at = "write"
  PROVE  call'[c] = call[c] \/ \E op \in Ops : Begin(c, op)
<1>1. CASE \E d \in Calls, op \in Ops : Begin(d, op)
  <2>1. PICK d \in Calls, op \in Ops : Begin(d, op)
    BY <1>1
  <2>2. \A b \in Calls \ {d} : call'[b] = call[b]
    BY <2>1 DEF Begin, IInv, RowsOK
  <2> QED BY <2>1, <2>2
<1>2. ASSUME NEW d \in Calls, WriteRow(d) \/ AskApiCore(d) \/ ClearEntry(d)
      PROVE  call'[c] = call[c]
  <2>1. Finish(d) \/ \E stage \in {"clear", "audit"} : Goto(d, stage)
    BY <1>2 DEF WriteRow, AskApiCore, ClearEntry, AfterWrite
  <2>2. call'[d].at # "write" /\ \A b \in Calls \ {d} : call'[b] = call[b]
    BY <2>1, Moved, Ended
  <2> QED BY <2>2
<1>3. ASSUME NEW d \in Calls, WriteFails(d) \/ AnswerLost(d) \/ RecordLine(d) \/ Stop(d)
      PROVE  call'[c] = call[c]
  <2>1. Finish(d)
    BY <1>3 DEF WriteFails, AnswerLost, RecordLine, Stop
  <2>2. call'[d].at # "write" /\ \A b \in Calls \ {d} : call'[b] = call[b]
    BY <2>1, Ended
  <2> QED BY <2>2
<1>4. CASE \/ \E p \in Refs : AppliedLate(p)
           \/ \E e \in Entries : FillReads(e) \/ FillStores(e) \/ EntryExpires(e)
           \/ Replicate \/ UNCHANGED vars
  BY <1>4 DEF AppliedLate, FillReads, FillStores, EntryExpires, Replicate, vars
<1> QED BY <1>1, <1>2, <1>3, <1>4 DEF Next

LEMMA EditsKept == IInv /\ EditsOK /\ [Next]_vars => EditsOK'
<1> SUFFICES ASSUME IInv, EditsOK, [Next]_vars,
                    NEW c \in Calls, call'[c].at = "write", call'[c].op \in Edits
             PROVE  \E row : /\ call'[c].before = Part(row, PlanFields)
                             /\ call'[c].data \in Data(call'[c].op, row)
  BY DEF EditsOK
<1>1. CASE call'[c] = call[c]
  BY <1>1 DEF EditsOK
<1>2. ASSUME NEW op \in Ops, Begin(c, op)
      PROVE  \E row : /\ call'[c].before = Part(row, PlanFields)
                      /\ call'[c].data \in Data(call'[c].op, row)
  <2>1. PICK data \in Data(op, Read(op)) :
          call' = [call EXCEPT ![c] = [at |-> "write", op |-> op, data |-> data,
                                       before |-> Part(Read(op), Kept(op))]]
    BY <1>2 DEF Begin
  <2> DEFINE new == [at |-> "write", op |-> op, data |-> data, before |-> Part(Read(op), Kept(op))]
  <2>2. new.op = op /\ new.data = data /\ new.before = Part(Read(op), Kept(op))
    OBVIOUS
  <2>3. call' = [call EXCEPT ![c] = new] /\ DOMAIN call = Calls
    BY <2>1 DEF IInv, RowsOK
  <2> HIDE DEF new
  <2>4. call'[c] = new
    BY <2>3
  <2>5. Kept(op) = PlanFields
    BY <2>2, <2>4 DEF Edits, PlanOps, Kept
  <2> QED BY <2>1, <2>2, <2>4, <2>5
<1> QED BY <1>1, <1>2, WritersRead

(* Only a write on the primary takes an edit from its decision to its line. *)
LEMMA EditWritesRow ==
  ASSUME IInv, [Next]_vars, NEW c \in Calls,
         call[c].op \in Edits, call[c].at = "write", call'[c].at = "audit"
  PROVE  db' = Write(db, call[c].data)
<1>1. call'[c] # call[c]
  OBVIOUS
<1>2. call[c].op \notin ApiCoreOps
  BY DEF Edits, PlanOps, ApiCoreOps
<1>3. ASSUME NEW d \in Calls, NEW op \in Ops, Begin(d, op)
      PROVE  FALSE
  <2>1. d # c
    BY <1>3 DEF Begin
  <2>2. call'[c] = call[c]
    BY <1>3, <2>1 DEF Begin, IInv, RowsOK
  <2> QED BY <1>1, <2>2
<1>4. ASSUME NEW d \in Calls, WriteRow(d) \/ AskApiCore(d) \/ ClearEntry(d)
      PROVE  d = c
  <2>1. Finish(d) \/ \E stage \in {"clear", "audit"} : Goto(d, stage)
    BY <1>4 DEF WriteRow, AskApiCore, ClearEntry, AfterWrite
  <2>2. \A b \in Calls \ {d} : call'[b] = call[b]
    BY <2>1, Moved, Ended
  <2> QED BY <1>1, <2>2
<1>5. ASSUME NEW d \in Calls, WriteFails(d) \/ AnswerLost(d) \/ RecordLine(d) \/ Stop(d)
      PROVE  FALSE
  <2>1. Finish(d)
    BY <1>5 DEF WriteFails, AnswerLost, RecordLine, Stop
  <2>2. call'[d].at = "done" /\ \A b \in Calls \ {d} : call'[b] = call[b]
    BY <2>1, Ended
  <2> QED BY <1>1, <2>2
<1>6. ASSUME \/ \E p \in Refs : AppliedLate(p)
             \/ \E e \in Entries : FillReads(e) \/ FillStores(e) \/ EntryExpires(e)
             \/ Replicate \/ UNCHANGED vars
      PROVE  FALSE
  BY <1>1, <1>6 DEF AppliedLate, FillReads, FillStores, EntryExpires, Replicate, vars
<1>7. WriteRow(c) \/ AskApiCore(c) \/ ClearEntry(c)
  BY <1>3, <1>4, <1>5, <1>6 DEF Next
<1>8. WriteRow(c)
  BY <1>2, <1>7 DEF AskApiCore, ClearEntry
<1> QED BY <1>8 DEF WriteRow

LEMMA EditsConsistent ==
  IInv /\ EditsOK /\ [Next]_vars =>
    [\A c \in Calls :
       /\ call[c].op \in PlanOps \ {"upsertPlan"} /\ call[c].at = "write" /\ call'[c].at = "audit"
       /\ call[c].before = Part(db, PlanFields) /\ Consistent(db)
       => Consistent(db')]_vars
<1> SUFFICES ASSUME IInv, EditsOK, [Next]_vars, NEW c \in Calls,
                    call[c].op \in Edits, call[c].at = "write", call'[c].at = "audit",
                    call[c].before = Part(db, PlanFields), Consistent(db)
             PROVE  Consistent(db')
  BY DEF Edits
<1>1. PICK row : /\ call[c].before = Part(row, PlanFields)
                 /\ call[c].data \in Data(call[c].op, row)
  BY DEF EditsOK
<1>2. SamePlan(row, db)
  <2>1. \A f \in PlanFields : Part(row, PlanFields)[f] = row[f] /\ Part(db, PlanFields)[f] = db[f]
    BY DEF Part
  <2> QED BY <1>1, <2>1 DEF SamePlan
<1>3. DOMAIN db = Fields
  BY DEF IInv, RowsOK
<1>4. db' = Write(db, call[c].data)
  BY EditWritesRow
<1> QED BY <1>1, <1>2, <1>3, <1>4, EditKeepsRules

(* An edit of a plan that read the plan as it is never publishes a retired   *)
(* plan nor leaves a price on a free one, whatever it is asked and whatever  *)
(* other calls are under way (planChanges, setPlanVisibility, setPlanActive).*)
THEOREM EditsKeepRules == Spec => EditsKeepPlansConsistent
<1>1. Init => EditsOK
  <2>1. New.at = "new"
    BY DEF New
  <2> QED BY <2>1 DEF Init, EditsOK
<1>2. IInv /\ EditsOK /\ [Next]_vars => EditsOK'
  BY EditsKept
<1>3. Spec => [](IInv /\ EditsOK)
  <2>1. IInv /\ EditsOK /\ [Next]_vars => (IInv /\ EditsOK)'
    BY <1>2, NextInv
  <2> QED BY <1>1, <2>1, InitInv, PTL DEF Spec
<1>4. IInv /\ EditsOK /\ [Next]_vars =>
        [\A c \in Calls :
           /\ call[c].op \in PlanOps \ {"upsertPlan"} /\ call[c].at = "write" /\ call'[c].at = "audit"
           /\ call[c].before = Part(db, PlanFields) /\ Consistent(db)
           => Consistent(db')]_vars
  BY EditsConsistent
<1> QED BY <1>3, <1>4, PTL DEF Spec, EditsKeepPlansConsistent

================================================================================
