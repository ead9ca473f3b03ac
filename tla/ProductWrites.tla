----------------------------- MODULE ProductWrites -----------------------------
(***************************************************************************)
(* The console's changes to the product: the actions on a customer          *)
(* (modules/customers/customer-actions.service.ts), the catalogue of plans, *)
(* products and prices (modules/plans/catalogue.service.ts, plan-update.ts), *)
(* template decisions (modules/templates/templates.service.ts) and the       *)
(* settings kept by api-core (modules/availability, modules/markets).        *)
(*                                                                          *)
(* They share one shape.  A call reads the row, decides what to write,       *)
(* writes it - with a connection of its own (common/prisma/                  *)
(* zapiack-write.service.ts) or by asking api-core -, clears what api-core   *)
(* has cached of it (common/redis/product-cache.service.ts) and adds an      *)
(* audit line.  The row is read from a replica that lags, and every step is  *)
(* an await at which another call, api-core or a failure may come between.   *)
(*                                                                          *)
(* One account, API key, project, product, price, plan and template stand    *)
(* for all.  Row fields no rule looks at are left out; a rate stands for a    *)
(* price's cost and flag.  A call that is refused leaves no trace and is not  *)
(* a step.  A ban is refused while the balance on the replica is positive:    *)
(* the balance belongs to the ledger, so a ban may be refused or not.         *)
(***************************************************************************)
EXTENDS Naturals, FiniteSets

CONSTANTS Calls,     \* requests from staff
          Refs,      \* bank references of payments made outside the app
          Statuses,  \* the account states that matter to api-core
          Rates,     \* what a price may say
          Prices,    \* base prices of a plan, 0 for nothing
          Ops,       \* the operations that are called
          MaxFaults, \* bound on failures
          None

ASSUME ProductWritesAssumption ==
  /\ 0 \in Prices
  /\ MaxFaults \in Nat
  /\ None \notin Statuses /\ None \notin BOOLEAN /\ None # "recordPlanPayment"
  /\ Ops \subseteq {"setStatus", "setApiKeyActive", "archiveProject", "createProduct",
                   "updateProduct", "upsertPricing", "upsertPlan", "updatePlan",
                   "setPlanVisibility", "setPlanActive", "decideTemplate", "recordPlanPayment",
                   "command"}

VARIABLES db,        \* the product's rows on the primary
          replica,   \* what zapiack.read shows of them
          cache,     \* Redis: what api-core has cached of the account and the key
          fill,      \* api-core: a value read from the database and not yet cached
          paid,      \* api-core: references it has applied
          late,      \* api-core: references whose caller gave up waiting
          call,      \* where each call is
          audit,     \* the audit line of each call
          faults,
          outrun,    \* history: cache entries filled with what was read before a write
          uncleared, \* history: cache entries that were to be cleared and were not
          rates,     \* history: every rate there has been
          unrecorded \* history: rates of calls that wrote and ended before their audit line

vars == <<db, replica, cache, fill, paid, late, call, audit, faults, outrun, uncleared, rates, unrecorded>>
apiCore == <<fill, paid, late>>
history == <<outrun, uncleared, rates, unrecorded>>

Entries == {"status", "key"}

PlanFields == {"active", "public", "free", "price"}

TemplateStatuses == {"DRAFT", "SUBMITTED", "APPROVED", "REJECTED"}

(* Part of a row, and a row with part of it written over. *)
Part(row, fields) == [f \in fields |-> row[f]]

Write(row, data) == [f \in DOMAIN row |-> IF f \in DOMAIN data THEN data[f] ELSE row[f]]

NoData == Part([none |-> 0], {})

--------------------------------------------------------------------------------
(* What each operation may write once it has read `row`, whatever its       *)
(* caller asks for; nothing when it would refuse.                           *)
setStatus(row) == {[status |-> to] : to \in Statuses \ {row.status}}

setApiKeyActive(row) == {[key |-> on] : on \in BOOLEAN}

archiveProject(row) == {[archived |-> TRUE]}

createProduct(row) == {[product |-> state] : state \in IF row.product = "none" THEN {"on", "off"} ELSE {}}

updateProduct(row) == {[product |-> state] : state \in IF row.product = "none" THEN {} ELSE {"on", "off"}}

upsertPricing(row) == {[rate |-> rate] : rate \in Rates}

PlanRows == [active : BOOLEAN, public : BOOLEAN, free : BOOLEAN, price : Prices]

(* upsertPlan rebuilds the row, with defaults for what is left out. *)
upsertPlan(row) == PlanRows

(* updatePlan writes the fields that differ; planChanges refuses to publish *)
(* a retired plan and to leave a price on a free one.                       *)
Changed(row, wanted) == Part(wanted, {f \in DOMAIN wanted : wanted[f] # row[f]})

planChangesUnchecked(row) ==
  {Changed(row, wanted) : wanted \in
     {w \in [public : BOOLEAN, free : BOOLEAN, price : Prices] : w.free => w.price = 0}}

planChanges(row) ==
  {Changed(row, wanted) : wanted \in
     {w \in [public : BOOLEAN, free : BOOLEAN, price : Prices] :
        /\ w.public /\ ~row.public => row.active
        /\ w.free => w.price = 0}}

updatePlan(row) == planChanges(row) \ {NoData}

setPlanVisibility(row) ==
  {[public |-> on] : on \in {b \in BOOLEAN : b # row.public /\ (b => row.active)}}

setPlanActive(row) == {[active |-> on, public |-> on /\ row.public] : on \in BOOLEAN}

(* A decision on a template; SUBMITTED stands for IN_REVIEW too, and a      *)
(* template without a body may be rejected only.                            *)
allowedActions(row) ==
  CASE row.template \in {"DRAFT", "SUBMITTED"} -> {"APPROVED", "REJECTED"}
    [] row.template = "APPROVED"               -> {"REJECTED"}
    [] row.template = "REJECTED"               -> {"APPROVED"}

decideTemplate(row) == {[template |-> to] : to \in allowedActions(row)}

recordPlanPayment(row) == {[ref |-> p] : p \in Refs}

(* Commands whose effect is api-core's own and touches none of these rows:  *)
(* what is left of them here is that they ask, and then add their line.  A  *)
(* card is charged more than the limit only for who may approve credits, so *)
(* whoever asks decides whether it is refused; letters that lack a field    *)
(* are not written, which ends the call like a refusal.                     *)
forceLogout(row) == {NoData}
changePlan(row) == {NoData}
chargePlanToCard(row) == {NoData}
resetRateLimits(row) == {NoData}
changeAvailability(row) == {NoData}
setMarket(row) == {NoData}
removeMarket(row) == {NoData}
generateLetters(row) == {NoData}

command(row) ==
  UNION {forceLogout(row), changePlan(row), chargePlanToCard(row), resetRateLimits(row),
         changeAvailability(row), setMarket(row), removeMarket(row), generateLetters(row)}

Data(op, row) ==
  CASE op = "setStatus"         -> setStatus(row)
    [] op = "setApiKeyActive"   -> setApiKeyActive(row)
    [] op = "archiveProject"    -> archiveProject(row)
    [] op = "createProduct"     -> createProduct(row)
    [] op = "updateProduct"     -> updateProduct(row)
    [] op = "upsertPricing"     -> upsertPricing(row)
    [] op = "upsertPlan"        -> upsertPlan(row)
    [] op = "updatePlan"        -> updatePlan(row)
    [] op = "setPlanVisibility" -> setPlanVisibility(row)
    [] op = "setPlanActive"     -> setPlanActive(row)
    [] op = "decideTemplate"    -> decideTemplate(row)
    [] op = "recordPlanPayment" -> recordPlanPayment(row)
    [] op = "command"           -> command(row)

PlanOps == {"upsertPlan", "updatePlan", "setPlanVisibility", "setPlanActive"}

(* Sent to api-core instead of written with the console's own connection.   *)
ApiCoreOps == {"decideTemplate", "recordPlanPayment", "command"}

(* The fields of the row read first that the call keeps for later. *)
Kept(op) == CASE op \in PlanOps       -> PlanFields
              [] op = "upsertPricing" -> {"rate"}
              [] OTHER                -> {}

(* What api-core caches of the row written. *)
ClearsStatusOnly(op) == IF op = "setStatus" THEN {"status"} ELSE {}

Clears(op) == CASE op = "setStatus"       -> {"status"}
                [] op = "setApiKeyActive" -> {"key"}
                [] OTHER                  -> {}

--------------------------------------------------------------------------------
New == [at |-> "new", op |-> None, data |-> NoData, before |-> NoData]
Done == [New EXCEPT !.at = "done"]
(* The rates a record of fields mentions. *)
RatesOf(data) == IF "rate" \in DOMAIN data THEN {data.rate} ELSE {}

NoLine == [op |-> None, before |-> NoData, after |-> NoData]

Init ==
  /\ \E plan \in PlanRows :
       /\ plan.public => plan.active
       /\ plan.free => plan.price = 0
       /\ db = [status |-> CHOOSE s \in Statuses : TRUE, key |-> TRUE, archived |-> FALSE,
                product |-> "none", rate |-> CHOOSE r \in Rates : TRUE, template |-> "SUBMITTED",
                active |-> plan.active, public |-> plan.public, free |-> plan.free,
                price |-> plan.price]
  /\ rates = {db.rate}
  /\ replica = db
  /\ cache = [e \in Entries |-> None] /\ fill = [e \in Entries |-> None]
  /\ paid = {} /\ late = {}
  /\ call = [c \in Calls |-> New]
  /\ audit = [c \in Calls |-> NoLine]
  /\ faults = 0
  /\ outrun = {} /\ uncleared = {} /\ unrecorded = {}

Goto(c, stage) == call' = [call EXCEPT ![c].at = stage]
Finish(c) == call' = [call EXCEPT ![c] = Done]

AfterWrite(c) == IF Clears(call[c].op) # {} THEN "clear" ELSE "audit"

Fault == faults < MaxFaults /\ faults' = faults + 1

(* A template is read from api-core itself, everything else on the replica. *)
Read(op) == IF op = "decideTemplate" THEN db ELSE replica

Begin(c, op) ==
  /\ call[c].at = "new"
  /\ \E data \in Data(op, Read(op)) :
       call' = [call EXCEPT ![c] = [at |-> "write", op |-> op, data |-> data,
                                    before |-> Part(Read(op), Kept(op))]]
  /\ UNCHANGED <<db, replica, cache, apiCore, audit, faults, history>>

(* The write on the primary.  A second product for the channel is refused   *)
(* by its unique key.                                                       *)
WriteRow(c) ==
  /\ call[c].at = "write" /\ call[c].op \notin ApiCoreOps
  /\ call[c].op = "createProduct" => db.product = "none"
  /\ db' = Write(db, call[c].data)
  /\ rates' = rates \cup {db'.rate}
  /\ Goto(c, AfterWrite(c))
  /\ UNCHANGED <<replica, cache, apiCore, audit, faults, outrun, uncleared, unrecorded>>

AskApiCoreUnchecked(c) ==
  /\ call[c].at = "write" /\ call[c].op \in ApiCoreOps
  /\ db' = Write(db, call[c].data)
  /\ LET refs == IF call[c].op = "recordPlanPayment" THEN {call[c].data.ref} ELSE {}
     IN paid' = paid \cup refs
  /\ Goto(c, "audit")
  /\ UNCHANGED <<replica, cache, fill, late, audit, faults, history>>

(* api-core answers.  A payment it has applied before adds no audit line;   *)
(* a template it finds in another state is for api-core to refuse or not.   *)
AskApiCore(c) ==
  /\ call[c].at = "write" /\ call[c].op \in ApiCoreOps
  /\ db' = Write(db, call[c].data)
  /\ LET refs == IF call[c].op = "recordPlanPayment" THEN {call[c].data.ref} ELSE {}
     IN /\ paid' = paid \cup refs
        /\ IF refs # {} /\ refs \subseteq paid THEN Finish(c) ELSE Goto(c, "audit")
  /\ UNCHANGED <<replica, cache, fill, late, audit, faults, history>>

(* The write is refused or the database or api-core is out of reach.        *)
WriteFails(c) ==
  /\ call[c].at = "write"
  /\ Finish(c)
  /\ UNCHANGED <<db, replica, cache, apiCore, audit, faults, history>>

(* api-core does not answer in time: it may have done what it was asked, or *)
(* do it still, or neither.                                                 *)
AnswerLost(c) ==
  /\ call[c].at = "write" /\ call[c].op \in ApiCoreOps
  /\ Fault
  /\ db' \in {db, Write(db, call[c].data)}
  /\ late' = late \cup (IF call[c].op = "recordPlanPayment" THEN {call[c].data.ref} ELSE {})
  /\ Finish(c)
  /\ UNCHANGED <<replica, cache, fill, paid, audit, history>>

AppliedLate(p) ==
  /\ p \in late
  /\ paid' = paid \cup {p} /\ late' = late \ {p}
  /\ UNCHANGED <<db, replica, cache, fill, call, audit, faults, history>>

(* del: the entry is gone, or Redis is out of reach and the call goes on.   *)
ClearEntry(c) ==
  /\ call[c].at = "clear"
  /\ LET es == Clears(call[c].op)
     IN \/ /\ cache' = [e \in Entries |-> IF e \in es THEN None ELSE cache[e]]
           /\ outrun' = outrun \ es /\ uncleared' = uncleared \ es
           /\ UNCHANGED faults
        \/ Fault /\ uncleared' = uncleared \cup es /\ UNCHANGED <<cache, outrun>>
  /\ Goto(c, "audit")
  /\ UNCHANGED <<db, replica, apiCore, audit, rates, unrecorded>>

RecordLineWithoutBefore(c) ==
  /\ call[c].at = "audit"
  /\ audit' = [audit EXCEPT ![c] = [op |-> call[c].op, before |-> NoData,
                                    after |-> call[c].data]]
  /\ Finish(c)
  /\ UNCHANGED <<db, replica, cache, apiCore, faults, history>>

(* The audit line, with what was read before and what was written. *)
RecordLine(c) ==
  /\ call[c].at = "audit"
  /\ audit' = [audit EXCEPT ![c] = [op |-> call[c].op, before |-> call[c].before,
                                    after |-> call[c].data]]
  /\ Finish(c)
  /\ UNCHANGED <<db, replica, cache, apiCore, faults, history>>

(* The process stops, or a read or the audit line fails. *)
Stop(c) ==
  /\ call[c].at \in {"clear", "audit"}
  /\ Fault
  /\ unrecorded' = unrecorded \cup RatesOf(call[c].before) \cup RatesOf(call[c].data)
  /\ uncleared' = IF call[c].at = "clear" THEN uncleared \cup Clears(call[c].op) ELSE uncleared
  /\ Finish(c)
  /\ UNCHANGED <<db, replica, cache, apiCore, audit, outrun, rates>>

Replicate ==
  /\ replica # db
  /\ replica' = db
  /\ UNCHANGED <<db, cache, apiCore, call, audit, faults, history>>

(* api-core serves a request: it reads the row when nothing is cached, and  *)
(* then caches what it read.  An entry expires within the hour.             *)
FillReads(e) ==
  /\ cache[e] = None /\ fill[e] = None
  /\ fill' = [fill EXCEPT ![e] = db[e]]
  /\ UNCHANGED <<db, replica, cache, paid, late, call, audit, faults, history>>

FillStores(e) ==
  /\ fill[e] # None
  /\ cache' = [cache EXCEPT ![e] = fill[e]]
  /\ fill' = [fill EXCEPT ![e] = None]
  /\ outrun' = IF fill[e] # db[e] THEN outrun \cup {e} ELSE outrun \ {e}
  /\ uncleared' = IF fill[e] = db[e] THEN uncleared \ {e} ELSE uncleared
  /\ UNCHANGED <<db, replica, paid, late, call, audit, faults, rates, unrecorded>>

EntryExpires(e) ==
  /\ cache[e] # None
  /\ cache' = [cache EXCEPT ![e] = None]
  /\ outrun' = outrun \ {e} /\ uncleared' = uncleared \ {e}
  /\ UNCHANGED <<db, replica, apiCore, call, audit, faults, rates, unrecorded>>

Next ==
  \/ \E c \in Calls, op \in Ops : Begin(c, op)
  \/ \E c \in Calls :
       \/ WriteRow(c) \/ AskApiCore(c) \/ WriteFails(c) \/ AnswerLost(c)
       \/ ClearEntry(c) \/ RecordLine(c) \/ Stop(c)
  \/ \E p \in Refs : AppliedLate(p)
  \/ \E e \in Entries : FillReads(e) \/ FillStores(e) \/ EntryExpires(e)
  \/ Replicate

Spec == Init /\ [][Next]_vars

--------------------------------------------------------------------------------
(* What api-core has cached of an account or a key is out of date only      *)
(* while the call that changed the row is about to clear it, when it could  *)
(* not be cleared, or when api-core read the row before the change and      *)
(* cached it afterwards (setStatus, setApiKeyActive and del): however calls *)
(* and fills overlap, nothing else leaves a suspended account sending.      *)
StaleOnlyThroughLateFill ==
  \A e \in Entries : cache[e] \notin {None, db[e]} =>
    \/ e \in outrun \cup uncleared
    \/ \E c \in Calls : call[c].at = "clear" /\ e \in Clears(call[c].op)

(* "The only record of the previous rate: the product keeps no price        *)
(* history" (catalogue.service.ts:159): whatever calls race and however far *)
(* the replica they read lags, a rate that has been replaced is in an audit *)
(* line, or in the call about to write one, unless that call was cut short. *)
EveryRateOnRecord ==
  \A rate \in rates \ {db.rate} :
    \/ rate \in unrecorded
    \/ \E c \in Calls :
         \/ rate \in RatesOf(audit[c].before) \cup RatesOf(audit[c].after)
         \/ call[c].at = "audit" /\ rate \in RatesOf(call[c].before) \cup RatesOf(call[c].data)

(* A payment is written to the audit log once, however often it is sent     *)
(* again and whenever api-core gets round to it ("the bank reference makes  *)
(* a repeat harmless", and recordPlanPayment's alreadyApplied).             *)
PaymentsAuditedOnce ==
  \A p \in Refs :
    Cardinality({c \in Calls : audit[c].op = "recordPlanPayment" /\ audit[c].after.ref = p}) <= 1

(* An edit of a plan that read the plan as it is keeps the rules that tie   *)
(* its fields together: a retired plan is not offered and a free one costs  *)
(* nothing, whichever of the edits it is and whatever it is asked           *)
(* (planChanges, setPlanVisibility, setPlanActive).  upsertPlan rebuilds the *)
(* row and is not held to them.                                             *)
Consistent(row) == (row.public => row.active) /\ (row.free => row.price = 0)

EditsKeepPlansConsistent ==
  [][\A c \in Calls :
       /\ call[c].op \in PlanOps \ {"upsertPlan"} /\ call[c].at = "write" /\ call'[c].at = "audit"
       /\ call[c].before = Part(db, PlanFields) /\ Consistent(db)
       => Consistent(db')]_vars
================================================================================
