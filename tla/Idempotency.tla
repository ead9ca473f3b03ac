------------------------------ MODULE Idempotency ------------------------------
(***************************************************************************)
(* The idempotency interceptor that wraps the console's write routes:      *)
(* src/src/common/idempotency/idempotency.interceptor.ts.                  *)
(*                                                                         *)
(* A Key stands for the unique index (key, staffId, route).  Each call is  *)
(* one HTTP request: a first attempt, a double click or a retry after a    *)
(* time-out all look the same to the server.  Its handler is abstract: it  *)
(* returns, having taken effect, or throws.  The process may stop anywhere, *)
(* and a database write may fail, also after the database has carried it   *)
(* out (the connection is lost before the answer).                         *)
(***************************************************************************)
EXTENDS Naturals, FiniteSets

CONSTANTS Keys,     \* (Idempotency-Key, staff, route) triples
          Bodies,   \* request payloads, as far as their hashes differ
          Calls,    \* the HTTP requests that arrive: the bound on attempts
          None

ASSUME IdempotencyAssumption == None \notin Calls \cup Bodies \cup Keys

VARIABLES record,   \* the idempotency_records table
          call,     \* where each request is
          effects   \* the calls whose handler returned

vars == <<record, call, effects>>

(* The stored response is what the owner's handler returned, so the owner   *)
(* stands for it.                                                           *)
NoRecord == [owner |-> None, hash |-> None, completed |-> FALSE]

NotArrived == [at |-> "new", key |-> None, body |-> None, from |-> None]

Stages == {"new", "create", "reread", "run", "complete", "release",
           "answered", "replayed", "inFlight", "mismatch", "error", "dead"}

TypeOK ==
  /\ record \in [Keys -> [owner : Calls \cup {None}, hash : Bodies \cup {None},
                          completed : BOOLEAN]]
  /\ call \in [Calls -> [at : Stages, key : Keys \cup {None}, body : Bodies \cup {None},
                         from : Calls \cup {None}]]
  /\ effects \subseteq Calls

Init ==
  /\ record = [k \in Keys |-> NoRecord]
  /\ call = [c \in Calls |-> NotArrived]
  /\ effects = {}

--------------------------------------------------------------------------------
Goto(c, stage) == call' = [call EXCEPT ![c].at = stage]

Held(k) == record[k] # NoRecord

(* The table after each of the writes of call c. *)
Inserted(c) ==
  IF Held(call[c].key) THEN record
  ELSE [record EXCEPT ![call[c].key] = [owner |-> c, hash |-> call[c].body, completed |-> FALSE]]

Completed(c) == [record EXCEPT ![call[c].key].completed = TRUE]

DeletedByKey(c) == [record EXCEPT ![call[c].key] = NoRecord]

(* The delete is by the id of the record this call created. *)
Deleted(c) ==
  IF record[call[c].key].owner = c THEN [record EXCEPT ![call[c].key] = NoRecord] ELSE record

WriteOf(c) ==
  CASE call[c].at = "create"   -> Inserted(c)
    [] call[c].at = "complete" -> Completed(c)
    [] call[c].at = "release"  -> Deleted(c)
    [] OTHER                   -> record

(* asReplay: what an existing record answers to a payload. *)
asReplayUnhashed(k, body) ==
  IF ~record[k].completed THEN [at |-> "inFlight", from |-> None]
  ELSE [at |-> "replayed", from |-> record[k].owner]

asReplay(k, body) ==
  IF record[k].hash # body THEN [at |-> "mismatch", from |-> None]
  ELSE IF ~record[k].completed THEN [at |-> "inFlight", from |-> None]
  ELSE [at |-> "replayed", from |-> record[k].owner]

(* claim, first read: an existing record settles the call at once. *)
Arrive(c, k, body) ==
  /\ call[c] = NotArrived
  /\ LET found == IF Held(k) THEN asReplay(k, body) ELSE [at |-> "create", from |-> None]
     IN call' = [call EXCEPT ![c] =
                   [at |-> found.at, key |-> k, body |-> body, from |-> found.from]]
  /\ UNCHANGED <<record, effects>>

CreateWithoutIndex(c) ==
  /\ call[c].at = "create"
  /\ record' = [record EXCEPT ![call[c].key] =
                  [owner |-> c, hash |-> call[c].body, completed |-> FALSE]]
  /\ Goto(c, "run")
  /\ UNCHANGED effects

(* claim, the insert: the unique index lets one of the racing calls through. *)
Create(c) ==
  /\ call[c].at = "create"
  /\ record' = Inserted(c)
  /\ Goto(c, IF Held(call[c].key) THEN "reread" ELSE "run")
  /\ UNCHANGED effects

(* claim, after losing the race: findUniqueOrThrow finds what won, unless   *)
(* the winner has failed and released the key in the meantime.              *)
Reread(c) ==
  /\ call[c].at = "reread"
  /\ LET found == IF Held(call[c].key) THEN asReplay(call[c].key, call[c].body)
                  ELSE [at |-> "error", from |-> None]
     IN call' = [call EXCEPT ![c] = [@ EXCEPT !.at = found.at, !.from = found.from]]
  /\ UNCHANGED <<record, effects>>

(* The handler: next.handle(). *)
HandlerReturns(c) ==
  /\ call[c].at = "run"
  /\ effects' = effects \cup {c}
  /\ Goto(c, "complete")
  /\ UNCHANGED record

HandlerThrows(c) ==
  /\ call[c].at = "run"
  /\ Goto(c, "release")
  /\ UNCHANGED <<record, effects>>

CompleteFireAndForget(c) ==
  /\ call[c].at = "complete"
  /\ record' \in {Completed(c), Deleted(c)}
  /\ Goto(c, "answered")
  /\ UNCHANGED effects

(* The completion write comes before the answer; if it fails, or seems to,  *)
(* catchError treats the call like one whose handler threw.                 *)
Complete(c) ==
  /\ call[c].at = "complete"
  /\ \/ record' = Completed(c) /\ Goto(c, "answered")
     \/ record' \in {record, Completed(c)} /\ Goto(c, "release")
  /\ UNCHANGED effects

ReleaseByKeyOnAnyError(c) ==
  /\ call[c].at \in {"release", "inFlight"}
  /\ record' = DeletedByKey(c)
  /\ Goto(c, "error")
  /\ UNCHANGED effects

(* catchError: the delete's own failure is swallowed. *)
Release(c) ==
  /\ call[c].at = "release"
  /\ record' \in {record, Deleted(c)}
  /\ Goto(c, "error")
  /\ UNCHANGED effects

(* The process stops in the middle of a request, or a write of claim fails; *)
(* the write under way may have been carried out.                           *)
Crash(c) ==
  /\ call[c].at \in {"create", "reread", "run", "complete", "release"}
  /\ record' \in {record, WriteOf(c)}
  /\ effects' \in {effects, IF call[c].at = "run" THEN effects \cup {c} ELSE effects}
  /\ Goto(c, "dead")

Step(c) ==
  \/ Create(c) \/ Reread(c) \/ HandlerReturns(c) \/ HandlerThrows(c)
  \/ Complete(c) \/ Release(c) \/ Crash(c)

Next ==
  \/ \E c \in Calls, k \in Keys, body \in Bodies : Arrive(c, k, body)
  \/ \E c \in Calls : Step(c)

Spec == Init /\ [][Next]_vars

--------------------------------------------------------------------------------
SameKey(c, d) == call[c].key = call[d].key /\ call[c].key # None

(* Two handlers never run for one key at the same time, and the record is   *)
(* the running one's until it lets go: the unique index and the owner's own *)
(* id keep racing duplicates out (claim, and the delete and update by id).  *)
OneOwner ==
  \A c \in Calls : call[c].at \in {"run", "complete", "release"} =>
    /\ record[call[c].key].owner = c
    /\ record[call[c].key].hash = call[c].body
    /\ record[call[c].key].completed => call[c].at = "release"

(* A replayed answer is what another call's handler returned under the same *)
(* key for the same payload (asReplay).                                     *)
ReplayIsTheOriginal ==
  \A c \in Calls : call[c].at = "replayed" =>
    LET o == call[c].from
    IN o \in effects \ {c} /\ SameKey(c, o) /\ call[c].body = call[o].body

(* Of all the calls under one key, at most one is answered with a result of *)
(* its own, and by then the record says so: a client that retries the       *)
(* instant it has its answer is replayed (Complete, before it answers).     *)
AnsweredOnceAndRecorded ==
  \A c, d \in Calls : call[c].at = "answered" =>
    /\ SameKey(c, d) /\ call[d].at = "answered" => c = d
    /\ record[call[c].key] = [owner |-> c, hash |-> call[c].body, completed |-> TRUE]

GivesBack(c, k) ==
  /\ record[k].owner = c
  /\ call[c].at = "release" /\ call'[c].at \in {"error", "dead"}

(* Only its own call ever gives a key back, and only while it is failing:   *)
(* no loser of a race and no late retry frees a key somebody else holds     *)
(* (the delete by id in catchError, which claim's conflicts never reach).   *)
OnlyItsOwnerFreesAKey ==
  [][\A k \in Keys : Held(k) /\ ~Held(k)' => \E c \in Calls : GivesBack(c, k)]_vars

(* "The effect happens once" (idempotency.interceptor.spec.ts:190): of the  *)
(* calls under one key, one handler runs to its end.                        *)
(* Not so: a failed write of the answer frees the key after the effect.     *)
EffectOnce == \A c, d \in effects : SameKey(c, d) => c = d

--------------------------------------------------------------------------------
(* What the abstract lease sees of the table and of the calls. *)
Lease == [k \in Keys |-> [holder |-> record[k].owner, body |-> record[k].hash,
                          filed |-> record[k].completed]]

Told == [c \in Calls |->
  CASE call[c].at = "answered" -> [key |-> call[c].key, body |-> call[c].body, from |-> c]
    [] call[c].at = "replayed" -> [key |-> call[c].key, body |-> call[c].body, from |-> call[c].from]
    [] OTHER -> [key |-> None, body |-> None, from |-> None]]

Promise == INSTANCE KeyLease WITH lease <- Lease, acted <- effects, told <- Told

(* Reads, inserts, updates and deletes that race, fail or are cut short make *)
(* nothing that a lease per key does not: one holder at a time, filed before *)
(* it is told, replayed as it was filed, given back only by a holder who was *)
(* told nothing (the interceptor's promise, lines 20-29 and 92-96).          *)
KeepsLease == Promise!Spec
================================================================================
