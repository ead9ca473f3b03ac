--------------------------- MODULE Idempotency_proofs ---------------------------
(***************************************************************************)
(* Proofs about the idempotency interceptor, for any number of keys,        *)
(* payloads and concurrent calls.  What TLC checks becomes inductive once   *)
(* it is said of every call what it may rely on (CallOK) and of every       *)
(* record whose answer it holds (RecordOK).                                 *)
(* The interceptor then implements a lease per key (KeyLease): its three    *)
(* writes let a key, file its result and give it back.                      *)
(*                                                                         *)
(* In the second half, proofs about the nightly jobs (Finalisation), for    *)
(* any number of nights, faults and jobs at once.  No day is lost because   *)
(* days are queued oldest first: no job on file and no place of the marker  *)
(* is ahead of a day that nobody will see to (OldestFirst, MarkerFits), and *)
(* a start that goes through leaves to the history load and tonight's tick  *)
(* only what they take (EndedFit).                                          *)
(***************************************************************************)
EXTENDS Idempotency, Finalisation, TLAPS

Owns(c) == record[call[c].key].owner = c /\ record[call[c].key].hash = call[c].body

(* The handler of call o returned, under this key and for this payload. *)
AnswerOf(o, k, body) == o \in Calls \cap effects /\ call[o].key = k /\ call[o].body = body

CallOK(c) ==
  /\ call[c].at = "new" => call[c] = NotArrived
  /\ call[c].at # "new" => call[c].key \in Keys /\ call[c].body \in Bodies
  /\ call[c].at \in {"run", "complete", "release", "answered"} => Owns(c)
  /\ call[c].at \in {"run", "complete"} => ~record[call[c].key].completed
  /\ call[c].at = "answered" => record[call[c].key].completed
  /\ call[c].at \in {"new", "create", "reread", "run"} => c \notin effects
  /\ call[c].at \in {"complete", "answered"} => c \in effects
  /\ call[c].at = "replayed" =>
       AnswerOf(call[c].from, call[c].key, call[c].body) /\ call[c].from # c

RecordOK(k) == record[k].completed => AnswerOf(record[k].owner, k, record[k].hash)

IInv ==
  /\ TypeOK
  /\ \A c \in Calls : CallOK(c)
  /\ \A k \in Keys : RecordOK(k)

(* What any step of a call that has arrived does to its surroundings: it    *)
(* writes its own slot, and of the table at most its own key's record,      *)
(* which is free or its own.                                                *)
Frame(c) ==
  /\ call[c].at # "new" /\ call'[c].at # "new"
  /\ call'[c].key = call[c].key /\ call'[c].body = call[c].body
  /\ \A d \in Calls \ {c} : call'[d] = call[d]
  /\ \A k \in Keys \ {call[c].key} : record'[k] = record[k]
  /\ effects \subseteq effects' /\ effects' \subseteq effects \cup {c}
  /\ \/ record'[call[c].key] = record[call[c].key]
     \/ ~Held(call[c].key)
     \/ record[call[c].key].owner = c

--------------------------------------------------------------------------------
LEMMA InitInv == Init => IInv
  BY IdempotencyAssumption
  DEF Init, IInv, TypeOK, CallOK, RecordOK, NoRecord, NotArrived, Stages

(* Nothing that another call relies on is disturbed by a step within its    *)
(* frame.                                                                   *)
LEMMA OthersOK ==
  ASSUME IInv, NEW c \in Calls, Frame(c)
  PROVE  /\ \A d \in Calls \ {c} : CallOK(d)'
         /\ \A k \in Keys \ {call[c].key} : RecordOK(k)'
  <1>1. ASSUME NEW o, NEW k, NEW body, AnswerOf(o, k, body)
        PROVE  AnswerOf(o, k, body)'
    BY <1>1 DEF Frame, AnswerOf
  <1>2. ASSUME NEW d \in Calls \ {c} PROVE CallOK(d)'
    <2>1. CallOK(d) /\ call'[d] = call[d] /\ (d \in effects' <=> d \in effects)
      BY DEF IInv, Frame
    <2>2. ASSUME Owns(d), call[d].key \in Keys
          PROVE  record'[call[d].key] = record[call[d].key]
      <3>1. record[call[d].key].owner = d /\ d # c /\ Held(call[d].key)
        BY <2>2, IdempotencyAssumption DEF Owns, Held, NoRecord
      <3>2. QED
        BY <2>2, <3>1 DEF Frame
    <2>3. call[d].at \in {"run", "complete", "release", "answered"} =>
            /\ Owns(d)'
            /\ record'[call[d].key] = record[call[d].key]
      BY <2>1, <2>2 DEF CallOK, Owns
    <2>4. call[d].at = "replayed" =>
            /\ call[d].from \in Calls \cap effects'
            /\ call'[call[d].from].key = call[d].key
            /\ call'[call[d].from].body = call[d].body
            /\ call[d].from # d
      BY <2>1 DEF CallOK, AnswerOf, Frame
    <2>5. QED
      BY <2>1, <2>3, <2>4 DEF CallOK, AnswerOf
  <1>3. ASSUME NEW k \in Keys \ {call[c].key} PROVE RecordOK(k)'
    <2>1. RecordOK(k) /\ record'[k] = record[k]
      BY DEF IInv, Frame
    <2>2. QED
      BY <2>1, <1>1 DEF RecordOK, AnswerOf
  <1>4. QED
    BY <1>2, <1>3

LEMMA StepOK ==
  ASSUME IInv, NEW c \in Calls, NEW k \in Keys, call[c].key = k,
         Frame(c), TypeOK', CallOK(c)', RecordOK(k)'
  PROVE  IInv'
  BY OthersOK DEF IInv

(* A call arrives: its slot was empty, so nothing rests on it. *)
LEMMA ArriveInv ==
  ASSUME IInv, NEW c \in Calls, NEW k \in Keys, NEW body \in Bodies, Arrive(c, k, body)
  PROVE  IInv'
  <1> DEFINE found == IF Held(k) THEN asReplay(k, body) ELSE [at |-> "create", from |-> None]
  <1>1. /\ call' = [call EXCEPT ![c] =
                      [at |-> found.at, key |-> k, body |-> body, from |-> found.from]]
        /\ record' = record /\ effects' = effects /\ call[c].at = "new" /\ c \notin effects
    BY DEF Arrive, NotArrived, IInv, CallOK
  <1>2. /\ found.at \in {"create", "mismatch", "inFlight", "replayed"}
        /\ found.from \in Calls \cup {None}
        /\ found.at = "replayed" =>
             found.from = record[k].owner /\ record[k].completed /\ record[k].hash = body
    BY DEF asReplay, IInv, TypeOK
  <1> HIDE DEF found
  <1>3. TypeOK'
    BY <1>1, <1>2 DEF IInv, TypeOK, Stages
  <1>4. /\ call'[c] = [at |-> found.at, key |-> k, body |-> body, from |-> found.from]
        /\ \A d \in Calls \ {c} : call'[d] = call[d]
    BY <1>1 DEF IInv, TypeOK
  <1>5. \A o \in Calls \cap effects : o # c /\ call'[o] = call[o]
    BY <1>1, <1>4
  <1>6. ASSUME NEW d \in Calls \ {c} PROVE CallOK(d)'
    <2>1. CallOK(d) /\ call'[d] = call[d]
      BY <1>4 DEF IInv
    <2>2. QED
      BY <1>1, <1>5, <2>1 DEF CallOK, AnswerOf, Owns
  <1>7. ASSUME NEW l \in Keys PROVE RecordOK(l)'
    <2>1. RecordOK(l)
      BY DEF IInv
    <2>2. QED
      BY <1>1, <1>5, <2>1 DEF RecordOK, AnswerOf
  <1>8. CallOK(c)'
    <2>1. found.at = "replayed" => AnswerOf(found.from, k, body)
      BY <1>2 DEF IInv, RecordOK
    <2>2. QED
      BY <1>1, <1>2, <1>4, <1>5, <2>1 DEF CallOK, AnswerOf
  <1>9. QED
    BY <1>3, <1>6, <1>7, <1>8 DEF IInv

(* Steps that leave the table alone: the second look of a loser, and the    *)
(* handler.                                                                 *)
LEMMA RereadInv ==
  ASSUME IInv, NEW c \in Calls, Reread(c)
  PROVE  IInv'
  <1> DEFINE found == IF Held(call[c].key) THEN asReplay(call[c].key, call[c].body)
                      ELSE [at |-> "error", from |-> None]
  <1>1. /\ call' = [call EXCEPT ![c] = [@ EXCEPT !.at = found.at, !.from = found.from]]
        /\ record' = record /\ effects' = effects /\ call[c].at = "reread"
    BY DEF Reread
  <1>2. CallOK(c) /\ call[c].key \in Keys /\ call[c].body \in Bodies /\ c \notin effects
    BY <1>1 DEF IInv, CallOK
  <1>3. /\ found.at \in {"error", "mismatch", "inFlight", "replayed"}
        /\ found.from \in Calls \cup {None}
        /\ found.at = "replayed" =>
             /\ found.from = record[call[c].key].owner
             /\ record[call[c].key].completed /\ record[call[c].key].hash = call[c].body
    BY <1>2 DEF asReplay, IInv, TypeOK
  <1> HIDE DEF found
  <1>4. TypeOK'
    <2> DEFINE Slots == [at : Stages, key : Keys \cup {None}, body : Bodies \cup {None},
                         from : Calls \cup {None}]
    <2>1. call \in [Calls -> Slots] /\ found.at \in Stages
      BY <1>3 DEF IInv, TypeOK, Stages
    <2>2. [call[c] EXCEPT !.at = found.at, !.from = found.from] \in Slots
      BY <1>3, <2>1
    <2>3. call' \in [Calls -> Slots]
      BY <1>1, <2>1, <2>2
    <2>4. QED
      BY <1>1, <2>3 DEF IInv, TypeOK
  <1>5. /\ call'[c].at = found.at /\ call'[c].from = found.from
        /\ call'[c].key = call[c].key /\ call'[c].body = call[c].body
        /\ \A d \in Calls \ {c} : call'[d] = call[d]
    BY <1>1 DEF IInv, TypeOK
  <1>6. Frame(c)
    BY <1>1, <1>3, <1>5 DEF Frame
  <1>7. \A o \in Calls \cap effects : o # c /\ call'[o] = call[o]
    BY <1>2, <1>5
  <1>8. CallOK(c)'
    <2>1. found.at = "replayed" => AnswerOf(found.from, call[c].key, call[c].body)
      BY <1>2, <1>3 DEF IInv, RecordOK
    <2>2. QED
      BY <1>1, <1>2, <1>3, <1>5, <1>7, <2>1 DEF CallOK, AnswerOf
  <1>9. PICK k \in Keys : k = call[c].key
    BY <1>2
  <1>10. RecordOK(k)'
    <2>1. RecordOK(k)
      BY DEF IInv
    <2>2. QED
      BY <1>1, <1>7, <2>1 DEF RecordOK, AnswerOf
  <1>11. QED
    BY <1>4, <1>6, <1>8, <1>9, <1>10, StepOK

LEMMA HandlerInv ==
  ASSUME IInv, NEW c \in Calls, HandlerReturns(c) \/ HandlerThrows(c)
  PROVE  IInv'
  <1>1. /\ record' = record /\ call[c].at = "run"
        /\ \/ call' = [call EXCEPT ![c].at = "complete"] /\ effects' = effects \cup {c}
           \/ call' = [call EXCEPT ![c].at = "release"] /\ effects' = effects
    BY DEF HandlerReturns, HandlerThrows, Goto
  <1>2. CallOK(c) /\ call[c].key \in Keys /\ call[c].body \in Bodies
    BY <1>1 DEF IInv, CallOK
  <1>3. TypeOK'
    BY <1>1 DEF IInv, TypeOK, Stages
  <1>4. /\ (call'[c].at = "complete" /\ c \in effects') \/ call'[c].at = "release"
        /\ call'[c].key = call[c].key /\ call'[c].body = call[c].body
        /\ \A d \in Calls \ {c} : call'[d] = call[d]
    BY <1>1 DEF IInv, TypeOK
  <1>5. Frame(c)
    BY <1>1, <1>4 DEF Frame
  <1>6. CallOK(c)'
    BY <1>1, <1>2, <1>4 DEF CallOK, Owns
  <1>7. PICK k \in Keys : k = call[c].key
    BY <1>2
  <1>8. RecordOK(k)'
    BY <1>1, <1>2, <1>7 DEF CallOK, RecordOK
  <1>9. QED
    BY <1>3, <1>5, <1>6, <1>7, <1>8, StepOK

--------------------------------------------------------------------------------
(* Steps that write the table.  Each writes one of three things, whole or   *)
(* not at all: the insert, the completion, or the delete by id.             *)
WriteTypes(c) ==
  /\ Inserted(c) \in [Keys -> [owner : Calls \cup {None}, hash : Bodies \cup {None},
                               completed : BOOLEAN]]
  /\ Completed(c) \in [Keys -> [owner : Calls \cup {None}, hash : Bodies \cup {None},
                                completed : BOOLEAN]]
  /\ Deleted(c) \in [Keys -> [owner : Calls \cup {None}, hash : Bodies \cup {None},
                              completed : BOOLEAN]]

LEMMA WritesOK ==
  ASSUME IInv, NEW c \in Calls, call[c].key \in Keys, call[c].body \in Bodies
  PROVE  WriteTypes(c)
  <1>1. Inserted(c) \in [Keys -> [owner : Calls \cup {None}, hash : Bodies \cup {None},
                                  completed : BOOLEAN]]
    BY DEF IInv, TypeOK, Inserted
  <1>2. Completed(c) \in [Keys -> [owner : Calls \cup {None}, hash : Bodies \cup {None},
                                   completed : BOOLEAN]]
    BY DEF IInv, TypeOK, Completed
  <1>3. Deleted(c) \in [Keys -> [owner : Calls \cup {None}, hash : Bodies \cup {None},
                                 completed : BOOLEAN]]
    BY DEF IInv, TypeOK, Deleted, NoRecord
  <1>4. QED
    BY <1>1, <1>2, <1>3 DEF WriteTypes

(* The insert: a winner owns a record that is not complete; a loser has     *)
(* written nothing.                                                         *)
LEMMA CreateInv ==
  ASSUME IInv, NEW c \in Calls, Create(c)
  PROVE  IInv'
  <1>1. /\ record' = Inserted(c) /\ effects' = effects /\ call[c].at = "create"
        /\ call' = [call EXCEPT ![c].at = IF Held(call[c].key) THEN "reread" ELSE "run"]
    BY DEF Create, Goto
  <1>2. PICK k \in Keys : k = call[c].key /\ call[c].body \in Bodies /\ c \notin effects
    BY <1>1 DEF IInv, CallOK
  <1>3. TypeOK'
    <2>1. WriteTypes(c)
      BY <1>2, WritesOK
    <2>2. call' \in [Calls -> [at : Stages, key : Keys \cup {None}, body : Bodies \cup {None},
                               from : Calls \cup {None}]]
      BY <1>1 DEF IInv, TypeOK, Stages
    <2>3. QED
      BY <1>1, <2>1, <2>2 DEF WriteTypes, IInv, TypeOK
  <1>4. /\ call'[c].at = IF Held(k) THEN "reread" ELSE "run"
        /\ call'[c].key = call[c].key /\ call'[c].body = call[c].body
        /\ \A d \in Calls \ {c} : call'[d] = call[d]
    BY <1>1, <1>2 DEF IInv, TypeOK
  <1>5. /\ \A l \in Keys \ {k} : record'[l] = record[l]
        /\ record'[k] = IF Held(k) THEN record[k]
                        ELSE [owner |-> c, hash |-> call[c].body, completed |-> FALSE]
    BY <1>1, <1>2 DEF Inserted, IInv, TypeOK
  <1>6. Frame(c)
    BY <1>1, <1>2, <1>4, <1>5 DEF Frame
  <1>7. CallOK(c)'
    BY <1>1, <1>2, <1>4, <1>5 DEF CallOK, Owns
  <1>8. RecordOK(k)'
    <2>1. RecordOK(k) /\ \A o \in Calls \cap effects : o # c /\ call'[o] = call[o]
      BY <1>2, <1>4 DEF IInv
    <2>2. QED
      BY <1>1, <1>5, <2>1 DEF RecordOK, AnswerOf
  <1>9. QED
    BY <1>2, <1>3, <1>6, <1>7, <1>8, StepOK

(* The completion, by a call whose handler has returned.                    *)
LEMMA CompleteInv ==
  ASSUME IInv, NEW c \in Calls, Complete(c)
  PROVE  IInv'
  <1>1. /\ effects' = effects /\ call[c].at = "complete"
        /\ \/ record' = Completed(c) /\ call' = [call EXCEPT ![c].at = "answered"]
           \/ /\ record' = record \/ record' = Completed(c)
              /\ call' = [call EXCEPT ![c].at = "release"]
    BY DEF Complete, Goto
  <1>2. PICK k \in Keys : k = call[c].key /\ call[c].body \in Bodies
    BY <1>1 DEF IInv, CallOK
  <1>3. CallOK(c) /\ c \in effects /\ record[k].owner = c /\ record[k].hash = call[c].body
    BY <1>1, <1>2 DEF IInv, CallOK, Owns
  <1>4. TypeOK'
    <2>1. WriteTypes(c)
      BY <1>2, WritesOK
    <2>2. call' \in [Calls -> [at : Stages, key : Keys \cup {None}, body : Bodies \cup {None},
                               from : Calls \cup {None}]]
      BY <1>1 DEF IInv, TypeOK, Stages
    <2>3. QED
      BY <1>1, <2>1, <2>2 DEF WriteTypes, IInv, TypeOK
  <1>5. /\ \A l \in Keys \ {k} : record'[l] = record[l]
        /\ record'[k].owner = c /\ record'[k].hash = call[c].body
        /\ record' = Completed(c) => record'[k].completed
    BY <1>1, <1>2, <1>3 DEF Completed, IInv, TypeOK
  <1>6. /\ (call'[c].at = "answered" /\ record' = Completed(c)) \/ call'[c].at = "release"
        /\ call'[c].key = k /\ call'[c].body = call[c].body
        /\ \A d \in Calls \ {c} : call'[d] = call[d]
    BY <1>1, <1>2 DEF IInv, TypeOK
  <1>7. Frame(c)
    BY <1>1, <1>2, <1>3, <1>5, <1>6 DEF Frame
  <1>8. CallOK(c)'
    BY <1>1, <1>2, <1>3, <1>5, <1>6 DEF CallOK, Owns
  <1>9. RecordOK(k)'
    BY <1>1, <1>3, <1>5, <1>6 DEF RecordOK, AnswerOf
  <1>10. QED
    BY <1>2, <1>4, <1>7, <1>8, <1>9, StepOK

(* The delete by id: the record is the call's own, or stays.                *)
LEMMA ReleaseInv ==
  ASSUME IInv, NEW c \in Calls, Release(c)
  PROVE  IInv'
  <1>1. /\ effects' = effects /\ call[c].at = "release"
        /\ record' = record \/ record' = Deleted(c)
        /\ call' = [call EXCEPT ![c].at = "error"]
    BY DEF Release, Goto
  <1>2. PICK k \in Keys : k = call[c].key /\ call[c].body \in Bodies
    BY <1>1 DEF IInv, CallOK
  <1>3. CallOK(c) /\ record[k].owner = c
    BY <1>1, <1>2 DEF IInv, CallOK, Owns
  <1>4. TypeOK'
    <2>1. WriteTypes(c)
      BY <1>2, WritesOK
    <2>2. call' \in [Calls -> [at : Stages, key : Keys \cup {None}, body : Bodies \cup {None},
                               from : Calls \cup {None}]]
      BY <1>1 DEF IInv, TypeOK, Stages
    <2>3. QED
      BY <1>1, <2>1, <2>2 DEF WriteTypes, IInv, TypeOK
  <1>5. /\ \A l \in Keys \ {k} : record'[l] = record[l]
        /\ record'[k] = record[k] \/ record'[k] = NoRecord
    BY <1>1, <1>2, <1>3 DEF Deleted, IInv, TypeOK
  <1>6. /\ call'[c].at = "error" /\ call'[c].key = k /\ call'[c].body = call[c].body
        /\ \A d \in Calls \ {c} : call'[d] = call[d]
    BY <1>1, <1>2 DEF IInv, TypeOK
  <1>7. Frame(c)
    BY <1>1, <1>2, <1>3, <1>5, <1>6 DEF Frame
  <1>8. CallOK(c)'
    BY <1>1, <1>2, <1>3, <1>6 DEF CallOK
  <1>9. RecordOK(k)'
    <2>1. RecordOK(k)
      BY DEF IInv
    <2>2. \A o \in Calls : call'[o].key = call[o].key /\ call'[o].body = call[o].body
      BY <1>2, <1>6
    <2>3. QED
      BY <1>1, <1>5, <2>1, <2>2 DEF RecordOK, AnswerOf, NoRecord
  <1>10. QED
    BY <1>2, <1>4, <1>7, <1>8, <1>9, StepOK

(* The process stops: whatever the write under way did, the call is dead    *)
(* and its record, if it still has one, stays as it is.                     *)
LEMMA CrashInv ==
  ASSUME IInv, NEW c \in Calls, Crash(c)
  PROVE  IInv'
  <1>1. /\ call[c].at \in {"create", "reread", "run", "complete", "release"}
        /\ call' = [call EXCEPT ![c].at = "dead"]
        /\ effects \subseteq effects' /\ effects' \subseteq effects \cup {c}
        /\ record' \in {record, WriteOf(c)}
    BY DEF Crash, Goto
  <1>2. PICK k \in Keys : k = call[c].key /\ call[c].body \in Bodies
    BY <1>1 DEF IInv, CallOK
  <1>3. CallOK(c)
    BY DEF IInv
  <1>4. \/ record' = record
        \/ call[c].at = "create" /\ record' = Inserted(c)
        \/ call[c].at = "complete" /\ record' = Completed(c)
        \/ call[c].at = "release" /\ record' = Deleted(c)
    BY <1>1 DEF WriteOf
  <1>5. TypeOK'
    <2>1. WriteTypes(c)
      BY <1>2, WritesOK
    <2>2. call' \in [Calls -> [at : Stages, key : Keys \cup {None}, body : Bodies \cup {None},
                               from : Calls \cup {None}]]
      BY <1>1 DEF IInv, TypeOK, Stages
    <2>3. effects' \subseteq Calls
      BY <1>1 DEF IInv, TypeOK
    <2>4. QED
      BY <1>4, <2>1, <2>2, <2>3 DEF WriteTypes, IInv, TypeOK
  <1>6. /\ call'[c].at = "dead" /\ call'[c].key = k /\ call'[c].body = call[c].body
        /\ \A d \in Calls \ {c} : call'[d] = call[d]
    BY <1>1, <1>2 DEF IInv, TypeOK
  <1>7. call[c].at \in {"complete", "release"} =>
          record[k].owner = c /\ record[k].hash = call[c].body
    BY <1>2, <1>3 DEF CallOK, Owns
  <1>8. /\ \A l \in Keys \ {k} : record'[l] = record[l]
        /\ \/ record'[k] = record[k]
           \/ ~Held(k) /\ ~record'[k].completed
           \/ /\ call[c].at \in {"complete", "release"}
              /\ record'[k] = NoRecord \/ (record'[k].owner = c /\ record'[k].hash = call[c].body
                                           /\ call[c].at = "complete")
    <2>1. CASE record' = record
      BY <2>1
    <2>2. CASE call[c].at = "create" /\ record' = Inserted(c)
      BY <1>2, <2>2 DEF Inserted, IInv, TypeOK
    <2>3. CASE call[c].at = "complete" /\ record' = Completed(c)
      BY <1>2, <1>7, <2>3 DEF Completed, IInv, TypeOK
    <2>4. CASE call[c].at = "release" /\ record' = Deleted(c)
      BY <1>2, <1>7, <2>4 DEF Deleted, IInv, TypeOK
    <2>5. QED
      BY <1>4, <2>1, <2>2, <2>3, <2>4
  <1>9. Frame(c)
    BY <1>1, <1>2, <1>6, <1>7, <1>8 DEF Frame
  <1>10. CallOK(c)'
    BY <1>2, <1>6 DEF CallOK
  <1>11. RecordOK(k)'
    <2>1. RecordOK(k)
      BY DEF IInv
    <2>2. \A o \in Calls : call'[o].key = call[o].key /\ call'[o].body = call[o].body
      BY <1>2, <1>6
    <2>3. call[c].at = "complete" => c \in effects
      BY <1>3 DEF CallOK
    <2>4. QED
      BY <1>1, <1>2, <1>8, <2>1, <2>2, <2>3 DEF RecordOK, AnswerOf, NoRecord
  <1>12. QED
    BY <1>2, <1>5, <1>9, <1>10, <1>11, StepOK

--------------------------------------------------------------------------------
(* Every state satisfies the strengthened invariant: what claim, asReplay   *)
(* and intercept may rely on.                                               *)
THEOREM Invariance == Spec => []IInv
  <1>1. ASSUME IInv, [Next]_vars PROVE IInv'
    <2>1. ASSUME NEW c \in Calls, NEW k \in Keys, NEW body \in Bodies, Arrive(c, k, body)
          PROVE  IInv'
      BY <1>1, <2>1, ArriveInv
    <2>2. ASSUME NEW c \in Calls, Step(c) PROVE IInv'
      BY <1>1, <2>2, CreateInv, RereadInv, HandlerInv, CompleteInv, ReleaseInv, CrashInv DEF Step
    <2>3. ASSUME UNCHANGED vars PROVE IInv'
      BY <1>1, <2>3 DEF vars, IInv, TypeOK, CallOK, RecordOK, AnswerOf, Owns
    <2>4. QED
      BY <1>1, <2>1, <2>2, <2>3 DEF Next
  <1>2. QED
    BY InitInv, <1>1, PTL DEF Spec

(* Every variable keeps its type (the records table and the calls). *)
THEOREM TypeCorrect == Spec => []TypeOK
  <1>1. IInv => TypeOK
    BY DEF IInv
  <1>2. QED
    BY <1>1, Invariance, PTL

(* Two handlers never run for one key at the same time, however many calls  *)
(* race to claim it, fail and are repeated (claim, and the writes by id).   *)
THEOREM SingleOwner == Spec => []OneOwner
  <1>1. IInv => OneOwner
    BY DEF IInv, CallOK, Owns, OneOwner
  <1>2. QED
    BY <1>1, Invariance, PTL

(* A replayed answer is the one of another call with the same key and       *)
(* payload (asReplay).                                                      *)
THEOREM ReplaysAreOriginals == Spec => []ReplayIsTheOriginal
  <1>1. ASSUME IInv PROVE ReplayIsTheOriginal
    <2>1. ASSUME NEW c \in Calls, call[c].at = "replayed"
          PROVE  /\ call[c].from \in effects \ {c} /\ SameKey(c, call[c].from)
                 /\ call[c].body = call[call[c].from].body
      <3>1. /\ CallOK(c) /\ call[c].key \in Keys
        BY <1>1, <2>1 DEF IInv, CallOK
      <3>2. QED
        BY <2>1, <3>1, IdempotencyAssumption DEF CallOK, AnswerOf, SameKey
    <2>2. QED
      BY <2>1 DEF ReplayIsTheOriginal
  <1>2. QED
    BY <1>1, Invariance, PTL

(* At most one call per key is answered with a result of its own, and its   *)
(* record is complete by then (the completion write comes first).           *)
THEOREM AnsweredOnce == Spec => []AnsweredOnceAndRecorded
  <1>1. ASSUME IInv PROVE AnsweredOnceAndRecorded
    <2>1. ASSUME NEW c \in Calls, call[c].at = "answered"
          PROVE  record[call[c].key] = [owner |-> c, hash |-> call[c].body, completed |-> TRUE]
      <3>1. /\ call[c].key \in Keys /\ record[call[c].key].owner = c
            /\ record[call[c].key].hash = call[c].body /\ record[call[c].key].completed
        BY <1>1, <2>1 DEF IInv, CallOK, Owns
      <3>2. QED
        BY <1>1, <3>1 DEF IInv, TypeOK
    <2>2. ASSUME NEW c \in Calls, NEW d \in Calls, call[c].at = "answered",
                 call[d].at = "answered", SameKey(c, d)
          PROVE  c = d
      BY <1>1, <2>2 DEF IInv, CallOK, Owns, SameKey
    <2>3. QED
      BY <2>1, <2>2 DEF AnsweredOnceAndRecorded
  <1>2. QED
    BY <1>1, Invariance, PTL

(* Whoever frees a key owns it and is on its way to an error.               *)
LEMMA FreedByOwner ==
  ASSUME IInv, NEW k \in Keys, Held(k), ~Held(k)', NEW c \in Calls, Step(c)
  PROVE  GivesBack(c, k)
  <1>1. call[c].at # "new"
    BY DEF Step, Create, Reread, HandlerReturns, HandlerThrows, Complete, Release, Crash
  <1>2. call[c].key \in Keys
    BY <1>1 DEF IInv, CallOK
  <1>3. record'[k] = NoRecord /\ record[k] # NoRecord
    BY DEF Held
  <1>4. Inserted(c)[k] # NoRecord
    BY <1>2, <1>3, IdempotencyAssumption DEF Inserted, Held, NoRecord, IInv, TypeOK
  <1>5. Completed(c)[k] # NoRecord
    BY <1>2, <1>3 DEF Completed, NoRecord, IInv, TypeOK
  <1>6. record' = Deleted(c) /\ call[c].at = "release" /\ (Release(c) \/ Crash(c))
    <2>1. record' # record /\ record' # Inserted(c) /\ record' # Completed(c)
      BY <1>3, <1>4, <1>5
    <2>2. CASE Crash(c)
      BY <2>1, <2>2 DEF Crash, WriteOf
    <2>3. CASE ~Crash(c)
      BY <2>1, <2>3 DEF Step, Create, Reread, HandlerReturns, HandlerThrows, Complete, Release
    <2>4. QED
      BY <2>2, <2>3
  <1>7. call[c].key = k /\ record[k].owner = c
    BY <1>2, <1>3, <1>6 DEF Deleted, IInv, TypeOK
  <1>8. call'[c].at \in {"error", "dead"}
    <2>1. call' = [call EXCEPT ![c].at = "error"] \/ call' = [call EXCEPT ![c].at = "dead"]
      BY <1>6 DEF Release, Crash, Goto
    <2>2. QED
      BY <2>1 DEF IInv, TypeOK
  <1>9. QED
    BY <1>6, <1>7, <1>8 DEF GivesBack

(* Only its own call ever gives a key back, while it is failing (the delete *)
(* by id in catchError).                                                    *)
THEOREM FreedByItsOwner == Spec => OnlyItsOwnerFreesAKey
  <1>1. IInv /\ [Next]_vars =>
          [\A k \in Keys : Held(k) /\ ~Held(k)' => \E c \in Calls : GivesBack(c, k)]_vars
    <2>1. ASSUME IInv, Next, NEW k \in Keys, Held(k), ~Held(k)'
          PROVE  \E c \in Calls : GivesBack(c, k)
      <3>1. ASSUME NEW c \in Calls, NEW l \in Keys, NEW body \in Bodies, Arrive(c, l, body)
            PROVE  FALSE
        BY <2>1, <3>1 DEF Arrive, Held
      <3>2. PICK c \in Calls : Step(c)
        BY <2>1, <3>1 DEF Next
      <3>3. QED
        BY <2>1, <3>2, FreedByOwner
    <2>2. QED
      BY <2>1
  <1>2. QED
    BY <1>1, Invariance, PTL DEF Spec, OnlyItsOwnerFreesAKey

--------------------------------------------------------------------------------
(* The interceptor as a lease per key (KeyLease).                           *)

(* Who holds a key has asked for it, and been let it. *)
OwnerOK ==
  \A k \in Keys, c \in Calls : record[k].owner = c =>
    call[c].key = k /\ call[c].at \notin {"new", "create", "reread"}

(* What a call that has arrived does to the table: nothing, or one of the   *)
(* three writes, each on its own key.                                       *)
Inserts(c) ==
  /\ call[c].at = "create" /\ ~Held(call[c].key) /\ record' = Inserted(c)
  /\ call'[c].at \in {"run", "dead"} /\ effects' = effects
Completes(c) ==
  /\ call[c].at = "complete" /\ record' = Completed(c)
  /\ call'[c].at \in {"answered", "release", "dead"} /\ effects' = effects
Deletes(c) ==
  /\ call[c].at = "release" /\ record' = [record EXCEPT ![call[c].key] = NoRecord]
  /\ call'[c].at \in {"error", "dead"} /\ effects' = effects

LEMMA StepWrites ==
  ASSUME IInv, NEW c \in Calls, Step(c)
  PROVE  /\ call[c].key \in Keys /\ call[c].body \in Bodies
         /\ call[c].at \in {"create", "reread", "run", "complete", "release"}
         /\ \A d \in Calls \ {c} : call'[d] = call[d]
         /\ call'[c].key = call[c].key /\ call'[c].body = call[c].body
         /\ call'[c].at \in {"create", "reread"} => call[c].at = "create"
         /\ call'[c].at # "new" /\ (call'[c].at = "answered" => Completes(c))
         /\ record' = record \/ Inserts(c) \/ Completes(c) \/ Deletes(c)
  <1>1. /\ call \in [Calls -> [at : Stages, key : Keys \cup {None}, body : Bodies \cup {None},
                               from : Calls \cup {None}]]
        /\ call[c].at \in {"create", "reread", "run", "complete", "release"}
    BY DEF IInv, TypeOK, Step, Create, Reread, HandlerReturns, HandlerThrows, Complete, Release, Crash
  <1>2. /\ call[c].key \in Keys /\ call[c].body \in Bodies
        /\ call[c].at = "release" => record[call[c].key].owner = c
    BY <1>1 DEF IInv, CallOK, Owns
  <1>3. ASSUME NEW stage, Goto(c, stage)
        PROVE  /\ \A d \in Calls \ {c} : call'[d] = call[d]
               /\ call'[c].key = call[c].key /\ call'[c].body = call[c].body
               /\ call'[c].at = stage
    BY <1>1, <1>3 DEF Goto
  <1>4. CASE Create(c)
    BY <1>1, <1>2, <1>3, <1>4 DEF Create, Inserts, Inserted
  <1>5. CASE Reread(c)
    <2> DEFINE found == IF Held(call[c].key) THEN asReplay(call[c].key, call[c].body)
                        ELSE [at |-> "error", from |-> None]
    <2>1. /\ call' = [call EXCEPT ![c] = [call[c] EXCEPT !.at = found.at, !.from = found.from]]
          /\ record' = record
      BY <1>5 DEF Reread
    <2>2. found.at \in {"error", "mismatch", "inFlight", "replayed"}
      BY DEF asReplay
    <2> HIDE DEF found
    <2>3. /\ call'[c].at = found.at /\ call'[c].key = call[c].key /\ call'[c].body = call[c].body
          /\ \A d \in Calls \ {c} : call'[d] = call[d]
      BY <1>1, <2>1
    <2> QED BY <1>1, <1>2, <2>1, <2>2, <2>3
  <1>6. CASE HandlerReturns(c) \/ HandlerThrows(c)
    BY <1>1, <1>2, <1>3, <1>6 DEF HandlerReturns, HandlerThrows
  <1>7. CASE Complete(c)
    BY <1>1, <1>2, <1>3, <1>7 DEF Complete, Completes
  <1>8. CASE Release(c)
    BY <1>1, <1>2, <1>3, <1>8 DEF Release, Deletes, Deleted
  <1>9. CASE Crash(c)
    <2>1. /\ record' = record \/ record' = WriteOf(c)
          /\ call[c].at # "run" => effects' = effects
      BY <1>9 DEF Crash
    <2>2. /\ call[c].at = "create" => WriteOf(c) = Inserted(c)
          /\ call[c].at = "complete" => WriteOf(c) = Completed(c)
          /\ call[c].at = "release" => WriteOf(c) = Deleted(c)
          /\ call[c].at \in {"reread", "run"} => WriteOf(c) = record
      BY <1>1 DEF WriteOf
    <2>3. /\ call'[c].at = "dead" /\ \A d \in Calls \ {c} : call'[d] = call[d]
          /\ call'[c].key = call[c].key /\ call'[c].body = call[c].body
      BY <1>3, <1>9 DEF Crash
    <2>4. /\ record' = record \/ Inserts(c) \/ Completes(c) \/ Deletes(c)
      BY <1>1, <1>2, <2>1, <2>2, <2>3 DEF Inserts, Completes, Deletes, Inserted, Deleted
    <2> QED BY <1>1, <1>2, <2>3, <2>4
  <1> QED BY <1>4, <1>5, <1>6, <1>7, <1>8, <1>9 DEF Step

LEMMA OwnersKept == IInv /\ OwnerOK /\ [Next]_vars => OwnerOK'
  <1> SUFFICES ASSUME IInv, OwnerOK, [Next]_vars PROVE OwnerOK'
    OBVIOUS
  <1>0. /\ record \in [Keys -> [owner : Calls \cup {None}, hash : Bodies \cup {None}, completed : BOOLEAN]]
        /\ call \in [Calls -> [at : Stages, key : Keys \cup {None}, body : Bodies \cup {None},
                               from : Calls \cup {None}]]
    BY DEF IInv, TypeOK
  <1>1. ASSUME NEW c \in Calls, NEW l \in Keys, NEW body \in Bodies, Arrive(c, l, body),
               NEW k \in Keys, NEW d \in Calls, record'[k].owner = d
        PROVE  call'[d].key = k /\ call'[d].at \notin {"new", "create", "reread"}
    <2>1. record[k].owner = d /\ call[d].at # "new"
      BY <1>1 DEF Arrive, OwnerOK
    <2>2. d # c
      BY <1>1, <2>1 DEF Arrive, NotArrived
    <2>3. call'[d] = call[d]
      BY <1>0, <1>1, <2>2 DEF Arrive
    <2> QED BY <2>1, <2>3 DEF OwnerOK
  <1>2. ASSUME NEW c \in Calls, Step(c), NEW k \in Keys, NEW d \in Calls, record'[k].owner = d
        PROVE  call'[d].key = k /\ call'[d].at \notin {"new", "create", "reread"}
    <2>1. CASE record[k].owner = d
      <3>1. call[d].key = k /\ call[d].at \notin {"new", "create", "reread"}
        BY <2>1 DEF OwnerOK
      <3> QED BY <1>2, <3>1, StepWrites
    <2>2. CASE record[k].owner # d
      <3>0. /\ record' = record \/ Inserts(c) \/ Completes(c) \/ Deletes(c)
            /\ call[c].key \in Keys /\ d # None
        BY <1>2, StepWrites, IdempotencyAssumption
      <3>1. Inserts(c)
        <4>1. CASE Completes(c)
          BY <1>0, <1>2, <2>2, <3>0, <4>1 DEF Completes, Completed
        <4>2. CASE Deletes(c)
          BY <1>0, <1>2, <2>2, <3>0, <4>2 DEF Deletes, NoRecord
        <4> QED BY <1>2, <2>2, <3>0, <4>1, <4>2
      <3>2. call[c].key \in Keys /\ record'[k] = IF k = call[c].key THEN [owner |-> c, hash |-> call[c].body, completed |-> FALSE] ELSE record[k]
        BY <1>0, <1>2, <3>1, StepWrites DEF Inserts, Inserted
      <3>3. k = call[c].key /\ d = c
        BY <1>2, <2>2, <3>2
      <3> QED BY <1>2, <3>1, <3>3, StepWrites DEF Inserts
    <2> QED BY <2>1, <2>2
  <1>3. CASE UNCHANGED vars
    BY <1>3 DEF vars, OwnerOK
  <1> QED BY <1>1, <1>2, <1>3 DEF Next, OwnerOK

LEMMA ToldBy ==
  ASSUME NEW c \in Calls
  PROVE  /\ call[c].at = "answered" =>
              Told[c] = [key |-> call[c].key, body |-> call[c].body, from |-> c]
         /\ call[c].at = "replayed" =>
              Told[c] = [key |-> call[c].key, body |-> call[c].body, from |-> call[c].from]
         /\ call[c].at \notin {"answered", "replayed"} => Told[c] = Promise!Nothing
  BY DEF Told, Promise!Nothing

(* Only the call that moves is told anything. *)
LEMMA ToldKept ==
  ASSUME NEW c \in Calls, \A d \in Calls \ {c} : call'[d] = call[d]
  PROVE  /\ \A d \in Calls \ {c} : Told'[d] = Told[d]
         /\ Told'[c] = Told[c] => Told' = Told
         /\ \A told : Told'[c] = told => Told' = [Told EXCEPT ![c] = told]
         /\ {call[c].at, call'[c].at} \cap {"answered", "replayed"} = {} => Told' = Told
  <1>1. Told = [d \in Calls |-> Told[d]] /\ Told' = [d \in Calls |-> Told'[d]]
    BY DEF Told
  <1>2. \A d \in Calls \ {c} : Told'[d] = Told[d]
    BY DEF Told
  <1>3. {call[c].at, call'[c].at} \cap {"answered", "replayed"} = {} => Told'[c] = Told[c]
    BY DEF Told
  <1>4. \A told : Told'[c] = told => Told' = [Told EXCEPT ![c] = told]
    BY <1>1, <1>2
  <1>5. Told'[c] = Told[c] => Told' = Told
    BY <1>1, <1>2
  <1> QED BY <1>2, <1>3, <1>4, <1>5

Stutters == Lease' = Lease /\ effects' = effects /\ Told' = Told

(* A write to one record is the same write to one lease. *)
LEMMA LeaseWritten ==
  ASSUME TypeOK, NEW k \in Keys
  PROVE  /\ Lease[k] = [holder |-> record[k].owner, body |-> record[k].hash,
                        filed |-> record[k].completed]
         /\ record' = record => Lease' = Lease
         /\ record' = [record EXCEPT ![k] = record'[k]] =>
              Lease' = [Lease EXCEPT ![k] = [holder |-> record'[k].owner, body |-> record'[k].hash,
                                             filed |-> record'[k].completed]]
  <1>1. record \in [Keys -> [owner : Calls \cup {None}, hash : Bodies \cup {None}, completed : BOOLEAN]]
    BY DEF TypeOK
  <1>2. ASSUME record' = [record EXCEPT ![k] = record'[k]]
        PROVE  Lease' = [Lease EXCEPT ![k] = [holder |-> record'[k].owner, body |-> record'[k].hash,
                                              filed |-> record'[k].completed]]
    <2>1. \A j \in Keys \ {k} : record'[j] = record[j]
      BY <1>1, <1>2
    <2> QED BY <2>1 DEF Lease
  <1> QED BY <1>2 DEF Lease

(* The insert lets the key. *)
LEMMA InsertLets ==
  ASSUME IInv, OwnerOK, NEW c \in Calls, Step(c), Inserts(c)
  PROVE  Promise!Next
  <1> DEFINE k == call[c].key
  <1>1. k \in Keys /\ call[c].body \in Bodies /\ TypeOK /\ c \notin effects
    BY StepWrites DEF IInv, CallOK, Inserts
  <1>2. record[k] = NoRecord /\ record' = [record EXCEPT ![k] = record'[k]]
        /\ record'[k] = [owner |-> c, hash |-> call[c].body, completed |-> FALSE]
    BY <1>1 DEF Inserts, Inserted, Held, TypeOK
  <1>3. /\ Lease[k] = Promise!Free
        /\ Lease' = [Lease EXCEPT ![k] = [holder |-> c, body |-> call[c].body, filed |-> FALSE]]
    <2>1. /\ record[k].owner = None /\ record[k].hash = None /\ record[k].completed = FALSE
          /\ record'[k].owner = c /\ record'[k].hash = call[c].body /\ record'[k].completed = FALSE
      BY <1>2 DEF NoRecord
    <2>2. Lease[k] = Promise!Free
      BY <1>1, <2>1, LeaseWritten DEF Promise!Free
    <2>3. Lease' = [Lease EXCEPT ![k] = [holder |-> record'[k].owner, body |-> record'[k].hash,
                                         filed |-> record'[k].completed]]
      BY <1>1, <1>2, LeaseWritten
    <2> QED BY <2>1, <2>2, <2>3
  <1>4. Told[c] = Promise!Nothing /\ Told' = Told
    BY StepWrites, ToldBy, ToldKept DEF Inserts
  <1>5. \A j \in Keys : Lease[j].holder # c
    BY DEF OwnerOK, Inserts, Lease
  <1>6. Promise!Let(k, c, call[c].body)
    BY <1>1, <1>3, <1>4, <1>5 DEF Inserts, Promise!Let
  <1> QED BY <1>1, <1>6 DEF Promise!Next

(* The completion files the result, with the answer or without it. *)
LEMMA CompletionFiles ==
  ASSUME IInv, OwnerOK, NEW c \in Calls, Step(c), Completes(c)
  PROVE  Promise!Next
  <1> DEFINE k == call[c].key
  <1>1. k \in Keys /\ TypeOK /\ c \in effects
    BY StepWrites DEF IInv, CallOK, Completes
  <1>2. record[k].owner = c /\ record[k].hash = call[c].body /\ ~record[k].completed
    BY DEF IInv, CallOK, Owns, Completes
  <1>3. /\ record' = [record EXCEPT ![k] = record'[k]]
        /\ record'[k] = [record[k] EXCEPT !.completed = TRUE]
    BY <1>1 DEF Completes, Completed, TypeOK
  <1>4. record'[k].owner = c /\ record'[k].hash = call[c].body /\ record'[k].completed = TRUE
    BY <1>1, <1>2, <1>3 DEF TypeOK
  <1>5. /\ Lease[k] = [holder |-> c, body |-> call[c].body, filed |-> FALSE]
        /\ Lease' = [Lease EXCEPT ![k] = [holder |-> c, body |-> call[c].body, filed |-> TRUE]]
    BY <1>1, <1>2, <1>3, <1>4, LeaseWritten DEF TypeOK
  <1>6. Lease' = [Lease EXCEPT ![k].filed = TRUE]
    BY <1>1, <1>5 DEF Lease
  <1>7. Promise!Result(k) = [key |-> k, body |-> call[c].body, from |-> c]
    BY <1>5 DEF Promise!Result
  <1>8. Told' \in {Told, [Told EXCEPT ![c] = Promise!Result(k)]}
    <2>1. CASE call'[c].at = "answered"
      <3>1. call'[c].key = k /\ call'[c].body = call[c].body
        BY StepWrites
      <3>2. Told'[c] = [key |-> k, body |-> call[c].body, from |-> c]
        BY <2>1, <3>1 DEF Told
      <3> QED BY <1>7, <3>2, StepWrites, ToldKept
    <2>2. CASE call'[c].at # "answered"
      BY <2>2, StepWrites, ToldKept DEF Completes
    <2> QED BY <2>1, <2>2
  <1>9. Promise!File(k)
    <2>1. Lease[k].holder = c /\ ~Lease[k].filed /\ effects' = effects
      BY <1>5 DEF Completes
    <2> QED BY <1>1, <1>6, <1>8, <2>1 DEF Promise!File
  <1> QED BY <1>1, <1>9 DEF Promise!Next

(* The delete gives the key back. *)
LEMMA DeleteGivesBack ==
  ASSUME IInv, OwnerOK, NEW c \in Calls, Step(c), Deletes(c)
  PROVE  Promise!Next
  <1> DEFINE k == call[c].key
  <1>1. k \in Keys /\ TypeOK /\ record[k].owner = c
    BY StepWrites DEF IInv, CallOK, Owns, Deletes
  <1>2. record' = [record EXCEPT ![k] = record'[k]] /\ record'[k] = NoRecord
    BY <1>1 DEF Deletes, TypeOK
  <1>3. Lease[k].holder = c /\ Lease' = [Lease EXCEPT ![k] = Promise!Free]
    <2>1. record'[k].owner = None /\ record'[k].hash = None /\ record'[k].completed = FALSE
      BY <1>2 DEF NoRecord
    <2>2. Lease' = [Lease EXCEPT ![k] = [holder |-> record'[k].owner, body |-> record'[k].hash,
                                         filed |-> record'[k].completed]]
      BY <1>1, <1>2, LeaseWritten
    <2> QED BY <1>1, <2>1, <2>2 DEF Lease, Promise!Free
  <1>4. Told[c] = Promise!Nothing /\ Told' = Told
    BY StepWrites, ToldBy, ToldKept DEF Deletes
  <1>5. Promise!GiveBack(k)
    BY <1>1, <1>3, <1>4 DEF Deletes, Promise!GiveBack
  <1> QED BY <1>1, <1>5 DEF Promise!Next

(* What a record answers to a call that has not been let its key is what    *)
(* the lease has filed.                                                      *)
LEMMA AnswerReplays ==
  ASSUME IInv, OwnerOK, NEW c \in Calls, NEW k \in Keys, NEW body, NEW found,
         call[c].at \in {"new", "create", "reread"}, Held(k), found = asReplay(k, body),
         call'[c] = [at |-> found.at, key |-> k, body |-> body, from |-> found.from],
         \A d \in Calls \ {c} : call'[d] = call[d], record' = record, effects' = effects
  PROVE  Promise!Next \/ Stutters
  <1>1. TypeOK /\ Lease' = Lease
    BY LeaseWritten DEF IInv
  <1>2. Told[c] = Promise!Nothing
    BY ToldBy
  <1>3. CASE found.at # "replayed"
    <2>1. found.at \in {"mismatch", "inFlight"}
      BY <1>3 DEF asReplay
    <2>2. Told' = Told
      BY <2>1, ToldKept
    <2> QED BY <1>1, <2>2 DEF Stutters
  <1>4. CASE found.at = "replayed"
    <2>1. record[k].hash = body /\ record[k].completed /\ found.from = record[k].owner
      BY <1>4 DEF asReplay
    <2>2. record[k].owner # c
      BY DEF OwnerOK
    <2>3. Lease[k] = [holder |-> record[k].owner, body |-> body, filed |-> record[k].completed]
      BY <1>1, <2>1, LeaseWritten
    <2>4. Told'[c] = [key |-> k, body |-> body, from |-> record[k].owner]
      BY <1>4, <2>1 DEF Told
    <2>5. Told' = [Told EXCEPT ![c] = Promise!Result(k)]
      BY <2>3, <2>4, ToldKept DEF Promise!Result
    <2>6. Promise!Replay(k, c)
      BY <1>1, <1>2, <2>1, <2>2, <2>3, <2>5 DEF Promise!Replay
    <2> QED BY <2>6 DEF Promise!Next
  <1> QED BY <1>3, <1>4

LEMMA ArrivePromised ==
  ASSUME IInv, OwnerOK, NEW c \in Calls, NEW k \in Keys, NEW body \in Bodies, Arrive(c, k, body)
  PROVE  Promise!Next \/ Stutters
  <1> DEFINE found == IF Held(k) THEN asReplay(k, body) ELSE [at |-> "create", from |-> None]
  <1>1. /\ call' = [call EXCEPT ![c] = [at |-> found.at, key |-> k, body |-> body, from |-> found.from]]
        /\ record' = record /\ effects' = effects /\ call[c].at = "new"
    BY DEF Arrive, NotArrived
  <1> HIDE DEF found
  <1>2. /\ call'[c] = [at |-> found.at, key |-> k, body |-> body, from |-> found.from]
        /\ \A d \in Calls \ {c} : call'[d] = call[d]
    BY <1>1 DEF IInv, TypeOK
  <1>3. CASE Held(k)
    <2>1. found = asReplay(k, body)
      BY <1>3 DEF found
    <2> QED BY <1>1, <1>2, <1>3, <2>1, AnswerReplays
  <1>4. CASE ~Held(k)
    <2>1. call'[c].at = "create"
      BY <1>2, <1>4 DEF found
    <2>2. Told' = Told /\ Lease' = Lease
      BY <1>1, <1>2, <2>1, ToldKept, LeaseWritten DEF IInv
    <2> QED BY <1>1, <2>2 DEF Stutters
  <1> QED BY <1>3, <1>4

(* A step that writes nothing and answers nobody. *)
LEMMA Quiet ==
  ASSUME IInv, NEW c \in Calls, Step(c), record' = record, effects' = effects,
         {call[c].at, call'[c].at} \cap {"answered", "replayed"} = {}
  PROVE  Stutters
  <1>1. Told' = Told
    BY StepWrites, ToldKept
  <1>2. call[c].key \in Keys /\ TypeOK
    BY StepWrites DEF IInv
  <1> QED BY <1>1, <1>2, LeaseWritten DEF Stutters

(* The handler takes effect. *)
LEMMA HandlerActs ==
  ASSUME IInv, NEW c \in Calls, Step(c), call[c].at = "run", call'[c].at \in {"complete", "dead"},
         record' = record, effects' = effects \cup {c}
  PROVE  Promise!Next
  <1> DEFINE k == call[c].key
  <1>1. k \in Keys /\ TypeOK /\ c \notin effects /\ record[k].owner = c /\ ~record[k].completed
    BY StepWrites DEF IInv, CallOK, Owns
  <1>2. Told' = Told
    BY StepWrites, ToldKept
  <1>3. Lease' = Lease /\ Lease[k].holder = c /\ Lease[k].filed = record[k].completed
    BY <1>1 DEF Lease
  <1>4. Promise!Act(k)
    BY <1>1, <1>2, <1>3 DEF Promise!Act
  <1> QED BY <1>1, <1>4 DEF Promise!Next

LEMMA StepPromised ==
  ASSUME IInv, OwnerOK, NEW c \in Calls, Step(c)
  PROVE  Promise!Next \/ Stutters
  <1>0. /\ call[c].key \in Keys /\ call[c].body \in Bodies
        /\ call[c].at \in {"create", "reread", "run", "complete", "release"}
        /\ \A d \in Calls \ {c} : call'[d] = call[d]
        /\ call'[c].at = "answered" => Completes(c)
        /\ record' = record \/ Inserts(c) \/ Completes(c) \/ Deletes(c)
    BY StepWrites
  <1>1. CASE Inserts(c) \/ Completes(c) \/ Deletes(c)
    BY <1>1, InsertLets, CompletionFiles, DeleteGivesBack
  <1> SUFFICES ASSUME ~Inserts(c), ~Completes(c), ~Deletes(c) PROVE Promise!Next \/ Stutters
    BY <1>1
  <1>2. record' = record /\ call'[c].at # "answered"
    BY <1>0
  <1>3. ASSUME NEW stage, Goto(c, stage) PROVE call'[c].at = stage
    BY <1>3 DEF Goto, IInv, TypeOK
  <1>4. CASE Reread(c)
    <2> DEFINE found == IF Held(call[c].key) THEN asReplay(call[c].key, call[c].body)
                        ELSE [at |-> "error", from |-> None]
    <2>1. /\ call' = [call EXCEPT ![c] = [call[c] EXCEPT !.at = found.at, !.from = found.from]]
          /\ effects' = effects /\ call[c].at = "reread"
      BY <1>4 DEF Reread
    <2> HIDE DEF found
    <2>2. call[c] \in [at : Stages, key : Keys \cup {None}, body : Bodies \cup {None},
                       from : Calls \cup {None}]
      BY DEF IInv, TypeOK
    <2>3. call'[c] = [at |-> found.at, key |-> call[c].key, body |-> call[c].body, from |-> found.from]
      BY <2>1, <2>2 DEF IInv, TypeOK
    <2>4. CASE Held(call[c].key)
      <3>1. found = asReplay(call[c].key, call[c].body)
        BY <2>4 DEF found
      <3>2. PICK k \in Keys, body \in Bodies : k = call[c].key /\ body = call[c].body
        BY <1>0
      <3>3. found = asReplay(k, body) /\ Held(k)
        BY <2>4, <3>1, <3>2
      <3>4. call'[c] = [at |-> found.at, key |-> k, body |-> body, from |-> found.from]
        BY <2>3, <3>2
      <3>5. call[c].at \in {"new", "create", "reread"} /\ effects' = effects /\ \A d \in Calls \ {c} : call'[d] = call[d]
        BY <1>0, <2>1
      <3> QED BY <1>2, <3>3, <3>4, <3>5, AnswerReplays
    <2>5. CASE ~Held(call[c].key)
      <3>1. call'[c].at = "error"
        BY <2>3, <2>5 DEF found
      <3> QED BY <1>2, <2>1, <3>1, Quiet
    <2> QED BY <2>4, <2>5
  <1>5. CASE HandlerReturns(c)
    BY <1>2, <1>3, <1>5, HandlerActs DEF HandlerReturns
  <1>6. CASE HandlerThrows(c)
    BY <1>2, <1>3, <1>6, Quiet DEF HandlerThrows
  <1>7. CASE Create(c)
    <2>1. call[c].at = "create" /\ call'[c].at \in {"run", "reread"} /\ effects' = effects
      BY <1>3, <1>7 DEF Create
    <2> QED BY <1>2, <2>1, Quiet
  <1>8. CASE Complete(c)
    <2>1. call[c].at = "complete" /\ call'[c].at \in {"answered", "release"} /\ effects' = effects
      BY <1>3, <1>8 DEF Complete
    <2> QED BY <1>2, <2>1, Quiet
  <1>9. CASE Release(c)
    <2>1. call[c].at = "release" /\ call'[c].at = "error" /\ effects' = effects
      BY <1>3, <1>9 DEF Release
    <2> QED BY <1>2, <2>1, Quiet
  <1>10. CASE Crash(c)
    <2>1. /\ call'[c].at = "dead"
          /\ effects' = effects \/ (call[c].at = "run" /\ effects' = effects \cup {c})
      BY <1>3, <1>10 DEF Crash
    <2> QED BY <1>0, <1>2, <2>1, Quiet, HandlerActs
  <1> QED BY <1>4, <1>5, <1>6, <1>7, <1>8, <1>9, <1>10 DEF Step

(* The interceptor keeps a lease per key, however its reads, inserts,       *)
(* updates and deletes race, fail or are cut short: every step of a request *)
(* is a step of KeyLease or changes nothing it sees (KeepsLease).            *)
THEOREM Implements == Spec => KeepsLease
  <1>1. Init => Promise!Init
    <2> SUFFICES ASSUME Init PROVE Promise!Init
      OBVIOUS
    <2>1. Lease = [k \in Keys |-> Promise!Free]
      BY DEF Init, Lease, NoRecord, Promise!Free
    <2>2. Told = [c \in Calls |-> Promise!Nothing]
      BY DEF Init, Told, NotArrived, Promise!Nothing
    <2> QED BY <2>1, <2>2 DEF Init, Promise!Init
  <1>2. Init => OwnerOK
    BY IdempotencyAssumption DEF Init, OwnerOK, NoRecord
  <1>3. IInv /\ OwnerOK /\ [Next]_vars => [Promise!Next]_<<Lease, effects, Told>>
    <2> SUFFICES ASSUME IInv, OwnerOK, [Next]_vars
                 PROVE  Promise!Next \/ Stutters
      BY DEF Stutters
    <2>1. CASE UNCHANGED vars
      BY <2>1 DEF vars, Stutters, Lease, Told
    <2> QED BY <2>1, ArrivePromised, StepPromised DEF Next
  <1>4. Spec => []IInv
    BY Invariance
  <1>5. IInv /\ OwnerOK /\ [Next]_vars => OwnerOK'
    BY OwnersKept
  <1> QED BY <1>1, <1>2, <1>3, <1>4, <1>5, PTL DEF Spec, KeepsLease, Promise!Spec

--------------------------------------------------------------------------------
(* The nights (Finalisation): no ended day falls between the catch-up, the   *)
(* history load and the ticks, for any number of days, nights without the    *)
(* process, faults and jobs at a time.                                       *)

(* Of a day that has ended somebody has seen to it, or the history load      *)
(* still to come will, or tonight's tick will.                               *)
Seen(d) == d \in finalised \cup trouble \cup left \/ Queued(d)
Awaited(d) == ~historyMark /\ d + 3 <= today
Tonight(d) == d = today - 1 /\ tick

NightTyped ==
  /\ today \in Days /\ 2 < today
  /\ boot \in [at : {"down", "finalise", "history", "up"}, todo : SUBSET Days]
  /\ boot.at = "down" => boot = Down
  /\ tick \in BOOLEAN /\ historyMark \in BOOLEAN /\ marker \in Nat
  /\ job \in [Ids -> {"none", "waiting", "written", "done", "failed"}]

(* A job on file is about a day that has ended, and its state is true.       *)
JobsTold ==
  \A i \in Ids : /\ job[i] \in {"written", "done"} => i[2] \in finalised
                 /\ job[i] = "failed" => i[2] \in trouble
                 /\ job[i] # "none" => i[2] < today

(* The nightly jobs are queued oldest day first, so no job, and no marker,   *)
(* is ahead of a day that nobody will see to.                                *)
OldestFirst ==
  \A d \in Days : job[<<"finalise", d>>] # "none" =>
    \A e \in Days : e <= d => Seen(e) \/ Awaited(e)

MarkerFits ==
  marker # 0 => /\ marker <= today /\ marker - 1 \in finalised
                /\ \A e \in Days : e < marker => Seen(e) \/ Awaited(e)

(* Where a start stands, and the days it leaves to others.                   *)
EndedFit ==
  \A e \in Days : e < today =>
    \/ Seen(e) \/ Tonight(e) \/ boot.at = "down"
    \/ boot.at = "finalise" /\ (e \in boot.todo \/ Awaited(e))
    \/ boot.at = "history" /\ e \in boot.todo /\ Awaited(e)
    \/ boot.at = "up" /\ Awaited(e)

TodoPast == \A d \in boot.todo : d < today

NightInv == NightTyped /\ JobsTold /\ OldestFirst /\ MarkerFits /\ EndedFit /\ TodoPast

(* What is seen to stays so, whoever goes on with it: most steps take no     *)
(* day out of anybody's sight.                                               *)
LEMMA SeenStays ==
  ASSUME NightInv, UNCHANGED <<today, historyMark>>,
         finalised \subseteq finalised', trouble \subseteq trouble', left \subseteq left',
         \A i \in Ids : job[i] \in {"waiting", "written"} =>
           job'[i] \in {"waiting", "written"} \/ i[2] \in finalised' \cup trouble'
  PROVE  \A e \in Days : /\ Seen(e) => Seen(e)'
                         /\ Awaited(e) => Awaited(e)'
                         /\ Seen(e) \/ Awaited(e) => Seen(e)' \/ Awaited(e)'
<1>1. ASSUME NEW e \in Days, Seen(e)
      PROVE  Seen(e)'
  <2>1. CASE e \in finalised \cup trouble \cup left
    BY <2>1 DEF Seen
  <2>2. CASE Queued(e)
    <3>1. PICK kind \in {"finalise", "history"} : job[<<kind, e>>] \in {"waiting", "written"}
      BY <2>2 DEF Queued
    <3>2. <<kind, e>> \in Ids /\ <<kind, e>>[2] = e
      BY DEF Ids
    <3>3. job'[<<kind, e>>] \in {"waiting", "written"} \/ e \in finalised' \cup trouble'
      BY <3>1, <3>2
    <3> QED BY <3>3 DEF Seen, Queued
  <2> QED BY <1>1, <2>1, <2>2 DEF Seen
<1>2. ASSUME NEW e \in Days, Awaited(e)
      PROVE  Awaited(e)'
  BY <1>2 DEF Awaited
<1> QED BY <1>1, <1>2

(* A step that queues no job and moves neither the days nor the marker.      *)
LEMMA OrderStays ==
  ASSUME NightInv, UNCHANGED <<today, historyMark, marker>>,
         finalised \subseteq finalised', trouble \subseteq trouble', left \subseteq left',
         \A i \in Ids :
           /\ job'[i] # "none" => job[i] # "none"
           /\ job[i] \in {"waiting", "written"} =>
                job'[i] \in {"waiting", "written"} \/ i[2] \in finalised' \cup trouble'
  PROVE  OldestFirst' /\ MarkerFits'
<1>1. \A e \in Days : Seen(e) \/ Awaited(e) => Seen(e)' \/ Awaited(e)'
  BY SeenStays
<1>2. OldestFirst'
  <2> SUFFICES ASSUME NEW d \in Days, job'[<<"finalise", d>>] # "none",
                      NEW e \in Days, e <= d
               PROVE  Seen(e)' \/ Awaited(e)'
    BY DEF OldestFirst
  <2>1. <<"finalise", d>> \in Ids
    BY DEF Ids
  <2> QED BY <1>1, <2>1 DEF NightInv, OldestFirst
<1>3. MarkerFits'
  BY <1>1 DEF NightInv, MarkerFits
<1> QED BY <1>2, <1>3

(* An add, whether it is dropped or not: its day is seen to. *)
LEMMA AddSees ==
  ASSUME NightInv, NEW kind \in {"finalise", "history"}, NEW d \in Days, d < today,
         Add(<<kind, d>>), UNCHANGED <<today, historyMark, finalised, trouble, left>>
  PROVE  /\ job' \in [Ids -> {"none", "waiting", "written", "done", "failed"}]
         /\ JobsTold' /\ Seen(d)'
         /\ \A i \in Ids : /\ i # <<kind, d>> => job'[i] = job[i]
                           /\ job[i] # "none" => job'[i] = job[i]
         /\ \A e \in Days : /\ Seen(e) => Seen(e)'
                            /\ Seen(e) \/ Awaited(e) => Seen(e)' \/ Awaited(e)'
<1> DEFINE i0 == <<kind, d>>
<1>1. i0 \in Ids /\ i0[2] = d
  BY DEF Ids
<1>2. job \in [Ids -> {"none", "waiting", "written", "done", "failed"}]
  BY DEF NightInv, NightTyped
<1>3. job' = IF job[i0] = "none" THEN [job EXCEPT ![i0] = "waiting"] ELSE job
  BY DEF Add
<1> HIDE DEF i0
<1>4. /\ job' \in [Ids -> {"none", "waiting", "written", "done", "failed"}]
      /\ \A i \in Ids : (i # i0 => job'[i] = job[i]) /\ (job[i] # "none" => job'[i] = job[i])
      /\ job'[i0] # "none" /\ (job[i0] = "none" => job'[i0] = "waiting")
  BY <1>1, <1>2, <1>3
<1>5. JobsTold'
  <2> SUFFICES ASSUME NEW i \in Ids
               PROVE  /\ job'[i] \in {"written", "done"} => i[2] \in finalised'
                      /\ job'[i] = "failed" => i[2] \in trouble'
                      /\ job'[i] # "none" => i[2] < today'
    BY DEF JobsTold
  <2>1. /\ job[i] \in {"written", "done"} => i[2] \in finalised
        /\ job[i] = "failed" => i[2] \in trouble
        /\ job[i] # "none" => i[2] < today
    BY DEF NightInv, JobsTold
  <2>2. CASE i = i0 /\ job[i0] = "none"
    BY <1>1, <1>4, <2>2
  <2>3. CASE ~(i = i0 /\ job[i0] = "none")
    BY <1>4, <2>1, <2>3
  <2> QED BY <2>2, <2>3
<1>6. Seen(d)'
  <2>1. CASE job'[i0] \in {"waiting", "written"}
    BY <2>1 DEF i0, Seen, Queued
  <2>2. CASE job'[i0] \notin {"waiting", "written"}
    <3>1. job'[i0] \in {"done", "failed"}
      BY <1>1, <1>4, <2>2
    <3>2. d \in finalised' \cup trouble'
      BY <1>1, <1>5, <3>1 DEF JobsTold
    <3> QED BY <3>2 DEF Seen
  <2> QED BY <2>1, <2>2
<1>7. \A i \in Ids : job[i] \in {"waiting", "written"} =>
        job'[i] \in {"waiting", "written"} \/ i[2] \in finalised' \cup trouble'
  BY <1>4
<1>8. \A e \in Days : /\ Seen(e) => Seen(e)'
                      /\ Seen(e) \/ Awaited(e) => Seen(e)' \/ Awaited(e)'
  BY <1>7, SeenStays
<1> QED BY <1>4, <1>5, <1>6, <1>8 DEF i0

(* What days a start finds owed: all but those it no longer looks back to.   *)
LEMMA StartSees ==
  ASSUME NightInv, Start
  PROVE  NightInv'
<1>1. /\ boot = Down
      /\ boot' = [at |-> "finalise", todo |-> missingFinaliseDays(marker, today)]
      /\ left' = IF historyMark
                 THEN left \cup {d \in Owed : d + Reach < today} ELSE left
      /\ UNCHANGED <<today, tick, job, marker, historyMark, finalised, trouble>>
  BY DEF Start
<1>2. /\ today \in Nat /\ 2 < today /\ marker \in Nat
      /\ MAX_CATCH_UP_DAYS \in Nat /\ 2 <= MAX_CATCH_UP_DAYS /\ Horizon \in Nat
  BY FinalisationAssumption DEF NightInv, NightTyped, Days
<1>3. OldestFirst' /\ MarkerFits'
  BY <1>1, OrderStays
<1>4. JobsTold'
  BY <1>1 DEF NightInv, JobsTold
<1>5. /\ boot'.at = "finalise" /\ boot'.todo \subseteq Days
      /\ \A d \in boot'.todo : d < today
      /\ \A d \in Days :
           d < today /\ today <= d + MAX_CATCH_UP_DAYS /\ (marker = 0 => today <= d + 2) /\ marker <= d
           => d \in boot'.todo
  <2>1. /\ boot'.at = "finalise" /\ boot'.todo = missingFinaliseDays(marker, today)
    BY <1>1
  <2>2. \A d \in Days : d \in Nat
    BY <1>2 DEF Days
  <2> QED BY <1>2, <2>1, <2>2 DEF missingFinaliseDays, Later, Minus
<1>6. NightTyped'
  BY <1>1, <1>5 DEF NightInv, NightTyped
<1>7. EndedFit'
  <2> SUFFICES ASSUME NEW e \in Days, e < today
               PROVE  Seen(e)' \/ e \in boot'.todo \/ Awaited(e)'
    BY <1>1, <1>5 DEF EndedFit
  <2>1. e \in Nat
    BY <1>2 DEF Days
  <2>2. Seen(e) => Seen(e)'
    BY <1>1, SeenStays
  <2>3. CASE e + Reach < today
    <3>1. CASE historyMark
      <4>1. Owed \subseteq Days /\ (~Seen(e) => e \in Owed)
        BY DEF Owed, Seen
      <4>2. ~Seen(e) => e \in left'
        BY <1>1, <2>3, <3>1, <4>1
      <4> QED BY <2>2, <4>2 DEF Seen
    <3>2. CASE ~historyMark
      BY <1>1, <1>2, <2>1, <2>3, <3>2 DEF Awaited, Reach
    <3> QED BY <3>1, <3>2
  <2>4. CASE ~(e + Reach < today)
    <3>1. CASE marker <= e
      BY <1>2, <1>5, <2>1, <2>4, <3>1 DEF Reach
    <3>2. CASE e < marker
      BY <1>1, <1>3, <2>1, <3>2 DEF MarkerFits
    <3> QED BY <1>2, <2>1, <3>1, <3>2
  <2> QED BY <2>3, <2>4
<1>8. TodoPast'
  BY <1>1, <1>5 DEF TodoPast
<1> QED BY <1>3, <1>4, <1>6, <1>7, <1>8 DEF NightInv

(* The oldest of the days a start owes is queued. *)
LEMMA AddFinaliseSees ==
  ASSUME NightInv, AddFinalise
  PROVE  NightInv'
<1>1. PICK d \in boot.todo : Oldest(d) /\ Queue("finalise", d)
  BY DEF AddFinalise
<1>2. /\ boot \in [at : {"down", "finalise", "history", "up"}, todo : SUBSET Days]
      /\ boot.at = "finalise" /\ boot' = [boot EXCEPT !.todo = @ \ {d}]
      /\ Add(<<"finalise", d>>) /\ \A e \in boot.todo : d <= e
      /\ UNCHANGED <<today, tick, marker, historyMark, finalised, trouble, left>>
  BY <1>1 DEF Queue, Oldest, NightInv, NightTyped
<1>3. /\ d \in Days /\ d < today /\ d \in Nat /\ today \in Nat /\ Horizon \in Nat
      /\ \A e \in Days : e \in Nat
  BY <1>2, FinalisationAssumption DEF NightInv, NightTyped, TodoPast, Days
<1>4. /\ job' \in [Ids -> {"none", "waiting", "written", "done", "failed"}]
      /\ JobsTold' /\ Seen(d)'
      /\ \A i \in Ids : i # <<"finalise", d>> => job'[i] = job[i]
      /\ \A e \in Days : /\ Seen(e) => Seen(e)'
                         /\ Seen(e) \/ Awaited(e) => Seen(e)' \/ Awaited(e)'
  BY <1>2, <1>3, AddSees
<1>5. /\ boot'.at = "finalise" /\ boot'.todo = boot.todo \ {d}
      /\ boot' \in [at : {"down", "finalise", "history", "up"}, todo : SUBSET Days]
  BY <1>2
<1>6. NightTyped'
  BY <1>2, <1>4, <1>5 DEF NightInv, NightTyped
<1>7. \A e \in Days : e < today =>
        Seen(e)' \/ Tonight(e)' \/ e \in boot'.todo \/ Awaited(e)'
  <2> SUFFICES ASSUME NEW e \in Days, e < today
               PROVE  Seen(e)' \/ Tonight(e)' \/ e \in boot'.todo \/ Awaited(e)'
    OBVIOUS
  <2>1. Seen(e) \/ Tonight(e) \/ e \in boot.todo \/ Awaited(e)
    BY <1>2 DEF NightInv, EndedFit
  <2>2. Tonight(e) => Tonight(e)'
    BY <1>2 DEF Tonight
  <2> QED BY <1>4, <1>5, <2>1, <2>2
<1>8. EndedFit'
  BY <1>2, <1>5, <1>7 DEF EndedFit
<1>9. \A e \in Days : e <= d => Seen(e)' \/ Awaited(e)'
  <2> SUFFICES ASSUME NEW e \in Days, e <= d
               PROVE  Seen(e)' \/ Awaited(e)'
    OBVIOUS
  <2>1. e < today /\ (e \in boot.todo => e = d) /\ (e = today - 1 => e = d)
    BY <1>2, <1>3
  <2>2. Seen(e) \/ Tonight(e) \/ e \in boot.todo \/ Awaited(e)
    BY <1>2, <2>1 DEF NightInv, EndedFit
  <2> QED BY <1>4, <2>1, <2>2 DEF Tonight
<1>10. OldestFirst'
  <2> SUFFICES ASSUME NEW c \in Days, job'[<<"finalise", c>>] # "none",
                      NEW e \in Days, e <= c
               PROVE  Seen(e)' \/ Awaited(e)'
    BY DEF OldestFirst
  <2>1. CASE c = d
    BY <1>9, <2>1
  <2>2. CASE c # d
    <3>1. <<"finalise", c>> \in Ids /\ <<"finalise", c>> # <<"finalise", d>>
      BY <2>2 DEF Ids
    <3> QED BY <1>4, <3>1 DEF NightInv, OldestFirst
  <2> QED BY <2>1, <2>2
<1>11. MarkerFits'
  BY <1>2, <1>4 DEF NightInv, MarkerFits
<1>12. TodoPast'
  BY <1>2, <1>5 DEF NightInv, TodoPast
<1> QED BY <1>4, <1>6, <1>8, <1>10, <1>11, <1>12 DEF NightInv

(* Steps of the queue: a start stands where it stood. *)
LEMMA StartStays ==
  ASSUME NightInv, UNCHANGED <<today, boot, tick, historyMark>>,
         finalised \subseteq finalised', trouble \subseteq trouble', left \subseteq left',
         \A i \in Ids : job[i] \in {"waiting", "written"} =>
           job'[i] \in {"waiting", "written"} \/ i[2] \in finalised' \cup trouble'
  PROVE  EndedFit' /\ TodoPast'
<1>1. \A e \in Days : (Seen(e) => Seen(e)') /\ (Awaited(e) => Awaited(e)')
  BY SeenStays
<1>2. \A e \in Days : Tonight(e) => Tonight(e)'
  BY DEF Tonight
<1> QED BY <1>1, <1>2 DEF NightInv, EndedFit, TodoPast

(* One job goes on to another state, and what that says is true. *)
LEMMA JobMoves ==
  ASSUME NightInv, NEW i \in Ids, NEW to \in {"waiting", "written", "done", "failed"},
         job[i] # "none", job' = [job EXCEPT ![i] = to],
         UNCHANGED <<today, boot, tick, historyMark, left>>,
         finalised \subseteq finalised', trouble \subseteq trouble',
         to \in {"written", "done"} => i[2] \in finalised',
         to = "failed" => i[2] \in trouble'
  PROVE  /\ job' \in [Ids -> {"none", "waiting", "written", "done", "failed"}]
         /\ JobsTold' /\ EndedFit' /\ TodoPast'
         /\ \A k \in Ids :
              /\ job'[k] # "none" => job[k] # "none"
              /\ job[k] \in {"waiting", "written"} =>
                   job'[k] \in {"waiting", "written"} \/ k[2] \in finalised' \cup trouble'
<1>1. job \in [Ids -> {"none", "waiting", "written", "done", "failed"}]
  BY DEF NightInv, NightTyped
<1>2. /\ job' \in [Ids -> {"none", "waiting", "written", "done", "failed"}]
      /\ job'[i] = to /\ \A k \in Ids \ {i} : job'[k] = job[k]
  BY <1>1
<1>3. \A k \in Ids :
        /\ job'[k] # "none" => job[k] # "none"
        /\ job[k] \in {"waiting", "written"} =>
             job'[k] \in {"waiting", "written"} \/ k[2] \in finalised' \cup trouble'
  BY <1>2
<1>4. JobsTold'
  <2> SUFFICES ASSUME NEW k \in Ids
               PROVE  /\ job'[k] \in {"written", "done"} => k[2] \in finalised'
                      /\ job'[k] = "failed" => k[2] \in trouble'
                      /\ job'[k] # "none" => k[2] < today'
    BY DEF JobsTold
  <2>1. /\ job[k] \in {"written", "done"} => k[2] \in finalised
        /\ job[k] = "failed" => k[2] \in trouble
        /\ job[k] # "none" => k[2] < today
    BY DEF NightInv, JobsTold
  <2> QED BY <1>2, <2>1
<1>5. EndedFit' /\ TodoPast'
  BY <1>3, StartStays
<1> QED BY <1>2, <1>3, <1>4, <1>5

(* A worker builds the day, a job throws, a day of history is done.          *)
LEMMA WorkSees ==
  ASSUME NightInv, NEW i \in Ids,
         FinaliseDay(i) \/ FinishHistory(i) \/ JobThrows(i)
  PROVE  NightInv'
<1>1. UNCHANGED <<today, boot, tick, marker, historyMark, left>>
  BY DEF FinaliseDay, FinishHistory, JobThrows
<1>2. PICK to \in {"waiting", "written", "done", "failed"} :
        /\ job' = [job EXCEPT ![i] = to] /\ job[i] # "none"
        /\ finalised \subseteq finalised' /\ trouble \subseteq trouble'
        /\ to \in {"written", "done"} => i[2] \in finalised'
        /\ to = "failed" => i[2] \in trouble'
  <2>1. CASE FinaliseDay(i)
    BY <2>1 DEF FinaliseDay
  <2>2. CASE FinishHistory(i)
    BY <2>2 DEF FinishHistory, NightInv, JobsTold
  <2>3. CASE JobThrows(i)
    BY <2>3 DEF JobThrows
  <2> QED BY <2>1, <2>2, <2>3
<1>3. /\ job' \in [Ids -> {"none", "waiting", "written", "done", "failed"}]
      /\ JobsTold' /\ EndedFit' /\ TodoPast'
      /\ \A k \in Ids :
           /\ job'[k] # "none" => job[k] # "none"
           /\ job[k] \in {"waiting", "written"} =>
                job'[k] \in {"waiting", "written"} \/ k[2] \in finalised' \cup trouble'
  BY <1>1, <1>2, JobMoves
<1>4. OldestFirst' /\ MarkerFits'
  BY <1>1, <1>2, <1>3, OrderStays
<1>5. NightTyped'
  BY <1>1, <1>3 DEF NightInv, NightTyped
<1> QED BY <1>3, <1>4, <1>5 DEF NightInv

(* The nightly job ends and moves the marker, wherever it stands: every day  *)
(* before its own was queued before it.                                      *)
LEMMA FinishSees ==
  ASSUME NightInv, NEW i \in Ids, FinishFinalise(i)
  PROVE  NightInv'
<1>1. /\ job[i] = "written" /\ i[1] = "finalise" /\ marker' = i[2] + 1
      /\ job' = [job EXCEPT ![i] = "done"]
      /\ UNCHANGED <<today, boot, tick, historyMark, finalised, trouble, left>>
  BY DEF FinishFinalise, markProcessed
<1>2. /\ i[2] \in Days /\ i = <<"finalise", i[2]>> /\ i[2] \in Nat /\ today \in Nat
      /\ i[2] \in finalised /\ i[2] < today /\ \A e \in Days : e \in Nat
  BY <1>1, FinalisationAssumption DEF Ids, Days, NightInv, NightTyped, JobsTold
<1>3. /\ job' \in [Ids -> {"none", "waiting", "written", "done", "failed"}]
      /\ JobsTold' /\ EndedFit' /\ TodoPast'
      /\ \A k \in Ids :
           /\ job'[k] # "none" => job[k] # "none"
           /\ job[k] \in {"waiting", "written"} =>
                job'[k] \in {"waiting", "written"} \/ k[2] \in finalised' \cup trouble'
  BY <1>1, <1>2, JobMoves
<1>4. \A e \in Days : Seen(e) \/ Awaited(e) => Seen(e)' \/ Awaited(e)'
  BY <1>1, <1>3, SeenStays
<1>5. OldestFirst'
  <2> SUFFICES ASSUME NEW d \in Days, job'[<<"finalise", d>>] # "none",
                      NEW e \in Days, e <= d
               PROVE  Seen(e)' \/ Awaited(e)'
    BY DEF OldestFirst
  <2>1. <<"finalise", d>> \in Ids
    BY DEF Ids
  <2> QED BY <1>3, <1>4, <2>1 DEF NightInv, OldestFirst
<1>6. MarkerFits'
  <2>1. job[<<"finalise", i[2]>>] # "none"
    BY <1>1, <1>2
  <2>2. \A e \in Days : e <= i[2] => Seen(e) \/ Awaited(e)
    BY <1>2, <2>1 DEF NightInv, OldestFirst
  <2>3. \A e \in Days : e < i[2] + 1 => Seen(e)' \/ Awaited(e)'
    BY <1>2, <1>4, <2>2
  <2>4. i[2] + 1 <= today /\ i[2] + 1 - 1 = i[2]
    BY <1>2
  <2>5. marker' <= today' /\ marker' - 1 \in finalised'
    <3>1. marker' = i[2] + 1 /\ today' = today /\ finalised' = finalised
      BY <1>1
    <3>2. marker' - 1 = i[2]
      BY <1>2, <3>1
    <3> QED BY <1>2, <2>4, <3>1, <3>2
  <2>6. \A e \in Days : e < marker' => Seen(e)' \/ Awaited(e)'
    BY <1>1, <2>3
  <2> QED BY <2>5, <2>6 DEF MarkerFits
<1>7. NightTyped'
  BY <1>1, <1>2, <1>3 DEF NightInv, NightTyped
<1> QED BY <1>3, <1>5, <1>6, <1>7 DEF NightInv

(* The process stops, or a start throws, or a tick throws or is missed. *)
LEMMA StopSees ==
  ASSUME NightInv, Stop
  PROVE  NightInv'
<1>1. /\ boot' = Down
      /\ job' = [i \in Ids |-> IF job[i] = "written" THEN "waiting" ELSE job[i]]
      /\ UNCHANGED <<today, tick, marker, historyMark, finalised, trouble, left>>
  BY DEF Stop
<1>2. job \in [Ids -> {"none", "waiting", "written", "done", "failed"}]
  BY DEF NightInv, NightTyped
<1>3. /\ job' \in [Ids -> {"none", "waiting", "written", "done", "failed"}]
      /\ \A i \in Ids : job'[i] = IF job[i] = "written" THEN "waiting" ELSE job[i]
  BY <1>1, <1>2
<1>4. boot'.at = "down" /\ boot'.todo = {}
  BY <1>1 DEF Down
<1>5. NightTyped'
  BY <1>1, <1>3, <1>4 DEF NightInv, NightTyped, Down
<1>6. JobsTold'
  BY <1>1, <1>3 DEF NightInv, JobsTold
<1>7. OldestFirst' /\ MarkerFits'
  BY <1>1, <1>3, OrderStays
<1>8. EndedFit' /\ TodoPast'
  BY <1>4 DEF EndedFit, TodoPast
<1> QED BY <1>5, <1>6, <1>7, <1>8 DEF NightInv

LEMMA BootThrowsSees ==
  ASSUME NightInv, BootThrows
  PROVE  NightInv'
<1>1. /\ boot.at \in {"finalise", "history"} /\ boot' = Up
      /\ trouble' = IF boot.at = "finalise" THEN trouble \cup boot.todo ELSE trouble
      /\ UNCHANGED <<today, tick, job, marker, historyMark, finalised, left>>
  BY DEF BootThrows, NightInv, NightTyped
<1>2. boot'.at = "up" /\ boot'.todo = {}
  BY <1>1 DEF Up
<1>3. NightTyped'
  BY <1>1, <1>2 DEF NightInv, NightTyped, Up
<1>4. JobsTold'
  BY <1>1 DEF NightInv, JobsTold
<1>5. OldestFirst' /\ MarkerFits'
  BY <1>1, OrderStays
<1>6. EndedFit'
  <2> SUFFICES ASSUME NEW e \in Days, e < today
               PROVE  Seen(e)' \/ Tonight(e)' \/ Awaited(e)'
    BY <1>1, <1>2 DEF EndedFit
  <2>1. (Seen(e) => Seen(e)') /\ (Awaited(e) => Awaited(e)') /\ (Tonight(e) => Tonight(e)')
    BY <1>1, SeenStays DEF Tonight
  <2>2. boot.at = "finalise" /\ e \in boot.todo => Seen(e)'
    BY <1>1 DEF Seen
  <2> QED BY <1>1, <2>1, <2>2 DEF NightInv, EndedFit
<1>7. TodoPast'
  BY <1>2 DEF TodoPast
<1> QED BY <1>3, <1>4, <1>5, <1>6, <1>7 DEF NightInv

LEMMA TickLostSees ==
  ASSUME NightInv, TickThrows \/ TickMissed
  PROVE  NightInv'
<1>1. /\ trouble \subseteq trouble' /\ ~tick'
      /\ today - 1 \in trouble' \/ boot.at = "down"
      /\ UNCHANGED <<today, boot, job, marker, historyMark, finalised, left>>
  BY DEF TickThrows, TickMissed, Down
<1>2. NightTyped' /\ JobsTold'
  <2>1. tick' \in BOOLEAN
    BY DEF TickThrows, TickMissed
  <2> QED BY <1>1, <2>1 DEF NightInv, NightTyped, JobsTold
<1>3. OldestFirst' /\ MarkerFits'
  BY <1>1, OrderStays
<1>4. EndedFit'
  <2>1. \A e \in Days : (Seen(e) => Seen(e)') /\ (Awaited(e) => Awaited(e)')
    BY <1>1, SeenStays
  <2>2. \A e \in Days : Tonight(e) => Seen(e)' \/ boot.at = "down"
    BY <1>1 DEF Tonight, Seen
  <2> QED BY <1>1, <2>1, <2>2 DEF NightInv, EndedFit
<1>5. TodoPast'
  BY <1>1 DEF NightInv, TodoPast
<1> QED BY <1>2, <1>3, <1>4, <1>5 DEF NightInv

(* The tick queues the day that has just ended, and there is none before it  *)
(* left to queue.                                                            *)
LEMMA TickSees ==
  ASSUME NightInv, TickFinalise
  PROVE  NightInv'
<1>0. today - 1 \in Days
  BY FinalisationAssumption DEF NightInv, NightTyped, Days
<1> PICK d \in Days : d = today - 1
  BY <1>0
<1>1. /\ boot.at \in {"history", "up"} /\ tick /\ ~tick'
      /\ Add(<<"finalise", d>>) /\ tick' \in BOOLEAN
      /\ UNCHANGED <<today, boot, marker, historyMark, finalised, trouble, left>>
  BY DEF TickFinalise, Awake, NightInv, NightTyped
<1>2. /\ today \in 1..Horizon /\ 2 < today /\ Horizon \in Nat
      /\ \A e \in Days : e \in Nat
  BY FinalisationAssumption DEF NightInv, NightTyped, Days
<1>3. d < today /\ \A e \in Days : e <= d => e < today
  BY <1>2 DEF Days
<1>4. /\ job' \in [Ids -> {"none", "waiting", "written", "done", "failed"}]
      /\ JobsTold' /\ Seen(d)'
      /\ \A i \in Ids : i # <<"finalise", d>> => job'[i] = job[i]
      /\ \A e \in Days : /\ Seen(e) => Seen(e)'
                         /\ Seen(e) \/ Awaited(e) => Seen(e)' \/ Awaited(e)'
  BY <1>1, <1>3, AddSees
<1>5. NightTyped'
  BY <1>1, <1>4 DEF NightInv, NightTyped
<1>6. \A e \in Days : Tonight(e) => Seen(e)'
  BY <1>4 DEF Tonight
<1>7. \A e \in Days : e < today => Seen(e)' \/ Awaited(e)'
  BY <1>1, <1>4, <1>6 DEF NightInv, EndedFit
<1>8. EndedFit'
  <2>1. \A e \in Days : Awaited(e) => Awaited(e)'
    BY <1>1 DEF Awaited
  <2>2. \A e \in Days : e < today =>
          \/ Seen(e)
          \/ Tonight(e)
          \/ boot.at = "history" /\ e \in boot.todo /\ Awaited(e)
          \/ boot.at = "up" /\ Awaited(e)
    BY <1>1 DEF NightInv, EndedFit
  <2> QED BY <1>1, <1>4, <1>6, <2>1, <2>2 DEF EndedFit
<1>9. OldestFirst'
  <2> SUFFICES ASSUME NEW c \in Days, job'[<<"finalise", c>>] # "none",
                      NEW e \in Days, e <= c
               PROVE  Seen(e)' \/ Awaited(e)'
    BY DEF OldestFirst
  <2>1. CASE c = d
    BY <1>3, <1>7, <2>1
  <2>2. CASE c # d
    <3>1. <<"finalise", c>> \in Ids /\ <<"finalise", c>> # <<"finalise", d>>
      BY <2>2 DEF Ids
    <3> QED BY <1>4, <3>1 DEF NightInv, OldestFirst
  <2> QED BY <2>1, <2>2
<1>10. MarkerFits'
  BY <1>1, <1>4 DEF NightInv, MarkerFits
<1>11. TodoPast'
  BY <1>1 DEF NightInv, TodoPast
<1> QED BY <1>4, <1>5, <1>8, <1>9, <1>10, <1>11 DEF NightInv

(* A day ends: it is tonight's. *)
LEMMA MidnightSees ==
  ASSUME NightInv, Midnight
  PROVE  NightInv'
<1>1. /\ today < Horizon /\ ~tick /\ today' = today + 1 /\ tick'
      /\ job' = [i \in Ids |->
                   IF job[i] = "done" /\ i[2] + 1 < today THEN "none" ELSE job[i]]
      /\ tick' \in BOOLEAN
      /\ UNCHANGED <<boot, marker, historyMark, finalised, trouble, left>>
  BY DEF Midnight
<1>2. /\ today \in Nat /\ 2 < today /\ Horizon \in Nat /\ marker \in Nat
      /\ job \in [Ids -> {"none", "waiting", "written", "done", "failed"}]
      /\ \A e \in Days : e \in Nat
      /\ \A i \in Ids : i[2] \in Nat
  BY FinalisationAssumption DEF NightInv, NightTyped, Days, Ids
<1>3. /\ job' \in [Ids -> {"none", "waiting", "written", "done", "failed"}]
      /\ \A i \in Ids : /\ job'[i] \in {job[i], "none"}
                        /\ job[i] # "done" => job'[i] = job[i]
  BY <1>1, <1>2
<1>4. today' \in Days /\ 2 < today' /\ today < today'
  BY <1>1, <1>2 DEF Days
<1>5. NightTyped'
  BY <1>1, <1>3, <1>4 DEF NightInv, NightTyped
<1>6. JobsTold'
  <2> SUFFICES ASSUME NEW i \in Ids
               PROVE  /\ job'[i] \in {"written", "done"} => i[2] \in finalised'
                      /\ job'[i] = "failed" => i[2] \in trouble'
                      /\ job'[i] # "none" => i[2] < today'
    BY DEF JobsTold
  <2>1. /\ job[i] \in {"written", "done"} => i[2] \in finalised
        /\ job[i] = "failed" => i[2] \in trouble
        /\ job[i] # "none" => i[2] < today
    BY DEF NightInv, JobsTold
  <2>2. i[2] < today => i[2] < today'
    BY <1>1, <1>2
  <2> QED BY <1>1, <1>3, <2>1, <2>2
<1>7. \A e \in Days : Seen(e) => Seen(e)'
  <2> SUFFICES ASSUME NEW e \in Days, Seen(e)
               PROVE  Seen(e)'
    OBVIOUS
  <2>1. \A kind \in {"finalise", "history"} :
          <<kind, e>> \in Ids /\ (job[<<kind, e>>] \in {"waiting", "written"} =>
                                           job'[<<kind, e>>] = job[<<kind, e>>])
    BY <1>3 DEF Ids
  <2> QED BY <1>1, <2>1 DEF Seen, Queued
<1>8. \A e \in Days : Awaited(e) => Awaited(e)'
  BY <1>1, <1>2 DEF Awaited
<1>9. OldestFirst'
  <2> SUFFICES ASSUME NEW c \in Days, job'[<<"finalise", c>>] # "none",
                      NEW e \in Days, e <= c
               PROVE  Seen(e)' \/ Awaited(e)'
    BY DEF OldestFirst
  <2>1. <<"finalise", c>> \in Ids
    BY DEF Ids
  <2>2. job[<<"finalise", c>>] # "none"
    BY <1>3, <2>1
  <2> QED BY <1>7, <1>8, <2>2 DEF NightInv, OldestFirst
<1>10. MarkerFits'
  <2>1. marker <= today => marker <= today'
    BY <1>1, <1>2
  <2> QED BY <1>1, <1>7, <1>8, <2>1 DEF NightInv, MarkerFits
<1>11. EndedFit'
  <2> SUFFICES ASSUME NEW e \in Days, e < today'
               PROVE  \/ Seen(e)' \/ Tonight(e)' \/ boot.at = "down"
                      \/ boot.at = "finalise" /\ (e \in boot.todo \/ Awaited(e)')
                      \/ boot.at = "history" /\ e \in boot.todo /\ Awaited(e)'
                      \/ boot.at = "up" /\ Awaited(e)'
    BY <1>1 DEF EndedFit
  <2>1. CASE e = today
    <3>1. e = today' - 1
      BY <1>1, <1>2, <2>1
    <3> QED BY <1>1, <3>1 DEF Tonight
  <2>2. CASE e # today
    <3>1. e < today
      BY <1>1, <1>2, <2>2
    <3>2. ~Tonight(e)
      BY <1>1 DEF Tonight
    <3> QED BY <1>7, <1>8, <3>1, <3>2 DEF NightInv, EndedFit
  <2> QED BY <2>1, <2>2
<1>12. TodoPast'
  <2> SUFFICES ASSUME NEW e \in boot.todo
               PROVE  e < today'
    BY <1>1 DEF TodoPast
  <2>1. e \in Days /\ e < today
    BY DEF NightInv, NightTyped, TodoPast
  <2>2. e \in Nat
    BY <1>2, <2>1
  <2> QED BY <1>1, <1>2, <2>1, <2>2
<1> QED BY <1>5, <1>6, <1>9, <1>10, <1>11, <1>12 DEF NightInv

(* The days a start owes are all queued: is the history loaded? *)
LEMMA CheckSees ==
  ASSUME NightInv, CheckHistory
  PROVE  NightInv'
<1>1. /\ boot.at = "finalise" /\ boot.todo = {}
      /\ UNCHANGED <<today, tick, job, marker, historyMark, finalised, trouble>>
      /\ left \subseteq left'
  BY DEF CheckHistory
<1>2. /\ today \in Nat /\ 2 < today /\ Horizon \in Nat /\ MAX_HISTORY_DAYS \in Nat
      /\ RECENT_DAYS_LEFT_ALONE \in Nat /\ 1 <= RECENT_DAYS_LEFT_ALONE
      /\ RECENT_DAYS_LEFT_ALONE <= 3
      /\ \A e \in Days : e \in Nat /\ 1 <= e
  BY FinalisationAssumption DEF NightInv, NightTyped, Days
<1>3. OldestFirst' /\ MarkerFits'
  BY <1>1, OrderStays
<1>4. JobsTold'
  BY <1>1 DEF NightInv, JobsTold
<1>5. \A e \in Days : /\ Seen(e) => Seen(e)'
                      /\ Awaited(e) => Awaited(e)'
                      /\ Tonight(e) => Tonight(e)'
  BY <1>1, SeenStays DEF Tonight
<1>6. \A e \in Days : e < today => Seen(e) \/ Tonight(e) \/ Awaited(e)
  BY <1>1 DEF NightInv, EndedFit
<1>7. CASE historyMark
  <2>1. boot' = Up /\ boot'.at = "up" /\ boot'.todo = {}
    BY <1>7 DEF CheckHistory, Up
  <2>2. NightTyped' /\ TodoPast'
    BY <1>1, <2>1 DEF NightInv, NightTyped, TodoPast, Up
  <2>3. EndedFit'
    BY <1>1, <1>5, <1>6, <2>1 DEF EndedFit
  <2> QED BY <1>3, <1>4, <2>2, <2>3 DEF NightInv
<1>8. CASE ~historyMark
  <2>1. /\ boot' = [at |-> "history", todo |-> historyDays(today)]
        /\ left' = left \cup {d \in Owed : d + MAX_HISTORY_DAYS < today}
    BY <1>8 DEF CheckHistory
  <2>2. /\ boot'.at = "history" /\ boot'.todo = historyDays(today)
        /\ boot' \in [at : {"down", "finalise", "history", "up"}, todo : SUBSET Days]
    BY <2>1 DEF historyDays
  <2>3. \A e \in Days :
          e + 3 <= today /\ today <= e + MAX_HISTORY_DAYS => e \in boot'.todo
    BY <1>2, <2>2 DEF historyDays, Minus
  <2>4. \A e \in boot'.todo : e \in Days /\ e <= Minus(today, RECENT_DAYS_LEFT_ALONE)
    BY <2>2 DEF historyDays
  <2>5. NightTyped'
    BY <1>1, <2>2 DEF NightInv, NightTyped
  <2>6. EndedFit'
    <3> SUFFICES ASSUME NEW e \in Days, e < today
                 PROVE  Seen(e)' \/ Tonight(e)' \/ (e \in boot'.todo /\ Awaited(e)')
      BY <1>1, <2>2 DEF EndedFit
    <3>1. CASE ~Seen(e) /\ Awaited(e) /\ e + MAX_HISTORY_DAYS < today
      <4>1. e \in Owed
        BY <3>1 DEF Owed, Seen
      <4>2. e \in left'
        BY <2>1, <3>1, <4>1
      <4> QED BY <4>2 DEF Seen
    <3>2. CASE Awaited(e) /\ ~(e + MAX_HISTORY_DAYS < today)
      <4>1. e + 3 <= today
        BY <3>2 DEF Awaited
      <4>2. today <= e + MAX_HISTORY_DAYS
        BY <1>2, <3>2
      <4> QED BY <1>5, <2>3, <3>2, <4>1, <4>2
    <3> QED BY <1>5, <1>6, <3>1, <3>2
  <2>7. TodoPast'
    <3> SUFFICES ASSUME NEW e \in boot'.todo
                 PROVE  e < today
      BY <1>1 DEF TodoPast
    <3> QED BY <1>2, <2>4 DEF Minus
  <2> QED BY <1>3, <1>4, <2>5, <2>6, <2>7 DEF NightInv
<1> QED BY <1>7, <1>8

LEMMA AddHistorySees ==
  ASSUME NightInv, AddHistory
  PROVE  NightInv'
<1>1. PICK d \in boot.todo : Queue("history", d)
  BY DEF AddHistory
<1>2. /\ boot \in [at : {"down", "finalise", "history", "up"}, todo : SUBSET Days]
      /\ boot.at = "history" /\ boot' = [boot EXCEPT !.todo = @ \ {d}]
      /\ Add(<<"history", d>>)
      /\ UNCHANGED <<today, tick, marker, historyMark, finalised, trouble, left>>
  BY <1>1 DEF Queue, NightInv, NightTyped
<1>3. d \in Days /\ d < today
  BY <1>2 DEF NightInv, TodoPast
<1>4. /\ job' \in [Ids -> {"none", "waiting", "written", "done", "failed"}]
      /\ JobsTold' /\ Seen(d)'
      /\ \A i \in Ids : i # <<"history", d>> => job'[i] = job[i]
      /\ \A e \in Days : /\ Seen(e) => Seen(e)'
                         /\ Seen(e) \/ Awaited(e) => Seen(e)' \/ Awaited(e)'
  BY <1>2, <1>3, AddSees
<1>5. /\ boot'.at = "history" /\ boot'.todo = boot.todo \ {d}
      /\ boot' \in [at : {"down", "finalise", "history", "up"}, todo : SUBSET Days]
  BY <1>2
<1>6. NightTyped'
  BY <1>2, <1>4, <1>5 DEF NightInv, NightTyped
<1>7. \A e \in Days : e < today =>
        Seen(e)' \/ Tonight(e)' \/ (e \in boot'.todo /\ Awaited(e)')
  <2> SUFFICES ASSUME NEW e \in Days, e < today
               PROVE  Seen(e)' \/ Tonight(e)' \/ (e \in boot'.todo /\ Awaited(e)')
    OBVIOUS
  <2>1. Seen(e) \/ Tonight(e) \/ (e \in boot.todo /\ Awaited(e))
    BY <1>2 DEF NightInv, EndedFit
  <2>2. (Tonight(e) => Tonight(e)') /\ (Awaited(e) => Awaited(e)')
    BY <1>2 DEF Tonight, Awaited
  <2> QED BY <1>4, <1>5, <2>1, <2>2
<1>8. EndedFit'
  BY <1>2, <1>5, <1>7 DEF EndedFit
<1>9. OldestFirst'
  <2> SUFFICES ASSUME NEW c \in Days, job'[<<"finalise", c>>] # "none",
                      NEW e \in Days, e <= c
               PROVE  Seen(e)' \/ Awaited(e)'
    BY DEF OldestFirst
  <2>1. <<"finalise", c>> \in Ids /\ <<"finalise", c>> # <<"history", d>>
    BY DEF Ids
  <2> QED BY <1>4, <2>1 DEF NightInv, OldestFirst
<1>10. MarkerFits'
  BY <1>2, <1>4 DEF NightInv, MarkerFits
<1>11. TodoPast'
  BY <1>2, <1>5 DEF NightInv, TodoPast
<1> QED BY <1>4, <1>6, <1>8, <1>9, <1>10, <1>11 DEF NightInv

(* The history is queued, and marked: nothing is left for it to do, as only  *)
(* tonight's day is not seen to, and no job and no marker is ahead of that.  *)
LEMMA MarkSees ==
  ASSUME NightInv, MarkHistory
  PROVE  NightInv'
<1>1. /\ boot.at = "history" /\ boot.todo = {} /\ boot' = Up /\ historyMark'
      /\ historyMark' \in BOOLEAN
      /\ UNCHANGED <<today, tick, job, marker, finalised, trouble, left>>
  BY DEF MarkHistory
<1>2. /\ today \in Nat /\ marker \in Nat /\ Horizon \in Nat /\ \A e \in Days : e \in Nat
  BY FinalisationAssumption DEF NightInv, NightTyped, Days
<1>3. boot'.at = "up" /\ boot'.todo = {}
  BY <1>1 DEF Up
<1>4. NightTyped'
  BY <1>1, <1>3 DEF NightInv, NightTyped, Up
<1>5. JobsTold' /\ TodoPast'
  BY <1>1, <1>3 DEF NightInv, JobsTold, TodoPast
<1>6. \A e \in Days : /\ Seen(e) => Seen(e)'
                      /\ e < today => Seen(e) \/ Tonight(e)
  BY <1>1 DEF Seen, Queued, NightInv, EndedFit
<1>7. EndedFit'
  BY <1>1, <1>3, <1>6 DEF EndedFit, Tonight
<1>8. OldestFirst'
  <2> SUFFICES ASSUME NEW d \in Days, job'[<<"finalise", d>>] # "none",
                      NEW e \in Days, e <= d
               PROVE  Seen(e)'
    BY DEF OldestFirst
  <2> DEFINE i == <<"finalise", d>>
  <2>1. i \in Ids /\ i[2] = d /\ job[i] # "none"
    BY <1>1 DEF Ids
  <2>2. job \in [Ids -> {"none", "waiting", "written", "done", "failed"}]
    BY DEF NightInv, NightTyped
  <2>3. Seen(d)
    <3>1. CASE job[i] \in {"waiting", "written"}
      BY <3>1 DEF Seen, Queued
    <3>2. CASE job[i] \in {"done", "failed"}
      BY <2>1, <3>2 DEF NightInv, JobsTold, Seen
    <3> HIDE DEF i
    <3> QED BY <2>1, <2>2, <3>1, <3>2
  <2>4. d < today
    BY <2>1 DEF NightInv, JobsTold
  <2>5. CASE e = d
    BY <1>6, <2>3, <2>5
  <2>6. CASE e # d
    <3>1. e < today /\ e # today - 1
      BY <1>2, <2>4, <2>6
    <3> QED BY <1>6, <3>1 DEF Tonight
  <2> QED BY <2>5, <2>6
<1>9. MarkerFits'
  <2> SUFFICES ASSUME marker # 0
               PROVE  /\ marker <= today /\ marker - 1 \in finalised
                      /\ \A e \in Days : e < marker => Seen(e)'
    BY <1>1 DEF MarkerFits
  <2>1. marker <= today /\ marker - 1 \in finalised
    BY DEF NightInv, MarkerFits
  <2>2. ASSUME NEW e \in Days, e < marker
        PROVE  Seen(e)
    <3>1. CASE e = marker - 1
      BY <2>1, <3>1 DEF Seen
    <3>2. CASE e # marker - 1
      <4>1. e < today /\ e # today - 1
        BY <1>2, <2>1, <2>2, <3>2
      <4> QED BY <1>6, <4>1 DEF Tonight
    <3> QED BY <3>1, <3>2
  <2> QED BY <1>6, <2>1, <2>2
<1> QED BY <1>4, <1>5, <1>7, <1>8, <1>9 DEF NightInv

LEMMA InitNights == NightInit => NightInv
<1> SUFFICES ASSUME NightInit
             PROVE  NightInv
  OBVIOUS
<1>1. /\ today = Deployed /\ boot = Down /\ tick = FALSE /\ historyMark = FALSE
      /\ marker = 0 /\ job = [i \in Ids |-> "none"]
  BY DEF NightInit
<1>2. Deployed \in Days /\ 2 < Deployed
  BY FinalisationAssumption DEF Days
<1>3. boot.at = "down" /\ boot.todo = {}
  BY <1>1 DEF Down
<1>4. NightTyped
  BY <1>1, <1>2, <1>3 DEF NightTyped, Down
<1>5. JobsTold /\ MarkerFits /\ EndedFit /\ TodoPast
  BY <1>1, <1>3 DEF JobsTold, MarkerFits, EndedFit, TodoPast
<1>6. OldestFirst
  BY <1>1 DEF OldestFirst, Ids
<1> QED BY <1>4, <1>5, <1>6 DEF NightInv

LEMMA NextNights == NightInv /\ [NightNext]_nightVars => NightInv'
<1> SUFFICES ASSUME NightInv, [NightNext]_nightVars
             PROVE  NightInv'
  OBVIOUS
<1>1. CASE Bootstrap
  BY <1>1, StartSees, AddFinaliseSees, CheckSees, AddHistorySees, MarkSees DEF Bootstrap
<1>2. CASE BootThrows \/ Stop \/ Midnight
           \/ TickFinalise \/ TickThrows \/ TickMissed
  BY <1>2, BootThrowsSees, StopSees, MidnightSees, TickSees, TickLostSees
<1>3. ASSUME NEW i \in Ids, Work(i) \/ JobThrows(i)
      PROVE  NightInv'
  BY <1>3, WorkSees, FinishSees DEF Work
<1>4. CASE UNCHANGED nightVars
  <2>1. UNCHANGED <<today, boot, tick, job, marker, historyMark, finalised, trouble, left>>
    BY <1>4 DEF nightVars
  <2>2. OldestFirst' /\ MarkerFits'
    BY <2>1, OrderStays
  <2>3. EndedFit' /\ TodoPast'
    BY <2>1, StartStays
  <2> QED BY <2>1, <2>2, <2>3 DEF NightInv, NightTyped, JobsTold
<1> QED BY <1>1, <1>2, <1>3, <1>4 DEF NightNext

(* However the process stops and starts, jobs throw and end in any order:    *)
(* the days are queued oldest first, the marker is never ahead of a day that *)
(* nobody will see to, and a start leaves to the history load and to         *)
(* tonight's tick only what they do take.                                    *)
THEOREM NightInvariance == NightSpec => []NightInv
<1>1. NightInit => NightInv
  BY InitNights
<1>2. NightInv /\ [NightNext]_nightVars => NightInv'
  BY NextNights
<1> QED BY <1>1, <1>2, PTL DEF NightSpec

(* Once a start has gone through and the history is marked, an ended day is  *)
(* finalised, queued, tonight's to come, one whose job threw for good or was *)
(* not queued at a fault, or one that had ended too long before a start      *)
(* looked back (onApplicationBootstrap, missingFinaliseDays, historyDays,    *)
(* markProcessed).                                                           *)
THEOREM NoNightLost == NightSpec => []NoDayLost
<1>1. NightSpec => []NightInv
  BY NightInvariance
<1>2. NightInv => NoDayLost
  <2> SUFFICES ASSUME NightInv, boot = Up, historyMark, NEW d \in Owed
               PROVE  d \in left \/ (d = today - 1 /\ tick)
    BY DEF NoDayLost
  <2>1. /\ d \in Days /\ d < today /\ ~Queued(d) /\ d \notin finalised \cup trouble
    BY DEF Owed
  <2>2. boot.at = "up"
    BY DEF Up
  <2>3. Seen(d) \/ Tonight(d)
    BY <2>1, <2>2 DEF NightInv, EndedFit, Awaited
  <2> QED BY <2>1, <2>3 DEF Seen, Tonight
<1> QED BY <1>1, <1>2, PTL

================================================================================
