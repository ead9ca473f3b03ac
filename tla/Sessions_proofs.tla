---------------------------- MODULE Sessions_proofs ----------------------------
(***************************************************************************)
(* The safety of the console sessions, for any sessions, requests,          *)
(* instances and number of edits.                                           *)
(*                                                                          *)
(* Second factor: a session is marked only after its code was checked, and   *)
(* every writer of a checked session read it marked or marks it              *)
(* (SessionOK, PassedOK).  Outdated sessions: whatever a process reads of    *)
(* the staff row after an outdated request has arrived is newer than the     *)
(* request's session, be it cached, read and not yet returned, or the row    *)
(* itself (OutdatedOK); the verdict on any of them is to refuse.             *)
(***************************************************************************)
EXTENDS Sessions, TLAPS

KnownType == [loggedOut : BOOLEAN, onViews : SUBSET Requests, outdated : BOOLEAN]

ReqType == [at : Stages, kind : Kinds, s : Sessions \cup {None}, i : Instances \cup {None},
            blob : Blobs, left : SUBSET Sessions, known : KnownType]

CacheType == [has : BOOLEAN, row : Rows, load : {"none", "asked", "read"}, read : Rows]

SignInType == [at : {"none", "password", "stored", "done"}, epoch : 0..MaxEpoch]

SessionOK(s) ==
  /\ signIn[s].epoch <= staff.epoch /\ store[s].epoch <= staff.epoch
  /\ s \in verified => signIn[s].at = "done"
  /\ store[s].mfa => s \in verified
  /\ s \in verified /\ store[s].live => store[s].mfa

SessionsOK == \A s \in Sessions : SessionOK(s)

(* Past the guard's first look, on behalf of a session. *)
Inside == {"got", "wait", "refuse", "touch", "serve", "write", "row"}

PassedOK(r) ==
  /\ req[r].at \in Inside => req[r].kind # "edit" /\ req[r].i \in Instances
  /\ req[r].at \in Inside \cup {"list", "sweep"} /\ req[r].kind # "edit" => req[r].s \in verified
  /\ req[r].at \in {"got", "wait", "touch", "write"} => req[r].blob.mfa
  /\ req[r].at = "code" => req[r].s \in Sessions /\ signIn[req[r].s].at = "done"
  /\ req[r].blob.epoch <= staff.epoch

OutdatedOK(r) ==
  req[r].known.outdated =>
    /\ req[r].at \in {"code", "got", "wait", "refuse"} /\ req[r].i \in Instances
    /\ req[r].blob.epoch < staff.epoch
    /\ cache[req[r].i].has => req[r].blob.epoch < cache[req[r].i].row.epoch
    /\ cache[req[r].i].load = "read" => req[r].blob.epoch < cache[req[r].i].read.epoch

RequestsOK == \A r \in Requests : PassedOK(r) /\ OutdatedOK(r)

IInv == TypeOK /\ SessionsOK /\ RequestsOK

--------------------------------------------------------------------------------
(* Types *)

LEMMA Types ==
  ASSUME IInv
  PROVE  /\ staff \in Rows /\ signIn \in [Sessions -> SignInType]
         /\ store \in [Sessions -> Blobs] /\ index \subseteq Sessions
         /\ cache \in [Instances -> CacheType] /\ req \in [Requests -> ReqType]
         /\ openViews \subseteq Requests /\ lapsed \subseteq Requests
         /\ verified \subseteq Sessions /\ loggedOut \subseteq Sessions
BY DEF IInv, TypeOK, SignInType, CacheType, ReqType, KnownType

LEMMA NewTypes ==
  /\ NoRow \in Rows /\ NoBlob \in Blobs /\ Nothing \in KnownType
  /\ Idle \in ReqType /\ EmptyCache \in CacheType
<1>1. NoRow \in Rows /\ NoBlob \in Blobs
  BY SessionsAssumption DEF NoRow, NoBlob, Rows, Blobs
<1>2. Nothing \in KnownType
  BY DEF Nothing, KnownType
<1>3. EmptyCache \in CacheType
  BY <1>1 DEF EmptyCache, CacheType
<1>4. Idle \in ReqType
  BY <1>1, <1>2 DEF Idle, ReqType, Stages, Kinds
<1> QED BY <1>1, <1>2, <1>3, <1>4

LEMMA FinishedType ==
  ASSUME IInv, NEW r \in Requests
  PROVE  /\ Finished(r) \in ReqType /\ Finished(r).at = "done"
         /\ Finished(r).blob = NoBlob /\ Finished(r).known = Nothing
<1>1. req[r].kind \in Kinds /\ req[r].s \in Sessions \cup {None}
  BY Types DEF ReqType
<1> HIDE DEF Finished
<1>2. Idle \in ReqType /\ Idle.blob = NoBlob /\ Idle.known = Nothing
  BY NewTypes DEF Idle
<1> QED BY <1>1, <1>2 DEF Finished, ReqType, Stages

(* A finished request owes nothing. *)
LEMMA FinishedOK ==
  ASSUME IInv, TypeOK', NEW r \in Requests, req'[r] = Finished(r)
  PROVE  PassedOK(r)' /\ OutdatedOK(r)'
<1>1. req'[r].at = "done" /\ req'[r].blob = NoBlob /\ req'[r].known = Nothing
  BY FinishedType
<1>2. staff'.epoch \in Nat
  BY SessionsAssumption DEF TypeOK, Rows
<1> QED BY <1>1, <1>2 DEF PassedOK, OutdatedOK, Inside, NoBlob, Nothing

LEMMA OneRequest ==
  ASSUME IInv, NEW r \in Requests, NEW new \in ReqType, req' = [req EXCEPT ![r] = new]
  PROVE  /\ req' \in [Requests -> ReqType] /\ req'[r] = new
         /\ \A q \in Requests \ {r} : req'[q] = req[q]
BY Types

LEMMA GotoRequest ==
  ASSUME IInv, NEW r \in Requests, NEW stage \in Stages, Goto(r, stage)
  PROVE  /\ req' \in [Requests -> ReqType]
         /\ req'[r].at = stage /\ req'[r].kind = req[r].kind /\ req'[r].s = req[r].s
         /\ req'[r].i = req[r].i /\ req'[r].blob = req[r].blob /\ req'[r].known = req[r].known
         /\ \A q \in Requests \ {r} : req'[q] = req[q]
<1> DEFINE new == [req[r] EXCEPT !.at = stage]
<1>1. req' = [req EXCEPT ![r] = new]
  BY DEF Goto
<1>2. /\ new \in ReqType /\ new.at = stage /\ new.kind = req[r].kind /\ new.s = req[r].s
      /\ new.i = req[r].i /\ new.blob = req[r].blob /\ new.known = req[r].known
  BY Types DEF ReqType
<1> HIDE DEF new
<1> QED BY <1>1, <1>2, OneRequest

LEMMA FinishRequest ==
  ASSUME IInv, NEW r \in Requests, Finish(r)
  PROVE  /\ req' \in [Requests -> ReqType] /\ req'[r] = Finished(r)
         /\ \A q \in Requests \ {r} : req'[q] = req[q]
BY FinishedType, OneRequest DEF Finish

LEMMA RevokeStore ==
  ASSUME IInv, NEW s \in Sessions, Revoke(s)
  PROVE  /\ store' \in [Sessions -> Blobs] /\ index' \subseteq Sessions
         /\ \A x \in Sessions : store'[x] \in {store[x], NoBlob}
BY Types, NewTypes DEF Revoke, Save

--------------------------------------------------------------------------------
(* What every step respects *)

Grows ==
  /\ verified \subseteq verified' /\ staff.epoch <= staff'.epoch
  /\ \A s \in Sessions : signIn[s].at = "done" => signIn'[s].at = "done"

(* A cached row was cached before, or read; what is read is the staff row. *)
CacheFollows ==
  \A i \in Instances :
    /\ cache'[i].has => \/ cache[i].has /\ cache'[i].row = cache[i].row
                        \/ cache[i].load = "read" /\ cache'[i].row = cache[i].read
    /\ cache'[i].load = "read" => \/ cache[i].load = "read" /\ cache'[i].read = cache[i].read
                                  \/ cache'[i].read = staff

LEMMA Epochs ==
  ASSUME IInv
  PROVE  /\ staff.epoch \in Nat
         /\ \A s \in Sessions : signIn[s].epoch \in Nat /\ store[s].epoch \in Nat
         /\ \A r \in Requests : req[r].blob.epoch \in Nat
         /\ \A i \in Instances : cache[i].row.epoch \in Nat /\ cache[i].read.epoch \in Nat
<1>1. /\ staff \in Rows /\ \A s \in Sessions : signIn[s] \in SignInType /\ store[s] \in Blobs
      /\ \A r \in Requests : req[r].blob \in Blobs
      /\ \A i \in Instances : cache[i].row \in Rows /\ cache[i].read \in Rows
  BY Types DEF ReqType, CacheType
<1> QED BY <1>1, SessionsAssumption DEF Rows, SignInType, Blobs

LEMMA RequestKept ==
  ASSUME IInv, TypeOK', Grows, NEW r \in Requests, PassedOK(r), req'[r] = req[r]
  PROVE  PassedOK(r)'
<1>1. req[r].blob.epoch \in Nat /\ staff.epoch \in Nat /\ staff'.epoch \in Nat
  BY Epochs, SessionsAssumption DEF TypeOK, Rows
<1> QED BY <1>1 DEF Grows, PassedOK

(* An outdated request that only moves among the stages before the verdict. *)
LEMMA OutdatedKept ==
  ASSUME IInv, TypeOK', Grows, CacheFollows, NEW r \in Requests,
         req'[r].i = req[r].i, req'[r].blob = req[r].blob, req'[r].known = req[r].known,
         req[r].known.outdated => req'[r].at \in {"code", "got", "wait", "refuse"}
  PROVE  OutdatedOK(r)'
<1> SUFFICES ASSUME req[r].known.outdated
             PROVE  /\ req[r].blob.epoch < staff'.epoch
                    /\ cache'[req[r].i].has => req[r].blob.epoch < cache'[req[r].i].row.epoch
                    /\ cache'[req[r].i].load = "read" =>
                         req[r].blob.epoch < cache'[req[r].i].read.epoch
                    /\ req[r].i \in Instances
  BY DEF OutdatedOK
<1>1. OutdatedOK(r)
  BY DEF IInv, RequestsOK
<1>2. req[r].i \in Instances /\ req[r].blob.epoch < staff.epoch
  BY <1>1 DEF OutdatedOK
<1>3. req[r].blob.epoch \in Nat /\ staff.epoch \in Nat /\ staff'.epoch \in Nat
  BY Epochs, SessionsAssumption DEF TypeOK, Rows
<1> QED BY <1>1, <1>2, <1>3 DEF Grows, CacheFollows, OutdatedOK

(* Every request unchanged, finished or looked at. *)
LEMMA StepInv ==
  ASSUME IInv, TypeOK', SessionsOK', Grows, CacheFollows,
         \A q \in Requests : \/ req'[q] = req[q] \/ req'[q] = Finished(q)
                             \/ PassedOK(q)' /\ OutdatedOK(q)'
  PROVE  IInv'
<1>1. ASSUME NEW q \in Requests PROVE PassedOK(q)' /\ OutdatedOK(q)'
  <2>1. PassedOK(q) /\ OutdatedOK(q)
    BY DEF IInv, RequestsOK
  <2>2. CASE req'[q] = req[q]
    <3>1. PassedOK(q)'
      BY <2>1, <2>2, RequestKept
    <3>2. req[q].known.outdated => req'[q].at \in {"code", "got", "wait", "refuse"}
      BY <2>1, <2>2 DEF OutdatedOK
    <3> QED BY <2>2, <3>1, <3>2, OutdatedKept
  <2>3. CASE req'[q] = Finished(q)
    BY <2>3, FinishedOK
  <2> QED BY <2>2, <2>3
<1> QED BY <1>1 DEF IInv, RequestsOK

LEMMA CacheSame == ASSUME cache' = cache PROVE CacheFollows
BY DEF CacheFollows

LEMMA SessionsSame ==
  ASSUME IInv, UNCHANGED <<staff, signIn, store, verified>>
  PROVE  SessionsOK' /\ Grows
<1>1. SessionsOK'
  BY DEF IInv, SessionsOK, SessionOK
<1> QED BY <1>1, Epochs DEF Grows

(* One session's blob is written, or dropped. *)
LEMMA SessionSaved ==
  ASSUME IInv, NEW s \in Sessions, UNCHANGED <<staff, signIn>>, verified \subseteq verified',
         verified' \subseteq verified \cup {s}, s \in verified' => signIn[s].at = "done",
         \A x \in Sessions \ {s} : store'[x] = store[x],
         store'[s].epoch <= staff.epoch, store'[s].mfa => s \in verified',
         s \in verified' /\ store'[s].live => store'[s].mfa
  PROVE  SessionsOK' /\ Grows
<1>1. ASSUME NEW x \in Sessions PROVE SessionOK(x)'
  <2>1. SessionOK(x)
    BY DEF IInv, SessionsOK
  <2>2. CASE x = s
    BY <2>1, <2>2 DEF SessionOK
  <2>3. CASE x # s
    BY <2>1, <2>3 DEF SessionOK
  <2> QED BY <2>2, <2>3
<1> QED BY <1>1, Epochs DEF SessionsOK, Grows

LEMMA SessionDropped ==
  ASSUME IInv, NEW s \in Sessions, UNCHANGED <<staff, signIn, verified>>,
         Revoke(s) \/ Save(s, NoBlob)
  PROVE  SessionsOK' /\ Grows
<1>1. store' = [store EXCEPT ![s] = NoBlob]
  BY DEF Revoke, Save
<1>2. store'[s] = NoBlob /\ \A x \in Sessions \ {s} : store'[x] = store[x]
  BY <1>1, Types
<1>3. SessionOK(s) /\ staff.epoch \in Nat
  BY Epochs DEF IInv, SessionsOK
<1> QED BY <1>2, <1>3, SessionSaved DEF NoBlob, SessionOK

LEMMA InitInv == Init => IInv
<1> SUFFICES ASSUME Init PROVE IInv
  OBVIOUS
<1>1. TypeOK
  <2>1. /\ staff \in Rows /\ [at |-> "none", epoch |-> 0] \in SignInType
    BY SessionsAssumption DEF Init, Rows, SignInType
  <2> QED BY <2>1, NewTypes DEF Init, TypeOK, SignInType, CacheType, ReqType, KnownType
<1>2. SessionsOK
  BY DEF Init, SessionsOK, SessionOK, NoBlob
<1>3. RequestsOK
  BY DEF Init, RequestsOK, PassedOK, OutdatedOK, Idle, NoBlob, Nothing, Inside
<1> QED BY <1>1, <1>2, <1>3 DEF IInv

--------------------------------------------------------------------------------
(* Signing in *)

LEMMA SignInSteps ==
  ASSUME IInv, NEW s \in Sessions, CheckPassword(s) \/ CreateSession(s) \/ IndexSession(s)
  PROVE  IInv'
<1>1. UNCHANGED <<staff, cache, req, views, history>>
  BY DEF CheckPassword, CreateSession, IndexSession, redis, views, history
<1>2. staff.epoch \in Nat /\ staff.epoch \in 0..MaxEpoch
  BY Types, Epochs DEF Rows
<1>3. /\ signIn' \in [Sessions -> SignInType]
      /\ \A x \in Sessions : /\ signIn[x].at = "done" => signIn'[x].at = "done"
                             /\ signIn'[x].epoch <= staff.epoch
  <2>1. \A x \in Sessions : signIn[x].epoch <= staff.epoch
    BY DEF IInv, SessionsOK, SessionOK
  <2>2. CASE CheckPassword(s)
    <3>1. [at |-> "password", epoch |-> staff.epoch] \in SignInType
      BY <1>2 DEF SignInType
    <3> QED BY <1>2, <2>1, <2>2, <3>1, Types DEF CheckPassword
  <2>3. CASE CreateSession(s)
    <3> DEFINE new == [signIn[s] EXCEPT !.at = "stored"]
    <3>1. signIn' = [signIn EXCEPT ![s] = new]
      BY <2>3 DEF CreateSession
    <3>2. new \in SignInType /\ new.epoch = signIn[s].epoch
      BY Types DEF SignInType
    <3> HIDE DEF new
    <3> QED BY <2>1, <2>3, <3>1, <3>2, Types DEF CreateSession
  <2>4. CASE IndexSession(s)
    <3> DEFINE new == [signIn[s] EXCEPT !.at = "done"]
    <3>1. signIn' = [signIn EXCEPT ![s] = new]
      BY <2>4 DEF IndexSession
    <3>2. new \in SignInType /\ new.epoch = signIn[s].epoch /\ new.at = "done"
      BY Types DEF SignInType
    <3> HIDE DEF new
    <3> QED BY <2>1, <2>4, <3>1, <3>2, Types
  <2> QED BY <2>2, <2>3, <2>4
<1>4. store' \in [Sessions -> Blobs] /\ index' \subseteq Sessions /\ SessionsOK'
  <2>1. CASE CreateSession(s)
    <3> DEFINE blob == [live |-> TRUE, epoch |-> signIn[s].epoch, mfa |-> FALSE, view |-> None]
    <3>1. blob \in Blobs
      BY Types DEF Blobs, SignInType
    <3>2. store' = [store EXCEPT ![s] = blob]
      BY <2>1 DEF CreateSession, Save
    <3>3. SessionOK(s) /\ s \notin verified
      BY <2>1 DEF IInv, SessionsOK, SessionOK, CreateSession
    <3>4. store'[s] = blob /\ \A x \in Sessions \ {s} : store'[x] = store[x]
      BY <3>2, Types
    <3>5. store'[s].epoch = signIn[s].epoch /\ ~store'[s].mfa
      BY <3>4
    <3> HIDE DEF blob
    <3>6. ASSUME NEW x \in Sessions PROVE SessionOK(x)'
      <4>1. SessionOK(x)
        BY DEF IInv, SessionsOK
      <4>2. CASE x = s
        BY <1>1, <1>3, <3>3, <3>5, <4>2 DEF SessionOK, history
      <4>3. CASE x # s
        BY <1>1, <1>3, <3>4, <4>1, <4>3 DEF SessionOK, history
      <4> QED BY <4>2, <4>3
    <3> QED BY <2>1, <3>1, <3>2, <3>6, Types DEF CreateSession, SessionsOK
  <2>2. CASE CheckPassword(s) \/ IndexSession(s)
    <3>1. UNCHANGED <<staff, store, verified>>
      BY <2>2 DEF CheckPassword, IndexSession, redis, history
    <3>2. index' \subseteq Sessions
      BY <2>2, Types DEF CheckPassword, IndexSession, redis
    <3> QED BY <1>3, <3>1, <3>2, Types DEF IInv, SessionsOK, SessionOK
  <2> QED BY <2>1, <2>2
<1>5. TypeOK'
  BY <1>1, <1>3, <1>4, Types DEF TypeOK, SignInType, CacheType, ReqType, KnownType, views, history
<1>6. Grows /\ CacheFollows
  BY <1>1, <1>2, <1>3, CacheSame DEF Grows, history
<1> QED BY <1>1, <1>4, <1>5, <1>6, StepInv

LEMMA ExpireStep ==
  ASSUME IInv, NEW s \in Sessions, Expire(s)
  PROVE  IInv'
<1>1. UNCHANGED <<staff, signIn, cache, req, openViews, lapsed, verified, loggedOut>>
  BY DEF Expire, views, history
<1>2. SessionsOK' /\ Grows
  BY <1>1, SessionDropped DEF Expire
<1>3. store' \in [Sessions -> Blobs] /\ index' \subseteq Sessions
  BY RevokeStore, Types, NewTypes DEF Expire, Save
<1>4. TypeOK'
  BY <1>1, <1>3, Types DEF TypeOK, SignInType, CacheType, ReqType, KnownType
<1> QED BY <1>1, <1>2, <1>4, CacheSame, StepInv

--------------------------------------------------------------------------------
(* Requests *)

LEMMA ReceiveStep ==
  ASSUME IInv, NEW r \in Requests, NEW kind \in Kinds \ {"edit"}, NEW s \in Sessions,
         NEW i \in Instances, Receive(r, kind, s, i)
  PROVE  IInv'
<1> DEFINE at == IF kind = "verify" THEN "code" ELSE "got"
           new == [Idle EXCEPT !.at = at, !.kind = kind, !.s = s, !.i = i, !.blob = store[s],
                               !.known = Arrival(s, i)]
<1>1. /\ UNCHANGED <<staff, signIn, store, index, cache, openViews, lapsed, verified, loggedOut>>
      /\ req' = [req EXCEPT ![r] = new]
  BY DEF Receive, redis, views, history
<1>2. Arrival(s, i) \in KnownType
  BY Types DEF Arrival, KnownType
<1>3. /\ new \in ReqType /\ new.at = at /\ new.kind = kind /\ new.s = s /\ new.i = i
      /\ new.blob = store[s] /\ new.known = Arrival(s, i)
  <2> HIDE DEF at
  <2>1. at \in Stages
    BY DEF at, Stages
  <2> HIDE DEF Arrival
  <2> QED BY <1>2, <2>1, NewTypes, Types DEF ReqType
<1> HIDE DEF new
<1>4. /\ req' \in [Requests -> ReqType] /\ req'[r] = new
      /\ \A q \in Requests \ {r} : req'[q] = req[q]
  BY <1>1, <1>3, OneRequest
<1>5. SessionOK(s) /\ signIn[s].at = "done" /\ (store[s].mfa <=> kind # "verify")
  BY DEF IInv, SessionsOK, Receive
<1>6. PassedOK(r)'
  BY <1>1, <1>3, <1>4, <1>5 DEF PassedOK, SessionOK, Inside
<1>7. OutdatedOK(r)'
  <2>1. store[s].epoch \in Nat /\ staff.epoch \in Nat /\ store[s].epoch <= staff.epoch
    BY <1>5, Epochs DEF SessionOK
  <2>2. Arrival(s, i).outdated =>
          store[s].epoch # staff.epoch /\ ~cache[i].has /\ cache[i].load # "read"
    BY DEF Arrival
  <2> QED BY <1>1, <1>3, <1>4, <2>1, <2>2 DEF OutdatedOK
<1>8. TypeOK'
  BY <1>1, <1>4, Types DEF TypeOK, SignInType, CacheType, ReqType, KnownType
<1> QED BY <1>1, <1>4, <1>6, <1>7, <1>8, SessionsSame, CacheSame, StepInv

LEMMA VerifyStep ==
  ASSUME IInv, NEW r \in Requests, VerifyTotp(r)
  PROVE  IInv'
<1> DEFINE s == req[r].s
           blob == [req[r].blob EXCEPT !.mfa = TRUE]
<1>1. /\ UNCHANGED <<staff, signIn, index, cache, openViews, lapsed, loggedOut>>
      /\ verified' = verified \cup {s} /\ store' = [store EXCEPT ![s] = blob] /\ Finish(r)
  BY DEF VerifyTotp, views, Save
<1>2. s \in Sessions /\ signIn[s].at = "done" /\ req[r].blob.epoch <= staff.epoch
  BY DEF VerifyTotp, IInv, RequestsOK, PassedOK
<1>3. blob \in Blobs /\ blob.mfa /\ blob.epoch = req[r].blob.epoch
  <2>1. req[r].blob \in Blobs
    BY Types DEF ReqType
  <2> QED BY <2>1 DEF Blobs
<1> HIDE DEF s, blob
<1>4. /\ store' \in [Sessions -> Blobs] /\ store'[s] = blob
      /\ \A x \in Sessions \ {s} : store'[x] = store[x]
  BY <1>1, <1>2, <1>3, Types
<1>5. SessionsOK' /\ Grows
  BY <1>1, <1>2, <1>3, <1>4, SessionSaved
<1>6. /\ req' \in [Requests -> ReqType] /\ req'[r] = Finished(r)
      /\ \A q \in Requests \ {r} : req'[q] = req[q]
  BY <1>1, FinishRequest
<1>7. TypeOK'
  BY <1>1, <1>2, <1>4, <1>6, Types DEF TypeOK, SignInType, CacheType, ReqType, KnownType
<1> QED BY <1>1, <1>5, <1>6, <1>7, CacheSame, StepInv

(* The verdict on an outdated session. *)
LEMMA OutdatedRefused ==
  \A row, blob : blob.epoch # row.epoch => Verdict(row, blob) = "refuse"
BY DEF Verdict

LEMMA VerdictStages ==
  \A row, blob : Verdict(row, blob) \in {"touch", "refuse"}
BY DEF Verdict

LEMMA LookUpStep ==
  ASSUME IInv, NEW r \in Requests, LookUp(r)
  PROVE  IInv'
<1> DEFINE i == req[r].i
           c == cache[i]
           verdict == IF c.has THEN Verdict(c.row, req[r].blob) ELSE "wait"
           load == IF c.load = "none" THEN "asked" ELSE c.load
           new == CASE verdict = "touch"  -> c
                    [] verdict = "refuse" -> [c EXCEPT !.has = FALSE]
                    [] verdict = "wait"   -> [c EXCEPT !.load = load]
<1>1. /\ UNCHANGED <<staff, signIn, store, index, openViews, lapsed, verified, loggedOut>>
      /\ Goto(r, verdict) /\ cache' = [cache EXCEPT ![i] = new] /\ req[r].at = "got"
  BY DEF LookUp, redis, views, history
<1>2. verdict \in {"touch", "refuse", "wait"} /\ i \in Instances
  BY VerdictStages DEF LookUp, IInv, RequestsOK, PassedOK, Inside
<1>3. /\ new \in CacheType /\ new.row = c.row /\ new.read = c.read /\ (new.has => c.has)
      /\ new.load = "read" => c.load = "read"
  <2>1. c \in CacheType
    BY <1>2, Types
  <2> HIDE DEF verdict
  <2>2. CASE verdict = "touch"
    BY <2>1, <2>2
  <2>3. CASE verdict = "refuse"
    BY <2>1, <2>3 DEF CacheType
  <2>4. CASE verdict = "wait"
    BY <2>1, <2>4 DEF CacheType
  <2> QED BY <1>2, <2>2, <2>3, <2>4
<1>4. PassedOK(r) /\ OutdatedOK(r)
  BY DEF IInv, RequestsOK
<1>5. req[r].known.outdated => verdict # "touch"
  <2>1. SUFFICES ASSUME req[r].known.outdated, c.has PROVE verdict = "refuse"
    OBVIOUS
  <2>2. req[r].blob.epoch < c.row.epoch /\ req[r].blob.epoch \in Nat /\ c.row.epoch \in Nat
    BY <1>4, <2>1, Epochs DEF OutdatedOK
  <2> QED BY <2>1, <2>2, OutdatedRefused
<1> HIDE DEF new, verdict
<1>6. /\ req' \in [Requests -> ReqType] /\ req'[r].at = verdict
      /\ req'[r].kind = req[r].kind /\ req'[r].s = req[r].s
      /\ req'[r].i = req[r].i /\ req'[r].blob = req[r].blob /\ req'[r].known = req[r].known
      /\ \A q \in Requests \ {r} : req'[q] = req[q]
  BY <1>1, <1>2, GotoRequest DEF Stages
<1>7. cache' \in [Instances -> CacheType] /\ CacheFollows
  BY <1>1, <1>3, Types DEF CacheFollows
<1>8. TypeOK'
  BY <1>1, <1>6, <1>7, Types DEF TypeOK, SignInType, CacheType, ReqType, KnownType
<1>9. SessionsOK' /\ Grows
  BY <1>1, SessionsSame
<1>10. PassedOK(r)'
  BY <1>1, <1>2, <1>4, <1>6 DEF PassedOK, Inside
<1>11. OutdatedOK(r)'
  BY <1>2, <1>5, <1>6, <1>7, <1>8, <1>9, OutdatedKept
<1> QED BY <1>6, <1>7, <1>8, <1>9, <1>10, <1>11, StepInv

(* What happens to a cache, and to the requests that wait for it. *)
LEMMA CacheStep ==
  ASSUME IInv, NEW i \in Instances, NEW new \in CacheType, cache' = [cache EXCEPT ![i] = new],
         new.has => \/ cache[i].has /\ new.row = cache[i].row
                    \/ cache[i].load = "read" /\ new.row = cache[i].read,
         new.load = "read" => \/ cache[i].load = "read" /\ new.read = cache[i].read
                              \/ new.read = staff,
         UNCHANGED <<staff, signIn, redis, views, history>>,
         req' \in [Requests -> ReqType],
         \A q \in Requests : \/ req'[q] = req[q] \/ req'[q] = Finished(q)
                             \/ PassedOK(q)' /\ OutdatedOK(q)'
  PROVE  IInv'
<1>1. cache' \in [Instances -> CacheType] /\ CacheFollows
  BY Types DEF CacheFollows
<1>2. TypeOK'
  BY <1>1, Types DEF TypeOK, SignInType, CacheType, ReqType, KnownType, redis, views, history
<1>3. SessionsOK' /\ Grows
  BY SessionsSame DEF redis, history
<1> QED BY <1>1, <1>2, <1>3, StepInv

LEMMA LoadSteps ==
  ASSUME IInv, NEW i \in Instances, LoadReads(i) \/ LoadFails(i) \/ EntryLapses(i) \/ Restart(i)
  PROVE  IInv'
<1>1. cache[i] \in CacheType
  BY Types
<1>2. CASE LoadReads(i)
  <2> DEFINE new == [cache[i] EXCEPT !.load = "read", !.read = staff]
  <2>1. cache' = [cache EXCEPT ![i] = new]
    BY <1>2 DEF LoadReads
  <2>2. /\ new \in CacheType /\ new.has = cache[i].has /\ new.row = cache[i].row
        /\ new.read = staff
    BY <1>1, Types DEF CacheType
  <2> HIDE DEF new
  <2> QED BY <1>2, <2>1, <2>2, Types, CacheStep DEF LoadReads
<1>3. CASE LoadFails(i)
  <2> DEFINE new == [cache[i] EXCEPT !.load = "none", !.read = NoRow]
  <2>1. cache' = [cache EXCEPT ![i] = new]
    BY <1>3 DEF LoadFails
  <2>2. /\ new \in CacheType /\ new.has = cache[i].has /\ new.row = cache[i].row
        /\ new.load = "none"
    BY <1>1, NewTypes DEF CacheType
  <2> HIDE DEF new
  <2>3. /\ req' \in [Requests -> ReqType]
        /\ \A q \in Requests : req'[q] = req[q] \/ req'[q] = Finished(q)
    BY <1>3, FinishedType, Types DEF LoadFails
  <2>4. UNCHANGED <<staff, signIn, redis, views, history>>
    BY <1>3 DEF LoadFails
  <2>5. new.has => cache[i].has /\ new.row = cache[i].row
    BY <2>2
  <2>6. new.load # "read"
    BY <2>2
  <2> QED BY <2>1, <2>2, <2>3, <2>4, <2>5, <2>6, CacheStep
<1>4. CASE EntryLapses(i)
  <2> DEFINE new == [cache[i] EXCEPT !.has = FALSE]
  <2>1. cache' = [cache EXCEPT ![i] = new]
    BY <1>4 DEF EntryLapses
  <2>2. /\ new \in CacheType /\ ~new.has /\ new.load = cache[i].load
        /\ new.read = cache[i].read
    BY <1>1 DEF CacheType
  <2> HIDE DEF new
  <2> QED BY <1>4, <2>1, <2>2, Types, CacheStep DEF EntryLapses
<1>5. CASE Restart(i)
  <2>1. EmptyCache \in CacheType /\ ~EmptyCache.has /\ EmptyCache.load = "none"
    BY NewTypes DEF EmptyCache
  <2>2. /\ req' \in [Requests -> ReqType]
        /\ \A q \in Requests : req'[q] = req[q] \/ req'[q] = Finished(q)
    BY <1>5, FinishedType, Types DEF Restart
  <2>3. /\ cache' = [cache EXCEPT ![i] = EmptyCache]
        /\ UNCHANGED <<staff, signIn, redis, views, history>>
    BY <1>5 DEF Restart
  <2> QED BY <2>1, <2>2, <2>3, CacheStep
<1> QED BY <1>2, <1>3, <1>4, <1>5

LEMMA ReturnStep ==
  ASSUME IInv, NEW i \in Instances, LoadReturns(i)
  PROVE  IInv'
<1> DEFINE row == cache[i].read
           verdict(q) == Verdict(row, req[q].blob)
           next == [q \in Waiting(i) |-> Verdict(row, req[q].blob)]
           has == \A q \in Waiting(i) : next[q] = "touch"
           new == [has |-> has, row |-> row, load |-> "none", read |-> NoRow]
<1>1. /\ cache[i].load = "read" /\ cache' = [cache EXCEPT ![i] = new]
      /\ UNCHANGED <<staff, signIn, redis, views, history>>
      /\ req' = [q \in Requests |-> IF q \in Waiting(i) THEN [req[q] EXCEPT !.at = next[q]]
                                    ELSE req[q]]
  BY DEF LoadReturns
<1>2. /\ new \in CacheType /\ new.row = cache[i].read /\ new.load = "none"
  <2>1. has \in BOOLEAN
    OBVIOUS
  <2>2. row \in Rows
    BY Types DEF CacheType
  <2> HIDE DEF has, row
  <2>3. new \in CacheType /\ new.row = row /\ new.load = "none"
    BY <2>1, <2>2, NewTypes DEF CacheType
  <2> QED BY <2>3 DEF row
<1> HIDE DEF new, has
<1>3. ASSUME NEW q \in Waiting(i)
      PROVE  /\ req'[q] \in ReqType
             /\ req'[q].at = verdict(q) /\ req'[q].kind = req[q].kind /\ req'[q].s = req[q].s
             /\ req'[q].i = req[q].i /\ req'[q].blob = req[q].blob
             /\ req'[q].known = req[q].known
  <2>1. q \in Requests /\ req'[q] = [req[q] EXCEPT !.at = verdict(q)]
    BY <1>1 DEF Waiting
  <2>2. verdict(q) \in Stages
    BY VerdictStages DEF Stages
  <2>3. req[q] \in ReqType
    BY <2>1, Types
  <2> HIDE DEF verdict
  <2> QED BY <2>1, <2>2, <2>3 DEF ReqType
<1>4. /\ req' \in [Requests -> ReqType]
      /\ \A q \in Requests \ Waiting(i) : req'[q] = req[q]
  <2>1. \A q \in Requests : req'[q] \in ReqType
    BY <1>1, <1>3, Types
  <2> QED BY <1>1, <2>1
<1>5. cache' \in [Instances -> CacheType] /\ CacheFollows
  BY <1>1, <1>2, Types DEF CacheFollows
<1>6. TypeOK'
  BY <1>1, <1>4, <1>5, Types
     DEF TypeOK, SignInType, CacheType, ReqType, KnownType, redis, views, history
<1>7. SessionsOK' /\ Grows
  BY <1>1, SessionsSame DEF redis, history
<1>8. ASSUME NEW q \in Waiting(i) PROVE PassedOK(q)' /\ OutdatedOK(q)'
  <2>1. /\ q \in Requests /\ req[q].at = "wait" /\ req[q].i = i
        /\ PassedOK(q) /\ OutdatedOK(q)
    BY DEF Waiting, IInv, RequestsOK
  <2>2. verdict(q) \in {"touch", "refuse"}
    BY VerdictStages
  <2>3. req[q].known.outdated => verdict(q) = "refuse"
    <3>1. SUFFICES ASSUME req[q].known.outdated PROVE verdict(q) = "refuse"
      OBVIOUS
    <3>2. req[q].blob.epoch < row.epoch /\ req[q].blob.epoch \in Nat /\ row.epoch \in Nat
      BY <1>1, <2>1, <3>1, Epochs DEF OutdatedOK
    <3> QED BY <3>2, OutdatedRefused
  <2> HIDE DEF verdict
  <2>4. UNCHANGED <<staff, signIn, verified>>
    BY <1>1 DEF history
  <2>5. PassedOK(q)'
    BY <1>3, <2>1, <2>2, <2>4 DEF PassedOK, Inside
  <2>6. OutdatedOK(q)'
    BY <1>3, <1>5, <1>6, <1>7, <2>1, <2>2, <2>3, OutdatedKept
  <2> QED BY <2>5, <2>6
<1> QED BY <1>4, <1>5, <1>6, <1>7, <1>8, StepInv

LEMMA RefuseStep ==
  ASSUME IInv, NEW r \in Requests, Refuse(r) \/ Logout(r)
  PROVE  IInv'
<1>1. /\ UNCHANGED <<staff, signIn, cache, openViews, lapsed, verified>>
      /\ Revoke(req[r].s) /\ Finish(r) /\ loggedOut \subseteq loggedOut'
      /\ loggedOut' \subseteq loggedOut \cup {req[r].s}
  BY DEF Refuse, Logout, views, history
<1>2. req[r].s \in verified /\ req[r].s \in Sessions
  <2>1. PassedOK(r) /\ req[r].at \in Inside
    BY DEF IInv, RequestsOK, Refuse, Logout, Inside
  <2> QED BY <2>1, Types DEF PassedOK
<1>3. SessionsOK' /\ Grows /\ store' \in [Sessions -> Blobs] /\ index' \subseteq Sessions
  BY <1>1, <1>2, SessionDropped, RevokeStore
<1>4. /\ req' \in [Requests -> ReqType] /\ req'[r] = Finished(r)
      /\ \A q \in Requests \ {r} : req'[q] = req[q]
  BY <1>1, FinishRequest
<1>5. TypeOK'
  BY <1>1, <1>2, <1>3, <1>4, Types DEF TypeOK, SignInType, CacheType, ReqType, KnownType
<1> QED BY <1>1, <1>3, <1>4, <1>5, CacheSame, StepInv

(* Touch and WriteView write the request's copy of the session back. *)
LEMMA WriteBackSteps ==
  ASSUME IInv, NEW r \in Requests, Touch(r) \/ WriteView(r)
  PROVE  IInv'
<1> DEFINE s == req[r].s
           blob == req[r].blob
<1>1. /\ UNCHANGED <<staff, signIn, index, cache, openViews, lapsed, verified, loggedOut>>
      /\ store' = [store EXCEPT ![s] = blob] /\ req[r].at \in {"touch", "write"}
      /\ Finish(r) \/ Goto(r, "serve") \/ Goto(r, "row")
  BY DEF Touch, WriteView, views, history, Save
<1>2. PassedOK(r) /\ OutdatedOK(r)
  BY DEF IInv, RequestsOK
<1>3. /\ s \in verified /\ s \in Sessions /\ blob \in Blobs /\ blob.mfa
      /\ blob.epoch <= staff.epoch /\ signIn[s].at = "done" /\ ~req[r].known.outdated
  <2>1. s \in verified /\ blob.mfa /\ blob.epoch <= staff.epoch /\ ~req[r].known.outdated
    BY <1>1, <1>2 DEF PassedOK, OutdatedOK, Inside
  <2>2. s \in Sessions /\ blob \in Blobs
    BY <2>1, Types DEF ReqType
  <2> QED BY <2>1, <2>2 DEF IInv, SessionsOK, SessionOK
<1>4. /\ store' \in [Sessions -> Blobs] /\ store'[s] = blob
      /\ \A x \in Sessions \ {s} : store'[x] = store[x]
  BY <1>1, <1>3, Types
<1>5. SessionsOK' /\ Grows
  <2> HIDE DEF s, blob
  <2> QED BY <1>1, <1>3, <1>4, SessionSaved
<1>6. /\ req' \in [Requests -> ReqType] /\ \A q \in Requests \ {r} : req'[q] = req[q]
      /\ req'[r] = Finished(r) \/ (PassedOK(r)' /\ OutdatedOK(r)')
  <2>1. CASE Finish(r)
    BY <2>1, FinishRequest
  <2>2. CASE Goto(r, "serve") \/ Goto(r, "row")
    <3>1. PICK stage \in {"serve", "row"} : Goto(r, stage)
      BY <2>2
    <3>2. /\ req' \in [Requests -> ReqType]
          /\ req'[r].at = stage /\ req'[r].kind = req[r].kind /\ req'[r].s = req[r].s
          /\ req'[r].i = req[r].i /\ req'[r].blob = req[r].blob
          /\ req'[r].known = req[r].known /\ \A q \in Requests \ {r} : req'[q] = req[q]
      BY <3>1, GotoRequest DEF Stages
    <3>3. PassedOK(r)'
      BY <1>1, <1>2, <3>2 DEF PassedOK, Inside
    <3>4. OutdatedOK(r)'
      BY <1>3, <3>2 DEF OutdatedOK
    <3> QED BY <3>2, <3>3, <3>4
  <2> QED BY <1>1, <2>1, <2>2
<1>7. TypeOK'
  BY <1>1, <1>4, <1>6, Types DEF TypeOK, SignInType, CacheType, ReqType, KnownType
<1> QED BY <1>1, <1>5, <1>6, <1>7, CacheSame, StepInv

(* Steps of a served request that touch no session. *)
LEMMA ServeStep ==
  ASSUME IInv, NEW r \in Requests,
         UNCHANGED <<staff, signIn, redis, cache, lapsed, history>>,
         openViews' \subseteq Requests, req' \in [Requests -> ReqType],
         \A q \in Requests \ {r} : req'[q] = req[q],
         req'[r] = req[r] \/ req'[r] = Finished(r) \/ (PassedOK(r)' /\ OutdatedOK(r)')
  PROVE  IInv'
<1>1. TypeOK'
  BY Types DEF TypeOK, SignInType, CacheType, ReqType, KnownType, redis, history
<1>2. SessionsOK' /\ Grows /\ CacheFollows
  BY SessionsSame, CacheSame DEF redis, history
<1> QED BY <1>1, <1>2, StepInv

LEMMA ReadAgainStep ==
  ASSUME IInv, NEW r \in Requests, ReadAgain(r)
  PROVE  IInv'
<1> DEFINE s == req[r].s
           blob == store[s]
           view == IF req[r].kind = "view" THEN r ELSE None
           edited == [blob EXCEPT !.view = view]
<1>1. /\ UNCHANGED <<staff, signIn, redis, cache, openViews, lapsed, history>>
      /\ req[r].at = "serve" /\ req[r].kind \in {"view", "endView"}
      /\ \/ /\ blob.live
            /\ req' = [req EXCEPT ![r] = [req[r] EXCEPT !.blob = edited, !.at = "write"]]
         \/ Finish(r)
         \/ Goto(r, "row")
  BY DEF ReadAgain, views
<1>2. PassedOK(r) /\ OutdatedOK(r)
  BY DEF IInv, RequestsOK
<1>3. s \in verified /\ s \in Sessions /\ ~req[r].known.outdated /\ SessionOK(s)
  <2>1. s \in verified /\ ~req[r].known.outdated
    BY <1>1, <1>2 DEF PassedOK, OutdatedOK, Inside
  <2> QED BY <2>1, Types DEF IInv, SessionsOK
<1>4. CASE /\ blob.live
           /\ req' = [req EXCEPT ![r] = [req[r] EXCEPT !.blob = edited, !.at = "write"]]
  <2> DEFINE new == [req[r] EXCEPT !.blob = edited, !.at = "write"]
  <2>1. blob \in Blobs /\ blob.mfa /\ blob.epoch <= staff.epoch
    BY <1>3, <1>4, Types DEF SessionOK
  <2>2. edited \in Blobs /\ edited.mfa /\ edited.epoch = blob.epoch
    <3> HIDE DEF blob, view
    <3>1. view \in Requests \cup {None}
      BY DEF view
    <3> QED BY <2>1, <3>1 DEF Blobs
  <2>3. req' = [req EXCEPT ![r] = new]
    BY <1>4
  <2> HIDE DEF edited
  <2>4. /\ new \in ReqType /\ new.at = "write" /\ new.kind = req[r].kind /\ new.s = s
        /\ new.i = req[r].i /\ new.blob = edited /\ new.known = req[r].known
    BY <2>2, Types DEF ReqType, Stages
  <2> HIDE DEF new, blob
  <2>5. /\ req' \in [Requests -> ReqType] /\ req'[r] = new
        /\ \A q \in Requests \ {r} : req'[q] = req[q]
    BY <2>3, <2>4, OneRequest
  <2>6. PassedOK(r)'
    BY <1>1, <1>2, <1>3, <2>1, <2>2, <2>4, <2>5 DEF PassedOK, Inside, history
  <2>7. OutdatedOK(r)'
    BY <1>3, <2>4, <2>5 DEF OutdatedOK
  <2> QED BY <1>1, <2>5, <2>6, <2>7, Types, ServeStep
<1>5. CASE Finish(r)
  BY <1>1, <1>5, FinishRequest, Types, ServeStep
<1>6. CASE Goto(r, "row")
  <2>1. /\ req' \in [Requests -> ReqType]
        /\ req'[r].at = "row" /\ req'[r].kind = req[r].kind /\ req'[r].s = req[r].s
        /\ req'[r].i = req[r].i /\ req'[r].blob = req[r].blob
        /\ req'[r].known = req[r].known /\ \A q \in Requests \ {r} : req'[q] = req[q]
    BY <1>6, GotoRequest DEF Stages
  <2>2. PassedOK(r)'
    BY <1>1, <1>2, <2>1 DEF PassedOK, Inside, history
  <2>3. OutdatedOK(r)'
    BY <1>3, <2>1 DEF OutdatedOK
  <2> QED BY <1>1, <2>1, <2>2, <2>3, Types, ServeStep
<1> QED BY <1>1, <1>4, <1>5, <1>6

LEMMA ViewSteps ==
  ASSUME IInv, NEW r \in Requests, RecordView(r) \/ ViewLapses(r)
  PROVE  IInv'
<1>1. CASE RecordView(r)
  BY <1>1, FinishRequest, Types, ServeStep DEF RecordView
<1>2. CASE ViewLapses(r)
  <2>1. /\ UNCHANGED <<staff, signIn, store, index, cache, req, openViews, verified, loggedOut>>
        /\ lapsed' = lapsed \cup {r}
    BY <1>2 DEF ViewLapses, redis, history
  <2>2. TypeOK'
    BY <2>1, Types DEF TypeOK, SignInType, CacheType, ReqType, KnownType
  <2> QED BY <2>1, <2>2, SessionsSame, CacheSame, StepInv
<1> QED BY <1>1, <1>2

(* The epoch goes up: all that was at most the old one still is. *)
LEMMA BumpStep ==
  ASSUME IInv, NEW r \in Requests, BumpEpoch(r)
  PROVE  IInv'
<1>1. /\ UNCHANGED <<signIn, store, index, cache, openViews, lapsed, verified, loggedOut>>
      /\ staff.epoch < MaxEpoch
  BY DEF BumpEpoch, redis, views, history
<1>2. staff \in Rows /\ staff.epoch \in Nat
  BY Types, Epochs
<1>3. staff' \in Rows /\ staff'.epoch = staff.epoch + 1
  <2>1. CASE staff' = [staff EXCEPT !.epoch = @ + 1]
    BY <1>1, <1>2, <2>1, SessionsAssumption DEF Rows
  <2>2. CASE \E active \in BOOLEAN : staff' = [epoch |-> staff.epoch + 1, active |-> active]
    BY <1>1, <1>2, <2>2, SessionsAssumption DEF Rows
  <2> QED BY <2>1, <2>2 DEF BumpEpoch
<1>4. /\ req' \in [Requests -> ReqType] /\ \A q \in Requests \ {r} : req'[q] = req[q]
      /\ PassedOK(r)' /\ OutdatedOK(r)'
  <2>1. CASE req[r].at = "serve" /\ Goto(r, "list")
    <3>1. /\ req' \in [Requests -> ReqType]
          /\ req'[r].at = "list" /\ req'[r].kind = req[r].kind /\ req'[r].s = req[r].s
          /\ req'[r].i = req[r].i /\ req'[r].blob = req[r].blob
          /\ req'[r].known = req[r].known /\ \A q \in Requests \ {r} : req'[q] = req[q]
      BY <2>1, GotoRequest DEF Stages
    <3>2. PassedOK(r) /\ OutdatedOK(r) /\ req[r].blob.epoch \in Nat
      BY Epochs DEF IInv, RequestsOK
    <3>3. req[r].blob.epoch <= staff'.epoch
      BY <1>2, <1>3, <3>2 DEF PassedOK
    <3>4. PassedOK(r)'
      BY <1>1, <2>1, <3>1, <3>2, <3>3 DEF PassedOK, Inside
    <3>5. OutdatedOK(r)'
      BY <2>1, <3>1, <3>2 DEF OutdatedOK
    <3> QED BY <3>1, <3>4, <3>5
  <2>2. CASE req' = [req EXCEPT ![r] = [Idle EXCEPT !.at = "list", !.kind = "edit"]]
    <3> DEFINE new == [Idle EXCEPT !.at = "list", !.kind = "edit"]
    <3>1. /\ new \in ReqType /\ new.at = "list" /\ new.kind = "edit"
          /\ new.blob = Idle.blob /\ new.known = Idle.known
      BY NewTypes DEF ReqType, Stages, Kinds
    <3>2. Idle.blob = NoBlob /\ Idle.known = Nothing
      BY DEF Idle
    <3> HIDE DEF new
    <3>3. /\ req' \in [Requests -> ReqType] /\ req'[r] = new
          /\ \A q \in Requests \ {r} : req'[q] = req[q]
      BY <2>2, <3>1, OneRequest DEF new
    <3>4. PassedOK(r)'
      BY <1>2, <1>3, <3>1, <3>2, <3>3 DEF PassedOK, Inside, NoBlob
    <3>5. OutdatedOK(r)'
      BY <3>1, <3>2, <3>3 DEF OutdatedOK, Nothing
    <3> QED BY <3>3, <3>4, <3>5
  <2> QED BY <2>1, <2>2 DEF BumpEpoch
<1>5. SessionsOK'
  <2>1. \A s \in Sessions : SessionOK(s) /\ signIn[s].epoch \in Nat /\ store[s].epoch \in Nat
    BY Epochs DEF IInv, SessionsOK
  <2> QED BY <1>1, <1>2, <1>3, <2>1 DEF SessionsOK, SessionOK
<1>6. TypeOK'
  BY <1>1, <1>3, <1>4, Types DEF TypeOK, SignInType, CacheType, ReqType, KnownType
<1>7. Grows /\ CacheFollows
  BY <1>1, <1>2, <1>3, CacheSame DEF Grows
<1> QED BY <1>4, <1>5, <1>6, <1>7, StepInv

LEMMA SweepSteps ==
  ASSUME IInv, NEW r \in Requests, ListIndex(r) \/ Sweep(r)
  PROVE  IInv'
<1>1. PassedOK(r) /\ OutdatedOK(r) /\ req[r].at \in {"list", "sweep"}
  BY DEF IInv, RequestsOK, ListIndex, Sweep
<1>2. ASSUME NEW new \in ReqType, req' = [req EXCEPT ![r] = new], new.at = "sweep",
             new.kind = req[r].kind, new.s = req[r].s, new.blob = req[r].blob,
             new.known = req[r].known, UNCHANGED <<staff, signIn, verified>>
      PROVE  /\ req' \in [Requests -> ReqType] /\ \A q \in Requests \ {r} : req'[q] = req[q]
             /\ PassedOK(r)' /\ OutdatedOK(r)'
  <2>1. /\ req' \in [Requests -> ReqType] /\ req'[r] = new
        /\ \A q \in Requests \ {r} : req'[q] = req[q]
    BY <1>2, OneRequest
  <2>2. PassedOK(r)'
    BY <1>1, <1>2, <2>1 DEF PassedOK, Inside
  <2>3. OutdatedOK(r)'
    BY <1>1, <1>2, <2>1 DEF OutdatedOK
  <2> QED BY <2>1, <2>2, <2>3
<1>3. CASE ListIndex(r)
  <2> DEFINE new == [req[r] EXCEPT !.left = index, !.at = "sweep"]
  <2>1. req' = [req EXCEPT ![r] = new]
    BY <1>3 DEF ListIndex
  <2>2. /\ new \in ReqType /\ new.at = "sweep" /\ new.kind = req[r].kind /\ new.s = req[r].s
        /\ new.blob = req[r].blob /\ new.known = req[r].known
    BY Types DEF ReqType, Stages
  <2> HIDE DEF new
  <2>3. /\ req' \in [Requests -> ReqType] /\ \A q \in Requests \ {r} : req'[q] = req[q]
        /\ PassedOK(r)' /\ OutdatedOK(r)'
    BY <1>2, <1>3, <2>1, <2>2 DEF ListIndex, history
  <2> QED BY <1>3, <2>3, Types, ServeStep DEF ListIndex, views
<1>4. ASSUME NEW s \in req[r].left, Revoke(s), req' = [req EXCEPT ![r].left = @ \ {s}],
             UNCHANGED <<staff, signIn, cache, views, history>>, req[r].at = "sweep"
      PROVE  IInv'
  <2> DEFINE left == req[r].left \ {s}
             new == [req[r] EXCEPT !.left = left]
  <2>1. req' = [req EXCEPT ![r] = new]
    BY <1>4
  <2>2. s \in Sessions /\ left \subseteq Sessions
    BY Types DEF ReqType
  <2> HIDE DEF left
  <2>3. /\ new \in ReqType /\ new.at = "sweep" /\ new.kind = req[r].kind /\ new.s = req[r].s
        /\ new.blob = req[r].blob /\ new.known = req[r].known
    BY <1>4, <2>2, Types DEF ReqType
  <2> HIDE DEF new
  <2>4. /\ req' \in [Requests -> ReqType] /\ \A q \in Requests \ {r} : req'[q] = req[q]
        /\ PassedOK(r)' /\ OutdatedOK(r)'
    BY <1>2, <1>4, <2>1, <2>3 DEF history
  <2>5. SessionsOK' /\ Grows /\ store' \in [Sessions -> Blobs] /\ index' \subseteq Sessions
    BY <1>4, <2>2, SessionDropped, RevokeStore DEF history
  <2>6. TypeOK'
    BY <1>4, <2>4, <2>5, Types
       DEF TypeOK, SignInType, CacheType, ReqType, KnownType, views, history
  <2> QED BY <1>4, <2>4, <2>5, <2>6, CacheSame, StepInv
<1>5. ASSUME index' = {}, Finish(r), UNCHANGED <<staff, signIn, store, cache, views, history>>
      PROVE  IInv'
  <2>1. /\ req' \in [Requests -> ReqType] /\ req'[r] = Finished(r)
        /\ \A q \in Requests \ {r} : req'[q] = req[q]
    BY <1>5, FinishRequest
  <2>2. TypeOK'
    BY <1>5, <2>1, Types DEF TypeOK, SignInType, CacheType, ReqType, KnownType, views, history
  <2>3. SessionsOK' /\ Grows /\ CacheFollows
    BY <1>5, SessionsSame, CacheSame DEF history
  <2> QED BY <2>1, <2>2, <2>3, StepInv
<1> QED BY <1>3, <1>4, <1>5 DEF Sweep

--------------------------------------------------------------------------------
LEMMA NextInv == IInv /\ [Next]_vars => IInv'
<1> SUFFICES ASSUME IInv, [Next]_vars PROVE IInv'
  OBVIOUS
<1>1. ASSUME NEW s \in Sessions,
             CheckPassword(s) \/ CreateSession(s) \/ IndexSession(s) \/ Expire(s)
      PROVE  IInv'
  BY <1>1, SignInSteps, ExpireStep
<1>2. ASSUME NEW r \in Requests, NEW kind \in Kinds \ {"edit"}, NEW s \in Sessions,
             NEW i \in Instances, Receive(r, kind, s, i)
      PROVE  IInv'
  BY <1>2, ReceiveStep
<1>3. ASSUME NEW r \in Requests,
             \/ VerifyTotp(r) \/ LookUp(r) \/ Refuse(r) \/ Touch(r)
             \/ Logout(r) \/ ReadAgain(r) \/ WriteView(r) \/ RecordView(r) \/ ViewLapses(r)
             \/ BumpEpoch(r) \/ ListIndex(r) \/ Sweep(r)
      PROVE  IInv'
  <2>1. CASE VerifyTotp(r) \/ LookUp(r)
    BY <2>1, VerifyStep, LookUpStep
  <2>2. CASE Refuse(r) \/ Logout(r) \/ Touch(r) \/ WriteView(r)
    BY <2>2, RefuseStep, WriteBackSteps
  <2>3. CASE ReadAgain(r) \/ RecordView(r) \/ ViewLapses(r)
    BY <2>3, ReadAgainStep, ViewSteps
  <2>4. CASE BumpEpoch(r) \/ ListIndex(r) \/ Sweep(r)
    BY <2>4, BumpStep, SweepSteps
  <2> QED BY <1>3, <2>1, <2>2, <2>3, <2>4
<1>4. ASSUME NEW i \in Instances,
             \/ LoadReads(i) \/ LoadReturns(i) \/ LoadFails(i) \/ EntryLapses(i) \/ Restart(i)
      PROVE  IInv'
  BY <1>4, LoadSteps, ReturnStep
<1>5. CASE UNCHANGED vars
  <2>1. UNCHANGED <<staff, signIn, store, index, cache, req, openViews, lapsed, verified,
                    loggedOut>>
    BY <1>5 DEF vars
  <2>2. TypeOK'
    BY <2>1, Types DEF TypeOK, SignInType, CacheType, ReqType, KnownType
  <2> QED BY <2>1, <2>2, SessionsSame, CacheSame, StepInv
<1> QED BY <1>1, <1>2, <1>3, <1>4, <1>5 DEF Next

(* The inductive invariant of the console sessions. *)
THEOREM Invariance == Spec => []IInv
BY InitInv, NextInv, PTL DEF Spec

(* Staff row, sessions, index, caches and requests stay in their types       *)
(* (session.service.ts, session.guard.ts).                                   *)
THEOREM TypeCorrect == Spec => []TypeOK
<1>1. IInv => TypeOK BY DEF IInv
<1> QED BY Invariance, <1>1, PTL

(* For any number of requests, instances and edits, a request that arrives   *)
(* with an outdated session where no older staff row is known is never       *)
(* served (SessionGuard's epoch check on TtlCache).                          *)
THEOREM OutdatedRefusedAlways == Spec => []OutdatedIsShutOut
<1>1. IInv => OutdatedIsShutOut
  BY DEF IInv, RequestsOK, OutdatedOK, OutdatedIsShutOut, Served
<1> QED BY Invariance, <1>1, PTL

(* Nobody is served before the session's code was checked, for any number of *)
(* sessions and concurrent writers (login, verifyTotp, SessionGuard).        *)
THEOREM SecondFactorAlways == Spec => []SecondFactorFirst
<1>1. IInv => SecondFactorFirst
  <2> SUFFICES ASSUME IInv, NEW r \in Requests, Served(r)
               PROVE  req[r].s \in verified
    BY DEF SecondFactorFirst
  <2>1. PassedOK(r) /\ req[r].kind # "edit" /\ req[r].at \in Inside \cup {"list", "sweep"}
    BY DEF IInv, RequestsOK, Served, Inside
  <2> QED BY <2>1 DEF PassedOK
<1> QED BY Invariance, <1>1, PTL

(* No step takes the second factor from a session that has it: whoever       *)
(* writes the session back read it with the mark, or sets it (touch,         *)
(* verifyTotp, startImpersonation).                                          *)
THEOREM SecondFactorKept == Spec => SecondFactorStays
<1>1. IInv /\ IInv' /\ [Next]_vars =>
        \A s \in Sessions : store[s].mfa /\ store'[s].live => store'[s].mfa
  <2> SUFFICES ASSUME IInv, IInv', [Next]_vars, NEW s \in Sessions,
                      store[s].mfa, store'[s].live
               PROVE  store'[s].mfa
    OBVIOUS
  <2>1. s \in verified
    BY DEF IInv, SessionsOK, SessionOK
  <2>2. verified \subseteq verified'
    BY DEF Next, vars, CheckPassword, CreateSession, IndexSession, Expire, Receive, VerifyTotp,
           LookUp, Refuse, Touch, Logout, ReadAgain, WriteView, RecordView, ViewLapses, BumpEpoch,
           ListIndex, Sweep, LoadReads, LoadReturns, LoadFails, EntryLapses, Restart, history
  <2> QED BY <2>1, <2>2 DEF IInv, SessionsOK, SessionOK
<1>2. IInv /\ IInv' /\ [Next]_vars =>
        [\A s \in Sessions : store[s].mfa /\ store'[s].live => store'[s].mfa]_vars
  BY <1>1
<1> QED BY Invariance, <1>2, PTL DEF Spec, SecondFactorStays
================================================================================
