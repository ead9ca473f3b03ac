-------------------------------- MODULE Sessions --------------------------------
(***************************************************************************)
(* Console sessions of one member of staff: the Redis session store        *)
(* (common/auth/session.service.ts), the guard in front of every request   *)
(* with its in-process cache of the staff row (common/auth/session.guard.ts,*)
(* common/cache/ttl-cache.ts, common/auth/permissions.guard.ts), signing in *)
(* and out, password changes and "view as customer" (modules/auth/          *)
(* auth.service.ts) and the administrators' edits that bump the session     *)
(* epoch (modules/staff/staff.service.ts).                                  *)
(*                                                                          *)
(* A session is a JSON blob that every writer reads, edits in memory and    *)
(* writes back whole.  Each await between the read and the write is a step  *)
(* of its own.  Clocks are not modelled: a key may expire, a cached row lapse *)
(* and a view run out of time at any moment.                                *)
(***************************************************************************)
EXTENDS Naturals, FiniteSets

CONSTANTS Sessions,   \* session ids, one per sign-in of this member of staff
          Requests,   \* HTTP requests: those that carry a cookie, and other staff's edits
          Instances,  \* API processes, each with a staff cache of its own
          MaxEpoch,   \* bound on the edits that bump the session epoch
          None

ASSUME SessionsAssumption ==
  /\ MaxEpoch \in Nat
  /\ None \notin Sessions \cup Requests

VARIABLES staff,      \* the staff row, with the status and epoch the guard looks at
          signIn,     \* where the sign-in that makes each session is
          store,      \* Redis: the session blobs
          index,      \* Redis: the set of session ids kept per member of staff
          cache,      \* per instance: the cached staff row, and the load under way
          req,        \* where each request is
          openViews,  \* impersonation_sessions rows with no endedAt, by the request that made them
          lapsed,     \* views whose expiresAt has passed
          verified,   \* history: sessions whose TOTP code was checked
          loggedOut   \* history: sessions whose logout has deleted them

vars == <<staff, signIn, store, index, cache, req, openViews, lapsed, verified, loggedOut>>
redis == <<store, index>>
history == <<verified, loggedOut>>
views == <<openViews, lapsed>>

Rows == [epoch : 0..MaxEpoch, active : BOOLEAN]
NoRow == [epoch |-> 0, active |-> FALSE]

(* A blob's view is the request that started it; NoBlob is a missing key. *)
Blobs == [live : BOOLEAN, epoch : 0..MaxEpoch, mfa : BOOLEAN, view : Requests \cup {None}]
NoBlob == [live |-> FALSE, epoch |-> 0, mfa |-> FALSE, view |-> None]

(* GET and POST stand for the routes that require a permission. *)
Kinds == {"verify", "GET", "POST", "logout", "view", "endView", "password", "edit"}

(* What was already so when a request arrived is kept with it, to state the  *)
(* properties: its session had been logged out, or had views open; its       *)
(* session was of an earlier epoch, with nothing cached to say otherwise.    *)
Nothing == [loggedOut |-> FALSE, onViews |-> {}, outdated |-> FALSE]

Idle == [at |-> "new", kind |-> "GET", s |-> None, i |-> None, blob |-> NoBlob,
         left |-> {}, known |-> Nothing]

Stages == {"new", "got", "wait", "refuse", "touch", "serve", "code", "write", "row",
           "list", "sweep", "done"}

TypeOK ==
  /\ staff \in Rows
  /\ signIn \in [Sessions -> [at : {"none", "password", "stored", "done"}, epoch : 0..MaxEpoch]]
  /\ store \in [Sessions -> Blobs]
  /\ index \subseteq Sessions
  /\ cache \in [Instances -> [has : BOOLEAN, row : Rows,
                              load : {"none", "asked", "read"}, read : Rows]]
  /\ req \in [Requests -> [at : Stages, kind : Kinds, s : Sessions \cup {None},
                           i : Instances \cup {None}, blob : Blobs, left : SUBSET Sessions,
                           known : [loggedOut : BOOLEAN, onViews : SUBSET Requests,
                                    outdated : BOOLEAN]]]
  /\ openViews \subseteq Requests /\ lapsed \subseteq Requests
  /\ verified \subseteq Sessions /\ loggedOut \subseteq Sessions

EmptyCache == [has |-> FALSE, row |-> NoRow, load |-> "none", read |-> NoRow]

Init ==
  /\ staff = [epoch |-> 0, active |-> TRUE]
  /\ signIn = [s \in Sessions |-> [at |-> "none", epoch |-> 0]]
  /\ store = [s \in Sessions |-> NoBlob]
  /\ index = {}
  /\ cache = [i \in Instances |-> EmptyCache]
  /\ req = [r \in Requests |-> Idle]
  /\ openViews = {} /\ lapsed = {} /\ verified = {} /\ loggedOut = {}

--------------------------------------------------------------------------------
Goto(r, stage) == req' = [req EXCEPT ![r].at = stage]

Finished(r) == [Idle EXCEPT !.at = "done", !.kind = req[r].kind, !.s = req[r].s]

Finish(r) == req' = [req EXCEPT ![r] = Finished(r)]

Save(s, blob) == store' = [store EXCEPT ![s] = blob]

(* revoke: GET, DEL, and SREM when there was something to delete. *)
Revoke(s) ==
  /\ Save(s, NoBlob)
  /\ index' = IF store[s].live THEN index \ {s} ELSE index

Viewing(blob) == blob.view # None /\ blob.view \notin lapsed

(* Sign-in: login reads the staff row, creates the session, indexes it. *)
CheckPassword(s) ==
  /\ signIn[s].at = "none" /\ staff.active
  /\ signIn' = [signIn EXCEPT ![s] = [at |-> "password", epoch |-> staff.epoch]]
  /\ UNCHANGED <<staff, redis, cache, req, views, history>>

CreateSession(s) ==
  /\ signIn[s].at = "password"
  /\ signIn' = [signIn EXCEPT ![s].at = "stored"]
  /\ Save(s, [live |-> TRUE, epoch |-> signIn[s].epoch, mfa |-> FALSE, view |-> None])
  /\ UNCHANGED <<staff, index, cache, req, views, history>>

IndexSession(s) ==
  /\ signIn[s].at = "stored"
  /\ signIn' = [signIn EXCEPT ![s].at = "done"]
  /\ index' = index \cup {s}
  /\ UNCHANGED <<staff, store, cache, req, views, history>>

(* Either clock of the session runs out: Redis drops the key, or get does. *)
Expire(s) ==
  /\ store[s].live
  /\ \/ Save(s, NoBlob) /\ UNCHANGED index
     \/ Revoke(s)
  /\ UNCHANGED <<staff, signIn, cache, req, views, history>>

(* A request brings a cookie, and firstLive reads the session.  The guard    *)
(* turns away a session that is gone or still waits for its second factor;  *)
(* the public second-factor route has no more to do for one that does not:  *)
(* requests that end there leave no trace, and are not steps.               *)
Arrival(s, i) ==
  [loggedOut |-> s \in loggedOut,
   onViews   |-> {v \in openViews \ lapsed : req[v].s = s},
   outdated  |-> /\ store[s].epoch # staff.epoch
                 /\ ~cache[i].has /\ cache[i].load # "read"]

ReceiveHalfSignedIn(r, kind, s, i) ==
  /\ req[r] = Idle
  /\ signIn[s].at = "done"
  /\ store[s].live
  /\ store[s].mfa => kind # "verify"
  /\ req' = [req EXCEPT ![r] =
       [Idle EXCEPT !.at = IF kind = "verify" THEN "code" ELSE "got", !.kind = kind,
                    !.s = s, !.i = i, !.blob = store[s], !.known = Arrival(s, i)]]
  /\ UNCHANGED <<staff, signIn, redis, cache, views, history>>

Receive(r, kind, s, i) ==
  /\ req[r] = Idle
  /\ signIn[s].at = "done"
  /\ store[s].live
  /\ store[s].mfa <=> kind # "verify"
  /\ req' = [req EXCEPT ![r] =
       [Idle EXCEPT !.at = IF kind = "verify" THEN "code" ELSE "got", !.kind = kind,
                    !.s = s, !.i = i, !.blob = store[s], !.known = Arrival(s, i)]]
  /\ UNCHANGED <<staff, signIn, redis, cache, views, history>>

(* verifyTotp: the code is right, and the blob read before goes back. *)
VerifyTotp(r) ==
  /\ req[r].at = "code"
  /\ Save(req[r].s, [req[r].blob EXCEPT !.mfa = TRUE])
  /\ verified' = verified \cup {req[r].s}
  /\ Finish(r)
  /\ UNCHANGED <<staff, signIn, index, cache, views, loggedOut>>

(* What the guard makes of the staff row. *)
VerdictOnStatus(row, blob) == IF row.active THEN "touch" ELSE "refuse"

Verdict(row, blob) ==
  IF row.active /\ row.epoch = blob.epoch THEN "touch" ELSE "refuse"

(* TtlCache.get: a fresh entry answers, otherwise the request joins the     *)
(* load under way or starts one.  A refusal drops the entry.                *)
LookUp(r) ==
  /\ req[r].at = "got"
  /\ LET c == cache[req[r].i]
         verdict == IF c.has THEN Verdict(c.row, req[r].blob) ELSE "wait"
     IN /\ Goto(r, verdict)
        /\ cache' = [cache EXCEPT ![req[r].i] =
             CASE verdict = "touch"  -> c
               [] verdict = "refuse" -> [c EXCEPT !.has = FALSE]
               [] verdict = "wait"   -> [c EXCEPT !.load = IF c.load = "none" THEN "asked"
                                                           ELSE c.load]]
  /\ UNCHANGED <<staff, signIn, redis, views, history>>

LoadReads(i) ==
  /\ cache[i].load = "asked"
  /\ cache' = [cache EXCEPT ![i] = [@ EXCEPT !.load = "read", !.read = staff]]
  /\ UNCHANGED <<staff, signIn, redis, req, views, history>>

Waiting(i) == {r \in Requests : req[r].at = "wait" /\ req[r].i = i}

(* The load answers: the entry is set, and every request that shared the    *)
(* load looks at the same row; any refusal among them drops the entry.      *)
LoadReturns(i) ==
  /\ cache[i].load = "read"
  /\ LET row == cache[i].read
         next == [r \in Waiting(i) |-> Verdict(row, req[r].blob)]
     IN /\ req' = [r \in Requests |-> IF r \in Waiting(i) THEN [req[r] EXCEPT !.at = next[r]]
                                      ELSE req[r]]
        /\ cache' = [cache EXCEPT ![i] =
             [has |-> \A r \in Waiting(i) : next[r] = "touch", row |-> row,
              load |-> "none", read |-> NoRow]]
  /\ UNCHANGED <<staff, signIn, redis, views, history>>

LoadFails(i) ==
  /\ cache[i].load # "none"
  /\ req' = [r \in Requests |-> IF r \in Waiting(i) THEN Finished(r) ELSE req[r]]
  /\ cache' = [cache EXCEPT ![i] = [@ EXCEPT !.load = "none", !.read = NoRow]]
  /\ UNCHANGED <<staff, signIn, redis, views, history>>

(* STAFF_TTL_MS has passed. *)
EntryLapses(i) ==
  /\ cache[i].has
  /\ cache' = [cache EXCEPT ![i].has = FALSE]
  /\ UNCHANGED <<staff, signIn, redis, req, views, history>>

Refuse(r) ==
  /\ req[r].at = "refuse"
  /\ Revoke(req[r].s)
  /\ Finish(r)
  /\ UNCHANGED <<staff, signIn, cache, views, history>>

(* touch writes the blob back; then PermissionsGuard keeps a view read-only *)
(* on the routes that require a permission.                                 *)
Touch(r) ==
  /\ req[r].at = "touch"
  /\ Save(req[r].s, req[r].blob)
  /\ IF req[r].kind \in {"POST", "view"} /\ Viewing(req[r].blob)
     THEN Finish(r) ELSE Goto(r, "serve")
  /\ UNCHANGED <<staff, signIn, index, cache, views, history>>

Logout(r) ==
  /\ req[r].at = "serve" /\ req[r].kind = "logout"
  /\ Revoke(req[r].s)
  /\ loggedOut' = loggedOut \cup {req[r].s}
  /\ Finish(r)
  /\ UNCHANGED <<staff, signIn, cache, views, verified>>

(* startImpersonation and endImpersonation read the session again, ...      *)
ReadAgain(r) ==
  /\ req[r].at = "serve" /\ req[r].kind \in {"view", "endView"}
  /\ LET blob == store[req[r].s]
         edited == [blob EXCEPT !.view = IF req[r].kind = "view" THEN r ELSE None]
     IN IF blob.live /\ edited # blob
        THEN req' = [req EXCEPT ![r] = [@ EXCEPT !.blob = edited, !.at = "write"]]
        ELSE IF req[r].kind = "view" THEN Finish(r) ELSE Goto(r, "row")
  /\ UNCHANGED <<staff, signIn, redis, cache, views, history>>

(* ... write it back with the view set or removed, ...                      *)
WriteView(r) ==
  /\ req[r].at = "write"
  /\ Save(req[r].s, req[r].blob)
  /\ Goto(r, "row")
  /\ UNCHANGED <<staff, signIn, index, cache, views, history>>

(* ... and open a row for the view, or close every row of this staff.       *)
RecordView(r) ==
  /\ req[r].at = "row"
  /\ openViews' = IF req[r].kind = "view" THEN openViews \cup {r} ELSE {}
  /\ Finish(r)
  /\ UNCHANGED <<staff, signIn, redis, cache, lapsed, history>>

ViewLapses(v) ==
  /\ v \in openViews \ lapsed
  /\ lapsed' = lapsed \cup {v}
  /\ UNCHANGED <<staff, signIn, redis, cache, req, openViews, history>>

(* changePassword bumps the epoch of the staff member's own row; update and *)
(* upsertRole, on behalf of another member of staff, bump it too, and       *)
(* update may suspend or reinstate the account.                             *)
BumpEpoch(r) ==
  /\ staff.epoch < MaxEpoch
  /\ \/ /\ req[r].at = "serve" /\ req[r].kind = "password"
        /\ staff' = [staff EXCEPT !.epoch = @ + 1]
        /\ Goto(r, "list")
     \/ /\ req[r] = Idle
        /\ \E active \in BOOLEAN : staff' = [epoch |-> staff.epoch + 1, active |-> active]
        /\ req' = [req EXCEPT ![r] = [Idle EXCEPT !.at = "list", !.kind = "edit"]]
  /\ UNCHANGED <<signIn, redis, cache, views, history>>

(* revokeAllForStaff: SMEMBERS, a revoke per id, DEL of the index. *)
ListIndex(r) ==
  /\ req[r].at = "list"
  /\ req' = [req EXCEPT ![r] = [@ EXCEPT !.left = index, !.at = "sweep"]]
  /\ UNCHANGED <<staff, signIn, redis, cache, views, history>>

Sweep(r) ==
  /\ req[r].at = "sweep"
  /\ \/ \E s \in req[r].left : Revoke(s) /\ req' = [req EXCEPT ![r].left = @ \ {s}]
     \/ req[r].left = {} /\ index' = {} /\ Finish(r) /\ UNCHANGED store
  /\ UNCHANGED <<staff, signIn, cache, views, history>>

(* A process stops, with its cache and the requests it was serving. *)
Restart(i) ==
  /\ cache' = [cache EXCEPT ![i] = EmptyCache]
  /\ req' = [r \in Requests |-> IF req[r].i = i THEN Finished(r) ELSE req[r]]
  /\ UNCHANGED <<staff, signIn, redis, views, history>>

Next ==
  \/ \E s \in Sessions : CheckPassword(s) \/ CreateSession(s) \/ IndexSession(s) \/ Expire(s)
  \/ \E r \in Requests, kind \in Kinds \ {"edit"}, s \in Sessions, i \in Instances :
       Receive(r, kind, s, i)
  \/ \E r \in Requests :
       \/ VerifyTotp(r) \/ LookUp(r) \/ Refuse(r) \/ Touch(r)
       \/ Logout(r) \/ ReadAgain(r) \/ WriteView(r) \/ RecordView(r) \/ ViewLapses(r)
       \/ BumpEpoch(r) \/ ListIndex(r) \/ Sweep(r)
  \/ \E i \in Instances :
       LoadReads(i) \/ LoadReturns(i) \/ LoadFails(i) \/ EntryLapses(i) \/ Restart(i)

Spec == Init /\ [][Next]_vars

--------------------------------------------------------------------------------
Served(r) ==
  req[r].at \in (IF req[r].kind = "edit" THEN {} ELSE {"serve", "write", "row", "list", "sweep"})

(* A session from before a change of role, status or password is worthless  *)
(* wherever the change is known: a request that arrives with one at a       *)
(* process that holds no earlier copy of the staff row is never served,     *)
(* whatever is cached, loaded, swept or written back while it waits (the    *)
(* epoch check of SessionGuard on top of TtlCache's shared loads).          *)
OutdatedIsShutOut == \A r \in Requests : req[r].known.outdated => ~Served(r)

(* Nobody is served without a second factor (login creates a session that   *)
(* SessionGuard turns away until verifyTotp has seen the code) ...          *)
SecondFactorFirst ==
  \A r \in Requests : Served(r) => req[r].s \in verified

(* ... and no write-back of an older copy of the session takes it away      *)
(* again: every concurrent writer of a session has read it verified, or     *)
(* writes it verified.                                                      *)
SecondFactorStays ==
  [][\A s \in Sessions : store[s].mfa /\ store'[s].live => store'[s].mfa]_vars

(* "A revoked session ends at once" (session.guard.ts:31): a request that   *)
(* arrives after its session has been logged out is not served.             *)
(* Not so: a request under way writes the session back (touch).             *)
RevokedEndsAtOnce == \A r \in Requests : req[r].known.loggedOut => ~Served(r)

(* "Impersonation is read-only, whatever the staff member's own permissions *)
(* say" (permissions.guard.ts:33): a write that arrives while its session   *)
(* has a view open is not served as long as the view stays open.            *)
(* Not so, for the same reason.                                             *)
ViewIsReadOnly ==
  \A r \in Requests : Served(r) /\ req[r].kind = "POST" =>
    req[r].known.onViews \cap (openViews \ lapsed) = {}
================================================================================
