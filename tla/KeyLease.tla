-------------------------------- MODULE KeyLease --------------------------------
(***************************************************************************)
(* What the console promises of an Idempotency-Key                         *)
(* (src/src/common/idempotency/idempotency.interceptor.ts:20-29 and 92-96), *)
(* without the reads and writes it takes to keep it: a key is let to one    *)
(* call at a time; the holder's result is filed under the key before the    *)
(* holder is told it; others are told what is filed, for the same payload;  *)
(* and a key is given back only by a holder that has been told nothing.     *)
(***************************************************************************)
CONSTANTS Keys, Bodies, Calls, None

VARIABLES lease,  \* who holds each key, for which payload, and whether the result is filed
          acted,  \* the calls whose handler has taken effect
          told    \* whose result each caller was given, under which key and payload

Free == [holder |-> None, body |-> None, filed |-> FALSE]

Nothing == [key |-> None, body |-> None, from |-> None]

Init ==
  /\ lease = [k \in Keys |-> Free]
  /\ acted = {}
  /\ told = [c \in Calls |-> Nothing]

Result(k) == [key |-> k, body |-> lease[k].body, from |-> lease[k].holder]

(* A call that has had no key is let a free one. *)
Let(k, c, body) ==
  /\ lease[k] = Free
  /\ c \notin acted /\ told[c] = Nothing /\ \A j \in Keys : lease[j].holder # c
  /\ lease' = [lease EXCEPT ![k] = [holder |-> c, body |-> body, filed |-> FALSE]]
  /\ UNCHANGED <<acted, told>>

(* The holder's handler takes effect, once. *)
Act(k) ==
  /\ lease[k].holder \in Calls \ acted /\ ~lease[k].filed
  /\ acted' = acted \cup {lease[k].holder}
  /\ UNCHANGED <<lease, told>>

(* Its result is filed, and it is told, or never will be. *)
File(k) ==
  /\ lease[k].holder \in acted /\ ~lease[k].filed
  /\ lease' = [lease EXCEPT ![k].filed = TRUE]
  /\ told' \in {told, [told EXCEPT ![lease[k].holder] = Result(k)]}
  /\ UNCHANGED acted

GiveBack(k) ==
  /\ lease[k].holder \in Calls /\ told[lease[k].holder] = Nothing
  /\ lease' = [lease EXCEPT ![k] = Free]
  /\ UNCHANGED <<acted, told>>

(* A caller with the same payload is told what is filed. *)
Replay(k, c) ==
  /\ lease[k].filed /\ c # lease[k].holder /\ told[c] = Nothing
  /\ told' = [told EXCEPT ![c] = Result(k)]
  /\ UNCHANGED <<lease, acted>>

Next ==
  \E k \in Keys :
    \/ Act(k) \/ File(k) \/ GiveBack(k)
    \/ \E c \in Calls : Replay(k, c) \/ \E body \in Bodies : Let(k, c, body)

Spec == Init /\ [][Next]_<<lease, acted, told>>
================================================================================
