---------------------------- MODULE TwoPersonLedger ----------------------------
(***************************************************************************)
(* What the credit desk promises, whatever the console does to keep it     *)
(* (src/src/modules/credits/credits.service.ts:23-27): an adjustment is    *)
(* raised once, a large one is signed off by somebody who did not raise    *)
(* it, and only then does its money move - at most one time.               *)
(***************************************************************************)
EXTENDS Naturals, Sequences

CONSTANTS Adjustments,  \* the adjustments that can be raised
          Staff,        \* the members of staff
          NoOne,        \* nobody, where a member of staff is expected
          Amounts,      \* the amounts an adjustment can be for
          Threshold,    \* creditApprovalThresholdNgn
          Keys          \* what a posting is filed under

VARIABLES sheet,        \* who raised and who signed off each adjustment
          ledger        \* the postings: what the wallets really received

Unraised == [amount |-> 0, requestedBy |-> NoOne, approvedBy |-> NoOne]

Large(amount) == amount > Threshold

(* A small adjustment needs no second person. *)
SignedOff(s) ==
  /\ s.requestedBy # NoOne
  /\ Large(s.amount) => s.approvedBy \notin {NoOne, s.requestedBy}

Init == sheet = [a \in Adjustments |-> Unraised] /\ ledger = <<>>

Raise(a, s, amount) ==
  /\ sheet[a] = Unraised
  /\ sheet' = [sheet EXCEPT ![a] = [amount |-> amount, requestedBy |-> s,
                                    approvedBy |-> IF Large(amount) THEN NoOne ELSE s]]
  /\ UNCHANGED ledger

SignOff(a, s) ==
  /\ sheet[a].requestedBy \notin {NoOne, s}
  /\ sheet' = [sheet EXCEPT ![a].approvedBy = s]
  /\ UNCHANGED ledger

Move(a, k) ==
  /\ SignedOff(sheet[a])
  /\ \A i \in DOMAIN ledger : ledger[i].adjustment # a
  /\ ledger' = Append(ledger, [key |-> k, adjustment |-> a, amount |-> sheet[a].amount])
  /\ UNCHANGED sheet

Next ==
  \E a \in Adjustments :
    \/ \E s \in Staff, amount \in Amounts : Raise(a, s, amount)
    \/ \E s \in Staff : SignOff(a, s)
    \/ \E k \in Keys : Move(a, k)

Spec == Init /\ [][Next]_<<sheet, ledger>>
================================================================================
