--------------------------- MODULE PaymentLedger ---------------------------
(***************************************************************************)
(* What payment approval promises the customer, without handlers, tables   *)
(* or queries: a payment that is opened is decided once, and the customer  *)
(* is entitled exactly by the approved ones.  A payment that two decisions *)
(* fight over (or whose approval dies half way) leaves the promise.        *)
(***************************************************************************)
CONSTANT Ids

VARIABLES
  status,     \* [Ids -> state of the payment]
  entitled    \* payments that have bought their period or plan switch

ledger == <<status, entitled>>

States == {"absent", "open", "approved", "rejected", "contested"}

Init ==
  /\ status = [p \in Ids |-> "absent"]
  /\ entitled = {}

Open(p) ==
  /\ status[p] = "absent"
  /\ status' = [status EXCEPT ![p] = "open"]
  /\ UNCHANGED entitled

Approve(p) ==
  /\ status[p] = "open"
  /\ status' = [status EXCEPT ![p] = "approved"]
  /\ entitled' = entitled \cup {p}

Reject(p) ==
  /\ status[p] = "open"
  /\ status' = [status EXCEPT ![p] = "rejected"]
  /\ UNCHANGED entitled

Contest(p) ==
  /\ status[p] \in {"open", "approved"}
  /\ status' = [status EXCEPT ![p] = "contested"]
  /\ entitled' = entitled \ {p}

Next == \E p \in Ids : Open(p) \/ Approve(p) \/ Reject(p) \/ Contest(p)

Spec == Init /\ [][Next]_ledger
=============================================================================
