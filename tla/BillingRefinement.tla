------------------------- MODULE BillingRefinement -------------------------
(***************************************************************************)
(* Billing implements PaymentLedger.  The refinement mapping reads the     *)
(* ledger off the tables and the requests in progress.                     *)
(***************************************************************************)
EXTENDS Billing

\* The promise of PaymentLedger, read off the tables: an approval takes
\* effect when the subscription is written, and a contested payment is out.
LedgerIds == 1 .. MaxPayments
LedgerStatus ==
  [p \in LedgerIds |->
     IF p > Len(payments) THEN "absent"
     ELSE IF p \in contested THEN "contested"
     ELSE IF Granting(p) # {} \/ payments[p].status = "COMPLETED" THEN "approved"
     ELSE IF payments[p].status = "REJECTED" THEN "rejected" ELSE "open"]
LedgerEntitled == {p \in DOMAIN payments \ contested : grants[p] = 1}

Ledger == INSTANCE PaymentLedger
            WITH Ids <- LedgerIds, status <- LedgerStatus, entitled <- LedgerEntitled

\* Billing implements the ledger: every handler step decides one payment,
\* takes it out of the promise, or leaves the ledger alone.
ImplementsLedger == Ledger!Spec
=============================================================================
