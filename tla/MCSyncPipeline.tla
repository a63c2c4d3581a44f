--------------------------- MODULE MCSyncPipeline ---------------------------
(* Instances of the synchronisation pipeline for TLC.                      *)
EXTENDS SyncPipeline, TLC

CONSTANTS c1, c2, a1, a2, m1, i1, i2, i3, k1, k2, k3

OneAccount == [c \in Connections |-> a1]

\* A transaction of an account and a file with a good row and a malformed one,
\* each under a key of its own.
AccountAndFile == i1 :> a1 @@ i2 :> m1 @@ i3 :> m1
OwnKeys == i1 :> k1 @@ i2 :> k2 @@ i3 :> k3

\* Two wallets of one user and the transfer from the first to the second: each
\* shows it, and the client names it by the hash of the transaction.
TwoAccounts == c1 :> a1 @@ c2 :> a2
TwoSides == i1 :> a1 @@ i2 :> a2
OneHash == i1 :> k1 @@ i2 :> k1

\* One transaction of the account.
OfAccount == i1 :> a1
ItsKey == i1 :> k1
=============================================================================
