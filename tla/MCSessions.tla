----------------------------- MODULE MCSessions -----------------------------
(***************************************************************************)
(* Instances of Sessions: each allowance gives the bounds of one theme, so *)
(* that the themes are explored side by side and not multiplied.           *)
(***************************************************************************)
EXTENDS Sessions, TLC

CONSTANTS r1, r2

Allow(login, fail, refresh, logout, change, reset, twofactor, abort) ==
  ("login" :> login) @@ ("fail" :> fail) @@ ("refresh" :> refresh) @@ ("logout" :> logout)
    @@ ("change" :> change) @@ ("reset" :> reset) @@ ("twofactor" :> twofactor) @@ ("abort" :> abort)

MCAllowances ==
  {Allow(2, 0, 3, 1, 0, 0, 0, 0),    \* rotation of two sessions, grace, logout
   Allow(2, 0, 2, 0, 1, 1, 0, 1),    \* a change or a reset among refreshes
   Allow(1, 6, 0, 0, 0, 0, 0, 1),    \* lock-out
   Allow(2, 1, 0, 0, 0, 0, 4, 0)}    \* two-factor enrolment
Interchangeable == Permutations(Requests)
=============================================================================
