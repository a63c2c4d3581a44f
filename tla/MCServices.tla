----------------------------- MODULE MCServices -----------------------------
(***************************************************************************)
(* An instance of Services.                                                *)
(***************************************************************************)
EXTENDS Services, TLC

CONSTANTS r1, r2, ea, eb, na, nb, pa, pb, ua, ub, uc, coin

\* Registrations, new links and codes, deaths; and an administrator's edits.
MCAllowances ==
  {[links |-> 3, edits |-> 0, mishaps |-> 1], [links |-> 2, edits |-> 1, mishaps |-> 0]}
\* Two days of a March, a day of another month, and one of the next March.
March(year) == [year |-> year, march |-> TRUE]
MCCalendar == <<March(1), March(1), [March(1) EXCEPT !.march = FALSE], March(2)>>
\* The coin is not listed, or alone, or one of two of its name.
MCMarkets == [Coins -> {<<>>, <<1>>, <<1, 2>>}]
Interchangeable ==
  Permutations(Requests) \cup Permutations(Emails) \cup Permutations(Usernames)
    \cup Permutations(Phones) \cup Permutations(Users)
=============================================================================
