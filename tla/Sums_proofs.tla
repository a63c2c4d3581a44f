----------------------------- MODULE Sums_proofs -----------------------------
(***************************************************************************)
(* Induction over the numbers by a least counterexample, functions defined *)
(* by recursion, and the sums of Sums.                                     *)
(***************************************************************************)
EXTENDS Sums, WellFoundedInduction, TLAPS

LEMMA LeastNumber ==
  ASSUME NEW T \in SUBSET Nat, T # {}
  PROVE  \E n \in T : \A m \in T : n <= m
  <1> DEFINE R == OpToRel(<, Nat)
  <1>1. IsWellFoundedOn(R, Nat)
    BY NatLessThanWellFounded
  <1>2. \A x, y \in Nat : <<y, x>> \in R <=> y < x
    BY DEF OpToRel
  <1> HIDE DEF R
  <1>3. \E x \in T : \A y \in T : ~ (<<y, x>> \in R)
    BY <1>1, WFMin
  <1>4. PICK n \in T : \A y \in T : ~ (<<y, n>> \in R)
    BY <1>3
  <1>5. ASSUME NEW m \in T PROVE n <= m
    <2>1. ~ (m < n) /\ m \in Nat /\ n \in Nat
      BY <1>2, <1>4
    <2> QED BY <2>1
  <1> QED BY <1>5

\* A set of numbers that holds 0, and with every number the next one.
LEMMA SetInduction ==
  ASSUME NEW S, 0 \in S, \A n \in Nat : n \in S => n + 1 \in S
  PROVE  \A n \in Nat : n \in S
  <1> SUFFICES ASSUME Nat \ S # {} PROVE FALSE
    OBVIOUS
  <1>1. PICK n \in Nat \ S : \A m \in Nat \ S : n <= m
    BY LeastNumber
  <1>2. n # 0
    OBVIOUS
  <1>3. n - 1 \in Nat /\ (n - 1) + 1 = n /\ ~ (n <= n - 1)
    BY <1>1, <1>2
  <1>4. n - 1 \in S
    BY <1>1, <1>3
  <1> QED BY <1>3, <1>4

\* Induction up to a bound.
LEMMA BoundedInduction ==
  ASSUME NEW N \in Nat, NEW S, 0 \in S,
         \A n \in 1..N : n - 1 \in S => n \in S
  PROVE  \A n \in 0..N : n \in S
  <1> DEFINE T == {n \in Nat : n <= N => n \in S}
  <1>1. 0 \in T
    OBVIOUS
  <1>2. ASSUME NEW n \in Nat, n \in T PROVE n + 1 \in T
    <2> SUFFICES ASSUME n + 1 <= N PROVE n + 1 \in S
      OBVIOUS
    <2>1. n + 1 \in 1..N /\ (n + 1) - 1 = n /\ n <= N
      OBVIOUS
    <2>2. n \in S
      BY <1>2, <2>1
    <2> QED BY <2>1, <2>2
  <1>3. \A n \in Nat : n \in T
    <2> HIDE DEF T
    <2> QED BY <1>1, <1>2, SetInduction
  <1> QED BY <1>3

----------------------------------------------------------------------------
\* Functions defined by recursion

\* s runs through the values that step makes of one another, from 0 on.
Runs(s, step, n) ==
  /\ s \in [0..n -> Int]
  /\ s[0] = 0
  /\ \A k \in 1..n : s[k] = step[k][s[k - 1]]

LEMMA RecursionExists ==
  ASSUME NEW n \in Nat, NEW step \in [1..n -> [Int -> Int]]
  PROVE  \E s : Runs(s, step, n)
  <1> DEFINE S == {m \in 0..n : \E s : Runs(s, step, m)}
  <1>1. 0 \in S
    <2>1. Runs([k \in 0..0 |-> 0], step, 0)
      BY DEF Runs
    <2> QED BY <2>1
  <1>2. ASSUME NEW m \in 1..n, m - 1 \in S PROVE m \in S
    <2>1. PICK s : Runs(s, step, m - 1)
      BY <1>2
    <2> DEFINE t == [k \in 0..m |-> IF k = m THEN step[m][s[m - 1]] ELSE s[k]]
    <2>2. m - 1 \in 0..(m - 1) /\ s[m - 1] \in Int
      BY <1>2, <2>1 DEF Runs
    <2>3. step[m][s[m - 1]] \in Int
      BY <1>2, <2>2
    <2>4. \A k \in 0..m : k # m => k \in 0..(m - 1)
      BY <1>2
    <2>5. t \in [0..m -> Int] /\ t[0] = 0
      <3>1. \A k \in 0..m : t[k] \in Int
        BY <2>1, <2>3, <2>4 DEF Runs
      <3>2. 0 \in 0..m /\ 0 # m /\ s[0] = 0
        BY <2>1 DEF Runs
      <3> QED BY <3>1, <3>2
    <2>6. ASSUME NEW k \in 1..m PROVE t[k] = step[k][t[k - 1]]
      <3>1. k - 1 \in 0..(m - 1) /\ k - 1 \in 0..m /\ k \in 0..m /\ k - 1 # m
        BY <1>2
      <3>2. CASE k = m
        BY <3>1, <3>2
      <3>3. CASE k # m
        <4>1. k \in 1..(m - 1)
          BY <1>2, <3>3
        <4> QED BY <2>1, <3>1, <3>3, <4>1 DEF Runs
      <3> QED BY <3>2, <3>3
    <2> HIDE DEF t
    <2>7. Runs(t, step, m) /\ m \in 0..n
      BY <2>5, <2>6 DEF Runs
    <2> QED BY <2>7
  <1>3. n \in S
    <2> HIDE DEF S
    <2>1. \A m \in 0..n : m \in S
      BY <1>1, <1>2, BoundedInduction
    <2> QED BY <2>1
  <1> QED BY <1>3

\* Two runs of the same steps agree as far as both go.
LEMMA RunsAgree ==
  ASSUME NEW n \in Nat, NEW m \in 0..n, NEW step, NEW s, NEW t,
         Runs(s, step, n), Runs(t, step, m)
  PROVE  \A k \in 0..m : s[k] = t[k]
  <1> DEFINE S == {k \in 0..m : s[k] = t[k]}
  <1>1. 0 \in S
    BY DEF Runs
  <1>2. ASSUME NEW k \in 1..m, k - 1 \in S PROVE k \in S
    BY <1>2 DEF Runs
  <1>3. \A k \in 0..m : k \in S
    <2> HIDE DEF S
    <2> QED BY <1>1, <1>2, BoundedInduction
  <1> QED BY <1>3

\* What is chosen to satisfy the recursion runs.
LEMMA RunsChosen ==
  ASSUME NEW n \in Nat, NEW step \in [1..n -> [Int -> Int]], NEW s,
         s = [k \in 0..n |-> s[k]], s[0] = 0,
         \A k \in 1..n : s[k - 1] \in Int => s[k] = step[k][s[k - 1]]
  PROVE  Runs(s, step, n)
  <1> DEFINE S == {k \in 0..n : s[k] \in Int}
  <1>1. 0 \in S
    OBVIOUS
  <1>2. ASSUME NEW k \in 1..n, k - 1 \in S PROVE k \in S
    <2>1. s[k - 1] \in Int /\ s[k] = step[k][s[k - 1]]
      BY <1>2
    <2>2. step[k] \in [Int -> Int]
      OBVIOUS
    <2>3. s[k] \in Int /\ k \in 0..n
      BY <2>1, <2>2
    <2> QED BY <2>3
  <1>3. \A k \in 0..n : k \in S
    <2> HIDE DEF S
    <2> QED BY <1>1, <1>2, BoundedInduction
  <1>4. s \in [0..n -> Int]
    <2>1. \A k \in 0..n : s[k] \in Int
      BY <1>3
    <2> QED BY <2>1
  <1>5. \A k \in 1..n : k - 1 \in 0..n
    OBVIOUS
  <1> QED BY <1>4, <1>5 DEF Runs

----------------------------------------------------------------------------
\* Sums

At(f, k) == IF k \in DOMAIN f THEN f[k] ELSE 0
Adding(f, n) == [k \in 1..n |-> [x \in Int |-> x + At(f, k)]]

Summable(f) == \A k \in DOMAIN f : f[k] \in Int

LEMMA AtType ==
  ASSUME NEW f, Summable(f), NEW k
  PROVE  At(f, k) \in Int
  BY DEF At, Summable

LEMMA SumRuns ==
  ASSUME NEW n \in Nat, NEW f, Summable(f)
  PROVE  \E s : Runs(s, Adding(f, n), n) /\ SumTo(f, n) = s[n]
  <1>1. Adding(f, n) \in [1..n -> [Int -> Int]]
    BY AtType DEF Adding
  <1> DEFINE Eq(s) == s = [k \in 0..n |-> IF k = 0 THEN 0 ELSE s[k - 1] + At(f, k)]
             sum == CHOOSE s : Eq(s)
  <1>2. \A s : Runs(s, Adding(f, n), n) => Eq(s)
    <2> TAKE s
    <2> HAVE Runs(s, Adding(f, n), n)
    <2>1. s \in [0..n -> Int] /\ s[0] = 0
      BY DEF Runs
    <2>2. ASSUME NEW k \in 0..n, k # 0 PROVE s[k] = s[k - 1] + At(f, k)
      <3>1. k \in 1..n /\ k - 1 \in 0..n
        BY <2>2
      <3>2. s[k - 1] \in Int
        BY <2>1, <3>1
      <3> QED BY <3>1, <3>2 DEF Runs, Adding
    <2> QED BY <2>1, <2>2
  <1>3. \E s : Eq(s)
    BY <1>1, <1>2, RecursionExists
  <1>4. Eq(sum)
    <2> HIDE DEF Eq
    <2> QED BY <1>3
  <1>5. SumTo(f, n) = sum[n]
    BY DEF SumTo, At
  <1>6. /\ sum = [k \in 0..n |-> sum[k]] /\ sum[0] = 0
        /\ \A k \in 1..n : sum[k] = sum[k - 1] + At(f, k)
    <2> HIDE DEF sum
    <2>1. \A k \in 1..n : k \in 0..n /\ k # 0
      OBVIOUS
    <2> QED BY <1>4, <2>1
  <1>7. Runs(sum, Adding(f, n), n)
    <2> HIDE DEF sum
    <2>1. \A k \in 1..n : sum[k - 1] \in Int => sum[k] = Adding(f, n)[k][sum[k - 1]]
      BY <1>6 DEF Adding
    <2> QED BY <1>1, <1>6, <2>1, RunsChosen
  <1> HIDE DEF sum
  <1> QED BY <1>5, <1>7

LEMMA SumStep ==
  ASSUME NEW n \in Nat, NEW f, Summable(f)
  PROVE  /\ SumTo(f, n) \in Int
         /\ SumTo(f, 0) = 0
         /\ n > 0 => SumTo(f, n) = SumTo(f, n - 1) + At(f, n)
  <1>1. PICK s : Runs(s, Adding(f, n), n) /\ SumTo(f, n) = s[n]
    BY SumRuns
  <1>2. SumTo(f, n) \in Int
    BY <1>1 DEF Runs
  <1>3. SumTo(f, 0) = 0
    BY SumRuns DEF Runs
  <1>4. ASSUME n > 0 PROVE SumTo(f, n) = SumTo(f, n - 1) + At(f, n)
    <2>1. n - 1 \in Nat /\ n - 1 \in 0..n /\ n \in 1..n
      BY <1>4
    <2>2. PICK t : Runs(t, Adding(f, n - 1), n - 1) /\ SumTo(f, n - 1) = t[n - 1]
      BY <2>1, SumRuns
    <2>3. Runs(t, Adding(f, n), n - 1)
      <3>1. \A k \in 1..(n - 1) : k \in 1..n /\ t[k - 1] \in Int
        BY <2>2 DEF Runs
      <3> QED BY <2>2, <3>1 DEF Runs, Adding
    <2>4. s[n - 1] = t[n - 1]
      BY <1>1, <2>1, <2>3, RunsAgree
    <2>5. s[n - 1] \in Int /\ s[n] = s[n - 1] + At(f, n)
      BY <1>1, <2>1 DEF Runs, Adding
    <2> QED BY <1>1, <2>2, <2>4, <2>5
  <1> QED BY <1>2, <1>3, <1>4

\* A sum of numbers that are not negative.
LEMMA SumIsNat ==
  ASSUME NEW n \in Nat, NEW f, \A k \in DOMAIN f : f[k] \in Nat
  PROVE  SumTo(f, n) \in Nat
  <1>0. Summable(f) /\ \A k : At(f, k) \in Nat
    BY DEF Summable, At
  <1> DEFINE S == {m \in 0..n : SumTo(f, m) \in Nat}
  <1>1. 0 \in S
    BY <1>0, SumStep
  <1>2. ASSUME NEW m \in 1..n, m - 1 \in S PROVE m \in S
    <2>1. m \in Nat /\ m > 0
      OBVIOUS
    <2>2. SumTo(f, m) = SumTo(f, m - 1) + At(f, m)
      BY <1>0, <2>1, SumStep
    <2> QED BY <1>0, <1>2, <2>2
  <1>3. \A m \in 0..n : m \in S
    <2> HIDE DEF S
    <2> QED BY <1>1, <1>2, BoundedInduction
  <1> QED BY <1>3

\* Summands that are nowhere greater.
LEMMA SumGrows ==
  ASSUME NEW n \in Nat, NEW f, NEW g, Summable(f), Summable(g),
         \A k \in 1..n : At(f, k) <= At(g, k)
  PROVE  SumTo(f, n) <= SumTo(g, n)
  <1> DEFINE S == {m \in 0..n : SumTo(f, m) <= SumTo(g, m)}
  <1>1. 0 \in S
    BY SumStep
  <1>2. ASSUME NEW m \in 1..n, m - 1 \in S PROVE m \in S
    <2>1. m \in Nat /\ m > 0 /\ m - 1 \in Nat
      OBVIOUS
    <2>2. /\ SumTo(f, m) = SumTo(f, m - 1) + At(f, m)
          /\ SumTo(g, m) = SumTo(g, m - 1) + At(g, m)
          /\ SumTo(f, m - 1) \in Int /\ SumTo(g, m - 1) \in Int
      BY <2>1, SumStep
    <2>3. At(f, m) \in Int /\ At(g, m) \in Int
      BY AtType
    <2>4. SumTo(f, m - 1) <= SumTo(g, m - 1) /\ At(f, m) <= At(g, m)
      BY <1>2
    <2> QED BY <2>2, <2>3, <2>4
  <1>3. \A m \in 0..n : m \in S
    <2> HIDE DEF S
    <2> QED BY <1>1, <1>2, BoundedInduction
  <1> QED BY <1>3

\* Summands that differ in one place.
LEMMA SumDiffers ==
  ASSUME NEW n \in Nat, NEW f, NEW g, Summable(f), Summable(g), NEW i \in 1..n,
         \A k \in 1..n : k # i => At(g, k) = At(f, k)
  PROVE  SumTo(g, n) = SumTo(f, n) + At(g, i) - At(f, i)
  <1> DEFINE S == {m \in 0..n : SumTo(g, m) = IF m < i THEN SumTo(f, m)
                                              ELSE SumTo(f, m) + At(g, i) - At(f, i)}
  <1>1. 0 \in S
    BY SumStep
  <1>2. ASSUME NEW m \in 1..n, m - 1 \in S PROVE m \in S
    <2>1. m \in Nat /\ m > 0 /\ m - 1 \in Nat /\ i \in Nat
      OBVIOUS
    <2>2. /\ SumTo(f, m) = SumTo(f, m - 1) + At(f, m)
          /\ SumTo(g, m) = SumTo(g, m - 1) + At(g, m)
          /\ SumTo(f, m - 1) \in Int /\ SumTo(g, m - 1) \in Int
      BY <2>1, SumStep
    <2>3. /\ At(f, m) \in Int /\ At(g, m) \in Int /\ At(f, i) \in Int /\ At(g, i) \in Int
          /\ m # i => At(g, m) = At(f, m)
      BY AtType
    <2>4. SumTo(g, m - 1) = IF m - 1 < i THEN SumTo(f, m - 1)
                            ELSE SumTo(f, m - 1) + At(g, i) - At(f, i)
      BY <1>2
    <2>5. CASE m < i
      BY <2>1, <2>2, <2>3, <2>4, <2>5
    <2>6. CASE m = i
      BY <2>1, <2>2, <2>3, <2>4, <2>6
    <2>7. CASE m > i
      BY <2>1, <2>2, <2>3, <2>4, <2>7
    <2> QED BY <2>1, <2>5, <2>6, <2>7
  <1>3. \A m \in 0..n : m \in S
    <2> HIDE DEF S
    <2> QED BY <1>1, <1>2, BoundedInduction
  <1> QED BY <1>3

\* Nothing to add.
LEMMA SumEmpty ==
  ASSUME NEW n \in Nat, NEW f, Summable(f), \A k : At(f, k) = 0
  PROVE  SumTo(f, n) = 0
  <1> DEFINE S == {m \in 0..n : SumTo(f, m) = 0}
  <1>1. 0 \in S
    BY SumStep
  <1>2. ASSUME NEW m \in 1..n, m - 1 \in S PROVE m \in S
    <2>1. m \in Nat /\ m > 0
      OBVIOUS
    <2> QED BY <1>2, <2>1, SumStep
  <1>3. \A m \in 0..n : m \in S
    <2> HIDE DEF S
    <2> QED BY <1>1, <1>2, BoundedInduction
  <1> QED BY <1>3

\* Summands that do not differ.
LEMMA SumAgrees ==
  ASSUME NEW n \in Nat, NEW f, NEW g, Summable(f), Summable(g),
         \A k \in 1..n : At(g, k) = At(f, k)
  PROVE  SumTo(g, n) = SumTo(f, n)
  <1>1. \A k \in 1..n : At(f, k) \in Int /\ At(f, k) <= At(g, k) /\ At(g, k) <= At(f, k)
    BY AtType
  <1>2. SumTo(f, n) <= SumTo(g, n) /\ SumTo(g, n) <= SumTo(f, n)
    BY <1>1, SumGrows
  <1> QED BY <1>2, SumStep
=============================================================================
