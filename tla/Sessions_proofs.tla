-------------------------- MODULE Sessions_proofs --------------------------
(***************************************************************************)
(* Proofs about Sessions, for any number of requests, any limits and any   *)
(* allowances.  Who holds a session across a change of password is told    *)
(* from what each request read before: its locals are part of the          *)
(* invariant, next to the live tokens.                                     *)
(***************************************************************************)
EXTENDS Sessions, FiniteSetTheorems, TLAPS

----------------------------------------------------------------------------
\* Locals.

LEMMA LocalFields ==
  ASSUME NEW w \in Local
  PROVE  /\ w.token \in Nat /\ w.session \in Nat /\ w.known \in Nat /\ w.excused \in BOOLEAN
         /\ w.admitted \in BOOLEAN /\ w.link \in Nat \cup {Nil} /\ w.secret \in Nat \cup {Nil}
BY DEF Local

LEMMA TokenFields ==
  ASSUME NEW t \in TokenRow
  PROVE  /\ t.revokedAt \in Nat \cup {Nil} /\ t.expiresAt \in Nat /\ t.session \in Nat \ {0}
         /\ t.replaced \in BOOLEAN /\ t.known \in Nat /\ t.excused \in BOOLEAN
BY DEF TokenRow

LEMMA UserFields ==
  ASSUME NEW u \in UserRow
  PROVE  /\ u.password \in Nat /\ u.failed \in Nat /\ u.enabled \in BOOLEAN
         /\ u.secret \in Nat \cup {Nil} /\ u.resetLink \in Nat \cup {Nil}
         /\ u.resetExpires \in Nat \cup {Nil} /\ u.lockedUntil \in Nat \cup {Nil}
BY DEF UserRow

LEMMA NoWorkType == NoWork \in Local
BY DEF NoWork, Local

\* Locals change as a whole; those of other requests stay.
LEMMA GotoShape ==
  ASSUME TypeOK, NEW r \in Requests, NEW step \in Steps \ {"idle"}, NEW w \in Local,
         Goto(r, step, w)
  PROVE  /\ pc' \in [Requests -> Steps] /\ work' \in [Requests -> Local \cup {Nil}]
         /\ \A q \in Requests : work'[q] = Nil <=> pc'[q] = "idle"
         /\ pc'[r] = step /\ work'[r] = w
         /\ \A q \in Requests \ {r} : pc'[q] = pc[q] /\ work'[q] = work[q]
BY NilAssumption DEF TypeOK, Goto

LEMMA FinishShape ==
  ASSUME TypeOK, NEW r \in Requests, Finish(r)
  PROVE  /\ pc' \in [Requests -> Steps] /\ work' \in [Requests -> Local \cup {Nil}]
         /\ \A q \in Requests : work'[q] = Nil <=> pc'[q] = "idle"
         /\ pc'[r] = "idle"
         /\ \A q \in Requests \ {r} : pc'[q] = pc[q] /\ work'[q] = work[q]
BY NilAssumption DEF TypeOK, Finish, Goto, Steps

LEMMA BusyLocal ==
  ASSUME TypeOK, NEW r \in Requests, pc[r] # "idle" PROVE work[r] \in Local
BY DEF TypeOK

LEMMA SpendType ==
  ASSUME TypeOK, NEW kind \in Kinds, Spend(kind) PROVE left' \in [Kinds -> Nat]
BY DEF TypeOK, Spend

LEMMA TokensAre ==
  ASSUME TypeOK
  PROVE  /\ Len(tokens) \in Nat /\ DOMAIN tokens = 1..Len(tokens)
         /\ \A t \in DOMAIN tokens : tokens[t] \in TokenRow
BY DEF TypeOK

LEMMA ClockIs == ASSUME TypeOK PROVE clock \in Nat /\ clock \in 0..MaxTime
BY LimitAssumption DEF TypeOK

LEMMA RevokedType ==
  ASSUME TypeOK, NEW k \in TokenRow
  PROVE  /\ Revoked(k) \in TokenRow /\ Revoked(k).revokedAt # Nil
         /\ Revoked(k).known = k.known /\ Revoked(k).excused = k.excused
<1>1. clock \in Nat /\ clock # Nil
  BY ClockIs, AllowanceAssumption
<1> QED
  BY <1>1 DEF Revoked, TokenRow

LEMMA RevokeAllShape ==
  ASSUME TypeOK, RevokeAll
  PROVE  /\ tokens' \in Seq(TokenRow) /\ DOMAIN tokens' = DOMAIN tokens /\ Len(tokens') = Len(tokens)
         /\ \A t \in DOMAIN tokens : tokens'[t] = Revoked(tokens[t])
<1>1. Len(tokens) \in Nat /\ DOMAIN tokens = 1..Len(tokens)
        /\ \A t \in 1..Len(tokens) : Revoked(tokens[t]) \in TokenRow
  BY TokensAre, RevokedType
<1>2. tokens' = [t \in 1..Len(tokens) |-> Revoked(tokens[t])]
  BY <1>1 DEF RevokeAll
<1> QED
  BY <1>1, <1>2

LEMMA PresentedType ==
  ASSUME TypeOK, NEW t \in DOMAIN tokens
  PROVE  /\ Presented(t) \in Local /\ Presented(t).token = t
         /\ Presented(t).known = tokens[t].known /\ Presented(t).excused = tokens[t].excused
<1>1. t \in Nat /\ tokens[t] \in TokenRow
  BY TokensAre
<1>2. tokens[t].session \in Nat /\ tokens[t].known \in Nat /\ tokens[t].excused \in BOOLEAN
  BY <1>1, TokenFields
<1> QED
  BY <1>1, <1>2 DEF Presented, NoWork, Local

----------------------------------------------------------------------------
\* Types.  What the locals name exists: the token to be replaced, the session
\* a token is issued for.
LocalsReady ==
  \A r \in Requests :
    /\ pc[r] = "rotate" => work[r].token \in DOMAIN tokens
    /\ pc[r] \in {"issue", "login:reset", "rotate", "current"} => work[r].session # 0

Shape == TypeOK /\ LocalsReady

\* The whole state but for the requests keeps its type.
RowsOK ==
  /\ clock' \in 0..MaxTime /\ user' \in UserRow /\ tokens' \in Seq(TokenRow)
  /\ DOMAIN tokens \subseteq DOMAIN tokens'
  /\ left' \in [Kinds -> Nat] /\ sessions' \in Nat /\ secrets' \in Nat
  /\ forked' \in SUBSET Nat /\ cutShort' \in BOOLEAN /\ lockLost' \in BOOLEAN
  /\ confirmed' \in SUBSET Nat /\ tangled' \in BOOLEAN

NextReady(r) ==
  /\ pc'[r] = "rotate" => work'[r].token \in DOMAIN tokens'
  /\ pc'[r] \in {"issue", "login:reset", "rotate", "current"} => work'[r].session # 0

LEMMA ShapeFrom ==
  ASSUME Shape, NEW r \in Requests, RowsOK, NextReady(r),
         pc' \in [Requests -> Steps], work' \in [Requests -> Local \cup {Nil}],
         \A q \in Requests : work'[q] = Nil <=> pc'[q] = "idle",
         \A q \in Requests \ {r} : pc'[q] = pc[q] /\ work'[q] = work[q]
  PROVE  Shape'
<1>1. TypeOK'
  BY DEF RowsOK, TypeOK
<1>2. LocalsReady'
  BY DEF RowsOK, Shape, LocalsReady, NextReady
<1> QED
  BY <1>1, <1>2 DEF Shape

\* When only the allowance is spent.
LEMMA RowsRest ==
  ASSUME TypeOK, UNCHANGED <<clock, user, tokens, sessions, secrets, history>>,
         left' \in [Kinds -> Nat]
  PROVE  RowsOK
BY DEF TypeOK, RowsOK, history

\* A request moves on, and only the allowance is spent.
LEMMA MoveShape ==
  ASSUME Shape, NEW r \in Requests, NEW step \in Steps \ {"idle"}, NEW w \in Local,
         Goto(r, step, w), UNCHANGED <<clock, user, tokens, sessions, secrets, history>>,
         left' \in [Kinds -> Nat],
         step = "rotate" => w.token \in DOMAIN tokens,
         step \in {"issue", "login:reset", "rotate", "current"} => w.session # 0
  PROVE  Shape'
<1>1. NextReady(r)
  BY GotoShape DEF Shape, NextReady
<1> QED
  BY <1>1, RowsRest, GotoShape, ShapeFrom DEF Shape

LEMMA EndShape ==
  ASSUME Shape, NEW r \in Requests, Finish(r), RowsOK
  PROVE  Shape'
BY FinishShape, ShapeFrom DEF Shape, NextReady

\* A request moves on after writing the user row.
LEMMA WriteUserShape ==
  ASSUME Shape, NEW r \in Requests, user' \in UserRow,
         UNCHANGED <<clock, tokens, left, sessions, secrets, forked, cutShort, lockLost, confirmed>>,
         tangled' \in BOOLEAN
  PROVE  RowsOK
BY DEF Shape, TypeOK, RowsOK

LEMMA LoginShape ==
  ASSUME Shape, NEW r \in Requests, Login(r)
  PROVE  Shape'
<1> USE DEF Shape
<1>0. left \in [Kinds -> Nat] /\ user \in UserRow /\ sessions \in Nat
  BY DEF TypeOK
<1>1. CASE BeginFailingLogin(r)
  BY <1>1, NoWorkType, SpendType, MoveShape DEF BeginFailingLogin, Kinds, Steps
<1>2. CASE CountFailure(r)
  <2>1. user' \in UserRow /\ work[r] \in Local
    BY <1>0, <1>2, UserFields, BusyLocal DEF CountFailure, UserRow
  <2>2. RowsOK
    BY <1>2, <2>1, WriteUserShape DEF CountFailure, history, TypeOK
  <2>3. CASE Goto(r, "fail:lock", work[r])
    BY <2>1, <2>2, <2>3, GotoShape, ShapeFrom DEF Steps, NextReady
  <2>4. CASE Finish(r)
    BY <2>2, <2>4, EndShape
  <2> QED
    BY <1>2, <2>3, <2>4 DEF CountFailure
<1>3. CASE LockUser(r)
  <2>1. clock + LOCKOUT \in Nat
    BY ClockIs, LimitAssumption
  <2>2. user' \in UserRow
    BY <1>0, <1>3, <2>1 DEF LockUser, UserRow
  <2>3. RowsOK
    BY <1>3, <2>2, WriteUserShape DEF LockUser, history, TypeOK
  <2> QED
    BY <1>3, <2>3, EndShape DEF LockUser
<1>4. CASE BeginLogin(r)
  <2> PICK admitted \in BOOLEAN :
        Goto(r, IF user.failed > 0 THEN "login:reset" ELSE "issue",
             [NoWork EXCEPT !.known = user.password, !.session = sessions + 1,
                            !.admitted = admitted])
    BY <1>4 DEF BeginLogin
  <2> DEFINE w == [NoWork EXCEPT !.known = user.password, !.session = sessions + 1,
                                 !.admitted = admitted]
             step == IF user.failed > 0 THEN "login:reset" ELSE "issue"
  <2>p. user.password \in Nat /\ sessions + 1 \in Nat /\ sessions + 1 # 0
    BY <1>0, UserFields
  <2>1. w \in Local /\ w.session # 0
    BY <2>p DEF NoWork, Local
  <2>2. step \in {"login:reset", "issue"} /\ Goto(r, step, w)
    OBVIOUS
  <2>3. left' \in [Kinds -> Nat]
    BY <1>4, SpendType DEF BeginLogin, Kinds
  <2>4. RowsOK
    BY <1>0, <1>4, <2>3 DEF BeginLogin, history, TypeOK, RowsOK
  <2> HIDE DEF w, step
  <2>5. NextReady(r)
    BY <2>1, <2>2, GotoShape DEF Steps, NextReady
  <2> QED
    BY <2>1, <2>2, <2>4, <2>5, GotoShape, ShapeFrom DEF Steps
<1>5. CASE ResetFailures(r)
  <2>1. user' \in UserRow /\ work[r] \in Local /\ work[r].session # 0
    BY <1>0, <1>5, BusyLocal DEF ResetFailures, UserRow, LocalsReady
  <2>2. RowsOK
    BY <1>5, <2>1, WriteUserShape DEF ResetFailures, history, TypeOK
  <2>3. CASE Goto(r, "issue", work[r])
    BY <2>1, <2>2, <2>3, GotoShape, ShapeFrom DEF Steps, NextReady
  <2>4. CASE Finish(r)
    BY <2>2, <2>4, EndShape
  <2> QED
    BY <1>5, <2>3, <2>4 DEF ResetFailures
<1>6. CASE IssueTokenPair(r)
  <2> DEFINE k == [revokedAt |-> Nil, expiresAt |-> clock + REFRESH_EXPIRES,
                   session |-> work[r].session, replaced |-> FALSE,
                   known |-> work[r].known, excused |-> work[r].excused]
  <2>1. clock + REFRESH_EXPIRES \in Nat
    BY ClockIs, LimitAssumption
  <2>2. work[r] \in Local /\ work[r].session # 0
    BY <1>6, BusyLocal DEF IssueTokenPair, LocalsReady
  <2>3. k \in TokenRow
    BY <2>1, <2>2, LocalFields DEF TokenRow
  <2>4. tokens' = Append(tokens, k)
    BY <1>6 DEF IssueTokenPair
  <2> HIDE DEF k
  <2>5. tokens' \in Seq(TokenRow) /\ DOMAIN tokens \subseteq DOMAIN tokens'
    BY <2>3, <2>4, TokensAre DEF TypeOK
  <2>6. RowsOK
    BY <1>6, <2>5 DEF IssueTokenPair, history, TypeOK, RowsOK
  <2> QED
    BY <1>6, <2>6, EndShape DEF IssueTokenPair
<1> QED
  BY <1>1, <1>2, <1>3, <1>4, <1>5, <1>6 DEF Login

LEMMA RefreshShape ==
  ASSUME Shape, NEW r \in Requests, Refresh(r)
  PROVE  Shape'
<1> USE DEF Shape
<1>0. left \in [Kinds -> Nat]
  BY DEF TypeOK
<1>1. ASSUME NEW t \in DOMAIN tokens, BeginRefresh(r, t) PROVE Shape'
  <2>1. Presented(t) \in Local /\ Presented(t).token = t /\ Presented(t).session # 0
    BY PresentedType, TokensAre, TokenFields DEF Presented, NoWork
  <2> QED
    BY <1>1, <2>1, SpendType, MoveShape DEF BeginRefresh, Kinds, Steps
<1>2. ASSUME NEW t \in DOMAIN tokens, BeginReuse(r, t) PROVE Shape'
  <2>1. Presented(t) \in Local /\ Presented(t).token = t /\ Presented(t).session # 0
    BY PresentedType, TokensAre, TokenFields DEF Presented, NoWork
  <2> QED
    BY <1>2, <2>1, SpendType, MoveShape DEF BeginReuse, Kinds, Steps
<1>3. CASE FindCurrent(r)
  <2>1. work[r] \in Local
    BY <1>3, BusyLocal DEF FindCurrent
  <2>2. CASE Goto(r, "revoke:reuse", work[r])
    BY <1>0, <1>3, <2>1, <2>2, MoveShape DEF FindCurrent, Steps
  <2>3. ASSUME NEW t \in Unexpired,
               Goto(r, "rotate", [work[r] EXCEPT !.token = t, !.excused = TRUE,
                                                 !.session = tokens[t].session])
        PROVE  Shape'
    <3> DEFINE w == [work[r] EXCEPT !.token = t, !.excused = TRUE, !.session = tokens[t].session]
    <3>1. t \in DOMAIN tokens
      BY DEF Unexpired, LiveTokens
    <3>2. t \in Nat /\ tokens[t].session \in Nat \ {0}
      BY <3>1, TokensAre, TokenFields
    <3>3. w \in Local /\ w.token = t /\ w.session # 0
      BY <2>1, <3>2 DEF Local
    <3>4. Goto(r, "rotate", w)
      BY <2>3
    <3> HIDE DEF w
    <3> QED
      BY <1>0, <1>3, <3>1, <3>3, <3>4, MoveShape DEF FindCurrent, Steps
  <2> QED
    BY <1>3, <2>2, <2>3 DEF FindCurrent
<1>4. CASE Rotate(r)
  <2> DEFINE t == work[r].token
             k == [tokens[t] EXCEPT !.revokedAt = clock, !.replaced = TRUE]
  <2>1. work[r] \in Local /\ t \in DOMAIN tokens /\ work[r].session # 0
    BY <1>4, BusyLocal DEF Rotate, LocalsReady
  <2>2. tokens[t] \in TokenRow /\ clock \in Nat
    BY <2>1, TokensAre, ClockIs
  <2>3. k \in TokenRow
    BY <2>2 DEF TokenRow
  <2>4. tokens' = [tokens EXCEPT ![t] = k]
    BY <1>4 DEF Rotate
  <2> HIDE DEF k
  <2>5. tokens' \in Seq(TokenRow) /\ DOMAIN tokens \subseteq DOMAIN tokens'
    BY <2>1, <2>3, <2>4 DEF TypeOK
  <2>6. forked' \in SUBSET Nat
    BY <1>4, <2>1, LocalFields DEF Rotate, TypeOK
  <2>7. RowsOK
    BY <1>4, <2>5, <2>6 DEF Rotate, TypeOK, RowsOK
  <2>8. Goto(r, "issue", work[r])
    BY <1>4 DEF Rotate
  <2> QED
    BY <2>1, <2>7, <2>8, GotoShape, ShapeFrom DEF NextReady, Steps
<1>5. CASE RevokeOnReuse(r)
  <2>1. tokens' \in Seq(TokenRow) /\ DOMAIN tokens \subseteq DOMAIN tokens'
    BY <1>5, RevokeAllShape DEF RevokeOnReuse
  <2>2. RowsOK
    BY <1>5, <2>1 DEF RevokeOnReuse, history, TypeOK, RowsOK
  <2> QED
    BY <1>5, <2>2, EndShape DEF RevokeOnReuse
<1> QED
  BY <1>1, <1>2, <1>3, <1>4, <1>5 DEF Refresh

LEMMA PasswordShape ==
  ASSUME Shape, NEW r \in Requests, Password(r)
  PROVE  Shape'
<1> USE DEF Shape
<1>0. left \in [Kinds -> Nat] /\ user \in UserRow
  BY DEF TypeOK
<1>1. CASE BeginChange(r)
  BY <1>1, NoWorkType, SpendType, MoveShape DEF BeginChange, Kinds, Steps
<1>2. CASE BeginReset(r)
  <2>1. [NoWork EXCEPT !.link = user.resetLink] \in Local
    BY <1>0, UserFields DEF NoWork, Local
  <2> QED
    BY <1>2, <2>1, SpendType, MoveShape DEF BeginReset, Kinds, Steps
<1>3. CASE WritePassword(r)
  <2>1. work[r] \in Local
    BY <1>3, BusyLocal DEF WritePassword
  <2>2. user.password + 1 \in Nat
    BY <1>0, UserFields
  <2>3. [user EXCEPT !.password = user.password + 1] \in UserRow
    BY <1>0, <2>2 DEF UserRow
  <2>4. [user EXCEPT !.password = user.password + 1, !.resetLink = Nil, !.resetExpires = Nil] \in UserRow
    BY <1>0, <2>2 DEF UserRow
  <2>5. user' \in UserRow
    BY <1>3, <2>3, <2>4 DEF WritePassword
  <2>6. RowsOK
    BY <1>3, <2>5, WriteUserShape DEF WritePassword, history, TypeOK
  <2>7. Goto(r, "revoke", work[r])
    BY <1>3 DEF WritePassword
  <2> QED
    BY <2>1, <2>6, <2>7, GotoShape, ShapeFrom DEF Steps, NextReady
<1>4. CASE EndSessions(r)
  <2>1. tokens' \in Seq(TokenRow) /\ DOMAIN tokens' = DOMAIN tokens
    BY <1>4, RevokeAllShape DEF EndSessions
  <2>2. RowsOK
    BY <1>4, <2>1 DEF EndSessions, TypeOK, RowsOK
  <2>3. pc' \in [Requests -> Steps] /\ pc'[r] = "idle" /\ \A q \in Requests \ {r} : pc'[q] = pc[q]
    BY <1>4 DEF EndSessions, TypeOK, Steps
  <2>4. ASSUME NEW q \in Requests \ {r}, Straddles(q)
        PROVE  [work[q] EXCEPT !.excused = TRUE] \in Local
                 /\ [work[q] EXCEPT !.excused = TRUE].token = work[q].token
                 /\ [work[q] EXCEPT !.excused = TRUE].session = work[q].session
    <3>1. work[q] \in Local
      BY <2>4, BusyLocal DEF Straddles
    <3> QED
      BY <3>1 DEF Local
  <2>5. /\ work'[r] = Nil
        /\ \A q \in Requests \ {r} :
             work'[q] = IF Straddles(q) THEN [work[q] EXCEPT !.excused = TRUE] ELSE work[q]
    BY <1>4 DEF EndSessions
  <2>6. work' \in [Requests -> Local \cup {Nil}]
    <3>1. ASSUME NEW q \in Requests PROVE work'[q] \in Local \cup {Nil}
      <4>1. CASE q = r
        BY <2>5, <4>1
      <4>2. CASE q # r /\ Straddles(q)
        BY <2>4, <2>5, <4>2
      <4>3. CASE q # r /\ ~ Straddles(q)
        BY <2>5, <4>3 DEF TypeOK
      <4> QED
        BY <4>1, <4>2, <4>3
    <3> QED
      BY <1>4, <3>1 DEF EndSessions
  <2>7. \A q \in Requests : work'[q] = Nil <=> pc'[q] = "idle"
    <3>1. ASSUME NEW q \in Requests, q # r, Straddles(q)
          PROVE  work'[q] # Nil /\ pc'[q] # "idle"
      <4>1. [work[q] EXCEPT !.excused = TRUE] \in Local
        BY <2>4, <3>1
      <4>2. work'[q] \in Local
        BY <2>5, <3>1, <4>1
      <4>3. pc'[q] # "idle"
        BY <2>3, <3>1 DEF Straddles
      <4> QED
        BY <4>2, <4>3, NilAssumption
    <3>2. ASSUME NEW q \in Requests, q # r, ~ Straddles(q)
          PROVE  work'[q] = work[q] /\ pc'[q] = pc[q]
      BY <2>3, <2>5, <3>2
    <3> QED
      BY <2>3, <2>5, <3>1, <3>2 DEF TypeOK
  <2>8. LocalsReady'
    BY <2>1, <2>3, <2>4, <2>5 DEF LocalsReady, Straddles
  <2>9. TypeOK'
    BY <2>2, <2>3, <2>6, <2>7 DEF RowsOK, TypeOK
  <2> QED
    BY <2>8, <2>9
<1> QED
  BY <1>1, <1>2, <1>3, <1>4 DEF Password

LEMMA TwoFactorShape ==
  ASSUME Shape, NEW r \in Requests, TwoFactor(r)
  PROVE  Shape'
<1> USE DEF Shape
<1>0. left \in [Kinds -> Nat] /\ user \in UserRow
  BY DEF TypeOK
<1>1. CASE BeginEnable(r)
  <2> DEFINE w == [NoWork EXCEPT !.secret = user.secret]
  <2>1. user.secret \in Nat
    BY <1>0, <1>1, UserFields DEF BeginEnable
  <2>2. w \in Local /\ Goto(r, "enable", w)
    BY <1>1, <2>1 DEF BeginEnable, NoWork, Local
  <2>3. left' \in [Kinds -> Nat]
    BY <1>1, SpendType DEF BeginEnable, Kinds
  <2>4. confirmed' \in SUBSET Nat
    BY <1>1, <2>1 DEF BeginEnable, TypeOK
  <2>5. RowsOK
    BY <1>1, <2>3, <2>4 DEF BeginEnable, TypeOK, RowsOK
  <2> HIDE DEF w
  <2> QED
    BY <2>2, <2>5, GotoShape, ShapeFrom DEF NextReady, Steps
<1>2. CASE Enable(r)
  <2>1. user' \in UserRow
    BY <1>0, <1>2 DEF Enable, UserRow
  <2>2. RowsOK
    BY <1>2, <2>1, WriteUserShape DEF Enable, history, TypeOK
  <2> QED
    BY <1>2, <2>2, EndShape DEF Enable
<1>3. CASE BeginDisable(r)
  BY <1>3, NoWorkType, SpendType, MoveShape DEF BeginDisable, Kinds, Steps
<1>4. CASE Disable(r)
  <2>1. user' \in UserRow
    BY <1>0, <1>4 DEF Disable, UserRow
  <2>2. tangled' \in BOOLEAN
    BY <1>4 DEF Disable, TypeOK
  <2>3. RowsOK
    BY <1>4, <2>1, <2>2, WriteUserShape DEF Disable
  <2> QED
    BY <1>4, <2>3, EndShape DEF Disable
<1> QED
  BY <1>1, <1>2, <1>3, <1>4 DEF TwoFactor

\* What needs no request, or ends one.
LEMMA EventShape ==
  ASSUME Shape,
         \/ \E r \in Requests : Abort(r)
         \/ \E t \in DOMAIN tokens : Logout(t)
         \/ Unlock \/ RequestReset \/ GenerateSecret \/ Tick \/ UNCHANGED vars
  PROVE  Shape'
<1> USE DEF Shape
<1>0. user \in UserRow /\ clock \in Nat /\ left \in [Kinds -> Nat]
  BY ClockIs DEF TypeOK
<1>1. ASSUME NEW r \in Requests, Abort(r) PROVE Shape'
  <2>1. left' \in [Kinds -> Nat]
    BY <1>1, SpendType DEF Abort, Kinds
  <2>2. cutShort' \in BOOLEAN /\ lockLost' \in BOOLEAN
    BY <1>1 DEF Abort, TypeOK
  <2>3. RowsOK
    BY <1>1, <2>1, <2>2 DEF Abort, TypeOK, RowsOK
  <2> QED
    BY <1>1, <2>3, EndShape DEF Abort
<1>2. ASSUME NEW t \in DOMAIN tokens, Logout(t) PROVE Shape'
  <2>1. Revoked(tokens[t]) \in TokenRow
    BY TokensAre, RevokedType
  <2>2. tokens' \in Seq(TokenRow) /\ DOMAIN tokens' = DOMAIN tokens
    BY <1>2, <2>1 DEF Logout, TypeOK
  <2>3. left' \in [Kinds -> Nat]
    BY <1>2, SpendType DEF Logout, Kinds
  <2> QED
    BY <1>2, <2>2, <2>3 DEF Logout, history, TypeOK, LocalsReady
<1>3. CASE RequestReset
  <2>1. left["reset"] \in Nat /\ clock + RESET_EXPIRES \in Nat /\ left' \in [Kinds -> Nat]
    BY <1>0, <1>3, SpendType, LimitAssumption DEF RequestReset, Kinds
  <2>2. user' \in UserRow
    BY <1>0, <1>3, <2>1 DEF RequestReset, UserRow
  <2>3. UNCHANGED <<clock, tokens, pc, work, sessions, secrets, forked, cutShort, lockLost,
                    confirmed, tangled>>
    BY <1>3 DEF RequestReset, history
  <2>4. clock' \in 0..MaxTime /\ left' \in [Kinds -> Nat] /\ user' \in UserRow
    BY <2>1, <2>2, <2>3 DEF TypeOK
  <2>5. TypeOK'
    BY <2>3, <2>4, Zenon DEF TypeOK
  <2> QED
    BY <2>3, <2>5 DEF LocalsReady
<1>4. CASE GenerateSecret
  <2>s. left' \in [Kinds -> Nat]
    BY <1>4, SpendType DEF GenerateSecret, Kinds
  <2>1. secrets + 1 \in Nat /\ secrets' \in Nat
    BY <1>4 DEF GenerateSecret, TypeOK
  <2>2. user' \in UserRow
    BY <1>0, <1>4, <2>1 DEF GenerateSecret, UserRow
  <2>3. tangled' \in BOOLEAN
    BY <1>4 DEF GenerateSecret, TypeOK
  <2> QED
    BY <1>4, <2>s, <2>1, <2>2, <2>3 DEF GenerateSecret, TypeOK, LocalsReady
<1>5. CASE Tick
  <2>1. clock' \in 0..MaxTime
    BY <1>0, <1>5, LimitAssumption DEF Tick
  <2> QED
    BY <1>5, <2>1 DEF Tick, history, TypeOK, LocalsReady
<1>6. CASE UNCHANGED vars
  BY <1>6 DEF vars, history, TypeOK, LocalsReady
<1>7. CASE Unlock
  <2>1. user' \in UserRow
    BY <1>0, <1>7 DEF Unlock, UserRow
  <2> QED
    BY <1>7, <2>1 DEF Unlock, history, TypeOK, LocalsReady
<1> QED
  BY <1>1, <1>2, <1>3, <1>4, <1>5, <1>6, <1>7

LEMMA ShapeStep == ASSUME Shape, [Next]_vars PROVE Shape'
BY LoginShape, RefreshShape, PasswordShape, TwoFactorShape, EventShape DEF Next

LEMMA ShapeInit == ASSUME Init PROVE Shape
<1>1. user \in UserRow
  BY DEF Init, UserRow
<1>2. pc \in [Requests -> Steps] /\ work \in [Requests -> Local \cup {Nil}]
        /\ \A r \in Requests : work[r] = Nil /\ pc[r] = "idle"
  BY DEF Init, Steps
<1>3. left \in [Kinds -> Nat]
  BY AllowanceAssumption DEF Init
<1>4. clock \in 0..MaxTime /\ tokens \in Seq(TokenRow) /\ sessions \in Nat /\ secrets \in Nat
  BY LimitAssumption DEF Init
<1>5. forked \in SUBSET Nat /\ confirmed \in SUBSET Nat
  BY DEF Init
<1>6. cutShort \in BOOLEAN /\ lockLost \in BOOLEAN /\ tangled \in BOOLEAN
  BY DEF Init
<1>7. TypeOK
  BY <1>1, <1>2, <1>3, <1>4, <1>5, <1>6 DEF TypeOK
<1> QED
  BY <1>2, <1>7 DEF Shape, LocalsReady

----------------------------------------------------------------------------
\* Two factors.

CodeChecked == \A r \in Requests : pc[r] = "enable" => tangled \/ user.secret \in confirmed
FactorInv == TwoFactorConfirmed /\ CodeChecked

LEMMA FactorInit == ASSUME Init PROVE FactorInv
<1>1. ~ user.enabled
  BY DEF Init
<1>2. \A r \in Requests : pc[r] = "idle"
  BY DEF Init
<1> QED
  BY <1>1, <1>2 DEF FactorInv, TwoFactorConfirmed, CodeChecked

\* A step that leaves the secret, the flag and the requests that enable.
LEMMA FactorRests ==
  ASSUME FactorInv, user'.enabled = user.enabled, user'.secret = user.secret,
         UNCHANGED <<confirmed, tangled>>,
         \A q \in Requests : pc'[q] = "enable" => pc[q] = "enable"
  PROVE  FactorInv'
BY DEF FactorInv, TwoFactorConfirmed, CodeChecked

LEMMA FactorStep == ASSUME Shape, FactorInv, [Next]_vars PROVE FactorInv'
<1> USE DEF Shape
<1>0. user \in UserRow
  BY DEF TypeOK
<1>1. ASSUME NEW r \in Requests, Login(r) PROVE FactorInv'
  <2>1. user'.enabled = user.enabled /\ user'.secret = user.secret
    BY <1>0, <1>1 DEF Login, BeginFailingLogin, CountFailure, LockUser, BeginLogin,
       ResetFailures, IssueTokenPair, UserRow
  <2>2. UNCHANGED <<confirmed, tangled>>
    BY <1>1 DEF Login, BeginFailingLogin, CountFailure, LockUser, BeginLogin,
       ResetFailures, IssueTokenPair, history
  <2>3. \A q \in Requests : pc'[q] = "enable" => pc[q] = "enable"
    BY <1>1 DEF Login, BeginFailingLogin, CountFailure, LockUser, BeginLogin,
       ResetFailures, IssueTokenPair, Goto, Finish, TypeOK
  <2> QED
    BY <2>1, <2>2, <2>3, FactorRests
<1>2. ASSUME NEW r \in Requests, Refresh(r) PROVE FactorInv'
  <2>1. UNCHANGED <<user, confirmed, tangled>>
    BY <1>2 DEF Refresh, BeginRefresh, BeginReuse, FindCurrent, Rotate, RevokeOnReuse, history
  <2>3. \A q \in Requests : pc'[q] = "enable" => pc[q] = "enable"
    BY <1>2 DEF Refresh, BeginRefresh, BeginReuse, FindCurrent, Rotate, RevokeOnReuse, Goto,
       Finish, TypeOK
  <2> QED
    BY <2>1, <2>3, FactorRests
<1>3. ASSUME NEW r \in Requests, Password(r) PROVE FactorInv'
  <2>1. user'.enabled = user.enabled /\ user'.secret = user.secret
    BY <1>0, <1>3 DEF Password, BeginChange, BeginReset, WritePassword, EndSessions, UserRow
  <2>2. UNCHANGED <<confirmed, tangled>>
    BY <1>3 DEF Password, BeginChange, BeginReset, WritePassword, EndSessions, history
  <2>3. \A q \in Requests : pc'[q] = "enable" => pc[q] = "enable"
    BY <1>3 DEF Password, BeginChange, BeginReset, WritePassword, EndSessions, Goto, TypeOK
  <2> QED
    BY <2>1, <2>2, <2>3, FactorRests
<1>4. ASSUME NEW r \in Requests, TwoFactor(r) PROVE FactorInv'
  <2>1. CASE BeginEnable(r)
    <3>1. user' = user /\ tangled' = tangled /\ confirmed' = confirmed \cup {user.secret}
      BY <2>1 DEF BeginEnable
    <3> QED
      BY <3>1 DEF FactorInv, TwoFactorConfirmed, CodeChecked
  <2>2. CASE Enable(r)
    <3>1. user'.secret = user.secret /\ UNCHANGED <<confirmed, tangled>>
      BY <1>0, <2>2 DEF Enable, UserRow, history
    <3>2. tangled \/ user.secret \in confirmed
      BY <2>2 DEF Enable, FactorInv, CodeChecked
    <3> QED
      BY <3>1, <3>2 DEF FactorInv, TwoFactorConfirmed, CodeChecked
  <2>3. CASE BeginDisable(r)
    <3>1. \A q \in Requests : pc'[q] = "enable" => pc[q] = "enable"
      BY <2>3 DEF BeginDisable, Goto, TypeOK
    <3> QED
      BY <2>3, <3>1, FactorRests DEF BeginDisable, history
  <2>4. CASE Disable(r)
    <3>1. user'.enabled = FALSE
      BY <1>0, <2>4 DEF Disable, UserRow
    <3>2. ASSUME NEW q \in Requests, pc'[q] = "enable" PROVE tangled'
      BY <2>4, <3>2 DEF Disable, Finish, Goto, TypeOK
    <3> QED
      BY <3>1, <3>2 DEF FactorInv, TwoFactorConfirmed, CodeChecked
  <2> QED
    BY <1>4, <2>1, <2>2, <2>3, <2>4 DEF TwoFactor
<1>5. ASSUME NEW r \in Requests, Abort(r) PROVE FactorInv'
  <2>1. \A q \in Requests : pc'[q] = "enable" => pc[q] = "enable"
    BY <1>5 DEF Abort, Finish, Goto, TypeOK
  <2> QED
    BY <1>5, <2>1, FactorRests DEF Abort
<1>6. CASE RequestReset \/ Unlock
  <2>1. user'.enabled = user.enabled /\ user'.secret = user.secret
    BY <1>0, <1>6 DEF RequestReset, Unlock, UserRow
  <2> QED
    BY <1>6, <2>1, FactorRests DEF RequestReset, Unlock, history
<1>7. CASE GenerateSecret
  <2>1. user'.enabled = user.enabled
    BY <1>0, <1>7 DEF GenerateSecret, UserRow
  <2>2. pc' = pc /\ tangled' = (tangled \/ user.enabled \/ \E q \in Requests : pc[q] = "enable")
    BY <1>7 DEF GenerateSecret
  <2> QED
    BY <2>1, <2>2 DEF FactorInv, TwoFactorConfirmed, CodeChecked
<1>8. CASE (\E t \in DOMAIN tokens : Logout(t)) \/ Tick \/ UNCHANGED vars
  <2>1. UNCHANGED <<user, pc, confirmed, tangled>>
    BY <1>8 DEF Logout, Tick, vars, history
  <2> QED
    BY <2>1, FactorRests
<1> QED
  BY <1>1, <1>2, <1>3, <1>4, <1>5, <1>6, <1>7, <1>8 DEF Next

----------------------------------------------------------------------------
\* A password ends the sessions.

Ending == cutShort \/ \E r \in Requests : pc[r] = "revoke"

\* What is about to be issued, or to replace a token, is bound as a live token is.
HeldEndWithPassword ==
  \A r \in Requests :
    pc[r] \in {"login:reset", "issue", "rotate"} /\ work[r].known < user.password =>
      work[r].excused \/ Ending
EndInv == SessionsEndWithPassword /\ HeldEndWithPassword

LEMMA EndInit == ASSUME Init PROVE EndInv
<1>1. DOMAIN tokens = {} /\ \A r \in Requests : pc[r] = "idle"
  BY DEF Init
<1> QED
  BY <1>1 DEF EndInv, SessionsEndWithPassword, HeldEndWithPassword, LiveTokens

\* A step after which no token is live that was not, none holds more than it
\* did, and an end of all sessions under way remains so.
LEMMA EndRests ==
  ASSUME EndInv, user'.password = user.password, Ending => Ending',
         \A t \in LiveTokens' : /\ t \in LiveTokens /\ tokens'[t].known = tokens[t].known
                                /\ tokens'[t].excused = tokens[t].excused,
         \A q \in Requests : pc'[q] \in {"login:reset", "issue", "rotate"} =>
           \/ work'[q].excused
           \/ ~ (work'[q].known < user.password)
           \/ /\ pc[q] \in {"login:reset", "issue", "rotate"}
              /\ work'[q].known = work[q].known /\ work'[q].excused = work[q].excused
           \/ \E t \in LiveTokens : /\ work'[q].known = tokens[t].known
                                    /\ work'[q].excused = tokens[t].excused
  PROVE  EndInv'
<1>1. SessionsEndWithPassword'
  <2> SUFFICES ASSUME NEW t \in LiveTokens', tokens'[t].known < user'.password
               PROVE  tokens'[t].excused \/ Ending'
    BY DEF SessionsEndWithPassword, Ending
  <2> QED
    BY DEF EndInv, SessionsEndWithPassword, Ending
<1>2. HeldEndWithPassword'
  <2> SUFFICES ASSUME NEW q \in Requests, pc'[q] \in {"login:reset", "issue", "rotate"},
                      work'[q].known < user'.password
               PROVE  work'[q].excused \/ Ending'
    BY DEF HeldEndWithPassword
  <2> QED
    BY DEF EndInv, SessionsEndWithPassword, HeldEndWithPassword, Ending
<1> QED
  BY <1>1, <1>2 DEF EndInv

\* One request moves, the tokens stay.
LEMMA EndMoves ==
  ASSUME Shape, EndInv, NEW r \in Requests, user'.password = user.password,
         UNCHANGED <<tokens, cutShort>>, pc[r] # "revoke",
         \A q \in Requests \ {r} : pc'[q] = pc[q] /\ work'[q] = work[q],
         pc'[r] \in {"login:reset", "issue", "rotate"} =>
           \/ work'[r].excused
           \/ ~ (work'[r].known < user.password)
           \/ /\ pc[r] \in {"login:reset", "issue", "rotate"}
              /\ work'[r].known = work[r].known /\ work'[r].excused = work[r].excused
           \/ \E t \in LiveTokens : /\ work'[r].known = tokens[t].known
                                    /\ work'[r].excused = tokens[t].excused
  PROVE  EndInv'
<1>1. LiveTokens' = LiveTokens
  BY DEF LiveTokens, Live
<1>2. Ending => Ending'
  BY DEF Ending
<1>3. \A q \in Requests : pc'[q] \in {"login:reset", "issue", "rotate"} =>
        \/ work'[q].excused
        \/ ~ (work'[q].known < user.password)
        \/ /\ pc[q] \in {"login:reset", "issue", "rotate"}
           /\ work'[q].known = work[q].known /\ work'[q].excused = work[q].excused
        \/ \E t \in LiveTokens : /\ work'[q].known = tokens[t].known
                                 /\ work'[q].excused = tokens[t].excused
  <2> TAKE q \in Requests
  <2> CASE q = r
    OBVIOUS
  <2> CASE q # r
    OBVIOUS
  <2> QED
    OBVIOUS
<1> QED
  BY <1>1, <1>2, <1>3, EndRests

LEMMA LiveAfterRevokeAll == ASSUME TypeOK, RevokeAll PROVE LiveTokens' = {}
BY RevokeAllShape, RevokedType, TokensAre DEF LiveTokens, Live

LEMMA LoginEnd ==
  ASSUME Shape, EndInv, NEW r \in Requests, Login(r)
  PROVE  EndInv'
<1> USE DEF Shape
<1>0. user \in UserRow
  BY DEF TypeOK
<1>1. user'.password = user.password /\ UNCHANGED <<cutShort>> /\ pc[r] # "revoke"
  BY <1>0 DEF Login, BeginFailingLogin, CountFailure, LockUser, BeginLogin, ResetFailures,
     IssueTokenPair, UserRow, history
<1>2. CASE BeginFailingLogin(r) \/ CountFailure(r) \/ LockUser(r)
  <2>1. \A q \in Requests \ {r} : pc'[q] = pc[q] /\ work'[q] = work[q]
    BY <1>2 DEF BeginFailingLogin, CountFailure, LockUser, Goto, Finish, TypeOK
  <2>2. pc'[r] \notin {"login:reset", "issue", "rotate"} /\ tokens' = tokens
    BY <1>2 DEF BeginFailingLogin, CountFailure, LockUser, Goto, Finish, TypeOK
  <2> QED
    BY <1>1, <2>1, <2>2, EndMoves
<1>3. CASE BeginLogin(r)
  <2>1. \A q \in Requests \ {r} : pc'[q] = pc[q] /\ work'[q] = work[q]
    BY <1>3 DEF BeginLogin, Goto, TypeOK
  <2>2. work'[r].known = user.password /\ tokens' = tokens
    BY <1>3 DEF BeginLogin, Goto, TypeOK, NoWork
  <2>3. ~ (work'[r].known < user.password)
    BY <1>0, <2>2, UserFields
  <2> QED
    BY <1>1, <2>1, <2>2, <2>3, EndMoves
<1>4. CASE ResetFailures(r)
  <2>1. \A q \in Requests \ {r} : pc'[q] = pc[q] /\ work'[q] = work[q]
    BY <1>4 DEF ResetFailures, Goto, Finish, TypeOK
  <2>2. pc[r] = "login:reset" /\ tokens' = tokens
          /\ (pc'[r] = "idle" \/ (pc'[r] = "issue" /\ work'[r] = work[r]))
    BY <1>4 DEF ResetFailures, Goto, Finish, TypeOK
  <2> QED
    BY <1>1, <2>1, <2>2, EndMoves
<1>5. CASE IssueTokenPair(r)
  <2> DEFINE k == [revokedAt |-> Nil, expiresAt |-> clock + REFRESH_EXPIRES,
                   session |-> work[r].session, replaced |-> FALSE,
                   known |-> work[r].known, excused |-> work[r].excused]
  <2>1. tokens' = Append(tokens, k) /\ user' = user /\ k.known = work[r].known
          /\ k.excused = work[r].excused
    BY <1>5 DEF IssueTokenPair
  <2> HIDE DEF k
  <2>2. pc' = [pc EXCEPT ![r] = "idle"] /\ pc[r] = "issue"
          /\ \A q \in Requests \ {r} : work'[q] = work[q]
    BY <1>5 DEF IssueTokenPair, Finish, Goto, TypeOK
  <2>3. Ending <=> Ending'
    BY <1>1, <2>2 DEF Ending, TypeOK
  <2>4. tokens \in Seq(TokenRow)
    BY DEF TypeOK
  <2>5. /\ DOMAIN tokens' = 1..(Len(tokens) + 1) /\ tokens'[Len(tokens) + 1] = k
        /\ DOMAIN tokens = 1..Len(tokens) /\ Len(tokens) \in Nat
        /\ \A t \in 1..Len(tokens) : tokens'[t] = tokens[t]
    BY <2>1, <2>4
  <2>6. SessionsEndWithPassword'
    <3> SUFFICES ASSUME NEW t \in LiveTokens', tokens'[t].known < user'.password
                 PROVE  tokens'[t].excused \/ Ending'
      BY DEF SessionsEndWithPassword, Ending
    <3>1. CASE t \in 1..Len(tokens)
      <4>1. t \in LiveTokens /\ tokens'[t] = tokens[t]
        BY <2>5, <3>1 DEF LiveTokens, Live
      <4> QED
        BY <2>1, <2>3, <4>1 DEF EndInv, SessionsEndWithPassword, Ending
    <3>2. CASE t = Len(tokens) + 1
      <4>1. tokens'[t].known = work[r].known /\ tokens'[t].excused = work[r].excused
        BY <2>1, <2>5, <3>2
      <4> QED
        BY <2>1, <2>2, <2>3, <4>1 DEF EndInv, HeldEndWithPassword
    <3> QED
      BY <2>5, <3>1, <3>2 DEF LiveTokens
  <2>7. HeldEndWithPassword'
    BY <2>1, <2>2, <2>3 DEF EndInv, HeldEndWithPassword, TypeOK
  <2> QED
    BY <2>6, <2>7 DEF EndInv
<1> QED
  BY <1>2, <1>3, <1>4, <1>5 DEF Login

LEMMA RefreshEnd ==
  ASSUME Shape, EndInv, NEW r \in Requests, Refresh(r)
  PROVE  EndInv'
<1> USE DEF Shape
<1>1. user' = user /\ cutShort' = cutShort /\ pc[r] # "revoke"
  BY DEF Refresh, BeginRefresh, BeginReuse, FindCurrent, Rotate, RevokeOnReuse, history
<1>2. \A q \in Requests \ {r} : pc'[q] = pc[q] /\ work'[q] = work[q]
  BY DEF Refresh, BeginRefresh, BeginReuse, FindCurrent, Rotate, RevokeOnReuse, Goto, Finish, TypeOK
<1>3. ASSUME NEW t \in DOMAIN tokens, BeginRefresh(r, t) PROVE EndInv'
  <2>1. work'[r] = Presented(t) /\ t \in LiveTokens /\ tokens' = tokens
    BY <1>3 DEF BeginRefresh, Goto, TypeOK, LiveTokens
  <2> QED
    BY <1>1, <1>2, <2>1, PresentedType, EndMoves
<1>4. ASSUME NEW t \in DOMAIN tokens, BeginReuse(r, t) PROVE EndInv'
  <2>1. pc'[r] \in {"current", "revoke:reuse"} /\ tokens' = tokens
    BY <1>4 DEF BeginReuse, Goto, TypeOK
  <2> QED
    BY <1>1, <1>2, <2>1, EndMoves
<1>5. CASE FindCurrent(r)
  <2>1. work[r] \in Local /\ tokens' = tokens
    BY <1>5, BusyLocal DEF FindCurrent
  <2>2. pc'[r] = "revoke:reuse" \/ work'[r].excused
    BY <1>5, <2>1 DEF FindCurrent, Goto, TypeOK, Local
  <2> QED
    BY <1>1, <1>2, <2>1, <2>2, EndMoves
<1>6. CASE Rotate(r)
  <2>1. work[r] \in Local /\ work[r].token \in DOMAIN tokens /\ clock # Nil
    BY <1>6, BusyLocal, ClockIs, AllowanceAssumption DEF Rotate, LocalsReady
  <2>2. tokens[work[r].token] \in TokenRow
    BY <2>1, TokensAre
  <2>3. DOMAIN tokens' = DOMAIN tokens /\ tokens'[work[r].token].revokedAt = clock
          /\ \A t \in DOMAIN tokens \ {work[r].token} : tokens'[t] = tokens[t]
    BY <1>6, <2>1, <2>2 DEF Rotate, TypeOK, TokenRow
  <2>4. \A t \in LiveTokens' : t \in LiveTokens /\ tokens'[t] = tokens[t]
    BY <2>1, <2>3 DEF LiveTokens, Live
  <2>5. pc[r] = "rotate" /\ pc'[r] = "issue" /\ work'[r] = work[r]
    BY <1>6 DEF Rotate, Goto, TypeOK
  <2>6. Ending => Ending'
    BY <1>1, <1>2, <2>5 DEF Ending
  <2> QED
    BY <1>1, <1>2, <2>4, <2>5, <2>6, EndRests
<1>7. CASE RevokeOnReuse(r)
  <2>1. LiveTokens' = {} /\ pc'[r] = "idle"
    BY <1>7, LiveAfterRevokeAll DEF RevokeOnReuse, Finish, Goto, TypeOK
  <2>2. Ending => Ending'
    BY <1>1, <1>2 DEF Ending
  <2> QED
    BY <1>1, <1>2, <2>1, <2>2, EndRests
<1> QED
  BY <1>3, <1>4, <1>5, <1>6, <1>7 DEF Refresh

LEMMA PasswordEnd ==
  ASSUME Shape, EndInv, NEW r \in Requests, Password(r)
  PROVE  EndInv'
<1> USE DEF Shape
<1>1. CASE BeginChange(r) \/ BeginReset(r)
  <2>1. UNCHANGED <<user, tokens, cutShort>> /\ pc[r] = "idle" /\ pc'[r] = "write"
    BY <1>1 DEF BeginChange, BeginReset, Goto, TypeOK, history
  <2>2. \A q \in Requests \ {r} : pc'[q] = pc[q] /\ work'[q] = work[q]
    BY <1>1 DEF BeginChange, BeginReset, Goto, TypeOK
  <2> QED
    BY <2>1, <2>2, EndMoves
<1>2. CASE WritePassword(r)
  <2>1. pc'[r] = "revoke"
    BY <1>2 DEF WritePassword, Goto, TypeOK
  <2>2. Ending'
    BY <2>1 DEF Ending
  <2> QED
    BY <2>2 DEF EndInv, SessionsEndWithPassword, HeldEndWithPassword, Ending
<1>3. CASE EndSessions(r)
  <2>1. LiveTokens' = {}
    BY <1>3, LiveAfterRevokeAll DEF EndSessions
  <2>2. \A q \in Requests : pc'[q] = IF q = r THEN "idle" ELSE pc[q]
    BY <1>3 DEF EndSessions, TypeOK
  <2>3. ASSUME NEW q \in Requests, pc'[q] \in {"login:reset", "issue", "rotate"}
        PROVE  work'[q].excused
    <3>1. q # r /\ Straddles(q)
      BY <2>2, <2>3 DEF Straddles
    <3>2. work[q] \in Local /\ work'[q] = [work[q] EXCEPT !.excused = TRUE]
      BY <1>3, <3>1, BusyLocal DEF EndSessions, Straddles
    <3> QED
      BY <3>2 DEF Local
  <2> QED
    BY <2>1, <2>3 DEF EndInv, SessionsEndWithPassword, HeldEndWithPassword
<1> QED
  BY <1>1, <1>2, <1>3 DEF Password

LEMMA EndStep == ASSUME Shape, EndInv, [Next]_vars PROVE EndInv'
<1> USE DEF Shape
<1>0. user \in UserRow
  BY DEF TypeOK
<1>1. ASSUME NEW r \in Requests, TwoFactor(r) PROVE EndInv'
  <2>1. user'.password = user.password /\ UNCHANGED <<tokens, cutShort>> /\ pc[r] # "revoke"
    BY <1>0, <1>1 DEF TwoFactor, BeginEnable, Enable, BeginDisable, Disable, UserRow, history
  <2>2. \A q \in Requests \ {r} : pc'[q] = pc[q] /\ work'[q] = work[q]
    BY <1>1 DEF TwoFactor, BeginEnable, Enable, BeginDisable, Disable, Goto, Finish, TypeOK
  <2>3. pc'[r] \in {"enable", "disable", "idle"}
    BY <1>1 DEF TwoFactor, BeginEnable, Enable, BeginDisable, Disable, Goto, Finish, TypeOK
  <2> QED
    BY <2>1, <2>2, <2>3, EndMoves
<1>2. ASSUME NEW r \in Requests, Abort(r) PROVE EndInv'
  <2>1. UNCHANGED <<user, tokens>> /\ cutShort' = (cutShort \/ pc[r] = "revoke") /\ pc'[r] = "idle"
    BY <1>2 DEF Abort, Finish, Goto, TypeOK
  <2>2. \A q \in Requests \ {r} : pc'[q] = pc[q] /\ work'[q] = work[q]
    BY <1>2 DEF Abort, Finish, Goto, TypeOK
  <2>3. (Ending => Ending') /\ LiveTokens' = LiveTokens
    BY <2>1, <2>2 DEF Ending, LiveTokens, Live
  <2> QED
    BY <2>1, <2>2, <2>3, EndRests
<1>3. ASSUME NEW t \in DOMAIN tokens, Logout(t) PROVE EndInv'
  <2>1. UNCHANGED <<user, pc, work, cutShort>>
    BY <1>3 DEF Logout, history
  <2>2. Revoked(tokens[t]).revokedAt # Nil
    BY TokensAre, RevokedType
  <2>3. DOMAIN tokens' = DOMAIN tokens /\ tokens'[t] = Revoked(tokens[t])
          /\ \A u \in DOMAIN tokens \ {t} : tokens'[u] = tokens[u]
    BY <1>3 DEF Logout, TypeOK
  <2>4. \A u \in LiveTokens' : u \in LiveTokens /\ tokens'[u] = tokens[u]
    BY <2>2, <2>3 DEF LiveTokens, Live
  <2> QED
    BY <2>1, <2>4, EndRests DEF Ending
<1>4. CASE RequestReset \/ GenerateSecret \/ Unlock
  <2>1. user'.password = user.password /\ UNCHANGED <<tokens, pc, work, cutShort>>
    BY <1>0, <1>4 DEF RequestReset, GenerateSecret, Unlock, UserRow, history
  <2> QED
    BY <2>1, EndRests DEF Ending, LiveTokens, Live
<1>5. CASE Tick \/ UNCHANGED vars
  <2>1. UNCHANGED <<user, tokens, pc, work, cutShort>>
    BY <1>5 DEF Tick, vars, history
  <2> QED
    BY <2>1, EndRests DEF Ending, LiveTokens, Live
<1> QED
  BY <1>1, <1>2, <1>3, <1>4, <1>5, LoginEnd, RefreshEnd, PasswordEnd DEF Next

----------------------------------------------------------------------------
\* One live token of a session: whoever may present or issue it next.

Unreplaced(t, s) == t \in DOMAIN tokens /\ tokens[t].session = s /\ ~ tokens[t].replaced
Holds(r, s) == pc[r] \in {"login:reset", "issue"} /\ work[r].session = s

\* Of a session never forked, one token or one request.
SoleHolder ==
  \A s \in Nat \ forked :
    /\ \A t, u \in DOMAIN tokens : Unreplaced(t, s) /\ Unreplaced(u, s) => t = u
    /\ \A t \in DOMAIN tokens, r \in Requests : ~ (Unreplaced(t, s) /\ Holds(r, s))
    /\ \A q, r \in Requests : Holds(q, s) /\ Holds(r, s) => q = r
ReplacedRevoked == \A t \in DOMAIN tokens : tokens[t].replaced => tokens[t].revokedAt # Nil
RotatesItsOwn ==
  \A r \in Requests : pc[r] = "rotate" => work[r].session = tokens[work[r].token].session
SessionsNumbered ==
  /\ \A t \in DOMAIN tokens : tokens[t].session <= sessions
  /\ \A r \in Requests : pc[r] \in {"login:reset", "issue"} => work[r].session <= sessions
OneInv == SoleHolder /\ ReplacedRevoked /\ RotatesItsOwn /\ SessionsNumbered

LEMMA OneInit == ASSUME Init PROVE OneInv
<1>1. DOMAIN tokens = {} /\ \A r \in Requests : pc[r] = "idle"
  BY DEF Init
<1> QED
  BY <1>1 DEF OneInv, SoleHolder, ReplacedRevoked, RotatesItsOwn, SessionsNumbered, Holds

LEMMA OneInvSuffices == ASSUME Shape, OneInv PROVE OneLivePerSession
<1> SUFFICES ASSUME NEW t \in LiveTokens, tokens[t].session \notin forked
             PROVE  /\ \A u \in LiveTokens : tokens[u].session = tokens[t].session => u = t
                    /\ \A r \in Requests : pc[r] = "issue" => work[r].session # tokens[t].session
  BY DEF OneLivePerSession
<1>1. tokens[t].session \in Nat \ forked
  BY TokensAre, TokenFields DEF Shape, LiveTokens
<1>2. \A u \in LiveTokens : Unreplaced(u, tokens[u].session)
  BY DEF OneInv, ReplacedRevoked, LiveTokens, Live, Unreplaced
<1> QED
  BY <1>1, <1>2 DEF OneInv, SoleHolder, Holds, LiveTokens

\* The rows keep their session, none is replaced, no request holds one it did not.
RowsKept ==
  /\ DOMAIN tokens' = DOMAIN tokens
  /\ \A t \in DOMAIN tokens :
       /\ tokens'[t].session = tokens[t].session /\ tokens'[t].replaced = tokens[t].replaced
       /\ tokens[t].revokedAt # Nil => tokens'[t].revokedAt # Nil
  /\ UNCHANGED <<forked, sessions>>

LEMMA OneRests ==
  ASSUME Shape, OneInv, RowsKept,
         \A q \in Requests :
           /\ pc'[q] \in {"login:reset", "issue"} =>
                pc[q] \in {"login:reset", "issue"} /\ work'[q].session = work[q].session
           /\ pc'[q] = "rotate" =>
                work'[q].token \in DOMAIN tokens
                  /\ work'[q].session = tokens[work'[q].token].session
  PROVE  OneInv'
<1>1. \A s : \A t \in DOMAIN tokens : Unreplaced(t, s)' <=> Unreplaced(t, s)
  BY DEF RowsKept, Unreplaced
<1>2. \A s : \A q \in Requests : Holds(q, s)' => Holds(q, s)
  BY DEF Holds
<1>3. SoleHolder'
  BY <1>1, <1>2 DEF OneInv, SoleHolder, RowsKept
<1>4. ReplacedRevoked'
  BY DEF OneInv, ReplacedRevoked, RowsKept
<1>5. RotatesItsOwn'
  BY DEF RotatesItsOwn, RowsKept
<1>6. SessionsNumbered'
  BY DEF OneInv, SessionsNumbered, RowsKept
<1> QED
  BY <1>3, <1>4, <1>5, <1>6 DEF OneInv

\* One request moves, the tokens stay.
LEMMA OneMoves ==
  ASSUME Shape, OneInv, NEW r \in Requests, UNCHANGED <<tokens, forked, sessions>>,
         \A q \in Requests \ {r} : pc'[q] = pc[q] /\ work'[q] = work[q],
         pc'[r] \in {"login:reset", "issue"} =>
           pc[r] \in {"login:reset", "issue"} /\ work'[r].session = work[r].session,
         pc'[r] = "rotate" =>
           work'[r].token \in DOMAIN tokens
             /\ work'[r].session = tokens[work'[r].token].session
  PROVE  OneInv'
<1>1. RowsKept
  BY DEF RowsKept
<1>2. \A q \in Requests :
        /\ pc'[q] \in {"login:reset", "issue"} =>
             pc[q] \in {"login:reset", "issue"} /\ work'[q].session = work[q].session
        /\ pc'[q] = "rotate" =>
             work'[q].token \in DOMAIN tokens
               /\ work'[q].session = tokens[work'[q].token].session
  <2> TAKE q \in Requests
  <2>1. CASE q = r
    BY <2>1
  <2>2. CASE q # r
    BY <2>2 DEF OneInv, RotatesItsOwn, Shape, LocalsReady
  <2> QED
    BY <2>1, <2>2
<1> QED
  BY <1>1, <1>2, OneRests

LEMMA RevokedKeeps ==
  ASSUME TypeOK, NEW k \in TokenRow
  PROVE  /\ Revoked(k).session = k.session /\ Revoked(k).replaced = k.replaced
         /\ Revoked(k).revokedAt # Nil
<1>1. Revoked(k).session = k.session /\ Revoked(k).replaced = k.replaced
  BY DEF Revoked, TokenRow
<1> QED
  BY <1>1, RevokedType

LEMMA RevokeAllKeeps ==
  ASSUME TypeOK, RevokeAll, UNCHANGED <<forked, sessions>> PROVE RowsKept
BY RevokeAllShape, RevokedKeeps, TokensAre DEF RowsKept

\* A login opens a session no token and no request has.
LEMMA LoginOpens ==
  ASSUME Shape, OneInv, NEW r \in Requests, BeginLogin(r)
  PROVE  OneInv'
<1> USE DEF Shape
<1>0. sessions \in Nat /\ sessions' = sessions + 1 /\ UNCHANGED <<tokens, forked>>
  BY DEF BeginLogin, TypeOK, history
<1>1. \A q \in Requests \ {r} : pc'[q] = pc[q] /\ work'[q] = work[q]
  BY DEF BeginLogin, Goto, TypeOK
<1>2. work'[r].session = sessions + 1 /\ pc'[r] \in {"login:reset", "issue"}
  BY DEF BeginLogin, Goto, TypeOK, NoWork
<1>3. \A t \in DOMAIN tokens : tokens[t].session \in Nat /\ tokens[t].session <= sessions
  BY TokensAre, TokenFields DEF OneInv, SessionsNumbered
<1>4. \A q \in Requests : pc[q] \in {"login:reset", "issue"} =>
        work[q].session \in Nat /\ work[q].session <= sessions
  BY BusyLocal, LocalFields DEF OneInv, SessionsNumbered
<1>5. SoleHolder'
  <2> SUFFICES ASSUME NEW s \in Nat \ forked
               PROVE  /\ \A t, u \in DOMAIN tokens : Unreplaced(t, s) /\ Unreplaced(u, s) => t = u
                      /\ \A t \in DOMAIN tokens, q \in Requests : ~ (Unreplaced(t, s) /\ Holds(q, s)')
                      /\ \A p, q \in Requests : Holds(p, s)' /\ Holds(q, s)' => p = q
    BY <1>0 DEF SoleHolder, Unreplaced
  <2>1. \A q \in Requests \ {r} : Holds(q, s)' <=> Holds(q, s)
    BY <1>1 DEF Holds
  <2>2. CASE s = sessions + 1
    <3>1. \A t \in DOMAIN tokens : ~ Unreplaced(t, s)
      BY <1>0, <1>3, <2>2 DEF Unreplaced
    <3>2. \A q \in Requests : ~ Holds(q, s)
      BY <1>0, <1>4, <2>2 DEF Holds
    <3> QED
      BY <2>1, <3>1, <3>2
  <2>3. CASE s # sessions + 1
    <3>1. ~ Holds(r, s)'
      BY <1>2, <2>3 DEF Holds
    <3> QED
      BY <2>1, <3>1 DEF OneInv, SoleHolder
  <2> QED
    BY <2>2, <2>3
<1>6. ReplacedRevoked' /\ RotatesItsOwn'
  BY <1>0, <1>1, <1>2 DEF OneInv, ReplacedRevoked, RotatesItsOwn
<1>7. SessionsNumbered'
  <2>1. \A t \in DOMAIN tokens : tokens[t].session <= sessions + 1
    BY <1>0, <1>3
  <2>2. ASSUME NEW q \in Requests, pc'[q] \in {"login:reset", "issue"}
        PROVE  work'[q].session <= sessions + 1
    BY <1>0, <1>1, <1>2, <1>4, <2>2
  <2> QED
    BY <1>0, <2>1, <2>2 DEF SessionsNumbered
<1> QED
  BY <1>5, <1>6, <1>7 DEF OneInv

\* The one who held the session puts the one token in its place.
LEMMA IssueKeeps ==
  ASSUME Shape, OneInv, NEW r \in Requests, IssueTokenPair(r)
  PROVE  OneInv'
<1> USE DEF Shape
<1> DEFINE k == [revokedAt |-> Nil, expiresAt |-> clock + REFRESH_EXPIRES,
                 session |-> work[r].session, replaced |-> FALSE,
                 known |-> work[r].known, excused |-> work[r].excused]
<1>1. /\ tokens' = Append(tokens, k) /\ UNCHANGED <<forked, sessions>>
      /\ k.session = work[r].session /\ k.replaced = FALSE
  BY DEF IssueTokenPair, history
<1> HIDE DEF k
<1>2. pc[r] = "issue" /\ pc'[r] = "idle"
        /\ \A q \in Requests \ {r} : pc'[q] = pc[q] /\ work'[q] = work[q]
  BY DEF IssueTokenPair, Finish, Goto, TypeOK
<1>3. tokens \in Seq(TokenRow)
  BY DEF TypeOK
<1>4. /\ DOMAIN tokens' = 1..(Len(tokens) + 1) /\ tokens'[Len(tokens) + 1] = k
      /\ DOMAIN tokens = 1..Len(tokens) /\ Len(tokens) \in Nat
      /\ \A t \in 1..Len(tokens) : tokens'[t] = tokens[t]
  BY <1>1, <1>3
<1> PICK n \in Nat : n = Len(tokens) + 1
  BY <1>4
<1>d. \A t \in DOMAIN tokens' : t \in DOMAIN tokens \/ t = n
  BY <1>4
<1>5. SoleHolder'
  <2> SUFFICES ASSUME NEW s \in Nat \ forked
               PROVE  /\ \A t, u \in DOMAIN tokens' : Unreplaced(t, s)' /\ Unreplaced(u, s)' => t = u
                      /\ \A t \in DOMAIN tokens', q \in Requests : ~ (Unreplaced(t, s)' /\ Holds(q, s)')
                      /\ \A p, q \in Requests : Holds(p, s)' /\ Holds(q, s)' => p = q
    BY <1>1 DEF SoleHolder
  <2>1. \A q \in Requests : Holds(q, s)' => Holds(q, s) /\ q # r
    BY <1>2 DEF Holds
  <2>2. \A t \in DOMAIN tokens : Unreplaced(t, s)' <=> Unreplaced(t, s)
    BY <1>4 DEF Unreplaced
  <2>3. Unreplaced(n, s)' => Holds(r, s)
    BY <1>1, <1>2, <1>4 DEF Unreplaced, Holds
  <2> QED
    BY <1>d, <2>1, <2>2, <2>3 DEF OneInv, SoleHolder
<1>6. ReplacedRevoked'
  BY <1>1, <1>4, <1>d DEF OneInv, ReplacedRevoked
<1>7. RotatesItsOwn'
  BY <1>2, <1>4 DEF OneInv, RotatesItsOwn, LocalsReady
<1>8. SessionsNumbered'
  BY <1>1, <1>2, <1>4, <1>d DEF OneInv, SessionsNumbered
<1> QED
  BY <1>5, <1>6, <1>7, <1>8 DEF OneInv

\* The token gives way to the request - or the session is forked.
LEMMA RotateKeeps ==
  ASSUME Shape, OneInv, NEW r \in Requests, Rotate(r)
  PROVE  OneInv'
<1> USE DEF Shape
<1> DEFINE t == work[r].token
           s == work[r].session
<1>1. /\ t \in DOMAIN tokens /\ tokens[t] \in TokenRow /\ clock # Nil
      /\ pc[r] = "rotate" /\ tokens[t].session = s
  BY TokensAre, ClockIs, AllowanceAssumption DEF Rotate, LocalsReady, OneInv, RotatesItsOwn
<1>2. /\ DOMAIN tokens' = DOMAIN tokens /\ tokens'[t].revokedAt = clock
      /\ tokens'[t].session = s /\ tokens'[t].replaced = TRUE
      /\ \A u \in DOMAIN tokens \ {t} : tokens'[u] = tokens[u]
  BY <1>1 DEF Rotate, TypeOK, TokenRow
<1>3. pc'[r] = "issue" /\ work'[r] = work[r] /\ sessions' = sessions
        /\ \A q \in Requests \ {r} : pc'[q] = pc[q] /\ work'[q] = work[q]
  BY DEF Rotate, Goto, TypeOK
<1>4. forked' = IF tokens[t].replaced THEN forked \cup {s} ELSE forked
  BY DEF Rotate
<1> HIDE DEF t, s
<1>w. work[r].session = s
  BY DEF s
<1>5. SoleHolder'
  <2> SUFFICES ASSUME NEW z \in Nat \ forked'
               PROVE  /\ \A v, u \in DOMAIN tokens : Unreplaced(v, z)' /\ Unreplaced(u, z)' => v = u
                      /\ \A v \in DOMAIN tokens, q \in Requests : ~ (Unreplaced(v, z)' /\ Holds(q, z)')
                      /\ \A p, q \in Requests : Holds(p, z)' /\ Holds(q, z)' => p = q
    BY <1>2 DEF SoleHolder
  <2>1. z \in Nat \ forked
    BY <1>4
  <2>2. \A u \in DOMAIN tokens : Unreplaced(u, z)' => Unreplaced(u, z) /\ u # t
    BY <1>2 DEF Unreplaced
  <2>3. \A q \in Requests \ {r} : Holds(q, z)' => Holds(q, z)
    BY <1>3 DEF Holds
  <2>4. CASE z = s
    <3>1. Unreplaced(t, z)
      BY <1>1, <1>4, <2>4 DEF Unreplaced
    <3> QED
      BY <1>1, <2>1, <2>2, <2>3, <3>1 DEF OneInv, SoleHolder
  <2>5. CASE z # s
    <3>1. ~ Holds(r, z)'
      BY <1>3, <1>w, <2>5 DEF Holds
    <3> QED
      BY <2>1, <2>2, <2>3, <3>1 DEF OneInv, SoleHolder
  <2> QED
    BY <2>4, <2>5
<1>6. ReplacedRevoked'
  BY <1>1, <1>2 DEF OneInv, ReplacedRevoked
<1>7. RotatesItsOwn'
  <2> SUFFICES ASSUME NEW q \in Requests, pc'[q] = "rotate"
               PROVE  work'[q].session = tokens'[work'[q].token].session
    BY DEF RotatesItsOwn
  <2>1. q # r /\ pc[q] = "rotate" /\ work'[q] = work[q] /\ work[q].token \in DOMAIN tokens
    BY <1>3 DEF LocalsReady
  <2>2. \A u \in DOMAIN tokens : tokens'[u].session = tokens[u].session
    BY <1>1, <1>2
  <2> QED
    BY <2>1, <2>2 DEF OneInv, RotatesItsOwn
<1>8. SessionsNumbered'
  <2>1. \A u \in DOMAIN tokens : tokens'[u].session = tokens[u].session
    BY <1>1, <1>2
  <2>2. work'[r].session <= sessions
    BY <1>1, <1>3, <1>w DEF OneInv, SessionsNumbered
  <2> QED
    BY <1>2, <1>3, <2>1, <2>2 DEF OneInv, SessionsNumbered
<1> QED
  BY <1>5, <1>6, <1>7, <1>8 DEF OneInv

LEMMA LoginOne ==
  ASSUME Shape, OneInv, NEW r \in Requests, Login(r)
  PROVE  OneInv'
<1> USE DEF Shape
<1>1. CASE BeginFailingLogin(r) \/ CountFailure(r) \/ LockUser(r) \/ ResetFailures(r)
  <2>1. UNCHANGED <<tokens, forked, sessions>>
    BY <1>1 DEF BeginFailingLogin, CountFailure, LockUser, ResetFailures, history
  <2>2. \A q \in Requests \ {r} : pc'[q] = pc[q] /\ work'[q] = work[q]
    BY <1>1 DEF BeginFailingLogin, CountFailure, LockUser, ResetFailures, Goto, Finish, TypeOK
  <2>3. \/ pc'[r] \in {"fail:count", "fail:lock", "idle"}
        \/ pc[r] = "login:reset" /\ pc'[r] = "issue" /\ work'[r] = work[r]
    BY <1>1 DEF BeginFailingLogin, CountFailure, LockUser, ResetFailures, Goto, Finish, TypeOK
  <2> QED
    BY <2>1, <2>2, <2>3, OneMoves
<1> QED
  BY <1>1, LoginOpens, IssueKeeps DEF Login

LEMMA RefreshOne ==
  ASSUME Shape, OneInv, NEW r \in Requests, Refresh(r)
  PROVE  OneInv'
<1> USE DEF Shape
<1>1. forked' = forked \/ Rotate(r)
  BY DEF Refresh, BeginRefresh, BeginReuse, FindCurrent, RevokeOnReuse, history
<1>2. sessions' = sessions /\ \A q \in Requests \ {r} : pc'[q] = pc[q] /\ work'[q] = work[q]
  BY DEF Refresh, BeginRefresh, BeginReuse, FindCurrent, Rotate, RevokeOnReuse, Goto, Finish, TypeOK
<1>3. ASSUME NEW t \in DOMAIN tokens, BeginRefresh(r, t) PROVE OneInv'
  <2>1. UNCHANGED <<tokens, forked>> /\ pc'[r] = "rotate" /\ work'[r] = Presented(t)
    BY <1>3 DEF BeginRefresh, Goto, TypeOK, history
  <2>2. Presented(t).token = t /\ Presented(t).session = tokens[t].session
    BY PresentedType DEF Presented, NoWork
  <2> QED
    BY <1>2, <2>1, <2>2, OneMoves
<1>4. ASSUME NEW t \in DOMAIN tokens, BeginReuse(r, t) PROVE OneInv'
  <2>1. UNCHANGED <<tokens, forked>> /\ pc'[r] \in {"current", "revoke:reuse"}
    BY <1>4 DEF BeginReuse, Goto, TypeOK, history
  <2> QED
    BY <1>2, <2>1, OneMoves
<1>5. CASE FindCurrent(r)
  <2>1. UNCHANGED <<tokens, forked>> /\ work[r] \in Local
    BY <1>5, BusyLocal DEF FindCurrent, history
  <2>2. \/ pc'[r] = "revoke:reuse"
        \/ pc'[r] = "rotate" /\ \E t \in Unexpired : work'[r] =
             [work[r] EXCEPT !.token = t, !.excused = TRUE, !.session = tokens[t].session]
    BY <1>5 DEF FindCurrent, Goto, TypeOK
  <2>3. \/ pc'[r] = "revoke:reuse"
        \/ pc'[r] = "rotate" /\ \E t \in DOMAIN tokens :
             work'[r].token = t /\ work'[r].session = tokens[t].session
    BY <2>1, <2>2 DEF Local, Unexpired, LiveTokens
  <2> QED
    BY <1>2, <2>1, <2>3, OneMoves
<1>6. CASE RevokeOnReuse(r)
  <2>1. RowsKept /\ pc'[r] = "idle"
    BY <1>2, <1>6, RevokeAllKeeps DEF RevokeOnReuse, Finish, Goto, TypeOK, history
  <2> QED
    BY <1>2, <2>1, OneRests DEF OneInv, RotatesItsOwn, LocalsReady
<1> QED
  BY <1>3, <1>4, <1>5, <1>6, RotateKeeps DEF Refresh

LEMMA PasswordOne ==
  ASSUME Shape, OneInv, NEW r \in Requests, Password(r)
  PROVE  OneInv'
<1> USE DEF Shape
<1>1. CASE BeginChange(r) \/ BeginReset(r) \/ WritePassword(r)
  <2>1. UNCHANGED <<tokens, forked, sessions>> /\ pc'[r] \in {"write", "revoke"}
    BY <1>1 DEF BeginChange, BeginReset, WritePassword, Goto, TypeOK, history
  <2>2. \A q \in Requests \ {r} : pc'[q] = pc[q] /\ work'[q] = work[q]
    BY <1>1 DEF BeginChange, BeginReset, WritePassword, Goto, TypeOK
  <2> QED
    BY <2>1, <2>2, OneMoves
<1>2. CASE EndSessions(r)
  <2>1. RowsKept
    BY <1>2, RevokeAllKeeps DEF EndSessions
  <2>2. \A q \in Requests : pc'[q] = IF q = r THEN "idle" ELSE pc[q]
    BY <1>2 DEF EndSessions, TypeOK
  <2>3. ASSUME NEW q \in Requests \ {r}, Straddles(q)
        PROVE  work'[q].session = work[q].session /\ work'[q].token = work[q].token
    <3>1. work[q] \in Local /\ work'[q] = [work[q] EXCEPT !.excused = TRUE]
      BY <1>2, <2>3, BusyLocal DEF EndSessions, Straddles
    <3> QED
      BY <3>1 DEF Local
  <2> QED
    BY <2>1, <2>2, <2>3, OneRests DEF OneInv, RotatesItsOwn, LocalsReady, Straddles
<1> QED
  BY <1>1, <1>2 DEF Password

LEMMA OneStep == ASSUME Shape, OneInv, [Next]_vars PROVE OneInv'
<1> USE DEF Shape
<1>1. ASSUME NEW r \in Requests, TwoFactor(r) \/ Abort(r) PROVE OneInv'
  <2>1. UNCHANGED <<tokens, forked, sessions>> /\ pc'[r] \in {"enable", "disable", "idle"}
    BY <1>1 DEF TwoFactor, BeginEnable, Enable, BeginDisable, Disable, Abort, Goto, Finish,
       TypeOK, history
  <2>2. \A q \in Requests \ {r} : pc'[q] = pc[q] /\ work'[q] = work[q]
    BY <1>1 DEF TwoFactor, BeginEnable, Enable, BeginDisable, Disable, Abort, Goto, Finish, TypeOK
  <2> QED
    BY <2>1, <2>2, OneMoves
<1>2. ASSUME NEW t \in DOMAIN tokens, Logout(t) PROVE OneInv'
  <2>1. UNCHANGED <<pc, work, forked, sessions>>
    BY <1>2 DEF Logout, history
  <2>2. DOMAIN tokens' = DOMAIN tokens /\ tokens'[t] = Revoked(tokens[t])
          /\ \A u \in DOMAIN tokens \ {t} : tokens'[u] = tokens[u]
    BY <1>2 DEF Logout, TypeOK
  <2>3. RowsKept
    BY <2>1, <2>2, TokensAre, RevokedKeeps DEF RowsKept
  <2> QED
    BY <2>1, <2>3, OneRests DEF OneInv, RotatesItsOwn, LocalsReady
<1>3. CASE RequestReset \/ GenerateSecret \/ Unlock \/ Tick \/ UNCHANGED vars
  <2>1. UNCHANGED <<tokens, pc, work, forked, sessions>>
    BY <1>3 DEF RequestReset, GenerateSecret, Unlock, Tick, vars, history
  <2>2. RowsKept
    BY <2>1 DEF RowsKept
  <2> QED
    BY <2>1, <2>2, OneRests DEF OneInv, RotatesItsOwn, LocalsReady
<1> QED
  BY <1>1, <1>2, <1>3, LoginOne, RefreshOne, PasswordOne DEF Next

----------------------------------------------------------------------------
\* The lock.

At(step, c) == Cardinality({q \in Requests : c[q] = step})
Adds(s, step) == IF s = step THEN 1 ELSE 0
Counted(step, c, d, r) ==
  /\ At(step, c) \in Nat /\ At(step, d) \in Nat
  /\ At(step, d) + Adds(c[r], step) = At(step, c) + Adds(d[r], step)
Beyond(ticks) == Cardinality(Requests) * ticks

\* Until the lock is written, each failure beyond the limit is of a request that
\* is now about to write one; a failure that is to be counted is one of as many
\* as there are requests.
FailuresInv ==
  lockLost \/
    /\ user.failed + At("fail:count", pc) <= MAX_FAILED_LOGINS - 1 + Beyond(clock + 1)
    /\ ~ Locked => user.failed <= MAX_FAILED_LOGINS - 1 + At("fail:lock", pc) + Beyond(clock)

LEMMA AtType == ASSUME NEW step, NEW c PROVE At(step, c) \in Nat
<1>1. IsFiniteSet({q \in Requests : c[q] = step})
  BY LimitAssumption, FS_Subset
<1> QED
  BY <1>1, FS_CardinalityType DEF At

LEMMA AtStep ==
  ASSUME NEW step, NEW c, NEW d, NEW r \in Requests, \A q \in Requests \ {r} : d[q] = c[q]
  PROVE  Counted(step, c, d, r)
<1> DEFINE A == {q \in Requests : c[q] = step}
           B == {q \in Requests : d[q] = step}
           R == {q \in Requests \ {r} : c[q] = step}
<1>1. IsFiniteSet(R) /\ r \notin R
  BY LimitAssumption, FS_Subset
<1>2. Cardinality(R) \in Nat /\ Cardinality(R \cup {r}) = Cardinality(R) + 1
  BY <1>1, FS_CardinalityType, FS_AddElement
<1>3. A = IF c[r] = step THEN R \cup {r} ELSE R
  OBVIOUS
<1>4. B = IF d[r] = step THEN R \cup {r} ELSE R
  OBVIOUS
<1>5. At(step, c) = Cardinality(A) /\ At(step, d) = Cardinality(B)
  BY DEF At
<1> HIDE DEF A, B, R
<1> QED
  BY <1>2, <1>3, <1>4, <1>5 DEF Counted, Adds

\* No request is at both steps.
LEMMA AtMost ==
  ASSUME NEW c
  PROVE  /\ At("fail:count", c) + At("fail:lock", c) <= Cardinality(Requests)
         /\ Cardinality(Requests) \in Nat
<1> DEFINE A == {q \in Requests : c[q] = "fail:count"}
           B == {q \in Requests : c[q] = "fail:lock"}
<1>1. IsFiniteSet(A) /\ IsFiniteSet(B) /\ A \cap B = {}
  BY LimitAssumption, FS_Subset
<1>2. Cardinality(A \cup B) = Cardinality(A) + Cardinality(B) - Cardinality(A \cap B)
  BY <1>1, FS_Union
<1>3. Cardinality(A \cup B) <= Cardinality(Requests) /\ Cardinality(Requests) \in Nat
  BY LimitAssumption, FS_Subset, FS_CardinalityType
<1>4. Cardinality(A \cap B) = 0 /\ Cardinality(A) \in Nat /\ Cardinality(B) \in Nat
  BY <1>1, FS_EmptySet, FS_CardinalityType
<1>5. At("fail:count", c) = Cardinality(A) /\ At("fail:lock", c) = Cardinality(B)
  BY DEF At
<1> HIDE DEF A, B
<1> QED
  BY <1>2, <1>3, <1>4, <1>5

LEMMA BeyondNext ==
  ASSUME NEW k \in Nat
  PROVE  Beyond(k) \in Nat /\ Beyond(k + 1) = Beyond(k) + Cardinality(Requests)
<1>1. PICK n \in Nat : n = Cardinality(Requests)
  BY LimitAssumption, FS_CardinalityType
<1>2. n * k \in Nat /\ n * (k + 1) = n * k + n
  BY <1>1
<1> QED
  BY <1>1, <1>2 DEF Beyond

LEMMA FailuresInit == ASSUME Init PROVE FailuresInv
<1>1. \A step \in {"fail:count", "fail:lock"} : {q \in Requests : pc[q] = step} = {}
  BY DEF Init
<1>2. At("fail:count", pc) = 0 /\ At("fail:lock", pc) = 0
  BY <1>1, FS_EmptySet DEF At
<1>3. user.failed = 0 /\ clock = 0
  BY DEF Init
<1>4. Beyond(0) \in Nat /\ Beyond(0 + 1) = Beyond(0) + Cardinality(Requests)
        /\ Cardinality(Requests) \in Nat
  BY AtMost, BeyondNext
<1> QED
  BY <1>2, <1>3, <1>4, LimitAssumption DEF FailuresInv

\* The numbers of a state, for a step that moves request r.
LEMMA FailuresAre ==
  ASSUME Shape
  PROVE  /\ user.failed \in Nat /\ clock \in Nat
         /\ At("fail:count", pc) \in Nat /\ At("fail:lock", pc) \in Nat
         /\ At("fail:count", pc') \in Nat /\ At("fail:lock", pc') \in Nat
         /\ At("fail:count", pc') + At("fail:lock", pc') <= Cardinality(Requests)
         /\ At("fail:count", pc) + At("fail:lock", pc) <= Cardinality(Requests)
         /\ Cardinality(Requests) \in Nat /\ MAX_FAILED_LOGINS \in Nat \ {0}
         /\ Beyond(clock) \in Nat /\ Beyond(clock + 1) = Beyond(clock) + Cardinality(Requests)
<1>1. clock \in Nat /\ user \in UserRow
  BY ClockIs DEF Shape, TypeOK
<1> QED
  BY <1>1, AtType, AtMost, BeyondNext, LimitAssumption DEF UserRow

\* A step that counts no failure and keeps the lock, of requests that are at
\* neither step after it unless they were.
LEMMA FailuresRest ==
  ASSUME Shape, FailuresInv, user'.failed = user.failed, user'.lockedUntil = user.lockedUntil,
         clock' = clock, lockLost' = lockLost,
         \A q \in Requests, step \in {"fail:count", "fail:lock"} : pc'[q] = step <=> pc[q] = step
  PROVE  FailuresInv'
<1>1. At("fail:count", pc') = At("fail:count", pc) /\ At("fail:lock", pc') = At("fail:lock", pc)
  BY DEF At
<1> QED
  BY <1>1 DEF FailuresInv, Locked

LEMMA FailuresLogin ==
  ASSUME Shape, FailuresInv, NEW r \in Requests, Login(r)
  PROVE  FailuresInv'
<1> DEFINE F == user.failed
           N == Cardinality(Requests)
           M == MAX_FAILED_LOGINS
           C == At("fail:count", pc)
           L == At("fail:lock", pc)
           D == At("fail:count", pc')
           K == At("fail:lock", pc')
           E == Beyond(clock)
<1>1. /\ F \in Nat /\ C \in Nat /\ L \in Nat /\ D \in Nat /\ K \in Nat /\ N \in Nat
      /\ M \in Nat \ {0} /\ E \in Nat /\ D + K <= N /\ C + L <= N /\ Beyond(clock + 1) = E + N
  BY FailuresAre
<1>2. ASSUME ~ lockLost
      PROVE  F + C <= M - 1 + (E + N) /\ (~ Locked => F <= M - 1 + L + E)
  BY <1>1, <1>2 DEF FailuresInv
<1>3. ASSUME \A q \in Requests \ {r} : pc'[q] = pc[q]
      PROVE  /\ D + Adds(pc[r], "fail:count") = C + Adds(pc'[r], "fail:count")
             /\ K + Adds(pc[r], "fail:lock") = L + Adds(pc'[r], "fail:lock")
  <2>1. Counted("fail:count", pc, pc', r) /\ Counted("fail:lock", pc, pc', r)
    BY <1>3, AtStep
  <2> QED
    BY <2>1 DEF Counted
<1>4. /\ clock' = clock /\ lockLost' = lockLost
      /\ \A q \in Requests \ {r} : pc'[q] = pc[q]
  BY DEF Login, BeginFailingLogin, CountFailure, LockUser, BeginLogin, ResetFailures,
     IssueTokenPair, Finish, Goto, history, Shape, TypeOK
<1>5. user \in UserRow /\ pc \in [Requests -> Steps] /\ clock \in Nat
  BY ClockIs DEF Shape, TypeOK
<1>6. CASE BeginFailingLogin(r)
  <2>1. pc[r] = "idle" /\ pc'[r] = "fail:count" /\ user' = user /\ ~ Locked
    BY <1>5, <1>6 DEF BeginFailingLogin, Goto
  <2>2. D = C + 1 /\ K = L
    BY <1>1, <1>3, <1>4, <2>1 DEF Adds
  <2>3. Locked' <=> Locked
    BY <1>4, <2>1 DEF Locked
  <2> SUFFICES ASSUME ~ lockLost
               PROVE  F + D <= M - 1 + (E + N) /\ (~ Locked => F <= M - 1 + K + E)
    BY <1>1, <1>4, <2>1, <2>3 DEF FailuresInv
  <2> HIDE DEF F, N, M, C, L, D, K, E
  <2> QED
    BY <1>1, <1>2, <2>1, <2>2
<1>7. CASE CountFailure(r)
  <2>1. /\ pc[r] = "fail:count" /\ user'.failed = F + 1 /\ user'.lockedUntil = user.lockedUntil
        /\ pc'[r] = IF F + 1 >= M THEN "fail:lock" ELSE "idle"
    BY <1>5, <1>7 DEF CountFailure, Finish, Goto, UserRow
  <2>2. D + 1 = C /\ K = IF F + 1 >= M THEN L + 1 ELSE L
    BY <1>1, <1>3, <1>4, <2>1 DEF Adds
  <2>3. Locked' <=> Locked
    BY <1>4, <2>1 DEF Locked
  <2> SUFFICES ASSUME ~ lockLost
               PROVE  F + 1 + D <= M - 1 + (E + N) /\ (~ Locked => F + 1 <= M - 1 + K + E)
    BY <1>1, <1>4, <2>1, <2>3 DEF FailuresInv
  <2> HIDE DEF F, N, M, C, L, D, K, E
  <2> QED
    BY <1>1, <1>2, <2>2
<1>8. CASE LockUser(r)
  <2>1. /\ pc[r] = "fail:lock" /\ pc'[r] = "idle" /\ user'.failed = F
        /\ user'.lockedUntil = clock + LOCKOUT
    BY <1>5, <1>8 DEF LockUser, Finish, Goto, UserRow
  <2>2. D = C
    BY <1>1, <1>3, <1>4, <2>1 DEF Adds
  <2>3. Locked'
    BY <1>4, <1>5, <2>1, LimitAssumption, AllowanceAssumption DEF Locked
  <2> SUFFICES ASSUME ~ lockLost
               PROVE  F + D <= M - 1 + (E + N)
    BY <1>1, <1>4, <2>1, <2>3 DEF FailuresInv
  <2> HIDE DEF F, N, M, C, L, D, K, E
  <2> QED
    BY <1>1, <1>2, <2>2
<1>9. CASE ResetFailures(r)
  <2>1. user'.failed = 0
    BY <1>5, <1>9 DEF ResetFailures, UserRow
  <2>2. 0 + D <= M - 1 + (E + N) /\ 0 <= M - 1 + K + E
    <3> HIDE DEF F, N, M, C, L, D, K, E
    <3> QED
      BY <1>1
  <2> QED
    BY <1>1, <1>4, <2>1, <2>2 DEF FailuresInv
<1>10. CASE BeginLogin(r) \/ IssueTokenPair(r)
  <2>1. /\ user' = user
        /\ pc[r] \notin {"fail:count", "fail:lock"} /\ pc'[r] \notin {"fail:count", "fail:lock"}
    BY <1>5, <1>10 DEF BeginLogin, IssueTokenPair, Finish, Goto
  <2> QED
    BY <1>4, <2>1, FailuresRest
<1> QED
  BY <1>6, <1>7, <1>8, <1>9, <1>10 DEF Login

LEMMA FailuresEvent ==
  ASSUME Shape, FailuresInv, Tick \/ Unlock \/ \E r \in Requests : Abort(r)
  PROVE  FailuresInv'
<1> DEFINE F == user.failed
           N == Cardinality(Requests)
           M == MAX_FAILED_LOGINS
           C == At("fail:count", pc)
           L == At("fail:lock", pc)
           D == At("fail:count", pc')
           K == At("fail:lock", pc')
           E == Beyond(clock)
<1>1. /\ F \in Nat /\ C \in Nat /\ L \in Nat /\ D \in Nat /\ K \in Nat /\ N \in Nat
      /\ M \in Nat \ {0} /\ E \in Nat /\ D + K <= N /\ C + L <= N /\ Beyond(clock + 1) = E + N
  BY FailuresAre
<1>2. ASSUME ~ lockLost
      PROVE  F + C <= M - 1 + (E + N) /\ (~ Locked => F <= M - 1 + L + E)
  BY <1>1, <1>2 DEF FailuresInv
<1>3. user \in UserRow /\ pc \in [Requests -> Steps] /\ clock \in Nat
  BY ClockIs DEF Shape, TypeOK
<1>4. CASE Tick
  <2>1. clock' = clock + 1 /\ user' = user /\ lockLost' = lockLost /\ pc' = pc
    BY <1>4 DEF Tick, history
  <2>2. Beyond(clock' + 1) = E + N + N /\ Beyond(clock') = E + N
    <3>1. clock + 1 \in Nat
      BY <1>3
    <3>2. Beyond(clock + 1 + 1) = Beyond(clock + 1) + N
      BY <3>1, BeyondNext
    <3> QED
      BY <1>1, <2>1, <3>2
  <2> SUFFICES ASSUME ~ lockLost
               PROVE  F + C <= M - 1 + (E + N + N) /\ F <= M - 1 + L + (E + N)
    BY <2>1, <2>2 DEF FailuresInv
  <2> HIDE DEF F, N, M, C, L, D, K, E
  <2> QED
    BY <1>1, <1>2
<1>5. CASE Unlock
  <2>1. user'.failed = 0 /\ clock' = clock
    BY <1>3, <1>5 DEF Unlock, UserRow
  <2>2. 0 + D <= M - 1 + (E + N) /\ 0 <= M - 1 + K + E
    <3> HIDE DEF F, N, M, C, L, D, K, E
    <3> QED
      BY <1>1
  <2> QED
    BY <1>1, <2>1, <2>2 DEF FailuresInv
<1>6. ASSUME NEW r \in Requests, Abort(r) PROVE FailuresInv'
  <2>1. /\ clock' = clock /\ user' = user /\ pc'[r] = "idle"
        /\ lockLost' = (lockLost \/ pc[r] = "fail:lock")
        /\ \A q \in Requests \ {r} : pc'[q] = pc[q]
    BY <1>3, <1>6 DEF Abort, Finish, Goto
  <2>2. Counted("fail:count", pc, pc', r) /\ Counted("fail:lock", pc, pc', r)
    BY <2>1, AtStep
  <2>3. D <= C /\ (pc[r] # "fail:lock" => K = L)
    BY <1>1, <2>1, <2>2 DEF Counted, Adds
  <2>4. Locked' <=> Locked
    BY <2>1 DEF Locked
  <2> SUFFICES ASSUME ~ lockLost, pc[r] # "fail:lock"
               PROVE  F + D <= M - 1 + (E + N) /\ (~ Locked => F <= M - 1 + K + E)
    BY <1>1, <2>1, <2>4 DEF FailuresInv
  <2> HIDE DEF F, N, M, C, L, D, K, E
  <2> QED
    BY <1>1, <1>2, <2>3
<1> QED
  BY <1>4, <1>5, <1>6

LEMMA FailuresStep == ASSUME Shape, FailuresInv, [Next]_vars PROVE FailuresInv'
<1>1. user \in UserRow /\ pc \in [Requests -> Steps]
  BY DEF Shape, TypeOK
<1>2. ASSUME NEW r \in Requests, Refresh(r) PROVE FailuresInv'
  <2>1. clock' = clock /\ user' = user /\ lockLost' = lockLost
    BY <1>2 DEF Refresh, BeginRefresh, BeginReuse, FindCurrent, Rotate, RevokeOnReuse, history
  <2>2. \A q \in Requests, step \in {"fail:count", "fail:lock"} : pc'[q] = step <=> pc[q] = step
    BY <1>1, <1>2 DEF Refresh, BeginRefresh, BeginReuse, FindCurrent, Rotate, RevokeOnReuse,
       Finish, Goto
  <2> QED
    BY <2>1, <2>2, FailuresRest
<1>3. ASSUME NEW r \in Requests, Password(r) PROVE FailuresInv'
  <2>1. /\ user'.failed = user.failed /\ user'.lockedUntil = user.lockedUntil
        /\ clock' = clock /\ lockLost' = lockLost
    BY <1>1, <1>3 DEF Password, BeginChange, BeginReset, WritePassword, EndSessions, UserRow,
       history
  <2>2. \A q \in Requests, step \in {"fail:count", "fail:lock"} : pc'[q] = step <=> pc[q] = step
    BY <1>1, <1>3 DEF Password, BeginChange, BeginReset, WritePassword, EndSessions, Goto
  <2> QED
    BY <2>1, <2>2, FailuresRest
<1>4. ASSUME NEW r \in Requests, TwoFactor(r) PROVE FailuresInv'
  <2>1. /\ user'.failed = user.failed /\ user'.lockedUntil = user.lockedUntil
        /\ clock' = clock /\ lockLost' = lockLost
    BY <1>1, <1>4 DEF TwoFactor, BeginEnable, Enable, BeginDisable, Disable, UserRow, history
  <2>2. \A q \in Requests, step \in {"fail:count", "fail:lock"} : pc'[q] = step <=> pc[q] = step
    BY <1>1, <1>4 DEF TwoFactor, BeginEnable, Enable, BeginDisable, Disable, Finish, Goto
  <2> QED
    BY <2>1, <2>2, FailuresRest
<1>5. CASE (\E t \in DOMAIN tokens : Logout(t)) \/ RequestReset \/ GenerateSecret \/ UNCHANGED vars
  <2>1. /\ user'.failed = user.failed /\ user'.lockedUntil = user.lockedUntil
        /\ clock' = clock /\ lockLost' = lockLost /\ pc' = pc
    BY <1>1, <1>5 DEF Logout, RequestReset, GenerateSecret, UserRow, history, vars
  <2> QED
    BY <2>1, FailuresRest
<1> QED
  BY <1>2, <1>3, <1>4, <1>5, FailuresLogin, FailuresEvent DEF Next

----------------------------------------------------------------------------
\* The theorems.

\* The tables and the requests keep their shape: what a request's locals name exists.
THEOREM SessionTypes == Spec => []TypeOK
<1>1. Shape => TypeOK
  BY DEF Shape
<1> QED
  BY <1>1, ShapeInit, ShapeStep, PTL DEF Spec

\* A second factor is asked for only with a secret a code was once checked against,
\* unless another request changed the secret next to the one that enabled it.
THEOREM FactorsConfirmed == Spec => []TwoFactorConfirmed
<1>1. FactorInv => TwoFactorConfirmed
  BY DEF FactorInv
<1> QED
  BY <1>1, ShapeInit, ShapeStep, FactorInit, FactorStep, PTL DEF Spec

\* After a change or a reset of the password no session of an older one is live,
\* but those whose issue straddled the revocation and those taken over by grace.
THEOREM PasswordEndsSessions == Spec => []SessionsEndWithPassword
<1>1. EndInv => SessionsEndWithPassword
  BY DEF EndInv
<1> QED
  BY <1>1, ShapeInit, ShapeStep, EndInit, EndStep, PTL DEF Spec

\* Rotation leaves a session one live token, however many requests refresh it,
\* unless two of them replaced the same token.
THEOREM OneLiveToken == Spec => []OneLivePerSession
BY ShapeInit, ShapeStep, OneInit, OneStep, OneInvSuffices, PTL DEF Spec

\* Between two resets of the counter the failures beyond the limit are at most
\* those that had read the row before the lock was written, once more for each
\* time a lock has run out (AuthService.login).
THEOREM FailuresAlwaysBounded == Spec => []FailuresBounded
<1>1. ASSUME Shape, FailuresInv PROVE FailuresBounded
  <2>1. ~ lockLost => user.failed + At("fail:count", pc) <= MAX_FAILED_LOGINS - 1 + Beyond(clock + 1)
    BY <1>1 DEF FailuresInv
  <2>2. Beyond(clock + 1) = Cardinality(Requests) * (clock + 1)
    BY DEF Beyond
  <2>3. /\ user.failed \in Nat /\ At("fail:count", pc) \in Nat /\ MAX_FAILED_LOGINS \in Nat
        /\ Beyond(clock + 1) \in Nat
    <3>1. clock \in Nat /\ user \in UserRow
      BY <1>1, ClockIs DEF Shape, TypeOK
    <3>2. clock + 1 \in Nat
      BY <3>1
    <3> QED
      BY <3>1, <3>2, AtType, BeyondNext, LimitAssumption DEF UserRow
  <2>4. ASSUME ~ lockLost PROVE user.failed < MAX_FAILED_LOGINS + Beyond(clock + 1)
    BY <2>1, <2>3, <2>4
  <2> QED
    BY <2>2, <2>4 DEF FailuresBounded
<1> QED
  BY <1>1, ShapeInit, ShapeStep, FailuresInit, FailuresStep, PTL DEF Spec
=============================================================================
