------------------------------ MODULE Sessions ------------------------------
(***************************************************************************)
(* AuthService for one user: login with its lock-out, rotation of refresh  *)
(* tokens with the period of grace, logout, change and reset of the        *)
(* password, two-factor enrolment.  The user row and the refresh tokens    *)
(* are the tables; every query is a step and requests overlap.             *)
(***************************************************************************)
EXTENDS Integers, Sequences, FiniteSets

CONSTANTS
  Requests,            \* HTTP requests of the user in progress at once
  Nil,                 \* null in a column, no locals
  MAX_FAILED_LOGINS,
  LOCKOUT,             \* LOCKOUT_MINUTES, in ticks of the clock
  REUSE_GRACE,         \* REUSE_GRACE_MS
  REFRESH_EXPIRES,     \* JWT_REFRESH_EXPIRES_IN
  RESET_EXPIRES,       \* PASSWORD_RESET_EXPIRES_MINUTES
  MaxTime,             \* bound on the clock
  Allowances           \* bounds on what is begun: [Kinds -> Nat], one chosen

Kinds == {"login", "fail", "refresh", "logout", "change", "reset", "twofactor", "abort"}

ASSUME LimitAssumption ==
  /\ MAX_FAILED_LOGINS \in Nat \ {0} /\ LOCKOUT \in Nat \ {0}
  /\ REUSE_GRACE \in Nat /\ REFRESH_EXPIRES \in Nat /\ RESET_EXPIRES \in Nat
  /\ MaxTime \in Nat /\ IsFiniteSet(Requests)
ASSUME AllowanceAssumption ==
  Allowances \subseteq [Kinds -> Nat] /\ Nil \notin Nat

VARIABLES
  clock,
  user,        \* the user row
  tokens,      \* refreshToken table, in order of creation
  pc,          \* the await each request is at
  work,        \* its locals
  left,        \* what may still be begun
  sessions,    \* logins that reached the issue of a token, so far
  secrets,     \* two-factor secrets generated so far
  forked,      \* history: sessions of which one token was replaced twice
  cutShort,    \* history: a change of password died before it ended the sessions
  lockLost,    \* history: a request died between the last failure and the lock
  confirmed,   \* history: secrets a code was checked against by enableTwoFactor
  tangled      \* history: a secret was replaced while it was enabled or being so

history == <<forked, cutShort, lockLost, confirmed, tangled>>
vars == <<clock, user, tokens, pc, work, left, sessions, secrets, history>>

\* password, reset link and secret are numbered in the order they were made.
UserRow == [password : Nat, failed : Nat, lockedUntil : Nat \cup {Nil},
            resetLink : Nat \cup {Nil}, resetExpires : Nat \cup {Nil},
            secret : Nat \cup {Nil}, enabled : BOOLEAN]
TokenRow == [revokedAt : Nat \cup {Nil}, expiresAt : Nat,
             session : Nat \ {0},     \* history: the login it goes back to
             replaced : BOOLEAN,      \* history: a refresh revoked it
             known : Nat,             \* history: the password that login gave
              excused : BOOLEAN]       \* history: issued across an end of all sessions
Steps == {"idle", "fail:count", "fail:lock", "login:reset", "issue",
          "rotate", "current", "revoke:reuse", "write", "revoke", "enable", "disable"}
Local == [token : Nat,        \* the token to be replaced
          session : Nat, known : Nat, excused : BOOLEAN,
          admitted : BOOLEAN, \* the login passed the second factor
          link : Nat \cup {Nil}, secret : Nat \cup {Nil}]

ASSUME NilAssumption == Nil \notin Local

----------------------------------------------------------------------------
Goto(r, step, locals) ==
  /\ pc' = [pc EXCEPT ![r] = step]
  /\ work' = [work EXCEPT ![r] = locals]
\* Fault: the request is over and its locals are kept.
FinishKeeping(r) == Goto(r, "idle", work[r])
Finish(r) == Goto(r, "idle", Nil)
Spend(kind) == left[kind] > 0 /\ left' = [left EXCEPT ![kind] = @ - 1]
NoWork == [token |-> 0, session |-> 0, known |-> 0, excused |-> FALSE,
           admitted |-> TRUE, link |-> Nil, secret |-> Nil]

Live(t) == tokens[t].revokedAt = Nil
LiveTokens == {t \in DOMAIN tokens : Live(t)}
Revoked(t) == [t EXCEPT !.revokedAt = IF @ = Nil THEN clock ELSE @]
Locked == user.lockedUntil # Nil /\ user.lockedUntil > clock

----------------------------------------------------------------------------
\* login: the row is read once; lock, password and second factor are judged on it.
BeginFailingLogin(r) ==
  /\ pc[r] = "idle" /\ Spend("fail") /\ ~ Locked
  /\ Goto(r, "fail:count", NoWork)
  /\ UNCHANGED <<clock, user, tokens, sessions, secrets, history>>

\* Fault: only the failure that reaches the limit locks.
CountFailureOnce(r) ==
  /\ pc[r] = "fail:count"
  /\ user' = [user EXCEPT !.failed = @ + 1]
  /\ IF user.failed + 1 = MAX_FAILED_LOGINS THEN Goto(r, "fail:lock", work[r]) ELSE Finish(r)
  /\ UNCHANGED <<clock, tokens, left, sessions, secrets, history>>

CountFailure(r) ==
  /\ pc[r] = "fail:count"
  /\ user' = [user EXCEPT !.failed = @ + 1]
  /\ IF user.failed + 1 >= MAX_FAILED_LOGINS THEN Goto(r, "fail:lock", work[r]) ELSE Finish(r)
  /\ UNCHANGED <<clock, tokens, left, sessions, secrets, history>>

LockUser(r) ==
  /\ pc[r] = "fail:lock"
  /\ user' = [user EXCEPT !.lockedUntil = clock + LOCKOUT]
  /\ Finish(r)
  /\ UNCHANGED <<clock, tokens, left, sessions, secrets, history>>

\* The right password; with two factors enabled, a right code or none.
BeginLogin(r) ==
  /\ pc[r] = "idle" /\ Spend("login") /\ ~ Locked
  /\ \E admitted \in BOOLEAN :
       /\ ~ user.enabled => admitted
       /\ user.enabled /\ admitted => user.secret # Nil
       /\ user.failed > 0 \/ admitted
       /\ Goto(r, IF user.failed > 0 THEN "login:reset" ELSE "issue",
               [NoWork EXCEPT !.known = user.password, !.session = sessions + 1,
                              !.admitted = admitted])
  /\ sessions' = sessions + 1
  /\ UNCHANGED <<clock, user, tokens, secrets, history>>

ResetFailures(r) ==
  /\ pc[r] = "login:reset"
  /\ user' = [user EXCEPT !.failed = 0, !.lockedUntil = Nil]
  /\ IF work[r].admitted THEN Goto(r, "issue", work[r]) ELSE Finish(r)
  /\ UNCHANGED <<clock, tokens, left, sessions, secrets, history>>

\* AdminUsersService.update, asked to unlock the account.
Unlock ==
  /\ user.failed > 0
  /\ user' = [user EXCEPT !.failed = 0, !.lockedUntil = Nil]
  /\ UNCHANGED <<clock, tokens, pc, work, left, sessions, secrets, history>>

\* issueTokenPair
IssueTokenPair(r) ==
  /\ pc[r] = "issue"
  /\ tokens' = Append(tokens,
       [revokedAt |-> Nil, expiresAt |-> clock + REFRESH_EXPIRES,
        session |-> work[r].session, replaced |-> FALSE,
        known |-> work[r].known, excused |-> work[r].excused])
  /\ Finish(r)
  /\ UNCHANGED <<clock, user, left, sessions, secrets, history>>

----------------------------------------------------------------------------
\* refresh: the token presented is t.
Presented(t) == [NoWork EXCEPT !.token = t, !.session = tokens[t].session,
                               !.known = tokens[t].known, !.excused = tokens[t].excused]

BeginRefresh(r, t) ==
  /\ pc[r] = "idle" /\ Spend("refresh")
  /\ Live(t) /\ tokens[t].expiresAt >= clock
  /\ Goto(r, "rotate", Presented(t))
  /\ UNCHANGED <<clock, user, tokens, sessions, secrets, history>>

WithinGrace(t) == ~ Live(t) /\ clock - tokens[t].revokedAt < REUSE_GRACE

\* A revoked token: within the period of grace the newest live one is looked for.
BeginReuse(r, t) ==
  /\ pc[r] = "idle" /\ Spend("refresh") /\ ~ Live(t)
  /\ Goto(r, IF WithinGrace(t) THEN "current" ELSE "revoke:reuse", Presented(t))
  /\ UNCHANGED <<clock, user, tokens, sessions, secrets, history>>

Unexpired == {t \in LiveTokens : tokens[t].expiresAt > clock}
Newest(t) == t \in Unexpired /\ \A u \in Unexpired : u <= t

\* It is taken over, for the holder of the token presented.
FindCurrent(r) ==
  /\ pc[r] = "current"
  /\ \/ Unexpired = {} /\ Goto(r, "revoke:reuse", work[r])
     \/ \E t \in Unexpired :
          /\ Newest(t)
          /\ Goto(r, "rotate", [work[r] EXCEPT !.token = t, !.excused = TRUE,
                                               !.session = tokens[t].session])
  /\ UNCHANGED <<clock, user, tokens, left, sessions, secrets, history>>

\* Fault: the token presented is not revoked.
KeepToken(r) ==
  /\ pc[r] = "rotate"
  /\ Goto(r, "issue", work[r])
  /\ UNCHANGED <<clock, user, tokens, left, sessions, secrets, history>>

\* The update is unconditional: it also renews the date of a revoked token.
Rotate(r) ==
  /\ pc[r] = "rotate"
  /\ tokens' = [tokens EXCEPT ![work[r].token].revokedAt = clock,
                              ![work[r].token].replaced = TRUE]
  /\ forked' = IF tokens[work[r].token].replaced
               THEN forked \cup {work[r].session} ELSE forked
  /\ Goto(r, "issue", work[r])
  /\ UNCHANGED <<clock, user, left, sessions, secrets, cutShort, lockLost, confirmed, tangled>>

\* updateMany where revokedAt is null.
RevokeAll == tokens' = [t \in DOMAIN tokens |-> Revoked(tokens[t])]

RevokeOnReuse(r) ==
  /\ pc[r] = "revoke:reuse"
  /\ RevokeAll
  /\ Finish(r)
  /\ UNCHANGED <<clock, user, left, sessions, secrets, history>>

Logout(t) ==
  /\ Spend("logout") /\ Live(t)
  /\ tokens' = [tokens EXCEPT ![t] = Revoked(@)]
  /\ UNCHANGED <<clock, user, pc, work, sessions, secrets, history>>

----------------------------------------------------------------------------
\* changePassword, by one who knows the password of the row read.
BeginChange(r) ==
  /\ pc[r] = "idle" /\ Spend("change")
  /\ Goto(r, "write", NoWork)
  /\ UNCHANGED <<clock, user, tokens, sessions, secrets, history>>

\* requestPasswordReset; the link replaces an earlier one.
RequestReset ==
  /\ Spend("reset")
  /\ user' = [user EXCEPT !.resetLink = left["reset"],   \* a new number
                          !.resetExpires = clock + RESET_EXPIRES]
  /\ UNCHANGED <<clock, tokens, pc, work, sessions, secrets, history>>

BeginReset(r) ==
  /\ pc[r] = "idle" /\ Spend("change")
  /\ user.resetLink # Nil /\ user.resetExpires >= clock
  /\ Goto(r, "write", [NoWork EXCEPT !.link = user.resetLink])
  /\ UNCHANGED <<clock, user, tokens, sessions, secrets, history>>

WritePassword(r) ==
  /\ pc[r] = "write"
  /\ user' = IF work[r].link = Nil
             THEN [user EXCEPT !.password = @ + 1]
             ELSE [user EXCEPT !.password = @ + 1, !.resetLink = Nil, !.resetExpires = Nil]
  /\ Goto(r, "revoke", work[r])
  /\ UNCHANGED <<clock, tokens, left, sessions, secrets, history>>

\* A request that has read before and issues after this is noted.
Straddles(q) == pc[q] \in {"login:reset", "issue", "rotate", "current"}

\* Fault: the newest token, taken for that of the caller, is spared.
EndOtherSessions(r) ==
  /\ pc[r] = "revoke"
  /\ tokens' = [t \in DOMAIN tokens |-> IF t = Len(tokens) THEN tokens[t] ELSE Revoked(tokens[t])]
  /\ pc' = [pc EXCEPT ![r] = "idle"]
  /\ work' = [q \in Requests |->
       IF q = r THEN Nil
       ELSE IF Straddles(q) THEN [work[q] EXCEPT !.excused = TRUE] ELSE work[q]]
  /\ cutShort' = FALSE
  /\ UNCHANGED <<clock, user, left, sessions, secrets, forked, lockLost, confirmed, tangled>>

EndSessions(r) ==
  /\ pc[r] = "revoke"
  /\ RevokeAll
  /\ pc' = [pc EXCEPT ![r] = "idle"]
  /\ work' = [q \in Requests |->
       IF q = r THEN Nil
       ELSE IF Straddles(q) THEN [work[q] EXCEPT !.excused = TRUE] ELSE work[q]]
  /\ cutShort' = FALSE
  /\ UNCHANGED <<clock, user, left, sessions, secrets, forked, lockLost, confirmed, tangled>>

----------------------------------------------------------------------------
\* generateTwoFactorSecret overwrites whatever secret there is.
GenerateSecret ==
  /\ Spend("twofactor")
  /\ secrets' = secrets + 1
  /\ user' = [user EXCEPT !.secret = secrets + 1]
  /\ tangled' = (tangled \/ user.enabled \/ \E q \in Requests : pc[q] = "enable")
  /\ UNCHANGED <<clock, tokens, pc, work, sessions, forked, cutShort, lockLost, confirmed>>

\* Fault: no code is asked for.
EnableUnchecked(r) ==
  /\ pc[r] = "idle" /\ Spend("twofactor") /\ user.secret # Nil
  /\ Goto(r, "enable", [NoWork EXCEPT !.secret = user.secret])
  /\ UNCHANGED <<clock, user, tokens, sessions, secrets, history>>

\* enableTwoFactor, with a code for the secret read.
BeginEnable(r) ==
  /\ pc[r] = "idle" /\ Spend("twofactor") /\ user.secret # Nil
  /\ Goto(r, "enable", [NoWork EXCEPT !.secret = user.secret])
  /\ confirmed' = confirmed \cup {user.secret}
  /\ UNCHANGED <<clock, user, tokens, sessions, secrets, forked, cutShort, lockLost, tangled>>

Enable(r) ==
  /\ pc[r] = "enable"
  /\ user' = [user EXCEPT !.enabled = TRUE]
  /\ Finish(r)
  /\ UNCHANGED <<clock, tokens, left, sessions, secrets, history>>

\* disableTwoFactor, with the password and a code.
BeginDisable(r) ==
  /\ pc[r] = "idle" /\ Spend("twofactor") /\ user.secret # Nil
  /\ Goto(r, "disable", NoWork)
  /\ UNCHANGED <<clock, user, tokens, sessions, secrets, history>>

Disable(r) ==
  /\ pc[r] = "disable"
  /\ user' = [user EXCEPT !.enabled = FALSE, !.secret = Nil]
  /\ tangled' = (tangled \/ \E q \in Requests : pc[q] = "enable")
  /\ Finish(r)
  /\ UNCHANGED <<clock, tokens, left, sessions, secrets, forked, cutShort, lockLost, confirmed>>

----------------------------------------------------------------------------
\* A query fails or the process stops.
Abort(r) ==
  /\ pc[r] # "idle" /\ Spend("abort")
  /\ cutShort' = (cutShort \/ pc[r] = "revoke")
  /\ lockLost' = (lockLost \/ pc[r] = "fail:lock")
  /\ Finish(r)
  /\ UNCHANGED <<clock, user, tokens, sessions, secrets, forked, confirmed, tangled>>

Tick ==
  /\ clock < MaxTime
  /\ clock' = clock + 1
  /\ UNCHANGED <<user, tokens, pc, work, left, sessions, secrets, history>>

Init ==
  /\ clock = 0 /\ tokens = <<>> /\ sessions = 0 /\ secrets = 0
  /\ user = [password |-> 0, failed |-> 0, lockedUntil |-> Nil, resetLink |-> Nil,
             resetExpires |-> Nil, secret |-> Nil, enabled |-> FALSE]
  /\ pc = [r \in Requests |-> "idle"] /\ work = [r \in Requests |-> Nil]
  /\ left \in Allowances
  /\ forked = {} /\ cutShort = FALSE /\ lockLost = FALSE /\ confirmed = {} /\ tangled = FALSE

Login(r) ==
  BeginFailingLogin(r) \/ CountFailure(r) \/ LockUser(r)
    \/ BeginLogin(r) \/ ResetFailures(r) \/ IssueTokenPair(r)
Refresh(r) ==
  \/ \E t \in DOMAIN tokens : BeginRefresh(r, t) \/ BeginReuse(r, t)
  \/ FindCurrent(r) \/ Rotate(r) \/ RevokeOnReuse(r)
Password(r) == BeginChange(r) \/ BeginReset(r) \/ WritePassword(r) \/ EndSessions(r)
TwoFactor(r) == BeginEnable(r) \/ Enable(r) \/ BeginDisable(r) \/ Disable(r)

Next ==
  \/ \E r \in Requests : Login(r) \/ Refresh(r) \/ Password(r) \/ TwoFactor(r) \/ Abort(r)
  \/ \E t \in DOMAIN tokens : Logout(t)
  \/ Unlock \/ RequestReset \/ GenerateSecret \/ Tick
Spec == Init /\ [][Next]_vars

----------------------------------------------------------------------------
TypeOK ==
  /\ clock \in 0..MaxTime /\ user \in UserRow /\ tokens \in Seq(TokenRow)
  /\ pc \in [Requests -> Steps] /\ work \in [Requests -> Local \cup {Nil}]
  /\ \A r \in Requests : work[r] = Nil <=> pc[r] = "idle"
  /\ left \in [Kinds -> Nat] /\ sessions \in Nat /\ secrets \in Nat
  /\ forked \in SUBSET Nat /\ cutShort \in BOOLEAN /\ lockLost \in BOOLEAN
  /\ confirmed \in SUBSET Nat /\ tangled \in BOOLEAN

\* Rotation: the refreshes of one login never leave it two live tokens, nor a
\* live one and another about to be issued - unless two requests replaced the
\* same token, each having found it unrevoked before either revoked it.
OneLivePerSession ==
  \A t \in LiveTokens :
    LET s == tokens[t].session
    IN s \notin forked =>
         /\ \A u \in LiveTokens : tokens[u].session = s => u = t
         /\ \A r \in Requests : pc[r] = "issue" => work[r].session # s

\* changePassword and resetPassword end the sessions: a live token goes back to
\* a login with an older password only while the revocation is outstanding (or
\* died), or if its issue straddled the revocation, or if a revoked token was
\* renewed within the period of grace.
SessionsEndWithPassword ==
  \A t \in LiveTokens :
    tokens[t].known < user.password =>
      tokens[t].excused \/ cutShort \/ \E r \in Requests : pc[r] = "revoke"

\* The lock: between two resets of the counter, the failures beyond the limit
\* are at most those that had read the row before the lock was written, once
\* more for each time a lock has run out (or a lock was never written, its
\* request having died).
FailuresBounded ==
  lockLost \/ user.failed < MAX_FAILED_LOGINS + Cardinality(Requests) * (clock + 1)

\* Two-factor login asks for a code of a secret the user has shown to have,
\* unless a secret was generated, or the factor disabled, next to it.
TwoFactorConfirmed == user.enabled => tangled \/ user.secret \in confirmed
=============================================================================
