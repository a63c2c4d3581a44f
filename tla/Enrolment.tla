----------------------------- MODULE Enrolment -----------------------------
(***************************************************************************)
(* Accounts and their proofs of address: registration, the mailed link,    *)
(* the phone code, and the administrator's edit of a user.  Uniqueness is  *)
(* looked up query by query and enforced by the keys of the table.         *)
(***************************************************************************)
EXTENDS Integers, Sequences, FiniteSets

CONSTANTS
  Requests,      \* HTTP requests in progress at once
  Emails, Usernames, Phones,
  Nil,
  LINK_EXPIRES,  \* EMAIL_VERIFICATION_EXPIRES_HOURS, in ticks
  CODE_EXPIRES,  \* PHONE_VERIFICATION_CODE_EXPIRES_MINUTES
  MaxUsers,      \* bound on accounts
  Allowances     \* bounds on the links and codes generated, on the edits by an
                 \* administrator, on ticks and deaths together; one chosen

VARIABLES
  allowed,   \* the bounds, chosen once
  clock,
  users,     \* user table; an id is a position
  pc, work,  \* the await each request is at, and its locals
  links,     \* links and codes generated so far
  mailed,    \* links that went out, with the address
  texted,    \* codes that went out, with the number
  edits, aborts,  \* edits and deaths so far
  proved,    \* history: addresses of each user a mailed link was presented for
  vouched,   \* history: users whose address or flag an administrator set
  silent     \* history: users for whom a message was never sent

vars == <<allowed, clock, users, pc, work, links, mailed, texted, edits, aborts, proved, vouched,
          silent>>

Ids == 1..MaxUsers
UserRow == [email : Emails, username : Usernames, phone : Phones,
            emailVerified : BOOLEAN, emailLink : Nat \cup {Nil}, emailExpires : Nat \cup {Nil},
            phoneVerified : BOOLEAN, phoneCode : Nat \cup {Nil}, phoneExpires : Nat \cup {Nil}]
Allowance == [links : Nat, edits : Nat, mishaps : Nat]
Form == [email : Emails, username : Usernames, phone : Phones]
Steps == {"idle", "reg:username", "reg:phone", "reg:create", "reg:mail", "reg:sms",
          "resend", "resend:mail", "recode", "recode:sms", "verify", "verify:phone",
          "edit:username", "edit"}
Local == [id : Nat, form : Form \cup {Nil}, link : Nat, code : Nat, email : Emails \cup {Nil},
          phone : Phones \cup {Nil}, flag : BOOLEAN]

Known == DOMAIN users
HasEmail(e) == \E u \in Known : users[u].email = e
HasUsername(n) == \E u \in Known : users[u].username = n
HasPhone(p) == \E u \in Known : users[u].phone = p
\* The unique keys of the table, for row u.
KeysFree(u, row) ==
  \A v \in Known \ {u} :
    /\ users[v].email # row.email /\ users[v].username # row.username
    /\ users[v].phone # row.phone

Goto(r, step, locals) ==
  /\ pc' = [pc EXCEPT ![r] = step]
  /\ work' = [work EXCEPT ![r] = locals]
\* Fault: the request is over and its locals are kept.
FinishKeeping(r) == Goto(r, "idle", work[r])
Finish(r) == Goto(r, "idle", Nil)
NoWork == [id |-> 0, form |-> Nil, link |-> 0, code |-> 0, email |-> Nil, phone |-> Nil,
           flag |-> FALSE]
sent == <<mailed, texted>>
counters == <<edits, aborts>>
history == <<proved, vouched, silent>>

----------------------------------------------------------------------------
\* register: three look-ups, then the row with a fresh link and code.
BeginRegister(r, form) ==
  /\ pc[r] = "idle" /\ ~ HasEmail(form.email)
  /\ Goto(r, "reg:username", [NoWork EXCEPT !.form = form])
  /\ UNCHANGED <<allowed, clock, users, links, sent, counters, history>>

CheckUsername(r) ==
  /\ pc[r] = "reg:username"
  /\ IF HasUsername(work[r].form.username) THEN Finish(r) ELSE Goto(r, "reg:phone", work[r])
  /\ UNCHANGED <<allowed, clock, users, links, sent, counters, history>>

CheckPhone(r) ==
  /\ pc[r] = "reg:phone"
  /\ IF HasPhone(work[r].form.phone) THEN Finish(r) ELSE Goto(r, "reg:create", work[r])
  /\ UNCHANGED <<allowed, clock, users, links, sent, counters, history>>

NewUser(form) ==
  [email |-> form.email, username |-> form.username, phone |-> form.phone,
   emailVerified |-> FALSE, emailLink |-> links + 1, emailExpires |-> clock + LINK_EXPIRES,
   phoneVerified |-> FALSE, phoneCode |-> links + 1, phoneExpires |-> clock + CODE_EXPIRES]

CreateUser(r) ==
  /\ pc[r] = "reg:create" /\ Len(users) < MaxUsers /\ links < allowed.links
  /\ KeysFree(0, NewUser(work[r].form))
  /\ users' = Append(users, NewUser(work[r].form))
  /\ links' = links + 1
  /\ Goto(r, "reg:mail",
          [work[r] EXCEPT !.id = Len(users) + 1, !.link = links + 1, !.code = links + 1,
                          !.email = work[r].form.email, !.phone = work[r].form.phone])
  /\ UNCHANGED <<allowed, clock, sent, counters, history>>

\* The other request was faster: the key refuses the row.
RefuseUser(r) ==
  /\ pc[r] = "reg:create" /\ ~ KeysFree(0, NewUser(work[r].form))
  /\ Finish(r)
  /\ UNCHANGED <<allowed, clock, users, links, sent, counters, history>>

SendLink(r) ==
  /\ pc[r] \in {"reg:mail", "resend:mail"}
  /\ mailed' = mailed \cup {[link |-> work[r].link, to |-> work[r].email]}
  /\ IF pc[r] = "reg:mail" THEN Goto(r, "reg:sms", work[r]) ELSE Finish(r)
  /\ UNCHANGED <<allowed, clock, users, links, texted, counters, history>>

SendCode(r) ==
  /\ pc[r] \in {"reg:sms", "recode:sms"}
  /\ texted' = texted \cup {[code |-> work[r].code, to |-> work[r].phone]}
  /\ Finish(r)
  /\ UNCHANGED <<allowed, clock, users, links, mailed, counters, history>>

----------------------------------------------------------------------------
\* resendVerificationEmail
BeginResend(r, u) ==
  /\ pc[r] = "idle" /\ ~ users[u].emailVerified /\ links < allowed.links
  /\ Goto(r, "resend", [NoWork EXCEPT !.id = u, !.email = users[u].email, !.link = links + 1])
  /\ links' = links + 1
  /\ UNCHANGED <<allowed, clock, users, sent, counters, history>>

\* Fault: the link of the row read is sent again, next to the new one written.
WriteLinkSendOld(r) ==
  /\ pc[r] = "resend"
  /\ users' = [users EXCEPT ![work[r].id].emailLink = work[r].link,
                            ![work[r].id].emailExpires = clock + LINK_EXPIRES]
  /\ Goto(r, "resend:mail", [work[r] EXCEPT !.link = @ - 1])
  /\ UNCHANGED <<allowed, clock, links, sent, counters, history>>

WriteLink(r) ==
  /\ pc[r] = "resend"
  /\ users' = [users EXCEPT ![work[r].id].emailLink = work[r].link,
                            ![work[r].id].emailExpires = clock + LINK_EXPIRES]
  /\ Goto(r, "resend:mail", work[r])
  /\ UNCHANGED <<allowed, clock, links, sent, counters, history>>

\* Fault: the filter is lost, and the first account with an open link is taken.
BeginVerifyAny(r, m) ==
  /\ pc[r] = "idle"
  /\ \E u \in Known :
       /\ users[u].emailLink # Nil /\ users[u].emailExpires >= clock
       /\ Goto(r, "verify", [NoWork EXCEPT !.id = u, !.email = m.to])
  /\ UNCHANGED <<allowed, clock, users, links, sent, counters, history>>

\* verifyEmail, with a link that was mailed.
BeginVerify(r, m) ==
  /\ pc[r] = "idle"
  /\ \E u \in Known :
       /\ users[u].emailLink = m.link /\ users[u].emailExpires >= clock
       /\ Goto(r, "verify", [NoWork EXCEPT !.id = u, !.email = m.to])
  /\ UNCHANGED <<allowed, clock, users, links, sent, counters, history>>

VerifyEmail(r) ==
  /\ pc[r] = "verify"
  /\ users' = [users EXCEPT ![work[r].id].emailVerified = TRUE,
                            ![work[r].id].emailLink = Nil, ![work[r].id].emailExpires = Nil]
  /\ proved' = [proved EXCEPT ![work[r].id] = @ \cup {work[r].email}]
  /\ Finish(r)
  /\ UNCHANGED <<allowed, clock, links, sent, counters, vouched, silent>>

\* resendPhoneVerificationCode
BeginRecode(r, u) ==
  /\ pc[r] = "idle" /\ ~ users[u].phoneVerified /\ links < allowed.links
  /\ Goto(r, "recode", [NoWork EXCEPT !.id = u, !.phone = users[u].phone, !.code = links + 1])
  /\ links' = links + 1
  /\ UNCHANGED <<allowed, clock, users, sent, counters, history>>

WriteCode(r) ==
  /\ pc[r] = "recode"
  /\ users' = [users EXCEPT ![work[r].id].phoneCode = work[r].code,
                            ![work[r].id].phoneExpires = clock + CODE_EXPIRES]
  /\ Goto(r, "recode:sms", work[r])
  /\ UNCHANGED <<allowed, clock, links, sent, counters, history>>

\* verifyPhone, with a code that was sent.
BeginVerifyPhone(r, u) ==
  /\ pc[r] = "idle" /\ ~ users[u].phoneVerified
  /\ users[u].phoneCode # Nil /\ users[u].phoneExpires >= clock
  /\ \E m \in texted : m.code = users[u].phoneCode
  /\ Goto(r, "verify:phone", [NoWork EXCEPT !.id = u])
  /\ UNCHANGED <<allowed, clock, users, links, sent, counters, history>>

VerifyPhone(r) ==
  /\ pc[r] = "verify:phone"
  /\ users' = [users EXCEPT ![work[r].id].phoneVerified = TRUE,
                            ![work[r].id].phoneCode = Nil, ![work[r].id].phoneExpires = Nil]
  /\ Finish(r)
  /\ UNCHANGED <<allowed, clock, links, sent, counters, history>>

----------------------------------------------------------------------------
\* AdminUsersService.update: the address, the name or the flag of an account.
BeginEdit(r, u, email, name, flag) ==
  /\ pc[r] = "idle" /\ edits < allowed.edits
  /\ email # users[u].email => ~ HasEmail(email)
  /\ edits' = edits + 1
  /\ Goto(r, IF name # users[u].username THEN "edit:username" ELSE "edit",
          [NoWork EXCEPT !.id = u, !.email = email, !.flag = flag,
                         !.form = [email |-> email, username |-> name, phone |-> users[u].phone]])
  /\ UNCHANGED <<allowed, clock, users, links, sent, aborts, history>>

CheckNewUsername(r) ==
  /\ pc[r] = "edit:username"
  /\ IF HasUsername(work[r].form.username) THEN Finish(r) ELSE Goto(r, "edit", work[r])
  /\ UNCHANGED <<allowed, clock, users, links, sent, counters, history>>

EditUser(r) ==
  /\ pc[r] = "edit"
  /\ LET u == work[r].id
         row == [users[u] EXCEPT !.email = work[r].form.email,
                                 !.username = work[r].form.username,
                                 !.emailVerified = work[r].flag]
     IN IF KeysFree(u, row)
        THEN users' = [users EXCEPT ![u] = row] /\ vouched' = vouched \cup {u}
        ELSE UNCHANGED <<users, vouched>>
  /\ Finish(r)
  /\ UNCHANGED <<allowed, clock, links, sent, counters, proved, silent>>

----------------------------------------------------------------------------
\* A query, the mail or the process fails.
Abort(r) ==
  /\ pc[r] # "idle" /\ clock + aborts < allowed.mishaps
  /\ aborts' = aborts + 1
  /\ silent' = IF pc[r] \in {"reg:mail", "reg:sms", "resend:mail", "recode:sms"}
               THEN silent \cup {work[r].id} ELSE silent
  /\ Finish(r)
  /\ UNCHANGED <<allowed, clock, users, links, sent, edits, proved, vouched>>

Tick ==
  /\ clock + aborts < allowed.mishaps
  /\ clock' = clock + 1
  /\ UNCHANGED <<allowed, users, pc, work, links, sent, counters, history>>

Init ==
  /\ allowed \in Allowances
  /\ clock = 0 /\ users = <<>> /\ links = 0 /\ edits = 0 /\ aborts = 0
  /\ pc = [r \in Requests |-> "idle"] /\ work = [r \in Requests |-> Nil]
  /\ mailed = {} /\ texted = {}
  /\ proved = [u \in Ids |-> {}] /\ vouched = {} /\ silent = {}

Register(r) ==
  \/ \E form \in Form : BeginRegister(r, form)
  \/ CheckUsername(r) \/ CheckPhone(r) \/ CreateUser(r) \/ RefuseUser(r)
  \/ SendLink(r) \/ SendCode(r)
Verify(r) ==
  \/ \E u \in Known : BeginResend(r, u) \/ BeginRecode(r, u) \/ BeginVerifyPhone(r, u)
  \/ \E m \in mailed : BeginVerify(r, m)
  \/ WriteLink(r) \/ VerifyEmail(r) \/ WriteCode(r) \/ VerifyPhone(r)
Edit(r) ==
  \/ \E u \in Known, e \in Emails, n \in Usernames, flag \in BOOLEAN : BeginEdit(r, u, e, n, flag)
  \/ CheckNewUsername(r) \/ EditUser(r)

Next == Tick \/ \E r \in Requests : Register(r) \/ Verify(r) \/ Edit(r) \/ Abort(r)
Spec == Init /\ [][Next]_vars

----------------------------------------------------------------------------
TypeOK ==
  /\ allowed \in Allowances
  /\ clock \in 0..allowed.mishaps /\ users \in Seq(UserRow) /\ Len(users) <= MaxUsers
  /\ pc \in [Requests -> Steps] /\ work \in [Requests -> Local \cup {Nil}]
  /\ \A r \in Requests : work[r] = Nil <=> pc[r] = "idle"
  /\ links \in 0..allowed.links /\ edits \in 0..allowed.edits /\ aborts \in 0..allowed.mishaps
  /\ mailed \in SUBSET [link : Nat, to : Emails] /\ texted \in SUBSET [code : Nat, to : Phones]
  /\ proved \in [Ids -> SUBSET Emails] /\ vouched \in SUBSET Ids /\ silent \in SUBSET Ids

\* An address counts as verified only because a link mailed to it came back, or
\* because an administrator has touched the account (an edit keeps the flag
\* and the links of the address it replaces).
VerifiedByOwnLink ==
  \A u \in Known : users[u].emailVerified => users[u].email \in proved[u] \/ u \in vouched

\* The link and the code an account waits for have been sent, unless a request
\* is still to send them or died before it did: there is always one that works,
\* whatever requests for new ones overlap.
AwaitedIsSent ==
  \A u \in Known \ silent :
    (\A r \in Requests : pc[r] # "idle" => work[r].id # u) =>
      /\ users[u].emailLink # Nil => \E m \in mailed : m.link = users[u].emailLink
      /\ users[u].phoneCode # Nil => \E m \in texted : m.code = users[u].phoneCode

AccountsProven == VerifiedByOwnLink /\ AwaitedIsSent
=============================================================================
