--------------------------- MODULE SharedReports ---------------------------
(***************************************************************************)
(* A generated report and the links by which it is shared: a token drawn   *)
(* at the first share and kept, an expiry renewed by each, a mail.         *)
(***************************************************************************)
EXTENDS Naturals, FiniteSets

CONSTANTS
  Requests,   \* HTTP requests in progress at once
  Nil,
  EXPIRES,    \* 30 days, in ticks
  MaxTime, MaxShares  \* bounds

VARIABLES
  clock,
  report,   \* the row: shareToken and expiresAt; Nil before it is generated
  pc, job,  \* the await each request is at, and its locals
  drawn,    \* tokens drawn so far
  shares,
  given,    \* links given to the user or mailed, with the end they were given
  twice     \* history: tokens drawn by shares that found none next to each other

vars == <<clock, report, pc, job, drawn, shares, given, twice>>

Report == [token : Nat \cup {Nil}, expires : Nat]
Steps == {"idle", "file", "update", "mail"}
Job == [token : Nat, until : Nat]
NoJob == [token |-> 0, until |-> 0]

Goto(r, step, locals) ==
  /\ pc' = [pc EXCEPT ![r] = step]
  /\ job' = [job EXCEPT ![r] = locals]

----------------------------------------------------------------------------
\* generate: the readings, the file, then the row.  One report is followed.
BeginGenerate(r) ==
  /\ pc[r] = "idle" /\ report = Nil /\ \A q \in Requests : pc[q] = "idle"
  /\ Goto(r, "file", NoJob)
  /\ UNCHANGED <<clock, report, drawn, shares, given, twice>>

CreateReport(r) ==
  /\ pc[r] = "file"
  /\ report' = [token |-> Nil, expires |-> 0]
  /\ Goto(r, "idle", Nil)
  /\ UNCHANGED <<clock, drawn, shares, given, twice>>

\* Fault: every share draws a token.
NeedsToken == TRUE
\* report.shareToken ?? randomBytes
DrawsToken == report.token = Nil

\* share: the row that was read decides on the token.
BeginShare(r) ==
  /\ pc[r] = "idle" /\ report # Nil /\ shares < MaxShares
  /\ shares' = shares + 1
  /\ drawn' = IF DrawsToken THEN drawn + 1 ELSE drawn
  /\ Goto(r, "update", [token |-> IF DrawsToken THEN drawn + 1 ELSE report.token,
                        until |-> 0])
  /\ twice' = IF report.token = Nil /\ \E q \in Requests : pc[q] = "update"
              THEN twice \cup {drawn + 1}
                     \cup {job[q].token : q \in {q \in Requests : pc[q] = "update"}}
              ELSE twice
  /\ UNCHANGED <<clock, report, given>>

\* The link is returned, or mailed first.
UpdateReport(r, byMail) ==
  /\ pc[r] = "update"
  /\ report' = [token |-> job[r].token, expires |-> clock + EXPIRES]
  /\ IF byMail
     THEN Goto(r, "mail", [job[r] EXCEPT !.until = clock + EXPIRES]) /\ UNCHANGED given
     ELSE /\ Goto(r, "idle", Nil)
          /\ given' = given \cup {[token |-> job[r].token, until |-> clock + EXPIRES]}
  /\ UNCHANGED <<clock, drawn, shares, twice>>

SendLink(r) ==
  /\ pc[r] = "mail"
  /\ given' = given \cup {[token |-> job[r].token, until |-> job[r].until]}
  /\ Goto(r, "idle", Nil)
  /\ UNCHANGED <<clock, report, drawn, shares, twice>>

Abort(r) ==
  /\ pc[r] # "idle"
  /\ Goto(r, "idle", Nil)
  /\ UNCHANGED <<clock, report, drawn, shares, given, twice>>

Tick ==
  /\ clock < MaxTime
  /\ clock' = clock + 1
  /\ UNCHANGED <<report, pc, job, drawn, shares, given, twice>>

Init ==
  /\ clock = 0 /\ report = Nil /\ drawn = 0 /\ shares = 0 /\ given = {} /\ twice = {}
  /\ pc = [r \in Requests |-> "idle"] /\ job = [r \in Requests |-> Nil]

Handle(r) ==
  \/ BeginGenerate(r) \/ CreateReport(r) \/ BeginShare(r)
  \/ (\E byMail \in BOOLEAN : UpdateReport(r, byMail)) \/ SendLink(r) \/ Abort(r)
Next == Tick \/ \E r \in Requests : Handle(r)
Spec == Init /\ [][Next]_vars

----------------------------------------------------------------------------
TypeOK ==
  /\ clock \in 0..MaxTime /\ report \in Report \cup {Nil}
  /\ pc \in [Requests -> Steps] /\ job \in [Requests -> Job \cup {Nil}]
  /\ \A r \in Requests : job[r] = Nil <=> pc[r] = "idle"
  /\ drawn \in Nat /\ shares \in 0..MaxShares
  /\ given \in SUBSET [token : Nat, until : Nat] /\ twice \in SUBSET Nat

\* getByShareToken
Opens(token) == report # Nil /\ report.token = token /\ report.expires >= clock

\* A link that was given opens the report until the end it was given, whatever
\* is shared after it - unless it was among first shares that overlapped, each
\* drawing a token of its own.
LinksOpen ==
  \A link \in given : clock <= link.until => Opens(link.token) \/ link.token \in twice
=============================================================================
