----------------------------- MODULE Reminders -----------------------------
(***************************************************************************)
(* The daily job that reminds users of their tax declaration: in March, a  *)
(* row in the notification log and then a mail, once a year for each user. *)
(***************************************************************************)
EXTENDS Naturals, Sequences, FiniteSets

CONSTANTS
  Users,
  Nil,
  Calendar,   \* the days that pass: records of a year and whether it is March
  MaxFaults   \* bound on failed mails, failed queries and restarts

VARIABLES
  day,      \* position in the calendar
  wanting,  \* users with a verified address who want to be reminded
  logged,   \* NotificationLog: years with a DECLARATION_REMINDER, by user
  mailed,   \* reminders that went out, by user and year
  pc, todo, at,  \* the job: its await, the users not reached yet, the one it is at
  faults,
  seen,     \* history: users the job of the day read
  lost      \* history: users and years whose mail did not go out

vars == <<day, wanting, logged, mailed, pc, todo, at, faults, seen, lost>>

Years == {Calendar[d].year : d \in DOMAIN Calendar}
Year == Calendar[day].year
Steps == {"due", "next", "create", "send", "done", "failed"}

----------------------------------------------------------------------------
\* runDeclarationReminders, at nine every day.
Start ==
  /\ pc = "due" /\ Calendar[day].march
  /\ todo' = wanting /\ seen' = wanting /\ pc' = "next"
  /\ UNCHANGED <<day, wanting, logged, mailed, at, faults, lost>>

NotInMarch ==
  /\ pc = "due" /\ ~ Calendar[day].march
  /\ pc' = "done" /\ seen' = {}
  /\ UNCHANGED <<day, wanting, logged, mailed, todo, at, faults, lost>>

\* Fault: a row of any year will do.
FindAnyLogged(u) ==
  /\ pc = "next" /\ u \in todo
  /\ todo' = todo \ {u}
  /\ IF logged[u] # {} THEN UNCHANGED <<pc, at>> ELSE pc' = "create" /\ at' = u
  /\ UNCHANGED <<day, wanting, logged, mailed, faults, seen, lost>>

\* findFirst: the row of this year; the list was read without an order.
FindLogged(u) ==
  /\ pc = "next" /\ u \in todo
  /\ todo' = todo \ {u}
  /\ IF Year \in logged[u] THEN UNCHANGED <<pc, at>> ELSE pc' = "create" /\ at' = u
  /\ UNCHANGED <<day, wanting, logged, mailed, faults, seen, lost>>

CreateLog ==
  /\ pc = "create"
  /\ logged' = [logged EXCEPT ![at] = @ \cup {Year}]
  /\ pc' = "send"
  /\ UNCHANGED <<day, wanting, mailed, todo, at, faults, seen, lost>>

SendMail ==
  /\ pc = "send"
  /\ mailed' = [mailed EXCEPT ![at][Year] = @ + 1]
  /\ pc' = "next"
  /\ UNCHANGED <<day, wanting, logged, todo, at, faults, seen, lost>>

EndRun ==
  /\ pc = "next" /\ todo = {}
  /\ pc' = "done"
  /\ UNCHANGED <<day, wanting, logged, mailed, todo, at, faults, seen, lost>>

\* A query or a mail fails, or the process stops: the day's job is over.
Fail ==
  /\ pc \in {"next", "create", "send"} /\ faults < MaxFaults
  /\ faults' = faults + 1
  /\ pc' = "failed" /\ todo' = {}
  /\ lost' = IF pc = "send" THEN lost \cup {<<at, Year>>} ELSE lost
  /\ UNCHANGED <<day, wanting, logged, mailed, at, seen>>

\* The next day the job is due again; it keeps nothing from one day to the next.
NextDay ==
  /\ pc \in {"done", "failed"} /\ day < Len(Calendar)
  /\ day' = day + 1 /\ pc' = "due"
  /\ UNCHANGED <<wanting, logged, mailed, todo, at, faults, seen, lost>>

\* Users verify their address and change their preference.
ChangeMind(u) ==
  /\ wanting' = IF u \in wanting THEN wanting \ {u} ELSE wanting \cup {u}
  /\ UNCHANGED <<day, logged, mailed, pc, todo, at, faults, seen, lost>>

Init ==
  /\ day = 1 /\ wanting \in SUBSET Users
  /\ logged = [u \in Users |-> {}] /\ mailed = [u \in Users |-> [y \in Years |-> 0]]
  /\ pc = "due" /\ todo = {} /\ at = Nil /\ faults = 0 /\ seen = {} /\ lost = {}

Job == Start \/ NotInMarch \/ (\E u \in Users : FindLogged(u)) \/ CreateLog \/ SendMail \/ EndRun
Next == Job \/ Fail \/ NextDay \/ \E u \in Users : ChangeMind(u)
Spec == Init /\ [][Next]_vars

----------------------------------------------------------------------------
TypeOK ==
  /\ day \in DOMAIN Calendar /\ wanting \in SUBSET Users
  /\ logged \in [Users -> SUBSET Years] /\ mailed \in [Users -> [Years -> Nat]]
  /\ pc \in Steps /\ todo \in SUBSET seen /\ at \in Users \cup {Nil} /\ faults \in 0..MaxFaults
  /\ seen \in SUBSET Users /\ lost \in SUBSET (Users \X Years)

\* Nobody is reminded twice in a year, whatever fails and however often the
\* job runs, and the log does not claim a mail that is not under way, gone
\* out, or lost.
OncePerYear ==
  \A u \in Users, y \in Years :
    /\ mailed[u][y] <= 1
    /\ mailed[u][y] = 1 => y \in logged[u]
    /\ y \in logged[u] =>
         mailed[u][y] = 1 \/ <<u, y>> \in lost \/ (pc = "send" /\ at = u /\ y = Year)

\* A job that came to its end has passed over nobody it read.
NobodyPassedOver == pc = "done" => \A u \in seen : Year \in logged[u]

RemindersSound == OncePerYear /\ NobodyPassedOver
=============================================================================
