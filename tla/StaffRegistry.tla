--------------------------- MODULE StaffRegistry ---------------------------
(***************************************************************************)
(* Who administers: grants, revocations and removals of users.  AdminGuard *)
(* reads the caller's staff row before the handler; the handler counts the *)
(* staff, reads the target and deletes, each in a query of its own.        *)
(***************************************************************************)
EXTENDS Naturals, FiniteSets

CONSTANTS
  Requests,   \* requests to the administration in progress at once
  Users,
  Nil,
  MaxCalls    \* bound on calls that pass the guard

VARIABLES
  accounts,   \* user table
  staff,      \* staff table, by user
  pc, call,   \* the await each request is at, and its locals
  calls,      \* calls so far
  crossed     \* history: a deletion was due when another had counted

vars == <<accounts, staff, pc, call, calls, crossed>>

Steps == {"idle", "grant", "upsert", "exists", "count", "target", "delete"}
Call == [op : {"grant", "revoke", "remove"}, by : Users, user : Users, count : Nat]

Goto(r, step, locals) ==
  /\ pc' = [pc EXCEPT ![r] = step]
  /\ call' = [call EXCEPT ![r] = locals]
\* Fault: the request is over and its locals are kept.
FinishKeeping(r) == Goto(r, "idle", call[r])
Finish(r) == Goto(r, "idle", Nil)

----------------------------------------------------------------------------
\* scripts/promote-staff.ts, from the command line.
Promote(u) ==
  /\ u \in accounts
  /\ staff' = staff \cup {u}
  /\ UNCHANGED <<accounts, pc, call, calls, crossed>>

FirstStep(op) == CASE op = "grant" -> "grant" [] op = "revoke" -> "count" [] op = "remove" -> "exists"

\* AdminGuard, and the comparison with the caller's own id.
BeginCall(r, op, by, user) ==
  /\ pc[r] = "idle" /\ calls < MaxCalls
  /\ by \in staff
  /\ op \in {"revoke", "remove"} => user # by
  /\ calls' = calls + 1
  /\ Goto(r, FirstStep(op), [op |-> op, by |-> by, user |-> user, count |-> 0])
  /\ UNCHANGED <<accounts, staff, crossed>>

\* grantStaff
FindGrantee(r) ==
  /\ pc[r] = "grant"
  /\ IF call[r].user \in accounts THEN Goto(r, "upsert", call[r]) ELSE Finish(r)
  /\ UNCHANGED <<accounts, staff, calls, crossed>>

\* The key of a user deleted meanwhile is refused.
UpsertStaff(r) ==
  /\ pc[r] = "upsert"
  /\ staff' = staff \cup ({call[r].user} \cap accounts)
  /\ Finish(r)
  /\ UNCHANGED <<accounts, calls, crossed>>

\* remove
FindRemoved(r) ==
  /\ pc[r] = "exists"
  /\ IF call[r].user \in accounts THEN Goto(r, "count", call[r]) ELSE Finish(r)
  /\ UNCHANGED <<accounts, staff, calls, crossed>>

\* assertNotLastStaff: the count, then the target.
CountStaff(r) ==
  /\ pc[r] = "count"
  /\ Goto(r, "target", [call[r] EXCEPT !.count = Cardinality(staff)])
  /\ UNCHANGED <<accounts, staff, calls, crossed>>

\* Fault: the limit is off by one.
JudgeTargetLate(r) ==
  /\ pc[r] = "target"
  /\ IF call[r].user \in staff /\ call[r].count < 1
     THEN Finish(r) ELSE Goto(r, "delete", call[r])
  /\ UNCHANGED <<accounts, staff, calls, crossed>>

JudgeTarget(r) ==
  /\ pc[r] = "target"
  /\ IF call[r].user \in staff /\ call[r].count <= 1
     THEN Finish(r) ELSE Goto(r, "delete", call[r])
  /\ UNCHANGED <<accounts, staff, calls, crossed>>

\* Another request has counted and not yet deleted.
Counted(q) == pc[q] \in {"target", "delete"}

Delete(r) ==
  /\ pc[r] = "delete"
  /\ staff' = staff \ {call[r].user}
  /\ accounts' = IF call[r].op = "remove" THEN accounts \ {call[r].user} ELSE accounts
  /\ crossed' = (crossed \/ \E q \in Requests \ {r} : Counted(q))
  /\ Finish(r)
  /\ UNCHANGED calls

Init ==
  /\ accounts = Users /\ staff = {} /\ calls = 0 /\ crossed = FALSE
  /\ pc = [r \in Requests |-> "idle"] /\ call = [r \in Requests |-> Nil]

Handle(r) ==
  \/ \E op \in {"grant", "revoke", "remove"}, by, user \in Users : BeginCall(r, op, by, user)
  \/ FindGrantee(r) \/ UpsertStaff(r) \/ FindRemoved(r)
  \/ CountStaff(r) \/ JudgeTarget(r) \/ Delete(r)
Next == (\E u \in Users : Promote(u)) \/ \E r \in Requests : Handle(r)
Spec == Init /\ [][Next]_vars

----------------------------------------------------------------------------
TypeOK ==
  /\ accounts \in SUBSET Users /\ staff \in SUBSET accounts
  /\ pc \in [Requests -> Steps] /\ call \in [Requests -> Call \cup {Nil}]
  /\ \A r \in Requests : call[r] = Nil <=> pc[r] = "idle"
  /\ calls \in 0..MaxCalls /\ crossed \in BOOLEAN

\* Someone is left to administer, as assertNotLastStaff intends: the last staff
\* row goes only when two deletions cross, the second having counted before
\* the first deleted.
StaffRemains == calls > 0 => staff # {} \/ crossed
=============================================================================
