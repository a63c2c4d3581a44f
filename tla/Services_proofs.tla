-------------------------- MODULE Services_proofs --------------------------
(***************************************************************************)
(* Every scene of Services has an inductive invariant of its own:          *)
(* RegistryInv, ClientInv with ClientSlotInv, DeskInv, ShareInv,           *)
(* ReminderInv, PriceInv and AccountInv.  The last section puts them       *)
(* together (ScenesHold) and draws the theorems from them.                 *)
(***************************************************************************)
EXTENDS Services, FiniteSetTheorems, TLAPS

----------------------------------------------------------------------------
\* StaffRegistry

LEMMA RegistryBounds == IsFiniteSet(Users) /\ MaxStaffCalls \in Nat /\ Nil \notin S!Call
BY RegistryAssumption, NilAssumption

LEMMA RegistryCardinality == \A T : S!Cardinality(T) = Cardinality(T)
BY DEF S!Cardinality, Cardinality

\* As long as no deletions have crossed, a count is a lower bound, and a
\* deletion that is due leaves someone.
CountHolds ==
  ~ cross => \A r \in Requests :
    /\ pc[r] = "target" => locals[r].count <= Cardinality(staff)
    /\ pc[r] = "delete" => staff \ {locals[r].user} # {}

Started == calls = 0 => \A r \in Requests : pc[r] = "idle"

RegistryInv == S!TypeOK /\ S!StaffRemains /\ CountHolds /\ Started

\* Moving request r keeps the shape of all requests.
LEMMA RegistryGotoKeepsShape ==
  ASSUME S!TypeOK, NEW r \in Requests, NEW step \in S!Steps \ {"idle"}, NEW w \in S!Call,
         S!Goto(r, step, w)
  PROVE  /\ pc' \in [Requests -> S!Steps] /\ locals' \in [Requests -> S!Call \cup {Nil}]
         /\ \A q \in Requests : locals'[q] = Nil <=> pc'[q] = "idle"
BY RegistryBounds DEF S!TypeOK, S!Goto

LEMMA RegistryFinishKeepsShape ==
  ASSUME S!TypeOK, NEW r \in Requests, S!Finish(r)
  PROVE  /\ pc' \in [Requests -> S!Steps] /\ locals' \in [Requests -> S!Call \cup {Nil}]
         /\ \A q \in Requests : locals'[q] = Nil <=> pc'[q] = "idle"
BY RegistryBounds DEF S!TypeOK, S!Finish, S!Goto, S!Steps

\* More staff, or the same, keep what the other requests have counted.
LEMMA GrowthKeepsCounts ==
  ASSUME S!TypeOK, S!TypeOK', CountHolds, cross' = cross, staff \subseteq staff',
         NEW q \in Requests, ~ cross,
         pc'[q] = pc[q], locals'[q] = locals[q]
  PROVE  /\ pc'[q] = "target" => locals'[q].count <= Cardinality(staff')
         /\ pc'[q] = "delete" => staff' \ {locals'[q].user} # {}
<1>1. IsFiniteSet(staff')
  BY FS_Subset, RegistryBounds DEF S!TypeOK
<1>2. Cardinality(staff) <= Cardinality(staff') /\ Cardinality(staff) \in Nat
        /\ Cardinality(staff') \in Nat
  BY <1>1, FS_Subset, FS_CardinalityType
<1>3. pc[q] = "target" => locals[q].count \in Nat
  BY DEF S!TypeOK, S!Call
<1> QED
  BY <1>2, <1>3 DEF CountHolds

LEMMA RegistryTypeInit == ASSUME S!Init PROVE S!TypeOK
<1>1. accounts \in SUBSET Users /\ staff \in SUBSET accounts
  BY DEF S!Init
<1>2. pc \in [Requests -> S!Steps]
  BY DEF S!Init, S!Steps
<1>3. locals \in [Requests -> S!Call \cup {Nil}]
  BY DEF S!Init
<1>4. \A r \in Requests : locals[r] = Nil <=> pc[r] = "idle"
  BY DEF S!Init
<1>5. calls \in 0..MaxStaffCalls
  BY RegistryBounds DEF S!Init
<1>6. cross \in BOOLEAN
  BY DEF S!Init
<1> QED
  BY <1>1, <1>2, <1>3, <1>4, <1>5, <1>6 DEF S!TypeOK

LEMMA RegistryTypeStep ==
  ASSUME S!TypeOK, NEW r \in Requests, S!Handle(r)
  PROVE  S!TypeOK'
<1>1. ASSUME NEW op \in {"grant", "revoke", "remove"}, NEW by \in Users, NEW user \in Users,
             S!BeginCall(r, op, by, user)
      PROVE  S!TypeOK'
  <2>1. [op |-> op, by |-> by, user |-> user, count |-> 0] \in S!Call
    BY DEF S!Call
  <2>2. S!FirstStep(op) \in S!Steps \ {"idle"}
    BY DEF S!FirstStep, S!Steps
  <2> QED
    BY <1>1, <2>1, <2>2, RegistryGotoKeepsShape, RegistryBounds DEF S!BeginCall, S!TypeOK
<1>2. CASE S!FindGrantee(r)
  <2>1. locals[r] \in S!Call
    BY <1>2 DEF S!FindGrantee, S!TypeOK
  <2> QED
    BY <1>2, <2>1, RegistryGotoKeepsShape, RegistryFinishKeepsShape DEF S!FindGrantee, S!TypeOK,
       S!Steps
<1>3. CASE S!UpsertStaff(r)
  BY <1>3, RegistryFinishKeepsShape DEF S!UpsertStaff, S!TypeOK
<1>4. CASE S!FindRemoved(r)
  <2>1. locals[r] \in S!Call
    BY <1>4 DEF S!FindRemoved, S!TypeOK
  <2> QED
    BY <1>4, <2>1, RegistryGotoKeepsShape, RegistryFinishKeepsShape DEF S!FindRemoved, S!TypeOK,
       S!Steps
<1>5. CASE S!CountStaff(r)
  <2>1. locals[r] \in S!Call
    BY <1>5 DEF S!CountStaff, S!TypeOK
  <2>2. Cardinality(staff) \in Nat
    BY FS_Subset, FS_CardinalityType, RegistryBounds DEF S!TypeOK
  <2>3. [locals[r] EXCEPT !.count = Cardinality(staff)] \in S!Call
    BY <2>1, <2>2 DEF S!Call
  <2> QED
    BY <1>5, <2>3, RegistryGotoKeepsShape, RegistryCardinality DEF S!CountStaff, S!TypeOK, S!Steps
<1>6. CASE S!JudgeTarget(r)
  <2>1. locals[r] \in S!Call
    BY <1>6 DEF S!JudgeTarget, S!TypeOK
  <2> QED
    BY <1>6, <2>1, RegistryGotoKeepsShape, RegistryFinishKeepsShape DEF S!JudgeTarget, S!TypeOK,
       S!Steps
<1>7. CASE S!Delete(r)
  <2>1. locals[r] \in S!Call
    BY <1>7 DEF S!Delete, S!TypeOK
  <2>2. staff' \in SUBSET accounts' /\ accounts' \in SUBSET Users
    BY <1>7, <2>1 DEF S!Delete, S!TypeOK
  <2>3. cross' \in BOOLEAN
    BY <1>7 DEF S!Delete, S!TypeOK
  <2> QED
    BY <1>7, <2>2, <2>3, RegistryFinishKeepsShape DEF S!Delete, S!TypeOK
<1> QED
  BY <1>1, <1>2, <1>3, <1>4, <1>5, <1>6, <1>7 DEF S!Handle

----------------------------------------------------------------------------
\* A handler leaves someone on the staff, and keeps the counts.
LEMMA RegistryHandled ==
  ASSUME RegistryInv, S!TypeOK', NEW r \in Requests, S!Handle(r)
  PROVE  S!StaffRemains' /\ CountHolds' /\ Started'
<1> USE DEF RegistryInv
<1>0. Started' /\ (pc[r] # "idle" => calls > 0)
  BY DEF S!Handle, S!BeginCall, S!FindGrantee, S!UpsertStaff, S!FindRemoved, S!CountStaff,
     S!JudgeTarget,
         S!Delete, S!Finish, S!Goto, S!TypeOK, Started
<1>a. \A q \in Requests \ {r} : pc'[q] = pc[q] /\ locals'[q] = locals[q]
  BY DEF S!Handle, S!BeginCall, S!FindGrantee, S!UpsertStaff, S!FindRemoved, S!CountStaff,
     S!JudgeTarget,
         S!Delete, S!Finish, S!Goto, S!TypeOK
<1>b. IsFiniteSet(staff) /\ Cardinality(staff) \in Nat
  BY FS_Subset, FS_CardinalityType, RegistryBounds DEF S!TypeOK
<1>1. ASSUME NEW op \in {"grant", "revoke", "remove"}, NEW by \in Users, NEW user \in Users,
             S!BeginCall(r, op, by, user)
      PROVE  S!StaffRemains' /\ CountHolds'
  <2>1. pc'[r] \notin {"target", "delete"}
    BY <1>1 DEF S!BeginCall, S!Goto, S!FirstStep, S!TypeOK
  <2> QED
    BY <1>1, <1>a, <2>1, GrowthKeepsCounts DEF S!BeginCall, S!StaffRemains, CountHolds
<1>2. CASE S!FindGrantee(r) \/ S!FindRemoved(r)
  <2>1. pc'[r] \notin {"target", "delete"}
    BY <1>2 DEF S!FindGrantee, S!FindRemoved, S!Finish, S!Goto, S!TypeOK
  <2> QED
    BY <1>0, <1>2, <1>a, <2>1, GrowthKeepsCounts DEF S!FindGrantee, S!FindRemoved,
       S!StaffRemains, CountHolds
<1>3. CASE S!UpsertStaff(r)
  <2>1. pc'[r] \notin {"target", "delete"}
    BY <1>3 DEF S!UpsertStaff, S!Finish, S!Goto, S!TypeOK
  <2> QED
    BY <1>0, <1>3, <1>a, <2>1, GrowthKeepsCounts DEF S!UpsertStaff, S!StaffRemains, CountHolds
<1>4. CASE S!CountStaff(r)
  <2>1. pc'[r] = "target" /\ locals'[r].count = Cardinality(staff)
    BY <1>4, RegistryCardinality DEF S!CountStaff, S!Goto, S!TypeOK, S!Call
  <2>2. locals'[r].count <= Cardinality(staff')
    BY <1>4, <1>b, <2>1 DEF S!CountStaff
  <2> QED
    BY <1>0, <1>4, <1>a, <2>1, <2>2, GrowthKeepsCounts DEF S!CountStaff, S!StaffRemains, CountHolds
<1>5. CASE S!JudgeTarget(r)
  <2>1. locals[r].count \in Nat /\ locals[r] \in S!Call
    BY <1>5 DEF S!JudgeTarget, S!TypeOK, S!Call
  <2>2. ASSUME ~ cross, pc'[r] = "delete"
        PROVE  staff \ {locals[r].user} # {}
    <3>1. locals[r].user \notin staff \/ locals[r].count > 1
      BY <1>5, <2>1, <2>2 DEF S!JudgeTarget, S!Finish, S!Goto, S!TypeOK
    <3>2. CASE locals[r].user \notin staff
      BY <1>0, <1>5, <2>2, <3>2 DEF S!StaffRemains, S!JudgeTarget, CountHolds, S!TypeOK
    <3>3. CASE locals[r].count > 1
      <4>1. Cardinality(staff) > 1
        BY <1>5, <1>b, <2>1, <2>2, <3>3 DEF S!JudgeTarget, CountHolds
      <4>2. SUFFICES ASSUME staff \ {locals[r].user} = {} PROVE FALSE
        OBVIOUS
      <4>3. staff \subseteq {locals[r].user}
        BY <4>2
      <4>4. IsFiniteSet({locals[r].user}) /\ Cardinality({locals[r].user}) = 1
        BY FS_Singleton
      <4>5. Cardinality(staff) <= 1
        BY <4>3, <4>4, FS_Subset
      <4> QED
        BY <1>b, <4>1, <4>5
    <3> QED
      BY <3>1, <3>2, <3>3
  <2>3. pc'[r] # "target" /\ (pc'[r] = "delete" => locals'[r] = locals[r])
    BY <1>5 DEF S!JudgeTarget, S!Finish, S!Goto, S!TypeOK
  <2> QED
    BY <1>0, <1>5, <1>a, <2>2, <2>3, GrowthKeepsCounts DEF S!JudgeTarget, S!StaffRemains, CountHolds
<1>6. CASE S!Delete(r)
  <2>1. pc'[r] = "idle"
    BY <1>6 DEF S!Delete, S!Finish, S!Goto, S!TypeOK
  <2>2. ASSUME ~ cross' PROVE ~ cross /\ \A q \in Requests \ {r} : ~ S!Counted(q)
    BY <1>6, <2>2 DEF S!Delete
  <2>3. S!StaffRemains'
    BY <1>6, <2>2 DEF S!Delete, S!StaffRemains, CountHolds
  <2>4. CountHolds'
    BY <1>a, <2>1, <2>2 DEF CountHolds, S!Counted
  <2> QED
    BY <1>0, <2>3, <2>4
<1> QED
  BY <1>0, <1>1, <1>2, <1>3, <1>4, <1>5, <1>6 DEF S!Handle

\* promote-staff only adds.
LEMMA PromoteKeeps ==
  ASSUME RegistryInv, NEW u \in Users, S!Promote(u)
  PROVE  RegistryInv'
<1>1. S!TypeOK'
  BY DEF RegistryInv, S!Promote, S!TypeOK
<1>2. S!StaffRemains'
  BY DEF S!Promote, S!StaffRemains
<1>3. Started'
  BY DEF S!Promote, RegistryInv, Started
<1>4. staff \subseteq staff' /\ cross' = cross /\ pc' = pc /\ locals' = locals
  BY DEF S!Promote
<1>5. CountHolds'
  BY <1>1, <1>4, GrowthKeepsCounts DEF RegistryInv, CountHolds
<1> QED
  BY <1>1, <1>2, <1>3, <1>5 DEF RegistryInv

LEMMA RegistryInvInit == ASSUME S!Init PROVE RegistryInv
<1>1. \A r \in Requests : pc[r] = "idle"
  BY DEF S!Init
<1>2. calls = 0
  BY DEF S!Init
<1> QED
  BY <1>1, <1>2, RegistryTypeInit DEF RegistryInv, S!StaffRemains, CountHolds, Started

LEMMA RegistryInvStep == ASSUME RegistryInv, S!Next \/ UNCHANGED S!vars PROVE RegistryInv'
<1>1. ASSUME NEW u \in Users, S!Promote(u) PROVE RegistryInv'
  BY <1>1, PromoteKeeps
<1>2. ASSUME NEW r \in Requests, S!Handle(r) PROVE RegistryInv'
  BY <1>2, RegistryTypeStep, RegistryHandled DEF RegistryInv
<1>3. CASE UNCHANGED S!vars
  BY <1>3 DEF S!vars, RegistryInv, S!TypeOK, S!StaffRemains, CountHolds, Started
<1> QED
  BY <1>1, <1>2, <1>3 DEF S!Next

----------------------------------------------------------------------------
\* AccountLinks: a link read open is still open while its count of changes is
\* the one read; a slot found free is still free while no link was added, the
\* links an overtaken acceptance brings back set aside.

LEMMA ClientBounds ==
  /\ ClientLimits \subseteq Nat \cup {Nil} /\ MaxInvitations \in Nat /\ MaxClientCalls \in Nat
  /\ Nil \notin A!Job /\ Nil \notin Nat
BY ClientAssumption, NilAssumption

LEMMA ClientCardinality == \A T : A!Cardinality(T) = Cardinality(T)
BY DEF A!Cardinality, Cardinality

\* Parts of the invariant.

\* The locals are there when their step needs them.
ClientLocalsReady ==
  \A r \in Requests :
    /\ pc[r] \in {"slot", "count", "client", "linked", "create"} => locals[r].email \in Clients
    /\ pc[r] \in {"mail", "accept", "remove"} => locals[r].link \in A!Known
    /\ pc[r] = "accept" => locals[r].client \in Clients

ClientHistoryKnown == late \subseteq 0..Len(links) /\ crossed \subseteq 0..Len(links)

\* A link that still has its token was never accepted, and one that is pending
\* was never removed.
ClientOpenIsFresh ==
  \A l \in A!Known :
    /\ links[l].token => links[l].accepted = 0
    /\ links[l].status = "PENDING" => ~ links[l].removed

\* What an acceptance read of a link still holds unless the link has changed.
ClientReadOrStale ==
  \A r \in Requests : pc[r] = "accept" =>
    /\ locals[r].changes <= links[locals[r].link].changes
    /\ ~ A!Stale(r) => links[locals[r].link].token /\ links[locals[r].link].status = "PENDING"

\* The links an invitation has counted are still there.
ClientInviting(r) == pc[r] \in {"client", "linked", "create"}
ClientCountBehind == \A r \in Requests : ClientInviting(r) => locals[r].count <= Len(links)

\* The regular links up to one fit the slots its invitation had read, and all of
\* them leave a slot to an invitation under way that no other has overtaken.
ClientUpTo(l) == {k \in A!Regular : k <= l}
ClientSlotKept ==
  /\ \A l \in A!Regular : Cardinality(ClientUpTo(l)) <= links[l].limit
  /\ \A r \in Requests :
       ClientInviting(r) /\ locals[r].count = Len(links)
         => Cardinality(A!Regular) < locals[r].limit

ClientShape == A!TypeOK /\ ClientLocalsReady /\ ClientHistoryKnown
ClientInv == ClientShape /\ ClientOpenIsFresh /\ ClientReadOrStale /\ A!AcceptedAsRead

----------------------------------------------------------------------------
\* A null limit is no slot at all.
LEMMA ClientSlotsCount == ASSUME A!TypeOK PROVE A!Slots \in Nat
BY ClientBounds DEF A!Slots, A!TypeOK

LEMMA ClientJobFields ==
  ASSUME NEW j \in A!Job
  PROVE  /\ j.link \in Nat /\ j.changes \in Nat /\ j.docs \in Nat /\ j.count \in Nat
         /\ j.limit \in Nat
         /\ j.email \in Clients \cup {Nil} /\ j.client \in Clients \cup {Nil}
BY DEF A!Job

LEMMA ClientNoJobType == A!NoJob \in A!Job
BY DEF A!NoJob, A!Job

LEMMA ClientBusy ==
  ASSUME A!TypeOK, NEW r \in Requests, pc[r] # "idle" PROVE locals[r] \in A!Job
BY DEF A!TypeOK

LEMMA ClientGotoShape ==
  ASSUME A!TypeOK, NEW r \in Requests, NEW step \in A!Steps \ {"idle"}, NEW w \in A!Job,
         A!Goto(r, step, w)
  PROVE  /\ pc' \in [Requests -> A!Steps] /\ locals' \in [Requests -> A!Job \cup {Nil}]
         /\ \A q \in Requests : locals'[q] = Nil <=> pc'[q] = "idle"
         /\ pc'[r] = step /\ locals'[r] = w
         /\ \A q \in Requests \ {r} : pc'[q] = pc[q] /\ locals'[q] = locals[q]
BY ClientBounds DEF A!TypeOK, A!Goto

LEMMA ClientFinishShape ==
  ASSUME A!TypeOK, NEW r \in Requests, A!Finish(r)
  PROVE  /\ pc' \in [Requests -> A!Steps] /\ locals' \in [Requests -> A!Job \cup {Nil}]
         /\ \A q \in Requests : locals'[q] = Nil <=> pc'[q] = "idle"
         /\ pc'[r] = "idle"
         /\ \A q \in Requests \ {r} : pc'[q] = pc[q] /\ locals'[q] = locals[q]
BY ClientBounds DEF A!TypeOK, A!Finish, A!Goto, A!Steps

\* The sequence of links as a function.
LEMMA ClientLinksAre ==
  ASSUME A!TypeOK
  PROVE  /\ Len(links) \in Nat /\ A!Known = 1..Len(links)
         /\ \A l \in A!Known : links[l] \in A!Link
BY DEF A!TypeOK, A!Known

LEMMA ClientLinkFields ==
  ASSUME NEW k \in A!Link
  PROVE  /\ k.email \in Clients /\ k.client \in Clients \cup {Nil} /\ k.status \in A!Status
         /\ k.token \in BOOLEAN /\ k.expired \in BOOLEAN /\ k.changes \in Nat
         /\ k.removed \in BOOLEAN /\ k.accepted \in Nat /\ k.limit \in Nat
BY DEF A!Link

\* Replacing a link by another keeps the table.
LEMMA ClientReplace ==
  ASSUME A!TypeOK, NEW l \in A!Known, NEW k \in A!Link, links' = [links EXCEPT ![l] = k]
  PROVE  /\ links' \in Seq(A!Link) /\ Len(links') = Len(links) /\ A!Known' = A!Known
         /\ links'[l] = k
         /\ \A m \in A!Known : m # l => links'[m] = links[m]
BY DEF A!TypeOK, A!Known

\* Whether a shorter or longer history, the table does not forget a link.
LEMMA ClientExtend ==
  ASSUME A!TypeOK, NEW k \in A!Link, links' = Append(links, k), Len(links) < MaxInvitations
  PROVE  /\ links' \in Seq(A!Link) /\ Len(links') = Len(links) + 1 /\ Len(links') <= MaxInvitations
         /\ A!Known' = A!Known \cup {Len(links) + 1} /\ Len(links) + 1 \notin A!Known
         /\ links'[Len(links) + 1] = k
         /\ \A m \in A!Known : links'[m] = links[m]
BY ClientBounds DEF A!TypeOK, A!Known

----------------------------------------------------------------------------
\* Types and w.

\* The tables keep their types, and the links only grow in number.
ClientTablesOK ==
  /\ docs' \in Nat /\ uploads' \in Nat /\ verified' \in BOOLEAN /\ approved' \in Nat
  /\ clientLimit' \in ClientLimits
  /\ registered' \in SUBSET Clients /\ coupons' \in Nat /\ calls' \in 0..MaxClientCalls
  /\ links' \in Seq(A!Link) /\ Len(links') <= MaxInvitations /\ Len(links) <= Len(links')
  /\ mailed' \subseteq A!Known' /\ late' \subseteq 0..Len(links') /\ crossed' \subseteq 0..Len(links')

\* What request r needs at its next step is there.
ClientNextReady(r) ==
  /\ pc'[r] \in {"slot", "count", "client", "linked", "create"} => locals'[r].email \in Clients
  /\ pc'[r] \in {"mail", "accept", "remove"} => locals'[r].link \in A!Known'
  /\ pc'[r] = "accept" => locals'[r].client \in Clients

LEMMA ClientShapeFrom ==
  ASSUME ClientShape, NEW r \in Requests, ClientTablesOK, ClientNextReady(r),
         pc' \in [Requests -> A!Steps], locals' \in [Requests -> A!Job \cup {Nil}],
         \A q \in Requests : locals'[q] = Nil <=> pc'[q] = "idle",
         \A q \in Requests \ {r} : pc'[q] = pc[q] /\ locals'[q] = locals[q]
  PROVE  ClientShape'
<1>1. Len(links') \in Nat /\ A!Known' = 1..Len(links') /\ Len(links) \in Nat /\ A!Known = 1..Len(links)
  BY ClientLinksAre DEF ClientShape, ClientTablesOK, A!Known
<1>2. A!Known \subseteq A!Known'
  BY <1>1 DEF ClientTablesOK
<1>3. ClientLocalsReady'
  BY <1>2 DEF ClientShape, ClientLocalsReady, ClientNextReady
<1>4. ClientHistoryKnown'
  BY DEF ClientTablesOK, ClientHistoryKnown
<1>5. late' \in SUBSET Nat /\ crossed' \in SUBSET Nat
  BY <1>1 DEF ClientTablesOK
<1>6. A!TypeOK'
  BY <1>5 DEF ClientTablesOK, A!TypeOK
<1> QED
  BY <1>3, <1>4, <1>6 DEF ClientShape

\* When no table changes.
LEMMA ClientTablesRest ==
  ASSUME ClientShape, UNCHANGED <<A!papers, A!book, coupons, late, crossed>>, calls' \in 0..MaxClientCalls
  PROVE  ClientTablesOK /\ A!Known' = A!Known
<1>1. Len(links) \in Nat
  BY ClientLinksAre DEF ClientShape
<1>2. links' = links /\ Len(links') = Len(links) /\ A!Known' = A!Known /\ Len(links) <= MaxInvitations
  BY DEF A!book, A!Known, ClientShape, A!TypeOK
<1>3. mailed' \subseteq A!Known' /\ late' \subseteq 0..Len(links') /\ crossed' \subseteq 0..Len(links')
  BY <1>2 DEF A!book, ClientShape, A!TypeOK, ClientHistoryKnown
<1>4. links' \in Seq(A!Link) /\ Len(links') <= MaxInvitations /\ Len(links) <= Len(links')
  BY <1>1, <1>2 DEF ClientShape, A!TypeOK
<1> QED
  BY <1>2, <1>3, <1>4 DEF A!papers, A!book, ClientShape, A!TypeOK, ClientTablesOK

LEMMA ClientCallCounts == ASSUME A!TypeOK, A!Call PROVE calls' \in 0..MaxClientCalls
BY ClientBounds DEF A!TypeOK, A!Call

\* A request moves on with job j and the tables rest.
LEMMA ClientMoveShape ==
  ASSUME ClientShape, NEW r \in Requests, NEW step \in A!Steps \ {"idle"}, NEW j \in A!Job,
         A!Goto(r, step, j), UNCHANGED <<A!papers, A!book, coupons, late, crossed>>,
         calls' \in 0..MaxClientCalls,
         step \in {"slot", "count", "client", "linked", "create"} => j.email \in Clients,
         step \in {"mail", "accept", "remove"} => j.link \in A!Known,
         step = "accept" => j.client \in Clients
  PROVE  ClientShape'
BY ClientTablesRest, ClientGotoShape, ClientShapeFrom DEF ClientShape, ClientNextReady

\* A request ends and the tables rest.
LEMMA ClientEndShape ==
  ASSUME ClientShape, NEW r \in Requests, A!Finish(r), 
         UNCHANGED <<A!papers, A!book, coupons, late, crossed>>, calls' = calls
  PROVE  ClientShape'
<1>1. calls' \in 0..MaxClientCalls
  BY DEF ClientShape, A!TypeOK
<1> QED
  BY <1>1, ClientTablesRest, ClientFinishShape, ClientShapeFrom DEF ClientShape, ClientNextReady

\* The links of the client side: an invitation.
LEMMA ClientInviteShape ==
  ASSUME ClientShape, NEW r \in Requests, A!Invite(r)
  PROVE  ClientShape'
<1> USE DEF ClientShape
<1>0. calls \in 0..MaxClientCalls
  BY DEF A!TypeOK
<1>1. ASSUME NEW email \in Clients, A!BeginInvite(r, email) PROVE ClientShape'
  <2>1. [A!NoJob EXCEPT !.email = email] \in A!Job /\ [A!NoJob EXCEPT !.email = email].email = email
    BY DEF A!NoJob, A!Job
  <2> QED
    BY <1>0, <1>1, <2>1, ClientMoveShape DEF A!BeginInvite, A!Steps
<1>l. CASE A!ReadLimit(r)
  <2>1. locals[r] \in A!Job /\ locals[r].email \in Clients /\ A!Slots \in Nat
    BY <1>l, ClientBusy, ClientSlotsCount DEF A!ReadLimit, ClientLocalsReady
  <2>2. [locals[r] EXCEPT !.limit = A!Slots] \in A!Job
          /\ [locals[r] EXCEPT !.limit = A!Slots].email = locals[r].email
    BY <2>1 DEF A!Job
  <2> QED
    BY <1>0, <1>l, <2>1, <2>2, ClientMoveShape DEF A!ReadLimit, A!Steps
<1>2. CASE A!CountLinks(r)
  <2>1. locals[r] \in A!Job /\ locals[r].email \in Clients
    BY <1>2, ClientBusy DEF A!CountLinks, ClientLocalsReady
  <2>2. Len(links) \in Nat
    BY ClientLinksAre
  <2>3. [locals[r] EXCEPT !.count = Len(links)] \in A!Job
          /\ [locals[r] EXCEPT !.count = Len(links)].email = locals[r].email
    BY <2>1, <2>2 DEF A!Job
  <2> QED
    BY <1>0, <1>2, <2>1, <2>3, ClientMoveShape, ClientEndShape DEF A!CountLinks, A!Steps
<1>3. CASE A!FindClient(r)
  <2>1. locals[r] \in A!Job /\ locals[r].email \in Clients
    BY <1>3, ClientBusy DEF A!FindClient, ClientLocalsReady
  <2> QED
    BY <1>0, <1>3, <2>1, ClientMoveShape DEF A!FindClient, A!Steps
<1>4. CASE A!FindLink(r)
  <2>1. locals[r] \in A!Job /\ locals[r].email \in Clients
    BY <1>4, ClientBusy DEF A!FindLink, ClientLocalsReady
  <2> QED
    BY <1>0, <1>4, <2>1, ClientMoveShape, ClientEndShape DEF A!FindLink, A!Steps
<1>5. CASE A!CreateLink(r)
  <2> DEFINE k == [email |-> locals[r].email, client |-> Nil, status |-> "PENDING", token |-> TRUE,
                   expired |-> FALSE, changes |-> 0, removed |-> FALSE, accepted |-> 0,
                   limit |-> locals[r].limit]
             j == [locals[r] EXCEPT !.link = Len(links) + 1]
  <2>1. locals[r] \in A!Job /\ locals[r].email \in Clients
    BY <1>5, ClientBusy DEF A!CreateLink, ClientLocalsReady
  <2>2. k \in A!Link
    BY <2>1 DEF A!Link, A!Status, A!Job
  <2>3. Len(links) \in Nat
    BY ClientLinksAre
  <2>4. j \in A!Job /\ j.link = Len(links) + 1
    BY <2>1, <2>3 DEF A!Job
  <2>5. /\ links' \in Seq(A!Link) /\ Len(links') = Len(links) + 1 /\ Len(links') <= MaxInvitations
        /\ A!Known' = A!Known \cup {Len(links) + 1}
    BY <1>5, <2>2, ClientExtend DEF A!CreateLink
  <2>6. late' \subseteq 0..Len(links') /\ crossed' \subseteq 0..Len(links')
    BY <1>5, <2>3, <2>5 DEF A!CreateLink, ClientHistoryKnown
  <2>7. mailed' \subseteq A!Known'
    BY <1>5, <2>5 DEF A!CreateLink, A!TypeOK
  <2>8. A!Goto(r, "mail", j)
    BY <1>5 DEF A!CreateLink
  <2> HIDE DEF j, k
  <2>9. ClientNextReady(r)
    BY <2>4, <2>5, <2>8, ClientGotoShape DEF ClientNextReady, A!Steps
  <2>10. ClientTablesOK
    BY <1>0, <1>5, <2>3, <2>5, <2>6, <2>7 DEF A!CreateLink, A!papers, A!TypeOK, ClientTablesOK
  <2> QED
    BY <2>4, <2>8, <2>9, <2>10, ClientGotoShape, ClientShapeFrom DEF A!Steps
<1>6. CASE A!SendInvite(r)
  <2>1. Len(links) \in Nat
    BY ClientLinksAre
  <2>2. A!Known' = A!Known /\ Len(links') = Len(links)
    BY <1>6 DEF A!SendInvite, A!Known
  <2>3. mailed' \subseteq A!Known'
    BY <1>6, <2>2 DEF A!SendInvite, A!TypeOK, ClientLocalsReady
  <2>4. late' \subseteq 0..Len(links') /\ crossed' \subseteq 0..Len(links')
    BY <1>6, <2>2 DEF A!SendInvite, ClientHistoryKnown
  <2>5. links' \in Seq(A!Link) /\ Len(links') <= MaxInvitations /\ Len(links) <= Len(links')
    BY <1>6, <2>1, <2>2 DEF A!SendInvite, A!TypeOK
  <2>6. ClientTablesOK
    BY <1>0, <1>6, <2>3, <2>4, <2>5 DEF A!SendInvite, A!papers, A!TypeOK, ClientTablesOK
  <2> QED
    BY <1>6, <2>6, ClientFinishShape, ClientShapeFrom DEF A!SendInvite, ClientNextReady
<1> QED
  BY <1>1, <1>l, <1>2, <1>3, <1>4, <1>5, <1>6 DEF A!Invite

\* A link changed in place by a request that ends.
LEMMA ClientChangeShape ==
  ASSUME ClientShape, NEW r \in Requests, NEW l \in A!Known, NEW k \in A!Link,
         links' = [links EXCEPT ![l] = k], A!Finish(r), crossed' \subseteq crossed \cup {l},
         UNCHANGED <<A!papers, clientLimit, registered, mailed, coupons, calls, late>>
  PROVE  ClientShape'
<1>1. Len(links) \in Nat /\ A!Known = 1..Len(links)
  BY ClientLinksAre DEF ClientShape
<1>2. links' \in Seq(A!Link) /\ Len(links') = Len(links) /\ A!Known' = A!Known
  BY ClientReplace DEF ClientShape
<1>3. crossed' \subseteq 0..Len(links') /\ late' \subseteq 0..Len(links') /\ mailed' \subseteq A!Known'
  BY <1>1, <1>2 DEF ClientShape, ClientHistoryKnown, A!TypeOK
<1>4. ClientTablesOK
  BY <1>1, <1>2, <1>3 DEF ClientShape, A!papers, A!TypeOK, ClientTablesOK
<1> QED
  BY <1>4, ClientFinishShape, ClientShapeFrom DEF ClientShape, ClientNextReady

\* The link after an acceptance, and after a removal.
LEMMA ClientAcceptedIs ==
  ASSUME NEW k \in A!Link, NEW c \in Clients
  PROVE  /\ A!Accepted(k, c) \in A!Link /\ A!Accepted(k, c).status = "ACTIVE"
         /\ A!Accepted(k, c).token = FALSE /\ A!Accepted(k, c).changes = k.changes + 1
         /\ A!Accepted(k, c).accepted = k.accepted + 1 /\ A!Accepted(k, c).removed = k.removed
         /\ A!Accepted(k, c).limit = k.limit
<1>1. A!Accepted(k, c) \in A!Link
  BY DEF A!Accepted, A!Link, A!Status
<1> QED
  BY <1>1 DEF A!Accepted, A!Link

LEMMA ClientRemovedIs ==
  ASSUME NEW k \in A!Link
  PROVE  /\ A!Removed(k) \in A!Link /\ A!Removed(k).status = "REMOVED" /\ A!Removed(k).removed = TRUE
         /\ A!Removed(k).token = k.token /\ A!Removed(k).changes = k.changes + 1
         /\ A!Removed(k).accepted = k.accepted /\ A!Removed(k).limit = k.limit
<1>1. A!Removed(k) \in A!Link
  BY DEF A!Removed, A!Link, A!Status
<1> QED
  BY <1>1 DEF A!Removed, A!Link

LEMMA ClientAcceptWrites ==
  ASSUME ClientShape, NEW r \in Requests, A!AcceptInvite(r)
  PROVE  /\ locals[r].link \in A!Known /\ locals[r].client \in Clients /\ A!Finish(r)
         /\ links' = [links EXCEPT ![locals[r].link] = A!Accepted(links[locals[r].link], locals[r].client)]
         /\ crossed' = IF A!Stale(r) THEN crossed \cup {locals[r].link} ELSE crossed
         /\ UNCHANGED <<A!papers, clientLimit, registered, mailed, coupons, calls, late>>
BY DEF A!AcceptInvite, ClientShape, ClientLocalsReady

LEMMA ClientRemoveWrites ==
  ASSUME ClientShape, NEW r \in Requests, A!RemoveClient(r)
  PROVE  /\ locals[r].link \in A!Known /\ A!Finish(r)
         /\ links' = [links EXCEPT ![locals[r].link] = A!Removed(links[locals[r].link])]
         /\ UNCHANGED <<A!papers, clientLimit, registered, mailed, coupons, calls, late, crossed>>
BY DEF A!RemoveClient, ClientShape, ClientLocalsReady

LEMMA ClientAnswerShape ==
  ASSUME ClientShape, NEW r \in Requests, A!Answer(r)
  PROVE  ClientShape'
<1> USE DEF ClientShape
<1>1. ASSUME NEW l \in A!Known, NEW c \in Clients, A!BeginAccept(r, l, c) PROVE ClientShape'
  <2> DEFINE j == [A!NoJob EXCEPT !.link = l, !.client = c, !.changes = links[l].changes]
  <2>1. l \in Nat /\ links[l].changes \in Nat
    BY ClientLinksAre, ClientLinkFields
  <2>2. j \in A!Job /\ j.link = l /\ j.client = c
    BY <2>1 DEF A!NoJob, A!Job
  <2>3. A!Goto(r, "accept", j) /\ UNCHANGED <<A!papers, A!book, coupons, late, crossed>> /\ A!Call
    BY <1>1 DEF A!BeginAccept
  <2> HIDE DEF j
  <2> QED
    BY <2>2, <2>3, ClientCallCounts, ClientMoveShape DEF A!Steps
<1>2. ASSUME NEW l \in A!Known, A!BeginRemove(r, l) PROVE ClientShape'
  <2>1. l \in Nat
    BY ClientLinksAre
  <2>2. [A!NoJob EXCEPT !.link = l] \in A!Job /\ [A!NoJob EXCEPT !.link = l].link = l
    BY <2>1 DEF A!NoJob, A!Job
  <2> QED
    BY <1>2, <2>2, ClientCallCounts, ClientMoveShape DEF A!BeginRemove, A!Steps
<1>3. CASE A!AcceptInvite(r)
  <2>1. links[locals[r].link] \in A!Link
    BY <1>3, ClientAcceptWrites, ClientLinksAre
  <2>2. A!Accepted(links[locals[r].link], locals[r].client) \in A!Link
    BY <1>3, <2>1, ClientAcceptWrites, ClientAcceptedIs
  <2> QED
    BY <1>3, <2>2, ClientAcceptWrites, ClientChangeShape
<1>4. CASE A!RemoveClient(r)
  <2>1. links[locals[r].link] \in A!Link
    BY <1>4, ClientRemoveWrites, ClientLinksAre
  <2>2. A!Removed(links[locals[r].link]) \in A!Link
    BY <2>1, ClientRemovedIs
  <2>3. crossed' = crossed
    BY <1>4 DEF A!RemoveClient
  <2> QED
    BY <1>4, <2>2, <2>3, ClientRemoveWrites, ClientChangeShape
<1> QED
  BY <1>1, <1>2, <1>3, <1>4 DEF A!Answer

\* A request that ends and leaves the links, and all but the papers or the
\* coupons.
LEMMA ClientPaperShape ==
  ASSUME ClientShape, NEW r \in Requests, A!Finish(r), UNCHANGED <<A!book, calls>>,
         docs' \in Nat, uploads' \in Nat, verified' \in BOOLEAN, approved' \in Nat,
         coupons' \in Nat, late' \subseteq late \cup {0}, crossed' \subseteq crossed \cup {0}
  PROVE  ClientShape'
<1>1. Len(links) \in Nat
  BY ClientLinksAre DEF ClientShape
<1>2. links' = links /\ Len(links') = Len(links) /\ A!Known' = A!Known
  BY DEF A!book, A!Known
<1>3. late' \subseteq 0..Len(links') /\ crossed' \subseteq 0..Len(links')
  BY <1>1, <1>2 DEF ClientShape, ClientHistoryKnown
<1>4. mailed' \subseteq A!Known' /\ Len(links) <= Len(links')
  BY <1>1, <1>2 DEF A!book, ClientShape, A!TypeOK
<1>5. ClientTablesOK
  BY <1>2, <1>3, <1>4 DEF A!book, ClientShape, A!TypeOK, ClientTablesOK
<1> QED
  BY <1>5, ClientFinishShape, ClientShapeFrom DEF ClientShape, ClientNextReady

LEMMA ClientJudgeShape ==
  ASSUME ClientShape, NEW r \in Requests, A!Judge(r)
  PROVE  ClientShape'
<1> USE DEF ClientShape
<1>1. CASE A!LookAtDocs(r)
  <2>1. [A!NoJob EXCEPT !.docs = docs] \in A!Job
    BY DEF A!NoJob, A!Job, A!TypeOK
  <2> QED
    BY <1>1, <2>1, ClientCallCounts, ClientMoveShape DEF A!LookAtDocs, A!Steps
<1>2. CASE A!BeginApprove(r)
  <2>1. locals[r] \in A!Job /\ calls' \in 0..MaxClientCalls
    BY <1>2, ClientBusy DEF A!BeginApprove, A!TypeOK
  <2> QED
    BY <1>2, <2>1, ClientMoveShape DEF A!BeginApprove, A!Steps
<1>3. CASE A!Approve(r)
  <2>1. locals[r].docs \in Nat
    BY <1>3, ClientBusy, ClientJobFields DEF A!Approve
  <2> QED
    BY <1>3, <2>1, ClientPaperShape DEF A!Approve, A!TypeOK
<1>4. CASE A!BeginReject(r)
  BY <1>4, ClientNoJobType, ClientCallCounts, ClientMoveShape DEF A!BeginReject, A!Steps
<1>5. CASE A!Reject(r)
  BY <1>5, ClientPaperShape DEF A!Reject, A!TypeOK
<1> QED
  BY <1>1, <1>2, <1>3, <1>4, <1>5 DEF A!Judge

LEMMA ClientCouponShape ==
  ASSUME ClientShape, NEW r \in Requests, A!Coupon(r)
  PROVE  ClientShape'
<1> USE DEF ClientShape
<1>1. CASE A!BeginCoupon(r)
  BY <1>1, ClientNoJobType, ClientCallCounts, ClientMoveShape DEF A!BeginCoupon, A!Steps
<1>2. CASE A!FindCoupon(r)
  <2>1. locals[r] \in A!Job /\ calls' \in 0..MaxClientCalls
    BY <1>2, ClientBusy DEF A!FindCoupon, A!TypeOK
  <2> QED
    BY <1>2, <2>1, ClientMoveShape, ClientEndShape DEF A!FindCoupon, A!Steps
<1>3. CASE A!DrawCode(r)
  <2>1. locals[r] \in A!Job /\ calls' \in 0..MaxClientCalls
    BY <1>3, ClientBusy DEF A!DrawCode, A!TypeOK
  <2> QED
    BY <1>3, <2>1, ClientMoveShape, ClientEndShape DEF A!DrawCode, A!Steps
<1>4. CASE A!CreateCoupon(r)
  BY <1>4, ClientPaperShape DEF A!CreateCoupon, A!papers, A!TypeOK
<1> QED
  BY <1>1, <1>2, <1>3, <1>4 DEF A!Coupon

\* The events that are no request's.
LEMMA ClientEventShape ==
  ASSUME ClientShape,
         A!Upload \/ A!ChangePlan \/ (\E l \in A!Known : A!Expire(l)) \/ (\E c \in Clients : A!Register(c))
  PROVE  ClientShape'
<1> USE DEF ClientShape
<1>0. Len(links) \in Nat
  BY ClientLinksAre
<1>1. CASE A!Upload
  <2>1. A!Known' = A!Known /\ ClientLocalsReady' /\ ClientHistoryKnown'
    BY <1>1 DEF A!Upload, A!book, ClientLocalsReady, ClientHistoryKnown, A!Known
  <2>2. docs' \in Nat /\ uploads' \in Nat
    BY <1>1 DEF A!Upload, A!TypeOK
  <2>3. verified' \in BOOLEAN
    BY <1>1 DEF A!Upload
  <2>4. calls' \in 0..MaxClientCalls
    BY <1>1, ClientCallCounts DEF A!Upload
  <2> QED
    BY <1>1, <2>1, <2>2, <2>3, <2>4 DEF A!Upload, A!book, A!TypeOK
<1>p. CASE A!ChangePlan
  <2>1. A!Known' = A!Known /\ ClientLocalsReady' /\ ClientHistoryKnown'
    BY <1>p DEF A!ChangePlan, ClientLocalsReady, ClientHistoryKnown, A!Known
  <2>2. calls' \in 0..MaxClientCalls /\ clientLimit' \in ClientLimits
    BY <1>p, ClientCallCounts DEF A!ChangePlan
  <2> QED
    BY <1>p, <2>1, <2>2 DEF A!ChangePlan, A!papers, A!TypeOK
<1>2. ASSUME NEW l \in A!Known, A!Expire(l) PROVE ClientShape'
  <2>1. links[l] \in A!Link
    BY ClientLinksAre
  <2>2. [links[l] EXCEPT !.expired = TRUE] \in A!Link
    BY <2>1 DEF A!Link
  <2>3. links' = [links EXCEPT ![l] = [links[l] EXCEPT !.expired = TRUE]]
    BY <1>2 DEF A!Expire
  <2>4. links' \in Seq(A!Link) /\ Len(links') = Len(links) /\ A!Known' = A!Known
    BY <2>2, <2>3, ClientReplace
  <2> QED
    BY <1>2, <2>4 DEF A!Expire, A!papers, A!TypeOK, ClientLocalsReady, ClientHistoryKnown
<1>3. ASSUME NEW c \in Clients, A!Register(c) PROVE ClientShape'
  BY <1>3 DEF A!Register, A!papers, A!TypeOK, ClientLocalsReady, ClientHistoryKnown, A!Known
<1> QED
  BY <1>1, <1>p, <1>2, <1>3

LEMMA ClientShapeStep == ASSUME ClientShape, A!Next \/ UNCHANGED A!vars PROVE ClientShape'
<1>1. CASE UNCHANGED A!vars
  BY <1>1 DEF A!vars, ClientShape, A!TypeOK, ClientLocalsReady, ClientHistoryKnown, A!Known
<1> QED
  BY <1>1, ClientInviteShape, ClientAnswerShape, ClientJudgeShape, ClientCouponShape,
     ClientEventShape DEF A!Next

LEMMA ClientShapeInit == ASSUME A!Init PROVE ClientShape
<1>1. Len(links) = 0 /\ A!Known = {} /\ links \in Seq(A!Link)
  BY DEF A!Init, A!Known
<1>2. \A r \in Requests : pc[r] = "idle" /\ locals[r] = Nil
  BY DEF A!Init
<1>3. pc \in [Requests -> A!Steps] /\ locals \in [Requests -> A!Job \cup {Nil}]
  BY DEF A!Init, A!Steps
<1>4. docs \in Nat /\ uploads \in Nat /\ approved \in Nat /\ registered \in SUBSET Clients
  BY DEF A!Init
<1>m. clientLimit \in ClientLimits
  BY DEF A!Init
<1>v. verified \in BOOLEAN
  BY DEF A!Init
<1>5. coupons \in Nat /\ mailed = {} /\ late = {} /\ crossed = {} /\ calls = 0
  BY DEF A!Init
<1>c. calls \in 0..MaxClientCalls
  BY <1>5, ClientBounds
<1>6. A!TypeOK
  BY <1>1, <1>2, <1>3, <1>4, <1>m, <1>v, <1>5, <1>c, ClientBounds DEF A!TypeOK
<1>7. ClientLocalsReady /\ ClientHistoryKnown
  BY <1>2, <1>5 DEF ClientLocalsReady, ClientHistoryKnown
<1> QED
  BY <1>6, <1>7 DEF ClientShape

----------------------------------------------------------------------------
\* What acceptances and approvals decide on.

\* When the links rest and no acceptance begins, nothing said of links changes.
LEMMA ClientLinksRest ==
  ASSUME ClientInv, UNCHANGED links, crossed \ {0} \subseteq crossed',
         \A r \in Requests : pc'[r] = "accept" => pc[r] = "accept" /\ locals'[r] = locals[r]
  PROVE  ClientOpenIsFresh' /\ ClientReadOrStale' /\ A!AcceptedAsRead'
<1>1. A!Known' = A!Known
  BY DEF A!Known
<1>2. ClientOpenIsFresh'
  BY <1>1 DEF ClientInv, ClientOpenIsFresh
<1>3. ClientReadOrStale'
  BY DEF ClientInv, ClientReadOrStale, A!Stale
<1>4. \A l \in A!Known : l # 0
  BY ClientLinksAre DEF ClientInv, ClientShape
<1>5. A!AcceptedAsRead'
  BY <1>1, <1>4 DEF ClientInv, A!AcceptedAsRead
<1> QED
  BY <1>2, <1>3, <1>5

LEMMA ClientInviteKeeps ==
  ASSUME ClientInv, NEW r \in Requests, A!Invite(r)
  PROVE  ClientOpenIsFresh' /\ ClientReadOrStale' /\ A!AcceptedAsRead'
<1> USE DEF ClientInv, ClientShape
<1>1. CASE \/ \E email \in Clients : A!BeginInvite(r, email)
           \/ A!ReadLimit(r) \/ A!CountLinks(r) \/ A!FindClient(r) \/ A!FindLink(r) \/ A!SendInvite(r)
  <2>1. UNCHANGED <<links, crossed>>
    BY <1>1 DEF A!BeginInvite, A!ReadLimit, A!CountLinks, A!FindClient, A!FindLink, A!SendInvite, A!book
  <2>2. pc'[r] # "accept" /\ \A q \in Requests \ {r} : pc'[q] = pc[q] /\ locals'[q] = locals[q]
    BY <1>1 DEF A!BeginInvite, A!ReadLimit, A!CountLinks, A!FindClient, A!FindLink, A!SendInvite, A!Finish,
       A!Goto, A!TypeOK
  <2> QED
    BY <2>1, <2>2, ClientLinksRest
<1>2. CASE A!CreateLink(r)
  <2> DEFINE k == [email |-> locals[r].email, client |-> Nil, status |-> "PENDING", token |-> TRUE,
                   expired |-> FALSE, changes |-> 0, removed |-> FALSE, accepted |-> 0,
                   limit |-> locals[r].limit]
  <2>1. locals[r] \in A!Job /\ locals[r].email \in Clients
    BY <1>2, ClientBusy DEF A!CreateLink, ClientLocalsReady
  <2>2. k \in A!Link /\ k.accepted = 0 /\ k.removed = FALSE
    BY <2>1 DEF A!Link, A!Status, A!Job
  <2> HIDE DEF k
  <2>3. Len(links) < MaxInvitations /\ links' = Append(links, k) /\ crossed' = crossed
    BY <1>2 DEF A!CreateLink, k
  <2>4. /\ A!Known' = A!Known \cup {Len(links) + 1} /\ links'[Len(links) + 1] = k
        /\ \A m \in A!Known : links'[m] = links[m]
    BY <2>2, <2>3, ClientExtend
  <2>5. \A q \in Requests : pc'[q] = "accept" => pc[q] = "accept" /\ locals'[q] = locals[q]
    BY <1>2 DEF A!CreateLink, A!Goto, A!TypeOK
  <2>6. ClientOpenIsFresh'
    BY <2>2, <2>4 DEF ClientOpenIsFresh
  <2>7. ClientReadOrStale'
    BY <2>4, <2>5 DEF ClientReadOrStale, A!Stale, ClientLocalsReady
  <2>8. A!AcceptedAsRead'
    <3> SUFFICES ASSUME NEW m \in A!Known', m \notin crossed
                 PROVE  links'[m].accepted <= 1 /\ (links'[m].removed => links'[m].status = "REMOVED")
      BY <2>3 DEF A!AcceptedAsRead
    <3>1. CASE m \in A!Known
      BY <2>4, <3>1 DEF A!AcceptedAsRead
    <3>2. CASE m = Len(links) + 1
      BY <2>2, <2>4, <3>2
    <3> QED
      BY <2>4, <3>1, <3>2
  <2> QED
    BY <2>6, <2>7, <2>8
<1> QED
  BY <1>1, <1>2 DEF A!Invite

LEMMA ClientAcceptKeeps ==
  ASSUME ClientInv, NEW r \in Requests, A!AcceptInvite(r)
  PROVE  ClientOpenIsFresh' /\ ClientReadOrStale' /\ A!AcceptedAsRead'
<1> USE DEF ClientInv, ClientShape
<1> DEFINE l == locals[r].link
           k == A!Accepted(links[l], locals[r].client)
<1>1. l \in A!Known /\ locals[r].client \in Clients /\ links[l] \in A!Link
  BY ClientAcceptWrites, ClientLinksAre
<1>2. k \in A!Link /\ k.status = "ACTIVE" /\ k.token = FALSE /\ k.changes = links[l].changes + 1
        /\ k.accepted = links[l].accepted + 1 /\ k.removed = links[l].removed
  BY <1>1, ClientAcceptedIs
<1>3. links' = [links EXCEPT ![l] = k] /\ A!Finish(r)
        /\ crossed' = IF A!Stale(r) THEN crossed \cup {l} ELSE crossed
  BY ClientAcceptWrites
<1>4. pc[r] = "accept"
  BY DEF A!AcceptInvite
<1>5. ~ A!Stale(r) => links[l].token /\ links[l].status = "PENDING"
  BY <1>4 DEF ClientReadOrStale
<1>6. ~ A!Stale(r) => links[l].accepted = 0 /\ ~ links[l].removed
  BY <1>1, <1>5 DEF ClientOpenIsFresh
<1>t. links[l].changes \in Nat /\ links[l].accepted \in Nat
  BY <1>1, ClientLinkFields
<1> HIDE DEF k, l
<1>7. A!Known' = A!Known /\ links'[l] = k /\ \A m \in A!Known : m # l => links'[m] = links[m]
  BY <1>1, <1>2, <1>3, ClientReplace
<1>8. ClientOpenIsFresh'
  BY <1>2, <1>7 DEF ClientOpenIsFresh
<1>9. ClientReadOrStale'
  <2> SUFFICES ASSUME NEW q \in Requests, pc'[q] = "accept"
               PROVE  /\ locals'[q].changes <= links'[locals'[q].link].changes
                      /\ links'[locals'[q].link].changes = locals'[q].changes
                           => links'[locals'[q].link].token /\ links'[locals'[q].link].status = "PENDING"
    BY DEF ClientReadOrStale, A!Stale
  <2>1. q # r /\ pc[q] = "accept" /\ locals'[q] = locals[q]
    BY <1>3, ClientFinishShape
  <2>2. locals[q].link \in A!Known /\ locals[q].changes \in Nat
    BY <2>1, ClientBusy, ClientJobFields DEF ClientLocalsReady
  <2>3. CASE locals[q].link = l
    <3>1. locals[q].changes <= links[l].changes
      BY <2>1, <2>3 DEF ClientReadOrStale
    <3> QED
      BY <1>2, <1>7, <1>t, <2>1, <2>2, <2>3, <3>1
  <2>4. CASE locals[q].link # l
    BY <1>7, <2>1, <2>2, <2>4 DEF ClientReadOrStale, A!Stale
  <2> QED
    BY <2>3, <2>4
<1>10. A!AcceptedAsRead'
  <2> SUFFICES ASSUME NEW m \in A!Known, m \notin crossed'
               PROVE  links'[m].accepted <= 1 /\ (links'[m].removed => links'[m].status = "REMOVED")
    BY <1>7 DEF A!AcceptedAsRead
  <2>1. CASE m = l
    BY <1>2, <1>3, <1>6, <1>7, <2>1
  <2>2. CASE m # l
    BY <1>3, <1>7, <2>2 DEF A!AcceptedAsRead
  <2> QED
    BY <2>1, <2>2
<1> QED
  BY <1>8, <1>9, <1>10

LEMMA ClientRemoveKeeps ==
  ASSUME ClientInv, NEW r \in Requests, A!RemoveClient(r)
  PROVE  ClientOpenIsFresh' /\ ClientReadOrStale' /\ A!AcceptedAsRead'
<1> USE DEF ClientInv, ClientShape
<1> DEFINE l == locals[r].link
           k == A!Removed(links[l])
<1>1. l \in A!Known /\ links[l] \in A!Link
  BY ClientRemoveWrites, ClientLinksAre
<1>2. k \in A!Link /\ k.status = "REMOVED" /\ k.token = links[l].token
        /\ k.changes = links[l].changes + 1 /\ k.accepted = links[l].accepted
  BY <1>1, ClientRemovedIs
<1>3. links' = [links EXCEPT ![l] = k] /\ A!Finish(r) /\ crossed' = crossed
  BY ClientRemoveWrites
<1>t. links[l].changes \in Nat
  BY <1>1, ClientLinkFields
<1> HIDE DEF k, l
<1>4. A!Known' = A!Known /\ links'[l] = k /\ \A m \in A!Known : m # l => links'[m] = links[m]
  BY <1>1, <1>2, <1>3, ClientReplace
<1>5. ClientOpenIsFresh'
  BY <1>1, <1>2, <1>4 DEF ClientOpenIsFresh
<1>6. ClientReadOrStale'
  <2> SUFFICES ASSUME NEW q \in Requests, pc'[q] = "accept"
               PROVE  /\ locals'[q].changes <= links'[locals'[q].link].changes
                      /\ links'[locals'[q].link].changes = locals'[q].changes
                           => links'[locals'[q].link].token /\ links'[locals'[q].link].status = "PENDING"
    BY DEF ClientReadOrStale, A!Stale
  <2>1. q # r /\ pc[q] = "accept" /\ locals'[q] = locals[q]
    BY <1>3, ClientFinishShape
  <2>2. locals[q].link \in A!Known /\ locals[q].changes \in Nat
    BY <2>1, ClientBusy, ClientJobFields DEF ClientLocalsReady
  <2>3. CASE locals[q].link = l
    <3>1. locals[q].changes <= links[l].changes
      BY <2>1, <2>3 DEF ClientReadOrStale
    <3> QED
      BY <1>2, <1>4, <1>t, <2>1, <2>2, <2>3, <3>1
  <2>4. CASE locals[q].link # l
    BY <1>4, <2>1, <2>2, <2>4 DEF ClientReadOrStale, A!Stale
  <2> QED
    BY <2>3, <2>4
<1>7. A!AcceptedAsRead'
  BY <1>1, <1>2, <1>3, <1>4 DEF A!AcceptedAsRead
<1> QED
  BY <1>5, <1>6, <1>7

\* The begin of an acceptance reads what it will write on.
LEMMA ClientBeginAcceptKeeps ==
  ASSUME ClientInv, NEW r \in Requests, NEW l \in A!Known, NEW c \in Clients, A!BeginAccept(r, l, c)
  PROVE  ClientOpenIsFresh' /\ ClientReadOrStale' /\ A!AcceptedAsRead'
<1> USE DEF ClientInv, ClientShape
<1> DEFINE j == [A!NoJob EXCEPT !.link = l, !.client = c, !.changes = links[l].changes]
<1>1. l \in Nat /\ links[l].changes \in Nat
  BY ClientLinksAre, ClientLinkFields
<1>2. j \in A!Job /\ j.link = l /\ j.changes = links[l].changes
  BY <1>1 DEF A!NoJob, A!Job
<1>3. A!Goto(r, "accept", j) /\ links' = links /\ crossed' = crossed /\ A!OpenInvite(l)
  BY DEF A!BeginAccept, A!book
<1> HIDE DEF j
<1>4. /\ pc'[r] = "accept" /\ locals'[r] = j
      /\ \A q \in Requests \ {r} : pc'[q] = pc[q] /\ locals'[q] = locals[q]
  BY <1>2, <1>3, ClientGotoShape DEF A!Steps
<1>5. A!Known' = A!Known
  BY <1>3 DEF A!Known
<1>6. ClientReadOrStale'
  <2> SUFFICES ASSUME NEW q \in Requests, pc'[q] = "accept"
               PROVE  /\ locals'[q].changes <= links[locals'[q].link].changes
                      /\ links[locals'[q].link].changes = locals'[q].changes
                           => links[locals'[q].link].token /\ links[locals'[q].link].status = "PENDING"
    BY <1>3 DEF ClientReadOrStale, A!Stale
  <2>1. CASE q = r
    BY <1>1, <1>2, <1>3, <1>4, <2>1 DEF A!OpenInvite
  <2>2. CASE q # r
    BY <1>4, <2>2 DEF ClientReadOrStale, A!Stale
  <2> QED
    BY <2>1, <2>2
<1>7. ClientOpenIsFresh'
  BY <1>3, <1>5 DEF ClientOpenIsFresh
<1>8. A!AcceptedAsRead'
  BY <1>3, <1>5 DEF A!AcceptedAsRead
<1> QED
  BY <1>6, <1>7, <1>8

LEMMA ClientExpireKeeps ==
  ASSUME ClientInv, NEW l \in A!Known, A!Expire(l)
  PROVE  ClientOpenIsFresh' /\ ClientReadOrStale' /\ A!AcceptedAsRead'
<1> USE DEF ClientInv, ClientShape
<1> DEFINE k == [links[l] EXCEPT !.expired = TRUE]
<1>1. links[l] \in A!Link
  BY ClientLinksAre
<1>2. /\ k \in A!Link /\ k.status = links[l].status /\ k.token = links[l].token
      /\ k.changes = links[l].changes /\ k.accepted = links[l].accepted
      /\ k.removed = links[l].removed
  BY <1>1 DEF A!Link
<1>3. links' = [links EXCEPT ![l] = k] /\ UNCHANGED <<pc, locals, crossed>>
  BY DEF A!Expire
<1> HIDE DEF k
<1>4. A!Known' = A!Known /\ links'[l] = k /\ \A m \in A!Known : m # l => links'[m] = links[m]
  BY <1>2, <1>3, ClientReplace
<1>5. ClientOpenIsFresh'
  BY <1>2, <1>4 DEF ClientOpenIsFresh
<1>6. ClientReadOrStale'
  <2> SUFFICES ASSUME NEW q \in Requests, pc[q] = "accept"
               PROVE  /\ locals[q].changes <= links'[locals[q].link].changes
                      /\ links'[locals[q].link].changes = locals[q].changes
                           => links'[locals[q].link].token /\ links'[locals[q].link].status = "PENDING"
    BY <1>3 DEF ClientReadOrStale, A!Stale
  <2>1. locals[q].link \in A!Known
    BY DEF ClientLocalsReady
  <2>2. CASE locals[q].link = l
    BY <1>2, <1>4, <2>2 DEF ClientReadOrStale, A!Stale
  <2>3. CASE locals[q].link # l
    BY <1>4, <2>1, <2>3 DEF ClientReadOrStale, A!Stale
  <2> QED
    BY <2>2, <2>3
<1>7. A!AcceptedAsRead'
  BY <1>2, <1>3, <1>4 DEF A!AcceptedAsRead
<1> QED
  BY <1>5, <1>6, <1>7

\* The rest of the handlers and events leave the links.
LEMMA ClientOthersKeep ==
  ASSUME ClientInv,
         \/ \E r \in Requests : A!Judge(r) \/ A!Coupon(r) \/ \E l \in A!Known : A!BeginRemove(r, l)
         \/ A!Upload \/ A!ChangePlan \/ \E c \in Clients : A!Register(c)
  PROVE  ClientOpenIsFresh' /\ ClientReadOrStale' /\ A!AcceptedAsRead'
<1> USE DEF ClientInv, ClientShape
<1>1. ASSUME NEW r \in Requests, A!Judge(r) \/ A!Coupon(r) \/ \E l \in A!Known : A!BeginRemove(r, l)
      PROVE  ClientOpenIsFresh' /\ ClientReadOrStale' /\ A!AcceptedAsRead'
  <2>1. UNCHANGED links /\ crossed \ {0} \subseteq crossed'
    BY <1>1 DEF A!Judge, A!LookAtDocs, A!BeginApprove, A!Approve, A!BeginReject, A!Reject,
       A!Coupon, A!BeginCoupon, A!FindCoupon, A!DrawCode, A!CreateCoupon, A!BeginRemove, A!book
  <2>2. pc'[r] # "accept" /\ \A q \in Requests \ {r} : pc'[q] = pc[q] /\ locals'[q] = locals[q]
    BY <1>1 DEF A!Judge, A!LookAtDocs, A!BeginApprove, A!Approve, A!BeginReject, A!Reject,
       A!Coupon, A!BeginCoupon, A!FindCoupon, A!DrawCode, A!CreateCoupon, A!BeginRemove,
       A!Finish, A!Goto, A!TypeOK
  <2> QED
    BY <2>1, <2>2, ClientLinksRest
<1>2. CASE A!Upload \/ A!ChangePlan \/ \E c \in Clients : A!Register(c)
  BY <1>2, ClientLinksRest DEF A!Upload, A!ChangePlan, A!Register, A!book
<1> QED
  BY <1>1, <1>2

LEMMA ClientInvInit == ASSUME A!Init PROVE ClientInv
<1>1. A!Known = {}
  BY DEF A!Init, A!Known
<1>2. \A r \in Requests : pc[r] = "idle"
  BY DEF A!Init
<1> QED
  BY <1>1, <1>2, ClientShapeInit DEF ClientInv, ClientOpenIsFresh, ClientReadOrStale,
     A!AcceptedAsRead

LEMMA ClientInvStep == ASSUME ClientInv, A!Next \/ UNCHANGED A!vars PROVE ClientInv'
<1>1. ClientShape'
  BY ClientShapeStep DEF ClientInv
<1>2. CASE UNCHANGED A!vars
  BY <1>2, ClientLinksRest, <1>1 DEF A!vars, ClientInv
<1>3. CASE A!Next
  BY <1>1, <1>3, ClientInviteKeeps, ClientBeginAcceptKeeps, ClientAcceptKeeps, ClientRemoveKeeps,
     ClientExpireKeeps, ClientOthersKeep
     DEF A!Next, A!Answer, ClientInv
<1> QED
  BY <1>2, <1>3

----------------------------------------------------------------------------
\* An approval is of the papers that were looked at, or is marked.
LEMMA ClientApprovalInit == A!Init => A!ApprovedAsSeen
BY DEF A!Init, A!ApprovedAsSeen

LEMMA ClientApprovalStep == ASSUME A!ApprovedAsSeen, A!Next \/ UNCHANGED A!vars PROVE A!ApprovedAsSeen'
<1>1. ASSUME NEW r \in Requests, A!Invite(r) \/ A!Coupon(r) PROVE A!ApprovedAsSeen'
  BY <1>1 DEF A!Invite, A!BeginInvite, A!ReadLimit, A!CountLinks, A!FindClient, A!FindLink, A!CreateLink,
     A!SendInvite,
     A!Coupon, A!BeginCoupon, A!FindCoupon, A!DrawCode, A!CreateCoupon, A!papers, A!ApprovedAsSeen
<1>2. ASSUME NEW r \in Requests, A!Answer(r) PROVE A!ApprovedAsSeen'
  BY <1>2 DEF A!Answer, A!BeginAccept, A!BeginRemove, A!AcceptInvite, A!RemoveClient, A!papers,
     A!ApprovedAsSeen
<1>3. ASSUME NEW r \in Requests, A!Judge(r) PROVE A!ApprovedAsSeen'
  BY <1>3 DEF A!Judge, A!LookAtDocs, A!BeginApprove, A!Approve, A!BeginReject, A!Reject,
     A!papers, A!ApprovedAsSeen
<1>4. CASE A!Upload \/ A!ChangePlan \/ (\E l \in A!Known : A!Expire(l)) \/ (\E c \in Clients : A!Register(c))
  BY <1>4 DEF A!Upload, A!ChangePlan, A!Expire, A!Register, A!papers, A!ApprovedAsSeen
<1>5. CASE UNCHANGED A!vars
  BY <1>5 DEF A!vars, A!ApprovedAsSeen
<1> QED
  BY <1>1, <1>2, <1>3, <1>4, <1>5 DEF A!Next

----------------------------------------------------------------------------
\* Slots.

ClientSlotInv == ClientCountBehind /\ ClientSlotKept

LEMMA ClientRegularFinite ==
  ASSUME ClientShape
  PROVE  /\ IsFiniteSet(A!Live) /\ IsFiniteSet(A!Regular)
         /\ Cardinality(A!Live) \in Nat /\ Cardinality(A!Regular) \in Nat
         /\ Cardinality(A!Regular) <= Cardinality(A!Live) /\ 0 \notin A!Live
<1>1. Len(links) \in Nat /\ A!Known = 1..Len(links)
  BY ClientLinksAre DEF ClientShape
<1>2. IsFiniteSet(A!Known)
  BY <1>1, FS_Interval
<1>3. IsFiniteSet(A!Live)
  BY <1>2, FS_Subset DEF A!Live
<1>4. A!Regular \subseteq A!Live
  BY DEF A!Regular
<1>5. 0 \notin A!Live
  BY <1>1 DEF A!Live
<1>6. IsFiniteSet(A!Regular) /\ Cardinality(A!Regular) <= Cardinality(A!Live)
  BY <1>3, <1>4, FS_Subset
<1>7. Cardinality(A!Live) \in Nat /\ Cardinality(A!Regular) \in Nat
  BY <1>3, <1>6, FS_CardinalityType
<1> QED
  BY <1>3, <1>5, <1>6, <1>7

LEMMA ClientOneMore ==
  ASSUME NEW Z, NEW x, IsFiniteSet(Z)
  PROVE  IsFiniteSet(Z \cup {x}) /\ Cardinality(Z \cup {x}) <= Cardinality(Z) + 1
<1>1. Cardinality(Z) \in Nat
  BY FS_CardinalityType
<1>2. IsFiniteSet(Z \cup {x})
        /\ Cardinality(Z \cup {x}) = IF x \in Z THEN Cardinality(Z) ELSE Cardinality(Z) + 1
  BY FS_AddElement
<1> QED
  BY <1>1, <1>2

\* The regular links up to one are finitely many, and fewer of them count no more.
LEMMA ClientUpToFewer ==
  ASSUME ClientShape, NEW l, NEW Z, Z \subseteq ClientUpTo(l)
  PROVE  /\ IsFiniteSet(Z) /\ Cardinality(Z) \in Nat /\ Cardinality(ClientUpTo(l)) \in Nat
         /\ Cardinality(Z) <= Cardinality(ClientUpTo(l))
<1>1. ClientUpTo(l) \subseteq A!Regular /\ IsFiniteSet(A!Regular)
  BY ClientRegularFinite DEF ClientUpTo
<1>2. IsFiniteSet(ClientUpTo(l)) /\ Cardinality(ClientUpTo(l)) \in Nat
  BY <1>1, FS_Subset, FS_CardinalityType
<1> QED
  BY <1>2, FS_Subset, FS_CardinalityType

\* Fewer regular links keep the slots of those who count.
LEMMA ClientSlotsFrom ==
  ASSUME ClientShape, ClientShape', ClientSlotInv, A!Regular' \subseteq A!Regular, Len(links) <= Len(links'),
         NEW r \in Requests,
         \A q \in Requests \ {r} : pc'[q] = pc[q] /\ locals'[q] = locals[q],
         ClientInviting(r)' => /\ ClientInviting(r) /\ locals'[r].count = locals[r].count
                              /\ locals'[r].limit = locals[r].limit,
         \A l \in A!Regular' : links'[l].limit = links[l].limit
  PROVE  ClientSlotInv'
<1>1. Cardinality(A!Regular') <= Cardinality(A!Regular) /\ Cardinality(A!Regular) \in Nat
        /\ Cardinality(A!Regular') \in Nat
  BY ClientRegularFinite, FS_Subset, FS_CardinalityType
<1>2. Len(links) \in Nat /\ Len(links') \in Nat
  BY ClientLinksAre DEF ClientShape, A!TypeOK
<1>3. \A q \in Requests : ClientInviting(q)' => /\ ClientInviting(q) /\ locals'[q].count = locals[q].count
                                               /\ locals'[q].limit = locals[q].limit
  BY DEF ClientInviting
<1>4. \A q \in Requests : ClientInviting(q) => locals[q].count \in Nat /\ locals[q].limit \in Nat
  BY ClientBusy, ClientJobFields DEF ClientInviting, ClientShape
<1>5. ClientCountBehind'
  BY <1>2, <1>3, <1>4 DEF ClientSlotInv, ClientCountBehind
<1>6. ClientSlotKept'
  <2>2. ASSUME NEW l \in A!Regular' PROVE Cardinality(ClientUpTo(l)') <= links'[l].limit
    <3>1. l \in A!Regular /\ links'[l].limit = links[l].limit
      OBVIOUS
    <3>2. Cardinality(ClientUpTo(l)) <= links[l].limit /\ links[l].limit \in Nat
      BY <3>1, ClientLinksAre, ClientLinkFields
         DEF ClientSlotInv, ClientSlotKept, A!Regular, A!Live, ClientShape
    <3>3. ClientUpTo(l)' \subseteq ClientUpTo(l)
      BY DEF ClientUpTo
    <3> QED
      BY <3>1, <3>2, <3>3, ClientUpToFewer
  <2>3. ASSUME NEW q \in Requests, ClientInviting(q)', locals'[q].count = Len(links')
        PROVE  Cardinality(A!Regular') < locals'[q].limit
    <3>1. ClientInviting(q) /\ locals[q].count = Len(links') /\ locals[q].count <= Len(links)
      BY <1>3, <2>3 DEF ClientSlotInv, ClientCountBehind
    <3>2. locals[q].count = Len(links)
      BY <1>2, <1>4, <3>1
    <3>3. Cardinality(A!Regular) < locals[q].limit /\ locals'[q].limit = locals[q].limit
            /\ locals[q].limit \in Nat
      BY <1>3, <1>4, <2>3, <3>1, <3>2 DEF ClientSlotInv, ClientSlotKept
    <3> QED
      BY <1>1, <3>3
  <2> QED
    BY <2>2, <2>3 DEF ClientSlotKept
<1> QED
  BY <1>5, <1>6 DEF ClientSlotInv

\* When the links rest, so do the regular ones, but for those marked meanwhile.
LEMMA ClientRegularRests ==
  ASSUME ClientShape, UNCHANGED <<links, late>>, crossed \ {0} \subseteq crossed'
  PROVE  A!Regular' \subseteq A!Regular
<1>1. A!Live' = A!Live /\ 0 \notin A!Live
  BY ClientRegularFinite DEF A!Live, A!Known
<1> QED
  BY <1>1 DEF A!Regular

LEMMA ClientCountKeeps ==
  ASSUME ClientShape, ClientShape', ClientSlotInv, NEW r \in Requests, A!CountLinks(r)
  PROVE  ClientSlotInv'
<1>1. UNCHANGED <<links, late, crossed>>
  BY DEF A!CountLinks, A!book
<1>2. A!Regular' = A!Regular /\ Len(links') = Len(links) /\ Len(links) \in Nat
  BY <1>1, ClientLinksAre DEF A!Regular, A!Live, A!Known, ClientShape
<1>3. CASE A!Finish(r)
  <2>1. ~ ClientInviting(r)' /\ \A q \in Requests \ {r} : pc'[q] = pc[q] /\ locals'[q] = locals[q]
    BY <1>3, ClientFinishShape DEF ClientInviting, ClientShape
  <2> QED
    BY <1>1, <1>2, <2>1, ClientSlotsFrom
<1>4. CASE A!SlotLeft(r) /\ A!Goto(r, "client", [locals[r] EXCEPT !.count = Len(links)])
  <2> DEFINE j == [locals[r] EXCEPT !.count = Len(links)]
  <2>1. locals[r] \in A!Job
    BY ClientBusy DEF A!CountLinks, ClientShape
  <2>2. j \in A!Job /\ j.count = Len(links) /\ j.limit = locals[r].limit /\ j.limit \in Nat
    BY <1>2, <2>1 DEF A!Job
  <2>3. A!Goto(r, "client", j)
    BY <1>4
  <2> HIDE DEF j
  <2>4. /\ locals'[r] = j
        /\ \A q \in Requests \ {r} : pc'[q] = pc[q] /\ locals'[q] = locals[q]
    BY <2>2, <2>3, ClientGotoShape DEF A!Steps, ClientShape
  <2>5. ClientCountBehind'
    BY <1>1, <1>2, <2>2, <2>4 DEF ClientSlotInv, ClientCountBehind, ClientInviting
  <2>6. Cardinality(A!Regular) < j.limit
    <3>1. Cardinality(A!Live) < j.limit
      BY ClientCardinality, <1>4, <2>2 DEF A!SlotLeft
    <3> QED
      BY <2>2, <3>1, ClientRegularFinite
  <2>8. \A l \in A!Regular' : Cardinality(ClientUpTo(l)') <= links'[l].limit
    BY <1>1, <1>2 DEF ClientSlotInv, ClientSlotKept, ClientUpTo
  <2>9. \A q \in Requests : ClientInviting(q)' /\ locals'[q].count = Len(links')
           => Cardinality(A!Regular') < locals'[q].limit
    BY <1>2, <2>4, <2>6 DEF ClientSlotInv, ClientSlotKept, ClientInviting
  <2>7. ClientSlotKept'
    BY <2>8, <2>9 DEF ClientSlotKept
  <2> QED
    BY <2>5, <2>7 DEF ClientSlotInv
<1> QED
  BY <1>3, <1>4 DEF A!CountLinks

LEMMA ClientCreateKeepsSlots ==
  ASSUME ClientShape, ClientShape', ClientSlotInv, NEW r \in Requests, A!CreateLink(r)
  PROVE  ClientSlotInv'
<1> DEFINE n == Len(links) + 1
           k == [email |-> locals[r].email, client |-> Nil, status |-> "PENDING", token |-> TRUE,
                 expired |-> FALSE, changes |-> 0, removed |-> FALSE, accepted |-> 0,
                   limit |-> locals[r].limit]
<1>1. locals[r] \in A!Job /\ locals[r].email \in Clients
  BY ClientBusy DEF A!CreateLink, ClientLocalsReady, ClientShape
<1>2. k \in A!Link /\ k.limit = locals[r].limit /\ k.limit \in Nat
  BY <1>1 DEF A!Link, A!Status, A!Job
<1>3. Len(links) < MaxInvitations /\ links' = Append(links, k) /\ crossed' = crossed
        /\ late' = IF Len(links) # locals[r].count THEN late \cup {n} ELSE late
  BY DEF A!CreateLink
<1>4. ClientInviting(r) /\ ~ ClientInviting(r)' /\ \A q \in Requests \ {r} : pc'[q] = pc[q] /\ locals'[q] = locals[q]
  BY DEF A!CreateLink, A!Goto, ClientInviting, ClientShape, A!TypeOK
<1> HIDE DEF k
<1>5. /\ Len(links') = n /\ A!Known' = A!Known \cup {n} /\ n \notin A!Known /\ links'[n] = k
      /\ \A m \in A!Known : links'[m] = links[m]
  BY <1>2, <1>3, ClientExtend DEF ClientShape
<1>6. Len(links) \in Nat
  BY ClientLinksAre DEF ClientShape
<1> HIDE DEF n
<1>7. A!Live' \subseteq A!Live \cup {n}
  BY <1>5 DEF A!Live
<1>8. CASE n \in late'
  <2>1. A!Regular' \subseteq A!Regular
    BY <1>3, <1>7, <1>8 DEF A!Regular
  <2>2. \A l \in A!Regular' : links'[l].limit = links[l].limit
    BY <1>5, <2>1 DEF A!Regular, A!Live
  <2> QED
    BY <1>4, <1>5, <1>6, <2>1, <2>2, ClientSlotsFrom DEF n
<1>9. CASE n \notin late'
  <2>1. A!Regular' \subseteq A!Regular \cup {n} /\ locals[r].count = Len(links)
    BY <1>3, <1>7, <1>9 DEF A!Regular
  <2>2. ASSUME NEW q \in Requests, ClientInviting(q)' PROVE locals'[q].count < Len(links')
    <3>1. q # r /\ ClientInviting(q) /\ locals'[q] = locals[q]
      BY <1>4, <2>2 DEF ClientInviting
    <3>2. locals[q].count \in Nat /\ locals[q].count <= Len(links)
      BY <3>1, ClientBusy, ClientJobFields DEF ClientInviting, ClientShape, ClientSlotInv,
         ClientCountBehind
    <3> QED
      BY <1>5, <1>6, <3>1, <3>2 DEF n
  <2>3. \A q \in Requests : ClientInviting(q)' => locals'[q].count \in Nat
    BY ClientBusy, ClientJobFields DEF ClientInviting, ClientShape, A!TypeOK
  <2>4. ClientCountBehind'
    BY <1>5, <1>6, <2>2, <2>3 DEF ClientCountBehind, n
  <2>5. Cardinality(A!Regular) < k.limit
    BY <1>2, <1>4, <2>1 DEF ClientSlotInv, ClientSlotKept
  <2>6. ASSUME NEW l \in A!Regular' PROVE Cardinality(ClientUpTo(l)') <= links'[l].limit
    <3>1. CASE l = n
      <4>1. IsFiniteSet(A!Regular) /\ Cardinality(A!Regular) \in Nat
        BY ClientRegularFinite
      <4>2. /\ IsFiniteSet(A!Regular \cup {n})
            /\ Cardinality(A!Regular \cup {n}) <= Cardinality(A!Regular) + 1
        BY <4>1, ClientOneMore
      <4>3. ClientUpTo(l)' \subseteq A!Regular \cup {n}
        BY <2>1 DEF ClientUpTo
      <4>4. /\ Cardinality(ClientUpTo(l)') <= Cardinality(A!Regular \cup {n})
            /\ Cardinality(ClientUpTo(l)') \in Nat /\ Cardinality(A!Regular \cup {n}) \in Nat
        BY <4>2, <4>3, FS_Subset, FS_CardinalityType
      <4> QED
        BY <1>2, <1>5, <2>5, <3>1, <4>1, <4>2, <4>4
    <3>2. CASE l # n
      <4>1. l \in A!Regular
        BY <2>1, <3>2
      <4>2. l \in A!Known /\ l \in Nat /\ l < n
        BY <1>6, <4>1, ClientLinksAre DEF A!Regular, A!Live, ClientShape, n
      <4>3. links'[l] = links[l] /\ links[l].limit \in Nat
        BY <1>5, <4>2, ClientLinksAre, ClientLinkFields DEF ClientShape
      <4>4. ClientUpTo(l)' \subseteq ClientUpTo(l)
        BY <1>6, <2>1, <4>2 DEF ClientUpTo, n
      <4>5. Cardinality(ClientUpTo(l)) <= links[l].limit
        BY <4>1 DEF ClientSlotInv, ClientSlotKept
      <4> QED
        BY <4>3, <4>4, <4>5, ClientUpToFewer
    <3> QED
      BY <3>1, <3>2
  <2>7. \A q \in Requests : ClientInviting(q)' => locals'[q].count # Len(links')
    BY <1>5, <1>6, <2>2, <2>3 DEF n
  <2>8. ClientSlotKept'
    BY <2>6, <2>7 DEF ClientSlotKept
  <2> QED
    BY <2>4, <2>8 DEF ClientSlotInv
<1> QED
  BY <1>8, <1>9

\* An acceptance or a removal leaves the regular links, or fewer.
LEMMA ClientAnswerKeepsSlots ==
  ASSUME ClientInv, ClientShape', ClientSlotInv, NEW r \in Requests, A!AcceptInvite(r) \/ A!RemoveClient(r)
  PROVE  ClientSlotInv'
<1> USE DEF ClientInv
<1>1. CASE A!AcceptInvite(r)
  <2> DEFINE l == locals[r].link
             k == A!Accepted(links[l], locals[r].client)
  <2>1. l \in A!Known /\ locals[r].client \in Clients /\ links[l] \in A!Link
    BY <1>1, ClientAcceptWrites, ClientLinksAre DEF ClientShape
  <2>2. k \in A!Link /\ k.limit = links[l].limit
    BY <2>1, ClientAcceptedIs
  <2>3. links' = [links EXCEPT ![l] = k] /\ A!Finish(r) /\ late' = late
          /\ crossed' = IF A!Stale(r) THEN crossed \cup {l} ELSE crossed
    BY <1>1, ClientAcceptWrites
  <2>4. ~ A!Stale(r) => links[l].status # "REMOVED"
    BY <1>1 DEF A!AcceptInvite, ClientReadOrStale
  <2> HIDE DEF k, l
  <2>5. /\ Len(links') = Len(links) /\ A!Known' = A!Known /\ links'[l] = k
        /\ \A m \in A!Known : m # l => links'[m] = links[m]
    BY <2>1, <2>2, <2>3, ClientReplace DEF ClientShape
  <2>6. A!Regular' \subseteq A!Regular
    BY <2>1, <2>3, <2>4, <2>5 DEF A!Regular, A!Live
  <2>7. ~ ClientInviting(r)' /\ \A q \in Requests \ {r} : pc'[q] = pc[q] /\ locals'[q] = locals[q]
    BY <2>3, ClientFinishShape DEF ClientInviting, ClientShape
  <2>8. Len(links) <= Len(links')
    BY <2>5, ClientLinksAre DEF ClientShape
  <2>9. \A m \in A!Regular' : links'[m].limit = links[m].limit
    BY <2>2, <2>5, <2>6 DEF A!Regular, A!Live
  <2> QED
    BY <2>6, <2>7, <2>8, <2>9, ClientSlotsFrom
<1>2. CASE A!RemoveClient(r)
  <2> DEFINE l == locals[r].link
             k == A!Removed(links[l])
  <2>1. l \in A!Known /\ links[l] \in A!Link
    BY <1>2, ClientRemoveWrites, ClientLinksAre DEF ClientShape
  <2>2. k \in A!Link /\ k.status = "REMOVED" /\ k.limit = links[l].limit
    BY <2>1, ClientRemovedIs
  <2>3. links' = [links EXCEPT ![l] = k] /\ A!Finish(r) /\ late' = late /\ crossed' = crossed
    BY <1>2, ClientRemoveWrites
  <2> HIDE DEF k, l
  <2>5. /\ Len(links') = Len(links) /\ A!Known' = A!Known /\ links'[l] = k
        /\ \A m \in A!Known : m # l => links'[m] = links[m]
    BY <2>1, <2>2, <2>3, ClientReplace DEF ClientShape
  <2>6. A!Regular' \subseteq A!Regular
    BY <2>1, <2>2, <2>3, <2>5 DEF A!Regular, A!Live
  <2>7. ~ ClientInviting(r)' /\ \A q \in Requests \ {r} : pc'[q] = pc[q] /\ locals'[q] = locals[q]
    BY <2>3, ClientFinishShape DEF ClientInviting, ClientShape
  <2>8. Len(links) <= Len(links')
    BY <2>5, ClientLinksAre DEF ClientShape
  <2>9. \A m \in A!Regular' : links'[m].limit = links[m].limit
    BY <2>2, <2>5, <2>6 DEF A!Regular, A!Live
  <2> QED
    BY <2>6, <2>7, <2>8, <2>9, ClientSlotsFrom
<1> QED
  BY <1>1, <1>2

\* The steps of a request that leave the links.
LEMMA ClientQuietKeepsSlots ==
  ASSUME ClientShape, ClientShape', ClientSlotInv, NEW r \in Requests,
         \/ \E email \in Clients : A!BeginInvite(r, email)
         \/ A!ReadLimit(r) \/ A!FindClient(r) \/ A!FindLink(r) \/ A!SendInvite(r)
         \/ \E l \in A!Known, c \in Clients : A!BeginAccept(r, l, c)
         \/ \E l \in A!Known : A!BeginRemove(r, l)
         \/ A!Judge(r) \/ A!Coupon(r)
  PROVE  ClientSlotInv'
<1>1. UNCHANGED links /\ crossed \ {0} \subseteq crossed' /\ late \subseteq late'
  BY DEF A!BeginInvite, A!ReadLimit, A!FindClient, A!FindLink, A!SendInvite, A!BeginAccept, A!BeginRemove,
     A!Judge, A!LookAtDocs, A!BeginApprove, A!Approve, A!BeginReject, A!Reject,
     A!Coupon, A!BeginCoupon, A!FindCoupon, A!DrawCode, A!CreateCoupon, A!book
<1>2. \A q \in Requests \ {r} : pc'[q] = pc[q] /\ locals'[q] = locals[q]
  BY DEF A!BeginInvite, A!ReadLimit, A!FindClient, A!FindLink, A!SendInvite, A!BeginAccept, A!BeginRemove,
     A!Judge, A!LookAtDocs, A!BeginApprove, A!Approve, A!BeginReject, A!Reject,
     A!Coupon, A!BeginCoupon, A!FindCoupon, A!DrawCode, A!CreateCoupon, A!Finish, A!Goto,
     ClientShape, A!TypeOK
<1>3. ClientInviting(r)' => /\ ClientInviting(r) /\ locals'[r].count = locals[r].count
                            /\ locals'[r].limit = locals[r].limit
  BY DEF A!BeginInvite, A!ReadLimit, A!FindClient, A!FindLink, A!SendInvite, A!BeginAccept, A!BeginRemove,
     A!Judge, A!LookAtDocs, A!BeginApprove, A!Approve, A!BeginReject, A!Reject,
     A!Coupon, A!BeginCoupon, A!FindCoupon, A!DrawCode, A!CreateCoupon, A!Finish, A!Goto,
     ClientShape, A!TypeOK, ClientInviting
<1>4. Len(links) <= Len(links')
  BY <1>1, ClientLinksAre DEF ClientShape
<1>5. A!Live' = A!Live /\ 0 \notin A!Live
  BY <1>1, ClientRegularFinite DEF A!Live, A!Known
<1>6. A!Regular' \subseteq A!Regular
  BY <1>1, <1>5 DEF A!Regular
<1> QED
  BY <1>1, <1>2, <1>3, <1>4, <1>6, ClientSlotsFrom

\* The events that are no request's.
LEMMA ClientEventKeepsSlots ==
  ASSUME ClientShape, ClientShape', ClientSlotInv,
         \/ A!Upload \/ A!ChangePlan \/ (\E l \in A!Known : A!Expire(l))
         \/ (\E c \in Clients : A!Register(c)) \/ UNCHANGED A!vars
  PROVE  ClientSlotInv'
<1>1. UNCHANGED <<pc, locals, late, crossed>>
  BY DEF A!Upload, A!ChangePlan, A!Expire, A!Register, A!vars
<1>2. /\ A!Live' = A!Live /\ Len(links') = Len(links)
      /\ \A m \in A!Known : links'[m].limit = links[m].limit
  <2>1. CASE \/ A!Upload \/ A!ChangePlan \/ (\E c \in Clients : A!Register(c)) \/ UNCHANGED A!vars
    BY <2>1 DEF A!Upload, A!ChangePlan, A!Register, A!vars, A!book, A!Live, A!Known
  <2>2. ASSUME NEW l \in A!Known, A!Expire(l)
        PROVE  /\ A!Live' = A!Live /\ Len(links') = Len(links)
               /\ \A m \in A!Known : links'[m].limit = links[m].limit
    <3> DEFINE k == [links[l] EXCEPT !.expired = TRUE]
    <3>1. links[l] \in A!Link
      BY ClientLinksAre DEF ClientShape
    <3>2. k \in A!Link /\ k.status = links[l].status /\ k.limit = links[l].limit
      BY <3>1 DEF A!Link
    <3>3. links' = [links EXCEPT ![l] = k]
      BY <2>2 DEF A!Expire
    <3> HIDE DEF k
    <3>4. /\ Len(links') = Len(links) /\ A!Known' = A!Known /\ links'[l] = k
          /\ \A m \in A!Known : m # l => links'[m] = links[m]
      BY <3>2, <3>3, ClientReplace DEF ClientShape
    <3> QED
      BY <3>2, <3>4 DEF A!Live
  <2> QED
    BY <2>1, <2>2
<1>3. A!Regular' = A!Regular /\ A!Regular \subseteq A!Known
  BY <1>1, <1>2 DEF A!Regular, A!Live
<1>4. ClientCountBehind'
  BY <1>1, <1>2 DEF ClientSlotInv, ClientCountBehind, ClientInviting
<1>5. \A l \in A!Regular' : Cardinality(ClientUpTo(l)') <= links'[l].limit
  BY <1>2, <1>3 DEF ClientSlotInv, ClientSlotKept, ClientUpTo
<1>6. \A q \in Requests : ClientInviting(q)' /\ locals'[q].count = Len(links')
         => Cardinality(A!Regular') < locals'[q].limit
  BY <1>1, <1>2, <1>3 DEF ClientSlotInv, ClientSlotKept, ClientInviting
<1> QED
  BY <1>4, <1>5, <1>6 DEF ClientSlotInv, ClientSlotKept

LEMMA ClientSlotInit == ASSUME A!Init PROVE ClientSlotInv
<1>1. A!Regular = {} /\ \A r \in Requests : ~ ClientInviting(r)
  BY DEF A!Init, A!Regular, A!Live, A!Known, ClientInviting
<1> QED
  BY <1>1 DEF ClientSlotInv, ClientCountBehind, ClientSlotKept

LEMMA ClientSlotStep == ASSUME ClientInv, ClientSlotInv, A!Next \/ UNCHANGED A!vars PROVE ClientSlotInv'
<1>1. ClientShape'
  BY ClientShapeStep DEF ClientInv
<1>2. CASE UNCHANGED A!vars \/ A!Upload \/ A!ChangePlan \/ (\E l \in A!Known : A!Expire(l)) \/ (\E c \in Clients : A!Register(c))
  BY <1>1, <1>2, ClientEventKeepsSlots DEF ClientInv
<1>3. ASSUME NEW r \in Requests, A!Invite(r) \/ A!Answer(r) \/ A!Judge(r) \/ A!Coupon(r) PROVE ClientSlotInv'
  BY <1>1, <1>3, ClientCountKeeps, ClientCreateKeepsSlots, ClientAnswerKeepsSlots,
     ClientQuietKeepsSlots
     DEF ClientInv, A!Invite, A!Answer
<1> QED
  BY <1>2, <1>3 DEF A!Next

LEMMA ClientSlotsMeasured == ASSUME ClientSlotInv PROVE A!LinksWithinSlots
BY ClientCardinality DEF ClientSlotInv, ClientSlotKept, ClientUpTo, A!LinksWithinSlots

----------------------------------------------------------------------------
\* A second coupon comes from an overlapping creation.
LEMMA ClientCouponInit == A!Init => A!OneCoupon
BY DEF A!Init, A!OneCoupon

LEMMA ClientCouponStep == ASSUME A!TypeOK, A!OneCoupon, A!Next \/ UNCHANGED A!vars PROVE A!OneCoupon'
<1>1. ASSUME NEW r \in Requests, A!CreateCoupon(r) PROVE A!OneCoupon'
  BY <1>1 DEF A!CreateCoupon, A!OneCoupon, A!TypeOK
<1>2. ASSUME NEW r \in Requests,
             A!Invite(r) \/ A!BeginCoupon(r) \/ A!FindCoupon(r) \/ A!DrawCode(r)
      PROVE  A!OneCoupon'
  BY <1>2 DEF A!Invite, A!BeginInvite, A!ReadLimit, A!CountLinks, A!FindClient, A!FindLink, A!CreateLink,
     A!SendInvite,
     A!BeginCoupon, A!FindCoupon, A!DrawCode, A!OneCoupon
<1>3. ASSUME NEW r \in Requests, A!Answer(r) \/ A!Judge(r) PROVE A!OneCoupon'
  BY <1>3 DEF A!Answer, A!BeginAccept, A!BeginRemove, A!AcceptInvite, A!RemoveClient, A!Judge,
     A!LookAtDocs,
     A!BeginApprove, A!Approve, A!BeginReject, A!Reject, A!OneCoupon
<1>4. CASE \/ A!Upload \/ A!ChangePlan \/ (\E l \in A!Known : A!Expire(l)) \/ (\E c \in Clients : A!Register(c))
           \/ UNCHANGED A!vars
  BY <1>4 DEF A!Upload, A!ChangePlan, A!Expire, A!Register, A!vars, A!OneCoupon
<1> QED
  BY <1>1, <1>2, <1>3, <1>4 DEF A!Next, A!Coupon

----------------------------------------------------------------------------
\* SupportDesk: a request about to write a status carries one that suits the
\* message it follows, and what the staff have read is there.

LEMMA DeskBounds ==
  MaxMessages \in Nat \ {0} /\ MaxDeskCalls \in Nat /\ MaxDeskAborts \in Nat /\ Nil \notin D!Job
BY DeskAssumption, NilAssumption

\* A status about to be written follows a message: OPEN one of the user, any
\* other one of the staff, or the last of which the staff had read the first.
DeskSuits ==
  \A r \in Requests :
    /\ pc[r] = "message" => locals[r].status = D!StatusAfter(locals[r].staff) /\ locals[r].seen = 0
    /\ pc[r] = "status" =>
         /\ locals[r].after \in 1..Len(messages)
         /\ locals[r].seen <= locals[r].after
         /\ \/ locals[r].status = "OPEN" \/ messages[locals[r].after]
            \/ locals[r].seen > 0

DeskInv == D!TypeOK /\ D!UnansweredIsOpen /\ DeskSuits /\ known <= Len(messages)

LEMMA DeskGoto ==
  ASSUME D!TypeOK, NEW r \in Requests, NEW step \in D!Steps \ {"idle"}, NEW w \in D!Job,
         D!Goto(r, step, w)
  PROVE  /\ pc' \in [Requests -> D!Steps] /\ locals' \in [Requests -> D!Job \cup {Nil}]
         /\ \A q \in Requests : locals'[q] = Nil <=> pc'[q] = "idle"
         /\ pc'[r] = step /\ locals'[r] = w
         /\ \A q \in Requests \ {r} : pc'[q] = pc[q] /\ locals'[q] = locals[q]
BY DeskBounds DEF D!TypeOK, D!Goto

LEMMA DeskEnd ==
  ASSUME D!TypeOK, NEW r \in Requests, D!Goto(r, "idle", Nil)
  PROVE  /\ pc' \in [Requests -> D!Steps] /\ locals' \in [Requests -> D!Job \cup {Nil}]
         /\ \A q \in Requests : locals'[q] = Nil <=> pc'[q] = "idle"
         /\ pc'[r] = "idle"
         /\ \A q \in Requests \ {r} : pc'[q] = pc[q] /\ locals'[q] = locals[q]
BY DeskBounds DEF D!TypeOK, D!Goto, D!Steps

LEMMA DeskInit == ASSUME D!Init PROVE DeskInv
<1>1. messages \in Seq(BOOLEAN) /\ Len(messages) = 1 /\ 1 \in 1..MaxMessages
  BY DeskBounds DEF D!Init
<1>2. pc \in [Requests -> D!Steps] /\ locals \in [Requests -> D!Job \cup {Nil}]
  BY DEF D!Init, D!Steps
<1>3. \A r \in Requests : pc[r] = "idle" /\ locals[r] = Nil
  BY DEF D!Init
<1>n. status \in D!Status /\ calls \in 0..MaxDeskCalls /\ aborts \in 0..MaxDeskAborts
        /\ known \in 0..MaxMessages
  BY DeskBounds DEF D!Init, D!Status
<1>b. overtaken \in BOOLEAN /\ untold \in BOOLEAN /\ unseen \in BOOLEAN
  BY DEF D!Init
<1>e. Len(messages) \in 1..MaxMessages
  BY <1>1
<1>4. D!TypeOK
  BY <1>1, <1>2, <1>3, <1>n, <1>b, <1>e DEF D!TypeOK
<1>5. DeskSuits /\ known <= Len(messages)
  BY <1>1, <1>3 DEF D!Init, DeskSuits
<1> QED
  BY <1>4, <1>5 DEF D!Init, DeskInv, D!UnansweredIsOpen, D!Unanswered

LEMMA DeskBeginsMessage ==
  ASSUME DeskInv, NEW r \in Requests, NEW staff_ \in BOOLEAN, D!BeginMessage(r, staff_)
  PROVE  DeskInv'
<1> DEFINE w == [staff |-> staff_, status |-> D!StatusAfter(staff_), after |-> 0, seen |-> 0]
<1>1. w \in D!Job /\ "message" \in D!Steps \ {"idle"}
  BY DEF D!Job, D!Steps, D!StatusAfter, D!Status
<1>2. w.staff = staff_ /\ w.status = D!StatusAfter(staff_) /\ w.seen = 0
  OBVIOUS
<1>3. pc[r] = "idle" /\ D!Goto(r, "message", w)
        /\ UNCHANGED <<status, messages, calls, aborts, overtaken, untold, unseen, known>>
  BY DEF D!BeginMessage
<1> HIDE DEF w
<1>4. /\ pc' \in [Requests -> D!Steps] /\ locals' \in [Requests -> D!Job \cup {Nil}]
      /\ \A q \in Requests : locals'[q] = Nil <=> pc'[q] = "idle"
      /\ pc'[r] = "message" /\ locals'[r] = w
      /\ \A q \in Requests \ {r} : pc'[q] = pc[q] /\ locals'[q] = locals[q]
  BY <1>1, <1>3, DeskGoto DEF DeskInv
<1>5. D!TypeOK'
  BY <1>3, <1>4 DEF DeskInv, D!TypeOK
<1>6. DeskSuits'
  BY <1>2, <1>3, <1>4 DEF DeskInv, DeskSuits, D!StatusAfter
<1>7. D!UnansweredIsOpen'
  BY <1>3, <1>4 DEF DeskInv, D!UnansweredIsOpen, D!Unanswered
<1> QED
  BY <1>3, <1>5, <1>6, <1>7 DEF DeskInv

LEMMA DeskCreatesMessage ==
  ASSUME DeskInv, NEW r \in Requests, D!CreateMessage(r)
  PROVE  DeskInv'
<1> DEFINE w == [locals[r] EXCEPT !.after = Len(messages) + 1]
<1>0. pc[r] = "message" /\ Len(messages) < MaxMessages /\ messages' = Append(messages, locals[r].staff)
        /\ D!Goto(r, "status", w)
        /\ UNCHANGED <<status, calls, aborts, overtaken, untold, unseen, known>>
  BY DEF D!CreateMessage
<1>1. locals[r] \in D!Job
  BY <1>0 DEF DeskInv, D!TypeOK
<1>2. messages \in Seq(BOOLEAN) /\ Len(messages) \in 1..MaxMessages
  BY DEF DeskInv, D!TypeOK
<1>3. w \in D!Job /\ w.staff = locals[r].staff /\ w.status = locals[r].status
        /\ w.after = Len(messages) + 1 /\ w.seen = locals[r].seen /\ "status" \in D!Steps \ {"idle"}
  BY <1>1, <1>2 DEF D!Job, D!Steps
<1> HIDE DEF w
<1>4. /\ pc' \in [Requests -> D!Steps] /\ locals' \in [Requests -> D!Job \cup {Nil}]
      /\ \A q \in Requests : locals'[q] = Nil <=> pc'[q] = "idle"
      /\ pc'[r] = "status" /\ locals'[r] = w
      /\ \A q \in Requests \ {r} : pc'[q] = pc[q] /\ locals'[q] = locals[q]
  BY <1>0, <1>3, DeskGoto DEF DeskInv
<1>5. /\ messages' \in Seq(BOOLEAN) /\ Len(messages') = Len(messages) + 1
      /\ messages'[Len(messages) + 1] = locals[r].staff
      /\ \A i \in 1..Len(messages) : messages'[i] = messages[i]
  BY <1>0, <1>1, <1>2 DEF D!Job
<1>6. Len(messages') \in 1..MaxMessages
  BY <1>0, <1>2, <1>5, DeskBounds
<1>7. D!TypeOK'
  BY <1>0, <1>4, <1>5, <1>6 DEF DeskInv, D!TypeOK
<1>8. locals[r].status = D!StatusAfter(locals[r].staff) /\ locals[r].staff \in BOOLEAN
        /\ locals[r].seen = 0
  BY <1>0, <1>1 DEF DeskInv, DeskSuits, D!Job
<1>9. known \in Nat /\ known <= Len(messages)
  BY DeskBounds DEF DeskInv, D!TypeOK
<1>10. DeskSuits'
  <2>1. ASSUME NEW q \in Requests \ {r}
        PROVE  /\ pc'[q] = "message" =>
                    locals'[q].status = D!StatusAfter(locals'[q].staff) /\ locals'[q].seen = 0
               /\ pc'[q] = "status" =>
                    /\ locals'[q].after \in 1..Len(messages')
                    /\ locals'[q].seen <= locals'[q].after
                    /\ \/ locals'[q].status = "OPEN" \/ messages'[locals'[q].after]
                       \/ locals'[q].seen > 0
    BY <1>0, <1>2, <1>4, <1>5 DEF DeskInv, DeskSuits
  <2>2. locals'[r].after \in 1..Len(messages') /\ locals'[r].seen <= locals'[r].after
    BY <1>2, <1>3, <1>4, <1>5, <1>8
  <2>3. locals'[r].status = "OPEN" \/ messages'[locals'[r].after]
    BY <1>3, <1>4, <1>5, <1>8 DEF D!StatusAfter
  <2> QED
    BY <1>4, <2>1, <2>2, <2>3 DEF DeskSuits, D!StatusAfter
<1>11. D!UnansweredIsOpen'
  BY <1>3, <1>4, <1>5 DEF D!UnansweredIsOpen, D!Unanswered
<1> QED
  BY <1>0, <1>2, <1>5, <1>7, <1>9, <1>10, <1>11 DEF DeskInv

LEMMA DeskBeginsUpdate ==
  ASSUME DeskInv, NEW r \in Requests, NEW new \in D!Status, NEW view \in 1..Len(messages),
         D!BeginUpdate(r, new, view)
  PROVE  DeskInv'
<1> DEFINE w == [staff |-> TRUE, status |-> new, after |-> Len(messages), seen |-> view]
<1>0. pc[r] = "idle" /\ calls < MaxDeskCalls /\ calls' = calls + 1 /\ D!Goto(r, "status", w)
        /\ UNCHANGED <<status, messages, aborts, overtaken, untold, unseen, known>>
  BY DEF D!BeginUpdate
<1>1. messages \in Seq(BOOLEAN) /\ Len(messages) \in 1..MaxMessages /\ Len(messages) \in Nat
        /\ known \in Nat /\ known <= Len(messages) /\ Len(messages) \in 0..MaxMessages
  BY DeskBounds DEF DeskInv, D!TypeOK
<1>2. w \in D!Job /\ w.after = Len(messages) /\ w.seen = view /\ "status" \in D!Steps \ {"idle"}
  BY <1>1 DEF D!Job, D!Steps
<1> HIDE DEF w
<1>3. /\ pc' \in [Requests -> D!Steps] /\ locals' \in [Requests -> D!Job \cup {Nil}]
      /\ \A q \in Requests : locals'[q] = Nil <=> pc'[q] = "idle"
      /\ pc'[r] = "status" /\ locals'[r] = w
      /\ \A q \in Requests \ {r} : pc'[q] = pc[q] /\ locals'[q] = locals[q]
  BY <1>0, <1>2, DeskGoto DEF DeskInv
<1>4. calls' \in 0..MaxDeskCalls
  BY <1>0, DeskBounds DEF DeskInv, D!TypeOK
<1>5. D!TypeOK'
  BY <1>0, <1>1, <1>3, <1>4 DEF DeskInv, D!TypeOK
<1>6. DeskSuits'
  <2>1. ASSUME NEW q \in Requests \ {r}
        PROVE  /\ pc'[q] = "message" =>
                    locals'[q].status = D!StatusAfter(locals'[q].staff) /\ locals'[q].seen = 0
               /\ pc'[q] = "status" =>
                    /\ locals'[q].after \in 1..Len(messages')
                    /\ locals'[q].seen <= locals'[q].after
                    /\ \/ locals'[q].status = "OPEN" \/ messages'[locals'[q].after]
                       \/ locals'[q].seen > 0
    BY <1>0, <1>1, <1>3 DEF DeskInv, DeskSuits
  <2>2. pc'[r] = "status" /\ locals'[r].after \in 1..Len(messages')
          /\ locals'[r].seen <= locals'[r].after /\ locals'[r].seen > 0
    BY <1>0, <1>1, <1>2, <1>3
  <2> QED
    BY <2>1, <2>2 DEF DeskSuits, D!StatusAfter
<1>7. D!UnansweredIsOpen'
  <2>1. \A q \in Requests : pc[q] = "status" => q # r
    BY <1>0
  <2> QED
    BY <1>0, <1>3, <2>1 DEF DeskInv, D!UnansweredIsOpen, D!Unanswered
<1> QED
  BY <1>0, <1>1, <1>5, <1>6, <1>7 DEF DeskInv

LEMMA DeskWrites ==
  ASSUME DeskInv, NEW r \in Requests, D!WriteStatus(r)
  PROVE  DeskInv'
<1>0. pc[r] = "status" /\ status' = locals[r].status /\ overtaken' = (locals[r].after < Len(messages))
        /\ untold' = FALSE /\ known' = locals[r].seen /\ D!Goto(r, "idle", Nil)
        /\ unseen' = (0 < locals[r].seen /\ locals[r].seen < locals[r].after)
        /\ UNCHANGED <<messages, calls, aborts>>
  BY DEF D!WriteStatus
<1>1. locals[r] \in D!Job
  BY <1>0 DEF DeskInv, D!TypeOK
<1>2. messages \in Seq(BOOLEAN) /\ Len(messages) \in Nat /\ known \in Nat /\ known <= Len(messages)
  BY DeskBounds DEF DeskInv, D!TypeOK
<1>3. /\ pc' \in [Requests -> D!Steps] /\ locals' \in [Requests -> D!Job \cup {Nil}]
      /\ \A q \in Requests : locals'[q] = Nil <=> pc'[q] = "idle"
      /\ pc'[r] = "idle"
      /\ \A q \in Requests \ {r} : pc'[q] = pc[q] /\ locals'[q] = locals[q]
  BY <1>0, DeskEnd DEF DeskInv
<1>4. status' \in D!Status
  BY <1>0, <1>1 DEF D!Job
<1>7. /\ locals[r].after \in 1..Len(messages) /\ locals[r].seen <= locals[r].after
      /\ locals[r].status = "OPEN" \/ messages[locals[r].after] \/ locals[r].seen > 0
  BY <1>0 DEF DeskInv, DeskSuits
<1>b. overtaken' \in BOOLEAN /\ untold' \in BOOLEAN /\ unseen' \in BOOLEAN
  <2>0. unseen' \in BOOLEAN
    BY <1>0
  <2>1. overtaken' = (locals[r].after < Len(messages)) /\ untold' = FALSE
    BY <1>0
  <2>2. locals[r].after \in Int /\ Len(messages) \in Int
    BY <1>1, <1>2 DEF D!Job
  <2>3. (locals[r].after < Len(messages)) \in BOOLEAN
    BY <2>2
  <2> QED
    BY <2>0, <2>1, <2>3
<1>k. known' \in 0..MaxMessages /\ known' <= Len(messages)
  BY <1>0, <1>1, <1>2, <1>7, DeskBounds DEF D!Job, DeskInv, D!TypeOK
<1>5. D!TypeOK'
  BY <1>0, <1>3, <1>4, <1>b, <1>k DEF DeskInv, D!TypeOK
<1>6. DeskSuits'
  BY <1>0, <1>3 DEF DeskInv, DeskSuits, D!StatusAfter
<1>8. D!UnansweredIsOpen'
  <2>1. CASE locals[r].after < Len(messages)
    BY <1>0, <2>1 DEF D!UnansweredIsOpen, D!Unanswered
  <2>2. CASE locals[r].after = Len(messages)
    BY <1>0, <1>1, <1>2, <1>7, <2>2 DEF D!Job, D!UnansweredIsOpen, D!Unanswered
  <2> QED
    BY <1>2, <1>7, <2>1, <2>2
<1> QED
  BY <1>0, <1>2, <1>5, <1>6, <1>8, <1>k DEF DeskInv

LEMMA DeskAborts ==
  ASSUME DeskInv, NEW r \in Requests, D!Abort(r)
  PROVE  DeskInv'
<1>0. aborts < MaxDeskAborts /\ aborts' = aborts + 1 /\ untold' = (untold \/ pc[r] = "status")
        /\ D!Goto(r, "idle", Nil) /\ UNCHANGED <<status, messages, calls, overtaken, unseen, known>>
  BY DEF D!Abort
<1>1. /\ pc' \in [Requests -> D!Steps] /\ locals' \in [Requests -> D!Job \cup {Nil}]
      /\ \A q \in Requests : locals'[q] = Nil <=> pc'[q] = "idle"
      /\ pc'[r] = "idle"
      /\ \A q \in Requests \ {r} : pc'[q] = pc[q] /\ locals'[q] = locals[q]
  BY <1>0, DeskEnd DEF DeskInv
<1>2. aborts' \in 0..MaxDeskAborts
  BY <1>0, DeskBounds DEF DeskInv, D!TypeOK
<1>3. untold' \in BOOLEAN
  BY <1>0 DEF DeskInv, D!TypeOK
<1>4. D!TypeOK'
  BY <1>0, <1>1, <1>2, <1>3 DEF DeskInv, D!TypeOK
<1>5. DeskSuits'
  BY <1>0, <1>1 DEF DeskInv, DeskSuits, D!StatusAfter
<1>6. D!UnansweredIsOpen'
  BY <1>0, <1>1 DEF DeskInv, D!UnansweredIsOpen, D!Unanswered
<1> QED
  BY <1>0, <1>4, <1>5, <1>6 DEF DeskInv

LEMMA DeskStep == ASSUME DeskInv, D!Next \/ UNCHANGED D!vars PROVE DeskInv'
<1>1. CASE D!Next
  BY <1>1, DeskBeginsMessage, DeskCreatesMessage, DeskBeginsUpdate, DeskWrites, DeskAborts
     DEF D!Next, D!Handle
<1>2. CASE UNCHANGED D!vars
  BY <1>2 DEF D!vars, DeskInv, D!TypeOK, D!UnansweredIsOpen, D!Unanswered, DeskSuits, D!StatusAfter
<1> QED
  BY <1>1, <1>2

----------------------------------------------------------------------------
\* SharedReports: of two tokens that meet, both were drawn twice over.

LEMMA ShareBounds ==
  /\ EXPIRES \in Nat /\ MaxTime \in Nat /\ MaxShares \in Nat
  /\ Nil \notin Nat /\ Nil \notin L!Job /\ Nil \notin L!Report
BY SharingAssumption, NilAssumption

\* Until the report is there, one request generates it and nobody shares.
ShareBegins ==
  /\ report = Nil => given = {} /\ \A r \in Requests : pc[r] \in {"idle", "file"}
  /\ \A r \in Requests : pc[r] = "file" =>
       report = Nil /\ \A q \in Requests \ {r} : pc[q] = "idle"

\* A token about to be written is the one on file, or both were drawn twice;
\* while there is none on file, so were any two about to be written.
ShareTokens ==
  report # Nil =>
    /\ report.token # Nil => \A r \in Requests : pc[r] = "update" =>
         locals[r].token = report.token \/ {locals[r].token, report.token} \subseteq twice
    /\ report.token = Nil => \A r, q \in Requests :
         r # q /\ pc[r] = "update" /\ pc[q] = "update" => locals[r].token \in twice

\* The report opens to a token until an end, unless it was drawn twice.
ShareHolds(token, until) ==
  token \in twice \/ (report # Nil /\ report.token = token /\ until <= report.expires)

ShareKept ==
  /\ \A link \in given : ShareHolds(link.token, link.until)
  /\ \A r \in Requests : pc[r] = "mail" => ShareHolds(locals[r].token, locals[r].until)

ShareInTime == report # Nil => report.expires <= clock + EXPIRES

ShareInv == L!TypeOK /\ ShareBegins /\ ShareTokens /\ ShareKept /\ ShareInTime

LEMMA ShareGoto ==
  ASSUME L!TypeOK, NEW r \in Requests, NEW step \in L!Steps \ {"idle"}, NEW w \in L!Job,
         L!Goto(r, step, w)
  PROVE  /\ pc' \in [Requests -> L!Steps] /\ locals' \in [Requests -> L!Job \cup {Nil}]
         /\ \A q \in Requests : locals'[q] = Nil <=> pc'[q] = "idle"
         /\ pc'[r] = step /\ locals'[r] = w
         /\ \A q \in Requests \ {r} : pc'[q] = pc[q] /\ locals'[q] = locals[q]
BY ShareBounds DEF L!TypeOK, L!Goto

LEMMA ShareEnd ==
  ASSUME L!TypeOK, NEW r \in Requests, L!Goto(r, "idle", Nil)
  PROVE  /\ pc' \in [Requests -> L!Steps] /\ locals' \in [Requests -> L!Job \cup {Nil}]
         /\ \A q \in Requests : locals'[q] = Nil <=> pc'[q] = "idle"
         /\ pc'[r] = "idle"
         /\ \A q \in Requests \ {r} : pc'[q] = pc[q] /\ locals'[q] = locals[q]
BY ShareBounds DEF L!TypeOK, L!Goto, L!Steps

LEMMA ShareInit == ASSUME L!Init PROVE ShareInv
<1>1. pc \in [Requests -> L!Steps] /\ locals \in [Requests -> L!Job \cup {Nil}]
  BY DEF L!Init, L!Steps
<1>2. \A r \in Requests : pc[r] = "idle" /\ locals[r] = Nil
  BY DEF L!Init
<1>3. clock \in 0..MaxTime /\ shares \in 0..MaxShares /\ drawn \in Nat /\ report = Nil
        /\ given = {} /\ twice = {}
  BY ShareBounds DEF L!Init
<1>4. L!TypeOK
  BY <1>1, <1>2, <1>3 DEF L!TypeOK
<1> QED
  BY <1>2, <1>3, <1>4 DEF ShareInv, ShareBegins, ShareTokens, ShareKept, ShareInTime

LEMMA ShareGenerates ==
  ASSUME ShareInv, NEW r \in Requests, L!BeginGenerate(r)
  PROVE  ShareInv'
<1>0. pc[r] = "idle" /\ report = Nil /\ (\A q \in Requests : pc[q] = "idle")
        /\ L!Goto(r, "file", L!NoJob) /\ UNCHANGED <<clock, report, drawn, shares, given, twice>>
  BY DEF L!BeginGenerate
<1>1. L!NoJob \in L!Job /\ "file" \in L!Steps \ {"idle"}
  BY DEF L!NoJob, L!Job, L!Steps
<1>2. /\ pc' \in [Requests -> L!Steps] /\ locals' \in [Requests -> L!Job \cup {Nil}]
      /\ \A q \in Requests : locals'[q] = Nil <=> pc'[q] = "idle"
      /\ pc'[r] = "file"
      /\ \A q \in Requests \ {r} : pc'[q] = pc[q] /\ locals'[q] = locals[q]
  BY <1>0, <1>1, ShareGoto DEF ShareInv
<1>3. L!TypeOK'
  BY <1>0, <1>2 DEF ShareInv, L!TypeOK
<1>4. ShareBegins'
  BY <1>0, <1>2 DEF ShareInv, ShareBegins
<1>5. ShareTokens' /\ ShareKept' /\ ShareInTime'
  BY <1>0, <1>2 DEF ShareInv, ShareBegins, ShareTokens, ShareKept, ShareInTime
<1> QED
  BY <1>3, <1>4, <1>5 DEF ShareInv

LEMMA ShareCreates ==
  ASSUME ShareInv, NEW r \in Requests, L!CreateReport(r)
  PROVE  ShareInv'
<1>0. pc[r] = "file" /\ report' = [token |-> Nil, expires |-> 0] /\ L!Goto(r, "idle", Nil)
        /\ UNCHANGED <<clock, drawn, shares, given, twice>>
  BY DEF L!CreateReport
<1>1. /\ pc' \in [Requests -> L!Steps] /\ locals' \in [Requests -> L!Job \cup {Nil}]
      /\ \A q \in Requests : locals'[q] = Nil <=> pc'[q] = "idle"
      /\ pc'[r] = "idle"
      /\ \A q \in Requests \ {r} : pc'[q] = pc[q] /\ locals'[q] = locals[q]
  BY <1>0, ShareEnd DEF ShareInv
<1>2. report = Nil /\ given = {} /\ \A q \in Requests : pc'[q] = "idle"
  BY <1>0, <1>1 DEF ShareInv, ShareBegins
<1>3. report' \in L!Report /\ report'.token = Nil /\ report'.expires = 0 /\ report' # Nil
  BY <1>0, ShareBounds DEF L!Report
<1>4. L!TypeOK'
  BY <1>0, <1>1, <1>3 DEF ShareInv, L!TypeOK
<1>5. ShareBegins' /\ ShareTokens' /\ ShareKept'
  BY <1>0, <1>2, <1>3 DEF ShareBegins, ShareTokens, ShareKept
<1>6. ShareInTime'
  BY <1>0, <1>3, ShareBounds DEF ShareInv, L!TypeOK, ShareInTime
<1> QED
  BY <1>4, <1>5, <1>6 DEF ShareInv

LEMMA ShareStarts ==
  ASSUME ShareInv, NEW r \in Requests, L!BeginShare(r)
  PROVE  ShareInv'
<1> DEFINE t == IF report.token = Nil THEN drawn + 1 ELSE report.token
           w == [token |-> t, until |-> 0]
           others == {q \in Requests : pc[q] = "update"}
<1>0. /\ pc[r] = "idle" /\ report # Nil /\ shares < MaxShares /\ shares' = shares + 1
      /\ drawn' = IF report.token = Nil THEN drawn + 1 ELSE drawn
      /\ L!Goto(r, "update", w)
      /\ twice' = IF report.token = Nil /\ \E q \in Requests : pc[q] = "update"
                  THEN twice \cup {drawn + 1} \cup {locals[q].token : q \in others}
                  ELSE twice
      /\ UNCHANGED <<clock, report, given>>
  BY DEF L!BeginShare, L!DrawsToken
<1>1. report \in L!Report /\ drawn \in Nat /\ t \in Nat /\ drawn' \in Nat
  BY <1>0 DEF ShareInv, L!TypeOK, L!Report
<1>2. w \in L!Job /\ w.token = t /\ "update" \in L!Steps \ {"idle"}
  BY <1>1 DEF L!Job, L!Steps
<1> HIDE DEF w
<1>3. /\ pc' \in [Requests -> L!Steps] /\ locals' \in [Requests -> L!Job \cup {Nil}]
      /\ \A q \in Requests : locals'[q] = Nil <=> pc'[q] = "idle"
      /\ pc'[r] = "update" /\ locals'[r] = w
      /\ \A q \in Requests \ {r} : pc'[q] = pc[q] /\ locals'[q] = locals[q]
  BY <1>0, <1>2, ShareGoto DEF ShareInv
<1>4. \A q \in Requests : pc[q] = "update" => locals[q].token \in Nat
  BY DEF ShareInv, L!TypeOK, L!Job
<1>5. twice \subseteq twice' /\ twice' \in SUBSET Nat
  BY <1>0, <1>1, <1>4 DEF ShareInv, L!TypeOK
<1>6. shares' \in 0..MaxShares
  BY <1>0, ShareBounds DEF ShareInv, L!TypeOK
<1>7. L!TypeOK'
  BY <1>0, <1>1, <1>3, <1>5, <1>6 DEF ShareInv, L!TypeOK
<1>8. ShareBegins'
  BY <1>0, <1>3 DEF ShareInv, ShareBegins
<1>9. ShareKept' /\ ShareInTime'
  BY <1>0, <1>3, <1>5 DEF ShareInv, ShareKept, ShareHolds, ShareInTime
<1>10. ShareTokens'
  <2>1. CASE report.token # Nil
    BY <1>0, <1>2, <1>3, <1>5, <2>1 DEF ShareInv, ShareTokens
  <2>2. CASE report.token = Nil
    <3>1. CASE \E q \in Requests : pc[q] = "update"
      <4>1. twice' = twice \cup {drawn + 1} \cup {locals[q].token : q \in others}
        BY <1>0, <2>2, <3>1
      <4>2. \A q \in Requests : pc'[q] = "update" => locals'[q].token \in twice'
        BY <1>2, <1>3, <2>2, <4>1
      <4> QED
        BY <1>0, <2>2, <4>2 DEF ShareTokens
    <3>2. CASE ~ \E q \in Requests : pc[q] = "update"
      <4>1. \A q \in Requests : pc'[q] = "update" => q = r
        BY <1>3, <3>2
      <4> QED
        BY <1>0, <2>2, <4>1 DEF ShareTokens
    <3> QED
      BY <3>1, <3>2
  <2> QED
    BY <2>1, <2>2
<1> QED
  BY <1>7, <1>8, <1>9, <1>10 DEF ShareInv

\* What was held is held after a token is written.
LEMMA ShareWritten ==
  ASSUME ShareInv, NEW r \in Requests, pc[r] = "update",
         report' = [token |-> locals[r].token, expires |-> clock + EXPIRES], UNCHANGED twice,
         NEW token \in Nat, NEW until \in Nat, ShareHolds(token, until)
  PROVE  ShareHolds(token, until)'
<1>1. report # Nil /\ locals[r] \in L!Job
  BY DEF ShareInv, ShareBegins, L!TypeOK
<1>2. report \in L!Report
  BY <1>1 DEF ShareInv, L!TypeOK
<1>3. report' # Nil /\ report'.token = locals[r].token /\ report'.expires = clock + EXPIRES
        /\ clock \in Nat
  BY <1>1, ShareBounds DEF ShareInv, L!TypeOK, L!Job, L!Report
<1>4. CASE token \in twice
  BY <1>4 DEF ShareHolds
<1>5. CASE token \notin twice
  <2>1. report.token = token /\ until <= report.expires
    BY <1>5 DEF ShareHolds
  <2>2. report.token # Nil
    BY <2>1, ShareBounds
  <2>3. locals[r].token = token
    BY <1>1, <1>5, <2>1, <2>2 DEF ShareInv, ShareTokens
  <2>4. until <= clock + EXPIRES
    BY <1>1, <1>2, <1>3, <2>1, ShareBounds DEF ShareInv, ShareInTime, L!Report
  <2> QED
    BY <1>3, <2>3, <2>4 DEF ShareHolds
<1> QED
  BY <1>4, <1>5

LEMMA ShareUpdates ==
  ASSUME ShareInv, NEW r \in Requests, NEW byMail \in BOOLEAN, L!UpdateReport(r, byMail)
  PROVE  ShareInv'
<1> DEFINE w == [locals[r] EXCEPT !.until = clock + EXPIRES]
           link == [token |-> locals[r].token, until |-> clock + EXPIRES]
<1>0. /\ pc[r] = "update"
      /\ report' = [token |-> locals[r].token, expires |-> clock + EXPIRES]
      /\ \/ L!Goto(r, "mail", w) /\ UNCHANGED given
         \/ L!Goto(r, "idle", Nil) /\ given' = given \cup {link}
      /\ UNCHANGED <<clock, drawn, shares, twice>>
  BY DEF L!UpdateReport
<1>1. locals[r] \in L!Job /\ clock \in Nat /\ clock + EXPIRES \in Nat
  BY <1>0, ShareBounds DEF ShareInv, L!TypeOK
<1>2. w \in L!Job /\ w.token = locals[r].token /\ w.until = clock + EXPIRES
        /\ "mail" \in L!Steps \ {"idle"}
  BY <1>1 DEF L!Job, L!Steps
<1>3. link \in [token : Nat, until : Nat] /\ link.token = locals[r].token
        /\ link.until = clock + EXPIRES
  BY <1>1 DEF L!Job
<1> HIDE DEF w, link
<1>4. /\ pc' \in [Requests -> L!Steps] /\ locals' \in [Requests -> L!Job \cup {Nil}]
      /\ \A q \in Requests : locals'[q] = Nil <=> pc'[q] = "idle"
      /\ pc'[r] \in {"mail", "idle"} /\ (pc'[r] = "mail" => locals'[r] = w)
      /\ \A q \in Requests \ {r} : pc'[q] = pc[q] /\ locals'[q] = locals[q]
  BY <1>0, <1>2, ShareGoto, ShareEnd DEF ShareInv
<1>5. report # Nil /\ report' \in L!Report /\ report' # Nil /\ report'.token = locals[r].token
        /\ report'.expires = clock + EXPIRES /\ locals[r].token \in Nat
  BY <1>0, <1>1, ShareBounds DEF ShareInv, ShareBegins, L!Job, L!Report
<1>6. given' \in SUBSET [token : Nat, until : Nat]
  BY <1>0, <1>3 DEF ShareInv, L!TypeOK
<1>7. L!TypeOK'
  BY <1>0, <1>4, <1>5, <1>6 DEF ShareInv, L!TypeOK
<1>8. ShareBegins'
  BY <1>0, <1>4, <1>5 DEF ShareInv, ShareBegins
<1>10. ShareKept'
  <2>1. ASSUME NEW k \in given' PROVE ShareHolds(k.token, k.until)'
    <3>1. CASE k \in given
      <4>1. k.token \in Nat /\ k.until \in Nat /\ ShareHolds(k.token, k.until)
        BY <3>1 DEF ShareInv, ShareKept, L!TypeOK
      <4> QED
        BY <1>0, <4>1, ShareWritten
    <3>2. CASE k \notin given
      <4>1. k.token = locals[r].token /\ k.until = clock + EXPIRES
        BY <1>0, <1>3, <3>2
      <4> QED
        BY <1>5, <4>1, <1>0, <1>1 DEF ShareHolds
    <3> QED
      BY <3>1, <3>2
  <2>2. ASSUME NEW q \in Requests, pc'[q] = "mail"
        PROVE  ShareHolds(locals[q].token, locals[q].until)'
    <3>1. CASE q = r
      BY <1>0, <1>1, <1>2, <1>4, <1>5, <2>2, <3>1 DEF ShareHolds
    <3>2. CASE q # r
      <4>1. pc[q] = "mail" /\ locals'[q] = locals[q]
        BY <1>4, <2>2, <3>2
      <4>2. locals[q].token \in Nat /\ locals[q].until \in Nat
              /\ ShareHolds(locals[q].token, locals[q].until)
        BY <4>1 DEF ShareInv, ShareKept, L!TypeOK, L!Job
      <4>3. \A token, until \in Nat : ShareHolds(token, until) =>
              token \in twice' \/ (report' # Nil /\ report'.token = token /\ until <= report'.expires)
        BY <1>0, ShareWritten DEF ShareHolds
      <4> QED
        BY <4>1, <4>2, <4>3 DEF ShareHolds
    <3> QED
      BY <3>1, <3>2
  <2> QED
    BY <2>1, <2>2 DEF ShareKept
<1>11. ShareTokens'
  <2>1. ASSUME NEW q \in Requests, pc'[q] = "update"
        PROVE  locals'[q].token = report'.token
                 \/ {locals'[q].token, report'.token} \subseteq twice'
    <3>1. q # r /\ pc[q] = "update" /\ locals'[q] = locals[q]
      BY <1>4, <2>1
    <3>2. CASE report.token = Nil
      BY <1>0, <1>5, <3>1, <3>2 DEF ShareInv, ShareTokens
    <3>3. CASE report.token # Nil
      BY <1>0, <1>5, <3>1, <3>3 DEF ShareInv, ShareTokens
    <3> QED
      BY <3>2, <3>3
  <2>2. report'.token # Nil
    BY <1>5, ShareBounds
  <2> QED
    BY <2>1, <2>2 DEF ShareTokens
<1>12. ShareInTime'
  BY <1>0, <1>1, <1>5, ShareBounds DEF ShareInTime
<1> QED
  BY <1>7, <1>8, <1>10, <1>11, <1>12 DEF ShareInv

LEMMA ShareSends ==
  ASSUME ShareInv, NEW r \in Requests, L!SendLink(r)
  PROVE  ShareInv'
<1> DEFINE link == [token |-> locals[r].token, until |-> locals[r].until]
<1>0. pc[r] = "mail" /\ given' = given \cup {link} /\ L!Goto(r, "idle", Nil)
        /\ UNCHANGED <<clock, report, drawn, shares, twice>>
  BY DEF L!SendLink
<1>1. locals[r] \in L!Job
  BY <1>0 DEF ShareInv, L!TypeOK
<1>2. link \in [token : Nat, until : Nat] /\ link.token = locals[r].token
        /\ link.until = locals[r].until
  BY <1>1 DEF L!Job
<1> HIDE DEF link
<1>3. /\ pc' \in [Requests -> L!Steps] /\ locals' \in [Requests -> L!Job \cup {Nil}]
      /\ \A q \in Requests : locals'[q] = Nil <=> pc'[q] = "idle"
      /\ pc'[r] = "idle"
      /\ \A q \in Requests \ {r} : pc'[q] = pc[q] /\ locals'[q] = locals[q]
  BY <1>0, ShareEnd DEF ShareInv
<1>4. L!TypeOK'
  BY <1>0, <1>2, <1>3 DEF ShareInv, L!TypeOK
<1>5. ShareBegins'
  BY <1>0, <1>3 DEF ShareInv, ShareBegins
<1>6. ShareTokens' /\ ShareInTime'
  BY <1>0, <1>3 DEF ShareInv, ShareTokens, ShareInTime
<1>7. ShareKept'
  BY <1>0, <1>2, <1>3 DEF ShareInv, ShareKept, ShareHolds
<1> QED
  BY <1>4, <1>5, <1>6, <1>7 DEF ShareInv

LEMMA ShareAborts ==
  ASSUME ShareInv, NEW r \in Requests, L!Abort(r)
  PROVE  ShareInv'
<1>0. L!Goto(r, "idle", Nil) /\ UNCHANGED <<clock, report, drawn, shares, given, twice>>
  BY DEF L!Abort
<1>1. /\ pc' \in [Requests -> L!Steps] /\ locals' \in [Requests -> L!Job \cup {Nil}]
      /\ \A q \in Requests : locals'[q] = Nil <=> pc'[q] = "idle"
      /\ pc'[r] = "idle"
      /\ \A q \in Requests \ {r} : pc'[q] = pc[q] /\ locals'[q] = locals[q]
  BY <1>0, ShareEnd DEF ShareInv
<1>2. L!TypeOK'
  BY <1>0, <1>1 DEF ShareInv, L!TypeOK
<1>3. ShareBegins'
  BY <1>0, <1>1 DEF ShareInv, ShareBegins
<1>4. ShareTokens' /\ ShareKept' /\ ShareInTime'
  BY <1>0, <1>1 DEF ShareInv, ShareTokens, ShareKept, ShareHolds, ShareInTime
<1> QED
  BY <1>2, <1>3, <1>4 DEF ShareInv

LEMMA ShareTicks == ASSUME ShareInv, L!Tick PROVE ShareInv'
<1>1. clock' = clock + 1 /\ clock < MaxTime
        /\ UNCHANGED <<report, pc, locals, drawn, shares, given, twice>>
  BY DEF L!Tick
<1>2. clock' \in 0..MaxTime /\ clock \in Nat
  BY <1>1, ShareBounds DEF ShareInv, L!TypeOK
<1>3. L!TypeOK'
  BY <1>1, <1>2 DEF ShareInv, L!TypeOK
<1>4. ShareInTime'
  <2>1. CASE report = Nil
    BY <1>1, <2>1 DEF ShareInTime
  <2>2. CASE report # Nil
    <3>1. report.expires \in Nat /\ report.expires <= clock + EXPIRES
      BY <2>2 DEF ShareInv, ShareInTime, L!TypeOK, L!Report
    <3> QED
      BY <1>1, <1>2, <3>1, ShareBounds DEF ShareInTime
  <2> QED
    BY <2>1, <2>2
<1> QED
  BY <1>1, <1>3, <1>4 DEF ShareInv, ShareBegins, ShareTokens, ShareKept, ShareHolds

LEMMA ShareStep == ASSUME ShareInv, L!Next \/ UNCHANGED L!vars PROVE ShareInv'
<1>1. CASE L!Next
  BY <1>1, ShareGenerates, ShareCreates, ShareStarts, ShareUpdates, ShareSends, ShareAborts,
     ShareTicks DEF L!Next, L!Handle
<1>2. CASE UNCHANGED L!vars
  BY <1>2 DEF L!vars, ShareInv, L!TypeOK, ShareBegins, ShareTokens, ShareKept, ShareHolds,
     ShareInTime
<1> QED
  BY <1>1, <1>2

\* A link in time opens the report.
LEMMA ShareOpens == ASSUME ShareInv PROVE L!LinksOpen
<1>1. ASSUME NEW link \in given, clock <= link.until
      PROVE  L!Opens(link.token) \/ link.token \in twice
  <2>1. ShareHolds(link.token, link.until) /\ link.until \in Nat /\ clock \in Nat
    BY DEF ShareInv, ShareKept, L!TypeOK
  <2>2. CASE link.token \notin twice
    <3>1. report # Nil /\ report.token = link.token /\ link.until <= report.expires
      BY <2>1, <2>2 DEF ShareHolds
    <3>2. report.expires \in Nat
      BY <3>1 DEF ShareInv, L!TypeOK, L!Report
    <3>3. report.expires >= clock
      BY <1>1, <2>1, <3>1, <3>2
    <3> QED
      BY <3>1, <3>3 DEF L!Opens
  <2> QED
    BY <2>2
<1> QED
  BY <1>1 DEF L!LinksOpen

----------------------------------------------------------------------------
\* Reminders: a user is mailed only between a row that was not there before and
\* the next look at the log.

LEMMA ReminderBounds ==
  /\ MaxFaults \in Nat /\ Nil \notin Recipients
  /\ Calendar \in Seq([year : Nat, march : BOOLEAN]) /\ Len(Calendar) \in Nat /\ 1 \in DOMAIN Calendar
BY CalendarAssumption, NilAssumption

\* The user the job is at has no mail of this year, and its row only when the
\* mail is next.
AtOne ==
  /\ stage = "create" => at \in Recipients /\ R!Year \notin logged[at]
  /\ stage = "send" => at \in Recipients /\ R!Year \in logged[at] /\ reminded[at][R!Year] = 0

\* Whoever the job has read and left behind is in the log.
LeftBehind ==
  /\ stage = "next" => \A u \in seen : u \in todo \/ R!Year \in logged[u]
  /\ stage \in {"create", "send"} => \A u \in seen : u \in todo \/ u = at \/ R!Year \in logged[u]
  /\ stage \notin {"next", "create", "send"} => todo = {}

ReminderInv == R!TypeOK /\ R!RemindersSound /\ AtOne /\ LeftBehind

LEMMA YearKnown == ASSUME R!TypeOK PROVE R!Year \in R!Years
BY ReminderBounds DEF R!TypeOK, R!Year, R!Years

LEMMA ReminderInit == ASSUME R!Init PROVE ReminderInv
<1>1. logged \in [Recipients -> SUBSET R!Years] /\ reminded \in [Recipients -> [R!Years -> Nat]]
  BY DEF R!Init
<1>2. R!TypeOK
  BY <1>1, ReminderBounds DEF R!Init, R!TypeOK, R!Steps
<1>3. R!OncePerYear
  BY DEF R!Init, R!OncePerYear
<1>4. R!NobodyPassedOver /\ AtOne /\ LeftBehind
  BY DEF R!Init, R!NobodyPassedOver, AtOne, LeftBehind
<1> QED
  BY <1>2, <1>3, <1>4 DEF ReminderInv, R!RemindersSound

LEMMA ReminderStarts == ASSUME ReminderInv, R!Start PROVE ReminderInv'
<1>1. stage = "due" /\ stage' = "next" /\ todo' = wanting /\ seen' = wanting
        /\ UNCHANGED <<day, wanting, logged, reminded, at, faults, lost>> /\ R!Year' = R!Year
  BY DEF R!Start, R!Year
<1>2. R!TypeOK'
  BY <1>1 DEF ReminderInv, R!TypeOK, R!Steps
<1>3. R!OncePerYear'
  BY <1>1 DEF ReminderInv, R!RemindersSound, R!OncePerYear
<1>4. R!NobodyPassedOver' /\ AtOne' /\ LeftBehind'
  BY <1>1 DEF R!NobodyPassedOver, AtOne, LeftBehind
<1> QED
  BY <1>2, <1>3, <1>4 DEF ReminderInv, R!RemindersSound

LEMMA ReminderRests == ASSUME ReminderInv, R!NotInMarch PROVE ReminderInv'
<1>1. stage = "due" /\ stage' = "done" /\ seen' = {}
        /\ UNCHANGED <<day, wanting, logged, reminded, todo, at, faults, lost>> /\ R!Year' = R!Year
  BY DEF R!NotInMarch, R!Year
<1>2. todo = {}
  BY <1>1 DEF ReminderInv, LeftBehind
<1>3. R!TypeOK'
  BY <1>1, <1>2 DEF ReminderInv, R!TypeOK, R!Steps
<1>4. R!OncePerYear'
  BY <1>1 DEF ReminderInv, R!RemindersSound, R!OncePerYear
<1>5. R!NobodyPassedOver' /\ AtOne' /\ LeftBehind'
  BY <1>1, <1>2 DEF R!NobodyPassedOver, AtOne, LeftBehind
<1> QED
  BY <1>3, <1>4, <1>5 DEF ReminderInv, R!RemindersSound

LEMMA ReminderFinds ==
  ASSUME ReminderInv, NEW u \in Recipients, R!FindLogged(u) PROVE ReminderInv'
<1>1. stage = "next" /\ u \in todo /\ todo' = todo \ {u}
        /\ UNCHANGED <<day, wanting, logged, reminded, faults, seen, lost>> /\ R!Year' = R!Year
  BY DEF R!FindLogged, R!Year
<1>2. CASE R!Year \in logged[u]
  <2>1. UNCHANGED <<stage, at>>
    BY <1>2 DEF R!FindLogged
  <2>2. R!TypeOK'
    BY <1>1, <2>1 DEF ReminderInv, R!TypeOK
  <2>3. R!OncePerYear'
    BY <1>1, <2>1 DEF ReminderInv, R!RemindersSound, R!OncePerYear
  <2>4. R!NobodyPassedOver' /\ AtOne' /\ LeftBehind'
    BY <1>1, <1>2, <2>1 DEF ReminderInv, R!NobodyPassedOver, AtOne, LeftBehind
  <2> QED
    BY <2>2, <2>3, <2>4 DEF ReminderInv, R!RemindersSound
<1>3. CASE R!Year \notin logged[u]
  <2>1. stage' = "create" /\ at' = u
    BY <1>3 DEF R!FindLogged
  <2>2. R!TypeOK'
    BY <1>1, <2>1 DEF ReminderInv, R!TypeOK, R!Steps
  <2>3. R!OncePerYear'
    BY <1>1, <2>1 DEF ReminderInv, R!RemindersSound, R!OncePerYear
  <2>4. R!NobodyPassedOver' /\ AtOne' /\ LeftBehind'
    BY <1>1, <1>3, <2>1 DEF ReminderInv, R!NobodyPassedOver, AtOne, LeftBehind
  <2> QED
    BY <2>2, <2>3, <2>4 DEF ReminderInv, R!RemindersSound
<1> QED
  BY <1>2, <1>3

LEMMA ReminderLogs == ASSUME ReminderInv, R!CreateLog PROVE ReminderInv'
<1>1. stage = "create" /\ stage' = "send"
        /\ logged' = [logged EXCEPT ![at] = logged[at] \cup {R!Year}]
        /\ UNCHANGED <<day, wanting, reminded, todo, at, faults, seen, lost>> /\ R!Year' = R!Year
  BY DEF R!CreateLog, R!Year
<1>2. at \in Recipients /\ R!Year \notin logged[at] /\ R!Year \in R!Years
  BY <1>1, YearKnown DEF ReminderInv, AtOne
<1>3. /\ logged' \in [Recipients -> SUBSET R!Years]
      /\ logged'[at] = logged[at] \cup {R!Year}
      /\ \A v \in Recipients \ {at} : logged'[v] = logged[v]
  BY <1>1, <1>2 DEF ReminderInv, R!TypeOK
<1>4. R!TypeOK'
  BY <1>1, <1>3 DEF ReminderInv, R!TypeOK, R!Steps
<1>5. reminded[at][R!Year] = 0
  <2>1. reminded[at][R!Year] \in Nat
    BY <1>2 DEF ReminderInv, R!TypeOK
  <2>2. reminded[at][R!Year] <= 1 /\ reminded[at][R!Year] # 1
    BY <1>2 DEF ReminderInv, R!RemindersSound, R!OncePerYear
  <2> QED
    BY <2>1, <2>2
<1>6. R!OncePerYear'
  BY <1>1, <1>2, <1>3 DEF ReminderInv, R!RemindersSound, R!OncePerYear
<1>7. R!NobodyPassedOver' /\ AtOne'
  BY <1>1, <1>2, <1>3, <1>5 DEF R!NobodyPassedOver, AtOne
<1>8. LeftBehind'
  <2>1. \A u \in seen : u \in Recipients
    BY DEF ReminderInv, R!TypeOK
  <2> QED
    BY <1>1, <1>3, <2>1 DEF ReminderInv, LeftBehind
<1> QED
  BY <1>4, <1>6, <1>7, <1>8 DEF ReminderInv, R!RemindersSound

LEMMA ReminderMails == ASSUME ReminderInv, R!SendMail PROVE ReminderInv'
<1> DEFINE y == R!Year
           line == [reminded[at] EXCEPT ![y] = reminded[at][y] + 1]
<1>1. stage = "send" /\ stage' = "next" /\ reminded' = [reminded EXCEPT ![at] = line]
        /\ UNCHANGED <<day, wanting, logged, todo, at, faults, seen, lost>> /\ R!Year' = R!Year
  BY DEF R!SendMail, R!Year
<1>2. at \in Recipients /\ y \in logged[at] /\ reminded[at][y] = 0 /\ y \in R!Years
  BY <1>1, YearKnown DEF ReminderInv, AtOne
<1>3. reminded[at] \in [R!Years -> Nat]
  BY <1>2 DEF ReminderInv, R!TypeOK
<1>4. line \in [R!Years -> Nat] /\ line[y] = 1 /\ \A z \in R!Years \ {y} : line[z] = reminded[at][z]
  BY <1>2, <1>3
<1> HIDE DEF line, y
<1>5. /\ reminded' \in [Recipients -> [R!Years -> Nat]] /\ reminded'[at] = line
      /\ \A v \in Recipients \ {at} : reminded'[v] = reminded[v]
  BY <1>1, <1>2, <1>4 DEF ReminderInv, R!TypeOK
<1>6. R!TypeOK'
  BY <1>1, <1>5 DEF ReminderInv, R!TypeOK, R!Steps
<1>7. R!OncePerYear'
  <2>1. ASSUME NEW u \in Recipients, NEW z \in R!Years
        PROVE  /\ reminded'[u][z] <= 1 /\ (reminded'[u][z] = 1 => z \in logged'[u])
               /\ z \in logged'[u] => reminded'[u][z] = 1 \/ <<u, z>> \in lost'
    <3>1. CASE u = at /\ z = y
      BY <1>1, <1>2, <1>4, <1>5, <3>1
    <3>2. CASE ~ (u = at /\ z = y)
      <4>1. reminded'[u][z] = reminded[u][z]
        BY <1>4, <1>5, <3>2
      <4> QED
        BY <1>1, <3>2, <4>1 DEF y, ReminderInv, R!RemindersSound, R!OncePerYear
    <3> QED
      BY <3>1, <3>2
  <2> QED
    BY <2>1 DEF R!OncePerYear
<1>8. R!NobodyPassedOver' /\ AtOne' /\ LeftBehind'
  BY <1>1, <1>2 DEF y, ReminderInv, R!NobodyPassedOver, AtOne, LeftBehind
<1> QED
  BY <1>6, <1>7, <1>8 DEF ReminderInv, R!RemindersSound

LEMMA ReminderEnds == ASSUME ReminderInv, R!EndRun PROVE ReminderInv'
<1>1. stage = "next" /\ todo = {} /\ stage' = "done"
        /\ UNCHANGED <<day, wanting, logged, reminded, todo, at, faults, seen, lost>>
        /\ R!Year' = R!Year
  BY DEF R!EndRun, R!Year
<1>2. R!TypeOK'
  BY <1>1 DEF ReminderInv, R!TypeOK, R!Steps
<1>3. R!OncePerYear'
  BY <1>1 DEF ReminderInv, R!RemindersSound, R!OncePerYear
<1>4. R!NobodyPassedOver' /\ AtOne' /\ LeftBehind'
  BY <1>1 DEF ReminderInv, R!NobodyPassedOver, AtOne, LeftBehind
<1> QED
  BY <1>2, <1>3, <1>4 DEF ReminderInv, R!RemindersSound

LEMMA ReminderFails == ASSUME ReminderInv, R!Fail PROVE ReminderInv'
<1>1. stage' = "failed" /\ todo' = {} /\ faults < MaxFaults /\ faults' = faults + 1
        /\ lost' = (IF stage = "send" THEN lost \cup {<<at, R!Year>>} ELSE lost)
        /\ UNCHANGED <<day, wanting, logged, reminded, at, seen>> /\ R!Year' = R!Year
  BY DEF R!Fail, R!Year
<1>2. R!Year \in R!Years /\ (stage = "send" => at \in Recipients)
  BY YearKnown DEF ReminderInv, AtOne
<1>3. lost' \in SUBSET (Recipients \X R!Years) /\ lost \subseteq lost'
  BY <1>1, <1>2 DEF ReminderInv, R!TypeOK
<1>4. faults' \in 0..MaxFaults
  BY <1>1, ReminderBounds DEF ReminderInv, R!TypeOK
<1>5. R!TypeOK'
  BY <1>1, <1>3, <1>4 DEF ReminderInv, R!TypeOK, R!Steps
<1>6. R!OncePerYear'
  BY <1>1, <1>3 DEF ReminderInv, R!RemindersSound, R!OncePerYear
<1>7. R!NobodyPassedOver' /\ AtOne' /\ LeftBehind'
  BY <1>1 DEF R!NobodyPassedOver, AtOne, LeftBehind
<1> QED
  BY <1>5, <1>6, <1>7 DEF ReminderInv, R!RemindersSound

LEMMA ReminderDays == ASSUME ReminderInv, R!NextDay PROVE ReminderInv'
<1>1. stage \in {"done", "failed"} /\ day < Len(Calendar) /\ day' = day + 1 /\ stage' = "due"
        /\ UNCHANGED <<wanting, logged, reminded, todo, at, faults, seen, lost>>
  BY DEF R!NextDay
<1>2. day' \in DOMAIN Calendar
  BY <1>1, ReminderBounds DEF ReminderInv, R!TypeOK
<1>3. R!TypeOK'
  BY <1>1, <1>2 DEF ReminderInv, R!TypeOK, R!Steps
<1>4. R!OncePerYear'
  BY <1>1 DEF ReminderInv, R!RemindersSound, R!OncePerYear
<1>5. R!NobodyPassedOver' /\ AtOne' /\ LeftBehind'
  BY <1>1 DEF ReminderInv, R!NobodyPassedOver, AtOne, LeftBehind
<1> QED
  BY <1>3, <1>4, <1>5 DEF ReminderInv, R!RemindersSound

LEMMA ReminderMinds ==
  ASSUME ReminderInv, NEW u \in Recipients, R!ChangeMind(u) PROVE ReminderInv'
<1>1. wanting' \in SUBSET Recipients
        /\ UNCHANGED <<day, logged, reminded, stage, todo, at, faults, seen, lost>>
        /\ R!Year' = R!Year
  BY DEF ReminderInv, R!TypeOK, R!ChangeMind, R!Year
<1>2. R!TypeOK'
  BY <1>1 DEF ReminderInv, R!TypeOK
<1>3. R!OncePerYear'
  BY <1>1 DEF ReminderInv, R!RemindersSound, R!OncePerYear
<1>4. R!NobodyPassedOver' /\ AtOne' /\ LeftBehind'
  BY <1>1 DEF ReminderInv, R!RemindersSound, R!NobodyPassedOver, AtOne, LeftBehind
<1> QED
  BY <1>2, <1>3, <1>4 DEF ReminderInv, R!RemindersSound

LEMMA ReminderStep == ASSUME ReminderInv, R!Next \/ UNCHANGED R!vars PROVE ReminderInv'
<1>1. CASE R!Next
  BY <1>1, ReminderStarts, ReminderRests, ReminderFinds, ReminderLogs, ReminderMails,
     ReminderEnds, ReminderFails, ReminderDays, ReminderMinds DEF R!Next, R!Job
<1>2. CASE UNCHANGED R!vars
  BY <1>2 DEF R!vars, R!Year, ReminderInv, R!TypeOK, R!RemindersSound, R!OncePerYear,
     R!NobodyPassedOver, AtOne, LeftBehind
<1> QED
  BY <1>1, <1>2

----------------------------------------------------------------------------
\* Prices: the days a search has left behind had no rate, or one was passed over.

LEMMA PriceBounds ==
  /\ Hours \subseteq Nat /\ WorkDays \subseteq Nat /\ Markets \subseteq [Coins -> Seq(Nat)]
  /\ P!Dollar \notin Coins /\ MaxDays \in Nat /\ MaxRuns \in Nat /\ MaxErrors \in Nat
  /\ Nil \notin Nat /\ Nil \notin P!Local /\ Nil \notin P!Entry
BY PriceAssumption, NilAssumption

Assets == Coins \cup {P!Dollar}
\* No rate of the n days up to the day was left out, or it is excused.
LeftOut(date, n, excused) == excused \/ \A d \in WorkDays : d <= date - n \/ date < d
RateRight(price, excused, date) == excused \/ price = P!Official(date)

\* What the locals of a request promise at a step.
Promises(step, w) ==
  /\ step = "cache" => w.attempt = 0
  /\ step = "rate" => w.asset = P!Dollar /\ LeftOut(P!TurkeyDay(w.hour), w.attempt, w.excused)
  /\ step \in {"load", "history"} => w.asset # P!Dollar
  /\ step = "history" => w.price \in Nat
  /\ step = "store" =>
       w.price \in Nat
         /\ (w.asset = P!Dollar => RateRight(w.price, w.excused, P!TurkeyDay(w.hour)))
PromisesKept == \A r \in Requests : pc[r] # "idle" => Promises(pc[r], locals[r])

RatesCached ==
  \A date \in P!Days :
    cache[<<P!Dollar, date>>] # Nil =>
      RateRight(cache[<<P!Dollar, date>>].price, cache[<<P!Dollar, date>>].excused, date)
RatesAnswered ==
  \A a \in answers :
    a.asset = P!Dollar => RateRight(a.price, a.excused, P!TurkeyDay(a.hour))

PriceInv == P!TypeOK /\ PromisesKept /\ RatesCached /\ RatesAnswered /\ P!AnswersAgree

\* The day of an hour; a midnight is on the day it begins.
LEMMA DayOf ==
  ASSUME NEW hour \in Nat
  PROVE  /\ P!TurkeyDay(hour) \in Nat /\ P!TurkeyDay(P!Midnight(hour)) = P!TurkeyDay(hour)
         /\ \A date \in Nat : 24 * date - 3 <= hour /\ hour < 24 * date + 21
              => P!TurkeyDay(hour) = date
BY DEF P!TurkeyDay, P!Midnight

\* The last day with a rate, when none after it was left out.
LEMMA LastIsOfficial ==
  ASSUME NEW date \in Nat, NEW n \in 0..4, date - n \in WorkDays,
         \A d \in WorkDays : d <= date - n \/ date < d
  PROVE  P!Official(date) = date - n
<1>1. \A d \in WorkDays : d \in Int
  BY PriceBounds
<1>2. date - n \in P!Recent(date) /\ \A e \in P!Recent(date) : e \in Int /\ e <= date - n
  BY <1>1 DEF P!Recent
<1>3. P!Official(date) = CHOOSE d \in P!Recent(date) : \A e \in P!Recent(date) : e <= d
  BY <1>2 DEF P!Official
<1>4. /\ P!Official(date) \in P!Recent(date)
      /\ \A e \in P!Recent(date) : e <= P!Official(date)
  BY <1>2, <1>3
<1>5. P!Official(date) \in Int /\ P!Official(date) <= date - n /\ date - n <= P!Official(date)
  BY <1>2, <1>4
<1> QED
  BY <1>5

LEMMA NoneIsOfficial ==
  ASSUME NEW date \in Nat, \A d \in WorkDays : d <= date - 5 \/ date < d
  PROVE  P!Official(date) = Nil
<1>1. \A d \in WorkDays : d \in Int
  BY PriceBounds
<1>2. P!Recent(date) = {}
  BY <1>1 DEF P!Recent
<1> QED
  BY <1>2 DEF P!Official

LEMMA PriceLocals ==
  ASSUME NEW w \in P!Local
  PROVE  /\ w.asset \in Assets /\ w.hour \in Hours /\ w.hour \in Nat /\ w.attempt \in 0..4
         /\ w.price \in Nat \cup {Nil} /\ w.excused \in BOOLEAN /\ w.cached \in BOOLEAN
         /\ P!TurkeyDay(w.hour) \in P!Days
         /\ <<w.asset, P!TurkeyDay(w.hour)>> \in Assets \X P!Days
BY PriceBounds DEF P!Local, Assets, P!Days

\* The counters and the names, by their types.
PriceCounts ==
  /\ clock \in 0..MaxDays /\ names \in [Coins -> Nat \cup {Nil}]
  /\ loadedAt \in 0..clock \cup {Nil} /\ runs \in 0..MaxRuns /\ errors \in 0..MaxErrors

LEMMA PriceMoves ==
  ASSUME PriceInv, PriceCounts', NEW r \in Requests, NEW step \in P!Steps \ {"idle"},
         NEW w \in P!Local, Promises(step, w), P!Goto(r, step, w), UNCHANGED <<cache, answers>>
  PROVE  PriceInv'
<1>1. /\ pc' \in [Requests -> P!Steps] /\ locals' \in [Requests -> P!Local \cup {Nil}]
      /\ \A q \in Requests : locals'[q] = Nil <=> pc'[q] = "idle"
      /\ pc'[r] = step /\ locals'[r] = w
      /\ \A q \in Requests \ {r} : pc'[q] = pc[q] /\ locals'[q] = locals[q]
  BY PriceBounds DEF PriceInv, P!TypeOK, P!Goto
<1>2. P!TypeOK'
  BY <1>1 DEF PriceInv, P!TypeOK, PriceCounts
<1>3. PromisesKept'
  BY <1>1 DEF PriceInv, PromisesKept
<1>4. RatesCached' /\ RatesAnswered' /\ P!AnswersAgree'
  BY DEF PriceInv, RatesCached, RatesAnswered, P!AnswersAgree
<1> QED
  BY <1>2, <1>3, <1>4 DEF PriceInv

\* The cache keeps what it has.
CacheGrows ==
  /\ cache' \in [Assets \X P!Days -> P!Entry \cup {Nil}]
  /\ \A k \in Assets \X P!Days : cache[k] # Nil => cache'[k] = cache[k]

LEMMA CacheRests == ASSUME PriceInv, UNCHANGED cache PROVE CacheGrows /\ RatesCached'
BY DEF PriceInv, CacheGrows, RatesCached, P!TypeOK, Assets

LEMMA AnswerParts ==
  ASSUME NEW a \in P!Answer
  PROVE  /\ <<a.asset, P!TurkeyDay(a.hour)>> \in Assets \X P!Days
         /\ a.hour \in Nat /\ a.kept \in BOOLEAN
BY PriceBounds DEF P!Answer, Assets, P!Days

LEMMA PriceReplies ==
  ASSUME PriceInv, PriceCounts', NEW r \in Requests, pc[r] # "idle",
         NEW price \in Nat \cup {Nil}, NEW excused \in BOOLEAN, NEW kept \in BOOLEAN,
         P!Reply(r, price, excused, kept), CacheGrows, RatesCached',
         locals[r].asset = P!Dollar => RateRight(price, excused, P!TurkeyDay(locals[r].hour)),
         kept => cache'[P!Key(r)] # Nil /\ cache'[P!Key(r)].price = price
  PROVE  PriceInv'
<1> DEFINE a == [asset |-> locals[r].asset, hour |-> locals[r].hour, price |-> price,
                 excused |-> excused, kept |-> kept]
<1>1. locals[r] \in P!Local
  BY DEF PriceInv, P!TypeOK
<1>2. P!Goto(r, "idle", Nil) /\ answers' = answers \cup {a}
  BY DEF P!Reply
<1>3. a \in P!Answer
  BY <1>1, PriceLocals DEF P!Answer, Assets
<1>4. /\ pc' \in [Requests -> P!Steps] /\ locals' \in [Requests -> P!Local \cup {Nil}]
      /\ \A q \in Requests : locals'[q] = Nil <=> pc'[q] = "idle"
      /\ pc'[r] = "idle"
      /\ \A q \in Requests \ {r} : pc'[q] = pc[q] /\ locals'[q] = locals[q]
  BY <1>2, PriceBounds DEF PriceInv, P!TypeOK, P!Goto, P!Steps
<1>5. answers' \in SUBSET P!Answer
  BY <1>2, <1>3 DEF PriceInv, P!TypeOK
<1>6. P!TypeOK'
  BY <1>4, <1>5 DEF PriceCounts, CacheGrows, P!TypeOK, Assets
<1>7. PromisesKept'
  BY <1>4 DEF PriceInv, PromisesKept
<1>8. RatesAnswered'
  BY <1>2 DEF PriceInv, RatesAnswered
<1>9. P!AnswersAgree'
  <2>1. ASSUME NEW b \in answers, b.kept
        PROVE  cache'[<<b.asset, P!TurkeyDay(b.hour)>>] # Nil
                 /\ cache'[<<b.asset, P!TurkeyDay(b.hour)>>].price = b.price
    <3>1. <<b.asset, P!TurkeyDay(b.hour)>> \in Assets \X P!Days
      BY AnswerParts DEF PriceInv, P!TypeOK
    <3>2. cache[<<b.asset, P!TurkeyDay(b.hour)>>] # Nil
            /\ cache[<<b.asset, P!TurkeyDay(b.hour)>>].price = b.price
      BY <2>1 DEF PriceInv, P!AnswersAgree
    <3> QED
      BY <3>1, <3>2 DEF CacheGrows
  <2>2. kept => cache'[<<a.asset, P!TurkeyDay(a.hour)>>] # Nil
                  /\ cache'[<<a.asset, P!TurkeyDay(a.hour)>>].price = a.price
    BY DEF P!Key
  <2> QED
    BY <1>2, <2>1, <2>2 DEF P!AnswersAgree
<1> QED
  BY <1>6, <1>7, <1>8, <1>9 DEF PriceInv

LEMMA PriceInit == ASSUME P!Init PROVE PriceInv
<1>1. pc \in [Requests -> P!Steps] /\ locals \in [Requests -> P!Local \cup {Nil}]
  BY DEF P!Init, P!Steps
<1>2. names \in [Coins -> Nat \cup {Nil}]
        /\ cache \in [Assets \X P!Days -> P!Entry \cup {Nil}]
        /\ \A k \in Assets \X P!Days : cache[k] = Nil
  BY DEF P!Init, Assets
<1>3. \A r \in Requests : pc[r] = "idle" /\ locals[r] = Nil
  BY DEF P!Init
<1>4. clock \in 0..MaxDays /\ loadedAt = Nil /\ runs \in 0..MaxRuns /\ errors \in 0..MaxErrors
        /\ answers = {}
  BY PriceBounds DEF P!Init
<1>5. P!TypeOK
  BY <1>1, <1>2, <1>3, <1>4 DEF P!TypeOK, Assets
<1>6. RatesCached
  BY <1>2 DEF RatesCached, Assets
<1> QED
  BY <1>3, <1>4, <1>5, <1>6 DEF PriceInv, PromisesKept, RatesAnswered, P!AnswersAgree

LEMMA PriceTyped == ASSUME PriceInv PROVE PriceCounts
BY DEF PriceInv, P!TypeOK, PriceCounts

LEMMA PriceBegins ==
  ASSUME PriceInv, NEW r \in Requests, NEW asset \in Assets, NEW hour \in Hours,
         NEW cached \in BOOLEAN, P!Begin(r, asset, hour, cached)
  PROVE  PriceInv'
<1> DEFINE w == [asset |-> asset, hour |-> hour, cached |-> cached, attempt |-> 0,
                 price |-> Nil, excused |-> FALSE]
           step == IF cached THEN "cache" ELSE "rate"
<1>1. runs < MaxRuns /\ runs' = runs + 1 /\ (~ cached => asset = P!Dollar) /\ P!Goto(r, step, w)
        /\ UNCHANGED <<clock, names, loadedAt, cache, errors, answers>>
  BY DEF P!Begin
<1>2. w \in P!Local /\ step \in P!Steps \ {"idle"}
  BY DEF P!Local, P!Steps, Assets
<1>3. hour \in Nat /\ P!TurkeyDay(hour) \in Nat
  BY PriceBounds, DayOf
<1>4. LeftOut(P!TurkeyDay(hour), 0, FALSE)
  BY <1>3, PriceBounds DEF LeftOut
<1>5. Promises(step, w)
  BY <1>1, <1>4 DEF Promises
<1>6. PriceCounts'
  BY <1>1, PriceBounds, PriceTyped DEF PriceCounts
<1> HIDE DEF w, step
<1> QED
  BY <1>1, <1>2, <1>5, <1>6, PriceMoves

\* resolveId, of a coin.
LEMMA PriceResolves ==
  ASSUME PriceInv, PriceCounts', NEW r \in Requests, pc[r] # "idle", locals[r].asset # P!Dollar,
         NEW listed \in [Coins -> Nat \cup {Nil}], P!Resolve(r, listed), UNCHANGED cache
  PROVE  PriceInv'
<1>1. locals[r] \in P!Local
  BY DEF PriceInv, P!TypeOK
<1>2. locals[r].asset \in Coins
  BY <1>1 DEF P!Local
<1>3. CASE listed[locals[r].asset] = Nil
  BY <1>3, PriceReplies, CacheRests DEF P!Resolve
<1>4. CASE listed[locals[r].asset] # Nil
  <2> DEFINE w == [locals[r] EXCEPT !.price = listed[locals[r].asset]]
  <2>1. listed[locals[r].asset] \in Nat
    BY <1>2, <1>4
  <2>2. w \in P!Local /\ w.price \in Nat /\ w.asset # P!Dollar /\ "history" \in P!Steps \ {"idle"}
    BY <1>1, <2>1 DEF P!Local, P!Steps
  <2>3. P!Goto(r, "history", w) /\ UNCHANGED answers
    BY <1>4 DEF P!Resolve
  <2> HIDE DEF w
  <2>4. Promises("history", w)
    BY <2>2 DEF Promises
  <2> QED
    BY <2>2, <2>3, <2>4, PriceMoves
<1> QED
  BY <1>3, <1>4

LEMMA PriceFinds == ASSUME PriceInv, NEW r \in Requests, P!FindCached(r) PROVE PriceInv'
<1> DEFINE entry == cache[P!Key(r)]
           w == locals[r]
<1>1. pc[r] = "cache" /\ UNCHANGED <<clock, names, loadedAt, cache, runs, errors>>
  BY DEF P!FindCached
<1>2. w \in P!Local
  BY <1>1 DEF PriceInv, P!TypeOK
<1>3. PriceCounts'
  BY <1>1, PriceTyped DEF PriceCounts
<1>4. P!Key(r) = <<w.asset, P!TurkeyDay(w.hour)>> /\ P!Key(r) \in Assets \X P!Days
        /\ P!TurkeyDay(w.hour) \in P!Days /\ w.hour \in Nat
  BY <1>2, PriceLocals DEF P!Key
<1>5. CASE entry # Nil
  <2>1. P!Reply(r, entry.price, entry.excused, TRUE)
    BY <1>5 DEF P!FindCached
  <2>2. entry \in P!Entry
    BY <1>4, <1>5 DEF PriceInv, P!TypeOK, Assets
  <2>3. entry.price \in Nat /\ entry.excused \in BOOLEAN
    BY <2>2 DEF P!Entry
  <2>4. w.asset = P!Dollar => RateRight(entry.price, entry.excused, P!TurkeyDay(w.hour))
    BY <1>4, <1>5 DEF PriceInv, RatesCached
  <2>5. cache' = cache /\ cache'[P!Key(r)] # Nil /\ cache'[P!Key(r)].price = entry.price
    BY <1>1, <1>5
  <2>6. CacheGrows /\ RatesCached'
    BY <2>5, CacheRests
  <2> HIDE DEF entry
  <2>7. \A price \in Nat \cup {Nil}, excused \in BOOLEAN :
          /\ P!Reply(r, price, excused, TRUE)
          /\ w.asset = P!Dollar => RateRight(price, excused, P!TurkeyDay(w.hour))
          /\ cache'[P!Key(r)].price = price
          => PriceInv'
    BY <1>1, <1>3, <2>5, <2>6, PriceReplies
  <2> QED
    BY <2>1, <2>3, <2>4, <2>5, <2>7
<1>6. CASE entry = Nil /\ w.asset = P!Dollar
  <2>1. P!Goto(r, "rate", w) /\ UNCHANGED answers
    BY <1>6 DEF P!FindCached
  <2>2. w.attempt = 0
    BY <1>1 DEF PriceInv, PromisesKept, Promises
  <2>3. LeftOut(P!TurkeyDay(w.hour), 0, w.excused)
    BY <1>4, DayOf, PriceBounds DEF LeftOut
  <2>4. "rate" \in P!Steps \ {"idle"} /\ Promises("rate", w)
    BY <1>6, <2>2, <2>3 DEF P!Steps, Promises
  <2> QED
    BY <1>1, <1>2, <1>3, <2>1, <2>4, PriceMoves
<1>7. CASE entry = Nil /\ w.asset # P!Dollar /\ P!Fresh
  <2>1. P!Resolve(r, names) /\ names \in [Coins -> Nat \cup {Nil}]
    BY <1>7, PriceTyped DEF P!FindCached, PriceCounts
  <2> QED
    BY <1>1, <1>3, <1>7, <2>1, PriceResolves
<1>8. CASE entry = Nil /\ w.asset # P!Dollar /\ ~ P!Fresh
  <2>1. P!Goto(r, "load", w) /\ UNCHANGED answers
    BY <1>8 DEF P!FindCached
  <2>2. "load" \in P!Steps \ {"idle"} /\ Promises("load", w)
    BY <1>8 DEF P!Steps, Promises
  <2> QED
    BY <1>1, <1>2, <1>3, <2>1, <2>2, PriceMoves
<1> QED
  BY <1>5, <1>6, <1>7, <1>8

\* Of each coin the last of its name in the list.
LEMMA NamesType ==
  ASSUME NEW market \in Markets PROVE P!NamesOf(market) \in [Coins -> Nat \cup {Nil}]
<1>1. ASSUME NEW c \in Coins, market[c] # <<>> PROVE market[c][Len(market[c])] \in Nat
  <2>1. market[c] \in Seq(Nat)
    BY PriceBounds
  <2> QED
    BY <1>1, <2>1
<1> QED
  BY <1>1 DEF P!NamesOf

LEMMA PriceLoads ==
  ASSUME PriceInv, NEW r \in Requests, NEW market \in Markets, P!LoadNames(r, market)
  PROVE  PriceInv'
<1>1. /\ pc[r] = "load" /\ names' = P!NamesOf(market) /\ loadedAt' = clock
      /\ P!Resolve(r, P!NamesOf(market)) /\ UNCHANGED <<clock, cache, runs, errors>>
  BY DEF P!LoadNames
<1>2. P!NamesOf(market) \in [Coins -> Nat \cup {Nil}]
  BY NamesType
<1>3. PriceCounts'
  BY <1>1, <1>2, PriceTyped, PriceBounds DEF PriceCounts
<1>4. locals[r].asset # P!Dollar
  BY <1>1 DEF PriceInv, PromisesKept, Promises
<1>5. \A listed \in [Coins -> Nat \cup {Nil}] : P!Resolve(r, listed) => PriceInv'
  BY <1>1, <1>3, <1>4, PriceResolves
<1> QED
  BY <1>1, <1>2, <1>5

LEMMA PriceReads == ASSUME PriceInv, NEW r \in Requests, P!ReadHistory(r) PROVE PriceInv'
<1>1. pc[r] = "history" /\ UNCHANGED <<clock, names, loadedAt, cache, runs, errors>>
  BY DEF P!ReadHistory
<1>2. PriceCounts' /\ CacheGrows /\ RatesCached'
  BY <1>1, PriceTyped, CacheRests DEF PriceCounts
<1>3. locals[r] \in P!Local /\ locals[r].asset # P!Dollar /\ locals[r].price \in Nat
  BY <1>1 DEF PriceInv, P!TypeOK, PromisesKept, Promises
<1>4. "store" \in P!Steps \ {"idle"} /\ Promises("store", locals[r])
  BY <1>3 DEF P!Steps, Promises
<1>5. CASE P!Goto(r, "store", locals[r]) /\ UNCHANGED answers
  BY <1>1, <1>2, <1>3, <1>4, <1>5, PriceMoves
<1>6. CASE P!Reply(r, Nil, FALSE, FALSE)
  BY <1>1, <1>2, <1>3, <1>6, PriceReplies
<1> QED
  BY <1>5, <1>6 DEF P!ReadHistory

\* The day a request asks for lies as many days back as it has tried.
LEMMA RateDayIs ==
  ASSUME PriceInv, NEW r \in Requests, pc[r] = "rate"
  PROVE  /\ locals[r] \in P!Local /\ locals[r].asset = P!Dollar
         /\ P!RateDay(r) = P!TurkeyDay(locals[r].hour) - locals[r].attempt
         /\ P!TurkeyDay(locals[r].hour) \in Nat /\ locals[r].attempt \in 0..4
         /\ LeftOut(P!TurkeyDay(locals[r].hour), locals[r].attempt, locals[r].excused)
<1>1. locals[r] \in P!Local /\ Promises("rate", locals[r])
  BY DEF PriceInv, P!TypeOK, PromisesKept
<1>2. locals[r].hour \in Nat /\ locals[r].attempt \in 0..4
  BY <1>1, PriceLocals
<1>3. P!RateDay(r) = P!TurkeyDay(locals[r].hour) - locals[r].attempt
  BY <1>2, DayOf DEF P!RateDay
<1> QED
  BY <1>1, <1>2, <1>3, DayOf DEF Promises

LEMMA PriceAsks == ASSUME PriceInv, NEW r \in Requests, P!AskRate(r) PROVE PriceInv'
<1> DEFINE date == P!RateDay(r)
           of == P!TurkeyDay(locals[r].hour)
<1>1. /\ pc[r] = "rate" /\ P!Published(date) /\ P!FoundRate(r, date, locals[r].excused)
      /\ UNCHANGED <<clock, names, loadedAt, cache, runs, errors>>
  BY DEF P!AskRate
<1>2. PriceCounts' /\ CacheGrows /\ RatesCached'
  BY <1>1, PriceTyped, CacheRests DEF PriceCounts
<1>3. /\ locals[r] \in P!Local /\ locals[r].asset = P!Dollar /\ date = of - locals[r].attempt
      /\ of \in Nat /\ locals[r].attempt \in 0..4 /\ locals[r].excused \in BOOLEAN
      /\ LeftOut(of, locals[r].attempt, locals[r].excused)
  BY <1>1, RateDayIs, PriceLocals
<1>4. date \in WorkDays /\ date \in Nat
  BY <1>1, PriceBounds DEF P!Published
<1> HIDE DEF date, of
<1>5. RateRight(date, locals[r].excused, of)
  <2>1. CASE locals[r].excused
    BY <2>1 DEF RateRight
  <2>2. CASE ~ locals[r].excused
    <3>1. \A d \in WorkDays : d <= of - locals[r].attempt \/ of < d
      BY <1>3, <2>2 DEF LeftOut
    <3>2. P!Official(of) = of - locals[r].attempt
      BY <1>3, <1>4, <3>1, LastIsOfficial
    <3> QED
      BY <1>3, <3>2 DEF RateRight
  <2> QED
    BY <2>1, <2>2
<1>6. CASE locals[r].cached
  <2> DEFINE w == [locals[r] EXCEPT !.price = date, !.excused = locals[r].excused]
  <2>1. P!Goto(r, "store", w) /\ UNCHANGED answers
    BY <1>1, <1>6 DEF P!FoundRate
  <2>2. /\ w \in P!Local /\ w.price = date /\ w.excused = locals[r].excused
        /\ w.hour = locals[r].hour /\ "store" \in P!Steps \ {"idle"}
    BY <1>3, <1>4 DEF P!Local, P!Steps
  <2> HIDE DEF w
  <2>3. Promises("store", w)
    BY <1>4, <1>5, <2>2 DEF Promises, of
  <2> QED
    BY <1>2, <1>1, <2>1, <2>2, <2>3, PriceMoves
<1>7. CASE ~ locals[r].cached
  <2>1. P!Reply(r, date, locals[r].excused, FALSE)
    BY <1>1, <1>7 DEF P!FoundRate
  <2>2. \A price \in Nat \cup {Nil}, excused \in BOOLEAN :
          P!Reply(r, price, excused, FALSE) /\ RateRight(price, excused, P!TurkeyDay(locals[r].hour))
            => PriceInv'
    BY <1>1, <1>2, PriceReplies
  <2> QED
    BY <1>3, <1>4, <1>5, <2>1, <2>2 DEF of
<1> QED
  BY <1>6, <1>7

LEMMA PriceMisses == ASSUME PriceInv, NEW r \in Requests, P!NoRate(r) PROVE PriceInv'
<1> DEFINE date == P!RateDay(r)
           of == P!TurkeyDay(locals[r].hour)
           missed == locals[r].excused \/ date \in WorkDays
<1>1. /\ pc[r] = "rate"
      /\ IF P!Published(date) THEN errors < MaxErrors /\ errors' = errors + 1
         ELSE UNCHANGED errors
      /\ IF locals[r].attempt = 4 THEN P!Reply(r, Nil, missed, FALSE)
         ELSE /\ P!Goto(r, "rate", [locals[r] EXCEPT !.attempt = locals[r].attempt + 1,
                                                    !.excused = missed])
              /\ UNCHANGED answers
      /\ UNCHANGED <<clock, names, loadedAt, cache, runs>>
  BY DEF P!NoRate
<1>2. errors' \in 0..MaxErrors
  BY <1>1, PriceTyped, PriceBounds DEF PriceCounts
<1>3. PriceCounts' /\ CacheGrows /\ RatesCached'
  BY <1>1, <1>2, PriceTyped, CacheRests DEF PriceCounts
<1>4. /\ locals[r] \in P!Local /\ locals[r].asset = P!Dollar /\ date = of - locals[r].attempt
      /\ of \in Nat /\ locals[r].attempt \in 0..4 /\ locals[r].excused \in BOOLEAN
      /\ LeftOut(of, locals[r].attempt, locals[r].excused)
  BY <1>1, RateDayIs, PriceLocals
<1>5. missed \in BOOLEAN
  BY <1>4
<1>6. LeftOut(of, locals[r].attempt + 1, missed)
  <2>1. SUFFICES ASSUME ~ missed, NEW d \in WorkDays
                 PROVE  d <= of - (locals[r].attempt + 1) \/ of < d
    BY DEF LeftOut
  <2>2. d <= of - locals[r].attempt \/ of < d
    BY <1>4, <2>1 DEF LeftOut
  <2>3. d # of - locals[r].attempt /\ d \in Nat
    BY <1>4, <2>1, PriceBounds
  <2> QED
    BY <1>4, <2>2, <2>3
<1> HIDE DEF date, of, missed
<1>7. CASE locals[r].attempt = 4
  <2>1. P!Reply(r, Nil, missed, FALSE)
    BY <1>1, <1>7
  <2>2. RateRight(Nil, missed, of)
    <3>1. CASE missed
      BY <3>1 DEF RateRight
    <3>2. CASE ~ missed
      <4>1. \A d \in WorkDays : d <= of - 5 \/ of < d
        BY <1>6, <1>7, <3>2 DEF LeftOut
      <4>2. P!Official(of) = Nil
        BY <1>4, <4>1, NoneIsOfficial
      <4> QED
        BY <4>2 DEF RateRight
    <3> QED
      BY <3>1, <3>2
  <2>3. \A excused \in BOOLEAN :
          P!Reply(r, Nil, excused, FALSE) /\ RateRight(Nil, excused, P!TurkeyDay(locals[r].hour))
            => PriceInv'
    BY <1>1, <1>3, PriceReplies
  <2> QED
    BY <1>5, <2>1, <2>2, <2>3 DEF of
<1>8. CASE locals[r].attempt # 4
  <2> DEFINE w == [locals[r] EXCEPT !.attempt = locals[r].attempt + 1, !.excused = missed]
  <2>1. P!Goto(r, "rate", w) /\ UNCHANGED answers
    BY <1>1, <1>8
  <2>0. locals[r].attempt + 1 \in 0..4
    BY <1>4, <1>8
  <2>2. w \in P!Local
    BY <1>4, <1>5, <2>0 DEF P!Local
  <2>3. /\ w.attempt = locals[r].attempt + 1 /\ w.excused = missed
        /\ w.hour = locals[r].hour /\ w.asset = locals[r].asset
    BY <1>4 DEF P!Local
  <2>4. "rate" \in P!Steps \ {"idle"}
    BY DEF P!Steps
  <2> HIDE DEF w
  <2>5. Promises("rate", w)
    BY <1>4, <1>6, <2>3 DEF Promises, of
  <2> QED
    BY <1>1, <1>3, <2>1, <2>2, <2>4, <2>5, PriceMoves
<1> QED
  BY <1>7, <1>8

LEMMA PriceStores == ASSUME PriceInv, NEW r \in Requests, P!Store(r) PROVE PriceInv'
<1> DEFINE w == locals[r]
           key == P!Key(r)
           entry == [price |-> w.price, excused |-> w.excused]
<1>1. pc[r] = "store" /\ UNCHANGED <<clock, names, loadedAt, runs>>
  BY DEF P!Store
<1>2. w \in P!Local /\ Promises("store", w)
  BY <1>1 DEF PriceInv, P!TypeOK, PromisesKept
<1>3. /\ w.price \in Nat /\ w.excused \in BOOLEAN
      /\ w.asset = P!Dollar => RateRight(w.price, w.excused, P!TurkeyDay(w.hour))
  BY <1>2, PriceLocals DEF Promises
<1>4. key = <<w.asset, P!TurkeyDay(w.hour)>> /\ key \in Assets \X P!Days
  BY <1>2, PriceLocals DEF P!Key
<1>5. CASE /\ cache[key] = Nil /\ cache' = [cache EXCEPT ![key] = entry]
           /\ P!Reply(r, w.price, w.excused, TRUE) /\ UNCHANGED errors
  <2>1. entry \in P!Entry /\ entry # Nil /\ entry.price = w.price /\ entry.excused = w.excused
    BY <1>3, PriceBounds DEF P!Entry
  <2>2. cache \in [Assets \X P!Days -> P!Entry \cup {Nil}]
    BY DEF PriceInv, P!TypeOK, Assets
  <2> HIDE DEF entry, key
  <2>3. /\ cache' \in [Assets \X P!Days -> P!Entry \cup {Nil}] /\ cache'[key] = entry
        /\ \A k \in Assets \X P!Days : k # key => cache'[k] = cache[k]
    BY <1>4, <1>5, <2>1, <2>2
  <2>4. CacheGrows
    BY <1>5, <2>3 DEF CacheGrows
  <2>5. RatesCached'
    <3>1. ASSUME NEW date \in P!Days, cache'[<<P!Dollar, date>>] # Nil
          PROVE  RateRight(cache'[<<P!Dollar, date>>].price, cache'[<<P!Dollar, date>>].excused, date)
      <4>1. <<P!Dollar, date>> \in Assets \X P!Days
        BY DEF Assets
      <4>2. CASE <<P!Dollar, date>> = key
        <5>1. w.asset = P!Dollar /\ date = P!TurkeyDay(w.hour)
          BY <1>4, <4>2
        <5> QED
          BY <1>3, <2>1, <2>3, <4>2, <5>1
      <4>3. CASE <<P!Dollar, date>> # key
        BY <2>3, <3>1, <4>1, <4>3 DEF PriceInv, RatesCached
      <4> QED
        BY <4>2, <4>3
    <3> QED
      BY <3>1 DEF RatesCached
  <2>6. PriceCounts'
    BY <1>1, <1>5, PriceTyped DEF PriceCounts
  <2>7. cache'[P!Key(r)] # Nil /\ cache'[P!Key(r)].price = w.price
    BY <2>1, <2>3 DEF key
  <2>8. \A price \in Nat \cup {Nil}, excused \in BOOLEAN :
          /\ P!Reply(r, price, excused, TRUE)
          /\ w.asset = P!Dollar => RateRight(price, excused, P!TurkeyDay(w.hour))
          /\ cache'[P!Key(r)].price = price
          => PriceInv'
    BY <1>1, <2>4, <2>5, <2>6, <2>7, PriceReplies
  <2> QED
    BY <1>3, <1>5, <2>7, <2>8
<1>6. CASE /\ IF cache[key] = Nil THEN errors < MaxErrors /\ errors' = errors + 1
              ELSE UNCHANGED errors
           /\ P!Reply(r, w.price, w.excused, FALSE) /\ UNCHANGED cache
  <2>1. errors' \in 0..MaxErrors
    BY <1>6, PriceTyped, PriceBounds DEF PriceCounts
  <2>2. PriceCounts' /\ CacheGrows /\ RatesCached'
    BY <1>1, <1>6, <2>1, PriceTyped, CacheRests DEF PriceCounts
  <2>3. \A price \in Nat \cup {Nil}, excused \in BOOLEAN :
          /\ P!Reply(r, price, excused, FALSE)
          /\ w.asset = P!Dollar => RateRight(price, excused, P!TurkeyDay(w.hour))
          => PriceInv'
    BY <1>1, <2>2, PriceReplies
  <2> QED
    BY <1>3, <1>6, <2>3
<1> QED
  BY <1>5, <1>6 DEF P!Store

LEMMA PriceThrows == ASSUME PriceInv, NEW r \in Requests, P!Throw(r) PROVE PriceInv'
<1>1. /\ errors < MaxErrors /\ errors' = errors + 1 /\ P!Goto(r, "idle", Nil)
      /\ UNCHANGED <<clock, names, loadedAt, cache, runs, answers>>
  BY DEF P!Throw
<1>2. /\ pc' \in [Requests -> P!Steps] /\ locals' \in [Requests -> P!Local \cup {Nil}]
      /\ \A q \in Requests : locals'[q] = Nil <=> pc'[q] = "idle"
      /\ pc'[r] = "idle"
      /\ \A q \in Requests \ {r} : pc'[q] = pc[q] /\ locals'[q] = locals[q]
  BY <1>1, PriceBounds DEF PriceInv, P!TypeOK, P!Goto, P!Steps
<1>3. errors' \in 0..MaxErrors
  BY <1>1, PriceTyped, PriceBounds DEF PriceCounts
<1>4. P!TypeOK'
  BY <1>1, <1>2, <1>3 DEF PriceInv, P!TypeOK
<1>5. PromisesKept'
  BY <1>2 DEF PriceInv, PromisesKept
<1>6. RatesCached' /\ RatesAnswered' /\ P!AnswersAgree'
  BY <1>1 DEF PriceInv, RatesCached, RatesAnswered, P!AnswersAgree
<1> QED
  BY <1>4, <1>5, <1>6 DEF PriceInv

LEMMA PriceTicks == ASSUME PriceInv, P!Tick PROVE PriceInv'
<1>1. clock < MaxDays /\ clock' = clock + 1
        /\ UNCHANGED <<names, loadedAt, cache, pc, locals, runs, errors, answers>>
  BY DEF P!Tick
<1>2. clock' \in 0..MaxDays /\ loadedAt' \in 0..clock' \cup {Nil}
  BY <1>1, PriceTyped, PriceBounds DEF PriceCounts
<1>3. P!TypeOK'
  BY <1>1, <1>2 DEF PriceInv, P!TypeOK
<1>4. PromisesKept' /\ RatesCached' /\ RatesAnswered' /\ P!AnswersAgree'
  BY <1>1 DEF PriceInv, PromisesKept, RatesCached, RatesAnswered, P!AnswersAgree
<1> QED
  BY <1>3, <1>4 DEF PriceInv

LEMMA PriceStep == ASSUME PriceInv, P!Next \/ UNCHANGED P!vars PROVE PriceInv'
<1>1. CASE P!Next
  BY <1>1, PriceBegins, PriceFinds, PriceLoads, PriceReads, PriceAsks, PriceMisses, PriceStores,
     PriceThrows, PriceTicks DEF P!Next, P!Convert, Assets
<1>2. CASE UNCHANGED P!vars
  BY <1>2 DEF P!vars, PriceInv, P!TypeOK, PromisesKept, RatesCached, RatesAnswered,
     P!AnswersAgree
<1> QED
  BY <1>1, <1>2

\* A trade of a day is answered with the rate of that day.
LEMMA PriceSays == ASSUME PriceInv PROVE P!PricesSound
<1>1. ASSUME NEW a \in answers, NEW date \in 0..(a.hour \div 24 + 1),
             a.asset = P!Dollar, 24 * date - 3 <= a.hour, a.hour < 24 * date + 21
      PROVE  a.excused \/ a.price = P!Official(date)
  <2>1. a.hour \in Nat
    BY AnswerParts DEF PriceInv, P!TypeOK
  <2>2. date \in Nat
    BY <2>1
  <2>3. P!TurkeyDay(a.hour) = date
    BY <1>1, <2>1, <2>2, DayOf
  <2> QED
    BY <1>1, <2>3 DEF PriceInv, RatesAnswered, RateRight
<1>2. P!RateOfTheDay
  BY <1>1 DEF P!RateOfTheDay
<1> QED
  BY <1>2 DEF PriceInv, P!PricesSound

----------------------------------------------------------------------------
\* Enrolment: every link belongs to one user, to whom alone it is mailed, and
\* what a row waits for is mailed, or held by a request about to send it.

LEMMA AccountBounds ==
  /\ LINK_EXPIRES \in Nat /\ CODE_EXPIRES \in Nat /\ MaxUsers \in Nat
  /\ Allowances \subseteq [links : Nat, edits : Nat, mishaps : Nat]
  /\ Nil \notin Nat /\ Nil \notin Emails /\ Nil \notin Phones /\ Nil \notin E!Form
  /\ Nil \notin E!Local
BY EnrolmentAssumption, NilAssumption DEF E!Allowance

\* What the locals hold at a step, of n users.
Filled(step, w, n) ==
  /\ step \in {"reg:username", "reg:phone", "reg:create", "edit:username", "edit"} =>
       w.form \in E!Form
  /\ step \notin {"idle", "reg:username", "reg:phone", "reg:create"} => w.id \in 1..n
  /\ step \in {"reg:mail", "resend", "resend:mail", "verify"} => w.email \in Emails
  /\ step \in {"reg:mail", "reg:sms", "recode", "recode:sms"} => w.phone \in Phones
AllFilled == \A r \in Requests : Filled(pc[r], locals[r], Len(users))

\* A request that has a link to write or to mail.
Carrying == {"reg:mail", "resend", "resend:mail"}
Linked(u, l) == u \in E!Known /\ users[u].emailLink = l
\* The address of a user, when it was read or the link sent, is still his.
AddressOf(u, e) == e = users[u].email \/ u \in vouched

CarriedIsHis ==
  \A r \in Requests : pc[r] \in Carrying =>
    locals[r].link \in 1..generated /\ AddressOf(locals[r].id, locals[r].email)
LinksAreDrawn ==
  /\ \A u \in E!Known : users[u].emailLink # Nil => users[u].emailLink \in 1..generated
  /\ \A m \in mailed : m.link \in 1..generated
CarriedApart ==
  \A r, q \in Requests : r # q /\ pc[r] \in Carrying /\ pc[q] \in Carrying =>
    locals[r].link # locals[q].link
CarriedOwn ==
  \A r \in Requests, u \in E!Known : pc[r] \in Carrying /\ users[u].emailLink = locals[r].link =>
    u = locals[r].id
UnwrittenUnsent ==
  \A r \in Requests, m \in mailed : pc[r] = "resend" => m.link # locals[r].link
MailedOwn ==
  \A m \in mailed, u \in E!Known : users[u].emailLink = m.link => AddressOf(u, m.to)
VerifyingOwn ==
  \A r \in Requests : pc[r] = "verify" => AddressOf(locals[r].id, locals[r].email)
LinkInv ==
  CarriedIsHis /\ LinksAreDrawn /\ CarriedApart /\ CarriedOwn /\ UnwrittenUnsent /\ MailedOwn
    /\ VerifyingOwn /\ E!VerifiedByOwnLink

\* A link or a code a row waits for was sent, or is on its way.
LinkOnItsWay(u, l) ==
  (\E m \in mailed : m.link = l)
    \/ \E r \in Requests :
         pc[r] \in {"reg:mail", "resend:mail"} /\ locals[r].id = u /\ locals[r].link = l
CodeOnItsWay(u, c) ==
  (\E m \in texted : m.code = c)
    \/ \E r \in Requests :
         pc[r] \in {"reg:mail", "reg:sms", "recode:sms"} /\ locals[r].id = u /\ locals[r].code = c
OnItsWay ==
  \A u \in E!Known \ silent :
    /\ users[u].emailLink # Nil => LinkOnItsWay(u, users[u].emailLink)
    /\ users[u].phoneCode # Nil => CodeOnItsWay(u, users[u].phoneCode)

AccountInv == E!TypeOK /\ AllFilled /\ LinkInv /\ OnItsWay

----------------------------------------------------------------------------
AccountCounts ==
  /\ allowed \in Allowances
  /\ clock \in 0..allowed.mishaps /\ generated \in 0..allowed.links /\ generated \in Nat
  /\ edits \in 0..allowed.edits /\ aborts \in 0..allowed.mishaps
AccountSent ==
  /\ mailed \in SUBSET [link : Nat, to : Emails] /\ texted \in SUBSET [code : Nat, to : Phones]
  /\ proved \in [E!Ids -> SUBSET Emails] /\ vouched \in SUBSET E!Ids /\ silent \in SUBSET E!Ids

LEMMA AccountTyped ==
  ASSUME E!TypeOK
  PROVE  /\ AccountCounts /\ AccountSent /\ users \in Seq(E!UserRow) /\ Len(users) <= MaxUsers
         /\ Len(users) \in Nat /\ E!Known = 1..Len(users) /\ E!Known \subseteq E!Ids
         /\ \A u \in E!Known : users[u] \in E!UserRow
<1>1. allowed \in [links : Nat, edits : Nat, mishaps : Nat]
  BY AccountBounds DEF E!TypeOK
<1>2. AccountCounts
  BY <1>1 DEF E!TypeOK, AccountCounts
<1> QED
  BY <1>2, AccountBounds DEF E!TypeOK, AccountSent, E!Known, E!Ids

LEMMA RowFields ==
  ASSUME NEW k \in E!UserRow
  PROVE  /\ k.email \in Emails /\ k.username \in Usernames /\ k.phone \in Phones
         /\ k.emailVerified \in BOOLEAN /\ k.emailLink \in Nat \cup {Nil}
         /\ k.emailExpires \in Nat \cup {Nil} /\ k.phoneVerified \in BOOLEAN
         /\ k.phoneCode \in Nat \cup {Nil} /\ k.phoneExpires \in Nat \cup {Nil}
BY DEF E!UserRow

LEMMA LocalFields ==
  ASSUME NEW w \in E!Local
  PROVE  /\ w.id \in Nat /\ w.link \in Nat /\ w.code \in Nat /\ w.flag \in BOOLEAN
         /\ w.form \in E!Form \cup {Nil} /\ w.email \in Emails \cup {Nil}
         /\ w.phone \in Phones \cup {Nil}
BY DEF E!Local

LEMMA NoWorkType == E!NoWork \in E!Local
BY DEF E!NoWork, E!Local

\* Request r is at a step with locals w, and the others where they were.
Placed(r, step, w) ==
  /\ pc' \in [Requests -> E!Steps] /\ locals' \in [Requests -> E!Local \cup {Nil}]
  /\ \A q \in Requests : locals'[q] = Nil <=> pc'[q] = "idle"
  /\ pc'[r] = step /\ locals'[r] = w
  /\ \A q \in Requests \ {r} : pc'[q] = pc[q] /\ locals'[q] = locals[q]

LEMMA AccountGoto ==
  ASSUME E!TypeOK, NEW r \in Requests, NEW step \in E!Steps \ {"idle"}, NEW w \in E!Local,
         E!Goto(r, step, w)
  PROVE  Placed(r, step, w)
BY AccountBounds DEF E!TypeOK, E!Goto, Placed

LEMMA AccountEnd ==
  ASSUME E!TypeOK, NEW r \in Requests, E!Finish(r) PROVE Placed(r, "idle", Nil)
BY AccountBounds DEF E!TypeOK, E!Finish, E!Goto, E!Steps, Placed

LEMMA AccountBusy ==
  ASSUME E!TypeOK, NEW r \in Requests, pc[r] # "idle" PROVE locals[r] \in E!Local
BY DEF E!TypeOK

LEMMA AccountShape ==
  ASSUME E!TypeOK, AllFilled, AccountCounts', AccountSent', NEW r \in Requests, NEW step, NEW w,
         Placed(r, step, w), users' \in Seq(E!UserRow), Len(users') <= MaxUsers,
         Len(users) <= Len(users'), Filled(step, w, Len(users'))
  PROVE  E!TypeOK' /\ AllFilled'
<1>1. E!TypeOK'
  BY DEF AccountCounts, AccountSent, Placed, E!TypeOK
<1>2. ASSUME NEW q \in Requests \ {r} PROVE Filled(pc'[q], locals'[q], Len(users'))
  <2>1. pc'[q] = pc[q] /\ locals'[q] = locals[q] /\ Filled(pc[q], locals[q], Len(users))
    BY DEF Placed, AllFilled
  <2>2. Len(users) \in Nat /\ Len(users') \in Nat
    BY AccountTyped
  <2> QED
    BY <2>1, <2>2 DEF Filled
<1>3. pc'[r] = step /\ locals'[r] = w
  BY DEF Placed
<1> QED
  BY <1>1, <1>2, <1>3 DEF AllFilled

\* A step that leaves the addresses, the links and what was mailed.
LEMMA LinksRest ==
  ASSUME E!TypeOK, LinkInv, NEW r \in Requests, NEW step, NEW w, Placed(r, step, w),
         E!Known' = E!Known, UNCHANGED <<mailed, proved, vouched>>, generated' \in Nat,
         generated <= generated',
         \A u \in E!Known : /\ users'[u].email = users[u].email
                            /\ users'[u].emailLink = users[u].emailLink
                            /\ users'[u].emailVerified = users[u].emailVerified,
         step \notin Carrying, step = "verify" => AddressOf(w.id, w.email) /\ w.id \in E!Known,
         AllFilled
  PROVE  LinkInv'
<1>1. /\ pc'[r] = step /\ locals'[r] = w
      /\ \A q \in Requests \ {r} : pc'[q] = pc[q] /\ locals'[q] = locals[q]
  BY DEF Placed
<1>2. generated \in Nat /\ 1..generated \subseteq 1..generated'
  BY AccountTyped DEF AccountCounts
<1>3. \A u \in E!Known : \A e : AddressOf(u, e) => e = users'[u].email \/ u \in vouched'
  BY DEF AddressOf
<1>4. \A q \in Requests : pc[q] \in Carrying \cup {"verify"} => locals[q].id \in E!Known
  BY AccountTyped DEF AllFilled, Filled, Carrying
<1>5. CarriedIsHis'
  BY <1>1, <1>2, <1>3, <1>4 DEF LinkInv, CarriedIsHis, AddressOf
<1>6. LinksAreDrawn'
  BY <1>2 DEF LinkInv, LinksAreDrawn
<1>7. CarriedApart' /\ CarriedOwn' /\ UnwrittenUnsent'
  BY <1>1 DEF LinkInv, CarriedApart, CarriedOwn, UnwrittenUnsent, Carrying
<1>8. MailedOwn'
  BY <1>3 DEF LinkInv, MailedOwn, AddressOf
<1>9. VerifyingOwn'
  BY <1>1, <1>3, <1>4 DEF LinkInv, VerifyingOwn, AddressOf
<1>10. E!VerifiedByOwnLink'
  BY DEF LinkInv, E!VerifiedByOwnLink
<1> QED
  BY <1>5, <1>6, <1>7, <1>8, <1>9, <1>10 DEF LinkInv

\* A step of a request that has nothing to send, or gives its user up.
Sending == {"reg:mail", "reg:sms", "resend:mail", "recode:sms"}
LEMMA SendingRests ==
  ASSUME OnItsWay, NEW r \in Requests, NEW step, NEW w, Placed(r, step, w),
         UNCHANGED <<users, mailed, texted>>, silent \subseteq silent',
         pc[r] \in Sending => locals[r].id \in silent'
  PROVE  OnItsWay'
<1>1. \A q \in Requests \ {r} : pc'[q] = pc[q] /\ locals'[q] = locals[q]
  BY DEF Placed
<1>2. E!Known' = E!Known
  BY DEF E!Known
<1>3. ASSUME NEW u \in E!Known \ silent', NEW l, LinkOnItsWay(u, l) PROVE LinkOnItsWay(u, l)'
  BY <1>1, <1>3 DEF LinkOnItsWay, Sending
<1>4. ASSUME NEW u \in E!Known \ silent', NEW c, CodeOnItsWay(u, c) PROVE CodeOnItsWay(u, c)'
  BY <1>1, <1>4 DEF CodeOnItsWay, Sending
<1>5. ASSUME NEW u \in E!Known \ silent'
      PROVE  /\ users[u].emailLink # Nil => LinkOnItsWay(u, users[u].emailLink)
             /\ users[u].phoneCode # Nil => CodeOnItsWay(u, users[u].phoneCode)
  BY DEF OnItsWay
<1> QED
  BY <1>2, <1>3, <1>4, <1>5 DEF OnItsWay

\* Requests that read, and those that end.
LEMMA AccountQuiet ==
  ASSUME AccountInv, AccountCounts', NEW r \in Requests, NEW step, NEW w, Placed(r, step, w),
         UNCHANGED <<users, mailed, texted, proved, vouched>>, generated <= generated',
         silent \subseteq silent', silent' \subseteq E!Ids,
         step \notin Carrying, step = "verify" => AddressOf(w.id, w.email),
         Filled(step, w, Len(users)), pc[r] \in Sending => locals[r].id \in silent'
  PROVE  AccountInv'
<1>1. AccountSent'
  BY AccountTyped DEF AccountInv, AccountSent
<1>2. E!TypeOK' /\ AllFilled'
  BY <1>1, AccountTyped, AccountShape DEF AccountInv
<1>3. step = "verify" => w.id \in E!Known
  BY AccountTyped DEF AccountInv, Filled
<1>4. E!Known' = E!Known /\ generated' \in Nat
  BY DEF E!Known, AccountCounts
<1>5. LinkInv'
  BY <1>3, <1>4, LinksRest DEF AccountInv
<1>6. OnItsWay'
  BY SendingRests DEF AccountInv
<1> QED
  BY <1>2, <1>5, <1>6 DEF AccountInv

----------------------------------------------------------------------------
\* register, up to the row.
LEMMA RegistrationReads ==
  ASSUME AccountInv, NEW r \in Requests,
         \/ \E form \in E!Form : E!BeginRegister(r, form)
         \/ E!CheckUsername(r) \/ E!CheckPhone(r) \/ E!RefuseUser(r)
  PROVE  AccountInv'
<1>0. E!TypeOK
  BY DEF AccountInv
<1>1. UNCHANGED <<users, mailed, texted, proved, vouched, silent>> /\ generated' = generated
        /\ AccountCounts' /\ pc[r] \notin Sending
  BY <1>0, AccountTyped DEF E!BeginRegister, E!CheckUsername, E!CheckPhone, E!RefuseUser,
     AccountCounts, E!sent, E!counters, E!history, Sending
<1>2. generated <= generated' /\ silent \subseteq silent' /\ silent' \subseteq E!Ids
  BY <1>0, <1>1, AccountTyped DEF AccountCounts, AccountSent
<1>3. \A step \in {"idle", "reg:username", "reg:phone", "reg:create"} :
        step \notin Carrying /\ step # "verify"
  BY DEF Carrying
<1>4. ASSUME NEW step \in {"idle", "reg:username", "reg:phone", "reg:create"}, NEW w,
             Placed(r, step, w), step # "idle" => w.form \in E!Form
      PROVE  AccountInv'
  <2>1. Filled(step, w, Len(users))
    BY <1>4 DEF Filled
  <2> QED
    BY <1>1, <1>2, <1>3, <1>4, <2>1, AccountQuiet
<1>5. CASE E!Finish(r)
  BY <1>0, <1>4, <1>5, AccountEnd
<1>6. ASSUME NEW form \in E!Form, E!BeginRegister(r, form) PROVE AccountInv'
  <2> DEFINE w == [E!NoWork EXCEPT !.form = form]
  <2>1. w \in E!Local /\ w.form = form /\ "reg:username" \in E!Steps \ {"idle"}
    BY NoWorkType DEF E!Local, E!Steps
  <2>2. E!Goto(r, "reg:username", w)
    BY <1>6 DEF E!BeginRegister
  <2> HIDE DEF w
  <2> QED
    BY <1>0, <1>4, <2>1, <2>2, AccountGoto
<1>7. CASE pc[r] \in {"reg:username", "reg:phone"} /\ ~ E!Finish(r)
  <2>1. locals[r] \in E!Local /\ locals[r].form \in E!Form
    BY <1>0, <1>7, AccountBusy DEF AccountInv, AllFilled, Filled
  <2>2. PICK step \in {"reg:phone", "reg:create"} : E!Goto(r, step, locals[r])
    BY <1>7 DEF E!BeginRegister, E!CheckUsername, E!CheckPhone, E!RefuseUser
  <2>3. step \in E!Steps \ {"idle"}
    BY DEF E!Steps
  <2> QED
    BY <1>0, <1>4, <2>1, <2>2, <2>3, AccountGoto
<1> QED
  BY <1>5, <1>6, <1>7 DEF E!CheckUsername, E!CheckPhone, E!RefuseUser

\* A row that takes the place of another.
LEMMA Rewritten ==
  ASSUME E!TypeOK, NEW u \in E!Known, NEW k \in E!UserRow, users' = [users EXCEPT ![u] = k]
  PROVE  /\ users' \in Seq(E!UserRow) /\ Len(users') = Len(users) /\ E!Known' = E!Known
         /\ users'[u] = k /\ \A v \in E!Known : v # u => users'[v] = users[v]
BY AccountTyped DEF E!Known

LEMMA RowAdded ==
  ASSUME E!TypeOK, NEW k \in E!UserRow, users' = Append(users, k), Len(users) < MaxUsers
  PROVE  /\ users' \in Seq(E!UserRow) /\ Len(users') = Len(users) + 1 /\ Len(users') <= MaxUsers
         /\ Len(users) + 1 \notin E!Known /\ E!Known' = E!Known \cup {Len(users) + 1}
         /\ users'[Len(users) + 1] = k /\ \A v \in E!Known : users'[v] = users[v]
<1>1. users \in Seq(E!UserRow) /\ Len(users) \in Nat /\ E!Known = 1..Len(users)
  BY AccountTyped
<1>2. users' \in Seq(E!UserRow) /\ Len(users') = Len(users) + 1
  BY <1>1
<1>3. E!Known' = 1..(Len(users) + 1)
  BY <1>2 DEF E!Known
<1>4. 1..(Len(users) + 1) = 1..Len(users) \cup {Len(users) + 1}
  BY <1>1
<1> QED
  BY <1>1, <1>2, <1>3, <1>4, AccountBounds

\* The new row: its link and its code are new, and the request has them to send.
LEMMA RegistrationAdds ==
  ASSUME AccountInv, NEW r \in Requests, pc[r] = "reg:create",
         NEW n \in Nat, n = Len(users) + 1, NEW l \in Nat, l = generated + 1,
         NEW k \in E!UserRow, k.emailLink = l, k.phoneCode = l, k.emailVerified = FALSE,
         NEW w \in E!Local, w.id = n, w.link = l, w.code = l, w.email = k.email,
         w.email \in Emails, w.phone \in Phones, Placed(r, "reg:mail", w),
         Len(users) < MaxUsers, generated < allowed.links,
         users' = Append(users, k), generated' = l,
         UNCHANGED <<allowed, clock, mailed, texted, edits, aborts, proved, vouched, silent>>
  PROVE  AccountInv'
<1>0. E!TypeOK
  BY DEF AccountInv
<1>3. generated \in Nat /\ Len(users) \in Nat
  BY <1>0, AccountTyped DEF AccountCounts
<1>7. /\ users' \in Seq(E!UserRow) /\ Len(users') = n /\ Len(users') <= MaxUsers
      /\ n \notin E!Known /\ E!Known' = E!Known \cup {n}
      /\ users'[n] = k /\ \A v \in E!Known : users'[v] = users[v]
  BY <1>0, RowAdded
<1>8. AccountCounts' /\ AccountSent'
  <2>1. allowed \in [links : Nat, edits : Nat, mishaps : Nat]
    BY <1>0, AccountTyped, AccountBounds DEF AccountCounts
  <2> QED
    BY <1>0, <1>3, <2>1, AccountTyped DEF AccountCounts, AccountSent, E!Ids
<1>9. E!TypeOK' /\ AllFilled'
  <2>1. Filled("reg:mail", w, Len(users'))
    BY <1>3, <1>7 DEF Filled
  <2>2. Len(users) <= Len(users')
    BY <1>3, <1>7
  <2> QED
    BY <1>0, <1>7, <1>8, <2>1, <2>2, AccountShape DEF AccountInv
<1>10. /\ pc'[r] = "reg:mail" /\ locals'[r] = w
       /\ \A q \in Requests \ {r} : pc'[q] = pc[q] /\ locals'[q] = locals[q]
  BY DEF Placed
<1>11. \A q \in Requests : pc[q] \in Carrying \cup {"verify"} => locals[q].id \in E!Known
  BY <1>0, AccountTyped DEF AccountInv, AllFilled, Filled, Carrying
<1>a. \A i \in 1..generated : i \in 1..l /\ i # l
  BY <1>3
<1>b. l \in 1..l /\ l # Nil
  BY <1>3, AccountBounds
<1>12. CarriedIsHis'
  <2>1. ASSUME NEW q \in Requests \ {r}, pc'[q] \in Carrying
        PROVE  locals'[q].link \in 1..l /\ AddressOf(locals[q].id, locals[q].email)'
    BY <1>7, <1>10, <1>11, <1>a, <2>1 DEF AccountInv, LinkInv, CarriedIsHis, AddressOf
  <2>2. locals'[r].link \in 1..l /\ AddressOf(locals[r].id, locals[r].email)'
    BY <1>7, <1>10, <1>b DEF AddressOf
  <2> QED
    BY <2>1, <2>2 DEF CarriedIsHis
<1>13. LinksAreDrawn'
  BY <1>7, <1>a, <1>b DEF AccountInv, LinkInv, LinksAreDrawn
<1>14. CarriedApart'
  BY <1>10, <1>a DEF AccountInv, LinkInv, CarriedIsHis, CarriedApart, Carrying
<1>15. CarriedOwn'
  <2>1. ASSUME NEW q \in Requests, NEW u \in E!Known', pc'[q] \in Carrying,
               users'[u].emailLink = locals'[q].link
        PROVE  u = locals'[q].id
    <3>1. CASE q = r /\ u # n
      BY <1>7, <1>10, <1>a, <1>b, <2>1, <3>1 DEF AccountInv, LinkInv, LinksAreDrawn
    <3>2. CASE q # r /\ u = n
      BY <1>7, <1>10, <1>a, <2>1, <3>2 DEF AccountInv, LinkInv, CarriedIsHis
    <3>3. CASE q # r /\ u # n
      BY <1>7, <1>10, <2>1, <3>3 DEF AccountInv, LinkInv, CarriedOwn
    <3>4. CASE q = r /\ u = n
      BY <1>10, <3>4
    <3> QED
      BY <3>1, <3>2, <3>3, <3>4
  <2> QED
    BY <2>1 DEF CarriedOwn
<1>16. UnwrittenUnsent'
  BY <1>10 DEF AccountInv, LinkInv, UnwrittenUnsent
<1>17. MailedOwn'
  <2>1. ASSUME NEW m \in mailed, NEW u \in E!Known', users'[u].emailLink = m.link
        PROVE  AddressOf(u, m.to)'
    <3>1. m.link # l
      BY <1>a DEF AccountInv, LinkInv, LinksAreDrawn
    <3>2. u \in E!Known
      BY <1>7, <2>1, <3>1
    <3> QED
      BY <1>7, <2>1, <3>2 DEF AccountInv, LinkInv, MailedOwn, AddressOf
  <2> QED
    BY <2>1 DEF MailedOwn
<1>18. VerifyingOwn'
  BY <1>7, <1>10, <1>11 DEF AccountInv, LinkInv, VerifyingOwn, AddressOf
<1>19. E!VerifiedByOwnLink'
  BY <1>7 DEF AccountInv, LinkInv, E!VerifiedByOwnLink
<1>20. OnItsWay'
  <2>1. ASSUME NEW u \in E!Known, NEW i, LinkOnItsWay(u, i) PROVE LinkOnItsWay(u, i)'
    BY <1>10, <2>1 DEF LinkOnItsWay
  <2>2. ASSUME NEW u \in E!Known, NEW c, CodeOnItsWay(u, c) PROVE CodeOnItsWay(u, c)'
    BY <1>10, <2>2 DEF CodeOnItsWay
  <2>3. LinkOnItsWay(n, l)'
    BY <1>10 DEF LinkOnItsWay
  <2>4. CodeOnItsWay(n, l)'
    BY <1>10 DEF CodeOnItsWay
  <2>5. ASSUME NEW u \in E!Known \ silent
        PROVE  /\ users'[u].emailLink # Nil => LinkOnItsWay(u, users[u].emailLink)'
               /\ users'[u].phoneCode # Nil => CodeOnItsWay(u, users[u].phoneCode)'
    <3>1. users'[u] = users[u]
      BY <1>7
    <3>2. \A i : LinkOnItsWay(u, i) => LinkOnItsWay(u, i)'
      BY <2>1
    <3>3. \A c : CodeOnItsWay(u, c) => CodeOnItsWay(u, c)'
      BY <2>2
    <3> QED
      BY <3>1, <3>2, <3>3 DEF AccountInv, OnItsWay
  <2> QED
    BY <1>7, <2>3, <2>4, <2>5 DEF OnItsWay
<1> QED
  BY <1>9, <1>12, <1>13, <1>14, <1>15, <1>16, <1>17, <1>18, <1>19, <1>20 DEF AccountInv, LinkInv

LEMMA RegistrationCreates ==
  ASSUME AccountInv, NEW r \in Requests, E!CreateUser(r) PROVE AccountInv'
<1> DEFINE form == locals[r].form
           k == E!NewUser(form)
           n == Len(users) + 1
           l == generated + 1
           w == [locals[r] EXCEPT !.id = n, !.link = l, !.code = l,
                                  !.email = form.email, !.phone = form.phone]
<1>0. E!TypeOK
  BY DEF AccountInv
<1>1. /\ pc[r] = "reg:create" /\ Len(users) < MaxUsers /\ generated < allowed.links
      /\ users' = Append(users, k) /\ generated' = l /\ E!Goto(r, "reg:mail", w)
      /\ UNCHANGED <<allowed, clock, mailed, texted, edits, aborts, proved, vouched, silent>>
  BY DEF E!CreateUser, E!sent, E!counters, E!history
<1>2. locals[r] \in E!Local /\ form \in E!Form
  BY <1>0, <1>1, AccountBusy DEF AccountInv, AllFilled, Filled
<1>3. clock \in Nat /\ generated \in Nat /\ l \in Nat /\ n \in Nat
  BY <1>0, AccountTyped DEF AccountCounts
<1>4. /\ k \in E!UserRow /\ k.email = form.email /\ k.emailLink = l
      /\ k.phoneCode = l /\ k.emailVerified = FALSE
  BY <1>2, <1>3, AccountBounds DEF E!NewUser, E!UserRow, E!Form
<1>f. form.email \in Emails /\ form.phone \in Phones
  BY <1>2 DEF E!Form
<1> HIDE DEF form
<1>5. /\ w \in E!Local /\ w.id = n /\ w.link = l /\ w.code = l
      /\ w.email = form.email /\ w.phone = form.phone
  BY <1>2, <1>3, <1>f DEF E!Local
<1>s. "reg:mail" \in E!Steps \ {"idle"}
  BY DEF E!Steps
<1> HIDE DEF k, w, n, l
<1>6. Placed(r, "reg:mail", w)
  BY <1>0, <1>1, <1>5, <1>s, AccountGoto
<1>7. n = Len(users) + 1 /\ l = generated + 1
  BY DEF n, l
<1> QED
  BY <1>1, <1>3, <1>4, <1>5, <1>6, <1>7, <1>f, RegistrationAdds

----------------------------------------------------------------------------
\* The link goes to the address it was drawn for, and the row no longer waits.
LEMMA LinkSends ==
  ASSUME AccountInv, NEW r \in Requests, NEW m, m = [link |-> locals[r].link, to |-> locals[r].email],
         pc[r] \in {"reg:mail", "resend:mail"}, mailed' = mailed \cup {m},
         NEW step \in {"reg:sms", "idle"}, NEW w, Placed(r, step, w),
         pc[r] = "reg:mail" => step = "reg:sms" /\ w = locals[r],
         pc[r] = "resend:mail" => step = "idle",
         UNCHANGED <<allowed, clock, users, generated, texted, edits, aborts, proved, vouched, silent>>
  PROVE  AccountInv'
<1>0. E!TypeOK
  BY DEF AccountInv
<1>1. /\ pc'[r] = step /\ locals'[r] = w
      /\ \A q \in Requests \ {r} : pc'[q] = pc[q] /\ locals'[q] = locals[q]
  BY DEF Placed
<1>2. /\ locals[r] \in E!Local /\ locals[r].email \in Emails /\ locals[r].id \in E!Known
      /\ pc[r] = "reg:mail" => locals[r].phone \in Phones
  BY <1>0, AccountBusy, AccountTyped DEF AccountInv, AllFilled, Filled
<1>3. m \in [link : Nat, to : Emails] /\ m.link = locals[r].link /\ m.to = locals[r].email
  BY <1>2, LocalFields
<1>4. AccountCounts' /\ AccountSent'
  BY <1>0, <1>3, AccountTyped DEF AccountCounts, AccountSent
<1>5. E!TypeOK' /\ AllFilled'
  <2>1. Filled(step, w, Len(users'))
    BY <1>0, <1>2, AccountTyped DEF Filled
  <2> QED
    BY <1>0, <1>4, <2>1, AccountTyped, AccountShape DEF AccountInv
<1>6. E!Known' = E!Known /\ step \notin Carrying /\ step # "verify" /\ pc[r] \in Carrying
  BY DEF E!Known, Carrying
<1>7. locals[r].link \in 1..generated /\ AddressOf(locals[r].id, locals[r].email)
  BY <1>6 DEF AccountInv, LinkInv, CarriedIsHis
<1>8. CarriedIsHis' /\ CarriedApart' /\ CarriedOwn' /\ VerifyingOwn'
  BY <1>1, <1>6 DEF AccountInv, LinkInv, CarriedIsHis, CarriedApart, CarriedOwn, VerifyingOwn,
     AddressOf
<1>9. LinksAreDrawn'
  BY <1>3, <1>6, <1>7 DEF AccountInv, LinkInv, LinksAreDrawn
<1>10. UnwrittenUnsent'
  <2>1. ASSUME NEW q \in Requests, NEW x \in mailed', pc'[q] = "resend"
        PROVE  x.link # locals'[q].link
    <3>1. q # r /\ pc[q] = "resend" /\ pc[q] \in Carrying /\ locals'[q] = locals[q]
      BY <1>1, <2>1 DEF Carrying
    <3> QED
      BY <1>3, <1>6, <3>1 DEF AccountInv, LinkInv, UnwrittenUnsent, CarriedApart
  <2> QED
    BY <2>1 DEF UnwrittenUnsent
<1>11. MailedOwn'
  <2>1. ASSUME NEW x \in mailed', NEW u \in E!Known, users[u].emailLink = x.link
        PROVE  AddressOf(u, x.to)
    <3>1. CASE x = m
      <4>1. u = locals[r].id
        BY <1>3, <1>6, <2>1, <3>1 DEF AccountInv, LinkInv, CarriedOwn
      <4> QED
        BY <1>3, <1>7, <3>1, <4>1
    <3>2. CASE x # m
      BY <2>1, <3>2 DEF AccountInv, LinkInv, MailedOwn
    <3> QED
      BY <3>1, <3>2
  <2> QED
    BY <1>6, <2>1 DEF MailedOwn, AddressOf
<1>12. E!VerifiedByOwnLink'
  BY <1>6 DEF AccountInv, LinkInv, E!VerifiedByOwnLink
<1>13. OnItsWay'
  <2>1. ASSUME NEW u \in E!Known, NEW i, LinkOnItsWay(u, i) PROVE LinkOnItsWay(u, i)'
    BY <1>1, <1>3, <2>1 DEF LinkOnItsWay
  <2>2. ASSUME NEW u \in E!Known, NEW c, CodeOnItsWay(u, c) PROVE CodeOnItsWay(u, c)'
    BY <1>1, <2>2 DEF CodeOnItsWay
  <2> QED
    BY <1>6, <2>1, <2>2 DEF AccountInv, OnItsWay
<1> QED
  BY <1>5, <1>8, <1>9, <1>10, <1>11, <1>12, <1>13 DEF AccountInv, LinkInv

LEMMA MailsLink == ASSUME AccountInv, NEW r \in Requests, E!SendLink(r) PROVE AccountInv'
<1> DEFINE m == [link |-> locals[r].link, to |-> locals[r].email]
<1>0. E!TypeOK
  BY DEF AccountInv
<1>1. /\ pc[r] \in {"reg:mail", "resend:mail"} /\ mailed' = mailed \cup {m}
      /\ IF pc[r] = "reg:mail" THEN E!Goto(r, "reg:sms", locals[r]) ELSE E!Finish(r)
      /\ UNCHANGED <<allowed, clock, users, generated, texted, edits, aborts, proved, vouched,
                     silent>>
  BY DEF E!SendLink, E!counters, E!history
<1>2. locals[r] \in E!Local /\ "reg:sms" \in E!Steps \ {"idle"}
  BY <1>0, <1>1, AccountBusy DEF E!Steps
<1>3. \A x, step, w :
        /\ x = [link |-> locals[r].link, to |-> locals[r].email] /\ mailed' = mailed \cup {x}
        /\ step \in {"reg:sms", "idle"} /\ Placed(r, step, w)
        /\ pc[r] = "reg:mail" => step = "reg:sms" /\ w = locals[r]
        /\ pc[r] = "resend:mail" => step = "idle"
        => AccountInv'
  BY <1>1, LinkSends
<1>4. CASE pc[r] = "reg:mail"
  <2>1. Placed(r, "reg:sms", locals[r])
    BY <1>0, <1>1, <1>2, <1>4, AccountGoto
  <2> QED
    BY <1>1, <1>3, <1>4, <2>1
<1>5. CASE pc[r] = "resend:mail"
  <2>1. Placed(r, "idle", Nil)
    BY <1>0, <1>1, <1>5, AccountEnd
  <2> QED
    BY <1>1, <1>3, <1>5, <2>1
<1> QED
  BY <1>1, <1>4, <1>5

LEMMA TextsCode == ASSUME AccountInv, NEW r \in Requests, E!SendCode(r) PROVE AccountInv'
<1> DEFINE m == [code |-> locals[r].code, to |-> locals[r].phone]
<1>0. E!TypeOK
  BY DEF AccountInv
<1>1. /\ pc[r] \in {"reg:sms", "recode:sms"} /\ texted' = texted \cup {m} /\ E!Finish(r)
      /\ UNCHANGED <<allowed, clock, users, generated, mailed, edits, aborts, proved, vouched,
                     silent>>
  BY DEF E!SendCode, E!counters, E!history
<1>2. locals[r] \in E!Local /\ locals[r].phone \in Phones
  BY <1>0, <1>1, AccountBusy DEF AccountInv, AllFilled, Filled
<1>3. m \in [code : Nat, to : Phones] /\ m.code = locals[r].code
  BY <1>2, LocalFields
<1> HIDE DEF m
<1>4. Placed(r, "idle", Nil)
  BY <1>0, <1>1, AccountEnd
<1>5. AccountCounts' /\ AccountSent'
  BY <1>0, <1>1, <1>3, AccountTyped DEF AccountCounts, AccountSent
<1>6. Filled("idle", Nil, Len(users')) /\ "idle" \notin Carrying
  BY DEF Filled, Carrying
<1>7. E!TypeOK' /\ AllFilled'
  BY <1>0, <1>1, <1>4, <1>5, <1>6, AccountTyped, AccountShape DEF AccountInv
<1>8. E!Known' = E!Known /\ generated' \in Nat /\ generated <= generated'
  BY <1>0, <1>1, <1>5, AccountTyped DEF E!Known, AccountCounts
<1>9. LinkInv'
  BY <1>0, <1>1, <1>4, <1>6, <1>8, LinksRest DEF AccountInv
<1>10. OnItsWay'
  <2>0. \A q \in Requests \ {r} : pc'[q] = pc[q] /\ locals'[q] = locals[q]
    BY <1>4 DEF Placed
  <2>1. ASSUME NEW u \in E!Known, NEW i, LinkOnItsWay(u, i) PROVE LinkOnItsWay(u, i)'
    BY <1>1, <2>0, <2>1 DEF LinkOnItsWay
  <2>2. ASSUME NEW u \in E!Known, NEW c, CodeOnItsWay(u, c) PROVE CodeOnItsWay(u, c)'
    BY <1>1, <1>3, <2>0, <2>2 DEF CodeOnItsWay
  <2> QED
    BY <1>1, <1>8, <2>1, <2>2 DEF AccountInv, OnItsWay
<1> QED
  BY <1>7, <1>9, <1>10 DEF AccountInv

----------------------------------------------------------------------------
\* resendVerificationEmail: the link it draws is new.
LEMMA ResendDraws ==
  ASSUME AccountInv, NEW r \in Requests, pc[r] = "idle", NEW u \in E!Known, NEW w \in E!Local,
         NEW l \in Nat, l = generated + 1, generated' = l, generated < allowed.links,
         w.id = u, w.email = users[u].email, w.link = l, Placed(r, "resend", w),
         UNCHANGED <<allowed, clock, users, mailed, texted, edits, aborts, proved, vouched, silent>>
  PROVE  AccountInv'
<1>0. E!TypeOK
  BY DEF AccountInv
<1>1. /\ pc'[r] = "resend" /\ locals'[r] = w
      /\ \A q \in Requests \ {r} : pc'[q] = pc[q] /\ locals'[q] = locals[q]
  BY DEF Placed
<1>2. generated \in Nat /\ E!Known' = E!Known
  BY <1>0, AccountTyped DEF E!Known, AccountCounts
<1>a. \A i \in 1..generated : i \in 1..l /\ i # l
  BY <1>2
<1>b. l \in 1..l /\ l # Nil /\ w.email \in Emails
  BY <1>0, <1>2, AccountBounds, AccountTyped, RowFields
<1>3. AccountCounts' /\ AccountSent'
  <2>1. allowed \in [links : Nat, edits : Nat, mishaps : Nat]
    BY <1>0, AccountTyped, AccountBounds DEF AccountCounts
  <2> QED
    BY <1>0, <1>2, <2>1, AccountTyped DEF AccountCounts, AccountSent, E!Ids
<1>4. E!TypeOK' /\ AllFilled'
  <2>1. Filled("resend", w, Len(users'))
    BY <1>0, <1>b, AccountTyped DEF Filled
  <2> QED
    BY <1>0, <1>3, <2>1, AccountTyped, AccountShape DEF AccountInv
<1>5. CarriedIsHis'
  BY <1>1, <1>a, <1>b DEF AccountInv, LinkInv, CarriedIsHis, AddressOf
<1>6. LinksAreDrawn'
  BY <1>2, <1>a DEF AccountInv, LinkInv, LinksAreDrawn
<1>7. CarriedApart'
  BY <1>1, <1>a DEF AccountInv, LinkInv, CarriedIsHis, CarriedApart, Carrying
<1>8. CarriedOwn'
  <2>1. ASSUME NEW q \in Requests, NEW v \in E!Known, pc'[q] \in Carrying,
               users[v].emailLink = locals'[q].link
        PROVE  v = locals'[q].id
    <3>1. q # r
      BY <1>1, <1>a, <1>b, <2>1 DEF AccountInv, LinkInv, LinksAreDrawn
    <3> QED
      BY <1>1, <2>1, <3>1 DEF AccountInv, LinkInv, CarriedOwn
  <2> QED
    BY <1>2, <2>1 DEF CarriedOwn
<1>9. UnwrittenUnsent'
  <2>1. ASSUME NEW q \in Requests, NEW m \in mailed, pc'[q] = "resend"
        PROVE  m.link # locals'[q].link
    <3>1. m.link # l
      BY <1>a DEF AccountInv, LinkInv, LinksAreDrawn
    <3> QED
      BY <1>1, <2>1, <3>1 DEF AccountInv, LinkInv, UnwrittenUnsent
  <2> QED
    BY <2>1 DEF UnwrittenUnsent
<1>10. MailedOwn' /\ VerifyingOwn' /\ E!VerifiedByOwnLink'
  BY <1>1, <1>2 DEF AccountInv, LinkInv, MailedOwn, VerifyingOwn, E!VerifiedByOwnLink, AddressOf
<1>11. OnItsWay'
  <2>1. pc[r] \notin Sending /\ silent \subseteq silent'
    BY DEF Sending
  <2> QED
    BY <2>1, SendingRests DEF AccountInv
<1> QED
  BY <1>4, <1>5, <1>6, <1>7, <1>8, <1>9, <1>10, <1>11 DEF AccountInv, LinkInv

LEMMA ResendBegins ==
  ASSUME AccountInv, NEW r \in Requests, NEW u \in E!Known, E!BeginResend(r, u) PROVE AccountInv'
<1> DEFINE l == generated + 1
           w == [E!NoWork EXCEPT !.id = u, !.email = users[u].email, !.link = l]
<1>0. E!TypeOK
  BY DEF AccountInv
<1>1. /\ pc[r] = "idle" /\ generated < allowed.links /\ generated' = l /\ E!Goto(r, "resend", w)
      /\ UNCHANGED <<allowed, clock, users, mailed, texted, edits, aborts, proved, vouched,
                     silent>>
  BY DEF E!BeginResend, E!sent, E!counters, E!history
<1>2. l \in Nat /\ u \in Nat /\ users[u].email \in Emails
  BY <1>0, AccountTyped, RowFields DEF AccountCounts
<1>3. /\ w \in E!Local /\ w.id = u /\ w.email = users[u].email /\ w.link = l
      /\ "resend" \in E!Steps \ {"idle"}
  BY <1>2, NoWorkType DEF E!Local, E!Steps
<1> HIDE DEF w, l
<1>4. Placed(r, "resend", w)
  BY <1>0, <1>1, <1>3, AccountGoto
<1>5. l = generated + 1
  BY DEF l
<1> QED
  BY <1>1, <1>2, <1>3, <1>4, <1>5, ResendDraws

\* The link that will be mailed is written before.
LEMMA WritesLink == ASSUME AccountInv, NEW r \in Requests, E!WriteLink(r) PROVE AccountInv'
<1> DEFINE u == locals[r].id
           l == locals[r].link
           k == [users[u] EXCEPT !.emailLink = l, !.emailExpires = clock + LINK_EXPIRES]
<1>0. E!TypeOK
  BY DEF AccountInv
<1>1. /\ pc[r] = "resend" /\ E!Goto(r, "resend:mail", locals[r])
      /\ UNCHANGED <<allowed, clock, generated, mailed, texted, edits, aborts, proved, vouched,
                     silent>>
  BY DEF E!WriteLink, E!sent, E!counters, E!history
<1>2. /\ locals[r] \in E!Local /\ l \in Nat /\ u \in E!Known /\ users[u] \in E!UserRow
      /\ clock + LINK_EXPIRES \in Nat /\ locals[r].email \in Emails
      /\ "resend:mail" \in E!Steps \ {"idle"}
  <2>1. locals[r] \in E!Local /\ "resend:mail" \in E!Steps \ {"idle"}
    BY <1>0, <1>1, AccountBusy DEF E!Steps
  <2>2. Filled("resend", locals[r], Len(users))
    BY <1>1 DEF AccountInv, AllFilled
  <2>3. u \in E!Known /\ users[u] \in E!UserRow /\ locals[r].email \in Emails
    BY <1>0, <2>2, AccountTyped DEF Filled
  <2>4. clock \in Nat
    BY <1>0, AccountTyped DEF AccountCounts
  <2> QED
    BY <2>1, <2>3, <2>4, LocalFields, AccountBounds
<1>3. /\ k \in E!UserRow /\ k.emailLink = l /\ k.email = users[u].email
      /\ k.emailVerified = users[u].emailVerified /\ k.phoneCode = users[u].phoneCode
  BY <1>2 DEF E!UserRow
<1>4. users' = [users EXCEPT ![u] = k]
  BY <1>2 DEF E!WriteLink
<1> HIDE DEF k
<1>5. /\ users' \in Seq(E!UserRow) /\ Len(users') = Len(users) /\ E!Known' = E!Known
      /\ users'[u] = k /\ \A v \in E!Known : v # u => users'[v] = users[v]
  BY <1>0, <1>2, <1>3, <1>4, Rewritten
<1>6. Placed(r, "resend:mail", locals[r])
  BY <1>0, <1>1, <1>2, AccountGoto
<1>7. /\ pc'[r] = "resend:mail" /\ locals'[r] = locals[r]
      /\ \A q \in Requests \ {r} : pc'[q] = pc[q] /\ locals'[q] = locals[q]
  BY <1>6 DEF Placed
<1>l. \A q \in Requests : locals'[q] = locals[q]
  BY <1>7
<1>s. \A v \in E!Known : /\ users'[v].email = users[v].email
                         /\ users'[v].emailVerified = users[v].emailVerified
                         /\ users'[v].phoneCode = users[v].phoneCode
                         /\ v # u => users'[v].emailLink = users[v].emailLink
  BY <1>3, <1>5
<1>8. AccountCounts' /\ AccountSent'
  BY <1>0, <1>1, AccountTyped DEF AccountCounts, AccountSent
<1>9. E!TypeOK' /\ AllFilled'
  <2>1. Filled("resend:mail", locals[r], Len(users'))
    BY <1>0, <1>2, <1>5, AccountTyped DEF Filled
  <2>2. Len(users') <= MaxUsers /\ Len(users) <= Len(users')
    BY <1>0, <1>5, AccountTyped
  <2> QED
    BY <1>0, <1>5, <1>6, <1>8, <2>1, <2>2, AccountShape DEF AccountInv
<1>c. \A q \in Requests : pc'[q] \in Carrying => pc[q] \in Carrying
  BY <1>1, <1>7 DEF Carrying
<1>i. \A q \in Requests : pc[q] \in Carrying \cup {"verify"} => locals[q].id \in E!Known
  BY <1>0, AccountTyped DEF AccountInv, AllFilled, Filled, Carrying
<1>r. pc[r] \in Carrying
  BY <1>1 DEF Carrying
<1>10. CarriedIsHis'
  BY <1>1, <1>l, <1>s, <1>c, <1>i DEF AccountInv, LinkInv, CarriedIsHis, AddressOf
<1>11. LinksAreDrawn'
  BY <1>1, <1>3, <1>5, <1>r DEF AccountInv, LinkInv, LinksAreDrawn, CarriedIsHis
<1>12. CarriedApart'
  BY <1>l, <1>c DEF AccountInv, LinkInv, CarriedApart
<1>13. CarriedOwn'
  <2>1. ASSUME NEW q \in Requests, NEW v \in E!Known, pc'[q] \in Carrying,
               users'[v].emailLink = locals[q].link
        PROVE  v = locals[q].id
    <3>1. CASE v # u
      BY <1>c, <1>s, <2>1, <3>1 DEF AccountInv, LinkInv, CarriedOwn
    <3>2. CASE v = u /\ q # r
      BY <1>3, <1>5, <1>c, <1>r, <2>1, <3>2 DEF AccountInv, LinkInv, CarriedApart
    <3>3. CASE v = u /\ q = r
      BY <3>3
    <3> QED
      BY <3>1, <3>2, <3>3
  <2> QED
    BY <1>5, <1>l, <2>1 DEF CarriedOwn
<1>14. UnwrittenUnsent'
  BY <1>1, <1>7 DEF AccountInv, LinkInv, UnwrittenUnsent
<1>15. MailedOwn'
  <2>1. ASSUME NEW m \in mailed, NEW v \in E!Known, users'[v].emailLink = m.link
        PROVE  AddressOf(v, m.to)
    <3>1. v # u
      BY <1>1, <1>3, <1>5, <2>1 DEF AccountInv, LinkInv, UnwrittenUnsent
    <3> QED
      BY <1>s, <2>1, <3>1 DEF AccountInv, LinkInv, MailedOwn
  <2> QED
    BY <1>1, <1>5, <1>s, <2>1 DEF MailedOwn, AddressOf
<1>16. VerifyingOwn'
  BY <1>1, <1>7, <1>s, <1>i DEF AccountInv, LinkInv, VerifyingOwn, AddressOf
<1>17. E!VerifiedByOwnLink'
  BY <1>1, <1>5, <1>s DEF AccountInv, LinkInv, E!VerifiedByOwnLink
<1>18. OnItsWay'
  <2>1. ASSUME NEW v \in E!Known, NEW i, LinkOnItsWay(v, i) PROVE LinkOnItsWay(v, i)'
    BY <1>1, <1>7, <2>1 DEF LinkOnItsWay
  <2>2. ASSUME NEW v \in E!Known, NEW c, CodeOnItsWay(v, c) PROVE CodeOnItsWay(v, c)'
    BY <1>1, <1>7, <2>2 DEF CodeOnItsWay
  <2>3. ASSUME NEW i, i = l PROVE LinkOnItsWay(u, i)' /\ u = locals'[r].id
    BY <1>7, <2>3 DEF LinkOnItsWay
  <2>4. ASSUME NEW v \in E!Known \ silent
        PROVE  /\ users'[v].emailLink # Nil => LinkOnItsWay(v, users[v].emailLink)'
               /\ users'[v].phoneCode # Nil => CodeOnItsWay(v, users[v].phoneCode)'
    <3>1. users'[v].phoneCode # Nil => CodeOnItsWay(v, users'[v].phoneCode)
      BY <1>s DEF AccountInv, OnItsWay
    <3>2. \A c : CodeOnItsWay(v, c) => CodeOnItsWay(v, c)'
      BY <2>2
    <3>3. CASE v # u
      <4>1. users'[v].emailLink # Nil => LinkOnItsWay(v, users'[v].emailLink)
        BY <1>s, <3>3 DEF AccountInv, OnItsWay
      <4>2. \A i : LinkOnItsWay(v, i) => LinkOnItsWay(v, i)'
        BY <2>1
      <4> QED
        BY <3>1, <3>2, <4>1, <4>2
    <3>4. CASE v = u
      <4>1. users'[v].emailLink = locals'[r].link /\ locals'[r].id = v
        BY <1>3, <1>5, <1>7, <3>4
      <4>2. LinkOnItsWay(v, users[v].emailLink)'
        BY <1>7, <4>1 DEF LinkOnItsWay
      <4> QED
        BY <3>1, <3>2, <4>2
    <3> QED
      BY <3>3, <3>4
  <2> QED
    BY <1>1, <1>5, <2>4 DEF OnItsWay
<1> QED
  BY <1>9, <1>10, <1>11, <1>12, <1>13, <1>14, <1>15, <1>16, <1>17, <1>18 DEF AccountInv, LinkInv

\* A row rewritten in parts that are neither the address, the link nor its flag,
\* a step later.
LEMMA RowTouched ==
  ASSUME AccountInv, NEW r \in Requests, NEW u \in E!Known, NEW k \in E!UserRow,
         users' = [users EXCEPT ![u] = k], k.email = users[u].email,
         k.emailLink = users[u].emailLink, k.emailVerified = users[u].emailVerified,
         NEW step \in {"recode:sms", "idle"}, NEW w, Placed(r, step, w),
         step = "recode:sms" => w = locals[r] /\ w.id \in E!Known /\ w.phone \in Phones,
         pc[r] \notin Sending,
         k.phoneCode # Nil => step = "recode:sms" /\ w.id = u /\ w.code = k.phoneCode,
         UNCHANGED <<allowed, clock, generated, mailed, texted, edits, aborts, proved, vouched,
                     silent>>
  PROVE  AccountInv'
<1>0. E!TypeOK
  BY DEF AccountInv
<1>1. /\ users' \in Seq(E!UserRow) /\ Len(users') = Len(users) /\ E!Known' = E!Known
      /\ users'[u] = k /\ \A v \in E!Known : v # u => users'[v] = users[v]
  BY <1>0, Rewritten
<1>2. /\ pc'[r] = step /\ locals'[r] = w
      /\ \A q \in Requests \ {r} : pc'[q] = pc[q] /\ locals'[q] = locals[q]
  BY DEF Placed
<1>3. AccountCounts' /\ AccountSent' /\ generated' \in Nat /\ generated <= generated'
  BY <1>0, AccountTyped DEF AccountCounts, AccountSent
<1>4. Filled(step, w, Len(users')) /\ step \notin Carrying /\ step # "verify"
  BY <1>0, <1>1, AccountTyped DEF Filled, Carrying
<1>5. Len(users') <= MaxUsers /\ Len(users) <= Len(users')
  BY <1>0, <1>1, AccountTyped
<1>6. E!TypeOK' /\ AllFilled'
  BY <1>0, <1>1, <1>3, <1>4, <1>5, AccountShape DEF AccountInv
<1>7. \A v \in E!Known : /\ users'[v].email = users[v].email
                         /\ users'[v].emailLink = users[v].emailLink
                         /\ users'[v].emailVerified = users[v].emailVerified
  BY <1>1
<1>8. LinkInv'
  BY <1>0, <1>1, <1>3, <1>4, <1>7, LinksRest DEF AccountInv
<1>9. OnItsWay'
  <2>1. ASSUME NEW v \in E!Known, NEW i, LinkOnItsWay(v, i) PROVE LinkOnItsWay(v, i)'
    BY <1>2, <2>1 DEF LinkOnItsWay, Sending
  <2>2. ASSUME NEW v \in E!Known, NEW c, CodeOnItsWay(v, c) PROVE CodeOnItsWay(v, c)'
    BY <1>2, <2>2 DEF CodeOnItsWay, Sending
  <2>3. ASSUME NEW v \in E!Known \ silent
        PROVE  /\ users'[v].emailLink # Nil => LinkOnItsWay(v, users[v].emailLink)'
               /\ users'[v].phoneCode # Nil => CodeOnItsWay(v, users[v].phoneCode)'
    <3>1. users'[v].emailLink # Nil => LinkOnItsWay(v, users'[v].emailLink)
      BY <1>7 DEF AccountInv, OnItsWay
    <3>2. \A i : LinkOnItsWay(v, i) => LinkOnItsWay(v, i)'
      BY <2>1
    <3>3. CASE v # u
      <4>1. users'[v].phoneCode # Nil => CodeOnItsWay(v, users'[v].phoneCode)
        BY <1>1, <3>3 DEF AccountInv, OnItsWay
      <4>2. \A c : CodeOnItsWay(v, c) => CodeOnItsWay(v, c)'
        BY <2>2
      <4> QED
        BY <3>1, <3>2, <4>1, <4>2
    <3>4. CASE v = u
      <4>1. users'[v].phoneCode # Nil => CodeOnItsWay(v, users[v].phoneCode)'
        BY <1>1, <1>2, <3>4 DEF CodeOnItsWay
      <4> QED
        BY <3>1, <3>2, <4>1
    <3> QED
      BY <3>3, <3>4
  <2> QED
    BY <1>1, <2>3 DEF OnItsWay
<1> QED
  BY <1>6, <1>8, <1>9 DEF AccountInv

LEMMA WritesCode == ASSUME AccountInv, NEW r \in Requests, E!WriteCode(r) PROVE AccountInv'
<1> DEFINE u == locals[r].id
           k == [users[u] EXCEPT !.phoneCode = locals[r].code,
                                 !.phoneExpires = clock + CODE_EXPIRES]
<1>0. E!TypeOK
  BY DEF AccountInv
<1>1. /\ pc[r] = "recode" /\ E!Goto(r, "recode:sms", locals[r]) /\ pc[r] \notin Sending
      /\ UNCHANGED <<allowed, clock, generated, mailed, texted, edits, aborts, proved, vouched,
                     silent>>
  BY DEF E!WriteCode, E!sent, E!counters, E!history, Sending
<1>2. locals[r] \in E!Local /\ "recode:sms" \in E!Steps \ {"idle"}
  BY <1>0, <1>1, AccountBusy DEF E!Steps
<1>3. Filled("recode", locals[r], Len(users))
  BY <1>1 DEF AccountInv, AllFilled
<1>4. u \in E!Known /\ users[u] \in E!UserRow /\ locals[r].phone \in Phones
  BY <1>0, <1>3, AccountTyped DEF Filled
<1>5. clock + CODE_EXPIRES \in Nat
  BY <1>0, AccountTyped, AccountBounds DEF AccountCounts
<1>6. /\ k \in E!UserRow /\ k.emailLink = users[u].emailLink /\ k.email = users[u].email
      /\ k.emailVerified = users[u].emailVerified /\ k.phoneCode = locals[r].code
  BY <1>2, <1>4, <1>5, LocalFields DEF E!UserRow
<1>7. users' = [users EXCEPT ![u] = k]
  BY <1>4 DEF E!WriteCode
<1> HIDE DEF k
<1>8. Placed(r, "recode:sms", locals[r])
  BY <1>0, <1>1, <1>2, AccountGoto
<1> QED
  BY <1>1, <1>4, <1>6, <1>7, <1>8, RowTouched

LEMMA VerifiesPhone == ASSUME AccountInv, NEW r \in Requests, E!VerifyPhone(r) PROVE AccountInv'
<1> DEFINE u == locals[r].id
           k == [users[u] EXCEPT !.phoneVerified = TRUE, !.phoneCode = Nil, !.phoneExpires = Nil]
<1>0. E!TypeOK
  BY DEF AccountInv
<1>1. /\ pc[r] = "verify:phone" /\ E!Finish(r) /\ pc[r] \notin Sending
      /\ UNCHANGED <<allowed, clock, generated, mailed, texted, edits, aborts, proved, vouched,
                     silent>>
  BY DEF E!VerifyPhone, E!sent, E!counters, E!history, Sending
<1>2. Filled("verify:phone", locals[r], Len(users))
  BY <1>1 DEF AccountInv, AllFilled
<1>3. u \in E!Known /\ users[u] \in E!UserRow
  BY <1>0, <1>2, AccountTyped DEF Filled
<1>4. /\ k \in E!UserRow /\ k.emailLink = users[u].emailLink /\ k.email = users[u].email
      /\ k.emailVerified = users[u].emailVerified /\ k.phoneCode = Nil
  BY <1>3 DEF E!UserRow
<1>5. users' = [users EXCEPT ![u] = k]
  BY <1>3 DEF E!VerifyPhone
<1> HIDE DEF k
<1>6. Placed(r, "idle", Nil)
  BY <1>0, <1>1, AccountEnd
<1>7. \A step \in {"recode:sms", "idle"} : \A w :
        /\ Placed(r, step, w)
        /\ step = "recode:sms" => w = locals[r] /\ w.id \in E!Known /\ w.phone \in Phones
        => AccountInv'
  BY <1>1, <1>3, <1>4, <1>5, RowTouched
<1> QED
  BY <1>6, <1>7

----------------------------------------------------------------------------
\* An address is verified, or a row is edited: a link goes, or the user is
\* vouched for.
LEMMA RowJudged ==
  ASSUME AccountInv, NEW r \in Requests, pc[r] \notin Carrying \cup Sending, Placed(r, "idle", Nil),
         NEW u \in E!Known, NEW k \in E!UserRow, users' = [users EXCEPT ![u] = k],
         k.emailLink \in {users[u].emailLink, Nil}, k.phoneCode = users[u].phoneCode,
         AccountSent', vouched \subseteq vouched',
         \A v \in E!Known : proved[v] \subseteq proved'[v],
         k.email # users[u].email => u \in vouched',
         k.emailVerified => k.email \in proved'[u] \/ u \in vouched',
         UNCHANGED <<allowed, clock, generated, mailed, texted, edits, aborts, silent>>
  PROVE  AccountInv'
<1>0. E!TypeOK
  BY DEF AccountInv
<1>1. /\ users' \in Seq(E!UserRow) /\ Len(users') = Len(users) /\ E!Known' = E!Known
      /\ users'[u] = k /\ \A v \in E!Known : v # u => users'[v] = users[v]
  BY <1>0, Rewritten
<1>2. /\ pc'[r] = "idle" /\ "idle" \notin Carrying
      /\ \A q \in Requests \ {r} : pc'[q] = pc[q] /\ locals'[q] = locals[q]
  BY DEF Placed, Carrying
<1>3. AccountCounts'
  BY <1>0, AccountTyped DEF AccountCounts
<1>5. Len(users') <= MaxUsers /\ Len(users) <= Len(users') /\ Filled("idle", Nil, Len(users'))
  BY <1>0, <1>1, AccountTyped DEF Filled
<1>6. E!TypeOK' /\ AllFilled'
  BY <1>0, <1>1, <1>3, <1>5, AccountShape DEF AccountInv
<1>7. \A v \in E!Known : \A e : AddressOf(v, e) => e = users'[v].email \/ v \in vouched'
  BY <1>1 DEF AddressOf
<1>8. \A v \in E!Known : \A i : users'[v].emailLink = i /\ i # Nil => users[v].emailLink = i
  BY <1>1
<1>9. \A q \in Requests : pc[q] \in Carrying \cup {"verify"} => locals[q].id \in E!Known
  BY <1>0, AccountTyped DEF AccountInv, AllFilled, Filled, Carrying
<1>n. \A i \in 1..generated : i # Nil
  BY <1>0, AccountTyped, AccountBounds DEF AccountCounts
<1>10. CarriedIsHis'
  BY <1>2, <1>7, <1>9 DEF AccountInv, LinkInv, CarriedIsHis, AddressOf
<1>11. LinksAreDrawn'
  BY <1>1, <1>8 DEF AccountInv, LinkInv, LinksAreDrawn
<1>12. CarriedApart' /\ UnwrittenUnsent'
  BY <1>2 DEF AccountInv, LinkInv, CarriedApart, UnwrittenUnsent
<1>13. CarriedOwn'
  <2>1. ASSUME NEW q \in Requests, NEW v \in E!Known, pc'[q] \in Carrying,
               users'[v].emailLink = locals'[q].link
        PROVE  v = locals'[q].id
    <3>1. q # r /\ pc[q] \in Carrying /\ locals'[q] = locals[q]
      BY <1>2, <2>1
    <3>2. locals[q].link # Nil
      BY <1>n, <3>1 DEF AccountInv, LinkInv, CarriedIsHis
    <3> QED
      BY <1>8, <2>1, <3>1, <3>2 DEF AccountInv, LinkInv, CarriedOwn
  <2> QED
    BY <1>1, <2>1 DEF CarriedOwn
<1>14. MailedOwn'
  <2>1. ASSUME NEW m \in mailed, NEW v \in E!Known, users'[v].emailLink = m.link
        PROVE  m.to = users'[v].email \/ v \in vouched'
    <3>1. m.link # Nil
      BY <1>n DEF AccountInv, LinkInv, LinksAreDrawn
    <3>2. AddressOf(v, m.to)
      BY <1>8, <2>1, <3>1 DEF AccountInv, LinkInv, MailedOwn
    <3> QED
      BY <1>7, <3>2
  <2> QED
    BY <1>1, <2>1 DEF MailedOwn, AddressOf
<1>15. VerifyingOwn'
  BY <1>2, <1>7, <1>9 DEF AccountInv, LinkInv, VerifyingOwn, AddressOf
<1>16. E!VerifiedByOwnLink'
  BY <1>1 DEF AccountInv, LinkInv, E!VerifiedByOwnLink
<1>17. OnItsWay'
  <2>1. ASSUME NEW v \in E!Known, NEW i, LinkOnItsWay(v, i) PROVE LinkOnItsWay(v, i)'
    BY <1>2, <2>1 DEF LinkOnItsWay, Carrying, Sending
  <2>2. ASSUME NEW v \in E!Known, NEW c, CodeOnItsWay(v, c) PROVE CodeOnItsWay(v, c)'
    BY <1>2, <2>2 DEF CodeOnItsWay, Carrying, Sending
  <2>3. ASSUME NEW v \in E!Known \ silent
        PROVE  /\ users'[v].emailLink # Nil => LinkOnItsWay(v, users[v].emailLink)'
               /\ users'[v].phoneCode # Nil => CodeOnItsWay(v, users[v].phoneCode)'
    <3>1. /\ users'[v].emailLink # Nil => LinkOnItsWay(v, users'[v].emailLink)
          /\ users'[v].phoneCode # Nil => CodeOnItsWay(v, users'[v].phoneCode)
      BY <1>1 DEF AccountInv, OnItsWay
    <3>2. \A i : LinkOnItsWay(v, i) => LinkOnItsWay(v, i)'
      BY <2>1
    <3>3. \A c : CodeOnItsWay(v, c) => CodeOnItsWay(v, c)'
      BY <2>2
    <3> QED
      BY <3>1, <3>2, <3>3
  <2> QED
    BY <1>1, <2>3 DEF OnItsWay
<1> QED
  BY <1>6, <1>10, <1>11, <1>12, <1>13, <1>14, <1>15, <1>16, <1>17 DEF AccountInv, LinkInv

LEMMA VerifiesEmail == ASSUME AccountInv, NEW r \in Requests, E!VerifyEmail(r) PROVE AccountInv'
<1> DEFINE u == locals[r].id
           k == [users[u] EXCEPT !.emailVerified = TRUE, !.emailLink = Nil, !.emailExpires = Nil]
<1>0. E!TypeOK
  BY DEF AccountInv
<1>1. /\ pc[r] = "verify" /\ E!Finish(r) /\ pc[r] \notin Carrying \cup Sending
      /\ proved' = [proved EXCEPT ![u] = proved[u] \cup {locals[r].email}]
      /\ UNCHANGED <<allowed, clock, generated, mailed, texted, edits, aborts, vouched, silent>>
  BY DEF E!VerifyEmail, E!sent, E!counters, Sending, Carrying
<1>2. Filled("verify", locals[r], Len(users)) /\ AddressOf(u, locals[r].email)
  BY <1>1 DEF AccountInv, AllFilled, LinkInv, VerifyingOwn
<1>3. u \in E!Known /\ u \in E!Ids /\ users[u] \in E!UserRow /\ locals[r].email \in Emails
  BY <1>0, <1>2, AccountTyped DEF Filled
<1>4. /\ k \in E!UserRow /\ k.emailLink = Nil /\ k.email = users[u].email
      /\ k.phoneCode = users[u].phoneCode
  BY <1>3 DEF E!UserRow
<1>5. users' = [users EXCEPT ![u] = k]
  BY <1>3 DEF E!VerifyEmail
<1> HIDE DEF k
<1>6. proved \in [E!Ids -> SUBSET Emails] /\ E!Known \subseteq E!Ids
  BY <1>0, AccountTyped DEF AccountSent
<1>7. /\ proved' \in [E!Ids -> SUBSET Emails] /\ locals[r].email \in proved'[u]
      /\ \A v \in E!Known : proved[v] \subseteq proved'[v]
  BY <1>1, <1>3, <1>6
<1>8. AccountSent' /\ vouched \subseteq vouched'
  BY <1>0, <1>1, <1>7, AccountTyped DEF AccountSent, E!Ids
<1>9. k.email \in proved'[u] \/ u \in vouched'
  BY <1>1, <1>2, <1>4, <1>7 DEF AddressOf
<1>10. Placed(r, "idle", Nil)
  BY <1>0, <1>1, AccountEnd
<1> QED
  BY <1>1, <1>3, <1>4, <1>5, <1>7, <1>8, <1>9, <1>10, RowJudged

LEMMA EditsUser == ASSUME AccountInv, NEW r \in Requests, E!EditUser(r) PROVE AccountInv'
<1> DEFINE u == locals[r].id
           k == [users[u] EXCEPT !.email = locals[r].form.email,
                                 !.username = locals[r].form.username,
                                 !.emailVerified = locals[r].flag]
<1>0. E!TypeOK
  BY DEF AccountInv
<1>1. /\ pc[r] = "edit" /\ E!Finish(r) /\ pc[r] \notin Carrying \cup Sending
      /\ \/ users' = [users EXCEPT ![u] = k] /\ vouched' = vouched \cup {u}
         \/ UNCHANGED <<users, vouched>>
      /\ UNCHANGED <<allowed, clock, generated, mailed, texted, edits, aborts, proved, silent>>
  BY DEF E!EditUser, E!sent, E!counters, Sending, Carrying
<1>2. locals[r] \in E!Local /\ Filled("edit", locals[r], Len(users))
  BY <1>0, <1>1, AccountBusy DEF AccountInv, AllFilled
<1>3. u \in E!Known /\ u \in E!Ids /\ users[u] \in E!UserRow /\ locals[r].form \in E!Form
        /\ locals[r].flag \in BOOLEAN
  BY <1>0, <1>2, AccountTyped, LocalFields DEF Filled
<1>f. locals[r].form.email \in Emails /\ locals[r].form.username \in Usernames
  BY <1>3 DEF E!Form
<1>4. k \in E!UserRow /\ k.emailLink = users[u].emailLink /\ k.phoneCode = users[u].phoneCode
  BY <1>3, <1>f DEF E!UserRow
<1> HIDE DEF k
<1>5. Placed(r, "idle", Nil)
  BY <1>0, <1>1, AccountEnd
<1>6. CASE users' = [users EXCEPT ![u] = k] /\ vouched' = vouched \cup {u}
  <2>1. AccountSent' /\ vouched \subseteq vouched' /\ u \in vouched'
          /\ \A v \in E!Known : proved[v] \subseteq proved'[v]
    BY <1>0, <1>1, <1>3, <1>6, AccountTyped DEF AccountSent, E!Ids
  <2> QED
    BY <1>1, <1>3, <1>4, <1>5, <1>6, <2>1, RowJudged
<1>7. CASE UNCHANGED <<users, vouched>>
  <2>1. AccountCounts' /\ generated <= generated' /\ silent \subseteq silent'
          /\ silent' \subseteq E!Ids
    BY <1>0, <1>1, AccountTyped DEF AccountCounts, AccountSent
  <2>2. Filled("idle", Nil, Len(users)) /\ "idle" \notin Carrying
    BY DEF Filled, Carrying
  <2> QED
    BY <1>1, <1>5, <1>7, <2>1, <2>2, AccountQuiet
<1> QED
  BY <1>1, <1>6, <1>7

----------------------------------------------------------------------------
\* The requests that only read, or draw a code.
LEMMA AccountReads ==
  ASSUME AccountInv, NEW r \in Requests, pc[r] \notin Sending, AccountCounts',
         generated <= generated',
         UNCHANGED <<users, mailed, texted, proved, vouched, silent>>
  PROVE  /\ E!Finish(r) => AccountInv'
         /\ \A step \in E!Steps \ {"idle"}, w \in E!Local :
              /\ step \notin Carrying /\ Filled(step, w, Len(users)) /\ E!Goto(r, step, w)
              /\ step = "verify" => AddressOf(w.id, w.email)
              => AccountInv'
<1>1. E!TypeOK /\ silent \subseteq silent' /\ silent' \subseteq E!Ids
  BY AccountTyped DEF AccountInv, AccountSent
<1>2. Filled("idle", Nil, Len(users)) /\ "idle" \notin Carrying
  BY DEF Filled, Carrying
<1>3. E!Finish(r) => AccountInv'
  BY <1>1, <1>2, AccountEnd, AccountQuiet
<1>4. ASSUME NEW step \in E!Steps \ {"idle"}, NEW w \in E!Local, step \notin Carrying,
             Filled(step, w, Len(users)), E!Goto(r, step, w),
             step = "verify" => AddressOf(w.id, w.email)
      PROVE  AccountInv'
  <2>1. Placed(r, step, w)
    BY <1>1, <1>4, AccountGoto
  <2> QED
    BY <1>1, <1>4, <2>1, AccountQuiet
<1> QED
  BY <1>3, <1>4

LEMMA VerifyBegins ==
  ASSUME AccountInv, NEW r \in Requests, NEW m \in mailed, E!BeginVerify(r, m) PROVE AccountInv'
<1>0. E!TypeOK
  BY DEF AccountInv
<1>1. PICK u \in E!Known :
        /\ users[u].emailLink = m.link
        /\ E!Goto(r, "verify", [E!NoWork EXCEPT !.id = u, !.email = m.to])
  BY DEF E!BeginVerify
<1> DEFINE w == [E!NoWork EXCEPT !.id = u, !.email = m.to]
<1>2. /\ pc[r] \notin Sending /\ AccountCounts' /\ generated <= generated'
      /\ UNCHANGED <<users, mailed, texted, proved, vouched, silent>>
  BY <1>0, AccountTyped DEF E!BeginVerify, E!sent, E!counters, E!history, Sending, AccountCounts
<1>3. m.to \in Emails /\ u \in Nat /\ u \in 1..Len(users)
  BY <1>0, AccountTyped DEF AccountSent
<1>4. w \in E!Local /\ w.id = u /\ w.email = m.to
  BY <1>3, NoWorkType DEF E!Local
<1>5. "verify" \in E!Steps \ {"idle"} /\ "verify" \notin Carrying
  BY DEF E!Steps, Carrying
<1>6. AddressOf(u, m.to)
  BY <1>1 DEF AccountInv, LinkInv, MailedOwn
<1>g. E!Goto(r, "verify", w)
  BY <1>1
<1> HIDE DEF w
<1>7. Filled("verify", w, Len(users)) /\ AddressOf(w.id, w.email)
  BY <1>3, <1>4, <1>6 DEF Filled
<1> QED
  BY <1>2, <1>4, <1>5, <1>7, <1>g, AccountReads

LEMMA RecodeBegins ==
  ASSUME AccountInv, NEW r \in Requests, NEW u \in E!Known, E!BeginRecode(r, u) PROVE AccountInv'
<1> DEFINE w == [E!NoWork EXCEPT !.id = u, !.phone = users[u].phone, !.code = generated + 1]
<1>0. E!TypeOK
  BY DEF AccountInv
<1>1. /\ pc[r] \notin Sending /\ E!Goto(r, "recode", w) /\ generated' = generated + 1
      /\ generated < allowed.links
      /\ UNCHANGED <<allowed, clock, edits, aborts, users, mailed, texted, proved, vouched, silent>>
  BY DEF E!BeginRecode, E!sent, E!counters, E!history, Sending
<1>2. allowed \in [links : Nat, edits : Nat, mishaps : Nat]
  BY <1>0, AccountTyped, AccountBounds DEF AccountCounts
<1>3. AccountCounts' /\ generated <= generated' /\ generated + 1 \in Nat
  BY <1>0, <1>1, <1>2, AccountTyped DEF AccountCounts
<1>4. users[u].phone \in Phones /\ u \in Nat /\ u \in 1..Len(users)
  BY <1>0, AccountTyped, RowFields
<1>5. w \in E!Local /\ w.id = u /\ w.phone = users[u].phone
  BY <1>3, <1>4, NoWorkType DEF E!Local
<1>6. "recode" \in E!Steps \ {"idle"} /\ "recode" \notin Carrying
  BY DEF E!Steps, Carrying
<1> HIDE DEF w
<1>7. Filled("recode", w, Len(users))
  BY <1>4, <1>5 DEF Filled
<1> QED
  BY <1>1, <1>3, <1>5, <1>6, <1>7, AccountReads

LEMMA VerifyPhoneBegins ==
  ASSUME AccountInv, NEW r \in Requests, NEW u \in E!Known, E!BeginVerifyPhone(r, u)
  PROVE  AccountInv'
<1> DEFINE w == [E!NoWork EXCEPT !.id = u]
<1>0. E!TypeOK
  BY DEF AccountInv
<1>1. /\ pc[r] \notin Sending /\ E!Goto(r, "verify:phone", w) /\ AccountCounts'
      /\ generated <= generated' /\ UNCHANGED <<users, mailed, texted, proved, vouched, silent>>
  BY <1>0, AccountTyped DEF E!BeginVerifyPhone, E!sent, E!counters, E!history, Sending,
     AccountCounts
<1>2. u \in Nat /\ u \in 1..Len(users)
  BY <1>0, AccountTyped
<1>3. w \in E!Local /\ w.id = u
  BY <1>2, NoWorkType DEF E!Local
<1>4. "verify:phone" \in E!Steps \ {"idle"} /\ "verify:phone" \notin Carrying
  BY DEF E!Steps, Carrying
<1> HIDE DEF w
<1>5. Filled("verify:phone", w, Len(users))
  BY <1>2, <1>3 DEF Filled
<1> QED
  BY <1>1, <1>3, <1>4, <1>5, AccountReads

LEMMA EditBegins ==
  ASSUME AccountInv, NEW r \in Requests, NEW u \in E!Known, NEW email \in Emails,
         NEW name \in Usernames, NEW flag \in BOOLEAN, E!BeginEdit(r, u, email, name, flag)
  PROVE  AccountInv'
<1> DEFINE form == [email |-> email, username |-> name, phone |-> users[u].phone]
           w == [E!NoWork EXCEPT !.id = u, !.email = email, !.flag = flag, !.form = form]
           step == IF name # users[u].username THEN "edit:username" ELSE "edit"
<1>0. E!TypeOK
  BY DEF AccountInv
<1>1. /\ pc[r] \notin Sending /\ E!Goto(r, step, w) /\ edits < allowed.edits /\ edits' = edits + 1
      /\ UNCHANGED <<allowed, clock, generated, aborts, users, mailed, texted, proved, vouched,
                     silent>>
  BY DEF E!BeginEdit, E!sent, E!history, Sending
<1>2. allowed \in [links : Nat, edits : Nat, mishaps : Nat]
  BY <1>0, AccountTyped, AccountBounds DEF AccountCounts
<1>3. AccountCounts' /\ generated <= generated'
  BY <1>0, <1>1, <1>2, AccountTyped DEF AccountCounts
<1>4. u \in Nat /\ u \in 1..Len(users) /\ form \in E!Form
  BY <1>0, AccountTyped, RowFields DEF E!Form
<1> HIDE DEF form
<1>5. w \in E!Local /\ w.id = u /\ w.form = form
  BY <1>4, NoWorkType DEF E!Local
<1>6. step \in {"edit:username", "edit"}
  OBVIOUS
<1> HIDE DEF w, step
<1>7. Filled(step, w, Len(users)) /\ step \in E!Steps \ {"idle"} /\ step \notin Carrying
        /\ step # "verify"
  BY <1>4, <1>5, <1>6 DEF Filled, E!Steps, Carrying
<1> QED
  BY <1>1, <1>3, <1>5, <1>7, AccountReads

LEMMA EditReads == ASSUME AccountInv, NEW r \in Requests, E!CheckNewUsername(r) PROVE AccountInv'
<1>0. E!TypeOK
  BY DEF AccountInv
<1>1. /\ pc[r] = "edit:username" /\ pc[r] \notin Sending /\ AccountCounts'
      /\ generated <= generated' /\ UNCHANGED <<users, mailed, texted, proved, vouched, silent>>
      /\ E!Finish(r) \/ E!Goto(r, "edit", locals[r])
  BY <1>0, AccountTyped DEF E!CheckNewUsername, E!sent, E!counters, E!history, Sending,
     AccountCounts
<1>2. locals[r] \in E!Local /\ Filled("edit:username", locals[r], Len(users))
  BY <1>0, <1>1, AccountBusy DEF AccountInv, AllFilled
<1>3. Filled("edit", locals[r], Len(users)) /\ "edit" \in E!Steps \ {"idle"}
        /\ "edit" \notin Carrying
  BY <1>2 DEF Filled, E!Steps, Carrying
<1> QED
  BY <1>1, <1>2, <1>3, AccountReads

\* A request that dies with a message to send leaves its user without it.
LEMMA AccountAborts == ASSUME AccountInv, NEW r \in Requests, E!Abort(r) PROVE AccountInv'
<1>0. E!TypeOK
  BY DEF AccountInv
<1>1. /\ pc[r] # "idle" /\ clock + aborts < allowed.mishaps /\ aborts' = aborts + 1 /\ E!Finish(r)
      /\ silent' = IF pc[r] \in Sending THEN silent \cup {locals[r].id} ELSE silent
      /\ UNCHANGED <<allowed, clock, users, generated, mailed, texted, edits, proved, vouched>>
  BY DEF E!Abort, E!sent, Sending
<1>2. allowed \in [links : Nat, edits : Nat, mishaps : Nat]
  BY <1>0, AccountTyped, AccountBounds DEF AccountCounts
<1>3. AccountCounts' /\ generated <= generated'
  BY <1>0, <1>1, <1>2, AccountTyped DEF AccountCounts
<1>4. pc[r] \in Sending => locals[r].id \in E!Ids
  BY <1>0, AccountTyped DEF AccountInv, AllFilled, Filled, Sending
<1>5. /\ silent \subseteq silent' /\ silent' \subseteq E!Ids
      /\ pc[r] \in Sending => locals[r].id \in silent'
  BY <1>0, <1>1, <1>4, AccountTyped DEF AccountSent
<1>6. Placed(r, "idle", Nil) /\ Filled("idle", Nil, Len(users)) /\ "idle" \notin Carrying
  BY <1>0, <1>1, AccountEnd DEF Filled, Carrying
<1> QED
  BY <1>1, <1>3, <1>5, <1>6, AccountQuiet

LEMMA AccountTicks == ASSUME AccountInv, E!Tick PROVE AccountInv'
<1>1. /\ clock + aborts < allowed.mishaps /\ clock' = clock + 1
      /\ UNCHANGED <<allowed, users, pc, locals, generated, mailed, texted, edits, aborts, proved,
                     vouched, silent>>
  BY DEF E!Tick, E!sent, E!counters, E!history
<1>2. allowed \in [links : Nat, edits : Nat, mishaps : Nat]
  BY AccountTyped, AccountBounds DEF AccountCounts, AccountInv
<1>3. clock' \in 0..allowed'.mishaps
  BY <1>1, <1>2, AccountTyped DEF AccountCounts, AccountInv
<1>4. E!TypeOK'
  BY <1>1, <1>3 DEF AccountInv, E!TypeOK
<1>5. E!Known' = E!Known
  BY <1>1 DEF E!Known
<1>6. AllFilled' /\ OnItsWay'
  BY <1>1, <1>5 DEF AccountInv, AllFilled, OnItsWay, LinkOnItsWay, CodeOnItsWay
<1>7. LinkInv'
  BY <1>1, <1>5 DEF AccountInv, LinkInv, CarriedIsHis, LinksAreDrawn, CarriedApart, CarriedOwn,
     UnwrittenUnsent, MailedOwn, VerifyingOwn, AddressOf, E!VerifiedByOwnLink
<1> QED
  BY <1>4, <1>6, <1>7 DEF AccountInv

LEMMA AccountInit == ASSUME E!Init PROVE AccountInv
<1>1. /\ \A r \in Requests : pc[r] = "idle" /\ locals[r] = Nil
      /\ users = <<>> /\ E!Known = {} /\ generated = 0 /\ mailed = {} /\ texted = {}
  BY DEF E!Init, E!Known
<1>2. allowed \in Allowances /\ allowed \in [links : Nat, edits : Nat, mishaps : Nat]
  BY AccountBounds DEF E!Init
<1>3. AccountCounts
  BY <1>2 DEF E!Init, AccountCounts
<1>4. AccountSent
  BY DEF E!Init, AccountSent
<1>5. users \in Seq(E!UserRow) /\ Len(users) <= MaxUsers
  BY <1>1, AccountBounds
<1>6. pc \in [Requests -> E!Steps] /\ locals \in [Requests -> E!Local \cup {Nil}]
  BY DEF E!Init, E!Steps
<1>7. E!TypeOK
  BY <1>1, <1>3, <1>4, <1>5, <1>6 DEF E!TypeOK, AccountCounts, AccountSent
<1>8. AllFilled /\ OnItsWay
  BY <1>1 DEF AllFilled, Filled, OnItsWay
<1>9. LinkInv
  BY <1>1 DEF LinkInv, CarriedIsHis, LinksAreDrawn, CarriedApart, CarriedOwn, UnwrittenUnsent,
     MailedOwn, VerifyingOwn, E!VerifiedByOwnLink, Carrying
<1> QED
  BY <1>7, <1>8, <1>9 DEF AccountInv

LEMMA AccountStep == ASSUME AccountInv, E!Next \/ UNCHANGED E!vars PROVE AccountInv'
<1>1. ASSUME NEW r \in Requests, E!Register(r) PROVE AccountInv'
  BY <1>1, RegistrationReads, RegistrationCreates, MailsLink, TextsCode DEF E!Register
<1>2. ASSUME NEW r \in Requests, E!Verify(r) PROVE AccountInv'
  BY <1>2, ResendBegins, RecodeBegins, VerifyPhoneBegins, VerifyBegins, WritesLink, VerifiesEmail,
     WritesCode, VerifiesPhone DEF E!Verify
<1>3. ASSUME NEW r \in Requests, E!Edit(r) PROVE AccountInv'
  BY <1>3, EditBegins, EditReads, EditsUser DEF E!Edit
<1>4. CASE UNCHANGED E!vars
  <2>1. E!Known' = E!Known
    BY <1>4 DEF E!Known, E!vars
  <2>2. E!TypeOK' /\ AllFilled' /\ OnItsWay'
    BY <1>4, <2>1 DEF E!vars, AccountInv, E!TypeOK, AllFilled, OnItsWay, LinkOnItsWay, CodeOnItsWay
  <2>3. LinkInv'
    BY <1>4, <2>1 DEF E!vars, AccountInv, LinkInv, CarriedIsHis, LinksAreDrawn, CarriedApart,
       CarriedOwn, UnwrittenUnsent, MailedOwn, VerifyingOwn, AddressOf, E!VerifiedByOwnLink
  <2> QED
    BY <2>2, <2>3 DEF AccountInv
<1> QED
  BY <1>1, <1>2, <1>3, <1>4, AccountAborts, AccountTicks DEF E!Next

\* What is on its way for a user no request is at work for has been sent.
LEMMA AccountProven == ASSUME AccountInv PROVE E!AccountsProven
<1>1. ASSUME NEW u \in E!Known \ silent, \A r \in Requests : pc[r] # "idle" => locals[r].id # u
      PROVE  /\ users[u].emailLink # Nil => \E m \in mailed : m.link = users[u].emailLink
             /\ users[u].phoneCode # Nil => \E m \in texted : m.code = users[u].phoneCode
  BY <1>1 DEF AccountInv, OnItsWay, LinkOnItsWay, CodeOnItsWay
<1>2. E!AwaitedIsSent
  BY <1>1 DEF E!AwaitedIsSent
<1> QED
  BY <1>2 DEF AccountInv, LinkInv, E!AccountsProven

----------------------------------------------------------------------------
\* The composition

Scenes == {"enrolment", "registry", "clients", "prices", "reminders", "desk", "sharing"}

\* Of each scene, the invariant that its own steps preserve.
ScenesHold ==
  /\ scene \in Scenes
  /\ scene = "enrolment" => AccountInv
  /\ scene = "registry" => RegistryInv
  /\ scene = "clients" => ClientInv /\ ClientSlotInv /\ A!OneCoupon /\ A!ApprovedAsSeen
  /\ scene = "prices" => PriceInv
  /\ scene = "reminders" => ReminderInv
  /\ scene = "desk" => DeskInv
  /\ scene = "sharing" => ShareInv

LEMMA ScenesBegin == ASSUME Init PROVE ScenesHold
<1>1. scene \in Scenes /\ E!Init /\ S!Init /\ A!Init /\ P!Init /\ R!Init /\ D!Init /\ L!Init
  BY DEF Init, Scenes
<1>2. AccountInv
  BY <1>1, AccountInit
<1>3. RegistryInv
  BY <1>1, RegistryInvInit
<1>4. ClientInv /\ ClientSlotInv /\ A!OneCoupon /\ A!ApprovedAsSeen
  BY <1>1, ClientInvInit, ClientSlotInit, ClientCouponInit, ClientApprovalInit
<1>5. PriceInv /\ ReminderInv
  BY <1>1, PriceInit, ReminderInit
<1>6. DeskInv /\ ShareInv
  BY <1>1, DeskInit, ShareInit
<1> QED
  BY <1>1, <1>2, <1>3, <1>4, <1>5, <1>6 DEF ScenesHold

LEMMA ClientsHold ==
  ASSUME ClientInv, ClientSlotInv, A!OneCoupon, A!ApprovedAsSeen, A!Next \/ UNCHANGED A!vars
  PROVE  ClientInv' /\ ClientSlotInv' /\ A!OneCoupon' /\ A!ApprovedAsSeen'
<1>1. A!TypeOK
  BY DEF ClientInv, ClientShape
<1> QED
  BY <1>1, ClientInvStep, ClientSlotStep, ClientCouponStep, ClientApprovalStep

\* A step is one of the scene that is played, and the scene stays.
LEMMA ScenesStep == ASSUME ScenesHold, [Next]_vars PROVE ScenesHold'
<1>1. /\ scene' = scene
      /\ scene = "enrolment" => E!Next \/ UNCHANGED E!vars
      /\ scene = "registry" => S!Next \/ UNCHANGED S!vars
      /\ scene = "clients" => A!Next \/ UNCHANGED A!vars
      /\ scene = "prices" => P!Next \/ UNCHANGED P!vars
      /\ scene = "reminders" => R!Next \/ UNCHANGED R!vars
      /\ scene = "desk" => D!Next \/ UNCHANGED D!vars
      /\ scene = "sharing" => L!Next \/ UNCHANGED L!vars
  <2>1. CASE Enrolling
    BY <2>1 DEF Enrolling
  <2>2. CASE Administering
    BY <2>2 DEF Administering
  <2>3. CASE Advising
    BY <2>3 DEF Advising
  <2>4. CASE Pricing
    BY <2>4 DEF Pricing
  <2>5. CASE Reminding
    BY <2>5 DEF Reminding
  <2>6. CASE Supporting
    BY <2>6 DEF Supporting
  <2>7. CASE Sharing
    BY <2>7 DEF Sharing
  <2>8. CASE UNCHANGED vars
    BY <2>8 DEF vars, enrolment, registry, clients, prices, reminders, desk, sharing,
       E!vars, S!vars, A!vars, P!vars, R!vars, D!vars, L!vars
  <2> QED
    BY <2>1, <2>2, <2>3, <2>4, <2>5, <2>6, <2>7, <2>8 DEF Next
<1>2. scene = "enrolment" => AccountInv'
  BY <1>1, AccountStep DEF ScenesHold
<1>3. scene = "registry" => RegistryInv'
  BY <1>1, RegistryInvStep DEF ScenesHold
<1>4. scene = "clients" => ClientInv' /\ ClientSlotInv' /\ A!OneCoupon' /\ A!ApprovedAsSeen'
  BY <1>1, ClientsHold DEF ScenesHold
<1>5. scene = "prices" => PriceInv'
  BY <1>1, PriceStep DEF ScenesHold
<1>6. scene = "reminders" => ReminderInv'
  BY <1>1, ReminderStep DEF ScenesHold
<1>7. scene = "desk" => DeskInv'
  BY <1>1, DeskStep DEF ScenesHold
<1>8. scene = "sharing" => ShareInv'
  BY <1>1, ShareStep DEF ScenesHold
<1> QED
  BY <1>1, <1>2, <1>3, <1>4, <1>5, <1>6, <1>7, <1>8 DEF ScenesHold

\* ScenesHold is an invariant of the composition.
THEOREM ScenesInvariant == Spec => []ScenesHold
<1> QED
  BY ScenesBegin, ScenesStep, PTL DEF Spec

\* Every table, request and counter of the scene that is played has its type,
\* through every order in which requests begin, wait, fail and answer.
THEOREM ServicesTypes == Spec => []TypeOK
<1>1. ScenesHold => TypeOK
  BY DEF ScenesHold, Scenes, TypeOK, AccountInv, RegistryInv, ClientInv, ClientShape, PriceInv,
     ReminderInv, DeskInv, ShareInv
<1> QED
  BY <1>1, ScenesInvariant, PTL

\* An address is verified by the link that was mailed to it (or by the hand of
\* an administrator), and the link and the code an account waits for were sent,
\* whoever else registers, asks for new ones or is edited meanwhile.
THEOREM AccountsAreProven == Spec => []AccountsProven
<1>1. ScenesHold => AccountsProven
  BY AccountProven DEF ScenesHold, AccountsProven
<1> QED
  BY <1>1, ScenesInvariant, PTL

\* Someone of the staff is left, an invitation had one of the slots of the plan
\* it had read and an accountant has one coupon, nobody is reminded twice in a
\* year or passed over, but by the crossing requests and the failures that each
\* module notes; plans begin, end and change at any time.
THEOREM LimitsAreKept == Spec => []LimitsKept
<1>1. ScenesHold => LimitsKept
  <2>1. scene = "clients" /\ ScenesHold => A!WithinLimits
    BY ClientSlotsMeasured DEF ScenesHold, ClientInv, A!WithinLimits
  <2> QED
    BY <2>1 DEF ScenesHold, LimitsKept, RegistryInv, ReminderInv
<1> QED
  BY <1>1, ScenesInvariant, PTL

\* A link is accepted once and stays removed, and an accountant is approved for
\* the documents that were looked at, unless the row changed between the read
\* and the write of the request.
THEOREM DecisionsAsRead == Spec => []DecidedAsRead
<1>1. ScenesHold => DecidedAsRead
  BY DEF ScenesHold, DecidedAsRead, A!DecidedAsRead, ClientInv
<1> QED
  BY <1>1, ScenesInvariant, PTL

\* A dollar rate is the official one of the trade's day over weekends, unless a
\* published day was passed over, and all prices that are kept for a coin and a
\* day are the one in the cache.
THEOREM PricesAreSound == Spec => []PricesSound
<1>1. ScenesHold => PricesSound
  BY PriceSays DEF ScenesHold, PricesSound
<1> QED
  BY <1>1, ScenesInvariant, PTL

\* A ticket whose last message is its user's is open, or the staff decided on it
\* after reading that message, unless writes crossed, a request died between its
\* own, or the staff's decision rested on a reading from before that message; and
\* a link that was given opens its report to the end it was given, unless it was
\* drawn by first shares that overlapped.
THEOREM TicketsAndLinksAreKept == Spec => []TicketsAndLinksHold
<1>1. ScenesHold => TicketsAndLinksHold
  BY ShareOpens DEF ScenesHold, TicketsAndLinksHold, DeskInv
<1> QED
  BY <1>1, ScenesInvariant, PTL
=============================================================================
