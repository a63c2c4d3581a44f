---------------------------- MODULE AccountLinks ----------------------------
(***************************************************************************)
(* An accountant: documents and their approval, invitations to clients     *)
(* within the slots of the plan in force, their acceptance and removal,    *)
(* and the one coupon.  Every handler reads first and writes in a later    *)
(* query; the plan changes, and with it the slots, while they run.         *)
(***************************************************************************)
EXTENDS Naturals, Sequences, FiniteSets

CONSTANTS
  Requests,   \* HTTP requests in progress at once
  Clients,    \* people who may be invited, by their address
  Nil,
  ClientLimits, \* of the plans there are; Nil: null, or no plan
  MaxLinks,   \* bound on invitations
  MaxCalls    \* bound on calls other than invitations

VARIABLES
  docs,        \* version of the documents on file; 0: none
  uploads,     \* uploads so far
  verified,    \* accountantVerified
  clientLimit, \* of the plan of the subscription in force; Nil: null, or none in force
  registered,  \* clients who have an account
  links,       \* accountantClient table; an id is a position
  mailed,      \* invitations that went out
  coupons,     \* coupons of the accountant
  pc, job,     \* the await each request is at, and its locals
  calls,       \* such calls so far
  late,        \* history: links and coupons created when another came after the count
  crossed,     \* history: links, or the documents (0), decided on after they had changed
  approved     \* history: the documents the administrator who approved last had seen

vars == <<docs, uploads, verified, clientLimit, registered, links, mailed, coupons, pc, job,
          calls, late, crossed, approved>>

Status == {"PENDING", "ACTIVE", "REMOVED"}
Link == [email : Clients, client : Clients \cup {Nil}, status : Status, token : BOOLEAN,
         expired : BOOLEAN, changes : Nat, removed : BOOLEAN, accepted : Nat,
         limit : Nat]  \* history: the slots its invitation was checked against
Steps == {"idle", "slot", "count", "client", "linked", "create", "mail", "accept", "remove",
          "approve", "approve:write", "reject", "coupon", "code", "coupon:create"}
Job == [email : Clients \cup {Nil}, link : Nat, changes : Nat, client : Clients \cup {Nil},
        docs : Nat, limit : Nat, count : Nat]
NoJob == [email |-> Nil, link |-> 0, changes |-> 0, client |-> Nil, docs |-> 0, limit |-> 0,
          count |-> 0]

Known == DOMAIN links
Live == {l \in Known : links[l].status # "REMOVED"}

Goto(r, step, locals) ==
  /\ pc' = [pc EXCEPT ![r] = step]
  /\ job' = [job EXCEPT ![r] = locals]
\* Fault: the request is over and its locals are kept.
FinishKeeping(r) == Goto(r, "idle", job[r])
Finish(r) == Goto(r, "idle", Nil)
Call == calls < MaxCalls /\ calls' = calls + 1

papers == <<docs, uploads, verified, approved>>
book == <<clientLimit, registered, links, mailed>>

----------------------------------------------------------------------------
\* inviteClient
BeginInvite(r, email) ==
  /\ pc[r] = "idle" /\ verified
  /\ Goto(r, "slot", [NoJob EXCEPT !.email = email])
  /\ UNCHANGED <<papers, book, coupons, calls, late, crossed>>

\* checkClientSlotAvailable: the limit of the subscription in force, of which a
\* null has become 0 before it is asked for; then the count.
Slots == IF clientLimit = Nil THEN 0 ELSE clientLimit

ReadLimit(r) ==
  /\ pc[r] = "slot"
  /\ Goto(r, "count", [job[r] EXCEPT !.limit = Slots])
  /\ UNCHANGED <<papers, book, coupons, calls, late, crossed>>

\* Fault: a slot too many.
SlotLeftOver(r) == Cardinality(Live) <= job[r].limit
SlotLeft(r) == Cardinality(Live) < job[r].limit

CountLinks(r) ==
  /\ pc[r] = "count"
  /\ IF SlotLeft(r) THEN Goto(r, "client", [job[r] EXCEPT !.count = Len(links)]) ELSE Finish(r)
  /\ UNCHANGED <<papers, book, coupons, calls, late, crossed>>

FindClient(r) ==
  /\ pc[r] = "client"
  /\ Goto(r, IF job[r].email \in registered THEN "linked" ELSE "create", job[r])
  /\ UNCHANGED <<papers, book, coupons, calls, late, crossed>>

\* A link the client has accepted; the open invitations name no client yet.
FindLink(r) ==
  /\ pc[r] = "linked"
  /\ IF \E l \in Live : links[l].client = job[r].email THEN Finish(r) ELSE Goto(r, "create", job[r])
  /\ UNCHANGED <<papers, book, coupons, calls, late, crossed>>

CreateLink(r) ==
  /\ pc[r] = "create" /\ Len(links) < MaxLinks
  /\ links' = Append(links, [email |-> job[r].email, client |-> Nil, status |-> "PENDING",
                             token |-> TRUE, expired |-> FALSE, changes |-> 0,
                             removed |-> FALSE, accepted |-> 0, limit |-> job[r].limit])
  /\ late' = IF Len(links) # job[r].count THEN late \cup {Len(links) + 1} ELSE late
  /\ Goto(r, "mail", [job[r] EXCEPT !.link = Len(links) + 1])
  /\ UNCHANGED <<papers, clientLimit, registered, mailed, coupons, calls, crossed>>

SendInvite(r) ==
  /\ pc[r] = "mail"
  /\ mailed' = mailed \cup {job[r].link}
  /\ Finish(r)
  /\ UNCHANGED <<papers, clientLimit, registered, links, coupons, calls, late, crossed>>

\* Fault: the status of the invitation is not asked for.
OpenInAnyStatus(l) == links[l].token /\ ~ links[l].expired
OpenInvite(l) == links[l].token /\ ~ links[l].expired /\ links[l].status = "PENDING"

\* acceptInvite, by a client who holds the mailed token.
BeginAccept(r, l, c) ==
  /\ pc[r] = "idle" /\ l \in mailed /\ c \in registered /\ OpenInvite(l)
  /\ Call
  /\ Goto(r, "accept", [NoJob EXCEPT !.link = l, !.client = c, !.changes = links[l].changes])
  /\ UNCHANGED <<papers, book, coupons, late, crossed>>

\* The link has changed since the request read it.
Stale(r) == links[job[r].link].changes # job[r].changes

Accepted(k, c) ==
  [email |-> k.email, client |-> c, status |-> "ACTIVE", token |-> FALSE, expired |-> k.expired,
   changes |-> k.changes + 1, removed |-> k.removed, accepted |-> k.accepted + 1,
   limit |-> k.limit]

AcceptInvite(r) ==
  /\ pc[r] = "accept"
  /\ LET l == job[r].link IN
     /\ links' = [links EXCEPT ![l] = Accepted(links[l], job[r].client)]
     /\ crossed' = IF Stale(r) THEN crossed \cup {l} ELSE crossed
  /\ Finish(r)
  /\ UNCHANGED <<papers, clientLimit, registered, mailed, coupons, calls, late>>

\* removeClient
BeginRemove(r, l) ==
  /\ pc[r] = "idle"
  /\ Call
  /\ Goto(r, "remove", [NoJob EXCEPT !.link = l])
  /\ UNCHANGED <<papers, book, coupons, late, crossed>>

Removed(k) ==
  [email |-> k.email, client |-> k.client, status |-> "REMOVED", token |-> k.token,
   expired |-> k.expired, changes |-> k.changes + 1, removed |-> TRUE, accepted |-> k.accepted,
   limit |-> k.limit]

RemoveClient(r) ==
  /\ pc[r] = "remove"
  /\ LET l == job[r].link IN links' = [links EXCEPT ![l] = Removed(links[l])]
  /\ Finish(r)
  /\ UNCHANGED <<papers, clientLimit, registered, mailed, coupons, calls, late, crossed>>

Expire(l) ==
  /\ ~ links[l].expired
  /\ links' = [links EXCEPT ![l].expired = TRUE]
  /\ UNCHANGED <<papers, clientLimit, registered, mailed, coupons, pc, job, calls, late, crossed>>

Register(c) ==
  /\ c \notin registered
  /\ registered' = registered \cup {c}
  /\ UNCHANGED <<papers, clientLimit, links, mailed, coupons, pc, job, calls, late, crossed>>

\* The subscription runs out, begins, or is of another plan; or the plan is edited.
ChangePlan ==
  /\ Call
  /\ \E limit \in ClientLimits : limit # clientLimit /\ clientLimit' = limit
  /\ UNCHANGED <<papers, registered, links, mailed, coupons, pc, job, late, crossed>>

----------------------------------------------------------------------------
\* Fault: the approval of the documents replaced is kept.
UploadQuietly ==
  /\ Call
  /\ uploads' = uploads + 1 /\ docs' = uploads + 1
  /\ UNCHANGED <<verified, approved, book, coupons, pc, job, late, crossed>>

\* uploadDocuments
Upload ==
  /\ Call
  /\ uploads' = uploads + 1 /\ docs' = uploads + 1
  /\ verified' = FALSE
  /\ UNCHANGED <<approved, book, coupons, pc, job, late, crossed>>

\* approve, by an administrator who looks at what is on file.
LookAtDocs(r) ==
  /\ pc[r] = "idle"
  /\ Call
  /\ Goto(r, "approve", [NoJob EXCEPT !.docs = docs])
  /\ UNCHANGED <<papers, book, coupons, late, crossed>>

BeginApprove(r) ==
  /\ pc[r] = "approve"
  /\ Goto(r, "approve:write", job[r])
  /\ UNCHANGED <<papers, book, coupons, calls, late, crossed>>

Approve(r) ==
  /\ pc[r] = "approve:write"
  /\ verified' = TRUE /\ approved' = job[r].docs
  /\ crossed' = IF docs # job[r].docs THEN crossed \cup {0} ELSE crossed \ {0}
  /\ Finish(r)
  /\ UNCHANGED <<docs, uploads, book, coupons, calls, late>>

\* reject
BeginReject(r) ==
  /\ pc[r] = "idle"
  /\ Call
  /\ Goto(r, "reject", NoJob)
  /\ UNCHANGED <<papers, book, coupons, late, crossed>>

Reject(r) ==
  /\ pc[r] = "reject"
  /\ verified' = FALSE /\ docs' = 0
  /\ Finish(r)
  /\ UNCHANGED <<uploads, approved, book, coupons, calls, late, crossed>>

----------------------------------------------------------------------------
\* createMyCoupon
BeginCoupon(r) ==
  /\ pc[r] = "idle" /\ verified
  /\ Call
  /\ Goto(r, "coupon", NoJob)
  /\ UNCHANGED <<papers, book, coupons, late, crossed>>

FindCoupon(r) ==
  /\ pc[r] = "coupon"
  /\ IF coupons # 0 THEN Finish(r) ELSE Goto(r, "code", job[r])
  /\ UNCHANGED <<papers, book, coupons, calls, late, crossed>>

\* generateUniqueCode: a free code, unless ten draws in a row are taken.
DrawCode(r) ==
  /\ pc[r] = "code"
  /\ Finish(r) \/ Goto(r, "coupon:create", job[r])
  /\ UNCHANGED <<papers, book, coupons, calls, late, crossed>>

CreateCoupon(r) ==
  /\ pc[r] = "coupon:create"
  /\ coupons' = coupons + 1
  /\ late' = IF coupons # 0 THEN late \cup {0} ELSE late
  /\ Finish(r)
  /\ UNCHANGED <<papers, book, calls, crossed>>

----------------------------------------------------------------------------
\* An accountant who has just registered, or one approved whose clients are there.
Init ==
  /\ \/ docs = 0 /\ uploads = 0 /\ verified = FALSE /\ approved = 0 /\ registered = {}
     \/ docs = 1 /\ uploads = 1 /\ verified = TRUE /\ approved = 1 /\ registered = Clients
  /\ clientLimit \in ClientLimits /\ links = <<>> /\ mailed = {} /\ coupons = 0
  /\ pc = [r \in Requests |-> "idle"] /\ job = [r \in Requests |-> Nil]
  /\ calls = 0 /\ late = {} /\ crossed = {}

Invite(r) ==
  \/ \E email \in Clients : BeginInvite(r, email)
  \/ ReadLimit(r) \/ CountLinks(r) \/ FindClient(r) \/ FindLink(r) \/ CreateLink(r) \/ SendInvite(r)
Answer(r) ==
  \/ \E l \in Known, c \in Clients : BeginAccept(r, l, c)
  \/ (\E l \in Known : BeginRemove(r, l)) \/ AcceptInvite(r) \/ RemoveClient(r)
Judge(r) == LookAtDocs(r) \/ BeginApprove(r) \/ Approve(r) \/ BeginReject(r) \/ Reject(r)
Coupon(r) == BeginCoupon(r) \/ FindCoupon(r) \/ DrawCode(r) \/ CreateCoupon(r)

Next ==
  \/ Upload \/ ChangePlan
  \/ \E l \in Known : Expire(l)
  \/ \E c \in Clients : Register(c)
  \/ \E r \in Requests : Invite(r) \/ Answer(r) \/ Judge(r) \/ Coupon(r)
Spec == Init /\ [][Next]_vars

----------------------------------------------------------------------------
TypeOK ==
  /\ docs \in Nat /\ uploads \in Nat /\ verified \in BOOLEAN /\ approved \in Nat
  /\ clientLimit \in ClientLimits /\ registered \in SUBSET Clients
  /\ links \in Seq(Link) /\ Len(links) <= MaxLinks
  /\ mailed \in SUBSET Known /\ coupons \in Nat
  /\ pc \in [Requests -> Steps] /\ job \in [Requests -> Job \cup {Nil}]
  /\ \A r \in Requests : job[r] = Nil <=> pc[r] = "idle"
  /\ calls \in 0..MaxCalls /\ late \in SUBSET Nat /\ crossed \in SUBSET Nat

\* When a client was invited, the clients of the accountant, open invitations
\* and this one among them, fitted the slots that invitation had read, and those
\* before him have not become more since - but for invitations that another
\* overtook between the count and the row, and links an acceptance brought back.
\* A plan that ends or shrinks takes no link away (checkClientSlotAvailable is
\* asked for by inviteClient alone).
Regular == Live \ (late \cup crossed)
LinksWithinSlots ==
  \A l \in Regular : Cardinality({k \in Regular : k <= l}) <= links[l].limit

\* An accountant has one coupon, unless two creations of it overlap.
OneCoupon == coupons <= 1 \/ 0 \in late

\* A link is accepted once, and one that was removed stays so, unless it changed
\* between an acceptance's reading and its writing.
AcceptedAsRead ==
  \A l \in Known \ crossed :
    links[l].accepted <= 1 /\ (links[l].removed => links[l].status = "REMOVED")

\* An accountant counts as verified for the documents an administrator looked
\* at, unless others were uploaded before the approval was written.
ApprovedAsSeen == verified => docs = approved \/ 0 \in crossed

\* Claim of schema.prisma:102-105: an accountant counts as verified only with
\* documents on file (approve asks for none).
ApprovedWithDocs == verified => docs # 0

WithinLimits == LinksWithinSlots /\ OneCoupon
DecidedAsRead == AcceptedAsRead /\ ApprovedAsSeen
=============================================================================
