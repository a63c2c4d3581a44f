------------------------------ MODULE Services ------------------------------
(***************************************************************************)
(* Enrolment, StaffRegistry, AccountLinks, Prices, Reminders, SupportDesk  *)
(* and SharedReports share no state, only the way their handlers are       *)
(* written.  A behaviour of this module is a behaviour of one of them,     *)
(* drawn in Init; the variables of the others rest.                        *)
(***************************************************************************)
EXTENDS Integers, Sequences, FiniteSets

CONSTANTS
  Requests,   \* HTTP requests in progress at once
  Nil,
  \* Enrolment
  Emails, Usernames, Phones, LINK_EXPIRES, CODE_EXPIRES, MaxUsers, Allowances,
  \* StaffRegistry
  Users, MaxStaffCalls,
  \* AccountLinks
  Clients, ClientLimits, MaxInvitations, MaxClientCalls,
  \* Prices
  Coins, Hours, WorkDays, Markets, TTL, Today, MaxDays, MaxRuns, MaxErrors,
  \* Reminders
  Recipients, Calendar, MaxFaults,
  \* SupportDesk
  MaxMessages, MaxDeskCalls, MaxDeskAborts,
  \* SharedReports
  EXPIRES, MaxTime, MaxShares

VARIABLES
  scene, pc, locals, clock, calls, aborts, mailed,
  users, allowed, generated, texted, edits, proved, vouched, silent,
  accounts, staff, cross,
  docs, uploads, verified, clientLimit, registered, links, coupons, late, crossed, approved,
  names, loadedAt, cache, runs, errors, answers,
  day, wanting, logged, reminded, stage, todo, at, faults, seen, lost,
  status, messages, overtaken, untold, unseen, known,
  report, drawn, shares, given, twice

E == INSTANCE Enrolment WITH work <- locals, links <- generated
S == INSTANCE StaffRegistry WITH MaxCalls <- MaxStaffCalls, call <- locals, crossed <- cross
A == INSTANCE AccountLinks WITH
       MaxLinks <- MaxInvitations, MaxCalls <- MaxClientCalls, job <- locals
P == INSTANCE Prices WITH MaxTime <- MaxDays, work <- locals
R == INSTANCE Reminders WITH Users <- Recipients, mailed <- reminded, pc <- stage
D == INSTANCE SupportDesk WITH
       MaxCalls <- MaxDeskCalls, MaxAborts <- MaxDeskAborts, job <- locals
L == INSTANCE SharedReports WITH job <- locals

ASSUME EnrolmentAssumption ==
  /\ LINK_EXPIRES \in Nat /\ CODE_EXPIRES \in Nat /\ MaxUsers \in Nat
  /\ Allowances \subseteq E!Allowance
ASSUME RegistryAssumption == IsFiniteSet(Users) /\ MaxStaffCalls \in Nat
ASSUME ClientAssumption ==
  ClientLimits \subseteq Nat \cup {Nil} /\ MaxInvitations \in Nat /\ MaxClientCalls \in Nat
ASSUME PriceAssumption ==
  /\ Hours \subseteq Nat /\ WorkDays \subseteq Nat /\ TTL \in Nat /\ Today \in Nat
  /\ Markets \subseteq [Coins -> Seq(Nat)] /\ P!Dollar \notin Coins
  /\ MaxDays \in Nat /\ MaxRuns \in Nat /\ MaxErrors \in Nat
ASSUME CalendarAssumption ==
  Calendar \in Seq([year : Nat, march : BOOLEAN]) /\ Calendar # <<>> /\ MaxFaults \in Nat
ASSUME DeskAssumption ==
  MaxMessages \in Nat \ {0} /\ MaxDeskCalls \in Nat /\ MaxDeskAborts \in Nat
ASSUME SharingAssumption == EXPIRES \in Nat /\ MaxTime \in Nat /\ MaxShares \in Nat
ASSUME NilAssumption ==
  /\ Nil \notin Nat /\ Nil \notin Emails \cup Phones \cup Clients \cup Recipients \cup E!Form
  /\ Nil \notin E!Local \cup S!Call \cup A!Job \cup P!Local \cup D!Job \cup L!Job
  /\ Nil \notin P!Entry \cup L!Report

enrolment == <<users, allowed, generated, texted, edits, proved, vouched, silent>>
registry == <<accounts, staff, cross>>
clients == <<docs, uploads, verified, clientLimit, registered, links, coupons, late, crossed,
             approved>>
prices == <<names, loadedAt, cache, runs, errors, answers>>
reminders == <<day, wanting, logged, reminded, stage, todo, at, faults, seen, lost>>
desk == <<status, messages, overtaken, untold, unseen, known>>
sharing == <<report, drawn, shares, given, twice>>
vars == <<scene, pc, locals, clock, calls, aborts, mailed, enrolment, registry, clients, prices,
          reminders, desk, sharing>>

Enrolling ==
  /\ scene = "enrolment" /\ E!Next
  /\ UNCHANGED <<scene, registry, calls, clients, prices, reminders, desk, sharing>>
Administering ==
  /\ scene = "registry" /\ S!Next
  /\ UNCHANGED <<scene, clock, aborts, mailed, enrolment, clients, prices, reminders, desk, sharing>>
Advising ==
  /\ scene = "clients" /\ A!Next
  /\ UNCHANGED <<scene, clock, aborts, enrolment, registry, prices, reminders, desk, sharing>>
Pricing ==
  /\ scene = "prices" /\ P!Next
  /\ UNCHANGED <<scene, calls, aborts, mailed, enrolment, registry, clients, reminders, desk,
                 sharing>>
Reminding ==
  /\ scene = "reminders" /\ R!Next
  /\ UNCHANGED <<scene, pc, locals, clock, calls, aborts, mailed, enrolment, registry, clients,
                 prices, desk, sharing>>
Supporting ==
  /\ scene = "desk" /\ D!Next
  /\ UNCHANGED <<scene, clock, mailed, enrolment, registry, clients, prices, reminders, sharing>>
Sharing ==
  /\ scene = "sharing" /\ L!Next
  /\ UNCHANGED <<scene, calls, aborts, mailed, enrolment, registry, clients, prices, reminders,
                 desk>>

\* What is drawn in a scene that is not played is of no interest.
Init ==
  /\ scene \in {"enrolment", "registry", "clients", "prices", "reminders", "desk", "sharing"}
  /\ E!Init /\ S!Init /\ A!Init /\ P!Init /\ R!Init /\ D!Init /\ L!Init
  /\ scene # "enrolment" => allowed = CHOOSE x \in Allowances : TRUE
  /\ scene # "clients" => ~ verified /\ clientLimit = CHOOSE x \in ClientLimits : TRUE
  /\ scene # "reminders" => wanting = {}

Next ==
  \/ Enrolling \/ Administering \/ Advising \/ Pricing \/ Reminding \/ Supporting \/ Sharing
Spec == Init /\ [][Next]_vars

----------------------------------------------------------------------------
\* The type invariant of the scene that is played.
TypeOK ==
  CASE scene = "enrolment" -> E!TypeOK
    [] scene = "registry" -> S!TypeOK
    [] scene = "clients" -> A!TypeOK
    [] scene = "prices" -> P!TypeOK
    [] scene = "reminders" -> R!TypeOK
    [] scene = "desk" -> D!TypeOK
    [] scene = "sharing" -> L!TypeOK

\* An address is verified by its own link, and what an account waits for was
\* sent (VerifiedByOwnLink and AwaitedIsSent of Enrolment).
AccountsProven == scene = "enrolment" => E!AccountsProven

\* One of the staff is left, an invitation had one of the slots it had read and
\* there is one coupon, nobody is reminded twice in a year or passed over, but by
\* requests that cross in the one way each module notes, and by failures
\* (StaffRemains of StaffRegistry, LinksWithinSlots and OneCoupon of
\* AccountLinks, RemindersSound of Reminders).
LimitsKept ==
  /\ scene = "registry" => S!StaffRemains
  /\ scene = "clients" => A!WithinLimits
  /\ scene = "reminders" => R!RemindersSound

\* Acceptances and approvals concern what their request had read
\* (AcceptedAsRead and ApprovedAsSeen of AccountLinks).
DecidedAsRead == scene = "clients" => A!DecidedAsRead

\* A dollar rate is the official one of its day, and getPrice gives one price
\* for a coin and a day (RateOfTheDay and AnswersAgree of Prices).
PricesSound == scene = "prices" => P!PricesSound

\* The last message of a user leaves his ticket open, but for staff who decide
\* after reading it or on what they read before it, crossings and deaths, and a
\* link once given opens its report (UnansweredIsOpen of SupportDesk, LinksOpen
\* of SharedReports).
TicketsAndLinksHold ==
  /\ scene = "desk" => D!UnansweredIsOpen
  /\ scene = "sharing" => L!LinksOpen
=============================================================================
