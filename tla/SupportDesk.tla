---------------------------- MODULE SupportDesk ----------------------------
(***************************************************************************)
(* A support ticket: a message of the user opens it again, one of the      *)
(* staff takes it up, and the staff settle it.  Message and status are two *)
(* writes, and the staff decide on what a request before theirs has shown. *)
(***************************************************************************)
EXTENDS Naturals, Sequences

CONSTANTS
  Requests,     \* HTTP requests in progress at once
  Nil,
  MaxMessages,  \* bound on messages
  MaxCalls,     \* bound on updates of the status by the staff
  MaxAborts     \* bound on requests that die at an await

VARIABLES
  status,
  messages,   \* isFromStaff of each
  pc, job,    \* the await each request is at, and its locals
  calls, aborts,
  overtaken,  \* history: the status was written when its message was not the last
  untold,     \* history: a request died between its message and the status
  unseen,     \* history: the status is of staff who had not read every message then there
  known       \* history: messages that the staff whose decision the status is had read;
              \* 0: it is a message's

vars == <<status, messages, pc, job, calls, aborts, overtaken, untold, unseen, known>>

Status == {"OPEN", "IN_PROGRESS", "RESOLVED", "CLOSED"}
Steps == {"idle", "message", "status"}
Job == [staff : BOOLEAN, status : Status, after : Nat, seen : Nat]

Goto(r, step, locals) ==
  /\ pc' = [pc EXCEPT ![r] = step]
  /\ job' = [job EXCEPT ![r] = locals]

----------------------------------------------------------------------------
\* Fault: a message of the user does not open the ticket again.
StatusOfStaff(staff) == "IN_PROGRESS"
StatusAfter(staff) == IF staff THEN "IN_PROGRESS" ELSE "OPEN"

\* addMessage: getOwnedTicket, the message, the status.
BeginMessage(r, staff) ==
  /\ pc[r] = "idle"
  /\ Goto(r, "message", [staff |-> staff, status |-> StatusAfter(staff), after |-> 0,
                         seen |-> 0])
  /\ UNCHANGED <<status, messages, calls, aborts, overtaken, untold, unseen, known>>

CreateMessage(r) ==
  /\ pc[r] = "message" /\ Len(messages) < MaxMessages
  /\ messages' = Append(messages, job[r].staff)
  /\ Goto(r, "status", [job[r] EXCEPT !.after = Len(messages) + 1])
  /\ UNCHANGED <<status, calls, aborts, overtaken, untold, unseen, known>>

\* updateStatus: it reads that the ticket is there, and no message.  The staff
\* have decided on what an earlier request showed them (listForAdmin).
BeginUpdate(r, new, seen) ==
  /\ pc[r] = "idle" /\ calls < MaxCalls
  /\ calls' = calls + 1
  /\ Goto(r, "status", [staff |-> TRUE, status |-> new, after |-> Len(messages), seen |-> seen])
  /\ UNCHANGED <<status, messages, aborts, overtaken, untold, unseen, known>>

WriteStatus(r) ==
  /\ pc[r] = "status"
  /\ status' = job[r].status
  /\ overtaken' = (job[r].after < Len(messages))
  /\ untold' = FALSE
  /\ unseen' = (0 < job[r].seen /\ job[r].seen < job[r].after)
  /\ known' = job[r].seen
  /\ Goto(r, "idle", Nil)
  /\ UNCHANGED <<messages, calls, aborts>>

\* A query fails or the process stops.
Abort(r) ==
  /\ pc[r] # "idle" /\ aborts < MaxAborts
  /\ aborts' = aborts + 1
  /\ untold' = (untold \/ pc[r] = "status")
  /\ Goto(r, "idle", Nil)
  /\ UNCHANGED <<status, messages, calls, overtaken, unseen, known>>

\* createTicket: open, with the first message, in one write.
Init ==
  /\ status = "OPEN" /\ messages = <<FALSE>>
  /\ pc = [r \in Requests |-> "idle"] /\ job = [r \in Requests |-> Nil]
  /\ calls = 0 /\ aborts = 0 /\ overtaken = FALSE /\ untold = FALSE
  /\ unseen = FALSE /\ known = 0

Handle(r) ==
  \/ (\E staff \in BOOLEAN : BeginMessage(r, staff)) \/ CreateMessage(r)
  \/ \E new \in Status, seen \in 1..Len(messages) : BeginUpdate(r, new, seen)
  \/ WriteStatus(r) \/ Abort(r)
Next == \E r \in Requests : Handle(r)
Spec == Init /\ [][Next]_vars

----------------------------------------------------------------------------
TypeOK ==
  /\ status \in Status /\ messages \in Seq(BOOLEAN) /\ Len(messages) \in 1..MaxMessages
  /\ pc \in [Requests -> Steps] /\ job \in [Requests -> Job \cup {Nil}]
  /\ \A r \in Requests : job[r] = Nil <=> pc[r] = "idle"
  /\ calls \in 0..MaxCalls /\ aborts \in 0..MaxAborts
  /\ overtaken \in BOOLEAN /\ untold \in BOOLEAN /\ unseen \in BOOLEAN /\ known \in 0..MaxMessages

\* The last message is the user's, its status is written, and the ticket is not
\* open, though the staff had not read that message when they decided.
Unanswered ==
  /\ ~ messages[Len(messages)] /\ status # "OPEN" /\ known < Len(messages)
  /\ \A r \in Requests : ~ (pc[r] = "status" /\ job[r].after = Len(messages))

\* A ticket whose last message is the user's is open, or the staff decided on
\* it after they had read that message - unless the writes of two requests
\* crossed, one died between its own, or the staff sent their decision when the
\* message was there and had read the ticket before it was.
UnansweredIsOpen == Unanswered => overtaken \/ untold \/ unseen

\* Claim of support.service.ts:64-66, but for crossings and failures: a message
\* of the user leaves the ticket open to the staff, who may have closed it.
MessageReopens == Unanswered => overtaken \/ untold
=============================================================================
