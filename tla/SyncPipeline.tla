---------------------------- MODULE SyncPipeline ----------------------------
(***************************************************************************)
(* How the transactions of one user reach the Transaction table.  A        *)
(* request marks an exchange connection (or a wallet address) SYNCING and  *)
(* queues a job; the one worker of the "sync" queue fetches what the       *)
(* account has shown since lastSyncedAt, inserts it row by row, looks for  *)
(* internal transfers and negative balances if it inserted anything, and   *)
(* stamps the connection.  CSV imports run the same ingestion inside their *)
(* HTTP request, next to the worker.  Connections are removed, calls fail  *)
(* and the process restarts at any point.                                  *)
(*                                                                         *)
(* A connection stands for either kind: performSync of the two services    *)
(* differs only in the client it calls.  An item is one transaction as its *)
(* account shows it; its key is (source, externalId).                      *)
(***************************************************************************)
EXTENDS Integers, Sequences, FiniteSets

CONSTANTS Connections,   \* ids of connections, each created once
          Accounts,      \* what a connection connects to
          AccountOf,     \* AccountOf[c] is the account c is created for
          Imports,       \* ids of CSV imports, each run once
          Items,         \* transactions that may come to exist
          Malformed,     \* rows of files that mapRow rejects
          Keys,          \* the values of (source, externalId)
          Origin,        \* Origin[i] is the account or the file an item is of
          KeyOf,         \* KeyOf[i] is the key an item is stored under
          Requests,      \* HTTP requests that may be under way at once
          Worker,        \* the worker of the queue
          NoRef,         \* the reference of a row whose connection is gone
          MaxTime,       \* bound on the clock
          MaxQueue,      \* bound on the jobs that wait
          MaxFaults,     \* bound on the calls that fail
          MaxRestarts    \* bound on the restarts of the process

ASSUME SyncAssumption ==
  /\ AccountOf \in [Connections -> Accounts]
  /\ Origin \in [Items -> Accounts \cup Imports]
  /\ KeyOf \in [Items -> Keys] /\ Malformed \subseteq Items
  /\ MaxTime \in Nat /\ MaxQueue \in Nat /\ MaxFaults \in Nat /\ MaxRestarts \in Nat
  /\ Connections \cap Imports = {} /\ Accounts \cap Imports = {}
  /\ NoRef \notin Connections \cup Imports /\ Worker \notin Imports

VARIABLES now,        \* the clock
          posted,     \* when an item appeared at its account
          conn,       \* ExchangeConnection (or WalletAddress) rows
          importing,  \* CsvImport.status
          rows,       \* the Transaction table: an item and its foreign key
          queue,      \* the waiting jobs of the "sync" queue
          request,    \* the requests under way
          ing,        \* the ingestions under way: the worker's and the imports'
          analysed,   \* history: items a finished analysis has read
          dropped,    \* history: items skipped without an error
          interrupted,\* history: rows whose analysis an error or a restart cut off
          gaps,       \* history: what each stamp passed over unread
          stranded,   \* history: connections a failed call left SYNCING since marked
          faults, restarts

data == <<conn, rows, importing>>
history == <<analysed, interrupted, dropped, gaps, stranded>>
vars == <<now, posted, conn, importing, rows, queue, request, ing,
          analysed, interrupted, dropped, gaps, stranded, faults, restarts>>

Never == -1
Time == 0..MaxTime
SyncStatus == {"NEVER_SYNCED", "SYNCING", "SYNCED", "ERROR"}
CsvImportStatus == {"PENDING", "PROCESSED", "FAILED"}
Ingesters == {Worker} \cup Imports
Stages == {"idle", "fetch", "insert", "detect", "reconcile", "finish", "fail"}

\* A connection that was not created yet, or is deleted, has no row.
ConnectionRow == [status : SyncStatus \cup {"NONE", "REMOVED"}, last : Time \cup {Never}]
Absent == [status |-> "NONE", last |-> Never]
Removed == [status |-> "REMOVED", last |-> Never]
Exists(c) == conn[c].status \in SyncStatus

Row == [item : Items, ref : Connections \cup Imports \cup {NoRef}]
Job == [conn : Connections, stalled : BOOLEAN]

\* `asked` is when the account was read, `since` the lastSyncedAt the job
\* started from, `read` what the analysis has taken from the table.
Idle == [pc |-> "idle", ref |-> NoRef, stalled |-> FALSE, since |-> Never, asked |-> Never,
         todo |-> {}, inserted |-> FALSE, read |-> {}]
Ingestion == [pc : Stages, ref : Connections \cup Imports \cup {NoRef}, stalled : BOOLEAN,
              since : Time \cup {Never}, asked : Time \cup {Never},
              todo : SUBSET Items, inserted : BOOLEAN, read : SUBSET Items]
NoRequest == [pc |-> "idle"]

Stored == {r.item : r \in rows}
HeldKeys == {KeyOf[i] : i \in Stored}

Fault == faults < MaxFaults /\ faults' = faults + 1
Go(p, stage) == ing' = [ing EXCEPT ![p].pc = stage]

-----------------------------------------------------------------------------
(* The accounts, the clock and the list of connections.                    *)

Tick ==
  /\ now < MaxTime
  /\ now' = now + 1
  /\ UNCHANGED <<posted, data, queue, request, ing, history, faults, restarts>>

Post(i) ==
  /\ Origin[i] \in Accounts
  /\ posted[i] = Never
  /\ posted' = [posted EXCEPT ![i] = now]
  /\ UNCHANGED <<now, data, queue, request, ing, history, faults, restarts>>

Create(c) ==
  /\ conn[c] = Absent
  /\ conn' = [conn EXCEPT ![c] = [status |-> "NEVER_SYNCED", last |-> Never]]
  /\ UNCHANGED <<now, posted, rows, importing, queue, request, ing, history, faults, restarts>>

\* The fault of a relation that does not set the foreign key to null.
RemoveKeepingRefs(c) ==
  /\ Exists(c)
  /\ conn' = [conn EXCEPT ![c] = Removed]
  /\ UNCHANGED <<now, posted, rows, importing, queue, request, ing, history, faults, restarts>>

\* remove: the rows of the connection stay, their foreign key is set to null.
Remove(c) ==
  /\ Exists(c)
  /\ conn' = [conn EXCEPT ![c] = Removed]
  /\ rows' = {[r EXCEPT !.ref = IF r.ref = c THEN NoRef ELSE r.ref] : r \in rows}
  /\ UNCHANGED <<now, posted, importing, queue, request, ing, history, faults, restarts>>

-----------------------------------------------------------------------------
(* sync: find the connection, mark it, queue a job.                        *)

RequestSync(r, c) ==
  /\ request[r] = NoRequest
  /\ Exists(c)
  /\ request' = [request EXCEPT ![r] = [pc |-> "update", conn |-> c]]
  /\ UNCHANGED <<now, posted, data, queue, ing, history, faults, restarts>>

\* The update of a connection that is gone throws and ends the request.
MarkSyncing(r) ==
  /\ request[r].pc = "update"
  /\ LET c == request[r].conn
     IN IF Exists(c)
        THEN /\ conn' = [conn EXCEPT ![c].status = "SYNCING"]
             /\ request' = [request EXCEPT ![r].pc = "add"]
             /\ stranded' = stranded \ {c}
        ELSE request' = [request EXCEPT ![r] = NoRequest] /\ UNCHANGED <<conn, stranded>>
  /\ UNCHANGED <<now, posted, rows, importing, queue, ing, analysed, interrupted, dropped,
                 gaps, faults, restarts>>

Enqueue(r) ==
  /\ request[r].pc = "add"
  /\ Len(queue) < MaxQueue
  /\ queue' = Append(queue, [conn |-> request[r].conn, stalled |-> FALSE])
  /\ request' = [request EXCEPT ![r] = NoRequest]
  /\ UNCHANGED <<now, posted, data, ing, history, faults, restarts>>

\* The queue cannot be reached: the connection stays marked.
EnqueueFails(r) ==
  /\ request[r].pc = "add"
  /\ Fault
  /\ request' = [request EXCEPT ![r] = NoRequest]
  /\ stranded' = stranded \cup {request[r].conn}
  /\ UNCHANGED <<now, posted, data, queue, ing, analysed, interrupted, dropped, gaps, restarts>>

-----------------------------------------------------------------------------
(* performSync, run by the worker for the job at the head of the queue.    *)

\* getOwned comes before the try block: a job of a removed connection fails
\* and writes nothing.
TakeJob ==
  /\ ing[Worker].pc = "idle"
  /\ queue # <<>>
  /\ LET job == Head(queue)
         c == job.conn
     IN ing' = [ing EXCEPT ![Worker] =
                  IF Exists(c)
                  THEN [Idle EXCEPT !.pc = "fetch", !.ref = c,
                                    !.stalled = job.stalled, !.since = conn[c].last]
                  ELSE Idle]
  /\ queue' = Tail(queue)
  /\ UNCHANGED <<now, posted, data, request, history, faults, restarts>>

\* So do the query of getOwned and the decryption of the keys: the job has
\* failed, and the connection still says SYNCING.
TakeJobFails ==
  /\ ing[Worker].pc = "idle"
  /\ queue # <<>>
  /\ Fault
  /\ stranded' = stranded \cup {Head(queue).conn}
  /\ queue' = Tail(queue)
  /\ UNCHANGED <<now, posted, data, request, ing, analysed, interrupted, dropped, gaps,
                 restarts>>

\* The fault of reading only what is later than `since`.
DueAfter(a, since) == {i \in Items : Origin[i] = a /\ posted[i] # Never /\ posted[i] > since}

\* What an account shows that is not older than `since`.
Due(a, since) == {i \in Items : Origin[i] = a /\ posted[i] # Never /\ posted[i] >= since}

\* Clients that answer a refusal with an empty page lose items unnoticed.
Fetch ==
  /\ ing[Worker].pc = "fetch"
  /\ LET due == Due(AccountOf[ing[Worker].ref], ing[Worker].since)
     IN \E page \in SUBSET due :
          /\ IF page = due THEN UNCHANGED <<faults, dropped>>
                           ELSE Fault /\ dropped' = dropped \cup (due \ page)
          /\ ing' = [ing EXCEPT ![Worker].pc = "insert", ![Worker].todo = page,
                                ![Worker].asked = now]
  /\ UNCHANGED <<now, posted, data, queue, request, analysed, interrupted, gaps, stranded,
                 restarts>>

FetchFails ==
  /\ ing[Worker].pc = "fetch"
  /\ Fault
  /\ Go(Worker, "fail")
  /\ UNCHANGED <<now, posted, data, queue, request, history, restarts>>

\* The fault of a stamp that writes the time and forgets the status.
StampTimeOnly ==
  /\ ing[Worker].pc = "finish"
  /\ LET c == ing[Worker].ref
     IN IF Exists(c)
        THEN /\ conn' = [conn EXCEPT ![c].last = now]
             /\ gaps' = gaps \cup {[conn |-> c, from |-> ing[Worker].asked, upto |-> now]}
             /\ ing' = [ing EXCEPT ![Worker] = Idle]
        ELSE Go(Worker, "fail") /\ UNCHANGED <<conn, gaps>>
  /\ UNCHANGED <<now, posted, rows, importing, queue, request, analysed, interrupted,
                 dropped, stranded, faults, restarts>>

\* lastSyncedAt is the time of the stamp, not of the fetch.
Stamp ==
  /\ ing[Worker].pc = "finish"
  /\ LET c == ing[Worker].ref
     IN IF Exists(c)
        THEN /\ conn' = [conn EXCEPT ![c] = [status |-> "SYNCED", last |-> now]]
             /\ gaps' = gaps \cup {[conn |-> c, from |-> ing[Worker].asked, upto |-> now]}
             /\ ing' = [ing EXCEPT ![Worker] = Idle]
        ELSE Go(Worker, "fail") /\ UNCHANGED <<conn, gaps>>
  /\ UNCHANGED <<now, posted, rows, importing, queue, request, analysed, interrupted,
                 dropped, stranded, faults, restarts>>

\* The fault of a catch block that only rethrows.
SyncFailsQuietly ==
  /\ ing[Worker].pc = "fail"
  /\ ing' = [ing EXCEPT ![Worker] = Idle]
  /\ UNCHANGED <<now, posted, data, queue, request, history, faults, restarts>>

FileRows(m) == {i \in Items : Origin[i] = m}

\* The fault of the other enumeration's value.
SyncStatusOf(m) == IF ing[m].pc = "fail" THEN "ERROR" ELSE "SYNCED"

FinalStatus(m) ==
  IF ing[m].pc = "fail" \/ (FileRows(m) \cap Malformed # {} /\ ~ing[m].inserted)
  THEN "FAILED" ELSE "PROCESSED"

\* The update at the end may fail as well, and throws into the catch block.  So
\* does the audit record that an import writes after its update.
FinishFails(p) ==
  /\ ing[p].pc = "finish"
  /\ Fault
  /\ Go(p, "fail")
  /\ importing' \in {importing} \cup
       {[importing EXCEPT ![m] = FinalStatus(m)] : m \in {p} \cap Imports}
  /\ UNCHANGED <<now, posted, conn, rows, queue, request, history, restarts>>

\* And so may the update in the catch block: the connection goes on saying
\* SYNCING without a job, an import keeps the status it had.
CatchFails(p) ==
  /\ ing[p].pc = "fail"
  /\ Fault
  /\ ing' = [ing EXCEPT ![p] = Idle]
  /\ stranded' = stranded \cup ({ing[p].ref} \cap Connections)
  /\ UNCHANGED <<now, posted, data, queue, request, analysed, interrupted, dropped, gaps,
                 restarts>>

\* The catch block: lastSyncedAt stays; the update of a removed connection
\* throws in its turn.  The queue does not try the job again.
SyncFails ==
  /\ ing[Worker].pc = "fail"
  /\ LET c == ing[Worker].ref
     IN conn' = IF Exists(c) THEN [conn EXCEPT ![c].status = "ERROR"] ELSE conn
  /\ ing' = [ing EXCEPT ![Worker] = Idle]
  /\ UNCHANGED <<now, posted, rows, importing, queue, request, history, faults, restarts>>

-----------------------------------------------------------------------------
(* ingest, by the worker or by an import.                                  *)

RefExists(p) == p = Worker => Exists(ing[p].ref)

\* A row is refused when its key is taken, when its connection is gone, or
\* by an error of the database; ingest goes on with the next row each time.
Insert(p, i) ==
  /\ ing[p].pc = "insert"
  /\ i \in ing[p].todo
  /\ RefExists(p)
  /\ KeyOf[i] \notin HeldKeys
  /\ rows' = rows \cup {[item |-> i, ref |-> ing[p].ref]}
  /\ ing' = [ing EXCEPT ![p].todo = ing[p].todo \ {i}, ![p].inserted = TRUE]
  /\ UNCHANGED <<now, posted, conn, importing, queue, request, history, faults, restarts>>

SkipRow(p, i) ==
  /\ ing[p].pc = "insert"
  /\ i \in ing[p].todo
  /\ KeyOf[i] \in HeldKeys \/ ~RefExists(p)
  /\ ing' = [ing EXCEPT ![p].todo = ing[p].todo \ {i}]
  /\ UNCHANGED <<now, posted, data, queue, request, history, faults, restarts>>

InsertFails(p, i) ==
  /\ ing[p].pc = "insert"
  /\ i \in ing[p].todo
  /\ Fault
  /\ dropped' = dropped \cup {i}
  /\ ing' = [ing EXCEPT ![p].todo = ing[p].todo \ {i}]
  /\ UNCHANGED <<now, posted, data, queue, request, analysed, interrupted, gaps, stranded,
                 restarts>>

\* The fault of an analysis that the import's ingestion leaves out.
AfterSyncInserts(p) == IF ing[p].inserted /\ p = Worker THEN "detect" ELSE "finish"

\* detectInternalTransfers and reconcile run only after a first new row.
AfterInserts(p) == IF ing[p].inserted THEN "detect" ELSE "finish"

FinishInserts(p) ==
  /\ ing[p].pc = "insert"
  /\ ing[p].todo = {}
  /\ Go(p, AfterInserts(p))
  /\ UNCHANGED <<now, posted, data, queue, request, history, faults, restarts>>

Detect(p) ==
  /\ ing[p].pc = "detect"
  /\ ing' = [ing EXCEPT ![p].pc = "reconcile", ![p].read = Stored]
  /\ UNCHANGED <<now, posted, data, queue, request, history, faults, restarts>>

Reconcile(p) ==
  /\ ing[p].pc = "reconcile"
  /\ analysed' = analysed \cup ing[p].read
  /\ Go(p, "finish")
  /\ UNCHANGED <<now, posted, data, queue, request, interrupted, dropped, gaps,
                 stranded, faults, restarts>>

AnalysisFails(p) ==
  /\ ing[p].pc \in {"detect", "reconcile"}
  /\ Fault
  /\ Go(p, "fail")
  /\ interrupted' = interrupted \cup (Stored \ analysed)
  /\ UNCHANGED <<now, posted, data, queue, request, analysed, dropped, gaps, stranded,
                 restarts>>

-----------------------------------------------------------------------------
(* importCsv.                                                              *)

\* Rejected rows are listed in errorMessage; the others are ingested.
ImportCsv(m) ==
  /\ importing[m] = "NONE"
  /\ FileRows(m) # {}
  /\ importing' = [importing EXCEPT ![m] = "PENDING"]
  /\ ing' = [ing EXCEPT ![m] = [Idle EXCEPT !.pc = "insert", !.ref = m,
                                            !.todo = FileRows(m) \ Malformed]]
  /\ UNCHANGED <<now, posted, conn, rows, queue, request, history, faults, restarts>>

FinishImport(m) ==
  /\ ing[m].pc \in {"finish", "fail"}
  /\ importing' = [importing EXCEPT ![m] = FinalStatus(m)]
  /\ ing' = [ing EXCEPT ![m] = Idle]
  /\ UNCHANGED <<now, posted, conn, rows, queue, request, history, faults, restarts>>

-----------------------------------------------------------------------------
(* The process restarts: requests, imports and the job in hand stop where  *)
(* they are.  The queue, which outlives it, gives a stalled job out once   *)
(* more, before the others, and fails it the second time.                  *)

JobInHand == ing[Worker].pc # "idle"

Restart ==
  /\ restarts < MaxRestarts
  /\ restarts' = restarts + 1
  /\ ing' = [p \in Ingesters |-> Idle]
  /\ request' = [r \in Requests |-> NoRequest]
  /\ queue' = IF JobInHand /\ ~ing[Worker].stalled
              THEN <<[conn |-> ing[Worker].ref, stalled |-> TRUE]>> \o queue
              ELSE queue
  /\ stranded' = stranded
       \cup {c \in Connections : \E r \in Requests : request[r] = [pc |-> "add", conn |-> c]}
       \cup (IF JobInHand /\ ing[Worker].stalled THEN {ing[Worker].ref} ELSE {})
  /\ interrupted' = interrupted \cup (Stored \ analysed)
  /\ UNCHANGED <<now, posted, data, analysed, dropped, gaps, faults>>

-----------------------------------------------------------------------------
Init ==
  /\ now = 0
  /\ posted = [i \in Items |-> Never]
  /\ conn = [c \in Connections |-> Absent]
  /\ importing = [m \in Imports |-> "NONE"]
  /\ rows = {}
  /\ queue = <<>>
  /\ request = [r \in Requests |-> NoRequest]
  /\ ing = [p \in Ingesters |-> Idle]
  /\ analysed = {} /\ interrupted = {} /\ dropped = {} /\ gaps = {} /\ stranded = {}
  /\ faults = 0 /\ restarts = 0

RequestStep(r) == MarkSyncing(r) \/ Enqueue(r)

Ingest(p) ==
  \/ \E i \in Items : Insert(p, i) \/ SkipRow(p, i)
  \/ FinishInserts(p) \/ Detect(p) \/ Reconcile(p)

PerformSync == TakeJob \/ Fetch \/ Ingest(Worker) \/ Stamp \/ SyncFails

Import(m) == Ingest(m) \/ FinishImport(m)

Next ==
  \/ Tick \/ Restart
  \/ \E i \in Items : Post(i)
  \/ \E c \in Connections : Create(c) \/ Remove(c)
  \/ \E r \in Requests : \/ \E c \in Connections : RequestSync(r, c)
                         \/ RequestStep(r) \/ EnqueueFails(r)
  \/ PerformSync \/ TakeJobFails \/ FetchFails
  \/ \E m \in Imports : ImportCsv(m) \/ Import(m)
  \/ \E p \in Ingesters : \/ AnalysisFails(p) \/ FinishFails(p) \/ CatchFails(p)
                          \/ \E i \in Items : InsertFails(p, i)

Spec == Init /\ [][Next]_vars

\* A handler that runs goes on, and the worker takes the jobs that wait.
FairSpec ==
  /\ Spec
  /\ WF_vars(PerformSync)
  /\ \A r \in Requests : WF_vars(RequestStep(r))
  /\ \A m \in Imports : WF_vars(Import(m))

-----------------------------------------------------------------------------
(* Properties.                                                             *)

\* Types of the state, with the bounds on the clock and the queue.
TypeOK ==
  /\ now \in Time
  /\ posted \in [Items -> Time \cup {Never}]
  /\ conn \in [Connections -> ConnectionRow]
  /\ importing \in [Imports -> CsvImportStatus \cup {"NONE"}]
  /\ rows \subseteq Row
  /\ queue \in Seq(Job) /\ Len(queue) <= MaxQueue + 1
  /\ request \in [Requests -> {NoRequest} \cup [pc : {"update", "add"}, conn : Connections]]
  /\ ing \in [Ingesters -> Ingestion]
  /\ analysed \subseteq Stored /\ interrupted \subseteq Stored /\ dropped \subseteq Items
  /\ gaps \subseteq [conn : Connections, from : Time, upto : Time]
  /\ stranded \subseteq Connections
  /\ faults \in 0..MaxFaults /\ restarts \in 0..MaxRestarts

\* Incremental synchronisation reads an account from lastSyncedAt on, so
\* what is older must be in the table.  It is, whatever failed or restarted
\* on the way, but for what the code is known to lose: items another row
\* holds the key of, items skipped without an error, and items dated between
\* a fetch and the stamp that followed it.
Lost(c, i) ==
  /\ Exists(c) /\ Origin[i] = AccountOf[c]
  /\ posted[i] # Never /\ posted[i] < conn[c].last
  /\ KeyOf[i] \notin HeldKeys
InGap(c, i) == \E g \in gaps : g.conn = c /\ g.from <= posted[i] /\ posted[i] < g.upto
LostOnlyKnownWays ==
  \A c \in Connections, i \in Items : Lost(c, i) => i \in dropped \/ InGap(c, i)

\* While a connection says SYNCING there is a job for it, in the queue, in
\* the worker's hands or about to be queued, or since it was last marked a call
\* that failed has left it so: the queueing, the reading of the connection before
\* the try block or the update in the catch block, or a second stall of its job.
HasJob(c) ==
  \/ \E r \in Requests : request[r] = [pc |-> "add", conn |-> c]
  \/ \E k \in 1..Len(queue) : queue[k].conn = c
  \/ JobInHand /\ ing[Worker].ref = c
SyncingTended ==
  \A c \in Connections : conn[c].status = "SYNCING" => HasJob(c) \/ c \in stranded

\* A row that names a connection names one that exists and that is connected
\* to the account the row came from, also when the connection is removed in
\* the middle of an ingestion.
RowsKnowTheirSource ==
  \A r \in rows : /\ r.ref \in Connections =>
                       Exists(r.ref) /\ AccountOf[r.ref] = Origin[r.item]
                  /\ r.ref \in Imports => r.ref = Origin[r.item]

\* When no ingestion is under way every row has been through the search for
\* internal transfers and negative balances, unless an error or a restart
\* came between the row and the search.
AllIdle == \A p \in Ingesters : ing[p].pc = "idle"
AnalysedUnlessInterrupted == AllIdle => Stored \subseteq analysed \cup interrupted

\* A connection that says SYNCING stops to say so, unless one of the calls
\* above has failed and left it without a job.
SyncingEnds ==
  \A c \in Connections :
    (conn[c].status = "SYNCING" /\ c \notin stranded)
      ~> (conn[c].status # "SYNCING" \/ c \in stranded)

\* The comments' claim: what is in the table has been searched for internal
\* transfers, or a later synchronisation makes up for it.
EveryRowAnalysed ==
  AllIdle /\ (\E c \in Connections : conn[c].status = "SYNCED") => Stored \subseteq analysed

\* The comment's claim: a row that is refused for its key is there already.
\* So what was read and met no error is stored, under its own row.
EveryItemStored ==
  \A c \in Connections, i \in Items :
    (/\ Exists(c) /\ Origin[i] = AccountOf[c]
     /\ posted[i] # Never /\ posted[i] < conn[c].last)
      => i \in Stored \cup dropped \/ InGap(c, i)
=============================================================================
