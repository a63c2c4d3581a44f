------------------------- MODULE SyncPipeline_proofs -------------------------
(***************************************************************************)
(* Proofs about SyncPipeline for every number of connections, imports,     *)
(* items, requests, failures and restarts.                                 *)
(***************************************************************************)
EXTENDS SyncPipeline, TLAPS

Busy == ing[Worker].pc # "idle"

\* What TypeOK needs: the job in hand counts among the jobs of the queue, the
\* worker works on a connection, the account has been read before rows are
\* inserted, and an analysis has read rows that are still there.
TypeInv ==
  /\ TypeOK
  /\ Busy => /\ Len(queue) <= MaxQueue
             /\ ing[Worker].ref \in Connections
  /\ ing[Worker].pc \in {"insert", "detect", "reconcile", "finish"} => ing[Worker].asked \in Time
  /\ \A p \in Ingesters : ing[p].read \subseteq Stored
  /\ \A m \in Imports : ing[m].pc # "fetch"

LEMMA WorkerIngests == Worker \in Ingesters
  BY DEF Ingesters

\* Removing a connection changes what rows refer to, not which rows there are.
LEMMA RemoveKeepsRows ==
  ASSUME NEW c, Remove(c), TypeOK
  PROVE  Stored' = Stored
  <1> DEFINE Cut(r) == [r EXCEPT !.ref = IF r.ref = c THEN NoRef ELSE r.ref]
  <1>1. ASSUME NEW r \in rows PROVE Cut(r).item = r.item
    BY DEF TypeOK, Row
  <1>2. rows' = {Cut(r) : r \in rows}
    BY DEF Remove
  <1> HIDE DEF Cut
  <1>3. ASSUME NEW i \in Stored PROVE i \in Stored'
    <2>1. PICK r \in rows : r.item = i
      BY <1>3 DEF Stored
    <2>2. Cut(r) \in rows' /\ Cut(r).item = i
      BY <2>1, <1>1, <1>2
    <2> QED BY <2>2 DEF Stored
  <1>4. ASSUME NEW i \in Stored' PROVE i \in Stored
    <2>1. PICK s \in rows' : s.item = i
      BY <1>4 DEF Stored
    <2>2. PICK r \in rows : s = Cut(r)
      BY <2>1, <1>2
    <2> QED BY <2>1, <2>2, <1>1 DEF Stored
  <1> QED BY <1>3, <1>4

LEMMA InsertAddsRow ==
  ASSUME NEW p, NEW i, Insert(p, i)
  PROVE  Stored' = Stored \cup {i}
  <1>1. [item |-> i, ref |-> ing[p].ref].item = i
    OBVIOUS
  <1> QED BY <1>1 DEF Insert, Stored

LEMMA SameRows == ASSUME UNCHANGED rows PROVE Stored' = Stored
  BY DEF Stored

----------------------------------------------------------------------------
\* Type correctness

\* An ingester goes on with a record of the right type.
LEMMA IngestionType ==
  ASSUME TypeInv, NEW p \in Ingesters, NEW g \in Ingestion,
         ing' = [ing EXCEPT ![p] = g],
         g.read \subseteq Stored', Stored \subseteq Stored',
         p = Worker => /\ g.pc # "idle" => /\ Len(queue') <= MaxQueue
                                           /\ g.ref \in Connections
                       /\ g.pc \in {"insert", "detect", "reconcile", "finish"} => g.asked \in Time,
         p # Worker => g.pc # "fetch" /\ queue' = queue
  PROVE  /\ ing' \in [Ingesters -> Ingestion]
         /\ Busy' => Len(queue') <= MaxQueue /\ ing'[Worker].ref \in Connections
         /\ ing'[Worker].pc \in {"insert", "detect", "reconcile", "finish"} => ing'[Worker].asked \in Time
         /\ \A q \in Ingesters : ing'[q].read \subseteq Stored'
         /\ \A m \in Imports : ing'[m].pc # "fetch"
  <1>1. ing \in [Ingesters -> Ingestion]
    BY DEF TypeInv, TypeOK
  <1>2. ing'[p] = g /\ \A q \in Ingesters \ {p} : ing'[q] = ing[q]
    BY <1>1
  <1>3. \A m \in Imports : m \in Ingesters /\ m # Worker
    BY SyncAssumption DEF Ingesters
  <1> QED BY <1>1, <1>2, <1>3, WorkerIngests DEF TypeInv, Busy

LEMMA TypeInit == Init => TypeInv
  <1> SUFFICES ASSUME Init PROVE TypeInv
    OBVIOUS
  <1>1. Idle \in Ingestion
    BY DEF Idle, Ingestion, Stages
  <1>2. ing = [p \in Ingesters |-> Idle] /\ \A p \in Ingesters : ing[p] = Idle
    BY DEF Init
  <1>3. \A p \in Ingesters : ing[p].pc = "idle" /\ ing[p].read = {}
    BY <1>2 DEF Idle
  <1>4. queue \in Seq(Job) /\ Len(queue) <= MaxQueue + 1
    BY SyncAssumption DEF Init
  <1>5. conn \in [Connections -> ConnectionRow]
    BY DEF Init, ConnectionRow, Absent
  <1>6. TypeOK
    BY <1>1, <1>2, <1>4, <1>5, SyncAssumption DEF Init, TypeOK, Time, NoRequest, Row
  <1> QED BY <1>3, <1>6, WorkerIngests DEF TypeInv, Busy, Ingesters

\* The clock, the accounts and the list of connections.
LEMMA WorldType ==
  ASSUME TypeInv,
         Tick \/ (\E i \in Items : Post(i)) \/ (\E c \in Connections : Create(c) \/ Remove(c))
  PROVE  TypeInv'
  <1>1. CASE Tick
    BY <1>1, SameRows, SyncAssumption DEF Tick, TypeInv, TypeOK, Time, data, history, Busy
  <1>2. ASSUME NEW i \in Items, Post(i) PROVE TypeInv'
    BY <1>2, SameRows DEF Post, TypeInv, TypeOK, Time, data, history, Busy
  <1>3. ASSUME NEW c \in Connections, Create(c) PROVE TypeInv'
    <2>1. [status |-> "NEVER_SYNCED", last |-> Never] \in ConnectionRow
      BY DEF ConnectionRow, SyncStatus
    <2> QED BY <1>3, <2>1, SameRows DEF Create, TypeInv, TypeOK, history, Busy
  <1>4. ASSUME NEW c \in Connections, Remove(c) PROVE TypeInv'
    <2>1. Removed \in ConnectionRow
      BY DEF ConnectionRow, Removed
    <2>2. rows' \subseteq Row
      BY <1>4 DEF Remove, TypeInv, TypeOK, Row
    <2>3. Stored' = Stored
      BY <1>4, RemoveKeepsRows DEF TypeInv
    <2> QED BY <1>4, <2>1, <2>2, <2>3 DEF Remove, TypeInv, TypeOK, history, Busy
  <1> QED BY <1>1, <1>2, <1>3, <1>4

LEMMA RequestType ==
  ASSUME TypeInv, NEW r \in Requests,
         \/ \E c \in Connections : RequestSync(r, c)
         \/ RequestStep(r) \/ EnqueueFails(r)
  PROVE  TypeInv'
  <1> USE DEF TypeInv, TypeOK
  <1>1. request[r] = NoRequest \/ request[r] \in [pc : {"update", "add"}, conn : Connections]
    OBVIOUS
  <1>2. ASSUME NEW c \in Connections, RequestSync(r, c) PROVE TypeInv'
    BY <1>2, SameRows DEF RequestSync, data, history, Busy
  <1>3. CASE MarkSyncing(r)
    <2>1. request[r] \in [pc : {"update", "add"}, conn : Connections]
      BY <1>1, <1>3 DEF MarkSyncing, NoRequest
    <2>2. conn' \in [Connections -> ConnectionRow]
      <3>1. [conn[request[r].conn] EXCEPT !.status = "SYNCING"] \in ConnectionRow
        BY <2>1 DEF ConnectionRow, SyncStatus
      <3>2. conn' \in {conn, [conn EXCEPT ![request[r].conn] =
                                [conn[request[r].conn] EXCEPT !.status = "SYNCING"]]}
        BY <1>3 DEF MarkSyncing
      <3> QED BY <2>1, <3>1, <3>2
    <2>3. request' \in [Requests -> {NoRequest} \cup [pc : {"update", "add"}, conn : Connections]]
      <3>1. [request[r] EXCEPT !.pc = "add"] \in [pc : {"update", "add"}, conn : Connections]
        BY <2>1
      <3>2. request' \in {[request EXCEPT ![r] = [request[r] EXCEPT !.pc = "add"]],
                          [request EXCEPT ![r] = NoRequest]}
        BY <1>3 DEF MarkSyncing
      <3> QED BY <3>1, <3>2
    <2> QED BY <1>3, <2>2, <2>3, SameRows DEF MarkSyncing, Busy
  <1>4. CASE Enqueue(r)
    <2>1. request[r] \in [pc : {"update", "add"}, conn : Connections]
      BY <1>1, <1>4 DEF Enqueue, NoRequest
    <2>2. [conn |-> request[r].conn, stalled |-> FALSE] \in Job
      BY <2>1 DEF Job
    <2>3. queue' \in Seq(Job) /\ Len(queue') <= MaxQueue
      BY <1>4, <2>2, SyncAssumption DEF Enqueue
    <2> QED BY <1>4, <2>3, SameRows, SyncAssumption DEF Enqueue, data, history, Busy
  <1>5. CASE EnqueueFails(r)
    <2>1. request[r] \in [pc : {"update", "add"}, conn : Connections]
      BY <1>1, <1>5 DEF EnqueueFails, NoRequest
    <2> QED BY <1>5, <2>1, SameRows, SyncAssumption DEF EnqueueFails, Fault, data, Busy
  <1> QED BY <1>2, <1>3, <1>4, <1>5 DEF RequestStep

\* The worker between two jobs and between the rows of one.
LEMMA TakeJobType ==
  ASSUME TypeInv, TakeJob \/ TakeJobFails
  PROVE  TypeInv'
  <1>1. queue # <<>> /\ ing[Worker].pc = "idle" /\ UNCHANGED <<now, posted, data, request>>
    BY DEF TakeJob, TakeJobFails
  <1>2. /\ queue' = Tail(queue) /\ Head(queue) \in Job
        /\ queue' \in Seq(Job) /\ Len(queue') <= MaxQueue
    <2>1. queue \in Seq(Job) /\ Len(queue) <= MaxQueue + 1 /\ queue' = Tail(queue)
      BY DEF TakeJob, TakeJobFails, TypeInv, TypeOK
    <2> QED BY <1>1, <2>1, SyncAssumption
  <1>3. Stored' = Stored
    BY <1>1, SameRows DEF data
  <1>4. CASE TakeJob
    <2> DEFINE g == IF Exists(Head(queue).conn)
                    THEN [Idle EXCEPT !.pc = "fetch", !.ref = Head(queue).conn,
                                      !.stalled = Head(queue).stalled,
                                      !.since = conn[Head(queue).conn].last]
                    ELSE Idle
    <2>1. /\ g \in Ingestion /\ g.read = {}
          /\ g.pc \in {"idle", "fetch"} /\ (g.pc # "idle" => g.ref \in Connections)
      <3>1. Head(queue).conn \in Connections /\ Head(queue).stalled \in BOOLEAN
        BY <1>2 DEF Job
      <3>2. conn[Head(queue).conn].last \in Time \cup {Never}
        BY <3>1 DEF TypeInv, TypeOK, ConnectionRow
      <3> QED BY <3>1, <3>2 DEF Idle, Ingestion, Stages
    <2>2. ing' = [ing EXCEPT ![Worker] = g]
      BY <1>4 DEF TakeJob
    <2> HIDE DEF g
    <2>3. /\ ing' \in [Ingesters -> Ingestion]
          /\ Busy' => Len(queue') <= MaxQueue /\ ing'[Worker].ref \in Connections
          /\ ing'[Worker].pc \in {"insert", "detect", "reconcile", "finish"} => ing'[Worker].asked \in Time
          /\ \A q \in Ingesters : ing'[q].read \subseteq Stored'
          /\ \A m \in Imports : ing'[m].pc # "fetch"
      BY <2>1, <2>2, <1>2, <1>3, WorkerIngests, IngestionType
    <2> QED BY <1>1, <1>2, <1>3, <1>4, <2>3, SyncAssumption
            DEF TakeJob, TypeInv, TypeOK, data, history
  <1>5. CASE TakeJobFails
    <2>1. Head(queue).conn \in Connections
      BY <1>2 DEF Job
    <2> QED BY <1>1, <1>2, <1>3, <1>5, <2>1, SyncAssumption
            DEF TakeJobFails, Fault, TypeInv, TypeOK, data, Busy
  <1> QED BY <1>4, <1>5

\* A stage that ends with a new record for the ingester and leaves the
\* queue and the connections' types alone.
LEMMA StageType ==
  ASSUME TypeInv, NEW p \in Ingesters, NEW g \in Ingestion,
         ing' = [ing EXCEPT ![p] = g],
         UNCHANGED <<now, posted, queue, request, restarts>>, stranded' \subseteq Connections,
         g.read \subseteq Stored', Stored \subseteq Stored', rows' \subseteq Row,
         conn' \in [Connections -> ConnectionRow],
         importing' \in [Imports -> CsvImportStatus \cup {"NONE"}],
         analysed' \subseteq Stored', interrupted' \subseteq Stored', dropped' \subseteq Items,
         gaps' \subseteq [conn : Connections, from : Time, upto : Time],
         faults' \in 0..MaxFaults,
         p = Worker => /\ g.pc # "idle" => Len(queue) <= MaxQueue /\ g.ref \in Connections
                       /\ g.pc \in {"insert", "detect", "reconcile", "finish"} => g.asked \in Time,
         p # Worker => g.pc # "fetch"
  PROVE  TypeInv'
  <1>1. queue' = queue
    OBVIOUS
  <1>2. /\ ing' \in [Ingesters -> Ingestion]
        /\ Busy' => Len(queue') <= MaxQueue /\ ing'[Worker].ref \in Connections
        /\ ing'[Worker].pc \in {"insert", "detect", "reconcile", "finish"} => ing'[Worker].asked \in Time
        /\ \A q \in Ingesters : ing'[q].read \subseteq Stored'
        /\ \A m \in Imports : ing'[m].pc # "fetch"
    BY <1>1, IngestionType
  <1>3. TypeOK'
    BY <1>2 DEF TypeInv, TypeOK
  <1> QED BY <1>2, <1>3 DEF TypeInv

LEMMA GoType ==
  ASSUME TypeInv, NEW p \in Ingesters, ing[p].pc # "idle",
         NEW stage \in Stages \ {"fetch"}, Go(p, stage),
         stage \in {"insert", "detect", "reconcile", "finish"} =>
           ing[p].pc \in {"insert", "detect", "reconcile", "finish"},
         UNCHANGED <<now, posted, queue, request, restarts, stranded, data>>,
         analysed' \subseteq Stored, interrupted' \subseteq Stored, UNCHANGED <<dropped, gaps>>,
         faults' \in 0..MaxFaults
  PROVE  TypeInv'
  <1> DEFINE g == [ing[p] EXCEPT !.pc = stage]
  <1>1. ing[p] \in Ingestion
    BY DEF TypeInv, TypeOK
  <1>2. /\ g \in Ingestion /\ g.pc = stage /\ g.read = ing[p].read
        /\ g.ref = ing[p].ref /\ g.asked = ing[p].asked
    BY <1>1 DEF Ingestion
  <1>3. ing' = [ing EXCEPT ![p] = g]
    BY DEF Go
  <1>4. Stored' = Stored
    BY SameRows DEF data
  <1>5. ing[p].read \subseteq Stored
    BY DEF TypeInv
  <1> HIDE DEF g
  <1>6. p = Worker => /\ g.pc # "idle" => Len(queue) <= MaxQueue /\ g.ref \in Connections
                      /\ g.pc \in {"insert", "detect", "reconcile", "finish"} => g.asked \in Time
    BY <1>2 DEF TypeInv, Busy
  <1>7. /\ rows' \subseteq Row /\ conn' \in [Connections -> ConnectionRow]
        /\ importing' \in [Imports -> CsvImportStatus \cup {"NONE"}]
        /\ dropped' \subseteq Items /\ stranded' \subseteq Connections
        /\ gaps' \subseteq [conn : Connections, from : Time, upto : Time]
    BY DEF TypeInv, TypeOK, data
  <1> QED BY <1>2, <1>3, <1>4, <1>5, <1>6, <1>7, StageType

LEMMA FetchType ==
  ASSUME TypeInv, Fetch \/ FetchFails
  PROVE  TypeInv'
  <1>1. CASE FetchFails
    BY <1>1, GoType, WorkerIngests, SyncAssumption
       DEF FetchFails, Fault, Stages, data, history, TypeInv, TypeOK
  <1>2. CASE Fetch
    <2>1. PICK page \in SUBSET Due(AccountOf[ing[Worker].ref], ing[Worker].since) :
            /\ IF page = Due(AccountOf[ing[Worker].ref], ing[Worker].since)
               THEN UNCHANGED <<faults, dropped>>
               ELSE /\ Fault
                    /\ dropped' = dropped \cup
                         (Due(AccountOf[ing[Worker].ref], ing[Worker].since) \ page)
            /\ ing' = [ing EXCEPT ![Worker].pc = "insert", ![Worker].todo = page,
                                  ![Worker].asked = now]
      BY <1>2 DEF Fetch
    <2> DEFINE g == [ing[Worker] EXCEPT !.pc = "insert", !.todo = page, !.asked = now]
    <2>2. ing[Worker] \in Ingestion /\ ing[Worker].pc = "fetch" /\ page \subseteq Items
      BY <1>2, WorkerIngests DEF Fetch, TypeInv, TypeOK, Due
    <2>3. /\ g \in Ingestion /\ g.asked \in Time
          /\ g.read = ing[Worker].read /\ g.ref = ing[Worker].ref
      BY <2>2 DEF Ingestion, Stages, TypeInv, TypeOK
    <2>4. ing' = [ing EXCEPT ![Worker] = g]
      BY <2>1
    <2>5. Stored' = Stored /\ UNCHANGED <<now, posted, data, queue, request, analysed,
                                           interrupted, gaps, stranded, restarts>>
      BY <1>2, SameRows DEF Fetch, data
    <2>6. dropped' \subseteq Items /\ faults' \in 0..MaxFaults
      BY <2>1, SyncAssumption DEF Fault, TypeInv, TypeOK, Due
    <2>7. Len(queue) <= MaxQueue /\ ing[Worker].ref \in Connections
      BY <2>2 DEF TypeInv, Busy
    <2>8. /\ g.read \subseteq Stored' /\ rows' \subseteq Row
          /\ conn' \in [Connections -> ConnectionRow]
          /\ importing' \in [Imports -> CsvImportStatus \cup {"NONE"}]
          /\ analysed' \subseteq Stored' /\ interrupted' \subseteq Stored'
          /\ gaps' \subseteq [conn : Connections, from : Time, upto : Time]
          /\ stranded' \subseteq Connections
      BY <2>3, <2>5, WorkerIngests DEF TypeInv, TypeOK, data
    <2> HIDE DEF g
    <2> QED BY <2>3, <2>4, <2>5, <2>6, <2>7, <2>8, WorkerIngests, StageType
  <1> QED BY <1>1, <1>2

LEMMA IdleFacts ==
  /\ Idle \in Ingestion /\ Idle.pc = "idle" /\ Idle.read = {}
  BY DEF Idle, Ingestion, Stages

LEMMA EndType ==
  ASSUME TypeInv, Stamp \/ SyncFails
  PROVE  TypeInv'
  <1>1. ing[Worker].pc \in {"finish", "fail"} /\ ing[Worker].ref \in Connections
    BY DEF Stamp, SyncFails, TypeInv, Busy
  <1>2. CASE SyncFails
    <2>1. conn' \in [Connections -> ConnectionRow]
      <3>1. [conn[ing[Worker].ref] EXCEPT !.status = "ERROR"] \in ConnectionRow
        BY <1>1 DEF ConnectionRow, SyncStatus, TypeInv, TypeOK
      <3>2. conn' \in {conn, [conn EXCEPT ![ing[Worker].ref] =
                                [conn[ing[Worker].ref] EXCEPT !.status = "ERROR"]]}
        BY <1>2 DEF SyncFails
      <3> QED BY <1>1, <3>1, <3>2 DEF TypeInv, TypeOK
    <2> QED BY <1>2, <2>1, IdleFacts, WorkerIngests, SameRows, StageType
            DEF SyncFails, TypeInv, TypeOK, history
  <1>3. CASE Stamp /\ Exists(ing[Worker].ref)
    <2>1. conn' \in [Connections -> ConnectionRow]
      <3>1. [status |-> "SYNCED", last |-> now] \in ConnectionRow
        BY DEF ConnectionRow, SyncStatus, TypeInv, TypeOK
      <3> QED BY <1>1, <1>3, <3>1 DEF Stamp, TypeInv, TypeOK
    <2>2. ing[Worker].asked \in Time /\ now \in Time
      BY <1>3 DEF Stamp, TypeInv, TypeOK
    <2>3. gaps' \subseteq [conn : Connections, from : Time, upto : Time]
      BY <1>1, <1>3, <2>2 DEF Stamp, TypeInv, TypeOK
    <2> QED BY <1>3, <2>1, <2>3, IdleFacts, WorkerIngests, SameRows, StageType
            DEF Stamp, TypeInv, TypeOK
  <1>4. CASE Stamp /\ ~Exists(ing[Worker].ref)
    BY <1>4, GoType, WorkerIngests DEF Stamp, Stages, data, TypeInv, TypeOK
  <1> QED BY <1>2, <1>3, <1>4

\* One row of an ingestion: it leaves the list, with or without being stored.
LEMMA RowType ==
  ASSUME TypeInv, NEW p \in Ingesters, NEW i \in Items,
         Insert(p, i) \/ SkipRow(p, i) \/ InsertFails(p, i)
  PROVE  TypeInv'
  <1> DEFINE g == [ing[p] EXCEPT !.todo = ing[p].todo \ {i},
                                 !.inserted = IF Insert(p, i) THEN TRUE ELSE ing[p].inserted]
  <1>1. ing[p] \in Ingestion /\ ing[p].pc = "insert" /\ ing[p].read \subseteq Stored
    BY DEF Insert, SkipRow, InsertFails, TypeInv, TypeOK
  <1>2. /\ g \in Ingestion /\ g.pc = "insert" /\ g.read = ing[p].read
        /\ g.ref = ing[p].ref /\ g.asked = ing[p].asked
    BY <1>1 DEF Ingestion
  <1>3. ing' = [ing EXCEPT ![p] = g]
    <2>1. CASE Insert(p, i)
      BY <2>1 DEF Insert
    <2>2. CASE ~Insert(p, i)
      <3>1. g = [ing[p] EXCEPT !.todo = ing[p].todo \ {i}]
        BY <1>1, <2>2 DEF Ingestion
      <3> QED BY <2>2, <3>1 DEF SkipRow, InsertFails
    <2> QED BY <2>1, <2>2
  <1>4. Stored \subseteq Stored' /\ rows' \subseteq Row
    <2>1. CASE Insert(p, i)
      <3>1. [item |-> i, ref |-> ing[p].ref] \in Row
        BY <1>1 DEF Row, Ingestion
      <3> QED BY <2>1, <3>1, InsertAddsRow DEF Insert, TypeInv, TypeOK
    <2>2. CASE SkipRow(p, i) \/ InsertFails(p, i)
      BY <2>2, SameRows DEF SkipRow, InsertFails, data, TypeInv, TypeOK
    <2> QED BY <2>1, <2>2
  <1>5. /\ UNCHANGED <<now, posted, conn, importing, queue, request, analysed, interrupted,
                       gaps, stranded, restarts>>
        /\ dropped' \subseteq Items /\ faults' \in 0..MaxFaults
    BY SyncAssumption DEF Insert, SkipRow, InsertFails, Fault, data, history, TypeInv, TypeOK
  <1>6. p = Worker => /\ Len(queue) <= MaxQueue /\ g.ref \in Connections
                      /\ g.asked \in Time
    BY <1>1, <1>2 DEF TypeInv, Busy
  <1> HIDE DEF g
  <1>7. /\ g.read \subseteq Stored' /\ conn' \in [Connections -> ConnectionRow]
        /\ importing' \in [Imports -> CsvImportStatus \cup {"NONE"}]
        /\ analysed' \subseteq Stored' /\ interrupted' \subseteq Stored'
        /\ gaps' \subseteq [conn : Connections, from : Time, upto : Time]
        /\ stranded' \subseteq Connections
    BY <1>1, <1>2, <1>4, <1>5 DEF TypeInv, TypeOK
  <1> QED BY <1>2, <1>3, <1>4, <1>5, <1>6, <1>7, StageType

LEMMA AnalysisType ==
  ASSUME TypeInv, NEW p \in Ingesters,
         FinishInserts(p) \/ Detect(p) \/ Reconcile(p) \/ AnalysisFails(p)
  PROVE  TypeInv'
  <1>1. ing[p] \in Ingestion /\ ing[p].read \subseteq Stored
    BY DEF TypeInv, TypeOK
  <1>2. CASE FinishInserts(p)
    BY <1>2, GoType DEF FinishInserts, AfterInserts, Stages, data, history, TypeInv, TypeOK
  <1>3. CASE Detect(p)
    <2> DEFINE g == [ing[p] EXCEPT !.pc = "reconcile", !.read = Stored]
    <2>1. /\ g \in Ingestion /\ g.pc = "reconcile" /\ g.read = Stored
          /\ g.ref = ing[p].ref /\ g.asked = ing[p].asked
      <3>1. Stored \subseteq Items
        BY DEF Stored, TypeInv, TypeOK, Row
      <3> QED BY <1>1, <3>1 DEF Ingestion, Stages
    <2>2. ing' = [ing EXCEPT ![p] = g] /\ ing[p].pc = "detect"
      BY <1>3 DEF Detect
    <2>3. UNCHANGED <<now, posted, data, queue, request, history, faults, restarts>>
      BY <1>3 DEF Detect
    <2>4. Stored' = Stored
      BY <2>3, SameRows DEF data
    <2>5. p = Worker => Len(queue) <= MaxQueue /\ g.ref \in Connections /\ g.asked \in Time
      BY <2>1, <2>2 DEF TypeInv, Busy
    <2> HIDE DEF g
    <2> QED BY <2>1, <2>2, <2>3, <2>4, <2>5, StageType DEF data, history, TypeInv, TypeOK
  <1>4. CASE Reconcile(p)
    <2>1. analysed' \subseteq Stored
      BY <1>1, <1>4 DEF Reconcile, TypeInv, TypeOK
    <2> QED BY <1>4, <2>1, GoType DEF Reconcile, Stages, data, TypeInv, TypeOK
  <1>5. CASE AnalysisFails(p)
    <2>1. interrupted' \subseteq Stored /\ analysed' \subseteq Stored /\ faults' \in 0..MaxFaults
      BY <1>5, SyncAssumption DEF AnalysisFails, Fault, TypeInv, TypeOK
    <2> QED BY <1>5, <2>1, GoType DEF AnalysisFails, Stages, data
  <1> QED BY <1>2, <1>3, <1>4, <1>5

LEMMA ImportType ==
  ASSUME TypeInv, NEW m \in Imports, ImportCsv(m) \/ FinishImport(m)
  PROVE  TypeInv'
  <1>1. m \in Ingesters /\ m # Worker
    BY SyncAssumption DEF Ingesters
  <1>2. UNCHANGED <<now, posted, conn, rows, queue, request, history, faults, restarts>>
    BY DEF ImportCsv, FinishImport
  <1>3. Stored' = Stored /\ importing' \in [Imports -> CsvImportStatus \cup {"NONE"}]
    BY <1>2, SameRows DEF ImportCsv, FinishImport, FinalStatus, CsvImportStatus, TypeInv, TypeOK
  <1>4. CASE ImportCsv(m)
    <2> DEFINE g == [Idle EXCEPT !.pc = "insert", !.ref = m, !.todo = FileRows(m) \ Malformed]
    <2>1. g \in Ingestion /\ g.pc = "insert" /\ g.read = {}
      BY DEF Idle, Ingestion, Stages, FileRows
    <2>2. ing' = [ing EXCEPT ![m] = g]
      BY <1>4 DEF ImportCsv
    <2> HIDE DEF g
    <2> QED BY <1>1, <1>2, <1>3, <2>1, <2>2, StageType DEF history, TypeInv, TypeOK
  <1>5. CASE FinishImport(m)
    BY <1>1, <1>2, <1>3, <1>5, IdleFacts, StageType DEF FinishImport, history, TypeInv, TypeOK
  <1> QED BY <1>4, <1>5

\* The last update of an ingestion, or the one of its catch block, fails.
LEMMA CatchType ==
  ASSUME TypeInv, NEW p \in Ingesters, FinishFails(p) \/ CatchFails(p)
  PROVE  TypeInv'
  <1>1. /\ ing[p] \in Ingestion /\ ing[p].read \subseteq Stored
        /\ p = Worker => Len(queue) <= MaxQueue /\ ing[p].ref \in Connections
    BY DEF FinishFails, CatchFails, TypeInv, TypeOK, Busy
  <1>2. /\ UNCHANGED <<now, posted, conn, rows, queue, request, analysed, interrupted, dropped,
                       gaps, restarts>>
        /\ faults' \in 0..MaxFaults
    BY SyncAssumption DEF FinishFails, CatchFails, Fault, data, history, TypeInv, TypeOK
  <1>3. Stored' = Stored
    BY <1>2, SameRows
  <1>4. CASE FinishFails(p)
    <2> DEFINE g == [ing[p] EXCEPT !.pc = "fail"]
    <2>1. /\ g \in Ingestion /\ g.pc = "fail" /\ g.read = ing[p].read /\ g.ref = ing[p].ref
      BY <1>1 DEF Ingestion, Stages
    <2>2. ing' = [ing EXCEPT ![p] = g] /\ UNCHANGED stranded
      BY <1>4 DEF FinishFails, Go, history
    <2>3. importing' \in [Imports -> CsvImportStatus \cup {"NONE"}]
      BY <1>4 DEF FinishFails, FinalStatus, CsvImportStatus, TypeInv, TypeOK
    <2>4. stranded' \subseteq Connections
      BY <2>2 DEF TypeInv, TypeOK
    <2> HIDE DEF g
    <2> QED BY <1>1, <1>2, <1>3, <2>1, <2>2, <2>3, <2>4, StageType DEF TypeInv, TypeOK
  <1>5. CASE CatchFails(p)
    <2>1. /\ ing' = [ing EXCEPT ![p] = Idle] /\ UNCHANGED importing
          /\ stranded' \subseteq Connections
      BY <1>5 DEF CatchFails, data, TypeInv, TypeOK
    <2> QED BY <1>2, <1>3, <2>1, IdleFacts, StageType DEF TypeInv, TypeOK
  <1> QED BY <1>4, <1>5

LEMMA RestartType ==
  ASSUME TypeInv, Restart
  PROVE  TypeInv'
  <1>1. ing' = [p \in Ingesters |-> Idle] /\ \A p \in Ingesters : ing'[p] = Idle
    BY DEF Restart
  <1>2. queue' \in Seq(Job) /\ Len(queue') <= MaxQueue + 1
    <2>1. queue \in Seq(Job) /\ Len(queue) <= MaxQueue + 1
      BY DEF TypeInv, TypeOK
    <2>2. CASE JobInHand /\ ~ing[Worker].stalled
      <3> DEFINE job == [conn |-> ing[Worker].ref, stalled |-> TRUE]
      <3>1. job \in Job /\ Len(queue) <= MaxQueue
        BY <2>2 DEF Job, JobInHand, Busy, TypeInv
      <3>2. queue' = <<job>> \o queue
        BY <2>2 DEF Restart
      <3> HIDE DEF job
      <3>3. <<job>> \in Seq(Job) /\ Len(<<job>>) = 1
        BY <3>1
      <3> QED BY <2>1, <3>1, <3>2, <3>3, SyncAssumption
    <2>3. CASE ~(JobInHand /\ ~ing[Worker].stalled)
      BY <2>1, <2>3 DEF Restart
    <2> QED BY <2>2, <2>3
  <1>3. Stored' = Stored
    BY SameRows DEF Restart, data
  <1>4. stranded' \subseteq Connections
    BY DEF Restart, TypeInv, TypeOK, JobInHand, Busy
  <1>5. interrupted' \subseteq Stored' /\ analysed' \subseteq Stored'
    BY <1>3 DEF Restart, TypeInv, TypeOK
  <1>6. ing' \in [Ingesters -> Ingestion] /\ \A p \in Ingesters : ing'[p].pc = "idle" /\ ing'[p].read = {}
    BY <1>1, IdleFacts
  <1>7. request' \in [Requests -> {NoRequest}] /\ restarts' \in 0..MaxRestarts
    BY SyncAssumption DEF Restart, TypeInv, TypeOK
  <1>8. TypeOK'
    BY <1>2, <1>4, <1>5, <1>6, <1>7 DEF Restart, data, TypeInv, TypeOK
  <1> QED BY <1>6, <1>8, WorkerIngests DEF TypeInv, Busy, Ingesters

LEMMA TypeStep == TypeInv /\ [Next]_vars => TypeInv'
  <1> SUFFICES ASSUME TypeInv, [Next]_vars PROVE TypeInv'
    OBVIOUS
  <1>1. CASE UNCHANGED vars
    BY <1>1, SameRows DEF vars, data, TypeInv, TypeOK, Busy
  <1>2. CASE Next
    BY <1>2, WorldType, RequestType, TakeJobType, FetchType, EndType, RowType, AnalysisType,
       ImportType, CatchType, RestartType, WorkerIngests DEF Next, PerformSync, Import, Ingest, Ingesters
  <1> QED BY <1>1, <1>2

\* For any number of connections, imports and requests, the tables, the queue
\* and the locals of every ingestion keep their types, the queue its bound, and
\* what an analysis has read stays in the table.
THEOREM TypeCorrect == Spec => []TypeOK
  <1>1. TypeInv => TypeOK
    BY DEF TypeInv
  <1> QED BY <1>1, TypeInit, TypeStep, PTL DEF Spec

----------------------------------------------------------------------------
\* A connection that says SYNCING is looked after

\* What the actions on requests do to the jobs of the connections.
LEMMA RequestTended ==
  ASSUME TypeInv, SyncingTended, NEW r \in Requests,
         \/ \E c \in Connections : RequestSync(r, c)
         \/ RequestStep(r) \/ EnqueueFails(r)
  PROVE  SyncingTended'
  <1> SUFFICES ASSUME NEW c \in Connections, conn'[c].status = "SYNCING", c \notin stranded'
               PROVE  HasJob(c)'
    BY DEF SyncingTended
  <1>1. request \in [Requests -> {NoRequest} \cup [pc : {"update", "add"}, conn : Connections]]
    BY DEF TypeInv, TypeOK
  <1>2. ASSUME NEW d \in Connections, RequestSync(r, d) PROVE HasJob(c)'
    <2>1. HasJob(c)
      BY <1>2 DEF RequestSync, data, history, SyncingTended
    <2>2. \A q \in Requests : request[q].pc = "add" => request'[q] = request[q]
      BY <1>1, <1>2 DEF RequestSync, NoRequest
    <2>3. CASE \E q \in Requests : request[q] = [pc |-> "add", conn |-> c]
      BY <2>2, <2>3 DEF HasJob
    <2>4. CASE ~ \E q \in Requests : request[q] = [pc |-> "add", conn |-> c]
      BY <1>2, <2>1, <2>4 DEF RequestSync, HasJob, JobInHand
    <2> QED BY <2>3, <2>4
  <1>3. CASE MarkSyncing(r)
    <2>1. request[r] \in [pc : {"update", "add"}, conn : Connections] /\ request[r].pc = "update"
      BY <1>1, <1>3 DEF MarkSyncing, NoRequest
    <2>2. UNCHANGED <<queue, ing>>
      BY <1>3 DEF MarkSyncing
    <2>3. \A q \in Requests \ {r} : request'[q] = request[q]
      BY <1>1, <1>3 DEF MarkSyncing
    <2>4. CASE c = request[r].conn /\ Exists(c)
      <3>1. request'[r] = [request[r] EXCEPT !.pc = "add"]
        BY <1>1, <1>3, <2>4 DEF MarkSyncing
      <3>2. request'[r] = [pc |-> "add", conn |-> c]
        BY <2>1, <2>4, <3>1
      <3> QED BY <3>2 DEF HasJob
    <2>5. CASE ~(c = request[r].conn /\ Exists(c))
      <3>1. conn'[c] = conn[c]
        BY <1>3, <2>1, <2>5 DEF MarkSyncing, TypeInv, TypeOK
      <3>4. c \notin stranded
        <4>1. CASE Exists(request[r].conn)
          BY <1>3, <2>5, <4>1 DEF MarkSyncing
        <4>2. CASE ~Exists(request[r].conn)
          BY <1>3, <4>2 DEF MarkSyncing
        <4> QED BY <4>1, <4>2
      <3>2. HasJob(c)
        BY <2>2, <3>1, <3>4 DEF SyncingTended
      <3>3. CASE \E q \in Requests : request[q] = [pc |-> "add", conn |-> c]
        <4>1. PICK q \in Requests : request[q] = [pc |-> "add", conn |-> c]
          BY <3>3
        <4>2. q # r
          BY <2>1, <4>1
        <4> QED BY <2>3, <4>1, <4>2 DEF HasJob
      <3>5. CASE ~ \E q \in Requests : request[q] = [pc |-> "add", conn |-> c]
        BY <2>2, <3>2, <3>5 DEF HasJob, JobInHand
      <3> QED BY <3>3, <3>5
    <2> QED BY <2>4, <2>5
  <1>4. CASE Enqueue(r)
    <2>1. request[r] \in [pc : {"update", "add"}, conn : Connections] /\ request[r].pc = "add"
      BY <1>1, <1>4 DEF Enqueue, NoRequest
    <2> DEFINE job == [conn |-> request[r].conn, stalled |-> FALSE]
    <2>2. /\ queue \in Seq(Job) /\ job \in Job /\ job.conn = request[r].conn
          /\ queue' = Append(queue, job)
      BY <1>4, <2>1 DEF Enqueue, Job, TypeInv, TypeOK
    <2>3. UNCHANGED <<ing, conn, stranded>> /\ \A q \in Requests \ {r} : request'[q] = request[q]
      BY <1>1, <1>4 DEF Enqueue, data, history
    <2> HIDE DEF job
    <2>4. Len(queue') = Len(queue) + 1 /\ \A k \in 1..Len(queue) : queue'[k] = queue[k]
      BY <2>2
    <2>5. queue'[Len(queue) + 1] = job
      BY <2>2
    <2>6. HasJob(c)
      BY <2>3 DEF SyncingTended
    <2>7. CASE request[r] = [pc |-> "add", conn |-> c]
      <3>1. queue'[Len(queue')].conn = c /\ Len(queue') \in 1..Len(queue')
        BY <2>2, <2>4, <2>5, <2>7
      <3> QED BY <3>1 DEF HasJob
    <2>8. CASE request[r] # [pc |-> "add", conn |-> c]
      <3>1. CASE \E q \in Requests : request[q] = [pc |-> "add", conn |-> c]
        BY <2>3, <2>8, <3>1 DEF HasJob
      <3>2. CASE \E k \in 1..Len(queue) : queue[k].conn = c
        <4>1. PICK k \in 1..Len(queue) : queue[k].conn = c
          BY <3>2
        <4>2. k \in 1..Len(queue') /\ queue'[k].conn = c
          BY <2>2, <2>4, <4>1
        <4> QED BY <4>2 DEF HasJob
      <3>3. CASE JobInHand /\ ing[Worker].ref = c
        BY <2>3, <3>3 DEF HasJob, JobInHand
      <3> QED BY <2>6, <3>1, <3>2, <3>3 DEF HasJob
    <2> QED BY <2>7, <2>8
  <1>5. CASE EnqueueFails(r)
    <2>1. c # request[r].conn /\ c \notin stranded /\ UNCHANGED <<conn, queue, ing>>
      BY <1>5 DEF EnqueueFails, data
    <2>2. HasJob(c)
      BY <2>1 DEF SyncingTended
    <2>3. CASE \E q \in Requests : request[q] = [pc |-> "add", conn |-> c]
      <3>1. PICK q \in Requests : request[q] = [pc |-> "add", conn |-> c]
        BY <2>3
      <3>2. q # r /\ request'[q] = request[q]
        BY <1>1, <1>5, <2>1, <3>1 DEF EnqueueFails
      <3> QED BY <3>1, <3>2 DEF HasJob
    <2>4. CASE ~ \E q \in Requests : request[q] = [pc |-> "add", conn |-> c]
      BY <2>1, <2>2, <2>4 DEF HasJob, JobInHand
    <2> QED BY <2>3, <2>4
  <1> QED BY <1>2, <1>3, <1>4, <1>5 DEF RequestStep

\* A job stays where it is when only the progress of the worker changes.
LEMMA JobKept ==
  ASSUME NEW c, HasJob(c), UNCHANGED <<queue, request>>,
         JobInHand /\ ing[Worker].ref = c => JobInHand' /\ ing'[Worker].ref = c
  PROVE  HasJob(c)'
  BY DEF HasJob

LEMMA WorldTended ==
  ASSUME TypeInv, SyncingTended,
         Tick \/ (\E i \in Items : Post(i)) \/ (\E d \in Connections : Create(d) \/ Remove(d))
  PROVE  SyncingTended'
  <1> SUFFICES ASSUME NEW c \in Connections, conn'[c].status = "SYNCING", c \notin stranded'
               PROVE  HasJob(c)'
    BY DEF SyncingTended
  <1>1. UNCHANGED <<queue, request, ing, stranded>>
    BY DEF Tick, Post, Create, Remove, history
  <1>2. conn[c].status = "SYNCING"
    <2>1. CASE Tick \/ (\E i \in Items : Post(i))
      BY <2>1 DEF Tick, Post, data
    <2>2. ASSUME NEW d \in Connections, Create(d) \/ Remove(d) PROVE conn[c].status = "SYNCING"
      BY <2>2 DEF Create, Remove, Removed, TypeInv, TypeOK
    <2> QED BY <2>1, <2>2
  <1> QED BY <1>1, <1>2, JobKept DEF SyncingTended, JobInHand

\* The head of the queue passes to the worker or is seen to be lost; the jobs
\* behind it move up.
LEMMA TakeJobTended ==
  ASSUME TypeInv, SyncingTended, TakeJob \/ TakeJobFails
  PROVE  SyncingTended'
  <1> SUFFICES ASSUME NEW c \in Connections, conn'[c].status = "SYNCING", c \notin stranded'
               PROVE  HasJob(c)'
    BY DEF SyncingTended
  <1>1. /\ UNCHANGED <<conn, request>> /\ queue # <<>> /\ queue' = Tail(queue)
        /\ ing[Worker].pc = "idle" /\ c \notin stranded
    BY DEF TakeJob, TakeJobFails, data, history
  <1>2. HasJob(c)
    BY <1>1 DEF SyncingTended
  <1>3. CASE \E q \in Requests : request[q] = [pc |-> "add", conn |-> c]
    BY <1>1, <1>3 DEF HasJob
  <1>4. CASE \E k \in 1..Len(queue) : queue[k].conn = c
    <2>1. PICK k \in 1..Len(queue) : queue[k].conn = c
      BY <1>4
    <2>2. queue \in Seq(Job) /\ Len(queue) \in Nat
      BY DEF TypeInv, TypeOK
    <2>3. CASE k = 1
      <3>1. Head(queue).conn = c
        BY <2>1, <2>2, <2>3
      <3>2. TakeJob
        BY <3>1 DEF TakeJobFails
      <3>3. ing' = [ing EXCEPT ![Worker] = [Idle EXCEPT !.pc = "fetch", !.ref = c,
                                                        !.stalled = Head(queue).stalled,
                                                        !.since = conn[c].last]]
        BY <1>1, <3>1, <3>2 DEF TakeJob, Exists, SyncStatus
      <3>4. ing'[Worker].pc = "fetch" /\ ing'[Worker].ref = c
        BY <3>3, WorkerIngests DEF Idle, TypeInv, TypeOK
      <3> QED BY <3>4 DEF HasJob, JobInHand
    <2>4. CASE k # 1
      <3>1. /\ Len(Tail(queue)) = Len(queue) - 1 /\ k - 1 \in 1..Len(Tail(queue))
            /\ Tail(queue)[k - 1] = queue[k]
        BY <1>1, <2>2, <2>4
      <3>2. k - 1 \in 1..Len(queue') /\ queue'[k - 1].conn = c
        BY <1>1, <2>1, <3>1
      <3> QED BY <3>2 DEF HasJob
    <2> QED BY <2>3, <2>4
  <1>5. ~(JobInHand /\ ing[Worker].ref = c)
    BY <1>1 DEF JobInHand
  <1> QED BY <1>2, <1>3, <1>4, <1>5 DEF HasJob

\* Between the first and the last step of a job the worker keeps it.
LEMMA StageTended ==
  ASSUME TypeInv, SyncingTended, UNCHANGED <<queue, request, conn, stranded>>,
         ing'[Worker].pc = "idle" => ing[Worker].pc = "idle",
         ing'[Worker].ref = ing[Worker].ref
  PROVE  SyncingTended'
  BY JobKept DEF SyncingTended, JobInHand

LEMMA FetchTended ==
  ASSUME TypeInv, SyncingTended, Fetch \/ FetchFails
  PROVE  SyncingTended'
  <1>1. UNCHANGED <<queue, request, conn, stranded>>
    BY DEF Fetch, FetchFails, data, history
  <1>2. ing[Worker] \in Ingestion /\ ing \in [Ingesters -> Ingestion]
    BY WorkerIngests DEF TypeInv, TypeOK
  <1>3. ing'[Worker].pc \in {"insert", "fail"} /\ ing'[Worker].ref = ing[Worker].ref
    <2>1. CASE FetchFails
      BY <1>2, <2>1, WorkerIngests DEF FetchFails, Go, Ingestion
    <2>2. CASE Fetch
      <3>1. PICK page : ing' = [ing EXCEPT ![Worker].pc = "insert", ![Worker].todo = page,
                                           ![Worker].asked = now]
        BY <2>2 DEF Fetch
      <3>2. ing'[Worker] = [ing[Worker] EXCEPT !.pc = "insert", !.todo = page, !.asked = now]
        BY <1>2, <3>1, WorkerIngests
      <3> QED BY <1>2, <3>2 DEF Ingestion
    <2> QED BY <2>1, <2>2
  <1> QED BY <1>1, <1>3, StageTended

LEMMA IngestTended ==
  ASSUME TypeInv, SyncingTended, NEW p \in Ingesters,
         \/ \E i \in Items : Insert(p, i) \/ SkipRow(p, i) \/ InsertFails(p, i)
         \/ FinishInserts(p) \/ Detect(p) \/ Reconcile(p) \/ AnalysisFails(p)
  PROVE  SyncingTended'
  <1>1. UNCHANGED <<queue, request, conn, stranded>>
    BY DEF Insert, SkipRow, InsertFails, FinishInserts, Detect, Reconcile, AnalysisFails, data,
       history
  <1>2. ing[p] \in Ingestion /\ ing \in [Ingesters -> Ingestion]
    BY DEF TypeInv, TypeOK
  <1>3. PICK g : ing' = [ing EXCEPT ![p] = g] /\ g.pc # "idle" /\ g.ref = ing[p].ref
    <2>1. ASSUME NEW i \in Items, Insert(p, i)
          PROVE  LET g == [ing[p] EXCEPT !.todo = ing[p].todo \ {i}, !.inserted = TRUE]
                 IN ing' = [ing EXCEPT ![p] = g] /\ g.pc # "idle" /\ g.ref = ing[p].ref
      BY <1>2, <2>1 DEF Insert, Ingestion
    <2>2. ASSUME NEW i \in Items, SkipRow(p, i) \/ InsertFails(p, i)
          PROVE  LET g == [ing[p] EXCEPT !.todo = ing[p].todo \ {i}]
                 IN ing' = [ing EXCEPT ![p] = g] /\ g.pc # "idle" /\ g.ref = ing[p].ref
      BY <1>2, <2>2 DEF SkipRow, InsertFails, Ingestion
    <2>3. ASSUME NEW stage \in Stages \ {"idle"}, Go(p, stage)
          PROVE  LET g == [ing[p] EXCEPT !.pc = stage]
                 IN ing' = [ing EXCEPT ![p] = g] /\ g.pc # "idle" /\ g.ref = ing[p].ref
      BY <1>2, <2>3 DEF Go, Ingestion
    <2>4. ASSUME Detect(p)
          PROVE  LET g == [ing[p] EXCEPT !.pc = "reconcile", !.read = Stored]
                 IN ing' = [ing EXCEPT ![p] = g] /\ g.pc # "idle" /\ g.ref = ing[p].ref
      BY <1>2, <2>4 DEF Detect, Ingestion
    <2>5. FinishInserts(p) \/ Reconcile(p) \/ AnalysisFails(p)
            => \E stage \in Stages \ {"idle"} : Go(p, stage)
      BY DEF FinishInserts, AfterInserts, Reconcile, AnalysisFails, Stages
    <2> QED BY <2>1, <2>2, <2>3, <2>4, <2>5
  <1>4. /\ ing'[Worker].pc = "idle" => ing[Worker].pc = "idle"
        /\ ing'[Worker].ref = ing[Worker].ref
    BY <1>2, <1>3, WorkerIngests
  <1> QED BY <1>1, <1>4, StageTended

\* A job that ends leaves its connection SYNCED or in ERROR, or gone.
LEMMA EndTended ==
  ASSUME TypeInv, SyncingTended, Stamp \/ SyncFails
  PROVE  SyncingTended'
  <1> SUFFICES ASSUME NEW c \in Connections, conn'[c].status = "SYNCING", c \notin stranded'
               PROVE  HasJob(c)'
    BY DEF SyncingTended
  <1>1. UNCHANGED <<queue, request, stranded>> /\ ing[Worker].pc \in {"finish", "fail"}
    BY DEF Stamp, SyncFails, history
  <1>2. conn \in [Connections -> ConnectionRow] /\ ing[Worker].ref \in Connections
    BY <1>1 DEF TypeInv, TypeOK, Busy
  <1>3. c # ing[Worker].ref /\ conn'[c] = conn[c]
    <2>1. CASE Exists(ing[Worker].ref)
      <3>1. conn' = [conn EXCEPT ![ing[Worker].ref] = [status |-> "SYNCED", last |-> now]]
              \/ conn' = [conn EXCEPT ![ing[Worker].ref].status = "ERROR"]
        BY <2>1 DEF Stamp, SyncFails
      <3> QED BY <1>2, <3>1 DEF ConnectionRow
    <2>2. CASE ~Exists(ing[Worker].ref)
      BY <2>2 DEF Stamp, SyncFails, Exists, SyncStatus
    <2> QED BY <2>1, <2>2
  <1> QED BY <1>1, <1>3, JobKept DEF SyncingTended

\* The update that fails in the catch block puts its connection on record.
LEMMA CatchTended ==
  ASSUME TypeInv, SyncingTended, NEW p \in Ingesters, FinishFails(p) \/ CatchFails(p)
  PROVE  SyncingTended'
  <1> SUFFICES ASSUME NEW c \in Connections, conn'[c].status = "SYNCING", c \notin stranded'
               PROVE  HasJob(c)'
    BY DEF SyncingTended
  <1>1. UNCHANGED <<queue, request, conn>> /\ stranded \subseteq stranded'
    BY DEF FinishFails, CatchFails, data, history
  <1>2. HasJob(c)
    BY <1>1 DEF SyncingTended
  <1>3. ing[p] \in Ingestion /\ ing \in [Ingesters -> Ingestion]
    BY DEF TypeInv, TypeOK
  <1>4. JobInHand /\ ing[Worker].ref = c => JobInHand' /\ ing'[Worker].ref = c
    <2>1. CASE p # Worker
      BY <1>3, <2>1, WorkerIngests DEF FinishFails, CatchFails, Go, JobInHand
    <2>2. CASE p = Worker /\ FinishFails(p)
      BY <1>3, <2>2 DEF FinishFails, Go, JobInHand, Ingestion
    <2>3. CASE p = Worker /\ CatchFails(p)
      BY <1>3, <2>3 DEF CatchFails, JobInHand
    <2> QED BY <2>1, <2>2, <2>3
  <1> QED BY <1>1, <1>2, <1>4, JobKept

LEMMA ImportTended ==
  ASSUME TypeInv, SyncingTended, NEW m \in Imports, ImportCsv(m) \/ FinishImport(m)
  PROVE  SyncingTended'
  <1>1. m # Worker /\ UNCHANGED <<queue, request, conn, stranded>>
    BY SyncAssumption DEF ImportCsv, FinishImport, history
  <1>2. ing'[Worker] = ing[Worker]
    BY <1>1, WorkerIngests DEF ImportCsv, FinishImport, TypeInv, TypeOK
  <1> QED BY <1>1, <1>2, StageTended

\* A restart puts the job in hand back before the others the first time; the
\* requests it cuts off are counted as lost.
LEMMA RestartTended ==
  ASSUME TypeInv, SyncingTended, Restart
  PROVE  SyncingTended'
  <1> SUFFICES ASSUME NEW c \in Connections, conn'[c].status = "SYNCING", c \notin stranded'
               PROVE  HasJob(c)'
    BY DEF SyncingTended
  <1>1. HasJob(c) /\ ~ \E q \in Requests : request[q] = [pc |-> "add", conn |-> c]
    BY DEF Restart, data, SyncingTended
  <1>2. queue \in Seq(Job) /\ Len(queue) \in Nat
    BY DEF TypeInv, TypeOK
  <1> DEFINE job == [conn |-> ing[Worker].ref, stalled |-> TRUE]
  <1>3. CASE JobInHand /\ ~ing[Worker].stalled
    <2>1. queue' = <<job>> \o queue /\ job \in Job
      BY <1>3 DEF Restart, Job, TypeInv, Busy, JobInHand
    <2> HIDE DEF job
    <2>2. /\ Len(queue') = Len(queue) + 1 /\ queue'[1] = job
          /\ \A k \in 1..Len(queue) : queue'[k + 1] = queue[k]
      BY <1>2, <2>1
    <2>3. CASE ing[Worker].ref = c
      <3>1. 1 \in 1..Len(queue') /\ queue'[1].conn = c
        BY <1>2, <2>2, <2>3 DEF job
      <3> QED BY <3>1 DEF HasJob
    <2>4. CASE ing[Worker].ref # c
      <3>1. PICK k \in 1..Len(queue) : queue[k].conn = c
        BY <1>1, <2>4 DEF HasJob
      <3>2. k + 1 \in 1..Len(queue') /\ queue'[k + 1].conn = c
        BY <1>2, <2>2, <3>1
      <3> QED BY <3>2 DEF HasJob
    <2> QED BY <2>3, <2>4
  <1>4. CASE ~(JobInHand /\ ~ing[Worker].stalled)
    <2>1. queue' = queue /\ ~(JobInHand /\ ing[Worker].ref = c)
      BY <1>4 DEF Restart
    <2> QED BY <1>1, <2>1 DEF HasJob
  <1> QED BY <1>3, <1>4

LEMMA TendedInit == Init => SyncingTended
  BY DEF Init, SyncingTended, Absent

LEMMA TendedStep == TypeInv /\ SyncingTended /\ [Next]_vars => SyncingTended'
  <1> SUFFICES ASSUME TypeInv, SyncingTended, [Next]_vars PROVE SyncingTended'
    OBVIOUS
  <1>1. CASE UNCHANGED vars
    BY <1>1, StageTended DEF vars, data
  <1>2. CASE Next
    BY <1>2, WorldTended, RequestTended, TakeJobTended, FetchTended, IngestTended, EndTended,
       ImportTended, CatchTended, RestartTended, WorkerIngests DEF Next, PerformSync, Import, Ingest, Ingesters
  <1> QED BY <1>1, <1>2

\* Whatever fails, restarts or is removed, a connection that says SYNCING has a
\* job that waits, runs or is about to be queued, or one whose loss is on record.
THEOREM SyncingAlwaysTended == Spec => []SyncingTended
  <1>1. TypeInv /\ SyncingTended /\ [Next]_vars => TypeInv' /\ SyncingTended'
    BY TypeStep, TendedStep
  <1> QED BY <1>1, TypeInit, TendedInit, PTL DEF Spec

----------------------------------------------------------------------------
\* What an incremental synchronisation may lose

AfterFetch == {"insert", "detect", "reconcile", "finish"}

\* What a job g that has read its account owes: each item that was due when
\* it read is still to do, is stored under its key, or was dropped.
Owes(g) ==
  \A i \in Items :
    (Origin[i] = AccountOf[g.ref] /\ posted[i] # Never /\ posted[i] >= g.since)
      => i \in g.todo \/ KeyOf[i] \in HeldKeys \/ i \in dropped \/ posted[i] >= g.asked

\* Nothing is dated in the future, and the job in hand started from the
\* lastSyncedAt its connection still has, unless the connection is gone.
CursorInv ==
  /\ \A i \in Items : posted[i] <= now
  /\ \A c \in Connections : conn[c].last <= now
  /\ Busy => /\ ing[Worker].asked <= now
             /\ conn[ing[Worker].ref].status # "NONE"
             /\ Exists(ing[Worker].ref) => ing[Worker].since = conn[ing[Worker].ref].last
             /\ ing[Worker].pc \in {"detect", "reconcile", "finish"} => ing[Worker].todo = {}
             /\ (ing[Worker].pc \in AfterFetch /\ Exists(ing[Worker].ref)) => Owes(ing[Worker])

LEMMA HeldGrows ==
  ASSUME Stored \subseteq Stored'
  PROVE  HeldKeys \subseteq HeldKeys'
  BY DEF HeldKeys

\* No step takes a row out of the table, and history is only added to.
LEMMA NothingForgotten ==
  ASSUME TypeInv, Next
  PROVE  /\ Stored \subseteq Stored'
         /\ dropped \subseteq dropped' /\ gaps \subseteq gaps'
  <1>1. CASE UNCHANGED rows
    <2>1. Stored' = Stored
      BY <1>1, SameRows
    <2>2. dropped \subseteq dropped' /\ gaps \subseteq gaps'
      BY DEF Next, Tick, Restart, Post, Create, Remove, RequestSync, RequestStep, MarkSyncing,
         Enqueue, EnqueueFails, PerformSync, TakeJob, TakeJobFails, Fetch, FetchFails, Stamp,
         SyncFails, ImportCsv, Import, FinishImport, Ingest, Insert, SkipRow, InsertFails,
         FinishInserts, Detect, Reconcile, AnalysisFails, FinishFails, CatchFails, history
    <2> QED BY <2>1, <2>2
  <1>2. ASSUME NEW c \in Connections, Remove(c)
        PROVE  Stored' = Stored /\ UNCHANGED <<dropped, gaps>>
    BY <1>2, RemoveKeepsRows DEF TypeInv, Remove, history
  <1>3. ASSUME NEW p \in Ingesters, NEW i \in Items, Insert(p, i)
        PROVE  Stored \subseteq Stored' /\ UNCHANGED <<dropped, gaps>>
    BY <1>3, InsertAddsRow DEF Insert, history
  <1>4. CASE ~UNCHANGED rows
    BY <1>2, <1>3, <1>4, WorkerIngests DEF Next, Tick, Restart, Post, Create, RequestSync,
       RequestStep, MarkSyncing, Enqueue, EnqueueFails, PerformSync, TakeJob, TakeJobFails,
       Fetch, FetchFails, Stamp, SyncFails, ImportCsv, Import, FinishImport, Ingest, SkipRow,
       InsertFails, FinishInserts, Detect, Reconcile, AnalysisFails, FinishFails, CatchFails, data,
       Ingesters
  <1> QED BY <1>1, <1>4

\* A step that moves no clock, reads no account and stamps no connection
\* keeps all of it when what leaves the list of the job is stored or dropped.
LEMMA CursorKept ==
  ASSUME TypeInv, CursorInv, LostOnlyKnownWays,
         Stored \subseteq Stored', dropped \subseteq dropped', gaps \subseteq gaps',
         UNCHANGED <<now, posted>>,
         \A c \in Connections :
           /\ conn[c].status # "NONE" => conn'[c].status # "NONE"
           /\ \/ conn'[c].last = Never /\ (~Exists(c)' \/ conn[c].status = "NONE")
              \/ conn'[c].last = conn[c].last /\ (Exists(c)' => Exists(c)),
         Busy' => /\ Busy
                  /\ ing'[Worker].ref = ing[Worker].ref
                  /\ ing'[Worker].since = ing[Worker].since
                  /\ ing'[Worker].asked = ing[Worker].asked
                  /\ ing'[Worker].pc \in {"detect", "reconcile", "finish"} => ing'[Worker].todo = {}
                  /\ ing'[Worker].pc \in AfterFetch => ing[Worker].pc \in AfterFetch
                  /\ (ing'[Worker].pc \in AfterFetch /\ Exists(ing[Worker].ref)') =>
                       \A i \in ing[Worker].todo \ ing'[Worker].todo :
                         KeyOf[i] \in HeldKeys' \/ i \in dropped'
  PROVE  CursorInv' /\ LostOnlyKnownWays'
  <1>1. HeldKeys \subseteq HeldKeys'
    BY HeldGrows
  <1>2. /\ now \in Nat /\ posted \in [Items -> Time \cup {Never}]
        /\ conn \in [Connections -> ConnectionRow]
    BY DEF TypeInv, TypeOK, Time
  <1>3. LostOnlyKnownWays'
    <2> SUFFICES ASSUME NEW c \in Connections, NEW i \in Items, Lost(c, i)'
                 PROVE  (i \in dropped \/ InGap(c, i))'
      BY DEF LostOnlyKnownWays
    <2>1. posted[i] \in Time /\ posted[i] < conn'[c].last
      BY <1>2 DEF Lost
    <2>2. conn'[c].last = conn[c].last /\ Exists(c)
      BY <1>2, <2>1 DEF Lost, Time, Never
    <2>3. Lost(c, i)
      BY <1>1, <2>2 DEF Lost
    <2> QED BY <2>3 DEF LostOnlyKnownWays, InGap
  <1>4. CursorInv'
    <2>1. \A i \in Items : posted'[i] <= now'
      BY DEF CursorInv
    <2>2. \A c \in Connections : conn'[c].last <= now'
      BY <1>2 DEF CursorInv, Never
    <2>3. ASSUME Busy'
          PROVE  /\ ing'[Worker].asked <= now'
                 /\ conn'[ing'[Worker].ref].status # "NONE"
                 /\ Exists(ing[Worker].ref)' =>
                      /\ Exists(ing[Worker].ref)
                      /\ ing'[Worker].since = conn'[ing'[Worker].ref].last
      <3>1. ing[Worker].ref \in Connections
        BY <2>3 DEF TypeInv
      <3> QED BY <2>3, <3>1 DEF CursorInv
    <2>4. ASSUME Busy', ing'[Worker].pc \in AfterFetch, Exists(ing[Worker].ref)'
          PROVE  Owes(ing[Worker])'
      <3> SUFFICES ASSUME NEW i \in Items, Origin[i] = AccountOf[ing[Worker].ref],
                          posted[i] # Never, posted[i] >= ing[Worker].since
                   PROVE  \/ i \in ing'[Worker].todo \/ KeyOf[i] \in HeldKeys'
                          \/ i \in dropped' \/ posted[i] >= ing[Worker].asked
        BY <2>4 DEF Owes
      <3>1. Owes(ing[Worker])
        BY <2>3, <2>4 DEF CursorInv
      <3> QED BY <1>1, <2>4, <3>1 DEF Owes
    <2> QED BY <2>1, <2>2, <2>3, <2>4 DEF CursorInv
  <1> QED BY <1>3, <1>4

\* The clock and the accounts go on by themselves.
LEMMA CursorWorld ==
  ASSUME TypeInv, CursorInv, LostOnlyKnownWays,
         Tick \/ \E i \in Items : Post(i)
  PROVE  CursorInv' /\ LostOnlyKnownWays'
  <1>1. /\ now \in Nat /\ posted \in [Items -> Time \cup {Never}]
        /\ conn \in [Connections -> ConnectionRow]
        /\ ing[Worker].asked \in Time \cup {Never}
    BY WorkerIngests DEF TypeInv, TypeOK, Time, Ingestion
  <1>2. UNCHANGED <<conn, rows, ing, dropped, gaps>> /\ now' \in Nat /\ now <= now'
    BY <1>1 DEF Tick, Post, data, history
  <1>3. Stored' = Stored /\ HeldKeys' = HeldKeys
    BY <1>2 DEF Stored, HeldKeys
  <1>4. ASSUME NEW i \in Items
        PROVE  posted'[i] = posted[i] \/ posted'[i] = now
    BY <1>1 DEF Tick, Post
  <1>5. LostOnlyKnownWays'
    <2> SUFFICES ASSUME NEW c \in Connections, NEW i \in Items, Lost(c, i)'
                 PROVE  i \in dropped' \/ InGap(c, i)'
      BY DEF LostOnlyKnownWays
    <2>1. conn[c].last <= now /\ conn[c].last \in Int
      BY <1>1 DEF CursorInv, ConnectionRow, Time, Never
    <2>2. posted'[i] = posted[i]
      BY <1>1, <1>2, <1>4, <2>1 DEF Lost
    <2>3. Lost(c, i)
      BY <1>2, <1>3, <2>2 DEF Lost, Exists
    <2> QED BY <1>2, <2>2, <2>3 DEF LostOnlyKnownWays, InGap
  <1>6. CursorInv'
    <2>1. \A i \in Items : posted'[i] <= now'
      BY <1>1, <1>2, <1>4 DEF CursorInv, Time, Never
    <2>2. \A c \in Connections : conn'[c].last <= now'
      BY <1>1, <1>2 DEF CursorInv, ConnectionRow, Time, Never
    <2>3. Busy => ing[Worker].asked <= now'
      BY <1>1, <1>2 DEF CursorInv, Time, Never
    <2>4. ASSUME Busy, Owes(ing[Worker])
          PROVE  Owes(ing[Worker])'
      BY <1>1, <1>2, <1>3, <1>4, <2>4 DEF Owes, CursorInv, Time, Never
    <2> QED BY <1>2, <2>1, <2>2, <2>3, <2>4 DEF CursorInv, Busy, Exists
  <1> QED BY <1>5, <1>6

\* What leaves the list of connections and the worker's job as they are.
LEMMA CursorAside ==
  ASSUME TypeInv, CursorInv, LostOnlyKnownWays,
         Stored \subseteq Stored', dropped \subseteq dropped', gaps \subseteq gaps',
         UNCHANGED <<now, posted, conn>>, ing'[Worker] = ing[Worker]
  PROVE  CursorInv' /\ LostOnlyKnownWays'
  BY CursorKept DEF Busy, Exists, CursorInv

\* Connections come and go, are marked or fail, with the clock of their last
\* synchronisation unmoved.
LEMMA CursorConnections ==
  ASSUME TypeInv, CursorInv, LostOnlyKnownWays, Next,
         \/ \E c \in Connections : Create(c) \/ Remove(c)
         \/ \E r \in Requests : MarkSyncing(r)
  PROVE  CursorInv' /\ LostOnlyKnownWays'
  <1>1. /\ conn \in [Connections -> ConnectionRow]
        /\ request \in [Requests -> {NoRequest} \cup [pc : {"update", "add"}, conn : Connections]]
    BY DEF TypeInv, TypeOK
  <1>2. UNCHANGED <<now, posted, ing>>
    BY DEF Create, Remove, MarkSyncing
  <1>3. ASSUME NEW c \in Connections
        PROVE  /\ conn[c].status # "NONE" => conn'[c].status # "NONE"
               /\ \/ conn'[c].last = Never /\ (~Exists(c)' \/ conn[c].status = "NONE")
                  \/ conn'[c].last = conn[c].last /\ (Exists(c)' => Exists(c))
    <2>1. CASE \E d \in Connections : Create(d)
      BY <1>1, <2>1 DEF Create, Absent, Exists
    <2>2. CASE \E d \in Connections : Remove(d)
      BY <1>1, <2>2 DEF Remove, Removed, Exists, SyncStatus
    <2>3. CASE \E r \in Requests : MarkSyncing(r)
      <3>1. PICK r \in Requests : MarkSyncing(r)
        BY <2>3
      <3>2. request[r].conn \in Connections
        BY <1>1, <3>1 DEF MarkSyncing, NoRequest
      <3> QED BY <1>1, <3>1, <3>2 DEF MarkSyncing, Exists, ConnectionRow, SyncStatus
    <2> QED BY <2>1, <2>2, <2>3
  <1> QED BY <1>2, <1>3, NothingForgotten, CursorKept DEF Busy, CursorInv

\* The job starts from the lastSyncedAt it finds.
LEMMA CursorTakeJob ==
  ASSUME TypeInv, CursorInv, LostOnlyKnownWays, TakeJob
  PROVE  CursorInv' /\ LostOnlyKnownWays'
  <1>1. /\ UNCHANGED <<now, posted, conn, rows, dropped, gaps>> /\ Worker \in Ingesters
        /\ ing \in [Ingesters -> Ingestion] /\ now \in Nat
    BY WorkerIngests DEF TakeJob, data, history, TypeInv, TypeOK, Time
  <1>2. Stored' = Stored /\ HeldKeys' = HeldKeys
    BY <1>1 DEF Stored, HeldKeys
  <1>3. LostOnlyKnownWays'
    BY <1>1, <1>2 DEF LostOnlyKnownWays, Lost, InGap, Exists
  <1>4. ASSUME Busy'
        PROVE  /\ ing'[Worker].pc = "fetch" /\ ing'[Worker].asked = Never
               /\ Exists(ing'[Worker].ref)
               /\ ing'[Worker].since = conn[ing'[Worker].ref].last
    BY <1>1, <1>4 DEF TakeJob, Busy, Idle
  <1>5. CursorInv'
    BY <1>1, <1>4 DEF CursorInv, Exists, SyncStatus, Never, AfterFetch, Busy
  <1> QED BY <1>3, <1>5

\* What was due is on the list of the job, or was dropped.
LEMMA CursorFetch ==
  ASSUME TypeInv, CursorInv, LostOnlyKnownWays, Fetch
  PROVE  CursorInv' /\ LostOnlyKnownWays'
  <1>1. /\ UNCHANGED <<now, posted, conn, rows, gaps>> /\ Worker \in Ingesters
        /\ ing \in [Ingesters -> Ingestion] /\ now \in Nat /\ Busy
    BY WorkerIngests DEF Fetch, data, TypeInv, TypeOK, Time, Busy
  <1>2. Stored' = Stored /\ HeldKeys' = HeldKeys
    BY <1>1 DEF Stored, HeldKeys
  <1>3. PICK page \in SUBSET Due(AccountOf[ing[Worker].ref], ing[Worker].since) :
             /\ Due(AccountOf[ing[Worker].ref], ing[Worker].since) \ page \subseteq dropped'
             /\ dropped \subseteq dropped'
             /\ ing' = [ing EXCEPT ![Worker].pc = "insert", ![Worker].todo = page,
                                   ![Worker].asked = now]
    BY DEF Fetch
  <1>4. /\ ing'[Worker].pc = "insert" /\ ing'[Worker].todo = page /\ ing'[Worker].asked = now
        /\ ing'[Worker].ref = ing[Worker].ref /\ ing'[Worker].since = ing[Worker].since
    BY <1>1, <1>3 DEF Ingestion
  <1>5. LostOnlyKnownWays'
    BY <1>1, <1>2, <1>3 DEF LostOnlyKnownWays, Lost, InGap, Exists
  <1>6. Owes(ing[Worker])'
    BY <1>1, <1>3, <1>4 DEF Owes, Due
  <1>7. CursorInv'
    BY <1>1, <1>4, <1>6 DEF CursorInv, Exists, Busy
  <1> QED BY <1>5, <1>7

\* A row that leaves the list of the job is stored, was there, or is dropped;
\* a row may be refused for another reason only when the connection is gone.
LEMMA CursorRows ==
  ASSUME TypeInv, CursorInv, LostOnlyKnownWays, Next, NEW p \in Ingesters, NEW i \in Items,
         Insert(p, i) \/ SkipRow(p, i) \/ InsertFails(p, i)
  PROVE  CursorInv' /\ LostOnlyKnownWays'
  <1>1. /\ UNCHANGED <<now, posted, conn>> /\ Worker \in Ingesters
        /\ ing \in [Ingesters -> Ingestion]
    BY WorkerIngests DEF Insert, SkipRow, InsertFails, data, TypeInv, TypeOK
  <1>2. CASE p # Worker
    <2>1. ing'[Worker] = ing[Worker]
      BY <1>1, <1>2 DEF Insert, SkipRow, InsertFails
    <2> QED BY <1>1, <2>1, NothingForgotten, CursorAside
  <1>3. CASE p = Worker
    <2>1. /\ ing[Worker].pc = "insert" /\ ing'[Worker].pc = "insert"
          /\ ing'[Worker].todo = ing[Worker].todo \ {i}
          /\ ing'[Worker].ref = ing[Worker].ref /\ ing'[Worker].since = ing[Worker].since
          /\ ing'[Worker].asked = ing[Worker].asked
      BY <1>1, <1>3 DEF Insert, SkipRow, InsertFails, Ingestion
    <2>2. CASE Insert(p, i)
      <3>1. Stored' = Stored \cup {i}
        BY <2>2, InsertAddsRow DEF Insert
      <3>2. KeyOf[i] \in HeldKeys'
        BY <3>1 DEF HeldKeys
      <3> QED BY <1>1, <2>1, <3>2, NothingForgotten, CursorKept DEF Busy, Exists, CursorInv
    <2>3. CASE SkipRow(p, i)
      <3>1. Exists(ing[Worker].ref) => KeyOf[i] \in HeldKeys'
        BY <1>3, <2>3, NothingForgotten, HeldGrows DEF SkipRow, RefExists
      <3> QED BY <1>1, <2>1, <3>1, NothingForgotten, CursorKept DEF Busy, Exists, CursorInv
    <2>4. CASE InsertFails(p, i)
      <3>1. i \in dropped'
        BY <2>4 DEF InsertFails
      <3> QED BY <1>1, <2>1, <3>1, NothingForgotten, CursorKept DEF Busy, Exists, CursorInv
    <2> QED BY <2>2, <2>3, <2>4
  <1> QED BY <1>2, <1>3

\* The analysis starts with an empty list and changes no row.
LEMMA CursorStages ==
  ASSUME TypeInv, CursorInv, LostOnlyKnownWays, Next, NEW p \in Ingesters,
         \/ FinishInserts(p) \/ Detect(p) \/ Reconcile(p) \/ AnalysisFails(p) \/ FinishFails(p)
         \/ p = Worker /\ FetchFails
  PROVE  CursorInv' /\ LostOnlyKnownWays'
  <1>1. /\ UNCHANGED <<now, posted, conn>> /\ Worker \in Ingesters
        /\ ing \in [Ingesters -> Ingestion]
    BY WorkerIngests DEF FinishInserts, Detect, Reconcile, AnalysisFails, FinishFails, FetchFails,
       data, TypeInv, TypeOK
  <1>2. CASE p # Worker
    <2>1. ing'[Worker] = ing[Worker]
      BY <1>1, <1>2 DEF FinishInserts, Detect, Reconcile, AnalysisFails, FinishFails, Go
    <2> QED BY <1>1, <1>2, <2>1, NothingForgotten, CursorAside
  <1>3. CASE p = Worker
    <2>1. /\ Busy
          /\ ing'[Worker].ref = ing[Worker].ref /\ ing'[Worker].since = ing[Worker].since
          /\ ing'[Worker].asked = ing[Worker].asked /\ ing'[Worker].todo = ing[Worker].todo
      BY <1>1, <1>3 DEF FinishInserts, Detect, Reconcile, AnalysisFails, FinishFails, FetchFails,
         Go, Busy, Ingestion
    <2>2. \/ ing'[Worker].pc = "fail"
          \/ ing[Worker].pc = "insert" /\ ing[Worker].todo = {}
          \/ ing[Worker].pc \in {"detect", "reconcile"}
      BY <1>1, <1>3 DEF FinishInserts, AfterInserts, Detect, Reconcile, AnalysisFails, FinishFails,
         FetchFails, Go, Ingestion
    <2>3. /\ ing'[Worker].pc \in {"detect", "reconcile", "finish"} => ing[Worker].todo = {}
          /\ ing'[Worker].pc \in AfterFetch => ing[Worker].pc \in AfterFetch
      BY <2>1, <2>2 DEF AfterFetch, CursorInv
    <2> QED BY <1>1, <2>1, <2>3, NothingForgotten, CursorKept DEF Busy, Exists, CursorInv
  <1> QED BY <1>2, <1>3

\* What the job owed and did not store was dropped, or is dated between its
\* fetch and its stamp.
LEMMA CursorStamp ==
  ASSUME TypeInv, CursorInv, LostOnlyKnownWays, Next, Stamp
  PROVE  CursorInv' /\ LostOnlyKnownWays'
  <1> DEFINE job == ing[Worker]
             g == [conn |-> job.ref, from |-> job.asked, upto |-> now]
  <1>1. /\ UNCHANGED <<now, posted, rows, dropped>> /\ Worker \in Ingesters
        /\ ing \in [Ingesters -> Ingestion] /\ conn \in [Connections -> ConnectionRow]
        /\ now \in Nat /\ posted \in [Items -> Time \cup {Never}]
        /\ Busy /\ job.ref \in Connections /\ job.asked \in Time
    BY WorkerIngests DEF Stamp, TypeInv, TypeOK, Time, Busy
  <1>2. Stored' = Stored /\ HeldKeys' = HeldKeys
    BY <1>1 DEF Stored, HeldKeys
  <1>3. CASE ~Exists(job.ref)
    <2>1. UNCHANGED <<conn, gaps>> /\ ing' = [ing EXCEPT ![Worker].pc = "fail"]
      BY <1>3 DEF Stamp, Go
    <2>2. /\ ing'[Worker].ref = job.ref /\ ing'[Worker].since = job.since
          /\ ing'[Worker].asked = job.asked /\ ing'[Worker].todo = job.todo
          /\ ing'[Worker].pc = "fail"
      BY <1>1, <2>1 DEF Ingestion
    <2> QED BY <1>1, <1>2, <2>1, <2>2, CursorKept DEF Busy, Exists, AfterFetch, CursorInv
  <1>4. CASE Exists(job.ref)
    <2>1. /\ conn' = [conn EXCEPT ![job.ref] = [status |-> "SYNCED", last |-> now]]
          /\ gaps' = gaps \cup {g} /\ ing' = [ing EXCEPT ![Worker] = Idle]
      BY <1>4 DEF Stamp
    <2>2. ~Busy'
      BY <1>1, <2>1 DEF Busy, Idle
    <2>3. CursorInv'
      BY <1>1, <2>1, <2>2 DEF CursorInv
    <2>4. /\ Owes(job) /\ job.since = conn[job.ref].last /\ job.todo = {}
      BY <1>1, <1>4 DEF CursorInv, AfterFetch, Stamp
    <2>5. LostOnlyKnownWays'
      <3> SUFFICES ASSUME NEW c \in Connections, NEW i \in Items, Lost(c, i)'
                   PROVE  i \in dropped' \/ InGap(c, i)'
        BY DEF LostOnlyKnownWays
      <3>1. CASE Lost(c, i)
        BY <1>1, <2>1, <3>1 DEF LostOnlyKnownWays, InGap
      <3>2. CASE ~Lost(c, i)
        <4>1. c = job.ref /\ posted[i] >= conn[c].last
          BY <1>1, <1>2, <1>4, <2>1, <3>2 DEF Lost, Exists, ConnectionRow, Time, Never
        <4>2. /\ posted[i] # Never /\ posted[i] < now /\ Origin[i] = AccountOf[c]
              /\ KeyOf[i] \notin HeldKeys
          BY <1>1, <1>2, <2>1, <4>1 DEF Lost
        <4>3. i \in dropped \/ posted[i] >= job.asked
          BY <2>4, <4>1, <4>2 DEF Owes
        <4>4. g.conn = c /\ g.from = job.asked /\ g.upto = now /\ g \in gaps'
          BY <2>1, <4>1
        <4>5. posted[i] >= job.asked => InGap(c, i)'
          BY <1>1, <4>2, <4>4 DEF InGap, Time, Never
        <4> QED BY <1>1, <4>3, <4>5
      <3> QED BY <3>1, <3>2
    <2> QED BY <2>3, <2>5
  <1> QED BY <1>3, <1>4

\* The worker puts a job down without a stamp: the connection keeps its
\* lastSyncedAt.
LEMMA CursorPutDown ==
  ASSUME TypeInv, CursorInv, LostOnlyKnownWays, Next,
         SyncFails \/ Restart \/ CatchFails(Worker)
  PROVE  CursorInv' /\ LostOnlyKnownWays'
  <1>1. /\ UNCHANGED <<now, posted>> /\ Worker \in Ingesters
        /\ ing \in [Ingesters -> Ingestion] /\ conn \in [Connections -> ConnectionRow]
    BY WorkerIngests DEF SyncFails, Restart, CatchFails, data, TypeInv, TypeOK
  <1>2. ~Busy'
    BY <1>1 DEF SyncFails, Restart, CatchFails, Busy, Idle
  <1>3. ASSUME NEW c \in Connections
        PROVE  /\ conn[c].status # "NONE" => conn'[c].status # "NONE"
               /\ conn'[c].last = conn[c].last /\ (Exists(c)' => Exists(c))
    <2>1. CASE conn' = conn
      BY <2>1 DEF Exists
    <2>2. CASE Exists(ing[Worker].ref) /\ conn' = [conn EXCEPT ![ing[Worker].ref].status = "ERROR"]
      BY <1>1, <2>2 DEF Exists, ConnectionRow, SyncStatus
    <2> QED BY <2>1, <2>2 DEF SyncFails, Restart, CatchFails, data
  <1> QED BY <1>1, <1>2, <1>3, NothingForgotten, CursorKept

\* Requests and imports leave the worker's job alone.
LEMMA CursorOthers ==
  ASSUME TypeInv, CursorInv, LostOnlyKnownWays, Next,
         \/ \E r \in Requests : \/ \E c \in Connections : RequestSync(r, c)
                                \/ Enqueue(r) \/ EnqueueFails(r)
         \/ TakeJobFails
         \/ \E m \in Imports : ImportCsv(m) \/ FinishImport(m) \/ CatchFails(m)
  PROVE  CursorInv' /\ LostOnlyKnownWays'
  <1>1. UNCHANGED <<now, posted, conn>>
    BY DEF RequestSync, Enqueue, EnqueueFails, TakeJobFails, ImportCsv, FinishImport, CatchFails,
       data
  <1>2. ing'[Worker] = ing[Worker]
    BY SyncAssumption DEF RequestSync, Enqueue, EnqueueFails, TakeJobFails, ImportCsv,
       FinishImport, CatchFails, TypeInv, TypeOK, Ingesters
  <1> QED BY <1>1, <1>2, NothingForgotten, CursorAside

LEMMA CursorInit == Init => CursorInv /\ LostOnlyKnownWays
  BY WorkerIngests DEF Init, CursorInv, LostOnlyKnownWays, Lost, Absent, Never, Idle, Busy,
     Exists, SyncStatus

LEMMA CursorStep ==
  TypeInv /\ CursorInv /\ LostOnlyKnownWays /\ [Next]_vars => CursorInv' /\ LostOnlyKnownWays'
  <1> SUFFICES ASSUME TypeInv, CursorInv, LostOnlyKnownWays, [Next]_vars
               PROVE  CursorInv' /\ LostOnlyKnownWays'
    OBVIOUS
  <1>1. CASE UNCHANGED vars
    <2>1. Stored' = Stored /\ UNCHANGED <<now, posted, conn, dropped, gaps, ing>>
      BY <1>1 DEF vars, Stored
    <2> QED BY <2>1, CursorAside
  <1>2. CASE Next
    BY <1>2, CursorWorld, CursorConnections, CursorTakeJob, CursorFetch, CursorRows,
       CursorStages, CursorStamp, CursorPutDown, CursorOthers, WorkerIngests
       DEF Next, PerformSync, RequestStep, Import, Ingest, Ingesters
  <1> QED BY <1>1, <1>2

\* For every number of connections, accounts, failures and restarts: what is
\* older than the lastSyncedAt of a connection is in the table, was skipped
\* without an error, or is dated between a fetch and its stamp.
THEOREM NothingElseLost == Spec => []LostOnlyKnownWays
  <1>1. TypeInv /\ CursorInv /\ LostOnlyKnownWays /\ [Next]_vars
          => TypeInv' /\ CursorInv' /\ LostOnlyKnownWays'
    BY TypeStep, CursorStep
  <1> QED BY <1>1, TypeInit, CursorInit, PTL DEF Spec

----------------------------------------------------------------------------
\* Where rows come from

\* The list of an ingestion holds what its account or its file shows, and an
\* import names itself in its rows.
SourceInv ==
  /\ ing[Worker].pc \in AfterFetch =>
       \A i \in ing[Worker].todo : Origin[i] = AccountOf[ing[Worker].ref]
  /\ \A m \in Imports : ing[m].pc # "idle" =>
       ing[m].ref = m /\ ing[m].todo \subseteq FileRows(m)

\* A row says where it came from when it is written.
LEMMA RowsAtInsert ==
  ASSUME TypeInv, SourceInv, RowsKnowTheirSource,
         NEW p \in Ingesters, NEW i \in Items, Insert(p, i)
  PROVE  RowsKnowTheirSource'
  <1> DEFINE new == [item |-> i, ref |-> ing[p].ref]
  <1>1. rows' = rows \cup {new} /\ conn' = conn
    BY DEF Insert
  <1>2. CASE p = Worker
    <2>1. /\ ing[Worker].ref \in Connections /\ Exists(ing[Worker].ref)
          /\ AccountOf[ing[Worker].ref] = Origin[i]
      BY <1>2 DEF Insert, TypeInv, Busy, SourceInv, AfterFetch, RefExists
    <2>2. new.ref \notin Imports
      BY <1>2, <2>1, SyncAssumption
    <2> QED BY <1>1, <1>2, <2>1, <2>2 DEF RowsKnowTheirSource, Exists
  <1>3. CASE p \in Imports
    <2>1. new.ref = p /\ Origin[i] = p
      BY <1>3 DEF Insert, SourceInv, FileRows
    <2>2. new.ref \notin Connections
      BY <1>3, <2>1, SyncAssumption
    <2> QED BY <1>1, <2>1, <2>2 DEF RowsKnowTheirSource, Exists
  <1> QED BY <1>2, <1>3 DEF Ingesters

\* Other steps write no row; a removal takes its connection out of its rows.
LEMMA RowsStep ==
  ASSUME TypeInv, SourceInv, RowsKnowTheirSource, Next
  PROVE  RowsKnowTheirSource'
  <1>1. conn \in [Connections -> ConnectionRow] /\ rows \subseteq Row
    BY DEF TypeInv, TypeOK
  <1>2. ASSUME NEW c \in Connections, Remove(c)
        PROVE  RowsKnowTheirSource'
    <2> DEFINE Cut(r) == [r EXCEPT !.ref = IF r.ref = c THEN NoRef ELSE r.ref]
    <2>1. rows' = {Cut(r) : r \in rows} /\ conn' = [conn EXCEPT ![c] = Removed]
      BY <1>2 DEF Remove
    <2> SUFFICES ASSUME NEW r \in rows
                 PROVE  /\ Cut(r).ref \in Connections =>
                             Exists(Cut(r).ref)' /\ AccountOf[Cut(r).ref] = Origin[Cut(r).item]
                        /\ Cut(r).ref \in Imports => Cut(r).ref = Origin[Cut(r).item]
      BY <2>1 DEF RowsKnowTheirSource, Exists
    <2>2. r \in Row
      BY <1>1
    <2>3. CASE r.ref = c
      <3>1. Cut(r).ref = NoRef
        BY <2>2, <2>3 DEF Row
      <3> QED BY <3>1, SyncAssumption
    <2>4. CASE r.ref # c
      <3>1. Cut(r).ref = r.ref /\ Cut(r).item = r.item
        BY <2>2, <2>4 DEF Row
      <3> QED BY <1>1, <2>1, <2>4, <3>1 DEF RowsKnowTheirSource, Exists
    <2> QED BY <2>3, <2>4
  <1>3. ASSUME UNCHANGED rows, \A c \in Connections : Exists(c) => Exists(c)'
        PROVE  RowsKnowTheirSource'
    BY <1>3 DEF RowsKnowTheirSource
  <1>4. CASE UNCHANGED <<rows, conn>>
    BY <1>3, <1>4 DEF Exists
  <1>5. CASE \E c \in Connections : Create(c)
    <2>1. UNCHANGED rows /\ \A c \in Connections : Exists(c) => Exists(c)'
      BY <1>1, <1>5 DEF Create, Absent, Exists, SyncStatus
    <2> QED BY <1>3, <2>1
  <1>6. CASE (\E r \in Requests : MarkSyncing(r)) \/ Stamp \/ SyncFails
    <2>1. UNCHANGED rows
      BY <1>6 DEF MarkSyncing, Stamp, SyncFails
    <2>2. \/ conn' = conn
          \/ \E d : conn' = [conn EXCEPT ![d].status = "SYNCING"]
          \/ \E d : conn' = [conn EXCEPT ![d].status = "ERROR"]
          \/ \E d : conn' = [conn EXCEPT ![d] = [status |-> "SYNCED", last |-> now]]
      BY <1>6 DEF MarkSyncing, Stamp, SyncFails
    <2>3. \A c \in Connections : Exists(c) => Exists(c)'
      BY <1>1, <2>2 DEF Exists, ConnectionRow, SyncStatus
    <2> QED BY <1>3, <2>1, <2>3
  <1> QED BY <1>2, <1>4, <1>5, <1>6, RowsAtInsert, WorkerIngests DEF Next, Tick, Restart, Post,
        RequestSync, RequestStep, Enqueue, EnqueueFails, PerformSync, TakeJob, TakeJobFails,
        Fetch, FetchFails, ImportCsv, Import, FinishImport, Ingest, SkipRow, InsertFails,
        FinishInserts, Detect, Reconcile, AnalysisFails, FinishFails, CatchFails, data, Ingesters

\* Ingestions that stop, or go on with the same reference and no new row.
LEMMA SourceKept ==
  ASSUME SourceInv,
         \A p \in Ingesters :
           \/ ing'[p].pc = "idle"
           \/ /\ ing[p].pc # "idle" /\ ing'[p].ref = ing[p].ref
              /\ ing'[p].todo \subseteq ing[p].todo
              /\ ing'[p].pc \in AfterFetch => ing[p].pc \in AfterFetch
  PROVE  SourceInv'
  BY WorkerIngests DEF SourceInv, AfterFetch, Ingesters

LEMMA SourceStep ==
  ASSUME TypeInv, SourceInv, Next
  PROVE  SourceInv'
  <1>1. ing \in [Ingesters -> Ingestion] /\ Worker \in Ingesters
    BY WorkerIngests DEF TypeInv, TypeOK
  <1>2. CASE UNCHANGED ing
    BY <1>2 DEF SourceInv
  <1>3. CASE TakeJob
    <2>1. \A m \in Imports : ing'[m] = ing[m]
      BY <1>1, <1>3, SyncAssumption DEF TakeJob, Ingesters
    <2>2. ing'[Worker].pc \in {"idle", "fetch"}
      BY <1>1, <1>3 DEF TakeJob, Idle
    <2> QED BY <2>1, <2>2 DEF SourceInv, AfterFetch
  <1>4. CASE Fetch
    <2>1. \A m \in Imports : ing'[m] = ing[m]
      BY <1>1, <1>4, SyncAssumption DEF Fetch, Ingesters
    <2>2. /\ ing'[Worker].ref = ing[Worker].ref
          /\ ing'[Worker].todo \subseteq Due(AccountOf[ing[Worker].ref], ing[Worker].since)
      BY <1>1, <1>4 DEF Fetch, Ingestion
    <2> QED BY <2>1, <2>2 DEF SourceInv, Due
  <1>5. CASE \E m \in Imports : ImportCsv(m)
    <2>1. PICK m \in Imports : ImportCsv(m)
      BY <1>5
    <2>2. ing'[m].ref = m /\ ing'[m].todo \subseteq FileRows(m)
      BY <1>1, <2>1 DEF ImportCsv, Idle, Ingesters
    <2>3. \A p \in Ingesters \ {m} : ing'[p] = ing[p]
      BY <1>1, <2>1 DEF ImportCsv
    <2> QED BY <1>1, <2>2, <2>3, SyncAssumption DEF SourceInv, Ingesters
  <1>6. ASSUME NEW p \in Ingesters, NEW i \in Items,
               Insert(p, i) \/ SkipRow(p, i) \/ InsertFails(p, i)
        PROVE  SourceInv'
    <2>1. /\ ing[p].pc = "insert" /\ ing'[p].pc = "insert" /\ ing'[p].ref = ing[p].ref
          /\ ing'[p].todo \subseteq ing[p].todo
          /\ \A q \in Ingesters \ {p} : ing'[q] = ing[q]
      BY <1>1, <1>6 DEF Insert, SkipRow, InsertFails, Ingestion
    <2> QED BY <2>1, SourceKept
  <1>7. ASSUME NEW p \in Ingesters,
               \/ FinishInserts(p) \/ Detect(p) \/ Reconcile(p) \/ AnalysisFails(p)
               \/ FinishFails(p)
        PROVE  SourceInv'
    <2>1. /\ ing[p].pc \in AfterFetch /\ ing'[p].ref = ing[p].ref /\ ing'[p].todo = ing[p].todo
          /\ \A q \in Ingesters \ {p} : ing'[q] = ing[q]
      BY <1>1, <1>7 DEF FinishInserts, Detect, Reconcile, AnalysisFails, FinishFails, Go,
         Ingestion, AfterFetch
    <2> QED BY <2>1, SourceKept DEF AfterFetch
  <1>8. CASE FetchFails \/ Stamp \/ SyncFails
    <2>1. /\ ing'[Worker].pc \in {"idle", "fail"}
          /\ \A m \in Imports : ing'[m] = ing[m]
      BY <1>1, <1>8, SyncAssumption DEF FetchFails, Stamp, SyncFails, Go, Idle, Ingestion, Ingesters
    <2> QED BY <2>1 DEF SourceInv, AfterFetch
  <1>9. CASE \/ Restart \/ \E m \in Imports : FinishImport(m)
             \/ \E p \in Ingesters : CatchFails(p)
    <2>1. \A p \in Ingesters : ing'[p] = Idle \/ ing'[p] = ing[p]
      BY <1>1, <1>9 DEF Restart, FinishImport, CatchFails
    <2> QED BY <2>1, SourceKept DEF Idle, AfterFetch
  <1> QED BY <1>2, <1>3, <1>4, <1>5, <1>6, <1>7, <1>8, <1>9, <1>1 DEF Next, Tick, Post, Create,
        Remove, RequestSync, RequestStep, MarkSyncing, Enqueue, EnqueueFails, PerformSync,
        TakeJobFails, Import, Ingest, Ingesters

\* Also when a connection is removed in the middle of an ingestion, no row names
\* a connection that is gone, an account it is not of, or another file.
THEOREM SourcesAlwaysKnown == Spec => []RowsKnowTheirSource
  <1>1. Init => SourceInv /\ RowsKnowTheirSource
    BY WorkerIngests DEF Init, SourceInv, RowsKnowTheirSource, Idle, AfterFetch, Ingesters
  <1>2. TypeInv /\ SourceInv /\ RowsKnowTheirSource /\ [Next]_vars
          => TypeInv' /\ SourceInv' /\ RowsKnowTheirSource'
    <2> SUFFICES ASSUME TypeInv, SourceInv, RowsKnowTheirSource, [Next]_vars
                 PROVE  TypeInv' /\ SourceInv' /\ RowsKnowTheirSource'
      OBVIOUS
    <2>1. CASE UNCHANGED vars
      BY <2>1, TypeStep DEF vars, data, SourceInv, RowsKnowTheirSource, Exists
    <2>2. CASE Next
      BY <2>2, TypeStep, SourceStep, RowsStep
    <2> QED BY <2>1, <2>2
  <1> QED BY <1>1, <1>2, TypeInit, PTL DEF Spec

----------------------------------------------------------------------------
\* Which rows are analysed

\* An ingestion will look at row i: it has inserted rows and not got to the
\* analysis, or the analysis has read i.
Covers(p, i) ==
  \/ ing[p].pc = "insert" /\ ing[p].inserted
  \/ ing[p].pc = "detect"
  \/ ing[p].pc = "reconcile" /\ i \in ing[p].read

Pending == Stored \ (analysed \cup interrupted)

CoverInv ==
  /\ \A i \in Pending : \E p \in Ingesters : Covers(p, i)
  /\ \A m \in Imports : importing[m] = "NONE" => ing[m].pc = "idle"

\* No row is added, and an ingestion that will look at a row still will, or
\* has, or has seen an error.
LEMMA CoverKept ==
  ASSUME CoverInv, Stored' = Stored, analysed \subseteq analysed', interrupted \subseteq interrupted',
         \A p \in Ingesters, i \in Pending' : Covers(p, i) => Covers(p, i)'
  PROVE  (\A i \in Pending : \E p \in Ingesters : Covers(p, i))'
  <1>1. Pending' \subseteq Pending
    BY DEF Pending
  <1> QED BY <1>1 DEF CoverInv

LEMMA CoverStep ==
  ASSUME TypeInv, CoverInv, Next
  PROVE  (\A i \in Pending : \E p \in Ingesters : Covers(p, i))'
  <1>1. ing \in [Ingesters -> Ingestion] /\ Worker \in Ingesters
    BY WorkerIngests DEF TypeInv, TypeOK
  <1>2. CASE UNCHANGED <<rows, ing, analysed>> /\ interrupted \subseteq interrupted'
    BY <1>2, SameRows, CoverKept DEF Covers
  <1>3. CASE \E c \in Connections : Remove(c)
    <2>1. Stored' = Stored /\ UNCHANGED <<ing, analysed, interrupted>>
      BY <1>3, RemoveKeepsRows DEF Remove, history, TypeInv
    <2> QED BY <2>1, CoverKept DEF Covers
  <1>4. ASSUME NEW p \in Ingesters, NEW i \in Items, Insert(p, i)
        PROVE  (\A j \in Pending : \E q \in Ingesters : Covers(q, j))'
    <2>1. /\ Stored' = Stored \cup {i} /\ UNCHANGED <<analysed, interrupted>>
          /\ \A q \in Ingesters \ {p} : ing'[q] = ing[q]
          /\ ing'[p].pc = "insert" /\ ing'[p].inserted
      BY <1>1, <1>4, InsertAddsRow DEF Insert, history, Ingestion
    <2>2. \A j : Covers(p, j)'
      BY <2>1 DEF Covers
    <2>3. Pending' \subseteq Pending \cup {i}
      BY <2>1 DEF Pending
    <2> QED BY <2>1, <2>2, <2>3 DEF CoverInv, Covers
  <1>5. ASSUME NEW p \in Ingesters, UNCHANGED rows,
               analysed \subseteq analysed', interrupted \subseteq interrupted',
               \A q \in Ingesters \ {p} : ing'[q] = ing[q],
               \A i \in Pending' : Covers(p, i) => Covers(p, i)'
        PROVE  (\A i \in Pending : \E q \in Ingesters : Covers(q, i))'
    BY <1>5, SameRows, CoverKept DEF Covers
  <1>6. ASSUME NEW p \in Ingesters, NEW i \in Items, SkipRow(p, i) \/ InsertFails(p, i)
        PROVE  (\A j \in Pending : \E q \in Ingesters : Covers(q, j))'
    <2>1. /\ UNCHANGED <<rows, analysed, interrupted>>
          /\ \A q \in Ingesters \ {p} : ing'[q] = ing[q]
          /\ ing[p].pc = "insert" /\ ing'[p].pc = "insert" /\ ing'[p].inserted = ing[p].inserted
      BY <1>1, <1>6 DEF SkipRow, InsertFails, data, history, Ingestion
    <2> QED BY <2>1, <1>5 DEF Covers
  <1>7. ASSUME NEW p \in Ingesters, FinishInserts(p)
        PROVE  (\A j \in Pending : \E q \in Ingesters : Covers(q, j))'
    <2>1. /\ UNCHANGED <<rows, analysed, interrupted>>
          /\ \A q \in Ingesters \ {p} : ing'[q] = ing[q]
          /\ ing[p].pc = "insert" /\ ing[p].inserted => ing'[p].pc = "detect"
      BY <1>1, <1>7 DEF FinishInserts, AfterInserts, Go, data, history, Ingestion
    <2>2. ing[p].pc = "insert"
      BY <1>7 DEF FinishInserts
    <2> QED BY <2>1, <2>2, <1>5 DEF Covers
  <1>8. ASSUME NEW p \in Ingesters, Detect(p)
        PROVE  (\A j \in Pending : \E q \in Ingesters : Covers(q, j))'
    <2>1. /\ UNCHANGED <<rows, analysed, interrupted>>
          /\ \A q \in Ingesters \ {p} : ing'[q] = ing[q]
          /\ ing'[p].pc = "reconcile" /\ ing'[p].read = Stored
      BY <1>1, <1>8 DEF Detect, data, history, Ingestion
    <2>2. \A j \in Pending' : j \in Stored
      BY <2>1, SameRows DEF Pending
    <2> QED BY <2>1, <2>2, <1>5 DEF Covers
  <1>9. ASSUME NEW p \in Ingesters, Reconcile(p)
        PROVE  (\A j \in Pending : \E q \in Ingesters : Covers(q, j))'
    <2>1. /\ UNCHANGED <<rows, interrupted>> /\ analysed' = analysed \cup ing[p].read
          /\ \A q \in Ingesters \ {p} : ing'[q] = ing[q]
          /\ ing[p].pc = "reconcile"
      BY <1>1, <1>9 DEF Reconcile, Go, data
    <2>2. \A j \in Pending' : ~Covers(p, j)
      BY <2>1 DEF Pending, Covers
    <2> QED BY <2>1, <2>2, <1>5
  <1>10. CASE (\E p \in Ingesters : AnalysisFails(p)) \/ Restart
    <2>1. Stored' = Stored
      BY <1>10, SameRows DEF AnalysisFails, Restart, data
    <2>2. Pending' = {}
      BY <1>10, <2>1 DEF AnalysisFails, Restart, Pending
    <2> QED BY <2>2
  <1>11. CASE TakeJob \/ Fetch \/ FetchFails \/ Stamp \/ SyncFails
    <2>1. /\ UNCHANGED <<rows, analysed, interrupted>>
          /\ \A q \in Ingesters \ {Worker} : ing'[q] = ing[q]
          /\ ing[Worker].pc \in {"idle", "fetch", "finish", "fail"}
      BY <1>1, <1>11 DEF TakeJob, Fetch, FetchFails, Stamp, SyncFails, Go, data, history
    <2> QED BY <1>1, <2>1, <1>5 DEF Covers
  <1>12. ASSUME NEW m \in Imports, ImportCsv(m) \/ FinishImport(m)
         PROVE  (\A j \in Pending : \E q \in Ingesters : Covers(q, j))'
    <2>1. /\ UNCHANGED <<rows, analysed, interrupted>>
          /\ \A q \in Ingesters \ {m} : ing'[q] = ing[q]
          /\ ing[m].pc \in {"idle", "finish", "fail"} /\ m \in Ingesters
      BY <1>1, <1>12 DEF ImportCsv, FinishImport, data, history, CoverInv, Ingesters
    <2> QED BY <2>1, <1>5 DEF Covers
  <1>13. ASSUME NEW p \in Ingesters, FinishFails(p) \/ CatchFails(p)
         PROVE  (\A j \in Pending : \E q \in Ingesters : Covers(q, j))'
    <2>1. /\ UNCHANGED <<rows, analysed, interrupted>>
          /\ \A q \in Ingesters \ {p} : ing'[q] = ing[q]
          /\ ing[p].pc \in {"finish", "fail"}
      BY <1>1, <1>13 DEF FinishFails, CatchFails, Go, data, history
    <2> QED BY <2>1, <1>5 DEF Covers
  <1> QED BY <1>2, <1>3, <1>4, <1>6, <1>7, <1>8, <1>9, <1>10, <1>11, <1>12, <1>13, WorkerIngests
        DEF Next, Tick, Post, Create, RequestSync, RequestStep, MarkSyncing, Enqueue,
        EnqueueFails, PerformSync, TakeJobFails, Import, Ingest, data, history, Ingesters

\* An import begins once.
LEMMA ImportsOnce ==
  ASSUME TypeInv, CoverInv, Next
  PROVE  (\A m \in Imports : importing[m] = "NONE" => ing[m].pc = "idle")'
  <1>1. /\ ing \in [Ingesters -> Ingestion] /\ importing \in [Imports -> CsvImportStatus \cup {"NONE"}]
        /\ \A m \in Imports : m \in Ingesters /\ m # Worker
    BY SyncAssumption DEF TypeInv, TypeOK, Ingesters
  <1> SUFFICES ASSUME NEW m \in Imports, importing'[m] = "NONE"
               PROVE  ing'[m].pc = "idle"
    OBVIOUS
  <1>2. importing[m] = "NONE" /\ ing[m].pc = "idle" /\ ~ImportCsv(m)
    <2>1. importing[m] = "NONE"
      BY <1>1 DEF Next, Tick, Restart, Post, Create, Remove, RequestSync, RequestStep,
         MarkSyncing, Enqueue, EnqueueFails, PerformSync, TakeJob, TakeJobFails, Fetch,
         FetchFails, Stamp, SyncFails, ImportCsv, Import, FinishImport, FinalStatus, Ingest,
         Insert, SkipRow, InsertFails, FinishInserts, Detect, Reconcile, AnalysisFails,
         FinishFails, CatchFails, data
    <2>2. ~ImportCsv(m)
      BY <1>1 DEF ImportCsv
    <2> QED BY <2>1, <2>2 DEF CoverInv
  <1>3. ing'[m] = ing[m] \/ ing'[m] = Idle
    BY <1>1, <1>2 DEF Next, Tick, Restart, Post, Create, Remove, RequestSync, RequestStep,
       MarkSyncing, Enqueue, EnqueueFails, PerformSync, TakeJob, TakeJobFails, Fetch,
       FetchFails, Stamp, SyncFails, ImportCsv, Import, FinishImport, Ingest, Insert, SkipRow,
       InsertFails, FinishInserts, Detect, Reconcile, AnalysisFails, FinishFails, CatchFails, Go
  <1> QED BY <1>2, <1>3 DEF Idle

\* When no ingestion is under way, each row of the table has been searched for
\* internal transfers and negative balances, or an error or a restart cut in.
THEOREM RowsAlwaysAnalysed == Spec => []AnalysedUnlessInterrupted
  <1>1. Init => CoverInv
    BY DEF Init, CoverInv, Pending, Stored, Idle, Ingesters
  <1>2. TypeInv /\ CoverInv /\ [Next]_vars => TypeInv' /\ CoverInv'
    <2> SUFFICES ASSUME TypeInv, CoverInv, [Next]_vars
                 PROVE  TypeInv' /\ CoverInv'
      OBVIOUS
    <2>1. CASE UNCHANGED vars
      BY <2>1, TypeStep DEF vars, data, CoverInv, Pending, Stored, Covers
    <2>2. CASE Next
      BY <2>2, TypeStep, CoverStep, ImportsOnce DEF CoverInv
    <2> QED BY <2>1, <2>2
  <1>3. CoverInv => AnalysedUnlessInterrupted
    BY DEF CoverInv, AnalysedUnlessInterrupted, AllIdle, Pending, Covers
  <1> QED BY <1>1, <1>2, <1>3, TypeInit, PTL DEF Spec
=============================================================================
