----------------------- MODULE TransferMatching_proofs -----------------------
(***************************************************************************)
(* Proofs about TransferMatching, for any rows, histories, sources and     *)
(* number of ingestions.  A search is tied to the pairs it has made by the *)
(* withdrawals behind it and the deposits it has used, and to the pairs of *)
(* others by the searches it was noted to overlap with.  A replay is tied  *)
(* to its reference by the largest sum that ends at its row, and the flags *)
(* to the ingestions that are about to make one or to tell of one.         *)
(***************************************************************************)
EXTENDS BalanceReference, FiniteSetTheorems, WellFoundedInduction, Sums_proofs, TLAPS

\* While a row is looked at for its flag, there is a row; what a search has
\* read is in the table, of which known are the rows.
Held(step, locals, known) ==
  /\ step \in {"flag:find", "flag:create", "notify"} => locals.at <= Len(locals.rows)
  /\ \A k \in DOMAIN locals.outgoing : locals.outgoing[k].id \in known
  /\ \A k \in DOMAIN locals.incoming : locals.incoming[k].id \in known
LocalsHeld == \A p \in Ingests : pc[p] # "idle" => Held(pc[p], job[p], stored)
TypeInv == TypeOK /\ LocalsHeld

----------------------------------------------------------------------------
\* What findMany gives: every row of the set, once.
LEMMA OrderLemma ==
  ASSUME NEW S \in SUBSET Rows, NEW s \in AnyOrder(S)
  PROVE  /\ s \in Seq(Rows) /\ s \in Seq(S)
         /\ \A k \in DOMAIN s : s[k] \in S
         /\ \A j, k \in DOMAIN s : s[j] = s[k] => j = k
<1>1. IsFiniteSet(S) /\ Cardinality(S) \in Nat
  BY BookAssumption, FS_Subset, FS_CardinalityType
<1> QED
  BY <1>1 DEF AnyOrder

LEMMA ReadLemma ==
  ASSUME TypeOK, NEW S \in SUBSET Rows, NEW s \in ReadRows(S)
  PROVE  /\ s \in Seq(Seen)
         /\ \A k \in DOMAIN s : s[k].id \in S /\ s[k].link = link[s[k].id]
         /\ \A j, k \in DOMAIN s : s[j].id = s[k].id => j = k
<1>1. PICK t \in AnyOrder(S) : s = [k \in DOMAIN t |-> [id |-> t[k], link |-> link[t[k]]]]
  BY DEF ReadRows
<1>2. /\ t \in Seq(Rows) /\ \A k \in DOMAIN t : t[k] \in S
      /\ \A j, k \in DOMAIN t : t[j] = t[k] => j = k
  BY OrderLemma
<1>3. \A k \in DOMAIN t : [id |-> t[k], link |-> link[t[k]]] \in Seen
  BY <1>2 DEF TypeOK, Seen
<1>4. s \in Seq(Seen)
  BY <1>1, <1>2, <1>3
<1> QED
  BY <1>1, <1>2, <1>4

\* The deposit that find returns is one it accepts.
LEMMA ChosenLemma ==
  ASSUME NEW j \in Job, NEW out, Candidates(j, out) # {}
  PROVE  Chosen(j, out) \in Candidates(j, out)
<1>1. Candidates(j, out) \subseteq Nat
  BY DEF Candidates, Job
<1>2. PICK k \in Candidates(j, out) :
        \A m \in Candidates(j, out) : ~ (<<m, k>> \in OpToRel(<, Nat))
  BY <1>1, WFMin, NatLessThanWellFounded, Zenon
<1>3. ASSUME NEW m \in Candidates(j, out) PROVE k <= m
  <2>1. ~ (m < k)
    BY <1>1, <1>2 DEF OpToRel
  <2> QED
    BY <1>1, <2>1
<1>4. \E c \in Candidates(j, out) : \A m \in Candidates(j, out) : c <= m
  BY <1>3
<1> QED
  BY <1>4 DEF Chosen

\* The shape of the ingestions in progress, and of everything else.
Shaped ==
  /\ pc \in [Ingests -> Steps] /\ job \in [Ingests -> Job \cup {Nil}]
  /\ \A p \in Ingests : job[p] = Nil <=> pc[p] = "idle"
  /\ LocalsHeld
TablesOK ==
  /\ book \in Books
  /\ stored \in SUBSET Rows /\ internal \in SUBSET stored /\ removed \in SUBSET Sources
  /\ link \in [Rows -> Sources \cup {Nil}] /\ taxYear \in [Rows -> {0, 1}]
  /\ flags \in [Rows -> Nat] /\ notices \in [Rows -> Nat]
  /\ runs \in 0..MaxRuns /\ aborts \in 0..MaxAborts
  /\ pairs \in SUBSET [out : Rows, in : Rows, run : 1..MaxRuns]
  /\ overlaps \in SUBSET SUBSET (1..MaxRuns) /\ contended \in SUBSET Rows

LEMMA TypeParts == TypeInv <=> Shaped /\ TablesOK
BY DEF TypeInv, TypeOK, Shaped, TablesOK

LEMMA TypePartsNext == Shaped' /\ TablesOK' => TypeInv'
BY DEF TypeInv, TypeOK, Shaped, TablesOK

\* Moving ingestion p keeps the shape of all.
LEMMA GotoShape ==
  ASSUME TypeInv, NEW p \in Ingests, NEW step \in Steps \ {"idle"}, NEW locals \in Job,
         Held(step, locals, stored'), stored \subseteq stored',
         Goto(p, step, locals)
  PROVE  Shaped'
<1>1. pc' \in [Ingests -> Steps] /\ job' \in [Ingests -> Job \cup {Nil}]
  BY DEF TypeInv, TypeOK, Goto
<1>2. /\ pc'[p] = step /\ job'[p] = locals
      /\ \A q \in Ingests \ {p} : pc'[q] = pc[q] /\ job'[q] = job[q]
  BY DEF TypeInv, TypeOK, Goto
<1>3. \A q \in Ingests : job'[q] = Nil <=> pc'[q] = "idle"
  BY <1>2, NilAssumption DEF TypeInv, TypeOK
<1>4. ASSUME NEW q \in Ingests, pc'[q] # "idle"
      PROVE  Held(pc'[q], job'[q], stored')
  <2>1. CASE q = p
    BY <1>2, <2>1
  <2>2. CASE q # p
    BY <1>2, <1>4, <2>2 DEF TypeInv, LocalsHeld, Held
  <2> QED
    BY <2>1, <2>2
<1> QED
  BY <1>1, <1>3, <1>4 DEF Shaped, LocalsHeld

LEMMA FinishShape ==
  ASSUME TypeInv, NEW p \in Ingests, Finish(p), stored' = stored
  PROVE  Shaped'
<1>1. pc' \in [Ingests -> Steps] /\ job' \in [Ingests -> Job \cup {Nil}]
  BY DEF TypeInv, TypeOK, Finish, Goto, Steps
<1>2. /\ pc'[p] = "idle" /\ job'[p] = Nil
      /\ \A q \in Ingests \ {p} : pc'[q] = pc[q] /\ job'[q] = job[q]
  BY DEF TypeInv, TypeOK, Finish, Goto
<1>3. \A q \in Ingests : job'[q] = Nil <=> pc'[q] = "idle"
  BY <1>2 DEF TypeInv, TypeOK
<1>4. LocalsHeld'
  BY <1>2 DEF TypeInv, LocalsHeld
<1> QED
  BY <1>1, <1>3, <1>4 DEF Shaped

\* A step that moves ingestion p and writes nothing.
LEMMA QuietStep ==
  ASSUME TypeInv, NEW p \in Ingests, NEW step \in Steps \ {"idle"}, NEW locals \in Job,
         Held(step, locals, stored),
         Goto(p, step, locals), UNCHANGED <<book, tables, runs, aborts, history>>
  PROVE  TypeInv'
<1>1. TablesOK'
  BY TypeParts DEF TablesOK, tables, history
<1>2. Shaped'
  BY GotoShape DEF tables
<1> QED
  BY <1>1, <1>2, TypePartsNext

LEMMA QuietFinish ==
  ASSUME TypeInv, NEW p \in Ingests, Finish(p),
         UNCHANGED <<book, tables, runs, aborts, history>>
  PROVE  TypeInv'
<1>1. TablesOK'
  BY TypeParts DEF TablesOK, tables, history
<1>2. Shaped'
  BY FinishShape DEF tables
<1> QED
  BY <1>1, <1>2, TypePartsNext

\* An ingestion that is at an await has its locals.
LEMMA Busy ==
  ASSUME TypeInv, NEW p \in Ingests, pc[p] # "idle"
  PROVE  job[p] \in Job /\ Held(pc[p], job[p], stored)
BY DEF TypeInv, TypeOK, LocalsHeld

\* Locals with some of them changed.
LEMMA Advanced ==
  ASSUME NEW j \in Job
  PROVE  j.at + 1 \in Nat \ {0} /\ [j EXCEPT !.at = @ + 1] \in Job
<1>1. j.at \in Nat /\ j.at # 0
  BY DEF Job
<1>2. j.at + 1 \in Nat \ {0}
  BY <1>1
<1> QED
  BY <1>2 DEF Job

LEMMA Used ==
  ASSUME NEW j \in Job, NEW n \in Nat \ {0}, NEW used \in SUBSET Rows
  PROVE  [j EXCEPT !.used = used, !.at = n] \in Job
BY DEF Job

LEMMA Incoming ==
  ASSUME NEW j \in Job, NEW s \in Seq(Seen)
  PROVE  [j EXCEPT !.incoming = s, !.used = {}, !.at = 1] \in Job
<1>1. {} \in SUBSET Rows /\ 1 \in Nat \ {0}
  OBVIOUS
<1> QED
  BY <1>1 DEF Job

LEMMA Replayed ==
  ASSUME NEW j \in Job, NEW s \in Seq(Rows), NEW f \in [Assets -> Int]
  PROVE  [j EXCEPT !.rows = s, !.at = 1, !.balance = f] \in Job
<1>1. 1 \in Nat \ {0}
  OBVIOUS
<1> QED
  BY <1>1 DEF Job

LEMMA Balanced ==
  ASSUME NEW j \in Job, NEW a, NEW b \in Int, NEW n \in Nat \ {0}
  PROVE  [j EXCEPT !.balance[a] = b, !.at = n] \in Job
<1>1. [j.balance EXCEPT ![a] = b] \in [Assets -> Int]
  BY DEF Job
<1> QED
  BY <1>1 DEF Job

\* The row an ingestion replays, and what comes after it.
LEMMA NextRowLemma ==
  ASSUME TypeInv, NEW p \in Ingests, pc[p] # "idle", job[p].at <= Len(job[p].rows),
         NEW balance \in Int
  PROVE  /\ Row(p) \in Rows
         /\ NextBalance(p) \in Int
         /\ [job[p] EXCEPT !.balance[book[Row(p)].asset] = balance, !.at = @ + 1] \in Job
<1>1. job[p] \in Job
  BY Busy
<1>2. Row(p) \in Rows
  BY <1>1 DEF Row, Job
<1>3. book[Row(p)] \in Entry
  BY <1>2, BookAssumption DEF TypeInv, TypeOK
<1>4. Signed(book[Row(p)]) \in Int /\ book[Row(p)].asset \in Assets
  BY <1>3 DEF Signed, Entry
<1>5. NextBalance(p) \in Int
  BY <1>1, <1>4 DEF NextBalance, Job
<1> QED
  BY <1>1, <1>2, <1>5, Advanced, Balanced

----------------------------------------------------------------------------
LEMMA TypeInit == ASSUME Init PROVE TypeInv
<1>1. TypeOK
  BY BoundAssumption, BookAssumption DEF Init, TypeOK, Steps
<1> QED
  BY <1>1 DEF Init, LocalsHeld, TypeInv

LEMMA IngestKeepsType ==
  ASSUME TypeInv, NEW p \in Ingests, Ingest(p)
  PROVE  TypeInv'
<1>0. Shaped /\ TablesOK /\ "insert" \in Steps /\ "outgoing" \in Steps
  BY TypeParts DEF Steps
<1>1. ASSUME NEW items \in Batches, BeginIngest(p, items)
      PROVE  TypeInv'
  <2> DEFINE new == [run |-> runs + 1, items |-> items, inserted |-> FALSE,
                     outgoing |-> <<>>, incoming |-> <<>>, used |-> {}, at |-> 1,
                     rows |-> <<>>, balance |-> [a \in Assets |-> 0]]
  <2>1. runs + 1 \in 1..MaxRuns /\ runs' \in 0..MaxRuns
    BY <1>0, <1>1, BoundAssumption DEF BeginIngest, TablesOK
  <2>2. new \in Job
    BY <2>1 DEF Job, Batches
  <2>3. Held("insert", new, stored') /\ stored' = stored
    BY <1>1 DEF Held, BeginIngest, tables
  <2>4. Goto(p, "insert", new)
    BY <1>1 DEF BeginIngest
  <2>5. Shaped'
    <3> HIDE DEF new
    <3> QED
      BY <1>0, <2>2, <2>3, <2>4, GotoShape
  <2>6. TablesOK'
    BY <1>0, <1>1, <2>1 DEF BeginIngest, TablesOK, tables, history
  <2> QED
    BY <2>5, <2>6, TypePartsNext
<1>2. ASSUME NEW r \in Rows, InsertRow(p, r)
      PROVE  TypeInv'
  <2> DEFINE new == [job[p] EXCEPT !.items = @ \ {r}, !.inserted = TRUE]
  <2>1. job[p] \in Job /\ Held(pc[p], job[p], stored)
    BY <1>2, Busy DEF InsertRow
  <2>2. new \in Job
    BY <2>1 DEF Job
  <2>3. stored \subseteq stored' /\ Held("insert", new, stored')
    BY <1>2, <2>1 DEF InsertRow, Held, Job
  <2>4. Goto(p, "insert", new)
    BY <1>2 DEF InsertRow
  <2>5. Shaped'
    <3> HIDE DEF new
    <3> QED
      BY <1>0, <2>2, <2>3, <2>4, GotoShape
  <2>6. book[r].origin \in Sources \cup {Nil}
    BY <1>0, BookAssumption DEF TablesOK, Entry
  <2>7. FullYear(book[r].hour) \in {0, 1}
    BY DEF FullYear
  <2>8. TablesOK'
    BY <1>0, <1>2, <2>6, <2>7 DEF InsertRow, TablesOK, history
  <2> QED
    BY <2>5, <2>8, TypePartsNext
<1>3. ASSUME NEW r \in Rows, SkipRow(p, r)
      PROVE  TypeInv'
  <2>1. job[p] \in Job /\ Held(pc[p], job[p], stored)
    BY <1>3, Busy DEF SkipRow
  <2>2. /\ [job[p] EXCEPT !.items = @ \ {r}] \in Job
        /\ Held("insert", [job[p] EXCEPT !.items = @ \ {r}], stored)
    BY <2>1 DEF Job, Held
  <2> QED
    BY <1>0, <1>3, <2>2, QuietStep DEF SkipRow
<1>4. CASE BeginSearch(p)
  <2>1. job[p] \in Job /\ Held(pc[p], job[p], stored)
    BY <1>4, Busy DEF BeginSearch
  <2>2. \A q \in Ingests : Searching(q) => job[q].run \in 1..MaxRuns
    BY Busy DEF Searching, Job
  <2>3. Searches \subseteq 1..MaxRuns /\ job[p].run \in 1..MaxRuns
    BY <2>1, <2>2 DEF Searches, Job
  <2>4. overlaps' \in SUBSET SUBSET (1..MaxRuns)
    <3>1. overlaps' = overlaps \cup {{job[p].run, s} : s \in Searches}
      BY <1>4 DEF BeginSearch
    <3>2. overlaps \subseteq SUBSET (1..MaxRuns)
      BY <1>0 DEF TablesOK
    <3>3. ASSUME NEW o \in overlaps' PROVE o \subseteq 1..MaxRuns
      <4>1. CASE o \in overlaps
        BY <3>2, <4>1
      <4>2. CASE o \notin overlaps
        <5>1. PICK t \in Searches : o = {job[p].run, t}
          BY <3>1, <4>2
        <5> QED
          BY <2>3, <5>1
      <4> QED
        BY <4>1, <4>2
    <3> QED
      BY <3>3
  <2>5. TablesOK'
    BY <1>0, <1>4, <2>4 DEF BeginSearch, TablesOK, tables
  <2>6. Held("outgoing", job[p], stored') /\ stored' = stored
    BY <1>4, <2>1 DEF BeginSearch, Held, tables
  <2>7. Shaped'
    BY <1>0, <1>4, <2>1, <2>6, GotoShape DEF BeginSearch
  <2> QED
    BY <2>5, <2>7, TypePartsNext
<1>5. CASE NothingInserted(p)
  BY <1>5, QuietFinish DEF NothingInserted
<1> QED
  BY <1>1, <1>2, <1>3, <1>4, <1>5 DEF Ingest

LEMMA DetectKeepsType ==
  ASSUME TypeInv, NEW p \in Ingests, Detect(p)
  PROVE  TypeInv'
<1>0. Shaped /\ TablesOK /\ {"incoming", "match", "history"} \subseteq Steps
  BY TypeParts DEF Steps
<1>1. job[p] \in Job /\ Held(pc[p], job[p], stored)
  BY Busy DEF Detect, ReadOutgoing, ReadIncoming, MarkPair, NoCandidate, EndSearch, AtOutgoing
<1>2. \A types : Unmarked(types) \in SUBSET Rows /\ Unmarked(types) \subseteq stored
  BY <1>0 DEF Unmarked, TablesOK
<1>3. CASE ReadOutgoing(p)
  <2>1. PICK s \in ReadRows(Unmarked(OutgoingTypes)) :
          Goto(p, "incoming", [job[p] EXCEPT !.outgoing = s])
    BY <1>3 DEF ReadOutgoing
  <2>2. s \in Seq(Seen) /\ \A k \in DOMAIN s : s[k].id \in stored
    BY <1>2, ReadLemma DEF TypeInv
  <2>3. [job[p] EXCEPT !.outgoing = s] \in Job
    BY <1>1, <2>2 DEF Job
  <2>4. Held("incoming", [job[p] EXCEPT !.outgoing = s], stored)
    BY <1>1, <2>2 DEF Held, Job
  <2> QED
    BY <1>0, <1>3, <2>1, <2>3, <2>4, QuietStep DEF ReadOutgoing
<1>4. CASE ReadIncoming(p)
  <2>1. PICK s \in ReadRows(Unmarked(IncomingTypes)) :
          Goto(p, "match", [job[p] EXCEPT !.incoming = s, !.used = {}, !.at = 1])
    BY <1>4 DEF ReadIncoming
  <2>2. s \in Seq(Seen) /\ \A k \in DOMAIN s : s[k].id \in stored
    BY <1>2, ReadLemma DEF TypeInv
  <2>3. [job[p] EXCEPT !.incoming = s, !.used = {}, !.at = 1] \in Job
    BY <1>1, <2>2, Incoming
  <2>4. Held("match", [job[p] EXCEPT !.incoming = s, !.used = {}, !.at = 1], stored)
    BY <1>1, <2>2 DEF Held, Job
  <2> QED
    BY <1>0, <1>4, <2>1, <2>3, <2>4, QuietStep DEF ReadIncoming
<1>5. CASE MarkPair(p)
  <2> DEFINE inc == job[p].incoming[Chosen(job[p], Out(p))]
             new == [job[p] EXCEPT !.used = @ \cup {inc.id}, !.at = @ + 1]
  <2>1. Chosen(job[p], Out(p)) \in DOMAIN job[p].incoming
    BY <1>1, <1>5, ChosenLemma DEF MarkPair, Candidates
  <2>2. /\ inc \in Seen /\ Out(p) \in Seen
        /\ Out(p).id \in stored /\ inc.id \in stored
    <3>1. job[p].at \in DOMAIN job[p].outgoing
      BY <1>1, <1>5 DEF MarkPair, AtOutgoing, Job
    <3>2. job[p].outgoing \in Seq(Seen) /\ job[p].incoming \in Seq(Seen)
      BY <1>1 DEF Job
    <3> QED
      BY <1>1, <2>1, <3>1, <3>2 DEF Out, Held
  <2>3. new \in Job
    <3>1. job[p].used \cup {inc.id} \in SUBSET Rows
      BY <1>1, <2>2 DEF Job, Seen
    <3> QED
      BY <1>1, <3>1, Advanced, Used
  <2>4. [out |-> Out(p).id, in |-> inc.id, run |-> job[p].run]
          \in [out : Rows, in : Rows, run : 1..MaxRuns]
    BY <1>1, <2>2 DEF Job, Seen
  <2>5. Held("match", new, stored)
    BY <1>1 DEF Held, Job
  <2>6. /\ Goto(p, "match", new) /\ stored' = stored
        /\ internal' = internal \cup {Out(p).id, inc.id}
        /\ pairs' = pairs \cup {[out |-> Out(p).id, in |-> inc.id, run |-> job[p].run]}
    BY <1>5 DEF MarkPair
  <2>7. internal' \in SUBSET stored'
        /\ pairs' \in SUBSET [out : Rows, in : Rows, run : 1..MaxRuns]
    BY <1>0, <2>2, <2>4, <2>6 DEF TablesOK
  <2>8. TablesOK'
    BY <1>0, <1>5, <2>7 DEF MarkPair, TablesOK
  <2>9. Shaped'
    <3> HIDE DEF new
    <3> QED
      BY <1>0, <2>3, <2>5, <2>6, GotoShape
  <2> QED
    BY <2>8, <2>9, TypePartsNext
<1>6. CASE NoCandidate(p)
  <2>1. /\ [job[p] EXCEPT !.at = @ + 1] \in Job
        /\ Held("match", [job[p] EXCEPT !.at = @ + 1], stored)
    BY <1>1, Advanced DEF Job, Held
  <2> QED
    BY <1>0, <1>6, <2>1, QuietStep DEF NoCandidate
<1>7. CASE EndSearch(p)
  <2>1. Held("history", job[p], stored)
    BY <1>1 DEF Held
  <2> QED
    BY <1>0, <1>1, <1>7, <2>1, QuietStep DEF EndSearch
<1> QED
  BY <1>3, <1>4, <1>5, <1>6, <1>7 DEF Detect

LEMMA ReconcileKeepsType ==
  ASSUME TypeInv, NEW p \in Ingests, Reconcile(p)
  PROVE  TypeInv'
<1>0. /\ Shaped /\ TablesOK
      /\ {"replay", "flag:find", "flag:create", "notify"} \subseteq Steps
  BY TypeParts DEF Steps
<1>1. job[p] \in Job /\ Held(pc[p], job[p], stored)
  BY Busy DEF Reconcile, ReadHistory, ReplayRow, AtRow, FindFlag, CreateFlag, Notify, EndReplay
<1>2. CASE ReadHistory(p)
  <2> DEFINE S == {r \in stored \ internal : ~ Spam(r)}
             New(s) == [job[p] EXCEPT !.rows = s, !.at = 1, !.balance = [a \in Assets |-> 0]]
  <2>1. PICK s \in ByTime(S) : Goto(p, "replay", New(s))
    BY <1>2 DEF ReadHistory
  <2>2. S \in SUBSET Rows /\ s \in AnyOrder(S)
    BY <1>0 DEF TablesOK, ByTime
  <2>3. s \in Seq(Rows)
    BY <2>2, OrderLemma
  <2>4. New(s) \in Job /\ Held("replay", New(s), stored)
    <3>1. [a \in Assets |-> 0] \in [Assets -> Int]
      OBVIOUS
    <3>2. New(s) \in Job
      BY <1>1, <2>3, <3>1, Replayed
    <3> QED
      BY <1>1, <3>2 DEF Held, Job
  <2> QED
    <3> HIDE DEF New
    <3> QED
      BY <1>0, <1>2, <2>1, <2>4, QuietStep DEF ReadHistory
<1> DEFINE After(b) == [job[p] EXCEPT !.balance[book[Row(p)].asset] = b, !.at = @ + 1]
<1>a. ASSUME NEW b \in Int, After(b) \in Job
      PROVE  Held("replay", After(b), stored)
  BY <1>1 DEF Held, Job
<1>3. CASE ReplayRow(p)
  <2>a. pc[p] # "idle" /\ job[p].at <= Len(job[p].rows)
    BY <1>3 DEF ReplayRow, AtRow
  <2>1. NextBalance(p) \in Int
    <3>1. 0 \in Int
      OBVIOUS
    <3> QED
      BY <2>a, <3>1, NextRowLemma
  <2>2. After(NextBalance(p)) \in Job
    BY <2>a, <2>1, NextRowLemma
  <2>3. CASE NextBalance(p) < 0
    <3>1. Held("flag:find", job[p], stored)
      BY <1>1, <1>3 DEF Held, ReplayRow, AtRow
    <3> QED
      BY <1>0, <1>1, <1>3, <2>3, <3>1, QuietStep DEF ReplayRow
  <2>4. CASE ~ (NextBalance(p) < 0)
    <3>1. Goto(p, "replay", After(NextBalance(p)))
      BY <1>3, <2>4 DEF ReplayRow, NextRow
    <3>2. Held("replay", After(NextBalance(p)), stored)
      BY <1>a, <2>1, <2>2
    <3> HIDE DEF After
    <3> QED
      BY <1>0, <1>3, <2>2, <3>1, <3>2, QuietStep DEF ReplayRow
  <2> QED
    BY <2>3, <2>4
<1>4. pc[p] \in {"flag:find", "flag:create", "notify"} =>
        Row(p) \in Rows /\ After(0) \in Job /\ Held("replay", After(0), stored)
  <2> SUFFICES ASSUME pc[p] \in {"flag:find", "flag:create", "notify"}
               PROVE  Row(p) \in Rows /\ After(0) \in Job /\ Held("replay", After(0), stored)
    OBVIOUS
  <2>1. pc[p] # "idle" /\ job[p].at <= Len(job[p].rows)
    BY <1>1 DEF Held
  <2>2. 0 \in Int
    OBVIOUS
  <2>3. Row(p) \in Rows /\ After(0) \in Job
    BY <2>1, <2>2, NextRowLemma
  <2>4. Held("replay", After(0), stored)
    BY <1>a, <2>2, <2>3
  <2> QED
    BY <2>3, <2>4
<1>5. CASE FindFlag(p)
  <2>1. contended' \in SUBSET Rows
    BY <1>0, <1>4, <1>5 DEF FindFlag, TablesOK
  <2>2. TablesOK' /\ stored' = stored
    BY <1>0, <1>5, <2>1 DEF FindFlag, TablesOK, tables
  <2>3. Held("flag:create", job[p], stored)
    BY <1>1, <1>5 DEF Held, FindFlag
  <2>4. Goto(p, "replay", After(0)) \/ Goto(p, "flag:create", job[p])
    BY <1>5 DEF FindFlag, AfterFlag, NextRow
  <2>5. Shaped'
    <3> HIDE DEF After
    <3> QED
      BY <1>0, <1>1, <1>4, <1>5, <2>2, <2>3, <2>4, GotoShape DEF FindFlag
  <2> QED
    BY <2>2, <2>5, TypePartsNext
<1>6. CASE CreateFlag(p)
  <2>1. flags' \in [Rows -> Nat]
    <3>1. Row(p) \in Rows /\ flags \in [Rows -> Nat]
      BY <1>0, <1>4, <1>6 DEF CreateFlag, TablesOK
    <3>2. flags[Row(p)] + 1 \in Nat
      BY <3>1
    <3> QED
      BY <1>6, <3>1, <3>2 DEF CreateFlag
  <2>2. TablesOK' /\ stored' = stored
    BY <1>0, <1>6, <2>1 DEF CreateFlag, TablesOK, history
  <2>3. Held("notify", job[p], stored)
    BY <1>1, <1>6 DEF Held, CreateFlag
  <2>4. Shaped'
    BY <1>0, <1>1, <1>6, <2>2, <2>3, GotoShape DEF CreateFlag
  <2> QED
    BY <2>2, <2>4, TypePartsNext
<1>7. CASE Notify(p)
  <2>1. notices' \in [Rows -> Nat]
    <3>1. Row(p) \in Rows /\ notices \in [Rows -> Nat]
      BY <1>0, <1>4, <1>7 DEF Notify, TablesOK
    <3>2. notices[Row(p)] + 1 \in Nat
      BY <3>1
    <3> QED
      BY <1>7, <3>1, <3>2 DEF Notify
  <2>2. TablesOK' /\ stored' = stored
    BY <1>0, <1>7, <2>1 DEF Notify, TablesOK, history
  <2>3. Goto(p, "replay", After(0))
    BY <1>7 DEF Notify, AfterFlag, NextRow
  <2>4. Shaped'
    <3> HIDE DEF After
    <3> QED
      BY <1>0, <1>4, <1>7, <2>2, <2>3, GotoShape DEF Notify
  <2> QED
    BY <2>2, <2>4, TypePartsNext
<1>8. CASE EndReplay(p)
  BY <1>8, QuietFinish DEF EndReplay
<1> QED
  BY <1>2, <1>3, <1>5, <1>6, <1>7, <1>8 DEF Reconcile

LEMMA TypeStep == ASSUME TypeInv, [Next]_vars PROVE TypeInv'
<1>1. ASSUME NEW p \in Ingests, Abort(p)
      PROVE  TypeInv'
  <2>1. aborts' \in 0..MaxAborts
    BY <1>1, BoundAssumption DEF Abort, TypeInv, TypeOK
  <2>2. TablesOK' /\ stored' = stored
    BY <1>1, <2>1, TypeParts DEF Abort, TablesOK, tables, history
  <2>3. Shaped'
    BY <1>1, <2>2, FinishShape DEF Abort
  <2> QED
    BY <2>2, <2>3, TypePartsNext
<1>2. ASSUME NEW s \in Sources, RemoveSource(s)
      PROVE  TypeInv'
  <2>1. removed' \in SUBSET Sources /\ link' \in [Rows -> Sources \cup {Nil}]
    BY <1>2 DEF RemoveSource, TypeInv, TypeOK
  <2>2. TypeOK'
    BY <1>2, <2>1 DEF RemoveSource, TypeInv, TypeOK, history
  <2>3. LocalsHeld'
    BY <1>2 DEF RemoveSource, TypeInv, LocalsHeld, Held
  <2> QED
    BY <2>2, <2>3 DEF TypeInv
<1>3. CASE UNCHANGED vars
  BY <1>3 DEF vars, tables, history, TypeInv, TypeOK, LocalsHeld, Held
<1> QED
  BY <1>1, <1>2, <1>3, IngestKeepsType, DetectKeepsType, ReconcileKeepsType DEF Next

\* Every state of the model has its types.
THEOREM TypeCorrect == Spec => []TypeOK
<1>1. Init => TypeInv
  BY TypeInit
<1>2. TypeInv /\ [Next]_vars => TypeInv'
  BY TypeStep
<1>3. TypeInv => TypeOK
  BY DEF TypeInv
<1> QED
  BY <1>1, <1>2, <1>3, PTL DEF Spec

----------------------------------------------------------------------------
\* Why pairs are sound: what a search knows of rows, of its own pairs and of
\* those of others.

\* A source that was read is the row's own, or the row's own is gone.
Told(r, source) == source = book[r].origin \/ (source = Nil /\ book[r].origin \in removed)
LinksTold == \A r \in stored : Told(r, link[r])

Sound(seen, types) ==
  /\ \A k \in DOMAIN seen : book[seen[k].id].type \in types /\ Told(seen[k].id, seen[k].link)
  /\ \A j, k \in DOMAIN seen : seen[j].id = seen[k].id => j = k
Readings(p) ==
  /\ pc[p] \in {"incoming", "match", "history"} => Sound(job[p].outgoing, OutgoingTypes)
  /\ pc[p] \in {"match", "history"} => Sound(job[p].incoming, IncomingTypes)

IsBehind(p, r) ==
  \E m \in DOMAIN job[p].outgoing : m < job[p].at /\ job[p].outgoing[m].id = r

\* The pairs of a search are of withdrawals behind it and deposits it has used.
OwnPairs(p) ==
  \A x \in pairs :
    pc[p] # "idle" /\ x.run = job[p].run =>
      /\ pc[p] \notin {"insert", "outgoing", "incoming"}
      /\ pc[p] = "match" =>
           x.in \in job[p].used /\ IsBehind(p, x.out)

\* Pairs of what it has read were made by searches that overlap it.
Reads(seen, r) == \E k \in DOMAIN seen : seen[k].id = r
OthersPairs(p) ==
  \A x \in pairs :
    /\ pc[p] \in {"incoming", "match"} /\ Reads(job[p].outgoing, x.out) /\ x.run # job[p].run =>
         {x.run, job[p].run} \in overlaps
    /\ pc[p] = "match" /\ Reads(job[p].incoming, x.in) /\ x.run # job[p].run =>
         {x.run, job[p].run} \in overlaps

\* Nothing is left behind that it would have paired.
NothingLeft(p) ==
  /\ pc[p] = "match" => job[p].used \subseteq internal
  /\ pc[p] \in {"match", "history"} =>
       \A m \in DOMAIN job[p].outgoing, k \in DOMAIN job[p].incoming :
         /\ pc[p] = "history" \/ m < job[p].at
         /\ Fits(job[p].outgoing[m].id, job[p].incoming[k].id)
         /\ ~ sameSource(job[p].outgoing[m], job[p].incoming[k])
         => job[p].outgoing[m].id \in internal \/ job[p].incoming[k].id \in internal

RunsApart ==
  /\ \A p \in Ingests : pc[p] # "idle" => job[p].run <= runs
  /\ \A p, q \in Ingests : p # q /\ pc[p] # "idle" /\ pc[q] # "idle" => job[p].run # job[q].run
  /\ \A x \in pairs : x.run <= runs

SearchesNoted ==
  \A p, q \in Ingests :
    p # q /\ Searching(p) /\ Searching(q) => {job[p].run, job[q].run} \in overlaps

SearchInv(p) == Readings(p) /\ OwnPairs(p) /\ OthersPairs(p) /\ NothingLeft(p)
MatchInv ==
  /\ LinksTold /\ RunsApart /\ SearchesNoted /\ PairsSound
  /\ \A p \in Ingests : SearchInv(p)

LEMMA MatchInit == ASSUME Init PROVE MatchInv
<1>1. LinksTold /\ RunsApart /\ SearchesNoted
  BY DEF Init, LinksTold, RunsApart, SearchesNoted, Searching
<1>2. PairsSound
  BY DEF Init, PairsSound, PairsFit, PairsApart
<1>3. \A p \in Ingests : SearchInv(p)
  BY DEF Init, SearchInv, Readings, OwnPairs, OthersPairs, NothingLeft
<1> QED
  BY <1>1, <1>2, <1>3 DEF MatchInv

\* What a step leaves of an ingestion it does not move.
LEMMA Untouched ==
  ASSUME MatchInv, NEW q \in Ingests, pc'[q] = pc[q], job'[q] = job[q],
         book' = book, removed \subseteq removed', pairs' = pairs, internal' = internal,
         overlaps \subseteq overlaps'
  PROVE  SearchInv(q)'
<1> USE DEF MatchInv, SearchInv
<1>1. Readings(q)'
  BY DEF Readings, Sound, Told
<1>2. OwnPairs(q)'
  BY DEF OwnPairs, IsBehind
<1>3. OthersPairs(q)'
  BY DEF OthersPairs, Reads
<1>4. NothingLeft(q)'
  BY DEF NothingLeft, Fits, sameSource
<1> QED
  BY <1>1, <1>2, <1>3, <1>4

\* An ingestion that has ended, or replays, owes nothing to the search.
LEMMA AfterSearch ==
  ASSUME NEW p \in Ingests,
         pc'[p] \in {"idle", "replay", "flag:find", "flag:create", "notify"}
  PROVE  SearchInv(p)'
BY DEF SearchInv, Readings, OwnPairs, OthersPairs, NothingLeft

\* A step of p that pairs nothing and begins no search.
LEMMA QuietMatch ==
  ASSUME TypeInv, MatchInv, NEW p \in Ingests, SearchInv(p)', LinksTold',
         \A q \in Ingests \ {p} : pc'[q] = pc[q] /\ job'[q] = job[q],
         pc'[p] # "idle" => pc[p] # "idle" /\ job'[p].run = job[p].run,
         pc'[p] \in {"outgoing", "incoming", "match"} => Searching(p),
         book' = book, removed' = removed, pairs' = pairs, internal' = internal,
         overlaps' = overlaps, runs' = runs
  PROVE  MatchInv'
<1>1. RunsApart'
  BY DEF MatchInv, RunsApart
<1>2. SearchesNoted'
  BY DEF MatchInv, SearchesNoted, Searching
<1>3. PairsSound'
  BY DEF MatchInv, PairsSound, PairsFit, PairsApart, Fits
<1>4. ASSUME NEW q \in Ingests PROVE SearchInv(q)'
  <2>1. CASE q = p
    BY <2>1
  <2>2. CASE q # p
    BY <2>2, Untouched
  <2> QED
    BY <2>1, <2>2
<1> QED
  BY <1>1, <1>2, <1>3, <1>4 DEF MatchInv

\* A step writes the place and the locals of its own ingestion only.
LEMMA Moves ==
  ASSUME TypeInv, NEW p \in Ingests, NEW step, NEW locals, Goto(p, step, locals)
  PROVE  /\ pc'[p] = step /\ job'[p] = locals
         /\ \A q \in Ingests \ {p} : pc'[q] = pc[q] /\ job'[q] = job[q]
BY DEF Goto, TypeInv, TypeOK

LEMMA IngestKeepsMatch ==
  ASSUME TypeInv, MatchInv, TypeInv', NEW p \in Ingests, Ingest(p)
  PROVE  MatchInv'
<1>1. ASSUME NEW items \in Batches, BeginIngest(p, items)
      PROVE  MatchInv'
  <2>1. /\ pc'[p] = "insert" /\ job'[p].run = runs + 1 /\ pc[p] = "idle"
        /\ \A q \in Ingests \ {p} : pc'[q] = pc[q] /\ job'[q] = job[q]
        /\ runs' = runs + 1 /\ UNCHANGED <<book, tables, history>>
    BY <1>1, Moves DEF BeginIngest
  <2>2. runs \in Nat /\ \A q \in Ingests : pc[q] # "idle" => job[q].run \in Nat
    BY Busy, BoundAssumption DEF TypeInv, TypeOK, Job
  <2>3. \A x \in pairs : x.run \in Nat
    BY DEF TypeInv, TypeOK
  <2>4. RunsApart'
    BY <2>1, <2>2, <2>3 DEF MatchInv, RunsApart, history
  <2>5. SearchesNoted' /\ LinksTold' /\ PairsSound'
    BY <2>1 DEF MatchInv, SearchesNoted, Searching, LinksTold, Told, PairsSound, PairsFit,
                PairsApart, Fits, tables, history
  <2>6. SearchInv(p)'
    BY <2>1, <2>2, <2>3
    DEF MatchInv, RunsApart, SearchInv, Readings, OwnPairs, OthersPairs, NothingLeft, history
  <2>7. \A q \in Ingests \ {p} : SearchInv(q)'
    BY <2>1, Untouched DEF tables, history
  <2> QED
    BY <2>4, <2>5, <2>6, <2>7 DEF MatchInv
<1>2. ASSUME NEW r \in Rows, InsertRow(p, r)
      PROVE  MatchInv'
  <2>1. /\ pc'[p] = "insert" /\ job'[p].run = job[p].run /\ pc[p] = "insert"
        /\ \A q \in Ingests \ {p} : pc'[q] = pc[q] /\ job'[q] = job[q]
    <3> DEFINE new == [job[p] EXCEPT !.items = @ \ {r}, !.inserted = TRUE]
    <3>1. job[p] \in Job /\ pc[p] = "insert"
      BY <1>2, Busy DEF InsertRow
    <3>2. new.run = job[p].run
      BY <3>1 DEF Job
    <3>3. Goto(p, "insert", new)
      BY <1>2 DEF InsertRow
    <3> HIDE DEF new
    <3> QED
      BY <3>1, <3>2, <3>3, Moves
  <2>2. LinksTold'
    BY <1>2 DEF InsertRow, MatchInv, LinksTold, Told, TypeInv, TypeOK
  <2>3. SearchInv(p)'
    BY <1>2, <2>1
    DEF InsertRow, MatchInv, SearchInv, Readings, OwnPairs, OthersPairs, NothingLeft, history
  <2> QED
    BY <1>2, <2>1, <2>2, <2>3, QuietMatch DEF InsertRow, history
<1>3. ASSUME NEW r \in Rows, SkipRow(p, r)
      PROVE  MatchInv'
  <2>1. /\ pc'[p] = "insert" /\ job'[p].run = job[p].run /\ pc[p] = "insert"
        /\ \A q \in Ingests \ {p} : pc'[q] = pc[q] /\ job'[q] = job[q]
    BY <1>3, Moves, Busy DEF SkipRow, Job
  <2>2. LinksTold'
    BY <1>3 DEF SkipRow, MatchInv, LinksTold, Told, tables
  <2>3. SearchInv(p)'
    BY <1>3, <2>1
    DEF SkipRow, MatchInv, SearchInv, Readings, OwnPairs, OthersPairs, NothingLeft, history
  <2> QED
    BY <1>3, <2>1, <2>2, <2>3, QuietMatch DEF SkipRow, tables, history
<1>4. CASE BeginSearch(p)
  <2>1. /\ pc'[p] = "outgoing" /\ job'[p] = job[p] /\ pc[p] = "insert"
        /\ \A q \in Ingests \ {p} : pc'[q] = pc[q] /\ job'[q] = job[q]
        /\ UNCHANGED <<book, tables, runs, pairs>>
    BY <1>4, Moves DEF BeginSearch
  <2>2. overlaps \subseteq overlaps' /\ \A q \in Ingests : Searching(q) => {job[p].run, job[q].run} \in overlaps'
    BY <1>4 DEF BeginSearch, Searches
  <2>3. RunsApart'
    BY <2>1 DEF MatchInv, RunsApart
  <2>4. SearchesNoted'
    <3> SUFFICES ASSUME NEW u \in Ingests, NEW q \in Ingests, u # q, Searching(u)', Searching(q)'
                 PROVE  {job'[u].run, job'[q].run} \in overlaps'
      BY DEF SearchesNoted
    <3>1. CASE u = p
      BY <2>1, <2>2, <3>1 DEF Searching
    <3>2. CASE q = p
      <4>1. {job[p].run, job[u].run} \in overlaps'
        BY <2>1, <2>2, <3>2 DEF Searching
      <4>2. {job[p].run, job[u].run} = {job[u].run, job[p].run}
        OBVIOUS
      <4> QED
        BY <2>1, <3>2, <4>1, <4>2
    <3>3. CASE u # p /\ q # p
      BY <2>1, <2>2, <3>3 DEF MatchInv, SearchesNoted, Searching
    <3> QED
      BY <3>1, <3>2, <3>3
  <2>5. LinksTold'
    BY <2>1 DEF MatchInv, LinksTold, Told, tables
  <2>6. PairsSound'
    BY <2>1, <2>2 DEF MatchInv, PairsSound, PairsFit, PairsApart, Fits, tables
  <2>7. SearchInv(p)'
    BY <2>1 DEF MatchInv, SearchInv, Readings, OwnPairs, OthersPairs, NothingLeft
  <2>8. \A q \in Ingests \ {p} : SearchInv(q)'
    BY <2>1, <2>2, Untouched DEF tables
  <2> QED
    BY <2>3, <2>4, <2>5, <2>6, <2>7, <2>8 DEF MatchInv
<1>5. CASE NothingInserted(p)
  <2>1. pc'[p] = "idle" /\ \A q \in Ingests \ {p} : pc'[q] = pc[q] /\ job'[q] = job[q]
    BY <1>5, Moves DEF NothingInserted, Finish
  <2>2. LinksTold'
    BY <1>5 DEF NothingInserted, MatchInv, LinksTold, Told, tables
  <2> QED
    BY <1>5, <2>1, <2>2, AfterSearch, QuietMatch DEF NothingInserted, tables, history
<1> QED
  BY <1>1, <1>2, <1>3, <1>4, <1>5 DEF Ingest

\* What a search reads is not yet paired.
LEMMA FreshReading ==
  ASSUME TypeInv, MatchInv, NEW types, NEW s \in ReadRows(Unmarked(types))
  PROVE  /\ Sound(s, types)
         /\ \A k \in DOMAIN s : s[k].id \notin internal
         /\ \A x \in pairs : ~ Reads(s, x.out) /\ ~ Reads(s, x.in)
<1>1. Unmarked(types) \in SUBSET Rows /\ Unmarked(types) \subseteq stored \ internal
        /\ \A r \in Unmarked(types) : book[r].type \in types
  BY DEF Unmarked, TypeInv, TypeOK
<1>2. /\ \A k \in DOMAIN s : s[k].id \in Unmarked(types) /\ s[k].link = link[s[k].id]
      /\ \A j, k \in DOMAIN s : s[j].id = s[k].id => j = k
  BY <1>1, ReadLemma DEF TypeInv
<1>3. Sound(s, types)
  BY <1>1, <1>2 DEF Sound, MatchInv, LinksTold
<1>4. \A x \in pairs : x.out \in internal /\ x.in \in internal
  BY DEF MatchInv, PairsSound, PairsFit
<1> QED
  BY <1>1, <1>2, <1>3, <1>4 DEF Reads

\* The pair that is marked: of the right kinds, near, and of two sources.
LEMMA PairFits ==
  ASSUME TypeInv, MatchInv, NEW p \in Ingests, MarkPair(p)
  PROVE  LET c == Chosen(job[p], Out(p))
             out == Out(p)
             inc == job[p].incoming[c]
         IN /\ job[p].at \in DOMAIN job[p].outgoing /\ out = job[p].outgoing[job[p].at]
            /\ c \in DOMAIN job[p].incoming
            /\ inc.id \notin job[p].used /\ Fits(out.id, inc.id)
            /\ book[out.id].type \in OutgoingTypes /\ book[inc.id].type \in IncomingTypes
            /\ book[out.id].origin = book[inc.id].origin =>
                 book[out.id].origin \in removed \cup {Nil}
<1> DEFINE c == Chosen(job[p], Out(p))
           inc == job[p].incoming[c]
<1>1. job[p] \in Job
  BY Busy DEF MarkPair, AtOutgoing
<1>2. c \in Candidates(job[p], Out(p))
  BY <1>1, ChosenLemma DEF MarkPair
<1>3. c \in DOMAIN job[p].incoming /\ inc.id \notin job[p].used
        /\ ~ sameSource(Out(p), inc) /\ Fits(Out(p).id, inc.id)
  BY <1>2 DEF Candidates
<1>4. job[p].at \in DOMAIN job[p].outgoing
  BY <1>1 DEF MarkPair, AtOutgoing, Job
<1>5. Sound(job[p].outgoing, OutgoingTypes) /\ Sound(job[p].incoming, IncomingTypes)
  BY DEF MatchInv, SearchInv, Readings, MarkPair, AtOutgoing
<1>6. /\ book[Out(p).id].type \in OutgoingTypes /\ Told(Out(p).id, Out(p).link)
      /\ book[inc.id].type \in IncomingTypes /\ Told(inc.id, inc.link)
  BY <1>3, <1>4, <1>5 DEF Sound, Out
<1>7. book[Out(p).id].origin = book[inc.id].origin => book[Out(p).id].origin \in removed \cup {Nil}
  BY <1>3, <1>6 DEF Told, sameSource
<1> QED
  BY <1>3, <1>4, <1>6, <1>7 DEF Out

\* What the step writes, by the rows it pairs.
LEMMA Marked ==
  ASSUME TypeInv, MatchInv, NEW p \in Ingests, MarkPair(p)
  PROVE  \E new \in [out : Rows, in : Rows, run : 1..MaxRuns] :
           /\ new.run = job[p].run /\ pairs' = pairs \cup {new}
           /\ internal' = internal \cup {new.out, new.in}
           /\ job[p].at \in DOMAIN job[p].outgoing /\ job[p].outgoing[job[p].at].id = new.out
           /\ Reads(job[p].incoming, new.in)
           /\ new.in \notin job[p].used /\ Fits(new.out, new.in)
           /\ book[new.out].type \in OutgoingTypes /\ book[new.in].type \in IncomingTypes
           /\ book[new.out].origin = book[new.in].origin =>
                book[new.out].origin \in removed \cup {Nil}
           /\ pc'[p] = "match" /\ job'[p].run = job[p].run /\ job'[p].at = job[p].at + 1
           /\ job'[p].used = job[p].used \cup {new.in}
           /\ job'[p].outgoing = job[p].outgoing /\ job'[p].incoming = job[p].incoming
           /\ \A q \in Ingests \ {p} : pc'[q] = pc[q] /\ job'[q] = job[q]
<1> DEFINE c == Chosen(job[p], Out(p))
           inc == job[p].incoming[c]
           new == [out |-> Out(p).id, in |-> inc.id, run |-> job[p].run]
           locals == [job[p] EXCEPT !.used = @ \cup {inc.id}, !.at = @ + 1]
<1>1. job[p] \in Job
  BY Busy DEF MarkPair, AtOutgoing
<1>2. /\ job[p].at \in DOMAIN job[p].outgoing /\ Out(p) = job[p].outgoing[job[p].at]
      /\ c \in DOMAIN job[p].incoming
      /\ inc.id \notin job[p].used /\ Fits(Out(p).id, inc.id)
      /\ book[Out(p).id].type \in OutgoingTypes /\ book[inc.id].type \in IncomingTypes
      /\ book[Out(p).id].origin = book[inc.id].origin =>
           book[Out(p).id].origin \in removed \cup {Nil}
  BY PairFits
<1>3. Out(p) \in Seen /\ inc \in Seen
  <2>1. job[p].outgoing \in Seq(Seen) /\ job[p].incoming \in Seq(Seen)
    BY <1>1 DEF Job
  <2> HIDE DEF c
  <2> QED
    BY <1>2, <2>1
<1>4. new \in [out : Rows, in : Rows, run : 1..MaxRuns]
  BY <1>1, <1>3 DEF Job, Seen
<1>5. /\ locals.run = job[p].run /\ locals.at = job[p].at + 1
      /\ locals.used = job[p].used \cup {inc.id}
      /\ locals.outgoing = job[p].outgoing /\ locals.incoming = job[p].incoming
  BY <1>1 DEF Job
<1>6. /\ internal' = internal \cup {Out(p).id, inc.id} /\ pairs' = pairs \cup {new}
      /\ Goto(p, "match", locals)
  BY DEF MarkPair
<1>7. new.out = Out(p).id /\ new.in = inc.id /\ new.run = job[p].run
  OBVIOUS
<1>8. Reads(job[p].incoming, inc.id)
  BY <1>2 DEF Reads
<1> HIDE DEF locals, new
<1>9. /\ pc'[p] = "match" /\ job'[p] = locals
      /\ \A q \in Ingests \ {p} : pc'[q] = pc[q] /\ job'[q] = job[q]
  BY <1>6, Moves
<1> HIDE DEF inc
<1> QED
  BY <1>2, <1>4, <1>5, <1>6, <1>7, <1>8, <1>9

LEMMA MarkKeepsMatch ==
  ASSUME TypeInv, MatchInv, TypeInv', NEW p \in Ingests, MarkPair(p)
  PROVE  MatchInv'
<1>1. PICK new \in [out : Rows, in : Rows, run : 1..MaxRuns] :
        /\ new.run = job[p].run /\ pairs' = pairs \cup {new}
        /\ internal' = internal \cup {new.out, new.in}
        /\ job[p].at \in DOMAIN job[p].outgoing /\ job[p].outgoing[job[p].at].id = new.out
        /\ Reads(job[p].incoming, new.in)
        /\ new.in \notin job[p].used /\ Fits(new.out, new.in)
        /\ book[new.out].type \in OutgoingTypes /\ book[new.in].type \in IncomingTypes
        /\ book[new.out].origin = book[new.in].origin =>
             book[new.out].origin \in removed \cup {Nil}
        /\ pc'[p] = "match" /\ job'[p].run = job[p].run /\ job'[p].at = job[p].at + 1
        /\ job'[p].used = job[p].used \cup {new.in}
        /\ job'[p].outgoing = job[p].outgoing /\ job'[p].incoming = job[p].incoming
        /\ \A q \in Ingests \ {p} : pc'[q] = pc[q] /\ job'[q] = job[q]
  BY Marked
<1>2. UNCHANGED <<book, stored, link, removed, runs, overlaps>>
  BY DEF MarkPair
<1>3. job[p] \in Job /\ pc[p] = "match" /\ Searching(p)
  BY Busy DEF MarkPair, AtOutgoing, Searching
<1>5. job[p].at \in Nat /\ job[p].at # 0 /\ DOMAIN job[p].outgoing \subseteq Nat
  BY <1>3 DEF Job
<1>6. /\ Sound(job[p].outgoing, OutgoingTypes) /\ Sound(job[p].incoming, IncomingTypes)
      /\ OwnPairs(p) /\ OthersPairs(p) /\ NothingLeft(p)
  BY <1>3 DEF MatchInv, SearchInv, Readings
<1>7. \A y \in pairs : book[y.out].type \in OutgoingTypes /\ book[y.in].type \in IncomingTypes
  BY DEF MatchInv, PairsSound, PairsFit
<1>8. \A y \in pairs : {y.out, y.in} \cap {new.out, new.in} # {} => y.out = new.out \/ y.in = new.in
  BY <1>1, <1>7 DEF OutgoingTypes, IncomingTypes
\* The rows of an earlier pair of this search are behind it.
<1>9. ASSUME NEW y \in pairs, y.run = job[p].run
      PROVE  y.out # new.out /\ y.in # new.in
  <2>1. y.in \in job[p].used /\ IsBehind(p, y.out)
    BY <1>3, <1>6, <1>9 DEF OwnPairs
  <2>2. PICK m \in DOMAIN job[p].outgoing : m < job[p].at /\ job[p].outgoing[m].id = y.out
    BY <2>1 DEF IsBehind
  <2>3. m # job[p].at
    BY <1>5, <2>2
  <2>4. job[p].outgoing[m].id # job[p].outgoing[job[p].at].id
    BY <1>1, <1>6, <2>3 DEF Sound
  <2> QED
    BY <1>1, <2>1, <2>2, <2>4
\* Those of another search were paired while this one was under way.
<1>10. \A y \in pairs : y.run # job[p].run /\ (y.out = new.out \/ y.in = new.in) =>
         {y.run, job[p].run} \in overlaps
  BY <1>1, <1>3, <1>6 DEF OthersPairs, Reads
<1>11. PairsSound'
  <2>1. PairsFit'
    <3>1. internal' = {x.out : x \in pairs'} \cup {x.in : x \in pairs'}
      BY <1>1 DEF MatchInv, PairsSound, PairsFit
    <3>2. ASSUME NEW x \in pairs'
          PROVE  /\ book[x.out].type \in OutgoingTypes /\ book[x.in].type \in IncomingTypes
                 /\ Fits(x.out, x.in)
                 /\ book[x.out].origin = book[x.in].origin =>
                      book[x.out].origin \in removed \cup {Nil}
      <4>1. CASE x \in pairs
        BY <4>1 DEF MatchInv, PairsSound, PairsFit
      <4>2. CASE x = new
        BY <1>1, <4>2
      <4> QED
        BY <1>1, <4>1, <4>2
    <3> QED
      BY <1>2, <3>1, <3>2 DEF PairsFit, Fits
  <2>2. ASSUME NEW x \in pairs', NEW y \in pairs', x # y, {x.out, x.in} \cap {y.out, y.in} # {}
        PROVE  {x.run, y.run} \in overlaps' /\ x.run # y.run
    <3>1. CASE x \in pairs /\ y \in pairs
      BY <1>2, <2>2, <3>1 DEF MatchInv, PairsSound, PairsApart
    <3>2. CASE x \in pairs /\ y = new
      <4>1. x.out = new.out \/ x.in = new.in
        BY <1>8, <2>2, <3>2
      <4> QED
        BY <1>1, <1>2, <1>9, <1>10, <3>2, <4>1
    <3>3. CASE x = new /\ y \in pairs
      <4>1. {y.out, y.in} \cap {new.out, new.in} # {}
        BY <2>2, <3>3
      <4>2. y.out = new.out \/ y.in = new.in
        BY <1>8, <3>3, <4>1
      <4>3. {x.run, y.run} = {y.run, x.run}
        OBVIOUS
      <4> QED
        BY <1>1, <1>2, <1>9, <1>10, <3>3, <4>2, <4>3
    <3> QED
      BY <1>1, <2>2, <3>1, <3>2, <3>3
  <2>3. PairsApart'
    BY <2>2 DEF PairsApart
  <2> QED
    BY <2>1, <2>3 DEF PairsSound
<1>12. LinksTold'
  BY <1>2 DEF MatchInv, LinksTold, Told
<1>13. RunsApart'
  BY <1>1, <1>2, <1>3 DEF MatchInv, RunsApart
<1>14. SearchesNoted'
  BY <1>1, <1>2, <1>3 DEF MatchInv, SearchesNoted, Searching
<1>15. SearchInv(p)'
  <2>1. Readings(p)'
    <3>1. /\ job'[p].outgoing = job[p].outgoing /\ job'[p].incoming = job[p].incoming
          /\ book' = book /\ removed' = removed
      BY <1>1, <1>2
    <3> QED
      BY <1>6, <3>1 DEF Readings, Sound, Told
  <2>2. OwnPairs(p)'
    <3>1. ASSUME NEW x \in pairs, x.run = job[p].run
          PROVE  x.in \in job'[p].used /\ IsBehind(p, x.out)'
      <4>1. x.in \in job[p].used /\ IsBehind(p, x.out)
        BY <1>3, <1>6, <3>1 DEF OwnPairs
      <4> QED
        BY <1>1, <1>5, <4>1 DEF IsBehind
    <3>2. new.in \in job'[p].used /\ IsBehind(p, new.out)'
      BY <1>1, <1>5 DEF IsBehind
    <3> QED
      BY <1>1, <3>1, <3>2 DEF OwnPairs
  <2>3. OthersPairs(p)'
    BY <1>1, <1>2, <1>3, <1>6 DEF OthersPairs, Reads
  <2>4. NothingLeft(p)'
    <3>1. job'[p].used \subseteq internal'
      BY <1>1, <1>3, <1>6 DEF NothingLeft
    <3>2. ASSUME NEW m \in DOMAIN job[p].outgoing, NEW k \in DOMAIN job[p].incoming,
                 m < job[p].at + 1,
                 Fits(job[p].outgoing[m].id, job[p].incoming[k].id),
                 ~ sameSource(job[p].outgoing[m], job[p].incoming[k])
          PROVE  job[p].outgoing[m].id \in internal' \/ job[p].incoming[k].id \in internal'
      <4>1. CASE m = job[p].at
        BY <1>1, <4>1
      <4>2. CASE m # job[p].at
        <5>1. m < job[p].at
          BY <1>5, <3>2, <4>2
        <5> QED
          BY <1>1, <1>3, <1>6, <3>2, <5>1 DEF NothingLeft
      <4> QED
        BY <4>1, <4>2
    <3>3. /\ job'[p].outgoing = job[p].outgoing /\ job'[p].incoming = job[p].incoming
          /\ book' = book /\ pc'[p] = "match" /\ job'[p].at = job[p].at + 1
      BY <1>1, <1>2
    <3> QED
      BY <3>1, <3>2, <3>3 DEF NothingLeft, Fits, sameSource
  <2> QED
    BY <2>1, <2>2, <2>3, <2>4 DEF SearchInv
<1>16. ASSUME NEW q \in Ingests, q # p
       PROVE  SearchInv(q)'
  <2>1. pc'[q] = pc[q] /\ job'[q] = job[q]
    BY <1>1, <1>16
  <2>2. Readings(q)'
    BY <1>2, <2>1 DEF MatchInv, SearchInv, Readings, Sound, Told
  <2>3. pc[q] # "idle" => job[q].run # new.run
    BY <1>1, <1>3, <1>16 DEF MatchInv, RunsApart
  <2>4. OwnPairs(q)'
    BY <1>1, <2>1, <2>3 DEF MatchInv, SearchInv, OwnPairs, IsBehind
  <2>5. pc[q] \in {"incoming", "match"} => {new.run, job[q].run} \in overlaps
    BY <1>1, <1>3, <1>16 DEF MatchInv, SearchesNoted, Searching
  <2>6. OthersPairs(q)'
    <3>1. OthersPairs(q) /\ overlaps' = overlaps /\ pairs' = pairs \cup {new}
      BY <1>1, <1>2 DEF MatchInv, SearchInv
    <3> QED
      BY <2>1, <2>5, <3>1 DEF OthersPairs, Reads
  <2>7. NothingLeft(q)'
    <3>1. NothingLeft(q) /\ book' = book /\ internal \subseteq internal'
      BY <1>1, <1>2 DEF MatchInv, SearchInv
    <3> QED
      BY <2>1, <3>1 DEF NothingLeft, Fits, sameSource
  <2> QED
    BY <2>2, <2>4, <2>6, <2>7 DEF SearchInv
<1> QED
  BY <1>11, <1>12, <1>13, <1>14, <1>15, <1>16 DEF MatchInv

LEMMA DetectKeepsMatch ==
  ASSUME TypeInv, MatchInv, TypeInv', NEW p \in Ingests, Detect(p)
  PROVE  MatchInv'
<1>1. CASE ReadOutgoing(p)
  <2>1. PICK s \in ReadRows(Unmarked(OutgoingTypes)) :
          Goto(p, "incoming", [job[p] EXCEPT !.outgoing = s])
    BY <1>1 DEF ReadOutgoing
  <2> DEFINE new == [job[p] EXCEPT !.outgoing = s]
  <2>2. job[p] \in Job /\ pc[p] = "outgoing"
    BY <1>1, Busy DEF ReadOutgoing
  <2>3. new.outgoing = s /\ new.run = job[p].run
    BY <2>2 DEF Job
  <2>4. /\ pc'[p] = "incoming" /\ job'[p].outgoing = s /\ job'[p].run = job[p].run
        /\ \A q \in Ingests \ {p} : pc'[q] = pc[q] /\ job'[q] = job[q]
    <3>1. Goto(p, "incoming", new)
      BY <2>1
    <3> HIDE DEF new
    <3> QED
      BY <2>3, <3>1, Moves
  <2>5. UNCHANGED <<book, stored, link, internal, removed, runs, pairs, overlaps>>
    BY <1>1 DEF ReadOutgoing, tables, history
  <2>6. Sound(s, OutgoingTypes) /\ \A x \in pairs : ~ Reads(s, x.out)
    BY FreshReading
  <2>7. OwnPairs(p)
    BY DEF MatchInv, SearchInv
  <2>8. Readings(p)'
    BY <2>4, <2>5, <2>6 DEF Readings, Sound, Told
  <2>9. OwnPairs(p)'
    BY <2>2, <2>4, <2>5, <2>7 DEF OwnPairs
  <2>10. OthersPairs(p)' /\ NothingLeft(p)'
    BY <2>4, <2>5, <2>6 DEF OthersPairs, NothingLeft, Reads
  <2>11. LinksTold'
    BY <2>5 DEF MatchInv, LinksTold, Told
  <2> QED
    BY <2>2, <2>4, <2>5, <2>8, <2>9, <2>10, <2>11, QuietMatch DEF SearchInv, Searching
<1>2. CASE ReadIncoming(p)
  <2>1. PICK s \in ReadRows(Unmarked(IncomingTypes)) :
          Goto(p, "match", [job[p] EXCEPT !.incoming = s, !.used = {}, !.at = 1])
    BY <1>2 DEF ReadIncoming
  <2> DEFINE new == [job[p] EXCEPT !.incoming = s, !.used = {}, !.at = 1]
  <2>2. job[p] \in Job /\ pc[p] = "incoming"
    BY <1>2, Busy DEF ReadIncoming
  <2>3. /\ new.incoming = s /\ new.run = job[p].run /\ new.outgoing = job[p].outgoing
        /\ new.used = {} /\ new.at = 1
    BY <2>2 DEF Job
  <2>4. /\ pc'[p] = "match" /\ job'[p].incoming = s /\ job'[p].run = job[p].run
        /\ job'[p].outgoing = job[p].outgoing /\ job'[p].used = {} /\ job'[p].at = 1
        /\ \A q \in Ingests \ {p} : pc'[q] = pc[q] /\ job'[q] = job[q]
    <3>1. Goto(p, "match", new)
      BY <2>1
    <3> HIDE DEF new
    <3> QED
      BY <2>3, <3>1, Moves
  <2>5. UNCHANGED <<book, stored, link, internal, removed, runs, pairs, overlaps>>
    BY <1>2 DEF ReadIncoming, tables, history
  <2>6. Sound(s, IncomingTypes) /\ \A x \in pairs : ~ Reads(s, x.in)
    BY FreshReading
  <2>7. Readings(p) /\ OwnPairs(p) /\ OthersPairs(p)
    BY DEF MatchInv, SearchInv
  <2>8. Readings(p)'
    BY <2>2, <2>4, <2>5, <2>6, <2>7 DEF Readings, Sound, Told
  <2>9. OwnPairs(p)'
    BY <2>2, <2>4, <2>5, <2>7 DEF OwnPairs
  <2>10. OthersPairs(p)'
    BY <2>2, <2>4, <2>5, <2>6, <2>7 DEF OthersPairs, Reads
  <2>11. NothingLeft(p)'
    <3>1. \A m \in DOMAIN job[p].outgoing : ~ (m < 1)
      BY <2>2 DEF Job
    <3> QED
      BY <2>4, <3>1 DEF NothingLeft
  <2>12. LinksTold'
    BY <2>5 DEF MatchInv, LinksTold, Told
  <2> QED
    BY <2>2, <2>4, <2>5, <2>8, <2>9, <2>10, <2>11, <2>12, QuietMatch DEF SearchInv, Searching
<1>3. CASE NoCandidate(p)
  <2> DEFINE new == [job[p] EXCEPT !.at = @ + 1]
  <2>1. job[p] \in Job /\ pc[p] = "match" /\ job[p].at \in DOMAIN job[p].outgoing
    <3>1. job[p] \in Job /\ pc[p] = "match" /\ job[p].at <= Len(job[p].outgoing)
      BY <1>3, Busy DEF NoCandidate, AtOutgoing
    <3> QED
      BY <3>1 DEF Job
  <2>2. /\ new.incoming = job[p].incoming /\ new.run = job[p].run
        /\ new.outgoing = job[p].outgoing /\ new.used = job[p].used /\ new.at = job[p].at + 1
    BY <2>1 DEF Job
  <2>3. Goto(p, "match", new)
    BY <1>3 DEF NoCandidate
  <2>4. /\ pc'[p] = "match" /\ job'[p].incoming = job[p].incoming /\ job'[p].run = job[p].run
        /\ job'[p].outgoing = job[p].outgoing /\ job'[p].used = job[p].used
        /\ job'[p].at = job[p].at + 1
        /\ \A q \in Ingests \ {p} : pc'[q] = pc[q] /\ job'[q] = job[q]
    <3> HIDE DEF new
    <3> QED
      BY <2>2, <2>3, Moves
  <2>5. UNCHANGED <<book, stored, link, internal, removed, runs, pairs, overlaps>>
    BY <1>3 DEF NoCandidate, tables, history
  <2>6. Readings(p) /\ OwnPairs(p) /\ OthersPairs(p) /\ NothingLeft(p)
    BY DEF MatchInv, SearchInv
  <2>7. job[p].at \in Nat /\ DOMAIN job[p].outgoing \subseteq Nat
    BY <2>1 DEF Job
  <2>8. Readings(p)'
    BY <2>1, <2>4, <2>5, <2>6 DEF Readings, Sound, Told
  <2>9. OwnPairs(p)'
    <3>1. \A r : IsBehind(p, r) => IsBehind(p, r)'
      BY <2>4, <2>7 DEF IsBehind
    <3> QED
      BY <2>1, <2>4, <2>5, <2>6, <3>1 DEF OwnPairs
  <2>10. OthersPairs(p)'
    BY <2>1, <2>4, <2>5, <2>6 DEF OthersPairs, Reads
  \* A deposit that fits and is not taken has been used.
  <2>11. NothingLeft(p)'
    <3>1. job'[p].used \subseteq internal'
      BY <2>1, <2>4, <2>5, <2>6 DEF NothingLeft
    <3>2. ASSUME NEW m \in DOMAIN job[p].outgoing, NEW k \in DOMAIN job[p].incoming,
                 m < job[p].at + 1,
                 Fits(job[p].outgoing[m].id, job[p].incoming[k].id),
                 ~ sameSource(job[p].outgoing[m], job[p].incoming[k])
          PROVE  job[p].outgoing[m].id \in internal' \/ job[p].incoming[k].id \in internal'
      <4>1. CASE m = job[p].at
        <5>1. k \notin Candidates(job[p], Out(p))
          BY <1>3 DEF NoCandidate
        <5>2. job[p].incoming[k].id \in job[p].used
          BY <3>2, <4>1, <5>1 DEF Candidates, Out
        <5> QED
          BY <2>4, <3>1, <5>2
      <4>2. CASE m # job[p].at
        <5>1. m < job[p].at
          BY <2>7, <3>2, <4>2
        <5> QED
          BY <2>1, <2>5, <2>6, <3>2, <5>1 DEF NothingLeft
      <4> QED
        BY <4>1, <4>2
    <3> QED
      BY <2>4, <2>5, <3>1, <3>2 DEF NothingLeft, Fits, sameSource
  <2>12. LinksTold'
    BY <2>5 DEF MatchInv, LinksTold, Told
  <2> QED
    BY <2>1, <2>4, <2>5, <2>8, <2>9, <2>10, <2>11, <2>12, QuietMatch DEF SearchInv, Searching
<1>4. CASE EndSearch(p)
  <2>1. job[p] \in Job /\ pc[p] = "match" /\ job[p].at > Len(job[p].outgoing)
    BY <1>4, Busy DEF EndSearch
  <2>2. /\ pc'[p] = "history" /\ job'[p] = job[p]
        /\ \A q \in Ingests \ {p} : pc'[q] = pc[q] /\ job'[q] = job[q]
    BY <1>4, Moves DEF EndSearch
  <2>3. UNCHANGED <<book, stored, link, internal, removed, runs, pairs, overlaps>>
    BY <1>4 DEF EndSearch, tables, history
  <2>4. Readings(p) /\ OwnPairs(p) /\ NothingLeft(p)
    BY DEF MatchInv, SearchInv
  <2>5. \A m \in DOMAIN job[p].outgoing : m < job[p].at
    BY <2>1 DEF Job
  <2>6. Readings(p)'
    BY <2>1, <2>2, <2>3, <2>4 DEF Readings, Sound, Told
  <2>7. OwnPairs(p)' /\ OthersPairs(p)'
    BY <2>1, <2>2, <2>3, <2>4 DEF OwnPairs, OthersPairs
  <2>8. NothingLeft(p)'
    BY <2>1, <2>2, <2>3, <2>4, <2>5 DEF NothingLeft, Fits, sameSource
  <2>9. LinksTold'
    BY <2>3 DEF MatchInv, LinksTold, Told
  <2> QED
    BY <2>1, <2>2, <2>3, <2>6, <2>7, <2>8, <2>9, QuietMatch DEF SearchInv
<1> QED
  BY <1>1, <1>2, <1>3, <1>4, MarkKeepsMatch DEF Detect

LEMMA ReconcileKeepsMatch ==
  ASSUME TypeInv, MatchInv, TypeInv', NEW p \in Ingests, Reconcile(p)
  PROVE  MatchInv'
<1> DEFINE After(b) == [job[p] EXCEPT !.balance[book[Row(p)].asset] = b, !.at = @ + 1]
<1>1. job[p] \in Job
  BY Busy
  DEF Reconcile, ReadHistory, ReplayRow, AtRow, FindFlag, CreateFlag, Notify, EndReplay
<1>2. \A b : After(b).run = job[p].run
  BY <1>1 DEF Job
<1>3. \E step \in {"idle", "replay", "flag:find", "flag:create", "notify"} : \E locals :
        /\ Goto(p, step, locals)
        /\ step # "idle" => locals.run = job[p].run
  <2>1. CASE ReadHistory(p)
    <3>1. PICK s : Goto(p, "replay", [job[p] EXCEPT !.rows = s, !.at = 1,
                                         !.balance = [a \in Assets |-> 0]])
      BY <2>1 DEF ReadHistory
    <3>2. [job[p] EXCEPT !.rows = s, !.at = 1, !.balance = [a \in Assets |-> 0]].run = job[p].run
      BY <1>1 DEF Job
    <3> QED
      BY <3>1, <3>2
  <2>2. CASE ReplayRow(p) \/ FindFlag(p) \/ Notify(p)
    <3>1. \/ Goto(p, "flag:find", job[p]) \/ Goto(p, "flag:create", job[p])
          \/ \E b : Goto(p, "replay", After(b))
      BY <2>2 DEF ReplayRow, FindFlag, Notify, NextRow, AfterFlag
    <3> HIDE DEF After
    <3> QED
      BY <1>2, <3>1
  <2>3. CASE CreateFlag(p) \/ EndReplay(p)
    BY <2>3 DEF CreateFlag, EndReplay, Finish
  <2> QED
    BY <2>1, <2>2, <2>3 DEF Reconcile
<1>4. /\ pc'[p] \in {"idle", "replay", "flag:find", "flag:create", "notify"}
      /\ pc'[p] # "idle" => job'[p].run = job[p].run
      /\ \A q \in Ingests \ {p} : pc'[q] = pc[q] /\ job'[q] = job[q]
  BY <1>3, Moves
<1>5. UNCHANGED <<book, stored, link, internal, removed, runs, pairs, overlaps>>
  BY DEF Reconcile, ReadHistory, ReplayRow, FindFlag, CreateFlag, Notify, EndReplay, tables, history
<1>6. pc[p] # "idle"
  BY DEF Reconcile, ReadHistory, ReplayRow, AtRow, FindFlag, CreateFlag, Notify, EndReplay
<1>7. LinksTold'
  BY <1>5 DEF MatchInv, LinksTold, Told
<1> QED
  BY <1>4, <1>5, <1>6, <1>7, AfterSearch, QuietMatch

LEMMA MatchStep == ASSUME TypeInv, MatchInv, [Next]_vars PROVE MatchInv'
<1>0. TypeInv'
  BY TypeStep
<1>1. ASSUME NEW p \in Ingests, Abort(p)
      PROVE  MatchInv'
  <2>1. pc'[p] = "idle" /\ \A q \in Ingests \ {p} : pc'[q] = pc[q] /\ job'[q] = job[q]
    BY <1>1, Moves DEF Abort, Finish
  <2>2. LinksTold'
    BY <1>1 DEF Abort, MatchInv, LinksTold, Told, tables
  <2> QED
    BY <1>1, <2>1, <2>2, AfterSearch, QuietMatch DEF Abort, tables, history
<1>2. ASSUME NEW s \in Sources, RemoveSource(s)
      PROVE  MatchInv'
  <2>1. UNCHANGED <<book, stored, internal, pc, job, runs, pairs, overlaps>>
        /\ removed' = removed \cup {s}
        /\ link' = [r \in Rows |-> IF link[r] = s THEN Nil ELSE link[r]]
    BY <1>2 DEF RemoveSource, history
  <2>2. LinksTold'
    <3>1. stored \subseteq Rows /\ Nil \notin Sources
      BY BookAssumption DEF TypeInv, TypeOK
    <3> QED
      BY <2>1, <3>1 DEF MatchInv, LinksTold, Told
  <2>3. RunsApart' /\ SearchesNoted'
    BY <2>1 DEF MatchInv, RunsApart, SearchesNoted, Searching
  <2>4. PairsSound'
    BY <2>1 DEF MatchInv, PairsSound, PairsFit, PairsApart, Fits
  <2>5. \A q \in Ingests : SearchInv(q)'
    BY <2>1, Untouched
  <2> QED
    BY <2>2, <2>3, <2>4, <2>5 DEF MatchInv
<1>3. CASE UNCHANGED vars
  <2>1. UNCHANGED <<book, stored, link, internal, removed, pc, job, runs, pairs, overlaps>>
    BY <1>3 DEF vars, tables, history
  <2>2. LinksTold' /\ RunsApart' /\ SearchesNoted'
    BY <2>1 DEF MatchInv, LinksTold, Told, RunsApart, SearchesNoted, Searching
  <2>3. PairsSound'
    BY <2>1 DEF MatchInv, PairsSound, PairsFit, PairsApart, Fits
  <2>4. \A q \in Ingests : SearchInv(q)'
    BY <2>1, Untouched
  <2> QED
    BY <2>2, <2>3, <2>4 DEF MatchInv
<1> QED
  BY <1>0, <1>1, <1>2, <1>3, IngestKeepsMatch, DetectKeepsMatch, ReconcileKeepsMatch DEF Next

\* Rows are hidden from the tax calculation two by two, of one coin, near in
\* time and amount and of two sources (or of none recorded); and a row is in
\* two pairs only of searches that were in progress together.
THEOREM PairsAlwaysSound == Spec => []PairsSound
<1>1. Init => TypeInv /\ MatchInv
  BY TypeInit, MatchInit
<1>2. TypeInv /\ MatchInv /\ [Next]_vars => TypeInv' /\ MatchInv'
  BY TypeStep, MatchStep
<1>3. MatchInv => PairsSound
  BY DEF MatchInv
<1> QED
  BY <1>1, <1>2, <1>3, PTL DEF Spec

\* A search that has ended left nothing it read that it would have paired,
\* whatever other ingestions and removals did meanwhile.
THEOREM SearchesExhaust == Spec => []SearchExhausts
<1>1. Init => TypeInv /\ MatchInv
  BY TypeInit, MatchInit
<1>2. TypeInv /\ MatchInv /\ [Next]_vars => TypeInv' /\ MatchInv'
  BY TypeStep, MatchStep
<1>3. MatchInv => SearchExhausts
  BY DEF MatchInv, SearchInv, NothingLeft, SearchExhausts
<1> QED
  BY <1>1, <1>2, <1>3, PTL DEF Spec

----------------------------------------------------------------------------
\* The replay of a history

Entries == [Rows -> Entry]

MovesFrom(h, rows, a, i, n) ==
  [k \in {m \in (i + 1)..n : h[rows[m]].asset = a} |-> Signed(h[rows[k]])]
\* How row n changes the balance of coin a.
Change(h, rows, a, n) == IF h[rows[n]].asset = a THEN Signed(h[rows[n]]) ELSE 0

LEMMA SignedType ==
  ASSUME NEW h \in Entries, NEW rows \in Seq(Rows), NEW n \in 1..Len(rows)
  PROVE  /\ Signed(h[rows[n]]) \in Int /\ h[rows[n]].asset \in Assets
         /\ \A a : Change(h, rows, a, n) \in Int
  <1>1. h[rows[n]] \in Entry
    BY DEF Entries
  <1> QED BY <1>1 DEF Entry, Signed, Change

LEMMA MovesSummable ==
  ASSUME NEW h \in Entries, NEW rows \in Seq(Rows), NEW a, NEW n \in 0..Len(rows), NEW i \in 0..n
  PROVE  Summable(MovesFrom(h, rows, a, i, n))
  <1>1. \A k \in (i + 1)..n : k \in 1..Len(rows)
    OBVIOUS
  <1> QED BY <1>1, SignedType DEF MovesFrom, Summable

MovesOn(h, rows, a, i, n) ==
  /\ Moved(h, rows, a, i, n) \in Int
  /\ i = n => Moved(h, rows, a, i, n) = 0
  /\ i < n => Moved(h, rows, a, i, n) = Moved(h, rows, a, i, n - 1) + Change(h, rows, a, n)

LEMMA MovedStep ==
  ASSUME NEW h \in Entries, NEW rows \in Seq(Rows), NEW a, NEW n \in 0..Len(rows), NEW i \in 0..n
  PROVE  MovesOn(h, rows, a, i, n)
  <1>1. \A m : Moved(h, rows, a, i, m) = SumTo(MovesFrom(h, rows, a, i, m), m)
    BY DEF Moved, MovesFrom
  <1>2. n \in Nat /\ i \in Nat
    OBVIOUS
  <1>3. Summable(MovesFrom(h, rows, a, i, n))
    BY MovesSummable
  <1>4. Moved(h, rows, a, i, n) \in Int
    BY <1>1, <1>2, <1>3, SumStep
  <1>5. CASE i = n
    <2>1. \A k : At(MovesFrom(h, rows, a, i, n), k) = 0
      BY <1>2, <1>5 DEF At, MovesFrom
    <2>2. SumTo(MovesFrom(h, rows, a, i, n), n) = 0
      BY <1>2, <1>3, <2>1, SumEmpty
    <2> QED BY <1>1, <1>4, <1>5, <2>2 DEF MovesOn
  <1>6. CASE i < n
    <2>1. n > 0 /\ n - 1 \in Nat /\ n - 1 \in 0..Len(rows) /\ i \in 0..(n - 1)
      BY <1>2, <1>6
    <2>2. Summable(MovesFrom(h, rows, a, i, n - 1))
      BY <2>1, MovesSummable
    <2>3. SumTo(MovesFrom(h, rows, a, i, n), n)
            = SumTo(MovesFrom(h, rows, a, i, n), n - 1) + At(MovesFrom(h, rows, a, i, n), n)
      BY <1>2, <1>3, <2>1, SumStep
    <2>4. At(MovesFrom(h, rows, a, i, n), n) = Change(h, rows, a, n)
      BY <1>2, <1>6 DEF At, MovesFrom, Change
    <2>5. \A k \in 1..(n - 1) : At(MovesFrom(h, rows, a, i, n), k) = At(MovesFrom(h, rows, a, i, n - 1), k)
      BY <1>2 DEF At, MovesFrom
    <2>6. SumTo(MovesFrom(h, rows, a, i, n), n - 1) = SumTo(MovesFrom(h, rows, a, i, n - 1), n - 1)
      BY <1>3, <2>1, <2>2, <2>5, SumAgrees
    <2> QED BY <1>1, <1>2, <1>4, <1>6, <2>3, <2>4, <2>6 DEF MovesOn
  <1> QED BY <1>2, <1>5, <1>6

\* A balance that never falls below zero is the largest of these.
Stretches(h, rows, a, n) == {Moved(h, rows, a, i, n) : i \in 0..n}
Largest(T, b) == b \in T /\ \A y \in T : y <= b

LEMMA MaxIs ==
  ASSUME NEW T \in SUBSET Int, NEW b, Largest(T, b)
  PROVE  Max(T) = b
  <1>1. b \in T /\ \A y \in T : b >= y
    BY DEF Largest
  <1>2. \A c \in T : (\A y \in T : c >= y) => c = b
    BY <1>1
  <1> QED BY <1>1, <1>2 DEF Max

LEMMA LargestBegins ==
  ASSUME NEW h \in Entries, NEW rows \in Seq(Rows), NEW a
  PROVE  Largest(Stretches(h, rows, a, 0), 0)
  <1>1. 0 \in 0..Len(rows) /\ 0..0 = {0}
    OBVIOUS
  <1>2. MovesOn(h, rows, a, 0, 0)
    BY <1>1, MovedStep
  <1>3. Moved(h, rows, a, 0, 0) = 0
    BY <1>2 DEF MovesOn
  <1> QED BY <1>1, <1>3 DEF Largest, Stretches

LEMMA LargestStep ==
  ASSUME NEW h \in Entries, NEW rows \in Seq(Rows), NEW a, NEW n \in 1..Len(rows),
         NEW b \in Nat, Largest(Stretches(h, rows, a, n - 1), b),
         NEW c \in Nat, c = IF b + Change(h, rows, a, n) < 0 THEN 0 ELSE b + Change(h, rows, a, n)
  PROVE  Largest(Stretches(h, rows, a, n), c)
  <1>1. /\ n \in Nat /\ n > 0 /\ n \in 0..Len(rows) /\ n - 1 \in 0..Len(rows)
        /\ 0..n = 0..(n - 1) \cup {n}
    OBVIOUS
  <1>2. PICK x \in Int : x = Change(h, rows, a, n)
    BY SignedType
  <1>3. /\ Moved(h, rows, a, n, n) = 0
        /\ \A i \in 0..(n - 1) : /\ Moved(h, rows, a, i, n - 1) \in Int
                                 /\ Moved(h, rows, a, i, n) = Moved(h, rows, a, i, n - 1) + x
    <2>1. n \in 0..n
      BY <1>1
    <2>2. \A i \in 0..(n - 1) : i \in 0..n /\ i < n
      BY <1>1
    <2>3. \A i \in 0..n : MovesOn(h, rows, a, i, n)
      BY <1>1, MovedStep
    <2>4. \A i \in 0..(n - 1) : MovesOn(h, rows, a, i, n - 1)
      BY <1>1, MovedStep
    <2> QED BY <1>1, <1>2, <2>1, <2>2, <2>3, <2>4 DEF MovesOn
  <1>4. PICK j \in 0..(n - 1) : Moved(h, rows, a, j, n - 1) = b
    BY DEF Largest, Stretches
  <1>5. \A i \in 0..(n - 1) : Moved(h, rows, a, i, n - 1) <= b
    BY DEF Largest, Stretches
  <1>6. \A i \in 0..n : Moved(h, rows, a, i, n) <= c
    <2> TAKE i \in 0..n
    <2>1. CASE i = n
      BY <1>3, <2>1
    <2>2. CASE i \in 0..(n - 1)
      BY <1>2, <1>3, <1>5, <2>2
    <2> QED BY <1>1, <2>1, <2>2
  <1>7. \E i \in 0..n : Moved(h, rows, a, i, n) = c
    <2>1. CASE b + x < 0
      BY <1>1, <1>2, <1>3, <2>1
    <2>2. CASE ~ (b + x < 0)
      BY <1>1, <1>2, <1>3, <1>4, <2>2
    <2> QED BY <2>1, <2>2
  <1> QED BY <1>6, <1>7 DEF Largest, Stretches

LEMMA BalanceIs ==
  ASSUME NEW h \in Entries, NEW rows \in Seq(Rows), NEW a, NEW n \in 0..Len(rows),
         NEW b, Largest(Stretches(h, rows, a, n), b)
  PROVE  BalanceAfter(h, rows, a, n) = b
  <1>1. Stretches(h, rows, a, n) \in SUBSET Int
    <2>1. \A i \in 0..n : MovesOn(h, rows, a, i, n)
      BY MovedStep
    <2> QED BY <2>1 DEF Stretches, MovesOn
  <1>2. Max(Stretches(h, rows, a, n)) = b
    BY <1>1, MaxIs
  <1> QED BY <1>2 DEF BalanceAfter, Stretches

----------------------------------------------------------------------------
\* Balances and flags of the replays in progress

Flagging == {"flag:find", "flag:create", "notify"}
Replaying == {"replay"} \cup Flagging

BalanceAt(h, j, a) ==
  j.balance[a] \in Nat /\ Largest(Stretches(h, j.rows, a, j.at - 1), j.balance[a])
ShortAt(h, j) ==
  LET e == h[j.rows[j.at]] IN j.balance[e.asset] + Signed(e) < 0

ReplayAt(h, fl, s, j) ==
  /\ j.at <= Len(j.rows) + 1
  /\ \A a \in Assets : BalanceAt(h, j, a)
  /\ \A n \in 1..(j.at - 1) : FallsShort(h, j.rows, n) => fl[j.rows[n]] > 0
  /\ s \in Flagging => j.at <= Len(j.rows) /\ ShortAt(h, j)
  /\ s = "notify" => fl[j.rows[j.at]] > 0

BalanceInv == \A p \in Ingests : pc[p] \in Replaying => ReplayAt(book, flags, pc[p], job[p])

FlagsKept == \A r \in Rows : flags[r] > 0 => flags'[r] > 0

LEMMA ReplayStays ==
  ASSUME NEW h, NEW fl, NEW gl, NEW s, NEW j \in Job, ReplayAt(h, fl, s, j),
         \A r \in Rows : fl[r] > 0 => gl[r] > 0
  PROVE  ReplayAt(h, gl, s, j)
  <1>1. \A n \in 1..(j.at - 1) : j.rows[n] \in Rows
    BY DEF ReplayAt, Job
  <1>2. s = "notify" => j.rows[j.at] \in Rows
    BY DEF ReplayAt, Job, Flagging
  <1> QED BY <1>1, <1>2 DEF ReplayAt

\* One ingestion moves; what it is about to replay is as it should be.
LEMMA ReplayMove ==
  ASSUME TypeInv, BalanceInv, NEW p \in Ingests, NEW s, NEW j, Goto(p, s, j), book' = book,
         FlagsKept, s \in Replaying => ReplayAt(book, flags', s, j)
  PROVE  BalanceInv'
  <1>1. \A q \in Ingests : /\ pc'[q] = IF q = p THEN s ELSE pc[q]
                           /\ job'[q] = IF q = p THEN j ELSE job[q]
    BY DEF Goto, TypeInv, TypeOK
  <1>2. ASSUME NEW q \in Ingests, q # p, pc[q] \in Replaying
        PROVE  ReplayAt(book, flags', pc[q], job[q])
    <2>1. job[q] \in Job
      BY <1>2, Busy DEF Replaying, Flagging
    <2> QED BY <1>2, <2>1, ReplayStays DEF BalanceInv, FlagsKept
  <1>3. ASSUME NEW q \in Ingests, pc'[q] \in Replaying
        PROVE  ReplayAt(book, flags', pc'[q], job'[q])
    BY <1>1, <1>2, <1>3
  <1> QED BY <1>3 DEF BalanceInv

\* The replay goes on to the next row.
LEMMA ReplayNext ==
  ASSUME NEW h \in Entries, NEW fl, NEW s, NEW j \in Job, ReplayAt(h, fl, s, j),
         j.at <= Len(j.rows), NEW e, e = h[j.rows[j.at]],
         NEW b \in Int,
         b = IF j.balance[e.asset] + Signed(e) < 0 THEN 0 ELSE j.balance[e.asset] + Signed(e),
         j.balance[e.asset] + Signed(e) < 0 => fl[j.rows[j.at]] > 0
  PROVE  ReplayAt(h, fl, "replay", [j EXCEPT !.balance[e.asset] = b, !.at = @ + 1])
  <1> DEFINE d == [j EXCEPT !.balance[e.asset] = b, !.at = @ + 1]
  <1>1. /\ j.rows \in Seq(Rows) /\ j.at \in Nat /\ j.at > 0 /\ j.at \in 1..Len(j.rows)
        /\ j.balance \in [Assets -> Int]
    BY DEF Job
  <1>2. /\ d.rows = j.rows /\ d.at = j.at + 1 /\ d.at - 1 = j.at
        /\ d.balance = [j.balance EXCEPT ![e.asset] = b]
    BY <1>1 DEF Job
  <1>3. e.asset \in Assets /\ Signed(e) \in Int
    BY <1>1, SignedType
  <1> HIDE DEF d
  <1>4. \A a \in Assets : j.balance[a] \in Nat /\ Largest(Stretches(h, j.rows, a, j.at - 1), j.balance[a])
    BY DEF ReplayAt, BalanceAt
  <1>5. b \in Nat
    BY <1>3, <1>4
  <1>6. ASSUME NEW a \in Assets PROVE BalanceAt(h, d, a)
    <2>1. PICK c \in Nat : c = d.balance[a]
      BY <1>1, <1>2, <1>4, <1>5
    <2>2. Change(h, j.rows, a, j.at) = IF a = e.asset THEN Signed(e) ELSE 0
      BY DEF Change
    <2>3. c = IF j.balance[a] + Change(h, j.rows, a, j.at) < 0 THEN 0
              ELSE j.balance[a] + Change(h, j.rows, a, j.at)
      <3>1. CASE a = e.asset
        BY <1>1, <1>2, <1>3, <2>1, <2>2, <3>1
      <3>2. CASE a # e.asset
        <4>1. PICK x \in Nat : x = j.balance[a]
          BY <1>4
        <4>2. d.balance[a] = j.balance[a]
          BY <1>1, <1>2, <3>2
        <4>3. Change(h, j.rows, a, j.at) = 0
          BY <2>2, <3>2
        <4> QED BY <2>1, <4>1, <4>2, <4>3
      <3> QED BY <3>1, <3>2
    <2>4. Largest(Stretches(h, j.rows, a, j.at), c)
      <3>1. PICK b0 \in Nat : b0 = j.balance[a] /\ Largest(Stretches(h, j.rows, a, j.at - 1), b0)
        BY <1>4
      <3>2. c = IF b0 + Change(h, j.rows, a, j.at) < 0 THEN 0 ELSE b0 + Change(h, j.rows, a, j.at)
        BY <2>3, <3>1
      <3> QED BY <1>1, <3>1, <3>2, LargestStep
    <2> QED BY <1>2, <2>1, <2>4 DEF BalanceAt
  <1>7. ASSUME NEW n \in 1..(d.at - 1), FallsShort(h, d.rows, n) PROVE fl[d.rows[n]] > 0
    <2>1. CASE n \in 1..(j.at - 1)
      BY <1>2, <1>7, <2>1 DEF ReplayAt
    <2>2. CASE n = j.at
      <3>1. j.at - 1 \in 0..Len(j.rows)
        BY <1>1
      <3>2. BalanceAfter(h, j.rows, e.asset, j.at - 1) = j.balance[e.asset]
        BY <1>1, <1>3, <1>4, <3>1, BalanceIs
      <3> QED BY <1>2, <1>7, <2>2, <3>2 DEF FallsShort
    <2> QED BY <1>1, <1>2, <2>1, <2>2
  <1>8. d.at <= Len(d.rows) + 1
    BY <1>1, <1>2
  <1>9. ReplayAt(h, fl, "replay", d)
    BY <1>6, <1>7, <1>8 DEF ReplayAt, Flagging
  <1> QED BY <1>9 DEF d

LEMMA BookType ==
  ASSUME TypeInv
  PROVE  book \in Entries
  BY BookAssumption DEF TypeInv, TypeOK, Entries

LEMMA ReplayStarts ==
  ASSUME TypeInv, BalanceInv, NEW p \in Ingests, ReadHistory(p)
  PROVE  BalanceInv'
  <1> DEFINE S == {r \in stored \ internal : ~ Spam(r)}
             New(s) == [job[p] EXCEPT !.rows = s, !.at = 1, !.balance = [a \in Assets |-> 0]]
  <1>1. PICK s \in ByTime(S) : Goto(p, "replay", New(s))
    BY DEF ReadHistory
  <1>2. S \in SUBSET Rows /\ s \in AnyOrder(S)
    BY DEF TypeInv, TypeOK, ByTime
  <1>3. s \in Seq(Rows) /\ job[p] \in Job /\ book' = book /\ FlagsKept /\ book \in Entries
    <2>1. s \in Seq(Rows)
      BY <1>2, OrderLemma
    <2>2. job[p] \in Job
      BY Busy DEF ReadHistory
    <2> QED BY <2>1, <2>2, BookType DEF ReadHistory, FlagsKept, tables
  <1>4. New(s).rows = s /\ New(s).at = 1 /\ New(s).balance = [a \in Assets |-> 0]
    BY <1>3 DEF Job
  <1> HIDE DEF New, S
  <1>5. ASSUME NEW a \in Assets PROVE BalanceAt(book, New(s), a)
    <2>1. Largest(Stretches(book, s, a, 0), 0)
      BY <1>3, LargestBegins
    <2> QED BY <1>4, <2>1 DEF BalanceAt
  <1>6. ReplayAt(book, flags', "replay", New(s))
    BY <1>3, <1>4, <1>5 DEF ReplayAt, Flagging
  <1> QED BY <1>1, <1>3, <1>6, ReplayMove

LEMMA ReplaySteps ==
  ASSUME TypeInv, BalanceInv, NEW p \in Ingests,
         ReplayRow(p) \/ FindFlag(p) \/ CreateFlag(p) \/ Notify(p)
  PROVE  BalanceInv'
  <1> DEFINE j == job[p]
             e == book[Row(p)]
             After(b) == [j EXCEPT !.balance[e.asset] = b, !.at = @ + 1]
  <1>1. /\ pc[p] \in Replaying /\ book' = book /\ book \in Entries
        /\ pc[p] # "idle" /\ flags \in [Rows -> Nat]
    BY BookType DEF ReplayRow, AtRow, FindFlag, CreateFlag, Notify, Replaying, Flagging,
                    TypeInv, TypeOK
  <1>2. j \in Job /\ ReplayAt(book, flags, pc[p], j)
    BY <1>1, Busy DEF BalanceInv
  <1>3. j.at <= Len(j.rows) /\ Row(p) = j.rows[j.at] /\ (pc[p] \in Flagging => ShortAt(book, j))
    BY <1>2 DEF ReplayRow, AtRow, FindFlag, CreateFlag, Notify, ReplayAt, Flagging, Row
  <1>4. Row(p) \in Rows /\ NextBalance(p) \in Int
    <2>1. 0 \in Int
      OBVIOUS
    <2> QED BY <1>1, <1>3, <2>1, NextRowLemma
  <1>5. FlagsKept
    <2>1. CASE CreateFlag(p)
      <3>1. flags' = [flags EXCEPT ![Row(p)] = @ + 1]
        BY <2>1 DEF CreateFlag
      <3>2. \A r \in Rows : flags'[r] = IF r = Row(p) THEN flags[r] + 1 ELSE flags[r]
        BY <1>1, <3>1
      <3> QED BY <1>1, <3>2 DEF FlagsKept
    <2>2. CASE ~ CreateFlag(p)
      BY <2>2 DEF ReplayRow, FindFlag, Notify, FlagsKept, tables
    <2> QED BY <2>1, <2>2
  <1>6. NextBalance(p) = j.balance[e.asset] + Signed(e)
    BY DEF NextBalance
  <1>7. ReplayAt(book, flags', pc[p], j)
    BY <1>2, <1>5, ReplayStays DEF FlagsKept
  <1>8. ASSUME NEW b \in Int, b = IF NextBalance(p) < 0 THEN 0 ELSE NextBalance(p),
               NextBalance(p) < 0 => flags'[Row(p)] > 0, NextRow(p, b)
        PROVE  BalanceInv'
    <2>1. Goto(p, "replay", After(b))
      BY <1>8 DEF NextRow
    <2> HIDE DEF j, e
    <2>2. e = book[j.rows[j.at]]
      BY <1>3 DEF e
    <2>3. ReplayAt(book, flags', "replay", After(b))
      BY <1>1, <1>2, <1>3, <1>6, <1>7, <1>8, <2>2, ReplayNext
    <2> HIDE DEF After
    <2> QED BY <1>1, <1>5, <2>1, <2>3, ReplayMove
  <1>9. ShortAt(book, j) <=> NextBalance(p) < 0
    BY <1>3, <1>6 DEF ShortAt
  <1>10. ASSUME NEW s \in Flagging, Goto(p, s, j), NextBalance(p) < 0,
                s = "notify" => flags'[Row(p)] > 0
         PROVE  BalanceInv'
    <2>1. ReplayAt(book, flags', s, j)
      BY <1>3, <1>7, <1>9, <1>10 DEF ReplayAt
    <2> QED BY <1>1, <1>5, <1>10, <2>1, ReplayMove
  <1>11. pc[p] \in Flagging => NextBalance(p) < 0
    BY <1>3, <1>9
  <1> HIDE DEF j, e, After
  <1>12. CASE ReplayRow(p)
    <2>1. CASE NextBalance(p) < 0
      <3>1. Goto(p, "flag:find", j)
        BY <1>12, <2>1 DEF ReplayRow, j
      <3> QED BY <1>10, <2>1, <3>1 DEF Flagging
    <2>2. CASE ~ (NextBalance(p) < 0)
      <3>1. NextRow(p, NextBalance(p))
        BY <1>12, <2>2 DEF ReplayRow
      <3> QED BY <1>4, <1>8, <2>2, <3>1
    <2> QED BY <2>1, <2>2
  <1>13. ASSUME pc[p] \in Flagging, flags'[Row(p)] > 0, AfterFlag(p) PROVE BalanceInv'
    <2>1. NextRow(p, 0)
      BY <1>13 DEF AfterFlag
    <2> QED BY <1>8, <1>11, <1>13, <2>1
  <1>14. CASE FindFlag(p)
    <2>1. pc[p] \in Flagging /\ flags' = flags
      BY <1>14 DEF FindFlag, Flagging, tables
    <2>2. CASE flags[Row(p)] > 0
      BY <1>13, <1>14, <2>1, <2>2 DEF FindFlag
    <2>3. CASE ~ (flags[Row(p)] > 0)
      <3>1. Goto(p, "flag:create", j)
        BY <1>14, <2>3 DEF FindFlag, j
      <3> QED BY <1>10, <1>11, <2>1, <3>1 DEF Flagging
    <2> QED BY <2>2, <2>3
  <1>15. CASE CreateFlag(p)
    <2>1. pc[p] \in Flagging /\ flags' = [flags EXCEPT ![Row(p)] = @ + 1] /\ Goto(p, "notify", j)
      BY <1>15 DEF CreateFlag, Flagging, j
    <2>2. flags'[Row(p)] > 0
      BY <1>1, <1>4, <2>1
    <2> QED BY <1>10, <1>11, <2>1, <2>2 DEF Flagging
  <1>16. CASE Notify(p)
    <2>1. pc[p] = "notify" /\ flags' = flags /\ AfterFlag(p)
      BY <1>16 DEF Notify
    <2>2. flags'[Row(p)] > 0
      BY <1>2, <1>3, <2>1 DEF ReplayAt
    <2> QED BY <1>13, <2>1, <2>2 DEF Flagging
  <1> QED BY <1>12, <1>14, <1>15, <1>16

LEMMA BalanceStep == ASSUME TypeInv, BalanceInv, [Next]_vars PROVE BalanceInv'
  <1>1. ASSUME NEW p \in Ingests, Ingest(p) \/ Detect(p) \/ Abort(p) \/ EndReplay(p)
        PROVE  BalanceInv'
    <2>1. /\ book' = book /\ FlagsKept
          /\ \E s \in Steps \ Replaying : \E j : Goto(p, s, j)
      BY <1>1 DEF Ingest, BeginIngest, InsertRow, SkipRow, BeginSearch, NothingInserted,
                  Detect, ReadOutgoing, ReadIncoming, MarkPair, NoCandidate, EndSearch,
                  Abort, EndReplay, Finish, FlagsKept, tables, Steps, Replaying, Flagging
    <2> QED BY <2>1, ReplayMove
  <1>2. ASSUME UNCHANGED <<book, flags, pc, job>> PROVE BalanceInv'
    BY <1>2 DEF BalanceInv
  <1>3. CASE \E s \in Sources : RemoveSource(s)
    BY <1>2, <1>3 DEF RemoveSource
  <1>4. CASE UNCHANGED vars
    BY <1>2, <1>4 DEF vars, tables
  <1>5. ASSUME NEW p \in Ingests, Reconcile(p) PROVE BalanceInv'
    BY <1>1, <1>5, ReplayStarts, ReplaySteps DEF Reconcile
  <1> QED BY <1>1, <1>3, <1>4, <1>5 DEF Next

LEMMA BalanceInit == ASSUME Init PROVE BalanceInv
  BY DEF Init, BalanceInv, Replaying, Flagging

----------------------------------------------------------------------------
\* Flags and notices

Here(step, c, l, r) == c = step /\ l.rows[l.at] = r
Count(step, c, j, r) == Cardinality({q \in Ingests : Here(step, c[q], j[q], r)})
Bit(b) == IF b THEN 1 ELSE 0
\* What a process at s, at row x, adds to the count of those at step and row r.
Adds(s, x, step, r) == IF s = step /\ x = r THEN 1 ELSE 0
Counted(step, c, j, d, k, p, r) ==
  Count(step, d, k, r) + Bit(Here(step, c[p], j[p], r))
    = Count(step, c, j, r) + Bit(Here(step, d[p], k[p], r))

\* A flag is made for everyone who will tell of it; and where no two were about
\* to make one, there is one at most, those to be made included.
FlagInv ==
  \A r \in Rows :
    /\ notices[r] + Count("notify", pc, job, r) <= flags[r]
    /\ r \notin contended => flags[r] + Count("flag:create", pc, job, r) <= 1

LEMMA CountType ==
  ASSUME NEW step, NEW c, NEW j, NEW r
  PROVE  Count(step, c, j, r) \in Nat
  <1>1. IsFiniteSet({q \in Ingests : Here(step, c[q], j[q], r)})
    BY BookAssumption, FS_Subset
  <1> QED BY <1>1, FS_CardinalityType DEF Count

LEMMA CountStep ==
  ASSUME NEW step, NEW c, NEW j, NEW d, NEW k, NEW r, NEW p \in Ingests, NEW s, NEW l,
         DOMAIN c = Ingests, DOMAIN j = Ingests,
         d = [c EXCEPT ![p] = s], k = [j EXCEPT ![p] = l]
  PROVE  Counted(step, c, j, d, k, p, r)
  <1> DEFINE A == {q \in Ingests : Here(step, c[q], j[q], r)}
             B == {q \in Ingests : Here(step, d[q], k[q], r)}
             R == {q \in Ingests \ {p} : Here(step, c[q], j[q], r)}
  <1>1. IsFiniteSet(R) /\ p \notin R
    BY BookAssumption, FS_Subset
  <1>2. Cardinality(R) \in Nat /\ Cardinality(R \cup {p}) = Cardinality(R) + 1
    BY <1>1, FS_CardinalityType, FS_AddElement
  <1>3. A = IF Here(step, c[p], j[p], r) THEN R \cup {p} ELSE R
    OBVIOUS
  <1>4. B = IF Here(step, d[p], k[p], r) THEN R \cup {p} ELSE R
    OBVIOUS
  <1>5. Count(step, c, j, r) = Cardinality(A)
    BY DEF Count
  <1>6. Count(step, d, k, r) = Cardinality(B)
    BY DEF Count
  <1> HIDE DEF A, B, R
  <1> QED BY <1>2, <1>3, <1>4, <1>5, <1>6 DEF Bit, Counted

LEMMA CountGoto ==
  ASSUME TypeInv, NEW p \in Ingests, NEW s, NEW l, Goto(p, s, l), NEW step, NEW r
  PROVE  Count(step, pc', job', r) + Bit(Here(step, pc[p], job[p], r))
           = Count(step, pc, job, r) + Bit(Here(step, s, l, r))
  <1>1. DOMAIN pc = Ingests /\ DOMAIN job = Ingests
    BY DEF TypeInv, TypeOK
  <1>2. pc' = [pc EXCEPT ![p] = s] /\ job' = [job EXCEPT ![p] = l]
    BY DEF Goto
  <1>3. Counted(step, pc, job, pc', job', p, r)
    BY <1>1, <1>2, CountStep
  <1>4. pc'[p] = s /\ job'[p] = l
    BY <1>1, <1>2
  <1> QED BY <1>3, <1>4 DEF Counted

\* A step that goes neither to the creation nor to the notice.
LEMMA QuietFlags ==
  ASSUME TypeInv, FlagInv, NEW p \in Ingests, NEW s, NEW l, Goto(p, s, l),
         s \notin {"flag:create", "notify"},
         flags' = flags, notices' = notices, contended \subseteq contended'
  PROVE  FlagInv'
  <1>1. ASSUME NEW r \in Rows, NEW step \in {"flag:create", "notify"}
        PROVE  Count(step, pc', job', r) <= Count(step, pc, job, r)
    <2>1. ~ Here(step, s, l, r)
      BY <1>1 DEF Here
    <2>2. Bit(Here(step, s, l, r)) = 0 /\ Bit(Here(step, pc[p], job[p], r)) \in {0, 1}
      BY <2>1 DEF Bit
    <2>3. Count(step, pc', job', r) \in Nat /\ Count(step, pc, job, r) \in Nat
      BY CountType
    <2> QED BY <2>2, <2>3, CountGoto
  <1>2. \A r \in Rows : flags[r] \in Nat /\ notices[r] \in Nat
    BY DEF TypeInv, TypeOK
  <1> SUFFICES ASSUME NEW r \in Rows
               PROVE  /\ notices'[r] + Count("notify", pc', job', r) <= flags'[r]
                      /\ r \notin contended' => flags'[r] + Count("flag:create", pc', job', r) <= 1
    BY DEF FlagInv
  <1>3. \A step, c, j : Count(step, c, j, r) \in Nat
    BY CountType
  <1>4. /\ Count("notify", pc', job', r) <= Count("notify", pc, job, r)
        /\ Count("flag:create", pc', job', r) <= Count("flag:create", pc, job, r)
    BY <1>1
  <1>5. /\ notices[r] + Count("notify", pc, job, r) <= flags[r]
        /\ r \notin contended => flags[r] + Count("flag:create", pc, job, r) <= 1
    BY DEF FlagInv
  <1> QED BY <1>2, <1>3, <1>4, <1>5

\* The counts of row r after a step of p that goes to s.
Tallied(c, j, d, k, p, x, s, r, step) ==
  /\ Count(step, d, k, r) \in Nat /\ Count(step, c, j, r) \in Nat
  /\ Count(step, d, k, r) + Adds(c[p], x, step, r) = Count(step, c, j, r) + Adds(s, x, step, r)

LEMMA CountedStep ==
  ASSUME TypeInv, NEW p \in Ingests, NEW s, NEW r, NEW step, Goto(p, s, job[p])
  PROVE  Tallied(pc, job, pc', job', p, Row(p), s, r, step)
  <1>1. \A c, j : Count(step, c, j, r) \in Nat
    BY CountType
  <1>2. Here(step, pc[p], job[p], r) <=> pc[p] = step /\ Row(p) = r
    BY DEF Here, Row
  <1>3. Here(step, s, job[p], r) <=> s = step /\ Row(p) = r
    BY DEF Here, Row
  <1>4. Count(step, pc', job', r) + Bit(Here(step, pc[p], job[p], r))
          = Count(step, pc, job, r) + Bit(Here(step, s, job[p], r))
    BY CountGoto
  <1> QED BY <1>1, <1>2, <1>3, <1>4 DEF Bit, Adds, Tallied

LEMMA CountedRow ==
  ASSUME TypeInv, NEW p \in Ingests, NEW r, NEW step \in {"flag:create", "notify"}, AfterFlag(p)
  PROVE  Tallied(pc, job, pc', job', p, Row(p), "replay", r, step)
  <1>1. \A c, j : Count(step, c, j, r) \in Nat
    BY CountType
  <1>2. Here(step, pc[p], job[p], r) <=> pc[p] = step /\ Row(p) = r
    BY DEF Here, Row
  <1>3. PICK l : Goto(p, "replay", l)
    BY DEF AfterFlag, NextRow
  <1>4. ~ Here(step, "replay", l, r) /\ "replay" # step
    BY DEF Here
  <1>5. Count(step, pc', job', r) + Bit(Here(step, pc[p], job[p], r))
          = Count(step, pc, job, r) + Bit(Here(step, "replay", l, r))
    BY <1>3, CountGoto
  <1> QED BY <1>1, <1>2, <1>4, <1>5 DEF Bit, Adds, Tallied

LEMMA FlagSteps ==
  ASSUME TypeInv, FlagInv, NEW p \in Ingests, FindFlag(p) \/ CreateFlag(p) \/ Notify(p)
  PROVE  FlagInv'
  <1> SUFFICES ASSUME NEW r \in Rows
               PROVE  /\ notices'[r] + Count("notify", pc', job', r) <= flags'[r]
                      /\ r \notin contended' => flags'[r] + Count("flag:create", pc', job', r) <= 1
    BY DEF FlagInv
  <1> DEFINE N == Count("notify", pc, job, r)
             C == Count("flag:create", pc, job, r)
             N2 == Count("notify", pc', job', r)
             C2 == Count("flag:create", pc', job', r)
             x == Row(p)
             Tally(s) ==
               /\ N \in Nat /\ N2 \in Nat /\ C \in Nat /\ C2 \in Nat
               /\ N2 + Adds(pc[p], x, "notify", r) = N + Adds(s, x, "notify", r)
               /\ C2 + Adds(pc[p], x, "flag:create", r) = C + Adds(s, x, "flag:create", r)
  <1>1. flags[r] \in Nat /\ notices[r] \in Nat
    BY DEF TypeInv, TypeOK
  <1>2. /\ notices[r] + N <= flags[r]
        /\ r \notin contended => flags[r] + C <= 1
    BY DEF FlagInv
  <1>3. ASSUME NEW s, Goto(p, s, job[p]) PROVE Tally(s)
    <2>1. Tallied(pc, job, pc', job', p, Row(p), s, r, "notify")
      BY <1>3, CountedStep
    <2>2. Tallied(pc, job, pc', job', p, Row(p), s, r, "flag:create")
      BY <1>3, CountedStep
    <2> QED BY <2>1, <2>2 DEF Tallied
  <1>7. ASSUME AfterFlag(p) PROVE Tally("replay")
    <2>1. Tallied(pc, job, pc', job', p, Row(p), "replay", r, "notify")
      BY <1>7, CountedRow
    <2>2. Tallied(pc, job, pc', job', p, Row(p), "replay", r, "flag:create")
      BY <1>7, CountedRow
    <2> QED BY <2>1, <2>2 DEF Tallied
  <1>4. CASE FindFlag(p)
    <2>1. /\ pc[p] = "flag:find" /\ flags' = flags /\ notices' = notices
          /\ contended' = contended \cup
               {Row(q) : q \in {q \in Ingests : pc[q] = "flag:create" /\ Row(q) = x}}
      BY <1>4 DEF FindFlag, tables
    <2>2. CASE flags[x] > 0
      <3>1. AfterFlag(p)
        BY <1>4, <2>2 DEF FindFlag
      <3>2. N2 = N /\ C2 = C /\ N \in Nat /\ C \in Nat
        <4>1. Tally("replay")
          <5> HIDE DEF Tally
          <5> QED BY <1>7, <3>1
        <4> QED BY <2>1, <4>1 DEF Bit, Adds
      <3> QED BY <1>1, <1>2, <2>1, <3>2
    <2>3. CASE ~ (flags[x] > 0)
      <3>1. Goto(p, "flag:create", job[p])
        BY <1>4, <2>3 DEF FindFlag
      <3>2. N2 = N /\ C2 = C + Bit(x = r) /\ N \in Nat /\ C \in Nat
        <4>1. Tally("flag:create")
          <5> HIDE DEF Tally
          <5> QED BY <1>3, <3>1
        <4> QED BY <2>1, <4>1 DEF Bit, Adds
      <3>3. CASE x # r
        BY <1>1, <1>2, <2>1, <3>2, <3>3 DEF Bit
      <3>4. CASE x = r /\ r \notin contended'
        <4>1. {q \in Ingests : Here("flag:create", pc[q], job[q], r)} = {}
          BY <2>1, <3>4 DEF Here, Row
        <4>2. C = 0
          BY <4>1, FS_EmptySet DEF Count
        <4>3. flags[r] = 0
          BY <1>1, <2>3, <3>4
        <4> QED BY <1>1, <1>2, <2>1, <3>2, <3>4, <4>2, <4>3 DEF Bit
      <3> QED BY <1>1, <1>2, <2>1, <3>2, <3>3, <3>4
    <2> QED BY <2>2, <2>3
  <1>5. CASE CreateFlag(p)
    <2>1. /\ pc[p] = "flag:create" /\ Goto(p, "notify", job[p])
          /\ flags' = [flags EXCEPT ![x] = @ + 1]
          /\ notices' = notices /\ contended' = contended
      BY <1>5 DEF CreateFlag, history
    <2>2. flags'[r] = flags[r] + Bit(x = r)
      <3>1. flags \in [Rows -> Nat]
        BY DEF TypeInv, TypeOK
      <3> QED BY <1>1, <2>1, <3>1 DEF Bit
    <2>3. N2 = N + Bit(x = r) /\ C2 + Bit(x = r) = C /\ N \in Nat /\ C \in Nat /\ C2 \in Nat
      <3>1. Tally("notify")
        <4> HIDE DEF Tally
        <4> QED BY <1>3, <2>1
      <3> QED BY <2>1, <3>1 DEF Bit, Adds
    <2>4. Bit(x = r) \in {0, 1}
      BY DEF Bit
    <2> HIDE DEF N, C, N2, C2, x
    <2>5. notices'[r] + N2 <= flags'[r]
      BY <1>1, <1>2, <2>1, <2>2, <2>3, <2>4
    <2>6. r \notin contended' => flags'[r] + C2 <= 1
      BY <1>1, <1>2, <2>1, <2>2, <2>3, <2>4
    <2> QED BY <2>5, <2>6 DEF N2, C2
  <1>6. CASE Notify(p)
    <2>1. /\ pc[p] = "notify" /\ AfterFlag(p)
          /\ notices' = [notices EXCEPT ![x] = @ + 1]
          /\ flags' = flags /\ contended' = contended
      BY <1>6 DEF Notify, history
    <2>2. notices'[r] = notices[r] + Bit(x = r)
      <3>1. notices \in [Rows -> Nat]
        BY DEF TypeInv, TypeOK
      <3> QED BY <1>1, <2>1, <3>1 DEF Bit
    <2>3. N2 + Bit(x = r) = N /\ C2 = C /\ N \in Nat /\ C \in Nat /\ N2 \in Nat
      BY <1>7, <2>1 DEF Bit, Adds
    <2>4. Bit(x = r) \in {0, 1}
      BY DEF Bit
    <2> HIDE DEF N, C, N2, C2, x
    <2>5. notices'[r] + N2 <= flags'[r]
      BY <1>1, <1>2, <2>1, <2>2, <2>3, <2>4
    <2>6. r \notin contended' => flags'[r] + C2 <= 1
      BY <1>1, <1>2, <2>1, <2>2, <2>3, <2>4
    <2> QED BY <2>5, <2>6 DEF N2, C2
  <1> QED BY <1>4, <1>5, <1>6

LEMMA FlagStep == ASSUME TypeInv, FlagInv, [Next]_vars PROVE FlagInv'
  <1>1. ASSUME NEW p \in Ingests, Ingest(p) \/ Detect(p) \/ Abort(p) \/ EndReplay(p) \/ ReadHistory(p)
        PROVE  FlagInv'
    <2>1. /\ flags' = flags /\ notices' = notices /\ contended' = contended
          /\ \E s \in Steps \ {"flag:create", "notify"} : \E j : Goto(p, s, j)
      BY <1>1 DEF Ingest, BeginIngest, InsertRow, SkipRow, BeginSearch, NothingInserted,
                  Detect, ReadOutgoing, ReadIncoming, MarkPair, NoCandidate, EndSearch,
                  Abort, EndReplay, ReadHistory, Finish, tables, history, Steps
    <2> QED BY <2>1, QuietFlags
  <1>2. ASSUME NEW p \in Ingests, ReplayRow(p) PROVE FlagInv'
    <2>1. /\ flags' = flags /\ notices' = notices /\ contended' = contended
          /\ \E s \in {"flag:find", "replay"} : \E j : Goto(p, s, j)
      BY <1>2 DEF ReplayRow, NextRow, tables, history
    <2> QED BY <2>1, QuietFlags
  <1>3. ASSUME UNCHANGED <<flags, notices, contended, pc, job>> PROVE FlagInv'
    BY <1>3 DEF FlagInv, Count
  <1>4. CASE \E s \in Sources : RemoveSource(s)
    BY <1>3, <1>4 DEF RemoveSource, history
  <1>5. CASE UNCHANGED vars
    BY <1>3, <1>5 DEF vars, tables, history
  <1>6. ASSUME NEW p \in Ingests, Reconcile(p) PROVE FlagInv'
    BY <1>1, <1>2, <1>6, FlagSteps DEF Reconcile
  <1> QED BY <1>1, <1>4, <1>5, <1>6 DEF Next

LEMMA FlagInit == ASSUME Init PROVE FlagInv
  <1>1. ASSUME NEW step \in {"flag:create", "notify"}, NEW r PROVE Count(step, pc, job, r) = 0
    <2>1. {q \in Ingests : Here(step, pc[q], job[q], r)} = {}
      BY <1>1 DEF Init, Here
    <2> QED BY <2>1, FS_EmptySet DEF Count
  <1> QED BY <1>1 DEF Init, FlagInv

----------------------------------------------------------------------------
LEMMA BalanceSound == ASSUME TypeInv, BalanceInv PROVE BalanceExact /\ NegativesFlagged
  <1> SUFFICES ASSUME NEW p \in Ingests, pc[p] = "replay"
               PROVE  /\ \A a \in Assets : job[p].balance[a] = BalanceAfter(book, job[p].rows, a, job[p].at - 1)
                      /\ \A n \in 1..(job[p].at - 1) :
                           FallsShort(book, job[p].rows, n) => flags[job[p].rows[n]] > 0
    BY DEF BalanceExact, NegativesFlagged
  <1>1. ReplayAt(book, flags, pc[p], job[p])
    BY DEF BalanceInv, Replaying
  <1>2. job[p] \in Job /\ book \in Entries
    BY BookType, Busy DEF TypeInv, TypeOK
  <1>3. job[p].rows \in Seq(Rows) /\ job[p].at \in Nat \ {0} /\ job[p].at <= Len(job[p].rows) + 1
    BY <1>1, <1>2 DEF Job, ReplayAt
  <1>4. job[p].at - 1 \in 0..Len(job[p].rows)
    BY <1>3
  <1>5. ASSUME NEW a \in Assets
        PROVE  job[p].balance[a] = BalanceAfter(book, job[p].rows, a, job[p].at - 1)
    <2>1. Largest(Stretches(book, job[p].rows, a, job[p].at - 1), job[p].balance[a])
      BY <1>1 DEF ReplayAt, BalanceAt
    <2> QED BY <1>2, <1>3, <1>4, <2>1, BalanceIs
  <1> QED BY <1>1, <1>5 DEF ReplayAt

LEMMA FlagSound == ASSUME TypeInv, FlagInv PROVE FlaggedOnce
  <1> SUFFICES ASSUME NEW r \in Rows
               PROVE  notices[r] <= flags[r] /\ (r \notin contended => flags[r] <= 1)
    BY DEF FlaggedOnce
  <1>1. flags[r] \in Nat /\ notices[r] \in Nat
    BY DEF TypeInv, TypeOK
  <1>2. Count("notify", pc, job, r) \in Nat /\ Count("flag:create", pc, job, r) \in Nat
    BY CountType
  <1>3. /\ notices[r] + Count("notify", pc, job, r) <= flags[r]
        /\ r \notin contended => flags[r] + Count("flag:create", pc, job, r) <= 1
    BY DEF FlagInv
  <1> QED BY <1>1, <1>2, <1>3

\* reconcile's running balance is the largest sum of movements that end now,
\* every row that disposes of more than there was is flagged, and only
\* reconciliations that overlap flag a row twice, in every history.
THEOREM ReplaysAreExact == Spec => []ReplayExact
  <1>1. Init => TypeInv /\ BalanceInv /\ FlagInv
    BY TypeInit, BalanceInit, FlagInit
  <1>2. TypeInv /\ BalanceInv /\ FlagInv /\ [Next]_vars => (TypeInv /\ BalanceInv /\ FlagInv)'
    BY TypeStep, BalanceStep, FlagStep
  <1>3. TypeInv /\ BalanceInv /\ FlagInv => ReplayExact
    BY BalanceSound, FlagSound DEF ReplayExact
  <1> QED BY <1>1, <1>2, <1>3, PTL DEF Spec
=============================================================================
