------------------------- MODULE SourceIndexProofs -------------------------
(***************************************************************************)
(* Graphs declared complete are those of the files now indexed, passages   *)
(* are stored once, and runs do not wait for each other in a circle, for   *)
(* any runs, walk and texts.  GraphsAreOfFiles is not inductive: that a    *)
(* version is stored only over cleared graphs follows from where in its    *)
(* attempt a run stands (RunInv).  So does what is stored of its files     *)
(* (RowsKnown); and two runs have never inserted the same passage          *)
(* (LocksApart), because an insert waits.                                  *)
(* While any run indexes, one of them can take its next step.              *)
(***************************************************************************)
EXTENDS SourceIndex, DataLemmas

IdsOf(s) == {row.id : row \in {row \in s.files : row.status = "indexed"}}

Rewriting == {"walking", "storing", "graphing"}

\* One run's task j and rows s.
RunInv(j, s) ==
  /\ DOMAIN j = DOMAIN Idle /\ DOMAIN s = DOMAIN Empty
  /\ s.indexed \in BOOLEAN /\ s.version \in BOOLEAN
  /\ s.version => s.indexed /\ s.graphs = IdsOf(s)
  /\ s.indexed => j.pc \in {"stopped", "ensuring", "indexed"} /\ s.graphs \subseteq IdsOf(s)
  /\ j.pc = "ensuring" => s.indexed
  /\ j.pc = "clearing_files" => s.graphs = {}
  /\ j.pc \in Rewriting => s.graphs \subseteq IdsOf(s)
  /\ j.pc \in {"storing", "graphing"} => j.id \in IdsOf(s)

GraphInv ==
  /\ DOMAIN job = Runs /\ DOMAIN store = Runs
  /\ \A r \in Runs : RunInv(job[r], store[r])

LEMMA IdsAreOfRows == ASSUME NEW r PROVE Ids(r) = IdsOf(store[r])
BY DEF Ids, Rows, IdsOf

\* Rows are added with a new id; those that are there stay.
LEMMA AddRow ==
  ASSUME NEW files, NEW row, NEW s, NEW t, s.files = files, t.files = files \cup {row}
  PROVE  /\ IdsOf(s) \subseteq IdsOf(t)
         /\ row.status = "indexed" => row.id \in IdsOf(t)
BY DEF IdsOf

LEMMA InitialGraphs == Init => GraphInv
<1> SUFFICES ASSUME Init PROVE GraphInv
  OBVIOUS
<1>1. ASSUME NEW r \in Runs PROVE RunInv(job[r], store[r])
  <2>1. job[r] = Idle
    BY DEF Init
  <2>2. PICK text : store[r] \in {Empty, Old(text)}
    BY DEF Init
  <2>3. CASE store[r] = Empty
    BY <2>1, <2>3 DEF RunInv, Idle, Empty, Rewriting
  <2>4. CASE store[r] = Old(text)
    BY <2>1, <2>4 DEF RunInv, Idle, Empty, Old, Rewriting
  <2> QED BY <2>2, <2>3, <2>4
<1> QED BY <1>1 DEF Init, GraphInv

\* What an action does to its own run, whose task was j and rows s.
LEMMA OwnStep ==
  ASSUME GraphInv, NEW r \in Runs, NEW j, NEW s,
         job' = [job EXCEPT ![r] = j] \/ (job' = job /\ j = job[r]),
         store' = [store EXCEPT ![r] = s] \/ (store' = store /\ s = store[r]),
         RunInv(j, s)
  PROVE  GraphInv'
BY DEF GraphInv

LEMMA ProgressKeepsGraphs ==
  ASSUME GraphInv, NEW r \in Runs, Progress(r)
  PROVE  GraphInv'
<1> DEFINE j == job[r]
           s == store[r]
<1>0. RunInv(j, s) /\ Ids(r) = IdsOf(s)
  BY IdsAreOfRows DEF GraphInv
<1> USE DEF RunInv, Rewriting, Idle, Empty
<1>1. CASE ClearChunks(r)
  <2>1. RunInv([j EXCEPT !.pc = "clearing_graphs"], [s EXCEPT !.chunks = <<>>])
    BY <1>0, <1>1 DEF ClearChunks, Step, IdsOf
  <2> QED BY <1>1, <2>1, OwnStep DEF ClearChunks, Step
<1>2. CASE ClearGraphs(r)
  <2>1. RunInv([j EXCEPT !.pc = "clearing_files"], GraphsCleared(s))
    BY <1>0, <1>2 DEF ClearGraphs, Step, GraphsCleared
  <2> QED BY <1>2, <2>1, OwnStep DEF ClearGraphs, Step
<1>3. CASE ClearFiles(r)
  <2>1. RunInv([Idle EXCEPT !.pc = "walking", !.id = job[r].id], [s EXCEPT !.files = {}])
    BY <1>0, <1>3 DEF ClearFiles
  <2> QED BY <1>3, <2>1, OwnStep DEF ClearFiles
<1>4. CASE Filter(r) \/ SnapshotFails(r) \/ WorkerFails(r)
  <2>1. PICK status \in {"excluded", "unreadable", "unparsed"} :
          Walking(r) /\ PassOver(r, status)
    BY <1>4 DEF Filter, SnapshotFails, WorkerFails
  <2> DEFINE row == [id |-> j.id + 1, status |-> status, text |-> <<>>]
             t == [s EXCEPT !.files = @ \cup {row}]
  <2>2. IdsOf(s) \subseteq IdsOf(t)
    <3>1. t.files = s.files \cup {row}
      BY <1>0
    <3> HIDE DEF row, t
    <3> QED BY <3>1, AddRow
  <2>3. RunInv([j EXCEPT !.at = @ + 1, !.id = @ + 1], t)
    <3> HIDE DEF row
    <3> QED BY <1>0, <2>1, <2>2 DEF Walking
  <2>4. /\ job' = [job EXCEPT ![r] = [j EXCEPT !.at = @ + 1, !.id = @ + 1]]
        /\ store' = [store EXCEPT ![r] = t]
    BY <2>1 DEF PassOver, GraphInv
  <2> QED BY <2>3, <2>4, OwnStep
<1>5. CASE TakeFile(r)
  <2>1. PICK text :
          /\ job' = [job EXCEPT ![r].pc = "storing", ![r].id = @ + 1, ![r].text = text,
                                ![r].tx = Begun, ![r].retries = 0]
          /\ store' = [store EXCEPT ![r].files =
                         @ \cup {[id |-> job[r].id + 1, status |-> "indexed", text |-> text]}]
    BY <1>5 DEF TakeFile
  <2> DEFINE row == [id |-> j.id + 1, status |-> "indexed", text |-> text]
             t == [s EXCEPT !.files = @ \cup {row}]
             k == [j EXCEPT !.pc = "storing", !.id = @ + 1, !.text = text, !.tx = Begun,
                            !.retries = 0]
  <2>2. IdsOf(s) \subseteq IdsOf(t) /\ j.id + 1 \in IdsOf(t)
    <3>1. t.files = s.files \cup {row} /\ row.status = "indexed" /\ row.id = j.id + 1
      BY <1>0
    <3> HIDE DEF row, t
    <3> QED BY <3>1, AddRow
  <2>3. RunInv(k, t)
    <3> HIDE DEF row
    <3> QED BY <1>0, <1>5, <2>2 DEF TakeFile, Walking
  <2>4. job' = [job EXCEPT ![r] = k] /\ store' = [store EXCEPT ![r] = t]
    BY <2>1 DEF GraphInv
  <2> QED BY <2>3, <2>4, OwnStep
<1>6. CASE InsertBlob(r) \/ InsertChunk(r)
  <2>1. PICK k : k = job'[r]
    OBVIOUS
  <2>2. job' = [job EXCEPT ![r] = k] /\ DOMAIN k = DOMAIN j /\ k.pc = j.pc /\ k.id = j.id
    <3>1. CASE InsertBlob(r)
      BY <1>0, <2>1, <3>1 DEF InsertBlob, GraphInv
    <3>2. CASE InsertChunk(r)
      BY <1>0, <2>1, <3>2 DEF InsertChunk, GraphInv
    <3> QED BY <1>6, <3>1, <3>2
  <2>3. RunInv(k, s)
    BY <1>0, <2>2
  <2> QED BY <1>6, <2>2, <2>3, OwnStep DEF InsertBlob, InsertChunk
<1>7. CASE Commit(r)
  <2>1. RunInv([j EXCEPT !.pc = "graphing", !.tx = Begun],
               [s EXCEPT !.chunks = @ \o job[r].tx.rows])
    BY <1>0, <1>7 DEF Commit, Written, IdsOf
  <2> QED BY <1>7, <2>1, OwnStep DEF Commit, Stored, GraphInv
<1>8. CASE SaveGraph(r)
  <2>1. RunInv([j EXCEPT !.pc = "walking", !.at = @ + 1, !.text = <<>>],
               [s EXCEPT !.graphs = @ \cup {job[r].id}])
    BY <1>0, <1>8 DEF SaveGraph, IdsOf
  <2> QED BY <1>8, <2>1, OwnStep DEF SaveGraph, GraphInv
<1>9. CASE CloseIndex(r)
  <2>1. CASE IdsOf(s) = {}
    <3>1. RunInv([j EXCEPT !.pc = "stopped"], [s EXCEPT !.indexed = FALSE])
      BY <1>0, <1>9 DEF CloseIndex, IdsOf
    <3>2. /\ job' = [job EXCEPT ![r] = [j EXCEPT !.pc = "stopped"]]
          /\ store' = [store EXCEPT ![r] = [s EXCEPT !.indexed = FALSE]]
      BY <1>0, <1>9, <2>1 DEF CloseIndex, GraphInv
    <3> QED BY <3>1, <3>2, OwnStep
  <2>2. CASE IdsOf(s) # {}
    <3>1. RunInv([j EXCEPT !.pc = "ensuring"], [s EXCEPT !.indexed = TRUE])
      BY <1>0, <1>9 DEF CloseIndex, IdsOf
    <3>2. /\ job' = [job EXCEPT ![r] = [j EXCEPT !.pc = "ensuring"]]
          /\ store' = [store EXCEPT ![r] = [s EXCEPT !.indexed = TRUE]]
      BY <1>0, <1>9, <2>2 DEF CloseIndex, GraphInv
    <3> QED BY <3>1, <3>2, OwnStep
  <2> QED BY <2>1, <2>2
<1>10. CASE EnsureGraph(r)
  <2>1. PICK id \in IdsOf(s) : store' = [store EXCEPT ![r] = [s EXCEPT !.graphs = @ \cup {id}]]
    BY <1>0, <1>10 DEF EnsureGraph, GraphInv
  <2>2. RunInv(j, [s EXCEPT !.graphs = @ \cup {id}])
    BY <1>0, <1>10, <2>1 DEF EnsureGraph, IdsOf
  <2> QED BY <1>10, <2>1, <2>2, OwnStep DEF EnsureGraph
<1>11. CASE Ensured(r)
  <2>1. RunInv([j EXCEPT !.pc = "indexed"], [s EXCEPT !.version = TRUE])
    BY <1>0, <1>11 DEF Ensured, Step, IdsOf
  <2> QED BY <1>11, <2>1, OwnStep DEF Ensured, Step
<1> QED BY <1>1, <1>2, <1>3, <1>4, <1>5, <1>6, <1>7, <1>8, <1>9, <1>10, <1>11 DEF Progress

LEMMA GraphStep == GraphInv /\ [Next]_vars => GraphInv'
<1> SUFFICES ASSUME GraphInv, [Next]_vars PROVE GraphInv'
  OBVIOUS
<1>1. CASE UNCHANGED vars
  BY <1>1 DEF vars, GraphInv
<1>2. CASE CollectBlobs
  BY <1>2 DEF CollectBlobs, GraphInv
<1>3. ASSUME NEW r \in Runs, \/ Start(r) \/ Conflict(r) \/ CommitLost(r) \/ Stop(r)
                             \/ DeleteRun(r)
      PROVE  GraphInv'
  <2> DEFINE j == job[r]
             s == store[r]
  <2>0. RunInv(j, s)
    BY DEF GraphInv
  <2> USE DEF RunInv, Rewriting, Idle, Empty
  <2>1. CASE Start(r)
    <3>1. RunInv([j EXCEPT !.pc = IF s.indexed THEN "ensuring" ELSE "clearing_chunks"], s)
      BY <2>0, <2>1 DEF Start, Step
    <3> QED BY <2>1, <3>1, OwnStep DEF Start, Step
  <2>2. CASE Conflict(r)
    <3>1. PICK k : k = Conflicted(j)
      OBVIOUS
    <3>2. /\ DOMAIN k = DOMAIN Idle /\ k.pc \in {j.pc, "stopped"} /\ k.id = j.id
      BY <2>0, <3>1 DEF Conflicted
    <3>3. RunInv(k, s)
      BY <2>0, <2>2, <3>2 DEF Conflict, Locking, Writing
    <3> QED BY <2>2, <3>1, <3>3, OwnStep DEF Conflict, GraphInv
  <2>3. CASE CommitLost(r)
    <3>1. RunInv([j EXCEPT !.pc = "stopped", !.tx = Begun],
                 [s EXCEPT !.chunks = @ \o job[r].tx.rows])
      BY <2>0, <2>3 DEF CommitLost, Written, IdsOf
    <3> QED BY <2>3, <3>1, OwnStep DEF CommitLost, Stored, GraphInv
  <2>4. CASE Stop(r)
    <3>1. RunInv([j EXCEPT !.pc = "stopped", !.tx = Begun], s)
      BY <2>0
    <3> QED BY <2>4, <3>1, OwnStep DEF Stop, GraphInv
  <2>5. CASE DeleteRun(r)
    <3>1. RunInv([Idle EXCEPT !.id = job[r].id], Empty)
      OBVIOUS
    <3> QED BY <2>5, <3>1, OwnStep DEF DeleteRun
  <2> QED BY <1>3, <2>1, <2>2, <2>3, <2>4, <2>5
<1> QED BY <1>1, <1>2, <1>3, ProgressKeepsGraphs DEF Next

\* graph.rs: no graph of an earlier attempt or of a deleted run is taken for one
\* of the files now indexed.
THEOREM GraphsAreCurrent == Spec => []GraphsAreOfFiles
<1>1. GraphInv => GraphsAreOfFiles
  BY IdsAreOfRows DEF GraphInv, RunInv, GraphsAreOfFiles
<1> QED BY <1>1, InitialGraphs, GraphStep, PTL DEF Spec

-----------------------------------------------------------------------------
(* The order of the inserts. *)

\* ordered_by_hash keeps every passage and puts the smaller hashes first.
LEMMA OrderedIs ==
  ASSUME NEW text \in Seq(Nat)
  PROVE  /\ Ordered(text) \in Seq(Nat) /\ Len(Ordered(text)) = Len(text)
         /\ Range(Ordered(text)) = Range(text)
         /\ \A i, j \in 1 .. Len(text) : i < j => Ordered(text)[i] <= Ordered(text)[j]
<1> DEFINE S == DOMAIN text
           n == Len(text)
           R == {p \in S \X S : text[p[1]] < text[p[2]] \/ (text[p[1]] = text[p[2]] /\ p[1] < p[2])}
           rank == [k \in S |-> Cardinality({j \in S : j = k \/ <<j, k>> \in R})]
           f == Ordered(text)
<1>1. n \in Nat /\ S = 1 .. n /\ IsFiniteSet(S) /\ Cardinality(S) = n
  <2>1. n \in Nat /\ S = 1 .. n
    BY LenProperties
  <2> HIDE DEF n, S
  <2> QED BY <2>1, FS_Interval
<1>2. \A k \in S : k \in Int /\ text[k] \in Nat /\ text[k] \in Int
  BY ElementOfSeq, LenProperties
<1>3. \A j, k \in S : <<j, k>> \in R <=> text[j] < text[k] \/ (text[j] = text[k] /\ j < k)
  OBVIOUS
<1>4. rank = [k \in S |-> Cardinality({j \in S : j = k \/ <<j, k>> \in R})]
  OBVIOUS
<1>5. \A k \in S : rank[k] = Place(text, k)
  <2> SUFFICES ASSUME NEW k \in S
               PROVE  {j \in S : j = k \/ <<j, k>> \in R} =
                      {j \in S : text[j] < text[k] \/ (text[j] = text[k] /\ j <= k)}
    BY DEF Place
  <2> HIDE DEF S, R
  <2>1. \A j \in S : (j = k \/ <<j, k>> \in R) <=> (text[j] < text[k] \/ (text[j] = text[k] /\ j <= k))
    BY <1>2, <1>3
  <2> QED BY <2>1
<1> HIDE DEF S, R, rank
<1>6. IsRanking(rank, S, R)
  <2>1. \A k \in S : <<k, k>> \notin R
    BY <1>2, <1>3
  <2>2. \A i, j, k \in S : <<i, j>> \in R /\ <<j, k>> \in R => <<i, k>> \in R
    <3> SUFFICES ASSUME NEW i \in S, NEW j \in S, NEW k \in S,
                        <<i, j>> \in R, <<j, k>> \in R
                 PROVE  <<i, k>> \in R
      OBVIOUS
    <3>1. /\ text[i] < text[j] \/ (text[i] = text[j] /\ i < j)
          /\ text[j] < text[k] \/ (text[j] = text[k] /\ j < k)
      BY <1>3
    <3>2. /\ i \in Int /\ j \in Int /\ k \in Int
          /\ text[i] \in Int /\ text[j] \in Int /\ text[k] \in Int
      BY <1>2
    <3>3. text[i] < text[k] \/ (text[i] = text[k] /\ i < k)
      BY <3>1, <3>2
    <3> QED BY <1>3, <3>3
  <2>3. \A j, k \in S : j = k \/ <<j, k>> \in R \/ <<k, j>> \in R
    <3> SUFFICES ASSUME NEW j \in S, NEW k \in S
                 PROVE  j = k \/ <<j, k>> \in R \/ <<k, j>> \in R
      OBVIOUS
    <3>1. /\ text[j] < text[k] \/ text[j] = text[k] \/ text[k] < text[j]
          /\ j < k \/ j = k \/ k < j
      BY <1>2
    <3> QED BY <1>3, <3>1
  <2> QED BY <1>1, <1>4, <2>1, <2>2, <2>3, Ranked, Zenon
<1>7. /\ rank \in [S -> 1 .. n]
      /\ \A i \in 1 .. n : \E k \in S : rank[k] = i
      /\ \A j, k \in S : <<j, k>> \in R <=> rank[j] < rank[k]
  BY <1>1, <1>6 DEF IsRanking
<1> DEFINE at(i) == CHOOSE k \in S : Place(text, k) = i
<1>8. ASSUME NEW i \in 1 .. n PROVE at(i) \in S /\ rank[at(i)] = i /\ f[i] = text[at(i)]
  <2>1. PICK k \in S : Place(text, k) = i
    BY <1>5, <1>7
  <2>2. at(i) \in S /\ Place(text, at(i)) = i
    BY <2>1
  <2>3. f[i] = text[at(i)]
    BY <1>1 DEF Ordered, S
  <2> HIDE DEF at
  <2> QED BY <1>5, <2>2, <2>3
<1>9. f \in [1 .. n -> Nat]
  <2>1. f = [i \in 1 .. n |-> text[at(i)]]
    BY <1>1 DEF Ordered, S
  <2> HIDE DEF at, f
  <2> QED BY <1>2, <1>8, <2>1
<1> HIDE DEF f, at
<1>10. f \in Seq(Nat) /\ Len(f) = n /\ DOMAIN f = 1 .. n
  BY <1>1, <1>9, SeqDef, LenProperties
<1>11. Range(f) = Range(text)
  <2>1. Range(f) \subseteq Range(text)
    BY <1>8, <1>10 DEF Range, S
  <2>2. ASSUME NEW k \in S PROVE text[k] \in Range(f)
    <3>1. rank[k] \in 1 .. n
      BY <1>7
    <3>2. at(rank[k]) \in S /\ rank[at(rank[k])] = rank[k] /\ f[rank[k]] = text[at(rank[k])]
      BY <1>8, <3>1
    <3>3. ~(rank[k] < rank[k])
      BY <3>1
    <3>4. <<k, at(rank[k])>> \notin R /\ <<at(rank[k]), k>> \notin R
      BY <1>7, <3>2, <3>3
    <3>5. text[at(rank[k])] = text[k]
      BY <1>2, <1>3, <3>2, <3>4
    <3> QED BY <1>10, <3>1, <3>2, <3>5 DEF Range
  <2> QED BY <2>1, <2>2 DEF Range, S
<1>12. ASSUME NEW i \in 1 .. n, NEW j \in 1 .. n, i < j PROVE f[i] <= f[j]
  <2>1. <<at(i), at(j)>> \in R /\ at(i) \in S /\ at(j) \in S
    BY <1>7, <1>8, <1>12
  <2>2. text[at(i)] < text[at(j)] \/ text[at(i)] = text[at(j)]
    BY <1>3, <2>1
  <2> QED BY <1>2, <1>8, <2>1, <2>2
<1> QED BY <1>10, <1>11, <1>12 DEF f

-----------------------------------------------------------------------------
(* What is stored of a run's files. *)

\* The open transaction of the file being stored: its passages in the order of
\* their hashes up to here, then its rows up to here.
TxKnown(j) ==
  /\ j.text \in Seq(Nat) /\ DOMAIN j.tx = DOMAIN Begun
  /\ j.tx.locked \in Seq(Nat) /\ Len(j.tx.locked) <= Len(j.text)
  /\ \A i \in 1 .. Len(j.tx.locked) : j.tx.locked[i] = Ordered(j.text)[i]
  /\ j.tx.next \in 1 .. Len(j.text) + 1
  /\ j.tx.rows = [i \in 1 .. j.tx.next - 1 |-> <<j.id, i>>]

JobKnown(j) ==
  /\ j.at \in Nat /\ j.id \in Nat
  /\ IF j.pc = "storing" THEN TxKnown(j) ELSE j.tx = Begun

\* Rows have ids of their own, and a new one is above them.
FilesKnown(j, s) ==
  /\ \A row \in s.files : row.id \in Nat /\ row.text \in Seq(Nat)
  /\ \A a, b \in s.files : a.id = b.id => a = b
  /\ ~s.indexed => \A row \in s.files : row.id <= j.id
  /\ j.pc = "storing" => [id |-> j.id, status |-> "indexed", text |-> j.text] \in s.files

\* Files whose passages are stored: all but the one being stored.
Done(j, s) ==
  {row \in s.files : row.status = "indexed" /\ ~(j.pc = "storing" /\ row.id = j.id)}

Cells(rows) == UNION {{row.id} \X DOMAIN row.text : row \in rows}

ChunksKnown(j, s, b) ==
  /\ j.pc \in {"clearing_graphs", "clearing_files"} => s.chunks = <<>>
  /\ s.indexed \/ j.pc \in Rewriting =>
       /\ s.chunks \in Seq(Nat \X Nat) /\ IsInjective(s.chunks)
       /\ Range(s.chunks) = Cells(Done(j, s))
       /\ \A row \in Done(j, s) : Range(row.text) \subseteq b

RowsKnown(j, s, b) == JobKnown(j) /\ FilesKnown(j, s) /\ ChunksKnown(j, s, b)

\* No passage is inserted by two open transactions.
LocksApart == \A r, q \in Runs : r # q => Fresh(r) \cap Fresh(q) = {}

IndexInv ==
  /\ GraphInv /\ LocksApart
  /\ \A r \in Runs : RowsKnown(job[r], store[r], blobs)

LEMMA EmptyRange == Range(<<>>) = {} /\ IsInjective(<<>>) /\ \A S : <<>> \in Seq(S)
BY EmptySeq DEF Range, IsInjective

LEMMA BegunKnown ==
  ASSUME NEW j, j.text \in Seq(Nat), j.tx = Begun
  PROVE  TxKnown(j)
<1>1. Len(j.text) \in Nat /\ <<>> \in Seq(Nat) /\ Len(<<>>) = 0
  BY LenProperties, EmptySeq
<1>2. <<>> = [i \in 1 .. 1 - 1 |-> <<j.id, i>>]
  OBVIOUS
<1> QED BY <1>1, <1>2 DEF TxKnown, Begun

\* What an action does to its own run, whose task was j and rows s.
LEMMA OwnRows ==
  ASSUME IndexInv, NEW r \in Runs, NEW j, NEW s,
         job' = [job EXCEPT ![r] = j] \/ (job' = job /\ j = job[r]),
         store' = [store EXCEPT ![r] = s] \/ (store' = store /\ s = store[r]),
         blobs \subseteq blobs', RowsKnown(j, s, blobs')
  PROVE  \A q \in Runs : RowsKnown(job'[q], store'[q], blobs')
<1> SUFFICES ASSUME NEW q \in Runs PROVE RowsKnown(job'[q], store'[q], blobs')
  OBVIOUS
<1>1. DOMAIN job = Runs /\ DOMAIN store = Runs
  BY DEF IndexInv, GraphInv
<1>2. CASE q = r
  BY <1>1, <1>2
<1>3. CASE q # r
  <2>1. job'[q] = job[q] /\ store'[q] = store[q]
    BY <1>1, <1>3
  <2>2. RowsKnown(job[q], store[q], blobs)
    BY DEF IndexInv
  <2> QED BY <2>1, <2>2 DEF RowsKnown, ChunksKnown
<1> QED BY <1>2, <1>3

LEMMA OwnState ==
  ASSUME IndexInv, NEW r \in Runs
  PROVE  /\ RunInv(job[r], store[r]) /\ RowsKnown(job[r], store[r], blobs)
         /\ DOMAIN job = Runs /\ DOMAIN store = Runs
         /\ DOMAIN job[r] = DOMAIN Idle /\ DOMAIN store[r] = DOMAIN Empty
BY DEF IndexInv, GraphInv, RunInv

\* Outside of a file's transaction, what is stored depends on the rows alone.
LEMMA DoneIsIndexed ==
  ASSUME NEW j, NEW s, j.pc # "storing"
  PROVE  Done(j, s) = {row \in s.files : row.status = "indexed"}
BY DEF Done

\* Only the task's place changed, and not into or out of a transaction.
LEMMA PlaceMoves ==
  ASSUME NEW j, NEW s, NEW k, NEW t, RowsKnown(j, s, blobs), blobs' = blobs,
         j.pc # "storing", k.pc # "storing", k.tx = Begun, k.id = j.id, k.at \in Nat,
         t.files = s.files, t.chunks = s.chunks,
         ~t.indexed => ~s.indexed,
         k.pc \in {"clearing_graphs", "clearing_files"} => s.chunks = <<>>,
         t.indexed \/ k.pc \in Rewriting => s.indexed \/ j.pc \in Rewriting
  PROVE  RowsKnown(k, t, blobs')
<1>1. Done(k, t) = Done(j, s)
  BY DoneIsIndexed
<1>2. JobKnown(k) /\ FilesKnown(k, t)
  BY DEF RowsKnown, JobKnown, FilesKnown
<1>3. ChunksKnown(k, t, blobs')
  BY <1>1 DEF RowsKnown, ChunksKnown
<1> QED BY <1>2, <1>3 DEF RowsKnown

LEMMA PlaceMovesRows ==
  ASSUME IndexInv, NEW r \in Runs,
         Start(r) \/ ClearGraphs(r) \/ SaveGraph(r) \/ CloseIndex(r) \/ EnsureGraph(r) \/ Ensured(r)
  PROVE  \A q \in Runs : RowsKnown(job'[q], store'[q], blobs')
<1> DEFINE j == job[r]
           s == store[r]
           k == job'[r]
           t == store'[r]
<1>0. /\ RunInv(j, s) /\ RowsKnown(j, s, blobs) /\ DOMAIN job = Runs /\ DOMAIN store = Runs
      /\ DOMAIN j = DOMAIN Idle /\ DOMAIN s = DOMAIN Empty
  BY OwnState
<1> USE DEF Idle, Empty
<1>1. /\ blobs' = blobs
      /\ job' = [job EXCEPT ![r] = k] \/ (job' = job /\ k = j)
      /\ store' = [store EXCEPT ![r] = t] \/ (store' = store /\ t = s)
      /\ j.pc # "storing" /\ k.pc # "storing" /\ k.tx = j.tx /\ k.id = j.id
      /\ t.files = s.files /\ t.chunks = s.chunks
      /\ k.pc \in {"clearing_graphs", "clearing_files"} => s.chunks = <<>>
  <2>1. CASE Start(r)
    BY <1>0, <2>1 DEF Start, Step
  <2>2. CASE ClearGraphs(r)
    BY <1>0, <2>2 DEF ClearGraphs, Step, GraphsCleared, RowsKnown, ChunksKnown
  <2>3. CASE SaveGraph(r)
    BY <1>0, <2>3 DEF SaveGraph
  <2>4. CASE CloseIndex(r)
    BY <1>0, <2>4 DEF CloseIndex
  <2>5. CASE EnsureGraph(r)
    <3>1. PICK id : store' = [store EXCEPT ![r].graphs = @ \cup {id}]
      BY <2>5 DEF EnsureGraph
    <3> QED BY <1>0, <2>5, <3>1 DEF EnsureGraph
  <2>6. CASE Ensured(r)
    BY <1>0, <2>6 DEF Ensured, Step
  <2> QED BY <2>1, <2>2, <2>3, <2>4, <2>5, <2>6
<1>2. /\ t.indexed \/ k.pc \in Rewriting => s.indexed \/ j.pc \in Rewriting
      /\ k.at \in Nat /\ (~t.indexed => ~s.indexed)
  <2>0. j.at \in Nat
    BY <1>0 DEF RowsKnown, JobKnown
  <2>1. CASE Start(r)
    BY <1>0, <2>0, <2>1 DEF Start, Step, Rewriting
  <2>2. CASE ClearGraphs(r)
    BY <1>0, <2>0, <2>2 DEF ClearGraphs, Step, GraphsCleared, Rewriting
  <2>3. CASE SaveGraph(r)
    BY <1>0, <2>0, <2>3 DEF SaveGraph, Rewriting
  <2>4. CASE CloseIndex(r)
    BY <1>0, <2>0, <2>4 DEF CloseIndex, Rewriting, RunInv
  <2>5. CASE EnsureGraph(r)
    BY <1>0, <2>0, <2>5 DEF EnsureGraph, Rewriting
  <2>6. CASE Ensured(r)
    BY <1>0, <2>0, <2>6 DEF Ensured, Step, Rewriting
  <2> QED BY <2>1, <2>2, <2>3, <2>4, <2>5, <2>6
<1>3. k.tx = Begun
  BY <1>0, <1>1 DEF RowsKnown, JobKnown
<1> HIDE DEF j, s, k, t
<1>4. RowsKnown(k, t, blobs')
  BY <1>0, <1>1, <1>2, <1>3, PlaceMoves
<1> QED BY <1>1, <1>4, OwnRows DEF j, s

LEMMA ClearingRows ==
  ASSUME IndexInv, NEW r \in Runs, ClearChunks(r) \/ ClearFiles(r) \/ DeleteRun(r)
  PROVE  \A q \in Runs : RowsKnown(job'[q], store'[q], blobs')
<1> DEFINE j == job[r]
           s == store[r]
<1>0. /\ RunInv(j, s) /\ RowsKnown(j, s, blobs)
      /\ DOMAIN j = DOMAIN Idle /\ DOMAIN s = DOMAIN Empty
  BY OwnState
<1> USE DEF Idle, Empty
<1>1. CASE ClearChunks(r)
  <2> DEFINE k == [j EXCEPT !.pc = "clearing_graphs"]
             t == [s EXCEPT !.chunks = <<>>]
  <2>1. /\ job' = [job EXCEPT ![r] = k] /\ store' = [store EXCEPT ![r] = t] /\ blobs' = blobs
        /\ j.pc = "clearing_chunks"
    BY <1>1 DEF ClearChunks, Step
  <2>2. /\ k.pc = "clearing_graphs" /\ k.tx = j.tx /\ k.id = j.id /\ k.at = j.at
        /\ t.files = s.files /\ t.chunks = <<>> /\ t.indexed = s.indexed /\ ~s.indexed
    BY <1>0, <2>1 DEF RunInv
  <2> HIDE DEF k, t, j, s
  <2>3. RowsKnown(k, t, blobs')
    BY <1>0, <2>1, <2>2 DEF RowsKnown, JobKnown, FilesKnown, ChunksKnown, Rewriting
  <2> QED BY <2>1, <2>3, OwnRows
<1>2. CASE ClearFiles(r)
  <2> DEFINE k == [Idle EXCEPT !.pc = "walking", !.id = job[r].id]
             t == [s EXCEPT !.files = {}]
  <2>1. /\ job' = [job EXCEPT ![r] = k] /\ store' = [store EXCEPT ![r] = t] /\ blobs' = blobs
        /\ j.pc = "clearing_files"
    BY <1>2 DEF ClearFiles
  <2>2. /\ k.pc = "walking" /\ k.tx = Begun /\ k.id = j.id /\ k.at = 0
        /\ t.files = {} /\ t.chunks = s.chunks /\ t.indexed = s.indexed
    BY <1>0
  <2>3. s.chunks = <<>>
    BY <1>0, <2>1 DEF RowsKnown, ChunksKnown
  <2>4. Done(k, t) = {} /\ Cells({}) = {}
    BY <2>2 DEF Done, Cells
  <2> HIDE DEF k, t, j, s
  <2>5. k.id \in Nat /\ k.at \in Nat
    BY <1>0, <2>2 DEF RowsKnown, JobKnown
  <2>6. JobKnown(k) /\ FilesKnown(k, t)
    BY <2>2, <2>5 DEF JobKnown, FilesKnown
  <2>7. ChunksKnown(k, t, blobs')
    BY <2>2, <2>3, <2>4, EmptyRange DEF ChunksKnown
  <2> QED BY <2>1, <2>6, <2>7, OwnRows DEF RowsKnown
<1>3. CASE DeleteRun(r)
  <2> DEFINE k == [Idle EXCEPT !.id = job[r].id]
             t == Empty
  <2>1. /\ job' = [job EXCEPT ![r] = k] /\ store' = [store EXCEPT ![r] = t] /\ blobs' = blobs
    BY <1>3 DEF DeleteRun
  <2>2. /\ k.pc = "stopped" /\ k.tx = Begun /\ k.id = j.id /\ k.at = 0
        /\ t.files = {} /\ t.chunks = <<>> /\ t.indexed = FALSE
    BY <1>0
  <2> HIDE DEF k, t, j, s
  <2>3. k.id \in Nat /\ k.at \in Nat
    BY <1>0, <2>2 DEF RowsKnown, JobKnown
  <2>4. JobKnown(k) /\ FilesKnown(k, t) /\ ChunksKnown(k, t, blobs')
    BY <2>2, <2>3 DEF JobKnown, FilesKnown, ChunksKnown, Rewriting
  <2> QED BY <2>1, <2>4, OwnRows DEF RowsKnown
<1> QED BY <1>1, <1>2, <1>3

\* A row that says why a file is not indexed stores nothing.
LEMMA PassOverRows ==
  ASSUME IndexInv, NEW r \in Runs, NEW status, status # "indexed", Walking(r), PassOver(r, status)
  PROVE  \A q \in Runs : RowsKnown(job'[q], store'[q], blobs')
<1> DEFINE j == job[r]
           s == store[r]
           row == [id |-> j.id + 1, status |-> status, text |-> <<>>]
           k == [j EXCEPT !.at = @ + 1, !.id = @ + 1]
           t == [s EXCEPT !.files = @ \cup {row}]
<1>0. /\ RunInv(j, s) /\ RowsKnown(j, s, blobs) /\ DOMAIN job = Runs /\ DOMAIN store = Runs
      /\ DOMAIN j = DOMAIN Idle /\ DOMAIN s = DOMAIN Empty
  BY OwnState
<1>1. /\ job' = [job EXCEPT ![r] = k] /\ store' = [store EXCEPT ![r] = t] /\ blobs' = blobs
      /\ j.pc = "walking"
  BY <1>0 DEF PassOver, Walking
<1>2. /\ k.pc = "walking" /\ k.tx = j.tx /\ k.id = j.id + 1 /\ k.at = j.at + 1
      /\ t.files = s.files \cup {row} /\ t.chunks = s.chunks /\ t.indexed = s.indexed
  BY <1>0, <1>1 DEF Idle, Empty
<1>3. /\ row.id = j.id + 1 /\ row.status # "indexed" /\ row.text = <<>> /\ ~s.indexed
      /\ j.id \in Nat /\ j.at \in Nat /\ j.tx = Begun
  BY <1>0, <1>1 DEF RunInv, RowsKnown, JobKnown
<1> HIDE DEF k, t, j, s, row
<1>4. Done(k, t) = Done(j, s)
  BY <1>1, <1>2, <1>3 DEF Done
<1>5. FilesKnown(k, t)
  <2>1. \A old \in s.files : old.id \in Nat /\ old.id <= j.id /\ old.text \in Seq(Nat)
    BY <1>0, <1>3 DEF RowsKnown, FilesKnown
  <2>2. \A a, b \in s.files : a.id = b.id => a = b
    BY <1>0 DEF RowsKnown, FilesKnown
  <2>3. \A a, b \in t.files : a.id = b.id => a = b
    BY <1>2, <1>3, <2>1, <2>2
  <2>4. <<>> \in Seq(Nat)
    BY EmptyRange
  <2>5. row.id \in Nat /\ row.id <= k.id /\ row.text \in Seq(Nat)
    <3>1. row.id = k.id /\ k.id \in Nat
      BY <1>2, <1>3
    <3>2. row.id <= k.id
      BY <3>1
    <3> QED BY <1>3, <2>4, <3>1, <3>2
  <2>6. \A old \in s.files : old.id <= k.id
    BY <1>2, <1>3, <2>1
  <2>7. \A a \in t.files : a.id \in Nat /\ a.text \in Seq(Nat) /\ a.id <= k.id
    BY <1>2, <2>1, <2>5, <2>6, Zenon
  <2> QED BY <1>2, <2>3, <2>7 DEF FilesKnown
<1>6. ChunksKnown(k, t, blobs')
  BY <1>0, <1>1, <1>2, <1>4 DEF RowsKnown, ChunksKnown, Rewriting
<1>7. JobKnown(k)
  BY <1>2, <1>3 DEF JobKnown
<1> QED BY <1>1, <1>5, <1>6, <1>7, OwnRows DEF RowsKnown, j, s

LEMMA TakeFileRows ==
  ASSUME IndexInv, NEW r \in Runs, TakeFile(r)
  PROVE  \A q \in Runs : RowsKnown(job'[q], store'[q], blobs')
<1> DEFINE j == job[r]
           s == store[r]
<1>0. /\ RunInv(j, s) /\ RowsKnown(j, s, blobs) /\ DOMAIN job = Runs /\ DOMAIN store = Runs
      /\ DOMAIN j = DOMAIN Idle /\ DOMAIN s = DOMAIN Empty
  BY OwnState
<1>1. PICK text \in Texts[Current(r)] :
        /\ job' = [job EXCEPT ![r].pc = "storing", ![r].id = @ + 1, ![r].text = text,
                              ![r].tx = Begun, ![r].retries = 0]
        /\ store' = [store EXCEPT ![r].files =
                       @ \cup {[id |-> job[r].id + 1, status |-> "indexed", text |-> text]}]
  BY DEF TakeFile
<1> DEFINE row == [id |-> j.id + 1, status |-> "indexed", text |-> text]
           k == [j EXCEPT !.pc = "storing", !.id = @ + 1, !.text = text, !.tx = Begun,
                          !.retries = 0]
           t == [s EXCEPT !.files = @ \cup {row}]
<1>2. /\ job' = [job EXCEPT ![r] = k] /\ store' = [store EXCEPT ![r] = t] /\ blobs' = blobs
      /\ j.pc = "walking" /\ j.at < Len(Walk)
  BY <1>0, <1>1 DEF TakeFile, Walking
<1>3. /\ k.pc = "storing" /\ k.tx = Begun /\ k.id = j.id + 1 /\ k.at = j.at /\ k.text = text
      /\ t.files = s.files \cup {row} /\ t.chunks = s.chunks /\ t.indexed = s.indexed
  BY <1>0, <1>1 DEF Idle, Empty
<1>4. /\ row.id = j.id + 1 /\ row.status = "indexed" /\ row.text = text /\ ~s.indexed
      /\ row = [id |-> k.id, status |-> "indexed", text |-> k.text]
      /\ j.id \in Nat /\ j.at \in Nat
  BY <1>0, <1>2, <1>3 DEF RunInv, RowsKnown, JobKnown
<1>5. text \in Seq(Nat)
  <2>1. j.at + 1 \in 1 .. Len(Walk)
    <3>1. Len(Walk) \in Nat
      BY LenProperties, IndexAssumption
    <3> QED BY <1>2, <1>4, <3>1
  <2>2. Current(r) \in DOMAIN Texts
    BY <2>1, IndexAssumption, ElementOfSeq DEF Current
  <2> QED BY <2>2, IndexAssumption
<1> HIDE DEF k, t, j, s, row
<1>6. \A old \in s.files : old.id \in Nat /\ old.id <= j.id /\ old.text \in Seq(Nat)
  BY <1>0, <1>4 DEF RowsKnown, FilesKnown
<1>7. Done(k, t) = Done(j, s)
  <2>1. \A old \in s.files : old.id # k.id
    BY <1>3, <1>4, <1>6
  <2> QED BY <1>2, <1>3, <1>4, <2>1 DEF Done
<1>8. FilesKnown(k, t)
  <2>1. \A a, b \in s.files : a.id = b.id => a = b
    BY <1>0 DEF RowsKnown, FilesKnown
  <2>2. \A a, b \in t.files : a.id = b.id => a = b
    BY <1>3, <1>4, <1>6, <2>1
  <2>3. \A a \in t.files : a.id \in Nat /\ a.text \in Seq(Nat) /\ a.id <= k.id
    BY <1>3, <1>4, <1>5, <1>6
  <2> QED BY <1>3, <1>4, <2>2, <2>3 DEF FilesKnown
<1>9. ChunksKnown(k, t, blobs')
  BY <1>0, <1>2, <1>3, <1>7 DEF RowsKnown, ChunksKnown, Rewriting
<1>10. JobKnown(k)
  <2>1. k.at \in Nat /\ k.id \in Nat
    BY <1>3, <1>4
  <2>2. TxKnown(k)
    BY <1>3, <1>5, BegunKnown
  <2> QED BY <1>3, <2>1, <2>2 DEF JobKnown
<1> QED BY <1>2, <1>8, <1>9, <1>10, OwnRows DEF RowsKnown, j, s

\* What a step inside of a file's transaction leaves alone.
LEMMA TransactionRows ==
  ASSUME IndexInv, NEW r \in Runs, NEW k,
         job[r].pc = "storing", k.pc = "storing", k.id = job[r].id, k.at = job[r].at,
         k.text = job[r].text, TxKnown(k),
         job' = [job EXCEPT ![r] = k], store' = store, blobs' = blobs
  PROVE  \A q \in Runs : RowsKnown(job'[q], store'[q], blobs')
<1> DEFINE j == job[r]
           s == store[r]
<1>0. RowsKnown(j, s, blobs)
  BY OwnState
<1> HIDE DEF j, s
<1>1. j.pc = "storing" /\ k.id = j.id /\ k.at = j.at /\ k.text = j.text
  BY DEF j
<1>2. Done(k, s) = Done(j, s)
  BY <1>1 DEF Done
<1>3. RowsKnown(k, s, blobs')
  BY <1>0, <1>1, <1>2 DEF RowsKnown, JobKnown, FilesKnown, ChunksKnown, Rewriting
<1> QED BY <1>3, OwnRows DEF s

LEMMA InsertBlobRows ==
  ASSUME IndexInv, NEW r \in Runs, InsertBlob(r)
  PROVE  \A q \in Runs : RowsKnown(job'[q], store'[q], blobs')
<1> DEFINE j == job[r]
           v == NextBlob(r)
           k == job'[r]
<1>0. RowsKnown(j, store[r], blobs) /\ DOMAIN job = Runs /\ DOMAIN j = DOMAIN Idle
  BY OwnState
<1>1. /\ job' = [job EXCEPT ![r] = k] /\ store' = store /\ blobs' = blobs
      /\ j.pc = "storing" /\ Len(j.tx.locked) < Len(j.text)
      /\ v = Ordered(j.text)[Len(j.tx.locked) + 1]
  BY <1>0 DEF InsertBlob, Locking, NextBlob
<1>2. TxKnown(j)
  BY <1>0, <1>1 DEF RowsKnown, JobKnown
<1>3. /\ k.pc = "storing" /\ k.id = j.id /\ k.at = j.at /\ k.text = j.text
      /\ DOMAIN k.tx = DOMAIN Begun /\ k.tx.locked = Append(j.tx.locked, v)
      /\ k.tx.next = j.tx.next /\ k.tx.rows = j.tx.rows
  <2>1. DOMAIN j.tx = DOMAIN Begun
    BY <1>2 DEF TxKnown
  <2> QED BY <1>0, <1>1, <2>1 DEF InsertBlob, Idle, Begun
<1> HIDE DEF j, v, k
<1> DEFINE n == Len(j.tx.locked)
           o == Ordered(j.text)
<1>4. /\ j.text \in Seq(Nat) /\ j.tx.locked \in Seq(Nat) /\ n \in Nat /\ Len(j.text) \in Nat
      /\ n < Len(j.text) /\ v = o[n + 1]
  BY <1>1, <1>2, LenProperties DEF TxKnown
<1>5. v \in Nat
  <2>1. o \in Seq(Nat) /\ Len(o) = Len(j.text)
    BY <1>4, OrderedIs
  <2> HIDE DEF o, n
  <2>2. n + 1 \in 1 .. Len(o)
    BY <1>4, <2>1
  <2> QED BY <1>4, <2>1, <2>2, ElementOfSeq
<1>6. /\ k.tx.locked \in Seq(Nat) /\ Len(k.tx.locked) = n + 1
      /\ \A i \in 1 .. n : k.tx.locked[i] = j.tx.locked[i]
      /\ k.tx.locked[n + 1] = v
  BY <1>3, <1>4, <1>5, AppendProperties
<1>7. \A i \in 1 .. n : j.tx.locked[i] = o[i]
  BY <1>2 DEF TxKnown
<1> HIDE DEF n, o
<1>8. \A i \in 1 .. n + 1 : k.tx.locked[i] = o[i]
  <2> SUFFICES ASSUME NEW i \in 1 .. n + 1 PROVE k.tx.locked[i] = o[i]
    OBVIOUS
  <2>1. i \in 1 .. n \/ i = n + 1
    BY <1>4
  <2> QED BY <1>4, <1>6, <1>7, <2>1
<1>9. n + 1 <= Len(j.text)
  BY <1>4
<1>10. TxKnown(k)
  BY <1>2, <1>3, <1>6, <1>8, <1>9 DEF TxKnown, o
<1> QED BY <1>1, <1>3, <1>10, TransactionRows DEF j

LEMMA InsertChunkRows ==
  ASSUME IndexInv, NEW r \in Runs, InsertChunk(r)
  PROVE  \A q \in Runs : RowsKnown(job'[q], store'[q], blobs')
<1> DEFINE j == job[r]
           n == j.tx.next
           k == job'[r]
<1>0. RowsKnown(j, store[r], blobs) /\ DOMAIN job = Runs /\ DOMAIN j = DOMAIN Idle
  BY OwnState
<1>1. /\ job' = [job EXCEPT ![r] = k] /\ store' = store /\ blobs' = blobs
      /\ j.pc = "storing" /\ n <= Len(j.text)
  BY <1>0 DEF InsertChunk, Writing
<1>2. TxKnown(j)
  BY <1>0, <1>1 DEF RowsKnown, JobKnown
<1>3. /\ k.pc = "storing" /\ k.id = j.id /\ k.at = j.at /\ k.text = j.text
      /\ DOMAIN k.tx = DOMAIN Begun /\ k.tx.locked = j.tx.locked
      /\ k.tx.next = n + 1 /\ k.tx.rows = Append(j.tx.rows, <<j.id, n>>)
  <2>1. DOMAIN j.tx = DOMAIN Begun
    BY <1>2 DEF TxKnown
  <2> QED BY <1>0, <1>1, <2>1 DEF InsertChunk, Idle, Begun
<1> HIDE DEF j, n, k
<1>4. /\ Len(j.text) \in Nat /\ n \in 1 .. Len(j.text) + 1 /\ n <= Len(j.text)
      /\ j.tx.rows = [i \in 1 .. n - 1 |-> <<j.id, i>>]
  BY <1>1, <1>2, LenProperties DEF TxKnown, n
<1>5. n \in Nat /\ n - 1 \in Nat /\ n + 1 \in 1 .. Len(j.text) + 1 /\ (n - 1) + 1 = n /\ (n + 1) - 1 = n
  BY <1>4
<1>6. k.tx.rows = [i \in 1 .. n |-> <<j.id, i>>]
  <2> DEFINE row(i) == <<j.id, i>>
             old == [i \in 1 .. n - 1 |-> row(i)]
             all == {row(i) : i \in 1 .. n}
             new == Append(old, row(n))
  <2>0. \A i \in 1 .. n : row(i) \in all
    OBVIOUS
  <2> HIDE DEF row, all
  <2>1. \A i \in 1 .. n - 1 : row(i) \in all
    BY <1>5, <2>0
  <2>2. old \in [1 .. n - 1 -> all]
    BY <2>1
  <2>3. old \in Seq(all) /\ Len(old) = n - 1
    BY <1>5, <2>2, SeqDef, LenProperties
  <2>4. row(n) \in all
    BY <1>5, <2>0
  <2>5. \A i \in 1 .. n - 1 : old[i] = row(i)
    OBVIOUS
  <2> HIDE DEF old
  <2>6. /\ new \in Seq(all) /\ Len(new) = n /\ new[n] = row(n)
        /\ \A i \in 1 .. n - 1 : new[i] = old[i]
    BY <1>5, <2>3, <2>4, AppendProperties
  <2> HIDE DEF new
  <2>7. \A i \in 1 .. n : new[i] = row(i)
    <3> SUFFICES ASSUME NEW i \in 1 .. n PROVE new[i] = row(i)
      OBVIOUS
    <3>1. i \in 1 .. n - 1 \/ i = n
      BY <1>5
    <3> QED BY <2>5, <2>6, <3>1
  <2>8. new = [i \in 1 .. n |-> row(i)]
    <3>1. new = [i \in DOMAIN new |-> new[i]] /\ DOMAIN new = 1 .. n
      BY <2>6, LenProperties, SeqDef
    <3> QED BY <2>7, <3>1
  <2>9. new = k.tx.rows
    BY <1>3, <1>4 DEF new, old, row
  <2> QED BY <2>8, <2>9 DEF row
<1>7. TxKnown(k)
  BY <1>2, <1>3, <1>5, <1>6 DEF TxKnown
<1> QED BY <1>1, <1>3, <1>7, TransactionRows DEF j

\* When every blob of a file is inserted, the inserted blobs are those of its text.
LEMMA AllLocked ==
  ASSUME NEW j, TxKnown(j), ~(Len(j.tx.locked) < Len(j.text))
  PROVE  Range(j.tx.locked) = Range(j.text)
<1> DEFINE o == Ordered(j.text)
           l == j.tx.locked
           n == Len(j.text)
<1>1. /\ n \in Nat /\ o \in Seq(Nat) /\ Len(o) = n /\ Range(o) = Range(j.text)
  BY OrderedIs, LenProperties DEF TxKnown
<1>2. l \in Seq(Nat) /\ Len(l) \in Nat /\ \A i \in 1 .. Len(l) : l[i] = o[i]
  BY LenProperties DEF TxKnown
<1>3. Len(l) = n
  <2>1. Len(l) <= n
    BY DEF TxKnown
  <2> HIDE DEF l, n
  <2> QED BY <1>1, <1>2, <2>1 DEF l, n
<1> HIDE DEF o, l, n
<1>4. l = o
  BY <1>1, <1>2, <1>3, SeqEqual
<1> QED BY <1>1, <1>4 DEF l

\* What a commit adds are all the passages of its file, each once.
LEMMA AllWritten ==
  ASSUME NEW j, TxKnown(j), j.id \in Nat, ~(j.tx.next <= Len(j.text))
  PROVE  /\ j.tx.rows \in Seq(Nat \X Nat) /\ IsInjective(j.tx.rows)
         /\ Range(j.tx.rows) = {j.id} \X DOMAIN j.text
<1> DEFINE n == Len(j.text)
           rows == j.tx.rows
<1>1. n \in Nat /\ DOMAIN j.text = 1 .. n
  BY LenProperties DEF TxKnown
<1>2. j.tx.next - 1 = n
  <2>1. j.tx.next \in 1 .. n + 1 /\ ~(j.tx.next <= n)
    BY DEF TxKnown
  <2> HIDE DEF n
  <2> QED BY <1>1, <2>1
<1>3. rows = [i \in 1 .. n |-> <<j.id, i>>]
  BY <1>2 DEF TxKnown
<1> HIDE DEF n, rows
<1>4. rows \in [1 .. n -> Nat \X Nat]
  BY <1>1, <1>3
<1>5. rows \in Seq(Nat \X Nat)
  BY <1>1, <1>4, SeqDef
<1>6. IsInjective(rows)
  BY <1>3 DEF IsInjective
<1>7. Range(rows) = {j.id} \X (1 .. n)
  BY <1>3 DEF Range
<1> QED BY <1>1, <1>5, <1>6, <1>7 DEF rows

LEMMA StoredRows ==
  ASSUME IndexInv, NEW r \in Runs, NEW k, Written(r), Stored(r),
         k.pc \in {"graphing", "stopped"}, k.tx = Begun, k.id = job[r].id, k.at = job[r].at,
         job' = [job EXCEPT ![r] = k]
  PROVE  \A q \in Runs : RowsKnown(job'[q], store'[q], blobs')
<1> DEFINE j == job[r]
           s == store[r]
           t == [s EXCEPT !.chunks = @ \o j.tx.rows]
           row == [id |-> j.id, status |-> "indexed", text |-> j.text]
           done == Done(j, s)
<1>0. /\ RunInv(j, s) /\ RowsKnown(j, s, blobs) /\ DOMAIN store = Runs /\ DOMAIN s = DOMAIN Empty
  BY OwnState
<1>1. /\ store' = [store EXCEPT ![r] = t] /\ blobs' = blobs \cup Range(j.tx.locked)
      /\ j.pc = "storing" /\ ~(Len(j.tx.locked) < Len(j.text)) /\ ~(j.tx.next <= Len(j.text))
  BY <1>0 DEF Written, Writing, Locking, Stored
<1>2. /\ t.files = s.files /\ t.indexed = s.indexed /\ t.chunks = s.chunks \o j.tx.rows
      /\ k.id = j.id /\ k.at = j.at
  BY <1>0 DEF Empty
<1>3. /\ row.id = j.id /\ row.status = "indexed" /\ row.text = j.text /\ j.id \in Nat /\ j.at \in Nat
      /\ TxKnown(j) /\ ~s.indexed
  BY <1>0, <1>1 DEF RunInv, RowsKnown, JobKnown
<1>4. /\ \A a, b \in s.files : a.id = b.id => a = b
      /\ row \in s.files
  BY <1>0, <1>1 DEF RowsKnown, FilesKnown
<1>5. /\ s.chunks \in Seq(Nat \X Nat) /\ IsInjective(s.chunks) /\ Range(s.chunks) = Cells(done)
      /\ \A d \in done : Range(d.text) \subseteq blobs
  BY <1>0, <1>1 DEF RowsKnown, ChunksKnown, Rewriting
<1>6. /\ j.tx.rows \in Seq(Nat \X Nat) /\ IsInjective(j.tx.rows)
      /\ Range(j.tx.rows) = {row.id} \X DOMAIN row.text
  BY <1>1, <1>3, AllWritten
<1>7. blobs' = blobs \cup Range(row.text)
  BY <1>1, <1>3, AllLocked
<1> HIDE DEF j, s, t, row
<1>8. Done(k, t) = done \cup {row} /\ \A d \in done : d.id # row.id
  BY <1>1, <1>2, <1>3, <1>4 DEF Done
<1> HIDE DEF done
<1>9. Cells(done \cup {row}) = Cells(done) \cup ({row.id} \X DOMAIN row.text)
  BY DEF Cells
<1>10. Range(s.chunks) \cap Range(j.tx.rows) = {}
  BY <1>5, <1>6, <1>8 DEF Cells
<1>11. ChunksKnown(k, t, blobs')
  <2>1. /\ t.chunks \in Seq(Nat \X Nat) /\ IsInjective(t.chunks)
        /\ Range(t.chunks) = Cells(Done(k, t))
    <3> DEFINE c == s.chunks \o j.tx.rows
    <3>1. /\ c \in Seq(Nat \X Nat) /\ IsInjective(c)
          /\ Range(c) = Range(s.chunks) \cup Range(j.tx.rows)
      <4> DEFINE a == s.chunks
                 b == j.tx.rows
                 S == Nat \X Nat
      <4>1. /\ a \in Seq(S) /\ b \in Seq(S) /\ IsInjective(a) /\ IsInjective(b)
            /\ Range(a) \cap Range(b) = {}
        BY <1>5, <1>6, <1>10
      <4> HIDE DEF a, b, S
      <4>2. a \o b \in Seq(S) /\ IsInjective(a \o b) /\ Range(a \o b) = Range(a) \cup Range(b)
        BY <4>1, InjectiveConcat
      <4> QED BY <4>2 DEF a, b, S
    <3>2. t.chunks = c
      BY <1>2
    <3> HIDE DEF c
    <3> QED BY <1>5, <1>6, <1>8, <1>9, <3>1, <3>2
  <2>2. \A d \in Done(k, t) : Range(d.text) \subseteq blobs'
    BY <1>5, <1>7, <1>8
  <2> QED BY <2>1, <2>2 DEF ChunksKnown
<1>12. JobKnown(k) /\ FilesKnown(k, t)
  BY <1>0, <1>2, <1>3 DEF JobKnown, RowsKnown, FilesKnown
<1> QED BY <1>1, <1>11, <1>12, OwnRows DEF RowsKnown, s, t

LEMMA CommitRows ==
  ASSUME IndexInv, NEW r \in Runs, Commit(r) \/ CommitLost(r)
  PROVE  \A q \in Runs : RowsKnown(job'[q], store'[q], blobs')
<1> DEFINE k == job'[r]
<1>0. DOMAIN job = Runs /\ DOMAIN job[r] = DOMAIN Idle
  BY OwnState
<1>1. Written(r) /\ Stored(r)
  BY DEF Commit, CommitLost
<1>2. /\ job' = [job EXCEPT ![r] = k] /\ k.pc \in {"graphing", "stopped"} /\ k.tx = Begun
      /\ k.id = job[r].id /\ k.at = job[r].at
  BY <1>0 DEF Commit, CommitLost, Idle
<1> HIDE DEF k
<1> QED BY <1>1, <1>2, StoredRows

\* A run that stops leaves what is stored as it is.
LEMMA StopRows ==
  ASSUME IndexInv, NEW r \in Runs, Stop(r)
  PROVE  \A q \in Runs : RowsKnown(job'[q], store'[q], blobs')
<1> DEFINE j == job[r]
           s == store[r]
           k == [j EXCEPT !.pc = "stopped", !.tx = Begun]
<1>0. RunInv(j, s) /\ RowsKnown(j, s, blobs) /\ DOMAIN j = DOMAIN Idle
  BY OwnState
<1>1. job' = [job EXCEPT ![r] = k] /\ store' = store /\ blobs' = blobs
  BY DEF Stop
<1>2. k.pc = "stopped" /\ k.tx = Begun /\ k.id = j.id /\ k.at = j.at
  BY <1>0 DEF Idle
<1> HIDE DEF j, s, k
<1>3. j.pc = "storing" => ~s.indexed
  BY <1>0 DEF RunInv
<1>4. j.pc # "storing" => Done(k, s) = Done(j, s)
  BY <1>2 DEF Done
<1>5. RowsKnown(k, s, blobs')
  BY <1>0, <1>1, <1>2, <1>3, <1>4 DEF RowsKnown, JobKnown, FilesKnown, ChunksKnown, Rewriting
<1> QED BY <1>1, <1>5, OwnRows DEF s

\* A conflict leaves the file's transaction as it began.
LEMMA ConflictRows ==
  ASSUME IndexInv, NEW r \in Runs, Conflict(r)
  PROVE  \A q \in Runs : RowsKnown(job'[q], store'[q], blobs')
<1> DEFINE j == job[r]
           s == store[r]
           k == Conflicted(j)
<1>0. RunInv(j, s) /\ RowsKnown(j, s, blobs) /\ DOMAIN j = DOMAIN Idle
  BY OwnState
<1>1. job' = [job EXCEPT ![r] = k] /\ store' = store /\ blobs' = blobs /\ j.pc = "storing"
  BY DEF Conflict, Locking, Writing
<1>2. k.pc \in {"storing", "stopped"} /\ k.tx = Begun /\ k.id = j.id /\ k.at = j.at /\ k.text = j.text
  BY <1>0, <1>1 DEF Idle, Conflicted, AfterConflict
<1> HIDE DEF j, s, k
<1>3. ~s.indexed /\ j.text \in Seq(Nat)
  BY <1>0, <1>1 DEF RunInv, RowsKnown, JobKnown, TxKnown
<1>4. TxKnown(k)
  BY <1>2, <1>3, BegunKnown
<1>5. k.pc = "storing" => Done(k, s) = Done(j, s)
  BY <1>1, <1>2 DEF Done
<1>6. RowsKnown(k, s, blobs')
  BY <1>0, <1>1, <1>2, <1>3, <1>4, <1>5 DEF RowsKnown, JobKnown, FilesKnown, ChunksKnown, Rewriting
<1> QED BY <1>1, <1>6, OwnRows DEF s

\* Cleanup keeps the passages that an indexed run refers to.
LEMMA CollectBlobsRows ==
  ASSUME IndexInv, CollectBlobs
  PROVE  \A q \in Runs : RowsKnown(job'[q], store'[q], blobs')
<1> SUFFICES ASSUME NEW q \in Runs PROVE RowsKnown(job[q], store[q], blobs')
  BY DEF CollectBlobs
<1> DEFINE j == job[q]
           s == store[q]
<1>0. RowsKnown(j, s, blobs)
  BY OwnState
<1>1. j.pc \in {"stopped", "indexed"} /\ blobs' = blobs \cap Referenced
  BY DEF CollectBlobs, Quiet
<1>2. ASSUME s.indexed, NEW row \in Done(j, s), NEW v \in Range(row.text)
      PROVE  v \in Referenced
  <2>1. PICK i \in DOMAIN row.text : v = row.text[i]
    BY DEF Range
  <2>2. <<row.id, i>> \in Range(s.chunks)
    <3>1. Range(s.chunks) = Cells(Done(j, s))
      BY <1>0, <1>2 DEF RowsKnown, ChunksKnown
    <3>2. <<row.id, i>> \in {row.id} \X DOMAIN row.text
      BY <2>1
    <3> HIDE DEF j, s
    <3>3. <<row.id, i>> \in Cells(Done(j, s))
      BY <1>2, <3>2 DEF Cells
    <3> QED BY <3>1, <3>3
  <2>3. row \in s.files /\ \A a, b \in s.files : a.id = b.id => a = b
    BY <1>0 DEF RowsKnown, FilesKnown, Done
  <2>4. (CHOOSE x \in s.files : x.id = row.id) = row
    BY <2>3
  <2>5. BlobOf(q, <<row.id, i>>) = v
    BY <2>1, <2>4 DEF BlobOf
  <2> QED BY <2>2, <2>5 DEF Referenced
<1> HIDE DEF j, s
<1>3. s.indexed => \A row \in Done(j, s) : Range(row.text) \subseteq blobs'
  <2>1. s.indexed => \A row \in Done(j, s) : Range(row.text) \subseteq blobs
    BY <1>0 DEF RowsKnown, ChunksKnown
  <2> QED BY <1>1, <1>2, <2>1
<1>4. ChunksKnown(j, s, blobs')
  BY <1>0, <1>1, <1>3 DEF RowsKnown, ChunksKnown, Rewriting
<1> QED BY <1>0, <1>4 DEF RowsKnown, j, s

-----------------------------------------------------------------------------
(* Who has inserted which passage. *)

\* Without an insert, and while committed passages stay, no two runs come to
\* have inserted the same one.
LEMMA LocksStay ==
  ASSUME IndexInv, blobs \subseteq blobs',
         \A q \in Runs : job'[q].tx.locked \in {job[q].tx.locked, <<>>}
  PROVE  LocksApart'
<1>1. \A q \in Runs : Range(job'[q].tx.locked) \subseteq Range(job[q].tx.locked)
  BY EmptyRange
<1> QED BY <1>1 DEF IndexInv, LocksApart, Fresh

LEMMA InsertBlobLocks ==
  ASSUME IndexInv, NEW r \in Runs, InsertBlob(r)
  PROVE  LocksApart'
<1> DEFINE j == job[r]
           v == NextBlob(r)
           l == j.tx.locked
<1>1. /\ RowsKnown(j, store[r], blobs) /\ DOMAIN job = Runs /\ DOMAIN j = DOMAIN Idle
      /\ j.pc = "storing" /\ Locking(r)
  BY OwnState DEF InsertBlob, Locking
<1>2. TxKnown(j)
  BY <1>1 DEF RowsKnown, JobKnown
<1>3. job'[r].tx.locked = Append(l, v) /\ \A q \in Runs : q # r => job'[q] = job[q]
  <2>1. DOMAIN j.tx = DOMAIN Begun
    BY <1>2 DEF TxKnown
  <2> QED BY <1>1, <2>1 DEF InsertBlob, Idle, Begun
<1>4. \A q \in Runs : q # r => v \notin Fresh(q)
  BY <1>1 DEF InsertBlob, WaitsFor
<1>5. Range(job'[r].tx.locked) \subseteq Range(l) \cup {v}
  <2>1. l \in Seq(Nat) /\ Len(l) \in Nat /\ DOMAIN l = 1 .. Len(l)
    BY <1>2, LenProperties DEF TxKnown
  <2> HIDE DEF l, v, j
  <2>2. l \in Seq(Nat \cup {v})
    <3>1. l \in [1 .. Len(l) -> Nat]
      BY <2>1, LenProperties
    <3>2. l \in [1 .. Len(l) -> Nat \cup {v}]
      BY <3>1
    <3> QED BY <2>1, <3>2, SeqDef
  <2> DEFINE m == Append(l, v)
  <2>3. /\ m \in Seq(Nat \cup {v}) /\ Len(m) = Len(l) + 1 /\ m[Len(l) + 1] = v
        /\ \A i \in 1 .. Len(l) : m[i] = l[i]
    BY <2>2, AppendProperties
  <2>4. DOMAIN m = 1 .. Len(l) + 1
    BY <2>3, LenProperties
  <2>5. m = job'[r].tx.locked
    BY <1>3
  <2> HIDE DEF m
  <2>6. ASSUME NEW i \in DOMAIN m PROVE m[i] \in Range(l) \cup {v}
    <3>1. i \in 1 .. Len(l) \/ i = Len(l) + 1
      BY <2>1, <2>4
    <3> QED BY <2>1, <2>3, <3>1 DEF Range
  <2> QED BY <2>5, <2>6 DEF Range
<1>6. blobs' = blobs
  BY DEF InsertBlob
<1>7. Fresh(r)' \subseteq Fresh(r) \cup {v}
  BY <1>5, <1>6 DEF Fresh
<1>8. \A q \in Runs : q # r => Fresh(q)' = Fresh(q)
  BY <1>3, <1>6 DEF Fresh
<1> HIDE DEF v
<1> QED BY <1>4, <1>7, <1>8 DEF IndexInv, LocksApart

LEMMA CollectBlobsLocks ==
  ASSUME IndexInv, CollectBlobs
  PROVE  LocksApart'
<1>1. ASSUME NEW q \in Runs PROVE Fresh(q)' = {}
  <2>1. JobKnown(job[q]) /\ job[q].pc # "storing"
    BY <1>1, OwnState DEF RowsKnown, CollectBlobs, Quiet
  <2>2. job[q].tx.locked = <<>> /\ job' = job
    BY <2>1 DEF JobKnown, Begun, CollectBlobs
  <2> QED BY <2>2, EmptyRange DEF Fresh
<1> QED BY <1>1 DEF LocksApart

\* What every other action leaves of the open transactions.
LEMMA OtherLocks ==
  ASSUME IndexInv, NEW r \in Runs,
         \/ Start(r) \/ Conflict(r) \/ CommitLost(r) \/ Stop(r) \/ DeleteRun(r)
         \/ ClearChunks(r) \/ ClearGraphs(r) \/ ClearFiles(r)
         \/ Filter(r) \/ SnapshotFails(r) \/ WorkerFails(r) \/ TakeFile(r)
         \/ InsertChunk(r) \/ Commit(r)
         \/ SaveGraph(r) \/ CloseIndex(r) \/ EnsureGraph(r) \/ Ensured(r)
  PROVE  LocksApart'
<1>0. /\ DOMAIN job = Runs /\ DOMAIN job[r] = DOMAIN Idle
      /\ RowsKnown(job[r], store[r], blobs)
  BY OwnState
<1> USE DEF Idle
<1>1. CASE Start(r) \/ Stop(r) \/ ClearChunks(r) \/ ClearGraphs(r) \/ Ensured(r) \/ EnsureGraph(r)
           \/ SaveGraph(r) \/ CloseIndex(r)
  <2>1. blobs' = blobs /\ \A q \in Runs : job'[q].tx.locked \in {job[q].tx.locked, <<>>}
    <3>1. CASE Start(r) \/ ClearChunks(r) \/ ClearGraphs(r) \/ Ensured(r)
      <4>1. PICK pc : job' = [job EXCEPT ![r].pc = pc]
        BY <3>1 DEF Start, Step, ClearChunks, ClearGraphs, Ensured
      <4>2. blobs' = blobs
        BY <3>1 DEF Start, ClearChunks, ClearGraphs, Ensured
      <4> QED BY <1>0, <4>1, <4>2
    <3>2. CASE Stop(r)
      BY <1>0, <3>2 DEF Stop, Begun
    <3>3. CASE EnsureGraph(r)
      BY <3>3 DEF EnsureGraph
    <3>4. CASE SaveGraph(r)
      BY <1>0, <3>4 DEF SaveGraph
    <3>5. CASE CloseIndex(r)
      BY <1>0, <3>5 DEF CloseIndex
    <3> QED BY <1>1, <3>1, <3>2, <3>3, <3>4, <3>5
  <2> QED BY <2>1, LocksStay
<1>2. CASE ClearFiles(r) \/ DeleteRun(r) \/ TakeFile(r)
  <2>1. blobs' = blobs /\ job'[r].tx = Begun /\ \A q \in Runs : q # r => job'[q] = job[q]
    <3>1. CASE ClearFiles(r)
      BY <1>0, <3>1 DEF ClearFiles
    <3>2. CASE DeleteRun(r)
      BY <1>0, <3>2 DEF DeleteRun
    <3>3. CASE TakeFile(r)
      <4>1. PICK text : job' = [job EXCEPT ![r].pc = "storing", ![r].id = @ + 1, ![r].text = text,
                                           ![r].tx = Begun, ![r].retries = 0]
        BY <3>3 DEF TakeFile
      <4> QED BY <1>0, <3>3, <4>1 DEF TakeFile
    <3> QED BY <1>2, <3>1, <3>2, <3>3
  <2> QED BY <2>1, LocksStay DEF Begun
<1>3. CASE Filter(r) \/ SnapshotFails(r) \/ WorkerFails(r)
  <2>1. PICK status : PassOver(r, status)
    BY <1>3 DEF Filter, SnapshotFails, WorkerFails
  <2>2. blobs' = blobs /\ \A q \in Runs : job'[q].tx.locked = job[q].tx.locked
    BY <1>0, <2>1 DEF PassOver
  <2> QED BY <2>2, LocksStay
<1>4. CASE InsertChunk(r)
  <2>1. DOMAIN job[r].tx = DOMAIN Begun
    BY <1>0, <1>4 DEF RowsKnown, JobKnown, TxKnown, InsertChunk, Writing
  <2>2. blobs' = blobs /\ \A q \in Runs : job'[q].tx.locked = job[q].tx.locked
    BY <1>0, <1>4, <2>1 DEF InsertChunk, Begun
  <2> QED BY <2>2, LocksStay
<1>5. CASE Conflict(r)
  <2>1. Conflicted(job[r]).tx = Begun
    BY <1>0 DEF Conflicted, AfterConflict
  <2>2. /\ blobs' = blobs /\ job'[r].tx.locked = <<>>
        /\ \A q \in Runs : q # r => job'[q] = job[q]
    BY <1>0, <1>5, <2>1 DEF Conflict, Begun
  <2> QED BY <2>2, LocksStay
<1>6. CASE Commit(r) \/ CommitLost(r)
  <2>1. /\ blobs \subseteq blobs' /\ job'[r].tx = Begun
        /\ \A q \in Runs : q # r => job'[q] = job[q]
    BY <1>0, <1>6 DEF Commit, CommitLost, Stored
  <2> QED BY <2>1, LocksStay DEF Begun
<1> QED BY <1>1, <1>2, <1>3, <1>4, <1>5, <1>6

-----------------------------------------------------------------------------
LEMMA InitialIndex == Init => IndexInv
<1> SUFFICES ASSUME Init PROVE IndexInv
  OBVIOUS
<1>1. OldTexts \subseteq Seq(Nat)
  <2>1. CASE Walk = <<>>
    BY <2>1 DEF OldTexts
  <2>2. CASE Walk # <<>>
    <3>1. Len(Walk) \in 1 .. Len(Walk)
      <4>1. Len(Walk) \in Nat /\ Len(Walk) # 0
        BY <2>2, IndexAssumption, EmptySeq, LenProperties
      <4> QED BY <4>1
    <3>2. Last(Walk) \in DOMAIN Texts
      BY <3>1, IndexAssumption, ElementOfSeq DEF Last
    <3> QED BY <2>2, <3>2, IndexAssumption DEF OldTexts
  <2> QED BY <2>1, <2>2
<1>2. ASSUME NEW r \in Runs PROVE RowsKnown(job[r], store[r], blobs)
  <2> DEFINE j == job[r]
             s == store[r]
  <2>1. /\ j = Idle /\ s \in {Empty} \cup {Old(t) : t \in OldTexts}
        /\ \A row \in s.files : Range(row.text) \subseteq blobs
    BY DEF Init
  <2>2. /\ j.pc = "stopped" /\ j.tx = Begun /\ j.id = 0 /\ j.at = 0
    BY <2>1 DEF Idle
  <2>3. CASE s = Empty
    <3>1. s.files = {} /\ ~s.indexed
      BY <2>3 DEF Empty
    <3> HIDE DEF j, s
    <3>2. JobKnown(j) /\ FilesKnown(j, s)
      BY <2>2, <3>1 DEF JobKnown, FilesKnown
    <3>3. ChunksKnown(j, s, blobs)
      BY <2>2, <3>1 DEF ChunksKnown, Rewriting
    <3> QED BY <3>2, <3>3 DEF RowsKnown, j, s
  <2>4. ASSUME NEW text \in OldTexts, s = Old(text) PROVE RowsKnown(j, s, blobs)
    <3> DEFINE row == [id |-> 1, status |-> "indexed", text |-> text]
               n == Len(text)
    <3>1. s.files = {row} /\ s.indexed /\ s.chunks = [i \in 1 .. n |-> <<1, i>>]
      BY <2>4 DEF Old, Empty
    <3>2. row.id = 1 /\ row.status = "indexed" /\ row.text = text
      OBVIOUS
    <3>3. text \in Seq(Nat) /\ n \in Nat /\ DOMAIN text = 1 .. n
      BY <1>1, LenProperties
    <3> HIDE DEF j, s, row, n
    <3>4. /\ s.chunks \in Seq(Nat \X Nat) /\ IsInjective(s.chunks)
          /\ Range(s.chunks) = {1} \X (1 .. n)
      <4>1. s.chunks \in [1 .. n -> Nat \X Nat]
        BY <3>1, <3>3
      <4>2. s.chunks \in Seq(Nat \X Nat)
        BY <3>3, <4>1, SeqDef
      <4>3. IsInjective(s.chunks)
        BY <3>1 DEF IsInjective
      <4>4. Range(s.chunks) = {1} \X (1 .. n)
        BY <3>1 DEF Range
      <4> QED BY <4>2, <4>3, <4>4
    <3>5. Done(j, s) = {row}
      BY <2>2, <3>1, <3>2 DEF Done
    <3>6. Cells({row}) = {1} \X (1 .. n)
      BY <3>2, <3>3 DEF Cells
    <3>7. ChunksKnown(j, s, blobs)
      BY <2>1, <2>2, <3>1, <3>4, <3>5, <3>6 DEF ChunksKnown
    <3>8. JobKnown(j) /\ FilesKnown(j, s)
      BY <2>2, <3>1, <3>2, <3>3 DEF JobKnown, FilesKnown
    <3> QED BY <3>7, <3>8 DEF RowsKnown
  <2> QED BY <2>1, <2>3, <2>4
<1>3. LocksApart
  <2>1. \A r \in Runs : job[r].tx.locked = <<>>
    BY DEF Init, Idle, Begun
  <2> QED BY <2>1, EmptyRange DEF LocksApart, Fresh
<1> QED BY <1>2, <1>3, InitialGraphs DEF IndexInv

LEMMA IndexStep == IndexInv /\ [Next]_vars => IndexInv'
<1> SUFFICES ASSUME IndexInv, [Next]_vars
             PROVE  LocksApart' /\ \A q \in Runs : RowsKnown(job'[q], store'[q], blobs')
  BY GraphStep DEF IndexInv
<1>1. CASE UNCHANGED vars
  <2>1. job' = job /\ store' = store /\ blobs' = blobs
    BY <1>1 DEF vars
  <2> QED BY <2>1 DEF IndexInv, LocksApart, Fresh
<1>2. CASE CollectBlobs
  BY <1>2, CollectBlobsRows, CollectBlobsLocks
<1>3. ASSUME NEW r \in Runs, InsertBlob(r)
      PROVE  LocksApart' /\ \A q \in Runs : RowsKnown(job'[q], store'[q], blobs')
  BY <1>3, InsertBlobRows, InsertBlobLocks
<1>4. ASSUME NEW r \in Runs,
             \/ Start(r) \/ Conflict(r) \/ CommitLost(r) \/ Stop(r) \/ DeleteRun(r)
             \/ ClearChunks(r) \/ ClearGraphs(r) \/ ClearFiles(r)
             \/ Filter(r) \/ SnapshotFails(r) \/ WorkerFails(r) \/ TakeFile(r)
             \/ InsertChunk(r) \/ Commit(r)
             \/ SaveGraph(r) \/ CloseIndex(r) \/ EnsureGraph(r) \/ Ensured(r)
      PROVE  LocksApart' /\ \A q \in Runs : RowsKnown(job'[q], store'[q], blobs')
  <2>1. LocksApart'
    BY <1>4, OtherLocks
  <2>2. CASE \/ Start(r) \/ ClearGraphs(r) \/ SaveGraph(r) \/ CloseIndex(r) \/ EnsureGraph(r)
             \/ Ensured(r)
    BY <2>1, <2>2, PlaceMovesRows
  <2>3. CASE ClearChunks(r) \/ ClearFiles(r) \/ DeleteRun(r)
    BY <2>1, <2>3, ClearingRows
  <2>4. CASE Filter(r) \/ SnapshotFails(r) \/ WorkerFails(r)
    <3>1. PICK status \in {"excluded", "unreadable", "unparsed"} :
            Walking(r) /\ PassOver(r, status)
      BY <2>4 DEF Filter, SnapshotFails, WorkerFails
    <3> QED BY <2>1, <3>1, PassOverRows
  <2>5. CASE TakeFile(r)
    BY <2>1, <2>5, TakeFileRows
  <2>6. CASE InsertChunk(r)
    BY <2>1, <2>6, InsertChunkRows
  <2>7. CASE Commit(r) \/ CommitLost(r)
    BY <2>1, <2>7, CommitRows
  <2>8. CASE Stop(r)
    BY <2>1, <2>8, StopRows
  <2>9. CASE Conflict(r)
    BY <2>1, <2>9, ConflictRows
  <2> QED BY <1>4, <2>2, <2>3, <2>4, <2>5, <2>6, <2>7, <2>8, <2>9
<1> QED BY <1>1, <1>2, <1>3, <1>4 DEF Next, Progress

\* source.rs, persist_chunks: an indexed run has every passage of its files once,
\* with its text, whatever was retried, lost, interrupted or cleaned up.
THEOREM StoredOnce == Spec => []ChunksOnce
<1>1. IndexInv => ChunksOnce
  <2> SUFFICES ASSUME IndexInv, NEW r \in Runs, store[r].indexed
               PROVE  /\ IsInjective(store[r].chunks)
                      /\ Range(store[r].chunks) =
                           UNION {{row.id} \X DOMAIN row.text : row \in Rows(r, "indexed")}
                      /\ \A row \in Rows(r, "indexed") : Range(row.text) \subseteq blobs
    BY DEF ChunksOnce
  <2>1. RunInv(job[r], store[r]) /\ RowsKnown(job[r], store[r], blobs)
    BY OwnState
  <2>2. Done(job[r], store[r]) = Rows(r, "indexed")
    BY <2>1 DEF RunInv, Done, Rows
  <2> QED BY <2>1, <2>2 DEF RowsKnown, ChunksKnown, Cells
<1> QED BY <1>1, InitialIndex, IndexStep, PTL DEF Spec

\* What a file has inserted comes before what it will insert.
LEMMA LockedBelow ==
  ASSUME NEW j, TxKnown(j), Len(j.tx.locked) < Len(j.text), NEW v \in Range(j.tx.locked)
  PROVE  /\ v \in Nat /\ Ordered(j.text)[Len(j.tx.locked) + 1] \in Nat
         /\ v <= Ordered(j.text)[Len(j.tx.locked) + 1]
<1> DEFINE o == Ordered(j.text)
           l == j.tx.locked
           n == Len(j.text)
           m == Len(j.tx.locked)
<1>1. /\ n \in Nat /\ o \in Seq(Nat) /\ Len(o) = n
      /\ \A i, k \in 1 .. n : i < k => o[i] <= o[k]
  BY OrderedIs, LenProperties DEF TxKnown
<1>2. /\ l \in Seq(Nat) /\ m \in Nat /\ DOMAIN l = 1 .. m /\ m < n
      /\ \A i \in 1 .. m : l[i] = o[i]
  BY LenProperties DEF TxKnown
<1> HIDE DEF o, l, n, m
<1>3. PICK i \in 1 .. m : v = l[i]
  BY <1>2 DEF Range, l
<1>4. i \in 1 .. n /\ m + 1 \in 1 .. n /\ i < m + 1
  BY <1>1, <1>2
<1>5. v = o[i] /\ o[i] \in Nat /\ o[m + 1] \in Nat /\ o[i] <= o[m + 1]
  BY <1>1, <1>2, <1>3, <1>4, ElementOfSeq
<1> QED BY <1>5 DEF o, m

\* source.rs, ordered_by_hash: because every file's passages are inserted in the
\* order of their hashes, runs never wait for each other in a circle, of two or
\* of any number of them.
THEOREM NoCircle == Spec => []NoCircularWait
<1>1. ASSUME IndexInv, NEW r \in Runs, NEW q \in Runs, WaitsFor(r, q), Locking(q)
      PROVE  /\ NextBlob(r) \in Nat /\ NextBlob(q) \in Nat /\ NextBlob(r) <= NextBlob(q)
  <2>1. TxKnown(job[q]) /\ Len(job[q].tx.locked) < Len(job[q].text)
    BY <1>1, OwnState DEF RowsKnown, JobKnown, Locking
  <2>2. NextBlob(r) \in Range(job[q].tx.locked)
    BY <1>1 DEF WaitsFor, Fresh
  <2> QED BY <2>1, <2>2, LockedBelow DEF NextBlob
\* Who waits for a run that waits itself, waits for an earlier passage.
<1>2. ASSUME IndexInv, NEW r \in Runs, NEW q \in Runs, NEW p \in Runs,
             WaitsFor(r, q), WaitsFor(q, p)
      PROVE  NextBlob(r) \in Nat /\ NextBlob(q) \in Nat /\ NextBlob(r) < NextBlob(q)
  <2>1. Locking(q) /\ p # q
    BY <1>2 DEF WaitsFor
  <2>2. NextBlob(r) \in Nat /\ NextBlob(q) \in Nat /\ NextBlob(r) <= NextBlob(q)
    BY <1>1, <1>2, <2>1
  <2>3. NextBlob(r) \in Fresh(q) /\ NextBlob(q) \in Fresh(p)
    BY <1>2 DEF WaitsFor
  <2>4. NextBlob(r) # NextBlob(q)
    BY <1>2, <2>1, <2>3 DEF IndexInv, LocksApart
  <2> QED BY <2>2, <2>4
<1>3. IndexInv => NoCircularWait
  <2> SUFFICES ASSUME IndexInv, NEW some \in SUBSET Runs, some # {},
                      \A r \in some : \E q \in some : WaitsFor(r, q)
               PROVE  FALSE
    BY DEF NoCircularWait
  <2>1. \A r \in some : NextBlob(r) \in Nat
    <3> SUFFICES ASSUME NEW r \in some PROVE NextBlob(r) \in Nat
      OBVIOUS
    <3>1. PICK q \in some : WaitsFor(r, q)
      OBVIOUS
    <3>2. PICK p \in some : WaitsFor(q, p)
      OBVIOUS
    <3> QED BY <1>2, <3>1, <3>2
  <2> DEFINE R == {pair \in some \X some : NextBlob(pair[1]) > NextBlob(pair[2])}
  <2>2. \A x, y \in some : <<x, y>> \in R <=> NextBlob(x) > NextBlob(y)
    OBVIOUS
  <2> HIDE DEF R
  <2>3. \A x \in some : <<x, x>> \notin R
    BY <2>1, <2>2
  <2>4. \A x, y, z \in some : <<x, y>> \in R /\ <<y, z>> \in R => <<x, z>> \in R
    BY <2>1, <2>2
  <2>5. IsFiniteSet(some)
    BY IndexAssumption, FS_Subset
  <2>6. PICK r \in some : \A q \in some : <<q, r>> \notin R
    BY <2>3, <2>4, <2>5, MinimalElement
  <2>7. PICK q \in some : WaitsFor(r, q)
    OBVIOUS
  <2>8. PICK p \in some : WaitsFor(q, p)
    OBVIOUS
  <2>9. NextBlob(q) > NextBlob(r)
    BY <1>2, <2>7, <2>8
  <2> QED BY <2>2, <2>6, <2>9
<1> QED BY <1>3, InitialIndex, IndexStep, PTL DEF Spec

-----------------------------------------------------------------------------
(* A run that indexes waits for a passage of another one or for nothing. *)

\* Some step of r's task needs nobody else's.
GoesOn(r) ==
  \/ job[r].pc \in {"clearing_chunks", "clearing_graphs", "clearing_files", "graphing",
                    "ensuring"}
  \/ Walking(r) \/ (job[r].pc = "walking" /\ job[r].at = Len(Walk))
  \/ (Locking(r) /\ \A q \in Runs : ~WaitsFor(r, q)) \/ Writing(r) \/ Written(r)

\* A task never leaves the walk.
InWalk(j) ==
  /\ j.pc \in Stages /\ j.at \in 0 .. Len(Walk)
  /\ j.pc \in {"storing", "graphing"} => j.at < Len(Walk)

StageInv == GraphInv /\ \A r \in Runs : InWalk(job[r])

LEMMA OwnStage ==
  ASSUME StageInv, GraphInv', NEW r \in Runs, NEW j, job' = [job EXCEPT ![r] = j], InWalk(j)
  PROVE  StageInv'
BY DEF StageInv, GraphInv

LEMMA ProgressInWalk ==
  ASSUME StageInv, GraphInv', NEW r \in Runs, Progress(r)
  PROVE  StageInv'
<1> USE DEF InWalk, Stages
<1> DEFINE j == job[r]
<1>0. /\ InWalk(j) /\ DOMAIN j = DOMAIN Idle /\ DOMAIN job = Runs
      /\ "pc" \in DOMAIN j /\ "at" \in DOMAIN j /\ Len(Walk) \in Nat
  BY IndexAssumption, LenProperties DEF StageInv, GraphInv, RunInv, Idle
<1>1. CASE ClearChunks(r) \/ ClearGraphs(r) \/ Ensured(r)
  <2>1. PICK to \in {"clearing_graphs", "clearing_files", "indexed"} :
          job' = [job EXCEPT ![r] = [j EXCEPT !.pc = to]]
    BY <1>1 DEF ClearChunks, ClearGraphs, Ensured, Step
  <2>2. InWalk([j EXCEPT !.pc = to])
    BY <1>0
  <2> QED BY <2>1, <2>2, OwnStage
<1>2. CASE ClearFiles(r)
  <2>1. InWalk([Idle EXCEPT !.pc = "walking", !.id = job[r].id])
    BY <1>0 DEF Idle
  <2> QED BY <1>2, <2>1, OwnStage DEF ClearFiles
<1>3. CASE Filter(r) \/ SnapshotFails(r) \/ WorkerFails(r)
  <2>1. /\ j.pc = "walking" /\ j.at < Len(Walk)
        /\ job' = [job EXCEPT ![r] = [j EXCEPT !.at = @ + 1, !.id = @ + 1]]
    BY <1>3 DEF Filter, SnapshotFails, WorkerFails, Walking, PassOver
  <2>2. InWalk([j EXCEPT !.at = @ + 1, !.id = @ + 1])
    BY <1>0, <2>1
  <2> QED BY <2>1, <2>2, OwnStage
<1>4. CASE TakeFile(r)
  <2>1. PICK text : job' = [job EXCEPT ![r] = [j EXCEPT !.pc = "storing", !.id = @ + 1,
                              !.text = text, !.tx = Begun, !.retries = 0]]
    <3>1. PICK text :
            job' = [job EXCEPT ![r].pc = "storing", ![r].id = @ + 1, ![r].text = text,
                               ![r].tx = Begun, ![r].retries = 0]
      BY <1>4 DEF TakeFile
    <3> QED BY <1>0, <3>1
  <2>2. j.at < Len(Walk)
    BY <1>4 DEF TakeFile, Walking
  <2>3. InWalk([j EXCEPT !.pc = "storing", !.id = @ + 1, !.text = text, !.tx = Begun,
                         !.retries = 0])
    BY <1>0, <2>2
  <2> QED BY <2>1, <2>3, OwnStage
<1>5. CASE InsertBlob(r) \/ InsertChunk(r)
  <2>1. PICK tx : job' = [job EXCEPT ![r] = [j EXCEPT !.tx = tx]]
    <3>1. CASE InsertBlob(r)
      <4> DEFINE tx == [j.tx EXCEPT !.locked = Append(@, NextBlob(r))]
      <4>1. job' = [job EXCEPT ![r] = [j EXCEPT !.tx = tx]]
        BY <3>1 DEF InsertBlob
      <4> QED BY <4>1
    <3>2. CASE InsertChunk(r)
      <4> DEFINE tx == [j.tx EXCEPT !.rows = Append(@, <<job[r].id, job[r].tx.next>>),
                                    !.next = @ + 1]
      <4>1. job' = [job EXCEPT ![r] = [j EXCEPT !.tx = tx]]
        BY <3>2 DEF InsertChunk
      <4> QED BY <4>1
    <3> QED BY <1>5, <3>1, <3>2
  <2>2. InWalk([j EXCEPT !.tx = tx])
    BY <1>0
  <2> QED BY <2>1, <2>2, OwnStage
<1>6. CASE Commit(r)
  <2>1. /\ j.pc = "storing"
        /\ job' = [job EXCEPT ![r] = [j EXCEPT !.pc = "graphing", !.tx = Begun]]
    BY <1>6 DEF Commit, Written
  <2>2. InWalk([j EXCEPT !.pc = "graphing", !.tx = Begun])
    BY <1>0, <2>1
  <2> QED BY <2>1, <2>2, OwnStage
<1>7. CASE SaveGraph(r)
  <2>1. /\ j.pc = "graphing"
        /\ job' = [job EXCEPT ![r] = [j EXCEPT !.pc = "walking", !.at = @ + 1, !.text = <<>>]]
    BY <1>7 DEF SaveGraph
  <2>2. InWalk([j EXCEPT !.pc = "walking", !.at = @ + 1, !.text = <<>>])
    BY <1>0, <2>1
  <2> QED BY <2>1, <2>2, OwnStage
<1>8. CASE CloseIndex(r)
  <2>1. PICK to \in {"stopped", "ensuring"} : job' = [job EXCEPT ![r] = [j EXCEPT !.pc = to]]
    BY <1>8 DEF CloseIndex
  <2>2. InWalk([j EXCEPT !.pc = to])
    BY <1>0
  <2> QED BY <2>1, <2>2, OwnStage
<1>9. CASE EnsureGraph(r)
  BY <1>9 DEF EnsureGraph, StageInv
<1> QED BY <1>1, <1>2, <1>3, <1>4, <1>5, <1>6, <1>7, <1>8, <1>9 DEF Progress

LEMMA StageStep == StageInv /\ [Next]_vars => StageInv'
<1> SUFFICES ASSUME StageInv, [Next]_vars PROVE StageInv'
  OBVIOUS
<1>0. GraphInv'
  BY GraphStep DEF StageInv
<1>1. CASE UNCHANGED vars \/ CollectBlobs
  BY <1>0, <1>1 DEF vars, CollectBlobs, StageInv
<1>2. ASSUME NEW r \in Runs, \/ Start(r) \/ Conflict(r) \/ CommitLost(r) \/ Stop(r)
                             \/ DeleteRun(r)
      PROVE  StageInv'
  <2> USE DEF InWalk, Stages
  <2> DEFINE j == job[r]
  <2>0. /\ InWalk(j) /\ DOMAIN j = DOMAIN Idle /\ DOMAIN job = Runs
        /\ "pc" \in DOMAIN j /\ "at" \in DOMAIN j /\ Len(Walk) \in Nat
    BY IndexAssumption, LenProperties DEF StageInv, GraphInv, RunInv, Idle
  <2>1. CASE Start(r)
    <3>1. PICK to \in {"ensuring", "clearing_chunks"} :
            job' = [job EXCEPT ![r] = [j EXCEPT !.pc = to]]
      BY <2>1 DEF Start, Step
    <3>2. InWalk([j EXCEPT !.pc = to])
      BY <2>0
    <3> QED BY <1>0, <3>1, <3>2, OwnStage
  <2>2. CASE Conflict(r)
    <3>1. PICK k : k = Conflicted(j)
      OBVIOUS
    <3>2. k.pc \in {j.pc, "stopped"} /\ k.at = j.at
      BY <2>0, <3>1 DEF Conflicted
    <3>3. InWalk(k)
      BY <2>0, <3>2
    <3> QED BY <1>0, <2>2, <3>1, <3>3, OwnStage DEF Conflict
  <2>3. CASE CommitLost(r) \/ Stop(r)
    <3>1. job' = [job EXCEPT ![r] = [j EXCEPT !.pc = "stopped", !.tx = Begun]]
      BY <2>3 DEF CommitLost, Stop
    <3>2. InWalk([j EXCEPT !.pc = "stopped", !.tx = Begun])
      BY <2>0
    <3> QED BY <1>0, <3>1, <3>2, OwnStage
  <2>4. CASE DeleteRun(r)
    <3>1. InWalk([Idle EXCEPT !.id = job[r].id])
      BY <2>0 DEF Idle
    <3> QED BY <1>0, <2>4, <3>1, OwnStage DEF DeleteRun
  <2> QED BY <1>2, <2>1, <2>2, <2>3, <2>4
<1> QED BY <1>0, <1>1, <1>2, ProgressInWalk DEF Next

\* Whoever is waited for has a transaction open.
LEMMA WaitedForIndexes ==
  ASSUME IndexInv, NEW r \in Runs, NEW q \in Runs, WaitsFor(r, q)
  PROVE  job[q].pc = "storing"
<1>1. Range(job[q].tx.locked) # {}
  BY DEF WaitsFor, Fresh
<1>2. job[q].tx # Begun
  BY <1>1, EmptyRange DEF Begun
<1> QED BY <1>2 DEF IndexInv, RowsKnown, JobKnown

\* source.rs, persist_chunks: while any run indexes, one of them has a step of its own
\* to take, whoever else holds which passage.
THEOREM SomeRunGoesOn == Spec => [](~Quiet => \E r \in Runs : GoesOn(r))
<1>1. ASSUME IndexInv, StageInv, NoCircularWait, ~Quiet
      PROVE  \E r \in Runs : GoesOn(r)
  <2> DEFINE active == {r \in Runs : job[r].pc \notin {"stopped", "indexed"}}
  <2>1. active \in (SUBSET Runs) \ {{}}
    BY <1>1 DEF Quiet
  <2>2. PICK r \in active : \A q \in active : ~WaitsFor(r, q)
    BY <1>1, <2>1 DEF NoCircularWait
  <2>3. \A q \in Runs : ~WaitsFor(r, q)
    BY <1>1, <2>2, WaitedForIndexes
  <2>4. InWalk(job[r]) /\ Len(Walk) \in Nat
    BY <1>1, <2>2, IndexAssumption, LenProperties DEF StageInv
  <2>5. CASE job[r].pc = "storing"
    BY <2>2, <2>3, <2>5 DEF GoesOn, Written
  <2>6. CASE job[r].pc = "walking"
    BY <2>2, <2>4, <2>6 DEF GoesOn, Walking, InWalk
  <2>7. CASE job[r].pc \notin {"storing", "walking"}
    BY <2>2, <2>4, <2>7 DEF GoesOn, InWalk, Stages
  <2> QED BY <2>2, <2>5, <2>6, <2>7
<1>2. Init => StageInv
  BY InitialGraphs, IndexAssumption, LenProperties DEF Init, StageInv, InWalk, Idle, Stages
<1>3. Spec => []IndexInv
  BY InitialIndex, IndexStep, PTL DEF Spec
<1>4. Spec => []StageInv
  BY <1>2, StageStep, PTL DEF Spec
<1>5. IndexInv /\ StageInv /\ NoCircularWait => (~Quiet => \E r \in Runs : GoesOn(r))
  BY <1>1
<1> QED BY <1>3, <1>4, <1>5, NoCircle, PTL
=============================================================================
