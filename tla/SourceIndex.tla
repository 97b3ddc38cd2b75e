---------------------------- MODULE SourceIndex ----------------------------
(***************************************************************************)
(* How runs store the source they document: source.rs index, snapshot_file *)
(* and persist_chunks, graph.rs save and ensure.  Runs index side by side: *)
(* each has its own files, chunks and graphs, but the text of a passage is *)
(* a blob shared by all of them.  A blob is its hash, a number; a file's   *)
(* text is the sequence of its passages' blobs, a file the sequence number *)
(* of its row.  The database's row locks and lock timeouts are modelled as *)
(* InnoDB behaves: INSERT IGNORE waits for the uncommitted insert of the   *)
(* same key, 1205 undoes only the statement, 1213 the transaction.         *)
(***************************************************************************)
EXTENDS Naturals, Sequences, FiniteSets, SequencesExt

CONSTANTS
  Runs,          \* runs that index at the same time
  Walk,          \* what the directory walk yields, in its order
  Texts,         \* Texts[f]: the texts file f may be read with
  Filtered,      \* files left out by builtin names, filters or as the target
  MaxConflicts,  \* persist_chunks gives a file this many retries (3)
  MaxStarts      \* bound: attempts, of all runs together

ASSUME IndexAssumption ==
  /\ IsFiniteSet(Runs) /\ Walk \in Seq(DOMAIN Texts) /\ Filtered \subseteq DOMAIN Texts
  /\ \A f \in DOMAIN Texts : Texts[f] \subseteq Seq(Nat)
  /\ MaxConflicts \in Nat /\ MaxStarts \in Nat

VARIABLES
  job,     \* each run's indexing task and its open transaction
  store,   \* each run's rows: files, chunks, graphs and checkpoints
  blobs,   \* chunk_blobs, committed
  starts   \* attempts so far, a bound

vars == <<job, store, blobs, starts>>

Stages == {"stopped", "clearing_chunks", "clearing_graphs", "clearing_files",
           "walking", "storing", "graphing", "ensuring", "indexed"}

Rows(r, status) == {row \in store[r].files : row.status = status}
Ids(r) == {row.id : row \in Rows(r, "indexed")}

-----------------------------------------------------------------------------
(* The transaction of one file. *)

Begun == [locked |-> <<>>, next |-> 1, rows |-> <<>>]

\* Mutant: shared blobs are inserted in the order of the file's passages.
InFileOrder(text) == text

\* ordered_by_hash: the order in which a file's shared blobs are inserted.
Place(text, k) ==
  Cardinality({j \in DOMAIN text : text[j] < text[k] \/ (text[j] = text[k] /\ j <= k)})
Ordered(text) == [i \in DOMAIN text |-> text[CHOOSE k \in DOMAIN text : Place(text, k) = i]]

\* Blobs a run has inserted and not yet committed: others wait for these.
Fresh(r) == Range(job[r].tx.locked) \ blobs

NextBlob(r) == Ordered(job[r].text)[Len(job[r].tx.locked) + 1]
Locking(r) == job[r].pc = "storing" /\ Len(job[r].tx.locked) < Len(job[r].text)
Writing(r) == /\ job[r].pc = "storing" /\ ~Locking(r)
              /\ job[r].tx.next <= Len(job[r].text)
Written(r) == job[r].pc = "storing" /\ ~Locking(r) /\ ~Writing(r)
WaitsFor(r, q) == q # r /\ Locking(r) /\ NextBlob(r) \in Fresh(q)

\* Mutant: after a lock timeout the transaction goes on, rows and all.
KeptOnConflict(tx) == [Begun EXCEPT !.rows = tx.rows]

\* What a conflict leaves of the transaction.
AfterConflict(tx) == Begun

\* Mutant: a conflict does not count as a retry.
ConflictUncounted(j) == [j EXCEPT !.tx = AfterConflict(j.tx)]

\* A conflict rolls the file back and starts it again, a few times.
Conflicted(j) ==
  IF j.retries < MaxConflicts
  THEN [j EXCEPT !.tx = AfterConflict(j.tx), !.retries = @ + 1]
  ELSE [j EXCEPT !.tx = Begun, !.pc = "stopped"]

-----------------------------------------------------------------------------
Idle == [pc |-> "stopped", at |-> 0, id |-> 0, text |-> <<>>, tx |-> Begun, retries |-> 0]
Empty == [files |-> {}, chunks |-> <<>>, graphs |-> {}, indexed |-> FALSE, version |-> FALSE]

\* A run indexed by a program that did not save graphs yet.
Old(text) == [Empty EXCEPT !.files = {[id |-> 1, status |-> "indexed", text |-> text]},
                           !.chunks = [i \in 1..Len(text) |-> <<1, i>>],
                           !.indexed = TRUE]

OldTexts == IF Walk = <<>> THEN {} ELSE Texts[Last(Walk)]

Init ==
  /\ job = [r \in Runs |-> Idle]
  /\ store \in [Runs -> {Empty} \cup {Old(t) : t \in OldTexts}]
  /\ blobs = UNION {Range(row.text) : row \in UNION {store[r].files : r \in Runs}}
  /\ starts = 0

Step(r, from, to) == job[r].pc = from /\ job' = [job EXCEPT ![r].pc = to]

\* An indexed run only has its graphs checked; any other starts from nothing.
Start(r) ==
  /\ starts < MaxStarts
  /\ Step(r, "stopped", IF store[r].indexed THEN "ensuring" ELSE "clearing_chunks")
  /\ starts' = starts + 1
  /\ UNCHANGED <<store, blobs>>

ClearChunks(r) ==
  /\ Step(r, "clearing_chunks", "clearing_graphs")
  /\ store' = [store EXCEPT ![r].chunks = <<>>]
  /\ UNCHANGED <<blobs, starts>>

\* Mutant: the graphs of an earlier attempt stay.
GraphsKept(s) == s

GraphsCleared(s) == [s EXCEPT !.graphs = {}, !.version = FALSE]

ClearGraphs(r) ==
  /\ Step(r, "clearing_graphs", "clearing_files")
  /\ store' = [store EXCEPT ![r] = GraphsCleared(@)]
  /\ UNCHANGED <<blobs, starts>>

ClearFiles(r) ==
  /\ job[r].pc = "clearing_files"
  /\ job' = [job EXCEPT ![r] = [Idle EXCEPT !.pc = "walking", !.id = job[r].id]]
  /\ store' = [store EXCEPT ![r].files = {}]
  /\ UNCHANGED <<blobs, starts>>

Current(r) == Walk[job[r].at + 1]
Walking(r) == job[r].pc = "walking" /\ job[r].at < Len(Walk)

\* A file that is not indexed leaves a row that says why.
PassOver(r, status) ==
  /\ job' = [job EXCEPT ![r].at = @ + 1, ![r].id = @ + 1]
  /\ store' = [store EXCEPT ![r].files =
                 @ \cup {[id |-> job[r].id + 1, status |-> status, text |-> <<>>]}]
  /\ UNCHANGED <<blobs, starts>>

Filter(r) == Walking(r) /\ Current(r) \in Filtered /\ PassOver(r, "excluded")

\* Too large, not text, outside the roots, or changed while read three times.
SnapshotFails(r) == Walking(r) /\ Current(r) \notin Filtered /\ PassOver(r, "unreadable")

\* The parser process fails, takes too long or writes too much.
WorkerFails(r) == Walking(r) /\ Current(r) \notin Filtered /\ PassOver(r, "unparsed")

\* The text of the snapshot is recorded before any passage is.
TakeFile(r) ==
  /\ Walking(r) /\ Current(r) \notin Filtered
  /\ \E text \in Texts[Current(r)] :
       /\ job' = [job EXCEPT ![r].pc = "storing", ![r].id = @ + 1, ![r].text = text,
                             ![r].tx = Begun, ![r].retries = 0]
       /\ store' = [store EXCEPT ![r].files =
                      @ \cup {[id |-> job[r].id + 1, status |-> "indexed", text |-> text]}]
  /\ UNCHANGED <<blobs, starts>>

InsertBlob(r) ==
  /\ Locking(r) /\ \A q \in Runs : ~WaitsFor(r, q)
  /\ job' = [job EXCEPT ![r].tx.locked = Append(@, NextBlob(r))]
  /\ UNCHANGED <<store, blobs, starts>>

InsertChunk(r) ==
  /\ Writing(r)
  /\ job' = [job EXCEPT ![r].tx.rows = Append(@, <<job[r].id, job[r].tx.next>>),
                        ![r].tx.next = @ + 1]
  /\ UNCHANGED <<store, blobs, starts>>

\* 1205 or 1213, from another run or from any other client of the database.
Conflict(r) ==
  /\ Locking(r) \/ Writing(r)
  /\ job' = [job EXCEPT ![r] = Conflicted(@)]
  /\ UNCHANGED <<store, blobs, starts>>

Stored(r) == /\ store' = [store EXCEPT ![r].chunks = @ \o job[r].tx.rows]
             /\ blobs' = blobs \cup Range(job[r].tx.locked)

Commit(r) ==
  /\ Written(r) /\ Stored(r)
  /\ job' = [job EXCEPT ![r].pc = "graphing", ![r].tx = Begun]
  /\ UNCHANGED starts

\* The answer to the commit is lost: the run fails, the rows may be there.
CommitLost(r) ==
  /\ Written(r) /\ Stored(r)
  /\ job' = [job EXCEPT ![r].pc = "stopped", ![r].tx = Begun]
  /\ UNCHANGED starts

SaveGraph(r) ==
  /\ job[r].pc = "graphing"
  /\ job' = [job EXCEPT ![r].pc = "walking", ![r].at = @ + 1, ![r].text = <<>>]
  /\ store' = [store EXCEPT ![r].graphs = @ \cup {job[r].id}]
  /\ UNCHANGED <<blobs, starts>>

\* With no readable file the run fails.
CloseIndex(r) ==
  /\ job[r].pc = "walking" /\ job[r].at = Len(Walk)
  /\ job' = [job EXCEPT ![r].pc = IF Ids(r) = {} THEN "stopped" ELSE "ensuring"]
  /\ store' = [store EXCEPT ![r].indexed = Ids(r) # {}]
  /\ UNCHANGED <<blobs, starts>>

\* Graphs an older program did not save come from the stored snapshots.
EnsureGraph(r) ==
  /\ job[r].pc = "ensuring" /\ ~store[r].version
  /\ \E id \in Ids(r) \ store[r].graphs :
       store' = [store EXCEPT ![r].graphs = @ \cup {id}]
  /\ UNCHANGED <<job, blobs, starts>>

Ensured(r) ==
  /\ Step(r, "ensuring", "indexed")
  /\ store[r].version \/ Ids(r) \subseteq store[r].graphs
  /\ store' = [store EXCEPT ![r].version = TRUE]
  /\ UNCHANGED <<blobs, starts>>

\* A crash, a cancellation, a failed statement: an open transaction is undone.
Stop(r) ==
  /\ job[r].pc \notin {"stopped", "indexed"}
  /\ job' = [job EXCEPT ![r].pc = "stopped", ![r].tx = Begun]
  /\ UNCHANGED <<store, blobs, starts>>

(* maintenance.rs, cleanup: under the lifecycle permit, while no run is registered. *)

Quiet == \A r \in Runs : job[r].pc \in {"stopped", "indexed"}

\* A run that ended long ago is deleted with its rows; its place is for a new one.
DeleteRun(r) ==
  /\ Quiet
  /\ store' = [store EXCEPT ![r] = Empty]
  /\ job' = [job EXCEPT ![r] = [Idle EXCEPT !.id = job[r].id]]
  /\ UNCHANGED <<blobs, starts>>

BlobOf(r, chunk) == (CHOOSE row \in store[r].files : row.id = chunk[1]).text[chunk[2]]
Referenced == UNION {{BlobOf(r, c) : c \in Range(store[r].chunks)} : r \in Runs}

\* Passages no run refers to any more.
CollectBlobs ==
  /\ Quiet /\ blobs' = blobs \cap Referenced
  /\ UNCHANGED <<job, store, starts>>

Progress(r) ==
  \/ ClearChunks(r) \/ ClearGraphs(r) \/ ClearFiles(r)
  \/ Filter(r) \/ SnapshotFails(r) \/ WorkerFails(r) \/ TakeFile(r)
  \/ InsertBlob(r) \/ InsertChunk(r) \/ Commit(r)
  \/ SaveGraph(r) \/ CloseIndex(r) \/ EnsureGraph(r) \/ Ensured(r)

Next ==
  \/ \E r \in Runs : \/ Start(r) \/ Progress(r) \/ Conflict(r) \/ CommitLost(r) \/ Stop(r)
                    \/ DeleteRun(r)
  \/ CollectBlobs

Spec == Init /\ [][Next]_vars
FairSpec == Spec /\ \A r \in Runs : WF_vars(Progress(r))

-----------------------------------------------------------------------------
\* What later stages read is whole: every passage of every indexed file is
\* stored exactly once, with its text, whatever was retried, interrupted or
\* started again before (source.rs, "no run-specific chunks are duplicated or
\* omitted").
ChunksOnce ==
  \A r \in Runs : store[r].indexed =>
    /\ IsInjective(store[r].chunks)
    /\ Range(store[r].chunks) =
         UNION {{row.id} \X DOMAIN row.text : row \in Rows(r, "indexed")}
    /\ \A row \in Rows(r, "indexed") : Range(row.text) \subseteq blobs

\* Runs never wait for each other's passages in a circle, of whatever length:
\* among any runs there is one that waits for none of them.
NoCircularWait ==
  \A some \in (SUBSET Runs) \ {{}} : \E r \in some : \A q \in some : ~WaitsFor(r, q)

\* graph::all reads every graph of the run by its key alone, so none of an
\* earlier attempt may be left when the graph is declared complete.
GraphsAreOfFiles == \A r \in Runs : store[r].version => store[r].graphs = Ids(r)

\* An attempt ends, whoever holds which passage.
IndexingEnds == \A r \in Runs : []<>(job[r].pc \in {"stopped", "indexed"})
=============================================================================
