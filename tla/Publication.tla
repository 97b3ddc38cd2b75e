---------------------------- MODULE Publication ----------------------------
(***************************************************************************)
(* The document a run leaves behind: publish.rs save, commit and recover,  *)
(* with the places that tell a run which contents it may overwrite (api.rs *)
(* start and resume_run, composition.rs revise_inner).                     *)
(*                                                                         *)
(* Runs write one target file; each has a conflict copy beside it.  The    *)
(* contents of a file are a number, 0 for no file: equal numbers have      *)
(* equal hashes.  People edit the files at any moment.  RunLifecycle is    *)
(* the detailed account of registration, cancellation and settings; here   *)
(* an attempt is registered or not, at most one for the target, and a      *)
(* crash stands for a graceful shutdown too: both leave a row that the     *)
(* next start takes up.                                                    *)
(***************************************************************************)
EXTENDS Naturals, Sequences, SequencesExt

CONSTANTS
  Runs,        \* run ids; each also names its conflict copy
  Target,      \* the path all the runs write
  NoJournal,   \* publications/{id}.json does not exist
  MaxEdits,    \* bound: edits by people or other programs
  MaxStarts,   \* bound: starts, resumptions and revisions by users
  MaxStops,    \* bound: process deaths
  MaxFaults    \* bound: failed database statements

ASSUME PublicationAssumption ==
  /\ Target \notin Runs
  /\ MaxEdits \in Nat /\ MaxStarts \in Nat /\ MaxStops \in Nat /\ MaxFaults \in Nat

VARIABLES
  proc,       \* "down", "starting" (recover has not run) or "up"
  file,       \* contents of the target and of the conflict copies
  fresh,      \* the next contents nobody has written yet
  original,   \* snapshot.original_hash: what the run takes the target to hold
  document,   \* the document the run's checkpoints last assembled to
  stage,      \* where the run's attempt stands, "idle" when not registered
  existing,   \* save's first hash of the target
  journal,    \* publications/{id}.json
  saves,      \* publication ids given to the run so far
  artifacts,  \* the run's rows of the artifacts table, oldest first
  status,     \* runs.status
  sweep,      \* "off", "publications" or "runs": phase of the running sweep
  todo,       \* journals, then runs, the sweep has still to handle
  written,    \* documents the run put on disk, oldest first
  late,       \* runs whose target was edited after save's second hash of it
  touched,    \* files people changed since start-up recovery began
  edits, starts, stops, faults   \* counters of the bounds

content == <<file, fresh>>
history == <<written, late, touched>>
sweeping == <<proc, sweep, todo>>
bounds  == <<edits, starts, stops, faults>>
vars == <<content, original, document, stage, existing, journal, saves,
          artifacts, status, sweeping, history, bounds>>

Paths     == Runs \cup {Target}
\* "active" is queued, running or interrupted; "warned" completed_with_warnings;
\* "db_failed" failed with DB_UNAVAILABLE; "stopped" every other failed,
\* cancelled or awaiting status.
Completed == {"completed", "warned"}
Stage     == {"idle", "looking", "working", "journalled", "checked", "replaced",
              "committed", "reconciling"}
Status    == {"none", "active", "stopped", "db_failed"} \cup Completed

DbOk    == UNCHANGED faults
DbFault == faults < MaxFaults /\ faults' = faults + 1

Init ==
  /\ proc = "up"
  /\ file = [p \in Paths |-> 0] /\ fresh = 1
  /\ original = [r \in Runs |-> 0]
  /\ document = [r \in Runs |-> 0]
  /\ stage = [r \in Runs |-> "idle"]
  /\ existing = [r \in Runs |-> 0]
  /\ journal = [r \in Runs |-> NoJournal]
  /\ saves = [r \in Runs |-> 0]
  /\ artifacts = [r \in Runs |-> <<>>]
  /\ status = [r \in Runs |-> "none"]
  /\ sweep = "off" /\ todo = {}
  /\ written = [r \in Runs |-> <<>>]
  /\ late = {} /\ touched = {}
  /\ edits = 0 /\ starts = 0 /\ stops = 0 /\ faults = 0

-----------------------------------------------------------------------------
(* Users: what a new attempt is told about the target. *)

Registered == {r \in Runs : stage[r] \notin {"idle", "looking"}}

\* enqueue admits no second run of a path (RunLifecycle!OneWriterPerTarget).
Free == Registered = {}

\* The lifecycle permit: one start, resumption, revision or sweep at a time.
Permit == proc = "up" /\ sweep = "off" /\ \A r \in Runs : stage[r] # "looking"

\* The statement that queues the run and stores its snapshot.
Queue(r, known) ==
  /\ status' = [status EXCEPT ![r] = "active"]
  /\ original' = [original EXCEPT ![r] = known]

\* enqueue, and the start of the worker.
Enqueue(r, known) ==
  Free /\ DbOk /\ Queue(r, known) /\ stage' = [stage EXCEPT ![r] = "working"]

\* The statement is applied but its answer is lost: nobody works on the run.
QueueUnknown(r, known) ==
  Free /\ DbFault /\ Queue(r, known) /\ stage' = [stage EXCEPT ![r] = "idle"]

\* The path is busy, or the statement fails.
Refused == (~Free /\ DbOk) \/ (Free /\ DbFault)

\* The contents recorded by the newest artifact, if the run has one.
Recorded(r) == IF artifacts[r] = <<>> THEN original[r] ELSE Last(artifacts[r]).doc

\* start hashes the target before enqueue sees whether the path is free.
LookAtTarget(r) ==
  /\ Permit /\ status[r] = "none" /\ starts < MaxStarts
  /\ original' = [original EXCEPT ![r] = file[Target]]
  /\ stage' = [stage EXCEPT ![r] = "looking"]
  /\ starts' = starts + 1
  /\ UNCHANGED <<content, document, existing, journal, saves, artifacts, status,
                 sweeping, history, edits, stops, faults>>

\* A refused start leaves no run.
StartRun(r) ==
  /\ stage[r] = "looking"
  /\ \/ Enqueue(r, original[r]) \/ QueueUnknown(r, original[r])
     \/ /\ Refused /\ stage' = [stage EXCEPT ![r] = "idle"]
        /\ UNCHANGED <<status, original>>
  /\ UNCHANGED <<content, document, existing, journal, saves, artifacts, sweeping,
                 history, edits, starts, stops>>

\* resume_run and continue_outline: only a warned run takes its own newest
\* artifact for the target's expected contents. A refusal changes nothing.
ResumeRun(r) ==
  /\ Permit /\ starts < MaxStarts
  /\ status[r] \in {"stopped", "db_failed", "warned"}
  /\ LET known == IF status[r] = "warned" THEN Recorded(r) ELSE original[r]
     IN Enqueue(r, known) \/ QueueUnknown(r, known)
  /\ starts' = starts + 1
  /\ UNCHANGED <<content, document, existing, journal, saves, artifacts, sweeping,
                 history, edits, stops>>

\* revise_inner: any inactive run, completed ones too. The edit's transaction
\* stores the new snapshot, and stays when enqueue refuses.
ReviseRun(r) ==
  /\ Permit /\ starts < MaxStarts
  /\ stage[r] = "idle" /\ status[r] # "none"
  /\ \/ Enqueue(r, Recorded(r)) \/ QueueUnknown(r, Recorded(r))
     \/ /\ Refused /\ UNCHANGED stage
        /\ status' = [status EXCEPT ![r] = "stopped"]
        /\ original' = [original EXCEPT ![r] = Recorded(r)]
  /\ starts' = starts + 1
  /\ UNCHANGED <<content, document, existing, journal, saves, artifacts, sweeping,
                 history, edits, stops>>

\* Somebody writes, deletes, or copies a file: new contents, none, or a conflict
\* copy accepted as the target.
EditFile(p) ==
  /\ edits < MaxEdits /\ edits' = edits + 1
  /\ \E c \in {0, fresh} \cup {file[r] : r \in Runs} :
       /\ c # file[p]
       /\ file' = [file EXCEPT ![p] = c]
       /\ fresh' = IF c = fresh THEN fresh + 1 ELSE fresh
  /\ late' = IF p = Target THEN late \cup {r \in Runs : stage[r] = "checked"}
                           ELSE late
  /\ touched' = IF proc = "starting" THEN touched \cup {p} ELSE touched
  /\ UNCHANGED <<original, document, stage, existing, journal, saves, artifacts,
                 status, sweeping, written, starts, stops, faults>>

-----------------------------------------------------------------------------
(* The worker: save and commit (publish.rs 27-119). *)

\* The attempt ends; its status is recorded unless the row is a completed one.
Ended(r, outcome) ==
  /\ stage' = [stage EXCEPT ![r] = "idle"]
  /\ status' = [status EXCEPT ![r] = IF @ \in Completed THEN @ ELSE outcome]

\* Mutant: a publication is identified by its run.
PublicationIdOfRun(r) == 1

PublicationId(r) == saves[r] + 1

ConflictCopy(r) == r

\* save's first part. The sections assemble to the document of an earlier attempt
\* or to a new one; a target that is not what the run was told is left alone.
PrepareSave(r) ==
  /\ stage[r] = "working"
  /\ existing' = [existing EXCEPT ![r] = file[Target]]
  /\ \E d \in {document[r], fresh} \ {0}, unresolved \in BOOLEAN :
       LET path == IF file[Target] = original[r] THEN Target ELSE ConflictCopy(r)
       IN /\ document' = [document EXCEPT ![r] = d]
          /\ fresh' = IF d = fresh THEN fresh + 1 ELSE fresh
          /\ journal' = [journal EXCEPT ![r] =
               [id |-> PublicationId(r), path |-> path, doc |-> d,
                status |-> IF unresolved \/ path # Target THEN "warned" ELSE "completed"]]
  /\ saves' = [saves EXCEPT ![r] = @ + 1]
  /\ stage' = [stage EXCEPT ![r] = "journalled"]
  /\ UNCHANGED <<file, original, artifacts, status, sweeping, history, bounds>>

\* Mutant: the target is not hashed a second time.
UnchangedAlways(r) == TRUE

\* The second hash, under the gate. A conflict copy is not looked at.
TargetUnchanged(r) == journal[r].path = Target => file[Target] = existing[r]

\* The gate's checks. Nothing waits between them and the replacement, but other
\* programs do not stop for it. A changed target fails the attempt.
CheckTarget(r) ==
  /\ stage[r] = "journalled"
  /\ IF TargetUnchanged(r)
       THEN stage' = [stage EXCEPT ![r] = "checked"] /\ UNCHANGED status
       ELSE Ended(r, "stopped")
  /\ late' = late \ {r}
  /\ UNCHANGED <<content, original, document, existing, journal, saves, artifacts,
                 sweeping, written, touched, bounds>>

ReplaceFile(r) ==
  /\ stage[r] = "checked"
  /\ file' = [file EXCEPT ![journal[r].path] = journal[r].doc]
  /\ written' = [written EXCEPT ![r] = Append(@, journal[r].doc)]
  /\ stage' = [stage EXCEPT ![r] = "replaced"]
  /\ UNCHANGED <<fresh, original, document, existing, journal, saves, artifacts,
                 status, sweeping, late, touched, bounds>>

\* commit's transaction: INSERT IGNORE of the artifact, and the status.
Apply(r) ==
  /\ artifacts' = IF \E i \in DOMAIN artifacts[r] : artifacts[r][i].id = journal[r].id
                    THEN artifacts
                    ELSE [artifacts EXCEPT ![r] =
                            Append(@, [id |-> journal[r].id, doc |-> journal[r].doc])]
  /\ status' = [status EXCEPT ![r] = journal[r].status]

CommitPublication(r) ==
  /\ stage[r] = "replaced" /\ DbOk
  /\ Apply(r)
  /\ stage' = [stage EXCEPT ![r] = "committed"]
  /\ UNCHANGED <<content, original, document, existing, journal, saves, sweeping,
                 history, edits, starts, stops>>

\* The commit's answer is lost, to a fault or to the run's deadline: it may have
\* been applied. execute's failure leads to recover_run.
CommitUnknown(r) ==
  /\ stage[r] = "replaced" /\ (DbOk \/ DbFault)
  /\ Apply(r) \/ UNCHANGED <<artifacts, status>>
  /\ stage' = [stage EXCEPT ![r] = "reconciling"]
  /\ UNCHANGED <<content, original, document, existing, journal, saves, sweeping,
                 history, edits, starts, stops>>

\* The same fault under publish_partial, whose failure nobody recovers; a
\* partial document always has warnings.
PartialCommitFails(r) ==
  /\ stage[r] = "replaced" /\ journal[r].status = "warned" /\ DbFault
  /\ \/ Ended(r, "db_failed") /\ UNCHANGED artifacts
     \/ Apply(r) /\ stage' = [stage EXCEPT ![r] = "idle"]
  /\ UNCHANGED <<content, original, document, existing, journal, saves, sweeping,
                 history, edits, starts, stops>>

\* save removes the journal; the deadline may still come first.
FinishSave(r) ==
  /\ stage[r] = "committed"
  /\ \/ stage' = [stage EXCEPT ![r] = "idle"]
     \/ stage' = [stage EXCEPT ![r] = "reconciling"]
  /\ journal' = [journal EXCEPT ![r] = NoJournal]
  /\ UNCHANGED <<content, original, document, existing, saves, artifacts, status,
                 sweeping, history, bounds>>

\* The pipeline or save fails, or the run is cancelled, before the replacement.
AttemptFails(r) ==
  /\ \/ /\ stage[r] \in {"working", "journalled", "checked"} /\ DbOk
        /\ Ended(r, "stopped")
     \/ stage[r] = "working" /\ DbFault /\ Ended(r, "db_failed")
  /\ UNCHANGED <<content, original, document, existing, journal, saves, artifacts,
                 sweeping, history, edits, starts, stops>>

-----------------------------------------------------------------------------
(* Reconciliation: recover_publication (publish.rs 148-158). *)

\* Mutant: a journal is committed whatever the file holds.
OnDiskAlways(r) == TRUE

\* The file still holds what the journal says was put there.
OnDisk(r) == file[journal[r].path] = journal[r].doc

\* Commit again and drop the journal, or keep it and fail the run.
Reconcile(r) ==
  IF OnDisk(r)
    THEN Apply(r) /\ journal' = [journal EXCEPT ![r] = NoJournal]
    ELSE /\ status' = [status EXCEPT ![r] = IF @ \in Completed THEN @ ELSE "stopped"]
         /\ UNCHANGED <<artifacts, journal>>

\* recover_run, by the worker whose execute failed after the replacement; without
\* a journal there is nothing left to do. A fault may hide an applied commit.
RecoverRun(r) ==
  /\ stage[r] = "reconciling"
  /\ \/ /\ DbOk /\ stage' = [stage EXCEPT ![r] = "idle"]
        /\ IF journal[r] = NoJournal THEN UNCHANGED <<artifacts, status, journal>>
                                     ELSE Reconcile(r)
     \/ /\ journal[r] # NoJournal /\ DbFault /\ UNCHANGED journal
        /\ \/ Ended(r, "db_failed") /\ UNCHANGED artifacts
           \/ OnDisk(r) /\ Apply(r) /\ stage' = [stage EXCEPT ![r] = "idle"]
  /\ UNCHANGED <<content, original, document, existing, saves, sweeping, history,
                 edits, starts, stops>>

-----------------------------------------------------------------------------
(* Sweeps: recover at the start or on reconnection, reconnect_runs later. *)

\* Mutant: recover passes over the journals of runs that are not active.
ActiveJournals == {r \in Runs : journal[r] # NoJournal /\ status[r] = "active"}

Holding(s) == {r \in Runs : status[r] = s}
Journals   == {r \in Runs : journal[r] # NoJournal}

\* publish::recover is skipped by reconnect_runs while any run is registered.
BeginSweep ==
  /\ proc \in {"starting", "up"} /\ sweep = "off"
  /\ \A r \in Runs : stage[r] # "looking"
  /\ IF Free THEN sweep' = "publications" /\ todo' = Journals
             ELSE sweep' = "runs" /\ todo' = Holding("db_failed")
  /\ touched' = {}
  /\ UNCHANGED <<proc, content, original, document, stage, existing, journal, saves,
                 artifacts, status, written, late, bounds>>

SweepPublication(r) ==
  /\ sweep = "publications" /\ r \in todo /\ DbOk
  /\ Reconcile(r)
  /\ todo' = todo \ {r}
  /\ UNCHANGED <<proc, sweep, content, original, document, stage, existing, saves,
                 history, edits, starts, stops>>

\* A fault ends the sweep. At the start it ends the process, or, on the first
\* connection of a process that started without one, leaves it serving.
SweepFails ==
  /\ sweep # "off" /\ DbFault
  /\ \/ UNCHANGED <<artifacts, status>>
     \/ \E r \in todo : sweep = "publications" /\ OnDisk(r) /\ Apply(r)
  /\ sweep' = "off" /\ todo' = {}
  /\ proc' \in IF proc = "starting" THEN {"down", "up"} ELSE {"up"}
  /\ stage' = IF proc' = "down" THEN [r \in Runs |-> "idle"] ELSE stage
  /\ UNCHANGED <<content, original, document, existing, journal, saves, history,
                 edits, starts, stops>>

\* Mutant: unfinished runs are resumed before their journals are reconciled.
PublicationsDoneAlways == TRUE

PublicationsDone == todo = {}

SelectRuns ==
  /\ sweep = "publications" /\ PublicationsDone
  /\ sweep' = "runs"
  /\ todo' = Holding(IF proc = "starting" THEN "active" ELSE "db_failed")
  /\ UNCHANGED <<proc, content, original, document, stage, existing, journal, saves,
                 artifacts, status, history, bounds>>

\* recover fails a run that enqueue refuses; reconnect_runs tries again later.
SweepRun(r) ==
  /\ sweep = "runs" /\ r \in todo
  /\ \/ Enqueue(r, original[r])
     \/ proc = "up" /\ QueueUnknown(r, original[r])
     \/ /\ Refused /\ UNCHANGED <<stage, original>>
        /\ status' = IF proc = "starting"
                       THEN [status EXCEPT ![r] = "stopped"] ELSE status
  /\ todo' = todo \ {r}
  /\ UNCHANGED <<proc, sweep, content, document, existing, journal, saves,
                 artifacts, history, edits, starts, stops>>

EndSweep ==
  /\ sweep = "runs" /\ todo = {}
  /\ sweep' = "off" /\ proc' = "up"
  /\ UNCHANGED <<todo, content, original, document, stage, existing, journal, saves,
                 artifacts, status, history, bounds>>

-----------------------------------------------------------------------------
(* The process. *)

Crash ==
  /\ proc # "down" /\ stops < MaxStops
  /\ stops' = stops + 1
  /\ proc' = "down" /\ sweep' = "off" /\ todo' = {}
  /\ stage' = [r \in Runs |-> "idle"]
  /\ UNCHANGED <<content, original, document, existing, journal, saves, artifacts,
                 status, history, edits, starts, faults>>

\* Without a database the process serves without having recovered: a settings
\* save brings the connection later.
Restart ==
  /\ proc = "down"
  /\ \/ proc' = "starting" /\ DbOk
     \/ proc' = "up" /\ DbFault
  /\ UNCHANGED <<sweep, todo, content, original, document, stage, existing, journal,
                 saves, artifacts, status, history, edits, starts, stops>>

-----------------------------------------------------------------------------
UserStep(r) == LookAtTarget(r) \/ ResumeRun(r) \/ ReviseRun(r)

WorkerStep(r) ==
  \/ StartRun(r) \/ PrepareSave(r) \/ CheckTarget(r) \/ ReplaceFile(r)
  \/ CommitPublication(r) \/ CommitUnknown(r) \/ PartialCommitFails(r)
  \/ FinishSave(r) \/ AttemptFails(r) \/ RecoverRun(r)

SweepStep ==
  \/ BeginSweep \/ SelectRuns \/ EndSweep \/ SweepFails
  \/ \E r \in Runs : SweepPublication(r) \/ SweepRun(r)

Next ==
  \/ \E r \in Runs : UserStep(r) \/ WorkerStep(r)
  \/ \E p \in Paths : EditFile(p)
  \/ SweepStep \/ Crash \/ Restart

\* The runtime runs tasks that are ready, the supervisor's timer fires, and a
\* stopped service is started again. Users and editors promise nothing.
Fairness ==
  /\ \A r \in Runs : WF_vars(WorkerStep(r))
  /\ WF_vars(SweepStep) /\ WF_vars(Restart)

Spec     == Init /\ [][Next]_vars
FairSpec == Spec /\ Fairness

-----------------------------------------------------------------------------
(* Properties. *)

\* What publish.rs Publication serializes, and a row of the artifacts table.
Journal  == [id : Nat, path : Paths, doc : Nat, status : Completed]
Artifact == [id : Nat, doc : Nat]

ASSUME JournalAssumption == NoJournal \notin Journal

\* Every variable keeps its type (Publication and RunSnapshot fields).
TypeOK ==
  /\ proc \in {"down", "starting", "up"}
  /\ file \in [Paths -> Nat] /\ fresh \in Nat
  /\ original \in [Runs -> Nat] /\ document \in [Runs -> Nat]
  /\ existing \in [Runs -> Nat] /\ saves \in [Runs -> Nat]
  /\ stage \in [Runs -> Stage]
  /\ journal \in [Runs -> Journal \cup {NoJournal}]
  /\ \A r \in Runs : journal[r] # NoJournal => journal[r].path \in {Target, r}
  /\ artifacts \in [Runs -> Seq(Artifact)]
  /\ status \in [Runs -> Status]
  /\ sweep \in {"off", "publications", "runs"} /\ todo \subseteq Runs
  /\ written \in [Runs -> Seq(Nat)] /\ late \subseteq Runs /\ touched \subseteq Paths
  /\ edits \in 0..MaxEdits /\ starts \in 0..MaxStarts
  /\ stops \in 0..MaxStops /\ faults \in 0..MaxFaults

\* A run never replaces target contents it was not told about, whoever put them
\* there: the one exception is an edit between the gate's second hash and the
\* replacement, which no check can see (publish.rs 3-5, 76-92).
KnownOverwritten ==
  [][\A r \in Runs :
       (stage[r] = "checked" /\ stage'[r] = "replaced" /\ journal[r].path = Target)
         => file[Target] = original[r] \/ r \in late]_vars

\* Every recorded document was on disk at some time: no journal of a save that
\* never replaced its file is committed (recover_publication's hash).
ArtifactsWereWritten ==
  \A r \in Runs : \A i \in DOMAIN artifacts[r] :
    \E j \in DOMAIN written[r] : written[r][j] = artifacts[r][i].doc

\* A completed run's newest artifact, whose hash the next attempt trusts, is the
\* document the run put on disk last (commit, resume_run, revise_inner).
CompletedIsRecorded ==
  \A r \in Runs : status[r] \in Completed =>
    /\ artifacts[r] # <<>> /\ written[r] # <<>>
    /\ Last(artifacts[r]).doc = Last(written[r])

Unrecorded(r) ==
  /\ journal[r] # NoJournal /\ OnDisk(r) /\ journal[r].doc \in Range(written[r])
  /\ \A i \in DOMAIN artifacts[r] : artifacts[r][i].id # journal[r].id

\* When start-up recovery takes a run up again, no document that run published
\* is still missing from the table, unless somebody put it back into its file
\* while the recovery was going on (recover: publications before runs).
RecoveredBeforeResumed ==
  [][\A r \in Runs :
       (proc = "starting" /\ stage[r] = "idle" /\ stage'[r] = "working")
         => ~Unrecorded(r) \/ journal[r].path \in touched]_vars

\* A published document nobody works on is eventually recorded, unless its file
\* changes or its run is started again (publish::recover in both sweeps).
PublishedIsSettled ==
  \A r \in Runs : (Unrecorded(r) /\ stage[r] = "idle")
                    ~> (~Unrecorded(r) \/ stage[r] # "idle")

\* A run takes the target for changed externally only when it holds something
\* other than the document the run put there last (publish.rs 41).
ConflictIsExternal ==
  [][\A r \in Runs :
       (stage[r] = "working" /\ stage'[r] = "journalled" /\ journal'[r].path = r
          /\ written[r] # <<>>)
         => file[Target] # Last(written[r])]_vars
=============================================================================
