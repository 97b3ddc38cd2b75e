------------------------- MODULE PublicationProofs -------------------------
(* Machine-checked proofs about Publication, for every set of runs and every *)
(* value of the bounds: its types, that a run never replaces contents of the *)
(* target it was not told about, that what it records was on disk, that a    *)
(* completed run has recorded the document it put there last, and that what  *)
(* a crash left unrecorded is recorded before the run is taken up again.     *)
EXTENDS Publication, TLAPS

USE DEF content, history, sweeping, bounds, DbOk, DbFault, Completed, Status,
        Stage, Paths

Saving    == {"journalled", "checked", "replaced"}
Attempts  == {"working", "committed", "reconciling"} \cup Saving

\* An attempt that is saving has its journal on disk, and so has every run a
\* publication sweep has still to handle.
JournalKept ==
  /\ \A r \in Runs : stage[r] \in Saving => journal[r] \in Journal
  /\ sweep = "publications" => \A r \in todo : journal[r] \in Journal

\* One attempt at a time, none beside a publication sweep, and no start in
\* progress beside any sweep: the permit and the registry keep them apart.
OneAttempt ==
  /\ \A r, s \in Runs : stage[r] \in Attempts /\ stage[s] \in Attempts => r = s
  /\ sweep = "publications" => \A r \in Runs : stage[r] \notin Attempts
  /\ sweep # "off" => \A r \in Runs : stage[r] # "looking"

\* The target was chosen because it held what the run was told, and still holds
\* it after the second hash unless somebody edited it since.
TargetKnown ==
  \A r \in Runs :
    /\ stage[r] \in {"journalled", "checked"} /\ journal[r].path = Target
         => existing[r] = original[r]
    /\ stage[r] = "checked" /\ journal[r].path = Target /\ r \notin late
         => file[Target] = existing[r]

-----------------------------------------------------------------------------
(* Type correctness, which rests on the journals. *)

LEMMA TypeInit == Init => TypeOK
BY PublicationAssumption DEF PublicationAssumption, Init, TypeOK

LEMMA BoundTypes ==
  ASSUME TypeOK
  PROVE  /\ DbOk \/ DbFault => faults' \in 0..MaxFaults
         /\ starts < MaxStarts /\ starts' = starts + 1 => starts' \in 0..MaxStarts
BY PublicationAssumption DEF PublicationAssumption, TypeOK

LEMMA RecordedType ==
  ASSUME TypeOK, NEW r \in Runs
  PROVE  Recorded(r) \in Nat
<1>1. original[r] \in Nat /\ artifacts[r] \in Seq(Artifact)
  BY DEF TypeOK
<1>2. CASE artifacts[r] # <<>>
  <2>1. Last(artifacts[r]) \in Artifact
    BY <1>1, <1>2 DEF Last
  <2>2. QED  BY <2>1, <1>2 DEF Recorded, Artifact
<1>3. QED  BY <1>1, <1>2 DEF Recorded

LEMMA ApplyTypes ==
  ASSUME TypeOK, NEW r \in Runs, journal[r] \in Journal, Apply(r)
  PROVE  /\ artifacts' \in [Runs -> Seq(Artifact)]
         /\ status' \in [Runs -> Status]
<1>1. [id |-> journal[r].id, doc |-> journal[r].doc] \in Artifact
  BY DEF Journal, Artifact
<1>2. artifacts' \in [Runs -> Seq(Artifact)]
  BY <1>1 DEF Apply, TypeOK
<1>3. status' \in [Runs -> Status]
  BY DEF Apply, TypeOK, Journal
<1>4. QED  BY <1>2, <1>3

LEMMA ReconcileTypes ==
  ASSUME TypeOK, NEW r \in Runs, journal[r] \in Journal, Reconcile(r)
  PROVE  /\ artifacts' \in [Runs -> Seq(Artifact)]
         /\ status' \in [Runs -> Status]
         /\ journal' = [journal EXCEPT ![r] = NoJournal] \/ journal' = journal
BY ApplyTypes DEF Reconcile, TypeOK

\* Reconciling r leaves the other journals, and a typed one for r or none.
LEMMA ReconcileJournals ==
  ASSUME TypeOK, NEW r \in Runs,
         journal' = [journal EXCEPT ![r] = NoJournal] \/ journal' = journal
  PROVE  /\ journal' \in [Runs -> Journal \cup {NoJournal}]
         /\ \A s \in Runs : journal'[s] # NoJournal => journal'[s].path \in {Target, s}
         /\ \A s \in Runs : s # r => journal'[s] = journal[s]
BY DEF TypeOK

LEMMA QueueTypes ==
  ASSUME TypeOK, NEW r \in Runs, NEW known \in Nat,
         Enqueue(r, known) \/ QueueUnknown(r, known)
  PROVE  /\ status' \in [Runs -> Status] /\ original' \in [Runs -> Nat]
         /\ stage' \in [Runs -> Stage]
         /\ faults' \in 0..MaxFaults
<1>1. Queue(r, known)
  BY DEF Enqueue, QueueUnknown
<1>2. status' \in [Runs -> Status]
  BY <1>1 DEF Queue, TypeOK
<1>3. original' \in [Runs -> Nat]
  BY <1>1 DEF Queue, TypeOK
<1>4. stage' \in [Runs -> Stage]
  BY DEF Enqueue, QueueUnknown, TypeOK
<1>5. faults' \in 0..MaxFaults
  BY BoundTypes DEF Enqueue, QueueUnknown
<1>6. QED  BY <1>2, <1>3, <1>4, <1>5

LEMMA RefusedTypes ==
  ASSUME TypeOK, Refused
  PROVE  faults' \in 0..MaxFaults
BY BoundTypes DEF Refused

LEMMA UserTypes ==
  ASSUME TypeOK, NEW r \in Runs, UserStep(r) \/ StartRun(r)
  PROVE  TypeOK'
<1> USE PublicationAssumption DEF PublicationAssumption
<1>1. CASE LookAtTarget(r)
  BY <1>1 DEF LookAtTarget, TypeOK
<1>2. CASE ResumeRun(r)
  <2>1. PICK known \in Nat : Enqueue(r, known) \/ QueueUnknown(r, known)
    BY <1>2, RecordedType DEF ResumeRun, TypeOK
  <2>2. starts' \in 0..MaxStarts
    BY <1>2, BoundTypes DEF ResumeRun
  <2>3. QED  BY <1>2, <2>1, <2>2, QueueTypes DEF ResumeRun, TypeOK
<1>3. CASE ReviseRun(r)
  <2>1. Recorded(r) \in Nat
    BY RecordedType
  <2>2. /\ status' \in [Runs -> Status] /\ original' \in [Runs -> Nat]
        /\ stage' \in [Runs -> Stage] /\ faults' \in 0..MaxFaults
    <3>1. CASE Enqueue(r, Recorded(r)) \/ QueueUnknown(r, Recorded(r))
      BY <2>1, <3>1, QueueTypes
    <3>2. CASE /\ Refused /\ UNCHANGED stage
               /\ status' = [status EXCEPT ![r] = "stopped"]
               /\ original' = [original EXCEPT ![r] = Recorded(r)]
      BY <2>1, <3>2, RefusedTypes DEF TypeOK
    <3>3. QED  BY <1>3, <3>1, <3>2 DEF ReviseRun
  <2>3. starts' \in 0..MaxStarts
    BY <1>3, BoundTypes DEF ReviseRun
  <2>4. QED  BY <1>3, <2>2, <2>3 DEF ReviseRun, TypeOK
<1>4. CASE StartRun(r)
  <2>1. original[r] \in Nat
    BY DEF TypeOK
  <2>2. /\ status' \in [Runs -> Status] /\ original' \in [Runs -> Nat]
        /\ stage' \in [Runs -> Stage] /\ faults' \in 0..MaxFaults
    BY <1>4, <2>1, QueueTypes, RefusedTypes DEF StartRun, TypeOK
  <2>3. QED  BY <1>4, <2>2 DEF StartRun, TypeOK
<1>5. QED  BY <1>1, <1>2, <1>3, <1>4 DEF UserStep

LEMMA EndedTypes ==
  ASSUME TypeOK, NEW r \in Runs, NEW outcome \in Status, Ended(r, outcome)
  PROVE  status' \in [Runs -> Status] /\ stage' \in [Runs -> Stage]
BY DEF Ended, TypeOK

\* The journal PrepareSave writes.
LEMMA PrepareJournal ==
  ASSUME TypeOK, NEW r \in Runs, PrepareSave(r)
  PROVE  /\ journal' \in [Runs -> Journal \cup {NoJournal}]
         /\ journal'[r] \in Journal /\ journal'[r].path \in {Target, r}
         /\ journal'[r].path = Target => file[Target] = original[r]
         /\ \A s \in Runs : s # r => journal'[s] = journal[s]
         /\ document' \in [Runs -> Nat] /\ fresh' \in Nat
<1>1. PICK d \in {document[r], fresh} \ {0}, unresolved \in BOOLEAN :
        LET path == IF file[Target] = original[r] THEN Target ELSE ConflictCopy(r)
        IN /\ document' = [document EXCEPT ![r] = d]
           /\ fresh' = IF d = fresh THEN fresh + 1 ELSE fresh
           /\ journal' = [journal EXCEPT ![r] =
                [id |-> PublicationId(r), path |-> path, doc |-> d,
                 status |-> IF unresolved \/ path # Target
                              THEN "warned" ELSE "completed"]]
  BY DEF PrepareSave
<1>2. d \in Nat /\ PublicationId(r) \in Nat
  BY DEF TypeOK, PublicationId
<1>3. journal'[r] \in Journal /\ journal'[r].path \in {Target, r}
  BY <1>1, <1>2 DEF Journal, ConflictCopy, TypeOK
<1>4. journal'[r].path = Target => file[Target] = original[r]
  BY <1>1, PublicationAssumption DEF PublicationAssumption, ConflictCopy, TypeOK
<1>5. journal' = [journal EXCEPT ![r] = journal'[r]]
  BY <1>1 DEF TypeOK
<1>6. document' \in [Runs -> Nat] /\ fresh' \in Nat
  BY <1>1, <1>2 DEF TypeOK
<1>7. QED  BY <1>3, <1>4, <1>5, <1>6 DEF TypeOK

LEMMA SaveTypes ==
  ASSUME TypeOK, JournalKept, NEW r \in Runs,
         PrepareSave(r) \/ CheckTarget(r) \/ ReplaceFile(r) \/ AttemptFails(r)
  PROVE  TypeOK'
<1> USE PublicationAssumption DEF PublicationAssumption
<1>1. CASE PrepareSave(r)
  <2>1. existing' \in [Runs -> Nat] /\ saves' \in [Runs -> Nat]
    BY <1>1 DEF PrepareSave, TypeOK
  <2>2. \A s \in Runs : journal'[s] # NoJournal => journal'[s].path \in {Target, s}
    BY <1>1, PrepareJournal DEF TypeOK
  <2>3. QED  BY <1>1, <2>1, <2>2, PrepareJournal DEF PrepareSave, TypeOK
<1>2. CASE CheckTarget(r)
  BY <1>2, EndedTypes DEF CheckTarget, TypeOK
<1>3. CASE ReplaceFile(r)
  <2>1. journal[r].path \in Paths /\ journal[r].doc \in Nat
    BY <1>3 DEF ReplaceFile, JournalKept, Saving, Journal
  <2>2. file' \in [Paths -> Nat] /\ written' \in [Runs -> Seq(Nat)]
    BY <1>3, <2>1 DEF ReplaceFile, TypeOK
  <2>3. QED  BY <1>3, <2>2 DEF ReplaceFile, TypeOK
<1>4. CASE AttemptFails(r)
  <2>1. faults' \in 0..MaxFaults
    BY <1>4, BoundTypes DEF AttemptFails
  <2>2. QED  BY <1>4, <2>1, EndedTypes DEF AttemptFails, TypeOK
<1>5. QED  BY <1>1, <1>2, <1>3, <1>4

LEMMA CommitTypes ==
  ASSUME TypeOK, JournalKept, NEW r \in Runs,
         \/ CommitPublication(r) \/ CommitUnknown(r) \/ PartialCommitFails(r)
         \/ FinishSave(r) \/ RecoverRun(r)
  PROVE  TypeOK'
<1> USE PublicationAssumption DEF PublicationAssumption
<1>1. stage[r] = "replaced" => journal[r] \in Journal
  BY DEF JournalKept, Saving
<1>2. CASE CommitPublication(r) \/ CommitUnknown(r)
  <2>1. artifacts' \in [Runs -> Seq(Artifact)] /\ status' \in [Runs -> Status]
    BY <1>1, <1>2, ApplyTypes DEF CommitPublication, CommitUnknown, TypeOK
  <2>2. stage' \in [Runs -> Stage]
    BY <1>2 DEF CommitPublication, CommitUnknown, TypeOK
  <2>3. faults' \in 0..MaxFaults
    BY <1>2, BoundTypes DEF CommitPublication, CommitUnknown
  <2>4. QED  BY <1>2, <2>1, <2>2, <2>3 DEF CommitPublication, CommitUnknown, TypeOK
<1>3. CASE PartialCommitFails(r)
  <2>1. artifacts' \in [Runs -> Seq(Artifact)] /\ status' \in [Runs -> Status]
    BY <1>1, <1>3, ApplyTypes, EndedTypes DEF PartialCommitFails, TypeOK
  <2>2. stage' \in [Runs -> Stage]
    BY <1>3 DEF PartialCommitFails, Ended, TypeOK
  <2>3. faults' \in 0..MaxFaults
    BY <1>3, BoundTypes DEF PartialCommitFails
  <2>4. QED  BY <1>3, <2>1, <2>2, <2>3 DEF PartialCommitFails, TypeOK
<1>4. CASE FinishSave(r)
  <2>1. journal' = [journal EXCEPT ![r] = NoJournal] /\ stage' \in [Runs -> Stage]
    BY <1>4 DEF FinishSave, TypeOK
  <2>2. QED  BY <1>4, <2>1, ReconcileJournals DEF FinishSave, TypeOK
<1>5. CASE RecoverRun(r)
  <2>1. /\ artifacts' \in [Runs -> Seq(Artifact)]
        /\ status' \in [Runs -> Status]
        /\ journal' = [journal EXCEPT ![r] = NoJournal] \/ journal' = journal
    BY <1>5, ApplyTypes, EndedTypes, ReconcileTypes DEF RecoverRun, TypeOK
  <2>2. stage' \in [Runs -> Stage]
    BY <1>5 DEF RecoverRun, Ended, TypeOK
  <2>3. faults' \in 0..MaxFaults
    BY <1>5, BoundTypes DEF RecoverRun
  <2>4. QED  BY <1>5, <2>1, <2>2, <2>3, ReconcileJournals DEF RecoverRun, TypeOK
<1>6. QED  BY <1>2, <1>3, <1>4, <1>5

LEMMA SweepTypes ==
  ASSUME TypeOK, JournalKept, SweepStep
  PROVE  TypeOK'
<1> USE PublicationAssumption DEF PublicationAssumption
<1>1. CASE BeginSweep \/ SelectRuns \/ EndSweep
  <2>1. /\ sweep' \in {"off", "publications", "runs"} /\ todo' \subseteq Runs
        /\ proc' \in {"down", "starting", "up"}
    BY <1>1
    DEF BeginSweep, SelectRuns, EndSweep, Journals, Holding, TypeOK
  <2>2. QED  BY <1>1, <2>1 DEF BeginSweep, SelectRuns, EndSweep, TypeOK
<1>2. CASE SweepFails
  <2>1. \A r \in todo : sweep = "publications" => journal[r] \in Journal
    BY DEF JournalKept
  <2>2. artifacts' \in [Runs -> Seq(Artifact)] /\ status' \in [Runs -> Status]
    BY <1>2, <2>1, ApplyTypes DEF SweepFails, TypeOK
  <2>3. /\ stage' \in [Runs -> Stage] /\ faults' \in 0..MaxFaults
        /\ proc' \in {"down", "starting", "up"}
    BY <1>2 DEF SweepFails, TypeOK
  <2>4. QED  BY <1>2, <2>2, <2>3 DEF SweepFails, TypeOK
<1>3. ASSUME NEW r \in Runs, SweepPublication(r)
      PROVE  TypeOK'
  <2>1. journal[r] \in Journal
    BY <1>3 DEF SweepPublication, JournalKept
  <2>2. QED
    BY <1>3, <2>1, ReconcileTypes, ReconcileJournals DEF SweepPublication, TypeOK
<1>4. ASSUME NEW r \in Runs, SweepRun(r)
      PROVE  TypeOK'
  <2>1. original[r] \in Nat
    BY DEF TypeOK
  <2>2. /\ status' \in [Runs -> Status] /\ original' \in [Runs -> Nat]
        /\ stage' \in [Runs -> Stage] /\ faults' \in 0..MaxFaults
    BY <1>4, <2>1, QueueTypes, RefusedTypes DEF SweepRun, TypeOK
  <2>3. QED  BY <1>4, <2>2 DEF SweepRun, TypeOK
<1>5. QED  BY <1>1, <1>2, <1>3, <1>4 DEF SweepStep

LEMMA OutsideTypes ==
  ASSUME TypeOK, Crash \/ Restart \/ \E p \in Paths : EditFile(p)
  PROVE  TypeOK'
<1> USE PublicationAssumption DEF PublicationAssumption
<1>1. CASE Crash
  BY <1>1 DEF Crash, TypeOK
<1>2. CASE Restart
  BY <1>2 DEF Restart, TypeOK
<1>3. ASSUME NEW p \in Paths, EditFile(p)
      PROVE  TypeOK'
  <2>1. /\ file' \in [Paths -> Nat] /\ fresh' \in Nat /\ late' \subseteq Runs
        /\ edits' \in 0..MaxEdits
    BY <1>3 DEF EditFile, TypeOK
  <2>2. QED  BY <1>3, <2>1 DEF EditFile, TypeOK
<1>4. QED  BY <1>1, <1>2, <1>3

LEMMA TypeStep ==
  ASSUME TypeOK, JournalKept, [Next]_vars
  PROVE  TypeOK'
<1>1. CASE UNCHANGED vars
  BY <1>1 DEF vars, TypeOK
<1>2. ASSUME NEW r \in Runs, UserStep(r) \/ WorkerStep(r)
      PROVE  TypeOK'
  BY <1>2, UserTypes, SaveTypes, CommitTypes DEF WorkerStep
<1>3. QED
  BY <1>1, <1>2, SweepTypes, OutsideTypes DEF Next
-----------------------------------------------------------------------------
(* One attempt at a time, and its journal. *)

Exclusive == JournalKept /\ OneAttempt

LEMMA ExclusiveInit == Init => Exclusive
BY DEF Init, Exclusive, JournalKept, OneAttempt, Saving, Attempts

\* A run becomes registered only when no other is.
LEMMA QueueExclusive ==
  ASSUME TypeOK, Exclusive, NEW r \in Runs, NEW known, sweep # "publications",
         Enqueue(r, known) \/ QueueUnknown(r, known),
         UNCHANGED <<journal, sweep>>
  PROVE  Exclusive'
<1>1. \A s \in Runs : stage[s] \notin Attempts
  BY DEF Enqueue, QueueUnknown, Free, Registered, TypeOK, Attempts, Saving
<1>2. \A s \in Runs : s # r => stage'[s] = stage[s]
  BY DEF Enqueue, QueueUnknown, TypeOK
<1>3. stage'[r] \in {"working", "idle"}
  BY DEF Enqueue, QueueUnknown, TypeOK
<1>4. QED
  BY <1>1, <1>2, <1>3
  DEF Exclusive, JournalKept, OneAttempt, Attempts, Saving

LEMMA UserExclusive ==
  ASSUME TypeOK, Exclusive, NEW r \in Runs, UserStep(r) \/ StartRun(r)
  PROVE  Exclusive'
<1>1. CASE LookAtTarget(r)
  <2>1. sweep = "off" /\ UNCHANGED <<journal, sweep, todo>>
    BY <1>1 DEF LookAtTarget, Permit
  <2>2. \A s \in Runs : stage'[s] = stage[s] \/ stage'[s] = "looking"
    BY <1>1 DEF LookAtTarget, TypeOK
  <2>3. QED
    BY <2>1, <2>2 DEF Exclusive, JournalKept, OneAttempt, Attempts, Saving
<1>2. CASE ResumeRun(r)
  <2>1. PICK known : Enqueue(r, known) \/ QueueUnknown(r, known)
    BY <1>2 DEF ResumeRun
  <2>2. QED  BY <1>2, <2>1, QueueExclusive DEF ResumeRun, Permit
<1>3. CASE ReviseRun(r)
  <2>1. sweep # "publications" /\ UNCHANGED <<journal, sweep, todo>>
    BY <1>3 DEF ReviseRun, Permit
  <2>2. CASE UNCHANGED stage
    BY <2>1, <2>2 DEF Exclusive, JournalKept, OneAttempt
  <2>3. QED  BY <1>3, <2>1, <2>2, QueueExclusive DEF ReviseRun
<1>4. CASE StartRun(r)
  <2>1. sweep = "off" /\ UNCHANGED <<journal, sweep, todo>>
    BY <1>4 DEF StartRun, Exclusive, OneAttempt
  <2>2. CASE stage' = [stage EXCEPT ![r] = "idle"]
    <3>1. \A s \in Runs : stage'[s] = stage[s] \/ stage'[s] = "idle"
      BY <2>2 DEF TypeOK
    <3>2. "idle" \notin Attempts /\ Saving \subseteq Attempts
      BY DEF Attempts, Saving
    <3>3. QED  BY <2>1, <3>1, <3>2 DEF Exclusive, JournalKept, OneAttempt
  <2>3. QED  BY <1>4, <2>1, <2>2, QueueExclusive DEF StartRun
<1>5. QED  BY <1>1, <1>2, <1>3, <1>4 DEF UserStep

\* A worker moves only its own run, from one registered stage to another or out,
\* and no publication sweep is running beside it.
LEMMA WorkerExclusive ==
  ASSUME TypeOK, Exclusive, NEW r \in Runs, stage[r] \in Attempts,
         NEW to \in Attempts \cup {"idle"}, stage' = [stage EXCEPT ![r] = to],
         to \in Saving => journal'[r] \in Journal,
         \A s \in Runs : s # r => journal'[s] = journal[s],
         UNCHANGED <<sweep, todo>>
  PROVE  Exclusive'
<1>1. sweep # "publications"
  BY DEF Exclusive, OneAttempt
<1>2. \A s \in Runs : s # r => stage'[s] = stage[s]
  BY DEF TypeOK
<1>3. stage'[r] = to
  BY DEF TypeOK
<1>4. QED
  BY <1>1, <1>2, <1>3
  DEF Exclusive, JournalKept, OneAttempt, Attempts, Saving

LEMMA SaveExclusive ==
  ASSUME TypeOK, Exclusive, NEW r \in Runs,
         PrepareSave(r) \/ CheckTarget(r) \/ ReplaceFile(r) \/ AttemptFails(r)
  PROVE  Exclusive'
<1> USE DEF Attempts, Saving
<1>1. CASE PrepareSave(r)
  BY <1>1, PrepareJournal, WorkerExclusive DEF PrepareSave
<1>2. stage[r] \in Saving => journal[r] \in Journal
  BY DEF Exclusive, JournalKept
<1>3. CASE CheckTarget(r)
  BY <1>2, <1>3, WorkerExclusive DEF CheckTarget, Ended
<1>4. CASE ReplaceFile(r)
  BY <1>2, <1>4, WorkerExclusive DEF ReplaceFile
<1>5. CASE AttemptFails(r)
  BY <1>5, WorkerExclusive DEF AttemptFails, Ended
<1>6. QED  BY <1>1, <1>3, <1>4, <1>5

LEMMA CommitExclusive ==
  ASSUME TypeOK, Exclusive, NEW r \in Runs,
         \/ CommitPublication(r) \/ CommitUnknown(r) \/ PartialCommitFails(r)
         \/ FinishSave(r) \/ RecoverRun(r)
  PROVE  Exclusive'
<1> USE DEF Attempts, Saving
<1>1. CASE CommitPublication(r) \/ CommitUnknown(r)
  BY <1>1, WorkerExclusive DEF CommitPublication, CommitUnknown
<1>2. CASE PartialCommitFails(r)
  BY <1>2, WorkerExclusive DEF PartialCommitFails, Ended
<1>3. CASE FinishSave(r)
  <2>1. \A s \in Runs : s # r => journal'[s] = journal[s]
    BY <1>3 DEF FinishSave, TypeOK
  <2>2. QED  BY <1>3, <2>1, WorkerExclusive DEF FinishSave
<1>4. CASE RecoverRun(r)
  <2>1. journal' = [journal EXCEPT ![r] = NoJournal] \/ journal' = journal
    BY <1>4 DEF RecoverRun, Reconcile
  <2>2. \A s \in Runs : s # r => journal'[s] = journal[s]
    BY <2>1 DEF TypeOK
  <2>3. stage[r] = "reconciling" /\ stage' = [stage EXCEPT ![r] = "idle"]
    BY <1>4 DEF RecoverRun, Ended
  <2>4. QED  BY <1>4, <2>2, <2>3, WorkerExclusive DEF RecoverRun
<1>5. QED  BY <1>1, <1>2, <1>3, <1>4

LEMMA SweepExclusive ==
  ASSUME TypeOK, Exclusive, SweepStep
  PROVE  Exclusive'
<1>1. CASE BeginSweep
  <2>1. Free => \A r \in Runs : stage[r] \notin Attempts
    BY DEF Free, Registered, TypeOK, Attempts, Saving
  <2>2. \A r \in Journals : journal[r] \in Journal
    BY DEF Journals, TypeOK
  <2>3. QED
    BY <1>1, <2>1, <2>2
    DEF BeginSweep, Exclusive, JournalKept, OneAttempt
<1>2. CASE SelectRuns \/ EndSweep
  BY <1>2 DEF SelectRuns, EndSweep, Exclusive, JournalKept, OneAttempt
<1>3. CASE SweepFails
  BY <1>3
  DEF SweepFails, Exclusive, JournalKept, OneAttempt, Attempts, Saving
<1>4. ASSUME NEW r \in Runs, SweepPublication(r)
      PROVE  Exclusive'
  <2>1. journal' = [journal EXCEPT ![r] = NoJournal] \/ journal' = journal
    BY <1>4 DEF SweepPublication, Reconcile
  <2>2. \A s \in Runs : s # r => journal'[s] = journal[s]
    BY <2>1 DEF TypeOK
  <2>3. todo \subseteq Runs
    BY DEF TypeOK
  <2>4. QED
    BY <1>4, <2>2, <2>3
    DEF SweepPublication, Exclusive, JournalKept, OneAttempt, Attempts, Saving
<1>5. ASSUME NEW r \in Runs, SweepRun(r)
      PROVE  Exclusive'
  <2>1. CASE UNCHANGED stage
    BY <1>5, <2>1 DEF SweepRun, Exclusive, JournalKept, OneAttempt
  <2>2. CASE Enqueue(r, original[r]) \/ QueueUnknown(r, original[r])
    <3>1. sweep # "publications" /\ UNCHANGED <<journal, sweep>>
      BY <1>5 DEF SweepRun
    <3>2. QED  BY <2>2, <3>1, QueueExclusive
  <2>3. QED  BY <1>5, <2>1, <2>2 DEF SweepRun
<1>6. QED  BY <1>1, <1>2, <1>3, <1>4, <1>5 DEF SweepStep

LEMMA ExclusiveStep ==
  ASSUME TypeOK, Exclusive, [Next]_vars
  PROVE  Exclusive'
<1>1. CASE UNCHANGED vars
  BY <1>1 DEF vars, Exclusive, JournalKept, OneAttempt
<1>2. ASSUME NEW r \in Runs, UserStep(r) \/ WorkerStep(r)
      PROVE  Exclusive'
  BY <1>2, UserExclusive, SaveExclusive, CommitExclusive DEF WorkerStep
<1>3. CASE Crash \/ Restart
  BY <1>3
  DEF Crash, Restart, Exclusive, JournalKept, OneAttempt, Attempts, Saving
<1>4. ASSUME NEW p \in Paths, EditFile(p)
      PROVE  Exclusive'
  BY <1>4 DEF EditFile, Exclusive, JournalKept, OneAttempt
<1>5. QED
  BY <1>1, <1>2, <1>3, <1>4, SweepExclusive DEF Next

\* Every variable keeps its type, for any number of runs.
THEOREM TypeCorrect == Spec => []TypeOK
<1>1. TypeOK /\ Exclusive /\ [Next]_vars => TypeOK' /\ Exclusive'
  BY TypeStep, ExclusiveStep DEF Exclusive
<1>2. QED  BY TypeInit, ExclusiveInit, <1>1, PTL DEF Spec
-----------------------------------------------------------------------------
(* What a run knows of the contents it replaces. *)

KnownInv == TypeOK /\ Exclusive /\ TargetKnown

LEMMA KnownInit == Init => TargetKnown
BY DEF Init, TargetKnown

\* A step that leaves the files, and what every saving run goes by, keeps it.
LEMMA KnownKept ==
  ASSUME TargetKnown, UNCHANGED <<file, existing, late>>,
         \A r \in Runs : stage'[r] \in {"journalled", "checked"} =>
           /\ stage'[r] = stage[r] /\ journal'[r] = journal[r]
           /\ original'[r] = original[r]
  PROVE  TargetKnown'
BY DEF TargetKnown

LEMMA UserKnown ==
  ASSUME KnownInv, NEW r \in Runs, UserStep(r) \/ StartRun(r)
  PROVE  TargetKnown'
<1>1. UNCHANGED <<file, existing, late, journal>>
  BY DEF UserStep, LookAtTarget, ResumeRun, ReviseRun, StartRun
<1>2. \A s \in Runs : s # r => stage'[s] = stage[s] /\ original'[s] = original[s]
  BY DEF UserStep, LookAtTarget, ResumeRun, ReviseRun, StartRun, Enqueue,
         QueueUnknown, Queue, KnownInv, TypeOK
<1>3. stage'[r] \in {"looking", "working", "idle"}
  BY DEF UserStep, LookAtTarget, ResumeRun, ReviseRun, StartRun, Enqueue,
         QueueUnknown, Queue, KnownInv, TypeOK
<1>4. QED  BY <1>1, <1>2, <1>3, KnownKept DEF KnownInv

LEMMA SaveKnown ==
  ASSUME KnownInv, NEW r \in Runs,
         PrepareSave(r) \/ CheckTarget(r) \/ ReplaceFile(r) \/ AttemptFails(r)
  PROVE  TargetKnown'
<1>1. \A s \in Runs : s # r => stage[s] \notin {"journalled", "checked"}
  BY DEF PrepareSave, CheckTarget, ReplaceFile, AttemptFails, KnownInv, Exclusive,
         OneAttempt, Attempts, Saving
<1>2. \A s \in Runs : s # r => stage'[s] = stage[s]
  BY DEF PrepareSave, CheckTarget, ReplaceFile, AttemptFails, Ended, KnownInv,
         TypeOK
<1>3. CASE PrepareSave(r)
  <2>1. journal'[r].path = Target => file[Target] = original[r]
    BY <1>3, PrepareJournal DEF KnownInv
  <2>2. stage'[r] = "journalled" /\ existing'[r] = file[Target]
    BY <1>3 DEF PrepareSave, KnownInv, TypeOK
  <2>3. UNCHANGED original
    BY <1>3 DEF PrepareSave
  <2>4. QED  BY <1>1, <1>2, <2>1, <2>2, <2>3 DEF TargetKnown
<1>4. CASE CheckTarget(r)
  <2>1. UNCHANGED <<file, original, existing, journal>> /\ r \notin late'
    BY <1>4 DEF CheckTarget
  <2>2. CASE TargetUnchanged(r)
    <3>1. stage[r] = "journalled" /\ stage'[r] = "checked"
      BY <1>4, <2>2 DEF CheckTarget, KnownInv, TypeOK
    <3>2. QED
      BY <1>1, <1>2, <2>1, <2>2, <3>1 DEF TargetUnchanged, TargetKnown, KnownInv
  <2>3. CASE ~TargetUnchanged(r)
    <3>1. stage'[r] = "idle"
      BY <1>4, <2>3 DEF CheckTarget, Ended, KnownInv, TypeOK
    <3>2. QED  BY <1>1, <1>2, <3>1 DEF TargetKnown
  <2>4. QED  BY <2>2, <2>3
<1>5. CASE ReplaceFile(r) \/ AttemptFails(r)
  <2>1. stage'[r] \in {"replaced", "idle"}
    BY <1>5 DEF ReplaceFile, AttemptFails, Ended, KnownInv, TypeOK
  <2>2. QED  BY <1>1, <1>2, <2>1 DEF TargetKnown
<1>6. QED  BY <1>3, <1>4, <1>5

LEMMA CommitKnown ==
  ASSUME KnownInv, NEW r \in Runs,
         \/ CommitPublication(r) \/ CommitUnknown(r) \/ PartialCommitFails(r)
         \/ FinishSave(r) \/ RecoverRun(r)
  PROVE  TargetKnown'
<1>1. \A s \in Runs : s # r => stage[s] \notin {"journalled", "checked"}
  BY DEF CommitPublication, CommitUnknown, PartialCommitFails, FinishSave,
         RecoverRun, KnownInv, Exclusive, OneAttempt, Attempts, Saving
<1>2. \A s \in Runs : s # r => stage'[s] = stage[s]
  BY DEF CommitPublication, CommitUnknown, PartialCommitFails, FinishSave,
         RecoverRun, Ended, KnownInv, TypeOK
<1>3. stage'[r] \in {"committed", "reconciling", "idle"}
  BY DEF CommitPublication, CommitUnknown, PartialCommitFails, FinishSave,
         RecoverRun, Ended, KnownInv, TypeOK
<1>4. QED  BY <1>1, <1>2, <1>3 DEF TargetKnown

LEMMA SweepKnown ==
  ASSUME KnownInv, SweepStep
  PROVE  TargetKnown'
<1>1. UNCHANGED <<file, existing, late>>
  BY DEF SweepStep, BeginSweep, SelectRuns, EndSweep, SweepFails,
         SweepPublication, SweepRun
<1>2. CASE BeginSweep \/ SelectRuns \/ EndSweep
  BY <1>1, <1>2, KnownKept DEF BeginSweep, SelectRuns, EndSweep, KnownInv
<1>3. CASE SweepFails
  <2>1. UNCHANGED <<journal, original>>
    BY <1>3 DEF SweepFails
  <2>2. \A r \in Runs : stage'[r] = stage[r] \/ stage'[r] = "idle"
    BY <1>3 DEF SweepFails
  <2>3. QED  BY <1>1, <2>1, <2>2, KnownKept DEF KnownInv
<1>4. ASSUME NEW r \in Runs, SweepPublication(r)
      PROVE  TargetKnown'
  <2>1. \A s \in Runs : stage'[s] \notin {"journalled", "checked"}
    BY <1>4
    DEF SweepPublication, KnownInv, Exclusive, OneAttempt, Attempts, Saving
  <2>2. QED  BY <2>1 DEF TargetKnown
<1>5. ASSUME NEW r \in Runs, SweepRun(r)
      PROVE  TargetKnown'
  <2>1. UNCHANGED journal
    BY <1>5 DEF SweepRun
  <2>2. \A s \in Runs : s # r => stage'[s] = stage[s] /\ original'[s] = original[s]
    BY <1>5 DEF SweepRun, Enqueue, QueueUnknown, Queue, KnownInv, TypeOK
  <2>3. stage'[r] \in {"working", "idle"}
          \/ (stage'[r] = stage[r] /\ original'[r] = original[r])
    BY <1>5 DEF SweepRun, Enqueue, QueueUnknown, Queue, KnownInv, TypeOK
  <2>4. QED  BY <1>1, <2>1, <2>2, <2>3, KnownKept DEF KnownInv
<1>6. QED  BY <1>2, <1>3, <1>4, <1>5 DEF SweepStep

LEMMA OutsideKnown ==
  ASSUME KnownInv, Crash \/ Restart \/ \E p \in Paths : EditFile(p)
  PROVE  TargetKnown'
<1>1. CASE Crash \/ Restart
  BY <1>1, KnownKept DEF Crash, Restart, KnownInv
<1>2. ASSUME NEW p \in Paths, EditFile(p)
      PROVE  TargetKnown'
  <2>1. UNCHANGED <<stage, original, existing, journal>>
    BY <1>2 DEF EditFile
  <2>2. CASE p = Target
    <3>1. \A r \in Runs : stage[r] = "checked" => r \in late'
      BY <1>2, <2>2 DEF EditFile
    <3>2. QED  BY <2>1, <3>1 DEF TargetKnown, KnownInv
  <2>3. CASE p # Target
    <3>1. file'[Target] = file[Target] /\ late' = late
      BY <1>2, <2>3 DEF EditFile, KnownInv, TypeOK
    <3>2. QED  BY <2>1, <3>1 DEF TargetKnown, KnownInv
  <2>4. QED  BY <2>2, <2>3
<1>3. QED  BY <1>1, <1>2

LEMMA KnownStep ==
  ASSUME KnownInv, [Next]_vars
  PROVE  KnownInv'
<1>1. TypeOK' /\ Exclusive'
  BY TypeStep, ExclusiveStep DEF KnownInv, Exclusive
<1>2. ASSUME UNCHANGED vars
      PROVE  TargetKnown'
  BY <1>2, KnownKept DEF vars, KnownInv
<1>3. ASSUME NEW r \in Runs, UserStep(r) \/ WorkerStep(r)
      PROVE  TargetKnown'
  BY <1>3, UserKnown, SaveKnown, CommitKnown DEF WorkerStep
<1>4. TargetKnown'
  BY <1>2, <1>3, SweepKnown, OutsideKnown DEF Next
<1>5. QED  BY <1>1, <1>4 DEF KnownInv

\* No run ever replaces target contents it was not told about, unless they
\* appeared after its second hash, however many runs, edits and crashes.
THEOREM OverwritesKnown == Spec => KnownOverwritten
<1> DEFINE Known ==
      \A r \in Runs :
        (stage[r] = "checked" /\ stage'[r] = "replaced" /\ journal[r].path = Target)
          => file[Target] = original[r] \/ r \in late
<1>1. KnownInv => Known
  BY DEF KnownInv, TargetKnown
<1>2. Init => KnownInv
  BY TypeInit, ExclusiveInit, KnownInit DEF KnownInv
<1>3. KnownInv /\ [Next]_vars => KnownInv'
  BY KnownStep
<1>4. Spec => [][Known]_vars
  <2> HIDE DEF Known
  <2>1. QED  BY <1>1, <1>2, <1>3, PTL DEF Spec
<1>5. QED  BY <1>4 DEF KnownOverwritten
-----------------------------------------------------------------------------
(* What becomes an artifact was on disk. *)

WrittenBy(r) == {written[r][i] : i \in DOMAIN written[r]}

\* The documents a run may still be found to have published.
Docs(r) == {document[r], journal[r].doc} \ {0}
Drafts(r) == IF journal[r] = NoJournal THEN {document[r]} \ {0} ELSE Docs(r)

\* Documents are new when they are made and each is one run's; so one that is on
\* disk, wherever it was copied to, is there because its run wrote it.
DocumentsKnown ==
  /\ \A p \in Paths : file[p] < fresh
  /\ \A r \in Runs : \A d \in Drafts(r) : d < fresh
  /\ \A r, s \in Runs : r # s => Drafts(r) \cap Drafts(s) = {}
  /\ \A r \in Runs : \A d \in Drafts(r) : (\E p \in Paths : file[p] = d) => d \in WrittenBy(r)
  /\ \A r \in Runs : journal[r] # NoJournal => journal[r].doc # 0
  /\ \A r \in Runs : stage[r] = "replaced" => journal[r].doc \in WrittenBy(r)

WrittenInv == TypeOK /\ Exclusive /\ DocumentsKnown /\ ArtifactsWereWritten

LEMMA WrittenInit == Init => DocumentsKnown /\ ArtifactsWereWritten
<1> SUFFICES ASSUME Init PROVE DocumentsKnown /\ ArtifactsWereWritten
  OBVIOUS
<1>1. fresh = 1 /\ \A p \in Paths : file[p] = 0
  BY DEF Init
<1>2. \A r \in Runs : Drafts(r) = {} /\ journal[r] = NoJournal /\ stage[r] # "replaced"
  BY DEF Init, Drafts
<1>3. \A r \in Runs : artifacts[r] = <<>>
  BY DEF Init
<1>4. QED  BY <1>1, <1>2, <1>3 DEF DocumentsKnown, ArtifactsWereWritten

LEMMA ContentsOlder ==
  ASSUME WrittenInv
  PROVE  /\ \A p \in Paths : file[p] \in Nat /\ file[p] < fresh
         /\ \A s \in Runs : \A e \in Drafts(s) : e \in Nat /\ e < fresh
<1>1. \A p \in Paths : file[p] \in Nat
  BY DEF WrittenInv, TypeOK
<1>2. \A s \in Runs : document[s] \in Nat
  BY DEF WrittenInv, TypeOK
<1>3. \A s \in Runs : journal[s] # NoJournal => journal[s].doc \in Nat
  BY DEF WrittenInv, TypeOK, Journal
<1>4. \A s \in Runs : \A e \in Drafts(s) : e \in Nat
  BY <1>2, <1>3 DEF Drafts, Docs
<1>5. QED  BY <1>1, <1>4 DEF WrittenInv, DocumentsKnown

\* Most steps only forget journals.
LEMMA DocumentsKept ==
  ASSUME WrittenInv, UNCHANGED <<file, fresh, document, written>>,
         \A r \in Runs : journal'[r] = journal[r] \/ journal'[r] = NoJournal,
         \A r \in Runs : stage'[r] = "replaced" =>
           stage[r] = "replaced" /\ journal'[r] = journal[r]
  PROVE  DocumentsKnown'
<1>1. \A r \in Runs : Drafts(r)' \subseteq Drafts(r)
  BY DEF Drafts, Docs
<1>2. \A r \in Runs : WrittenBy(r)' = WrittenBy(r)
  BY DEF WrittenBy
<1>3. QED  BY <1>1, <1>2 DEF WrittenInv, DocumentsKnown

LEMMA ApplyWritten ==
  ASSUME WrittenInv, NEW r \in Runs, Apply(r), UNCHANGED written,
         journal[r].doc \in WrittenBy(r)
  PROVE  ArtifactsWereWritten'
<1>1. CASE artifacts' = artifacts
  BY <1>1 DEF WrittenInv, ArtifactsWereWritten
<1>2. CASE artifacts' = [artifacts EXCEPT ![r] =
                           Append(@, [id |-> journal[r].id, doc |-> journal[r].doc])]
  <2>1. artifacts[r] \in Seq(Artifact)
    BY DEF WrittenInv, TypeOK
  <2>2. ASSUME NEW i \in DOMAIN artifacts'[r]
        PROVE  \E j \in DOMAIN written[r] : written[r][j] = artifacts'[r][i].doc
    <3>1. artifacts'[r] = Append(artifacts[r], [id |-> journal[r].id, doc |-> journal[r].doc])
      BY <1>2 DEF WrittenInv, TypeOK
    <3>2. CASE i = Len(artifacts[r]) + 1
      <4>1. artifacts'[r][i].doc = journal[r].doc
        BY <2>1, <3>1, <3>2
      <4>2. QED  BY <4>1 DEF WrittenBy
    <3>3. CASE i \in DOMAIN artifacts[r]
      <4>1. artifacts'[r][i] = artifacts[r][i]
        BY <2>1, <3>1, <3>3
      <4>2. QED  BY <3>3, <4>1 DEF WrittenInv, ArtifactsWereWritten
    <3>4. i \in DOMAIN artifacts[r] \/ i = Len(artifacts[r]) + 1
      BY <2>1, <3>1
    <3>5. QED  BY <3>2, <3>3, <3>4
  <2>3. \A s \in Runs : s # r => artifacts'[s] = artifacts[s]
    BY <1>2 DEF WrittenInv, TypeOK
  <2>4. QED  BY <2>2, <2>3 DEF WrittenInv, ArtifactsWereWritten
<1>3. QED  BY <1>1, <1>2 DEF Apply

\* recover_publication's hash: what is on disk was written by its run.
LEMMA OnDiskIsWritten ==
  ASSUME WrittenInv, NEW r \in Runs, journal[r] # NoJournal, OnDisk(r)
  PROVE  journal[r].doc \in WrittenBy(r)
<1>1. journal[r] \in Journal
  BY DEF WrittenInv, TypeOK
<1>2. journal[r].path \in Paths /\ file[journal[r].path] = journal[r].doc
  BY <1>1 DEF OnDisk, Journal
<1>3. journal[r].doc \in Drafts(r)
  BY DEF Drafts, Docs, WrittenInv, DocumentsKnown
<1>4. QED  BY <1>2, <1>3 DEF WrittenInv, DocumentsKnown

LEMMA ReconcileWritten ==
  ASSUME WrittenInv, NEW r \in Runs, journal[r] # NoJournal, Reconcile(r), UNCHANGED written
  PROVE  /\ ArtifactsWereWritten'
         /\ \A s \in Runs : journal'[s] = journal[s] \/ journal'[s] = NoJournal
<1>1. ArtifactsWereWritten'
  <2>1. CASE OnDisk(r)
    BY <2>1, OnDiskIsWritten, ApplyWritten DEF Reconcile
  <2>2. CASE ~ OnDisk(r)
    BY <2>2 DEF Reconcile, WrittenInv, ArtifactsWereWritten
  <2>3. QED  BY <2>1, <2>2
<1>2. journal' = journal \/ journal' = [journal EXCEPT ![r] = NoJournal]
  BY DEF Reconcile
<1>3. QED  BY <1>1, <1>2 DEF WrittenInv, TypeOK

LEMMA UserWritten ==
  ASSUME WrittenInv, NEW r \in Runs, UserStep(r) \/ StartRun(r)
  PROVE  DocumentsKnown' /\ ArtifactsWereWritten'
<1>1. UNCHANGED <<file, fresh, document, written, journal, artifacts>>
  BY DEF UserStep, LookAtTarget, ResumeRun, ReviseRun, StartRun
<1>2. \A s \in Runs : stage'[s] = stage[s] \/ stage'[s] \in {"looking", "working", "idle"}
  BY DEF UserStep, LookAtTarget, ResumeRun, ReviseRun, StartRun, Enqueue,
         QueueUnknown, Queue, WrittenInv, TypeOK
<1>3. DocumentsKnown'
  BY <1>1, <1>2, DocumentsKept
<1>4. QED  BY <1>1, <1>3 DEF WrittenInv, ArtifactsWereWritten

LEMMA PrepareWritten ==
  ASSUME WrittenInv, NEW r \in Runs, PrepareSave(r)
  PROVE  DocumentsKnown' /\ ArtifactsWereWritten'
<1>1. PICK d \in {document[r], fresh} \ {0} :
        /\ document' = [document EXCEPT ![r] = d]
        /\ fresh' = IF d = fresh THEN fresh + 1 ELSE fresh
        /\ journal'[r].doc = d /\ journal'[r] \in Journal
        /\ \A s \in Runs : s # r => journal'[s] = journal[s]
  <2>1. PICK d \in {document[r], fresh} \ {0}, unresolved \in BOOLEAN :
          LET path == IF file[Target] = original[r] THEN Target ELSE ConflictCopy(r)
          IN /\ document' = [document EXCEPT ![r] = d]
             /\ fresh' = IF d = fresh THEN fresh + 1 ELSE fresh
             /\ journal' = [journal EXCEPT ![r] =
                  [id |-> PublicationId(r), path |-> path, doc |-> d,
                   status |-> IF unresolved \/ path # Target
                                THEN "warned" ELSE "completed"]]
    BY DEF PrepareSave
  <2>2. journal'[r].doc = d
    BY <2>1 DEF WrittenInv, TypeOK
  <2>3. journal'[r] \in Journal /\ \A s \in Runs : s # r => journal'[s] = journal[s]
    BY PrepareJournal DEF WrittenInv
  <2>4. QED  BY <2>1, <2>2, <2>3
<1>2. /\ UNCHANGED <<file, written, artifacts>>
      /\ \A s \in Runs : stage'[s] = "replaced" => s # r /\ stage[s] = "replaced"
  BY DEF PrepareSave, WrittenInv, TypeOK
<1>3. fresh \in Nat /\ fresh' \in Nat /\ fresh <= fresh' /\ d < fresh'
  <2>1. fresh \in Nat /\ document[r] \in Nat
    BY DEF WrittenInv, TypeOK
  <2>2. d = document[r] => d < fresh
    BY DEF Drafts, Docs, WrittenInv, DocumentsKnown
  <2>3. QED  BY <1>1, <2>1, <2>2
<1>4. Drafts(r)' \subseteq {d}
  BY <1>1 DEF Drafts, Docs, WrittenInv, TypeOK
<1>5. \A s \in Runs : s # r => Drafts(s)' = Drafts(s)
  BY <1>1 DEF Drafts, Docs, WrittenInv, TypeOK
<1>6. d \in Drafts(r) \/ d = fresh
  BY <1>1 DEF Drafts, Docs
<1>7. \A s \in Runs : WrittenBy(s)' = WrittenBy(s)
  BY <1>2 DEF WrittenBy
<1>8. /\ \A p \in Paths : file[p] \in Nat /\ file[p] < fresh
      /\ \A s \in Runs : \A e \in Drafts(s) : e \in Nat /\ e < fresh
  BY ContentsOlder
<1>9. \A p \in Paths : file[p] # fresh
  BY <1>3, <1>8
<1>10. \A s \in Runs : fresh \notin Drafts(s)
  BY <1>3, <1>8
<1>11. (\A p \in Paths : file[p] < fresh)'
  BY <1>2, <1>3, <1>8
<1>12. (\A s \in Runs : \A e \in Drafts(s) : e < fresh)'
  BY <1>3, <1>4, <1>5, <1>8
<1>13. (\A s, t \in Runs : s # t => Drafts(s) \cap Drafts(t) = {})'
  BY <1>4, <1>5, <1>6, <1>10 DEF WrittenInv, DocumentsKnown
<1>14. (\A s \in Runs : \A e \in Drafts(s) : (\E p \in Paths : file[p] = e) => e \in WrittenBy(s))'
  BY <1>2, <1>4, <1>5, <1>6, <1>7, <1>9 DEF WrittenInv, DocumentsKnown
<1>15. (\A s \in Runs : journal[s] # NoJournal => journal[s].doc # 0)'
  BY <1>1 DEF WrittenInv, DocumentsKnown
<1>16. (\A s \in Runs : stage[s] = "replaced" => journal[s].doc \in WrittenBy(s))'
  BY <1>1, <1>2, <1>7 DEF WrittenInv, DocumentsKnown
<1>17. ArtifactsWereWritten'
  BY <1>2 DEF WrittenInv, ArtifactsWereWritten
<1>18. QED  BY <1>11, <1>12, <1>13, <1>14, <1>15, <1>16, <1>17 DEF DocumentsKnown

LEMMA ReplaceWritten ==
  ASSUME WrittenInv, NEW r \in Runs, ReplaceFile(r)
  PROVE  DocumentsKnown' /\ ArtifactsWereWritten'
<1> DEFINE doc == journal[r].doc
<1>1. journal[r] \in Journal /\ journal[r] # NoJournal
  BY JournalAssumption DEF ReplaceFile, WrittenInv, Exclusive, JournalKept, Saving
<1>2. doc \in Nat /\ doc \in Drafts(r) /\ doc < fresh
  BY <1>1 DEF Drafts, Docs, WrittenInv, DocumentsKnown, Journal
<1>3. /\ UNCHANGED <<fresh, document, journal, artifacts>>
      /\ \A s \in Runs : Drafts(s)' = Drafts(s)
  BY DEF ReplaceFile, Drafts, Docs
<1>4. \A p \in Paths : file'[p] = file[p] \/ file'[p] = doc
  BY DEF ReplaceFile, WrittenInv, TypeOK
<1>5. written[r] \in Seq(Nat) /\ written'[r] = Append(written[r], doc)
      /\ \A s \in Runs : s # r => written'[s] = written[s]
  BY DEF ReplaceFile, WrittenInv, TypeOK
<1>6. \A s \in Runs : s # r => WrittenBy(s)' = WrittenBy(s)
  BY <1>5 DEF WrittenBy
<1>7. WrittenBy(r) \subseteq WrittenBy(r)' /\ doc \in WrittenBy(r)'
  <2>1. \A i \in DOMAIN written[r] : i \in DOMAIN written'[r] /\ written'[r][i] = written[r][i]
    BY <1>2, <1>5
  <2>2. Len(written[r]) + 1 \in DOMAIN written'[r] /\ written'[r][Len(written[r]) + 1] = doc
    BY <1>2, <1>5
  <2>3. QED  BY <2>1, <2>2 DEF WrittenBy
<1>8. (\A p \in Paths : file[p] < fresh)'
  BY <1>2, <1>3, <1>4 DEF WrittenInv, DocumentsKnown
<1>9. (\A s \in Runs : \A e \in Drafts(s) : (\E p \in Paths : file[p] = e) => e \in WrittenBy(s))'
  BY <1>2, <1>3, <1>4, <1>6, <1>7 DEF WrittenInv, DocumentsKnown
<1>10. (\A s \in Runs : stage[s] = "replaced" => journal[s].doc \in WrittenBy(s))'
  BY <1>3, <1>6, <1>7 DEF ReplaceFile, WrittenInv, DocumentsKnown, TypeOK
<1>11. ArtifactsWereWritten'
  <2>1. ASSUME NEW s \in Runs, NEW i \in DOMAIN artifacts[s]
        PROVE  artifacts[s][i].doc \in WrittenBy(s)'
    <3>1. artifacts[s][i].doc \in WrittenBy(s)
      BY DEF WrittenBy, WrittenInv, ArtifactsWereWritten
    <3>2. CASE s = r
      BY <1>7, <3>1, <3>2
    <3>3. CASE s # r
      BY <1>6, <3>1, <3>3
    <3>4. QED  BY <3>2, <3>3
  <2>2. QED  BY <2>1, <1>3 DEF WrittenBy, ArtifactsWereWritten
<1>12. QED
  BY <1>3, <1>8, <1>9, <1>10, <1>11 DEF WrittenInv, DocumentsKnown

\* Committing what was replaced; an attempt that ends; a sweep; the others.
LEMMA CommitWritten ==
  ASSUME WrittenInv, NEW r \in Runs,
         \/ CheckTarget(r) \/ CommitPublication(r) \/ CommitUnknown(r)
         \/ PartialCommitFails(r) \/ FinishSave(r) \/ AttemptFails(r) \/ RecoverRun(r)
  PROVE  DocumentsKnown' /\ ArtifactsWereWritten'
<1>1. UNCHANGED <<file, fresh, document, written>>
  BY DEF CheckTarget, CommitPublication, CommitUnknown, PartialCommitFails,
         FinishSave, AttemptFails, RecoverRun
<1>2. \A s \in Runs : stage'[s] = "replaced" => s # r /\ stage[s] = "replaced"
  BY DEF CheckTarget, CommitPublication, CommitUnknown, PartialCommitFails,
         FinishSave, AttemptFails, RecoverRun, Ended, WrittenInv, TypeOK
<1>3. /\ ArtifactsWereWritten'
      /\ \A s \in Runs : journal'[s] = journal[s] \/ journal'[s] = NoJournal
      /\ \A s \in Runs : s # r => journal'[s] = journal[s]
  <2>1. CASE UNCHANGED <<journal, artifacts>>
    BY <1>1, <2>1 DEF WrittenInv, ArtifactsWereWritten
  <2>2. CASE stage[r] = "replaced" /\ Apply(r) /\ UNCHANGED journal
    BY <1>1, <2>2, ApplyWritten DEF WrittenInv, DocumentsKnown
  <2>3. CASE FinishSave(r)
    BY <2>3 DEF FinishSave, WrittenInv, TypeOK, ArtifactsWereWritten
  <2>4. CASE RecoverRun(r) /\ journal[r] # NoJournal /\ Reconcile(r)
    <3>1. journal' = journal \/ journal' = [journal EXCEPT ![r] = NoJournal]
      BY <2>4 DEF Reconcile
    <3>2. QED  BY <1>1, <2>4, <3>1, ReconcileWritten DEF WrittenInv, TypeOK
  <2>5. CASE journal[r] # NoJournal /\ OnDisk(r) /\ Apply(r) /\ UNCHANGED journal
    BY <1>1, <2>5, OnDiskIsWritten, ApplyWritten
  <2>6. QED
    BY <2>1, <2>2, <2>3, <2>4, <2>5
    DEF CheckTarget, CommitPublication, CommitUnknown, PartialCommitFails, AttemptFails, RecoverRun
<1>4. QED  BY <1>1, <1>2, <1>3, DocumentsKept

LEMMA SweepWritten ==
  ASSUME WrittenInv, SweepStep
  PROVE  DocumentsKnown' /\ ArtifactsWereWritten'
<1>1. UNCHANGED <<file, fresh, document, written>>
  BY DEF SweepStep, BeginSweep, SelectRuns, EndSweep, SweepFails, SweepPublication, SweepRun
<1>2. \A s \in Runs : stage'[s] = "replaced" => stage[s] = "replaced"
  BY DEF SweepStep, BeginSweep, SelectRuns, EndSweep, SweepFails, SweepPublication, SweepRun,
         Enqueue, QueueUnknown, WrittenInv, TypeOK
<1>3. CASE UNCHANGED <<journal, artifacts>>
  BY <1>1, <1>2, <1>3, DocumentsKept DEF WrittenInv, ArtifactsWereWritten
<1>4. ASSUME NEW r \in Runs, SweepPublication(r)
      PROVE  DocumentsKnown' /\ ArtifactsWereWritten'
  <2>1. journal[r] # NoJournal
    BY <1>4, JournalAssumption DEF SweepPublication, WrittenInv, Exclusive, JournalKept
  <2>2. /\ ArtifactsWereWritten'
        /\ \A s \in Runs : journal'[s] = journal[s] \/ journal'[s] = NoJournal
    BY <1>1, <1>4, <2>1, ReconcileWritten DEF SweepPublication
  <2>3. \A s \in Runs : stage'[s] # "replaced"
    BY <1>4 DEF SweepPublication, WrittenInv, Exclusive, OneAttempt, Attempts, Saving
  <2>4. QED  BY <1>1, <2>2, <2>3, DocumentsKept
<1>5. ASSUME NEW r \in Runs, SweepFails, sweep = "publications", r \in todo, OnDisk(r), Apply(r)
      PROVE  DocumentsKnown' /\ ArtifactsWereWritten'
  <2>1. journal[r] # NoJournal
    BY <1>5, JournalAssumption DEF WrittenInv, Exclusive, JournalKept
  <2>2. ArtifactsWereWritten'
    BY <1>1, <1>5, <2>1, OnDiskIsWritten, ApplyWritten
  <2>3. UNCHANGED journal
    BY <1>5 DEF SweepFails
  <2>4. QED  BY <1>1, <1>2, <2>2, <2>3, DocumentsKept
<1>6. QED
  BY <1>3, <1>4, <1>5
  DEF SweepStep, BeginSweep, SelectRuns, EndSweep, SweepFails, SweepRun, WrittenInv, TypeOK

\* Whatever people write is new, or was in a file before.
LEMMA EditWritten ==
  ASSUME WrittenInv, NEW p \in Paths, EditFile(p)
  PROVE  DocumentsKnown' /\ ArtifactsWereWritten'
<1>1. UNCHANGED <<document, written, journal, artifacts, stage>>
  BY DEF EditFile
<1>2. PICK c \in {0, fresh} \cup {file[r] : r \in Runs} :
        /\ file' = [file EXCEPT ![p] = c]
        /\ fresh' = IF c = fresh THEN fresh + 1 ELSE fresh
  BY DEF EditFile
<1>3. fresh \in Nat /\ c \in Nat /\ (c < fresh \/ c = fresh)
  <2>1. fresh \in Nat /\ file[Target] \in Nat /\ file[Target] < fresh
    BY ContentsOlder DEF WrittenInv, TypeOK
  <2>2. \A q \in Paths : file[q] \in Nat /\ file[q] < fresh
    BY ContentsOlder
  <2>3. QED  BY <2>1, <2>2
<1>4. fresh' \in Nat /\ fresh <= fresh' /\ c < fresh'
  BY <1>2, <1>3
<1>5. \A q \in Paths : file'[q] = file[q] \/ file'[q] = c
  BY <1>2 DEF WrittenInv, TypeOK
<1>6. \A s \in Runs : Drafts(s)' = Drafts(s) /\ WrittenBy(s)' = WrittenBy(s)
  BY <1>1 DEF Drafts, Docs, WrittenBy
<1>7. \A s \in Runs : 0 \notin Drafts(s) /\ fresh \notin Drafts(s)
  BY <1>3, ContentsOlder DEF Drafts, Docs
<1>8. c = 0 \/ c = fresh \/ \E q \in Paths : file[q] = c
  BY <1>2
<1>9. (\A q \in Paths : file[q] < fresh)'
  BY <1>3, <1>4, <1>5, ContentsOlder
<1>10. (\A s \in Runs : \A e \in Drafts(s) : e < fresh)'
  BY <1>3, <1>4, <1>6, ContentsOlder
<1>11. (\A s \in Runs : \A e \in Drafts(s) : (\E q \in Paths : file[q] = e) => e \in WrittenBy(s))'
  BY <1>5, <1>6, <1>7, <1>8 DEF WrittenInv, DocumentsKnown
<1>12. (\A s, t \in Runs : s # t => Drafts(s) \cap Drafts(t) = {})'
  BY <1>6 DEF WrittenInv, DocumentsKnown
<1>13. (\A s \in Runs : stage[s] = "replaced" => journal[s].doc \in WrittenBy(s))'
  BY <1>1, <1>6 DEF WrittenInv, DocumentsKnown
<1>14. (\A s \in Runs : journal[s] # NoJournal => journal[s].doc # 0)' /\ ArtifactsWereWritten'
  BY <1>1 DEF WrittenInv, DocumentsKnown, ArtifactsWereWritten
<1>15. QED
  BY <1>9, <1>10, <1>11, <1>12, <1>13, <1>14 DEF DocumentsKnown

LEMMA WrittenStep == WrittenInv /\ [Next]_vars => DocumentsKnown' /\ ArtifactsWereWritten'
<1> SUFFICES ASSUME WrittenInv, [Next]_vars
             PROVE  DocumentsKnown' /\ ArtifactsWereWritten'
  OBVIOUS
<1>1. ASSUME NEW r \in Runs, UserStep(r) \/ WorkerStep(r)
      PROVE  DocumentsKnown' /\ ArtifactsWereWritten'
  BY <1>1, UserWritten, PrepareWritten, ReplaceWritten, CommitWritten DEF WorkerStep
<1>2. ASSUME NEW p \in Paths, EditFile(p)
      PROVE  DocumentsKnown' /\ ArtifactsWereWritten'
  BY <1>2, EditWritten
<1>3. CASE SweepStep
  BY <1>3, SweepWritten
<1>4. CASE Crash \/ Restart
  <2>1. UNCHANGED <<file, fresh, document, written, journal, artifacts>>
    BY <1>4 DEF Crash, Restart
  <2>2. \A s \in Runs : stage'[s] = "replaced" => stage[s] = "replaced"
    BY <1>4 DEF Crash, Restart, WrittenInv, TypeOK
  <2>3. QED  BY <2>1, <2>2, DocumentsKept DEF WrittenInv, ArtifactsWereWritten
<1>5. CASE UNCHANGED vars
  BY <1>5, DocumentsKept DEF vars, WrittenInv, ArtifactsWereWritten
<1>6. QED  BY <1>1, <1>2, <1>3, <1>4, <1>5 DEF Next

\* Every recorded document was on disk at some time (recover_publication
\* hashes the file before it commits a journal, publish.rs 148-158).
THEOREM ArtifactsOnDisk == Spec => []ArtifactsWereWritten
<1>1. Init => WrittenInv
  BY TypeInit, ExclusiveInit, WrittenInit DEF WrittenInv
<1>2. WrittenInv /\ [Next]_vars => WrittenInv'
  BY TypeStep, ExclusiveStep, WrittenStep DEF WrittenInv, Exclusive
<1>3. WrittenInv => ArtifactsWereWritten
  BY DEF WrittenInv
<1>4. QED
  <2> HIDE DEF WrittenInv
  <2>1. QED  BY <1>1, <1>2, <1>3, PTL DEF Spec
-----------------------------------------------------------------------------
(* What a completed run has recorded. *)

\* A publication has the id and the document of the last save, and a document is
\* not written again after another one.
SavesKnown ==
  \A r \in Runs :
    /\ journal[r] # NoJournal => journal[r].doc = document[r] /\ journal[r].id = saves[r]
    /\ \A d \in WrittenBy(r) : d < fresh
    /\ document[r] \in WrittenBy(r) => written[r] # <<>> /\ Last(written[r]) = document[r]

\* The id of the last save can only be the newest artifact's.
ArtifactsKnown ==
  \A r \in Runs : \A i \in DOMAIN artifacts[r] :
    /\ artifacts[r][i].id <= saves[r]
    /\ artifacts[r][i].id = saves[r] =>
         i = Len(artifacts[r]) /\ artifacts[r][i].doc = document[r]

\* An attempt that may still replace the target is not completed.
UnfinishedStatus ==
  \A r \in Runs : stage[r] \in Saving \cup {"working"} => status[r] \notin Completed

RecordedInv == WrittenInv /\ SavesKnown /\ ArtifactsKnown /\ UnfinishedStatus /\ CompletedIsRecorded

LEMMA RecordedInit == Init => SavesKnown /\ ArtifactsKnown /\ UnfinishedStatus /\ CompletedIsRecorded
BY DEF Init, SavesKnown, ArtifactsKnown, UnfinishedStatus, CompletedIsRecorded, WrittenBy, Saving

\* Steps that neither save, replace nor record.
LEMMA RecordedKept ==
  ASSUME RecordedInv, UNCHANGED <<document, written, saves, artifacts>>,
         fresh' \in Nat /\ fresh <= fresh',
         \A r \in Runs : journal'[r] = journal[r] \/ journal'[r] = NoJournal,
         \A r \in Runs : status'[r] \in Completed => status[r] \in Completed,
         \A r \in Runs : stage'[r] \in Saving \cup {"working"} =>
           stage[r] \in Saving \cup {"working"} \/ status'[r] \notin Completed
  PROVE  SavesKnown' /\ ArtifactsKnown' /\ UnfinishedStatus' /\ CompletedIsRecorded'
<1>1. \A r \in Runs : WrittenBy(r)' = WrittenBy(r)
  BY DEF WrittenBy
<1>2. fresh \in Nat /\ \A r \in Runs : \A d \in WrittenBy(r) : d \in Nat
  BY DEF RecordedInv, WrittenInv, TypeOK, WrittenBy
<1>3. SavesKnown'
  BY <1>1, <1>2 DEF RecordedInv, SavesKnown
<1>4. ArtifactsKnown' /\ UnfinishedStatus'
  BY DEF RecordedInv, ArtifactsKnown, UnfinishedStatus
<1>5. CompletedIsRecorded'
  BY DEF RecordedInv, CompletedIsRecorded
<1>6. QED  BY <1>3, <1>4, <1>5

LEMMA ApplyRecorded ==
  ASSUME RecordedInv, NEW r \in Runs, journal[r] # NoJournal, Apply(r),
         journal[r].doc \in WrittenBy(r), UNCHANGED <<document, written, saves, fresh>>,
         \A s \in Runs : journal'[s] = journal[s] \/ journal'[s] = NoJournal,
         stage'[r] \notin Saving \cup {"working"},
         \A s \in Runs : stage'[s] = stage[s] \/ stage'[s] = "idle" \/ s = r
  PROVE  SavesKnown' /\ ArtifactsKnown' /\ UnfinishedStatus' /\ CompletedIsRecorded'
<1> DEFINE row == [id |-> journal[r].id, doc |-> journal[r].doc]
<1>1. /\ artifacts[r] \in Seq(Artifact) /\ saves[r] \in Nat /\ row \in Artifact
      /\ row.id = saves[r] /\ row.doc = document[r]
      /\ written[r] # <<>> /\ Last(written[r]) = document[r]
  BY DEF RecordedInv, WrittenInv, TypeOK, SavesKnown, Journal, Artifact
<1>2. \A s \in Runs : s # r => artifacts'[s] = artifacts[s] /\ status'[s] = status[s]
  BY DEF Apply, RecordedInv, WrittenInv, TypeOK
<1>3. \/ artifacts'[r] = artifacts[r] /\ \E i \in DOMAIN artifacts[r] : artifacts[r][i].id = saves[r]
      \/ /\ artifacts'[r] = Append(artifacts[r], row)
         /\ \A i \in DOMAIN artifacts[r] : artifacts[r][i].id # saves[r]
  BY <1>1 DEF Apply, RecordedInv, WrittenInv, TypeOK
<1>4. /\ artifacts'[r] # <<>> /\ Last(artifacts'[r]).doc = document[r]
      /\ \A i \in DOMAIN artifacts'[r] :
           /\ artifacts'[r][i].id <= saves[r]
           /\ artifacts'[r][i].id = saves[r] =>
                i = Len(artifacts'[r]) /\ artifacts'[r][i].doc = document[r]
  <2>1. \A i \in DOMAIN artifacts[r] :
          /\ artifacts[r][i].id <= saves[r]
          /\ artifacts[r][i].id = saves[r] =>
               i = Len(artifacts[r]) /\ artifacts[r][i].doc = document[r]
    BY DEF RecordedInv, ArtifactsKnown
  <2>2. CASE artifacts'[r] = artifacts[r] /\ \E i \in DOMAIN artifacts[r] : artifacts[r][i].id = saves[r]
    BY <1>1, <2>1, <2>2 DEF Last
  <2>3. CASE /\ artifacts'[r] = Append(artifacts[r], row)
             /\ \A i \in DOMAIN artifacts[r] : artifacts[r][i].id # saves[r]
    <3>1. /\ DOMAIN artifacts'[r] = 1 .. Len(artifacts[r]) + 1
          /\ Len(artifacts'[r]) = Len(artifacts[r]) + 1
          /\ artifacts'[r][Len(artifacts[r]) + 1] = row
          /\ \A i \in DOMAIN artifacts[r] : artifacts'[r][i] = artifacts[r][i]
      BY <1>1, <2>3
    <3>2. artifacts'[r] # <<>> /\ Last(artifacts'[r]) = row
      BY <1>1, <3>1 DEF Last
    <3>3. QED  BY <1>1, <2>1, <2>3, <3>1, <3>2
  <2>4. QED  BY <1>3, <2>2, <2>3
<1>5. SavesKnown'
  <2>1. \A s \in Runs : WrittenBy(s)' = WrittenBy(s)
    BY DEF WrittenBy
  <2>2. QED  BY <2>1 DEF RecordedInv, SavesKnown
<1>6. ArtifactsKnown'
  BY <1>2, <1>4 DEF RecordedInv, ArtifactsKnown
<1>7. UnfinishedStatus'
  BY <1>2 DEF RecordedInv, UnfinishedStatus, Saving
<1>8. CompletedIsRecorded'
  BY <1>1, <1>2, <1>4 DEF RecordedInv, CompletedIsRecorded
<1>9. QED  BY <1>5, <1>6, <1>7, <1>8

LEMMA PrepareRecorded ==
  ASSUME RecordedInv, NEW r \in Runs, PrepareSave(r)
  PROVE  SavesKnown' /\ ArtifactsKnown' /\ UnfinishedStatus' /\ CompletedIsRecorded'
<1>1. PICK d \in {document[r], fresh} \ {0} :
        /\ document' = [document EXCEPT ![r] = d]
        /\ fresh' = IF d = fresh THEN fresh + 1 ELSE fresh
        /\ journal'[r].doc = d /\ journal'[r].id = saves[r] + 1
  <2>1. PICK d \in {document[r], fresh} \ {0}, unresolved \in BOOLEAN :
          LET path == IF file[Target] = original[r] THEN Target ELSE ConflictCopy(r)
          IN /\ document' = [document EXCEPT ![r] = d]
             /\ fresh' = IF d = fresh THEN fresh + 1 ELSE fresh
             /\ journal' = [journal EXCEPT ![r] =
                  [id |-> PublicationId(r), path |-> path, doc |-> d,
                   status |-> IF unresolved \/ path # Target
                                THEN "warned" ELSE "completed"]]
    BY DEF PrepareSave
  <2>2. journal'[r].doc = d /\ journal'[r].id = saves[r] + 1
    BY <2>1 DEF RecordedInv, WrittenInv, TypeOK, PublicationId
  <2>3. QED  BY <2>1, <2>2
<1>2. /\ UNCHANGED <<file, written, artifacts, status>>
      /\ \A s \in Runs : s # r => /\ journal'[s] = journal[s] /\ saves'[s] = saves[s]
                                  /\ document'[s] = document[s] /\ stage'[s] = stage[s]
      /\ saves'[r] = saves[r] + 1 /\ document'[r] = d /\ stage[r] = "working"
  BY <1>1 DEF PrepareSave, RecordedInv, WrittenInv, TypeOK
<1>3. fresh \in Nat /\ fresh' \in Nat /\ fresh <= fresh' /\ saves[r] \in Nat
  BY <1>1 DEF RecordedInv, WrittenInv, TypeOK
<1>4. \A s \in Runs : WrittenBy(s)' = WrittenBy(s) /\ \A e \in WrittenBy(s) : e \in Nat /\ e < fresh
  <2>1. \A s \in Runs : WrittenBy(s)' = WrittenBy(s)
    BY <1>2 DEF WrittenBy
  <2>2. ASSUME NEW s \in Runs, NEW e \in WrittenBy(s)
        PROVE  e \in Nat
    <3>1. written[s] \in Seq(Nat)
      BY DEF RecordedInv, WrittenInv, TypeOK
    <3>2. QED  BY <3>1, <2>2 DEF WrittenBy
  <2>3. \A s \in Runs : \A e \in WrittenBy(s) : e < fresh
    BY DEF RecordedInv, SavesKnown
  <2>4. QED  BY <2>1, <2>2, <2>3
<1>5. SavesKnown'
  <2>1. fresh \notin WrittenBy(r)
    BY <1>3, <1>4
  <2>2. d \in WrittenBy(r) => written[r] # <<>> /\ Last(written[r]) = d
    BY <1>1, <2>1 DEF RecordedInv, SavesKnown
  <2>3. \A s \in Runs : \A e \in WrittenBy(s) : e < fresh'
    BY <1>3, <1>4
  <2>4. QED  BY <1>1, <1>2, <1>4, <2>2, <2>3 DEF RecordedInv, SavesKnown
<1>6. ArtifactsKnown'
  <2>1. \A i \in DOMAIN artifacts[r] : artifacts[r][i].id \in Nat /\ artifacts[r][i].id <= saves[r]
    <3>1. artifacts[r] \in Seq(Artifact)
      BY DEF RecordedInv, WrittenInv, TypeOK
    <3>2. \A i \in DOMAIN artifacts[r] : artifacts[r][i] \in Artifact
      BY <3>1
    <3>3. \A a \in Artifact : a.id \in Nat
      BY DEF Artifact
    <3>4. QED  BY <3>2, <3>3 DEF RecordedInv, ArtifactsKnown
  <2>2. \A i \in DOMAIN artifacts[r] : artifacts[r][i].id <= saves'[r] /\ artifacts[r][i].id # saves'[r]
    BY <1>2, <1>3, <2>1
  <2>3. QED  BY <1>2, <2>2 DEF RecordedInv, ArtifactsKnown
<1>7. UnfinishedStatus' /\ CompletedIsRecorded'
  BY <1>2 DEF RecordedInv, UnfinishedStatus, CompletedIsRecorded
<1>8. QED  BY <1>5, <1>6, <1>7

LEMMA ReplaceRecorded ==
  ASSUME RecordedInv, NEW r \in Runs, ReplaceFile(r)
  PROVE  SavesKnown' /\ ArtifactsKnown' /\ UnfinishedStatus' /\ CompletedIsRecorded'
<1>1. journal[r] \in Journal /\ journal[r] # NoJournal
  BY JournalAssumption
  DEF ReplaceFile, RecordedInv, WrittenInv, Exclusive, JournalKept, Saving
<1>2. /\ UNCHANGED <<fresh, document, journal, artifacts, saves, status>>
      /\ stage[r] = "checked" /\ \A s \in Runs : s # r => stage'[s] = stage[s]
      /\ \A s \in Runs : s # r => written'[s] = written[s]
      /\ written[r] \in Seq(Nat) /\ written'[r] = Append(written[r], document[r])
      /\ document[r] \in Nat /\ document[r] < fresh /\ fresh \in Nat
  <2>1. journal[r].doc = document[r]
    BY <1>1 DEF RecordedInv, SavesKnown
  <2>2. document[r] \in Drafts(r)
    BY <1>1, <2>1 DEF Drafts, Docs, RecordedInv, WrittenInv, DocumentsKnown
  <2>3. document[r] < fresh
    BY <2>2 DEF RecordedInv, WrittenInv, DocumentsKnown
  <2>4. QED  BY <2>1, <2>3 DEF ReplaceFile, RecordedInv, WrittenInv, TypeOK
<1>3. /\ written'[r] # <<>> /\ Last(written'[r]) = document[r]
      /\ WrittenBy(r)' = WrittenBy(r) \cup {document[r]}
  <2>1. /\ Len(written'[r]) = Len(written[r]) + 1
        /\ DOMAIN written'[r] = DOMAIN written[r] \cup {Len(written[r]) + 1}
        /\ written'[r][Len(written[r]) + 1] = document[r]
        /\ \A i \in DOMAIN written[r] : written'[r][i] = written[r][i]
    BY <1>2
  <2>2. written'[r] # <<>> /\ Last(written'[r]) = document[r]
    BY <1>2, <2>1 DEF Last
  <2>3. QED  BY <2>1, <2>2 DEF WrittenBy
<1>4. \A s \in Runs : s # r => WrittenBy(s)' = WrittenBy(s)
  BY <1>2 DEF WrittenBy
<1>5. SavesKnown'
  BY <1>2, <1>3, <1>4 DEF RecordedInv, SavesKnown
<1>6. ArtifactsKnown' /\ UnfinishedStatus'
  BY <1>2 DEF RecordedInv, ArtifactsKnown, UnfinishedStatus, Saving
<1>7. CompletedIsRecorded'
  <2>1. status[r] \notin Completed
    BY <1>2 DEF RecordedInv, UnfinishedStatus, Saving
  <2>2. QED  BY <1>2, <2>1 DEF RecordedInv, CompletedIsRecorded
<1>8. QED  BY <1>5, <1>6, <1>7

\* The other steps of users and workers.
LEMMA UserRecorded ==
  ASSUME RecordedInv, NEW r \in Runs, UserStep(r) \/ StartRun(r)
  PROVE  SavesKnown' /\ ArtifactsKnown' /\ UnfinishedStatus' /\ CompletedIsRecorded'
<1>1. UNCHANGED <<fresh, document, written, saves, journal, artifacts>> /\ fresh \in Nat
  BY DEF UserStep, LookAtTarget, ResumeRun, ReviseRun, StartRun, RecordedInv, WrittenInv, TypeOK
<1>2. \A s \in Runs : status'[s] = status[s] \/ status'[s] \in {"active", "stopped"}
  BY DEF UserStep, LookAtTarget, ResumeRun, ReviseRun, StartRun, Enqueue, QueueUnknown, Queue,
         RecordedInv, WrittenInv, TypeOK
<1>3. \A s \in Runs : stage'[s] = stage[s] \/ stage'[s] \in {"looking", "idle"}
                      \/ (stage'[s] = "working" /\ status'[s] = "active")
  BY DEF UserStep, LookAtTarget, ResumeRun, ReviseRun, StartRun, Enqueue, QueueUnknown, Queue,
         RecordedInv, WrittenInv, TypeOK
<1>4. QED  BY <1>1, <1>2, <1>3, RecordedKept DEF Saving

LEMMA CommitRecorded ==
  ASSUME RecordedInv, NEW r \in Runs,
         \/ CheckTarget(r) \/ CommitPublication(r) \/ CommitUnknown(r)
         \/ PartialCommitFails(r) \/ FinishSave(r) \/ AttemptFails(r) \/ RecoverRun(r)
  PROVE  SavesKnown' /\ ArtifactsKnown' /\ UnfinishedStatus' /\ CompletedIsRecorded'
<1>1. UNCHANGED <<fresh, document, written, saves>> /\ fresh \in Nat
  BY DEF CheckTarget, CommitPublication, CommitUnknown, PartialCommitFails, FinishSave,
         AttemptFails, RecoverRun, RecordedInv, WrittenInv, TypeOK
<1>2. /\ \A s \in Runs : s # r => stage'[s] = stage[s]
      /\ \A s \in Runs : journal'[s] = journal[s] \/ journal'[s] = NoJournal
      /\ stage'[r] \in Saving \cup {"working"} => stage[r] \in Saving /\ status'[r] = status[r]
  <2>1. stage \in [Runs -> Stage] /\ journal \in [Runs -> Journal \cup {NoJournal}]
        /\ status \in [Runs -> Status]
    BY DEF RecordedInv, WrittenInv, TypeOK
  <2>2. CASE CheckTarget(r) \/ AttemptFails(r)
    BY <2>1, <2>2 DEF CheckTarget, AttemptFails, Ended, Saving
  <2>3. CASE CommitPublication(r) \/ CommitUnknown(r) \/ PartialCommitFails(r)
    BY <2>1, <2>3 DEF CommitPublication, CommitUnknown, PartialCommitFails, Ended, Saving
  <2>4. CASE FinishSave(r)
    BY <2>1, <2>4 DEF FinishSave, Saving
  <2>5. CASE RecoverRun(r)
    <3>1. journal' = journal \/ journal' = [journal EXCEPT ![r] = NoJournal]
      BY <2>5 DEF RecoverRun, Reconcile
    <3>2. stage' = [stage EXCEPT ![r] = "idle"]
      BY <2>5 DEF RecoverRun, Ended
    <3>3. QED  BY <2>1, <3>1, <3>2 DEF Saving
  <2>6. QED  BY <2>2, <2>3, <2>4, <2>5
<1>3. CASE /\ artifacts' = artifacts
           /\ \A s \in Runs : status'[s] \in Completed => status[s] \in Completed
  BY <1>1, <1>2, <1>3, RecordedKept
<1>4. CASE /\ Apply(r) /\ journal[r] # NoJournal /\ journal[r].doc \in WrittenBy(r)
           /\ stage'[r] \notin Saving \cup {"working"}
  BY <1>1, <1>2, <1>4, ApplyRecorded
<1>5. \/ /\ artifacts' = artifacts
         /\ \A s \in Runs : status'[s] \in Completed => status[s] \in Completed
      \/ /\ Apply(r) /\ journal[r] # NoJournal /\ stage'[r] \notin Saving \cup {"working"}
         /\ stage[r] = "replaced" \/ OnDisk(r)
  <2>1. stage[r] = "replaced" => journal[r] # NoJournal
    BY JournalAssumption DEF RecordedInv, WrittenInv, Exclusive, JournalKept, Saving
  <2>2. CASE CheckTarget(r) \/ FinishSave(r) \/ AttemptFails(r)
    BY <2>2 DEF CheckTarget, FinishSave, AttemptFails, Ended, RecordedInv, WrittenInv, TypeOK
  <2>3. CASE CommitPublication(r) \/ CommitUnknown(r) \/ PartialCommitFails(r)
    BY <2>1, <2>3
    DEF CommitPublication, CommitUnknown, PartialCommitFails, Ended, Saving, RecordedInv,
        WrittenInv, TypeOK
  <2>4. CASE RecoverRun(r)
    BY <2>4 DEF RecoverRun, Reconcile, Ended, Saving, RecordedInv, WrittenInv, TypeOK
  <2>5. QED  BY <2>2, <2>3, <2>4
<1>6. journal[r] # NoJournal /\ (stage[r] = "replaced" \/ OnDisk(r)) => journal[r].doc \in WrittenBy(r)
  BY OnDiskIsWritten DEF RecordedInv, WrittenInv, DocumentsKnown
<1>7. QED  BY <1>3, <1>4, <1>5, <1>6

LEMMA SweepRecorded ==
  ASSUME RecordedInv, SweepStep
  PROVE  SavesKnown' /\ ArtifactsKnown' /\ UnfinishedStatus' /\ CompletedIsRecorded'
<1>1. UNCHANGED <<fresh, document, written, saves>> /\ fresh \in Nat
  BY DEF SweepStep, BeginSweep, SelectRuns, EndSweep, SweepFails, SweepPublication, SweepRun,
         RecordedInv, WrittenInv, TypeOK
<1>2. sweep = "publications" =>
        /\ \A s \in Runs : stage[s] \notin Saving \cup {"working"}
        /\ \A s \in todo : journal[s] # NoJournal
  BY JournalAssumption
  DEF RecordedInv, WrittenInv, Exclusive, JournalKept, OneAttempt, Attempts, Saving
<1>3. CASE BeginSweep \/ SelectRuns \/ EndSweep
  BY <1>1, <1>3, RecordedKept DEF BeginSweep, SelectRuns, EndSweep
<1>4. ASSUME NEW r \in Runs, SweepRun(r)
      PROVE  SavesKnown' /\ ArtifactsKnown' /\ UnfinishedStatus' /\ CompletedIsRecorded'
  <2>1. /\ UNCHANGED <<journal, artifacts>>
        /\ \A s \in Runs : status'[s] = status[s] \/ status'[s] \in {"active", "stopped"}
        /\ \A s \in Runs : stage'[s] = stage[s] \/ stage'[s] = "idle"
                           \/ (stage'[s] = "working" /\ status'[s] = "active")
    BY <1>4 DEF SweepRun, Enqueue, QueueUnknown, Queue, RecordedInv, WrittenInv, TypeOK
  <2>2. QED  BY <1>1, <2>1, RecordedKept DEF Saving
<1>5. ASSUME NEW r \in Runs, SweepPublication(r)
      PROVE  SavesKnown' /\ ArtifactsKnown' /\ UnfinishedStatus' /\ CompletedIsRecorded'
  <2>1. /\ UNCHANGED stage /\ journal[r] # NoJournal /\ stage[r] \notin Saving \cup {"working"}
        /\ Reconcile(r)
    BY <1>2, <1>5 DEF SweepPublication
  <2>2. \A s \in Runs : journal'[s] = journal[s] \/ journal'[s] = NoJournal
    BY <2>1 DEF Reconcile, RecordedInv, WrittenInv, TypeOK
  <2>3. CASE OnDisk(r)
    <3>1. journal[r].doc \in WrittenBy(r)
      BY <2>1, <2>3, OnDiskIsWritten DEF RecordedInv
    <3>2. QED  BY <1>1, <2>1, <2>2, <2>3, <3>1, ApplyRecorded DEF Reconcile
  <2>4. CASE ~ OnDisk(r)
    <3>1. artifacts' = artifacts /\ \A s \in Runs : status'[s] \in Completed => status[s] \in Completed
      BY <2>1, <2>4 DEF Reconcile, RecordedInv, WrittenInv, TypeOK
    <3>2. QED  BY <1>1, <2>1, <2>2, <3>1, RecordedKept
  <2>5. QED  BY <2>3, <2>4
<1>6. CASE SweepFails
  <2>1. UNCHANGED journal /\ \A s \in Runs : stage'[s] = stage[s] \/ stage'[s] = "idle"
    BY <1>6 DEF SweepFails
  <2>2. CASE UNCHANGED <<artifacts, status>>
    BY <1>1, <2>1, <2>2, RecordedKept DEF Saving
  <2>3. ASSUME NEW r \in todo, sweep = "publications", OnDisk(r), Apply(r)
        PROVE  SavesKnown' /\ ArtifactsKnown' /\ UnfinishedStatus' /\ CompletedIsRecorded'
    <3>1. r \in Runs /\ journal[r] # NoJournal /\ stage'[r] \notin Saving \cup {"working"}
      BY <1>2, <2>1, <2>3 DEF RecordedInv, WrittenInv, TypeOK, Saving
    <3>2. journal[r].doc \in WrittenBy(r)
      BY <2>3, <3>1, OnDiskIsWritten DEF RecordedInv
    <3>3. QED  BY <1>1, <2>1, <2>3, <3>1, <3>2, ApplyRecorded
  <2>4. QED  BY <1>6, <2>2, <2>3 DEF SweepFails
<1>7. QED  BY <1>3, <1>4, <1>5, <1>6 DEF SweepStep

LEMMA RecordedStep ==
  RecordedInv /\ [Next]_vars => SavesKnown' /\ ArtifactsKnown' /\ UnfinishedStatus' /\ CompletedIsRecorded'
<1> SUFFICES ASSUME RecordedInv, [Next]_vars
             PROVE  SavesKnown' /\ ArtifactsKnown' /\ UnfinishedStatus' /\ CompletedIsRecorded'
  OBVIOUS
<1>1. ASSUME NEW r \in Runs, UserStep(r) \/ WorkerStep(r)
      PROVE  SavesKnown' /\ ArtifactsKnown' /\ UnfinishedStatus' /\ CompletedIsRecorded'
  BY <1>1, UserRecorded, PrepareRecorded, ReplaceRecorded, CommitRecorded DEF WorkerStep
<1>2. ASSUME NEW p \in Paths, EditFile(p)
      PROVE  SavesKnown' /\ ArtifactsKnown' /\ UnfinishedStatus' /\ CompletedIsRecorded'
  <2>1. UNCHANGED <<document, written, saves, artifacts, journal, status, stage>>
    BY <1>2 DEF EditFile
  <2>2. fresh' \in Nat /\ fresh <= fresh'
    BY <1>2 DEF EditFile, RecordedInv, WrittenInv, TypeOK
  <2>3. QED  BY <2>1, <2>2, RecordedKept
<1>3. CASE SweepStep
  BY <1>3, SweepRecorded
<1>4. CASE Crash \/ Restart \/ UNCHANGED vars
  <2>1. UNCHANGED <<document, written, saves, artifacts, journal, status, fresh>> /\ fresh \in Nat
    BY <1>4 DEF Crash, Restart, vars, RecordedInv, WrittenInv, TypeOK
  <2>2. \A s \in Runs : stage'[s] = stage[s] \/ stage'[s] = "idle"
    BY <1>4 DEF Crash, Restart, vars
  <2>3. QED  BY <2>1, <2>2, RecordedKept DEF Saving
<1>5. QED  BY <1>1, <1>2, <1>3, <1>4 DEF Next

\* The newest artifact of a completed run is the document it put on disk last,
\* whatever was edited, lost or committed twice (commit, resume_run, revise_inner).
THEOREM CompletedRecorded == Spec => []CompletedIsRecorded
<1>1. Init => RecordedInv
  BY TypeInit, ExclusiveInit, WrittenInit, RecordedInit DEF RecordedInv, WrittenInv
<1>2. RecordedInv /\ [Next]_vars => RecordedInv'
  BY TypeStep, ExclusiveStep, WrittenStep, RecordedStep DEF RecordedInv, WrittenInv, Exclusive
<1>3. RecordedInv => CompletedIsRecorded
  BY DEF RecordedInv
<1>4. QED
  <2> HIDE DEF RecordedInv
  <2>1. QED  BY <1>1, <1>2, <1>3, PTL DEF Spec
-----------------------------------------------------------------------------
(* What start-up recovery leaves to be recorded. *)

\* What a run published is recorded, or somebody changed its file meanwhile.
Settled(r) == Unrecorded(r) => journal[r].path \in touched

\* A process that starts has no attempts. Its recovery has settled what it does
\* not have to handle any more; then it takes runs up that still are settled.
RecoveryKnown ==
  /\ proc = "down" => sweep = "off"
  /\ proc = "down" \/ (proc = "starting" /\ sweep = "off") => \A r \in Runs : stage[r] = "idle"
  /\ proc = "starting" /\ sweep = "publications" => \A r \in Runs \ todo : Settled(r)
  /\ proc = "starting" /\ sweep = "runs" => \A r \in todo : stage[r] = "idle" /\ Settled(r)

RecoveryInv == WrittenInv /\ RecoveryKnown

LEMMA RecoveryInit == Init => RecoveryKnown
BY DEF Init, RecoveryKnown

\* Nothing is published in the name of r, and its file does not become what the
\* journal says unless somebody makes it so.
LEMMA StillSettled ==
  ASSUME NEW r \in Runs, Settled(r), touched \subseteq touched',
         journal'[r] = journal[r], written'[r] = written[r], artifacts'[r] = artifacts[r],
         \/ file'[journal[r].path] = file[journal[r].path]
         \/ file'[journal[r].path] # journal[r].doc
         \/ journal[r].path \in touched'
  PROVE  Settled(r)'
BY DEF Settled, Unrecorded, OnDisk

LEMMA AllIdle ==
  ASSUME RecoveryInv, sweep = "publications"
  PROVE  \A r \in Runs : stage[r] = "idle"
BY DEF RecoveryInv, WrittenInv, TypeOK, Exclusive, OneAttempt, Attempts, Saving

\* While a process recovers, runs are at work only beside those still to take up.
LEMMA AtWork ==
  ASSUME RecoveryInv, NEW r \in Runs, stage[r] # "idle"
  PROVE  /\ proc = "up" \/ (proc = "starting" /\ sweep = "runs" /\ r \notin todo)
         /\ stage[r] = "looking" => proc = "up"
<1>1. sweep # "publications"
  BY AllIdle
<1>2. proc # "down" /\ (proc = "starting" => sweep = "runs" /\ r \notin todo)
  BY <1>1 DEF RecoveryInv, RecoveryKnown, WrittenInv, TypeOK
<1>3. stage[r] = "looking" => sweep = "off"
  BY DEF RecoveryInv, WrittenInv, Exclusive, OneAttempt
<1>4. proc \in {"down", "starting", "up"}
  BY DEF RecoveryInv, WrittenInv, TypeOK
<1>5. QED  BY <1>2, <1>3, <1>4

\* Users are served when the recovery is over.
LEMMA UserRecovery ==
  ASSUME RecoveryInv, NEW r \in Runs, UserStep(r) \/ StartRun(r)
  PROVE  RecoveryKnown'
<1>1. proc = "up"
  BY AtWork DEF UserStep, LookAtTarget, ResumeRun, ReviseRun, StartRun, Permit
<1>2. proc' = proc
  BY DEF UserStep, LookAtTarget, ResumeRun, ReviseRun, StartRun
<1>3. QED  BY <1>1, <1>2 DEF RecoveryKnown

LEMMA WorkerRecovery ==
  ASSUME RecoveryInv, NEW r \in Runs, WorkerStep(r), ~ StartRun(r)
  PROVE  RecoveryKnown'
<1> USE DEF PrepareSave, CheckTarget, ReplaceFile, CommitPublication, CommitUnknown,
            PartialCommitFails, FinishSave, AttemptFails, RecoverRun
<1>1. stage[r] # "idle"
  BY DEF WorkerStep
<1>2. UNCHANGED <<proc, sweep, todo, touched>>
  BY DEF WorkerStep
<1>3. CASE proc = "up"
  BY <1>2, <1>3 DEF RecoveryKnown
<1>4. CASE proc = "starting" /\ sweep = "runs"
  <2>1. r \notin todo
    BY <1>1, <1>4, AtWork
  <2>2. ASSUME NEW s \in Runs, s # r
        PROVE  /\ stage'[s] = stage[s] /\ journal'[s] = journal[s]
               /\ artifacts'[s] = artifacts[s] /\ written'[s] = written[s]
    <3>1. stage'[s] = stage[s]
      BY <2>2 DEF WorkerStep, Ended, RecoveryInv, WrittenInv, TypeOK
    <3>2. journal'[s] = journal[s]
      <4>1. CASE PrepareSave(r)
        BY <2>2, <4>1, PrepareJournal DEF RecoveryInv, WrittenInv
      <4>2. CASE ~ PrepareSave(r)
        <5>1. journal' = journal \/ journal' = [journal EXCEPT ![r] = NoJournal]
          BY <4>2 DEF WorkerStep, Reconcile
        <5>2. QED  BY <2>2, <5>1 DEF RecoveryInv, WrittenInv, TypeOK
      <4>3. QED  BY <4>1, <4>2
    <3>3. artifacts'[s] = artifacts[s]
      <4>1. artifacts' = artifacts \/ Apply(r)
        BY DEF WorkerStep, Reconcile
      <4>2. QED  BY <2>2, <4>1 DEF Apply, RecoveryInv, WrittenInv, TypeOK
    <3>4. written'[s] = written[s]
      BY <2>2 DEF WorkerStep, RecoveryInv, WrittenInv, TypeOK
    <3>5. QED  BY <3>1, <3>2, <3>3, <3>4
  <2>3. ASSUME NEW s \in todo
        PROVE  stage'[s] = "idle" /\ Settled(s)'
    <3>1. s \in Runs /\ s # r /\ stage[s] = "idle" /\ Settled(s)
      BY <1>4, <2>1, <2>3 DEF RecoveryInv, RecoveryKnown, WrittenInv, TypeOK
    <3>2. CASE ~ ReplaceFile(r)
      <4>1. UNCHANGED file
        BY <3>2 DEF WorkerStep
      <4>2. QED  BY <1>2, <2>2, <3>1, <4>1, StillSettled
    <3>3. CASE ReplaceFile(r)
      <4>1. CASE journal[s] = NoJournal
        BY <2>2, <3>1, <4>1 DEF Settled, Unrecorded
      <4>2. CASE journal[s] # NoJournal
        <5>1. journal[r] # NoJournal
          BY <3>3, JournalAssumption DEF RecoveryInv, WrittenInv, Exclusive, JournalKept, Saving
        <5>2. journal[r].doc # journal[s].doc
          BY <3>1, <4>2, <5>1 DEF RecoveryInv, WrittenInv, DocumentsKnown, Drafts, Docs
        <5>3. file' = [file EXCEPT ![journal[r].path] = journal[r].doc]
          BY <3>3
        <5>4. journal[s].path \in Paths
          BY <3>1, <4>2 DEF RecoveryInv, WrittenInv, TypeOK
        <5>5. \/ file'[journal[s].path] = file[journal[s].path]
              \/ file'[journal[s].path] # journal[s].doc
          BY <5>2, <5>3, <5>4 DEF RecoveryInv, WrittenInv, TypeOK
        <5>6. QED  BY <1>2, <2>2, <3>1, <5>5, StillSettled
      <4>3. QED  BY <4>1, <4>2
    <3>4. QED  BY <3>2, <3>3
  <2>4. QED  BY <1>2, <1>4, <2>3 DEF RecoveryKnown
<1>5. QED  BY <1>1, <1>3, <1>4, AtWork

LEMMA SweepRecovery ==
  ASSUME RecoveryInv, SweepStep
  PROVE  RecoveryKnown'
<1>1. CASE BeginSweep
  <2>1. CASE proc = "up"
    BY <1>1, <2>1 DEF BeginSweep, RecoveryKnown
  <2>2. CASE proc = "starting"
    <3>1. Free
      BY <1>1, <2>2 DEF BeginSweep, Free, Registered, RecoveryInv, RecoveryKnown
    <3>2. proc' = "starting" /\ sweep' = "publications" /\ todo' = Journals /\ UNCHANGED journal
      BY <1>1, <2>2, <3>1 DEF BeginSweep
    <3>3. \A r \in Runs \ todo' : Settled(r)'
      BY <3>2 DEF Journals, Settled, Unrecorded
    <3>4. QED  BY <3>2, <3>3 DEF RecoveryKnown
  <2>3. QED  BY <1>1, <2>1, <2>2 DEF BeginSweep
<1>2. CASE SelectRuns
  <2>1. CASE proc = "starting"
    <3>1. /\ sweep = "publications" /\ todo = {} /\ sweep' = "runs" /\ proc' = proc
          /\ UNCHANGED <<file, journal, written, artifacts, touched, stage>>
          /\ todo' \subseteq Runs
      BY <1>2 DEF SelectRuns, PublicationsDone, Holding
    <3>2. \A r \in Runs : stage[r] = "idle" /\ Settled(r)
      BY <2>1, <3>1, AllIdle DEF RecoveryInv, RecoveryKnown
    <3>3. \A r \in Runs : stage'[r] = "idle" /\ Settled(r)'
      BY <3>1, <3>2, StillSettled
    <3>4. QED  BY <2>1, <3>1, <3>3 DEF RecoveryKnown
  <2>2. CASE proc # "starting"
    <3>1. proc' # "starting" /\ proc' # "down"
      BY <1>2, <2>2 DEF SelectRuns, RecoveryInv, RecoveryKnown
    <3>2. QED  BY <3>1 DEF RecoveryKnown
  <2>3. QED  BY <2>1, <2>2
<1>3. CASE EndSweep
  BY <1>3 DEF EndSweep, RecoveryKnown
<1>4. CASE SweepFails
  BY <1>4 DEF SweepFails, RecoveryInv, RecoveryKnown
<1>5. ASSUME NEW r \in Runs, SweepPublication(r)
      PROVE  RecoveryKnown'
  <2>1. /\ sweep = "publications" /\ sweep' = sweep /\ proc' = proc /\ proc # "down"
        /\ UNCHANGED <<file, written, touched, stage>> /\ todo' = todo \ {r} /\ Reconcile(r)
    BY <1>5 DEF SweepPublication, RecoveryInv, RecoveryKnown
  <2>2. ASSUME NEW s \in Runs, s # r
        PROVE  journal'[s] = journal[s] /\ artifacts'[s] = artifacts[s]
    <3>1. journal' = journal \/ journal' = [journal EXCEPT ![r] = NoJournal]
      BY <2>1 DEF Reconcile
    <3>2. artifacts' = artifacts \/ Apply(r)
      BY <2>1 DEF Reconcile
    <3>3. QED  BY <2>2, <3>1, <3>2 DEF Apply, RecoveryInv, WrittenInv, TypeOK
  <2>3. Settled(r)'
    <3>1. CASE OnDisk(r)
      <4>1. journal'[r] = NoJournal
        BY <2>1, <3>1 DEF Reconcile, RecoveryInv, WrittenInv, TypeOK
      <4>2. QED  BY <4>1 DEF Settled, Unrecorded
    <3>2. CASE ~ OnDisk(r)
      <4>1. UNCHANGED <<file, journal>>
        BY <2>1, <3>2 DEF Reconcile
      <4>2. QED  BY <3>2, <4>1 DEF Settled, Unrecorded, OnDisk
    <3>3. QED  BY <3>1, <3>2
  <2>4. proc = "starting" => \A s \in Runs \ todo : s # r => Settled(s)'
    BY <2>1, <2>2, StillSettled DEF RecoveryInv, RecoveryKnown
  <2>5. QED  BY <2>1, <2>3, <2>4 DEF RecoveryKnown
<1>6. ASSUME NEW r \in Runs, SweepRun(r)
      PROVE  RecoveryKnown'
  <2>1. /\ sweep = "runs" /\ sweep' = sweep /\ proc' = proc /\ proc # "down"
        /\ UNCHANGED <<file, journal, written, artifacts, touched>> /\ todo' = todo \ {r}
    BY <1>6 DEF SweepRun, RecoveryInv, RecoveryKnown
  <2>2. \A s \in Runs : s # r => stage'[s] = stage[s]
    BY <1>6 DEF SweepRun, Enqueue, QueueUnknown, RecoveryInv, WrittenInv, TypeOK
  <2>3. todo \subseteq Runs
    BY DEF RecoveryInv, WrittenInv, TypeOK
  <2>4. ASSUME proc = "starting", NEW s \in todo'
        PROVE  stage'[s] = "idle" /\ Settled(s)'
    BY <2>1, <2>2, <2>3, <2>4, StillSettled DEF RecoveryInv, RecoveryKnown
  <2>5. QED  BY <2>1, <2>4 DEF RecoveryKnown
<1>7. QED  BY <1>1, <1>2, <1>3, <1>4, <1>5, <1>6 DEF SweepStep

LEMMA EditRecovery ==
  ASSUME RecoveryInv, NEW p \in Paths, EditFile(p)
  PROVE  RecoveryKnown'
<1>1. UNCHANGED <<proc, sweep, todo, stage, journal, written, artifacts>>
  BY DEF EditFile
<1>2. ASSUME proc = "starting", NEW s \in Runs, Settled(s)
      PROVE  Settled(s)'
  <2>1. touched' = touched \cup {p}
    BY <1>2 DEF EditFile
  <2>2. PICK c : file' = [file EXCEPT ![p] = c]
    BY DEF EditFile
  <2>3. journal[s].path # p => file'[journal[s].path] = file[journal[s].path]
    BY <2>2 DEF RecoveryInv, WrittenInv, TypeOK
  <2>4. QED  BY <1>1, <1>2, <2>1, <2>3, StillSettled
<1>3. todo \subseteq Runs
  BY DEF RecoveryInv, WrittenInv, TypeOK
<1>4. QED  BY <1>1, <1>2, <1>3 DEF RecoveryInv, RecoveryKnown

LEMMA RecoveryStep == RecoveryInv /\ [Next]_vars => RecoveryKnown'
<1> SUFFICES ASSUME RecoveryInv, [Next]_vars
             PROVE  RecoveryKnown'
  OBVIOUS
<1>1. ASSUME NEW r \in Runs, UserStep(r) \/ WorkerStep(r)
      PROVE  RecoveryKnown'
  BY <1>1, UserRecovery, WorkerRecovery
<1>2. ASSUME NEW p \in Paths, EditFile(p)
      PROVE  RecoveryKnown'
  BY <1>2, EditRecovery
<1>3. CASE SweepStep
  BY <1>3, SweepRecovery
<1>4. CASE Crash
  BY <1>4 DEF Crash, RecoveryKnown
<1>5. CASE Restart
  BY <1>5 DEF Restart, RecoveryInv, RecoveryKnown
<1>6. CASE UNCHANGED vars
  BY <1>6 DEF vars, RecoveryInv, RecoveryKnown, Settled, Unrecorded, OnDisk
<1>7. QED  BY <1>1, <1>2, <1>3, <1>4, <1>5, <1>6 DEF Next

\* A recovering process takes up only runs it has still to handle.
LEMMA TakenUp ==
  ASSUME RecoveryInv, [Next]_vars, proc = "starting",
         NEW r \in Runs, stage[r] = "idle", stage'[r] = "working"
  PROVE  sweep = "runs" /\ r \in todo
<1> USE DEF RecoveryInv, WrittenInv, TypeOK
<1>1. ASSUME NEW s \in Runs, UserStep(s)
      PROVE  FALSE
  BY <1>1 DEF UserStep, LookAtTarget, ResumeRun, ReviseRun, Permit
<1>2. ASSUME NEW s \in Runs, WorkerStep(s)
      PROVE  FALSE
  <2>1. stage[s] # "idle" /\ stage[s] # "looking"
    BY <1>2, AtWork DEF WorkerStep, StartRun, PrepareSave, CheckTarget, ReplaceFile,
       CommitPublication, CommitUnknown, PartialCommitFails, FinishSave, AttemptFails, RecoverRun
  <2>2. stage'[r] = stage[r]
    BY <1>2, <2>1 DEF WorkerStep, StartRun, PrepareSave, CheckTarget, ReplaceFile, Ended,
       CommitPublication, CommitUnknown, PartialCommitFails, FinishSave, AttemptFails, RecoverRun
  <2>3. QED  BY <2>2
<1>3. ASSUME NEW s \in Runs, SweepRun(s)
      PROVE  sweep = "runs" /\ r \in todo
  <2>1. s # r => stage'[r] = stage[r]
    BY <1>3 DEF SweepRun, Enqueue, QueueUnknown
  <2>2. QED  BY <1>3, <2>1 DEF SweepRun
<1>4. CASE /\ SweepStep
           /\ \A s \in Runs : ~ SweepRun(s)
  BY <1>4 DEF SweepStep, BeginSweep, SelectRuns, EndSweep, SweepFails, SweepPublication
<1>5. CASE Crash \/ Restart \/ UNCHANGED vars \/ \E p \in Paths : EditFile(p)
  BY <1>5 DEF Crash, Restart, EditFile, vars
<1>6. QED  BY <1>1, <1>2, <1>3, <1>4, <1>5 DEF Next

\* Start-up recovery takes no run up while a document that run published is
\* missing from the table, unless somebody changed its file meanwhile: every
\* journal is reconciled before the first run is queued, and what the runs taken
\* up earlier publish is not mistaken for it (recover, publish.rs 120-158).
THEOREM RecoversBeforeResuming == Spec => RecoveredBeforeResumed
<1> DEFINE Recovered ==
      \A r \in Runs :
        (proc = "starting" /\ stage[r] = "idle" /\ stage'[r] = "working")
          => ~ Unrecorded(r) \/ journal[r].path \in touched
<1>1. RecoveryInv /\ [Next]_vars => Recovered
  BY TakenUp DEF RecoveryInv, RecoveryKnown, Settled
<1>2. Init => RecoveryInv
  BY TypeInit, ExclusiveInit, WrittenInit, RecoveryInit DEF RecoveryInv, WrittenInv
<1>3. RecoveryInv /\ [Next]_vars => RecoveryInv'
  BY TypeStep, ExclusiveStep, WrittenStep, RecoveryStep DEF RecoveryInv, WrittenInv, Exclusive
<1>4. Spec => [][Recovered]_vars
  <2> HIDE DEF Recovered, RecoveryInv
  <2>1. QED  BY <1>1, <1>2, <1>3, PTL DEF Spec
<1>5. QED  BY <1>4 DEF RecoveredBeforeResumed
=============================================================================
