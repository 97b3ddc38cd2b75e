# Verification of DocCraftAgent

DocCraftAgent reads source trees and writes documentation about them with a
language model. The backend (Rust, `src/backend/src`) keeps a queue of *runs*,
survives process crashes and database outages, and publishes each run's document
by replacing a Markdown file. This directory holds TLA+ models of the backend's
stateful core, TLC configurations that check them on small instances, and TLAPS
proofs.

## The system

| Component | Source | State it keeps | Operations | Correct when |
|---|---|---|---|---|
| Run registry | `runner.rs` `enqueue`, `context.rs` | `controls` (id, token, output path, commit gate), `jobs` and `lifecycle` semaphores | register, unregister | one writer for each output path; permits conserved; every entry leaves |
| Worker | `runner.rs` `spawn_worker` | phase, terminal journal `terminal/{id}.json`, `runs.status` | take a slot, execute, publish, record the end | each end is recorded once, survives failures, and never overwrites a completed run |
| Cancellation | `api.rs` `request_cancel` | token, terminal journal | look up, decide under gate and registry locks | accepted and published exclude each other; accepted is not resumed |
| Publication | `publish.rs` | `publications/{id}.json`, target file, `artifacts`, `runs` | save, commit, recover | never overwrites an unknown edit; journal reconciles file and database |
| Sweeps | `runner.rs` `recover`, `maintenance.rs` | selected rows, `db_recoveries` | replay journals, recover publications, select, enqueue | unfinished work is resumed, live work is left alone |
| Settings | `api.rs` `settings_put` | settings, pool, `max_jobs` | save while nothing runs | slot counts follow the setting |
| Outline revision | `composition.rs` | outline, receipts, composition version | revise, continue | a revision applies once and to the version it names |
| Budget and events | `context.rs`, `budget.rs`, `runner.rs` | reserved tokens and cost, `budget` checkpoint, `journal/{id}.json`, events | reserve, reconcile, event, replay | budget survives restarts, is not exceeded, events reach the table |
| LLM client | `llm.rs` | `llm_slots`, rate window, response cache | slot, window, send, retry | limits hold; cancelled waits release what they hold |
| Reading | `understanding.rs`, `purpose.rs` | checkpointed nodes of the reading tree, leaves, evidence | pack, read, split, reduce, choose evidence | every byte is read once, at every level, whatever limit it was read under |
| Planning | `planning.rs`, `composition.rs` | candidate, chapters, parts, reviews, approval, outline | view, divide, plan, join, review, correct, approve | the outline written is the one agreed on; every branch has a place |
| Document | `runner.rs` `execute_document` | sections, `review:n`, `repair:n:i` | write, review, repair, publish | a document without warnings is the one its last review saw |
| Section | `runner.rs` `write_section`, `section_output.rs` | parts of the section being written, response cache | write in parts, reject, repair, keep | a section is told once, in order, from the passages stored with it |
| Source index | `source.rs`, `parser.rs`, `graph.rs` | snapshots, `chunks`, `chunk_blobs` | index, persist, retrieve | a partial index is replaced, shared blobs do not deadlock |
| Event stream | `api.rs` | cursor, idle count | poll, drain, end | no event is lost before `stream-end` |
| Front end, launcher scripts | `src/frontend`, `src/scripts` | none the backend relies on | | |

Components interact through process memory (`AppState`: registry, semaphores,
pool, tokens), through MariaDB rows, and through the data directory, whose
journals are what a restart finds. What makes the system hard:

* **Interleaving.** HTTP handlers, one worker task for each run, the ten-second
  supervisor and shutdown all act on the same run; only the registry lock, the
  lifecycle permit and each run's commit gate order them.
* **Three stores that fail separately.** A crash clears memory only; a database
  statement can fail, or be applied and reported as failed; a journal file is
  the only record of an intent while the database is away.
* **Late actors.** A worker finishing, a sweep working from rows it selected
  earlier, a cancel request that looked its control up before waiting for the
  gate, a client that disconnects and drops its handler.
* **Retries and resumption.** Attempts of one run follow each other, automatic
  and requested ones alike, and meet what earlier attempts left on disk.

`PROJECT.json` lists the hazards line by line with the properties that cover them.

## Modules

| Module | Models | Purpose |
|---|---|---|
| `AttemptGate` | (abstract) | A run has one attempt at a time, numbered upwards; an attempt is decided at most once, for publication or for cancellation. |
| `RunLifecycle` | `runner.rs`, `api.rs`, `maintenance.rs`, `main.rs` | Registry, worker, cancellation, sweeps, settings, shutdown, crash and restart; implements `AttemptGate`. |
| `Publication` | `publish.rs` | What a run may overwrite and what becomes of its document: files, external edits, conflict copies, journals, artifacts. |
| `RequestGate` | `llm.rs`, `context.rs`, `budget.rs`, the loop of `understanding.rs` | Requests in flight: slots, rate window, budget, event journal, cache, retries, calibration. |
| `SourceIndex` | `source.rs`, `graph.rs`, `maintenance.rs` | Two runs storing passages they share, under row locks, conflicts and restarts. |
| `SourceReading` | `understanding.rs` | Passages into batches, batches into a tree, under a limit that changes. |
| `OutlinePlanning` | `planning.rs`, `purpose.rs` | EXTENDS `SourceReading`: from the tree to an outline agreed on. |
| `DocumentRun` | `runner.rs`, `composition.rs` | EXTENDS `OutlinePlanning`: sections, reviews, repairs and resumptions; the user's edits. |
| `LeafOwnership` | `purpose.rs` | Which section tells which leaf, computed anew by each section. |
| `SectionWriting` | `runner.rs`, `section_output.rs`, `markdown.rs` | EXTENDS `LeafOwnership`: the writing and repair of one section. |
| `EventStream` | `api.rs`, `context.rs`, `run-detail.tsx` | Events from concurrent transactions to a client that may lose its connection. |
| `MC...` | | Paths, sources, drafts and symmetry sets for TLC. |
| `...Proofs` | | TLAPS proofs about the module they are named for. |
| `DataLemmas` | | What those proofs share about orders, sorting and sequences. |

How they fit together: `RunLifecycle` says when an attempt of a run exists and how it
is recorded. `Publication` takes one writer for each target (its theorem `OneWriter`) as
given and looks at files. `DocumentRun`, with the two modules it extends, is what
happens inside the attempts of one run; `RequestGate` is what one request of such an
attempt goes through, and what makes the limit of `SourceReading` change;
`SectionWriting` is one section of `DocumentRun`; `SourceIndex` comes before the
reading; `EventStream` carries what `RequestGate` commits to the browser.

### RunLifecycle and the code

State: `controls`, `token`, `published` are the registry entry of a run, with the
attempt's number instead of its `Arc` identity (`Arc::ptr_eq` in `request_cancel`
becomes equality of numbers). `worker` is the program counter of `enqueue`'s
registration task and of `spawn_worker`; `fate` is the status an attempt that ended
with `Err` will record. `jobs`, `maxJobs`, `lifecycle` are the semaphores and the
setting. `status` is `runs.status` with the `DB_UNAVAILABLE` error folded in
(`db_failed`) and both waiting states joined (`awaiting`); `terminal` and
`publication` are the two journal files. `sweep`, `recovering`, `todo` and `cur` are
the local variables of `recover` and `reconnect_runs`, of which only one runs at a
time. `attempts`, `accepted` and `exposed` are history variables: the code does not
have them and no guard reads `accepted` or `exposed`.

Actions, in the order of the source:

* `UserEnqueue`, `ReviseOutline`, `Register`, `RegistrationStored`,
  `RegistrationFailed`: `enqueue`. The lock-protected part is one step; the
  database statement is another, in a task of its own, and may fail after the server
  applied it. `ReleaseApiPermit` may free the lifecycle permit while a start or
  resume is still registering, which is what a dropped HTTP request does; a
  revision runs in a spawned task and keeps it.
* `AcquireSlot` to `FinishPublication`: the body of the worker. `execute` is
  reduced to how it can end: cancelled, failed, out of budget before an outline
  (`awaiting`), database lost, or a publication, whose steps (journal, gate check
  and replacement, commit, commit with unknown outcome, removal) are separate.
* `Conclude`, `WriteTerminal`, `UpdateStatus`, `EraseTerminal`, `Leave`: the
  epilogue in the code's order; between any two of them a cancellation, a shutdown or
  a crash may come.
* `CancelLookup`, `CancelDecide`: the two halves of `request_cancel`.
* `Crash`, `BeginShutdown`, `StopAll`, `Exit`, `Restart`: the process. `Crash` keeps
  the database and the data directory and nothing else.
* `BeginSweep` to `FinishSweep`: `recover`, `reconnect_database`,
  `reconnect_runs`. Each database statement of a sweep may fail and abort it;
  `publish::recover` is one step, as its journals are independent of each other.
* `BeginSettings`, `FinishSettings`: `settings_put`.

Left out on purpose: the `cancel_requested` column (nothing in the code sets it),
undecryptable snapshots, unreadable or malformed journals (quarantine), failures of
local file operations, several settings saves between two permits of a semaphore
wait queue, and the order of the semaphore's queue except in the fairness of
`AcquireSlot`.

### Publication and the code

`RunLifecycle` knows one bit of a publication, whether the target was replaced;
`Publication` gives the files contents and keeps of the lifecycle only what
publication depends on: an attempt is registered or not, at most one for the
target (what `OneWriter` proves of the detailed model), and a crash stands for a
shutdown as well, since both leave a row the next start selects.

Contents are numbers, 0 for a missing file, and hashing them is the identity (no
collisions). `file` holds the target and, under the run's id, its conflict copy;
`original` is `snapshot.original_hash`; `document` is what the run's checkpoints
assemble to, which a later attempt may reproduce or replace by something new;
`existing` is the local of `save`; `journal` is the `Publication` record with its
warnings reduced to the status they lead to; `artifacts` are the run's rows by
`created_at`, which has milliseconds, so that the newest row is the last. `written`,
`late` and `touched` are history: what the run put on disk, the runs whose target was
edited after their second hash of it, and the files people changed while start-up
recovery was at work. The last is the exception of `RecoveredBeforeResumed`: a person
can put the published document back into the file when recovery has already looked at
it and kept its journal.

* `LookAtTarget`, `StartRun`, `ResumeRun`, `ReviseRun`: where `original_hash` comes
  from. `start` hashes the target before `enqueue` may refuse; `resume_run` takes
  the newest artifact only for a `completed_with_warnings` run; `revise_inner`
  takes it always, and keeps it when `enqueue` refuses.
* `PrepareSave`, `CheckTarget`, `ReplaceFile`, `CommitPublication`, `FinishSave`:
  `save` in its order. No await separates `CheckTarget` from `ReplaceFile`, but
  other programs do not wait, so an edit may come between them (and is recorded
  in `late`). The steps before the journal are one action: an edit between them is
  an edit before or after it.
* `CommitUnknown`, `PartialCommitFails`, `RecoverRun`: a commit may fail, or be
  applied and not acknowledged. After `execute` the worker reconciles at once;
  after `publish_partial` nobody does.
* `BeginSweep`, `SweepPublication`, `SelectRuns`, `SweepRun`, `EndSweep`,
  `SweepFails`: `recover` and `reconnect_runs`, one journal and one run at a time.
  `reconnect_runs` skips the journals while any run is registered.

Left out: the limit of three automatic resumptions (the bounds stay below it), the
status shown while an attempt runs, journals that cannot be parsed, failures of
local file operations other than those that fail the attempt, and the window
between a resume's own read of the row and `enqueue`, which the lifecycle permit
closes.

### RequestGate and the code

`pc[c]` is the place of a request inside `call_with`, from `packed` (its batch was
formed) to `done` or an error; `event[w]` the place of a writer inside
`RunContext::event`: journal written, row locked, committed. The requests are
futures of one task, so a request advances only while the reading loop polls it
(`Polled`): while the loop records an event of its own, nothing else moves. This is
where waiting in a circle threatens: a request's open transaction may hold the
lock of the run's row for which the loop waits. The loop gets out by InnoDB's lock timeout and
its sixth failure (`Blocked`, `GiveUp`), with `DB_UNAVAILABLE` although the
database is up; `NothingIsStuck` says that this is always possible and the only
case. `memory` is the budget in the process, `saved` the checkpoint the last
committed event wrote, `due` (history) all the provider may bill. `Expire` is
time: the oldest entry of the rate window leaves it. `OtherRun` is another run's
traffic in the shared window. `Replayed` is `replay_one_journal`. The journal of an
event holds what is reserved and nothing of the margin or the calibration
(`context.rs` 212), so a replay finds those only in the stored checkpoint.

Cost and elapsed time follow the tokens and are left out; the prompt is its size.

### SourceIndex and the code

One `job` for each run (place in `index`, open transaction, inserts made), one
`store` of its rows, and the shared `blobs`. `persist_chunks` inserts the passages of a
file in the order of their hashes; an insert waits for the uncommitted insert of
the same passage by the other run (`WaitsFor`). `Conflict` is an error 1205 or 1213
which the code retries three times; `CommitLost` a commit applied without an answer;
`Stop` a crash or the end of an attempt anywhere. `DeleteRun` and `CollectBlobs` are
the supervisor's `cleanup`, which finds an empty registry only while nobody indexes.

### SourceReading, OutlinePlanning, DocumentRun and the code

Three stages of one attempt over the same variables. A passage has a size on the
scale of the limit; a node of the reading tree is the range of passages below it and
what it was made from, which is what its checkpoint key hashes. The node key uses
the limit read at the first poll of its future, the batch the limit at packing, so
both occur. After `FinishReading` only the branches matter.

A plan has a revision, an identity (history: which plan it is), the branches
it leaves without a place and the passages it cites. What a model answers decides
the control: valid or not, how it divides, whether it flags. `Drafts` of a run are
the divisions into chapters tried. `gathered` is what the loop over the chapters holds
in memory, part by part, whether answered or read back (`ReusePart`), until
`validate_outline` takes the whole (`Validates`). Chapters and parts are forgotten after
the join; reviews of earlier revisions are never read again.

A section's text is a number, 0 for a draft that is not saved and one more with every
rewriting; its key is what `section_key` hashes: name, neighbours, prerequisites.
`checks` are the `review:n` checkpoints with the texts they judged, `marks` the
`repair:n:i` ones. `Stop` (a crash, a cancellation, a lost database) may come at any
await and counts as a fault. A failed attempt ends as the code maps its error: `SOURCE_UNDERSTANDING` to
`failed`, `AWAITING_OUTLINE` to `awaiting_outline`, an exhausted budget, context or
repair to a waiting state or a partial document. The task's settings are varied
between attempts, not before the reading.

`excused` names three histories in which a completed document differs from
its last review: a resumption with a lower review limit (`runner.rs` 589-596, 744)
starts after reviews that are still stored; a section reviewed as an unsaved draft
and written anew without `changed`; an attempt that ends between the rewriting of a
section and `reset_document_reviews`. `OutlineIsGrounded` excludes resumptions with
another model, whose evidence is selected anew (`planning.rs` 2348-2367).

### LeafOwnership, SectionWriting and the code

`LeafOwnership` keeps no state between sections, as the code does: each section goes
through all leaves and recomputes who won how many before. `SectionWriting` follows
the section that asked last. A text is a sequence of subsections, each a sequence of
answers; `answers` (history) keeps for each answer the request it answered, so that
the properties can say whether a text is one telling. A passage has an id that says
what is left of it (`cut`), because `fit_evidence` gives a shortened passage a new one.
`BeginAttempt` fits what an attempt gathers, and just so what the attempt before left
(`runner.rs` 1559-1597); how much room a request has is left open, as it depends on the
correction, the neighbours and the margin. An answer cites some ids, mostly of what it
was given (`Strays`). `CitesOnly` decides whether a draft is split, and so spliced, and
whether a section passes; a draft whose citations survive the fitting is spliced with
parts written from other evidence than its own. Exact continuation extends the
last subsection; echoed prefixes and blank answers are "hollow". A later run calls
`write_section` with the same input, perhaps after `cleanup` trimmed the cache
(`TrimCache`). Left open: the other verdicts, where issues lie, draft lengths. Left out: empty
subsections, tables of contents and diagrams (trimmed by pure functions),
`scope_records`. The code shows a continuation the last 8000 bytes of the text before it
with its length and headings (`section_output.rs` 24-60), the model the whole of it. The
outline, and with it who owns a leaf, does not change between attempts.

### EventStream and the code

An event is its id. A transaction takes the id at its INSERT and commits after it
got the run's row, so commits need not be in the order of ids; `Overtaken` names the
events which the stream's cursor has passed when they commit. The worker's end is
either a publication, whose event commits with the status, or a recorded status with a
`terminal` event after it, which may never come. The client reconnects with
`Last-Event-ID`; the page drops to the history when it learns that the run ended. The
history is the newest `EventLimit` events, and the page keeps as many (`Newest`): both
are 500 in the code. An event is `Crowded` out when the page shows that many newer ones.
Not modelled: the event of `replay_one_journal`, the status `interrupted`.

## Runs

| Run | Instance | States | Shows |
|---|---|---|---|
| `lifecycle` | 1 run, 2 user operations, 1 stop, 1 fault, 1 automatic resumption, fair | 148,597 | type invariant; `CancelExcludesPublication`, `FirmCancelStands`, `JournalOfThisAttempt`, `CompletedIsFinal`, `LiveStatusIsTheWorkers`; the liveness of attempts, journals, cancellations and start-up; refinement of `AttemptGate` |
| `lifecycle_shared_target` | 2 runs, one path, 1 or 2 slots, 2 user operations, 1 fault | 1,376,588 | `OneWriterPerTarget`, `SlotsConserved` over all exits of an attempt and both values of `max_jobs`, saved while nothing is registered |
| `cancel_overtaken` | 1 run | | violation of `CancelStands` |
| `stranded_run` | 1 run, fair | | violation of `NoStrandedRun` |
| `stale_publication_journal` | 1 run | | violation of `WaitingIsKept` |
| `publication` | 2 runs, one target, 2 user operations, 1 edit, 1 stop, 1 fault, fair | 290,769 | `KnownOverwritten`, `ArtifactsWereWritten`, `CompletedIsRecorded`, `RecoveredBeforeResumed`, `PublishedIsSettled` |
| `own_conflict` | 1 run | | violation of `ConflictIsExternal` |
| `requests` | 2 requests in flight, 2 in all, 1 slot, window of 2 requests and 80 tokens, budget of 100, 1 retry, 1 stop, 1 fault, 1 other request | 1,205,049 | the budget's two invariants, permits, cache, margin, packing, no circular wait |
| `indexing` | 2 runs, files a, x, b with shared passages, a may change, x is filtered, 1 retry, 3 attempts | 843,868 | `ChunksOnce`, `NoCircularWait`, `GraphsAreOfFiles`, `IndexingEnds` |
| `documents` | 4 passages, limits 1, 2, 5, 6 divisions, 1 correction, review limits 1 and 2, 3 attempts, 2 errors, 1 edit | 517,650 | the reading is whole, the outline agreed on, the document reviewed |
| `sections` | 3 leaves, 3 sections, scores 0 and 1; 3 attempts of 2 parts, one passage whole or shortened, 1 citation, 3 answers, 1 stray, 1 stop | 4,340,832 | `OwnedOnce`, `SectionIsSound`, `RejectedStaysOut` |
| `event_stream` | 2 requests, pages of 2, a history of 2, 3 ids, 1 resumption, 1 fault, 1 lost connection | 747,561 | `StreamIsComplete` |

**Bounds.** `MaxUserOps` counts starts, resumptions, revisions and settings saves,
`MaxStops` crashes and shutdowns, `MaxFaults` failed statements or connections;
cancel requests are not bounded (one at a time for each run). Runs interact only
through the registry, the slots and the sweep, so the one-run instance carries the
long histories (an attempt, a crash, a sweep with a fault, a second attempt with a
cancellation) and the two-run instance the contention. One automatic resumption
separates "may resume" from "used up". The others in short:

* `publication`: two user operations give a run an attempt that publishes and a
  second one that meets what the first left, or each run one; the edit falls into every
  gap of a save; a fault with a crash separates file, table and journal.
* `requests`: the numbers are chosen so that two requests do not fit the budget
  together with a retry, nor the window together with the other run's, one sample
  calibrates, and one forced margin makes a packed request too large.
* `indexing`: file `a` holds its two passages in either order and `b` shares one of
  them, so an insertion in file order would wait in a circle.
* `documents`: four passages make two levels of reductions and two pages; limit 1 is
  below what may be read at all, 2 splits the long passage, 5 takes all. Three
  attempts see the checkpoints of one that died and of one that gave up. The model's
  settings change at most once, so a change back to the first ones is outside of what
  `OutlineIsGrounded` says here.
* `sections`: three leaves reached by three sections have all ties of one contested
  leaf's winner with another's; three attempts are one writing, one repair of a rejected
  draft and one last chance, two parts one continuation. One passage, shortened or not,
  is gathered anew or shortened between them, so a draft's citation survives or not, and a
  part may cite what it was not given. Splicing a text that was spliced before takes more
  answers than that; only the proof covers it.
* `event_stream`: three ids in pages of two leave one for the drain, and in a history of
  two push one out.

Deadlock checking is off everywhere because the system may stop: a process that went
down need not be started again, and the bounds exhaust the users. `NothingIsStuck`
and `NoCircularWait` say what deadlock freedom would; `NeverStuck`, `NobodyHangs` and
`SomeRunGoesOn` prove, without ENABLED, that some step's condition holds.

`TypeOK` is checked for `RunLifecycle` and proved for it and for `Publication`;
`MemoryTypeOK` is proved for `LeafOwnership`.

**Fairness.** `RunLifecycle!FairSpec`: weak fairness of every worker, of a decided
cancel request, of handlers and sweeps: tokio runs every ready task, each wait inside
a worker has a timeout (run deadline, HTTP, Mermaid) or fails, and the supervisor comes
round every ten seconds. Strong fairness of `AcquireSlot`, because the tokio semaphore
serves its queue first come first served. Nothing is assumed of users, faults,
crashes or restarts. Liveness properties therefore end in "or the process is down"
where a dead process would keep them from being met. `Publication!FairSpec`
additionally lets a stopped service start again, as `PublishedIsSettled` is about
what start-up makes good. `SourceIndex!FairSpec`: weak fairness of each run's
`Progress`; conflicts are bounded by the code's own retries. The other modules state
safety only.

**What `FirmCancelStands` leaves out.** An accepted cancellation is *exposed* when a
shutdown is under way, when the worker had already fixed another status
to record, or when a sweep works from rows selected before it (possible after a
client disconnected and freed the permit). `CancelStands` drops the exception and is
violated; every other accepted cancellation stands across crashes, faults
and sweeps.

## Findings

1. **A cancelled run is resumed** (`cancel_overtaken`). Cancel is answered
   `accepted=true`, a shutdown begins or is already under way, the worker records
   `interrupted`, and the next start-up enqueues the run. `docs/architecture.md:70`
   says a person's cancellation is not resumed automatically.
2. **A run is left `running` without a worker** (`stranded_run`). The process
   restarts while the database is away; the user repairs the connection in the
   settings; `settings_put` stores the pool without `recover`, and the supervisor's
   `reconnect_runs` never selects `running`. The resume button refuses the status.
   A `recover` that fails after `reconnect_database` stored the pool has the same end.
3. **A waiting run is marked failed** (`stale_publication_journal`). An attempt fails
   after writing its publication journal and before replacing the target; the next
   attempt stops to wait for its outline; the next sweep finds the old journal and
   records `failed`, which `continue_outline` does not accept.
4. **A run takes its own document for somebody's edit** (`own_conflict`). The target
   is replaced, the database fails before the commit, the run ends `failed`. Resumed
   before a sweep reconciled the journal, it finds the target changed, saves a
   conflict copy with a warning, and overwrites the journal: the published document
   never becomes an artifact. `docs/verification.md:73` says the two cases are told
   apart. `RecoveredBeforeResumed` and `PublishedIsSettled` say when they are.

## Proofs

Each theorem holds for every value of the constants under the module's own `ASSUME`.

### RunLifecycleProofs

* `TypeCorrect`: `Spec => []TypeOK`.
* `RegistryCorrect`: `Spec => []RegistryInv`. `OneWriterPerTarget` and
  `CancelExcludesPublication` are not inductive: a registration checks only the
  registry, so *registered* and *in the hands of a task* must coincide (`Attended`),
  and the gate excludes the double decision only because an accepted
  cancellation has cancelled the token (`GateOrdered`) and because a new attempt's
  number is larger than any accepted one (`AttemptsOrdered`).
* `OneWriter`, `CancelOrPublish`, `JournalIsCurrent`: what follows from it.
* `SlotsConstant`: free and held slots add up to `max_jobs`. Nothing says that `Runs`
  is finite: that finitely many slots are held is part of the invariant.
* `LiveStatus`, `CompletedStays`: `LiveStatusIsTheWorkers` and `CompletedIsFinal`, from
  `StatusInv`. A sweep writes statuses of rows it selected earlier; that none of them is
  a live or a completed run's rests on the sweep holding the lifecycle permit or working
  before anything is served (`SweepHoldsPermit`), on `recover` having an empty registry
  and its rows being as it found them (`RecoveryAlone`), and on a worker that has not
  begun leaving its row queued (`QueuedWaits`).
* `FirmCancel`: `FirmCancelStands`, from `FirmInv`. While the worker lives, nothing but
  the cancellation will be recorded; after it, the intent is on disk or the row has a
  status nobody selects; and no sweep that has replayed the intents has the run on its
  list.
* `NobodyHangs`: `Spec => []NothingHangs`. A worker without a slot waits for one that has
  it and goes on; whoever holds the lifecycle permit is there to give it back; and a sweep
  or a revision that waits for a registration waits for one that is under way (`HandsInv`).
* `Implementation`: `Spec => ImplementsAttemptGate`, the refinement; each action is
  shown to open, decide or close an attempt or to change nothing the gate sees.

### PublicationProofs

* `TypeCorrect`: a sweep and a worker read a journal without testing that it is
  there, so the proof needs `Exclusive`: an attempt that saves has its journal
  (`JournalKept`), and no attempt runs beside a publication sweep, no start beside any
  sweep, and no two attempts at once (`OneAttempt`).
* `OverwritesKnown`: `KnownOverwritten`, with `TargetKnown`: a run heads for the target
  only if its first hash was the original one, and after the second hash the target
  still holds it or the run is in `late`.
* `ArtifactsOnDisk`: `ArtifactsWereWritten`, from `DocumentsKnown`: documents are older
  than the next content and belong to one run, so a file that holds a run's document
  holds it because that run wrote it.
* `CompletedRecorded`: `CompletedIsRecorded`, from `RecordedInv`: a journal has the id
  and document of the run's last save, that id can only be the newest artifact's, and an
  attempt that may still replace the target is not completed.
* `RecoversBeforeResuming`: `RecoveredBeforeResumed`, from `RecoveryInv`: no attempt runs
  beside a recovery, what its sweep has no longer to handle is settled, and taking up one
  run leaves the others settled, as no other run's publication is mistaken for theirs.

### RequestGateProofs

* `PermitsReturn` (`PermitInv`): every stage of a request is either one that holds a
  permit or one that does not, and every move between them takes or gives one, also
  when the attempt is aborted with all its requests.
* `CacheIsWhole` (`CacheInv`): the stages that lead to the cache carry a whole answer.
* `ChargedBeforeSent`, `NeverOverspent`: `SpendingIsCharged` and `SpendingIsBounded`, from
  `SpendInv` over `MeasureInv` (sizes, samples and reservations are numbers of the right
  sign). What the attempts still hold in reserve (`Owed`) is written as a set with as many
  elements as tokens, so that sums over any finite number of requests are cardinalities:
  while the attempt works, what was asked for and what is owed stay within what is
  reserved in memory; what is reserved is never above `MaxTokens`; and what was asked for
  is never above what is stored, across crashes, lost journals and replays.
* `MarginSurvives` (`MarginInv`): the margin in memory is never below the stored one, so
  no event takes it back, and a replay keeps the stored one. What was forced after the
  last stored event is in neither, and lost with the process (see the differences below).
* `PackedRequestsPass`: `PackedPasses`, from `PackInv`: a batch was cut to what the margin
  remembered with it leaves, the safety margin only grows with the margin, and no density
  the gate learns makes more tokens of a text than it has bytes. So a batch is rejected
  unsent only after the margin grew, or where settings leave nothing to cut to.
* `NeverStuck`: while a request is open, `SomeoneReady` names a step that waits for no
  other request. Whoever waits has its event, and the row's lock belongs to the one whose
  event holds it (`EventsInv`); the requests in flight are the open ones, each once, so the
  oldest of those that are done can be collected (`FlightInv`); who asks for room in the
  window asks for no more than there ever is (`SizedInv`); and a permit is missing only
  while some request holds it.

### DocumentRunProofs

* `OutlineAgreed`: `OutlineWasAgreed`, from `AgreedInv`. Plans are numbered in the order
  they are made and their revisions only grow (`PlansNumbered`), so a review or an
  approval under the pending plan's revision can be of no other plan (`CandidateKnown`),
  also when the plan before it was edited, sent back or given up; and the outline is that
  pending plan, kept (`OutlineKept`).
* `OutlineGrounded`: `OutlineIsGrounded`, from `GroundInv`: a pending plan cites passages
  that are there under the present settings, or was made under the former ones.
* `RepairsKept`: `RepairsAreKept`, from `RepairsInv`. Saved texts only get newer, the
  texts an attempt holds and those a review judged are never newer than the saved ones
  (`TextsKnown`, `ReviewsKnown`), so a repair's text is newer than what was flagged; and a
  round that is behind the attempt has all its repairs marked, or a warning
  (`RoundsKnown`), however many attempts it took.
* `JoinedInOrder`: `JoinedIsOrdered`, from `OrderInv`: a part's sections refer to earlier
  sections of the part, what is gathered to earlier ones of it, and `With` shifts both by
  the same number.
* `SettledReviewed`: `SettledIsReviewed`, from `SettledInv`. An outline's rounds are
  stored without a gap and below the limit of the attempt (`RoundsCounted`); keys are apart
  because names are; and the newest review judged the texts that are saved now, except
  where a repair is marked, or a section was rewritten and the reset of the reviews is still
  due (`LastReviewStands`). `excused` is set in just the histories where that breaks.

* `WholeIsRead`: `ReadingIsWhole`, from `ReadingInv`. While passages are packed, the parts
  in the requests asked for and in the open group are the bytes read up to the place the
  loop has come to (`Packing`), whatever limit each page was packed with. From then on, the
  nodes asked for and the groups still queued unfold to exactly the stored leaves
  (`Leveled`, `Reducing`): a leaf stays a leaf in the levels below it, so a lone child that
  passes through does no harm. Levels and nodes together are never more than the leaves,
  and there are no more leaves than bytes, which is why `Depth` levels are enough to
  unfold any tree. A set of nodes closed under children (`Closed`) stands for the type of
  trees, of which no set can be written down. `GroupEnd` and `Groups` are used by what
  they are: some end that is not before its start, the groups one after the other.
* `PlacesAreFound`: `EveryBranchHasAPlace`, from `PlaceInv`: a division is of the view it
  was made for, because the view changes only while there is a tree to look at. No byte is
  read twice, so no two leaves are alike (`LeavesAreOnce`), so no two nodes of a level have
  leaves in common (`NodesAreApart`), so the groups the model is shown share no branch and
  a branch has at most one owner (`OwnersAreOne`). The level that is shown is at most twice
  as wide as what is aimed at, as the step before it was narrower (`BranchLevelIsNarrow`),
  and so the runs that chapters are cut into (`RunsCut`, `AllCut`) are at most as many as a
  document may have sections (`BatchesFit`). This rests on `PlanningAssumption` (the widest
  view, twice `MostBranches`, can be divided into `MostSections` requests), which holds of
  the program's numbers. Shares are lowered one at a time while one is above one, so they
  come to fit (`SharesFit`).

### SourceIndexProofs

* `GraphsAreCurrent` (`GraphInv`): stage by stage, which of a run's files have graphs and
  that graphs of deleted files are gone before new ones are written.
* `StoredOnce`: `ChunksOnce`, from `IndexInv`: the passages of an open transaction are a
  beginning of its file's in the order of their hashes, and its rows are those up to `next`
  (`RowsKnown`); every row has an id of its own; and the chunks that are stored are just
  those of files whose transaction is done.
* `NoCircle`: `NoCircularWait`, from `LocksApart`: no passage is held by two open
  transactions, because an insert waits for the first one. With rows inserted in hash
  order, the passage a transaction waits for is above all those it holds, so along a
  circle of waits passages would rise without end.
* `SomeRunGoesOn`: while any run indexes, some run can take its next step (`GoesOn`). Only a
  run whose transaction is open is waited for, so the run that waits for no other that
  indexes, which `NoCircle` gives, waits for none; and a task that is not inserting shared
  passages has a step at every place of the walk (`StageInv`).

### SectionWritingProofs

* `LeavesAreOwnedOnce`: sections ask independently, yet agree. The choice at a leaf
  depends only on the choices at the leaves before it (`WinnerDependsBelow`); it is
  unique because score, wins and position order the candidates totally (`OneWinner`), and
  exists because a finite set has a least element (`SomeWinner`, `MinimalElement`); so every
  section's pass repeats the first one's.
* `SectionsAreSound`: `SectionIsSound`, from `SoundInv`: in every text that is kept (the
  draft, the parts in memory and in the checkpoint, the cached answers) each answer was
  asked to go on from what is before it; and a cached answer is newer than everything its
  request holds, so none can be part of its own question. Besides, what each answer in a
  text cites of the passages it was given is in the evidence that is kept with the text:
  parts are written from this attempt's evidence, and a draft is spliced only where its
  citations resolve in it (`TextFrom`), however often a text was spliced before.
* `RejectedIsLost`: `RejectedStaysOut`, from `ThrownInv`: the last answer is cached under
  one request only, the one to which the saved parts lead. Once that entry is forgotten,
  no request leads to the rejected text.

### EventStreamProofs

* `StreamComplete`: `StreamIsComplete`, from `StreamInv`: ids are given out once; an event
  the cursor has passed was sent, or it was committed only after a higher one was there;
  and the end is announced only after an empty page, with all that was committed sent.
  What the page lacks after it got the history is older than all it shows, and it shows
  as many as it keeps.

### DataLemmas

Least elements of finite orders, the largest of finitely many numbers, quotients, and
places in a total order: the prover has no definition of the library's sorting, so the models that
are proved about sort by place (`Passages`: the k-th is the one with k up to it).
Concatenations are unfolded through their beginnings, and what passes on when an element
is appended holds of every sequence (`ByAppending`), stated with a set instead of a
predicate: this replaces the induction theorems that take an operator.

**Only model-checked.** All liveness properties, and the second half of `NothingIsStuck`
(that what `SomeoneReady` names is `ENABLED`), are outside the prover's reach. `NeverStuck`,
`NobodyHangs` and `SomeRunGoesOn` are what can be said of progress without `ENABLED`: they
state the guards of the steps somebody can take, for any number of runs and requests, where
the liveness runs show on small instances that these steps lead to an end. Every other
property of a passing run is a theorem.

## Differences met while modelling

Besides the findings, smaller differences between what comments say and what the code
does. The models follow the code.

* `replay_one_journal` rebuilds the budget without the density samples: a crash before
  the next event forgets a distrusted calibration.
* `runner.rs` 317-320 takes the larger of the stored margin and the journal's, so that "a
  resume starts from what the run already learned"; but `event` writes no `extra_margin`
  into the journal (`context.rs` 212), so that maximum is always the stored margin. What
  the provider forced is kept from the next event that commits on (`StoredMarginGrows`);
  if none does, the resumed run learns it from another rejection.
* The switch away from JSON mode is not stored; a resumed run learns it again.
* The packing limit is read once for a page of 64 passages, so a batch may be refused by
  `budget::check` after the margin grew (`PackedPasses` says when).
* An entry of the rate window ages while the `llm_request` event waits for the database.
* `runner.rs:590` "A later review proves all repairs of this round were committed"
  is not true of a round whose repair was given up with a warning (`RepairsAreKept`
  names the exception); the warnings of unresolved repairs are lost on a resumption.
* A section written anew without resolving its issues is not counted as `changed`
  (`runner.rs` 478-482 and 540-543).
* After three invalid outlines a run waits in `awaiting_outline` without a candidate:
  a revision is refused, only a resumption helps. A revision whose start is refused has
  its receipt all the same. A join of chapters that fails does so in every resumption of
  that revision.
* `SECTION_NO_PROGRESS` in a later part changes the input of the next attempt, so the
  parts written stay under the old input and are used again only after a restart.
* An event may commit after one with a higher id; a stream that has passed it never
  sends it, and the page gets it with the history, if that still reaches back to it. The
  `terminal` event of a failed or cancelled run is inserted after the status, and may be missing from both.
* A page whose stream ended before it learned of the end keeps no stream if the run is
  resumed in between, until that attempt ends.

## Simplifications

Beside what each module names above, some paths are modelled in one place only or as part
of another. None of them changes what a property says.

* `PickRun` of `RunLifecycle`: a sweep's checkpoint loads and writes
  (`maintenance.rs` 57-69) do not fail on their own, only the sweep as a whole. The edit
  found by a recovery (`publish.rs` 154-156) is in `Publication` only.
* `Conflict` of `SourceIndex`: a conflict that the commit itself returns
  (`source.rs` 353-366) is one at the last step before it.
* `KeepAnswer` of `RequestGate`: the usage row, the cache lookup and the cache insert
  (`llm.rs` 380-383, 519, 579) do not fail on their own; `StopAttempt` ends the attempt at
  the same places.
* `SectionCeiling` of `OutlinePlanning` is for a tree with branches; the code uses the
  largest number when there is none (`planning.rs` 300, 382).
* `AddFindings`: findings about sections that cannot be shown (`planning.rs` 936-980) are
  part of the open verdict.

## Not modelled

Text: the parser and code graph, findings, editorial rules, citations, Markdown and
Mermaid validation, prompts, filters, ranking and decoding of answers are functions
from text to text without state; where their verdict decides the control, it is a
nondeterministic choice. Operating system: the launcher scripts, the HTTP server, local
file failures. Outside what a small instance can hold: the `LIMIT 10` of
`reconnect_runs`, quarantined journals, several processes on one data directory. API
handlers that are one statement or a query: task editing, exports, authentication,
model listing. `PROJECT.json` gives the status and reason for each component.
