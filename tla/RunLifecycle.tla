---------------------------- MODULE RunLifecycle ----------------------------
(***************************************************************************)
(* The life of a documentation run in the backend: admission into the      *)
(* in-memory registry (runner.rs enqueue), its worker task (spawn_worker), *)
(* cancellation (api.rs request_cancel), the settings gate, graceful       *)
(* shutdown, process death, and the two background sweeps that put runs    *)
(* back to work: recover (start-up and database reconnection) and the      *)
(* supervisor's reconnect_runs (maintenance.rs).                           *)
(*                                                                         *)
(* Three stores are kept apart because a failure separates them: process   *)
(* memory (lost when the process dies), MariaDB (any statement may fail),  *)
(* and the data directory, which holds one terminal journal and one        *)
(* publication journal for each run.  What a worker computes is abstracted *)
(* to how its attempt can end; the target file is abstracted to whether    *)
(* the run's publication journal describes a target already replaced.      *)
(***************************************************************************)
EXTENDS Integers, FiniteSets

CONSTANTS
  Runs,           \* run ids
  Targets,        \* normalised output paths (output_key)
  TargetOf,       \* the output path in each run's snapshot
  NoRun,          \* no run: the sweep is not working on one
  QueueMax,       \* registry capacity (64 in enqueue)
  MaxRecoveries,  \* automatic resumptions after database failures (3)
  JobLimits,      \* values the max_jobs setting may take
  MaxUserOps,     \* bound: user operations that start a run or save settings
  MaxStops,       \* bound: process crashes and shutdowns
  MaxFaults       \* bound: failed database statements and connections

ASSUME ConstantsAssumption ==
  /\ IsFiniteSet(Runs) /\ NoRun \notin Runs
  /\ TargetOf \in [Runs -> Targets]
  /\ QueueMax \in Nat /\ MaxRecoveries \in Nat
  /\ JobLimits \subseteq Nat \ {0} /\ JobLimits # {}
  /\ MaxUserOps \in Nat /\ MaxStops \in Nat /\ MaxFaults \in Nat

VARIABLES
  proc,         \* "down", "starting" (recover runs before serving) or "up"
  shutdown,     \* AppState.shutdown is cancelled
  pool,         \* AppState.pool holds a connection pool
  lifecycle,    \* who holds the one lifecycle permit
  controls,     \* AppState.controls: the registered attempt of a run, 0 if none
  token,        \* the registered attempt's CancellationToken is cancelled
  published,    \* the registered attempt's CommitGate.published
  worker,       \* where the registration or worker task of a run stands
  fate,         \* the status an ended attempt is about to record
  jobs,         \* available permits of the jobs semaphore
  maxJobs,      \* the saved max_jobs setting
  sweep,        \* stage of the running recovery or supervision sweep
  recovering,   \* the sweep is recover, not reconnect_runs
  todo,         \* rows the sweep selected and has not handled
  cur,          \* the run the sweep, or a revision, is enqueuing
  asking,       \* attempt a cancel request looked up and has not decided on
  status,       \* runs.status, with its error folded in
  recoveries,   \* the db_recoveries checkpoint
  terminal,     \* terminal/{id}.json: the status it holds, or "none"
  publication,  \* publications/{id}.json: "none", "written" or "replaced"
  attempts,     \* attempts registered so far for a run
  accepted,     \* attempt whose cancellation was accepted since the user last
                \* started the run, 0 if none
  exposed,      \* runs with an accepted cancellation that a finishing worker, a
                \* shutdown or a sweep's stale selection may overtake
  userOps, stops, faults   \* counters of the bounds

server   == <<proc, shutdown, pool, lifecycle>>
registry == <<controls, token, published, worker, fate>>
slots    == <<jobs, maxJobs>>
sweeping == <<sweep, recovering, todo, cur>>
database == <<status, recoveries>>
disk     == <<terminal, publication>>
history  == <<attempts, accepted, exposed>>
bounds   == <<userOps, stops, faults>>

vars == <<server, registry, slots, sweeping, asking, database, disk, history,
          bounds>>

-----------------------------------------------------------------------------
\* "warned" is completed_with_warnings, "awaiting" both awaiting_* statuses,
\* "db_failed" is failed with an error that starts with DB_UNAVAILABLE.
Completed == {"completed", "warned"}
Ended     == {"failed", "db_failed", "awaiting", "cancelled", "interrupted"}
Status    == {"none", "queued", "running"} \cup Completed \cup Ended
Resumable == Ended \cup {"warned"}

\* Mutant: recover does not select queued runs.
UnfinishedNotQueued == {"running", "interrupted"}

\* What recover selects (runner.rs 211).
Unfinished == {"running", "queued", "interrupted"}

HoldsSlot == {"starting", "running", "publishing", "committing", "committed",
              "reconciling"}
\* The worker has fixed the status it will record (runner.rs 154-165).
Finishing == {"journalling", "updating", "erasing", "leaving"}
Phase     == {"idle", "registering", "waiting", "ended"} \cup HoldsSlot
             \cup Finishing

Registered == {r \in Runs : controls[r] # 0}

DbOk    == UNCHANGED faults
DbFault == faults < MaxFaults /\ faults' = faults + 1

\* Mutant: the output path is not compared with the active runs'.
AdmissibleAnyTarget(r) ==
  controls[r] = 0 /\ Cardinality(Registered) < QueueMax

\* enqueue's checks under the registry lock (runner.rs 55-67).
Admissible(r) ==
  /\ controls[r] = 0
  /\ \A s \in Registered : TargetOf[s] # TargetOf[r]
  /\ Cardinality(Registered) < QueueMax

Init ==
  /\ proc = "up" /\ shutdown = FALSE /\ pool = TRUE /\ lifecycle = "free"
  /\ controls = [r \in Runs |-> 0]
  /\ token = [r \in Runs |-> FALSE]
  /\ published = [r \in Runs |-> FALSE]
  /\ worker = [r \in Runs |-> "idle"]
  /\ fate = [r \in Runs |-> "none"]
  /\ maxJobs \in JobLimits /\ jobs = maxJobs
  /\ sweep = "off" /\ recovering = FALSE /\ todo = {} /\ cur = NoRun
  /\ asking = [r \in Runs |-> 0]
  /\ status = [r \in Runs |-> "none"]
  /\ recoveries = [r \in Runs |-> 0]
  /\ terminal = [r \in Runs |-> "none"]
  /\ publication = [r \in Runs |-> "none"]
  /\ attempts = [r \in Runs |-> 0]
  /\ accepted = [r \in Runs |-> 0]
  /\ exposed = {}
  /\ userOps = 0 /\ stops = 0 /\ faults = 0

-----------------------------------------------------------------------------
(* Registration: enqueue (runner.rs 39-118). *)

\* Mutant: a new attempt leaves the previous attempt's terminal journal.
KeepTerminal(r) == terminal

\* A new attempt supersedes the previous attempt's terminal journal.
SupersedeTerminal(r) == [terminal EXCEPT ![r] = "none"]

\* The critical section under the registry lock. The caller holds the lifecycle
\* permit; the database statement that follows runs in a task of its own.
Register(r) ==
  /\ Admissible(r)
  /\ attempts' = [attempts EXCEPT ![r] = @ + 1]
  /\ controls' = [controls EXCEPT ![r] = attempts[r] + 1]
  /\ worker' = [worker EXCEPT ![r] = "registering"]
  /\ terminal' = SupersedeTerminal(r)
  /\ UNCHANGED <<token, published, fate, publication>>

\* controls.remove(id), and the end of the task that did it.
Unregister(r) ==
  /\ controls' = [controls EXCEPT ![r] = 0]
  /\ token' = [token EXCEPT ![r] = FALSE]
  /\ published' = [published EXCEPT ![r] = FALSE]
  /\ worker' = [worker EXCEPT ![r] = "idle"]
  /\ fate' = [fate EXCEPT ![r] = "none"]

Serving == proc = "up" /\ pool

\* A client that disconnects frees the permit while its run is registering: a
\* sweep then meets the row as the previous attempt left it.
BehindSweep(r) ==
  \/ r \in todo
  \/ sweep = "resume" /\ cur = r
  \/ /\ sweep # "off" /\ worker[r] = "registering"
     /\ ~(sweep = "registering" /\ cur = r)

\* start (attempts[r] = 0: a fresh id), resume_run and continue_outline. The
\* user asks for this attempt, so an earlier accepted cancellation is settled.
UserEnqueue(r) ==
  /\ Serving /\ lifecycle = "free" /\ userOps < MaxUserOps
  /\ attempts[r] = 0 \/ status[r] \in Resumable
  /\ Register(r)
  /\ lifecycle' = "api"
  /\ accepted' = [accepted EXCEPT ![r] = 0]
  /\ exposed' = exposed \ {r}
  /\ userOps' = userOps + 1
  /\ UNCHANGED <<proc, shutdown, pool, slots, sweeping, asking, database, stops,
                 faults>>

\* revise_inner: the edit's transaction sets awaiting_outline whatever the
\* status was, then the run is enqueued unless its output path is busy.
ReviseOutline(r) ==
  /\ Serving /\ lifecycle = "free" /\ userOps < MaxUserOps
  /\ controls[r] = 0 /\ status[r] # "none"
  /\ status' = [status EXCEPT ![r] = "awaiting"]
  /\ userOps' = userOps + 1
  /\ IF Admissible(r)
       THEN /\ Register(r) /\ lifecycle' = "revision" /\ cur' = r
            /\ accepted' = [accepted EXCEPT ![r] = 0]
            /\ exposed' = exposed \ {r}
       ELSE UNCHANGED <<registry, disk, history, lifecycle, cur>>
  /\ UNCHANGED <<proc, shutdown, pool, slots, sweep, recovering, todo, asking,
                 recoveries, stops, faults>>

\* A start or resume request returns, or its client disconnects while the
\* registration goes on; a revision runs in a task that nothing interrupts.
ReleaseApiPermit ==
  /\ \/ lifecycle = "api"
     \/ lifecycle = "revision" /\ worker[cur] # "registering"
  /\ lifecycle' = "free" /\ cur' = NoRun
  /\ UNCHANGED <<proc, shutdown, pool, registry, slots, sweep, recovering, todo,
                 asking, database, disk, history, bounds>>

\* What the sweep that is waiting for r's registration does next.
SweepAfter(r, next) ==
  /\ sweep' = IF sweep = "registering" /\ cur = r THEN next ELSE sweep
  /\ UNCHANGED <<recovering, todo, cur>>

RegistrationStored(r) ==
  /\ worker[r] = "registering" /\ DbOk
  /\ status' = [status EXCEPT ![r] = "queued"]
  /\ worker' = [worker EXCEPT ![r] = "waiting"]
  /\ SweepAfter(r, "enqueue")
  /\ UNCHANGED <<server, controls, token, published, fate, slots, asking,
                 recoveries, disk, history, userOps, stops>>

\* The statement fails, though the server may have applied it.
RegistrationFailed(r) ==
  /\ worker[r] = "registering" /\ DbFault
  /\ Unregister(r)
  /\ \/ UNCHANGED status
     \/ status' = [status EXCEPT ![r] = "queued"]
  /\ SweepAfter(r, IF recovering THEN "refused" ELSE "enqueue")
  /\ UNCHANGED <<server, slots, asking, recoveries, disk, history, userOps, stops>>

-----------------------------------------------------------------------------
(* The worker task: spawn_worker (runner.rs 120-194) around execute. *)

\* Mutant: the job slot is not released.
EndKeepsSlot(r, outcome) ==
  /\ worker' = [worker EXCEPT ![r] = "ended"]
  /\ fate' = [fate EXCEPT ![r] = outcome]
  /\ UNCHANGED <<controls, token, published, slots>>

\* The attempt is over with outcome Err: the job slot is released.
End(r, outcome) ==
  /\ worker' = [worker EXCEPT ![r] = "ended"]
  /\ fate' = [fate EXCEPT ![r] = outcome]
  /\ jobs' = IF worker[r] \in HoldsSlot THEN jobs + 1 ELSE jobs
  /\ UNCHANGED <<controls, token, published, maxJobs>>

Move(r, from, to) ==
  worker[r] = from /\ worker' = [worker EXCEPT ![r] = to]

AcquireSlot(r) ==
  /\ Move(r, "waiting", "starting")
  /\ jobs > 0 /\ jobs' = jobs - 1
  /\ UNCHANGED <<server, controls, token, published, fate, maxJobs, sweeping,
                 asking, database, disk, history, bounds>>

\* The budget checkpoint is read and runs.status set to running.
StartExecution(r) ==
  /\ Move(r, "starting", "running") /\ DbOk
  /\ status' = [status EXCEPT ![r] = "running"]
  /\ UNCHANGED <<server, controls, token, published, fate, slots, sweeping,
                 asking, recoveries, disk, history, userOps, stops>>

\* Some branch of a select sees the cancelled token, or check() sees the token
\* or the shutdown: the error is CANCELLED.
ObserveCancel(r) ==
  /\ \/ token[r] /\ worker[r] \in {"waiting", "running", "publishing",
                                   "committing", "committed"}
     \/ shutdown /\ worker[r] \in {"running", "publishing"}
  /\ End(r, "failed")
  /\ UNCHANGED <<server, sweeping, asking, database, disk, history, bounds>>

\* The pipeline stops with an error, or with a budget spent before an outline
\* was approved; "publishing" covers a target that changed under the save.
ExecutionFails(r) ==
  /\ \/ worker[r] = "running" /\ \E o \in {"failed", "awaiting"} : End(r, o)
     \/ worker[r] = "publishing" /\ End(r, "failed")
  /\ UNCHANGED <<server, sweeping, asking, database, disk, history, bounds>>

\* A statement of the attempt fails with a connection-level error. The commit of
\* a partial document (publish_partial) is outside the part recover_run guards.
DatabaseLost(r) ==
  /\ worker[r] \in {"starting", "running", "committing", "reconciling"}
  /\ DbFault
  /\ End(r, "db_failed")
  /\ UNCHANGED <<server, sweeping, asking, database, disk, history, userOps,
                 stops>>

\* publish::save up to its second check: the publication journal is on disk.
JournalPublication(r) ==
  /\ Move(r, "running", "publishing")
  /\ publication' = [publication EXCEPT ![r] = "written"]
  /\ UNCHANGED <<server, controls, token, published, fate, slots, sweeping,
                 asking, database, terminal, history, bounds>>

\* Mutant: the target is replaced without the final look at the token.
ReplaceUnchecked(r) == TRUE

\* The final cancellation check of save, made under the commit gate.
MayReplace(r) == ~token[r]

\* The gate's critical section: check, replace the target, mark published.
ReplaceTarget(r) ==
  /\ Move(r, "publishing", "committing")
  /\ MayReplace(r)
  /\ publication' = [publication EXCEPT ![r] = "replaced"]
  /\ published' = [published EXCEPT ![r] = TRUE]
  /\ UNCHANGED <<server, controls, token, fate, slots, sweeping, asking,
                 database, terminal, history, bounds>>

CommitPublication(r) ==
  /\ Move(r, "committing", "committed") /\ DbOk
  /\ \E s \in Completed : status' = [status EXCEPT ![r] = s]
  /\ UNCHANGED <<server, controls, token, published, fate, slots, sweeping,
                 asking, recoveries, disk, history, userOps, stops>>

\* The commit's outcome is lost to the worker, by a fault or by the run's
\* deadline: not applied, or applied and unacknowledged. Err with published set
\* leads to recover_run.
CommitUnknown(r) ==
  /\ Move(r, "committing", "reconciling") /\ (DbOk \/ DbFault)
  /\ \/ UNCHANGED status
     \/ \E s \in Completed : status' = [status EXCEPT ![r] = s]
  /\ UNCHANGED <<server, controls, token, published, fate, slots, sweeping,
                 asking, recoveries, disk, history, userOps, stops>>

\* The end of save, or recover_run's second commit: the journal is removed and
\* the attempt ends with Ok.
FinishPublication(r) ==
  /\ worker[r] \in {"committed", "reconciling"} /\ DbOk
  /\ \/ worker[r] = "committed" /\ UNCHANGED status
     \/ /\ worker[r] = "reconciling"
        /\ \E s \in Completed : status' = [status EXCEPT ![r] = s]
  /\ publication' = [publication EXCEPT ![r] = "none"]
  /\ worker' = [worker EXCEPT ![r] = "leaving"]
  /\ jobs' = jobs + 1
  /\ UNCHANGED <<server, controls, token, published, fate, maxJobs, sweeping,
                 asking, recoveries, terminal, history, userOps, stops>>

\* Mutants: the cancelled token is not looked at; the status shown while a worker
\* is being cancelled is recorded.
FateIgnoresToken(r) == IF shutdown THEN "interrupted" ELSE fate[r]
FateAsDisplayed(r) == IF token[r] THEN "cancelling" ELSE fate[r]

\* The status an Err outcome is recorded as (runner.rs 154-165).
FateOf(r) == CASE shutdown -> "interrupted"
               [] token[r] /\ ~shutdown -> "cancelled"
               [] OTHER -> fate[r]

Conclude(r) ==
  /\ Move(r, "ended", "journalling")
  /\ fate' = [fate EXCEPT ![r] = FateOf(r)]
  /\ UNCHANGED <<server, controls, token, published, slots, sweeping, asking,
                 database, disk, history, bounds>>

WriteTerminal(r) ==
  /\ Move(r, "journalling", "updating")
  /\ terminal' = [terminal EXCEPT ![r] = fate[r]]
  /\ UNCHANGED <<server, controls, token, published, fate, slots, sweeping,
                 asking, database, publication, history, bounds>>

\* Mutant: the status guard of the update is gone.
RecordAlways(old, new) == new

\* UPDATE runs SET status=? ... AND status NOT IN (completed statuses): no effect
\* on a completed run or on one whose row was never inserted.
Recorded(old, new) == IF old \in Completed \cup {"none"} THEN old ELSE new

UpdateStatus(r) ==
  /\ \/ /\ Move(r, "updating", "erasing") /\ DbOk
        /\ status' = [status EXCEPT ![r] = Recorded(@, fate[r])]
     \/ /\ Move(r, "updating", "leaving") /\ DbFault
        /\ \/ UNCHANGED status
           \/ status' = [status EXCEPT ![r] = Recorded(@, fate[r])]
  /\ UNCHANGED <<server, controls, token, published, fate, slots, sweeping,
                 asking, recoveries, disk, history, userOps, stops>>

EraseTerminal(r) ==
  /\ Move(r, "erasing", "leaving")
  /\ terminal' = [terminal EXCEPT ![r] = "none"]
  /\ UNCHANGED <<server, controls, token, published, fate, slots, sweeping,
                 asking, database, publication, history, bounds>>

Leave(r) ==
  /\ worker[r] = "leaving" /\ Unregister(r)
  /\ UNCHANGED <<server, slots, sweeping, asking, database, disk, history,
                 bounds>>

-----------------------------------------------------------------------------
(* Cancellation: request_cancel (api.rs 545-583). *)

CancelLookup(r) ==
  /\ proc = "up" /\ controls[r] # 0 /\ asking[r] = 0
  /\ asking' = [asking EXCEPT ![r] = controls[r]]
  /\ UNCHANGED <<server, registry, slots, sweeping, database, disk, history,
                 bounds>>

\* Mutant: the publication flag is not looked at.
StillRegistered(r) == controls[r] = asking[r]

\* Under gate and registry locks: same attempt, target not replaced yet.
StillCancellable(r) == controls[r] = asking[r] /\ ~published[r]

\* Mutant: the token is cancelled but the intent is not written first.
NoIntent(r) == terminal

\* The intent is persisted before the worker is woken.
PersistIntent(r) == [terminal EXCEPT ![r] = "cancelled"]

\* The second half, atomic because it holds both locks. An acceptance is exposed
\* when the worker has already fixed another status to record, a shutdown will
\* make it record interrupted, or a sweep works from the row as it was before.
CancelDecide(r) ==
  /\ asking[r] # 0
  /\ asking' = [asking EXCEPT ![r] = 0]
  /\ IF StillCancellable(r)
       THEN /\ terminal' = IF token[r] THEN terminal ELSE PersistIntent(r)
            /\ token' = [token EXCEPT ![r] = TRUE]
            /\ accepted' = [accepted EXCEPT ![r] = asking[r]]
            /\ exposed' = IF \/ shutdown \/ BehindSweep(r)
                             \/ worker[r] \in Finishing /\ ~token[r]
                            THEN exposed \cup {r} ELSE exposed
       ELSE UNCHANGED <<terminal, token, accepted, exposed>>
  /\ UNCHANGED <<server, controls, published, worker, fate, slots, sweeping,
                 database, publication, attempts, bounds>>

-----------------------------------------------------------------------------
(* Process: main.rs, AppState::stop_all. *)

\* Process memory is gone; the database and the data directory stay.
Die ==
  /\ proc' = "down" /\ shutdown' = FALSE /\ pool' = FALSE
  /\ lifecycle' = "free"
  /\ controls' = [r \in Runs |-> 0]
  /\ token' = [r \in Runs |-> FALSE]
  /\ published' = [r \in Runs |-> FALSE]
  /\ worker' = [r \in Runs |-> "idle"]
  /\ fate' = [r \in Runs |-> "none"]
  /\ jobs' = maxJobs
  /\ sweep' = "off" /\ recovering' = FALSE /\ todo' = {} /\ cur' = NoRun
  /\ asking' = [r \in Runs |-> 0]
  /\ UNCHANGED <<maxJobs, database, disk, history>>

Crash ==
  /\ proc # "down" /\ stops < MaxStops /\ stops' = stops + 1
  /\ Die
  /\ UNCHANGED <<userOps, faults>>

\* Ctrl-C: the shutdown token first, then stop_all.
BeginShutdown ==
  /\ proc = "up" /\ ~shutdown /\ stops < MaxStops /\ stops' = stops + 1
  /\ shutdown' = TRUE
  /\ exposed' = exposed \cup {r \in Registered : /\ accepted[r] = controls[r]
                                                 /\ worker[r] \notin Finishing}
  /\ UNCHANGED <<proc, pool, lifecycle, registry, slots, sweeping, asking,
                 database, disk, attempts, accepted, userOps, faults>>

StopAll ==
  /\ shutdown /\ \E r \in Registered : ~token[r]
  /\ token' = [r \in Runs |-> controls[r] # 0]
  /\ UNCHANGED <<server, controls, published, worker, fate, slots, sweeping,
                 asking, database, disk, history, bounds>>

Exit ==
  /\ shutdown /\ \A r \in Registered : token[r]
  /\ Die /\ UNCHANGED bounds

\* Start-up connects and, with a pool, runs recover before serving.
Restart ==
  /\ proc = "down"
  /\ \/ /\ DbOk /\ proc' = "starting" /\ pool' = TRUE
        /\ sweep' = "terminal" /\ recovering' = TRUE
     \/ DbFault /\ proc' = "up" /\ UNCHANGED <<pool, sweep, recovering>>
  /\ UNCHANGED <<shutdown, lifecycle, registry, slots, todo, cur, asking,
                 database, disk, history, userOps, stops>>

-----------------------------------------------------------------------------
(* The sweeps: recover (runner.rs 203-234) and reconnect_runs, which the     *)
(* supervisor calls every ten seconds (maintenance.rs 10-73).                *)

BeginSweep ==
  /\ proc = "up" /\ ~shutdown /\ lifecycle = "free" /\ sweep = "off"
  /\ lifecycle' = "maintenance" /\ sweep' = "terminal"
  /\ pool' = TRUE /\ recovering' = ~pool
  /\ exposed' = exposed \cup {r \in Registered : /\ worker[r] = "registering"
                                                 /\ accepted[r] = controls[r]}
  /\ UNCHANGED <<proc, shutdown, registry, slots, todo, cur, asking, database,
                 disk, attempts, accepted, bounds>>

\* Mutant: an error leaves the lifecycle permit taken.
AbortKeepsPermit ==
  IF proc = "starting" THEN Die
  ELSE /\ sweep' = "off" /\ recovering' = FALSE /\ todo' = {} /\ cur' = NoRun
       /\ UNCHANGED <<server, registry, slots, asking, database, disk, history>>

\* An error ends the sweep: start-up gives up, the supervisor ignores it.
AbortSweep ==
  IF proc = "starting" THEN Die
  ELSE /\ lifecycle' = "free" /\ sweep' = "off" /\ recovering' = FALSE
       /\ todo' = {} /\ cur' = NoRun
       /\ UNCHANGED <<proc, shutdown, pool, registry, slots, asking, database,
                      disk, history>>

SweepFault ==
  /\ sweep \in {"terminal", "publications", "select", "refused"}
  /\ DbFault /\ AbortSweep /\ UNCHANGED <<userOps, stops>>

\* Mutant: a journal is replayed although its run is active again.
ReplayableAny == {r \in Runs : terminal[r] # "none"}

\* Terminal journals of runs that are not registered.
Replayable == {r \in Runs : terminal[r] # "none" /\ controls[r] = 0}

ReplayTerminals ==
  /\ sweep = "terminal" /\ DbOk
  /\ status' = [r \in Runs |-> IF r \in Replayable
                               THEN Recorded(status[r], terminal[r])
                               ELSE status[r]]
  /\ terminal' = [r \in Runs |-> IF r \in Replayable THEN "none"
                                 ELSE terminal[r]]
  /\ sweep' = "publications"
  /\ UNCHANGED <<server, registry, slots, recovering, todo, cur, asking,
                 recoveries, publication, history, userOps, stops>>

\* publish::recover: a journal whose target was replaced is committed and
\* removed; any other marks its run failed and stays where it is. The
\* supervisor skips this while a run is registered.
RecoverPublications ==
  /\ sweep = "publications" /\ DbOk
  /\ IF recovering \/ Registered = {}
       THEN \E done \in [Runs -> Completed] :
              status' = [r \in Runs |->
                CASE publication[r] = "replaced" -> done[r]
                  [] publication[r] = "written" -> Recorded(status[r], "failed")
                  [] OTHER -> status[r]]
       ELSE UNCHANGED status
  /\ publication' = [r \in Runs |->
       IF publication[r] = "replaced" /\ (recovering \/ Registered = {})
         THEN "none" ELSE publication[r]]
  /\ sweep' = "select"
  /\ UNCHANGED <<server, registry, slots, recovering, todo, cur, asking,
                 recoveries, terminal, history, userOps, stops>>

SelectRuns ==
  /\ sweep = "select" /\ DbOk
  /\ todo' = {r \in Runs : status[r] \in IF recovering THEN Unfinished
                                         ELSE {"db_failed"}}
  /\ sweep' = "enqueue"
  /\ UNCHANGED <<server, registry, slots, recovering, cur, asking, database,
                 disk, history, userOps, stops>>

MayRecover(r) == recoveries[r] < MaxRecoveries

\* The next row. The supervisor charges the recovery before it enqueues.
PickRun(r) ==
  /\ sweep = "enqueue" /\ r \in todo /\ DbOk
  /\ todo' = todo \ {r}
  /\ IF recovering \/ MayRecover(r)
       THEN cur' = r /\ sweep' = "resume"
       ELSE UNCHANGED <<cur, sweep>>
  /\ recoveries' = IF ~recovering /\ MayRecover(r)
                     THEN [recoveries EXCEPT ![r] = @ + 1] ELSE recoveries
  /\ UNCHANGED <<server, registry, slots, recovering, asking, status, disk,
                 history, userOps, stops>>

\* The sweep calls enqueue; recover marks a refused run failed.
AutoEnqueue(r) ==
  /\ sweep = "resume" /\ cur = r
  /\ IF Admissible(r)
       THEN /\ Register(r) /\ sweep' = "registering"
            /\ UNCHANGED <<accepted, exposed>>
       ELSE /\ sweep' = IF recovering THEN "refused" ELSE "enqueue"
            /\ UNCHANGED <<registry, disk, history>>
  /\ UNCHANGED <<server, slots, recovering, todo, cur, asking, database, bounds>>

MarkRefused ==
  /\ sweep = "refused" /\ DbOk
  /\ status' = [status EXCEPT ![cur] = "failed"]
  /\ sweep' = "enqueue"
  /\ UNCHANGED <<server, registry, slots, recovering, todo, cur, asking,
                 recoveries, disk, history, userOps, stops>>

FinishSweep ==
  /\ sweep = "enqueue" /\ todo = {}
  /\ sweep' = "off" /\ recovering' = FALSE /\ cur' = NoRun
  /\ proc' = "up" /\ lifecycle' = "free"
  /\ UNCHANGED <<shutdown, pool, registry, slots, todo, asking, database, disk,
                 history, bounds>>

-----------------------------------------------------------------------------
(* Settings: settings_put (api.rs 297-334). *)

NoActiveRun == Registered = {}

BeginSettings ==
  /\ proc = "up" /\ lifecycle = "free" /\ userOps < MaxUserOps
  /\ NoActiveRun
  /\ lifecycle' = "settings" /\ userOps' = userOps + 1
  /\ UNCHANGED <<proc, shutdown, pool, registry, slots, sweeping, asking,
                 database, disk, history, stops, faults>>

\* adjust_slots: add the difference, or forget it from the free permits.
AdjustSlots(old, new) ==
  IF new > old THEN jobs + (new - old)
  ELSE IF jobs < old - new THEN 0 ELSE jobs - (old - new)

\* The connection succeeds and everything is saved, or nothing is.
FinishSettings ==
  /\ lifecycle = "settings" /\ lifecycle' = "free"
  /\ \/ /\ DbOk /\ pool' = TRUE
        /\ \E n \in JobLimits : maxJobs' = n /\ jobs' = AdjustSlots(maxJobs, n)
     \/ DbFault /\ UNCHANGED <<pool, slots>>
  /\ UNCHANGED <<proc, shutdown, registry, sweeping, asking, database, disk,
                 history, userOps, stops>>

-----------------------------------------------------------------------------
WorkerStep(r) ==
  \/ RegistrationStored(r) \/ RegistrationFailed(r)
  \/ AcquireSlot(r) \/ StartExecution(r) \/ ObserveCancel(r)
  \/ ExecutionFails(r) \/ DatabaseLost(r)
  \/ JournalPublication(r) \/ ReplaceTarget(r) \/ CommitPublication(r)
  \/ CommitUnknown(r) \/ FinishPublication(r)
  \/ Conclude(r) \/ WriteTerminal(r) \/ UpdateStatus(r) \/ EraseTerminal(r)
  \/ Leave(r)

SweepStep ==
  \/ SweepFault \/ ReplayTerminals \/ RecoverPublications \/ SelectRuns
  \/ (\E r \in Runs : PickRun(r) \/ AutoEnqueue(r))
  \/ MarkRefused \/ FinishSweep

Next ==
  \/ \E r \in Runs : \/ UserEnqueue(r) \/ ReviseOutline(r) \/ WorkerStep(r)
                     \/ CancelLookup(r) \/ CancelDecide(r)
  \/ ReleaseApiPermit
  \/ Crash \/ BeginShutdown \/ StopAll \/ Exit \/ Restart
  \/ BeginSweep \/ SweepStep
  \/ BeginSettings \/ FinishSettings

Spec == Init /\ [][Next]_vars

-----------------------------------------------------------------------------
(* Fairness. Tokio runs every ready task, each wait of a worker has a timeout  *)
(* or fails (the run deadline, the Mermaid and HTTP timeouts), the semaphore   *)
(* of the job slots is first come first served, and the supervisor comes round *)
(* every ten seconds. Faults, stops and user operations are never fair, and a  *)
(* process that went down need not be started again.                           *)
Fairness ==
  /\ \A r \in Runs : WF_vars(WorkerStep(r)) /\ SF_vars(AcquireSlot(r))
  /\ \A r \in Runs : WF_vars(CancelDecide(r))
  /\ WF_vars(ReleaseApiPermit) /\ WF_vars(FinishSettings)
  /\ WF_vars(BeginSweep) /\ WF_vars(SweepStep)
  /\ WF_vars(StopAll) /\ WF_vars(Exit)

FairSpec == Spec /\ Fairness

-----------------------------------------------------------------------------
(* What is promised of the registry and the gate: AttemptGate *)

\* What the registered attempt of r has been decided for.
Decision(r) ==
  IF controls[r] = 0 THEN "open"
  ELSE IF published[r]
    THEN IF accepted[r] = controls[r] THEN "both" ELSE "published"
    ELSE IF accepted[r] = controls[r] THEN "cancelled" ELSE "open"

Gate == INSTANCE AttemptGate WITH
          opened <- attempts, attempt <- controls,
          decision <- [r \in Runs |-> Decision(r)]

-----------------------------------------------------------------------------
(* Properties *)

\* Seen from outside, every step of requests, workers, sweeps and crashes opens,
\* decides once or closes an attempt.
ImplementsAttemptGate == Gate!GateSpec

TypeOK ==
  /\ proc \in {"down", "starting", "up"}
  /\ shutdown \in BOOLEAN /\ pool \in BOOLEAN
  /\ lifecycle \in {"free", "api", "revision", "maintenance", "settings"}
  /\ controls \in [Runs -> Nat] /\ attempts \in [Runs -> Nat]
  /\ accepted \in [Runs -> Nat] /\ asking \in [Runs -> Nat]
  /\ token \in [Runs -> BOOLEAN] /\ published \in [Runs -> BOOLEAN]
  /\ worker \in [Runs -> Phase]
  /\ fate \in [Runs -> Ended \cup {"none"}]
  /\ jobs \in Nat /\ maxJobs \in JobLimits
  /\ sweep \in {"off", "terminal", "publications", "select", "enqueue",
                "resume", "registering", "refused"}
  /\ recovering \in BOOLEAN /\ todo \subseteq Runs /\ cur \in Runs \cup {NoRun}
  /\ status \in [Runs -> Status] /\ recoveries \in [Runs -> Nat]
  /\ terminal \in [Runs -> Ended \cup {"none"}]
  /\ publication \in [Runs -> {"none", "written", "replaced"}]
  /\ exposed \subseteq Runs
  /\ userOps \in Nat /\ stops \in Nat /\ faults \in Nat

\* Two runs that write the same output path are never active at once, whichever
\* of the API, start-up recovery or the supervisor started them.
OneWriterPerTarget ==
  \A r, s \in Runs : r # s /\ worker[r] # "idle" /\ worker[s] # "idle"
                      => TargetOf[r] # TargetOf[s]

\* The job semaphore's free permits and the slots held by workers always add up
\* to the saved max_jobs, through crashes, cancelled waits and changed settings.
SlotsConserved ==
  jobs + Cardinality({r \in Runs : worker[r] \in HoldsSlot}) = maxJobs

\* A cancel request answered accepted and a replaced target exclude each other
\* within one attempt (the commit gate).
CancelExcludesPublication ==
  \A r \in Registered : ~(published[r] /\ accepted[r] = controls[r])

\* After an accepted cancellation neither recovery nor the supervisor starts the
\* run again; only the user does. Exposed runs, which CancelStands shows to need
\* the exception, are left out.
FirmCancelStands ==
  \A r \in Registered : accepted[r] # 0 /\ r \notin exposed
                          => controls[r] = accepted[r]

\* The same promise for every accepted cancellation.
CancelStands ==
  \A r \in Registered : accepted[r] # 0 => controls[r] = accepted[r]

\* The terminal journal of a registered run is its present attempt's: an earlier
\* attempt's never survives into a new one, to be replayed over its result.
JournalOfThisAttempt ==
  \A r \in Registered : terminal[r] # "none"
                          => token[r] \/ worker[r] \in Finishing

\* No sweep, journal replay or late worker takes a completed status back: it
\* changes only when the user resumes or revises the run.
CompletedIsFinal ==
  [][\A r \in Runs : status[r] \in Completed /\ status'[r] \notin Completed
       => (controls[r] # 0 /\ status'[r] = "queued") \/ userOps' # userOps]_vars

\* While an attempt is registered its status moves only along its own steps: no
\* sweep records another end for it.
LiveStatusIsTheWorkers ==
  [][\A r \in Registered :
       status'[r] # status[r] /\ worker[r] # "updating"
       => status'[r] \in {"queued", "running"} \cup Completed
          /\ worker'[r] # worker[r]]_vars

\* A run waiting for its outline stays in that state until the user acts.
WaitingIsKept ==
  [][\A r \in Runs : status[r] = "awaiting" /\ status'[r] = "failed"
       => controls[r] # 0]_vars

\* Every registered attempt ends and leaves the registry, so its output path,
\* its queue place and the settings gate become free again.
EveryAttemptLeaves == \A r \in Runs : controls[r] # 0 ~> controls[r] = 0

\* A terminal journal that a database failure left behind is applied and removed
\* without a restart, unless the process goes down.
TerminalApplied ==
  \A r \in Runs : terminal[r] # "none" ~> terminal[r] = "none" \/ proc = "down"

\* The cancellation a live attempt has accepted becomes the run's recorded
\* status, across failed statements and restarts, unless the user starts the run
\* again, its row was never inserted, an earlier attempt had completed it, or the
\* process goes down for good.
CancelIsRecorded ==
  \A r \in Runs :
    controls[r] # 0 /\ accepted[r] = controls[r]
    ~> \/ status[r] \in Completed \cup {"none", "cancelled"}
       \/ accepted[r] = 0 \/ r \in exposed \/ proc = "down"

\* The statuses of a run that a worker should be carrying on.
Interruptible == {"running", "queued", "interrupted"}

\* A start-up that finds the database puts every unfinished run back to work.
StartupResumes ==
  \A r \in Runs :
    proc = "starting" /\ status[r] \in Interruptible
    ~> controls[r] # 0 \/ status[r] \notin Interruptible \/ proc = "down"

\* An unfinished run is not left without a worker: some sweep takes it up.
NoStrandedRun ==
  \A r \in Runs :
    proc = "up" /\ pool /\ controls[r] = 0 /\ status[r] \in Interruptible
    ~> controls[r] # 0 \/ status[r] \notin Interruptible \/ proc = "down"
=============================================================================
