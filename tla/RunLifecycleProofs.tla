------------------------- MODULE RunLifecycleProofs -------------------------
(* Machine-checked proofs about RunLifecycle, for every set of runs, every *)
(* assignment of output paths and every value of the bounds.               *)
EXTENDS RunLifecycle, FiniteSetTheorems, TLAPS

USE DEF server, registry, slots, sweeping, database, disk, history, bounds,
        DbOk, DbFault, Move, Completed, Ended, Status, HoldsSlot, Finishing,
        Phase

-----------------------------------------------------------------------------
(* Type correctness *)

LEMMA TypeInit == Init => TypeOK
<1> SUFFICES ASSUME Init
             PROVE  TypeOK
  OBVIOUS
<1>1. maxJobs \in JobLimits /\ jobs \in Nat
  BY ConstantsAssumption DEF ConstantsAssumption, Init
<1>2. shutdown \in BOOLEAN /\ pool \in BOOLEAN /\ recovering \in BOOLEAN
  BY DEF Init
<1>3. token \in [Runs -> BOOLEAN] /\ published \in [Runs -> BOOLEAN]
  BY DEF Init
<1>4. QED  BY <1>1, <1>2, <1>3 DEF Init, TypeOK

LEMMA RegisterTypes ==
  ASSUME TypeOK, NEW r \in Runs, Register(r)
  PROVE  /\ attempts' \in [Runs -> Nat] /\ controls' \in [Runs -> Nat]
         /\ worker' \in [Runs -> Phase]
         /\ terminal' \in [Runs -> Ended \cup {"none"}]
         /\ UNCHANGED <<token, published, fate, publication>>
BY DEF Register, SupersedeTerminal, TypeOK

LEMMA UnregisterTypes ==
  ASSUME TypeOK, NEW r \in Runs, Unregister(r)
  PROVE  /\ controls' \in [Runs -> Nat] /\ worker' \in [Runs -> Phase]
         /\ token' \in [Runs -> BOOLEAN] /\ published' \in [Runs -> BOOLEAN]
         /\ fate' \in [Runs -> Ended \cup {"none"}]
BY DEF Unregister, TypeOK

LEMMA EndTypes ==
  ASSUME TypeOK, NEW r \in Runs, NEW outcome \in Ended, End(r, outcome)
  PROVE  /\ worker' \in [Runs -> Phase] /\ jobs' \in Nat
         /\ fate' \in [Runs -> Ended \cup {"none"}]
         /\ UNCHANGED <<controls, token, published, maxJobs>>
BY DEF End, TypeOK

LEMMA DieTypes ==
  ASSUME TypeOK, Die, userOps' \in Nat, stops' \in Nat, faults' \in Nat
  PROVE  TypeOK'
BY ConstantsAssumption DEF ConstantsAssumption, Die, TypeOK

LEMMA ApiTypes ==
  ASSUME TypeOK, NEW r \in Runs,
         \/ UserEnqueue(r) \/ ReviseOutline(r)
         \/ CancelLookup(r) \/ CancelDecide(r)
  PROVE  TypeOK'
<1>1. CASE UserEnqueue(r)
  BY <1>1, RegisterTypes DEF UserEnqueue, TypeOK
<1>2. CASE ReviseOutline(r)
  <2>1. CASE Admissible(r)
    BY <1>2, <2>1, RegisterTypes DEF ReviseOutline, TypeOK
  <2>2. CASE ~Admissible(r)
    BY <1>2, <2>2 DEF ReviseOutline, TypeOK
  <2>3. QED  BY <2>1, <2>2
<1>3. CASE CancelLookup(r)
  BY <1>3 DEF CancelLookup, TypeOK
<1>4. CASE CancelDecide(r)
  <2>1. CASE StillCancellable(r)
    <3>1. terminal' \in [Runs -> Ended \cup {"none"}]
      BY <1>4, <2>1 DEF CancelDecide, PersistIntent, TypeOK
    <3>2. exposed' \subseteq Runs
      BY <1>4, <2>1 DEF CancelDecide, TypeOK
    <3>3. token' \in [Runs -> BOOLEAN]
      BY <1>4, <2>1 DEF CancelDecide, TypeOK
    <3>4. accepted' \in [Runs -> Nat] /\ asking' \in [Runs -> Nat]
      BY <1>4, <2>1 DEF CancelDecide, TypeOK
    <3>5. QED
      BY <1>4, <3>1, <3>2, <3>3, <3>4 DEF CancelDecide, TypeOK
  <2>2. CASE ~StillCancellable(r)
    BY <1>4, <2>2 DEF CancelDecide, TypeOK
  <2>3. QED  BY <2>1, <2>2
<1>5. QED  BY <1>1, <1>2, <1>3, <1>4

LEMMA WorkerTypes ==
  ASSUME TypeOK, NEW r \in Runs, WorkerStep(r)
  PROVE  TypeOK'
<1>1. CASE RegistrationStored(r)
  BY <1>1 DEF RegistrationStored, SweepAfter, TypeOK
<1>2. CASE RegistrationFailed(r)
  BY <1>2, UnregisterTypes DEF RegistrationFailed, SweepAfter, TypeOK
<1>3. CASE AcquireSlot(r)
  BY <1>3 DEF AcquireSlot, TypeOK
<1>4. CASE StartExecution(r)
  BY <1>4 DEF StartExecution, TypeOK
<1>5. CASE ObserveCancel(r)
  BY <1>5, EndTypes DEF ObserveCancel, TypeOK
<1>6. CASE ExecutionFails(r)
  BY <1>6, EndTypes DEF ExecutionFails, TypeOK
<1>7. CASE DatabaseLost(r)
  BY <1>7, EndTypes DEF DatabaseLost, TypeOK
<1>8. CASE JournalPublication(r)
  BY <1>8 DEF JournalPublication, TypeOK
<1>9. CASE ReplaceTarget(r)
  BY <1>9 DEF ReplaceTarget, TypeOK
<1>10. CASE CommitPublication(r)
  BY <1>10 DEF CommitPublication, TypeOK
<1>11. CASE CommitUnknown(r)
  BY <1>11 DEF CommitUnknown, TypeOK
<1>12. CASE FinishPublication(r)
  BY <1>12 DEF FinishPublication, TypeOK
<1>13. CASE Conclude(r)
  BY <1>13 DEF Conclude, FateOf, TypeOK
<1>14. CASE WriteTerminal(r)
  BY <1>14 DEF WriteTerminal, TypeOK
<1>15. CASE UpdateStatus(r)
  BY <1>15 DEF UpdateStatus, Recorded, TypeOK
<1>16. CASE EraseTerminal(r)
  BY <1>16 DEF EraseTerminal, TypeOK
<1>17. CASE Leave(r)
  BY <1>17, UnregisterTypes DEF Leave, TypeOK
<1>18. QED
  BY <1>1, <1>2, <1>3, <1>4, <1>5, <1>6, <1>7, <1>8, <1>9, <1>10, <1>11,
     <1>12, <1>13, <1>14, <1>15, <1>16, <1>17 DEF WorkerStep

LEMMA SweepTypes ==
  ASSUME TypeOK, SweepStep
  PROVE  TypeOK'
<1>1. CASE SweepFault
  <2>1. CASE proc = "starting"
    BY <1>1, <2>1, DieTypes DEF SweepFault, AbortSweep, TypeOK
  <2>2. CASE proc # "starting"
    <3>1. /\ lifecycle' = "free" /\ sweep' = "off" /\ recovering' = FALSE
          /\ todo' = {} /\ cur' = NoRun
          /\ UNCHANGED <<proc, shutdown, pool, registry, slots, asking, database,
                         disk, history>>
      BY <1>1, <2>2 DEF SweepFault, AbortSweep
    <3>2. userOps' \in Nat /\ stops' \in Nat /\ faults' \in Nat
      BY <1>1 DEF SweepFault, TypeOK
    <3>3. QED  BY <3>1, <3>2 DEF TypeOK
  <2>3. QED  BY <2>1, <2>2
<1>2. CASE ReplayTerminals
  BY <1>2 DEF ReplayTerminals, Replayable, Recorded, TypeOK
<1>3. CASE RecoverPublications
  BY <1>3 DEF RecoverPublications, Recorded, TypeOK
<1>4. CASE SelectRuns
  BY <1>4 DEF SelectRuns, TypeOK
<1>5. ASSUME NEW r \in Runs, PickRun(r)
      PROVE  TypeOK'
  BY <1>5 DEF PickRun, TypeOK
<1>6. ASSUME NEW r \in Runs, AutoEnqueue(r)
      PROVE  TypeOK'
  <2>1. CASE Admissible(r)
    BY <1>6, <2>1, RegisterTypes DEF AutoEnqueue, TypeOK
  <2>2. CASE ~Admissible(r)
    BY <1>6, <2>2 DEF AutoEnqueue, TypeOK
  <2>3. QED  BY <2>1, <2>2
<1>7. CASE MarkRefused
  BY <1>7 DEF MarkRefused, TypeOK
<1>8. CASE FinishSweep
  BY <1>8 DEF FinishSweep, TypeOK
<1>9. QED
  BY <1>1, <1>2, <1>3, <1>4, <1>5, <1>6, <1>7, <1>8 DEF SweepStep

LEMMA ServerTypes ==
  ASSUME TypeOK,
         \/ ReleaseApiPermit \/ Crash \/ BeginShutdown \/ StopAll \/ Exit
         \/ Restart \/ BeginSweep \/ BeginSettings \/ FinishSettings
  PROVE  TypeOK'
<1>1. CASE ReleaseApiPermit
  BY <1>1 DEF ReleaseApiPermit, TypeOK
<1>2. CASE Crash
  <2>1. userOps' \in Nat /\ stops' \in Nat /\ faults' \in Nat
    BY <1>2 DEF Crash, TypeOK
  <2>2. QED  BY <1>2, <2>1, DieTypes DEF Crash
<1>3. CASE BeginShutdown
  BY <1>3 DEF BeginShutdown, Registered, TypeOK
<1>4. CASE StopAll
  BY <1>4 DEF StopAll, TypeOK
<1>5. CASE Exit
  <2>1. userOps' \in Nat /\ stops' \in Nat /\ faults' \in Nat
    BY <1>5 DEF Exit, TypeOK
  <2>2. QED  BY <1>5, <2>1, DieTypes DEF Exit
<1>6. CASE Restart
  <2>1. pool' \in BOOLEAN /\ recovering' \in BOOLEAN
    BY <1>6 DEF Restart, TypeOK
  <2>2. QED  BY <1>6, <2>1 DEF Restart, TypeOK
<1>7. CASE BeginSweep
  BY <1>7 DEF BeginSweep, Registered, TypeOK
<1>8. CASE BeginSettings
  BY <1>8 DEF BeginSettings, TypeOK
<1>9. CASE FinishSettings
  <2>1. maxJobs' \in JobLimits /\ jobs' \in Nat
    BY <1>9, ConstantsAssumption
    DEF ConstantsAssumption, FinishSettings, AdjustSlots, TypeOK
  <2>2. pool' \in BOOLEAN
    BY <1>9 DEF FinishSettings, TypeOK
  <2>3. QED  BY <1>9, <2>1, <2>2 DEF FinishSettings, TypeOK
<1>10. QED
  BY <1>1, <1>2, <1>3, <1>4, <1>5, <1>6, <1>7, <1>8, <1>9

LEMMA TypeNext == TypeOK /\ [Next]_vars => TypeOK'
<1> SUFFICES ASSUME TypeOK, [Next]_vars
             PROVE  TypeOK'
  OBVIOUS
<1>1. ASSUME NEW r \in Runs,
             \/ UserEnqueue(r) \/ ReviseOutline(r) \/ WorkerStep(r)
             \/ CancelLookup(r) \/ CancelDecide(r)
      PROVE  TypeOK'
  BY <1>1, ApiTypes, WorkerTypes
<1>2. ASSUME \/ ReleaseApiPermit \/ Crash \/ BeginShutdown \/ StopAll \/ Exit
             \/ Restart \/ BeginSweep \/ BeginSettings \/ FinishSettings
      PROVE  TypeOK'
  BY <1>2, ServerTypes
<1>3. CASE SweepStep
  BY <1>3, SweepTypes
<1>4. CASE UNCHANGED vars
  BY <1>4 DEF vars, TypeOK
<1>5. QED
  BY <1>1, <1>2, <1>3, <1>4 DEF Next

\* Every variable stays in its type: the statuses, journals and stages named in
\* RunLifecycle are all there are, and free job permits never become negative.
THEOREM TypeCorrect == Spec => []TypeOK
BY TypeInit, TypeNext, PTL DEF Spec

-----------------------------------------------------------------------------
(* The registry invariant: what holds of the in-memory registry between any *)
(* two steps, whichever actor took them.                                    *)

\* A run is in the registry exactly while it has a task.
Attended == \A r \in Runs : controls[r] # 0 <=> worker[r] # "idle"

PathsDisjoint ==
  \A r, s \in Registered : r # s => TargetOf[r] # TargetOf[s]

\* No actor knows an attempt that has not been registered yet.
AttemptsOrdered ==
  \A r \in Runs : /\ controls[r] <= attempts[r]
                  /\ accepted[r] <= attempts[r]

\* The token and the gate start clear, and an accepted cancellation has
\* cancelled the token before any replacement.
GateOrdered ==
  \A r \in Runs :
    /\ controls[r] = 0 => ~token[r] /\ ~published[r]
    /\ controls[r] # 0 /\ accepted[r] = controls[r]
         => token[r] /\ ~published[r]

RegistryInv ==
  /\ Attended /\ PathsDisjoint /\ AttemptsOrdered /\ GateOrdered
  /\ JournalOfThisAttempt

LEMMA RegistryInit == Init => RegistryInv
BY DEF Init, RegistryInv, Attended, PathsDisjoint, AttemptsOrdered, GateOrdered,
       JournalOfThisAttempt, Registered

\* Registration of an admissible run, with its earlier cancellation forgotten
\* (the user asked) or not (a sweep did).
LEMMA RegisterKeeps ==
  ASSUME TypeOK, RegistryInv, NEW r \in Runs, Register(r),
         \/ accepted' = [accepted EXCEPT ![r] = 0]
         \/ UNCHANGED accepted
  PROVE  RegistryInv'
<1> USE DEF RegistryInv
<1>1. /\ controls[r] = 0
      /\ controls' = [controls EXCEPT ![r] = attempts[r] + 1]
      /\ attempts' = [attempts EXCEPT ![r] = attempts[r] + 1]
      /\ worker' = [worker EXCEPT ![r] = "registering"]
      /\ terminal' = [terminal EXCEPT ![r] = "none"]
      /\ UNCHANGED <<token, published>>
  BY DEF Register, Admissible, SupersedeTerminal
<1>2. Attended'
  BY <1>1 DEF Attended, TypeOK
<1>3. PathsDisjoint'
  BY <1>1 DEF PathsDisjoint, Registered, Register, Admissible, TypeOK
<1>4. AttemptsOrdered'
  BY <1>1 DEF AttemptsOrdered, TypeOK
<1>5. GateOrdered'
  BY <1>1 DEF GateOrdered, AttemptsOrdered, TypeOK
<1>6. JournalOfThisAttempt'
  BY <1>1 DEF JournalOfThisAttempt, Registered, TypeOK
<1>7. QED  BY <1>2, <1>3, <1>4, <1>5, <1>6

LEMMA UnregisterKeeps ==
  ASSUME TypeOK, RegistryInv, NEW r \in Runs, Unregister(r),
         UNCHANGED <<terminal, attempts, accepted>>
  PROVE  RegistryInv'
<1> USE DEF RegistryInv, Unregister, TypeOK
<1>1. Attended'
  BY DEF Attended
<1>2. PathsDisjoint'
  BY DEF PathsDisjoint, Registered
<1>3. AttemptsOrdered'
  BY DEF AttemptsOrdered
<1>4. GateOrdered'
  BY DEF GateOrdered
<1>5. JournalOfThisAttempt'
  BY DEF JournalOfThisAttempt, Registered
<1>6. QED  BY <1>1, <1>2, <1>3, <1>4, <1>5

\* A worker that goes on to another phase, and never back out of Finishing.
LEMMA PhaseKeeps ==
  ASSUME TypeOK, RegistryInv, NEW r \in Runs, NEW p \in Phase \ {"idle"},
         worker[r] # "idle", worker[r] \in Finishing => p \in Finishing,
         worker' = [worker EXCEPT ![r] = p],
         UNCHANGED <<controls, token, published, terminal, attempts, accepted>>
  PROVE  RegistryInv'
<1> USE DEF RegistryInv, TypeOK
<1>1. Attended'
  BY DEF Attended
<1>2. PathsDisjoint' /\ AttemptsOrdered' /\ GateOrdered'
  BY DEF PathsDisjoint, AttemptsOrdered, GateOrdered, Registered
<1>3. JournalOfThisAttempt'
  BY DEF JournalOfThisAttempt, Registered
<1>4. QED  BY <1>1, <1>2, <1>3

\* Steps of the other actors that leave the registry and the journals alone.
LEMMA UntouchedKeeps ==
  ASSUME RegistryInv,
         UNCHANGED <<controls, worker, token, published, terminal, attempts,
                     accepted>>
  PROVE  RegistryInv'
BY DEF RegistryInv, Attended, PathsDisjoint, AttemptsOrdered, GateOrdered,
       JournalOfThisAttempt, Registered

\* Process death empties the registry.
LEMMA DieKeeps ==
  ASSUME TypeOK, RegistryInv, Die
  PROVE  RegistryInv'
<1>1. Attended' /\ PathsDisjoint'
  BY DEF Die, Attended, PathsDisjoint, Registered
<1>2. AttemptsOrdered' /\ GateOrdered'
  BY DEF Die, RegistryInv, AttemptsOrdered, GateOrdered, TypeOK
<1>3. JournalOfThisAttempt'
  BY DEF Die, JournalOfThisAttempt, Registered
<1>4. QED  BY <1>1, <1>2, <1>3 DEF RegistryInv

LEMMA ApiKeeps ==
  ASSUME TypeOK, RegistryInv, NEW r \in Runs,
         \/ UserEnqueue(r) \/ ReviseOutline(r)
         \/ CancelLookup(r) \/ CancelDecide(r)
  PROVE  RegistryInv'
<1>1. CASE UserEnqueue(r)
  BY <1>1, RegisterKeeps DEF UserEnqueue
<1>2. CASE ReviseOutline(r)
  <2>1. CASE Admissible(r)
    BY <1>2, <2>1, RegisterKeeps DEF ReviseOutline
  <2>2. CASE ~Admissible(r)
    BY <1>2, <2>2, UntouchedKeeps DEF ReviseOutline
  <2>3. QED  BY <2>1, <2>2
<1>3. CASE CancelLookup(r)
  BY <1>3, UntouchedKeeps DEF CancelLookup
<1>4. CASE CancelDecide(r)
  <2>1. CASE StillCancellable(r)
    <3>1. /\ controls[r] = asking[r] /\ controls[r] # 0 /\ ~published[r]
          /\ token' = [token EXCEPT ![r] = TRUE]
          /\ accepted' = [accepted EXCEPT ![r] = asking[r]]
          /\ \/ terminal' = terminal
             \/ terminal' = [terminal EXCEPT ![r] = "cancelled"]
          /\ UNCHANGED <<controls, published, worker, attempts>>
      BY <1>4, <2>1 DEF CancelDecide, StillCancellable, PersistIntent, TypeOK
    <3>2. Attended' /\ PathsDisjoint'
      BY <3>1 DEF RegistryInv, Attended, PathsDisjoint, Registered
    <3>3. AttemptsOrdered'
      BY <3>1 DEF RegistryInv, AttemptsOrdered, TypeOK
    <3>4. GateOrdered'
      BY <3>1 DEF RegistryInv, GateOrdered, TypeOK
    <3>5. JournalOfThisAttempt'
      BY <3>1 DEF RegistryInv, JournalOfThisAttempt, Registered, TypeOK
    <3>6. QED  BY <3>2, <3>3, <3>4, <3>5 DEF RegistryInv
  <2>2. CASE ~StillCancellable(r)
    BY <1>4, <2>2, UntouchedKeeps DEF CancelDecide
  <2>3. QED  BY <2>1, <2>2
<1>5. QED  BY <1>1, <1>2, <1>3, <1>4

LEMMA WorkerKeeps ==
  ASSUME TypeOK, RegistryInv, NEW r \in Runs, WorkerStep(r)
  PROVE  RegistryInv'
<1>1. CASE RegistrationStored(r)
  BY <1>1, PhaseKeeps DEF RegistrationStored
<1>2. CASE RegistrationFailed(r)
  BY <1>2, UnregisterKeeps DEF RegistrationFailed
<1>3. CASE AcquireSlot(r)
  BY <1>3, PhaseKeeps DEF AcquireSlot
<1>4. CASE StartExecution(r)
  BY <1>4, PhaseKeeps DEF StartExecution
<1>5. CASE ObserveCancel(r) \/ ExecutionFails(r) \/ DatabaseLost(r)
  BY <1>5, PhaseKeeps DEF ObserveCancel, ExecutionFails, DatabaseLost, End
<1>6. CASE JournalPublication(r)
  BY <1>6, PhaseKeeps DEF JournalPublication
<1>7. CASE ReplaceTarget(r)
  <2>1. /\ worker[r] = "publishing" /\ ~token[r]
        /\ worker' = [worker EXCEPT ![r] = "committing"]
        /\ published' = [published EXCEPT ![r] = TRUE]
        /\ UNCHANGED <<controls, token, terminal, attempts, accepted>>
    BY <1>7 DEF ReplaceTarget, MayReplace
  <2>2. Attended' /\ PathsDisjoint' /\ AttemptsOrdered'
    BY <2>1 DEF RegistryInv, Attended, PathsDisjoint, AttemptsOrdered,
                Registered, TypeOK
  <2>3. GateOrdered'
    BY <2>1 DEF RegistryInv, Attended, GateOrdered, TypeOK
  <2>4. JournalOfThisAttempt'
    BY <2>1 DEF RegistryInv, JournalOfThisAttempt, Registered, TypeOK
  <2>5. QED  BY <2>2, <2>3, <2>4 DEF RegistryInv
<1>8. CASE CommitPublication(r) \/ CommitUnknown(r)
  BY <1>8, PhaseKeeps DEF CommitPublication, CommitUnknown
<1>9. CASE FinishPublication(r)
  BY <1>9, PhaseKeeps DEF FinishPublication
<1>10. CASE Conclude(r)
  BY <1>10, PhaseKeeps DEF Conclude
<1>11. CASE WriteTerminal(r) \/ EraseTerminal(r)
  <2>1. PICK p \in Finishing :
          /\ worker[r] \in Finishing /\ worker' = [worker EXCEPT ![r] = p]
          /\ \E t : terminal' = [terminal EXCEPT ![r] = t]
          /\ UNCHANGED <<controls, token, published, attempts, accepted>>
    BY <1>11 DEF WriteTerminal, EraseTerminal
  <2>2. Attended' /\ PathsDisjoint' /\ AttemptsOrdered' /\ GateOrdered'
    BY <2>1 DEF RegistryInv, Attended, PathsDisjoint, AttemptsOrdered,
                GateOrdered, Registered, TypeOK
  <2>3. JournalOfThisAttempt'
    BY <2>1 DEF RegistryInv, JournalOfThisAttempt, Registered, TypeOK
  <2>4. QED  BY <2>2, <2>3 DEF RegistryInv
<1>12. CASE UpdateStatus(r)
  BY <1>12, PhaseKeeps DEF UpdateStatus
<1>13. CASE Leave(r)
  BY <1>13, UnregisterKeeps DEF Leave
<1>14. QED
  BY <1>1, <1>2, <1>3, <1>4, <1>5, <1>6, <1>7, <1>8, <1>9, <1>10, <1>11,
     <1>12, <1>13 DEF WorkerStep

LEMMA SweepKeeps ==
  ASSUME TypeOK, RegistryInv, SweepStep
  PROVE  RegistryInv'
<1>1. CASE SweepFault
  BY <1>1, DieKeeps, UntouchedKeeps DEF SweepFault, AbortSweep
<1>2. CASE ReplayTerminals
  <2>1. /\ terminal' = [r \in Runs |-> IF r \in Replayable THEN "none"
                                       ELSE terminal[r]]
        /\ UNCHANGED <<controls, worker, token, published, attempts, accepted>>
    BY <1>2 DEF ReplayTerminals
  <2>2. Attended' /\ PathsDisjoint' /\ AttemptsOrdered' /\ GateOrdered'
    BY <2>1 DEF RegistryInv, Attended, PathsDisjoint, AttemptsOrdered,
                GateOrdered, Registered
  <2>3. JournalOfThisAttempt'
    BY <2>1 DEF RegistryInv, JournalOfThisAttempt, Registered
  <2>4. QED  BY <2>2, <2>3 DEF RegistryInv
<1>3. CASE RecoverPublications \/ SelectRuns \/ MarkRefused \/ FinishSweep
  BY <1>3, UntouchedKeeps
  DEF RecoverPublications, SelectRuns, MarkRefused, FinishSweep
<1>4. ASSUME NEW r \in Runs, PickRun(r)
      PROVE  RegistryInv'
  BY <1>4, UntouchedKeeps DEF PickRun
<1>5. ASSUME NEW r \in Runs, AutoEnqueue(r)
      PROVE  RegistryInv'
  <2>1. CASE Admissible(r)
    BY <1>5, <2>1, RegisterKeeps DEF AutoEnqueue
  <2>2. CASE ~Admissible(r)
    BY <1>5, <2>2, UntouchedKeeps DEF AutoEnqueue
  <2>3. QED  BY <2>1, <2>2
<1>6. QED  BY <1>1, <1>2, <1>3, <1>4, <1>5 DEF SweepStep

LEMMA ServerKeeps ==
  ASSUME TypeOK, RegistryInv,
         \/ ReleaseApiPermit \/ Crash \/ BeginShutdown \/ StopAll \/ Exit
         \/ Restart \/ BeginSweep \/ BeginSettings \/ FinishSettings
  PROVE  RegistryInv'
<1>1. CASE Crash \/ Exit
  BY <1>1, DieKeeps DEF Crash, Exit
<1>2. CASE StopAll
  <2>1. /\ token' = [r \in Runs |-> controls[r] # 0]
        /\ UNCHANGED <<controls, published, worker, terminal, attempts, accepted>>
    BY <1>2 DEF StopAll
  <2>2. Attended' /\ PathsDisjoint' /\ AttemptsOrdered' /\ GateOrdered'
    BY <2>1 DEF RegistryInv, Attended, PathsDisjoint, AttemptsOrdered,
                GateOrdered, Registered
  <2>3. JournalOfThisAttempt'
    BY <2>1 DEF RegistryInv, JournalOfThisAttempt, Registered
  <2>4. QED  BY <2>2, <2>3 DEF RegistryInv
<1>3. CASE ReleaseApiPermit \/ BeginShutdown \/ Restart \/ BeginSweep
           \/ BeginSettings \/ FinishSettings
  BY <1>3, UntouchedKeeps
  DEF ReleaseApiPermit, BeginShutdown, Restart, BeginSweep, BeginSettings,
      FinishSettings
<1>4. QED  BY <1>1, <1>2, <1>3

LEMMA RegistryNext == TypeOK /\ RegistryInv /\ [Next]_vars => RegistryInv'
<1> SUFFICES ASSUME TypeOK, RegistryInv, [Next]_vars
             PROVE  RegistryInv'
  OBVIOUS
<1>1. ASSUME NEW r \in Runs,
             \/ UserEnqueue(r) \/ ReviseOutline(r) \/ WorkerStep(r)
             \/ CancelLookup(r) \/ CancelDecide(r)
      PROVE  RegistryInv'
  BY <1>1, ApiKeeps, WorkerKeeps
<1>2. ASSUME \/ ReleaseApiPermit \/ Crash \/ BeginShutdown \/ StopAll \/ Exit
             \/ Restart \/ BeginSweep \/ BeginSettings \/ FinishSettings
      PROVE  RegistryInv'
  BY <1>2, ServerKeeps
<1>3. CASE SweepStep
  BY <1>3, SweepKeeps
<1>4. CASE UNCHANGED vars
  BY <1>4, UntouchedKeeps DEF vars
<1>5. QED
  BY <1>1, <1>2, <1>3, <1>4 DEF Next

\* The registry invariant holds in every reachable state.
THEOREM RegistryCorrect == Spec => []RegistryInv
BY TypeCorrect, RegistryInit, RegistryNext, PTL DEF Spec

\* Whatever interleaving of requests, recovery and supervision starts them, two
\* runs with the same output path are never both in the hands of a task.
THEOREM OneWriter == Spec => []OneWriterPerTarget
<1>1. RegistryInv => OneWriterPerTarget
  BY DEF RegistryInv, Attended, PathsDisjoint, OneWriterPerTarget, Registered
<1>2. QED  BY <1>1, RegistryCorrect, PTL

\* The commit gate orders acceptance and replacement: an attempt never has both
\* an accepted cancellation and a replaced target.
THEOREM CancelOrPublish == Spec => []CancelExcludesPublication
<1>1. RegistryInv => CancelExcludesPublication
  BY DEF RegistryInv, GateOrdered, CancelExcludesPublication, Registered
<1>2. QED  BY <1>1, RegistryCorrect, PTL

\* A registered run's terminal journal was written for its present attempt.
THEOREM JournalIsCurrent == Spec => []JournalOfThisAttempt
<1>1. RegistryInv => JournalOfThisAttempt
  BY DEF RegistryInv
<1>2. QED  BY <1>1, RegistryCorrect, PTL

-----------------------------------------------------------------------------
(* The job slots. Nothing says Runs is finite: that only finitely many slots *)
(* are held is part of the invariant.                                        *)

Holders == {r \in Runs : worker[r] \in HoldsSlot}

SlotInv == IsFiniteSet(Holders) /\ jobs + Cardinality(Holders) = maxJobs

LEMMA SlotsInit == Init => SlotInv
<1> SUFFICES ASSUME Init
             PROVE  SlotInv
  OBVIOUS
<1>1. Holders = {}
  BY DEF Init, Holders
<1>2. jobs = maxJobs /\ maxJobs \in Nat
  BY ConstantsAssumption DEF ConstantsAssumption, Init
<1>3. QED  BY <1>1, <1>2, FS_EmptySet DEF SlotInv

\* Whoever held a slot holds it still.
LEMMA SlotsStay ==
  ASSUME TypeOK, SlotInv, UNCHANGED slots,
         \A r \in Runs : worker'[r] \in HoldsSlot <=> worker[r] \in HoldsSlot
  PROVE  SlotInv'
<1>1. Holders' = Holders
  BY DEF Holders
<1>2. QED  BY <1>1 DEF SlotInv

LEMMA SlotMoves ==
  ASSUME TypeOK, SlotInv, UNCHANGED slots, NEW r \in Runs, NEW p \in Phase,
         worker' = [worker EXCEPT ![r] = p],
         p \in HoldsSlot <=> worker[r] \in HoldsSlot
  PROVE  SlotInv'
<1>1. \A s \in Runs : worker'[s] \in HoldsSlot <=> worker[s] \in HoldsSlot
  BY DEF TypeOK
<1>2. QED  BY <1>1, SlotsStay

LEMMA SlotTaken ==
  ASSUME TypeOK, SlotInv, NEW r \in Runs, AcquireSlot(r)
  PROVE  SlotInv'
<1>1. worker[r] = "waiting" /\ worker' = [worker EXCEPT ![r] = "starting"]
  BY DEF AcquireSlot
<1>2. Holders' = Holders \cup {r} /\ r \notin Holders
  BY <1>1 DEF Holders, TypeOK
<1>3. /\ IsFiniteSet(Holders')
      /\ Cardinality(Holders') = Cardinality(Holders) + 1
  BY <1>2, FS_AddElement DEF SlotInv
<1>4. jobs' = jobs - 1 /\ maxJobs' = maxJobs
  BY DEF AcquireSlot
<1>5. Cardinality(Holders) \in Nat /\ jobs \in Nat
  BY FS_CardinalityType DEF SlotInv, TypeOK
<1>6. QED  BY <1>3, <1>4, <1>5 DEF SlotInv

LEMMA SlotReturned ==
  ASSUME TypeOK, SlotInv, NEW r \in Runs, NEW p \in Phase \ HoldsSlot,
         worker[r] \in HoldsSlot, worker' = [worker EXCEPT ![r] = p],
         jobs' = jobs + 1, maxJobs' = maxJobs
  PROVE  SlotInv'
<1>1. Holders' = Holders \ {r} /\ r \in Holders
  BY DEF Holders, TypeOK
<1>2. /\ IsFiniteSet(Holders')
      /\ Cardinality(Holders') = Cardinality(Holders) - 1
  BY <1>1, FS_RemoveElement DEF SlotInv
<1>3. Cardinality(Holders) \in Nat /\ jobs \in Nat
  BY FS_CardinalityType DEF SlotInv, TypeOK
<1>4. QED  BY <1>2, <1>3 DEF SlotInv

LEMMA EndReturns ==
  ASSUME TypeOK, SlotInv, NEW r \in Runs, NEW outcome, End(r, outcome)
  PROVE  SlotInv'
<1>1. CASE worker[r] \in HoldsSlot
  BY <1>1, SlotReturned DEF End
<1>2. CASE worker[r] \notin HoldsSlot
  BY <1>2, SlotMoves DEF End
<1>3. QED  BY <1>1, <1>2

\* Nobody holds a slot, so the free ones are all there are.
LEMMA SlotsAtRest ==
  ASSUME jobs' = maxJobs', maxJobs' \in Nat,
         \A r \in Runs : worker'[r] \notin HoldsSlot
  PROVE  SlotInv'
<1>1. Holders' = {}
  BY DEF Holders
<1>2. QED  BY <1>1, FS_EmptySet DEF SlotInv

LEMMA DieReturns ==
  ASSUME TypeOK, Die
  PROVE  SlotInv'
BY SlotsAtRest, ConstantsAssumption DEF ConstantsAssumption, Die, TypeOK

LEMMA WorkerConserves ==
  ASSUME TypeOK, SlotInv, NEW r \in Runs, WorkerStep(r)
  PROVE  SlotInv'
<1>1. CASE RegistrationStored(r)
  BY <1>1, SlotMoves DEF RegistrationStored
<1>2. CASE RegistrationFailed(r)
  BY <1>2, SlotMoves DEF RegistrationFailed, Unregister
<1>3. CASE AcquireSlot(r)
  BY <1>3, SlotTaken
<1>4. CASE StartExecution(r)
  BY <1>4, SlotMoves DEF StartExecution
<1>5. CASE ObserveCancel(r)
  BY <1>5, EndReturns DEF ObserveCancel
<1>6. CASE ExecutionFails(r)
  BY <1>6, EndReturns DEF ExecutionFails
<1>7. CASE DatabaseLost(r)
  BY <1>7, EndReturns DEF DatabaseLost
<1>8. CASE JournalPublication(r) \/ ReplaceTarget(r)
  BY <1>8, SlotMoves DEF JournalPublication, ReplaceTarget
<1>9. CASE CommitPublication(r) \/ CommitUnknown(r)
  BY <1>9, SlotMoves DEF CommitPublication, CommitUnknown
<1>10. CASE FinishPublication(r)
  BY <1>10, SlotReturned DEF FinishPublication
<1>11. CASE Conclude(r) \/ WriteTerminal(r) \/ EraseTerminal(r)
  BY <1>11, SlotMoves DEF Conclude, WriteTerminal, EraseTerminal
<1>12. CASE UpdateStatus(r)
  BY <1>12, SlotMoves DEF UpdateStatus
<1>13. CASE Leave(r)
  BY <1>13, SlotMoves DEF Leave, Unregister
<1>14. QED
  BY <1>1, <1>2, <1>3, <1>4, <1>5, <1>6, <1>7, <1>8, <1>9, <1>10, <1>11,
     <1>12, <1>13 DEF WorkerStep

\* A registration starts from a run without a task.
LEMMA RegisterConserves ==
  ASSUME TypeOK, Attended, SlotInv, UNCHANGED slots, NEW r \in Runs, Register(r)
  PROVE  SlotInv'
<1>1. worker[r] = "idle"
  BY DEF Register, Admissible, Attended
<1>2. QED  BY <1>1, SlotMoves DEF Register

LEMMA ApiConserves ==
  ASSUME TypeOK, Attended, SlotInv, NEW r \in Runs,
         \/ UserEnqueue(r) \/ ReviseOutline(r)
         \/ CancelLookup(r) \/ CancelDecide(r)
  PROVE  SlotInv'
<1>1. CASE UserEnqueue(r)
  BY <1>1, RegisterConserves DEF UserEnqueue
<1>2. CASE ReviseOutline(r) /\ Admissible(r)
  BY <1>2, RegisterConserves DEF ReviseOutline
<1>3. CASE ReviseOutline(r) /\ ~Admissible(r)
  BY <1>3, SlotsStay DEF ReviseOutline
<1>4. CASE CancelLookup(r) \/ CancelDecide(r)
  BY <1>4, SlotsStay DEF CancelLookup, CancelDecide
<1>5. QED  BY <1>1, <1>2, <1>3, <1>4

LEMMA SweepConserves ==
  ASSUME TypeOK, Attended, SlotInv, SweepStep
  PROVE  SlotInv'
<1>1. CASE SweepFault /\ proc = "starting"
  BY <1>1, DieReturns DEF SweepFault, AbortSweep
<1>2. CASE SweepFault /\ proc # "starting"
  BY <1>2, SlotsStay DEF SweepFault, AbortSweep
<1>3. CASE \/ ReplayTerminals \/ RecoverPublications \/ SelectRuns
           \/ MarkRefused \/ FinishSweep
  BY <1>3, SlotsStay
  DEF ReplayTerminals, RecoverPublications, SelectRuns, MarkRefused, FinishSweep
<1>4. ASSUME NEW r \in Runs, PickRun(r)
      PROVE  SlotInv'
  BY <1>4, SlotsStay DEF PickRun
<1>5. ASSUME NEW r \in Runs, AutoEnqueue(r)
      PROVE  SlotInv'
  <2>1. CASE Admissible(r)
    BY <1>5, <2>1, RegisterConserves DEF AutoEnqueue
  <2>2. CASE ~Admissible(r)
    BY <1>5, <2>2, SlotsStay DEF AutoEnqueue
  <2>3. QED  BY <2>1, <2>2
<1>6. QED  BY <1>1, <1>2, <1>3, <1>4, <1>5 DEF SweepStep

\* max_jobs changes only while no worker has a slot: forget finds what it needs.
LEMMA SettingsConserve ==
  ASSUME TypeOK, SlotInv, FinishSettings,
         \A r \in Runs : worker[r] \notin HoldsSlot
  PROVE  SlotInv'
<1>1. CASE UNCHANGED slots
  BY <1>1, SlotsStay DEF FinishSettings
<1>2. ASSUME NEW n \in JobLimits, maxJobs' = n, jobs' = AdjustSlots(maxJobs, n)
      PROVE  SlotInv'
  <2>1. Holders = {}
    BY DEF Holders
  <2>2. jobs = maxJobs /\ maxJobs \in Nat /\ n \in Nat
    BY <2>1, FS_EmptySet, ConstantsAssumption
    DEF SlotInv, TypeOK, ConstantsAssumption
  <2>3. jobs' = maxJobs' /\ maxJobs' \in Nat
    BY <1>2, <2>2 DEF AdjustSlots
  <2>4. \A r \in Runs : worker'[r] \notin HoldsSlot
    BY DEF FinishSettings
  <2>5. QED  BY <2>3, <2>4, SlotsAtRest
<1>3. QED  BY <1>1, <1>2 DEF FinishSettings

\* Settings are saved with an empty registry, and no sweep runs beside them.
SettingsAlone ==
  /\ lifecycle = "settings" => proc = "up" /\ \A r \in Runs : controls[r] = 0
  /\ sweep # "off" => lifecycle = "maintenance" \/ proc = "starting"

LEMMA AloneInit == Init => SettingsAlone
BY DEF Init, SettingsAlone

LEMMA ApiAlone ==
  ASSUME TypeOK, SettingsAlone, NEW r \in Runs,
         \/ UserEnqueue(r) \/ ReviseOutline(r)
         \/ CancelLookup(r) \/ CancelDecide(r)
  PROVE  SettingsAlone'
<1>1. CASE UserEnqueue(r)
  BY <1>1 DEF UserEnqueue, SettingsAlone, Serving
<1>2. CASE ReviseOutline(r) /\ Admissible(r)
  BY <1>2 DEF ReviseOutline, SettingsAlone, Serving
<1>3. CASE ReviseOutline(r) /\ ~Admissible(r)
  BY <1>3 DEF ReviseOutline, SettingsAlone
<1>4. CASE CancelLookup(r) \/ CancelDecide(r)
  BY <1>4 DEF CancelLookup, CancelDecide, SettingsAlone
<1>5. QED  BY <1>1, <1>2, <1>3, <1>4

LEMMA WorkerAlone ==
  ASSUME TypeOK, Attended, SettingsAlone, NEW r \in Runs, WorkerStep(r)
  PROVE  SettingsAlone'
<1>1. UNCHANGED <<proc, lifecycle>>
  BY DEF WorkerStep, RegistrationStored, RegistrationFailed, AcquireSlot,
         StartExecution, ObserveCancel, ExecutionFails, DatabaseLost,
         JournalPublication, ReplaceTarget, CommitPublication, CommitUnknown,
         FinishPublication, Conclude, WriteTerminal, UpdateStatus,
         EraseTerminal, Leave
<1>2. worker[r] # "idle"
  BY DEF WorkerStep, RegistrationStored, RegistrationFailed, AcquireSlot,
         StartExecution, ObserveCancel, ExecutionFails, DatabaseLost,
         JournalPublication, ReplaceTarget, CommitPublication, CommitUnknown,
         FinishPublication, Conclude, WriteTerminal, UpdateStatus,
         EraseTerminal, Leave
<1>3. lifecycle # "settings"
  BY <1>2 DEF Attended, SettingsAlone
<1>4. sweep' # "off" => sweep # "off"
  BY DEF WorkerStep, RegistrationStored, RegistrationFailed, AcquireSlot,
         StartExecution, ObserveCancel, ExecutionFails, DatabaseLost,
         JournalPublication, ReplaceTarget, CommitPublication, CommitUnknown,
         FinishPublication, Conclude, WriteTerminal, UpdateStatus,
         EraseTerminal, Leave, SweepAfter
<1>5. QED  BY <1>1, <1>3, <1>4 DEF SettingsAlone

LEMMA SweepAlone ==
  ASSUME TypeOK, SettingsAlone, SweepStep
  PROVE  SettingsAlone'
<1>1. CASE SweepFault
  BY <1>1 DEF SweepFault, AbortSweep, Die, SettingsAlone
<1>2. CASE \/ ReplayTerminals \/ RecoverPublications \/ SelectRuns
           \/ MarkRefused
  BY <1>2
  DEF ReplayTerminals, RecoverPublications, SelectRuns, MarkRefused,
      SettingsAlone
<1>3. CASE FinishSweep
  BY <1>3 DEF FinishSweep, SettingsAlone
<1>4. ASSUME NEW r \in Runs, PickRun(r)
      PROVE  SettingsAlone'
  BY <1>4 DEF PickRun, SettingsAlone
<1>5. ASSUME NEW r \in Runs, AutoEnqueue(r)
      PROVE  SettingsAlone'
  BY <1>5 DEF AutoEnqueue, SettingsAlone
<1>6. QED  BY <1>1, <1>2, <1>3, <1>4, <1>5 DEF SweepStep

LEMMA ServerConserves ==
  ASSUME TypeOK, Attended, SettingsAlone, SlotInv,
         \/ ReleaseApiPermit \/ Crash \/ BeginShutdown \/ StopAll \/ Exit
         \/ Restart \/ BeginSweep \/ BeginSettings \/ FinishSettings
  PROVE  SettingsAlone' /\ SlotInv'
<1>1. CASE Crash \/ Exit
  BY <1>1, DieReturns DEF Crash, Exit, Die, SettingsAlone
<1>2. CASE ReleaseApiPermit \/ BeginShutdown \/ StopAll \/ Restart
  BY <1>2, SlotsStay
  DEF ReleaseApiPermit, BeginShutdown, StopAll, Restart, SettingsAlone
<1>3. CASE BeginSweep \/ BeginSettings
  BY <1>3, SlotsStay
  DEF BeginSweep, BeginSettings, NoActiveRun, Registered, SettingsAlone
<1>4. CASE FinishSettings
  <2>1. \A r \in Runs : worker[r] \notin HoldsSlot
    BY <1>4 DEF FinishSettings, SettingsAlone, Attended
  <2>2. SlotInv'
    BY <1>4, <2>1, SettingsConserve
  <2>3. QED  BY <1>4, <2>2 DEF FinishSettings, SettingsAlone
<1>5. QED  BY <1>1, <1>2, <1>3, <1>4

LEMMA SlotsNext ==
  TypeOK /\ RegistryInv /\ SettingsAlone /\ SlotInv /\ [Next]_vars
    => SettingsAlone' /\ SlotInv'
<1> SUFFICES ASSUME TypeOK, Attended, SettingsAlone, SlotInv, [Next]_vars
             PROVE  SettingsAlone' /\ SlotInv'
  BY DEF RegistryInv
<1>1. ASSUME NEW r \in Runs,
             \/ UserEnqueue(r) \/ ReviseOutline(r)
             \/ CancelLookup(r) \/ CancelDecide(r)
      PROVE  SettingsAlone' /\ SlotInv'
  BY <1>1, ApiConserves, ApiAlone
<1>2. ASSUME NEW r \in Runs, WorkerStep(r)
      PROVE  SettingsAlone' /\ SlotInv'
  BY <1>2, WorkerConserves, WorkerAlone
<1>3. CASE SweepStep
  BY <1>3, SweepConserves, SweepAlone
<1>4. CASE \/ ReleaseApiPermit \/ Crash \/ BeginShutdown \/ StopAll \/ Exit
           \/ Restart \/ BeginSweep \/ BeginSettings \/ FinishSettings
  BY <1>4, ServerConserves
<1>5. CASE UNCHANGED vars
  BY <1>5, SlotsStay DEF vars, SettingsAlone
<1>6. QED
  BY <1>1, <1>2, <1>3, <1>4, <1>5 DEF Next

\* However many runs share the job semaphore, and whatever ends their attempts,
\* the free slots and the held ones always add up to the saved max_jobs.
THEOREM SlotsConstant == Spec => []SlotsConserved
<1>1. SlotInv => SlotsConserved
  BY DEF SlotInv, Holders, SlotsConserved
<1>2. QED
  BY <1>1, SlotsInit, AloneInit, SlotsNext, TypeCorrect, RegistryCorrect,
     PTL DEF Spec

-----------------------------------------------------------------------------
(* Statuses: who may change the status of a run that is registered, or that *)
(* is completed.  The sweeps do neither, because of what keeps them apart.  *)

\* The sweep holds the lifecycle permit, or runs before anything is served; and
\* without a pool nobody is registered.
SweepHoldsPermit ==
  /\ sweep # "off" => pool /\ (proc = "starting" \/ lifecycle = "maintenance")
  /\ proc = "starting" => lifecycle = "free"
  /\ proc = "down" => lifecycle = "free" /\ sweep = "off" /\ ~pool
  /\ ~pool => Registered = {}

Left(r) == controls[r] = 0 /\ status[r] \in Unfinished

\* recover works on an empty registry, and the rows it has still to take up are
\* as it found them.
RecoveryAlone ==
  /\ sweep = "refused" => recovering
  /\ recovering /\ sweep \in {"terminal", "publications", "select"} => Registered = {}
  /\ recovering /\ sweep \in {"enqueue", "resume", "registering", "refused"} =>
       \A r \in todo : Left(r)
  /\ recovering /\ sweep \in {"resume", "refused"} =>
       cur \in Runs /\ cur \notin todo /\ Left(cur)
  /\ recovering /\ sweep = "registering" =>
       /\ cur \in Runs /\ cur \notin todo
       /\ worker[cur] = "registering" /\ status[cur] \in Unfinished

\* Nobody touches the row of a worker that has not begun.
QueuedWaits ==
  \A r \in Runs : worker[r] \in {"waiting", "starting"} => status[r] = "queued"

StatusInv == SweepHoldsPermit /\ RecoveryAlone /\ QueuedWaits

LEMMA StatusInit == Init => StatusInv
BY DEF Init, StatusInv, SweepHoldsPermit, RecoveryAlone, QueuedWaits, Registered

LEMMA DieSettles ==
  ASSUME Die
  PROVE  StatusInv'
BY DEF Die, StatusInv, SweepHoldsPermit, RecoveryAlone, QueuedWaits, Registered

LEMMA ApiSettles ==
  ASSUME TypeOK, RegistryInv, StatusInv, NEW r \in Runs,
         \/ UserEnqueue(r) \/ ReviseOutline(r)
         \/ CancelLookup(r) \/ CancelDecide(r)
  PROVE  StatusInv'
<1>1. CASE CancelLookup(r) \/ CancelDecide(r)
  BY <1>1 DEF CancelLookup, CancelDecide, StatusInv, SweepHoldsPermit, RecoveryAlone,
              QueuedWaits, Registered, Left
<1>2. CASE UserEnqueue(r) \/ ReviseOutline(r)
  <2>1. /\ sweep = "off" /\ sweep' = "off" /\ pool /\ pool' /\ proc = "up" /\ proc' = "up"
        /\ worker[r] = "idle"
    BY <1>2 DEF UserEnqueue, ReviseOutline, Serving, Register, Admissible, StatusInv,
                SweepHoldsPermit, RegistryInv, Attended
  <2>2. SweepHoldsPermit' /\ RecoveryAlone'
    BY <2>1 DEF SweepHoldsPermit, RecoveryAlone
  <2>3. /\ worker'[r] \in {"idle", "registering"}
        /\ \A s \in Runs : s # r => worker'[s] = worker[s] /\ status'[s] = status[s]
    BY <1>2, <2>1 DEF UserEnqueue, ReviseOutline, Register, TypeOK
  <2>4. QueuedWaits'
    BY <2>3 DEF QueuedWaits, StatusInv
  <2>5. QED  BY <2>2, <2>4 DEF StatusInv
<1>3. QED  BY <1>1, <1>2

\* A worker's step concerns its own row and, while it registers, the sweep that
\* waits for it.
LEMMA WorkerOwn ==
  ASSUME TypeOK, RegistryInv, NEW r \in Runs, WorkerStep(r)
  PROVE  /\ controls[r] # 0 /\ worker[r] # "idle"
         /\ UNCHANGED <<proc, pool, lifecycle, recovering, todo, cur>>
         /\ controls'[r] \in {0, controls[r]}
         /\ \A s \in Runs : s # r => /\ worker'[s] = worker[s]
                                     /\ status'[s] = status[s]
                                     /\ controls'[s] = controls[s]
         /\ worker'[r] # worker[r]
<1>1. worker[r] # "idle"
  BY DEF WorkerStep, RegistrationStored, RegistrationFailed, AcquireSlot, StartExecution,
         ObserveCancel, ExecutionFails, DatabaseLost, JournalPublication, ReplaceTarget,
         CommitPublication, CommitUnknown, FinishPublication, Conclude, WriteTerminal,
         UpdateStatus, EraseTerminal, Leave
<1>2. UNCHANGED <<proc, pool, lifecycle, recovering, todo, cur>>
  BY DEF WorkerStep, RegistrationStored, RegistrationFailed, AcquireSlot, StartExecution,
         ObserveCancel, ExecutionFails, DatabaseLost, JournalPublication, ReplaceTarget,
         CommitPublication, CommitUnknown, FinishPublication, Conclude, WriteTerminal,
         UpdateStatus, EraseTerminal, Leave, SweepAfter
<1>3. controls' = controls \/ controls' = [controls EXCEPT ![r] = 0]
  BY DEF WorkerStep, RegistrationStored, RegistrationFailed, AcquireSlot, StartExecution,
         ObserveCancel, ExecutionFails, DatabaseLost, JournalPublication, ReplaceTarget,
         CommitPublication, CommitUnknown, FinishPublication, Conclude, WriteTerminal,
         UpdateStatus, EraseTerminal, Leave, End, Unregister
<1>4. \E s : status' = [status EXCEPT ![r] = s]
  <2>1. CASE status' = status
    BY <2>1 DEF TypeOK
  <2>2. CASE status' # status
    BY <2>2
    DEF WorkerStep, RegistrationStored, RegistrationFailed, AcquireSlot, StartExecution,
        ObserveCancel, ExecutionFails, DatabaseLost, JournalPublication, ReplaceTarget,
        CommitPublication, CommitUnknown, FinishPublication, Conclude, WriteTerminal,
        UpdateStatus, EraseTerminal, Leave
  <2>3. QED  BY <2>1, <2>2
<1>5. PICK p : worker' = [worker EXCEPT ![r] = p] /\ p # worker[r]
  BY DEF WorkerStep, RegistrationStored, RegistrationFailed, AcquireSlot, StartExecution,
         ObserveCancel, ExecutionFails, DatabaseLost, JournalPublication, ReplaceTarget,
         CommitPublication, CommitUnknown, FinishPublication, Conclude, WriteTerminal,
         UpdateStatus, EraseTerminal, Leave, End, Unregister
<1>6. QED
  BY <1>1, <1>2, <1>3, <1>4, <1>5 DEF TypeOK, RegistryInv, Attended

LEMMA WorkerSettles ==
  ASSUME TypeOK, RegistryInv, StatusInv, NEW r \in Runs, WorkerStep(r)
  PROVE  StatusInv'
<1>1. QueuedWaits'
  <2>1. worker'[r] \in {"waiting", "starting"} => status'[r] = "queued"
    BY DEF WorkerStep, RegistrationStored, RegistrationFailed, AcquireSlot, StartExecution,
           ObserveCancel, ExecutionFails, DatabaseLost, JournalPublication, ReplaceTarget,
           CommitPublication, CommitUnknown, FinishPublication, Conclude, WriteTerminal,
           UpdateStatus, EraseTerminal, Leave, End, Unregister, StatusInv, QueuedWaits, TypeOK
  <2>2. QED  BY <2>1, WorkerOwn DEF StatusInv, QueuedWaits
<1>2. \A s \in todo : recovering => (Left(s) => Left(s)')
  BY WorkerOwn DEF Left, TypeOK
<1>3. CASE sweep' = sweep /\ ~(sweep = "registering" /\ cur = r)
  <2>1. SweepHoldsPermit'
    BY <1>3, WorkerOwn DEF StatusInv, SweepHoldsPermit, Registered
  <2>2. RecoveryAlone'
    BY <1>2, <1>3, WorkerOwn DEF StatusInv, RecoveryAlone, Registered, Left
  <2>3. QED  BY <1>1, <2>1, <2>2 DEF StatusInv
<1>4. CASE sweep = "registering" /\ cur = r /\ worker[r] = "registering"
  <2>1. \/ sweep' = "enqueue"
        \/ sweep' = "refused" /\ recovering /\ controls'[r] = 0
             /\ status'[r] \in {status[r], "queued"}
    BY <1>4
    DEF WorkerStep, RegistrationStored, RegistrationFailed, AcquireSlot, StartExecution,
        ObserveCancel, ExecutionFails, DatabaseLost, JournalPublication, ReplaceTarget,
        CommitPublication, CommitUnknown, FinishPublication, Conclude, WriteTerminal,
        UpdateStatus, EraseTerminal, Leave, SweepAfter, Unregister, TypeOK
  <2>2. SweepHoldsPermit'
    BY <1>4, <2>1, WorkerOwn DEF StatusInv, SweepHoldsPermit, Registered
  <2>3. RecoveryAlone'
    BY <1>2, <1>4, <2>1, WorkerOwn DEF StatusInv, RecoveryAlone, Registered, Left, Unfinished
  <2>4. QED  BY <1>1, <2>2, <2>3 DEF StatusInv
<1>5. CASE sweep = "registering" /\ cur = r /\ worker[r] # "registering"
  <2>1. ~recovering /\ sweep' = "registering"
    BY <1>5
    DEF StatusInv, RecoveryAlone,
        WorkerStep, RegistrationStored, RegistrationFailed, AcquireSlot, StartExecution,
        ObserveCancel, ExecutionFails, DatabaseLost, JournalPublication, ReplaceTarget,
        CommitPublication, CommitUnknown, FinishPublication, Conclude, WriteTerminal,
        UpdateStatus, EraseTerminal, Leave
  <2>2. SweepHoldsPermit' /\ RecoveryAlone'
    BY <1>5, <2>1, WorkerOwn DEF StatusInv, SweepHoldsPermit, RecoveryAlone, Registered
  <2>3. QED  BY <1>1, <2>2 DEF StatusInv
<1>6. sweep' = sweep \/ (sweep = "registering" /\ cur = r)
  BY DEF WorkerStep, RegistrationStored, RegistrationFailed, AcquireSlot, StartExecution,
         ObserveCancel, ExecutionFails, DatabaseLost, JournalPublication, ReplaceTarget,
         CommitPublication, CommitUnknown, FinishPublication, Conclude, WriteTerminal,
         UpdateStatus, EraseTerminal, Leave, SweepAfter
<1>7. QED  BY <1>3, <1>4, <1>5, <1>6

LEMMA SweepSettles ==
  ASSUME TypeOK, RegistryInv, StatusInv, SweepStep
  PROVE  StatusInv'
<1> USE DEF StatusInv
<1>1. CASE SweepFault
  <2>1. CASE proc = "starting"
    BY <1>1, <2>1, DieSettles DEF SweepFault, AbortSweep
  <2>2. CASE proc # "starting"
    BY <1>1, <2>2
    DEF SweepFault, AbortSweep, SweepHoldsPermit, RecoveryAlone, QueuedWaits, Registered
  <2>3. QED  BY <2>1, <2>2
<1>2. CASE ReplayTerminals \/ RecoverPublications
  <2>1. \A r \in Runs : status'[r] # status[r] => controls[r] = 0
    BY <1>2
    DEF ReplayTerminals, RecoverPublications, Replayable, RecoveryAlone, Registered, TypeOK
  <2>2. QueuedWaits'
    BY <1>2, <2>1 DEF ReplayTerminals, RecoverPublications, QueuedWaits, RegistryInv, Attended
  <2>3. SweepHoldsPermit' /\ RecoveryAlone'
    BY <1>2
    DEF ReplayTerminals, RecoverPublications, SweepHoldsPermit, RecoveryAlone, Registered
  <2>4. QED  BY <2>2, <2>3
<1>3. CASE SelectRuns
  BY <1>3 DEF SelectRuns, SweepHoldsPermit, RecoveryAlone, QueuedWaits, Registered, Left, TypeOK
<1>4. ASSUME NEW r \in Runs, PickRun(r)
      PROVE  StatusInv'
  BY <1>4 DEF PickRun, SweepHoldsPermit, RecoveryAlone, QueuedWaits, Registered, Left, TypeOK
<1>5. ASSUME NEW r \in Runs, AutoEnqueue(r)
      PROVE  StatusInv'
  <2>1. CASE Admissible(r)
    <3>1. /\ controls[r] = 0 /\ worker[r] = "idle" /\ worker'[r] = "registering"
          /\ \A s \in Runs : s # r => worker'[s] = worker[s] /\ controls'[s] = controls[s]
          /\ UNCHANGED <<status, proc, pool, lifecycle, recovering, todo, cur>>
          /\ sweep = "resume" /\ sweep' = "registering" /\ cur = r
      BY <1>5, <2>1 DEF AutoEnqueue, Register, Admissible, TypeOK, RegistryInv, Attended
    <3>2. SweepHoldsPermit' /\ QueuedWaits'
      BY <3>1 DEF SweepHoldsPermit, QueuedWaits, Registered
    <3>3. RecoveryAlone'
      BY <3>1 DEF RecoveryAlone, Left, TypeOK
    <3>4. QED  BY <3>2, <3>3
  <2>2. CASE ~Admissible(r)
    BY <1>5, <2>2
    DEF AutoEnqueue, SweepHoldsPermit, RecoveryAlone, QueuedWaits, Registered, Left
  <2>3. QED  BY <2>1, <2>2
<1>6. CASE MarkRefused
  <2>1. /\ sweep = "refused" /\ sweep' = "enqueue" /\ recovering /\ cur \in Runs
        /\ cur \notin todo /\ worker[cur] = "idle"
        /\ status' = [status EXCEPT ![cur] = "failed"]
        /\ UNCHANGED <<proc, pool, lifecycle, recovering, todo, cur, controls, worker>>
    BY <1>6 DEF MarkRefused, RecoveryAlone, Left, RegistryInv, Attended
  <2>2. SweepHoldsPermit' /\ QueuedWaits'
    BY <2>1 DEF SweepHoldsPermit, QueuedWaits, Registered, TypeOK
  <2>3. RecoveryAlone'
    BY <2>1 DEF RecoveryAlone, Left, TypeOK
  <2>4. QED  BY <2>2, <2>3
<1>7. CASE FinishSweep
  BY <1>7 DEF FinishSweep, SweepHoldsPermit, RecoveryAlone, QueuedWaits, Registered
<1>8. QED  BY <1>1, <1>2, <1>3, <1>4, <1>5, <1>6, <1>7 DEF SweepStep

LEMMA ServerSettles ==
  ASSUME TypeOK, RegistryInv, StatusInv,
         \/ ReleaseApiPermit \/ Crash \/ BeginShutdown \/ StopAll \/ Exit
         \/ Restart \/ BeginSweep \/ BeginSettings \/ FinishSettings
  PROVE  StatusInv'
<1> USE DEF StatusInv
<1>1. CASE Crash \/ Exit
  BY <1>1, DieSettles DEF Crash, Exit
<1>2. CASE BeginShutdown \/ StopAll \/ BeginSettings
  BY <1>2
  DEF BeginShutdown, StopAll, BeginSettings, SweepHoldsPermit, RecoveryAlone, QueuedWaits,
      Registered, Left
<1>3. CASE Restart \/ BeginSweep
  BY <1>3 DEF Restart, BeginSweep, SweepHoldsPermit, RecoveryAlone, QueuedWaits, Registered
<1>4. CASE ReleaseApiPermit \/ FinishSettings
  <2>1. sweep = "off" /\ sweep' = "off" /\ proc # "down" /\ proc # "starting"
    BY <1>4 DEF ReleaseApiPermit, FinishSettings, SweepHoldsPermit, TypeOK
  <2>2. QED
    BY <1>4, <2>1
    DEF ReleaseApiPermit, FinishSettings, SweepHoldsPermit, RecoveryAlone, QueuedWaits, Registered
<1>5. QED  BY <1>1, <1>2, <1>3, <1>4

LEMMA StatusNext == TypeOK /\ RegistryInv /\ StatusInv /\ [Next]_vars => StatusInv'
<1> SUFFICES ASSUME TypeOK, RegistryInv, StatusInv, [Next]_vars
             PROVE  StatusInv'
  OBVIOUS
<1>1. ASSUME NEW r \in Runs,
             \/ UserEnqueue(r) \/ ReviseOutline(r) \/ WorkerStep(r)
             \/ CancelLookup(r) \/ CancelDecide(r)
      PROVE  StatusInv'
  BY <1>1, ApiSettles, WorkerSettles
<1>2. ASSUME \/ ReleaseApiPermit \/ Crash \/ BeginShutdown \/ StopAll \/ Exit
             \/ Restart \/ BeginSweep \/ BeginSettings \/ FinishSettings
      PROVE  StatusInv'
  BY <1>2, ServerSettles
<1>3. CASE SweepStep
  BY <1>3, SweepSettles
<1>4. CASE UNCHANGED vars
  BY <1>4 DEF vars, StatusInv, SweepHoldsPermit, RecoveryAlone, QueuedWaits, Registered, Left
<1>5. QED
  BY <1>1, <1>2, <1>3, <1>4 DEF Next

LEMMA StatusCorrect == Spec => [](TypeOK /\ RegistryInv /\ StatusInv)
BY TypeCorrect, RegistryCorrect, StatusInit, StatusNext, PTL DEF Spec

\* The steps that change a status, and of whom.
LEMMA StatusSteps ==
  ASSUME TypeOK, RegistryInv, StatusInv, [Next]_vars, NEW r \in Runs, status'[r] # status[r]
  PROVE  \/ WorkerStep(r)
         \/ userOps' # userOps /\ controls[r] = 0
         \/ /\ controls[r] = 0
            /\ status[r] \in Completed => status'[r] \in Completed
<1>1. ASSUME NEW s \in Runs, WorkerStep(s)
      PROVE  WorkerStep(r)
  BY <1>1, WorkerOwn
<1>2. ASSUME NEW s \in Runs,
             UserEnqueue(s) \/ ReviseOutline(s) \/ CancelLookup(s) \/ CancelDecide(s)
      PROVE  userOps' # userOps /\ controls[r] = 0
  BY <1>2 DEF UserEnqueue, ReviseOutline, CancelLookup, CancelDecide, TypeOK
<1>3. CASE \/ ReleaseApiPermit \/ Crash \/ BeginShutdown \/ StopAll \/ Exit
           \/ Restart \/ BeginSweep \/ BeginSettings \/ FinishSettings
           \/ UNCHANGED vars
  BY <1>3
  DEF ReleaseApiPermit, Crash, BeginShutdown, StopAll, Exit, Die, Restart, BeginSweep,
      BeginSettings, FinishSettings, vars
<1>4. CASE SweepStep
  <2>1. CASE ReplayTerminals
    BY <2>1 DEF ReplayTerminals, Replayable, Recorded
  <2>2. CASE RecoverPublications
    BY <2>2 DEF RecoverPublications, StatusInv, RecoveryAlone, Registered, Recorded
  <2>3. CASE MarkRefused
    BY <2>3 DEF MarkRefused, StatusInv, RecoveryAlone, Left, Unfinished, TypeOK
  <2>4. CASE SweepFault \/ SelectRuns \/ FinishSweep
             \/ \E s \in Runs : PickRun(s) \/ AutoEnqueue(s)
    BY <2>4 DEF SweepFault, AbortSweep, Die, SelectRuns, FinishSweep, PickRun, AutoEnqueue
  <2>5. QED  BY <1>4, <2>1, <2>2, <2>3, <2>4 DEF SweepStep
<1>5. QED  BY <1>1, <1>2, <1>3, <1>4 DEF Next

\* Between any two steps of a registered run's worker its row is left alone: no
\* sweep, journal replay or request records another end for a live attempt.
THEOREM LiveStatus == Spec => LiveStatusIsTheWorkers
<1> DEFINE Live == \A r \in Registered :
             status'[r] # status[r] /\ worker[r] # "updating"
             => status'[r] \in {"queued", "running"} \cup Completed
                /\ worker'[r] # worker[r]
<1>1. TypeOK /\ RegistryInv /\ StatusInv /\ [Next]_vars => Live
  <2> SUFFICES ASSUME TypeOK, RegistryInv, StatusInv, [Next]_vars, NEW r \in Registered,
                      status'[r] # status[r], worker[r] # "updating"
               PROVE  /\ status'[r] \in {"queued", "running"} \cup Completed
                      /\ worker'[r] # worker[r]
    OBVIOUS
  <2>1. r \in Runs /\ WorkerStep(r)
    BY StatusSteps DEF Registered
  <2>2. worker'[r] # worker[r]
    BY <2>1, WorkerOwn
  <2>3. status'[r] \in {"queued", "running"} \cup Completed
    BY <2>1
    DEF WorkerStep, RegistrationStored, RegistrationFailed, AcquireSlot, StartExecution,
        ObserveCancel, ExecutionFails, DatabaseLost, JournalPublication, ReplaceTarget,
        CommitPublication, CommitUnknown, FinishPublication, Conclude, WriteTerminal,
        UpdateStatus, EraseTerminal, Leave, TypeOK
  <2>4. QED  BY <2>2, <2>3
<1>2. TypeOK /\ RegistryInv /\ StatusInv /\ [Next]_vars => [Live]_vars
  BY <1>1
<1>3. Spec => [][Live]_vars
  <2> HIDE DEF Live
  <2>1. QED  BY <1>2, StatusCorrect, PTL DEF Spec
<1>4. QED  BY <1>3 DEF LiveStatusIsTheWorkers

\* A completed run stays completed until a user resumes or revises it.
THEOREM CompletedStays == Spec => CompletedIsFinal
<1> DEFINE Final == \A r \in Runs :
             status[r] \in Completed /\ status'[r] \notin Completed
               => (controls[r] # 0 /\ status'[r] = "queued") \/ userOps' # userOps
<1>1. TypeOK /\ RegistryInv /\ StatusInv /\ [Next]_vars => Final
  <2> SUFFICES ASSUME TypeOK, RegistryInv, StatusInv, [Next]_vars, NEW r \in Runs,
                      status[r] \in Completed, status'[r] \notin Completed,
                      WorkerStep(r)
               PROVE  controls[r] # 0 /\ status'[r] = "queued"
    BY StatusSteps
  <2>1. controls[r] # 0
    BY WorkerOwn
  <2>2. status'[r] = "queued"
    BY DEF WorkerStep, RegistrationStored, RegistrationFailed, AcquireSlot, StartExecution,
           ObserveCancel, ExecutionFails, DatabaseLost, JournalPublication, ReplaceTarget,
           CommitPublication, CommitUnknown, FinishPublication, Conclude, WriteTerminal,
           UpdateStatus, EraseTerminal, Leave, Recorded, StatusInv, QueuedWaits, TypeOK
  <2>3. QED  BY <2>1, <2>2
<1>2. TypeOK /\ RegistryInv /\ StatusInv /\ [Next]_vars => [Final]_vars
  BY <1>1
<1>3. Spec => [][Final]_vars
  <2> HIDE DEF Final
  <2>1. QED  BY <1>2, StatusCorrect, PTL DEF Spec
<1>4. QED  BY <1>3 DEF CompletedIsFinal

-----------------------------------------------------------------------------
(* Cancellations: how an accepted one stays accepted while nobody works on *)
(* the run any more.                                                       *)

\* Accepted, and not exposed to a shutdown, a finished worker or a stale sweep.
Firm(r) == accepted[r] # 0 /\ r \notin exposed

\* What one of the sweeps would select.
Selectable == Unfinished \cup {"db_failed"}

\* Only a cancel request or a shutdown cancels a token.
TokenMeans == \A r \in Runs : token[r] /\ ~shutdown => accepted[r] = controls[r]

LiveRow ==
  \A r \in Runs : worker[r] \in {"waiting", "ended"} \cup HoldsSlot =>
    status[r] \in {"queued", "running"} \cup Completed

\* While its worker lives, nothing but the cancellation will be recorded.
FirmRegistered ==
  \A r \in Runs : Firm(r) /\ controls[r] # 0 =>
    /\ controls[r] = accepted[r]
    /\ shutdown => worker[r] \in Finishing
    /\ worker[r] \in {"journalling", "updating"} => fate[r] = "cancelled"
    /\ worker[r] = "erasing" => status[r] \notin Selectable
    /\ IF worker[r] = "registering"
         THEN sweep = "off" \/ (sweep = "registering" /\ cur = r)
         ELSE status[r] # "db_failed"

\* It is on disk as an intent, or nobody would select the row any more.
FirmRecorded ==
  \A r \in Runs : Firm(r) =>
    \/ terminal[r] = "cancelled"
    \/ terminal[r] = "none" /\ worker[r] \in {"idle", "leaving"} /\ status[r] \notin Selectable

\* No sweep has the run on its list; once it has replayed the intents it will
\* not put it there.
FirmUnswept ==
  \A r \in Runs : Firm(r) =>
    /\ r \notin todo /\ ~(sweep = "resume" /\ cur = r)
    /\ sweep \in {"publications", "select"} =>
         /\ status[r] # "db_failed"
         /\ recovering => status[r] \notin Unfinished

FirmInv == TokenMeans /\ LiveRow /\ FirmRegistered /\ FirmRecorded /\ FirmUnswept

LEMMA FirmInit == Init => FirmInv
BY DEF Init, FirmInv, TokenMeans, LiveRow, FirmRegistered, FirmRecorded, FirmUnswept, Firm

LEMMA DieFirm ==
  ASSUME TypeOK, FirmInv, Die
  PROVE  FirmInv'
<1>1. /\ UNCHANGED <<accepted, exposed, terminal, status>> /\ sweep' = "off" /\ todo' = {}
      /\ \A r \in Runs : controls'[r] = 0 /\ ~token'[r] /\ worker'[r] = "idle"
  BY DEF Die
<1>2. TokenMeans' /\ LiveRow' /\ FirmRegistered' /\ FirmUnswept'
  BY <1>1 DEF TokenMeans, LiveRow, FirmRegistered, FirmUnswept, Firm
<1>3. FirmRecorded'
  BY <1>1 DEF FirmInv, FirmRecorded, Firm
<1>4. QED  BY <1>2, <1>3 DEF FirmInv

\* The user starts a run: its earlier cancellation is settled.
LEMMA RegisterFirm ==
  ASSUME TypeOK, RegistryInv, FirmInv, NEW r \in Runs, Register(r), ~Firm(r)', sweep = "off",
         UNCHANGED <<shutdown, sweep, recovering, todo>>,
         \A s \in Runs : s # r => status'[s] = status[s],
         \A s \in Runs : s # r => accepted'[s] = accepted[s] /\ (s \in exposed' <=> s \in exposed)
  PROVE  FirmInv'
<1>1. /\ controls[r] = 0 /\ ~token[r] /\ UNCHANGED <<token, fate, sweep, shutdown, recovering, todo>>
      /\ worker'[r] = "registering"
      /\ \A s \in Runs : s # r => /\ controls'[s] = controls[s] /\ worker'[s] = worker[s]
                                  /\ terminal'[s] = terminal[s] /\ status'[s] = status[s]
                                  /\ Firm(s)' = Firm(s) /\ accepted'[s] = accepted[s]
  BY DEF Register, Admissible, SupersedeTerminal, TypeOK, RegistryInv, GateOrdered, Firm
<1>2. TokenMeans' /\ LiveRow'
  BY <1>1 DEF FirmInv, TokenMeans, LiveRow
<1>3. FirmRegistered'
  BY <1>1 DEF FirmInv, FirmRegistered
<1>4. FirmRecorded' /\ FirmUnswept'
  BY <1>1 DEF FirmInv, FirmRecorded, FirmUnswept
<1>5. QED  BY <1>2, <1>3, <1>4 DEF FirmInv

LEMMA ApiFirm ==
  ASSUME TypeOK, RegistryInv, StatusInv, FirmInv, NEW r \in Runs,
         \/ UserEnqueue(r) \/ ReviseOutline(r) \/ CancelLookup(r)
  PROVE  FirmInv'
<1>1. CASE CancelLookup(r)
  BY <1>1 DEF CancelLookup, FirmInv, TokenMeans, LiveRow, FirmRegistered, FirmRecorded,
              FirmUnswept, Firm
<1>2. CASE UserEnqueue(r) \/ (ReviseOutline(r) /\ Admissible(r))
  <2>1. /\ Register(r) /\ UNCHANGED <<shutdown, sweep, recovering, todo>>
        /\ accepted' = [accepted EXCEPT ![r] = 0] /\ exposed' = exposed \ {r}
        /\ \A s \in Runs : s # r => status'[s] = status[s]
    BY <1>2 DEF UserEnqueue, ReviseOutline, TypeOK
  <2>2. sweep = "off"
    BY <1>2 DEF UserEnqueue, ReviseOutline, Serving, StatusInv, SweepHoldsPermit
  <2>3. ~Firm(r)' /\ \A s \in Runs : s # r => accepted'[s] = accepted[s]
    BY <2>1 DEF Firm, TypeOK
  <2>4. QED  BY <2>1, <2>2, <2>3, RegisterFirm
<1>3. CASE ReviseOutline(r) /\ ~Admissible(r)
  <2>1. /\ UNCHANGED <<registry, disk, history, cur, shutdown, sweep, recovering, todo>>
        /\ controls[r] = 0 /\ status'[r] = "awaiting"
        /\ \A s \in Runs : s # r => status'[s] = status[s]
    BY <1>3 DEF ReviseOutline, TypeOK
  <2>2. worker[r] = "idle"
    BY <2>1 DEF RegistryInv, Attended
  <2>3. TokenMeans' /\ LiveRow' /\ FirmRegistered'
    BY <2>1, <2>2 DEF FirmInv, TokenMeans, LiveRow, FirmRegistered, Firm
  <2>4. FirmRecorded' /\ FirmUnswept'
    BY <2>1, <2>2 DEF FirmInv, FirmRecorded, FirmUnswept, Firm, Selectable, Unfinished
  <2>5. QED  BY <2>3, <2>4 DEF FirmInv
<1>4. QED  BY <1>1, <1>2, <1>3

\* An acceptance is exposed, or comes early enough for everyone to see it.
LEMMA CancelFirm ==
  ASSUME TypeOK, RegistryInv, StatusInv, FirmInv, NEW r \in Runs, CancelDecide(r)
  PROVE  FirmInv'
<1>1. UNCHANGED <<controls, worker, fate, status, shutdown, sweep, recovering, todo, cur>>
  BY DEF CancelDecide
<1>2. CASE ~StillCancellable(r)
  BY <1>1, <1>2
  DEF CancelDecide, FirmInv, TokenMeans, LiveRow, FirmRegistered, FirmRecorded, FirmUnswept, Firm
<1>3. CASE StillCancellable(r)
  <2>1. /\ controls[r] # 0 /\ accepted' = [accepted EXCEPT ![r] = controls[r]]
        /\ token' = [token EXCEPT ![r] = TRUE]
        /\ terminal' = IF token[r] THEN terminal ELSE [terminal EXCEPT ![r] = "cancelled"]
        /\ exposed \subseteq exposed' /\ exposed' \subseteq exposed \cup {r}
    BY <1>3 DEF CancelDecide, StillCancellable, PersistIntent
  <2>2. r \notin exposed' =>
          ~shutdown /\ ~BehindSweep(r) /\ (worker[r] \in Finishing => token[r])
    BY <1>3 DEF CancelDecide
  <2>3. \A s \in Runs : s # r => /\ accepted'[s] = accepted[s] /\ token'[s] = token[s]
                                 /\ terminal'[s] = terminal[s] /\ Firm(s)' = Firm(s)
    BY <2>1 DEF Firm, TypeOK
  <2>4. accepted'[r] = controls[r]
    BY <2>1 DEF TypeOK
  <2>5. Firm(r)' /\ token[r] => Firm(r) /\ terminal' = terminal /\ accepted[r] = controls[r]
    BY <2>1, <2>2 DEF FirmInv, TokenMeans, Firm
  <2>6. Firm(r)' /\ ~token[r] =>
          /\ terminal'[r] = "cancelled" /\ worker[r] \notin Finishing /\ ~shutdown
          /\ ~BehindSweep(r) /\ worker[r] # "idle"
    BY <2>1, <2>2 DEF Firm, TypeOK, RegistryInv, Attended
  <2>7. Firm(r)' /\ ~token[r] =>
          IF worker[r] = "registering"
            THEN sweep = "off" \/ (sweep = "registering" /\ cur = r)
            ELSE status[r] # "db_failed"
    BY <2>6 DEF BehindSweep, FirmInv, LiveRow, TypeOK
  <2>8. Firm(r)' /\ ~token[r] =>
          /\ r \notin todo /\ ~(sweep = "resume" /\ cur = r)
          /\ sweep \in {"publications", "select"} => status[r] # "db_failed" /\ ~recovering
    BY <2>1, <2>6, <2>7 DEF BehindSweep, StatusInv, RecoveryAlone, Registered
  <2>9. TokenMeans' /\ LiveRow'
    BY <1>1, <2>3, <2>4 DEF FirmInv, TokenMeans, LiveRow
  <2>10. FirmRegistered'
    BY <1>1, <2>3, <2>4, <2>5, <2>6, <2>7 DEF FirmInv, FirmRegistered
  <2>11. FirmRecorded'
    BY <1>1, <2>3, <2>5, <2>6 DEF FirmInv, FirmRecorded
  <2>12. FirmUnswept'
    BY <1>1, <2>3, <2>5, <2>8 DEF FirmInv, FirmUnswept
  <2>13. QED  BY <2>9, <2>10, <2>11, <2>12 DEF FirmInv
<1>4. QED  BY <1>2, <1>3

LEMMA WorkerFrame ==
  ASSUME TypeOK, NEW r \in Runs, WorkerStep(r)
  PROVE  /\ UNCHANGED <<shutdown, accepted, exposed>>
         /\ token'[r] => token[r] /\ controls'[r] = controls[r]
         /\ \A s \in Runs : s # r => /\ token'[s] = token[s] /\ fate'[s] = fate[s]
                                     /\ terminal'[s] = terminal[s]
         /\ sweep' \in {sweep, "enqueue", "refused"}
         /\ sweep' # sweep => sweep = "registering" /\ cur = r
<1>1. UNCHANGED <<shutdown, accepted, exposed>>
  BY DEF WorkerStep, RegistrationStored, RegistrationFailed, AcquireSlot, StartExecution,
         ObserveCancel, ExecutionFails, DatabaseLost, JournalPublication, ReplaceTarget,
         CommitPublication, CommitUnknown, FinishPublication, Conclude, WriteTerminal,
         UpdateStatus, EraseTerminal, Leave
<1>2. \/ token' = token /\ controls' = controls
      \/ token' = [token EXCEPT ![r] = FALSE]
  BY DEF WorkerStep, RegistrationStored, RegistrationFailed, AcquireSlot, StartExecution,
         ObserveCancel, ExecutionFails, DatabaseLost, JournalPublication, ReplaceTarget,
         CommitPublication, CommitUnknown, FinishPublication, Conclude, WriteTerminal,
         UpdateStatus, EraseTerminal, Leave, End, Unregister
<1>3. fate' = fate \/ \E f : fate' = [fate EXCEPT ![r] = f]
  BY DEF WorkerStep, RegistrationStored, RegistrationFailed, AcquireSlot, StartExecution,
         ObserveCancel, ExecutionFails, DatabaseLost, JournalPublication, ReplaceTarget,
         CommitPublication, CommitUnknown, FinishPublication, Conclude, WriteTerminal,
         UpdateStatus, EraseTerminal, Leave, End, Unregister
<1>4. terminal' = terminal \/ \E t : terminal' = [terminal EXCEPT ![r] = t]
  BY DEF WorkerStep, RegistrationStored, RegistrationFailed, AcquireSlot, StartExecution,
         ObserveCancel, ExecutionFails, DatabaseLost, JournalPublication, ReplaceTarget,
         CommitPublication, CommitUnknown, FinishPublication, Conclude, WriteTerminal,
         UpdateStatus, EraseTerminal, Leave
<1>5. /\ sweep' \in {sweep, "enqueue", "refused"}
      /\ sweep' # sweep => sweep = "registering" /\ cur = r
  BY DEF WorkerStep, RegistrationStored, RegistrationFailed, AcquireSlot, StartExecution,
         ObserveCancel, ExecutionFails, DatabaseLost, JournalPublication, ReplaceTarget,
         CommitPublication, CommitUnknown, FinishPublication, Conclude, WriteTerminal,
         UpdateStatus, EraseTerminal, Leave, SweepAfter
<1>6. QED  BY <1>1, <1>2, <1>3, <1>4, <1>5 DEF TypeOK

\* What a worker whose cancellation is firm does to its own row and journal.
LEMMA WorkerFirmOwn ==
  ASSUME TypeOK, RegistryInv, StatusInv, FirmInv, NEW r \in Runs, WorkerStep(r), Firm(r)
  PROVE  /\ controls'[r] # 0 =>
              /\ shutdown => worker'[r] \in Finishing
              /\ worker'[r] \in {"journalling", "updating"} => fate'[r] = "cancelled"
              /\ worker'[r] = "erasing" => status'[r] \notin Selectable
              /\ worker'[r] # "registering" /\ status'[r] # "db_failed"
         /\ \/ terminal'[r] = "cancelled"
            \/ /\ terminal'[r] = "none" /\ worker'[r] \in {"idle", "leaving"}
               /\ status'[r] \notin Selectable
         /\ sweep \in {"publications", "select"} => status'[r] # "db_failed" /\ ~recovering
<1>1. /\ controls[r] # 0 /\ controls[r] = accepted[r] /\ token[r]
      /\ shutdown => worker[r] \in Finishing
      /\ worker[r] \in {"journalling", "updating"} => fate[r] = "cancelled"
      /\ worker[r] = "erasing" => status[r] \notin Selectable
      /\ worker[r] = "registering" => sweep = "off" \/ (sweep = "registering" /\ cur = r)
      /\ worker[r] # "registering" => status[r] # "db_failed"
  BY WorkerOwn DEF FirmInv, FirmRegistered, RegistryInv, GateOrdered
<1>2. \/ terminal[r] = "cancelled"
      \/ terminal[r] = "none" /\ worker[r] = "leaving" /\ status[r] \notin Selectable
  BY WorkerOwn DEF FirmInv, FirmRecorded
<1>3. sweep \in {"publications", "select"} => ~recovering /\ worker[r] # "registering"
  BY <1>1 DEF StatusInv, RecoveryAlone, Registered
<1>4. CASE RegistrationStored(r)
  BY <1>1, <1>2, <1>3, <1>4 DEF RegistrationStored, TypeOK
<1>5. CASE RegistrationFailed(r)
  BY <1>1, <1>2, <1>3, <1>5 DEF RegistrationFailed, Unregister, TypeOK
<1>6. CASE AcquireSlot(r) \/ JournalPublication(r) \/ ObserveCancel(r) \/ ExecutionFails(r)
           \/ DatabaseLost(r)
  BY <1>1, <1>2, <1>3, <1>6
  DEF AcquireSlot, JournalPublication, ObserveCancel, ExecutionFails, DatabaseLost, End, TypeOK
<1>7. CASE StartExecution(r) \/ CommitPublication(r) \/ CommitUnknown(r) \/ FinishPublication(r)
  BY <1>1, <1>2, <1>3, <1>7
  DEF StartExecution, CommitPublication, CommitUnknown, FinishPublication, TypeOK
<1>8. CASE ReplaceTarget(r)
  BY <1>1, <1>8 DEF ReplaceTarget, MayReplace
<1>9. CASE Conclude(r)
  BY <1>1, <1>2, <1>3, <1>9 DEF Conclude, FateOf, TypeOK
<1>10. CASE WriteTerminal(r)
  BY <1>1, <1>2, <1>3, <1>10 DEF WriteTerminal, TypeOK
<1>11. CASE UpdateStatus(r)
  BY <1>1, <1>2, <1>3, <1>11 DEF UpdateStatus, Recorded, TypeOK, Selectable, Unfinished
<1>12. CASE EraseTerminal(r)
  BY <1>1, <1>2, <1>3, <1>12 DEF EraseTerminal, TypeOK
<1>13. CASE Leave(r)
  BY <1>1, <1>2, <1>3, <1>13 DEF Leave, Unregister, TypeOK
<1>14. QED
  BY <1>4, <1>5, <1>6, <1>7, <1>8, <1>9, <1>10, <1>11, <1>12, <1>13 DEF WorkerStep

LEMMA WorkerFirm ==
  ASSUME TypeOK, RegistryInv, StatusInv, FirmInv, NEW r \in Runs, WorkerStep(r)
  PROVE  FirmInv'
<1>1. \A s \in Runs : Firm(s)' = Firm(s)
  BY WorkerFrame DEF Firm
<1>2. TokenMeans'
  BY WorkerFrame, WorkerOwn DEF FirmInv, TokenMeans
<1>3. LiveRow'
  <2>1. worker'[r] \in {"waiting", "ended"} \cup HoldsSlot =>
          status'[r] \in {"queued", "running"} \cup Completed
    BY DEF FirmInv, LiveRow, WorkerStep, RegistrationStored, RegistrationFailed, AcquireSlot,
           StartExecution, ObserveCancel, ExecutionFails, DatabaseLost, JournalPublication,
           ReplaceTarget, CommitPublication, CommitUnknown, FinishPublication, Conclude,
           WriteTerminal, UpdateStatus, EraseTerminal, Leave, End, Unregister, TypeOK
  <2>2. QED  BY <2>1, WorkerOwn DEF FirmInv, LiveRow
<1>4. FirmRegistered'
  BY <1>1, WorkerFrame, WorkerOwn, WorkerFirmOwn DEF FirmInv, FirmRegistered
<1>5. FirmRecorded'
  BY <1>1, WorkerFrame, WorkerOwn, WorkerFirmOwn DEF FirmInv, FirmRecorded
<1>6. FirmUnswept'
  BY <1>1, WorkerFrame, WorkerOwn, WorkerFirmOwn DEF FirmInv, FirmUnswept
<1>7. QED  BY <1>2, <1>3, <1>4, <1>5, <1>6 DEF FirmInv

LEMMA SweepFirm ==
  ASSUME TypeOK, RegistryInv, StatusInv, FirmInv, SweepStep
  PROVE  FirmInv'
<1> USE DEF FirmInv
<1>1. CASE SweepFault
  <2>1. CASE proc = "starting"
    BY <1>1, <2>1, DieFirm DEF SweepFault, AbortSweep
  <2>2. CASE proc # "starting"
    BY <1>1, <2>2
    DEF SweepFault, AbortSweep, TokenMeans, LiveRow, FirmRegistered, FirmRecorded, FirmUnswept, Firm
  <2>3. QED  BY <2>1, <2>2
<1>2. CASE ReplayTerminals \/ RecoverPublications
  <2>1. /\ UNCHANGED <<shutdown, controls, token, worker, fate, recovering, todo, cur, accepted, exposed>>
        /\ \A r \in Runs : controls[r] # 0 => status'[r] = status[r] /\ terminal'[r] = terminal[r]
    BY <1>2
    DEF ReplayTerminals, RecoverPublications, Replayable, StatusInv, RecoveryAlone, Registered, TypeOK
  <2>2. \A r \in Runs : Firm(r)' = Firm(r)
    BY <2>1 DEF Firm
  <2>3. TokenMeans' /\ LiveRow'
    BY <2>1 DEF TokenMeans, LiveRow, RegistryInv, Attended
  <2>4. sweep' \in {"publications", "select"} /\ sweep \in {"terminal", "publications"}
    BY <1>2 DEF ReplayTerminals, RecoverPublications
  <2>5. FirmRegistered'
    BY <2>1, <2>2, <2>4 DEF FirmRegistered
  <2>6. ASSUME NEW r \in Runs, Firm(r), controls[r] = 0
        PROVE  /\ terminal'[r] = "cancelled"
                    \/ (terminal'[r] = "none" /\ status'[r] \notin Selectable)
               /\ status'[r] # "db_failed" /\ (recovering => status'[r] \notin Unfinished)
    <3>1. worker[r] = "idle"
      BY <2>6 DEF RegistryInv, Attended
    <3>2. terminal[r] = "cancelled" \/ (terminal[r] = "none" /\ status[r] \notin Selectable)
      BY <2>6, <3>1 DEF FirmRecorded
    <3>3. CASE ReplayTerminals
      BY <2>6, <3>2, <3>3 DEF ReplayTerminals, Replayable, Recorded, Selectable, Unfinished
    <3>4. CASE RecoverPublications
      <4>1. sweep = "publications" /\ UNCHANGED terminal
        BY <3>4 DEF RecoverPublications
      <4>2. status'[r] = status[r] \/ status'[r] \in Completed \cup {"failed"}
        BY <3>4 DEF RecoverPublications, Recorded
      <4>3. status[r] # "db_failed" /\ (recovering => status[r] \notin Unfinished)
        BY <2>6, <4>1 DEF FirmUnswept
      <4>4. QED  BY <3>2, <4>1, <4>2, <4>3 DEF Selectable, Unfinished
    <3>5. QED  BY <1>2, <3>3, <3>4
  <2>7. FirmRecorded'
    BY <2>1, <2>2, <2>6 DEF FirmRecorded, RegistryInv, Attended
  <2>8. FirmUnswept'
    <3>1. ASSUME NEW r \in Runs, Firm(r), controls[r] # 0
          PROVE  status'[r] # "db_failed" /\ ~recovering
      BY <2>1, <2>4, <3>1 DEF FirmRegistered, StatusInv, RecoveryAlone, Registered
    <3>2. QED  BY <2>1, <2>2, <2>4, <2>6, <3>1 DEF FirmUnswept
  <2>9. QED  BY <2>3, <2>5, <2>7, <2>8
<1>3. CASE SelectRuns
  <2>1. FirmUnswept'
    BY <1>3 DEF SelectRuns, FirmUnswept, Firm
  <2>2. QED
    BY <1>3, <2>1 DEF SelectRuns, TokenMeans, LiveRow, FirmRegistered, FirmRecorded, Firm
<1>4. ASSUME NEW r \in Runs, PickRun(r)
      PROVE  FirmInv'
  BY <1>4 DEF PickRun, TokenMeans, LiveRow, FirmRegistered, FirmRecorded, FirmUnswept, Firm
<1>5. ASSUME NEW r \in Runs, AutoEnqueue(r)
      PROVE  FirmInv'
  <2>1. CASE Admissible(r)
    <3>1. /\ Register(r) /\ sweep = "resume" /\ sweep' = "registering" /\ cur = r
          /\ UNCHANGED <<shutdown, status, recovering, todo, cur, accepted, exposed>>
      BY <1>5, <2>1 DEF AutoEnqueue
    <3>2. ~Firm(r) /\ \A s \in Runs : Firm(s)' = Firm(s)
      BY <3>1 DEF FirmUnswept, Firm
    <3>3. /\ controls[r] = 0 /\ ~token[r] /\ UNCHANGED <<token, fate>>
          /\ worker'[r] = "registering"
          /\ \A s \in Runs : s # r => /\ controls'[s] = controls[s] /\ worker'[s] = worker[s]
                                      /\ terminal'[s] = terminal[s]
      BY <3>1 DEF Register, Admissible, SupersedeTerminal, TypeOK, RegistryInv, GateOrdered
    <3>4. TokenMeans' /\ LiveRow'
      BY <3>1, <3>3 DEF TokenMeans, LiveRow
    <3>5. FirmRegistered' /\ FirmRecorded' /\ FirmUnswept'
      BY <3>1, <3>2, <3>3 DEF FirmRegistered, FirmRecorded, FirmUnswept
    <3>6. QED  BY <3>4, <3>5
  <2>2. CASE ~Admissible(r)
    BY <1>5, <2>2
    DEF AutoEnqueue, TokenMeans, LiveRow, FirmRegistered, FirmRecorded, FirmUnswept, Firm
  <2>3. QED  BY <2>1, <2>2
<1>6. CASE MarkRefused
  <2>1. /\ sweep = "refused" /\ sweep' = "enqueue" /\ controls[cur] = 0 /\ cur \in Runs
        /\ worker[cur] = "idle" /\ status' = [status EXCEPT ![cur] = "failed"]
        /\ UNCHANGED <<shutdown, controls, token, worker, fate, recovering, todo, cur,
                       terminal, accepted, exposed>>
    BY <1>6 DEF MarkRefused, StatusInv, RecoveryAlone, Left, RegistryInv, Attended
  <2>2. TokenMeans' /\ LiveRow' /\ FirmRegistered'
    BY <2>1 DEF TokenMeans, LiveRow, FirmRegistered, Firm, TypeOK
  <2>3. FirmRecorded' /\ FirmUnswept'
    BY <2>1 DEF FirmRecorded, FirmUnswept, Firm, TypeOK, Selectable, Unfinished
  <2>4. QED  BY <2>2, <2>3
<1>7. CASE FinishSweep
  BY <1>7 DEF FinishSweep, TokenMeans, LiveRow, FirmRegistered, FirmRecorded, FirmUnswept, Firm
<1>8. QED  BY <1>1, <1>2, <1>3, <1>4, <1>5, <1>6, <1>7 DEF SweepStep

LEMMA ServerFirm ==
  ASSUME TypeOK, RegistryInv, StatusInv, FirmInv,
         \/ ReleaseApiPermit \/ Crash \/ BeginShutdown \/ StopAll \/ Exit
         \/ Restart \/ BeginSweep \/ BeginSettings \/ FinishSettings
  PROVE  FirmInv'
<1> USE DEF FirmInv
<1>1. CASE Crash \/ Exit
  BY <1>1, DieFirm DEF Crash, Exit
<1>2. CASE BeginShutdown
  <2>1. \A r \in Runs : Firm(r)' => Firm(r)
    BY <1>2 DEF BeginShutdown, Firm
  <2>2. \A r \in Runs : Firm(r)' /\ controls[r] # 0 => worker[r] \in Finishing
    BY <1>2, <2>1 DEF BeginShutdown, Firm, FirmRegistered, Registered
  <2>3. TokenMeans' /\ LiveRow' /\ FirmRegistered'
    BY <1>2, <2>1, <2>2 DEF BeginShutdown, TokenMeans, LiveRow, FirmRegistered
  <2>4. FirmRecorded' /\ FirmUnswept'
    BY <1>2, <2>1 DEF BeginShutdown, FirmRecorded, FirmUnswept
  <2>5. QED  BY <2>3, <2>4
<1>3. CASE StopAll
  BY <1>3 DEF StopAll, TokenMeans, LiveRow, FirmRegistered, FirmRecorded, FirmUnswept, Firm
<1>4. CASE BeginSweep
  <2>1. \A r \in Runs : Firm(r)' => Firm(r)
    BY <1>4 DEF BeginSweep, Firm
  <2>2. \A r \in Runs : Firm(r)' /\ controls[r] # 0 => worker[r] # "registering"
    BY <1>4, <2>1 DEF BeginSweep, Firm, FirmRegistered, Registered
  <2>3. TokenMeans' /\ LiveRow' /\ FirmRegistered'
    BY <1>4, <2>1, <2>2 DEF BeginSweep, TokenMeans, LiveRow, FirmRegistered
  <2>4. FirmRecorded' /\ FirmUnswept'
    BY <1>4, <2>1 DEF BeginSweep, FirmRecorded, FirmUnswept
  <2>5. QED  BY <2>3, <2>4
<1>5. CASE Restart
  <2>1. \A r \in Runs : controls[r] = 0
    BY <1>5 DEF Restart, StatusInv, SweepHoldsPermit, Registered
  <2>2. QED
    BY <1>5, <2>1
    DEF Restart, TokenMeans, LiveRow, FirmRegistered, FirmRecorded, FirmUnswept, Firm,
        StatusInv, SweepHoldsPermit
<1>6. CASE ReleaseApiPermit \/ BeginSettings \/ FinishSettings
  <2>1. sweep' = sweep /\ (cur' = cur \/ sweep = "off")
    BY <1>6 DEF ReleaseApiPermit, BeginSettings, FinishSettings, StatusInv, SweepHoldsPermit
  <2>2. QED
    BY <1>6, <2>1
    DEF ReleaseApiPermit, BeginSettings, FinishSettings, TokenMeans, LiveRow, FirmRegistered,
        FirmRecorded, FirmUnswept, Firm
<1>7. QED  BY <1>1, <1>2, <1>3, <1>4, <1>5, <1>6

LEMMA FirmNext == TypeOK /\ RegistryInv /\ StatusInv /\ FirmInv /\ [Next]_vars => FirmInv'
<1> SUFFICES ASSUME TypeOK, RegistryInv, StatusInv, FirmInv, [Next]_vars
             PROVE  FirmInv'
  OBVIOUS
<1>1. ASSUME NEW r \in Runs,
             \/ UserEnqueue(r) \/ ReviseOutline(r) \/ WorkerStep(r)
             \/ CancelLookup(r) \/ CancelDecide(r)
      PROVE  FirmInv'
  BY <1>1, ApiFirm, CancelFirm, WorkerFirm
<1>2. ASSUME \/ ReleaseApiPermit \/ Crash \/ BeginShutdown \/ StopAll \/ Exit
             \/ Restart \/ BeginSweep \/ BeginSettings \/ FinishSettings
      PROVE  FirmInv'
  BY <1>2, ServerFirm
<1>3. CASE SweepStep
  BY <1>3, SweepFirm
<1>4. CASE UNCHANGED vars
  BY <1>4
  DEF vars, FirmInv, TokenMeans, LiveRow, FirmRegistered, FirmRecorded, FirmUnswept, Firm
<1>5. QED
  BY <1>1, <1>2, <1>3, <1>4 DEF Next

\* An accepted cancellation is never undone by recovery or supervision, through
\* any number of crashes, faults and sweeps, unless it was exposed.
THEOREM FirmCancel == Spec => []FirmCancelStands
<1>1. FirmInv => FirmCancelStands
  BY DEF FirmInv, FirmRegistered, Firm, FirmCancelStands, Registered
<1>2. Spec => [](TypeOK /\ RegistryInv /\ StatusInv /\ FirmInv)
  BY StatusCorrect, FirmInit, FirmNext, PTL DEF Spec
<1>3. QED  BY <1>1, <1>2, PTL

-----------------------------------------------------------------------------
(* Refinement: RunLifecycle implements AttemptGate. *)

LEMMA GateStarts == Init => Gate!GateInit
BY DEF Init, Gate!GateInit, Decision

\* Steps that leave attempts, publication and acceptance alone are stutters.
LEMMA GateStutters ==
  ASSUME UNCHANGED <<controls, published, accepted, attempts>>
  PROVE  UNCHANGED Gate!gate
BY DEF Gate!gate, Decision

\* A registration opens the run's next attempt, undecided.
LEMMA RegisterOpens ==
  ASSUME TypeOK, RegistryInv, NEW r \in Runs, Register(r),
         \/ accepted' = [accepted EXCEPT ![r] = 0]
         \/ UNCHANGED accepted
  PROVE  Gate!Open(r)
<1>1. /\ controls[r] = 0
      /\ controls' = [controls EXCEPT ![r] = attempts[r] + 1]
      /\ attempts' = [attempts EXCEPT ![r] = attempts[r] + 1]
      /\ UNCHANGED published
  BY DEF Register, Admissible
<1>2. ~published[r] /\ accepted'[r] # controls'[r] /\ controls'[r] # 0
  BY <1>1 DEF RegistryInv, GateOrdered, AttemptsOrdered, TypeOK
<1>3. \A s \in Runs : Decision(s)' = Decision(s)
  <2> SUFFICES ASSUME NEW s \in Runs
               PROVE  Decision(s)' = Decision(s)
    OBVIOUS
  <2>1. CASE s = r
    BY <1>1, <1>2, <2>1 DEF Decision
  <2>2. CASE s # r
    BY <1>1, <2>2 DEF Decision, TypeOK
  <2>3. QED  BY <2>1, <2>2
<1>4. QED  BY <1>1, <1>3 DEF Gate!Open, TypeOK

\* Taking a run out of the registry closes its attempt.
LEMMA UnregisterCloses ==
  ASSUME TypeOK, NEW r \in Runs, Unregister(r), UNCHANGED <<accepted, attempts>>
  PROVE  Gate!Close({r})
BY DEF Unregister, Gate!Close, Decision, TypeOK

\* Process death closes every attempt.
LEMMA DieCloses ==
  ASSUME TypeOK, Die
  PROVE  Gate!Close(Runs)
BY DEF Die, Gate!Close, Decision

LEMMA ApiImplements ==
  ASSUME TypeOK, RegistryInv, NEW r \in Runs,
         \/ UserEnqueue(r) \/ ReviseOutline(r)
         \/ CancelLookup(r) \/ CancelDecide(r)
  PROVE  [Gate!GateNext]_(Gate!gate)
<1>1. CASE UserEnqueue(r)
  BY <1>1, RegisterOpens DEF UserEnqueue, Gate!GateNext
<1>2. CASE ReviseOutline(r)
  <2>1. CASE Admissible(r)
    BY <1>2, <2>1, RegisterOpens DEF ReviseOutline, Gate!GateNext
  <2>2. CASE ~Admissible(r)
    BY <1>2, <2>2, GateStutters DEF ReviseOutline
  <2>3. QED  BY <2>1, <2>2
<1>3. CASE CancelLookup(r)
  BY <1>3, GateStutters DEF CancelLookup
<1>4. CASE CancelDecide(r)
  <2>1. CASE StillCancellable(r)
    <3>1. /\ controls[r] = asking[r] /\ controls[r] # 0 /\ ~published[r]
          /\ accepted' = [accepted EXCEPT ![r] = controls[r]]
          /\ UNCHANGED <<controls, published, attempts>>
      BY <1>4, <2>1 DEF CancelDecide, StillCancellable
    <3>2. CASE accepted[r] = controls[r]
      BY <3>1, <3>2, GateStutters DEF TypeOK
    <3>3. CASE accepted[r] # controls[r]
      <4>1. Decision(r) = "open" /\ Decision(r)' = "cancelled"
        BY <3>1, <3>3 DEF Decision, TypeOK
      <4>2. \A s \in Runs \ {r} : Decision(s)' = Decision(s)
        BY <3>1 DEF Decision, TypeOK
      <4>3. Gate!Decide(r, "cancelled")
        BY <3>1, <4>1, <4>2 DEF Gate!Decide
      <4>4. QED  BY <4>3 DEF Gate!GateNext
    <3>4. QED  BY <3>2, <3>3
  <2>2. CASE ~StillCancellable(r)
    BY <1>4, <2>2, GateStutters DEF CancelDecide
  <2>3. QED  BY <2>1, <2>2
<1>5. QED  BY <1>1, <1>2, <1>3, <1>4

LEMMA WorkerImplements ==
  ASSUME TypeOK, RegistryInv, NEW r \in Runs, WorkerStep(r)
  PROVE  [Gate!GateNext]_(Gate!gate)
<1>1. CASE RegistrationFailed(r) \/ Leave(r)
  BY <1>1, UnregisterCloses DEF RegistrationFailed, Leave, Gate!GateNext
<1>2. CASE ReplaceTarget(r)
  <2>1. /\ worker[r] = "publishing" /\ ~token[r]
        /\ published' = [published EXCEPT ![r] = TRUE]
        /\ UNCHANGED <<controls, accepted, attempts>>
    BY <1>2 DEF ReplaceTarget, MayReplace
  <2>2. CASE published[r]
    <3>1. published' = published
      BY <2>1, <2>2 DEF TypeOK
    <3>2. QED  BY <2>1, <3>1, GateStutters
  <2>3. CASE ~published[r]
    <3>1. controls[r] # 0 /\ accepted[r] # controls[r]
      BY <2>1 DEF RegistryInv, Attended, GateOrdered
    <3>2. Decision(r) = "open" /\ Decision(r)' = "published"
      BY <2>1, <2>3, <3>1 DEF Decision, TypeOK
    <3>3. \A s \in Runs \ {r} : Decision(s)' = Decision(s)
      BY <2>1 DEF Decision, TypeOK
    <3>4. Gate!Decide(r, "published")
      BY <2>1, <3>1, <3>2, <3>3 DEF Gate!Decide
    <3>5. QED  BY <3>4 DEF Gate!GateNext
  <2>4. QED  BY <2>2, <2>3
<1>3. CASE \/ RegistrationStored(r) \/ AcquireSlot(r) \/ StartExecution(r)
           \/ ObserveCancel(r) \/ ExecutionFails(r) \/ DatabaseLost(r)
           \/ JournalPublication(r) \/ CommitPublication(r) \/ CommitUnknown(r)
           \/ FinishPublication(r) \/ Conclude(r) \/ WriteTerminal(r)
           \/ UpdateStatus(r) \/ EraseTerminal(r)
  BY <1>3, GateStutters
  DEF RegistrationStored, AcquireSlot, StartExecution, ObserveCancel,
      ExecutionFails, DatabaseLost, End, JournalPublication, CommitPublication,
      CommitUnknown, FinishPublication, Conclude, WriteTerminal, UpdateStatus,
      EraseTerminal
<1>4. QED  BY <1>1, <1>2, <1>3 DEF WorkerStep

LEMMA SweepImplements ==
  ASSUME TypeOK, RegistryInv, SweepStep
  PROVE  [Gate!GateNext]_(Gate!gate)
<1>1. CASE SweepFault
  <2>1. CASE proc = "starting"
    BY <1>1, <2>1, DieCloses DEF SweepFault, AbortSweep, Gate!GateNext
  <2>2. CASE proc # "starting"
    BY <1>1, <2>2, GateStutters DEF SweepFault, AbortSweep
  <2>3. QED  BY <2>1, <2>2
<1>2. ASSUME NEW r \in Runs, PickRun(r) \/ AutoEnqueue(r)
      PROVE  [Gate!GateNext]_(Gate!gate)
  <2>1. CASE PickRun(r)
    BY <2>1, GateStutters DEF PickRun
  <2>2. CASE AutoEnqueue(r) /\ Admissible(r)
    BY <2>2, RegisterOpens DEF AutoEnqueue, Gate!GateNext
  <2>3. CASE AutoEnqueue(r) /\ ~Admissible(r)
    BY <2>3, GateStutters DEF AutoEnqueue
  <2>4. QED  BY <1>2, <2>1, <2>2, <2>3
<1>3. CASE \/ ReplayTerminals \/ RecoverPublications \/ SelectRuns
           \/ MarkRefused \/ FinishSweep
  BY <1>3, GateStutters
  DEF ReplayTerminals, RecoverPublications, SelectRuns, MarkRefused, FinishSweep
<1>4. QED  BY <1>1, <1>2, <1>3 DEF SweepStep

LEMMA ServerImplements ==
  ASSUME TypeOK, RegistryInv,
         \/ ReleaseApiPermit \/ Crash \/ BeginShutdown \/ StopAll \/ Exit
         \/ Restart \/ BeginSweep \/ BeginSettings \/ FinishSettings
  PROVE  [Gate!GateNext]_(Gate!gate)
<1>1. CASE Crash \/ Exit
  BY <1>1, DieCloses DEF Crash, Exit, Gate!GateNext
<1>2. CASE \/ ReleaseApiPermit \/ BeginShutdown \/ StopAll \/ Restart
           \/ BeginSweep \/ BeginSettings \/ FinishSettings
  BY <1>2, GateStutters
  DEF ReleaseApiPermit, BeginShutdown, StopAll, Restart, BeginSweep,
      BeginSettings, FinishSettings
<1>3. QED  BY <1>1, <1>2

LEMMA GateSteps ==
  TypeOK /\ RegistryInv /\ [Next]_vars => [Gate!GateNext]_(Gate!gate)
<1> SUFFICES ASSUME TypeOK, RegistryInv, [Next]_vars
             PROVE  [Gate!GateNext]_(Gate!gate)
  OBVIOUS
<1>1. ASSUME NEW r \in Runs,
             \/ UserEnqueue(r) \/ ReviseOutline(r) \/ WorkerStep(r)
             \/ CancelLookup(r) \/ CancelDecide(r)
      PROVE  [Gate!GateNext]_(Gate!gate)
  BY <1>1, ApiImplements, WorkerImplements
<1>2. ASSUME \/ ReleaseApiPermit \/ Crash \/ BeginShutdown \/ StopAll \/ Exit
             \/ Restart \/ BeginSweep \/ BeginSettings \/ FinishSettings
      PROVE  [Gate!GateNext]_(Gate!gate)
  BY <1>2, ServerImplements
<1>3. CASE SweepStep
  BY <1>3, SweepImplements
<1>4. CASE UNCHANGED vars
  BY <1>4, GateStutters DEF vars
<1>5. QED
  BY <1>1, <1>2, <1>3, <1>4 DEF Next

\* The lifecycle implements the attempt gate: requests, workers, sweeps, settings
\* and process death only ever open a run's next attempt, decide the open attempt
\* once, for publication or for cancellation, or close attempts.
THEOREM Implementation == Spec => ImplementsAttemptGate
BY TypeCorrect, RegistryCorrect, GateStarts, GateSteps, PTL
DEF Spec, ImplementsAttemptGate, Gate!GateSpec

-----------------------------------------------------------------------------
(* Who waits for whom: a worker for a job slot, a sweep or a revision for a  *)
(* registration, everybody else for the lifecycle permit.                    *)

\* The next step of r's task needs nothing but its own statement.
WorkerReady(r) ==
  worker[r] \notin {"idle", "waiting"} \/ (worker[r] = "waiting" /\ (jobs > 0 \/ token[r]))

\* The sweep's next step is its own, or its run's registration is under way.
SweepReady ==
  \/ sweep \in {"terminal", "publications", "select", "enqueue"}
  \/ sweep \in {"resume", "refused"} /\ cur \in Runs
  \/ sweep = "registering" /\ cur \in Runs /\ worker[cur] = "registering"

\* Whoever holds the lifecycle permit is there to give it back.
PermitReady ==
  \/ lifecycle \in {"api", "settings"}
  \/ lifecycle = "revision" /\ cur \in Runs
  \/ lifecycle = "maintenance" /\ sweep # "off"

NothingHangs ==
  /\ Registered # {} => \E r \in Runs : WorkerReady(r)
  /\ sweep # "off" => SweepReady
  /\ lifecycle # "free" => PermitReady

HandsInv ==
  /\ lifecycle = "maintenance" => sweep # "off"
  /\ lifecycle = "revision" => cur \in Runs
  /\ sweep \in {"resume", "refused"} => cur \in Runs
  /\ sweep = "registering" => cur \in Runs /\ worker[cur] = "registering"

LEMMA HandsInit == Init => HandsInv
BY DEF Init, HandsInv

LEMMA ApiHands ==
  ASSUME TypeOK, RegistryInv, StatusInv, HandsInv, NEW r \in Runs,
         UserEnqueue(r) \/ ReviseOutline(r) \/ CancelLookup(r) \/ CancelDecide(r)
  PROVE  HandsInv'
<1>1. CASE CancelLookup(r) \/ CancelDecide(r)
  BY <1>1 DEF CancelLookup, CancelDecide, HandsInv
<1>2. CASE UserEnqueue(r) \/ ReviseOutline(r)
  <2>1. sweep = "off" /\ sweep' = "off" /\ lifecycle = "free"
    BY <1>2 DEF UserEnqueue, ReviseOutline, Serving, StatusInv, SweepHoldsPermit
  <2>2. lifecycle' \in {"free", "api"} \/ (lifecycle' = "revision" /\ cur' = r)
    BY <1>2, <2>1 DEF UserEnqueue, ReviseOutline
  <2>3. QED  BY <2>1, <2>2 DEF HandsInv
<1>3. QED  BY <1>1, <1>2

LEMMA WorkerHands ==
  ASSUME TypeOK, HandsInv, NEW r \in Runs, WorkerStep(r)
  PROVE  HandsInv'
<1>1. UNCHANGED <<lifecycle, cur>> /\ \A s \in Runs : s # r => worker'[s] = worker[s]
  BY DEF WorkerStep, RegistrationStored, RegistrationFailed, Unregister, AcquireSlot,
         StartExecution, ObserveCancel, ExecutionFails, DatabaseLost, End, SweepAfter,
         JournalPublication, ReplaceTarget, CommitPublication, CommitUnknown,
         FinishPublication, Conclude, WriteTerminal, UpdateStatus, EraseTerminal, Leave,
         TypeOK
<1>2. CASE RegistrationStored(r) \/ RegistrationFailed(r)
  <2>1. sweep' = sweep \/ (sweep = "registering" /\ cur = r /\ sweep' \in {"enqueue", "refused"})
    BY <1>2 DEF RegistrationStored, RegistrationFailed, SweepAfter
  <2>2. sweep' = "registering" => cur # r
    BY <1>2, <2>1 DEF RegistrationStored, RegistrationFailed, SweepAfter
  <2>3. QED  BY <1>1, <2>1, <2>2 DEF HandsInv
<1>3. CASE ~(RegistrationStored(r) \/ RegistrationFailed(r))
  <2>1. sweep' = sweep /\ worker[r] # "registering"
    BY <1>3 DEF WorkerStep, AcquireSlot, StartExecution, ObserveCancel, ExecutionFails,
         DatabaseLost, JournalPublication, ReplaceTarget, CommitPublication, CommitUnknown,
         FinishPublication, Conclude, WriteTerminal, UpdateStatus, EraseTerminal, Leave
  <2>2. QED  BY <1>1, <2>1 DEF HandsInv
<1>4. QED  BY <1>2, <1>3

LEMMA SweepHands ==
  ASSUME TypeOK, HandsInv, SweepStep
  PROVE  HandsInv'
<1>1. CASE SweepFault
  BY <1>1 DEF SweepFault, AbortSweep, Die, HandsInv
<1>2. CASE ReplayTerminals \/ RecoverPublications \/ SelectRuns \/ MarkRefused
  BY <1>2 DEF ReplayTerminals, RecoverPublications, SelectRuns, MarkRefused, HandsInv
<1>3. CASE FinishSweep
  BY <1>3 DEF FinishSweep, HandsInv
<1>4. ASSUME NEW r \in Runs, PickRun(r)
      PROVE  HandsInv'
  <2>1. lifecycle' = lifecycle /\ sweep = "enqueue" /\ worker' = worker
    BY <1>4 DEF PickRun
  <2>2. (sweep' = "resume" /\ cur' = r) \/ (sweep' = "enqueue" /\ cur' = cur)
    BY <1>4 DEF PickRun
  <2>3. QED  BY <2>1, <2>2 DEF HandsInv
<1>5. ASSUME NEW r \in Runs, AutoEnqueue(r)
      PROVE  HandsInv'
  <2>1. lifecycle' = lifecycle /\ sweep = "resume" /\ cur = r /\ cur' = cur
    BY <1>5 DEF AutoEnqueue
  <2>2. \/ sweep' = "registering" /\ worker' = [worker EXCEPT ![r] = "registering"]
        \/ sweep' \in {"refused", "enqueue"}
    BY <1>5 DEF AutoEnqueue, Register
  <2>3. QED  BY <2>1, <2>2 DEF HandsInv, TypeOK
<1>6. QED  BY <1>1, <1>2, <1>3, <1>4, <1>5 DEF SweepStep

LEMMA ServerHands ==
  ASSUME TypeOK, StatusInv, HandsInv,
         \/ ReleaseApiPermit \/ Crash \/ BeginShutdown \/ StopAll \/ Exit
         \/ Restart \/ BeginSweep \/ BeginSettings \/ FinishSettings
  PROVE  HandsInv'
<1>1. CASE Crash \/ Exit
  BY <1>1 DEF Crash, Exit, Die, HandsInv
<1>2. CASE ReleaseApiPermit
  <2>1. sweep = "off"
    BY <1>2 DEF ReleaseApiPermit, StatusInv, SweepHoldsPermit
  <2>2. QED  BY <1>2, <2>1 DEF ReleaseApiPermit, HandsInv
<1>3. CASE BeginShutdown \/ StopAll
  BY <1>3 DEF BeginShutdown, StopAll, HandsInv
<1>4. CASE Restart
  BY <1>4 DEF Restart, HandsInv, StatusInv, SweepHoldsPermit
<1>5. CASE BeginSweep \/ BeginSettings \/ FinishSettings
  BY <1>5 DEF BeginSweep, BeginSettings, FinishSettings, HandsInv
<1>6. QED  BY <1>1, <1>2, <1>3, <1>4, <1>5

LEMMA HandsNext ==
  TypeOK /\ RegistryInv /\ StatusInv /\ HandsInv /\ [Next]_vars => HandsInv'
<1> SUFFICES ASSUME TypeOK, RegistryInv, StatusInv, HandsInv, [Next]_vars
             PROVE  HandsInv'
  OBVIOUS
<1>1. ASSUME NEW r \in Runs,
             \/ UserEnqueue(r) \/ ReviseOutline(r) \/ WorkerStep(r)
             \/ CancelLookup(r) \/ CancelDecide(r)
      PROVE  HandsInv'
  BY <1>1, ApiHands, WorkerHands
<1>2. CASE UNCHANGED vars
  BY <1>2 DEF vars, HandsInv
<1>3. QED  BY <1>1, <1>2, SweepHands, ServerHands DEF Next

\* Workers wait for a slot only while another one has it and goes on.
LEMMA SomeWorkerGoesOn ==
  ASSUME TypeOK, RegistryInv, SlotInv, Registered # {}
  PROVE  \E r \in Runs : WorkerReady(r)
<1>1. PICK r \in Runs : worker[r] # "idle"
  BY DEF Registered, RegistryInv, Attended
<1>2. CASE worker[r] # "waiting" \/ jobs > 0
  BY <1>1, <1>2 DEF WorkerReady
<1>3. CASE jobs <= 0
  <2>1. jobs = 0 /\ maxJobs # 0
    BY <1>3, ConstantsAssumption DEF TypeOK
  <2>2. Holders # {}
    BY <2>1, FS_EmptySet DEF SlotInv
  <2>3. QED  BY <2>2 DEF Holders, WorkerReady
<1>4. QED  BY <1>2, <1>3 DEF TypeOK

\* jobs, lifecycle, enqueue: however many runs, requests, revisions and sweeps wait for
\* job slots, registrations and the lifecycle permit, some attempt, the sweep and the
\* permit's holder can always go on: nobody waits in a circle, and no permit is held by
\* something that has gone.
THEOREM NobodyHangs == Spec => []NothingHangs
<1>1. /\ TypeOK /\ RegistryInv /\ StatusInv /\ SettingsAlone /\ SlotInv /\ HandsInv
        => NothingHangs
  BY SomeWorkerGoesOn
  DEF TypeOK, HandsInv, NothingHangs, SweepReady, PermitReady
<1>2. QED
  BY <1>1, TypeCorrect, RegistryCorrect, StatusCorrect, SlotsInit, AloneInit, SlotsNext,
     HandsInit, HandsNext, PTL DEF Spec
=============================================================================
