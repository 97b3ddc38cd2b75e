------------------------- MODULE RequestGateProofs -------------------------
(***************************************************************************)
(* Proofs about RequestGate, for any number of requests and permits, any   *)
(* limits and any bounds: permits return, a spoiled answer is never kept,  *)
(* a margin once stored is not forgotten, every request sent is paid for   *)
(* and within the limit, what was packed to the limit passes the check     *)
(* before it is sent, and requests never wait for each other in a circle.  *)
(***************************************************************************)
EXTENDS RequestGate, FiniteSetTheorems, TLAPS

EventStates == {"none", "journalled", "locked"}

\* Where a request waits for its own event.
Reporting == {"charging", "hit", "recording", "noting", "retrying", "json"}

Held == {c \in Calls : pc[c] \in Permitted}

\* A permit is taken, returned, or neither, as the request's stages require.
PermitMoves(c, stage) ==
  \/ (pc[c] \in Permitted <=> stage \in Permitted) /\ slots' = slots
  \/ pc[c] \in Permitted /\ stage \notin Permitted /\ slots' = slots + 1
  \/ pc[c] \notin Permitted /\ stage \in Permitted /\ slots' = slots - 1

PermitInv ==
  /\ pc \in [Calls -> Stages] /\ slots \in Int /\ event \in [Writers -> EventStates]
  /\ \A c \in Calls : event[c] # "none" => pc[c] \in Reporting
  /\ PermitsConserved

-----------------------------------------------------------------------------
(* Permits *)

LEMMA HeldIsFinite == IsFiniteSet(Held)
BY GateAssumption, FS_Subset DEF Held

LEMMA MoveKeepsPermits ==
  ASSUME PermitInv, NEW c \in Calls, NEW stage \in Stages, Goes(c, stage),
         PermitMoves(c, stage)
  PROVE  pc' \in [Calls -> Stages] /\ slots' \in Int /\ PermitsConserved'
<1>1. pc' \in [Calls -> Stages] /\ slots' \in Int
  BY DEF PermitInv, Goes, PermitMoves
<1>2. Cardinality(Held) \in Nat /\ slots \in Int /\ Slots \in Int
  BY HeldIsFinite, FS_CardinalityType, GateAssumption DEF PermitInv
<1>3. slots + Cardinality(Held) = Slots
  BY DEF PermitInv, PermitsConserved, Held
<1>4. \A d \in Calls : pc'[d] = IF d = c THEN stage ELSE pc[d]
  BY DEF PermitInv, Goes
<1>5. slots' + Cardinality(Held') = Slots
  <2>1. CASE (pc[c] \in Permitted <=> stage \in Permitted) /\ slots' = slots
    <3>1. Held' = Held
      BY <1>4, <2>1 DEF Held
    <3> QED BY <1>3, <2>1, <3>1
  <2>2. CASE pc[c] \in Permitted /\ stage \notin Permitted /\ slots' = slots + 1
    <3>1. c \in Held /\ Held' = Held \ {c}
      BY <1>4, <2>2 DEF Held
    <3>2. Cardinality(Held') = Cardinality(Held) - 1
      BY <3>1, HeldIsFinite, FS_RemoveElement
    <3> QED BY <1>2, <1>3, <2>2, <3>2
  <2>3. CASE pc[c] \notin Permitted /\ stage \in Permitted /\ slots' = slots - 1
    <3>1. c \notin Held /\ Held' = Held \cup {c}
      BY <1>4, <2>3 DEF Held
    <3>2. Cardinality(Held') = Cardinality(Held) + 1
      BY <3>1, HeldIsFinite, FS_AddElement
    <3> QED BY <1>2, <1>3, <2>3, <3>2
  <2> QED BY <2>1, <2>2, <2>3 DEF PermitMoves
<1> QED BY <1>1, <1>5 DEF PermitsConserved, Held

\* It has no event of its own while it moves on without one.
LEMMA QuietMove ==
  ASSUME PermitInv, NEW c \in Calls, NEW stage \in Stages, Goes(c, stage),
         pc[c] \notin Reporting, UNCHANGED event,
         PermitMoves(c, stage)
  PROVE  PermitInv'
<1>1. pc' \in [Calls -> Stages] /\ slots' \in Int /\ PermitsConserved'
  BY MoveKeepsPermits
<1>2. \A d \in Calls : event'[d] # "none" => pc'[d] \in Reporting
  BY DEF PermitInv, Goes
<1>3. event' \in [Writers -> EventStates]
  BY DEF PermitInv
<1> QED BY <1>1, <1>2, <1>3 DEF PermitInv

\* It moves to a stage that waits for the event it begins.
LEMMA ReportingMove ==
  ASSUME PermitInv, NEW c \in Calls, NEW stage \in Reporting, Goes(c, stage),
         event' = [event EXCEPT ![c] = "journalled"],
         PermitMoves(c, stage)
  PROVE  PermitInv'
<1>1. stage \in Stages
  BY DEF Reporting, Stages
<1>2. pc' \in [Calls -> Stages] /\ slots' \in Int /\ PermitsConserved'
  BY <1>1, MoveKeepsPermits
<1>3. \A d \in Calls : event'[d] # "none" => pc'[d] \in Reporting
  BY DEF PermitInv, Goes, Writers
<1>4. event' \in [Writers -> EventStates]
  BY DEF PermitInv, EventStates
<1> QED BY <1>2, <1>3, <1>4 DEF PermitInv

LEMMA DropKeepsPermits == ASSUME PermitInv, DropAttempt PROVE PermitInv'
<1>1. pc' = [c \in Calls |-> "idle"] /\ event' = [w \in Writers |-> "none"]
  BY DEF DropAttempt
<1>2. Held' = {}
  BY <1>1 DEF Held, Permitted
<1>3. Cardinality(Held') = 0
  BY <1>2, FS_EmptySet
<1>4. slots' = Slots
  BY DEF DropAttempt, PermitInv, PermitsConserved
<1>5. slots' \in Int /\ PermitsConserved'
  BY <1>3, <1>4, GateAssumption DEF PermitsConserved, Held
<1>6. /\ pc' \in [Calls -> Stages] /\ event' \in [Writers -> EventStates]
      /\ \A c \in Calls : event'[c] # "none" => pc'[c] \in Reporting
  BY <1>1 DEF Stages, EventStates, Writers
<1> QED BY <1>5, <1>6 DEF PermitInv

LEMMA SamePermits ==
  ASSUME PermitInv, pc' = pc, slots' = slots, event' \in [Writers -> EventStates],
         \A c \in Calls : event'[c] # "none" => event[c] # "none"
  PROVE  PermitInv'
BY DEF PermitInv, PermitsConserved

LEMMA ProgressKeepsPermits ==
  ASSUME PermitInv, NEW c \in Calls, Progress(c)
  PROVE  PermitInv'
<1> USE DEF Polled, Permitted, Stages, Reporting, PermitMoves
<1>0. slots \in Int
  BY DEF PermitInv
<1>1. CASE ServeCached(c)
  BY <1>0, <1>1, ReportingMove DEF ServeCached, Journal, memory
<1>2. CASE Prepare(c)
  <2>1. PICK stage \in {"slot", "oversized"} : Goes(c, stage)
    BY <1>2 DEF Prepare
  <2> QED BY <1>0, <1>2, <2>1, QuietMove DEF Prepare, memory
<1>3. CASE AcquireSlot(c)
  BY <1>0, <1>3, QuietMove DEF AcquireSlot
<1>4. CASE Admit(c)
  BY <1>0, <1>4, ReportingMove DEF Admit, Journal
<1>5. CASE Unaffordable(c)
  BY <1>0, <1>5, QuietMove DEF Unaffordable
<1>6. CASE Complete(c)
  BY <1>0, <1>6, QuietMove DEF Complete
<1>7. CASE RecordUsage(c)
  BY <1>0, <1>7, ReportingMove DEF RecordUsage, Journal
<1>8. CASE Learn(c)
  <2>1. PICK kind \in {"whole", "cut", "abnormal", "overlong"} : Goes(c, Ends(kind))
    BY <1>8 DEF Learn
  <2>2. Ends(kind) \in {"caching", "spoiled", "error", "fatal"}
    BY <2>1 DEF Ends
  <2> QED BY <1>0, <1>8, <2>1, <2>2, QuietMove DEF Learn
<1>9. CASE NoteSpoiled(c)
  BY <1>0, <1>9, ReportingMove DEF NoteSpoiled, Journal
<1>10. CASE KeepAnswer(c)
  BY <1>0, <1>10, QuietMove DEF KeepAnswer
<1>11. CASE Garbled(c)
  BY <1>0, <1>11, ReportingMove DEF Garbled, Journal
<1>12. CASE Unavailable(c)
  <2>1. CASE Exhausted(c)
    BY <1>0, <1>12, <2>1, QuietMove DEF Unavailable
  <2>2. CASE ~ Exhausted(c)
    BY <1>0, <1>12, <2>2, ReportingMove DEF Unavailable, Journal
  <2> QED BY <2>1, <2>2
<1>13. CASE Refused(c)
  BY <1>0, <1>13, QuietMove DEF Refused
<1>14. CASE JsonModeRefused(c)
  BY <1>0, <1>14, ReportingMove DEF JsonModeRefused, Journal
<1>15. CASE TooLong(c)
  BY <1>0, <1>15, QuietMove DEF TooLong
<1>16. CASE NextAttempt(c)
  BY <1>0, <1>16, QuietMove DEF NextAttempt
<1>17. CASE AskAgain(c)
  BY <1>0, <1>17, QuietMove DEF AskAgain
<1>18. CASE Collect(c)
  <2>1. pc' \in [Calls -> Stages] /\ slots' \in Int /\ PermitsConserved'
    BY <1>0, <1>18, MoveKeepsPermits DEF Collect
  <2>2. event' = [event EXCEPT ![Loop] = "journalled"]
    BY <1>18 DEF Collect, Journal
  <2>3. \A d \in Calls : event'[d] # "none" => pc'[d] \in Reporting
    BY <1>18, <2>2, GateAssumption DEF Collect, Goes, PermitInv
  <2>4. event' \in [Writers -> EventStates]
    BY <2>2 DEF PermitInv, EventStates
  <2> QED BY <2>1, <2>3, <2>4 DEF PermitInv
<1>19. CASE Fail(c)
  BY <1>19, DropKeepsPermits DEF Fail
<1> QED BY <1>1, <1>2, <1>3, <1>4, <1>5, <1>6, <1>7, <1>8, <1>9, <1>10, <1>11, <1>12,
           <1>13, <1>14, <1>15, <1>16, <1>17, <1>18, <1>19 DEF Progress

LEMMA CommitKeepsPermits ==
  ASSUME PermitInv, NEW w \in Writers, CommitEvent(w)
  PROVE  PermitInv'
<1>1. event' = [event EXCEPT ![w] = "none"] /\ slots' = slots
  BY DEF CommitEvent, memory
<1>2. event' \in [Writers -> EventStates]
  BY <1>1 DEF PermitInv, EventStates
<1>3. CASE w = Loop
  <2>1. pc' = pc
    BY <1>3 DEF CommitEvent
  <2> QED BY <1>1, <1>2, <2>1, SamePermits DEF PermitInv, Writers
<1>4. CASE w # Loop
  <2>1. w \in Calls /\ pc[w] \in Reporting /\ Goes(w, AfterEvent(w))
    BY <1>4 DEF CommitEvent, PermitInv, Writers
  <2>2. PICK stage : stage = AfterEvent(w)
    OBVIOUS
  <2>3. /\ stage \in Stages \ Reporting
        /\ stage \in Permitted <=> pc[w] \in Permitted
    BY <2>1, <2>2 DEF AfterEvent, Reporting, Permitted, Stages
  <2>4. pc' \in [Calls -> Stages] /\ slots' \in Int /\ PermitsConserved'
    BY <1>1, <2>1, <2>2, <2>3, MoveKeepsPermits DEF PermitInv, PermitMoves
  <2>5. \A d \in Calls : event'[d] # "none" => pc'[d] \in Reporting
    BY <1>1, <2>1 DEF Goes, PermitInv, Writers
  <2> QED BY <1>2, <2>4, <2>5 DEF PermitInv
<1> QED BY <1>3, <1>4

LEMMA PermitStep == PermitInv /\ [Next]_vars => PermitInv'
<1> SUFFICES ASSUME PermitInv, [Next]_vars PROVE PermitInv'
  OBVIOUS
<1>1. CASE UNCHANGED vars
  BY <1>1, SamePermits DEF vars, PermitInv
<1>2. CASE StopAttempt
  BY <1>2, DropKeepsPermits DEF StopAttempt
<1>3. CASE Resume
  BY <1>3, SamePermits DEF Resume, PermitInv
<1>4. CASE ReplayJournal \/ Expire \/ OtherRun
  BY <1>4, SamePermits DEF ReplayJournal, Expire, OtherRun, PermitInv
<1>5. ASSUME NEW c \in Calls, PushBatch(c) PROVE PermitInv'
  BY <1>5, QuietMove DEF PushBatch, Polled, memory, PermitMoves, Permitted, Stages, Reporting, PermitInv
<1>6. ASSUME NEW w \in Writers, LockRow(w) \/ EventFails(w) PROVE PermitInv'
  <2>1. PICK mark \in EventStates : event' = [event EXCEPT ![w] = mark] /\ event[w] # "none"
    BY <1>6 DEF LockRow, EventFails, EventStates
  <2>2. event' \in [Writers -> EventStates]
    BY <2>1 DEF PermitInv
  <2> QED BY <1>6, <2>1, <2>2, SamePermits DEF LockRow, EventFails, memory, PermitInv, Writers
<1>7. ASSUME NEW w \in Writers, GiveUp(w) PROVE PermitInv'
  BY <1>7, DropKeepsPermits DEF GiveUp
<1> QED BY <1>1, <1>2, <1>3, <1>4, <1>5, <1>6, <1>7, ProgressKeepsPermits, CommitKeepsPermits
        DEF Next

LEMMA InitialPermits == Init => PermitInv
<1> SUFFICES ASSUME Init PROVE PermitInv
  OBVIOUS
<1>1. Held = {}
  BY DEF Init, Held, Permitted
<1>2. Cardinality(Held) = 0
  BY <1>1, FS_EmptySet
<1>3. slots \in Int /\ PermitsConserved
  BY <1>2, GateAssumption DEF Init, PermitsConserved, Held
<1> QED BY <1>3 DEF Init, PermitInv, Stages, EventStates, Writers

\* request_slot: whatever ends a request or an attempt, llm_slots has all its
\* permits back.
THEOREM PermitsReturn == Spec => []PermitsConserved
<1>1. PermitInv => PermitsConserved
  BY DEF PermitInv
<1> QED BY <1>1, InitialPermits, PermitStep, PTL DEF Spec

-----------------------------------------------------------------------------
(* The cache *)

CacheInv ==
  /\ DOMAIN answer = Calls
  /\ \A c \in Calls : pc[c] = "caching" => answer[c].kind = "whole"
  /\ CachedIsWhole

\* Neither the cache nor a request about to store its answer is touched.
LEMMA SameCache ==
  ASSUME CacheInv, UNCHANGED <<cache, answer>>,
         \A c \in Calls : pc'[c] = "caching" => pc[c] = "caching"
  PROVE  CacheInv'
BY DEF CacheInv, CachedIsWhole

\* A request that is not about to store its answer gets another.
LEMMA NewAnswer ==
  ASSUME CacheInv, PermitInv, NEW c \in Calls, NEW stage \in Stages, NEW value,
         Goes(c, stage), answer' = [answer EXCEPT ![c] = value],
         stage = "caching" => value.kind = "whole", UNCHANGED cache
  PROVE  CacheInv'
BY DEF CacheInv, CachedIsWhole, PermitInv, Goes

LEMMA DropKeepsCache == ASSUME CacheInv, DropAttempt, UNCHANGED cache PROVE CacheInv'
BY DEF CacheInv, CachedIsWhole, DropAttempt

LEMMA ProgressKeepsCache ==
  ASSUME PermitInv, CacheInv, NEW c \in Calls, Progress(c)
  PROVE  CacheInv'
<1> USE DEF Polled, Stages
<1>1. CASE ServeCached(c)
  BY <1>1, NewAnswer DEF ServeCached
<1>2. CASE \/ AcquireSlot(c) \/ Admit(c) \/ Unaffordable(c) \/ RecordUsage(c)
           \/ NoteSpoiled(c) \/ Garbled(c) \/ Refused(c) \/ JsonModeRefused(c)
           \/ TooLong(c) \/ NextAttempt(c)
  <2>1. UNCHANGED <<cache, answer>>
    BY <1>2 DEF AcquireSlot, Admit, Unaffordable, RecordUsage, NoteSpoiled, Garbled, Refused,
                JsonModeRefused, TooLong, NextAttempt, store
  <2>2. PICK stage \in Stages : stage # "caching" /\ Goes(c, stage)
    BY <1>2 DEF AcquireSlot, Admit, Unaffordable, RecordUsage, NoteSpoiled, Garbled, Refused,
                JsonModeRefused, TooLong, NextAttempt
  <2> QED BY <2>1, <2>2, SameCache DEF Goes, PermitInv
<1>3. CASE Prepare(c) \/ Unavailable(c)
  <2>1. PICK stage \in {"slot", "oversized", "fatal", "retrying"} : Goes(c, stage)
    BY <1>3 DEF Prepare, Unavailable
  <2> QED BY <1>3, <2>1, SameCache DEF Prepare, Unavailable, Goes, PermitInv, store
<1>4. CASE Complete(c)
  <2>1. PICK tokens : answer' = [answer EXCEPT ![c] = [answer[c] EXCEPT !.prompt = tokens]]
    BY <1>4 DEF Complete, CacheInv
  <2> QED BY <1>4, <2>1, NewAnswer DEF Complete, store
<1>5. CASE Learn(c)
  <2>1. PICK kind \in {"whole", "cut", "abnormal", "overlong"} :
          answer' = [answer EXCEPT ![c] = [kind |-> kind, prompt |-> 0]] /\ Goes(c, Ends(kind))
    BY <1>5 DEF Learn
  <2>2. Ends(kind) \in {"caching", "spoiled", "error", "fatal"}
    BY DEF Ends
  <2>3. Ends(kind) = "caching" => kind = "whole"
    BY DEF Ends
  <2>4. UNCHANGED cache
    BY <1>5 DEF Learn, store
  <2>5. PICK value, stage : value = [kind |-> kind, prompt |-> 0] /\ stage = Ends(kind)
    OBVIOUS
  <2>6. stage \in Stages /\ (stage = "caching" => value.kind = "whole")
    BY <2>2, <2>3, <2>5
  <2>7. answer' = [answer EXCEPT ![c] = value] /\ Goes(c, stage)
    BY <2>1, <2>5
  <2> QED BY <2>4, <2>6, <2>7, NewAnswer
<1>6. CASE KeepAnswer(c)
  <2>1. answer[c].kind = "whole"
    BY <1>6 DEF KeepAnswer, CacheInv
  <2>2. CachedIsWhole'
    BY <1>6, <2>1 DEF KeepAnswer, CacheInv, CachedIsWhole
  <2>3. \A d \in Calls : pc'[d] = "caching" => pc[d] = "caching"
    BY <1>6 DEF KeepAnswer, Goes, PermitInv
  <2>4. answer' = answer
    BY <1>6 DEF KeepAnswer
  <2> QED BY <2>2, <2>3, <2>4 DEF CacheInv
<1>7. CASE AskAgain(c)
  <2>1. CachedIsWhole'
    BY <1>7 DEF AskAgain, CacheInv, CachedIsWhole, Restrict
  <2>2. \A d \in Calls : pc'[d] = "caching" => pc[d] = "caching"
    BY <1>7 DEF AskAgain, Goes, PermitInv
  <2>3. answer' = answer
    BY <1>7 DEF AskAgain
  <2> QED BY <2>1, <2>2, <2>3 DEF CacheInv
<1>8. CASE Collect(c)
  BY <1>8, NewAnswer DEF Collect
<1>9. CASE Fail(c)
  BY <1>9, DropKeepsCache DEF Fail, store
<1> QED BY <1>1, <1>2, <1>3, <1>4, <1>5, <1>6, <1>7, <1>8, <1>9 DEF Progress

LEMMA CacheStep == PermitInv /\ CacheInv /\ [Next]_vars => CacheInv'
<1> SUFFICES ASSUME PermitInv, CacheInv, [Next]_vars PROVE CacheInv'
  OBVIOUS
<1>1. CASE UNCHANGED vars
  BY <1>1, SameCache DEF vars, store
<1>2. CASE StopAttempt
  BY <1>2, DropKeepsCache DEF StopAttempt, store
<1>3. CASE Resume \/ ReplayJournal \/ Expire \/ OtherRun
  BY <1>3, SameCache DEF Resume, ReplayJournal, Expire, OtherRun, store
<1>4. ASSUME NEW c \in Calls, PushBatch(c) PROVE CacheInv'
  BY <1>4, SameCache DEF PushBatch, Goes, PermitInv, store
<1>5. ASSUME NEW w \in Writers, LockRow(w) \/ EventFails(w) PROVE CacheInv'
  BY <1>5, SameCache DEF LockRow, EventFails, store
<1>6. ASSUME NEW w \in Writers, GiveUp(w) PROVE CacheInv'
  BY <1>6, DropKeepsCache DEF GiveUp, store
<1>7. ASSUME NEW w \in Writers, CommitEvent(w) PROVE CacheInv'
  <2>1. CASE w = Loop
    BY <1>7, <2>1, SameCache DEF CommitEvent
  <2>2. CASE w # Loop
    <3>1. w \in Calls /\ pc[w] \in Reporting /\ Goes(w, AfterEvent(w))
      BY <1>7, <2>2 DEF CommitEvent, PermitInv, Writers
    <3>2. AfterEvent(w) # "caching"
      BY <3>1 DEF AfterEvent, Reporting
    <3> QED BY <1>7, <3>1, <3>2, SameCache DEF CommitEvent, Goes, PermitInv
  <2> QED BY <2>1, <2>2
<1> QED BY <1>1, <1>2, <1>3, <1>4, <1>5, <1>6, <1>7, ProgressKeepsCache DEF Next

\* call_with: an answer cut short, emptied or dropped is never served again.
THEOREM CacheIsWhole == Spec => []CachedIsWhole
<1>1. Init => PermitInv /\ CacheInv
  <2>1. Init => CacheInv
    BY DEF Init, CacheInv, CachedIsWhole
  <2> QED BY <2>1, InitialPermits
<1>2. CacheInv => CachedIsWhole
  BY DEF CacheInv
<1> QED BY <1>1, <1>2, PermitStep, CacheStep, PTL DEF Spec

-----------------------------------------------------------------------------
(* The margin *)

MarginInv ==
  /\ margin \in Nat /\ saved.margin \in Nat
  /\ run = "working" => saved.margin <= margin

\* What a step keeps of the margin: the stored one, and that it is no more than the
\* one an attempt works with.
MarginHolds == saved'.margin >= saved.margin /\ (run' = "working" => margin' >= saved'.margin)

LEMMA MaxOfInts ==
  ASSUME NEW a \in Int, NEW b \in Int
  PROVE  Max({a, b}) \in {a, b} /\ Max({a, b}) >= a /\ Max({a, b}) >= b
<1>1. \E x \in {a, b} : \A y \in {a, b} : x >= y
  OBVIOUS
<1> QED BY <1>1 DEF Max

\* The counter in memory grows or stays, and the stored one stays.
LEMMA MarginKept ==
  ASSUME MarginInv, saved' = saved, run' = run, margin' \in Nat, margin' >= margin
  PROVE  MarginInv' /\ MarginHolds
BY DEF MarginInv, MarginHolds

LEMMA DropKeepsMargin ==
  ASSUME MarginInv, DropAttempt, UNCHANGED <<saved, journal>>
  PROVE  MarginInv' /\ MarginHolds
BY DEF MarginInv, MarginHolds, DropAttempt

LEMMA ProgressKeepsMargin ==
  ASSUME MarginInv, NEW c \in Calls, Progress(c)
  PROVE  MarginInv' /\ MarginHolds
<1>1. margin \in Nat
  BY DEF MarginInv
<1>2. CASE \/ ServeCached(c) \/ Admit(c) \/ RecordUsage(c) \/ NoteSpoiled(c) \/ Garbled(c)
           \/ Unavailable(c) \/ JsonModeRefused(c) \/ Collect(c)
  <2>1. saved' = saved /\ run' = run /\ margin' = margin
    BY <1>2 DEF ServeCached, Admit, RecordUsage, NoteSpoiled, Garbled, Unavailable,
                JsonModeRefused, Collect, memory
  <2> QED BY <1>1, <2>1, MarginKept
<1>3. CASE \/ Prepare(c) \/ AcquireSlot(c) \/ Unaffordable(c) \/ Complete(c) \/ KeepAnswer(c)
           \/ Refused(c) \/ NextAttempt(c) \/ AskAgain(c)
  <2>1. saved' = saved /\ run' = run /\ margin' = margin
    BY <1>3 DEF Prepare, AcquireSlot, Unaffordable, Complete, KeepAnswer, Refused,
                NextAttempt, AskAgain, memory, store
  <2> QED BY <1>1, <2>1, MarginKept
<1>4. CASE Learn(c)
  <2>1. margin' \in {margin, margin + 5}
    BY <1>1, <1>4 DEF Learn
  <2> QED BY <1>1, <1>4, <2>1, MarginKept DEF Learn, store
<1>5. CASE TooLong(c)
  BY <1>1, <1>5, MarginKept DEF TooLong, store
<1>6. CASE Fail(c)
  BY <1>6, DropKeepsMargin DEF Fail, store
<1> QED BY <1>2, <1>3, <1>4, <1>5, <1>6 DEF Progress

LEMMA MarginStep ==
  MarginInv /\ [Next]_vars => MarginInv' /\ MarginHolds
<1> SUFFICES ASSUME MarginInv, [Next]_vars PROVE MarginInv' /\ MarginHolds
  OBVIOUS
<1>0. margin \in Nat /\ saved.margin \in Nat
  BY DEF MarginInv
<1>1. CASE UNCHANGED vars
  BY <1>0, <1>1, MarginKept DEF vars, memory, store
<1>2. CASE StopAttempt
  BY <1>2, DropKeepsMargin DEF StopAttempt, store
<1>3. CASE Resume
  BY <1>0, <1>3 DEF Resume, store, MarginInv, MarginHolds
<1>4. CASE ReplayJournal
  <2>1. saved'.margin = saved.margin
    BY <1>4 DEF ReplayJournal, Replayed
  <2> QED BY <1>0, <1>4, <2>1, MarginKept DEF ReplayJournal, memory, MarginInv, MarginHolds
<1>5. CASE Expire \/ OtherRun
  BY <1>0, <1>5, MarginKept DEF Expire, OtherRun, memory, store
<1>6. ASSUME NEW c \in Calls, PushBatch(c) PROVE MarginInv' /\ MarginHolds
  BY <1>0, <1>6, MarginKept DEF PushBatch, memory, store
<1>7. ASSUME NEW w \in Writers, LockRow(w) PROVE MarginInv' /\ MarginHolds
  BY <1>0, <1>7, MarginKept DEF LockRow, memory, store
<1>8. ASSUME NEW w \in Writers, CommitEvent(w) \/ EventFails(w)
      PROVE  MarginInv' /\ MarginHolds
  <2>1. /\ run = "working" /\ run' = run /\ margin' = margin
    BY <1>8 DEF CommitEvent, EventFails, memory
  <2>2. saved' = saved \/ saved'.margin = margin
    BY <1>8 DEF CommitEvent, EventFails
  <2> QED BY <1>0, <2>1, <2>2 DEF MarginInv, MarginHolds
<1>9. ASSUME NEW w \in Writers, GiveUp(w) PROVE MarginInv' /\ MarginHolds
  BY <1>9, DropKeepsMargin DEF GiveUp, store
<1> QED BY <1>1, <1>2, <1>3, <1>4, <1>5, <1>6, <1>7, <1>8, <1>9, ProgressKeepsMargin DEF Next

\* replay_one_journal, event and spawn_worker: whatever else was lost, a margin that
\* was stored is the least that is stored later and that any attempt works with.
THEOREM MarginSurvives == Spec => StoredMarginGrows
<1>1. Init => MarginInv
  BY DEF Init, MarginInv
<1>2. MarginInv /\ [Next]_vars => MarginInv'
  BY MarginStep
<1>3. MarginInv /\ [Next]_vars => [MarginHolds]_vars
  BY MarginStep
<1> QED BY <1>1, <1>2, <1>3, PTL DEF Spec, StoredMarginGrows, MarginHolds

-----------------------------------------------------------------------------
(* What a request reserves is a number *)

\* Where numbers of requests come from: what was measured when they were packed.
IsDensity(d) == d \in [samples : Nat \cup {Distrusted}, floor : Nat]

MeasureInv ==
  /\ page \in Nat /\ DOMAIN call = Calls
  /\ \A c \in Calls : /\ DOMAIN call[c] = DOMAIN NoCall
                      /\ call[c].packed \in Nat /\ call[c].input \in Nat
  /\ IsDensity(density) /\ IsDensity(saved.density)

LEMMA MinOfInts ==
  ASSUME NEW a \in Int, NEW b \in Int
  PROVE  Min({a, b}) \in {a, b} /\ Min({a, b}) <= a /\ Min({a, b}) <= b
<1>1. \E x \in {a, b} : \A y \in {a, b} : x <= y
  OBVIOUS
<1> QED BY <1>1 DEF Min

LEMMA PackedIsNat == ASSUME NEW extra \in Nat PROVE PackingLimit(extra, Uncalibrated) \in Nat
<1> DEFINE allowed == Max({ContextLimit - SafetyMargin(extra) - MaxOutput, 0})
           bytes == (allowed * Max({Uncalibrated, Uncalibrated})) \div 100
<1>0. SafetyPercent + extra \in Int /\ 90 \in Int /\ 0 \in Int
  BY GateAssumption
<1>1. Min({SafetyPercent + extra, 90}) \in Int
  <2>1. Min({SafetyPercent + extra, 90}) \in {SafetyPercent + extra, 90}
    BY <1>0, MinOfInts, Zenon
  <2> QED BY <1>0, <2>1
<1>2. SafetyMargin(extra) \in Int
  BY <1>1, GateAssumption DEF SafetyMargin, CeilDiv
<1>3. allowed \in Int
  <2>1. ContextLimit - SafetyMargin(extra) - MaxOutput \in Int
    BY <1>2, GateAssumption
  <2>2. allowed \in {ContextLimit - SafetyMargin(extra) - MaxOutput, 0}
    BY <1>0, <2>1, MaxOfInts, Zenon
  <2> QED BY <2>1, <2>2
<1>4. Max({Uncalibrated, Uncalibrated}) \in Int
  BY MaxOfInts DEF Uncalibrated
<1>5. bytes \in Int
  <2> HIDE DEF allowed
  <2> QED BY <1>3, <1>4
<1>6. (bytes * 100) \div 125 - Overhead \in Int
  <2> HIDE DEF bytes
  <2> QED BY <1>5, GateAssumption
<1>7. Max({(bytes * 100) \div 125 - Overhead, 0}) \in Nat
  <2> HIDE DEF bytes
  <2>1. /\ Max({(bytes * 100) \div 125 - Overhead, 0}) \in {(bytes * 100) \div 125 - Overhead, 0}
        /\ Max({(bytes * 100) \div 125 - Overhead, 0}) >= 0
    BY <1>0, <1>6, MaxOfInts, Zenon
  <2> QED BY <1>6, <2>1
<1> QED BY <1>7 DEF PackingLimit

LEMMA DensityIsNat == ASSUME NEW d, IsDensity(d) PROVE Density(d) \in Int
<1>1. (d.floor * 85) \div 100 \in Int
  BY DEF IsDensity
<1>2. Max({(d.floor * 85) \div 100, Uncalibrated}) \in Int
  <2>1. Uncalibrated \in Int
    BY DEF Uncalibrated
  <2>2. Max({(d.floor * 85) \div 100, Uncalibrated}) \in {(d.floor * 85) \div 100, Uncalibrated}
    BY <1>1, <2>1, MaxOfInts, Zenon
  <2> QED BY <1>1, <2>1, <2>2
<1>3. ASSUME NEW x \in Int PROVE Min({x, 300}) \in Int
  <2>1. 300 \in Int
    OBVIOUS
  <2>2. Min({x, 300}) \in {x, 300}
    BY <1>3, <2>1, MinOfInts, Zenon
  <2> QED BY <1>3, <2>1, <2>2
<1> QED BY <1>2, <1>3 DEF Density, CalibratedDensity, Uncalibrated

LEMMA EstimateIsNat ==
  ASSUME NEW bytes \in Nat, NEW dense \in Int
  PROVE  Estimate(bytes, dense) \in Nat
<1>1. Max({dense, Uncalibrated}) \in Nat /\ Max({dense, Uncalibrated}) >= 100
  BY MaxOfInts DEF Uncalibrated
<1>2. ASSUME NEW k \in Nat, k >= 100 PROVE (bytes * 100 + k - 1) \div k \in Nat
  <2>1. bytes * 100 + k - 1 \in Nat
    BY <1>2
  <2>2. ASSUME NEW n \in Nat PROVE n \div k \in Nat
    BY <1>2
  <2> QED BY <2>1, <2>2
<1> QED BY <1>1, <1>2 DEF Estimate, CeilDiv

LEMMA RecordedIsDensity ==
  ASSUME NEW d, IsDensity(d), NEW bytes, NEW tokens
  PROVE  IsDensity(RecordDensity(d, DensitySample(bytes, tokens)))
<1> DEFINE sample == DensitySample(bytes, tokens)
<1>1. sample \subseteq Nat
  BY DEF DensitySample, Uncalibrated
<1>2. sample = {} \/ \E n \in Nat : sample = {n}
  BY <1>1 DEF DensitySample
<1>3. CASE d.samples = Distrusted \/ sample = {}
  BY <1>3 DEF RecordDensity
<1>4. CASE d.samples # Distrusted /\ sample # {}
  <2>1. PICK n \in Nat : sample = {n}
    BY <1>2, <1>4
  <2> HIDE DEF sample
  <2>2. d.samples \in Nat /\ d.floor \in Nat
    BY <1>4 DEF IsDensity
  <2>3. Min({d.samples + 1, SamplesNeeded}) \in Nat
    <3>1. d.samples + 1 \in Int /\ SamplesNeeded \in Int
      BY <2>2, GateAssumption
    <3>2. Min({d.samples + 1, SamplesNeeded}) \in {d.samples + 1, SamplesNeeded}
      BY <3>1, MinOfInts, Zenon
    <3> QED BY <2>2, <3>2, GateAssumption
  <2>4. Max(sample) = n
    BY <2>1 DEF Max
  <2>5. sample \cup {d.floor} = {n, d.floor}
    BY <2>1
  <2>6. Min(sample \cup {d.floor}) \in Nat
    <3>1. n \in Int /\ d.floor \in Int
      BY <2>2
    <3>2. Min({n, d.floor}) \in {n, d.floor}
      BY <3>1, MinOfInts, Zenon
    <3> QED BY <2>2, <2>5, <3>2
  <2>7. RecordDensity(d, sample) =
          [samples |-> Min({d.samples + 1, SamplesNeeded}),
           floor   |-> IF d.floor = 0 THEN Max(sample) ELSE Min(sample \cup {d.floor})]
    BY <1>4 DEF RecordDensity
  <2>8. (IF d.floor = 0 THEN Max(sample) ELSE Min(sample \cup {d.floor})) \in Nat
    BY <2>4, <2>6
  <2>9. IsDensity([samples |-> Min({d.samples + 1, SamplesNeeded}),
           floor   |-> IF d.floor = 0 THEN Max(sample) ELSE Min(sample \cup {d.floor})])
    BY <2>3, <2>8 DEF IsDensity
  <2> QED BY <2>7, <2>9 DEF sample
<1> QED BY <1>3, <1>4

\* Nothing is measured anew.
LEMMA SameMeasures ==
  ASSUME MeasureInv, UNCHANGED <<page, call, density, saved>>
  PROVE  MeasureInv'
BY DEF MeasureInv, IsDensity

\* A request changes what it asks; its sizes stay numbers.
LEMMA NewMeasure ==
  ASSUME MeasureInv, NEW c \in Calls, NEW value, call' = [call EXCEPT ![c] = value],
         DOMAIN value = DOMAIN NoCall, value.packed \in Nat, value.input \in Nat,
         page' \in Nat, UNCHANGED <<density, saved>>
  PROVE  MeasureInv'
BY DEF MeasureInv, IsDensity

LEMMA DropKeepsMeasures == ASSUME MeasureInv, DropAttempt, UNCHANGED saved PROVE MeasureInv'
BY DEF MeasureInv, IsDensity, DropAttempt, NoCall, NoDensity

LEMMA MeasureStep == MarginInv /\ MeasureInv /\ [Next]_vars => MeasureInv'
<1> SUFFICES ASSUME MarginInv, MeasureInv, [Next]_vars PROVE MeasureInv'
  OBVIOUS
<1>0. page \in Nat /\ margin \in Nat
  BY DEF MeasureInv, MarginInv
<1>1. CASE UNCHANGED vars
  BY <1>1, SameMeasures DEF vars, memory, store
<1>2. CASE StopAttempt
  BY <1>2, DropKeepsMeasures DEF StopAttempt, store
<1>3. CASE Resume
  BY <1>3 DEF Resume, MeasureInv, IsDensity, store
<1>4. CASE ReplayJournal
  <2>1. IsDensity(saved'.density)
    BY <1>4 DEF ReplayJournal, Replayed, NoDensity, IsDensity
  <2> QED BY <1>4, <2>1 DEF ReplayJournal, MeasureInv, IsDensity, memory
<1>5. CASE Expire \/ OtherRun
  BY <1>5, SameMeasures DEF Expire, OtherRun, memory, store
<1>6. ASSUME NEW w \in Writers, LockRow(w) PROVE MeasureInv'
  BY <1>6, SameMeasures DEF LockRow, memory, store
<1>7. ASSUME NEW w \in Writers, CommitEvent(w) \/ EventFails(w) PROVE MeasureInv'
  <2>1. UNCHANGED <<page, call, density>>
    BY <1>7 DEF CommitEvent, EventFails, memory
  <2>2. saved' = saved \/ saved' = [tokens |-> reserved, margin |-> margin, density |-> density]
    BY <1>7 DEF CommitEvent, EventFails
  <2> QED BY <2>1, <2>2 DEF MeasureInv
<1>8. ASSUME NEW w \in Writers, GiveUp(w) PROVE MeasureInv'
  BY <1>8, DropKeepsMeasures DEF GiveUp, store
<1>9. ASSUME NEW c \in Calls, PushBatch(c) PROVE MeasureInv'
  <2>1. PICK p \in Prompts :
          call' = [call EXCEPT ![c] = [NoCall EXCEPT !.prompt = p, !.page = page',
                                         !.packed = PackingLimit(page', Uncalibrated)]]
    BY <1>9 DEF PushBatch
  <2>2. page' \in Nat
    BY <1>0, <1>9 DEF PushBatch
  <2>3. PackingLimit(page', Uncalibrated) \in Nat
    BY <2>2, PackedIsNat
  <2> DEFINE value == [NoCall EXCEPT !.prompt = p, !.page = page',
                                     !.packed = PackingLimit(page', Uncalibrated)]
  <2>4. DOMAIN value = DOMAIN NoCall /\ value.packed \in Nat /\ value.input \in Nat
    BY <2>3 DEF NoCall
  <2>5. UNCHANGED <<density, saved>>
    BY <1>9 DEF PushBatch, memory, store
  <2> HIDE DEF value
  <2> QED BY <2>1, <2>2, <2>4, <2>5, NewMeasure DEF value
<1>10. ASSUME NEW c \in Calls, Progress(c) PROVE MeasureInv'
  <2>1. CASE \/ ServeCached(c) \/ AcquireSlot(c) \/ Admit(c) \/ Unaffordable(c) \/ Complete(c)
             \/ RecordUsage(c) \/ NoteSpoiled(c) \/ KeepAnswer(c) \/ Garbled(c)
             \/ Unavailable(c) \/ Refused(c)
    BY <2>1, SameMeasures DEF ServeCached, AcquireSlot, Admit, Unaffordable, Complete,
         RecordUsage, NoteSpoiled, KeepAnswer, Garbled, Unavailable, Refused, memory, store
  <2>2. CASE Prepare(c)
    <3>1. Bytes(c) \in Nat
      BY GateAssumption DEF Bytes, CeilDiv, MeasureInv
    <3>2. Estimate(Bytes(c), Density(density)) \in Nat
      BY <3>1, DensityIsNat, EstimateIsNat DEF MeasureInv
    <3>3. PICK value : /\ call' = [call EXCEPT ![c] = value] /\ DOMAIN value = DOMAIN NoCall
                       /\ value.packed = call[c].packed
                       /\ value.input = Estimate(Bytes(c), Density(density))
      <4>1. call' = [call EXCEPT ![c] = [call[c] EXCEPT !.input = Estimate(Bytes(c), Density(density)),
                                                         !.json = ~jsonOff]]
        BY <2>2 DEF Prepare, MeasureInv
      <4> DEFINE value == [call[c] EXCEPT !.input = Estimate(Bytes(c), Density(density)),
                                          !.json = ~jsonOff]
      <4>2. "packed" \in DOMAIN call[c] /\ "input" \in DOMAIN call[c]
        BY DEF MeasureInv, NoCall
      <4>3. DOMAIN value = DOMAIN NoCall
        BY DEF MeasureInv
      <4>4. value.packed = call[c].packed /\ value.input = Estimate(Bytes(c), Density(density))
        BY <4>2
      <4> QED BY <4>1, <4>3, <4>4
    <3> QED BY <1>0, <2>2, <3>2, <3>3, NewMeasure DEF Prepare, MeasureInv, memory, store
  <2>3. CASE JsonModeRefused(c) \/ NextAttempt(c) \/ AskAgain(c)
    <3>1. PICK value : /\ call' = [call EXCEPT ![c] = value] /\ DOMAIN value = DOMAIN NoCall
                       /\ value.packed = call[c].packed /\ value.input = call[c].input
      <4>1. \/ call' = [call EXCEPT ![c] = [call[c] EXCEPT !.json = FALSE]]
            \/ call' = [call EXCEPT ![c] = [call[c] EXCEPT !.attempt = @ + 1]]
            \/ call' = [call EXCEPT ![c] = [call[c] EXCEPT !.attempt = 0]]
        BY <2>3 DEF JsonModeRefused, NextAttempt, AskAgain, MeasureInv
      <4>2. "packed" \in DOMAIN call[c] /\ "input" \in DOMAIN call[c]
        BY DEF MeasureInv, NoCall
      <4>3. ASSUME NEW field \in {"json", "attempt"}, NEW x,
                   call' = [call EXCEPT ![c] = [call[c] EXCEPT ![field] = x]]
            PROVE  \E value : /\ call' = [call EXCEPT ![c] = value]
                               /\ DOMAIN value = DOMAIN NoCall
                               /\ value.packed = call[c].packed /\ value.input = call[c].input
        <5> DEFINE value == [call[c] EXCEPT ![field] = x]
        <5>1. DOMAIN value = DOMAIN NoCall
          BY DEF MeasureInv
        <5>2. value.packed = call[c].packed /\ value.input = call[c].input
          BY <4>2, <4>3
        <5> QED BY <4>3, <5>1, <5>2
      <4> QED BY <4>1, <4>3
    <3> QED BY <1>0, <2>3, <3>1, NewMeasure
            DEF JsonModeRefused, NextAttempt, AskAgain, MeasureInv, memory, store
  <2>4. CASE Collect(c)
    <3>1. NoCall.packed \in Nat /\ NoCall.input \in Nat
      BY DEF NoCall
    <3> QED BY <1>0, <2>4, <3>1, NewMeasure DEF Collect, memory, store
  <2>5. CASE Learn(c)
    <3>1. IsDensity(density')
      BY <2>5, RecordedIsDensity DEF Learn, MeasureInv
    <3> QED BY <2>5, <3>1 DEF Learn, MeasureInv, store
  <2>6. CASE TooLong(c)
    <3>1. IsDensity(density')
      BY <2>6 DEF TooLong, DistrustDensity, IsDensity, MeasureInv
    <3> QED BY <2>6, <3>1 DEF TooLong, MeasureInv, store
  <2>7. CASE Fail(c)
    BY <2>7, DropKeepsMeasures DEF Fail, store
  <2> QED BY <1>10, <2>1, <2>2, <2>3, <2>4, <2>5, <2>6, <2>7 DEF Progress
<1> QED BY <1>1, <1>2, <1>3, <1>4, <1>5, <1>6, <1>7, <1>8, <1>9, <1>10 DEF Next

-----------------------------------------------------------------------------
(* What is spent *)

\* The tokens of requests that are about to be sent, one by one: their number
\* is the sum of the reservations.
Charged(c) == {c} \X (1 .. Reservation(c))
Owed == UNION {Charged(c) : c \in {d \in Calls : pc[d] = "charging"}}

\* Neither property is inductive: a reservation counts from the moment it is
\* admitted, while its event is not yet stored.
SpendInv ==
  /\ due \in Int /\ reserved \in Nat /\ saved.tokens \in Nat
  /\ journal # NoJournal => journal.tokens \in Nat
  /\ run \in {"working", "stopped"}
  /\ run = "stopped" => \A c \in Calls : pc[c] = "idle"
  /\ IsFiniteSet(Owed)
  /\ due + Cardinality(Owed) <= MaxTokens
  /\ run = "working" => due + Cardinality(Owed) <= reserved
  /\ due <= saved.tokens

LEMMA ReservationIsNat == ASSUME MeasureInv, NEW c \in Calls PROVE Reservation(c) \in Nat
BY GateAssumption DEF MeasureInv, Reservation

LEMMA ChargedCount ==
  ASSUME MeasureInv, NEW c \in Calls
  PROVE  IsFiniteSet(Charged(c)) /\ Cardinality(Charged(c)) = Reservation(c)
<1>1. Reservation(c) \in Nat
  BY ReservationIsNat
<1>2. IsFiniteSet({c}) /\ Cardinality({c}) = 1
  BY FS_Singleton
<1>3. IsFiniteSet(1 .. Reservation(c)) /\ Cardinality(1 .. Reservation(c)) = Reservation(c)
  BY <1>1, FS_Interval
<1>4. /\ IsFiniteSet({c} \X (1 .. Reservation(c)))
      /\ Cardinality({c} \X (1 .. Reservation(c))) = Cardinality({c}) * Cardinality(1 .. Reservation(c))
  BY <1>2, <1>3, FS_Product
<1> QED BY <1>1, <1>2, <1>3, <1>4 DEF Charged

\* No request is admitted or sent.
LEMMA SameOwed ==
  ASSUME \A c \in Calls : pc'[c] = "charging" <=> pc[c] = "charging",
         \A c \in Calls : pc[c] = "charging" => call'[c] = call[c]
  PROVE  Owed' = Owed
<1>1. ASSUME NEW c \in Calls, pc[c] = "charging" PROVE Charged(c)' = Charged(c)
  BY <1>1 DEF Charged, Reservation
<1> QED BY <1>1 DEF Owed

\* One request begins to be charged for; the others stay as they are.
LEMMA OneMore ==
  ASSUME NEW c \in Calls, pc[c] # "charging", pc'[c] = "charging",
         \A d \in Calls \ {c} : pc'[d] = pc[d], UNCHANGED call
  PROVE  Owed' = Owed \cup Charged(c) /\ Owed \cap Charged(c) = {}
<1>1. ASSUME NEW d \in Calls PROVE Charged(d)' = Charged(d)
  BY DEF Charged, Reservation
<1> QED BY <1>1 DEF Owed, Charged

LEMMA OneLess ==
  ASSUME NEW c \in Calls, pc[c] = "charging", pc'[c] # "charging",
         \A d \in Calls \ {c} : pc'[d] = pc[d], UNCHANGED call
  PROVE  Owed' = Owed \ Charged(c) /\ Charged(c) \subseteq Owed
<1>1. ASSUME NEW d \in Calls PROVE Charged(d)' = Charged(d)
  BY DEF Charged, Reservation
<1> QED BY <1>1 DEF Owed, Charged

\* A request moves on; what is owed, reserved and stored stays.
LEMMA SameSpending ==
  ASSUME SpendInv, PermitInv, UNCHANGED <<due, reserved, saved, run>>,
         run = "working" \/ pc' = pc, Owed' = Owed,
         journal' # NoJournal => journal' = journal \/ journal'.tokens = reserved
  PROVE  SpendInv'
BY DEF SpendInv

LEMMA QuietSpending ==
  ASSUME SpendInv, PermitInv, NEW c \in Calls, pc[c] # "charging", NEW stage, Goes(c, stage),
         stage # "charging", \A d \in Calls \ {c} : call'[d] = call[d],
         run = "working", UNCHANGED <<due, reserved, saved, run>>,
         journal' # NoJournal => journal' = journal \/ journal'.tokens = reserved
  PROVE  SpendInv'
<1>1. \A d \in Calls : pc'[d] = IF d = c THEN stage ELSE pc[d]
  BY DEF PermitInv, Goes
<1>2. Owed' = Owed
  BY <1>1, SameOwed
<1> QED BY <1>2, SameSpending

LEMMA NothingOwed ==
  ASSUME \A c \in Calls : pc[c] # "charging"
  PROVE  Owed = {} /\ IsFiniteSet(Owed) /\ Cardinality(Owed) = 0
<1>1. Owed = {}
  BY DEF Owed
<1> QED BY <1>1, FS_EmptySet

LEMMA OwedIsNat == ASSUME SpendInv PROVE Cardinality(Owed) \in Nat
BY FS_CardinalityType DEF SpendInv

LEMMA DropKeepsSpending ==
  ASSUME SpendInv, DropAttempt, UNCHANGED <<saved, journal, due>>
  PROVE  SpendInv'
<1>1. \A c \in Calls : pc'[c] = "idle"
  BY DEF DropAttempt
<1>2. IsFiniteSet(Owed') /\ Cardinality(Owed') = 0
  <2>1. Owed' = {}
    BY <1>1 DEF Owed
  <2> QED BY <2>1, FS_EmptySet
<1>3. due <= MaxTokens
  BY OwedIsNat, GateAssumption DEF SpendInv
<1> QED BY <1>1, <1>2, <1>3 DEF SpendInv, DropAttempt

LEMMA AdmitSpends ==
  ASSUME SpendInv, PermitInv, MeasureInv, NEW c \in Calls, Admit(c)
  PROVE  SpendInv'
<1>1. pc[c] # "charging" /\ run = "working" /\ UNCHANGED <<call, saved, due, run>>
  BY DEF Admit, Polled
<1>2. pc'[c] = "charging" /\ \A d \in Calls \ {c} : pc'[d] = pc[d]
  BY DEF Admit, Goes, PermitInv
<1>3. Owed' = Owed \cup Charged(c) /\ Owed \cap Charged(c) = {}
  BY <1>1, <1>2, OneMore
<1>4. IsFiniteSet(Charged(c)) /\ Cardinality(Charged(c)) = Reservation(c) /\ Reservation(c) \in Nat
  BY ChargedCount, ReservationIsNat
<1>5. IsFiniteSet(Owed') /\ Cardinality(Owed') = Cardinality(Owed) + Reservation(c)
  <2>1. /\ IsFiniteSet(Owed \cup Charged(c))
        /\ Cardinality(Owed \cup Charged(c)) =
             Cardinality(Owed) + Cardinality(Charged(c)) - Cardinality(Owed \cap Charged(c))
    BY <1>4, FS_Union DEF SpendInv
  <2>2. Cardinality(Owed \cap Charged(c)) = 0
    BY <1>3, FS_EmptySet
  <2> QED BY <1>3, <1>4, <2>1, <2>2, OwedIsNat
<1>6. reserved' = reserved + Reservation(c) /\ reserved + Reservation(c) <= MaxTokens
  BY DEF Admit, Affordable
<1>7. journal'.tokens = reserved'
  BY DEF Admit, Journal
<1> QED BY <1>1, <1>4, <1>5, <1>6, <1>7, OwedIsNat, GateAssumption DEF SpendInv

LEMMA CompleteSpends ==
  ASSUME SpendInv, PermitInv, MeasureInv, NEW c \in Calls, Complete(c)
  PROVE  SpendInv'
<1>1. /\ run = "working" /\ pc[c] = "sent" /\ Goes(c, "accounted")
      /\ UNCHANGED <<call, saved, journal, run>>
  BY DEF Complete, Polled, store
<1>2. Owed' = Owed
  BY <1>1, SameOwed DEF Goes, PermitInv
<1>3. PICK tokens \in PromptTokens(c) :
        IF tokens = 0 THEN UNCHANGED <<reserved, due>>
        ELSE /\ reserved' = Reconciled(c, tokens + MaxOutput)
             /\ due' = due - Reservation(c) + Min({tokens + MaxOutput, Reservation(c)})
  BY DEF Complete
<1>4. CASE tokens = 0
  BY <1>1, <1>2, <1>3, <1>4 DEF SpendInv
<1>5. CASE tokens # 0
  <2> DEFINE used == tokens + MaxOutput
             R == Reservation(c)
  <2>1. R \in Nat /\ used \in Nat
    <3>1. tokens \in Nat
      BY DEF PromptTokens, MeasureInv, CeilDiv
    <3> QED BY <3>1, ReservationIsNat, GateAssumption
  <2>2. reserved \in Int /\ due \in Int /\ Cardinality(Owed) \in Nat
    BY OwedIsNat DEF SpendInv
  <2> HIDE DEF used, R
  <2>3. Min({used, R}) \in {used, R} /\ Min({used, R}) <= used /\ Min({used, R}) <= R
    <3>1. used \in Int /\ R \in Int
      BY <2>1
    <3> QED BY <3>1, MinOfInts, Zenon
  <2>4. Max({reserved - R, 0}) \in Nat /\ Max({reserved - R, 0}) >= reserved - R
    <3>1. reserved - R \in Int /\ 0 \in Int
      BY <2>1, <2>2
    <3>2. /\ Max({reserved - R, 0}) \in {reserved - R, 0}
          /\ Max({reserved - R, 0}) >= reserved - R /\ Max({reserved - R, 0}) >= 0
      BY <3>1, MaxOfInts, Zenon
    <3> QED BY <3>1, <3>2
  <2>5. reserved' = Max({reserved - R, 0}) + used /\ due' = due - R + Min({used, R})
    BY <1>3, <1>5 DEF Reconciled, used, R
  <2>6. /\ reserved' \in Nat /\ due' \in Int /\ due' <= due
        /\ due + Cardinality(Owed) <= reserved => due' + Cardinality(Owed) <= reserved'
    BY <2>1, <2>2, <2>3, <2>4, <2>5
  <2> QED BY <1>1, <1>2, <2>2, <2>6, GateAssumption DEF SpendInv
<1> QED BY <1>4, <1>5

LEMMA CommitSpends ==
  ASSUME SpendInv, PermitInv, MeasureInv, NEW w \in Writers, CommitEvent(w)
  PROVE  SpendInv'
<1>1. /\ run = "working" /\ saved'.tokens = reserved /\ journal' = NoJournal
      /\ UNCHANGED <<call, reserved, run>>
  BY DEF CommitEvent, memory
<1>2. CASE w = Loop
  <2>1. UNCHANGED <<pc, due>>
    BY <1>2 DEF CommitEvent
  <2>2. Owed' = Owed
    BY <1>1, <2>1, SameOwed
  <2> QED BY <1>1, <2>1, <2>2, OwedIsNat DEF SpendInv
<1>3. CASE w # Loop
  <2>1. w \in Calls /\ pc[w] \in Reporting /\ Goes(w, AfterEvent(w))
    BY <1>3 DEF CommitEvent, PermitInv, Writers
  <2>2. due' = due + (IF pc[w] = "charging" THEN Reservation(w) ELSE 0)
    BY <1>3 DEF CommitEvent
  <2>3. AfterEvent(w) # "charging"
    BY <2>1 DEF AfterEvent, Reporting
  <2>4. pc'[w] # "charging" /\ \A d \in Calls \ {w} : pc'[d] = pc[d]
    BY <2>1, <2>3 DEF Goes, PermitInv
  <2>5. CASE pc[w] = "charging"
    <3>1. Owed' = Owed \ Charged(w) /\ Charged(w) \subseteq Owed
      BY <1>1, <2>1, <2>4, <2>5, OneLess
    <3>2. Reservation(w) \in Nat /\ Cardinality(Charged(w)) = Reservation(w)
      BY <2>1, ChargedCount, ReservationIsNat
    <3>3. IsFiniteSet(Owed') /\ Cardinality(Owed') = Cardinality(Owed) - Reservation(w)
      <4>1. Owed \cap Charged(w) = Charged(w)
        BY <3>1
      <4>2. /\ IsFiniteSet(Owed \ Charged(w))
            /\ Cardinality(Owed \ Charged(w)) = Cardinality(Owed) - Cardinality(Owed \cap Charged(w))
        BY FS_Difference DEF SpendInv
      <4> QED BY <3>1, <3>2, <4>1, <4>2
    <3>4. Cardinality(Owed') \in Nat
      BY <3>3, FS_CardinalityType
    <3>5. due' + Cardinality(Owed') = due + Cardinality(Owed)
      BY <2>2, <2>5, <3>2, <3>3, OwedIsNat DEF SpendInv
    <3> QED BY <1>1, <2>2, <2>5, <3>2, <3>3, <3>4, <3>5, OwedIsNat DEF SpendInv
  <2>6. CASE pc[w] # "charging"
    <3>1. Owed' = Owed
      BY <1>1, <2>4, <2>6, SameOwed
    <3> QED BY <1>1, <2>2, <2>6, <3>1, OwedIsNat DEF SpendInv
  <2> QED BY <2>5, <2>6
<1> QED BY <1>2, <1>3

LEMMA ProgressSpends ==
  ASSUME SpendInv, PermitInv, MeasureInv, NEW c \in Calls, Progress(c)
  PROVE  SpendInv'
<1> USE DEF Polled
<1>1. CASE Admit(c)
  BY <1>1, AdmitSpends
<1>2. CASE Complete(c)
  BY <1>2, CompleteSpends
<1>3. CASE Fail(c)
  BY <1>3, DropKeepsSpending DEF Fail, store
<1>4. CASE \/ ServeCached(c) \/ RecordUsage(c) \/ NoteSpoiled(c) \/ Garbled(c)
           \/ JsonModeRefused(c) \/ Collect(c)
  <2>1. PICK stage : stage # "charging" /\ Goes(c, stage)
    BY <1>4 DEF ServeCached, RecordUsage, NoteSpoiled, Garbled, JsonModeRefused, Collect
  <2>2. /\ pc[c] # "charging" /\ run = "working" /\ UNCHANGED <<due, reserved, saved, run>>
        /\ journal'.tokens = reserved
    BY <1>4 DEF ServeCached, RecordUsage, NoteSpoiled, Garbled, JsonModeRefused, Collect,
                Journal, memory
  <2>3. \A d \in Calls \ {c} : call'[d] = call[d]
    BY <1>4 DEF ServeCached, RecordUsage, NoteSpoiled, Garbled, JsonModeRefused, Collect, MeasureInv
  <2> QED BY <2>1, <2>2, <2>3, QuietSpending
<1>5. CASE \/ Prepare(c) \/ AcquireSlot(c) \/ Unaffordable(c) \/ KeepAnswer(c) \/ Refused(c)
           \/ TooLong(c) \/ NextAttempt(c) \/ AskAgain(c)
  <2>1. PICK stage : stage # "charging" /\ Goes(c, stage)
    BY <1>5 DEF Prepare, AcquireSlot, Unaffordable, KeepAnswer, Refused, TooLong, NextAttempt,
                AskAgain
  <2>2. /\ pc[c] # "charging" /\ run = "working" /\ UNCHANGED <<due, reserved, saved, run, journal>>
    BY <1>5 DEF Prepare, AcquireSlot, Unaffordable, KeepAnswer, Refused, TooLong, NextAttempt,
                AskAgain, memory, store
  <2>3. \A d \in Calls \ {c} : call'[d] = call[d]
    BY <1>5 DEF Prepare, AcquireSlot, Unaffordable, KeepAnswer, Refused, TooLong, NextAttempt,
                AskAgain, MeasureInv
  <2> QED BY <2>1, <2>2, <2>3, QuietSpending
<1>6. CASE Unavailable(c)
  <2>1. PICK stage \in {"fatal", "retrying"} : Goes(c, stage)
    BY <1>6 DEF Unavailable
  <2>2. /\ pc[c] # "charging" /\ run = "working" /\ UNCHANGED <<due, reserved, saved, run, call>>
        /\ journal' = journal \/ journal'.tokens = reserved
    BY <1>6 DEF Unavailable, Journal, memory
  <2> QED BY <2>1, <2>2, QuietSpending
<1>7. CASE Learn(c)
  <2>1. PICK kind \in {"whole", "cut", "abnormal", "overlong"} : Goes(c, Ends(kind))
    BY <1>7 DEF Learn
  <2>2. Ends(kind) # "charging"
    BY DEF Ends
  <2>3. /\ pc[c] # "charging" /\ run = "working" /\ UNCHANGED <<due, reserved, saved, run, call, journal>>
    BY <1>7 DEF Learn, store
  <2> QED BY <2>1, <2>2, <2>3, QuietSpending
<1> QED BY <1>1, <1>2, <1>3, <1>4, <1>5, <1>6, <1>7 DEF Progress

LEMMA SpendStep == PermitInv /\ MeasureInv /\ SpendInv /\ [Next]_vars => SpendInv'
<1> SUFFICES ASSUME PermitInv, MeasureInv, SpendInv, [Next]_vars PROVE SpendInv'
  OBVIOUS
<1>1. CASE UNCHANGED vars
  BY <1>1, SameOwed, SameSpending DEF vars, memory, store
<1>2. CASE StopAttempt
  BY <1>2, DropKeepsSpending DEF StopAttempt, store
<1>3. CASE Resume
  <2>1. Owed' = Owed /\ \A c \in Calls : pc[c] # "charging"
    BY <1>3, SameOwed DEF Resume, SpendInv
  <2> QED BY <1>3, <2>1, NothingOwed DEF Resume, store, SpendInv
<1>4. CASE ReplayJournal
  <2>1. Owed' = Owed
    BY <1>4, SameOwed DEF ReplayJournal
  <2>2. saved.tokens \in Int /\ journal.tokens \in Int
    BY <1>4 DEF ReplayJournal, SpendInv
  <2>3. /\ Max({saved.tokens, journal.tokens}) \in {saved.tokens, journal.tokens}
        /\ Max({saved.tokens, journal.tokens}) >= saved.tokens
    BY <2>2, MaxOfInts, Zenon
  <2>4. saved'.tokens = Max({saved.tokens, journal.tokens})
    BY <1>4 DEF ReplayJournal, Replayed
  <2> QED BY <1>4, <2>1, <2>3, <2>4 DEF ReplayJournal, memory, SpendInv
<1>5. CASE Expire \/ OtherRun
  BY <1>5, SameOwed, SameSpending DEF Expire, OtherRun, memory, store
<1>6. ASSUME NEW c \in Calls, PushBatch(c) PROVE SpendInv'
  <2>1. /\ pc[c] # "charging" /\ run = "working" /\ Goes(c, "packed")
        /\ UNCHANGED <<due, reserved, saved, run, journal>>
    BY <1>6 DEF PushBatch, Polled, memory, store
  <2>2. \A d \in Calls \ {c} : call'[d] = call[d]
    BY <1>6 DEF PushBatch, MeasureInv
  <2> QED BY <2>1, <2>2, QuietSpending
<1>7. ASSUME NEW w \in Writers, LockRow(w) PROVE SpendInv'
  BY <1>7, SameOwed, SameSpending DEF LockRow, memory, store
<1>8. ASSUME NEW w \in Writers, EventFails(w) PROVE SpendInv'
  <2>1. Owed' = Owed
    BY <1>8, SameOwed DEF EventFails
  <2>2. /\ run = "working" /\ UNCHANGED <<due, reserved, run, pc, journal>>
        /\ saved' = saved \/ saved'.tokens = reserved
    BY <1>8 DEF EventFails, memory
  <2> QED BY <2>1, <2>2, OwedIsNat DEF SpendInv
<1>9. ASSUME NEW w \in Writers, CommitEvent(w) PROVE SpendInv'
  BY <1>9, CommitSpends
<1>10. ASSUME NEW w \in Writers, GiveUp(w) PROVE SpendInv'
  BY <1>10, DropKeepsSpending DEF GiveUp, store
<1> QED BY <1>1, <1>2, <1>3, <1>4, <1>5, <1>6, <1>7, <1>8, <1>9, <1>10, ProgressSpends DEF Next

LEMMA SpendingHolds == Spec => [](SpendInv)
<1>1. Init => PermitInv /\ MarginInv /\ MeasureInv /\ SpendInv
  <2> SUFFICES ASSUME Init PROVE MarginInv /\ MeasureInv /\ SpendInv
    BY InitialPermits
  <2>1. MarginInv /\ MeasureInv
    BY DEF Init, MarginInv, MeasureInv, IsDensity, NoCall, NoDensity
  <2>2. \A c \in Calls : pc[c] # "charging"
    BY DEF Init
  <2> QED BY <2>1, <2>2, NothingOwed, GateAssumption DEF Init, SpendInv
<1>2. MarginInv /\ [Next]_vars => MarginInv'
  BY MarginStep
<1> QED BY <1>1, <1>2, PermitStep, MeasureStep, SpendStep, PTL DEF Spec

\* event and reserve: however often the process stops, the journal is lost or
\* a statement fails, a request is sent only when its reservation is stored, so
\* the stored budget covers whatever the provider may bill.
THEOREM ChargedBeforeSent == Spec => []SpendingIsCharged
<1>1. SpendInv => SpendingIsCharged
  BY DEF SpendInv, SpendingIsCharged
<1> QED BY <1>1, SpendingHolds, PTL

\* reserve: over all attempts of a run together the provider is never asked for
\* more than task.max_tokens, although a reported usage may exceed what was
\* reserved.
THEOREM NeverOverspent == Spec => []SpendingIsBounded
<1>1. SpendInv => SpendingIsBounded
  BY OwedIsNat, GateAssumption DEF SpendInv, SpendingIsBounded
<1> QED BY <1>1, SpendingHolds, PTL

-----------------------------------------------------------------------------
(* What was packed passes *)

\* An open request was packed to the limit of the margin it remembers.
PackInv ==
  \A c \in Calls : pc[c] # "idle" =>
    call[c].page \in Nat /\ call[c].packed = PackingLimit(call[c].page, Uncalibrated)

LEMMA MoreIsMore ==
  ASSUME NEW n \in Nat, NEW a \in Int, NEW b \in Int, a <= b
  PROVE  CeilDiv(n * a, 100) <= CeilDiv(n * b, 100)
<1>1. n * a <= n * b /\ n * a \in Int /\ n * b \in Int
  <2>1. n * (b - a) >= 0
    OBVIOUS
  <2> QED BY <2>1
<1>2. ASSUME NEW x \in Int, NEW y \in Int, x <= y
      PROVE  (x + 100 - 1) \div 100 <= (y + 100 - 1) \div 100
  BY <1>2
<1> QED BY <1>1, <1>2 DEF CeilDiv

\* A smaller margin leaves at least as much of the context.
LEMMA MarginGrowsAlong ==
  ASSUME NEW a \in Nat, NEW b \in Nat, a <= b
  PROVE  /\ SafetyMargin(a) \in Int /\ SafetyMargin(b) \in Int
         /\ SafetyMargin(a) <= SafetyMargin(b)
<1>0. SafetyPercent + a \in Int /\ SafetyPercent + b \in Int /\ 90 \in Int
  BY GateAssumption
<1> DEFINE m(x) == Min({SafetyPercent + x, 90})
<1>1. /\ m(a) \in {SafetyPercent + a, 90} /\ m(a) <= SafetyPercent + a /\ m(a) <= 90
      /\ m(b) \in {SafetyPercent + b, 90}
  BY <1>0, MinOfInts, Zenon
<1>2. m(a) \in Int /\ m(b) \in Int /\ m(a) <= m(b)
  <2> HIDE DEF m
  <2> QED BY <1>0, <1>1, GateAssumption
<1>3. SafetyMargin(a) = CeilDiv(ContextLimit * m(a), 100)
      /\ SafetyMargin(b) = CeilDiv(ContextLimit * m(b), 100)
  BY DEF SafetyMargin
<1>4. CeilDiv(ContextLimit * m(a), 100) \in Int /\ CeilDiv(ContextLimit * m(b), 100) \in Int
  <2> HIDE DEF m
  <2> QED BY <1>2, GateAssumption DEF CeilDiv
<1> HIDE DEF m
<1>5. CeilDiv(ContextLimit * m(a), 100) <= CeilDiv(ContextLimit * m(b), 100)
  BY <1>2, GateAssumption, MoreIsMore
<1> QED BY <1>3, <1>4, <1>5

LEMMA QuotientBelow ==
  ASSUME NEW n \in Int, NEW k \in Int, k > 0, NEW q \in Int, q * k > n
  PROVE  n \div k < q
OBVIOUS

\* No density makes more tokens than bytes.
LEMMA EstimateWithinBytes ==
  ASSUME NEW bytes \in Nat, NEW dense \in Int
  PROVE  Estimate(bytes, dense) <= bytes
<1>1. Max({dense, Uncalibrated}) \in Nat /\ Max({dense, Uncalibrated}) >= 100
  BY MaxOfInts DEF Uncalibrated
<1>2. ASSUME NEW k \in Nat, k >= 100 PROVE (bytes * 100 + k - 1) \div k <= bytes
  <2>1. bytes * 100 + k - 1 <= bytes * k + k - 1
    <3>1. bytes * (k - 100) >= 0
      BY <1>2
    <3> QED BY <1>2, <3>1
  <2>2. ASSUME NEW n \in Nat, n <= bytes * k + k - 1 PROVE n \div k <= bytes
    <3>1. n \in Int /\ k \in Int /\ k > 0 /\ bytes + 1 \in Int /\ bytes * k \in Int
      BY <1>2
    <3>2. (bytes + 1) * k > n
      BY <2>2, <3>1
    <3>3. n \div k < bytes + 1
      BY <3>1, <3>2, QuotientBelow
    <3>4. n \div k \in Int
      BY <3>1
    <3> QED BY <3>3, <3>4
  <2>3. bytes * 100 + k - 1 \in Nat
    BY <1>2
  <2> QED BY <2>1, <2>2, <2>3
<1> QED BY <1>1, <1>2 DEF Estimate, CeilDiv

\* What is packed, with all that rides along and its escaping, fits in what the
\* margin leaves of the context.
LEMMA PackedFits ==
  ASSUME NEW extra \in Nat, PackingLimit(extra, Uncalibrated) # 0
  PROVE  CeilDiv((PackingLimit(extra, Uncalibrated) + Overhead) * 125, 100)
           + MaxOutput + SafetyMargin(extra) <= ContextLimit
<1> DEFINE left    == ContextLimit - SafetyMargin(extra) - MaxOutput
           allowed == Max({left, 0})
           room    == (((allowed * 100) \div 100) * 100) \div 125
<1>1. SafetyMargin(extra) \in Int /\ left \in Int
  BY MarginGrowsAlong, GateAssumption
<1>2. allowed \in {left, 0} /\ allowed >= 0
  <2> HIDE DEF left
  <2>1. 0 \in Int
    OBVIOUS
  <2> QED BY <1>1, <2>1, MaxOfInts, Zenon
<1>3. PackingLimit(extra, Uncalibrated) = Max({room - Overhead, 0})
  <2>1. Max({Uncalibrated, Uncalibrated}) = 100
    <3>1. 100 \in Int
      OBVIOUS
    <3> QED BY <3>1, MaxOfInts, Zenon DEF Uncalibrated
  <2> QED BY <2>1 DEF PackingLimit
<1>4. allowed \in Nat
  <2> HIDE DEF left, allowed
  <2> QED BY <1>1, <1>2
<1>5. room \in Nat
  <2> HIDE DEF allowed
  <2> QED BY <1>4
<1>6. PackingLimit(extra, Uncalibrated) = room - Overhead /\ room > Overhead
  <2> HIDE DEF room
  <2>1. room - Overhead \in Int /\ 0 \in Int
    BY <1>5, GateAssumption
  <2>2. /\ Max({room - Overhead, 0}) \in {room - Overhead, 0}
        /\ Max({room - Overhead, 0}) >= 0
    BY <2>1, MaxOfInts, Zenon
  <2> QED BY <1>3, <1>5, <2>1, <2>2, GateAssumption
<1>7. CeilDiv(room * 125, 100) <= allowed
  <2> HIDE DEF allowed
  <2> QED BY <1>4 DEF CeilDiv
<1>8. allowed = left
  <2>1. allowed # 0
    <3> HIDE DEF allowed
    <3> QED BY <1>4, <1>6, GateAssumption
  <2> QED BY <1>2, <2>1
<1>9. (PackingLimit(extra, Uncalibrated) + Overhead) * 125 = room * 125
  <2> HIDE DEF room
  <2> QED BY <1>5, <1>6, GateAssumption
<1>10. CeilDiv(room * 125, 100) \in Int
  <2> HIDE DEF room
  <2> QED BY <1>5 DEF CeilDiv
<1> HIDE DEF room, allowed
<1> QED BY <1>1, <1>7, <1>8, <1>9, <1>10, GateAssumption

\* A request keeps its size while it is open.
LEMMA SizeKept ==
  ASSUME PackInv,
         \A c \in Calls : pc'[c] # "idle" =>
           pc[c] # "idle" /\ call'[c].packed = call[c].packed /\ call'[c].page = call[c].page
  PROVE  PackInv'
<1>1. ASSUME NEW c \in Calls, pc'[c] # "idle"
      PROVE  call'[c].page \in Nat /\ call'[c].packed = PackingLimit(call'[c].page, Uncalibrated)
  BY <1>1 DEF PackInv
<1> QED BY <1>1 DEF PackInv, PackingLimit, SafetyMargin, CeilDiv

LEMMA PackStep ==
  PermitInv /\ MarginInv /\ MeasureInv /\ PackInv /\ [Next]_vars => PackInv'
<1> SUFFICES ASSUME PermitInv, MarginInv, MeasureInv, PackInv, [Next]_vars PROVE PackInv'
  OBVIOUS
<1>0. pc \in [Calls -> Stages] /\ page \in Nat /\ margin \in Nat /\ DOMAIN call = Calls
      /\ \A c \in Calls : DOMAIN call[c] = DOMAIN NoCall
  BY DEF PermitInv, MeasureInv, MarginInv
<1>1. CASE UNCHANGED vars
  BY <1>1, SizeKept DEF vars
<1>2. ASSUME DropAttempt PROVE PackInv'
  <2>1. \A c \in Calls : pc'[c] = "idle"
    BY <1>2 DEF DropAttempt
  <2> QED BY <2>1, SizeKept
<1>3. CASE Resume \/ ReplayJournal \/ Expire \/ OtherRun
  BY <1>3, SizeKept DEF Resume, ReplayJournal, Expire, OtherRun
<1>4. ASSUME NEW w \in Writers, LockRow(w) \/ EventFails(w) PROVE PackInv'
  BY <1>4, SizeKept DEF LockRow, EventFails
<1>5. ASSUME NEW w \in Writers, CommitEvent(w), PermitInv' PROVE PackInv'
  <2>1. call' = call
    BY <1>5 DEF CommitEvent
  <2>2. \A c \in Calls : pc[c] # "idle" \/ pc'[c] = pc[c]
    <3>1. CASE w = Loop
      BY <1>5, <3>1 DEF CommitEvent
    <3>2. CASE w \in Calls
      <4>1. pc[w] \in Reporting /\ \E stage : Goes(w, stage)
        <5>1. event[w] # "none"
          BY <1>5 DEF CommitEvent
        <5>2. w # Loop
          BY <3>2, GateAssumption
        <5> QED BY <1>5, <3>2, <5>1, <5>2 DEF CommitEvent, PermitInv
      <4> QED BY <1>0, <4>1 DEF Goes, Reporting
    <3> QED BY <3>1, <3>2 DEF Writers
  <2> QED BY <2>1, <2>2, SizeKept
<1>6. ASSUME NEW c \in Calls, PushBatch(c) PROVE PackInv'
  <2>1. page' \in Nat /\ pc' = [pc EXCEPT ![c] = "packed"]
    BY <1>0, <1>6 DEF PushBatch, Goes
  <2>2. PICK p \in Prompts :
          call' = [call EXCEPT ![c] = [NoCall EXCEPT !.prompt = p, !.page = page',
                                         !.packed = PackingLimit(page', Uncalibrated)]]
    BY <1>6 DEF PushBatch
  <2> DEFINE value == [NoCall EXCEPT !.prompt = p, !.page = page',
                                     !.packed = PackingLimit(page', Uncalibrated)]
  <2>3. value.page = page' /\ value.packed = PackingLimit(page', Uncalibrated)
    BY DEF NoCall
  <2> HIDE DEF value
  <2>4. \A d \in Calls : call'[d] = IF d = c THEN value ELSE call[d]
    BY <1>0, <2>2 DEF value
  <2>5. ASSUME NEW d \in Calls, pc'[d] # "idle"
        PROVE  call'[d].page \in Nat /\ call'[d].packed = PackingLimit(call'[d].page, Uncalibrated)
    <3>1. CASE d = c
      BY <2>1, <2>3, <2>4, <3>1
    <3>2. CASE d # c
      <4>1. pc[d] # "idle" /\ call'[d] = call[d]
        BY <1>0, <2>1, <2>4, <2>5, <3>2
      <4> QED BY <4>1 DEF PackInv
    <3> QED BY <3>1, <3>2
  <2> QED BY <2>5 DEF PackInv, PackingLimit, SafetyMargin, CeilDiv
<1>7. ASSUME NEW c \in Calls, Progress(c), ~DropAttempt PROVE PackInv'
  <2>1. pc[c] # "idle" /\ \E stage : Goes(c, stage)
    BY <1>7 DEF Progress, ServeCached, Prepare, AcquireSlot, Admit, Unaffordable, Complete,
         RecordUsage, Learn, NoteSpoiled, KeepAnswer, Garbled, Unavailable, Refused,
         JsonModeRefused, TooLong, NextAttempt, AskAgain, Collect, Fail, Polled
  <2>2. \A d \in Calls : pc'[d] # "idle" => pc[d] # "idle"
    BY <1>0, <2>1 DEF Goes
  <2>3. CASE call' = call
    BY <2>2, <2>3, SizeKept
  <2>4. CASE Collect(c)
    <3>1. \A d \in Calls : pc'[d] # "idle" => call'[d] = call[d]
      BY <1>0, <2>4 DEF Collect, Goes
    <3> QED BY <2>2, <3>1, SizeKept
  <2>5. CASE Prepare(c) \/ JsonModeRefused(c) \/ NextAttempt(c) \/ AskAgain(c)
    <3>1. "packed" \in DOMAIN call[c] /\ "page" \in DOMAIN call[c]
      BY <1>0 DEF NoCall
    <3>2. CASE Prepare(c)
      <4>1. call'[c].packed = call[c].packed /\ call'[c].page = call[c].page
        BY <1>0, <3>1, <3>2 DEF Prepare
      <4>2. \A d \in Calls \ {c} : call'[d] = call[d]
        BY <1>0, <3>2 DEF Prepare
      <4> QED BY <2>2, <4>1, <4>2, SizeKept
    <3>3. CASE JsonModeRefused(c) \/ NextAttempt(c) \/ AskAgain(c)
      <4>1. call'[c].packed = call[c].packed /\ call'[c].page = call[c].page
        BY <1>0, <3>1, <3>3 DEF JsonModeRefused, NextAttempt, AskAgain
      <4>2. \A d \in Calls \ {c} : call'[d] = call[d]
        BY <1>0, <3>3 DEF JsonModeRefused, NextAttempt, AskAgain
      <4> QED BY <2>2, <4>1, <4>2, SizeKept
    <3> QED BY <2>5, <3>2, <3>3
  <2>6. call' = call \/ Collect(c)
        \/ Prepare(c) \/ JsonModeRefused(c) \/ NextAttempt(c) \/ AskAgain(c)
    BY <1>7 DEF Progress, ServeCached, AcquireSlot, Admit, Unaffordable, Complete,
         RecordUsage, Learn, NoteSpoiled, KeepAnswer, Garbled, Unavailable, Refused,
         TooLong, Fail
  <2> QED BY <2>3, <2>4, <2>5, <2>6
<1>8. PermitInv'
  BY PermitStep
<1> QED BY <1>1, <1>2, <1>3, <1>4, <1>5, <1>6, <1>7, <1>8 DEF Next, StopAttempt, GiveUp

LEMMA OnlyPrepareFindsOversized ==
  ASSUME PermitInv, [Next]_vars, NEW c \in Calls, pc[c] = "packed", pc'[c] = "oversized"
  PROVE  Prepare(c)
<1>0. pc \in [Calls -> Stages]
  BY DEF PermitInv
<1>1. ~UNCHANGED vars /\ ~DropAttempt
  BY DEF vars, DropAttempt
<1>2. ~Resume /\ ~ReplayJournal /\ ~Expire /\ ~OtherRun
  BY DEF Resume, ReplayJournal, Expire, OtherRun
<1>3. ASSUME NEW w \in Writers PROVE ~LockRow(w) /\ ~EventFails(w) /\ ~CommitEvent(w)
  <2>1. ~LockRow(w) /\ ~EventFails(w)
    BY DEF LockRow, EventFails
  <2>2. ASSUME CommitEvent(w) PROVE FALSE
    <3>1. event[c] = "none"
      BY DEF PermitInv, Reporting
    <3>2. w # c
      BY <2>2, <3>1 DEF CommitEvent
    <3>3. pc'[c] = pc[c]
      BY <1>0, <2>2, <3>2 DEF CommitEvent, Goes
    <3> QED BY <3>3
  <2> QED BY <2>1, <2>2
<1>4. ASSUME NEW d \in Calls, PushBatch(d) PROVE FALSE
  BY <1>0, <1>4 DEF PushBatch, Goes
<1>5. ASSUME NEW d \in Calls, Progress(d) PROVE d = c /\ Prepare(c)
  <2>1. d = c
    <3>1. \E stage : Goes(d, stage)
      BY <1>1, <1>5 DEF Progress, ServeCached, Prepare, AcquireSlot, Admit, Unaffordable,
           Complete, RecordUsage, Learn, NoteSpoiled, KeepAnswer, Garbled, Unavailable,
           Refused, JsonModeRefused, TooLong, NextAttempt, AskAgain, Collect, Fail
    <3> QED BY <1>0, <3>1 DEF Goes
  <2>2. ServeCached(c) \/ Prepare(c)
    BY <1>1, <1>5, <2>1 DEF Progress, AcquireSlot, Admit, Unaffordable,
         Complete, RecordUsage, Learn, NoteSpoiled, KeepAnswer, Garbled, Unavailable,
         Refused, JsonModeRefused, TooLong, NextAttempt, AskAgain, Collect, Fail, Polled
  <2> QED BY <1>0, <2>1, <2>2 DEF ServeCached, Goes
<1> QED BY <1>1, <1>2, <1>3, <1>4, <1>5 DEF Next, StopAttempt, GiveUp

LEMMA PackedStepPasses ==
  ASSUME PermitInv, MarginInv, MeasureInv, PackInv, [Next]_vars,
         NEW c \in Calls, pc[c] = "packed", pc'[c] = "oversized"
  PROVE  margin > call[c].page \/ call[c].packed = 0 \/ Reservation(c)' > Tpm
<1> SUFFICES ASSUME ~(margin > call[c].page), call[c].packed # 0
             PROVE  Reservation(c)' > Tpm
  OBVIOUS
<1> DEFINE input == Estimate(Bytes(c), Density(density))
<1>1. Prepare(c)
  BY OnlyPrepareFindsOversized
<1>2. call[c].page \in Nat /\ margin \in Nat /\ margin <= call[c].page
      /\ call[c].packed = PackingLimit(call[c].page, Uncalibrated)
  BY DEF PackInv, MarginInv
<1>3. Bytes(c) + MaxOutput + SafetyMargin(call[c].page) <= ContextLimit
  BY <1>2, PackedFits DEF Bytes
<1>4. Bytes(c) \in Nat
  BY GateAssumption DEF Bytes, CeilDiv, MeasureInv
<1>5. input \in Nat /\ input <= Bytes(c)
  BY <1>4, DensityIsNat, EstimateIsNat, EstimateWithinBytes DEF MeasureInv
<1>6. /\ SafetyMargin(margin) \in Int /\ SafetyMargin(call[c].page) \in Int
      /\ SafetyMargin(margin) <= SafetyMargin(call[c].page)
  BY <1>2, MarginGrowsAlong
<1>7. Passes(input, margin)
  <2> HIDE DEF input
  <2> QED BY <1>3, <1>4, <1>5, <1>6, GateAssumption DEF Passes
<1>8. ~(Passes(input, margin) /\ input + MaxOutput <= Tpm)
  BY <1>1 DEF Prepare, Goes, PermitInv
<1>9. call'[c].input = input
  BY <1>1 DEF Prepare, MeasureInv, NoCall
<1> HIDE DEF input
<1>10. input + MaxOutput > Tpm
  BY <1>5, <1>7, <1>8, GateAssumption
<1> QED BY <1>9, <1>10 DEF Reservation

\* packing_limit and check: a request cut to the limit is rejected unsent only if
\* the margin grew since, or the settings leave no room or too few tokens a minute.
THEOREM PackedRequestsPass == Spec => PackedPasses
<1>1. Init => PermitInv /\ MarginInv /\ MeasureInv /\ PackInv
  <2>1. Init => MarginInv /\ PackInv
    BY DEF Init, MarginInv, PackInv
  <2>2. Init => MeasureInv
    BY DEF Init, MeasureInv, IsDensity, NoDensity, NoCall
  <2> QED BY <2>1, <2>2, InitialPermits
<1>2. PermitInv /\ MarginInv /\ MeasureInv /\ PackInv /\ [Next]_vars
        => PermitInv' /\ MarginInv' /\ MeasureInv' /\ PackInv'
  BY PermitStep, MarginStep, MeasureStep, PackStep
<1>3. PermitInv /\ MarginInv /\ MeasureInv /\ PackInv /\ [Next]_vars =>
        [\A c \in Calls : pc[c] = "packed" /\ pc'[c] = "oversized" =>
           margin > call[c].page \/ call[c].packed = 0 \/ Reservation(c)' > Tpm]_vars
  BY PackedStepPasses
<1> QED BY <1>1, <1>2, <1>3, PTL DEF Spec, PackedPasses

-----------------------------------------------------------------------------
(* Nothing waits in a circle: who has its turn *)

\* From here a request may still go to ask for a permit.
Asking == {"slot", "window", "charging", "sent", "retrying", "json", "delay", "again"}

\* A writer that waits has its event, and the row is held by who locked it.
EventsInv ==
  /\ loop \in {"polling", "reporting"}
  /\ loop = "reporting" <=> event[Loop] # "none"
  /\ \A c \in Calls : pc[c] \in Reporting => event[c] # "none"
  /\ row \in Writers \cup {Nobody}
  /\ \A w \in Writers : event[w] = "locked" <=> row = w

\* The open requests are those in flight, each of them once.
FlightInv ==
  /\ inflight \in Seq(Calls)
  /\ \A i, j \in 1 .. Len(inflight) : inflight[i] = inflight[j] => i = j
  /\ \A c \in Calls : pc[c] # "idle" <=> \E i \in 1 .. Len(inflight) : inflight[i] = c

\* Who asks for room in the window asks for no more than there ever is.
SizedInv == \A c \in Calls : pc[c] \in Asking => Reservation(c) <= Tpm

\* A request that is polled moves without an event, or begins one.
Moves(c) ==
  /\ pc[c] \notin Reporting \cup {"idle"} /\ loop = "polling"
  /\ \E stage \in Stages \ {"idle"} :
       /\ Goes(c, stage)
       /\ \/ stage \notin Reporting /\ UNCHANGED event
          \/ stage \in Reporting /\ event' = [event EXCEPT ![c] = "journalled"]
  /\ UNCHANGED <<loop, row, inflight>>

LEMMA ProgressMoves ==
  ASSUME NEW c \in Calls, Progress(c)
  PROVE  Moves(c) \/ Collect(c) \/ DropAttempt
<1> USE DEF Moves, Polled, Stages, Reporting
<1>1. CASE ServeCached(c) \/ RecordUsage(c) \/ NoteSpoiled(c) \/ Garbled(c) \/ JsonModeRefused(c)
  BY <1>1 DEF ServeCached, RecordUsage, NoteSpoiled, Garbled, JsonModeRefused, Journal
<1>2. CASE Prepare(c)
  BY <1>2 DEF Prepare
<1>3. CASE AcquireSlot(c) \/ Unaffordable(c) \/ Complete(c) \/ KeepAnswer(c)
  BY <1>3 DEF AcquireSlot, Unaffordable, Complete, KeepAnswer
<1>4. CASE Admit(c)
  BY <1>4 DEF Admit, Journal
<1>5. CASE Learn(c)
  <2>1. PICK kind \in {"whole", "cut", "abnormal", "overlong"} : Goes(c, Ends(kind))
    BY <1>5 DEF Learn
  <2>2. Ends(kind) \in {"caching", "spoiled", "error", "fatal"}
    BY <2>1 DEF Ends
  <2> QED BY <1>5, <2>1, <2>2 DEF Learn
<1>6. CASE Unavailable(c)
  BY <1>6 DEF Unavailable, Journal
<1>7. CASE Refused(c) \/ TooLong(c) \/ NextAttempt(c) \/ AskAgain(c)
  BY <1>7 DEF Refused, TooLong, NextAttempt, AskAgain
<1>8. CASE Fail(c)
  BY <1>8 DEF Fail
<1> QED BY <1>1, <1>2, <1>3, <1>4, <1>5, <1>6, <1>7, <1>8 DEF Progress

LEMMA DropEndsTurns == ASSUME DropAttempt PROVE EventsInv' /\ FlightInv' /\ SizedInv'
<1>1. EventsInv'
  BY GateAssumption DEF DropAttempt, EventsInv, Reporting, Writers
<1>2. FlightInv'
  BY DEF DropAttempt, FlightInv
<1>3. SizedInv'
  BY DEF DropAttempt, SizedInv, Asking
<1> QED BY <1>1, <1>2, <1>3

LEMMA SameEvents ==
  ASSUME EventsInv, UNCHANGED <<loop, event, pc, row>> PROVE EventsInv'
BY DEF EventsInv

LEMMA MoveKeepsEvents ==
  ASSUME PermitInv, EventsInv, NEW c \in Calls, Moves(c)
  PROVE  EventsInv'
<1>1. PICK stage \in Stages :
        /\ Goes(c, stage)
        /\ \/ stage \notin Reporting /\ UNCHANGED event
           \/ stage \in Reporting /\ event' = [event EXCEPT ![c] = "journalled"]
  BY DEF Moves
<1>2. event[c] = "none" /\ row # c
  BY DEF Moves, PermitInv, EventsInv, Writers
<1>3. /\ \A d \in Calls : pc'[d] = IF d = c THEN stage ELSE pc[d]
      /\ \A w \in Writers : w # c => event'[w] = event[w]
      /\ event'[c] = IF stage \in Reporting THEN "journalled" ELSE "none"
  BY <1>1, <1>2 DEF Goes, PermitInv, Writers
<1>4. UNCHANGED <<loop, row>> /\ Loop \in Writers /\ Loop # c
  BY GateAssumption DEF Moves, Writers
<1> QED BY <1>2, <1>3, <1>4 DEF EventsInv, Writers

LEMMA CollectKeepsEvents ==
  ASSUME PermitInv, EventsInv, NEW c \in Calls, Collect(c)
  PROVE  EventsInv'
<1>1. /\ loop = "polling" /\ loop' = "reporting" /\ row' = row
      /\ event' = [event EXCEPT ![Loop] = "journalled"] /\ pc' = [pc EXCEPT ![c] = "idle"]
  BY DEF Collect, Polled, Journal, Goes
<1>2. event[Loop] = "none" /\ row # Loop
  BY <1>1 DEF EventsInv, Writers
<1>3. /\ event'[Loop] = "journalled"
      /\ \A w \in Calls : event'[w] = event[w]
      /\ \A d \in Calls : pc'[d] \in Reporting => pc[d] \in Reporting
  BY <1>1, GateAssumption DEF PermitInv, Writers, Reporting
<1> QED BY <1>1, <1>2, <1>3 DEF EventsInv, Writers

LEMMA CommitKeepsEvents ==
  ASSUME PermitInv, EventsInv, NEW w \in Writers, CommitEvent(w)
  PROVE  EventsInv'
<1>1. /\ row = w /\ row' = Nobody
      /\ \A v \in Writers : event'[v] = IF v = w THEN "none" ELSE event[v]
      /\ (w \in Calls) = (loop = "polling")
  BY DEF CommitEvent, PermitInv, EventsInv
<1>2. \A v \in Writers : event'[v] # "locked"
  BY <1>1 DEF EventsInv
<1>3. Nobody \notin Writers /\ Loop \in Writers /\ Loop \notin Calls
  BY GateAssumption DEF Writers
<1>4. CASE w = Loop
  <2>1. loop' = "polling" /\ pc' = pc
    BY <1>4 DEF CommitEvent
  <2> QED BY <1>1, <1>2, <1>3, <1>4, <2>1 DEF EventsInv, Writers
<1>5. CASE w # Loop
  <2>1. loop' = loop /\ w \in Calls /\ pc[w] \in Reporting /\ Goes(w, AfterEvent(w))
    BY <1>5 DEF CommitEvent, PermitInv, Writers
  <2>2. AfterEvent(w) \notin Reporting
    BY <2>1 DEF AfterEvent, Reporting
  <2>3. \A d \in Calls : pc'[d] \in Reporting => d # w /\ pc[d] \in Reporting
    BY <2>1, <2>2 DEF Goes, PermitInv
  <2> QED BY <1>1, <1>2, <1>3, <1>5, <2>1, <2>3 DEF EventsInv, Writers
<1> QED BY <1>4, <1>5

LEMMA EventsStep == PermitInv /\ EventsInv /\ [Next]_vars => EventsInv'
<1> SUFFICES ASSUME PermitInv, EventsInv, [Next]_vars PROVE EventsInv'
  OBVIOUS
<1>1. CASE UNCHANGED vars \/ Resume \/ ReplayJournal \/ Expire \/ OtherRun
  BY <1>1, SameEvents DEF vars, Resume, ReplayJournal, Expire, OtherRun
<1>2. CASE StopAttempt
  BY <1>2, DropEndsTurns DEF StopAttempt
<1>3. ASSUME NEW c \in Calls, PushBatch(c) PROVE EventsInv'
  <2>1. /\ UNCHANGED <<loop, event, row>>
        /\ \A d \in Calls : pc'[d] \in Reporting => pc[d] \in Reporting
    BY <1>3 DEF PushBatch, Goes, PermitInv, Reporting
  <2> QED BY <2>1 DEF EventsInv
<1>4. ASSUME NEW c \in Calls, Progress(c) PROVE EventsInv'
  BY <1>4, ProgressMoves, MoveKeepsEvents, CollectKeepsEvents, DropEndsTurns
<1>5. ASSUME NEW w \in Writers, LockRow(w) \/ EventFails(w) PROVE EventsInv'
  <2>1. Nobody \notin Writers /\ Loop \in Writers
    BY GateAssumption DEF Writers
  <2>2. UNCHANGED <<loop, pc>> /\ event[w] # "none"
    BY <1>5 DEF LockRow, EventFails
  <2>3. CASE LockRow(w)
    <3>1. /\ row = Nobody /\ row' = w
          /\ \A v \in Writers : event'[v] = IF v = w THEN "locked" ELSE event[v]
      BY <2>3 DEF LockRow, PermitInv
    <3> QED BY <2>1, <2>2, <3>1 DEF EventsInv, Writers
  <2>4. CASE EventFails(w)
    <3>1. /\ row = w /\ row' = Nobody
          /\ \A v \in Writers : event'[v] = IF v = w THEN "journalled" ELSE event[v]
      BY <2>4 DEF EventFails, PermitInv, EventsInv
    <3> QED BY <2>1, <2>2, <3>1 DEF EventsInv, Writers
  <2> QED BY <1>5, <2>3, <2>4
<1>6. ASSUME NEW w \in Writers, CommitEvent(w) PROVE EventsInv'
  BY <1>6, CommitKeepsEvents
<1>7. ASSUME NEW w \in Writers, GiveUp(w) PROVE EventsInv'
  BY <1>7, DropEndsTurns DEF GiveUp
<1> QED BY <1>1, <1>2, <1>3, <1>4, <1>5, <1>6, <1>7 DEF Next

LEMMA SameFlight == ASSUME FlightInv, UNCHANGED <<inflight, pc>> PROVE FlightInv'
BY DEF FlightInv

\* A request that stays open stays in flight.
LEMMA MoveKeepsFlight ==
  ASSUME PermitInv, FlightInv, NEW c \in Calls, NEW stage, Goes(c, stage),
         stage # "idle", pc[c] # "idle", UNCHANGED inflight
  PROVE  FlightInv'
<1>1. \A d \in Calls : pc'[d] # "idle" <=> pc[d] # "idle"
  BY DEF Goes, PermitInv
<1> QED BY <1>1 DEF FlightInv

LEMMA PushKeepsFlight ==
  ASSUME PermitInv, FlightInv, NEW c \in Calls, PushBatch(c)
  PROVE  FlightInv'
<1>1. pc[c] = "idle" /\ inflight' = Append(inflight, c)
  BY DEF PushBatch, Polled
<1>2. \A d \in Calls : pc'[d] # "idle" <=> d = c \/ pc[d] # "idle"
  BY DEF PushBatch, Goes, PermitInv
<1>3. /\ inflight' \in Seq(Calls) /\ Len(inflight') = Len(inflight) + 1
      /\ \A i \in 1 .. Len(inflight) : inflight'[i] = inflight[i] /\ inflight[i] # c
      /\ inflight'[Len(inflight) + 1] = c
      /\ Len(inflight) \in Nat
  BY <1>1 DEF FlightInv
<1>4. \A i, j \in 1 .. Len(inflight') : inflight'[i] = inflight'[j] => i = j
  BY <1>3 DEF FlightInv
<1>5. \A d \in Calls : pc'[d] # "idle" <=> \E i \in 1 .. Len(inflight') : inflight'[i] = d
  <2> TAKE d \in Calls
  <2>1. (\E i \in 1 .. Len(inflight') : inflight'[i] = d)
          <=> d = c \/ \E i \in 1 .. Len(inflight) : inflight[i] = d
    BY <1>3
  <2> QED BY <1>2, <2>1 DEF FlightInv
<1> QED BY <1>3, <1>4, <1>5 DEF FlightInv

LEMMA CollectKeepsFlight ==
  ASSUME PermitInv, FlightInv, NEW c \in Calls, Collect(c)
  PROVE  FlightInv'
<1>1. pc[c] = "done" /\ Head(inflight) = c /\ inflight' = Tail(inflight)
  BY DEF Collect, Polled
<1>2. \A d \in Calls : pc'[d] # "idle" <=> d # c /\ pc[d] # "idle"
  BY DEF Collect, Goes, PermitInv
<1>3. inflight # <<>> /\ inflight \in Seq(Calls)
  BY <1>1 DEF FlightInv
<1>4. /\ inflight' \in Seq(Calls) /\ Len(inflight') = Len(inflight) - 1
      /\ \A i \in 1 .. Len(inflight') : inflight'[i] = inflight[i + 1]
      /\ inflight[1] = c /\ Len(inflight) \in Nat \ {0}
  BY <1>1, <1>3
<1>5. \A i, j \in 1 .. Len(inflight') : inflight'[i] = inflight'[j] => i = j
  BY <1>4 DEF FlightInv
<1>6. \A d \in Calls : pc'[d] # "idle" <=> \E i \in 1 .. Len(inflight') : inflight'[i] = d
  <2> TAKE d \in Calls
  <2>1. (\E i \in 1 .. Len(inflight') : inflight'[i] = d)
          <=> \E i \in 2 .. Len(inflight) : inflight[i] = d
    <3>1. ASSUME NEW i \in 1 .. Len(inflight'), inflight'[i] = d
          PROVE  \E k \in 2 .. Len(inflight) : inflight[k] = d
      <4>1. i + 1 \in 2 .. Len(inflight) /\ inflight[i + 1] = d
        BY <1>4, <3>1
      <4> QED BY <4>1
    <3>2. ASSUME NEW i \in 2 .. Len(inflight), inflight[i] = d
          PROVE  \E k \in 1 .. Len(inflight') : inflight'[k] = d
      <4>1. i - 1 \in 1 .. Len(inflight') /\ inflight'[i - 1] = d
        BY <1>4, <3>2
      <4> QED BY <4>1
    <3> QED BY <3>1, <3>2
  <2>2. (\E i \in 2 .. Len(inflight) : inflight[i] = d)
          <=> d # c /\ \E i \in 1 .. Len(inflight) : inflight[i] = d
    BY <1>4 DEF FlightInv
  <2> QED BY <1>2, <2>1, <2>2 DEF FlightInv
<1> QED BY <1>4, <1>5, <1>6 DEF FlightInv

LEMMA FlightStep == PermitInv /\ FlightInv /\ [Next]_vars => FlightInv'
<1> SUFFICES ASSUME PermitInv, FlightInv, [Next]_vars PROVE FlightInv'
  OBVIOUS
<1>1. CASE UNCHANGED vars \/ Resume \/ ReplayJournal \/ Expire \/ OtherRun
  BY <1>1, SameFlight DEF vars, Resume, ReplayJournal, Expire, OtherRun
<1>2. CASE StopAttempt
  BY <1>2, DropEndsTurns DEF StopAttempt
<1>3. ASSUME NEW c \in Calls, PushBatch(c) PROVE FlightInv'
  BY <1>3, PushKeepsFlight
<1>4. ASSUME NEW c \in Calls, Progress(c) PROVE FlightInv'
  <2>1. CASE Moves(c)
    BY <2>1, MoveKeepsFlight DEF Moves
  <2> QED BY <1>4, <2>1, ProgressMoves, CollectKeepsFlight, DropEndsTurns
<1>5. ASSUME NEW w \in Writers, LockRow(w) \/ EventFails(w) PROVE FlightInv'
  BY <1>5, SameFlight DEF LockRow, EventFails
<1>6. ASSUME NEW w \in Writers, CommitEvent(w) PROVE FlightInv'
  <2>1. inflight' = inflight
    BY <1>6 DEF CommitEvent
  <2>2. CASE w = Loop
    BY <1>6, <2>1, <2>2, SameFlight DEF CommitEvent
  <2>3. CASE w # Loop
    <3>1. w \in Calls /\ pc[w] \in Reporting /\ Goes(w, AfterEvent(w))
      BY <1>6, <2>3 DEF CommitEvent, PermitInv, Writers
    <3>2. AfterEvent(w) # "idle" /\ pc[w] # "idle"
      BY <3>1 DEF AfterEvent, Reporting
    <3> QED BY <2>1, <3>1, <3>2, MoveKeepsFlight
  <2> QED BY <2>2, <2>3
<1>7. ASSUME NEW w \in Writers, GiveUp(w) PROVE FlightInv'
  BY <1>7, DropEndsTurns DEF GiveUp
<1> QED BY <1>1, <1>2, <1>3, <1>4, <1>5, <1>6, <1>7 DEF Next

\* Whoever asks now asked before, for as much.
LEMMA SizesKept ==
  ASSUME SizedInv,
         \A c \in Calls : pc'[c] \in Asking => pc[c] \in Asking /\ call'[c].input = call[c].input
  PROVE  SizedInv'
BY DEF SizedInv, Reservation

LEMMA ProgressKeepsSizes ==
  ASSUME PermitInv, MeasureInv, SizedInv, NEW c \in Calls, Progress(c)
  PROVE  SizedInv'
<1> USE DEF Asking, Goes, Polled, PermitInv
<1>1. CASE Prepare(c)
  <2> DEFINE input == Estimate(Bytes(c), Density(density))
             asking == Passes(input, margin) /\ input + MaxOutput <= Tpm
  <2>1. call' = [call EXCEPT ![c].input = input, ![c].json = ~jsonOff]
    BY <1>1 DEF Prepare
  <2>2. pc' = [pc EXCEPT ![c] = IF asking THEN "slot" ELSE "oversized"]
    BY <1>1 DEF Prepare
  <2>3. "input" \in DOMAIN call[c] /\ DOMAIN call = Calls
    BY DEF MeasureInv, NoCall
  <2> HIDE DEF input
  <2>4. call'[c].input = input /\ \A d \in Calls : d # c => call'[d] = call[d]
    BY <2>1, <2>3
  <2>5. asking => input + MaxOutput <= Tpm
    OBVIOUS
  <2> HIDE DEF asking
  <2>6. ASSUME NEW d \in Calls, pc'[d] \in Asking PROVE Reservation(d)' <= Tpm
    <3>1. CASE d = c
      BY <2>2, <2>4, <2>5, <2>6, <3>1 DEF Reservation
    <3>2. CASE d # c
      BY <2>2, <2>4, <2>6, <3>2 DEF Reservation, SizedInv
    <3> QED BY <3>1, <3>2
  <2> QED BY <2>6 DEF SizedInv
<1>2. CASE NextAttempt(c) \/ JsonModeRefused(c)
  <2>1. \/ call' = [call EXCEPT ![c].attempt = @ + 1]
        \/ call' = [call EXCEPT ![c].json = FALSE]
    BY <1>2 DEF NextAttempt, JsonModeRefused
  <2>2. \A d \in Calls : call'[d].input = call[d].input
    BY <2>1 DEF MeasureInv, NoCall
  <2>3. \A d \in Calls : pc'[d] \in Asking => pc[d] \in Asking
    BY <1>2 DEF NextAttempt, JsonModeRefused
  <2> QED BY <2>2, <2>3, SizesKept
<1>3. CASE AskAgain(c) \/ Collect(c)
  <2>1. \A d \in Calls : d # c => call'[d] = call[d]
    BY <1>3 DEF AskAgain, Collect, MeasureInv
  <2>2. \A d \in Calls : pc'[d] \in Asking => d # c /\ pc[d] \in Asking
    BY <1>3 DEF AskAgain, Collect
  <2> QED BY <2>1, <2>2, SizesKept
<1>4. CASE Fail(c)
  BY <1>4, DropEndsTurns DEF Fail
<1>5. CASE ServeCached(c) \/ AcquireSlot(c) \/ Admit(c) \/ Unaffordable(c) \/ Complete(c)
  BY <1>5, SizesKept DEF ServeCached, AcquireSlot, Admit, Unaffordable, Complete
<1>6. CASE \/ RecordUsage(c) \/ NoteSpoiled(c) \/ KeepAnswer(c) \/ Garbled(c)
           \/ Unavailable(c) \/ Refused(c) \/ TooLong(c)
  BY <1>6, SizesKept DEF RecordUsage, NoteSpoiled, KeepAnswer, Garbled, Unavailable, Refused,
       TooLong
<1>7. CASE Learn(c)
  <2>1. PICK kind \in {"whole", "cut", "abnormal", "overlong"} : Goes(c, Ends(kind))
    BY <1>7 DEF Learn
  <2>2. Ends(kind) \notin Asking
    BY <2>1 DEF Ends
  <2> QED BY <1>7, <2>1, <2>2, SizesKept DEF Learn
<1> QED BY <1>1, <1>2, <1>3, <1>4, <1>5, <1>6, <1>7 DEF Progress

LEMMA SizedStep == PermitInv /\ MeasureInv /\ SizedInv /\ [Next]_vars => SizedInv'
<1> SUFFICES ASSUME PermitInv, MeasureInv, SizedInv, [Next]_vars PROVE SizedInv'
  OBVIOUS
<1>1. CASE UNCHANGED vars \/ Resume \/ ReplayJournal \/ Expire \/ OtherRun
  BY <1>1, SizesKept DEF vars, Resume, ReplayJournal, Expire, OtherRun
<1>2. CASE StopAttempt
  BY <1>2, DropEndsTurns DEF StopAttempt
<1>3. ASSUME NEW c \in Calls, PushBatch(c) PROVE SizedInv'
  <2>1. \A d \in Calls : pc'[d] \in Asking => d # c /\ pc[d] \in Asking
    BY <1>3 DEF PushBatch, Goes, PermitInv, Asking
  <2>2. \A d \in Calls : d # c => call'[d] = call[d]
    BY <1>3 DEF PushBatch, MeasureInv
  <2> QED BY <2>1, <2>2, SizesKept
<1>4. ASSUME NEW w \in Writers, LockRow(w) \/ EventFails(w) PROVE SizedInv'
  BY <1>4, SizesKept DEF LockRow, EventFails
<1>5. ASSUME NEW w \in Writers, CommitEvent(w) PROVE SizedInv'
  <2>1. call' = call
    BY <1>5 DEF CommitEvent
  <2>2. CASE w = Loop
    BY <1>5, <2>1, <2>2, SizesKept DEF CommitEvent
  <2>3. CASE w # Loop
    <3>1. w \in Calls /\ pc[w] \in Reporting /\ Goes(w, AfterEvent(w))
      BY <1>5, <2>3 DEF CommitEvent, PermitInv, Writers
    <3>2. AfterEvent(w) \in Asking => pc[w] \in Asking
      BY <3>1 DEF AfterEvent, Reporting, Asking
    <3> QED BY <2>1, <3>1, <3>2, SizesKept DEF Goes, PermitInv
  <2> QED BY <2>2, <2>3
<1>6. ASSUME NEW w \in Writers, GiveUp(w) PROVE SizedInv'
  BY <1>6, DropEndsTurns DEF GiveUp
<1> QED BY <1>1, <1>2, <1>3, <1>4, <1>5, <1>6, ProgressKeepsSizes DEF Next

\* The library's sum of an empty sequence: its recursion has a solution, and every
\* solution begins with 0.
LEMMA EmptySum == FoldSeq(+, 0, <<>>) = 0
<1> DEFINE Sums(iter) ==
      iter = [s \in SUBSET (DOMAIN <<>>) |->
                IF s = {} THEN 0
                ELSE LET x == CHOOSE x \in s : TRUE IN <<>>[x] + iter[s \ {x}]]
<1>1. DOMAIN <<>> = {}
  OBVIOUS
<1>2. \E iter : Sums(iter)
  <2> DEFINE zero == [s \in SUBSET (DOMAIN <<>>) |-> 0]
  <2>1. \A s \in SUBSET (DOMAIN <<>>) : s = {}
    BY <1>1
  <2>2. Sums(zero)
    BY <2>1
  <2> QED BY <2>2
<1>3. \A iter : Sums(iter) => iter[DOMAIN <<>>] = 0
  BY <1>1
<1>4. FoldSeq(+, 0, <<>>) = (CHOOSE iter : Sums(iter))[DOMAIN <<>>]
  BY DEF FoldSeq, FoldFunction, FoldFunctionOnSet, MapThenFoldSet
<1> HIDE DEF Sums
<1> QED BY <1>2, <1>3, <1>4

LEMMA EmptyWindowFits ==
  ASSUME window = <<>>, NEW tokens \in Int, tokens <= Tpm PROVE Fits(tokens)
<1>1. FoldSeq(+, 0, window) = 0
  BY EmptySum, Zenon
<1>2. Len(window) < Rpm /\ 0 + tokens <= Tpm
  BY GateAssumption
<1> QED BY <1>1, <1>2, Zenon DEF Fits

\* A permit is missing only while some request holds one.
LEMMA PermitHeld ==
  ASSUME PermitInv, slots <= 0 PROVE \E c \in Calls : pc[c] \in Permitted
<1>1. slots + Cardinality(Held) = Slots /\ slots \in Int
  BY DEF PermitInv, PermitsConserved, Held
<1>2. Cardinality(Held) # 0
  BY <1>1, GateAssumption
<1>3. Held # {}
  BY <1>2, FS_EmptySet
<1> QED BY <1>3 DEF Held

\* A writer whose event is open goes on: it has the row, nobody has it, or the one
\* who has it is the next to go on, except beside the loop, which gives up.
LEMMA SomeWriterReady ==
  ASSUME PermitInv, EventsInv, run = "working",
         NEW w \in Writers, event[w] # "none", (w \in Calls) = (loop = "polling")
  PROVE  SomeoneReady
<1>1. event[w] \in {"journalled", "locked"}
  BY DEF PermitInv, EventStates
<1>2. CASE event[w] = "locked" \/ row = Nobody
  BY <1>1, <1>2 DEF SomeoneReady
<1>3. CASE event[w] = "journalled" /\ row # Nobody
  <2>1. row \in Writers /\ event[row] = "locked" /\ row # w
    BY <1>3 DEF EventsInv
  <2>2. CASE loop = "polling"
    <3>1. row \in Calls
      BY <2>1, <2>2 DEF EventsInv, Writers
    <3> QED BY <2>1, <2>2, <3>1 DEF SomeoneReady
  <2>3. CASE loop = "reporting"
    <3>1. w = Loop /\ row \in Calls
      BY <2>1, <2>3 DEF Writers
    <3>2. Blocked(w)
      BY <2>3, <3>1 DEF Blocked
    <3> QED BY <1>3, <3>2 DEF SomeoneReady
  <2> QED BY <2>2, <2>3 DEF EventsInv
<1> QED BY <1>1, <1>2, <1>3

TurnInv == PermitInv /\ MeasureInv /\ SpendInv /\ EventsInv /\ FlightInv /\ SizedInv

LEMMA SomeRequestReady ==
  ASSUME TurnInv, run = "working", loop = "polling", NEW c \in Calls, pc[c] # "idle",
         \A d \in Calls : pc[d] \notin Reporting
  PROVE  SomeoneReady
<1> USE DEF TurnInv
<1>1. \A d \in Calls : pc[d] \in Unhindered \cup {"idle", "slot", "window", "done"}
  BY DEF PermitInv, Stages, Reporting, Unhindered
<1>2. CASE \E d \in Calls : pc[d] \in Unhindered
  BY <1>2 DEF SomeoneReady, Polled
<1>3. CASE \E d \in Calls : pc[d] = "window"
  <2>1. PICK d \in Calls : pc[d] = "window"
    BY <1>3
  <2>2. Reservation(d) \in Int /\ Reservation(d) <= Tpm
    BY <2>1, ReservationIsNat DEF SizedInv, Asking
  <2>3. Fits(Reservation(d)) \/ window # <<>>
    BY <2>2, EmptyWindowFits
  <2> QED BY <2>1, <2>3 DEF SomeoneReady, Polled
<1>4. CASE \A d \in Calls : pc[d] \in {"idle", "slot", "done"}
  <2>1. CASE \E d \in Calls : pc[d] = "slot"
    <3>1. PICK d \in Calls : pc[d] = "slot"
      BY <2>1
    <3>2. slots > 0
      <4>1. slots \in Int
        BY DEF PermitInv
      <4> QED BY <1>4, <4>1, PermitHeld DEF Permitted
    <3> QED BY <3>1, <3>2 DEF SomeoneReady, Polled
  <2>2. CASE \A d \in Calls : pc[d] \in {"idle", "done"}
    <3>1. inflight \in Seq(Calls) /\ inflight # <<>>
      BY DEF FlightInv
    <3>2. PICK d \in Calls : d = Head(inflight) /\ d = inflight[1] /\ 1 \in 1 .. Len(inflight)
      BY <3>1
    <3>3. pc[d] = "done"
      BY <2>2, <3>2 DEF FlightInv
    <3> QED BY <3>2, <3>3 DEF SomeoneReady, Polled
  <2> QED BY <1>4, <2>1, <2>2
<1> QED BY <1>1, <1>2, <1>3, <1>4

\* llm_slots, rate_limit, the row's lock and inflight.next(): requests, events, permits
\* and the window never wait for each other in a circle, for any number of requests.
THEOREM NeverStuck == Spec => []((\E c \in Calls : pc[c] # "idle") => SomeoneReady)
<1>1. Init => MarginInv /\ TurnInv
  <2> SUFFICES ASSUME Init PROVE MarginInv /\ TurnInv
    OBVIOUS
  <2>1. MarginInv /\ MeasureInv
    BY DEF Init, MarginInv, MeasureInv, IsDensity, NoCall, NoDensity
  <2>2. \A c \in Calls : pc[c] = "idle"
    BY DEF Init
  <2>3. SpendInv
    BY <2>1, <2>2, NothingOwed, GateAssumption DEF Init, SpendInv
  <2>4. EventsInv /\ FlightInv /\ SizedInv
    BY <2>2, GateAssumption DEF Init, EventsInv, FlightInv, SizedInv, Writers, Reporting, Asking
  <2> QED BY <2>1, <2>3, <2>4, InitialPermits DEF TurnInv
<1>2. MarginInv /\ TurnInv /\ [Next]_vars => MarginInv' /\ TurnInv'
  BY PermitStep, MarginStep, MeasureStep, SpendStep, EventsStep, FlightStep, SizedStep
  DEF TurnInv
<1>3. ASSUME TurnInv, NEW c \in Calls, pc[c] # "idle" PROVE SomeoneReady
  <2>1. run = "working" /\ loop \in {"polling", "reporting"}
    BY <1>3 DEF TurnInv, SpendInv, EventsInv
  <2>2. CASE loop = "reporting"
    BY <1>3, <2>1, <2>2, SomeWriterReady, GateAssumption DEF TurnInv, EventsInv, Writers
  <2>3. CASE loop = "polling" /\ \E d \in Calls : pc[d] \in Reporting
    BY <1>3, <2>1, <2>3, SomeWriterReady DEF TurnInv, EventsInv, Writers
  <2>4. CASE loop = "polling" /\ \A d \in Calls : pc[d] \notin Reporting
    BY <1>3, <2>1, <2>4, SomeRequestReady
  <2> QED BY <2>1, <2>2, <2>3, <2>4
<1>4. TurnInv => ((\E c \in Calls : pc[c] # "idle") => SomeoneReady)
  BY <1>3
<1> QED BY <1>1, <1>2, <1>4, PTL DEF Spec
=============================================================================
