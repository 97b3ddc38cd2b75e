---------------------------- MODULE RequestGate ----------------------------
(***************************************************************************)
(* What stands between a run and its model provider: llm.rs call_with, the *)
(* budget and event journal of context.rs, the arithmetic of budget.rs and *)
(* the replay of a left-over journal (runner.rs).                          *)
(*                                                                         *)
(* The client is the reading loop of understanding.rs, the one place where *)
(* a run has several requests in flight.  They are futures of one task:    *)
(* they advance only while the loop polls them, not while it records an    *)
(* event of its own.  Cost and elapsed time follow the tokens and are left *)
(* out.  Time passes by Expire: the oldest entry of the rate window leaves *)
(* it.  Bytes and tokens are numbers on the scale of ContextLimit.         *)
(***************************************************************************)
EXTENDS Integers, Sequences, FiniteSets, FiniteSetsExt, SequencesExt

CONSTANTS
  Calls,          \* the requests that may be in flight at once
  Loop,           \* the reading loop itself, as a writer of events
  Nobody,         \* nobody holds the lock of the run's row
  NoJournal,      \* journal/{id}.json does not exist
  Prompts,        \* distinct requests, the keys of llm_cache
  MaxTokens,      \* task.max_tokens
  Slots,          \* permits of llm_slots
  Rpm, Tpm,       \* the run's limits on the shared rate window
  Retries,        \* llm.retries
  ContextLimit, SafetyPercent, MaxOutput, Overhead,  \* settings of the model
  SamplesNeeded,  \* budget::DENSITY_SAMPLES
  Distrusted,     \* density_samples = u32::MAX
  MaxRequests,    \* bound: requests begun
  MaxStops,       \* bound: ends of an attempt from outside, crashes included
  MaxFaults,      \* bound: failed database statements
  MaxOthers       \* bound: requests of other runs in the window

ASSUME GateAssumption ==
  /\ IsFiniteSet(Calls) /\ Loop \notin Calls /\ Nobody \notin Calls \cup {Loop}
  /\ MaxTokens \in Nat /\ Slots \in Nat \ {0} /\ Rpm \in Nat \ {0} /\ Tpm \in Nat
  /\ Retries \in Nat /\ SamplesNeeded \in Nat \ {0} /\ Distrusted \notin Nat
  /\ ContextLimit \in Nat /\ SafetyPercent \in 1..90 /\ MaxOutput \in Nat
  /\ Overhead \in Nat
  /\ MaxRequests \in Nat /\ MaxStops \in Nat /\ MaxFaults \in Nat /\ MaxOthers \in Nat

VARIABLES
  run,        \* "working" or "stopped"
  loop,       \* "polling" the requests or "reporting" a batch
  inflight,   \* the requests in flight, in the order they were pushed
  pc,         \* where each request stands
  page,       \* the margin when the loop last measured its requests
  call,       \* what each request asks, and its attempt
  answer,     \* how the provider answered it
  event,      \* each writer's event: "none", "journalled" or "locked"
  row,        \* who holds the lock of the run's row
  reserved,   \* ctx.reserved_tokens
  margin,     \* ctx.extra_margin
  density,    \* ctx.density_samples and density_floor
  jsonOff,    \* ctx.json_mode_off
  slots,      \* free permits of llm_slots
  window,     \* reservations admitted in the last minute, oldest first
  saved,      \* checkpoint "budget"
  journal,    \* journal/{id}.json
  cache,      \* llm_cache: prompt -> the answer kept for it
  due,        \* history: what the provider may bill, within the reservations
  requests, stops, faults, others   \* counters of the bounds

memory == <<reserved, margin, density, jsonOff>>
store  == <<saved, journal, cache>>
bounds == <<requests, stops, faults, others>>
vars == <<run, loop, page, inflight, pc, call, answer, event, row, memory, slots, window, store,
          due, bounds>>

-----------------------------------------------------------------------------
(* budget.rs *)

CeilDiv(a, b) == (a + b - 1) \div b
Uncalibrated == 100

\* The share of the context the run leaves unused.
SafetyMargin(extra) == CeilDiv(ContextLimit * Min({SafetyPercent + extra, 90}), 100)

\* estimate_at: bytes as tokens.
Estimate(bytes, dense) == CeilDiv(bytes * 100, Max({dense, Uncalibrated}))

\* Mutant: what rides along with the packed bytes is not taken out.
PackingWithoutOverhead(extra, dense) ==
  ((Max({ContextLimit - SafetyMargin(extra) - MaxOutput, 0}) * dense) * 100) \div 12500

\* packing_limit_at: the raw bytes a request may pack, leaving out what
\* escaping adds and what rides along.
PackingLimit(extra, dense) ==
  LET allowed == Max({ContextLimit - SafetyMargin(extra) - MaxOutput, 0})
      bytes   == (allowed * Max({dense, Uncalibrated})) \div 100
  IN  Max({(bytes * 100) \div 125 - Overhead, 0})

\* check: whether a request of so many tokens may be sent.
Passes(input, extra) == input + MaxOutput + SafetyMargin(extra) <= ContextLimit

\* density_sample, without its floor on tiny requests.
DensitySample(bytes, tokens) ==
  IF tokens = 0 THEN {} ELSE {(bytes * 100) \div tokens} \cap (Uncalibrated..600)

\* calibrated_density: the densest sample, with something to spare.
CalibratedDensity(samples, floor) ==
  IF samples < SamplesNeeded \/ floor = 0
  THEN Uncalibrated
  ELSE Min({Max({(floor * 85) \div 100, Uncalibrated}), 300})

\* RunContext::density.
Density(d) ==
  IF d.samples = Distrusted THEN Uncalibrated ELSE CalibratedDensity(d.samples, d.floor)

\* record_density: the floor is the densest sample; none once distrusted.
RecordDensity(d, sample) ==
  IF d.samples = Distrusted \/ sample = {} THEN d
  ELSE [samples |-> Min({d.samples + 1, SamplesNeeded}),
        floor   |-> IF d.floor = 0 THEN Max(sample) ELSE Min(sample \cup {d.floor})]

\* distrust_density: the provider rejected a request for its size.
DistrustDensity(d) == [d EXCEPT !.samples = Distrusted]

-----------------------------------------------------------------------------
(* Requests and events *)

Writers == Calls \cup {Loop}
NoCall == [prompt |-> CHOOSE p \in Prompts : TRUE, packed |-> 0, page |-> 0,
           input |-> 0, attempt |-> 0, json |-> FALSE]
NoAnswer == [kind |-> "none", prompt |-> 0]
NoDensity == [samples |-> 0, floor |-> 0]
Bytes(c) == CeilDiv((call[c].packed + Overhead) * 125, 100)
Reservation(c) == call[c].input + MaxOutput
Exhausted(c) == call[c].attempt = Retries

\* In these stages a request holds a permit of llm_slots.
Permitted == {"window", "charging", "sent"}
\* Futures advance only inside the loop's inflight.next().
Polled(c, stage) == run = "working" /\ loop = "polling" /\ pc[c] = stage
Goes(c, stage) == pc' = [pc EXCEPT ![c] = stage]

\* The first half of event: the journal keeps what is reserved at this moment; the
\* margin and the calibration are stored only when the event is committed.
Journal(w, tokens) ==
  /\ journal' = [tokens |-> tokens]
  /\ event' = [event EXCEPT ![w] = "journalled"]

Init ==
  /\ run = "working" /\ loop = "polling" /\ page = 0 /\ inflight = <<>>
  /\ pc = [c \in Calls |-> "idle"]
  /\ call = [c \in Calls |-> NoCall]
  /\ answer = [c \in Calls |-> NoAnswer]
  /\ event = [w \in Writers |-> "none"]
  /\ row = Nobody
  /\ reserved = 0 /\ margin = 0 /\ density = NoDensity /\ jsonOff = FALSE
  /\ slots = Slots /\ window = <<>>
  /\ saved = [tokens |-> 0, margin |-> 0, density |-> NoDensity]
  /\ journal = NoJournal
  /\ cache = [p \in {} |-> "whole"]
  /\ due = 0
  /\ requests = 0 /\ stops = 0 /\ faults = 0 /\ others = 0

\* A batch is cut and its future pushed.  input_limit is read once for a page of
\* chunks: the margin may have grown since.
PushBatch(c) ==
  /\ Polled(c, "idle") /\ requests < MaxRequests
  /\ page' \in {page, margin}
  /\ \E p \in Prompts :
       call' = [call EXCEPT ![c] = [NoCall EXCEPT !.prompt = p, !.page = page',
                                      !.packed = PackingLimit(page', Uncalibrated)]]
  /\ inflight' = Append(inflight, c)
  /\ Goes(c, "packed") /\ requests' = requests + 1
  /\ UNCHANGED <<run, loop, answer, event, row, memory, slots, window, store, due,
                 stops, faults, others>>

\* An answer kept for this prompt ends the request.
ServeCached(c) ==
  /\ Polled(c, "packed") /\ call[c].prompt \in DOMAIN cache
  /\ Journal(c, reserved) /\ Goes(c, "hit")
  /\ answer' = [answer EXCEPT ![c] = [NoAnswer EXCEPT !.kind = cache[call[c].prompt]]]
  /\ UNCHANGED <<inflight, run, loop, page, call, row, memory, slots, window, saved, cache,
                 due, bounds>>

\* The request is measured; one that passes waits for a permit.
Prepare(c) ==
  /\ Polled(c, "packed") /\ call[c].prompt \notin DOMAIN cache
  /\ LET input == Estimate(Bytes(c), Density(density))
         fits  == Passes(input, margin) /\ input + MaxOutput <= Tpm
     IN  /\ call' = [call EXCEPT ![c].input = input, ![c].json = ~jsonOff]
         /\ Goes(c, IF fits THEN "slot" ELSE "oversized")
  /\ UNCHANGED <<inflight, run, loop, page, answer, event, row, memory, slots, window,
                 store, due, bounds>>

\* request_slot: the permit comes before the window, so that waiting for one
\* does not age the other.
AcquireSlot(c) ==
  /\ Polled(c, "slot") /\ slots > 0
  /\ slots' = slots - 1 /\ Goes(c, "window")
  /\ UNCHANGED <<inflight, run, loop, page, call, answer, event, row, memory, window, store,
                 due, bounds>>

\* Mutant: only what was already reserved is compared with the limit.
AffordableSoFar(tokens) == reserved <= MaxTokens

Fits(tokens) == Len(window) < Rpm /\ FoldSeq(+, 0, window) + tokens <= Tpm
Affordable(tokens) == reserved + tokens <= MaxTokens

\* rate_limit, reserve and the journal of llm_request: nothing awaits between.
Admit(c) ==
  /\ Polled(c, "window") /\ Fits(Reservation(c)) /\ Affordable(Reservation(c))
  /\ window' = Append(window, Reservation(c))
  /\ reserved' = reserved + Reservation(c)
  /\ Journal(c, reserved') /\ Goes(c, "charging")
  /\ UNCHANGED <<inflight, run, loop, page, call, answer, row, margin, density, jsonOff,
                 slots, saved, cache, due, bounds>>

\* Mutant: the permit is not given back.
UnaffordableKeepsPermit(c) ==
  /\ Polled(c, "window") /\ Fits(Reservation(c)) /\ ~Affordable(Reservation(c))
  /\ window' = Append(window, Reservation(c)) /\ Goes(c, "fatal")
  /\ UNCHANGED <<inflight, run, loop, page, call, answer, event, row, memory, slots,
                 store, due, bounds>>

\* reserve refuses: TOKEN_BUDGET, and the guard of the permit is dropped.
Unaffordable(c) ==
  /\ Polled(c, "window") /\ Fits(Reservation(c)) /\ ~Affordable(Reservation(c))
  /\ window' = Append(window, Reservation(c))
  /\ slots' = slots + 1 /\ Goes(c, "fatal")
  /\ UNCHANGED <<inflight, run, loop, page, call, answer, event, row, memory, store, due,
                 bounds>>

\* The second half of event: a transaction that updates the run's row and
\* stores the counters as they are by then.
LockRow(w) ==
  /\ run = "working" /\ event[w] = "journalled" /\ row = Nobody
  /\ (w \in Calls) = (loop = "polling")
  /\ row' = w /\ event' = [event EXCEPT ![w] = "locked"]
  /\ UNCHANGED <<inflight, run, loop, page, pc, call, answer, memory, slots, window, store,
                 due, bounds>>

\* Where a request goes once its event is stored.
AfterEvent(c) ==
  CASE pc[c] = "charging"  -> "sent"
    [] pc[c] = "hit"       -> "done"
    [] pc[c] = "recording" -> "learning"
    [] pc[c] = "noting"    -> "error"
    [] pc[c] = "retrying"  -> IF Exhausted(c) THEN "fatal" ELSE "delay"
    [] pc[c] = "json"      -> IF Exhausted(c) THEN "fatal" ELSE "again"

CommitEvent(w) ==
  /\ run = "working" /\ event[w] = "locked"
  /\ (w \in Calls) = (loop = "polling")
  /\ saved' = [tokens |-> reserved, margin |-> margin, density |-> density]
  /\ journal' = NoJournal
  /\ row' = Nobody /\ event' = [event EXCEPT ![w] = "none"]
  /\ IF w = Loop THEN loop' = "polling" /\ UNCHANGED <<pc, due>>
                 ELSE /\ Goes(w, AfterEvent(w)) /\ UNCHANGED loop
                      /\ due' = due + (IF pc[w] = "charging" THEN Reservation(w) ELSE 0)
  /\ UNCHANGED <<inflight, run, page, call, answer, memory, slots, window, cache,
                 bounds>>

\* A statement fails, or is applied and reported as failed; event tries again.
EventFails(w) ==
  /\ run = "working" /\ event[w] = "locked" /\ faults < MaxFaults
  /\ (w \in Calls) = (loop = "polling")
  /\ saved' \in {saved, [tokens |-> reserved, margin |-> margin, density |-> density]}
  /\ row' = Nobody /\ event' = [event EXCEPT ![w] = "journalled"]
  /\ faults' = faults + 1
  /\ UNCHANGED <<inflight, run, loop, page, pc, call, answer, memory, slots, window, journal,
                 cache, due, requests, stops, others>>

\* Every future is dropped: permits return, transactions roll back, counters in
\* memory are gone.
DropAttempt ==
  /\ run' = "stopped" /\ loop' = "polling" /\ page' = 0 /\ inflight' = <<>>
  /\ pc' = [c \in Calls |-> "idle"] /\ call' = [c \in Calls |-> NoCall]
  /\ answer' = [c \in Calls |-> NoAnswer]
  /\ event' = [w \in Writers |-> "none"] /\ row' = Nobody
  /\ reserved' = 0 /\ margin' = 0 /\ density' = NoDensity /\ jsonOff' = FALSE
  /\ slots' = slots + Cardinality({c \in Calls : pc[c] \in Permitted})

\* Mutant: a lock that cannot be had is waited for without a timeout.
BlockedForEver(w) == FALSE

\* The row is held by a request that nobody polls.
Blocked(w) == w = Loop /\ loop = "reporting" /\ row \in Calls

\* Six attempts failed, for want of a database or of the row: DB_UNAVAILABLE ends
\* the reading.
GiveUp(w) ==
  /\ run = "working" /\ event[w] = "journalled"
  /\ (w \in Calls) = (loop = "polling")
  /\ Blocked(w) \/ faults < MaxFaults
  /\ faults' = IF Blocked(w) THEN faults ELSE faults + 1
  /\ DropAttempt
  /\ UNCHANGED <<window, store, due, requests, stops, others>>

-----------------------------------------------------------------------------
(* Answers of the provider; each gives the permit back first *)

\* Reported usage of the prompt, 0 for no report: below the estimate or above.
PromptTokens(c) == {0, CeilDiv(call[c].input, 2), call[c].input + 1}

\* Mutant: the whole reservation is given back.
ReconciledToNothing(c, used) == Max({reserved - Reservation(c), 0})

\* reconcile_tokens gives back what was reserved beyond the reported use.
Reconciled(c, used) == Max({reserved - Reservation(c), 0}) + used

Complete(c) ==
  /\ Polled(c, "sent")
  /\ \E tokens \in PromptTokens(c) :
       LET used == tokens + MaxOutput
       IN  /\ answer' = [answer EXCEPT ![c].prompt = tokens]
           /\ IF tokens = 0 THEN UNCHANGED <<reserved, due>>
              ELSE /\ reserved' = Reconciled(c, used)
                   /\ due' = due - Reservation(c) + Min({used, Reservation(c)})
  /\ slots' = slots + 1 /\ Goes(c, "accounted")
  /\ UNCHANGED <<inflight, run, loop, page, call, event, row, margin, density, jsonOff,
                 window, store, bounds>>

\* ctx.usage, then the journal of llm_response.
RecordUsage(c) ==
  /\ Polled(c, "accounted")
  /\ Journal(c, reserved) /\ Goes(c, "recording")
  /\ UNCHANGED <<inflight, run, loop, page, call, answer, row, memory, slots, window, saved,
                 cache, due, bounds>>

\* Mutant: an answer that was cut short is kept like any other.
EndsCutAsWhole(kind) ==
  IF kind \in {"whole", "cut"} THEN "caching"
  ELSE IF kind = "abnormal" THEN "error" ELSE "fatal"

\* "cut" is finish_reason length or dropped content, "abnormal" any other end or
\* an empty body, "overlong" more output than was asked for.
Ends(kind) ==
  CASE kind = "whole"    -> "caching"
    [] kind = "cut"      -> "spoiled"
    [] kind = "abnormal" -> "error"
    [] kind = "overlong" -> "fatal"

\* What a reported usage teaches, then how the answer ended.
Learn(c) ==
  /\ Polled(c, "learning")
  /\ LET tokens     == answer[c].prompt
         sample     == DensitySample(Bytes(c), tokens)
         sampled    == sample # {} /\ density.samples # Distrusted
         calibrated == Density(density) > Uncalibrated
     IN  /\ density' = RecordDensity(density, sample)
         /\ margin' = margin + (IF tokens > call[c].input /\ ~(calibrated /\ sampled)
                                THEN 5 ELSE 0)
  /\ \E kind \in {"whole", "cut", "abnormal", "overlong"} :
       answer' = [answer EXCEPT ![c] = [kind |-> kind, prompt |-> 0]] /\ Goes(c, Ends(kind))
  /\ UNCHANGED <<inflight, run, loop, page, call, event, row, reserved, jsonOff, slots, window,
                 store, due, bounds>>

\* output_limit or content_dropped goes to the run's history.
NoteSpoiled(c) ==
  /\ Polled(c, "spoiled")
  /\ Journal(c, reserved) /\ Goes(c, "noting")
  /\ UNCHANGED <<inflight, run, loop, page, call, answer, row, memory, slots, window, saved,
                 cache, due, bounds>>

KeepAnswer(c) ==
  /\ Polled(c, "caching")
  /\ cache' = [p \in DOMAIN cache \cup {call[c].prompt} |->
                 IF p = call[c].prompt THEN answer[c].kind ELSE cache[p]]
  /\ Goes(c, "done")
  /\ UNCHANGED <<inflight, run, loop, page, call, answer, event, row, memory, slots, window,
                 saved, journal, due, bounds>>

\* An unreadable body, or an error in a successful response: event, then the
\* count of attempts.
Garbled(c) ==
  /\ Polled(c, "sent")
  /\ Journal(c, reserved) /\ Goes(c, "retrying") /\ slots' = slots + 1
  /\ UNCHANGED <<inflight, run, loop, page, call, answer, row, memory, window, saved, cache,
                 due, bounds>>

\* No connection, 429 or 5xx: the count of attempts, then the event.
Unavailable(c) ==
  /\ Polled(c, "sent") /\ slots' = slots + 1
  /\ IF Exhausted(c) THEN Goes(c, "fatal") /\ UNCHANGED <<journal, event>>
                     ELSE Goes(c, "retrying") /\ Journal(c, reserved)
  /\ UNCHANGED <<inflight, run, loop, page, call, answer, row, memory, window, saved, cache,
                 due, bounds>>

\* Credentials, quota, or a body no retry can mend.
Refused(c) ==
  /\ Polled(c, "sent")
  /\ slots' = slots + 1 /\ Goes(c, "fatal")
  /\ UNCHANGED <<inflight, run, loop, page, call, answer, event, row, memory, window, store,
                 due, bounds>>

\* A server without JSON mode is asked again without it.
JsonModeRefused(c) ==
  /\ Polled(c, "sent") /\ call[c].json
  /\ jsonOff' = TRUE /\ call' = [call EXCEPT ![c].json = FALSE]
  /\ Journal(c, reserved) /\ Goes(c, "json") /\ slots' = slots + 1
  /\ UNCHANGED <<inflight, run, loop, page, answer, row, reserved, margin, density, window,
                 saved, cache, due, bounds>>

\* The provider finds the request too large: margin and calibration learn it.
TooLong(c) ==
  /\ Polled(c, "sent")
  /\ margin' = margin + 10
  /\ density' = DistrustDensity(density)
  /\ slots' = slots + 1 /\ Goes(c, "fatal")
  /\ UNCHANGED <<inflight, run, loop, page, call, answer, event, row, reserved, jsonOff,
                 window, store, due, bounds>>

\* cancellable_delay is over, or JSON mode was dropped: the next attempt.
NextAttempt(c) ==
  /\ Polled(c, "delay") \/ Polled(c, "again")
  /\ call' = [call EXCEPT ![c].attempt = @ + 1] /\ Goes(c, "slot")
  /\ UNCHANGED <<inflight, run, loop, page, answer, event, row, memory, slots, window, store,
                 due, bounds>>

\* understanding.rs node: an answer that fails its validation is forgotten and
\* the batch asked again; the input limit is not measured again.
AskAgain(c) ==
  /\ Polled(c, "error") \/ Polled(c, "done")
  /\ requests < MaxRequests /\ requests' = requests + 1
  /\ cache' = Restrict(cache, DOMAIN cache \ {call[c].prompt})
  /\ call' = [call EXCEPT ![c].attempt = 0] /\ Goes(c, "packed")
  /\ UNCHANGED <<inflight, run, loop, page, answer, event, row, memory, slots, window, saved,
                 journal, due, stops, faults, others>>

\* inflight.next() returns a batch; its event is the loop's own, and the other
\* futures stand still meanwhile.
Collect(c) ==
  /\ Polled(c, "done") /\ Head(inflight) = c /\ inflight' = Tail(inflight)
  /\ Goes(c, "idle") /\ loop' = "reporting" /\ Journal(Loop, reserved)
  /\ call' = [call EXCEPT ![c] = NoCall] /\ answer' = [answer EXCEPT ![c] = NoAnswer]
  /\ UNCHANGED <<run, page, row, memory, slots, window, saved, cache, due,
                 bounds>>

\* A batch that cannot be read ends the reading.
Fail(c) ==
  /\ Polled(c, "fatal") \/ Polled(c, "oversized") \/ Polled(c, "error")
  /\ DropAttempt
  /\ UNCHANGED <<window, store, due, bounds>>

-----------------------------------------------------------------------------
(* The attempt around the reading *)

\* A cancellation, the run's deadline, a shutdown, or an error of the database while
\* the cache is read or written or usage is recorded; a crash also loses the window,
\* which the process keeps.
StopAttempt ==
  /\ run = "working" /\ stops < MaxStops /\ stops' = stops + 1
  /\ DropAttempt /\ window' \in {window, <<>>}
  /\ UNCHANGED <<store, due, requests, faults, others>>

\* spawn_worker: an attempt starts from the budget checkpoint.
Resume ==
  /\ run = "stopped" /\ requests < MaxRequests
  /\ run' = "working"
  /\ reserved' = saved.tokens /\ margin' = saved.margin /\ density' = saved.density
  /\ UNCHANGED <<inflight, loop, page, pc, call, answer, event, row, jsonOff, slots, window,
                 store, due, bounds>>

\* Mutant: the journal, which knows no margin, replaces what the database has.
ReplayedVerbatim == [tokens |-> journal.tokens, margin |-> 0, density |-> NoDensity]

\* replay_one_journal, at start-up or by the supervisor while nothing runs.  It
\* looks for a margin in the journal too, where there is none.
Replayed == [tokens  |-> Max({saved.tokens, journal.tokens}),
             margin  |-> saved.margin,
             density |-> NoDensity]

ReplayJournal ==
  /\ run = "stopped" /\ journal # NoJournal
  /\ saved' = Replayed /\ journal' = NoJournal
  /\ UNCHANGED <<inflight, run, loop, page, pc, call, answer, event, row, memory, slots,
                 window, cache, due, bounds>>

\* The oldest admission is a minute old.
Expire ==
  /\ window # <<>> /\ window' = Tail(window)
  /\ UNCHANGED <<inflight, run, loop, page, pc, call, answer, event, row, memory, slots,
                 store, due, bounds>>

\* Another run, with limits of its own, is admitted to the shared window.
OtherRun ==
  /\ others < MaxOthers /\ others' = others + 1
  /\ window' = Append(window, Tpm)
  /\ UNCHANGED <<inflight, run, loop, page, pc, call, answer, event, row, memory, slots,
                 store, due, requests, stops, faults>>

Progress(c) ==
  \/ ServeCached(c) \/ Prepare(c) \/ AcquireSlot(c) \/ Admit(c) \/ Unaffordable(c)
  \/ Complete(c) \/ RecordUsage(c) \/ Learn(c) \/ NoteSpoiled(c) \/ KeepAnswer(c)
  \/ Garbled(c) \/ Unavailable(c) \/ Refused(c) \/ JsonModeRefused(c) \/ TooLong(c)
  \/ NextAttempt(c) \/ AskAgain(c) \/ Collect(c) \/ Fail(c)

Next ==
  \/ StopAttempt \/ Resume \/ ReplayJournal \/ Expire
  \/ OtherRun
  \/ \E c \in Calls : PushBatch(c) \/ Progress(c)
  \/ \E w \in Writers : LockRow(w) \/ CommitEvent(w) \/ EventFails(w) \/ GiveUp(w)

Spec == Init /\ [][Next]_vars

\* What the program, the provider and the clock do of themselves.
Advance ==
  \/ Expire
  \/ \E c \in Calls : Progress(c)
  \/ \E w \in Writers : LockRow(w) \/ CommitEvent(w) \/ (Blocked(w) /\ GiveUp(w))

-----------------------------------------------------------------------------
(* Properties *)

Stages == {"idle", "packed", "slot", "window", "charging", "sent", "accounted",
           "recording", "learning", "spoiled", "noting", "caching", "retrying",
           "json", "delay", "again", "hit", "done", "error", "fatal", "oversized"}

\* Whatever is lost with the process, the stored budget covers all the provider
\* may bill: a request is sent only after its reservation is on the database.
SpendingIsCharged == saved.tokens >= due

\* The run never owes more than its task allows, however often it is resumed.
SpendingIsBounded == due <= MaxTokens

\* Free permits and requests that hold one make up llm_slots: none is kept
\* through a retry's delay, an error or the end of the attempt.
PermitsConserved ==
  slots + Cardinality({c \in Calls : pc[c] \in Permitted}) = Slots

\* A reading that the provider cut short, emptied or dropped is never served
\* from the cache.
CachedIsWhole == \A p \in DOMAIN cache : cache[p] = "whole"

\* Once an event has stored a margin that the provider forced, it is never lost:
\* no later event, replayed journal or resumption goes below it, and no attempt
\* works with less.  (What was forced since the last event is lost with the process.)
StoredMarginGrows ==
  [][/\ saved'.margin >= saved.margin
     /\ run' = "working" => margin' >= saved'.margin]_vars

\* A request is found oversized only if the margin grew after it was packed, or
\* the settings left no room to pack anything or admit less than it a minute.
PackedPasses ==
  [][\A c \in Calls : pc[c] = "packed" /\ pc'[c] = "oversized" =>
       margin > call[c].page \/ call[c].packed = 0 \/ Reservation(c)' > Tpm]_vars

\* A request in one of these stages waits for nobody.
Unhindered == {"packed", "sent", "accounted", "learning", "spoiled", "caching", "delay",
               "again", "error", "fatal", "oversized"}

\* Something can go on that waits for no other request: a stage that needs
\* nothing, a permit or room in the window that is there or will be, the oldest
\* batch, a writer that has the row, may have it or gives up on it.
SomeoneReady ==
  \/ \E c \in Calls :
       \/ \E stage \in Unhindered : Polled(c, stage)
       \/ Polled(c, "slot") /\ slots > 0
       \/ Polled(c, "window") /\ (Fits(Reservation(c)) \/ window # <<>>)
       \/ Polled(c, "done") /\ Head(inflight) = c
  \/ \E w \in Writers :
       /\ run = "working" /\ (w \in Calls) = (loop = "polling")
       /\ event[w] = "locked" \/ (event[w] = "journalled" /\ (row = Nobody \/ Blocked(w)))

\* Requests, events, permits and the window never wait for each other in a
\* circle: while a request is open, something goes on of itself.
NothingIsStuck ==
  (\E c \in Calls : pc[c] # "idle") => SomeoneReady /\ ENABLED Advance
=============================================================================
