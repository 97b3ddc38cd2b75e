--------------------------- MODULE SectionWriting ---------------------------
(***************************************************************************)
(* The writing of one section, or the repair of a saved one                *)
(* (runner.rs, write_section; section_output.rs; markdown.rs).  A section  *)
(* is written in as many responses as it needs: the parts so far are kept  *)
(* in a checkpoint, every response in the cache, both under the request    *)
(* that led to them.  A draft that fails its checks is forgotten and       *)
(* repaired in the next attempt, a long one by returning only the          *)
(* subsections that change.  The attempt may be stopped at any await, by a *)
(* crash or an error that ends the run; a later run calls write_section    *)
(* with the same arguments and starts over from its first attempt.         *)
(*                                                                         *)
(* A text is a sequence of subsections, a subsection the sequence of the   *)
(* answers that wrote it, an answer the number of the provider's response. *)
(* A passage is cited by its id, which names what is left of it when it    *)
(* was shortened to fit a request.  What else a text says, and whether its *)
(* other checks pass, is left open.                                        *)
(***************************************************************************)
EXTENDS LeafOwnership, Sequences, SequencesExt, Functions

CONSTANTS
  Attempts,    \* write_section's attempts: 5
  MaxParts,    \* MAX_PARTS: 24
  Given,       \* lengths of a draft given for repair; 0 is none, a first writing
  Passages,    \* of the sources
  Cuts,        \* what may be left of one: 0 is the whole, more is less
  Found,       \* bound: how many passages an attempt may gather
  Cited,       \* bound: how many a response, or part of a given draft, may cite
  MaxStrays,   \* bound: responses that cite what they were not given
  MaxAnswers,  \* bound: responses of the provider
  MaxStops     \* bound: how often the attempt is stopped

ASSUME WritingAssumption ==
  /\ Attempts \in Nat \ {0} /\ MaxParts \in Nat \ {0}
  /\ Given \subseteq Nat /\ Cuts \subseteq Nat
  /\ Found \subseteq Nat \ {0} /\ Cited \subseteq Nat /\ MaxStrays \in Nat
  /\ MaxAnswers \in Nat /\ MaxStops \in Nat

VARIABLES
  order,       \* what the caller asked for: a draft given for repair
  stage,       \* where write_section is
  try, correction, last, evidence, drafted,   \* its locals
  input,       \* the request of this attempt, without its continuation
  progress,    \* section_output's Progress in memory
  cache,       \* llm_cache: the answer to a request
  stored,      \* checkpoints section_output:*: the Progress under an input
  result,      \* what write_section returned
  stops,
  answers,     \* history: what each answer was asked to continue, with what evidence,
               \* and what it cites
  rejected     \* history: texts thrown out

attempt == <<try, correction, last, evidence, drafted>>
store == <<cache, stored>>
history == <<answers, rejected>>
writing == <<stage, attempt, input, progress, store, result, stops, history>>
vars == <<memory, order, writing>>

None == [none |-> TRUE]
Anywhere == {}     \* repair_targets: an issue that cannot be placed
Plain == 0         \* text without a subsection marker

NoProgress == [blocks |-> <<>>, parts |-> 0, exact |-> FALSE]
Words(blocks) == FlattenSeq([i \in DOMAIN blocks |-> blocks[i].by])
Put(f, key, value) == [k \in DOMAIN f \cup {key} |-> IF k = key THEN value ELSE f[k]]
Forget(f, key) == Restrict(f, DOMAIN f \ {key})

\* repair_targets places issues in some subsections and, for a missing diagram,
\* in a new one; naming every subsection is no narrower than the whole draft.
Placements(draft) ==
  {Anywhere} \cup {T \in SUBSET (1 .. Len(draft) + 1) :
                     T # {} /\ ~ DOMAIN draft \subseteq T}

Ids == [passage : Passages, cut : Cuts]
Citations == {C \in SUBSET Ids : Cardinality(C) \in Cited}

\* A draft to be repaired; whether it is long enough to be split is left open.
Corrections(draft) ==
  [draft : {draft}, targets : {Anywhere}, long : {FALSE}, misformed : {FALSE}] \cup
  IF Len(draft) >= 2
  THEN [draft : {draft}, targets : Placements(draft), long : {TRUE}, misformed : {FALSE}]
  ELSE {}

-----------------------------------------------------------------------------
Init ==
  /\ MemoryInit
  /\ order = None /\ stage = "assign" /\ input = None /\ progress = NoProgress
  /\ try = 1 /\ correction = None /\ last = "none"
  /\ evidence = {} /\ drafted = None
  /\ cache = <<>> /\ stored = <<>> /\ result = None
  /\ stops = 0 /\ answers = <<>> /\ rejected = {}

\* Each section first asks for its leaves.  Only the last one's writing is
\* followed here, and its leaves are the same in every attempt.
AssignLeaves == stage = "assign" /\ MemoryNext /\ UNCHANGED <<order, writing>>

Called ==
  /\ stage = "assign" /\ asking \notin Sections /\ stage' = "begin"
  /\ reach' = [s \in Sections |-> {}] /\ score' = [s \in Sections |-> Nobody]
  /\ kept' = [s \in Sections |-> {}] /\ first' = Nobody /\ UNCHANGED <<asking, next, owner>>
  /\ \E n \in Given : \E cites \in [1 .. n -> Citations] :
       /\ answers' = [a \in 1 .. n |-> [after |-> <<>>, exact |-> FALSE,
                                        evidence |-> cites[a], cites |-> cites[a]]]
       /\ \E c \in IF n = 0 THEN {None} ELSE Corrections([a \in 1 .. n |-> <<a>>]) :
            order' = c /\ correction' = c
  /\ UNCHANGED <<try, last, evidence, drafted, input, progress, store, result, stops,
                 rejected>>

\* fit_evidence: what does not fit the request is shortened, and a shortened
\* passage has another id.  How much room there is depends on all else that the
\* request carries, and is left open.
Fitted(ev) ==
  {Range(f) : f \in {g \in [ev -> Ids] :
     \A id \in ev : g[id].passage = id.passage /\ g[id].cut >= id.cut}}

\* cites_only: the draft's citations all name passages of this evidence.
CitesOnly(draft, ev) ==
  \A i \in DOMAIN draft : \A a \in Range(draft[i]) : answers[a].cites \subseteq ev

\* Mutant: spliced although shortened evidence has other ids.
SplitAnyway(in) == in.correction # None /\ in.correction.long

\* The draft is shown split at its subsections, and only changed ones come back.
Split(in) ==
  /\ in.correction # None /\ in.correction.long
  /\ CitesOnly(in.correction.draft, in.evidence)

\* An attempt gathers passages, unless the one before left its own: those found,
\* some of them in excerpts, those planned and those a given draft cites.  Either
\* way they are fitted, and section_output::write goes on from the parts saved
\* under this very input.
BeginAttempt ==
  /\ stage = "begin" /\ try <= Attempts
  /\ IF evidence = {}
     THEN \E found \in SUBSET Ids : Cardinality(found) \in Found /\ evidence' \in Fitted(found)
     ELSE evidence' \in Fitted(evidence)
  /\ input' = [correction |-> correction, last |-> last, evidence |-> evidence']
  /\ progress' = IF input' \in DOMAIN stored THEN stored[input'] ELSE NoProgress
  /\ stage' = "ask"
  /\ UNCHANGED <<memory, order, try, correction, last, drafted, store, result, stops, history>>

\* Nothing was found and nothing is planned.
NoEvidence ==
  /\ stage = "begin" /\ try <= Attempts /\ evidence = {}
  /\ stage' = "ended" /\ result' = [kind |-> "failed"]
  /\ UNCHANGED <<memory, order, attempt, input, progress, store, stops, history>>

\* All attempts failed: a draft is handed out as it is, with what is unresolved.
GiveUp ==
  /\ stage = "begin" /\ try > Attempts
  /\ stage' = "ended"
  /\ result' = IF drafted = None THEN [kind |-> "failed"]
               ELSE [kind |-> "unresolved", text |-> drafted.text, evidence |-> drafted.evidence]
  /\ UNCHANGED <<memory, order, attempt, input, progress, store, stops, history>>

-----------------------------------------------------------------------------
(* section_output::write. *)

\* Mutant: the continuation is not part of the request.
RequestWithoutText == [input |-> input, blocks |-> <<>>, exact |-> FALSE]

Leave == input' = None /\ progress' = NoProgress   \* out of scope

\* The code shows the end of the text before it, its length and its headings.
Request == [input |-> input, blocks |-> progress.blocks, exact |-> progress.exact]
NewAnswer == Len(answers) + 1
Strays == {a \in DOMAIN answers : ~ answers[a].cites \subseteq answers[a].evidence}

\* A response may cite what it was not given: an id of the draft, or no id at all.
Recorded ==
  /\ NewAnswer <= MaxAnswers
  /\ \E cites \in Citations :
       /\ cites \subseteq input.evidence \/ Cardinality(Strays) < MaxStrays
       /\ answers' = Append(answers, [after |-> progress.blocks, exact |-> progress.exact,
                                      evidence |-> input.evidence, cites |-> cites])

\* Only in the repair of a split draft a marker means anything.  A hollow answer
\* adds no text: it repeats what there is, or is nothing but the control marker.
Marks == IF Split(input) THEN Plain .. Len(input.correction.draft) + 1 ELSE {Plain}
Hollow == [id |-> NewAnswer, mark |-> Plain, more |-> FALSE, hollow |-> TRUE]
NewAnswers ==
  {Hollow} \cup [id : {NewAnswer}, mark : Marks, more : BOOLEAN, hollow : {FALSE}]

\* Progress::append.  After a cutoff the text goes on where it stopped; so it
\* does, within a marked subsection, when the next part has no marker.
Joined(blocks, ans) ==
  IF blocks # <<>> /\ (progress.exact \/ (ans.mark = Plain /\ blocks[Len(blocks)].mark # Plain))
  THEN [blocks EXCEPT ![Len(blocks)].by = Append(@, ans.id)]
  ELSE Append(blocks, [mark |-> ans.mark, by |-> <<ans.id>>])

Receive(ans, cut) ==
  IF ans.hollow
  THEN stage' = "drop" /\ UNCHANGED progress
  ELSE /\ progress' = [blocks |-> Joined(progress.blocks, ans), parts |-> progress.parts + 1,
                       exact |-> cut /\ ~ ans.more]
       /\ stage' = IF (~ cut /\ ~ ans.more) \/ progress'.parts >= MaxParts
                   THEN "judge" ELSE "save"

Asking == stage = "ask" /\ UNCHANGED <<memory, order, stored, result, stops, rejected>>

\* A finished response is cached before it is returned.
ProviderAnswers ==
  /\ Asking /\ Request \notin DOMAIN cache /\ Recorded
  /\ \E ans \in NewAnswers : cache' = Put(cache, Request, ans)
  /\ UNCHANGED <<stage, attempt, input, progress>>

TakeAnswer ==
  /\ Asking /\ Request \in DOMAIN cache
  /\ Receive(cache[Request], FALSE)
  /\ UNCHANGED <<attempt, input, cache, answers>>

\* A response cut off at the output limit is used but never cached.
AnswerIsCutOff ==
  /\ Asking /\ Request \notin DOMAIN cache /\ Recorded
  /\ \E ans \in NewAnswers : Receive(ans, TRUE)
  /\ UNCHANGED <<attempt, input, cache>>

\* The attempt is over; repair_kind decides what the next one changes.
AttemptFails(error) ==
  /\ stage' = "begin" /\ try' = try + 1 /\ last' = error
  /\ evidence' = IF error = "CONTEXT_BUDGET" THEN {} ELSE evidence
  /\ UNCHANGED <<correction, drafted>> /\ Leave

\* A response cut off before any text, or any error worth another attempt.
RequestFails ==
  /\ Asking /\ Request \notin DOMAIN cache
  /\ \E error \in {"CONTEXT_BUDGET", "OUTPUT_TRUNCATED"} : AttemptFails(error)
  /\ UNCHANGED <<cache, answers>>

\* SECTION_NO_PROGRESS: exactly the request that led nowhere is forgotten.
DropAnswer ==
  /\ stage = "drop"
  /\ cache' = Forget(cache, Request)
  /\ AttemptFails("SECTION_NO_PROGRESS")
  /\ UNCHANGED <<memory, order, stored, result, stops, history>>

\* Every part but the last is saved; the last is left to its cached response.
SavePart ==
  /\ stage = "save" /\ stage' = "ask"
  /\ stored' = Put(stored, input, progress)
  /\ UNCHANGED <<memory, order, attempt, input, progress, cache, result, stops, history>>

-----------------------------------------------------------------------------
(* What write_section makes of the text. *)

Rewritten == [i \in DOMAIN progress.blocks |-> progress.blocks[i].by]

\* splice_subsections' refusals: text before the first marker, a subsection not
\* shown or not there, one returned twice; no marker where more than one was
\* shown, or in an answer much shorter than the draft.
Misformed(draft, targets, short) ==
  LET blocks == progress.blocks
      marked == {i \in DOMAIN blocks : blocks[i].mark # Plain}
      shown == IF targets = Anywhere THEN DOMAIN draft ELSE targets
  IN  IF marked = {}
      THEN IF targets = Anywhere THEN short ELSE Cardinality(targets) > 1
      ELSE \/ 1 \notin marked
           \/ \E i \in marked : blocks[i].mark \notin shown
           \/ \E i, j \in marked : i # j /\ blocks[i].mark = blocks[j].mark

Spliced(draft, targets) ==
  LET blocks == progress.blocks
      For(n) == {i \in DOMAIN blocks : blocks[i].mark = n}
      whole == Words(blocks)
      Sub(n, original) ==
        IF \A i \in DOMAIN blocks : blocks[i].mark = Plain
        THEN IF targets = {n} THEN whole ELSE original
        ELSE IF For(n) = {} THEN original ELSE blocks[CHOOSE i \in For(n) : TRUE].by
      old == [n \in DOMAIN draft |-> Sub(n, draft[n])]
      new == Sub(Len(draft) + 1, <<>>)
  IN  IF \A i \in DOMAIN blocks : blocks[i].mark = Plain /\ targets = Anywhere
      THEN Rewritten
      ELSE IF new = <<>> THEN old ELSE Append(old, new)

NewText == IF Split(input) THEN Spliced(input.correction.draft, input.correction.targets)
           ELSE Rewritten

Judging == stage = "judge" /\ UNCHANGED <<memory, order, store, stops, history>>

\* The next attempt gets the same draft, and the format error.
RefuseFormat ==
  /\ Judging /\ Split(input)
  /\ \E short \in BOOLEAN : Misformed(input.correction.draft, input.correction.targets, short)
  /\ correction' = [correction EXCEPT !.misformed = TRUE] /\ last' = "format"
  /\ stage' = "forget"
  /\ UNCHANGED <<try, evidence, drafted, input, progress, result>>

WellFormed ==
  Split(input) => ~ Misformed(input.correction.draft, input.correction.targets, FALSE)

\* section_issues finds nothing: every citation names a supplied passage.
Accept ==
  /\ Judging /\ WellFormed /\ CitesOnly(NewText, evidence)
  /\ stage' = "ended"
  /\ result' = [kind |-> "written", text |-> NewText, evidence |-> evidence]
  /\ Leave /\ UNCHANGED attempt

\* prepare_section_markdown fails, or section_issues finds something; only in
\* the second case is the text a section that could be handed out.
RefuseText ==
  /\ Judging /\ WellFormed
  /\ correction' \in Corrections(NewText) /\ last' = "issues"
  /\ drafted' \in {drafted, [text |-> NewText, evidence |-> evidence]}
  /\ stage' = "forget"
  /\ UNCHANGED <<try, evidence, input, progress, result>>

\* Mutant: the first request is forgotten, not the last one.
ForgetFirstAnswer ==
  /\ stage = "forget" /\ stage' = "erase"
  /\ cache' = Forget(cache, [input |-> input, blocks |-> <<>>, exact |-> FALSE])
  /\ rejected' = rejected \cup {Words(progress.blocks)}
  /\ UNCHANGED <<memory, order, attempt, input, progress, stored, result, stops, answers>>

\* section_output::forget: the request whose response came last is found from
\* the parts that are saved, then they go too.
ForgetAnswer ==
  /\ stage = "forget" /\ stage' = "erase"
  /\ LET p == IF input \in DOMAIN stored THEN stored[input] ELSE NoProgress
     IN  cache' = Forget(cache, [input |-> input, blocks |-> p.blocks, exact |-> p.exact])
  /\ rejected' = rejected \cup {Words(progress.blocks)}
  /\ UNCHANGED <<memory, order, attempt, input, progress, stored, result, stops, answers>>

ErasePart ==
  /\ stage = "erase" /\ stage' = "begin"
  /\ stored' = Forget(stored, input) /\ try' = try + 1 /\ Leave
  /\ UNCHANGED <<memory, order, correction, last, evidence, drafted, cache, result,
                 stops, history>>

\* Any await may fail for good, or the process die; then everything in memory is
\* lost and the section is asked for again as it was at first.
Stop ==
  /\ stage \notin {"assign", "begin", "ended"} /\ stops < MaxStops /\ stops' = stops + 1
  /\ stage' = "begin" /\ Leave
  /\ try' = 1 /\ correction' = order /\ last' = "none"
  /\ evidence' = {} /\ drafted' = None
  /\ UNCHANGED <<memory, order, store, result, history>>

\* maintenance.rs, cleanup: while no run is registered the cache is cut down from
\* its oldest responses; the parts in checkpoints stay.
TrimCache ==
  /\ stage = "begin" /\ stops > 0 /\ try = 1
  /\ \E oldest \in 1 .. Len(answers) :
       cache' = Restrict(cache, {q \in DOMAIN cache : cache[q].id > oldest})
  /\ UNCHANGED <<memory, order, stage, attempt, input, progress, stored, result, stops, history>>

Next ==
  \/ AssignLeaves \/ Called \/ BeginAttempt \/ NoEvidence \/ GiveUp
  \/ ProviderAnswers \/ TakeAnswer \/ AnswerIsCutOff \/ RequestFails \/ DropAnswer \/ SavePart
  \/ RefuseFormat \/ Accept \/ RefuseText \/ ForgetAnswer \/ ErasePart
  \/ Stop \/ TrimCache

Spec == Init /\ [][Next]_vars

-----------------------------------------------------------------------------
\* Each part of a text answers the request to continue just the text before it,
\* whatever was replayed from the cache or a checkpoint after a restart.
Told(blocks) ==
  LET words == Words(blocks)
  IN  \A k \in DOMAIN words : Words(answers[words[k]].after) = SubSeq(words, 1, k - 1)

\* Within a subsection an answer goes on where the one before it stopped, and
\* no answer is in a text twice.
OneTelling(text) ==
  /\ IsInjective(FlattenSeq(text))
  /\ \A i \in DOMAIN text : \A k \in DOMAIN text[i] :
       LET before == Words(answers[text[i][k]].after)
       IN  IsSuffix(SubSeq(text[i], 1, k - 1), before)

\* What an answer cites of the passages it was given is among these.
Grounded(text, ev) ==
  \A i \in DOMAIN text : \A a \in Range(text[i]) :
    answers[a].cites \cap answers[a].evidence \subseteq ev

\* What is kept while writing is told once; what is handed out is so too.  Whatever
\* was shortened or gathered anew between the repairs, each passage that a part of
\* it was given and cites, also a part kept from an earlier draft, is handed out
\* with it under that very id; if it passed its checks, all it cites is.
SectionIsSound ==
  /\ Told(progress.blocks)
  /\ \A in \in DOMAIN stored : Told(stored[in].blocks)
  /\ result # None /\ result.kind # "failed" =>
       /\ OneTelling(result.text) /\ Grounded(result.text, result.evidence)
       /\ result.kind = "written" => CitesOnly(result.text, result.evidence)

\* A text that was thrown out is never assembled again: not from the parts and
\* responses kept under its request, in no later attempt and after no restart.
RejectedStaysOut == stage = "judge" => Words(progress.blocks) \notin rejected
=============================================================================
