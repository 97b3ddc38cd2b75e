---------------------------- MODULE DocumentRun -----------------------------
(***************************************************************************)
(* A run's document over all its attempts (runner.rs): an attempt reads    *)
(* and plans as far as no outline is saved, writes every section that has  *)
(* no checkpoint, reviews the whole, repairs what the review flags, and    *)
(* publishes.  It may stop anywhere; what was in memory is lost, and a     *)
(* later attempt goes on from the checkpoints, perhaps with other limits   *)
(* or another model.  Between attempts the user edits or approves the      *)
(* outline (composition.rs).                                               *)
(*                                                                         *)
(* A text is a number: 0 a draft that is not saved, then one more with     *)
(* every rewriting saved under its key.  How attempts are started, stopped *)
(* and recorded is RunLifecycle's, how a document is saved Publication's.  *)
(***************************************************************************)
EXTENDS OutlinePlanning

CONSTANTS
  Iterations,  \* what task.max_iterations may be
  MaxStarts,   \* bound: attempts
  MaxEdits     \* bound: outlines edited by the user

ASSUME DocumentAssumption ==
  /\ Iterations \subseteq Nat \ {0} /\ Iterations # {} /\ IsFiniteSet(Iterations)
  /\ MaxStarts \in Nat /\ MaxEdits \in Nat

VARIABLES
  status,      \* runs.status, with "partial" a warned one that is incomplete
  iterations,  \* task.max_iterations of the snapshot
  saved,       \* checkpoints section:*, each key's text
  checks,      \* checkpoints review:*: what was flagged, and in which texts
  marks,       \* checkpoints repair:*:*
  version,     \* checkpoint document_validation_version is there
  startAt,     \* checkpoint review_start_iteration
  replanned,   \* checkpoint outline_after_draft
  work,        \* the attempt's own memory while it writes and reviews
  starts, edits,
  consent,     \* history: the plan the user looked at when approving
  excused      \* history: a stale review was kept, see SettledIsReviewed

drafts == <<saved, checks, marks, version>>
rounds == <<startAt, replanned>>
bounds == <<starts, edits>>
document == <<status, iterations, drafts, rounds, work, bounds, consent, excused>>
vars == <<attempt, reading, planning, document>>

NoWork == [at |-> 1, round |-> 0, texts |-> <<>>, changed |-> FALSE, warned |-> FALSE]

Section == DOMAIN outline.sections

\* section_key: the section's plan, its neighbours and all it depends on.
KeyOf(i) ==
  LET needs == {i} \cup outline.sections[i]
  IN  <<outline.names[i], {outline.names[j] : j \in {i - 1, i + 1} \cap Section},
        {outline.names[j] : j \in needs \cup UNION {outline.sections[j] : j \in needs}}>>

IsSaved(i) == KeyOf(i) \in DOMAIN saved
Saving(i, text) ==
  saved' = [k \in DOMAIN saved \cup {KeyOf(i)} |-> IF k = KeyOf(i) THEN text ELSE saved[k]]

-----------------------------------------------------------------------------
Init ==
  /\ ReadingInit /\ PlanningInit
  /\ status = "interrupted" /\ iterations = Max(Iterations)
  /\ saved = <<>> /\ checks = <<>> /\ marks = {} /\ version = FALSE
  /\ startAt = 0 /\ replanned = FALSE /\ work = NoWork
  /\ starts = 0 /\ edits = 0 /\ consent = 0 /\ excused = FALSE

\* What is saved decides where an attempt takes up the document.
PlanDocument ==
  IF outline # NoPlan THEN "writing" ELSE IF tree # NoTree THEN "read" ELSE "reading"

\* A first start or a resume, with the limits and the model of that moment.
\* A document complete but for its warnings needs a higher review limit.
\* Before the source is read the settings make no difference: not varied then.
Start ==
  /\ stage = "ended" /\ starts < MaxStarts /\ starts' = starts + 1
  /\ status # "completed"
  /\ iterations' \in Iterations /\ llm' \in {llm, 1}
  /\ tree = NoTree => iterations' = iterations /\ llm' = llm
  /\ status = "warned" => iterations' > iterations
  /\ excused' = (excused \/ (iterations' < iterations /\ (checks # <<>> \/ startAt > 0)))
  /\ Goto(PlanDocument)
  /\ status' = "running"
  /\ UNCHANGED <<reading, view, evidence, scope, book, answers, candidate, agreed, preview, try,
                 made, drafts, rounds, work, edits, consent>>

\* A changed text whose reviews were not yet discarded is forgotten as changed.
Forgetting == excused' = (excused \/ (stage = "writing" /\ work.changed))

End(as) ==
  /\ stage' = "ended" /\ failure' = "none"
  /\ read' = Fresh /\ try' = 1 /\ work' = NoWork
  /\ status' = as
  /\ gathered' = Nothing
  /\ UNCHANGED <<limit, shifts, nodes, leaves, tree, questions, evidence, scope, book, chapters,
                 parts, candidate, agreed, made, iterations, drafts, rounds, bounds, consent>>

\* The process dies, or the run is cancelled, at any point.
Stop ==
  /\ stage # "ended" /\ Erring /\ (stage = "reading" => errors < ReadingErrors)
  /\ End("interrupted") /\ Forgetting

\* What the worker makes of an error: as long as there is no outline the run
\* waits for the reading or the outline to go on; with one, it publishes the
\* sections that are saved.
FailedAs ==
  IF failure \in {"budget", "context", "exhausted"}
  THEN IF outline = NoPlan
       THEN IF tree # NoTree THEN "awaiting_outline" ELSE "awaiting_source"
       ELSE IF \E i \in Section : IsSaved(i) THEN "partial" ELSE "failed"
  ELSE IF failure = "outline" THEN "awaiting_outline" ELSE "failed"

WorkerFails == stage = "failing" /\ End(FailedAs) /\ UNCHANGED <<errors, excused>>

-----------------------------------------------------------------------------
(* write_sections. *)

At(i) == stage = "writing" /\ i = work.at /\ i \in Section

Took(text) == work' = [work EXCEPT !.at = @ + 1, !.texts = Append(@, text)]
Leaving == UNCHANGED <<reading, planning, status, iterations, rounds, bounds, consent>>

ReuseSection(i) ==
  /\ At(i) /\ IsSaved(i)
  /\ Took(saved[KeyOf(i)]) /\ Goto("writing")
  /\ Leaving /\ UNCHANGED <<drafts, excused>>

\* A saved section no longer validates (another version of the program).
RewriteSaved(i) ==
  /\ At(i) /\ IsSaved(i) /\ Erring
  /\ Saving(i, saved[KeyOf(i)] + 1)
  /\ work' = [work EXCEPT !.at = @ + 1, !.texts = Append(@, saved[KeyOf(i)] + 1), !.changed = TRUE]
  /\ Leaving /\ UNCHANGED <<stage, failure, checks, marks, version, excused>>

\* Reviews of a draft that was never saved are kept.
WriteSection(i) ==
  /\ At(i) /\ ~IsSaved(i)
  /\ Saving(i, 1) /\ Took(1) /\ Goto("writing")
  /\ excused' = (excused \/ checks # <<>>)
  /\ Leaving /\ UNCHANGED <<checks, marks, version>>

\* write_section gives up on a draft that will not settle: it is kept, unsaved.
KeepUnresolved(i) ==
  /\ At(i) /\ ~IsSaved(i) /\ Erring
  /\ work' = [work EXCEPT !.at = @ + 1, !.texts = Append(@, 0), !.warned = TRUE]
  /\ Leaving /\ UNCHANGED <<stage, failure, drafts, excused>>

\* Out of tokens or time, no draft at all or none that replaces a saved one, or an
\* error that no caller makes anything of.
WritingFails ==
  /\ stage \in {"writing", "checking", "repairing"}
  /\ Erring /\ stage' = "failing" /\ failure' \in {"budget", "context", "exhausted", "other"}
  /\ Forgetting
  /\ Leaving /\ UNCHANGED <<drafts, work>>

\* Mutant: reviews stand although a section was rewritten.
ResetForVersion == ~version

\* Reviews of other texts, or by other rules, are discarded.
ResetDue == ~version \/ work.changed

AllWritten ==
  /\ stage = "writing" /\ work.at > Len(outline.sections)
  /\ IF ResetDue THEN checks' = <<>> /\ marks' = {} /\ version' = TRUE
     ELSE UNCHANGED <<checks, marks, version>>
  /\ work' = [work EXCEPT !.at = 1, !.round = startAt, !.changed = FALSE]
  /\ Goto("checking")
  /\ Leaving /\ UNCHANGED <<saved, excused>>

-----------------------------------------------------------------------------
(* review_document. *)

\* A later review proves that this round is over.
Over(r) == r + 1 \in DOMAIN checks

SkipRound ==
  /\ stage = "checking" /\ work.round < iterations /\ Over(work.round)
  /\ work' = [work EXCEPT !.round = @ + 1]
  /\ Goto("checking")
  /\ Leaving /\ UNCHANGED <<drafts, excused>>

Unchecked == stage = "checking" /\ work.round < iterations
             /\ ~Over(work.round) /\ work.round \notin DOMAIN checks

\* Every section and then the whole; a review that fails flags what it was for.
ReviewDocument ==
  /\ Unchecked
  /\ \E flagged \in {{}, Section} \cup {{i} : i \in Section} :
       /\ IF flagged = {} THEN UNCHANGED errors ELSE Erring
       /\ checks' = [r \in DOMAIN checks \cup {work.round} |->
                       IF r # work.round THEN checks[r]
                       ELSE [flagged |-> flagged, of |-> work.texts, warned |-> work.warned]]
  /\ Leaving /\ UNCHANGED <<stage, failure, saved, marks, version, work, excused>>

\* review_coherence finds the outline itself wrong: once in a run the attempt
\* goes back to planning, and the rounds spent so far stay spent.
Replan ==
  /\ Unchecked /\ Erring /\ ~replanned /\ work.round + 1 < iterations
  /\ replanned' = TRUE /\ startAt' = work.round + 1
  /\ book' = [revision |-> outline.revision, round |-> 0]
  /\ outline' = NoPlan /\ candidate' = NoPlan /\ approved' = 0
  /\ version' = FALSE /\ checks' = <<>> /\ marks' = {}
  /\ work' = NoWork /\ stage' = "read" /\ UNCHANGED failure
  /\ UNCHANGED <<reading, questions, evidence, scope, answers, reviews, try, made,
                 status, iterations, saved, bounds, consent, excused>>

Checked == /\ stage = "checking" /\ work.round < iterations
           /\ ~Over(work.round) /\ work.round \in DOMAIN checks
Flagged == checks[work.round].flagged

LastRound == work.round + 1 >= iterations \/ work.warned

\* The document as it is, with what the last review left as warnings.
Publish(warned) ==
  /\ End(IF work.warned \/ warned THEN "warned" ELSE "completed")
  /\ UNCHANGED <<errors, excused>>

PublishReviewed == Checked /\ (Flagged = {} \/ LastRound) /\ Publish(Flagged # {})

\* No round is left at all.
PublishUnread == stage = "checking" /\ work.round >= iterations /\ Publish(FALSE)

StartRepairs ==
  /\ Checked /\ Flagged # {} /\ ~LastRound
  /\ work' = [work EXCEPT !.at = 1]
  /\ Goto("repairing")
  /\ Leaving /\ UNCHANGED <<drafts, excused>>

Repairing(i) == stage = "repairing" /\ i = work.at /\ i \in Section
Due(i) == i \in Flagged /\ <<work.round, i>> \notin marks

\* Mutant: the mark of a repair without the repaired section.
Forgotten(i) == saved' = saved

\* checkpoint_repair: the section and its mark are one statement.
Repaired(i) == Saving(i, saved[KeyOf(i)] + 1)

RepairSection(i) ==
  /\ Repairing(i) /\ Due(i)
  /\ Repaired(i) /\ marks' = marks \cup {<<work.round, i>>}
  /\ work' = [work EXCEPT !.at = @ + 1, !.texts[i] = saved[KeyOf(i)] + 1]
  /\ Goto("repairing")
  /\ Leaving /\ UNCHANGED <<checks, version, excused>>

RepairUnresolved(i) ==
  /\ Repairing(i) /\ Due(i) /\ Erring
  /\ work' = [work EXCEPT !.at = @ + 1, !.warned = TRUE]
  /\ Leaving /\ UNCHANGED <<stage, failure, drafts, excused>>

SkipRepair(i) ==
  /\ Repairing(i) /\ ~Due(i)
  /\ work' = [work EXCEPT !.at = @ + 1]
  /\ Goto("repairing")
  /\ Leaving /\ UNCHANGED <<drafts, excused>>

EndRound ==
  /\ stage = "repairing" /\ work.at > Len(outline.sections)
  /\ work' = [work EXCEPT !.at = 1, !.round = @ + 1]
  /\ Goto("checking")
  /\ Leaving /\ UNCHANGED <<drafts, excused>>

WritingStep ==
  \/ \E i \in Section : \/ ReuseSection(i) \/ RewriteSaved(i) \/ WriteSection(i)
                        \/ KeepUnresolved(i) \/ RepairSection(i)
                        \/ RepairUnresolved(i) \/ SkipRepair(i)
  \/ AllWritten \/ SkipRound \/ ReviewDocument \/ Replan \/ StartRepairs \/ EndRound
  \/ PublishReviewed \/ PublishUnread \/ WritingFails

-----------------------------------------------------------------------------
(* The user, between attempts. *)

Current == IF candidate # NoPlan THEN candidate ELSE outline

\* What an edit or feedback discards, in one transaction with the new state.
Discarding ==
  /\ outline' = NoPlan /\ approved' = 0
  /\ version' = FALSE /\ checks' = <<>> /\ marks' = {}

\* revise: a changed plan, or only feedback for another one, for a revision
\* the user looked at.  From then on the outline is not written unapproved.
Revise(seen) ==
  /\ stage = "ended" /\ edits < MaxEdits /\ edits' = edits + 1
  /\ Current # NoPlan /\ made[seen] = Current.revision
  /\ \/ LET changed == Len(Current.names)
            plan == [Current EXCEPT !.id = Len(made) + 1, !.revision = @ + 1, !.cites = evidence,
                                    !.names[changed] = <<Len(made) + 1, changed>>]
        IN  /\ candidate' = plan /\ made' = Append(made, plan.revision)
            /\ book' = [revision |-> plan.revision, round |-> 0]
     \/ /\ candidate' = NoPlan /\ UNCHANGED made
        /\ book' = [revision |-> Current.revision, round |-> 0]
  /\ Discarding /\ preview' = TRUE /\ status' = "awaiting_outline"
  /\ UNCHANGED <<attempt, reading, view, llm, evidence, scope, answers, reviews, try, iterations,
                 saved, rounds, work, starts, consent, excused>>

\* continue_outline: the pending plan, of the revision the user looked at.
Approve(seen) ==
  /\ stage = "ended" /\ status = "awaiting_outline"
  /\ candidate # NoPlan /\ made[seen] = candidate.revision
  /\ Reviewed /\ ~ReviewOf.major
  /\ approved' = candidate.revision /\ consent' = seen
  /\ UNCHANGED <<attempt, reading, questions, evidence, scope, book, answers, candidate, reviews,
                 outline, try, made, status, iterations, drafts, rounds, work, bounds, excused>>

Next ==
  \/ Start \/ Stop \/ WorkerFails
  \/ ReadingStep /\ UNCHANGED <<planning, document>>
  \/ PlanningStep /\ UNCHANGED document
  \/ WritingStep
  \/ \E seen \in DOMAIN made : Revise(seen) \/ Approve(seen)

Spec == Init /\ [][Next]_vars

-----------------------------------------------------------------------------
\* What is written was agreed on: the outline is the very plan its review
\* judged, found without a major problem and without a branch nobody gave a
\* place, and, if the task asks for it, the plan the user looked at when
\* approving: however plans were corrected, edited and sent back, an approval
\* is never taken for another plan that has the revision the user named.
OutlineWasAgreed ==
  outline # NoPlan =>
    /\ outline.revision \in DOMAIN reviews
    /\ reviews[outline.revision].id = outline.id
    /\ ~reviews[outline.revision].major
    /\ outline.loose => reviews[outline.revision].named
    /\ preview => approved = outline.revision /\ consent = outline.id

\* A document without warnings is the one its last review saw, and that review
\* found nothing: whatever was repaired, rewritten or repeated in between.
\* Three histories the code does not account for are excused: the review limit
\* was lowered, a section that had been reviewed as an unsaved draft was written
\* anew, or an attempt ended between rewriting a saved section and discarding
\* its reviews.
SettledIsReviewed ==
  (status = "completed" /\ ~excused) =>
    /\ checks # <<>>
    /\ LET last == checks[Max(DOMAIN checks)]
       IN  /\ last.flagged = {}
           /\ \A i \in Section : IsSaved(i) /\ saved[KeyOf(i)] = last.of[i]

\* A repair is marked only with its section saved, and a later round is begun
\* only with all of them marked, or with the warning that one was given up.
RepairsAreKept ==
  /\ \A mark \in marks :
       mark[1] \in DOMAIN checks /\ saved[KeyOf(mark[2])] > checks[mark[1]].of[mark[2]]
  /\ \A r \in DOMAIN checks :
       Over(r) /\ ~checks[r + 1].warned => \A i \in checks[r].flagged : <<r, i>> \in marks

\* Every passage a settled outline cites can be read when its sections are
\* written, as long as the model's settings are those it was planned with.
OutlineIsGrounded ==
  (outline # NoPlan /\ \A l \in {0, 1} : <<"read", l>> \in outline.cites => scope = {l}) =>
    outline.cites \subseteq evidence
=============================================================================
