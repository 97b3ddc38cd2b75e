-------------------------- MODULE OutlinePlanning ---------------------------
(***************************************************************************)
(* From the reading tree to an outline agreed on: purpose.rs analyze and   *)
(* planning.rs.  The planner is shown one level of the tree as branches; a *)
(* wide source is first divided into chapters, each planned in batches of  *)
(* branches and joined.  A candidate is reviewed, corrected a few times    *)
(* and, when the task says so, waits for the user's approval.              *)
(*                                                                         *)
(* A model's answer is what decides the control: whether it is valid, how  *)
(* a division names groups and branches, how many sections a part gets and *)
(* which come before which, whether a branch is left without a place.      *)
(***************************************************************************)
EXTENDS SourceReading, FiniteSetsExt, TLC

CONSTANTS
  LeastBranches,    \* branch_target is at least this (8)
  MostBranches,     \* BRANCHES_MAX (256)
  ChapterBranches,  \* CHAPTER_BRANCHES (16): branches of one planning request
  MaxChapters,      \* MAX_CHAPTERS (16)
  LeastSections,    \* SECTIONS_WITHOUT_BRANCHES (32)
  MostSections,     \* SECTIONS_MAX (256)
  Drafts,           \* the divisions into chapters a model may answer
  MaxRounds         \* corrections of an outline (2)

ASSUME PlanningAssumption ==
  /\ LeastBranches \in Nat \ {0} /\ MostBranches \in Nat /\ LeastBranches <= MostBranches
  /\ ChapterBranches \in Nat \ {0} /\ MaxChapters \in Nat \ {0}
  /\ LeastSections \in Nat \ {0} /\ MostSections \in Nat /\ LeastSections <= MostSections
  \* The widest view can be divided: 768 <= 4096 with the program's numbers.
  /\ 2 * MostBranches + ChapterBranches * MaxChapters <= ChapterBranches * MostSections
  /\ \A d \in Drafts : /\ d.chapters \in Seq(SUBSET ({"B", "G"} \X Nat))
                      /\ d.excluded \subseteq {"B", "G"} \X Nat
  /\ MaxRounds \in Nat

VARIABLES
  view,       \* the branches and groups the planner is shown
  llm,        \* which settings of the model the run's snapshot has
  evidence,   \* checkpoint source_understanding: the passages it holds
  scope,      \* checkpoint source_understanding_scope
  book,       \* checkpoint outline_state: revision and round
  chapters,   \* checkpoint outline_chapters:{revision}
  parts,      \* checkpoints outline_chapter:{revision}:*, in order
  gathered,   \* memory of plan_in_chapters: the batches done and their sections
  candidate,  \* checkpoint outline_candidate
  reviews,    \* checkpoints outline_review:{revision}
  approved,   \* checkpoint outline_approved, 0 if there is none
  outline,    \* checkpoint outline
  preview,    \* task.preview_outline
  try,        \* which answer to the present question this is
  made        \* history: the revision of each plan there ever was, in order

planning == <<view, llm, evidence, scope, book, chapters, parts, gathered, candidate, reviews,
              approved, outline, preview, try, made>>
questions == <<view, llm, preview>>
answers == <<chapters, parts, gathered>>
agreed == <<reviews, approved, outline>>

NoView == [n |-> 0, groups |-> <<>>]
NoPlan == [id |-> 0, sections |-> <<>>, names |-> <<>>]
NoChapters == [revision |-> 0]
Nothing == [done |-> 0, sections |-> <<>>, loose |-> FALSE]

-----------------------------------------------------------------------------
(* What the planner is shown. *)

Target(n) == Max({LeastBranches, Min({n \div 4, MostBranches})})

Gap(a, b) == IF a > b THEN a - b ELSE 0

\* closer_level: the next level is the better description.
CloserLevel(here, next, target) == next <= target \/ next - target <= Gap(target, here)

BranchLevel(levels, target) ==
  CHOOSE c \in DOMAIN levels :
    LET goes(k) == /\ k < Len(levels) /\ Len(levels[k]) < target
                   /\ CloserLevel(Len(levels[k]), Len(levels[k + 1]), target)
    IN  /\ ~goes(c)
        /\ \A k \in 1..c - 1 : goes(k)

\* branch_groups: by the deepest level above that is narrow enough, else by
\* runs of eight.
BranchGroups(levels, chosen) ==
  LET branches == levels[chosen]
      above    == {k \in 1..chosen - 1 : Len(levels[k]) \in 2..MaxChapters}
      under(node) == {b \in DOMAIN branches :
                        Range(LeavesUnder(<<branches[b]>>)) \subseteq Range(LeavesUnder(<<node>>))}
  IN  IF above = {}
      THEN [g \in 1..(Len(branches) + 7) \div 8 |->
              {b \in DOMAIN branches : (b - 1) \div 8 = g - 1}]
      ELSE [g \in DOMAIN levels[Max(above)] |-> under(levels[Max(above)][g])]

\* Fewer than two nodes are no branches at all.
View(root) ==
  LET levels == Levels(root)
      chosen == BranchLevel(levels, Target(Len(LeavesUnder(<<root>>))))
  IN  IF Len(levels[chosen]) < 2 THEN NoView
      ELSE [n |-> Len(levels[chosen]), groups |-> BranchGroups(levels, chosen)]

Branches == 1..view.n
ChaptersNeeded == view.n > ChapterBranches /\ view.groups # <<>>

\* section_ceiling: more sections for a wide source, and no fewer for a small one.
SectionCeiling == Max({LeastSections, Min({3 * view.n, MostSections})})

-----------------------------------------------------------------------------
(* decode_chapters: one place for every branch. *)

Labels == {<<"B", b>> : b \in Branches} \cup {<<"G", g>> : g \in DOMAIN view.groups}
ByName(d, b) == {c \in DOMAIN d.chapters : <<"B", b>> \in d.chapters[c]}
ByGroup(d, g) == {c \in DOMAIN d.chapters : <<"G", g>> \in d.chapters[c]}
GroupsOf(b) == {g \in DOMAIN view.groups : b \in view.groups[g]}
Excluded(d, b) ==
  <<"B", b>> \in d.excluded \/ \E g \in GroupsOf(b) : <<"G", g>> \in d.excluded

\* Mutant: a branch one chapter names stays with its group in another.
OwnersByEither(d, b) == ByName(d, b) \cup UNION {ByGroup(d, g) : g \in GroupsOf(b)}

\* A branch named by itself wins over an exclusion, which wins over a group.
Owners(d, b) ==
  IF ByName(d, b) # {} THEN ByName(d, b)
  ELSE IF Excluded(d, b) THEN {}
  ELSE UNION {ByGroup(d, g) : g \in GroupsOf(b)}

\* What a division must satisfy, besides its wording.
Decodes(d) ==
  /\ Len(d.chapters) \in 1..MaxChapters
  /\ UNION Range(d.chapters) \cup d.excluded \subseteq Labels
  /\ \A b \in Branches : /\ Cardinality(ByName(d, b)) <= 1
                         /\ ByName(d, b) # {} => <<"B", b>> \notin d.excluded
  /\ \A g \in DOMAIN view.groups : /\ Cardinality(ByGroup(d, g)) <= 1
                                   /\ ByGroup(d, g) # {} => <<"G", g>> \notin d.excluded
  /\ \A b \in Branches : Owners(d, b) # {} \/ Excluded(d, b)
  /\ \A c \in DOMAIN d.chapters : \E b \in Branches : c \in Owners(d, b)

Members(d, c) == {b \in Branches : c \in Owners(d, b)}

Decoded(d) ==
  [revision |-> book.revision + 1,
   members  |-> [c \in DOMAIN d.chapters |-> Members(d, c)],
   excluded |-> {b \in Branches : Excluded(d, b) /\ Owners(d, b) = {}}]

-----------------------------------------------------------------------------
(* chapter_batches, chapter_shares: the requests of a division. *)

\* A chapter's branches in reading order, in runs of one request each.
Runs(members) ==
  [k \in 1..(Cardinality(members) + ChapterBranches - 1) \div ChapterBranches |->
     {b \in members : Cardinality({a \in members : a < b}) \div ChapterBranches = k - 1}]

Batches == FlattenSeq([c \in DOMAIN chapters.members |-> Runs(chapters.members[c])])

\* A share of s sections is s slots.
Slots(shares) == UNION {{i} \X (1..shares[i]) : i \in DOMAIN shares}
Total(shares) == Cardinality(Slots(shares))

\* As long as there are too many, the largest share, the last of several, gives
\* one back.
Lowered(total, shares) ==
  LET most == {i \in DOMAIN shares : /\ shares[i] > 1
                                     /\ \A j \in DOMAIN shares : shares[j] <= shares[i]}
  IN  IF Total(shares) <= total \/ most = {} THEN shares
      ELSE [shares EXCEPT ![Max(most)] = @ - 1]

\* chapter_shares: by weight, at least one each, lowered until they fit.
Shares(total, weights) ==
  LET first == [i \in DOMAIN weights |->
                  Max({1, (total * weights[i]) \div Max({1, Total(weights)})})]
      after[n \in 0..Total(first)] ==
        IF n = 0 THEN first ELSE Lowered(total, after[n - 1])
  IN  after[Total(first)]

SharesNow ==
  LET batches == Batches
  IN  Shares(SectionCeiling, [i \in DOMAIN batches |-> Cardinality(batches[i])])

\* What a plan of some branches may look like: its sections, each with the
\* earlier sections it depends on.
Sections(most) == {<<{}>>} \cup (IF most >= 2 THEN {<<{}, {1}>>} ELSE {})

\* Mutant: a part's prerequisites are taken for the document's first sections.
JoinedInPlace(earlier, part) == earlier \o part

\* plan_in_chapters: a part's prerequisites move with its sections.
Joined(earlier, part) ==
  earlier \o [i \in DOMAIN part |-> {d + Len(earlier) : d \in part[i]}]

With(part) == [done     |-> gathered.done + 1,
               sections |-> Joined(gathered.sections, part.sections),
               loose    |-> gathered.loose \/ part.loose]

\* validate_outline, of what the model keeps: the number and the order.
Validates(sections) ==
  /\ Len(sections) \in 1..SectionCeiling
  /\ \A i \in DOMAIN sections : sections[i] \subseteq 1..i - 1

-----------------------------------------------------------------------------
PlanningInit ==
  /\ view = NoView /\ llm = 0 /\ evidence = {} /\ scope = {}
  /\ book = [revision |-> 0, round |-> 0]
  /\ chapters = NoChapters /\ parts = <<>> /\ gathered = Nothing
  /\ candidate = NoPlan /\ outline = NoPlan /\ reviews = <<>> /\ approved = 0
  /\ preview \in BOOLEAN /\ try = 1 /\ made = <<>>

\* A useless answer is asked for again, a few times.
AskAgain(question) ==
  /\ Erring
  /\ IF try < Tries THEN try' = try + 1 /\ UNCHANGED <<stage, failure>>
     ELSE try' = 1 /\ stage' = "failing" /\ failure' = question

\* Out of tokens or time, wherever a model is asked.
OutOfBudget ==
  /\ stage \in {"read", "outlining", "dividing", "batches", "reviewing"}
  /\ Erring /\ stage' = "failing" /\ failure' = "budget" /\ try' = 1
  /\ UNCHANGED <<view, llm, evidence, scope, book>>
  /\ UNCHANGED <<answers, candidate, agreed, preview, made>>

\* Mutant: every attempt reads for the purpose anew.
NeverKept == FALSE

\* The saved reading was made with the settings the run has now.
KeptReading == scope = {llm}

\* purpose::analyze: the reading for the task's purpose is kept for as long as
\* the source and the settings of the model are the same; it always comes to a
\* result, with what was already observed if no answer is valid.  From here on
\* only the branches of the tree are needed.
ReadPurpose ==
  /\ stage = "read"
  /\ view' = IF tree = Stored THEN view ELSE View(tree)
  /\ tree' = Stored /\ leaves' = <<>>
  /\ IF KeptReading THEN UNCHANGED <<evidence, scope>>
     ELSE evidence' = {<<"read", llm>>} /\ scope' = {llm}
  /\ Goto("outlining")
  /\ UNCHANGED <<limit, shifts, read, nodes, llm, book>>
  /\ UNCHANGED <<answers, candidate, agreed, preview, try, made>>

\* The next plan's revision: a pending candidate keeps its own.
Revision == book.revision + 1

Plan(secs, loose) ==
  [id |-> Len(made) + 1, revision |-> Revision, sections |-> secs,
   names |-> [i \in DOMAIN secs |-> <<Len(made) + 1, i>>],
   loose |-> loose, cites |-> evidence]

\* The candidate and the number that identifies it are stored together.
Store(plan) ==
  /\ candidate' = plan /\ made' = Append(made, plan.revision)
  /\ book' = [book EXCEPT !.revision = plan.revision]
  /\ stage' = "reviewing" /\ UNCHANGED failure

TakePending ==
  /\ stage = "outlining" /\ candidate # NoPlan
  /\ Goto("reviewing")
  /\ UNCHANGED planning

PlanWhole ==
  /\ stage = "outlining" /\ candidate = NoPlan /\ ~ChaptersNeeded
  /\ \/ /\ \E secs \in Sections(SectionCeiling), loose \in {FALSE, view.n > 0} :
             /\ Store(Plan(secs, loose))
             /\ IF loose THEN Erring ELSE UNCHANGED errors
        /\ try' = 1
     \/ AskAgain("outline") /\ UNCHANGED <<candidate, made, book>>
  /\ UNCHANGED <<questions, evidence, scope, answers, agreed>>

StartChapters ==
  /\ stage = "outlining" /\ candidate = NoPlan /\ ChaptersNeeded
  /\ Goto(IF chapters.revision = Revision THEN "batches" ELSE "dividing")
  /\ UNCHANGED planning

DivideChapters ==
  /\ stage = "dividing"
  /\ \E d \in Drafts :
       IF Decodes(d)
       THEN chapters' = Decoded(d) /\ parts' = <<>> /\ try' = 1 /\ Goto("batches")
            /\ UNCHANGED gathered
       ELSE AskAgain("outline") /\ UNCHANGED answers
  /\ UNCHANGED <<questions, evidence, scope, book, candidate, agreed, made>>

\* An earlier attempt has planned this batch.
ReusePart ==
  /\ stage = "batches" /\ gathered.done < Len(parts)
  /\ gathered' = With(parts[gathered.done + 1])
  /\ Goto("batches")
  /\ UNCHANGED <<questions, evidence, scope, book, chapters, parts, candidate, agreed, try, made>>

\* plan_chapter: one batch, saved before the next is asked for.
PlanPart ==
  /\ stage = "batches" /\ gathered.done = Len(parts) /\ Len(parts) < Len(Batches)
  /\ \/ /\ \E secs \in Sections(SharesNow[Len(parts) + 1]), loose \in BOOLEAN :
             LET part == [sections |-> secs, loose |-> loose]
             IN  /\ parts' = Append(parts, part) /\ gathered' = With(part)
                 /\ IF loose THEN Erring ELSE UNCHANGED errors
        /\ try' = 1 /\ UNCHANGED <<stage, failure>>
     \/ AskAgain("outline") /\ UNCHANGED <<parts, gathered>>
  /\ UNCHANGED <<questions, evidence, scope, book, chapters, candidate, agreed, made>>

AllGathered == stage = "batches" /\ gathered.done = Len(Batches)

JoinParts ==
  /\ AllGathered /\ Validates(gathered.sections)
  /\ Store(Plan(gathered.sections, gathered.loose))
  /\ chapters' = NoChapters /\ parts' = <<>> /\ gathered' = Nothing
  /\ UNCHANGED <<errors, questions, evidence, scope, agreed, try>>

\* The joined plan is validated as a whole, its wording too; its parts are not
\* asked for again.
JoinRefused ==
  /\ AllGathered
  /\ IF Validates(gathered.sections) THEN Erring ELSE UNCHANGED errors
  /\ stage' = "failing" /\ failure' = "outline"
  /\ UNCHANGED planning

\* Only the review under the plan's own revision is looked for; earlier ones
\* are never read again.
Reviewed == candidate.revision \in DOMAIN reviews
ReviewOf == reviews[candidate.revision]
Recorded(review) == [v \in {candidate.revision} |-> review]

\* review_outline: what the model finds is saved as it is.  A finding that
\* names the branch without a place has judged it.
ReviewOutline ==
  /\ stage = "reviewing" /\ ~Reviewed
  /\ \/ /\ \E major \in BOOLEAN, named \in {FALSE, candidate.loose} :
             /\ reviews' = Recorded([id |-> candidate.id, major |-> major, named |-> named])
             /\ IF major THEN Erring ELSE UNCHANGED errors
        /\ try' = 1 /\ UNCHANGED <<stage, failure>>
     \/ AskAgain("outline") /\ UNCHANGED reviews
  /\ UNCHANGED <<questions, evidence, scope, book, answers>>
  /\ UNCHANGED <<candidate, approved, outline, made>>

\* What the review must have and may not say: a branch without a place.
Addition == candidate.loose /\ ~ReviewOf.named /\ ~ReviewOf.major

AddFindings ==
  /\ stage = "reviewing" /\ Reviewed /\ Addition
  /\ reviews' = Recorded([ReviewOf EXCEPT !.major = TRUE])
  /\ Goto("reviewing")
  /\ UNCHANGED <<questions, evidence, scope, book, answers>>
  /\ UNCHANGED <<candidate, approved, outline, try, made>>

Judged == stage = "reviewing" /\ Reviewed /\ ~Addition

\* Mutant: any approval will do.
ApprovedOnce == approved # 0

\* The approval names the plan's own revision.
ApprovedNow == approved = candidate.revision

SettleOutline ==
  /\ Judged /\ ~ReviewOf.major /\ (preview => ApprovedNow)
  /\ outline' = candidate
  /\ Goto("writing")
  /\ UNCHANGED <<questions, evidence, scope, book, answers>>
  /\ UNCHANGED <<candidate, reviews, approved, try, made>>

AwaitApproval ==
  /\ Judged /\ ~ReviewOf.major /\ preview /\ ~ApprovedNow
  /\ Fail("outline")
  /\ UNCHANGED planning

GiveUpOutline ==
  /\ Judged /\ ReviewOf.major /\ book.round >= MaxRounds
  /\ Fail("outline")
  /\ UNCHANGED planning

\* The corrections' passages, the round and the end of the candidate are one
\* transaction.
CorrectOutline ==
  /\ Judged /\ ReviewOf.major /\ book.round < MaxRounds
  /\ \E more \in BOOLEAN : evidence' = IF more THEN evidence \cup {<<"query", 0>>} ELSE evidence
  /\ book' = [book EXCEPT !.round = @ + 1]
  /\ candidate' = NoPlan
  /\ Goto("outlining")
  /\ UNCHANGED <<questions, scope, answers, agreed, try, made>>

PlanningStep ==
  \/ ReadPurpose
  \/ /\ \/ OutOfBudget \/ TakePending \/ PlanWhole \/ StartChapters \/ DivideChapters
        \/ ReusePart \/ PlanPart \/ JoinParts \/ JoinRefused \/ ReviewOutline \/ AddFindings
        \/ SettleOutline \/ AwaitApproval \/ GiveUpOutline \/ CorrectOutline
     /\ UNCHANGED reading

-----------------------------------------------------------------------------
\* Every branch is planned in exactly one request of one chapter or left out
\* for a reason, however groups, names and exclusions overlap in the answer;
\* no chapter is empty, and the requests together may not ask for more sections
\* than the document may have, nor any for none (chapter_shares).
EveryBranchHasAPlace ==
  chapters # NoChapters =>
    LET batches == Batches
        shares  == SharesNow
    IN  /\ \A b \in Branches :
             Cardinality({i \in DOMAIN batches : b \in batches[i]}) =
               IF b \in chapters.excluded THEN 0 ELSE 1
        /\ \A i \in DOMAIN batches : Cardinality(batches[i]) \in 1..ChapterBranches
        /\ \A c \in DOMAIN chapters.members : chapters.members[c] # {}
        /\ DOMAIN shares = DOMAIN batches
        /\ Total(shares) <= SectionCeiling /\ \A i \in DOMAIN shares : shares[i] > 0

\* Whatever parts are joined, in one attempt or in several, partly planned and
\* partly read back: before the joined outline is validated, every section's
\* prerequisites come before it, in its own part.
JoinedIsOrdered ==
  /\ gathered.sections \in Seq(SUBSET Nat)
  /\ \A i \in DOMAIN gathered.sections : gathered.sections[i] \subseteq {i - 1} \ {0}
=============================================================================
