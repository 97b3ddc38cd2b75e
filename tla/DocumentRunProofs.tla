------------------------- MODULE DocumentRunProofs --------------------------
(* Machine-checked proofs about DocumentRun, for every source, every         *)
(* division a model may answer and every value of the bounds: the outline    *)
(* that is written is the plan that was reviewed and, if need be, approved;  *)
(* what it cites can be read; parts planned separately join into one ordered *)
(* outline; a round of repairs is over only with all of them; what is        *)
(* published without a warning is what the last review saw; and the reading  *)
(* tree holds the whole source at every level.                               *)
EXTENDS DocumentRun, DataLemmas

USE DEF attempt, reading, planning, questions, answers, agreed, drafts, rounds,
        bounds, document

BeforeWriting == {"reading", "read", "outlining", "dividing", "batches", "reviewing"}
Drafting == {"writing", "checking", "repairing"}

\* Plans are numbered in the order they were made, and no two have a revision
\* in common; nothing was reviewed or approved that has not been made.
PlansNumbered ==
  /\ made \in Seq(Nat) /\ book \in [revision : Nat, round : Nat] /\ approved \in Nat
  /\ approved <= book.revision
  /\ \A i \in DOMAIN made : made[i] <= book.revision
  /\ \A i, j \in DOMAIN made : i < j => made[i] < made[j]
  /\ \A v \in DOMAIN reviews : v \in Nat /\ v <= book.revision

\* The pending plan is the newest; its review and its approval are its own.
CandidateKnown ==
  candidate # NoPlan =>
    /\ {"id", "revision", "cites"} \subseteq DOMAIN candidate
    /\ candidate.id \in DOMAIN made /\ made[candidate.id] = candidate.revision
    /\ candidate.revision = book.revision /\ candidate.revision # 0
    /\ candidate.revision \in DOMAIN reviews =>
         /\ "id" \in DOMAIN reviews[candidate.revision]
         /\ reviews[candidate.revision].id = candidate.id
    /\ approved = candidate.revision => consent = candidate.id

\* An outline is the pending plan, kept; planning begins without one.
OutlineKept ==
  /\ outline # NoPlan => outline = candidate
  /\ stage \in BeforeWriting => outline = NoPlan
  /\ stage = "reviewing" => candidate # NoPlan
  /\ stage \in Drafting => outline # NoPlan

AgreedInv == PlansNumbered /\ CandidateKnown /\ OutlineKept /\ OutlineWasAgreed

plans == <<made, book, approved, reviews, candidate, outline, preview, consent>>

LEMMA AgreedInit == Init => AgreedInv
BY DEF Init, ReadingInit, PlanningInit, AgreedInv, PlansNumbered, CandidateKnown, OutlineKept,
       OutlineWasAgreed, BeforeWriting, Drafting

\* Steps that leave all plans as they are.
LEMMA PlansKept ==
  ASSUME AgreedInv, UNCHANGED plans,
         \/ stage' = stage \/ stage' \in {"ended", "failing"}
         \/ stage \in BeforeWriting /\ stage' \in BeforeWriting \ {"reviewing"}
         \/ stage \in Drafting /\ stage' \in Drafting
         \/ stage' \in Drafting /\ outline # NoPlan
         \/ stage' \in BeforeWriting \ {"reviewing"} /\ outline = NoPlan
         \/ stage' = "reviewing" /\ outline = NoPlan /\ candidate # NoPlan
  PROVE  AgreedInv'
<1>1. PlansNumbered' /\ CandidateKnown' /\ OutlineWasAgreed'
  BY DEF plans, AgreedInv, PlansNumbered, CandidateKnown, OutlineWasAgreed
<1>2. OutlineKept'
  BY DEF plans, AgreedInv, OutlineKept, BeforeWriting, Drafting
<1>3. QED  BY <1>1, <1>2 DEF AgreedInv

\* A plan that is made is newer than every other, so nothing said of those
\* is taken for a word about it.
LEMMA PlanMade ==
  ASSUME AgreedInv, NEW plan, {"id", "revision", "cites"} \subseteq DOMAIN plan,
         plan.id = Len(made) + 1, plan.revision = book.revision + 1,
         candidate' = plan, made' = Append(made, plan.revision),
         book' \in [revision : Nat, round : Nat], book'.revision = plan.revision,
         reviews' = reviews, approved' \in {approved, 0}, outline' = NoPlan,
         stage' \in {"reviewing", "ended"}
  PROVE  AgreedInv'
<1>1. /\ made \in Seq(Nat) /\ book.revision \in Nat /\ approved \in Nat
      /\ approved <= book.revision /\ plan.revision \in Nat
      /\ plan.revision = book.revision + 1
  BY DEF AgreedInv, PlansNumbered
<1>2. /\ made' \in Seq(Nat) /\ DOMAIN made' = DOMAIN made \cup {Len(made) + 1}
      /\ made'[Len(made) + 1] = plan.revision
      /\ \A i \in DOMAIN made : made'[i] = made[i] /\ i < Len(made) + 1 /\ i \in Nat
  BY <1>1
<1>3. \A i \in DOMAIN made : made[i] \in Nat /\ made[i] <= book.revision
  BY <1>1 DEF AgreedInv, PlansNumbered
<1>4. PlansNumbered'
  <2>1. \A i, j \in DOMAIN made' : i < j => made'[i] < made'[j]
    BY <1>1, <1>2, <1>3 DEF AgreedInv, PlansNumbered
  <2>2. \A i \in DOMAIN made' : made'[i] <= book'.revision
    BY <1>1, <1>2, <1>3
  <2>3. \A v \in DOMAIN reviews' : v \in Nat /\ v <= book'.revision
    BY <1>1 DEF AgreedInv, PlansNumbered
  <2>4. approved' \in Nat /\ approved' <= book'.revision
    BY <1>1
  <2>5. QED  BY <1>2, <2>1, <2>2, <2>3, <2>4 DEF PlansNumbered
<1>5. CandidateKnown'
  <2>1. plan.revision \notin DOMAIN reviews /\ approved' # plan.revision /\ plan.revision # 0
    BY <1>1 DEF AgreedInv, PlansNumbered
  <2>2. QED  BY <1>2, <2>1 DEF CandidateKnown
<1>6. candidate' # NoPlan
  BY <1>1 DEF NoPlan
<1>7. OutlineKept' /\ OutlineWasAgreed'
  BY <1>6 DEF OutlineKept, OutlineWasAgreed, BeforeWriting, Drafting
<1>8. QED  BY <1>4, <1>5, <1>7 DEF AgreedInv

LEMMA StoreMakes ==
  ASSUME AgreedInv, NEW secs, NEW loose, Store(Plan(secs, loose)),
         stage \in BeforeWriting, UNCHANGED agreed
  PROVE  AgreedInv'
<1> DEFINE plan == Plan(secs, loose)
<1>1. /\ {"id", "revision", "cites"} \subseteq DOMAIN plan
      /\ plan.id = Len(made) + 1 /\ plan.revision = book.revision + 1
  BY DEF Plan, Revision
<1>2. book' \in [revision : Nat, round : Nat] /\ book'.revision = plan.revision
  <2>1. book' = [book EXCEPT !.revision = plan.revision]
    BY DEF Store
  <2> HIDE DEF plan
  <2>2. book \in [revision : Nat, round : Nat]
    BY DEF AgreedInv, PlansNumbered
  <2>3. QED  BY <1>1, <2>1, <2>2
<1>3. outline' = NoPlan
  BY DEF AgreedInv, OutlineKept
<1> HIDE DEF plan
<1>4. candidate' = plan /\ made' = Append(made, plan.revision) /\ stage' = "reviewing"
  BY DEF Store, plan
<1>5. QED  BY <1>1, <1>2, <1>3, <1>4, PlanMade

\* A review is recorded under the plan's own revision; the outline is chosen
\* only after it.
LEMMA ReviewsStep ==
  ASSUME AgreedInv, stage = "reviewing", NEW review, "id" \in DOMAIN review,
         review.id = candidate.id, reviews' = Recorded(review),
         UNCHANGED <<made, book, approved, candidate, outline, preview, consent>>,
         stage' \in {"reviewing", "failing"}
  PROVE  AgreedInv'
<1>1. candidate # NoPlan /\ outline = NoPlan /\ candidate.revision \in Nat
      /\ candidate.revision <= book.revision
  BY DEF AgreedInv, OutlineKept, CandidateKnown, PlansNumbered, BeforeWriting
<1>2. DOMAIN reviews' = {candidate.revision} /\ reviews'[candidate.revision] = review
  BY DEF Recorded
<1>3. PlansNumbered'
  BY <1>1, <1>2 DEF AgreedInv, PlansNumbered
<1>4. CandidateKnown'
  BY <1>2 DEF AgreedInv, CandidateKnown
<1>5. OutlineKept' /\ OutlineWasAgreed'
  BY <1>1 DEF OutlineKept, OutlineWasAgreed, BeforeWriting, Drafting
<1>6. QED  BY <1>3, <1>4, <1>5 DEF AgreedInv

LEMMA PlanningKeeps ==
  ASSUME AgreedInv, PlanningStep, UNCHANGED document
  PROVE  AgreedInv'
<1>1. ASSUME NEW question, AskAgain(question), stage \in BeforeWriting, UNCHANGED plans
      PROVE  AgreedInv'
  BY <1>1, PlansKept DEF AskAgain
<1>2. CASE ReadPurpose
  BY <1>2, PlansKept DEF ReadPurpose, Goto, plans, BeforeWriting
<1>3. CASE OutOfBudget
  BY <1>3, PlansKept DEF OutOfBudget, plans
<1>4. CASE TakePending
  BY <1>4, PlansKept DEF TakePending, Goto, plans, BeforeWriting, AgreedInv, OutlineKept
<1>5. CASE PlanWhole
  <2>1. stage \in BeforeWriting /\ UNCHANGED agreed
    BY <1>5 DEF PlanWhole, BeforeWriting
  <2>2. CASE \E secs \in Sections(SectionCeiling), loose \in {FALSE, view.n > 0} : Store(Plan(secs, loose))
    BY <2>1, <2>2, StoreMakes
  <2>3. CASE AskAgain("outline") /\ UNCHANGED <<candidate, made, book>>
    BY <1>1, <1>5, <2>1, <2>3 DEF PlanWhole, plans
  <2>4. QED  BY <1>5, <2>2, <2>3 DEF PlanWhole
<1>6. CASE StartChapters
  BY <1>6, PlansKept DEF StartChapters, Goto, plans, BeforeWriting
<1>7. CASE DivideChapters
  <2>1. stage \in BeforeWriting /\ UNCHANGED plans
    BY <1>7 DEF DivideChapters, plans, BeforeWriting
  <2>2. CASE AskAgain("outline")
    BY <1>1, <2>1, <2>2
  <2>3. CASE Goto("batches")
    BY <2>1, <2>3, PlansKept DEF Goto, BeforeWriting
  <2>4. QED  BY <1>7, <2>2, <2>3 DEF DivideChapters
<1>8. CASE ReusePart \/ PlanPart
  <2>1. stage \in BeforeWriting /\ UNCHANGED plans
    BY <1>8 DEF ReusePart, PlanPart, plans, BeforeWriting
  <2>2. CASE AskAgain("outline")
    BY <1>1, <2>1, <2>2
  <2>3. CASE UNCHANGED stage
    BY <2>1, <2>3, PlansKept
  <2>4. QED  BY <1>8, <2>2, <2>3 DEF ReusePart, PlanPart, Goto
<1>9. CASE JoinParts
  <2>1. stage \in BeforeWriting /\ UNCHANGED agreed
    BY <1>9 DEF JoinParts, AllGathered, BeforeWriting
  <2>2. QED  BY <1>9, <2>1, StoreMakes DEF JoinParts
<1>10. CASE JoinRefused \/ AwaitApproval \/ GiveUpOutline
  BY <1>10, PlansKept DEF JoinRefused, AwaitApproval, GiveUpOutline, Fail, plans
<1>11. CASE ReviewOutline
  <2>1. stage = "reviewing" /\ UNCHANGED <<made, book, approved, candidate, outline, preview, consent>>
    BY <1>11 DEF ReviewOutline
  <2>2. CASE AskAgain("outline") /\ UNCHANGED reviews
    BY <1>1, <2>1, <2>2 DEF plans, BeforeWriting
  <2>3. ASSUME NEW major, NEW named,
               reviews' = Recorded([id |-> candidate.id, major |-> major, named |-> named]),
               UNCHANGED stage
        PROVE  AgreedInv'
    BY <2>1, <2>3, ReviewsStep
  <2>4. QED  BY <1>11, <2>2, <2>3 DEF ReviewOutline
<1>12. CASE AddFindings
  <2>1. /\ stage = "reviewing" /\ stage' = "reviewing" /\ Reviewed
        /\ UNCHANGED <<made, book, approved, candidate, outline, preview, consent>>
        /\ reviews' = Recorded([ReviewOf EXCEPT !.major = TRUE])
    BY <1>12 DEF AddFindings, Goto
  <2>2. "id" \in DOMAIN ReviewOf /\ ReviewOf.id = candidate.id
    BY <2>1 DEF ReviewOf, Reviewed, AgreedInv, CandidateKnown, OutlineKept
  <2>3. "id" \in DOMAIN [ReviewOf EXCEPT !.major = TRUE] /\ [ReviewOf EXCEPT !.major = TRUE].id = candidate.id
    BY <2>2
  <2>4. QED  BY <2>1, <2>3, ReviewsStep
<1>13. CASE SettleOutline
  <2>1. /\ stage = "reviewing" /\ stage' = "writing" /\ Reviewed /\ ~Addition /\ ~ReviewOf.major
        /\ preview => approved = candidate.revision
        /\ outline' = candidate
        /\ UNCHANGED <<made, book, approved, reviews, candidate, preview, consent>>
    BY <1>13 DEF SettleOutline, Judged, Goto, ApprovedNow
  <2>2. candidate # NoPlan
    BY <2>1 DEF AgreedInv, OutlineKept
  <2>3. PlansNumbered' /\ CandidateKnown'
    BY <2>1 DEF AgreedInv, PlansNumbered, CandidateKnown
  <2>4. OutlineKept'
    BY <2>1, <2>2 DEF OutlineKept, BeforeWriting, Drafting
  <2>5. OutlineWasAgreed'
    BY <2>1, <2>2 DEF AgreedInv, CandidateKnown, OutlineWasAgreed, Reviewed, ReviewOf, Addition
  <2>6. QED  BY <2>3, <2>4, <2>5 DEF AgreedInv
<1>14. CASE CorrectOutline
  <2>1. /\ stage = "reviewing" /\ stage' = "outlining" /\ candidate' = NoPlan
        /\ book' = [book EXCEPT !.round = @ + 1]
        /\ UNCHANGED <<made, approved, reviews, outline, preview, consent>>
    BY <1>14 DEF CorrectOutline, Judged, Goto
  <2>2. book' \in [revision : Nat, round : Nat] /\ book'.revision = book.revision
    BY <2>1 DEF AgreedInv, PlansNumbered
  <2>3. PlansNumbered' /\ CandidateKnown'
    BY <2>1, <2>2 DEF AgreedInv, PlansNumbered, CandidateKnown
  <2>4. OutlineKept' /\ OutlineWasAgreed'
    BY <2>1 DEF AgreedInv, OutlineKept, OutlineWasAgreed, BeforeWriting, Drafting
  <2>5. QED  BY <2>3, <2>4 DEF AgreedInv
<1>15. QED
  BY <1>2, <1>3, <1>4, <1>5, <1>6, <1>7, <1>8, <1>9, <1>10, <1>11, <1>12, <1>13, <1>14
  DEF PlanningStep

\* Writing and reviewing leave the plan alone, until a review finds the outline
\* itself wrong.
LEMMA WritingKeeps ==
  ASSUME AgreedInv, WritingStep
  PROVE  AgreedInv'
<1>1. CASE Replan
  <2>1. /\ stage = "checking" /\ stage' = "read"
        /\ book' = [revision |-> outline.revision, round |-> 0]
        /\ outline' = NoPlan /\ candidate' = NoPlan /\ approved' = 0
        /\ UNCHANGED <<made, reviews, preview, consent>>
    BY <1>1 DEF Replan, Unchecked
  <2>2. outline.revision = book.revision
    BY <2>1 DEF AgreedInv, OutlineKept, CandidateKnown, Drafting
  <2>3. PlansNumbered' /\ CandidateKnown'
    BY <2>1, <2>2 DEF AgreedInv, PlansNumbered, CandidateKnown
  <2>4. OutlineKept' /\ OutlineWasAgreed'
    BY <2>1 DEF OutlineKept, OutlineWasAgreed, BeforeWriting, Drafting
  <2>5. QED  BY <2>3, <2>4 DEF AgreedInv
<1>2. CASE \E i \in Section : \/ ReuseSection(i) \/ RewriteSaved(i) \/ WriteSection(i)
                              \/ KeepUnresolved(i) \/ RepairSection(i)
                              \/ RepairUnresolved(i) \/ SkipRepair(i)
  BY <1>2, PlansKept
  DEF ReuseSection, RewriteSaved, WriteSection, KeepUnresolved, RepairSection, RepairUnresolved,
      SkipRepair, At, Repairing, Leaving, Goto, plans, Drafting
<1>3. CASE AllWritten \/ SkipRound \/ ReviewDocument \/ StartRepairs \/ EndRound \/ WritingFails
  BY <1>3, PlansKept
  DEF AllWritten, SkipRound, ReviewDocument, StartRepairs, EndRound, WritingFails,
      Unchecked, Checked, Leaving, Goto, plans, Drafting
<1>4. CASE PublishReviewed \/ PublishUnread
  BY <1>4, PlansKept DEF PublishReviewed, PublishUnread, Publish, End, plans
<1>5. QED  BY <1>1, <1>2, <1>3, <1>4 DEF WritingStep

\* An edit makes a new plan or asks for one; an approval is for the plan the
\* user saw, as no other has its revision.
LEMMA UserKeeps ==
  ASSUME AgreedInv, NEW seen \in DOMAIN made, Revise(seen) \/ Approve(seen)
  PROVE  AgreedInv'
<1>1. outline # NoPlan => outline = candidate
  BY DEF AgreedInv, OutlineKept
<1>2. CASE Revise(seen)
  <2>1. /\ stage = "ended" /\ stage' = "ended" /\ Current = candidate /\ candidate # NoPlan
        /\ outline' = NoPlan /\ approved' = 0 /\ UNCHANGED <<reviews, consent>>
    BY <1>1, <1>2 DEF Revise, Current, Discarding
  <2>2. candidate.revision = book.revision /\ {"id", "revision", "cites"} \subseteq DOMAIN candidate
        /\ book.revision \in Nat
    BY <2>1 DEF AgreedInv, CandidateKnown, PlansNumbered
  <2>3. ASSUME NEW plan,
               plan = [candidate EXCEPT !.id = Len(made) + 1, !.revision = @ + 1, !.cites = evidence,
                         !.names[Len(candidate.names)] = <<Len(made) + 1, Len(candidate.names)>>],
               candidate' = plan, made' = Append(made, plan.revision),
               book' = [revision |-> plan.revision, round |-> 0]
        PROVE  AgreedInv'
    <3>1. /\ {"id", "revision", "cites"} \subseteq DOMAIN plan
          /\ plan.id = Len(made) + 1 /\ plan.revision = book.revision + 1
      BY <2>2, <2>3
    <3>2. book' \in [revision : Nat, round : Nat] /\ book'.revision = plan.revision
      BY <2>2, <2>3, <3>1
    <3>3. QED  BY <2>1, <2>3, <3>1, <3>2, PlanMade
  <2>4. CASE /\ candidate' = NoPlan /\ UNCHANGED made
             /\ book' = [revision |-> Current.revision, round |-> 0]
    <3>1. book' \in [revision : Nat, round : Nat] /\ book'.revision = book.revision
      BY <2>1, <2>2, <2>4
    <3>2. PlansNumbered' /\ CandidateKnown'
      BY <2>1, <2>4, <3>1 DEF AgreedInv, PlansNumbered, CandidateKnown
    <3>3. OutlineKept' /\ OutlineWasAgreed'
      BY <2>1 DEF OutlineKept, OutlineWasAgreed, BeforeWriting, Drafting
    <3>4. QED  BY <3>2, <3>3 DEF AgreedInv
  <2>5. QED  BY <1>2, <2>1, <2>3, <2>4 DEF Revise
<1>3. CASE Approve(seen)
  <2>1. /\ candidate # NoPlan /\ made[seen] = candidate.revision
        /\ stage = "ended" /\ stage' = "ended"
        /\ approved' = candidate.revision /\ consent' = seen
        /\ UNCHANGED <<made, book, reviews, candidate, outline, preview>>
    BY <1>3 DEF Approve
  <2>2. seen = candidate.id
    BY <2>1 DEF AgreedInv, PlansNumbered, CandidateKnown
  <2>3. candidate.revision \in Nat /\ candidate.revision = book.revision
    BY <2>1 DEF AgreedInv, PlansNumbered, CandidateKnown
  <2>4. PlansNumbered' /\ CandidateKnown'
    BY <2>1, <2>2, <2>3 DEF AgreedInv, PlansNumbered, CandidateKnown
  <2>5. OutlineKept' /\ OutlineWasAgreed'
    BY <1>1, <2>1, <2>2 DEF AgreedInv, OutlineKept, OutlineWasAgreed, BeforeWriting, Drafting
  <2>6. QED  BY <2>4, <2>5 DEF AgreedInv
<1>4. QED  BY <1>2, <1>3

LEMMA AgreedStep == AgreedInv /\ [Next]_vars => AgreedInv'
<1> SUFFICES ASSUME AgreedInv, [Next]_vars
             PROVE  AgreedInv'
  OBVIOUS
<1>1. CASE Start
  <2>1. UNCHANGED plans /\ stage' = PlanDocument
    BY <1>1 DEF Start, Goto, plans
  <2>2. QED  BY <2>1, PlansKept DEF PlanDocument, BeforeWriting, Drafting
<1>2. CASE Stop \/ WorkerFails
  BY <1>2, PlansKept DEF Stop, WorkerFails, End, plans
<1>3. CASE ReadingStep /\ UNCHANGED <<planning, document>>
  <2>1. UNCHANGED plans
    BY <1>3 DEF plans
  <2>2. stage = "reading" /\ stage' \in {"reading", "read", "failing"}
    BY <1>3
    DEF ReadingStep, RefuseReading, TakePart, CloseLastGroup, LeavesRead, Collect, PlanLevel,
        RefuseLevel, QueueGroup, LevelRead, FinishReading, Answer, AnswerUseless, AnswerMissing,
        AnswerRefused, Polled, Reading, Idle, Goto, Fail
  <2>3. QED  BY <2>1, <2>2, PlansKept DEF BeforeWriting
<1>4. CASE PlanningStep /\ UNCHANGED document
  BY <1>4, PlanningKeeps
<1>5. CASE WritingStep
  BY <1>5, WritingKeeps
<1>6. CASE \E seen \in DOMAIN made : Revise(seen) \/ Approve(seen)
  BY <1>6, UserKeeps
<1>7. CASE UNCHANGED vars
  BY <1>7, PlansKept DEF vars, plans
<1>8. QED  BY <1>1, <1>2, <1>3, <1>4, <1>5, <1>6, <1>7 DEF Next

\* Whatever plans were corrected, edited, sent back or made again after a draft,
\* and wherever attempts ended in between: the outline that is written is the
\* one its review judged and, if the task asks for it, the user approved.
THEOREM OutlineAgreed == Spec => []OutlineWasAgreed
<1>1. AgreedInv => OutlineWasAgreed
  BY DEF AgreedInv
<1>2. QED
  <2> HIDE DEF AgreedInv
  <2>1. QED  BY AgreedInit, AgreedStep, <1>1, PTL DEF Spec
-----------------------------------------------------------------------------
(* What a plan cites. *)

Planning == {"outlining", "dividing", "batches", "reviewing"}

\* The passages read for the purpose are there for the settings of their scope.
EvidenceRead ==
  /\ llm \in {0, 1}
  /\ scope # {} => \E l \in {0, 1} : scope = {l} /\ l <= llm /\ <<"read", l>> \in evidence
  /\ stage \in Planning => scope # {}

\* A pending plan cites what is there, or was made with the former settings.
CitesKnown ==
  candidate # NoPlan =>
    /\ scope # {}
    /\ \/ candidate.cites \subseteq evidence /\ \E l \in {0, 1} : scope = {l} /\ <<"read", l>> \in candidate.cites
       \/ scope = {1} /\ <<"read", 0>> \in candidate.cites

GroundInv == EvidenceRead /\ CitesKnown

reads == <<llm, scope, evidence>>

LEMMA GroundInit == Init => GroundInv
BY DEF Init, ReadingInit, PlanningInit, GroundInv, EvidenceRead, CitesKnown, Planning

LEMMA GroundKept ==
  ASSUME GroundInv, UNCHANGED <<scope, evidence>>, llm' \in {llm, 1},
         candidate' \in {candidate, NoPlan},
         stage' \in Planning => stage \in Planning
  PROVE  GroundInv'
BY DEF GroundInv, EvidenceRead, CitesKnown

\* A new plan cites the passages of the moment.
LEMMA GroundMade ==
  ASSUME GroundInv, UNCHANGED reads, scope # {}, candidate'.cites = evidence,
         stage' \in Planning => scope # {}
  PROVE  GroundInv'
BY DEF GroundInv, EvidenceRead, CitesKnown, reads

LEMMA GroundPlanning ==
  ASSUME GroundInv, PlanningStep, UNCHANGED document
  PROVE  GroundInv'
<1>1. CASE ReadPurpose
  <2>1. stage' = "outlining" /\ UNCHANGED <<llm, candidate>>
    BY <1>1 DEF ReadPurpose, Goto
  <2>2. CASE scope = {llm} /\ UNCHANGED <<evidence, scope>>
    BY <2>1, <2>2 DEF GroundInv, EvidenceRead, CitesKnown
  <2>3. CASE scope # {llm} /\ evidence' = {<<"read", llm>>} /\ scope' = {llm}
    <3>1. EvidenceRead'
      BY <2>1, <2>3 DEF GroundInv, EvidenceRead
    <3>2. CitesKnown'
      BY <2>1, <2>3 DEF GroundInv, EvidenceRead, CitesKnown
    <3>3. QED  BY <3>1, <3>2 DEF GroundInv
  <2>4. QED  BY <1>1, <2>2, <2>3 DEF ReadPurpose, KeptReading
<1>2. ASSUME NEW secs, NEW loose, Store(Plan(secs, loose)), stage \in Planning, UNCHANGED reads
      PROVE  GroundInv'
  <2>1. candidate' = Plan(secs, loose) /\ Plan(secs, loose).cites = evidence
    BY <1>2 DEF Store, Plan
  <2>2. QED  BY <1>2, <2>1, GroundMade DEF GroundInv, EvidenceRead
<1>3. CASE PlanWhole
  <2>1. stage \in Planning /\ UNCHANGED reads
    BY <1>3 DEF PlanWhole, Planning, reads
  <2>2. CASE \E secs \in Sections(SectionCeiling), loose \in {FALSE, view.n > 0} : Store(Plan(secs, loose))
    BY <1>2, <2>1, <2>2
  <2>3. CASE UNCHANGED candidate
    BY <2>1, <2>3, GroundKept DEF reads
  <2>4. QED  BY <1>3, <2>2, <2>3 DEF PlanWhole
<1>4. CASE JoinParts
  <2>1. stage \in Planning /\ UNCHANGED reads
    BY <1>4 DEF JoinParts, AllGathered, Planning, reads
  <2>2. QED  BY <1>2, <1>4, <2>1 DEF JoinParts
<1>5. CASE CorrectOutline
  <2>1. /\ stage = "reviewing" /\ candidate' = NoPlan /\ UNCHANGED <<llm, scope>>
        /\ evidence \subseteq evidence'
    BY <1>5 DEF CorrectOutline, Judged
  <2>2. QED  BY <2>1 DEF GroundInv, EvidenceRead, CitesKnown, Planning
<1>6. CASE \/ OutOfBudget \/ TakePending \/ StartChapters \/ DivideChapters \/ PlanPart
           \/ ReusePart \/ JoinRefused \/ ReviewOutline \/ AddFindings \/ SettleOutline
           \/ AwaitApproval \/ GiveUpOutline
  <2>1. UNCHANGED <<llm, scope, evidence, candidate>>
    BY <1>6
    DEF OutOfBudget, TakePending, StartChapters, DivideChapters, ReusePart, PlanPart, JoinRefused,
        ReviewOutline, AddFindings, SettleOutline, AwaitApproval, GiveUpOutline
  <2>2. stage' \in Planning => stage \in Planning
    BY <1>6
    DEF OutOfBudget, TakePending, StartChapters, DivideChapters, ReusePart, PlanPart, JoinRefused,
        AskAgain, ReviewOutline, AddFindings, SettleOutline, AwaitApproval, GiveUpOutline, Judged, Goto,
        Fail, Planning
  <2>3. QED  BY <2>1, <2>2, GroundKept
<1>7. QED  BY <1>1, <1>3, <1>4, <1>5, <1>6 DEF PlanningStep

LEMMA GroundStep == AgreedInv /\ GroundInv /\ [Next]_vars => GroundInv'
<1> SUFFICES ASSUME AgreedInv, GroundInv, [Next]_vars
             PROVE  GroundInv'
  OBVIOUS
<1>1. CASE Start
  <2>1. stage' \notin Planning
    BY <1>1 DEF Start, Goto, PlanDocument, Planning
  <2>2. QED  BY <1>1, <2>1, GroundKept DEF Start
<1>2. CASE Stop \/ WorkerFails
  BY <1>2, GroundKept DEF Stop, WorkerFails, End, Planning
<1>3. CASE ReadingStep /\ UNCHANGED <<planning, document>>
  <2>1. stage' \in {"reading", "read", "failing"}
    BY <1>3
    DEF ReadingStep, RefuseReading, TakePart, CloseLastGroup, LeavesRead, Collect, PlanLevel,
        RefuseLevel, QueueGroup, LevelRead, FinishReading, Answer, AnswerUseless, AnswerMissing,
        AnswerRefused, Polled, Reading, Idle, Goto, Fail
  <2>2. QED  BY <1>3, <2>1, GroundKept DEF Planning
<1>4. CASE PlanningStep /\ UNCHANGED document
  BY <1>4, GroundPlanning
<1>5. CASE WritingStep
  <2>1. UNCHANGED <<llm, scope, evidence>> /\ candidate' \in {candidate, NoPlan}
    BY <1>5
    DEF WritingStep, ReuseSection, RewriteSaved, WriteSection, KeepUnresolved, RepairSection,
        RepairUnresolved, SkipRepair, AllWritten, SkipRound, ReviewDocument, Replan, StartRepairs,
        EndRound, PublishReviewed, PublishUnread, Publish, End, WritingFails, Leaving
  <2>2. stage' \in Planning => stage \in Planning
    BY <1>5
    DEF WritingStep, ReuseSection, RewriteSaved, WriteSection, KeepUnresolved, RepairSection,
        RepairUnresolved, SkipRepair, AllWritten, SkipRound, ReviewDocument, Replan, StartRepairs,
        EndRound, PublishReviewed, PublishUnread, Publish, End, WritingFails, Goto, Planning
  <2>3. QED  BY <2>1, <2>2, GroundKept
<1>6. ASSUME NEW seen \in DOMAIN made, Approve(seen)
      PROVE  GroundInv'
  BY <1>6, GroundKept DEF Approve
<1>7. ASSUME NEW seen \in DOMAIN made, Revise(seen)
      PROVE  GroundInv'
  <2>1. /\ UNCHANGED <<stage, llm, scope, evidence>> /\ Current = candidate /\ candidate # NoPlan
    BY <1>7 DEF Revise, Current, AgreedInv, OutlineKept
  <2>2. CASE candidate' = NoPlan
    BY <2>1, <2>2, GroundKept
  <2>3. CASE candidate'.cites = evidence
    BY <2>1, <2>3, GroundMade DEF GroundInv, CitesKnown, EvidenceRead, reads
  <2>4. CASE candidate' = [candidate EXCEPT !.id = Len(made) + 1, !.revision = @ + 1, !.cites = evidence,
                         !.names[Len(candidate.names)] = <<Len(made) + 1, Len(candidate.names)>>]
    <3>1. "cites" \in DOMAIN candidate
      BY <2>1 DEF AgreedInv, CandidateKnown
    <3>2. QED  BY <2>3, <2>4, <3>1
  <2>5. QED  BY <1>7, <2>1, <2>2, <2>4 DEF Revise
<1>8. CASE UNCHANGED vars
  BY <1>8, GroundKept DEF vars
<1>9. QED  BY <1>1, <1>2, <1>3, <1>4, <1>5, <1>6, <1>7, <1>8 DEF Next

\* What a settled outline cites was read with the model's settings it was
\* planned with, or is there to be read when its sections are written.
THEOREM OutlineGrounded == Spec => []OutlineIsGrounded
<1>1. AgreedInv /\ GroundInv => OutlineIsGrounded
  BY DEF AgreedInv, OutlineKept, GroundInv, CitesKnown, OutlineIsGrounded
<1>2. QED
  <2> HIDE DEF AgreedInv, GroundInv
  <2>1. QED  BY AgreedInit, AgreedStep, GroundInit, GroundStep, <1>1, PTL DEF Spec
-----------------------------------------------------------------------------
(* Joined parts *)

\* What a batch's plan may look like, and what is made of such plans.
PartPlans == [sections : {<<{}>>, <<{}, {1}>>}, loose : BOOLEAN]

OrderInv ==
  /\ parts \in Seq(PartPlans) /\ gathered.done \in Nat
  /\ JoinedIsOrdered
  /\ candidate # NoPlan =>
       /\ {"sections", "names"} \subseteq DOMAIN candidate
       /\ candidate.sections \in Seq(SUBSET Nat)
       /\ DOMAIN candidate.names = DOMAIN candidate.sections
       /\ \A i \in DOMAIN candidate.names : candidate.names[i][2] = i

LEMMA OrderInit == Init => OrderInv
BY DEF Init, PlanningInit, OrderInv, JoinedIsOrdered, Nothing

LEMMA OrderKept ==
  ASSUME OrderInv, UNCHANGED <<parts, gathered>>, candidate' \in {candidate, NoPlan}
  PROVE  OrderInv'
BY DEF OrderInv, JoinedIsOrdered

\* A part's prerequisites stay in the part, however much comes before it.
LEMMA JoinedOrdered ==
  ASSUME JoinedIsOrdered, NEW part \in PartPlans, gathered' = With(part)
  PROVE  JoinedIsOrdered'
<1> DEFINE earlier == gathered.sections
           moved == [i \in DOMAIN part.sections |-> {d + Len(earlier) : d \in part.sections[i]}]
<1>1. earlier \in Seq(SUBSET Nat) /\ Len(earlier) \in Nat
  BY DEF JoinedIsOrdered
<1>2. gathered'.sections = earlier \o moved
  BY DEF With, Joined
<1>3. \/ part.sections = <<{}>>
      \/ part.sections = <<{}, {1}>>
  BY DEF PartPlans
<1>4. /\ moved \in Seq(SUBSET Nat) /\ Len(moved) \in 1..2 /\ moved[1] = {}
      /\ Len(moved) = 2 => moved[2] = {1 + Len(earlier)}
  <2>1. /\ DOMAIN moved = DOMAIN part.sections
        /\ \A i \in DOMAIN part.sections : moved[i] = {d + Len(earlier) : d \in part.sections[i]}
    OBVIOUS
  <2>2. moved = [i \in DOMAIN part.sections |-> moved[i]]
    OBVIOUS
  <2> HIDE DEF moved, earlier
  <2>3. CASE part.sections = <<{}>>
    <3>1. DOMAIN moved = 1..1 /\ moved[1] = {}
      BY <2>1, <2>3
    <3>2. moved \in [1..1 -> SUBSET Nat]
      BY <2>2, <2>3, <3>1
    <3>3. moved \in Seq(SUBSET Nat) /\ Len(moved) = 1
      BY <3>1, <3>2, LenProperties, SeqDef
    <3>4. QED  BY <3>1, <3>3
  <2>4. CASE part.sections = <<{}, {1}>>
    <3>1. DOMAIN moved = 1..2 /\ moved[1] = {} /\ moved[2] = {1 + Len(earlier)}
      BY <2>1, <2>4
    <3>2. moved[1] \in SUBSET Nat /\ moved[2] \in SUBSET Nat
      BY <1>1, <3>1
    <3>3. moved \in [1..2 -> SUBSET Nat]
      BY <2>2, <2>4, <3>1, <3>2
    <3>4. moved \in Seq(SUBSET Nat) /\ Len(moved) = 2
      <4>1. moved \in Seq(SUBSET Nat)
        BY <3>3, SeqDef
      <4>2. QED  BY <3>1, <4>1, LenProperties
    <3>5. QED  BY <3>1, <3>4
  <2>5. QED  BY <1>3, <2>3, <2>4
<1>5. \A i \in DOMAIN earlier : earlier[i] \subseteq {i - 1} \ {0}
  BY DEF JoinedIsOrdered
<1> HIDE DEF moved, earlier
<1>6. /\ earlier \o moved \in Seq(SUBSET Nat)
      /\ \A i \in DOMAIN (earlier \o moved) : (earlier \o moved)[i] \subseteq {i - 1} \ {0}
  <2>1. earlier \o moved \in Seq(SUBSET Nat) /\ Len(earlier \o moved) = Len(earlier) + Len(moved)
    BY <1>1, <1>4
  <2>2. ASSUME NEW i \in DOMAIN (earlier \o moved)
        PROVE  (earlier \o moved)[i] \subseteq {i - 1} \ {0}
    <3>1. i \in 1..Len(earlier) + Len(moved)
      BY <2>1
    <3>2. CASE i <= Len(earlier)
      BY <1>1, <1>4, <1>5, <3>1, <3>2
    <3>3. CASE i > Len(earlier)
      <4>1. (earlier \o moved)[i] = moved[i - Len(earlier)]
        BY <1>1, <1>4, <3>1, <3>3, ConcatProperties
      <4>2. i - Len(earlier) = 1 \/ (i - Len(earlier) = 2 /\ Len(moved) = 2)
        <5>1. Len(earlier) \in Nat /\ (Len(moved) = 1 \/ Len(moved) = 2)
          BY <1>1, <1>4
        <5>2. i \in Int /\ i > Len(earlier) /\ i <= Len(earlier) + Len(moved)
          BY <3>1, <3>3, <5>1
        <5>3. ASSUME NEW a \in Nat, NEW m \in {1, 2}, NEW k \in Int, k > a, k <= a + m
              PROVE  k - a = 1 \/ (k - a = 2 /\ m = 2)
          BY <5>3
        <5>4. QED  BY <5>1, <5>2, <5>3
      <4>3. CASE i - Len(earlier) = 1
        BY <1>4, <4>1, <4>3
      <4>4. CASE i - Len(earlier) = 2 /\ Len(moved) = 2
        <5>1. 1 + Len(earlier) = i - 1 /\ i - 1 # 0
          BY <1>1, <3>1, <4>4
        <5>2. QED  BY <1>4, <4>1, <4>4, <5>1
      <4>5. QED  BY <4>2, <4>3, <4>4
    <3>4. QED  BY <1>1, <3>1, <3>2, <3>3
  <2>3. QED  BY <2>1, <2>2
<1>7. QED  BY <1>2, <1>6 DEF JoinedIsOrdered

LEMMA PlanOrdered ==
  ASSUME OrderInv, NEW secs \in Seq(SUBSET Nat), NEW loose, Store(Plan(secs, loose)),
         \/ UNCHANGED <<parts, gathered>>
         \/ parts' = <<>> /\ gathered' = Nothing
  PROVE  OrderInv'
<1>1. candidate' = Plan(secs, loose)
  BY DEF Store
<1>2. /\ {"sections", "names"} \subseteq DOMAIN candidate'
      /\ candidate'.sections \in Seq(SUBSET Nat)
      /\ DOMAIN candidate'.names = DOMAIN candidate'.sections
      /\ \A i \in DOMAIN candidate'.names : candidate'.names[i][2] = i
  BY <1>1 DEF Plan
<1>3. <<>> \in Seq(PartPlans)
  OBVIOUS
<1>4. Nothing.sections = <<>> /\ Nothing.done = 0
  BY DEF Nothing
<1>5. CASE UNCHANGED <<parts, gathered>>
  BY <1>2, <1>5 DEF OrderInv, JoinedIsOrdered
<1>6. CASE parts' = <<>> /\ gathered' = Nothing
  <2>1. parts' \in Seq(PartPlans) /\ gathered'.done \in Nat /\ gathered'.sections = <<>>
    BY <1>3, <1>4, <1>6
  <2>2. JoinedIsOrdered'
    BY <2>1 DEF JoinedIsOrdered
  <2>3. QED  BY <1>2, <2>1, <2>2 DEF OrderInv
<1>7. QED  BY <1>5, <1>6

LEMMA OrderStep == AgreedInv /\ OrderInv /\ [Next]_vars => OrderInv'
<1> SUFFICES ASSUME AgreedInv, OrderInv, [Next]_vars
             PROVE  OrderInv'
  OBVIOUS
<1>1. ASSUME NEW most, NEW secs \in Sections(most)
      PROVE  secs \in {<<{}>>, <<{}, {1}>>} /\ secs \in Seq(SUBSET Nat)
  <2>1. secs \in {<<{}>>, <<{}, {1}>>}
    BY <1>1 DEF Sections
  <2>2. {} \in SUBSET Nat /\ {1} \in SUBSET Nat
    OBVIOUS
  <2>3. <<{}>> \in Seq(SUBSET Nat) /\ <<{}, {1}>> \in Seq(SUBSET Nat)
    BY <2>2
  <2>4. QED  BY <2>1, <2>3
<1>2. CASE Stop \/ WorkerFails
  <2>1. UNCHANGED <<parts, candidate>> /\ gathered' = Nothing
    BY <1>2 DEF Stop, WorkerFails, End
  <2>2. QED  BY <2>1 DEF OrderInv, JoinedIsOrdered, Nothing
<1>3. CASE ReadingStep /\ UNCHANGED <<planning, document>>
  BY <1>3, OrderKept
<1>4. CASE PlanningStep /\ UNCHANGED document
  <2>1. CASE \/ ReadPurpose \/ OutOfBudget \/ TakePending \/ StartChapters \/ JoinRefused
             \/ ReviewOutline \/ AddFindings \/ SettleOutline \/ AwaitApproval
             \/ GiveUpOutline \/ CorrectOutline
    BY <2>1, OrderKept
    DEF ReadPurpose, OutOfBudget, TakePending, StartChapters, JoinRefused, ReviewOutline,
        AddFindings, SettleOutline, AwaitApproval, GiveUpOutline, CorrectOutline
  <2>2. CASE PlanWhole
    <3>1. UNCHANGED <<parts, gathered>>
      BY <2>2 DEF PlanWhole
    <3>2. CASE UNCHANGED candidate
      BY <3>1, <3>2, OrderKept
    <3>3. CASE \E secs \in Sections(SectionCeiling), loose \in {FALSE, view.n > 0} :
                 Store(Plan(secs, loose))
      BY <1>1, <3>1, <3>3, PlanOrdered
    <3>4. QED  BY <2>2, <3>2, <3>3 DEF PlanWhole
  <2>3. CASE DivideChapters
    <3>1. UNCHANGED <<candidate, gathered>> /\ parts' \in {parts, <<>>}
      BY <2>3 DEF DivideChapters
    <3>2. <<>> \in Seq(PartPlans)
      OBVIOUS
    <3>3. QED  BY <3>1, <3>2 DEF OrderInv, JoinedIsOrdered
  <2>4. CASE ReusePart
    <3>1. /\ gathered.done < Len(parts) /\ gathered' = With(parts[gathered.done + 1])
          /\ UNCHANGED <<parts, candidate>>
      BY <2>4 DEF ReusePart
    <3>2. parts[gathered.done + 1] \in PartPlans
      BY <3>1 DEF OrderInv
    <3>3. JoinedIsOrdered'
      BY <3>1, <3>2, JoinedOrdered DEF OrderInv
    <3>4. QED  BY <3>1, <3>3 DEF OrderInv, With
  <2>5. CASE PlanPart
    <3>1. UNCHANGED candidate
      BY <2>5 DEF PlanPart
    <3>2. CASE UNCHANGED <<parts, gathered>>
      BY <3>1, <3>2, OrderKept
    <3>3. CASE \E secs \in Sections(SharesNow[Len(parts) + 1]), loose \in BOOLEAN :
                 LET part == [sections |-> secs, loose |-> loose]
                 IN  parts' = Append(parts, part) /\ gathered' = With(part)
      <4>1. PICK part \in PartPlans : parts' = Append(parts, part) /\ gathered' = With(part)
        BY <1>1, <3>3 DEF PartPlans
      <4>2. JoinedIsOrdered' /\ parts' \in Seq(PartPlans)
        BY <4>1, JoinedOrdered DEF OrderInv
      <4>3. QED  BY <3>1, <4>1, <4>2 DEF OrderInv, With
    <3>4. QED  BY <2>5, <3>2, <3>3 DEF PlanPart
  <2>6. CASE JoinParts
    BY <2>6, PlanOrdered DEF JoinParts, OrderInv, JoinedIsOrdered
  <2>7. QED  BY <1>4, <2>1, <2>2, <2>3, <2>4, <2>5, <2>6 DEF PlanningStep
<1>5. CASE Start \/ WritingStep
  <2>1. CASE PublishReviewed \/ PublishUnread
    <3>1. UNCHANGED <<parts, candidate>> /\ gathered' = Nothing
      BY <2>1 DEF PublishReviewed, PublishUnread, Publish, End
    <3>2. QED  BY <3>1 DEF OrderInv, JoinedIsOrdered, Nothing
  <2>2. CASE ~(PublishReviewed \/ PublishUnread)
    <3>1. UNCHANGED <<parts, gathered>> /\ candidate' \in {candidate, NoPlan}
      BY <1>5, <2>2
      DEF Start, WritingStep, ReuseSection, RewriteSaved, WriteSection, KeepUnresolved,
          RepairSection, RepairUnresolved, SkipRepair, AllWritten, SkipRound, ReviewDocument,
          Replan, StartRepairs, EndRound, WritingFails, Leaving
    <3>2. QED  BY <3>1, OrderKept
  <2>3. QED  BY <2>1, <2>2
<1>6. ASSUME NEW seen \in DOMAIN made, Revise(seen)
      PROVE  OrderInv'
  <2>1. UNCHANGED <<parts, gathered>>
    BY <1>6 DEF Revise
  <2>2. CASE candidate' = NoPlan
    BY <2>1, <2>2, OrderKept
  <2>3. CASE candidate' # NoPlan
    <3>1. Current = candidate /\ candidate # NoPlan
      BY <1>6 DEF Revise, Current, AgreedInv, OutlineKept
    <3>2. candidate' = [candidate EXCEPT !.id = Len(made) + 1, !.revision = @ + 1,
                          !.cites = evidence,
                          !.names[Len(candidate.names)] = <<Len(made) + 1, Len(candidate.names)>>]
      BY <1>6, <2>3, <3>1 DEF Revise
    <3>3. /\ DOMAIN candidate' = DOMAIN candidate /\ candidate'.sections = candidate.sections
          /\ candidate'.names = [candidate.names EXCEPT ![Len(candidate.names)] =
                                  <<Len(made) + 1, Len(candidate.names)>>]
      BY <3>1, <3>2 DEF OrderInv
    <3>4. /\ DOMAIN candidate'.names = DOMAIN candidate.names
          /\ \A i \in DOMAIN candidate.names : candidate'.names[i][2] = i
      BY <3>1, <3>3 DEF OrderInv
    <3>5. QED  BY <2>1, <3>1, <3>3, <3>4 DEF OrderInv, JoinedIsOrdered
  <2>4. QED  BY <2>2, <2>3
<1>7. ASSUME NEW seen \in DOMAIN made, Approve(seen)
      PROVE  OrderInv'
  BY <1>7, OrderKept DEF Approve
<1>8. CASE UNCHANGED vars
  BY <1>8, OrderKept DEF vars
<1>9. QED  BY <1>2, <1>3, <1>4, <1>5, <1>6, <1>7, <1>8 DEF Next

\* plan_in_chapters: a wide source's outline is put together from parts planned
\* separately, in several attempts if need be, and still no section refers to
\* one that comes after it or to another part's.
THEOREM JoinedInOrder == Spec => []JoinedIsOrdered
<1>1. OrderInv => JoinedIsOrdered
  BY DEF OrderInv
<1>2. QED
  <2> HIDE DEF AgreedInv, OrderInv, JoinedIsOrdered
  <2>1. QED  BY AgreedInit, AgreedStep, OrderInit, OrderStep, <1>1, PTL DEF Spec

-----------------------------------------------------------------------------
(* Repairs and the rounds of a review. *)

\* A section's saved text; none counts as the draft that is not saved.
Val(i) == IF IsSaved(i) THEN saved[KeyOf(i)] ELSE 0

\* What an attempt remembers begins with its writing.
Memory == [at : Nat, round : Nat, texts : Seq(Nat), changed : BOOLEAN, warned : BOOLEAN]

WorkKnown ==
  /\ saved \in [DOMAIN saved -> Nat] /\ startAt \in Nat
  /\ work \in Memory
  /\ stage \in BeforeWriting \cup {"ended"} => work = NoWork

\* No text the attempt holds is newer than the saved one, and none is unsaved
\* without a warning.
TextsKnown ==
  /\ stage = "writing" =>
       work.at \in 1..Len(outline.sections) + 1 /\ Len(work.texts) = work.at - 1
  /\ stage \in {"checking", "repairing"} => Len(work.texts) = Len(outline.sections)
  /\ stage \in Drafting =>
       \A i \in DOMAIN work.texts : work.texts[i] <= Val(i) /\ (IsSaved(i) \/ work.warned)
  /\ stage = "repairing" => \A i \in Section : IsSaved(i)

\* Reviews are of this outline and of no later texts; a marked section has a
\* later text than the review that flagged it.
ReviewsKnown ==
  /\ outline = NoPlan => checks = <<>> /\ marks = {}
  /\ \A r \in DOMAIN checks :
       /\ r \in Nat /\ r >= startAt /\ checks[r].flagged \subseteq Section
       /\ \A i \in Section : checks[r].of[i] \in Nat /\ checks[r].of[i] <= Val(i)
  /\ \A mark \in marks :
       /\ mark[1] \in DOMAIN checks /\ mark[2] \in Section /\ IsSaved(mark[2])
       /\ checks[mark[1]].of[mark[2]] < Val(mark[2])

AllMarked(r) == \A i \in checks[r].flagged : <<r, i>> \in marks

\* A round that was reviewed is over only with all its repairs marked, or with
\* a warning; so is one whose next review is still to come.
RoundsKnown ==
  /\ stage \in {"checking", "repairing"} => work.round >= startAt
  /\ \A r \in DOMAIN checks : Over(r) /\ ~checks[r + 1].warned => AllMarked(r)
  /\ stage = "checking" /\ work.round \notin DOMAIN checks /\ ~work.warned =>
       \A r \in DOMAIN checks : r + 1 = work.round => AllMarked(r)
  /\ stage = "repairing" =>
       /\ work.round \in DOMAIN checks /\ ~Over(work.round) /\ work.at >= 1
       /\ work.warned \/ \A i \in Flagged : i < work.at => <<work.round, i>> \in marks

RepairsInv == WorkKnown /\ TextsKnown /\ ReviewsKnown /\ RoundsKnown

LEMMA RepairsInit == Init => RepairsInv
<1> SUFFICES ASSUME Init PROVE RepairsInv
  OBVIOUS
<1>1. /\ stage = "ended" /\ saved = <<>> /\ checks = <<>> /\ marks = {} /\ startAt = 0
      /\ work = NoWork
  BY DEF Init, ReadingInit
<1>2. saved \in [DOMAIN saved -> Nat] /\ DOMAIN checks = {}
  BY <1>1
<1>3. NoWork \in Memory
  BY DEF NoWork, Memory
<1>4. QED
  BY <1>1, <1>2, <1>3
  DEF RepairsInv, WorkKnown, TextsKnown, ReviewsKnown, RoundsKnown, Drafting

\* The sections of an outline are a sequence.
LEMMA SectionsCounted ==
  ASSUME AgreedInv, OrderInv, stage \in Drafting
  PROVE  /\ Len(outline.sections) \in Nat /\ Section = 1..Len(outline.sections)
         /\ outline # NoPlan
<1>1. outline # NoPlan /\ outline = candidate
  BY DEF AgreedInv, OutlineKept
<1>2. outline.sections \in Seq(SUBSET Nat)
  BY <1>1 DEF OrderInv
<1>3. QED  BY <1>1, <1>2 DEF Section

\* As long as the outline stays, so do its sections and their keys.
LEMMA SameOutline ==
  ASSUME outline' = outline
  PROVE  Section' = Section /\ \A i : KeyOf(i)' = KeyOf(i)
BY DEF Section, KeyOf

LEMMA SameTexts ==
  ASSUME UNCHANGED <<outline, saved>>
  PROVE  Section' = Section /\ \A i : Val(i)' = Val(i) /\ (IsSaved(i)' <=> IsSaved(i))
BY SameOutline DEF Val, IsSaved

\* Saving a section never takes an older text for a newer one, and loses none.
LEMMA SavingGrows ==
  ASSUME saved \in [DOMAIN saved -> Nat], outline' = outline,
         NEW i, NEW text \in Nat, IsSaved(i) => text >= saved[KeyOf(i)], Saving(i, text)
  PROVE  /\ saved' \in [DOMAIN saved' -> Nat] /\ IsSaved(i)' /\ Val(i)' = text
         /\ \A j : Val(j) \in Nat /\ Val(j)' \in Nat /\ Val(j)' >= Val(j)
                  /\ (IsSaved(j) => IsSaved(j)')
<1>1. /\ DOMAIN saved' = DOMAIN saved \cup {KeyOf(i)} /\ saved'[KeyOf(i)] = text
      /\ \A k \in DOMAIN saved : k # KeyOf(i) => saved'[k] = saved[k]
      /\ saved' \in [DOMAIN saved' -> Nat]
  BY DEF Saving
<1>2. \A j : KeyOf(j)' = KeyOf(j)
  BY SameOutline
<1>3. IsSaved(i)' /\ Val(i)' = text
  BY <1>1, <1>2 DEF IsSaved, Val
<1>4. ASSUME NEW j
      PROVE  /\ Val(j) \in Nat /\ Val(j)' \in Nat /\ Val(j)' >= Val(j)
             /\ (IsSaved(j) => IsSaved(j)')
  <2>1. CASE KeyOf(j) = KeyOf(i)
    BY <1>1, <1>2, <2>1 DEF IsSaved, Val
  <2>2. CASE KeyOf(j) # KeyOf(i)
    BY <1>1, <1>2, <2>2 DEF IsSaved, Val
  <2>3. QED  BY <2>1, <2>2
<1>5. QED  BY <1>1, <1>3, <1>4
\* Texts only get newer.
Grown ==
  /\ saved' \in [DOMAIN saved' -> Nat]
  /\ \A j : Val(j) \in Nat /\ Val(j)' \in Nat /\ Val(j)' >= Val(j)
           /\ (IsSaved(j) => IsSaved(j)')

LEMMA GrownSame ==
  ASSUME WorkKnown, UNCHANGED <<outline, saved>>
  PROVE  Grown
<1>1. \A j : Val(j) \in Nat
  BY DEF WorkKnown, Val, IsSaved
<1>2. QED  BY <1>1, SameTexts DEF Grown, WorkKnown

LEMMA GrownSaving ==
  ASSUME WorkKnown, outline' = outline, NEW i, NEW text \in Nat,
         IsSaved(i) => text >= saved[KeyOf(i)], Saving(i, text)
  PROVE  Grown /\ IsSaved(i)' /\ Val(i)' = text
BY SavingGrows DEF Grown, WorkKnown

LEMMA ReviewsKept ==
  ASSUME ReviewsKnown, Grown, UNCHANGED <<outline, checks, marks, startAt>>
  PROVE  ReviewsKnown'
<1>1. Section' = Section
  BY SameOutline
<1>2. ASSUME NEW r \in DOMAIN checks
      PROVE  /\ r \in Nat /\ r >= startAt /\ checks[r].flagged \subseteq Section
             /\ \A i \in Section : checks[r].of[i] \in Nat /\ checks[r].of[i] <= Val(i)'
  BY DEF ReviewsKnown, Grown
<1>3. ASSUME NEW mark \in marks
      PROVE  /\ mark[1] \in DOMAIN checks /\ mark[2] \in Section /\ IsSaved(mark[2])'
             /\ checks[mark[1]].of[mark[2]] < Val(mark[2])'
  BY DEF ReviewsKnown, Grown
<1>4. QED  BY <1>1, <1>2, <1>3 DEF ReviewsKnown

\* Steps outside the writing, that keep what the reviews are about.
LEMMA RepairsQuiet ==
  ASSUME RepairsInv, UNCHANGED <<outline, saved, checks, marks, startAt>>, stage' \notin Drafting,
         \/ work' = NoWork
         \/ work' = work /\ stage \in BeforeWriting \cup {"ended"}
         \/ work' = work /\ stage' = "failing"
  PROVE  RepairsInv'
<1>1. NoWork \in Memory
  BY DEF NoWork, Memory
<1>2. WorkKnown'
  BY <1>1 DEF RepairsInv, WorkKnown, BeforeWriting
<1>3. TextsKnown'
  BY DEF TextsKnown, Drafting
<1>4. ReviewsKnown'
  BY GrownSame, ReviewsKept DEF RepairsInv
<1>5. RoundsKnown'
  BY DEF RepairsInv, RoundsKnown, Over, AllMarked, Drafting
<1>6. QED  BY <1>2, <1>3, <1>4, <1>5 DEF RepairsInv

\* Steps that discard the reviews with the outline.
LEMMA RepairsDiscarded ==
  ASSUME RepairsInv, saved' = saved, checks' = <<>>, marks' = {}, startAt' \in Nat,
         work' = NoWork, stage' \notin Drafting
  PROVE  RepairsInv'
<1>1. NoWork \in Memory
  BY DEF NoWork, Memory
<1>2. DOMAIN checks' = {}
  OBVIOUS
<1>3. WorkKnown'
  BY <1>1 DEF RepairsInv, WorkKnown
<1>4. TextsKnown' /\ ReviewsKnown' /\ RoundsKnown'
  BY <1>2 DEF TextsKnown, ReviewsKnown, RoundsKnown, Drafting
<1>5. QED  BY <1>3, <1>4 DEF RepairsInv

\* An attempt begins to write: with the outline's reviews, or with none as yet.
LEMMA WritingBegins ==
  ASSUME RepairsInv, UNCHANGED <<saved, checks, marks, startAt>>,
         stage' = "writing", work' = NoWork,
         outline' = outline \/ outline = NoPlan, outline' # NoPlan,
         Len(outline'.sections) \in Nat
  PROVE  RepairsInv'
<1>1. NoWork \in Memory
      /\ NoWork.at = 1 /\ NoWork.texts = <<>>
  BY DEF NoWork, Memory
<1>2. WorkKnown'
  BY <1>1 DEF RepairsInv, WorkKnown, BeforeWriting
<1>3. TextsKnown'
  BY <1>1 DEF TextsKnown
<1>4. ReviewsKnown'
  <2>1. CASE outline' = outline
    BY <2>1, GrownSame, ReviewsKept DEF RepairsInv
  <2>2. CASE outline = NoPlan
    <3>1. DOMAIN checks' = {} /\ marks' = {}
      BY <2>2 DEF RepairsInv, ReviewsKnown
    <3>2. QED  BY <3>1 DEF ReviewsKnown
  <2>3. QED  BY <2>1, <2>2
<1>5. RoundsKnown'
  BY DEF RepairsInv, RoundsKnown, Over, AllMarked
<1>6. QED  BY <1>2, <1>3, <1>4, <1>5 DEF RepairsInv
LEMMA Appended ==
  ASSUME NEW s \in Seq(Nat), NEW t \in Nat
  PROVE  /\ DOMAIN Append(s, t) = 1..Len(s) + 1 /\ Len(Append(s, t)) = Len(s) + 1
         /\ Append(s, t)[Len(s) + 1] = t
         /\ \A j \in 1..Len(s) : /\ Append(s, t)[j] = s[j]
                               /\ j \in DOMAIN s /\ s[j] \in Nat
OBVIOUS

\* One more section's text is at hand.
LEMMA SectionTaken ==
  ASSUME AgreedInv, OrderInv, RepairsInv, NEW i, At(i), stage' = "writing",
         UNCHANGED <<outline, checks, marks, startAt>>, Grown,
         NEW text \in Nat, text <= Val(i)', IsSaved(i)' \/ work'.warned,
         work' \in Memory,
         work'.at = work.at + 1, work'.texts = Append(work.texts, text),
         work.warned => work'.warned
  PROVE  RepairsInv'
<1>1. /\ Len(outline.sections) \in Nat /\ Section = 1..Len(outline.sections)
      /\ stage = "writing" /\ i = work.at /\ i \in Section
  BY SectionsCounted DEF At, Drafting
<1>2. WorkKnown'
  BY DEF RepairsInv, WorkKnown, Grown, BeforeWriting
<1>3. work.texts \in Seq(Nat) /\ Len(work.texts) = i - 1
  BY <1>1 DEF RepairsInv, WorkKnown, TextsKnown, Memory
<1>4. /\ Len(work'.texts) = i /\ DOMAIN work'.texts = 1..i /\ work'.texts[i] = text
      /\ \A j \in 1..i - 1 : /\ j \in DOMAIN work.texts /\ work.texts[j] \in Nat
                           /\ work'.texts[j] = work.texts[j]
  <2>1. Len(work.texts) + 1 = i
    BY <1>1, <1>3
  <2>2. QED  BY <1>3, <2>1, Appended
<1>5. ASSUME NEW j \in DOMAIN work'.texts
      PROVE  work'.texts[j] <= Val(j)' /\ (IsSaved(j)' \/ work'.warned)
  <2>1. CASE j = i
    BY <1>4, <2>1
  <2>2. CASE j # i
    <3>1. j \in 1..i - 1
      BY <1>1, <1>4, <2>2
    <3>2. j \in DOMAIN work.texts /\ work'.texts[j] = work.texts[j] /\ work.texts[j] \in Nat
      BY <1>4, <3>1
    <3>3. work.texts[j] <= Val(j) /\ (IsSaved(j) \/ work.warned)
      BY <1>1, <3>2 DEF RepairsInv, TextsKnown, Drafting
    <3>4. Val(j) \in Nat /\ Val(j)' \in Nat /\ Val(j) <= Val(j)' /\ (IsSaved(j) => IsSaved(j)')
      BY DEF Grown
    <3>5. QED  BY <3>2, <3>3, <3>4
  <2>3. QED  BY <2>1, <2>2
<1>6. TextsKnown'
  <2>1. i \in Nat /\ work'.at = i + 1 /\ outline' = outline /\ Len(work'.texts) = i
    BY <1>1, <1>4
  <2>2. i + 1 \in 1..Len(outline.sections) + 1
    BY <1>1
  <2>3. work'.at \in 1..Len(outline'.sections) + 1
    BY <2>1, <2>2, Zenon
  <2>4. Len(work'.texts) = work'.at - 1
    BY <2>1
  <2>5. QED  BY <1>5, <2>3, <2>4 DEF TextsKnown
<1>7. ReviewsKnown'
  BY ReviewsKept DEF RepairsInv
<1>8. RoundsKnown'
  BY DEF RepairsInv, RoundsKnown, Over, AllMarked
<1>9. QED  BY <1>2, <1>6, <1>7, <1>8 DEF RepairsInv

\* One more section is repaired, given up or was not due.
LEMMA SectionPassed ==
  ASSUME AgreedInv, OrderInv, RepairsInv, NEW i, Repairing(i), stage' = "repairing",
         UNCHANGED <<outline, checks, startAt>>, Grown,
         work' \in Memory,
         work'.at = work.at + 1, work'.round = work.round, work.warned => work'.warned,
         Len(work'.texts) = Len(work.texts),
         \A j \in DOMAIN work.texts : work'.texts[j] = work.texts[j] \/ work'.texts[j] <= Val(j)',
         \/ marks' = marks
         \/ /\ marks' = marks \cup {<<work.round, i>>}
            /\ IsSaved(i)' /\ checks[work.round].of[i] < Val(i)',
         i \notin Flagged \/ <<work.round, i>> \in marks' \/ work'.warned
  PROVE  RepairsInv'
<1>1. /\ Len(outline.sections) \in Nat /\ Section = 1..Len(outline.sections) /\ Section' = Section
      /\ stage = "repairing" /\ i = work.at /\ i \in Section
  BY SectionsCounted, SameOutline DEF Repairing, Drafting
<1>2. WorkKnown'
  BY DEF RepairsInv, WorkKnown, Grown, BeforeWriting
<1>3. TextsKnown'
  <2>1. /\ work.texts \in Seq(Nat) /\ work'.texts \in Seq(Nat)
        /\ DOMAIN work'.texts = DOMAIN work.texts
    BY DEF RepairsInv, WorkKnown, Memory
  <2>2. ASSUME NEW j \in DOMAIN work'.texts
        PROVE  work'.texts[j] <= Val(j)' /\ (IsSaved(j)' \/ work'.warned)
    <3>1. j \in DOMAIN work.texts /\ work.texts[j] \in Nat
      BY <2>1
    <3>2. work.texts[j] <= Val(j) /\ (IsSaved(j) \/ work.warned)
      BY <1>1, <3>1 DEF RepairsInv, TextsKnown, Drafting
    <3>3. Val(j) \in Nat /\ Val(j)' \in Nat /\ Val(j) <= Val(j)' /\ (IsSaved(j) => IsSaved(j)')
      BY DEF Grown
    <3>4. work'.texts[j] <= Val(j)'
      BY <3>1, <3>2, <3>3
    <3>5. QED  BY <3>2, <3>3, <3>4
  <2>3. Len(work'.texts) = Len(outline'.sections) /\ \A j \in Section' : IsSaved(j)'
    BY <1>1 DEF RepairsInv, TextsKnown, Grown
  <2>4. QED  BY <2>2, <2>3 DEF TextsKnown
<1>4. ReviewsKnown'
  <2>1. ASSUME NEW r \in DOMAIN checks
        PROVE  /\ r \in Nat /\ r >= startAt /\ checks[r].flagged \subseteq Section
               /\ \A j \in Section : checks[r].of[j] \in Nat /\ checks[r].of[j] <= Val(j)'
    BY DEF RepairsInv, ReviewsKnown, Grown
  <2>2. ASSUME NEW mark \in marks'
        PROVE  /\ mark[1] \in DOMAIN checks /\ mark[2] \in Section /\ IsSaved(mark[2])'
               /\ checks[mark[1]].of[mark[2]] < Val(mark[2])'
    <3>1. CASE mark \in marks
      BY <3>1 DEF RepairsInv, ReviewsKnown, Grown
    <3>2. CASE mark = <<work.round, i>> /\ IsSaved(i)' /\ checks[work.round].of[i] < Val(i)'
      BY <1>1, <3>2 DEF RepairsInv, RoundsKnown
    <3>3. QED  BY <3>1, <3>2
  <2>3. outline # NoPlan
    BY <1>1, SectionsCounted DEF Drafting
  <2>4. QED  BY <1>1, <2>1, <2>2, <2>3 DEF ReviewsKnown
<1>5. RoundsKnown'
  <2>1. marks \subseteq marks' /\ Flagged' = Flagged
    BY DEF Flagged
  <2>2. work.at \in Nat /\ Flagged \subseteq Section
    BY <1>1 DEF RepairsInv, WorkKnown, RoundsKnown, ReviewsKnown, Flagged
  <2>3. work'.warned \/ \A j \in Flagged : j < work'.at => <<work.round, j>> \in marks'
    BY <1>1, <2>1, <2>2 DEF RepairsInv, RoundsKnown
  <2>4. work'.round >= startAt' /\ work'.round \in DOMAIN checks' /\ work'.at >= 1
    BY <1>1, <2>2 DEF RepairsInv, RoundsKnown
  <2>5. \A r \in DOMAIN checks' : Over(r)' /\ ~checks'[r + 1].warned => AllMarked(r)'
    BY <2>1 DEF RepairsInv, RoundsKnown, Over, AllMarked
  <2>6. ~(work'.round + 1 \in DOMAIN checks')
    BY <1>1 DEF RepairsInv, RoundsKnown, Over
  <2>7. stage' = "repairing" /\ Flagged' = Flagged /\ work'.round = work.round
    BY <2>1
  <2>8. QED  BY <2>3, <2>4, <2>5, <2>6, <2>7 DEF RoundsKnown, Over
<1>6. QED  BY <1>2, <1>3, <1>4, <1>5 DEF RepairsInv
\* What a step makes of the attempt's memory, field by field.
Remember(at, round, texts, changed, warned) ==
  work' = [at |-> at, round |-> round, texts |-> texts, changed |-> changed, warned |-> warned]

LEMMA Remembered ==
  ASSUME work \in Memory
  PROVE  /\ work.at \in Nat /\ work.at + 1 \in Nat /\ work.round \in Nat /\ work.round + 1 \in Nat
         /\ work.texts \in Seq(Nat) /\ work.changed \in BOOLEAN /\ work.warned \in BOOLEAN
         /\ \A t \in Nat : Append(work.texts, t) \in Seq(Nat)
BY DEF Memory

LEMMA RepairsWriting ==
  ASSUME AgreedInv, OrderInv, RepairsInv, NEW i \in Section,
         \/ ReuseSection(i) \/ RewriteSaved(i) \/ WriteSection(i) \/ KeepUnresolved(i)
  PROVE  RepairsInv'
<1>1. /\ WorkKnown /\ work \in Memory /\ stage = "writing" /\ At(i) /\ stage' = "writing"
      /\ UNCHANGED <<outline, checks, marks, startAt>>
  BY DEF ReuseSection, RewriteSaved, WriteSection, KeepUnresolved, Leaving, Goto, At, RepairsInv,
         WorkKnown
<1>2. IsSaved(i) => saved[KeyOf(i)] \in Nat /\ Val(i) = saved[KeyOf(i)]
  BY <1>1 DEF WorkKnown, IsSaved, Val
<1>3. ASSUME NEW text \in Nat, text <= Val(i)', Grown, NEW changed \in BOOLEAN, NEW warned \in BOOLEAN,
             IsSaved(i)' \/ warned, work.warned => warned,
             Remember(work.at + 1, work.round, Append(work.texts, text), changed, warned)
      PROVE  RepairsInv'
  <2>1. /\ work' \in Memory /\ work'.at = work.at + 1
        /\ work'.texts = Append(work.texts, text) /\ work'.warned = warned
    BY <1>1, <1>3, Remembered DEF Remember, Memory
  <2>2. QED  BY <1>1, <1>3, <2>1, SectionTaken
<1>4. CASE ReuseSection(i)
  <2>1. Remember(work.at + 1, work.round, Append(work.texts, saved[KeyOf(i)]), work.changed,
                 work.warned)
    BY <1>1, <1>4 DEF ReuseSection, Took, Remember, Memory
  <2>2. IsSaved(i) /\ saved' = saved
    BY <1>4 DEF ReuseSection
  <2>3. Grown /\ Val(i)' = Val(i) /\ IsSaved(i)'
    BY <1>1, <2>2, GrownSame, SameTexts
  <2>4. QED  BY <1>1, <1>2, <1>3, <2>1, <2>2, <2>3, Remembered
<1>5. CASE RewriteSaved(i)
  <2>1. Remember(work.at + 1, work.round, Append(work.texts, saved[KeyOf(i)] + 1), TRUE,
                 work.warned)
    BY <1>1, <1>5 DEF RewriteSaved, Remember, Memory
  <2>2. IsSaved(i) /\ Saving(i, saved[KeyOf(i)] + 1)
    BY <1>5 DEF RewriteSaved
  <2>3. Grown /\ Val(i)' = saved[KeyOf(i)] + 1 /\ IsSaved(i)' /\ saved[KeyOf(i)] + 1 \in Nat
    BY <1>1, <1>2, <2>2, GrownSaving
  <2>4. /\ saved[KeyOf(i)] + 1 \in Nat /\ saved[KeyOf(i)] + 1 <= Val(i)'
        /\ TRUE \in BOOLEAN /\ work.warned \in BOOLEAN
    BY <1>1, <2>3, Remembered
  <2>5. QED  BY <1>3, <2>1, <2>3, <2>4, Zenon
<1>6. CASE WriteSection(i)
  <2>1. Remember(work.at + 1, work.round, Append(work.texts, 1), work.changed, work.warned)
    BY <1>1, <1>6 DEF WriteSection, Took, Remember, Memory
  <2>2. ~IsSaved(i) /\ Saving(i, 1)
    BY <1>6 DEF WriteSection
  <2>3. Grown /\ Val(i)' = 1 /\ IsSaved(i)'
    BY <1>1, <2>2, GrownSaving
  <2>4. QED  BY <1>1, <1>3, <2>1, <2>3, Remembered
<1>7. CASE KeepUnresolved(i)
  <2>1. Remember(work.at + 1, work.round, Append(work.texts, 0), work.changed, TRUE)
    BY <1>1, <1>7 DEF KeepUnresolved, Remember, Memory
  <2>2. saved' = saved
    BY <1>7 DEF KeepUnresolved
  <2>3. Grown /\ 0 <= Val(i)'
    BY <1>1, <2>2, GrownSame DEF Grown
  <2>4. 0 \in Nat /\ work.changed \in BOOLEAN /\ TRUE \in BOOLEAN /\ (work.warned => TRUE)
    BY <1>1, Remembered
  <2>5. QED  BY <1>3, <2>1, <2>3, <2>4, Zenon
<1>8. QED  BY <1>4, <1>5, <1>6, <1>7

LEMMA RepairsRepairing ==
  ASSUME AgreedInv, OrderInv, RepairsInv, NEW i \in Section,
         RepairSection(i) \/ RepairUnresolved(i) \/ SkipRepair(i)
  PROVE  RepairsInv'
<1>1. /\ WorkKnown /\ work \in Memory /\ stage = "repairing" /\ Repairing(i)
      /\ stage' = "repairing" /\ UNCHANGED <<outline, checks, startAt>>
  BY DEF RepairSection, RepairUnresolved, SkipRepair, Leaving, Goto, Repairing, RepairsInv,
         WorkKnown
<1>2. CASE RepairSection(i)
  <2> DEFINE text == saved[KeyOf(i)] + 1
             texts == [work.texts EXCEPT ![i] = text]
  <2>1. /\ Due(i) /\ Saving(i, text) /\ marks' = marks \cup {<<work.round, i>>}
    BY <1>2 DEF RepairSection, Repaired
  <2>2. Remember(work.at + 1, work.round, texts, work.changed, work.warned)
    BY <1>1, <1>2 DEF RepairSection, Remember, Memory
  <2>3. IsSaved(i) /\ saved[KeyOf(i)] \in Nat /\ Val(i) = saved[KeyOf(i)]
    <3>1. IsSaved(i)
      BY <1>1 DEF RepairsInv, TextsKnown
    <3>2. QED  BY <1>1, <3>1 DEF WorkKnown, IsSaved, Val
  <2>4. Grown /\ IsSaved(i)' /\ Val(i)' = text /\ text \in Nat
    BY <1>1, <2>1, <2>3, GrownSaving
  <2>5. work.texts \in Seq(Nat) /\ i \in 1..Len(work.texts)
    BY <1>1, SectionsCounted, Remembered DEF RepairsInv, TextsKnown, Drafting
  <2>6. /\ texts \in Seq(Nat) /\ Len(texts) = Len(work.texts)
        /\ \A j \in 1..Len(work.texts) : texts[j] = IF j = i THEN text ELSE work.texts[j]
    <3> HIDE DEF text
    <3>1. QED  BY <2>4, <2>5, ExceptSeq
  <2>7. checks[work.round].of[i] < Val(i)'
    <3>1. checks[work.round].of[i] \in Nat /\ checks[work.round].of[i] <= Val(i)
      BY <1>1 DEF RepairsInv, RoundsKnown, ReviewsKnown
    <3>2. QED  BY <2>3, <2>4, <3>1
  <2> HIDE DEF text, texts
  <2>8. /\ work' \in Memory /\ work'.at = work.at + 1 /\ work'.round = work.round
        /\ work'.texts = texts /\ work'.warned = work.warned
    BY <1>1, <2>2, <2>6, Remembered DEF Remember, Memory
  <2>9. ASSUME NEW j \in DOMAIN work.texts
        PROVE  work'.texts[j] = work.texts[j] \/ work'.texts[j] <= Val(j)'
    <3>1. j \in 1..Len(work.texts)
      BY <2>5
    <3>2. texts[j] = IF j = i THEN text ELSE work.texts[j]
      BY <2>6, <3>1
    <3>3. text <= Val(i)'
      BY <2>4
    <3>4. QED  BY <2>8, <3>2, <3>3, Zenon
  <2>10. QED  BY <1>1, <2>1, <2>4, <2>6, <2>7, <2>8, <2>9, SectionPassed
<1>3. CASE RepairUnresolved(i)
  <2>1. Remember(work.at + 1, work.round, work.texts, work.changed, TRUE)
    BY <1>1, <1>3 DEF RepairUnresolved, Remember, Memory
  <2>2. saved' = saved /\ marks' = marks
    BY <1>3 DEF RepairUnresolved
  <2>3. /\ work' \in Memory /\ work'.at = work.at + 1 /\ work'.round = work.round
        /\ work'.texts = work.texts /\ work'.warned = TRUE
    BY <1>1, <2>1, Remembered DEF Remember, Memory
  <2>4. QED  BY <1>1, <2>2, <2>3, GrownSame, SectionPassed
<1>4. CASE SkipRepair(i)
  <2>1. Remember(work.at + 1, work.round, work.texts, work.changed, work.warned)
    BY <1>1, <1>4 DEF SkipRepair, Remember, Memory
  <2>2. ~Due(i) /\ saved' = saved /\ marks' = marks
    BY <1>4 DEF SkipRepair
  <2>3. /\ work' \in Memory /\ work'.at = work.at + 1 /\ work'.round = work.round
        /\ work'.texts = work.texts /\ work'.warned = work.warned
    BY <1>1, <2>1, Remembered DEF Remember, Memory
  <2>4. QED  BY <1>1, <2>2, <2>3, GrownSame, SectionPassed DEF Due
<1>5. QED  BY <1>2, <1>3, <1>4
\* Between two rounds the texts stay.
LEMMA TextsCarried ==
  ASSUME AgreedInv, OrderInv, RepairsInv, stage \in {"checking", "repairing"},
         stage' \in {"checking", "repairing"}, UNCHANGED <<outline, saved, startAt>>,
         work' \in Memory, work'.texts = work.texts, work'.warned = work.warned,
         stage' = "repairing" => stage = "repairing" \/ ~work.warned
  PROVE  WorkKnown' /\ TextsKnown'
<1>1. WorkKnown'
  BY DEF RepairsInv, WorkKnown, BeforeWriting
<1>2. Section = 1..Len(outline.sections) /\ Section' = Section
  BY SectionsCounted, SameOutline DEF Drafting
<1>3. /\ work.texts \in Seq(Nat) /\ Len(work.texts) = Len(outline.sections)
      /\ DOMAIN work.texts = Section
      /\ \A i \in Section : work.texts[i] <= Val(i) /\ (IsSaved(i) \/ work.warned)
  BY <1>2, Remembered DEF RepairsInv, WorkKnown, TextsKnown, Drafting
<1>4. \A i : Val(i)' = Val(i) /\ (IsSaved(i)' <=> IsSaved(i))
  BY SameTexts
<1>5. stage' = "repairing" => \A i \in Section : IsSaved(i)
  BY <1>3 DEF RepairsInv, TextsKnown
<1>6. TextsKnown'
  BY <1>2, <1>3, <1>4, <1>5 DEF TextsKnown
<1>7. QED  BY <1>1, <1>6

LEMMA RepairsReviewing ==
  ASSUME AgreedInv, OrderInv, RepairsInv,
         AllWritten \/ SkipRound \/ ReviewDocument \/ StartRepairs \/ EndRound
  PROVE  RepairsInv'
<1>1. /\ WorkKnown /\ work \in Memory /\ stage \in Drafting /\ UNCHANGED <<outline, saved, startAt>>
      /\ outline # NoPlan /\ Section = 1..Len(outline.sections) /\ Len(outline.sections) \in Nat
  <2>1. stage \in Drafting
    BY DEF AllWritten, SkipRound, ReviewDocument, StartRepairs, EndRound, Unchecked, Checked,
           Drafting
  <2>2. UNCHANGED <<outline, saved, startAt>>
    BY DEF AllWritten, SkipRound, ReviewDocument, StartRepairs, EndRound, Leaving
  <2>3. QED  BY <2>1, <2>2, SectionsCounted DEF RepairsInv, WorkKnown
<1>2. CASE AllWritten
  <2>1. /\ stage = "writing" /\ stage' = "checking" /\ work.at > Len(outline.sections)
        /\ (checks' = <<>> /\ marks' = {}) \/ UNCHANGED <<checks, marks>>
    BY <1>2 DEF AllWritten, Goto
  <2>2. Remember(1, startAt, work.texts, FALSE, work.warned)
    BY <1>1, <1>2 DEF AllWritten, Remember, Memory
  <2>3. /\ work' \in Memory /\ work'.round = startAt
        /\ work'.texts = work.texts /\ work'.warned = work.warned
    BY <1>1, <2>2, Remembered DEF Remember, Memory, WorkKnown
  <2>4. WorkKnown'
    BY <1>1, <2>1, <2>3 DEF WorkKnown, BeforeWriting
  <2>5. TextsKnown'
    <3>1. Len(work.texts) = Len(outline.sections)
      BY <1>1, <2>1 DEF RepairsInv, TextsKnown
    <3>2. \A i \in DOMAIN work.texts : work.texts[i] <= Val(i) /\ (IsSaved(i) \/ work.warned)
      BY <1>1 DEF RepairsInv, TextsKnown
    <3>3. QED  BY <1>1, <2>1, <2>3, <3>1, <3>2, SameTexts DEF TextsKnown
  <2>6. CASE UNCHANGED <<checks, marks>>
    <3>1. ReviewsKnown'
      BY <1>1, <2>6, GrownSame, ReviewsKept DEF RepairsInv
    <3>2. \A r \in DOMAIN checks : r \in Nat /\ r >= startAt
      BY DEF RepairsInv, ReviewsKnown
    <3>3. startAt \in Nat
      BY <1>1 DEF WorkKnown
    <3>4. RoundsKnown'
      BY <1>1, <2>1, <2>3, <2>6, <3>2, <3>3 DEF RepairsInv, RoundsKnown, Over, AllMarked
    <3>5. QED  BY <2>4, <2>5, <3>1, <3>4 DEF RepairsInv
  <2>7. CASE checks' = <<>> /\ marks' = {}
    <3>1. DOMAIN checks' = {} /\ startAt \in Nat
      BY <1>1, <2>7 DEF WorkKnown
    <3>2. ReviewsKnown' /\ RoundsKnown'
      BY <1>1, <2>1, <2>3, <2>7, <3>1 DEF ReviewsKnown, RoundsKnown
    <3>3. QED  BY <2>4, <2>5, <3>2 DEF RepairsInv
  <2>8. QED  BY <2>1, <2>6, <2>7
<1>3. CASE SkipRound
  <2>1. /\ stage = "checking" /\ stage' = "checking" /\ UNCHANGED <<checks, marks>>
        /\ work.round + 1 \in DOMAIN checks
    BY <1>3 DEF SkipRound, Goto, Over
  <2>2. Remember(work.at, work.round + 1, work.texts, work.changed, work.warned)
    BY <1>1, <1>3 DEF SkipRound, Remember, Memory
  <2>3. /\ work' \in Memory /\ work'.round = work.round + 1
        /\ work'.texts = work.texts /\ work'.warned = work.warned
    BY <1>1, <2>2, Remembered DEF Remember, Memory
  <2>4. WorkKnown' /\ TextsKnown'
    BY <1>1, <2>1, <2>3, TextsCarried
  <2>5. ReviewsKnown'
    BY <1>1, <2>1, GrownSame, ReviewsKept DEF RepairsInv
  <2>6. work.round \in Nat /\ startAt \in Nat
    BY <1>1, Remembered DEF WorkKnown
  <2>7. RoundsKnown'
    BY <1>1, <2>1, <2>3, <2>6 DEF RepairsInv, RoundsKnown, Over, AllMarked
  <2>8. QED  BY <2>4, <2>5, <2>7 DEF RepairsInv
<1>4. CASE ReviewDocument
  <2>1. /\ stage = "checking" /\ stage' = "checking" /\ work' = work /\ marks' = marks
        /\ work.round \notin DOMAIN checks /\ ~Over(work.round)
    BY <1>4 DEF ReviewDocument, Unchecked
  <2>2. PICK flagged \in {{}, Section} \cup {{i} : i \in Section} :
          checks' = [r \in DOMAIN checks \cup {work.round} |->
                       IF r # work.round THEN checks[r]
                       ELSE [flagged |-> flagged, of |-> work.texts, warned |-> work.warned]]
    BY <1>4 DEF ReviewDocument
  <2>3. /\ DOMAIN checks' = DOMAIN checks \cup {work.round}
        /\ \A r \in DOMAIN checks : r # work.round /\ checks'[r] = checks[r]
        /\ checks'[work.round].flagged = flagged /\ checks'[work.round].of = work.texts
        /\ checks'[work.round].warned = work.warned
    BY <2>1, <2>2
  <2>4. /\ work.round \in Nat /\ work.texts \in Seq(Nat) /\ startAt \in Nat
        /\ work.round >= startAt /\ flagged \subseteq Section
    BY <1>1, <2>1, Remembered DEF WorkKnown, RepairsInv, RoundsKnown
  <2>5. WorkKnown' /\ TextsKnown'
    BY <1>1, <2>1, TextsCarried
  <2>6. Section' = Section /\ \A i : Val(i)' = Val(i) /\ (IsSaved(i)' <=> IsSaved(i))
    BY <1>1, SameTexts
  <2>7. \A i \in Section : work.texts[i] \in Nat /\ work.texts[i] <= Val(i)
    <3>1. DOMAIN work.texts = Section
      BY <1>1, <2>1, <2>4 DEF RepairsInv, TextsKnown
    <3>2. QED  BY <1>1, <2>4, <3>1 DEF RepairsInv, TextsKnown
  <2>8. ReviewsKnown'
    <3>1. ASSUME NEW r \in DOMAIN checks'
          PROVE  /\ r \in Nat /\ r >= startAt /\ checks'[r].flagged \subseteq Section
                 /\ \A i \in Section : checks'[r].of[i] \in Nat /\ checks'[r].of[i] <= Val(i)
      <4>1. CASE r = work.round
        BY <2>3, <2>4, <2>7, <4>1
      <4>2. CASE r \in DOMAIN checks
        BY <2>3, <4>2 DEF RepairsInv, ReviewsKnown
      <4>3. QED  BY <2>3, <4>1, <4>2
    <3>2. ASSUME NEW mark \in marks
          PROVE  /\ mark[1] \in DOMAIN checks' /\ mark[2] \in Section /\ IsSaved(mark[2])
                 /\ checks'[mark[1]].of[mark[2]] < Val(mark[2])
      BY <2>3 DEF RepairsInv, ReviewsKnown
    <3>3. QED  BY <1>1, <2>1, <2>6, <3>1, <3>2 DEF ReviewsKnown
  <2>9. RoundsKnown'
    <3>1. ASSUME NEW r \in DOMAIN checks', r + 1 \in DOMAIN checks', ~checks'[r + 1].warned
          PROVE  \A i \in checks'[r].flagged : <<r, i>> \in marks
      <4>1. r \in DOMAIN checks
        BY <2>1, <2>3, <3>1, <2>4 DEF Over
      <4>2. CASE r + 1 = work.round
        BY <2>1, <2>3, <3>1, <4>1, <4>2 DEF RepairsInv, RoundsKnown, AllMarked
      <4>3. CASE r + 1 \in DOMAIN checks
        BY <2>3, <3>1, <4>1, <4>3 DEF RepairsInv, RoundsKnown, AllMarked, Over
      <4>4. QED  BY <2>3, <3>1, <4>2, <4>3
    <3>2. QED  BY <1>1, <2>1, <2>3, <2>4, <3>1 DEF RoundsKnown, Over, AllMarked
  <2>10. QED  BY <2>5, <2>8, <2>9 DEF RepairsInv
<1>5. CASE StartRepairs
  <2>1. /\ stage = "checking" /\ stage' = "repairing" /\ UNCHANGED <<checks, marks>>
        /\ work.round \in DOMAIN checks /\ ~Over(work.round) /\ ~work.warned
    BY <1>5 DEF StartRepairs, Goto, Checked, LastRound
  <2>2. Remember(1, work.round, work.texts, work.changed, work.warned)
    BY <1>1, <1>5 DEF StartRepairs, Remember, Memory
  <2>3. /\ work' \in Memory /\ work'.at = 1 /\ work'.round = work.round
        /\ work'.texts = work.texts /\ work'.warned = work.warned
    BY <1>1, <2>2, Remembered DEF Remember, Memory
  <2>4. WorkKnown' /\ TextsKnown'
    BY <1>1, <2>1, <2>3, TextsCarried
  <2>5. ReviewsKnown'
    BY <1>1, <2>1, GrownSame, ReviewsKept DEF RepairsInv
  <2>6. Flagged' \subseteq 1..Len(outline.sections)
    BY <1>1, <2>1, <2>3 DEF RepairsInv, ReviewsKnown, Flagged
  <2>7. RoundsKnown'
    BY <1>1, <2>1, <2>3, <2>6 DEF RepairsInv, RoundsKnown, Over, AllMarked
  <2>8. QED  BY <2>4, <2>5, <2>7 DEF RepairsInv
<1>6. CASE EndRound
  <2>1. /\ stage = "repairing" /\ stage' = "checking" /\ UNCHANGED <<checks, marks>>
        /\ work.at > Len(outline.sections)
    BY <1>6 DEF EndRound, Goto
  <2>2. Remember(1, work.round + 1, work.texts, work.changed, work.warned)
    BY <1>1, <1>6 DEF EndRound, Remember, Memory
  <2>3. /\ work' \in Memory /\ work'.round = work.round + 1
        /\ work'.texts = work.texts /\ work'.warned = work.warned
    BY <1>1, <2>2, Remembered DEF Remember, Memory
  <2>4. WorkKnown' /\ TextsKnown'
    BY <1>1, <2>1, <2>3, TextsCarried
  <2>5. ReviewsKnown'
    BY <1>1, <2>1, GrownSame, ReviewsKept DEF RepairsInv
  <2>6. work.round \in Nat /\ startAt \in Nat /\ work.at \in Nat
    BY <1>1, Remembered DEF WorkKnown
  <2>7. Flagged \subseteq 1..Len(outline.sections)
    BY <1>1, <2>1 DEF RepairsInv, RoundsKnown, ReviewsKnown, Flagged
  <2>8. ~work.warned => AllMarked(work.round)
    BY <1>1, <2>1, <2>6, <2>7 DEF RepairsInv, RoundsKnown, AllMarked, Flagged
  <2>9. ASSUME ~work.warned, NEW r \in DOMAIN checks, r + 1 = work.round + 1
        PROVE  AllMarked(r)
    <3>1. r = work.round
      BY <2>6, <2>9 DEF RepairsInv, ReviewsKnown
    <3>2. QED  BY <2>8, <2>9, <3>1
  <2>10. RoundsKnown'
    BY <1>1, <2>1, <2>3, <2>6, <2>9 DEF RepairsInv, RoundsKnown, Over, AllMarked
  <2>11. QED  BY <2>4, <2>5, <2>10 DEF RepairsInv
<1>7. QED  BY <1>2, <1>3, <1>4, <1>5, <1>6

LEMMA RepairsStep == AgreedInv /\ OrderInv /\ RepairsInv /\ [Next]_vars => RepairsInv'
<1> SUFFICES ASSUME AgreedInv, OrderInv, RepairsInv, [Next]_vars
             PROVE  RepairsInv'
  OBVIOUS
<1>1. ASSUME NEW plan, plan = candidate, plan # NoPlan
      PROVE  Len(plan.sections) \in Nat
  BY <1>1 DEF OrderInv
<1>2. CASE Start
  <2>1. /\ stage = "ended" /\ UNCHANGED <<outline, saved, checks, marks, startAt, work>>
        /\ stage' = PlanDocument
    BY <1>2 DEF Start, Goto
  <2>2. work' = NoWork
    BY <2>1 DEF RepairsInv, WorkKnown
  <2>3. CASE outline # NoPlan
    BY <1>1, <2>1, <2>2, <2>3, WritingBegins DEF PlanDocument, AgreedInv, OutlineKept
  <2>4. CASE outline = NoPlan
    BY <2>1, <2>2, <2>4, RepairsQuiet DEF PlanDocument, Drafting
  <2>5. QED  BY <2>3, <2>4
<1>3. CASE Stop \/ WorkerFails
  BY <1>3, RepairsQuiet DEF Stop, WorkerFails, End, Drafting
<1>4. CASE ReadingStep /\ UNCHANGED <<planning, document>>
  <2>1. stage = "reading" /\ stage' \in {"reading", "read", "failing"}
    BY <1>4
    DEF ReadingStep, RefuseReading, TakePart, CloseLastGroup, LeavesRead, Collect, PlanLevel,
        RefuseLevel, QueueGroup, LevelRead, FinishReading, Answer, AnswerUseless, AnswerMissing,
        AnswerRefused, Polled, Reading, Idle, Goto, Fail
  <2>2. QED  BY <1>4, <2>1, RepairsQuiet DEF Drafting, BeforeWriting
<1>5. CASE PlanningStep /\ UNCHANGED document
  <2>1. stage \in BeforeWriting /\ outline = NoPlan
    <3>1. stage \in BeforeWriting
      BY <1>5
      DEF PlanningStep, ReadPurpose, OutOfBudget, TakePending, PlanWhole, StartChapters,
          DivideChapters, ReusePart, PlanPart, JoinParts, JoinRefused, ReviewOutline, AddFindings,
          SettleOutline, AwaitApproval, GiveUpOutline, CorrectOutline, Judged, AllGathered,
          BeforeWriting
    <3>2. QED  BY <3>1 DEF AgreedInv, OutlineKept
  <2>2. work' = NoWork
    BY <1>5, <2>1 DEF RepairsInv, WorkKnown
  <2>3. CASE SettleOutline
    <3>1. stage = "reviewing" /\ stage' = "writing" /\ outline' = candidate
      BY <2>3 DEF SettleOutline, Judged, Goto
    <3>2. candidate # NoPlan
      BY <3>1 DEF AgreedInv, OutlineKept
    <3>3. QED  BY <1>1, <1>5, <2>1, <2>2, <3>1, <3>2, WritingBegins
  <2>4. CASE ~SettleOutline
    <3>1. outline' = outline /\ stage' \notin Drafting
      BY <1>5, <2>1, <2>4
      DEF PlanningStep, ReadPurpose, OutOfBudget, TakePending, PlanWhole, StartChapters,
          DivideChapters, ReusePart, PlanPart, JoinParts, JoinRefused, ReviewOutline, AddFindings,
          AwaitApproval, GiveUpOutline, CorrectOutline, AskAgain, Store, Goto, Fail,
          BeforeWriting, Drafting
    <3>2. QED  BY <1>5, <2>2, <3>1, RepairsQuiet
  <2>5. QED  BY <2>3, <2>4
<1>6. CASE WritingStep
  <2>1. CASE \E i \in Section : \/ ReuseSection(i) \/ RewriteSaved(i) \/ WriteSection(i)
                                \/ KeepUnresolved(i) \/ RepairSection(i)
                                \/ RepairUnresolved(i) \/ SkipRepair(i)
    BY <2>1, RepairsWriting, RepairsRepairing
  <2>2. CASE AllWritten \/ SkipRound \/ ReviewDocument \/ StartRepairs \/ EndRound
    BY <2>2, RepairsReviewing
  <2>3. CASE Replan
    <3>1. startAt' \in Nat
      BY <2>3 DEF Replan, RepairsInv, WorkKnown, Memory
    <3>2. QED  BY <2>3, <3>1, RepairsDiscarded DEF Replan, Drafting
  <2>4. CASE PublishReviewed \/ PublishUnread
    BY <2>4, RepairsQuiet DEF PublishReviewed, PublishUnread, Publish, End, Drafting
  <2>5. CASE WritingFails
    BY <2>5, RepairsQuiet DEF WritingFails, Leaving, Drafting
  <2>6. QED  BY <1>6, <2>1, <2>2, <2>3, <2>4, <2>5 DEF WritingStep
<1>7. ASSUME NEW seen \in DOMAIN made, Revise(seen)
      PROVE  RepairsInv'
  <2>1. stage = "ended" /\ UNCHANGED <<stage, saved, startAt, work>> /\ checks' = <<>> /\ marks' = {}
    BY <1>7 DEF Revise, Discarding
  <2>2. work' = NoWork /\ startAt \in Nat
    BY <2>1 DEF RepairsInv, WorkKnown
  <2>3. QED  BY <2>1, <2>2, RepairsDiscarded DEF Drafting
<1>8. ASSUME NEW seen \in DOMAIN made, Approve(seen)
      PROVE  RepairsInv'
  BY <1>8, RepairsQuiet DEF Approve, Drafting
<1>9. CASE UNCHANGED vars
  <2>1. UNCHANGED <<stage, outline, saved, checks, marks, startAt, work>>
    BY <1>9 DEF vars
  <2>2. WorkKnown' /\ TextsKnown'
    BY <2>1, SameTexts, SameOutline DEF RepairsInv, WorkKnown, TextsKnown
  <2>3. ReviewsKnown' /\ RoundsKnown'
    BY <2>1, GrownSame, ReviewsKept
    DEF RepairsInv, RoundsKnown, Over, AllMarked, Flagged
  <2>4. QED  BY <2>2, <2>3 DEF RepairsInv
<1>10. QED  BY <1>2, <1>3, <1>4, <1>5, <1>6, <1>7, <1>8, <1>9 DEF Next

\* Wherever an attempt stops between the repairs of a round, and however many
\* attempts a round takes: a mark stands for a text newer than the one that
\* was flagged, and no round is left behind with a repair outstanding.
THEOREM RepairsKept == Spec => []RepairsAreKept
<1>1. RepairsInv => RepairsAreKept
  <2> SUFFICES ASSUME RepairsInv
               PROVE  RepairsAreKept
    OBVIOUS
  <2>1. ASSUME NEW mark \in marks
        PROVE  mark[1] \in DOMAIN checks /\ saved[KeyOf(mark[2])] > checks[mark[1]].of[mark[2]]
    <3>1. /\ mark[1] \in DOMAIN checks /\ mark[2] \in Section
          /\ Val(mark[2]) = saved[KeyOf(mark[2])] /\ saved[KeyOf(mark[2])] \in Nat
          /\ checks[mark[1]].of[mark[2]] < Val(mark[2])
      BY DEF RepairsInv, ReviewsKnown, WorkKnown, Val, IsSaved
    <3>2. checks[mark[1]].of[mark[2]] \in Nat
      BY <3>1 DEF RepairsInv, ReviewsKnown
    <3>3. QED  BY <3>1, <3>2
  <2>2. QED  BY <2>1 DEF RepairsInv, RoundsKnown, AllMarked, RepairsAreKept
<1>2. QED
  <2> HIDE DEF AgreedInv, RepairsInv, OrderInv
  <2>1. QED  BY AgreedInit, AgreedStep, OrderInit, OrderStep, RepairsInit, RepairsStep, <1>1, PTL DEF Spec

-----------------------------------------------------------------------------
(* The last review. *)

\* Rounds are reviewed one after the other from the first; that none is beyond
\* the limit may fail only where a lowered limit is excused.
RoundsCounted ==
  /\ iterations \in Nat \ {0}
  /\ \A r \in DOMAIN checks : \A q \in startAt..r : q \in DOMAIN checks
  /\ stage \in {"checking", "repairing"} =>
       \A q \in startAt..work.round - 1 : q \in DOMAIN checks
  /\ stage = "repairing" => work.round + 1 < iterations
  /\ ~excused =>
       /\ startAt < iterations /\ \A r \in DOMAIN checks : r < iterations
       /\ stage \in {"checking", "repairing"} => work.round < iterations

\* An attempt holds the saved texts, and the last review is of them but for the
\* sections repaired since, or until a rewritten section has it discarded.
LastReviewStands ==
  /\ \A mark \in marks : mark[2] \in checks[mark[1]].flagged
  /\ stage \in Drafting => \A i \in DOMAIN work.texts : work.texts[i] = Val(i)
  /\ ~excused /\ ~(stage = "writing" /\ work.changed) =>
       \A r \in DOMAIN checks :
         ~Over(r) => \A i \in Section : checks[r].of[i] = Val(i) \/ <<r, i>> \in marks

SettledInv ==
  /\ RoundsCounted /\ LastReviewStands
  /\ status = "completed" => stage = "ended"
  /\ SettledIsReviewed

LEMMA SettledInit == Init => SettledInv
<1> SUFFICES ASSUME Init PROVE SettledInv
  OBVIOUS
<1>1. /\ stage = "ended" /\ checks = <<>> /\ marks = {} /\ startAt = 0 /\ status = "interrupted"
      /\ iterations = Max(Iterations)
  BY DEF Init, ReadingInit
<1>2. iterations \in Nat \ {0}
  <2>1. \A n \in Iterations : n \in Nat \ {0}
    BY DocumentAssumption
  <2>2. Iterations \subseteq Int /\ Iterations # {} /\ IsFiniteSet(Iterations)
    BY <2>1, DocumentAssumption
  <2>3. Max(Iterations) \in Iterations
    BY <2>2, MaxIsLargest
  <2>4. QED  BY <1>1, <2>1, <2>3
<1>3. DOMAIN checks = {}
  BY <1>1
<1>4. QED
  BY <1>1, <1>2, <1>3
  DEF SettledInv, RoundsCounted, LastReviewStands, SettledIsReviewed, Drafting

\* Sections have names of their own, so none is saved under another's key.
LEMMA KeysApart ==
  ASSUME AgreedInv, OrderInv, outline # NoPlan, NEW i \in Section, NEW j \in Section,
         KeyOf(i) = KeyOf(j)
  PROVE  i = j
<1>1. outline = candidate
  BY DEF AgreedInv, OutlineKept
<1>2. i \in DOMAIN outline.names /\ j \in DOMAIN outline.names
  BY <1>1 DEF OrderInv, Section
<1>3. outline.names[i][2] = i /\ outline.names[j][2] = j
  BY <1>1, <1>2 DEF OrderInv
<1>4. outline.names[i] = outline.names[j]
  <2>1. KeyOf(i)[1] = outline.names[i] /\ KeyOf(j)[1] = outline.names[j]
    BY DEF KeyOf
  <2>2. QED  BY <2>1
<1>5. QED  BY <1>3, <1>4

LEMMA OthersSaved ==
  ASSUME AgreedInv, OrderInv, outline # NoPlan, outline' = outline, NEW i \in Section, NEW text,
         Saving(i, text), NEW j \in Section, j # i
  PROVE  Val(j)' = Val(j)
<1>1. KeyOf(j) # KeyOf(i)
  BY KeysApart
<1>2. KeyOf(j)' = KeyOf(j)
  BY SameOutline
<1>3. /\ DOMAIN saved' = DOMAIN saved \cup {KeyOf(i)}
      /\ \A k \in DOMAIN saved : k # KeyOf(i) => saved'[k] = saved[k]
  BY DEF Saving
<1>4. QED  BY <1>1, <1>2, <1>3 DEF Val, IsSaved

\* Which review is the last.
LEMMA NewestReview ==
  ASSUME RoundsCounted, ReviewsKnown, startAt \in Nat, NEW r \in DOMAIN checks, ~Over(r)
  PROVE  /\ \A q \in DOMAIN checks : q <= r /\ (~Over(q) => q = r)
         /\ Max(DOMAIN checks) = r
<1>1. \A q \in DOMAIN checks : q \in Nat /\ q >= startAt
  BY DEF ReviewsKnown
<1>2. ASSUME NEW q \in DOMAIN checks
      PROVE  q <= r
  <2>1. CASE q > r
    <3>1. r + 1 \in startAt..q
      BY <1>1, <2>1
    <3>2. QED  BY <3>1 DEF RoundsCounted, Over
  <2>2. QED  BY <1>1, <2>1
<1>3. ASSUME NEW q \in DOMAIN checks, ~Over(q)
      PROVE  q = r
  <2>1. CASE q < r
    <3>1. q + 1 \in startAt..r
      BY <1>1, <2>1
    <3>2. QED  BY <1>3, <3>1 DEF RoundsCounted, Over
  <2>2. QED  BY <1>1, <1>2, <2>1
<1>4. Max(DOMAIN checks) = r
  <2>1. Max(DOMAIN checks) \in DOMAIN checks /\ \A q \in DOMAIN checks : q <= Max(DOMAIN checks)
    BY <1>1, <1>2 DEF Max
  <2>2. QED  BY <1>1, <1>2, <2>1
<1>5. QED  BY <1>2, <1>3, <1>4

\* Steps outside the writing; one that ends it with a rewritten section's
\* reviews still there is excused.
LEMMA SettledQuiet ==
  ASSUME SettledInv, UNCHANGED <<outline, saved, checks, marks, startAt, iterations>>,
         stage' \notin Drafting, status' # "completed",
         excused \/ (stage = "writing" /\ work.changed) => excused'
  PROVE  SettledInv'
<1>1. RoundsCounted'
  BY DEF SettledInv, RoundsCounted, Drafting
<1>2. LastReviewStands'
  BY SameTexts DEF SettledInv, LastReviewStands, Over, Drafting
<1>3. QED  BY <1>1, <1>2 DEF SettledInv, SettledIsReviewed

LEMMA SettledDiscarded ==
  ASSUME SettledInv, checks' = <<>>, marks' = {}, iterations' = iterations,
         stage' \notin Drafting, status' # "completed",
         ~excused' => ~excused /\ startAt' < iterations
  PROVE  SettledInv'
<1>1. DOMAIN checks' = {}
  OBVIOUS
<1>2. RoundsCounted'
  BY <1>1 DEF SettledInv, RoundsCounted, Drafting
<1>3. LastReviewStands'
  BY <1>1 DEF LastReviewStands, Drafting
<1>4. QED  BY <1>2, <1>3 DEF SettledInv, SettledIsReviewed

\* An attempt begins to write; a lowered limit is excused.
LEMMA SettledBegins ==
  ASSUME SettledInv, RepairsInv, stage \notin Drafting, stage' = "writing",
         UNCHANGED <<saved, checks, marks, startAt>>, work' = NoWork,
         outline' = outline \/ outline = NoPlan, status' # "completed",
         iterations' \in Nat \ {0},
         ~excused' => /\ ~excused
                      /\ iterations' >= iterations \/ (checks = <<>> /\ startAt = 0)
  PROVE  SettledInv'
<1>1. startAt \in Nat /\ \A r \in DOMAIN checks : r \in Nat
  BY DEF RepairsInv, WorkKnown, ReviewsKnown
<1>2. DOMAIN <<>> = {}
  OBVIOUS
<1>3. RoundsCounted'
  BY <1>1, <1>2 DEF SettledInv, RoundsCounted
<1>4. DOMAIN work'.texts = {}
  BY DEF NoWork
<1>5. LastReviewStands'
  <2>1. CASE outline' = outline
    BY <1>4, <2>1, SameTexts DEF SettledInv, LastReviewStands, Over, Drafting
  <2>2. CASE outline = NoPlan
    <3>1. DOMAIN checks' = {} /\ marks' = {}
      BY <2>2 DEF RepairsInv, ReviewsKnown
    <3>2. QED  BY <1>4, <3>1 DEF LastReviewStands
  <2>3. QED  BY <2>1, <2>2
<1>6. QED  BY <1>3, <1>5 DEF SettledInv, SettledIsReviewed

\* One more section's text is at hand, and saved if it is new.
LEMMA SettledTaken ==
  ASSUME AgreedInv, OrderInv, RepairsInv, SettledInv, NEW i, At(i), stage' = "writing",
         UNCHANGED <<outline, checks, marks, startAt, iterations, status>>,
         NEW text \in Nat, work'.texts = Append(work.texts, text), Val(i)' = text,
         \A j \in Section : j # i => Val(j)' = Val(j),
         work.changed => work'.changed, excused => excused',
         Val(i)' = Val(i) \/ excused' \/ work'.changed \/ checks = <<>>
  PROVE  SettledInv'
<1>1. /\ Len(outline.sections) \in Nat /\ Section = 1..Len(outline.sections)
      /\ stage = "writing" /\ i = work.at /\ i \in Section /\ Section' = Section
  BY SectionsCounted, SameOutline DEF At, Drafting
<1>2. RoundsCounted'
  BY <1>1 DEF SettledInv, RoundsCounted
<1>3. work.texts \in Seq(Nat) /\ Len(work.texts) = i - 1
  BY <1>1 DEF RepairsInv, WorkKnown, TextsKnown, Memory
<1>4. ASSUME NEW j \in DOMAIN work'.texts
      PROVE  work'.texts[j] = Val(j)'
  <2>1. Len(work.texts) + 1 = i
    BY <1>1, <1>3
  <2>2. /\ DOMAIN work'.texts = 1..i /\ work'.texts[i] = text
        /\ \A k \in 1..i - 1 : k \in DOMAIN work.texts /\ work'.texts[k] = work.texts[k]
    BY <1>3, <2>1, Appended
  <2>3. CASE j = i
    BY <2>2, <2>3
  <2>4. CASE j # i
    <3>1. j \in 1..i - 1 /\ j \in Section
      BY <1>1, <2>2, <2>4
    <3>2. work.texts[j] = Val(j)
      BY <1>1, <2>2, <3>1 DEF SettledInv, LastReviewStands, Drafting
    <3>3. QED  BY <2>2, <2>4, <3>1, <3>2
  <2>5. QED  BY <2>3, <2>4
<1>5. ASSUME ~excused', ~work'.changed, NEW r \in DOMAIN checks, ~Over(r), NEW j \in Section
      PROVE  checks[r].of[j] = Val(j)' \/ <<r, j>> \in marks
  <2>1. checks # <<>>
    BY <1>5
  <2>2. Val(j)' = Val(j)
    BY <1>5, <2>1
  <2>3. checks[r].of[j] = Val(j) \/ <<r, j>> \in marks
    BY <1>5 DEF SettledInv, LastReviewStands
  <2>4. QED  BY <2>2, <2>3
<1>6. LastReviewStands'
  <2>1. \A mark \in marks' : mark[2] \in checks'[mark[1]].flagged
    BY DEF SettledInv, LastReviewStands
  <2>2. QED  BY <1>1, <1>4, <1>5, <2>1 DEF LastReviewStands, Over
<1>7. status # "completed"
  BY <1>1 DEF SettledInv
<1>8. QED  BY <1>2, <1>6, <1>7 DEF SettledInv, SettledIsReviewed

LEMMA SettledWriting ==
  ASSUME AgreedInv, OrderInv, RepairsInv, SettledInv, NEW i \in Section,
         ReuseSection(i) \/ RewriteSaved(i) \/ WriteSection(i) \/ KeepUnresolved(i)
  PROVE  SettledInv'
<1>1. /\ At(i) /\ stage = "writing" /\ outline # NoPlan
      /\ UNCHANGED <<outline, checks, marks, startAt, iterations, status>>
  BY SectionsCounted
  DEF ReuseSection, RewriteSaved, WriteSection, KeepUnresolved, Leaving, At, Drafting
<1>2. stage' = "writing"
  BY <1>1
  DEF ReuseSection, RewriteSaved, WriteSection, KeepUnresolved, Goto
<1>3. saved \in [DOMAIN saved -> Nat] /\ work \in Memory
  BY DEF RepairsInv, WorkKnown
<1>4. CASE ReuseSection(i)
  <2>1. saved' = saved /\ IsSaved(i) /\ excused' = excused
        /\ work' = [work EXCEPT !.at = @ + 1, !.texts = Append(@, saved[KeyOf(i)])]
    BY <1>4 DEF ReuseSection, Took
  <2>2. saved[KeyOf(i)] \in Nat /\ Val(i) = saved[KeyOf(i)]
    BY <1>3, <2>1 DEF IsSaved, Val
  <2>3. \A j \in Section : Val(j)' = Val(j)
    BY <1>1, <2>1, SameTexts
  <2>4. work'.texts = Append(work.texts, saved[KeyOf(i)]) /\ work'.changed = work.changed
    BY <1>3, <2>1 DEF Memory
  <2>5. QED  BY <1>1, <1>2, <2>1, <2>2, <2>3, <2>4, SettledTaken
<1>5. CASE RewriteSaved(i)
  <2>1. /\ Saving(i, saved[KeyOf(i)] + 1) /\ IsSaved(i) /\ excused' = excused
        /\ work' = [work EXCEPT !.at = @ + 1, !.texts = Append(@, saved[KeyOf(i)] + 1),
                                !.changed = TRUE]
    BY <1>5 DEF RewriteSaved
  <2>2. saved[KeyOf(i)] + 1 \in Nat /\ saved[KeyOf(i)] \in Nat
    BY <1>3, <2>1 DEF IsSaved
  <2>3. Val(i)' = saved[KeyOf(i)] + 1
    BY <1>1, <2>1, <2>2, GrownSaving DEF RepairsInv
  <2>4. work'.texts = Append(work.texts, saved[KeyOf(i)] + 1) /\ work'.changed
    BY <1>3, <2>1 DEF Memory
  <2>5. QED  BY <1>1, <1>2, <2>1, <2>2, <2>3, <2>4, OthersSaved, SettledTaken
<1>6. CASE WriteSection(i)
  <2>1. /\ Saving(i, 1) /\ ~IsSaved(i) /\ excused' = (excused \/ checks # <<>>)
        /\ work' = [work EXCEPT !.at = @ + 1, !.texts = Append(@, 1)]
    BY <1>6 DEF WriteSection, Took
  <2>2. Val(i)' = 1
    BY <1>1, <2>1, GrownSaving DEF RepairsInv
  <2>3. work'.texts = Append(work.texts, 1) /\ work'.changed = work.changed
    BY <1>3, <2>1 DEF Memory
  <2>4. QED  BY <1>1, <1>2, <2>1, <2>2, <2>3, OthersSaved, SettledTaken
<1>7. CASE KeepUnresolved(i)
  <2>1. /\ saved' = saved /\ ~IsSaved(i) /\ excused' = excused
        /\ work' = [work EXCEPT !.at = @ + 1, !.texts = Append(@, 0), !.warned = TRUE]
    BY <1>7 DEF KeepUnresolved
  <2>2. Val(i) = 0 /\ \A j \in Section : Val(j)' = Val(j)
    BY <1>1, <2>1, SameTexts DEF Val
  <2>3. work'.texts = Append(work.texts, 0) /\ work'.changed = work.changed
    BY <1>3, <2>1 DEF Memory
  <2>4. QED  BY <1>1, <1>2, <2>1, <2>2, <2>3, SettledTaken
<1>8. QED  BY <1>4, <1>5, <1>6, <1>7

LEMMA SettledRepairing ==
  ASSUME AgreedInv, OrderInv, RepairsInv, SettledInv, NEW i \in Section,
         RepairSection(i) \/ RepairUnresolved(i) \/ SkipRepair(i)
  PROVE  SettledInv'
<1>1. /\ stage = "repairing" /\ outline # NoPlan /\ i \in 1..Len(outline.sections)
      /\ UNCHANGED <<outline, checks, startAt, iterations, status, excused>>
  BY SectionsCounted
  DEF RepairSection, RepairUnresolved, SkipRepair, Repairing, Leaving, Drafting
<1>2. stage' = "repairing"
  BY <1>1 DEF RepairSection, RepairUnresolved, SkipRepair, Goto
<1>3. work \in Memory /\ saved \in [DOMAIN saved -> Nat]
  BY DEF RepairsInv, WorkKnown
<1>4. work'.round = work.round
  BY <1>3 DEF RepairSection, RepairUnresolved, SkipRepair, Memory
<1>5. RoundsCounted' /\ status # "completed"
  BY <1>1, <1>2, <1>4 DEF SettledInv, RoundsCounted
<1>6. CASE RepairUnresolved(i) \/ SkipRepair(i)
  <2>1. UNCHANGED <<saved, marks>> /\ work'.texts = work.texts
    BY <1>3, <1>6 DEF RepairUnresolved, SkipRepair, Memory
  <2>2. LastReviewStands'
    BY <1>1, <1>2, <2>1, SameTexts DEF SettledInv, LastReviewStands, Over, Drafting
  <2>3. QED  BY <1>1, <1>5, <2>2 DEF SettledInv, SettledIsReviewed
<1>7. CASE RepairSection(i)
  <2>1. /\ Saving(i, saved[KeyOf(i)] + 1) /\ marks' = marks \cup {<<work.round, i>>}
        /\ work' = [work EXCEPT !.at = @ + 1, !.texts[i] = saved[KeyOf(i)] + 1]
        /\ i \in Flagged
    BY <1>7 DEF RepairSection, Repaired, Due
  <2>2. IsSaved(i) /\ work.round \in DOMAIN checks /\ ~Over(work.round) /\ startAt \in Nat
    BY <1>1 DEF RepairsInv, TextsKnown, RoundsKnown, WorkKnown
  <2>3. saved[KeyOf(i)] + 1 \in Nat /\ saved[KeyOf(i)] \in Nat
    BY <1>3, <2>2 DEF IsSaved
  <2>4. Val(i)' = saved[KeyOf(i)] + 1 /\ \A j \in Section : j # i => Val(j)' = Val(j)
    BY <1>1, <2>1, <2>3, GrownSaving, OthersSaved DEF RepairsInv
  <2>5. ASSUME NEW j \in DOMAIN work'.texts
        PROVE  work'.texts[j] = Val(j)'
    <3>1. /\ work.texts \in Seq(Nat) /\ DOMAIN work.texts = Section
          /\ work'.texts = [work.texts EXCEPT ![i] = saved[KeyOf(i)] + 1]
      <4>1. work.texts \in Seq(Nat) /\ Len(work.texts) = Len(outline.sections)
        BY <1>1, <1>3 DEF RepairsInv, TextsKnown, Memory
      <4>2. Section = 1..Len(outline.sections)
        BY <1>1, SectionsCounted DEF Drafting
      <4>3. work'.texts = [work.texts EXCEPT ![i] = saved[KeyOf(i)] + 1]
        BY <1>3, <2>1 DEF Memory
      <4>4. QED  BY <4>1, <4>2, <4>3
    <3>2. j \in Section /\ j \in DOMAIN work.texts
      BY <3>1
    <3>3. CASE j = i
      BY <2>4, <3>1, <3>2, <3>3
    <3>4. CASE j # i
      BY <1>1, <2>4, <3>1, <3>2, <3>4 DEF SettledInv, LastReviewStands, Drafting
    <3>5. QED  BY <3>3, <3>4
  <2>6. ASSUME ~excused, NEW r \in DOMAIN checks, ~Over(r), NEW j \in Section
        PROVE  checks[r].of[j] = Val(j)' \/ <<r, j>> \in marks'
    <3>1. r = work.round
      BY <2>2, <2>6, NewestReview DEF SettledInv, RepairsInv
    <3>2. CASE j = i
      BY <2>1, <3>1, <3>2
    <3>3. CASE j # i
      BY <1>1, <2>1, <2>4, <2>6, <3>3 DEF SettledInv, LastReviewStands
    <3>4. QED  BY <3>2, <3>3
  <2>7. \A mark \in marks' : mark[2] \in checks[mark[1]].flagged
    BY <2>1 DEF SettledInv, LastReviewStands, Flagged
  <2>8. Section' = Section
    BY <1>1, SameOutline
  <2>9. LastReviewStands'
    BY <1>1, <1>2, <2>5, <2>6, <2>7, <2>8 DEF LastReviewStands, Over
  <2>10. QED  BY <1>1, <1>5, <2>9 DEF SettledInv, SettledIsReviewed
<1>8. QED  BY <1>6, <1>7

LEMMA SettledReviewing ==
  ASSUME AgreedInv, OrderInv, RepairsInv, SettledInv,
         AllWritten \/ SkipRound \/ ReviewDocument \/ StartRepairs \/ EndRound
  PROVE  SettledInv'
<1>1. /\ stage \in Drafting /\ outline # NoPlan
      /\ UNCHANGED <<outline, saved, startAt, iterations, status, excused>>
  BY SectionsCounted
  DEF AllWritten, SkipRound, ReviewDocument, StartRepairs, EndRound, Unchecked, Checked,
      Leaving, Drafting
<1>2. /\ work \in Memory /\ startAt \in Nat /\ iterations \in Nat \ {0}
      /\ \A r \in DOMAIN checks : r \in Nat /\ r >= startAt
  BY DEF RepairsInv, WorkKnown, ReviewsKnown, SettledInv, RoundsCounted
<1>3. status' # "completed"
  BY <1>1 DEF SettledInv, Drafting
<1>4. Section' = Section /\ \A j \in Section : Val(j)' = Val(j)
  BY <1>1, SameTexts
<1>5. CASE AllWritten
  <2>1. /\ stage = "writing" /\ stage' = "checking"
        /\ work' = [work EXCEPT !.at = 1, !.round = startAt, !.changed = FALSE]
        /\ IF ResetDue THEN checks' = <<>> /\ marks' = {} ELSE UNCHANGED <<checks, marks>>
    BY <1>5 DEF AllWritten, Goto
  <2>2. work'.round = startAt /\ work'.texts = work.texts
    BY <1>2, <2>1 DEF Memory
  <2>3. \A j \in DOMAIN work'.texts : work'.texts[j] = Val(j)'
    BY <2>1, <2>2, <1>1, SameTexts DEF SettledInv, LastReviewStands, Drafting
  <2>4. CASE ResetDue
    <3>1. DOMAIN checks' = {} /\ marks' = {}
      BY <2>1, <2>4
    <3>2. RoundsCounted'
      BY <1>1, <1>2, <2>1, <2>2, <3>1 DEF SettledInv, RoundsCounted
    <3>3. LastReviewStands'
      BY <2>3, <3>1 DEF LastReviewStands
    <3>4. QED  BY <1>3, <3>2, <3>3 DEF SettledInv, SettledIsReviewed
  <2>5. CASE ~ResetDue
    <3>1. UNCHANGED <<checks, marks>> /\ ~work.changed
      BY <2>1, <2>5 DEF ResetDue
    <3>2. RoundsCounted'
      BY <1>1, <1>2, <2>1, <2>2, <3>1 DEF SettledInv, RoundsCounted
    <3>3. LastReviewStands'
      BY <1>1, <1>4, <2>3, <3>1 DEF SettledInv, LastReviewStands, Over
    <3>4. QED  BY <1>3, <3>2, <3>3 DEF SettledInv, SettledIsReviewed
  <2>6. QED  BY <2>4, <2>5
<1>6. CASE ReviewDocument
  <2>1. /\ stage = "checking" /\ stage' = "checking" /\ UNCHANGED <<marks, work>>
        /\ work.round < iterations /\ ~Over(work.round) /\ work.round \notin DOMAIN checks
        /\ work.round >= startAt
    BY <1>6 DEF ReviewDocument, Unchecked, RepairsInv, RoundsKnown
  <2>2. /\ DOMAIN checks' = DOMAIN checks \cup {work.round}
        /\ \A r \in DOMAIN checks : checks'[r] = checks[r]
        /\ checks'[work.round].of = work.texts
    BY <1>6, <2>1 DEF ReviewDocument
  <2>3. work.round \in Nat
    BY <1>2 DEF Memory
  <2>4. ASSUME NEW r \in DOMAIN checks', NEW q \in startAt..r
        PROVE  q \in DOMAIN checks'
    <3>1. CASE r = work.round
      <4>1. q = work.round \/ q \in startAt..work.round - 1
        BY <1>2, <2>3, <3>1
      <4>2. QED  BY <2>1, <2>2, <4>1 DEF SettledInv, RoundsCounted
    <3>2. CASE r # work.round
      BY <2>2, <3>2 DEF SettledInv, RoundsCounted
    <3>3. QED  BY <3>1, <3>2
  <2>5. RoundsCounted'
    BY <1>1, <1>2, <2>1, <2>2, <2>4 DEF SettledInv, RoundsCounted
  <2>6. ASSUME NEW r \in DOMAIN checks', r + 1 \notin DOMAIN checks'
        PROVE  r = work.round
    <3>1. CASE r < work.round
      <4>1. r \in Nat /\ r >= startAt
        BY <1>2, <2>2, <2>3, <3>1
      <4>2. r + 1 = work.round \/ r + 1 \in startAt..work.round - 1
        BY <1>2, <2>3, <3>1, <4>1
      <4>3. QED  BY <2>1, <2>2, <2>6, <4>2 DEF SettledInv, RoundsCounted
    <3>2. CASE r > work.round
      <4>1. r \in DOMAIN checks /\ r \in Nat
        BY <1>2, <2>2, <2>3, <3>2
      <4>2. work.round \in startAt..r
        BY <1>2, <2>1, <2>3, <3>2, <4>1
      <4>3. QED  BY <2>1, <4>1, <4>2 DEF SettledInv, RoundsCounted
    <3>3. QED  BY <1>2, <2>2, <2>3, <3>1, <3>2
  <2>7. ASSUME NEW j \in Section
        PROVE  work.texts[j] = Val(j)
    <3>1. DOMAIN work.texts = Section
      <4>1. work.texts \in Seq(Nat) /\ Len(work.texts) = Len(outline.sections)
        BY <1>2, <2>1 DEF RepairsInv, TextsKnown, Memory
      <4>2. QED  BY <1>1, <4>1, SectionsCounted
    <3>2. QED  BY <1>1, <2>7, <3>1 DEF SettledInv, LastReviewStands
  <2>8. \A mark \in marks' : mark[2] \in checks'[mark[1]].flagged
    BY <2>1, <2>2 DEF SettledInv, LastReviewStands, RepairsInv, ReviewsKnown
  <2>9. \A j \in DOMAIN work'.texts : work'.texts[j] = Val(j)'
    BY <1>1, <2>1, SameTexts DEF SettledInv, LastReviewStands
  <2>10. LastReviewStands'
    BY <1>4, <2>2, <2>6, <2>7, <2>8, <2>9 DEF LastReviewStands, Over
  <2>11. QED  BY <1>3, <2>5, <2>10 DEF SettledInv, SettledIsReviewed
<1>7. CASE SkipRound \/ StartRepairs \/ EndRound
  <2>1. /\ stage' \in {"checking", "repairing"} /\ UNCHANGED <<checks, marks>>
        /\ work'.texts = work.texts /\ stage \in {"checking", "repairing"}
    BY <1>2, <1>7 DEF SkipRound, StartRepairs, EndRound, Checked, Goto, Memory
  <2>2. LastReviewStands'
    BY <1>1, <1>4, <2>1, SameTexts DEF SettledInv, LastReviewStands, Over, Drafting
  <2>3. RoundsCounted'
    <3>1. CASE SkipRound
      <4>1. /\ work'.round = work.round + 1 /\ stage' = "checking" /\ stage = "checking"
            /\ work.round + 1 \in DOMAIN checks
        BY <1>2, <3>1 DEF SkipRound, Over, Goto, Memory
      <4>2. ASSUME NEW q \in startAt..work.round
            PROVE  q \in DOMAIN checks
        <5>1. q \in startAt..work.round + 1
          BY <1>2 DEF Memory
        <5>2. QED  BY <4>1, <5>1 DEF SettledInv, RoundsCounted
      <4>3. work'.round - 1 = work.round
        BY <1>2, <4>1 DEF Memory
      <4>4. QED  BY <1>1, <2>1, <4>1, <4>2, <4>3 DEF SettledInv, RoundsCounted
    <3>2. CASE StartRepairs
      <4>1. work'.round = work.round /\ stage = "checking" /\ stage' = "repairing"
        BY <1>2, <3>2 DEF StartRepairs, Checked, Goto, Memory
      <4>2. work.round + 1 < iterations
        BY <1>2, <3>2 DEF StartRepairs, LastRound, Memory
      <4>3. QED  BY <1>1, <2>1, <4>1, <4>2 DEF SettledInv, RoundsCounted
    <3>3. CASE EndRound
      <4>1. /\ work'.round = work.round + 1 /\ stage' = "checking" /\ stage = "repairing"
            /\ work.round \in DOMAIN checks /\ work.round \in Nat
        BY <1>2, <3>3 DEF EndRound, Goto, Memory, RepairsInv, RoundsKnown
      <4>2. ASSUME NEW q \in startAt..work.round
            PROVE  q \in DOMAIN checks
        BY <4>1 DEF SettledInv, RoundsCounted
      <4>3. work'.round - 1 = work.round
        BY <4>1
      <4>4. QED  BY <1>1, <2>1, <4>1, <4>2, <4>3 DEF SettledInv, RoundsCounted
    <3>4. QED  BY <1>7, <3>1, <3>2, <3>3
  <2>4. QED  BY <1>3, <2>2, <2>3 DEF SettledInv, SettledIsReviewed
<1>8. QED  BY <1>5, <1>6, <1>7

\* The document is published: whole, if the last review is of what is saved.
LEMMA SettledPublished ==
  ASSUME AgreedInv, OrderInv, RepairsInv, SettledInv, PublishReviewed \/ PublishUnread
  PROVE  SettledInv'
<1>1. /\ stage = "checking" /\ stage' = "ended" /\ outline # NoPlan
      /\ UNCHANGED <<outline, saved, checks, marks, startAt, iterations, excused>>
      /\ status' \in {"warned", "completed"}
  BY SectionsCounted DEF PublishReviewed, PublishUnread, Checked, Publish, End, Drafting
<1>2. RoundsCounted'
  BY <1>1 DEF SettledInv, RoundsCounted
<1>3. LastReviewStands'
  BY <1>1, SameTexts DEF SettledInv, LastReviewStands, Over, Drafting
<1>4. ASSUME status' = "completed", ~excused
      PROVE  /\ checks # <<>> /\ checks[Max(DOMAIN checks)].flagged = {}
             /\ \A i \in Section : IsSaved(i) /\ saved[KeyOf(i)] = checks[Max(DOMAIN checks)].of[i]
  <2> DEFINE r == work.round
  <2>1. r < iterations
    BY <1>1, <1>4 DEF SettledInv, RoundsCounted
  <2>2. work \in Memory /\ iterations \in Nat /\ startAt \in Nat
    BY DEF RepairsInv, WorkKnown, SettledInv, RoundsCounted
  <2>3. PublishReviewed
    <3>1. work.round \in Nat /\ ~(work.round >= iterations)
      BY <2>1, <2>2 DEF Memory
    <3>2. QED  BY <3>1 DEF PublishUnread
  <2>4. r \in DOMAIN checks /\ ~Over(r)
    BY <2>3 DEF PublishReviewed, Checked
  <2>5. ~work.warned /\ Flagged = {}
    BY <1>4, <2>3 DEF PublishReviewed, Publish, End
  <2>6. Max(DOMAIN checks) = r
    BY <2>2, <2>4, NewestReview DEF SettledInv, RepairsInv
  <2>7. checks # <<>>
    BY <2>4
  <2>8. ASSUME NEW i \in Section
        PROVE  IsSaved(i) /\ saved[KeyOf(i)] = checks[r].of[i]
    <3>1. DOMAIN work.texts = Section
      <4>1. work.texts \in Seq(Nat) /\ Len(work.texts) = Len(outline.sections)
        BY <1>1, <2>2 DEF RepairsInv, TextsKnown, Memory
      <4>2. Section = 1..Len(outline.sections)
        BY <1>1, SectionsCounted DEF Drafting
      <4>3. QED  BY <4>1, <4>2
    <3>2. IsSaved(i)
      BY <1>1, <2>5, <3>1 DEF RepairsInv, TextsKnown, Drafting
    <3>3. <<r, i>> \notin marks
      <4>1. ASSUME NEW mark \in marks, mark = <<r, i>>
            PROVE  FALSE
        BY <2>5, <4>1 DEF SettledInv, LastReviewStands, Flagged
      <4>2. QED  BY <4>1
    <3>4. checks[r].of[i] = Val(i)
      BY <1>1, <1>4, <2>4, <3>3 DEF SettledInv, LastReviewStands
    <3>5. QED  BY <3>2, <3>4 DEF Val
  <2>9. QED  BY <2>5, <2>6, <2>7, <2>8 DEF Flagged
<1>5. SettledIsReviewed'
  <2>1. /\ Section' = Section
        /\ \A i \in Section : KeyOf(i)' = KeyOf(i) /\ (IsSaved(i)' <=> IsSaved(i))
    BY <1>1, SameOutline, SameTexts
  <2>2. QED  BY <1>1, <1>4, <2>1 DEF SettledIsReviewed
<1>6. QED  BY <1>1, <1>2, <1>3, <1>5 DEF SettledInv

LEMMA SettledStep == AgreedInv /\ OrderInv /\ RepairsInv /\ SettledInv /\ [Next]_vars => SettledInv'
<1> SUFFICES ASSUME AgreedInv, OrderInv, RepairsInv, SettledInv, [Next]_vars
             PROVE  SettledInv'
  OBVIOUS
<1>1. stage # "ended" => status # "completed"
  BY DEF SettledInv
<1>2. CASE Start
  <2>1. /\ stage = "ended" /\ UNCHANGED <<outline, saved, checks, marks, startAt, work>>
        /\ stage' = PlanDocument /\ status' = "running" /\ iterations' \in Iterations
        /\ excused' = (excused \/ (iterations' < iterations /\ (checks # <<>> \/ startAt > 0)))
    BY <1>2 DEF Start, Goto
  <2>2. /\ iterations \in Nat \ {0} /\ iterations' \in Nat \ {0} /\ startAt \in Nat
        /\ work' = NoWork
    BY <2>1, DocumentAssumption DEF SettledInv, RoundsCounted, RepairsInv, WorkKnown
  <2>3. ~excused' => /\ ~excused
                     /\ iterations' >= iterations \/ (checks = <<>> /\ startAt = 0)
    <3>1. (iterations' >= iterations \/ iterations' < iterations) /\ (startAt = 0 \/ startAt > 0)
      BY <2>2
    <3>2. CASE iterations' < iterations /\ (checks # <<>> \/ startAt > 0)
      BY <2>1, <3>2, Zenon
    <3>3. CASE ~(iterations' < iterations /\ (checks # <<>> \/ startAt > 0))
      <4>1. iterations' >= iterations \/ (checks = <<>> /\ startAt = 0)
        BY <3>1, <3>3, Zenon
      <4>2. ~excused' => ~excused
        BY <2>1, Zenon
      <4>3. QED  BY <4>1, <4>2
    <3>4. QED  BY <3>2, <3>3, Zenon
  <2>4. CASE outline # NoPlan
    BY <2>1, <2>2, <2>3, <2>4, SettledBegins DEF PlanDocument, Drafting
  <2>5. CASE outline = NoPlan
    <3>1. stage' \notin Drafting
      BY <2>1, <2>5 DEF PlanDocument, Drafting
    <3>2. DOMAIN checks = {} /\ marks = {}
      BY <2>5 DEF RepairsInv, ReviewsKnown
    <3>3. RoundsCounted'
      BY <2>1, <2>2, <2>3, <3>1, <3>2 DEF SettledInv, RoundsCounted, Drafting
    <3>4. LastReviewStands'
      BY <2>1, <3>1, <3>2 DEF LastReviewStands
    <3>5. QED  BY <2>1, <3>3, <3>4 DEF SettledInv, SettledIsReviewed
  <2>6. QED  BY <2>4, <2>5
<1>3. CASE Stop
  <2>1. /\ stage' = "ended" /\ status' = "interrupted"
        /\ UNCHANGED <<outline, saved, checks, marks, startAt, iterations>>
        /\ excused' = (excused \/ (stage = "writing" /\ work.changed))
    BY <1>3 DEF Stop, End, Forgetting
  <2>2. QED  BY <2>1, SettledQuiet DEF Drafting
<1>4. CASE WorkerFails
  <2>1. /\ stage = "failing" /\ stage' = "ended" /\ status' = FailedAs
        /\ UNCHANGED <<outline, saved, checks, marks, startAt, iterations, excused>>
    BY <1>4 DEF WorkerFails, End
  <2>2. FailedAs # "completed"
    BY DEF FailedAs
  <2>3. QED  BY <2>1, <2>2, SettledQuiet DEF Drafting
<1>5. CASE ReadingStep /\ UNCHANGED <<planning, document>>
  <2>1. stage = "reading" /\ stage' \in {"reading", "read", "failing"}
    BY <1>5
    DEF ReadingStep, RefuseReading, TakePart, CloseLastGroup, LeavesRead, Collect, PlanLevel,
        RefuseLevel, QueueGroup, LevelRead, FinishReading, Answer, AnswerUseless, AnswerMissing,
        AnswerRefused, Polled, Reading, Idle, Goto, Fail
  <2>2. QED  BY <1>1, <1>5, <2>1, SettledQuiet DEF Drafting
<1>6. CASE PlanningStep /\ UNCHANGED document
  <2>1. stage \in BeforeWriting /\ outline = NoPlan
    <3>1. stage \in BeforeWriting
      BY <1>6
      DEF PlanningStep, ReadPurpose, OutOfBudget, TakePending, PlanWhole, StartChapters,
          DivideChapters, ReusePart, PlanPart, JoinParts, JoinRefused, ReviewOutline, AddFindings,
          SettleOutline, AwaitApproval, GiveUpOutline, CorrectOutline, Judged, AllGathered,
          BeforeWriting
    <3>2. QED  BY <3>1 DEF AgreedInv, OutlineKept
  <2>2. status # "completed" /\ stage \notin Drafting
    BY <1>1, <2>1 DEF BeforeWriting, Drafting
  <2>3. CASE SettleOutline
    <3>1. stage' = "writing" /\ work' = NoWork
      BY <1>6, <2>1, <2>3 DEF SettleOutline, Goto, RepairsInv, WorkKnown
    <3>2. iterations \in Nat \ {0}
      BY DEF SettledInv, RoundsCounted
    <3>3. QED  BY <1>6, <2>1, <2>2, <3>1, <3>2, SettledBegins
  <2>4. CASE ~SettleOutline
    <3>1. outline' = outline /\ stage' \notin Drafting
      BY <1>6, <2>1, <2>4
      DEF PlanningStep, ReadPurpose, OutOfBudget, TakePending, PlanWhole, StartChapters,
          DivideChapters, ReusePart, PlanPart, JoinParts, JoinRefused, ReviewOutline, AddFindings,
          AwaitApproval, GiveUpOutline, CorrectOutline, AskAgain, Store, Goto, Fail,
          BeforeWriting, Drafting
    <3>2. QED  BY <1>6, <2>2, <3>1, SettledQuiet DEF Drafting
  <2>5. QED  BY <2>3, <2>4
<1>7. CASE WritingStep
  <2>1. CASE \E i \in Section : \/ ReuseSection(i) \/ RewriteSaved(i) \/ WriteSection(i)
                                \/ KeepUnresolved(i) \/ RepairSection(i)
                                \/ RepairUnresolved(i) \/ SkipRepair(i)
    BY <2>1, SettledWriting, SettledRepairing
  <2>2. CASE AllWritten \/ SkipRound \/ ReviewDocument \/ StartRepairs \/ EndRound
    BY <2>2, SettledReviewing
  <2>3. CASE Replan
    <3>1. /\ stage = "checking" /\ work.round + 1 < iterations /\ startAt' = work.round + 1
          /\ UNCHANGED <<iterations, status, excused>> /\ checks' = <<>> /\ marks' = {}
          /\ stage' = "read"
      BY <2>3 DEF Replan, Unchecked
    <3>2. QED  BY <1>1, <3>1, SettledDiscarded DEF Drafting
  <2>4. CASE PublishReviewed \/ PublishUnread
    BY <2>4, SettledPublished
  <2>5. CASE WritingFails
    <3>1. /\ stage' = "failing" /\ UNCHANGED <<outline, saved, checks, marks, startAt, iterations, status>>
          /\ stage \in Drafting /\ excused' = (excused \/ (stage = "writing" /\ work.changed))
      BY <2>5 DEF WritingFails, Leaving, Forgetting, Drafting
    <3>2. QED  BY <1>1, <3>1, SettledQuiet DEF Drafting
  <2>6. QED  BY <1>7, <2>1, <2>2, <2>3, <2>4, <2>5 DEF WritingStep
<1>8. ASSUME NEW seen \in DOMAIN made, Revise(seen)
      PROVE  SettledInv'
  <2>1. /\ stage = "ended" /\ UNCHANGED <<stage, startAt, iterations, excused>>
        /\ checks' = <<>> /\ marks' = {} /\ status' = "awaiting_outline"
    BY <1>8 DEF Revise, Discarding
  <2>2. ~excused' => ~excused /\ startAt' < iterations
    BY <2>1 DEF SettledInv, RoundsCounted
  <2>3. QED  BY <2>1, <2>2, SettledDiscarded DEF Drafting
<1>9. ASSUME NEW seen \in DOMAIN made, Approve(seen)
      PROVE  SettledInv'
  <2>1. /\ stage = "ended" /\ status' = "awaiting_outline"
        /\ UNCHANGED <<stage, outline, saved, checks, marks, startAt, iterations, excused>>
    BY <1>9 DEF Approve
  <2>2. QED  BY <2>1, SettledQuiet DEF Drafting
<1>10. CASE UNCHANGED vars
  <2>1. UNCHANGED <<stage, status, outline, saved, checks, marks, startAt, iterations, work, excused>>
    BY <1>10 DEF vars
  <2>2. RoundsCounted' /\ LastReviewStands'
    BY <2>1, SameTexts DEF SettledInv, RoundsCounted, LastReviewStands, Over
  <2>3. SettledIsReviewed'
    BY <2>1, SameTexts, SameOutline DEF SettledInv, SettledIsReviewed
  <2>4. QED  BY <2>1, <2>2, <2>3 DEF SettledInv
<1>11. QED  BY <1>2, <1>3, <1>4, <1>5, <1>6, <1>7, <1>8, <1>9, <1>10 DEF Next

\* What is published without a warning is, section by section, what the last
\* review read and found nothing in: over any rounds, repairs, replanning, and
\* attempts that stop anywhere, but for the three histories that are excused.
THEOREM SettledReviewed == Spec => []SettledIsReviewed
<1>1. SettledInv => SettledIsReviewed
  BY DEF SettledInv
<1>2. QED
  <2> HIDE DEF AgreedInv, OrderInv, RepairsInv, SettledInv, SettledIsReviewed
  <2>1. QED  BY AgreedInit, AgreedStep, OrderInit, OrderStep, RepairsInit, RepairsStep,
                SettledInit, SettledStep, <1>1, PTL DEF Spec

-----------------------------------------------------------------------------
(* The reading of the source. *)

\* A part of a passage, as it is packed; and as WholeSource has it.
Part == [at : Nat, from : Nat, size : Nat \ {0}, last : BOOLEAN]
Pieces == Part \cup [at : Nat, from : Nat, size : Nat \ {0}]
PieceBytes == [p \in Pieces |-> [b \in 1 .. p.size |-> <<p.at, p.from + b>>]]

LEMMA PiecesHaveBytes ==
  /\ Maps(PieceBytes, Pieces, Nat \X Nat)
  /\ \A p \in Pieces : PieceBytes[p] # <<>> /\ Len(PieceBytes[p]) = p.size
<1> SUFFICES ASSUME NEW p \in Pieces
             PROVE  /\ PieceBytes[p] \in Seq(Nat \X Nat) /\ PieceBytes[p] # <<>>
                    /\ Len(PieceBytes[p]) = p.size
  BY DEF Maps, PieceBytes
<1>1. p.at \in Nat /\ p.from \in Nat /\ p.size \in Nat /\ p.size # 0
  BY DEF Pieces, Part
<1>2. PieceBytes[p] = [b \in 1 .. p.size |-> <<p.at, p.from + b>>]
  BY DEF PieceBytes
<1>3. PieceBytes[p] \in [1 .. p.size -> Nat \X Nat]
  BY <1>1, <1>2
<1>4. PieceBytes[p] \in Seq(Nat \X Nat)
  BY <1>1, <1>3, SeqDef
<1>5. Len(PieceBytes[p]) = p.size
  BY <1>1, <1>3, <1>4, LenProperties
<1>6. PieceBytes[p] # <<>>
  BY <1>1, <1>5, EmptySeq
<1> QED BY <1>4, <1>5, <1>6

LEMMA BytesAreFlat ==
  ASSUME NEW s \in Seq(Pieces) PROVE Bytes(s) = Flat(PieceBytes, s)
<1>1. \A i \in DOMAIN s : s[i] \in Pieces
  BY ElementOfSeq, LenProperties
<1>2. [i \in DOMAIN s |-> [b \in 1 .. s[i].size |-> <<s[i].at, s[i].from + b>>]]
      = [i \in DOMAIN s |-> PieceBytes[s[i]]]
  BY <1>1 DEF PieceBytes
<1> QED BY <1>2 DEF Bytes, Flat

LEMMA BytesAppend ==
  ASSUME NEW s \in Seq(Pieces), NEW p \in Pieces
  PROVE  Bytes(Append(s, p)) = Bytes(s) \o PieceBytes[p]
<1>1. Append(s, p) \in Seq(Pieces)
  BY AppendProperties
<1>2. Bytes(Append(s, p)) = Flat(PieceBytes, Append(s, p)) /\ Bytes(s) = Flat(PieceBytes, s)
  BY <1>1, BytesAreFlat
<1>3. Maps(PieceBytes, Pieces, Nat \X Nat)
  BY PiecesHaveBytes
<1>4. Flat(PieceBytes, Append(s, p)) = Flat(PieceBytes, s) \o PieceBytes[p]
  BY <1>3, FlatAppend
<1> QED BY <1>2, <1>4

-----------------------------------------------------------------------------
\* The passages that are read.
LEMMA ReadableIsFinite == Readable \subseteq DOMAIN Source /\ IsFiniteSet(Readable) /\ DOMAIN Source \subseteq Nat
<1>1. Len(Source) \in Nat /\ DOMAIN Source = 1 .. Len(Source)
  BY ReadingAssumption, LenProperties
<1>2. Readable \subseteq DOMAIN Source
  BY DEF Readable
<1>3. IsFiniteSet(DOMAIN Source)
  BY <1>1, FS_Interval
<1> QED BY <1>1, <1>2, <1>3, FS_Subset

PassageKind == [at : Nat, of : [size : Nat \ {0}, generated : BOOLEAN]]

\* The passages are readable pieces of the source, each at a place of its own.
LEMMA PassagesKnown ==
  /\ Passages \in Seq(PassageKind)
  /\ \A i, j \in DOMAIN Passages : Passages[i].at = Passages[j].at => i = j
<1> DEFINE n == Cardinality(Readable)
           R == {p \in Readable \X Readable : p[1] < p[2]}
           rank == [x \in Readable |-> Cardinality({y \in Readable : y = x \/ <<y, x>> \in R})]
           Kth(k) == CHOOSE p \in Readable : Cardinality({q \in Readable : q <= p}) = k
<1>1. n \in Nat
  BY ReadableIsFinite, FS_CardinalityType
<1>2. Readable \subseteq Nat
  BY ReadableIsFinite
<1>3. \A x, y \in Readable : <<x, y>> \in R <=> x < y
  OBVIOUS
<1>4. IsRanking(rank, Readable, R)
  <2> HIDE DEF R
  <2>0. \A x \in Readable : x \in Int
    BY <1>2
  <2>1. \A x \in Readable : <<x, x>> \notin R
    BY <2>0, <1>3
  <2>2. \A x, y, z \in Readable : <<x, y>> \in R /\ <<y, z>> \in R => <<x, z>> \in R
    BY <2>0, <1>3
  <2>3. ASSUME NEW x \in Readable, NEW y \in Readable
        PROVE  x = y \/ <<x, y>> \in R \/ <<y, x>> \in R
    <3>1. (<<x, y>> \in R <=> x < y) /\ (<<y, x>> \in R <=> y < x)
      BY <1>3
    <3> QED BY <2>0, <3>1
  <2> QED BY <2>1, <2>2, <2>3, ReadableIsFinite, Ranked
<1>5. ASSUME NEW k \in 1 .. n
      PROVE  Kth(k) \in Readable /\ Cardinality({q \in Readable : q <= Kth(k)}) = k
  <2>1. PICK p \in Readable : rank[p] = k
    BY <1>4 DEF IsRanking
  <2>0. \A x \in Readable : x \in Int
    BY <1>2
  <2>2. {y \in Readable : y = p \/ <<y, p>> \in R} = {q \in Readable : q <= p}
    <3> HIDE DEF R
    <3>1. ASSUME NEW q \in Readable PROVE (q = p \/ <<q, p>> \in R) <=> q <= p
      <4>1. q \in Int /\ p \in Int
        BY <2>0
      <4>2. <<q, p>> \in R <=> q < p
        BY <1>3
      <4> QED BY <4>1, <4>2
    <3> QED BY <3>1
  <2>3. Cardinality({q \in Readable : q <= p}) = k
    <3> HIDE DEF R
    <3> QED BY <2>1, <2>2
  <2> QED BY <2>3
<1>6. ASSUME NEW p \in Readable PROVE [at |-> p, of |-> Source[p]] \in PassageKind
  <2>1. p \in DOMAIN Source /\ p \in Nat
    BY <1>2, ReadableIsFinite
  <2> DEFINE Q == [size : Nat \ {0}, generated : BOOLEAN]
  <2>a. Source \in Seq(Q)
    BY ReadingAssumption
  <2> HIDE DEF Q
  <2>b. p \in 1 .. Len(Source)
    BY <2>1, <2>a, LenProperties
  <2>2. Source[p] \in Q
    BY <2>a, <2>b, ElementOfSeq
  <2> USE DEF Q
  <2> QED BY <2>1, <2>2 DEF PassageKind
<1>7. Passages = [k \in 1 .. n |-> [at |-> Kth(k), of |-> Source[Kth(k)]]]
  BY DEF Passages
<1>8. ASSUME NEW i \in 1 .. n, NEW j \in 1 .. n, Kth(i) = Kth(j) PROVE i = j
  <2>1. /\ Cardinality({q \in Readable : q <= Kth(i)}) = i
        /\ Cardinality({q \in Readable : q <= Kth(j)}) = j
    BY <1>5
  <2> HIDE DEF Kth
  <2> QED BY <1>8, <2>1
<1> HIDE DEF n, Kth
<1>9. Passages \in [1 .. n -> PassageKind]
  BY <1>5, <1>6, <1>7
<1>10. \A i, j \in DOMAIN Passages : Passages[i].at = Passages[j].at => i = j
  BY <1>7, <1>8
<1> QED BY <1>1, <1>9, <1>10, SeqDef

\* The i-th passage as a whole, and the first passages.
Passage(i) == [at |-> Passages[i].at, from |-> 0, size |-> Passages[i].of.size]
FirstPassages(n) == [i \in 1 .. n |-> Passage(i)]

LEMMA PassagesArePieces ==
  /\ Len(Passages) \in Nat
  /\ \A i \in 1 .. Len(Passages) :
       Passage(i) \in Pieces /\ Passages[i].at \in Nat /\ Passages[i].of.size \in Nat \ {0}
  /\ \A n \in 0 .. Len(Passages) : FirstPassages(n) \in Seq(Pieces) /\ Len(FirstPassages(n)) = n
<1>1. Len(Passages) \in Nat
  BY PassagesKnown, LenProperties
<1>2. \A i \in 1 .. Len(Passages) :
        Passage(i) \in Pieces /\ Passages[i].at \in Nat /\ Passages[i].of.size \in Nat \ {0}
  <2> SUFFICES ASSUME NEW i \in 1 .. Len(Passages)
               PROVE  Passage(i) \in Pieces /\ Passages[i].at \in Nat
                      /\ Passages[i].of.size \in Nat \ {0}
    OBVIOUS
  <2>1. Passages[i] \in PassageKind
    BY PassagesKnown, ElementOfSeq
  <2> QED BY <2>1 DEF PassageKind, Passage, Pieces
<1>3. ASSUME NEW n \in 0 .. Len(Passages)
      PROVE  FirstPassages(n) \in Seq(Pieces) /\ Len(FirstPassages(n)) = n
  <2>1. n \in Nat /\ \A i \in 1 .. n : i \in 1 .. Len(Passages)
    BY <1>1
  <2>2. FirstPassages(n) \in [1 .. n -> Pieces]
    BY <1>2, <2>1 DEF FirstPassages
  <2>3. FirstPassages(n) \in Seq(Pieces)
    BY <2>1, <2>2, SeqDef
  <2> QED BY <2>1, <2>2, <2>3, LenProperties
<1> QED BY <1>1, <1>2, <1>3

LEMMA WholeIsAll == WholeSource = Bytes(FirstPassages(Len(Passages)))
<1>1. DOMAIN Passages = 1 .. Len(Passages)
  BY PassagesKnown, LenProperties
<1> QED BY <1>1 DEF WholeSource, FirstPassages, Passage

LEMMA DepthIsNat == Depth \in Nat
<1>1. Len(Passages) \in 0 .. Len(Passages)
  BY PassagesArePieces
<1>2. FirstPassages(Len(Passages)) \in Seq(Pieces)
  BY <1>1, PassagesArePieces
<1>3. Bytes(FirstPassages(Len(Passages))) \in Seq(Nat \X Nat)
  BY <1>2, BytesAreFlat, PiecesHaveBytes, FlatIsSeq
<1> QED BY <1>3, WholeIsAll, LenProperties DEF Depth

LEMMA OnePassageMore ==
  ASSUME NEW n \in 0 .. Len(Passages) - 1
  PROVE  FirstPassages(n + 1) = Append(FirstPassages(n), Passage(n + 1))
<1> DEFINE a == FirstPassages(n + 1)
           b == FirstPassages(n)
           c == Append(b, Passage(n + 1))
<1>1. n \in 0 .. Len(Passages) /\ n + 1 \in 0 .. Len(Passages) /\ n + 1 \in 1 .. Len(Passages) /\ n \in Nat
  BY PassagesArePieces
<1>2. a \in Seq(Pieces) /\ Len(a) = n + 1 /\ b \in Seq(Pieces) /\ Len(b) = n /\ Passage(n + 1) \in Pieces
  BY <1>1, PassagesArePieces
<1>3. /\ \A i \in 1 .. n + 1 : a[i] = Passage(i)
      /\ \A i \in 1 .. n : b[i] = Passage(i)
  BY DEF FirstPassages
<1> HIDE DEF a, b
<1>4. /\ c \in Seq(Pieces) /\ Len(c) = n + 1 /\ c[n + 1] = Passage(n + 1)
      /\ \A i \in 1 .. n : c[i] = b[i]
  BY <1>2, AppendProperties
<1>5. \A i \in 1 .. n + 1 : i \in 1 .. n \/ i = n + 1
  BY <1>1
<1> HIDE DEF c
<1>6. \A i \in 1 .. Len(a) : a[i] = c[i]
  BY <1>2, <1>3, <1>4, <1>5
<1>7. a = c
  BY <1>2, <1>4, <1>6, SeqEqual
<1> QED BY <1>7 DEF a, b, c

-----------------------------------------------------------------------------
\* Nodes as reading makes them of packed parts, and sets of nodes with all that
\* is below them.
LeafNodes == {x \in [parts : Seq(Part), kids : {<<>>}, limit : Nat] : x.parts # <<>>}
Closed(T) == LeafNodes \subseteq T /\ \A x \in T : x.kids \in Seq(T) /\ x.parts \in Seq(Part)
Below(T) == [x \in T |-> IF x.kids = <<>> THEN <<x>> ELSE x.kids]

LEMMA BelowMaps == ASSUME NEW T, Closed(T) PROVE Maps(Below(T), T, T)
<1> SUFFICES ASSUME NEW x \in T PROVE Below(T)[x] \in Seq(T)
  BY DEF Maps, Below
<1>1. <<x>> \in Seq(T) /\ x.kids \in Seq(T)
  BY DEF Closed
<1> QED BY <1>1 DEF Below

LEMMA ExpandedIsFlat ==
  ASSUME NEW T, NEW s \in Seq(T) PROVE Expanded(s) = Flat(Below(T), s)
<1>1. \A i \in DOMAIN s : s[i] \in T
  BY ElementOfSeq, LenProperties
<1>2. [i \in DOMAIN s |-> IF s[i].kids = <<>> THEN <<s[i]>> ELSE s[i].kids]
      = [i \in DOMAIN s |-> Below(T)[s[i]]]
  BY <1>1 DEF Below
<1> QED BY <1>2 DEF Expanded, Flat

LEMMA ExpandedIsSeq ==
  ASSUME NEW T, Closed(T), NEW s \in Seq(T) PROVE Expanded(s) \in Seq(T)
BY BelowMaps, ExpandedIsFlat, FlatIsSeq

LEMMA ExpandedConcat ==
  ASSUME NEW T, Closed(T), NEW s \in Seq(T), NEW t \in Seq(T)
  PROVE  Expanded(s \o t) = Expanded(s) \o Expanded(t)
<1>1. s \o t \in Seq(T)
  BY ConcatProperties
<1>2. Maps(Below(T), T, T)
  BY BelowMaps
<1>3. Flat(Below(T), s \o t) = Flat(Below(T), s) \o Flat(Below(T), t)
  BY <1>2, FlatConcat
<1> DEFINE u == s \o t
<1> HIDE DEF u
<1>4. u \in Seq(T)
  BY <1>1 DEF u
<1>5. Expanded(u) = Flat(Below(T), u) /\ Expanded(s) = Flat(Below(T), s)
      /\ Expanded(t) = Flat(Below(T), t)
  BY <1>4, ExpandedIsFlat
<1> QED BY <1>3, <1>5 DEF u

LEMMA LeavesStay == ASSUME NEW s \in Seq(LeafNodes) PROVE Expanded(s) = s
<1>1. Below(LeafNodes) = [x \in LeafNodes |-> <<x>>]
  BY DEF Below, LeafNodes
<1>2. Flat([x \in LeafNodes |-> <<x>>], s) = s
  BY FlatSingles
<1> QED BY <1>1, <1>2, ExpandedIsFlat

\* A node that was made of others has them below it.
LEMMA OneExpanded ==
  ASSUME NEW T, Closed(T), NEW x \in T, x.kids # <<>> PROVE Expanded(<<x>>) = x.kids
<1>1. <<x>> \in Seq(T)
  OBVIOUS
<1>2. Maps(Below(T), T, T)
  BY BelowMaps
<1>3. Flat(Below(T), <<x>>) = Below(T)[x]
  BY <1>2, FlatOne
<1>4. Expanded(<<x>>) = Flat(Below(T), <<x>>)
  BY <1>1, ExpandedIsFlat
<1> QED BY <1>3, <1>4 DEF Below

\* What Unfolded is, without its recursion.
Unfolding(u, s, T) ==
  /\ u \in [0 .. Depth -> Seq(T)] /\ u[0] = s
  /\ \A n \in 0 .. Depth - 1 : u[n + 1] = Expanded(u[n])

LEMMA UnfoldedIs ==
  ASSUME NEW T, Closed(T), NEW s \in Seq(T) PROVE Unfolding(Unfolded(s), s, T)
<1> DEFINE step == [l \in Seq(T) |-> Expanded(l)]
           Next_(g) == [n \in 0 .. Depth |-> IF n = 0 THEN s ELSE Expanded(g[n - 1])]
           c == CHOOSE g : g = Next_(g)
<1>0. Depth \in Nat
  BY DepthIsNat
<1>1. step \in [Seq(T) -> Seq(T)]
  BY ExpandedIsSeq
<1>2. PICK f \in [0 .. Depth -> Seq(T)] : Repeated(f, Depth, s, step)
  <2> DEFINE St == Seq(T)
  <2>1. s \in St /\ step \in [St -> St]
    BY <1>1
  <2> HIDE DEF step, St
  <2>2. \E f \in [0 .. Depth -> St] : Repeated(f, Depth, s, step)
    BY <1>0, <2>1, Repeats
  <2> QED BY <2>2 DEF St
<1>3. f = Next_(f)
  <2>1. ASSUME NEW n \in 0 .. Depth PROVE f[n] = IF n = 0 THEN s ELSE Expanded(f[n - 1])
    <3>1. CASE n = 0
      BY <1>2, <3>1 DEF Repeated
    <3>2. CASE n # 0
      <4>1. n - 1 \in 0 .. Depth - 1 /\ n - 1 \in 0 .. Depth /\ (n - 1) + 1 = n
        BY <1>0, <3>2
      <4>2. f[(n - 1) + 1] = step[f[n - 1]]
        BY <1>2, <4>1 DEF Repeated
      <4>3. f[n - 1] \in Seq(T)
        BY <4>1
      <4> QED BY <3>2, <4>1, <4>2, <4>3
    <3> QED BY <3>1, <3>2
  <2>2. f = [n \in 0 .. Depth |-> f[n]]
    OBVIOUS
  <2> QED BY <2>1, <2>2
<1>4. c = Next_(c)
  <2> HIDE DEF Next_
  <2> QED BY <1>3
<1>5. Unfolded(s) = c
  BY DEF Unfolded
<1> HIDE DEF c
<1>6. DOMAIN c = 0 .. Depth /\ \A n \in 0 .. Depth : c[n] = IF n = 0 THEN s ELSE Expanded(c[n - 1])
  BY <1>4
<1> HIDE DEF Next_, step
<1>7. c[0] = s
  BY <1>0, <1>6
<1>8. ASSUME NEW n \in 0 .. Depth - 1 PROVE c[n + 1] = Expanded(c[n])
  <2>1. n + 1 \in 0 .. Depth /\ n + 1 # 0 /\ (n + 1) - 1 = n
    BY <1>0
  <2> QED BY <1>6, <2>1
<1>9. \A n \in 0 .. Depth : c[n] \in Seq(T)
  <2> DEFINE G == {n \in 0 .. Depth : c[n] \in Seq(T)}
  <2>1. 0 \in G
    BY <1>0, <1>7
  <2>2. ASSUME NEW n \in 0 .. Depth - 1, n \in G PROVE n + 1 \in G
    <3>1. n + 1 \in 0 .. Depth
      BY <1>0
    <3>2. Expanded(c[n]) \in Seq(T)
      BY <2>2, ExpandedIsSeq
    <3> QED BY <1>8, <3>1, <3>2
  <2> HIDE DEF G
  <2>3. \A n \in 0 .. Depth : n \in G
    BY <1>0, <2>1, <2>2, UpTo
  <2> QED BY <2>3 DEF G
<1>10. c \in [0 .. Depth -> Seq(T)]
  <2>1. c = [n \in 0 .. Depth |-> c[n]]
    BY <1>4 DEF Next_
  <2> QED BY <1>9, <2>1
<1> QED BY <1>5, <1>7, <1>8, <1>10 DEF Unfolding

\* Nodes side by side have side by side what is below them.
LEMMA UnfoldedConcat ==
  ASSUME NEW T, Closed(T), NEW s \in Seq(T), NEW t \in Seq(T), NEW n \in 0 .. Depth
  PROVE  Unfolded(s \o t)[n] = Unfolded(s)[n] \o Unfolded(t)[n]
<1> DEFINE u == Unfolded(s)
           v == Unfolded(t)
           w == Unfolded(s \o t)
           G == {i \in 0 .. Depth : w[i] = u[i] \o v[i]}
<1>1. Unfolding(u, s, T) /\ Unfolding(v, t, T)
  BY UnfoldedIs
<1>2. Unfolding(w, s \o t, T)
  <2> DEFINE x == s \o t
  <2>1. x \in Seq(T)
    BY ConcatProperties
  <2> HIDE DEF x
  <2>2. Unfolding(Unfolded(x), x, T)
    BY <2>1, UnfoldedIs
  <2> QED BY <2>2 DEF x
<1> HIDE DEF u, v, w
<1>3. Depth \in Nat
  BY DepthIsNat
<1>4. 0 \in G
  BY <1>1, <1>2, <1>3 DEF Unfolding
<1>5. ASSUME NEW i \in 0 .. Depth - 1, i \in G PROVE i + 1 \in G
  <2>1. i \in 0 .. Depth /\ i + 1 \in 0 .. Depth
    BY <1>3
  <2>2. w[i + 1] = Expanded(w[i]) /\ u[i + 1] = Expanded(u[i]) /\ v[i + 1] = Expanded(v[i])
    BY <1>1, <1>2 DEF Unfolding
  <2>3. u[i] \in Seq(T) /\ v[i] \in Seq(T)
    BY <1>1, <2>1 DEF Unfolding
  <2>4. Expanded(u[i] \o v[i]) = Expanded(u[i]) \o Expanded(v[i])
    BY <2>3, ExpandedConcat
  <2>5. w[i] = u[i] \o v[i]
    BY <1>5
  <2> QED BY <2>1, <2>2, <2>4, <2>5
<1> HIDE DEF G
<1>6. n \in G
  BY <1>3, <1>4, <1>5, UpTo
<1> QED BY <1>6 DEF G, u, v, w

LEMMA LevelTyped ==
  ASSUME NEW T, Closed(T), NEW s \in Seq(T), NEW n \in 0 .. Depth
  PROVE  Unfolded(s)[n] \in Seq(T)
BY UnfoldedIs DEF Unfolding

\* The levels below the next level are the levels below, one earlier.
LEMMA UnfoldedNext ==
  ASSUME NEW T, Closed(T), NEW s \in Seq(T), NEW n \in 0 .. Depth - 1
  PROVE  Unfolded(s)[n + 1] = Unfolded(Expanded(s))[n]
<1> DEFINE t == Expanded(s)
           u == Unfolded(s)
           v == Unfolded(t)
           G == {i \in 0 .. Depth - 1 : u[i + 1] = v[i]}
<1>1. t \in Seq(T)
  BY ExpandedIsSeq
<1>2. u[0] = s /\ \A i \in 0 .. Depth - 1 : u[i + 1] = Expanded(u[i])
  BY UnfoldedIs DEF Unfolding
<1> HIDE DEF t
<1>3. v[0] = t /\ \A i \in 0 .. Depth - 1 : v[i + 1] = Expanded(v[i])
  BY <1>1, UnfoldedIs DEF Unfolding
<1>4. Depth \in Nat /\ Depth - 1 \in Nat /\ 0 \in 0 .. Depth - 1
  BY DepthIsNat
<1> HIDE DEF u, v
<1>5. 0 \in G
  BY <1>2, <1>3, <1>4 DEF t
<1>6. ASSUME NEW i \in 0 .. (Depth - 1) - 1, i \in G PROVE i + 1 \in G
  <2>1. i \in 0 .. Depth - 1 /\ i + 1 \in 0 .. Depth - 1
    BY <1>4
  <2>2. u[(i + 1) + 1] = Expanded(u[i + 1]) /\ v[i + 1] = Expanded(v[i])
    BY <1>2, <1>3, <2>1
  <2> QED BY <1>6, <2>1, <2>2
<1> HIDE DEF G
<1>7. n \in G
  <2> DEFINE d == Depth - 1
  <2> HIDE DEF d
  <2>1. d \in Nat /\ n \in 0 .. d /\ \A i \in 0 .. d - 1 : i \in G => i + 1 \in G
    BY <1>4, <1>6 DEF d
  <2> QED BY <1>5, <2>1, UpTo
<1> QED BY <1>7 DEF G, u, v, t

\* Once all are leaves, nothing changes any more.
LEMMA UnfoldedStays ==
  ASSUME NEW T, Closed(T), NEW s \in Seq(T), NEW h \in 0 .. Depth,
         Unfolded(s)[h] \in Seq(LeafNodes), NEW n \in h .. Depth
  PROVE  Unfolded(s)[n] = Unfolded(s)[h]
<1> DEFINE u == Unfolded(s)
           G == {i \in 0 .. Depth - h : u[h + i] = u[h]}
<1>1. \A i \in 0 .. Depth - 1 : u[i + 1] = Expanded(u[i])
  BY UnfoldedIs DEF Unfolding
<1>2. Depth \in Nat /\ h \in Nat /\ Depth - h \in Nat /\ n - h \in 0 .. Depth - h /\ h + (n - h) = n
  BY DepthIsNat
<1>3. Expanded(u[h]) = u[h]
  BY LeavesStay
<1> HIDE DEF u
<1>4. 0 \in G
  <2>1. h + 0 = h /\ 0 \in 0 .. Depth - h
    BY <1>2
  <2> QED BY <2>1
<1>5. ASSUME NEW i \in 0 .. (Depth - h) - 1, i \in G PROVE i + 1 \in G
  <2>1. h + i \in 0 .. Depth - 1 /\ i + 1 \in 0 .. Depth - h /\ h + (i + 1) = (h + i) + 1
    BY <1>2
  <2>2. u[h + i] = u[h]
    BY <1>5
  <2> QED BY <1>1, <1>3, <2>1, <2>2
<1> HIDE DEF G
<1>6. n - h \in G
  <2> DEFINE d == Depth - h
  <2>1. d \in Nat /\ n - h \in 0 .. d /\ \A i \in 0 .. d - 1 : i \in G => i + 1 \in G
    BY <1>2, <1>5
  <2> HIDE DEF d
  <2> QED BY <1>4, <2>1, UpTo
<1> QED BY <1>2, <1>6 DEF G, u

LEMMA LeavesAreClosed == Closed(LeafNodes)
<1> SUFFICES ASSUME NEW x \in LeafNodes PROVE x.kids \in Seq(LeafNodes) /\ x.parts \in Seq(Part)
  BY DEF Closed
<1>1. x.kids = <<>> /\ x.parts \in Seq(Part)
  BY DEF LeafNodes
<1> QED BY <1>1, EmptySeq

LEMMA LeavesUnfolded ==
  ASSUME NEW s \in Seq(LeafNodes), NEW n \in 0 .. Depth PROVE Unfolded(s)[n] = s
<1>1. Closed(LeafNodes)
  BY LeavesAreClosed
<1>2. Unfolded(s)[0] = s /\ 0 \in 0 .. Depth /\ n \in 0 .. Depth
  BY <1>1, UnfoldedIs, DepthIsNat DEF Unfolding
<1> QED BY <1>1, <1>2, UnfoldedStays

\* The levels below a level further down.
LEMMA UnfoldedFurther ==
  ASSUME NEW T, Closed(T), NEW s \in Seq(T), NEW a \in 0 .. Depth, NEW b \in 0 .. Depth - a
  PROVE  Unfolded(Unfolded(s)[a])[b] = Unfolded(s)[a + b]
<1> DEFINE u == Unfolded(s)
           t == u[a]
           v == Unfolded(t)
           G == {i \in 0 .. Depth - a : v[i] = u[a + i]}
<1>1. u \in [0 .. Depth -> Seq(T)] /\ \A i \in 0 .. Depth - 1 : u[i + 1] = Expanded(u[i])
  BY UnfoldedIs DEF Unfolding
<1>2. t \in Seq(T)
  BY <1>1
<1> HIDE DEF t
<1>3. v[0] = t /\ \A i \in 0 .. Depth - 1 : v[i + 1] = Expanded(v[i])
  BY <1>2, UnfoldedIs DEF Unfolding
<1>4. Depth \in Nat /\ a \in Nat /\ Depth - a \in Nat
  BY DepthIsNat
<1> HIDE DEF u, v
<1>5. 0 \in G
  <2>1. a + 0 = a /\ 0 \in 0 .. Depth - a
    BY <1>4
  <2> QED BY <1>3, <2>1 DEF t
<1>6. ASSUME NEW i \in 0 .. (Depth - a) - 1, i \in G PROVE i + 1 \in G
  <2>1. a + i \in 0 .. Depth - 1 /\ i \in 0 .. Depth - 1 /\ i + 1 \in 0 .. Depth - a
        /\ a + (i + 1) = (a + i) + 1
    BY <1>4
  <2>2. v[i] = u[a + i]
    BY <1>6
  <2> QED BY <1>1, <1>3, <2>1, <2>2
<1> HIDE DEF G
<1>7. b \in G
  <2> DEFINE d == Depth - a
  <2>1. d \in Nat /\ b \in 0 .. d /\ \A i \in 0 .. d - 1 : i \in G => i + 1 \in G
    BY <1>4, <1>6
  <2> HIDE DEF d
  <2> QED BY <1>5, <2>1, UpTo
<1> QED BY <1>7 DEF G, u, v, t

LEMMA HalvesTyped ==
  ASSUME NEW T, NEW L, NEW s \in Seq(T), NEW t \in Seq(T), s \o t \in Seq(L)
  PROVE  s \in Seq(L) /\ t \in Seq(L)
<1> DEFINE u == s \o t
           m == Len(s)
           n == Len(t)
<1>1. /\ m \in Nat /\ n \in Nat /\ s \in [1 .. m -> T] /\ t \in [1 .. n -> T]
      /\ Len(u) = m + n /\ \A i \in 1 .. m + n : u[i] = IF i <= m THEN s[i] ELSE t[i - m]
  BY LenProperties, ConcatProperties
<1>2. u \in Seq(L)
  OBVIOUS
<1> HIDE DEF u, m, n
<1>3. \A i \in 1 .. m + n : u[i] \in L
  BY <1>1, <1>2, ElementOfSeq
<1>4. ASSUME NEW i \in 1 .. m PROVE s[i] \in L
  <2>1. i \in 1 .. m + n /\ i <= m
    BY <1>1
  <2> QED BY <1>1, <1>3, <2>1
<1>5. ASSUME NEW i \in 1 .. n PROVE t[i] \in L
  <2>1. i + m \in 1 .. m + n /\ ~(i + m <= m) /\ (i + m) - m = i
    BY <1>1
  <2> QED BY <1>1, <1>3, <2>1
<1>6. s \in [1 .. m -> L] /\ t \in [1 .. n -> L]
  BY <1>1, <1>4, <1>5
<1> QED BY <1>1, <1>6, SeqDef

-----------------------------------------------------------------------------
\* What leaves hold.
PartsIn(level) == FlattenSeq([i \in DOMAIN level |-> level[i].parts])
PartsOfNode == [x \in LeafNodes |-> x.parts]

LEMMA PartsMap ==
  /\ Maps(PartsOfNode, LeafNodes, Part)
  /\ \A x \in LeafNodes : PartsOfNode[x] = x.parts /\ PartsOfNode[x] # <<>>
BY DEF Maps, PartsOfNode, LeafNodes

LEMMA PartsAreFlat ==
  ASSUME NEW s \in Seq(LeafNodes)
  PROVE  PartsIn(s) = Flat(PartsOfNode, s) /\ PartsIn(s) \in Seq(Part)
<1>1. \A i \in DOMAIN s : s[i] \in LeafNodes
  BY ElementOfSeq, LenProperties
<1>2. [i \in DOMAIN s |-> s[i].parts] = [i \in DOMAIN s |-> PartsOfNode[s[i]]]
  BY <1>1 DEF PartsOfNode
<1>3. PartsIn(s) = Flat(PartsOfNode, s)
  BY <1>2 DEF PartsIn, Flat
<1>4. Flat(PartsOfNode, s) \in Seq(Part)
  BY PartsMap, FlatIsSeq
<1> QED BY <1>3, <1>4

LEMMA PartsAppend ==
  ASSUME NEW s \in Seq(LeafNodes), NEW x \in LeafNodes
  PROVE  PartsIn(Append(s, x)) = PartsIn(s) \o x.parts
<1>1. Append(s, x) \in Seq(LeafNodes)
  BY AppendProperties
<1>2. PartsIn(Append(s, x)) = Flat(PartsOfNode, Append(s, x)) /\ PartsIn(s) = Flat(PartsOfNode, s)
  BY <1>1, PartsAreFlat
<1>3. Maps(PartsOfNode, LeafNodes, Part) /\ PartsOfNode[x] = x.parts
  BY PartsMap
<1>4. Flat(PartsOfNode, Append(s, x)) = Flat(PartsOfNode, s) \o PartsOfNode[x]
  BY <1>3, FlatAppend
<1> QED BY <1>2, <1>3, <1>4

LEMMA BytesConcat ==
  ASSUME NEW s \in Seq(Pieces), NEW t \in Seq(Pieces)
  PROVE  Bytes(s \o t) = Bytes(s) \o Bytes(t)
<1> DEFINE u == s \o t
<1>1. u \in Seq(Pieces)
  BY ConcatProperties
<1>2. Maps(PieceBytes, Pieces, Nat \X Nat)
  BY PiecesHaveBytes
<1>3. Flat(PieceBytes, s \o t) = Flat(PieceBytes, s) \o Flat(PieceBytes, t)
  BY <1>2, FlatConcat
<1> HIDE DEF u
<1>4. Bytes(u) = Flat(PieceBytes, u) /\ Bytes(s) = Flat(PieceBytes, s) /\ Bytes(t) = Flat(PieceBytes, t)
  BY <1>1, BytesAreFlat
<1> QED BY <1>3, <1>4 DEF u

LEMMA PartsArePieces == \A s \in Seq(Part) : s \in Seq(Pieces)
<1> SUFFICES ASSUME NEW s \in Seq(Part) PROVE s \in Seq(Pieces)
  OBVIOUS
<1>1. Len(s) \in Nat /\ s \in [1 .. Len(s) -> Part]
  BY LenProperties
<1>2. s \in [1 .. Len(s) -> Pieces]
  BY <1>1 DEF Pieces
<1> QED BY <1>1, <1>2, SeqDef

Whole(level) == level \in Seq(LeafNodes) /\ Bytes(PartsIn(level)) = WholeSource

\* No more leaves than bytes.
LEMMA LeavesAreFew ==
  ASSUME NEW level, Whole(level) PROVE Len(level) \in Nat /\ Len(level) <= Depth
<1> DEFINE packed == PartsIn(level)
<1>1. level \in Seq(LeafNodes) /\ packed \in Seq(Part) /\ packed = Flat(PartsOfNode, level)
  BY PartsAreFlat DEF Whole
<1>2. Len(level) <= Len(packed)
  <2>1. Maps(PartsOfNode, LeafNodes, Part) /\ \A x \in LeafNodes : PartsOfNode[x] # <<>>
    BY PartsMap
  <2>2. Len(level) <= Len(Flat(PartsOfNode, level))
    BY <1>1, <2>1, FlatIsLong
  <2> QED BY <1>1, <2>2
<1> HIDE DEF packed
<1>3. packed \in Seq(Pieces)
  BY <1>1, PartsArePieces
<1>4. Len(packed) <= Len(Bytes(packed))
  <2>1. Maps(PieceBytes, Pieces, Nat \X Nat) /\ \A p \in Pieces : PieceBytes[p] # <<>>
    BY PiecesHaveBytes
  <2>2. Len(packed) <= Len(Flat(PieceBytes, packed))
    BY <1>3, <2>1, FlatIsLong
  <2> QED BY <1>3, <2>2, BytesAreFlat
<1>5. Len(Bytes(packed)) = Depth
  BY DEF packed, Whole, Depth
<1>6. Len(level) \in Nat /\ Len(packed) \in Nat /\ Depth \in Nat
  BY <1>1, LenProperties, DepthIsNat
<1> QED BY <1>2, <1>4, <1>5, <1>6

\* Some number of levels below the nodes are exactly these leaves.
Reaches(s, h, out) == h \in 0 .. Depth /\ Unfolded(s)[h] = out

LEMMA PartsOfReaching ==
  ASSUME NEW T, Closed(T), NEW s \in Seq(T), NEW h, NEW out, Reaches(s, h, out), Whole(out),
         NEW n \in 0 .. Depth
  PROVE  LeavesUnder(Unfolded(s)[n]) = out
<1> DEFINE u == Unfolded(s)
<1>1. Depth \in Nat /\ h \in 0 .. Depth /\ h \in Nat /\ u[h] = out /\ out \in Seq(LeafNodes)
  BY DepthIsNat DEF Reaches, Whole
<1>2. u[n] \in Seq(T)
  BY UnfoldedIs DEF Unfolding
<1>3. CASE n <= h
  <2> DEFINE v == Unfolded(u[n])
  <2>1. h - n \in 0 .. Depth - n /\ n + (h - n) = h /\ h - n \in 0 .. Depth /\ Depth \in h - n .. Depth
    BY <1>1, <1>3
  <2>2. v[h - n] = u[n + (h - n)]
    BY <2>1, UnfoldedFurther
  <2>3. v[h - n] = out
    <3> HIDE DEF u, v
    <3> QED BY <1>1, <2>1, <2>2
  <2>4. v[Depth] = v[h - n]
    <3> DEFINE t == u[n]
               k == h - n
    <3>1. t \in Seq(T) /\ k \in 0 .. Depth /\ Depth \in k .. Depth /\ Unfolded(t)[k] \in Seq(LeafNodes)
      BY <1>1, <1>2, <2>1, <2>3
    <3> HIDE DEF t, k
    <3>2. Unfolded(t)[Depth] = Unfolded(t)[k]
      BY <3>1, UnfoldedStays
    <3> QED BY <3>2 DEF t, k
  <2> QED BY <2>3, <2>4 DEF LeavesUnder
<1>4. CASE ~(n <= h)
  <2>1. n \in h .. Depth
    BY <1>1, <1>4
  <2>2. u[n] = out
    BY <1>1, <2>1, UnfoldedStays
  <2>3. Depth \in 0 .. Depth
    BY <1>1
  <2>4. Unfolded(out)[Depth] = out
    BY <1>1, <2>3, LeavesUnfolded
  <2> QED BY <2>2, <2>4 DEF LeavesUnder
<1> QED BY <1>3, <1>4

\* Levels are the first of what is below the root.
LEMMA LevelsEnd ==
  ASSUME NEW T, Closed(T), NEW x \in T
  PROVE  \E last \in 0 .. Depth : Levels(x) = [n \in 1 .. last + 1 |-> Unfolded(<<x>>)[n - 1]]
<1> DEFINE down == Unfolded(<<x>>)
           narrow == {k \in 0 .. Depth : k < Depth => Len(down[k + 1]) <= Len(down[k])}
           Fits(k) == /\ k < Depth => Len(down[k + 1]) <= Len(down[k])
                      /\ \A j \in 0 .. k - 1 : Len(down[j + 1]) > Len(down[j])
           widest == CHOOSE k \in 0 .. Depth : Fits(k)
           R == {p \in narrow \X narrow : p[1] < p[2]}
<1>1. Levels(x) = [k \in 1 .. widest + 1 |-> down[k - 1]]
  BY DEF Levels
<1>a. <<x>> \in Seq(T)
  OBVIOUS
<1>2. Depth \in Nat /\ down \in [0 .. Depth -> Seq(T)]
  <2> DEFINE s == <<x>>
  <2> HIDE DEF s
  <2>1. s \in Seq(T)
    BY <1>a DEF s
  <2>2. Unfolded(s) \in [0 .. Depth -> Seq(T)]
    BY <2>1, UnfoldedIs DEF Unfolding
  <2> QED BY <2>2, DepthIsNat DEF s
<1> HIDE DEF down
<1>3. PICK m \in narrow : \A k \in narrow : ~(k < m)
  <2>0. IsFiniteSet(0 .. Depth) /\ narrow \subseteq 0 .. Depth
    BY <1>2, FS_Interval
  <2>1. IsFiniteSet(narrow) /\ narrow \subseteq 0 .. Depth /\ Depth \in narrow
    <3>1. Depth \in narrow
      BY <1>2
    <3> HIDE DEF narrow
    <3> QED BY <2>0, <3>1, FS_Subset
  <2>2. \A k, l \in narrow : <<k, l>> \in R <=> k < l
    OBVIOUS
  <2>3. \A k \in narrow : k \in Int
    BY <2>1
  <2> HIDE DEF narrow, R
  <2>4. \A k \in narrow : <<k, k>> \notin R
    BY <2>2, <2>3
  <2>5. \A k, l, j \in narrow : <<k, l>> \in R /\ <<l, j>> \in R => <<k, j>> \in R
    BY <2>2, <2>3
  <2>6. narrow # {}
    BY <2>1
  <2>7. \E m \in narrow : \A k \in narrow : <<k, m>> \notin R
    BY <2>1, <2>4, <2>5, <2>6, MinimalElement
  <2> QED BY <2>2, <2>7
<1>4. Fits(m)
  <2>1. m \in 0 .. Depth /\ (m < Depth => Len(down[m + 1]) <= Len(down[m]))
    OBVIOUS
  <2>2. ASSUME NEW j \in 0 .. m - 1 PROVE Len(down[j + 1]) > Len(down[j])
    <3>1. j \in 0 .. Depth /\ j + 1 \in 0 .. Depth /\ j < Depth /\ j < m
      BY <1>2, <2>1
    <3>2. j \notin narrow
      BY <1>3, <3>1
    <3>3. ~(Len(down[j + 1]) <= Len(down[j]))
      BY <3>1, <3>2
    <3>4. Len(down[j + 1]) \in Nat /\ Len(down[j]) \in Nat
      BY <1>2, <3>1, LenProperties
    <3> QED BY <3>3, <3>4
  <2> QED BY <2>1, <2>2
<1>5. m \in 0 .. Depth
  OBVIOUS
<1> HIDE DEF narrow, R, Fits
<1>6. widest \in 0 .. Depth
  BY <1>4, <1>5
<1> HIDE DEF widest
<1> QED BY <1>1, <1>6 DEF down

LEMMA LevelsAreUnfolded ==
  ASSUME NEW T, Closed(T), NEW x \in T
  PROVE  /\ Len(Levels(x)) \in Nat \ {0} /\ DOMAIN Levels(x) = 1 .. Len(Levels(x))
         /\ \A n \in DOMAIN Levels(x) :
              n - 1 \in 0 .. Depth /\ Levels(x)[n] = Unfolded(<<x>>)[n - 1]
<1> DEFINE down == Unfolded(<<x>>)
<1> HIDE DEF down
<1>1. PICK last \in 0 .. Depth : Levels(x) = [n \in 1 .. last + 1 |-> down[n - 1]]
  BY LevelsEnd DEF down
<1>2. Depth \in Nat /\ last \in Nat
  BY DepthIsNat
<1> DEFINE levels == Levels(x)
<1>3. DOMAIN levels = 1 .. last + 1 /\ \A n \in 1 .. last + 1 : levels[n] = down[n - 1]
  BY <1>1
<1>4. Len(levels) = last + 1
  <2>1. last + 1 \in Nat
    BY <1>2
  <2>2. levels = [n \in 1 .. last + 1 |-> down[n - 1]]
    BY <1>1
  <2> HIDE DEF levels
  <2> QED BY <2>1, <2>2
<1>5. \A n \in 1 .. last + 1 : n - 1 \in 0 .. Depth
  BY <1>2
<1> QED BY <1>2, <1>3, <1>4, <1>5 DEF down

\* What later stages see of a tree whose levels end at leaves that hold all.
LEMMA TreeIsWhole ==
  ASSUME NEW T, Closed(T), NEW x \in T, NEW h, NEW out, Reaches(<<x>>, h, out), Whole(out)
  PROVE  /\ \A n \in DOMAIN Levels(x) : Bytes(PartsOf(Levels(x)[n])) = WholeSource
         /\ out = LeavesUnder(<<x>>)
<1> DEFINE s == <<x>>
<1>1. s \in Seq(T)
  OBVIOUS
<1> HIDE DEF s
<1>2. ASSUME NEW n \in DOMAIN Levels(x) PROVE Bytes(PartsOf(Levels(x)[n])) = WholeSource
  <2>1. n - 1 \in 0 .. Depth /\ Levels(x)[n] = Unfolded(s)[n - 1]
    BY <1>2, LevelsAreUnfolded DEF s
  <2>2. Reaches(s, h, out)
    BY DEF s
  <2> DEFINE k == n - 1
  <2> HIDE DEF k
  <2>3. k \in 0 .. Depth /\ Levels(x)[n] = Unfolded(s)[k]
    BY <2>1 DEF k
  <2>4. LeavesUnder(Unfolded(s)[k]) = out
    BY <1>1, <2>2, <2>3, PartsOfReaching
  <2>5. PartsOf(Levels(x)[n]) = PartsIn(out)
    BY <2>3, <2>4 DEF PartsOf, PartsIn
  <2> QED BY <2>5 DEF Whole
<1>3. out = LeavesUnder(s)
  <2>0. Reaches(s, h, out)
    BY DEF s
  <2>1. Reaches(s, h, out) /\ 0 \in 0 .. Depth /\ Unfolded(s)[0] = s
    BY <1>1, <2>0, DepthIsNat, UnfoldedIs DEF Unfolding
  <2>2. LeavesUnder(Unfolded(s)[0]) = out
    BY <1>1, <2>1, PartsOfReaching
  <2> QED BY <2>1, <2>2
<1> QED BY <1>2, <1>3 DEF s

-----------------------------------------------------------------------------
\* Sequences that are not empty, and what they are one after the other.
Filled(T) == {s \in Seq(T) : s # <<>>}
AsIs(T) == [s \in Filled(T) |-> s]

LEMMA FirstAndRest ==
  ASSUME NEW S, NEW s \in Seq(S), s # <<>>
  PROVE  Head(s) \in S /\ Tail(s) \in Seq(S) /\ s = <<Head(s)>> \o Tail(s) /\ Len(Tail(s)) = Len(s) - 1
<1>1. Len(s) \in Nat /\ Len(s) # 0 /\ 1 \in 1 .. Len(s) /\ Len(s) \in 1 .. Len(s)
  BY EmptySeq, LenProperties
<1>2. SubSeq(s, 1, Len(s)) = <<s[1]>> \o SubSeq(s, 1 + 1, Len(s))
  BY <1>1, SubSeqRecursiveFirst
<1>3. SubSeq(s, 1, Len(s)) = s /\ Tail(s) = SubSeq(s, 2, Len(s)) /\ Head(s) = s[1]
  BY SubSeqFull, TailIsSubSeq
<1>4. Head(s) \in S /\ Tail(s) \in Seq(S) /\ Len(Tail(s)) = Len(s) - 1
  BY HeadTailProperties
<1> QED BY <1>2, <1>3, <1>4

LEMMA FilledMaps ==
  ASSUME NEW T
  PROVE  Maps(AsIs(T), Filled(T), T) /\ \A x \in Filled(T) : AsIs(T)[x] = x /\ x # <<>>
BY DEF Maps, AsIs, Filled

LEMMA FlattenIsFlat ==
  ASSUME NEW T, NEW s \in Seq(Filled(T))
  PROVE  FlattenSeq(s) = Flat(AsIs(T), s) /\ FlattenSeq(s) \in Seq(T)
<1>1. \A i \in DOMAIN s : s[i] \in Filled(T)
  BY ElementOfSeq, LenProperties
<1>2. Len(s) \in Nat /\ s \in [1 .. Len(s) -> Filled(T)]
  BY LenProperties
<1>3. s = [i \in DOMAIN s |-> AsIs(T)[s[i]]]
  BY <1>1, <1>2, FilledMaps
<1>4. Flat(AsIs(T), s) \in Seq(T)
  BY FilledMaps, FlatIsSeq
<1> QED BY <1>3, <1>4 DEF Flat

LEMMA FlattenFirst ==
  ASSUME NEW T, NEW x \in Filled(T), NEW s \in Seq(Filled(T))
  PROVE  <<x>> \o s \in Seq(Filled(T)) /\ FlattenSeq(<<x>> \o s) = x \o FlattenSeq(s)
<1> DEFINE F == Filled(T)
           one == <<x>>
           t == one \o s
<1>1. one \in Seq(F) /\ s \in Seq(F)
  OBVIOUS
<1>2. Maps(AsIs(T), F, T) /\ Flat(AsIs(T), one) = x
  <2>1. Maps(AsIs(T), F, T) /\ AsIs(T)[x] = x
    BY FilledMaps
  <2>2. x \in F
    OBVIOUS
  <2> HIDE DEF F
  <2> QED BY <2>1, <2>2, FlatOne
<1> HIDE DEF one
<1>3. t \in Seq(F)
  <2> HIDE DEF F
  <2> QED BY <1>1, ConcatProperties
<1>4. Flat(AsIs(T), t) = Flat(AsIs(T), one) \o Flat(AsIs(T), s)
  <2> HIDE DEF F
  <2>1. Maps(AsIs(T), F, T)
    BY <1>2
  <2> QED BY <1>1, <2>1, FlatConcat
<1> HIDE DEF t
<1>5. FlattenSeq(t) = Flat(AsIs(T), t) /\ FlattenSeq(s) = Flat(AsIs(T), s)
  BY <1>3, FlattenIsFlat
<1> QED BY <1>2, <1>3, <1>4, <1>5 DEF t, one

\* If the first of several has more than one element, there are fewer of them.
LEMMA FlattenIsLonger ==
  ASSUME NEW T, NEW s \in Seq(Filled(T)), s # <<>>, Len(s) > 1 => Len(s[1]) > 1,
         Len(FlattenSeq(s)) > 1
  PROVE  Len(s) < Len(FlattenSeq(s))
<1>1. CASE Len(s) > 1
  <2> DEFINE F == Filled(T)
             x == Head(s)
             rest == Tail(s)
  <2>1. x \in F /\ rest \in Seq(F) /\ s = <<x>> \o rest /\ Len(rest) = Len(s) - 1 /\ x = s[1]
    <3> HIDE DEF F
    <3>1. s \in Seq(F)
      BY DEF F
    <3> QED BY <3>1, FirstAndRest
  <2> HIDE DEF x, rest
  <2>2. FlattenSeq(s) = x \o FlattenSeq(rest)
    BY <2>1, FlattenFirst
  <2>3. Len(rest) <= Len(FlattenSeq(rest)) /\ FlattenSeq(rest) \in Seq(T)
    <3>1. Maps(AsIs(T), F, T) /\ \A y \in F : AsIs(T)[y] # <<>>
      BY FilledMaps
    <3>2. FlattenSeq(rest) = Flat(AsIs(T), rest) /\ FlattenSeq(rest) \in Seq(T)
      BY <2>1, FlattenIsFlat
    <3>3. rest \in Seq(F)
      BY <2>1
    <3> HIDE DEF F
    <3>4. Len(rest) <= Len(Flat(AsIs(T), rest))
      BY <3>1, <3>3, FlatIsLong
    <3> QED BY <3>2, <3>4
  <2>4. x \in Seq(T) /\ Len(x) > 1
    BY <1>1, <2>1 DEF Filled
  <2>5. Len(x \o FlattenSeq(rest)) = Len(x) + Len(FlattenSeq(rest))
    <3> DEFINE y == FlattenSeq(rest)
    <3>1. y \in Seq(T)
      BY <2>3
    <3> HIDE DEF y
    <3>2. Len(x \o y) = Len(x) + Len(y)
      BY <2>4, <3>1, ConcatProperties
    <3> QED BY <3>2 DEF y
  <2>6. Len(x) \in Nat /\ Len(rest) \in Nat /\ Len(FlattenSeq(rest)) \in Nat /\ Len(s) \in Nat
    BY <2>1, <2>3, <2>4, LenProperties
  <2> QED BY <1>1, <2>1, <2>2, <2>3, <2>4, <2>5, <2>6
<1>2. CASE ~(Len(s) > 1)
  <2>1. Len(s) \in Nat /\ FlattenSeq(s) \in Seq(T)
    BY FlattenIsFlat, LenProperties
  <2>2. Len(FlattenSeq(s)) \in Nat
    BY <2>1, LenProperties
  <2> QED BY <1>2, <2>1, <2>2
<1> QED BY <1>1, <1>2

-----------------------------------------------------------------------------
\* The groups of a level.
LEMMA GroupHasEnd ==
  ASSUME NEW costs, Len(costs) \in Nat, NEW start \in 1 .. Len(costs)
  PROVE  GroupEnd(costs, start) \in start .. Len(costs)
<1> DEFINE n == Len(costs)
           fits(e) == /\ e - start < GroupWidth
                      /\ FoldLeft(+, 0, SubSeq(costs, start, e)) <= limit
           Ends(end) == /\ \A e \in start + 1 .. end : fits(e)
                        /\ end < n => ~fits(end + 1)
           F == {e \in start .. n : fits(e)}
           G == {e \in start .. n : \A d \in start + 1 .. e : d \in F}
<1>1. GroupEnd(costs, start) = CHOOSE end \in start .. n : Ends(end)
  BY DEF GroupEnd
<1>2. n \in Nat /\ start \in Nat /\ start <= n
  OBVIOUS
<1>3. \A e \in start .. n : fits(e) <=> e \in F
  OBVIOUS
<1> HIDE DEF n, fits, F
<1>4. start \in G
  BY <1>2
<1>5. IsFiniteSet(start .. n)
  <2>1. start \in Int /\ n \in Int
    BY <1>2
  <2> QED BY <2>1, FS_Interval
<1>6. \A e \in G : e \in start .. n /\ \A d \in start + 1 .. e : d \in F
  OBVIOUS
<1>7. \A e \in start .. n : (\A d \in start + 1 .. e : d \in F) => e \in G
  OBVIOUS
<1> HIDE DEF G
<1>8. IsFiniteSet(G) /\ G # {} /\ G \subseteq Int
  <2>1. G \subseteq start .. n
    BY <1>6
  <2>2. IsFiniteSet(G)
    BY <1>5, <2>1, FS_Subset
  <2>3. start .. n \subseteq Int
    OBVIOUS
  <2> QED BY <1>4, <2>1, <2>2, <2>3
<1>9. Max(G) \in G /\ \A e \in G : e <= Max(G)
  BY <1>8, MaxIsLargest
<1> DEFINE m == Max(G)
<1> HIDE DEF m
<1>10. m \in start .. n /\ (\A d \in start + 1 .. m : d \in F) /\ \A e \in G : e <= m
  BY <1>6, <1>9 DEF m
<1>11. ASSUME m < n PROVE m + 1 \notin F
  <2> SUFFICES ASSUME m + 1 \in F PROVE FALSE
    OBVIOUS
  <2>1. m + 1 \in start .. n /\ \A d \in start + 1 .. m + 1 : d \in start + 1 .. m \/ d = m + 1
    BY <1>2, <1>10, <1>11
  <2>2. m + 1 \in G
    BY <1>7, <1>10, <2>1
  <2> QED BY <1>2, <1>10, <2>2
<1>12. Ends(m)
  <2>1. \A e \in start + 1 .. m : e \in start .. n /\ e \in F
    BY <1>2, <1>10
  <2>2. m < n => m + 1 \in start .. n /\ m + 1 \notin F
    BY <1>2, <1>10, <1>11
  <2> QED BY <1>3, <2>1, <2>2
<1> HIDE DEF Ends
<1> QED BY <1>1, <1>10, <1>12 DEF n

LEMMA GroupsJoin ==
  ASSUME NEW T, NEW keys \in Seq(T), NEW costs, Len(costs) = Len(keys)
  PROVE  Groups(keys, costs) \in Seq(Filled(T)) /\ FlattenSeq(Groups(keys, costs)) = keys
<1> DEFINE n == Len(keys)
           end(i) == GroupEnd(costs, i)
           piece == [i \in 1 .. n |-> SubSeq(keys, i, end(i))]
           next == [i \in 1 .. n |-> end(i) + 1]
           F == Filled(T)
           step(g) == [start \in 1 .. n + 1 |->
                         IF start > n THEN <<>>
                         ELSE LET e == end(start) IN <<SubSeq(keys, start, e)>> \o g[e + 1]]
           c == CHOOSE g : g = step(g)
<1>1. n \in Nat /\ keys \in [1 .. n -> T]
  BY LenProperties
<1>2. \A i \in 1 .. n : end(i) \in i .. n
  BY <1>1, GroupHasEnd
<1> HIDE DEF end
<1>3. Groups(keys, costs) = c[1]
  BY DEF Groups, end
<1>4. piece \in [1 .. n -> F]
  <2> SUFFICES ASSUME NEW i \in 1 .. n PROVE SubSeq(keys, i, end(i)) \in F
    OBVIOUS
  <2>1. /\ i \in Int /\ end(i) \in Int /\ i <= end(i) /\ \A j \in i .. end(i) : j \in 1 .. n
    BY <1>1, <1>2
  <2>2. \A j \in i .. end(i) : keys[j] \in T
    BY <1>1, <2>1
  <2>3. /\ SubSeq(keys, i, end(i)) \in Seq(T) /\ Len(SubSeq(keys, i, end(i))) = end(i) - i + 1
    BY <2>1, <2>2, SubSeqProperties
  <2>4. SubSeq(keys, i, end(i)) # <<>>
    <3> DEFINE x == SubSeq(keys, i, end(i))
    <3> HIDE DEF x
    <3>1. Len(x) = end(i) - i + 1
      BY <2>3 DEF x
    <3>2. Len(x) # 0
      BY <2>1, <3>1
    <3>3. x # <<>>
      BY <3>2, EmptySeq
    <3> QED BY <3>3 DEF x
  <2> QED BY <2>3, <2>4 DEF Filled
<1>5. next \in [1 .. n -> 1 .. n + 1] /\ \A i \in 1 .. n : next[i] > i
  BY <1>1, <1>2
<1>6. PICK f \in [1 .. n + 1 -> Seq(F)] : Linked(f, n, next, piece)
  <2> HIDE DEF n, piece, next, F
  <2> QED BY <1>1, <1>4, <1>5, Links
<1>7. f = step(f)
  <2>1. ASSUME NEW i \in 1 .. n + 1
        PROVE  f[i] = IF i > n THEN <<>> ELSE <<SubSeq(keys, i, end(i))>> \o f[end(i) + 1]
    <3>1. CASE i > n
      <4>1. i = n + 1
        BY <1>1, <3>1
      <4> HIDE DEF n
      <4> QED BY <1>6, <3>1, <4>1 DEF Linked
    <3>2. CASE ~(i > n)
      <4>1. i \in 1 .. n
        BY <1>1, <3>2
      <4>2. f[i] = <<piece[i]>> \o f[next[i]]
        <5> HIDE DEF n, piece, next
        <5> QED BY <1>6, <4>1 DEF Linked
      <4>3. piece[i] = SubSeq(keys, i, end(i)) /\ next[i] = end(i) + 1
        BY <4>1
      <4> HIDE DEF n, piece, next
      <4> QED BY <3>2, <4>2, <4>3
    <3> QED BY <3>1, <3>2
  <2>2. f = [i \in 1 .. n + 1 |-> f[i]]
    BY <1>6
  <2> HIDE DEF F, n
  <2> QED BY <2>1, <2>2
<1>8. c = step(c)
  <2> HIDE DEF step
  <2> QED BY <1>7
<1> HIDE DEF c
<1>9. \A i \in 1 .. n + 1 : c[i] = IF i > n THEN <<>> ELSE <<SubSeq(keys, i, end(i))>> \o c[end(i) + 1]
  <2> HIDE DEF n
  <2> QED BY <1>8
<1> HIDE DEF step
<1> DEFINE Good(i) == c[i] \in Seq(F) /\ FlattenSeq(c[i]) = SubSeq(keys, i, n)
           G == {d \in 0 .. n : \A i \in n + 1 - d .. n + 1 : Good(i)}
<1>10. Good(n + 1)
  <2>1. n + 1 \in 1 .. n + 1 /\ n + 1 > n
    BY <1>1
  <2>2. c[n + 1] = <<>>
    <3> HIDE DEF n
    <3> QED BY <1>9, <2>1
  <2>3. SubSeq(keys, n + 1, n) = <<>>
    <3>1. n + 1 \in Int /\ n \in Int /\ n < n + 1
      BY <1>1
    <3> HIDE DEF n
    <3> QED BY <3>1, SubSeqEmpty
  <2>4. FlattenSeq(<<>>) = <<>>
    BY DEF FlattenSeq
  <2>5. <<>> \in Seq(F)
    BY EmptySeq
  <2> QED BY <2>2, <2>3, <2>4, <2>5
<1>11. 0 \in G
  <2>1. n + 1 - 0 = n + 1 /\ 0 \in 0 .. n /\ \A i \in n + 1 .. n + 1 : i = n + 1
    BY <1>1
  <2> HIDE DEF Good, n
  <2> QED BY <1>10, <2>1
<1>12. ASSUME NEW d \in 0 .. n - 1, d \in G PROVE d + 1 \in G
  <2> DEFINE i == n - d
             e == end(i)
  <2>1. i \in 1 .. n /\ i \in 1 .. n + 1 /\ ~(i > n) /\ n + 1 - (d + 1) = i /\ d + 1 \in 0 .. n
        /\ n + 1 - d = i + 1
    BY <1>1
  <2>2. e \in i .. n /\ e + 1 \in n + 1 - d .. n + 1
    BY <1>1, <1>2, <2>1
  <2> HIDE DEF i, e
  <2>3. Good(e + 1)
    BY <1>12, <2>2
  <2>4. c[i] = <<SubSeq(keys, i, e)>> \o c[e + 1]
    <3> HIDE DEF n
    <3> QED BY <1>9, <2>1 DEF e
  <2>5. SubSeq(keys, i, e) \in F
    <3>1. piece[i] = SubSeq(keys, i, e)
      BY <2>1 DEF e
    <3> HIDE DEF piece, F
    <3> QED BY <1>4, <2>1, <3>1
  <2>6. SubSeq(keys, i, e) \o SubSeq(keys, e + 1, n) = SubSeq(keys, i, n)
    <3>1. i \in 1 .. Len(keys) + 1 /\ e \in i - 1 .. Len(keys) /\ n \in e .. Len(keys)
      BY <1>1, <2>1, <2>2
    <3> QED BY <3>1, ConcatAdjacentSubSeq
  <2>7. Good(i)
    <3> DEFINE x == SubSeq(keys, i, e)
               y == c[e + 1]
    <3>1. x \in Filled(T) /\ y \in Seq(Filled(T))
      BY <2>3, <2>5
    <3> HIDE DEF x, y
    <3>2. <<x>> \o y \in Seq(Filled(T)) /\ FlattenSeq(<<x>> \o y) = x \o FlattenSeq(y)
      BY <3>1, FlattenFirst
    <3>3. FlattenSeq(y) = SubSeq(keys, e + 1, n)
      BY <2>3 DEF y
    <3> QED BY <2>4, <2>6, <3>2, <3>3 DEF x, y
  <2>8. \A j \in i .. n + 1 : j = i \/ j \in i + 1 .. n + 1
    BY <2>1
  <2>9. \A j \in i + 1 .. n + 1 : Good(j)
    <3> HIDE DEF Good
    <3> QED BY <1>12, <2>1
  <2>10. \A j \in n + 1 - (d + 1) .. n + 1 : Good(j)
    <3> HIDE DEF Good
    <3> QED BY <2>1, <2>7, <2>8, <2>9
  <2> HIDE DEF Good
  <2> QED BY <2>1, <2>10
<1> HIDE DEF G
<1>13. n \in G
  <2> HIDE DEF n
  <2>1. \A d \in 0 .. n - 1 : d \in G => d + 1 \in G
    BY <1>12
  <2>2. n \in Nat /\ n \in 0 .. n
    BY <1>1
  <2>3. \A d \in 0 .. n : d \in G
    BY <1>11, <2>1, <2>2, UpTo
  <2> QED BY <2>2, <2>3
<1>14. Good(1)
  <2>1. n + 1 - n = 1 /\ 1 \in 1 .. n + 1
    BY <1>1
  <2> HIDE DEF Good
  <2> QED BY <1>13, <2>1 DEF G
<1> QED BY <1>3, <1>14, SubSeqFull

LEMMA GroupsAreFewer ==
  ASSUME NEW T, NEW keys \in Seq(T), Len(keys) > 1, NEW costs, Len(costs) = Len(keys),
         Converges(Groups(keys, costs))
  PROVE  Len(Groups(keys, costs)) < Len(keys)
<1> DEFINE groups == Groups(keys, costs)
<1>1. groups \in Seq(Filled(T)) /\ FlattenSeq(groups) = keys
  BY GroupsJoin
<1> HIDE DEF groups
<1>2. groups # <<>>
  <2>1. FlattenSeq(<<>>) = <<>> /\ Len(<<>>) = 0
    BY EmptySeq DEF FlattenSeq
  <2> QED BY <1>1, <2>1
<1>3. ASSUME Len(groups) > 1 PROVE Len(groups[1]) > 1
  <2>1. Len(groups) \in Nat /\ DOMAIN groups = 1 .. Len(groups)
    BY <1>1, LenProperties
  <2> DEFINE m == Len(groups)
  <2>2. m \in Nat /\ m > 1 /\ DOMAIN groups = 1 .. m
    BY <1>3, <2>1
  <2> HIDE DEF m
  <2>3. 1 \in 1 .. m /\ 1 # m
    BY <2>2
  <2>4. 1 \in DOMAIN groups /\ 1 # Len(groups)
    BY <2>2, <2>3 DEF m
  <2> QED BY <2>4 DEF Converges, groups
<1>4. Len(groups) < Len(FlattenSeq(groups))
  BY <1>1, <1>2, <1>3, FlattenIsLonger
<1> QED BY <1>1, <1>4 DEF groups

-----------------------------------------------------------------------------
\* What has been asked for, from the first request to the last.
TaskOf(T) == [key : T, try : Nat, done : BOOLEAN]
KeysOf(tasks) == [i \in DOMAIN tasks |-> tasks[i].key]
Asked(r) == r.keys \o KeysOf(r.inflight)

LEMMA KeysTyped ==
  ASSUME NEW T, NEW tasks \in Seq(TaskOf(T))
  PROVE  KeysOf(tasks) \in Seq(T) /\ Len(KeysOf(tasks)) = Len(tasks)
<1>1. Len(tasks) \in Nat /\ DOMAIN tasks = 1 .. Len(tasks) /\ \A i \in 1 .. Len(tasks) : tasks[i].key \in T
  <2>1. Len(tasks) \in Nat /\ DOMAIN tasks = 1 .. Len(tasks) /\ \A i \in 1 .. Len(tasks) : tasks[i] \in TaskOf(T)
    BY LenProperties, ElementOfSeq
  <2> QED BY <2>1 DEF TaskOf
<1>2. KeysOf(tasks) \in [1 .. Len(tasks) -> T]
  BY <1>1 DEF KeysOf
<1>3. KeysOf(tasks) \in Seq(T)
  BY <1>1, <1>2, SeqDef
<1> QED BY <1>1, <1>2, <1>3, LenProperties

LEMMA KeysAppend ==
  ASSUME NEW T, NEW tasks \in Seq(TaskOf(T)), NEW t \in TaskOf(T)
  PROVE  KeysOf(Append(tasks, t)) = Append(KeysOf(tasks), t.key)
<1> DEFINE more == Append(tasks, t)
           a == KeysOf(more)
           b == Append(KeysOf(tasks), t.key)
           n == Len(tasks)
<1>1. n \in Nat /\ more \in Seq(TaskOf(T)) /\ Len(more) = n + 1 /\ more[n + 1] = t
      /\ \A i \in 1 .. n : more[i] = tasks[i]
  BY LenProperties, AppendProperties
<1>2. DOMAIN tasks = 1 .. n /\ DOMAIN more = 1 .. n + 1
  BY <1>1, LenProperties
<1> HIDE DEF more, n
<1>3. a \in Seq(T) /\ Len(a) = n + 1 /\ KeysOf(tasks) \in Seq(T) /\ Len(KeysOf(tasks)) = n
  BY <1>1, KeysTyped DEF n
<1>4. t.key \in T
  BY DEF TaskOf
<1>5. \A i \in 1 .. n : KeysOf(tasks)[i] = tasks[i].key
  BY <1>2 DEF KeysOf
<1>6. \A i \in 1 .. n + 1 : a[i] = more[i].key
  BY <1>2 DEF KeysOf
<1>7. b \in Seq(T) /\ Len(b) = n + 1 /\ b[n + 1] = t.key /\ \A i \in 1 .. n : b[i] = tasks[i].key
  <2> DEFINE k == KeysOf(tasks)
             x == t.key
  <2> HIDE DEF k, x
  <2>1. k \in Seq(T) /\ x \in T /\ Len(k) = n /\ \A i \in 1 .. n : k[i] = tasks[i].key
    BY <1>3, <1>4, <1>5 DEF k, x
  <2>2. Append(k, x) \in Seq(T) /\ Len(Append(k, x)) = n + 1 /\ Append(k, x)[n + 1] = x
        /\ \A i \in 1 .. n : Append(k, x)[i] = k[i]
    BY <2>1, AppendProperties
  <2> QED BY <2>1, <2>2 DEF k, x
<1> HIDE DEF a, b
<1>8. \A i \in 1 .. n + 1 : i \in 1 .. n \/ i = n + 1
  BY <1>1
<1>9. \A i \in 1 .. n + 1 : a[i] = b[i]
  BY <1>1, <1>6, <1>7, <1>8
<1>10. a = b
  BY <1>3, <1>7, <1>9, SeqEqual
<1> QED BY <1>10 DEF a, b, more

LEMMA KeysFirst ==
  ASSUME NEW T, NEW tasks \in Seq(TaskOf(T)), tasks # <<>>
  PROVE  /\ Head(tasks).key \in T /\ Tail(tasks) \in Seq(TaskOf(T))
         /\ KeysOf(tasks) = <<Head(tasks).key>> \o KeysOf(Tail(tasks))
<1> DEFINE n == Len(tasks)
           rest == Tail(tasks)
           a == KeysOf(tasks)
           x == Head(tasks).key
           k == KeysOf(rest)
           b == <<x>> \o k
<1>1. n \in Nat /\ n # 0 /\ DOMAIN tasks = 1 .. n /\ Head(tasks) = tasks[1]
  BY EmptySeq, LenProperties
<1>2. Head(tasks) \in TaskOf(T) /\ rest \in Seq(TaskOf(T)) /\ Len(rest) = n - 1
      /\ \A i \in 1 .. n - 1 : rest[i] = tasks[i + 1]
  BY HeadTailProperties
<1>3. DOMAIN rest = 1 .. n - 1
  BY <1>2, LenProperties
<1> HIDE DEF n, rest
<1>4. a \in Seq(T) /\ Len(a) = n /\ k \in Seq(T) /\ Len(k) = n - 1 /\ x \in T
  BY <1>2, KeysTyped DEF n, TaskOf
<1>5. (\A i \in 1 .. n : a[i] = tasks[i].key) /\ \A i \in 1 .. n - 1 : k[i] = rest[i].key
  BY <1>1, <1>3 DEF KeysOf
<1>6. x = tasks[1].key
  BY <1>1
<1> HIDE DEF a, k, x
<1>7. b \in Seq(T) /\ Len(b) = n /\ b[1] = x /\ \A i \in 2 .. n : b[i] = k[i - 1]
  <2> DEFINE one == <<x>>
  <2>1. one \in Seq(T) /\ Len(one) = 1 /\ one[1] = x
    BY <1>4
  <2> HIDE DEF one
  <2> DEFINE c == one \o k
  <2>2. /\ c \in Seq(T) /\ Len(c) = 1 + (n - 1)
        /\ \A i \in 1 .. 1 + (n - 1) : c[i] = IF i <= 1 THEN one[i] ELSE k[i - 1]
    <3>1. one \in Seq(T) /\ k \in Seq(T)
      BY <1>4, <2>1
    <3>2. /\ c \in Seq(T) /\ Len(c) = Len(one) + Len(k)
          /\ \A i \in 1 .. Len(one) + Len(k) : c[i] = IF i <= Len(one) THEN one[i] ELSE k[i - Len(one)]
      BY <3>1, ConcatProperties
    <3>3. Len(one) = 1 /\ Len(k) = n - 1
      BY <1>4, <2>1
    <3> HIDE DEF c
    <3> QED BY <3>2, <3>3
  <2> HIDE DEF c
  <2>3. 1 + (n - 1) = n /\ 1 \in 1 .. n /\ \A i \in 2 .. n : i \in 1 .. n /\ ~(i <= 1)
    BY <1>1
  <2>4. c \in Seq(T) /\ Len(c) = n /\ c[1] = x /\ \A i \in 2 .. n : c[i] = k[i - 1]
    BY <2>1, <2>2, <2>3
  <2> QED BY <2>4 DEF c, one
<1> HIDE DEF b
<1>8. \A i \in 1 .. n : a[i] = b[i]
  <2> SUFFICES ASSUME NEW i \in 1 .. n PROVE a[i] = b[i]
    OBVIOUS
  <2>1. CASE i = 1
    BY <1>1, <1>5, <1>6, <1>7, <2>1
  <2>2. CASE i # 1
    <3>1. i \in 2 .. n /\ i - 1 \in 1 .. n - 1 /\ (i - 1) + 1 = i
      BY <1>1, <2>2
    <3>2. b[i] = rest[i - 1].key
      BY <1>5, <1>7, <3>1
    <3>3. rest[i - 1] = tasks[i]
      BY <1>2, <3>1
    <3> QED BY <1>5, <3>2, <3>3
  <2> QED BY <2>1, <2>2
<1>9. a = b
  BY <1>4, <1>7, <1>8, SeqEqual
<1> QED BY <1>2, <1>4, <1>9 DEF a, b, k, rest, x

LEMMA AskedAppended ==
  ASSUME NEW T, NEW keys \in Seq(T), NEW tasks \in Seq(TaskOf(T)), NEW t \in TaskOf(T)
  PROVE  /\ keys \o KeysOf(tasks) \in Seq(T) /\ t.key \in T
         /\ keys \o KeysOf(Append(tasks, t)) = Append(keys \o KeysOf(tasks), t.key)
<1> DEFINE k == KeysOf(tasks)
           x == t.key
<1>1. k \in Seq(T) /\ x \in T
  BY KeysTyped DEF TaskOf
<1>2. KeysOf(Append(tasks, t)) = Append(k, x)
  BY KeysAppend
<1> HIDE DEF k, x
<1>3. keys \o k \in Seq(T) /\ <<x>> \in Seq(T)
  BY <1>1, ConcatProperties
<1>4. Append(k, x) = k \o <<x>>
  BY <1>1, AppendIsConcat
<1>5. Append(keys \o k, x) = (keys \o k) \o <<x>>
  <2> DEFINE y == keys \o k
  <2> HIDE DEF y
  <2>1. y \in Seq(T)
    BY <1>3 DEF y
  <2>2. Append(y, x) = y \o <<x>>
    BY <1>1, <2>1, AppendIsConcat
  <2> QED BY <2>2 DEF y
<1>6. (keys \o k) \o <<x>> = keys \o (k \o <<x>>)
  BY <1>1, <1>3, ConcatAssociative
<1>7. keys \o Append(k, x) = Append(keys \o k, x)
  BY <1>4, <1>5, <1>6
<1> QED BY <1>1, <1>2, <1>3, <1>7 DEF k, x

LEMMA AskedCollected ==
  ASSUME NEW T, NEW keys \in Seq(T), NEW tasks \in Seq(TaskOf(T)), tasks # <<>>
  PROVE  /\ Append(keys, Head(tasks).key) \in Seq(T) /\ Tail(tasks) \in Seq(TaskOf(T))
         /\ Append(keys, Head(tasks).key) \o KeysOf(Tail(tasks)) = keys \o KeysOf(tasks)
<1> DEFINE x == Head(tasks).key
           rest == Tail(tasks)
           k == KeysOf(rest)
<1>1. x \in T /\ rest \in Seq(TaskOf(T)) /\ KeysOf(tasks) = <<x>> \o k
  BY KeysFirst
<1> HIDE DEF rest
<1>2. k \in Seq(T)
  BY <1>1, KeysTyped
<1> HIDE DEF x, k
<1>3. Append(keys, x) = keys \o <<x>> /\ Append(keys, x) \in Seq(T) /\ <<x>> \in Seq(T)
  BY <1>1, AppendIsConcat, AppendProperties
<1>4. (keys \o <<x>>) \o k = keys \o (<<x>> \o k)
  BY <1>2, <1>3, ConcatAssociative
<1> QED BY <1>1, <1>3, <1>4 DEF x, rest, k

-----------------------------------------------------------------------------
\* What was read when the next byte is the one after n bytes of a passage.
Beginning(i, n) == [b \in 1 .. n |-> <<Passages[i].at, b>>]
ReadUpTo(i, n) == Bytes(FirstPassages(i - 1)) \o Beginning(i, n)
Place(i, n) ==
  /\ i \in 1 .. Len(Passages) + 1 /\ n \in Nat
  /\ IF i <= Len(Passages) THEN n < Passages[i].of.size ELSE n = 0

LEMMA BeginningGrows ==
  ASSUME NEW i \in 1 .. Len(Passages), NEW n \in Nat, NEW p \in Pieces,
         p.at = Passages[i].at, p.from = n
  PROVE  /\ Beginning(i, n) \in Seq(Nat \X Nat)
         /\ Beginning(i, n) \o PieceBytes[p] = Beginning(i, n + p.size)
<1> DEFINE a == Beginning(i, n)
           b == PieceBytes[p]
           c == Beginning(i, n + p.size)
           d == a \o b
           at == Passages[i].at
           m == p.size
           B == Nat \X Nat
<1>1. at \in Nat /\ m \in Nat
  <2>1. at \in Nat
    BY PassagesArePieces
  <2>2. m \in Nat
    BY DEF Pieces, Part
  <2> QED BY <2>1, <2>2
<1>2. a \in [1 .. n -> B] /\ c \in [1 .. n + m -> B]
  BY <1>1 DEF Beginning
<1>3. a \in Seq(B) /\ Len(a) = n /\ c \in Seq(B) /\ Len(c) = n + m
  <2>1. n + m \in Nat
    BY <1>1
  <2> HIDE DEF a, c, m, B
  <2>2. a \in Seq(B) /\ c \in Seq(B)
    BY <1>2, <2>1, SeqDef
  <2>3. DOMAIN a = 1 .. n /\ DOMAIN c = 1 .. n + m
    BY <1>2
  <2> QED BY <2>1, <2>2, <2>3, LenProperties
<1>4. b \in Seq(B) /\ Len(b) = m
  BY PiecesHaveBytes DEF Maps
<1>5. /\ \A j \in 1 .. n : a[j] = <<at, j>>
      /\ \A j \in 1 .. m : b[j] = <<at, n + j>>
      /\ \A j \in 1 .. n + m : c[j] = <<at, j>>
  BY DEF Beginning, PieceBytes
<1> HIDE DEF a, b, c, m, B, at
<1>6. /\ d \in Seq(B) /\ Len(d) = n + m
      /\ \A j \in 1 .. n + m : d[j] = IF j <= n THEN a[j] ELSE b[j - n]
  <2>1. /\ d \in Seq(B) /\ Len(d) = Len(a) + Len(b)
        /\ \A j \in 1 .. Len(a) + Len(b) : d[j] = IF j <= Len(a) THEN a[j] ELSE b[j - Len(a)]
    BY <1>3, <1>4, ConcatProperties
  <2> HIDE DEF d
  <2> QED BY <1>3, <1>4, <2>1
<1> HIDE DEF d
<1>7. ASSUME NEW j \in 1 .. n + m PROVE d[j] = c[j]
  <2>1. CASE j <= n
    <3>1. j \in 1 .. n
      BY <1>1, <2>1
    <3>2. d[j] = a[j]
      BY <1>6, <2>1
    <3>3. a[j] = <<at, j>>
      BY <1>5, <3>1
    <3> QED BY <1>5, <3>2, <3>3
  <2>2. CASE ~(j <= n)
    <3>1. j - n \in 1 .. m /\ n + (j - n) = j
      BY <1>1, <2>2
    <3>2. b[j - n] = <<at, n + (j - n)>>
      BY <1>5, <3>1
    <3>3. d[j] = b[j - n]
      BY <1>6, <2>2
    <3> QED BY <1>5, <3>1, <3>2, <3>3
  <2> QED BY <2>1, <2>2
<1>8. d = c
  BY <1>3, <1>6, <1>7, SeqEqual
<1> QED BY <1>3, <1>8 DEF a, b, c, d, m, B

LEMMA WholePassage ==
  ASSUME NEW i \in 1 .. Len(Passages)
  PROVE  Beginning(i, Passages[i].of.size) = PieceBytes[Passage(i)]
<1>1. Passage(i) \in Pieces
  BY PassagesArePieces
<1>2. Passages[i].at \in Nat
  BY PassagesArePieces
<1>3. PieceBytes[Passage(i)]
      = [b \in 1 .. Passages[i].of.size |-> <<Passages[i].at, 0 + b>>]
  BY <1>1 DEF PieceBytes, Passage
<1>4. \A b \in 1 .. Passages[i].of.size : 0 + b = b
  OBVIOUS
<1> QED BY <1>3, <1>4 DEF Beginning

\* A segment takes reading on to the next place.
LEMMA SegmentReads ==
  ASSUME NEW i \in 1 .. Len(Passages), NEW n, Place(i, n), NEW most \in Nat \ {0}
  PROVE  LET part == Segment(i, n, most)
             j == IF part.last THEN i + 1 ELSE i
             k == IF part.last THEN 0 ELSE n + part.size
         IN  /\ part \in Part /\ Place(j, k)
             /\ ReadUpTo(i, n) \o PieceBytes[part] = ReadUpTo(j, k)
<1> DEFINE part == Segment(i, n, most)
           size == Passages[i].of.size
           N == Len(Passages)
           first == Bytes(FirstPassages(i - 1))
           B == Nat \X Nat
<1>1. N \in Nat /\ size \in Nat \ {0} /\ Passages[i].at \in Nat /\ n \in Nat /\ n < size
  BY PassagesArePieces DEF Place
<1>2. /\ part.at = Passages[i].at /\ part.from = n
      /\ part.size = (IF size - n > most THEN most ELSE size - n)
      /\ part.last <=> size - n <= most
  BY DEF Segment
<1>3. part \in Part
  <2>1. (IF size - n > most THEN most ELSE size - n) \in Nat \ {0}
    BY <1>1
  <2>2. (size - n <= most) \in BOOLEAN
    OBVIOUS
  <2> HIDE DEF size
  <2>3. part = [at |-> Passages[i].at, from |-> n,
                size |-> IF size - n > most THEN most ELSE size - n, last |-> size - n <= most]
    BY DEF Segment, size
  <2> HIDE DEF part
  <2> QED BY <1>1, <2>1, <2>2, <2>3 DEF Part
<1>4. part \in Pieces
  BY <1>3 DEF Pieces
<1>5. /\ i - 1 \in 0 .. N /\ i - 1 \in 0 .. N - 1 /\ (i - 1) + 1 = i /\ (i + 1) - 1 = i
      /\ i \in 0 .. N
  BY <1>1
<1>6. FirstPassages(i - 1) \in Seq(Pieces) /\ Passage(i) \in Pieces
  BY <1>5, PassagesArePieces
<1>7. first \in Seq(B)
  <2>1. Bytes(FirstPassages(i - 1)) = Flat(PieceBytes, FirstPassages(i - 1))
    BY <1>6, BytesAreFlat
  <2>2. Maps(PieceBytes, Pieces, B)
    BY PiecesHaveBytes
  <2>3. Flat(PieceBytes, FirstPassages(i - 1)) \in Seq(B)
    BY <1>6, <2>2, FlatIsSeq
  <2> QED BY <2>1, <2>3
<1>8. /\ Beginning(i, n) \in Seq(B)
      /\ Beginning(i, n) \o PieceBytes[part] = Beginning(i, n + part.size)
  <2> HIDE DEF part
  <2> QED BY <1>1, <1>2, <1>4, BeginningGrows
<1>9. PieceBytes[part] \in Seq(B)
  BY <1>4, PiecesHaveBytes DEF Maps
<1>10. ReadUpTo(i, n) \o PieceBytes[part] = first \o Beginning(i, n + part.size)
  <2> DEFINE a == Beginning(i, n)
             b == PieceBytes[part]
  <2> HIDE DEF part, first, a, b, B
  <2>1. (first \o a) \o b = first \o (a \o b)
    <3>1. a \in Seq(B) /\ b \in Seq(B)
      BY <1>8, <1>9 DEF a, b
    <3> QED BY <1>7, <3>1, ConcatAssociative
  <2>2. a \o b = Beginning(i, n + part.size)
    BY <1>8 DEF a, b
  <2>3. ReadUpTo(i, n) = first \o a
    BY DEF ReadUpTo, first, a
  <2> QED BY <2>1, <2>2, <2>3 DEF b
<1>11. CASE part.last
  <2>1. n + part.size = size
    <3>1. size - n <= most
      BY <1>2, <1>11
    <3>2. ~(size - n > most)
      BY <1>1, <3>1
    <3>3. part.size = size - n
      BY <1>2, <3>2
    <3> HIDE DEF part, size
    <3> QED BY <1>1, <3>3
  <2>2. Place(i + 1, 0)
    BY <1>1, PassagesArePieces DEF Place
  <2>3. Beginning(i, size) = PieceBytes[Passage(i)]
    BY WholePassage
  <2>4. Bytes(FirstPassages(i)) = first \o PieceBytes[Passage(i)]
    <3>1. FirstPassages((i - 1) + 1) = Append(FirstPassages(i - 1), Passage((i - 1) + 1))
      BY <1>5, OnePassageMore
    <3>2. Bytes(Append(FirstPassages(i - 1), Passage(i)))
          = Bytes(FirstPassages(i - 1)) \o PieceBytes[Passage(i)]
      BY <1>6, BytesAppend
    <3>3. FirstPassages(i) = Append(FirstPassages(i - 1), Passage(i))
      BY <1>5, <3>1
    <3> QED BY <3>2, <3>3
  <2>5. ReadUpTo(i + 1, 0) = Bytes(FirstPassages(i))
    <3>1. Beginning(i + 1, 0) = <<>>
      BY DEF Beginning
    <3>2. Bytes(FirstPassages(i)) \in Seq(B)
      <4>1. FirstPassages(i) \in Seq(Pieces)
        BY <1>5, PassagesArePieces
      <4>2. Bytes(FirstPassages(i)) = Flat(PieceBytes, FirstPassages(i))
        BY <4>1, BytesAreFlat
      <4>3. Maps(PieceBytes, Pieces, B)
        BY PiecesHaveBytes
      <4>4. Flat(PieceBytes, FirstPassages(i)) \in Seq(B)
        BY <4>1, <4>3, FlatIsSeq
      <4> QED BY <4>2, <4>4
    <3> DEFINE f == Bytes(FirstPassages(i))
    <3>3. ReadUpTo(i + 1, 0) = f \o <<>>
      BY <1>5, <3>1 DEF ReadUpTo
    <3> HIDE DEF f
    <3>4. f \in Seq(B)
      BY <3>2 DEF f
    <3>5. f \o <<>> = f
      BY <3>4, EmptyConcat
    <3> QED BY <3>3, <3>5 DEF f
  <2> HIDE DEF part, size
  <2>6. ReadUpTo(i, n) \o PieceBytes[part] = ReadUpTo(i + 1, 0)
    BY <1>10, <2>1, <2>3, <2>4, <2>5
  <2> QED BY <1>3, <1>11, <2>2, <2>6 DEF part
<1>12. CASE ~part.last
  <2>1. part.size = most /\ size - n > most
    <3>1. ~(size - n <= most)
      BY <1>2, <1>12
    <3>2. size - n > most
      BY <1>1, <3>1
    <3> QED BY <1>2, <3>2
  <2>2. Place(i, n + part.size)
    BY <1>1, <2>1 DEF Place
  <2> HIDE DEF part
  <2>3. ReadUpTo(i, n + part.size) = first \o Beginning(i, n + part.size)
    BY DEF ReadUpTo
  <2> QED BY <1>3, <1>10, <1>12, <2>2, <2>3 DEF part
<1> QED BY <1>11, <1>12

-----------------------------------------------------------------------------
\* The reading loop: what was packed so far is what was read so far; from then
\* on, the nodes asked for and those still queued reach exactly the leaves, with
\* no more levels and nodes than there are leaves.
ReadOf(T) ==
  [mode : {"packing", "level", "reducing"}, at : Nat, from : Nat, page : Nat,
   group : Seq(Part), queued : Seq(Filled(T)), inflight : Seq(TaskOf(T)), keys : Seq(T)]

Packing(r) ==
  /\ r \in ReadOf(LeafNodes) /\ r.mode = "packing" /\ r.queued = <<>>
  /\ Place(r.at, r.from)
  /\ Bytes(PartsIn(Asked(r)) \o r.group) = ReadUpTo(r.at, r.from)

Leveled(T, r, below) ==
  /\ r \in ReadOf(T) /\ r.mode = "level" /\ r.queued = <<>> /\ r.inflight = <<>>
  /\ Whole(below)
  /\ \E h \in Nat : Reaches(r.keys, h, below) /\ h + Len(r.keys) <= Len(below)

Reducing(T, r, below) ==
  /\ r \in ReadOf(T) /\ r.mode = "reducing" /\ Whole(below)
  /\ \E h \in Nat :
       /\ h + 1 + Len(Asked(r)) + Len(r.queued) <= Len(below)
       /\ Unfolded(Asked(r))[h + 1] \o Unfolded(FlattenSeq(r.queued))[h] = below

ReadingOn(r, below) ==
  Packing(r) \/ \E T : Closed(T) /\ (Leveled(T, r, below) \/ Reducing(T, r, below))

LEMMA FreshIsPacking == Packing(Fresh)
<1>1. Fresh \in ReadOf(LeafNodes)
  BY DEF Fresh, ReadOf
<1>2. Fresh.mode = "packing" /\ Fresh.queued = <<>> /\ Fresh.at = 1 /\ Fresh.from = 0
      /\ Fresh.keys = <<>> /\ Fresh.inflight = <<>> /\ Fresh.group = <<>>
  BY DEF Fresh
<1>3. Asked(Fresh) = <<>>
  <2>1. KeysOf(<<>>) = <<>>
    BY DEF KeysOf
  <2> QED BY <1>2, <2>1 DEF Asked
<1>4. Place(1, 0)
  BY PassagesArePieces DEF Place
<1>5. PartsIn(<<>>) = <<>>
  <2>1. [i \in DOMAIN <<>> |-> <<>>[i].parts] = <<>>
    OBVIOUS
  <2> QED BY <2>1 DEF PartsIn, FlattenSeq
<1>6. Bytes(<<>>) = <<>>
  <2>1. Bytes(<<>>) = Flat(PieceBytes, <<>>)
    <3>1. <<>> \in Seq(Pieces)
      BY EmptySeq
    <3> QED BY <3>1, BytesAreFlat
  <2> QED BY <2>1, FlatEmpty
<1>7. ReadUpTo(1, 0) = <<>>
  <2>1. FirstPassages(1 - 1) = <<>>
    BY DEF FirstPassages
  <2>2. Beginning(1, 0) = <<>>
    BY DEF Beginning
  <2> QED BY <1>6, <2>1, <2>2 DEF ReadUpTo
<1>8. Bytes(PartsIn(Asked(Fresh)) \o Fresh.group) = ReadUpTo(Fresh.at, Fresh.from)
  BY <1>2, <1>3, <1>5, <1>6, <1>7
<1> QED BY <1>1, <1>2, <1>4, <1>8 DEF Packing

\* A group of parts becomes a leaf, and the request for it.
LEMMA NodeIsLeaf ==
  ASSUME limit \in Nat, NEW group \in Seq(Part), group # <<>>
  PROVE  /\ Node(group, <<>>) \in LeafNodes /\ Node(group, <<>>).parts = group
         /\ Task(Node(group, <<>>)) \in TaskOf(LeafNodes)
         /\ Task(Node(group, <<>>)).key = Node(group, <<>>)
<1>1. Node(group, <<>>) \in LeafNodes /\ Node(group, <<>>).parts = group
  BY DEF Node, LeafNodes
<1> DEFINE x == Node(group, <<>>)
<1> HIDE DEF x
<1>2. x \in LeafNodes
  BY <1>1 DEF x
<1>3. (\E kept \in nodes : kept.key = x) \in BOOLEAN
  OBVIOUS
<1>4. Task(x) \in TaskOf(LeafNodes) /\ Task(x).key = x
  BY <1>2, <1>3 DEF Task, TaskOf
<1> QED BY <1>1, <1>4 DEF x

\* Closing a group keeps its parts in their place.
LEMMA GroupClosed ==
  ASSUME limit \in Nat, NEW r \in ReadOf(LeafNodes), r.group # <<>>
  PROVE  LET tasks == Append(r.inflight, Task(Node(r.group, <<>>)))
         IN  /\ tasks \in Seq(TaskOf(LeafNodes)) /\ r.keys \o KeysOf(tasks) \in Seq(LeafNodes)
             /\ PartsIn(r.keys \o KeysOf(tasks)) = PartsIn(Asked(r)) \o r.group
<1> DEFINE t == Task(Node(r.group, <<>>))
           x == Node(r.group, <<>>)
<1>1. r.group \in Seq(Part) /\ r.keys \in Seq(LeafNodes) /\ r.inflight \in Seq(TaskOf(LeafNodes))
  BY DEF ReadOf
<1>2. x \in LeafNodes /\ x.parts = r.group /\ t \in TaskOf(LeafNodes) /\ t.key = x
  BY <1>1, NodeIsLeaf
<1> HIDE DEF t, x
<1>3. Append(r.inflight, t) \in Seq(TaskOf(LeafNodes))
  BY <1>1, <1>2, AppendProperties
<1>4. Asked(r) \in Seq(LeafNodes) /\ r.keys \o KeysOf(Append(r.inflight, t)) = Append(Asked(r), x)
  <2> DEFINE tasks == r.inflight
             keys == r.keys
  <2>1. keys \in Seq(LeafNodes) /\ tasks \in Seq(TaskOf(LeafNodes)) /\ t \in TaskOf(LeafNodes)
    BY <1>1, <1>2
  <2> HIDE DEF tasks, keys
  <2>2. /\ keys \o KeysOf(tasks) \in Seq(LeafNodes)
        /\ keys \o KeysOf(Append(tasks, t)) = Append(keys \o KeysOf(tasks), t.key)
    BY <2>1, AskedAppended
  <2> QED BY <1>2, <2>2 DEF tasks, keys, Asked
<1> DEFINE a == Asked(r)
<1> HIDE DEF a
<1>5. a \in Seq(LeafNodes)
  BY <1>4 DEF a
<1>6. Append(a, x) \in Seq(LeafNodes) /\ PartsIn(Append(a, x)) = PartsIn(a) \o r.group
  <2>1. Append(a, x) \in Seq(LeafNodes)
    BY <1>2, <1>5, AppendProperties
  <2>2. PartsIn(Append(a, x)) = PartsIn(a) \o x.parts
    BY <1>2, <1>5, PartsAppend
  <2> QED BY <1>2, <2>1, <2>2
<1> QED BY <1>3, <1>4, <1>6 DEF a, t, x

\* TakePart: the next part joins the group, or closes it and starts another.
LEMMA PartTaken ==
  ASSUME limit \in Nat, Packing(read), TakePart PROVE Packing(read')
<1> DEFINE most == PageLimit
           part == Segment(read.at, read.from, most)
           full == /\ read.group # <<>>
                   /\ \/ SizeOf(read.group) + part.size > PageLimit
                      \/ Len(read.group) >= MaxPassages
           j == IF part.last THEN read.at + 1 ELSE read.at
           k == IF part.last THEN 0 ELSE read.from + part.size
           closing == Append(read.inflight, Task(Node(read.group, <<>>)))
           group == IF full THEN <<part>> ELSE Append(read.group, part)
           tasks == IF full THEN closing ELSE read.inflight
           before == PartsIn(Asked(read)) \o read.group
<1>1. /\ read \in ReadOf(LeafNodes) /\ read.mode = "packing" /\ read.queued = <<>>
      /\ Place(read.at, read.from) /\ Bytes(before) = ReadUpTo(read.at, read.from)
  BY DEF Packing
<1>2. /\ read.at \in Nat /\ read.page \in Nat /\ read.group \in Seq(Part)
      /\ read.keys \in Seq(LeafNodes) /\ read.inflight \in Seq(TaskOf(LeafNodes))
  BY <1>1 DEF ReadOf
<1>3. read.at <= Len(Passages) /\ PageLimit >= LeastLimit
  BY DEF TakePart
<1>4. most \in Nat \ {0}
  BY <1>2, <1>3, ReadingAssumption DEF PageLimit
<1>5. read.at \in 1 .. Len(Passages)
  BY <1>1, <1>3, PassagesArePieces DEF Place
<1>6. read' = [read EXCEPT !.page = most, !.at = j, !.from = k, !.group = group, !.inflight = tasks]
  BY DEF TakePart
<1> HIDE DEF most
<1>7. part \in Part /\ Place(j, k) /\ ReadUpTo(read.at, read.from) \o PieceBytes[part] = ReadUpTo(j, k)
  BY <1>1, <1>4, <1>5, SegmentReads
<1> HIDE DEF part, full, j, k, closing
<1>8. Asked(read) \in Seq(LeafNodes)
  <2>1. KeysOf(read.inflight) \in Seq(LeafNodes)
    BY <1>2, KeysTyped
  <2> QED BY <1>2, <2>1, ConcatProperties DEF Asked
<1>9. PartsIn(Asked(read)) \in Seq(Part)
  BY <1>8, PartsAreFlat
<1>10. before \in Seq(Part)
  BY <1>2, <1>9, ConcatProperties
<1>11. /\ tasks \in Seq(TaskOf(LeafNodes)) /\ group \in Seq(Part)
       /\ PartsIn(read.keys \o KeysOf(tasks)) \o group = Append(before, part)
  <2>1. CASE full
    <3>1. read.group # <<>>
      BY <2>1 DEF full
    <3>2. /\ closing \in Seq(TaskOf(LeafNodes))
          /\ PartsIn(read.keys \o KeysOf(closing)) = before
      BY <1>1, <3>1, GroupClosed DEF closing
    <3>3. before \o <<part>> = Append(before, part)
      <4> HIDE DEF before
      <4> QED BY <1>7, <1>10, AppendIsConcat
    <3>4. <<part>> \in Seq(Part)
      BY <1>7
    <3> HIDE DEF before
    <3> QED BY <2>1, <3>2, <3>3, <3>4
  <2>2. CASE ~full
    <3> DEFINE a == PartsIn(Asked(read))
               g == read.group
    <3>1. a \in Seq(Part) /\ g \in Seq(Part)
      BY <1>2, <1>9
    <3> HIDE DEF a, g
    <3>2. a \o Append(g, part) = Append(a \o g, part)
      <4>1. Append(g, part) = g \o <<part>> /\ <<part>> \in Seq(Part)
        BY <1>7, <3>1, AppendIsConcat
      <4>2. a \o (g \o <<part>>) = (a \o g) \o <<part>>
        BY <3>1, <4>1, ConcatAssociative
      <4> DEFINE b == a \o g
      <4>3. b \in Seq(Part)
        BY <3>1, ConcatProperties
      <4> HIDE DEF b
      <4>4. Append(b, part) = b \o <<part>>
        BY <1>7, <4>3, AppendIsConcat
      <4> QED BY <4>1, <4>2, <4>4 DEF b
    <3>3. Append(g, part) \in Seq(Part)
      BY <1>7, <3>1, AppendProperties
    <3> QED BY <1>2, <2>2, <3>2, <3>3 DEF a, g, Asked
  <2> QED BY <2>1, <2>2
<1>12. Bytes(Append(before, part)) = ReadUpTo(j, k)
  <2>1. part \in Pieces
    BY <1>7 DEF Pieces
  <2> HIDE DEF before
  <2>2. before \in Seq(Pieces)
    BY <1>10, PartsArePieces
  <2>3. Bytes(Append(before, part)) = Bytes(before) \o PieceBytes[part]
    BY <2>1, <2>2, BytesAppend
  <2> QED BY <1>1, <1>7, <2>3
<1> HIDE DEF group, tasks, before
<1>13. /\ read'.mode = "packing" /\ read'.queued = <<>> /\ read'.at = j /\ read'.from = k
       /\ read'.group = group /\ read'.inflight = tasks /\ read'.keys = read.keys
       /\ read' \in ReadOf(LeafNodes)
  <2>1. j \in Nat /\ k \in Nat
    BY <1>7, PassagesArePieces DEF Place
  <2>2. most \in Nat
    BY <1>4
  <2> QED BY <1>1, <1>6, <1>11, <2>1, <2>2 DEF ReadOf
<1>14. Bytes(PartsIn(Asked(read')) \o read'.group) = ReadUpTo(read'.at, read'.from)
  BY <1>11, <1>12, <1>13 DEF Asked
<1> QED BY <1>7, <1>13, <1>14 DEF Packing

LEMMA LastGroupTaken ==
  ASSUME limit \in Nat, Packing(read), CloseLastGroup PROVE Packing(read')
<1> DEFINE closing == Append(read.inflight, Task(Node(read.group, <<>>)))
           before == PartsIn(Asked(read)) \o read.group
<1>1. /\ read \in ReadOf(LeafNodes) /\ read.mode = "packing" /\ read.queued = <<>>
      /\ Place(read.at, read.from) /\ Bytes(before) = ReadUpTo(read.at, read.from)
  BY DEF Packing
<1>2. read.group # <<>> /\ read' = [read EXCEPT !.group = <<>>, !.inflight = closing]
  BY DEF CloseLastGroup
<1>3. /\ closing \in Seq(TaskOf(LeafNodes)) /\ read.keys \o KeysOf(closing) \in Seq(LeafNodes)
      /\ PartsIn(read.keys \o KeysOf(closing)) = before
  BY <1>1, <1>2, GroupClosed
<1> HIDE DEF closing
<1>4. /\ read'.mode = "packing" /\ read'.queued = <<>> /\ read'.at = read.at /\ read'.from = read.from
      /\ read'.group = <<>> /\ read'.inflight = closing /\ read'.keys = read.keys
      /\ read' \in ReadOf(LeafNodes)
  <2>1. <<>> \in Seq(Part)
    BY EmptySeq
  <2>2. closing \in Seq(TaskOf(LeafNodes))
    BY <1>3
  <2> QED BY <1>1, <1>2, <2>1, <2>2 DEF ReadOf
<1>5. before \o <<>> = before
  <2>1. before \in Seq(Part)
    BY <1>3, PartsAreFlat
  <2> HIDE DEF before
  <2> QED BY <2>1, EmptyConcat
<1> HIDE DEF before
<1>6. Bytes(PartsIn(Asked(read')) \o read'.group) = ReadUpTo(read'.at, read'.from)
  BY <1>1, <1>3, <1>4, <1>5 DEF Asked
<1> QED BY <1>1, <1>4, <1>6 DEF Packing

\* The loop as it was, but for what happened to requests already made.
SameAsked(r, s) ==
  /\ s.mode = r.mode /\ s.at = r.at /\ s.from = r.from /\ s.group = r.group /\ s.queued = r.queued
  /\ \A T : r \in ReadOf(T) => s \in ReadOf(T) /\ Asked(s) = Asked(r)

LEMMA AskedStays ==
  ASSUME NEW r, NEW s, NEW below, SameAsked(r, s), r.inflight # <<>>, ReadingOn(r, below)
  PROVE  ReadingOn(s, below)
<1>1. CASE Packing(r)
  <2>1. Packing(s)
    BY <1>1 DEF Packing, SameAsked
  <2> QED BY <2>1 DEF ReadingOn
<1>2. ASSUME NEW T, Closed(T), Leveled(T, r, below) \/ Reducing(T, r, below)
      PROVE  Reducing(T, s, below)
  <2>1. Reducing(T, r, below)
    BY <1>2 DEF Leveled
  <2>2. /\ s \in ReadOf(T) /\ Asked(s) = Asked(r) /\ s.queued = r.queued /\ s.mode = r.mode
    BY <2>1 DEF Reducing, SameAsked
  <2> QED BY <2>1, <2>2 DEF Reducing
<1> QED BY <1>1, <1>2 DEF ReadingOn

\* Answer, AnswerUseless: what is known of a request changes, not what it asks.
LEMMA TaskChanged ==
  ASSUME NEW r, NEW i \in DOMAIN r.inflight, NEW t, t.key = r.inflight[i].key,
         \A T : r.inflight[i] \in TaskOf(T) => t \in TaskOf(T),
         NEW s, s = [r EXCEPT !.inflight = [r.inflight EXCEPT ![i] = t]],
         NEW U, r \in ReadOf(U)
  PROVE  SameAsked(r, s)
<1>1. /\ s.mode = r.mode /\ s.at = r.at /\ s.from = r.from /\ s.group = r.group
      /\ s.queued = r.queued /\ s.keys = r.keys /\ s.inflight = [r.inflight EXCEPT ![i] = t]
  BY DEF ReadOf
<1>2. ASSUME NEW T, r \in ReadOf(T)
      PROVE  s \in ReadOf(T) /\ Asked(s) = Asked(r)
  <2> DEFINE tasks == r.inflight
             changed == [tasks EXCEPT ![i] = t]
  <2>1. tasks \in Seq(TaskOf(T))
    BY <1>2 DEF ReadOf
  <2>2. i \in 1 .. Len(tasks) /\ tasks[i] \in TaskOf(T)
    BY <2>1, LenProperties, ElementOfSeq
  <2>3. t \in TaskOf(T)
    BY <2>2
  <2> HIDE DEF tasks
  <2>4. changed \in Seq(TaskOf(T))
    BY <2>1, <2>2, <2>3, ExceptSeq
  <2>5. DOMAIN changed = DOMAIN tasks /\ \A j \in DOMAIN tasks : changed[j].key = tasks[j].key
    BY DEF tasks
  <2> HIDE DEF changed
  <2>6. KeysOf(changed) = KeysOf(tasks)
    BY <2>5 DEF KeysOf
  <2>7. s \in ReadOf(T)
    BY <1>2, <2>4 DEF ReadOf, changed, tasks
  <2> QED BY <1>1, <2>6, <2>7 DEF Asked, changed, tasks
<1> QED BY <1>1, <1>2 DEF SameAsked

LEMMA AnswersKeep ==
  ASSUME NEW below, ReadingOn(read, below), NEW i \in DOMAIN read.inflight,
         Answer(i) \/ AnswerUseless(i)
  PROVE  ReadingOn(read', below)
<1>1. PICK U : read \in ReadOf(U)
  BY DEF ReadingOn, Packing, Leveled, Reducing
<1>2. read.inflight # <<>>
  BY DEF Answer, AnswerUseless, Polled
<1>3. ASSUME NEW T, read.inflight[i] \in TaskOf(T)
      PROVE  /\ [read.inflight[i] EXCEPT !.done = TRUE] \in TaskOf(T)
             /\ [read.inflight[i] EXCEPT !.try = @ + 1] \in TaskOf(T)
  <2> DEFINE x == read.inflight[i]
  <2>1. x \in TaskOf(T)
    BY <1>3
  <2> HIDE DEF x
  <2>2. [x EXCEPT !.done = TRUE] \in TaskOf(T) /\ [x EXCEPT !.try = @ + 1] \in TaskOf(T)
    <3>1. x.key \in T /\ x.try + 1 \in Nat /\ x.try \in Nat /\ x.done \in BOOLEAN
      BY <2>1 DEF TaskOf
    <3>2. [x EXCEPT !.done = TRUE] \in TaskOf(T)
      <4> DEFINE b == TRUE
      <4>1. b \in BOOLEAN
        OBVIOUS
      <4> HIDE DEF b
      <4>2. [x EXCEPT !.done = b] \in TaskOf(T)
        BY <2>1, <4>1 DEF TaskOf
      <4> QED BY <4>2 DEF b
    <3>3. [x EXCEPT !.try = @ + 1] = [key |-> x.key, try |-> x.try + 1, done |-> x.done]
      BY <2>1 DEF TaskOf
    <3> QED BY <3>1, <3>2, <3>3 DEF TaskOf
  <2> QED BY <2>2 DEF x
<1>4. read.inflight[i] \in TaskOf(U)
  <2>1. read.inflight \in Seq(TaskOf(U))
    BY <1>1 DEF ReadOf
  <2> QED BY <2>1, LenProperties, ElementOfSeq
<1>5. /\ [read.inflight[i] EXCEPT !.done = TRUE].key = read.inflight[i].key
      /\ [read.inflight[i] EXCEPT !.try = @ + 1].key = read.inflight[i].key
  BY <1>4 DEF TaskOf
<1>6. PICK t : /\ t.key = read.inflight[i].key
               /\ \A T : read.inflight[i] \in TaskOf(T) => t \in TaskOf(T)
               /\ read' = [read EXCEPT !.inflight = [read.inflight EXCEPT ![i] = t]]
  <2>1. CASE Answer(i)
    <3>1. read' = [read EXCEPT !.inflight = [read.inflight EXCEPT ![i] =
                                               [read.inflight[i] EXCEPT !.done = TRUE]]]
      BY <2>1 DEF Answer
    <3> QED BY <1>3, <1>5, <3>1
  <2>2. CASE AnswerUseless(i)
    <3>1. read' = [read EXCEPT !.inflight = [read.inflight EXCEPT ![i] =
                                               [read.inflight[i] EXCEPT !.try = @ + 1]]]
      BY <2>2 DEF AnswerUseless
    <3> QED BY <1>3, <1>5, <3>1
  <2> QED BY <2>1, <2>2
<1>7. SameAsked(read, read')
  BY <1>1, <1>6, TaskChanged
<1> QED BY <1>2, <1>7, AskedStays

LEMMA CollectKeeps ==
  ASSUME NEW below, ReadingOn(read, below), Collect PROVE ReadingOn(read', below)
<1>1. PICK U : read \in ReadOf(U)
  BY DEF ReadingOn, Packing, Leveled, Reducing
<1>2. /\ read.inflight # <<>>
      /\ read' = [read EXCEPT !.inflight = Tail(read.inflight),
                              !.keys = Append(read.keys, Head(read.inflight).key)]
  BY DEF Collect, Polled
<1>3. /\ read'.mode = read.mode /\ read'.at = read.at /\ read'.from = read.from
      /\ read'.group = read.group /\ read'.queued = read.queued
      /\ read'.inflight = Tail(read.inflight)
      /\ read'.keys = Append(read.keys, Head(read.inflight).key)
  BY <1>1, <1>2 DEF ReadOf
<1>4. ASSUME NEW T, read \in ReadOf(T) PROVE read' \in ReadOf(T) /\ Asked(read') = Asked(read)
  <2>1. read.keys \in Seq(T) /\ read.inflight \in Seq(TaskOf(T))
    BY <1>4 DEF ReadOf
  <2>2. /\ Append(read.keys, Head(read.inflight).key) \in Seq(T)
        /\ Tail(read.inflight) \in Seq(TaskOf(T))
        /\ Append(read.keys, Head(read.inflight).key) \o KeysOf(Tail(read.inflight))
           = read.keys \o KeysOf(read.inflight)
    BY <1>2, <2>1, AskedCollected
  <2>3. read' \in ReadOf(T)
    BY <1>2, <1>4, <2>2 DEF ReadOf
  <2> QED BY <1>3, <2>2, <2>3 DEF Asked
<1>5. SameAsked(read, read')
  BY <1>3, <1>4 DEF SameAsked
<1> QED BY <1>2, <1>5, AskedStays

\* LeavesRead: everything was read.
LEMMA LeavesAreWhole ==
  ASSUME Packing(read), LeavesRead PROVE Leveled(LeafNodes, read', leaves')
<1>1. /\ read \in ReadOf(LeafNodes) /\ read.queued = <<>> /\ Place(read.at, read.from)
      /\ Bytes(PartsIn(Asked(read)) \o read.group) = ReadUpTo(read.at, read.from)
  BY DEF Packing
<1>2. /\ read.at > Len(Passages) /\ read.group = <<>> /\ read.inflight = <<>>
      /\ leaves' = read.keys /\ read' = [read EXCEPT !.mode = "level"]
  BY DEF LeavesRead, Idle
<1>3. read.keys \in Seq(LeafNodes)
  BY <1>1 DEF ReadOf
<1>4. /\ read' \in ReadOf(LeafNodes) /\ read'.mode = "level" /\ read'.queued = <<>>
      /\ read'.inflight = <<>> /\ read'.keys = read.keys
  BY <1>1, <1>2 DEF ReadOf
<1> DEFINE keys == read.keys
           N == Len(Passages)
<1>5. read.at = N + 1 /\ read.from = 0 /\ N \in Nat /\ N \in 0 .. N
  BY <1>1, <1>2, PassagesArePieces DEF Place
<1>6. ReadUpTo(N + 1, 0) = WholeSource
  <2>1. Beginning(N + 1, 0) = <<>> /\ (N + 1) - 1 = N
    BY <1>5 DEF Beginning
  <2> DEFINE f == Bytes(FirstPassages(N))
  <2>2. f \in Seq(Nat \X Nat)
    <3>1. FirstPassages(N) \in Seq(Pieces)
      BY <1>5, PassagesArePieces
    <3>2. f = Flat(PieceBytes, FirstPassages(N))
      BY <3>1, BytesAreFlat
    <3>3. Maps(PieceBytes, Pieces, Nat \X Nat)
      BY PiecesHaveBytes
    <3>4. Flat(PieceBytes, FirstPassages(N)) \in Seq(Nat \X Nat)
      BY <3>1, <3>3, FlatIsSeq
    <3> QED BY <3>2, <3>4
  <2>3. ReadUpTo(N + 1, 0) = f \o <<>>
    BY <2>1 DEF ReadUpTo
  <2>4. f = WholeSource
    BY WholeIsAll
  <2> HIDE DEF f
  <2>5. f \o <<>> = f
    BY <2>2, EmptyConcat
  <2> QED BY <2>3, <2>4, <2>5
<1>7. Asked(read) = keys
  <2>1. KeysOf(<<>>) = <<>>
    BY DEF KeysOf
  <2>2. keys \o <<>> = keys
    BY <1>3, EmptyConcat
  <2> QED BY <1>2, <2>1, <2>2 DEF Asked
<1>8. PartsIn(keys) \o <<>> = PartsIn(keys)
  <2>1. PartsIn(keys) \in Seq(Part)
    BY <1>3, PartsAreFlat
  <2> QED BY <2>1, EmptyConcat
<1>9. Bytes(PartsIn(keys)) = WholeSource
  <2> HIDE DEF keys, N
  <2> QED BY <1>1, <1>2, <1>5, <1>6, <1>7, <1>8
<1>10. Whole(keys)
  BY <1>3, <1>9 DEF Whole
<1>11. Reaches(keys, 0, keys) /\ 0 + Len(keys) <= Len(keys) /\ 0 \in Nat
  <2>1. 0 \in 0 .. Depth /\ Len(keys) \in Nat
    BY <1>3, DepthIsNat, LenProperties
  <2>2. Unfolded(keys)[0] = keys
    BY <1>3, <2>1, LeavesUnfolded
  <2> QED BY <2>1, <2>2 DEF Reaches
<1>12. leaves' = keys /\ read'.keys = keys
  BY <1>2, <1>4
<1> HIDE DEF keys
<1> QED BY <1>4, <1>10, <1>11, <1>12 DEF Leveled

\* PlanLevel: the level is cut into groups, fewer than it has nodes.
LEMMA LevelPlanned ==
  ASSUME NEW T, Closed(T), Leveled(T, read, leaves), PlanLevel
  PROVE  Reducing(T, read', leaves)
<1> DEFINE keys == read.keys
           n == Len(keys)
           costs == [i \in DOMAIN keys |-> SizeOfNode(keys[i])]
           groups == Groups(keys, costs)
<1>1. /\ read \in ReadOf(T) /\ read.inflight = <<>> /\ Whole(leaves)
      /\ read.mode = "level" /\ read.queued = <<>>
  BY DEF Leveled
<1>2. /\ n > 1 /\ Converges(groups)
      /\ read' = [read EXCEPT !.mode = "reducing", !.keys = <<>>, !.queued = groups]
  BY DEF PlanLevel, LevelGroups
<1>3. keys \in Seq(T)
  BY <1>1 DEF ReadOf
<1>4. Len(costs) = n
  <2> DEFINE S == {SizeOfNode(keys[i]) : i \in DOMAIN keys}
  <2>1. n \in Nat /\ DOMAIN keys = 1 .. n
    BY <1>3, LenProperties
  <2>2. costs \in [1 .. n -> S]
    BY <2>1
  <2> HIDE DEF costs, S, n
  <2>3. costs \in Seq(S)
    BY <2>1, <2>2, SeqDef
  <2> QED BY <2>1, <2>2, <2>3, LenProperties
<1> HIDE DEF costs
<1>5. groups \in Seq(Filled(T)) /\ FlattenSeq(groups) = keys
  BY <1>3, <1>4, GroupsJoin
<1>6. Len(groups) < n
  BY <1>2, <1>3, <1>4, GroupsAreFewer
<1> HIDE DEF groups
<1>7. PICK h \in Nat : Reaches(keys, h, leaves) /\ h + n <= Len(leaves)
  BY DEF Leveled
<1>8. Len(leaves) \in Nat /\ Len(leaves) <= Depth /\ leaves \in Seq(LeafNodes)
  BY <1>1, LeavesAreFew DEF Whole
<1>9. Len(groups) \in Nat /\ n \in Nat
  BY <1>3, <1>5, LenProperties
<1>10. /\ read'.mode = "reducing" /\ read'.keys = <<>> /\ read'.inflight = <<>>
       /\ read'.queued = groups /\ read' \in ReadOf(T)
  <2>1. <<>> \in Seq(T)
    BY EmptySeq
  <2> HIDE DEF keys, n
  <2> QED BY <1>1, <1>2, <1>5, <2>1 DEF ReadOf
<1>11. Asked(read') = <<>>
  <2>1. KeysOf(<<>>) = <<>> /\ <<>> \o <<>> = <<>>
    BY DEF KeysOf
  <2> QED BY <1>10, <2>1 DEF Asked
<1>12. h + 1 + Len(Asked(read')) + Len(read'.queued) <= Len(leaves)
  <2>1. Len(<<>>) = 0
    BY EmptySeq
  <2>2. h + 1 + 0 + Len(groups) <= Len(leaves)
    <3> HIDE DEF n
    <3> QED BY <1>6, <1>7, <1>8, <1>9
  <2> QED BY <1>10, <1>11, <2>1, <2>2
<1>13. Unfolded(Asked(read'))[h + 1] \o Unfolded(FlattenSeq(read'.queued))[h] = leaves
  <2>1. h + 1 \in 0 .. Depth
    <3> HIDE DEF n
    <3> QED BY <1>6, <1>7, <1>8, <1>9, DepthIsNat
  <2>2. Unfolded(<<>>)[h + 1] = <<>>
    <3> DEFINE k == h + 1
    <3> HIDE DEF k
    <3>1. k \in 0 .. Depth
      BY <2>1 DEF k
    <3>2. <<>> \in Seq(LeafNodes)
      BY EmptySeq
    <3>3. Unfolded(<<>>)[k] = <<>>
      BY <3>1, <3>2, LeavesUnfolded
    <3> QED BY <3>3 DEF k
  <2>3. Unfolded(keys)[h] = leaves
    BY <1>7 DEF Reaches
  <2>4. <<>> \o leaves = leaves
    BY <1>8, EmptyConcat
  <2> QED BY <1>5, <1>10, <1>11, <2>2, <2>3, <2>4
<1> QED BY <1>1, <1>7, <1>10, <1>12, <1>13 DEF Reducing

Regrouped(a, b, c) == (a \o b) \o c = a \o (b \o c)

LEMMA Regroup ==
  ASSUME NEW T, NEW a \in Seq(T), NEW b \in Seq(T), NEW c \in Seq(T) PROVE Regrouped(a, b, c)
BY ConcatAssociative DEF Regrouped

\* A reduction stands for the group it was made of, a lone child for itself.
StandsFor(x, kids) == x.kids = kids \/ kids = <<x>>
Shifted(s, x, kids, rest, h) ==
  Unfolded(Append(s, x))[h + 1] \o Unfolded(rest)[h]
  = Unfolded(s)[h + 1] \o Unfolded(kids \o rest)[h]

LEMMA Reduces ==
  ASSUME NEW T, Closed(T), NEW s \in Seq(T), NEW kids \in Seq(T), kids # <<>>, NEW rest \in Seq(T),
         NEW x \in T, StandsFor(x, kids), NEW h \in 0 .. Depth - 1,
         Unfolded(s)[h + 1] \o Unfolded(kids \o rest)[h] \in Seq(LeafNodes)
  PROVE  Shifted(s, x, kids, rest, h)
<1> DEFINE a == Unfolded(s)[h + 1]
           b == Unfolded(kids)[h]
           c == Unfolded(rest)[h]
           d == Unfolded(<<x>>)[h + 1]
<1>1. /\ h \in 0 .. Depth /\ h + 1 \in 0 .. Depth /\ h + 1 \in h .. Depth /\ <<x>> \in Seq(T)
      /\ h \in Nat
  BY DepthIsNat
<1>2. a \in Seq(T) /\ b \in Seq(T) /\ c \in Seq(T)
  <2> DEFINE k == h + 1
  <2>1. k \in 0 .. Depth /\ h \in 0 .. Depth
    BY <1>1
  <2> HIDE DEF k
  <2>2. Unfolded(s)[k] \in Seq(T) /\ b \in Seq(T) /\ c \in Seq(T)
    BY <2>1, LevelTyped
  <2> QED BY <2>2 DEF k
<1>3. Unfolded(kids \o rest)[h] = b \o c
  <2>1. h \in 0 .. Depth
    BY <1>1
  <2> QED BY <2>1, UnfoldedConcat
<1>4. Unfolded(Append(s, x))[h + 1] = a \o d
  <2> DEFINE k == h + 1
             one == <<x>>
  <2>1. Append(s, x) = s \o one
    BY AppendIsConcat
  <2>2. k \in 0 .. Depth /\ one \in Seq(T)
    BY <1>1
  <2> HIDE DEF k, one
  <2>3. Unfolded(s \o one)[k] = Unfolded(s)[k] \o Unfolded(one)[k]
    BY <2>2, UnfoldedConcat
  <2> QED BY <2>1, <2>3 DEF k, one
<1>5. d = b
  <2>1. CASE kids = <<x>>
    <3>1. b \in Seq(LeafNodes)
      <4>1. a \o (b \o c) \in Seq(LeafNodes)
        BY <1>3
      <4> HIDE DEF a, b, c
      <4>2. b \o c \in Seq(T)
        BY <1>2, ConcatProperties
      <4>3. b \o c \in Seq(LeafNodes)
        <5> DEFINE e == b \o c
        <5> HIDE DEF e
        <5>1. e \in Seq(T) /\ a \o e \in Seq(LeafNodes)
          BY <4>1, <4>2 DEF e
        <5>2. e \in Seq(LeafNodes)
          BY <1>2, <5>1, HalvesTyped
        <5> QED BY <5>2 DEF e
      <4> QED BY <1>2, <4>3, HalvesTyped
    <3> DEFINE k == h + 1
    <3>2. k \in h .. Depth
      BY <1>1
    <3> HIDE DEF k
    <3>3. Unfolded(kids)[k] = Unfolded(kids)[h]
      BY <1>1, <3>1, <3>2, UnfoldedStays
    <3> QED BY <2>1, <3>3 DEF k
  <2>2. CASE x.kids = kids
    <3>1. Expanded(<<x>>) = kids
      BY <2>2, OneExpanded
    <3> DEFINE one == <<x>>
    <3> HIDE DEF one
    <3>2. one \in Seq(T)
      BY <1>1 DEF one
    <3>3. Unfolded(one)[h + 1] = Unfolded(Expanded(one))[h]
      BY <3>2, UnfoldedNext
    <3> QED BY <3>1, <3>3 DEF one
  <2> QED BY <2>1, <2>2 DEF StandsFor
<1>6. (a \o b) \o c = a \o (b \o c)
  <2> HIDE DEF a, b, c
  <2>1. a \in Seq(T) /\ b \in Seq(T) /\ c \in Seq(T)
    BY <1>2
  <2>2. Regrouped(a, b, c)
    BY <2>1, Regroup, Zenon
  <2> QED BY <2>2 DEF a, b, c, Regrouped
<1> HIDE DEF a, b, c, d
<1> QED BY <1>3, <1>4, <1>5, <1>6 DEF a, c, Shifted

LEMMA MoreNodes ==
  ASSUME NEW T, NEW U, T \subseteq U
  PROVE  /\ \A s \in Seq(T) : s \in Seq(U)
         /\ \A r \in ReadOf(T) : r \in ReadOf(U)
<1>1. \A s \in Seq(T) : s \in Seq(U)
  BY SeqMonotonic
<1>2. Filled(T) \subseteq Filled(U) /\ TaskOf(T) \subseteq TaskOf(U)
  BY <1>1 DEF Filled, TaskOf
<1>3. /\ \A s \in Seq(Filled(T)) : s \in Seq(Filled(U))
      /\ \A s \in Seq(TaskOf(T)) : s \in Seq(TaskOf(U))
  BY <1>2, SeqMonotonic
<1> QED BY <1>1, <1>3 DEF ReadOf

\* QueueGroup: the next group is asked for.
LEMMA GroupQueued ==
  ASSUME limit \in Nat, NEW T, Closed(T), Reducing(T, read, leaves), QueueGroup
  PROVE  \E U : Closed(U) /\ Reducing(U, read', leaves)
<1> DEFINE kids == Head(read.queued)
           later == Tail(read.queued)
           t == Reduction(kids)
           U == IF Len(kids) = 1 THEN T ELSE T \cup {Node(<<>>, kids)}
<1>1. /\ read \in ReadOf(T) /\ read.mode = "reducing" /\ Whole(leaves)
      /\ read.queued # <<>> /\ read.queued \in Seq(Filled(T))
  BY DEF Reducing, QueueGroup, ReadOf
<1>2. PICK h \in Nat :
        /\ h + 1 + Len(Asked(read)) + Len(read.queued) <= Len(leaves)
        /\ Unfolded(Asked(read))[h + 1] \o Unfolded(FlattenSeq(read.queued))[h] = leaves
  BY DEF Reducing
<1>3. read' = [read EXCEPT !.queued = later, !.inflight = Append(read.inflight, t)]
  BY DEF QueueGroup
<1>4. /\ kids \in Filled(T) /\ later \in Seq(Filled(T)) /\ read.queued = <<kids>> \o later
      /\ Len(later) = Len(read.queued) - 1
  <2> DEFINE F == Filled(T)
             q == read.queued
  <2>1. q \in Seq(F) /\ q # <<>>
    BY <1>1
  <2> HIDE DEF F, q
  <2>2. Head(q) \in F /\ Tail(q) \in Seq(F) /\ q = <<Head(q)>> \o Tail(q) /\ Len(Tail(q)) = Len(q) - 1
    BY <2>1, FirstAndRest
  <2> QED BY <2>2 DEF F, q
<1> HIDE DEF kids, later
<1>5. kids \in Seq(T) /\ kids # <<>> /\ Len(kids) \in Nat /\ Len(kids) # 0
  <2>1. kids \in Seq(T) /\ kids # <<>>
    BY <1>4 DEF Filled
  <2> QED BY <2>1, EmptySeq, LenProperties
<1>6. FlattenSeq(read.queued) = kids \o FlattenSeq(later) /\ FlattenSeq(later) \in Seq(T)
  BY <1>4, FlattenFirst, FlattenIsFlat
<1>7. Closed(U) /\ T \subseteq U
  <2>1. CASE Len(kids) = 1
    BY <2>1
  <2>2. CASE Len(kids) # 1
    <3> DEFINE x == Node(<<>>, kids)
    <3>1. x.kids = kids /\ x.parts = <<>>
      BY DEF Node
    <3> HIDE DEF x
    <3>2. U = T \cup {x}
      BY <2>2 DEF x
    <3> HIDE DEF U
    <3>3. <<>> \in Seq(Part)
      BY EmptySeq
    <3>4. \A s \in Seq(T) : s \in Seq(U)
      BY <3>2, SeqMonotonic
    <3>5. LeafNodes \subseteq U
      BY <3>2 DEF Closed
    <3>6. \A y \in U : y.kids \in Seq(U) /\ y.parts \in Seq(Part)
      <4> SUFFICES ASSUME NEW y \in U PROVE y.kids \in Seq(U) /\ y.parts \in Seq(Part)
        OBVIOUS
      <4>1. CASE y = x
        BY <1>5, <3>1, <3>3, <3>4, <4>1
      <4>2. CASE y \in T
        BY <3>4, <4>2 DEF Closed
      <4> QED BY <3>2, <4>1, <4>2
    <3> QED BY <3>2, <3>5, <3>6 DEF Closed
  <2> QED BY <2>1, <2>2
<1>8. /\ t \in TaskOf(U) /\ t.key \in U
      /\ t.key.kids = kids \/ kids = <<t.key>>
  <2>1. CASE Len(kids) = 1
    <3>1. 1 \in 1 .. Len(kids) /\ kids[1] \in T
      BY <1>5, <2>1, ElementOfSeq
    <3> DEFINE x == kids[1]
               b == TRUE
    <3>2. kids = <<x>>
      <4>1. kids \in [1 .. 1 -> T]
        BY <1>5, <2>1, LenProperties
      <4> QED BY <4>1
    <3>3. U = T /\ t = [key |-> x, try |-> 1, done |-> b]
      BY <2>1 DEF Reduction
    <3>4. x \in T /\ b \in BOOLEAN
      BY <3>1
    <3> HIDE DEF x, b, t, U
    <3> QED BY <3>2, <3>3, <3>4 DEF TaskOf
  <2>2. CASE Len(kids) # 1
    <3> DEFINE x == Node(<<>>, kids)
               b == \E kept \in nodes : kept.key = x
    <3>1. x.kids = kids
      BY DEF Node
    <3>2. x \in U
      BY <2>2
    <3>3. t = [key |-> x, try |-> 1, done |-> b]
      BY <2>2 DEF Reduction, Task
    <3>4. b \in BOOLEAN
      OBVIOUS
    <3> HIDE DEF x, b, t, U
    <3> QED BY <3>1, <3>2, <3>3, <3>4 DEF TaskOf
  <2> QED BY <2>1, <2>2
<1> HIDE DEF t, U
<1>9. read \in ReadOf(U) /\ kids \in Seq(U) /\ FlattenSeq(later) \in Seq(U) /\ later \in Seq(Filled(U))
  <2>1. read \in ReadOf(U) /\ \A s \in Seq(T) : s \in Seq(U)
    BY <1>1, <1>7, MoreNodes
  <2>2. Filled(T) \subseteq Filled(U)
    BY <2>1 DEF Filled
  <2>3. later \in Seq(Filled(U))
    BY <1>4, <2>2, SeqMonotonic
  <2> QED BY <1>5, <1>6, <2>1, <2>3
<1>10. read.keys \in Seq(U) /\ read.inflight \in Seq(TaskOf(U))
  BY <1>9 DEF ReadOf
<1>11. /\ Asked(read) \in Seq(U)
       /\ read.keys \o KeysOf(Append(read.inflight, t)) = Append(Asked(read), t.key)
  <2> DEFINE keys == read.keys
             tasks == read.inflight
  <2>1. keys \in Seq(U) /\ tasks \in Seq(TaskOf(U)) /\ t \in TaskOf(U)
    BY <1>8, <1>10
  <2> HIDE DEF keys, tasks
  <2>2. /\ keys \o KeysOf(tasks) \in Seq(U)
        /\ keys \o KeysOf(Append(tasks, t)) = Append(keys \o KeysOf(tasks), t.key)
    BY <2>1, AskedAppended
  <2> QED BY <2>2 DEF keys, tasks, Asked
<1>12. /\ read'.mode = "reducing" /\ read'.queued = later /\ read'.keys = read.keys
       /\ read'.inflight = Append(read.inflight, t) /\ read' \in ReadOf(U)
  <2>1. Append(read.inflight, t) \in Seq(TaskOf(U))
    BY <1>8, <1>10, AppendProperties
  <2> QED BY <1>1, <1>3, <1>9, <2>1 DEF ReadOf
<1>13. Asked(read') = Append(Asked(read), t.key)
  BY <1>11, <1>12 DEF Asked
<1> DEFINE a == Asked(read)
           x == t.key
           rest == FlattenSeq(later)
<1>14. Len(leaves) \in Nat /\ Len(leaves) <= Depth /\ leaves \in Seq(LeafNodes)
  BY <1>1, LeavesAreFew DEF Whole
<1>15. Len(a) \in Nat /\ Len(read.queued) \in Nat /\ Len(Append(a, x)) = Len(a) + 1
  <2>1. a \in Seq(U) /\ x \in U
    BY <1>8, <1>11
  <2> HIDE DEF a, x
  <2> QED BY <1>1, <2>1, LenProperties, AppendProperties
<1>16. h \in 0 .. Depth - 1
  <2> DEFINE la == Len(Asked(read))
             lq == Len(read.queued)
             ll == Len(leaves)
  <2>1. /\ la \in Nat /\ lq \in Nat /\ ll \in Nat /\ Depth \in Nat /\ ll <= Depth
        /\ h + 1 + la + lq <= ll
    BY <1>2, <1>14, <1>15, DepthIsNat
  <2> HIDE DEF la, lq, ll, a
  <2> QED BY <2>1
<1>17. Unfolded(Append(a, x))[h + 1] \o Unfolded(rest)[h] = leaves
  <2>1. a \in Seq(U) /\ x \in U /\ rest \in Seq(U) /\ kids \in Seq(U) /\ kids # <<>>
    BY <1>5, <1>8, <1>9, <1>11
  <2>2. StandsFor(x, kids)
    BY <1>8 DEF StandsFor
  <2>3. Unfolded(a)[h + 1] \o Unfolded(kids \o rest)[h] = leaves
    BY <1>2, <1>6
  <2> HIDE DEF a, x, rest
  <2>4. Shifted(a, x, kids, rest, h)
    <3>1. Closed(U) /\ leaves \in Seq(LeafNodes)
      BY <1>7, <1>14
    <3>2. Unfolded(a)[h + 1] \o Unfolded(kids \o rest)[h] \in Seq(LeafNodes)
      BY <2>3, <3>1
    <3> QED BY <1>16, <2>1, <2>2, <3>1, <3>2, Reduces, Zenon
  <2>5. Unfolded(Append(a, x))[h + 1] \o Unfolded(rest)[h] = leaves
    BY <2>3, <2>4 DEF Shifted
  <2> QED BY <2>5 DEF a, x, rest
<1>18. h + 1 + Len(Asked(read')) + Len(read'.queued) <= Len(leaves)
  <2>1. Len(Asked(read')) = Len(a) + 1 /\ Len(read'.queued) = Len(read.queued) - 1
    BY <1>4, <1>12, <1>13, <1>15
  <2> DEFINE la == Len(Asked(read))
             lq == Len(read.queued)
             ll == Len(leaves)
             la2 == Len(Asked(read'))
             lq2 == Len(read'.queued)
  <2>2. /\ la \in Nat /\ lq \in Nat /\ ll \in Nat /\ h + 1 + la + lq <= ll
        /\ la2 = la + 1 /\ lq2 = lq - 1
    BY <1>2, <1>14, <1>15, <2>1
  <2> HIDE DEF la, lq, ll, la2, lq2, a
  <2>3. h + 1 + la2 + lq2 <= ll
    BY <2>2
  <2> QED BY <2>3 DEF ll, la2, lq2
<1>19. Reducing(U, read', leaves)
  BY <1>1, <1>12, <1>13, <1>17, <1>18 DEF Reducing
<1> QED BY <1>7, <1>19

\* LevelRead: what was asked for is the next level.
LEMMA LevelReached ==
  ASSUME NEW T, Closed(T), Reducing(T, read, leaves), LevelRead
  PROVE  Leveled(T, read', leaves)
<1>1. /\ read \in ReadOf(T) /\ Whole(leaves) /\ read.inflight = <<>> /\ read.queued = <<>>
      /\ read' = [read EXCEPT !.mode = "level"]
  BY DEF Reducing, LevelRead, Idle
<1>2. PICK h \in Nat :
        /\ h + 1 + Len(Asked(read)) + Len(read.queued) <= Len(leaves)
        /\ Unfolded(Asked(read))[h + 1] \o Unfolded(FlattenSeq(read.queued))[h] = leaves
  BY DEF Reducing
<1>3. /\ read' \in ReadOf(T) /\ read'.mode = "level" /\ read'.queued = <<>>
      /\ read'.inflight = <<>> /\ read'.keys = read.keys
  BY <1>1 DEF ReadOf
<1> DEFINE keys == read.keys
           k == h + 1
<1>4. keys \in Seq(T)
  BY <1>1 DEF ReadOf
<1>5. Asked(read) = keys
  <2>1. KeysOf(<<>>) = <<>>
    BY DEF KeysOf
  <2>2. keys \o <<>> = keys
    BY <1>4, EmptyConcat
  <2> QED BY <1>1, <2>1, <2>2 DEF Asked
<1>6. Len(leaves) \in Nat /\ Len(leaves) <= Depth
  BY <1>1, LeavesAreFew
<1>7. k + Len(keys) <= Len(leaves) /\ k \in Nat /\ Len(keys) \in Nat
  <2>1. Len(<<>>) = 0
    BY EmptySeq
  <2>2. Len(keys) \in Nat
    BY <1>4, LenProperties
  <2> DEFINE n == Len(keys)
             m == Len(leaves)
  <2>3. h + 1 + n + 0 <= m /\ n \in Nat /\ m \in Nat
    BY <1>1, <1>2, <1>5, <1>6, <2>1, <2>2
  <2> HIDE DEF n, m
  <2>4. k + n <= m /\ k \in Nat /\ n \in Nat
    BY <2>3
  <2> QED BY <2>4 DEF n, m
<1>8. h \in 0 .. Depth /\ k \in 0 .. Depth
  <2> DEFINE n == Len(keys)
             m == Len(leaves)
  <2>1. k + n <= m /\ n \in Nat /\ m \in Nat /\ m <= Depth /\ k = h + 1 /\ Depth \in Nat
    BY <1>6, <1>7, DepthIsNat
  <2> HIDE DEF n, m, k
  <2> QED BY <2>1
<1>9. Unfolded(keys)[k] = leaves
  <2>1. FlattenSeq(<<>>) = <<>>
    BY DEF FlattenSeq
  <2>2. <<>> \in Seq(LeafNodes)
    BY EmptySeq
  <2>3. Unfolded(<<>>)[h] = <<>>
    BY <1>8, <2>2, LeavesUnfolded
  <2> HIDE DEF keys, k
  <2>4. Unfolded(keys)[k] \in Seq(T)
    BY <1>4, <1>8, LevelTyped
  <2> DEFINE u == Unfolded(keys)[k]
  <2>5. u \o <<>> = leaves
    BY <1>1, <1>2, <1>5, <2>1, <2>3 DEF k
  <2>6. u \in Seq(T)
    BY <2>4
  <2> HIDE DEF u
  <2>7. u \o <<>> = u
    BY <2>6, EmptyConcat
  <2> QED BY <2>5, <2>7 DEF u
<1>10. Reaches(keys, k, leaves)
  BY <1>8, <1>9 DEF Reaches
<1> HIDE DEF k
<1> QED BY <1>1, <1>3, <1>7, <1>10 DEF Leveled

\* What is read has one root whose levels reach the stored leaves.
Rooted == Whole(leaves) /\ \E T : Closed(T) /\ tree \in T /\ \E h \in Nat : Reaches(<<tree>>, h, leaves)

\* FinishReading: the node that is left is the root.
LEMMA RootIsLeft ==
  ASSUME NEW T, Closed(T), Leveled(T, read, leaves), FinishReading
  PROVE  Rooted'
<1>1. read \in ReadOf(T) /\ Whole(leaves) /\ Len(read.keys) = 1
      /\ tree' = read.keys[1] /\ leaves' = leaves
  BY DEF Leveled, FinishReading, Idle
<1>2. PICK h \in Nat : Reaches(read.keys, h, leaves)
  BY DEF Leveled
<1>3. read.keys \in Seq(T)
  BY <1>1 DEF ReadOf
<1>4. tree' \in T /\ read.keys = <<tree'>>
  <2>1. read.keys \in [1 .. 1 -> T]
    BY <1>1, <1>3, LenProperties
  <2> QED BY <1>1, <2>1
<1>5. Reaches(<<tree'>>, h, leaves')
  BY <1>1, <1>2, <1>4
<1>6. Whole(leaves')
  BY <1>1
<1> QED BY <1>4, <1>5, <1>6 DEF Rooted

ReadingInv ==
  /\ limit \in Nat
  /\ stage \notin {"reading", "failing"} => read = Fresh
  /\ stage = "reading" => tree = NoTree /\ ReadingOn(read, leaves)
  /\ tree \notin {NoTree, Stored} => Rooted

LEMMA ReadingStarts == Init => ReadingInv
<1> SUFFICES ASSUME Init PROVE ReadingInv
  OBVIOUS
<1>1. stage = "ended" /\ tree = NoTree /\ read = Fresh
      /\ limit \in {l \in Limits : \A k \in Limits : k <= l}
  BY DEF Init, ReadingInit
<1>2. limit \in Nat
  BY <1>1, ReadingAssumption
<1> QED BY <1>1, <1>2 DEF ReadingInv

LEMMA LimitsAreNumbers == Limits \subseteq Nat /\ (CHOOSE l \in Limits : TRUE) \in Nat
BY ReadingAssumption

\* A step that reads no further.
LEMMA NothingRead ==
  ASSUME ReadingInv, UNCHANGED <<leaves, tree>>, limit' \in Limits \cup {limit},
         \/ stage' = "failing"
         \/ read' = Fresh /\ (stage' = "reading" => tree = NoTree)
  PROVE  ReadingInv'
<1>1. limit' \in Nat
  BY LimitsAreNumbers DEF ReadingInv
<1>2. (tree \notin {NoTree, Stored} => Rooted)'
  BY DEF ReadingInv, Rooted
<1>3. stage' = "reading" => tree' = NoTree /\ ReadingOn(read', leaves')
  BY FreshIsPacking DEF ReadingOn
<1>4. stage' \notin {"reading", "failing"} => read' = Fresh
  OBVIOUS
<1> QED BY <1>1, <1>2, <1>3, <1>4 DEF ReadingInv

\* A step by which the loop goes on.
LEMMA ReadOn ==
  ASSUME ReadingInv, stage = "reading", stage' = "reading", tree' = tree,
         limit' \in Limits \cup {limit}, ReadingOn(read', leaves')
  PROVE  ReadingInv'
BY LimitsAreNumbers DEF ReadingInv

LEMMA ReadingKeeps == ASSUME ReadingInv, ReadingStep PROVE ReadingInv'
<1>1. stage = "reading"
  BY DEF ReadingStep, RefuseReading, TakePart, CloseLastGroup, LeavesRead, Collect, PlanLevel,
         RefuseLevel, QueueGroup, LevelRead, FinishReading, Answer, AnswerUseless,
         AnswerMissing, AnswerRefused, Reading, Idle, Polled
<1>2. limit \in Nat /\ tree = NoTree /\ ReadingOn(read, leaves)
  BY <1>1 DEF ReadingInv
<1>3. ASSUME read.mode = "packing" PROVE Packing(read)
  BY <1>2, <1>3 DEF ReadingOn, Leveled, Reducing
<1>4. ASSUME read.mode = "level" PROVE \E T : Closed(T) /\ Leveled(T, read, leaves)
  BY <1>2, <1>4 DEF ReadingOn, Packing, Reducing
<1>5. ASSUME read.mode = "reducing" PROVE \E T : Closed(T) /\ Reducing(T, read, leaves)
  BY <1>2, <1>5 DEF ReadingOn, Packing, Leveled
<1>6. CASE RefuseReading \/ RefuseLevel
  BY <1>6, NothingRead DEF RefuseReading, RefuseLevel, Fail, reading
<1>7. CASE \E i \in DOMAIN read.inflight : AnswerMissing(i) \/ AnswerRefused(i)
  BY <1>7, NothingRead DEF AnswerMissing, AnswerRefused, Fail, reading
<1>8. CASE \E i \in DOMAIN read.inflight : Answer(i) \/ AnswerUseless(i)
  <2>1. ReadingOn(read', leaves)
    BY <1>2, <1>8, AnswersKeep
  <2>2. stage' = "reading" /\ leaves' = leaves /\ tree' = tree /\ limit' \in Limits \cup {limit}
    BY <1>1, <1>8 DEF Answer, AnswerUseless, Goto
  <2> QED BY <1>1, <2>1, <2>2, ReadOn
<1>9. CASE TakePart \/ CloseLastGroup
  <2>1. Packing(read)
    BY <1>3, <1>9 DEF TakePart, CloseLastGroup, Reading
  <2>2. Packing(read')
    BY <1>2, <1>9, <2>1, PartTaken, LastGroupTaken
  <2>3. stage' = "reading" /\ leaves' = leaves /\ tree' = tree /\ limit' = limit
    BY <1>9 DEF TakePart, CloseLastGroup, Goto
  <2> QED BY <1>1, <2>2, <2>3, ReadOn DEF ReadingOn
<1>10. CASE Collect
  <2>1. ReadingOn(read', leaves)
    BY <1>2, <1>10, CollectKeeps
  <2>2. stage' = "reading" /\ leaves' = leaves /\ tree' = tree /\ limit' = limit
    BY <1>10 DEF Collect, Goto
  <2> QED BY <1>1, <2>1, <2>2, ReadOn
<1>11. CASE LeavesRead
  <2>1. Packing(read)
    BY <1>3, <1>11 DEF LeavesRead, Idle, Reading
  <2>2. ReadingOn(read', leaves')
    BY <1>11, <2>1, LeavesAreWhole, LeavesAreClosed DEF ReadingOn
  <2>3. stage' = "reading" /\ tree' = tree /\ limit' = limit
    BY <1>11 DEF LeavesRead, Goto
  <2> QED BY <1>1, <2>2, <2>3, ReadOn
<1>12. CASE PlanLevel
  <2>1. PICK T : Closed(T) /\ Leveled(T, read, leaves)
    BY <1>4, <1>12 DEF PlanLevel, Idle, Reading
  <2>2. stage' = "reading" /\ leaves' = leaves /\ tree' = tree /\ limit' = limit
    BY <1>12 DEF PlanLevel, Goto
  <2>3. ReadingOn(read', leaves')
    BY <1>12, <2>1, <2>2, LevelPlanned DEF ReadingOn
  <2> QED BY <1>1, <2>2, <2>3, ReadOn
<1>13. CASE QueueGroup
  <2>1. PICK T : Closed(T) /\ Reducing(T, read, leaves)
    BY <1>5, <1>13 DEF QueueGroup, Reading
  <2>2. stage' = "reading" /\ leaves' = leaves /\ tree' = tree /\ limit' = limit
    BY <1>13 DEF QueueGroup, Goto
  <2>3. \E U : Closed(U) /\ Reducing(U, read', leaves)
    BY <1>2, <1>13, <2>1, GroupQueued
  <2>4. ReadingOn(read', leaves')
    BY <2>2, <2>3 DEF ReadingOn
  <2> QED BY <1>1, <2>2, <2>4, ReadOn
<1>14. CASE LevelRead
  <2>1. PICK T : Closed(T) /\ Reducing(T, read, leaves)
    BY <1>5, <1>14 DEF LevelRead, Idle, Reading
  <2>2. stage' = "reading" /\ leaves' = leaves /\ tree' = tree /\ limit' = limit
    BY <1>14 DEF LevelRead, Goto
  <2>3. ReadingOn(read', leaves')
    BY <1>14, <2>1, <2>2, LevelReached DEF ReadingOn
  <2> QED BY <1>1, <2>2, <2>3, ReadOn
<1>15. CASE FinishReading
  <2>1. PICK T : Closed(T) /\ Leveled(T, read, leaves)
    BY <1>4, <1>15 DEF FinishReading, Idle, Reading
  <2>2. Rooted'
    BY <1>15, <2>1, RootIsLeft
  <2>3. stage' = "read" /\ read' = Fresh /\ limit' \in Nat
    BY <1>15, LimitsAreNumbers DEF FinishReading, Goto
  <2> QED BY <2>2, <2>3 DEF ReadingInv
<1> QED
  BY <1>6, <1>7, <1>8, <1>9, <1>10, <1>11, <1>12, <1>13, <1>14, <1>15 DEF ReadingStep

\* Once it was read, the source is not looked at again but for the tree.
LEMMA PlanningReads == ASSUME ReadingInv, PlanningStep PROVE ReadingInv'
<1>1. CASE ReadPurpose
  <2>1. /\ stage = "read" /\ stage' = "outlining" /\ tree' = Stored
        /\ UNCHANGED <<limit, read>>
    BY <1>1 DEF ReadPurpose, Goto
  <2> QED BY <2>1 DEF ReadingInv
<1>2. CASE ~ReadPurpose
  <2>1. UNCHANGED <<limit, read, leaves, tree>>
    BY <1>2 DEF PlanningStep, reading
  <2>2. stage \notin {"reading", "failing"} /\ stage' # "reading"
    BY <1>2 DEF PlanningStep, OutOfBudget, TakePending, PlanWhole, StartChapters,
         DivideChapters, ReusePart, PlanPart, AllGathered, JoinParts, JoinRefused, ReviewOutline,
         AddFindings, Judged, SettleOutline, AwaitApproval, GiveUpOutline, CorrectOutline,
         Store, AskAgain, Goto, Fail
  <2>3. read = Fresh
    BY <2>2 DEF ReadingInv
  <2> QED BY <2>1, <2>2, <2>3, NothingRead
<1> QED BY <1>1, <1>2

LEMMA WritingReads == ASSUME ReadingInv, WritingStep PROVE ReadingInv'
<1>1. stage \in {"writing", "checking", "repairing"} /\ stage' # "reading"
  BY DEF WritingStep, ReuseSection, RewriteSaved, WriteSection, KeepUnresolved, RepairSection,
         RepairUnresolved, SkipRepair, At, Repairing, AllWritten, SkipRound, ReviewDocument,
         Unchecked, Replan, StartRepairs, Checked, EndRound, PublishReviewed, PublishUnread,
         Publish, End, WritingFails, Goto
<1>2. UNCHANGED <<limit, leaves, tree>> /\ read' \in {read, Fresh}
  BY DEF WritingStep, ReuseSection, RewriteSaved, WriteSection, KeepUnresolved, RepairSection,
         RepairUnresolved, SkipRepair, AllWritten, SkipRound, ReviewDocument, Replan,
         StartRepairs, EndRound, PublishReviewed, PublishUnread, Publish, End, WritingFails,
         Leaving, reading
<1>3. read = Fresh
  BY <1>1 DEF ReadingInv
<1> QED BY <1>1, <1>2, <1>3, NothingRead

LEMMA WholeStep == ReadingInv /\ [Next]_vars => ReadingInv'
<1> SUFFICES ASSUME ReadingInv, [Next]_vars PROVE ReadingInv'
  OBVIOUS
<1>1. CASE UNCHANGED vars
  BY <1>1 DEF vars, attempt, reading, ReadingInv, Rooted
<1>2. CASE Start
  <2>1. stage = "ended" /\ UNCHANGED <<limit, read, leaves, tree>>
    BY <1>2 DEF Start, reading
  <2>2. stage' = "reading" => tree = NoTree
    BY <1>2 DEF Start, Goto, PlanDocument
  <2>3. read = Fresh
    BY <2>1 DEF ReadingInv
  <2> QED BY <2>1, <2>2, <2>3, NothingRead
<1>3. CASE Stop \/ WorkerFails
  BY <1>3, NothingRead DEF Stop, WorkerFails, End
<1>4. CASE ReadingStep /\ UNCHANGED <<planning, document>>
  BY <1>4, ReadingKeeps
<1>5. CASE PlanningStep /\ UNCHANGED document
  BY <1>5, PlanningReads
<1>6. CASE WritingStep
  BY <1>6, WritingReads
<1>7. CASE \E seen \in DOMAIN made : Revise(seen) \/ Approve(seen)
  <2>1. stage = "ended" /\ UNCHANGED <<stage, limit, read, leaves, tree>>
    BY <1>7 DEF Revise, Approve, attempt, reading
  <2>2. read = Fresh
    BY <2>1 DEF ReadingInv
  <2> QED BY <2>1, <2>2, NothingRead
<1> QED BY <1>1, <1>2, <1>3, <1>4, <1>5, <1>6, <1>7 DEF Next

\* The tree later stages see is whole (understanding.rs analyze): for every
\* source, every way its passages were packed and its nodes reduced while the
\* limit moved, and however often the reading was broken off and taken up.
THEOREM WholeIsRead == Spec => []ReadingIsWhole
<1>1. ReadingInv => ReadingIsWhole
  <2> SUFFICES ASSUME ReadingInv, tree \notin {NoTree, Stored}
               PROVE  /\ \A n \in DOMAIN Levels(tree) : Bytes(PartsOf(Levels(tree)[n])) = WholeSource
                      /\ leaves = LeavesUnder(<<tree>>)
    BY DEF ReadingIsWhole
  <2>1. PICK T : Whole(leaves) /\ Closed(T) /\ tree \in T
                 /\ \E h \in Nat : Reaches(<<tree>>, h, leaves)
    BY DEF ReadingInv, Rooted
  <2>2. PICK h \in Nat : Reaches(<<tree>>, h, leaves)
    BY <2>1
  <2> QED BY <2>1, <2>2, TreeIsWhole
<1> QED BY <1>1, ReadingStarts, WholeStep, PTL DEF Spec

-----------------------------------------------------------------------------
\* How many members of M come before b.
Earlier(M, b) == Cardinality({a \in M : a < b})

\* The members of a finite set of numbers, in order: each has its own place.
LEMMA PlacesInOrder ==
  ASSUME NEW M \in SUBSET Nat, IsFiniteSet(M)
  PROVE  /\ Cardinality(M) \in Nat
         /\ \A b \in M : Earlier(M, b) \in 0 .. Cardinality(M) - 1
         /\ \A i \in 0 .. Cardinality(M) - 1 : \E b \in M : Earlier(M, b) = i
         /\ \A b, c \in M : Earlier(M, b) = Earlier(M, c) => b = c
<1> DEFINE n == Cardinality(M)
           R == {p \in Nat \X Nat : p[1] < p[2]}
           rank == [b \in M |-> Cardinality({a \in M : a = b \/ <<a, b>> \in R})]
<1>1. n \in Nat
  BY FS_CardinalityType
<1>2. \A b, c \in M : <<b, c>> \in R <=> b < c
  OBVIOUS
<1>3. IsRanking(rank, M, R)
  <2> HIDE DEF R
  <2>1. \A x \in M : <<x, x>> \notin R
    BY <1>2
  <2>2. \A x, y, z \in M : <<x, y>> \in R /\ <<y, z>> \in R => <<x, z>> \in R
    BY <1>2
  <2>3. \A x, y \in M : x = y \/ <<x, y>> \in R \/ <<y, x>> \in R
    <3> SUFFICES ASSUME NEW x \in M, NEW y \in M
                 PROVE  x = y \/ <<x, y>> \in R \/ <<y, x>> \in R
      OBVIOUS
    <3>1. x \in Nat /\ y \in Nat
      OBVIOUS
    <3>2. x = y \/ x < y \/ y < x
      BY <3>1
    <3> QED BY <1>2, <3>2
  <2> QED BY <2>1, <2>2, <2>3, Ranked
<1>4. ASSUME NEW b \in M PROVE rank[b] = Earlier(M, b) + 1
  <2> DEFINE E == {a \in M : a < b}
  <2>1. {a \in M : a = b \/ <<a, b>> \in R} = E \cup {b}
    <3> HIDE DEF R
    <3> QED BY <1>2
  <2>2. IsFiniteSet(E) /\ b \notin E
    BY FS_Subset
  <2>3. Cardinality(E \cup {b}) = Cardinality(E) + 1
    <3> HIDE DEF E
    <3> QED BY <2>2, FS_AddElement
  <2> QED BY <2>1, <2>3 DEF Earlier
<1>5. \A b \in M : Earlier(M, b) \in Nat
  <2> SUFFICES ASSUME NEW b \in M PROVE Earlier(M, b) \in Nat
    OBVIOUS
  <2>1. IsFiniteSet({a \in M : a < b})
    BY FS_Subset
  <2> QED BY <2>1, FS_CardinalityType DEF Earlier
<1> HIDE DEF rank, R
<1>6. /\ \A b \in M : rank[b] \in 1 .. n
      /\ \A i \in 1 .. n : \E b \in M : rank[b] = i
      /\ \A b, c \in M : b < c => rank[b] < rank[c]
  BY <1>2, <1>3 DEF IsRanking
<1>7. \A b \in M : Earlier(M, b) \in 0 .. n - 1
  BY <1>1, <1>4, <1>5, <1>6
<1>8. ASSUME NEW i \in 0 .. n - 1 PROVE \E b \in M : Earlier(M, b) = i
  <2>1. i + 1 \in 1 .. n
    BY <1>1
  <2>2. PICK b \in M : rank[b] = i + 1
    BY <1>6, <2>1
  <2> QED BY <1>4, <1>5, <2>2
<1>9. \A b, c \in M : Earlier(M, b) = Earlier(M, c) => b = c
  BY <1>4, <1>5, <1>6
<1> QED BY <1>1, <1>7, <1>8, <1>9

\* Pieces of the branches of M, c chapters together, of one request each.
Cut(pieces, M, c) ==
  /\ pieces \in Seq(SUBSET M)
  /\ \A i \in DOMAIN pieces : pieces[i] # {} /\ Cardinality(pieces[i]) <= ChapterBranches
  /\ \A b \in M : \E i \in DOMAIN pieces : b \in pieces[i]
  /\ \A i, j \in DOMAIN pieces : i # j => pieces[i] \cap pieces[j] = {}
  /\ Len(pieces) <= Cardinality(M)
  /\ ChapterBranches * Len(pieces) <= Cardinality(M) + ChapterBranches * c

LEMMA WidthIsPositive == ChapterBranches \in Nat \ {0}
BY PlanningAssumption

\* A chapter is cut into runs of consecutive branches.
LEMMA RunsCut ==
  ASSUME NEW M \in SUBSET Nat, IsFiniteSet(M)
  PROVE  Cut(Runs(M), M, 1)
<1> DEFINE k == ChapterBranches
           n == Cardinality(M)
           last == (n + k - 1) \div k
           run(i) == {b \in M : Earlier(M, b) \div k = i - 1}
<1>1. /\ n \in Nat
      /\ \A b \in M : Earlier(M, b) \in 0 .. n - 1
      /\ \A i \in 0 .. n - 1 : \E b \in M : Earlier(M, b) = i
      /\ \A b, c \in M : Earlier(M, b) = Earlier(M, c) => b = c
  BY PlacesInOrder
<1>2. k \in Nat \ {0}
  BY WidthIsPositive
<1>3. last \in Nat /\ k * last <= n + k - 1 /\ n + k - 1 < k * last + k
  <2>1. n + k - 1 \in Nat
    BY <1>1, <1>2
  <2> HIDE DEF k, n
  <2> QED BY <1>2, <2>1, DivExact
<1>4. Runs(M) = [i \in 1 .. last |-> run(i)]
  BY DEF Runs, Earlier
<1> HIDE DEF k, n, last
<1>5. \A b \in M : /\ Earlier(M, b) \in Nat /\ Earlier(M, b) < n
                   /\ Earlier(M, b) \div k \in Nat
                   /\ k * (Earlier(M, b) \div k) <= Earlier(M, b)
                   /\ Earlier(M, b) < k * (Earlier(M, b) \div k) + k
  <2> SUFFICES ASSUME NEW b \in M, NEW e, e = Earlier(M, b)
               PROVE  e \in Nat /\ e < n /\ e \div k \in Nat /\ k * (e \div k) <= e
                      /\ e < k * (e \div k) + k
    OBVIOUS
  <2>1. e \in Nat /\ e < n
    BY <1>1
  <2> QED BY <1>2, <2>1, DivExact
<1>6. ASSUME NEW i \in 1 .. last
      PROVE  run(i) \subseteq M /\ run(i) # {} /\ Cardinality(run(i)) <= k
  <2>1. i \in Nat /\ i >= 1 /\ i <= last
    BY <1>3
  <2>2. k * (i - 1) \in Nat /\ k * (i - 1) <= n - 1
    <3>1. k * i <= k * last
      BY <1>2, <1>3, <2>1
    <3>2. k * (i - 1) = k * i - k
      BY <1>2, <2>1
    <3>3. k * (i - 1) \in Nat
      BY <1>2, <2>1
    <3>4. k * i \in Nat /\ k * last \in Nat
      BY <1>2, <1>3, <2>1
    <3> QED BY <1>1, <1>2, <1>3, <3>1, <3>2, <3>3, <3>4
  <2>3. k * (i - 1) \in 0 .. n - 1
    BY <1>1, <2>2
  <2>4. PICK b \in M : Earlier(M, b) = k * (i - 1)
    BY <1>1, <2>3
  <2>5. (k * (i - 1)) \div k = i - 1
    <3> DEFINE m == i - 1
    <3>1. m \in Nat
      BY <2>1
    <3> HIDE DEF m
    <3>2. (k * m) \div k = m
      <4> DEFINE q == (k * m) \div k
      <4>1. k * m \in Nat
        BY <1>2, <3>1
      <4>2. q \in Nat /\ k * q <= k * m /\ k * m < k * q + k
        BY <1>2, <4>1, DivExact
      <4> HIDE DEF q
      <4>3. ~(q > m)
        BY <1>2, <3>1, <4>2
      <4>4. ~(m > q)
        BY <1>2, <3>1, <4>2
      <4>5. q = m
        BY <3>1, <4>2, <4>3, <4>4
      <4> QED BY <4>5 DEF q
    <3> QED BY <3>2 DEF m
  <2>6. b \in run(i)
    BY <2>4, <2>5
  <2>7. Cardinality(run(i)) <= k
    <3> DEFINE from == k * (i - 1)
               T == from .. from + k - 1
               f == [c \in run(i) |-> Earlier(M, c)]
    <3>1. IsFiniteSet(T) /\ Cardinality(T) = k
      <4>1. from \in Int /\ from + k - 1 \in Int /\ ~(from > from + k - 1)
        BY <1>2, <2>2
      <4>2. (from + k - 1) - from + 1 = k
        BY <1>2, <2>2
      <4> HIDE DEF from
      <4> QED BY <4>1, <4>2, FS_Interval
    <3>2. f \in Injection(run(i), T)
      <4>1. \A c \in run(i) : Earlier(M, c) \in T
        <5> SUFFICES ASSUME NEW c \in run(i), NEW e, e = Earlier(M, c) PROVE e \in T
          OBVIOUS
        <5>1. e \in Nat /\ k * (i - 1) <= e /\ e < k * (i - 1) + k
          BY <1>5
        <5> HIDE DEF from
        <5>2. from \in Nat /\ from <= e /\ e < from + k
          BY <2>2, <5>1 DEF from
        <5> QED BY <1>2, <5>1, <5>2
      <4>2. \A c, d \in run(i) : f[c] = f[d] => c = d
        BY <1>1
      <4> HIDE DEF T, run
      <4> QED BY <4>1, <4>2 DEF Injection, IsInjective
    <3> HIDE DEF T, f, run
    <3> QED BY <3>1, <3>2, FS_Injection
  <2> QED BY <2>6, <2>7
<1>7. \A b \in M : \E i \in 1 .. last : b \in run(i)
  <2> SUFFICES ASSUME NEW b \in M PROVE \E i \in 1 .. last : b \in run(i)
    OBVIOUS
  <2> DEFINE q == Earlier(M, b) \div k
  <2>1. q \in Nat /\ k * q <= n - 1
    <3> DEFINE e == Earlier(M, b)
    <3>1. e \in Nat /\ e < n /\ q \in Nat /\ k * q <= e
      BY <1>5
    <3>2. k * q \in Nat
      <4> HIDE DEF q
      <4> QED BY <1>2, <3>1
    <3> HIDE DEF q, e
    <3> QED BY <1>1, <3>1, <3>2
  <2>2. q < last
    <3> HIDE DEF q
    <3>1. k * q < k * last
      BY <1>1, <1>2, <1>3, <2>1
    <3> QED BY <1>2, <1>3, <2>1, <3>1
  <2>3. q + 1 \in 1 .. last /\ (q + 1) - 1 = q
    <3> HIDE DEF q
    <3> QED BY <1>3, <2>1, <2>2
  <2>4. b \in run(q + 1)
    BY <2>3
  <2> HIDE DEF q, run
  <2> QED BY <2>3, <2>4
<1>8. \A i, j \in 1 .. last : i # j => run(i) \cap run(j) = {}
  <2> SUFFICES ASSUME NEW i \in 1 .. last, NEW j \in 1 .. last, NEW b \in run(i), b \in run(j)
               PROVE  i = j
    OBVIOUS
  <2>1. i - 1 = j - 1
    OBVIOUS
  <2> QED BY <1>3, <2>1
<1>9. last <= n
  <2>1. CASE n = 0
    <3>1. k * last <= k - 1
      BY <1>2, <1>3, <2>1
    <3> QED BY <1>2, <1>3, <2>1, <3>1
  <2>2. CASE n > 0
    <3>1. k * last < k * (n + 1)
      BY <1>1, <1>2, <1>3, <2>2
    <3> QED BY <1>1, <1>2, <1>3, <3>1
  <2> QED BY <1>1, <2>1, <2>2
<1>10. k * last <= n + k * 1
  BY <1>1, <1>2, <1>3
<1>11. Runs(M) \in Seq(SUBSET M) /\ Len(Runs(M)) = last /\ DOMAIN Runs(M) = 1 .. last
  <2> HIDE DEF run
  <2>1. Runs(M) \in [1 .. last -> SUBSET M]
    BY <1>4, <1>6
  <2>2. Runs(M) \in Seq(SUBSET M)
    BY <1>3, <2>1, SeqDef
  <2> QED BY <1>3, <2>1, <2>2, LenProperties
<1>12. \A i \in 1 .. last : Runs(M)[i] = run(i)
  BY <1>4
<1> HIDE DEF run
<1> DEFINE pieces == Runs(M)
<1>13. pieces \in Seq(SUBSET M) /\ Len(pieces) = last /\ DOMAIN pieces = 1 .. last
  BY <1>11
<1>14. \A i \in 1 .. last : pieces[i] = run(i)
  BY <1>12
<1> HIDE DEF pieces
<1>15. \A i \in DOMAIN pieces : pieces[i] # {} /\ Cardinality(pieces[i]) <= k
  BY <1>6, <1>13, <1>14
<1>16. \A b \in M : \E i \in DOMAIN pieces : b \in pieces[i]
  BY <1>7, <1>13, <1>14
<1>17. \A i, j \in DOMAIN pieces : i # j => pieces[i] \cap pieces[j] = {}
  BY <1>8, <1>13, <1>14
<1>18. Cut(pieces, M, 1)
  BY <1>9, <1>10, <1>13, <1>15, <1>16, <1>17 DEF Cut, k, n
<1> QED BY <1>18 DEF pieces

\* No two of the sets have a member together.
Separate(sets) == \A c, d \in DOMAIN sets : c # d => sets[c] \cap sets[d] = {}

LEMMA CutBoth ==
  ASSUME NEW M, NEW N, IsFiniteSet(M), IsFiniteSet(N), M \cap N = {},
         NEW c \in Nat, NEW d \in Nat, NEW s, NEW t, Cut(s, M, c), Cut(t, N, d)
  PROVE  Cut(s \o t, M \cup N, c + d)
<1> DEFINE k == ChapterBranches
           both == s \o t
<1>1. k \in Nat \ {0}
  BY WidthIsPositive
<1>2. /\ s \in Seq(SUBSET M) /\ Len(s) \in Nat /\ DOMAIN s = 1 .. Len(s)
      /\ t \in Seq(SUBSET N) /\ Len(t) \in Nat /\ DOMAIN t = 1 .. Len(t)
  BY LenProperties DEF Cut
<1>3. s \in Seq(SUBSET (M \cup N)) /\ t \in Seq(SUBSET (M \cup N))
  <2>1. SUBSET M \subseteq SUBSET (M \cup N) /\ SUBSET N \subseteq SUBSET (M \cup N)
    OBVIOUS
  <2> QED BY <1>2, <2>1, SeqMonotonic
<1>4. /\ both \in Seq(SUBSET (M \cup N)) /\ Len(both) = Len(s) + Len(t)
      /\ \A i \in 1 .. Len(s) + Len(t) :
           both[i] = IF i <= Len(s) THEN s[i] ELSE t[i - Len(s)]
  BY <1>3, ConcatProperties
<1>5. DOMAIN both = 1 .. Len(s) + Len(t)
  <2> HIDE DEF both
  <2> QED BY <1>4, LenProperties
<1> HIDE DEF both, k
<1>6. ASSUME NEW i \in DOMAIN both
      PROVE  \/ i \in 1 .. Len(s) /\ both[i] = s[i]
             \/ i - Len(s) \in 1 .. Len(t) /\ both[i] = t[i - Len(s)]
  <2>1. both[i] = IF i <= Len(s) THEN s[i] ELSE t[i - Len(s)]
    BY <1>4, <1>5
  <2>2. IF i <= Len(s) THEN i \in 1 .. Len(s) ELSE i - Len(s) \in 1 .. Len(t)
    BY <1>2, <1>5
  <2> QED BY <2>1, <2>2
<1>7. \A i \in 1 .. Len(s) : i \in DOMAIN both /\ both[i] = s[i]
  BY <1>2, <1>4, <1>5
<1>8. \A i \in 1 .. Len(t) : i + Len(s) \in DOMAIN both /\ both[i + Len(s)] = t[i]
  <2> SUFFICES ASSUME NEW i \in 1 .. Len(t)
               PROVE  i + Len(s) \in DOMAIN both /\ both[i + Len(s)] = t[i]
    OBVIOUS
  <2> DEFINE j == i + Len(s)
  <2>1. j \in 1 .. Len(s) + Len(t) /\ ~(j <= Len(s)) /\ j - Len(s) = i
    BY <1>2
  <2> HIDE DEF j
  <2>2. both[j] = t[i]
    BY <1>4, <2>1
  <2> QED BY <1>5, <2>1, <2>2 DEF j
<1>9. /\ \A i \in 1 .. Len(s) : s[i] \subseteq M /\ s[i] # {} /\ Cardinality(s[i]) <= k
      /\ \A i \in 1 .. Len(t) : t[i] \subseteq N /\ t[i] # {} /\ Cardinality(t[i]) <= k
  <2>1. /\ \A i \in 1 .. Len(s) : s[i] \in SUBSET M
        /\ \A i \in 1 .. Len(t) : t[i] \in SUBSET N
    BY <1>2, ElementOfSeq
  <2> QED BY <1>2, <2>1 DEF Cut, k
<1>10. \A i \in DOMAIN both : both[i] # {} /\ Cardinality(both[i]) <= k
  BY <1>6, <1>9
<1>11. ASSUME NEW b \in M \cup N PROVE \E i \in DOMAIN both : b \in both[i]
  <2>1. CASE b \in M
    BY <1>2, <1>7, <2>1 DEF Cut
  <2>2. CASE b \in N
    <3>1. PICK i \in 1 .. Len(t) : b \in t[i]
      BY <1>2, <2>2 DEF Cut
    <3> QED BY <1>8, <3>1
  <2> QED BY <2>1, <2>2
<1>12. ASSUME NEW i \in DOMAIN both, NEW j \in DOMAIN both, i # j
       PROVE  both[i] \cap both[j] = {}
  <2>1. CASE i \in 1 .. Len(s) /\ j \in 1 .. Len(s) /\ both[i] = s[i] /\ both[j] = s[j]
    BY <1>2, <1>12, <2>1 DEF Cut
  <2>2. CASE /\ i - Len(s) \in 1 .. Len(t) /\ both[i] = t[i - Len(s)]
             /\ j - Len(s) \in 1 .. Len(t) /\ both[j] = t[j - Len(s)]
    <3>1. i - Len(s) # j - Len(s)
      BY <1>2, <1>5, <1>12
    <3>2. t[i - Len(s)] \cap t[j - Len(s)] = {}
      BY <1>2, <2>2, <3>1 DEF Cut
    <3> QED BY <2>2, <3>2
  <2>3. CASE both[i] \subseteq M /\ both[j] \subseteq N
    BY <2>3
  <2>4. CASE both[i] \subseteq N /\ both[j] \subseteq M
    BY <2>4
  <2> QED BY <1>6, <1>9, <2>1, <2>2, <2>3, <2>4
<1>13. Len(both) <= Cardinality(M \cup N)
       /\ k * Len(both) <= Cardinality(M \cup N) + k * (c + d)
  <2> DEFINE m == Cardinality(M)
             n == Cardinality(N)
  <2>1. Cardinality(M \cup N) = m + n /\ m \in Nat /\ n \in Nat
    BY UnionOfBoth
  <2>2. /\ Len(s) <= m /\ k * Len(s) <= m + k * c
        /\ Len(t) <= n /\ k * Len(t) <= n + k * d
    BY DEF Cut, k
  <2> HIDE DEF m, n
  <2>3. /\ k * (Len(s) + Len(t)) = k * Len(s) + k * Len(t)
        /\ k * (c + d) = k * c + k * d
    BY <1>1, <1>2
  <2>4. k * Len(s) \in Nat /\ k * Len(t) \in Nat /\ k * c \in Nat /\ k * d \in Nat
    BY <1>1, <1>2
  <2> DEFINE a == k * Len(s)
             b == k * Len(t)
             e == k * c
             f == k * d
  <2>5. k * Len(both) = a + b /\ k * (c + d) = e + f
    BY <1>4, <2>3
  <2>6. a <= m + e /\ b <= n + f /\ a \in Nat /\ b \in Nat /\ e \in Nat /\ f \in Nat
    BY <2>2, <2>4
  <2> HIDE DEF a, b, e, f
  <2>7. Len(both) <= m + n
    BY <1>2, <1>4, <2>1, <2>2
  <2>8. a + b <= (m + n) + (e + f)
    BY <2>1, <2>6
  <2> QED BY <2>1, <2>5, <2>7, <2>8
<1> QED BY <1>4, <1>10, <1>11, <1>12, <1>13 DEF Cut, k, both

\* The batches of separate chapters.
LEMMA AllCut ==
  ASSUME NEW B \in SUBSET Nat, IsFiniteSet(B), NEW sets \in Seq(SUBSET B), Separate(sets)
  PROVE  Cut(FlattenSeq([c \in DOMAIN sets |-> Runs(sets[c])]), UNION Range(sets), Len(sets))
<1> DEFINE S == SUBSET B
           F == [m \in S |-> Runs(m)]
           G == {s \in Seq(S) : Separate(s) => Cut(Flat(F, s), UNION Range(s), Len(s))}
<1>1. \A m \in S : m \in SUBSET Nat /\ IsFiniteSet(m) /\ Cut(Runs(m), m, 1)
  BY FS_Subset, RunsCut
<1>2. Maps(F, S, S)
  <2>1. ASSUME NEW m \in S PROVE Runs(m) \in Seq(S)
    <3>1. SUBSET m \subseteq S
      OBVIOUS
    <3> QED BY <1>1, <3>1, SeqMonotonic DEF Cut
  <2> QED BY <2>1 DEF Maps
<1>3. \A m \in S : F[m] = Runs(m)
  OBVIOUS
<1>4. <<>> \in G
  <2>1. Range(<<>>) = {} /\ <<>> \in Seq(S) /\ UNION {} = {} /\ Len(<<>>) = 0
    BY EmptySeq DEF Range
  <2>2. Flat(F, <<>>) = <<>>
    BY FlatEmpty
  <2>3. Cut(<<>>, {}, 0)
    <3>1. <<>> \in Seq(SUBSET {}) /\ Len(<<>>) = 0 /\ DOMAIN <<>> = {}
      BY EmptySeq
    <3>2. Cardinality({}) = 0 /\ ChapterBranches * 0 = 0
      BY FS_EmptySet, WidthIsPositive
    <3> QED BY <3>1, <3>2 DEF Cut
  <2> HIDE DEF F, S
  <2> QED BY <2>1, <2>2, <2>3
<1>5. ASSUME NEW s \in Seq(S), NEW x \in S, s \in G PROVE Append(s, x) \in G
  <2> DEFINE t == Append(s, x)
  <2>1. /\ t \in Seq(S) /\ Len(t) = Len(s) + 1 /\ Len(s) \in Nat
        /\ DOMAIN s = 1 .. Len(s) /\ DOMAIN t = 1 .. Len(s) + 1
        /\ \A i \in 1 .. Len(s) : t[i] = s[i] /\ s[i] \in S
        /\ t[Len(s) + 1] = x
    BY AppendProperties, LenProperties, ElementOfSeq
  <2> SUFFICES ASSUME Separate(t) PROVE Cut(Flat(F, t), UNION Range(t), Len(t))
    BY <2>1
  <2> DEFINE M == UNION Range(s)
  <2> HIDE DEF t
  <2>2. Separate(s) /\ \A i \in 1 .. Len(s) : s[i] \cap x = {}
    <3>1. \A i \in 1 .. Len(s) : i \in DOMAIN t /\ t[i] = s[i] /\ i # Len(s) + 1
      BY <2>1
    <3>2. Len(s) + 1 \in DOMAIN t
      BY <2>1
    <3> QED BY <2>1, <3>1, <3>2 DEF Separate
  <2>3. Cut(Flat(F, s), M, Len(s))
    BY <1>5, <2>2
  <2>4. M \in S /\ M \cap x = {} /\ UNION Range(t) = M \cup x
    <3>1. \A b : b \in M <=> \E i \in 1 .. Len(s) : b \in s[i]
      BY <2>1 DEF Range
    <3>2. \A b : b \in UNION Range(t) <=> \E i \in 1 .. Len(s) + 1 : b \in t[i]
      BY <2>1 DEF Range
    <3>3. \A i \in 1 .. Len(s) + 1 : i \in 1 .. Len(s) \/ i = Len(s) + 1
      BY <2>1
    <3>4. \A i \in 1 .. Len(s) : i \in 1 .. Len(s) + 1
      BY <2>1
    <3>5. Len(s) + 1 \in 1 .. Len(s) + 1
      BY <2>1
    <3> HIDE DEF M
    <3>6. M \in S /\ M \cap x = {}
      BY <2>1, <2>2, <3>1
    <3>7. UNION Range(t) = M \cup x
      BY <2>1, <3>1, <3>2, <3>3, <3>4, <3>5
    <3> QED BY <3>6, <3>7
  <2>5. Flat(F, t) = Flat(F, s) \o Runs(x)
    <3> HIDE DEF F, S
    <3>1. Flat(F, t) = Flat(F, s) \o F[x]
      BY <1>2, FlatAppend DEF t
    <3> QED BY <1>3, <3>1
  <2>6. IsFiniteSet(M) /\ IsFiniteSet(x)
    BY <1>1, <2>4
  <2> HIDE DEF F, S, M
  <2>7. Cut(Flat(F, s) \o Runs(x), M \cup x, Len(s) + 1)
    BY <1>1, <2>1, <2>3, <2>4, <2>6, CutBoth
  <2> QED BY <2>1, <2>4, <2>5, <2>7
<1>6. sets \in G
  <2> HIDE DEF G, S
  <2> QED BY <1>4, <1>5, ByAppending DEF S
<1>7. Flat(F, sets) = FlattenSeq([c \in DOMAIN sets |-> Runs(sets[c])])
  <2>1. \A c \in DOMAIN sets : sets[c] \in S
    BY LenProperties, ElementOfSeq
  <2>2. [c \in DOMAIN sets |-> F[sets[c]]] = [c \in DOMAIN sets |-> Runs(sets[c])]
    BY <2>1
  <2> QED BY <2>2 DEF Flat
<1> HIDE DEF F
<1> QED BY <1>6, <1>7

-----------------------------------------------------------------------------
(* chapter_shares: the sections of a division's requests. *)

\* So many requests, each with some sections.
SharesOf(m) == [1 .. m -> Nat \ {0}]

LEMMA SlotsAreFinite ==
  ASSUME NEW m \in Nat, NEW shares \in [1 .. m -> Nat]
  PROVE  IsFiniteSet(Slots(shares)) /\ Total(shares) \in Nat
<1> DEFINE Of(i) == {i} \X (1 .. shares[i])
           First(n) == UNION {Of(i) : i \in 1 .. n}
           G == {n \in 0 .. m : IsFiniteSet(First(n))}
<1>1. 0 \in G
  <2>1. First(0) = {}
    OBVIOUS
  <2>2. IsFiniteSet(First(0))
    BY <2>1, FS_EmptySet
  <2> QED BY <2>2
<1>2. ASSUME NEW n \in 0 .. m - 1, n \in G PROVE n + 1 \in G
  <2>1. n + 1 \in 1 .. m /\ n + 1 \in 0 .. m
        /\ \A i : i \in 1 .. n + 1 <=> i \in 1 .. n \/ i = n + 1
    OBVIOUS
  <2>2. First(n + 1) = First(n) \cup Of(n + 1)
    <3> HIDE DEF Of
    <3> QED BY <2>1
  <2>3. IsFiniteSet(Of(n + 1))
    <3>1. shares[n + 1] \in Nat
      BY <2>1
    <3>2. IsFiniteSet(1 .. shares[n + 1])
      BY <3>1, FS_Interval
    <3>3. IsFiniteSet({n + 1})
      BY FS_Singleton
    <3> QED BY <3>2, <3>3, FS_Product
  <2>4. IsFiniteSet(First(n + 1))
    <3> DEFINE a == First(n)
               b == Of(n + 1)
    <3>1. IsFiniteSet(a) /\ IsFiniteSet(b)
      BY <1>2, <2>3
    <3> HIDE DEF a, b
    <3>2. IsFiniteSet(a \cup b)
      BY <3>1, FS_Union
    <3> QED BY <2>2, <3>2 DEF a, b
  <2> QED BY <2>1, <2>4
<1> HIDE DEF G
<1>3. \A n \in 0 .. m : n \in G
  BY <1>1, <1>2, UpTo
<1>4. First(m) = Slots(shares)
  BY DEF Slots
<1>5. IsFiniteSet(Slots(shares))
  BY <1>3, <1>4 DEF G
<1> QED BY <1>5, FS_CardinalityType DEF Total

\* As many sections as requests are one for each.
LEMMA OneEach ==
  ASSUME NEW m \in Nat, NEW shares \in SharesOf(m), Total(shares) > m
  PROVE  \E i \in 1 .. m : shares[i] > 1
<1> SUFFICES ASSUME \A i \in 1 .. m : ~(shares[i] > 1) PROVE Total(shares) <= m
  <2>1. Total(shares) \in Nat
    BY SlotsAreFinite DEF SharesOf
  <2> QED BY <2>1
<1>1. \A i \in 1 .. m : shares[i] = 1
  BY DEF SharesOf
<1>2. Slots(shares) \subseteq (1 .. m) \X {1}
  <2> SUFFICES ASSUME NEW slot \in Slots(shares) PROVE slot \in (1 .. m) \X {1}
    OBVIOUS
  <2>1. DOMAIN shares = 1 .. m
    BY DEF SharesOf
  <2>2. PICK i \in 1 .. m : slot \in {i} \X (1 .. shares[i])
    BY <2>1 DEF Slots
  <2>3. shares[i] = 1
    BY <1>1
  <2>4. slot \in {i} \X (1 .. 1)
    BY <2>2, <2>3
  <2> QED BY <2>4
<1>3. IsFiniteSet((1 .. m) \X {1}) /\ Cardinality((1 .. m) \X {1}) = m
  <2>1. IsFiniteSet(1 .. m) /\ Cardinality(1 .. m) = m
    <3>1. 1 \in Int /\ m \in Int /\ (m - 1 + 1 = m) /\ (1 > m => m = 0)
      OBVIOUS
    <3> QED BY <3>1, FS_Interval
  <2>2. IsFiniteSet({1}) /\ Cardinality({1}) = 1
    BY FS_Singleton
  <2> DEFINE D == 1 .. m
             O == {1}
  <2> HIDE DEF D, O
  <2>3. IsFiniteSet(D \X O) /\ Cardinality(D \X O) = Cardinality(D) * Cardinality(O)
    BY <2>1, <2>2, FS_Product DEF D, O
  <2>4. Cardinality(D) * Cardinality(O) = m
    BY <2>1, <2>2 DEF D, O
  <2> QED BY <2>3, <2>4 DEF D, O
<1> QED BY <1>2, <1>3, FS_Subset DEF Total

\* The largest share gives one back.
LEMMA LoweredByOne ==
  ASSUME NEW m \in Nat, NEW shares \in SharesOf(m), NEW total \in Nat, m <= total
  PROVE  /\ Lowered(total, shares) \in SharesOf(m)
         /\ \/ Total(shares) <= total /\ Lowered(total, shares) = shares
            \/ Total(Lowered(total, shares)) = Total(shares) - 1
<1> DEFINE most == {i \in 1 .. m : /\ shares[i] > 1
                                   /\ \A j \in 1 .. m : shares[j] <= shares[i]}
           n == Total(shares)
<1>1. /\ n \in Nat /\ DOMAIN shares = 1 .. m /\ \A i \in 1 .. m : shares[i] \in Nat \ {0}
      /\ IsFiniteSet(Slots(shares))
  BY SlotsAreFinite DEF SharesOf
<1>2. Lowered(total, shares) =
        IF n <= total \/ most = {} THEN shares ELSE [shares EXCEPT ![Max(most)] = @ - 1]
  BY <1>1 DEF Lowered
<1>3. CASE n <= total
  BY <1>2, <1>3
<1>4. CASE ~(n <= total)
  <2>1. \E i \in 1 .. m : shares[i] > 1
    <3>1. n > m
      BY <1>1, <1>4
    <3> QED BY <3>1, OneEach
  <2>2. PICK i \in 1 .. m : shares[i] > 1
    BY <2>1
  <2>3. IsFiniteSet(1 .. m)
    BY FS_Interval
  <2>4. PICK top \in 1 .. m : \A j \in 1 .. m : ~(shares[j] > shares[top])
    <3> DEFINE R == {p \in (1 .. m) \X (1 .. m) : shares[p[1]] > shares[p[2]]}
    <3>1. \A x, y \in 1 .. m : <<x, y>> \in R <=> shares[x] > shares[y]
      OBVIOUS
    <3> HIDE DEF R
    <3>2. \A x \in 1 .. m : <<x, x>> \notin R
      BY <1>1, <3>1
    <3>3. \A x, y, z \in 1 .. m : <<x, y>> \in R /\ <<y, z>> \in R => <<x, z>> \in R
      <4> SUFFICES ASSUME NEW x \in 1 .. m, NEW y \in 1 .. m, NEW z \in 1 .. m,
                          shares[x] > shares[y], shares[y] > shares[z]
                   PROVE  shares[x] > shares[z]
        BY <3>1
      <4> QED BY <1>1
    <3>4. 1 .. m # {}
      BY <2>2
    <3>5. \E t \in 1 .. m : \A j \in 1 .. m : <<j, t>> \notin R
      <4> DEFINE D == 1 .. m
      <4>1. /\ IsFiniteSet(D) /\ D # {} /\ \A x \in D : <<x, x>> \notin R
            /\ \A x, y, z \in D : <<x, y>> \in R /\ <<y, z>> \in R => <<x, z>> \in R
        BY <2>3, <3>2, <3>3, <3>4
      <4> HIDE DEF D
      <4>2. \E t \in D : \A j \in D : <<j, t>> \notin R
        BY <4>1, MinimalElement
      <4> QED BY <4>2 DEF D
    <3> QED BY <3>1, <3>5
  <2>5. top \in most
    <3>1. \A j \in 1 .. m : shares[j] <= shares[top]
      BY <1>1, <2>4
    <3>2. shares[top] > 1
      BY <1>1, <2>2, <3>1
    <3> QED BY <3>1, <3>2
  <2> DEFINE last == Max(most)
             after == [shares EXCEPT ![last] = @ - 1]
  <2>6. last \in 1 .. m /\ shares[last] > 1
    <3>1. IsFiniteSet(most) /\ most # {} /\ most \subseteq Int
      BY <2>3, <2>5, FS_Subset
    <3>2. last \in most
      <4> HIDE DEF most
      <4> QED BY <3>1, MaxIsLargest
    <3> HIDE DEF last
    <3> QED BY <3>2
  <2>7. Lowered(total, shares) = after
    BY <1>2, <1>4, <2>5
  <2> HIDE DEF most, last
  <2>8. /\ DOMAIN after = 1 .. m /\ after[last] = shares[last] - 1
        /\ \A j \in 1 .. m : j # last => after[j] = shares[j]
    BY <1>1, <2>6
  <2>9. after \in SharesOf(m)
    <3>1. \A j \in 1 .. m : after[j] \in Nat \ {0}
      BY <1>1, <2>6, <2>8
    <3>2. after = [j \in 1 .. m |-> after[j]]
      BY <1>1
    <3> HIDE DEF after
    <3> QED BY <3>1, <3>2 DEF SharesOf
  <2>10. Slots(after) = Slots(shares) \ {<<last, shares[last]>>}
    <3> HIDE DEF after
    <3>1. \A slot : slot \in Slots(shares)
                     <=> \E j \in 1 .. m : \E s \in 1 .. shares[j] : slot = <<j, s>>
      BY <1>1 DEF Slots
    <3>2. \A slot : slot \in Slots(after)
                     <=> \E j \in 1 .. m : \E s \in 1 .. after[j] : slot = <<j, s>>
      BY <2>8 DEF Slots
    <3>3. \A j \in 1 .. m : \A s : s \in 1 .. after[j]
                                   <=> s \in 1 .. shares[j] /\ ~(j = last /\ s = shares[last])
      <4> SUFFICES ASSUME NEW j \in 1 .. m, NEW s
                   PROVE  s \in 1 .. after[j]
                            <=> s \in 1 .. shares[j] /\ ~(j = last /\ s = shares[last])
        OBVIOUS
      <4>1. CASE j = last
        <5>1. after[j] = shares[j] - 1 /\ shares[j] \in Nat
          BY <1>1, <2>8, <4>1
        <5> QED BY <4>1, <5>1
      <4>2. CASE j # last
        BY <2>8, <4>2
      <4> QED BY <4>1, <4>2
    <3> QED BY <3>1, <3>2, <3>3
  <2>11. <<last, shares[last]>> \in Slots(shares)
    <3>1. shares[last] \in 1 .. shares[last]
      BY <1>1, <2>6
    <3> QED BY <1>1, <2>6, <3>1 DEF Slots
  <2>12. Cardinality(Slots(shares) \ {<<last, shares[last]>>}) = Cardinality(Slots(shares)) - 1
    BY <1>1, <2>11, FS_RemoveElement
  <2> QED BY <2>7, <2>9, <2>10, <2>12 DEF Total
<1> QED BY <1>3, <1>4

\* Where there is room for one section each, the shares come to fit.
LEMMA SharesFit ==
  ASSUME NEW m \in Nat, NEW weights \in [1 .. m -> Nat], NEW total \in Nat, m <= total
  PROVE  Shares(total, weights) \in SharesOf(m) /\ Total(Shares(total, weights)) <= total
<1> DEFINE S == SharesOf(m)
           all == Max({1, Total(weights)})
           first == [i \in DOMAIN weights |-> Max({1, (total * weights[i]) \div all})]
           n == Total(first)
           step == [s \in S |-> Lowered(total, s)]
           Next_(g) == [k \in 0 .. n |-> IF k = 0 THEN first ELSE Lowered(total, g[k - 1])]
           c == CHOOSE g : g = Next_(g)
<1>1. first \in S
  <2>1. all \in Nat \ {0}
    <3>1. Total(weights) \in Nat
      BY SlotsAreFinite
    <3>2. IsFiniteSet({1, Total(weights)}) /\ {1, Total(weights)} \subseteq Int
      <4>1. IsFiniteSet({1, Total(weights)})
        BY PairIsFinite
      <4>2. {1, Total(weights)} \subseteq Int
        BY <3>1
      <4> QED BY <4>1, <4>2
    <3>3. all \in {1, Total(weights)} /\ \A x \in {1, Total(weights)} : x <= all
      <4> DEFINE T == {1, Total(weights)}
      <4>1. T # {}
        OBVIOUS
      <4> HIDE DEF T
      <4> QED BY <3>2, <4>1, MaxIsLargest DEF T
    <3> HIDE DEF all
    <3> QED BY <3>1, <3>3
  <2> HIDE DEF all
  <2>2. ASSUME NEW x \in Nat PROVE Max({1, x}) \in Nat \ {0}
    <3> DEFINE T == {1, x}
    <3>1. IsFiniteSet({1} \cup {x})
      BY FS_Singleton, FS_Union
    <3>2. {1} \cup {x} = T
      OBVIOUS
    <3>3. T # {} /\ T \subseteq Int /\ 1 \in T /\ T \subseteq Nat
      OBVIOUS
    <3> HIDE DEF T
    <3>4. Max(T) \in T /\ 1 <= Max(T)
      BY <3>1, <3>2, <3>3, MaxIsLargest
    <3>5. Max(T) \in Nat
      BY <3>3, <3>4
    <3>6. Max(T) # 0
      BY <3>4
    <3> QED BY <3>5, <3>6 DEF T
  <2>3. ASSUME NEW i \in 1 .. m PROVE (total * weights[i]) \div all \in Nat
    <3>1. weights[i] \in Nat
      OBVIOUS
    <3> DEFINE x == total * weights[i]
    <3>2. x \in Nat
      BY <3>1
    <3> HIDE DEF x
    <3>3. x \div all \in Nat
      BY <2>1, <3>2
    <3> QED BY <3>3 DEF x
  <2> QED BY <2>2, <2>3 DEF SharesOf
<1>2. n \in Nat
  <2> HIDE DEF first
  <2>1. first \in [1 .. m -> Nat]
    BY <1>1 DEF SharesOf
  <2> QED BY <2>1, SlotsAreFinite
<1>3. \A s \in S : Lowered(total, s) \in S
  BY LoweredByOne
<1> HIDE DEF first, n
<1>4. PICK f \in [0 .. n -> S] : Repeated(f, n, first, step)
  <2>1. step \in [S -> S]
    BY <1>3
  <2> HIDE DEF step, S
  <2> QED BY <1>1, <1>2, <2>1, Repeats
<1>5. f = Next_(f)
  <2>1. ASSUME NEW k \in 0 .. n PROVE f[k] = IF k = 0 THEN first ELSE Lowered(total, f[k - 1])
    <3>1. CASE k = 0
      BY <1>4, <3>1 DEF Repeated
    <3>2. CASE k # 0
      <4>1. k - 1 \in 0 .. n - 1 /\ k - 1 \in 0 .. n /\ (k - 1) + 1 = k
        BY <1>2, <3>2
      <4>2. f[(k - 1) + 1] = step[f[k - 1]] /\ f[k - 1] \in S
        BY <1>4, <4>1 DEF Repeated
      <4> QED BY <3>2, <4>1, <4>2
    <3> QED BY <3>1, <3>2
  <2>2. f = [k \in 0 .. n |-> f[k]]
    OBVIOUS
  <2> QED BY <2>1, <2>2
<1>6. c = Next_(c)
  <2> HIDE DEF Next_
  <2> QED BY <1>5
<1>7. Shares(total, weights) = c[n]
  BY DEF Shares, n, first
<1> HIDE DEF c
<1>8. \A k \in 0 .. n : c[k] = IF k = 0 THEN first ELSE Lowered(total, c[k - 1])
  BY <1>6
<1> DEFINE G == {k \in 0 .. n : c[k] \in S /\ (Total(c[k]) <= total \/ Total(c[k]) <= n - k)}
<1>9. 0 \in G
  <2>1. c[0] = first /\ n - 0 = n /\ 0 \in 0 .. n
    BY <1>2, <1>8
  <2>2. Total(c[0]) <= n - 0
    BY <1>2, <2>1 DEF n
  <2> QED BY <1>1, <2>1, <2>2
<1>10. ASSUME NEW k \in 0 .. n - 1, k \in G PROVE k + 1 \in G
  <2>1. k + 1 \in 0 .. n /\ k + 1 # 0 /\ (k + 1) - 1 = k /\ k \in Nat
    BY <1>2
  <2>2. c[k + 1] = Lowered(total, c[k]) /\ c[k] \in S
    BY <1>8, <1>10, <2>1
  <2> DEFINE s == c[k]
  <2>3. s \in SharesOf(m) /\ (Total(s) <= total \/ Total(s) <= n - k)
    BY <1>10
  <2> HIDE DEF s
  <2>4. Total(s) \in Nat
    BY <2>3, SlotsAreFinite DEF SharesOf
  <2>5. /\ Lowered(total, s) \in SharesOf(m)
        /\ \/ Total(s) <= total /\ Lowered(total, s) = s
           \/ Total(Lowered(total, s)) = Total(s) - 1
    BY <2>3, LoweredByOne
  <2>6. Total(Lowered(total, s)) <= total \/ Total(Lowered(total, s)) <= n - (k + 1)
    BY <1>2, <2>1, <2>3, <2>4, <2>5
  <2> QED BY <2>1, <2>2, <2>5, <2>6 DEF s
<1> HIDE DEF G
<1>11. \A k \in 0 .. n : k \in G
  BY <1>2, <1>9, <1>10, UpTo
<1>12. n \in G /\ n - n = 0
  BY <1>2, <1>11
<1>13. c[n] \in S /\ (Total(c[n]) <= total \/ Total(c[n]) <= 0)
  BY <1>12 DEF G
<1>14. Total(c[n]) \in Nat
  <2> DEFINE s == c[n]
  <2> HIDE DEF s
  <2>1. s \in SharesOf(m)
    BY <1>13 DEF s
  <2>2. Total(s) \in Nat
    BY <2>1, SlotsAreFinite DEF SharesOf
  <2> QED BY <2>2 DEF s
<1> QED BY <1>7, <1>13, <1>14

-----------------------------------------------------------------------------
\* No byte of the source is read twice.
LEMMA WholeIsOnce == IsInjective(WholeSource)
<1> DEFINE n == Len(Passages)
           s == FirstPassages(n)
           seqs == [i \in DOMAIN s |-> PieceBytes[s[i]]]
<1>1. /\ n \in Nat /\ s \in Seq(Pieces) /\ Len(s) = n /\ DOMAIN Passages = 1 .. n
      /\ \A i \in 1 .. n : Passage(i) \in Pieces /\ Passages[i].of.size \in Nat
  <2>1. n \in Nat /\ n \in 0 .. n
    BY PassagesArePieces
  <2>2. DOMAIN Passages = 1 .. n
    BY PassagesKnown, LenProperties
  <2> QED BY <2>1, <2>2, PassagesArePieces
<1>2. DOMAIN s = 1 .. n /\ \A i \in 1 .. n : s[i] = Passage(i)
  BY DEF FirstPassages
<1> HIDE DEF s, n
<1>3. Maps(PieceBytes, Pieces, Nat \X Nat)
  BY PiecesHaveBytes
<1>4. seqs \in Seq(Seq(Nat \X Nat)) /\ DOMAIN seqs = 1 .. n
  <2>1. s \in Seq(Pieces)
    BY <1>1
  <2>2. seqs \in Seq(Seq(Nat \X Nat))
    BY <1>3, <2>1, MappedIsSeq
  <2> QED BY <1>2, <2>2
<1>5. ASSUME NEW i \in 1 .. n
      PROVE  seqs[i] = [b \in 1 .. Passages[i].of.size |-> <<Passages[i].at, 0 + b>>]
  <2>1. s[i] = Passage(i) /\ Passage(i) \in Pieces /\ i \in DOMAIN s
    BY <1>1, <1>2
  <2>2. seqs[i] = PieceBytes[Passage(i)]
    BY <2>1
  <2> DEFINE p == Passage(i)
  <2>3. p.at = Passages[i].at /\ p.from = 0 /\ p.size = Passages[i].of.size
    BY DEF Passage
  <2> HIDE DEF p
  <2>4. PieceBytes[p] = [b \in 1 .. p.size |-> <<p.at, p.from + b>>]
    BY <2>1 DEF PieceBytes, p
  <2> QED BY <2>2, <2>3, <2>4 DEF p
<1> HIDE DEF seqs
<1>6. \A i \in 1 .. n : IsInjective(seqs[i])
  <2> SUFFICES ASSUME NEW i \in 1 .. n, NEW b \in 1 .. Passages[i].of.size,
                      NEW c \in 1 .. Passages[i].of.size, seqs[i][b] = seqs[i][c]
               PROVE  b = c
    BY <1>5 DEF IsInjective
  <2>1. seqs[i][b] = <<Passages[i].at, 0 + b>> /\ seqs[i][c] = <<Passages[i].at, 0 + c>>
    BY <1>5
  <2> DEFINE k == Passages[i].at
             d == 0 + b
             e == 0 + c
  <2>2. d = e
    <3>1. <<k, d>> = <<k, e>>
      BY <2>1
    <3> HIDE DEF k, d, e
    <3> QED BY <3>1
  <2>3. b \in Nat /\ c \in Nat
    BY <1>1
  <2> QED BY <2>2, <2>3
<1>7. ASSUME NEW i \in 1 .. n, NEW j \in 1 .. n, i # j
      PROVE  Range(seqs[i]) \cap Range(seqs[j]) = {}
  <2> SUFFICES ASSUME NEW x \in Range(seqs[i]), x \in Range(seqs[j]) PROVE FALSE
    OBVIOUS
  <2>0. ASSUME NEW k \in 1 .. n, x \in Range(seqs[k]) PROVE x[1] = Passages[k].at
    <3>1. PICK b \in DOMAIN seqs[k] : x = seqs[k][b]
      BY <2>0 DEF Range
    <3>2. DOMAIN seqs[k] = 1 .. Passages[k].of.size
      BY <1>5
    <3>3. x = <<Passages[k].at, 0 + b>>
      BY <1>5, <3>1, <3>2
    <3> QED BY <3>3
  <2>1. x[1] = Passages[i].at
    BY <2>0
  <2>2. x[1] = Passages[j].at
    BY <2>0
  <2> QED BY <1>1, <1>7, <2>1, <2>2, PassagesKnown
<1>8. IsInjective(FlattenSeq(seqs))
  BY <1>4, <1>6, <1>7, FlattenApart DEF Apart
<1>9. WholeSource = FlattenSeq(seqs)
  BY <1>1, WholeIsAll, BytesAreFlat DEF Flat, s, n, seqs
<1> QED BY <1>8, <1>9

\* Leaves that hold the whole source are not alike.
LEMMA LeavesAreOnce == ASSUME NEW level, Whole(level) PROVE IsInjective(level)
<1> DEFINE packed == PartsIn(level)
<1>1. level \in Seq(LeafNodes) /\ packed \in Seq(Part) /\ packed = Flat(PartsOfNode, level)
  BY PartsAreFlat DEF Whole
<1>2. Bytes(packed) = WholeSource
  BY DEF Whole
<1> HIDE DEF packed
<1>3. packed \in Seq(Pieces)
  BY <1>1, PartsArePieces
<1>4. IsInjective(packed)
  <2>1. Maps(PieceBytes, Pieces, Nat \X Nat) /\ \A p \in Pieces : PieceBytes[p] # <<>>
    BY PiecesHaveBytes
  <2>2. Flat(PieceBytes, packed) = WholeSource
    BY <1>2, <1>3, BytesAreFlat
  <2>3. IsInjective(Flat(PieceBytes, packed))
    BY <2>2, WholeIsOnce
  <2> QED BY <1>3, <2>1, <2>3, FlatInjective
<1>5. Maps(PartsOfNode, LeafNodes, Part) /\ \A x \in LeafNodes : PartsOfNode[x] # <<>>
  BY PartsMap
<1>6. IsInjective(Flat(PartsOfNode, level))
  BY <1>1, <1>4
<1> QED BY <1>1, <1>5, <1>6, FlatInjective

\* The leaves below each node.
LeavesBelow(T) == [x \in T |-> LeavesUnder(<<x>>)]

LEMMA LeavesBelowMaps ==
  ASSUME NEW T, Closed(T)
  PROVE  /\ Maps(LeavesBelow(T), T, T)
         /\ \A x \in T : LeavesBelow(T)[x] # <<>>
<1> SUFFICES ASSUME NEW x \in T PROVE LeavesUnder(<<x>>) \in Seq(T) /\ LeavesUnder(<<x>>) # <<>>
  BY DEF Maps, LeavesBelow
<1> DEFINE s == <<x>>
           u == Unfolded(s)
<1>1. s \in Seq(T) /\ Len(s) = 1
  OBVIOUS
<1>2. Depth \in Nat
  BY DepthIsNat
<1> HIDE DEF s
<1>3. u \in [0 .. Depth -> Seq(T)] /\ u[0] = s /\ \A n \in 0 .. Depth - 1 : u[n + 1] = Expanded(u[n])
  BY <1>1, UnfoldedIs DEF Unfolding
<1> HIDE DEF u
<1> DEFINE G == {n \in 0 .. Depth : Len(u[n]) >= 1}
<1>4. 0 \in G
  <2>1. 0 \in 0 .. Depth /\ Len(u[0]) = 1
    BY <1>1, <1>2, <1>3
  <2> QED BY <2>1
<1>5. ASSUME NEW n \in 0 .. Depth - 1, n \in G PROVE n + 1 \in G
  <2>1. n \in 0 .. Depth /\ n + 1 \in 0 .. Depth
    BY <1>2
  <2> DEFINE l == u[n]
  <2>2. l \in Seq(T) /\ u[n + 1] = Expanded(l) /\ Len(l) >= 1
    BY <1>3, <1>5, <2>1
  <2> HIDE DEF l
  <2>3. Maps(Below(T), T, T) /\ \A y \in T : Below(T)[y] # <<>>
    <3>1. \A y \in T : Below(T)[y] # <<>>
      BY DEF Below
    <3> QED BY <3>1, BelowMaps
  <2>4. Expanded(l) = Flat(Below(T), l) /\ Expanded(l) \in Seq(T)
    BY <2>2, ExpandedIsFlat, ExpandedIsSeq
  <2>5. Len(l) <= Len(Flat(Below(T), l))
    BY <2>2, <2>3, FlatIsLong
  <2>6. Len(u[n + 1]) >= 1
    <3>1. Len(l) \in Nat /\ Len(Expanded(l)) \in Nat /\ Len(l) <= Len(Expanded(l))
      BY <2>2, <2>4, <2>5, LenProperties
    <3> QED BY <2>2, <3>1
  <2> QED BY <2>1, <2>6
<1> HIDE DEF G
<1>6. \A n \in 0 .. Depth : n \in G
  BY <1>2, <1>4, <1>5, UpTo
<1>7. Depth \in 0 .. Depth
  BY <1>2
<1>8. u[Depth] \in Seq(T) /\ Len(u[Depth]) >= 1
  BY <1>3, <1>6, <1>7 DEF G
<1>9. u[Depth] # <<>>
  BY <1>8
<1> QED BY <1>8, <1>9 DEF u, s, LeavesUnder

LEMMA LeavesUnderIsFlat ==
  ASSUME NEW T, Closed(T), NEW s \in Seq(T)
  PROVE  LeavesUnder(s) = Flat(LeavesBelow(T), s)
<1> DEFINE F == LeavesBelow(T)
           G == {t \in Seq(T) : LeavesUnder(t) = Flat(F, t)}
<1>1. Depth \in Nat /\ Depth \in 0 .. Depth
  BY DepthIsNat
<1>2. Maps(F, T, T)
  BY LeavesBelowMaps
<1>3. \A x \in T : F[x] = LeavesUnder(<<x>>)
  BY DEF LeavesBelow
<1> HIDE DEF F
<1>4. <<>> \in G
  <2>1. <<>> \in Seq(LeafNodes) /\ <<>> \in Seq(T)
    BY EmptySeq
  <2>2. LeavesUnder(<<>>) = <<>>
    <3> DEFINE e == <<>>
    <3> HIDE DEF e
    <3>1. e \in Seq(LeafNodes)
      BY <2>1 DEF e
    <3>2. Unfolded(e)[Depth] = e
      BY <1>1, <3>1, LeavesUnfolded
    <3> QED BY <3>2 DEF e, LeavesUnder
  <2> QED BY <2>1, <2>2, FlatEmpty
<1>5. ASSUME NEW t \in Seq(T), NEW x \in T, t \in G PROVE Append(t, x) \in G
  <2>1. <<x>> \in Seq(T) /\ Append(t, x) = t \o <<x>> /\ Append(t, x) \in Seq(T)
    BY AppendIsConcat, AppendProperties
  <2> DEFINE y == <<x>>
  <2> HIDE DEF y
  <2>2. y \in Seq(T)
    BY <2>1 DEF y
  <2>3. Unfolded(t \o y)[Depth] = Unfolded(t)[Depth] \o Unfolded(y)[Depth]
    BY <1>1, <2>2, UnfoldedConcat
  <2>4. LeavesUnder(Append(t, x)) = LeavesUnder(t) \o LeavesUnder(<<x>>)
    BY <2>1, <2>3 DEF LeavesUnder, y
  <2>5. Flat(F, Append(t, x)) = Flat(F, t) \o F[x]
    BY <1>2, FlatAppend
  <2>6. LeavesUnder(t) = Flat(F, t)
    BY <1>5
  <2> QED BY <1>3, <2>1, <2>4, <2>5, <2>6
<1>6. s \in G
  <2> HIDE DEF G
  <2> QED BY <1>4, <1>5, ByAppending
<1> QED BY <1>6 DEF F

\* Nodes of one level, with all leaves below them, share none.
LEMMA NodesAreApart ==
  ASSUME NEW T, Closed(T), NEW level \in Seq(T), Whole(LeavesUnder(level)),
         NEW g \in DOMAIN level, NEW h \in DOMAIN level, g # h
  PROVE  Range(LeavesUnder(<<level[g]>>)) \cap Range(LeavesUnder(<<level[h]>>)) = {}
<1> DEFINE F == LeavesBelow(T)
<1>1. Maps(F, T, T)
  BY LeavesBelowMaps
<1>2. level[g] \in T /\ level[h] \in T
  BY ElementOfSeq, LenProperties
<1>3. F[level[g]] = LeavesUnder(<<level[g]>>) /\ F[level[h]] = LeavesUnder(<<level[h]>>)
  BY <1>2 DEF LeavesBelow
<1>4. IsInjective(Flat(F, level))
  <2>1. IsInjective(LeavesUnder(level))
    BY LeavesAreOnce
  <2> QED BY <2>1, LeavesUnderIsFlat
<1> HIDE DEF F
<1>5. Range(F[level[g]]) \cap Range(F[level[h]]) = {}
  BY <1>1, <1>4, FlatSeparate
<1> QED BY <1>3, <1>5

\* A node has leaves below it.
LEMMA NodeHasLeaves ==
  ASSUME NEW T, Closed(T), NEW x \in T PROVE Range(LeavesUnder(<<x>>)) # {}
<1> DEFINE a == LeavesUnder(<<x>>)
<1>1. a \in Seq(T) /\ a # <<>>
  BY LeavesBelowMaps DEF Maps, LeavesBelow
<1> HIDE DEF a
<1>2. Len(a) \in Nat \ {0} /\ DOMAIN a = 1 .. Len(a)
  BY <1>1, EmptySeq, LenProperties
<1>3. 1 \in DOMAIN a
  BY <1>2
<1>4. a[1] \in Range(a)
  BY <1>3 DEF Range
<1> QED BY <1>4 DEF a

-----------------------------------------------------------------------------
(* What the planner is shown. *)

LEMMA TargetIsSmall ==
  ASSUME NEW n \in Nat PROVE Target(n) \in Nat \ {0} /\ Target(n) <= MostBranches
<1> DEFINE q == n \div 4
           r == Min({q, MostBranches})
<1>1. q \in Nat /\ MostBranches \in Nat /\ LeastBranches \in Nat \ {0} /\ LeastBranches <= MostBranches
  BY PlanningAssumption
<1> HIDE DEF q
<1>2. r \in Nat /\ r <= MostBranches
  <2>1. r = IF q < MostBranches THEN q ELSE MostBranches
    BY <1>1, MinOfTwo
  <2> HIDE DEF r
  <2> QED BY <1>1, <2>1
<1> HIDE DEF r
<1>3. Max({LeastBranches, r}) = IF LeastBranches > r THEN LeastBranches ELSE r
  BY <1>1, <1>2, MaxOfTwo
<1>4. Target(n) = Max({LeastBranches, r})
  BY DEF Target, r, q
<1> QED BY <1>1, <1>2, <1>3, <1>4

\* The next level describes the source better.
Goes(levels, target, k) ==
  /\ k < Len(levels) /\ Len(levels[k]) < target
  /\ CloserLevel(Len(levels[k]), Len(levels[k + 1]), target)

LEMMA BranchLevelIs ==
  ASSUME NEW levels, Len(levels) \in Nat \ {0}, DOMAIN levels = 1 .. Len(levels), NEW target
  PROVE  /\ BranchLevel(levels, target) \in DOMAIN levels
         /\ \A k \in 1 .. BranchLevel(levels, target) - 1 : Goes(levels, target, k)
<1> DEFINE n == Len(levels)
           stops == {c \in 1 .. n : ~Goes(levels, target, c)}
           Fits(c) == ~Goes(levels, target, c) /\ \A k \in 1 .. c - 1 : Goes(levels, target, k)
           R == {p \in stops \X stops : p[1] < p[2]}
<1>1. n \in stops
  BY DEF Goes
<1>2. IsFiniteSet(stops) /\ stops \subseteq 1 .. n
  <2>1. IsFiniteSet(1 .. n)
    BY FS_Interval
  <2> QED BY <2>1, FS_Subset
<1>3. \A k, l \in stops : <<k, l>> \in R <=> k < l
  OBVIOUS
<1> HIDE DEF R
<1>4. PICK c \in stops : \A k \in stops : ~(k < c)
  <2> HIDE DEF stops
  <2>1. \A k \in stops : k \in Int
    BY <1>2
  <2>2. \A k \in stops : <<k, k>> \notin R
    BY <1>3, <2>1
  <2>3. \A k, l, j \in stops : <<k, l>> \in R /\ <<l, j>> \in R => <<k, j>> \in R
    BY <1>3, <2>1
  <2>4. stops # {}
    BY <1>1
  <2>5. \E c \in stops : \A k \in stops : <<k, c>> \notin R
    BY <1>2, <2>2, <2>3, <2>4, MinimalElement
  <2> QED BY <1>3, <2>5
<1>5. c \in 1 .. n /\ Fits(c)
  <2>1. ASSUME NEW k \in 1 .. c - 1 PROVE Goes(levels, target, k)
    <3>1. k \in 1 .. n /\ k < c
      BY <1>2
    <3> QED BY <1>4, <3>1
  <2> QED BY <2>1
<1>6. BranchLevel(levels, target) = CHOOSE d \in 1 .. n : Fits(d)
  BY DEF BranchLevel, Goes
<1> HIDE DEF Fits, n
<1>7. BranchLevel(levels, target) \in 1 .. n /\ Fits(BranchLevel(levels, target))
  BY <1>5, <1>6
<1> QED BY <1>7 DEF Fits, n

\* The level that is shown is at most twice as wide as what is aimed at.
LEMMA BranchLevelIsNarrow ==
  ASSUME NEW levels, Len(levels) \in Nat \ {0}, DOMAIN levels = 1 .. Len(levels),
         \A k \in DOMAIN levels : Len(levels[k]) \in Nat, Len(levels[1]) = 1,
         NEW target \in Nat \ {0}
  PROVE  Len(levels[BranchLevel(levels, target)]) <= 2 * target
<1> DEFINE c == BranchLevel(levels, target)
           n == Len(levels)
<1>1. c \in 1 .. n /\ \A k \in 1 .. c - 1 : Goes(levels, target, k)
  BY BranchLevelIs
<1> HIDE DEF c
<1>2. CASE c = 1
  <2>1. Len(levels[c]) = 1
    BY <1>2
  <2>2. 2 * target >= 1
    OBVIOUS
  <2> QED BY <2>1, <2>2 DEF c
<1>3. CASE c # 1
  <2> DEFINE k == c - 1
             a == Len(levels[k])
             b == Len(levels[c])
  <2>1. k \in 1 .. c - 1 /\ k \in 1 .. n /\ k + 1 = c
    BY <1>1, <1>3
  <2>2. a < target /\ CloserLevel(a, b, target)
    BY <1>1, <2>1 DEF Goes
  <2>3. a \in Nat /\ b \in Nat
    BY <1>1, <2>1
  <2> HIDE DEF a, b, k
  <2>4. b <= target \/ b - target <= Gap(target, a)
    BY <2>2 DEF CloserLevel
  <2>5. Gap(target, a) <= target
    BY <2>2, <2>3 DEF Gap
  <2>6. Gap(target, a) \in Int
    BY <2>2, <2>3 DEF Gap
  <2>7. b <= 2 * target
    BY <2>3, <2>4, <2>5, <2>6
  <2> QED BY <2>7 DEF b, c
<1> QED BY <1>2, <1>3

ViewKnown(v) == v.n \in Nat /\ v.n <= 2 * MostBranches /\ Separate(v.groups)

\* The groups of branches have none together: runs of eight, or the branches
\* whose leaves are below the same node.
LEMMA GroupsAreSeparate ==
  ASSUME NEW T, Closed(T), NEW levels, Len(levels) \in Nat \ {0}, DOMAIN levels = 1 .. Len(levels),
         \A k \in DOMAIN levels : levels[k] \in Seq(T) /\ Whole(LeavesUnder(levels[k])),
         NEW chosen \in DOMAIN levels
  PROVE  Separate(BranchGroups(levels, chosen))
<1> DEFINE branches == levels[chosen]
           above    == {k \in 1 .. chosen - 1 : Len(levels[k]) \in 2 .. MaxChapters}
           under(node) == {b \in DOMAIN branches :
                             Range(LeavesUnder(<<branches[b]>>)) \subseteq Range(LeavesUnder(<<node>>))}
           up == levels[Max(above)]
           runs == [g \in 1 .. (Len(branches) + 7) \div 8 |->
                      {b \in DOMAIN branches : (b - 1) \div 8 = g - 1}]
           groups == [g \in DOMAIN up |-> under(up[g])]
<1>1. BranchGroups(levels, chosen) = IF above = {} THEN runs ELSE groups
  BY DEF BranchGroups
<1>2. branches \in Seq(T) /\ \A b \in DOMAIN branches : branches[b] \in T
  <2>1. branches \in Seq(T)
    OBVIOUS
  <2> HIDE DEF branches
  <2> QED BY <2>1, ElementOfSeq, LenProperties
<1>3. CASE above = {}
  <2> SUFFICES ASSUME NEW g \in DOMAIN runs, NEW h \in DOMAIN runs, NEW b \in runs[g], b \in runs[h]
               PROVE  g = h
    BY <1>1, <1>3 DEF Separate
  <2>1. g - 1 = h - 1
    OBVIOUS
  <2>2. g \in Int /\ h \in Int
    OBVIOUS
  <2> QED BY <2>1, <2>2
<1>4. CASE above # {}
  <2>1. Max(above) \in DOMAIN levels
    <3>1. IsFiniteSet(1 .. chosen - 1)
      BY FS_Interval
    <3>2. above \subseteq 1 .. chosen - 1 /\ above \subseteq Int /\ above \subseteq DOMAIN levels
      OBVIOUS
    <3>3. IsFiniteSet(above)
      <4> HIDE DEF above
      <4> QED BY <3>1, <3>2, FS_Subset
    <3>4. Max(above) \in above
      <4> HIDE DEF above
      <4> QED BY <1>4, <3>2, <3>3, MaxIsLargest
    <3> QED BY <3>2, <3>4
  <2>2. up \in Seq(T) /\ Whole(LeavesUnder(up))
    BY <2>1
  <2> HIDE DEF up, above
  <2> SUFFICES ASSUME NEW g \in DOMAIN up, NEW h \in DOMAIN up, g # h,
                      NEW b \in under(up[g]), b \in under(up[h])
               PROVE  FALSE
    BY <1>1, <1>4 DEF Separate
  <2>3. Range(LeavesUnder(<<up[g]>>)) \cap Range(LeavesUnder(<<up[h]>>)) = {}
    BY <2>2, NodesAreApart
  <2>4. b \in DOMAIN branches
        /\ Range(LeavesUnder(<<branches[b]>>)) \subseteq Range(LeavesUnder(<<up[g]>>))
        /\ Range(LeavesUnder(<<branches[b]>>)) \subseteq Range(LeavesUnder(<<up[h]>>))
    OBVIOUS
  <2> HIDE DEF branches
  <2>5. Range(LeavesUnder(<<branches[b]>>)) # {}
    BY <1>2, <2>4, NodeHasLeaves
  <2> QED BY <2>3, <2>4, <2>5
<1> QED BY <1>3, <1>4

\* The view of a tree that was read.
LEMMA ViewIsKnown ==
  ASSUME NEW T, Closed(T), NEW x \in T, NEW h, NEW out, Reaches(<<x>>, h, out), Whole(out)
  PROVE  ViewKnown(View(x))
<1> DEFINE levels == Levels(x)
           s == <<x>>
           target == Target(Len(LeavesUnder(s)))
           chosen == BranchLevel(levels, target)
<1>1. s \in Seq(T) /\ Len(s) = 1
  OBVIOUS
<1>2. /\ Len(levels) \in Nat \ {0} /\ DOMAIN levels = 1 .. Len(levels)
      /\ \A n \in DOMAIN levels : n - 1 \in 0 .. Depth /\ levels[n] = Unfolded(s)[n - 1]
  BY LevelsAreUnfolded
<1> HIDE DEF levels
<1>3. Reaches(s, h, out)
  OBVIOUS
<1> HIDE DEF s
<1>4. ASSUME NEW n \in DOMAIN levels PROVE levels[n] \in Seq(T) /\ LeavesUnder(levels[n]) = out
  <2> DEFINE k == n - 1
  <2>1. k \in 0 .. Depth /\ levels[n] = Unfolded(s)[k]
    BY <1>2
  <2> HIDE DEF k
  <2> QED BY <1>1, <1>3, <2>1, LevelTyped, PartsOfReaching
<1>5. levels[1] = s
  <2>1. 1 \in DOMAIN levels /\ 1 - 1 = 0
    BY <1>2
  <2>2. Unfolded(s)[0] = s
    BY <1>1, UnfoldedIs DEF Unfolding
  <2> QED BY <1>2, <2>1, <2>2
<1>6. target \in Nat \ {0} /\ target <= MostBranches
  <2>1. LeavesUnder(s) = out
    BY <1>2, <1>4, <1>5
  <2>2. Len(LeavesUnder(s)) \in Nat
    BY <2>1, LenProperties DEF Whole
  <2> QED BY <2>2, TargetIsSmall
<1> HIDE DEF target
<1>7. \A n \in DOMAIN levels : Len(levels[n]) \in Nat
  BY <1>4, LenProperties
<1>8. chosen \in DOMAIN levels /\ Len(levels[chosen]) <= 2 * target
  BY <1>1, <1>2, <1>5, <1>6, <1>7, BranchLevelIs, BranchLevelIsNarrow
<1> HIDE DEF chosen
<1>9. Len(levels[chosen]) \in Nat /\ Len(levels[chosen]) <= 2 * MostBranches
  <2>1. Len(levels[chosen]) \in Nat /\ MostBranches \in Nat
    BY <1>7, <1>8, PlanningAssumption
  <2> QED BY <1>6, <1>8, <2>1
<1>10. Separate(BranchGroups(levels, chosen))
  BY <1>2, <1>4, <1>8, GroupsAreSeparate
<1>11. View(x) = IF Len(levels[chosen]) < 2 THEN NoView
                 ELSE [n |-> Len(levels[chosen]), groups |-> BranchGroups(levels, chosen)]
  BY DEF View, levels, chosen, target, s
<1>12. ViewKnown(NoView)
  <2>1. NoView.n = 0 /\ NoView.groups = <<>>
    BY DEF NoView
  <2>2. MostBranches \in Nat /\ Separate(<<>>)
    BY PlanningAssumption DEF Separate
  <2> QED BY <2>1, <2>2 DEF ViewKnown
<1> QED BY <1>9, <1>10, <1>11, <1>12 DEF ViewKnown

-----------------------------------------------------------------------------
\* A root that was read is not the tree of nothing.
LEMMA RootIsATree ==
  ASSUME NEW T, Closed(T), NEW x \in T, NEW h, NEW out, Reaches(<<x>>, h, out), Whole(out)
  PROVE  x # NoTree
<1> SUFFICES ASSUME x = NoTree PROVE FALSE
  OBVIOUS
<1> DEFINE s == <<x>>
           u == Unfolded(s)
<1>3. s \in Seq(T) /\ Len(s) = 1 /\ s[1] = x
  OBVIOUS
<1>4. Expanded(s) = s
  <2>1. x.kids = <<>>
    BY DEF NoTree
  <2>2. Below(T)[x] = s
    BY <2>1 DEF Below
  <2>3. Maps(Below(T), T, T) /\ x \in T
    BY BelowMaps
  <2>4. Flat(Below(T), <<x>>) = Below(T)[x]
    BY <2>3, FlatOne
  <2>5. Expanded(s) = Flat(Below(T), s)
    <3> HIDE DEF s
    <3> QED BY <1>3, ExpandedIsFlat
  <2> QED BY <2>2, <2>4, <2>5
<1>5. Reaches(s, h, out)
  OBVIOUS
<1> HIDE DEF s
<1>6. u[0] = s /\ \A n \in 0 .. Depth - 1 : u[n + 1] = Expanded(u[n])
  BY <1>3, UnfoldedIs DEF Unfolding
<1> DEFINE G == {n \in 0 .. Depth : u[n] = s}
<1>7. \A n \in 0 .. Depth : n \in G
  <2>1. Depth \in Nat
    BY DepthIsNat
  <2> HIDE DEF u
  <2>2. 0 \in G
    BY <1>6, <2>1
  <2>3. ASSUME NEW n \in 0 .. Depth - 1, n \in G PROVE n + 1 \in G
    <3>1. n + 1 \in 0 .. Depth
      BY <2>1
    <3> QED BY <1>4, <1>6, <2>3, <3>1
  <2> HIDE DEF G
  <2> QED BY <2>1, <2>2, <2>3, UpTo
<1>8. out = s
  BY <1>5, <1>7 DEF Reaches
<1>9. s \in Seq(LeafNodes)
  BY <1>8 DEF Whole
<1>10. 1 \in 1 .. Len(s)
  BY <1>3
<1>11. s[1] \in LeafNodes
  BY <1>9, <1>10, ElementOfSeq
<1> QED BY <1>3, <1>11 DEF LeafNodes, NoTree

LEMMA FinishedIsATree == ASSUME ReadingInv, FinishReading PROVE tree' # NoTree
<1>1. stage = "reading" /\ read.mode = "level"
  BY DEF FinishReading, Idle, Reading
<1>2. ReadingOn(read, leaves)
  BY <1>1 DEF ReadingInv
<1>3. PICK T : Closed(T) /\ Leveled(T, read, leaves)
  BY <1>1, <1>2 DEF ReadingOn, Packing, Reducing
<1>4. Rooted'
  BY <1>3, RootIsLeft
<1>5. PICK U : Whole(leaves') /\ Closed(U) /\ tree' \in U /\ \E h \in Nat : Reaches(<<tree'>>, h, leaves')
  BY <1>4 DEF Rooted
<1>6. PICK h \in Nat : Reaches(<<tree'>>, h, leaves')
  BY <1>5
<1> QED BY <1>5, <1>6, RootIsATree

-----------------------------------------------------------------------------
\* A division gives each branch to one chapter or leaves it out.
Divided(division, v) ==
  /\ division.members \in Seq(SUBSET (1 .. v.n)) /\ Len(division.members) <= MaxChapters
  /\ Separate(division.members)
  /\ \A c \in DOMAIN division.members : division.members[c] # {}
  /\ UNION Range(division.members) = (1 .. v.n) \ division.excluded

\* decode_chapters: no branch has two owners, and each has one or is left out.
LEMMA OwnersAreOne ==
  ASSUME ViewKnown(view), NEW d \in Drafts, Decodes(d), NEW b \in Branches
  PROVE  /\ Owners(d, b) \subseteq DOMAIN d.chapters
         /\ \A c, e \in Owners(d, b) : c = e
         /\ Owners(d, b) # {} \/ Excluded(d, b)
<1>1. /\ Len(d.chapters) \in Nat /\ DOMAIN d.chapters = 1 .. Len(d.chapters)
      /\ IsFiniteSet(DOMAIN d.chapters)
  <2>1. d.chapters \in Seq(SUBSET ({"B", "G"} \X Nat))
    BY PlanningAssumption
  <2>2. Len(d.chapters) \in Nat /\ DOMAIN d.chapters = 1 .. Len(d.chapters)
    BY <2>1, LenProperties
  <2>3. IsFiniteSet(1 .. Len(d.chapters))
    BY <2>2, FS_Interval
  <2> QED BY <2>2, <2>3
<1>2. ByName(d, b) \subseteq DOMAIN d.chapters /\ \A c, e \in ByName(d, b) : c = e
  <2>1. ByName(d, b) \subseteq DOMAIN d.chapters
    BY DEF ByName
  <2>2. Cardinality(ByName(d, b)) <= 1
    BY DEF Decodes
  <2>3. IsFiniteSet(ByName(d, b))
    BY <1>1, <2>1, FS_Subset
  <2> QED BY <2>1, <2>2, <2>3, AtMostOne
<1>3. ASSUME NEW g \in DOMAIN view.groups
      PROVE  ByGroup(d, g) \subseteq DOMAIN d.chapters /\ \A c, e \in ByGroup(d, g) : c = e
  <2>1. ByGroup(d, g) \subseteq DOMAIN d.chapters
    BY DEF ByGroup
  <2>2. Cardinality(ByGroup(d, g)) <= 1
    BY DEF Decodes
  <2>3. IsFiniteSet(ByGroup(d, g))
    BY <1>1, <2>1, FS_Subset
  <2> QED BY <2>1, <2>2, <2>3, AtMostOne
<1>4. GroupsOf(b) \subseteq DOMAIN view.groups /\ \A g, h \in GroupsOf(b) : g = h
  <2>1. Separate(view.groups)
    BY DEF ViewKnown
  <2> QED BY <2>1 DEF Separate, GroupsOf
<1> DEFINE grouped == UNION {ByGroup(d, g) : g \in GroupsOf(b)}
<1>5. grouped \subseteq DOMAIN d.chapters /\ \A c, e \in grouped : c = e
  BY <1>3, <1>4
<1> HIDE DEF grouped
<1>6. Owners(d, b) = IF ByName(d, b) # {} THEN ByName(d, b)
                     ELSE IF Excluded(d, b) THEN {} ELSE grouped
  BY DEF Owners, grouped
<1>7. Owners(d, b) # {} \/ Excluded(d, b)
  BY DEF Decodes
<1> QED BY <1>2, <1>5, <1>6, <1>7

LEMMA DecodedIsDivided ==
  ASSUME ViewKnown(view), NEW d \in Drafts, Decodes(d)
  PROVE  Divided(Decoded(d), view)
<1> DEFINE members == [c \in DOMAIN d.chapters |-> Members(d, c)]
           excluded == {b \in Branches : Excluded(d, b) /\ Owners(d, b) = {}}
           m == Len(d.chapters)
<1>1. Decoded(d).members = members /\ Decoded(d).excluded = excluded
  BY DEF Decoded
<1>2. m \in Nat /\ m <= MaxChapters /\ DOMAIN d.chapters = 1 .. m
  <2>1. d.chapters \in Seq(SUBSET ({"B", "G"} \X Nat))
    BY PlanningAssumption
  <2>2. m \in 1 .. MaxChapters
    BY DEF Decodes
  <2>3. m \in Nat /\ DOMAIN d.chapters = 1 .. m
    BY <2>1, LenProperties
  <2> QED BY <2>2, <2>3, PlanningAssumption
<1> HIDE DEF m
<1>3. \A b \in Branches : /\ Owners(d, b) \subseteq 1 .. m
                          /\ \A c, e \in Owners(d, b) : c = e
                          /\ Owners(d, b) # {} \/ Excluded(d, b)
  BY <1>2, OwnersAreOne
<1>4. /\ DOMAIN members = 1 .. m
      /\ \A c \in 1 .. m : members[c] = {b \in Branches : c \in Owners(d, b)}
  BY <1>2 DEF Members
<1>5. members \in Seq(SUBSET Branches) /\ Len(members) = m
  <2>1. members \in [1 .. m -> SUBSET Branches]
    BY <1>2 DEF Members
  <2> HIDE DEF members
  <2>2. members \in Seq(SUBSET Branches)
    BY <1>2, <2>1, SeqDef
  <2> QED BY <1>2, <2>1, <2>2, LenProperties
<1> HIDE DEF members
<1>6. Separate(members)
  BY <1>3, <1>4 DEF Separate
<1>7. \A c \in 1 .. m : members[c] # {}
  <2>1. \A c \in 1 .. m : \E b \in Branches : c \in Owners(d, b)
    BY <1>2 DEF Decodes
  <2> QED BY <1>4, <2>1
<1>8. UNION Range(members) = Branches \ excluded
  <2>1. \A b : b \in UNION Range(members) <=> \E c \in 1 .. m : b \in members[c]
    BY <1>4 DEF Range
  <2>2. \A b : b \in UNION Range(members) <=> b \in Branches /\ Owners(d, b) # {}
    BY <1>3, <1>4, <2>1
  <2> QED BY <1>3, <2>2
<1> HIDE DEF excluded
<1> QED BY <1>1, <1>2, <1>4, <1>5, <1>6, <1>7, <1>8 DEF Divided, Branches

\* The widest view has few enough batches for a section each.
LEMMA BatchesFit ==
  ASSUME ViewKnown(view), NEW len \in Nat, NEW n \in Nat, n <= view.n, len <= n,
         NEW c \in Nat, c <= MaxChapters, ChapterBranches * len <= n + ChapterBranches * c
  PROVE  SectionCeiling \in Nat /\ len <= SectionCeiling
<1> DEFINE k == ChapterBranches
           w == Min({3 * view.n, MostSections})
<1>1. /\ k \in Nat \ {0} /\ MaxChapters \in Nat /\ MostBranches \in Nat
      /\ LeastSections \in Nat /\ MostSections \in Nat
      /\ 2 * MostBranches + k * MaxChapters <= k * MostSections
  BY PlanningAssumption
<1>2. view.n \in Nat /\ view.n <= 2 * MostBranches /\ 3 * view.n \in Nat
  BY DEF ViewKnown
<1>3. len <= MostSections
  <2>1. k * c <= k * MaxChapters
    BY <1>1
  <2>2. k * len \in Nat /\ k * c \in Nat /\ k * MaxChapters \in Nat /\ k * MostSections \in Nat
    BY <1>1
  <2> DEFINE a == k * len
             b == k * c
             e == k * MaxChapters
             f == k * MostSections
  <2>3. a <= n + b /\ b <= e /\ 2 * MostBranches + e <= f /\ a \in Nat /\ b \in Nat /\ e \in Nat /\ f \in Nat
    BY <1>1, <2>1, <2>2
  <2> HIDE DEF a, b, e, f
  <2>4. a <= f
    BY <1>1, <1>2, <2>3
  <2>5. k * len <= k * MostSections
    BY <2>4 DEF a, f
  <2> QED BY <1>1, <2>5
<1>4. w \in Nat /\ len <= w
  <2>1. w = IF 3 * view.n < MostSections THEN 3 * view.n ELSE MostSections
    BY <1>1, <1>2, MinOfTwo
  <2>2. len <= 3 * view.n
    BY <1>2
  <2> HIDE DEF w
  <2> QED BY <1>1, <1>2, <1>3, <2>1, <2>2
<1> HIDE DEF w
<1>5. Max({LeastSections, w}) = IF LeastSections > w THEN LeastSections ELSE w
  BY <1>1, <1>4, MaxOfTwo
<1>6. SectionCeiling = Max({LeastSections, w})
  BY DEF SectionCeiling, w
<1> QED BY <1>1, <1>4, <1>5, <1>6

\* What a division promises of its requests.
LEMMA DividedHasPlaces ==
  ASSUME ViewKnown(view), Divided(chapters, view)
  PROVE  EveryBranchHasAPlace
<1> DEFINE B == 1 .. view.n
           members == chapters.members
           M == UNION Range(members)
           batches == Batches
           m == Len(batches)
           weights == [i \in DOMAIN batches |-> Cardinality(batches[i])]
           shares == SharesNow
<1>1. view.n \in Nat /\ B \in SUBSET Nat /\ IsFiniteSet(B) /\ Cardinality(B) = view.n
  <2>1. view.n \in Nat
    BY DEF ViewKnown
  <2>2. IsFiniteSet(1 .. view.n) /\ Cardinality(1 .. view.n) = view.n
    <3> DEFINE n == view.n
    <3> HIDE DEF n
    <3>1. 1 \in Int /\ n \in Int /\ (1 > n => n = 0) /\ n - 1 + 1 = n
      BY <2>1 DEF n
    <3>2. IsFiniteSet(1 .. n) /\ Cardinality(1 .. n) = n
      BY <3>1, FS_Interval
    <3> QED BY <3>2 DEF n
  <2> QED BY <2>1, <2>2
<1>2. /\ members \in Seq(SUBSET B) /\ Len(members) <= MaxChapters /\ Separate(members)
      /\ \A c \in DOMAIN members : members[c] # {}
      /\ M = B \ chapters.excluded
  BY DEF Divided
<1>3. Batches = FlattenSeq([c \in DOMAIN members |-> Runs(members[c])])
  BY DEF Batches
<1> HIDE DEF B, members
<1>4. Cut(Batches, M, Len(members))
  BY <1>1, <1>2, <1>3, AllCut
<1>5. /\ batches \in Seq(SUBSET M) /\ m \in Nat /\ DOMAIN batches = 1 .. m
      /\ \A i \in 1 .. m : /\ batches[i] \subseteq M /\ batches[i] # {}
                           /\ Cardinality(batches[i]) <= ChapterBranches
      /\ \A b \in M : \E i \in 1 .. m : b \in batches[i]
      /\ \A i, j \in 1 .. m : i # j => batches[i] \cap batches[j] = {}
      /\ m <= Cardinality(M) /\ ChapterBranches * m <= Cardinality(M) + ChapterBranches * Len(members)
  <2>1. batches \in Seq(SUBSET M)
    BY <1>4 DEF Cut
  <2>2. m \in Nat /\ DOMAIN batches = 1 .. m
    BY <2>1, LenProperties
  <2>3. \A i \in 1 .. m : batches[i] \subseteq M
    <3> HIDE DEF batches, M
    <3>1. \A i \in 1 .. m : batches[i] \in SUBSET M
      BY <2>1, ElementOfSeq
    <3> QED BY <3>1
  <2> QED BY <1>4, <2>1, <2>2, <2>3 DEF Cut
<1>6. IsFiniteSet(M) /\ Cardinality(M) \in Nat /\ Cardinality(M) <= view.n
  <2>1. M \in SUBSET B
    BY <1>2
  <2> HIDE DEF M
  <2> QED BY <1>1, <2>1, FS_Subset, FS_CardinalityType
<1> HIDE DEF batches
<1>7. \A i \in 1 .. m : Cardinality(batches[i]) \in 1 .. ChapterBranches
  <2> SUFFICES ASSUME NEW i \in 1 .. m PROVE Cardinality(batches[i]) \in 1 .. ChapterBranches
    OBVIOUS
  <2> DEFINE a == batches[i]
  <2>1. a \subseteq M /\ a # {} /\ Cardinality(a) <= ChapterBranches
    BY <1>5
  <2> HIDE DEF a, M
  <2>2. IsFiniteSet(a) /\ Cardinality(a) \in Nat /\ Cardinality(a) # 0
    BY <1>6, <2>1, FS_Subset, FS_CardinalityType, FS_EmptySet
  <2>3. Cardinality(a) \in 1 .. ChapterBranches
    BY <2>1, <2>2, WidthIsPositive
  <2> QED BY <2>3 DEF a
<1>8. ASSUME NEW b \in Branches
      PROVE  Cardinality({i \in DOMAIN batches : b \in batches[i]}) =
               IF b \in chapters.excluded THEN 0 ELSE 1
  <2> DEFINE at == {i \in DOMAIN batches : b \in batches[i]}
  <2>1. b \in B
    BY DEF Branches, B
  <2>2. CASE b \in chapters.excluded
    <3>1. b \notin M
      BY <1>2, <2>2
    <3>2. at = {}
      BY <1>5, <3>1
    <3> QED BY <2>2, <3>2, FS_EmptySet
  <2>3. CASE b \notin chapters.excluded
    <3>1. b \in M
      BY <1>2, <2>1, <2>3
    <3>2. PICK i \in 1 .. m : b \in batches[i]
      BY <1>5, <3>1
    <3>3. at = {i}
      BY <1>5, <3>2
    <3> QED BY <2>3, <3>3, FS_Singleton
  <2> QED BY <2>2, <2>3
<1>9. SectionCeiling \in Nat /\ m <= SectionCeiling
  <2>1. Len(members) \in Nat
    BY <1>2, LenProperties
  <2> DEFINE n == Cardinality(M)
             c == Len(members)
  <2>2. /\ n \in Nat /\ n <= view.n /\ m \in Nat /\ m <= n /\ c \in Nat /\ c <= MaxChapters
        /\ ChapterBranches * m <= n + ChapterBranches * c
    BY <1>2, <1>5, <1>6, <2>1
  <2> HIDE DEF n, c, m
  <2> QED BY <2>2, BatchesFit
<1>10. weights \in [1 .. m -> Nat]
  <2>1. \A i \in 1 .. m : Cardinality(batches[i]) \in Nat
    BY <1>7
  <2> QED BY <1>5, <2>1
<1>11. SharesNow = Shares(SectionCeiling, weights)
  BY DEF SharesNow, batches
<1>12. shares \in SharesOf(m) /\ Total(shares) <= SectionCeiling
  <2> HIDE DEF weights, m, shares
  <2>1. /\ Shares(SectionCeiling, weights) \in SharesOf(m)
        /\ Total(Shares(SectionCeiling, weights)) <= SectionCeiling
    BY <1>5, <1>9, <1>10, SharesFit
  <2> QED BY <1>11, <2>1 DEF shares
<1>13. DOMAIN shares = DOMAIN batches /\ \A i \in DOMAIN shares : shares[i] > 0
  <2> HIDE DEF shares
  <2>1. DOMAIN shares = 1 .. m /\ \A i \in 1 .. m : shares[i] \in Nat \ {0}
    BY <1>12 DEF SharesOf
  <2>2. \A i \in 1 .. m : shares[i] > 0
    BY <2>1
  <2> QED BY <1>5, <2>1, <2>2
<1> QED BY <1>2, <1>5, <1>7, <1>8, <1>12, <1>13 DEF EveryBranchHasAPlace, batches, members, shares

-----------------------------------------------------------------------------
\* A division is of the view it was made for: the view changes only while there
\* is a tree to look at, and whatever is planned from a view is planned after
\* the tree was put away.
Planned == {"outlining", "dividing", "batches", "reviewing", "writing", "checking", "repairing"}

PlaceInv ==
  /\ ViewKnown(view)
  /\ chapters # NoChapters => tree = Stored /\ Divided(chapters, view)
  /\ stage \in Planned \/ outline # NoPlan => tree = Stored
  /\ stage = "read" => tree # NoTree

LEMMA EmptyTree == NoTree # Stored
<1>1. NoTree.limit = 0 /\ Stored.limit = 1
  BY DEF NoTree, Stored
<1> QED BY <1>1

LEMMA NoViewIsKnown == ViewKnown(NoView)
<1>1. NoView.n = 0 /\ NoView.groups = <<>>
  BY DEF NoView
<1>2. MostBranches \in Nat /\ Separate(<<>>)
  BY PlanningAssumption DEF Separate
<1> QED BY <1>1, <1>2 DEF ViewKnown

LEMMA PlaceStarts == Init => PlaceInv
<1> SUFFICES ASSUME Init PROVE PlaceInv
  OBVIOUS
<1>1. stage = "ended" /\ view = NoView /\ chapters = NoChapters /\ outline = NoPlan
  BY DEF Init, ReadingInit, PlanningInit
<1>2. ViewKnown(view)
  BY <1>1, NoViewIsKnown
<1>3. stage \notin Planned /\ stage # "read"
  BY <1>1 DEF Planned
<1> QED BY <1>1, <1>2, <1>3 DEF PlaceInv

\* A step that neither reads nor divides.
LEMMA NothingPlaced ==
  ASSUME PlaceInv, UNCHANGED <<view, tree>>, chapters' \in {chapters, NoChapters},
         stage' \in Planned \/ outline' # NoPlan => tree = Stored,
         stage' = "read" => tree # NoTree
  PROVE  PlaceInv'
<1>1. ViewKnown(view') /\ view' = view /\ tree' = tree
  BY DEF PlaceInv
<1>2. chapters' # NoChapters => tree' = Stored /\ Divided(chapters', view')
  <2>1. CASE chapters' = chapters
    BY <1>1, <2>1 DEF PlaceInv
  <2> QED BY <2>1
<1>3. stage' \in Planned \/ outline' # NoPlan => tree' = Stored
  BY <1>1
<1>4. stage' = "read" => tree' # NoTree
  BY <1>1
<1> QED BY <1>1, <1>2, <1>3, <1>4 DEF PlaceInv

LEMMA ReadingPlaces == ASSUME ReadingInv, PlaceInv, ReadingStep, UNCHANGED planning PROVE PlaceInv'
<1>1. stage = "reading"
  BY DEF ReadingStep, RefuseReading, TakePart, CloseLastGroup, LeavesRead, Collect, PlanLevel,
         RefuseLevel, QueueGroup, LevelRead, FinishReading, Answer, AnswerUseless,
         AnswerMissing, AnswerRefused, Reading, Idle, Polled
<1>2. tree = NoTree /\ chapters = NoChapters /\ outline = NoPlan
  BY <1>1, EmptyTree DEF ReadingInv, PlaceInv
<1>3. UNCHANGED <<view, chapters, outline>>
  BY DEF planning
<1>4. CASE FinishReading
  <2>1. stage' = "read" /\ tree' # NoTree
    BY <1>4, FinishedIsATree DEF FinishReading, Goto
  <2> QED BY <1>2, <1>3, <2>1 DEF PlaceInv, Planned
<1>5. CASE ~FinishReading
  <2>1. tree' = tree /\ stage' \in {"reading", "failing"}
    BY <1>1, <1>5 DEF ReadingStep, RefuseReading, TakePart, CloseLastGroup, LeavesRead, Collect,
         PlanLevel, RefuseLevel, QueueGroup, LevelRead, Answer, AnswerUseless,
         AnswerMissing, AnswerRefused, Goto, Fail, reading
  <2> QED BY <1>2, <1>3, <2>1, NothingPlaced DEF Planned
<1> QED BY <1>4, <1>5

LEMMA PurposePlaces == ASSUME ReadingInv, PlaceInv, ReadPurpose PROVE PlaceInv'
<1>1. /\ stage = "read" /\ tree' = Stored /\ chapters' = chapters
      /\ view' = IF tree = Stored THEN view ELSE View(tree)
      /\ stage' = "outlining"
  BY DEF ReadPurpose, Goto, answers
<1>2. CASE tree = Stored
  BY <1>1, <1>2 DEF PlaceInv
<1>3. CASE tree # Stored
  <2>1. Rooted
    BY <1>1, <1>3 DEF ReadingInv, PlaceInv
  <2>2. PICK T : Whole(leaves) /\ Closed(T) /\ tree \in T
                 /\ \E h \in Nat : Reaches(<<tree>>, h, leaves)
    BY <2>1 DEF Rooted
  <2>3. PICK h \in Nat : Reaches(<<tree>>, h, leaves)
    BY <2>2
  <2>4. ViewKnown(View(tree))
    BY <2>2, <2>3, ViewIsKnown
  <2>5. chapters = NoChapters
    BY <1>3 DEF PlaceInv
  <2>6. ViewKnown(view')
    BY <1>1, <1>3, <2>4
  <2>7. chapters' = NoChapters /\ tree' = Stored /\ stage' # "read"
    BY <1>1, <2>5
  <2> QED BY <2>6, <2>7 DEF PlaceInv
<1> QED BY <1>2, <1>3

LEMMA DividingPlaces == ASSUME PlaceInv, DivideChapters, UNCHANGED reading PROVE PlaceInv'
<1>1. stage = "dividing" /\ tree = Stored
  BY DEF DivideChapters, PlaceInv, Planned
<1>2. UNCHANGED <<view, outline, tree>>
  BY DEF DivideChapters, questions, agreed, reading
<1>3. PICK d \in Drafts :
        IF Decodes(d) THEN chapters' = Decoded(d) /\ stage' = "batches"
                      ELSE chapters' = chapters /\ stage' # "read"
  BY <1>1 DEF DivideChapters, AskAgain, Goto, answers
<1>4. CASE Decodes(d)
  <2>1. Divided(Decoded(d), view)
    BY <1>4, DecodedIsDivided DEF PlaceInv
  <2> QED BY <1>1, <1>2, <1>3, <1>4, <2>1 DEF PlaceInv
<1>5. CASE ~Decodes(d)
  BY <1>1, <1>2, <1>3, <1>5, NothingPlaced
<1> QED BY <1>4, <1>5

LEMMA PlanningPlaces == ASSUME ReadingInv, PlaceInv, PlanningStep PROVE PlaceInv'
<1>1. CASE ReadPurpose
  BY <1>1, PurposePlaces
<1>2. CASE ~ReadPurpose
  <2>1. UNCHANGED reading
    BY <1>2 DEF PlanningStep
  <2>2. CASE DivideChapters
    BY <2>1, <2>2, DividingPlaces
  <2>3. CASE OutOfBudget
    <3>1. stage' = "failing" /\ UNCHANGED <<view, chapters, outline, tree>>
      BY <2>1, <2>3 DEF OutOfBudget, answers, agreed, reading
    <3> QED BY <3>1, NothingPlaced DEF PlaceInv, Planned
  <2>4. CASE ~DivideChapters /\ ~OutOfBudget
    <3>1. stage \in Planned /\ stage' # "read"
      BY <1>2, <2>4 DEF PlanningStep, TakePending, PlanWhole, StartChapters, ReusePart, PlanPart,
           AllGathered, JoinParts, JoinRefused, ReviewOutline, AddFindings, Judged, SettleOutline,
           AwaitApproval, GiveUpOutline, CorrectOutline, Store, AskAgain, Goto, Fail, Planned
    <3>2. view' = view /\ chapters' \in {chapters, NoChapters}
      BY <1>2, <2>4 DEF PlanningStep, TakePending, PlanWhole, StartChapters, ReusePart, PlanPart,
           JoinParts, JoinRefused, ReviewOutline, AddFindings, SettleOutline,
           AwaitApproval, GiveUpOutline, CorrectOutline, planning, questions, answers
    <3>3. tree = Stored /\ tree' = tree
      BY <2>1, <3>1 DEF PlaceInv, reading
    <3> QED BY <3>1, <3>2, <3>3, NothingPlaced
  <2> QED BY <2>2, <2>3, <2>4
<1> QED BY <1>1, <1>2

LEMMA WritingPlaces == ASSUME PlaceInv, WritingStep PROVE PlaceInv'
<1>1. stage \in {"writing", "checking", "repairing"}
  BY DEF WritingStep, ReuseSection, RewriteSaved, WriteSection, KeepUnresolved, RepairSection,
         RepairUnresolved, SkipRepair, At, Repairing, AllWritten, SkipRound, ReviewDocument,
         Unchecked, Replan, StartRepairs, Checked, EndRound, PublishReviewed, PublishUnread,
         WritingFails
<1>2. UNCHANGED <<view, tree, chapters>>
  BY DEF WritingStep, ReuseSection, RewriteSaved, WriteSection, KeepUnresolved, RepairSection,
         RepairUnresolved, SkipRepair, AllWritten, SkipRound, ReviewDocument, Replan,
         StartRepairs, EndRound, PublishReviewed, PublishUnread, Publish, End, WritingFails,
         Leaving, reading, planning, questions, answers
<1>3. tree = Stored
  BY <1>1 DEF PlaceInv, Planned
<1> QED BY <1>2, <1>3, EmptyTree, NothingPlaced

LEMMA PlaceStep == ReadingInv /\ PlaceInv /\ [Next]_vars => PlaceInv'
<1> SUFFICES ASSUME ReadingInv, PlaceInv, [Next]_vars PROVE PlaceInv'
  OBVIOUS
<1>1. CASE UNCHANGED vars
  BY <1>1 DEF vars, attempt, reading, planning, PlaceInv
<1>2. CASE Start
  <2>1. UNCHANGED <<view, tree, chapters, outline>> /\ stage' = PlanDocument
    BY <1>2 DEF Start, reading, answers, agreed, Goto
  <2> QED BY <2>1, NothingPlaced DEF PlanDocument, PlaceInv, Planned
<1>3. CASE Stop \/ WorkerFails
  <2>1. UNCHANGED <<view, tree, chapters, outline>> /\ stage' = "ended"
    BY <1>3 DEF Stop, WorkerFails, End, questions, agreed
  <2> QED BY <2>1, NothingPlaced DEF PlaceInv, Planned
<1>4. CASE ReadingStep /\ UNCHANGED <<planning, document>>
  BY <1>4, ReadingPlaces
<1>5. CASE PlanningStep /\ UNCHANGED document
  BY <1>5, PlanningPlaces
<1>6. CASE WritingStep
  BY <1>6, WritingPlaces
<1>7. CASE \E seen \in DOMAIN made : Revise(seen) \/ Approve(seen)
  <2>1. stage = "ended" /\ stage' = stage /\ UNCHANGED <<view, tree, chapters>>
        /\ outline' \in {outline, NoPlan}
    BY <1>7 DEF Revise, Approve, Discarding, attempt, reading, questions, answers
  <2> QED BY <2>1, NothingPlaced DEF PlaceInv, Planned
<1> QED BY <1>1, <1>2, <1>3, <1>4, <1>5, <1>6, <1>7 DEF Next

\* Every branch has a place (planning.rs decode_chapters, chapter_batches,
\* chapter_shares): for every tree, every answer that decodes and every width,
\* the requests of a division hold each branch once or leave it out, none is
\* empty or too wide, and their shares come to fit the document.
THEOREM PlacesAreFound == Spec => []EveryBranchHasAPlace
<1>1. PlaceInv => EveryBranchHasAPlace
  <2>1. CASE chapters = NoChapters
    BY <2>1 DEF EveryBranchHasAPlace
  <2>2. CASE chapters # NoChapters
    BY <2>2, DividedHasPlaces DEF PlaceInv
  <2> QED BY <2>1, <2>2
<1>2. Init => ReadingInv /\ PlaceInv
  BY ReadingStarts, PlaceStarts
<1>3. ReadingInv /\ PlaceInv /\ [Next]_vars => (ReadingInv /\ PlaceInv)'
  BY WholeStep, PlaceStep
<1> QED BY <1>1, <1>2, <1>3, PTL DEF Spec
=============================================================================
