------------------------ MODULE SectionWritingProofs ------------------------
(***************************************************************************)
(* One section tells each leaf, and tells it in order, for any tree,       *)
(* outline, scores, drafts, answers and interruptions.                     *)
(*                                                                         *)
(* What a pass over the leaves decides is fixed leaf by leaf: the choice   *)
(* at a leaf depends only on the choices below it (WinnerDependsBelow),    *)
(* and is unique because Ahead is a total order (OneWinner).  So the pass  *)
(* of a later section, which starts from nothing, repeats the first one's. *)
(*                                                                         *)
(* SoundInv says of all the texts that are kept somewhere, a draft, parts  *)
(* in memory or in a checkpoint, an answer in the cache, that each answer  *)
(* in them was asked to continue what is before it.  A cached answer is    *)
(* newer than all its request holds: so joining it cannot repeat anything. *)
(* And that what they cite of the passages they were given is in the       *)
(* evidence kept with the text: a draft is spliced only where it resolves  *)
(* in the evidence of this attempt.                                        *)
(* ThrownInv says where an answer can still be found.  The last answer of  *)
(* a text is cached under one request only, the one that the parts saved   *)
(* lead to; once it is forgotten no request leads to that text.            *)
(***************************************************************************)
EXTENDS SectionWriting, DataLemmas

-----------------------------------------------------------------------------
(* The owners of the leaves. *)

\* What the CHOOSE of Chosen stands for.
Deserves(own, l, w) ==
  IF Contested(l) THEN w \in Best(l) /\ \A t \in Best(l) : Ahead(own, l, w, t) ELSE w = 0

LEMMA WonIsNatural ==
  ASSUME NEW own, NEW s, NEW l \in Leaf
  PROVE  Won(own, s, l) \in Nat
<1>1. IsFiniteSet(1 .. l - 1)
  BY FS_Interval DEF Leaf
<1>2. IsFiniteSet({k \in 1 .. l - 1 : own[k] = s})
  BY <1>1, FS_Subset
<1> QED BY <1>2, FS_CardinalityType DEF Won

LEMMA BestIsReached ==
  ASSUME MemoryTypeOK, NEW l \in Leaf, Contested(l)
  PROVE  Best(l) # {} /\ Best(l) \subseteq Claims(l) /\ Claims(l) \subseteq Sections
<1> DEFINE R == {p \in Sections \X Sections : score[p[1]][l] > score[p[2]][l]}
<1>1. Claims(l) # {} /\ Claims(l) \subseteq Sections /\ IsFiniteSet(Claims(l))
  <2>1. IsFiniteSet(Sections)
    BY LeafAssumption, FS_Interval DEF Sections
  <2> QED BY <2>1, FS_Subset DEF Claims, Contested
<1>2. ASSUME NEW s \in Sections PROVE score[s][l] \in Int
  <2>1. score[s] \in [Leaf -> Scores]
    BY DEF MemoryTypeOK
  <2>2. score[s][l] \in Scores
    BY <2>1
  <2>3. \A n \in Scores : n \in Int
    BY LeafAssumption
  <2> QED BY <2>2, <2>3
<1>3. /\ \A s, t \in Sections : <<s, t>> \in R <=> score[s][l] > score[t][l]
  OBVIOUS
<1> HIDE DEF R
<1>4. \A x \in Claims(l) : <<x, x>> \notin R
  BY <1>1, <1>2, <1>3
<1>5. \A x, y, z \in Claims(l) : <<x, y>> \in R /\ <<y, z>> \in R => <<x, z>> \in R
  BY <1>1, <1>2, <1>3
<1>6. PICK s \in Claims(l) : \A t \in Claims(l) : <<t, s>> \notin R
  BY <1>1, <1>4, <1>5, MinimalElement
<1>7. s \in Best(l)
  <2>1. ASSUME NEW t \in Claims(l) PROVE score[t][l] <= score[s][l]
    <3>1. s \in Sections /\ t \in Sections
      BY <1>1
    <3>2. ~ (score[t][l] > score[s][l])
      BY <1>3, <1>6, <3>1
    <3>3. score[t][l] \in Int /\ score[s][l] \in Int
      BY <1>2, <3>1
    <3> QED BY <3>2, <3>3
  <2> QED BY <2>1 DEF Best
<1> QED BY <1>1, <1>7 DEF Best

\* Ahead orders the sections: the loop's choice exists.
LEMMA SomeWinner ==
  ASSUME MemoryTypeOK, NEW own, NEW l \in Leaf
  PROVE  Deserves(own, l, Chosen(own, l))
<1>1. CASE ~ Contested(l)
  BY <1>1 DEF Deserves, Chosen
<1>2. CASE Contested(l)
  <2> DEFINE R == {p \in Sections \X Sections : p[1] # p[2] /\ Ahead(own, l, p[1], p[2])}
  <2>1. Best(l) # {} /\ Best(l) \subseteq Sections
    BY <1>2, BestIsReached
  <2>2. IsFiniteSet(Best(l))
    <3>1. IsFiniteSet(Sections)
      BY LeafAssumption, FS_Interval DEF Sections
    <3> QED BY <2>1, <3>1, FS_Subset
  <2>3. \A s, t \in Sections : <<s, t>> \in R <=> s # t /\ Ahead(own, l, s, t)
    OBVIOUS
  <2>4. \A s, t \in Sections : s # t => (Ahead(own, l, s, t) <=> ~ Ahead(own, l, t, s))
    BY WonIsNatural, LeafAssumption DEF Ahead, Sections
  <2>5. \A s, t, u \in Sections :
          Ahead(own, l, s, t) /\ Ahead(own, l, t, u) => Ahead(own, l, s, u)
    BY WonIsNatural, LeafAssumption DEF Ahead, Sections
  <2>6. \A s \in Sections : Ahead(own, l, s, s)
    BY DEF Ahead, Sections
  <2> HIDE DEF R
  <2>7. \A x \in Best(l) : <<x, x>> \notin R
    BY <2>1, <2>3
  <2>8. \A x, y, z \in Best(l) : <<x, y>> \in R /\ <<y, z>> \in R => <<x, z>> \in R
    BY <2>1, <2>3, <2>4, <2>5
  <2>9. PICK s \in Best(l) : \A t \in Best(l) : <<t, s>> \notin R
    BY <2>1, <2>2, <2>7, <2>8, MinimalElement
  <2>10. \A t \in Best(l) : Ahead(own, l, s, t)
    BY <2>1, <2>3, <2>4, <2>6, <2>9
  <2> QED BY <1>2, <2>9, <2>10 DEF Deserves, Chosen
<1> QED BY <1>1, <1>2

LEMMA OneWinner ==
  ASSUME MemoryTypeOK, NEW own, NEW l \in Leaf, NEW v, NEW w,
         Deserves(own, l, v), Deserves(own, l, w)
  PROVE  v = w
<1>1. CASE ~ Contested(l)
  BY <1>1 DEF Deserves
<1>2. CASE Contested(l)
  <2>1. v \in Sections /\ w \in Sections /\ Ahead(own, l, v, w) /\ Ahead(own, l, w, v)
    BY <1>2, BestIsReached DEF Deserves
  <2>2. Won(own, v, l) \in Nat /\ Won(own, w, l) \in Nat
    BY WonIsNatural
  <2> QED BY <2>1, <2>2, LeafAssumption DEF Ahead, Sections
<1> QED BY <1>1, <1>2

LEMMA WinnerDependsBelow ==
  ASSUME NEW own, NEW other, NEW l \in Leaf, NEW w,
         \A k \in 1 .. l - 1 : own[k] = other[k],
         Deserves(own, l, w)
  PROVE  Deserves(other, l, w)
<1>1. ASSUME NEW s PROVE Won(own, s, l) = Won(other, s, l)
  <2>1. {k \in 1 .. l - 1 : own[k] = s} = {k \in 1 .. l - 1 : other[k] = s}
    OBVIOUS
  <2> QED BY <2>1 DEF Won
<1> QED BY <1>1 DEF Deserves, Ahead

-----------------------------------------------------------------------------
\* What each section has been given follows from one decision.
OwnershipInv ==
  /\ \A k \in Leaf : k < next => Deserves(owner, k, owner[k])
  /\ asking > 1 => /\ \A k \in Leaf : Deserves(first, k, first[k])
                   /\ \A k \in Leaf : k < next => owner[k] = first[k]
  /\ \A s \in Sections : s < asking => kept[s] = Mine(first, s)

LEMMA InitialOwnership == MemoryInit => MemoryTypeOK /\ OwnershipInv
<1> SUFFICES ASSUME MemoryInit PROVE MemoryTypeOK /\ OwnershipInv
  OBVIOUS
<1>1. MemoryTypeOK
  BY LeafAssumption DEF MemoryInit, MemoryTypeOK, Nobody, Sections, Leaf
<1>2. OwnershipInv
  BY DEF MemoryInit, OwnershipInv, Sections, Leaf
<1> QED BY <1>1, <1>2

LEMMA ChosenType ==
  ASSUME MemoryTypeOK, NEW own, NEW l \in Leaf
  PROVE  Chosen(own, l) \in 0 .. SectionCount
<1>1. Deserves(own, l, Chosen(own, l))
  BY SomeWinner
<1>2. CASE Contested(l)
  BY <1>1, <1>2, BestIsReached, LeafAssumption DEF Deserves, Sections
<1>3. CASE ~ Contested(l)
  BY <1>1, <1>3, LeafAssumption DEF Deserves
<1> QED BY <1>2, <1>3

LEMMA TypeStep == MemoryTypeOK /\ [MemoryNext]_memory => MemoryTypeOK'
<1> SUFFICES ASSUME MemoryTypeOK, [MemoryNext]_memory PROVE MemoryTypeOK'
  OBVIOUS
<1>1. CASE OwnLeaf
  <2>1. owner' \in [Leaf -> 0 .. SectionCount]
    BY <1>1, ChosenType DEF OwnLeaf, MemoryTypeOK
  <2>2. next' \in 1 .. LeafCount + 1
    BY <1>1, LeafAssumption DEF OwnLeaf, Leaf
  <2> QED BY <1>1, <2>1, <2>2 DEF OwnLeaf, MemoryTypeOK, inputs
<1>2. CASE KeepLeaves
  <2>1. asking' \in 1 .. SectionCount + 1
    BY <1>2, LeafAssumption DEF KeepLeaves, Sections
  <2>2. kept' \in [Sections -> SUBSET Leaf]
    <3>1. Mine(owner, asking) \subseteq Leaf
      BY <1>2 DEF KeepLeaves, MemoryTypeOK, Mine
    <3> QED BY <1>2, <3>1 DEF KeepLeaves, MemoryTypeOK
  <2>3. first' \in [Leaf -> 0 .. SectionCount]
    BY <1>2 DEF KeepLeaves, MemoryTypeOK
  <2>4. owner' \in [Leaf -> 0 .. SectionCount] /\ next' \in 1 .. LeafCount + 1
    BY <1>2, LeafAssumption DEF KeepLeaves, Nobody
  <2> QED BY <1>2, <2>1, <2>2, <2>3, <2>4 DEF KeepLeaves, MemoryTypeOK, inputs
<1>3. CASE UNCHANGED memory
  BY <1>3 DEF memory, inputs, MemoryTypeOK
<1> QED BY <1>1, <1>2, <1>3 DEF MemoryNext

\* The outline and the tree do not change while sections are written.
LEMMA SameInputs ==
  ASSUME UNCHANGED inputs, NEW l
  PROVE  /\ Claims(l)' = Claims(l) /\ Best(l)' = Best(l) /\ (Contested(l)' <=> Contested(l))
<1>1. reach' = reach /\ score' = score
  BY DEF inputs
<1>2. Claims(l)' = Claims(l)
  BY <1>1 DEF Claims
<1>3. Best(l)' = Best(l)
  BY <1>1, <1>2 DEF Best
<1>4. Contested(l)' <=> Contested(l)
  BY <1>2 DEF Contested
<1> QED BY <1>2, <1>3, <1>4

LEMMA OwnLeafStep ==
  ASSUME MemoryTypeOK, OwnershipInv, OwnLeaf
  PROVE  OwnershipInv'
<1> DEFINE new == [owner EXCEPT ![next] = Chosen(owner, next)]
<1>1. /\ UNCHANGED inputs /\ owner' = new /\ next' = next + 1 /\ next \in Leaf
      /\ asking' = asking /\ kept' = kept /\ first' = first
  BY DEF OwnLeaf
<1>2. next \in Int /\ \A k \in Leaf : k \in Int
  BY <1>1 DEF Leaf
<1>3. \A k \in Leaf : new[k] = IF k = next THEN Chosen(owner, next) ELSE owner[k]
  BY DEF MemoryTypeOK
<1>4. ASSUME NEW k \in Leaf, k <= next PROVE \A j \in 1 .. k - 1 : owner[j] = new[j]
  BY <1>1, <1>2, <1>3, <1>4, LeafAssumption DEF Leaf
<1> HIDE DEF new
<1>5. ASSUME NEW k \in Leaf, k < next + 1 PROVE Deserves(new, k, new[k])
  <2>1. Deserves(owner, k, new[k])
    <3>1. CASE k = next
      BY <1>1, <1>3, <3>1, SomeWinner
    <3>2. CASE k < next
      BY <1>2, <1>3, <3>2 DEF OwnershipInv
    <3> QED BY <1>2, <1>5, <3>1, <3>2
  <2>2. \A j \in 1 .. k - 1 : owner[j] = new[j]
    BY <1>2, <1>4, <1>5
  <2> QED BY <2>1, <2>2, WinnerDependsBelow
<1>6. ASSUME asking > 1, NEW k \in Leaf, k < next + 1 PROVE new[k] = first[k]
  <2>1. CASE k < next
    BY <1>2, <1>3, <1>6, <2>1 DEF OwnershipInv
  <2>2. CASE k = next
    <3>1. \A j \in 1 .. k - 1 : first[j] = new[j]
      BY <1>2, <1>3, <1>6, <2>2, LeafAssumption DEF OwnershipInv, Leaf
    <3>2. Deserves(first, k, first[k])
      BY <1>6 DEF OwnershipInv
    <3>3. Deserves(new, k, first[k])
      BY <3>1, <3>2, WinnerDependsBelow
    <3> QED BY <1>5, <1>6, <3>3, OneWinner
  <2> QED BY <1>2, <1>6, <2>1, <2>2
<1>7. (\A k \in Leaf : k < next => Deserves(owner, k, owner[k]))'
  BY <1>1, <1>5, SameInputs DEF Deserves
<1>8. (asking > 1 => /\ \A k \in Leaf : Deserves(first, k, first[k])
                     /\ \A k \in Leaf : k < next => owner[k] = first[k])'
  <2>1. ASSUME asking > 1 PROVE (\A k \in Leaf : Deserves(first, k, first[k]))'
    BY <1>1, <2>1, SameInputs DEF OwnershipInv, Deserves
  <2> QED BY <1>1, <1>6, <2>1
<1>9. (\A s \in Sections : s < asking => kept[s] = Mine(first, s))'
  BY <1>1 DEF OwnershipInv, Mine, inputs
<1> QED BY <1>7, <1>8, <1>9 DEF OwnershipInv

LEMMA KeepLeavesStep ==
  ASSUME MemoryTypeOK, OwnershipInv, KeepLeaves
  PROVE  OwnershipInv'
<1>1. /\ UNCHANGED inputs /\ asking \in Sections /\ asking' = asking + 1 /\ next' = 1
      /\ kept' = [kept EXCEPT ![asking] = Mine(owner, asking)]
      /\ first' = IF asking = 1 THEN owner ELSE first
  BY DEF KeepLeaves
<1>2. \A k \in Leaf : k < next
  BY LeafAssumption DEF KeepLeaves, MemoryTypeOK, Leaf
<1>3. asking # 1 => owner = first
  BY <1>1, <1>2, LeafAssumption DEF OwnershipInv, MemoryTypeOK, Sections
<1>4. first' = owner
  BY <1>1, <1>3
<1>5. \A k \in Leaf : Deserves(owner, k, owner[k])
  BY <1>2 DEF OwnershipInv
<1>6. (\A k \in Leaf : Deserves(first, k, first[k]))'
  BY <1>1, <1>4, <1>5, SameInputs DEF Deserves
<1>7. ASSUME NEW s \in Sections, s < asking + 1 PROVE kept'[s] = Mine(owner, s)
  <2>1. CASE s = asking
    BY <1>1, <2>1 DEF MemoryTypeOK
  <2>2. CASE s < asking
    BY <1>1, <1>3, <2>2, LeafAssumption DEF MemoryTypeOK, OwnershipInv, Sections
  <2> QED BY <1>1, <1>7, <2>1, <2>2 DEF Sections
<1>8. (\A s \in Sections : s < asking => kept[s] = Mine(first, s))'
  BY <1>1, <1>4, <1>7 DEF Mine, inputs
<1>9. \A k \in Leaf : ~ (k < next')
  BY <1>1 DEF Leaf
<1> QED BY <1>6, <1>8, <1>9 DEF OwnershipInv

LEMMA OwnershipStep == MemoryTypeOK /\ OwnershipInv /\ [MemoryNext]_memory => OwnershipInv'
<1> SUFFICES ASSUME MemoryTypeOK, OwnershipInv, [MemoryNext]_memory PROVE OwnershipInv'
  OBVIOUS
<1>1. CASE UNCHANGED memory
  <2>1. /\ UNCHANGED inputs /\ owner' = owner /\ next' = next /\ asking' = asking
        /\ first' = first /\ kept' = kept
    BY <1>1 DEF memory
  <2>2. (\A k \in Leaf : k < next => Deserves(owner, k, owner[k]))'
    BY <2>1, SameInputs DEF OwnershipInv, Deserves
  <2>3. (asking > 1 => \A k \in Leaf : Deserves(first, k, first[k]))'
    BY <2>1, SameInputs DEF OwnershipInv, Deserves
  <2>4. (\A s \in Sections : s < asking => kept[s] = Mine(first, s))'
    BY <2>1 DEF OwnershipInv, Mine, inputs
  <2> QED BY <2>1, <2>2, <2>3, <2>4 DEF OwnershipInv
<1> QED BY <1>1, OwnLeafStep, KeepLeavesStep DEF MemoryNext

LEMMA OwnershipImpliesOwnedOnce == MemoryTypeOK /\ OwnershipInv => OwnedOnce
<1> SUFFICES ASSUME MemoryTypeOK, OwnershipInv, asking = SectionCount + 1,
                    NEW r \in Sections, NEW l \in reach[r]
             PROVE  \E s \in Sections : l \in kept[s] /\ \A t \in Sections : l \in kept[t] => t = s
  BY DEF OwnedOnce
<1>1. l \in Leaf
  BY DEF MemoryTypeOK
<1>2. \A s \in Sections : kept[s] = Mine(first, s)
  BY LeafAssumption DEF OwnershipInv, Sections
<1>3. Deserves(first, l, first[l])
  BY <1>1, LeafAssumption DEF OwnershipInv
<1>4. CASE Contested(l)
  <2>1. first[l] \in Sections /\ l \in reach[first[l]]
    BY <1>1, <1>3, <1>4, BestIsReached DEF Deserves, Claims
  <2>2. first[l] # 0
    BY <2>1 DEF Sections
  <2>3. l \in kept[first[l]]
    BY <1>2, <2>1 DEF Mine
  <2>4. \A t \in Sections : l \in kept[t] => t = first[l]
    BY <1>2, <2>2 DEF Mine
  <2> QED BY <2>1, <2>3, <2>4
<1>5. CASE ~ Contested(l)
  <2>1. l \in kept[r]
    BY <1>2, <1>3, <1>5 DEF Deserves, Mine
  <2>2. \A t \in Sections : l \in kept[t] => t = r
    BY <1>2, <1>5 DEF Mine, Contested, Claims
  <2> QED BY <2>1, <2>2
<1> QED BY <1>4, <1>5

\* Once all sections have asked, the last one is written, and nobody asks again.
PastLast == asking \notin Sections => next = 1

LEMMA CalledOwnership ==
  ASSUME MemoryTypeOK, PastLast, Called
  PROVE  MemoryTypeOK' /\ OwnershipInv' /\ PastLast'
<1>1. /\ reach' = [s \in Sections |-> {}] /\ score' = [s \in Sections |-> Nobody]
      /\ kept' = [s \in Sections |-> {}] /\ first' = Nobody /\ UNCHANGED <<asking, next, owner>>
      /\ next = 1
  BY DEF Called, PastLast
<1>2. /\ Nobody \in [Leaf -> Scores] /\ Nobody \in [Leaf -> 0 .. SectionCount]
      /\ \A l \in Leaf : Nobody[l] = 0
  BY LeafAssumption DEF Nobody
<1>3. MemoryTypeOK'
  BY <1>1, <1>2 DEF MemoryTypeOK
<1>4. \A l : ~ Contested(l)'
  BY <1>1 DEF Contested, Claims
<1>5. \A k \in Leaf : Deserves(first, k, first[k])'
  BY <1>1, <1>2, <1>4 DEF Deserves
<1>6. \A k \in Leaf : ~ (k < 1)
  BY DEF Leaf
<1>7. \A s \in Sections : kept'[s] = Mine(first, s)'
  BY <1>1 DEF Mine
<1>8. OwnershipInv'
  BY <1>1, <1>5, <1>6, <1>7 DEF OwnershipInv
<1> QED BY <1>1, <1>3, <1>8 DEF PastLast

LEMMA MemoryStep ==
  MemoryTypeOK /\ OwnershipInv /\ PastLast /\ [Next]_vars
    => MemoryTypeOK' /\ OwnershipInv' /\ PastLast'
<1> SUFFICES ASSUME MemoryTypeOK, OwnershipInv, PastLast, [Next]_vars
             PROVE  MemoryTypeOK' /\ OwnershipInv' /\ PastLast'
  OBVIOUS
<1>1. CASE Called
  BY <1>1, CalledOwnership
<1>2. CASE [MemoryNext]_memory
  <2>1. PastLast'
    BY <1>2 DEF MemoryNext, OwnLeaf, KeepLeaves, memory, PastLast
  <2> QED BY <1>2, <2>1, TypeStep, OwnershipStep
<1>3. Called \/ [MemoryNext]_memory
  BY DEF Next, vars, AssignLeaves, BeginAttempt, NoEvidence, GiveUp, ProviderAnswers,
         TakeAnswer, AnswerIsCutOff, RequestFails, DropAnswer, SavePart, RefuseFormat, Accept,
         RefuseText, ForgetAnswer, ErasePart, Stop, TrimCache, Asking, Judging
<1> QED BY <1>1, <1>2, <1>3

\* assign_leaves, called by each section for itself before it is written: no leaf
\* is told twice or by nobody.
THEOREM LeavesAreOwnedOnce == Spec => []OwnedOnce
<1>1. Init => MemoryTypeOK /\ OwnershipInv /\ PastLast
  BY InitialOwnership DEF Init, PastLast, MemoryInit
<1>2. Spec => [](MemoryTypeOK /\ OwnershipInv /\ PastLast)
  BY <1>1, MemoryStep, PTL DEF Spec
<1> QED BY <1>2, OwnershipImpliesOwnedOnce, PTL


-----------------------------------------------------------------------------
(* Texts and what their answers were asked to continue. *)

By(blocks) == [i \in DOMAIN blocks |-> blocks[i].by]

\* Each answer of a subsection goes on where the one before it stopped.
Continues(ans, text) ==
  \A i \in DOMAIN text : \A k \in DOMAIN text[i] :
    IsSuffix(SubSeq(text[i], 1, k - 1), Words(ans[text[i][k]].after))

TextKnown(ans, text) ==
  /\ text \in Seq(Seq(Nat)) /\ Elements(text) \subseteq 1 .. Len(ans)
  /\ Apart(text) /\ Continues(ans, text)

\* Each answer was asked to continue all that is before it.
InOrder(ans, words) ==
  \A k \in DOMAIN words : Words(ans[words[k]].after) = SubSeq(words, 1, k - 1)

Block == [mark : Nat, by : Seq(Nat)]

BlocksKnown(ans, blocks) ==
  /\ blocks \in Seq(Block) /\ TextKnown(ans, By(blocks))
  /\ InOrder(ans, Words(blocks))

\* One answer more at the end.
LEMMA AppendElement ==
  ASSUME NEW S, NEW s \in Seq(S), NEW x \in S
  PROVE  /\ Append(s, x) \in Seq(S) /\ Append(s, x) = s \o <<x>>
         /\ DOMAIN Append(s, x) = 1 .. Len(s) + 1 /\ Append(s, x)[Len(s) + 1] = x
         /\ \A k \in 1 .. Len(s) : Append(s, x)[k] = s[k]
         /\ Range(Append(s, x)) = Range(s) \cup {x}
         /\ IsInjective(s) /\ x \notin Range(s) => IsInjective(Append(s, x))
         /\ \A k \in 1 .. Len(s) : SubSeq(Append(s, x), 1, k - 1) = SubSeq(s, 1, k - 1)
         /\ SubSeq(Append(s, x), 1, Len(s)) = s
<1> DEFINE n == Len(s)
           t == Append(s, x)
<1>1. n \in Nat /\ DOMAIN s = 1 .. n /\ s \in [1 .. n -> S]
  BY LenProperties
<1>2. t \in Seq(S) /\ Len(t) = n + 1 /\ t[n + 1] = x /\ \A k \in 1 .. n : t[k] = s[k]
  BY AppendProperties
<1>3. t = s \o <<x>>
  BY AppendIsConcat
<1>4. DOMAIN t = 1 .. n + 1
  BY <1>2, LenProperties
<1> HIDE DEF n, t
<1>5. Range(t) = Range(s) \cup {x}
  <2>1. \A k \in 1 .. n + 1 : k \in 1 .. n \/ k = n + 1
    BY <1>1
  <2>2. \A k \in 1 .. n : k \in 1 .. n + 1
    BY <1>1
  <2>3. n + 1 \in 1 .. n + 1
    BY <1>1
  <2> QED BY <1>1, <1>2, <1>4, <2>1, <2>2, <2>3 DEF Range
<1>6. ASSUME IsInjective(s), x \notin Range(s) PROVE IsInjective(t)
  <2> SUFFICES ASSUME NEW i \in 1 .. n + 1, NEW j \in 1 .. n + 1, t[i] = t[j] PROVE i = j
    BY <1>4 DEF IsInjective
  <2>1. \A k \in 1 .. n : t[k] # x
    BY <1>1, <1>2, <1>6 DEF Range
  <2>2. CASE i = n + 1 \/ j = n + 1
    <3>1. i \in 1 .. n \/ i = n + 1
      BY <1>1
    <3>2. j \in 1 .. n \/ j = n + 1
      BY <1>1
    <3> QED BY <1>2, <2>1, <2>2, <3>1, <3>2
  <2>3. CASE ~(i = n + 1 \/ j = n + 1)
    <3>1. i \in 1 .. n /\ j \in 1 .. n
      BY <1>1, <2>3
    <3> QED BY <1>1, <1>2, <1>6, <3>1 DEF IsInjective
  <2> QED BY <2>2, <2>3
<1>7. \A m \in 0 .. n : SubSeq(t, 1, m) = SubSeq(s, 1, m)
  <2> SUFFICES ASSUME NEW m \in 0 .. n PROVE SubSeq(t, 1, m) = SubSeq(s, 1, m)
    OBVIOUS
  <2>1. SubSeq(s, 1, m) = [i \in 1 .. m |-> s[i]]
    BY SubSeqRestrict DEF n, Restrict
  <2>2. SubSeq(t, 1, m) = [i \in 1 .. m |-> t[i]]
    <3>1. m \in 0 .. Len(t)
      BY <1>1, <1>2
    <3> QED BY <1>2, <3>1, SubSeqRestrict DEF Restrict
  <2>3. \A i \in 1 .. m : i \in 1 .. n
    BY <1>1
  <2> QED BY <1>2, <2>1, <2>2, <2>3
<1>8. SubSeq(t, 1, n) = s
  <2>1. n \in 0 .. n
    BY <1>1
  <2>2. SubSeq(s, 1, n) = s
    BY SubSeqFull DEF n
  <2> QED BY <1>7, <2>1, <2>2
<1>9. \A k \in 1 .. n : SubSeq(t, 1, k - 1) = SubSeq(s, 1, k - 1)
  <2>1. \A k \in 1 .. n : k - 1 \in 0 .. n
    BY <1>1
  <2> QED BY <1>7, <2>1
<1> QED BY <1>2, <1>3, <1>4, <1>5, <1>6, <1>8, <1>9 DEF n, t

\* What the next answer does to a text and to the words in it.
Grown(ans, old, new, a) ==
  /\ TextKnown(ans, new) /\ FlattenSeq(new) = Append(FlattenSeq(old), a)
  /\ Elements(new) = Elements(old) \cup {a}
  /\ InOrder(ans, FlattenSeq(new))

\* The answer that is asked to continue a text goes on with its last subsection.
LEMMA LastGrows ==
  ASSUME NEW ans, NEW front \in Seq(Seq(Nat)), NEW sub \in Seq(Nat), NEW text,
         text = Append(front, sub), TextKnown(ans, text), InOrder(ans, FlattenSeq(text)),
         NEW a \in 1 .. Len(ans), a \in Nat, a \notin Elements(text),
         Words(ans[a].after) = FlattenSeq(text)
  PROVE  Grown(ans, text, Append(front, Append(sub, a)), a)
<1> DEFINE m == Len(front)
           l == Append(sub, a)
           new == Append(front, l)
<1>1. /\ m \in Nat /\ text \in Seq(Seq(Nat)) /\ DOMAIN text = 1 .. m + 1 /\ text[m + 1] = sub
      /\ \A i \in 1 .. m : text[i] = front[i]
  BY AppendElement, LenProperties
<1>2. /\ l \in Seq(Nat) /\ l = sub \o <<a>> /\ Range(l) = Range(sub) \cup {a}
      /\ DOMAIN l = 1 .. Len(sub) + 1 /\ l[Len(sub) + 1] = a
      /\ \A k \in 1 .. Len(sub) : l[k] = sub[k]
      /\ IsInjective(sub) /\ a \notin Range(sub) => IsInjective(l)
      /\ \A k \in 1 .. Len(sub) : SubSeq(l, 1, k - 1) = SubSeq(sub, 1, k - 1)
      /\ SubSeq(l, 1, Len(sub)) = sub
  BY AppendElement
<1> HIDE DEF l
<1>3. /\ new \in Seq(Seq(Nat)) /\ DOMAIN new = 1 .. m + 1 /\ new[m + 1] = l
      /\ \A i \in 1 .. m : new[i] = text[i]
  BY <1>1, <1>2, AppendElement
<1> HIDE DEF m, new
<1>4. \A i \in 1 .. m + 1 : i \in 1 .. m \/ i = m + 1
  BY <1>1
<1>5. m + 1 \in 1 .. m + 1 /\ \A i \in 1 .. m : i \in 1 .. m + 1 /\ i # m + 1
  BY <1>1
<1>6. Range(sub) \subseteq Elements(text)
  BY <1>1, <1>5 DEF Elements
<1>7. IsInjective(l)
  <2>1. \A i \in DOMAIN text : IsInjective(text[i])
    BY DEF TextKnown, Apart
  <2>2. IsInjective(sub)
    BY <1>1, <1>5, <2>1
  <2>3. a \notin Range(sub)
    BY <1>6
  <2> QED BY <1>2, <2>2, <2>3
<1>8. Elements(new) = Elements(text) \cup {a}
  <2>1. Elements(new) = UNION {Range(new[i]) : i \in 1 .. m + 1}
    BY <1>3 DEF Elements
  <2>2. Elements(text) = UNION {Range(text[i]) : i \in 1 .. m + 1}
    BY <1>1 DEF Elements
  <2>3. \A i \in 1 .. m + 1 : Range(new[i]) = IF i = m + 1 THEN Range(text[i]) \cup {a} ELSE Range(text[i])
    BY <1>1, <1>2, <1>3, <1>4, <1>5
  <2>4. \A x : x \in Elements(new) <=> \E i \in 1 .. m + 1 : x \in Range(new[i])
    BY <2>1
  <2>5. \A x : x \in Elements(text) <=> \E i \in 1 .. m + 1 : x \in Range(text[i])
    BY <2>2
  <2>6. \A x : x \in Elements(new) <=> x \in Elements(text) \cup {a}
    BY <1>5, <2>3, <2>4, <2>5
  <2> QED BY <2>6
<1>9. Apart(new)
  <2>1. \A i \in 1 .. m : IsInjective(new[i]) /\ a \notin Range(new[i])
    BY <1>1, <1>3, <1>5 DEF TextKnown, Apart, Elements
  <2>2. \A i, j \in 1 .. m + 1 : i # j => Range(text[i]) \cap Range(text[j]) = {}
    BY <1>1 DEF TextKnown, Apart
  <2>3. \A i, j \in 1 .. m + 1 : i # j => Range(new[i]) \cap Range(new[j]) = {}
    <3>1. \A i \in 1 .. m + 1 : i # m + 1 => a \notin Range(new[i]) /\ Range(new[i]) = Range(text[i])
      BY <1>3, <1>4, <2>1
    <3>2. Range(new[m + 1]) = Range(text[m + 1]) \cup {a}
      BY <1>1, <1>2, <1>3
    <3> SUFFICES ASSUME NEW i \in 1 .. m + 1, NEW j \in 1 .. m + 1, i # j
                 PROVE  Range(new[i]) \cap Range(new[j]) = {}
      OBVIOUS
    <3>3. Range(text[i]) \cap Range(text[j]) = {}
      BY <2>2
    <3>4. CASE i = m + 1
      BY <3>1, <3>2, <3>3, <3>4
    <3>5. CASE i # m + 1 /\ j = m + 1
      BY <3>1, <3>2, <3>3, <3>5
    <3>6. CASE i # m + 1 /\ j # m + 1
      BY <3>1, <3>3, <3>6
    <3> QED BY <3>4, <3>5, <3>6
  <2>4. \A i \in 1 .. m + 1 : IsInjective(new[i])
    BY <1>3, <1>4, <1>7, <2>1
  <2> QED BY <1>3, <2>3, <2>4 DEF Apart
<1>10. FlattenSeq(text) = FlattenSeq(front) \o sub /\ FlattenSeq(front) \in Seq(Nat)
  BY FlattenAppend, FlattenIsSeq
<1>11. FlattenSeq(text) \in Seq(Nat)
  BY <1>1, FlattenIsSeq
<1>12. FlattenSeq(new) = Append(FlattenSeq(text), a)
  <2>1. FlattenSeq(new) = FlattenSeq(front) \o l
    BY <1>2, FlattenAppend DEF new
  <2>2. <<a>> \in Seq(Nat)
    OBVIOUS
  <2>3. FlattenSeq(front) \o (sub \o <<a>>) = (FlattenSeq(front) \o sub) \o <<a>>
    BY <1>10, <2>2, ConcatAssociative
  <2>4. Append(FlattenSeq(text), a) = FlattenSeq(text) \o <<a>>
    BY <1>11, AppendIsConcat
  <2> QED BY <1>2, <1>10, <2>1, <2>3, <2>4
<1>13. Continues(ans, new)
  <2> SUFFICES ASSUME NEW i \in 1 .. m + 1, NEW k \in DOMAIN new[i]
               PROVE  IsSuffix(SubSeq(new[i], 1, k - 1), Words(ans[new[i][k]].after))
    BY <1>3 DEF Continues
  <2>1. CASE i \in 1 .. m
    BY <1>1, <1>3, <1>5, <2>1 DEF TextKnown, Continues
  <2>2. CASE i = m + 1
    <3>1. Len(sub) \in Nat /\ DOMAIN sub = 1 .. Len(sub)
      BY LenProperties
    <3>2. new[i] = l /\ k \in 1 .. Len(sub) + 1
      BY <1>2, <1>3, <2>2
    <3>3. CASE k \in 1 .. Len(sub)
      <4>1. text[i] = sub /\ i \in DOMAIN text /\ k \in DOMAIN text[i]
        BY <1>1, <2>2, <3>1, <3>3
      <4>2. IsSuffix(SubSeq(sub, 1, k - 1), Words(ans[sub[k]].after))
        BY <4>1 DEF TextKnown, Continues
      <4> QED BY <1>2, <3>2, <3>3, <4>2
    <3>4. CASE k = Len(sub) + 1
      <4>1. k - 1 = Len(sub)
        BY <3>1, <3>4
      <4>2. IsSuffix(sub, FlattenSeq(text))
        BY <1>10, SuffixOfConcat
      <4> QED BY <1>2, <3>2, <3>4, <4>1, <4>2
    <3> QED BY <3>1, <3>2, <3>3, <3>4
  <2> QED BY <1>4, <2>1, <2>2
<1>14. InOrder(ans, FlattenSeq(new))
  <2> DEFINE w == FlattenSeq(text)
             v == Append(w, a)
  <2>1. /\ DOMAIN v = 1 .. Len(w) + 1 /\ v[Len(w) + 1] = a
        /\ \A k \in 1 .. Len(w) : v[k] = w[k]
        /\ \A k \in 1 .. Len(w) : SubSeq(v, 1, k - 1) = SubSeq(w, 1, k - 1)
        /\ SubSeq(v, 1, Len(w)) = w
    BY <1>11, AppendElement
  <2>2. Len(w) \in Nat /\ DOMAIN w = 1 .. Len(w)
    BY <1>11, LenProperties
  <2>3. FlattenSeq(new) = v
    BY <1>12
  <2>4. \A k \in DOMAIN w : Words(ans[w[k]].after) = SubSeq(w, 1, k - 1)
    BY DEF InOrder
  <2>5. Words(ans[a].after) = w
    OBVIOUS
  <2> HIDE DEF w, v
  <2> SUFFICES ASSUME NEW k \in 1 .. Len(w) + 1
               PROVE  Words(ans[v[k]].after) = SubSeq(v, 1, k - 1)
    BY <2>1, <2>3 DEF InOrder
  <2>6. CASE k \in 1 .. Len(w)
    BY <2>1, <2>2, <2>4, <2>6
  <2>7. CASE k = Len(w) + 1
    <3>1. k - 1 = Len(w)
      BY <2>2, <2>7
    <3> QED BY <2>1, <2>5, <2>7, <3>1
  <2>8. k \in 1 .. Len(w) \/ k = Len(w) + 1
    BY <2>2
  <2> QED BY <2>6, <2>7, <2>8
<1>15. Elements(new) \subseteq 1 .. Len(ans)
  BY <1>8 DEF TextKnown
<1>16. TextKnown(ans, new)
  BY <1>3, <1>9, <1>13, <1>15 DEF TextKnown
<1> QED BY <1>8, <1>12, <1>14, <1>16 DEF Grown, new, l

\* An empty subsection more changes nothing.
LEMMA EmptyMore ==
  ASSUME NEW ans, NEW text, TextKnown(ans, text)
  PROVE  /\ TextKnown(ans, Append(text, <<>>)) /\ FlattenSeq(Append(text, <<>>)) = FlattenSeq(text)
         /\ Elements(Append(text, <<>>)) = Elements(text)
<1> DEFINE m == Len(text)
           new == Append(text, <<>>)
<1>1. <<>> \in Seq(Nat) /\ text \in Seq(Seq(Nat)) /\ m \in Nat /\ DOMAIN text = 1 .. m
  BY EmptySeq, LenProperties DEF TextKnown
<1>2. /\ new \in Seq(Seq(Nat)) /\ DOMAIN new = 1 .. m + 1 /\ new[m + 1] = <<>>
      /\ \A i \in 1 .. m : new[i] = text[i]
  BY <1>1, AppendElement
<1>3. FlattenSeq(new) = FlattenSeq(text)
  <2>1. FlattenSeq(text) \in Seq(Nat) /\ FlattenSeq(new) = FlattenSeq(text) \o <<>>
    BY <1>1, FlattenAppend, FlattenIsSeq
  <2> QED BY <2>1, EmptyConcat
<1> HIDE DEF m, new
<1>4. \A i \in 1 .. m + 1 : i \in 1 .. m \/ i = m + 1
  BY <1>1
<1>5. m + 1 \in 1 .. m + 1 /\ \A i \in 1 .. m : i \in 1 .. m + 1
  BY <1>1
<1>6. Range(<<>>) = {} /\ IsInjective(<<>>) /\ DOMAIN <<>> = {}
  BY EmptySeq DEF Range, IsInjective
<1>7. Elements(new) = Elements(text)
  <2>1. Elements(new) = UNION {Range(new[i]) : i \in 1 .. m + 1}
    BY <1>2 DEF Elements
  <2>2. Elements(text) = UNION {Range(text[i]) : i \in 1 .. m}
    BY <1>1 DEF Elements
  <2> QED BY <1>2, <1>4, <1>5, <1>6, <2>1, <2>2
<1>8. Apart(new)
  <2>1. \A i \in 1 .. m : IsInjective(new[i])
    BY <1>1, <1>2 DEF TextKnown, Apart
  <2>2. \A i, j \in 1 .. m : i # j => Range(new[i]) \cap Range(new[j]) = {}
    BY <1>1, <1>2 DEF TextKnown, Apart
  <2>3. \A i, j \in 1 .. m + 1 : i # j => Range(new[i]) \cap Range(new[j]) = {}
    BY <1>2, <1>4, <1>6, <2>2
  <2>4. \A i \in 1 .. m + 1 : IsInjective(new[i])
    BY <1>2, <1>4, <1>6, <2>1
  <2> QED BY <1>2, <2>3, <2>4 DEF Apart
<1>9. Continues(ans, new)
  <2> SUFFICES ASSUME NEW i \in 1 .. m + 1, NEW k \in DOMAIN new[i]
               PROVE  IsSuffix(SubSeq(new[i], 1, k - 1), Words(ans[new[i][k]].after))
    BY <1>2 DEF Continues
  <2>1. i \in 1 .. m
    BY <1>2, <1>4, <1>6
  <2> QED BY <1>1, <1>2, <2>1 DEF TextKnown, Continues
<1> QED BY <1>2, <1>3, <1>7, <1>8, <1>9 DEF TextKnown, new

\* The parts written so far, with the next one.
OneMore(blocks, mark, a, new) ==
  \/ new = Append(blocks, [mark |-> mark, by |-> <<a>>])
  \/ blocks # <<>> /\ new = [blocks EXCEPT ![Len(blocks)].by = Append(@, a)]

LEMMA JoinedKnown ==
  ASSUME NEW ans, NEW blocks, BlocksKnown(ans, blocks), NEW mark \in Nat,
         NEW a \in 1 .. Len(ans), a \in Nat, a \notin Elements(By(blocks)),
         Words(ans[a].after) = Words(blocks), NEW new, OneMore(blocks, mark, a, new)
  PROVE  BlocksKnown(ans, new) /\ Elements(By(new)) = Elements(By(blocks)) \cup {a}
<1> DEFINE n == Len(blocks)
           text == By(blocks)
<1>1. /\ blocks \in Seq(Block) /\ n \in Nat /\ DOMAIN blocks = 1 .. n
      /\ \A i \in 1 .. n : blocks[i] \in Block
  BY LenProperties, ElementOfSeq DEF BlocksKnown
<1>2. /\ TextKnown(ans, text) /\ Words(blocks) = FlattenSeq(text)
      /\ text \in Seq(Seq(Nat)) /\ text = [i \in 1 .. n |-> blocks[i].by]
  BY <1>1 DEF BlocksKnown, TextKnown, Words, By
<1> HIDE DEF text
<1>3. Len(text) = n
  BY <1>1, <1>2, LenProperties
<1>4. <<>> \in Seq(Nat) /\ Append(<<>>, a) = <<a>> /\ <<a>> \in Seq(Nat)
  BY EmptySeq
<1>5. InOrder(ans, FlattenSeq(text))
  BY <1>2 DEF BlocksKnown
<1>6. ASSUME NEW k \in Nat, new \in Seq(Block), Grown(ans, text, By(new), a)
      PROVE  BlocksKnown(ans, new) /\ Elements(By(new)) = Elements(By(blocks)) \cup {a}
  BY <1>6 DEF Grown, BlocksKnown, Words, By, text
<1>7. CASE new = Append(blocks, [mark |-> mark, by |-> <<a>>])
  <2> DEFINE b == [mark |-> mark, by |-> <<a>>]
             wide == Append(text, <<>>)
             longer == Append(text, <<a>>)
  <2>1. b \in Block /\ b.by = <<a>>
    BY <1>4 DEF Block
  <2> HIDE DEF b
  <2>2. /\ new \in Seq(Block) /\ DOMAIN new = 1 .. n + 1 /\ new[n + 1] = b
        /\ \A i \in 1 .. n : new[i] = blocks[i]
    BY <1>1, <1>7, <2>1, AppendElement DEF b
  <2>3. TextKnown(ans, wide) /\ FlattenSeq(wide) = FlattenSeq(text) /\ Elements(wide) = Elements(text)
    BY <1>2, EmptyMore
  <2>4. InOrder(ans, FlattenSeq(wide)) /\ a \notin Elements(wide) /\ Words(ans[a].after) = FlattenSeq(wide)
    BY <1>2, <1>5, <2>3 DEF text
  <2> HIDE DEF wide
  <2>5. Grown(ans, wide, Append(text, Append(<<>>, a)), a)
    BY <1>2, <1>4, <2>3, <2>4, LastGrows DEF wide
  <2>6. Grown(ans, text, longer, a)
    BY <1>4, <2>3, <2>5 DEF Grown
  <2>7. By(new) = longer
    <3>1. /\ longer \in Seq(Seq(Nat)) /\ DOMAIN longer = 1 .. n + 1 /\ longer[n + 1] = <<a>>
          /\ \A i \in 1 .. n : longer[i] = text[i]
      BY <1>2, <1>3, <1>4, AppendElement
    <3> HIDE DEF longer
    <3>2. longer = [i \in 1 .. n + 1 |-> longer[i]]
      BY <3>1, LenProperties
    <3>3. By(new) = [i \in 1 .. n + 1 |-> new[i].by]
      BY <2>2 DEF By
    <3>4. \A i \in 1 .. n + 1 : longer[i] = new[i].by
      <4>1. \A i \in 1 .. n + 1 : i \in 1 .. n \/ i = n + 1
        BY <1>1
      <4> QED BY <1>2, <2>1, <2>2, <3>1, <4>1
    <3> QED BY <3>2, <3>3, <3>4
  <2> QED BY <1>6, <2>2, <2>6, <2>7
<1>8. CASE blocks # <<>> /\ new = [blocks EXCEPT ![Len(blocks)].by = Append(@, a)]
  <2>1. n # 0 /\ text # <<>>
    BY <1>1, <1>2, <1>3, <1>8, EmptySeq
  <2>2. PICK front \in Seq(Seq(Nat)), sub \in Seq(Nat) : text = Append(front, sub)
    BY <1>2, <2>1, SequenceEmptyOrAppend
  <2> DEFINE longer == Append(front, Append(sub, a))
             m == Len(front)
  <2>3. a \notin Elements(text) /\ Words(ans[a].after) = FlattenSeq(text)
    BY <1>2 DEF text
  <2>4. Grown(ans, text, longer, a)
    BY <1>2, <1>5, <2>2, <2>3, LastGrows
  <2>5. Append(sub, a) \in Seq(Nat) /\ m \in Nat
    BY AppendProperties, LenProperties
  <2>6. /\ longer \in Seq(Seq(Nat)) /\ DOMAIN longer = 1 .. m + 1 /\ longer[m + 1] = Append(sub, a)
        /\ \A i \in 1 .. m : longer[i] = front[i]
    BY <2>5, AppendElement
  <2>7. /\ DOMAIN text = 1 .. m + 1 /\ text[m + 1] = sub
        /\ \A i \in 1 .. m : text[i] = front[i]
    BY <2>2, AppendElement
  <2> HIDE DEF longer, m
  <2>8. m + 1 = n
    <3>1. Len(text) = m + 1
      BY <2>2, AppendProperties DEF m
    <3> QED BY <1>3, <3>1
  <2> DEFINE b == [blocks[n] EXCEPT !.by = Append(@, a)]
  <2>9. n \in 1 .. n
    BY <1>1, <2>1
  <2>10. blocks[n] \in Block /\ blocks[n].by = sub
    BY <1>1, <1>2, <2>7, <2>8, <2>9
  <2>11. b \in Block /\ b.by = Append(sub, a)
    BY <2>5, <2>10 DEF Block
  <2>12. new = [blocks EXCEPT ![n] = b]
    BY <1>8
  <2> HIDE DEF b, n
  <2>13. /\ new \in Seq(Block) /\ Len(new) = n
         /\ \A i \in 1 .. n : new[i] = IF i = n THEN b ELSE blocks[i]
    <3>1. n \in 1 .. Len(blocks) /\ Len(blocks) = n
      BY <2>9 DEF n
    <3> QED BY <1>1, <2>11, <2>12, <3>1, ExceptSeq
  <2>14. By(new) = longer
    <3>1. longer = [i \in 1 .. n |-> longer[i]]
      BY <2>6, <2>8, LenProperties
    <3>2. DOMAIN new = 1 .. n
      BY <2>13, LenProperties
    <3>3. By(new) = [i \in 1 .. n |-> new[i].by]
      BY <3>2 DEF By
    <3>4. ASSUME NEW i \in 1 .. n PROVE longer[i] = new[i].by
      <4>1. CASE i = n
        BY <2>6, <2>8, <2>11, <2>13, <4>1
      <4>2. CASE i # n
        <5>1. i \in 1 .. m
          BY <1>1, <2>5, <2>8, <4>2 DEF m
        <5> QED BY <1>2, <2>6, <2>7, <2>13, <4>2, <5>1
      <4> QED BY <4>1, <4>2
    <3> QED BY <3>1, <3>3, <3>4
  <2> QED BY <1>6, <2>4, <2>13, <2>14
<1> QED BY <1>7, <1>8 DEF OneMore

-----------------------------------------------------------------------------
(* What is made of a draft and of the parts that came back. *)

CorrectionKnown(ans, c) ==
  c # None => /\ DOMAIN c = {"draft", "targets", "long", "misformed"}
              /\ TextKnown(ans, c.draft)

DraftIds(in) == IF in.correction = None THEN {} ELSE Elements(in.correction.draft)

\* Parts written under the request in: from its evidence, and none of the draft's.
ProgressKnown(ans, in, p) ==
  /\ BlocksKnown(ans, p.blocks)
  /\ \A a \in Elements(By(p.blocks)) : ans[a].evidence = in.evidence
  /\ Elements(By(p.blocks)) \cap DraftIds(in) = {}

\* What an answer cites of the passages that it was given is in ev.
CitesIn(ans, a, ev) == ans[a].cites \cap ans[a].evidence \subseteq ev

\* A text with evidence in which all that its answers cite of theirs is.
TextFrom(ans, text, ev) ==
  TextKnown(ans, text) /\ \A a \in Elements(text) : CitesIn(ans, a, ev)

\* All that a text cites, be it of what its answers were given or not.
Resolves(ans, text, ev) == \A a \in Elements(text) : ans[a].cites \subseteq ev

PieceContinues(ans, s) ==
  \A k \in DOMAIN s : IsSuffix(SubSeq(s, 1, k - 1), Words(ans[s[k]].after))

\* A piece of the parts that came back.
Piece(ans, blocks, s) ==
  /\ s \in Seq(Nat) /\ IsInjective(s) /\ Range(s) \subseteq Elements(By(blocks))
  /\ PieceContinues(ans, s)

\* A text put together from a draft's subsections, in their places, and pieces.
LEMMA PickedKnown ==
  ASSUME NEW ans, NEW draft, NEW blocks, NEW text, NEW N,
         TextKnown(ans, draft), BlocksKnown(ans, blocks),
         Elements(By(blocks)) \cap Elements(draft) = {}, text \in Seq(Seq(Nat)),
         \A n \in DOMAIN text : n \in N => Piece(ans, blocks, text[n]),
         \A n, m \in DOMAIN text :
           n \in N /\ m \in N /\ n # m => Range(text[n]) \cap Range(text[m]) = {},
         \A n \in DOMAIN text :
           n \notin N => text[n] = <<>> \/ (n \in DOMAIN draft /\ text[n] = draft[n])
  PROVE  TextKnown(ans, text) /\ Elements(text) \subseteq Elements(draft) \cup Elements(By(blocks))
<1>1. Range(<<>>) = {} /\ IsInjective(<<>>) /\ DOMAIN <<>> = {}
  BY EmptySeq DEF Range, IsInjective
<1>2. /\ Elements(By(blocks)) \subseteq 1 .. Len(ans) /\ Elements(draft) \subseteq 1 .. Len(ans)
      /\ \A n \in DOMAIN draft : Range(draft[n]) \subseteq Elements(draft)
  BY DEF TextKnown, BlocksKnown, Elements
<1>3. \A n \in DOMAIN draft : IsInjective(draft[n]) /\ PieceContinues(ans, draft[n])
  BY DEF TextKnown, Apart, Continues, PieceContinues
<1>4. \A n, m \in DOMAIN draft : n # m => Range(draft[n]) \cap Range(draft[m]) = {}
  BY DEF TextKnown, Apart
<1>5. ASSUME NEW n \in DOMAIN text
      PROVE  /\ IsInjective(text[n]) /\ PieceContinues(ans, text[n])
             /\ Range(text[n]) \subseteq IF n \in N THEN Elements(By(blocks)) ELSE Elements(draft)
  <2>1. CASE n \in N
    BY <2>1 DEF Piece
  <2>2. CASE n \notin N /\ text[n] = <<>>
    BY <1>1, <2>2 DEF PieceContinues
  <2>3. CASE n \notin N /\ n \in DOMAIN draft /\ text[n] = draft[n]
    BY <1>2, <1>3, <2>3
  <2> QED BY <2>1, <2>2, <2>3
<1>6. Elements(text) \subseteq Elements(draft) \cup Elements(By(blocks))
  <2>1. \A n \in DOMAIN text : Range(text[n]) \subseteq Elements(draft) \cup Elements(By(blocks))
    BY <1>5
  <2> DEFINE all == Elements(draft) \cup Elements(By(blocks))
  <2> HIDE DEF all
  <2>2. \A n \in DOMAIN text : Range(text[n]) \subseteq all
    BY <2>1 DEF all
  <2>3. Elements(text) \subseteq all
    BY <2>2 DEF Elements
  <2> QED BY <2>3 DEF all
<1>7. Apart(text)
  <2>1. ASSUME NEW n \in DOMAIN text, NEW m \in DOMAIN text, n # m
        PROVE  Range(text[n]) \cap Range(text[m]) = {}
    <3>1. CASE n \in N /\ m \in N
      BY <2>1, <3>1
    <3>2. CASE (n \in N /\ m \notin N) \/ (n \notin N /\ m \in N)
      BY <1>5, <3>2
    <3>3. CASE n \notin N /\ m \notin N
      BY <1>1, <1>4, <2>1, <3>3
    <3> QED BY <3>1, <3>2, <3>3
  <2> QED BY <1>5, <2>1 DEF Apart
<1>8. Continues(ans, text)
  BY <1>5 DEF Continues, PieceContinues
<1> QED BY <1>2, <1>6, <1>7, <1>8 DEF TextKnown

\* Each part, and all of them in a row, is a piece.
LEMMA PartsArePieces ==
  ASSUME NEW ans, NEW blocks, BlocksKnown(ans, blocks)
  PROVE  /\ \A i \in DOMAIN blocks : Piece(ans, blocks, blocks[i].by)
         /\ \A i, j \in DOMAIN blocks : i # j => Range(blocks[i].by) \cap Range(blocks[j].by) = {}
         /\ Piece(ans, blocks, Words(blocks))
<1> DEFINE text == By(blocks)
           w == Words(blocks)
<1>1. /\ DOMAIN text = DOMAIN blocks /\ \A i \in DOMAIN blocks : text[i] = blocks[i].by
      /\ w = FlattenSeq(text)
  BY DEF By, Words
<1>2. /\ text \in Seq(Seq(Nat)) /\ Apart(text) /\ Continues(ans, text) /\ InOrder(ans, w)
  BY DEF BlocksKnown, TextKnown
<1> HIDE DEF text, w
<1>3. \A i \in DOMAIN text : text[i] \in Seq(Nat)
  BY <1>2, ElementOfSeq, LenProperties
<1>4. \A i \in DOMAIN text : Piece(ans, blocks, text[i])
  BY <1>2, <1>3 DEF Piece, Apart, Continues, PieceContinues, Elements, text
<1>5. w \in Seq(Nat) /\ IsInjective(w) /\ Range(w) = Elements(text)
  BY <1>1, <1>2, FlattenIsSeq, FlattenApart
<1>6. PieceContinues(ans, w)
  <2> SUFFICES ASSUME NEW k \in DOMAIN w
               PROVE  IsSuffix(SubSeq(w, 1, k - 1), Words(ans[w[k]].after))
    BY DEF PieceContinues
  <2>1. Words(ans[w[k]].after) = SubSeq(w, 1, k - 1)
    BY <1>2 DEF InOrder
  <2>2. SubSeq(w, 1, k - 1) \in Seq(Nat)
    <3>1. Len(w) \in Nat /\ DOMAIN w = 1 .. Len(w) /\ \A i \in 1 .. Len(w) : w[i] \in Nat
      BY <1>5, LenProperties, ElementOfSeq
    <3>2. k - 1 \in Int /\ \A i \in 1 .. k - 1 : i \in 1 .. Len(w)
      BY <3>1
    <3>3. \A i \in 1 .. k - 1 : w[i] \in Nat
      BY <3>1, <3>2
    <3> QED BY <3>2, <3>3, SubSeqProperties
  <2> QED BY <2>1, <2>2, EmptySuffix
<1>7. \A i, j \in DOMAIN text : i # j => Range(text[i]) \cap Range(text[j]) = {}
  BY <1>2 DEF Apart
<1> QED BY <1>1, <1>4, <1>5, <1>6, <1>7 DEF Piece, text, w

LEMMA NewTextKnown ==
  ASSUME ProgressKnown(answers, input, progress), CorrectionKnown(answers, input.correction)
  PROVE  TextFrom(answers, NewText, input.evidence)
<1> DEFINE blocks == progress.blocks
           ev == input.evidence
<1>1. /\ BlocksKnown(answers, blocks) /\ Rewritten = By(blocks)
      /\ \A a \in Elements(By(blocks)) : CitesIn(answers, a, ev)
  BY DEF ProgressKnown, Rewritten, By, CitesIn
<1>2. TextFrom(answers, Rewritten, ev)
  BY <1>1 DEF TextFrom, BlocksKnown
<1>3. CASE ~Split(input)
  BY <1>2, <1>3 DEF NewText
<1>4. CASE Split(input)
  <2> DEFINE draft == input.correction.draft
             targets == input.correction.targets
             For(n) == {i \in DOMAIN blocks : blocks[i].mark = n}
             plain == \A i \in DOMAIN blocks : blocks[i].mark = Plain
             whole == Words(blocks)
             Final(n, original) ==
               IF plain THEN IF targets = {n} THEN whole ELSE original
               ELSE IF For(n) = {} THEN original ELSE blocks[CHOOSE i \in For(n) : TRUE].by
             old == [n \in DOMAIN draft |-> Final(n, draft[n])]
             end == Final(Len(draft) + 1, <<>>)
             more == IF end = <<>> THEN old ELSE Append(old, end)
  <2>1. /\ TextKnown(answers, draft) /\ Elements(By(blocks)) \cap Elements(draft) = {}
    BY <1>4 DEF Split, CorrectionKnown, ProgressKnown, DraftIds
  <2>2. \A a \in Elements(draft) : CitesIn(answers, a, ev)
    BY <1>4 DEF Split, CitesOnly, Elements, CitesIn
  <2>3. NewText = Rewritten \/ NewText = more
    BY <1>4 DEF NewText, Spliced
  <2>4. /\ \A i \in DOMAIN blocks : Piece(answers, blocks, blocks[i].by)
        /\ \A i, j \in DOMAIN blocks : i # j => Range(blocks[i].by) \cap Range(blocks[j].by) = {}
        /\ Piece(answers, blocks, whole)
    BY <1>1, PartsArePieces
  <2> DEFINE N == {n \in Nat : IF plain THEN targets = {n} ELSE For(n) # {}}
             Pick(n) == IF plain THEN whole ELSE blocks[CHOOSE i \in For(n) : TRUE].by
  <2>5. \A n \in Nat : \A original : Final(n, original) = IF n \in N THEN Pick(n) ELSE original
    OBVIOUS
  <2>6. \A n \in N : Piece(answers, blocks, Pick(n))
    <3> SUFFICES ASSUME NEW n \in N PROVE Piece(answers, blocks, Pick(n))
      OBVIOUS
    <3>1. CASE plain
      BY <2>4, <3>1
    <3>2. CASE ~plain
      <4>1. (CHOOSE i \in For(n) : TRUE) \in For(n)
        BY <3>2
      <4>2. (CHOOSE i \in For(n) : TRUE) \in DOMAIN blocks
        BY <4>1
      <4> QED BY <2>4, <3>2, <4>2
    <3> QED BY <3>1, <3>2
  <2>7. \A n, m \in N : n # m => Range(Pick(n)) \cap Range(Pick(m)) = {}
    <3> SUFFICES ASSUME NEW n \in N, NEW m \in N, n # m
                 PROVE  Range(Pick(n)) \cap Range(Pick(m)) = {}
      OBVIOUS
    <3>1. CASE plain
      <4>1. targets = {n} /\ targets = {m}
        BY <3>1
      <4> QED BY <4>1
    <3>2. CASE ~plain
      <4> DEFINE i == CHOOSE x \in For(n) : TRUE
                 j == CHOOSE x \in For(m) : TRUE
      <4>1. i \in For(n) /\ j \in For(m)
        BY <3>2
      <4>2. /\ i \in DOMAIN blocks /\ blocks[i].mark = n
            /\ j \in DOMAIN blocks /\ blocks[j].mark = m
        BY <4>1
      <4>3. Pick(n) = blocks[i].by /\ Pick(m) = blocks[j].by
        BY <3>2
      <4> HIDE DEF i, j, Pick
      <4> QED BY <2>4, <4>2, <4>3
    <3> QED BY <3>1, <3>2
  <2>8. /\ Len(draft) \in Nat /\ DOMAIN draft = 1 .. Len(draft)
        /\ \A n \in 1 .. Len(draft) : draft[n] \in Seq(Nat)
    BY <2>1, LenProperties, ElementOfSeq DEF TextKnown
  <2>9. \A n \in Nat : \A original \in Seq(Nat) : Final(n, original) \in Seq(Nat)
    <3> HIDE DEF Final, N, Pick
    <3> QED BY <2>5, <2>6 DEF Piece
  <2> DEFINE d == Len(draft)
  <2>10. /\ old \in Seq(Seq(Nat)) /\ Len(old) = d /\ DOMAIN old = 1 .. d
         /\ \A n \in 1 .. d : old[n] = Final(n, draft[n])
    <3> HIDE DEF Final
    <3>1. \A n \in 1 .. d : n \in Nat
      BY <2>8
    <3>2. old \in [1 .. d -> Seq(Nat)]
      BY <2>8, <2>9, <3>1
    <3>3. old \in Seq(Seq(Nat)) /\ Len(old) = d
      BY <2>8, <3>2, SeqDef, LenProperties
    <3> QED BY <2>8, <3>3
  <2>11. end \in Seq(Nat) /\ end = Final(d + 1, <<>>)
    <3>1. <<>> \in Seq(Nat) /\ d + 1 \in Nat
      BY <2>8, EmptySeq
    <3> HIDE DEF Final
    <3> QED BY <2>9, <3>1
  <2> HIDE DEF blocks, draft, targets, Final, N, Pick, old, end, d, whole, plain, For, ev
  <2>12. /\ more \in Seq(Seq(Nat)) /\ DOMAIN more \subseteq 1 .. d + 1 /\ d \in Nat
         /\ \A n \in DOMAIN more : more[n] = Final(n, IF n \in DOMAIN draft THEN draft[n] ELSE <<>>)
    <3>0. d \in Nat /\ DOMAIN draft = 1 .. d
      BY <2>8 DEF d
    <3>1. CASE end = <<>>
      BY <2>10, <3>0, <3>1
    <3>2. CASE end # <<>>
      <4>1. /\ more \in Seq(Seq(Nat)) /\ DOMAIN more = 1 .. d + 1 /\ more[d + 1] = end
            /\ \A n \in 1 .. d : more[n] = old[n]
        BY <2>10, <2>11, <3>2, AppendElement
      <4>2. \A n \in 1 .. d + 1 : n \in 1 .. d \/ (n = d + 1 /\ n \notin 1 .. d)
        BY <3>0
      <4> HIDE DEF more
      <4> QED BY <2>10, <2>11, <3>0, <4>1, <4>2
    <3> QED BY <3>1, <3>2
  <2> HIDE DEF more
  <2>13. \A n \in DOMAIN more : n \in Nat
    BY <2>12
  <2>14. \A n \in DOMAIN more :
           /\ n \in N => more[n] = Pick(n)
           /\ n \notin N => more[n] = IF n \in DOMAIN draft THEN draft[n] ELSE <<>>
    BY <2>5, <2>12, <2>13
  <2>15. TextKnown(answers, more) /\ Elements(more) \subseteq Elements(draft) \cup Elements(By(blocks))
    <3>1. \A n \in DOMAIN more : n \in N => Piece(answers, blocks, more[n])
      BY <2>6, <2>14
    <3>2. \A n, m \in DOMAIN more :
            n \in N /\ m \in N /\ n # m => Range(more[n]) \cap Range(more[m]) = {}
      BY <2>7, <2>14
    <3>3. \A n \in DOMAIN more :
            n \notin N => more[n] = <<>> \/ (n \in DOMAIN draft /\ more[n] = draft[n])
      BY <2>14
    <3>4. more \in Seq(Seq(Nat))
      BY <2>12
    <3> QED BY <1>1, <2>1, <3>1, <3>2, <3>3, <3>4, PickedKnown
  <2>16. TextFrom(answers, more, ev)
    BY <1>1, <2>2, <2>15 DEF TextFrom
  <2> QED BY <1>2, <2>3, <2>16 DEF ev
<1> QED BY <1>3, <1>4

-----------------------------------------------------------------------------
(* What is kept while a section is written. *)

\* A cached answer: what it was asked to continue, and that it is newer.
CacheKnown(ans, Q, x) ==
  /\ x.id \in 1 .. Len(ans) /\ x.mark \in Nat
  /\ ans[x.id].after = Q.blocks /\ ans[x.id].evidence = Q.input.evidence
  /\ \A a \in Elements(By(Q.blocks)) \cup DraftIds(Q.input) : a < x.id

Working == {"ask", "drop", "save", "judge", "forget", "erase"}

DataKnown(ans) ==
  /\ stage # "assign" => CorrectionKnown(ans, order)
  /\ CorrectionKnown(ans, correction)
  /\ drafted # None => TextFrom(ans, drafted.text, drafted.evidence)
  /\ result # None /\ result.kind # "failed" => TextFrom(ans, result.text, result.evidence)
  /\ result # None /\ result.kind = "written" => Resolves(ans, result.text, result.evidence)
  /\ \A Q \in DOMAIN cache : CacheKnown(ans, Q, cache[Q])
  /\ \A in \in DOMAIN stored : ProgressKnown(ans, in, stored[in])
  /\ IF stage \in Working
     THEN /\ input.evidence = evidence /\ CorrectionKnown(ans, input.correction)
          /\ ProgressKnown(ans, input, progress)
     ELSE progress = NoProgress

AnswersKnown == \E S : answers \in Seq(S)

SoundInv == AnswersKnown /\ DataKnown(answers) /\ (stage = "assign" => answers = <<>>)

\* Answers are only added.
Grows(old, new) ==
  /\ Len(old) \in Nat /\ Len(new) \in Nat /\ Len(old) <= Len(new)
  /\ \A a \in 1 .. Len(old) : new[a] = old[a]

LEMMA TextGrows ==
  ASSUME NEW old, NEW new, Grows(old, new), NEW text, TextKnown(old, text)
  PROVE  TextKnown(new, text)
<1>1. 1 .. Len(old) \subseteq 1 .. Len(new)
  BY DEF Grows
<1>2. ASSUME NEW i \in DOMAIN text, NEW k \in DOMAIN text[i] PROVE text[i][k] \in 1 .. Len(old)
  BY DEF TextKnown, Elements, Range
<1>3. Continues(new, text)
  BY <1>2 DEF TextKnown, Continues, Grows
<1> QED BY <1>1, <1>3 DEF TextKnown

LEMMA BlocksGrow ==
  ASSUME NEW old, NEW new, Grows(old, new), NEW blocks, BlocksKnown(old, blocks)
  PROVE  BlocksKnown(new, blocks)
<1>1. TextKnown(new, By(blocks))
  BY TextGrows DEF BlocksKnown
<1>2. Range(Words(blocks)) \subseteq 1 .. Len(old)
  BY PartsArePieces DEF Piece, BlocksKnown, TextKnown
<1>3. InOrder(new, Words(blocks))
  <2> DEFINE w == Words(blocks)
  <2>1. \A k \in DOMAIN w : w[k] \in 1 .. Len(old)
    BY <1>2 DEF Range
  <2>2. InOrder(old, w)
    BY DEF BlocksKnown
  <2> HIDE DEF w
  <2>3. InOrder(new, w)
    BY <2>1, <2>2 DEF InOrder, Grows
  <2> QED BY <2>3 DEF w
<1> QED BY <1>1, <1>3 DEF BlocksKnown

LEMMA CorrectionGrows ==
  ASSUME NEW old, NEW new, Grows(old, new), NEW c, CorrectionKnown(old, c)
  PROVE  CorrectionKnown(new, c)
BY TextGrows DEF CorrectionKnown

LEMMA TextFromGrows ==
  ASSUME NEW old, NEW new, Grows(old, new), NEW text, NEW ev, TextFrom(old, text, ev)
  PROVE  TextFrom(new, text, ev)
<1>1. TextKnown(new, text)
  BY TextGrows DEF TextFrom
<1>2. Elements(text) \subseteq 1 .. Len(old)
  BY DEF TextFrom, TextKnown
<1> QED BY <1>1, <1>2 DEF TextFrom, Grows, CitesIn

LEMMA ResolvesStill ==
  ASSUME NEW old, NEW new, Grows(old, new), NEW text, NEW ev,
         TextKnown(old, text), Resolves(old, text, ev)
  PROVE  Resolves(new, text, ev)
BY DEF TextKnown, Resolves, Grows

LEMMA ProgressGrows ==
  ASSUME NEW old, NEW new, Grows(old, new), NEW in, NEW p, ProgressKnown(old, in, p)
  PROVE  ProgressKnown(new, in, p)
<1>1. BlocksKnown(new, p.blocks)
  BY BlocksGrow DEF ProgressKnown
<1>2. Elements(By(p.blocks)) \subseteq 1 .. Len(old)
  BY DEF ProgressKnown, BlocksKnown, TextKnown
<1> QED BY <1>1, <1>2 DEF ProgressKnown, Grows

LEMMA CacheGrows ==
  ASSUME NEW old, NEW new, Grows(old, new), NEW Q, NEW x, CacheKnown(old, Q, x)
  PROVE  CacheKnown(new, Q, x)
BY DEF CacheKnown, Grows

LEMMA DataGrows ==
  ASSUME NEW new, Grows(answers, new), DataKnown(answers)
  PROVE  DataKnown(new)
<1>1. \A Q \in DOMAIN cache : CacheKnown(new, Q, cache[Q])
  BY CacheGrows DEF DataKnown
<1>2. \A in \in DOMAIN stored : ProgressKnown(new, in, stored[in])
  BY ProgressGrows DEF DataKnown
<1>3. /\ stage # "assign" => CorrectionKnown(new, order)
      /\ CorrectionKnown(new, correction)
      /\ stage \in Working => CorrectionKnown(new, input.correction)
  BY CorrectionGrows DEF DataKnown
<1>4. /\ drafted # None => TextFrom(new, drafted.text, drafted.evidence)
      /\ result # None /\ result.kind # "failed" => TextFrom(new, result.text, result.evidence)
  BY TextFromGrows DEF DataKnown
<1>6. result # None /\ result.kind = "written" => Resolves(new, result.text, result.evidence)
  <2>1. result # None /\ result.kind = "written" =>
          /\ TextFrom(answers, result.text, result.evidence)
          /\ Resolves(answers, result.text, result.evidence)
    BY DEF DataKnown
  <2> QED BY <2>1, ResolvesStill DEF TextFrom
<1>5. stage \in Working => ProgressKnown(new, input, progress)
  BY ProgressGrows DEF DataKnown
<1> QED BY <1>1, <1>2, <1>3, <1>4, <1>5, <1>6 DEF DataKnown

\* Nothing is known of no parts.
LEMMA NoParts ==
  ASSUME NEW ans, NEW in
  PROVE  /\ ProgressKnown(ans, in, NoProgress) /\ Elements(By(NoProgress.blocks)) = {}
         /\ Words(NoProgress.blocks) = <<>>
<1>1. NoProgress.blocks = <<>> /\ DOMAIN <<>> = {} /\ \A S : <<>> \in Seq(S) /\ Len(<<>>) = 0
  BY EmptySeq DEF NoProgress
<1>2. By(<<>>) = <<>>
  BY <1>1 DEF By
<1>3. FlattenSeq(<<>>) = <<>>
  BY <1>1 DEF FlattenSeq
<1>4. Words(<<>>) = <<>>
  <2>1. Words(<<>>) = FlattenSeq(By(<<>>))
    BY DEF Words, By
  <2> QED BY <1>2, <1>3, <2>1
<1>5. Elements(<<>>) = {}
  BY <1>1 DEF Elements
<1>6. TextKnown(ans, <<>>)
  BY <1>1, <1>5 DEF TextKnown, Apart, Continues
<1>7. InOrder(ans, <<>>)
  BY <1>1 DEF InOrder
<1> QED BY <1>1, <1>2, <1>4, <1>5, <1>6, <1>7 DEF ProgressKnown, BlocksKnown

\* A part more, from an answer that is newer than all the parts and the draft.
LEMMA PartJoined ==
  ASSUME NEW ans, NEW x, ProgressKnown(ans, input, progress), CacheKnown(ans, Request, x),
         Len(ans) \in Nat
  PROVE  /\ BlocksKnown(ans, Joined(progress.blocks, x))
         /\ Elements(By(Joined(progress.blocks, x))) = Elements(By(progress.blocks)) \cup {x.id}
         /\ \A p : p.blocks = Joined(progress.blocks, x) => ProgressKnown(ans, input, p)
         /\ x.id \notin Elements(By(progress.blocks))
<1> DEFINE blocks == progress.blocks
           new == Joined(blocks, x)
           a == x.id
<1>1. /\ BlocksKnown(ans, blocks) /\ a \in 1 .. Len(ans) /\ x.mark \in Nat
      /\ ans[a].after = blocks /\ ans[a].evidence = input.evidence
      /\ \A b \in Elements(By(blocks)) \cup DraftIds(input) : b < a
  BY DEF ProgressKnown, CacheKnown, Request
<1>2. a \in Nat /\ ~(a < a)
  BY <1>1
<1>3. a \notin Elements(By(blocks)) /\ a \notin DraftIds(input)
  BY <1>1, <1>2
<1>4. OneMore(blocks, x.mark, a, new)
  BY DEF Joined, OneMore
<1>5. Words(ans[a].after) = Words(blocks)
  BY <1>1
<1> HIDE DEF blocks, new, a
<1>6. BlocksKnown(ans, new) /\ Elements(By(new)) = Elements(By(blocks)) \cup {a}
  BY <1>1, <1>2, <1>3, <1>4, <1>5, JoinedKnown
<1>7. ASSUME NEW p, p.blocks = new PROVE ProgressKnown(ans, input, p)
  <2>1. /\ \A b \in Elements(By(blocks)) : ans[b].evidence = input.evidence
        /\ Elements(By(blocks)) \cap DraftIds(input) = {}
    BY DEF ProgressKnown, blocks
  <2> QED BY <1>1, <1>3, <1>6, <1>7, <2>1 DEF ProgressKnown
<1> QED BY <1>3, <1>6, <1>7 DEF blocks, new, a

\* A new answer to the request that is now asked.
LEMMA NewAnswerKnown ==
  ASSUME SoundInv, Recorded, stage \in Working
  PROVE  /\ Grows(answers, answers') /\ Len(answers') = NewAnswer /\ AnswersKnown'
         /\ NewAnswer \notin 1 .. Len(answers)
         /\ \A x : x.id = NewAnswer /\ x.mark \in Nat => CacheKnown(answers', Request, x)
<1> DEFINE n == Len(answers)
<1>0. PICK cites \in Citations :
        answers' = Append(answers, [after |-> progress.blocks, exact |-> progress.exact,
                                    evidence |-> input.evidence, cites |-> cites])
  BY DEF Recorded
<1> DEFINE rec == [after |-> progress.blocks, exact |-> progress.exact,
                   evidence |-> input.evidence, cites |-> cites]
<1>1. PICK S : answers \in Seq(S)
  BY DEF SoundInv, AnswersKnown
<1>2. answers \in Seq(S \cup {rec})
  BY <1>1, SeqMonotonic
<1>3. answers' = Append(answers, rec)
  BY <1>0
<1>4. rec.after = progress.blocks /\ rec.evidence = input.evidence
  OBVIOUS
<1> HIDE DEF rec
<1>5. /\ answers' \in Seq(S \cup {rec}) /\ Len(answers') = n + 1 /\ answers'[n + 1] = rec
      /\ \A a \in 1 .. n : answers'[a] = answers[a] /\ n \in Nat
  BY <1>2, <1>3, AppendProperties, LenProperties
<1>6. n \in Nat
  BY <1>1, LenProperties
<1>7. Grows(answers, answers')
  <2>1. n + 1 \in Nat /\ n <= n + 1
    BY <1>6
  <2> QED BY <1>5, <1>6, <2>1 DEF Grows
<1>8. \A b \in Elements(By(progress.blocks)) \cup DraftIds(input) : b \in 1 .. n
  <2>1. ProgressKnown(answers, input, progress) /\ CorrectionKnown(answers, input.correction)
    BY DEF SoundInv, DataKnown
  <2> QED BY <2>1 DEF ProgressKnown, BlocksKnown, CorrectionKnown, TextKnown, DraftIds
<1>9. ASSUME NEW x, x.id = n + 1, x.mark \in Nat PROVE CacheKnown(answers', Request, x)
  <2>1. x.id \in 1 .. Len(answers')
    BY <1>5, <1>6, <1>9
  <2>2. \A b \in Elements(By(progress.blocks)) \cup DraftIds(input) : b < x.id
    BY <1>6, <1>8, <1>9
  <2>3. Request.blocks = progress.blocks /\ Request.input = input
    BY DEF Request
  <2> QED BY <1>4, <1>5, <1>9, <2>1, <2>2, <2>3 DEF CacheKnown
<1>10. n + 1 \notin 1 .. n
  BY <1>6
<1> QED BY <1>5, <1>7, <1>9, <1>10 DEF NewAnswer, AnswersKnown

-----------------------------------------------------------------------------
(* What each step leaves known. *)

\* A draft that is given is the answers of its own that wrote it.
LEMMA FirstDraft ==
  ASSUME NEW ans, NEW n \in Nat, Len(ans) = n, \A a \in 1 .. n : ans[a].after = <<>>
  PROVE  TextKnown(ans, [a \in 1 .. n |-> <<a>>])
<1> DEFINE text == [a \in 1 .. n |-> <<a>>]
<1>1. /\ DOMAIN text = 1 .. n /\ \A i \in 1 .. n : text[i] = <<i>> /\ i \in Nat
  OBVIOUS
<1>2. \A i \in 1 .. n : <<i>> \in Seq(Nat) /\ Len(<<i>>) = 1 /\ DOMAIN <<i>> = {1} /\ <<i>>[1] = i
  OBVIOUS
<1>3. \A i \in 1 .. n : Range(<<i>>) = {i} /\ IsInjective(<<i>>)
  BY <1>2 DEF Range, IsInjective
<1>4. text \in Seq(Seq(Nat))
  <2>1. text \in [1 .. n -> Seq(Nat)]
    BY <1>1, <1>2
  <2> QED BY <2>1, SeqDef
<1> HIDE DEF text
<1>5. Elements(text) \subseteq 1 .. Len(ans) /\ Apart(text)
  <2>1. \A i \in 1 .. n : Range(text[i]) = {i} /\ IsInjective(text[i])
    BY <1>1, <1>3
  <2>2. Elements(text) = UNION {Range(text[i]) : i \in 1 .. n}
    BY <1>1 DEF Elements
  <2>3. Elements(text) \subseteq 1 .. n
    BY <2>1, <2>2
  <2>4. Apart(text)
    BY <1>1, <2>1 DEF Apart
  <2> QED BY <2>3, <2>4
<1>6. Words(<<>>) = <<>> /\ IsSuffix(<<>>, <<>>)
  <2>1. <<>> \in Seq(Nat)
    BY EmptySeq
  <2>2. NoProgress.blocks = <<>>
    BY DEF NoProgress
  <2> QED BY <2>1, <2>2, NoParts, EmptySuffix
<1>7. Continues(ans, text)
  <2> SUFFICES ASSUME NEW i \in 1 .. n, NEW k \in DOMAIN text[i]
               PROVE  IsSuffix(SubSeq(text[i], 1, k - 1), Words(ans[text[i][k]].after))
    BY <1>1 DEF Continues
  <2>1. k = 1 /\ text[i][k] = i /\ k - 1 = 0
    BY <1>1, <1>2
  <2>2. SubSeq(text[i], 1, 0) = <<>>
    <3>1. text[i] \in Seq(Nat) /\ 0 \in 0 .. Len(text[i]) /\ 1 .. 0 = {}
      <4>1. text[i] = <<i>>
        BY <1>1
      <4>2. <<i>> \in Seq(Nat) /\ Len(<<i>>) = 1
        BY <1>2
      <4>3. 0 \in 0 .. 1 /\ 1 .. 0 = {}
        OBVIOUS
      <4> QED BY <4>1, <4>2, <4>3
    <3>2. SubSeq(text[i], 1, 0) = Restrict(text[i], 1 .. 0)
      BY <3>1, SubSeqRestrict
    <3>3. \A f : [x \in {} |-> f[x]] = <<>>
      BY EmptySeq
    <3> QED BY <3>1, <3>2, <3>3 DEF Restrict
  <2> QED BY <1>6, <2>1, <2>2
<1> QED BY <1>4, <1>5, <1>7 DEF TextKnown, text

LEMMA CorrectionsKnown ==
  ASSUME NEW ans, NEW draft, TextKnown(ans, draft), NEW c \in Corrections(draft)
  PROVE  CorrectionKnown(ans, c)
<1>1. c.draft = draft /\ DOMAIN c = {"draft", "targets", "long", "misformed"}
  BY DEF Corrections
<1> QED BY <1>1 DEF CorrectionKnown

LEMMA Nothing == Range(<<>>) = {} /\ DOMAIN <<>> = {} /\ (\A S : <<>> \in Seq(S)) /\ Len(<<>>) = 0
BY EmptySeq DEF Range

LEMMA InitSound == Init => SoundInv
<1> SUFFICES ASSUME Init PROVE SoundInv
  OBVIOUS
<1>1. AnswersKnown
  BY Nothing DEF Init, AnswersKnown
<1>2. DataKnown(answers)
  BY Nothing DEF Init, DataKnown, CorrectionKnown, Working
<1> QED BY <1>1, <1>2 DEF SoundInv, Init

\* A part of a draft that is given cites passages that it was written from.
GivenPart(cites) == [after |-> <<>>, exact |-> FALSE, evidence |-> cites, cites |-> cites]

LEMMA GivenAre ==
  ASSUME NEW n \in Nat, NEW cites, NEW ans, ans = [a \in 1 .. n |-> GivenPart(cites[a])]
  PROVE  /\ \E S : ans \in Seq(S)
         /\ Len(ans) = n /\ \A a \in 1 .. n : ans[a].after = <<>>
<1> DEFINE S == {ans[a] : a \in 1 .. n}
<1>1. ans \in [1 .. n -> S]
  OBVIOUS
<1> HIDE DEF S
<1>2. ans \in Seq(S) /\ Len(ans) = n
  BY <1>1, SeqDef, LenProperties
<1>3. \A a \in 1 .. n : ans[a].after = <<>>
  BY DEF GivenPart
<1> QED BY <1>2, <1>3

LEMMA CalledSound == ASSUME SoundInv, Called PROVE SoundInv'
<1>1. answers = <<>> /\ Len(answers) = 0 /\ progress = NoProgress /\ DataKnown(answers)
  BY Nothing DEF SoundInv, Called, DataKnown, Working
<1>2. PICK n \in Given : \E cites \in [1 .. n -> Citations] :
        /\ answers' = [a \in 1 .. n |-> GivenPart(cites[a])]
        /\ \E c \in IF n = 0 THEN {None} ELSE Corrections([a \in 1 .. n |-> <<a>>]) :
             order' = c /\ correction' = c
  BY DEF Called, GivenPart
<1>3. n \in Nat
  BY WritingAssumption
<1>4. PICK cites \in [1 .. n -> Citations] : answers' = [a \in 1 .. n |-> GivenPart(cites[a])]
  BY <1>2
<1>6. AnswersKnown' /\ Len(answers') = n /\ \A a \in 1 .. n : answers'[a].after = <<>>
  BY <1>3, <1>4, GivenAre DEF AnswersKnown
<1>7. Grows(answers, answers')
  <2>1. 1 .. 0 = {}
    OBVIOUS
  <2> QED BY <1>1, <1>3, <1>6, <2>1 DEF Grows
<1>8. DataKnown(answers')
  BY <1>1, <1>7, DataGrows
<1>9. TextKnown(answers', [a \in 1 .. n |-> <<a>>])
  BY <1>3, <1>6, FirstDraft
<1>10. PICK c \in IF n = 0 THEN {None} ELSE Corrections([a \in 1 .. n |-> <<a>>]) :
         order' = c /\ correction' = c
  BY <1>2
<1>11. CorrectionKnown(answers', c)
  <2>1. CASE n = 0
    BY <1>10, <2>1 DEF CorrectionKnown
  <2>2. CASE n # 0
    BY <1>9, <1>10, <2>2, CorrectionsKnown
  <2> QED BY <2>1, <2>2
<1>12. order' = c /\ correction' = c
  BY <1>10
<1>13. stage' = "begin" /\ UNCHANGED <<drafted, input, progress, cache, stored, result>>
  BY DEF Called, store
<1>14. DataKnown(answers)'
  BY <1>1, <1>8, <1>11, <1>12, <1>13 DEF DataKnown, Working
<1> QED BY <1>6, <1>13, <1>14 DEF SoundInv

LEMMA BeginSound == ASSUME SoundInv, BeginAttempt PROVE SoundInv'
<1>1. AnswersKnown /\ DataKnown(answers) /\ progress = NoProgress
  BY DEF SoundInv, BeginAttempt, DataKnown, Working
<1>2. /\ stage = "begin" /\ stage' = "ask"
      /\ UNCHANGED <<order, correction, drafted, cache, stored, result, answers>>
      /\ input' = [correction |-> correction, last |-> last, evidence |-> evidence']
      /\ progress' = IF input' \in DOMAIN stored THEN stored[input'] ELSE NoProgress
  BY DEF BeginAttempt, store, history
<1>3. input'.correction = correction /\ input'.evidence = evidence'
  BY <1>2
<1>4. ProgressKnown(answers, input', progress')
  BY <1>1, <1>2, NoParts DEF DataKnown
<1>5. DataKnown(answers)'
  BY <1>1, <1>2, <1>3, <1>4 DEF DataKnown, Working
<1> QED BY <1>1, <1>2, <1>5 DEF SoundInv, AnswersKnown

LEMMA NoEvidenceSound == ASSUME SoundInv, NoEvidence PROVE SoundInv'
<1>1. AnswersKnown /\ DataKnown(answers) /\ progress = NoProgress
  BY DEF SoundInv, NoEvidence, DataKnown, Working
<1>2. /\ stage = "begin" /\ stage' = "ended" /\ result'.kind = "failed"
      /\ UNCHANGED <<order, correction, drafted, progress, cache, stored, answers>>
  BY DEF NoEvidence, store, history, attempt
<1>3. DataKnown(answers)'
  BY <1>1, <1>2 DEF DataKnown, Working
<1> QED BY <1>1, <1>2, <1>3 DEF SoundInv, AnswersKnown

LEMMA GiveUpSound == ASSUME SoundInv, GiveUp PROVE SoundInv'
<1>1. AnswersKnown /\ DataKnown(answers) /\ progress = NoProgress
  BY DEF SoundInv, GiveUp, DataKnown, Working
<1>2. /\ stage = "begin" /\ stage' = "ended"
      /\ UNCHANGED <<order, correction, drafted, progress, cache, stored, answers>>
      /\ result' = IF drafted = None THEN [kind |-> "failed"]
                   ELSE [kind |-> "unresolved", text |-> drafted.text, evidence |-> drafted.evidence]
  BY DEF GiveUp, store, history, attempt
<1>3. \/ result'.kind = "failed"
      \/ /\ drafted # None /\ result'.kind = "unresolved"
         /\ result'.text = drafted.text /\ result'.evidence = drafted.evidence
  BY <1>2
<1>4. result' # None /\ result'.kind # "failed" =>
        /\ TextFrom(answers', result'.text, result'.evidence)
        /\ result'.kind # "written"
  BY <1>1, <1>2, <1>3 DEF DataKnown
<1>5. DataKnown(answers)'
  BY <1>1, <1>2, <1>4 DEF DataKnown, Working
<1> QED BY <1>1, <1>2, <1>5 DEF SoundInv, AnswersKnown

\* An answer that arrives has the next number, and the mark a number.
LEMMA NewAnswersAre ==
  ASSUME NEW ans, CorrectionKnown(ans, input.correction), NEW x \in NewAnswers
  PROVE  x.id = NewAnswer /\ x.mark \in Nat
<1>1. \A m \in Marks : m \in Nat
  <2>1. CASE Split(input)
    <3>1. Len(input.correction.draft) \in Nat
      BY <2>1, LenProperties DEF Split, CorrectionKnown, TextKnown
    <3> QED BY <2>1, <3>1 DEF Marks, Plain
  <2>2. CASE ~Split(input)
    BY <2>2 DEF Marks, Plain
  <2> QED BY <2>1, <2>2
<1>2. CASE x = Hollow
  BY <1>2 DEF Hollow, Plain
<1>3. CASE x \in [id : {NewAnswer}, mark : Marks, more : BOOLEAN, hollow : {FALSE}]
  <2>1. x.id = NewAnswer /\ x.mark \in Marks
    BY <1>3
  <2> QED BY <1>1, <2>1
<1> QED BY <1>2, <1>3 DEF NewAnswers

LEMMA AnswerSound == ASSUME SoundInv, ProviderAnswers PROVE SoundInv'
<1>1. /\ stage = "ask" /\ Recorded
      /\ UNCHANGED <<order, stored, result, stage, correction, drafted, evidence, input, progress>>
  BY DEF ProviderAnswers, Asking, attempt
<1>2. /\ Grows(answers, answers') /\ AnswersKnown'
      /\ \A x : x.id = NewAnswer /\ x.mark \in Nat => CacheKnown(answers', Request, x)
  BY <1>1, NewAnswerKnown DEF Working
<1>3. PICK x \in NewAnswers : cache' = Put(cache, Request, x)
  BY DEF ProviderAnswers
<1>4. CorrectionKnown(answers, input.correction) /\ DataKnown(answers)
  BY <1>1 DEF SoundInv, DataKnown, Working
<1>5. x.id = NewAnswer /\ x.mark \in Nat
  BY <1>4, NewAnswersAre
<1>6. DataKnown(answers')
  BY <1>2, <1>4, DataGrows
<1>7. \A Q \in DOMAIN cache' : CacheKnown(answers', Q, cache'[Q])
  <2>1. DOMAIN cache' = DOMAIN cache \cup {Request} /\ cache'[Request] = x
    BY <1>3 DEF Put
  <2>2. \A Q \in DOMAIN cache : cache'[Q] = IF Q = Request THEN x ELSE cache[Q]
    BY <1>3 DEF Put
  <2>3. CacheKnown(answers', Request, x)
    BY <1>2, <1>5
  <2>4. \A Q \in DOMAIN cache : CacheKnown(answers', Q, cache[Q])
    BY <1>6 DEF DataKnown
  <2> QED BY <2>1, <2>2, <2>3, <2>4
<1>8. DataKnown(answers)'
  BY <1>1, <1>6, <1>7 DEF DataKnown, Working
<1> QED BY <1>1, <1>2, <1>8 DEF SoundInv

LEMMA Received ==
  ASSUME NEW ans, NEW x, NEW cut, ProgressKnown(ans, input, progress),
         CacheKnown(ans, Request, x), Len(ans) \in Nat, Receive(x, cut)
  PROVE  ProgressKnown(ans, input, progress') /\ stage' \in {"drop", "save", "judge"}
<1>1. CASE x.hollow
  BY <1>1 DEF Receive
<1>2. CASE ~x.hollow
  <2>1. progress'.blocks = Joined(progress.blocks, x) /\ stage' \in {"save", "judge"}
    BY <1>2 DEF Receive
  <2> QED BY <2>1, PartJoined
<1> QED BY <1>1, <1>2

LEMMA TakeSound == ASSUME SoundInv, TakeAnswer PROVE SoundInv'
<1>1. /\ stage = "ask" /\ Request \in DOMAIN cache /\ Receive(cache[Request], FALSE)
      /\ UNCHANGED <<order, stored, result, correction, drafted, evidence, input, cache, answers>>
  BY DEF TakeAnswer, Asking, attempt
<1>2. AnswersKnown /\ DataKnown(answers) /\ Len(answers) \in Nat
  BY LenProperties DEF SoundInv, AnswersKnown
<1>3. ProgressKnown(answers, input, progress) /\ CacheKnown(answers, Request, cache[Request])
  BY <1>1, <1>2 DEF DataKnown, Working
<1>4. ProgressKnown(answers, input, progress') /\ stage' \in {"drop", "save", "judge"}
  BY <1>1, <1>2, <1>3, Received
<1>5. DataKnown(answers)'
  BY <1>1, <1>2, <1>4 DEF DataKnown, Working
<1> QED BY <1>1, <1>2, <1>4, <1>5 DEF SoundInv, AnswersKnown

LEMMA CutOffSound == ASSUME SoundInv, AnswerIsCutOff PROVE SoundInv'
<1>1. /\ stage = "ask" /\ Recorded
      /\ UNCHANGED <<order, stored, result, correction, drafted, evidence, input, cache>>
  BY DEF AnswerIsCutOff, Asking, attempt
<1>2. PICK x \in NewAnswers : Receive(x, TRUE)
  BY DEF AnswerIsCutOff
<1>3. /\ Grows(answers, answers') /\ AnswersKnown'
      /\ \A y : y.id = NewAnswer /\ y.mark \in Nat => CacheKnown(answers', Request, y)
  BY <1>1, NewAnswerKnown DEF Working
<1>4. CorrectionKnown(answers, input.correction) /\ DataKnown(answers)
  BY <1>1 DEF SoundInv, DataKnown, Working
<1>5. CacheKnown(answers', Request, x)
  BY <1>3, <1>4, NewAnswersAre
<1>6. DataKnown(answers')
  BY <1>3, <1>4, DataGrows
<1>7. ProgressKnown(answers', input, progress) /\ Len(answers') \in Nat
  BY <1>1, <1>3, <1>6 DEF DataKnown, Working, Grows
<1>8. ProgressKnown(answers', input, progress') /\ stage' \in {"drop", "save", "judge"}
  BY <1>2, <1>5, <1>7, Received
<1>9. DataKnown(answers)'
  BY <1>1, <1>6, <1>8 DEF DataKnown, Working
<1> QED BY <1>1, <1>3, <1>8, <1>9 DEF SoundInv

LEMMA FailSound ==
  ASSUME SoundInv, RequestFails \/ DropAnswer PROVE SoundInv'
<1>1. /\ stage \in {"ask", "drop"} /\ stage' = "begin" /\ progress' = NoProgress
      /\ UNCHANGED <<order, stored, result, correction, drafted, answers>>
      /\ cache' = cache \/ cache' = Forget(cache, Request)
  BY DEF RequestFails, DropAnswer, Asking, AttemptFails, Leave, history
<1>2. AnswersKnown /\ DataKnown(answers)
  BY DEF SoundInv
<1>3. \A Q \in DOMAIN cache' : CacheKnown(answers, Q, cache'[Q])
  BY <1>1, <1>2 DEF DataKnown, Forget, Restrict
<1>4. DataKnown(answers)'
  BY <1>1, <1>2, <1>3 DEF DataKnown, Working
<1> QED BY <1>1, <1>2, <1>4 DEF SoundInv, AnswersKnown

LEMMA SaveSound == ASSUME SoundInv, SavePart PROVE SoundInv'
<1>1. /\ stage = "save" /\ stage' = "ask" /\ stored' = Put(stored, input, progress)
      /\ UNCHANGED <<order, cache, result, correction, drafted, evidence, input, progress, answers>>
  BY DEF SavePart, attempt, history
<1>2. AnswersKnown /\ DataKnown(answers) /\ ProgressKnown(answers, input, progress)
  BY <1>1 DEF SoundInv, DataKnown, Working
<1>3. \A in \in DOMAIN stored' : ProgressKnown(answers, in, stored'[in])
  <2>1. DOMAIN stored' = DOMAIN stored \cup {input} /\ stored'[input] = progress
    BY <1>1 DEF Put
  <2>2. \A in \in DOMAIN stored : stored'[in] = IF in = input THEN progress ELSE stored[in]
    BY <1>1 DEF Put
  <2> QED BY <1>2, <2>1, <2>2 DEF DataKnown
<1>4. DataKnown(answers)'
  BY <1>1, <1>2, <1>3 DEF DataKnown, Working
<1> QED BY <1>1, <1>2, <1>4 DEF SoundInv, AnswersKnown

LEMMA RefuseFormatSound == ASSUME SoundInv, RefuseFormat PROVE SoundInv'
<1>1. /\ stage = "judge" /\ stage' = "forget"
      /\ correction' = [correction EXCEPT !.misformed = TRUE]
      /\ UNCHANGED <<order, cache, stored, result, drafted, evidence, input, progress, answers>>
  BY DEF RefuseFormat, Judging, store, history
<1>2. AnswersKnown /\ DataKnown(answers)
  BY DEF SoundInv
<1>3. CorrectionKnown(answers, correction')
  <2>1. CASE correction = None
    <3>1. correction' = None
      BY <1>1, <2>1 DEF None
    <3> QED BY <3>1 DEF CorrectionKnown
  <2>2. CASE correction # None
    <3>1. /\ DOMAIN correction = {"draft", "targets", "long", "misformed"}
          /\ TextKnown(answers, correction.draft)
      BY <1>2, <2>2 DEF DataKnown, CorrectionKnown
    <3>2. DOMAIN correction' = DOMAIN correction /\ correction'.draft = correction.draft
      BY <1>1, <3>1
    <3> QED BY <3>1, <3>2 DEF CorrectionKnown
  <2> QED BY <2>1, <2>2
<1>4. DataKnown(answers)'
  BY <1>1, <1>2, <1>3 DEF DataKnown, Working
<1> QED BY <1>1, <1>2, <1>4 DEF SoundInv, AnswersKnown

LEMMA AcceptSound == ASSUME SoundInv, Accept PROVE SoundInv'
<1>1. /\ stage = "judge" /\ stage' = "ended" /\ progress' = NoProgress
      /\ result' = [kind |-> "written", text |-> NewText, evidence |-> evidence]
      /\ UNCHANGED <<order, cache, stored, correction, drafted, evidence, answers>>
  BY DEF Accept, Judging, Leave, attempt, store, history
<1>2. AnswersKnown /\ DataKnown(answers)
  BY DEF SoundInv
<1>3. TextFrom(answers, NewText, evidence)
  BY <1>1, <1>2, NewTextKnown DEF DataKnown, Working
<1>4. result'.text = NewText /\ result'.evidence = evidence
  BY <1>1
<1>5. Resolves(answers, NewText, evidence)
  BY DEF Accept, CitesOnly, Resolves, Elements
<1>6. DataKnown(answers)'
  BY <1>1, <1>2, <1>3, <1>4, <1>5 DEF DataKnown, Working
<1> QED BY <1>1, <1>2, <1>6 DEF SoundInv, AnswersKnown

LEMMA RefuseTextSound == ASSUME SoundInv, RefuseText PROVE SoundInv'
<1>1. /\ stage = "judge" /\ stage' = "forget" /\ correction' \in Corrections(NewText)
      /\ drafted' = drafted \/ drafted' = [text |-> NewText, evidence |-> evidence]
      /\ UNCHANGED <<order, cache, stored, result, evidence, input, progress, answers>>
  BY DEF RefuseText, Judging, store, history
<1>2. AnswersKnown /\ DataKnown(answers)
  BY DEF SoundInv
<1>3. TextFrom(answers, NewText, evidence)
  BY <1>1, <1>2, NewTextKnown DEF DataKnown, Working
<1>4. CorrectionKnown(answers, correction')
  BY <1>1, <1>3, CorrectionsKnown DEF TextFrom
<1>5. drafted' # None => TextFrom(answers, drafted'.text, drafted'.evidence)
  <2>1. CASE drafted' = drafted
    BY <1>2, <2>1 DEF DataKnown
  <2>2. CASE drafted' = [text |-> NewText, evidence |-> evidence]
    <3>1. drafted'.text = NewText /\ drafted'.evidence = evidence
      BY <2>2
    <3> QED BY <1>3, <3>1
  <2> QED BY <1>1, <2>1, <2>2
<1>6. DataKnown(answers)'
  BY <1>1, <1>2, <1>4, <1>5 DEF DataKnown, Working
<1> QED BY <1>1, <1>2, <1>6 DEF SoundInv, AnswersKnown

LEMMA ForgetSound == ASSUME SoundInv, ForgetAnswer PROVE SoundInv'
<1>1. /\ stage = "forget" /\ stage' = "erase" /\ \E key : cache' = Forget(cache, key)
      /\ UNCHANGED <<order, stored, result, correction, drafted, evidence, input, progress, answers>>
  BY DEF ForgetAnswer, attempt
<1>2. AnswersKnown /\ DataKnown(answers)
  BY DEF SoundInv
<1>3. \A Q \in DOMAIN cache' : CacheKnown(answers, Q, cache'[Q])
  BY <1>1, <1>2 DEF DataKnown, Forget, Restrict
<1>4. DataKnown(answers)'
  BY <1>1, <1>2, <1>3 DEF DataKnown, Working
<1> QED BY <1>1, <1>2, <1>4 DEF SoundInv, AnswersKnown

LEMMA EraseSound == ASSUME SoundInv, ErasePart PROVE SoundInv'
<1>1. /\ stage = "erase" /\ stage' = "begin" /\ stored' = Forget(stored, input)
      /\ progress' = NoProgress
      /\ UNCHANGED <<order, cache, result, correction, drafted, answers>>
  BY DEF ErasePart, Leave, history
<1>2. AnswersKnown /\ DataKnown(answers)
  BY DEF SoundInv
<1>3. \A in \in DOMAIN stored' : ProgressKnown(answers, in, stored'[in])
  BY <1>1, <1>2 DEF DataKnown, Forget, Restrict
<1>4. DataKnown(answers)'
  BY <1>1, <1>2, <1>3 DEF DataKnown, Working
<1> QED BY <1>1, <1>2, <1>4 DEF SoundInv, AnswersKnown

LEMMA StopSound == ASSUME SoundInv, Stop PROVE SoundInv'
<1>1. /\ stage # "assign" /\ stage' = "begin" /\ progress' = NoProgress
      /\ correction' = order /\ drafted' = None
      /\ UNCHANGED <<order, cache, stored, result, answers>>
  BY DEF Stop, Leave, store, history
<1>2. AnswersKnown /\ DataKnown(answers)
  BY DEF SoundInv
<1>3. DataKnown(answers)'
  BY <1>1, <1>2 DEF DataKnown, Working
<1> QED BY <1>1, <1>2, <1>3 DEF SoundInv, AnswersKnown

LEMMA TrimSound == ASSUME SoundInv, TrimCache PROVE SoundInv'
<1>1. /\ stage = "begin" /\ UNCHANGED <<order, stage, stored, result, correction, drafted, evidence,
                                         input, progress, answers>>
      /\ \E oldest : cache' = Restrict(cache, {q \in DOMAIN cache : cache[q].id > oldest})
  BY DEF TrimCache, attempt, history
<1>2. AnswersKnown /\ DataKnown(answers)
  BY DEF SoundInv
<1>3. \A Q \in DOMAIN cache' : CacheKnown(answers, Q, cache'[Q])
  BY <1>1, <1>2 DEF DataKnown, Restrict
<1>4. DataKnown(answers)'
  BY <1>1, <1>2, <1>3 DEF DataKnown, Working
<1> QED BY <1>1, <1>2, <1>4 DEF SoundInv, AnswersKnown

LEMMA StillSound == ASSUME SoundInv, UNCHANGED <<order, writing>> PROVE SoundInv'
<1>1. UNCHANGED <<order, stage, stored, cache, result, correction, drafted, evidence, input,
                  progress, answers>>
  BY DEF writing, attempt, store, history
<1>2. AnswersKnown /\ DataKnown(answers)
  BY DEF SoundInv
<1>3. DataKnown(answers)'
  BY <1>1, <1>2 DEF DataKnown
<1> QED BY <1>1, <1>2, <1>3 DEF SoundInv, AnswersKnown

LEMMA NextSound == SoundInv /\ [Next]_vars => SoundInv'
<1> SUFFICES ASSUME SoundInv, [Next]_vars PROVE SoundInv'
  OBVIOUS
<1>1. CASE AssignLeaves \/ UNCHANGED vars
  BY <1>1, StillSound DEF AssignLeaves, vars
<1>2. CASE Next /\ ~AssignLeaves
  BY <1>2, CalledSound, BeginSound, NoEvidenceSound, GiveUpSound, AnswerSound, TakeSound,
     CutOffSound, FailSound, SaveSound, RefuseFormatSound, AcceptSound, RefuseTextSound,
     ForgetSound, EraseSound, StopSound, TrimSound DEF Next
<1> QED BY <1>1, <1>2

LEMMA SoundIsSound == SoundInv => SectionIsSound
<1> SUFFICES ASSUME SoundInv PROVE SectionIsSound
  OBVIOUS
<1>1. DataKnown(answers)
  BY DEF SoundInv
<1>2. \A blocks : BlocksKnown(answers, blocks) => Told(blocks)
  BY DEF BlocksKnown, InOrder, Told
<1>3. BlocksKnown(answers, progress.blocks)
  <2>1. CASE stage \in Working
    BY <1>1, <2>1 DEF DataKnown, ProgressKnown
  <2>2. CASE stage \notin Working
    BY <1>1, <2>2, NoParts DEF DataKnown, ProgressKnown
  <2> QED BY <2>1, <2>2
<1>4. \A in \in DOMAIN stored : BlocksKnown(answers, stored[in].blocks)
  BY <1>1 DEF DataKnown, ProgressKnown
<1>5. ASSUME NEW text, NEW ev, TextFrom(answers, text, ev)
      PROVE  OneTelling(text) /\ Grounded(text, ev)
  <2>1. TextKnown(answers, text) /\ \A a \in Elements(text) : CitesIn(answers, a, ev)
    BY <1>5 DEF TextFrom
  <2>2. IsInjective(FlattenSeq(text))
    BY <2>1, FlattenApart DEF TextKnown
  <2>3. OneTelling(text)
    BY <2>1, <2>2 DEF TextKnown, Continues, OneTelling
  <2>4. Grounded(text, ev)
    BY <2>1 DEF Grounded, Elements, CitesIn
  <2> QED BY <2>3, <2>4
<1>6. \A text, ev : Resolves(answers, text, ev) => CitesOnly(text, ev)
  BY DEF Resolves, CitesOnly, Elements
<1> QED BY <1>1, <1>2, <1>3, <1>4, <1>5, <1>6 DEF DataKnown, SectionIsSound

\* What is kept while a section is written is told once, and so is what is handed
\* out.  Each passage that a part of it was given and cites is handed out with it,
\* under that very id, whatever was shortened or gathered anew since the part was
\* written; and of a section that passed its checks, so is all that it cites.
THEOREM SectionsAreSound == Spec => []SectionIsSound
BY InitSound, NextSound, SoundIsSound, PTL DEF Spec

-----------------------------------------------------------------------------
(* Where an answer can still be found: in the cache under one request, and in *)
(* the parts saved under that request's input.                              *)

AnswersIn(p) == Elements(By(p.blocks))
Saved == IF input \in DOMAIN stored THEN stored[input] ELSE NoProgress
RequestAfter(p) == [input |-> input, blocks |-> p.blocks, exact |-> p.exact]

CacheOnce == \A Q, R \in DOMAIN cache : cache[Q].id = cache[R].id => Q = R
CacheOwn ==
  \A Q \in DOMAIN cache : \A in \in DOMAIN stored : cache[Q].id \in AnswersIn(stored[in]) => Q.input = in

AskKnown == stage \in {"ask", "drop"} => progress = Saved

\* What came last is in no saved part, and cached only where it is looked for.
CameLast(a) ==
  /\ a \in 1 .. Len(answers) /\ AnswersIn(progress) = AnswersIn(Saved) \cup {a}
  /\ \A in \in DOMAIN stored : a \notin AnswersIn(stored[in])
  /\ \A Q \in DOMAIN cache : cache[Q].id = a => Q = RequestAfter(Saved)

LastKnown == stage \in {"save", "judge", "forget"} => \E a : CameLast(a)

Lost(a) ==
  /\ a \in 1 .. Len(answers)
  /\ \A Q \in DOMAIN cache : cache[Q].id # a
  /\ \A in \in DOMAIN stored : a \notin AnswersIn(stored[in])
  /\ stage # "erase" => a \notin AnswersIn(progress)

Thrown == \A w \in rejected : \E a \in Range(w) : Lost(a)

ThrownInv == CacheOnce /\ CacheOwn /\ AskKnown /\ LastKnown /\ Thrown

Less(old, new) == DOMAIN new \subseteq DOMAIN old /\ \A x \in DOMAIN new : new[x] = old[x]

LEMMA WordsAre ==
  ASSUME NEW ans, NEW blocks, BlocksKnown(ans, blocks)
  PROVE  Range(Words(blocks)) = Elements(By(blocks))
<1>1. By(blocks) \in Seq(Seq(Nat)) /\ Apart(By(blocks)) /\ Words(blocks) = FlattenSeq(By(blocks))
  BY DEF BlocksKnown, TextKnown, Words, By
<1> QED BY <1>1, FlattenApart

LEMMA InitThrown == Init => ThrownInv
<1> SUFFICES ASSUME Init PROVE ThrownInv
  OBVIOUS
<1>1. DOMAIN cache = {} /\ stage = "assign" /\ rejected = {}
  BY Nothing DEF Init
<1> QED BY <1>1 DEF ThrownInv, CacheOnce, CacheOwn, AskKnown, LastKnown, Thrown

\* Nothing comes back when less is kept and what is in memory is given up.
LEMMA LeaveThrown ==
  ASSUME ThrownInv, Less(cache, cache'), Less(stored, stored'), Grows(answers, answers'),
         rejected' = rejected, stage' \in {"begin", "ended"}, progress' = NoProgress
  PROVE  ThrownInv'
<1>1. CacheOnce' /\ CacheOwn'
  BY DEF ThrownInv, CacheOnce, CacheOwn, Less
<1>2. AskKnown' /\ LastKnown'
  BY DEF AskKnown, LastKnown
<1>3. \A a : Lost(a) => Lost(a)'
  <2>1. AnswersIn(NoProgress) = {}
    BY NoParts DEF AnswersIn
  <2>2. 1 .. Len(answers) \subseteq 1 .. Len(answers')
    BY DEF Grows
  <2> QED BY <2>1, <2>2 DEF Lost, Less
<1>4. Thrown'
  BY <1>3 DEF ThrownInv, Thrown
<1> QED BY <1>1, <1>2, <1>4 DEF ThrownInv

LEMMA SameGrows ==
  ASSUME SoundInv
  PROVE  Len(answers) \in Nat /\ (answers' = answers => Grows(answers, answers'))
BY LenProperties DEF SoundInv, AnswersKnown, Grows

LEMMA LeavingThrown ==
  ASSUME SoundInv, ThrownInv,
         \/ NoEvidence \/ GiveUp \/ RequestFails \/ DropAnswer
         \/ Accept \/ ErasePart \/ Stop \/ TrimCache
  PROVE  ThrownInv'
<1>1. answers' = answers /\ rejected' = rejected
  BY DEF NoEvidence, GiveUp, RequestFails, DropAnswer, Accept, ErasePart, Stop, TrimCache,
         Asking, Judging, history
<1>2. stage' \in {"begin", "ended"} /\ progress' = NoProgress
  <2>1. stage = "begin" => progress = NoProgress
    BY DEF SoundInv, DataKnown, Working
  <2> QED BY <2>1 DEF NoEvidence, GiveUp, RequestFails, DropAnswer, Accept, ErasePart, Stop,
             TrimCache, AttemptFails, Leave
<1>3. Less(cache, cache')
  BY DEF NoEvidence, GiveUp, RequestFails, DropAnswer, Accept, ErasePart, Stop,
         TrimCache, Asking, Judging, store, Less, Forget, Restrict
<1>4. Less(stored, stored')
  BY DEF NoEvidence, GiveUp, RequestFails, DropAnswer, Accept, ErasePart, Stop,
         TrimCache, Asking, Judging, store, Less, Forget, Restrict
<1> QED BY <1>1, <1>2, <1>3, <1>4, SameGrows, LeaveThrown

LEMMA CalledThrown == ASSUME SoundInv, ThrownInv, Called PROVE ThrownInv'
<1>1. /\ stage' = "begin" /\ cache' = cache /\ stored' = stored /\ rejected' = rejected
      /\ progress' = progress
  BY DEF Called, store
<1>2. answers = <<>> /\ progress = NoProgress
  BY DEF SoundInv, DataKnown, Working, Called
<1>3. Grows(answers, answers')
  <2>1. PICK n \in Given : \E cites : answers' = [a \in 1 .. n |-> GivenPart(cites[a])]
    BY DEF Called, GivenPart
  <2>2. n \in Nat
    BY WritingAssumption
  <2>3. Len(answers') = n
    BY <2>1, <2>2, GivenAre
  <2>4. Len(answers) = 0 /\ 1 .. 0 = {}
    BY <1>2, Nothing
  <2> QED BY <2>2, <2>3, <2>4 DEF Grows
<1>4. Less(cache, cache') /\ Less(stored, stored')
  BY <1>1 DEF Less
<1> QED BY <1>1, <1>2, <1>3, <1>4, LeaveThrown

LEMMA BeginThrown == ASSUME SoundInv, ThrownInv, BeginAttempt PROVE ThrownInv'
<1>1. /\ stage' = "ask" /\ UNCHANGED <<cache, stored, answers, rejected>>
      /\ progress' = IF input' \in DOMAIN stored THEN stored[input'] ELSE NoProgress
  BY DEF BeginAttempt, store, history
<1>2. CacheOnce' /\ CacheOwn' /\ AskKnown' /\ LastKnown'
  BY <1>1 DEF ThrownInv, CacheOnce, CacheOwn, AskKnown, LastKnown, Saved
<1>3. \A a : Lost(a) => Lost(a)'
  <2>1. AnswersIn(NoProgress) = {}
    BY NoParts DEF AnswersIn
  <2> QED BY <1>1, <2>1 DEF Lost
<1>4. Thrown'
  BY <1>1, <1>3 DEF ThrownInv, Thrown
<1> QED BY <1>2, <1>4 DEF ThrownInv

\* An answer that was not there before is nowhere.
LEMMA NewIsNowhere ==
  ASSUME SoundInv
  PROVE  /\ NewAnswer \notin 1 .. Len(answers)
         /\ \A Q \in DOMAIN cache : cache[Q].id # NewAnswer
         /\ \A in \in DOMAIN stored : NewAnswer \notin AnswersIn(stored[in])
<1>1. NewAnswer \notin 1 .. Len(answers)
  BY SameGrows DEF NewAnswer
<1>2. DataKnown(answers)
  BY DEF SoundInv
<1>3. \A Q \in DOMAIN cache : cache[Q].id \in 1 .. Len(answers)
  BY <1>2 DEF DataKnown, CacheKnown
<1>4. \A in \in DOMAIN stored : AnswersIn(stored[in]) \subseteq 1 .. Len(answers)
  BY <1>2 DEF DataKnown, ProgressKnown, BlocksKnown, TextKnown, AnswersIn
<1> QED BY <1>1, <1>3, <1>4

LEMMA AnswerThrown == ASSUME SoundInv, ThrownInv, ProviderAnswers PROVE ThrownInv'
<1>1. /\ stage = "ask" /\ Recorded /\ UNCHANGED <<stored, stage, input, progress, rejected>>
  BY DEF ProviderAnswers, Asking
<1>2. Grows(answers, answers')
  BY <1>1, NewAnswerKnown DEF Working
<1>3. PICK x \in NewAnswers : cache' = Put(cache, Request, x)
  BY DEF ProviderAnswers
<1>4. x.id = NewAnswer
  <2>1. CorrectionKnown(answers, input.correction)
    BY <1>1 DEF SoundInv, DataKnown, Working
  <2> QED BY <2>1, NewAnswersAre
<1>5. /\ DOMAIN cache' = DOMAIN cache \cup {Request} /\ cache'[Request] = x
      /\ \A Q \in DOMAIN cache : Q # Request => cache'[Q] = cache[Q]
  BY <1>3 DEF Put
<1>6. Request.input = input
  BY DEF Request
<1>7. CacheOnce'
  BY <1>4, <1>5, NewIsNowhere DEF ThrownInv, CacheOnce
<1>8. CacheOwn'
  BY <1>1, <1>4, <1>5, NewIsNowhere DEF ThrownInv, CacheOwn
<1>9. AskKnown' /\ LastKnown'
  BY <1>1 DEF ThrownInv, AskKnown, LastKnown, Saved
<1>10. \A a : Lost(a) => Lost(a)'
  <2>1. 1 .. Len(answers) \subseteq 1 .. Len(answers')
    BY <1>2 DEF Grows
  <2> QED BY <1>1, <1>4, <1>5, <2>1, NewIsNowhere DEF Lost
<1>11. Thrown'
  BY <1>1, <1>10 DEF ThrownInv, Thrown
<1> QED BY <1>7, <1>8, <1>9, <1>11 DEF ThrownInv

\* A part more in memory.
LEMMA ReceivedLast ==
  ASSUME SoundInv, ThrownInv, stage = "ask", NEW ans, NEW x, NEW cut, Len(ans) \in Nat,
         ProgressKnown(ans, input, progress), CacheKnown(ans, Request, x), Receive(x, cut),
         UNCHANGED <<stored, input>>
  PROVE  \/ stage' = "drop" /\ progress' = progress
         \/ /\ stage' \in {"save", "judge"} /\ AnswersIn(progress') = AnswersIn(Saved') \cup {x.id}
            /\ AnswersIn(progress') = AnswersIn(progress) \cup {x.id} /\ x.id \notin AnswersIn(progress)
<1>1. CASE x.hollow
  BY <1>1 DEF Receive
<1>2. CASE ~x.hollow
  <2>1. progress'.blocks = Joined(progress.blocks, x) /\ stage' \in {"save", "judge"}
    BY <1>2 DEF Receive
  <2>2. AnswersIn(progress') = AnswersIn(progress) \cup {x.id} /\ x.id \notin AnswersIn(progress)
    BY <2>1, PartJoined DEF AnswersIn
  <2>3. Saved' = progress
    BY DEF ThrownInv, AskKnown, Saved
  <2> QED BY <2>1, <2>2, <2>3
<1> QED BY <1>1, <1>2

LEMMA TakeThrown == ASSUME SoundInv, ThrownInv, TakeAnswer PROVE ThrownInv'
<1>1. /\ stage = "ask" /\ Request \in DOMAIN cache /\ Receive(cache[Request], FALSE)
      /\ UNCHANGED <<stored, input, cache, answers, rejected>>
  BY DEF TakeAnswer, Asking
<1>0. PICK a : a = cache[Request].id
  OBVIOUS
<1>2. /\ Len(answers) \in Nat /\ ProgressKnown(answers, input, progress)
      /\ CacheKnown(answers, Request, cache[Request])
  BY <1>1, SameGrows DEF SoundInv, DataKnown, Working
<1>3. \/ stage' = "drop" /\ progress' = progress
      \/ /\ stage' \in {"save", "judge"} /\ AnswersIn(progress') = AnswersIn(Saved') \cup {a}
         /\ AnswersIn(progress') = AnswersIn(progress) \cup {a} /\ a \notin AnswersIn(progress)
  BY <1>0, <1>1, <1>2, ReceivedLast
<1>4. CacheOnce' /\ CacheOwn'
  BY <1>1 DEF ThrownInv, CacheOnce, CacheOwn
<1>5. Saved = progress /\ Saved' = Saved
  BY <1>1 DEF ThrownInv, AskKnown, Saved
<1>6. AskKnown'
  BY <1>3, <1>5 DEF AskKnown
<1>7. ASSUME stage' \in {"save", "judge"} PROVE CameLast(a)'
  <2>1. /\ AnswersIn(progress') = AnswersIn(Saved') \cup {a} /\ a \notin AnswersIn(progress)
    BY <1>3, <1>7
  <2>2. a \in 1 .. Len(answers)
    BY <1>0, <1>2 DEF CacheKnown
  <2>3. \A in \in DOMAIN stored : a \notin AnswersIn(stored[in])
    <3>1. \A in \in DOMAIN stored : a \in AnswersIn(stored[in]) => in = input
      BY <1>0, <1>1 DEF ThrownInv, CacheOwn, Request
    <3>2. input \in DOMAIN stored => stored[input] = progress
      BY <1>5 DEF Saved
    <3> QED BY <2>1, <3>1, <3>2
  <2>4. \A Q \in DOMAIN cache : cache[Q].id = a => Q = Request
    BY <1>0, <1>1 DEF ThrownInv, CacheOnce
  <2>5. RequestAfter(Saved)' = Request
    BY <1>1, <1>5 DEF RequestAfter, Request
  <2> QED BY <1>1, <2>1, <2>2, <2>3, <2>4, <2>5 DEF CameLast
<1>8. LastKnown'
  BY <1>3, <1>7 DEF LastKnown
<1>9. \A b : Lost(b) => Lost(b)'
  BY <1>0, <1>1, <1>3 DEF Lost
<1>10. Thrown'
  BY <1>1, <1>9 DEF ThrownInv, Thrown
<1> QED BY <1>4, <1>6, <1>8, <1>10 DEF ThrownInv

LEMMA CutOffThrown == ASSUME SoundInv, ThrownInv, AnswerIsCutOff PROVE ThrownInv'
<1>1. /\ stage = "ask" /\ Recorded /\ UNCHANGED <<stored, input, cache, rejected>>
  BY DEF AnswerIsCutOff, Asking
<1>2. PICK x \in NewAnswers : Receive(x, TRUE)
  BY DEF AnswerIsCutOff
<1>3. /\ Grows(answers, answers')
      /\ \A y : y.id = NewAnswer /\ y.mark \in Nat => CacheKnown(answers', Request, y)
      /\ Len(answers') = NewAnswer
  BY <1>1, NewAnswerKnown DEF Working
<1>4. /\ CorrectionKnown(answers, input.correction) /\ ProgressKnown(answers, input, progress)
  BY <1>1 DEF SoundInv, DataKnown, Working
<1>5. x.id = NewAnswer /\ CacheKnown(answers', Request, x)
  BY <1>3, <1>4, NewAnswersAre
<1>6. ProgressKnown(answers', input, progress) /\ Len(answers') \in Nat
  BY <1>3, <1>4, ProgressGrows DEF Grows
<1>7. \/ stage' = "drop" /\ progress' = progress
      \/ /\ stage' \in {"save", "judge"} /\ AnswersIn(progress') = AnswersIn(Saved') \cup {x.id}
         /\ AnswersIn(progress') = AnswersIn(progress) \cup {x.id} /\ x.id \notin AnswersIn(progress)
  BY <1>1, <1>2, <1>5, <1>6, ReceivedLast
<1>8. CacheOnce' /\ CacheOwn'
  BY <1>1 DEF ThrownInv, CacheOnce, CacheOwn
<1>9. AskKnown'
  BY <1>1, <1>7 DEF ThrownInv, AskKnown, Saved
<1>10. ASSUME stage' \in {"save", "judge"} PROVE CameLast(x.id)'
  <2>1. x.id \in 1 .. Len(answers')
    BY <1>5 DEF CacheKnown
  <2> QED BY <1>1, <1>5, <1>7, <1>10, <2>1, NewIsNowhere DEF CameLast
<1>11. LastKnown'
  BY <1>7, <1>10 DEF LastKnown
<1>12. \A b : Lost(b) => Lost(b)'
  <2>1. 1 .. Len(answers) \subseteq 1 .. Len(answers') /\ x.id \notin 1 .. Len(answers)
    BY <1>3, <1>5, NewIsNowhere DEF Grows
  <2> QED BY <1>1, <1>7, <2>1 DEF Lost
<1>13. Thrown'
  BY <1>1, <1>12 DEF ThrownInv, Thrown
<1> QED BY <1>8, <1>9, <1>11, <1>13 DEF ThrownInv

LEMMA SaveThrown == ASSUME SoundInv, ThrownInv, SavePart PROVE ThrownInv'
<1>1. /\ stage = "save" /\ stage' = "ask" /\ stored' = Put(stored, input, progress)
      /\ UNCHANGED <<cache, input, progress, answers, rejected>>
  BY DEF SavePart, history
<1>2. PICK a : CameLast(a)
  BY <1>1 DEF ThrownInv, LastKnown
<1>3. /\ DOMAIN stored' = DOMAIN stored \cup {input} /\ stored'[input] = progress
      /\ \A in \in DOMAIN stored : in # input => stored'[in] = stored[in]
  BY <1>1 DEF Put
<1>4. CacheOwn'
  <2> SUFFICES ASSUME NEW Q \in DOMAIN cache, cache[Q].id \in AnswersIn(progress) PROVE Q.input = input
    BY <1>1, <1>3 DEF ThrownInv, CacheOwn
  <2>1. CASE cache[Q].id = a
    BY <1>2, <2>1 DEF CameLast, RequestAfter
  <2>2. CASE cache[Q].id \in AnswersIn(Saved)
    <3>1. AnswersIn(NoProgress) = {}
      BY NoParts DEF AnswersIn
    <3> QED BY <2>2, <3>1 DEF ThrownInv, CacheOwn, Saved
  <2> QED BY <1>2, <2>1, <2>2 DEF CameLast
<1>5. CacheOnce' /\ AskKnown' /\ LastKnown'
  BY <1>1, <1>3 DEF ThrownInv, CacheOnce, AskKnown, LastKnown, Saved
<1>6. \A b : Lost(b) => Lost(b)'
  BY <1>1, <1>3 DEF Lost
<1>7. Thrown'
  BY <1>1, <1>6 DEF ThrownInv, Thrown
<1> QED BY <1>4, <1>5, <1>7 DEF ThrownInv

LEMMA RefuseThrown == ASSUME ThrownInv, RefuseFormat \/ RefuseText PROVE ThrownInv'
<1>1. /\ stage = "judge" /\ stage' = "forget"
      /\ UNCHANGED <<cache, stored, input, progress, answers, rejected>>
  BY DEF RefuseFormat, RefuseText, Judging, store, history
<1>2. CacheOnce' /\ CacheOwn' /\ AskKnown'
  BY <1>1 DEF ThrownInv, CacheOnce, CacheOwn, AskKnown
<1>3. \A a : CameLast(a) => CameLast(a)'
  BY <1>1 DEF CameLast, Saved, RequestAfter
<1>4. \A a : Lost(a) => Lost(a)'
  BY <1>1 DEF Lost
<1> QED BY <1>1, <1>2, <1>3, <1>4 DEF ThrownInv, LastKnown, Thrown

\* The answer that came last goes from the cache, where no other can be it.
LEMMA ForgetThrown == ASSUME SoundInv, ThrownInv, ForgetAnswer PROVE ThrownInv'
<1>1. /\ stage = "forget" /\ stage' = "erase" /\ cache' = Forget(cache, RequestAfter(Saved))
      /\ rejected' = rejected \cup {Words(progress.blocks)}
      /\ UNCHANGED <<stored, input, progress, answers>>
  BY DEF ForgetAnswer, Saved, RequestAfter
<1>2. PICK a : CameLast(a)
  BY <1>1 DEF ThrownInv, LastKnown
<1>3. /\ DOMAIN cache' = DOMAIN cache \ {RequestAfter(Saved)}
      /\ \A Q \in DOMAIN cache' : cache'[Q] = cache[Q]
  BY <1>1 DEF Forget, Restrict
<1>4. CacheOnce' /\ CacheOwn' /\ AskKnown' /\ LastKnown'
  BY <1>1, <1>3 DEF ThrownInv, CacheOnce, CacheOwn, AskKnown, LastKnown
<1>5. \A b : Lost(b) => Lost(b)'
  BY <1>1, <1>3 DEF Lost
<1>6. Lost(a)'
  BY <1>1, <1>2, <1>3 DEF Lost, CameLast
<1>7. a \in Range(Words(progress.blocks))
  <2>1. BlocksKnown(answers, progress.blocks)
    BY <1>1 DEF SoundInv, DataKnown, Working, ProgressKnown
  <2>2. Range(Words(progress.blocks)) = AnswersIn(progress)
    BY <2>1, WordsAre DEF AnswersIn
  <2> QED BY <1>2, <2>2 DEF CameLast
<1>8. Thrown'
  BY <1>1, <1>5, <1>6, <1>7 DEF ThrownInv, Thrown
<1> QED BY <1>4, <1>8 DEF ThrownInv

LEMMA StillThrown == ASSUME ThrownInv, UNCHANGED <<order, writing>> PROVE ThrownInv'
<1>1. UNCHANGED <<stage, stored, cache, input, progress, answers, rejected>>
  BY DEF writing, store, history
<1>2. \A a : CameLast(a) => CameLast(a)'
  BY <1>1 DEF CameLast, Saved, RequestAfter
<1>3. \A a : Lost(a) => Lost(a)'
  BY <1>1 DEF Lost
<1>4. CacheOnce' /\ CacheOwn' /\ AskKnown'
  BY <1>1 DEF ThrownInv, CacheOnce, CacheOwn, AskKnown, Saved
<1> QED BY <1>1, <1>2, <1>3, <1>4 DEF ThrownInv, LastKnown, Thrown

LEMMA NextThrown == SoundInv /\ ThrownInv /\ [Next]_vars => ThrownInv'
<1> SUFFICES ASSUME SoundInv, ThrownInv, [Next]_vars PROVE ThrownInv'
  OBVIOUS
<1>1. CASE AssignLeaves \/ UNCHANGED vars
  BY <1>1, StillThrown DEF AssignLeaves, vars
<1>2. CASE Next /\ ~AssignLeaves
  BY <1>2, CalledThrown, BeginThrown, AnswerThrown, TakeThrown, CutOffThrown, SaveThrown,
     RefuseThrown, ForgetThrown, LeavingThrown DEF Next
<1> QED BY <1>1, <1>2

LEMMA ThrownStaysOut == SoundInv /\ ThrownInv => RejectedStaysOut
<1> SUFFICES ASSUME SoundInv, ThrownInv, stage = "judge", Words(progress.blocks) \in rejected
             PROVE  FALSE
  BY DEF RejectedStaysOut
<1>1. PICK a \in Range(Words(progress.blocks)) : Lost(a)
  BY DEF ThrownInv, Thrown
<1>2. BlocksKnown(answers, progress.blocks)
  BY DEF SoundInv, DataKnown, Working, ProgressKnown
<1>3. a \in AnswersIn(progress)
  BY <1>2, WordsAre DEF AnswersIn
<1> QED BY <1>1, <1>3 DEF Lost

\* A text that was thrown out is never assembled again, in no later attempt and
\* after no restart.
THEOREM RejectedIsLost == Spec => []RejectedStaysOut
BY InitSound, NextSound, InitThrown, NextThrown, ThrownStaysOut, PTL DEF Spec
=============================================================================
