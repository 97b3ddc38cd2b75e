---------------------------- MODULE LeafOwnership ---------------------------
(***************************************************************************)
(* Which section tells what (purpose.rs, assign_leaves).  Whole-source     *)
(* reading ends in leaves, and every section of the outline reaches those  *)
(* under its branches.  A leaf that several sections reach belongs to the  *)
(* one it matches best; among equals to the one that has won fewest leaves *)
(* so far, then to the first.  Nothing of this is stored: each section     *)
(* asks when it is written, perhaps in another attempt of the run than the *)
(* one before it, and goes through all leaves anew.                        *)
(***************************************************************************)
EXTENDS Integers, FiniteSets

CONSTANTS
  LeafCount,     \* leaves of the tree, in reading order
  SectionCount,  \* sections of the outline
  Scores         \* how many of a section's terms a leaf's text may hold

ASSUME LeafAssumption ==
  LeafCount \in Nat /\ SectionCount \in Nat \ {0} /\ Scores \subseteq Nat /\ 0 \in Scores

Leaf == 1 .. LeafCount
Sections == 1 .. SectionCount

VARIABLES
  reach,    \* leaves_under each section's branches
  score,    \* term_score
  asking,   \* the section that asks now
  next,     \* the leaf looked at next
  owner,    \* who won each contested leaf so far; 0 is nobody
  kept,     \* what each section that asked was given
  first     \* history: what the first section's pass decided

inputs == <<reach, score>>
memory == <<inputs, asking, next, owner, kept, first>>

Nobody == [l \in Leaf |-> 0]

MemoryInit ==
  /\ reach \in [Sections -> SUBSET Leaf] /\ score \in [Sections -> [Leaf -> Scores]]
  /\ \A s \in Sections : \A l \in Leaf \ reach[s] : score[s][l] = 0   \* never asked for
  /\ asking = 1 /\ next = 1 /\ owner = Nobody
  /\ kept = [s \in Sections |-> {}] /\ first = Nobody

-----------------------------------------------------------------------------
\* Mutant: only the leaves of the section that asks are looked at.
ClaimsOfMine(l) == {s \in Sections : l \in reach[s] /\ l \in reach[asking]}

\* Every section's claims, not only those of the one that asks.
Claims(l) == {s \in Sections : l \in reach[s]}
Contested(l) == \E s, t \in Claims(l) : s # t

\* How many contested leaves before l the section won.
Won(own, s, l) == Cardinality({k \in 1 .. l - 1 : own[k] = s})

Best(l) == {s \in Claims(l) : \A t \in Claims(l) : score[t][l] <= score[s][l]}
Ahead(own, l, s, t) ==
  Won(own, s, l) < Won(own, t, l) \/ (Won(own, s, l) = Won(own, t, l) /\ s <= t)
Chosen(own, l) ==
  IF Contested(l) THEN CHOOSE s \in Best(l) : \A t \in Best(l) : Ahead(own, l, s, t) ELSE 0

\* One leaf of ownership's loop.
OwnLeaf ==
  /\ asking \in Sections /\ next \in Leaf
  /\ owner' = [owner EXCEPT ![next] = Chosen(owner, next)]
  /\ next' = next + 1
  /\ UNCHANGED <<inputs, asking, kept, first>>

\* kept: what the section reaches, less what others own.
Mine(own, s) == {l \in reach[s] : own[l] \in {0, s}}

KeepLeaves ==
  /\ asking \in Sections /\ next \notin Leaf
  /\ kept' = [kept EXCEPT ![asking] = Mine(owner, asking)]
  /\ first' = IF asking = 1 THEN owner ELSE first
  /\ asking' = asking + 1 /\ next' = 1 /\ owner' = Nobody
  /\ UNCHANGED inputs

MemoryNext == OwnLeaf \/ KeepLeaves
MemorySpec == MemoryInit /\ [][MemoryNext]_memory

-----------------------------------------------------------------------------
MemoryTypeOK ==
  /\ reach \in [Sections -> SUBSET Leaf] /\ score \in [Sections -> [Leaf -> Scores]]
  /\ asking \in 1 .. SectionCount + 1 /\ next \in 1 .. LeafCount + 1
  /\ owner \in [Leaf -> 0 .. SectionCount] /\ first \in [Leaf -> 0 .. SectionCount]
  /\ kept \in [Sections -> SUBSET Leaf]

\* Once all sections have asked, each leaf that any of them reaches is told by
\* one of them and by no other, though each went through the leaves by itself.
OwnedOnce ==
  asking = SectionCount + 1 =>
    \A r \in Sections : \A l \in reach[r] :
      \E s \in Sections : l \in kept[s] /\ \A t \in Sections : l \in kept[t] => t = s
=============================================================================
