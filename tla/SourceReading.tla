--------------------------- MODULE SourceReading ---------------------------
(***************************************************************************)
(* How an attempt reads the whole source (understanding.rs analyze): the   *)
(* passages in reading order are packed into batches, each batch is one    *)
(* leaf of the reading tree, and levels of reductions join the nodes until *)
(* one is left.  Nodes are saved one by one under a key that names all     *)
(* they were made from, so that a later attempt finds them again.          *)
(*                                                                         *)
(* This is the first stage of an attempt; the variables of the attempt are *)
(* declared here, and OutlinePlanning and DocumentRun go on from its end.  *)
(* Sizes are small numbers on the scale of the request limit.  What makes  *)
(* the limit change is RequestGate's: provider refusals and calibration.   *)
(***************************************************************************)
EXTENDS Naturals, Sequences, FiniteSets, SequencesExt

CONSTANTS
  Source,        \* the passages in reading order: their size, and if generated
  Limits,        \* the request limits a run may come to
  LeastLimit,    \* below this reading is refused (1024)
  PageSize,      \* passages loaded at a time (64)
  MaxPassages,   \* MAX_BATCH_PASSAGES (36)
  GroupWidth,    \* a reduction takes this many children at most (4)
  Sizes,         \* what a summary may measure
  Concurrency,   \* llm.concurrency
  Tries,         \* answers asked for one node (3)
  MaxShifts,     \* bound: changes of the limit
  ReadingErrors, \* bound: faults while reading
  MaxErrors      \* bound: faults over all stages: useless answers and stops

ASSUME ReadingAssumption ==
  /\ Source \in Seq([size : Nat \ {0}, generated : BOOLEAN]) /\ Source # <<>>
  /\ Limits \subseteq Nat \ {0} /\ Limits # {} /\ LeastLimit \in Nat \ {0}
  /\ PageSize \in Nat \ {0} /\ MaxPassages \in Nat \ {0} /\ GroupWidth \in Nat \ {0, 1}
  /\ Sizes \subseteq Nat \ {0} /\ Sizes # {} /\ Concurrency \in Nat \ {0}
  /\ Tries \in Nat \ {0} /\ MaxShifts \in Nat
  /\ MaxErrors \in Nat /\ ReadingErrors \in 0..MaxErrors

VARIABLES
  stage,    \* what the attempt is doing
  failure,  \* why it ends, if it fails
  errors,   \* faults so far, a bound
  limit,    \* input_limit(ctx) now
  shifts,   \* changes of the limit so far, a bound
  read,     \* the reading loop's own state
  nodes,    \* checkpoints understanding:node:*, each with its summary's size
  leaves,   \* checkpoint understanding:leaves
  tree      \* checkpoint understanding:root, with version and coverage

attempt == <<stage, failure, errors>>
reading == <<limit, shifts, read, nodes, leaves, tree>>

NoTree == [parts |-> <<>>, kids |-> <<>>, limit |-> 0]
Stored == [NoTree EXCEPT !.limit = 1]   \* a tree whose branches alone still matter
Node(parts, kids) == [parts |-> parts, kids |-> kids, limit |-> limit]

Goto(to) == stage' = to /\ UNCHANGED <<failure, errors>>
Fail(kind) == stage' = "failing" /\ failure' = kind /\ UNCHANGED errors
Erring == errors < MaxErrors /\ errors' = errors + 1

-----------------------------------------------------------------------------
(* The passages to read, and the parts they are cut into. *)

Readable ==
  LET written == {p \in DOMAIN Source : ~Source[p].generated}
  IN  IF written = {} THEN DOMAIN Source ELSE written

\* The k-th of them is the one with k readable passages up to it.
Passages ==
  [k \in 1..Cardinality(Readable) |->
     LET p == CHOOSE p \in Readable : Cardinality({q \in Readable : q <= p}) = k
     IN  [at |-> p, of |-> Source[p]]]

Bytes(parts) ==
  FlattenSeq([i \in DOMAIN parts |->
                [b \in 1..parts[i].size |-> <<parts[i].at, parts[i].from + b>>]])

WholeSource ==
  Bytes([i \in DOMAIN Passages |->
           [at |-> Passages[i].at, from |-> 0, size |-> Passages[i].of.size]])

\* Mutant: what is left of a passage after its first segment is passed over.
FirstSegment(p, from, most) ==
  [at |-> Passages[p].at, from |-> from,
   size |-> IF Passages[p].of.size > most THEN most ELSE Passages[p].of.size,
   last |-> TRUE]

\* segments: the next part of a passage, as much of it as a request carries.
Segment(p, from, most) ==
  LET left == Passages[p].of.size - from
  IN  [at |-> Passages[p].at, from |-> from, size |-> IF left > most THEN most ELSE left,
       last |-> left <= most]

SizeOf(parts) == FoldLeft(LAMBDA sum, part : sum + part.size, 0, parts)

-----------------------------------------------------------------------------
(* The reading tree as later stages see it (TreeIndex). *)

\* The next level down: a leaf stays in the levels below it.
Expanded(level) ==
  FlattenSeq([i \in DOMAIN level |->
                IF level[i].kids = <<>> THEN <<level[i]>> ELSE level[i].kids])

\* No tree has more levels than the source has bytes.
Depth == Len(WholeSource)

\* What is below some nodes, level by level.
Unfolded(level) ==
  LET down[n \in 0..Depth] == IF n = 0 THEN level ELSE Expanded(down[n - 1]) IN down

\* levels: from the root down, as long as each is wider than the one before.
Levels(root) ==
  LET down   == Unfolded(<<root>>)
      widest == CHOOSE n \in 0..Depth :
                  /\ n < Depth => Len(down[n + 1]) <= Len(down[n])
                  /\ \A k \in 0..n - 1 : Len(down[k + 1]) > Len(down[k])
  IN  [n \in 1..widest + 1 |-> down[n - 1]]

\* leaves_under: the leaves below some nodes, in reading order.
LeavesUnder(level) == Unfolded(level)[Depth]

PartsOf(level) == FlattenSeq([i \in DOMAIN LeavesUnder(level) |-> LeavesUnder(level)[i].parts])

-----------------------------------------------------------------------------
(* plan_groups: one level's nodes in groups that fit one request each. *)

SizeOfNode(key) == (CHOOSE saved \in nodes : saved.key = key).size

GroupEnd(costs, start) ==
  CHOOSE end \in start..Len(costs) :
    LET fits(e) == /\ e - start < GroupWidth
                   /\ FoldLeft(+, 0, SubSeq(costs, start, e)) <= limit
    IN  /\ \A e \in start + 1..end : fits(e)
        /\ end < Len(costs) => ~fits(end + 1)

\* The children of each group, from the first group to the last.
Groups(keys, costs) ==
  LET from[start \in 1..Len(keys) + 1] ==
        IF start > Len(keys) THEN <<>>
        ELSE LET end == GroupEnd(costs, start)
             IN  <<SubSeq(keys, start, end)>> \o from[end + 1]
  IN  from[1]

\* A group of one that is not the last would never come closer to one root.
Converges(groups) == \A g \in DOMAIN groups : Len(groups[g]) > 1 \/ g = Len(groups)

-----------------------------------------------------------------------------
Fresh == [mode |-> "packing", at |-> 1, from |-> 0, page |-> 0, group |-> <<>>,
          queued |-> <<>>, inflight |-> <<>>, keys |-> <<>>]

\* The window as configured is the widest; answers change what is known of it.
ReadingInit ==
  /\ stage = "ended" /\ failure = "none" /\ errors = 0
  /\ limit \in {l \in Limits : \A k \in Limits : k <= l} /\ shifts = 0
  /\ nodes = {} /\ leaves = <<>> /\ tree = NoTree
  /\ read = Fresh

Reading(mode) == stage = "reading" /\ read.mode = mode
Task(key) == [key |-> key, try |-> 1, done |-> \E saved \in nodes : saved.key = key]
Room == Len(read.inflight) < Concurrency

NewPage == /\ read.from = 0 /\ (read.at - 1) % PageSize = 0 /\ read.at <= Len(Passages)

\* A window this small is refused when reading starts, and for each page.
RefuseReading ==
  /\ Reading("packing") /\ limit < LeastLimit /\ NewPage
  /\ Fail("context")
  /\ UNCHANGED reading

\* The limit is read again with each page of passages.
PageLimit == IF NewPage THEN limit ELSE read.page

\* One part joins the group, or closes it and starts the next.
TakePart ==
  /\ Reading("packing") /\ Room /\ read.at <= Len(Passages)
  /\ PageLimit >= LeastLimit
  /\ LET part == Segment(read.at, read.from, PageLimit)
         full == /\ read.group # <<>>
                 /\ \/ SizeOf(read.group) + part.size > PageLimit
                    \/ Len(read.group) >= MaxPassages
     IN  read' = [read EXCEPT
           !.page = PageLimit,
           !.at = IF part.last THEN @ + 1 ELSE @,
           !.from = IF part.last THEN 0 ELSE @ + part.size,
           !.group = IF full THEN <<part>> ELSE Append(@, part),
           !.inflight = IF full THEN Append(@, Task(Node(read.group, <<>>))) ELSE @]
  /\ Goto("reading")
  /\ UNCHANGED <<limit, shifts, nodes, leaves, tree>>

CloseLastGroup ==
  /\ Reading("packing") /\ read.at > Len(Passages) /\ read.group # <<>>
  /\ read' = [read EXCEPT !.group = <<>>,
                          !.inflight = Append(@, Task(Node(read.group, <<>>)))]
  /\ Goto("reading")
  /\ UNCHANGED <<limit, shifts, nodes, leaves, tree>>

\* Requests are polled only while the loop waits for the first of them.
Polled ==
  /\ stage = "reading" /\ read.inflight # <<>>
  /\ ~Room \/ (read.at > Len(Passages) /\ read.group = <<>> /\ read.queued = <<>>)

\* A node is saved as it is validated, in whatever order the answers come.
\* The last answer is kept as far as it can be validated (salvage).
Answer(i) ==
  /\ Polled /\ ~read.inflight[i].done
  /\ \E size \in Sizes : nodes' = nodes \cup {[key |-> read.inflight[i].key, size |-> size]}
  /\ read' = [read EXCEPT !.inflight[i].done = TRUE]
  /\ \/ UNCHANGED <<limit, shifts>>
     \/ shifts < MaxShifts /\ limit' \in Limits \ {limit} /\ shifts' = shifts + 1
  /\ Goto("reading")
  /\ UNCHANGED <<leaves, tree>>

\* An answer that fails validation, or a call that fails, is asked again.
AnswerUseless(i) ==
  /\ Polled /\ ~read.inflight[i].done /\ read.inflight[i].try < Tries
  /\ Erring /\ errors < ReadingErrors
  /\ read' = [read EXCEPT !.inflight[i].try = @ + 1]
  /\ UNCHANGED <<stage, failure, limit, shifts, nodes, leaves, tree>>

\* No last answer at all (SOURCE_UNDERSTANDING).
AnswerMissing(i) ==
  /\ Polled /\ ~read.inflight[i].done /\ read.inflight[i].try = Tries
  /\ Fail("generation")
  /\ UNCHANGED reading

\* The gate or the provider refuses the request for its size or its cost.
\* Answers that came in meanwhile are saved; requests still open are dropped.
AnswerRefused(i) ==
  /\ Polled /\ ~read.inflight[i].done
  /\ Erring /\ errors < ReadingErrors
  /\ stage' = "failing" /\ failure' \in {"context", "budget"}
  /\ \/ UNCHANGED <<limit, shifts>>
     \/ /\ failure' = "context" /\ shifts < MaxShifts /\ shifts' = shifts + 1
        /\ limit' \in {l \in Limits : l < limit}
  /\ UNCHANGED <<read, nodes, leaves, tree>>

\* Answers are collected in the order of the requests.
Collect ==
  /\ Polled /\ Head(read.inflight).done
  /\ read' = [read EXCEPT !.inflight = Tail(@), !.keys = Append(@, Head(read.inflight).key)]
  /\ Goto("reading")
  /\ UNCHANGED <<limit, shifts, nodes, leaves, tree>>

Idle(mode) == Reading(mode) /\ read.inflight = <<>>

LeavesRead ==
  /\ Idle("packing") /\ read.at > Len(Passages) /\ read.group = <<>>
  /\ leaves' = read.keys
  /\ read' = [read EXCEPT !.mode = "level"]
  /\ Goto("reading")
  /\ UNCHANGED <<limit, shifts, nodes, tree>>

LevelGroups == Groups(read.keys, [i \in DOMAIN read.keys |-> SizeOfNode(read.keys[i])])

\* Each level is grouped with the limit of the moment.
PlanLevel ==
  /\ Idle("level") /\ Len(read.keys) > 1 /\ Converges(LevelGroups)
  /\ read' = [read EXCEPT !.mode = "reducing", !.keys = <<>>, !.queued = LevelGroups]
  /\ Goto("reading")
  /\ UNCHANGED <<limit, shifts, nodes, leaves, tree>>

RefuseLevel ==
  /\ Idle("level") /\ Len(read.keys) > 1 /\ ~Converges(LevelGroups)
  /\ Fail("context")
  /\ UNCHANGED reading

\* reduce_group: a lone child passes through as it is.
Reduction(kids) ==
  IF Len(kids) = 1 THEN [key |-> kids[1], try |-> 1, done |-> TRUE] ELSE Task(Node(<<>>, kids))

QueueGroup ==
  /\ Reading("reducing") /\ Room /\ read.queued # <<>>
  /\ read' = [read EXCEPT !.queued = Tail(@),
                          !.inflight = Append(@, Reduction(Head(read.queued)))]
  /\ Goto("reading")
  /\ UNCHANGED <<limit, shifts, nodes, leaves, tree>>

LevelRead ==
  /\ Idle("reducing") /\ read.queued = <<>>
  /\ read' = [read EXCEPT !.mode = "level"]
  /\ Goto("reading")
  /\ UNCHANGED <<limit, shifts, nodes, leaves, tree>>

\* The root is stored together with the version that makes it final.  Nodes
\* outside the tree, their sizes and the limit are of no more use: forgotten.
FinishReading ==
  /\ Idle("level") /\ Len(read.keys) = 1
  /\ tree' = read.keys[1] /\ nodes' = {}
  /\ limit' = (CHOOSE l \in Limits : TRUE) /\ shifts' = 0
  /\ read' = Fresh
  /\ Goto("read")
  /\ UNCHANGED leaves

ReadingStep ==
  \/ RefuseReading \/ TakePart \/ CloseLastGroup \/ LeavesRead
  \/ Collect \/ PlanLevel \/ RefuseLevel \/ QueueGroup \/ LevelRead \/ FinishReading
  \/ \E i \in DOMAIN read.inflight :
       Answer(i) \/ AnswerUseless(i) \/ AnswerMissing(i) \/ AnswerRefused(i)

-----------------------------------------------------------------------------
\* Whatever was batched under one limit and reduced under another, what later
\* stages see is whole: every level of the tree holds every byte of the source
\* once and in order, and the stored leaves are the tree's.
ReadingIsWhole ==
  tree \notin {NoTree, Stored} =>
    /\ \A n \in DOMAIN Levels(tree) : Bytes(PartsOf(Levels(tree)[n])) = WholeSource
    /\ leaves = LeavesUnder(<<tree>>)
=============================================================================
