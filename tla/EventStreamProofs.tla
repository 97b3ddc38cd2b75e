-------------------------- MODULE EventStreamProofs --------------------------
(***************************************************************************)
(* A client of the event stream misses no event but an overtaken one, for  *)
(* any number of requests, events, lost connections and resumptions, and   *)
(* any page size or limit of a page in the browser.  StreamIsComplete is   *)
(* about what was received; what is inductive is about all that was sent   *)
(* (Sent): an event that the cursor passed is there, or was committed      *)
(* after a higher one that is there.                                       *)
(***************************************************************************)
EXTENDS EventStream, DataLemmas

Ids == Nat \ {0}

\* What is on its way, without the stream's end.
Flight == IF stage = "over" THEN Len(pipe) - 1 ELSE Len(pipe)
Joined(r, p, n) == [i \in 1 .. Len(r) + n |-> IF i <= Len(r) THEN r[i] ELSE p[i - Len(r)]]
Sent == Joined(received, pipe, Flight)

\* Ids are given out once: to an event, or to a transaction that may yet commit.
LogInv ==
  /\ next \in Ids /\ log \in Seq(Ids) /\ IsInjective(log)
  /\ \A i \in DOMAIN log : log[i] < next
  /\ tx \in [Requests -> Nat]
  /\ \A w \in Requests : tx[w] < next /\ (tx[w] # 0 => tx[w] \notin Range(log))
  /\ \A v, w \in Requests : tx[v] = tx[w] /\ tx[v] # 0 => v = w
  /\ row = Nobody \/ (row \in Requests /\ tx[row] # 0)

\* The lengths remembered are of a log that only grows.
MarksKnown ==
  upTo \in 0 .. Len(log) /\ closing \in 0 .. Len(log) /\ told \in 0 .. Len(log)

\* The cursor is at the last event sent, and only the end follows it.
CursorKnown ==
  /\ received \in Seq(Ids) /\ pipe \in Seq(Nat) /\ after \in Nat
  /\ stage # "off" => client = "open" /\ after = IF Sent = <<>> THEN 0 ELSE Sent[Len(Sent)]
  /\ stage = "off" => pipe = <<>>
  /\ stage = "over" => pipe # <<>> /\ pipe[Len(pipe)] = End
  /\ \A i \in 1 .. Flight : pipe[i] # End

Rising(s) == \A i, j \in DOMAIN s : i < j => s[i] < s[j]

\* What s passes over was committed to l after something higher that s has.
PassesOver(s, l) ==
  \A i \in DOMAIN l, k \in DOMAIN s : l[i] < s[k] =>
    l[i] \in Range(s) \/ \E m \in 1 .. k, j \in 1 .. i - 1 : s[m] > l[i] /\ l[j] = s[m]

Faithful(s, l) == Rising(s) /\ Range(s) \subseteq Range(l) /\ PassesOver(s, l)

\* A stream that ended has been past every event it had to bring.
ClosedBehind ==
  stage = "over" \/ client = "ended" =>
    \A i \in 1 .. closing : \E k \in DOMAIN Sent : log[i] <= Sent[k]

\* A page that asked for the history is not streaming.
PageKnown ==
  /\ shown \in Seq(Ids) /\ IsInjective(shown)
  /\ history # "none" => client = "closed"
  /\ history = "shown" => \A i \in 1 .. told : log[i] \in Range(shown) \/ Crowded(log[i])

StreamInv ==
  /\ LogInv /\ MarksKnown /\ CursorKnown /\ ClosedBehind /\ PageKnown
  /\ Faithful(Sent, log)

-----------------------------------------------------------------------------
(* Events in the order of their ids. *)

\* ORDER BY id gives every id once, the lower ones first.
LEMMA AscendingOrders ==
  ASSUME NEW S \in SUBSET Ids, IsFiniteSet(S)
  PROVE  /\ Ascending(S) \in Seq(S) /\ Len(Ascending(S)) = Cardinality(S)
         /\ Range(Ascending(S)) = S /\ Rising(Ascending(S))
<1> DEFINE R == {p \in S \X S : p[1] < p[2]}
           n == Cardinality(S)
           rank == [x \in S |-> Cardinality({y \in S : y = x \/ <<y, x>> \in R})]
           f == Ascending(S)
<1>1. \A x, y \in S : <<x, y>> \in R <=> x < y
  OBVIOUS
<1>2. n \in Nat
  BY FS_CardinalityType
<1>3. \A x \in S : x \in Int
  BY DEF Ids
<1>4. \A x \in S : rank[x] = Cardinality({y \in S : y <= x})
  <2> SUFFICES ASSUME NEW x \in S
               PROVE  {y \in S : y = x \/ <<y, x>> \in R} = {y \in S : y <= x}
    OBVIOUS
  <2> QED BY <1>1, <1>3
<1>5. rank = [x \in S |-> Cardinality({y \in S : y = x \/ <<y, x>> \in R})]
  OBVIOUS
<1> HIDE DEF R, rank
<1>6. /\ rank \in [S -> 1 .. n]
      /\ \A i \in 1 .. n : \E x \in S : rank[x] = i
      /\ \A x, y \in S : <<x, y>> \in R <=> rank[x] < rank[y]
  <2>1. \A x \in S : <<x, x>> \notin R
    BY <1>1, <1>3
  <2>2. \A x, y, z \in S : <<x, y>> \in R /\ <<y, z>> \in R => <<x, z>> \in R
    BY <1>1, <1>3
  <2>3. ASSUME NEW x \in S, NEW y \in S
        PROVE  x = y \/ <<x, y>> \in R \/ <<y, x>> \in R
    <3>1. x = y \/ x < y \/ y < x
      BY <1>3
    <3> QED BY <1>1, <3>1
  <2>4. \A x, y \in S : x = y \/ <<x, y>> \in R \/ <<y, x>> \in R
    BY <2>3
  <2>5. IsRanking(rank, S, R)
    BY <1>5, <2>1, <2>2, <2>4, Ranked, Zenon
  <2> QED BY <2>5 DEF IsRanking
<1>7. ASSUME NEW i \in 1 .. n PROVE f[i] \in S /\ rank[f[i]] = i
  <2>1. f[i] = CHOOSE x \in S : Cardinality({y \in S : y <= x}) = i
    BY DEF Ascending
  <2>2. PICK x \in S : Cardinality({y \in S : y <= x}) = i
    BY <1>4, <1>6
  <2>3. f[i] \in S /\ Cardinality({y \in S : y <= f[i]}) = i
    BY <2>1, <2>2
  <2> QED BY <1>4, <2>3
<1>8. f \in [1 .. n -> S]
  BY <1>7 DEF Ascending
<1> HIDE DEF f
<1>9. f \in Seq(S) /\ Len(f) = n /\ DOMAIN f = 1 .. n
  BY <1>2, <1>8, SeqDef, LenProperties
<1>10. Range(f) = S
  <2>1. ASSUME NEW x \in S PROVE x \in Range(f)
    <3>1. rank[x] \in 1 .. n
      BY <1>6
    <3>2. f[rank[x]] \in S /\ rank[f[rank[x]]] = rank[x]
      BY <1>7, <3>1
    <3>3. ~(rank[x] < rank[x])
      BY <3>1
    <3>4. <<x, f[rank[x]]>> \notin R /\ <<f[rank[x]], x>> \notin R
      BY <1>6, <3>2, <3>3
    <3>5. f[rank[x]] = x
      BY <1>1, <1>3, <3>2, <3>4
    <3> QED BY <1>9, <3>1, <3>5 DEF Range
  <2> QED BY <1>7, <1>9, <2>1 DEF Range
<1>11. Rising(f)
  <2> SUFFICES ASSUME NEW i \in 1 .. n, NEW j \in 1 .. n, i < j PROVE f[i] < f[j]
    BY <1>9 DEF Rising
  <2>1. rank[f[i]] < rank[f[j]] /\ f[i] \in S /\ f[j] \in S
    BY <1>7
  <2> QED BY <1>1, <1>6, <2>1
<1> QED BY <1>9, <1>10, <1>11 DEF f

LEMMA RisingIsInjective ==
  ASSUME NEW s \in Seq(Ids), Rising(s)
  PROVE  IsInjective(s)
<1> SUFFICES ASSUME NEW i \in DOMAIN s, NEW j \in DOMAIN s, s[i] = s[j] PROVE i = j
  BY DEF IsInjective
<1>1. i \in Int /\ j \in Int /\ s[i] \in Int
  BY ElementOfSeq, LenProperties DEF Ids
<1>2. ~(i < j) /\ ~(j < i)
  BY <1>1 DEF Rising
<1> QED BY <1>1, <1>2

\* A page is the lowest part of what is left: lower ids are in it, and it is
\* empty only if nothing is left.
LEMMA PageIsLowest ==
  ASSUME log \in Seq(Ids), after \in Nat
  PROVE  /\ Page \in Seq(Ids) /\ Rising(Page)
         /\ Range(Page) \subseteq {e \in Range(log) : e > after}
         /\ \A e \in Range(log), k \in DOMAIN Page :
              e > after /\ e < Page[k] => e \in Range(Page)
         /\ Page = <<>> => \A e \in Range(log) : e <= after
<1> DEFINE S == {e \in Range(log) : e > after}
           rows == Ascending(S)
           n == IF Len(rows) < PageSize THEN Len(rows) ELSE PageSize
<1>1. S \subseteq Ids /\ Range(log) \subseteq Ids
  BY ElementOfSeq DEF Range
<1>2. IsFiniteSet(S)
  <2>1. IsFiniteSet(DOMAIN log)
    BY LenProperties, FS_Interval
  <2>2. log \in Surjection(DOMAIN log, Range(log))
    BY DEF Surjection, Range
  <2> QED BY <2>1, <2>2, FS_Surjection, FS_Subset
<1> HIDE DEF S
<1>3. rows \in Seq(S) /\ Len(rows) = Cardinality(S) /\ Range(rows) = S /\ Rising(rows)
  BY <1>1, <1>2, AscendingOrders
<1>4. Page = SubSeq(rows, 1, n)
  BY DEF Page, S
<1> HIDE DEF rows
<1>5. n \in Nat /\ n <= Len(rows) /\ (n = 0 => Len(rows) = 0) /\ Len(rows) \in Nat
  BY <1>3, LenProperties, StreamAssumption
<1> HIDE DEF n
<1>6. DOMAIN rows = 1 .. Len(rows) /\ \A i \in 1 .. Len(rows) : rows[i] \in S
  BY <1>3, LenProperties, ElementOfSeq
<1>7. Page = [i \in 1 .. n |-> rows[i]]
  BY <1>4, <1>5, <1>6 DEF SubSeq
<1>8. DOMAIN Page = 1 .. n /\ \A i \in 1 .. n : Page[i] = rows[i] /\ i \in DOMAIN rows
  BY <1>5, <1>6, <1>7
<1>9. Page \in [1 .. n -> S]
  BY <1>5, <1>6, <1>7
<1>10. Page \in Seq(S) /\ Page \in Seq(Ids) /\ Len(Page) = n
  <2> HIDE DEF Page
  <2>1. Page \in [1 .. n -> Ids]
    BY <1>1, <1>9
  <2> QED BY <1>5, <1>9, <2>1, SeqDef, LenProperties
<1>11. Rising(Page) /\ Range(Page) \subseteq S
  BY <1>3, <1>8, <1>9 DEF Rising, Range
<1>12. ASSUME NEW e \in S, NEW k \in DOMAIN Page, e < Page[k] PROVE e \in Range(Page)
  <2>1. PICK q \in DOMAIN rows : e = rows[q]
    BY <1>3 DEF Range
  <2>2. q \in Int /\ k \in Int /\ n \in Int /\ k <= n /\ q >= 1 /\ k \in DOMAIN rows
    BY <1>5, <1>6, <1>8
  <2>3. rows[q] \in Int /\ rows[k] \in Int
    <3>1. \A x \in S : x \in Int
      BY <1>1 DEF Ids
    <3>2. rows[q] \in S /\ rows[k] \in S
      BY <1>6, <2>1, <2>2
    <3> QED BY <3>1, <3>2
  <2>4. rows[q] < rows[k]
    BY <1>8, <1>12, <2>1
  <2>5. ~(k < q) /\ k # q
    BY <1>3, <2>2, <2>3, <2>4 DEF Rising
  <2>6. q \in 1 .. n
    BY <2>2, <2>5
  <2> QED BY <1>8, <2>1, <2>6 DEF Range
<1>13. ASSUME Page = <<>> PROVE S = {}
  <2>1. Len(Page) = 0
    BY <1>13, EmptySeq
  <2>2. Len(rows) = 0
    BY <1>5, <1>10, <2>1
  <2> QED BY <1>3, <1>6, <2>2 DEF Range
<1>14. \A e \in Range(log) : e \in S \/ e <= after
  BY <1>1 DEF S, Ids
<1> QED BY <1>10, <1>11, <1>12, <1>13, <1>14 DEF S

-----------------------------------------------------------------------------
(* What is sent, and the log. *)

LEMMA JoinedIs ==
  ASSUME NEW r \in Seq(Ids), NEW p \in Seq(Nat), NEW f \in 0 .. Len(p),
         \A i \in 1 .. f : p[i] # End
  PROVE  /\ Len(r) \in Nat /\ DOMAIN Joined(r, p, f) = 1 .. Len(r) + f
         /\ Joined(r, p, f) \in Seq(Ids) /\ Len(Joined(r, p, f)) = Len(r) + f
         /\ \A i \in 1 .. Len(r) : Joined(r, p, f)[i] = r[i]
         /\ \A i \in Len(r) + 1 .. Len(r) + f : Joined(r, p, f)[i] = p[i - Len(r)]
<1> DEFINE n == Len(r)
           s == Joined(r, p, f)
<1>1. n \in Nat /\ Len(p) \in Nat /\ DOMAIN p = 1 .. Len(p) /\ f \in Nat /\ f <= Len(p)
  BY LenProperties
<1> HIDE DEF n
<1>2. \A i \in 1 .. n : r[i] \in Ids
  BY ElementOfSeq, LenProperties DEF n
<1>3. \A i \in 1 .. f : p[i] \in Ids
  <2> SUFFICES ASSUME NEW i \in 1 .. f PROVE p[i] \in Ids
    OBVIOUS
  <2>1. i \in 1 .. Len(p)
    BY <1>1
  <2>2. p[i] \in Nat
    BY <1>1, <2>1, ElementOfSeq
  <2> QED BY <2>2 DEF Ids, End
<1>4. s = [i \in 1 .. n + f |-> IF i <= n THEN r[i] ELSE p[i - n]]
  BY DEF Joined, n
<1> HIDE DEF s
<1>5. ASSUME NEW i \in 1 .. n + f PROVE s[i] \in Ids
  <2>1. CASE i <= n
    <3>1. i \in 1 .. n
      BY <1>1, <2>1
    <3> QED BY <1>2, <1>4, <2>1, <3>1
  <2>2. CASE ~(i <= n)
    <3>1. i - n \in 1 .. f
      BY <1>1, <2>2
    <3> QED BY <1>3, <1>4, <2>2, <3>1
  <2> QED BY <2>1, <2>2
<1>6. s \in [1 .. n + f -> Ids] /\ n + f \in Nat
  BY <1>1, <1>4, <1>5
<1>7. s \in Seq(Ids) /\ Len(s) = n + f /\ DOMAIN s = 1 .. n + f
  BY <1>6, SeqDef, LenProperties
<1>8. \A i \in 1 .. n : s[i] = r[i]
  BY <1>1, <1>4
<1>9. \A i \in n + 1 .. n + f : s[i] = p[i - n]
  BY <1>1, <1>4
<1> QED BY <1>1, <1>7, <1>8, <1>9 DEF n, s

LEMMA JoinedNone ==
  ASSUME NEW r \in Seq(Ids), NEW p
  PROVE  Joined(r, p, 0) = r
<1>1. Len(r) \in Nat /\ DOMAIN r = 1 .. Len(r) /\ r = [i \in 1 .. Len(r) |-> r[i]]
  BY LenProperties
<1> QED BY <1>1 DEF Joined

LEMMA SentIs ==
  ASSUME CursorKnown
  PROVE  /\ Flight \in 0 .. Len(pipe) /\ Len(received) \in Nat
         /\ Sent \in Seq(Ids) /\ Len(Sent) = Len(received) + Flight
         /\ \A i \in 1 .. Len(received) : Sent[i] = received[i]
<1>1. received \in Seq(Ids) /\ pipe \in Seq(Nat) /\ Len(pipe) \in Nat
  BY LenProperties DEF CursorKnown
<1>2. Flight \in 0 .. Len(pipe)
  <2>1. CASE stage = "over"
    <3>1. Len(pipe) # 0
      BY <2>1, EmptySeq DEF CursorKnown
    <3> QED BY <1>1, <2>1, <3>1 DEF Flight
  <2> QED BY <1>1, <2>1 DEF Flight
<1>3. \A i \in 1 .. Flight : pipe[i] # End
  BY DEF CursorKnown
<1> QED BY <1>1, <1>2, <1>3, JoinedIs DEF Sent

\* An event that is committed now comes after everything that was sent.
LEMMA FaithfulToMore ==
  ASSUME NEW l \in Seq(Ids), NEW s \in Seq(Ids), NEW e \in Ids, Faithful(s, l)
  PROVE  Faithful(s, Append(l, e))
<1> DEFINE m == Append(l, e)
           n == Len(l)
<1>1. /\ n \in Nat /\ DOMAIN l = 1 .. n /\ DOMAIN m = 1 .. n + 1
      /\ \A i \in 1 .. n : m[i] = l[i]
  BY LenProperties, AppendProperties
<1> HIDE DEF m, n
<1>2. Range(s) \subseteq Range(m)
  BY <1>1 DEF Faithful, Range
<1>3. ASSUME NEW i \in 1 .. n + 1, NEW k \in DOMAIN s, m[i] < s[k]
      PROVE  m[i] \in Range(s) \/ \E q \in 1 .. k, j \in 1 .. i - 1 : s[q] > m[i] /\ m[j] = s[q]
  <2>1. CASE i \in 1 .. n
    <3>1. l[i] \in Range(s) \/ \E q \in 1 .. k, j \in 1 .. i - 1 : s[q] > l[i] /\ l[j] = s[q]
      BY <1>1, <1>3, <2>1 DEF Faithful, PassesOver
    <3>2. \A j \in 1 .. i - 1 : j \in 1 .. n
      BY <1>1, <2>1
    <3> QED BY <1>1, <2>1, <3>1, <3>2
  <2>2. CASE i = n + 1
    <3>1. PICK j \in 1 .. n : l[j] = s[k]
      BY <1>1 DEF Faithful, Range
    <3>2. j \in 1 .. i - 1 /\ m[j] = s[k]
      BY <1>1, <2>2, <3>1
    <3>3. m[i] \in Int /\ s[k] \in Int
      <4>1. m \in Seq(Ids)
        BY AppendProperties DEF m
      <4>2. m[i] \in Ids /\ s[k] \in Ids
        BY <1>1, <4>1, ElementOfSeq, LenProperties
      <4> QED BY <4>2 DEF Ids
    <3>4. s[k] > m[i] /\ k \in 1 .. k
      BY <1>3, <3>3, LenProperties
    <3> QED BY <3>2, <3>4
  <2> QED BY <1>1, <2>1, <2>2
<1> QED BY <1>1, <1>2, <1>3 DEF Faithful, PassesOver, m

\* What is lost on the way takes nothing from what came before it.
LEMMA FaithfulPrefix ==
  ASSUME NEW l \in Seq(Ids), NEW s \in Seq(Ids), NEW p \in Seq(Ids), Faithful(s, l),
         Len(p) <= Len(s), \A i \in 1 .. Len(p) : p[i] = s[i]
  PROVE  Faithful(p, l)
<1> DEFINE n == Len(p)
<1>1. /\ n \in Nat /\ DOMAIN p = 1 .. n /\ DOMAIN s = 1 .. Len(s) /\ DOMAIN p \subseteq DOMAIN s
      /\ \A i \in DOMAIN p : p[i] = s[i]
  BY LenProperties
<1>2. \A i \in DOMAIN s : i \in Int /\ s[i] \in Int
  BY ElementOfSeq, LenProperties DEF Ids
<1>3. \A i \in DOMAIN l : l[i] \in Int
  BY ElementOfSeq, LenProperties DEF Ids
<1>4. Rising(p) /\ Range(p) \subseteq Range(l)
  BY <1>1 DEF Faithful, Rising, Range
<1>5. ASSUME NEW i \in DOMAIN l, NEW k \in DOMAIN p, l[i] < p[k]
      PROVE  l[i] \in Range(p) \/ \E m \in 1 .. k, j \in 1 .. i - 1 : p[m] > l[i] /\ l[j] = p[m]
  <2>1. k \in DOMAIN s /\ l[i] < s[k] /\ 1 .. k \subseteq DOMAIN p
    BY <1>1, <1>5
  <2>2. l[i] \in Range(s) \/ \E m \in 1 .. k, j \in 1 .. i - 1 : s[m] > l[i] /\ l[j] = s[m]
    BY <2>1 DEF Faithful, PassesOver
  <2>3. CASE l[i] \in Range(s)
    <3>1. PICK q \in DOMAIN s : l[i] = s[q]
      BY <2>3 DEF Range
    <3>2. ~(k < q) /\ k # q
      BY <1>2, <2>1, <3>1 DEF Faithful, Rising
    <3>3. q \in DOMAIN p
      BY <1>1, <3>2
    <3> QED BY <1>1, <3>1, <3>3 DEF Range
  <2>4. CASE \E m \in 1 .. k, j \in 1 .. i - 1 : s[m] > l[i] /\ l[j] = s[m]
    BY <1>1, <2>1, <2>4
  <2> QED BY <2>2, <2>3, <2>4
<1> QED BY <1>4, <1>5 DEF Faithful, PassesOver

\* A page from the cursor passes over no event that was there.
LEMMA FaithfulWithPage ==
  ASSUME log \in Seq(Ids), after \in Nat, NEW s \in Seq(Ids), Faithful(s, log),
         after = IF s = <<>> THEN 0 ELSE s[Len(s)]
  PROVE  Faithful(s \o Page, log)
<1> DEFINE n == Len(s)
           p == Page
           t == s \o p
<1>1. /\ p \in Seq(Ids) /\ Rising(p)
      /\ Range(p) \subseteq {e \in Range(log) : e > after}
      /\ \A e \in Range(log), k \in DOMAIN p : e > after /\ e < p[k] => e \in Range(p)
  BY PageIsLowest
<1> HIDE DEF p
<1>2. /\ n \in Nat /\ DOMAIN s = 1 .. n /\ Len(p) \in Nat /\ DOMAIN p = 1 .. Len(p)
      /\ t \in Seq(Ids) /\ DOMAIN t = 1 .. n + Len(p)
      /\ \A i \in 1 .. n : t[i] = s[i]
      /\ \A i \in n + 1 .. n + Len(p) : t[i] = p[i - n]
  BY <1>1, LenProperties, ConcatProperties
<1> HIDE DEF t
<1>3. /\ \A i \in 1 .. n : i \in Int /\ s[i] \in Int
      /\ \A i \in DOMAIN p : i \in Int /\ p[i] \in Int /\ p[i] > after /\ p[i] \in Range(log)
      /\ \A i \in DOMAIN log : log[i] \in Int /\ log[i] > 0 /\ log[i] \in Range(log)
  <2>1. \A i \in 1 .. n : i \in Int /\ s[i] \in Ids
    BY <1>2, ElementOfSeq
  <2>2. \A i \in DOMAIN p : i \in Int /\ p[i] \in Ids /\ p[i] \in Range(p)
    BY <1>1, <1>2, ElementOfSeq DEF Range
  <2>3. \A i \in DOMAIN log : log[i] \in Ids /\ log[i] \in Range(log)
    BY ElementOfSeq, LenProperties DEF Range
  <2> QED BY <1>1, <2>1, <2>2, <2>3 DEF Ids
<1>4. \A i \in 1 .. n : s[i] <= after
  <2> SUFFICES ASSUME NEW i \in 1 .. n PROVE s[i] <= after
    OBVIOUS
  <2>0. n \in Nat /\ i \in 1 .. n
    BY <1>2
  <2>1. s # <<>> /\ after = s[n] /\ n \in 1 .. n
    BY <1>2, <2>0, EmptySeq
  <2> HIDE DEF n
  <2>2. i = n \/ i < n
    BY <2>0
  <2>3. s[i] \in Int /\ s[n] \in Int
    BY <1>3, <2>1
  <2>4. i < n => s[i] < s[n]
    BY <1>2, <2>1 DEF Faithful, Rising
  <2> QED BY <2>1, <2>2, <2>3, <2>4
<1>5. \A k \in DOMAIN t : k \in 1 .. n \/ (k - n \in DOMAIN p /\ k \in n + 1 .. n + Len(p))
  BY <1>2
<1>6. ASSUME NEW i \in DOMAIN t, NEW j \in DOMAIN t, i < j PROVE t[i] < t[j]
  <2>1. CASE j \in 1 .. n
    <3>1. i \in 1 .. n
      BY <1>2, <1>6, <2>1
    <3> QED BY <1>2, <1>6, <2>1, <3>1 DEF Faithful, Rising
  <2>2. CASE j - n \in DOMAIN p /\ j \in n + 1 .. n + Len(p)
    <3>1. CASE i \in 1 .. n
      BY <1>2, <1>3, <1>4, <2>2, <3>1
    <3>2. CASE i - n \in DOMAIN p /\ i \in n + 1 .. n + Len(p)
      <4>1. i - n < j - n
        BY <1>2, <1>6
      <4>2. p[i - n] < p[j - n]
        BY <1>1, <2>2, <3>2, <4>1 DEF Rising
      <4> QED BY <1>2, <2>2, <3>2, <4>2
    <3> QED BY <1>5, <3>1, <3>2
  <2> QED BY <1>5, <2>1, <2>2
<1>7. Range(s) \subseteq Range(t) /\ Range(p) \subseteq Range(t)
  <2>1. ASSUME NEW i \in DOMAIN p PROVE p[i] \in Range(t)
    <3>1. n + i \in n + 1 .. n + Len(p) /\ (n + i) - n = i /\ n + i \in DOMAIN t
      BY <1>2
    <3>2. t[n + i] = p[i]
      BY <1>2, <3>1
    <3> QED BY <3>1, <3>2 DEF Range
  <2>2. \A i \in DOMAIN s : s[i] \in Range(t)
    BY <1>2 DEF Range
  <2> QED BY <2>1, <2>2 DEF Range
<1>8. Range(t) \subseteq Range(log)
  <2> SUFFICES ASSUME NEW k \in DOMAIN t PROVE t[k] \in Range(log)
    BY DEF Range
  <2>1. CASE k \in 1 .. n
    BY <1>2, <2>1 DEF Faithful, Range
  <2>2. CASE k - n \in DOMAIN p /\ k \in n + 1 .. n + Len(p)
    BY <1>2, <1>3, <2>2
  <2> QED BY <1>5, <2>1, <2>2
<1>9. ASSUME NEW i \in DOMAIN log, NEW k \in DOMAIN t, log[i] < t[k]
      PROVE  \/ log[i] \in Range(t)
             \/ \E m \in 1 .. k, j \in 1 .. i - 1 : t[m] > log[i] /\ log[j] = t[m]
  <2>1. ASSUME NEW q \in 1 .. n, q <= k, log[i] < s[q]
        PROVE  \/ log[i] \in Range(t)
               \/ \E m \in 1 .. k, j \in 1 .. i - 1 : t[m] > log[i] /\ log[j] = t[m]
    <3>1. log[i] \in Range(s) \/ \E m \in 1 .. q, j \in 1 .. i - 1 : s[m] > log[i] /\ log[j] = s[m]
      BY <1>2, <2>1 DEF Faithful, PassesOver
    <3>2. CASE log[i] \in Range(s)
      BY <1>7, <3>2
    <3>3. CASE \E m \in 1 .. q, j \in 1 .. i - 1 : s[m] > log[i] /\ log[j] = s[m]
      <4>1. PICK m \in 1 .. q, j \in 1 .. i - 1 : s[m] > log[i] /\ log[j] = s[m]
        BY <3>3
      <4>2. m \in 1 .. k /\ m \in 1 .. n
        BY <1>2, <2>1
      <4> QED BY <1>2, <4>1, <4>2
    <3> QED BY <3>1, <3>2, <3>3
  <2>2. CASE k \in 1 .. n
    BY <1>2, <1>9, <2>1, <2>2
  <2>3. CASE k - n \in DOMAIN p /\ k \in n + 1 .. n + Len(p)
    <3>1. CASE log[i] > after
      <4>1. log[i] < p[k - n]
        BY <1>2, <1>9, <2>3
      <4> QED BY <1>1, <1>3, <1>7, <2>3, <3>1, <4>1
    <3>2. CASE log[i] <= after
      <4>1. n # 0 /\ s # <<>> /\ after = s[n]
        <5>1. after # 0
          BY <1>3, <3>2
        <5> QED BY <1>2, <5>1, EmptySeq
      <4>2. n \in 1 .. n /\ n <= k
        BY <1>2, <2>3, <4>1
      <4>3. CASE log[i] = after
        BY <1>2, <1>7, <4>1, <4>2, <4>3 DEF Range
      <4>4. CASE log[i] < after
        BY <2>1, <4>1, <4>2, <4>4
      <4> QED BY <1>3, <3>2, <4>3, <4>4
    <3> QED BY <1>3, <3>1, <3>2
  <2> QED BY <1>5, <2>2, <2>3
<1> QED BY <1>6, <1>8, <1>9 DEF Faithful, Rising, PassesOver, t, p

-----------------------------------------------------------------------------
(* The run's steps. *)

\* A new event: a transaction's id, or one that was just given out.
LEMMA Commits ==
  ASSUME LogInv, NEW e \in Ids, e \notin Range(log), log' = Append(log, e),
         next' \in Ids, next <= next', e < next',
         tx' \in [Requests -> Nat],
         \A w \in Requests : tx'[w] = 0 \/ (tx'[w] = tx[w] /\ tx[w] # e),
         row' = Nobody \/ (row' = row /\ tx' = tx)
  PROVE  LogInv'
<1> DEFINE n == Len(log)
<1>1. /\ n \in Nat /\ DOMAIN log = 1 .. n /\ DOMAIN log' = 1 .. n + 1 /\ log' \in Seq(Ids)
      /\ \A i \in 1 .. n : log'[i] = log[i] /\ log[i] \in Range(log)
      /\ log'[n + 1] = e
  BY LenProperties, AppendProperties DEF LogInv, Range
<1> HIDE DEF n
<1>2. \A i \in 1 .. n + 1 : i \in 1 .. n \/ i = n + 1
  BY <1>1
<1>3. IsInjective(log')
  <2> SUFFICES ASSUME NEW i \in 1 .. n + 1, NEW j \in 1 .. n + 1, log'[i] = log'[j]
               PROVE  i = j
    BY <1>1 DEF IsInjective
  <2>1. CASE i \in 1 .. n /\ j \in 1 .. n
    BY <1>1, <2>1 DEF LogInv, IsInjective
  <2>2. CASE i = n + 1 \/ j = n + 1
    BY <1>1, <1>2, <2>2
  <2> QED BY <1>2, <2>1, <2>2
<1>4. \A i \in 1 .. n + 1 : log'[i] < next'
  <2> SUFFICES ASSUME NEW i \in 1 .. n + 1 PROVE log'[i] < next'
    OBVIOUS
  <2>1. ASSUME i \in 1 .. n PROVE log[i] < next /\ log[i] \in Int
    <3>1. i \in DOMAIN log /\ log \in Seq(Ids)
      BY <1>1, <2>1 DEF LogInv
    <3>2. log[i] \in Ids /\ log[i] < next
      BY <1>1, <2>1, <3>1, ElementOfSeq, LenProperties DEF LogInv
    <3> QED BY <3>2 DEF Ids
  <2>2. next \in Int /\ next' \in Int
    BY DEF LogInv, Ids
  <2> QED BY <1>1, <1>2, <2>1, <2>2
<1>5. Range(log') = Range(log) \cup {e}
  <2>1. Range(log') \subseteq Range(log) \cup {e}
    BY <1>1, <1>2 DEF Range
  <2>2. ASSUME NEW x \in Range(log) PROVE x \in Range(log')
    <3>1. PICK i \in 1 .. n : log[i] = x
      BY <1>1 DEF Range
    <3>2. i \in 1 .. n + 1 /\ log'[i] = x
      BY <1>1, <3>1
    <3> QED BY <1>1, <3>2 DEF Range
  <2>3. n + 1 \in 1 .. n + 1
    BY <1>1
  <2>4. e \in Range(log')
    BY <1>1, <2>3 DEF Range
  <2> QED BY <2>1, <2>2, <2>4
<1>6. ASSUME NEW w \in Requests
      PROVE  tx'[w] < next' /\ (tx'[w] # 0 => tx'[w] \notin Range(log'))
  <2>1. CASE tx'[w] = 0
    BY <2>1 DEF Ids
  <2>2. CASE tx'[w] = tx[w] /\ tx[w] # e
    BY <1>5, <2>2 DEF LogInv, Ids
  <2> QED BY <2>1, <2>2
<1>7. ASSUME NEW v \in Requests, NEW w \in Requests, tx'[v] = tx'[w], tx'[v] # 0
      PROVE  v = w
  BY <1>7 DEF LogInv
<1>8. row' = Nobody \/ (row' \in Requests /\ tx'[row'] # 0)
  BY DEF LogInv
<1> QED BY <1>1, <1>3, <1>4, <1>6, <1>7, <1>8 DEF LogInv

LEMMA NextIsFresh ==
  ASSUME LogInv
  PROVE  /\ next \notin Range(log) /\ next + 1 \in Ids /\ next < next + 1 /\ next \in Ids
         /\ \A w \in Requests : tx[w] # next
BY ElementOfSeq, LenProperties DEF LogInv, Range, Ids

\* Giving up what is open.
LEMMA GivesUp ==
  ASSUME LogInv, UNCHANGED <<next, log>>, tx' \in [Requests -> Nat],
         \A w \in Requests : tx'[w] \in {0, tx[w]},
         row' = Nobody \/ (row' = row /\ (row \in Requests => tx'[row] # 0))
  PROVE  LogInv'
<1>1. \A w \in Requests : tx'[w] < next
  BY DEF LogInv, Ids
<1> QED BY <1>1 DEF LogInv

\* A step of the run keeps the ids apart, and the log grows at its end at most.
LEMMA RunKeepsLog ==
  ASSUME LogInv,
         \/ \E w \in Requests : InsertEvent(w) \/ LockRow(w) \/ CommitEvent(w) \/ EventFails(w)
         \/ Publish \/ RecordStatus \/ TerminalEvent \/ ReplayTerminal \/ Resume
  PROVE  LogInv' /\ (log' = log \/ \E e \in Ids : log' = Append(log, e))
<1>0. \A w \in Requests : tx[w] \in Nat /\ (tx[w] # 0 => tx[w] \in Ids) /\ w # Nobody
  BY StreamAssumption DEF LogInv, Ids
<1>1. ASSUME NEW w \in Requests, InsertEvent(w)
      PROVE  LogInv' /\ log' = log
  <2>1. /\ tx' = [tx EXCEPT ![w] = next] /\ next' = next + 1 /\ log' = log /\ row' = row
        /\ tx[w] = 0
    BY <1>1 DEF InsertEvent
  <2>2. tx' \in [Requests -> Nat] /\ next' \in Ids
    BY <2>1 DEF LogInv, Ids
  <2>3. \A v \in Requests : tx'[v] < next' /\ (tx'[v] # 0 => tx'[v] \notin Range(log'))
    BY <2>1, NextIsFresh DEF LogInv, Ids
  <2>4. \A u, v \in Requests : tx'[u] = tx'[v] /\ tx'[u] # 0 => u = v
    BY <2>1, NextIsFresh DEF LogInv
  <2>5. row = Nobody \/ (row \in Requests /\ tx'[row] # 0)
    BY <2>1 DEF LogInv
  <2>6. \A i \in DOMAIN log : log[i] < next'
    BY <2>1, ElementOfSeq, LenProperties DEF LogInv, Ids
  <2> QED BY <2>1, <2>2, <2>3, <2>4, <2>5, <2>6 DEF LogInv
<1>2. ASSUME NEW w \in Requests, LockRow(w)
      PROVE  LogInv' /\ log' = log
  BY <1>2 DEF LockRow, LogInv
<1>3. ASSUME NEW w \in Requests, CommitEvent(w)
      PROVE  LogInv' /\ \E e \in Ids : log' = Append(log, e)
  <2>1. /\ log' = Append(log, tx[w]) /\ tx' = [tx EXCEPT ![w] = 0] /\ row' = Nobody
        /\ next' = next /\ row = w
    BY <1>3 DEF CommitEvent
  <2>2. tx[w] # 0 /\ tx[w] \in Ids /\ tx[w] \notin Range(log) /\ tx[w] < next /\ next \in Ids
    BY <1>0, <2>1 DEF LogInv
  <2>3. \A v \in Requests : tx'[v] = 0 \/ (tx'[v] = tx[v] /\ tx[v] # tx[w])
    BY <2>1, <2>2 DEF LogInv
  <2>4. tx' \in [Requests -> Nat] /\ next <= next'
    BY <2>1 DEF LogInv, Ids
  <2> QED BY <2>1, <2>2, <2>3, <2>4, Commits
<1>4. ASSUME NEW w \in Requests, EventFails(w)
      PROVE  LogInv' /\ log' = log
  <2>1. /\ UNCHANGED <<next, log>> /\ tx' = [tx EXCEPT ![w] = 0]
        /\ row' = IF row = w THEN Nobody ELSE row
    BY <1>4 DEF EventFails
  <2>2. tx' \in [Requests -> Nat] /\ \A v \in Requests : tx'[v] \in {0, tx[v]}
    BY <2>1 DEF LogInv
  <2>3. row' = Nobody \/ (row' = row /\ (row \in Requests => tx'[row] # 0))
    BY <1>0, <2>1 DEF LogInv
  <2> QED BY <2>1, <2>2, <2>3, GivesUp
<1>5. CASE Publish
  <2>1. /\ log' = Append(log, next) /\ next' = next + 1 /\ UNCHANGED <<tx, row>>
    BY <1>5 DEF Publish
  <2> QED BY <2>1, NextIsFresh, Commits DEF LogInv, Ids
<1>6. CASE RecordStatus
  <2>1. /\ log' = log \/ (row # Nobody /\ log' = Append(log, tx[row]))
        /\ tx' = [w \in Requests |-> 0] /\ row' = Nobody /\ next' = next
    BY <1>6 DEF RecordStatus
  <2>2. tx' \in [Requests -> Nat] /\ \A w \in Requests : tx'[w] = 0
    BY <2>1
  <2>3. CASE log' = log
    BY <2>1, <2>2, <2>3, GivesUp
  <2>4. CASE row # Nobody /\ log' = Append(log, tx[row])
    <3>1. /\ tx[row] \in Ids /\ tx[row] \notin Range(log) /\ tx[row] < next
          /\ next \in Ids /\ next <= next
      BY <1>0, <2>4 DEF LogInv, Ids
    <3> QED BY <2>1, <2>2, <2>4, <3>1, Commits
  <2> QED BY <2>1, <2>3, <2>4
<1>7. CASE TerminalEvent
  <2>1. CASE log' = Append(log, next) /\ next' = next + 1
    <3>1. UNCHANGED <<tx, row>>
      BY <1>7 DEF TerminalEvent
    <3> QED BY <2>1, <3>1, NextIsFresh, Commits DEF LogInv, Ids
  <2>2. CASE UNCHANGED <<log, next>>
    BY <1>7, <2>2 DEF TerminalEvent, LogInv
  <2> QED BY <1>7, <2>1, <2>2 DEF TerminalEvent
<1>8. CASE ReplayTerminal \/ Resume
  BY <1>8 DEF ReplayTerminal, Resume, LogInv
<1> QED BY <1>1, <1>2, <1>3, <1>4, <1>5, <1>6, <1>7, <1>8

\* Lengths of a log that stays or grows by one.
LEMMA LogGrows ==
  ASSUME LogInv, LogInv', log' = log \/ \E e \in Ids : log' = Append(log, e)
  PROVE  /\ Len(log) \in Nat /\ Len(log') \in Nat /\ Len(log) <= Len(log')
         /\ \A i \in 1 .. Len(log) : log'[i] = log[i]
         /\ DOMAIN log = 1 .. Len(log) /\ DOMAIN log' = 1 .. Len(log')
<1>1. log \in Seq(Ids) /\ log' \in Seq(Ids)
  BY DEF LogInv
<1>2. ASSUME NEW e \in Ids, log' = Append(log, e)
      PROVE  /\ Len(log') = Len(log) + 1
             /\ \A i \in 1 .. Len(log) : log'[i] = log[i]
  BY <1>1, <1>2, AppendProperties
<1>3. /\ Len(log) \in Nat /\ Len(log') \in Nat
      /\ DOMAIN log = 1 .. Len(log) /\ DOMAIN log' = 1 .. Len(log')
  BY <1>1, LenProperties
<1>4. Len(log) <= Len(log') /\ \A i \in 1 .. Len(log) : log'[i] = log[i]
  <2>1. CASE log' = log
    BY <1>3, <2>1
  <2>2. CASE \E e \in Ids : log' = Append(log, e)
    <3>1. /\ Len(log') = Len(log) + 1
          /\ \A i \in 1 .. Len(log) : log'[i] = log[i]
      BY <1>2, <2>2
    <3> QED BY <1>3, <3>1
  <2> QED BY <2>1, <2>2
<1> QED BY <1>3, <1>4

\* The stream and the page stay as they are while the run goes on.
LEMMA RunKeepsStream ==
  ASSUME StreamInv,
         \/ \E w \in Requests : InsertEvent(w) \/ LockRow(w) \/ CommitEvent(w) \/ EventFails(w)
         \/ Publish \/ RecordStatus \/ TerminalEvent \/ ReplayTerminal \/ Resume
  PROVE  StreamInv'
<1>1. LogInv /\ LogInv' /\ (log' = log \/ \E e \in Ids : log' = Append(log, e))
  BY RunKeepsLog DEF StreamInv
<1>2. /\ Len(log) \in Nat /\ Len(log') \in Nat /\ Len(log) <= Len(log')
      /\ \A i \in 1 .. Len(log) : log'[i] = log[i]
  BY <1>1, LogGrows
<1>3. UNCHANGED <<stage, after, pipe, received, client, shown, history, told, closing>>
      /\ upTo' \in {upTo, Len(log')} 
  BY DEF InsertEvent, LockRow, CommitEvent, EventFails, Publish, RecordStatus, TerminalEvent,
         ReplayTerminal, Resume, Writing, stream, page, Fault
<1>4. MarksKnown'
  BY <1>2, <1>3 DEF StreamInv, MarksKnown
<1>5. Sent' = Sent /\ Flight' = Flight
  BY <1>3 DEF Sent, Flight
<1>6. CursorKnown'
  BY <1>3, <1>5 DEF StreamInv, CursorKnown
<1>7. ClosedBehind'
  <2> SUFFICES ASSUME stage = "over" \/ client = "ended", NEW i \in 1 .. closing
               PROVE  \E k \in DOMAIN Sent : log'[i] <= Sent[k]
    BY <1>3, <1>5 DEF ClosedBehind
  <2>1. i \in 1 .. Len(log)
    BY <1>2 DEF StreamInv, MarksKnown
  <2> QED BY <1>2, <2>1 DEF StreamInv, ClosedBehind
<1>8. PageKnown'
  <2> SUFFICES ASSUME history = "shown", NEW i \in 1 .. told
               PROVE  log'[i] \in Range(shown) \/ Crowded(log'[i])
    BY <1>3 DEF StreamInv, PageKnown, Crowded
  <2>1. i \in 1 .. Len(log)
    BY <1>2 DEF StreamInv, MarksKnown
  <2> QED BY <1>2, <2>1 DEF StreamInv, PageKnown, Crowded
<1>9. Faithful(Sent, log')
  <2>1. Sent \in Seq(Ids) /\ Faithful(Sent, log)
    BY SentIs DEF StreamInv
  <2>2. log \in Seq(Ids)
    BY <1>1 DEF LogInv
  <2>3. \A e \in Ids : Faithful(Sent, Append(log, e))
    BY <2>1, <2>2, FaithfulToMore
  <2> QED BY <1>1, <2>1, <2>3
<1> QED BY <1>1, <1>4, <1>5, <1>6, <1>7, <1>8, <1>9 DEF StreamInv

-----------------------------------------------------------------------------
(* The stream's steps. *)

\* A page is sent, and the cursor moves to its end.
LEMMA SendKeeps ==
  ASSUME LogInv, CursorKnown, Faithful(Sent, log), stage \notin {"off", "over"},
         Send, stage' \notin {"off", "over"}, UNCHANGED <<log, received, client>>
  PROVE  CursorKnown' /\ Faithful(Sent', log)
<1> DEFINE n == Len(received)
           f == Len(pipe)
           s == Sent
           p == Page
           q == Len(p)
<1>1. /\ log \in Seq(Ids) /\ after \in Nat /\ received \in Seq(Ids) /\ pipe \in Seq(Nat)
      /\ Flight = f /\ client = "open" /\ s = Joined(received, pipe, f)
      /\ after = IF s = <<>> THEN 0 ELSE s[Len(s)]
      /\ \A i \in 1 .. f : pipe[i] # End
  BY DEF LogInv, CursorKnown, Flight, Sent
<1>2. /\ s \in Seq(Ids) /\ Len(s) = n + f /\ n \in Nat /\ f \in Nat /\ DOMAIN s = 1 .. n + f
      /\ \A i \in 1 .. n : s[i] = received[i]
      /\ \A i \in n + 1 .. n + f : s[i] = pipe[i - n]
  <2>1. f \in Nat /\ f \in 0 .. Len(pipe)
    BY <1>1, LenProperties
  <2> HIDE DEF f, s
  <2> QED BY <1>1, <2>1, JoinedIs
<1>3. p \in Seq(Ids) /\ q \in Nat /\ \A i \in 1 .. q : p[i] \in Ids
  BY <1>1, PageIsLowest, LenProperties, ElementOfSeq
<1>4. pipe' = pipe \o p /\ after' = IF p = <<>> THEN after ELSE p[q]
  BY DEF Send, Last
<1> HIDE DEF p, s
<1>5. Faithful(s \o p, log)
  BY <1>1, <1>2, FaithfulWithPage DEF p, s
<1>6. /\ pipe' \in Seq(Nat) /\ Len(pipe') = f + q
      /\ \A i \in 1 .. f : pipe'[i] = pipe[i]
      /\ \A i \in f + 1 .. f + q : pipe'[i] = p[i - f]
  <2>1. p \in Seq(Nat)
    <3>1. Seq(Ids) \subseteq Seq(Nat)
      BY SeqDef DEF Ids
    <3> QED BY <1>3, <3>1
  <2> QED BY <1>1, <1>4, <2>1, ConcatProperties
<1>7. Flight' = f + q /\ Sent' = Joined(received, pipe', f + q)
  BY <1>6 DEF Flight, Sent
<1>8. \A i \in 1 .. f + q : pipe'[i] # End
  <2> SUFFICES ASSUME NEW i \in 1 .. f + q PROVE pipe'[i] # End
    OBVIOUS
  <2>1. CASE i \in 1 .. f
    BY <1>1, <1>6, <2>1
  <2>2. CASE i \in f + 1 .. f + q
    <3>1. i - f \in 1 .. q
      BY <1>2, <1>3, <2>2
    <3> QED BY <1>3, <1>6, <2>2, <3>1 DEF Ids, End
  <2> QED BY <1>2, <1>3, <2>1, <2>2
<1>9. /\ Sent' \in Seq(Ids) /\ Len(Sent') = n + (f + q)
      /\ \A i \in 1 .. n : Sent'[i] = received[i]
      /\ \A i \in n + 1 .. n + (f + q) : Sent'[i] = pipe'[i - n]
  <2>1. f + q \in 0 .. Len(pipe')
    BY <1>2, <1>3, <1>6
  <2> HIDE DEF f, n, q
  <2>2. /\ Joined(received, pipe', f + q) \in Seq(Ids)
        /\ Len(Joined(received, pipe', f + q)) = Len(received) + (f + q)
        /\ \A i \in 1 .. Len(received) : Joined(received, pipe', f + q)[i] = received[i]
        /\ \A i \in Len(received) + 1 .. Len(received) + (f + q) :
             Joined(received, pipe', f + q)[i] = pipe'[i - Len(received)]
    BY <1>1, <1>6, <1>8, <2>1, JoinedIs
  <2> QED BY <1>7, <2>2 DEF n
<1>10. /\ s \o p \in Seq(Ids) /\ Len(s \o p) = (n + f) + q
       /\ \A i \in 1 .. n + f : (s \o p)[i] = s[i]
       /\ \A i \in (n + f) + 1 .. (n + f) + q : (s \o p)[i] = p[i - (n + f)]
  <2> HIDE DEF n, f, q
  <2>1. Len(s) = n + f /\ Len(p) = q
    BY <1>2 DEF q
  <2>2. s \in Seq(Ids) /\ p \in Seq(Ids) /\ n + f \in Nat /\ q \in Nat
    BY <1>2, <1>3
  <2>3. /\ s \o p \in Seq(Ids) /\ Len(s \o p) = Len(s) + Len(p)
        /\ \A i \in 1 .. Len(s) : (s \o p)[i] = s[i]
        /\ \A i \in Len(s) + 1 .. Len(s) + Len(p) : (s \o p)[i] = p[i - Len(s)]
    BY <2>2, ConcatProperties
  <2> QED BY <2>1, <2>3
<1>11. Sent' = s \o p
  <2> DEFINE a == Sent'
             b == s \o p
  <2>1. \A i \in 1 .. n + (f + q) : \/ i \in 1 .. n /\ i \in 1 .. n + f
                                    \/ /\ i \in n + 1 .. n + f /\ i \in n + 1 .. n + (f + q)
                                       /\ i - n \in 1 .. f /\ i \in 1 .. n + f
                                    \/ /\ i \in (n + f) + 1 .. (n + f) + q
                                       /\ i \in n + 1 .. n + (f + q)
                                       /\ i - n \in f + 1 .. f + q /\ (i - n) - f = i - (n + f)
    BY <1>2, <1>3
  <2>2. a \in Seq(Ids) /\ b \in Seq(Ids) /\ Len(a) = Len(b) /\ Len(a) = n + (f + q)
    BY <1>2, <1>3, <1>9, <1>10
  <2> HIDE DEF a, b
  <2>3. ASSUME NEW i \in 1 .. n + (f + q) PROVE a[i] = b[i]
    <3>1. CASE i \in 1 .. n /\ i \in 1 .. n + f
      BY <1>2, <1>9, <1>10, <3>1 DEF a, b
    <3>2. CASE /\ i \in n + 1 .. n + f /\ i \in n + 1 .. n + (f + q)
               /\ i - n \in 1 .. f /\ i \in 1 .. n + f
      BY <1>2, <1>6, <1>9, <1>10, <3>2 DEF a, b
    <3>3. CASE /\ i \in (n + f) + 1 .. (n + f) + q /\ i \in n + 1 .. n + (f + q)
               /\ i - n \in f + 1 .. f + q /\ (i - n) - f = i - (n + f)
      BY <1>6, <1>9, <1>10, <3>3 DEF a, b
    <3> QED BY <2>1, <3>1, <3>2, <3>3
  <2> QED BY <2>2, <2>3, SeqEqual DEF a, b
<1>12. after' = IF Sent' = <<>> THEN 0 ELSE Sent'[Len(Sent')]
  <2>1. CASE p = <<>>
    <3>1. s \o p = s
      BY <1>2, <2>1, ConcatEmptySeq
    <3> QED BY <1>1, <1>4, <1>11, <2>1, <3>1
  <2>2. CASE p # <<>>
    <3>1. q # 0
      BY <1>3, <2>2, EmptySeq
    <3>2. /\ (n + f) + q \in (n + f) + 1 .. (n + f) + q /\ ((n + f) + q) - (n + f) = q
          /\ (n + f) + q # 0
      BY <1>2, <1>3, <3>1
    <3>3. (s \o p)[Len(s \o p)] = p[q]
      BY <1>10, <3>2
    <3>4. s \o p # <<>>
      BY <1>10, <3>2, EmptySeq
    <3> QED BY <1>4, <1>11, <2>2, <3>3, <3>4
  <2> QED BY <2>1, <2>2
<1>13. after' \in Nat
  <2>1. q \in 1 .. q \/ p = <<>>
    BY <1>3, EmptySeq
  <2> QED BY <1>1, <1>3, <1>4, <2>1 DEF Ids
<1>14. CursorKnown'
  BY <1>1, <1>6, <1>7, <1>8, <1>12, <1>13 DEF CursorKnown
<1> QED BY <1>5, <1>11, <1>14

\* What was sent was committed, so it has a place in the log up to now.
LEMMA CursorIsHighest ==
  ASSUME CursorKnown, LogInv, stage # "off", NEW e \in Range(log), e <= after
  PROVE  \E k \in DOMAIN Sent : e <= Sent[k]
<1>1. e \in Ids
  BY ElementOfSeq, LenProperties DEF LogInv, Range
<1>2. Sent # <<>> /\ after = Sent[Len(Sent)]
  BY <1>1 DEF CursorKnown, Ids
<1>3. Sent \in Seq(Ids)
  BY SentIs
<1> HIDE DEF Sent
<1>4. Len(Sent) \in DOMAIN Sent
  BY <1>2, <1>3, EmptySeq, LenProperties
<1> QED BY <1>2, <1>4

LEMMA DrainKeeps ==
  ASSUME StreamInv, Drain
  PROVE  CursorKnown' /\ Faithful(Sent', log) /\ ClosedBehind' /\ closing' \in 0 .. Len(log)
<1>0. /\ LogInv /\ CursorKnown /\ Faithful(Sent, log) /\ closing \in 0 .. Len(log)
      /\ upTo \in 0 .. Len(log) /\ UNCHANGED <<log, received, client>>
      /\ stage = "drain" /\ client = "open"
  BY DEF StreamInv, MarksKnown, CursorKnown, Drain, Streaming, run
<1>1. CASE Page = <<>> /\ pipe' = Append(pipe, End) /\ stage' = "over" /\ closing' = upTo
           /\ UNCHANGED after
  <2>1. /\ pipe \in Seq(Nat) /\ pipe' \in Seq(Nat) /\ Len(pipe) \in Nat
        /\ Len(pipe') = Len(pipe) + 1 /\ pipe'[Len(pipe')] = End /\ pipe' # <<>>
        /\ \A i \in 1 .. Len(pipe) : pipe'[i] = pipe[i]
    <3>1. pipe \in Seq(Nat) /\ End \in Nat
      BY <1>0 DEF CursorKnown, End
    <3> QED BY <1>1, <3>1, AppendProperties, LenProperties
  <2>2. Flight = Len(pipe) /\ Flight' = Len(pipe)
    BY <1>0, <1>1, <2>1 DEF Flight
  <2>3. Sent' = Sent
    <3> DEFINE n == Len(received)
               m == Len(pipe)
    <3>1. n \in Nat /\ m \in Nat
      BY <1>0, <2>1, LenProperties DEF CursorKnown
    <3>2. Sent' = Joined(received, pipe', m) /\ Sent = Joined(received, pipe, m)
      BY <1>0, <2>2 DEF Sent
    <3> HIDE DEF n
    <3>3. ASSUME NEW i \in 1 .. n + m, ~(i <= n) PROVE pipe'[i - n] = pipe[i - n]
      <4>1. i - n \in 1 .. m
        BY <3>1, <3>3
      <4> QED BY <2>1, <4>1
    <3> QED BY <3>2, <3>3 DEF Joined, n
  <2>4. CursorKnown'
    <3>1. \A i \in 1 .. Flight' : pipe'[i] # End
      BY <1>0, <2>1, <2>2 DEF CursorKnown
    <3> QED BY <1>0, <1>1, <2>1, <2>3, <3>1 DEF CursorKnown
  <2>5. ClosedBehind'
    <3> SUFFICES ASSUME NEW i \in 1 .. upTo PROVE \E k \in DOMAIN Sent : log[i] <= Sent[k]
      BY <1>0, <1>1, <2>3 DEF ClosedBehind
    <3>1. i \in DOMAIN log /\ log \in Seq(Ids) /\ after \in Nat
      BY <1>0, LenProperties DEF LogInv, CursorKnown
    <3>2. log[i] \in Range(log)
      BY <3>1 DEF Range
    <3>3. log[i] <= after
      BY <1>1, <3>1, <3>2, PageIsLowest
    <3> QED BY <1>0, <3>2, <3>3, CursorIsHighest
  <2> QED BY <1>0, <1>1, <2>3, <2>4, <2>5
<1>2. CASE Send /\ stage' = "poll" /\ UNCHANGED closing
  BY <1>0, <1>2, SendKeeps DEF ClosedBehind
<1>3. CASE stage' = "poll" /\ UNCHANGED <<pipe, after, closing>>
  <2>1. Sent' = Sent /\ Flight' = Flight
    BY <1>0, <1>3 DEF Sent, Flight
  <2> QED BY <1>0, <1>3, <2>1 DEF CursorKnown, ClosedBehind
<1> QED BY <1>1, <1>2, <1>3 DEF Drain

LEMMA PollKeeps ==
  ASSUME StreamInv, Poll \/ Check
  PROVE  CursorKnown' /\ Faithful(Sent', log) /\ ClosedBehind'
<1>0. /\ LogInv /\ CursorKnown /\ Faithful(Sent, log)
      /\ UNCHANGED <<log, received, client, closing>>
      /\ stage \in {"poll", "check"} /\ stage' \in {"poll", "check", "drain"}
      /\ client = "open"
  BY DEF StreamInv, CursorKnown, Poll, Check, Streaming, run
<1>1. ClosedBehind'
  BY <1>0 DEF ClosedBehind
<1>2. CASE Send
  BY <1>0, <1>1, <1>2, SendKeeps
<1>3. CASE UNCHANGED <<pipe, after>>
  <2>1. Sent' = Sent /\ Flight' = Flight
    BY <1>0, <1>3 DEF Sent, Flight
  <2> QED BY <1>0, <1>1, <1>3, <2>1 DEF CursorKnown
<1> QED BY <1>2, <1>3 DEF Poll, Check

\* What is on its way arrives, and the end is the last to.
LEMMA ReceiveKeeps ==
  ASSUME StreamInv, Receive
  PROVE  /\ CursorKnown' /\ Sent' = Sent /\ Range(received') \subseteq Range(Sent)
         /\ client' = "ended" => client = "ended" \/ stage = "over"
         /\ stage' = "over" => stage = "over"
<1> DEFINE n == Len(received)
           m == Len(pipe)
<1>0. /\ CursorKnown /\ UNCHANGED after /\ pipe # <<>> /\ pipe' = Tail(pipe)
      /\ received \in Seq(Ids) /\ pipe \in Seq(Nat) /\ stage # "off" /\ client = "open"
  BY DEF StreamInv, CursorKnown, Receive
<1>1. /\ n \in Nat /\ m \in Nat /\ m # 0 /\ Head(pipe) = pipe[1] /\ pipe' \in Seq(Nat)
      /\ Len(pipe') = m - 1 /\ \A i \in 1 .. m - 1 : pipe'[i] = pipe[i + 1]
      /\ \A i \in 1 .. m : pipe[i] \in Nat
  <2>1. n \in Nat /\ m \in Nat /\ m # 0 /\ Head(pipe) = pipe[1]
    BY <1>0, LenProperties, EmptySeq
  <2>2. /\ Tail(pipe) \in Seq(Nat) /\ Len(Tail(pipe)) = m - 1
        /\ \A i \in 1 .. m - 1 : Tail(pipe)[i] = pipe[i + 1]
    BY <1>0, HeadTailProperties
  <2>3. \A i \in 1 .. m : pipe[i] \in Nat
    BY <1>0, ElementOfSeq
  <2> QED BY <1>0, <2>1, <2>2, <2>3
<1>2. /\ Flight = IF stage = "over" THEN m - 1 ELSE m
      /\ \A i \in 1 .. Flight : pipe[i] # End
      /\ stage = "over" => pipe[m] = End
  BY <1>0 DEF CursorKnown, Flight
<1>3. Sent \in Seq(Ids) /\ \A i \in 1 .. n : Sent[i] = received[i]
  BY <1>0, SentIs
<1>4. CASE Head(pipe) = End
  <2>1. client' = "ended" /\ stage' = "off" /\ received' = received
    BY <1>4 DEF Receive
  <2>2. Flight = 0 /\ m = 1 /\ stage = "over"
    <3>1. ~(1 \in 1 .. Flight)
      BY <1>1, <1>2, <1>4
    <3> HIDE DEF m
    <3> QED BY <1>1, <1>2, <3>1
  <2>3. pipe' = <<>> /\ Flight' = 0
    BY <1>1, <2>1, <2>2, EmptySeq DEF Flight
  <2>4. Sent' = received /\ Sent = received
    BY <1>0, <2>1, <2>2, <2>3, JoinedNone DEF Sent
  <2>5. CursorKnown'
    BY <1>0, <1>1, <2>1, <2>3 DEF CursorKnown
  <2> QED BY <2>1, <2>2, <2>4, <2>5
<1>5. CASE Head(pipe) # End
  <2>1. received' = Append(received, pipe[1]) /\ UNCHANGED <<client, stage>>
    BY <1>1, <1>5 DEF Receive
  <2>2. pipe[1] \in Ids
    BY <1>1, <1>5 DEF Ids, End
  <2>3. /\ received' \in Seq(Ids) /\ Len(received') = n + 1
        /\ \A i \in 1 .. n : received'[i] = received[i]
        /\ received'[n + 1] = pipe[1]
    BY <1>0, <2>1, <2>2, AppendProperties
  <2>4. Flight' = Flight - 1 /\ Flight \in Nat /\ Flight # 0 /\ Flight - 1 \in 0 .. m - 1
    <3>1. stage = "over" => m # 1
      BY <1>1, <1>2, <1>5
    <3> QED BY <1>1, <1>2, <2>1, <3>1 DEF Flight
  <2>5. \A i \in 1 .. Flight - 1 : pipe'[i] # End
    <3> SUFFICES ASSUME NEW i \in 1 .. Flight - 1 PROVE pipe'[i] # End
      OBVIOUS
    <3>1. i \in 1 .. m - 1 /\ i + 1 \in 1 .. Flight
      BY <1>1, <2>4
    <3> QED BY <1>1, <1>2, <3>1
  <2>6. /\ Sent' \in Seq(Ids) /\ Len(Sent') = (n + 1) + (Flight - 1)
        /\ \A i \in 1 .. n + 1 : Sent'[i] = received'[i]
        /\ \A i \in (n + 1) + 1 .. (n + 1) + (Flight - 1) : Sent'[i] = pipe'[i - (n + 1)]
    <3> DEFINE f == Flight - 1
    <3>1. Sent' = Joined(received', pipe', f) /\ f \in 0 .. Len(pipe')
      BY <1>1, <2>4 DEF Sent
    <3> HIDE DEF f
    <3>2. \A i \in 1 .. f : pipe'[i] # End
      BY <2>5 DEF f
    <3>3. /\ Sent' \in Seq(Ids) /\ Len(Sent') = Len(received') + f
          /\ \A i \in 1 .. Len(received') : Sent'[i] = received'[i]
          /\ \A i \in Len(received') + 1 .. Len(received') + f :
               Sent'[i] = pipe'[i - Len(received')]
      <4> DEFINE s == Joined(received', pipe', f)
                 l == Len(received')
      <4>1. received' \in Seq(Ids) /\ pipe' \in Seq(Nat) /\ f \in 0 .. Len(pipe')
        BY <1>1, <2>3, <3>1
      <4>2. s \in Seq(Ids) /\ Len(s) = l + f
        BY <3>2, <4>1, JoinedIs
      <4>3. /\ \A i \in 1 .. l : s[i] = received'[i]
            /\ \A i \in l + 1 .. l + f : s[i] = pipe'[i - l]
        BY <3>2, <4>1, JoinedIs
      <4>4. Sent' = s
        BY <3>1
      <4> HIDE DEF s
      <4> QED BY <4>2, <4>3, <4>4
    <3> QED BY <2>3, <3>3 DEF f
  <2>7. /\ Len(Sent) = n + Flight
        /\ \A i \in n + 1 .. n + Flight : Sent[i] = pipe[i - n]
    <3>1. Flight \in 0 .. Len(pipe)
      BY <1>0, SentIs
    <3> QED BY <1>0, <1>2, <3>1, JoinedIs DEF Sent
  <2>8. Sent' = Sent
    <3> DEFINE a == Sent'
               b == Sent
    <3>1. a \in Seq(Ids) /\ b \in Seq(Ids) /\ Len(a) = Len(b) /\ Len(a) = n + Flight
      BY <1>1, <1>3, <2>4, <2>6, <2>7
    <3> HIDE DEF a, b
    <3>2. ASSUME NEW i \in 1 .. n + Flight PROVE a[i] = b[i]
      <4>1. CASE i \in 1 .. n
        BY <1>1, <1>3, <2>3, <2>6, <4>1 DEF a, b
      <4>2. CASE i = n + 1
        <5>1. n + 1 \in n + 1 .. n + Flight /\ (n + 1) - n = 1 /\ n + 1 \in 1 .. n + 1
          BY <1>1, <2>4
        <5> QED BY <2>3, <2>6, <2>7, <4>2, <5>1 DEF a, b
      <4>3. CASE i \in n + 2 .. n + Flight
        <5>1. /\ i \in n + 1 .. n + Flight /\ i \in (n + 1) + 1 .. (n + 1) + (Flight - 1)
              /\ i - (n + 1) \in 1 .. m - 1 /\ (i - (n + 1)) + 1 = i - n
          BY <1>1, <2>4, <4>3
        <5> QED BY <1>1, <2>6, <2>7, <5>1 DEF a, b
      <4>4. i \in 1 .. n \/ i = n + 1 \/ i \in n + 2 .. n + Flight
        <5> HIDE DEF n
        <5> QED BY <1>1, <2>4
      <4> QED BY <4>1, <4>2, <4>3, <4>4
    <3> QED BY <3>1, <3>2, SeqEqual DEF a, b
  <2>9. stage = "over" => pipe' # <<>> /\ pipe'[Len(pipe')] = End
    <3> SUFFICES ASSUME stage = "over" PROVE m - 1 # 0 /\ pipe'[m - 1] = End
      BY <1>1, EmptySeq
    <3>1. m - 1 # 0
      BY <1>1, <1>2, <2>4
    <3>2. m - 1 \in 1 .. m - 1 /\ (m - 1) + 1 = m
      BY <1>1, <3>1
    <3> QED BY <1>1, <1>2, <3>1, <3>2
  <2>10. CursorKnown'
    BY <1>0, <1>1, <2>1, <2>3, <2>4, <2>5, <2>8, <2>9 DEF CursorKnown
  <2>11. Range(received') \subseteq Range(Sent)
    <3>1. DOMAIN received' = 1 .. n + 1 /\ DOMAIN Sent = 1 .. Len(Sent)
      BY <1>3, <2>3, LenProperties
    <3>2. 1 .. n + 1 \subseteq DOMAIN Sent
      BY <1>1, <2>4, <2>7, <3>1
    <3> QED BY <2>6, <2>8, <3>1, <3>2 DEF Range
  <2> QED BY <1>0, <2>1, <2>8, <2>10, <2>11
<1> QED BY <1>4, <1>5

\* The newest events are the end of the sequence.
LEMMA NewestIs ==
  ASSUME NEW s \in Seq(Ids)
  PROVE  \E k \in Nat :
           /\ Newest(s) \in Seq(Ids) /\ Len(s) = k + Len(Newest(s))
           /\ \A i \in 1 .. Len(Newest(s)) : Newest(s)[i] = s[k + i]
           /\ k = 0 \/ Len(Newest(s)) = EventLimit
<1>1. Len(s) \in Nat /\ DOMAIN s = 1 .. Len(s) /\ EventLimit \in Nat
  BY LenProperties, StreamAssumption
<1>2. CASE Len(s) <= EventLimit
  <2>1. Newest(s) = s
    BY <1>2 DEF Newest
  <2>2. Len(s) = 0 + Len(s) /\ \A i \in 1 .. Len(s) : 0 + i = i
    BY <1>1
  <2>3. \A i \in 1 .. Len(s) : s[i] = s[0 + i]
    BY <2>2
  <2> HIDE DEF Newest
  <2> WITNESS 0 \in Nat
  <2> QED BY <2>1, <2>2, <2>3
<1>3. CASE ~(Len(s) <= EventLimit)
  <2> DEFINE k == Len(s) - EventLimit
             t == Newest(s)
  <2>1. k \in Nat /\ Len(s) = k + EventLimit
    BY <1>1, <1>3
  <2>2. t = SubSeq(s, k + 1, Len(s))
    BY <1>3 DEF Newest
  <2>3. \A i \in k + 1 .. Len(s) : s[i] \in Ids
    BY <1>1, <2>1, ElementOfSeq
  <2>4. k + 1 <= Len(s) /\ (Len(s) - (k + 1)) + 1 = EventLimit
    BY <1>1, StreamAssumption
  <2>5. \A i \in 1 .. EventLimit : (k + 1) + i - 1 = k + i
    BY <1>1
  <2> HIDE DEF k, t
  <2>6. t \in Seq(Ids) /\ Len(t) = EventLimit /\ \A i \in 1 .. EventLimit : t[i] = s[(k + 1) + i - 1]
    <3>1. SubSeq(s, k + 1, Len(s)) = [i \in 1 .. EventLimit |-> s[(k + 1) + i - 1]]
      BY <1>1, <2>1, <2>4 DEF SubSeq
    <3>2. t = [i \in 1 .. EventLimit |-> s[(k + 1) + i - 1]]
      BY <2>2, <3>1
    <3>3. \A i \in 1 .. EventLimit : s[(k + 1) + i - 1] \in Ids
      <4>1. \A i \in 1 .. EventLimit : k + i \in k + 1 .. Len(s)
        BY <1>1, <2>1
      <4> QED BY <2>3, <2>5, <4>1
    <3>4. t \in [1 .. EventLimit -> Ids]
      BY <3>2, <3>3
    <3> QED BY <1>1, <3>2, <3>4, SeqDef, LenProperties
  <2>7. \A i \in 1 .. EventLimit : t[i] = s[k + i]
    BY <2>5, <2>6
  <2> QED BY <2>1, <2>6, <2>7 DEF t
<1> QED BY <1>2, <1>3

\* No event is among the newest twice.
LEMMA NewestOnce ==
  ASSUME NEW s \in Seq(Ids), IsInjective(s)
  PROVE  Newest(s) \in Seq(Ids) /\ IsInjective(Newest(s))
<1>1. PICK k \in Nat :
        /\ Newest(s) \in Seq(Ids) /\ Len(s) = k + Len(Newest(s))
        /\ \A i \in 1 .. Len(Newest(s)) : Newest(s)[i] = s[k + i]
  BY NewestIs
<1> DEFINE t == Newest(s)
<1> HIDE DEF t
<1>2. t \in Seq(Ids) /\ Len(t) \in Nat /\ DOMAIN t = 1 .. Len(t) /\ DOMAIN s = 1 .. Len(s)
  BY <1>1, LenProperties DEF t
<1>3. ASSUME NEW i \in 1 .. Len(t), NEW j \in 1 .. Len(t), t[i] = t[j] PROVE i = j
  <2>1. k + i \in DOMAIN s /\ k + j \in DOMAIN s
    BY <1>1, <1>2 DEF t
  <2>2. s[k + i] = s[k + j]
    BY <1>1, <1>3 DEF t
  <2>3. k + i = k + j
    BY <2>1, <2>2 DEF IsInjective
  <2> QED BY <1>1, <1>2, <2>3
<1> QED BY <1>2, <1>3 DEF t, IsInjective

\* Of rising events, what is not among the newest is below as many as are kept.
LEMMA NewestAreAbove ==
  ASSUME NEW s \in Seq(Ids), Rising(s), NEW e \in Range(s), e \notin Range(Newest(s))
  PROVE  Len(Newest(s)) = EventLimit /\ \A f \in Range(Newest(s)) : e < f
<1>1. PICK k \in Nat :
        /\ Newest(s) \in Seq(Ids) /\ Len(s) = k + Len(Newest(s))
        /\ \A i \in 1 .. Len(Newest(s)) : Newest(s)[i] = s[k + i]
        /\ k = 0 \/ Len(Newest(s)) = EventLimit
  BY NewestIs
<1> DEFINE t == Newest(s)
<1> HIDE DEF t
<1>2. Len(t) \in Nat /\ DOMAIN t = 1 .. Len(t) /\ DOMAIN s = 1 .. Len(s) /\ Len(s) = k + Len(t)
  BY <1>1, LenProperties DEF t
<1>3. PICK i \in 1 .. Len(s) : s[i] = e
  BY <1>2 DEF Range
<1>4. i <= k
  <2> SUFFICES ASSUME i > k PROVE FALSE
    BY <1>2
  <2>1. i - k \in 1 .. Len(t) /\ k + (i - k) = i
    BY <1>2
  <2>2. t[i - k] = e
    BY <1>1, <1>3, <2>1 DEF t
  <2> QED BY <1>2, <2>1, <2>2 DEF t, Range
<1>5. ASSUME NEW j \in 1 .. Len(t) PROVE e < t[j]
  <2>1. k + j \in DOMAIN s /\ i < k + j
    BY <1>2, <1>4
  <2>2. s[i] < s[k + j]
    BY <1>2, <2>1 DEF Rising
  <2> QED BY <1>1, <1>3, <2>2 DEF t
<1>6. Len(t) = EventLimit
  BY <1>1, <1>2, <1>4 DEF t
<1> QED BY <1>2, <1>5, <1>6 DEF t, Range

\* A page shows an event once.
LEMMA ShownOnce ==
  ASSUME NEW s \in Seq(Ids), IsInjective(s), NEW e \in Ids, e \notin Range(s)
  PROVE  Append(s, e) \in Seq(Ids) /\ IsInjective(Append(s, e))
<1> DEFINE t == Append(s, e)
           n == Len(s)
<1>1. /\ n \in Nat /\ DOMAIN s = 1 .. n /\ DOMAIN t = 1 .. n + 1 /\ t \in Seq(Ids)
      /\ t[n + 1] = e /\ \A i \in 1 .. n : t[i] = s[i] /\ s[i] # e
  BY LenProperties, AppendProperties DEF Range
<1> HIDE DEF n, t
<1>2. \A i \in 1 .. n + 1 : i \in 1 .. n \/ i = n + 1
  BY <1>1
<1>3. IsInjective(t)
  <2> SUFFICES ASSUME NEW i \in 1 .. n + 1, NEW j \in 1 .. n + 1, t[i] = t[j] PROVE i = j
    BY <1>1 DEF IsInjective
  <2>1. CASE i \in 1 .. n /\ j \in 1 .. n
    BY <1>1, <2>1 DEF IsInjective
  <2>2. CASE i = n + 1 \/ j = n + 1
    BY <1>1, <1>2, <2>2
  <2> QED BY <1>2, <2>1, <2>2
<1> QED BY <1>1, <1>3 DEF t

\* A stream that was cut: what arrived is what was sent from now on.
LEMMA CutKeeps ==
  ASSUME StreamInv, stage' # "over", pipe' = <<>>, UNCHANGED <<received, log>>
  PROVE  /\ Sent' = received /\ Flight' = 0 /\ Faithful(received, log)
         /\ received \in Seq(Ids) /\ pipe' \in Seq(Nat)
<1>1. CursorKnown /\ Faithful(Sent, log) /\ log \in Seq(Ids) /\ received \in Seq(Ids)
  BY DEF StreamInv, LogInv, CursorKnown
<1>2. Len(pipe') = 0 /\ pipe' \in Seq(Nat)
  BY EmptySeq
<1>3. Flight' = 0
  BY <1>2 DEF Flight
<1>4. Sent' = received
  BY <1>1, <1>3, JoinedNone DEF Sent
<1>5. Faithful(received, log)
  <2>1. /\ Sent \in Seq(Ids) /\ Len(received) <= Len(Sent)
        /\ \A i \in 1 .. Len(received) : received[i] = Sent[i]
    <3>1. /\ Sent \in Seq(Ids) /\ Len(Sent) = Len(received) + Flight /\ Flight \in 0 .. Len(pipe)
          /\ Len(received) \in Nat /\ \A i \in 1 .. Len(received) : Sent[i] = received[i]
      BY <1>1, SentIs
    <3>2. Len(pipe) \in Nat
      BY LenProperties DEF StreamInv, CursorKnown
    <3> HIDE DEF Sent, Flight
    <3> QED BY <3>1, <3>2
  <2> HIDE DEF Sent
  <2> QED BY <1>1, <2>1, FaithfulPrefix
<1> QED BY <1>1, <1>2, <1>3, <1>4, <1>5

LEMMA StreamStep == StreamInv /\ [Next]_vars => StreamInv'
<1> SUFFICES ASSUME StreamInv, [Next]_vars PROVE StreamInv'
  OBVIOUS
<1>0. /\ LogInv /\ MarksKnown /\ CursorKnown /\ ClosedBehind /\ PageKnown
      /\ Faithful(Sent, log)
  BY DEF StreamInv
<1>1. CASE UNCHANGED vars
  <2>1. Sent' = Sent /\ Flight' = Flight
    BY <1>1 DEF Sent, Flight, vars, stream
  <2>2. LogInv' /\ MarksKnown'
    BY <1>0, <1>1 DEF vars, run, page, LogInv, MarksKnown
  <2>3. CursorKnown' /\ ClosedBehind'
    BY <1>0, <1>1, <2>1 DEF vars, run, stream, CursorKnown, ClosedBehind
  <2>4. PageKnown'
    BY <1>0, <1>1 DEF vars, run, page, stream, PageKnown, Crowded
  <2> QED BY <1>0, <1>1, <2>1, <2>2, <2>3, <2>4 DEF StreamInv, vars, run
<1>2. CASE \/ \E w \in Requests : InsertEvent(w) \/ LockRow(w) \/ CommitEvent(w) \/ EventFails(w)
           \/ Publish \/ RecordStatus \/ TerminalEvent \/ ReplayTerminal \/ Resume
  BY <1>2, RunKeepsStream
\* The other steps leave the run and its log alone.
<1>3. ASSUME UNCHANGED run, UNCHANGED upTo, closing' \in 0 .. Len(log), told' \in 0 .. Len(log),
             CursorKnown', ClosedBehind', PageKnown', Faithful(Sent', log)
      PROVE  StreamInv'
  <2>1. LogInv' /\ log' = log
    BY <1>0, <1>3 DEF run, LogInv
  <2>2. MarksKnown'
    BY <1>0, <1>3, <2>1 DEF MarksKnown
  <2> QED BY <1>3, <2>1, <2>2 DEF StreamInv
<1>4. CASE Poll \/ Check \/ Drain
  <2>1. UNCHANGED <<run, upTo, told, history, shown, client>>
    BY <1>4 DEF Poll, Check, Drain, Streaming
  <2>2. PageKnown'
    BY <1>0, <2>1 DEF PageKnown, Crowded, run
  <2>3. CASE Poll \/ Check
    <3>1. CursorKnown' /\ Faithful(Sent', log) /\ ClosedBehind'
      BY <2>3, PollKeeps
    <3>2. UNCHANGED closing
      BY <2>3 DEF Poll, Check
    <3> QED BY <1>0, <1>3, <2>1, <2>2, <3>1, <3>2 DEF MarksKnown
  <2>4. CASE Drain
    BY <1>0, <1>3, <2>1, <2>2, <2>4, DrainKeeps DEF MarksKnown
  <2> QED BY <1>4, <2>3, <2>4
<1>5. CASE Receive
  <2>1. UNCHANGED <<run, upTo, told, history, closing>>
    BY <1>5 DEF Receive, Streaming
  <2>2. /\ CursorKnown' /\ Sent' = Sent
        /\ client' = "ended" => client = "ended" \/ stage = "over"
        /\ stage' = "over" => stage = "over"
    BY <1>5, ReceiveKeeps
  <2>3. ClosedBehind'
    BY <1>0, <2>1, <2>2 DEF ClosedBehind, run
  <2>4. shown' \in Seq(Ids) /\ IsInjective(shown')
    <3>1. CASE UNCHANGED shown
      BY <1>0, <3>1 DEF PageKnown
    <3>2. CASE Head(pipe) # End
      <4>1. Head(pipe) \in Ids
        <5>1. pipe # <<>> /\ pipe \in Seq(Nat)
          BY <1>0, <1>5 DEF Receive, CursorKnown
        <5>2. Head(pipe) \in Nat
          BY <5>1, HeadTailProperties
        <5> QED BY <3>2, <5>2 DEF Ids, End
      <4>2. shown' = shown \/ (/\ Head(pipe) \notin Range(shown)
                              /\ shown' = Newest(Append(shown, Head(pipe))))
        BY <1>5, <3>2 DEF Receive, Shown
      <4> QED BY <1>0, <4>1, <4>2, ShownOnce, NewestOnce DEF PageKnown
    <3> QED BY <1>5, <3>1, <3>2 DEF Receive
  <2>5. PageKnown'
    <3>1. stage # "off"
      BY <1>0, <1>5 DEF Receive, CursorKnown
    <3>2. history = "none"
      BY <1>0, <3>1 DEF CursorKnown, PageKnown
    <3> QED BY <2>1, <2>4, <3>2 DEF PageKnown
  <2> QED BY <1>0, <1>3, <2>1, <2>2, <2>3, <2>5 DEF MarksKnown
<1>6. CASE Drop
  <2>1. UNCHANGED <<run, page, after, received, client, upTo, closing>>
    BY <1>6 DEF Drop
  <2>2. client = "open" /\ stage' = "off" /\ pipe' = <<>>
    BY <1>6 DEF Drop
  <2>3. Sent' = received /\ Flight' = 0 /\ Faithful(received, log) /\ pipe' \in Seq(Nat)
    BY <2>1, <2>2, CutKeeps DEF run
  <2>4. CursorKnown' /\ ClosedBehind'
    BY <1>0, <2>1, <2>2, <2>3 DEF CursorKnown, ClosedBehind
  <2>5. PageKnown'
    BY <1>0, <2>1 DEF PageKnown, Crowded, run, page
  <2> QED BY <1>0, <1>3, <2>1, <2>3, <2>4, <2>5 DEF MarksKnown, page
<1>7. CASE Reconnect
  <2>1. UNCHANGED <<run, shown, history, told, pipe, received, client, upTo, closing>>
    BY <1>7 DEF Reconnect, Streaming
  <2>2. /\ client = "open" /\ stage = "off" /\ stage' = "poll" /\ pipe = <<>>
        /\ after' = IF received = <<>> THEN 0 ELSE Last(received)
    BY <1>0, <1>7 DEF Reconnect, CursorKnown
  <2>3. Sent' = received /\ Flight' = 0 /\ Faithful(received, log) /\ pipe' \in Seq(Nat)
    BY <2>1, <2>2, CutKeeps DEF run
  <2>4. after' = (IF received = <<>> THEN 0 ELSE received[Len(received)]) /\ after' \in Nat
    <3>1. received \in Seq(Ids) /\ (received # <<>> => received[Len(received)] \in Ids)
      <4>1. received \in Seq(Ids)
        BY <1>0 DEF CursorKnown
      <4>2. received # <<>> => Len(received) \in 1 .. Len(received)
        BY <4>1, LenProperties, EmptySeq
      <4> QED BY <4>1, <4>2, ElementOfSeq
    <3> QED BY <2>2, <3>1 DEF Last, Ids
  <2>5. CursorKnown' /\ ClosedBehind'
    BY <1>0, <2>1, <2>2, <2>3, <2>4 DEF CursorKnown, ClosedBehind
  <2>6. PageKnown'
    BY <1>0, <2>1 DEF PageKnown, Crowded, run
  <2> QED BY <1>0, <1>3, <2>1, <2>3, <2>5, <2>6 DEF MarksKnown
<1>8. CASE Open
  <2>1. UNCHANGED <<run, shown, told, upTo, closing>>
    BY <1>8 DEF Open
  <2>2. /\ client' = "open" /\ received' = <<>> /\ history' = "none" /\ stage' = "poll"
        /\ after' = 0 /\ pipe' = <<>>
    BY <1>8 DEF Open
  <2>3. received' \in Seq(Ids) /\ pipe' \in Seq(Nat) /\ Len(pipe') = 0
    BY <2>2, EmptySeq
  <2>4. Flight' = 0
    BY <2>2, <2>3 DEF Flight
  <2>5. Sent' = <<>>
    BY <2>2, <2>3, <2>4, JoinedNone DEF Sent
  <2>6. CursorKnown' /\ ClosedBehind'
    BY <2>2, <2>3, <2>4, <2>5 DEF CursorKnown, ClosedBehind
  <2>7. Faithful(<<>>, log)
    BY DEF Faithful, Rising, PassesOver, Range
  <2>8. PageKnown'
    BY <1>0, <2>1, <2>2 DEF PageKnown
  <2> QED BY <1>0, <1>3, <2>1, <2>5, <2>6, <2>7, <2>8 DEF MarksKnown
<1>9. CASE LearnEnd
  <2>1. UNCHANGED <<run, after, received, shown, upTo, closing>>
    BY <1>9 DEF LearnEnd
  <2>2. /\ told' = upTo /\ history' = "asked" /\ client' = "closed" /\ stage' = "off"
        /\ pipe' = <<>>
    BY <1>9 DEF LearnEnd
  <2>3. Sent' = received /\ Flight' = 0 /\ Faithful(received, log) /\ pipe' \in Seq(Nat)
    BY <2>1, <2>2, CutKeeps DEF run
  <2>4. CursorKnown' /\ ClosedBehind' /\ PageKnown'
    BY <1>0, <2>1, <2>2, <2>3 DEF CursorKnown, ClosedBehind, PageKnown
  <2> QED BY <1>0, <1>3, <2>1, <2>2, <2>3, <2>4 DEF MarksKnown
<1>10. CASE ShowHistory
  <2>1. /\ history = "asked"
        /\ UNCHANGED <<run, stage, after, pipe, received, client, told, upTo, closing>>
    BY <1>10 DEF ShowHistory, stream
  <2>2. Sent' = Sent /\ Flight' = Flight
    BY <2>1 DEF Sent, Flight
  <2>3. CursorKnown' /\ ClosedBehind'
    BY <1>0, <2>1, <2>2 DEF CursorKnown, ClosedBehind, run
  <2>4. CASE shown' = Newest(Ascending(Range(log))) /\ history' = "shown"
    <3>1. Range(log) \in SUBSET Ids /\ IsFiniteSet(Range(log))
      <4>1. log \in Seq(Ids)
        BY <1>0 DEF LogInv
      <4>2. IsFiniteSet(DOMAIN log) /\ log \in Surjection(DOMAIN log, Range(log))
        BY <4>1, LenProperties, FS_Interval DEF Surjection, Range
      <4>3. Range(log) \subseteq Ids
        BY <4>1, ElementOfSeq DEF Range
      <4> QED BY <4>2, <4>3, FS_Surjection
    <3> DEFINE R == Range(log)
               all == Ascending(R)
    <3>2. all \in Seq(R) /\ Range(all) = R /\ Rising(all)
      <4> HIDE DEF R
      <4> QED BY <3>1, AscendingOrders DEF R
    <3>3. all \in Seq(Ids)
      <4>1. Seq(R) \subseteq Seq(Ids)
        BY <3>1, SeqDef
      <4> QED BY <3>2, <4>1
    <3>4. shown' = Newest(all)
      BY <2>4
    <3> HIDE DEF all
    <3>7. shown' \in Seq(Ids) /\ IsInjective(shown')
      BY <3>2, <3>3, <3>4, RisingIsInjective, NewestOnce
    <3>5. \A i \in 1 .. told : log[i] \in Range(shown') \/ Crowded(log[i])'
      <4> SUFFICES ASSUME NEW i \in 1 .. told, log[i] \notin Range(shown')
                   PROVE  Crowded(log[i])'
        OBVIOUS
      <4>1. log[i] \in Range(all)
        <5>1. i \in DOMAIN log
          BY <1>0, LenProperties DEF MarksKnown, LogInv
        <5>2. log[i] \in R
          BY <5>1 DEF Range
        <5> QED BY <3>2, <5>2
      <4>2. Len(shown') = EventLimit /\ \A f \in Range(shown') : log[i] < f
        BY <3>2, <3>3, <3>4, <4>1, NewestAreAbove
      <4> QED BY <2>1, <4>2 DEF Crowded, run
    <3>6. PageKnown'
      BY <1>0, <1>10, <2>1, <3>5, <3>7 DEF PageKnown, ShowHistory, run
    <3> QED BY <1>0, <1>3, <2>1, <2>2, <2>3, <3>6 DEF MarksKnown
  <2>5. CASE history' = "none" /\ UNCHANGED shown
    <3>1. PageKnown'
      BY <1>0, <2>1, <2>5 DEF PageKnown
    <3> QED BY <1>0, <1>3, <2>1, <2>2, <2>3, <3>1 DEF MarksKnown
  <2> QED BY <1>10, <2>4, <2>5 DEF ShowHistory
<1> QED BY <1>1, <1>2, <1>4, <1>5, <1>6, <1>7, <1>8, <1>9, <1>10 DEF Next

LEMMA StreamInit == Init => StreamInv
<1> SUFFICES ASSUME Init PROVE StreamInv
  OBVIOUS
<1> USE DEF Init
<1>1. <<>> \in Seq(Ids) /\ <<>> \in Seq(Nat) /\ Len(<<>>) = 0
  BY EmptySeq
<1>2. LogInv
  BY <1>1 DEF LogInv, Ids, IsInjective
<1>3. Flight = 0
  BY <1>1 DEF Flight
<1>4. Sent = <<>>
  BY <1>1, <1>3, JoinedNone DEF Sent
<1>5. CursorKnown /\ ClosedBehind /\ MarksKnown /\ PageKnown
  BY <1>1, <1>3, <1>4 DEF CursorKnown, ClosedBehind, MarksKnown, PageKnown, IsInjective
<1>6. Faithful(<<>>, log)
  BY DEF Faithful, Rising, PassesOver, Range
<1> QED BY <1>2, <1>4, <1>5, <1>6 DEF StreamInv

-----------------------------------------------------------------------------
\* Of what arrived, from what was sent: an event that was passed over when
\* something higher arrived was committed after something that had arrived.
LEMMA ArrivedIsComplete == StreamInv => StreamIsComplete
<1> SUFFICES ASSUME StreamInv PROVE StreamIsComplete
  OBVIOUS
<1>0. /\ LogInv /\ MarksKnown /\ CursorKnown /\ ClosedBehind /\ PageKnown
      /\ Faithful(Sent, log) /\ log \in Seq(Ids) /\ received \in Seq(Ids)
  BY DEF StreamInv, LogInv, CursorKnown
<1>1. Faithful(received, log)
  <2>1. /\ Sent \in Seq(Ids) /\ Len(Sent) = Len(received) + Flight /\ Flight \in 0 .. Len(pipe)
        /\ Len(received) \in Nat /\ \A i \in 1 .. Len(received) : Sent[i] = received[i]
    BY <1>0, SentIs
  <2>2. Len(pipe) \in Nat
    BY <1>0, LenProperties DEF CursorKnown
  <2> HIDE DEF Sent, Flight
  <2>3. Len(received) <= Len(Sent) /\ \A i \in 1 .. Len(received) : received[i] = Sent[i]
    BY <2>1, <2>2
  <2> QED BY <1>0, <2>1, <2>3, FaithfulPrefix
<1>2. ASSUME NEW i \in DOMAIN log, NEW g \in Range(received), log[i] < g
      PROVE  log[i] \in Range(received) \/ Overtaken(log[i])
  <2>1. PICK k \in DOMAIN received : g = received[k]
    BY DEF Range
  <2>2. CASE log[i] \notin Range(received)
    <3>1. PICK m \in 1 .. k, j \in 1 .. i - 1 : received[m] > log[i] /\ log[j] = received[m]
      BY <1>1, <1>2, <2>1, <2>2 DEF Faithful, PassesOver
    <3>2. m \in DOMAIN received /\ j \in DOMAIN log /\ j < i
      BY <1>0, LenProperties
    <3> QED BY <3>1, <3>2 DEF Overtaken, Range
  <2> QED BY <2>2
<1>3. ASSUME client = "ended", NEW i \in 1 .. closing
      PROVE  log[i] \in Range(received) \/ Overtaken(log[i])
  <2>1. stage = "off" /\ pipe = <<>>
    BY <1>0, <1>3 DEF CursorKnown
  <2>2. Sent = received
    <3>1. Flight = 0
      BY <2>1, EmptySeq DEF Flight
    <3> QED BY <1>0, <3>1, JoinedNone DEF Sent
  <2>3. PICK k \in DOMAIN received : log[i] <= received[k]
    BY <1>0, <1>3, <2>2 DEF ClosedBehind
  <2>4. i \in DOMAIN log /\ received[k] \in Range(received)
    BY <1>0, LenProperties DEF MarksKnown, Range
  <2>5. log[i] \in Int /\ received[k] \in Int
    <3>1. log[i] \in Ids /\ received[k] \in Ids
      BY <1>0, <2>4, ElementOfSeq, LenProperties
    <3> QED BY <3>1 DEF Ids
  <2>6. log[i] = received[k] \/ log[i] < received[k]
    BY <2>3, <2>5
  <2> QED BY <1>2, <2>4, <2>6
<1>4. \A i, j \in DOMAIN received : i < j => received[i] < received[j]
  BY <1>1 DEF Faithful, Rising
<1> QED BY <1>0, <1>2, <1>3, <1>4 DEF StreamIsComplete, PageKnown

\* api.rs, events, and run-detail.tsx: a client gets each event once and in the
\* order of their ids, and misses none but those that were overtaken; run-detail.tsx:
\* a page with the history shows every event but those with as many newer ones on it
\* as it keeps.
THEOREM StreamComplete == Spec => []StreamIsComplete
BY StreamInit, StreamStep, ArrivedIsComplete, PTL DEF Spec
=============================================================================
