--------------------------- MODULE PublishProofs ----------------------------
(***************************************************************************)
(* What becomes of nodes on their way through hubs, for lists of any       *)
(* length, any number of hubs and any tests.                               *)
(***************************************************************************)
EXTENDS Publish, ListTheorems, SequenceTheorems

\* A sequence, and how long it is.
LEMMA IsList ==
  ASSUME NEW S, NEW s \in Seq(S)
  PROVE  /\ Len(s) \in Nat /\ DOMAIN s = 1 .. Len(s)
         /\ s = [i \in 1 .. Len(s) |-> s[i]]
         /\ \A i \in 1 .. Len(s) : s[i] \in S
OBVIOUS

\* A function on 1 .. n is a list of n elements.
LEMMA ListOf ==
  ASSUME NEW n \in Nat, NEW s, s = [i \in 1 .. n |-> s[i]], NEW S, \A i \in 1 .. n : s[i] \in S
  PROVE  s \in Seq(S) /\ Len(s) = n /\ DOMAIN s = 1 .. n
<1>1. s \in [1 .. n -> S]
  OBVIOUS
<1>2. s \in Seq(S)
  BY <1>1
<1>. QED BY <1>1, <1>2

\* The elements of s at the places a list names.
Along(s, e, n) == [k \in 1 .. n |-> s[e[k]]]

\* The part of a sequence at some places is listed by those places.
LEMMA AtLists ==
  ASSUME NEW n \in Nat, NEW I \in SUBSET (1 .. n), NEW s
  PROVE  /\ IsFiniteSet(I) /\ Linear(I, Less(n)) /\ Cardinality(I) \in Nat
         /\ \E e : Lists(e, I, Less(n)) /\ At(s, I) = Along(s, e, Cardinality(I))
<1>1. /\ IsFiniteSet(I) /\ Linear(I, Less(n)) /\ Cardinality(I) \in Nat
      /\ \A i, j \in 1 .. n : <<i, j>> \in Less(n) <=> i < j
  BY LessLinear, FS_CardinalityType
<1>2. PICK e : /\ Lists(e, I, Less(n))
               /\ \A k \in 1 .. Cardinality(I), i \in I :
                      Cardinality(Below(I, Less(n), i)) = k - 1 <=> i = e[k]
  BY <1>1, ListExists
<1>3. \A i \in I : {j \in I : j < i} = Below(I, Less(n), i)
  BY <1>1 DEF Below
<1>4. ASSUME NEW k \in 1 .. Cardinality(I)
      PROVE  (CHOOSE i \in I : Cardinality({j \in I : j < i}) = k - 1) = e[k]
  <2>1. e[k] \in I
    BY <1>2 DEF Lists
  <2>2. \A i \in I : Cardinality({j \in I : j < i}) = k - 1 <=> i = e[k]
    BY <1>2, <1>3
  <2>. QED BY <2>1, <2>2
<1>. DEFINE c == [k \in 1 .. Cardinality(I) |->
                    CHOOSE i \in I : Cardinality({j \in I : j < i}) = k - 1]
<1>5. \A k \in 1 .. Cardinality(I) : c[k] = e[k]
  BY <1>4
<1>6. At(s, I) = [k \in 1 .. Cardinality(I) |-> s[c[k]]]
  BY DEF At, Kth
<1>. HIDE DEF c
<1>7. At(s, I) = Along(s, e, Cardinality(I))
  BY <1>5, <1>6 DEF Along
<1>. QED BY <1>1, <1>2, <1>7

\* A part of a sequence is one.
LEMMA PartIs ==
  ASSUME NEW S, NEW s \in Seq(S), NEW I \in SUBSET (1 .. Len(s))
  PROVE  /\ At(s, I) \in Seq(S) /\ Len(At(s, I)) = Cardinality(I)
         /\ DOMAIN At(s, I) = 1 .. Cardinality(I)
         /\ \A k \in DOMAIN At(s, I) : \E i \in I : At(s, I)[k] = s[i]
         /\ \A i \in I : \E k \in DOMAIN At(s, I) : At(s, I)[k] = s[i]
<1>. DEFINE n == Cardinality(I)
<1>1. Len(s) \in Nat /\ \A i \in 1 .. Len(s) : s[i] \in S
  BY IsList
<1>2. n \in Nat
  BY <1>1, AtLists
<1>3. PICK e : Lists(e, I, Less(Len(s))) /\ At(s, I) = Along(s, e, n)
  BY <1>1, AtLists
<1>4. \A k \in 1 .. n : e[k] \in I
  BY <1>3 DEF Lists
<1>5. \A i \in I : \E k \in 1 .. n : e[k] = i
  BY <1>3 DEF Lists
<1>6. \A k \in 1 .. n : At(s, I)[k] = s[e[k]] /\ s[e[k]] \in S
  BY <1>1, <1>3, <1>4 DEF Along
<1>7. At(s, I) = [k \in 1 .. n |-> At(s, I)[k]]
  BY <1>3 DEF Along
<1>. HIDE DEF n
<1>8. At(s, I) \in Seq(S) /\ Len(At(s, I)) = n /\ DOMAIN At(s, I) = 1 .. n
  BY <1>2, <1>6, <1>7, ListOf
<1>9. ASSUME NEW k \in 1 .. n PROVE \E i \in I : At(s, I)[k] = s[i]
  BY <1>4, <1>6
<1>10. ASSUME NEW i \in I PROVE \E k \in 1 .. n : At(s, I)[k] = s[i]
  <2>1. PICK k \in 1 .. n : e[k] = i
    BY <1>5
  <2>. QED BY <2>1, <1>6
<1>. QED BY <1>8, <1>9, <1>10 DEF n

-----------------------------------------------------------------------------
(* Scores and columns are numbers. *)

\* A score is a number.
LEMMA ScoreIsInt ==
  ASSUME NEW p, IsNode(p)
  PROVE  Score(p) \in Int
<1>1. \A n \in 0 .. 4 : Root(n) \in Int
  <2>1. Root(0) \in Int
    <3>1. 0 \in 0 .. 0 /\ 0 * 0 <= 0 /\ 0 < (0 + 1) * (0 + 1)
      OBVIOUS
    <3>. QED BY <3>1 DEF Root
  <2>2. Root(1) \in Int
    <3>1. 1 \in 0 .. 1 /\ 1 * 1 <= 1 /\ 1 < (1 + 1) * (1 + 1)
      OBVIOUS
    <3>. QED BY <3>1 DEF Root
  <2>3. Root(2) \in Int
    <3>1. 1 \in 0 .. 2 /\ 1 * 1 <= 2 /\ 2 < (1 + 1) * (1 + 1)
      OBVIOUS
    <3>. QED BY <3>1 DEF Root
  <2>4. Root(3) \in Int
    <3>1. 1 \in 0 .. 3 /\ 1 * 1 <= 3 /\ 3 < (1 + 1) * (1 + 1)
      OBVIOUS
    <3>. QED BY <3>1 DEF Root
  <2>5. Root(4) \in Int
    <3>1. 2 \in 0 .. 4 /\ 2 * 2 <= 4 /\ 4 < (2 + 1) * (2 + 1)
      OBVIOUS
    <3>. QED BY <3>1 DEF Root
  <2>6. \A n \in 0 .. 4 : n \in {0, 1, 2, 3, 4}
    OBVIOUS
  <2>. QED BY <2>1, <2>2, <2>3, <2>4, <2>5, <2>6
<1>. DEFINE latency == IF p.available = None THEN 500 ELSE Or(p.latency, 2000)
            speed == IF p.measured THEN Or(p.speed, 0) ELSE 0
<1>2. latency \in Nat /\ speed \in Nat /\ p.unlocked \in Nat
  BY DEF IsNode, Or
<1>3. AtMost(latency, 2000) \in Int /\ AtMost(speed, 4) \in 0 .. 4
  <2>. HIDE DEF latency, speed
  <2>. QED BY <1>2 DEF AtMost
<1>4. Root(AtMost(speed, 4)) \in Int
  BY <1>1, <1>3
<1>5. 90 * (2000 - AtMost(latency, 2000)) + 80000 * Root(AtMost(speed, 4)) + 30000 * p.unlocked \in Int
  <2>. DEFINE a == AtMost(latency, 2000)
              b == Root(AtMost(speed, 4))
  <2>. HIDE DEF a, b
  <2>1. a \in Int /\ b \in Int
    BY <1>3, <1>4 DEF a, b
  <2>2. 90 * (2000 - a) + 80000 * b + 30000 * p.unlocked \in Int
    BY <1>2, <2>1
  <2>. QED BY <2>2 DEF a, b
<1>. QED BY <1>5 DEF Score

\* So is what a transform sorts by.
LEMMA ColumnIsInt ==
  ASSUME NEW p, IsNode(p), NEW key \in {"latency", "speed", "score"}
  PROVE  Column(p, key) \in Int
<1>1. CASE key = "latency"
  BY <1>1 DEF Column, Or, IsNode
<1>2. CASE key = "speed"
  BY <1>2 DEF Column, Or, IsNode
<1>3. CASE key = "score"
  BY <1>3, ScoreIsInt DEF Column
<1>. QED BY <1>1, <1>2, <1>3

\* Which places the two sorts put first.
ByScore(s) == {x \in (DOMAIN s) \X (DOMAIN s) : Score(s[x[1]]) > Score(s[x[2]])}
ByColumn(s, sort) == {x \in (DOMAIN s) \X (DOMAIN s) : Before(s[x[1]], s[x[2]], sort)}

\* Scores order the places of a list, ties apart.
LEMMA ScoreIsWeak ==
  ASSUME NEW s, NEW n \in Nat, DOMAIN s = 1 .. n, \A i \in 1 .. n : IsNode(s[i])
  PROVE  Weak(1 .. n, ByScore(s))
<1>. DEFINE c == [i \in 1 .. n |-> Score(s[i])]
            W == ByScore(s)
<1>1. \A i \in 1 .. n : c[i] \in Int
  BY ScoreIsInt
<1>2. \A i, j \in 1 .. n : <<i, j>> \in W <=> c[i] > c[j]
  BY DEF ByScore
<1>. HIDE DEF c, W
<1>3. Weak(1 .. n, W)
  BY <1>1, <1>2 DEF Weak
<1>. QED BY <1>3 DEF W

\* So does a column.
LEMMA ColumnIsWeak ==
  ASSUME NEW s, NEW n \in Nat, DOMAIN s = 1 .. n, \A i \in 1 .. n : IsNode(s[i]),
         NEW sort, sort.key \in {"latency", "speed", "score"}
  PROVE  Weak(1 .. n, ByColumn(s, sort))
<1>. DEFINE b == [i \in 1 .. n |-> Column(s[i], sort.key)]
            c == [i \in 1 .. n |-> IF sort.desc THEN 0 - b[i] ELSE b[i]]
            dead == [i \in 1 .. n |-> IF s[i].available = FALSE THEN 1 ELSE 0]
            W == ByColumn(s, sort)
<1>1. \A i \in 1 .. n : b[i] \in Int
  BY ColumnIsInt
<1>2. \A i, j \in 1 .. n : <<i, j>> \in W <=>
         IF dead[i] # dead[j] THEN dead[i] < dead[j]
         ELSE IF sort.desc THEN b[i] > b[j] ELSE b[i] < b[j]
  BY DEF ByColumn, Before
<1>3. \A i \in 1 .. n : dead[i] \in Int /\ c[i] = IF sort.desc THEN 0 - b[i] ELSE b[i]
  OBVIOUS
<1>. HIDE DEF b, c, dead, W
<1>4. \A i \in 1 .. n : c[i] \in Int
  BY <1>1, <1>3
<1>5. \A i, j \in 1 .. n : <<i, j>> \in W <=> dead[i] < dead[j] \/ (dead[i] = dead[j] /\ c[i] < c[j])
  <2>. SUFFICES ASSUME NEW i \in 1 .. n, NEW j \in 1 .. n
                PROVE  <<i, j>> \in W <=> dead[i] < dead[j] \/ (dead[i] = dead[j] /\ c[i] < c[j])
    OBVIOUS
  <2>1. b[i] \in Int /\ b[j] \in Int /\ dead[i] \in Int /\ dead[j] \in Int
    BY <1>1, <1>3
  <2>2. (IF sort.desc THEN b[i] > b[j] ELSE b[i] < b[j]) <=> c[i] < c[j]
    <3>1. CASE sort.desc
      BY <1>3, <2>1, <3>1
    <3>2. CASE ~sort.desc
      BY <1>3, <2>1, <3>2
    <3>. QED BY <3>1, <3>2
  <2>. QED BY <1>2, <2>1, <2>2
<1>6. Weak(1 .. n, W)
  <2>1. ASSUME NEW i \in 1 .. n, NEW j \in 1 .. n, <<i, j>> \in W PROVE <<j, i>> \notin W
    BY <1>3, <1>4, <1>5, <2>1
  <2>2. ASSUME NEW i \in 1 .. n, NEW j \in 1 .. n, NEW k \in 1 .. n, <<i, j>> \in W
        PROVE  <<i, k>> \in W \/ <<k, j>> \in W
    <3>1. /\ dead[i] \in Int /\ dead[j] \in Int /\ dead[k] \in Int
          /\ c[i] \in Int /\ c[j] \in Int /\ c[k] \in Int
      BY <1>3, <1>4
    <3>2. dead[i] < dead[j] \/ (dead[i] = dead[j] /\ c[i] < c[j])
      BY <1>5, <2>2
    <3>3. \/ dead[i] < dead[k] \/ (dead[i] = dead[k] /\ c[i] < c[k])
          \/ dead[k] < dead[j] \/ (dead[k] = dead[j] /\ c[k] < c[j])
      BY <3>1, <3>2
    <3>. QED BY <1>5, <3>3
  <2>. QED BY <2>1, <2>2 DEF Weak
<1>. QED BY <1>6 DEF W

\* The two sorts list all places in their order.
LEMMA SortedByScore ==
  ASSUME NEW s, NEW n \in Nat, DOMAIN s = 1 .. n, \A i \in 1 .. n : IsNode(s[i])
  PROVE  \E e : /\ Lists(e, 1 .. n, Stable(n, ByScore(s)))
                /\ BestFirst(s) = Along(s, e, n)
<1>. DEFINE R == Stable(n, ByScore(s))
<1>1. IsFiniteSet(1 .. n) /\ Cardinality(1 .. n) = n
  BY CardinalityOfInterval
<1>2. Linear(1 .. n, R)
  BY ScoreIsWeak, StableLinear
<1>3. PICK e : /\ Lists(e, 1 .. n, R)
               /\ \A k \in 1 .. n, i \in 1 .. n : Cardinality(Below(1 .. n, R, i)) = k - 1 <=> i = e[k]
  BY <1>1, <1>2, ListExists
<1>4. ASSUME NEW i \in 1 .. n
      PROVE  {j \in 1 .. n : Score(s[j]) > Score(s[i]) \/ (~(Score(s[i]) > Score(s[j])) /\ j < i)}
             = Below(1 .. n, R, i)
  <2>1. \A j \in 1 .. n : <<j, i>> \in R <=> <<j, i>> \in ByScore(s) \/ (<<i, j>> \notin ByScore(s) /\ j < i)
    BY ScoreIsWeak, StableLinear
  <2>2. \A j \in 1 .. n : /\ <<j, i>> \in ByScore(s) <=> Score(s[j]) > Score(s[i])
                          /\ <<i, j>> \in ByScore(s) <=> Score(s[i]) > Score(s[j])
    BY DEF ByScore
  <2>. HIDE DEF R
  <2>. QED BY <2>1, <2>2 DEF Below
<1>. DEFINE c == [k \in 1 .. n |-> CHOOSE i \in 1 .. n : Cardinality({j \in 1 .. n :
                    Score(s[j]) > Score(s[i]) \/ (~(Score(s[i]) > Score(s[j])) /\ j < i)}) = k - 1]
<1>5. ASSUME NEW k \in 1 .. n PROVE c[k] = e[k]
  <2>1. e[k] \in 1 .. n
    BY <1>1, <1>3 DEF Lists
  <2>2. \A i \in 1 .. n : Cardinality({j \in 1 .. n :
            Score(s[j]) > Score(s[i]) \/ (~(Score(s[i]) > Score(s[j])) /\ j < i)}) = k - 1 <=> i = e[k]
    <3>. HIDE DEF R
    <3>. QED BY <1>3, <1>4
  <2>. QED BY <2>1, <2>2
<1>6. BestFirst(s) = [k \in 1 .. n |-> s[c[k]]]
  BY DEF BestFirst, SortedBy, Kth
<1>. HIDE DEF c, R
<1>7. BestFirst(s) = Along(s, e, n)
  BY <1>5, <1>6 DEF Along
<1>. QED BY <1>3, <1>7 DEF R

\* And a transform's sort.
LEMMA SortedByColumn ==
  ASSUME NEW s, NEW n \in Nat, DOMAIN s = 1 .. n, \A i \in 1 .. n : IsNode(s[i]),
         NEW sort, sort.key \in {"latency", "speed", "score"}
  PROVE  \E e : /\ Lists(e, 1 .. n, Stable(n, ByColumn(s, sort)))
                /\ Sorted(s, sort) = Along(s, e, n)
<1>. DEFINE R == Stable(n, ByColumn(s, sort))
<1>1. IsFiniteSet(1 .. n) /\ Cardinality(1 .. n) = n
  BY CardinalityOfInterval
<1>2. Linear(1 .. n, R)
  BY ColumnIsWeak, StableLinear
<1>3. PICK e : /\ Lists(e, 1 .. n, R)
               /\ \A k \in 1 .. n, i \in 1 .. n : Cardinality(Below(1 .. n, R, i)) = k - 1 <=> i = e[k]
  BY <1>1, <1>2, ListExists
<1>4. ASSUME NEW i \in 1 .. n
      PROVE  {j \in 1 .. n : Before(s[j], s[i], sort) \/ (~Before(s[i], s[j], sort) /\ j < i)}
             = Below(1 .. n, R, i)
  <2>1. \A j \in 1 .. n :
            <<j, i>> \in R <=> <<j, i>> \in ByColumn(s, sort)
                               \/ (<<i, j>> \notin ByColumn(s, sort) /\ j < i)
    BY ColumnIsWeak, StableLinear
  <2>2. \A j \in 1 .. n : /\ <<j, i>> \in ByColumn(s, sort) <=> Before(s[j], s[i], sort)
                          /\ <<i, j>> \in ByColumn(s, sort) <=> Before(s[i], s[j], sort)
    BY DEF ByColumn
  <2>. HIDE DEF R
  <2>. QED BY <2>1, <2>2 DEF Below
<1>. DEFINE c == [k \in 1 .. n |-> CHOOSE i \in 1 .. n : Cardinality({j \in 1 .. n :
                    Before(s[j], s[i], sort) \/ (~Before(s[i], s[j], sort) /\ j < i)}) = k - 1]
<1>5. ASSUME NEW k \in 1 .. n PROVE c[k] = e[k]
  <2>1. e[k] \in 1 .. n
    BY <1>1, <1>3 DEF Lists
  <2>2. \A i \in 1 .. n : Cardinality({j \in 1 .. n :
            Before(s[j], s[i], sort) \/ (~Before(s[i], s[j], sort) /\ j < i)}) = k - 1 <=> i = e[k]
    <3>. HIDE DEF R
    <3>. QED BY <1>3, <1>4
  <2>. QED BY <2>1, <2>2
<1>6. Sorted(s, sort) = [k \in 1 .. n |-> s[c[k]]]
  BY DEF Sorted, SortedBy, Kth
<1>. HIDE DEF c, R
<1>7. Sorted(s, sort) = Along(s, e, n)
  BY <1>5, <1>6 DEF Along
<1>. QED BY <1>3, <1>7 DEF R

Usable(s) == {i \in DOMAIN s : IsUsable(s[i])}

\* The usable nodes of a list, both ways the code selects them.
LEMMA SelectUsable ==
  ASSUME NEW s
  PROVE  Select(s, IsUsable) = At(s, Usable(s)) /\ ExportFilter(s) = At(s, Usable(s))
BY DEF Select, Usable, ExportFilter

\* All of a sequence.
LEMMA AtAll ==
  ASSUME NEW S, NEW a \in Seq(S)
  PROVE  At(a, DOMAIN a) = a
<1>. DEFINE m == Len(a)
            D == 1 .. m
<1>0. m \in Nat
  OBVIOUS
<1>1. DOMAIN a = D /\ a = [i \in 1 .. m |-> a[i]]
  BY IsList
<1>2. PICK e : Lists(e, D, Less(m)) /\ At(a, D) = Along(a, e, Cardinality(D))
  <2>1. D \in SUBSET (1 .. m)
    OBVIOUS
  <2>. HIDE DEF m, D
  <2>. QED BY <1>0, <2>1, AtLists
<1>3. Cardinality(D) = m /\ \A k \in 1 .. m : e[k] = k
  <2>1. Lists(e, 1 .. m, Less(m))
    BY <1>2
  <2>. HIDE DEF m
  <2>. QED BY <1>0, <2>1, ListIdentity
<1>. HIDE DEF m, D
<1>4. [k \in 1 .. m |-> a[e[k]]] = [k \in 1 .. m |-> a[k]]
  BY <1>3
<1>5. At(a, D) = [k \in 1 .. m |-> a[k]]
  BY <1>2, <1>3, <1>4 DEF Along
<1>. QED BY <1>1, <1>5

SortByScore == [filters |-> <<>>, minBandwidth |-> None, maxLatency |-> None,
                rename |-> None, sort |-> [key |-> "score", desc |-> TRUE]]

\* Nothing is filtered out or renamed by a transform that only sorts.
LEMMA ApplySortByScore ==
  ASSUME NEW S, NEW a \in Seq(S), [key |-> "score", desc |-> TRUE] # None
  PROVE  Apply(a, SortByScore) = Sorted(a, SortByScore.sort)
<1>. DEFINE t == SortByScore
            D == DOMAIN a
<1>1. {i \in D : Passes(a[i], t)} = D
  <2>1. t.filters = <<>> /\ t.minBandwidth = None /\ t.maxLatency = None
    BY DEF SortByScore
  <2>2. DOMAIN t.filters = {}
    BY <2>1
  <2>. HIDE DEF t
  <2>3. \A p : Passes(p, t)
    BY <2>1, <2>2 DEF Passes, GoodEnough
  <2>. QED BY <2>3
<1>2. At(a, D) = a
  BY AtAll
<1>3. t.rename = None /\ t.sort # None
  BY DEF SortByScore
<1>. HIDE DEF t
<1>4. Apply(a, t) = Sorted(At(a, D), t.sort)
  BY <1>1, <1>3 DEF Apply, Select
<1>. QED BY <1>2, <1>4 DEF t

\* What a list along some places is.
LEMMA AlongIs ==
  ASSUME NEW s, NEW e, NEW n \in Nat
  PROVE  DOMAIN Along(s, e, n) = 1 .. n /\ \A k \in 1 .. n : Along(s, e, n)[k] = s[e[k]]
BY DEF Along

\* A list along places of a list along places.
LEMMA AlongAlong ==
  ASSUME NEW s, NEW e, NEW n, NEW f, NEW m, \A k \in 1 .. m : f[k] \in 1 .. n
  PROVE  Along(Along(s, e, n), f, m) = Along(s, [k \in 1 .. m |-> e[f[k]]], m)
BY DEF Along

\* An export of the best is cut from the list sorted by score.
LEMMA RankingsAgree ==
  ASSUME NEW S, NEW a \in Seq(S), \A i \in DOMAIN a : IsNode(a[i]),
         NEW sort, sort.key = "score", sort.desc = TRUE
  PROVE  BestFirst(Select(a, IsUsable)) = Select(Sorted(a, sort), IsUsable)
<1>. DEFINE m == Len(a)
            U == Usable(a)
            u == Cardinality(U)
            Q == Stable(m, ByScore(a))
            b == At(a, U)
            c == Sorted(a, sort)
            R == Stable(m, ByColumn(a, sort))
            V == Usable(c)
<1>1. m \in Nat /\ DOMAIN a = 1 .. m /\ \A i \in 1 .. m : IsNode(a[i])
  BY IsList
<1>2. U \in SUBSET (1 .. m)
  BY <1>1 DEF Usable
<1>3. /\ Linear(1 .. m, Q)
      /\ \A i, j \in 1 .. m : <<i, j>> \in Q <=>
            Score(a[i]) > Score(a[j]) \/ (~(Score(a[j]) > Score(a[i])) /\ i < j)
  <2>1. \A i, j \in 1 .. m : <<i, j>> \in ByScore(a) <=> Score(a[i]) > Score(a[j])
    BY <1>1 DEF ByScore
  <2>2. /\ Linear(1 .. m, Q)
        /\ \A i, j \in 1 .. m : <<i, j>> \in Q
                <=> <<i, j>> \in ByScore(a) \/ (<<j, i>> \notin ByScore(a) /\ i < j)
    <3>. HIDE DEF m
    <3>. QED BY <1>1, ScoreIsWeak, StableLinear
  <2>. HIDE DEF m, Q
  <2>. QED BY <2>1, <2>2
<1>4. IsFiniteSet(U) /\ Linear(U, Less(m)) /\ Linear(U, Q) /\ u \in Nat
  <2>. HIDE DEF m, U, Q
  <2>1. IsFiniteSet(U) /\ Linear(U, Less(m)) /\ Cardinality(U) \in Nat
    BY <1>1, <1>2, AtLists
  <2>2. Linear(U, Q)
    BY <1>2, <1>3 DEF Linear
  <2>. QED BY <2>1, <2>2
\* What is usable, and then sorted ...
<1>5. PICK e : Lists(e, U, Less(m)) /\ b = Along(a, e, u)
  <2>. HIDE DEF m, U
  <2>. QED BY <1>1, <1>2, AtLists
<1>6. \A k \in 1 .. u : e[k] \in U /\ e[k] \in 1 .. m /\ b[k] = a[e[k]]
  BY <1>2, <1>5 DEF Lists, Along
<1>7. DOMAIN b = 1 .. u /\ \A k \in 1 .. u : IsNode(b[k])
  <2>. HIDE DEF m, u, b, U
  <2>. QED BY <1>1, <1>5, <1>6 DEF Along
<1>8. PICK f : Lists(f, 1 .. u, Stable(u, ByScore(b))) /\ BestFirst(b) = Along(b, f, u)
  <2>. HIDE DEF u, b
  <2>. QED BY <1>4, <1>7, SortedByScore
<1>. DEFINE g == [k \in 1 .. u |-> e[f[k]]]
<1>9. Lists(g, U, Q) /\ BestFirst(b) = Along(a, g, u)
  <2>. DEFINE J == 1 .. u
              W == Stable(u, ByScore(b))
  <2>1. J \in SUBSET (1 .. u) /\ Cardinality(J) = u /\ {e[k] : k \in J} = U
    <3>1. {e[k] : k \in J} = U
      BY <1>5 DEF Lists
    <3>. HIDE DEF u, U
    <3>. QED BY <1>4, <3>1, LessLinear, ListIdentity, CardinalityOfInterval
  <2>2. \A k \in J : f[k] \in 1 .. u
    <3>. HIDE DEF u
    <3>. QED BY <1>8, <2>1 DEF Lists
  <2>3. ASSUME NEW k \in J, NEW n \in J, <<k, n>> \in W PROVE <<e[k], e[n]>> \in Q
    <3>. HIDE DEF b, m, U, u, Q
    <3>1. <<k, n>> \in ByScore(b) \/ (<<n, k>> \notin ByScore(b) /\ k < n)
      BY <1>4, <1>7, <2>3, ScoreIsWeak, StableLinear
    <3>2. e[k] \in 1 .. m /\ e[n] \in 1 .. m /\ b[k] = a[e[k]] /\ b[n] = a[e[n]]
      BY <1>6
    <3>3. Score(a[e[k]]) > Score(a[e[n]]) \/ (~(Score(a[e[n]]) > Score(a[e[k]])) /\ k < n)
      BY <1>7, <3>1, <3>2 DEF ByScore
    <3>4. k < n => e[k] < e[n]
      BY <1>1, <1>2, <1>5, <3>2, LessLinear DEF Lists, u
    <3>. QED BY <1>3, <3>2, <3>3, <3>4
  <2>4. Lists(g, U, Q)
    <3>1. g = [k \in 1 .. Cardinality(J) |-> e[f[k]]]
      <4>. HIDE DEF u, J
      <4>. QED BY <2>1
    <3>2. Lists(f, J, W)
      BY <1>8
    <3>. HIDE DEF b, m, U, Q, J, W, g
    <3>. QED BY <1>4, <1>5, <2>1, <2>3, <3>1, <3>2, ListCompose
  <2>5. BestFirst(b) = Along(a, g, u)
    <3>. HIDE DEF b, u
    <3>. QED BY <1>5, <1>8, <2>2, AlongAlong
  <2>. QED BY <2>4, <2>5
\* ... and what is sorted, and then usable ...
<1>10. PICK h : Lists(h, 1 .. m, R) /\ c = Along(a, h, m)
  <2>1. sort.key \in {"latency", "speed", "score"}
    OBVIOUS
  <2>. HIDE DEF m, c
  <2>. QED BY <1>1, <2>1, SortedByColumn DEF c
<1>11. DOMAIN c = 1 .. m /\ \A k \in 1 .. m : h[k] \in 1 .. m /\ c[k] = a[h[k]]
  <2>. HIDE DEF m, c, R
  <2>1. Cardinality(1 .. m) = m
    BY <1>1, CardinalityOfInterval
  <2>2. \A k \in 1 .. m : h[k] \in 1 .. m
    BY <1>10, <2>1 DEF Lists
  <2>. QED BY <1>1, <1>10, <2>2, AlongIs
<1>12. V \in SUBSET (1 .. m) /\ IsFiniteSet(V) /\ Cardinality(V) \in Nat
  <2>1. V \in SUBSET (1 .. m)
    BY <1>11 DEF Usable
  <2>. HIDE DEF m, V
  <2>. QED BY <1>1, <2>1, AtLists
<1>13. PICK l : Lists(l, V, Less(m)) /\ At(c, V) = Along(c, l, Cardinality(V))
  <2>. HIDE DEF m, c, V
  <2>. QED BY <1>1, <1>12, AtLists
<1>. DEFINE o == [k \in 1 .. Cardinality(V) |-> h[l[k]]]
<1>14. \A k \in 1 .. Cardinality(V) : l[k] \in V /\ l[k] \in 1 .. m
  <2>. HIDE DEF m, V
  <2>. QED BY <1>12, <1>13 DEF Lists
<1>15. {h[k] : k \in V} = U
  <2>1. \A k \in V : h[k] \in U
    <3>. HIDE DEF m, c
    <3>. QED BY <1>1, <1>11 DEF Usable
  <2>2. ASSUME NEW i \in U PROVE \E k \in V : h[k] = i
    <3>1. Cardinality(1 .. m) = m
      <4>. HIDE DEF m
      <4>. QED BY <1>1, CardinalityOfInterval
    <3>2. PICK k \in 1 .. m : h[k] = i
      <4>. HIDE DEF m, R, U
      <4>. QED BY <1>2, <1>10, <3>1 DEF Lists
    <3>3. k \in V
      <4>. HIDE DEF m, c
      <4>. QED BY <1>11, <3>2 DEF Usable
    <3>. QED BY <3>2, <3>3
  <2>. HIDE DEF U, V
  <2>. QED BY <2>1, <2>2
<1>16. ASSUME NEW k \in V, NEW n \in V, <<k, n>> \in Less(m) PROVE <<h[k], h[n]>> \in Q
  <2>1. k \in 1 .. m /\ n \in 1 .. m /\ k < n
    <3>. HIDE DEF m, V
    <3>. QED BY <1>1, <1>12, <1>16, LessLinear
  <2>2. Cardinality(1 .. m) = m
    <3>. HIDE DEF m
    <3>. QED BY <1>1, CardinalityOfInterval
  <2>3. <<h[k], h[n]>> \in R
    <3>. HIDE DEF m, R
    <3>. QED BY <1>10, <2>1, <2>2 DEF Lists
  <2>. DEFINE i == h[k]
              j == h[n]
  <2>4. i \in 1 .. m /\ j \in 1 .. m
    <3>. HIDE DEF m
    <3>. QED BY <1>11, <2>1
  <2>5. a[i].available # FALSE /\ a[j].available # FALSE
    <3>. HIDE DEF m, c
    <3>. QED BY <1>11, <2>1 DEF Usable, IsUsable
  <2>6. Column(a[i], sort.key) = Score(a[i]) /\ Column(a[j], sort.key) = Score(a[j])
    BY DEF Column
  <2>7. /\ Before(a[i], a[j], sort) <=> Score(a[i]) > Score(a[j])
        /\ Before(a[j], a[i], sort) <=> Score(a[j]) > Score(a[i])
    <3>1. sort.desc = TRUE
      OBVIOUS
    <3>. HIDE DEF i, j
    <3>. QED BY <2>5, <2>6, <3>1 DEF Before
  <2>. HIDE DEF i, j
  <2>8. \/ <<i, j>> \in ByColumn(a, sort)
        \/ <<j, i>> \notin ByColumn(a, sort) /\ i < j
    <3>1. sort.key \in {"latency", "speed", "score"}
      OBVIOUS
    <3>2. <<i, j>> \in R
      BY <2>3 DEF i, j
    <3>3. Weak(1 .. m, ByColumn(a, sort))
      <4>. HIDE DEF m
      <4>. QED BY <1>1, <3>1, ColumnIsWeak
    <3>. HIDE DEF m
    <3>. QED BY <1>1, <2>4, <3>2, <3>3, StableLinear
  <2>9. Score(a[i]) > Score(a[j]) \/ (~(Score(a[j]) > Score(a[i])) /\ i < j)
    <3>1. /\ <<i, j>> \in ByColumn(a, sort) => Before(a[i], a[j], sort)
          /\ Before(a[j], a[i], sort) => <<j, i>> \in ByColumn(a, sort)
      <4>. HIDE DEF m
      <4>. QED BY <1>1, <2>4 DEF ByColumn
    <3>. QED BY <2>7, <2>8, <3>1
  <2>10. <<i, j>> \in Q
    <3>. HIDE DEF m, Q
    <3>. QED BY <1>3, <2>4, <2>9
  <2>. QED BY <2>10 DEF i, j
<1>17. Lists(o, U, Q)
  <2>1. IsFiniteSet(1 .. m) /\ Cardinality(1 .. m) = m /\ Linear(1 .. m, R)
    <3>1. sort.key \in {"latency", "speed", "score"}
      OBVIOUS
    <3>. HIDE DEF m
    <3>. QED BY <1>1, <3>1, CardinalityOfInterval, ColumnIsWeak, StableLinear
  <2>. DEFINE D == 1 .. m
  <2>2. V \in SUBSET (1 .. Cardinality(D))
    <3>. HIDE DEF m, V
    <3>. QED BY <1>12, <2>1
  <2>3. IsFiniteSet(D) /\ Linear(D, R) /\ Lists(h, D, R)
    <3>. HIDE DEF m, R
    <3>. QED BY <1>10, <2>1
  <2>4. o = [k \in 1 .. Cardinality(V) |-> h[l[k]]]
    OBVIOUS
  <2>. HIDE DEF m, V, R, Q, U, o, D
  <2>. QED BY <1>13, <1>15, <1>16, <2>2, <2>3, <2>4, ListCompose
<1>18. Cardinality(V) = u
  <2>1. IsFiniteSet(1 .. m) /\ Cardinality(1 .. m) = m /\ Linear(1 .. m, R)
    <3>1. sort.key \in {"latency", "speed", "score"}
      OBVIOUS
    <3>. HIDE DEF m
    <3>. QED BY <1>1, <3>1, CardinalityOfInterval, ColumnIsWeak, StableLinear
  <2>. DEFINE D == 1 .. m
  <2>2. V \in SUBSET (1 .. Cardinality(D))
    <3>. HIDE DEF m, V
    <3>. QED BY <1>12, <2>1
  <2>3. IsFiniteSet(D) /\ Linear(D, R) /\ Lists(h, D, R)
    <3>. HIDE DEF m, R
    <3>. QED BY <1>10, <2>1
  <2>. HIDE DEF m, V, R, U, D
  <2>4. Cardinality({h[k] : k \in V}) = Cardinality(V)
    BY <2>2, <2>3, ListImage
  <2>. QED BY <1>15, <2>4
<1>19. At(c, V) = Along(a, o, u)
  <2>. HIDE DEF m, V, c, u
  <2>1. Along(Along(a, h, m), l, Cardinality(V)) = Along(a, o, Cardinality(V))
    BY <1>14, AlongAlong
  <2>. QED BY <1>10, <1>13, <1>18, <2>1
\* ... is the one list of what is usable in the order of scores.
<1>20. g = o
  <2>. HIDE DEF m, U, Q, g, o
  <2>. QED BY <1>4, <1>9, <1>17, ListUnique
<1>21. BestFirst(b) = At(c, V)
  <2>. HIDE DEF b, c, V, g, o
  <2>. QED BY <1>9, <1>19, <1>20
<1>. QED BY <1>21, SelectUsable

-----------------------------------------------------------------------------
(* Names are made unique. *)

\* Two numbers are written differently.
NumbersDiffer ==
    \A m, n \in Nat : "#" \o ToString(m) = "#" \o ToString(n) => m = n

\* Nodes, or lines of a document, whose names are sequences of words.
HaveNames(R, W) ==
    \A p \in R : /\ p = [k \in DOMAIN p |-> p[k]] /\ "name" \in DOMAIN p
                 /\ p.name \in Seq(W)

Distinct(s) == \A i, j \in DOMAIN s : s[i].name = s[j].name => i = j

\* q is p, but for a number behind its name.
Like(q, p) == q = p \/ \E n \in Nat : q = [p EXCEPT !.name = Numbered(p.name, n)]

Used(l) == {l[i].name : i \in DOMAIN l}
Free(l, p) == {n \in 2 .. Len(l) + 2 : Numbered(p.name, n) \notin Used(l)}

\* A name has as many numbered forms as there are numbers.
LEMMA NumberedDiffer ==
  ASSUME NumbersDiffer, NEW W, NEW name \in Seq(W), NEW m \in Nat, NEW n \in Nat,
         Numbered(name, m) = Numbered(name, n)
  PROVE  m = n
<1>. DEFINE a == "#" \o ToString(m)
            b == "#" \o ToString(n)
            V == W \cup {a, b}
<1>1. name \in Seq(V) /\ a \in V /\ b \in V
  OBVIOUS
<1>2. Append(name, a) = Append(name, b)
  BY DEF Numbered
<1>. HIDE DEF a, b, V
<1>3. a = b
  BY <1>1, <1>2, AppendInjective
<1>. QED BY <1>3 DEF NumbersDiffer, a, b

\* One of the candidates is free: there are more of them than names in use.
LEMMA SomeFree ==
  ASSUME NumbersDiffer, NEW W, NEW S, NEW l \in Seq(S), NEW p, p.name \in Seq(W)
  PROVE  Free(l, p) # {}
<1>. DEFINE N == Len(l)
            C == 2 .. N + 2
            U == Used(l)
<1>0. N \in Nat /\ DOMAIN l = 1 .. N
  OBVIOUS
<1>1. IsFiniteSet(U) /\ Cardinality(U) <= N
  <2>. DEFINE f == [i \in 1 .. N |-> l[i].name]
  <2>1. f \in Surjection(1 .. N, U)
    BY <1>0 DEF Surjection, Used
  <2>2. IsFiniteSet(1 .. N) /\ Cardinality(1 .. N) = N
    <3>1. N \in Int /\ 1 \in Int /\ (IF 1 > N THEN 0 ELSE N - 1 + 1) = N
      BY <1>0
    <3>. HIDE DEF N
    <3>. QED BY <3>1, FS_Interval
  <2>. HIDE DEF f, U, N
  <2>. QED BY <2>1, <2>2, FS_Surjection
<1>2. IsFiniteSet(C) /\ Cardinality(C) = N + 1
  <2>1. N + 2 \in Int /\ 2 \in Int /\ ~(2 > N + 2) /\ (N + 2) - 2 + 1 = N + 1
    BY <1>0
  <2>. HIDE DEF N
  <2>. QED BY <2>1, FS_Interval
<1>3. SUFFICES ASSUME \A n \in C : Numbered(p.name, n) \in U PROVE FALSE
  BY DEF Free
<1>. DEFINE g == [n \in C |-> Numbered(p.name, n)]
<1>4. g \in [C -> U]
  BY <1>3
<1>5. Cardinality(U) < Cardinality(C)
  <2>1. Cardinality(U) \in Nat
    BY <1>1, FS_CardinalityType
  <2>. HIDE DEF U, C, N
  <2>. QED BY <1>0, <1>1, <1>2, <2>1
<1>6. PICK m, n \in C : m # n /\ g[m] = g[n]
  <2>. HIDE DEF C, U, g
  <2>. QED BY <1>1, <1>2, <1>4, <1>5, FS_PigeonHole
<1>7. m \in Nat /\ n \in Nat /\ Numbered(p.name, m) = Numbered(p.name, n)
  BY <1>0, <1>6
<1>. QED BY <1>6, <1>7, NumberedDiffer

\* One more node: its name differs from all before it.
LEMMA OneMoreName ==
  ASSUME NumbersDiffer, NEW W, NEW R, HaveNames(R, W), NEW p \in R,
         NEW S, R \subseteq S, NEW l \in Seq(S), Distinct(l),
         \A n \in Nat : [p EXCEPT !.name = Numbered(p.name, n)] \in S
  PROVE  LET u == AppendUnique(l, p)
         IN  /\ u \in Seq(S) /\ Len(u) = Len(l) + 1
             /\ \A i \in 1 .. Len(l) : u[i] = l[i]
             /\ Like(u[Len(u)], p)
             /\ Distinct(u)
<1>. DEFINE new == IF p.name \notin Used(l) THEN p
                   ELSE [p EXCEPT !.name = Numbered(p.name, Min(Free(l, p)))]
            u == AppendUnique(l, p)
<1>0. p = [k \in DOMAIN p |-> p[k]] /\ "name" \in DOMAIN p /\ p.name \in Seq(W)
  BY DEF HaveNames
<1>1. Len(l) \in Nat /\ DOMAIN l = 1 .. Len(l)
  OBVIOUS
<1>2. Min(Free(l, p)) \in Free(l, p)
  <2>. DEFINE M == Free(l, p)
  <2>1. M \in SUBSET Nat /\ M # {}
    BY <1>0, <1>1, SomeFree DEF Free
  <2>. HIDE DEF M
  <2>2. PICK m \in M : \A k \in M : m <= k
    BY <2>1, Least
  <2>3. Min(M) \in M
    BY <2>2 DEF Min
  <2>. QED BY <2>3 DEF M
<1>3. Min(Free(l, p)) \in Nat /\ Numbered(p.name, Min(Free(l, p))) \notin Used(l)
  BY <1>1, <1>2 DEF Free
<1>4. new \in S /\ Like(new, p) /\ new.name \notin Used(l)
  <2>1. CASE p.name \notin Used(l)
    BY <2>1 DEF Like
  <2>2. CASE p.name \in Used(l)
    <3>1. new = [p EXCEPT !.name = Numbered(p.name, Min(Free(l, p)))]
      BY <2>2
    <3>2. new.name = Numbered(p.name, Min(Free(l, p)))
      BY <1>0, <3>1
    <3>. QED BY <1>3, <3>1, <3>2 DEF Like
  <2>. QED BY <2>1, <2>2
<1>5. u = Append(l, new)
  BY DEF AppendUnique, Used, Free
<1>. HIDE DEF new, u
<1>6. /\ u \in Seq(S) /\ Len(u) = Len(l) + 1
      /\ \A i \in 1 .. Len(l) : u[i] = l[i]
      /\ u[Len(l) + 1] = new
  BY <1>4, <1>5, AppendProperties
<1>7. DOMAIN u = 1 .. Len(l) + 1
  BY <1>6
<1>8. Distinct(u)
  <2>. SUFFICES ASSUME NEW i \in DOMAIN u, NEW j \in DOMAIN u, u[i].name = u[j].name, i # j
                PROVE  FALSE
    BY DEF Distinct
  <2>1. \A k \in DOMAIN u : k = Len(l) + 1 \/ (k \in DOMAIN l /\ u[k] = l[k] /\ l[k].name \in Used(l))
    BY <1>1, <1>6, <1>7 DEF Used
  <2>2. CASE i = Len(l) + 1 \/ j = Len(l) + 1
    BY <1>4, <1>6, <2>1, <2>2
  <2>3. CASE i # Len(l) + 1 /\ j # Len(l) + 1
    BY <2>1, <2>3 DEF Distinct
  <2>. QED BY <2>2, <2>3
<1>. QED BY <1>4, <1>6, <1>8 DEF u

\* However many nodes of a list share a name, and whatever numbers others
\* have already, ensure_unique_names leaves no two names alike, every node at
\* its place, and nothing of it changed but a number behind its name.
THEOREM UniqueNames ==
  ASSUME NumbersDiffer, NEW W, NEW R, HaveNames(R, W), NEW list \in Seq(R)
  PROVE  LET u == EnsureUniqueNames(list)
         IN  /\ DOMAIN u = DOMAIN list /\ u = [i \in DOMAIN list |-> u[i]]
             /\ Distinct(u)
             /\ \A i \in DOMAIN list : Like(u[i], list[i])
<1>. DEFINE N == Len(list)
            S == R \cup {[p EXCEPT !.name = Numbered(p.name, n)] : p \in R, n \in Nat}
            L == {l \in Seq(S) : Distinct(l)}
            F == [x \in (1 .. N) \X L |-> AppendUnique(x[2], list[x[1]])]
<1>0. N \in Nat /\ DOMAIN list = 1 .. N /\ \A k \in 1 .. N : list[k] \in R
  OBVIOUS
<1>. HIDE DEF N
<1>1. ASSUME NEW k \in 1 .. N, NEW l \in L
      PROVE  LET u == AppendUnique(l, list[k])
             IN  /\ u \in L /\ Len(u) = Len(l) + 1
                 /\ \A i \in 1 .. Len(l) : u[i] = l[i]
                 /\ Like(u[Len(u)], list[k])
  <2>1. list[k] \in R /\ R \subseteq S /\ l \in Seq(S) /\ Distinct(l)
    BY <1>0
  <2>2. \A n \in Nat : [list[k] EXCEPT !.name = Numbered(list[k].name, n)] \in S
    BY <2>1
  <2>. HIDE DEF S
  <2>. QED BY <2>1, <2>2, OneMoreName
<1>2. \A k \in 1 .. N, l \in L : F[<<k, l>>] = AppendUnique(l, list[k])
  OBVIOUS
<1>3. \A k \in 1 .. N, l \in L : F[<<k, l>>] \in L
  <2>. HIDE DEF F, L
  <2>. QED BY <1>1, <1>2
<1>4. <<>> \in L
  BY DEF Distinct
<1>. HIDE DEF L, F
<1>5. PICK g \in [0 .. N -> L] :
             g[0] = <<>> /\ \A k \in 1 .. N : g[k] = F[<<k, g[k - 1]>>]
  <2>1. Chains(N, L, <<>>, F) # {}
    BY <1>0, <1>3, <1>4, ChainExists
  <2>. QED BY <2>1 DEF Chains
<1>6. PICK done :
         /\ EnsureUniqueNames(list) = done[N]
         /\ done = [k \in 0 .. N |-> IF k = 0 THEN <<>> ELSE AppendUnique(done[k - 1], list[k])]
  <2>1. \A k \in 0 .. N : k # 0 => k \in 1 .. N /\ k - 1 \in 0 .. N
    BY <1>0
  <2>2. ASSUME NEW k \in 1 .. N PROVE g[k] = AppendUnique(g[k - 1], list[k])
    <3>1. k - 1 \in 0 .. N
      BY <1>0
    <3>2. g[k - 1] \in L /\ g[k] = F[<<k, g[k - 1]>>]
      BY <1>5, <3>1
    <3>. QED BY <1>2, <3>2
  <2>3. g = [k \in 0 .. N |-> IF k = 0 THEN <<>> ELSE AppendUnique(g[k - 1], list[k])]
    BY <1>5, <2>1, <2>2
  <2>4. \E done : done = [k \in 0 .. N |-> IF k = 0 THEN <<>>
                                           ELSE AppendUnique(done[k - 1], list[k])]
    BY <2>3
  <2>. QED BY <2>4 DEF EnsureUniqueNames, N
<1>. DEFINE G == [k \in 0 .. N |-> {l \in L : Len(l) = k /\ \A i \in 1 .. k : Like(l[i], list[i])}]
<1>7. done[0] \in G[0]
  <2>1. 0 \in 0 .. N /\ done[0] = <<>>
    BY <1>0, <1>6
  <2>. QED BY <1>4, <2>1
<1>8. ASSUME NEW k \in 1 .. N, done[k - 1] \in G[k - 1] PROVE done[k] \in G[k]
  <2>1. k - 1 \in 0 .. N /\ k \in 0 .. N /\ k # 0
    BY <1>0
  <2>2. done[k] = AppendUnique(done[k - 1], list[k])
    BY <1>6, <2>1
  <2>3. /\ done[k - 1] \in L /\ Len(done[k - 1]) = k - 1
        /\ \A i \in 1 .. k - 1 : Like(done[k - 1][i], list[i])
    BY <1>8, <2>1
  <2>4. /\ done[k] \in L /\ Len(done[k]) = k
        /\ \A i \in 1 .. k - 1 : done[k][i] = done[k - 1][i]
        /\ Like(done[k][k], list[k])
    <3>. DEFINE l == done[k - 1]
    <3>1. l \in L /\ Len(l) = k - 1 /\ k - 1 + 1 = k
      BY <2>1, <2>3
    <3>. HIDE DEF l
    <3>2. LET u == AppendUnique(l, list[k])
          IN  /\ u \in L /\ Len(u) = Len(l) + 1
              /\ \A i \in 1 .. Len(l) : u[i] = l[i]
              /\ Like(u[Len(u)], list[k])
      BY <1>1, <3>1
    <3>. QED BY <2>2, <3>1, <3>2 DEF l
  <2>5. \A i \in 1 .. k : Like(done[k][i], list[i])
    <3>1. \A i \in 1 .. k : i = k \/ i \in 1 .. k - 1
      BY <2>1
    <3>. QED BY <2>3, <2>4, <3>1
  <2>. QED BY <2>1, <2>4, <2>5
<1>9. done[N] \in G[N]
  <2>1. N \in 0 .. N
    BY <1>0
  <2>. HIDE DEF G
  <2>. QED BY <1>0, <1>7, <1>8, <2>1, ChainEnds
<1>10. /\ done[N] \in L /\ Len(done[N]) = N
       /\ \A i \in 1 .. N : Like(done[N][i], list[i])
  BY <1>0, <1>9
<1>11. /\ Distinct(done[N]) /\ DOMAIN done[N] = 1 .. N
       /\ done[N] = [i \in 1 .. N |-> done[N][i]]
  <2>1. Distinct(done[N]) /\ done[N] \in Seq(S)
    BY <1>10 DEF L
  <2>. DEFINE d == done[N]
  <2>. HIDE DEF d, S
  <2>2. d \in Seq(S) /\ Len(d) = N
    BY <1>10, <2>1 DEF d
  <2>3. DOMAIN d = 1 .. N /\ d = [i \in 1 .. N |-> d[i]]
    BY <2>2
  <2>. QED BY <2>1, <2>3 DEF d
<1>. QED BY <1>0, <1>6, <1>10, <1>11

Texts == STRING \cup {None}

\* The fields of a node are of three kinds, each known by its name.
LEMMA FieldsApart ==
  /\ Always \cap Options = {} /\ Always \cap DOMAIN Untested = {} /\ Options \cap DOMAIN Untested = {}
  /\ Always \subseteq Fields /\ Options \subseteq Fields /\ DOMAIN Untested \subseteq Fields
  /\ DOMAIN Untested = {"available", "latency", "speed", "measured", "country", "unlocked"}
<1>1. DOMAIN Untested = {"available", "latency", "speed", "measured", "country", "unlocked"}
  BY DEF Untested
<1>2. Always \cap Options = {}
  BY DEF Always, Options
<1>3. Always \cap DOMAIN Untested = {}
  BY <1>1 DEF Always
<1>4. Options \cap DOMAIN Untested = {}
  BY <1>1 DEF Options
<1>. QED BY <1>1, <1>2, <1>3, <1>4 DEF Fields

\* A node by its fields.
LEMMA NodeIs ==
  ASSUME NEW p, p = [k \in Fields |-> p[k]], p.name \in Seq(STRING), p.type \in Types,
         \A k \in Options : p[k] \in Texts,
         p.available \in BOOLEAN \cup {None}, p.measured \in BOOLEAN,
         p.latency \in Nat \cup {None}, p.speed \in Nat \cup {None},
         p.country \in Countries \cup {None}, p.unlocked \in Nat
  PROVE  IsNode(p)
BY DEF IsNode, Texts

\* A node of which the type and some options were set is one.
LEMMA OptionsSet ==
  ASSUME NEW p, IsNode(p), NEW q, q = [k \in Fields |-> q[k]],
         \A k \in Fields : k \notin Options /\ k # "type" => q[k] = p[k],
         q.type \in Types, \A k \in Options : q[k] \in Texts
  PROVE  IsNode(q)
<1>1. \A k \in {"name", "available", "latency", "speed", "measured", "country", "unlocked"} :
         k \in Fields /\ k \notin Options /\ k # "type"
  BY FieldsApart DEF Always
<1>2. /\ q.name = p.name /\ q.available = p.available /\ q.measured = p.measured
      /\ q.latency = p.latency /\ q.speed = p.speed /\ q.country = p.country /\ q.unlocked = p.unlocked
  BY <1>1
<1>. QED BY <1>2 DEF IsNode, Texts

\* What a parser reads of an entry is a node that was never tested.
LEMMA NodeOfIs ==
  ASSUME NEW e, IsEntry(e), NEW keys
  PROVE  /\ IsNode(NodeOf(e, keys))
         /\ \A k \in Always : NodeOf(e, keys)[k] = e[k]
         /\ \A k \in Options : NodeOf(e, keys)[k] = IF k \in keys \cap DOMAIN e THEN e[k] ELSE None
         /\ \A k \in DOMAIN Untested : NodeOf(e, keys)[k] = Untested[k]
<1>. DEFINE p == NodeOf(e, keys)
<1>1. \A k \in Always : p[k] = e[k]
  BY FieldsApart DEF NodeOf
<1>2. \A k \in Options : p[k] = IF k \in keys \cap DOMAIN e THEN e[k] ELSE None
  BY FieldsApart DEF NodeOf
<1>3. \A k \in DOMAIN Untested : p[k] = Untested[k]
  BY FieldsApart DEF NodeOf
<1>4. p = [k \in Fields |-> p[k]]
  BY DEF NodeOf
<1>. HIDE DEF p
<1>5. p.name \in Seq(STRING) /\ p.type \in Types
  BY <1>1 DEF IsEntry, Always
<1>6. \A k \in Options : p[k] \in Texts
  BY <1>2 DEF IsEntry, Texts
<1>7. /\ p.available = None /\ p.measured = FALSE /\ p.latency = None
      /\ p.speed = None /\ p.country = None /\ p.unlocked = 0
  BY <1>3 DEF Untested
<1>8. IsNode(p)
  <2>1. p.available \in BOOLEAN \cup {None} /\ p.measured \in BOOLEAN
    BY <1>7
  <2>2. p.latency \in Nat \cup {None} /\ p.speed \in Nat \cup {None}
    BY <1>7
  <2>3. p.country \in Countries \cup {None} /\ p.unlocked \in Nat
    BY <1>7
  <2>. QED BY <1>4, <1>5, <1>6, <2>1, <2>2, <2>3, NodeIs
<1>. QED BY <1>1, <1>2, <1>3, <1>8 DEF p

\* The entry of a node holds what is written of it.
LEMMA FilledIs ==
  ASSUME NEW p, IsNode(p), NEW d, NEW K, K \subseteq Options, \A k \in K : d[k] \in Texts
  PROVE  /\ IsEntry(Entry(p, Filled(d, K)))
         /\ \A k : k \in DOMAIN Entry(p, Filled(d, K)) <=> k \in Always \/ (k \in K /\ Given(d[k]))
         /\ \A k \in Always : Entry(p, Filled(d, K))[k] = p[k]
         /\ \A k \in K : Given(d[k]) => Entry(p, Filled(d, K))[k] = d[k]
<1>. DEFINE o == Filled(d, K)
            e == Entry(p, o)
<1>1. DOMAIN o = {k \in K : Given(d[k])} /\ \A k \in DOMAIN o : o[k] = d[k]
  BY DEF Filled
<1>. HIDE DEF o
<1>2. DOMAIN e = Always \cup {k \in K : Given(d[k])} /\ e = [k \in DOMAIN e |-> e[k]]
  BY <1>1 DEF Entry
<1>3. \A k \in Always : e[k] = p[k]
  BY DEF Entry
<1>4. \A k \in DOMAIN o : k \notin Always /\ e[k] = d[k]
  BY <1>1, FieldsApart DEF Entry
<1>. HIDE DEF e
<1>5. e.name = p.name /\ e.type = p.type
  BY <1>3 DEF Always
<1>6. \A k \in Options \cap DOMAIN e : e[k] \in STRING
  BY <1>1, <1>2, <1>4, FieldsApart DEF Given, Texts
<1>7. IsEntry(e)
  BY <1>2, <1>5, <1>6 DEF IsEntry, IsNode
<1>. QED BY <1>1, <1>2, <1>3, <1>4, <1>7 DEF e, o

\* An entry of the options that say something.
LEMMA PresentIs ==
  ASSUME NEW p, IsNode(p), NEW d, NEW K, K \subseteq Options, \A k \in K : d[k] \in Texts
  PROVE  /\ IsEntry(Entry(p, Present(d, K)))
         /\ \A k : k \in DOMAIN Entry(p, Present(d, K)) <=> k \in Always \/ (k \in K /\ d[k] # None)
         /\ \A k \in Always : Entry(p, Present(d, K))[k] = p[k]
         /\ \A k \in K : d[k] # None => Entry(p, Present(d, K))[k] = d[k]
<1>. DEFINE o == Present(d, K)
            e == Entry(p, o)
<1>1. DOMAIN o = {k \in K : d[k] # None} /\ \A k \in DOMAIN o : o[k] = d[k]
  BY DEF Present
<1>. HIDE DEF o
<1>2. DOMAIN e = Always \cup {k \in K : d[k] # None} /\ e = [k \in DOMAIN e |-> e[k]]
  BY <1>1 DEF Entry
<1>3. \A k \in Always : e[k] = p[k]
  BY DEF Entry
<1>4. \A k \in DOMAIN o : k \notin Always /\ e[k] = d[k]
  BY <1>1, FieldsApart DEF Entry
<1>. HIDE DEF e
<1>5. e.name = p.name /\ e.type = p.type
  BY <1>3 DEF Always
<1>6. \A k \in Options \cap DOMAIN e : e[k] \in STRING
  BY <1>1, <1>2, <1>4, FieldsApart DEF Texts
<1>7. IsEntry(e)
  BY <1>2, <1>5, <1>6 DEF IsEntry, IsNode
<1>. QED BY <1>1, <1>2, <1>3, <1>4, <1>7 DEF e, o

-----------------------------------------------------------------------------
(* What the exporters take for granted is a text or left out. *)

\* The words the exporters write are strings, and none of them is None.
LEMMA WordsAre ==
  \A w \in Words : w \in STRING /\ w \in Texts /\ w # None
BY PublishAssumption DEF Texts

\* The name and the options of a plugin are texts.
LEMMA PluginIs ==
  ASSUME NEW p, IsNode(p), NEW style \in Texts
  PROVE  PluginName(p.plugin, style) \in Texts /\ PluginOpts(p, style) \in Texts
<1>1. p.plugin \in Texts /\ p.opts \in Texts
  BY DEF IsNode, Options, Texts
<1>2. PluginName(p.plugin, style) \in Texts
  BY <1>1 DEF PluginName, Texts
<1>3. PluginOpts(p, style) \in Texts
  BY <1>1, WordsAre DEF PluginOpts, Texts, Words
<1>. QED BY <1>2, <1>3

\* The method of a node is a text.
LEMMA SsMethodIs ==
  ASSUME NEW p, IsNode(p)
  PROVE  SsMethod(p) \in Texts
<1>1. p.method \in Texts /\ p.cipher \in Texts
  BY DEF IsNode, Options, Texts
<1>. QED BY <1>1 DEF SsMethod, Or, Texts

\* What the clash exporter writes for an option is a text.
LEMMA ClashDefaultsAre ==
  ASSUME NEW p, IsNode(p)
  PROVE  \A k \in Options : ClashDefaults(p)[k] \in Texts
<1>0. /\ p.method \in Texts /\ p.cipher \in Texts /\ p.aid \in Texts /\ p.tls \in Texts
      /\ p.fp \in Texts /\ p.urm \in Texts
  BY DEF IsNode, Options, Texts
<1>. DEFINE a == Or(p.cipher, p.method)
            b == PluginName(p.plugin, "obfs")
            c == PluginOpts(p, "clash")
            d == Or(p.aid, "0")
            e == Or(p.tls, "false")
            f == IF p.reality = "true" THEN Or(p.fp, "chrome") ELSE p.fp
            g == IF p.uos = "true" THEN None ELSE p.urm
            h == Or(p.tls, IF p.port = 443 THEN "true" ELSE None)
<1>1. a \in Texts /\ d \in Texts /\ e \in Texts /\ f \in Texts /\ g \in Texts /\ h \in Texts
  BY <1>0, WordsAre DEF Or, Texts, Words
<1>2. b \in Texts /\ c \in Texts
  BY PluginIs, WordsAre DEF Words
<1>3. p = [k \in Fields |-> p[k]] /\ \A k \in Options : p[k] \in Texts
  BY DEF IsNode, Texts
<1>4. "true" \in Texts
  BY WordsAre DEF Words
<1>5. ClashDefaults(p) \in {[p EXCEPT !.cipher = a, !.plugin = b, !.opts = c], [p EXCEPT !.tls = "true"],
         [p EXCEPT !.aid = d, !.tls = e], [p EXCEPT !.tls = e, !.fp = f], [p EXCEPT !.urm = g],
         [p EXCEPT !.tls = h], p}
  <2>1. p.type \in Types
    BY DEF IsNode
  <2>2. CASE p.type = "ss"
    BY <2>2 DEF ClashDefaults
  <2>3. CASE p.type = "trojan"
    BY <2>3 DEF ClashDefaults
  <2>4. CASE p.type = "vmess"
    BY <2>4 DEF ClashDefaults
  <2>5. CASE p.type = "vless"
    BY <2>5 DEF ClashDefaults
  <2>6. CASE p.type = "tuic"
    BY <2>6 DEF ClashDefaults
  <2>7. CASE p.type \in {"socks5", "http"}
    BY <2>7 DEF ClashDefaults
  <2>8. CASE p.type \notin {"ss", "trojan", "vmess", "vless", "tuic", "socks5", "http"}
    BY <2>8 DEF ClashDefaults
  <2>. QED BY <2>2, <2>3, <2>4, <2>5, <2>6, <2>7, <2>8
<1>. HIDE DEF a, b, c, d, e, f, g, h
<1>6. Options \subseteq Fields
  BY FieldsApart
<1>. QED BY <1>1, <1>2, <1>3, <1>4, <1>5, <1>6

\* What the sing-box exporter writes for an option is a text.
LEMMA SingboxDefaultsAre ==
  ASSUME NEW p, IsNode(p)
  PROVE  \A k \in Options : SingboxDefaults(p)[k] \in Texts
<1>0. \A k \in {"cipher", "aid", "method", "urm", "obfs", "obfspw", "network", "tls", "skip", "fp"} : p[k] \in Texts
  BY DEF IsNode, Options, Texts
<1>. DEFINE a == Or(p.cipher, "auto")
            b == Or(p.aid, "0")
            c == IF p.type = "ss" THEN Or(SsMethod(p), "aes-256-gcm") ELSE p.method
            d == PluginName(p.plugin, "obfs-local")
            e == PluginOpts(p, "sip")
            f == IF p.uos = "true" THEN None ELSE p.urm
            g == IF p.obfs = None THEN None ELSE Or(p.obfspw, "")
            h == IF p.network = "http" THEN "h2" ELSE p.network
            i == Or(p.skip, "false")
            j == IF p.reality = "true" THEN Or(p.fp, "chrome") ELSE p.fp
            t == "true"
<1>1. {a, b, c, f, g, h, i, j, t} \subseteq Texts
  <2>1. {"auto", "0", "aes-256-gcm", "", "h2", "false", "chrome", "true", None} \subseteq Texts
    BY WordsAre DEF Texts, Words
  <2>2. SsMethod(p) \in Texts
    BY SsMethodIs
  <2>3. a \in Texts /\ b \in Texts /\ i \in Texts /\ t \in Texts
    BY <1>0, <2>1 DEF Or
  <2>4. c \in Texts /\ g \in Texts
    BY <1>0, <2>1, <2>2 DEF Or
  <2>5. f \in Texts /\ h \in Texts /\ j \in Texts
    BY <1>0, <2>1 DEF Or
  <2>. HIDE DEF a, b, c, d, e, f, g, h, i, j, t
  <2>. QED BY <2>3, <2>4, <2>5
<1>2. d \in Texts /\ e \in Texts
  BY PluginIs, WordsAre DEF Words
<1>3. p = [k \in Fields |-> p[k]] /\ \A k \in Options : p[k] \in Texts
  BY DEF IsNode, Texts
<1>4. SingboxDefaults(p) =
        [p EXCEPT !.cipher = a, !.aid = b, !.method = c, !.plugin = d, !.opts = e, !.urm = f,
                  !.obfspw = g, !.network = h, !.tls = t, !.skip = i, !.fp = j]
  BY DEF SingboxDefaults
<1>. HIDE DEF a, b, c, d, e, f, g, h, i, j, t
<1>5. Options \subseteq Fields
  BY FieldsApart
<1>. QED BY <1>1, <1>2, <1>3, <1>4, <1>5

\* What the v2ray exporter writes for an option is a text.
LEMMA V2rayDefaultsAre ==
  ASSUME NEW p, IsNode(p)
  PROVE  \A k \in Options : V2rayDefaults(p)[k] \in Texts
<1>0. \A k \in {"cipher", "aid", "method", "flow", "network", "tls", "skip", "fp"} : p[k] \in Texts
  BY DEF IsNode, Options, Texts
<1>. DEFINE a == Or(p.aid, "0")
            b == Or(p.cipher, "auto")
            c == Or(p.flow, "")
            d == Or(SsMethod(p), "aes-256-gcm")
            e == Or(p.network, "tcp")
            f == IF p.reality = "true" THEN "true" ELSE Or(p.tls, "false")
            g == Or(p.skip, "false")
            h == IF p.reality = "true" THEN Or(p.fp, "chrome") ELSE p.fp
<1>1. {a, b, c, d, e, f, g, h} \subseteq Texts
  <2>1. {"auto", "0", "aes-256-gcm", "tcp", "false", "chrome", "true", None} \subseteq Texts
    BY WordsAre DEF Texts, Words
  <2>2. SsMethod(p) \in Texts
    BY SsMethodIs
  <2>3. \A v, u \in Texts : Or(v, u) \in Texts
    BY DEF Or
  <2>4. a \in Texts /\ b \in Texts /\ d \in Texts /\ e \in Texts
    BY <1>0, <2>1, <2>2, <2>3
  <2>5. c \in Texts
    <3>1. "" \in Texts
      BY WordsAre DEF Words
    <3>2. p.flow \in Texts
      BY <1>0
    <3>. QED BY <2>3, <3>1, <3>2
  <2>6. f \in Texts /\ g \in Texts /\ h \in Texts
    BY <1>0, <2>1, <2>3
  <2>. HIDE DEF a, b, c, d, e, f, g, h
  <2>. QED BY <2>4, <2>5, <2>6
<1>3. p = [k \in Fields |-> p[k]] /\ \A k \in Options : p[k] \in Texts
  BY DEF IsNode, Texts
<1>4. V2rayDefaults(p) =
        [p EXCEPT !.aid = a, !.cipher = b, !.flow = c, !.method = d, !.network = e, !.tls = f,
                  !.skip = g, !.fp = h]
  BY DEF V2rayDefaults
<1>. HIDE DEF a, b, c, d, e, f, g, h
<1>5. Options \subseteq Fields
  BY FieldsApart
<1>. QED BY <1>1, <1>3, <1>4, <1>5

\* What the Surge exporter writes for an option is a text.
LEMMA SurgeDefaultsAre ==
  ASSUME NEW p, IsNode(p)
  PROVE  \A k \in Options : SurgeDefaults(p)[k] \in Texts
<1>0. p.skip \in Texts
  BY DEF IsNode, Options, Texts
<1>. DEFINE a == SsMethod(p)
            b == IF p.skip = "true" THEN p.skip ELSE None
            c == IF p.tls = "true" \/ (p.type = "http" /\ Secured(p)) THEN "true" ELSE None
<1>1. {a, b, c} \subseteq Texts
  BY <1>0, SsMethodIs, WordsAre DEF Texts, Words
<1>3. p = [k \in Fields |-> p[k]] /\ \A k \in Options : p[k] \in Texts
  BY DEF IsNode, Texts
<1>4. SurgeDefaults(p) = [p EXCEPT !.method = a, !.skip = b, !.tls = c]
  BY DEF SurgeDefaults
<1>. HIDE DEF a, b, c
<1>5. Options \subseteq Fields
  BY FieldsApart
<1>. QED BY <1>1, <1>3, <1>4, <1>5

-----------------------------------------------------------------------------
(* What the parsers make of an entry is a node. *)

\* A node that was just read: at its address, under its name, never tested.
AsRead(q, e) == /\ q.name = e.name /\ q.server = e.server /\ q.port = e.port
                /\ \A k \in DOMAIN Untested : q[k] = Untested[k]

\* An entry's keys are read into a node that nothing has been measured of.
LEMMA NodeOfAsRead ==
  ASSUME NEW e, IsEntry(e), NEW keys
  PROVE  AsRead(NodeOf(e, keys), e)
BY NodeOfIs DEF AsRead, Always

\* A parser's adjustments change options and the type only.
LEMMA KeptAsRead ==
  ASSUME NEW p, NEW e, AsRead(p, e), NEW q,
         \A k \in Fields : k \notin Options /\ k # "type" => q[k] = p[k]
  PROVE  AsRead(q, e)
<1>1. \A k \in DOMAIN Untested \cup {"name", "server", "port"} : k \in Fields /\ k \notin Options /\ k # "type"
  BY FieldsApart DEF Always
<1>. QED BY <1>1 DEF AsRead

\* parse_clash makes a node of an entry.
LEMMA FromClashIs ==
  ASSUME NEW e, IsEntry(e)
  PROVE  IsNode(FromClash(e)) /\ AsRead(FromClash(e), e)
<1>. DEFINE p == NodeOf(e, Options \ {"user"})
            a == IF p.type = "anytls" THEN "other" ELSE p.type
            q == FromClash(e)
<1>1. IsNode(p)
  BY NodeOfIs
<1>2. a \in Types /\ \A k \in Options : p[k] \in Texts
  BY <1>1 DEF IsNode, Types, Texts
<1>3. q = [p EXCEPT !.type = a] \/ q = [p EXCEPT !.type = a, !.tls = "true"]
  BY <1>1 DEF FromClash
<1>. HIDE DEF p, a, q
<1>4. {"true"} \subseteq Texts /\ "type" \in Fields /\ "tls" \in Fields /\ "tls" \in Options /\ "type" \notin Options
  BY FieldsApart, WordsAre DEF Always, Options, Words
<1>5. q.type \in Types /\ \A k \in Options : q[k] \in Texts
  BY <1>1, <1>2, <1>3, <1>4, FieldsApart DEF IsNode
<1>6. q = [k \in Fields |-> q[k]] /\ \A k \in Fields : k \notin Options /\ k # "type" => q[k] = p[k]
  BY <1>1, <1>3, <1>4 DEF IsNode
<1>7. AsRead(p, e)
  BY NodeOfAsRead DEF p
<1>. QED BY <1>1, <1>5, <1>6, <1>7, OptionsSet, KeptAsRead DEF q

\* So does parse_singbox,
LEMMA FromSingboxIs ==
  ASSUME NEW e, IsEntry(e)
  PROVE  IsNode(FromSingbox(e)) /\ AsRead(FromSingbox(e), e)
<1>. DEFINE p == NodeOf(e, Options \ {"cipher", "aid"})
            a == IF p.type = "http" THEN "other" ELSE p.type
            b == IF p.reality = "true" THEN "true" ELSE Or(p.tls, "false")
            q == FromSingbox(e)
<1>1. IsNode(p)
  BY NodeOfIs
<1>2. {"true", "false"} \subseteq Texts /\ "type" \in Fields /\ "tls" \in Fields /\ "tls" \in Options /\ "type" \notin Options
  BY FieldsApart, WordsAre DEF Always, Options, Words
<1>3. a \in Types /\ \A k \in Options : p[k] \in Texts
  BY <1>1 DEF IsNode, Types, Texts
<1>4. b \in Texts
  BY <1>2, <1>3 DEF Or
<1>5. q = [p EXCEPT !.type = a, !.tls = b]
  BY DEF FromSingbox
<1>. HIDE DEF p, a, b, q
<1>6. q.type \in Types /\ \A k \in Options : q[k] \in Texts
  BY <1>1, <1>2, <1>3, <1>4, <1>5, FieldsApart DEF IsNode
<1>7. q = [k \in Fields |-> q[k]] /\ \A k \in Fields : k \notin Options /\ k # "type" => q[k] = p[k]
  BY <1>1, <1>2, <1>5 DEF IsNode
<1>8. AsRead(p, e)
  BY NodeOfAsRead DEF p
<1>. QED BY <1>1, <1>6, <1>7, <1>8, OptionsSet, KeptAsRead DEF q

\* so does parse_v2ray,
LEMMA FromV2rayIs ==
  ASSUME NEW e, IsEntry(e)
  PROVE  IsNode(FromV2ray(e)) /\ AsRead(FromV2ray(e), e)
<1>. DEFINE p == NodeOf(e, Options)
            a == Or(p.uuid, p.password)
            b == IF e.type = "vless" /\ p.flow = "" THEN None ELSE p.flow
            c == IF p.reality = "true" THEN "true" ELSE p.tls
            q == FromV2ray(e)
<1>1. IsNode(p)
  BY NodeOfIs
<1>2. /\ {None, "true"} \subseteq Texts /\ "type" \in Fields /\ "type" \notin Options
      /\ {"uuid", "flow", "password", "tls"} \subseteq Options
  BY FieldsApart, WordsAre DEF Always, Options, Texts, Words
<1>3. p.type \in Types /\ \A k \in Options : p[k] \in Texts
  BY <1>1 DEF IsNode, Types, Texts
<1>4. a \in Texts /\ b \in Texts /\ c \in Texts
  BY <1>2, <1>3 DEF Or
<1>5. q = [p EXCEPT !.uuid = a, !.tls = c, !.flow = b]
  BY DEF FromV2ray
<1>. HIDE DEF p, a, b, c, q
<1>6. q.type \in Types /\ \A k \in Options : q[k] \in Texts
  BY <1>1, <1>2, <1>3, <1>4, <1>5, FieldsApart DEF IsNode
<1>7. q = [k \in Fields |-> q[k]] /\ \A k \in Fields : k \notin Options /\ k # "type" => q[k] = p[k]
  BY <1>1, <1>2, <1>5 DEF IsNode
<1>8. AsRead(p, e)
  BY NodeOfAsRead DEF p
<1>. QED BY <1>1, <1>6, <1>7, <1>8, OptionsSet, KeptAsRead DEF q

\* and so does the reader of links.
LEMMA FromLinkIs ==
  ASSUME NEW e, IsEntry(e)
  PROVE  IsNode(FromLink(e)) /\ AsRead(FromLink(e), e)
<1>. DEFINE p == NodeOf(e, LinkOptions[e.type])
            a == Or(p.cipher, "aes-128-gcm")
            b == Or(p.tls, "false")
            c == Or(p.sni, p.host)
            d == IF p.reality = "true" THEN "true" ELSE Or(p.tls, "true")
            f == IF Given(p.pbk) THEN p.pbk ELSE None
            q == FromLink(e)
<1>1. IsNode(p)
  BY NodeOfIs
<1>2. /\ {None, "false", "true", "aes-128-gcm"} \subseteq Texts /\ "type" \in Fields /\ "type" \notin Options
      /\ {"cipher", "tls", "sni", "host", "pbk"} \subseteq Options
  BY FieldsApart, WordsAre DEF Always, Options, Texts, Words
<1>3. p.type \in Types /\ \A k \in Options : p[k] \in Texts
  BY <1>1 DEF IsNode, Types, Texts
<1>4. a \in Texts /\ b \in Texts /\ c \in Texts /\ d \in Texts /\ f \in Texts
  BY <1>2, <1>3 DEF Or
<1>5. q \in {[p EXCEPT !.cipher = a, !.tls = b, !.sni = c], [p EXCEPT !.tls = d, !.pbk = f],
            [p EXCEPT !.tls = "true"], p}
  <2>1. CASE e.type = "vmess"
    BY <2>1 DEF FromLink
  <2>2. CASE e.type = "vless"
    BY <2>2 DEF FromLink
  <2>3. CASE e.type \in {"trojan", "hysteria2", "tuic", "anytls"}
    BY <2>3 DEF FromLink
  <2>4. CASE e.type \notin {"vmess", "vless", "trojan", "hysteria2", "tuic", "anytls"}
    BY <2>4 DEF FromLink
  <2>. QED BY <2>1, <2>2, <2>3, <2>4
<1>. HIDE DEF p, a, b, c, d, f, q
<1>6. q.type \in Types /\ \A k \in Options : q[k] \in Texts
  BY <1>1, <1>2, <1>3, <1>4, <1>5, FieldsApart DEF IsNode
<1>7. q = [k \in Fields |-> q[k]] /\ \A k \in Fields : k \notin Options /\ k # "type" => q[k] = p[k]
  BY <1>1, <1>2, <1>5 DEF IsNode
<1>8. AsRead(p, e)
  BY NodeOfAsRead DEF p
<1>. QED BY <1>1, <1>6, <1>7, <1>8, OptionsSet, KeptAsRead DEF q

\* A list of nodes, by its length and its members.
LEMMA NodesAre ==
  ASSUME NEW s, IsListOf(s, IsNode)
  PROVE  /\ Len(s) \in Nat /\ DOMAIN s = 1 .. Len(s) /\ s = [i \in 1 .. Len(s) |-> s[i]]
         /\ \A i \in DOMAIN s : IsNode(s[i])
         /\ s \in Seq({s[i] : i \in DOMAIN s})
<1>1. s \in Seq({s[i] : i \in DOMAIN s}) /\ \A i \in DOMAIN s : IsNode(s[i])
  BY DEF IsListOf
<1>. QED BY <1>1, IsList

\* A function on 1 .. n to nodes is a list of them.
LEMMA AreNodes ==
  ASSUME NEW n \in Nat, NEW s, s = [i \in 1 .. n |-> s[i]], \A i \in 1 .. n : IsNode(s[i])
  PROVE  IsListOf(s, IsNode) /\ Len(s) = n /\ DOMAIN s = 1 .. n
<1>. DEFINE S == {s[i] : i \in DOMAIN s}
<1>1. DOMAIN s = 1 .. n
  OBVIOUS
<1>2. \A i \in 1 .. n : s[i] \in S
  BY <1>1
<1>. HIDE DEF S
<1>3. s \in Seq(S) /\ Len(s) = n
  BY <1>2, ListOf
<1>. QED BY <1>1, <1>3 DEF IsListOf, S

\* A list of entries, by its length and its members.
LEMMA EntriesAre ==
  ASSUME NEW s, IsListOf(s, IsEntry)
  PROVE  /\ Len(s) \in Nat /\ DOMAIN s = 1 .. Len(s) /\ s = [i \in 1 .. Len(s) |-> s[i]]
         /\ \A i \in DOMAIN s : IsEntry(s[i])
         /\ s \in Seq({s[i] : i \in DOMAIN s})
<1>1. s \in Seq({s[i] : i \in DOMAIN s}) /\ \A i \in DOMAIN s : IsEntry(s[i])
  BY DEF IsListOf
<1>. QED BY <1>1, IsList

\* A function on 1 .. n to entries is a list of them.
LEMMA AreEntries ==
  ASSUME NEW n \in Nat, NEW s, s = [i \in 1 .. n |-> s[i]], \A i \in 1 .. n : IsEntry(s[i])
  PROVE  IsListOf(s, IsEntry) /\ Len(s) = n /\ DOMAIN s = 1 .. n
<1>. DEFINE S == {s[i] : i \in DOMAIN s}
<1>1. DOMAIN s = 1 .. n
  OBVIOUS
<1>2. \A i \in 1 .. n : s[i] \in S
  BY <1>1
<1>. HIDE DEF S
<1>3. s \in Seq(S) /\ Len(s) = n
  BY <1>2, ListOf
<1>. QED BY <1>1, <1>3 DEF IsListOf, S

\* The formats that can be read again, and how an entry of theirs is read.
Readable == {"clash", "base64", "sing-box", "v2ray"}
From(format, e) == CASE format = "sing-box" -> FromSingbox(e)
                     [] format = "v2ray" -> FromV2ray(e)
                     [] OTHER -> FromClash(e)

\* What the parser of any format makes of an entry.
LEMMA FromIs ==
  ASSUME NEW format \in Readable, NEW e, IsEntry(e)
  PROVE  IsNode(From(format, e)) /\ AsRead(From(format, e), e)
BY FromClashIs, FromSingboxIs, FromV2rayIs DEF From

\* Nodes that were never tested.
Fresh(s) == \A i \in DOMAIN s : \A k \in DOMAIN Untested : s[i][k] = Untested[k]

\* What a parser makes of a document is a list of nodes, each of which is
\* one entry.
LEMMA ParseIs ==
  ASSUME NEW format \in DocFormats, NEW entries, IsListOf(entries, IsEntry)
  PROVE  /\ IsListOf(Parse(format, entries), IsNode) /\ Fresh(Parse(format, entries))
         /\ format \in Readable =>
               /\ Len(Parse(format, entries)) = Len(entries)
               /\ DOMAIN Parse(format, entries) = DOMAIN entries
               /\ \A k \in DOMAIN entries : Parse(format, entries)[k] = From(format, entries[k])
         /\ format = "links" => \A k \in DOMAIN Parse(format, entries) : \E i \in DOMAIN entries :
                IsNodeLink(entries[i]) /\ Parse(format, entries)[k] = FromLink(entries[i])
         /\ format = "surge" => Parse(format, entries) = <<>>
<1>. DEFINE n == Len(entries)
            all == Parse(format, entries)
<1>1. n \in Nat /\ DOMAIN entries = 1 .. n /\ \A i \in 1 .. n : IsEntry(entries[i])
  BY EntriesAre
<1>2. CASE format \in Readable
  <2>1. all = [i \in 1 .. n |-> From(format, entries[i])]
    <3>1. CASE format \in {"clash", "base64"}
      <4>1. all = [i \in DOMAIN entries |-> FromClash(entries[i])]
        BY <3>1 DEF Parse
      <4>. HIDE DEF all, n
      <4>. QED BY <1>1, <3>1, <4>1 DEF From
    <3>2. CASE format = "sing-box"
      <4>1. all = [i \in DOMAIN entries |-> FromSingbox(entries[i])]
        BY <3>2 DEF Parse
      <4>. HIDE DEF all, n
      <4>. QED BY <1>1, <3>2, <4>1 DEF From
    <3>3. CASE format = "v2ray"
      <4>1. all = [i \in DOMAIN entries |-> FromV2ray(entries[i])]
        BY <3>3 DEF Parse
      <4>. HIDE DEF all, n
      <4>. QED BY <1>1, <3>3, <4>1 DEF From
    <3>. QED BY <1>2, <3>1, <3>2, <3>3 DEF Readable
  <2>. HIDE DEF all, n
  <2>2. ASSUME NEW i \in 1 .. n
        PROVE  IsNode(all[i]) /\ AsRead(all[i], entries[i]) /\ all[i] = From(format, entries[i])
    <3>1. all[i] = From(format, entries[i]) /\ IsEntry(entries[i])
      BY <1>1, <2>1
    <3>. QED BY <1>2, <3>1, FromIs
  <2>3. all = [i \in 1 .. n |-> all[i]]
    BY <2>1
  <2>4. IsListOf(all, IsNode) /\ Len(all) = n /\ DOMAIN all = 1 .. n
    BY <1>1, <2>2, <2>3, AreNodes
  <2>5. format # "links" /\ format # "surge"
    BY <1>2 DEF Readable
  <2>. QED BY <1>1, <2>2, <2>4, <2>5 DEF Fresh, AsRead, n, all
<1>3. CASE format = "links"
  <2>. DEFINE I == {i \in 1 .. n : IsNodeLink(entries[i])}
              l == Select(entries, IsNodeLink)
              c == Cardinality(I)
  <2>1. l = At(entries, I) /\ I \in SUBSET (1 .. n)
    BY <1>1 DEF Select
  <2>2. entries \in Seq({entries[i] : i \in DOMAIN entries}) /\ n = Len(entries)
    BY EntriesAre DEF n
  <2>3. c \in Nat /\ DOMAIN l = 1 .. c /\ \A k \in 1 .. c : \E i \in I : l[k] = entries[i]
    <3>. DEFINE S == {entries[i] : i \in DOMAIN entries}
    <3>1. entries \in Seq(S) /\ I \in SUBSET (1 .. Len(entries))
      BY <2>1, <2>2
    <3>. HIDE DEF I, S, l
    <3>2. c \in Nat
      BY <1>1, <2>1, AtLists
    <3>3. /\ DOMAIN At(entries, I) = 1 .. Cardinality(I)
          /\ \A k \in DOMAIN At(entries, I) : \E i \in I : At(entries, I)[k] = entries[i]
      BY <3>1, PartIs
    <3>. QED BY <2>1, <3>2, <3>3
  <2>4. all = [i \in 1 .. c |-> FromLink(l[i])]
    <3>. HIDE DEF l, c
    <3>1. all = [i \in DOMAIN l |-> FromLink(l[i])]
      BY <1>3 DEF Parse, l
    <3>. HIDE DEF all
    <3>. QED BY <2>3, <3>1
  <2>. HIDE DEF all, c, l
  <2>5. ASSUME NEW k \in 1 .. c
        PROVE  /\ IsNode(all[k]) /\ \A f \in DOMAIN Untested : all[k][f] = Untested[f]
               /\ \E i \in DOMAIN entries : IsNodeLink(entries[i]) /\ all[k] = FromLink(entries[i])
    <3>1. PICK i \in I : l[k] = entries[i]
      BY <2>3
    <3>2. i \in DOMAIN entries /\ IsNodeLink(entries[i]) /\ IsEntry(entries[i]) /\ all[k] = FromLink(entries[i])
      BY <1>1, <2>4, <3>1
    <3>. QED BY <3>2, FromLinkIs DEF AsRead
  <2>6. all = [i \in 1 .. c |-> all[i]]
    BY <2>4
  <2>7. IsListOf(all, IsNode) /\ Len(all) = c /\ DOMAIN all = 1 .. c
    BY <2>3, <2>5, <2>6, AreNodes
  <2>8. format \notin Readable /\ format # "surge"
    BY <1>3 DEF Readable
  <2>. QED BY <2>5, <2>7, <2>8 DEF Fresh, all
<1>4. CASE format = "surge"
  <2>1. all = <<>>
    BY <1>4 DEF Parse
  <2>2. format \notin Readable /\ format # "links"
    BY <1>4 DEF Readable
  <2>. QED BY <2>1, <2>2 DEF IsListOf, Fresh
<1>. QED BY <1>2, <1>3, <1>4 DEF DocFormats, Readable

\* A test sets what it finds out, and nothing else.
LEMMA MeasuredIs ==
  ASSUME NEW p, IsNode(p), NEW v, IsVerdict(v)
  PROVE  /\ IsNode(Measured(p, v))
         /\ \A k \in Always \cup Options : Measured(p, v)[k] = p[k]
         /\ Measured(p, v).available = v.available /\ Measured(p, v).measured = v.measured
         /\ Measured(p, v).latency = v.latency /\ Measured(p, v).speed = v.speed
         /\ Measured(p, v).country = p.country /\ Measured(p, v).unlocked = p.unlocked
<1>. DEFINE q == Measured(p, v)
<1>1. DOMAIN v = {"available", "latency", "speed", "measured"}
  BY DEF IsVerdict
<1>2. \A k \in Fields : q[k] = IF k \in DOMAIN v THEN v[k] ELSE p[k]
  BY DEF Measured
<1>3. q = [k \in Fields |-> q[k]]
  BY DEF Measured
<1>. HIDE DEF q
<1>4. \A k \in Always \cup Options : q[k] = p[k]
  BY <1>1, <1>2, FieldsApart
<1>5. /\ q.available = v.available /\ q.measured = v.measured
      /\ q.latency = v.latency /\ q.speed = v.speed
      /\ q.country = p.country /\ q.unlocked = p.unlocked
  BY <1>1, <1>2, FieldsApart
<1>6. q.name = p.name /\ q.type = p.type
  BY <1>4 DEF Always
<1>7. v.available \in BOOLEAN \cup {None} /\ v.measured \in BOOLEAN
  BY DEF IsVerdict
<1>8. v.latency \in Nat \cup {None} /\ v.speed \in Nat \cup {None}
  BY DEF IsVerdict
<1>9. IsNode(q)
  BY <1>3, <1>4, <1>5, <1>6, <1>7, <1>8 DEF IsNode
<1>. QED BY <1>4, <1>5, <1>9 DEF q

-----------------------------------------------------------------------------
(* What a name says of countries *)

\* Where a name holds a country code, the words that are names of countries, and
\* the words that stand for no country at all.
Coding(name) == {k \in DOMAIN name : name[k] \in DOMAIN Codes2}
CountryWords == {CountryNames[i][1] : i \in 1 .. Len(CountryNames)}
Wordy(w) == w \notin DOMAIN Codes2 \cup DOMAIN Flags \cup CountryWords

\* A name with one code at most, and none beside a flag or a country's name.
Plain(name) ==
    /\ \A k, l \in Coding(name) : k = l
    /\ (\E k \in DOMAIN name : name[k] \in DOMAIN Flags \cup CountryWords) => Coding(name) = {}

\* The tables know countries only, by flags, names and codes that differ, and
\* what is put behind or into a name that is not unique or safe stands for none.
TablesApart ==
    /\ Len(CountryNames) \in Nat
    /\ \A w \in DOMAIN Codes2 : Codes2[w] # "OTHER"
    /\ \A w \in DOMAIN Flags : Flags[w] # "OTHER"
    /\ \A i \in 1 .. Len(CountryNames) : CountryNames[i][2] # "OTHER"
    /\ \A c \in Countries : c \notin DOMAIN Flags \cup CountryWords
    /\ Wordy("A_B") /\ \A n \in Nat : Wordy("#" \o ToString(n))

\* The names in documents of others and the names of renames are plain.
NamesPlain ==
    /\ \A d \in Sources : \A i \in DOMAIN d.entries : Plain(d.entries[i].name)
    /\ \A r \in Requests : r.t # None /\ r.t.rename # None => Plain(r.t.rename.to)

\* A new name for a node adds no second country.
StaysPlain(new, old) == TablesApart /\ NamesPlain /\ Plain(old) => Plain(new)

\* The first of some places is one of them.
LEMMA FirstIs ==
  ASSUME NEW n \in Nat, NEW I \in SUBSET (1 .. n), I # {}
  PROVE  Min(I) \in I
<1>1. I \in SUBSET Nat
  OBVIOUS
<1>2. \E m \in I : \A k \in I : m <= k
  BY <1>1, Least
<1>. QED BY <1>2 DEF Min

\* A table says nothing of a name in which it knows no word.
LEMMA CodedIs ==
  ASSUME NEW words, Len(words) \in Nat, NEW table, \A w \in DOMAIN table : table[w] # "OTHER"
  PROVE  Coded(words, table) = "OTHER" <=> \A i \in 1 .. Len(words) : words[i] \notin DOMAIN table
<1>. DEFINE I == {i \in 1 .. Len(words) : words[i] \in DOMAIN table}
            f == IF I # {} THEN Min(I) ELSE 0
<1>1. Coded(words, table) = IF f = 0 THEN "OTHER" ELSE table[words[f]]
  BY DEF Coded, SelectInSeq
<1>2. I # {} => Min(I) \in I
  BY FirstIs
<1>. QED BY <1>1, <1>2

\* Nor does the table of names.
LEMMA NamedIs ==
  ASSUME NEW words, TablesApart
  PROVE  Named(words) = "OTHER" <=> \A i \in 1 .. Len(words) : words[i] \notin CountryWords
<1>. DEFINE n == Len(CountryNames)
            I == {i \in 1 .. n : Contains(words, CountryNames[i][1])}
            f == IF I # {} THEN Min(I) ELSE 0
<1>1. Named(words) = IF f = 0 THEN "OTHER" ELSE CountryNames[f][2]
  BY DEF Named, SelectInSeq
<1>2. n \in Nat /\ \A i \in 1 .. n : CountryNames[i][2] # "OTHER"
  BY DEF TablesApart
<1>3. I # {} => Min(I) \in I
  BY <1>2, FirstIs
<1>4. I = {} <=> \A i \in 1 .. Len(words) : words[i] \notin CountryWords
  BY DEF Contains, CountryWords
<1>. HIDE DEF I, n
<1>5. \A i \in I : i # 0 /\ CountryNames[i][2] # "OTHER"
  BY <1>2 DEF I
<1>. QED BY <1>1, <1>3, <1>4, <1>5

\* Of a node without a region no word stands for a country.
LEMMA NoRegion ==
  ASSUME TablesApart, NEW name \in Seq(STRING), NEW server, RegionOf(name, server) = "OTHER"
  PROVE  \A k \in DOMAIN name : Wordy(name[k])
<1>. DEFINE hay == Append(name, server)
            g == <<Coded(name, Flags), Named(hay), Coded(hay, Codes3), Coded(hay, Codes2)>>
            I == {i \in 1 .. 4 : g[i] # "OTHER"}
            f == IF I # {} THEN Min(I) ELSE 0
<1>1. RegionOf(name, server) = IF f = 0 THEN "OTHER" ELSE g[f]
  <2>1. Len(g) = 4
    OBVIOUS
  <2>2. RegionOf(name, server) = LET i == SelectInSeq(g, LAMBDA a : a # "OTHER")
                                 IN IF i = 0 THEN "OTHER" ELSE g[i]
    BY DEF RegionOf
  <2>. HIDE DEF g
  <2>. QED BY <2>1, <2>2 DEF SelectInSeq
<1>2. I = {}
  <2>1. I # {} => Min(I) \in I
    BY FirstIs
  <2>2. \A i \in I : i # 0 /\ g[i] # "OTHER"
    OBVIOUS
  <2>. HIDE DEF I, g
  <2>. QED BY <1>1, <2>1, <2>2
<1>3. g[1] = "OTHER" /\ g[2] = "OTHER" /\ g[4] = "OTHER"
  <2>. HIDE DEF g
  <2>. QED BY <1>2
<1>4. Coded(name, Flags) = "OTHER" /\ Named(hay) = "OTHER" /\ Coded(hay, Codes2) = "OTHER"
  BY <1>3
<1>5. /\ Len(name) \in Nat /\ DOMAIN name = 1 .. Len(name) /\ Len(hay) = Len(name) + 1
      /\ \A k \in 1 .. Len(name) : hay[k] = name[k]
  <2>1. name \in Seq(STRING \cup {server}) /\ server \in STRING \cup {server}
    OBVIOUS
  <2>. QED BY <2>1
<1>. HIDE DEF hay, g, I
<1>6. \A i \in 1 .. Len(name) : name[i] \notin DOMAIN Flags
  BY <1>4, <1>5, CodedIs DEF TablesApart
<1>7. \A i \in 1 .. Len(hay) : hay[i] \notin DOMAIN Codes2
  BY <1>4, <1>5, CodedIs DEF TablesApart
<1>8. \A i \in 1 .. Len(hay) : hay[i] \notin CountryWords
  BY <1>4, NamedIs
<1>. QED BY <1>5, <1>6, <1>7, <1>8 DEF Wordy

\* A number behind a name adds no country.
LEMMA NumberedPlain ==
  ASSUME NEW name \in Seq(STRING), NEW n \in Nat, "#" \o ToString(n) \in STRING
  PROVE  StaysPlain(Numbered(name, n), name)
<1>. DEFINE w == "#" \o ToString(n)
            new == Append(name, w)
<1>. SUFFICES ASSUME TablesApart, Plain(name) PROVE Plain(new)
  BY DEF StaysPlain, Numbered
<1>1. Wordy(w) /\ w \in STRING
  BY DEF TablesApart
<1>. HIDE DEF w
<1>2. /\ Len(name) \in Nat /\ DOMAIN name = 1 .. Len(name) /\ DOMAIN new = 1 .. Len(name) + 1
      /\ \A k \in 1 .. Len(name) : new[k] = name[k]
      /\ new[Len(name) + 1] = w
  BY <1>1
<1>. HIDE DEF new
<1>3. /\ \A k \in DOMAIN new : (k \in DOMAIN name /\ new[k] = name[k]) \/ Wordy(new[k])
      /\ \A k \in DOMAIN name : k \in DOMAIN new /\ new[k] = name[k]
  BY <1>1, <1>2
<1>4. Coding(new) = Coding(name)
  BY <1>3 DEF Coding, Wordy
<1>5. (\E k \in DOMAIN new : new[k] \in DOMAIN Flags \cup CountryWords) =>
      \E k \in DOMAIN name : name[k] \in DOMAIN Flags \cup CountryWords
  BY <1>3 DEF Wordy
<1>. QED BY <1>4, <1>5 DEF Plain

\* A label is put in front only where there is no other.
LEMMA LabelledPlain ==
  ASSUME NEW name \in Seq(STRING), NEW server, RegionOf(name, server) = "OTHER",
         NEW c \in Countries, c \in STRING
  PROVE  StaysPlain(<<c>> \o name, name)
<1>. DEFINE new == <<c>> \o name
<1>. SUFFICES ASSUME TablesApart PROVE Plain(new)
  BY DEF StaysPlain
<1>1. \A k \in DOMAIN name : Wordy(name[k])
  BY NoRegion
<1>2. c \notin DOMAIN Flags \cup CountryWords
  BY DEF TablesApart
<1>3. /\ DOMAIN name = 1 .. Len(name) /\ Len(name) \in Nat /\ DOMAIN new = 1 .. Len(name) + 1 /\ new[1] = c
      /\ \A k \in 2 .. Len(name) + 1 : new[k] = name[k - 1]
  OBVIOUS
<1>. HIDE DEF new
<1>4. \A k \in DOMAIN new : k = 1 \/ Wordy(new[k])
  <2>1. ASSUME NEW k \in DOMAIN new, k # 1 PROVE Wordy(new[k])
    <3>1. k - 1 \in DOMAIN name /\ new[k] = name[k - 1]
      BY <1>3, <2>1
    <3>. QED BY <1>1, <3>1
  <2>. QED BY <2>1
<1>5. \A k \in Coding(new) : k = 1
  BY <1>4 DEF Coding, Wordy
<1>6. ~ \E k \in DOMAIN new : new[k] \in DOMAIN Flags \cup CountryWords
  BY <1>2, <1>3, <1>4 DEF Wordy
<1>. QED BY <1>5, <1>6 DEF Plain

\* Nor does what Surge allows in a line add a country.
LEMMA SafePlain ==
  ASSUME NEW name \in Seq(STRING)
  PROVE  StaysPlain(SurgeSafe(name), name)
<1>. DEFINE new == SurgeSafe(name)
<1>. SUFFICES ASSUME TablesApart, Plain(name) PROVE Plain(new)
  BY DEF StaysPlain
<1>1. DOMAIN new = DOMAIN name /\ \A k \in DOMAIN name : new[k] = name[k] \/ new[k] = "A_B"
  BY DEF SurgeSafe
<1>. HIDE DEF new
<1>2. Wordy("A_B")
  BY DEF TablesApart
<1>3. \A k \in DOMAIN name : new[k] = name[k] \/ Wordy(new[k])
  BY <1>1, <1>2
<1>4. Coding(new) \subseteq Coding(name)
  BY <1>1, <1>3 DEF Coding, Wordy
<1>5. (\E k \in DOMAIN new : new[k] \in DOMAIN Flags \cup CountryWords) =>
      \E k \in DOMAIN name : name[k] \in DOMAIN Flags \cup CountryWords
  BY <1>1, <1>3 DEF Wordy
<1>. QED BY <1>4, <1>5 DEF Plain

\* In a plain name a country is named once.
LEMMA PlainIs ==
  ASSUME TablesApart, NEW name \in Seq(STRING), Plain(name)
  PROVE  /\ Cardinality(Coding(name)) <= 1
         /\ Coded(name, Flags) # "OTHER" \/ Named(name) # "OTHER" => Coding(name) = {}
<1>1. Len(name) \in Nat /\ DOMAIN name = 1 .. Len(name)
  OBVIOUS
<1>2. Cardinality(Coding(name)) <= 1
  <2>1. CASE Coding(name) = {}
    BY <2>1, FS_EmptySet
  <2>2. CASE Coding(name) # {}
    <3>1. PICK k \in Coding(name) : Coding(name) = {k}
      BY <2>2 DEF Plain
    <3>2. Cardinality(Coding(name)) = 1
      BY <3>1, FS_Singleton
    <3>. QED BY <3>2
  <2>. QED BY <2>1, <2>2
<1>3. Coded(name, Flags) # "OTHER" => \E i \in DOMAIN name : name[i] \in DOMAIN Flags
  BY <1>1, CodedIs DEF TablesApart
<1>4. Named(name) # "OTHER" => \E i \in DOMAIN name : name[i] \in CountryWords
  BY <1>1, NamedIs
<1>. QED BY <1>2, <1>3, <1>4 DEF Plain

-----------------------------------------------------------------------------
(* One node under two names *)

\* q is the node p, under a name that may be another but adds no country.
Alike(q, p) ==
    /\ q = [k \in Fields |-> IF k = "name" THEN q.name ELSE p[k]]
    /\ q.name \in Seq(STRING) /\ StaysPlain(q.name, p.name)

\* A list of nodes that all come from another list, and one that has its nodes
\* each in its place.
Drawn(s, t) == IsListOf(s, IsNode) /\ \A k \in DOMAIN s : \E i \in DOMAIN t : Alike(s[k], t[i])
Matched(s, t) == /\ IsListOf(s, IsNode) /\ Len(s) = Len(t) /\ DOMAIN s = DOMAIN t
                 /\ \A k \in DOMAIN t : Alike(s[k], t[k])

\* A node under another name is a node, and usable as it was.
LEMMA AlikeIs ==
  ASSUME NEW p, IsNode(p), NEW q, Alike(q, p)
  PROVE  /\ IsNode(q) /\ \A k \in Fields : k # "name" => q[k] = p[k]
         /\ IsUsable(q) <=> IsUsable(p)
<1>1. q = [k \in Fields |-> q[k]] /\ q.name \in Seq(STRING) /\ \A k \in Fields : k # "name" => q[k] = p[k]
  BY DEF Alike
<1>2. \A k \in Options \cup DOMAIN Untested \cup {"type"} : q[k] = p[k]
  BY <1>1, FieldsApart DEF Always
<1>3. /\ q.type = p.type /\ q.available = p.available /\ q.measured = p.measured
      /\ q.latency = p.latency /\ q.speed = p.speed /\ q.country = p.country /\ q.unlocked = p.unlocked
  BY <1>2, FieldsApart
<1>4. IsNode(q)
  BY <1>1, <1>2, <1>3 DEF IsNode
<1>5. /\ q.password = p.password /\ q.cipher = p.cipher /\ q.method = p.method /\ q.uuid = p.uuid
      /\ q.reality = p.reality /\ q.pbk = p.pbk
  BY <1>2 DEF Options
<1>6. IsUsable(q) <=> IsUsable(p)
  BY <1>3, <1>5 DEF IsUsable, IsExportable
<1>. QED BY <1>1, <1>4, <1>6

\* A node is itself under its own name,
LEMMA AlikeSelf ==
  ASSUME NEW p, IsNode(p)
  PROVE  Alike(p, p)
BY DEF Alike, IsNode, StaysPlain

\* under the name it is given last if it is renamed twice,
LEMMA AlikeTwice ==
  ASSUME NEW p, NEW q, NEW r, Alike(q, p), Alike(r, q)
  PROVE  Alike(r, p)
BY DEF Alike, StaysPlain

\* and under any name of words that adds no country.
LEMMA AlikeNamed ==
  ASSUME NEW p, IsNode(p), NEW name \in Seq(STRING), StaysPlain(name, p.name)
  PROVE  Alike([p EXCEPT !.name = name], p)
<1>1. "name" \in Fields
  BY FieldsApart DEF Always
<1>. QED BY <1>1 DEF Alike, IsNode

\* What is drawn from what is drawn from a list is drawn from the list.
LEMMA DrawnTwice ==
  ASSUME NEW s, NEW t, NEW u, Drawn(t, s), Drawn(u, t)
  PROVE  Drawn(u, s)
<1>1. ASSUME NEW k \in DOMAIN u PROVE \E i \in DOMAIN s : Alike(u[k], s[i])
  <2>1. PICK j \in DOMAIN t : Alike(u[k], t[j])
    BY DEF Drawn
  <2>2. PICK i \in DOMAIN s : Alike(t[j], s[i])
    BY DEF Drawn
  <2>. QED BY <2>1, <2>2, AlikeTwice
<1>. QED BY <1>1 DEF Drawn

\* A list renamed node by node is drawn from it, and as much of it is usable.
LEMMA MatchedIs ==
  ASSUME NEW t, IsListOf(t, IsNode), NEW s, Matched(s, t)
  PROVE  Drawn(s, t) /\ Usable(s) = Usable(t)
<1>1. \A k \in DOMAIN t : IsNode(t[k]) /\ Alike(s[k], t[k])
  BY NodesAre DEF Matched
<1>2. \A k \in DOMAIN t : IsUsable(s[k]) <=> IsUsable(t[k])
  BY <1>1, AlikeIs
<1>. QED BY <1>1, <1>2 DEF Matched, Drawn, Usable

\* A list whose nodes are those of another under other names, place by place.
LEMMA MatchedBy ==
  ASSUME NEW t, IsListOf(t, IsNode), NEW s, s = [i \in 1 .. Len(t) |-> s[i]],
         \A i \in 1 .. Len(t) : Alike(s[i], t[i])
  PROVE  Matched(s, t)
<1>1. Len(t) \in Nat /\ DOMAIN t = 1 .. Len(t) /\ \A i \in 1 .. Len(t) : IsNode(t[i])
  BY NodesAre
<1>2. \A i \in 1 .. Len(t) : IsNode(s[i])
  BY <1>1, AlikeIs
<1>. QED BY <1>1, <1>2, AreNodes DEF Matched

\* A part of a list, and which of it is usable.
LEMMA PartDrawn ==
  ASSUME NEW s, IsListOf(s, IsNode), NEW I \in SUBSET DOMAIN s
  PROVE  /\ Drawn(At(s, I), s) /\ Len(At(s, I)) = Cardinality(I)
         /\ \A i \in I : \E k \in DOMAIN At(s, I) : At(s, I)[k] = s[i]
         /\ Cardinality(Usable(At(s, I))) = Cardinality(I \cap Usable(s))
<1>. DEFINE m == Len(s)
            n == Cardinality(I)
            t == At(s, I)
            V == Usable(t)
<1>1. m \in Nat /\ DOMAIN s = 1 .. m /\ \A i \in 1 .. m : IsNode(s[i])
  BY NodesAre
<1>2. I \in SUBSET (1 .. m)
  BY <1>1
<1>. HIDE DEF m
<1>3. IsFiniteSet(I) /\ Linear(I, Less(m)) /\ n \in Nat
  BY <1>1, <1>2, AtLists
<1>4. PICK e : Lists(e, I, Less(m)) /\ t = Along(s, e, n)
  BY <1>1, <1>2, AtLists
<1>. HIDE DEF t, n
<1>5. DOMAIN t = 1 .. n /\ t = [k \in 1 .. n |-> t[k]] /\ \A k \in 1 .. n : t[k] = s[e[k]]
  BY <1>4 DEF Along
<1>6. /\ \A k \in 1 .. n : e[k] \in I /\ e[k] \in 1 .. m
      /\ \A i \in I : \E k \in 1 .. n : e[k] = i
  BY <1>2, <1>4 DEF Lists, n
<1>7. \A k \in 1 .. n : IsNode(t[k])
  BY <1>1, <1>5, <1>6
<1>8. IsListOf(t, IsNode) /\ Len(t) = n
  BY <1>3, <1>5, <1>7, AreNodes
<1>9. Drawn(t, s)
  BY <1>1, <1>5, <1>6, <1>8, AlikeSelf DEF Drawn
<1>10. \A i \in I : \E k \in DOMAIN t : t[k] = s[i]
  BY <1>5, <1>6
<1>11. V \in SUBSET (1 .. n)
  BY <1>5 DEF Usable
<1>12. {e[k] : k \in V} = I \cap Usable(s)
  <2>1. \A k \in 1 .. n : k \in V <=> e[k] \in Usable(s)
    BY <1>1, <1>5, <1>6 DEF Usable
  <2>. HIDE DEF V
  <2>2. \A k \in V : e[k] \in I \cap Usable(s)
    BY <1>6, <1>11, <2>1
  <2>3. \A i \in I \cap Usable(s) : \E k \in V : e[k] = i
    BY <1>6, <2>1
  <2>. QED BY <2>2, <2>3
<1>13. Cardinality({e[k] : k \in V}) = Cardinality(V)
  <2>1. V \in SUBSET (1 .. Cardinality(I))
    BY <1>11 DEF n
  <2>. HIDE DEF V
  <2>. QED BY <1>3, <1>4, <2>1, ListImage
<1>. QED BY <1>8, <1>9, <1>10, <1>12, <1>13 DEF t, n

\* A list in another order, and which of it is usable.
LEMMA AlongDrawn ==
  ASSUME NEW s, IsListOf(s, IsNode), NEW R, Linear(1 .. Len(s), R), NEW e, Lists(e, 1 .. Len(s), R)
  PROVE  LET t == Along(s, e, Len(s))
         IN  /\ Drawn(t, s) /\ Len(t) = Len(s)
             /\ Cardinality(Usable(t)) = Cardinality(Usable(s))
<1>. DEFINE m == Len(s)
            I == 1 .. m
            t == Along(s, e, m)
            V == Usable(t)
<1>1. m \in Nat /\ DOMAIN s = 1 .. m /\ \A i \in 1 .. m : IsNode(s[i])
  BY NodesAre
<1>2. Linear(I, R) /\ Lists(e, I, R)
  OBVIOUS
<1>. HIDE DEF m
<1>3. IsFiniteSet(I) /\ Cardinality(I) = m
  BY <1>1, CardinalityOfInterval
<1>. HIDE DEF t
<1>5. DOMAIN t = 1 .. m /\ t = [k \in 1 .. m |-> t[k]] /\ \A k \in 1 .. m : t[k] = s[e[k]]
  BY DEF Along, t
<1>6. /\ \A k \in 1 .. m : e[k] \in 1 .. m
      /\ \A i \in 1 .. m : \E k \in 1 .. m : e[k] = i
  BY <1>2, <1>3 DEF Lists
<1>7. \A k \in 1 .. m : IsNode(t[k])
  BY <1>1, <1>5, <1>6
<1>8. IsListOf(t, IsNode) /\ Len(t) = m
  BY <1>1, <1>5, <1>7, AreNodes
<1>9. Drawn(t, s)
  <2>1. ASSUME NEW k \in DOMAIN t PROVE \E i \in DOMAIN s : Alike(t[k], s[i])
    <3>1. e[k] \in DOMAIN s /\ IsNode(s[e[k]]) /\ t[k] = s[e[k]]
      BY <1>1, <1>5, <1>6
    <3>2. Alike(t[k], s[e[k]])
      BY <3>1, AlikeSelf
    <3>. QED BY <3>1, <3>2
  <2>. QED BY <1>8, <2>1 DEF Drawn
<1>11. V \in SUBSET (1 .. m)
  BY <1>5 DEF Usable
<1>12. {e[k] : k \in V} = Usable(s)
  <2>1. \A k \in 1 .. m : k \in V <=> e[k] \in Usable(s)
    BY <1>1, <1>5, <1>6 DEF Usable
  <2>2. Usable(s) \subseteq 1 .. m
    BY <1>1 DEF Usable
  <2>. HIDE DEF V
  <2>. QED BY <1>6, <1>11, <2>1, <2>2
<1>13. Cardinality({e[k] : k \in V}) = Cardinality(V)
  <2>1. V \in SUBSET (1 .. Cardinality(I))
    BY <1>3, <1>11
  <2>. HIDE DEF V, I
  <2>. QED BY <1>2, <1>3, <2>1, ListImage
<1>. QED BY <1>8, <1>9, <1>12, <1>13 DEF t, m

\* A sort loses no node, and no usable one.
LEMMA SortedIs ==
  ASSUME NEW s, IsListOf(s, IsNode), NEW sort, sort.key \in {"latency", "speed", "score"}
  PROVE  /\ Drawn(Sorted(s, sort), s)
         /\ Cardinality(Usable(Sorted(s, sort))) = Cardinality(Usable(s))
<1>. DEFINE m == Len(s)
            R == Stable(m, ByColumn(s, sort))
<1>1. m \in Nat /\ DOMAIN s = 1 .. m /\ \A i \in 1 .. m : IsNode(s[i])
  BY NodesAre
<1>2. PICK e : Lists(e, 1 .. m, R) /\ Sorted(s, sort) = Along(s, e, m)
  <2>. HIDE DEF m
  <2>. QED BY <1>1, SortedByColumn
<1>3. Linear(1 .. m, R)
  <2>1. Weak(1 .. m, ByColumn(s, sort))
    <3>. HIDE DEF m
    <3>. QED BY <1>1, ColumnIsWeak
  <2>. HIDE DEF m
  <2>. QED BY <1>1, <2>1, StableLinear
<1>. HIDE DEF R
<1>. QED BY <1>2, <1>3, AlongDrawn

\* Nor does the sort by score.
LEMMA BestFirstIs ==
  ASSUME NEW s, IsListOf(s, IsNode)
  PROVE  Drawn(BestFirst(s), s) /\ Len(BestFirst(s)) = Len(s)
<1>. DEFINE m == Len(s)
            R == Stable(m, ByScore(s))
<1>1. m \in Nat /\ DOMAIN s = 1 .. m /\ \A i \in 1 .. m : IsNode(s[i])
  BY NodesAre
<1>2. PICK e : Lists(e, 1 .. m, R) /\ BestFirst(s) = Along(s, e, m)
  <2>. HIDE DEF m
  <2>. QED BY <1>1, SortedByScore
<1>3. Linear(1 .. m, R)
  <2>1. Weak(1 .. m, ByScore(s))
    <3>. HIDE DEF m
    <3>. QED BY <1>1, ScoreIsWeak
  <2>. HIDE DEF m
  <2>. QED BY <1>1, <2>1, StableLinear
<1>. HIDE DEF R
<1>. QED BY <1>2, <1>3, AlongDrawn

\* Those of a list that pass.
Passing(s, t) == {i \in DOMAIN s : Passes(s[i], t)}

\* What a request may ask of the list.
IsTransform(t) == /\ t.rename # None => t.rename.to \in Seq(STRING) /\ (NamesPlain => Plain(t.rename.to))
                  /\ t.sort # None => t.sort.key \in {"latency", "speed", "score"}

\* A transform leaves the nodes that pass, the usable ones among them.
LEMMA ApplyIs ==
  ASSUME NEW s, IsListOf(s, IsNode), NEW t, IsTransform(t)
  PROVE  /\ Drawn(Apply(s, t), s)
         /\ Cardinality(Usable(Apply(s, t))) = Cardinality(Passing(s, t) \cap Usable(s))
<1>. DEFINE kept == At(s, Passing(s, t))
            named == IF t.rename = None THEN kept
                     ELSE [i \in DOMAIN kept |-> Renamed(kept[i], t.rename)]
            all == Apply(s, t)
<1>1. /\ Drawn(kept, s) /\ IsListOf(kept, IsNode)
      /\ Cardinality(Usable(kept)) = Cardinality(Passing(s, t) \cap Usable(s))
  BY PartDrawn DEF Passing, Drawn
<1>2. Drawn(named, kept) /\ Usable(named) = Usable(kept)
  <2>1. CASE t.rename = None
    <3>. HIDE DEF kept
    <3>. QED BY <1>1, <2>1, AlikeSelf, NodesAre DEF Drawn
  <2>2. CASE t.rename # None
    <3>. DEFINE n == Len(kept)
                r == [i \in 1 .. n |-> Renamed(kept[i], t.rename)]
    <3>. HIDE DEF kept
    <3>1. DOMAIN kept = 1 .. n /\ \A i \in 1 .. n : IsNode(kept[i])
      BY <1>1, NodesAre
    <3>2. r = [i \in 1 .. n |-> r[i]]
      OBVIOUS
    <3>3. ASSUME NEW i \in 1 .. n PROVE Alike(r[i], kept[i])
      <4>1. r[i] = kept[i] \/ r[i] = [kept[i] EXCEPT !.name = t.rename.to]
        BY DEF Renamed
      <4>2. t.rename.to \in Seq(STRING) /\ StaysPlain(t.rename.to, kept[i].name)
        BY <2>2 DEF IsTransform, StaysPlain
      <4>. HIDE DEF r
      <4>. QED BY <3>1, <4>1, <4>2, AlikeSelf, AlikeNamed
    <3>4. named = r
      BY <2>2, <3>1
    <3>. HIDE DEF r, named
    <3>. QED BY <1>1, <3>2, <3>3, <3>4, MatchedBy, MatchedIs
  <2>. QED BY <2>1, <2>2
<1>3. all = IF t.sort = None THEN named ELSE Sorted(named, t.sort)
  <2>1. all = LET k == Select(s, LAMBDA p : Passes(p, t))
                  n == IF t.rename = None THEN k
                       ELSE [i \in DOMAIN k |-> Renamed(k[i], t.rename)]
              IN IF t.sort = None THEN n ELSE Sorted(n, t.sort)
    BY DEF Apply
  <2>2. Select(s, LAMBDA p : Passes(p, t)) = kept
    BY DEF Select, Passing
  <2>. QED BY <2>1, <2>2
<1>. HIDE DEF kept, named, all
<1>4. IsListOf(named, IsNode)
  BY <1>2 DEF Drawn
<1>5. Drawn(all, named) /\ Cardinality(Usable(all)) = Cardinality(Usable(named))
  <2>1. CASE t.sort = None
    BY <1>3, <1>4, <2>1, AlikeSelf, NodesAre DEF Drawn
  <2>2. CASE t.sort # None
    <3>1. t.sort.key \in {"latency", "speed", "score"}
      BY <2>2 DEF IsTransform
    <3>. QED BY <1>3, <1>4, <2>2, <3>1, SortedIs
  <2>. QED BY <2>1, <2>2
<1>6. Drawn(all, s)
  BY <1>1, <1>2, <1>5, DrawnTwice
<1>. QED BY <1>1, <1>2, <1>5, <1>6 DEF all

\* The best of a list are usable, as many as are asked for if there are.
LEMMA TopNIs ==
  ASSUME NEW s, IsListOf(s, IsNode), NEW n \in Nat
  PROVE  /\ Drawn(TopNByScore(s, n), s)
         /\ Cardinality(Usable(TopNByScore(s, n))) = AtMost(n, Cardinality(Usable(s)))
<1>. DEFINE U == Usable(s)
            b == At(s, U)
            r == BestFirst(b)
            m == AtMost(n, Len(r))
            all == TopNByScore(s, n)
<1>1. U \in SUBSET DOMAIN s
  BY DEF Usable
<1>2. /\ Drawn(b, s) /\ IsListOf(b, IsNode) /\ Len(b) = Cardinality(U)
      /\ \A k \in DOMAIN b : IsUsable(b[k])
  <2>1. Drawn(b, s) /\ Len(b) = Cardinality(U)
    BY <1>1, PartDrawn
  <2>2. \A k \in DOMAIN b : \E i \in U : b[k] = s[i]
    <3>. DEFINE S == {s[i] : i \in DOMAIN s}
    <3>1. s \in Seq(S) /\ DOMAIN s = 1 .. Len(s)
      BY NodesAre
    <3>. HIDE DEF U, S
    <3>. QED BY <1>1, <3>1, PartIs
  <2>. QED BY <2>1, <2>2 DEF Drawn, Usable
<1>3. all = SubSeq(r, 1, m)
  BY SelectUsable DEF TopNByScore
<1>. HIDE DEF U, b
<1>4. Drawn(r, b) /\ Len(r) = Cardinality(U) /\ IsListOf(r, IsNode)
  BY <1>2, BestFirstIs DEF Drawn
<1>. HIDE DEF r
<1>5. Len(r) \in Nat /\ DOMAIN r = 1 .. Len(r) /\ \A k \in 1 .. Len(r) : IsNode(r[k]) /\ IsUsable(r[k])
  <2>1. Len(r) \in Nat /\ DOMAIN r = 1 .. Len(r) /\ \A k \in 1 .. Len(r) : IsNode(r[k])
    BY <1>4, NodesAre
  <2>2. ASSUME NEW k \in 1 .. Len(r) PROVE IsUsable(r[k])
    <3>1. PICK i \in DOMAIN b : Alike(r[k], b[i])
      BY <1>4, <2>1 DEF Drawn
    <3>2. IsNode(b[i]) /\ IsUsable(b[i])
      BY <1>2, NodesAre
    <3>. QED BY <3>1, <3>2, AlikeIs
  <2>. QED BY <2>1, <2>2
<1>6. m \in 0 .. Len(r)
  BY <1>5 DEF AtMost
<1>. HIDE DEF m
<1>7. all = [k \in 1 .. m |-> all[k]] /\ \A k \in 1 .. m : all[k] = r[k]
  <2>1. SubSeq(r, 1, m) = [k \in 1 .. m |-> r[k]]
    BY <1>5, <1>6
  <2>. HIDE DEF all
  <2>. QED BY <1>3, <2>1
<1>. HIDE DEF all
<1>8. m \in Nat /\ \A k \in 1 .. m : k \in DOMAIN r /\ IsNode(all[k]) /\ IsUsable(all[k])
  BY <1>5, <1>6, <1>7
<1>9. IsListOf(all, IsNode) /\ DOMAIN all = 1 .. m
  BY <1>7, <1>8, AreNodes
<1>10. Drawn(all, r)
  BY <1>7, <1>8, <1>9, AlikeSelf DEF Drawn
<1>11. Usable(all) = 1 .. m
  BY <1>8, <1>9 DEF Usable
<1>12. Cardinality(Usable(all)) = m
  BY <1>8, <1>11, CardinalityOfInterval
<1>13. Drawn(all, s)
  BY <1>2, <1>4, <1>10, DrawnTwice
<1>. QED BY <1>4, <1>12, <1>13 DEF all, m, U

\* A number is a word, and no two are written alike.
NumbersAreWords == NumbersDiffer /\ \A n \in Nat : "#" \o ToString(n) \in STRING

\* ensure_unique_names, of nodes.
LEMMA UniqueIs ==
  ASSUME NumbersAreWords, NEW s, IsListOf(s, IsNode)
  PROVE  Matched(EnsureUniqueNames(s), s) /\ Distinct(EnsureUniqueNames(s))
<1>. DEFINE R == {s[i] : i \in DOMAIN s}
            u == EnsureUniqueNames(s)
            n == Len(s)
<1>1. s \in Seq(R) /\ n \in Nat /\ DOMAIN s = 1 .. n /\ \A i \in 1 .. n : IsNode(s[i])
  BY NodesAre
<1>2. \A p \in R : IsNode(p)
  BY <1>1
<1>3. HaveNames(R, STRING)
  <2>1. ASSUME NEW p, IsNode(p)
        PROVE  p = [k \in DOMAIN p |-> p[k]] /\ "name" \in DOMAIN p /\ p.name \in Seq(STRING)
    BY <2>1, FieldsApart DEF IsNode, Always
  <2>. HIDE DEF R
  <2>. QED BY <1>2, <2>1 DEF HaveNames
<1>. HIDE DEF R, u, n
<1>4. DOMAIN u = DOMAIN s /\ u = [i \in DOMAIN s |-> u[i]] /\ Distinct(u) /\ \A i \in DOMAIN s : Like(u[i], s[i])
  BY <1>1, <1>3, UniqueNames DEF NumbersAreWords, u
<1>5. ASSUME NEW i \in 1 .. n PROVE Alike(u[i], s[i])
  <2>1. IsNode(s[i]) /\ Like(u[i], s[i])
    BY <1>1, <1>4
  <2>2. \A k \in Nat : Numbered(s[i].name, k) \in Seq(STRING) /\ StaysPlain(Numbered(s[i].name, k), s[i].name)
    <3>1. s[i].name \in Seq(STRING) /\ \A k \in Nat : "#" \o ToString(k) \in STRING
      BY <2>1 DEF NumbersAreWords, IsNode
    <3>2. \A k \in Nat : Numbered(s[i].name, k) \in Seq(STRING)
      BY <3>1 DEF Numbered
    <3>. QED BY <3>1, <3>2, NumberedPlain
  <2>. QED BY <2>1, <2>2, AlikeSelf, AlikeNamed DEF Like
<1>6. u = [i \in 1 .. n |-> u[i]]
  BY <1>1, <1>4
<1>. QED BY <1>4, <1>5, <1>6, MatchedBy DEF u, n

\* region_fixup.
LEMMA FixupIs ==
  ASSUME NumbersAreWords, NEW s, IsListOf(s, IsNode)
  PROVE  Matched(RegionFixup(s), s) /\ Distinct(RegionFixup(s))
<1>. DEFINE n == Len(s)
            l == [i \in 1 .. n |-> IF Region(s[i]) = "OTHER" /\ s[i].country # None
                                   THEN [s[i] EXCEPT !.name = <<s[i].country>> \o @] ELSE s[i]]
            u == EnsureUniqueNames(l)
<1>1. n \in Nat /\ DOMAIN s = 1 .. n /\ \A i \in 1 .. n : IsNode(s[i])
  BY NodesAre
<1>2. RegionFixup(s) = u
  BY <1>1 DEF RegionFixup
<1>3. ASSUME NEW i \in 1 .. n PROVE Alike(l[i], s[i])
  <2>1. IsNode(s[i])
    BY <1>1
  <2>2. CASE Region(s[i]) = "OTHER" /\ s[i].country # None
    <3>1. s[i].country \in Countries /\ s[i].country \in STRING /\ s[i].name \in Seq(STRING)
      BY <2>1, <2>2, PublishAssumption DEF IsNode
    <3>2. <<s[i].country>> \o s[i].name \in Seq(STRING) /\ StaysPlain(<<s[i].country>> \o s[i].name, s[i].name)
      BY <2>2, <3>1, LabelledPlain DEF Region
    <3>3. l[i] = [s[i] EXCEPT !.name = <<s[i].country>> \o s[i].name]
      BY <2>2
    <3>. QED BY <2>1, <3>2, <3>3, AlikeNamed
  <2>3. CASE ~(Region(s[i]) = "OTHER" /\ s[i].country # None)
    <3>1. l[i] = s[i]
      BY <2>3
    <3>. HIDE DEF l
    <3>. QED BY <2>1, <3>1, AlikeSelf
  <2>. QED BY <2>2, <2>3
<1>4. l = [i \in 1 .. n |-> l[i]]
  OBVIOUS
<1>. HIDE DEF l
<1>5. Matched(l, s)
  BY <1>3, <1>4, MatchedBy
<1>6. IsListOf(l, IsNode)
  BY <1>5 DEF Matched
<1>7. Matched(u, l) /\ Distinct(u)
  BY <1>6, UniqueIs
<1>. HIDE DEF u
<1>8. Matched(u, s)
  BY <1>5, <1>7, AlikeTwice DEF Matched
<1>. QED BY <1>2, <1>7, <1>8

-----------------------------------------------------------------------------
(* From the stored nodes to those a document is written from. *)

\* The places of the first nodes of each fingerprint.
Firsts(s) == {i \in DOMAIN s : \A j \in 1 .. i - 1 : Fingerprint(s[j]) # Fingerprint(s[i])}

\* What a request makes of the nodes that are left when duplicates are merged.
Chosen(s, r) ==
    LET list == IF r.t = None THEN s ELSE Apply(s, r.t)
        n == ResolveTopN(r.top, r.global)
    IN IF n = None THEN list ELSE TopNByScore(list, n)

\* Those of a list that a request lets through.
Through(s, r) == {i \in Usable(s) : r.t # None => Passes(s[i], r.t)}

\* What a request asks for.
LEMMA RequestIs ==
  ASSUME NEW r \in Requests
  PROVE  /\ r.t # None => IsTransform(r.t)
         /\ r.format \in DocFormats /\ r.format # "links"
         /\ ResolveTopN(r.top, r.global) \in Nat \cup {None}
<1>1. IsRequest(r)
  BY PublishAssumption
<1>2. r.global \in Nat /\ r.top \in Nat \cup {None}
  BY <1>1 DEF IsRequest
<1>3. ResolveTopN(r.top, r.global) \in Nat \cup {None}
  BY <1>2 DEF ResolveTopN
<1>4. r.t # None /\ r.t.rename # None => (NamesPlain => Plain(r.t.rename.to))
  BY DEF NamesPlain
<1>. QED BY <1>1, <1>3, <1>4 DEF IsRequest, IsTransform

\* A request's transform and its best N choose as many usable nodes as it asks
\* for.
LEMMA ChosenIs ==
  ASSUME NEW s, IsListOf(s, IsNode), NEW r \in Requests
  PROVE  LET n == ResolveTopN(r.top, r.global)
             all == Cardinality(Through(s, r))
         IN  /\ Drawn(Chosen(s, r), s)
             /\ Cardinality(Usable(Chosen(s, r))) = IF n = None THEN all ELSE AtMost(n, all)
<1>. DEFINE list == IF r.t = None THEN s ELSE Apply(s, r.t)
            n == ResolveTopN(r.top, r.global)
<1>1. Drawn(list, s) /\ Cardinality(Usable(list)) = Cardinality(Through(s, r))
  <2>1. CASE r.t = None
    <3>1. Through(s, r) = Usable(s)
      BY <2>1 DEF Through
    <3>. QED BY <2>1, <3>1, AlikeSelf, NodesAre DEF Drawn
  <2>2. CASE r.t # None
    <3>1. Through(s, r) = Passing(s, r.t) \cap Usable(s)
      BY <2>2 DEF Through, Passing, Usable
    <3>2. IsTransform(r.t)
      BY <2>2, RequestIs
    <3>. QED BY <2>2, <3>1, <3>2, ApplyIs
  <2>. QED BY <2>1, <2>2
<1>2. n \in Nat \cup {None}
  BY RequestIs
<1>3. Chosen(s, r) = IF n = None THEN list ELSE TopNByScore(list, n)
  BY DEF Chosen
<1>. HIDE DEF list, n
<1>4. CASE n = None
  BY <1>1, <1>3, <1>4 DEF n
<1>5. CASE n # None
  <2>1. Drawn(TopNByScore(list, n), list)
        /\ Cardinality(Usable(TopNByScore(list, n))) = AtMost(n, Cardinality(Usable(list)))
    BY <1>1, <1>2, <1>5, TopNIs DEF Drawn
  <2>. QED BY <1>1, <1>3, <1>5, <2>1, DrawnTwice DEF n
<1>. QED BY <1>4, <1>5

\* A document is written from nodes of the hub, each at most once, under
\* distinct names.
LEMMA SelectedIs ==
  ASSUME NumbersAreWords, IsListOf(nodes, IsNode), NEW r \in Requests
  PROVE  /\ Drawn(MergeRefs(nodes), nodes) /\ MergeRefs(nodes) = At(nodes, Firsts(nodes))
         /\ Matched(Selected(r), Chosen(MergeRefs(nodes), r))
         /\ Drawn(Selected(r), nodes) /\ Distinct(Selected(r))
<1>. DEFINE b == MergeRefs(nodes)
            c == Chosen(b, r)
<1>1. Drawn(b, nodes) /\ b = At(nodes, Firsts(nodes))
  <2>1. b = At(nodes, Firsts(nodes))
    BY DEF MergeRefs, Firsts
  <2>2. Firsts(nodes) \in SUBSET DOMAIN nodes
    BY DEF Firsts
  <2>. HIDE DEF b
  <2>. QED BY <2>1, <2>2, PartDrawn
<1>2. Selected(r) = RegionFixup(c)
  BY DEF Selected, Chosen
<1>. HIDE DEF b
<1>3. Drawn(c, b)
  BY <1>1, ChosenIs DEF Drawn
<1>. HIDE DEF c
<1>4. IsListOf(c, IsNode)
  BY <1>3 DEF Drawn
<1>5. Matched(Selected(r), c) /\ Distinct(Selected(r))
  BY <1>2, <1>4, FixupIs
<1>6. Drawn(Selected(r), nodes)
  BY <1>1, <1>3, <1>4, <1>5, MatchedIs, DrawnTwice
<1>. QED BY <1>1, <1>5, <1>6 DEF b, c

\* A part of a list with distinct names has distinct names.
LEMMA PartDistinct ==
  ASSUME NEW s, IsListOf(s, IsNode), Distinct(s), NEW I \in SUBSET DOMAIN s
  PROVE  Distinct(At(s, I))
<1>. DEFINE m == Len(s)
            n == Cardinality(I)
            t == At(s, I)
<1>1. m \in Nat /\ DOMAIN s = 1 .. m
  BY NodesAre
<1>2. I \in SUBSET (1 .. m)
  BY <1>1
<1>. HIDE DEF m
<1>3. IsFiniteSet(I) /\ Linear(I, Less(m)) /\ n \in Nat
  BY <1>1, <1>2, AtLists
<1>4. PICK e : Lists(e, I, Less(m)) /\ t = Along(s, e, n)
  BY <1>1, <1>2, AtLists
<1>. HIDE DEF t
<1>5. DOMAIN t = 1 .. n /\ \A k \in 1 .. n : t[k] = s[e[k]] /\ e[k] \in I
  BY <1>4 DEF Along, Lists
<1>6. \A k, l \in 1 .. n : e[k] = e[l] => k = l
  BY <1>3, <1>4, ListInjective
<1>. HIDE DEF n
<1>. QED BY <1>5, <1>6 DEF Distinct, t

\* Of which nodes an export tells.
LEMMA WrittenIs ==
  ASSUME NumbersAreWords, NEW s, IsListOf(s, IsNode), NEW format
  PROVE  LET w == Written(s, format)
         IN  /\ Drawn(w, s) /\ Distinct(w)
             /\ \A k \in DOMAIN w : IsUsable(w[k]) /\ Represented(format, w[k])
             /\ Len(ExportFilter(s)) = Cardinality(Usable(s))
             /\ format \in {"clash", "base64"} => Len(w) = Len(ExportFilter(s))
<1>. DEFINE x == ExportFilter(s)
            u == EnsureUniqueNames(x)
            I == {i \in DOMAIN u : Represented(format, u[i])}
            w == Written(s, format)
<1>1. Drawn(x, s) /\ Len(x) = Cardinality(Usable(s)) /\ \A k \in DOMAIN x : IsUsable(x[k])
  <2>1. x = At(s, Usable(s)) /\ Usable(s) \in SUBSET DOMAIN s
    BY SelectUsable DEF Usable
  <2>. HIDE DEF x
  <2>2. Drawn(x, s) /\ Len(x) = Cardinality(Usable(s))
    BY <2>1, PartDrawn
  <2>3. \A k \in DOMAIN x : \E i \in Usable(s) : x[k] = s[i]
    <3>. DEFINE S == {s[i] : i \in DOMAIN s}
    <3>1. s \in Seq(S) /\ DOMAIN s = 1 .. Len(s)
      BY NodesAre
    <3>. HIDE DEF S
    <3>. QED BY <2>1, <3>1, PartIs
  <2>. QED BY <2>2, <2>3 DEF Usable
<1>. HIDE DEF x
<1>2. Matched(u, x) /\ Distinct(u)
  BY <1>1, UniqueIs DEF Drawn
<1>3. w = At(u, I)
  BY DEF Written, Select, x
<1>. HIDE DEF u, w
<1>4. /\ IsListOf(u, IsNode) /\ Len(u) = Len(x) /\ Drawn(u, s)
      /\ \A k \in DOMAIN u : IsUsable(u[k])
  <2>1. IsListOf(x, IsNode)
    BY <1>1 DEF Drawn
  <2>2. Drawn(u, x) /\ Usable(u) = Usable(x)
    BY <1>2, <2>1, MatchedIs
  <2>3. Usable(x) = DOMAIN x
    BY <1>1 DEF Usable
  <2>4. \A k \in DOMAIN u : IsUsable(u[k])
    BY <1>2, <2>2, <2>3 DEF Usable, Matched
  <2>. QED BY <1>1, <1>2, <2>2, <2>4, DrawnTwice DEF Matched
<1>5. I \in SUBSET DOMAIN u
  OBVIOUS
<1>. HIDE DEF I
<1>6. Drawn(w, u) /\ Distinct(w) /\ Len(w) = Cardinality(I)
  BY <1>2, <1>3, <1>4, <1>5, PartDrawn, PartDistinct
<1>7. \A k \in DOMAIN w : \E i \in I : w[k] = u[i]
  <2>. DEFINE S == {u[i] : i \in DOMAIN u}
  <2>1. u \in Seq(S) /\ DOMAIN u = 1 .. Len(u)
    BY <1>4, NodesAre
  <2>. HIDE DEF S
  <2>. QED BY <1>3, <1>5, <2>1, PartIs
<1>8. \A k \in DOMAIN w : IsUsable(w[k]) /\ Represented(format, w[k])
  BY <1>4, <1>5, <1>7 DEF I
<1>9. format \in {"clash", "base64"} => Len(w) = Len(x)
  <2>. SUFFICES ASSUME format \in {"clash", "base64"} PROVE Len(w) = Len(x)
    OBVIOUS
  <2>1. I = DOMAIN u
    BY DEF Represented, I
  <2>2. DOMAIN u = 1 .. Len(u) /\ Len(u) \in Nat
    BY <1>4, NodesAre
  <2>. QED BY <1>4, <1>6, <2>1, <2>2, CardinalityOfInterval
<1>. QED BY <1>1, <1>4, <1>6, <1>8, <1>9, DrawnTwice DEF w, x

\* What the exporters write of a node are options.
ClashKeys(p) == ClashOptions[p.type] \cup ClashTransport(p) \cup ClashReality(p)
SingboxKeys(p) == SingboxOptions[p.type] \cup SingboxTransport(p) \cup SingboxTlsOptions(p)
V2rayKeys(p) == V2rayOptions[p.type] \cup V2rayStream(p)
SurgeKeys(p) == SurgeOptions(p) \cup SurgeWs(p)

\* Only types clash knows are usable.
LEMMA UsableType ==
  ASSUME NEW p, IsUsable(p)
  PROVE  p.type \in DOMAIN ClashOptions
<1>1. DOMAIN ClashOptions = {"ss", "trojan", "vmess", "vless", "hysteria2", "tuic", "anytls", "socks5", "http"}
  BY DEF ClashOptions
<1>. QED BY <1>1 DEF IsUsable, IsExportable

\* The keys of a clash entry are options.
LEMMA ClashKeysAre ==
  ASSUME NEW p, p.type \in DOMAIN ClashOptions
  PROVE  ClashKeys(p) \subseteq Options
<1>1. ClashTransport(p) \subseteq Options /\ ClashReality(p) \subseteq Options
  BY DEF ClashTransport, ClashReality, Options
<1>2. ClashOptions[p.type] \subseteq Options
  <2>1. CASE p.type \in {"ss", "trojan", "vmess"}
    BY <2>1 DEF ClashOptions, Options
  <2>2. CASE p.type \in {"vless", "hysteria2", "tuic"}
    BY <2>2 DEF ClashOptions, Options
  <2>3. CASE p.type \in {"anytls", "socks5", "http"}
    BY <2>3 DEF ClashOptions, Options
  <2>4. DOMAIN ClashOptions = {"ss", "trojan", "vmess", "vless", "hysteria2", "tuic", "anytls", "socks5", "http"}
    BY DEF ClashOptions
  <2>. QED BY <2>1, <2>2, <2>3, <2>4
<1>. QED BY <1>1, <1>2 DEF ClashKeys

\* So are those of a sing-box outbound,
LEMMA SingboxKeysAre ==
  ASSUME NEW p, p.type \in DOMAIN SingboxOptions
  PROVE  SingboxKeys(p) \subseteq Options
<1>1. SingboxTransport(p) \subseteq Options
  BY DEF SingboxTransport, Options
<1>2. SingboxTlsOptions(p) \subseteq Options
  BY DEF SingboxTlsOptions, Options
<1>3. SingboxOptions[p.type] \subseteq Options
  <2>1. CASE p.type \in {"vmess", "vless", "trojan", "ss"}
    BY <2>1 DEF SingboxOptions, Options
  <2>2. CASE p.type \in {"hysteria2", "tuic", "socks5", "http"}
    BY <2>2 DEF SingboxOptions, Options
  <2>3. DOMAIN SingboxOptions = {"vmess", "vless", "trojan", "ss", "hysteria2", "tuic", "socks5", "http"}
    BY DEF SingboxOptions
  <2>. QED BY <2>1, <2>2, <2>3
<1>. QED BY <1>1, <1>2, <1>3 DEF SingboxKeys

\* those of a v2ray outbound,
LEMMA V2rayKeysAre ==
  ASSUME NEW p, p.type \in DOMAIN V2rayOptions
  PROVE  V2rayKeys(p) \subseteq Options
<1>1. V2rayStream(p) \subseteq Options
  <2>. DEFINE a == CASE p.reality = "true" -> {"reality", "sni", "skip", "pbk", "sid", "fp"}
                      [] p.reality # "true" /\ p.tls = "true" -> {"sni", "skip", "alpn"}
                      [] OTHER -> {}
              b == CASE p.network \in {"ws", "h2", "http"} -> {"path", "host"}
                     [] p.network = "grpc" -> {"svc"}
                     [] OTHER -> {}
  <2>1. a \subseteq Options
    BY DEF Options
  <2>2. b \subseteq Options
    BY DEF Options
  <2>3. V2rayStream(p) = {} \/ V2rayStream(p) = {"network", "tls"} \cup a \cup b
    BY DEF V2rayStream
  <2>. HIDE DEF a, b
  <2>. QED BY <2>1, <2>2, <2>3 DEF Options
<1>2. V2rayOptions[p.type] \subseteq Options
  <2>1. DOMAIN V2rayOptions = {"vmess", "vless", "trojan", "ss"}
    BY DEF V2rayOptions
  <2>. QED BY <2>1 DEF V2rayOptions, Options
<1>. QED BY <1>1, <1>2 DEF V2rayKeys

\* and those of a Surge line.
LEMMA SurgeKeysAre ==
  ASSUME NEW p
  PROVE  SurgeKeys(p) \subseteq Options
<1>1. SurgeWs(p) \subseteq Options
  BY DEF SurgeWs, Options
<1>2. SurgeOptions(p) \subseteq Options
  <2>1. CASE p.type \in {"ss", "vmess", "tuic"}
    BY <2>1 DEF SurgeOptions, Options
  <2>2. CASE p.type \in {"socks5", "http"}
    BY <2>2 DEF SurgeOptions, Options
  <2>3. CASE p.type \notin {"ss", "vmess", "tuic", "socks5", "http"}
    BY <2>3 DEF SurgeOptions, Options
  <2>. QED BY <2>1, <2>2, <2>3
<1>. QED BY <1>1, <1>2 DEF SurgeKeys

-----------------------------------------------------------------------------
(* What the exporters write are entries under the names of the nodes. *)

\* The clash exporter writes an entry of the node's name, type and address.
LEMMA ToClashIs ==
  ASSUME NEW p, IsNode(p), p.type \in DOMAIN ClashOptions
  PROVE  IsEntry(ToClash(p)) /\ \A k \in Always : ToClash(p)[k] = p[k]
<1>1. ClashKeys(p) \subseteq Options /\ \A k \in ClashKeys(p) : ClashDefaults(p)[k] \in Texts
  BY ClashKeysAre, ClashDefaultsAre
<1>2. ToClash(p) = Entry(p, Filled(ClashDefaults(p), ClashKeys(p)))
  BY DEF ToClash, ClashKeys
<1>. QED BY <1>1, <1>2, FilledIs

\* So does the sing-box exporter,
LEMMA ToSingboxIs ==
  ASSUME NEW p, IsNode(p), p.type \in DOMAIN SingboxOptions
  PROVE  IsEntry(ToSingbox(p)) /\ \A k \in Always : ToSingbox(p)[k] = p[k]
<1>1. SingboxKeys(p) \subseteq Options /\ \A k \in SingboxKeys(p) : SingboxDefaults(p)[k] \in Texts
  BY SingboxKeysAre, SingboxDefaultsAre
<1>2. ToSingbox(p) = Entry(p, Present(SingboxDefaults(p), SingboxKeys(p)))
  BY DEF ToSingbox, SingboxKeys
<1>. QED BY <1>1, <1>2, PresentIs

\* and so does the v2ray exporter.
LEMMA ToV2rayIs ==
  ASSUME NEW p, IsNode(p), p.type \in DOMAIN V2rayOptions
  PROVE  IsEntry(ToV2ray(p)) /\ \A k \in Always : ToV2ray(p)[k] = p[k]
<1>1. V2rayKeys(p) \subseteq Options /\ \A k \in V2rayKeys(p) : V2rayDefaults(p)[k] \in Texts
  BY V2rayKeysAre, V2rayDefaultsAre
<1>2. ToV2ray(p) = Entry(p, Present(V2rayDefaults(p), V2rayKeys(p)))
  BY DEF ToV2ray, V2rayKeys
<1>. QED BY <1>1, <1>2, PresentIs

\* A line of the [Proxy] section, under a name that is safe for it.
SurgeLine(p) ==
    Entry([p EXCEPT !.name = SurgeSafe(@)], Filled(SurgeDefaults(p), SurgeOptions(p) \cup SurgeWs(p)))

\* A Surge line is an entry, whatever became of its name.
LEMMA SurgeLineIs ==
  ASSUME NEW p, IsNode(p)
  PROVE  IsEntry(SurgeLine(p)) /\ StaysPlain(SurgeLine(p).name, p.name)
<1>. DEFINE name == SurgeSafe(p.name)
            q == [p EXCEPT !.name = name]
<1>1. SurgeKeys(p) \subseteq Options /\ \A k \in SurgeKeys(p) : SurgeDefaults(p)[k] \in Texts
  BY SurgeKeysAre, SurgeDefaultsAre
<1>2. p.name \in Seq(STRING) /\ "A_B" \in STRING
  BY WordsAre DEF IsNode, Words
<1>3. name \in Seq(STRING)
  <2>. DEFINE n == Len(p.name)
  <2>1. n \in Nat /\ DOMAIN p.name = 1 .. n /\ \A i \in 1 .. n : p.name[i] \in STRING
    BY <1>2
  <2>2. name = [i \in 1 .. n |-> IF p.name[i] = "A,B" THEN "A_B" ELSE p.name[i]]
    BY <2>1 DEF SurgeSafe
  <2>3. \A i \in 1 .. n : name[i] \in STRING
    BY <1>2, <2>1, <2>2
  <2>4. name = [i \in 1 .. n |-> name[i]]
    BY <2>2
  <2>. HIDE DEF n, name
  <2>. QED BY <2>1, <2>3, <2>4, ListOf
<1>4. IsNode(q) /\ q.name = name /\ StaysPlain(name, p.name)
  <2>1. StaysPlain(name, p.name)
    BY <1>2, SafePlain
  <2>2. "name" \in DOMAIN p
    BY FieldsApart DEF IsNode, Always
  <2>. HIDE DEF name
  <2>. QED BY <1>3, <2>1, <2>2, AlikeNamed, AlikeIs
<1>5. SurgeLine(p) = Entry(q, Filled(SurgeDefaults(p), SurgeKeys(p)))
  BY DEF SurgeLine, SurgeKeys
<1>. HIDE DEF q, name
<1>6. IsEntry(SurgeLine(p)) /\ SurgeLine(p).name = q.name
  BY <1>1, <1>4, <1>5, FilledIs DEF Always
<1>. QED BY <1>4, <1>6

\* ensure_unique_names, of lines.
LEMMA UniqueEntries ==
  ASSUME NumbersAreWords, NEW s, IsListOf(s, IsEntry)
  PROVE  LET u == EnsureUniqueNames(s)
         IN  /\ IsListOf(u, IsEntry) /\ Distinct(u) /\ DOMAIN u = DOMAIN s
             /\ \A i \in DOMAIN s : StaysPlain(u[i].name, s[i].name)
<1>. DEFINE R == {s[i] : i \in DOMAIN s}
            u == EnsureUniqueNames(s)
            n == Len(s)
<1>1. s \in Seq(R) /\ n \in Nat /\ DOMAIN s = 1 .. n /\ \A i \in 1 .. n : IsEntry(s[i])
  BY EntriesAre
<1>2. \A p \in R : IsEntry(p)
  BY <1>1
<1>3. HaveNames(R, STRING)
  <2>1. ASSUME NEW p, IsEntry(p)
        PROVE  p = [k \in DOMAIN p |-> p[k]] /\ "name" \in DOMAIN p /\ p.name \in Seq(STRING)
    BY <2>1 DEF IsEntry, Always
  <2>. HIDE DEF R
  <2>. QED BY <1>2, <2>1 DEF HaveNames
<1>. HIDE DEF R, u, n
<1>4. DOMAIN u = DOMAIN s /\ u = [i \in DOMAIN s |-> u[i]] /\ Distinct(u) /\ \A i \in DOMAIN s : Like(u[i], s[i])
  BY <1>1, <1>3, UniqueNames DEF NumbersAreWords, u
<1>5. ASSUME NEW i \in 1 .. n PROVE IsEntry(u[i]) /\ StaysPlain(u[i].name, s[i].name)
  <2>1. IsEntry(s[i]) /\ Like(u[i], s[i])
    BY <1>1, <1>4
  <2>2. \A k \in Nat : Numbered(s[i].name, k) \in Seq(STRING) /\ StaysPlain(Numbered(s[i].name, k), s[i].name)
    <3>1. s[i].name \in Seq(STRING) /\ \A k \in Nat : "#" \o ToString(k) \in STRING
      BY <2>1 DEF NumbersAreWords, IsEntry
    <3>2. \A k \in Nat : Numbered(s[i].name, k) \in Seq(STRING)
      BY <3>1 DEF Numbered
    <3>. QED BY <3>1, <3>2, NumberedPlain
  <2>3. ASSUME NEW e, IsEntry(e), NEW name \in Seq(STRING)
        PROVE  IsEntry([e EXCEPT !.name = name]) /\ [e EXCEPT !.name = name].name = name
    BY <2>3, FieldsApart DEF IsEntry, Always
  <2>4. StaysPlain(s[i].name, s[i].name)
    BY DEF StaysPlain
  <2>5. ASSUME NEW k \in Nat, u[i] = [s[i] EXCEPT !.name = Numbered(s[i].name, k)]
        PROVE  IsEntry(u[i]) /\ StaysPlain(u[i].name, s[i].name)
    <3>. DEFINE e == s[i]
                name == Numbered(e.name, k)
                new == [e EXCEPT !.name = name]
    <3>1. IsEntry(e) /\ name \in Seq(STRING) /\ StaysPlain(name, e.name)
      BY <2>1, <2>2
    <3>2. u[i] = new
      BY <2>5
    <3>. HIDE DEF name
    <3>3. IsEntry(new) /\ new.name = name
      BY <2>3, <3>1
    <3>. HIDE DEF new, e
    <3>4. IsEntry(u[i]) /\ StaysPlain(u[i].name, e.name)
      BY <3>1, <3>2, <3>3
    <3>. QED BY <3>4 DEF e
  <2>. QED BY <2>1, <2>4, <2>5 DEF Like
<1>6. u = [i \in 1 .. n |-> u[i]]
  BY <1>1, <1>4
<1>. QED BY <1>1, <1>4, <1>5, <1>6, AreEntries DEF u, n

\* How a node is written in a format other than Surge's.
To(format, p) == CASE format = "sing-box" -> ToSingbox(p)
                   [] format = "v2ray" -> ToV2ray(p)
                   [] OTHER -> ToClash(p)

\* What the exporter of any format makes of a node it can express.
LEMMA ToIs ==
  ASSUME NEW format \in Readable, NEW p, IsNode(p), IsUsable(p), Represented(format, p)
  PROVE  IsEntry(To(format, p)) /\ \A k \in Always : To(format, p)[k] = p[k]
<1>1. CASE format = "sing-box"
  <2>1. p.type \in DOMAIN SingboxOptions
    BY <1>1 DEF Represented
  <2>. QED BY <1>1, <2>1, ToSingboxIs DEF To
<1>2. CASE format = "v2ray"
  <2>1. p.type \in DOMAIN V2rayOptions
    BY <1>2 DEF Represented
  <2>. QED BY <1>2, <2>1, ToV2rayIs DEF To
<1>3. CASE format \notin {"sing-box", "v2ray"}
  BY <1>3, UsableType, ToClashIs DEF To
<1>. QED BY <1>1, <1>2, <1>3

\* A document has an entry for every node that is written, no two under one name.
LEMMA ExportIs ==
  ASSUME NumbersAreWords, NEW s, IsListOf(s, IsNode), NEW format \in DocFormats, format # "links"
  PROVE  /\ IsListOf(ExportStr(s, format), IsEntry) /\ Distinct(ExportStr(s, format))
         /\ DOMAIN ExportStr(s, format) = DOMAIN Written(s, format)
         /\ \A k \in DOMAIN Written(s, format) :
               StaysPlain(ExportStr(s, format)[k].name, Written(s, format)[k].name)
         /\ format # "surge" => /\ format \in Readable
                                /\ \A k \in DOMAIN Written(s, format) :
                                      ExportStr(s, format)[k] = To(format, Written(s, format)[k])
<1>. DEFINE w == Written(s, format)
            n == Len(w)
            x == ExportStr(s, format)
<1>1. /\ IsListOf(w, IsNode) /\ Distinct(w)
      /\ \A k \in DOMAIN w : IsUsable(w[k]) /\ Represented(format, w[k])
  BY WrittenIs DEF Drawn
<1>2. n \in Nat /\ DOMAIN w = 1 .. n /\ \A k \in 1 .. n : IsNode(w[k])
  BY <1>1, NodesAre
<1>3. CASE format = "surge"
  <2>. DEFINE l == [i \in 1 .. n |-> SurgeLine(w[i])]
  <2>1. x = EnsureUniqueNames(l)
    <3>1. x = ToSurge(w)
      BY <1>3 DEF ExportStr
    <3>. HIDE DEF w, x, n
    <3>. QED BY <1>2, <3>1 DEF ToSurge, SurgeLine
  <2>2. l = [i \in 1 .. n |-> l[i]] /\ \A i \in 1 .. n : IsEntry(l[i]) /\ StaysPlain(l[i].name, w[i].name)
    <3>. HIDE DEF w, n
    <3>. QED BY <1>2, SurgeLineIs
  <2>. HIDE DEF l, x, w, n
  <2>3. IsListOf(l, IsEntry) /\ DOMAIN l = 1 .. n
    BY <1>2, <2>2, AreEntries
  <2>4. /\ IsListOf(x, IsEntry) /\ Distinct(x) /\ DOMAIN x = 1 .. n
        /\ \A k \in 1 .. n : StaysPlain(x[k].name, l[k].name)
    BY <2>1, <2>3, UniqueEntries
  <2>5. \A k \in 1 .. n : StaysPlain(x[k].name, w[k].name)
    BY <2>2, <2>4 DEF StaysPlain
  <2>. QED BY <1>2, <1>3, <2>4, <2>5 DEF x, w
<1>4. CASE format # "surge"
  <2>0. format \in Readable
    BY <1>4 DEF DocFormats, Readable
  <2>1. x = [i \in 1 .. n |-> To(format, w[i])]
    <3>1. CASE format = "sing-box"
      <4>1. x = [i \in DOMAIN w |-> ToSingbox(w[i])]
        BY <3>1 DEF ExportStr
      <4>. HIDE DEF x, w, n
      <4>. QED BY <1>2, <3>1, <4>1 DEF To
    <3>2. CASE format = "v2ray"
      <4>1. x = [i \in DOMAIN w |-> ToV2ray(w[i])]
        BY <3>2 DEF ExportStr
      <4>. HIDE DEF x, w, n
      <4>. QED BY <1>2, <3>2, <4>1 DEF To
    <3>3. CASE format \notin {"sing-box", "v2ray"}
      <4>1. x = [i \in DOMAIN w |-> ToClash(w[i])]
        BY <1>4, <3>3 DEF ExportStr
      <4>. HIDE DEF x, w, n
      <4>. QED BY <1>2, <3>3, <4>1 DEF To
    <3>. QED BY <3>1, <3>2, <3>3
  <2>. HIDE DEF x, w, n
  <2>2. \A k \in 1 .. n : IsEntry(x[k]) /\ x[k].name = w[k].name /\ x[k] = To(format, w[k])
    BY <1>1, <1>2, <2>0, <2>1, ToIs DEF Always
  <2>3. x = [k \in 1 .. n |-> x[k]]
    BY <2>1
  <2>4. IsListOf(x, IsEntry) /\ DOMAIN x = 1 .. n
    BY <1>2, <2>2, <2>3, AreEntries
  <2>5. Distinct(x)
    BY <1>1, <1>2, <2>2, <2>4 DEF Distinct
  <2>6. \A k \in 1 .. n : StaysPlain(x[k].name, w[k].name)
    BY <2>2 DEF StaysPlain
  <2>. QED BY <1>2, <2>0, <2>2, <2>4, <2>5, <2>6 DEF x, w
<1>. QED BY <1>3, <1>4

-----------------------------------------------------------------------------
(* Types *)

\* The empty list is a list of nodes.
LEMMA ListsOfNothing ==
  IsListOf(<<>>, IsNode)
BY DEF IsListOf

\* Tests leave the list of nodes one.
LEMMA TestsKeepNodes ==
  ASSUME IsListOf(nodes, IsNode), SpeedTest \/ GeoDetect \/ UnlockDetect
  PROVE  /\ IsListOf(nodes', IsNode) /\ Len(nodes') = Len(nodes) /\ DOMAIN nodes' = DOMAIN nodes
         /\ \A i \in DOMAIN nodes : \A k \in Always \cup Options : nodes'[i][k] = nodes[i][k]
<1>. DEFINE n == Len(nodes)
<1>1. n \in Nat /\ DOMAIN nodes = 1 .. n /\ \A i \in 1 .. n : IsNode(nodes[i]) /\ Fingerprint(nodes[i]) \in Identities
  BY NodesAre DEF Identities
<1>. HIDE DEF n
<1>2. SUFFICES /\ nodes' = [i \in 1 .. n |-> nodes'[i]]
               /\ \A i \in 1 .. n : /\ IsNode(nodes'[i])
                                    /\ \A k \in Always \cup Options : nodes'[i][k] = nodes[i][k]
  BY <1>1, AreNodes DEF n
<1>3. CASE SpeedTest
  <2>1. PICK found \in [Identities -> Verdicts] :
               nodes' = [i \in DOMAIN nodes |-> Measured(nodes[i], found[Fingerprint(nodes[i])])]
    BY <1>3 DEF SpeedTest
  <2>2. \A f \in Identities : IsVerdict(found[f])
    BY PublishAssumption
  <2>. QED BY <1>1, <2>1, <2>2, MeasuredIs
<1>4. CASE GeoDetect
  <2>1. PICK found \in [Identities -> Countries \cup {None}] :
               nodes' = [i \in DOMAIN nodes |-> [nodes[i] EXCEPT !.country = found[Fingerprint(nodes[i])]]]
    BY <1>4 DEF GeoDetect
  <2>2. ASSUME NEW p, IsNode(p), NEW c \in Countries \cup {None}, NEW q, q = [p EXCEPT !.country = c]
        PROVE  IsNode(q) /\ \A k \in Always \cup Options : q[k] = p[k]
    BY <2>2, FieldsApart DEF IsNode, Always, Options
  <2>3. nodes' = [i \in 1 .. n |-> [nodes[i] EXCEPT !.country = found[Fingerprint(nodes[i])]]]
    BY <1>1, <2>1
  <2>4. ASSUME NEW i \in 1 .. n
        PROVE  /\ nodes'[i] = [nodes[i] EXCEPT !.country = found[Fingerprint(nodes[i])]]
               /\ found[Fingerprint(nodes[i])] \in Countries \cup {None} /\ IsNode(nodes[i])
    BY <1>1, <2>3
  <2>5. ASSUME NEW i \in 1 .. n
        PROVE  IsNode(nodes'[i]) /\ \A k \in Always \cup Options : nodes'[i][k] = nodes[i][k]
    <3>. DEFINE p == nodes[i]
                q == nodes'[i]
                c == found[Fingerprint(nodes[i])]
    <3>1. IsNode(p) /\ c \in Countries \cup {None} /\ q = [p EXCEPT !.country = c]
      BY <2>4
    <3>. HIDE DEF p, q, c
    <3>2. IsNode(q) /\ \A k \in Always \cup Options : q[k] = p[k]
      BY <2>2, <3>1
    <3>. QED BY <3>2 DEF p, q
  <2>6. nodes' = [i \in 1 .. n |-> nodes'[i]]
    BY <2>3
  <2>. QED BY <2>5, <2>6
<1>5. CASE UnlockDetect
  <2>1. PICK found \in [Identities -> Unlocks] :
               nodes' = [i \in DOMAIN nodes |-> [nodes[i] EXCEPT !.unlocked = found[Fingerprint(nodes[i])]]]
    BY <1>5 DEF UnlockDetect
  <2>2. ASSUME NEW p, IsNode(p), NEW c \in Nat, NEW q, q = [p EXCEPT !.unlocked = c]
        PROVE  IsNode(q) /\ \A k \in Always \cup Options : q[k] = p[k]
    BY <2>2, FieldsApart DEF IsNode, Always, Options
  <2>3. \A f \in Identities : found[f] \in Nat
    BY PublishAssumption
  <2>. QED BY <1>1, <2>1, <2>2, <2>3
<1>. QED BY <1>3, <1>4, <1>5

\* The type invariant holds at the start.
LEMMA InitType == Init => TypeOK
<1>. SUFFICES ASSUME Init PROVE TypeOK
  OBVIOUS
<1>1. 0 \in 0 .. MaxHops /\ 0 \in 0 .. MaxRuns
  BY PublishAssumption
<1>. QED BY <1>1, ListsOfNothing DEF Init, TypeOK

\* Every step keeps the type invariant.
LEMMA NextType ==
  ASSUME NumbersAreWords, TypeOK, [Next]_vars
  PROVE  TypeOK'
<1>1. ASSUME NEW d \in Sources, Fetch(d) PROVE TypeOK'
  <2>1. d.format \in DocFormats /\ IsListOf(d.entries, IsEntry)
    BY PublishAssumption
  <2>2. IsListOf(nodes', IsNode)
    BY <1>1, <2>1, ParseIs DEF Fetch
  <2>3. via' \in DocFormats \cup {"foreign", None}
    BY <1>1 DEF Fetch
  <2>. QED BY <1>1, <2>2, <2>3 DEF Fetch, TypeOK
<1>2. ASSUME SpeedTest \/ GeoDetect \/ UnlockDetect PROVE TypeOK'
  <2>1. IsListOf(nodes', IsNode)
    BY <1>2, TestsKeepNodes DEF TypeOK
  <2>2. MeasuringRun
    BY <1>2 DEF SpeedTest, GeoDetect, UnlockDetect
  <2>3. runs' \in 0 .. MaxRuns
    BY <2>2, PublishAssumption DEF MeasuringRun, TypeOK
  <2>. QED BY <2>1, <2>2, <2>3 DEF MeasuringRun, TypeOK
<1>3. ASSUME NEW r \in Requests, Answer(r) PROVE TypeOK'
  <2>. DEFINE s == Selected(r)
              x == ExportStr(s, r.format)
              c == Len(ExportFilter(s))
  <2>1. IsListOf(s, IsNode)
    BY SelectedIs DEF TypeOK, Drawn
  <2>2. r.format \in DocFormats /\ r.format # "links"
    BY RequestIs
  <2>. HIDE DEF s
  <2>3. IsListOf(x, IsEntry)
    BY <2>1, <2>2, ExportIs
  <2>4. c \in Nat
    <3>1. Usable(s) \in SUBSET (1 .. Len(s)) /\ Len(s) \in Nat
      BY <2>1, NodesAre DEF Usable
    <3>. QED BY <2>1, <3>1, WrittenIs, AtLists
  <2>5. /\ sent' = s /\ asked' = r /\ doc' = [format |-> r.format, entries |-> x, count |-> c]
        /\ UNCHANGED <<nodes, via, hops, runs>>
    BY <1>3 DEF Answer, s
  <2>. HIDE DEF x, c
  <2>6. /\ doc'.entries = x /\ doc'.count = c
        /\ doc' = [format |-> asked'.format, entries |-> doc'.entries, count |-> doc'.count]
    BY <2>5
  <2>7. asked' # None
    BY <2>5, PublishAssumption
  <2>8. hops < MaxHops
    BY <1>3 DEF Answer
  <2>. QED BY <2>1, <2>3, <2>4, <2>5, <2>6, <2>7, <2>8 DEF TypeOK
<1>4. ASSUME ReadBack PROVE TypeOK'
  <2>1. asked \in Requests /\ doc.format = asked.format /\ IsListOf(doc.entries, IsEntry)
    BY <1>4 DEF ReadBack, TypeOK
  <2>2. doc.format \in DocFormats
    BY <2>1, RequestIs
  <2>3. IsListOf(nodes', IsNode)
    BY <1>4, <2>1, <2>2, ParseIs DEF ReadBack
  <2>4. hops' \in 0 .. MaxHops
    BY <1>4, PublishAssumption DEF ReadBack, TypeOK
  <2>. QED BY <1>4, <2>2, <2>3, <2>4, ListsOfNothing DEF ReadBack, TypeOK
<1>5. CASE UNCHANGED vars
  BY <1>5 DEF vars, TypeOK
<1>. QED BY <1>1, <1>2, <1>3, <1>4, <1>5 DEF Next

\* Every node a hub holds, sends or writes down is one the rest of the pipeline
\* is defined on, however it was read, measured and renamed.
THEOREM TypeCorrect == ASSUME NumbersAreWords PROVE Spec => []TypeOK
<1>. QED BY InitType, NextType, PTL DEF Spec

-----------------------------------------------------------------------------
(* The document that is out answers the request. *)

Answered ==
    doc # None =>
        /\ via # None
        /\ sent = Selected(asked)
        /\ doc = [format |-> asked.format, entries |-> ExportStr(sent, asked.format),
                  count |-> Len(ExportFilter(sent))]

\* Every step keeps what is remembered of an answer true.
LEMMA NextAnswered ==
  ASSUME TypeOK, Answered, [Next]_vars
  PROVE  Answered'
<1>1. ASSUME NEW d \in Sources, Fetch(d) PROVE Answered'
  BY <1>1 DEF Fetch, Answered
<1>2. ASSUME SpeedTest \/ GeoDetect \/ UnlockDetect PROVE Answered'
  <2>1. MeasuringRun
    BY <1>2 DEF SpeedTest, GeoDetect, UnlockDetect
  <2>. QED BY <2>1 DEF MeasuringRun, Answered
<1>3. ASSUME NEW r \in Requests, Answer(r) PROVE Answered'
  <2>1. /\ sent' = Selected(r) /\ asked' = r /\ nodes' = nodes /\ via' = via /\ via # None
        /\ doc' = [format |-> r.format, entries |-> ExportStr(sent', r.format),
                    count |-> Len(ExportFilter(sent'))]
    BY <1>3 DEF Answer
  <2>2. Selected(asked)' = Selected(r)
    BY <2>1 DEF Selected
  <2>. QED BY <2>1, <2>2 DEF Answered
<1>4. ASSUME ReadBack PROVE Answered'
  BY <1>4 DEF ReadBack, Answered
<1>5. CASE UNCHANGED vars
  <2>1. Selected(asked)' = Selected(asked)
    BY <1>5 DEF vars, Selected
  <2>. QED BY <1>5, <2>1 DEF vars, Answered
<1>. QED BY <1>1, <1>2, <1>3, <1>4, <1>5 DEF Next

\* A document is always what the exporter makes of what was selected.
LEMMA AlwaysAnswered == ASSUME NumbersAreWords PROVE Spec => [](TypeOK /\ Answered)
<1>1. Init => Answered
  BY DEF Init, Answered
<1>. QED BY <1>1, NextAnswered, TypeCorrect, PTL DEF Spec

\* No document names two nodes alike: in every format the exporters leave no
\* two names equal, for any number of nodes under any names, and Surge's
\* second pass undoes what its safe names made equal.
THEOREM UniqueInDocuments == ASSUME NumbersAreWords PROVE Spec => []NamesDistinct
<1>1. ASSUME TypeOK, Answered PROVE NamesDistinct
  <2>. SUFFICES ASSUME doc # None PROVE Distinct(doc.entries)
    BY DEF NamesDistinct, Distinct
  <2>1. asked \in Requests /\ IsListOf(sent, IsNode) /\ doc.entries = ExportStr(sent, asked.format)
    BY <1>1 DEF TypeOK, Answered
  <2>2. asked.format \in DocFormats /\ asked.format # "links"
    BY <2>1, RequestIs
  <2>. QED BY <2>1, <2>2, ExportIs
<1>. QED BY <1>1, AlwaysAnswered, PTL

\* The best N of an export are the first N of the list sorted by score, for
\* every list of nodes and whatever was measured of them.
THEOREM RankingsNeverDisagree == ASSUME NumbersAreWords PROVE Spec => []ScoreAgrees
<1>1. ASSUME TypeOK PROVE ScoreAgrees
  <2>. DEFINE all == MergeRefs(nodes)
              S == {all[i] : i \in DOMAIN all}
              byScore == [filters |-> <<>>, minBandwidth |-> None, maxLatency |-> None,
                          rename |-> None, sort |-> [key |-> "score", desc |-> TRUE]]
  <2>1. all \in Seq(S) /\ \A i \in DOMAIN all : IsNode(all[i])
    <3>1. Drawn(all, nodes)
      <4>1. Firsts(nodes) \in SUBSET DOMAIN nodes /\ all = At(nodes, Firsts(nodes))
        BY DEF Firsts, MergeRefs
      <4>. QED BY <1>1, <4>1, PartDrawn DEF TypeOK
    <3>. QED BY <3>1, NodesAre DEF Drawn
  <2>2. Apply(all, byScore) = Sorted(all, byScore.sort)
    <3>1. byScore = SortByScore
      BY DEF SortByScore
    <3>. HIDE DEF all, byScore, S
    <3>. QED BY <2>1, <3>1, PublishAssumption, ApplySortByScore
  <2>3. byScore.sort.key = "score" /\ byScore.sort.desc = TRUE
    OBVIOUS
  <2>4. BestFirst(Select(all, IsUsable)) = Select(Apply(all, byScore), IsUsable)
    <3>. HIDE DEF all, byScore, S
    <3>. QED BY <2>1, <2>2, <2>3, RankingsAgree
  <2>. QED BY <2>4 DEF ScoreAgrees, TopNByScore
<1>. QED BY <1>1, TypeCorrect, PTL

\* What identifies a node is among its options.
LEMMA TextsAreOptions ==
  ASSUME NEW p
  PROVE  IdentifyingTexts(p) \subseteq Options /\ IdentifyingExtras(p) \subseteq Options
<1>1. IdentifyingTexts(p) \subseteq Options
  <2>1. CASE p.type \in {"vmess", "vless", "tuic"}
    BY <2>1 DEF IdentifyingTexts, Options
  <2>2. CASE p.type \in {"ss", "hysteria2"}
    BY <2>2 DEF IdentifyingTexts, Options
  <2>3. CASE p.type \in {"trojan", "socks5", "http", "anytls"}
    BY <2>3 DEF IdentifyingTexts, Options
  <2>4. CASE p.type \notin {"vmess", "vless", "tuic", "ss", "hysteria2", "trojan", "socks5", "http", "anytls"}
    BY <2>4 DEF IdentifyingTexts, Options
  <2>. QED BY <2>1, <2>2, <2>3, <2>4
<1>2. IdentifyingExtras(p) \subseteq Options
  BY DEF IdentifyingExtras, Options
<1>. QED BY <1>1, <1>2

\* A fingerprint tells nothing of what was measured.
LEMMA FingerprintIsOptions ==
  ASSUME NEW p, NEW q, \A k \in Always \cup Options : q[k] = p[k]
  PROVE  Fingerprint(q) = Fingerprint(p)
<1>1. q.type = p.type /\ q.server = p.server /\ q.port = p.port /\ q.name = p.name
  BY DEF Always
<1>2. q.reality = p.reality /\ q.aid = p.aid /\ q.method = p.method /\ q.cipher = p.cipher
  BY DEF Options
<1>3. IdentifyingTexts(q) = IdentifyingTexts(p) /\ IdentifyingExtras(q) = IdentifyingExtras(p)
  BY <1>1, <1>2 DEF IdentifyingTexts, IdentifyingExtras
<1>4. [k \in IdentifyingTexts(q) |-> Or(q[k], "")] = [k \in IdentifyingTexts(p) |-> Or(p[k], "")]
  BY <1>3, TextsAreOptions
<1>5. [k \in IdentifyingExtras(q) |-> q[k]] = [k \in IdentifyingExtras(p) |-> p[k]]
  BY <1>3, TextsAreOptions
<1>6. SsMethod(q) = SsMethod(p)
  BY <1>2 DEF SsMethod
<1>. QED BY <1>1, <1>2, <1>4, <1>5, <1>6 DEF Fingerprint

-----------------------------------------------------------------------------
(* Nodes with one fingerprint *)

\* Nodes of one fingerprint have the same results: those of either.
Twins(s) ==
    \A i, j \in DOMAIN s : Fingerprint(s[i]) = Fingerprint(s[j]) =>
        \A k \in DOMAIN Untested : s[i][k] = s[j][k]

\* Of nodes nothing has been measured of, those with one fingerprint are twins.
LEMMA FreshTwins ==
  ASSUME NEW s, Fresh(s)
  PROVE  Twins(s)
BY DEF Fresh, Twins

\* A run gives twins one result.
LEMMA TestsKeepTwins ==
  ASSUME IsListOf(nodes, IsNode), Twins(nodes), SpeedTest \/ GeoDetect \/ UnlockDetect
  PROVE  Twins(nodes')
<1>. DEFINE n == Len(nodes)
<1>1. DOMAIN nodes = 1 .. n /\ \A i \in 1 .. n : IsNode(nodes[i]) /\ Fingerprint(nodes[i]) \in Identities
  BY NodesAre DEF Identities
<1>2. /\ DOMAIN nodes' = 1 .. n
      /\ \A i \in 1 .. n : \A k \in Always \cup Options : nodes'[i][k] = nodes[i][k]
  BY <1>1, TestsKeepNodes
<1>3. \A i \in 1 .. n : Fingerprint(nodes'[i]) = Fingerprint(nodes[i])
  BY <1>2, FingerprintIsOptions
<1>. HIDE DEF n
<1>4. SUFFICES ASSUME NEW i \in 1 .. n, NEW j \in 1 .. n, Fingerprint(nodes[i]) = Fingerprint(nodes[j])
               PROVE  \A k \in DOMAIN Untested : nodes'[i][k] = nodes'[j][k]
  BY <1>2, <1>3 DEF Twins
<1>5. \A k \in DOMAIN Untested : nodes[i][k] = nodes[j][k]
  BY <1>1, <1>4 DEF Twins
<1>6. CASE SpeedTest
  <2>1. PICK found \in [Identities -> Verdicts] :
               nodes' = [l \in DOMAIN nodes |-> Measured(nodes[l], found[Fingerprint(nodes[l])])]
    BY <1>6 DEF SpeedTest
  <2>. DEFINE v == found[Fingerprint(nodes[i])]
  <2>2. nodes'[i] = Measured(nodes[i], v) /\ nodes'[j] = Measured(nodes[j], v)
    BY <1>1, <1>4, <2>1
  <2>. HIDE DEF v
  <2>3. \A k \in DOMAIN Untested : k \in Fields
    BY FieldsApart
  <2>. QED BY <1>5, <2>2, <2>3 DEF Measured
<1>7. CASE GeoDetect
  <2>1. PICK found \in [Identities -> Countries \cup {None}] :
               nodes' = [l \in DOMAIN nodes |-> [nodes[l] EXCEPT !.country = found[Fingerprint(nodes[l])]]]
    BY <1>7 DEF GeoDetect
  <2>. DEFINE v == found[Fingerprint(nodes[i])]
  <2>2. nodes'[i] = [nodes[i] EXCEPT !.country = v] /\ nodes'[j] = [nodes[j] EXCEPT !.country = v]
    BY <1>1, <1>4, <2>1
  <2>. HIDE DEF v
  <2>3. DOMAIN nodes[i] = Fields /\ DOMAIN nodes[j] = Fields
    BY <1>1 DEF IsNode
  <2>. QED BY <1>5, <2>2, <2>3, FieldsApart
<1>8. CASE UnlockDetect
  <2>1. PICK found \in [Identities -> Unlocks] :
               nodes' = [l \in DOMAIN nodes |-> [nodes[l] EXCEPT !.unlocked = found[Fingerprint(nodes[l])]]]
    BY <1>8 DEF UnlockDetect
  <2>. DEFINE v == found[Fingerprint(nodes[i])]
  <2>2. nodes'[i] = [nodes[i] EXCEPT !.unlocked = v] /\ nodes'[j] = [nodes[j] EXCEPT !.unlocked = v]
    BY <1>1, <1>4, <2>1
  <2>. HIDE DEF v
  <2>3. DOMAIN nodes[i] = Fields /\ DOMAIN nodes[j] = Fields
    BY <1>1 DEF IsNode
  <2>. QED BY <1>5, <2>2, <2>3, FieldsApart
<1>. QED BY <1>6, <1>7, <1>8

\* Nodes with one fingerprint were always measured alike.
LEMMA AlwaysTwins == ASSUME NumbersAreWords PROVE Spec => []Twins(nodes)
<1>1. Init => Twins(nodes)
  BY DEF Init, Twins
<1>2. ASSUME TypeOK, Twins(nodes), [Next]_vars PROVE Twins(nodes)'
  <2>1. ASSUME NEW d \in Sources, Fetch(d) PROVE Twins(nodes')
    <3>1. d.format \in DocFormats /\ IsListOf(d.entries, IsEntry)
      BY PublishAssumption
    <3>2. Fresh(nodes')
      BY <2>1, <3>1, ParseIs DEF Fetch
    <3>. QED BY <3>2, FreshTwins
  <2>2. ASSUME SpeedTest \/ GeoDetect \/ UnlockDetect PROVE Twins(nodes')
    BY <1>2, <2>2, TestsKeepTwins DEF TypeOK
  <2>3. ASSUME NEW r \in Requests, Answer(r) PROVE Twins(nodes')
    BY <1>2, <2>3 DEF Answer
  <2>4. ASSUME ReadBack PROVE Twins(nodes')
    <3>1. asked \in Requests /\ doc.format = asked.format /\ IsListOf(doc.entries, IsEntry)
      BY <1>2, <2>4 DEF ReadBack, TypeOK
    <3>2. doc.format \in DocFormats
      BY <3>1, RequestIs
    <3>3. Fresh(nodes')
      BY <2>4, <3>1, <3>2, ParseIs DEF ReadBack
    <3>. QED BY <3>3, FreshTwins
  <2>5. CASE UNCHANGED vars
    BY <1>2, <2>5 DEF vars
  <2>. QED BY <1>2, <2>1, <2>2, <2>3, <2>4, <2>5 DEF Next
<1>. QED BY <1>1, <1>2, TypeCorrect, PTL DEF Spec

\* What two nodes of one fingerprint have in common.
LEMMA FingerprintTells ==
  ASSUME NEW p, NEW q, Fingerprint(p) = Fingerprint(q)
  PROVE  /\ p.type = q.type /\ p.server = q.server /\ p.port = q.port /\ p.name = q.name
         /\ IdentifyingTexts(p) = IdentifyingTexts(q)
         /\ \A k \in IdentifyingTexts(p) : Or(p[k], "") = Or(q[k], "")
         /\ p.type = "ss" => Or(SsMethod(p), "") = Or(SsMethod(q), "")
<1>. DEFINE f == [k \in IdentifyingTexts(p) |-> Or(p[k], "")]
            g == [k \in IdentifyingTexts(q) |-> Or(q[k], "")]
<1>1. /\ Fingerprint(p).type = p.type /\ Fingerprint(p).server = p.server
      /\ Fingerprint(p).port = p.port /\ Fingerprint(p).name = p.name
      /\ Fingerprint(p).texts = f
      /\ Fingerprint(p).method = IF p.type = "ss" THEN Or(SsMethod(p), "") ELSE ""
  BY DEF Fingerprint
<1>2. /\ Fingerprint(q).type = q.type /\ Fingerprint(q).server = q.server
      /\ Fingerprint(q).port = q.port /\ Fingerprint(q).name = q.name
      /\ Fingerprint(q).texts = g
      /\ Fingerprint(q).method = IF q.type = "ss" THEN Or(SsMethod(q), "") ELSE ""
  BY DEF Fingerprint
<1>3. f = g
  BY <1>1, <1>2
<1>4. DOMAIN f = IdentifyingTexts(p) /\ \A k \in IdentifyingTexts(p) : f[k] = Or(p[k], "")
  OBVIOUS
<1>5. DOMAIN g = IdentifyingTexts(q) /\ \A k \in IdentifyingTexts(q) : g[k] = Or(q[k], "")
  OBVIOUS
<1>. HIDE DEF f, g
<1>6. /\ IdentifyingTexts(p) = IdentifyingTexts(q)
      /\ \A k \in IdentifyingTexts(p) : Or(p[k], "") = Or(q[k], "")
  BY <1>3, <1>4, <1>5
<1>7. p.type = "ss" => Or(SsMethod(p), "") = Or(SsMethod(q), "")
  BY <1>1, <1>2
<1>. QED BY <1>1, <1>2, <1>6, <1>7

\* An ss node has no two methods, whichever option is asked for it first.
OneMethod(p) == p.type = "ss" => Or(p.cipher, p.method) = Or(p.method, p.cipher)

\* A tuic node also has its password, without which it has the same fingerprint
\* and cannot be exported.
Whole(p) == OneMethod(p) /\ (p.type = "tuic" => Given(p.password))

\* Of two whole nodes with one fingerprint both can be exported, or neither.
LEMMA TwinsExportable ==
  ASSUME NEW p, Whole(p), NEW q, Whole(q), Fingerprint(p) = Fingerprint(q), IsExportable(p)
  PROVE  IsExportable(q)
<1>1. /\ p.type = q.type
      /\ \A k \in IdentifyingTexts(p) : Or(p[k], "") = Or(q[k], "")
      /\ p.type = "ss" => Or(SsMethod(p), "") = Or(SsMethod(q), "")
  BY FingerprintTells
<1>2. \A k \in IdentifyingTexts(p) : Given(p[k]) <=> Given(q[k])
  BY <1>1 DEF Given, Or
<1>3. CASE p.type = "ss"
  <2>1. Given(p.password) <=> Given(q.password)
    BY <1>2, <1>3 DEF IdentifyingTexts
  <2>2. Given(SsMethod(p)) <=> Given(SsMethod(q))
    BY <1>1, <1>3 DEF Given, Or
  <2>3. ASSUME NEW r, Whole(r), r.type = "ss"
        PROVE  Given(SsMethod(r)) <=> Given(r.cipher) \/ Given(r.method)
    BY <2>3 DEF Whole, OneMethod, SsMethod, Given, Or
  <2>. QED BY <1>1, <1>3, <2>1, <2>2, <2>3 DEF IsExportable
<1>4. CASE p.type \in {"trojan", "anytls", "hysteria2"}
  <2>1. Given(p.password) <=> Given(q.password)
    BY <1>2, <1>4 DEF IdentifyingTexts
  <2>. QED BY <1>1, <1>4, <2>1 DEF IsExportable
<1>5. CASE p.type \in {"vmess", "tuic"}
  <2>1. Given(p.uuid) <=> Given(q.uuid)
    BY <1>2, <1>5 DEF IdentifyingTexts
  <2>. QED BY <1>1, <1>5, <2>1 DEF IsExportable, Whole
<1>6. CASE p.type = "vless"
  <2>1. Given(p.uuid) <=> Given(q.uuid)
    BY <1>2, <1>6 DEF IdentifyingTexts
  <2>2. Or(p.reality, "") = Or(q.reality, "")
    BY <1>1, <1>6 DEF IdentifyingTexts
  <2>3. p.reality = "true" <=> q.reality = "true"
    BY <2>2, WordsAre DEF Or, Words
  <2>4. p.reality = "true" => (Given(p.pbk) <=> Given(q.pbk))
    BY <1>2, <1>6 DEF IdentifyingTexts
  <2>. QED BY <1>1, <1>6, <2>1, <2>3, <2>4 DEF IsExportable
<1>7. CASE p.type \in {"socks5", "http"}
  BY <1>1, <1>7 DEF IsExportable
<1>. QED BY <1>3, <1>4, <1>5, <1>6, <1>7 DEF IsExportable

\* Nodes of one fingerprint with the same results pass together.
LEMMA TwinsPass ==
  ASSUME NEW p, NEW q, p.type = q.type, p.server = q.server, p.name = q.name,
         \A k \in DOMAIN Untested : p[k] = q[k], NEW t
  PROVE  Passes(p, t) <=> Passes(q, t)
<1>1. p.country = q.country /\ p.speed = q.speed /\ p.latency = q.latency
  BY FieldsApart
<1>2. Region(p) = Region(q)
  BY DEF Region
<1>3. \A field : FieldVal(p, field) = FieldVal(q, field)
  BY <1>1, <1>2 DEF FieldVal, EffectiveRegion, Or
<1>4. \A rule : Keep(p, rule) <=> Keep(q, rule)
  BY <1>3 DEF Keep
<1>5. GoodEnough(p, t) <=> GoodEnough(q, t)
  BY <1>1 DEF GoodEnough
<1>. QED BY <1>4, <1>5 DEF Passes

-----------------------------------------------------------------------------
(* Counting *)

\* Those of a list that a request lets through, found in a part of it.
LEMMA ThroughPart ==
  ASSUME NEW s, IsListOf(s, IsNode), NEW I \in SUBSET DOMAIN s, NEW r
  PROVE  Cardinality(Through(At(s, I), r)) = Cardinality(I \cap Through(s, r))
<1>. DEFINE m == Len(s)
            n == Cardinality(I)
            t == At(s, I)
            V == Through(t, r)
<1>1. m \in Nat /\ DOMAIN s = 1 .. m
  BY NodesAre
<1>2. I \in SUBSET (1 .. m)
  BY <1>1
<1>. HIDE DEF m
<1>3. IsFiniteSet(I) /\ Linear(I, Less(m)) /\ n \in Nat
  BY <1>1, <1>2, AtLists
<1>4. PICK e : Lists(e, I, Less(m)) /\ t = Along(s, e, n)
  BY <1>1, <1>2, AtLists
<1>. HIDE DEF t, n
<1>5. DOMAIN t = 1 .. n /\ \A k \in 1 .. n : t[k] = s[e[k]]
  BY <1>4 DEF Along
<1>6. /\ \A k \in 1 .. n : e[k] \in I /\ e[k] \in 1 .. m
      /\ \A i \in I : \E k \in 1 .. n : e[k] = i
  BY <1>2, <1>4 DEF Lists, n
<1>7. V \in SUBSET (1 .. n)
  BY <1>5 DEF Through, Usable
<1>8. {e[k] : k \in V} = I \cap Through(s, r)
  <2>1. \A k \in 1 .. n : k \in V <=> e[k] \in Through(s, r)
    BY <1>1, <1>5, <1>6 DEF Through, Usable
  <2>. HIDE DEF V
  <2>2. \A k \in V : e[k] \in I \cap Through(s, r)
    BY <1>6, <1>7, <2>1
  <2>3. \A i \in I \cap Through(s, r) : \E k \in V : e[k] = i
    BY <1>6, <2>1
  <2>. QED BY <2>2, <2>3
<1>9. Cardinality({e[k] : k \in V}) = Cardinality(V)
  <2>1. V \in SUBSET (1 .. Cardinality(I))
    BY <1>7 DEF n
  <2>. HIDE DEF V
  <2>. QED BY <1>3, <1>4, <2>1, ListImage
<1>. QED BY <1>8, <1>9 DEF t

\* Of the nodes a request lets through there is one of each fingerprint among
\* the first.
LEMMA WantedAreFirst ==
  ASSUME IsListOf(nodes, IsNode), Twins(nodes), \A i \in DOMAIN nodes : Whole(nodes[i]), NEW r
  PROVE  Cardinality(Firsts(nodes) \cap Through(nodes, r)) = Cardinality(Wanted(r))
<1>. DEFINE n == Len(nodes)
            F == Firsts(nodes) \cap Through(nodes, r)
            W == Wanted(r)
            f == [i \in F |-> Fingerprint(nodes[i])]
<1>1. n \in Nat /\ DOMAIN nodes = 1 .. n
  BY NodesAre
<1>. HIDE DEF n
<1>2. F \in SUBSET (1 .. n) /\ IsFiniteSet(F)
  <2>1. F \in SUBSET (1 .. n)
    BY <1>1 DEF Firsts
  <2>. HIDE DEF F
  <2>. QED BY <1>1, <2>1, AtLists
<1>3. \A i \in DOMAIN nodes :
         i \in Through(nodes, r) <=> IsUsable(nodes[i]) /\ (r.t # None => Passes(nodes[i], r.t))
  BY DEF Through, Usable
<1>4. W = {Fingerprint(nodes[i]) : i \in Through(nodes, r)}
  <2>1. Through(nodes, r) = {i \in DOMAIN nodes : IsUsable(nodes[i]) /\ (r.t # None => Passes(nodes[i], r.t))}
    BY DEF Through, Usable
  <2>. QED BY <2>1 DEF Wanted
<1>5. f \in [F -> W]
  BY <1>4
<1>6. ASSUME NEW i \in F, NEW j \in F, f[i] = f[j] PROVE i = j
  <2>1. i \in Int /\ j \in Int /\ i >= 1 /\ j >= 1
    BY <1>2
  <2>2. ~(i < j)
    <3>. SUFFICES ASSUME i < j PROVE FALSE
      OBVIOUS
    <3>1. i \in 1 .. j - 1
      BY <2>1
    <3>. QED BY <1>6, <3>1 DEF Firsts
  <2>3. ~(j < i)
    <3>. SUFFICES ASSUME j < i PROVE FALSE
      OBVIOUS
    <3>1. j \in 1 .. i - 1
      BY <2>1
    <3>. QED BY <1>6, <3>1 DEF Firsts
  <2>. QED BY <2>1, <2>2, <2>3
<1>7. ASSUME NEW w \in W PROVE \E i \in F : f[i] = w
  <2>1. PICK j \in Through(nodes, r) : w = Fingerprint(nodes[j])
    BY <1>4
  <2>2. j \in 1 .. n
    BY <1>1 DEF Through, Usable
  <2>. DEFINE S == {i \in 1 .. n : Fingerprint(nodes[i]) = w}
  <2>3. PICK i \in S : \A k \in S : i <= k
    <3>1. S \in SUBSET Nat /\ S # {}
      BY <2>1, <2>2
    <3>. HIDE DEF S
    <3>. QED BY <3>1, Least
  <2>4. i \in 1 .. n /\ Fingerprint(nodes[i]) = Fingerprint(nodes[j])
    BY <2>1, <2>3
  <2>5. i \in Firsts(nodes)
    <3>1. ASSUME NEW k \in 1 .. i - 1 PROVE Fingerprint(nodes[k]) # Fingerprint(nodes[i])
      <4>1. k \in 1 .. n /\ ~(i <= k)
        BY <1>1, <2>4
      <4>. QED BY <2>3, <4>1
    <3>. QED BY <1>1, <2>4, <3>1 DEF Firsts
  <2>6. i \in Through(nodes, r)
    <3>1. IsUsable(nodes[j]) /\ (r.t # None => Passes(nodes[j], r.t))
      BY <1>1, <1>3, <2>1, <2>2
    <3>2. \A k \in DOMAIN Untested : nodes[i][k] = nodes[j][k]
      BY <1>1, <2>2, <2>4 DEF Twins
    <3>3. IsExportable(nodes[i])
      BY <1>1, <2>2, <2>4, <3>1, TwinsExportable DEF IsUsable
    <3>4. nodes[i].available = nodes[j].available
      BY <3>2, FieldsApart
    <3>5. r.t # None => Passes(nodes[i], r.t)
      <4>. DEFINE p == nodes[i]
                  q == nodes[j]
      <4>1. Fingerprint(p) = Fingerprint(q)
        BY <2>4
      <4>2. \A k \in DOMAIN Untested : p[k] = q[k]
        BY <3>2
      <4>3. r.t # None => Passes(q, r.t)
        BY <3>1
      <4>. HIDE DEF p, q
      <4>4. p.type = q.type /\ p.server = q.server /\ p.name = q.name
        BY <4>1, FingerprintTells
      <4>5. Passes(p, r.t) <=> Passes(q, r.t)
        BY <4>2, <4>4, TwinsPass
      <4>6. r.t # None => Passes(p, r.t)
        BY <4>3, <4>5
      <4>. QED BY <4>6 DEF p
    <3>. QED BY <1>1, <1>3, <2>4, <3>1, <3>3, <3>4, <3>5 DEF IsUsable
  <2>. QED BY <2>1, <2>4, <2>5, <2>6
<1>. HIDE DEF f, F, W
<1>8. f \in Bijection(F, W)
  BY <1>5, <1>6, <1>7, Fun_IsBij
<1>9. ExistsBijection(F, W)
  BY <1>8 DEF ExistsBijection
<1>10. Cardinality(W) = Cardinality(F)
  BY <1>2, <1>9, FS_Bijection
<1>. QED BY <1>10 DEF F, W

-----------------------------------------------------------------------------
(* What the parsers read of what the exporters wrote *)

\* A text that is there, as insert_opt writes it and a parser finds it.
Fill(v) == IF Given(v) THEN v ELSE None

\* What the reader of a document finds of a node p, option by option.
ClashReads(p, q) ==
    /\ q.type = (IF p.type = "anytls" THEN "other" ELSE p.type)
    /\ q.server = p.server /\ q.port = p.port
    /\ \A k \in Options : k # "tls" =>
          q[k] = IF k \in ClashKeys(p) /\ k # "user" THEN Fill(ClashDefaults(p)[k]) ELSE None
    /\ q.tls = IF q.reality = "true" THEN "true"
               ELSE IF "tls" \in ClashKeys(p) THEN Fill(ClashDefaults(p).tls) ELSE None

SingboxReads(p, q) ==
    /\ q.type = (IF p.type = "http" THEN "other" ELSE p.type)
    /\ q.server = p.server /\ q.port = p.port
    /\ \A k \in Options : k # "tls" =>
          q[k] = IF k \in SingboxKeys(p) /\ k # "cipher" /\ k # "aid" THEN SingboxDefaults(p)[k] ELSE None
    /\ q.tls = IF q.reality = "true" THEN "true"
               ELSE IF "tls" \in SingboxKeys(p) THEN Or(SingboxDefaults(p).tls, "false") ELSE "false"

V2rayFinds(p, k) == IF k \in V2rayKeys(p) THEN V2rayDefaults(p)[k] ELSE None

V2rayReads(p, q) ==
    /\ q.type = p.type /\ q.server = p.server /\ q.port = p.port
    /\ \A k \in Options : k \notin {"tls", "uuid", "flow"} => q[k] = V2rayFinds(p, k)
    /\ q.tls = IF q.reality = "true" THEN "true" ELSE V2rayFinds(p, "tls")
    /\ q.uuid = Or(V2rayFinds(p, "uuid"), V2rayFinds(p, "password"))
    /\ q.flow = IF p.type = "vless" /\ V2rayFinds(p, "flow") = "" THEN None ELSE V2rayFinds(p, "flow")

\* What parse_clash reads of what the clash exporter wrote.
LEMMA ReadsClash ==
  ASSUME NEW p, IsNode(p), p.type \in DOMAIN ClashOptions
  PROVE  ClashReads(p, FromClash(ToClash(p)))
<1>. DEFINE K == ClashKeys(p)
            d == ClashDefaults(p)
            e == ToClash(p)
            n == NodeOf(e, Options \ {"user"})
            a == IF n.type = "anytls" THEN "other" ELSE n.type
            q == FromClash(e)
<1>1. /\ IsEntry(e) /\ \A k \in Always : e[k] = p[k]
      /\ \A k : k \in DOMAIN e <=> k \in Always \/ (k \in K /\ Given(d[k]))
      /\ \A k \in K : Given(d[k]) => e[k] = d[k]
  <2>1. K \subseteq Options /\ \A k \in K : d[k] \in Texts
    BY ClashKeysAre, ClashDefaultsAre
  <2>2. e = Entry(p, Filled(d, K))
    BY DEF ToClash, ClashKeys
  <2>. HIDE DEF e, d, K
  <2>. QED BY <2>1, <2>2, FilledIs
<1>. HIDE DEF K, d, e
<1>2. /\ IsNode(n) /\ \A k \in Always : n[k] = e[k]
      /\ \A k \in Options : n[k] = IF k \in (Options \ {"user"}) \cap DOMAIN e THEN e[k] ELSE None
  BY <1>1, NodeOfIs
<1>3. q = IF n.reality = "true" THEN [n EXCEPT !.type = a, !.tls = "true"] ELSE [n EXCEPT !.type = a]
  BY <1>2, FieldsApart DEF FromClash, Options, Always, IsNode
<1>. HIDE DEF n, q
<1>4. \A k \in Options : n[k] = IF k \in K /\ k # "user" THEN Fill(d[k]) ELSE None
  BY <1>1, <1>2, FieldsApart DEF Fill
<1>5. "tls" \in Options /\ "reality" \in Options /\ "tls" # "user" /\ "type" \notin Options
  BY FieldsApart DEF Options, Always
<1>6. n.type = p.type /\ n.server = p.server /\ n.port = p.port
  BY <1>1, <1>2 DEF Always
<1>7. n = [k \in Fields |-> n[k]] /\ "type" \in Fields /\ "tls" \in Fields
  BY <1>2, FieldsApart DEF Always, Options, IsNode
<1>8. \A k \in Options : k # "tls" => q[k] = n[k]
  BY <1>3, <1>5, <1>7, FieldsApart
<1>9. /\ q.type = a /\ q.server = n.server /\ q.port = n.port
      /\ q.tls = IF n.reality = "true" THEN "true" ELSE n.tls
  BY <1>3, <1>7
<1>. HIDE DEF a
<1>10. q.reality = n.reality
  BY <1>5, <1>8
<1>. QED BY <1>4, <1>5, <1>6, <1>8, <1>9, <1>10 DEF ClashReads, K, d, e, a, q

\* What parse_singbox reads of what the sing-box exporter wrote.
LEMMA ReadsSingbox ==
  ASSUME NEW p, IsNode(p), p.type \in DOMAIN SingboxOptions
  PROVE  SingboxReads(p, FromSingbox(ToSingbox(p)))
<1>. DEFINE K == SingboxKeys(p)
            d == SingboxDefaults(p)
            e == ToSingbox(p)
            n == NodeOf(e, Options \ {"cipher", "aid"})
            a == IF n.type = "http" THEN "other" ELSE n.type
            b == IF n.reality = "true" THEN "true" ELSE Or(n.tls, "false")
            q == FromSingbox(e)
<1>1. /\ IsEntry(e) /\ \A k \in Always : e[k] = p[k]
      /\ \A k : k \in DOMAIN e <=> k \in Always \/ (k \in K /\ d[k] # None)
      /\ \A k \in K : d[k] # None => e[k] = d[k]
  <2>1. K \subseteq Options /\ \A k \in K : d[k] \in Texts
    BY SingboxKeysAre, SingboxDefaultsAre
  <2>2. e = Entry(p, Present(d, K))
    BY DEF ToSingbox, SingboxKeys
  <2>. HIDE DEF e, d, K
  <2>. QED BY <2>1, <2>2, PresentIs
<1>. HIDE DEF K, d, e
<1>2. /\ IsNode(n) /\ \A k \in Always : n[k] = e[k]
      /\ \A k \in Options : n[k] = IF k \in (Options \ {"cipher", "aid"}) \cap DOMAIN e THEN e[k] ELSE None
  BY <1>1, NodeOfIs
<1>3. q = [n EXCEPT !.type = a, !.tls = b]
  BY DEF FromSingbox
<1>. HIDE DEF n, q
<1>4. \A k \in Options : n[k] = IF k \in K /\ k # "cipher" /\ k # "aid" THEN d[k] ELSE None
  BY <1>1, <1>2, FieldsApart
<1>5. "tls" \in Options /\ "reality" \in Options /\ "type" \notin Options
  BY FieldsApart DEF Options, Always
<1>6. n.type = p.type /\ n.server = p.server /\ n.port = p.port
  BY <1>1, <1>2 DEF Always
<1>7. n = [k \in Fields |-> n[k]] /\ "type" \in Fields /\ "tls" \in Fields
  BY <1>2, FieldsApart DEF Always, Options, IsNode
<1>8. \A k \in Options : k # "tls" => q[k] = n[k]
  BY <1>3, <1>5, <1>7, FieldsApart
<1>9. q.type = a /\ q.server = n.server /\ q.port = n.port /\ q.tls = b
  BY <1>3, <1>7
<1>10. q.reality = n.reality
  BY <1>5, <1>8
<1>11. b = IF q.reality = "true" THEN "true"
           ELSE IF "tls" \in K THEN Or(d.tls, "false") ELSE "false"
  BY <1>4, <1>5, <1>10 DEF Or
<1>. HIDE DEF b
<1>. QED BY <1>4, <1>5, <1>6, <1>8, <1>9, <1>11 DEF SingboxReads, K, d, e, a, q

\* What parse_v2ray reads of what the v2ray exporter wrote.
LEMMA ReadsV2ray ==
  ASSUME NEW p, IsNode(p), p.type \in DOMAIN V2rayOptions
  PROVE  V2rayReads(p, FromV2ray(ToV2ray(p)))
<1>. DEFINE K == V2rayKeys(p)
            d == V2rayDefaults(p)
            e == ToV2ray(p)
            n == NodeOf(e, Options)
            a == Or(n.uuid, n.password)
            b == IF e.type = "vless" /\ n.flow = "" THEN None ELSE n.flow
            c == IF n.reality = "true" THEN "true" ELSE n.tls
            q == FromV2ray(e)
<1>1. /\ IsEntry(e) /\ \A k \in Always : e[k] = p[k]
      /\ \A k : k \in DOMAIN e <=> k \in Always \/ (k \in K /\ d[k] # None)
      /\ \A k \in K : d[k] # None => e[k] = d[k]
  <2>1. K \subseteq Options /\ \A k \in K : d[k] \in Texts
    BY V2rayKeysAre, V2rayDefaultsAre
  <2>2. e = Entry(p, Present(d, K))
    BY DEF ToV2ray, V2rayKeys
  <2>. HIDE DEF e, d, K
  <2>. QED BY <2>1, <2>2, PresentIs
<1>. HIDE DEF K, d, e
<1>2. /\ IsNode(n) /\ \A k \in Always : n[k] = e[k]
      /\ \A k \in Options : n[k] = IF k \in Options \cap DOMAIN e THEN e[k] ELSE None
  BY <1>1, NodeOfIs
<1>3. q = [n EXCEPT !.uuid = a, !.tls = c, !.flow = b]
  BY DEF FromV2ray
<1>. HIDE DEF n, q
<1>4. \A k \in Options : n[k] = V2rayFinds(p, k)
  <2>1. \A k \in Options : n[k] = IF k \in K THEN d[k] ELSE None
    BY <1>1, <1>2, FieldsApart
  <2>. QED BY <2>1 DEF V2rayFinds, K, d
<1>5. {"tls", "uuid", "flow", "password", "reality"} \subseteq Options
  BY DEF Options
<1>6. n.type = p.type /\ n.server = p.server /\ n.port = p.port /\ e.type = p.type
  BY <1>1, <1>2 DEF Always
<1>7. n = [k \in Fields |-> n[k]] /\ {"uuid", "tls", "flow"} \subseteq Fields
  BY <1>2, <1>5, FieldsApart DEF IsNode
<1>8. \A k \in Fields : k \notin {"tls", "uuid", "flow"} => q[k] = n[k]
  BY <1>3, <1>7
<1>9. q.uuid = a /\ q.tls = c /\ q.flow = b
  BY <1>3, <1>7
<1>10. q.type = n.type /\ q.server = n.server /\ q.port = n.port
  BY <1>8, FieldsApart DEF Always
<1>11. \A k \in Options : k \notin {"tls", "uuid", "flow"} => q[k] = V2rayFinds(p, k)
  BY <1>4, <1>8, FieldsApart
<1>12. q.reality = n.reality
  BY <1>4, <1>5, <1>11
<1>13. q.tls = IF q.reality = "true" THEN "true" ELSE V2rayFinds(p, "tls")
  BY <1>4, <1>5, <1>9, <1>12
<1>14. q.uuid = Or(V2rayFinds(p, "uuid"), V2rayFinds(p, "password"))
  BY <1>4, <1>5, <1>9
<1>15. q.flow = IF p.type = "vless" /\ V2rayFinds(p, "flow") = "" THEN None ELSE V2rayFinds(p, "flow")
  BY <1>4, <1>5, <1>6, <1>9
<1>. QED BY <1>6, <1>10, <1>11, <1>13, <1>14, <1>15 DEF V2rayReads, q, e

Streams == {"ws", "h2", "http"}

\* What a reader finds of the transport.
TransportKept(p, q) ==
    /\ q.path = (IF p.network \in Streams THEN Fill(p.path) ELSE None)
    /\ q.host = (IF p.network \in Streams THEN Fill(p.host) ELSE None)
    /\ q.svc = (IF p.network = "grpc" THEN Fill(p.svc) ELSE None)
    /\ q.network = Fill(p.network)

\* The options that come back through clash, key by key.
LEMMA ClashFinds ==
  ASSUME NEW p, NEW q, ClashReads(p, q), NEW d, d = ClashDefaults(p), NEW K, K = ClashKeys(p)
  PROVE  /\ \A k \in Options : k \in K /\ k \notin {"user", "tls"} => q[k] = Fill(d[k])
         /\ \A k \in Options : k \notin K /\ k # "tls" => q[k] = None
         /\ q.tls = IF q.reality = "true" THEN "true" ELSE IF "tls" \in K THEN Fill(d.tls) ELSE None
         /\ q.type = (IF p.type = "anytls" THEN "other" ELSE p.type)
BY DEF ClashReads

\* A vmess node through clash.
LEMMA ClashVmess ==
  ASSUME NEW p, IsNode(p), p.type = "vmess", NEW q, ClashReads(p, q)
  PROVE  /\ q.uuid = Fill(p.uuid) /\ q.aid = Fill(Or(p.aid, "0"))
         /\ q.cipher = Fill(p.cipher) /\ q.sni = Fill(p.sni)
         /\ q.alpn = Fill(p.alpn) /\ q.tls = Fill(Or(p.tls, "false"))
         /\ q.flow = None /\ q.reality = None /\ TransportKept(p, q)
<1>. DEFINE K == ClashKeys(p)
            T == ClashTransport(p)
            d == ClashDefaults(p)
<1>1. /\ K = {"uuid", "aid", "cipher", "network", "sni", "fp", "alpn", "tls", "skip"} \cup T
      /\ T = IF p.network \in Streams THEN {"path", "host"} ELSE IF p.network = "grpc" THEN {"svc"} ELSE {}
  <2>1. K = {"uuid", "aid", "cipher", "network", "sni", "fp", "alpn", "tls", "skip"} \cup T
    BY DEF ClashKeys, ClashOptions, ClashReality
  <2>. QED BY <2>1 DEF ClashTransport, Streams
<1>2. d = [p EXCEPT !.aid = Or(@, "0"), !.tls = Or(@, "false")]
  BY DEF ClashDefaults
<1>3. /\ \A k \in Options : k \in K /\ k \notin {"user", "tls"} => q[k] = Fill(d[k])
      /\ \A k \in Options : k \notin K /\ k # "tls" => q[k] = None
      /\ q.tls = IF q.reality = "true" THEN "true" ELSE IF "tls" \in K THEN Fill(d.tls) ELSE None
  BY ClashFinds
<1>. HIDE DEF K, T, d
<1>4. /\ d.aid = Or(p.aid, "0") /\ d.tls = Or(p.tls, "false")
      /\ \A k \in Options : k \notin {"aid", "tls"} => d[k] = p[k]
  BY <1>2, FieldsApart DEF IsNode, Options
<1>5. /\ q.uuid = Fill(p.uuid) /\ q.aid = Fill(Or(p.aid, "0"))
      /\ q.cipher = Fill(p.cipher) /\ q.sni = Fill(p.sni) /\ q.alpn = Fill(p.alpn)
  BY <1>1, <1>3, <1>4 DEF Options
<1>6. q.flow = None /\ q.reality = None
  BY <1>1, <1>3 DEF Options, Streams
<1>7. q.tls = Fill(Or(p.tls, "false"))
  BY <1>1, <1>3, <1>4, <1>6, WordsAre DEF Words
<1>8. TransportKept(p, q)
  BY <1>1, <1>3, <1>4 DEF Options, Streams, TransportKept
<1>. QED BY <1>5, <1>6, <1>7, <1>8

\* A vless node through clash.
LEMMA ClashVless ==
  ASSUME NEW p, IsNode(p), p.type = "vless", NEW q, ClashReads(p, q)
  PROVE  /\ q.uuid = Fill(p.uuid) /\ q.flow = Fill(p.flow) /\ q.sni = Fill(p.sni)
         /\ q.alpn = Fill(p.alpn) /\ q.aid = None /\ q.cipher = None
         /\ q.reality = (IF p.reality = "true" THEN "true" ELSE None)
         /\ q.pbk = (IF p.reality = "true" THEN Fill(p.pbk) ELSE None)
         /\ q.sid = (IF p.reality = "true" THEN Fill(p.sid) ELSE None)
         /\ q.tls = (IF p.reality = "true" THEN "true" ELSE Fill(Or(p.tls, "false")))
         /\ TransportKept(p, q)
<1>. DEFINE K == ClashKeys(p)
            T == ClashTransport(p)
            R == ClashReality(p)
            d == ClashDefaults(p)
<1>1. /\ K = {"uuid", "flow", "network", "sni", "fp", "alpn", "tls", "skip"} \cup T \cup R
      /\ T = IF p.network \in Streams THEN {"path", "host"} ELSE IF p.network = "grpc" THEN {"svc"} ELSE {}
      /\ R = IF p.reality = "true" THEN {"reality", "pbk", "sid"} ELSE {}
  <2>1. K = {"uuid", "flow", "network", "sni", "fp", "alpn", "tls", "skip"} \cup T \cup R
    BY DEF ClashKeys, ClashOptions
  <2>. QED BY <2>1 DEF ClashTransport, ClashReality, Streams
<1>2. \E f : d = [p EXCEPT !.tls = Or(@, "false"), !.fp = f]
  BY DEF ClashDefaults
<1>3. /\ \A k \in Options : k \in K /\ k \notin {"user", "tls"} => q[k] = Fill(d[k])
      /\ \A k \in Options : k \notin K /\ k # "tls" => q[k] = None
      /\ q.tls = IF q.reality = "true" THEN "true" ELSE IF "tls" \in K THEN Fill(d.tls) ELSE None
  BY ClashFinds
<1>. HIDE DEF K, T, R, d
<1>4. d.tls = Or(p.tls, "false") /\ \A k \in Options : k \notin {"fp", "tls"} => d[k] = p[k]
  BY <1>2, FieldsApart DEF IsNode, Options
<1>5. q.uuid = Fill(p.uuid) /\ q.flow = Fill(p.flow) /\ q.sni = Fill(p.sni) /\ q.alpn = Fill(p.alpn)
  BY <1>1, <1>3, <1>4 DEF Options
<1>6. q.aid = None /\ q.cipher = None
  BY <1>1, <1>3 DEF Options, Streams
<1>7. CASE p.reality = "true"
  <2>0. q.reality = Fill("true") /\ q.pbk = Fill(p.pbk) /\ q.sid = Fill(p.sid)
    BY <1>1, <1>3, <1>4, <1>7 DEF Options
  <2>1. q.reality = "true" /\ q.pbk = Fill(p.pbk) /\ q.sid = Fill(p.sid)
    BY <2>0, WordsAre DEF Words, Fill, Given
  <2>2. TransportKept(p, q)
    BY <1>1, <1>3, <1>4, <1>7 DEF Options, Streams, TransportKept
  <2>. QED BY <1>3, <1>5, <1>6, <1>7, <2>1, <2>2
<1>8. CASE p.reality # "true"
  <2>1. q.reality = None /\ q.pbk = None /\ q.sid = None
    BY <1>1, <1>3, <1>8 DEF Options, Streams
  <2>2. q.tls = Fill(Or(p.tls, "false"))
    BY <1>1, <1>3, <1>4, <1>8, <2>1, WordsAre DEF Words
  <2>3. TransportKept(p, q)
    BY <1>1, <1>3, <1>4, <1>8 DEF Options, Streams, TransportKept
  <2>. QED BY <1>5, <1>6, <1>8, <2>1, <2>2, <2>3
<1>. QED BY <1>7, <1>8

\* A trojan node through clash.
LEMMA ClashTrojan ==
  ASSUME NEW p, IsNode(p), p.type = "trojan", NEW q, ClashReads(p, q)
  PROVE  /\ q.password = Fill(p.password) /\ q.sni = Fill(p.sni) /\ q.alpn = Fill(p.alpn)
         /\ q.tls = "true" /\ q.reality = None /\ TransportKept(p, q)
<1>. DEFINE K == ClashKeys(p)
            T == ClashTransport(p)
            d == ClashDefaults(p)
<1>1. /\ K = {"password", "sni", "flow", "network", "fp", "alpn", "tls", "skip"} \cup T
      /\ T = IF p.network \in Streams THEN {"path", "host"} ELSE IF p.network = "grpc" THEN {"svc"} ELSE {}
  <2>1. K = {"password", "sni", "flow", "network", "fp", "alpn", "tls", "skip"} \cup T
    BY DEF ClashKeys, ClashOptions, ClashReality
  <2>. QED BY <2>1 DEF ClashTransport, Streams
<1>2. d = [p EXCEPT !.tls = "true"]
  BY DEF ClashDefaults
<1>3. /\ \A k \in Options : k \in K /\ k \notin {"user", "tls"} => q[k] = Fill(d[k])
      /\ \A k \in Options : k \notin K /\ k # "tls" => q[k] = None
      /\ q.tls = IF q.reality = "true" THEN "true" ELSE IF "tls" \in K THEN Fill(d.tls) ELSE None
  BY ClashFinds
<1>. HIDE DEF K, T, d
<1>4. d.tls = "true" /\ \A k \in Options : k # "tls" => d[k] = p[k]
  BY <1>2, FieldsApart DEF IsNode, Options
<1>5. q.password = Fill(p.password) /\ q.sni = Fill(p.sni) /\ q.alpn = Fill(p.alpn)
  BY <1>1, <1>3, <1>4 DEF Options
<1>6. q.reality = None
  BY <1>1, <1>3 DEF Options, Streams
<1>7. q.tls = "true"
  BY <1>1, <1>3, <1>4, <1>6, WordsAre DEF Words, Fill, Given
<1>8. TransportKept(p, q)
  BY <1>1, <1>3, <1>4 DEF Options, Streams, TransportKept
<1>. QED BY <1>5, <1>6, <1>7, <1>8

\* An ss node through clash.
LEMMA ClashSs ==
  ASSUME NEW p, IsNode(p), p.type = "ss", NEW q, ClashReads(p, q)
  PROVE  /\ q.password = Fill(p.password) /\ q.cipher = Fill(Or(p.cipher, p.method))
         /\ q.plugin = Fill(PluginName(p.plugin, "obfs")) /\ q.opts = Fill(PluginOpts(p, "clash"))
         /\ q.method = None /\ q.alpn = None
<1>. DEFINE K == ClashKeys(p)
            d == ClashDefaults(p)
            a == Or(p.cipher, p.method)
            b == PluginName(p.plugin, "obfs")
            c == PluginOpts(p, "clash")
<1>1. K = {"cipher", "password", "plugin", "opts"}
  <2>1. ClashTransport(p) = {}
    BY DEF ClashTransport
  <2>2. ClashReality(p) = {}
    BY DEF ClashReality
  <2>. QED BY <2>1, <2>2 DEF ClashKeys, ClashOptions
<1>2. d = [p EXCEPT !.cipher = a, !.plugin = b, !.opts = c]
  BY DEF ClashDefaults
<1>3. /\ \A k \in Options : k \in K /\ k \notin {"user", "tls"} => q[k] = Fill(d[k])
      /\ \A k \in Options : k \notin K /\ k # "tls" => q[k] = None
  BY ClashFinds
<1>. HIDE DEF K, d, a, b, c
<1>4. d.cipher = a /\ d.plugin = b /\ d.opts = c /\ d.password = p.password
  BY <1>2, FieldsApart DEF IsNode, Options
<1>5. q.password = Fill(p.password) /\ q.cipher = Fill(a) /\ q.plugin = Fill(b) /\ q.opts = Fill(c)
  BY <1>1, <1>3, <1>4 DEF Options
<1>6. q.method = None /\ q.alpn = None
  BY <1>1, <1>3 DEF Options
<1>. QED BY <1>5, <1>6 DEF a, b, c

\* A hysteria2 node through clash.
LEMMA ClashHysteria2 ==
  ASSUME NEW p, IsNode(p), p.type = "hysteria2", NEW q, ClashReads(p, q)
  PROVE  /\ \A k \in {"password", "sni", "obfs", "obfspw", "alpn", "up", "down"} : q[k] = Fill(p[k])
         /\ q.host = None /\ q.network = None /\ q.path = None
<1>. DEFINE K == ClashKeys(p)
            d == ClashDefaults(p)
<1>1. K = {"password", "sni", "obfs", "obfspw", "alpn", "up", "down", "skip"}
  <2>1. ClashTransport(p) = {}
    BY DEF ClashTransport
  <2>2. ClashReality(p) = {}
    BY DEF ClashReality
  <2>. QED BY <2>1, <2>2 DEF ClashKeys, ClashOptions
<1>2. d = p
  BY DEF ClashDefaults
<1>3. /\ \A k \in Options : k \in K /\ k \notin {"user", "tls"} => q[k] = Fill(d[k])
      /\ \A k \in Options : k \notin K /\ k # "tls" => q[k] = None
  BY ClashFinds
<1>. HIDE DEF K, d
<1>. QED BY <1>1, <1>2, <1>3 DEF Options

\* A tuic node through clash.
LEMMA ClashTuic ==
  ASSUME NEW p, IsNode(p), p.type = "tuic", NEW q, ClashReads(p, q)
  PROVE  /\ \A k \in {"uuid", "password", "sni", "alpn", "cc", "uos", "zrtt"} : q[k] = Fill(p[k])
         /\ q.urm = (IF p.uos = "true" THEN None ELSE Fill(p.urm))
         /\ \A k \in {"network", "tls", "path", "cipher", "flow", "host", "svc", "reality", "aid"} : q[k] = None
<1>. DEFINE K == ClashKeys(p)
            d == ClashDefaults(p)
            a == IF p.uos = "true" THEN None ELSE p.urm
<1>1. K = {"uuid", "password", "sni", "alpn", "cc", "urm", "uos", "zrtt"}
  <2>1. ClashTransport(p) = {}
    BY DEF ClashTransport
  <2>2. ClashReality(p) = {}
    BY DEF ClashReality
  <2>. QED BY <2>1, <2>2 DEF ClashKeys, ClashOptions
<1>2. d = [p EXCEPT !.urm = a]
  BY DEF ClashDefaults
<1>3. /\ \A k \in Options : k \in K /\ k \notin {"user", "tls"} => q[k] = Fill(d[k])
      /\ \A k \in Options : k \notin K /\ k # "tls" => q[k] = None
      /\ q.tls = IF q.reality = "true" THEN "true" ELSE IF "tls" \in K THEN Fill(d.tls) ELSE None
  BY ClashFinds
<1>. HIDE DEF K, d
<1>4. d.urm = a /\ \A k \in Options : k # "urm" => d[k] = p[k]
  BY <1>2, FieldsApart DEF IsNode, Options
<1>5. \A k \in {"uuid", "password", "sni", "alpn", "cc", "uos", "zrtt"} : q[k] = Fill(p[k])
  BY <1>1, <1>3, <1>4 DEF Options
<1>6. q.urm = Fill(a)
  BY <1>1, <1>3, <1>4 DEF Options
<1>7. \A k \in {"network", "path", "cipher", "flow", "host", "svc", "reality", "aid"} : q[k] = None
  BY <1>1, <1>3 DEF Options
<1>8. q.tls = None
  BY <1>1, <1>3, <1>7, WordsAre DEF Words
<1>. QED BY <1>5, <1>6, <1>7, <1>8 DEF Fill, Given

\* A socks5, http or anytls node through clash.
LEMMA ClashPlain ==
  ASSUME NEW p, IsNode(p), p.type \in {"socks5", "http", "anytls"}, NEW q, ClashReads(p, q)
  PROVE  /\ q.password = Fill(p.password)
         /\ p.type # "anytls" => \A k \in {"sni", "host", "network", "path", "alpn"} : q[k] = None
<1>. DEFINE K == ClashKeys(p)
            d == ClashDefaults(p)
<1>1. K = IF p.type = "anytls" THEN {"password", "sni", "fp", "skip"} ELSE {"user", "password", "tls"}
  <2>1. ClashTransport(p) = {}
    BY DEF ClashTransport
  <2>2. ClashReality(p) = {}
    BY DEF ClashReality
  <2>. QED BY <2>1, <2>2 DEF ClashKeys, ClashOptions
<1>2. d = p \/ \E a : d = [p EXCEPT !.tls = a]
  BY DEF ClashDefaults
<1>3. /\ \A k \in Options : k \in K /\ k \notin {"user", "tls"} => q[k] = Fill(d[k])
      /\ \A k \in Options : k \notin K /\ k # "tls" => q[k] = None
  BY ClashFinds
<1>. HIDE DEF K, d
<1>4. d.password = p.password
  BY <1>2, FieldsApart DEF IsNode, Options
<1>. QED BY <1>1, <1>3, <1>4 DEF Options

\* What the parser finds of the options d that were written under the keys K.
SingboxFound(p, q, K, d) ==
    /\ \A k \in Options : k \in K /\ k \notin {"cipher", "aid", "tls"} => q[k] = d[k]
    /\ \A k \in Options : k # "tls" => (k \notin K \/ k \in {"cipher", "aid"} => q[k] = None)
    /\ q.tls = IF q.reality = "true" THEN "true" ELSE IF "tls" \in K THEN "true" ELSE "false"
    /\ \A k \in Options : k \notin {"cipher", "aid", "method", "plugin", "opts", "urm", "obfspw",
                                    "network", "tls", "skip", "fp"} => d[k] = p[k]
    /\ d.method = (IF p.type = "ss" THEN Or(SsMethod(p), "aes-256-gcm") ELSE p.method)
    /\ d.plugin = PluginName(p.plugin, "obfs-local") /\ d.opts = PluginOpts(p, "sip")
    /\ d.urm = (IF p.uos = "true" THEN None ELSE p.urm)
    /\ d.obfspw = (IF p.obfs = None THEN None ELSE Or(p.obfspw, ""))
    /\ d.network = IF p.network = "http" THEN "h2" ELSE p.network

\* The options that come back through sing-box, key by key.
LEMMA SingboxFinds ==
  ASSUME NEW p, IsNode(p), NEW q, SingboxReads(p, q)
  PROVE  SingboxFound(p, q, SingboxKeys(p), SingboxDefaults(p))
<1>. DEFINE K == SingboxKeys(p)
            d == SingboxDefaults(p)
            a == IF p.type = "ss" THEN Or(SsMethod(p), "aes-256-gcm") ELSE p.method
            b == PluginName(p.plugin, "obfs-local")
            c == PluginOpts(p, "sip")
            u == IF p.uos = "true" THEN None ELSE p.urm
            o == IF p.obfs = None THEN None ELSE Or(p.obfspw, "")
            n == IF p.network = "http" THEN "h2" ELSE p.network
            x == Or(p.cipher, "auto")
            y == Or(p.aid, "0")
            s == Or(p.skip, "false")
            f == IF p.reality = "true" THEN Or(p.fp, "chrome") ELSE p.fp
<1>1. d = [p EXCEPT !.cipher = x, !.aid = y, !.method = a, !.plugin = b, !.opts = c,
                                    !.urm = u, !.obfspw = o, !.network = n, !.tls = "true",
                                    !.skip = s, !.fp = f]
  BY DEF SingboxDefaults
<1>2. /\ \A k \in Options : k \in K /\ k \notin {"cipher", "aid", "tls"} => q[k] = d[k]
      /\ \A k \in Options : k # "tls" => (k \notin K \/ k \in {"cipher", "aid"} => q[k] = None)
      /\ q.tls = IF q.reality = "true" THEN "true" ELSE IF "tls" \in K THEN Or(d.tls, "false") ELSE "false"
  BY DEF SingboxReads
<1>. HIDE DEF K, d, a, b, c, u, o, n, x, y, s, f
<1>3. p = [k \in Fields |-> p[k]] /\ Options \subseteq Fields
  BY FieldsApart DEF IsNode
<1>4. \A k \in Options : k \notin {"cipher", "aid", "method", "plugin", "opts", "urm", "obfspw",
                                   "network", "tls", "skip", "fp"} => d[k] = p[k]
  BY <1>1, <1>3
<1>5. d.method = a /\ d.plugin = b /\ d.opts = c /\ d.urm = u
  BY <1>1, <1>3 DEF Options
<1>6. d.obfspw = o /\ d.network = n /\ d.tls = "true"
  BY <1>1, <1>3 DEF Options
<1>7. Or(d.tls, "false") = "true"
  BY <1>6, WordsAre DEF Or, Words
<1>. QED BY <1>2, <1>4, <1>5, <1>6, <1>7 DEF SingboxFound, K, d, a, b, c, u, o, n

\* The transport and the security of those that have a choice of them.
SingboxStream(p, q) ==
    /\ q.network = (CASE p.network \in {"h2", "http"} -> "h2"
                      [] p.network = "ws" \/ (p.network = "grpc" /\ p.svc # None) -> p.network
                      [] OTHER -> None)
    /\ q.path = (IF p.network \in Streams THEN p.path ELSE None)
    /\ q.host = (IF p.network \in Streams THEN p.host ELSE None)
    /\ q.svc = (IF p.network = "grpc" THEN p.svc ELSE None)
    /\ q.tls = (IF p.tls = "true" THEN "true" ELSE "false")
    /\ q.sni = (IF p.tls = "true" THEN p.sni ELSE None)
    /\ q.alpn = (IF p.tls = "true" THEN p.alpn ELSE None)
    /\ q.reality = (IF p.tls = "true" /\ p.reality = "true" THEN "true" ELSE None)
    /\ q.pbk = (IF p.tls = "true" /\ p.reality = "true" THEN p.pbk ELSE None)
    /\ q.sid = (IF p.tls = "true" /\ p.reality = "true" THEN p.sid ELSE None)

\* A vmess, vless or trojan node through sing-box.
LEMMA SingboxStreams ==
  ASSUME NEW p, IsNode(p), p.type \in {"vmess", "vless", "trojan"}, NEW q, SingboxReads(p, q)
  PROVE  /\ SingboxStream(p, q) /\ q.cipher = None /\ q.aid = None
         /\ p.type # "trojan" => q.uuid = p.uuid
         /\ p.type = "vless" => q.flow = p.flow
         /\ p.type = "vmess" => q.flow = None
         /\ p.type = "trojan" => q.password = p.password
<1>. DEFINE K == SingboxKeys(p)
            d == SingboxDefaults(p)
            O == SingboxOptions[p.type]
            T == SingboxTransport(p)
            L == SingboxTlsOptions(p)
<1>1. O = CASE p.type = "vmess" -> {"uuid", "cipher", "aid"} [] p.type = "vless" -> {"uuid", "flow"}
            [] p.type = "trojan" -> {"password"}
  BY DEF SingboxOptions
<1>2. T = CASE p.network \in Streams -> {"network", "path", "host"}
            [] p.network = "grpc" /\ p.svc # None -> {"network", "svc"}
            [] OTHER -> {}
  BY DEF SingboxTransport, Streams
<1>3. L = IF p.tls # "true" THEN {}
          ELSE IF p.reality = "true" THEN {"tls", "skip", "sni", "alpn", "fp", "reality", "pbk", "sid"}
          ELSE {"tls", "skip", "sni", "alpn", "fp"}
  BY DEF SingboxTlsOptions, SingboxTls
<1>4. K = O \cup T \cup L
  BY DEF SingboxKeys
<1>5. SingboxFound(p, q, K, d)
  BY SingboxFinds
<1>. HIDE DEF K, d, O, T, L
<1>6. q.cipher = None /\ q.aid = None
  BY <1>5 DEF SingboxFound, Options
<1>7. O \subseteq {"uuid", "cipher", "aid", "flow", "password"}
  BY <1>1
<1>8. /\ T \subseteq {"network", "path", "host", "svc"}
      /\ "network" \in T <=> p.network \in Streams \/ (p.network = "grpc" /\ p.svc # None)
      /\ "path" \in T <=> p.network \in Streams
      /\ "host" \in T <=> p.network \in Streams
      /\ "svc" \in T <=> p.network = "grpc" /\ p.svc # None
  BY <1>2 DEF Streams
<1>9. /\ L \subseteq {"tls", "skip", "sni", "alpn", "fp", "reality", "pbk", "sid"}
      /\ "tls" \in L <=> p.tls = "true"
      /\ "sni" \in L <=> p.tls = "true"
      /\ "alpn" \in L <=> p.tls = "true"
      /\ "reality" \in L <=> p.tls = "true" /\ p.reality = "true"
      /\ "pbk" \in L <=> p.tls = "true" /\ p.reality = "true"
      /\ "sid" \in L <=> p.tls = "true" /\ p.reality = "true"
  BY <1>3
<1>10. /\ p.type # "trojan" => "uuid" \in K
       /\ p.type = "vless" => "flow" \in K
       /\ p.type = "vmess" => "flow" \notin K
       /\ p.type = "trojan" => "password" \in K
  BY <1>1, <1>4, <1>8, <1>9
<1>11. /\ p.type # "trojan" => q.uuid = p.uuid
       /\ p.type = "vless" => q.flow = p.flow
       /\ p.type = "vmess" => q.flow = None
       /\ p.type = "trojan" => q.password = p.password
  BY <1>5, <1>10 DEF SingboxFound, Options
<1>12. /\ q.path = (IF p.network \in Streams THEN p.path ELSE None)
       /\ q.host = (IF p.network \in Streams THEN p.host ELSE None)
       /\ q.svc = (IF p.network = "grpc" THEN p.svc ELSE None)
  <2>1. /\ "path" \in K <=> p.network \in Streams
        /\ "host" \in K <=> p.network \in Streams
        /\ "svc" \in K <=> p.network = "grpc" /\ p.svc # None
    BY <1>4, <1>7, <1>8, <1>9
  <2>. QED BY <1>5, <2>1 DEF SingboxFound, Options
<1>13. q.network = CASE p.network \in {"h2", "http"} -> "h2"
                     [] p.network = "ws" \/ (p.network = "grpc" /\ p.svc # None) -> p.network
                     [] OTHER -> None
  <2>1. "network" \in K <=> p.network \in Streams \/ (p.network = "grpc" /\ p.svc # None)
    BY <1>4, <1>7, <1>8, <1>9
  <2>2. q.network = IF "network" \in K THEN d.network ELSE None
    BY <1>5 DEF SingboxFound, Options
  <2>. QED BY <1>5, <2>1, <2>2 DEF SingboxFound, Streams
<1>14. /\ q.sni = (IF p.tls = "true" THEN p.sni ELSE None)
       /\ q.alpn = (IF p.tls = "true" THEN p.alpn ELSE None)
       /\ q.reality = (IF p.tls = "true" /\ p.reality = "true" THEN "true" ELSE None)
       /\ q.pbk = (IF p.tls = "true" /\ p.reality = "true" THEN p.pbk ELSE None)
       /\ q.sid = (IF p.tls = "true" /\ p.reality = "true" THEN p.sid ELSE None)
       /\ "tls" \in K <=> p.tls = "true"
  <2>1. /\ "sni" \in K <=> p.tls = "true"
        /\ "alpn" \in K <=> p.tls = "true"
        /\ "tls" \in K <=> p.tls = "true"
    BY <1>4, <1>7, <1>8, <1>9
  <2>2. /\ "reality" \in K <=> p.tls = "true" /\ p.reality = "true"
        /\ "pbk" \in K <=> p.tls = "true" /\ p.reality = "true"
        /\ "sid" \in K <=> p.tls = "true" /\ p.reality = "true"
    BY <1>4, <1>7, <1>8, <1>9
  <2>3. /\ q.sni = (IF "sni" \in K THEN p.sni ELSE None)
        /\ q.alpn = (IF "alpn" \in K THEN p.alpn ELSE None)
    BY <1>5 DEF SingboxFound, Options
  <2>4. /\ q.reality = (IF "reality" \in K THEN p.reality ELSE None)
        /\ q.pbk = (IF "pbk" \in K THEN p.pbk ELSE None)
        /\ q.sid = (IF "sid" \in K THEN p.sid ELSE None)
    BY <1>5 DEF SingboxFound, Options
  <2>. QED BY <2>1, <2>2, <2>3, <2>4
<1>15. q.tls = IF p.tls = "true" THEN "true" ELSE "false"
  BY <1>5, <1>14, WordsAre DEF SingboxFound, Words
<1>16. SingboxStream(p, q)
  BY <1>12, <1>13, <1>14, <1>15 DEF SingboxStream
<1>. QED BY <1>6, <1>11, <1>16

\* An ss node through sing-box.
LEMMA SingboxSs ==
  ASSUME NEW p, IsNode(p), p.type = "ss", NEW q, SingboxReads(p, q)
  PROVE  /\ q.password = p.password /\ q.method = Or(SsMethod(p), "aes-256-gcm")
         /\ q.plugin = PluginName(p.plugin, "obfs-local") /\ q.opts = PluginOpts(p, "sip")
         /\ q.cipher = None /\ q.alpn = None
<1>. DEFINE K == SingboxKeys(p)
            d == SingboxDefaults(p)
            a == Or(SsMethod(p), "aes-256-gcm")
            b == PluginName(p.plugin, "obfs-local")
            c == PluginOpts(p, "sip")
<1>1. K = {"method", "password", "plugin", "opts"}
  <2>1. SingboxTransport(p) = {}
    BY DEF SingboxTransport
  <2>2. SingboxTlsOptions(p) = {}
    BY DEF SingboxTlsOptions, SingboxTls
  <2>. QED BY <2>1, <2>2 DEF SingboxKeys, SingboxOptions
<1>2. SingboxFound(p, q, K, d)
  BY SingboxFinds
<1>. HIDE DEF K, d
<1>3. q.password = p.password /\ q.method = a /\ q.plugin = b /\ q.opts = c
  BY <1>1, <1>2 DEF SingboxFound, Options
<1>4. q.cipher = None /\ q.alpn = None
  BY <1>1, <1>2 DEF SingboxFound, Options
<1>. QED BY <1>3, <1>4 DEF a, b, c

\* A hysteria2 node through sing-box.
LEMMA SingboxHysteria2 ==
  ASSUME NEW p, IsNode(p), p.type = "hysteria2", NEW q, SingboxReads(p, q)
  PROVE  /\ \A k \in {"password", "sni", "obfs", "alpn", "up", "down"} : q[k] = p[k]
         /\ q.obfspw = (IF p.obfs = None THEN None ELSE Or(p.obfspw, ""))
         /\ q.host = None /\ q.network = None /\ q.path = None
<1>. DEFINE K == SingboxKeys(p)
            d == SingboxDefaults(p)
            o == IF p.obfs = None THEN None ELSE Or(p.obfspw, "")
<1>1. /\ {"password", "obfs", "obfspw", "up", "down", "sni", "alpn"} \subseteq K
      /\ {"host", "network", "path"} \cap K = {}
  <2>1. SingboxTransport(p) = {}
    BY DEF SingboxTransport
  <2>2. /\ SingboxTlsOptions(p) \subseteq {"tls", "skip", "sni", "alpn", "fp", "reality", "pbk", "sid"}
        /\ {"sni", "alpn"} \subseteq SingboxTlsOptions(p)
    BY DEF SingboxTlsOptions, SingboxTls
  <2>3. SingboxOptions[p.type] = {"password", "obfs", "obfspw", "up", "down"}
    BY DEF SingboxOptions
  <2>. QED BY <2>1, <2>2, <2>3 DEF SingboxKeys
<1>2. SingboxFound(p, q, K, d)
  BY SingboxFinds
<1>. HIDE DEF K, d
<1>3. \A k \in {"password", "sni", "obfs", "alpn", "up", "down"} : q[k] = p[k]
  <2>1. \A k \in {"password", "sni", "obfs", "alpn", "up", "down"} : k \in Options /\ k \in K
    BY <1>1 DEF Options
  <2>2. \A k \in {"password", "sni", "obfs", "alpn", "up", "down"} :
           k \notin {"cipher", "aid", "method", "plugin", "opts", "urm", "obfspw", "network", "tls", "skip", "fp"}
    OBVIOUS
  <2>. QED BY <1>2, <2>1, <2>2 DEF SingboxFound
<1>4. q.obfspw = o /\ q.host = None /\ q.network = None /\ q.path = None
  BY <1>1, <1>2 DEF SingboxFound, Options
<1>. QED BY <1>3, <1>4 DEF o

\* A tuic node through sing-box.
LEMMA SingboxTuic ==
  ASSUME NEW p, IsNode(p), p.type = "tuic", NEW q, SingboxReads(p, q)
  PROVE  /\ \A k \in {"uuid", "password", "sni", "alpn", "cc", "uos", "zrtt"} : q[k] = p[k]
         /\ q.urm = (IF p.uos = "true" THEN None ELSE p.urm)
         /\ q.tls = "true" /\ q.reality = (IF p.reality = "true" THEN "true" ELSE None)
         /\ q.pbk = (IF p.reality = "true" THEN p.pbk ELSE None)
         /\ q.sid = (IF p.reality = "true" THEN p.sid ELSE None)
         /\ \A k \in {"network", "path", "cipher", "flow", "host", "svc", "aid"} : q[k] = None
<1>. DEFINE K == SingboxKeys(p)
            d == SingboxDefaults(p)
            u == IF p.uos = "true" THEN None ELSE p.urm
<1>1. K = {"uuid", "password", "cc", "urm", "uos", "zrtt", "tls", "skip", "sni", "alpn", "fp"}
          \cup (IF p.reality = "true" THEN {"reality", "pbk", "sid"} ELSE {})
  <2>1. SingboxTransport(p) = {}
    BY DEF SingboxTransport
  <2>2. SingboxTlsOptions(p) = {"tls", "skip", "sni", "alpn", "fp"}
                               \cup (IF p.reality = "true" THEN {"reality", "pbk", "sid"} ELSE {})
    BY DEF SingboxTlsOptions, SingboxTls
  <2>3. SingboxOptions[p.type] = {"uuid", "password", "cc", "urm", "uos", "zrtt"}
    BY DEF SingboxOptions
  <2>. QED BY <2>1, <2>2, <2>3 DEF SingboxKeys
<1>2. SingboxFound(p, q, K, d)
  BY SingboxFinds
<1>. HIDE DEF K, d
<1>3. \A k \in {"uuid", "password", "sni", "alpn", "cc", "uos", "zrtt"} : q[k] = p[k]
  <2>1. \A k \in {"uuid", "password", "sni", "alpn", "cc", "uos", "zrtt"} : k \in Options /\ k \in K
    BY <1>1 DEF Options
  <2>2. \A k \in {"uuid", "password", "sni", "alpn", "cc", "uos", "zrtt"} :
           k \notin {"cipher", "aid", "method", "plugin", "opts", "urm", "obfspw", "network", "tls", "skip", "fp"}
    OBVIOUS
  <2>. QED BY <1>2, <2>1, <2>2 DEF SingboxFound
<1>4. q.urm = u /\ q.tls = "true"
  BY <1>1, <1>2 DEF SingboxFound, Options
<1>5. \A k \in {"network", "path", "cipher", "flow", "host", "svc", "aid"} : q[k] = None
  BY <1>1, <1>2 DEF SingboxFound, Options
<1>6. /\ q.reality = (IF p.reality = "true" THEN "true" ELSE None)
      /\ q.pbk = (IF p.reality = "true" THEN p.pbk ELSE None)
      /\ q.sid = (IF p.reality = "true" THEN p.sid ELSE None)
  BY <1>1, <1>2 DEF SingboxFound, Options
<1>. QED BY <1>3, <1>4, <1>5, <1>6 DEF u

\* A socks5 or http node through sing-box.
LEMMA SingboxPlain ==
  ASSUME NEW p, IsNode(p), p.type \in {"socks5", "http"}, NEW q, SingboxReads(p, q)
  PROVE  /\ q.password = p.password
         /\ p.type = "socks5" => \A k \in {"sni", "host", "network", "path", "alpn"} : q[k] = None
<1>. DEFINE K == SingboxKeys(p)
            d == SingboxDefaults(p)
<1>1. "password" \in K /\ (p.type = "socks5" => K = {"user", "password"})
  <2>1. SingboxTransport(p) = {}
    BY DEF SingboxTransport
  <2>2. p.type = "socks5" => SingboxTlsOptions(p) = {}
    BY DEF SingboxTlsOptions, SingboxTls
  <2>3. SingboxOptions[p.type] = {"user", "password"}
    BY DEF SingboxOptions
  <2>. QED BY <2>1, <2>2, <2>3 DEF SingboxKeys
<1>2. SingboxFound(p, q, K, d)
  BY SingboxFinds
<1>. HIDE DEF K, d
<1>. QED BY <1>1, <1>2 DEF SingboxFound, Options

\* What the parser finds of the options d that were written under the keys K.
V2rayFound(p, q, K, d) ==
    /\ \A k \in Options : k \in K /\ k \notin {"tls", "uuid", "flow"} => q[k] = d[k]
    /\ \A k \in Options : k \notin K /\ k \notin {"tls", "uuid", "flow"} => q[k] = None
    /\ q.tls = (IF q.reality = "true" THEN "true" ELSE IF "tls" \in K THEN d.tls ELSE None)
    /\ "uuid" \in K => q.uuid = (IF p.uuid = None THEN q.password ELSE p.uuid)
    /\ q.flow = (IF "flow" \in K /\ (p.type = "vless" => d.flow # "") THEN d.flow ELSE None)
    /\ \A k \in Options : k \notin {"aid", "cipher", "flow", "method", "network", "tls", "skip", "fp"} => d[k] = p[k]
    /\ d.aid = Or(p.aid, "0") /\ d.cipher = Or(p.cipher, "auto") /\ d.flow = Or(p.flow, "")
    /\ d.method = Or(SsMethod(p), "aes-256-gcm") /\ d.network = Or(p.network, "tcp")
    /\ d.tls = (IF p.reality = "true" THEN "true" ELSE Or(p.tls, "false"))

\* The options that come back through v2ray, key by key.
LEMMA V2rayOptionFound ==
  ASSUME NEW p, IsNode(p), NEW q, V2rayReads(p, q)
  PROVE  V2rayFound(p, q, V2rayKeys(p), V2rayDefaults(p))
<1>. DEFINE K == V2rayKeys(p)
            d == V2rayDefaults(p)
            a == Or(p.aid, "0")
            b == Or(p.cipher, "auto")
            c == Or(p.flow, "")
            m == Or(SsMethod(p), "aes-256-gcm")
            n == Or(p.network, "tcp")
            t == IF p.reality = "true" THEN "true" ELSE Or(p.tls, "false")
            s == Or(p.skip, "false")
            f == IF p.reality = "true" THEN Or(p.fp, "chrome") ELSE p.fp
<1>1. d = [p EXCEPT !.aid = a, !.cipher = b, !.flow = c, !.method = m, !.network = n,
                    !.tls = t, !.skip = s, !.fp = f]
  BY DEF V2rayDefaults
<1>2. /\ \A k \in Options : k \in K /\ k \notin {"tls", "uuid", "flow"} => q[k] = d[k]
      /\ \A k \in Options : k \notin K /\ k \notin {"tls", "uuid", "flow"} => q[k] = None
  BY DEF V2rayReads, V2rayFinds
<1>3. q.tls = IF q.reality = "true" THEN "true" ELSE IF "tls" \in K THEN d.tls ELSE None
  BY DEF V2rayReads, V2rayFinds
<1>4. q.uuid = Or(V2rayFinds(p, "uuid"), V2rayFinds(p, "password")) /\ q.password = V2rayFinds(p, "password")
  BY DEF V2rayReads, Options
<1>5. q.flow = IF "flow" \in K /\ (p.type = "vless" => d.flow # "") THEN d.flow ELSE None
  BY DEF V2rayReads, V2rayFinds
<1>. HIDE DEF K, d, a, b, c, m, n, t, s, f
<1>6. p = [k \in Fields |-> p[k]] /\ Options \subseteq Fields
  BY FieldsApart DEF IsNode
<1>7. \A k \in Options : k \notin {"aid", "cipher", "flow", "method", "network", "tls", "skip", "fp"} => d[k] = p[k]
  BY <1>1, <1>6
<1>8. d.aid = a /\ d.cipher = b /\ d.flow = c
  BY <1>1, <1>6 DEF Options
<1>9. d.method = m /\ d.network = n /\ d.tls = t
  BY <1>1, <1>6 DEF Options
<1>10. d.uuid = p.uuid
  BY <1>7 DEF Options
<1>11. "uuid" \in K => q.uuid = (IF p.uuid = None THEN q.password ELSE p.uuid)
  BY <1>4, <1>10 DEF V2rayFinds, Or, K, d
<1>. QED BY <1>2, <1>3, <1>5, <1>7, <1>8, <1>9, <1>11 DEF V2rayFound, K, d, a, b, c, m, n, t

V2rayStreamKept(p, q) ==
    /\ q.network = Or(p.network, "tcp")
    /\ q.path = (IF p.network \in Streams THEN p.path ELSE None)
    /\ q.host = (IF p.network \in Streams THEN p.host ELSE None)
    /\ q.svc = (IF p.network = "grpc" THEN p.svc ELSE None)
    /\ q.tls = (IF p.reality = "true" THEN "true" ELSE Or(p.tls, "false"))
    /\ q.sni = (IF p.reality = "true" \/ p.tls = "true" THEN p.sni ELSE None)
    /\ q.alpn = (IF p.reality # "true" /\ p.tls = "true" THEN p.alpn ELSE None)
    /\ q.reality = (IF p.reality = "true" THEN "true" ELSE None)
    /\ q.pbk = (IF p.reality = "true" THEN p.pbk ELSE None)
    /\ q.sid = (IF p.reality = "true" THEN p.sid ELSE None)

\* A vmess, vless or trojan node through v2ray.
LEMMA V2rayStreams ==
  ASSUME NEW p, IsNode(p), p.type \in {"vmess", "vless", "trojan"}, NEW q, V2rayReads(p, q)
  PROVE  /\ V2rayStreamKept(p, q)
         /\ p.type # "trojan" => q.uuid = p.uuid
         /\ p.type = "vmess" => q.aid = Or(p.aid, "0") /\ q.cipher = Or(p.cipher, "auto") /\ q.flow = None
         /\ p.type = "vless" => q.aid = None /\ q.cipher = None /\ q.flow = Fill(p.flow)
         /\ p.type = "trojan" => q.password = p.password
<1>. DEFINE K == V2rayKeys(p)
            d == V2rayDefaults(p)
            O == V2rayOptions[p.type]
            A == CASE p.reality = "true" -> {"reality", "sni", "skip", "pbk", "sid", "fp"}
                   [] p.reality # "true" /\ p.tls = "true" -> {"sni", "skip", "alpn"}
                   [] OTHER -> {}
            B == CASE p.network \in {"ws", "h2", "http"} -> {"path", "host"}
                   [] p.network = "grpc" -> {"svc"}
                   [] OTHER -> {}
<1>1. O = CASE p.type = "vmess" -> {"uuid", "aid", "cipher"} [] p.type = "vless" -> {"uuid", "flow"}
            [] p.type = "trojan" -> {"password", "flow"}
  BY DEF V2rayOptions
<1>2. K = O \cup {"network", "tls"} \cup A \cup B
  BY DEF V2rayKeys, V2rayStream
<1>3. /\ A \subseteq {"reality", "sni", "skip", "pbk", "sid", "fp", "alpn"}
      /\ "reality" \in A <=> p.reality = "true"
      /\ "pbk" \in A <=> p.reality = "true"
      /\ "sid" \in A <=> p.reality = "true"
      /\ "sni" \in A <=> p.reality = "true" \/ p.tls = "true"
      /\ "alpn" \in A <=> p.reality # "true" /\ p.tls = "true"
  OBVIOUS
<1>4. /\ B \subseteq {"path", "host", "svc"}
      /\ "path" \in B <=> p.network \in Streams
      /\ "host" \in B <=> p.network \in Streams
      /\ "svc" \in B <=> p.network = "grpc"
  BY DEF Streams
<1>5. V2rayFound(p, q, K, d)
  BY V2rayOptionFound
<1>. HIDE DEF K, d, O, A, B
<1>6. O \subseteq {"uuid", "aid", "cipher", "flow", "password"}
  BY <1>1
<1>7. /\ "network" \in K /\ "tls" \in K
      /\ "path" \in K <=> p.network \in Streams
      /\ "host" \in K <=> p.network \in Streams
      /\ "svc" \in K <=> p.network = "grpc"
  BY <1>2, <1>3, <1>4, <1>6
<1>8. /\ "reality" \in K <=> p.reality = "true"
      /\ "pbk" \in K <=> p.reality = "true"
      /\ "sid" \in K <=> p.reality = "true"
      /\ "sni" \in K <=> p.reality = "true" \/ p.tls = "true"
      /\ "alpn" \in K <=> p.reality # "true" /\ p.tls = "true"
  BY <1>2, <1>3, <1>4, <1>6
<1>9. /\ p.type = "vmess" => {"uuid", "aid", "cipher"} \subseteq K /\ "flow" \notin K /\ "password" \notin K
      /\ p.type = "vless" => {"uuid", "flow"} \subseteq K /\ "aid" \notin K /\ "cipher" \notin K /\ "password" \notin K
      /\ p.type = "trojan" => "password" \in K
  BY <1>1, <1>2, <1>3, <1>4
<1>10. /\ q.path = (IF p.network \in Streams THEN p.path ELSE None)
       /\ q.host = (IF p.network \in Streams THEN p.host ELSE None)
       /\ q.svc = (IF p.network = "grpc" THEN p.svc ELSE None)
       /\ q.network = Or(p.network, "tcp")
  BY <1>5, <1>7 DEF V2rayFound, Options
<1>11. /\ q.sni = (IF p.reality = "true" \/ p.tls = "true" THEN p.sni ELSE None)
       /\ q.alpn = (IF p.reality # "true" /\ p.tls = "true" THEN p.alpn ELSE None)
       /\ q.reality = (IF p.reality = "true" THEN "true" ELSE None)
       /\ q.pbk = (IF p.reality = "true" THEN p.pbk ELSE None)
       /\ q.sid = (IF p.reality = "true" THEN p.sid ELSE None)
  <2>1. /\ q.sni = (IF "sni" \in K THEN p.sni ELSE None)
        /\ q.alpn = (IF "alpn" \in K THEN p.alpn ELSE None)
    BY <1>5 DEF V2rayFound, Options
  <2>2. /\ q.reality = (IF "reality" \in K THEN p.reality ELSE None)
        /\ q.pbk = (IF "pbk" \in K THEN p.pbk ELSE None)
        /\ q.sid = (IF "sid" \in K THEN p.sid ELSE None)
    BY <1>5 DEF V2rayFound, Options
  <2>. QED BY <1>8, <2>1, <2>2
<1>12. q.tls = IF p.reality = "true" THEN "true" ELSE Or(p.tls, "false")
  BY <1>5, <1>7, <1>11, WordsAre DEF V2rayFound, Words
<1>13. V2rayStreamKept(p, q)
  BY <1>10, <1>11, <1>12 DEF V2rayStreamKept
<1>14. CASE p.type = "vmess"
  <2>1. q.aid = Or(p.aid, "0") /\ q.cipher = Or(p.cipher, "auto") /\ q.flow = None
    BY <1>5, <1>9, <1>14 DEF V2rayFound, Options
  <2>2. q.uuid = p.uuid
    <3>1. q.password = None
      BY <1>5, <1>9, <1>14 DEF V2rayFound, Options
    <3>. QED BY <1>5, <1>9, <1>14, <3>1 DEF V2rayFound
  <2>. QED BY <1>13, <1>14, <2>1, <2>2
<1>15. CASE p.type = "vless"
  <2>1. q.aid = None /\ q.cipher = None /\ q.password = None
    BY <1>5, <1>9, <1>15 DEF V2rayFound, Options
  <2>2. q.uuid = p.uuid
    BY <1>5, <1>9, <1>15, <2>1 DEF V2rayFound
  <2>3. q.flow = Fill(p.flow)
    <3>1. q.flow = IF Or(p.flow, "") # "" THEN Or(p.flow, "") ELSE None
      BY <1>5, <1>9, <1>15 DEF V2rayFound
    <3>. QED BY <3>1 DEF Or, Fill, Given
  <2>. QED BY <1>13, <1>15, <2>1, <2>2, <2>3
<1>16. CASE p.type = "trojan"
  <2>1. q.password = p.password
    BY <1>5, <1>9, <1>16 DEF V2rayFound, Options
  <2>. QED BY <1>13, <1>16, <2>1
<1>. QED BY <1>14, <1>15, <1>16

\* An ss node through v2ray.
LEMMA V2raySs ==
  ASSUME NEW p, IsNode(p), p.type = "ss", NEW q, V2rayReads(p, q)
  PROVE  /\ q.password = p.password /\ q.method = Or(SsMethod(p), "aes-256-gcm")
         /\ q.plugin = None /\ q.opts = None /\ q.cipher = None /\ q.alpn = None
<1>. DEFINE K == V2rayKeys(p)
            d == V2rayDefaults(p)
<1>1. K = {"method", "password"}
  <2>1. V2rayStream(p) = {}
    BY DEF V2rayStream
  <2>. QED BY <2>1 DEF V2rayKeys, V2rayOptions
<1>2. V2rayFound(p, q, K, d)
  BY V2rayOptionFound
<1>. HIDE DEF K, d
<1>3. q.password = p.password /\ q.method = Or(SsMethod(p), "aes-256-gcm")
  BY <1>1, <1>2 DEF V2rayFound, Options
<1>4. q.plugin = None /\ q.opts = None /\ q.cipher = None /\ q.alpn = None
  BY <1>1, <1>2 DEF V2rayFound, Options
<1>. QED BY <1>3, <1>4

-----------------------------------------------------------------------------
(* REALITY comes with TLS, and a type is read as one *)

\* REALITY is a kind of TLS.
Guarded(p) == p.reality = "true" => p.tls = "true"

\* What a parser of documents reads is guarded,
LEMMA ReadGuarded ==
  ASSUME NEW format \in Readable, NEW e, IsEntry(e)
  PROVE  Guarded(From(format, e))
<1>1. Guarded(FromClash(e))
  <2>. DEFINE n == NodeOf(e, Options \ {"user"})
              a == IF n.type = "anytls" THEN "other" ELSE n.type
  <2>0. IsNode(n)
    BY NodeOfIs
  <2>1. n = [k \in Fields |-> n[k]]
    BY <2>0 DEF IsNode
  <2>2. FromClash(e) = IF n.reality = "true" THEN [n EXCEPT !.type = a, !.tls = "true"] ELSE [n EXCEPT !.type = a]
    BY <2>1, FieldsApart DEF FromClash, Options, Always
  <2>. HIDE DEF n, a
  <2>. QED BY <2>1, <2>2, FieldsApart DEF Guarded, Options
<1>2. Guarded(FromSingbox(e))
  <2>. DEFINE n == NodeOf(e, Options \ {"cipher", "aid"})
              a == IF n.type = "http" THEN "other" ELSE n.type
  <2>0. IsNode(n)
    BY NodeOfIs
  <2>1. n = [k \in Fields |-> n[k]]
    BY <2>0 DEF IsNode
  <2>2. FromSingbox(e) = [n EXCEPT !.type = a, !.tls = IF n.reality = "true" THEN "true" ELSE Or(n.tls, "false")]
    BY DEF FromSingbox
  <2>. HIDE DEF n, a
  <2>. QED BY <2>1, <2>2, FieldsApart DEF Guarded, Options
<1>3. Guarded(FromV2ray(e))
  <2>. DEFINE n == NodeOf(e, Options)
              u == Or(n.uuid, n.password)
              f == IF e.type = "vless" /\ n.flow = "" THEN None ELSE n.flow
  <2>0. IsNode(n)
    BY NodeOfIs
  <2>1. n = [k \in Fields |-> n[k]]
    BY <2>0 DEF IsNode
  <2>2. FromV2ray(e) = [n EXCEPT !.uuid = u, !.tls = IF n.reality = "true" THEN "true" ELSE n.tls, !.flow = f]
    BY DEF FromV2ray
  <2>. HIDE DEF n, u, f
  <2>. QED BY <2>1, <2>2, FieldsApart DEF Guarded, Options
<1>. QED BY <1>1, <1>2, <1>3 DEF From

\* and so is what the reader of links reads.
LEMMA LinkGuarded ==
  ASSUME NEW e, IsEntry(e), IsNodeLink(e)
  PROVE  Guarded(FromLink(e))
<1>. DEFINE n == NodeOf(e, LinkOptions[e.type])
<1>1. /\ n = [k \in Fields |-> n[k]]
      /\ \A k \in Options : n[k] = IF k \in LinkOptions[e.type] \cap DOMAIN e THEN e[k] ELSE None
  BY NodeOfIs DEF IsNode
<1>2. CASE e.type = "vless"
  <2>. DEFINE b == IF Given(n.pbk) THEN n.pbk ELSE None
  <2>1. FromLink(e) = [n EXCEPT !.tls = IF n.reality = "true" THEN "true" ELSE Or(n.tls, "true"), !.pbk = b]
    BY <1>2 DEF FromLink
  <2>. HIDE DEF n, b
  <2>. QED BY <1>1, <2>1, FieldsApart DEF Guarded, Options
<1>3. CASE e.type # "vless"
  <2>1. e.type \in {"vmess", "trojan", "ss", "hysteria2", "tuic", "anytls", "socks5", "http"}
    BY <1>3 DEF IsNodeLink, LinkOptions
  <2>2. "reality" \notin LinkOptions[e.type]
    <3>1. CASE e.type \in {"vmess", "trojan", "ss", "hysteria2"}
      BY <3>1 DEF LinkOptions
    <3>2. CASE e.type \in {"tuic", "anytls", "socks5", "http"}
      BY <3>2 DEF LinkOptions
    <3>. QED BY <2>1, <3>1, <3>2
  <2>3. n.reality = None
    BY <1>1, <2>2 DEF Options
  <2>4. \/ \E a, b, c : FromLink(e) = [n EXCEPT !.cipher = a, !.tls = b, !.sni = c]
        \/ FromLink(e) = [n EXCEPT !.tls = "true"]
        \/ FromLink(e) = n
    <3>1. CASE e.type = "vmess"
      <4>. DEFINE a == Or(n.cipher, "aes-128-gcm")
                  b == Or(n.tls, "false")
                  c == Or(n.sni, n.host)
      <4>1. FromLink(e) = [n EXCEPT !.cipher = a, !.tls = b, !.sni = c]
        BY <3>1 DEF FromLink
      <4>. HIDE DEF a, b, c, n
      <4>. QED BY <4>1
    <3>2. CASE e.type \in {"trojan", "hysteria2", "tuic", "anytls"}
      BY <3>2 DEF FromLink
    <3>3. CASE e.type \in {"ss", "socks5", "http"}
      BY <3>3 DEF FromLink
    <3>. QED BY <2>1, <3>1, <3>2, <3>3
  <2>. HIDE DEF n
  <2>5. FromLink(e).reality = None
    BY <1>1, <2>3, <2>4, FieldsApart DEF Options
  <2>. QED BY <2>5, WordsAre DEF Guarded, Words
<1>. QED BY <1>2, <1>3

\* What a reader finds of a node that was written, in each of the formats.
LEMMA ReadAs ==
  ASSUME NEW format \in Readable, NEW p, IsNode(p), IsUsable(p), Represented(format, p)
  PROVE  /\ format \in {"clash", "base64"} => ClashReads(p, From(format, To(format, p)))
         /\ format = "sing-box" => /\ p.type \in DOMAIN SingboxOptions
                                   /\ SingboxReads(p, From(format, To(format, p)))
         /\ format = "v2ray" => /\ p.type \in DOMAIN V2rayOptions
                                /\ V2rayReads(p, From(format, To(format, p)))
         /\ From(format, To(format, p)).name = p.name
<1>0. From(format, To(format, p)).name = p.name
  <2>1. IsEntry(To(format, p)) /\ To(format, p).name = p.name
    BY ToIs DEF Always
  <2>. QED BY <2>1, FromIs DEF AsRead
<1>1. CASE format \in {"clash", "base64"}
  <2>1. ClashReads(p, From(format, To(format, p)))
    BY <1>1, UsableType, ReadsClash DEF From, To
  <2>. QED BY <1>0, <1>1, <2>1
<1>2. CASE format = "sing-box"
  <2>1. p.type \in DOMAIN SingboxOptions
    BY <1>2 DEF Represented
  <2>2. SingboxReads(p, From(format, To(format, p)))
    BY <1>2, <2>1, ReadsSingbox DEF From, To
  <2>. QED BY <1>0, <1>2, <2>1, <2>2
<1>3. CASE format = "v2ray"
  <2>1. p.type \in DOMAIN V2rayOptions
    BY <1>3 DEF Represented
  <2>2. V2rayReads(p, From(format, To(format, p)))
    BY <1>3, <2>1, ReadsV2ray DEF From, To
  <2>. QED BY <1>0, <1>3, <2>1, <2>2
<1>. QED BY <1>1, <1>2, <1>3 DEF Readable

\* The types a format can express.
LEMMA TypesOf ==
  /\ DOMAIN ClashOptions = {"ss", "trojan", "vmess", "vless", "hysteria2", "tuic", "anytls", "socks5", "http"}
  /\ DOMAIN SingboxOptions = {"vmess", "vless", "trojan", "ss", "hysteria2", "tuic", "socks5", "http"}
  /\ DOMAIN V2rayOptions = {"vmess", "vless", "trojan", "ss"}
<1>1. DOMAIN ClashOptions = {"ss", "trojan", "vmess", "vless", "hysteria2", "tuic", "anytls", "socks5", "http"}
  BY DEF ClashOptions
<1>2. DOMAIN SingboxOptions = {"vmess", "vless", "trojan", "ss", "hysteria2", "tuic", "socks5", "http"}
  BY DEF SingboxOptions
<1>3. DOMAIN V2rayOptions = {"vmess", "vless", "trojan", "ss"}
  BY DEF V2rayOptions
<1>. QED BY <1>1, <1>2, <1>3

\* Whatever a node was written as, what is read of it is whole.
LEMMA ReadWhole ==
  ASSUME NEW format \in Readable, NEW p, IsNode(p), IsUsable(p), Represented(format, p)
  PROVE  Whole(From(format, To(format, p)))
<1>. DEFINE q == From(format, To(format, p))
<1>0. IsNode(q)
  BY ToIs, FromIs
<1>1. CASE format \in {"clash", "base64"}
  <2>1. ClashReads(p, q)
    BY <1>1, ReadAs
  <2>. HIDE DEF q
  <2>2. q.type = IF p.type = "anytls" THEN "other" ELSE p.type
    BY <2>1 DEF ClashReads
  <2>3. p.type = "tuic" => Given(q.password)
    BY <2>1, ClashTuic DEF IsUsable, IsExportable, Fill
  <2>4. p.type = "ss" => q.method = None
    BY <2>1, ClashSs
  <2>. QED BY <2>2, <2>3, <2>4 DEF Whole, OneMethod, Or, q
<1>2. CASE format = "sing-box"
  <2>1. SingboxReads(p, q)
    BY <1>2, ReadAs
  <2>. HIDE DEF q
  <2>2. q.type = IF p.type = "http" THEN "other" ELSE p.type
    BY <2>1 DEF SingboxReads
  <2>3. p.type = "tuic" => Given(q.password)
    BY <2>1, SingboxTuic DEF IsUsable, IsExportable
  <2>4. p.type = "ss" => q.cipher = None
    BY <2>1, SingboxSs
  <2>. QED BY <2>2, <2>3, <2>4 DEF Whole, OneMethod, Or, q
<1>3. CASE format = "v2ray"
  <2>1. V2rayReads(p, q) /\ p.type # "tuic"
    BY <1>3, ReadAs, TypesOf
  <2>. HIDE DEF q
  <2>2. q.type = p.type
    BY <2>1 DEF V2rayReads
  <2>3. p.type = "ss" => q.cipher = None
    BY <2>1, V2raySs
  <2>. QED BY <2>1, <2>2, <2>3 DEF Whole, OneMethod, Or, q
<1>. QED BY <1>1, <1>2, <1>3 DEF Readable

-----------------------------------------------------------------------------
(* What a node keeps of its identity *)

\* What is read back of a document, node by node.
LEMMA TripIs ==
  ASSUME NumbersAreWords, TypeOK, Answered, ReadBack, doc.format # "surge"
  PROVE  LET w == Written(sent, doc.format)
         IN  /\ doc.format \in Readable /\ Len(nodes') = Len(w) /\ DOMAIN nodes' = DOMAIN w
             /\ \A k \in DOMAIN w :
                   /\ IsNode(w[k]) /\ IsUsable(w[k]) /\ Represented(doc.format, w[k])
                   /\ \E i \in DOMAIN nodes : Alike(w[k], nodes[i])
                   /\ nodes'[k] = From(doc.format, To(doc.format, w[k]))
<1>. DEFINE w == Written(sent, doc.format)
<1>1. /\ asked \in Requests /\ sent = Selected(asked) /\ IsListOf(sent, IsNode) /\ IsListOf(nodes, IsNode)
      /\ doc.format = asked.format /\ doc.entries = ExportStr(sent, asked.format)
      /\ IsListOf(doc.entries, IsEntry) /\ nodes' = Parse(doc.format, doc.entries)
  BY DEF ReadBack, TypeOK, Answered
<1>2. doc.format \in DocFormats /\ doc.format # "links"
  BY <1>1, RequestIs
<1>3. /\ doc.format \in Readable /\ DOMAIN doc.entries = DOMAIN w
      /\ \A k \in DOMAIN w : doc.entries[k] = To(doc.format, w[k])
  BY <1>1, <1>2, ExportIs
<1>4. /\ Drawn(w, sent) /\ \A k \in DOMAIN w : IsUsable(w[k]) /\ Represented(doc.format, w[k])
  BY <1>1, WrittenIs
<1>5. Drawn(w, nodes)
  BY <1>1, <1>4, SelectedIs, DrawnTwice
<1>6. IsListOf(w, IsNode) /\ \A k \in DOMAIN w : \E i \in DOMAIN nodes : Alike(w[k], nodes[i])
  BY <1>5 DEF Drawn
<1>. HIDE DEF w
<1>7. /\ Len(nodes') = Len(doc.entries) /\ DOMAIN nodes' = DOMAIN doc.entries
      /\ \A k \in DOMAIN doc.entries : nodes'[k] = From(doc.format, doc.entries[k])
  BY <1>1, <1>2, <1>3, ParseIs
<1>8. Len(w) \in Nat /\ DOMAIN w = 1 .. Len(w) /\ \A k \in DOMAIN w : IsNode(w[k])
  BY <1>6, NodesAre
<1>9. Len(doc.entries) \in Nat /\ DOMAIN doc.entries = 1 .. Len(doc.entries)
  BY <1>1, EntriesAre
<1>10. Len(doc.entries) = Len(w)
  BY <1>3, <1>8, <1>9
<1>. QED BY <1>3, <1>4, <1>6, <1>7, <1>8, <1>10 DEF w

\* An empty option says as much as one that is missing.
LEMMA FillIs ==
  ASSUME NEW v
  PROVE  Or(Fill(v), "") = Or(v, "")
BY WordsAre DEF Fill, Given, Or, Words

\* Two values that say the same, an absent one and an empty text alike.
Agree(v, w) == Or(v, "") = Or(w, "")

\* Values that agree stand for the same text.
LEMMA Agreeing ==
  ASSUME NEW v, NEW w
  PROVE  Agree(v, w) <=> Or(v, "") = Or(w, "")
BY DEF Agree

\* What a node authenticates with comes back.
LEMMA CredentialsRead ==
  ASSUME NEW format \in Readable, NEW p, IsNode(p), IsUsable(p), Represented(format, p),
         NEW q, q = From(format, To(format, p)), NEW k \in Credentials(p)
  PROVE  Agree(p[k], q[k])
<1>. SUFFICES Or(p[k], "") = Or(q[k], "")
  BY Agreeing
<1>0. p.type \in DOMAIN ClashOptions
  BY UsableType
<1>1. CASE format \in {"clash", "base64"}
  <2>1. ClashReads(p, q)
    BY <1>1, ReadAs
  <2>2. CASE p.type \in {"vmess", "vless"}
    <3>1. k = "uuid"
      BY <2>2 DEF Credentials
    <3>2. CASE p.type = "vmess"
      <4>1. q.uuid = Fill(p.uuid)
        BY <2>1, <3>2, ClashVmess
      <4>. QED BY <3>1, <4>1, FillIs
    <3>3. CASE p.type = "vless"
      <4>1. q.uuid = Fill(p.uuid)
        BY <2>1, <3>3, ClashVless
      <4>. QED BY <3>1, <4>1, FillIs
    <3>. QED BY <2>2, <3>2, <3>3
  <2>3. CASE p.type = "tuic"
    <3>1. k \in {"uuid", "password"}
      BY <2>3 DEF Credentials
    <3>2. q.uuid = Fill(p.uuid) /\ q.password = Fill(p.password)
      BY <2>1, <2>3, ClashTuic
    <3>. QED BY <3>1, <3>2, FillIs
  <2>4. CASE p.type \notin {"vmess", "vless", "tuic"}
    <3>1. k = "password"
      BY <2>4 DEF Credentials
    <3>2. q.password = Fill(p.password)
      <4>1. CASE p.type = "hysteria2"
        BY <2>1, <4>1, ClashHysteria2
      <4>2. CASE p.type \in {"ss", "trojan"}
        BY <2>1, <4>2, ClashSs, ClashTrojan
      <4>3. CASE p.type \in {"socks5", "http", "anytls"}
        BY <2>1, <4>3, ClashPlain
      <4>. QED BY <1>0, <2>4, <4>1, <4>2, <4>3, TypesOf
    <3>. QED BY <3>1, <3>2, FillIs
  <2>. QED BY <2>2, <2>3, <2>4
<1>2. CASE format = "sing-box"
  <2>1. SingboxReads(p, q) /\ p.type \in DOMAIN SingboxOptions
    BY <1>2, ReadAs
  <2>2. CASE p.type \in {"vmess", "vless"}
    <3>1. k = "uuid"
      BY <2>2 DEF Credentials
    <3>. QED BY <2>1, <2>2, <3>1, SingboxStreams
  <2>3. CASE p.type = "tuic"
    <3>1. k \in {"uuid", "password"}
      BY <2>3 DEF Credentials
    <3>2. q.uuid = p.uuid /\ q.password = p.password
      BY <2>1, <2>3, SingboxTuic
    <3>. QED BY <3>1, <3>2
  <2>4. CASE p.type \notin {"vmess", "vless", "tuic"}
    <3>1. k = "password"
      BY <2>4 DEF Credentials
    <3>2. q.password = p.password
      <4>1. CASE p.type = "hysteria2"
        BY <2>1, <4>1, SingboxHysteria2
      <4>2. CASE p.type \in {"ss", "trojan"}
        BY <2>1, <4>2, SingboxSs, SingboxStreams
      <4>3. CASE p.type \in {"socks5", "http"}
        BY <2>1, <4>3, SingboxPlain
      <4>. QED BY <2>1, <2>4, <4>1, <4>2, <4>3, TypesOf
    <3>. QED BY <3>1, <3>2
  <2>. QED BY <2>2, <2>3, <2>4
<1>3. CASE format = "v2ray"
  <2>1. V2rayReads(p, q) /\ p.type \in DOMAIN V2rayOptions
    BY <1>3, ReadAs
  <2>2. CASE p.type \in {"vmess", "vless"}
    <3>1. k = "uuid"
      BY <2>2 DEF Credentials
    <3>. QED BY <2>1, <2>2, <3>1, V2rayStreams
  <2>3. CASE p.type \in {"trojan", "ss"}
    <3>1. k = "password"
      BY <2>3 DEF Credentials
    <3>. QED BY <2>1, <2>3, <3>1, V2rayStreams, V2raySs
  <2>. QED BY <2>1, <2>2, <2>3, TypesOf
<1>. QED BY <1>1, <1>2, <1>3 DEF Readable

\* So does the method of an ss node that has one.
LEMMA MethodRead ==
  ASSUME NEW format \in Readable, NEW p, IsNode(p), IsUsable(p), Represented(format, p),
         NEW q, q = From(format, To(format, p)), p.type = "ss", OneMethod(p)
  PROVE  SsMethod(q) = SsMethod(p)
<1>1. SsMethod(p) = Or(p.cipher, p.method) /\ Given(SsMethod(p))
  <2>1. Given(p.cipher) \/ Given(p.method)
    BY DEF IsUsable, IsExportable
  <2>2. Or(p.cipher, p.method) = Or(p.method, p.cipher)
    BY DEF OneMethod
  <2>. QED BY <2>1, <2>2 DEF SsMethod, Given, Or
<1>2. \/ q.cipher = SsMethod(p) /\ q.method = None
      \/ q.cipher = None /\ q.method = SsMethod(p)
  <2>1. CASE format \in {"clash", "base64"}
    <3>1. ClashReads(p, q)
      BY <2>1, ReadAs
    <3>. QED BY <1>1, <3>1, ClashSs DEF Fill
  <2>2. CASE format = "sing-box"
    <3>1. SingboxReads(p, q)
      BY <2>2, ReadAs
    <3>. QED BY <1>1, <3>1, SingboxSs DEF Or, Given
  <2>3. CASE format = "v2ray"
    <3>1. V2rayReads(p, q)
      BY <2>3, ReadAs
    <3>. QED BY <1>1, <3>1, V2raySs DEF Or, Given
  <2>. QED BY <2>1, <2>2, <2>3 DEF Readable
<1>3. Or(q.method, q.cipher) = SsMethod(p)
  BY <1>2 DEF Or
<1>4. SsMethod(q) = SsMethod(p)
  <2>1. SsMethod(q) = IF Given(Or(q.method, q.cipher)) THEN Or(q.method, q.cipher) ELSE None
    BY DEF SsMethod
  <2>. QED BY <1>1, <1>3, <2>1
<1>. QED BY <1>4

\* A node comes back at its address, with its name, and with its type if the
\* reader knows it.
LEMMA TypeRead ==
  ASSUME NEW format \in Readable, NEW p, IsNode(p), IsUsable(p), Represented(format, p),
         NEW q, q = From(format, To(format, p))
  PROVE  /\ q.server = p.server /\ q.port = p.port /\ q.name = p.name
         /\ q.type = IF TypeUnknown(format, p.type) THEN "other" ELSE p.type
<1>1. CASE format \in {"clash", "base64"}
  <2>1. ClashReads(p, q) /\ q.name = p.name
    BY <1>1, ReadAs
  <2>. QED BY <1>1, <2>1 DEF ClashReads, TypeUnknown
<1>2. CASE format = "sing-box"
  <2>1. SingboxReads(p, q) /\ q.name = p.name
    BY <1>2, ReadAs
  <2>. QED BY <1>2, <2>1 DEF SingboxReads, TypeUnknown
<1>3. CASE format = "v2ray"
  <2>1. V2rayReads(p, q) /\ q.name = p.name
    BY <1>3, ReadAs
  <2>. QED BY <1>3, <2>1 DEF V2rayReads, TypeUnknown
<1>. QED BY <1>1, <1>2, <1>3 DEF Readable

-----------------------------------------------------------------------------
(* A node keeps its identity on every trip. *)

\* Documents of others give their ss nodes one method each.
SourcesOneMethod ==
    \A d \in Sources : \A i \in DOMAIN Parse(d.format, d.entries) :
        OneMethod(Parse(d.format, d.entries)[i])

AllOneMethod(s) == \A i \in DOMAIN s : OneMethod(s[i])

\* How many methods a node has depends on its type and its options only,
LEMMA OneMethodIsOptions ==
  ASSUME NEW p, OneMethod(p), NEW q, \A k \in Always \cup Options : q[k] = p[k]
  PROVE  OneMethod(q)
<1>1. q.type = p.type /\ q.cipher = p.cipher /\ q.method = p.method
  BY DEF Always, Options
<1>. QED BY <1>1 DEF OneMethod

\* so its name does not matter.
LEMMA AlikeOneMethod ==
  ASSUME NEW p, IsNode(p), OneMethod(p), NEW q, Alike(q, p)
  PROVE  OneMethod(q)
<1>1. q.type = p.type /\ q.cipher = p.cipher /\ q.method = p.method
  BY AlikeIs, FieldsApart DEF Always, Options
<1>. QED BY <1>1 DEF OneMethod

\* If the ss nodes of the sources have one method each, those of a hub have.
LEMMA AlwaysOneMethod == ASSUME NumbersAreWords, SourcesOneMethod PROVE Spec => []AllOneMethod(nodes)
<1>1. Init => AllOneMethod(nodes)
  BY DEF Init, AllOneMethod
<1>2. ASSUME TypeOK, Answered, AllOneMethod(nodes), [Next]_vars PROVE AllOneMethod(nodes)'
  <2>1. ASSUME NEW d \in Sources, Fetch(d) PROVE AllOneMethod(nodes')
    BY <2>1 DEF Fetch, AllOneMethod, SourcesOneMethod
  <2>2. ASSUME SpeedTest \/ GeoDetect \/ UnlockDetect PROVE AllOneMethod(nodes')
    BY <1>2, <2>2, TestsKeepNodes, OneMethodIsOptions DEF TypeOK, AllOneMethod
  <2>3. ASSUME NEW r \in Requests, Answer(r) PROVE AllOneMethod(nodes')
    BY <1>2, <2>3 DEF Answer
  <2>4. ASSUME ReadBack PROVE AllOneMethod(nodes')
    <3>1. CASE doc.format = "surge"
      <4>1. IsListOf(doc.entries, IsEntry) /\ nodes' = Parse("surge", doc.entries)
        BY <1>2, <2>4, <3>1 DEF ReadBack, TypeOK
      <4>2. "surge" \in DocFormats
        BY DEF DocFormats
      <4>3. nodes' = <<>>
        BY <4>1, <4>2, ParseIs
      <4>. QED BY <4>3 DEF AllOneMethod
    <3>2. CASE doc.format # "surge"
      BY <1>2, <2>4, <3>2, TripIs, ReadWhole DEF AllOneMethod, Whole
    <3>. QED BY <3>1, <3>2
  <2>5. CASE UNCHANGED vars
    BY <1>2, <2>5 DEF vars
  <2>. QED BY <1>2, <2>1, <2>2, <2>3, <2>4, <2>5 DEF Next
<1>. QED BY <1>1, <1>2, AlwaysAnswered, PTL DEF Spec

\* Read back from a document in any of the formats that can be read, a node is
\* at its place, at its address, under its name, of its type and with its
\* credentials.
THEOREM IdentityIsKept == ASSUME NumbersAreWords, SourcesOneMethod PROVE Spec => IdentityKept
<1>1. ASSUME TypeOK, Answered, AllOneMethod(nodes) PROVE Trip(SameIdentity)
  <2>. SUFFICES ASSUME ReadBack, doc.format # "surge"
                PROVE  LET w == Written(sent, doc.format)
                       IN  /\ Len(nodes') = Len(w)
                           /\ \A k \in DOMAIN w : SameIdentity(w[k], nodes'[k])
    BY DEF Trip
  <2>. DEFINE w == Written(sent, doc.format)
  <2>1. /\ doc.format \in Readable /\ Len(nodes') = Len(w)
        /\ \A k \in DOMAIN w :
             /\ IsNode(w[k]) /\ IsUsable(w[k]) /\ Represented(doc.format, w[k])
             /\ \E i \in DOMAIN nodes : Alike(w[k], nodes[i])
             /\ nodes'[k] = From(doc.format, To(doc.format, w[k]))
    BY <1>1, TripIs
  <2>. HIDE DEF w
  <2>2. ASSUME NEW k \in DOMAIN w PROVE SameIdentity(w[k], nodes'[k])
    <3>. DEFINE p == w[k]
                q == nodes'[k]
    <3>1. IsNode(p) /\ IsUsable(p) /\ Represented(doc.format, p) /\ q = From(doc.format, To(doc.format, p))
      BY <2>1
    <3>2. OneMethod(p)
      <4>1. PICK i \in DOMAIN nodes : Alike(p, nodes[i])
        BY <2>1
      <4>2. IsNode(nodes[i]) /\ OneMethod(nodes[i])
        BY <1>1, NodesAre DEF TypeOK, AllOneMethod
      <4>. QED BY <4>1, <4>2, AlikeOneMethod
    <3>. HIDE DEF p, q
    <3>3. /\ q.server = p.server /\ q.port = p.port /\ q.name = p.name
          /\ q.type = IF TypeUnknown(doc.format, p.type) THEN "other" ELSE p.type
      BY <2>1, <3>1, TypeRead
    <3>4. p.type = "ss" => SsMethod(q) = SsMethod(p)
      BY <2>1, <3>1, <3>2, MethodRead
    <3>5. ASSUME NEW c \in Credentials(p) PROVE Agree(p[c], q[c])
      BY <2>1, <3>1, CredentialsRead
    <3>6. SameIdentity(p, q)
      BY <3>3, <3>4, <3>5 DEF SameIdentity, Same, Agree
    <3>. QED BY <3>6 DEF p, q
  <2>. QED BY <2>1, <2>2 DEF w
<1>. QED BY <1>1, AlwaysAnswered, AlwaysOneMethod, PTL DEF IdentityKept

-----------------------------------------------------------------------------
(* What a node keeps of its connection *)

\* What is kept of the transport.
TransportSame(format, p, q) ==
    \/ /\ Transport(q) = Transport(p)
       /\ Transport(p) \in {"ws", "h2"} => Same(p, q, {"path", "host"})
       /\ Transport(p) = "grpc" => Same(p, q, {"svc"})
    \/ format = "sing-box" /\ NoTransport(p) /\ Transport(q) = "tcp"

\* Which transports there are.
LEMMA TransportIs ==
  ASSUME NEW p, p.network \in Texts
  PROVE  /\ Transport(p) = IF p.network \in {None, "", "tcp"} THEN "tcp"
                           ELSE IF p.network \in {"h2", "http"} THEN "h2" ELSE p.network
         /\ Transport(p) \in {"ws", "h2"} => p.network \in Streams
         /\ Transport(p) = "grpc" => p.network = "grpc"
<1>1. Transport(p) = IF p.network \in {None, "", "tcp"} THEN "tcp"
                     ELSE IF p.network \in {"h2", "http"} THEN "h2" ELSE p.network
  <2>1. {None, "", "tcp"} \cap {"h2", "http"} = {}
    BY WordsAre DEF Words
  <2>. QED BY <2>1 DEF Transport
<1>. QED BY <1>1 DEF Streams

\* A transport that is kept with its options is the same one.
LEMMA StreamsKept ==
  ASSUME NEW p, NEW q, p.network \in Texts, q.network \in Texts, Transport(q) = Transport(p),
         p.network \in Streams => Or(p.path, "") = Or(q.path, "") /\ Or(p.host, "") = Or(q.host, ""),
         p.network = "grpc" => Or(p.svc, "") = Or(q.svc, ""), NEW format
  PROVE  TransportSame(format, p, q)
<1>1. Transport(p) \in {"ws", "h2"} => Same(p, q, {"path", "host"})
  BY TransportIs DEF Same
<1>2. Transport(p) = "grpc" => Same(p, q, {"svc"})
  BY TransportIs DEF Same
<1>. QED BY <1>1, <1>2 DEF TransportSame

\* The transport through clash,
LEMMA ClashTransportSame ==
  ASSUME NEW p, IsNode(p), NEW q, IsNode(q), TransportKept(p, q), NEW format
  PROVE  TransportSame(format, p, q)
<1>1. p.network \in Texts /\ q.network \in Texts
  BY DEF IsNode, Options, Texts
<1>2. /\ q.network = Fill(p.network)
      /\ p.network \in Streams => q.path = Fill(p.path) /\ q.host = Fill(p.host)
      /\ p.network = "grpc" => q.svc = Fill(p.svc)
  BY DEF TransportKept
<1>3. Transport(q) = Transport(p)
  <2>1. None \notin {"", "tcp", "h2", "http"}
    BY WordsAre DEF Words
  <2>. QED BY <1>1, <1>2, <2>1, TransportIs DEF Fill, Given
<1>. QED BY <1>1, <1>2, <1>3, StreamsKept, FillIs

\* through v2ray,
LEMMA V2rayTransportSame ==
  ASSUME NEW p, IsNode(p), NEW q, IsNode(q), V2rayStreamKept(p, q), NEW format
  PROVE  TransportSame(format, p, q)
<1>1. p.network \in Texts /\ q.network \in Texts
  BY DEF IsNode, Options, Texts
<1>2. /\ q.network = Or(p.network, "tcp")
      /\ p.network \in Streams => q.path = p.path /\ q.host = p.host
      /\ p.network = "grpc" => q.svc = p.svc
  BY DEF V2rayStreamKept
<1>3. Transport(q) = Transport(p)
  BY <1>1, <1>2, TransportIs DEF Or
<1>. QED BY <1>1, <1>2, <1>3, StreamsKept

\* and through sing-box.
LEMMA SingboxTransportSame ==
  ASSUME NEW p, IsNode(p), NEW q, IsNode(q), SingboxStream(p, q)
  PROVE  TransportSame("sing-box", p, q)
<1>1. p.network \in Texts /\ q.network \in Texts
  BY DEF IsNode, Options, Texts
<1>2. /\ p.network \in {"h2", "http"} => q.network = "h2"
      /\ p.network \in {"ws"} \cup {n \in {"grpc"} : p.svc # None} => q.network = p.network
      /\ p.network \notin {"h2", "http", "ws", "grpc"} => q.network = None
      /\ p.network = "grpc" /\ p.svc = None => q.network = None
  BY DEF SingboxStream
<1>3. /\ p.network \in Streams => q.path = p.path /\ q.host = p.host
      /\ p.network = "grpc" => q.svc = p.svc
  BY DEF SingboxStream, Streams
<1>4. CASE p.network \in {None, "", "tcp"}
  <2>1. q.network = None
    BY <1>2, <1>4, WordsAre DEF Words
  <2>2. Transport(q) = Transport(p)
    BY <1>1, <1>4, <2>1, TransportIs
  <2>. QED BY <1>1, <1>3, <2>2, StreamsKept
<1>5. CASE p.network \in {"h2", "http"}
  <2>0. p.network \notin {None, "", "tcp"} /\ q.network = "h2" /\ "h2" # None
    BY <1>2, <1>5, WordsAre DEF Words
  <2>1. Transport(q) = Transport(p)
    BY <1>1, <1>5, <2>0, TransportIs
  <2>. QED BY <1>1, <1>3, <2>1, StreamsKept
<1>6. CASE p.network = "ws" \/ (p.network = "grpc" /\ p.svc # None)
  <2>1. q.network = p.network
    BY <1>2, <1>6
  <2>2. Transport(q) = Transport(p)
    BY <1>1, <2>1, TransportIs
  <2>. QED BY <1>1, <1>3, <2>2, StreamsKept
<1>7. CASE p.network \notin {None, "", "tcp", "h2", "http", "ws"} /\ (p.network = "grpc" => p.svc = None)
  <2>1. q.network = None
    BY <1>2, <1>7
  <2>2. Transport(q) = "tcp"
    BY <1>1, <2>1, TransportIs
  <2>3. NoTransport(p)
    BY <1>7 DEF NoTransport
  <2>. QED BY <2>2, <2>3 DEF TransportSame
<1>. QED BY <1>4, <1>5, <1>6, <1>7

\* What is kept of the security.
SecuritySame(p, q) ==
    /\ p.tls = "true" => q.tls = "true" /\ Or(p.sni, "") = Or(q.sni, "")
    /\ q.tls = "true" => p.tls = "true" \/ p.type = "trojan"
    /\ p.reality = "true" /\ p.type = "vless" =>
          q.reality = "true" /\ Or(p.pbk, "") = Or(q.pbk, "") /\ Or(p.sid, "") = Or(q.sid, "")

\* A guarded node comes back with its transport and its security.
LEMMA ConnectionRead ==
  ASSUME NEW format \in Readable, NEW p, IsNode(p), IsUsable(p), Represented(format, p), Guarded(p),
         p.type \in {"vmess", "vless", "trojan"}, NEW q, q = From(format, To(format, p))
  PROVE  TransportSame(format, p, q) /\ SecuritySame(p, q)
<1>0. IsNode(q)
  BY ToIs, FromIs
<1>1. CASE format \in {"clash", "base64"}
  <2>1. ClashReads(p, q)
    BY <1>1, ReadAs
  <2>2. TransportKept(p, q)
    BY <2>1, ClashVmess, ClashVless, ClashTrojan
  <2>3. SecuritySame(p, q)
    <3>1. CASE p.type = "vmess"
      <4>1. q.tls = Fill(Or(p.tls, "false")) /\ q.sni = Fill(p.sni)
        BY <2>1, <3>1, ClashVmess
      <4>2. q.tls = "true" <=> p.tls = "true"
        BY <4>1, WordsAre DEF Fill, Given, Or, Words
      <4>. QED BY <3>1, <4>1, <4>2, FillIs DEF SecuritySame
    <3>2. CASE p.type = "vless"
      <4>1. /\ q.sni = Fill(p.sni) /\ q.reality = (IF p.reality = "true" THEN "true" ELSE None)
            /\ q.tls = (IF p.reality = "true" THEN "true" ELSE Fill(Or(p.tls, "false")))
            /\ p.reality = "true" => q.pbk = Fill(p.pbk) /\ q.sid = Fill(p.sid)
        BY <2>1, <3>2, ClashVless
      <4>2. q.tls = "true" <=> p.tls = "true"
        BY <4>1, WordsAre DEF Fill, Given, Or, Words, Guarded
      <4>. QED BY <4>1, <4>2, FillIs DEF SecuritySame
    <3>3. CASE p.type = "trojan"
      <4>1. q.tls = "true" /\ q.sni = Fill(p.sni)
        BY <2>1, <3>3, ClashTrojan
      <4>. QED BY <3>3, <4>1, FillIs DEF SecuritySame
    <3>. QED BY <3>1, <3>2, <3>3
  <2>. QED BY <1>0, <2>2, <2>3, ClashTransportSame
<1>2. CASE format = "sing-box"
  <2>1. SingboxReads(p, q)
    BY <1>2, ReadAs
  <2>2. SingboxStream(p, q)
    BY <2>1, SingboxStreams
  <2>3. SecuritySame(p, q)
    <3>1. /\ q.tls = (IF p.tls = "true" THEN "true" ELSE "false")
          /\ p.tls = "true" => q.sni = p.sni
          /\ p.tls = "true" /\ p.reality = "true" => q.reality = "true" /\ q.pbk = p.pbk /\ q.sid = p.sid
      BY <2>2 DEF SingboxStream
    <3>2. q.tls = "true" <=> p.tls = "true"
      BY <3>1
    <3>. QED BY <3>1, <3>2 DEF SecuritySame, Guarded
  <2>. QED BY <1>0, <1>2, <2>2, <2>3, SingboxTransportSame
<1>3. CASE format = "v2ray"
  <2>1. V2rayReads(p, q)
    BY <1>3, ReadAs
  <2>2. V2rayStreamKept(p, q)
    BY <2>1, V2rayStreams
  <2>3. SecuritySame(p, q)
    <3>1. /\ q.tls = (IF p.reality = "true" THEN "true" ELSE Or(p.tls, "false"))
          /\ p.tls = "true" => q.sni = p.sni
          /\ p.reality = "true" => q.reality = "true" /\ q.pbk = p.pbk /\ q.sid = p.sid
      BY <2>2 DEF V2rayStreamKept
    <3>2. q.tls = "true" <=> p.tls = "true"
      BY <3>1, WordsAre DEF Guarded, Or, Words
    <3>. QED BY <3>1, <3>2 DEF SecuritySame
  <2>. QED BY <1>0, <2>2, <2>3, V2rayTransportSame
<1>. QED BY <1>1, <1>2, <1>3 DEF Readable

AllGuarded(s) == \A i \in DOMAIN s : Guarded(s[i])

\* Whether a node is guarded depends on its options only.
LEMMA GuardedIsOptions ==
  ASSUME NEW p, Guarded(p), NEW q, \A k \in Options : q[k] = p[k]
  PROVE  Guarded(q)
<1>1. q.reality = p.reality /\ q.tls = p.tls
  BY DEF Options
<1>. QED BY <1>1 DEF Guarded

\* Whatever document it is read from, a node with REALITY has TLS.
LEMMA ParseGuarded ==
  ASSUME NEW format \in DocFormats, NEW entries, IsListOf(entries, IsEntry)
  PROVE  AllGuarded(Parse(format, entries))
<1>. DEFINE all == Parse(format, entries)
<1>0. \A i \in DOMAIN entries : IsEntry(entries[i])
  BY EntriesAre
<1>1. CASE format \in Readable
  <2>1. DOMAIN all = DOMAIN entries /\ \A k \in DOMAIN entries : all[k] = From(format, entries[k])
    BY <1>1, ParseIs
  <2>. HIDE DEF all
  <2>2. ASSUME NEW k \in DOMAIN all PROVE Guarded(all[k])
    BY <1>0, <1>1, <2>1, ReadGuarded
  <2>. QED BY <2>2 DEF AllGuarded, all
<1>2. CASE format = "links"
  <2>1. \A k \in DOMAIN all : \E i \in DOMAIN entries : IsNodeLink(entries[i]) /\ all[k] = FromLink(entries[i])
    BY <1>2, ParseIs
  <2>. HIDE DEF all
  <2>2. ASSUME NEW k \in DOMAIN all PROVE Guarded(all[k])
    BY <1>0, <2>1, LinkGuarded
  <2>. QED BY <2>2 DEF AllGuarded, all
<1>3. CASE format = "surge"
  <2>1. Parse(format, entries) = <<>>
    BY <1>3, ParseIs
  <2>. QED BY <2>1 DEF AllGuarded
<1>. QED BY <1>1, <1>2, <1>3 DEF DocFormats, Readable

\* A hub holds guarded nodes only.
LEMMA AlwaysGuarded == ASSUME NumbersAreWords PROVE Spec => []AllGuarded(nodes)
<1>1. Init => AllGuarded(nodes)
  BY DEF Init, AllGuarded
<1>2. ASSUME TypeOK, AllGuarded(nodes), [Next]_vars PROVE AllGuarded(nodes)'
  <2>1. ASSUME NEW d \in Sources, Fetch(d) PROVE AllGuarded(nodes')
    <3>1. d.format \in DocFormats /\ IsListOf(d.entries, IsEntry)
      BY PublishAssumption
    <3>. QED BY <2>1, <3>1, ParseGuarded DEF Fetch
  <2>2. ASSUME SpeedTest \/ GeoDetect \/ UnlockDetect PROVE AllGuarded(nodes')
    BY <1>2, <2>2, TestsKeepNodes, GuardedIsOptions DEF TypeOK, AllGuarded
  <2>3. ASSUME NEW r \in Requests, Answer(r) PROVE AllGuarded(nodes')
    BY <1>2, <2>3 DEF Answer
  <2>4. ASSUME ReadBack PROVE AllGuarded(nodes')
    <3>1. asked \in Requests /\ doc.format = asked.format /\ IsListOf(doc.entries, IsEntry)
      BY <1>2, <2>4 DEF ReadBack, TypeOK
    <3>2. doc.format \in DocFormats
      BY <3>1, RequestIs
    <3>. QED BY <2>4, <3>1, <3>2, ParseGuarded DEF ReadBack
  <2>5. CASE UNCHANGED vars
    BY <1>2, <2>5 DEF vars
  <2>. QED BY <1>2, <2>1, <2>2, <2>3, <2>4, <2>5 DEF Next
<1>. QED BY <1>1, <1>2, TypeCorrect, PTL DEF Spec

\* Read back, a node is as protected as it was, over the transport it had, with
\* the exceptions the property names.
THEOREM ConnectionIsKept == ASSUME NumbersAreWords PROVE Spec => ConnectionKept
<1>1. ASSUME TypeOK, Answered, AllGuarded(nodes) PROVE Trip(SameConnection)
  <2>. SUFFICES ASSUME ReadBack, doc.format # "surge"
                PROVE  LET w == Written(sent, doc.format)
                       IN  /\ Len(nodes') = Len(w)
                           /\ \A k \in DOMAIN w : SameConnection(w[k], nodes'[k])
    BY DEF Trip
  <2>. DEFINE w == Written(sent, doc.format)
  <2>1. /\ doc.format \in Readable /\ Len(nodes') = Len(w)
        /\ \A k \in DOMAIN w :
             /\ IsNode(w[k]) /\ IsUsable(w[k]) /\ Represented(doc.format, w[k])
             /\ \E i \in DOMAIN nodes : Alike(w[k], nodes[i])
             /\ nodes'[k] = From(doc.format, To(doc.format, w[k]))
    BY <1>1, TripIs
  <2>. HIDE DEF w
  <2>2. ASSUME NEW k \in DOMAIN w PROVE SameConnection(w[k], nodes'[k])
    <3>. DEFINE p == w[k]
                q == nodes'[k]
                f == doc.format
    <3>1. IsNode(p) /\ IsUsable(p) /\ Represented(f, p) /\ q = From(f, To(f, p)) /\ f \in Readable
      BY <2>1
    <3>2. Guarded(p)
      <4>1. PICK i \in DOMAIN nodes : Alike(p, nodes[i])
        BY <2>1
      <4>2. IsNode(nodes[i]) /\ Guarded(nodes[i])
        BY <1>1, NodesAre DEF TypeOK, AllGuarded
      <4>3. \A o \in Options : p[o] = nodes[i][o]
        BY <4>1, <4>2, AlikeIs, FieldsApart DEF Always
      <4>. QED BY <4>2, <4>3, GuardedIsOptions
    <3>. HIDE DEF p, q, f
    <3>3. p.type \in {"vmess", "vless", "trojan"} => TransportSame(f, p, q) /\ SecuritySame(p, q)
      BY <3>1, <3>2, ConnectionRead
    <3>4. p.type \in {"vmess", "vless", "trojan"} => SecuritySame(p, q) /\ TransportSame(doc.format, p, q)
      BY <3>3 DEF f
    <3>5. SameConnection(p, q)
      BY <3>4 DEF SameConnection, SecuritySame, TransportSame, Same
    <3>. QED BY <3>5 DEF p, q
  <2>. QED BY <2>1, <2>2 DEF w
<1>. QED BY <1>1, AlwaysAnswered, AlwaysGuarded, PTL DEF ConnectionKept

\* Documents of others give their nodes what they need.
SourcesWhole ==
    \A d \in Sources : \A i \in DOMAIN Parse(d.format, d.entries) :
        Whole(Parse(d.format, d.entries)[i])

AllWhole(s) == \A i \in DOMAIN s : Whole(s[i])

\* Whether a node is whole depends on its type and its options only.
LEMMA WholeIsOptions ==
  ASSUME NEW p, Whole(p), NEW q, \A k \in Always \cup Options : q[k] = p[k]
  PROVE  Whole(q)
<1>1. q.type = p.type /\ q.password = p.password /\ q.cipher = p.cipher /\ q.method = p.method
  BY DEF Always, Options
<1>. QED BY <1>1 DEF Whole, OneMethod

\* If the sources hold whole nodes only, a hub does.
LEMMA AlwaysWhole == ASSUME NumbersAreWords, SourcesWhole PROVE Spec => []AllWhole(nodes)
<1>1. Init => AllWhole(nodes)
  BY DEF Init, AllWhole
<1>2. ASSUME TypeOK, Answered, AllWhole(nodes), [Next]_vars PROVE AllWhole(nodes)'
  <2>1. ASSUME NEW d \in Sources, Fetch(d) PROVE AllWhole(nodes')
    BY <2>1 DEF Fetch, AllWhole, SourcesWhole
  <2>2. ASSUME SpeedTest \/ GeoDetect \/ UnlockDetect PROVE AllWhole(nodes')
    BY <1>2, <2>2, TestsKeepNodes, WholeIsOptions DEF TypeOK, AllWhole
  <2>3. ASSUME NEW r \in Requests, Answer(r) PROVE AllWhole(nodes')
    BY <1>2, <2>3 DEF Answer
  <2>4. ASSUME ReadBack PROVE AllWhole(nodes')
    <3>1. CASE doc.format = "surge"
      <4>1. IsListOf(doc.entries, IsEntry) /\ nodes' = Parse("surge", doc.entries)
        BY <1>2, <2>4, <3>1 DEF ReadBack, TypeOK
      <4>2. "surge" \in DocFormats
        BY DEF DocFormats
      <4>3. nodes' = <<>>
        BY <4>1, <4>2, ParseIs
      <4>. QED BY <4>3 DEF AllWhole
    <3>2. CASE doc.format # "surge"
      BY <1>2, <2>4, <3>2, TripIs, ReadWhole DEF AllWhole
    <3>. QED BY <3>1, <3>2
  <2>5. CASE UNCHANGED vars
    BY <1>2, <2>5 DEF vars
  <2>. QED BY <1>2, <2>1, <2>2, <2>3, <2>4, <2>5 DEF Next
<1>. QED BY <1>1, <1>2, AlwaysAnswered, PTL DEF Spec

\* As many nodes are announced as the request wants: what the filters let
\* through, each identity once, usable ones only, cut to N.
THEOREM CountIsAsWanted == ASSUME NumbersAreWords, SourcesWhole PROVE Spec => []CountIsWanted
<1>1. ASSUME TypeOK, Answered, Twins(nodes), AllWhole(nodes) PROVE CountIsWanted
  <2>. SUFFICES ASSUME doc # None
                PROVE  LET n == ResolveTopN(asked.top, asked.global)
                           all == Cardinality(Wanted(asked))
                       IN  /\ doc.count = IF n = None THEN all ELSE AtMost(n, all)
                           /\ doc.format \in {"clash", "base64"} => doc.count = Len(doc.entries)
    BY DEF CountIsWanted
  <2>. DEFINE n == ResolveTopN(asked.top, asked.global)
              all == Cardinality(Wanted(asked))
              b == MergeRefs(nodes)
              c == Chosen(b, asked)
              F == Firsts(nodes)
              x == ExportFilter(sent)
  <2>1. /\ asked \in Requests /\ IsListOf(nodes, IsNode) /\ IsListOf(sent, IsNode)
        /\ sent = Selected(asked) /\ doc.count = Len(x) /\ doc.format = asked.format
        /\ doc.entries = ExportStr(sent, asked.format) /\ IsListOf(doc.entries, IsEntry)
    BY <1>1 DEF TypeOK, Answered
  <2>2. Drawn(b, nodes) /\ b = At(nodes, F) /\ Matched(sent, c)
    BY <2>1, SelectedIs
  <2>3. IsListOf(b, IsNode)
    BY <2>2 DEF Drawn
  <2>4. F \in SUBSET DOMAIN nodes
    BY DEF Firsts
  <2>5. Cardinality(Through(At(nodes, F), asked)) = Cardinality(F \cap Through(nodes, asked))
    <3>. HIDE DEF F
    <3>. QED BY <2>1, <2>4, ThroughPart
  <2>6. Cardinality(F \cap Through(nodes, asked)) = all
    BY <1>1, <2>1, WantedAreFirst DEF AllWhole
  <2>. HIDE DEF b, F
  <2>7. /\ Drawn(c, b)
        /\ Cardinality(Usable(c)) = IF n = None THEN Cardinality(Through(b, asked))
                                    ELSE AtMost(n, Cardinality(Through(b, asked)))
    BY <2>1, <2>3, ChosenIs
  <2>8. Usable(sent) = Usable(c)
    <3>. HIDE DEF c
    <3>1. IsListOf(c, IsNode)
      BY <2>7 DEF Drawn
    <3>. QED BY <2>2, <3>1, MatchedIs
  <2>9. Len(x) = Cardinality(Usable(sent))
    BY <2>1, WrittenIs
  <2>. HIDE DEF n, all, c, x
  <2>10. doc.count = IF n = None THEN all ELSE AtMost(n, all)
    BY <2>1, <2>2, <2>5, <2>6, <2>7, <2>8, <2>9
  <2>11. ASSUME doc.format \in {"clash", "base64"} PROVE doc.count = Len(doc.entries)
    <3>. DEFINE w == Written(sent, asked.format)
    <3>1. asked.format \in DocFormats /\ asked.format # "links" /\ asked.format \in {"clash", "base64"}
      BY <2>1, <2>11, RequestIs
    <3>2. DOMAIN doc.entries = DOMAIN w
      BY <2>1, <3>1, ExportIs
    <3>3. Drawn(w, sent) /\ Len(w) = Len(x)
      BY <2>1, <3>1, WrittenIs DEF x
    <3>. HIDE DEF w
    <3>4. Len(w) \in Nat /\ DOMAIN w = 1 .. Len(w)
      BY <3>3, NodesAre DEF Drawn
    <3>5. Len(doc.entries) \in Nat /\ DOMAIN doc.entries = 1 .. Len(doc.entries)
      BY <2>1, EntriesAre
    <3>6. Len(doc.entries) = Len(w)
      BY <3>2, <3>4, <3>5
    <3>. QED BY <2>1, <3>3, <3>6
  <2>. QED BY <2>10, <2>11 DEF n, all
<1>. QED BY <1>1, AlwaysAnswered, AlwaysTwins, AlwaysWhole, PTL

-----------------------------------------------------------------------------
(* What came through a format comes back through it unchanged *)

\* What two nodes of one fingerprint agree on, and a little more.
Kin(p, q) ==
    /\ \A k \in IdentifyingTexts(p) \cup IdentifyingExtras(p) : q[k] = p[k]
    /\ p.type \in {"vmess", "vless", "tuic"} => Or(q.aid, "0") = Or(p.aid, "0")
    /\ p.type = "ss" => SsMethod(q) = SsMethod(p)

\* Kin of one type, at one address and with one name, have one fingerprint.
LEMMA KinAgree ==
  ASSUME NEW p, NEW q, Kin(p, q),
         q.type = p.type, q.server = p.server, q.port = p.port, q.name = p.name
  PROVE  Fingerprint(q) = Fingerprint(p)
<1>. DEFINE T == IdentifyingTexts(p)
            X == IdentifyingExtras(p)
<1>1. \A k \in T \cup X : q[k] = p[k]
  BY DEF Kin
<1>2. IdentifyingTexts(q) = T
  <2>1. CASE p.type \in {"vmess", "vless", "tuic"}
    <3>1. "reality" \in T
      BY <2>1 DEF IdentifyingTexts
    <3>2. q.reality = p.reality
      BY <1>1, <3>1
    <3>. QED BY <3>2 DEF IdentifyingTexts
  <2>2. CASE p.type \notin {"vmess", "vless", "tuic"}
    BY <2>2 DEF IdentifyingTexts
  <2>. QED BY <2>1, <2>2
<1>3. IdentifyingExtras(q) = X
  BY DEF IdentifyingExtras
<1>. HIDE DEF T, X
<1>4. [k \in T |-> Or(q[k], "")] = [k \in T |-> Or(p[k], "")]
  BY <1>1
<1>5. [k \in X |-> q[k]] = [k \in X |-> p[k]]
  BY <1>1
<1>6. (IF q.type \in {"vmess", "vless", "tuic"} THEN Or(q.aid, "0") ELSE "")
      = (IF p.type \in {"vmess", "vless", "tuic"} THEN Or(p.aid, "0") ELSE "")
  BY DEF Kin
<1>7. (IF q.type = "ss" THEN Or(SsMethod(q), "") ELSE "") = (IF p.type = "ss" THEN Or(SsMethod(p), "") ELSE "")
  BY DEF Kin
<1>. QED BY <1>2, <1>3, <1>4, <1>5, <1>6, <1>7 DEF Fingerprint, T, X

\* What was filled once stays as it is.
LEMMA FillTwice ==
  ASSUME NEW v
  PROVE  /\ Fill(Fill(v)) = Fill(v) /\ (Fill(v) = None \/ Given(v))
         /\ Given(v) => Fill(v) = v
BY DEF Fill, Given

\* Names of plugins and spellings of their options are settled once read.
LEMMA PluginSettled ==
  ASSUME NEW a, IsNode(a), NEW style \in {"clash", "sip"}, NEW obfs \in {"obfs", "obfs-local"}, NEW p,
         p.plugin = PluginName(a.plugin, obfs), p.opts = PluginOpts(a, style)
  PROVE  /\ PluginName(p.plugin, obfs) = p.plugin /\ PluginOpts(p, style) = p.opts
         /\ Fill(p.plugin) = p.plugin /\ Fill(p.opts) = p.opts
<1>. DEFINE Known == {"obfs", "obfs-local", "simple-obfs"}
<1>0. /\ \A w \in {"obfs", "obfs-local", "simple-obfs", "spelt", "clash", "sip"} : Given(w)
      /\ obfs \in Known /\ Given(obfs)
  BY WordsAre DEF Given, Words
<1>a. \A v, o : PluginName(v, o) = IF ~Given(v) THEN None ELSE IF v \in Known THEN o ELSE v
  <2>1. \A v \in Known : Given(v)
    BY <1>0
  <2>2. ASSUME NEW v, NEW o, ~Given(v) PROVE PluginName(v, o) = None
    <3>1. v \notin Known
      BY <2>1, <2>2
    <3>. QED BY <2>2, <3>1 DEF PluginName
  <2>3. ASSUME NEW v, NEW o, Given(v), v \in Known PROVE PluginName(v, o) = o
    BY <2>3 DEF PluginName
  <2>4. ASSUME NEW v, NEW o, Given(v), v \notin Known PROVE PluginName(v, o) = v
    BY <2>4 DEF PluginName
  <2>. QED BY <2>2, <2>3, <2>4
<1>1. p.plugin = IF ~Given(a.plugin) THEN None ELSE IF a.plugin \in Known THEN obfs ELSE a.plugin
  BY <1>a
<1>2. \A r : (PluginName(r.plugin, "obfs") = "obfs") <=> (Given(r.plugin) /\ r.plugin \in Known)
  <2>. SUFFICES ASSUME NEW r
                PROVE  (PluginName(r.plugin, "obfs") = "obfs") <=> (Given(r.plugin) /\ r.plugin \in Known)
    OBVIOUS
  <2>1. PluginName(r.plugin, "obfs") = IF ~Given(r.plugin) THEN None ELSE IF r.plugin \in Known THEN "obfs" ELSE r.plugin
    BY <1>a
  <2>2. "obfs" \in Known /\ "obfs" # None
    BY <1>0 DEF Given
  <2>. QED BY <2>1, <2>2
<1>3. \A r : PluginOpts(r, style) =
         IF ~Given(r.plugin) \/ ~Given(r.opts) THEN None
         ELSE IF r.opts = "flags" THEN "spelt"
         ELSE IF r.opts \in {"sip", "clash"} /\ r.plugin \in Known THEN style ELSE r.opts
  <2>. SUFFICES ASSUME NEW r, Given(r.plugin), Given(r.opts)
                PROVE  PluginOpts(r, style) =
                           IF r.opts = "flags" THEN "spelt"
                           ELSE IF r.opts \in {"sip", "clash"} /\ r.plugin \in Known THEN style ELSE r.opts
    BY DEF PluginOpts
  <2>1. CASE r.opts = "flags"
    BY <2>1 DEF PluginOpts
  <2>2. CASE r.opts \in {"sip", "clash"} /\ r.plugin \in Known
    BY <2>2, <1>2 DEF PluginOpts
  <2>3. CASE r.opts # "flags" /\ ~(r.opts \in {"sip", "clash"} /\ r.plugin \in Known)
    BY <2>3, <1>2 DEF PluginOpts
  <2>. QED BY <2>1, <2>2, <2>3
<1>. HIDE DEF Known
<1>4. p.plugin = None \/ Given(p.plugin)
  BY <1>0, <1>1
<1>5. PluginName(p.plugin, obfs) = p.plugin
  <2>1. PluginName(p.plugin, obfs) = IF ~Given(p.plugin) THEN None ELSE IF p.plugin \in Known THEN obfs ELSE p.plugin
    BY <1>a
  <2>2. p.plugin \in Known => p.plugin = obfs
    BY <1>0, <1>1 DEF Given, Known
  <2>. QED BY <1>4, <2>1, <2>2
<1>6. p.opts = None \/ Given(p.opts)
  <2>. DEFINE o == p.opts
  <2>1. o = IF ~Given(a.plugin) \/ ~Given(a.opts) THEN None
         ELSE IF a.opts = "flags" THEN "spelt"
         ELSE IF a.opts \in {"sip", "clash"} /\ a.plugin \in Known THEN style ELSE a.opts
    BY <1>3
  <2>2. Given("spelt") /\ Given(style)
    BY <1>0
  <2>. HIDE DEF o
  <2>3. o = None \/ Given(o)
    BY <2>1, <2>2
  <2>. QED BY <2>3 DEF o
<1>7. PluginOpts(p, style) = p.opts
  <2>1. CASE ~Given(a.plugin) \/ ~Given(a.opts)
    <3>1. p.opts = None
      BY <1>3, <2>1
    <3>. QED BY <1>3, <3>1 DEF Given
  <2>2. CASE Given(a.plugin) /\ Given(a.opts)
    <3>1. Given(p.plugin) /\ (p.plugin \in Known <=> a.plugin \in Known)
      BY <1>0, <1>1, <2>2
    <3>2. p.opts = IF a.opts = "flags" THEN "spelt"
                   ELSE IF a.opts \in {"sip", "clash"} /\ a.plugin \in Known THEN style ELSE a.opts
      BY <1>3, <2>2
    <3>3. p.opts # "flags" /\ (p.opts \in {"sip", "clash"} /\ a.plugin \in Known => p.opts = style) /\ Given(p.opts)
      BY <1>0, <2>2, <3>2
    <3>4. PluginOpts(p, style) =
             IF ~Given(p.plugin) \/ ~Given(p.opts) THEN None
             ELSE IF p.opts = "flags" THEN "spelt"
             ELSE IF p.opts \in {"sip", "clash"} /\ p.plugin \in Known THEN style ELSE p.opts
      BY <1>3
    <3>. QED BY <3>1, <3>3, <3>4
  <2>. QED BY <2>1, <2>2
<1>8. Fill(p.plugin) = p.plugin /\ Fill(p.opts) = p.opts
  BY <1>4, <1>6 DEF Fill, Given
<1>. QED BY <1>5, <1>7, <1>8

\* The streams of vmess, vless, trojan.
StreamAgrees(p, q) ==
    q.network = p.network /\ q.path = p.path /\ q.host = p.host /\ q.svc = p.svc
    /\ q.sni = p.sni /\ q.alpn = p.alpn /\ q.tls = p.tls /\ q.reality = p.reality

\* Trojan nodes are kin if their streams agree and their passwords do.
LEMMA TrojanKin ==
  ASSUME NEW p, NEW q, p.type = "trojan", StreamAgrees(p, q), q.password = p.password
  PROVE  Kin(p, q)
<1>1. IdentifyingTexts(p) = {"password", "sni", "host", "network", "path", "alpn"} /\ IdentifyingExtras(p) = {}
  BY DEF IdentifyingTexts, IdentifyingExtras
<1>. QED BY <1>1 DEF Kin, StreamAgrees

\* When vmess and vless nodes are kin.
LEMMA StreamKin ==
  ASSUME NEW p, NEW q, p.type = "vmess" \/ p.type = "vless", StreamAgrees(p, q),
         q.uuid = p.uuid, q.cipher = p.cipher, q.flow = p.flow, Or(q.aid, "0") = Or(p.aid, "0"),
         p.reality # "true" \/ (q.pbk = p.pbk /\ q.sid = p.sid)
  PROVE  Kin(p, q)
<1>1. /\ IdentifyingTexts(p) = {"uuid", "network", "sni", "tls", "path", "cipher", "flow", "host", "svc", "reality", "alpn"}
                               \cup (IF p.reality = "true" THEN {"pbk", "sid"} ELSE {})
      /\ IdentifyingExtras(p) = {}
  BY DEF IdentifyingTexts, IdentifyingExtras
<1>2. \A k \in {"uuid", "network", "sni", "tls", "path", "cipher", "flow", "host", "svc", "reality", "alpn"} : q[k] = p[k]
  BY DEF StreamAgrees
<1>3. \A k \in (IF p.reality = "true" THEN {"pbk", "sid"} ELSE {}) : q[k] = p[k]
  OBVIOUS
<1>. QED BY <1>1, <1>2, <1>3 DEF Kin

\* A stream that came through clash comes back through clash as kin.
LEMMA ClashStreamKin ==
  ASSUME NEW a, IsNode(a), NEW p, IsNode(p), NEW q, ClashReads(a, p), ClashReads(p, q),
         a.type = p.type, p.type \in {"vmess", "vless", "trojan"}, a.tls # ""
  PROVE  Kin(p, q)
<1>. DEFINE T(x, y) == /\ y.network = Fill(x.network)
                       /\ y.path = (IF x.network \in Streams THEN Fill(x.path) ELSE None)
                       /\ y.host = (IF x.network \in Streams THEN Fill(x.host) ELSE None)
                       /\ y.svc = (IF x.network = "grpc" THEN Fill(x.svc) ELSE None)
<1>0. TransportKept(a, p) /\ TransportKept(p, q)
  <2>1. CASE p.type = "vmess"
    BY <2>1, ClashVmess
  <2>2. CASE p.type = "vless"
    BY <2>2, ClashVless
  <2>3. CASE p.type = "trojan"
    BY <2>3, ClashTrojan
  <2>. QED BY <2>1, <2>2, <2>3
<1>1. T(a, p) /\ T(p, q)
  BY <1>0 DEF TransportKept
<1>2. /\ Fill(a.network) \in Streams <=> a.network \in Streams
      /\ Fill(a.network) = "grpc" <=> a.network = "grpc"
  BY WordsAre DEF Fill, Given, Streams, Words
<1>3. q.network = p.network /\ q.path = p.path /\ q.host = p.host /\ q.svc = p.svc
  <2>1. q.network = p.network
    BY <1>1, FillTwice
  <2>2. (p.network \in Streams <=> a.network \in Streams) /\ (p.network = "grpc" <=> a.network = "grpc")
    BY <1>1, <1>2
  <2>3. CASE a.network \in Streams
    BY <1>1, <2>1, <2>2, <2>3, FillTwice DEF Streams
  <2>4. CASE a.network = "grpc"
    BY <1>1, <2>1, <2>2, <2>4, FillTwice DEF Streams
  <2>5. CASE a.network \notin Streams /\ a.network # "grpc"
    BY <1>1, <2>1, <2>2, <2>5
  <2>. QED BY <2>3, <2>4, <2>5
<1>4. p.sni = Fill(a.sni) /\ q.sni = Fill(p.sni) /\ p.alpn = Fill(a.alpn) /\ q.alpn = Fill(p.alpn)
  <2>1. CASE p.type = "vmess"
    BY <2>1, ClashVmess
  <2>2. CASE p.type = "vless"
    BY <2>2, ClashVless
  <2>3. CASE p.type = "trojan"
    BY <2>3, ClashTrojan
  <2>. QED BY <2>1, <2>2, <2>3
<1>5. q.sni = p.sni /\ q.alpn = p.alpn
  BY <1>4, FillTwice
<1>. HIDE DEF T
<1>6. CASE p.type = "trojan"
  <2>1. /\ p.tls = "true" /\ q.tls = "true" /\ p.reality = None /\ q.reality = None
        /\ p.password = Fill(a.password) /\ q.password = Fill(p.password)
    BY <1>6, ClashTrojan
  <2>2. q.password = p.password
    BY <2>1, FillTwice
  <2>3. StreamAgrees(p, q)
    BY <1>3, <1>5, <2>1 DEF StreamAgrees
  <2>. QED BY <1>6, <2>2, <2>3, TrojanKin
<1>7. CASE p.type = "vmess"
  <2>1. /\ p.uuid = Fill(a.uuid) /\ p.cipher = Fill(a.cipher) /\ p.flow = None /\ p.reality = None
        /\ p.aid = Fill(Or(a.aid, "0")) /\ p.tls = Fill(Or(a.tls, "false"))
    BY <1>7, ClashVmess
  <2>2. /\ q.uuid = Fill(p.uuid) /\ q.cipher = Fill(p.cipher) /\ q.flow = None /\ q.reality = None
        /\ q.aid = Fill(Or(p.aid, "0")) /\ q.tls = Fill(Or(p.tls, "false"))
    BY <1>7, ClashVmess
  <2>3. q.tls = p.tls
    BY <2>1, <2>2, WordsAre DEF Fill, Given, Or, Words
  <2>4. Or(q.aid, "0") = Or(p.aid, "0")
    BY <2>1, <2>2, WordsAre DEF Fill, Given, Or, Words
  <2>5. q.uuid = p.uuid /\ q.cipher = p.cipher
    BY <2>1, <2>2, FillTwice
  <2>6. p.reality # "true"
    BY <2>1, WordsAre DEF Words
  <2>7. StreamAgrees(p, q)
    BY <1>3, <1>5, <2>1, <2>2, <2>3 DEF StreamAgrees
  <2>8. q.flow = p.flow
    BY <2>1, <2>2
  <2>. QED BY <1>7, <2>4, <2>5, <2>6, <2>7, <2>8, StreamKin
<1>8. CASE p.type = "vless"
  <2>1. /\ p.uuid = Fill(a.uuid) /\ p.cipher = None /\ p.flow = Fill(a.flow) /\ p.aid = None
        /\ p.reality = (IF a.reality = "true" THEN "true" ELSE None)
        /\ p.pbk = (IF a.reality = "true" THEN Fill(a.pbk) ELSE None)
        /\ p.sid = (IF a.reality = "true" THEN Fill(a.sid) ELSE None)
        /\ p.tls = (IF a.reality = "true" THEN "true" ELSE Fill(Or(a.tls, "false")))
    BY <1>8, ClashVless
  <2>2. /\ q.uuid = Fill(p.uuid) /\ q.cipher = None /\ q.flow = Fill(p.flow) /\ q.aid = None
        /\ q.reality = (IF p.reality = "true" THEN "true" ELSE None)
        /\ q.pbk = (IF p.reality = "true" THEN Fill(p.pbk) ELSE None)
        /\ q.sid = (IF p.reality = "true" THEN Fill(p.sid) ELSE None)
        /\ q.tls = (IF p.reality = "true" THEN "true" ELSE Fill(Or(p.tls, "false")))
    BY <1>8, ClashVless
  <2>3. (p.reality = "true" <=> a.reality = "true") /\ q.reality = p.reality
    BY <2>1, <2>2, WordsAre DEF Words
  <2>4. q.tls = p.tls
    BY <2>1, <2>2, <2>3, WordsAre DEF Fill, Given, Or, Words
  <2>5. q.uuid = p.uuid /\ q.flow = p.flow
    BY <2>1, <2>2, FillTwice
  <2>6. q.pbk = p.pbk /\ q.sid = p.sid
    BY <2>1, <2>2, <2>3, FillTwice
  <2>7. StreamAgrees(p, q)
    BY <1>3, <1>5, <2>3, <2>4 DEF StreamAgrees
  <2>8. q.cipher = p.cipher /\ q.aid = p.aid
    BY <2>1, <2>2
  <2>. QED BY <1>8, <2>5, <2>6, <2>7, <2>8, StreamKin
<1>. QED BY <1>6, <1>7, <1>8

\* An ss node that came through clash comes back through clash as kin.
LEMMA ClashSsKin ==
  ASSUME NEW a, IsNode(a), NEW p, IsNode(p), NEW q, ClashReads(a, p), ClashReads(p, q),
         a.type = p.type, p.type = "ss"
  PROVE  Kin(p, q)
<1>. DEFINE b == PluginName(a.plugin, "obfs")
            c == PluginOpts(a, "clash")
            x == PluginName(p.plugin, "obfs")
            y == PluginOpts(p, "clash")
<1>1. /\ p.password = Fill(a.password) /\ p.cipher = Fill(Or(a.cipher, a.method)) /\ p.method = None
      /\ p.plugin = Fill(b) /\ p.opts = Fill(c) /\ p.alpn = None
  BY ClashSs
<1>2. /\ q.password = Fill(p.password) /\ q.cipher = Fill(Or(p.cipher, p.method)) /\ q.method = None
      /\ q.plugin = Fill(x) /\ q.opts = Fill(y) /\ q.alpn = None
  BY ClashSs
<1>3. Fill(b) = b /\ Fill(c) = c
  <2>1. PICK r : r.plugin = b /\ r.opts = c
    <3>. DEFINE r0 == [plugin |-> b, opts |-> c]
    <3>1. r0.plugin = b /\ r0.opts = c
      OBVIOUS
    <3>. HIDE DEF r0, b, c
    <3>. QED BY <3>1
  <2>. QED BY <2>1, PluginSettled
<1>4. x = p.plugin /\ y = p.opts /\ Fill(x) = x /\ Fill(y) = y
  BY <1>1, <1>3, PluginSettled
<1>. HIDE DEF b, c, x, y
<1>5. q.password = p.password /\ q.plugin = p.plugin /\ q.opts = p.opts /\ q.alpn = p.alpn
  BY <1>1, <1>2, <1>4, FillTwice
<1>6. q.cipher = p.cipher /\ q.method = p.method
  BY <1>1, <1>2 DEF Fill, Given, Or
<1>7. SsMethod(q) = SsMethod(p)
  BY <1>6 DEF SsMethod
<1>8. IdentifyingTexts(p) = {"password", "plugin", "opts", "alpn"} /\ IdentifyingExtras(p) = {}
  BY DEF IdentifyingTexts, IdentifyingExtras
<1>. QED BY <1>5, <1>7, <1>8 DEF Kin

\* Whatever came through clash comes back through clash as kin.
LEMMA ClashKin ==
  ASSUME NEW a, IsNode(a), NEW p, IsNode(p), NEW q, ClashReads(a, p), ClashReads(p, q),
         a.type = p.type, p.type \in DOMAIN ClashOptions, p.type # "anytls", a.tls # ""
  PROVE  Kin(p, q)
<1>1. CASE p.type \in {"vmess", "vless", "trojan"}
  BY <1>1, ClashStreamKin
<1>2. CASE p.type = "ss"
  BY <1>2, ClashSsKin
<1>3. CASE p.type = "hysteria2"
  <2>1. /\ \A k \in {"password", "sni", "obfs", "obfspw", "alpn", "up", "down"} : p[k] = Fill(a[k])
        /\ p.host = None /\ p.network = None /\ p.path = None
    BY <1>3, ClashHysteria2
  <2>2. /\ \A k \in {"password", "sni", "obfs", "obfspw", "alpn", "up", "down"} : q[k] = Fill(p[k])
        /\ q.host = None /\ q.network = None /\ q.path = None
    BY <1>3, ClashHysteria2
  <2>3. \A k \in {"password", "sni", "obfs", "obfspw", "alpn", "up", "down"} : q[k] = p[k]
    <3>. DEFINE K == {"password", "sni", "obfs", "obfspw", "alpn", "up", "down"}
    <3>1. (\A k \in K : p[k] = Fill(a[k])) /\ \A k \in K : q[k] = Fill(p[k])
      BY <2>1, <2>2
    <3>. HIDE DEF K
    <3>2. ASSUME NEW k \in K PROVE q[k] = p[k]
      <4>1. p[k] = Fill(a[k]) /\ q[k] = Fill(p[k])
        BY <3>1
      <4>. QED BY <4>1 DEF Fill, Given
    <3>. QED BY <3>2 DEF K
  <2>4. /\ IdentifyingTexts(p) = {"password", "sni", "host", "network", "path", "obfs", "obfspw", "alpn"}
        /\ IdentifyingExtras(p) = {"up", "down"}
    BY <1>3 DEF IdentifyingTexts, IdentifyingExtras
  <2>. QED BY <1>3, <2>1, <2>2, <2>3, <2>4 DEF Kin
<1>4. CASE p.type = "tuic"
  <2>1. /\ \A k \in {"uuid", "password", "sni", "alpn", "cc", "uos", "zrtt"} : p[k] = Fill(a[k])
        /\ p.urm = (IF a.uos = "true" THEN None ELSE Fill(a.urm))
        /\ \A k \in {"network", "tls", "path", "cipher", "flow", "host", "svc", "reality", "aid"} : p[k] = None
    BY <1>4, ClashTuic
  <2>2. /\ \A k \in {"uuid", "password", "sni", "alpn", "cc", "uos", "zrtt"} : q[k] = Fill(p[k])
        /\ q.urm = (IF p.uos = "true" THEN None ELSE Fill(p.urm))
        /\ \A k \in {"network", "tls", "path", "cipher", "flow", "host", "svc", "reality", "aid"} : q[k] = None
    BY <1>4, ClashTuic
  <2>3. \A k \in {"uuid", "password", "sni", "alpn", "cc", "uos", "zrtt"} : q[k] = p[k]
    <3>. DEFINE K == {"uuid", "password", "sni", "alpn", "cc", "uos", "zrtt"}
    <3>1. (\A k \in K : p[k] = Fill(a[k])) /\ \A k \in K : q[k] = Fill(p[k])
      BY <2>1, <2>2
    <3>. HIDE DEF K
    <3>2. ASSUME NEW k \in K PROVE q[k] = p[k]
      <4>1. p[k] = Fill(a[k]) /\ q[k] = Fill(p[k])
        BY <3>1
      <4>. QED BY <4>1 DEF Fill, Given
    <3>. QED BY <3>2 DEF K
  <2>4. q.urm = p.urm
    <3>1. p.uos = Fill(a.uos)
      BY <2>1
    <3>2. p.uos = "true" <=> a.uos = "true"
      BY <3>1, WordsAre DEF Fill, Given, Words
    <3>3. CASE p.uos = "true"
      BY <2>1, <2>2, <3>2, <3>3
    <3>4. CASE p.uos # "true"
      <4>1. p.urm = Fill(a.urm) /\ q.urm = Fill(p.urm)
        BY <2>1, <2>2, <3>2, <3>4
      <4>. QED BY <4>1, FillTwice
    <3>. QED BY <3>3, <3>4
  <2>5. p.reality # "true"
    BY <2>1, WordsAre DEF Words
  <2>6. /\ IdentifyingTexts(p) = {"uuid", "network", "sni", "tls", "path", "cipher", "flow", "host", "svc", "reality", "alpn"}
        /\ IdentifyingExtras(p) = {"cc", "urm", "uos", "zrtt"}
    BY <1>4, <2>5 DEF IdentifyingTexts, IdentifyingExtras
  <2>7. \A k \in {"network", "tls", "path", "cipher", "flow", "host", "svc", "reality", "aid"} : q[k] = p[k]
    BY <2>1, <2>2
  <2>8. q.aid = p.aid
    BY <2>7
  <2>. QED BY <1>4, <2>3, <2>4, <2>6, <2>7, <2>8 DEF Kin
<1>5. CASE p.type \in {"socks5", "http"}
  <2>1. p.password = Fill(a.password) /\ \A k \in {"sni", "host", "network", "path", "alpn"} : p[k] = None
    BY <1>5, ClashPlain
  <2>2. q.password = Fill(p.password) /\ \A k \in {"sni", "host", "network", "path", "alpn"} : q[k] = None
    BY <1>5, ClashPlain
  <2>3. q.password = p.password
    BY <2>1, <2>2, FillTwice
  <2>4. IdentifyingTexts(p) = {"password", "sni", "host", "network", "path", "alpn"} /\ IdentifyingExtras(p) = {}
    BY <1>5 DEF IdentifyingTexts, IdentifyingExtras
  <2>. QED BY <1>5, <2>1, <2>2, <2>3, <2>4 DEF Kin
<1>. QED BY <1>1, <1>2, <1>3, <1>4, <1>5, TypesOf

\* A stream that came through sing-box comes back through sing-box unchanged.
LEMMA SingboxStreamTwice ==
  ASSUME NEW a, NEW p, NEW q, SingboxStream(a, p), SingboxStream(p, q)
  PROVE  StreamAgrees(p, q) /\ (p.reality = "true" => q.pbk = p.pbk /\ q.sid = p.sid)
<1>0. /\ None \notin {"h2", "http", "ws", "grpc", "true"}
  BY WordsAre DEF Words
<1>1. /\ p.network = (IF a.network \in {"h2", "http"} THEN "h2"
                      ELSE IF a.network = "ws" \/ (a.network = "grpc" /\ a.svc # None) THEN a.network ELSE None)
      /\ p.path = (IF a.network \in Streams THEN a.path ELSE None)
      /\ p.host = (IF a.network \in Streams THEN a.host ELSE None)
      /\ p.svc = (IF a.network = "grpc" THEN a.svc ELSE None)
  BY DEF SingboxStream
<1>2. /\ q.network = (IF p.network \in {"h2", "http"} THEN "h2"
                      ELSE IF p.network = "ws" \/ (p.network = "grpc" /\ p.svc # None) THEN p.network ELSE None)
      /\ q.path = (IF p.network \in Streams THEN p.path ELSE None)
      /\ q.host = (IF p.network \in Streams THEN p.host ELSE None)
      /\ q.svc = (IF p.network = "grpc" THEN p.svc ELSE None)
  BY DEF SingboxStream
<1>3. q.network = p.network
  BY <1>0, <1>1, <1>2
<1>4. q.path = p.path /\ q.host = p.host
  <2>1. p.network \in Streams <=> a.network \in Streams
    BY <1>0, <1>1 DEF Streams
  <2>. QED BY <1>1, <1>2, <2>1
<1>5. q.svc = p.svc
  <2>1. p.network = "grpc" <=> (a.network = "grpc" /\ a.svc # None)
    BY <1>0, <1>1
  <2>. QED BY <1>1, <1>2, <2>1
<1>6. /\ p.tls = (IF a.tls = "true" THEN "true" ELSE "false")
      /\ p.sni = (IF a.tls = "true" THEN a.sni ELSE None)
      /\ p.alpn = (IF a.tls = "true" THEN a.alpn ELSE None)
      /\ p.reality = (IF a.tls = "true" /\ a.reality = "true" THEN "true" ELSE None)
  BY DEF SingboxStream
<1>7. /\ q.tls = (IF p.tls = "true" THEN "true" ELSE "false")
      /\ q.sni = (IF p.tls = "true" THEN p.sni ELSE None)
      /\ q.alpn = (IF p.tls = "true" THEN p.alpn ELSE None)
      /\ q.reality = (IF p.tls = "true" /\ p.reality = "true" THEN "true" ELSE None)
      /\ q.pbk = (IF p.tls = "true" /\ p.reality = "true" THEN p.pbk ELSE None)
      /\ q.sid = (IF p.tls = "true" /\ p.reality = "true" THEN p.sid ELSE None)
  BY DEF SingboxStream
<1>8. p.tls = "true" <=> a.tls = "true"
  BY <1>6
<1>9. q.tls = p.tls /\ q.sni = p.sni /\ q.alpn = p.alpn
  BY <1>6, <1>7, <1>8
<1>10. q.reality = p.reality /\ (p.reality = "true" => q.pbk = p.pbk /\ q.sid = p.sid)
  BY <1>0, <1>6, <1>7, <1>8
<1>. QED BY <1>3, <1>4, <1>5, <1>9, <1>10 DEF StreamAgrees

\* When ss nodes are kin.
LEMMA SsKin ==
  ASSUME NEW p, NEW q, p.type = "ss", q.password = p.password, q.plugin = p.plugin,
         q.opts = p.opts, q.alpn = p.alpn, SsMethod(q) = SsMethod(p)
  PROVE  Kin(p, q)
<1>1. IdentifyingTexts(p) = {"password", "plugin", "opts", "alpn"} /\ IdentifyingExtras(p) = {}
  BY DEF IdentifyingTexts, IdentifyingExtras
<1>. QED BY <1>1 DEF Kin

\* When hysteria2 nodes are kin.
LEMMA Hysteria2Kin ==
  ASSUME NEW p, NEW q, p.type = "hysteria2", q.password = p.password, q.sni = p.sni, q.host = p.host,
         q.network = p.network, q.path = p.path, q.obfs = p.obfs, q.obfspw = p.obfspw,
         q.alpn = p.alpn, q.up = p.up, q.down = p.down
  PROVE  Kin(p, q)
<1>1. /\ IdentifyingTexts(p) = {"password", "sni", "host", "network", "path", "obfs", "obfspw", "alpn"}
      /\ IdentifyingExtras(p) = {"up", "down"}
  BY DEF IdentifyingTexts, IdentifyingExtras
<1>. QED BY <1>1 DEF Kin

\* The method of an ss node that has but a `method`.
LEMMA MethodTwice ==
  ASSUME NEW a, NEW p, p.cipher = None, p.method = Or(SsMethod(a), "aes-256-gcm")
  PROVE  SsMethod(p) = p.method /\ Given(p.method)
<1>1. SsMethod(a) = None \/ Given(SsMethod(a))
  BY DEF SsMethod, Given
<1>2. Given(p.method)
  BY <1>1, WordsAre DEF Or, Given, Words
<1>. QED BY <1>2 DEF SsMethod, Or, Given

\* Whatever came through sing-box comes back through sing-box as kin.
LEMMA SingboxKin ==
  ASSUME NEW a, IsNode(a), NEW p, IsNode(p), NEW q, SingboxReads(a, p), SingboxReads(p, q),
         a.type = p.type, p.type \in DOMAIN SingboxOptions, p.type # "http"
  PROVE  Kin(p, q)
<1>1. CASE p.type = "vmess" \/ p.type = "vless" \/ p.type = "trojan"
  <2>0. a.type \in {"vmess", "vless", "trojan"} /\ p.type \in {"vmess", "vless", "trojan"}
    BY <1>1
  <2>1. /\ SingboxStream(a, p) /\ p.cipher = None /\ p.aid = None
        /\ p.type = "vless" => p.flow = a.flow
        /\ p.type = "vmess" => p.flow = None
    BY <2>0, SingboxStreams
  <2>2. /\ SingboxStream(p, q) /\ q.cipher = None /\ q.aid = None
        /\ p.type # "trojan" => q.uuid = p.uuid
        /\ p.type = "vless" => q.flow = p.flow
        /\ p.type = "vmess" => q.flow = None
        /\ p.type = "trojan" => q.password = p.password
    BY <2>0, SingboxStreams
  <2>3. StreamAgrees(p, q) /\ (p.reality = "true" => q.pbk = p.pbk /\ q.sid = p.sid)
    BY <2>1, <2>2, SingboxStreamTwice
  <2>4. CASE p.type = "trojan"
    BY <2>2, <2>3, <2>4, TrojanKin
  <2>5. CASE p.type = "vmess" \/ p.type = "vless"
    BY <2>1, <2>2, <2>3, <2>5, StreamKin
  <2>. QED BY <1>1, <2>4, <2>5
<1>2. CASE p.type = "ss"
  <2>1. /\ p.method = Or(SsMethod(a), "aes-256-gcm") /\ p.cipher = None /\ p.alpn = None
        /\ p.plugin = PluginName(a.plugin, "obfs-local") /\ p.opts = PluginOpts(a, "sip")
    BY <1>2, SingboxSs
  <2>2. /\ q.password = p.password /\ q.method = Or(SsMethod(p), "aes-256-gcm") /\ q.cipher = None /\ q.alpn = None
        /\ q.plugin = PluginName(p.plugin, "obfs-local") /\ q.opts = PluginOpts(p, "sip")
    BY <1>2, SingboxSs
  <2>3. q.plugin = p.plugin /\ q.opts = p.opts
    BY <2>1, <2>2, PluginSettled
  <2>4. SsMethod(p) = p.method /\ Given(p.method)
    BY <2>1, MethodTwice
  <2>5. SsMethod(q) = q.method /\ q.method = p.method
    <3>1. q.method = p.method
      BY <2>2, <2>4 DEF Or, Given
    <3>. QED BY <2>2, <3>1, MethodTwice
  <2>. QED BY <1>2, <2>1, <2>2, <2>3, <2>4, <2>5, SsKin
<1>3. CASE p.type = "hysteria2"
  <2>1. /\ p.obfspw = (IF a.obfs = None THEN None ELSE Or(a.obfspw, "")) /\ p.obfs = a.obfs
        /\ p.host = None /\ p.network = None /\ p.path = None
    BY <1>3, SingboxHysteria2
  <2>2. /\ q.password = p.password /\ q.sni = p.sni /\ q.obfs = p.obfs
        /\ q.alpn = p.alpn /\ q.up = p.up /\ q.down = p.down
        /\ q.obfspw = (IF p.obfs = None THEN None ELSE Or(p.obfspw, ""))
        /\ q.host = None /\ q.network = None /\ q.path = None
    BY <1>3, SingboxHysteria2
  <2>3. q.obfspw = p.obfspw
    BY <2>1, <2>2, WordsAre DEF Or, Words
  <2>. QED BY <1>3, <2>1, <2>2, <2>3, Hysteria2Kin
<1>4. CASE p.type = "tuic"
  <2>1. /\ p.uos = a.uos /\ p.urm = (IF a.uos = "true" THEN None ELSE a.urm)
        /\ p.tls = "true" /\ p.reality = (IF a.reality = "true" THEN "true" ELSE None)
        /\ \A k \in {"network", "path", "cipher", "flow", "host", "svc", "aid"} : p[k] = None
    BY <1>4, SingboxTuic
  <2>2. /\ \A k \in {"uuid", "password", "sni", "alpn", "cc", "uos", "zrtt"} : q[k] = p[k]
        /\ q.urm = (IF p.uos = "true" THEN None ELSE p.urm)
        /\ q.tls = "true" /\ q.reality = (IF p.reality = "true" THEN "true" ELSE None)
        /\ p.reality = "true" => q.pbk = p.pbk /\ q.sid = p.sid
        /\ \A k \in {"network", "path", "cipher", "flow", "host", "svc", "aid"} : q[k] = None
    BY <1>4, SingboxTuic
  <2>3. q.tls = p.tls /\ q.reality = p.reality /\ q.urm = p.urm
    BY <2>1, <2>2
  <2>4. \A k \in {"network", "path", "cipher", "flow", "host", "svc", "aid"} : q[k] = p[k]
    BY <2>1, <2>2
  <2>5. \A k \in {"uuid", "network", "sni", "tls", "path", "cipher", "flow", "host", "svc", "reality", "alpn"} : q[k] = p[k]
    <3>1. q.uuid = p.uuid /\ q.sni = p.sni /\ q.alpn = p.alpn
      BY <2>2
    <3>2. /\ q.network = p.network /\ q.path = p.path /\ q.cipher = p.cipher /\ q.flow = p.flow
          /\ q.host = p.host /\ q.svc = p.svc
      BY <2>4
    <3>. QED BY <2>3, <3>1, <3>2
  <2>6. \A k \in {"cc", "urm", "uos", "zrtt"} : q[k] = p[k]
    <3>1. q.cc = p.cc /\ q.uos = p.uos /\ q.zrtt = p.zrtt
      BY <2>2
    <3>. QED BY <2>3, <3>1
  <2>7. \A k \in (IF p.reality = "true" THEN {"pbk", "sid"} ELSE {}) : q[k] = p[k]
    BY <2>2
  <2>8. q.aid = p.aid
    BY <2>4
  <2>9. /\ IdentifyingTexts(p) = {"uuid", "network", "sni", "tls", "path", "cipher", "flow", "host", "svc", "reality", "alpn"}
                                 \cup (IF p.reality = "true" THEN {"pbk", "sid"} ELSE {})
        /\ IdentifyingExtras(p) = {"cc", "urm", "uos", "zrtt"}
    BY <1>4 DEF IdentifyingTexts, IdentifyingExtras
  <2>. QED BY <1>4, <2>5, <2>6, <2>7, <2>8, <2>9 DEF Kin
<1>5. CASE p.type = "socks5"
  <2>1. \A k \in {"sni", "host", "network", "path", "alpn"} : p[k] = None
    BY <1>5, SingboxPlain
  <2>2. q.password = p.password /\ \A k \in {"sni", "host", "network", "path", "alpn"} : q[k] = None
    BY <1>5, SingboxPlain
  <2>3. IdentifyingTexts(p) = {"password", "sni", "host", "network", "path", "alpn"} /\ IdentifyingExtras(p) = {}
    BY <1>5 DEF IdentifyingTexts, IdentifyingExtras
  <2>. QED BY <1>5, <2>1, <2>2, <2>3 DEF Kin
<1>. QED BY <1>1, <1>2, <1>3, <1>4, <1>5, TypesOf

\* A stream that came through v2ray comes back through v2ray unchanged.
LEMMA V2rayStreamTwice ==
  ASSUME NEW a, NEW p, NEW q, V2rayStreamKept(a, p), V2rayStreamKept(p, q)
  PROVE  StreamAgrees(p, q) /\ (p.reality = "true" => q.pbk = p.pbk /\ q.sid = p.sid)
<1>0. None \notin {"tcp", "h2", "http", "ws", "grpc", "true", "false"}
  BY WordsAre DEF Words
<1>1. /\ p.network = Or(a.network, "tcp")
      /\ p.path = (IF a.network \in Streams THEN a.path ELSE None)
      /\ p.host = (IF a.network \in Streams THEN a.host ELSE None)
      /\ p.svc = (IF a.network = "grpc" THEN a.svc ELSE None)
  BY DEF V2rayStreamKept
<1>2. /\ q.network = Or(p.network, "tcp")
      /\ q.path = (IF p.network \in Streams THEN p.path ELSE None)
      /\ q.host = (IF p.network \in Streams THEN p.host ELSE None)
      /\ q.svc = (IF p.network = "grpc" THEN p.svc ELSE None)
  BY DEF V2rayStreamKept
<1>3. q.network = p.network
  BY <1>0, <1>1, <1>2 DEF Or
<1>4. (p.network \in Streams <=> a.network \in Streams) /\ (p.network = "grpc" <=> a.network = "grpc")
  BY <1>0, <1>1 DEF Or, Streams
<1>5. q.path = p.path /\ q.host = p.host /\ q.svc = p.svc
  BY <1>1, <1>2, <1>4
<1>6. /\ p.tls = (IF a.reality = "true" THEN "true" ELSE Or(a.tls, "false"))
      /\ p.sni = (IF a.reality = "true" \/ a.tls = "true" THEN a.sni ELSE None)
      /\ p.alpn = (IF a.reality # "true" /\ a.tls = "true" THEN a.alpn ELSE None)
      /\ p.reality = (IF a.reality = "true" THEN "true" ELSE None)
  BY DEF V2rayStreamKept
<1>7. /\ q.tls = (IF p.reality = "true" THEN "true" ELSE Or(p.tls, "false"))
      /\ q.sni = (IF p.reality = "true" \/ p.tls = "true" THEN p.sni ELSE None)
      /\ q.alpn = (IF p.reality # "true" /\ p.tls = "true" THEN p.alpn ELSE None)
      /\ q.reality = (IF p.reality = "true" THEN "true" ELSE None)
      /\ p.reality = "true" => q.pbk = p.pbk /\ q.sid = p.sid
  BY DEF V2rayStreamKept
<1>8. (p.reality = "true" <=> a.reality = "true") /\ q.reality = p.reality
  BY <1>0, <1>6, <1>7
<1>9. q.tls = p.tls /\ (p.tls = "true" <=> a.reality = "true" \/ a.tls = "true")
  BY <1>0, <1>6, <1>7, <1>8 DEF Or
<1>10. q.sni = p.sni /\ q.alpn = p.alpn
  BY <1>6, <1>7, <1>8, <1>9
<1>. QED BY <1>3, <1>5, <1>7, <1>8, <1>9, <1>10 DEF StreamAgrees

\* Whatever came through v2ray comes back through v2ray as kin.
LEMMA V2rayKin ==
  ASSUME NEW a, IsNode(a), NEW p, IsNode(p), NEW q, V2rayReads(a, p), V2rayReads(p, q),
         a.type = p.type, p.type \in DOMAIN V2rayOptions
  PROVE  Kin(p, q)
<1>1. CASE p.type = "vmess" \/ p.type = "vless" \/ p.type = "trojan"
  <2>0. a.type \in {"vmess", "vless", "trojan"} /\ p.type \in {"vmess", "vless", "trojan"}
    BY <1>1
  <2>1. /\ V2rayStreamKept(a, p)
        /\ p.type = "vmess" => p.aid = Or(a.aid, "0") /\ p.cipher = Or(a.cipher, "auto") /\ p.flow = None
        /\ p.type = "vless" => p.aid = None /\ p.cipher = None /\ p.flow = Fill(a.flow)
    BY <2>0, V2rayStreams
  <2>2. /\ V2rayStreamKept(p, q)
        /\ p.type # "trojan" => q.uuid = p.uuid
        /\ p.type = "vmess" => q.aid = Or(p.aid, "0") /\ q.cipher = Or(p.cipher, "auto") /\ q.flow = None
        /\ p.type = "vless" => q.aid = None /\ q.cipher = None /\ q.flow = Fill(p.flow)
        /\ p.type = "trojan" => q.password = p.password
    BY <2>0, V2rayStreams
  <2>3. StreamAgrees(p, q) /\ (p.reality = "true" => q.pbk = p.pbk /\ q.sid = p.sid)
    BY <2>1, <2>2, V2rayStreamTwice
  <2>4. CASE p.type = "trojan"
    BY <2>2, <2>3, <2>4, TrojanKin
  <2>5. CASE p.type = "vmess"
    <3>1. q.aid = p.aid /\ q.cipher = p.cipher /\ q.flow = p.flow
      BY <2>1, <2>2, <2>5, WordsAre DEF Or, Words
    <3>. QED BY <2>2, <2>3, <2>5, <3>1, StreamKin
  <2>6. CASE p.type = "vless"
    <3>1. q.aid = p.aid /\ q.cipher = p.cipher /\ q.flow = p.flow
      BY <2>1, <2>2, <2>6 DEF Fill, Given
    <3>. QED BY <2>2, <2>3, <2>6, <3>1, StreamKin
  <2>. QED BY <1>1, <2>4, <2>5, <2>6
<1>2. CASE p.type = "ss"
  <2>1. /\ p.method = Or(SsMethod(a), "aes-256-gcm") /\ p.cipher = None /\ p.alpn = None
        /\ p.plugin = None /\ p.opts = None
    BY <1>2, V2raySs
  <2>2. /\ q.password = p.password /\ q.method = Or(SsMethod(p), "aes-256-gcm") /\ q.cipher = None /\ q.alpn = None
        /\ q.plugin = None /\ q.opts = None
    BY <1>2, V2raySs
  <2>4. SsMethod(p) = p.method /\ Given(p.method)
    BY <2>1, MethodTwice
  <2>5. SsMethod(q) = q.method /\ q.method = p.method
    <3>1. q.method = p.method
      BY <2>2, <2>4 DEF Or, Given
    <3>. QED BY <2>2, <3>1, MethodTwice
  <2>. QED BY <1>2, <2>1, <2>2, <2>4, <2>5, SsKin
<1>. QED BY <1>1, <1>2, TypesOf

-----------------------------------------------------------------------------
(* Whether TLS is on *)

\* A node whose TLS is on, off or not spoken of.
Switched(p) == p.tls \in {None, "true", "false"}

\* An entry whose tls is true or false is read so,
LEMMA FoundSwitched ==
  ASSUME NEW e, IsEntry(e), "tls" \in DOMAIN e => e.tls \in {"true", "false"}, NEW keys
  PROVE  Switched(NodeOf(e, keys)) /\ IsNode(NodeOf(e, keys))
<1>1. "tls" \in Options
  BY DEF Options
<1>. QED BY <1>1, NodeOfIs DEF Switched

\* A reader of others' documents leaves it so ...
LEMMA FromSwitched ==
  ASSUME NEW format \in Readable, NEW e, IsEntry(e), "tls" \in DOMAIN e => e.tls \in {"true", "false"}
  PROVE  Switched(From(format, e))
<1>0. "tls" \in Fields
  BY FieldsApart DEF Options
<1>1. Switched(FromClash(e))
  <2>. DEFINE n == NodeOf(e, Options \ {"user"})
              a == IF n.type = "anytls" THEN "other" ELSE n.type
  <2>1. n = [k \in Fields |-> n[k]] /\ Switched(n)
    BY FoundSwitched DEF IsNode
  <2>2. FromClash(e) = [n EXCEPT !.type = a, !.tls = "true"] \/ FromClash(e) = [n EXCEPT !.type = a]
    BY <2>1, FieldsApart DEF FromClash, Options, Always
  <2>. HIDE DEF n, a
  <2>. QED BY <1>0, <2>1, <2>2 DEF Switched
<1>2. Switched(FromSingbox(e))
  <2>. DEFINE n == NodeOf(e, Options \ {"cipher", "aid"})
              a == IF n.type = "http" THEN "other" ELSE n.type
              b == IF n.reality = "true" THEN "true" ELSE Or(n.tls, "false")
  <2>1. n = [k \in Fields |-> n[k]] /\ Switched(n)
    BY FoundSwitched DEF IsNode
  <2>2. FromSingbox(e) = [n EXCEPT !.type = a, !.tls = b]
    BY DEF FromSingbox
  <2>3. b \in {"true", "false"}
    BY <2>1 DEF Switched, Or
  <2>. HIDE DEF n, a, b
  <2>. QED BY <1>0, <2>1, <2>2, <2>3 DEF Switched
<1>3. Switched(FromV2ray(e))
  <2>. DEFINE n == NodeOf(e, Options)
              u == Or(n.uuid, n.password)
              f == IF e.type = "vless" /\ n.flow = "" THEN None ELSE n.flow
              b == IF n.reality = "true" THEN "true" ELSE n.tls
  <2>1. n = [k \in Fields |-> n[k]] /\ Switched(n)
    BY FoundSwitched DEF IsNode
  <2>2. FromV2ray(e) = [n EXCEPT !.uuid = u, !.tls = b, !.flow = f]
    BY DEF FromV2ray
  <2>3. b \in {None, "true", "false"}
    BY <2>1 DEF Switched
  <2>. HIDE DEF n, u, f, b
  <2>. QED BY <1>0, <2>1, <2>2, <2>3 DEF Switched
<1>. QED BY <1>1, <1>2, <1>3 DEF From

\* and so is a link.
LEMMA LinkSwitched ==
  ASSUME NEW e, IsEntry(e), IsNodeLink(e), "tls" \in DOMAIN e => e.tls \in {"true", "false"}
  PROVE  Switched(FromLink(e))
<1>. DEFINE n == NodeOf(e, LinkOptions[e.type])
<1>0. "tls" \in Fields
  BY FieldsApart DEF Options
<1>1. n = [k \in Fields |-> n[k]] /\ Switched(n)
  BY FoundSwitched DEF IsNode
<1>2. CASE e.type = "vmess"
  <2>. DEFINE a == Or(n.cipher, "aes-128-gcm")
              b == Or(n.tls, "false")
              c == Or(n.sni, n.host)
  <2>1. FromLink(e) = [n EXCEPT !.cipher = a, !.tls = b, !.sni = c]
    BY <1>2 DEF FromLink
  <2>2. b \in {"true", "false"}
    BY <1>1 DEF Switched, Or
  <2>. HIDE DEF n, a, b, c
  <2>. QED BY <1>0, <1>1, <2>1, <2>2 DEF Switched
<1>3. CASE e.type = "vless"
  <2>. DEFINE a == IF n.reality = "true" THEN "true" ELSE Or(n.tls, "true")
              b == IF Given(n.pbk) THEN n.pbk ELSE None
  <2>1. FromLink(e) = [n EXCEPT !.tls = a, !.pbk = b]
    BY <1>3 DEF FromLink
  <2>2. a \in {"true", "false"}
    BY <1>1 DEF Switched, Or
  <2>. HIDE DEF n, a, b
  <2>. QED BY <1>0, <1>1, <2>1, <2>2 DEF Switched
<1>4. CASE e.type \notin {"vmess", "vless"}
  <2>1. FromLink(e) = [n EXCEPT !.tls = "true"] \/ FromLink(e) = n
    BY <1>4 DEF FromLink
  <2>. HIDE DEF n
  <2>. QED BY <1>0, <1>1, <2>1 DEF Switched
<1>. QED BY <1>2, <1>3, <1>4

\* ... and so does one of a document that was written from such nodes.
LEMMA TripSwitched ==
  ASSUME NEW format \in Readable, NEW p, IsNode(p), IsUsable(p), Represented(format, p), Switched(p)
  PROVE  Switched(From(format, To(format, p)))
<1>. DEFINE q == From(format, To(format, p))
<1>1. CASE format \in {"clash", "base64"}
  <2>1. ClashReads(p, q)
    BY <1>1, ReadAs
  <2>. HIDE DEF q
  <2>2. ClashDefaults(p).tls \in {None, "true", "false"}
    <3>1. "tls" \in Fields /\ p = [k \in Fields |-> p[k]]
      BY FieldsApart DEF Options, IsNode
    <3>2. CASE p.type = "ss"
      <4>. DEFINE a == Or(p.cipher, p.method)
                  b == PluginName(p.plugin, "obfs")
                  c == PluginOpts(p, "clash")
      <4>1. ClashDefaults(p) = [p EXCEPT !.cipher = a, !.plugin = b, !.opts = c]
        BY <3>2 DEF ClashDefaults
      <4>. HIDE DEF a, b, c
      <4>. QED BY <3>1, <4>1 DEF Switched
    <3>3. CASE p.type = "trojan"
      <4>1. ClashDefaults(p) = [p EXCEPT !.tls = "true"]
        BY <3>3 DEF ClashDefaults
      <4>. QED BY <3>1, <4>1
    <3>4. CASE p.type = "vmess"
      <4>. DEFINE a == Or(p.aid, "0")
                  b == Or(p.tls, "false")
      <4>1. ClashDefaults(p) = [p EXCEPT !.aid = a, !.tls = b]
        BY <3>4 DEF ClashDefaults
      <4>2. b \in {"true", "false"}
        BY DEF Switched, Or
      <4>. HIDE DEF a, b
      <4>. QED BY <3>1, <4>1, <4>2
    <3>5. CASE p.type = "vless"
      <4>. DEFINE a == IF p.reality = "true" THEN Or(p.fp, "chrome") ELSE p.fp
                  b == Or(p.tls, "false")
      <4>1. ClashDefaults(p) = [p EXCEPT !.tls = b, !.fp = a]
        BY <3>5 DEF ClashDefaults
      <4>2. b \in {"true", "false"}
        BY DEF Switched, Or
      <4>. HIDE DEF a, b
      <4>. QED BY <3>1, <4>1, <4>2
    <3>6. CASE p.type = "tuic"
      <4>. DEFINE a == IF p.uos = "true" THEN None ELSE p.urm
      <4>1. ClashDefaults(p) = [p EXCEPT !.urm = a]
        BY <3>6 DEF ClashDefaults
      <4>. HIDE DEF a
      <4>. QED BY <3>1, <4>1 DEF Switched
    <3>7. CASE p.type \in {"socks5", "http"}
      <4>. DEFINE a == Or(p.tls, IF p.port = 443 THEN "true" ELSE None)
      <4>1. ClashDefaults(p) = [p EXCEPT !.tls = a]
        BY <3>7 DEF ClashDefaults
      <4>2. a \in {None, "true", "false"}
        BY DEF Switched, Or
      <4>. HIDE DEF a
      <4>. QED BY <3>1, <4>1, <4>2
    <3>8. CASE p.type \notin {"ss", "trojan", "vmess", "vless", "tuic", "socks5", "http"}
      <4>1. ClashDefaults(p) = p
        BY <3>8 DEF ClashDefaults
      <4>. QED BY <4>1 DEF Switched
    <3>. QED BY <3>2, <3>3, <3>4, <3>5, <3>6, <3>7, <3>8
  <2>3. q.tls \in {None, "true", "false"}
    BY <2>1, <2>2 DEF ClashReads, Fill
  <2>. QED BY <2>3 DEF Switched, q
<1>2. CASE format = "sing-box"
  <2>1. SingboxReads(p, q)
    BY <1>2, ReadAs
  <2>. HIDE DEF q
  <2>2. SingboxFound(p, q, SingboxKeys(p), SingboxDefaults(p))
    BY <2>1, SingboxFinds
  <2>3. q.tls \in {"true", "false"}
    BY <2>2 DEF SingboxFound
  <2>. QED BY <2>3 DEF Switched, q
<1>3. CASE format = "v2ray"
  <2>1. V2rayReads(p, q)
    BY <1>3, ReadAs
  <2>. HIDE DEF q
  <2>2. V2rayFound(p, q, V2rayKeys(p), V2rayDefaults(p))
    BY <2>1, V2rayOptionFound
  <2>. DEFINE K == V2rayKeys(p)
              d == V2rayDefaults(p)
  <2>3. /\ q.tls = (IF q.reality = "true" THEN "true" ELSE IF "tls" \in K THEN d.tls ELSE None)
        /\ d.tls = (IF p.reality = "true" THEN "true" ELSE Or(p.tls, "false"))
    BY <2>2 DEF V2rayFound
  <2>. HIDE DEF K, d
  <2>4. q.tls \in {None, "true", "false"}
    BY <2>3 DEF Switched, Or
  <2>. QED BY <2>4 DEF Switched, q
<1>. QED BY <1>1, <1>2, <1>3 DEF Readable

AllSwitched(s) == \A i \in DOMAIN s : Switched(s[i])

\* The switches depend on the options only.
LEMMA SwitchedIsOptions ==
  ASSUME NEW p, Switched(p), NEW q, \A k \in Options : q[k] = p[k]
  PROVE  Switched(q)
<1>1. q.tls = p.tls
  BY DEF Options
<1>. QED BY <1>1 DEF Switched

\* A node under another name keeps its options, its type and its address.
LEMMA AlikeOptions ==
  ASSUME NEW p, IsNode(p), NEW q, Alike(q, p)
  PROVE  /\ \A k \in Options : q[k] = p[k]
         /\ q.type = p.type /\ q.server = p.server /\ q.port = p.port
BY AlikeIs, FieldsApart DEF Always

\* The switches of a hub's nodes are true, false or missing.
LEMMA AlwaysSwitched == ASSUME NumbersAreWords PROVE Spec => []AllSwitched(nodes)
<1>1. Init => AllSwitched(nodes)
  BY DEF Init, AllSwitched
<1>2. ASSUME TypeOK, Answered, AllSwitched(nodes), [Next]_vars PROVE AllSwitched(nodes)'
  <2>1. ASSUME NEW d \in Sources, Fetch(d) PROVE AllSwitched(nodes')
    <3>. DEFINE all == Parse(d.format, d.entries)
                x == d.entries
                f == d.format
    <3>1. /\ f \in DocFormats /\ IsListOf(x, IsEntry)
          /\ \A i \in DOMAIN x : \A k \in Switches \cap DOMAIN x[i] : x[i][k] \in {"true", "false"}
      BY PublishAssumption
    <3>2. "tls" \in Switches
      BY DEF Switches
    <3>3. \A i \in DOMAIN x : IsEntry(x[i]) /\ ("tls" \in DOMAIN x[i] => x[i].tls \in {"true", "false"})
      BY <3>1, <3>2, EntriesAre
    <3>4. nodes' = all
      BY <2>1 DEF Fetch
    <3>5. /\ f \in Readable => DOMAIN all = DOMAIN x /\ \A k \in DOMAIN x : all[k] = From(f, x[k])
          /\ f = "links" => \A k \in DOMAIN all : \E i \in DOMAIN x : IsNodeLink(x[i]) /\ all[k] = FromLink(x[i])
          /\ f = "surge" => all = <<>>
      BY <3>1, ParseIs
    <3>. HIDE DEF all, x, f
    <3>6. CASE f \in Readable
      <4>1. ASSUME NEW k \in DOMAIN all PROVE Switched(all[k])
        BY <3>3, <3>5, <3>6, FromSwitched
      <4>. QED BY <3>4, <4>1 DEF AllSwitched
    <3>7. CASE f = "links"
      <4>1. ASSUME NEW k \in DOMAIN all PROVE Switched(all[k])
        BY <3>3, <3>5, <3>7, LinkSwitched
      <4>. QED BY <3>4, <4>1 DEF AllSwitched
    <3>8. CASE f = "surge"
      BY <3>4, <3>5, <3>8 DEF AllSwitched
    <3>. QED BY <3>1, <3>6, <3>7, <3>8 DEF DocFormats, Readable
  <2>2. ASSUME SpeedTest \/ GeoDetect \/ UnlockDetect PROVE AllSwitched(nodes')
    BY <1>2, <2>2, TestsKeepNodes, SwitchedIsOptions DEF TypeOK, AllSwitched
  <2>3. ASSUME NEW r \in Requests, Answer(r) PROVE AllSwitched(nodes')
    BY <1>2, <2>3 DEF Answer
  <2>4. ASSUME ReadBack PROVE AllSwitched(nodes')
    <3>1. CASE doc.format = "surge"
      <4>1. IsListOf(doc.entries, IsEntry) /\ nodes' = Parse("surge", doc.entries)
        BY <1>2, <2>4, <3>1 DEF ReadBack, TypeOK
      <4>2. "surge" \in DocFormats
        BY DEF DocFormats
      <4>3. nodes' = <<>>
        BY <4>1, <4>2, ParseIs
      <4>. QED BY <4>3 DEF AllSwitched
    <3>2. CASE doc.format # "surge"
      <4>. DEFINE w == Written(sent, doc.format)
      <4>1. /\ doc.format \in Readable /\ DOMAIN nodes' = DOMAIN w
            /\ \A k \in DOMAIN w :
                 /\ IsNode(w[k]) /\ IsUsable(w[k]) /\ Represented(doc.format, w[k])
                 /\ \E i \in DOMAIN nodes : Alike(w[k], nodes[i])
                 /\ nodes'[k] = From(doc.format, To(doc.format, w[k]))
        BY <1>2, <2>4, <3>2, TripIs
      <4>. HIDE DEF w
      <4>2. ASSUME NEW k \in DOMAIN w PROVE Switched(nodes'[k])
        <5>1. PICK i \in DOMAIN nodes : Alike(w[k], nodes[i])
          BY <4>1
        <5>2. IsNode(nodes[i]) /\ Switched(nodes[i])
          BY <1>2, NodesAre DEF TypeOK, AllSwitched
        <5>3. Switched(w[k])
          BY <5>1, <5>2, AlikeOptions, SwitchedIsOptions
        <5>. QED BY <4>1, <5>3, TripSwitched
      <4>. QED BY <4>1, <4>2 DEF AllSwitched
    <3>. QED BY <3>1, <3>2
  <2>5. CASE UNCHANGED vars
    BY <1>2, <2>5 DEF vars
  <2>. QED BY <1>2, <2>1, <2>2, <2>3, <2>4, <2>5 DEF Next
<1>. QED BY <1>1, <1>2, AlwaysAnswered, PTL DEF Spec

-----------------------------------------------------------------------------
(* Fingerprints settle. *)

\* A node that was read from a document of the format.
ReadFrom(format, a, p) ==
    /\ IsNode(a) /\ Switched(a)
    /\ format \in {"clash", "base64"} => ClashReads(a, p)
    /\ format = "sing-box" => SingboxReads(a, p)
    /\ format = "v2ray" => V2rayReads(a, p)
Ripe(format, p) == \E a : ReadFrom(format, a, p)
AllRipe(s, format) == format \in Readable => \A i \in DOMAIN s : Ripe(format, s[i])

\* Whether a node is ripe does not depend on its name.
LEMMA RipeIsOptions ==
  ASSUME NEW format, NEW p, Ripe(format, p), NEW q, \A k \in Options : q[k] = p[k],
         q.type = p.type, q.server = p.server, q.port = p.port
  PROVE  Ripe(format, q)
<1>1. PICK a : ReadFrom(format, a, p)
  BY DEF Ripe
<1>2. q.tls = p.tls /\ q.reality = p.reality /\ q.uuid = p.uuid /\ q.flow = p.flow
  BY DEF Options
<1>3. ClashReads(a, p) => ClashReads(a, q)
  BY <1>2 DEF ClashReads
<1>4. SingboxReads(a, p) => SingboxReads(a, q)
  BY <1>2 DEF SingboxReads
<1>5. V2rayReads(a, p) => V2rayReads(a, q)
  BY <1>2 DEF V2rayReads
<1>6. ReadFrom(format, a, q)
  BY <1>1, <1>3, <1>4, <1>5 DEF ReadFrom
<1>. QED BY <1>6 DEF Ripe

\* What a hub has read from a format is ripe for it.
LEMMA AlwaysRipe == ASSUME NumbersAreWords PROVE Spec => []AllRipe(nodes, via)
<1>1. Init => AllRipe(nodes, via)
  BY DEF Init, AllRipe
<1>2. ASSUME TypeOK, Answered, AllSwitched(nodes), AllRipe(nodes, via), [Next]_vars
      PROVE  AllRipe(nodes, via)'
  <2>1. ASSUME NEW d \in Sources, Fetch(d) PROVE AllRipe(nodes', via')
    <3>1. via' = "foreign"
      BY <2>1 DEF Fetch
    <3>. QED BY <3>1 DEF AllRipe, Readable
  <2>2. ASSUME SpeedTest \/ GeoDetect \/ UnlockDetect PROVE AllRipe(nodes', via')
    <3>1. /\ DOMAIN nodes' = DOMAIN nodes
          /\ \A i \in DOMAIN nodes : \A k \in Always \cup Options : nodes'[i][k] = nodes[i][k]
      BY <1>2, <2>2, TestsKeepNodes DEF TypeOK
    <3>2. via' = via
      BY <2>2 DEF SpeedTest, GeoDetect, UnlockDetect, MeasuringRun
    <3>3. ASSUME NEW i \in DOMAIN nodes, Ripe(via, nodes[i]) PROVE Ripe(via, nodes'[i])
      <4>1. \A k \in Options : nodes'[i][k] = nodes[i][k]
        BY <3>1
      <4>2. nodes'[i].type = nodes[i].type /\ nodes'[i].server = nodes[i].server /\ nodes'[i].port = nodes[i].port
        BY <3>1 DEF Always
      <4>. QED BY <3>3, <4>1, <4>2, RipeIsOptions
    <3>. QED BY <1>2, <3>1, <3>2, <3>3 DEF AllRipe
  <2>3. ASSUME NEW r \in Requests, Answer(r) PROVE AllRipe(nodes', via')
    BY <1>2, <2>3 DEF Answer
  <2>4. ASSUME ReadBack PROVE AllRipe(nodes', via')
    <3>0. via' = doc.format
      BY <2>4 DEF ReadBack
    <3>1. CASE doc.format = "surge"
      BY <3>0, <3>1 DEF AllRipe, Readable
    <3>2. CASE doc.format # "surge"
      <4>. DEFINE w == Written(sent, doc.format)
      <4>1. /\ doc.format \in Readable /\ DOMAIN nodes' = DOMAIN w
            /\ \A k \in DOMAIN w :
                 /\ IsNode(w[k]) /\ IsUsable(w[k]) /\ Represented(doc.format, w[k])
                 /\ \E i \in DOMAIN nodes : Alike(w[k], nodes[i])
                 /\ nodes'[k] = From(doc.format, To(doc.format, w[k]))
        BY <1>2, <2>4, <3>2, TripIs
      <4>. HIDE DEF w
      <4>2. ASSUME NEW k \in DOMAIN w PROVE Ripe(doc.format, nodes'[k])
        <5>1. PICK i \in DOMAIN nodes : Alike(w[k], nodes[i])
          BY <4>1
        <5>2. IsNode(nodes[i]) /\ Switched(nodes[i])
          BY <1>2, NodesAre DEF TypeOK, AllSwitched
        <5>3. Switched(w[k])
          BY <5>1, <5>2, AlikeOptions, SwitchedIsOptions
        <5>4. ReadFrom(doc.format, w[k], nodes'[k])
          BY <4>1, <5>3, ReadAs DEF ReadFrom
        <5>. QED BY <5>4 DEF Ripe
      <4>. QED BY <3>0, <4>1, <4>2 DEF AllRipe
    <3>. QED BY <3>1, <3>2
  <2>5. CASE UNCHANGED vars
    BY <1>2, <2>5 DEF vars
  <2>. QED BY <1>2, <2>1, <2>2, <2>3, <2>4, <2>5 DEF Next
<1>. QED BY <1>1, <1>2, AlwaysAnswered, AlwaysSwitched, PTL DEF Spec

\* A node that was read from a format comes back from it as it was.
LEMMA RipeKin ==
  ASSUME NEW format \in Readable, NEW p, IsNode(p), IsUsable(p), Represented(format, p), Ripe(format, p),
         NEW q, q = From(format, To(format, p))
  PROVE  Kin(p, q) /\ q.type = p.type
<1>1. PICK a : ReadFrom(format, a, p)
  BY DEF Ripe
<1>2. IsNode(a) /\ a.tls # ""
  BY <1>1, WordsAre DEF ReadFrom, Switched, Words
<1>3. p.type \in DOMAIN ClashOptions /\ p.type # "other"
  BY UsableType, TypesOf
<1>4. CASE format \in {"clash", "base64"}
  <2>1. ClashReads(a, p) /\ ClashReads(p, q)
    BY <1>1, <1>4, ReadAs DEF ReadFrom
  <2>2. p.type = (IF a.type = "anytls" THEN "other" ELSE a.type) /\ q.type = (IF p.type = "anytls" THEN "other" ELSE p.type)
    BY <2>1 DEF ClashReads
  <2>3. a.type = p.type /\ p.type # "anytls"
    BY <1>3, <2>2
  <2>. QED BY <1>2, <1>3, <2>1, <2>2, <2>3, ClashKin
<1>5. CASE format = "sing-box"
  <2>1. SingboxReads(a, p) /\ SingboxReads(p, q) /\ p.type \in DOMAIN SingboxOptions
    BY <1>1, <1>5, ReadAs DEF ReadFrom
  <2>2. p.type = (IF a.type = "http" THEN "other" ELSE a.type) /\ q.type = (IF p.type = "http" THEN "other" ELSE p.type)
    BY <2>1 DEF SingboxReads
  <2>3. a.type = p.type /\ p.type # "http"
    BY <1>3, <2>2
  <2>. QED BY <1>2, <2>1, <2>2, <2>3, SingboxKin
<1>6. CASE format = "v2ray"
  <2>1. V2rayReads(a, p) /\ V2rayReads(p, q) /\ p.type \in DOMAIN V2rayOptions
    BY <1>1, <1>6, ReadAs DEF ReadFrom
  <2>2. p.type = a.type /\ q.type = p.type
    BY <2>1 DEF V2rayReads
  <2>. QED BY <1>2, <2>1, <2>2, V2rayKin
<1>. QED BY <1>4, <1>5, <1>6 DEF Readable

\* Once read from a format a node keeps its fingerprint through that format,
\* however often it goes through it and whatever is measured of it meanwhile.
THEOREM FingerprintsSettle == ASSUME NumbersAreWords PROVE Spec => Settled
<1>1. ASSUME TypeOK, Answered, AllRipe(nodes, via) PROVE Trip(SameFingerprint)
  <2>. SUFFICES ASSUME ReadBack, doc.format # "surge"
                PROVE  LET w == Written(sent, doc.format)
                       IN  /\ Len(nodes') = Len(w)
                           /\ \A k \in DOMAIN w : SameFingerprint(w[k], nodes'[k])
    BY DEF Trip
  <2>. DEFINE w == Written(sent, doc.format)
  <2>1. /\ doc.format \in Readable /\ Len(nodes') = Len(w)
        /\ \A k \in DOMAIN w :
             /\ IsNode(w[k]) /\ IsUsable(w[k]) /\ Represented(doc.format, w[k])
             /\ \E i \in DOMAIN nodes : Alike(w[k], nodes[i])
             /\ nodes'[k] = From(doc.format, To(doc.format, w[k]))
    BY <1>1, TripIs
  <2>. HIDE DEF w
  <2>2. ASSUME NEW k \in DOMAIN w, via = doc.format PROVE Fingerprint(nodes'[k]) = Fingerprint(w[k])
    <3>. DEFINE p == w[k]
                q == nodes'[k]
                f == doc.format
    <3>1. IsNode(p) /\ IsUsable(p) /\ Represented(f, p) /\ q = From(f, To(f, p)) /\ f \in Readable
      BY <2>1
    <3>2. Ripe(f, p)
      <4>1. PICK i \in DOMAIN nodes : Alike(p, nodes[i])
        BY <2>1
      <4>2. IsNode(nodes[i]) /\ Ripe(f, nodes[i])
        BY <1>1, <2>1, <2>2, NodesAre DEF TypeOK, AllRipe
      <4>. QED BY <4>1, <4>2, AlikeOptions, RipeIsOptions
    <3>. HIDE DEF p, q, f
    <3>3. Kin(p, q) /\ q.type = p.type
      BY <3>1, <3>2, RipeKin
    <3>4. q.server = p.server /\ q.port = p.port /\ q.name = p.name
      BY <3>1, TypeRead
    <3>5. Fingerprint(q) = Fingerprint(p)
      BY <3>3, <3>4, KinAgree
    <3>. QED BY <3>5 DEF p, q
  <2>. QED BY <2>1, <2>2 DEF w, SameFingerprint
<1>. QED BY <1>1, AlwaysAnswered, AlwaysRipe, PTL DEF Settled

-----------------------------------------------------------------------------
(* A country is named once. *)

AllPlain(s) == \A i \in DOMAIN s : Plain(s[i].name)

\* A parser keeps names as they are.
LEMMA ParsePlain ==
  ASSUME NEW format \in DocFormats, NEW entries, IsListOf(entries, IsEntry),
         \A i \in DOMAIN entries : Plain(entries[i].name)
  PROVE  AllPlain(Parse(format, entries))
<1>1. \A i \in DOMAIN entries : IsEntry(entries[i])
  BY EntriesAre
<1>2. CASE format \in Readable
  <2>1. ASSUME NEW k \in DOMAIN entries PROVE Parse(format, entries)[k].name = entries[k].name
    <3>1. IsEntry(entries[k]) /\ Parse(format, entries)[k] = From(format, entries[k])
      BY <1>1, <1>2, ParseIs
    <3>. QED BY <1>2, <3>1, FromIs DEF AsRead
  <2>. QED BY <1>2, <2>1, ParseIs DEF AllPlain
<1>3. CASE format = "links"
  <2>1. ASSUME NEW k \in DOMAIN Parse(format, entries) PROVE Plain(Parse(format, entries)[k].name)
    <3>1. PICK i \in DOMAIN entries : Parse(format, entries)[k] = FromLink(entries[i]) /\ IsNodeLink(entries[i])
      BY <1>3, ParseIs
    <3>2. FromLink(entries[i]).name = entries[i].name
      BY <1>1, <3>1, FromLinkIs DEF AsRead
    <3>. QED BY <3>1, <3>2
  <2>. QED BY <2>1 DEF AllPlain
<1>4. CASE format = "surge"
  BY <1>4, ParseIs DEF AllPlain
<1>. QED BY <1>2, <1>3, <1>4 DEF DocFormats, Readable

\* The names in a document are plain if those of its hub's nodes are: a label is
\* put in front of a name without a country only.
LEMMA WrittenPlain ==
  ASSUME NumbersAreWords, TablesApart, NamesPlain, TypeOK, Answered, AllPlain(nodes), doc # None
  PROVE  /\ IsListOf(doc.entries, IsEntry)
         /\ \A k \in DOMAIN doc.entries : Plain(doc.entries[k].name)
<1>. DEFINE w == Written(sent, asked.format)
<1>1. /\ asked \in Requests /\ sent = Selected(asked) /\ IsListOf(sent, IsNode) /\ IsListOf(nodes, IsNode)
      /\ doc.entries = ExportStr(sent, asked.format)
  BY DEF TypeOK, Answered
<1>2. asked.format \in DocFormats /\ asked.format # "links"
  BY <1>1, RequestIs
<1>3. Drawn(w, nodes)
  BY <1>1, SelectedIs, WrittenIs, DrawnTwice
<1>4. /\ IsListOf(doc.entries, IsEntry) /\ DOMAIN doc.entries = DOMAIN w
      /\ \A k \in DOMAIN w : StaysPlain(doc.entries[k].name, w[k].name)
  BY <1>1, <1>2, ExportIs
<1>. HIDE DEF w
<1>5. ASSUME NEW k \in DOMAIN w PROVE Plain(doc.entries[k].name)
  <2>1. PICK i \in DOMAIN nodes : Alike(w[k], nodes[i])
    BY <1>3 DEF Drawn
  <2>2. Plain(w[k].name)
    BY <2>1 DEF Alike, AllPlain, StaysPlain
  <2>. QED BY <1>4, <2>2 DEF StaysPlain
<1>. QED BY <1>4, <1>5

\* A hub holds plain names only, if the documents of others do.
LEMMA AlwaysPlain ==
  ASSUME NumbersAreWords, TablesApart, NamesPlain
  PROVE  Spec => []AllPlain(nodes)
<1>1. Init => AllPlain(nodes)
  BY DEF Init, AllPlain
<1>2. ASSUME TypeOK, Answered, AllPlain(nodes), [Next]_vars PROVE AllPlain(nodes)'
  <2>1. ASSUME NEW d \in Sources, Fetch(d) PROVE AllPlain(nodes')
    <3>1. d.format \in DocFormats /\ IsListOf(d.entries, IsEntry)
      BY PublishAssumption
    <3>2. \A i \in DOMAIN d.entries : Plain(d.entries[i].name)
      BY DEF NamesPlain
    <3>. QED BY <2>1, <3>1, <3>2, ParsePlain DEF Fetch
  <2>2. ASSUME SpeedTest \/ GeoDetect \/ UnlockDetect PROVE AllPlain(nodes')
    BY <1>2, <2>2, TestsKeepNodes DEF TypeOK, AllPlain, Always
  <2>3. ASSUME NEW r \in Requests, Answer(r) PROVE AllPlain(nodes')
    BY <1>2, <2>3 DEF Answer
  <2>4. ASSUME ReadBack PROVE AllPlain(nodes')
    <3>1. doc # None /\ nodes' = Parse(doc.format, doc.entries)
      BY <2>4 DEF ReadBack
    <3>2. IsListOf(doc.entries, IsEntry) /\ \A k \in DOMAIN doc.entries : Plain(doc.entries[k].name)
      BY <1>2, <3>1, WrittenPlain
    <3>3. doc.format \in DocFormats
      BY <1>2, <3>1, RequestIs DEF TypeOK, Answered
    <3>. QED BY <3>1, <3>2, <3>3, ParsePlain
  <2>5. CASE UNCHANGED vars
    BY <1>2, <2>5 DEF vars
  <2>. QED BY <1>2, <2>1, <2>2, <2>3, <2>4, <2>5 DEF Next
<1>. QED BY <1>1, <1>2, AlwaysAnswered, PTL DEF Spec

\* A name gets one country code at most, and none beside a flag or a country's
\* name, however many hubs a node goes through and whatever country each of
\* them measures (region_fixup).
THEOREM LabelsNeverPile ==
  ASSUME NumbersAreWords, TablesApart, NamesPlain
  PROVE  Spec => []LabelledOnce
<1>1. ASSUME TypeOK, Answered, AllPlain(nodes) PROVE LabelledOnce
  <2>. SUFFICES ASSUME doc # None, NEW i \in DOMAIN doc.entries
       PROVE  LET name == doc.entries[i].name
              IN  /\ Cardinality(Coding(name)) <= 1
                  /\ Coded(name, Flags) # "OTHER" \/ Named(name) # "OTHER" => Coding(name) = {}
    BY DEF LabelledOnce, Coding
  <2>1. IsEntry(doc.entries[i]) /\ Plain(doc.entries[i].name)
    BY <1>1, WrittenPlain, EntriesAre
  <2>. QED BY <2>1, PlainIs DEF IsEntry
<1>. QED BY <1>1, AlwaysAnswered, AlwaysPlain, PTL
=============================================================================
