---------------------------- MODULE ListTheorems ----------------------------
(***************************************************************************)
(* Lists of any length.  What is done to a value entry by entry of a       *)
(* request or of a list, as a recursive function on 0 .. N does it: such a *)
(* chain exists, and what its links keep it keeps.  A finite set is listed *)
(* in an order of its elements, in one way.                                *)
(***************************************************************************)
EXTENDS Integers, FunctionTheorems, FiniteSetTheorems, WellFoundedInduction, TLAPS

-----------------------------------------------------------------------------
(* Chains *)

\* Of some numbers one is the least.
LEMMA Least ==
  ASSUME NEW S \in SUBSET Nat, S # {}
  PROVE  \E m \in S : \A k \in S : m <= k
<1>1. PICK m \in S : \A k \in S : <<k, m>> \notin OpToRel(<, Nat)
  BY ONLY S \in SUBSET Nat, S # {}, NatLessThanWellFounded, WFMin
<1>2. \A k \in S : ~(k < m)
  BY <1>1 DEF OpToRel
<1>3. \A k \in S : k \in Nat /\ m \in Nat
  OBVIOUS
<1>4. \A k \in S : m <= k
  BY <1>2, <1>3
<1>. QED BY <1>4

\* What holds at the start and is kept by every link holds at the end.
LEMMA ChainEnds ==
  ASSUME NEW N \in Nat, NEW g, NEW G, g[0] \in G[0],
         \A k \in 1 .. N : g[k - 1] \in G[k - 1] => g[k] \in G[k]
  PROVE  \A k \in 0 .. N : g[k] \in G[k]
<1>. DEFINE Bad == {k \in 0 .. N : g[k] \notin G[k]}
<1>1. SUFFICES ASSUME Bad # {} PROVE FALSE
  OBVIOUS
<1>2. PICK m \in Bad : \A k \in Bad : m <= k
  <2>1. Bad \in SUBSET Nat
    OBVIOUS
  <2>. HIDE DEF Bad
  <2>. QED BY <1>1, <2>1, Least
<1>3. m \in 0 .. N /\ g[m] \notin G[m] /\ m # 0
  BY <1>2
<1>4. m - 1 \in 0 .. N /\ m \in 1 .. N /\ ~(m <= m - 1)
  BY <1>3
<1>5. m - 1 \notin Bad
  BY <1>2, <1>4
<1>. QED BY <1>3, <1>4, <1>5

\* What begins with base and is linked by F.
Chains(N, L, base, F) ==
  {g \in [0 .. N -> L] : g[0] = base /\ \A k \in 1 .. N : g[k] = F[<<k, g[k - 1]>>]}

\* There is a chain from any start, when each link leads from L to L.
LEMMA ChainExists ==
  ASSUME NEW N \in Nat, NEW L, NEW base \in L, NEW F,
         \A k \in 1 .. N, x \in L : F[<<k, x>>] \in L
  PROVE  Chains(N, L, base, F) # {}
<1>. DEFINE Chain(g, n) == /\ g \in [0 .. n -> L] /\ g[0] = base
                           /\ \A k \in 1 .. n : g[k] = F[<<k, g[k - 1]>>]
            Long == [n \in 0 .. N |-> {g \in [0 .. n -> L] : Chain(g, n)}]
            Bad == {n \in 0 .. N : Long[n] = {}}
<1>1. SUFFICES Bad = {}
  <2>1. N \in 0 .. N
    OBVIOUS
  <2>2. Long[N] # {}
    BY <1>1, <2>1
  <2>3. Long[N] = Chains(N, L, base, F)
    BY <2>1 DEF Chains
  <2>. QED BY <2>2, <2>3
<1>2. SUFFICES ASSUME Bad # {} PROVE FALSE
  OBVIOUS
<1>3. PICK m \in Bad : \A k \in Bad : m <= k
  <2>1. Bad \in SUBSET Nat
    OBVIOUS
  <2>. HIDE DEF Bad
  <2>. QED BY <1>2, <2>1, Least
<1>4. m # 0
  <2>1. Chain([k \in 0 .. 0 |-> base], 0)
    OBVIOUS
  <2>. QED BY <1>3, <2>1
<1>5. m \in 1 .. N /\ m - 1 \in 0 .. N /\ ~(m <= m - 1)
  BY <1>3, <1>4
<1>6. PICK g : Chain(g, m - 1)
  <2>1. m - 1 \notin Bad
    BY <1>3, <1>5
  <2>2. Long[m - 1] # {}
    BY <1>5, <2>1
  <2>. QED BY <1>5, <2>2
<1>. DEFINE h == [k \in 0 .. m |-> IF k = m THEN F[<<m, g[m - 1]>>] ELSE g[k]]
<1>7. h \in [0 .. m -> L] /\ h[0] = base
  BY <1>5, <1>6
<1>8. ASSUME NEW k \in 1 .. m PROVE h[k] = F[<<k, h[k - 1]>>]
  <2>1. k - 1 \in 0 .. m /\ k - 1 # m /\ k \in 0 .. m /\ h[k - 1] = g[k - 1]
    BY <1>5
  <2>2. CASE k = m
    BY <2>1, <2>2
  <2>3. CASE k # m
    <3>1. k \in 1 .. m - 1
      BY <1>5, <2>3
    <3>. QED BY <1>6, <2>1, <2>3, <3>1
  <2>. QED BY <2>2, <2>3
<1>9. Chain(h, m)
  BY <1>7, <1>8
<1>. QED BY <1>3, <1>5, <1>9

-----------------------------------------------------------------------------
(* Orders *)

\* A strict order of I that leaves no two apart.
Linear(I, R) ==
    /\ \A i \in I : <<i, i>> \notin R
    /\ \A i, j \in I : i # j => <<i, j>> \in R \/ <<j, i>> \in R
    /\ \A i, j, k \in I : <<i, j>> \in R /\ <<j, k>> \in R => <<i, k>> \in R

Below(I, R, i) == {j \in I : <<j, i>> \in R}

\* e lists I in the order R.
Lists(e, I, R) ==
    /\ e \in [1 .. Cardinality(I) -> I]
    /\ \A i \in I : \E k \in 1 .. Cardinality(I) : e[k] = i
    /\ \A k, l \in 1 .. Cardinality(I) : k < l => <<e[k], e[l]>> \in R

\* Who precedes more comes later.
LEMMA Ranks ==
  ASSUME NEW I, IsFiniteSet(I), NEW R, Linear(I, R), NEW i \in I
  PROVE  /\ IsFiniteSet(Below(I, R, i))
         /\ Cardinality(Below(I, R, i)) \in 0 .. Cardinality(I) - 1
         /\ \A j \in I : <<i, j>> \in R =>
                Cardinality(Below(I, R, i)) < Cardinality(Below(I, R, j))
<1>1. ASSUME NEW S, NEW T, IsFiniteSet(T), S \subseteq T, NEW x \in T, x \notin S
      PROVE  /\ IsFiniteSet(S) /\ Cardinality(S) \in Nat /\ Cardinality(T) \in Nat
             /\ Cardinality(S) < Cardinality(T)
  <2>1. S \in SUBSET T /\ S # T
    BY <1>1
  <2>2. IsFiniteSet(S) /\ Cardinality(S) <= Cardinality(T) /\ Cardinality(S) # Cardinality(T)
    BY <1>1, <2>1, FS_Subset
  <2>3. Cardinality(S) \in Nat /\ Cardinality(T) \in Nat
    BY <1>1, <2>2, FS_CardinalityType
  <2>. QED BY <2>2, <2>3
<1>2. Below(I, R, i) \subseteq I /\ i \notin Below(I, R, i)
  BY DEF Below, Linear
<1>3. /\ IsFiniteSet(Below(I, R, i))
      /\ Cardinality(Below(I, R, i)) \in Nat /\ Cardinality(I) \in Nat
      /\ Cardinality(Below(I, R, i)) < Cardinality(I)
  BY <1>1, <1>2
<1>4. ASSUME NEW j \in I, <<i, j>> \in R
      PROVE  Cardinality(Below(I, R, i)) < Cardinality(Below(I, R, j))
  <2>1. Below(I, R, i) \subseteq Below(I, R, j) /\ i \in Below(I, R, j) /\ i \notin Below(I, R, i)
    BY <1>4 DEF Below, Linear
  <2>2. IsFiniteSet(Below(I, R, j))
    <3>1. Below(I, R, j) \in SUBSET I
      BY DEF Below
    <3>. QED BY <3>1, FS_Subset
  <2>. QED BY <1>1, <2>1, <2>2
<1>. QED BY <1>3, <1>4

\* A finite linear order can be listed, and the k-th is the one below which
\* are k - 1.
LEMMA ListExists ==
  ASSUME NEW I, IsFiniteSet(I), NEW R, Linear(I, R)
  PROVE  \E e : /\ Lists(e, I, R)
                /\ \A k \in 1 .. Cardinality(I), i \in I :
                      Cardinality(Below(I, R, i)) = k - 1 <=> i = e[k]
<1>. DEFINE n == Cardinality(I)
            f == [i \in I |-> Cardinality(Below(I, R, i)) + 1]
<1>1. n \in Nat
  BY FS_CardinalityType
<1>2. \A i \in I : f[i] \in 1 .. n
  <2>. SUFFICES ASSUME NEW i \in I PROVE Cardinality(Below(I, R, i)) + 1 \in 1 .. n
    OBVIOUS
  <2>1. Cardinality(Below(I, R, i)) \in 0 .. n - 1
    BY Ranks
  <2>. HIDE DEF n
  <2>. QED BY <1>1, <2>1
<1>3. \A i, j \in I : <<i, j>> \in R => f[i] < f[j]
  <2>. SUFFICES ASSUME NEW i \in I, NEW j \in I, <<i, j>> \in R
                PROVE Cardinality(Below(I, R, i)) + 1 < Cardinality(Below(I, R, j)) + 1
    OBVIOUS
  <2>1. Cardinality(Below(I, R, i)) < Cardinality(Below(I, R, j))
    BY Ranks
  <2>2. Cardinality(Below(I, R, i)) \in Int /\ Cardinality(Below(I, R, j)) \in Int
    BY <1>1, Ranks
  <2>. QED BY <2>1, <2>2
<1>4. f \in Injection(I, 1 .. n)
  <2>1. f \in [I -> 1 .. n]
    BY <1>2
  <2>2. ASSUME NEW i \in I, NEW j \in I, f[i] = f[j] PROVE i = j
    <3>1. f[i] \in Int /\ f[j] \in Int
      BY <1>1, <1>2
    <3>. HIDE DEF f
    <3>2. <<i, j>> \notin R /\ <<j, i>> \notin R
      BY <1>3, <2>2, <3>1
    <3>. QED BY <3>2 DEF Linear
  <2>. HIDE DEF f
  <2>. QED BY <2>1, <2>2, Fun_IsInj
<1>5. \A k \in 1 .. n : \E i \in I : f[i] = k
  <2>1. IsFiniteSet(1 .. n) /\ Cardinality(1 .. n) = n
    <3>1. n \in Int /\ 1 \in Int /\ (IF 1 > n THEN 0 ELSE n - 1 + 1) = n
      BY <1>1
    <3>. HIDE DEF n
    <3>. QED BY <3>1, FS_Interval
  <2>2. f \in Surjection(I, 1 .. n)
    <3>. HIDE DEF f
    <3>. QED BY <1>4, <2>1, FS_Injection
  <2>. HIDE DEF f, n
  <2>. QED BY <2>2 DEF Surjection
<1>. DEFINE e == [k \in 1 .. n |-> CHOOSE i \in I : f[i] = k]
<1>6. ASSUME NEW k \in 1 .. n, NEW i \in I PROVE e[k] \in I /\ f[e[k]] = k /\ (f[i] = k <=> i = e[k])
  <2>1. e[k] \in I /\ f[e[k]] = k
    <3>. HIDE DEF f, n
    <3>. QED BY <1>5
  <2>2. f[i] = k => i = e[k]
    <3>. HIDE DEF e, f, n
    <3>. QED BY <1>4, <2>1, Fun_InjectionProperties
  <2>. HIDE DEF e, f, n
  <2>. QED BY <2>1, <2>2
<1>7. ASSUME NEW k \in 1 .. n PROVE e[k] \in I /\ f[e[k]] = k
  <2>. HIDE DEF f, n
  <2>. QED BY <1>5
<1>8. Lists(e, I, R)
  <2>1. e \in [1 .. n -> I]
    <3>. SUFFICES \A k \in 1 .. n : e[k] \in I
      OBVIOUS
    <3>. HIDE DEF e, f, n
    <3>. QED BY <1>7
  <2>2. ASSUME NEW i \in I PROVE \E k \in 1 .. n : e[k] = i
    <3>. HIDE DEF e, f, n
    <3>. QED BY <1>2, <1>6
  <2>3. ASSUME NEW k \in 1 .. n, NEW l \in 1 .. n, k < l PROVE <<e[k], e[l]>> \in R
    <3>. HIDE DEF e, f, n
    <3>1. e[k] \in I /\ e[l] \in I /\ f[e[k]] = k /\ f[e[l]] = l
      BY <1>7
    <3>2. k \in Int /\ l \in Int
      BY <1>1
    <3>3. e[k] # e[l]
      BY <2>3, <3>1, <3>2
    <3>4. ~(<<e[l], e[k]>> \in R)
      BY <1>3, <2>3, <3>1, <3>2
    <3>. QED BY <3>1, <3>3, <3>4 DEF Linear
  <2>. HIDE DEF e, f
  <2>. QED BY <2>1, <2>2, <2>3 DEF Lists
<1>9. ASSUME NEW k \in 1 .. n, NEW i \in I
      PROVE  Cardinality(Below(I, R, i)) = k - 1 <=> i = e[k]
  <2>1. Cardinality(Below(I, R, i)) \in Int /\ k \in Int
    BY <1>1, Ranks
  <2>2. f[i] = Cardinality(Below(I, R, i)) + 1
    OBVIOUS
  <2>. HIDE DEF e, f, n
  <2>. QED BY <1>6, <2>1, <2>2
<1>. HIDE DEF e, f
<1>. QED BY <1>8, <1>9

\* There is one way only to list it: what is in order is the list.
LEMMA ListUnique ==
  ASSUME NEW I, IsFiniteSet(I), NEW R, Linear(I, R), NEW e, NEW f, Lists(e, I, R), Lists(f, I, R)
  PROVE  e = f
<1>. DEFINE n == Cardinality(I)
<1>1. n \in Nat
  BY FS_CardinalityType
<1>2. ASSUME NEW g, Lists(g, I, R), NEW k \in 1 .. n
      PROVE  Cardinality(Below(I, R, g[k])) = k - 1
  <2>. DEFINE h == [j \in 1 .. k - 1 |-> g[j]]
              B == Below(I, R, g[k])
  <2>1. /\ g \in [1 .. n -> I] /\ \A i \in I : \E j \in 1 .. n : g[j] = i
        /\ \A j, l \in 1 .. n : j < l => <<g[j], g[l]>> \in R
    BY <1>2 DEF Lists
  <2>2. k \in Int /\ \A j \in 1 .. k - 1 : j \in 1 .. n /\ j < k
    BY <1>1
  <2>3. ASSUME NEW j \in 1 .. n, NEW l \in 1 .. n, <<g[j], g[l]>> \in R PROVE j < l
    <3>1. g[j] \in I /\ g[l] \in I /\ j \in Int /\ l \in Int
      BY <1>1, <2>1
    <3>2. g[j] # g[l] /\ <<g[l], g[j]>> \notin R
      BY <2>3, <3>1 DEF Linear
    <3>3. ~(l < j) /\ j # l
      BY <2>1, <3>2
    <3>. QED BY <3>1, <3>3
  <2>4. h \in [1 .. k - 1 -> B]
    BY <2>1, <2>2 DEF Below
  <2>5. \A b \in B : \E j \in 1 .. k - 1 : h[j] = b
    <3>. SUFFICES ASSUME NEW b \in I, <<b, g[k]>> \in R PROVE \E j \in 1 .. k - 1 : h[j] = b
      BY DEF Below
    <3>1. PICK j \in 1 .. n : g[j] = b
      BY <2>1
    <3>2. j < k
      BY <2>3, <3>1
    <3>3. j \in 1 .. k - 1
      BY <1>1, <2>2, <3>2
    <3>. QED BY <3>1, <3>3
  <2>6. \A i, j \in 1 .. k - 1 : h[i] = h[j] => i = j
    <3>. SUFFICES ASSUME NEW i \in 1 .. k - 1, NEW j \in 1 .. k - 1, h[i] = h[j], i # j PROVE FALSE
      OBVIOUS
    <3>1. i \in 1 .. n /\ j \in 1 .. n /\ g[i] = g[j] /\ g[i] \in I
      BY <2>1, <2>2
    <3>2. i \in Int /\ j \in Int
      BY <2>2
    <3>3. <<g[i], g[j]>> \in R \/ <<g[j], g[i]>> \in R
      BY <2>1, <3>1, <3>2
    <3>. QED BY <3>1, <3>3 DEF Linear
  <2>7. IsFiniteSet(1 .. k - 1) /\ Cardinality(1 .. k - 1) = k - 1
    <3>1. 1 \in Int /\ k - 1 \in Int /\ (IF 1 > k - 1 THEN 0 ELSE (k - 1) - 1 + 1) = k - 1
      BY <1>1
    <3>. QED BY <3>1, FS_Interval
  <2>. HIDE DEF h, B
  <2>8. h \in Bijection(1 .. k - 1, B)
    BY <2>4, <2>5, <2>6, Fun_IsBij
  <2>9. Cardinality(B) = Cardinality(1 .. k - 1)
    <3>1. ExistsBijection(1 .. k - 1, B)
      BY <2>8 DEF ExistsBijection
    <3>. QED BY <2>7, <3>1, FS_Bijection
  <2>. QED BY <2>7, <2>9 DEF B
<1>3. PICK d : \A k \in 1 .. n, i \in I : Cardinality(Below(I, R, i)) = k - 1 <=> i = d[k]
  BY ListExists
<1>4. ASSUME NEW k \in 1 .. n PROVE e[k] = f[k]
  <2>1. e[k] \in I /\ f[k] \in I
    BY DEF Lists
  <2>2. Cardinality(Below(I, R, e[k])) = k - 1 /\ Cardinality(Below(I, R, f[k])) = k - 1
    BY <1>2
  <2>. HIDE DEF n
  <2>. QED BY <1>3, <2>1, <2>2
<1>5. e \in [1 .. n -> I] /\ f \in [1 .. n -> I]
  BY DEF Lists
<1>6. \A k \in 1 .. n : e[k] = f[k]
  BY <1>4
<1>7. e = [k \in 1 .. n |-> e[k]] /\ f = [k \in 1 .. n |-> f[k]]
  <2>. HIDE DEF n
  <2>. QED BY <1>5
<1>8. [k \in 1 .. n |-> e[k]] = [k \in 1 .. n |-> f[k]]
  BY <1>6
<1>. HIDE DEF n
<1>. QED BY <1>7, <1>8

\* A list names nobody twice.
LEMMA ListInjective ==
  ASSUME NEW I, IsFiniteSet(I), NEW R, Linear(I, R), NEW e, Lists(e, I, R),
         NEW k \in 1 .. Cardinality(I), NEW l \in 1 .. Cardinality(I), e[k] = e[l]
  PROVE  k = l
<1>1. Cardinality(I) \in Nat
  BY FS_CardinalityType
<1>2. k \in Int /\ l \in Int
  BY <1>1
<1>3. e[k] \in I /\ ~(k < l) /\ ~(l < k)
  BY DEF Lists, Linear
<1>. QED BY <1>2, <1>3

\* What a list holds at some places is as many as these places.
LEMMA ListImage ==
  ASSUME NEW I, IsFiniteSet(I), NEW R, Linear(I, R), NEW e, Lists(e, I, R),
         NEW J \in SUBSET (1 .. Cardinality(I))
  PROVE  /\ IsFiniteSet(J)
         /\ IsFiniteSet({e[k] : k \in J})
         /\ Cardinality({e[k] : k \in J}) = Cardinality(J)
<1>. DEFINE n == Cardinality(I)
            T == {e[k] : k \in J}
            g == [k \in J |-> e[k]]
<1>1. n \in Nat
  BY FS_CardinalityType
<1>2. IsFiniteSet(1 .. n)
  <2>1. n \in Int /\ 1 \in Int
    BY <1>1
  <2>. HIDE DEF n
  <2>. QED BY <2>1, FS_Interval
<1>3. IsFiniteSet(J)
  BY <1>2, FS_Subset
<1>4. g \in [J -> T] /\ \A t \in T : \E k \in J : g[k] = t
  OBVIOUS
<1>5. ASSUME NEW k \in J, NEW l \in J, g[k] = g[l] PROVE k = l
  BY <1>5, ListInjective
<1>. HIDE DEF T, g, n
<1>6. g \in Bijection(J, T)
  BY <1>4, <1>5, Fun_IsBij
<1>7. ExistsBijection(J, T)
  BY <1>6 DEF ExistsBijection
<1>8. IsFiniteSet(T) /\ Cardinality(T) = Cardinality(J)
  BY <1>3, <1>7, FS_Bijection
<1>. QED BY <1>3, <1>8 DEF T

\* A list of places of a list.
LEMMA ListCompose ==
  ASSUME NEW I, IsFiniteSet(I), NEW R, Linear(I, R), NEW e, Lists(e, I, R),
         NEW J \in SUBSET (1 .. Cardinality(I)), NEW S, NEW f, Lists(f, J, S),
         NEW Q, \A k, l \in J : <<k, l>> \in S => <<e[k], e[l]>> \in Q,
         NEW T, T = {e[k] : k \in J}, NEW h, h = [k \in 1 .. Cardinality(J) |-> e[f[k]]]
  PROVE  Lists(h, T, Q)
<1>. DEFINE n == Cardinality(J)
<1>1. Cardinality(T) = n
  BY ListImage
<1>2. \A k \in 1 .. n : f[k] \in J
  BY DEF Lists
<1>3. h \in [1 .. n -> T]
  BY <1>2
<1>4. ASSUME NEW t \in T PROVE \E k \in 1 .. n : h[k] = t
  <2>1. PICK j \in J : t = e[j]
    OBVIOUS
  <2>2. PICK k \in 1 .. n : f[k] = j
    BY DEF Lists
  <2>. QED BY <2>1, <2>2
<1>5. ASSUME NEW k \in 1 .. n, NEW l \in 1 .. n, k < l PROVE <<h[k], h[l]>> \in Q
  <2>1. <<f[k], f[l]>> \in S
    BY <1>5 DEF Lists
  <2>. QED BY <1>2, <2>1
<1>. HIDE DEF n
<1>6. Lists(h, T, Q)
  BY <1>1, <1>3, <1>4, <1>5 DEF Lists
<1>. QED BY <1>6

\* Numbers are in order.
Less(n) == {p \in (1 .. n) \X (1 .. n) : p[1] < p[2]}

LEMMA LessLinear ==
  ASSUME NEW n \in Nat, NEW I \in SUBSET (1 .. n)
  PROVE  /\ IsFiniteSet(I) /\ Linear(I, Less(n))
         /\ \A i, j \in 1 .. n : <<i, j>> \in Less(n) <=> i < j
<1>1. IsFiniteSet(1 .. n)
  <2>1. 1 \in Int /\ n \in Int
    OBVIOUS
  <2>. QED BY <2>1, FS_Interval
<1>2. IsFiniteSet(I)
  BY <1>1, FS_Subset
<1>3. \A i, j \in 1 .. n : <<i, j>> \in Less(n) <=> i < j
  BY DEF Less
<1>4. \A i \in I : i \in 1 .. n /\ i \in Int
  OBVIOUS
<1>5. Linear(I, Less(n))
  BY <1>3, <1>4 DEF Linear
<1>. QED BY <1>2, <1>3, <1>5

LEMMA CardinalityOfInterval ==
  ASSUME NEW n \in Nat
  PROVE  IsFiniteSet(1 .. n) /\ Cardinality(1 .. n) = n
<1>1. n \in Int /\ 1 \in Int /\ (IF 1 > n THEN 0 ELSE n - 1 + 1) = n
  OBVIOUS
<1>. QED BY <1>1, FS_Interval

\* All numbers, listed, are themselves.
LEMMA ListIdentity ==
  ASSUME NEW n \in Nat, NEW e, Lists(e, 1 .. n, Less(n))
  PROVE  Cardinality(1 .. n) = n /\ \A k \in 1 .. n : e[k] = k
<1>. DEFINE d == [k \in 1 .. n |-> k]
<1>1. Cardinality(1 .. n) = n
  BY CardinalityOfInterval
<1>2. Lists(d, 1 .. n, Less(n))
  <2>1. d \in [1 .. n -> 1 .. n] /\ \A i \in 1 .. n : \E k \in 1 .. n : d[k] = i
    OBVIOUS
  <2>2. \A k, l \in 1 .. n : k < l => <<d[k], d[l]>> \in Less(n)
    BY LessLinear
  <2>. HIDE DEF d
  <2>. QED BY <1>1, <2>1, <2>2 DEF Lists
<1>3. e = d
  <2>. HIDE DEF d
  <2>1. 1 .. n \in SUBSET (1 .. n)
    OBVIOUS
  <2>. QED BY <1>2, <2>1, LessLinear, ListUnique
<1>. QED BY <1>1, <1>3

\* A stable sort: first by W, and by place where W does not tell.
Stable(n, W) ==
  {p \in (1 .. n) \X (1 .. n) : p \in W \/ (<<p[2], p[1]>> \notin W /\ p[1] < p[2])}

\* W tells some apart, and those it does not tell apart are alike to it.
Weak(I, W) ==
    /\ \A i, j \in I : <<i, j>> \in W => <<j, i>> \notin W
    /\ \A i, j, k \in I : <<i, j>> \in W => <<i, k>> \in W \/ <<k, j>> \in W

LEMMA StableLinear ==
  ASSUME NEW n \in Nat, NEW W, Weak(1 .. n, W)
  PROVE  /\ Linear(1 .. n, Stable(n, W))
         /\ \A i, j \in 1 .. n : <<i, j>> \in Stable(n, W)
                <=> <<i, j>> \in W \/ (<<j, i>> \notin W /\ i < j)
<1>1. \A i, j \in 1 .. n : <<i, j>> \in Stable(n, W)
                <=> <<i, j>> \in W \/ (<<j, i>> \notin W /\ i < j)
  BY DEF Stable
<1>2. \A i \in 1 .. n : i \in Int
  OBVIOUS
<1>3. ASSUME NEW i \in 1 .. n PROVE <<i, i>> \notin Stable(n, W)
  BY <1>1, <1>2 DEF Weak
<1>4. ASSUME NEW i \in 1 .. n, NEW j \in 1 .. n, i # j
      PROVE  <<i, j>> \in Stable(n, W) \/ <<j, i>> \in Stable(n, W)
  BY <1>1, <1>2, <1>4
<1>5. ASSUME NEW i \in 1 .. n, NEW j \in 1 .. n, NEW k \in 1 .. n,
             <<i, j>> \in Stable(n, W), <<j, k>> \in Stable(n, W)
      PROVE  <<i, k>> \in Stable(n, W)
  <2>1. i < j /\ j < k => i < k
    BY <1>2
  <2>. QED BY <1>1, <1>5, <2>1 DEF Weak
<1>. QED BY <1>1, <1>3, <1>4, <1>5 DEF Linear
=============================================================================
