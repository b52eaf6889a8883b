---------------------------- MODULE ChainEditProofs ----------------------------
(***************************************************************************)
(* Chains of any length, any number of editors and of edits: the types and *)
(* the unique key, what an edit does to the chain while the lock keeps its *)
(* promise, and where an action sends its item.                            *)
(***************************************************************************)
EXTENDS ChainEdit, FiniteSetTheorems, NaturalsInduction, WellFoundedInduction, TLAPS

-----------------------------------------------------------------------------
(* Rank order.                                                             *)

\* A finite set of naturals that is not empty has a greatest element.
LEMMA Greatest ==
  ASSUME NEW S \in SUBSET Nat, IsFiniteSet(S), S # {}
  PROVE  \E n \in S : \A y \in S : n >= y
<1> DEFINE Bad == {X \in FiniteSubsetsOf(S) : X # {} /\ ~ \E n \in X : \A y \in X : n >= y}
<1>1. SUFFICES ASSUME Bad # {} PROVE FALSE
  BY <1>1 DEF FiniteSubsetsOf
<1>2. IsWellFoundedOn(StrictSubsetOrdering(S), FiniteSubsetsOf(S))
  BY FS_StrictSubsetOrderingWellFounded
<1>3. PICK X \in Bad : \A Y \in Bad : ~ (<<Y, X>> \in StrictSubsetOrdering(S))
  <2> HIDE DEF Bad
  <2>1. Bad \subseteq FiniteSubsetsOf(S)
    BY DEF Bad
  <2> QED BY <1>1, <1>2, <2>1, WFMin
<1>4. PICK a \in X : TRUE
  BY <1>3
<1> DEFINE Y == X \ {a}
<1>5. Y \in FiniteSubsetsOf(S) /\ <<Y, X>> \in StrictSubsetOrdering(S)
  BY <1>3, <1>4, FS_Subset DEF FiniteSubsetsOf, StrictSubsetOrdering
<1>6. Y \notin Bad
  BY <1>3, <1>5
<1>7. Y = {} \/ \E n \in Y : \A y \in Y : n >= y
  BY <1>5, <1>6
<1>8. X \subseteq Nat
  BY <1>3 DEF FiniteSubsetsOf
<1>9. \E n \in X : \A y \in X : n >= y
  <2>1. CASE Y = {}
    <3>1. X = {a}
      BY <2>1, <1>4
    <3>2. \A y \in X : a >= y
      BY <3>1, <1>8
    <3> QED BY <3>2, <1>4
  <2>2. CASE \E n \in Y : \A y \in Y : n >= y
    <3>1. PICK n \in Y : \A y \in Y : n >= y
      BY <2>2
    <3>2. a \in Nat /\ n \in Nat /\ n \in X
      BY <3>1, <1>8, <1>4
    <3>3. CASE n >= a
      <4>1. \A y \in X : n >= y
        BY <3>1, <3>2, <3>3, <1>8
      <4> QED BY <4>1, <3>2
    <3>4. CASE a >= n
      <4>1. \A y \in X : a >= y
        BY <3>1, <3>2, <3>4, <1>8
      <4> QED BY <4>1, <1>4
    <3> QED BY <3>2, <3>3, <3>4
  <2> QED BY <1>7, <2>1, <2>2
<1> QED BY <1>3, <1>9

LEMMA MaxIs ==
  ASSUME NEW S \in SUBSET Nat, IsFiniteSet(S), S # {}
  PROVE  Max(S) \in S /\ \A y \in S : Max(S) >= y
<1>1. \E n \in S : \A y \in S : n >= y
  BY Greatest
<1> QED BY <1>1, Zenon DEF Max

\* s lists the set S in the order of the ranks t.
Orders(s, S, t) ==
  /\ s \in [1 .. Cardinality(S) -> S]
  /\ Range(s) = S
  /\ \A i, j \in 1 .. Cardinality(S) : i < j => t[s[i]] < t[s[j]]

\* Distinct ranks put a finite set of rows into a list.
LEMMA Orderable ==
  ASSUME NEW S, IsFiniteSet(S), NEW t \in [S -> Nat], Distinct(t)
  PROVE  \E s : Orders(s, S, t)
<1> DEFINE Bad == {X \in FiniteSubsetsOf(S) : ~ \E s : Orders(s, X, t)}
<1>1. SUFFICES ASSUME Bad # {} PROVE FALSE
  BY <1>1 DEF FiniteSubsetsOf
<1>2. IsWellFoundedOn(StrictSubsetOrdering(S), FiniteSubsetsOf(S))
  BY FS_StrictSubsetOrderingWellFounded
<1>3. PICK X \in Bad : \A Y \in Bad : ~ (<<Y, X>> \in StrictSubsetOrdering(S))
  <2> HIDE DEF Bad
  <2>1. Bad \subseteq FiniteSubsetsOf(S)
    BY DEF Bad
  <2> QED BY <1>1, <1>2, <2>1, WFMin
<1>4. IsFiniteSet(X) /\ X \subseteq S
  BY <1>3 DEF FiniteSubsetsOf
<1>5. X # {}
  <2>1. ASSUME X = {} PROVE Orders(<< >>, X, t)
    BY <2>1, FS_EmptySet DEF Orders, Range
  <2> QED BY <2>1, <1>3
<1>6. PICK a \in X : \A y \in X : t[a] >= t[y]
  <2> DEFINE R == {t[y] : y \in X}
  <2>1. R \in SUBSET Nat /\ R # {}
    BY <1>4, <1>5
  <2>2. IsFiniteSet(R)
    <3> DEFINE f == [y \in X |-> t[y]]
    <3>1. f \in Surjection(X, R)
      BY DEF Surjection
    <3> QED BY <3>1, <1>4, FS_Surjection
  <2>3. PICK n \in R : \A y \in R : n >= y
    <3> HIDE DEF R
    <3> QED BY <2>1, <2>2, Greatest
  <2>4. PICK a \in X : n = t[a]
    BY <2>3
  <2> QED BY <2>3, <2>4
<1> DEFINE Y == X \ {a}
<1>7. Y \in FiniteSubsetsOf(S) /\ <<Y, X>> \in StrictSubsetOrdering(S)
  BY <1>3, <1>4, <1>6, FS_Subset DEF FiniteSubsetsOf, StrictSubsetOrdering
<1>8. PICK s : Orders(s, Y, t)
  BY <1>3, <1>7
<1> DEFINE n == Cardinality(Y)
           u == [i \in 1 .. n + 1 |-> IF i = n + 1 THEN a ELSE s[i]]
<1>9. n \in Nat /\ Cardinality(X) = n + 1
  <2>1. IsFiniteSet(Y) /\ Cardinality(Y) = Cardinality(X) - 1
    BY <1>4, <1>6, FS_RemoveElement
  <2> QED BY <2>1, <1>4, FS_CardinalityType
<1>10. s \in [1 .. n -> Y] /\ Range(s) = Y /\ \A i, j \in 1 .. n : i < j => t[s[i]] < t[s[j]]
  BY <1>8 DEF Orders
<1> HIDE DEF n
<1>11. u \in [1 .. n + 1 -> X]
  BY <1>6, <1>9, <1>10
<1>12. Range(u) = X
  <2>1. ASSUME NEW x \in X PROVE \E i \in 1 .. n + 1 : u[i] = x
    <3>1. CASE x = a
      BY <3>1, <1>9
    <3>2. CASE x # a
      <4>1. PICK i \in 1 .. n : s[i] = x
        BY <3>2, <1>10 DEF Range
      <4>2. i \in 1 .. n + 1 /\ i # n + 1
        BY <1>9
      <4> QED BY <4>1, <4>2
    <3> QED BY <3>1, <3>2
  <2> QED BY <2>1, <1>11 DEF Range
<1>13. ASSUME NEW i \in 1 .. n + 1, NEW j \in 1 .. n + 1, i < j
       PROVE  t[u[i]] < t[u[j]]
  <2>1. i \in 1 .. n /\ u[i] = s[i] /\ s[i] \in Y
    BY <1>9, <1>10, <1>13
  <2>2. CASE j = n + 1
    <3>1. u[j] = a
      BY <2>2
    <3>2. t[s[i]] <= t[a] /\ s[i] # a /\ s[i] \in S /\ a \in S
      BY <2>1, <1>6, <1>4
    <3>3. t[s[i]] # t[a] /\ t[s[i]] \in Nat /\ t[a] \in Nat
      BY <3>2 DEF Distinct
    <3> QED BY <3>1, <3>2, <3>3, <2>1
  <2>3. CASE j # n + 1
    <3>1. j \in 1 .. n /\ u[j] = s[j]
      BY <2>3, <1>9
    <3> QED BY <3>1, <2>1, <1>10, <1>13
  <2> QED BY <2>2, <2>3
<1>14. Orders(u, X, t)
  <2> HIDE DEF u
  <2> QED BY <1>9, <1>11, <1>12, <1>13 DEF Orders
<1> QED BY <1>14, <1>3

LEMMA Extensionality ==
  ASSUME NEW A, NEW B, NEW f \in [A -> B], NEW g \in [A -> B], \A x \in A : f[x] = g[x]
  PROVE  f = g
OBVIOUS

\* There is one such list.
LEMMA OrderUnique ==
  ASSUME NEW S, IsFiniteSet(S), NEW t \in [S -> Nat],
         NEW s, Orders(s, S, t), NEW u, Orders(u, S, t)
  PROVE  s = u
<1> DEFINE n == Cardinality(S)
<1>1. n \in Nat
  BY FS_CardinalityType
<1> HIDE DEF n
<1>2. /\ s \in [1 .. n -> S] /\ Range(s) = S
      /\ \A i, j \in 1 .. n : i < j => t[s[i]] < t[s[j]]
      /\ u \in [1 .. n -> S] /\ Range(u) = S
      /\ \A i, j \in 1 .. n : i < j => t[u[i]] < t[u[j]]
  BY DEF Orders, n
<1> DEFINE Bad == {i \in 1 .. n : s[i] # u[i]}
<1>3. ASSUME Bad # {} PROVE FALSE
  <2>1. PICK m \in Bad : \A i \in Bad : ~ (i < m)
    <3>1. Bad \subseteq Nat
      BY <1>1
    <3>2. PICK m \in Bad : \A i \in Bad : ~ (<<i, m>> \in OpToRel(<, Nat))
      <4> HIDE DEF Bad
      <4> QED BY <1>3, <3>1, NatLessThanWellFounded, WFMin
    <3>3. \A i \in Nat : i < m => <<i, m>> \in OpToRel(<, Nat)
      BY <3>1, <3>2 DEF OpToRel
    <3> HIDE DEF Bad
    <3> QED BY <3>1, <3>2, <3>3
  <2>2. \A i \in 1 .. n : i < m => s[i] = u[i]
    BY <2>1
  <2>3. \A i \in 1 .. n : t[s[i]] \in Nat /\ t[u[i]] \in Nat
    BY <1>2
  <2>4. PICK j \in 1 .. n : u[j] = s[m]
    BY <1>2, <2>1 DEF Range
  <2>5. PICK l \in 1 .. n : s[l] = u[m]
    BY <1>2, <2>1 DEF Range
  <2>6. j > m
    <3>1. ~ (j < m)
      <4>1. ASSUME j < m PROVE FALSE
        <5>1. s[j] = s[m]
          BY <4>1, <2>2, <2>4
        <5> QED BY <5>1, <4>1, <1>2, <2>1, <2>3
      <4> QED BY <4>1
    <3>2. j # m
      BY <2>1, <2>4
    <3> QED BY <3>1, <3>2, <1>1
  <2>7. l > m
    <3>1. ~ (l < m)
      <4>1. ASSUME l < m PROVE FALSE
        <5>1. u[l] = u[m]
          BY <4>1, <2>2, <2>5
        <5> QED BY <5>1, <4>1, <1>2, <2>1, <2>3
      <4> QED BY <4>1
    <3>2. l # m
      BY <2>1, <2>5
    <3> QED BY <3>1, <3>2, <1>1
  <2>8. t[u[m]] < t[s[m]]
    BY <2>6, <2>4, <1>2, <2>1
  <2>9. t[s[m]] < t[u[m]]
    BY <2>7, <2>5, <1>2, <2>1
  <2> QED BY <2>8, <2>9, <2>3, <2>1
<1>4. ASSUME NEW i \in 1 .. n PROVE s[i] = u[i]
  <2>1. s[i] # u[i] => i \in Bad
    OBVIOUS
  <2> QED BY <1>3, <2>1
<1>5. s \in [1 .. n -> S] /\ u \in [1 .. n -> S]
  BY <1>2
<1> HIDE DEF Bad
<1> QED BY <1>1, <1>4, <1>5, Extensionality

LEMMA FiniteTable ==
  ASSUME NEW t, IsTable(t)
  PROVE  IsFiniteSet(DOMAIN t) /\ t \in [DOMAIN t -> Nat] /\ Cardinality(DOMAIN t) \in Nat
BY TokenAssumption, FS_Subset, FS_CardinalityType DEF IsTable

\* What list_for_path returns.
LEMMA ListingOrders ==
  ASSUME NEW t, IsTable(t), Distinct(t)
  PROVE  Orders(Listing(t), DOMAIN t, t)
<1>1. PICK q : Orders(q, DOMAIN t, t)
  BY FiniteTable, Orderable
<1>2. \E s \in [1 .. Cardinality(DOMAIN t) -> DOMAIN t] :
        /\ Range(s) = DOMAIN t
        /\ \A i, j \in DOMAIN s : i < j => t[s[i]] < t[s[j]]
  BY <1>1 DEF Orders
<1> QED BY <1>2 DEF Listing, Orders

LEMMA ListingIs ==
  ASSUME NEW t, IsTable(t), Distinct(t)
  PROVE  /\ Listing(t) \in [1 .. Cardinality(DOMAIN t) -> DOMAIN t]
         /\ Range(Listing(t)) = DOMAIN t
         /\ IsInjective(Listing(t))
         /\ \A i, j \in 1 .. Cardinality(DOMAIN t) :
              i < j => t[Listing(t)[i]] < t[Listing(t)[j]]
<1> DEFINE s == Listing(t)
           n == Cardinality(DOMAIN t)
<1>1. /\ s \in [1 .. n -> DOMAIN t] /\ Range(s) = DOMAIN t
      /\ \A i, j \in 1 .. n : i < j => t[s[i]] < t[s[j]]
  BY ListingOrders DEF Orders
<1>2. n \in Nat /\ t \in [DOMAIN t -> Nat]
  BY FiniteTable
<1>3. IsInjective(s)
  <2> HIDE DEF s, n
  <2> QED BY <1>1, <1>2 DEF IsInjective
<1> QED BY <1>1, <1>3

\* A list of m actions, each once.
IsChain(s, m) == m \in Nat /\ s \in [1 .. m -> Actions] /\ IsInjective(s)

\* An action in a chain stands at one place.
LEMMA PlaceIs ==
  ASSUME NEW m, NEW s, IsChain(s, m)
  PROVE  /\ \A a \in Range(s) : Place(s, a) \in 1 .. m /\ s[Place(s, a)] = a
         /\ \A i \in 1 .. m : Place(s, s[i]) = i
<1> USE DEF IsChain
<1>1. ASSUME NEW a \in Range(s) PROVE Place(s, a) \in 1 .. m /\ s[Place(s, a)] = a
  <2>1. \E i \in DOMAIN s : s[i] = a
    BY DEF Range
  <2> QED BY <2>1, Zenon DEF Place
<1>2. ASSUME NEW i \in 1 .. m PROVE Place(s, s[i]) = i
  <2>1. s[i] \in Range(s)
    BY DEF Range
  <2>2. Place(s, s[i]) \in 1 .. m /\ s[Place(s, s[i])] = s[i]
    BY <2>1, <1>1
  <2> QED BY <2>2 DEF IsInjective
<1> QED BY <1>1, <1>2

-----------------------------------------------------------------------------
(* The two passes of _renumber.                                            *)

\* With the offset past every rank neither pass can put two rows at one rank,
\* and the second leaves each row at its place in the list.
LEMMA RenumberingSound ==
  ASSUME NEW m, NEW q, IsChain(q, m),
         NEW t \in [Range(q) -> Nat], Distinct(t),
         NEW k \in Nat, \A a \in Range(q) : t[a] < k
  PROVE  /\ ~ MayCollide(t, Renumbered(t, q, k))
         /\ ~ MayCollide(Renumbered(t, q, k), Renumbered(Renumbered(t, q, k), q, 0))
         /\ Renumbered(Renumbered(t, q, k), q, 0) = [a \in Range(q) |-> Place(q, a) - 1]
<1>0. m \in Nat /\ q \in [1 .. m -> Actions] /\ IsInjective(q)
  BY DEF IsChain
<1>1. /\ \A a \in Range(q) : Place(q, a) \in 1 .. m /\ q[Place(q, a)] = a
      /\ \A i \in 1 .. m : Place(q, q[i]) = i
  BY PlaceIs
<1>2. \A a, b \in Range(q) : a # b => Place(q, a) # Place(q, b)
  BY <1>1
<1> DEFINE u == Renumbered(t, q, k)
           v == Renumbered(u, q, 0)
<1>3. u = [a \in Range(q) |-> k + Place(q, a) - 1]
  BY DEF Renumbered
<1>4. v = [a \in Range(q) |-> Place(q, a) - 1]
  <2>1. v = [a \in Range(q) |-> 0 + Place(q, a) - 1]
    BY <1>3 DEF Renumbered
  <2> HIDE DEF v
  <2> QED BY <2>1, <1>1
<1>5. m <= k
  <2> DEFINE f == [i \in 1 .. m |-> t[q[i]]]
  <2>1. \A i \in 1 .. m : q[i] \in Range(q) /\ f[i] \in 0 .. k - 1
    BY <1>0 DEF Range
  <2>2. \A i, j \in 1 .. m : f[i] = f[j] => i = j
    <3>1. \A i, j \in 1 .. m : t[q[i]] = t[q[j]] => q[i] = q[j]
      BY <2>1, <1>0 DEF Distinct
    <3> QED BY <3>1, <1>0 DEF IsInjective
  <2>3. f \in Injection(1 .. m, 0 .. k - 1)
    BY <1>0, <2>1, <2>2 DEF Injection, IsInjective
  <2>4. IsFiniteSet(0 .. k - 1) /\ Cardinality(0 .. k - 1) = k /\ Cardinality(1 .. m) = m
    BY <1>0, FS_Interval
  <2>5. Cardinality(1 .. m) <= Cardinality(0 .. k - 1)
    <3> HIDE DEF f
    <3> QED BY <2>3, <2>4, FS_Injection
  <2> QED BY <1>0, <2>4, <2>5
<1> HIDE DEF u, v
<1>6. ~ MayCollide(t, u)
  <2>1. SUFFICES ASSUME NEW a \in Range(q), NEW b \in Range(q), a # b,
                        u[a] = u[b] \/ u[a] = t[b]
                 PROVE  FALSE
    BY <1>3 DEF MayCollide
  <2>2. u[a] = k + Place(q, a) - 1 /\ u[b] = k + Place(q, b) - 1
    BY <1>3
  <2>3. t[b] < k /\ t[b] \in Nat
    OBVIOUS
  <2> QED BY <1>0, <1>1, <1>2, <2>1, <2>2, <2>3
<1>7. ~ MayCollide(u, v)
  <2>1. SUFFICES ASSUME NEW a \in Range(q), NEW b \in Range(q), a # b,
                        v[a] = v[b] \/ v[a] = u[b]
                 PROVE  FALSE
    BY <1>3, <1>4 DEF MayCollide
  <2>2. v[a] = Place(q, a) - 1 /\ v[b] = Place(q, b) - 1 /\ u[b] = k + Place(q, b) - 1
    BY <1>3, <1>4
  <2> QED BY <1>0, <1>1, <1>2, <1>5, <2>1, <2>2
<1> QED BY <1>4, <1>6, <1>7 DEF u, v

\* Rows at their places in a list are dense, and list as it does.
LEMMA PlacesAreDense ==
  ASSUME NEW m, NEW q, IsChain(q, m)
  PROVE  LET v == [a \in Range(q) |-> Place(q, a) - 1]
         IN  IsTable(v) /\ Distinct(v) /\ Dense(v) /\ Listing(v) = q
<1> DEFINE v == [a \in Range(q) |-> Place(q, a) - 1]
<1>0. m \in Nat /\ q \in [1 .. m -> Actions] /\ IsInjective(q)
  BY DEF IsChain
<1>1. /\ \A a \in Range(q) : Place(q, a) \in 1 .. m /\ q[Place(q, a)] = a
      /\ \A i \in 1 .. m : Place(q, q[i]) = i
  BY PlaceIs
<1>2. DOMAIN v = Range(q) /\ Range(q) \subseteq Actions /\ \A a \in Range(q) : v[a] = Place(q, a) - 1
  BY <1>0 DEF Range
<1>3. Cardinality(Range(q)) = m
  <2>1. q \in Bijection(1 .. m, Range(q))
    BY <1>0 DEF Bijection, Injection, Surjection, IsInjective, Range
  <2>2. ExistsBijection(1 .. m, Range(q))
    BY <2>1 DEF ExistsBijection
  <2> QED BY <1>0, <2>2, FS_CountingElements
<1>4. v \in [Range(q) -> Nat]
  BY <1>0, <1>1
<1> HIDE DEF v
<1>5. IsTable(v)
  BY <1>2, <1>4 DEF IsTable
<1>6. Distinct(v)
  BY <1>0, <1>1, <1>2 DEF Distinct
<1>7. Dense(v)
  BY <1>0, <1>1, <1>2, <1>3 DEF Dense
<1>8. Orders(q, DOMAIN v, v)
  <2>1. \A i \in 1 .. m : q[i] \in Range(q) /\ v[q[i]] = i - 1
    BY <1>0, <1>1, <1>2 DEF Range
  <2>2. q \in [1 .. m -> Range(q)]
    BY <1>0, <2>1
  <2> QED BY <1>0, <1>2, <1>3, <2>1, <2>2 DEF Orders
<1>9. Listing(v) = q
  <2>1. Orders(Listing(v), DOMAIN v, v)
    BY <1>5, <1>6, ListingOrders
  <2> QED BY <2>1, <1>8, <1>5, FiniteTable, OrderUnique
<1> QED BY <1>5, <1>6, <1>7, <1>9 DEF v

-----------------------------------------------------------------------------
(* What an edit asks for.                                                  *)

LEMMA MinOfTwo ==
  ASSUME NEW a \in Nat, NEW b \in Nat
  PROVE  Min({a, b}) \in {a, b} /\ Min({a, b}) <= a /\ Min({a, b}) <= b
<1>1. \E x \in {a, b} : \A y \in {a, b} : x =< y
  <2>1. CASE a <= b
    BY <2>1
  <2>2. CASE b <= a
    BY <2>2
  <2> QED BY <2>1, <2>2
<1>2. Min({a, b}) \in {a, b} /\ \A y \in {a, b} : Min({a, b}) =< y
  BY <1>1, Zenon DEF Min
<1> QED BY <1>2

\* chain.insert
LEMMA Insertion ==
  ASSUME NEW n, NEW s, IsChain(s, n),
         NEW p \in 1 .. n + 1, NEW a \in Actions, a \notin Range(s)
  PROVE  /\ IsChain(InsertAt(s, p, a), n + 1)
         /\ Range(InsertAt(s, p, a)) = Range(s) \cup {a}
<1> DEFINE u == InsertAt(s, p, a)
<1>0. n \in Nat /\ s \in [1 .. n -> Actions] /\ IsInjective(s)
  BY DEF IsChain
<1>1. s \in Seq(Actions) /\ Len(s) = n
  BY <1>0
<1>2. u = [i \in 1 .. n + 1 |-> IF i < p THEN s[i] ELSE IF i = p THEN a ELSE s[i - 1]]
  BY <1>0, <1>1 DEF InsertAt
<1> HIDE DEF u, IsChain
<1>3. \A i \in 1 .. n + 1 :
        /\ i < p => i \in 1 .. n /\ u[i] = s[i]
        /\ i = p => u[i] = a
        /\ i > p => i - 1 \in 1 .. n /\ u[i] = s[i - 1]
  BY <1>0, <1>2
<1>4. \A i \in 1 .. n : s[i] \in Range(s) /\ s[i] # a /\ s[i] \in Actions
  BY <1>0 DEF Range
<1>5. u \in [1 .. n + 1 -> Actions]
  <2>1. \A i \in 1 .. n + 1 : u[i] \in Actions
    BY <1>0, <1>3, <1>4
  <2> QED BY <1>0, <2>1, <1>2
<1>6. Range(u) = Range(s) \cup {a}
  <2>1. \A i \in 1 .. n + 1 : u[i] \in Range(s) \cup {a}
    BY <1>0, <1>3, <1>4
  <2>2. ASSUME NEW x \in Range(s) \cup {a} PROVE \E i \in 1 .. n + 1 : u[i] = x
    <3>1. CASE x = a
      BY <1>0, <3>1, <1>3
    <3>2. CASE x \in Range(s)
      <4>1. PICK i \in 1 .. n : s[i] = x
        BY <1>0, <3>2 DEF Range
      <4>2. CASE i < p
        BY <1>0, <4>1, <4>2, <1>3
      <4>3. CASE i >= p
        <5>1. i + 1 \in 1 .. n + 1 /\ i + 1 > p /\ (i + 1) - 1 = i
          BY <1>0, <4>3
        <5>2. u[i + 1] = s[i]
          BY <1>0, <5>1, <1>3
        <5> QED BY <1>0, <5>1, <5>2, <4>1
      <4> QED BY <1>0, <4>2, <4>3
    <3> QED BY <1>0, <3>1, <3>2
  <2> QED BY <1>0, <2>1, <2>2, <1>5 DEF Range
<1>7. IsInjective(u)
  <2>1. SUFFICES ASSUME NEW i \in 1 .. n + 1, NEW j \in 1 .. n + 1, u[i] = u[j], i < j
                 PROVE  FALSE
    BY <1>0, <1>5 DEF IsInjective
  <2>2. \A k, l \in 1 .. n : s[k] = s[l] => k = l
    BY <1>0 DEF IsInjective
  <2>3. CASE j < p
    BY <1>0, <2>1, <2>2, <2>3, <1>3
  <2>4. CASE j = p
    BY <1>0, <2>1, <2>4, <1>3, <1>4
  <2>5. CASE j > p
    <3>1. j - 1 \in 1 .. n /\ u[j] = s[j - 1] /\ u[j] # a
      BY <1>0, <2>5, <1>3, <1>4
    <3>2. CASE i < p
      BY <1>0, <2>1, <2>2, <3>1, <3>2, <2>5, <1>3
    <3>3. CASE i = p
      BY <1>0, <2>1, <3>1, <3>3, <1>3
    <3>4. CASE i > p
      <4>1. i - 1 \in 1 .. n /\ u[i] = s[i - 1] /\ i - 1 # j - 1
        BY <1>0, <3>4, <2>1, <1>3
      <4> QED BY <1>0, <4>1, <3>1, <2>1, <2>2
    <3> QED BY <1>0, <3>2, <3>3, <3>4
  <2> QED BY <1>0, <2>3, <2>4, <2>5
<1> QED BY <1>0, <1>5, <1>6, <1>7 DEF u, IsChain

\* The requests that Ask makes.
Sound(o) ==
  /\ o \in OpType
  /\ o.kind = "none" => o.fresh = {}
  /\ o.kind = "add" => o.action \in Actions /\ o.fresh = {o.action}
  /\ o.kind = "remove" => o.action \in Actions /\ o.fresh = {}
  /\ o.kind = "replace" => IsInjective(o.chain) /\ o.fresh \subseteq Range(o.chain)

\* The rows that an edit means to leave.
Wanted(o, r) ==
  CASE o.kind = "add"     -> DOMAIN r \cup {o.action}
    [] o.kind = "remove"  -> DOMAIN r
    [] o.kind = "replace" -> Range(o.chain)

LEMMA OrderedIs ==
  ASSUME NEW o, Sound(o), o.kind # "none",
         NEW r, IsTable(r), Distinct(r), o.fresh \cap DOMAIN r = {}
  PROVE  LET q == Ordered(o, Listing(r))
         IN  \E m : IsChain(q, m) /\ Range(q) = Wanted(o, r) /\ o.fresh \subseteq Range(q)
<1> DEFINE s == Listing(r)
           n == Cardinality(DOMAIN r)
           q == Ordered(o, s)
           Good(m) == IsChain(q, m) /\ Range(q) = Wanted(o, r) /\ o.fresh \subseteq Range(q)
<1> SUFFICES \E m : Good(m)
  OBVIOUS
<1>1. n \in Nat /\ DOMAIN r \subseteq Actions
  BY FiniteTable DEF IsTable
<1>2. s \in [1 .. n -> DOMAIN r] /\ Range(s) = DOMAIN r /\ IsInjective(s)
  BY ListingIs
<1> HIDE DEF s, n
<1>3. s \in [1 .. n -> Actions] /\ Len(s) = n
  BY <1>1, <1>2
<1>4. CASE o.kind = "add"
  <2>1. o.at \in Nat
    BY TokenAssumption, FS_CardinalityType DEF Sound, OpType
  <2> DEFINE p == 1 + Min({o.at, n})
  <2>2. p \in 1 .. n + 1
    BY <2>1, <1>1, MinOfTwo
  <2>3. o.action \in Actions /\ o.action \notin Range(s) /\ o.fresh = {o.action}
    BY <1>4, <1>2 DEF Sound
  <2>4. q = InsertAt(s, p, o.action)
    BY <1>3, <1>4 DEF Ordered
  <2> HIDE DEF p
  <2> DEFINE a == o.action
  <2>0. /\ IsChain(s, n)
        /\ p \in 1 .. n + 1 /\ a \in Actions /\ a \notin Range(s)
    BY <1>1, <1>2, <1>3, <2>2, <2>3 DEF IsChain
  <2> HIDE DEF a
  <2>5. /\ IsChain(InsertAt(s, p, a), n + 1)
        /\ Range(InsertAt(s, p, a)) = Range(s) \cup {a}
    BY <2>0, Insertion
  <2> HIDE DEF q
  <2>6. Good(n + 1)
    BY <1>2, <1>4, <2>3, <2>4, <2>5 DEF Wanted, a
  <2> QED BY <1>1, <2>6
<1>5. CASE o.kind = "remove"
  <2>1. q = s /\ o.fresh = {}
    BY <1>5 DEF Ordered, Sound
  <2>2. Good(n)
    BY <1>1, <1>2, <1>3, <1>5, <2>1 DEF Wanted, IsChain
  <2> QED BY <1>1, <2>2
<1>6. CASE o.kind = "replace"
  <2>1. q = o.chain /\ IsInjective(o.chain) /\ o.fresh \subseteq Range(o.chain)
    BY <1>6 DEF Ordered, Sound
  <2>2. o.chain \in Lists /\ Cardinality(Actions) \in Nat
    BY TokenAssumption, FS_CardinalityType DEF Sound, OpType
  <2>3. PICK m \in 0 .. Cardinality(Actions) : o.chain \in [1 .. m -> Actions]
    BY <2>2 DEF Lists
  <2>4. Good(m) /\ m \in Nat
    BY <1>6, <2>1, <2>2, <2>3 DEF Wanted, IsChain
  <2> QED BY <2>4
<1> QED BY <1>4, <1>5, <1>6 DEF Sound, OpType, s

\* New rows are parked past as many ranks as there were rows, each at its own.
LEMMA ParkedSound ==
  ASSUME NEW o, NEW r, IsTable(r), NEW m, IsChain(Ordered(o, Listing(r)), m),
         o.fresh \subseteq Range(Ordered(o, Listing(r)))
  PROVE  /\ Parked(o, r) \in [o.fresh -> Nat]
         /\ \A a \in o.fresh : Parked(o, r)[a] > Cardinality(DOMAIN r)
         /\ \A a, b \in o.fresh : a # b => Parked(o, r)[a] # Parked(o, r)[b]
<1> DEFINE s == Ordered(o, Listing(r))
           n == Cardinality(DOMAIN r)
           Before(a) == {i \in 1 .. Place(s, a) : s[i] \in o.fresh}
           u == Parked(o, r)
<1>1. n \in Nat
  BY FiniteTable
<1>0. m \in Nat
  BY DEF IsChain
<1>2. \A a \in Range(s) : Place(s, a) \in 1 .. m /\ s[Place(s, a)] = a
  <2>1. IsChain(s, m)
    OBVIOUS
  <2> HIDE DEF s
  <2> QED BY <2>1, PlaceIs
<1>3. u = [a \in o.fresh |-> n + Cardinality(Before(a))]
  BY DEF Parked
<1> HIDE DEF u, n, s
<1>4. ASSUME NEW a \in o.fresh
      PROVE  /\ Place(s, a) \in 1 .. m /\ Place(s, a) \in Before(a)
             /\ IsFiniteSet(Before(a)) /\ Cardinality(Before(a)) \in Nat
             /\ Cardinality(Before(a)) > 0
  <2>1. Place(s, a) \in 1 .. m /\ Place(s, a) \in Before(a)
    BY <1>2 DEF s
  <2>2. IsFiniteSet(1 .. Place(s, a))
    BY <1>0, <2>1, FS_Interval
  <2>3. IsFiniteSet(Before(a))
    BY <2>2, FS_Subset
  <2> HIDE DEF Before
  <2>4. Cardinality(Before(a)) \in Nat /\ Cardinality(Before(a)) # 0
    BY <2>1, <2>3, FS_CardinalityType, FS_EmptySet
  <2> QED BY <2>1, <2>3, <2>4
<1>5. ASSUME NEW a \in o.fresh, NEW b \in o.fresh, Place(s, a) < Place(s, b)
      PROVE  Cardinality(Before(a)) < Cardinality(Before(b))
  <2> DEFINE k == Place(s, a)
             l == Place(s, b)
  <2>0. k \in 1 .. m /\ l \in 1 .. m /\ l \in Before(b) /\ k < l
    BY <1>4, <1>5
  <2> HIDE DEF k, l
  <2>1. Before(a) \in SUBSET Before(b)
    BY <1>0, <2>0 DEF k, l
  <2>2. Place(s, b) \in Before(b) /\ Place(s, b) \notin Before(a)
    BY <1>0, <2>0 DEF k, l
  <2>3. /\ IsFiniteSet(Before(b))
        /\ Cardinality(Before(a)) \in Nat /\ Cardinality(Before(b)) \in Nat
    BY <1>4
  <2> HIDE DEF Before
  <2>4. /\ Cardinality(Before(a)) <= Cardinality(Before(b))
        /\ Cardinality(Before(b)) = Cardinality(Before(a)) => Before(b) = Before(a)
    BY <2>1, <2>3, FS_Subset
  <2> QED BY <2>2, <2>3, <2>4
<1>6. \A a, b \in o.fresh : a # b => Place(s, a) # Place(s, b)
  BY <1>2 DEF s
<1> HIDE DEF Before
<1>7. \A a \in o.fresh : u[a] = n + Cardinality(Before(a))
  BY <1>3
<1>8. u \in [o.fresh -> Nat]
  BY <1>1, <1>3, <1>4
<1>9. \A a \in o.fresh : u[a] > n
  BY <1>1, <1>4, <1>7
<1>10. ASSUME NEW a \in o.fresh, NEW b \in o.fresh, a # b PROVE u[a] # u[b]
  <2>1. Place(s, a) \in 1 .. m /\ Place(s, b) \in 1 .. m
    BY <1>4
  <2>2. Place(s, a) < Place(s, b) \/ Place(s, b) < Place(s, a)
    BY <1>0, <1>6, <1>10, <2>1
  <2>3. Cardinality(Before(a)) # Cardinality(Before(b))
    BY <1>4, <1>5, <2>2
  <2> QED BY <1>1, <1>4, <1>7, <2>3
<1> QED BY <1>8, <1>9, <1>10 DEF u, n

-----------------------------------------------------------------------------
(* The transaction.                                                        *)

\* _renumber's offset is past the rank of every row it renumbers.
LEMMA OffsetPast ==
  ASSUME NEW o, NEW r, NEW m \in Nat, Ordered(o, Listing(r)) \in [1 .. m -> Actions],
         NEW f, f = InMemory(o, r), \A a \in Range(Ordered(o, Listing(r))) : f[a] \in Nat
  PROVE  /\ Offset(o, r) \in Nat
         /\ \A a \in Range(Ordered(o, Listing(r))) : f[a] < Offset(o, r)
<1> DEFINE q == Ordered(o, Listing(r))
           R == {f[q[i]] : i \in DOMAIN q}
<1>1. Offset(o, r) = IF q = << >> THEN 1 ELSE 1 + Max(R)
  BY DEF Offset
<1>2. q \in [1 .. m -> Actions] /\ DOMAIN q = 1 .. m
  OBVIOUS
<1> HIDE DEF q
<1>3. \A i \in 1 .. m : q[i] \in Range(q)
  BY <1>2 DEF Range
<1>4. R \in SUBSET Nat
  BY <1>2, <1>3 DEF q
<1>5. IsFiniteSet(R)
  <2> DEFINE g == [i \in 1 .. m |-> f[q[i]]]
  <2>1. g \in Surjection(1 .. m, R)
    BY <1>2 DEF Surjection
  <2> HIDE DEF g, R
  <2>2. IsFiniteSet(1 .. m)
    BY FS_Interval
  <2> QED BY <2>1, <2>2, FS_Surjection
<1>6. CASE q = << >>
  <2>1. Range(q) = {}
    BY <1>6 DEF Range
  <2> QED BY <1>1, <1>6, <2>1 DEF q
<1>7. CASE q # << >>
  <2>1. m # 0
    BY <1>2, <1>7
  <2>2. R # {}
    <3>1. 1 \in DOMAIN q
      BY <2>1, <1>2
    <3>2. f[q[1]] \in R
      BY <3>1
    <3> QED BY <3>2
  <2>3. \A a \in Range(q) : f[a] \in R
    BY <1>2 DEF Range
  <2> HIDE DEF R
  <2>4. Max(R) \in R /\ \A y \in R : Max(R) >= y
    BY <1>4, <1>5, <2>2, MaxIs
  <2>5. Max(R) \in Nat /\ Offset(o, r) = 1 + Max(R)
    BY <1>1, <1>4, <1>7, <2>4
  <2>6. ASSUME NEW a \in Range(q) PROVE f[a] < Offset(o, r)
    <3>1. f[a] \in R
      BY <2>3
    <3>2. f[a] \in Nat /\ Max(R) >= f[a]
      BY <3>1, <1>4, <2>4
    <3> QED BY <3>2, <2>5
  <2> QED BY <2>5, <2>6 DEF q
<1> QED BY <1>6, <1>7

\* Whatever the editor read, what it writes are ranks.
LEMMA StagesFit ==
  ASSUME NEW o, Sound(o), o.kind # "none", NEW t, IsTable(t),
         NEW r, IsTable(r), Distinct(r), o.fresh \cap DOMAIN r = {}
  PROVE  /\ IsTable(Stages(t, o, r)[4])
         /\ DOMAIN Stages(t, o, r)[4] \subseteq DOMAIN t \cup o.fresh
<1> DEFINE q  == Ordered(o, Listing(r))
           t1 == Survivors(t, o, r)
           t2 == Over(Parked(o, r), t1)
           t3 == Renumbered(t2, q, Offset(o, r))
           t4 == Renumbered(t3, q, 0)
<1>1. PICK m : IsChain(q, m) /\ o.fresh \subseteq Range(q)
  BY OrderedIs
<1>2. Parked(o, r) \in [o.fresh -> Nat]
  BY <1>1, ParkedSound
<1>3. \A a \in Range(q) : Place(q, a) \in 1 .. m
  BY <1>1, PlaceIs
<1>4. DOMAIN t1 \subseteq DOMAIN t /\ t1 \in [DOMAIN t1 -> Nat]
  BY DEF Survivors, Restrict, IsTable
<1>5. o.fresh \subseteq Actions
  BY DEF Sound, OpType
<1> DEFINE D == o.fresh \cup DOMAIN t1
<1> HIDE DEF t1, q
<1>6. t2 \in [D -> Nat]
  BY <1>2, <1>4 DEF Over
<1> HIDE DEF t2
<1>7. t4 = [a \in D |-> IF a \in Range(q) THEN 0 + Place(q, a) - 1 ELSE t2[a]]
  BY <1>6 DEF Renumbered
<1>8. t4 \in [D -> Nat]
  BY <1>3, <1>6, <1>7
<1>9. Stages(t, o, r)[4] = t4
  BY DEF Stages, t1, t2, q
<1> HIDE DEF t4
<1> QED BY <1>4, <1>5, <1>8, <1>9 DEF IsTable

\* Under the lock, no order of the row changes violates the unique key, and the
\* rows end at the places that were asked for.
LEMMA EditSound ==
  ASSUME NEW o, Sound(o), o.kind # "none",
         NEW t, IsTable(t), Distinct(t), Dense(t), o.fresh \cap DOMAIN t = {},
         NEW r, r = Read(o, t), ~ Refused(o, r)
  PROVE  /\ \A i \in 1 .. 3 : ~ MayCollide(Stages(t, o, r)[i], Stages(t, o, r)[i + 1])
         /\ Dense(Stages(t, o, r)[4])
         /\ Listing(Stages(t, o, r)[4]) = Ordered(o, Listing(r))
<1> DEFINE q  == Ordered(o, Listing(r))
           n  == Cardinality(DOMAIN r)
           p  == Parked(o, r)
           k  == Offset(o, r)
           t1 == Survivors(t, o, r)
           t2 == Over(p, t1)
           t3 == Renumbered(t2, q, k)
           t4 == Renumbered(t3, q, 0)
<1>1. /\ DOMAIN r = DOMAIN t \ (IF o.kind = "remove" THEN {o.action} ELSE {})
      /\ \A a \in DOMAIN r : r[a] = t[a]
  BY DEF Read, Restrict
<1>2. r \in [DOMAIN r -> Nat]
  BY DEF Read, Restrict, IsTable
<1>3. IsTable(r) /\ Distinct(r) /\ o.fresh \cap DOMAIN r = {}
  <2>1. DOMAIN r \subseteq DOMAIN t
    BY <1>1
  <2> QED BY <2>1, <1>1, <1>2 DEF IsTable, Distinct
<1>4. n \in Nat
  BY <1>3, FiniteTable
<1>5. PICK m : /\ IsChain(q, m)
               /\ Range(q) = Wanted(o, r) /\ o.fresh \subseteq Range(q)
  BY <1>3, OrderedIs
<1>6. /\ p \in [o.fresh -> Nat]
      /\ \A a \in o.fresh : p[a] > n
      /\ \A a, b \in o.fresh : a # b => p[a] # p[b]
  BY <1>3, <1>5, ParkedSound
<1>7. /\ t1 \in [DOMAIN t1 -> Nat]
      /\ DOMAIN t1 = DOMAIN t \ Deleted(o, r)
      /\ \A a \in DOMAIN t1 : t1[a] = t[a]
  BY DEF Survivors, Restrict, IsTable
<1> HIDE DEF n, p, t1
<1>8. DOMAIN t1 \subseteq DOMAIN r /\ o.fresh \cup DOMAIN t1 = Range(q)
  <2>1. CASE o.kind = "add"
    <3>1. DOMAIN r = DOMAIN t /\ Deleted(o, r) = {} /\ Wanted(o, r) = DOMAIN r \cup {o.action}
      BY <2>1, <1>1 DEF Deleted, Wanted
    <3>2. o.fresh = {o.action}
      BY <2>1 DEF Sound
    <3> QED BY <3>1, <3>2, <1>5, <1>7
  <2>2. CASE o.kind = "remove"
    <3>1. /\ DOMAIN r = DOMAIN t \ {o.action} /\ Deleted(o, r) = {o.action}
          /\ Wanted(o, r) = DOMAIN r
      BY <2>2, <1>1 DEF Deleted, Wanted
    <3>2. o.fresh = {}
      BY <2>2 DEF Sound
    <3> QED BY <3>1, <3>2, <1>5, <1>7
  <2>3. CASE o.kind = "replace"
    <3>1. /\ DOMAIN r = DOMAIN t /\ Deleted(o, r) = DOMAIN r \ Range(o.chain)
          /\ Wanted(o, r) = Range(o.chain)
      BY <2>3, <1>1 DEF Deleted, Wanted
    <3>2. Range(o.chain) \ o.fresh \subseteq DOMAIN r /\ o.fresh \subseteq Range(o.chain)
      BY <2>3 DEF Refused, Sound
    <3> QED BY <3>1, <3>2, <1>5, <1>7
  <2> QED BY <2>1, <2>2, <2>3 DEF Sound, OpType
<1>9. \A a \in DOMAIN t1, b \in o.fresh : t1[a] < n
  <2>1. CASE o.kind = "remove"
    BY <2>1 DEF Sound
  <2>2. CASE o.kind # "remove"
    <3>1. DOMAIN r = DOMAIN t
      BY <2>2, <1>1
    <3>2. \A a \in DOMAIN t : t[a] < n
      BY <3>1 DEF Dense, n
    <3> QED BY <3>1, <3>2, <1>7, <1>8
  <2> QED BY <2>1, <2>2
<1> HIDE DEF q
<1>10. /\ t2 \in [Range(q) -> Nat]
       /\ \A a \in o.fresh : t2[a] = p[a]
       /\ \A a \in DOMAIN t1 : a \notin o.fresh /\ t2[a] = t1[a]
  <2>1. t2 = [a \in Range(q) |-> IF a \in o.fresh THEN p[a] ELSE t1[a]]
    BY <1>6, <1>8 DEF Over
  <2> HIDE DEF t2
  <2> QED BY <2>1, <1>3, <1>6, <1>7, <1>8
<1> HIDE DEF t2
<1>11. \A a \in o.fresh, b \in DOMAIN t1 : t2[a] # t1[b]
  BY <1>4, <1>6, <1>7, <1>9, <1>10
<1>12. Distinct(t2)
  <2>1. SUFFICES ASSUME NEW a \in Range(q), NEW b \in Range(q), a # b
                 PROVE  t2[a] # t2[b]
    BY <1>10 DEF Distinct
  <2>2. \A x, y \in DOMAIN t1 : x # y => t1[x] # t1[y]
    BY <1>7 DEF Distinct
  <2>3. CASE a \in o.fresh /\ b \in o.fresh
    BY <2>1, <2>3, <1>6, <1>10
  <2>4. CASE a \in o.fresh /\ b \in DOMAIN t1
    BY <2>4, <1>10, <1>11
  <2>5. CASE a \in DOMAIN t1 /\ b \in o.fresh
    BY <2>5, <1>10, <1>11
  <2>6. CASE a \in DOMAIN t1 /\ b \in DOMAIN t1
    BY <2>1, <2>2, <2>6, <1>10
  <2> QED BY <1>8, <2>3, <2>4, <2>5, <2>6
<1>13. ~ MayCollide(t1, t2)
  <2>1. SUFFICES ASSUME NEW a \in Range(q), NEW b \in Range(q), a # b,
                        a \in DOMAIN t1 => t1[a] # t2[a],
                        t2[a] = t2[b] \/ (b \in DOMAIN t1 /\ t2[a] = t1[b])
                 PROVE  FALSE
    BY <1>10 DEF MayCollide
  <2>2. a \in o.fresh
    BY <2>1, <1>8, <1>10
  <2>3. t2[a] # t2[b]
    BY <2>1, <1>10, <1>12 DEF Distinct
  <2> QED BY <2>1, <2>2, <2>3, <1>11
<1>14. k \in Nat /\ \A a \in Range(q) : t2[a] < k
  <2> DEFINE f == InMemory(o, r)
  <2>1. \A a \in Range(q) : f[a] = t2[a]
    <3>1. f = [a \in o.fresh \cup DOMAIN r |-> IF a \in o.fresh THEN p[a] ELSE r[a]]
      BY <1>6 DEF InMemory, Over, p
    <3> HIDE DEF f
    <3>2. \A a \in DOMAIN t1 : t1[a] = r[a] /\ a \in DOMAIN r
      BY <1>1, <1>7, <1>8
    <3> QED BY <3>1, <3>2, <1>8, <1>10
  <2> HIDE DEF f
  <2>2. \A a \in Range(q) : f[a] \in Nat
    BY <2>1, <1>10
  <2>3. k \in Nat /\ \A a \in Range(q) : f[a] < k
    BY <2>2, <1>5, OffsetPast DEF f, q, IsChain
  <2> QED BY <2>1, <2>3
<1> HIDE DEF k
<1>15. /\ ~ MayCollide(t2, t3) /\ ~ MayCollide(t3, t4)
       /\ t4 = [a \in Range(q) |-> Place(q, a) - 1]
  <2>1. /\ IsChain(q, m)
        /\ t2 \in [Range(q) -> Nat] /\ Distinct(t2)
        /\ k \in Nat /\ \A a \in Range(q) : t2[a] < k
    BY <1>5, <1>10, <1>12, <1>14
  <2> QED BY <2>1, RenumberingSound
<1>16. Dense(t4) /\ Listing(t4) = q
  BY <1>5, <1>15, PlacesAreDense
<1>17. Stages(t, o, r) = <<t1, t2, t3, t4>>
  BY DEF Stages, t1, t2, q, k, p
<1> HIDE DEF t3, t4
<1>18. \A i \in 1 .. 3 : ~ MayCollide(Stages(t, o, r)[i], Stages(t, o, r)[i + 1])
  <2>1. SUFFICES ASSUME NEW i \in 1 .. 3
                 PROVE  ~ MayCollide(Stages(t, o, r)[i], Stages(t, o, r)[i + 1])
    OBVIOUS
  <2>2. i = 1 \/ i = 2 \/ i = 3
    OBVIOUS
  <2> QED BY <2>2, <1>13, <1>15, <1>17
<1> QED BY <1>16, <1>17, <1>18 DEF q

-----------------------------------------------------------------------------
(* The invariant.                                                          *)

\* Requests are ones that Ask makes, and a new action belongs to one of them.
Requests ==
  /\ \A e \in Editors :
       /\ Sound(request[e])
       /\ pc[e] \in {"asked", "read"} => request[e].kind # "none"
       /\ request[e].fresh \subseteq minted
       /\ request[e].fresh \cap DOMAIN table = {}
  /\ \A d, e \in Editors : d # e => request[d].fresh \cap request[e].fresh = {}

\* What was read is a chain, and new actions are not in it.
Snaps ==
  \A e \in Editors :
    /\ Distinct(snap[e])
    /\ DOMAIN snap[e] \subseteq minted
    /\ request[e].fresh \cap DOMAIN snap[e] = {}

\* Until a lock lapses, an editor between cache.add and its release has the key.
Exclusive ==
  ~ lapsed => \A e \in Editors : pc[e] \in {"read", "release", "refused", "delete"} => key = e

\* Until then the ranks are dense, and what was read is what there is.
Current ==
  ~ lapsed /\ exists =>
    /\ Dense(table)
    /\ \A e \in Editors : pc[e] = "read" => snap[e] = Read(request[e], table)

IInv == TypeOK /\ Requests /\ Snaps /\ Exclusive /\ Current

LEMMA NothingIs ==
  /\ NoOp \in OpType /\ Sound(NoOp) /\ NoOp.fresh = {}
  /\ IsTable(<< >>) /\ Distinct(<< >>)
<1>1. << >> \in Lists /\ Cardinality(Actions) \in Nat
  <2>1. Cardinality(Actions) \in Nat
    BY TokenAssumption, FS_CardinalityType
  <2>2. << >> \in [1 .. 0 -> Actions] /\ 0 \in 0 .. Cardinality(Actions)
    BY <2>1
  <2> QED BY <2>1, <2>2 DEF Lists
<1>2. NoOp \in OpType /\ Sound(NoOp) /\ NoOp.fresh = {}
  BY <1>1 DEF NoOp, OpType, Sound
<1> QED BY <1>2 DEF IsTable, Distinct

LEMMA InitInv == Init => IInv
<1> SUFFICES ASSUME Init PROVE IInv
  OBVIOUS
<1>1. PICK s \in Lists : IsInjective(s) /\ table = [a \in Range(s) |-> Place(s, a) - 1]
  BY DEF Init
<1>2. PICK m \in Nat : s \in [1 .. m -> Actions]
  BY TokenAssumption, FS_CardinalityType DEF Lists
<1>3. IsTable(table) /\ Distinct(table) /\ Dense(table)
  BY <1>1, <1>2, PlacesAreDense DEF IsChain
<1>4. /\ NoOp \in OpType /\ Sound(NoOp) /\ NoOp.fresh = {}
      /\ IsTable(<< >>) /\ Distinct(<< >>) /\ DOMAIN << >> = {}
  BY NothingIs
<1>5. TypeOK
  <2>1. DOMAIN table \subseteq Actions
    BY <1>3 DEF IsTable
  <2>2. run \in [Actions -> {"none", "pending", "running", "succeeded", "ended"}]
    BY DEF Init
  <2>3. job \in [action : Actions \cup {Nobody}, rank : Nat]
    BY DEF Init
  <2>4. minted \subseteq Actions /\ exists \in BOOLEAN /\ lapsed \in BOOLEAN
    BY <2>1 DEF Init
  <2>5. request \in [Editors -> OpType] /\ pc \in [Editors -> Busy \cup {"idle"}]
    BY <1>4 DEF Init
  <2>6. DOMAIN snap = Editors /\ \A e \in Editors : IsTable(snap[e])
    BY <1>4 DEF Init
  <2>7. key \in Editors \cup {Nobody, Orphan} /\ edits \in 0 .. MaxEdits
    BY BoundsAssumption DEF Init
  <2>8. DOMAIN table \subseteq minted
    BY DEF Init
  <2> QED BY <1>3, <2>2, <2>3, <2>4, <2>5, <2>6, <2>7, <2>8 DEF TypeOK
<1>6. Requests /\ Snaps
  BY <1>4 DEF Init, Requests, Snaps
<1>7. Exclusive /\ Current
  BY <1>3 DEF Init, Exclusive, Current
<1> QED BY <1>5, <1>6, <1>7 DEF IInv

-----------------------------------------------------------------------------
(* The steps.                                                              *)

\* What an editor reads is a chain.
LEMMA ReadIs ==
  ASSUME NEW o, NEW t, IsTable(t), Distinct(t)
  PROVE  IsTable(Read(o, t)) /\ Distinct(Read(o, t)) /\ DOMAIN Read(o, t) \subseteq DOMAIN t
<1>1. DOMAIN Read(o, t) \subseteq DOMAIN t /\ \A a \in DOMAIN Read(o, t) : Read(o, t)[a] = t[a]
  BY DEF Read, Restrict
<1>2. Read(o, t) \in [DOMAIN Read(o, t) -> Nat]
  BY DEF Read, Restrict, IsTable
<1> QED BY <1>1, <1>2 DEF IsTable, Distinct

\* The requests of Ask.
LEMMA AskedIs ==
  ASSUME IsTable(table), minted \subseteq Actions, DOMAIN table \subseteq minted,
         NEW o \in Additions \cup Removals \cup Replacements
  PROVE  /\ Sound(o) /\ o \in OpType /\ o.kind # "none"
         /\ o.fresh \subseteq Actions /\ o.fresh \cap minted = {}
<1>1. Cardinality(Actions) \in Nat
  BY TokenAssumption, FS_CardinalityType
<1>2. << >> \in Lists
  <2>1. << >> \in [1 .. 0 -> Actions] /\ 0 \in 0 .. Cardinality(Actions)
    BY <1>1
  <2> QED BY <2>1 DEF Lists
<1>3. CASE o \in Additions
  <2>1. PICK a \in Actions \ minted, k \in 0 .. Cardinality(Actions) - 1 :
          o = [NoOp EXCEPT !.kind = "add", !.action = a, !.at = k, !.fresh = {a}]
    BY <1>3 DEF Additions
  <2>2. o = [kind |-> "add", action |-> a, at |-> k, chain |-> << >>, fresh |-> {a}]
    BY <2>1 DEF NoOp
  <2>3. k \in 0 .. Cardinality(Actions)
    BY <1>1
  <2>4. o \in OpType
    BY <1>2, <2>2, <2>3 DEF OpType
  <2> QED BY <2>2, <2>4 DEF Sound
<1>4. CASE o \in Removals
  <2>1. PICK a \in DOMAIN table : o = [NoOp EXCEPT !.kind = "remove", !.action = a]
    BY <1>4 DEF Removals
  <2>2. o = [kind |-> "remove", action |-> a, at |-> 0, chain |-> << >>, fresh |-> {}]
    BY <2>1 DEF NoOp
  <2>3. a \in Actions /\ 0 \in 0 .. Cardinality(Actions)
    BY <1>1
  <2>4. o \in OpType
    BY <1>2, <2>2, <2>3 DEF OpType
  <2> QED BY <2>2, <2>3, <2>4 DEF Sound
<1>5. CASE o \in Replacements
  <2>1. PICK s \in Lists : /\ IsInjective(s)
                           /\ o = [NoOp EXCEPT !.kind = "replace", !.chain = s, !.fresh = Range(s) \ minted]
    BY <1>5 DEF Replacements
  <2>2. o = [kind |-> "replace", action |-> Nobody, at |-> 0, chain |-> s, fresh |-> Range(s) \ minted]
    BY <2>1 DEF NoOp
  <2>3. Range(s) \subseteq Actions
    BY DEF Lists, Range
  <2>4. 0 \in 0 .. Cardinality(Actions)
    BY <1>1
  <2>5. o \in OpType
    BY <2>2, <2>3, <2>4 DEF OpType
  <2> QED BY <2>1, <2>2, <2>3, <2>5 DEF Sound
<1> QED BY <1>3, <1>4, <1>5

\* The items' variables.
QueueOK ==
  /\ run \in [Actions -> {"none", "pending", "running", "succeeded", "ended"}]
  /\ job \in [action : Actions \cup {Nobody}, rank : Nat]

LEMMA QueueTypes ==
  ASSUME TypeOK, [Next]_vars
  PROVE  QueueOK'
<1> USE DEF QueueOK
<1>1. QueueOK
  BY DEF TypeOK
<1>2. IsTable(table) /\ NoJob \in [action : Actions \cup {Nobody}, rank : Nat]
  BY DEF TypeOK, NoJob
<1>3. ASSUME NEW e \in Editors, Edits(e) PROVE UNCHANGED queue
  BY <1>3 DEF Edits, Ask, Lock, Conflict, Refuse, Write, Collide, ReleaseGet, ReleaseDelete, Kill
<1>4. CASE Expire \/ Lapse \/ UNCHANGED vars
  BY <1>1, <1>4 DEF Expire, Lapse, vars, queue
<1>5. CASE DeleteWatch
  BY <1>1, <1>5 DEF DeleteWatch
<1>6. CASE Trigger
  BY <1>1, <1>6 DEF Trigger
<1>7. CASE Load
  <2>1. PICK a \in Actions :
          IF a \in DOMAIN table
          THEN /\ run' = [run EXCEPT ![a] = "running"]
               /\ job' = [action |-> a, rank |-> table[a]]
          ELSE run' = [run EXCEPT ![a] = "ended"] /\ UNCHANGED job
    BY <1>7 DEF Load
  <2>2. a \in DOMAIN table => table[a] \in Nat
    BY <1>2 DEF IsTable
  <2> QED BY <1>1, <2>1, <2>2
<1>8. CASE End
  BY <1>1, <1>2, <1>8 DEF End
<1>9. CASE Advance
  BY <1>1, <1>2, <1>9 DEF Advance
<1>10. UNCHANGED queue => QueueOK'
  BY <1>1 DEF queue
<1> QED BY <1>3, <1>4, <1>5, <1>6, <1>7, <1>8, <1>9, <1>10 DEF Next

RowsOK ==
  /\ IsTable(table) /\ Distinct(table) /\ DOMAIN table \subseteq minted
  /\ minted \subseteq Actions
  /\ exists \in BOOLEAN

EditsOK ==
  /\ key \in Editors \cup {Nobody, Orphan}
  /\ pc \in [Editors -> Busy \cup {"idle"}]
  /\ request \in [Editors -> OpType]
  /\ DOMAIN snap = Editors /\ \A e \in Editors : IsTable(snap[e])
  /\ lapsed \in BOOLEAN /\ edits \in 0 .. MaxEdits

LEMMA TypeParts == TypeOK <=> RowsOK /\ EditsOK /\ QueueOK
BY DEF TypeOK, RowsOK, EditsOK, QueueOK

\* The part of the invariant that is about editors and rows.
EditInv == RowsOK /\ EditsOK /\ Requests /\ Snaps /\ Exclusive /\ Current

LEMMA AskKeeps ==
  ASSUME EditInv, NEW e \in Editors, Ask(e)
  PROVE  EditInv'
<1> USE DEF EditInv
<1>1. PICK o \in Additions \cup Removals \cup Replacements :
        request' = [request EXCEPT ![e] = o] /\ minted' = minted \cup o.fresh
  BY DEF Ask
<1>2. /\ Sound(o) /\ o \in OpType /\ o.kind # "none"
      /\ o.fresh \subseteq Actions /\ o.fresh \cap minted = {}
  BY AskedIs DEF RowsOK
<1>3. /\ pc[e] = "idle" /\ pc' = [pc EXCEPT ![e] = "asked"]
      /\ UNCHANGED <<snap, table, exists, key, lapsed>>
      /\ edits < MaxEdits /\ edits' = edits + 1
  BY DEF Ask
<1>4. pc \in [Editors -> Busy \cup {"idle"}] /\ request \in [Editors -> OpType]
  BY DEF EditsOK
<1>5. /\ pc'[e] = "asked" /\ request'[e] = o
      /\ \A d \in Editors \ {e} : pc'[d] = pc[d] /\ request'[d] = request[d]
  BY <1>1, <1>3, <1>4
<1>6. RowsOK'
  BY <1>1, <1>2, <1>3 DEF RowsOK
<1>7. EditsOK'
  <2>1. request' \in [Editors -> OpType]
    BY <1>1, <1>2, <1>4
  <2>2. pc' \in [Editors -> Busy \cup {"idle"}]
    BY <1>3, <1>4 DEF Busy
  <2>3. edits' \in 0 .. MaxEdits
    BY <1>3, BoundsAssumption DEF EditsOK
  <2> QED BY <2>1, <2>2, <2>3, <1>3 DEF EditsOK
<1>9. Requests'
  <2>1. ASSUME NEW d \in Editors
        PROVE  /\ Sound(request[d])'
               /\ (pc[d] \in {"asked", "read"} => request[d].kind # "none")'
               /\ (request[d].fresh \subseteq minted)'
               /\ (request[d].fresh \cap DOMAIN table = {})'
    <3>1. CASE d = e
      <4>1. o.fresh \cap DOMAIN table = {}
        BY <1>2 DEF RowsOK
      <4> QED BY <3>1, <4>1, <1>1, <1>2, <1>3, <1>5
    <3>2. CASE d # e
      BY <3>2, <1>1, <1>3, <1>5 DEF Requests
    <3> QED BY <3>1, <3>2
  <2>2. ASSUME NEW c \in Editors, NEW d \in Editors, c # d
        PROVE  (request[c].fresh \cap request[d].fresh = {})'
    <3>1. \A b \in Editors \ {e} : request[b].fresh \cap o.fresh = {}
      BY <1>2 DEF Requests
    <3>2. CASE c = e
      BY <2>2, <3>1, <3>2, <1>5
    <3>3. CASE d = e
      BY <2>2, <3>1, <3>3, <1>5
    <3>4. CASE c # e /\ d # e
      BY <2>2, <3>4, <1>5 DEF Requests
    <3> QED BY <3>2, <3>3, <3>4
  <2> QED BY <2>1, <2>2 DEF Requests
<1>8. Snaps'
  <2>1. ASSUME NEW d \in Editors
        PROVE  /\ Distinct(snap[d])' /\ (DOMAIN snap[d] \subseteq minted)'
               /\ (request[d].fresh \cap DOMAIN snap[d] = {})'
    <3>1. CASE d = e
      BY <3>1, <1>1, <1>2, <1>3, <1>5 DEF Snaps
    <3>2. CASE d # e
      BY <3>2, <1>1, <1>3, <1>5 DEF Snaps
    <3> QED BY <3>1, <3>2
  <2> QED BY <2>1 DEF Snaps
<1>10. Exclusive'
  BY <1>3, <1>5 DEF Exclusive
<1>11. Current'
  BY <1>3, <1>5 DEF Current
<1> QED BY <1>6, <1>7, <1>8, <1>9, <1>10, <1>11

LEMMA LockKeeps ==
  ASSUME EditInv, NEW e \in Editors, Lock(e)
  PROVE  EditInv'
<1> USE DEF EditInv
<1>1. /\ pc[e] = "asked" /\ pc' = [pc EXCEPT ![e] = "read"]
      /\ key = Nobody /\ key' = e
      /\ snap' = [snap EXCEPT ![e] = Read(request[e], table)]
      /\ UNCHANGED <<table, minted, exists, request, lapsed, edits>>
  BY DEF Lock, Locks, rows
<1>2. pc \in [Editors -> Busy \cup {"idle"}] /\ DOMAIN snap = Editors
  BY DEF EditsOK
<1> DEFINE r == Read(request[e], table)
<1>3. IsTable(r) /\ Distinct(r) /\ DOMAIN r \subseteq DOMAIN table
  BY ReadIs DEF RowsOK
<1> HIDE DEF r
<1>4. /\ pc'[e] = "read" /\ snap'[e] = r /\ DOMAIN snap' = Editors
      /\ \A d \in Editors \ {e} : pc'[d] = pc[d] /\ snap'[d] = snap[d]
  BY <1>1, <1>2 DEF r
<1>5. RowsOK'
  BY <1>1 DEF RowsOK
<1>6. EditsOK'
  <2>1. pc' \in [Editors -> Busy \cup {"idle"}]
    BY <1>1, <1>2 DEF Busy
  <2>2. \A d \in Editors : IsTable(snap'[d])
    BY <1>3, <1>4 DEF EditsOK
  <2> QED BY <2>1, <2>2, <1>1, <1>4 DEF EditsOK
<1>7. Requests'
  BY <1>1, <1>4 DEF Requests
<1>8. Snaps'
  <2>1. ASSUME NEW d \in Editors
        PROVE  /\ Distinct(snap[d])' /\ (DOMAIN snap[d] \subseteq minted)'
               /\ (request[d].fresh \cap DOMAIN snap[d] = {})'
    <3>1. CASE d = e
      BY <3>1, <1>1, <1>3, <1>4 DEF RowsOK, Requests
    <3>2. CASE d # e
      BY <3>2, <1>1, <1>4 DEF Snaps
    <3> QED BY <3>1, <3>2
  <2> QED BY <2>1 DEF Snaps
<1>9. Exclusive'
  BY <1>1, <1>4, TokenAssumption DEF Exclusive
<1>10. Current'
  BY <1>1, <1>4 DEF Current, r
<1> QED BY <1>5, <1>6, <1>7, <1>8, <1>9, <1>10

\* A request that is done with leaves nothing behind, whatever its rows became.
LEMMA DropKeeps ==
  ASSUME RowsOK, EditsOK, Requests, Snaps, RowsOK', NEW e \in Editors, NEW from,
         NEW to \in {"idle", "release", "refused"}, Drops(e, from, to),
         DOMAIN table' \subseteq DOMAIN table \cup request[e].fresh, minted' = minted
  PROVE  /\ pc' \in [Editors -> Busy \cup {"idle"}]
         /\ request' \in [Editors -> OpType]
         /\ DOMAIN snap' = Editors /\ \A d \in Editors : IsTable(snap'[d])
         /\ Requests' /\ Snaps'
<1>1. /\ pc' = [pc EXCEPT ![e] = to]
      /\ request' = [request EXCEPT ![e] = NoOp]
      /\ snap' = [snap EXCEPT ![e] = << >>]
  BY DEF Drops
<1>2. /\ pc \in [Editors -> Busy \cup {"idle"}] /\ request \in [Editors -> OpType]
      /\ DOMAIN snap = Editors /\ \A d \in Editors : IsTable(snap[d])
  BY DEF EditsOK
<1>3. /\ NoOp \in OpType /\ Sound(NoOp) /\ NoOp.fresh = {}
      /\ IsTable(<< >>) /\ Distinct(<< >>) /\ DOMAIN << >> = {}
  BY NothingIs
<1>4. /\ pc'[e] = to /\ request'[e] = NoOp /\ snap'[e] = << >> /\ DOMAIN snap' = Editors
      /\ \A d \in Editors \ {e} :
           pc'[d] = pc[d] /\ request'[d] = request[d] /\ snap'[d] = snap[d]
  BY <1>1, <1>2
<1>5. pc' \in [Editors -> Busy \cup {"idle"}]
  BY <1>1, <1>2 DEF Busy
<1>6. request' \in [Editors -> OpType]
  BY <1>1, <1>2, <1>3
<1>7. \A d \in Editors : IsTable(snap'[d])
  BY <1>2, <1>3, <1>4
<1>8. Requests'
  <2>1. ASSUME NEW d \in Editors
        PROVE  /\ Sound(request[d])'
               /\ (pc[d] \in {"asked", "read"} => request[d].kind # "none")'
               /\ (request[d].fresh \subseteq minted)'
               /\ (request[d].fresh \cap DOMAIN table = {})'
    <3>1. CASE d = e
      BY <3>1, <1>3, <1>4
    <3>2. CASE d # e
      <4>1. request[d].fresh \cap (DOMAIN table \cup request[e].fresh) = {}
        BY <3>2 DEF Requests
      <4> QED BY <3>2, <4>1, <1>4 DEF Requests
    <3> QED BY <3>1, <3>2
  <2>2. ASSUME NEW c \in Editors, NEW d \in Editors, c # d
        PROVE  (request[c].fresh \cap request[d].fresh = {})'
    <3>1. CASE c = e \/ d = e
      BY <3>1, <1>3, <1>4
    <3>2. CASE c # e /\ d # e
      BY <2>2, <3>2, <1>4 DEF Requests
    <3> QED BY <3>1, <3>2
  <2> QED BY <2>1, <2>2 DEF Requests
<1>9. Snaps'
  <2>1. ASSUME NEW d \in Editors
        PROVE  /\ Distinct(snap[d])' /\ (DOMAIN snap[d] \subseteq minted)'
               /\ (request[d].fresh \cap DOMAIN snap[d] = {})'
    <3>1. CASE d = e
      BY <3>1, <1>3, <1>4
    <3>2. CASE d # e
      BY <3>2, <1>4 DEF Snaps
    <3> QED BY <3>1, <3>2
  <2> QED BY <2>1 DEF Snaps
<1> QED BY <1>4, <1>5, <1>6, <1>7, <1>8, <1>9

\* The steps of an edit that end without touching the rows.
LEMMA GiveUpKeeps ==
  ASSUME EditInv, NEW e \in Editors,
         Conflict(e) \/ Refuse(e) \/ Collide(e) \/ ReleaseDelete(e) \/ Kill(e)
  PROVE  EditInv'
<1> USE DEF EditInv
<1>1. PICK from \in Busy, to \in {"idle", "release", "refused"} :
        /\ Drops(e, from, to)
        /\ to # "idle" => from = "read" /\ key' = key
        /\ key' = key \/ (key = e /\ key' \in {Nobody, Orphan}) \/ (from = "delete" /\ key' = Nobody)
        /\ to = "idle" => key' # e \/ from = "asked"
        /\ UNCHANGED <<table, minted, exists, lapsed, edits>>
  <2>1. CASE Conflict(e)
    BY <2>1 DEF Conflict, Busy, rows
  <2>2. CASE Refuse(e)
    BY <2>2 DEF Refuse, Busy, rows
  <2>3. CASE Collide(e)
    BY <2>3 DEF Collide, Busy, rows
  <2>4. CASE ReleaseDelete(e)
    BY <2>4, TokenAssumption DEF ReleaseDelete, Busy, rows
  <2>5. CASE Kill(e)
    BY <2>5, TokenAssumption DEF Kill, rows
  <2> QED BY <2>1, <2>2, <2>3, <2>4, <2>5
<1>2. RowsOK'
  BY <1>1 DEF RowsOK
<1>3. /\ pc' \in [Editors -> Busy \cup {"idle"}]
      /\ request' \in [Editors -> OpType]
      /\ DOMAIN snap' = Editors /\ \A d \in Editors : IsTable(snap'[d])
      /\ Requests' /\ Snaps'
  BY <1>1, <1>2, DropKeeps
<1>4. /\ pc[e] = from /\ pc'[e] = to
      /\ \A d \in Editors \ {e} :
           pc'[d] = pc[d] /\ request'[d] = request[d] /\ snap'[d] = snap[d]
  BY <1>1 DEF Drops, EditsOK
<1>5. EditsOK'
  BY <1>1, <1>3 DEF EditsOK
<1>6. Exclusive'
  <2>1. SUFFICES ASSUME ~ lapsed, NEW d \in Editors,
                        pc'[d] \in {"read", "release", "refused", "delete"}
                 PROVE  key' = d
    BY <1>1 DEF Exclusive
  <2>2. CASE d = e
    BY <2>1, <2>2, <1>1, <1>4 DEF Exclusive
  <2>3. CASE d # e
    <3>1. key = d
      BY <2>1, <2>3, <1>4 DEF Exclusive
    <3>2. from # "delete"
      BY <2>1, <2>3, <3>1, <1>4 DEF Exclusive
    <3> QED BY <2>3, <3>1, <3>2, <1>1
  <2> QED BY <2>2, <2>3
<1>7. Current'
  BY <1>1, <1>4 DEF Current
<1> QED BY <1>2, <1>3, <1>5, <1>6, <1>7

LEMMA ReleaseGetKeeps ==
  ASSUME EditInv, NEW e \in Editors, ReleaseGet(e)
  PROVE  EditInv'
<1> USE DEF EditInv
<1>1. /\ pc[e] \in {"release", "refused"}
      /\ pc' = [pc EXCEPT ![e] = IF key = e THEN "delete" ELSE "idle"]
      /\ UNCHANGED <<request, snap, table, minted, exists, key, lapsed, edits>>
  BY DEF ReleaseGet, rows
<1>2. pc \in [Editors -> Busy \cup {"idle"}]
  BY DEF EditsOK
<1>3. /\ pc'[e] = IF key = e THEN "delete" ELSE "idle"
      /\ \A d \in Editors \ {e} : pc'[d] = pc[d]
  BY <1>1, <1>2
<1>4. pc' \in [Editors -> Busy \cup {"idle"}]
  BY <1>1, <1>2 DEF Busy
<1>5. RowsOK' /\ EditsOK'
  BY <1>1, <1>4 DEF RowsOK, EditsOK
<1>6. Requests' /\ Snaps'
  BY <1>1, <1>3 DEF Requests, Snaps
<1>7. Exclusive' /\ Current'
  BY <1>1, <1>3 DEF Exclusive, Current
<1> QED BY <1>5, <1>6, <1>7

\* The transaction: what the lock promises makes it the edit of EditSound.
LEMMA Edited ==
  ASSUME EditInv, NEW e \in Editors, pc[e] = "read", ~ Refused(request[e], snap[e]),
         ~ lapsed, exists
  PROVE  LET o == request[e]
             s == Stages(table, o, snap[e])
         IN  /\ \A i \in 1 .. 3 : ~ MayCollide(s[i], s[i + 1])
             /\ Dense(s[4]) /\ Listing(s[4]) = Asked(o, table)
<1>1. snap[e] = Read(request[e], table) /\ Dense(table)
  BY DEF EditInv, Current
<1>2. Sound(request[e]) /\ request[e].kind # "none" /\ request[e].fresh \cap DOMAIN table = {}
  BY DEF EditInv, Requests
<1>3. IsTable(table) /\ Distinct(table)
  BY DEF EditInv, RowsOK
<1> QED BY <1>1, <1>2, <1>3, EditSound DEF Asked

LEMMA WriteKeeps ==
  ASSUME EditInv, NEW e \in Editors, Write(e)
  PROVE  EditInv'
<1> USE DEF EditInv
<1> DEFINE o == request[e]
           s == Stages(table, o, snap[e])
<1>1. /\ Drops(e, "read", "release") /\ ~ Refused(o, snap[e])
      /\ \A i \in DOMAIN s : Distinct(s[i])
      /\ table' = s[4]
      /\ UNCHANGED <<minted, exists, key, lapsed, edits>>
  BY DEF Write
<1>2. DOMAIN s = 1 .. 4
  BY DEF Stages
<1> HIDE DEF s
<1>3. pc[e] = "read" /\ Sound(o) /\ o.kind # "none" /\ o.fresh \subseteq minted
  BY <1>1 DEF Drops, Requests
<1>4. /\ IsTable(snap[e]) /\ Distinct(snap[e]) /\ o.fresh \cap DOMAIN snap[e] = {}
  BY DEF EditsOK, Snaps
<1>5. IsTable(table') /\ DOMAIN table' \subseteq DOMAIN table \cup o.fresh
  BY <1>1, <1>3, <1>4, StagesFit DEF RowsOK, s
<1>6. Distinct(table')
  BY <1>1, <1>2
<1>7. RowsOK'
  BY <1>1, <1>3, <1>5, <1>6 DEF RowsOK
<1>8. /\ pc' \in [Editors -> Busy \cup {"idle"}]
      /\ request' \in [Editors -> OpType]
      /\ DOMAIN snap' = Editors /\ \A d \in Editors : IsTable(snap'[d])
      /\ Requests' /\ Snaps'
  BY <1>1, <1>5, <1>7, DropKeeps
<1>9. EditsOK'
  BY <1>1, <1>8 DEF EditsOK
<1>10. /\ pc'[e] = "release"
       /\ \A d \in Editors \ {e} : pc'[d] = pc[d]
  BY <1>1 DEF Drops, EditsOK
<1>11. Exclusive'
  BY <1>1, <1>3, <1>10 DEF Exclusive
<1>12. Current'
  <2>1. SUFFICES ASSUME ~ lapsed, exists
                 PROVE  Dense(table') /\ \A d \in Editors : pc'[d] # "read"
    BY <1>1 DEF Current
  <2>2. Dense(table')
    BY <2>1, <1>1, <1>3, Edited DEF s
  <2>3. \A d \in Editors : pc'[d] # "read"
    BY <2>1, <1>3, <1>10 DEF Exclusive
  <2> QED BY <2>2, <2>3
<1> QED BY <1>7, <1>8, <1>9, <1>11, <1>12

LEMMA OthersKeep ==
  ASSUME EditInv, Expire \/ Lapse \/ DeleteWatch \/ Trigger \/ Load \/ End \/ Advance \/ UNCHANGED vars
  PROVE  EditInv'
<1> USE DEF EditInv
<1>1. CASE Expire
  <2>1. /\ key = Orphan /\ key' = Nobody
        /\ UNCHANGED <<table, minted, exists, pc, request, snap, lapsed, edits>>
    BY <1>1 DEF Expire, rows, edit
  <2>2. Exclusive'
    BY <2>1, TokenAssumption DEF Exclusive
  <2> QED BY <2>1, <2>2 DEF RowsOK, EditsOK, Requests, Snaps, Current
<1>2. CASE Lapse
  <2>1. /\ key' = Nobody /\ lapsed' = TRUE
        /\ UNCHANGED <<table, minted, exists, pc, request, snap, edits>>
    BY <1>2 DEF Lapse, rows, edit
  <2> QED BY <2>1 DEF RowsOK, EditsOK, Requests, Snaps, Exclusive, Current
<1>3. CASE DeleteWatch
  <2>1. /\ exists' = FALSE /\ table' = << >>
        /\ UNCHANGED <<minted, key, pc, request, snap, lapsed, edits>>
    BY <1>3 DEF DeleteWatch, edit
  <2>2. IsTable(<< >>) /\ Distinct(<< >>) /\ DOMAIN << >> = {}
    BY NothingIs
  <2>3. RowsOK'
    BY <2>1, <2>2 DEF RowsOK
  <2>4. EditsOK' /\ Snaps' /\ Exclusive' /\ Current'
    BY <2>1 DEF EditsOK, Snaps, Exclusive, Current
  <2>5. Requests'
    BY <2>1, <2>2 DEF Requests
  <2> QED BY <2>3, <2>4, <2>5
<1>4. CASE UNCHANGED <<table, minted, exists, key, pc, request, snap, lapsed, edits>>
  BY <1>4 DEF RowsOK, EditsOK, Requests, Snaps, Exclusive, Current
<1>5. Trigger \/ Load \/ End \/ Advance \/ UNCHANGED vars
        => UNCHANGED <<table, minted, exists, key, pc, request, snap, lapsed, edits>>
  BY DEF Trigger, Load, End, Advance, vars, rows, edit
<1> QED BY <1>1, <1>2, <1>3, <1>4, <1>5

LEMMA NextInv == IInv /\ [Next]_vars => IInv'
<1> SUFFICES ASSUME IInv, [Next]_vars PROVE IInv'
  OBVIOUS
<1>1. EditInv /\ TypeOK
  BY TypeParts DEF IInv, EditInv
<1>2. ASSUME NEW e \in Editors, Edits(e) PROVE EditInv'
  BY <1>1, <1>2, AskKeeps, LockKeeps, GiveUpKeeps, ReleaseGetKeeps, WriteKeeps DEF Edits
<1>3. EditInv'
  BY <1>1, <1>2, OthersKeep DEF Next
<1>4. QueueOK'
  BY <1>1, QueueTypes
<1>5. TypeOK'
  BY <1>3, <1>4 DEF EditInv, TypeOK, RowsOK, EditsOK, QueueOK
<1> QED BY <1>3, <1>5 DEF IInv, EditInv

LEMMA Invariance == Spec => []IInv
BY InitInv, NextInv, PTL DEF Spec

-----------------------------------------------------------------------------
\* Types; and the rows never break the unique key, although a lapsed lock lets
\* edits overlap.
THEOREM TypeCorrect == Spec => []TypeOK
<1>1. IInv => TypeOK
  BY DEF IInv
<1> QED BY <1>1, Invariance, PTL

\* For chains of any length and any number of editors: while the lock keeps its
\* promise no order of the row changes breaks the unique key, ranks are dense
\* and the chain is the one asked for (WatchActionService.add, remove,
\* replace_chain).
THEOREM EditsDoAsAsked == Spec => EditsAsAsked
<1> DEFINE Step == \A e \in Editors :
                     ~lapsed /\ exists /\ pc[e] = "read" /\ pc'[e] = "release"
                     => Dense(table') /\ Listing(table') = Asked(request[e], table)
<1>1. ASSUME IInv, [Next]_vars PROVE Step
  <2>1. SUFFICES ASSUME NEW e \in Editors, ~ lapsed, exists, pc[e] = "read", pc'[e] = "release"
                 PROVE  Dense(table') /\ Listing(table') = Asked(request[e], table)
    OBVIOUS
  <2>2. EditInv /\ pc \in [Editors -> Busy \cup {"idle"}]
    BY <1>1, TypeParts DEF IInv, EditInv, TypeOK
  <2>3. Write(e) \/ Collide(e)
    <3>1. ASSUME NEW d \in Editors, Edits(d) PROVE Write(e) \/ Collide(e)
      <4>1. d = e
        BY <2>1, <2>2, <3>1 DEF Edits, Ask, Lock, Conflict, Refuse, Write, Collide, ReleaseGet,
          ReleaseDelete, Kill, Drops
      <4>2. ~ (Ask(e) \/ Lock(e) \/ Conflict(e) \/ Refuse(e) \/ ReleaseGet(e) \/ ReleaseDelete(e) \/ Kill(e))
        BY <2>1, <2>2 DEF Ask, Lock, Conflict, Refuse, ReleaseGet, ReleaseDelete, Kill, Drops
      <4> QED BY <3>1, <4>1, <4>2 DEF Edits
    <3>2. (Expire \/ Lapse \/ DeleteWatch \/ Trigger \/ Load \/ End \/ Advance \/ UNCHANGED vars) => pc' = pc
      BY DEF Expire, Lapse, DeleteWatch, Trigger, Load, End, Advance, vars, edit
    <3> QED BY <1>1, <2>1, <3>1, <3>2 DEF Next
  <2> DEFINE s == Stages(table, request[e], snap[e])
  <2>4. ~ Refused(request[e], snap[e])
    BY <2>3 DEF Write, Collide
  <2>5. /\ \A i \in 1 .. 3 : ~ MayCollide(s[i], s[i + 1])
        /\ Dense(s[4]) /\ Listing(s[4]) = Asked(request[e], table)
    BY <2>1, <2>2, <2>4, Edited
  <2>6. ~ Collide(e)
    BY <2>5 DEF Collide
  <2>7. table' = s[4]
    BY <2>3, <2>6 DEF Write
  <2> QED BY <2>5, <2>7
<1>2. IInv /\ [Next]_vars => [Step]_vars
  BY <1>1
<1>3. Spec => [][Step]_vars
  BY <1>2, Invariance, PTL DEF Spec
<1> QED BY <1>3 DEF EditsAsAsked

\* next_in_chain's smallest greater rank is the next action of the list.
LEMMA NextIsFollower ==
  ASSUME NEW t, IsTable(t), Distinct(t), NEW a \in DOMAIN t
  PROVE  NextInChain(t, t[a])
           = {Listing(t)[i] : i \in {i \in 2 .. Cardinality(DOMAIN t) : Listing(t)[i - 1] = a}}
<1> DEFINE s == Listing(t)
           n == Cardinality(DOMAIN t)
<1>1. n \in Nat /\ t \in [DOMAIN t -> Nat]
  BY FiniteTable
<1>2. /\ s \in [1 .. n -> DOMAIN t] /\ Range(s) = DOMAIN t
      /\ \A i, j \in 1 .. n : i < j => t[s[i]] < t[s[j]]
  BY ListingIs
<1> HIDE DEF s, n
<1>3. \A b \in DOMAIN t : \E i \in 1 .. n : s[i] = b
  BY <1>2 DEF Range
<1>4. PICK k \in 1 .. n : s[k] = a
  BY <1>3
<1>5. \A i, j \in 1 .. n : t[s[i]] < t[s[j]] => i < j
  <2>1. SUFFICES ASSUME NEW i \in 1 .. n, NEW j \in 1 .. n, t[s[i]] < t[s[j]], ~ (i < j)
                 PROVE  FALSE
    OBVIOUS
  <2>2. t[s[i]] \in Nat /\ t[s[j]] \in Nat
    BY <1>1, <1>2
  <2>3. CASE i = j
    BY <2>1, <2>2, <2>3
  <2>4. CASE j < i
    BY <2>1, <2>2, <2>4, <1>2
  <2> QED BY <2>1, <2>3, <2>4
<1>6. ASSUME NEW b \in NextInChain(t, t[a])
      PROVE  k + 1 \in 2 .. n /\ s[k + 1] = b
  <2>1. b \in DOMAIN t /\ t[b] > t[a] /\ \A c \in DOMAIN t : t[c] > t[a] => t[b] <= t[c]
    BY DEF NextInChain
  <2>2. PICK j \in 1 .. n : s[j] = b
    BY <2>1, <1>3
  <2>3. k < j
    BY <2>1, <2>2, <1>1, <1>2, <1>4, <1>5
  <2>4. k + 1 \in 1 .. n
    BY <2>3, <1>1
  <2>5. s[k + 1] \in DOMAIN t /\ t[s[k + 1]] > t[a]
    <3>1. t[s[k]] < t[s[k + 1]]
      BY <2>4, <1>2
    <3> QED BY <3>1, <2>4, <1>1, <1>2, <1>4
  <2>6. ~ (k + 1 < j)
    <3>1. SUFFICES ASSUME k + 1 < j PROVE FALSE
      OBVIOUS
    <3>2. t[s[k + 1]] < t[s[j]]
      BY <3>1, <2>4, <1>2
    <3>3. t[b] <= t[s[k + 1]]
      BY <2>1, <2>5
    <3> QED BY <3>2, <3>3, <2>1, <2>2, <2>5, <1>1
  <2>7. j = k + 1
    BY <2>3, <2>6, <1>1
  <2> QED BY <2>2, <2>4, <2>7, <1>1
<1>7. ASSUME k + 1 \in 2 .. n
      PROVE  s[k + 1] \in NextInChain(t, t[a])
  <2>1. k + 1 \in 1 .. n
    BY <1>1, <1>7
  <2>2. s[k + 1] \in DOMAIN t /\ t[s[k + 1]] > t[a]
    <3>1. t[s[k]] < t[s[k + 1]]
      BY <2>1, <1>2
    <3> QED BY <3>1, <2>1, <1>1, <1>2, <1>4
  <2>3. ASSUME NEW c \in DOMAIN t, t[c] > t[a] PROVE t[s[k + 1]] <= t[c]
    <3>1. PICK j \in 1 .. n : s[j] = c
      BY <1>3
    <3>2. k < j
      BY <2>3, <3>1, <1>1, <1>2, <1>4, <1>5
    <3>3. CASE j = k + 1
      BY <3>1, <3>3, <1>1
    <3>4. CASE k + 1 < j
      <4>1. t[s[k + 1]] < t[s[j]]
        BY <3>4, <2>1, <1>2
      <4> QED BY <4>1, <3>1, <2>2, <1>1
    <3> QED BY <3>2, <3>3, <3>4
  <2> QED BY <2>2, <2>3 DEF NextInChain
<1>8. \A i \in 2 .. n : s[i - 1] = a <=> i = k + 1
  <2>1. SUFFICES ASSUME NEW i \in 2 .. n PROVE s[i - 1] = a <=> i = k + 1
    OBVIOUS
  <2>2. i - 1 \in 1 .. n
    BY <1>1
  <2>3. s[i - 1] = a => i - 1 = k
    <3>1. SUFFICES ASSUME s[i - 1] = a, i - 1 # k PROVE FALSE
      OBVIOUS
    <3>2. i - 1 < k \/ k < i - 1
      BY <3>1, <2>2
    <3>3. t[s[i - 1]] < t[s[k]] \/ t[s[k]] < t[s[i - 1]]
      BY <3>2, <2>2, <1>2
    <3> QED BY <3>1, <3>3, <1>1, <1>4
  <2> QED BY <2>2, <2>3, <1>4
<1>9. NextInChain(t, t[a]) = {s[i] : i \in {i \in 2 .. n : s[i - 1] = a}}
  BY <1>6, <1>7, <1>8
<1> QED BY <1>9 DEF s, n

\* For chains of any length, dense or not: an action that has kept its rank
\* queues the action that follows it, and touches no other run
\* (next_in_chain, enqueue_next_batch).
THEOREM AdvanceFollows == Spec => AdvanceFollowsChain
<1> DEFINE Step == \A a \in DOMAIN table :
                     Succeeds(a) /\ table[a] = job.rank
                     => {b \in Actions : run'[b] # run[b]} = {a} \cup {b \in Follower(a) : run[b] = "none"}
<1>1. ASSUME IInv, [Next]_vars PROVE Step
  <2>1. SUFFICES ASSUME NEW a \in DOMAIN table, Succeeds(a), table[a] = job.rank
                 PROVE  {b \in Actions : run'[b] # run[b]} = {a} \cup {b \in Follower(a) : run[b] = "none"}
    OBVIOUS
  <2>2. /\ IsTable(table) /\ Distinct(table) /\ a \in Actions
        /\ run \in [Actions -> {"none", "pending", "running", "succeeded", "ended"}]
    BY <1>1 DEF IInv, TypeOK, IsTable
  <2>3. run[a] = "running" /\ run'[a] = "succeeded"
    BY <2>1 DEF Succeeds
  <2>4. Advance
    <3>1. ASSUME NEW e \in Editors, Edits(e) PROVE run' = run
      BY <3>1 DEF Edits, Ask, Lock, Conflict, Refuse, Write, Collide, ReleaseGet, ReleaseDelete, Kill, queue
    <3>2. (Expire \/ Lapse \/ UNCHANGED vars) => run' = run
      BY DEF Expire, Lapse, vars, queue
    <3>3. (DeleteWatch \/ Trigger \/ Load \/ End) => run'[a] # "succeeded"
      BY <2>2, <2>3 DEF DeleteWatch, Trigger, Load, End
    <3> QED BY <1>1, <2>3, <3>1, <3>2, <3>3 DEF Next
  <2> DEFINE next == NextInChain(table, job.rank)
  <2>5. /\ run[job.action] = "running"
        /\ run' = [b \in Actions |->
                     IF b = job.action THEN "succeeded"
                     ELSE IF b \in next /\ run[b] = "none" THEN "pending" ELSE run[b]]
    BY <2>4 DEF Advance
  <2>6. next = Follower(a)
    BY <2>1, <2>2, NextIsFollower DEF Follower
  <2>7. next \subseteq Actions
    BY <2>2 DEF NextInChain, IsTable
  <2> HIDE DEF next
  <2>8. job.action = a
    BY <2>2, <2>3, <2>5
  <2> QED BY <2>2, <2>3, <2>5, <2>6, <2>7, <2>8
<1>2. IInv /\ [Next]_vars => [Step]_vars
  BY <1>1
<1>3. Spec => [][Step]_vars
  BY <1>2, Invariance, PTL DEF Spec
<1> QED BY <1>3 DEF AdvanceFollowsChain

=============================================================================
