---------------------------- MODULE FoldsAndOrders -----------------------------
(* What the proofs about folds and sorted lists share, about no component:    *)
(* induction, the existence of folds, and the place of an element in an order *)
(* as the number of those before it.                                          *)
(*                                                                            *)
(* The library's induction theorems are about an operator; here induction is  *)
(* about a set of numbers (Induction), which the provers can be given.        *)
EXTENDS Integers, Sequences, FiniteSets, FiniteSetsExt, SequencesExt, SequenceTheorems,
        FiniteSetTheorems, WellFoundedInduction, TLAPS

-------------------------------------------------------------------------------
(* Induction                                                                  *)

\* A set of natural numbers that is not empty has a least one.
LEMMA LeastNumber ==
    ASSUME NEW S \in SUBSET Nat, S # {}
    PROVE  \E m \in S : \A n \in S : m <= n
<1> DEFINE R == StrictSubsetOrdering(Nat)
           F == FiniteSubsetsOf(Nat)
           T == {0..n : n \in S}
<1>1. IsWellFoundedOn(R, F)
    BY FS_StrictSubsetOrderingWellFounded
<1>2. T \subseteq F
  <2> SUFFICES ASSUME NEW n \in S PROVE 0..n \in F
      OBVIOUS
  <2>1. n \in Int /\ 0 \in Int /\ 0..n \subseteq Nat
      OBVIOUS
  <2> QED BY <2>1, FS_Interval DEF FiniteSubsetsOf
<1>3. T # {}
    OBVIOUS
<1>4. PICK x \in T : \A y \in T : <<y, x>> \notin R
  <2> HIDE DEF R, F, T
  <2> QED BY <1>1, <1>2, <1>3, WFMin
<1>5. PICK m \in S : x = 0..m
    OBVIOUS
<1>6. ASSUME NEW n \in S PROVE m <= n
  <2> SUFFICES ASSUME n < m PROVE FALSE
      OBVIOUS
  <2>1. m \in 0..m /\ m \notin 0..n
      OBVIOUS
  <2>2. 0..n \in SUBSET Nat /\ 0..m \in SUBSET Nat /\ 0..n \subseteq 0..m /\ 0..n # 0..m
      BY <2>1
  <2>3. <<0..n, 0..m>> \in R
      BY <2>2 DEF StrictSubsetOrdering
  <2> QED BY <1>4, <1>5, <2>3
<1> QED BY <1>6

\* A set with 0 and with the successor of each of its numbers has them all.
LEMMA Induction ==
    ASSUME NEW S, 0 \in S, \A n \in Nat : n \in S => n + 1 \in S
    PROVE  \A n \in Nat : n \in S
<1> DEFINE B == {n \in Nat : n \notin S}
<1> SUFFICES ASSUME B # {} PROVE FALSE
    OBVIOUS
<1>1. PICK m \in B : \A n \in B : m <= n
  <2>1. B \in SUBSET Nat
      OBVIOUS
  <2> HIDE DEF B
  <2> QED BY <2>1, LeastNumber
<1>2. m # 0 /\ m - 1 \in Nat
    OBVIOUS
<1>3. m - 1 \in S
    BY <1>1, <1>2
<1> QED BY <1>2, <1>3

-------------------------------------------------------------------------------
(* Folds: the partial results of a FoldLeft, one for each prefix.             *)

\* The largest of a set of numbers up to its largest.
LEMMA MaxOfInterval ==
    ASSUME NEW n \in Nat, NEW s \in SUBSET (1..n + 1), n + 1 \in s
    PROVE  Max(s) = n + 1
<1>1. \A y \in s : n + 1 >= y
    OBVIOUS
<1>2. \A x \in s : (\A y \in s : x >= y) => x = n + 1
    OBVIOUS
<1> QED BY <1>1, <1>2, Zenon DEF Max

\* The largest of the first numbers, and what is left without it.
LEMMA MaxOfPrefix ==
    ASSUME NEW n \in Nat
    PROVE  Max(1..n + 1) = n + 1 /\ (1..n + 1) \ {n + 1} = 1..n /\ 1..n + 1 # {}
<1>1. n + 1 \in 1..n + 1
    OBVIOUS
<1> QED BY <1>1, MaxOfInterval

\* Any of the first numbers have a largest.
LEMMA MaxInSet ==
    ASSUME NEW n \in Nat, NEW s \in SUBSET (1..n), s # {}
    PROVE  Max(s) \in s /\ \A x \in s : x <= Max(s)
<1> DEFINE B == {m \in Nat : \A x \in s : x <= m}
<1>1. B \in SUBSET Nat /\ n \in B
    OBVIOUS
<1>2. PICK m \in B : \A k \in B : m <= k
  <2> HIDE DEF B
  <2> QED BY <1>1, LeastNumber
<1>3. m \in s
  <2> SUFFICES ASSUME m \notin s PROVE FALSE
      OBVIOUS
  <2>1. PICK x \in s : TRUE
      OBVIOUS
  <2>2. m # 0 /\ \A y \in s : y <= m - 1
      BY <2>1
  <2>3. m - 1 \in B
      BY <2>2
  <2> QED BY <1>2, <2>3
<1>4. \A y \in s : m >= y
    OBVIOUS
<1>5. PICK x \in s : \A y \in s : x >= y
    BY <1>3, <1>4
<1>6. Max(s) \in s /\ \A y \in s : Max(s) >= y
    BY <1>5, Zenon DEF Max
<1>7. \A y \in s : y \in Int
    OBVIOUS
<1> QED BY <1>6, <1>7

\* The function a fold is defined by, for a step that is itself a function.
Folds(A, F, base, n, f) ==
    \E g \in [SUBSET (1..n) -> A] :
       \A s \in SUBSET (1..n) :
          g[s] = IF s = {} THEN base ELSE F[<<g[s \ {Max(s)}], f[Max(s)]>>]

\* It exists.
LEMMA FoldExists ==
    ASSUME NEW A, NEW E, NEW base \in A, NEW F \in [A \X E -> A], NEW n \in Nat,
           NEW f \in [1..n -> E]
    PROVE  Folds(A, F, base, n, f)
<1> DEFINE Q(m, g) == \A s \in SUBSET (1..m) :
                g[s] = IF s = {} THEN base ELSE F[<<g[s \ {Max(s)}], f[Max(s)]>>]
           Has(m) == \E g \in [SUBSET (1..m) -> A] : Q(m, g)
           S == {m \in Nat : m <= n => Has(m)}
<1>1. 0 \in S
  <2> DEFINE g == [s \in SUBSET (1..0) |-> base]
  <2>1. 1..0 = {}
      OBVIOUS
  <2>2. g \in [SUBSET (1..0) -> A] /\ Q(0, g)
      BY <2>1
  <2> QED BY <2>2
<1>2. ASSUME NEW m \in Nat, m \in S PROVE m + 1 \in S
  <2>1. SUFFICES ASSUME m + 1 <= n PROVE Has(m + 1)
    <3> HIDE DEF Has
    <3> QED OBVIOUS
  <2>2. Has(m)
    <3> HIDE DEF Has
    <3> QED BY <1>2, <2>1
  <2>3. PICK g \in [SUBSET (1..m) -> A] : Q(m, g)
      BY <2>2
  <2> DEFINE h == [s \in SUBSET (1..m + 1) |->
                     IF s \subseteq 1..m THEN g[s] ELSE F[<<g[s \ {m + 1}], f[m + 1]>>]]
  <2>4. \A s \in SUBSET (1..m + 1) :
           s \ {m + 1} \in SUBSET (1..m) /\ (s \subseteq 1..m \/ m + 1 \in s)
      OBVIOUS
  <2>5. h \in [SUBSET (1..m + 1) -> A]
    <3> SUFFICES ASSUME NEW s \in SUBSET (1..m + 1) PROVE h[s] \in A
        OBVIOUS
    <3>1. CASE s \subseteq 1..m
        BY <3>1
    <3>2. CASE ~(s \subseteq 1..m)
      <4>1. g[s \ {m + 1}] \in A /\ f[m + 1] \in E
          BY <2>1, <2>4
      <4> QED BY <4>1, <3>2
    <3> QED BY <3>1, <3>2
  <2>6. Q(m + 1, h)
    <3> SUFFICES ASSUME NEW s \in SUBSET (1..m + 1)
                 PROVE h[s] = IF s = {} THEN base ELSE F[<<h[s \ {Max(s)}], f[Max(s)]>>]
        OBVIOUS
    <3>1. CASE s \subseteq 1..m
      <4>1. s \in SUBSET (1..m) /\ s \ {Max(s)} \in SUBSET (1..m)
            /\ s \ {Max(s)} \in SUBSET (1..m + 1)
          BY <3>1
      <4>2. h[s] = g[s] /\ h[s \ {Max(s)}] = g[s \ {Max(s)}]
          BY <4>1
      <4>3. g[s] = IF s = {} THEN base ELSE F[<<g[s \ {Max(s)}], f[Max(s)]>>]
          BY <2>3, <4>1
      <4> QED BY <4>2, <4>3
    <3>2. CASE ~(s \subseteq 1..m)
      <4>1. m + 1 \in s /\ s # {}
          BY <2>4, <3>2
      <4>2. Max(s) = m + 1
          BY <4>1, MaxOfInterval
      <4>3. s \ {m + 1} \in SUBSET (1..m) /\ s \ {m + 1} \in SUBSET (1..m + 1)
          BY <2>4
      <4>4. h[s] = F[<<g[s \ {m + 1}], f[m + 1]>>] /\ h[s \ {m + 1}] = g[s \ {m + 1}]
          BY <4>3, <3>2
      <4> QED BY <4>1, <4>2, <4>4
    <3> QED BY <3>1, <3>2
  <2> HIDE DEF h, Q
  <2> QED BY <2>5, <2>6
<1>3. \A m \in Nat : m \in S
  <2> HIDE DEF S
  <2> QED BY <1>1, <1>2, Induction
<1>4. Has(n)
  <2> HIDE DEF Has
  <2> QED BY <1>3
<1> QED BY <1>4 DEF Folds

-------------------------------------------------------------------------------
(* Orders: what is where in a sorted list                                     *)

Distinct(f) == \A i, j \in DOMAIN f : f[i] = f[j] => i = j

\* What is in one-to-one correspondence has as many elements.
LEMMA SameNumber ==
    ASSUME NEW S, NEW T, IsFiniteSet(S), NEW f \in [S -> T], Distinct(f),
           \A t \in T : \E s \in S : f[s] = t
    PROVE  IsFiniteSet(T) /\ Cardinality(T) = Cardinality(S)
<1>1. f \in Bijection(S, T)
    BY DEF Bijection, Injection, Surjection, IsInjective, Distinct
<1>2. ExistsBijection(S, T)
    BY <1>1 DEF ExistsBijection
<1> QED BY <1>2, FS_Bijection

\* There are n numbers up to n.
LEMMA FirstNumbers ==
    ASSUME NEW n \in Nat PROVE IsFiniteSet(1..n) /\ Cardinality(1..n) = n
<1>1. 1 \in Int /\ n \in Int
    OBVIOUS
<1>2. IsFiniteSet(1..n) /\ Cardinality(1..n) = IF 1 > n THEN 0 ELSE n - 1 + 1
    BY <1>1, FS_Interval
<1> QED BY <1>2

\* A list without repetition has as many elements as it is long.
LEMMA DistinctCount ==
    ASSUME NEW n \in Nat, NEW f, DOMAIN f = 1..n, Distinct(f)
    PROVE  IsFiniteSet({f[k] : k \in 1..n}) /\ Cardinality({f[k] : k \in 1..n}) = n
<1> DEFINE T == {f[k] : k \in 1..n}
           g == [k \in 1..n |-> f[k]]
<1>1. g \in [1..n -> T] /\ Distinct(g) /\ \A t \in T : \E k \in 1..n : g[k] = t
    BY DEF Distinct
<1>2. IsFiniteSet(1..n) /\ Cardinality(1..n) = n
    BY FirstNumbers
<1> HIDE DEF T, g
<1>3. IsFiniteSet(T) /\ Cardinality(T) = Cardinality(1..n)
    BY <1>1, <1>2, SameNumber
<1> QED BY <1>2, <1>3 DEF T

\* A strict order of all of V, and what is before an element.
Order(V, Q) ==
    /\ \A x \in V : <<x, x>> \notin Q
    /\ \A x, y, z \in V : <<x, y>> \in Q /\ <<y, z>> \in Q => <<x, z>> \in Q
    /\ \A x, y \in V : x = y \/ <<x, y>> \in Q \/ <<y, x>> \in Q
Below(V, Q, x) == {y \in V : <<y, x>> \in Q}

\* The later an element, the more are before it.
LEMMA RankGrows ==
    ASSUME NEW V, IsFiniteSet(V), NEW Q, Order(V, Q), NEW x \in V, NEW y \in V, <<x, y>> \in Q
    PROVE  /\ Cardinality(Below(V, Q, x)) \in Nat /\ Cardinality(Below(V, Q, y)) \in Nat
           /\ Cardinality(Below(V, Q, x)) < Cardinality(Below(V, Q, y))
<1>1. Below(V, Q, x) \subseteq Below(V, Q, y) /\ x \in Below(V, Q, y) /\ x \notin Below(V, Q, x)
    BY DEF Order, Below
<1>2. IsFiniteSet(Below(V, Q, y)) /\ Cardinality(Below(V, Q, y)) \in Nat
  <2>1. Below(V, Q, y) \in SUBSET V
      BY DEF Below
  <2>2. IsFiniteSet(Below(V, Q, y))
      BY <2>1, FS_Subset
  <2> QED BY <2>2, FS_CardinalityType
<1>3. Below(V, Q, x) \in SUBSET Below(V, Q, y) /\ Below(V, Q, x) # Below(V, Q, y)
    BY <1>1
<1>4. /\ IsFiniteSet(Below(V, Q, x)) /\ Cardinality(Below(V, Q, x)) <= Cardinality(Below(V, Q, y))
      /\ Cardinality(Below(V, Q, x)) = Cardinality(Below(V, Q, y)) => Below(V, Q, x) = Below(V, Q, y)
    BY <1>2, <1>3, FS_Subset
<1>5. Cardinality(Below(V, Q, x)) \in Nat
    BY <1>4, FS_CardinalityType
<1> QED BY <1>2, <1>3, <1>4, <1>5

\* Different elements have different numbers before them.
LEMMA RankUnique ==
    ASSUME NEW V, IsFiniteSet(V), NEW Q, Order(V, Q), NEW x \in V, NEW y \in V,
           Cardinality(Below(V, Q, x)) = Cardinality(Below(V, Q, y))
    PROVE  x = y
<1>1. x = y \/ <<x, y>> \in Q \/ <<y, x>> \in Q
    BY DEF Order
<1>2. ASSUME <<x, y>> \in Q PROVE FALSE
  <2>1. /\ Cardinality(Below(V, Q, x)) \in Nat /\ Cardinality(Below(V, Q, y)) \in Nat
        /\ Cardinality(Below(V, Q, x)) < Cardinality(Below(V, Q, y))
      BY <1>2, RankGrows
  <2> QED BY <2>1
<1>3. ASSUME <<y, x>> \in Q PROVE FALSE
  <2>1. /\ Cardinality(Below(V, Q, x)) \in Nat /\ Cardinality(Below(V, Q, y)) \in Nat
        /\ Cardinality(Below(V, Q, y)) < Cardinality(Below(V, Q, x))
      BY <1>3, RankGrows
  <2> QED BY <2>1
<1> QED BY <1>1, <1>2, <1>3

\* There are fewer before an element than there are in all.
LEMMA RankBounded ==
    ASSUME NEW V, IsFiniteSet(V), NEW Q, Order(V, Q), NEW x \in V
    PROVE  /\ Cardinality(V) \in Nat /\ IsFiniteSet(Below(V, Q, x))
           /\ Cardinality(Below(V, Q, x)) \in Nat /\ Cardinality(Below(V, Q, x)) < Cardinality(V)
<1>1. Below(V, Q, x) \in SUBSET V /\ Below(V, Q, x) # V
    BY DEF Below, Order
<1>2. /\ IsFiniteSet(Below(V, Q, x)) /\ Cardinality(Below(V, Q, x)) <= Cardinality(V)
      /\ Cardinality(Below(V, Q, x)) = Cardinality(V) => Below(V, Q, x) = V
    BY <1>1, FS_Subset
<1>3. Cardinality(V) \in Nat /\ Cardinality(Below(V, Q, x)) \in Nat
    BY <1>2, FS_CardinalityType
<1> QED BY <1>1, <1>2, <1>3

HasRank(V, Q, k) == \E x \in V : Cardinality(Below(V, Q, x)) = k

\* Every smaller number is the number before some element.
LEMMA RankOnto ==
    ASSUME NEW V, IsFiniteSet(V), NEW Q, Order(V, Q), NEW k \in Nat, k < Cardinality(V)
    PROVE  HasRank(V, Q, k)
<1> DEFINE n == Cardinality(V)
           f == [x \in V |-> Cardinality(Below(V, Q, x)) + 1]
<1>1. n \in Nat
    BY FS_CardinalityType
<1>2. IsFiniteSet(1..n) /\ Cardinality(1..n) = n
  <2> HIDE DEF n
  <2> QED BY <1>1, FirstNumbers
<1>3. ASSUME NEW x \in V
      PROVE  Cardinality(Below(V, Q, x)) + 1 \in 1..n /\ Cardinality(Below(V, Q, x)) \in Nat
  <2>1. Cardinality(Below(V, Q, x)) \in Nat /\ Cardinality(Below(V, Q, x)) < n
      BY RankBounded
  <2> HIDE DEF n
  <2> QED BY <2>1, <1>1
<1>4. f \in [V -> 1..n]
  <2> HIDE DEF n
  <2> QED BY <1>3
<1>5. ASSUME NEW x \in V, NEW y \in V, f[x] = f[y] PROVE x = y
  <2>1. Cardinality(Below(V, Q, x)) = Cardinality(Below(V, Q, y))
      BY <1>3, <1>5
  <2> QED BY <2>1, RankUnique
<1>6. f \in Injection(V, 1..n)
  <2>1. DOMAIN f = V
      OBVIOUS
  <2> HIDE DEF f, n
  <2> QED BY <2>1, <1>4, <1>5 DEF Injection, IsInjective
<1>7. f \in Surjection(V, 1..n)
  <2> HIDE DEF f
  <2> QED BY <1>2, <1>6, FS_Injection
<1>8. k + 1 \in 1..n
  <2> HIDE DEF n
  <2>1. k < n
      BY DEF n
  <2> QED BY <1>1, <2>1
<1>9. PICK x \in V : f[x] = k + 1
  <2> HIDE DEF f, n
  <2> QED BY <1>7, <1>8 DEF Surjection
<1> QED BY <1>3, <1>9 DEF HasRank

\* The elements of V in order: as many are before each as its place says.
Ranked(V, Q, s) ==
    LET n == Cardinality(V)
    IN  /\ s \in Seq(V) /\ Len(s) = n /\ DOMAIN s = 1..n
        /\ \A k \in 1..n : Cardinality(Below(V, Q, s[k])) = k - 1

\* There is one such list.
LEMMA RankedUnique ==
    ASSUME NEW V, IsFiniteSet(V), NEW Q, Order(V, Q), NEW s, NEW t, Ranked(V, Q, s), Ranked(V, Q, t)
    PROVE  s = t
<1>1. PICK n \in Nat : n = Cardinality(V)
    BY FS_CardinalityType
<1>2. /\ s \in Seq(V) /\ DOMAIN s = 1..n /\ \A k \in 1..n : Cardinality(Below(V, Q, s[k])) = k - 1
      /\ t \in Seq(V) /\ DOMAIN t = 1..n /\ \A k \in 1..n : Cardinality(Below(V, Q, t[k])) = k - 1
    BY <1>1 DEF Ranked
<1>3. \A k \in 1..n : s[k] \in V /\ t[k] \in V
    BY <1>2
<1>4. \A k \in 1..n : s[k] = t[k]
    BY <1>2, <1>3, RankUnique
<1>5. s = [k \in 1..n |-> s[k]] /\ t = [k \in 1..n |-> t[k]]
    BY <1>2
<1> QED BY <1>4, <1>5

\* It has every element, and each once.
LEMMA RankedHasAll ==
    ASSUME NEW V, IsFiniteSet(V), NEW Q, Order(V, Q), NEW s, Ranked(V, Q, s)
    PROVE  Distinct(s) /\ \A x \in V : \E k \in DOMAIN s : s[k] = x
<1>1. PICK n \in Nat : n = Cardinality(V)
    BY FS_CardinalityType
<1>2. s \in Seq(V) /\ DOMAIN s = 1..n /\ \A k \in 1..n : Cardinality(Below(V, Q, s[k])) = k - 1
    BY <1>1 DEF Ranked
<1>3. \A k \in 1..n : s[k] \in V
    BY <1>2
<1>4. Distinct(s)
  <2> SUFFICES ASSUME NEW i \in 1..n, NEW j \in 1..n, s[i] = s[j] PROVE i = j
      BY <1>2 DEF Distinct
  <2>1. i - 1 = j - 1
      BY <1>2
  <2> QED BY <2>1
<1>5. ASSUME NEW x \in V PROVE \E k \in DOMAIN s : s[k] = x
  <2>1. PICK r \in Nat : r = Cardinality(Below(V, Q, x)) /\ r < n
      BY <1>1, RankBounded
  <2>2. r + 1 \in 1..n /\ (r + 1) - 1 = r
      BY <2>1
  <2>3. Cardinality(Below(V, Q, s[r + 1])) = r /\ s[r + 1] \in V
      BY <2>2, <1>2, <1>3
  <2>4. s[r + 1] = x
      BY <2>1, <2>3, RankUnique
  <2> QED BY <2>2, <2>4, <1>2
<1> QED BY <1>4, <1>5

-------------------------------------------------------------------------------
(* Sums over finite sets                                                      *)

\* What the elements of S have, f, summed over every part of S.
Sums(f, S, g) ==
    /\ g \in [SUBSET S -> Int] /\ g[{}] = 0
    /\ \A s \in SUBSET S : \A x \in s : g[s] = f[x] + g[s \ {x}]
Numbers(f, S) == \A x \in S : f[x] \in Int

\* One element less.
LEMMA OneLess ==
    ASSUME NEW S, IsFiniteSet(S), NEW n \in Nat, Cardinality(S) = n + 1, NEW x \in S
    PROVE  IsFiniteSet(S \ {x}) /\ Cardinality(S \ {x}) = n
<1>1. IsFiniteSet(S \ {x}) /\ Cardinality(S \ {x}) = Cardinality(S) - 1
    BY FS_RemoveElement
<1> QED BY <1>1

\* A set without elements.
LEMMA NoElements ==
    ASSUME NEW S, IsFiniteSet(S), Cardinality(S) = 0
    PROVE  S = {}
BY FS_EmptySet

\* The sums exist.
LEMMA SumsExist ==
    ASSUME NEW S, IsFiniteSet(S), NEW f, Numbers(f, S)
    PROVE  \E g : Sums(f, S, g)
<1> DEFINE Has(n) == \A T \in SUBSET S :
                        IsFiniteSet(T) /\ Cardinality(T) = n => \E g : Sums(f, T, g)
           N == {n \in Nat : Has(n)}
<1>1. Has(0)
  <2> SUFFICES ASSUME NEW T \in SUBSET S, IsFiniteSet(T), Cardinality(T) = 0
               PROVE  \E g : Sums(f, T, g)
      OBVIOUS
  <2>1. T = {}
      BY NoElements
  <2> DEFINE g == [s \in SUBSET T |-> 0]
  <2>2. Sums(f, T, g)
      BY <2>1 DEF Sums
  <2> QED BY <2>2
<1>2. ASSUME NEW n \in Nat, Has(n) PROVE Has(n + 1)
  <2> SUFFICES ASSUME NEW T \in SUBSET S, IsFiniteSet(T), Cardinality(T) = n + 1
               PROVE  \E g : Sums(f, T, g)
      OBVIOUS
  <2>1. PICK y \in T : TRUE
    <3>1. T # {}
        BY FS_EmptySet
    <3> QED BY <3>1
  <2>2. IsFiniteSet(T \ {y}) /\ Cardinality(T \ {y}) = n /\ T \ {y} \in SUBSET S
      BY OneLess
  <2>3. PICK g : Sums(f, T \ {y}, g)
      BY <1>2, <2>2
  <2>4. /\ g \in [SUBSET (T \ {y}) -> Int] /\ g[{}] = 0 /\ f[y] \in Int
        /\ \A s \in SUBSET (T \ {y}) : \A x \in s : g[s] = f[x] + g[s \ {x}]
      BY <2>3 DEF Sums, Numbers
  <2> DEFINE h == [s \in SUBSET T |-> IF y \in s THEN f[y] + g[s \ {y}] ELSE g[s]]
  <2>5. \A s \in SUBSET T : s \ {y} \in SUBSET (T \ {y}) /\ (y \notin s => s \ {y} = s)
      OBVIOUS
  <2>6. h \in [SUBSET T -> Int] /\ h[{}] = 0
    <3>1. {} \in SUBSET T /\ h[{}] = 0
        BY <2>4
    <3>2. ASSUME NEW s \in SUBSET T PROVE h[s] \in Int
      <4>1. g[s \ {y}] \in Int
          BY <2>4, <2>5
      <4> QED BY <4>1, <2>4, <2>5
    <3> QED BY <3>1, <3>2
  <2>7. ASSUME NEW s \in SUBSET T, NEW x \in s PROVE h[s] = f[x] + h[s \ {x}]
    <3>1. s \ {x} \in SUBSET T
        OBVIOUS
    <3>2. CASE x = y
      <4>1. h[s] = f[y] + g[s \ {y}] /\ h[s \ {x}] = g[s \ {y}]
          BY <3>1, <3>2
      <4> QED BY <4>1, <3>2
    <3>3. CASE x # y /\ y \in s
      <4>1. x \in s \ {y} /\ (s \ {y}) \ {x} = (s \ {x}) \ {y} /\ y \in s \ {x}
          BY <3>3
      <4>2. h[s] = f[y] + g[s \ {y}] /\ h[s \ {x}] = f[y] + g[(s \ {x}) \ {y}]
          BY <3>1, <3>3, <4>1
      <4>3. g[s \ {y}] = f[x] + g[(s \ {x}) \ {y}]
          BY <2>4, <2>5, <4>1
      <4>4. g[(s \ {x}) \ {y}] \in Int /\ f[x] \in Int
          BY <2>4, <2>5, <3>1 DEF Numbers
      <4> QED BY <4>2, <4>3, <4>4, <2>4
    <3>4. CASE y \notin s
      <4>1. s \in SUBSET (T \ {y}) /\ y \notin s \ {x}
          BY <3>4
      <4>2. h[s] = g[s] /\ h[s \ {x}] = g[s \ {x}]
          BY <3>1, <3>4, <4>1
      <4> QED BY <4>1, <4>2, <2>4
    <3> QED BY <3>2, <3>3, <3>4
  <2> HIDE DEF h
  <2>8. Sums(f, T, h)
      BY <2>6, <2>7 DEF Sums
  <2> QED BY <2>8
<1>3. \A n \in Nat : n \in N
  <2>1. 0 \in N
      BY <1>1
  <2>2. \A n \in Nat : n \in N => n + 1 \in N
    <3> HIDE DEF Has
    <3> QED BY <1>2
  <2> HIDE DEF N
  <2> QED BY <2>1, <2>2, Induction
<1>4. Cardinality(S) \in Nat /\ S \in SUBSET S
    BY FS_CardinalityType
<1> QED BY <1>3, <1>4

\* They are the same for all that agree on the elements.
LEMMA SumsUnique ==
    ASSUME NEW S, IsFiniteSet(S), NEW T, S \subseteq T, NEW f, NEW h, \A x \in S : f[x] = h[x],
           NEW g, NEW k, Sums(f, S, g), Sums(h, T, k)
    PROVE  g[S] = k[S]
<1> DEFINE Agree(n) == \A s \in SUBSET S : IsFiniteSet(s) /\ Cardinality(s) = n => g[s] = k[s]
           N == {n \in Nat : Agree(n)}
<1>1. Agree(0)
  <2> SUFFICES ASSUME NEW s \in SUBSET S, IsFiniteSet(s), Cardinality(s) = 0 PROVE g[s] = k[s]
      OBVIOUS
  <2>1. s = {}
      BY NoElements
  <2> QED BY <2>1 DEF Sums
<1>2. ASSUME NEW n \in Nat, Agree(n) PROVE Agree(n + 1)
  <2> SUFFICES ASSUME NEW s \in SUBSET S, IsFiniteSet(s), Cardinality(s) = n + 1
               PROVE  g[s] = k[s]
      OBVIOUS
  <2>1. PICK x \in s : TRUE
    <3>1. s # {}
        BY FS_EmptySet
    <3> QED BY <3>1
  <2>2. IsFiniteSet(s \ {x}) /\ Cardinality(s \ {x}) = n /\ s \ {x} \in SUBSET S
      BY OneLess
  <2>3. g[s \ {x}] = k[s \ {x}] /\ f[x] = h[x] /\ s \in SUBSET T
      BY <1>2, <2>2
  <2>4. g[s] = f[x] + g[s \ {x}] /\ k[s] = h[x] + k[s \ {x}]
      BY <2>3 DEF Sums
  <2> QED BY <2>3, <2>4
<1>3. \A n \in Nat : n \in N
  <2>1. 0 \in N
      BY <1>1
  <2>2. \A n \in Nat : n \in N => n + 1 \in N
    <3> HIDE DEF Agree
    <3> QED BY <1>2
  <2> HIDE DEF N
  <2> QED BY <2>1, <2>2, Induction
<1>4. Cardinality(S) \in Nat /\ S \in SUBSET S
    BY FS_CardinalityType
<1> QED BY <1>3, <1>4

\* SumFunctionOnSet is such a sum.
LEMMA SumIs ==
    ASSUME NEW S, IsFiniteSet(S), NEW f, Numbers(f, S)
    PROVE  \E g : Sums(f, S, g) /\ SumFunctionOnSet(f, S) = g[S]
<1> DEFINE First(s) == CHOOSE x \in s : TRUE
           Rec(g) == g = [s \in SUBSET S |->
                            IF s = {} THEN 0 ELSE f[First(s)] + g[s \ {First(s)}]]
           it == CHOOSE g : Rec(g)
<1>1. PICK g : Sums(f, S, g)
    BY SumsExist
<1>2. \A s \in SUBSET S : s # {} => First(s) \in s
    OBVIOUS
<1> HIDE DEF First
<1>3. Rec(g)
  <2> SUFFICES ASSUME NEW s \in SUBSET S
               PROVE  g[s] = IF s = {} THEN 0 ELSE f[First(s)] + g[s \ {First(s)}]
      BY <1>1 DEF Sums
  <2> QED BY <1>1, <1>2 DEF Sums
<1>4. Rec(it)
  <2> HIDE DEF Rec
  <2> QED BY <1>3
<1>5. SumFunctionOnSet(f, S) = it[S]
    BY DEF SumFunctionOnSet, FoldFunctionOnSet, MapThenFoldSet, First
<1>6. ASSUME NEW s \in SUBSET S
      PROVE  it[s] = IF s = {} THEN 0 ELSE f[First(s)] + it[s \ {First(s)}]
  <2> HIDE DEF it
  <2> QED BY <1>4
<1> HIDE DEF it, Rec
<1> DEFINE Agree(n) == \A s \in SUBSET S : IsFiniteSet(s) /\ Cardinality(s) = n => it[s] = g[s]
           N == {n \in Nat : Agree(n)}
<1>7. Agree(0)
  <2> SUFFICES ASSUME NEW s \in SUBSET S, IsFiniteSet(s), Cardinality(s) = 0 PROVE it[s] = g[s]
      OBVIOUS
  <2>1. s = {}
      BY NoElements
  <2> QED BY <2>1, <1>1, <1>6 DEF Sums
<1>8. ASSUME NEW n \in Nat, Agree(n) PROVE Agree(n + 1)
  <2> SUFFICES ASSUME NEW s \in SUBSET S, IsFiniteSet(s), Cardinality(s) = n + 1
               PROVE  it[s] = g[s]
      OBVIOUS
  <2>1. s # {} /\ First(s) \in s
    <3>1. s # {}
        BY FS_EmptySet
    <3> QED BY <3>1, <1>2
  <2>2. PICK x \in s : x = First(s)
      BY <2>1
  <2>3. IsFiniteSet(s \ {x}) /\ Cardinality(s \ {x}) = n /\ s \ {x} \in SUBSET S
      BY OneLess
  <2>4. it[s \ {x}] = g[s \ {x}]
      BY <1>8, <2>3
  <2>5. it[s] = f[x] + it[s \ {x}]
      BY <1>6, <2>1, <2>2
  <2>6. g[s] = f[x] + g[s \ {x}]
      BY <1>1 DEF Sums
  <2> QED BY <2>4, <2>5, <2>6
<1>9. \A n \in Nat : n \in N
  <2>1. 0 \in N
      BY <1>7
  <2>2. \A n \in Nat : n \in N => n + 1 \in N
    <3> HIDE DEF Agree
    <3> QED BY <1>8
  <2> HIDE DEF N
  <2> QED BY <2>1, <2>2, Induction
<1>10. Cardinality(S) \in Nat /\ S \in SUBSET S
    BY FS_CardinalityType
<1>11. it[S] = g[S]
    BY <1>9, <1>10
<1> QED BY <1>1, <1>5, <1>11

\* The sum is an integer, and that of nothing is zero.
LEMMA SumType ==
    ASSUME NEW S, IsFiniteSet(S), NEW f, Numbers(f, S)
    PROVE  SumFunctionOnSet(f, S) \in Int /\ (S = {} => SumFunctionOnSet(f, S) = 0)
<1>1. PICK g : Sums(f, S, g) /\ SumFunctionOnSet(f, S) = g[S]
    BY SumIs
<1>2. S \in SUBSET S
    OBVIOUS
<1> QED BY <1>1, <1>2 DEF Sums

\* The sum looks at the elements only.
LEMMA SumSame ==
    ASSUME NEW S, IsFiniteSet(S), NEW f, NEW h, Numbers(f, S), \A x \in S : f[x] = h[x]
    PROVE  SumFunctionOnSet(h, S) = SumFunctionOnSet(f, S)
<1>1. Numbers(h, S)
    BY DEF Numbers
<1>2. PICK g : Sums(f, S, g) /\ SumFunctionOnSet(f, S) = g[S]
    BY SumIs
<1>3. PICK k : Sums(h, S, k) /\ SumFunctionOnSet(h, S) = k[S]
    BY <1>1, SumIs
<1> QED BY <1>2, <1>3, SumsUnique

\* One more element adds what it has.
LEMMA SumOneMore ==
    ASSUME NEW S, IsFiniteSet(S), NEW e, e \notin S, NEW f, NEW h, Numbers(f, S), h[e] \in Int,
           \A x \in S : f[x] = h[x]
    PROVE  /\ SumFunctionOnSet(f, S) \in Int
           /\ SumFunctionOnSet(h, S \cup {e}) = SumFunctionOnSet(f, S) + h[e]
<1> DEFINE T == S \cup {e}
<1>1. IsFiniteSet(T)
    BY FS_AddElement
<1>2. Numbers(h, T)
    BY DEF Numbers
<1>3. PICK g : Sums(f, S, g) /\ SumFunctionOnSet(f, S) = g[S]
    BY SumIs
<1>4. PICK k : Sums(h, T, k) /\ SumFunctionOnSet(h, T) = k[T]
  <2> HIDE DEF T
  <2> QED BY <1>1, <1>2, SumIs
<1>5. S \subseteq T
    OBVIOUS
<1>6. g[S] = k[S]
  <2> HIDE DEF T
  <2> QED BY <1>3, <1>4, <1>5, SumsUnique
<1>7. T \in SUBSET T /\ e \in T /\ T \ {e} = S
    OBVIOUS
<1>8. k[T] = h[e] + k[S]
  <2> HIDE DEF T
  <2> QED BY <1>4, <1>7 DEF Sums
<1>9. SumFunctionOnSet(f, S) \in Int
    BY SumType
<1> QED BY <1>3, <1>4, <1>6, <1>8, <1>9

-------------------------------------------------------------------------------
(* FlattenSeq                                                                 *)

\* A multiple and a rest are a number.
LEMMA Affine == \A a, m, b \in Nat : a * m \in Nat /\ a * m + b \in Nat
<1> SUFFICES ASSUME NEW a \in Nat, NEW m \in Nat, NEW b \in Nat
             PROVE  a * m \in Nat /\ a * m + b \in Nat
    OBVIOUS
<1>1. PICK c \in Nat : c = a * m
    OBVIOUS
<1> QED BY <1>1

\* A function on the first numbers is a sequence.
LEMMA IsSequence ==
    ASSUME NEW X, NEW n \in Nat, NEW s \in [1..n -> X]
    PROVE  s \in Seq(X) /\ Len(s) = n /\ DOMAIN s = 1..n
<1>1. s \in Seq(X)
    BY SeqDef
<1> QED BY <1>1, LenProperties

\* What flattening the first sequences gives.
Flattening(X, n, seqs) ==
    \E g \in [1..n -> Seq(X)] :
       g[1] = seqs[1] /\ (\A k \in 2..n : g[k] = g[k - 1] \o seqs[k]) /\ FlattenSeq(seqs) = g[n]

\* Sequences are flattened one after the other.
LEMMA FlattenTrace ==
    ASSUME NEW X, NEW n \in Nat, n > 0, NEW seqs \in [1..n -> Seq(X)]
    PROVE  Flattening(X, n, seqs)
<1> DEFINE Q(m, g) == \A k \in 1..m : g[k] = IF k = 1 THEN seqs[k] ELSE g[k - 1] \o seqs[k]
           Has(m) == \E g \in [1..m -> Seq(X)] : Q(m, g)
           S == {m \in Nat : m <= n => Has(m)}
           Rec(g) == g = [k \in 1..n |-> IF k = 1 THEN seqs[k] ELSE g[k - 1] \o seqs[k]]
           it == CHOOSE g : Rec(g)
<1>1. 0 \in S
  <2> DEFINE g == [k \in 1..0 |-> seqs[1]]
  <2>1. 1..0 = {}
      OBVIOUS
  <2>2. g \in [1..0 -> Seq(X)] /\ Q(0, g)
      BY <2>1
  <2> QED BY <2>2
<1>2. ASSUME NEW m \in Nat, m \in S PROVE m + 1 \in S
  <2>1. SUFFICES ASSUME m + 1 <= n PROVE Has(m + 1)
    <3> HIDE DEF Has
    <3> QED OBVIOUS
  <2>2. Has(m)
    <3> HIDE DEF Has
    <3> QED BY <1>2, <2>1
  <2>3. PICK g \in [1..m -> Seq(X)] : Q(m, g)
      BY <2>2
  <2> DEFINE h == [k \in 1..m + 1 |->
                     IF k \in 1..m THEN g[k]
                     ELSE IF k = 1 THEN seqs[k] ELSE g[k - 1] \o seqs[k]]
  <2>4. h \in [1..m + 1 -> Seq(X)]
    <3> SUFFICES ASSUME NEW k \in 1..m + 1 PROVE h[k] \in Seq(X)
        OBVIOUS
    <3>1. CASE k \in 1..m
        BY <3>1
    <3>2. CASE k \notin 1..m /\ k = 1
        BY <2>1, <3>2
    <3>3. CASE k \notin 1..m /\ k # 1
      <4>1. k - 1 \in 1..m /\ k \in 1..n
          BY <2>1, <3>3
      <4>2. g[k - 1] \in Seq(X) /\ seqs[k] \in Seq(X)
          BY <4>1
      <4>3. h[k] = g[k - 1] \o seqs[k]
          BY <3>3
      <4> QED BY <4>2, <4>3, ConcatProperties
    <3> QED BY <3>1, <3>2, <3>3
  <2>5. Q(m + 1, h)
    <3> SUFFICES ASSUME NEW k \in 1..m + 1
                 PROVE  h[k] = IF k = 1 THEN seqs[k] ELSE h[k - 1] \o seqs[k]
        OBVIOUS
    <3>1. k = 1 \/ (k - 1 \in 1..m /\ h[k - 1] = g[k - 1])
        OBVIOUS
    <3>2. CASE k \in 1..m
        BY <3>1, <3>2, <2>3
    <3>3. CASE k \notin 1..m
        BY <3>1, <3>3
    <3> QED BY <3>2, <3>3
  <2> HIDE DEF h, Q
  <2> QED BY <2>4, <2>5
<1>3. \A m \in Nat : m \in S
  <2> HIDE DEF S
  <2> QED BY <1>1, <1>2, Induction
<1>4. Has(n)
  <2> HIDE DEF Has
  <2> QED BY <1>3
<1>5. PICK h \in [1..n -> Seq(X)] : Q(n, h)
    BY <1>4
<1>6. Rec(h)
    BY <1>5
<1>7. Rec(it)
  <2> HIDE DEF Rec
  <2> QED BY <1>6
<1>8. Len(seqs) = n
    BY IsSequence
<1>9. FlattenSeq(seqs) = it[n]
    BY <1>8 DEF FlattenSeq
<1>10. \A k \in 1..n : it[k] = IF k = 1 THEN seqs[k] ELSE it[k - 1] \o seqs[k]
  <2> HIDE DEF it
  <2> QED BY <1>7
<1> HIDE DEF it
<1>11. DOMAIN it = 1..n
    BY <1>7
<1>12. it[1] = seqs[1] /\ \A k \in 2..n : it[k] = it[k - 1] \o seqs[k]
  <2>1. 1 \in 1..n
      OBVIOUS
  <2>2. it[1] = seqs[1]
      BY <2>1, <1>10
  <2>3. ASSUME NEW k \in 2..n PROVE it[k] = it[k - 1] \o seqs[k]
    <3>1. k \in 1..n /\ k # 1
        OBVIOUS
    <3> QED BY <3>1, <1>10
  <2> QED BY <2>2, <2>3
<1> DEFINE T == {m \in Nat : m + 1 <= n => it[m + 1] \in Seq(X)}
<1>13. 0 \in T
    BY <1>12
<1>14. ASSUME NEW m \in Nat, m \in T PROVE m + 1 \in T
  <2> SUFFICES ASSUME m + 1 + 1 <= n PROVE it[m + 1 + 1] \in Seq(X)
      OBVIOUS
  <2>1. /\ it[m + 1] \in Seq(X) /\ m + 1 + 1 \in 2..n /\ m + 1 + 1 \in 1..n
        /\ (m + 1 + 1) - 1 = m + 1
      BY <1>14
  <2>2. it[m + 1 + 1] = it[m + 1] \o seqs[m + 1 + 1] /\ seqs[m + 1 + 1] \in Seq(X)
      BY <2>1, <1>12
  <2> QED BY <2>1, <2>2, ConcatProperties
<1>15. \A m \in Nat : m \in T
  <2> HIDE DEF T
  <2> QED BY <1>13, <1>14, Induction
<1>16. ASSUME NEW k \in 1..n PROVE it[k] \in Seq(X)
  <2>1. k - 1 \in Nat /\ (k - 1) + 1 = k
      OBVIOUS
  <2>2. k - 1 \in T
      BY <2>1, <1>15
  <2> QED BY <2>1, <2>2
<1>17. it \in [1..n -> Seq(X)]
  <2>1. it = [k \in 1..n |-> it[k]]
      BY <1>7
  <2> QED BY <2>1, <1>16
<1> QED BY <1>9, <1>12, <1>17 DEF Flattening

\* The list of n rows of m elements each, row after row.
Grid(X, n, m, rows, list) ==
    /\ list \in Seq(X) /\ Len(list) = n * m
    /\ \A i \in 1..n, j \in 1..m : list[(i - 1) * m + j] = rows[i][j]

\* Sequences of one length: where each element goes.
LEMMA FlattenEqual ==
    ASSUME NEW X, NEW n \in Nat, n > 0, NEW m \in Nat, NEW seqs \in [1..n -> Seq(X)],
           \A i \in 1..n : Len(seqs[i]) = m
    PROVE  Grid(X, n, m, seqs, FlattenSeq(seqs))
<1>1. PICK g \in [1..n -> Seq(X)] :
         g[1] = seqs[1] /\ (\A k \in 2..n : g[k] = g[k - 1] \o seqs[k]) /\ FlattenSeq(seqs) = g[n]
  <2>1. Flattening(X, n, seqs)
      BY FlattenTrace
  <2> QED BY <2>1 DEF Flattening
<1> DEFINE Holds(k) == /\ Len(g[k]) = k * m
                       /\ \A i \in 1..k, j \in 1..m : g[k][(i - 1) * m + j] = seqs[i][j]
           S == {k \in Nat : k + 1 <= n => Holds(k + 1)}
<1>2. 0 \in S
  <2>1. Len(g[1]) = 1 * m
      BY <1>1
  <2>2. ASSUME NEW i \in 1..1, NEW j \in 1..m PROVE g[1][(i - 1) * m + j] = seqs[i][j]
    <3>1. i = 1 /\ (i - 1) * m + j = j
        OBVIOUS
    <3> QED BY <1>1, <3>1
  <2>3. 0 + 1 = 1
      OBVIOUS
  <2>4. Holds(0 + 1)
      BY <2>1, <2>2, <2>3
  <2> HIDE DEF Holds
  <2> QED BY <2>4
<1>3. ASSUME NEW l \in Nat, l \in S PROVE l + 1 \in S
  <2>1. SUFFICES ASSUME l + 1 + 1 <= n PROVE Holds(l + 1 + 1)
    <3> HIDE DEF Holds
    <3> QED OBVIOUS
  <2>2. Holds(l + 1)
    <3> HIDE DEF Holds
    <3> QED BY <1>3, <2>1
  <2>3. PICK k \in Nat : k = l + 1 /\ k >= 1 /\ k + 1 <= n
      BY <2>1
  <2>4. PICK km \in Nat : km = k * m
      OBVIOUS
  <2>5. (k + 1) * m = km + m
      BY <2>4
  <2>6. k \in 1..n /\ k + 1 \in 1..n /\ k + 1 \in 2..n /\ (k + 1) - 1 = k
      BY <2>3
  <2>7. g[k] \in Seq(X) /\ seqs[k + 1] \in Seq(X) /\ g[k + 1] = g[k] \o seqs[k + 1]
      BY <2>6, <1>1
  <2>8. Len(g[k]) = km /\ Len(seqs[k + 1]) = m
      BY <2>2, <2>3, <2>4, <2>6
  <2>9. /\ Len(g[k + 1]) = km + m
        /\ \A r \in 1..km + m : g[k + 1][r] = IF r <= km THEN g[k][r] ELSE seqs[k + 1][r - km]
    <3>1. PICK a \in Seq(X), b \in Seq(X) : a = g[k] /\ b = seqs[k + 1]
        BY <2>7
    <3>2. /\ Len(a \o b) = Len(a) + Len(b)
          /\ \A r \in 1..Len(a) + Len(b) :
                (a \o b)[r] = IF r <= Len(a) THEN a[r] ELSE b[r - Len(a)]
        BY ConcatProperties
    <3> QED BY <2>7, <2>8, <3>1, <3>2
  <2>10. ASSUME NEW i \in 1..k + 1, NEW j \in 1..m PROVE g[k + 1][(i - 1) * m + j] = seqs[i][j]
    <3>1. PICK r \in Nat : r = (i - 1) * m + j
      <4>1. i - 1 \in Nat /\ j \in Nat
          OBVIOUS
      <4> QED BY <4>1, Affine
    <3>2. CASE i = k + 1
      <4>1. r = km + j
          BY <2>4, <3>1, <3>2
      <4>2. r \in 1..km + m /\ ~(r <= km) /\ r - km = j
          BY <4>1
      <4> QED BY <4>2, <2>9, <3>1, <3>2
    <3>3. CASE i # k + 1
      <4>1. i \in 1..k
          BY <3>3
      <4>2. (i - 1) * m <= (k - 1) * m
        <5>1. \A a, b \in Nat : a <= b => a * m <= b * m
            OBVIOUS
        <5>2. i - 1 \in Nat /\ k - 1 \in Nat /\ i - 1 <= k - 1
            BY <4>1
        <5> QED BY <5>1, <5>2
      <4>3. (k - 1) * m = km - m
          BY <2>4
      <4>4. r \in 1..km + m /\ r <= km
        <5>1. PICK im \in Nat : im = (i - 1) * m
          <6>1. \A a \in Nat : a * m \in Nat
              OBVIOUS
          <6>2. i - 1 \in Nat
              OBVIOUS
          <6> QED BY <6>1, <6>2
        <5>2. im <= km - m /\ r = im + j
            BY <4>2, <4>3, <3>1, <5>1
        <5> QED BY <5>2
      <4>5. g[k][(i - 1) * m + j] = seqs[i][j]
          BY <2>2, <2>3, <4>1
      <4> QED BY <4>4, <4>5, <2>9, <3>1
    <3> QED BY <3>2, <3>3
  <2>11. Len(g[k + 1]) = (k + 1) * m
      BY <2>5, <2>9
  <2>12. Holds(k + 1)
      BY <2>10, <2>11
  <2> HIDE DEF Holds
  <2> QED BY <2>3, <2>12
<1>4. \A k \in Nat : k \in S
  <2> HIDE DEF S
  <2> QED BY <1>2, <1>3, Induction
<1>5. Holds(n)
  <2>1. n - 1 \in Nat /\ (n - 1) + 1 = n
      OBVIOUS
  <2>2. n - 1 \in S
      BY <2>1, <1>4
  <2> HIDE DEF Holds
  <2> QED BY <2>1, <2>2
<1> QED BY <1>1, <1>5 DEF Grid

\* Every element comes from one of the sequences, and those of the first are there.
LEMMA FlattenFrom ==
    ASSUME NEW X, NEW n \in Nat, n > 0, NEW seqs \in [1..n -> Seq(X)]
    PROVE  /\ FlattenSeq(seqs) \in Seq(X) /\ Len(FlattenSeq(seqs)) >= Len(seqs[1])
           /\ \A r \in 1..Len(FlattenSeq(seqs)) :
                 \E i \in 1..n : \E j \in 1..Len(seqs[i]) : FlattenSeq(seqs)[r] = seqs[i][j]
<1>1. PICK g \in [1..n -> Seq(X)] :
         g[1] = seqs[1] /\ (\A k \in 2..n : g[k] = g[k - 1] \o seqs[k]) /\ FlattenSeq(seqs) = g[n]
  <2>1. Flattening(X, n, seqs)
      BY FlattenTrace
  <2> QED BY <2>1 DEF Flattening
<1> DEFINE From(x) == \E i \in 1..n : \E j \in 1..Len(seqs[i]) : x = seqs[i][j]
           Holds(k) == Len(g[k]) >= Len(seqs[1]) /\ \A r \in 1..Len(g[k]) : From(g[k][r])
           S == {k \in Nat : k + 1 <= n => Holds(k + 1)}
<1>2. 0 \in S
  <2>1. 1 \in 1..n /\ 0 + 1 = 1 /\ seqs[1] \in Seq(X)
      OBVIOUS
  <2>2. Len(seqs[1]) \in Nat
      BY <2>1, LenProperties
  <2>3. ASSUME NEW r \in 1..Len(g[1]) PROVE From(g[1][r])
      BY <1>1, <2>1
  <2>4. Holds(0 + 1)
    <3> HIDE DEF From
    <3> QED BY <1>1, <2>1, <2>2, <2>3
  <2> HIDE DEF Holds
  <2> QED BY <2>4
<1>3. ASSUME NEW l \in Nat, l \in S PROVE l + 1 \in S
  <2>1. SUFFICES ASSUME l + 1 + 1 <= n PROVE Holds(l + 1 + 1)
    <3> HIDE DEF Holds
    <3> QED OBVIOUS
  <2>2. Holds(l + 1)
    <3> HIDE DEF Holds
    <3> QED BY <1>3, <2>1
  <2>3. PICK k \in Nat : k = l + 1 /\ k >= 1 /\ k + 1 <= n
      BY <2>1
  <2>4. k \in 1..n /\ k + 1 \in 1..n /\ k + 1 \in 2..n /\ (k + 1) - 1 = k
      BY <2>3
  <2>5. g[k] \in Seq(X) /\ seqs[k + 1] \in Seq(X) /\ g[k + 1] = g[k] \o seqs[k + 1]
      BY <2>4, <1>1
  <2>6. PICK km \in Nat, m \in Nat, m1 \in Nat :
           km = Len(g[k]) /\ m = Len(seqs[k + 1]) /\ m1 = Len(seqs[1])
    <3>1. seqs[1] \in Seq(X)
        BY <2>4
    <3> QED BY <2>5, <3>1, LenProperties
  <2>7. /\ Len(g[k + 1]) = km + m
        /\ \A r \in 1..km + m : g[k + 1][r] = IF r <= km THEN g[k][r] ELSE seqs[k + 1][r - km]
    <3>1. PICK a \in Seq(X), b \in Seq(X) : a = g[k] /\ b = seqs[k + 1]
        BY <2>5
    <3>2. /\ Len(a \o b) = Len(a) + Len(b)
          /\ \A r \in 1..Len(a) + Len(b) :
                (a \o b)[r] = IF r <= Len(a) THEN a[r] ELSE b[r - Len(a)]
        BY ConcatProperties
    <3> QED BY <2>5, <2>6, <3>1, <3>2
  <2>8. Holds(k)
      BY <2>2, <2>3
  <2>9. Len(g[k + 1]) >= Len(seqs[1])
    <3>1. km >= m1
      <4> HIDE DEF From
      <4> QED BY <2>6, <2>8
    <3>2. km + m >= m1
        BY <3>1
    <3> QED BY <3>2, <2>6, <2>7
  <2>10. ASSUME NEW r \in 1..Len(g[k + 1]) PROVE From(g[k + 1][r])
    <3>0. r \in 1..km + m
        BY <2>7
    <3>1. CASE r <= km
      <4>1. r \in 1..km /\ g[k + 1][r] = g[k][r]
          BY <3>0, <3>1, <2>7
      <4>2. r \in 1..Len(g[k])
          BY <4>1, <2>6
      <4> HIDE DEF From
      <4> QED BY <4>1, <4>2, <2>8
    <3>2. CASE ~(r <= km)
      <4>1. r - km \in 1..m /\ g[k + 1][r] = seqs[k + 1][r - km]
          BY <3>0, <3>2, <2>7
      <4> QED BY <4>1, <2>4, <2>6
    <3> QED BY <3>1, <3>2
  <2>11. Holds(k + 1)
    <3> HIDE DEF From
    <3> QED BY <2>9, <2>10
  <2> HIDE DEF Holds
  <2> QED BY <2>3, <2>11
<1>4. \A k \in Nat : k \in S
  <2> HIDE DEF S
  <2> QED BY <1>2, <1>3, Induction
<1>5. Holds(n)
  <2>1. n - 1 \in Nat /\ (n - 1) + 1 = n
      OBVIOUS
  <2>2. n - 1 \in S
      BY <2>1, <1>4
  <2> HIDE DEF Holds
  <2> QED BY <2>1, <2>2
<1> QED BY <1>1, <1>5
===============================================================================
