----------------------------- MODULE LayoutProofs ------------------------------
(* Where keys live, for any number of hashes, daemons and partitions: clients *)
(* and daemons find a key in the same region, the regions of every subspace   *)
(* tile its space and have the replicas they should, and the strategies of    *)
(* placement-core depend neither on the order of the daemons nor, a newcomer  *)
(* aside, on who else has joined.                                             *)
EXTENDS Layout, FoldsAndOrders

-------------------------------------------------------------------------------
(* Sums, products and concatenations: the partial results of a fold, one for  *)
(* each prefix.                                                               *)

\* The partial sums of a list of integers.
LEMMA TotalTrace ==
    ASSUME NEW n \in Nat, NEW f \in [1..n -> Int]
    PROVE  \E g \in [0..n -> Int] :
              g[0] = 0 /\ (\A k \in 1..n : g[k] = g[k - 1] + f[k]) /\ Total(f) = g[n]
<1> DEFINE F == [p \in Int \X Int |-> p[1] + p[2]]
           Rec(g) == g = [s \in SUBSET (1..n) |->
                            IF s = {} THEN 0 ELSE g[s \ {Max(s)}] + f[Max(s)]]
           it == CHOOSE g : Rec(g)
           g == [k \in 0..n |-> it[1..k]]
<1>1. PICK h \in [SUBSET (1..n) -> Int] : \A s \in SUBSET (1..n) :
                h[s] = IF s = {} THEN 0 ELSE F[<<h[s \ {Max(s)}], f[Max(s)]>>]
  <2>1. F \in [Int \X Int -> Int] /\ 0 \in Int
      OBVIOUS
  <2> HIDE DEF F
  <2>2. Folds(Int, F, 0, n, f)
      BY <2>1, FoldExists
  <2> QED BY <2>2 DEF Folds
<1>2. Rec(h)
  <2> SUFFICES ASSUME NEW s \in SUBSET (1..n), s # {}
               PROVE  h[s] = h[s \ {Max(s)}] + f[Max(s)]
      BY <1>1
  <2>1. h[s \ {Max(s)}] \in Int /\ f[Max(s)] \in Int
      BY MaxInSet
  <2>2. h[s] = F[<<h[s \ {Max(s)}], f[Max(s)]>>]
      BY <1>1
  <2> QED BY <2>1, <2>2
<1>3. Rec(it)
  <2> HIDE DEF Rec
  <2> QED BY <1>2
<1>4. Total(f) = it[1..n]
  <2>1. DOMAIN f = 1..n
      OBVIOUS
  <2> QED BY <2>1 DEF Total, FoldLeft, MapThenFoldSet
<1>5. ASSUME NEW s \in SUBSET (1..n)
      PROVE  it[s] = IF s = {} THEN 0 ELSE it[s \ {Max(s)}] + f[Max(s)]
  <2> HIDE DEF it
  <2> QED BY <1>3
<1> HIDE DEF it
<1>6. g[0] = 0
  <2>1. 1..0 = {} /\ {} \in SUBSET (1..n) /\ 0 \in 0..n
      OBVIOUS
  <2>2. it[{}] = 0
      BY <2>1, <1>5
  <2> QED BY <2>1, <2>2
<1>7. ASSUME NEW k \in 1..n PROVE g[k] = g[k - 1] + f[k]
  <2>1. /\ k - 1 \in Nat /\ k = (k - 1) + 1 /\ 1..k \in SUBSET (1..n)
        /\ k - 1 \in 0..n /\ k \in 0..n
      OBVIOUS
  <2>2. Max(1..k) = k /\ (1..k) \ {k} = 1..(k - 1) /\ 1..k # {}
      BY <2>1, MaxOfPrefix
  <2>3. it[1..k] = it[1..(k - 1)] + f[k]
      BY <2>1, <2>2, <1>5
  <2> QED BY <2>1, <2>3
<1>8. ASSUME NEW k \in 0..n PROVE g[k] \in Int
  <2> DEFINE S == {m \in Nat : m <= n => g[m] \in Int}
  <2>1. 0 \in S
      BY <1>6
  <2>2. ASSUME NEW m \in Nat, m \in S PROVE m + 1 \in S
    <3> SUFFICES ASSUME m + 1 <= n PROVE g[m + 1] \in Int
        OBVIOUS
    <3>1. m + 1 \in 1..n /\ (m + 1) - 1 = m /\ g[m] \in Int /\ f[m + 1] \in Int
        BY <2>2
    <3>2. g[m + 1] = g[m] + f[m + 1]
        BY <3>1, <1>7
    <3> QED BY <3>1, <3>2
  <2>3. \A m \in Nat : m \in S
    <3> HIDE DEF S
    <3> QED BY <2>1, <2>2, Induction
  <2>4. k \in Nat /\ k <= n
      OBVIOUS
  <2>5. k \in S
    <3> HIDE DEF S
    <3> QED BY <2>3, <2>4
  <2> QED BY <2>4, <2>5
<1>9. g \in [0..n -> Int] /\ Total(f) = g[n]
    BY <1>4, <1>8
<1> QED BY <1>6, <1>7, <1>9

\* One more number is added to the sum.
LEMMA TotalStep ==
    ASSUME NEW n \in Nat, NEW f \in [1..n + 1 -> Int]
    PROVE  /\ Total([i \in 1..n |-> f[i]]) \in Int
           /\ Total(f) = Total([i \in 1..n |-> f[i]]) + f[n + 1]
<1> DEFINE e == [i \in 1..n |-> f[i]]
<1>1. PICK g \in [0..n -> Int] :
         g[0] = 0 /\ (\A k \in 1..n : g[k] = g[k - 1] + e[k]) /\ Total(e) = g[n]
  <2>1. e \in [1..n -> Int]
      OBVIOUS
  <2> HIDE DEF e
  <2> QED BY <2>1, TotalTrace
<1>2. PICK h \in [0..n + 1 -> Int] :
         h[0] = 0 /\ (\A k \in 1..n + 1 : h[k] = h[k - 1] + f[k]) /\ Total(f) = h[n + 1]
  <2>1. n + 1 \in Nat
      OBVIOUS
  <2> QED BY <2>1, TotalTrace
<1> DEFINE S == {k \in Nat : k <= n => g[k] = h[k]}
<1>3. 0 \in S
    BY <1>1, <1>2
<1>4. ASSUME NEW k \in Nat, k \in S PROVE k + 1 \in S
  <2> SUFFICES ASSUME k + 1 <= n PROVE g[k + 1] = h[k + 1]
      OBVIOUS
  <2>1. k + 1 \in 1..n /\ k + 1 \in 1..n + 1 /\ (k + 1) - 1 = k /\ e[k + 1] = f[k + 1]
      OBVIOUS
  <2>2. g[k + 1] = g[k] + e[k + 1] /\ h[k + 1] = h[k] + f[k + 1]
      BY <2>1, <1>1, <1>2
  <2>3. g[k] = h[k]
      BY <1>4
  <2> QED BY <2>1, <2>2, <2>3
<1>5. \A k \in Nat : k \in S
  <2> HIDE DEF S
  <2> QED BY <1>3, <1>4, Induction
<1>6. g[n] = h[n]
  <2>1. n \in S
      BY <1>5
  <2> QED BY <2>1
<1>7. h[n + 1] = h[n] + f[n + 1]
  <2>1. n + 1 \in 1..n + 1 /\ (n + 1) - 1 = n
      OBVIOUS
  <2> QED BY <1>2, <2>1
<1> QED BY <1>1, <1>2, <1>6, <1>7

\* The partial products of a list of integers.
LEMMA ProductTrace ==
    ASSUME NEW n \in Nat, NEW f \in [1..n -> Int]
    PROVE  \E g \in [0..n -> Int] :
              g[0] = 1 /\ (\A k \in 1..n : g[k] = g[k - 1] * f[k]) /\ Product(f) = g[n]
<1> DEFINE F == [p \in Int \X Int |-> p[1] * p[2]]
           Rec(g) == g = [s \in SUBSET (1..n) |->
                            IF s = {} THEN 1 ELSE g[s \ {Max(s)}] * f[Max(s)]]
           it == CHOOSE g : Rec(g)
           g == [k \in 0..n |-> it[1..k]]
<1>1. PICK h \in [SUBSET (1..n) -> Int] : \A s \in SUBSET (1..n) :
                h[s] = IF s = {} THEN 1 ELSE F[<<h[s \ {Max(s)}], f[Max(s)]>>]
  <2>1. F \in [Int \X Int -> Int] /\ 1 \in Int
      OBVIOUS
  <2> HIDE DEF F
  <2>2. Folds(Int, F, 1, n, f)
      BY <2>1, FoldExists
  <2> QED BY <2>2 DEF Folds
<1>2. Rec(h)
  <2> SUFFICES ASSUME NEW s \in SUBSET (1..n), s # {}
               PROVE  h[s] = h[s \ {Max(s)}] * f[Max(s)]
      BY <1>1
  <2>1. h[s \ {Max(s)}] \in Int /\ f[Max(s)] \in Int
      BY MaxInSet
  <2>2. h[s] = F[<<h[s \ {Max(s)}], f[Max(s)]>>]
      BY <1>1
  <2> QED BY <2>1, <2>2
<1>3. Rec(it)
  <2> HIDE DEF Rec
  <2> QED BY <1>2
<1>4. Product(f) = it[1..n]
  <2>1. DOMAIN f = 1..n
      OBVIOUS
  <2> QED BY <2>1 DEF Product, FoldLeft, MapThenFoldSet
<1>5. ASSUME NEW s \in SUBSET (1..n)
      PROVE  it[s] = IF s = {} THEN 1 ELSE it[s \ {Max(s)}] * f[Max(s)]
  <2> HIDE DEF it
  <2> QED BY <1>3
<1> HIDE DEF it
<1>6. g[0] = 1
  <2>1. 1..0 = {} /\ {} \in SUBSET (1..n) /\ 0 \in 0..n
      OBVIOUS
  <2>2. it[{}] = 1
      BY <2>1, <1>5
  <2> QED BY <2>1, <2>2
<1>7. ASSUME NEW k \in 1..n PROVE g[k] = g[k - 1] * f[k]
  <2>1. /\ k - 1 \in Nat /\ k = (k - 1) + 1 /\ 1..k \in SUBSET (1..n)
        /\ k - 1 \in 0..n /\ k \in 0..n
      OBVIOUS
  <2>2. Max(1..k) = k /\ (1..k) \ {k} = 1..(k - 1) /\ 1..k # {}
      BY <2>1, MaxOfPrefix
  <2>3. it[1..k] = it[1..(k - 1)] * f[k]
      BY <2>1, <2>2, <1>5
  <2> QED BY <2>1, <2>3
<1>8. ASSUME NEW k \in 0..n PROVE g[k] \in Int
  <2> DEFINE S == {m \in Nat : m <= n => g[m] \in Int}
  <2>1. 0 \in S
      BY <1>6
  <2>2. ASSUME NEW m \in Nat, m \in S PROVE m + 1 \in S
    <3> SUFFICES ASSUME m + 1 <= n PROVE g[m + 1] \in Int
        OBVIOUS
    <3>1. m + 1 \in 1..n /\ (m + 1) - 1 = m /\ g[m] \in Int /\ f[m + 1] \in Int
        BY <2>2
    <3>2. g[m + 1] = g[m] * f[m + 1]
        BY <3>1, <1>7
    <3> QED BY <3>1, <3>2
  <2>3. \A m \in Nat : m \in S
    <3> HIDE DEF S
    <3> QED BY <2>1, <2>2, Induction
  <2>4. k \in Nat /\ k <= n
      OBVIOUS
  <2>5. k \in S
    <3> HIDE DEF S
    <3> QED BY <2>3, <2>4
  <2> QED BY <2>4, <2>5
<1>9. g \in [0..n -> Int] /\ Product(f) = g[n]
    BY <1>4, <1>8
<1> QED BY <1>6, <1>7, <1>9

\* One more number is multiplied to the product.
LEMMA ProductStep ==
    ASSUME NEW n \in Nat, NEW f \in [1..n + 1 -> Int]
    PROVE  /\ Product([i \in 1..n |-> f[i]]) \in Int
           /\ Product(f) = Product([i \in 1..n |-> f[i]]) * f[n + 1]
<1> DEFINE e == [i \in 1..n |-> f[i]]
<1>1. PICK g \in [0..n -> Int] :
         g[0] = 1 /\ (\A k \in 1..n : g[k] = g[k - 1] * e[k]) /\ Product(e) = g[n]
  <2>1. e \in [1..n -> Int]
      OBVIOUS
  <2> HIDE DEF e
  <2> QED BY <2>1, ProductTrace
<1>2. PICK h \in [0..n + 1 -> Int] :
         h[0] = 1 /\ (\A k \in 1..n + 1 : h[k] = h[k - 1] * f[k]) /\ Product(f) = h[n + 1]
  <2>1. n + 1 \in Nat
      OBVIOUS
  <2> QED BY <2>1, ProductTrace
<1> DEFINE S == {k \in Nat : k <= n => g[k] = h[k]}
<1>3. 0 \in S
    BY <1>1, <1>2
<1>4. ASSUME NEW k \in Nat, k \in S PROVE k + 1 \in S
  <2> SUFFICES ASSUME k + 1 <= n PROVE g[k + 1] = h[k + 1]
      OBVIOUS
  <2>1. k + 1 \in 1..n /\ k + 1 \in 1..n + 1 /\ (k + 1) - 1 = k /\ e[k + 1] = f[k + 1]
      OBVIOUS
  <2>2. g[k + 1] = g[k] * e[k + 1] /\ h[k + 1] = h[k] * f[k + 1]
      BY <2>1, <1>1, <1>2
  <2>3. g[k] = h[k]
      BY <1>4
  <2> QED BY <2>1, <2>2, <2>3
<1>5. \A k \in Nat : k \in S
  <2> HIDE DEF S
  <2> QED BY <1>3, <1>4, Induction
<1>6. g[n] = h[n]
  <2>1. n \in S
      BY <1>5
  <2> QED BY <2>1
<1>7. h[n + 1] = h[n] * f[n + 1]
  <2>1. n + 1 \in 1..n + 1 /\ (n + 1) - 1 = n
      OBVIOUS
  <2> QED BY <1>2, <2>1
<1> QED BY <1>1, <1>2, <1>6, <1>7

-------------------------------------------------------------------------------
(* Two ways to a region: the intervals of the configuration and the division  *)
(* by the daemons.                                                            *)

\* Division with rest.
LEMMA Division ==
    ASSUME NEW a \in Nat, NEW b \in Nat \ {0}
    PROVE  a \div b \in Nat /\ a % b \in 0..(b - 1) /\ a = b * (a \div b) + (a % b)
OBVIOUS

\* A factor that is not smaller on both sides keeps an order.
LEMMA Times ==
    ASSUME NEW a \in Nat, NEW b \in Nat, NEW m \in Nat, a <= b
    PROVE  a * m \in Nat /\ b * m \in Nat /\ a * m <= b * m /\ m * a = a * m
<1>1. PICK c \in Nat : b = a + c
  <2>1. b - a \in Nat /\ b = a + (b - a)
      OBVIOUS
  <2> QED BY <2>1
<1>2. b * m = a * m + c * m /\ c * m \in Nat /\ a * m \in Nat
    BY <1>1
<1> QED BY <1>2

\* A factor can be taken from both sides.
LEMMA Untimes ==
    ASSUME NEW a \in Nat, NEW b \in Nat, NEW m \in Nat, a * m < b * m
    PROVE  a < b
<1> SUFFICES ASSUME b <= a PROVE FALSE
    OBVIOUS
<1>1. b * m <= a * m /\ b * m \in Nat /\ a * m \in Nat
    BY Times
<1> QED BY <1>1

\* Regions agree, or the partitions cut unevenly and, if they are few, the client's
\* region is the next and the hash just below its cut.
Meet(p, half, h, c, s) ==
    \/ c = s
    \/ /\ half % p # 0
       /\ 4 * p * p <= 2 * half => c = s + 1 /\ (h + 2 * p) * p >= (s + 1) * (2 * half)

\* The region of a hash h on the client's side, c, and on the daemons', s.
LEMMA RegionsMeet ==
    ASSUME NEW p \in Nat \ {0}, NEW half \in Nat \ {0}, NEW h \in Nat, h < 2 * half,
           NEW c \in Nat, c < p, NEW s \in Nat,
           c * ((half \div p) * 2) <= h,
           c = p - 1 \/ h < (c + 1) * ((half \div p) * 2),
           s = (h * p) \div (2 * half)
    PROVE  Meet(p, half, h, c, s)
<1>1. PICK size \in Nat : size = 2 * half /\ size > 0
    OBVIOUS
<1>2. PICK q \in Nat, r \in Nat : q = half \div p /\ r = half % p /\ half = p * q + r /\ r < p
  <2>1. half \div p \in Nat /\ half % p \in 0..(p - 1) /\ half = p * (half \div p) + (half % p)
      BY Division
  <2> QED BY <2>1
<1>3. PICK i \in Nat : i = q * 2
    OBVIOUS
<1>4. PICK ip \in Nat : ip = i * p /\ size = ip + 2 * r
    BY <1>1, <1>2, <1>3
<1>5. PICK hp \in Nat : hp = h * p
    OBVIOUS
<1>6. PICK rest \in Nat : hp = size * s + rest /\ rest < size
  <2>1. hp \div size \in Nat /\ hp % size \in 0..(size - 1)
        /\ hp = size * (hp \div size) + (hp % size)
      BY <1>1, Division
  <2> QED BY <2>1, <1>1, <1>5
<1>7. PICK ss \in Nat : ss = s * size /\ (s + 1) * size = ss + size /\ hp = ss + rest
    BY <1>6
<1>8. s <= c
  <2>1. CASE c = p - 1
    <3>1. h * p < size * p /\ size * p = p * size
        BY <1>1
    <3>2. s * size < p * size
        BY <3>1, <1>5, <1>7
    <3> QED BY <3>2, <2>1, Untimes
  <2>2. CASE h < (c + 1) * i
    <3>1. PICK ci \in Nat : ci = (c + 1) * i
        OBVIOUS
    <3>2. h * p < ci * p
        BY <2>2, <3>1
    <3>3. ci * p = (c + 1) * ip
        BY <3>1, <1>4
    <3>4. (c + 1) * ip <= (c + 1) * size
        BY <1>4
    <3>5. s * size < (c + 1) * size
        BY <3>2, <3>3, <3>4, <1>5, <1>7
    <3>6. c + 1 \in Nat
        OBVIOUS
    <3>7. s < c + 1
        BY <3>5, <3>6, Untimes
    <3> QED BY <3>7
  <2> QED BY <2>1, <2>2, <1>2, <1>3
<1>9. PICK cip \in Nat : cip = c * ip /\ cip <= hp
  <2>1. c * i <= h /\ c * i \in Nat
      BY <1>2, <1>3
  <2>2. (c * i) * p <= h * p
      BY <2>1
  <2>3. (c * i) * p = c * ip /\ c * ip \in Nat
      BY <1>4
  <2> QED BY <2>2, <2>3, <1>5
<1>10. CASE r = 0
  <2>1. cip = c * size
      BY <1>4, <1>9, <1>10
  <2>2. c * size < (s + 1) * size /\ s + 1 \in Nat
      BY <2>1, <1>9, <1>6, <1>7
  <2>3. c < s + 1
      BY <2>2, Untimes
  <2> QED BY <2>3, <1>8 DEF Meet
<1>11. CASE r # 0
  <2> SUFFICES ASSUME 4 * p * p <= size, c # s
               PROVE  c = s + 1 /\ (h + 2 * p) * p >= (s + 1) * size
      BY <1>1, <1>2, <1>11 DEF Meet
  <2>1. PICK pp \in Nat : pp = p * p /\ 4 * pp <= size
      OBVIOUS
  <2>2. PICK rc \in Nat : rc = r * c /\ rc <= pp
    <3>1. r * c <= p * c /\ c * p <= p * p /\ p * c = c * p /\ r * c \in Nat
        BY <1>2, Times
    <3> QED BY <3>1, <2>1
  <2>3. PICK cs \in Nat : cs = c * size /\ cs = cip + 2 * rc
    <3>1. c * size = c * ip + 2 * (r * c) /\ c * size \in Nat
        BY <1>4
    <3> QED BY <3>1, <1>9, <2>2
  <2>4. cs <= hp + 2 * pp
      BY <2>2, <2>3, <1>9
  <2>5. cs < ss + size + size
      BY <2>4, <2>1, <1>6, <1>7
  <2>6. c * size < (s + 2) * size /\ s + 2 \in Nat
      BY <2>5, <2>3, <1>7
  <2>7. c < s + 2
      BY <2>6, Untimes
  <2>8. c = s + 1
      BY <2>7, <1>8
  <2>9. (h + 2 * p) * p = hp + 2 * pp
      BY <2>1, <1>5
  <2> QED BY <2>8, <2>9, <2>3, <2>4
<1> QED BY <1>10, <1>11

-------------------------------------------------------------------------------
(* Roots and cuts                                                             *)

\* The product of no numbers, and of one more.
LEMMA PowerStep ==
    ASSUME NEW r \in Int, NEW n \in Nat
    PROVE  Power(r, 0) = 1 /\ Power(r, n) \in Int /\ Power(r, n + 1) = Power(r, n) * r
<1>1. Power(r, 0) = 1
  <2> DEFINE f == [d \in 1..0 |-> r]
  <2>1. f \in [1..0 -> Int] /\ 0 \in Nat
      OBVIOUS
  <2>2. Product(f) = 1
    <3> HIDE DEF f
    <3> QED BY <2>1, ProductTrace
  <2> QED BY <2>2 DEF Power
<1>2. Power(r, n) \in Int /\ Power(r, n + 1) = Power(r, n) * r
  <2> DEFINE f == [d \in 1..n + 1 |-> r]
             e == [d \in 1..n |-> f[d]]
  <2>1. f \in [1..n + 1 -> Int] /\ f[n + 1] = r
      OBVIOUS
  <2>2. Product(e) \in Int /\ Product(f) = Product(e) * f[n + 1]
    <3> HIDE DEF f
    <3> QED BY <2>1, ProductStep
  <2>3. e = [d \in 1..n |-> r]
      OBVIOUS
  <2> HIDE DEF e
  <2> QED BY <2>1, <2>2, <2>3 DEF Power
<1> QED BY <1>1, <1>2

\* Powers of a number that is not zero are not smaller than it.
LEMMA PowerGrows ==
    ASSUME NEW r \in Nat \ {0}, NEW n \in Nat
    PROVE  Power(r, n) \in Nat \ {0} /\ Power(1, n) = 1 /\ Power(r, n + 1) >= r
<1> DEFINE S == {k \in Nat : Power(r, k) \in Nat \ {0} /\ Power(1, k) = 1}
<1>1. 0 \in S
    BY PowerStep
<1>2. ASSUME NEW k \in Nat, k \in S PROVE k + 1 \in S
  <2>1. Power(r, k) \in Nat \ {0} /\ Power(1, k) = 1
      BY <1>2
  <2>2. Power(r, k + 1) = Power(r, k) * r
      BY PowerStep
  <2>3. Power(1, k + 1) = Power(1, k) * 1
      BY PowerStep
  <2>4. PICK a \in Nat \ {0} : a = Power(r, k)
      BY <2>1
  <2>5. a * r \in Nat \ {0}
      OBVIOUS
  <2> QED BY <2>1, <2>2, <2>3, <2>4, <2>5
<1>3. \A k \in Nat : k \in S
  <2> HIDE DEF S
  <2> QED BY <1>1, <1>2, Induction
<1>4. n \in S
    BY <1>3
<1>5. PICK a \in Nat \ {0} : a = Power(r, n)
    BY <1>4
<1>6. Power(r, n + 1) = a * r
    BY <1>5, PowerStep
<1>7. a * r >= r
  <2>1. 1 * r <= a * r /\ a * r \in Nat
      BY Times
  <2> QED BY <2>1
<1> QED BY <1>4, <1>6, <1>7

\* There is a root, and it is at least one and at most the number.
LEMMA RootExists ==
    ASSUME NEW n \in Nat \ {0}, NEW p \in Nat \ {0}
    PROVE  /\ RootOf(n, p) \in 1..p
           /\ Power(RootOf(n, p), n) <= p /\ Power(RootOf(n, p) + 1, n) > p
<1> DEFINE B == {r \in Nat : Power(r + 1, n) > p}
<1>1. PICK n1 \in Nat : n = n1 + 1
  <2>1. n - 1 \in Nat /\ n = (n - 1) + 1
      OBVIOUS
  <2> QED BY <2>1
<1>2. p \in B
  <2>1. p + 1 \in Nat \ {0}
      OBVIOUS
  <2>2. Power(p + 1, n) >= p + 1 /\ Power(p + 1, n) \in Nat
      BY <2>1, <1>1, PowerGrows
  <2> QED BY <2>2
<1>3. PICK m \in B : \A k \in B : m <= k
  <2>1. B \in SUBSET Nat /\ B # {}
      BY <1>2
  <2> HIDE DEF B
  <2> QED BY <2>1, LeastNumber
<1>4. m # 0
  <2>1. Power(1, n) = 1 /\ 0 + 1 = 1
      BY PowerGrows
  <2> QED BY <2>1, <1>3
<1>5. m \in 1..p /\ m - 1 \in Nat /\ (m - 1) + 1 = m
    BY <1>2, <1>3, <1>4
<1>6. Power(m, n) <= p
  <2>1. m - 1 \notin B
      BY <1>3, <1>5
  <2>2. Power(m, n) \in Int
      BY PowerStep
  <2> QED BY <2>1, <2>2, <1>5
<1>7. Power(m, n) <= p /\ Power(m + 1, n) > p
    BY <1>3, <1>6
<1> QED BY <1>5, <1>7 DEF RootOf

\* Whatever the rounding, a side is at least one; that of one dimension is exact.
LEMMA SidesArePositive ==
    ASSUME NEW n \in Nat \ {0}, NEW p \in Nat \ {0}
    PROVE  Sides(n, p) \subseteq Nat \ {0} /\ Sides(1, p) = {p}
<1>1. Sides(n, p) \subseteq Nat \ {0}
  <2>1. RootOf(n, p) \in 1..p
      BY RootExists
  <2> QED BY <2>1 DEF Sides
<1>2. RootOf(1, p) = p
  <2>1. PICK r \in 1..p : r = RootOf(1, p) /\ Power(r, 1) <= p /\ Power(r + 1, 1) > p
      BY RootExists
  <2>2. \A a \in Nat : Power(a, 1) = a
    <3> TAKE a \in Nat
    <3>1. Power(a, 0) = 1 /\ Power(a, 0 + 1) = Power(a, 0) * a /\ 0 + 1 = 1
        BY PowerStep
    <3> QED BY <3>1
  <2>3. r <= p /\ r + 1 > p
    <3>1. r + 1 \in Nat /\ r \in Nat
        OBVIOUS
    <3> QED BY <3>1, <2>1, <2>2
  <2> QED BY <2>1, <2>3
<1> QED BY <1>1, <1>2 DEF Sides

\* legacy_partition_regions, one dimension after the other.
Raised(partitions, acc, d) ==
    IF acc.count >= partitions THEN acc
    ELSE [count |-> (acc.count \div acc.cuts[d]) * (acc.cuts[d] + 1),
          cuts |-> [acc.cuts EXCEPT ![d] = @ + 1]]

\* Every dimension is cut at least once; the only dimension of the key is cut into the
\* partitions.
LEMMA CutsArePositive ==
    ASSUME NEW n \in Nat, NEW p \in Nat \ {0}, NEW side \in Nat \ {0}
    PROVE  /\ Dimensions(n, p, side) \in [1..n -> Nat \ {0}]
           /\ n = 1 /\ side = p => Dimensions(n, p, side) = <<p>>
<1> DEFINE A == [count : Nat, cuts : [1..n -> Nat \ {0}]]
           E == 1..n
           F == [a \in A \X E |-> Raised(p, a[1], a[2])]
           base == [count |-> n * side, cuts |-> [d \in 1..n |-> side]]
           f == [d \in 1..n |-> d]
           Rec(g) == g = [s \in SUBSET (1..n) |->
                            IF s = {} THEN base ELSE Raised(p, g[s \ {Max(s)}], f[Max(s)])]
           it == CHOOSE g : Rec(g)
<1>1. ASSUME NEW acc \in A, NEW d \in E PROVE Raised(p, acc, d) \in A
  <2>1. acc.count \in Nat /\ acc.cuts[d] \in Nat \ {0}
      OBVIOUS
  <2>2. acc.count \div acc.cuts[d] \in Nat
      BY <2>1, Division
  <2>3. (acc.count \div acc.cuts[d]) * (acc.cuts[d] + 1) \in Nat
      BY <2>1, <2>2, Affine
  <2>4. [acc.cuts EXCEPT ![d] = @ + 1] \in [1..n -> Nat \ {0}]
      BY <2>1
  <2> QED BY <2>3, <2>4 DEF Raised
<1>2. F \in [A \X E -> A]
  <2> HIDE DEF A, E
  <2> QED BY <1>1
<1>3. base \in A /\ f \in [1..n -> E]
  <2>1. n * side \in Nat
      OBVIOUS
  <2> QED BY <2>1
<1>4. PICK h \in [SUBSET (1..n) -> A] : \A s \in SUBSET (1..n) :
                h[s] = IF s = {} THEN base ELSE F[<<h[s \ {Max(s)}], f[Max(s)]>>]
  <2> HIDE DEF F, A, E, base, f
  <2>1. Folds(A, F, base, n, f)
      BY <1>2, <1>3, FoldExists
  <2> QED BY <2>1 DEF Folds
<1>5. Rec(h)
  <2> SUFFICES ASSUME NEW s \in SUBSET (1..n), s # {}
               PROVE  h[s] = Raised(p, h[s \ {Max(s)}], f[Max(s)])
    <3> HIDE DEF F, A, base, f
    <3> QED BY <1>4
  <2>1. h[s \ {Max(s)}] \in A /\ f[Max(s)] \in E
    <3>1. Max(s) \in 1..n
        BY MaxInSet
    <3> HIDE DEF A
    <3> QED BY <3>1
  <2>2. h[s] = F[<<h[s \ {Max(s)}], f[Max(s)]>>]
    <3> HIDE DEF F, A, base, f
    <3> QED BY <1>4
  <2> HIDE DEF A, f, E, base
  <2> QED BY <2>1, <2>2
<1>6. Rec(it)
  <2> HIDE DEF Rec
  <2> QED BY <1>5
<1>7. Dimensions(n, p, side) = it[1..n].cuts
  <2>1. DOMAIN f = 1..n
      OBVIOUS
  <2> QED BY <2>1 DEF Dimensions, FoldLeft, MapThenFoldSet, Raised
<1>8. ASSUME NEW s \in SUBSET (1..n)
      PROVE  it[s] = IF s = {} THEN base ELSE Raised(p, it[s \ {Max(s)}], f[Max(s)])
  <2> HIDE DEF it, base, f
  <2> QED BY <1>6
<1> HIDE DEF it
<1>9. it[1..0] = base
  <2>1. 1..0 = {} /\ {} \in SUBSET (1..n)
      OBVIOUS
  <2> HIDE DEF base, f
  <2> QED BY <2>1, <1>8
<1>10. ASSUME NEW k \in 1..n PROVE it[1..k] = Raised(p, it[1..(k - 1)], k)
  <2>1. k - 1 \in Nat /\ k = (k - 1) + 1 /\ 1..k \in SUBSET (1..n)
      OBVIOUS
  <2>2. Max(1..k) = k /\ (1..k) \ {k} = 1..(k - 1) /\ 1..k # {}
      BY <2>1, MaxOfPrefix
  <2>3. f[k] = k
      OBVIOUS
  <2> HIDE DEF f, base
  <2> QED BY <2>1, <2>2, <2>3, <1>8
<1> DEFINE S == {m \in Nat : m <= n => it[1..m] \in A}
<1>11. 0 \in S
  <2> HIDE DEF A, base
  <2> QED BY <1>3, <1>9
<1>12. ASSUME NEW m \in Nat, m \in S PROVE m + 1 \in S
  <2> SUFFICES ASSUME m + 1 <= n PROVE it[1..m + 1] \in A
    <3> HIDE DEF A
    <3> QED OBVIOUS
  <2>1. m + 1 \in 1..n /\ (m + 1) - 1 = m
      OBVIOUS
  <2>2. it[1..m] \in A
    <3> HIDE DEF A
    <3> QED BY <1>12
  <2>3. it[1..m + 1] = Raised(p, it[1..m], m + 1)
      BY <2>1, <1>10
  <2> HIDE DEF A
  <2> QED BY <2>1, <2>2, <2>3, <1>1
<1>13. \A m \in Nat : m \in S
  <2> HIDE DEF S
  <2> QED BY <1>11, <1>12, Induction
<1>14. it[1..n] \in A
  <2> HIDE DEF A
  <2> QED BY <1>13
<1>15. ASSUME n = 1, side = p PROVE it[1..n].cuts = <<p>>
  <2>1. it[1..1] = Raised(p, it[1..0], 1)
    <3>1. 1 \in 1..n /\ 1 - 1 = 0
        BY <1>15
    <3> QED BY <3>1, <1>10
  <2>2. base.count >= p /\ base.cuts = <<p>>
      BY <1>15
  <2>3. Raised(p, base, 1) = base
    <3> HIDE DEF base
    <3> QED BY <2>2 DEF Raised
  <2> HIDE DEF base
  <2> QED BY <2>1, <2>2, <2>3, <1>9, <1>15
<1> QED BY <1>7, <1>14, <1>15

-------------------------------------------------------------------------------
(* Regions, one dimension after the other                                     *)

Point == Int \X Int
Boxes == Seq(Seq(Point)) \ {<<>>}
PointsIn(cuts, d) == PartitionPoints(IF cuts[d] = cuts[1] THEN cuts[1] ELSE cuts[Len(cuts)])
Extended(boxes, points) ==
    FlattenSeq([i \in DOMAIN boxes |-> [j \in DOMAIN points |-> Append(boxes[i], points[j])]])

\* The intervals of a dimension: as many as asked for, from 0 on.
LEMMA PointsAreIntervals ==
    ASSUME NEW c \in Nat \ {0}
    PROVE  /\ PartitionPoints(c) \in [1..c -> Point]
           /\ PartitionPoints(c) \in Seq(Point) /\ Len(PartitionPoints(c)) = c
           /\ DOMAIN PartitionPoints(c) = 1..c
           /\ \A i \in 1..c :
                 /\ PartitionPoints(c)[i][1] = (i - 1) * (((Size \div 2) \div c) * 2)
                 /\ PartitionPoints(c)[i][2] =
                       IF i = c THEN Size - 1 ELSE i * (((Size \div 2) \div c) * 2) - 1
<1>1. PICK k \in Nat : k = ((Size \div 2) \div c) * 2
  <2>1. Size \div 2 \in Nat
      BY SizeAssumption, Division
  <2>2. (Size \div 2) \div c \in Nat
      BY <2>1, Division
  <2> QED BY <2>2
<1>2. PartitionPoints(c) =
         [i \in 1..c |-> <<(i - 1) * k, IF i = c THEN Size - 1 ELSE i * k - 1>>]
    BY <1>1 DEF PartitionPoints
<1>3. ASSUME NEW i \in 1..c
      PROVE  (i - 1) * k \in Int /\ (IF i = c THEN Size - 1 ELSE i * k - 1) \in Int
    BY SizeAssumption
<1>4. PartitionPoints(c) \in [1..c -> Point]
    BY <1>2, <1>3 DEF Point
<1>5. PartitionPoints(c) \in Seq(Point) /\ Len(PartitionPoints(c)) = c
      /\ DOMAIN PartitionPoints(c) = 1..c
    BY <1>4, IsSequence
<1>6. ASSUME NEW i \in 1..c
      PROVE  /\ PartitionPoints(c)[i][1] = (i - 1) * k
             /\ PartitionPoints(c)[i][2] = IF i = c THEN Size - 1 ELSE i * k - 1
    BY <1>2
<1>7. /\ PartitionPoints(c) \in [1..c -> Point]
      /\ PartitionPoints(c) \in Seq(Point) /\ Len(PartitionPoints(c)) = c
      /\ DOMAIN PartitionPoints(c) = 1..c
    BY <1>4, <1>5
<1>8. \A i \in 1..c :
         /\ PartitionPoints(c)[i][1] = (i - 1) * (((Size \div 2) \div c) * 2)
         /\ PartitionPoints(c)[i][2] =
               IF i = c THEN Size - 1 ELSE i * (((Size \div 2) \div c) * 2) - 1
    BY <1>1, <1>6, Zenon
<1> QED BY <1>7, <1>8, Zenon

\* Every box with every interval, the interval fastest.
LEMMA BoxesExtend ==
    ASSUME NEW boxes \in Boxes, NEW points \in Seq(Point), points # <<>>
    PROVE  /\ Extended(boxes, points) \in Boxes
           /\ Len(Extended(boxes, points)) = Len(boxes) * Len(points)
           /\ \A i \in 1..Len(boxes), j \in 1..Len(points) :
                 Extended(boxes, points)[(i - 1) * Len(points) + j] = Append(boxes[i], points[j])
<1> DEFINE Row(i) == [j \in DOMAIN points |-> Append(boxes[i], points[j])]
           seqs == [i \in DOMAIN boxes |-> Row(i)]
<1>1. PICK n \in Nat, m \in Nat : n = Len(boxes) /\ m = Len(points) /\ n > 0 /\ m > 0
      /\ DOMAIN boxes = 1..n /\ DOMAIN points = 1..m
  <2>1. boxes \in Seq(Seq(Point)) /\ boxes # <<>>
      BY DEF Boxes
  <2>2. Len(boxes) \in Nat \ {0} /\ Len(points) \in Nat \ {0}
      BY <2>1, EmptySeq, LenProperties
  <2> QED BY <2>1, <2>2, LenProperties
<1>2. ASSUME NEW i \in 1..n, NEW j \in 1..m PROVE Append(boxes[i], points[j]) \in Seq(Point)
  <2>1. boxes \in Seq(Seq(Point))
      BY DEF Boxes
  <2>2. boxes[i] \in Seq(Point) /\ points[j] \in Point
      BY <2>1, <1>1, ElementOfSeq
  <2> QED BY <2>2, AppendProperties
<1>3. ASSUME NEW i \in 1..n PROVE Row(i) \in Seq(Seq(Point)) /\ Len(Row(i)) = m
  <2>1. Row(i) \in [1..m -> Seq(Point)]
      BY <1>1, <1>2
  <2> HIDE DEF Row
  <2> QED BY <2>1, IsSequence
<1>4. seqs \in [1..n -> Seq(Seq(Point))] /\ \A i \in 1..n : Len(seqs[i]) = m
  <2> HIDE DEF Row
  <2> QED BY <1>1, <1>3
<1>5. FlattenSeq(seqs) = Extended(boxes, points)
    BY DEF Extended
<1>6. \A i \in 1..n, j \in 1..m : seqs[i][j] = Append(boxes[i], points[j])
    BY <1>1
<1> HIDE DEF seqs
<1>7. /\ FlattenSeq(seqs) \in Seq(Seq(Point)) /\ Len(FlattenSeq(seqs)) = n * m
      /\ \A i \in 1..n, j \in 1..m : FlattenSeq(seqs)[(i - 1) * m + j] = seqs[i][j]
  <2> DEFINE X == Seq(Point)
  <2>1. seqs \in [1..n -> Seq(X)] /\ n > 0 /\ \A i \in 1..n : Len(seqs[i]) = m
      BY <1>1, <1>4
  <2> HIDE DEF X
  <2>2. Grid(X, n, m, seqs, FlattenSeq(seqs))
      BY <2>1, FlattenEqual
  <2>3. Grid(Seq(Point), n, m, seqs, FlattenSeq(seqs))
      BY <2>2 DEF X
  <2> QED BY <2>3, Zenon DEF Grid
<1>8. FlattenSeq(seqs) # <<>>
  <2>1. n * m # 0
      BY <1>1
  <2> QED BY <2>1, <1>7, EmptySeq
<1>9. Extended(boxes, points) \in Boxes /\ Len(Extended(boxes, points)) = n * m
    BY <1>5, <1>7, <1>8 DEF Boxes
<1>10. ASSUME NEW i \in 1..n, NEW j \in 1..m
       PROVE  Extended(boxes, points)[(i - 1) * m + j] = Append(boxes[i], points[j])
    BY <1>5, <1>6, <1>7, Zenon
<1> QED BY <1>1, <1>9, <1>10, Zenon

\* The boxes after each dimension.
RegionSteps(cuts, n) ==
    \E g \in [0..n -> Boxes] :
       /\ g[0] = <<<<>>>> /\ RegionsOf(cuts) = g[n]
       /\ \A k \in 1..n : g[k] = Extended(g[k - 1], PointsIn(cuts, k))

\* Regions are made by extending the boxes of the dimensions before.
LEMMA RegionsTrace ==
    ASSUME NEW n \in Nat \ {0}, NEW cuts \in [1..n -> Nat \ {0}]
    PROVE  RegionSteps(cuts, n)
<1> DEFINE E == 1..n
           Step(boxes, d) == Extended(boxes, PointsIn(cuts, d))
           F == [a \in Boxes \X E |-> Step(a[1], a[2])]
           base == <<<<>>>>
           f == [d \in 1..n |-> d]
           Rec(g) == g = [s \in SUBSET (1..n) |->
                            IF s = {} THEN base ELSE Step(g[s \ {Max(s)}], f[Max(s)])]
           it == CHOOSE g : Rec(g)
           g == [k \in 0..n |-> it[1..k]]
<1>1. Len(cuts) = n
    BY IsSequence
<1>2. ASSUME NEW boxes \in Boxes, NEW d \in E PROVE Step(boxes, d) \in Boxes
  <2>1. PICK c \in Nat \ {0} : PointsIn(cuts, d) = PartitionPoints(c)
      BY <1>1 DEF PointsIn
  <2>2. PointsIn(cuts, d) \in Seq(Point) /\ PointsIn(cuts, d) # <<>>
    <3>1. Len(<<>>) = 0 /\ Len(PartitionPoints(c)) = c /\ PartitionPoints(c) \in Seq(Point)
        BY PointsAreIntervals, EmptySeq
    <3> QED BY <2>1, <3>1
  <2> QED BY <2>2, BoxesExtend
<1>3. F \in [Boxes \X E -> Boxes]
  <2> HIDE DEF E, Step
  <2> QED BY <1>2
<1>4. base \in Boxes /\ f \in [1..n -> E]
  <2>1. <<>> \in Seq(Point)
      OBVIOUS
  <2>2. <<<<>>>> \in Seq(Seq(Point)) /\ Len(<<<<>>>>) = 1 /\ Len(<<>>) = 0
      BY <2>1
  <2> QED BY <2>2 DEF Boxes
<1>5. PICK h \in [SUBSET (1..n) -> Boxes] : \A s \in SUBSET (1..n) :
                h[s] = IF s = {} THEN base ELSE F[<<h[s \ {Max(s)}], f[Max(s)]>>]
  <2> HIDE DEF F, E, base, f
  <2>1. Folds(Boxes, F, base, n, f)
      BY <1>3, <1>4, FoldExists
  <2> QED BY <2>1 DEF Folds
<1>6. Rec(h)
  <2> SUFFICES ASSUME NEW s \in SUBSET (1..n), s # {}
               PROVE  h[s] = Step(h[s \ {Max(s)}], f[Max(s)])
    <3> HIDE DEF F, Step, base, f
    <3> QED BY <1>5
  <2>1. h[s \ {Max(s)}] \in Boxes /\ f[Max(s)] \in E
    <3>1. Max(s) \in 1..n
        BY MaxInSet
    <3> QED BY <3>1
  <2>2. h[s] = F[<<h[s \ {Max(s)}], f[Max(s)]>>]
    <3> HIDE DEF F, base, f
    <3> QED BY <1>5
  <2> HIDE DEF f, E, base, Step
  <2> QED BY <2>1, <2>2
<1>7. Rec(it)
  <2> HIDE DEF Rec
  <2> QED BY <1>6
<1>8. RegionsOf(cuts) = it[1..n]
  <2>1. DOMAIN f = 1..n
      OBVIOUS
  <2> QED BY <2>1, <1>1 DEF RegionsOf, FoldLeft, MapThenFoldSet, Extended, PointsIn
<1>9. ASSUME NEW s \in SUBSET (1..n)
      PROVE  it[s] = IF s = {} THEN base ELSE Step(it[s \ {Max(s)}], f[Max(s)])
  <2> HIDE DEF it, base, f, Step
  <2> QED BY <1>7
<1> HIDE DEF it
<1>10. g[0] = base
  <2>1. 1..0 = {} /\ {} \in SUBSET (1..n) /\ 0 \in 0..n
      OBVIOUS
  <2> HIDE DEF base, f, Step
  <2> QED BY <2>1, <1>9
<1>11. ASSUME NEW k \in 1..n PROVE g[k] = Step(g[k - 1], k)
  <2>1. /\ k - 1 \in Nat /\ k = (k - 1) + 1 /\ 1..k \in SUBSET (1..n)
        /\ k - 1 \in 0..n /\ k \in 0..n
      OBVIOUS
  <2>2. Max(1..k) = k /\ (1..k) \ {k} = 1..(k - 1) /\ 1..k # {}
      BY <2>1, MaxOfPrefix
  <2>3. f[k] = k
      OBVIOUS
  <2> HIDE DEF f, base, Step
  <2> QED BY <2>1, <2>2, <2>3, <1>9
<1>12. DOMAIN g = 0..n /\ g[n] = it[1..n]
    OBVIOUS
<1>13. g = [k \in 0..n |-> g[k]]
    OBVIOUS
<1> HIDE DEF g
<1> DEFINE S == {m \in Nat : m <= n => g[m] \in Boxes}
<1>14. 0 \in S
    BY <1>4, <1>10
<1>15. ASSUME NEW m \in Nat, m \in S PROVE m + 1 \in S
  <2> SUFFICES ASSUME m + 1 <= n PROVE g[m + 1] \in Boxes
      OBVIOUS
  <2>1. m + 1 \in 1..n /\ (m + 1) - 1 = m /\ g[m] \in Boxes
      BY <1>15
  <2> HIDE DEF Step
  <2>2. g[m + 1] = Step(g[m], m + 1)
      BY <2>1, <1>11
  <2> QED BY <2>1, <2>2, <1>2
<1>16. \A m \in Nat : m \in S
  <2> HIDE DEF S
  <2> QED BY <1>14, <1>15, Induction
<1>17. g \in [0..n -> Boxes]
  <2>1. \A k \in 0..n : k \in Nat /\ k <= n
      OBVIOUS
  <2>2. \A k \in 0..n : g[k] \in Boxes
      BY <2>1, <1>16
  <2> QED BY <2>2, <1>13
<1> QED BY <1>8, <1>10, <1>11, <1>12, <1>17 DEF RegionSteps

\* The regions of the key: one interval each, one for each partition.
LEMMA KeyRegions ==
    ASSUME NEW p \in Nat \ {0}
    PROVE  /\ DOMAIN RegionsOf(<<p>>) = 1..p /\ Len(RegionsOf(<<p>>)) = p
           /\ \A j \in 1..p : RegionsOf(<<p>>)[j][1] = PartitionPoints(p)[j]
<1> DEFINE cuts == <<p>>
           points == PartitionPoints(p)
           regions == RegionsOf(cuts)
<1>1. PICK g \in [0..1 -> Boxes] :
         /\ g[0] = <<<<>>>> /\ regions = g[1]
         /\ \A k \in 1..1 : g[k] = Extended(g[k - 1], PointsIn(cuts, k))
  <2>1. cuts \in [1..1 -> Nat \ {0}] /\ 1 \in Nat \ {0}
      OBVIOUS
  <2> HIDE DEF cuts
  <2>2. RegionSteps(cuts, 1)
      BY <2>1, RegionsTrace
  <2> QED BY <2>2 DEF RegionSteps
<1>2. PointsIn(cuts, 1) = points
    BY DEF PointsIn
<1>3. regions = Extended(<<<<>>>>, points)
  <2>1. 1 \in 1..1 /\ 1 - 1 = 0
      OBVIOUS
  <2> HIDE DEF cuts, points, regions
  <2> QED BY <1>1, <1>2, <2>1
<1>4. <<<<>>>> \in Boxes /\ Len(<<<<>>>>) = 1 /\ <<<<>>>>[1] = <<>>
    BY <1>1
<1>5. points \in Seq(Point) /\ Len(points) = p /\ points # <<>>
  <2>1. Len(<<>>) = 0
      OBVIOUS
  <2> QED BY <2>1, PointsAreIntervals
<1> HIDE DEF cuts, points, regions
<1>6. /\ Extended(<<<<>>>>, points) \in Boxes
      /\ Len(Extended(<<<<>>>>, points)) = Len(<<<<>>>>) * Len(points)
      /\ \A i \in 1..Len(<<<<>>>>), j \in 1..Len(points) :
            Extended(<<<<>>>>, points)[(i - 1) * Len(points) + j]
            = Append(<<<<>>>>[i], points[j])
    BY <1>4, <1>5, BoxesExtend
<1>7. Len(regions) = p /\ DOMAIN regions = 1..p
  <2>1. regions \in Seq(Seq(Point)) /\ Len(regions) = 1 * p
      BY <1>3, <1>4, <1>5, <1>6 DEF Boxes
  <2> QED BY <2>1, LenProperties
<1>8. ASSUME NEW j \in 1..p PROVE regions[j][1] = points[j]
  <2>1. 1 \in 1..Len(<<<<>>>>) /\ j \in 1..Len(points) /\ (1 - 1) * Len(points) + j = j
      BY <1>4, <1>5
  <2>2. Extended(<<<<>>>>, points)[(1 - 1) * Len(points) + j] = Append(<<<<>>>>[1], points[j])
      BY <2>1, <1>6
  <2>3. regions[j] = Append(<<>>, points[j])
      BY <2>1, <2>2, <1>3, <1>4
  <2>4. <<>> \in Seq(Point) /\ points[j] \in Point
      BY <1>5, <2>1, ElementOfSeq
  <2>5. Append(<<>>, points[j])[1] = points[j]
      BY <2>4
  <2> QED BY <2>3, <2>5
<1> QED BY <1>7, <1>8 DEF cuts, points, regions

-------------------------------------------------------------------------------
(* The space                                                                  *)

\* What a definition that was read has.
Readable(def) ==
    /\ def.partitions \in Nat /\ def.fault_tolerance \in Nat
    /\ def.subspaces \in Seq(Seq(STRING))
    /\ Encodable(def) => def.partitions > 0 /\ <<>> \notin ToSet(def.subspaces)

\* The space is what was defined, and its cuts are what rounding may give.
SpaceDefined ==
    space # NoSpace => Readable(space.def) /\ space.cuts \in CutsOf(space.def)

\* The cuts of a space: its key is cut into the partitions and every other subspace has
\* dimensions, cut at least once.
WellCut(def, cuts) ==
    /\ \A i \in DOMAIN cuts : \E n \in Nat \ {0} : cuts[i] \in [1..n -> Nat \ {0}]
    /\ Encodable(def) => 1 \in DOMAIN cuts /\ cuts[1] = <<def.partitions>>
    /\ ~Encodable(def) => cuts = <<>>

\* Whatever the rounding, cuts are well formed.
LEMMA CutsAreWellFormed ==
    ASSUME NEW def, Readable(def), NEW cuts \in CutsOf(def)
    PROVE  WellCut(def, cuts)
<1>1. CASE ~Encodable(def)
  <2>1. cuts = <<>>
      BY <1>1 DEF CutsOf
  <2> QED BY <2>1, <1>1 DEF WellCut
<1>2. CASE Encodable(def)
  <2> DEFINE counts == DimensionCounts(def)
             rest == [i \in DOMAIN def.subspaces |-> Len(def.subspaces[i])]
             p == def.partitions
  <2>1. p \in Nat \ {0} /\ def.subspaces \in Seq(Seq(STRING)) /\ <<>> \notin ToSet(def.subspaces)
      BY <1>2 DEF Readable
  <2>2. rest \in Seq(Nat \ {0})
    <3>1. PICK m \in Nat : DOMAIN def.subspaces = 1..m
        BY <2>1, LenProperties
    <3>2. ASSUME NEW i \in 1..m PROVE Len(def.subspaces[i]) \in Nat \ {0}
      <4>1. def.subspaces[i] \in Seq(STRING)
          BY <2>1, <3>1
      <4>2. def.subspaces[i] # <<>>
          BY <2>1, <3>1 DEF ToSet
      <4> QED BY <4>1, <4>2, EmptySeq
    <3>3. rest \in [1..m -> Nat \ {0}]
        BY <3>1, <3>2
    <3> HIDE DEF rest
    <3> QED BY <3>3, IsSequence
  <2>3. counts = <<1>> \o rest
      BY DEF DimensionCounts
  <2>4. counts \in Seq(Nat \ {0}) /\ 1 \in DOMAIN counts /\ counts[1] = 1
    <3> HIDE DEF rest, counts
    <3>1. <<1>> \in Seq(Nat \ {0}) /\ Len(<<1>>) = 1 /\ <<1>>[1] = 1
        OBVIOUS
    <3>2. <<1>> \o rest \in Seq(Nat \ {0}) /\ Len(<<1>> \o rest) = 1 + Len(rest)
          /\ (<<1>> \o rest)[1] = 1
      <4>1. Len(rest) \in Nat
          BY <2>2, LenProperties
      <4> QED BY <4>1, <3>1, <2>2, ConcatProperties
    <3>3. Len(rest) \in Nat /\ DOMAIN counts = 1..Len(counts)
        BY <2>2, <2>3, <3>2, LenProperties
    <3> QED BY <2>3, <3>2, <3>3
  <2>5. PICK sides : /\ \A i \in DOMAIN counts : sides[i] \in Sides(counts[i], p)
                     /\ cuts = [i \in DOMAIN counts |-> Dimensions(counts[i], p, sides[i])]
      BY <1>2 DEF CutsOf
  <2> HIDE DEF counts, p
  <2>6. ASSUME NEW i \in DOMAIN counts
        PROVE  /\ counts[i] \in Nat \ {0} /\ sides[i] \in Nat \ {0}
               /\ cuts[i] = Dimensions(counts[i], p, sides[i])
    <3>1. counts[i] \in Nat \ {0}
        BY <2>4, LenProperties, ElementOfSeq
    <3>2. Sides(counts[i], p) \subseteq Nat \ {0}
        BY <3>1, <2>1, SidesArePositive
    <3> QED BY <3>1, <3>2, <2>5
  <2>7. ASSUME NEW i \in DOMAIN cuts PROVE \E n \in Nat \ {0} : cuts[i] \in [1..n -> Nat \ {0}]
    <3>1. i \in DOMAIN counts
        BY <2>5
    <3>2. PICK n \in Nat \ {0}, side \in Nat \ {0} : n = counts[i] /\ side = sides[i]
        BY <2>6, <3>1
    <3>3. Dimensions(n, p, side) \in [1..n -> Nat \ {0}]
        BY <2>1, CutsArePositive
    <3> QED BY <2>6, <3>1, <3>2, <3>3
  <2>8. 1 \in DOMAIN cuts /\ cuts[1] = <<p>>
    <3>1. 1 \in DOMAIN cuts /\ sides[1] = p /\ cuts[1] = Dimensions(1, p, sides[1])
      <4>1. Sides(1, p) = {p}
          BY <2>1, SidesArePositive
      <4> QED BY <4>1, <2>4, <2>5
    <3>2. Dimensions(1, p, p) = <<p>>
        BY <2>1, CutsArePositive
    <3> QED BY <3>1, <3>2
  <2>9. cuts[1] = <<def.partitions>>
      BY <2>8 DEF p
  <2> QED BY <1>2, <2>7, <2>8, <2>9 DEF WellCut
<1> QED BY <1>1, <1>2

-------------------------------------------------------------------------------
(* The inductive invariant                                                    *)

Placed ==
    /\ plan \in DOMAIN Plans /\ hash \in Plans[plan].hashes
    /\ order \in Seq(NodeIds) /\ \A i, j \in DOMAIN order : order[i] = order[j] => i = j
    /\ named \subseteq ToSet(order)

IndInv == Placed /\ SpaceDefined

\* What a list has after a new element is put to its end.
LEMMA AppendNew ==
    ASSUME NEW X, NEW s \in Seq(X), \A i, j \in DOMAIN s : s[i] = s[j] => i = j,
           NEW n \in X, n \notin ToSet(s)
    PROVE  /\ Append(s, n) \in Seq(X) /\ ToSet(Append(s, n)) = ToSet(s) \cup {n}
           /\ \A i, j \in DOMAIN Append(s, n) : Append(s, n)[i] = Append(s, n)[j] => i = j
<1>1. PICK k \in Nat : k = Len(s) /\ DOMAIN s = 1..k
    BY LenProperties
<1>2. /\ Append(s, n) \in Seq(X) /\ Len(Append(s, n)) = k + 1
      /\ \A i \in 1..k : Append(s, n)[i] = s[i]
      /\ Append(s, n)[k + 1] = n
    BY <1>1, AppendProperties
<1>3. DOMAIN Append(s, n) = 1..k + 1
    BY <1>2, LenProperties
<1>4. \A i \in 1..k : s[i] # n
    BY <1>1 DEF ToSet
<1>5. ASSUME NEW i \in 1..k + 1, NEW j \in 1..k + 1, Append(s, n)[i] = Append(s, n)[j]
      PROVE  i = j
  <2>1. (i \in 1..k \/ i = k + 1) /\ (j \in 1..k \/ j = k + 1)
      OBVIOUS
  <2> QED BY <2>1, <1>1, <1>2, <1>4, <1>5
<1>6. ToSet(Append(s, n)) = ToSet(s) \cup {n}
  <2>1. \A x : (\E i \in 1..k + 1 : Append(s, n)[i] = x) <=> (\E i \in 1..k : s[i] = x) \/ x = n
    <3> TAKE x
    <3>1. \A i \in 1..k + 1 : i \in 1..k \/ i = k + 1
        OBVIOUS
    <3>2. k + 1 \in 1..k + 1 /\ \A i \in 1..k : i \in 1..k + 1
        OBVIOUS
    <3> QED BY <3>1, <3>2, <1>2
  <2> QED BY <2>1, <1>1, <1>3 DEF ToSet
<1> QED BY <1>2, <1>3, <1>5, <1>6

\* The daemons stay distinct, those with names among them, and the space as defined.
LEMMA Invariance ==
    /\ Init => IndInv
    /\ IndInv /\ [Next]_vars => IndInv'
<1>1. Init => IndInv
  <2> SUFFICES ASSUME Init PROVE IndInv
      OBVIOUS
  <2>1. order \in Seq(NodeIds) /\ DOMAIN order = {}
      BY DEF Init
  <2> QED BY <2>1 DEF Init, IndInv, Placed, SpaceDefined
<1>2. IndInv /\ [Next]_vars => IndInv'
  <2> SUFFICES ASSUME IndInv, [Next]_vars PROVE IndInv'
      OBVIOUS
  <2>1. ASSUME NEW n \in Plans[plan].nodes, NEW host \in Plans[plan].hosts, Register(n, host)
        PROVE  IndInv'
    <3>1. n \in NodeIds
        BY NodesAssumption DEF IndInv, Placed
    <3>2. SpaceDefined' /\ plan' = plan /\ hash' = hash
        BY <2>1 DEF IndInv, SpaceDefined, Register
    <3>3. /\ order' \in Seq(NodeIds) /\ \A i, j \in DOMAIN order' : order'[i] = order'[j] => i = j
          /\ ToSet(order') = ToSet(order) \cup {n}
      <4>1. CASE n \in ToSet(order)
          BY <4>1, <2>1 DEF Register, IndInv, Placed
      <4>2. CASE n \notin ToSet(order)
        <5>1. order' = Append(order, n)
            BY <4>2, <2>1 DEF Register
        <5>2. order \in Seq(NodeIds) /\ \A i, j \in DOMAIN order : order[i] = order[j] => i = j
            BY DEF IndInv, Placed
        <5> QED BY <5>1, <5>2, <4>2, <3>1, AppendNew
      <4> QED BY <4>1, <4>2
    <3>4. named' \subseteq ToSet(order')
        BY <3>3, <2>1 DEF Register, IndInv, Placed
    <3> QED BY <3>2, <3>3, <3>4 DEF IndInv, Placed
  <2>2. ASSUME NEW request \in Plans[plan].requests, CreateSpace(request) PROVE IndInv'
    <3>1. PICK def \in Definition(request) : \E cuts \in CutsOf(def) :
             space' = [def |-> def, request |-> request, cuts |-> cuts]
        BY <2>2 DEF CreateSpace
    <3>2. plan \in DOMAIN Plans
        BY DEF IndInv, Placed
    <3>3. Readable(def)
        BY <3>2, DefinitionAssumption DEF Readable
    <3>4. space'.def = def /\ space'.cuts \in CutsOf(def)
        BY <3>1
    <3>5. SpaceDefined'
        BY <3>3, <3>4 DEF SpaceDefined
    <3> QED BY <3>5, <2>2 DEF CreateSpace, IndInv, Placed
  <2>3. ASSUME DropSpace PROVE IndInv'
      BY <2>3 DEF DropSpace, IndInv, Placed, SpaceDefined
  <2>4. ASSUME UNCHANGED vars PROVE IndInv'
      BY <2>4 DEF vars, IndInv, Placed, SpaceDefined
  <2> QED BY <2>1, <2>2, <2>3, <2>4 DEF Next
<1> QED BY <1>1, <1>2

\* The inductive invariant has what the type invariant asks of cuts.
LEMMA CutsArePositiveIn ==
    ASSUME IndInv PROVE TypeOK
<1> SUFFICES ASSUME space # NoSpace, NEW i \in DOMAIN space.cuts, NEW d \in DOMAIN space.cuts[i]
             PROVE  space.cuts[i][d] > 0
    BY DEF TypeOK, IndInv, Placed
<1>1. Readable(space.def) /\ space.cuts \in CutsOf(space.def)
    BY DEF IndInv, SpaceDefined
<1>2. WellCut(space.def, space.cuts)
    BY <1>1, CutsAreWellFormed
<1>3. PICK n \in Nat \ {0} : space.cuts[i] \in [1..n -> Nat \ {0}]
    BY <1>2 DEF WellCut
<1> QED BY <1>3

\* Whatever the partitions and however a root is rounded, every dimension of every
\* subspace is cut at least once (legacy_partition_regions never divides by zero), and
\* register_daemon keeps the daemons distinct.
THEOREM TypeCorrect == Spec => []TypeOK
<1>1. IndInv => TypeOK
    BY CutsArePositiveIn
<1> QED BY <1>1, Invariance, PTL DEF Spec

-------------------------------------------------------------------------------
(* Clients and daemons                                                        *)

\* A hash is in exactly the interval that the client finds, and it is that of the
\* daemons or, where the partitions cut unevenly, the one after.
LEMMA RoutesMeet ==
    ASSUME NEW p \in Nat \ {0}, NEW sets, NEW h \in Hashes
    PROVE  LET client == ClientRegion(EncodeSubspace(<<p>>, sets), h)
               server == RegionForHash(h, p) + 1
           IN  \/ client = server
               \/ /\ ~CutsEvenly(p)
                  /\ 4 * p * p <= Size => client = server + 1 /\ JustBelowCut(h, p, server)
<1> DEFINE subspace == EncodeSubspace(<<p>>, sets)
           client == ClientRegion(subspace, h)
           In(i) == subspace[i].box[1][1] <= h /\ h <= subspace[i].box[1][2]
<1>1. PICK half \in Nat \ {0} : half = Size \div 2 /\ Size = 2 * half
    BY SizeAssumption, Division
<1>2. PICK k \in Nat : k = (half \div p) * 2
  <2>1. half \div p \in Nat
      BY Division
  <2> QED BY <2>1
<1>3. h \in Nat /\ h < 2 * half
    BY <1>1 DEF Hashes
<1>4. DOMAIN subspace = 1..p /\ \A j \in 1..p : subspace[j].box[1] = PartitionPoints(p)[j]
  <2>1. /\ DOMAIN RegionsOf(<<p>>) = 1..p
        /\ \A j \in 1..p : RegionsOf(<<p>>)[j][1] = PartitionPoints(p)[j]
      BY KeyRegions
  <2> QED BY <2>1 DEF EncodeSubspace
<1>5. ASSUME NEW j \in 1..p
      PROVE  /\ subspace[j].box[1][1] = (j - 1) * k
             /\ subspace[j].box[1][2] = IF j = p THEN Size - 1 ELSE j * k - 1
  <2>1. /\ PartitionPoints(p)[j][1] = (j - 1) * (((Size \div 2) \div p) * 2)
        /\ PartitionPoints(p)[j][2] =
              IF j = p THEN Size - 1 ELSE j * (((Size \div 2) \div p) * 2) - 1
      BY PointsAreIntervals
  <2>2. k = ((Size \div 2) \div p) * 2
      BY <1>1, <1>2
  <2>3. subspace[j].box[1] = PartitionPoints(p)[j]
      BY <1>4
  <2> HIDE DEF subspace
  <2> QED BY <2>1, <2>2, <2>3, Zenon
<1> HIDE DEF subspace
<1>6. \E j \in 1..p : In(j)
  <2>1. CASE (p - 1) * k <= h
    <3>1. p \in 1..p
        OBVIOUS
    <3> QED BY <3>1, <2>1, <1>1, <1>3, <1>5
  <2>2. CASE h < (p - 1) * k
    <3>1. k > 0
        BY <2>2, <1>3
    <3>2. PICK q \in Nat, r \in Nat : h = k * q + r /\ r < k
      <4>1. h \in Nat /\ k \in Nat \ {0}
          BY <3>1, <1>3
      <4>2. h \div k \in Nat /\ h % k \in 0..(k - 1) /\ h = k * (h \div k) + (h % k)
          BY <4>1, Division
      <4>3. h % k \in Nat /\ h % k < k
          BY <4>2
      <4> HIDE DEF In
      <4> QED BY <4>2, <4>3, Zenon
    <3>3. q * k <= h /\ h <= (q + 1) * k - 1
        BY <3>2
    <3>4. q < p - 1
      <4>1. q * k < (p - 1) * k /\ p - 1 \in Nat
        <5>1. PICK qk \in Nat : qk = q * k
            OBVIOUS
        <5>2. PICK pk \in Nat : pk = (p - 1) * k
          <6>1. p - 1 \in Nat
              OBVIOUS
          <6> QED BY <6>1, Affine
        <5> QED BY <5>1, <5>2, <3>3, <2>2, <1>3
      <4> QED BY <4>1, Untimes
    <3>5. q + 1 \in 1..p /\ q + 1 # p /\ (q + 1) - 1 = q
        BY <3>4
    <3> QED BY <3>3, <3>5, <1>5
  <2>3. (p - 1) * k \in Nat
    <3>1. p - 1 \in Nat
        OBVIOUS
    <3> QED BY <3>1, Affine
  <2> QED BY <2>1, <2>2, <2>3, <1>3
<1>7. client \in 1..p /\ In(client)
    BY <1>4, <1>6 DEF ClientRegion
<1> HIDE DEF client
<1>8. PICK c \in Nat : c = client - 1 /\ client = c + 1 /\ c < p
    BY <1>7
<1>9. c * k <= h /\ (c = p - 1 \/ h < (c + 1) * k)
  <2>1. /\ (client - 1) * k <= h
        /\ h <= IF client = p THEN Size - 1 ELSE client * k - 1
      BY <1>7, <1>5
  <2>2. PICK ck \in Nat : ck = client * k
      BY <1>7
  <2> QED BY <2>1, <2>2, <1>8, <1>3
<1>10. PICK s \in Nat : s = (h * p) \div (2 * half) /\ RegionForHash(h, p) = s
  <2>1. h * p \in Nat /\ 2 * half \in Nat \ {0}
      BY <1>3
  <2>2. (h * p) \div (2 * half) \in Nat
      BY <2>1, Division
  <2> QED BY <2>2, <1>1 DEF RegionForHash
<1>11. Meet(p, half, h, c, s)
  <2>1. c * ((half \div p) * 2) <= h /\ (c = p - 1 \/ h < (c + 1) * ((half \div p) * 2))
      BY <1>2, <1>9
  <2>2. h \in Nat /\ h < 2 * half /\ c < p /\ s = (h * p) \div (2 * half)
      BY <1>3, <1>8, <1>10
  <2> HIDE DEF In
  <2> QED BY <2>1, <2>2, RegionsMeet
<1>12. CASE c = s
    BY <1>12, <1>8, <1>10 DEF client, subspace
<1>13. CASE c # s
  <2>1. half % p # 0
      BY <1>11, <1>13 DEF Meet
  <2>2. ~CutsEvenly(p)
      BY <2>1, <1>1 DEF CutsEvenly
  <2>3. ASSUME 4 * p * p <= Size PROVE client = (s + 1) + 1 /\ JustBelowCut(h, p, s + 1)
    <3>1. c = s + 1 /\ (h + 2 * p) * p >= (s + 1) * (2 * half)
        BY <1>1, <1>11, <1>13, <2>3 DEF Meet
    <3> QED BY <3>1, <1>1, <1>8 DEF JustBelowCut
  <2> QED BY <2>2, <2>3, <1>10 DEF client, subspace
<1> QED BY <1>12, <1>13

\* A client sends a key to the daemon that the daemons take for its primary, except
\* just below a cut that is not even: for every hash space of even size (2 ^ 64 in the
\* code), every number of partitions and every set of daemons.
THEOREM RoutesToPrimary == Spec => []ClientRoutesToPrimary
<1>1. ASSUME IndInv PROVE ClientRoutesToPrimary
  <2> SUFFICES ASSUME space # NoSpace, order # <<>>, Encodes
               PROVE  LET subspace == EncodeSpace(space)[1]
                          p == space.def.partitions
                      IN  /\ \A r \in DOMAIN subspace :
                                subspace[r].servers
                                = LegacyLocate(Ids, space.def.fault_tolerance, p, r - 1)
                          /\ \A h \in Hashes :
                                LET client == ClientRegion(subspace, h)
                                    server == RegionForHash(h, p) + 1
                                IN  \/ client = server
                                    \/ /\ ~CutsEvenly(p)
                                       /\ 4 * p * p <= Size =>
                                             client = server + 1 /\ JustBelowCut(h, p, server)
      BY DEF ClientRoutesToPrimary
  <2> DEFINE p == space.def.partitions
             sets == SetsOf(space.def)
             subspace == EncodeSpace(space)[1]
  <2>1. Readable(space.def) /\ space.cuts \in CutsOf(space.def) /\ Encodable(space.def)
      BY <1>1 DEF IndInv, SpaceDefined, Encodes
  <2>2. WellCut(space.def, space.cuts)
      BY <2>1, CutsAreWellFormed
  <2>3. p \in Nat \ {0}
      BY <2>1 DEF Readable
  <2>4. subspace = EncodeSubspace(<<p>>, sets)
      BY <2>1, <2>2 DEF WellCut, EncodeSpace
  <2> HIDE DEF subspace
  <2>5. ASSUME NEW r \in DOMAIN subspace
        PROVE  subspace[r].servers = LegacyLocate(Ids, space.def.fault_tolerance, p, r - 1)
    <3>1. /\ DOMAIN RegionsOf(<<p>>) = 1..p /\ Len(RegionsOf(<<p>>)) = p
        BY <2>3, KeyRegions
    <3>2. r \in DOMAIN RegionsOf(<<p>>)
        BY <2>4 DEF EncodeSubspace
    <3>3. subspace[r].servers = IF sets = <<>> THEN <<>>
                                ELSE sets[(((r - 1) * Len(sets)) \div p) + 1]
        BY <3>1, <3>2, <2>4 DEF EncodeSubspace
    <3> QED BY <3>3 DEF LegacyLocate, SetsOf, CountOf
  <2>6. ASSUME NEW h \in Hashes
        PROVE  LET client == ClientRegion(subspace, h)
                   server == RegionForHash(h, p) + 1
               IN  \/ client = server
                   \/ /\ ~CutsEvenly(p)
                      /\ 4 * p * p <= Size => client = server + 1 /\ JustBelowCut(h, p, server)
    <3> HIDE DEF p, sets
    <3> QED BY <2>3, <2>4, RoutesMeet
  <2> QED BY <2>5, <2>6 DEF subspace
<1> QED BY <1>1, Invariance, PTL DEF Spec

-------------------------------------------------------------------------------
(* Regions tile                                                               *)

InRow(n, m, r) == \E i \in 1..n, j \in 1..m : r = (i - 1) * m + j

\* Every place in a list of rows is in one of them.
LEMMA GridPlace ==
    ASSUME NEW n \in Nat, NEW m \in Nat \ {0}, NEW r \in 1..n * m
    PROVE  InRow(n, m, r)
<1>1. PICK q \in Nat, d \in Nat : r - 1 = m * q + d /\ d < m
  <2>1. r - 1 \in Nat
      OBVIOUS
  <2>2. /\ (r - 1) \div m \in Nat /\ (r - 1) % m \in 0..(m - 1)
        /\ r - 1 = m * ((r - 1) \div m) + ((r - 1) % m)
      BY <2>1, Division
  <2>3. (r - 1) % m \in Nat /\ (r - 1) % m < m
      BY <2>2
  <2> QED BY <2>2, <2>3, Zenon
<1>2. q * m < n * m
  <2>1. PICK qm \in Nat : qm = q * m /\ m * q = qm
      OBVIOUS
  <2>2. PICK nm \in Nat : nm = n * m
      OBVIOUS
  <2> QED BY <2>1, <2>2, <1>1
<1>3. q < n
    BY <1>2, Untimes
<1>4. q + 1 \in 1..n /\ d + 1 \in 1..m /\ r = ((q + 1) - 1) * m + (d + 1)
    BY <1>1, <1>3
<1> QED BY <1>4 DEF InRow

\* No number added, and nothing multiplied.
LEMMA Nothing ==
    ASSUME NEW f \in [1..0 -> Int] PROVE Total(f) = 0 /\ Product(f) = 1
<1>1. 0 \in Nat
    OBVIOUS
<1> QED BY <1>1, TotalTrace, ProductTrace

\* Partial sums, as one fact about the list.
PartialSums(n, f, g) ==
    g \in [0..n -> Int] /\ g[0] = 0 /\ (\A k \in 1..n : g[k] = g[k - 1] + f[k])
    /\ Total(f) = g[n]

\* The products of two lists, row by row.
Products(n, m, f, a, w) ==
    /\ f \in [1..n * m -> Int] /\ a \in [1..n -> Int] /\ w \in [1..m -> Int]
    /\ \A i \in 1..n, j \in 1..m : f[(i - 1) * m + j] = a[i] * w[j]

\* The sum over rows of products is the product of the sums.
LEMMA SumGrid ==
    ASSUME NEW n \in Nat, NEW m \in Nat, NEW f, NEW a, NEW w, Products(n, m, f, a, w)
    PROVE  Total(f) = Total(a) * Total(w)
<1> SUFFICES ASSUME f \in [1..n * m -> Int], a \in [1..n -> Int], w \in [1..m -> Int],
                    \A i \in 1..n, j \in 1..m : f[(i - 1) * m + j] = a[i] * w[j]
             PROVE  Total(f) = Total(a) * Total(w)
    BY DEF Products
<1>1. PICK tf : PartialSums(n * m, f, tf)
  <2>1. PICK nm \in Nat : nm = n * m
      OBVIOUS
  <2>2. f \in [1..nm -> Int]
      BY <2>1
  <2>3. \E g \in [0..nm -> Int] :
           g[0] = 0 /\ (\A k \in 1..nm : g[k] = g[k - 1] + f[k]) /\ Total(f) = g[nm]
      BY <2>2, TotalTrace
  <2> QED BY <2>1, <2>3 DEF PartialSums
<1>2. PICK ta : PartialSums(n, a, ta)
  <2>1. \E g \in [0..n -> Int] :
           g[0] = 0 /\ (\A k \in 1..n : g[k] = g[k - 1] + a[k]) /\ Total(a) = g[n]
      BY TotalTrace
  <2> QED BY <2>1 DEF PartialSums
<1>3. PICK tw : PartialSums(m, w, tw)
  <2>1. \E g \in [0..m -> Int] :
           g[0] = 0 /\ (\A k \in 1..m : g[k] = g[k - 1] + w[k]) /\ Total(w) = g[m]
      BY TotalTrace
  <2> QED BY <2>1 DEF PartialSums
<1> DEFINE S == {i \in Nat : i <= n => tf[i * m] = ta[i] * tw[m]}
<1>4. 0 \in S
  <2>1. 0 * m = 0 /\ tw[m] \in Int
      BY <1>3 DEF PartialSums
  <2>2. tf[0] = 0 /\ ta[0] = 0
      BY <1>1, <1>2 DEF PartialSums
  <2> QED BY <2>1, <2>2
<1>5. ASSUME NEW i \in Nat, i \in S PROVE i + 1 \in S
  <2> SUFFICES ASSUME i + 1 <= n PROVE tf[(i + 1) * m] = ta[i + 1] * tw[m]
      OBVIOUS
  <2>1. PICK im \in Nat, nm \in Nat : im = i * m /\ nm = n * m /\ im + m <= nm
    <3>1. i + 1 \in Nat
        OBVIOUS
    <3>2. (i + 1) * m <= n * m /\ n * m \in Nat /\ i * m \in Nat
        BY <3>1, Times, Affine
    <3>3. (i + 1) * m = i * m + m
        OBVIOUS
    <3> QED BY <3>2, <3>3
  <2>2. PICK base \in Int, x \in Int : base = tf[im] /\ x = a[i + 1] /\ base = ta[i] * tw[m]
    <3>1. tf[im] \in Int /\ a[i + 1] \in Int
        BY <2>1, <1>1 DEF PartialSums
    <3>2. tf[im] = ta[i] * tw[m]
        BY <1>5, <2>1
    <3> QED BY <3>1, <3>2
  <2> DEFINE T == {j \in Nat : j <= m => tf[im + j] = base + x * tw[j]}
  <2>3. 0 \in T
    <3>1. im + 0 = im /\ tw[0] = 0
        BY <1>3 DEF PartialSums
    <3>2. base + x * 0 = base
        OBVIOUS
    <3>3. tf[im + 0] = base + x * tw[0]
        BY <3>1, <3>2, <2>2
    <3> QED BY <3>3
  <2>4. ASSUME NEW j \in Nat, j \in T PROVE j + 1 \in T
    <3> SUFFICES ASSUME j + 1 <= m PROVE tf[im + (j + 1)] = base + x * tw[j + 1]
        OBVIOUS
    <3>1. /\ im + (j + 1) \in 1..nm /\ (im + (j + 1)) - 1 = im + j
          /\ j + 1 \in 1..m /\ (j + 1) - 1 = j
      <4>1. im + m <= nm
          BY <2>1
      <4> HIDE DEF T
      <4> QED BY <4>1
    <3>2. tf[im + (j + 1)] = tf[im + j] + f[im + (j + 1)]
        BY <3>1, <2>1, <1>1 DEF PartialSums
    <3>3. tw[j + 1] = tw[j] + w[j + 1]
        BY <3>1, <1>3 DEF PartialSums
    <3>4. f[im + (j + 1)] = x * w[j + 1]
      <4>1. i + 1 \in 1..n /\ ((i + 1) - 1) * m = im
          BY <2>1
      <4>2. f[((i + 1) - 1) * m + (j + 1)] = a[i + 1] * w[j + 1]
          BY <4>1, <3>1
      <4> QED BY <4>1, <4>2, <2>2
    <3>5. PICK u \in Int, v \in Int : u = tw[j] /\ v = w[j + 1]
      <4>1. j \in 0..m
          OBVIOUS
      <4> QED BY <4>1, <3>1, <1>3 DEF PartialSums
    <3>6. tf[im + j] = base + x * u
        BY <2>4, <3>5
    <3>7. base + x * u + x * v = base + x * (u + v)
        OBVIOUS
    <3>8. x * u \in Int /\ x * v \in Int
        OBVIOUS
    <3> QED BY <3>2, <3>3, <3>4, <3>5, <3>6, <3>7, <3>8
  <2>5. \A j \in Nat : j \in T
    <3> HIDE DEF T
    <3> QED BY <2>3, <2>4, Induction
  <2>6. tf[im + m] = base + x * tw[m]
    <3>1. m \in T
        BY <2>5
    <3> QED BY <3>1
  <2>7. ta[i + 1] = ta[i] + x /\ ta[i] \in Int /\ tw[m] \in Int
    <3>1. i + 1 \in 1..n /\ (i + 1) - 1 = i /\ i \in 0..n /\ m \in 0..m
        OBVIOUS
    <3> QED BY <3>1, <2>2, <1>2, <1>3 DEF PartialSums
  <2>8. PICK u \in Int, v \in Int : u = ta[i] /\ v = tw[m]
      BY <2>7
  <2>9. (u + x) * v = u * v + x * v
      OBVIOUS
  <2>10. (i + 1) * m = im + m
      BY <2>1
  <2> QED BY <2>2, <2>6, <2>7, <2>8, <2>9, <2>10
<1>6. \A i \in Nat : i \in S
  <2> HIDE DEF S
  <2> QED BY <1>4, <1>5, Induction
<1>7. tf[n * m] = ta[n] * tw[m]
  <2>1. n \in S
      BY <1>6
  <2> QED BY <2>1
<1> QED BY <1>1, <1>2, <1>3, <1>7 DEF PartialSums

Width(point) == point[2] - point[1] + 1

\* The intervals of a dimension do not overlap and are together as long as the hash space.
LEMMA PointsTile ==
    ASSUME NEW c \in Nat \ {0}
    PROVE  /\ \A i, j \in 1..c : i # j => Apart(PartitionPoints(c)[i], PartitionPoints(c)[j])
           /\ [j \in 1..c |-> Width(PartitionPoints(c)[j])] \in [1..c -> Int]
           /\ Total([j \in 1..c |-> Width(PartitionPoints(c)[j])]) = Size
<1> DEFINE w == [j \in 1..c |-> Width(PartitionPoints(c)[j])]
<1>1. PICK k \in Nat : k = ((Size \div 2) \div c) * 2
  <2>1. Size \div 2 \in Nat
      BY SizeAssumption, Division
  <2>2. (Size \div 2) \div c \in Nat
      BY <2>1, Division
  <2> QED BY <2>2
<1>2. ASSUME NEW i \in 1..c
      PROVE  /\ PartitionPoints(c)[i][1] = (i - 1) * k
             /\ PartitionPoints(c)[i][2] = IF i = c THEN Size - 1 ELSE i * k - 1
  <2>1. /\ PartitionPoints(c)[i][1] = (i - 1) * (((Size \div 2) \div c) * 2)
        /\ PartitionPoints(c)[i][2] =
              IF i = c THEN Size - 1 ELSE i * (((Size \div 2) \div c) * 2) - 1
      BY PointsAreIntervals
  <2> QED BY <2>1, <1>1, Zenon
<1>3. ASSUME NEW i \in 1..c, NEW j \in 1..c, i < j
      PROVE  PartitionPoints(c)[i][2] < PartitionPoints(c)[j][1]
  <2>1. i \in Nat /\ j - 1 \in Nat /\ i <= j - 1 /\ i # c
      BY <1>3
  <2>2. i * k <= (j - 1) * k /\ i * k \in Nat /\ (j - 1) * k \in Nat
      BY <2>1, Times
  <2>3. i * k - 1 < (j - 1) * k
      BY <2>2
  <2> QED BY <2>1, <2>3, <1>2
<1>4. ASSUME NEW i \in 1..c, NEW j \in 1..c, i # j
      PROVE  Apart(PartitionPoints(c)[i], PartitionPoints(c)[j])
    BY <1>3, <1>4 DEF Apart
<1>5. ASSUME NEW j \in 1..c
      PROVE  w[j] = (IF j = c THEN Size ELSE j * k) - (j - 1) * k /\ w[j] \in Int
  <2>1. PICK a \in Nat, b \in Nat : a = (j - 1) * k /\ b = j * k
    <3>1. j - 1 \in Nat /\ j \in Nat
        OBVIOUS
    <3> QED BY <3>1, Affine
  <2>2. /\ PartitionPoints(c)[j][1] = a
        /\ PartitionPoints(c)[j][2] = IF j = c THEN Size - 1 ELSE b - 1
      BY <1>2, <2>1
  <2>3. w[j] = (IF j = c THEN Size - 1 ELSE b - 1) - a + 1
      BY <2>2 DEF Width
  <2>4. w[j] = (IF j = c THEN Size ELSE b) - a /\ w[j] \in Int
      BY <2>3, SizeAssumption
  <2> QED BY <2>1, <2>4
<1>6. w \in [1..c -> Int]
    BY <1>5
<1>7. PICK t : PartialSums(c, w, t)
  <2> HIDE DEF w
  <2>1. \E g \in [0..c -> Int] :
           g[0] = 0 /\ (\A i \in 1..c : g[i] = g[i - 1] + w[i]) /\ Total(w) = g[c]
      BY <1>6, TotalTrace
  <2> QED BY <2>1 DEF PartialSums
<1> HIDE DEF w
<1> DEFINE S == {i \in Nat : i < c => t[i] = i * k}
<1>8. 0 \in S
    BY <1>7 DEF PartialSums
<1>9. ASSUME NEW i \in Nat, i \in S PROVE i + 1 \in S
  <2> SUFFICES ASSUME i + 1 < c PROVE t[i + 1] = (i + 1) * k
      OBVIOUS
  <2>1. i + 1 \in 1..c /\ i + 1 # c /\ (i + 1) - 1 = i
      OBVIOUS
  <2>2. w[i + 1] = (i + 1) * k - i * k
      BY <2>1, <1>5
  <2>3. t[i + 1] = t[i] + w[i + 1]
      BY <2>1, <1>7 DEF PartialSums
  <2>4. t[i] = i * k
      BY <1>9
  <2>5. PICK a \in Nat, b \in Nat : a = i * k /\ b = (i + 1) * k
    <3>1. i + 1 \in Nat
        OBVIOUS
    <3> QED BY <3>1, Affine
  <2>6. t[i + 1] = a + (b - a)
      BY <2>2, <2>3, <2>4, <2>5
  <2> QED BY <2>5, <2>6
<1>10. \A i \in Nat : i \in S
  <2> HIDE DEF S
  <2> QED BY <1>8, <1>9, Induction
<1>11. Total(w) = Size
  <2>1. c - 1 \in Nat /\ c - 1 < c /\ c \in 1..c
      OBVIOUS
  <2>2. PICK a \in Nat : a = (c - 1) * k
      BY <2>1, Affine
  <2>3. t[c - 1] = a
      BY <2>1, <2>2, <1>10
  <2>4. t[c] = t[c - 1] + w[c] /\ Total(w) = t[c]
      BY <2>1, <1>7 DEF PartialSums
  <2>5. w[c] = Size - a
      BY <2>1, <2>2, <1>5
  <2> QED BY <2>3, <2>4, <2>5, SizeAssumption
<1> QED BY <1>4, <1>6, <1>11 DEF w

\* A box with one more dimension has its volume times the width there.
LEMMA VolumeOfAppend ==
    ASSUME NEW box \in Seq(Point), NEW point \in Point
    PROVE  /\ Volume(box) \in Int /\ Width(point) \in Int
           /\ Volume(Append(box, point)) = Volume(box) * Width(point)
<1>1. PICK n \in Nat : n = Len(box) /\ DOMAIN box = 1..n
    BY LenProperties
<1>2. /\ Append(box, point) \in Seq(Point) /\ Len(Append(box, point)) = n + 1
      /\ \A i \in 1..n : Append(box, point)[i] = box[i]
      /\ Append(box, point)[n + 1] = point
    BY <1>1, AppendProperties
<1>3. DOMAIN Append(box, point) = 1..n + 1
    BY <1>2, LenProperties
<1> DEFINE longer == Append(box, point)
           f == [d \in DOMAIN longer |-> longer[d][2] - longer[d][1] + 1]
           e == [d \in DOMAIN box |-> box[d][2] - box[d][1] + 1]
<1>4. Volume(longer) = Product(f) /\ Volume(box) = Product(e)
    BY DEF Volume
<1>5. ASSUME NEW d \in 1..n + 1 PROVE longer[d][2] - longer[d][1] + 1 \in Int
  <2>1. PICK x \in Point : x = longer[d]
      BY <1>2, ElementOfSeq
  <2>2. x[2] - x[1] + 1 \in Int
      BY DEF Point
  <2> HIDE DEF longer, f, e
  <2> QED BY <2>1, <2>2
<1>6. f \in [1..n + 1 -> Int]
    BY <1>3, <1>5
<1>7. f[n + 1] = Width(point) /\ Width(point) \in Int
    BY <1>2, <1>3, <1>5 DEF Width
<1>8. e = [d \in 1..n |-> f[d]]
  <2>1. \A d \in 1..n : d \in 1..n + 1
      OBVIOUS
  <2> QED BY <2>1, <1>1, <1>2, <1>3
<1> HIDE DEF f, e
<1>9. Product([d \in 1..n |-> f[d]]) \in Int
      /\ Product(f) = Product([d \in 1..n |-> f[d]]) * f[n + 1]
    BY <1>6, ProductStep
<1> QED BY <1>4, <1>7, <1>8, <1>9

Tile(n, boxes) ==
    /\ \A r \in DOMAIN boxes : DOMAIN boxes[r] = 1..n
    /\ \A r, s \in DOMAIN boxes : r # s => Disjoint(boxes[r], boxes[s])
    /\ Total([r \in DOMAIN boxes |-> Volume(boxes[r])]) = Power(Size, n)

\* Boxes that tile the space of some dimensions, extended by the intervals of one more,
\* tile the space of them all.
LEMMA ExtendedTile ==
    ASSUME NEW n \in Nat, NEW boxes \in Boxes, Tile(n, boxes), NEW c \in Nat \ {0}
    PROVE  Tile(n + 1, Extended(boxes, PartitionPoints(c)))
<1> DEFINE points == PartitionPoints(c)
           more == Extended(boxes, points)
<1>1. points \in Seq(Point) /\ Len(points) = c /\ points # <<>>
      /\ \A j \in 1..c : points[j] \in Point
  <2>1. Len(<<>>) = 0
      OBVIOUS
  <2> QED BY <2>1, PointsAreIntervals
<1>2. /\ \A i, j \in 1..c : i # j => Apart(points[i], points[j])
      /\ [j \in 1..c |-> Width(points[j])] \in [1..c -> Int]
      /\ Total([j \in 1..c |-> Width(points[j])]) = Size
    BY PointsTile
<1> HIDE DEF points
<1>3. PICK m \in Nat : m = Len(boxes) /\ DOMAIN boxes = 1..m /\ \A i \in 1..m : boxes[i] \in Seq(Point)
    BY LenProperties, ElementOfSeq DEF Boxes
<1>4. /\ more \in Boxes /\ Len(more) = m * c
      /\ \A i \in 1..m, j \in 1..c : more[(i - 1) * c + j] = Append(boxes[i], points[j])
  <2>1. /\ more \in Boxes /\ Len(more) = Len(boxes) * Len(points)
        /\ \A i \in 1..Len(boxes), j \in 1..Len(points) :
              more[(i - 1) * Len(points) + j] = Append(boxes[i], points[j])
      BY <1>1, BoxesExtend
  <2> QED BY <2>1, <1>1, <1>3
<1>5. DOMAIN more = 1..m * c
  <2>1. more \in Seq(Seq(Point))
      BY <1>4 DEF Boxes
  <2> QED BY <2>1, <1>4, LenProperties
<1> HIDE DEF more
<1>6. ASSUME NEW r \in DOMAIN more
      PROVE  \E i \in 1..m, j \in 1..c :
                r = (i - 1) * c + j /\ more[r] = Append(boxes[i], points[j])
  <2>1. InRow(m, c, r)
      BY <1>5, GridPlace
  <2>2. PICK i \in 1..m, j \in 1..c : r = (i - 1) * c + j
      BY <2>1 DEF InRow
  <2> QED BY <2>2, <1>4
<1>7. ASSUME NEW i \in 1..m, NEW j \in 1..c
      PROVE  /\ DOMAIN Append(boxes[i], points[j]) = 1..n + 1
             /\ \A d \in 1..n : Append(boxes[i], points[j])[d] = boxes[i][d]
             /\ Append(boxes[i], points[j])[n + 1] = points[j]
  <2>1. PICK b \in Seq(Point), x \in Point : b = boxes[i] /\ x = points[j]
      BY <1>1, <1>3
  <2>2. DOMAIN b = 1..n
      BY <1>3, <2>1 DEF Tile
  <2>3. Len(b) = n
      BY <2>2, LenProperties
  <2>4. /\ Append(b, x) \in Seq(Point) /\ Len(Append(b, x)) = n + 1
        /\ \A d \in 1..n : Append(b, x)[d] = b[d]
        /\ Append(b, x)[n + 1] = x
      BY <2>3, AppendProperties
  <2>5. DOMAIN Append(b, x) = 1..n + 1
      BY <2>4, LenProperties
  <2> QED BY <2>1, <2>4, <2>5
<1>8. \A r \in DOMAIN more : DOMAIN more[r] = 1..n + 1
    BY <1>6, <1>7
<1>9. ASSUME NEW r \in DOMAIN more, NEW s \in DOMAIN more, r # s
      PROVE  Disjoint(more[r], more[s])
  <2>1. PICK i \in 1..m, j \in 1..c :
           r = (i - 1) * c + j /\ more[r] = Append(boxes[i], points[j])
      BY <1>6
  <2>2. PICK k \in 1..m, l \in 1..c :
           s = (k - 1) * c + l /\ more[s] = Append(boxes[k], points[l])
      BY <1>6
  <2>3. CASE i = k
    <3>1. j # l
        BY <2>1, <2>2, <2>3, <1>9
    <3>2. Apart(points[j], points[l])
        BY <3>1, <1>2
    <3>3. n + 1 \in 1..n + 1 /\ more[r][n + 1] = points[j] /\ more[s][n + 1] = points[l]
        BY <2>1, <2>2, <1>7
    <3> QED BY <3>2, <3>3, <1>8 DEF Disjoint
  <2>4. CASE i # k
    <3>1. Disjoint(boxes[i], boxes[k]) /\ DOMAIN boxes[i] = 1..n
        BY <2>4, <1>3 DEF Tile
    <3>2. PICK d \in 1..n : Apart(boxes[i][d], boxes[k][d])
        BY <3>1 DEF Disjoint
    <3>3. d \in 1..n + 1 /\ more[r][d] = boxes[i][d] /\ more[s][d] = boxes[k][d]
        BY <2>1, <2>2, <1>7
    <3> QED BY <3>2, <3>3, <1>8 DEF Disjoint
  <2> QED BY <2>3, <2>4
<1>10. Total([r \in DOMAIN more |-> Volume(more[r])]) = Power(Size, n + 1)
  <2> DEFINE f == [r \in DOMAIN more |-> Volume(more[r])]
             a == [i \in DOMAIN boxes |-> Volume(boxes[i])]
             w == [j \in 1..c |-> Width(points[j])]
  <2>1. ASSUME NEW i \in 1..m, NEW j \in 1..c
        PROVE  /\ Volume(boxes[i]) \in Int /\ Width(points[j]) \in Int
               /\ Volume(Append(boxes[i], points[j])) = Volume(boxes[i]) * Width(points[j])
      BY <1>1, <1>3, VolumeOfAppend
  <2>2. a \in [1..m -> Int] /\ w \in [1..c -> Int]
    <3>1. 1 \in 1..c
        OBVIOUS
    <3>2. \A i \in 1..m : Volume(boxes[i]) \in Int
        BY <3>1, <2>1
    <3> HIDE DEF f
    <3> QED BY <3>2, <1>2, <1>3
  <2>3. ASSUME NEW r \in DOMAIN more PROVE Volume(more[r]) \in Int
    <3>1. PICK i \in 1..m, j \in 1..c : more[r] = Append(boxes[i], points[j])
        BY <1>6
    <3>2. PICK x \in Int, y \in Int : x = Volume(boxes[i]) /\ y = Width(points[j])
        BY <2>1
    <3>3. Volume(more[r]) = x * y /\ x * y \in Int
        BY <3>1, <3>2, <2>1
    <3> QED BY <3>3
  <2>4. f \in [1..m * c -> Int]
      BY <2>3, <1>5
  <2>5. ASSUME NEW i \in 1..m, NEW j \in 1..c PROVE f[(i - 1) * c + j] = a[i] * w[j]
    <3>1. PICK r : r = (i - 1) * c + j
        OBVIOUS
    <3>2. r \in 1..m * c
      <4>1. PICK ic \in Nat, mc \in Nat : ic = (i - 1) * c /\ mc = m * c /\ ic + c <= mc
        <5>1. i - 1 \in Nat /\ i \in Nat /\ i <= m
            OBVIOUS
        <5>2. i * c <= m * c /\ m * c \in Nat /\ (i - 1) * c \in Nat
            BY <5>1, Times, Affine
        <5>3. i * c = (i - 1) * c + c
            OBVIOUS
        <5> QED BY <5>2, <5>3
      <4>2. ic + c <= mc
          BY <4>1
      <4>3. ic + j \in 1..mc
          BY <4>2
      <4> QED BY <3>1, <4>1, <4>3
    <3>3. more[r] = Append(boxes[i], points[j])
        BY <3>1, <1>4
    <3>4. f[r] = Volume(boxes[i]) * Width(points[j])
        BY <3>2, <3>3, <2>1, <1>5
    <3>5. a[i] = Volume(boxes[i]) /\ w[j] = Width(points[j])
        BY <1>3
    <3> QED BY <3>1, <3>4, <3>5
  <2>6. Total(w) = Size /\ Total(a) = Power(Size, n)
      BY <1>2 DEF Tile
  <2> HIDE DEF f, a, w
  <2>7. Total(f) = Total(a) * Total(w)
    <3>1. Products(m, c, f, a, w)
        BY <2>2, <2>4, <2>5 DEF Products
    <3>2. m \in Nat /\ c \in Nat
        OBVIOUS
    <3> QED BY <3>1, <3>2, SumGrid
  <2>8. Power(Size, n + 1) = Power(Size, n) * Size
      BY SizeAssumption, PowerStep
  <2> QED BY <2>6, <2>7, <2>8 DEF f
<1> QED BY <1>8, <1>9, <1>10 DEF Tile, more, points

\* The boxes of a subspace tile its space.
LEMMA BoxesTile ==
    ASSUME NEW n \in Nat \ {0}, NEW cuts \in [1..n -> Nat \ {0}]
    PROVE  RegionsOf(cuts) \in Boxes /\ Tile(n, RegionsOf(cuts))
<1>1. PICK g \in [0..n -> Boxes] :
         /\ g[0] = <<<<>>>> /\ RegionsOf(cuts) = g[n]
         /\ \A k \in 1..n : g[k] = Extended(g[k - 1], PointsIn(cuts, k))
  <2>1. RegionSteps(cuts, n)
      BY RegionsTrace
  <2> QED BY <2>1 DEF RegionSteps
<1>2. Len(cuts) = n
    BY IsSequence
<1> DEFINE S == {k \in Nat : k <= n => Tile(k, g[k])}
<1>3. 0 \in S
  <2> DEFINE none == <<<<>>>>
             f == [r \in DOMAIN none |-> Volume(none[r])]
  <2>1. DOMAIN none = 1..1 /\ none[1] = <<>> /\ DOMAIN <<>> = 1..0
      OBVIOUS
  <2>2. Volume(<<>>) = 1
    <3> DEFINE e == [d \in DOMAIN <<>> |-> <<>>[d][2] - <<>>[d][1] + 1]
    <3>1. e \in [1..0 -> Int]
        OBVIOUS
    <3>2. Volume(<<>>) = Product(e)
        BY DEF Volume
    <3> HIDE DEF e
    <3> QED BY <3>1, <3>2, Nothing
  <2>3. Total(f) = 1
    <3>1. f \in [1..0 + 1 -> Int] /\ f[0 + 1] = 1
        BY <2>1, <2>2
    <3> HIDE DEF f
    <3>2. Total(f) = Total([i \in 1..0 |-> f[i]]) + f[0 + 1]
        BY <3>1, TotalStep
    <3>3. [i \in 1..0 |-> f[i]] \in [1..0 -> Int]
        OBVIOUS
    <3>4. Total([i \in 1..0 |-> f[i]]) = 0
        BY <3>3, Nothing
    <3> QED BY <3>1, <3>2, <3>4
  <2>4. Power(Size, 0) = 1
      BY SizeAssumption, PowerStep
  <2>5. \A r \in DOMAIN none : DOMAIN none[r] = 1..0
      BY <2>1
  <2>6. \A r, s \in DOMAIN none : r = s
      BY <2>1
  <2>7. Tile(0, none)
      BY <2>3, <2>4, <2>5, <2>6 DEF Tile
  <2> QED BY <2>7, <1>1
<1>4. ASSUME NEW k \in Nat, k \in S PROVE k + 1 \in S
  <2> SUFFICES ASSUME k + 1 <= n PROVE Tile(k + 1, g[k + 1])
      OBVIOUS
  <2>1. k + 1 \in 1..n /\ (k + 1) - 1 = k /\ k \in 0..n /\ Tile(k, g[k])
      BY <1>4
  <2>2. PICK c \in Nat \ {0} : PointsIn(cuts, k + 1) = PartitionPoints(c)
      BY <2>1, <1>2 DEF PointsIn
  <2>3. g[k + 1] = Extended(g[k], PartitionPoints(c)) /\ g[k] \in Boxes
      BY <2>1, <2>2, <1>1
  <2> QED BY <2>1, <2>3, ExtendedTile
<1>5. \A k \in Nat : k \in S
  <2> HIDE DEF S
  <2> QED BY <1>3, <1>4, Induction
<1>6. Tile(n, g[n]) /\ g[n] \in Boxes
    BY <1>5
<1> QED BY <1>1, <1>6

-------------------------------------------------------------------------------
(* Sorting by the number of those before                                      *)

\* The list with each element in its place.
Arranged(list, place, n) ==
    SubSeq([k \in 1..n |-> list[CHOOSE i \in 1..n : place[i] = k]], 1, n)

\* A list of the elements of V, each once, and the number of those before each.
Lists(V, n, list) ==
    list \in [1..n -> V] /\ Distinct(list) /\ \A x \in V : \E i \in 1..n : list[i] = x
Places(Q, n, list, place) ==
    \A i \in 1..n : place[i] = Cardinality({j \in 1..n : <<list[j], list[i]>> \in Q}) + 1

\* Putting each element of a list without repetition into the place that the number of
\* those before it gives sorts the list.
LEMMA PlacesSort ==
    ASSUME NEW V, NEW n \in Nat, NEW list, Lists(V, n, list), NEW Q, Order(V, Q),
           NEW place, Places(Q, n, list, place)
    PROVE  /\ IsFiniteSet(V) /\ Cardinality(V) = n
           /\ Ranked(V, Q, Arranged(list, place, n))
<1> USE DEF Lists, Places
<1>1. IsFiniteSet(V) /\ Cardinality(V) = n
    BY FirstNumbers, SameNumber
<1>2. ASSUME NEW i \in 1..n
      PROVE  place[i] = Cardinality(Below(V, Q, list[i])) + 1 /\ list[i] \in V
  <2> DEFINE S == {j \in 1..n : <<list[j], list[i]>> \in Q}
             T == Below(V, Q, list[i])
             f == [j \in S |-> list[j]]
  <2>1. f \in [S -> T]
      BY DEF Below
  <2>2. Distinct(f)
      BY DEF Distinct
  <2>3. \A y \in T : \E j \in S : f[j] = y
      BY DEF Below
  <2>4. IsFiniteSet(S)
    <3>1. S \in SUBSET (1..n)
        OBVIOUS
    <3> HIDE DEF S
    <3> QED BY <3>1, FirstNumbers, FS_Subset
  <2>5. place[i] = Cardinality(S) + 1
      OBVIOUS
  <2> HIDE DEF S, T, f
  <2>6. Cardinality(T) = Cardinality(S)
      BY <2>1, <2>2, <2>3, <2>4, SameNumber
  <2> QED BY <2>5, <2>6 DEF T
<1> DEFINE at(k) == CHOOSE i \in 1..n : place[i] = k
           sorted == [k \in 1..n |-> list[at(k)]]
           s == SubSeq(sorted, 1, n)
<1>3. ASSUME NEW k \in 1..n PROVE at(k) \in 1..n /\ place[at(k)] = k
  <2>1. k - 1 \in Nat /\ k - 1 < Cardinality(V) /\ (k - 1) + 1 = k
      BY <1>1
  <2>2. HasRank(V, Q, k - 1)
      BY <2>1, <1>1, RankOnto
  <2>3. PICK x \in V : Cardinality(Below(V, Q, x)) = k - 1
      BY <2>2 DEF HasRank
  <2>4. PICK i \in 1..n : list[i] = x
      OBVIOUS
  <2>5. place[i] = k
      BY <2>1, <2>3, <2>4, <1>2
  <2> QED BY <2>5
<1> HIDE DEF at
<1>4. ASSUME NEW k \in 1..n PROVE sorted[k] \in V /\ Cardinality(Below(V, Q, sorted[k])) = k - 1
  <2>1. sorted[k] = list[at(k)]
      OBVIOUS
  <2>2. PICK r \in Nat : r = Cardinality(Below(V, Q, list[at(k)]))
      BY <1>1, <1>2, <1>3, RankBounded
  <2>3. k = r + 1
      BY <2>2, <1>2, <1>3
  <2>4. r = k - 1
      BY <2>3
  <2> HIDE DEF sorted
  <2> QED BY <2>1, <2>2, <2>4, <1>2, <1>3
<1> HIDE DEF sorted
<1>5. /\ s \in Seq(V) /\ Len(s) = IF 1 <= n THEN n - 1 + 1 ELSE 0
      /\ \A i \in 1..n - 1 + 1 : s[i] = sorted[1 + i - 1]
  <2>1. 1 \in Int /\ n \in Int
      OBVIOUS
  <2> QED BY <2>1, <1>4, SubSeqProperties
<1>6. Len(s) = n /\ DOMAIN s = 1..n
  <2>1. Len(s) = n
      BY <1>5
  <2> QED BY <2>1, <1>5, LenProperties
<1>7. ASSUME NEW k \in 1..n PROVE s[k] = sorted[k]
  <2>1. k \in 1..n - 1 + 1 /\ 1 + k - 1 = k
      OBVIOUS
  <2> QED BY <2>1, <1>5
<1>8. Ranked(V, Q, s)
  <2> HIDE DEF s
  <2> QED BY <1>1, <1>4, <1>5, <1>6, <1>7 DEF Ranked
<1> QED BY <1>1, <1>8 DEF Arranged, s, sorted, at

Less(V) == {q \in V \X V : q[1] < q[2]}

\* Daemons are gone through by id, every one once.
LEMMA IdsRanked ==
    ASSUME order \in Seq(NodeIds), Distinct(order)
    PROVE  /\ IsFiniteSet(ToSet(order)) /\ Cardinality(ToSet(order)) = Len(order)
           /\ Order(ToSet(order), Less(ToSet(order)))
           /\ Ranked(ToSet(order), Less(ToSet(order)), Ids)
<1> DEFINE V == ToSet(order)
           Q == Less(V)
           Ahead(j, i) == order[j] < order[i] \/ (~(order[i] < order[j]) /\ j < i)
<1>1. PICK n \in Nat : n = Len(order) /\ DOMAIN order = 1..n
    BY LenProperties
<1>2. order \in [1..n -> V] /\ \A x \in V : \E i \in 1..n : order[i] = x
    BY <1>1 DEF ToSet
<1>3. V \subseteq Nat
  <2>1. \A i \in 1..n : order[i] \in NodeIds
      BY <1>1, ElementOfSeq
  <2> QED BY <2>1, <1>2, NodeIdsAssumption
<1>4. Order(V, Q)
  <2>1. \A x, y \in V : <<x, y>> \in Q <=> x < y
      BY DEF Less
  <2> HIDE DEF V, Q
  <2> QED BY <2>1, <1>3 DEF Order
<1> DEFINE place == [i \in 1..n |-> Cardinality({j \in DOMAIN order : Ahead(j, i)}) + 1]
<1>5. ASSUME NEW i \in 1..n
      PROVE  place[i] = Cardinality({j \in 1..n : <<order[j], order[i]>> \in Q}) + 1
  <2>1. ASSUME NEW j \in 1..n PROVE Ahead(j, i) <=> <<order[j], order[i]>> \in Q
    <3>1. order[i] \in V /\ order[j] \in V /\ order[i] \in Nat /\ order[j] \in Nat
        BY <1>2, <1>3
    <3>2. <<order[j], order[i]>> \in Q <=> order[j] < order[i]
        BY <3>1 DEF Less
    <3>3. order[i] = order[j] => i = j
        BY <1>1 DEF Distinct
    <3> QED BY <3>1, <3>2, <3>3
  <2> HIDE DEF Ahead, Q
  <2>2. {j \in DOMAIN order : Ahead(j, i)} = {j \in 1..n : <<order[j], order[i]>> \in Q}
      BY <2>1, <1>1
  <2> QED BY <2>2
<1>6. Ids = Arranged(order, place, n)
  <2> DEFINE A == [k \in 1..n |-> order[CHOOSE i \in 1..n : place[i] = k]]
             B == [k \in 1..n |-> order[CHOOSE i \in 1..n :
                                          Cardinality({j \in DOMAIN order : Ahead(j, i)}) + 1 = k]]
  <2>1. Ids = SubSeq(B, 1, n)
      BY <1>1 DEF Ids, Sorted
  <2>2. A = B
    <3> SUFFICES ASSUME NEW k \in 1..n PROVE A[k] = B[k]
        OBVIOUS
    <3> HIDE DEF Ahead
    <3>1. \A i \in 1..n :
             (place[i] = k) <=> (Cardinality({j \in DOMAIN order : Ahead(j, i)}) + 1 = k)
        OBVIOUS
    <3>2. (CHOOSE i \in 1..n : place[i] = k)
          = (CHOOSE i \in 1..n : Cardinality({j \in DOMAIN order : Ahead(j, i)}) + 1 = k)
        BY <3>1
    <3>3. A[k] = order[CHOOSE i \in 1..n : place[i] = k]
      <4> HIDE DEF place
      <4> QED OBVIOUS
    <3>4. B[k] = order[CHOOSE i \in 1..n : Cardinality({j \in DOMAIN order : Ahead(j, i)}) + 1 = k]
        OBVIOUS
    <3> HIDE DEF A, B, place
    <3> QED BY <3>2, <3>3, <3>4
  <2>3. Arranged(order, place, n) = SubSeq(A, 1, n)
      BY DEF Arranged
  <2> HIDE DEF A, B
  <2> QED BY <2>1, <2>2, <2>3
<1> HIDE DEF V, Q, place
<1>7. /\ IsFiniteSet(V) /\ Cardinality(V) = n
      /\ Ranked(V, Q, Arranged(order, place, n))
  <2>1. Lists(V, n, order) /\ Places(Q, n, order, place)
      BY <1>2, <1>5 DEF Lists, Places
  <2> QED BY <2>1, <1>4, PlacesSort
<1> QED BY <1>1, <1>4, <1>6, <1>7 DEF V, Q

-------------------------------------------------------------------------------
(* Replica sets                                                               *)

\* Numbers with one rest are far apart.
LEMMA SameRest ==
    ASSUME NEW n \in Nat \ {0}, NEW a \in Nat, NEW b \in Nat, a < b, b < a + n
    PROVE  a % n # b % n
<1>1. PICK qa \in Nat, ra \in Nat : ra = a % n /\ a = n * qa + ra
  <2>1. a \div n \in Nat /\ a % n \in 0..(n - 1) /\ a = n * (a \div n) + (a % n)
      BY Division
  <2>2. a % n \in Nat
      BY <2>1
  <2> QED BY <2>1, <2>2, Zenon
<1>2. PICK qb \in Nat, rb \in Nat : rb = b % n /\ b = n * qb + rb
  <2>1. b \div n \in Nat /\ b % n \in 0..(n - 1) /\ b = n * (b \div n) + (b % n)
      BY Division
  <2>2. b % n \in Nat
      BY <2>1
  <2> QED BY <2>1, <2>2, Zenon
<1> SUFFICES ASSUME ra = rb PROVE FALSE
    BY <1>1, <1>2
<1>3. PICK x \in Nat, y \in Nat : x = qa * n /\ y = qb * n /\ a = x + ra /\ b = y + ra
  <2>1. qa * n \in Nat /\ qb * n \in Nat /\ n * qa = qa * n /\ n * qb = qb * n
      OBVIOUS
  <2> QED BY <2>1, <1>1, <1>2
<1>4. x < y /\ y < x + n
    BY <1>3
<1>5. qa < qb
    BY <1>3, <1>4, Untimes
<1>6. qa + 1 \in Nat /\ qa + 1 <= qb
    BY <1>5
<1>7. (qa + 1) * n <= qb * n
    BY <1>6, Times
<1>8. (qa + 1) * n = x + n
    BY <1>3
<1> QED BY <1>3, <1>4, <1>7, <1>8

\* Lists of r elements of Y, each at most once.
Offers(r, Y) == {f \in [1..r -> Y] : Distinct(f)}

\* A rotation has every node once.
LEMMA RotationsAreChoices ==
    ASSUME NEW Y, NEW ids \in Seq(Y), ids # <<>>, Distinct(ids)
    PROVE  /\ DOMAIN Rotations(ids) = 1..Len(ids) /\ Len(Rotations(ids)) = Len(ids)
           /\ Rotations(ids) # <<>>
           /\ \A i \in 1..Len(ids) : Rotations(ids)[i] \in Offers(Len(ids), Y)
<1>1. PICK n \in Nat \ {0} : n = Len(ids) /\ DOMAIN ids = 1..n
    BY EmptySeq, LenProperties
<1> DEFINE at(start, k) == ((start + k - 2) % n) + 1
           set(start) == [k \in 1..n |-> ids[at(start, k)]]
<1>2. Rotations(ids) = [start \in 1..n |-> set(start)]
    BY <1>1 DEF Rotations
<1>3. ASSUME NEW start \in 1..n, NEW k \in 1..n PROVE at(start, k) \in 1..n
  <2>1. start + k - 2 \in Nat
      OBVIOUS
  <2>2. (start + k - 2) % n \in 0..(n - 1)
      BY <2>1, Division
  <2> QED BY <2>2
<1>4. ASSUME NEW start \in 1..n, NEW k \in 1..n, NEW l \in 1..n, k < l
      PROVE  at(start, k) # at(start, l)
  <2>1. PICK a \in Nat, b \in Nat : a = start + k - 2 /\ b = start + l - 2 /\ a < b /\ b < a + n
    <3>1. start + k - 2 \in Nat /\ start + l - 2 \in Nat
        OBVIOUS
    <3> QED BY <3>1, <1>4
  <2>2. a % n # b % n
      BY <2>1, SameRest
  <2>3. a % n \in 0..(n - 1) /\ b % n \in 0..(n - 1)
      BY Division
  <2>4. at(start, k) = (a % n) + 1 /\ at(start, l) = (b % n) + 1
      BY <2>1
  <2> QED BY <2>2, <2>3, <2>4
<1> HIDE DEF at
<1>5. ASSUME NEW start \in 1..n PROVE set(start) \in Offers(n, Y)
  <2>1. set(start) \in [1..n -> Y]
    <3>1. \A k \in 1..n : ids[k] \in Y
        BY <1>1, ElementOfSeq
    <3> QED BY <3>1, <1>3
  <2>2. ASSUME NEW k \in 1..n, NEW l \in 1..n, set(start)[k] = set(start)[l] PROVE k = l
    <3>1. ids[at(start, k)] = ids[at(start, l)]
        BY <2>2
    <3>2. at(start, k) = at(start, l)
        BY <3>1, <1>1, <1>3 DEF Distinct
    <3>3. ~(k < l) /\ ~(l < k)
        BY <3>2, <1>4
    <3> QED BY <3>3
  <2> HIDE DEF set
  <2>3. DOMAIN set(start) = 1..n
      BY <2>1
  <2> QED BY <2>1, <2>2, <2>3 DEF Offers, Distinct
<1> HIDE DEF set
<1>6. Rotations(ids) \in [1..n -> Offers(n, Y)]
    BY <1>2, <1>5
<1>7. Len(Rotations(ids)) = n /\ DOMAIN Rotations(ids) = 1..n
    BY <1>6, IsSequence
<1>8. Rotations(ids) # <<>>
  <2>1. Len(<<>>) = 0
      OBVIOUS
  <2> QED BY <2>1, <1>7
<1> QED BY <1>1, <1>2, <1>5, <1>7, <1>8

\* A stride that is counted stays in the list.
LEMMA StrideStays ==
    ASSUME NEW n \in Nat, NEW replicas \in Nat \ {0}, NEW partitions \in Nat, NEW start \in 1..n
    PROVE  /\ Cardinality(StridesFrom(n, replicas, partitions, start)) \in Nat
           /\ \A stride \in 1..Cardinality(StridesFrom(n, replicas, partitions, start)) :
                 start + stride * (replicas - 1) <= n
<1> DEFINE S == StridesFrom(n, replicas, partitions, start)
<1>1. IsFiniteSet(1..partitions)
    BY FirstNumbers
<1>2. S \in SUBSET (1..partitions)
    BY DEF StridesFrom
<1>3. IsFiniteSet(S) /\ Cardinality(S) \in Nat
  <2> HIDE DEF S
  <2>1. IsFiniteSet(S)
      BY <1>1, <1>2, FS_Subset
  <2> QED BY <2>1, FS_CardinalityType
<1>4. ASSUME NEW stride \in 1..Cardinality(S) PROVE start + stride * (replicas - 1) <= n
  <2>0. stride \in Nat /\ stride >= 1 /\ stride <= Cardinality(S)
    <3> HIDE DEF S
    <3> QED BY <1>3
  <2> SUFFICES ASSUME ~(start + stride * (replicas - 1) <= n) PROVE FALSE
      OBVIOUS
  <2>1. S \subseteq 1..(stride - 1)
    <3> SUFFICES ASSUME NEW s \in S, ~(s <= stride - 1) PROVE FALSE
        BY <1>2, <2>0
    <3>1. s \in Nat /\ start + s * (replicas - 1) <= n
        BY DEF StridesFrom
    <3>2. PICK r \in Nat : r = replicas - 1
        OBVIOUS
    <3>3. stride <= s
        BY <2>0, <3>1
    <3>4. stride * r <= s * r /\ stride * r \in Nat /\ s * r \in Nat
        BY <2>0, <3>1, <3>3, Times
    <3>5. start + s * r <= n /\ ~(start + stride * r <= n)
        BY <3>1, <3>2
    <3> HIDE DEF S
    <3> QED BY <3>4, <3>5
  <2> HIDE DEF S
  <2>2. PICK m \in Nat : m = stride - 1
      BY <2>0
  <2>3. IsFiniteSet(1..m) /\ Cardinality(1..m) = m
      BY FirstNumbers
  <2>4. S \in SUBSET (1..m)
      BY <2>1, <2>2
  <2>5. Cardinality(S) <= m
    <3>1. PICK T : T = 1..m
        OBVIOUS
    <3>2. IsFiniteSet(T) /\ S \in SUBSET T /\ Cardinality(T) = m
        BY <3>1, <2>3, <2>4
    <3>3. Cardinality(S) <= Cardinality(T)
        BY <3>2, FS_Subset
    <3> QED BY <3>2, <3>3
  <2> QED BY <2>0, <2>2, <2>5, <1>3
<1> QED BY <1>3, <1>4

\* Stepping through the list by a stride chooses each node at most once.
LEMMA StridedAreChoices ==
    ASSUME NEW Y, NEW ids \in Seq(Y), Distinct(ids), NEW replicas \in Nat \ {0},
           replicas < Len(ids), NEW partitions \in Nat \ {0}
    PROVE  /\ Strided(ids, replicas, partitions) \in Seq(Offers(replicas, Y))
           /\ Strided(ids, replicas, partitions) # <<>>
<1>1. PICK n \in Nat : n = Len(ids) /\ DOMAIN ids = 1..n /\ \A k \in 1..n : ids[k] \in Y
    BY LenProperties, ElementOfSeq
<1> DEFINE X == Offers(replicas, Y)
           c(start) == Cardinality(StridesFrom(n, replicas, partitions, start))
           set(start, stride) == [k \in 1..replicas |-> ids[start + stride * (k - 1)]]
           from(start) == [stride \in 1..c(start) |-> set(start, stride)]
           seqs == [start \in 1..n |-> from(start)]
<1>2. Strided(ids, replicas, partitions) = FlattenSeq(seqs)
    BY <1>1 DEF Strided
<1>3. ASSUME NEW start \in 1..n
      PROVE  c(start) \in Nat /\ \A stride \in 1..c(start) : start + stride * (replicas - 1) <= n
    BY StrideStays
<1> HIDE DEF c
<1>4. ASSUME NEW start \in 1..n, NEW stride \in 1..c(start) PROVE set(start, stride) \in X
  <2>1. stride \in Nat \ {0} /\ start + stride * (replicas - 1) <= n
      BY <1>3
  <2>2. ASSUME NEW k \in 1..replicas
        PROVE  stride * (k - 1) \in Nat /\ start + stride * (k - 1) \in 1..n
    <3>1. k - 1 \in Nat /\ replicas - 1 \in Nat /\ k - 1 <= replicas - 1
        OBVIOUS
    <3>2. PICK a \in Nat, b \in Nat :
             a = stride * (k - 1) /\ b = stride * (replicas - 1) /\ a <= b
        BY <2>1, <3>1, Times
    <3>3. start + b <= n
        BY <2>1, <3>2
    <3>4. start + a \in 1..n
        BY <3>2, <3>3
    <3> QED BY <3>2, <3>4
  <2>3. ASSUME NEW k \in 1..replicas, NEW l \in 1..replicas, k < l
        PROVE  start + stride * (k - 1) # start + stride * (l - 1)
    <3>1. k \in Nat /\ l - 1 \in Nat /\ k <= l - 1
        BY <2>3
    <3>2. stride * k <= stride * (l - 1)
        BY <2>1, <3>1, Times
    <3>3. stride * k = stride * (k - 1) + stride
        BY <2>1
    <3>4. PICK a \in Nat, b \in Nat : a = stride * (k - 1) /\ b = stride * (l - 1)
        BY <2>2
    <3>5. a + stride <= b
        BY <3>2, <3>3, <3>4
    <3>6. start + a # start + b
        BY <3>5, <2>1
    <3> QED BY <3>4, <3>6
  <2>4. set(start, stride) \in [1..replicas -> Y]
      BY <2>2, <1>1
  <2>5. ASSUME NEW k \in 1..replicas, NEW l \in 1..replicas,
               set(start, stride)[k] = set(start, stride)[l]
        PROVE  k = l
    <3>1. ids[start + stride * (k - 1)] = ids[start + stride * (l - 1)]
        BY <2>5
    <3>2. start + stride * (k - 1) = start + stride * (l - 1)
        BY <3>1, <2>2, <1>1 DEF Distinct
    <3>3. ~(k < l) /\ ~(l < k)
        BY <3>2, <2>3
    <3> QED BY <3>3
  <2> HIDE DEF set
  <2>6. DOMAIN set(start, stride) = 1..replicas
      BY <2>4
  <2> QED BY <2>4, <2>5, <2>6 DEF Offers, Distinct
<1> HIDE DEF set, X
<1>5. ASSUME NEW start \in 1..n PROVE from(start) \in Seq(X) /\ Len(from(start)) = c(start)
  <2>1. from(start) \in [1..c(start) -> X]
      BY <1>4
  <2>2. PICK m \in Nat : m = c(start)
      BY <1>3
  <2> HIDE DEF from
  <2> QED BY <2>1, <2>2, IsSequence
<1> HIDE DEF from
<1>6. seqs \in [1..n -> Seq(X)] /\ n > 0
    BY <1>5, <1>1
<1>7. c(1) >= 1
  <2>1. 1 + 1 * (replicas - 1) <= n /\ 1 \in 1..partitions /\ 1 \in 1..n
      BY <1>1
  <2>2. 1 \in StridesFrom(n, replicas, partitions, 1)
      BY <2>1 DEF StridesFrom
  <2>3. {1} \in SUBSET StridesFrom(n, replicas, partitions, 1)
      BY <2>2
  <2>4. IsFiniteSet(StridesFrom(n, replicas, partitions, 1))
    <3>1. StridesFrom(n, replicas, partitions, 1) \in SUBSET (1..partitions)
        BY DEF StridesFrom
    <3> QED BY <3>1, FirstNumbers, FS_Subset
  <2>5. Cardinality({1}) <= Cardinality(StridesFrom(n, replicas, partitions, 1))
      BY <2>3, <2>4, FS_Subset
  <2>6. Cardinality({1}) = 1
      BY FS_Singleton
  <2>7. c(1) \in Nat
      BY <2>1, <1>3
  <2> QED BY <2>5, <2>6, <2>7 DEF c
<1>8. seqs[1] = from(1) /\ 1 \in 1..n
    BY <1>6
<1> HIDE DEF seqs
<1>9. FlattenSeq(seqs) \in Seq(X) /\ Len(FlattenSeq(seqs)) >= Len(seqs[1])
    BY <1>6, FlattenFrom
<1>10. FlattenSeq(seqs) # <<>>
  <2>1. Len(<<>>) = 0 /\ Len(seqs[1]) = c(1) /\ c(1) \in Nat
      BY <1>3, <1>5, <1>8
  <2> QED BY <2>1, <1>7, <1>9
<1> QED BY <1>2, <1>9, <1>10 DEF X

\* Every replica set has as many nodes as the replica count says.
LEMMA SetsAreChoices ==
    ASSUME NEW Y, NEW ids \in Seq(Y), ids # <<>>, Distinct(ids), NEW replicas \in Nat \ {0},
           replicas <= Len(ids), NEW partitions \in Nat
    PROVE  /\ LegacyReplicaSets(ids, replicas, partitions) # <<>>
           /\ LegacyReplicaSets(ids, replicas, partitions) \in Seq(Offers(replicas, Y))
<1>1. PICK n \in Nat \ {0} : n = Len(ids)
    BY EmptySeq
<1>2. CASE n <= replicas
  <2>1. LegacyReplicaSets(ids, replicas, partitions) = Rotations(ids)
      BY <1>1, <1>2 DEF LegacyReplicaSets
  <2>2. replicas = n
      BY <1>1, <1>2
  <2>3. /\ DOMAIN Rotations(ids) = 1..n /\ Rotations(ids) # <<>>
        /\ \A i \in 1..n : Rotations(ids)[i] \in Offers(n, Y)
      BY <1>1, RotationsAreChoices
  <2>4. Rotations(ids) = [i \in 1..n |-> Rotations(ids)[i]]
      BY <2>3 DEF Rotations
  <2>5. Rotations(ids) \in [1..n -> Offers(n, Y)]
      BY <2>3, <2>4
  <2>6. Rotations(ids) \in Seq(Offers(n, Y))
      BY <2>5, IsSequence
  <2> QED BY <2>1, <2>2, <2>3, <2>6
<1>3. CASE ~(n <= replicas)
  <2>1. PICK p \in Nat \ {0} : p = IF partitions = 0 THEN 1 ELSE partitions
      OBVIOUS
  <2>2. LegacyReplicaSets(ids, replicas, partitions) = Strided(ids, replicas, p)
      BY <1>1, <1>3, <2>1 DEF LegacyReplicaSets
  <2>3. replicas < Len(ids)
      BY <1>1, <1>3
  <2> QED BY <2>2, <2>3, StridedAreChoices
<1> QED BY <1>2, <1>3

\* The smaller of two numbers.
LEMMA MinOfTwo ==
    ASSUME NEW a \in Nat, NEW b \in Nat
    PROVE  Min({a, b}) = IF a <= b THEN a ELSE b
<1>1. PICK m \in Nat : m = IF a <= b THEN a ELSE b
    OBVIOUS
<1>2. m \in {a, b} /\ \A y \in {a, b} : m <= y
    BY <1>1
<1>3. \A x \in {a, b} : (\A y \in {a, b} : x <= y) => x = m
    BY <1>1
<1>4. Min({a, b}) = m
    BY <1>2, <1>3, Zenon DEF Min
<1> QED BY <1>1, <1>4

\* A share of a whole, scaled down, is a share.
LEMMA Scaled ==
    ASSUME NEW b \in Nat, NEW r \in 1..b, NEW l \in Nat \ {0}
    PROVE  (((r - 1) * l) \div b) + 1 \in 1..l
<1>1. PICK a \in Nat : a = (r - 1) * l
  <2>1. r - 1 \in Nat
      OBVIOUS
  <2> QED BY <2>1, Affine
<1>2. b \in Nat \ {0}
    OBVIOUS
<1>3. a \div b \in Nat /\ a % b \in 0..(b - 1) /\ a = b * (a \div b) + (a % b)
    BY <1>2, Division
<1>4. PICK q \in Nat, d \in Nat : q = a \div b /\ d = a % b /\ a = b * q + d
    BY <1>3
<1>5. a < b * l
  <2>1. r \in Nat /\ r <= b
      OBVIOUS
  <2>2. r * l <= b * l /\ r * l \in Nat /\ b * l \in Nat
      BY <2>1, Times
  <2>3. r * l = (r - 1) * l + l
      OBVIOUS
  <2> QED BY <2>2, <2>3, <1>1
<1>6. q * b < l * b
  <2>1. PICK x \in Nat, y \in Nat : x = q * b /\ y = l * b /\ b * q = x /\ b * l = y
      OBVIOUS
  <2> QED BY <2>1, <1>4, <1>5
<1>7. q < l
    BY <1>6, Untimes
<1>8. q + 1 \in 1..l
    BY <1>7
<1> QED BY <1>1, <1>4, <1>8

\* The regions of any subspace have the replicas they should.
LEMMA RegionsHaveReplicas ==
    ASSUME Placed, NEW def, Readable(def), NEW cuts, RegionsOf(cuts) \in Boxes,
           NEW r \in DOMAIN EncodeSubspace(cuts, SetsOf(def))
    PROVE  LET servers == EncodeSubspace(cuts, SetsOf(def))[r].servers
           IN  Cardinality({servers[k] : k \in DOMAIN servers})
               = Min({Len(order), def.fault_tolerance + 1})
<1> DEFINE Y == ToSet(order)
           sets == SetsOf(def)
           boxes == RegionsOf(cuts)
           servers == EncodeSubspace(cuts, sets)[r].servers
           want == def.fault_tolerance + 1
<1>1. order \in Seq(NodeIds) /\ Distinct(order)
    BY DEF Placed, Distinct
<1>2. PICK n \in Nat : n = Len(order) /\ (n = 0 <=> order = <<>>)
    BY <1>1, EmptySeq, LenProperties
<1>3. want \in Nat \ {0} /\ def.partitions \in Nat
    BY DEF Readable
<1>4. /\ IsFiniteSet(Y) /\ Cardinality(Y) = n
      /\ Order(Y, Less(Y)) /\ Ranked(Y, Less(Y), Ids)
    BY <1>1, <1>2, IdsRanked
<1> HIDE DEF Y
<1>5. Ids \in Seq(Y) /\ Len(Ids) = n /\ DOMAIN Ids = 1..n
    BY <1>4 DEF Ranked
<1>6. Distinct(Ids)
    BY <1>4, RankedHasAll
<1>7. r \in DOMAIN boxes /\ servers = IF sets = <<>> THEN <<>>
                                      ELSE sets[(((r - 1) * Len(sets)) \div Len(boxes)) + 1]
    BY DEF EncodeSubspace
<1> HIDE DEF servers
<1>8. CASE n = 0
  <2>1. Ids = <<>>
      BY <1>5, <1>8, EmptySeq
  <2>2. sets = <<>>
      BY <2>1 DEF SetsOf, LegacyReplicaSets
  <2>3. servers = <<>>
      BY <2>2, <1>7
  <2>4. {servers[k] : k \in DOMAIN servers} = {}
      BY <2>3
  <2>5. Cardinality({}) = 0
      BY FS_EmptySet
  <2>6. Min({n, want}) = 0
      BY <1>3, <1>8, MinOfTwo
  <2> QED BY <2>4, <2>5, <2>6, <1>2 DEF servers
<1>9. CASE n # 0
  <2>1. PICK c \in Nat \ {0} : c = ReplicaCount(n, def.fault_tolerance) /\ c <= n
                               /\ c = Min({n, want})
    <3>1. Min({n, want}) = IF n <= want THEN n ELSE want
        BY <1>3, MinOfTwo
    <3> QED BY <3>1, <1>3, <1>9 DEF ReplicaCount, Readable
  <2>2. Ids # <<>>
      BY <1>5, <1>9, EmptySeq
  <2>3. sets = LegacyReplicaSets(Ids, c, def.partitions)
      BY <2>1, <1>5 DEF SetsOf, CountOf
  <2>4. sets # <<>> /\ sets \in Seq(Offers(c, Y))
      BY <2>1, <2>2, <2>3, <1>3, <1>5, <1>6, SetsAreChoices
  <2>5. PICK l \in Nat \ {0} : l = Len(sets) /\ DOMAIN sets = 1..l
      BY <2>4, EmptySeq, LenProperties
  <2>6. PICK b \in Nat : b = Len(boxes) /\ r \in 1..b
    <3>1. boxes \in Seq(Seq(Point))
        BY DEF Boxes
    <3> QED BY <3>1, <1>7, LenProperties
  <2>7. (((r - 1) * l) \div b) + 1 \in 1..l
      BY <2>6, Scaled
  <2>8. servers \in Offers(c, Y)
    <3>1. servers = sets[(((r - 1) * l) \div b) + 1]
        BY <1>7, <2>4, <2>5, <2>6
    <3>2. \A i \in 1..l : sets[i] \in Offers(c, Y)
        BY <2>4, <2>5, ElementOfSeq
    <3> QED BY <3>1, <3>2, <2>7
  <2>9. DOMAIN servers = 1..c /\ Distinct(servers)
      BY <2>8 DEF Offers
  <2>10. Cardinality({servers[k] : k \in 1..c}) = c
      BY <2>9, DistinctCount
  <2> QED BY <2>1, <2>9, <2>10, <1>2 DEF servers
<1> QED BY <1>8, <1>9

\* The regions a client routes by tile the space of every subspace, whatever its
\* dimensions and partitions and however their root was rounded, and each has as many
\* different daemons as the space asks for, or all there are.
THEOREM RegionsTileSpace == Spec => []RegionsTile
<1>1. ASSUME IndInv PROVE RegionsTile
  <2> SUFFICES ASSUME space # NoSpace, NEW i \in DOMAIN space.cuts
               PROVE  LET regions == EncodeSpace(space)[i] IN
                      /\ \A r, s \in DOMAIN regions :
                            r < s => Disjoint(regions[r].box, regions[s].box)
                      /\ TotalVolume(regions) = Power(Size, Len(space.cuts[i]))
                      /\ \A r \in DOMAIN regions :
                            Cardinality({regions[r].servers[k] : k \in DOMAIN regions[r].servers})
                            = Min({Len(order), space.def.fault_tolerance + 1})
      BY DEF RegionsTile
  <2> DEFINE cuts == space.cuts[i]
             boxes == RegionsOf(cuts)
             regions == EncodeSpace(space)[i]
  <2>1. Readable(space.def) /\ space.cuts \in CutsOf(space.def)
      BY <1>1 DEF IndInv, SpaceDefined
  <2>2. WellCut(space.def, space.cuts)
      BY <2>1, CutsAreWellFormed
  <2>3. PICK n \in Nat \ {0} : cuts \in [1..n -> Nat \ {0}]
      BY <2>2 DEF WellCut
  <2>4. boxes \in Boxes /\ Tile(n, boxes)
      BY <2>3, BoxesTile
  <2>5. regions = EncodeSubspace(cuts, SetsOf(space.def))
      BY DEF EncodeSpace
  <2>6. DOMAIN regions = DOMAIN boxes /\ \A r \in DOMAIN boxes : regions[r].box = boxes[r]
      BY <2>5 DEF EncodeSubspace
  <2> HIDE DEF regions
  <2>7. ASSUME NEW r \in DOMAIN regions, NEW s \in DOMAIN regions, r < s
        PROVE  Disjoint(regions[r].box, regions[s].box)
    <3>1. r \in Nat /\ s \in Nat
        BY <2>4, <2>6, LenProperties DEF Boxes
    <3>2. r # s
        BY <3>1, <2>7
    <3> QED BY <3>2, <2>4, <2>6 DEF Tile
  <2>8. TotalVolume(regions) = Power(Size, Len(cuts))
    <3>1. Len(cuts) = n
        BY <2>3, IsSequence
    <3>2. [r \in DOMAIN regions |-> Volume(regions[r].box)]
          = [r \in DOMAIN boxes |-> Volume(boxes[r])]
        BY <2>6
    <3> QED BY <3>1, <3>2, <2>4 DEF Tile, TotalVolume
  <2>9. ASSUME NEW r \in DOMAIN regions
        PROVE  Cardinality({regions[r].servers[k] : k \in DOMAIN regions[r].servers})
               = Min({Len(order), space.def.fault_tolerance + 1})
    <3>1. Placed
        BY <1>1 DEF IndInv
    <3> HIDE DEF cuts, boxes
    <3>2. RegionsOf(cuts) \in Boxes
        BY <2>4 DEF boxes
    <3> QED BY <3>1, <3>2, <2>1, <2>5, RegionsHaveReplicas
  <2> QED BY <2>7, <2>8, <2>9 DEF regions
<1> QED BY <1>1, Invariance, PTL DEF Spec

-------------------------------------------------------------------------------
(* The strategies: the order of the list does not matter                      *)

\* What hashing made of keys, nodes and tokens are numbers.
Hashed ==
    /\ hash.replicas \in Nat /\ hash.key \in Nat /\ hash.tokens \in Nat \ {0}
    /\ hash.score \in [NodeIds -> Nat]
    /\ hash.token \in [NodeIds -> [1..hash.tokens -> Nat]]

Scores(V) == {q \in V \X V : RanksBefore(q[1], q[2])}

\* Scores, and ids among equal ones, order the nodes.
LEMMA ScoresOrder ==
    ASSUME Hashed, NEW V \in SUBSET NodeIds
    PROVE  Order(V, Scores(V))
<1>1. \A x \in V : x \in Nat /\ hash.score[x] \in Nat
    BY NodeIdsAssumption DEF Hashed
<1>2. \A x, y \in V : <<x, y>> \in Scores(V) <=>
         hash.score[x] > hash.score[y] \/ (hash.score[x] = hash.score[y] /\ x < y)
    BY DEF Scores, RanksBefore
<1> QED BY <1>1, <1>2 DEF Order

\* RendezvousPlacement::locate sorts any list of the nodes by their scores.
LEMMA SortedByScore ==
    ASSUME Hashed, NEW V \in SUBSET NodeIds, NEW n \in Nat, NEW list, Lists(V, n, list),
           Len(list) = n
    PROVE  /\ IsFiniteSet(V) /\ Cardinality(V) = n
           /\ Ranked(V, Scores(V), Sorted(list, RanksBefore))
<1> DEFINE Q == Scores(V)
           Before(x, y) == RanksBefore(x, y)
           Ahead(j, i) == Before(list[j], list[i]) \/ (~Before(list[i], list[j]) /\ j < i)
           place == [i \in 1..n |-> Cardinality({j \in DOMAIN list : Ahead(j, i)}) + 1]
<1>1. list \in [1..n -> V] /\ DOMAIN list = 1..n /\ Distinct(list)
    BY DEF Lists
<1>2. Order(V, Q)
    BY ScoresOrder
<1>3. ASSUME NEW i \in 1..n
      PROVE  place[i] = Cardinality({j \in 1..n : <<list[j], list[i]>> \in Q}) + 1
  <2>1. ASSUME NEW j \in 1..n PROVE Ahead(j, i) <=> <<list[j], list[i]>> \in Q
    <3>1. list[i] \in V /\ list[j] \in V
        BY <1>1
    <3>2. /\ <<list[j], list[i]>> \in Q <=> Before(list[j], list[i])
          /\ <<list[i], list[j]>> \in Q <=> Before(list[i], list[j])
        BY <3>1 DEF Scores
    <3>3. list[i] = list[j] => i = j
        BY <1>1 DEF Distinct
    <3>4. \/ list[i] = list[j] \/ <<list[i], list[j]>> \in Q \/ <<list[j], list[i]>> \in Q
        BY <1>2, <3>1 DEF Order
    <3> HIDE DEF Before, Q
    <3> QED BY <3>2, <3>3, <3>4
  <2> HIDE DEF Ahead, Q
  <2>2. {j \in DOMAIN list : Ahead(j, i)} = {j \in 1..n : <<list[j], list[i]>> \in Q}
      BY <2>1, <1>1
  <2> QED BY <2>2
<1>4. Sorted(list, RanksBefore) = Arranged(list, place, n)
  <2> DEFINE A == [k \in 1..n |-> list[CHOOSE i \in 1..n : place[i] = k]]
             B == [k \in 1..n |-> list[CHOOSE i \in 1..n :
                                          Cardinality({j \in DOMAIN list : Ahead(j, i)}) + 1 = k]]
  <2>1. Sorted(list, RanksBefore) = SubSeq(B, 1, n)
      BY <1>1 DEF Sorted
  <2>2. A = B
    <3> SUFFICES ASSUME NEW k \in 1..n PROVE A[k] = B[k]
        OBVIOUS
    <3> HIDE DEF Ahead
    <3>1. \A i \in 1..n :
             (place[i] = k) <=> (Cardinality({j \in DOMAIN list : Ahead(j, i)}) + 1 = k)
        OBVIOUS
    <3>2. (CHOOSE i \in 1..n : place[i] = k)
          = (CHOOSE i \in 1..n : Cardinality({j \in DOMAIN list : Ahead(j, i)}) + 1 = k)
        BY <3>1
    <3>3. A[k] = list[CHOOSE i \in 1..n : place[i] = k]
      <4> HIDE DEF place
      <4> QED OBVIOUS
    <3>4. B[k] = list[CHOOSE i \in 1..n : Cardinality({j \in DOMAIN list : Ahead(j, i)}) + 1 = k]
        OBVIOUS
    <3> HIDE DEF A, B, place
    <3> QED BY <3>2, <3>3, <3>4
  <2>3. Arranged(list, place, n) = SubSeq(A, 1, n)
      BY DEF Arranged
  <2> HIDE DEF A, B
  <2> QED BY <2>1, <2>2, <2>3
<1> HIDE DEF Q, place
<1>5. /\ IsFiniteSet(V) /\ Cardinality(V) = n
      /\ Ranked(V, Q, Arranged(list, place, n))
  <2>1. Places(Q, n, list, place)
      BY <1>3 DEF Places
  <2> QED BY <2>1, <1>2, PlacesSort
<1> QED BY <1>4, <1>5 DEF Q

\* The tokens of nodes, and their order on the ring.
TokensOf(V) == {Token(owner, i) : owner \in V, i \in 1..hash.tokens}
RingOrder(W) == {q \in W \X W : TokenBefore(q[1], q[2])}

\* Tokens are told apart by owner and index.
LEMMA TokenFields ==
    ASSUME Hashed, NEW owner \in NodeIds, NEW i \in 1..hash.tokens
    PROVE  /\ Token(owner, i).pos \in Nat /\ Token(owner, i).owner = owner
           /\ Token(owner, i).index = i /\ owner \in Nat /\ i \in Nat
    BY NodeIdsAssumption DEF Token, Hashed

\* Position, owner and index order the tokens.
LEMMA RingOrders ==
    ASSUME Hashed, NEW V \in SUBSET NodeIds
    PROVE  Order(TokensOf(V), RingOrder(TokensOf(V)))
<1> DEFINE W == TokensOf(V)
           Q == RingOrder(W)
<1>1. \A t \in W : t.pos \in Nat /\ t.owner \in Nat /\ t.index \in Nat
    BY TokenFields DEF TokensOf
<1>2. ASSUME NEW s \in W, NEW t \in W, s.owner = t.owner, s.index = t.index PROVE s = t
  <2>1. PICK o \in V, i \in 1..hash.tokens : s = Token(o, i)
      BY DEF TokensOf
  <2>2. PICK p \in V, j \in 1..hash.tokens : t = Token(p, j)
      BY DEF TokensOf
  <2>3. o = p /\ i = j
    <3>1. o \in NodeIds /\ p \in NodeIds
        OBVIOUS
    <3>2. s.owner = o /\ s.index = i /\ t.owner = p /\ t.index = j
        BY <2>1, <2>2, <3>1, TokenFields
    <3> QED BY <3>2, <1>2
  <2> QED BY <2>1, <2>2, <2>3
<1>3. \A s, t \in W : <<s, t>> \in Q <=> TokenBefore(s, t)
    BY DEF RingOrder
<1> HIDE DEF W, Q
<1>4. \A s \in W : ~TokenBefore(s, s)
    BY <1>1 DEF TokenBefore
<1>5. ASSUME NEW s \in W, NEW t \in W, NEW u \in W, TokenBefore(s, t), TokenBefore(t, u)
      PROVE  TokenBefore(s, u)
    BY <1>1, <1>5 DEF TokenBefore
<1>6. ASSUME NEW s \in W, NEW t \in W PROVE s = t \/ TokenBefore(s, t) \/ TokenBefore(t, s)
    BY <1>1, <1>2 DEF TokenBefore
<1>7. Order(W, Q)
    BY <1>3, <1>4, <1>5, <1>6 DEF Order
<1> QED BY <1>7 DEF W, Q

\* The tokens of a list of nodes are those of the nodes, each once.
LEMMA TokensListed ==
    ASSUME Hashed, NEW V \in SUBSET NodeIds, NEW n \in Nat \ {0}, NEW nodes, Lists(V, n, nodes)
    PROVE  \E m \in Nat \ {0} : m = n * hash.tokens /\ Lists(TokensOf(V), m, Tokens(nodes))
                                /\ Len(Tokens(nodes)) = m
<1> DEFINE W == TokensOf(V)
           t == hash.tokens
           row(i) == [j \in 1..t |-> Token(nodes[i], j)]
           seqs == [i \in 1..n |-> row(i)]
           list == FlattenSeq(seqs)
<1>1. t \in Nat \ {0} /\ nodes \in [1..n -> V] /\ DOMAIN nodes = 1..n /\ Distinct(nodes)
      /\ \A x \in V : \E i \in 1..n : nodes[i] = x
    BY DEF Hashed, Lists
<1>2. Tokens(nodes) = list
    BY <1>1 DEF Tokens
<1>3. ASSUME NEW i \in 1..n, NEW j \in 1..t PROVE Token(nodes[i], j) \in W
    BY <1>1 DEF TokensOf
<1> HIDE DEF W, t
<1>4. ASSUME NEW i \in 1..n PROVE row(i) \in Seq(W) /\ Len(row(i)) = t
  <2>1. row(i) \in [1..t -> W]
      BY <1>3
  <2> HIDE DEF row
  <2> QED BY <2>1, <1>1, IsSequence
<1>5. \A i \in 1..n, j \in 1..t : seqs[i][j] = Token(nodes[i], j)
    OBVIOUS
<1>6. seqs \in [1..n -> Seq(W)] /\ \A i \in 1..n : Len(seqs[i]) = t
  <2> HIDE DEF row
  <2> QED BY <1>4
<1> HIDE DEF seqs
<1>7. Grid(W, n, t, seqs, list)
  <2>1. n \in Nat /\ n > 0 /\ t \in Nat
      BY <1>1
  <2>2. Grid(W, n, t, seqs, FlattenSeq(seqs))
      BY <2>1, <1>6, FlattenEqual
  <2> QED BY <2>2
<1>8. PICK m \in Nat \ {0} : m = n * t
    BY <1>1
<1>9. list \in Seq(W) /\ Len(list) = m
      /\ \A i \in 1..n, j \in 1..t : list[(i - 1) * t + j] = Token(nodes[i], j)
    BY <1>5, <1>7, <1>8 DEF Grid
<1>10. DOMAIN list = 1..m
    BY <1>9, LenProperties
<1> HIDE DEF list
<1>11. list \in [1..m -> W]
  <2>1. \A r \in 1..m : list[r] \in W
      BY <1>9, <1>10, ElementOfSeq
  <2>2. list = [r \in 1..m |-> list[r]]
      BY <1>9, <1>10
  <2> QED BY <2>1, <2>2
<1>12. ASSUME NEW r \in 1..m
       PROVE  \E i \in 1..n, j \in 1..t : r = (i - 1) * t + j /\ list[r] = Token(nodes[i], j)
  <2>1. InRow(n, t, r)
      BY <1>1, <1>8, GridPlace
  <2>2. PICK i \in 1..n, j \in 1..t : r = (i - 1) * t + j
      BY <2>1 DEF InRow
  <2> QED BY <2>2, <1>9
<1>13. ASSUME NEW i \in 1..n, NEW j \in 1..t
       PROVE  Token(nodes[i], j).owner = nodes[i] /\ Token(nodes[i], j).index = j
  <2>1. nodes[i] \in NodeIds /\ j \in 1..hash.tokens
      BY <1>1 DEF t
  <2> QED BY <2>1, TokenFields
<1>14. ASSUME NEW r \in 1..m, NEW s \in 1..m, list[r] = list[s] PROVE r = s
  <2>1. PICK i \in 1..n, j \in 1..t : r = (i - 1) * t + j /\ list[r] = Token(nodes[i], j)
      BY <1>12
  <2>2. PICK k \in 1..n, l \in 1..t : s = (k - 1) * t + l /\ list[s] = Token(nodes[k], l)
      BY <1>12
  <2>3. nodes[i] = nodes[k] /\ j = l
    <3>1. Token(nodes[i], j) = Token(nodes[k], l)
        BY <2>1, <2>2, <1>14
    <3>2. Token(nodes[i], j).owner = nodes[i] /\ Token(nodes[i], j).index = j
        BY <1>13
    <3>3. Token(nodes[k], l).owner = nodes[k] /\ Token(nodes[k], l).index = l
        BY <1>13
    <3> QED BY <3>1, <3>2, <3>3
  <2>4. i = k
      BY <2>3, <1>1 DEF Distinct
  <2> QED BY <2>1, <2>2, <2>3, <2>4
<1>15. ASSUME NEW x \in W PROVE \E r \in 1..m : list[r] = x
  <2>1. PICK o \in V, j \in 1..t : x = Token(o, j)
      BY DEF W, t, TokensOf
  <2>2. PICK i \in 1..n : nodes[i] = o
      BY <1>1
  <2>3. list[(i - 1) * t + j] = x
      BY <2>1, <2>2, <1>9
  <2>4. (i - 1) * t + j \in 1..m
    <3>1. i - 1 \in Nat /\ i \in Nat /\ i <= n
        OBVIOUS
    <3>2. PICK a \in Nat, b \in Nat : a = (i - 1) * t /\ b = i * t
        BY <3>1, <1>1, Affine
    <3>3. b <= m
        BY <3>1, <3>2, <1>1, <1>8, Times
    <3>4. b = a + t
        BY <3>2, <1>1
    <3>5. a + j \in 1..m
        BY <3>3, <3>4, <1>1
    <3> QED BY <3>2, <3>5
  <2> QED BY <2>3, <2>4
<1>16. Lists(W, m, list)
    BY <1>10, <1>11, <1>14, <1>15 DEF Lists, Distinct
<1> QED BY <1>2, <1>8, <1>9, <1>16 DEF W, t

\* build_hyperspace_ring sorts the tokens of any list of the nodes.
LEMMA RingRanked ==
    ASSUME Hashed, NEW V \in SUBSET NodeIds, NEW n \in Nat \ {0}, NEW nodes, Lists(V, n, nodes)
    PROVE  /\ IsFiniteSet(TokensOf(V)) /\ Cardinality(TokensOf(V)) \in Nat \ {0}
           /\ Ranked(TokensOf(V), RingOrder(TokensOf(V)), Ring(nodes))
<1> DEFINE W == TokensOf(V)
           Q == RingOrder(W)
           list == Tokens(nodes)
           Before(x, y) == TokenBefore(x, y)
           Ahead(j, i) == Before(list[j], list[i]) \/ (~Before(list[i], list[j]) /\ j < i)
<1>0. PICK m \in Nat \ {0} : Lists(W, m, list) /\ Len(list) = m
    BY TokensListed
<1> DEFINE place == [i \in 1..m |-> Cardinality({j \in DOMAIN list : Ahead(j, i)}) + 1]
<1> HIDE DEF list
<1>1. list \in [1..m -> W] /\ DOMAIN list = 1..m /\ Distinct(list)
    BY <1>0 DEF Lists
<1>2. Order(W, Q)
    BY RingOrders
<1>3. ASSUME NEW i \in 1..m
      PROVE  place[i] = Cardinality({j \in 1..m : <<list[j], list[i]>> \in Q}) + 1
  <2>1. ASSUME NEW j \in 1..m PROVE Ahead(j, i) <=> <<list[j], list[i]>> \in Q
    <3>1. list[i] \in W /\ list[j] \in W
        BY <1>1
    <3>2. /\ <<list[j], list[i]>> \in Q <=> Before(list[j], list[i])
          /\ <<list[i], list[j]>> \in Q <=> Before(list[i], list[j])
      <4> HIDE DEF W
      <4> QED BY <3>1 DEF RingOrder
    <3>3. list[i] = list[j] => i = j
        BY <1>1 DEF Distinct
    <3>4. \/ list[i] = list[j] \/ <<list[i], list[j]>> \in Q \/ <<list[j], list[i]>> \in Q
      <4> HIDE DEF W, Q
      <4> QED BY <1>2, <3>1 DEF Order
    <3> HIDE DEF Before, Q
    <3> QED BY <3>2, <3>3, <3>4
  <2> HIDE DEF Ahead, Q
  <2>2. {j \in DOMAIN list : Ahead(j, i)} = {j \in 1..m : <<list[j], list[i]>> \in Q}
      BY <2>1, <1>1
  <2> QED BY <2>2
<1>4. Sorted(list, TokenBefore) = Arranged(list, place, m)
  <2> DEFINE A == [k \in 1..m |-> list[CHOOSE i \in 1..m : place[i] = k]]
             B == [k \in 1..m |-> list[CHOOSE i \in 1..m :
                                          Cardinality({j \in DOMAIN list : Ahead(j, i)}) + 1 = k]]
  <2>1. Sorted(list, TokenBefore) = SubSeq(B, 1, m)
      BY <1>0, <1>1 DEF Sorted
  <2>2. A = B
    <3> SUFFICES ASSUME NEW k \in 1..m PROVE A[k] = B[k]
        OBVIOUS
    <3> HIDE DEF Ahead
    <3>1. \A i \in 1..m :
             (place[i] = k) <=> (Cardinality({j \in DOMAIN list : Ahead(j, i)}) + 1 = k)
        OBVIOUS
    <3>2. (CHOOSE i \in 1..m : place[i] = k)
          = (CHOOSE i \in 1..m : Cardinality({j \in DOMAIN list : Ahead(j, i)}) + 1 = k)
        BY <3>1
    <3>3. A[k] = list[CHOOSE i \in 1..m : place[i] = k]
      <4> HIDE DEF place
      <4> QED OBVIOUS
    <3>4. B[k] = list[CHOOSE i \in 1..m : Cardinality({j \in DOMAIN list : Ahead(j, i)}) + 1 = k]
        OBVIOUS
    <3> HIDE DEF A, B, place
    <3> QED BY <3>2, <3>3, <3>4
  <2>3. Arranged(list, place, m) = SubSeq(A, 1, m)
      BY DEF Arranged
  <2> HIDE DEF A, B
  <2> QED BY <2>1, <2>2, <2>3
<1> HIDE DEF Q, place, W
<1>5. /\ IsFiniteSet(W) /\ Cardinality(W) = m
      /\ Ranked(W, Q, Arranged(list, place, m))
  <2>1. Places(Q, m, list, place)
      BY <1>3 DEF Places
  <2> QED BY <2>1, <1>0, <1>2, PlacesSort
<1>6. Ring(nodes) = Arranged(list, place, m)
    BY <1>4 DEF Ring, list
<1> QED BY <1>5, <1>6 DEF W, Q

\* A sorted list goes up.
LEMMA RankedGoesUp ==
    ASSUME NEW V, IsFiniteSet(V), NEW Q, Order(V, Q), NEW s, Ranked(V, Q, s),
           NEW i \in DOMAIN s, NEW j \in DOMAIN s, i < j
    PROVE  <<s[i], s[j]>> \in Q
<1>1. PICK n \in Nat : n = Cardinality(V)
    BY FS_CardinalityType
<1>2. s \in Seq(V) /\ DOMAIN s = 1..n /\ \A k \in 1..n : Cardinality(Below(V, Q, s[k])) = k - 1
    BY <1>1 DEF Ranked
<1>3. s[i] \in V /\ s[j] \in V
    BY <1>2
<1>4. Cardinality(Below(V, Q, s[i])) = i - 1 /\ Cardinality(Below(V, Q, s[j])) = j - 1
      /\ i \in 1..n /\ j \in 1..n
    BY <1>2
<1>5. s[i] # s[j]
    BY <1>4
<1>6. ASSUME <<s[j], s[i]>> \in Q PROVE FALSE
  <2>1. Cardinality(Below(V, Q, s[j])) < Cardinality(Below(V, Q, s[i]))
      BY <1>3, <1>6, RankGrows
  <2> QED BY <2>1, <1>4
<1> QED BY <1>3, <1>5, <1>6 DEF Order

\* A set of the first numbers that has all below each of its own is the first so many.
LEMMA FirstOnes ==
    ASSUME NEW m \in Nat, NEW C \in SUBSET (1..m), \A i \in C : \A j \in 1..m : j < i => j \in C
    PROVE  Cardinality(C) \in 0..m /\ \A i \in 1..m : i \in C <=> i <= Cardinality(C)
<1>1. IsFiniteSet(1..m) /\ Cardinality(1..m) = m
    BY FirstNumbers
<1>2. IsFiniteSet(C) /\ Cardinality(C) <= m
    BY <1>1, FS_Subset
<1>3. PICK c \in Nat : c = Cardinality(C) /\ c <= m
    BY <1>2, FS_CardinalityType
<1>4. ASSUME NEW i \in 1..m, i \in C PROVE i <= c
  <2>1. 1..i \in SUBSET C
      BY <1>4
  <2>2. Cardinality(1..i) = i
    <3>1. i \in Nat
        OBVIOUS
    <3> QED BY <3>1, FirstNumbers
  <2>3. Cardinality(1..i) <= Cardinality(C)
      BY <2>1, <1>2, FS_Subset
  <2> QED BY <2>2, <2>3, <1>3
<1>5. ASSUME NEW i \in 1..m, i \notin C PROVE ~(i <= c)
  <2>1. PICK k \in Nat : k = i - 1
      OBVIOUS
  <2>2. C \in SUBSET (1..k)
      BY <1>5, <2>1
  <2>3. IsFiniteSet(1..k) /\ Cardinality(1..k) = k
      BY FirstNumbers
  <2>4. Cardinality(C) <= k
      BY <2>2, <2>3, FS_Subset
  <2> QED BY <2>1, <2>4, <1>3
<1> QED BY <1>3, <1>4, <1>5

\* The rest of a number below the divisor, or below twice it.
LEMMA SmallRest ==
    ASSUME NEW n \in Nat \ {0}, NEW a \in Nat
    PROVE  (a < n => a % n = a) /\ (n <= a /\ a < n + n => a % n = a - n)
<1>1. PICK q \in Nat, r \in Nat : r = a % n /\ a = n * q + r /\ r < n
  <2>1. a \div n \in Nat /\ a % n \in 0..(n - 1) /\ a = n * (a \div n) + (a % n)
      BY Division
  <2>2. a % n \in Nat /\ a % n < n
      BY <2>1
  <2> QED BY <2>1, <2>2, Zenon
<1>2. CASE q = 0
    BY <1>1, <1>2
<1>3. CASE q = 1
    BY <1>1, <1>3
<1>4. CASE q >= 2
  <2>1. 2 * n <= q * n /\ q * n \in Nat /\ n * q = q * n
      BY <1>4, Times
  <2>2. a >= n + n
      BY <2>1, <1>1
  <2> QED BY <2>2
<1> QED BY <1>2, <1>3, <1>4

\* The order of tokens as the ring is gone around from the key.
Around(s, t) ==
    \/ s.pos >= hash.key /\ t.pos < hash.key
    \/ (s.pos >= hash.key <=> t.pos >= hash.key) /\ TokenBefore(s, t)

Turned(ring) == [i \in DOMAIN ring |-> ring[((RingStart(ring) + i - 1) % Len(ring)) + 1]]

\* A list of all of W that goes up by Around.
GoesAround(W, m, list) ==
    /\ list \in [1..m -> W] /\ \A x \in W : \E i \in 1..m : list[i] = x
    /\ \A i, j \in 1..m : i < j => Around(list[i], list[j])

\* From where hyperspace_ring_start begins, the ring goes around from the key.
LEMMA RingTurned ==
    ASSUME Hashed, NEW V \in SUBSET NodeIds, NEW n \in Nat \ {0}, NEW nodes, Lists(V, n, nodes)
    PROVE  /\ Len(Ring(nodes)) \in Nat \ {0} /\ DOMAIN Ring(nodes) = 1..Len(Ring(nodes))
           /\ GoesAround(TokensOf(V), Len(Ring(nodes)), Turned(Ring(nodes)))
<1> DEFINE W == TokensOf(V)
           Q == RingOrder(W)
           ring == Ring(nodes)
           key == hash.key
           C == {i \in DOMAIN ring : ring[i].pos < key}
<1>1. IsFiniteSet(W) /\ Cardinality(W) \in Nat \ {0} /\ Ranked(W, Q, ring) /\ Order(W, Q)
    BY RingRanked, RingOrders
<1>2. \A t \in W : t.pos \in Nat /\ key \in Nat
    BY TokenFields DEF TokensOf, Hashed
<1>3. \A s, t \in W : <<s, t>> \in Q => TokenBefore(s, t)
    BY DEF RingOrder
<1> HIDE DEF W, Q, ring, key
<1>4. PICK m \in Nat \ {0} : m = Len(ring) /\ DOMAIN ring = 1..m
    BY <1>1 DEF Ranked
<1>5. \A i \in 1..m : ring[i] \in W
    BY <1>1, <1>4 DEF Ranked
<1>6. ASSUME NEW i \in 1..m, NEW j \in 1..m, i < j PROVE TokenBefore(ring[i], ring[j])
  <2>1. <<ring[i], ring[j]>> \in Q
      BY <1>1, <1>4, <1>6, RankedGoesUp
  <2> QED BY <2>1, <1>3, <1>5
<1>7. PICK c \in 0..m : c = Cardinality(C) /\ \A i \in 1..m : ring[i].pos < key <=> i <= c
  <2>1. C \in SUBSET (1..m) /\ m \in Nat
      BY <1>4
  <2>2. ASSUME NEW i \in C, NEW j \in 1..m, j < i PROVE j \in C
    <3>1. i \in 1..m /\ ring[i].pos < key
        BY <1>4
    <3>2. TokenBefore(ring[j], ring[i])
        BY <2>2, <3>1, <1>6
    <3>3. ring[j].pos <= ring[i].pos
        BY <3>1, <3>2, <1>2, <1>5 DEF TokenBefore
    <3>4. ring[j].pos < key
        BY <3>1, <3>3, <1>2, <1>5
    <3> QED BY <3>4, <1>4
  <2>3. \A i \in 1..m : i \in C <=> ring[i].pos < key
      BY <1>4
  <2> HIDE DEF C
  <2>4. Cardinality(C) \in 0..m /\ \A i \in 1..m : i \in C <=> i <= Cardinality(C)
      BY <2>1, <2>2, FirstOnes
  <2> QED BY <2>3, <2>4
<1> HIDE DEF C
<1> DEFINE start == c % m
           at(i) == ((start + i - 1) % m) + 1
           turned == [i \in 1..m |-> ring[at(i)]]
<1>8. turned = Turned(ring)
  <2>1. RingStart(ring) = start
      BY <1>4, <1>7 DEF RingStart, C, key
  <2> QED BY <2>1, <1>4 DEF Turned
<1>9. ASSUME NEW i \in 1..m
      PROVE  at(i) = IF c = m THEN i ELSE IF i <= m - c THEN c + i ELSE c + i - m
  <2>1. CASE c = m
    <3>1. start = 0
      <4>1. m \in Nat /\ m <= m /\ m < m + m
          OBVIOUS
      <4> QED BY <4>1, <2>1, SmallRest
    <3>2. i - 1 \in Nat /\ i - 1 < m /\ 0 + i - 1 = i - 1
        OBVIOUS
    <3>3. (i - 1) % m = i - 1
        BY <3>2, SmallRest
    <3>4. at(i) = ((i - 1) % m) + 1
        BY <3>1, <3>2
    <3> QED BY <3>3, <3>4, <2>1
  <2>2. CASE c # m
    <3>1. start = c
      <4>1. c \in Nat /\ c < m
          BY <2>2
      <4> QED BY <4>1, SmallRest
    <3>2. PICK a \in Nat : a = c + i - 1 /\ at(i) = (a % m) + 1
      <4>1. c + i - 1 \in Nat
          OBVIOUS
      <4> QED BY <3>1, <4>1
    <3>3. CASE i <= m - c
      <4>1. a < m
          BY <3>2, <3>3
      <4>2. a % m = a
          BY <4>1, SmallRest
      <4>3. at(i) = c + i
          BY <3>2, <4>2
      <4> QED BY <4>3, <3>3, <2>2
    <3>4. CASE ~(i <= m - c)
      <4>1. m <= a /\ a < m + m
          BY <3>2, <3>4
      <4>2. a % m = a - m
          BY <4>1, SmallRest
      <4>3. at(i) = c + i - m
          BY <3>2, <4>2
      <4> QED BY <4>3, <3>4, <2>2
    <3> QED BY <3>3, <3>4
  <2> QED BY <2>1, <2>2
<1> HIDE DEF at, start
<1>10. \A i \in 1..m : at(i) \in 1..m
    BY <1>9
<1>11. turned \in [1..m -> W]
    BY <1>5, <1>10
<1>12. ASSUME NEW x \in W PROVE \E i \in 1..m : turned[i] = x
  <2>1. PICK q \in 1..m : ring[q] = x
    <3>1. \A y \in W : \E k \in DOMAIN ring : ring[k] = y
        BY <1>1, RankedHasAll
    <3> QED BY <3>1, <1>4
  <2>2. \E i \in 1..m : at(i) = q
    <3>1. CASE c = m
        BY <3>1, <1>9
    <3>2. CASE c # m /\ q > c
      <4>1. q - c \in 1..m /\ q - c <= m - c /\ c + (q - c) = q
          BY <3>2
      <4>2. at(q - c) = q
          BY <4>1, <3>2, <1>9
      <4> QED BY <4>1, <4>2
    <3>3. CASE c # m /\ ~(q > c)
      <4>1. q + m - c \in 1..m /\ ~(q + m - c <= m - c) /\ c + (q + m - c) - m = q
          BY <3>3
      <4>2. at(q + m - c) = q
          BY <4>1, <3>3, <1>9
      <4> QED BY <4>1, <4>2
    <3> QED BY <3>1, <3>2, <3>3
  <2> QED BY <2>1, <2>2
<1>13. ASSUME NEW i \in 1..m, NEW j \in 1..m, i < j PROVE Around(turned[i], turned[j])
  <2>1. PICK p \in 1..m, q \in 1..m : p = at(i) /\ q = at(j)
      BY <1>10
  <2>2. turned[i] = ring[p] /\ turned[j] = ring[q]
      BY <2>1
  <2>3. (p < q /\ (p <= c <=> q <= c)) \/ (p > c /\ q <= c)
      BY <2>1, <1>9, <1>13
  <2>4. PICK s \in W, t \in W : s = ring[p] /\ t = ring[q]
      BY <1>5
  <2>5. s.pos \in Nat /\ t.pos \in Nat /\ key \in Nat
      BY <1>2
  <2>6. (s.pos < key <=> p <= c) /\ (t.pos < key <=> q <= c)
      BY <2>4, <1>7
  <2>7. p < q => TokenBefore(s, t)
      BY <2>4, <1>6
  <2>8. (s.pos >= key <=> ~(p <= c)) /\ (t.pos >= key <=> ~(q <= c))
      BY <2>5, <2>6
  <2>9. Around(s, t)
    <3>1. CASE p < q /\ (p <= c <=> q <= c)
        BY <3>1, <2>7, <2>8 DEF Around, key
    <3>2. CASE p > c /\ q <= c
      <4>1. ~(p <= c)
          BY <3>2
      <4> QED BY <4>1, <3>2, <2>6, <2>8 DEF Around, key
    <3> QED BY <3>1, <3>2, <2>3
  <2> QED BY <2>2, <2>4, <2>9
<1> HIDE DEF turned
<1>14. GoesAround(W, m, turned)
    BY <1>11, <1>12, <1>13 DEF GoesAround
<1> QED BY <1>4, <1>8, <1>14 DEF W, ring

\* A node is nearer than another when one of its tokens comes before all of the other's.
Sooner(x, y) ==
    \E i \in 1..hash.tokens : \A j \in 1..hash.tokens : Around(Token(x, i), Token(y, j))
Nearer(V) == {q \in V \X V : Sooner(q[1], q[2])}

\* Where each node first comes.
FirstPlaces(V, m, list, first) ==
    /\ first \in [V -> 1..m]
    /\ \A x \in V : list[first[x]].owner = x
    /\ \A x \in V, i \in 1..m : list[i].owner = x => first[x] <= i
    /\ \A x, y \in V : <<x, y>> \in Nearer(V) <=> first[x] < first[y]

\* Going around, the nearer node comes first.
LEMMA NearerComesFirst ==
    ASSUME Hashed, NEW V \in SUBSET NodeIds, NEW m \in Nat \ {0}, NEW list,
           GoesAround(TokensOf(V), m, list)
    PROVE  \E first : FirstPlaces(V, m, list, first)
<1> DEFINE W == TokensOf(V)
           t == hash.tokens
           P(x) == {i \in 1..m : list[i].owner = x}
           first == [x \in V |-> CHOOSE i \in P(x) : \A j \in P(x) : i <= j]
<1>1. /\ list \in [1..m -> W] /\ \A x \in W : \E i \in 1..m : list[i] = x
      /\ \A i, j \in 1..m : i < j => Around(list[i], list[j])
    BY DEF GoesAround
<1>2. ASSUME NEW x \in V, NEW i \in 1..t PROVE Token(x, i) \in W /\ Token(x, i).owner = x
  <2>1. x \in NodeIds
      OBVIOUS
  <2> QED BY <2>1, TokenFields DEF TokensOf
<1>3. \A s \in W : \E x \in V, i \in 1..t : s = Token(x, i)
    BY DEF TokensOf
<1>4. \A s \in W : s.pos \in Nat /\ s.owner \in Nat /\ s.index \in Nat /\ hash.key \in Nat
    BY TokenFields DEF TokensOf, Hashed
<1>5. t \in Nat \ {0}
    BY DEF Hashed
<1> HIDE DEF W, t
<1>6. ASSUME NEW p \in 1..m, NEW q \in 1..m, Around(list[p], list[q]) PROVE p < q
  <2> SUFFICES ASSUME q <= p PROVE FALSE
      OBVIOUS
  <2>1. PICK u \in W, v \in W : u = list[p] /\ v = list[q] /\ Around(u, v)
      BY <1>1, <1>6
  <2>2. u.pos \in Nat /\ u.owner \in Nat /\ u.index \in Nat /\ hash.key \in Nat
        /\ v.pos \in Nat /\ v.owner \in Nat /\ v.index \in Nat
      BY <1>4
  <2>3. CASE q = p
    <3>1. u = v
        BY <2>1, <2>3
    <3> QED BY <2>1, <2>2, <3>1 DEF Around, TokenBefore
  <2>4. CASE q < p
    <3>1. Around(v, u)
        BY <2>1, <2>4, <1>1
    <3> QED BY <2>1, <2>2, <3>1 DEF Around, TokenBefore
  <2> QED BY <2>3, <2>4
<1>7. ASSUME NEW x \in V
      PROVE  first[x] \in 1..m /\ list[first[x]].owner = x
             /\ \A i \in 1..m : list[i].owner = x => first[x] <= i
  <2>1. 1 \in 1..t
      BY <1>5
  <2>2. PICK i \in 1..m : list[i] = Token(x, 1)
      BY <2>1, <1>1, <1>2
  <2>3. P(x) \in SUBSET Nat /\ i \in P(x)
      BY <2>1, <2>2, <1>2
  <2>4. \E a \in P(x) : \A b \in P(x) : a <= b
    <3>1. P(x) # {}
        BY <2>3
    <3> HIDE DEF P
    <3> QED BY <2>3, <3>1, LeastNumber
  <2>5. first[x] = CHOOSE a \in P(x) : \A b \in P(x) : a <= b
    <3> HIDE DEF P
    <3> QED OBVIOUS
  <2>6. first[x] \in P(x) /\ \A b \in P(x) : first[x] <= b
    <3> HIDE DEF P, first
    <3> QED BY <2>4, <2>5
  <2> HIDE DEF first
  <2> QED BY <2>6
<1>8. first \in [V -> 1..m]
  <2>1. first = [x \in V |-> first[x]]
      OBVIOUS
  <2> HIDE DEF first
  <2> QED BY <2>1, <1>7
<1> HIDE DEF first
<1>9. ASSUME NEW x \in V, NEW y \in V, Sooner(x, y) PROVE first[x] < first[y]
  <2>1. PICK i \in 1..t : \A j \in 1..t : Around(Token(x, i), Token(y, j))
      BY <1>9 DEF Sooner, t
  <2>2. PICK p \in 1..m : list[p] = Token(x, i)
      BY <1>1, <1>2
  <2>3. PICK q \in 1..m : q = first[y] /\ list[q] \in W /\ list[q].owner = y
      BY <1>1, <1>7
  <2>4. PICK z \in V, j \in 1..t : list[q] = Token(z, j)
      BY <2>3, <1>3
  <2>5. z = y
      BY <2>3, <2>4, <1>2
  <2>6. Around(list[p], list[q])
      BY <2>1, <2>2, <2>4, <2>5
  <2>7. p < q
      BY <2>6, <1>6
  <2>8. first[x] <= p /\ first[x] \in 1..m
      BY <2>2, <1>2, <1>7
  <2> QED BY <2>3, <2>7, <2>8
<1>10. ASSUME NEW x \in V, NEW y \in V, first[x] < first[y] PROVE Sooner(x, y)
  <2>1. PICK p \in 1..m : p = first[x] /\ list[p] \in W /\ list[p].owner = x
      BY <1>1, <1>7
  <2>2. PICK z \in V, i \in 1..t : list[p] = Token(z, i)
      BY <2>1, <1>3
  <2>3. list[p] = Token(x, i)
      BY <2>1, <2>2, <1>2
  <2>4. ASSUME NEW j \in 1..t PROVE Around(Token(x, i), Token(y, j))
    <3>1. PICK q \in 1..m : list[q] = Token(y, j)
        BY <1>1, <1>2
    <3>2. first[y] <= q /\ first[y] \in 1..m
        BY <3>1, <1>2, <1>7
    <3>3. p < q
        BY <2>1, <3>2, <1>10
    <3> QED BY <3>1, <3>3, <2>3, <1>1
  <2> QED BY <2>4 DEF Sooner, t
<1>11. \A x, y \in V : <<x, y>> \in Nearer(V) <=> first[x] < first[y]
  <2>1. \A x, y \in V : <<x, y>> \in Nearer(V) <=> Sooner(x, y)
      BY DEF Nearer
  <2> QED BY <2>1, <1>9, <1>10
<1> QED BY <1>7, <1>8, <1>11 DEF FirstPlaces

\* The first nodes of V in the order Q.
Leading(V, Q, d, s) ==
    s \in [1..d -> V] /\ \A k \in 1..d : Cardinality(Below(V, Q, s[k])) = k - 1

\* There is one such list.
LEMMA LeadingUnique ==
    ASSUME NEW V, IsFiniteSet(V), NEW Q, Order(V, Q), NEW d, NEW s, NEW t,
           Leading(V, Q, d, s), Leading(V, Q, d, t)
    PROVE  s = t
<1>1. /\ s \in [1..d -> V] /\ \A k \in 1..d : Cardinality(Below(V, Q, s[k])) = k - 1
      /\ t \in [1..d -> V] /\ \A k \in 1..d : Cardinality(Below(V, Q, t[k])) = k - 1
    BY DEF Leading
<1>2. ASSUME NEW k \in 1..d PROVE s[k] = t[k]
  <2>1. s[k] \in V /\ t[k] \in V
        /\ Cardinality(Below(V, Q, s[k])) = Cardinality(Below(V, Q, t[k]))
      BY <1>1
  <2> QED BY <2>1, RankUnique
<1>3. s = [k \in 1..d |-> s[k]] /\ t = [k \in 1..d |-> t[k]]
    BY <1>1
<1> QED BY <1>2, <1>3

\* Nothing is in it twice.
LEMMA LeadingCount ==
    ASSUME NEW V, NEW Q, NEW d \in Nat, NEW s, Leading(V, Q, d, s)
    PROVE  Cardinality(Replicas(s)) = d
<1>1. s \in [1..d -> V] /\ DOMAIN s = 1..d
      /\ \A k \in 1..d : Cardinality(Below(V, Q, s[k])) = k - 1
    BY DEF Leading
<1>2. ASSUME NEW i \in 1..d, NEW j \in 1..d, s[i] = s[j] PROVE i = j
  <2>1. i - 1 = j - 1
      BY <1>1, <1>2
  <2> QED BY <2>1
<1>3. Distinct(s)
    BY <1>1, <1>2 DEF Distinct
<1>4. Cardinality({s[i] : i \in 1..d}) = d
    BY <1>1, <1>3, DistinctCount
<1>5. Replicas(s) = {s[i] : i \in 1..d}
    BY <1>1 DEF Replicas
<1> QED BY <1>4, <1>5

Want == IF hash.replicas >= 1 THEN hash.replicas ELSE 1

\* How many replicas are asked for, and given.
LEMMA DesiredIs ==
    ASSUME Hashed, NEW nodes, Len(nodes) \in Nat
    PROVE  Want \in Nat \ {0} /\ Desired(nodes) = IF Want <= Len(nodes) THEN Want ELSE Len(nodes)
<1>1. PICK r \in Nat : r = hash.replicas
    BY DEF Hashed
<1>2. PICK w \in Nat \ {0} : w = Want /\ w = IF r >= 1 THEN r ELSE 1
    BY <1>1 DEF Want
<1>3. Max({r, 1}) = w
  <2>1. w \in {r, 1} /\ \A y \in {r, 1} : w >= y
      BY <1>2
  <2>2. \A x \in {r, 1} : (\A y \in {r, 1} : x >= y) => x = w
      BY <1>2
  <2> QED BY <2>1, <2>2, Zenon DEF Max
<1>4. PICK n \in Nat : n = Len(nodes)
    OBVIOUS
<1>5. Desired(nodes) = Min({w, n})
    BY <1>1, <1>3, <1>4 DEF Desired
<1>6. Min({w, n}) = IF w <= n THEN w ELSE n
    BY MinOfTwo
<1> QED BY <1>2, <1>4, <1>5, <1>6

\* RendezvousPlacement::locate gives the first nodes by score.
LEMMA RendezvousLeads ==
    ASSUME Hashed, NEW V \in SUBSET NodeIds, NEW n \in Nat, NEW nodes, Lists(V, n, nodes),
           Len(nodes) = n
    PROVE  /\ IsFiniteSet(V) /\ Cardinality(V) = n /\ Order(V, Scores(V))
           /\ Leading(V, Scores(V), Desired(nodes), Rendezvous(nodes))
<1> DEFINE s == Sorted(nodes, RanksBefore)
           Q == Scores(V)
<1>1. IsFiniteSet(V) /\ Cardinality(V) = n /\ Ranked(V, Q, s) /\ Order(V, Q)
    BY SortedByScore, ScoresOrder
<1>2. PICK d \in Nat : d = Desired(nodes) /\ d <= n
    BY DesiredIs
<1>3. Rendezvous(nodes) = SubSeq(s, 1, d)
    BY <1>2 DEF Rendezvous
<1> HIDE DEF s, Q
<1>4. s \in Seq(V) /\ Len(s) = n /\ DOMAIN s = 1..n
      /\ \A k \in 1..n : Cardinality(Below(V, Q, s[k])) = k - 1
    BY <1>1 DEF Ranked
<1>5. \A k \in 1..d : s[k] \in V /\ Cardinality(Below(V, Q, s[k])) = k - 1
  <2>1. \A k \in 1..d : k \in 1..n
      BY <1>2
  <2> QED BY <2>1, <1>4
<1> DEFINE p == SubSeq(s, 1, d)
<1>6. /\ p \in Seq(V) /\ Len(p) = IF 1 <= d THEN d - 1 + 1 ELSE 0
      /\ \A i \in 1..d - 1 + 1 : p[i] = s[1 + i - 1]
  <2>1. 1 \in Int /\ d \in Int
      OBVIOUS
  <2> QED BY <2>1, <1>5, SubSeqProperties
<1> HIDE DEF p
<1>7. Len(p) = d /\ DOMAIN p = 1..d
  <2>1. Len(p) = d
      BY <1>6
  <2> QED BY <2>1, <1>6, LenProperties
<1>8. ASSUME NEW k \in 1..d PROVE p[k] = s[k] /\ p[k] \in V
  <2>1. k \in 1..d - 1 + 1 /\ 1 + k - 1 = k
      OBVIOUS
  <2> QED BY <2>1, <1>5, <1>6
<1>9. Leading(V, Q, d, p)
  <2>1. p = [k \in 1..d |-> p[k]]
      BY <1>6, <1>7
  <2>2. p \in [1..d -> V]
      BY <2>1, <1>8
  <2> QED BY <2>2, <1>5, <1>8 DEF Leading
<1> QED BY <1>1, <1>2, <1>3, <1>9 DEF Q, p

\* HyperSpacePlacement::locate gives the first nodes around the ring from the key.
LEMMA HyperSpaceLeads ==
    ASSUME Hashed, NEW V \in SUBSET NodeIds, NEW n \in Nat \ {0}, NEW nodes, Lists(V, n, nodes),
           Len(nodes) = n, IsFiniteSet(V), Cardinality(V) = n
    PROVE  Order(V, Nearer(V)) /\ Leading(V, Nearer(V), Desired(nodes), HyperSpace(nodes))
<1> DEFINE ring == Ring(nodes)
           list == Turned(ring)
           owners == [i \in DOMAIN ring |-> ring[((RingStart(ring) + i - 1) % Len(ring)) + 1].owner]
           firsts == {i \in DOMAIN ring : \A j \in 1..(i - 1) : owners[j] # owners[i]}
           Q == Nearer(V)
<1>1. PICK m \in Nat \ {0} : m = Len(ring) /\ DOMAIN ring = 1..m /\ GoesAround(TokensOf(V), m, list)
    BY RingTurned
<1>2. PICK first : FirstPlaces(V, m, list, first)
  <2> HIDE DEF list
  <2> QED BY <1>1, NearerComesFirst
<1>3. /\ first \in [V -> 1..m] /\ \A x \in V : list[first[x]].owner = x
      /\ \A x \in V, i \in 1..m : list[i].owner = x => first[x] <= i
      /\ \A x, y \in V : <<x, y>> \in Q <=> first[x] < first[y]
    BY <1>2 DEF FirstPlaces
<1>4. \A i \in 1..m : owners[i] = list[i].owner
    BY <1>1 DEF Turned
<1>5. \A i \in 1..m : list[i].owner \in V
  <2>1. \A i \in 1..m : list[i] \in TokensOf(V)
      BY <1>1 DEF GoesAround
  <2>2. \A s \in TokensOf(V) : s.owner \in V
      BY TokenFields DEF TokensOf
  <2> HIDE DEF list
  <2> QED BY <2>1, <2>2
<1>6. HyperSpace(nodes) = [k \in 1..Desired(nodes) |->
         owners[CHOOSE i \in firsts : Cardinality({j \in firsts : j < i}) = k - 1]]
    BY DEF HyperSpace
<1>7. \A i \in 1..m : i \in firsts <=> \A j \in 1..(i - 1) : owners[j] # owners[i]
    BY <1>1
<1>8. firsts \in SUBSET (1..m)
    BY <1>1
<1> HIDE DEF ring, list, owners, firsts, Q
<1>9. \A x \in V : first[x] \in 1..m
    BY <1>3
<1>10. Order(V, Q)
  <2>1. \A x, y \in V : first[x] = first[y] => x = y
      BY <1>3
  <2> QED BY <2>1, <1>3, <1>9 DEF Order
<1>11. ASSUME NEW x \in V PROVE first[x] \in firsts
  <2>1. ASSUME NEW j \in 1..(first[x] - 1), owners[j] = owners[first[x]] PROVE FALSE
    <3>1. j \in 1..m /\ j < first[x]
        BY <1>9
    <3>2. list[j].owner = x
        BY <2>1, <3>1, <1>3, <1>4, <1>9
    <3>3. first[x] <= j
        BY <3>1, <3>2, <1>3
    <3> QED BY <3>1, <3>3, <1>9
  <2> QED BY <2>1, <1>7, <1>9
<1>12. ASSUME NEW i \in firsts PROVE i \in 1..m /\ owners[i] \in V /\ first[owners[i]] = i
  <2>1. i \in 1..m
      BY <1>8
  <2>2. owners[i] = list[i].owner /\ owners[i] \in V
      BY <2>1, <1>4, <1>5
  <2>3. PICK f \in 1..m : f = first[owners[i]] /\ f <= i /\ list[f].owner = owners[i]
      BY <2>1, <2>2, <1>3, <1>9
  <2>4. owners[f] = owners[i]
      BY <2>3, <1>4
  <2>5. ~(f \in 1..(i - 1))
      BY <2>1, <2>4, <1>7
  <2>6. f = i
      BY <2>1, <2>3, <2>5
  <2> QED BY <2>1, <2>2, <2>3, <2>6
<1>13. ASSUME NEW x \in V
       PROVE  Cardinality({j \in firsts : j < first[x]}) = Cardinality(Below(V, Q, x))
  <2> DEFINE S == Below(V, Q, x)
             T == {j \in firsts : j < first[x]}
             f == [y \in S |-> first[y]]
  <2>1. f \in [S -> T] /\ S \in SUBSET V
      BY <1>3, <1>11 DEF Below
  <2>2. Distinct(f)
    <3>1. \A a, b \in V : first[a] = first[b] => a = b
        BY <1>3
    <3> QED BY <2>1, <3>1 DEF Distinct
  <2>3. \A j \in T : \E y \in S : f[y] = j
    <3> SUFFICES ASSUME NEW j \in T PROVE \E y \in S : f[y] = j
        OBVIOUS
    <3>1. j \in firsts /\ j < first[x]
        OBVIOUS
    <3>2. owners[j] \in V /\ first[owners[j]] = j
        BY <3>1, <1>12
    <3>3. owners[j] \in S
        BY <3>1, <3>2, <1>3 DEF Below
    <3> QED BY <3>2, <3>3
  <2>4. IsFiniteSet(S)
      BY <1>10, RankBounded
  <2> HIDE DEF S, T, f
  <2>5. Cardinality(T) = Cardinality(S)
      BY <2>1, <2>2, <2>3, <2>4, SameNumber
  <2> QED BY <2>5 DEF S, T
<1>14. PICK d \in Nat : d = Desired(nodes) /\ d <= n
    BY DesiredIs
<1>15. ASSUME NEW k \in 1..d
       PROVE  /\ HyperSpace(nodes)[k] \in V
              /\ Cardinality(Below(V, Q, HyperSpace(nodes)[k])) = k - 1
  <2> DEFINE R(i) == Cardinality({j \in firsts : j < i}) = k - 1
             at == CHOOSE i \in firsts : R(i)
  <2>1. k - 1 \in Nat /\ k - 1 < Cardinality(V)
      BY <1>14
  <2>2. HasRank(V, Q, k - 1)
      BY <2>1, <1>10, RankOnto
  <2>3. PICK x \in V : Cardinality(Below(V, Q, x)) = k - 1
      BY <2>2 DEF HasRank
  <2>4. first[x] \in firsts /\ R(first[x])
      BY <2>3, <1>11, <1>13
  <2>5. HyperSpace(nodes)[k] = owners[at]
      BY <1>6, <1>14
  <2>6. at \in firsts /\ R(at)
    <3> HIDE DEF R
    <3> QED BY <2>4
  <2> HIDE DEF at
  <2>7. owners[at] \in V /\ first[owners[at]] = at
      BY <2>6, <1>12
  <2>8. Cardinality(Below(V, Q, owners[at])) = k - 1
      BY <2>6, <2>7, <1>13
  <2> QED BY <2>5, <2>7, <2>8
<1>16. Leading(V, Q, d, HyperSpace(nodes))
  <2>1. HyperSpace(nodes) = [k \in 1..d |-> HyperSpace(nodes)[k]]
      BY <1>6, <1>14
  <2>2. HyperSpace(nodes) \in [1..d -> V]
      BY <2>1, <1>15
  <2> QED BY <2>2, <1>15 DEF Leading
<1> QED BY <1>10, <1>14, <1>16 DEF Q

\* What the invariant says of hashes and of the list of daemons.
LEMMA DaemonsListed ==
    ASSUME Placed
    PROVE  /\ Hashed /\ ToSet(order) \in SUBSET NodeIds /\ Len(order) \in Nat
           /\ Lists(ToSet(order), Len(order), order)
<1>1. Hashed
    BY HashesAssumption DEF Placed, Hashed
<1>2. PICK n \in Nat : n = Len(order) /\ DOMAIN order = 1..n /\ \A i \in 1..n : order[i] \in NodeIds
    BY LenProperties, ElementOfSeq DEF Placed
<1>3. ToSet(order) \in SUBSET NodeIds
    BY <1>2 DEF ToSet
<1>4. order \in [1..n -> ToSet(order)] /\ \A x \in ToSet(order) : \E i \in 1..n : order[i] = x
  <2>1. order = [i \in 1..n |-> order[i]]
      BY <1>2 DEF Placed
  <2> QED BY <2>1, <1>2 DEF ToSet
<1>5. Distinct(order)
    BY DEF Placed, Distinct
<1> QED BY <1>1, <1>2, <1>3, <1>4, <1>5 DEF Lists

\* A key's replicas under either strategy, for any list of the daemons.
LEMMA StrategiesLead ==
    ASSUME Hashed, NEW V \in SUBSET NodeIds, NEW n \in Nat \ {0}, NEW nodes, Lists(V, n, nodes),
           Len(nodes) = n
    PROVE  /\ IsFiniteSet(V) /\ Cardinality(V) = n /\ Order(V, Scores(V)) /\ Order(V, Nearer(V))
           /\ Leading(V, Scores(V), Desired(nodes), Strategies(nodes)[1])
           /\ Leading(V, Nearer(V), Desired(nodes), Strategies(nodes)[2])
<1>1. /\ IsFiniteSet(V) /\ Cardinality(V) = n /\ Order(V, Scores(V))
      /\ Leading(V, Scores(V), Desired(nodes), Rendezvous(nodes))
    BY RendezvousLeads
<1>2. Order(V, Nearer(V)) /\ Leading(V, Nearer(V), Desired(nodes), HyperSpace(nodes))
    BY <1>1, HyperSpaceLeads
<1> QED BY <1>1, <1>2 DEF Strategies

\* Placement depends on which daemons there are and not on the order they are listed
\* in, and gives as many different replicas as asked for, whatever the hashes.
THEOREM OrderIgnored == Spec => []PlacementIgnoresOrder
<1>1. ASSUME IndInv PROVE PlacementIgnoresOrder
  <2> SUFFICES ASSUME order # <<>>
               PROVE  /\ Strategies(order) = Strategies(Ids)
                      /\ \A i \in 1..2 :
                            Cardinality(Replicas(Strategies(order)[i])) = Desired(order)
      BY DEF PlacementIgnoresOrder
  <2> DEFINE V == ToSet(order)
  <2>1. Placed
      BY <1>1 DEF IndInv
  <2>2. Hashed /\ V \in SUBSET NodeIds /\ Len(order) \in Nat /\ Lists(V, Len(order), order)
      BY <2>1, DaemonsListed
  <2>3. PICK n \in Nat \ {0} : n = Len(order)
      BY <2>1, EmptySeq DEF Placed
  <2>4. /\ IsFiniteSet(V) /\ Cardinality(V) = n /\ Order(V, Less(V)) /\ Ranked(V, Less(V), Ids)
    <3>1. order \in Seq(NodeIds) /\ Distinct(order)
        BY <2>1 DEF Placed, Distinct
    <3> QED BY <3>1, <2>3, IdsRanked
  <2> HIDE DEF V
  <2>5. Lists(V, n, Ids) /\ Len(Ids) = n
    <3>1. Ids \in Seq(V) /\ Len(Ids) = n /\ DOMAIN Ids = 1..n
        BY <2>4 DEF Ranked
    <3>2. Distinct(Ids) /\ \A x \in V : \E k \in DOMAIN Ids : Ids[k] = x
        BY <2>4, RankedHasAll
    <3>3. Ids \in [1..n -> V]
      <4>1. Ids = [k \in 1..n |-> Ids[k]] /\ \A k \in 1..n : Ids[k] \in V
          BY <3>1, ElementOfSeq
      <4> QED BY <4>1
    <3> QED BY <3>1, <3>2, <3>3 DEF Lists
  <2>6. /\ Order(V, Scores(V)) /\ Order(V, Nearer(V))
        /\ Leading(V, Scores(V), Desired(order), Strategies(order)[1])
        /\ Leading(V, Nearer(V), Desired(order), Strategies(order)[2])
      BY <2>2, <2>3, StrategiesLead
  <2>7. /\ Leading(V, Scores(V), Desired(Ids), Strategies(Ids)[1])
        /\ Leading(V, Nearer(V), Desired(Ids), Strategies(Ids)[2])
      BY <2>2, <2>5, StrategiesLead
  <2>8. PICK d \in Nat : d = Desired(order) /\ d = Desired(Ids)
      BY <2>2, <2>3, <2>5, DesiredIs
  <2>9. Strategies(order)[1] = Strategies(Ids)[1] /\ Strategies(order)[2] = Strategies(Ids)[2]
    <3>1. Strategies(order)[1] = Strategies(Ids)[1]
        BY <2>4, <2>6, <2>7, <2>8, LeadingUnique
    <3>2. Strategies(order)[2] = Strategies(Ids)[2]
        BY <2>4, <2>6, <2>7, <2>8, LeadingUnique
    <3> QED BY <3>1, <3>2
  <2>10. Strategies(order) = Strategies(Ids)
      BY <2>9 DEF Strategies
  <2>11. ASSUME NEW i \in 1..2 PROVE Cardinality(Replicas(Strategies(order)[i])) = Desired(order)
    <3>1. CASE i = 1
        BY <3>1, <2>6, <2>8, LeadingCount
    <3>2. CASE i = 2
        BY <3>2, <2>6, <2>8, LeadingCount
    <3> QED BY <3>1, <3>2
  <2> QED BY <2>10, <2>11
<1> QED BY <1>1, Invariance, PTL DEF Spec

-------------------------------------------------------------------------------
(* The strategies: a daemon that joins                                        *)

\* The smaller of two numbers, and a list that has n and else the elements of another.
Smaller(d, w, c) == d = IF w <= c THEN w ELSE c
Keeps(n, old, new, k) ==
    new[k] = n \/ new[k] = old[k - Cardinality({j \in 1..k : new[j] = n})]

\* The first of a set and the first of the set with one more element.
LEMMA LeadingWithOneMore ==
    ASSUME NEW V, IsFiniteSet(V), NEW n, n \notin V, NEW P, NEW Q, Order(V, P),
           Order(V \cup {n}, Q), \A x, y \in V : <<x, y>> \in P <=> <<x, y>> \in Q,
           NEW c \in Nat, c = Cardinality(V), NEW w \in Nat, NEW d \in Nat, NEW e \in Nat,
           Smaller(d, w, c), Smaller(e, w, c + 1),
           NEW old, Leading(V, P, d, old), NEW new, Leading(V \cup {n}, Q, e, new),
           NEW k \in DOMAIN new
    PROVE  Keeps(n, old, new, k)
<1> SUFFICES ASSUME new[k] # n
             PROVE  new[k] = old[k - Cardinality({j \in 1..k : new[j] = n})]
    BY DEF Keeps
<1>0. /\ k \in 1..e /\ d = (IF w <= Cardinality(V) THEN w ELSE Cardinality(V))
      /\ e = (IF w <= Cardinality(V) + 1 THEN w ELSE Cardinality(V) + 1)
    BY DEF Leading, Smaller
<1> DEFINE U == V \cup {n}
           x == new[k]
           J == {j \in 1..k : new[j] = n}
<1>1. IsFiniteSet(U)
    BY FS_AddElement
<1>2. /\ new \in [1..e -> U] /\ \A i \in 1..e : Cardinality(Below(U, Q, new[i])) = i - 1
      /\ old \in [1..d -> V] /\ \A i \in 1..d : Cardinality(Below(V, P, old[i])) = i - 1
    BY DEF Leading
<1>3. x \in V /\ x \in U /\ n \in U
    BY <1>0, <1>2
<1>4. PICK v \in Nat : v = Cardinality(V)
    BY FS_CardinalityType
<1>5. Cardinality(Below(U, Q, x)) = k - 1
    BY <1>0, <1>2
<1>6. PICK b \in Nat : b = Cardinality(Below(V, P, x)) /\ b < v
    BY <1>3, <1>4, RankBounded
<1>7. ASSUME NEW i \in 1..d, i = b + 1 PROVE old[i] = x
  <2>1. Cardinality(Below(V, P, old[i])) = Cardinality(Below(V, P, x)) /\ old[i] \in V
      BY <1>2, <1>6, <1>7
  <2> QED BY <2>1, <1>3, RankUnique
<1>8. CASE <<n, x>> \in Q
  <2>1. Below(U, Q, x) = Below(V, P, x) \cup {n} /\ n \notin Below(V, P, x)
      BY <1>3, <1>8 DEF Below
  <2>2. IsFiniteSet(Below(V, P, x))
      BY <1>3, RankBounded
  <2>3. k - 1 = b + 1
    <3>1. PICK B : B = Below(V, P, x)
        OBVIOUS
    <3>2. IsFiniteSet(B) /\ n \notin B /\ Below(U, Q, x) = B \cup {n}
        BY <3>1, <2>1, <2>2
    <3>3. Cardinality(B \cup {n}) = Cardinality(B) + 1
        BY <3>2, FS_AddElement
    <3> QED BY <3>1, <3>2, <3>3, <1>5, <1>6
  <2>4. PICK r \in Nat : r = Cardinality(Below(U, Q, n)) /\ r < k - 1
      BY <1>1, <1>3, <1>5, <1>8, RankGrows
  <2>5. r + 1 \in 1..k /\ r + 1 \in 1..e
      BY <1>0, <2>4
  <2>6. new[r + 1] = n
    <3>1. PICK i \in 1..e : i = r + 1 /\ i - 1 = r
        BY <2>4, <2>5
    <3>2. Cardinality(Below(U, Q, new[i])) = r /\ new[i] \in U
        BY <3>1, <1>2
    <3> QED BY <3>1, <3>2, <2>4, <1>1, <1>3, RankUnique
  <2>7. J = {r + 1}
    <3>1. ASSUME NEW j \in J PROVE j = r + 1
      <4>1. j \in 1..e /\ new[j] = new[r + 1]
          BY <1>0, <2>6
      <4>2. j - 1 = (r + 1) - 1
          BY <4>1, <2>5, <1>2
      <4> QED BY <4>2
    <3> QED BY <3>1, <2>5, <2>6
  <2>8. Cardinality(J) = 1
      BY <2>7, FS_Singleton
  <2>9. k - 1 \in 1..d
      BY <1>0, <2>3, <1>4, <1>6
  <2>10. old[k - 1] = x
      BY <2>3, <2>9, <1>7
  <2> QED BY <2>8, <2>10
<1>9. CASE <<n, x>> \notin Q
  <2>1. Below(U, Q, x) = Below(V, P, x)
      BY <1>3, <1>9 DEF Below
  <2>2. k - 1 = b
      BY <2>1, <1>5, <1>6
  <2>3. J = {}
    <3> SUFFICES ASSUME NEW j \in 1..k, new[j] = n PROVE FALSE
        OBVIOUS
    <3>1. j \in 1..e /\ j < k
      <4>1. j # k
          OBVIOUS
      <4> QED BY <4>1, <1>0
    <3>2. Cardinality(Below(U, Q, n)) = j - 1
        BY <3>1, <1>2
    <3>3. <<x, n>> \in Q
        BY <1>3, <1>9 DEF Order
    <3>4. Cardinality(Below(U, Q, x)) < Cardinality(Below(U, Q, n))
        BY <3>3, <1>1, <1>3, RankGrows
    <3>5. k - 1 < j - 1
        BY <3>2, <3>4, <1>5
    <3> QED BY <3>1, <3>5, <1>0
  <2>4. Cardinality(J) = 0
      BY <2>3, FS_EmptySet
  <2>5. k \in 1..d /\ k = b + 1 /\ k - 0 = k
      BY <1>0, <2>2, <1>4, <1>6
  <2>6. old[k] = x
      BY <2>5, <1>7
  <2> QED BY <2>4, <2>5, <2>6
<1> QED BY <1>8, <1>9

\* The list of daemons with one more at its end.
LEMMA OneMoreListed ==
    ASSUME NEW nodes \in Seq(NodeIds), Distinct(nodes), NEW n \in NodeIds,
           NEW more, more = Append(nodes, n), Distinct(more)
    PROVE  /\ n \notin ToSet(nodes) /\ Len(more) = Len(nodes) + 1
           /\ Lists(ToSet(nodes) \cup {n}, Len(nodes) + 1, more)
<1>1. PICK m \in Nat : m = Len(nodes) /\ DOMAIN nodes = 1..m
    BY LenProperties
<1>2. /\ more \in Seq(NodeIds) /\ Len(more) = m + 1 /\ more[m + 1] = n
      /\ \A i \in 1..m : more[i] = nodes[i]
    BY <1>1, AppendProperties
<1>3. DOMAIN more = 1..(m + 1) /\ m + 1 \in 1..(m + 1) /\ \A i \in 1..m : i \in 1..(m + 1) /\ i # m + 1
    BY <1>2, LenProperties
<1>4. n \notin ToSet(nodes)
  <2> SUFFICES ASSUME NEW i \in 1..m, nodes[i] = n PROVE FALSE
      BY <1>1 DEF ToSet
  <2>1. more[i] = more[m + 1] /\ i \in DOMAIN more /\ m + 1 \in DOMAIN more /\ i # m + 1
      BY <1>2, <1>3
  <2> QED BY <2>1 DEF Distinct
<1>5. \A i \in 1..(m + 1) : more[i] \in ToSet(nodes) \cup {n}
  <2>1. \A i \in 1..m : nodes[i] \in ToSet(nodes)
      BY <1>1 DEF ToSet
  <2>2. \A i \in 1..(m + 1) : i \in 1..m \/ i = m + 1
      OBVIOUS
  <2> QED BY <2>1, <2>2, <1>2
<1>6. more \in [1..(m + 1) -> ToSet(nodes) \cup {n}]
  <2>1. more \in [1..(m + 1) -> NodeIds]
    <3>1. more \in [1..Len(more) -> NodeIds]
        BY <1>2, LenProperties
    <3> QED BY <3>1, <1>2
  <2> QED BY <2>1, <1>5
<1>7. ASSUME NEW x \in ToSet(nodes) \cup {n} PROVE \E i \in 1..(m + 1) : more[i] = x
  <2>1. CASE x = n
      BY <2>1, <1>2, <1>3
  <2>2. CASE x \in ToSet(nodes)
    <3>1. PICK i \in 1..m : nodes[i] = x
        BY <2>2, <1>1 DEF ToSet
    <3> QED BY <3>1, <1>2, <1>3
  <2> QED BY <2>1, <2>2
<1> QED BY <1>1, <1>2, <1>4, <1>6, <1>7 DEF Lists

\* A daemon that joins takes keys over from others and moves none between them, under
\* either strategy and whatever the hashes.
THEOREM NewcomerMovesToItself == Spec => JoinMovesToNewcomer
<1> DEFINE P == \A n \in NodeIds :
                  (order' = Append(order, n) /\ order # <<>>) =>
                     LET old == Strategies(order)
                         new == Strategies(order')
                         kept(i, k) == k - Cardinality({j \in 1..k : new[i][j] = n})
                     IN  \A i \in 1..2 : \A k \in DOMAIN new[i] :
                            new[i][k] = n \/ new[i][k] = old[i][kept(i, k)]
<1>1. ASSUME IndInv, IndInv' PROVE P
  <2> SUFFICES ASSUME NEW n \in NodeIds, order' = Append(order, n), order # <<>>,
                      NEW i \in 1..2, NEW k \in DOMAIN Strategies(order')[i]
               PROVE  \/ Strategies(order')[i][k] = n
                      \/ Strategies(order')[i][k] =
                         Strategies(order)[i]
                            [k - Cardinality({j \in 1..k : Strategies(order')[i][j] = n})]
      OBVIOUS
  <2> DEFINE V == ToSet(order)
             U == V \cup {n}
  <2>1. Placed /\ order' = Append(order, n) /\ Distinct(order')
      BY <1>1 DEF IndInv, Placed, Distinct
  <2>2. PICK more : more = order'
      OBVIOUS
  <2>3. /\ Hashed /\ V \in SUBSET NodeIds /\ Lists(V, Len(order), order)
        /\ order \in Seq(NodeIds) /\ Distinct(order)
      BY <2>1, DaemonsListed DEF Placed, Distinct
  <2>4. PICK m \in Nat \ {0} : m = Len(order) /\ m + 1 \in Nat \ {0}
      BY <2>3, EmptySeq, LenProperties
  <2>5. n \notin V /\ Len(more) = m + 1 /\ Lists(U, m + 1, more) /\ U \in SUBSET NodeIds
      BY <2>1, <2>2, <2>3, <2>4, OneMoreListed
  <2>6. \A x, y \in V : /\ <<x, y>> \in Scores(V) <=> <<x, y>> \in Scores(U)
                        /\ <<x, y>> \in Nearer(V) <=> <<x, y>> \in Nearer(U)
      BY DEF Scores, Nearer
  <2> DEFINE d == Desired(order)
             e == Desired(more)
  <2>7. /\ IsFiniteSet(V) /\ Cardinality(V) = m /\ Order(V, Scores(V)) /\ Order(V, Nearer(V))
        /\ Leading(V, Scores(V), d, Strategies(order)[1])
        /\ Leading(V, Nearer(V), d, Strategies(order)[2])
    <3> HIDE DEF V
    <3> QED BY <2>3, <2>4, StrategiesLead
  <2>8. /\ Order(U, Scores(U)) /\ Order(U, Nearer(U))
        /\ Leading(U, Scores(U), e, Strategies(more)[1])
        /\ Leading(U, Nearer(U), e, Strategies(more)[2])
    <3> HIDE DEF U
    <3> QED BY <2>3, <2>4, <2>5, StrategiesLead
  <2>9. PICK w \in Nat : Smaller(d, w, m) /\ Smaller(e, w, m + 1)
      BY <2>3, <2>4, <2>5, DesiredIs DEF Smaller
  <2>10. d \in Nat /\ e \in Nat
      BY <2>9, <2>4 DEF Smaller
  <2> HIDE DEF V, d, e
  <2>11. CASE i = 1
    <3>1. PICK old, new : old = Strategies(order)[1] /\ new = Strategies(more)[1]
        OBVIOUS
    <3>2. k \in DOMAIN new /\ Leading(V, Scores(V), d, old) /\ Leading(V \cup {n}, Scores(U), e, new)
          /\ Order(V \cup {n}, Scores(U))
        BY <3>1, <2>2, <2>7, <2>8, <2>11
    <3>3. Keeps(n, old, new, k)
      <4> DEFINE Q == Scores(U)
      <4>1. Order(V \cup {n}, Q) /\ Leading(V \cup {n}, Q, e, new)
            /\ \A x, y \in V : <<x, y>> \in Scores(V) <=> <<x, y>> \in Q
          BY <3>2, <2>6
      <4> HIDE DEF Q
      <4> QED BY <4>1, <3>2, <2>4, <2>5, <2>7, <2>9, <2>10, LeadingWithOneMore
    <3> QED BY <3>1, <3>3, <2>2, <2>11 DEF Keeps
  <2>12. CASE i = 2
    <3>1. PICK old, new : old = Strategies(order)[2] /\ new = Strategies(more)[2]
        OBVIOUS
    <3>2. k \in DOMAIN new /\ Leading(V, Nearer(V), d, old) /\ Leading(V \cup {n}, Nearer(U), e, new)
          /\ Order(V \cup {n}, Nearer(U))
        BY <3>1, <2>2, <2>7, <2>8, <2>12
    <3>3. Keeps(n, old, new, k)
      <4> DEFINE Q == Nearer(U)
      <4>1. Order(V \cup {n}, Q) /\ Leading(V \cup {n}, Q, e, new)
            /\ \A x, y \in V : <<x, y>> \in Nearer(V) <=> <<x, y>> \in Q
          BY <3>2, <2>6
      <4> HIDE DEF Q
      <4> QED BY <4>1, <3>2, <2>4, <2>5, <2>7, <2>9, <2>10, LeadingWithOneMore
    <3> QED BY <3>1, <3>3, <2>2, <2>12 DEF Keeps
  <2> QED BY <2>11, <2>12
<1>2. IndInv /\ IndInv' /\ [Next]_vars => [P]_vars
    BY <1>1
<1> QED BY <1>2, Invariance, PTL DEF Spec, JoinMovesToNewcomer

===============================================================================
