---------------------------- MODULE SumTheorems ----------------------------
(***************************************************************************)
(* What FoldLeft with + computes: the sum of a sequence of numbers.  Each  *)
(* induction takes the least length at which the claim would fail.         *)
(***************************************************************************)
EXTENDS Integers, Sequences, SequencesExt, WellFoundedInduction, TLAPS

\* A non-empty set of natural numbers has a least element.
LEMMA LeastNat ==
    ASSUME NEW T, T \subseteq Nat, T # {}
    PROVE  \E m \in T : \A k \in T : m <= k
<1>1. PICK m \in T : \A k \in T : ~ (<<k, m>> \in OpToRel(<, Nat))
  BY NatLessThanWellFounded, WFMin
<1>2. ASSUME NEW k \in T PROVE m <= k
  <2>1. ~ (<<k, m>> \in OpToRel(<, Nat))
    BY <1>1
  <2>2. ~ (k < m)
    BY <2>1 DEF OpToRel
  <2> QED
    BY <2>2
<1> QED
  BY <1>2

\* The community modules' Max(), of a set of positions.
LEMMA MaxOfPositions ==
    ASSUME NEW n \in Nat, NEW t \in SUBSET (1..n), t # {}
    PROVE  Max(t) \in t /\ \A y \in t : Max(t) >= y
<1> DEFINE bounds == {b \in Nat : \A y \in t : b >= y}
<1>1. n \in bounds
  OBVIOUS
<1>2. PICK m \in bounds : \A b \in bounds : m <= b
  BY <1>1, LeastNat
<1>3. m \in t
  <2> SUFFICES ASSUME m \notin t PROVE FALSE
    OBVIOUS
  <2>0. PICK z \in t : TRUE
    OBVIOUS
  <2>1. m > 0 /\ m - 1 \in Nat
    BY <1>2, <2>0
  <2>2. \A y \in t : m - 1 >= y
    BY <1>2
  <2>3. m - 1 \in bounds
    BY <2>1, <2>2
  <2> QED
    BY <1>2, <2>3
<1> QED
  BY <1>2, <1>3 DEF Max

\* The sum of a sequence of numbers.
Total(s) == FoldLeft(LAMBDA a, b : a + b, 0, s)

\* g is the function over sets of positions that FoldLeft computes it with.
FoldsSets(g, s, S) ==
    g = [t \in SUBSET S |-> IF t = {} THEN 0 ELSE g[t \ {Max(t)}] + s[Max(t)]]

\* The sum with the community modules' definitions of folds expanded.
LEMMA TotalFoldsSets ==
    ASSUME NEW s
    PROVE  Total(s) = (CHOOSE g : FoldsSets(g, s, DOMAIN s))[DOMAIN s]
BY DEF Total, FoldLeft, MapThenFoldSet, FoldsSets

\* Such a function exists for the first n positions.
LEMMA FoldExists ==
    ASSUME NEW s \in Seq(Int), NEW n \in 0..Len(s)
    PROVE  \E g \in [SUBSET (1..n) -> Int] : FoldsSets(g, s, 1..n)
<1> DEFINE P(k) == \E g \in [SUBSET (1..k) -> Int] : FoldsSets(g, s, 1..k)
           bad == {k \in 0..Len(s) : ~P(k)}
<1>1. P(0)
  <2> DEFINE g == [t \in SUBSET (1..0) |-> 0]
  <2>1. \A t \in SUBSET (1..0) : t = {}
    OBVIOUS
  <2>2. g \in [SUBSET (1..0) -> Int] /\ FoldsSets(g, s, 1..0)
    BY <2>1 DEF FoldsSets
  <2> QED
    BY <2>2
<1>2. ASSUME NEW k \in 1..Len(s), P(k - 1) PROVE P(k)
  <2>1. PICK h \in [SUBSET (1..(k - 1)) -> Int] : FoldsSets(h, s, 1..(k - 1))
    BY <1>2
  <2> DEFINE g == [t \in SUBSET (1..k) |-> IF k \in t THEN h[t \ {k}] + s[k] ELSE h[t]]
  <2>0. \A t \in SUBSET (1..k) : g[t] = IF k \in t THEN h[t \ {k}] + s[k] ELSE h[t]
    OBVIOUS
  <2>2. \A t \in SUBSET (1..k) : t \ {k} \in SUBSET (1..(k - 1)) /\ (k \notin t => t \in SUBSET (1..(k - 1)))
    OBVIOUS
  <2>3. s[k] \in Int
    OBVIOUS
  <2>4. g \in [SUBSET (1..k) -> Int]
    BY <2>2, <2>3
  <2>6. g[{}] = 0
    BY <2>1 DEF FoldsSets
  <2> HIDE DEF g
  <2>5. ASSUME NEW t \in SUBSET (1..k), t # {}
        PROVE  g[t] = g[t \ {Max(t)}] + s[Max(t)]
    <3>1. Max(t) \in t /\ \A y \in t : Max(t) >= y
      BY ONLY <2>5, k \in Nat, MaxOfPositions
    <3>2. CASE k \in t
      <4>1. Max(t) = k
        <5>1. Max(t) \in 1..k /\ Max(t) >= k
          BY <3>1, <3>2
        <5> QED
          BY <5>1
      <4>2. t \ {k} \in SUBSET (1..k) /\ k \notin t \ {k}
        OBVIOUS
      <4>3. g[t \ {k}] = h[t \ {k}] /\ g[t] = h[t \ {k}] + s[k]
        BY ONLY <2>0, <3>2, <4>2, t \in SUBSET (1..k), Zenon
      <4> QED
        BY ONLY <4>1, <4>3, Zenon
    <3>3. CASE k \notin t
      <4>1. t \in SUBSET (1..(k - 1)) /\ t \ {Max(t)} \in SUBSET (1..k) /\ k \notin t \ {Max(t)}
        BY <2>2, <3>3
      <4>2. h[t] = h[t \ {Max(t)}] + s[Max(t)]
        BY <2>1, <2>5, <4>1 DEF FoldsSets
      <4>3. g[t] = h[t] /\ g[t \ {Max(t)}] = h[t \ {Max(t)}]
        BY ONLY <2>0, <3>3, <4>1, t \in SUBSET (1..k), Zenon
      <4> QED
        BY ONLY <4>2, <4>3, Zenon
    <3> QED
      BY <3>2, <3>3
  <2>7. FoldsSets(g, s, 1..k)
    BY <2>4, <2>5, <2>6 DEF FoldsSets
  <2> QED
    BY <2>4, <2>7
<1> HIDE DEF P
<1>3. bad = {}
  <2> SUFFICES ASSUME bad # {} PROVE FALSE
    OBVIOUS
  <2>0. bad \subseteq Nat
    OBVIOUS
  <2>1. PICK m \in bad : \A k \in bad : m <= k
    <3> HIDE DEF bad
    <3> QED
      BY <2>0, LeastNat
  <2>2. m # 0
    BY <1>1, <2>1
  <2>3. m \in 1..Len(s) /\ m - 1 \in 0..Len(s)
    BY <2>1, <2>2
  <2>4. m - 1 \notin bad
    BY <2>1, <2>3
  <2> QED
    BY <1>2, <2>1, <2>3, <2>4
<1> QED
  BY <1>3 DEF P

\* The sums of the first k numbers, for every k.
Sums(p, s) ==
    /\ p \in [0..Len(s) -> Int]
    /\ p[0] = 0
    /\ \A k \in 1..Len(s) : p[k] = p[k - 1] + s[k]

\* The sums of the beginnings end with the sum of the whole.
LEMMA TotalSums ==
    ASSUME NEW s \in Seq(Int)
    PROVE  \E p : Sums(p, s) /\ Total(s) = p[Len(s)]
<1>0. PICK n \in Nat : n = Len(s)
  OBVIOUS
<1> DEFINE g == CHOOSE f : FoldsSets(f, s, 1..n)
           p == [k \in 0..n |-> g[1..k]]
<1>1. DOMAIN s = 1..n /\ n \in 0..Len(s)
  BY <1>0
<1>2. FoldsSets(g, s, 1..n)
  <2>1. \E f : FoldsSets(f, s, 1..n)
    BY <1>1, FoldExists
  <2> QED
    BY ONLY <2>1, Zenon
<1>3. Total(s) = g[1..n]
  BY <1>1, TotalFoldsSets
<1>4. ASSUME NEW k \in 1..n PROVE g[1..k] = g[1..(k - 1)] + s[k]
  <2>1. 1..k \in SUBSET (1..n) /\ k \in 1..k /\ 1..k # {} /\ k \in Nat
    <3>1. k \in Nat /\ k \in 1..k /\ k <= n
      BY ONLY n \in Nat, k \in 1..n
    <3>2. \A x \in 1..k : x \in 1..n
      BY ONLY n \in Nat, <3>1
    <3> QED
      BY ONLY <3>1, <3>2, Zenon
  <2>2. Max(1..k) = k
    <3>1. Max(1..k) \in 1..k /\ \A y \in 1..k : Max(1..k) >= y
      BY ONLY <2>1, MaxOfPositions
    <3> QED
      BY ONLY <2>1, <3>1
  <2>3. (1..k) \ {k} = 1..(k - 1)
    OBVIOUS
  <2> HIDE DEF g
  <2> QED
    BY <1>2, <2>1, <2>2, <2>3 DEF FoldsSets
<1>5. g[1..0] = 0
  <2>1. 1..0 = {} /\ {} \in SUBSET (1..n)
    OBVIOUS
  <2> HIDE DEF g
  <2> QED
    BY <1>2, <2>1 DEF FoldsSets
<1> HIDE DEF g
<1>6. p[0] = 0 /\ \A k \in 1..n : p[k] = p[k - 1] + s[k]
  BY <1>4, <1>5
<1>7. p \in [0..n -> Int]
  <2> DEFINE bad == {k \in 0..n : p[k] \notin Int}
  <2> HIDE DEF p
  <2> SUFFICES bad = {}
    BY DEF p
  <2> SUFFICES ASSUME bad # {} PROVE FALSE
    OBVIOUS
  <2>0. bad \subseteq Nat
    OBVIOUS
  <2>1. PICK m \in bad : \A k \in bad : m <= k
    <3> HIDE DEF bad
    <3> QED
      BY <2>0, LeastNat
  <2>2. m # 0
    BY <1>6
  <2>3. m \in 1..n /\ m - 1 \in 0..n /\ m - 1 \notin bad /\ s[m] \in Int
    BY <1>0, <2>1, <2>2
  <2> QED
    BY <1>6, <2>1, <2>3
<1>8. p[n] = g[1..n]
  BY <1>1
<1> HIDE DEF p
<1> QED
  BY <1>0, <1>3, <1>6, <1>7, <1>8 DEF Sums

\* There is only one such function.
LEMMA SumsUnique ==
    ASSUME NEW s \in Seq(Int), NEW p, NEW q, Sums(p, s), Sums(q, s)
    PROVE  p[Len(s)] = q[Len(s)] /\ p[Len(s)] \in Int
<1>1. PICK n \in Nat : n = Len(s)
  OBVIOUS
<1>2. p \in [0..n -> Int] /\ q \in [0..n -> Int] /\ p[0] = q[0]
      /\ \A k \in 1..n : p[k] = p[k - 1] + s[k] /\ q[k] = q[k - 1] + s[k]
  BY <1>1 DEF Sums
<1> DEFINE bad == {k \in 0..n : p[k] # q[k]}
<1>3. bad = {}
  <2> SUFFICES ASSUME bad # {} PROVE FALSE
    OBVIOUS
  <2>1. bad \subseteq Nat
    OBVIOUS
  <2>2. PICK m \in bad : \A k \in bad : m <= k
    <3> HIDE DEF bad
    <3> QED
      BY <2>1, LeastNat
  <2>3. m \in 0..n /\ p[m] # q[m]
    BY ONLY m \in bad
  <2>4. m \in 1..n /\ m - 1 \in 0..n /\ ~(m <= m - 1)
    BY ONLY <1>2, <2>3, n \in Nat
  <2>5. p[m - 1] = q[m - 1]
    BY ONLY <2>2, <2>4
  <2> QED
    BY ONLY <1>2, <2>3, <2>4, <2>5, Zenon
<1>4. n \in 0..n
  OBVIOUS
<1>5. p[n] = q[n] /\ p[n] \in Int
  BY ONLY <1>2, <1>3, <1>4
<1> QED
  BY ONLY <1>1, <1>5, Zenon

\* Whatever function is the sums of the beginnings gives the sum.
LEMMA TotalIs ==
    ASSUME NEW s \in Seq(Int), NEW p, Sums(p, s)
    PROVE  Total(s) = p[Len(s)] /\ Total(s) \in Int
<1>1. PICK q : Sums(q, s) /\ Total(s) = q[Len(s)]
  BY TotalSums
<1> QED
  BY <1>1, SumsUnique, Zenon

\* The sum of a part at the beginning and of what is left.
LEMMA TotalOfParts ==
    ASSUME NEW s \in Seq(Int), NEW p, Sums(p, s), NEW n \in 0..Len(s)
    PROVE  /\ Total(SubSeq(s, 1, n)) = p[n]
           /\ Total(SubSeq(s, n + 1, Len(s))) = p[Len(s)] - p[n]
<1>1. PICK m \in Nat : m = Len(s)
  OBVIOUS
<1>2. /\ p \in [0..m -> Int] /\ p[0] = 0 /\ n \in 0..m
      /\ \A k \in 1..m : p[k] = p[k - 1] + s[k]
  BY <1>1 DEF Sums
<1>3. PICK a : a = SubSeq(s, 1, n)
  OBVIOUS
<1>4. a \in Seq(Int) /\ Len(a) = n /\ \A k \in 1..n : a[k] = s[k]
  BY <1>3
<1>5. PICK b : b = SubSeq(s, n + 1, Len(s))
  OBVIOUS
<1>6. b \in Seq(Int) /\ Len(b) = m - n /\ \A k \in 1..(m - n) : b[k] = s[n + k]
  BY <1>1, <1>5
<1>7. PICK q : q = [k \in 0..n |-> p[k]]
  OBVIOUS
<1>8. PICK r : r = [k \in 0..(m - n) |-> p[n + k] - p[n]]
  OBVIOUS
<1>9. Sums(q, a) /\ q[Len(a)] = p[n]
  <2>1. q \in [0..n -> Int] /\ q[0] = 0 /\ q[n] = p[n]
    BY ONLY <1>2, <1>7, m \in Nat
  <2>2. ASSUME NEW k \in 1..n PROVE q[k] = q[k - 1] + a[k]
    <3>1. k \in 1..m /\ k \in 0..n /\ k - 1 \in 0..n
      BY ONLY <1>2, <2>2, m \in Nat
    <3> QED
      BY ONLY <1>2, <1>4, <1>7, <2>2, <3>1, Zenon
  <2> QED
    BY ONLY <1>4, <2>1, <2>2 DEF Sums
<1>10. Sums(r, b) /\ r[Len(b)] = p[m] - p[n]
  <2>1. r \in [0..(m - n) -> Int] /\ r[0] = 0 /\ r[m - n] = p[m] - p[n]
    BY ONLY <1>2, <1>8, m \in Nat
  <2>2. ASSUME NEW k \in 1..(m - n) PROVE r[k] = r[k - 1] + b[k]
    <3>1. n + k \in 1..m /\ n + (k - 1) = (n + k) - 1 /\ k - 1 \in 0..(m - n) /\ k \in 0..(m - n)
          /\ n + (k - 1) \in 0..m /\ n \in 0..m
      BY ONLY <1>2, <2>2, m \in Nat
    <3>2. p[n + k] = p[(n + k) - 1] + s[n + k]
      BY ONLY <1>2, <3>1, Zenon
    <3>3. r[k] = p[n + k] - p[n] /\ r[k - 1] = p[(n + k) - 1] - p[n] /\ b[k] = s[n + k]
      BY ONLY <1>6, <1>8, <2>2, <3>1, Zenon
    <3>4. p[n] \in Int /\ p[(n + k) - 1] \in Int /\ s[n + k] \in Int
      <4>1. (n + k) - 1 \in 0..m
        BY ONLY <3>1, Zenon
      <4>2. s[n + k] \in Int
        BY ONLY <1>1, <3>1, s \in Seq(Int)
      <4> QED
        BY ONLY <1>2, <3>1, <4>1, <4>2, Zenon
    <3> QED
      BY ONLY <3>2, <3>3, <3>4, SMT
  <2> QED
    BY ONLY <1>6, <2>1, <2>2 DEF Sums
<1> QED
  BY ONLY <1>1, <1>3, <1>4, <1>5, <1>6, <1>9, <1>10, TotalIs

\* Nothing sums to zero.
LEMMA TotalEmpty == Total(<<>>) = 0
<1> DEFINE p == [k \in 0..0 |-> 0]
<1>1. Len(<<>>) = 0 /\ <<>> \in Seq(Int)
  OBVIOUS
<1>2. Sums(p, <<>>)
  BY <1>1 DEF Sums
<1> QED
  BY <1>1, <1>2, TotalIs

\* One more number adds itself.
LEMMA TotalAppend ==
    ASSUME NEW s \in Seq(Int), NEW x \in Int
    PROVE  Total(Append(s, x)) = Total(s) + x /\ Total(s) \in Int
<1>1. PICK p : Sums(p, s) /\ Total(s) = p[Len(s)]
  BY TotalSums
<1>2. PICK n \in Nat : n = Len(s)
  OBVIOUS
<1>3. PICK q : q = [k \in 0..(n + 1) |-> IF k = n + 1 THEN p[n] + x ELSE p[k]]
  OBVIOUS
<1>4. PICK t : t = Append(s, x)
  OBVIOUS
<1>5. t \in Seq(Int) /\ Len(t) = n + 1 /\ t[n + 1] = x /\ \A k \in 1..n : t[k] = s[k]
  BY <1>2, <1>4
<1>6. p \in [0..n -> Int] /\ p[0] = 0 /\ \A k \in 1..n : p[k] = p[k - 1] + s[k]
  BY <1>1, <1>2 DEF Sums
<1>7. q \in [0..(n + 1) -> Int] /\ q[0] = 0 /\ q[n + 1] = p[n] + x
  BY ONLY <1>3, <1>6, n \in Nat, x \in Int
<1>8. ASSUME NEW k \in 1..(n + 1) PROVE q[k] = q[k - 1] + t[k]
  <2>1. k \in 0..(n + 1) /\ k - 1 \in 0..(n + 1) /\ k - 1 # n + 1
    BY ONLY k \in 1..(n + 1), n \in Nat
  <2>2. q[k - 1] = p[k - 1] /\ q[k] = IF k = n + 1 THEN p[n] + x ELSE p[k]
    BY ONLY <1>3, <2>1
  <2>3. CASE k = n + 1
    <3>1. k - 1 = n
      BY ONLY <2>3, n \in Nat
    <3> QED
      BY ONLY <1>5, <2>2, <2>3, <3>1, Zenon
  <2>4. CASE k # n + 1
    <3>1. k \in 1..n
      BY ONLY <2>4, k \in 1..(n + 1), n \in Nat
    <3> QED
      BY ONLY <1>5, <1>6, <2>2, <2>4, <3>1, Zenon
  <2> QED
    BY ONLY <2>3, <2>4
<1>9. Sums(q, t)
  BY ONLY <1>5, <1>7, <1>8 DEF Sums
<1>10. Total(t) = p[n] + x
  BY ONLY <1>5, <1>7, <1>9, TotalIs
<1> QED
  BY ONLY <1>1, <1>2, <1>4, <1>6, <1>10, n \in Nat
=============================================================================
