--------------------------- MODULE EvidenceProofs ---------------------------
(***************************************************************************)
(* For any operations, schedulers and clients: what an epoch commits to,   *)
(* that epochs lie within one another, that answers put together from two  *)
(* reads agree, and that pages leave nothing out.                          *)
(***************************************************************************)
EXTENDS Evidence, FiniteSetTheorems, WellFoundedInduction, TLAPS

-----------------------------------------------------------------------------
\* Sets in an order: pages and the leaves of a tree are enumerated by rank.
InOrder(S, R) ==
    /\ \A a \in S : <<a, a>> \notin R
    /\ \A a, b \in S : a # b => <<a, b>> \in R \/ <<b, a>> \in R
    /\ \A a, b, c \in S : <<a, b>> \in R /\ <<b, c>> \in R => <<a, c>> \in R

Before(S, R, r) == {q \in S : <<q, r>> \in R}

Rank(S, R, r) == Cardinality(Before(S, R, r))

\* Ranks are natural numbers below the size of the set.
LEMMA RankType ==
    ASSUME NEW S, IsFiniteSet(S), NEW R, InOrder(S, R), NEW r \in S
    PROVE  /\ IsFiniteSet(Before(S, R, r))
           /\ Rank(S, R, r) \in 0..(Cardinality(S) - 1)
<1>1. Before(S, R, r) \in SUBSET S /\ r \in S /\ r \notin Before(S, R, r)
  BY DEF InOrder, Before
<1>2. /\ IsFiniteSet(Before(S, R, r))
      /\ Rank(S, R, r) <= Cardinality(S)
      /\ Rank(S, R, r) # Cardinality(S)
  BY <1>1, FS_Subset DEF Rank
<1>3. Cardinality(S) \in Nat /\ Rank(S, R, r) \in Nat
  BY <1>2, FS_CardinalityType DEF Rank
<1>. QED BY <1>2, <1>3

\* What comes earlier has the smaller rank, and the other way round.
LEMMA RankOrder ==
    ASSUME NEW S, IsFiniteSet(S), NEW R, InOrder(S, R), NEW q \in S, NEW r \in S
    PROVE  /\ <<q, r>> \in R <=> Rank(S, R, q) < Rank(S, R, r)
           /\ Rank(S, R, q) = Rank(S, R, r) => q = r
<1>1. ASSUME NEW a \in S, NEW b \in S, <<a, b>> \in R
      PROVE  Rank(S, R, a) < Rank(S, R, b)
  <2>1. /\ Before(S, R, a) \in SUBSET Before(S, R, b)
        /\ a \in Before(S, R, b) /\ a \notin Before(S, R, a)
    BY <1>1 DEF InOrder, Before
  <2>2. /\ Rank(S, R, a) <= Rank(S, R, b)
        /\ Rank(S, R, a) # Rank(S, R, b)
    BY <2>1, RankType, FS_Subset DEF Rank
  <2>. QED BY <2>2, RankType, FS_CardinalityType
<1>2. q # r => <<q, r>> \in R \/ <<r, q>> \in R
  BY DEF InOrder
<1>3. <<r, r>> \notin R /\ <<q, q>> \notin R
  BY DEF InOrder
<1>4. Rank(S, R, q) \in Int /\ Rank(S, R, r) \in Int
  BY RankType, FS_CardinalityType
<1>. QED BY <1>1, <1>2, <1>3, <1>4

LEMMA Interval ==
    ASSUME NEW n \in Nat
    PROVE  IsFiniteSet(0..(n - 1)) /\ Cardinality(0..(n - 1)) = n
<1>1. 0 \in Int /\ n - 1 \in Int
  OBVIOUS
<1>2. /\ IsFiniteSet(0..(n - 1))
      /\ Cardinality(0..(n - 1)) = IF 0 > n - 1 THEN 0 ELSE (n - 1) - 0 + 1
  BY <1>1, FS_Interval
<1>. QED BY <1>2

\* Every rank below the size of the set is taken.
LEMMA RankTaken ==
    ASSUME NEW S, IsFiniteSet(S), NEW R, InOrder(S, R), NEW i \in 1..Cardinality(S)
    PROVE  \E r \in S : Rank(S, R, r) = i - 1
<1> DEFINE T == 0..(Cardinality(S) - 1)
<1> DEFINE f == [r \in S |-> Rank(S, R, r)]
<1>1. Cardinality(S) \in Nat
  BY FS_CardinalityType
<1>2. IsFiniteSet(T) /\ Cardinality(T) = Cardinality(S)
  BY <1>1, Interval
<1>3. \A r \in S : Rank(S, R, r) \in T
  BY RankType
<1>4. \A q, r \in S : Rank(S, R, q) = Rank(S, R, r) => q = r
  BY RankOrder
<1>5. i - 1 \in T
  BY <1>1
<1> HIDE DEF T
<1>6. f \in Injection(S, T)
  BY <1>3, <1>4 DEF Injection, IsInjective
<1>7. f \in Surjection(S, T)
  BY <1>2, <1>6, FS_Injection, Zenon
<1>8. \E r \in S : f[r] = i - 1
  BY <1>5, <1>7 DEF Surjection
<1>. QED BY <1>8

-----------------------------------------------------------------------------
\* A set of natural numbers that is not empty has a least element.
LEMMA LeastExists ==
    ASSUME NEW T, T \subseteq Nat, T # {}
    PROVE  \E m \in T : \A k \in T : m <= k
<1>1. PICK m \in T : \A k \in T : ~(<<k, m>> \in OpToRel(<, Nat))
  BY NatLessThanWellFounded, WFMin
<1>2. \A k \in T : ~(k < m)
  BY <1>1, Zenon DEF OpToRel
<1>. QED BY <1>2

\* The rounds of a tree exist.
Rounds(f, leaves, n) ==
    f = [h \in 0..n |-> IF h = 0 THEN leaves ELSE Round(f[h - 1])]

LEMMA RoundsExist ==
    ASSUME NEW leaves, NEW n \in Nat
    PROVE  \E f : Rounds(f, leaves, n)
<1> DEFINE T == {m \in Nat : ~\E f : Rounds(f, leaves, m)}
<1>1. SUFFICES ASSUME n \in T PROVE FALSE
  OBVIOUS
<1>2. PICK m \in T : \A k \in T : m <= k
  BY <1>1, LeastExists
<1>3. m \in Nat /\ ~\E f : Rounds(f, leaves, m)
  BY <1>2
<1>4. CASE m = 0
  <2> DEFINE f == [h \in 0..0 |-> leaves]
  <2>1. Rounds(f, leaves, 0)
    BY DEF Rounds
  <2>. QED BY <2>1, <1>3, <1>4
<1>5. CASE m # 0
  <2>1. m - 1 \in Nat /\ m - 1 \notin T
    BY <1>2, <1>3, <1>5
  <2>2. PICK f : Rounds(f, leaves, m - 1)
    BY <2>1
  <2> DEFINE g == [h \in 0..m |-> IF h = m THEN Round(f[m - 1]) ELSE f[h]]
  <2> DEFINE k == [h \in 0..m |-> IF h = 0 THEN leaves ELSE Round(g[h - 1])]
  <2>3. ASSUME NEW h \in 0..m PROVE g[h] = k[h]
    <3>1. CASE h = m
      <4>1. g[h] = Round(f[m - 1]) /\ g[h - 1] = f[m - 1]
        BY <3>1, <1>3, <1>5
      <4>. QED BY <4>1, <3>1, <1>3, <1>5
    <3>2. CASE h # m /\ h = 0
      <4>1. g[h] = f[0] /\ f[0] = leaves
        BY <3>2, <2>1, <2>2 DEF Rounds
      <4>. QED BY <4>1, <3>2
    <3>3. CASE h # m /\ h # 0
      <4>1. h \in 0..(m - 1) /\ h - 1 \in 0..m /\ h - 1 # m
        BY <3>3, <1>3
      <4>2. g[h] = f[h] /\ g[h - 1] = f[h - 1]
        BY <4>1, <3>3
      <4>3. f[h] = Round(f[h - 1])
        BY <4>1, <3>3, <2>2 DEF Rounds
      <4>. QED BY <4>2, <4>3, <3>3
    <3>. QED BY <3>1, <3>2, <3>3
  <2>4. g = k
    BY <2>3
  <2>5. Rounds(g, leaves, m)
    BY <2>4 DEF Rounds
  <2>. QED BY <2>5, <1>3
<1>. QED BY <1>4, <1>5

LEMMA LevelsStep ==
    ASSUME NEW leaves, Len(leaves) \in Nat
    PROVE  /\ Levels(leaves)[0] = leaves
           /\ \A h \in 1..Len(leaves) :
                 Levels(leaves)[h] = Round(Levels(leaves)[h - 1])
<1>1. Rounds(Levels(leaves), leaves, Len(leaves))
  BY RoundsExist DEF Levels, Rounds
<1> DEFINE f == Levels(leaves)
<1> HIDE DEF f
<1>2. Rounds(f, leaves, Len(leaves))
  BY <1>1 DEF f
<1>3. /\ f[0] = leaves
      /\ \A h \in 1..Len(leaves) : f[h] = Round(f[h - 1])
  BY <1>2 DEF Rounds
<1>. QED BY <1>3 DEF f

LEMMA Appended ==
    ASSUME NEW S, NEW s \in Seq(S), NEW r \in S
    PROVE  \A i \in 1..Len(s) : Append(s, r)[i] = s[i]
  OBVIOUS

\* One level of the tree above another.
LEMMA PadIs ==
    ASSUME NEW S, NEW s \in Seq(S), Len(s) >= 1
    PROVE  /\ Pad(s) \in Seq(S)
           /\ Len(Pad(s)) = 2 * ((Len(s) + 1) \div 2)
           /\ \A i \in 1..Len(s) : Pad(s)[i] = s[i]
<1>1. CASE Len(s) % 2 = 1
  <2>1. Pad(s) = Append(s, s[Len(s)])
    BY <1>1 DEF Pad, Last
  <2>2. s[Len(s)] \in S
    OBVIOUS
  <2>3. Len(s) + 1 = 2 * ((Len(s) + 1) \div 2)
    BY <1>1
  <2>4. Pad(s) \in Seq(S) /\ Len(Pad(s)) = Len(s) + 1
    BY <2>1, <2>2
  <2>. QED BY <2>1, <2>2, <2>3, <2>4, Appended
<1>2. CASE Len(s) % 2 # 1
  <2>1. Pad(s) = s
    BY <1>2 DEF Pad
  <2>2. Len(s) = 2 * ((Len(s) + 1) \div 2)
    BY <1>2
  <2>. QED BY <2>1, <2>2
<1>. QED BY <1>1, <1>2

Half(n) == (n + 1) \div 2

LEMMA HalfType ==
    ASSUME NEW n \in Nat, n >= 1
    PROVE  /\ Half(n) \in Nat /\ Half(n) >= 1
           /\ n > 1 => Half(n) < n
           /\ (2 * Half(n)) \div 2 = Half(n)
           /\ \A i \in 1..n : /\ Half(i) \in 1..Half(n)
                              /\ i = 2 * Half(i) - 1 \/ i = 2 * Half(i)
  BY DEF Half

LEMMA UpIs ==
    ASSUME NEW S, NEW s \in Seq(S), Len(s) >= 1
    PROVE  /\ \E T : Up(s) \in Seq(T)
           /\ Len(Up(s)) = Half(Len(s))
           /\ \A k \in 1..Half(Len(s)) :
                 Up(s)[k] = Node(Pad(s)[2 * k - 1], Pad(s)[2 * k])
<1> DEFINE n == Half(Len(s))
<1> DEFINE p == Pad(s)
<1>1. n \in Nat /\ p \in Seq(S) /\ Len(p) = 2 * n /\ (2 * n) \div 2 = n
  BY PadIs, HalfType DEF Half
<1>2. Up(s) = [k \in 1..n |-> Node(p[2 * k - 1], p[2 * k])]
  BY <1>1 DEF Up
<1> HIDE DEF n, p
<1>3. \A k \in 1..n : p[2 * k - 1] \in S /\ p[2 * k] \in S
  BY <1>1
<1> DEFINE T == {Node(l, r) : l \in S, r \in S}
<1>4. \A k \in 1..n : Node(p[2 * k - 1], p[2 * k]) \in T
  BY <1>3
<1> HIDE DEF T
<1> DEFINE f == [k \in 1..n |-> Node(p[2 * k - 1], p[2 * k])]
<1>5. f \in Seq(T) /\ Len(f) = n
  <2>1. f \in [1..n -> T]
    BY <1>4
  <2>. QED BY <1>1, <2>1
<1>. QED BY <1>2, <1>5 DEF n, p

\* Levels of one length that have the same level above them are the same.
LEMMA UpApart ==
    ASSUME NEW S, NEW a \in Seq(S), NEW T, NEW b \in Seq(T),
           Len(a) = Len(b), Len(a) >= 1, Up(a) = Up(b)
    PROVE  a = b
<1>1. SUFFICES ASSUME NEW i \in 1..Len(a) PROVE a[i] = b[i]
  OBVIOUS
<1> DEFINE k == Half(i)
<1>2. /\ k \in 1..Half(Len(a))
      /\ i = 2 * k - 1 \/ i = 2 * k
  BY <1>1, HalfType
<1> HIDE DEF k
<1>3. /\ Up(a)[k] = Node(Pad(a)[2 * k - 1], Pad(a)[2 * k])
      /\ Up(b)[k] = Node(Pad(b)[2 * k - 1], Pad(b)[2 * k])
  BY <1>2, UpIs
<1>4. /\ Pad(a)[2 * k - 1] = Pad(b)[2 * k - 1]
      /\ Pad(a)[2 * k] = Pad(b)[2 * k]
  BY <1>3 DEF Node
<1>5. Pad(a)[i] = a[i] /\ Pad(b)[i] = b[i]
  BY <1>1, PadIs
<1>. QED BY <1>2, <1>4, <1>5

IsSequence(s) == \E T : s \in Seq(T)

\* A level h rounds up, and the size trees over n leaves have there.
Shaped(level, n, h) ==
    /\ IsSequence(level)
    /\ Len(level) \in Nat /\ Len(level) >= 1
    /\ Len(level) = 1 \/ Len(level) <= n - h

LEMMA RoundShaped ==
    ASSUME NEW n \in Nat, NEW h \in 1..n, NEW level, Shaped(level, n, h - 1)
    PROVE  /\ Shaped(Round(level), n, h)
           /\ Len(Round(level)) = IF Len(level) = 1 THEN 1 ELSE Half(Len(level))
<1>1. CASE Len(level) = 1
  BY <1>1 DEF Round, Shaped
<1>2. CASE Len(level) # 1
  <2>1. PICK S : level \in Seq(S)
    BY DEF Shaped, IsSequence
  <2>2. Len(level) \in Nat /\ Len(level) > 1 /\ Len(level) <= n - (h - 1)
    <3>1. /\ Len(level) \in Nat /\ Len(level) >= 1
          /\ Len(level) = 1 \/ Len(level) <= n - (h - 1)
      BY Zenon DEF Shaped
    <3> DEFINE l == Len(level)
    <3>2. l # 1 /\ l \in Nat /\ l >= 1 /\ (l = 1 \/ l <= n - (h - 1))
      BY <1>2, <3>1, Zenon
    <3> HIDE DEF l
    <3>3. l > 1 /\ l <= n - (h - 1)
      BY <3>2
    <3>. QED BY <3>1, <3>3 DEF l
  <2>3. /\ IsSequence(Up(level))
        /\ Len(Up(level)) = Half(Len(level))
    BY <2>1, <2>2, UpIs DEF IsSequence
  <2>4. Half(Len(level)) \in Nat /\ Half(Len(level)) >= 1 /\ Half(Len(level)) < Len(level)
    BY <2>2, HalfType
  <2>5. Round(level) = Up(level)
    BY <1>2 DEF Round
  <2>6. Len(Up(level)) <= n - h
    BY <2>2, <2>3, <2>4
  <2>. QED BY <1>2, <2>3, <2>4, <2>5, <2>6 DEF Shaped
<1>. QED BY <1>1, <1>2

LEMMA LevelsShaped ==
    ASSUME NEW S, NEW a \in Seq(S), NEW T, NEW b \in Seq(T),
           Len(a) = Len(b), Len(a) >= 1, NEW k \in 0..Len(a)
    PROVE  /\ Shaped(Levels(a)[k], Len(a), k)
           /\ Shaped(Levels(b)[k], Len(b), k)
           /\ Len(Levels(a)[k]) = Len(Levels(b)[k])
<1> DEFINE n == Len(a)
<1> DEFINE Same(h) == /\ Shaped(Levels(a)[h], n, h)
                      /\ Shaped(Levels(b)[h], n, h)
                      /\ Len(Levels(a)[h]) = Len(Levels(b)[h])
<1> DEFINE Bad == {h \in 0..n : ~Same(h)}
<1>1. n \in Nat
  OBVIOUS
<1>2. SUFFICES ASSUME k \in Bad PROVE FALSE
  OBVIOUS
<1>3. PICK h \in Bad : \A g \in Bad : h <= g
  <2>1. Bad \subseteq Nat /\ Bad # {}
    BY <1>1, <1>2
  <2> HIDE DEF Bad
  <2>. QED BY <2>1, LeastExists
<1>4. h \in 0..n /\ ~Same(h)
  BY <1>3
<1>5. CASE h = 0
  <2>1. Levels(a)[0] = a /\ Levels(b)[0] = b
    BY <1>1, LevelsStep
  <2>2. Shaped(a, n, 0) /\ Shaped(b, n, 0)
    BY <1>1 DEF Shaped, IsSequence
  <2>. QED BY <2>1, <2>2, <1>4, <1>5
<1>6. CASE h # 0
  <2>1. h \in 1..n /\ h - 1 \in 0..n /\ h - 1 \notin Bad
    BY <1>1, <1>3, <1>4, <1>6
  <2>2. Same(h - 1)
    BY <2>1
  <2>3. /\ Levels(a)[h] = Round(Levels(a)[h - 1])
        /\ Levels(b)[h] = Round(Levels(b)[h - 1])
    BY <1>1, <2>1, LevelsStep
  <2>. QED BY <1>1, <2>1, <2>2, <2>3, <1>4, RoundShaped
<1>. QED BY <1>5, <1>6

\* Trees over equally many leaves that have one root have the same leaves.
LEMMA TreesApart ==
    ASSUME NEW S, NEW a \in Seq(S), NEW T, NEW b \in Seq(T),
           Len(a) = Len(b), Len(a) >= 1,
           Levels(a)[Len(a)][1] = Levels(b)[Len(b)][1]
    PROVE  a = b
<1> DEFINE n == Len(a)
<1> DEFINE Equal == {h \in 0..n : Levels(a)[h] = Levels(b)[h]}
<1>1. n \in Nat /\ n \in 0..n
  OBVIOUS
<1>2. n \in Equal
  <2>1. /\ Shaped(Levels(a)[n], n, n)
        /\ Shaped(Levels(b)[n], n, n)
    BY <1>1, LevelsShaped
  <2>2. Len(Levels(a)[n]) = 1 /\ Len(Levels(b)[n]) = 1
    BY <1>1, <2>1 DEF Shaped
  <2>3. \A s, t : /\ IsSequence(s) /\ IsSequence(t)
                  /\ Len(s) = 1 /\ Len(t) = 1 /\ s[1] = t[1]
                  => s = t
    BY DEF IsSequence
  <2>. QED BY <1>1, <2>1, <2>2, <2>3 DEF Shaped
<1>3. PICK m \in Equal : \A h \in Equal : m <= h
  <2>1. Equal \subseteq Nat /\ Equal # {}
    BY <1>1, <1>2
  <2> HIDE DEF Equal
  <2>. QED BY <2>1, LeastExists
<1>4. m \in 0..n /\ Levels(a)[m] = Levels(b)[m]
  BY <1>3
<1>5. CASE m = 0
  BY <1>1, <1>4, <1>5, LevelsStep
<1>6. CASE m # 0
  <2>1. m \in 1..n /\ m - 1 \in 0..n /\ m - 1 \notin Equal
    BY <1>1, <1>3, <1>4, <1>6
  <2> DEFINE x == Levels(a)[m - 1]
  <2> DEFINE y == Levels(b)[m - 1]
  <2>2. Round(x) = Round(y)
    BY <1>1, <1>4, <2>1, LevelsStep
  <2>3. Shaped(x, n, m - 1) /\ Shaped(y, n, m - 1) /\ Len(x) = Len(y)
    BY <2>1, LevelsShaped
  <2> HIDE DEF x, y
  <2>4. x = y
    BY <2>2, <2>3, UpApart DEF Round, Shaped, IsSequence
  <2>. QED BY <2>1, <2>4 DEF x, y
<1>. QED BY <1>5, <1>6

-----------------------------------------------------------------------------
\* The leaves of a set of hashes in their order.
Smaller(H) == {p \in H \X H : p[1] < p[2]}

Sorted(H) ==
    [i \in 1..Cardinality(H) |->
        CHOOSE h \in H : Cardinality({g \in H : g < h}) = i - 1]

LeavesOf(H) == [i \in 1..Cardinality(H) |-> Leaf(Sorted(H)[i])]

LEMMA SortedExact ==
    ASSUME NEW H \in SUBSET Nat, IsFiniteSet(H)
    PROVE  /\ Cardinality(H) \in Nat
           /\ \A i \in 1..Cardinality(H) : Sorted(H)[i] \in H
           /\ \A h \in H : \E i \in 1..Cardinality(H) : Sorted(H)[i] = h
<1> DEFINE R == Smaller(H)
<1>1. Cardinality(H) \in Nat
  BY FS_CardinalityType
<1>2. InOrder(H, R)
  BY DEF InOrder, Smaller
<1>3. \A h \in H : {g \in H : g < h} = Before(H, R, h)
  BY DEF Before, Smaller
<1>4. \A h \in H : Cardinality({g \in H : g < h}) = Rank(H, R, h)
  BY <1>3 DEF Rank
<1> HIDE DEF R
<1>5. \A i \in 1..Cardinality(H) :
         Sorted(H)[i] \in H /\ Rank(H, R, Sorted(H)[i]) = i - 1
  <2>1. SUFFICES ASSUME NEW i \in 1..Cardinality(H)
                 PROVE  Sorted(H)[i] \in H /\ Rank(H, R, Sorted(H)[i]) = i - 1
    OBVIOUS
  <2>2. PICK r \in H : Rank(H, R, r) = i - 1
    BY <1>2, RankTaken
  <2>3. Cardinality({g \in H : g < r}) = i - 1
    BY <1>4, <2>2
  <2>4. /\ Sorted(H)[i] \in H
        /\ Cardinality({g \in H : g < Sorted(H)[i]}) = i - 1
    BY <2>3, Zenon DEF Sorted
  <2>. QED BY <1>4, <2>4
<1>6. ASSUME NEW h \in H PROVE \E i \in 1..Cardinality(H) : Sorted(H)[i] = h
  <2> DEFINE i == Rank(H, R, h) + 1
  <2>1. i \in 1..Cardinality(H) /\ i - 1 = Rank(H, R, h)
    BY <1>1, <1>2, RankType
  <2>2. Sorted(H)[i] \in H /\ Rank(H, R, Sorted(H)[i]) = Rank(H, R, h)
    BY <1>5, <2>1
  <2>3. Sorted(H)[i] = h
    BY <1>2, <2>2, RankOrder
  <2>. QED BY <2>1, <2>3
<1>. QED BY <1>1, <1>5, <1>6

LEMMA RootIs ==
    ASSUME NEW H
    PROVE  Root(H) = Levels(LeavesOf(H))[Len(LeavesOf(H))][1]
<1> DEFINE c(i) == CHOOSE h \in H : Cardinality({g \in H : g < h}) = i - 1
<1>1. Root(H) = LET leaves == [i \in 1..Cardinality(H) |-> Leaf(c(i))]
                IN  Levels(leaves)[Len(leaves)][1]
  BY Zenon DEF Root
<1>2. Sorted(H) = [i \in 1..Cardinality(H) |-> c(i)]
  BY Zenon DEF Sorted
<1> HIDE DEF c
<1>3. \A i \in 1..Cardinality(H) : Sorted(H)[i] = c(i)
  BY <1>2
<1>4. LeavesOf(H) = [i \in 1..Cardinality(H) |-> Leaf(c(i))]
  BY <1>3 DEF LeavesOf
<1>. QED BY <1>1, <1>4, Zenon

\* A root commits to the hashes of an epoch, once their number is known
\* (merkle.py:18): without it, three leaves and the same with the last one twice
\* would have one root.
THEOREM RootsApart ==
    ASSUME NEW H \in SUBSET Nat, IsFiniteSet(H), H # {},
           NEW K \in SUBSET Nat, IsFiniteSet(K),
           Cardinality(H) = Cardinality(K), Root(H) = Root(K)
    PROVE  H = K
<1> DEFINE n == Cardinality(H)
<1> DEFINE a == LeavesOf(H)
<1> DEFINE b == LeavesOf(K)
<1> DEFINE S == {Leaf(h) : h \in Nat}
<1>1. n \in Nat /\ n >= 1
  BY FS_CardinalityType, FS_EmptySet
<1>2. /\ \A i \in 1..n : Sorted(H)[i] \in H /\ Sorted(K)[i] \in K
      /\ \A h \in H : \E i \in 1..n : Sorted(H)[i] = h
      /\ \A h \in K : \E i \in 1..n : Sorted(K)[i] = h
  BY SortedExact
<1>3. /\ a \in [1..n -> S] /\ b \in [1..n -> S]
      /\ \A i \in 1..n : a[i] = Leaf(Sorted(H)[i]) /\ b[i] = Leaf(Sorted(K)[i])
  BY <1>2 DEF LeavesOf
<1>4. Levels(a)[Len(a)][1] = Levels(b)[Len(b)][1]
  BY RootIs
<1> HIDE DEF a, b, S
<1>5. a \in Seq(S) /\ b \in Seq(S) /\ Len(a) = n /\ Len(b) = n
  BY <1>1, <1>3
<1>6. a = b
  BY <1>1, <1>4, <1>5, TreesApart
<1>7. \A i \in 1..n : Sorted(H)[i] = Sorted(K)[i]
  BY <1>3, <1>6 DEF Leaf
<1> HIDE DEF n
<1>8. ASSUME NEW h \in H PROVE h \in K
  BY <1>2, <1>7
<1>9. ASSUME NEW h \in K PROVE h \in H
  BY <1>2, <1>7
<1>. QED BY <1>8, <1>9, Zenon

-----------------------------------------------------------------------------
\* The id of a late verdict is not the id of an operation, and no other's.
LEMMA LargestIs ==
    ASSUME NEW o \in Op
    PROVE  LargestOf(Op) \in Op /\ \A p \in Op : p <= LargestOf(Op)
<1> DEFINE R == Smaller(Op)
<1>1. Op \subseteq Nat /\ IsFiniteSet(Op)
  BY EvidenceAssumption
<1>2. InOrder(Op, R)
  BY <1>1 DEF InOrder, Smaller
<1>3. Cardinality(Op) \in Nat /\ Cardinality(Op) # 0
  BY <1>1, FS_CardinalityType, FS_EmptySet
<1>4. PICK m \in Op : Rank(Op, R, m) = Cardinality(Op) - 1
  <2>1. Cardinality(Op) \in 1..Cardinality(Op)
    BY <1>3
  <2> HIDE DEF R
  <2>. QED BY <1>1, <1>2, <2>1, RankTaken
<1>5. \A p \in Op : p <= m
  <2>1. SUFFICES ASSUME NEW p \in Op, m < p PROVE FALSE
    BY <1>1
  <2>2. <<m, p>> \in R
    BY <2>1 DEF Smaller
  <2> HIDE DEF R
  <2>3. Rank(Op, R, m) < Rank(Op, R, p) /\ Rank(Op, R, p) \in 0..(Cardinality(Op) - 1)
    BY <1>1, <1>2, <2>2, RankOrder, RankType
  <2>. QED BY <1>3, <1>4, <2>3
<1>. QED BY <1>5, Zenon DEF LargestOf

LEMMA LateIdApart ==
    ASSUME NEW o \in Op
    PROVE  /\ LateId(o) \in Nat /\ LateId(o) \notin Op
           /\ \A p \in Op : LateId(p) = LateId(o) => p = o
<1>1. Op \subseteq Nat /\ \A p \in Op : p > 0
  BY EvidenceAssumption
<1>2. LargestOf(Op) \in Op /\ \A p \in Op : p <= LargestOf(Op)
  BY LargestIs
<1>3. LargestOf(Op) \in Nat /\ o \in Nat /\ o > 0
  BY <1>1, <1>2
<1>4. o + LargestOf(Op) \in Nat /\ \A p \in Op : p < o + LargestOf(Op)
  BY <1>1, <1>2, <1>3
<1>5. \A p \in Op : p + LargestOf(Op) = o + LargestOf(Op) => p = o
  BY <1>1, <1>3
<1>. QED BY <1>1, <1>4, <1>5 DEF LateId

\* Distinct operations have as many hashes.
HashesOf(S) == {Hash[o] : o \in S}

LEMMA HashesCounted ==
    ASSUME NEW S \in SUBSET Op
    PROVE  /\ HashesOf(S) \in SUBSET AnyHash
           /\ HashesOf(S) \in SUBSET Nat
           /\ IsFiniteSet(S) /\ IsFiniteSet(HashesOf(S))
           /\ Cardinality(HashesOf(S)) = Cardinality(S)
<1> DEFINE f == [o \in S |-> Hash[o]]
<1>1. IsFiniteSet(S)
  BY EvidenceAssumption, FS_Subset
<1>2. HashesOf(S) \in SUBSET AnyHash /\ HashesOf(S) \in SUBSET Nat
  BY EvidenceAssumption DEF HashesOf
<1>3. f \in [S -> HashesOf(S)] /\ \A h \in HashesOf(S) : \E o \in S : f[o] = h
  BY DEF HashesOf
<1>4. \A o, p \in S : f[o] = f[p] => o = p
  BY EvidenceAssumption
<1> HIDE DEF f
<1>5. f \in Surjection(S, HashesOf(S)) /\ f \in Injection(S, HashesOf(S))
  BY <1>3, <1>4 DEF Surjection, Injection, IsInjective
<1>6. IsFiniteSet(HashesOf(S)) /\ Cardinality(HashesOf(S)) = Cardinality(S)
  BY <1>1, <1>5, FS_Surjection
<1>. QED BY <1>1, <1>2, <1>6

\* The epoch of operations with the stamps st.
EpochAt(st, S) ==
    [start |-> SmallestOf({st[o] : o \in S}), end |-> LargestOf({st[o] : o \in S}),
     root |-> RootOf[HashesOf(S)], count |-> Cardinality(S)]

LEMMA EpochIs ==
    ASSUME NEW S
    PROVE  EpochOf(S) = EpochAt(stamp, S) /\ EpochOf(S)' = EpochAt(stamp', S)
BY Zenon DEF EpochOf, EpochAt, Stamps, HashesOf

LEMMA SameStamps ==
    ASSUME NEW S, NEW st, NEW su, \A o \in S : st[o] = su[o]
    PROVE  EpochAt(st, S) = EpochAt(su, S)
<1>1. {st[o] : o \in S} = {su[o] : o \in S}
  OBVIOUS
<1>. QED BY <1>1, Zenon DEF EpochAt

\* The root and the count of an epoch are those of its operations only.
LEMMA HashesNamed ==
    ASSUME NEW S \in SUBSET Op, S # {}, NEW st, NEW H \in DOMAIN RootOf,
           Cardinality(H) = EpochAt(st, S).count, RootOf[H] = EpochAt(st, S).root
    PROVE  H = HashesOf(S)
<1>1. H \in SUBSET AnyHash /\ H # {}
  BY DEF RootOf
<1>2. H \in SUBSET Nat /\ IsFiniteSet(H)
  BY <1>1, EvidenceAssumption, FS_Subset
<1>3. /\ HashesOf(S) \in SUBSET AnyHash /\ HashesOf(S) \in SUBSET Nat
      /\ IsFiniteSet(HashesOf(S)) /\ Cardinality(HashesOf(S)) = Cardinality(S)
  BY HashesCounted
<1>4. HashesOf(S) # {}
  BY DEF HashesOf
<1>5. RootOf[H] = Root(H) /\ RootOf[HashesOf(S)] = Root(HashesOf(S))
  BY <1>1, <1>3, <1>4 DEF RootOf
<1>6. Cardinality(H) = Cardinality(HashesOf(S)) /\ Root(H) = Root(HashesOf(S))
  BY <1>3, <1>5 DEF EpochAt
<1>. QED BY <1>1, <1>2, <1>3, <1>6, RootsApart

LEMMA OpsNamed ==
    ASSUME NEW S \in SUBSET Op, S # {}, NEW T \in SUBSET Op, T # {},
           NEW st, NEW su, EpochAt(st, S) = EpochAt(su, T)
    PROVE  S = T
<1>1. HashesOf(S) \in DOMAIN RootOf
  <2>1. HashesOf(S) # {}
    BY DEF HashesOf
  <2>. QED BY <2>1, HashesCounted DEF RootOf
<1>2. /\ Cardinality(HashesOf(S)) = EpochAt(su, T).count
      /\ RootOf[HashesOf(S)] = EpochAt(su, T).root
  BY HashesCounted DEF EpochAt
<1>3. HashesOf(S) = HashesOf(T)
  BY <1>1, <1>2, HashesNamed
<1>4. \A o, p \in Op : Hash[o] = Hash[p] => o = p
  BY EvidenceAssumption
<1>5. ASSUME NEW o \in S PROVE o \in T
  <2>1. PICK p \in T : Hash[p] = Hash[o]
    BY <1>3 DEF HashesOf
  <2>. QED BY <1>4, <2>1
<1>6. ASSUME NEW o \in T PROVE o \in S
  <2>1. PICK p \in S : Hash[p] = Hash[o]
    BY <1>3 DEF HashesOf
  <2>. QED BY <1>4, <2>1
<1>. QED BY <1>5, <1>6, Zenon

-----------------------------------------------------------------------------
\* What the tables hold.
VerdictRows == [id : Nat, op : Op, at : Nat, late : BOOLEAN, resolved : BOOLEAN]

TablesTyped ==
    /\ clock \in Nat
    /\ stamp \in [Op -> Nat]
    /\ ops \in SUBSET Op
    /\ \A o \in ops : stamp[o] # 0
    /\ verdicts \in SUBSET VerdictRows /\ IsFiniteSet(verdicts)

\* An operation is decided if and only if it has a gate verdict.
VerdictsMatch ==
    /\ \A v \in verdicts : /\ v.op \in ops
                           /\ v.id = IF v.late THEN LateId(v.op) ELSE v.op
                           /\ ~v.late <=> v.op \in Decided
    /\ \A o \in ops \cap Decided : \E v \in verdicts : v.op = o
    /\ log = ops \cap Decided

TablesInv == TablesTyped /\ VerdictsMatch

LEMMA InitTables == Init => TablesInv
<1>1. IsFiniteSet({})
  BY FS_EmptySet
<1>. QED BY <1>1 DEF Init, TablesInv, TablesTyped, VerdictsMatch

\* Each step of the tables, as far as other parts see it.
LEMMA CommitTables ==
    ASSUME TablesInv, NEW o \in Op, Commit(o)
    PROVE  TablesInv'
<1> DEFINE w == VerdictRow(o, o, stamp[o], FALSE)
<1>1. /\ stamp[o] # 0 /\ o \notin ops
      /\ ops' = ops \cup {o} /\ log' = log \cup ({o} \cap Decided)
      /\ UNCHANGED <<clock, stamp>>
  BY DEF Commit
<1>2. o \in Nat /\ stamp[o] \in Nat
  BY EvidenceAssumption DEF TablesInv, TablesTyped
<1>3. /\ w \in VerdictRows
      /\ w.op = o /\ w.id = o /\ ~w.late
  BY <1>2 DEF VerdictRow, VerdictRows
<1>4. verdicts' = IF o \in Decided THEN verdicts \cup {w} ELSE verdicts
  <2>1. verdicts' = verdicts \cup {VerdictRow(g, g, stamp[g], FALSE) : g \in {o} \cap Decided}
    BY DEF Commit
  <2> DEFINE R(g) == VerdictRow(g, g, stamp[g], FALSE)
  <2>2. {R(g) : g \in {o} \cap Decided} = IF o \in Decided THEN {R(o)} ELSE {}
    <3> HIDE DEF R
    <3>. QED OBVIOUS
  <2>. QED BY <2>1, <2>2
<1> HIDE DEF w
<1>5. IsFiniteSet(verdicts') /\ verdicts' \in SUBSET VerdictRows
  BY <1>3, <1>4, FS_AddElement DEF TablesInv, TablesTyped
<1>6. TablesTyped'
  BY <1>1, <1>5 DEF TablesInv, TablesTyped
<1>7. VerdictsMatch'
  BY <1>1, <1>3, <1>4 DEF TablesInv, VerdictsMatch, LateId
<1>. QED BY <1>6, <1>7 DEF TablesInv

LEMMA PublishTables ==
    ASSUME TablesInv, NEW o \in Op, PublishLate(o)
    PROVE  TablesInv'
<1> DEFINE w == VerdictRow(LateId(o), o, clock, TRUE)
<1>1. /\ o \in ops /\ ~\E v \in verdicts : v.op = o
      /\ verdicts' = verdicts \cup {w}
      /\ UNCHANGED <<clock, stamp, ops, log>>
  BY DEF PublishLate
<1>2. /\ w \in VerdictRows
      /\ w.op = o /\ w.id = LateId(o) /\ w.late
  BY LateIdApart DEF VerdictRow, VerdictRows, TablesInv, TablesTyped
<1> HIDE DEF w
<1>3. IsFiniteSet(verdicts') /\ verdicts' \in SUBSET VerdictRows
  BY <1>1, <1>2, FS_AddElement DEF TablesInv, TablesTyped
<1>4. o \notin Decided
  BY <1>1 DEF TablesInv, VerdictsMatch
<1>5. TablesTyped'
  BY <1>1, <1>3 DEF TablesInv, TablesTyped
<1>6. VerdictsMatch'
  BY <1>1, <1>2, <1>4 DEF TablesInv, VerdictsMatch, LateId
<1>. QED BY <1>5, <1>6 DEF TablesInv

\* A verdict that is resolved is the same but for that.
LEMMA ResolveRow ==
    ASSUME TablesInv, NEW v \in verdicts, Resolve(v)
    PROVE  \E w \in VerdictRows :
              /\ verdicts' = (verdicts \ {v}) \cup {w}
              /\ w.id = v.id /\ w.op = v.op /\ w.at = v.at /\ w.late = v.late /\ w.resolved
<1> DEFINE w == [v EXCEPT !.resolved = TRUE]
<1>1. v \in VerdictRows
  BY DEF TablesInv, TablesTyped
<1>2. /\ w \in VerdictRows
      /\ w.id = v.id /\ w.op = v.op /\ w.at = v.at /\ w.late = v.late /\ w.resolved
  BY <1>1 DEF VerdictRows
<1>3. verdicts' = (verdicts \ {v}) \cup {w}
  BY DEF Resolve
<1>. QED BY <1>2, <1>3

LEMMA ResolveTables ==
    ASSUME TablesInv, NEW v \in verdicts, Resolve(v)
    PROVE  TablesInv'
<1>1. PICK w \in VerdictRows :
              /\ verdicts' = (verdicts \ {v}) \cup {w}
              /\ w.id = v.id /\ w.op = v.op /\ w.at = v.at /\ w.late = v.late /\ w.resolved
  BY ResolveRow
<1>2. UNCHANGED <<clock, stamp, ops, log>>
  BY DEF Resolve
<1>3. IsFiniteSet(verdicts')
  <2>1. IsFiniteSet(verdicts \ {v})
    BY FS_RemoveElement DEF TablesInv, TablesTyped
  <2>. QED BY <2>1, <1>1, FS_AddElement
<1>4. TablesTyped'
  BY <1>1, <1>2, <1>3 DEF TablesInv, TablesTyped
<1>5. VerdictsMatch'
  BY <1>1, <1>2 DEF TablesInv, VerdictsMatch, LateId
<1>. QED BY <1>4, <1>5 DEF TablesInv

\* Nobody but the ingest writes the tables.
LEMMA StepCases ==
    ASSUME [Next]_vars
    PROVE  \/ TableStep /\ UNCHANGED <<epochs, artifacts, schedVars, client>>
           \/ /\ \E s \in Scheduler : SchedulerStep(s) \/ Die(s)
              /\ UNCHANGED <<tableVars, client>>
           \/ /\ \E c \in Client : ClientStep(c) \/ \E kind \in AllKinds : Ask(c, kind)
              /\ UNCHANGED <<tableVars, epochs, schedVars>>
           \/ UNCHANGED vars
<1>1. ASSUME TableStep PROVE UNCHANGED <<epochs, artifacts, schedVars, client>>
  <2>1. ASSUME Tick PROVE UNCHANGED <<epochs, artifacts, schedVars, client>>
    BY <2>1 DEF Tick, schedVars
  <2>2. ASSUME NEW o \in Op, Receive(o) \/ Commit(o) \/ PublishLate(o)
        PROVE  UNCHANGED <<epochs, artifacts, schedVars, client>>
    BY <2>2 DEF Receive, Commit, PublishLate, schedVars
  <2>3. ASSUME NEW v \in verdicts, Resolve(v)
        PROVE  UNCHANGED <<epochs, artifacts, schedVars, client>>
    BY <2>3 DEF Resolve, schedVars
  <2>. QED BY <1>1, <2>1, <2>2, <2>3 DEF TableStep
<1>2. ASSUME NEW s \in Scheduler, SchedulerStep(s) \/ Die(s)
      PROVE  UNCHANGED <<tableVars, client>>
  BY <1>2 DEF SchedulerStep, ReadOps, CheckPersisted, PutArtifact, InsertEpoch, NextRun, Die
<1>3. ASSUME NEW c \in Client, ClientStep(c) \/ \E kind \in AllKinds : Ask(c, kind)
      PROVE  UNCHANGED <<tableVars, epochs, schedVars>>
  BY <1>3 DEF ClientStep, ReadTable, ListEpochs, WantEpoch, FindEpoch, LoadArtifact,
              SignEpoch, NextPage, Ask, ClientOnly
<1>. QED BY <1>1, <1>2, <1>3 DEF Next

LEMMA NextTables ==
    ASSUME TablesInv, [Next]_vars
    PROVE  TablesInv'
<1>1. CASE UNCHANGED tableVars
  BY <1>1 DEF tableVars, TablesInv, TablesTyped, VerdictsMatch
<1>2. CASE TableStep
  <2>1. CASE Tick
    BY <2>1 DEF Tick, TablesInv, TablesTyped, VerdictsMatch
  <2>2. ASSUME NEW o \in Op, Receive(o) PROVE TablesInv'
    <3>1. /\ stamp' = [stamp EXCEPT ![o] = clock]
          /\ stamp[o] = 0
          /\ UNCHANGED <<clock, ops, verdicts, log>>
      BY <2>2 DEF Receive
    <3>2. TablesTyped'
      BY <3>1 DEF TablesInv, TablesTyped
    <3>. QED BY <3>1, <3>2 DEF TablesInv, VerdictsMatch
  <2>. QED BY <1>2, <2>1, <2>2, CommitTables, PublishTables, ResolveTables DEF TableStep
<1>. QED BY <1>1, <1>2, StepCases DEF vars

LEMMA TablesInvariant == Spec => []TablesInv
BY InitTables, NextTables, PTL DEF Spec

\* Operations stay, with their stamps, and so do verdicts of operations.
LEMMA TablesGrow ==
    ASSUME TablesInv, [Next]_vars
    PROVE  /\ ops \subseteq ops'
           /\ \A o \in ops : stamp'[o] = stamp[o]
<1>1. CASE UNCHANGED tableVars
  BY <1>1 DEF tableVars
<1>2. CASE TableStep
  <2>1. CASE Tick
    BY <2>1 DEF Tick
  <2>2. ASSUME NEW o \in Op, Receive(o) \/ Commit(o) \/ PublishLate(o)
        PROVE  /\ ops \subseteq ops'
               /\ \A p \in ops : stamp'[p] = stamp[p]
    BY <2>2 DEF Receive, Commit, PublishLate, TablesInv, TablesTyped
  <2>3. ASSUME NEW v \in verdicts, Resolve(v)
        PROVE  UNCHANGED <<ops, stamp>>
    BY <2>3 DEF Resolve
  <2>. QED BY <1>2, <2>1, <2>2, <2>3 DEF TableStep
<1>. QED BY <1>1, <1>2, StepCases DEF vars

-----------------------------------------------------------------------------
\* What schedulers and clients hold.
Epochs == {NoEpoch} \cup {EpochAt(st, S) : st \in [Op -> Nat], S \in SUBSET Op}

Rows == [at : Nat, id : Nat]

Runs == [pc : {"idle", "check", "put", "insert", "down"}, epoch : Epochs]

Readers ==
    [pc : Steps, kind : AllKinds, ops : SUBSET Op, verdicts : SUBSET VerdictRows,
     log : SUBSET Op, epochs : SUBSET Epochs, want : Epochs, base : SUBSET Rows,
     got : Seq(Rows)]

\* Where a reader may be, by what it reads.
PathOf(kind) ==
    CASE kind = "epoch" -> {"idle", "list", "compute", "ask", "detail", "recheck",
                            "recompute", "load", "put", "done"}
      [] kind \in {"export", "provenance"} -> {"ops", "verdicts", "done"}
      [] kind = "verdict" -> {"verdicts", "ops", "done"}
      [] kind = "cost" -> {"verdicts", "log", "done"}
      [] kind \in Paged -> {"page", "done"}

ActorsTyped ==
    /\ epochs \in SUBSET Epochs /\ artifacts \in SUBSET Epochs
    /\ sched \in [Scheduler -> Runs]
    /\ timer \in BOOLEAN /\ deaths \in Nat
    /\ client \in [Client -> Readers]
    /\ \A c \in Client : client[c].pc \in PathOf(client[c].kind)

LEMMA IdleTyped == Idle \in Readers /\ NoRun \in Runs /\ Ended \in Runs
<1>1. NoEpoch \in Epochs
  BY DEF Epochs
<1>2. <<>> \in Seq(Rows)
  OBVIOUS
<1> HIDE DEF NoEpoch, Epochs
<1>. QED BY <1>1, <1>2 DEF Idle, NoRun, Ended, Readers, Runs, Steps, AllKinds

LEMMA EpochTyped ==
    ASSUME TablesInv, NEW S \in SUBSET ops
    PROVE  EpochOf(S) \in Epochs
BY EpochIs DEF Epochs, TablesInv, TablesTyped

LEMMA RowsTyped ==
    ASSUME TablesInv, NEW kind \in Paged
    PROVE  RowsOf(kind) \in SUBSET Rows /\ IsFiniteSet(RowsOf(kind))
<1>1. IsFiniteSet(ops) /\ IsFiniteSet(verdicts)
  BY HashesCounted DEF TablesInv, TablesTyped
<1>2. Op \subseteq Nat
  BY EvidenceAssumption
<1>3. ASSUME kind = "audit"
      PROVE  RowsOf(kind) \in SUBSET Rows /\ IsFiniteSet(RowsOf(kind))
  <2> DEFINE f == [o \in ops |-> [at |-> stamp[o], id |-> o]]
  <2>1. RowsOf(kind) = AuditRows
    BY <1>3 DEF RowsOf
  <2>2. f \in Surjection(ops, AuditRows)
    BY DEF Surjection, AuditRows
  <2>3. AuditRows \in SUBSET Rows
    BY <1>2 DEF AuditRows, Rows, TablesInv, TablesTyped
  <2>. QED BY <1>1, <2>1, <2>2, <2>3, FS_Surjection
<1>4. TimelineRows \in SUBSET Rows /\ IsFiniteSet(TimelineRows)
  <2> DEFINE f == [v \in verdicts |-> [at |-> v.at, id |-> v.id]]
  <2>1. f \in Surjection(verdicts, TimelineRows)
    BY DEF Surjection, TimelineRows
  <2>2. TimelineRows \in SUBSET Rows
    BY DEF TimelineRows, Rows, VerdictRows, TablesInv, TablesTyped
  <2>. QED BY <1>1, <2>1, <2>2, FS_Surjection
<1>5. IncidentRows \in SUBSET TimelineRows
  BY DEF IncidentRows, TimelineRows
<1>6. IncidentRows \in SUBSET Rows /\ IsFiniteSet(IncidentRows)
  BY <1>4, <1>5, FS_Subset
<1>. QED BY <1>3, <1>4, <1>6 DEF RowsOf, Paged

-----------------------------------------------------------------------------
\* A page has the newest rows, newest first.
NewerPairs(rows) == {p \in rows \X rows : Newer(p[1], p[2])}

LEMMA NewerOrders ==
    ASSUME NEW rows \in SUBSET Rows
    PROVE  InOrder(rows, NewerPairs(rows))
<1>1. \A a \in rows : a.at \in Nat /\ a.id \in Nat
  BY DEF Rows
<1>2. \A a, b \in rows : a.at = b.at /\ a.id = b.id => a = b
  BY DEF Rows
<1>3. \A a, b \in rows : <<a, b>> \in NewerPairs(rows) <=> Newer(a, b)
  BY DEF NewerPairs
<1>4. \A a \in rows : ~Newer(a, a)
  BY <1>1 DEF Newer
<1>5. \A a, b \in rows : a # b => Newer(a, b) \/ Newer(b, a)
  BY <1>1, <1>2 DEF Newer
<1>6. \A a, b, c \in rows : Newer(a, b) /\ Newer(b, c) => Newer(a, c)
  BY <1>1 DEF Newer
<1>. QED BY <1>3, <1>4, <1>5, <1>6, Zenon DEF InOrder

LEMMA OlderIsNewer ==
    ASSUME NEW q \in Rows, NEW r \in Rows
    PROVE  Newer(q, r) <=> Older(r, q)
BY DEF Rows, Newer, Older

LEMMA PageExact ==
    ASSUME NEW rows \in SUBSET Rows, IsFiniteSet(rows)
    PROVE  /\ Cardinality(rows) \in Nat
           /\ PageOf(rows) \in Seq(rows)
           /\ Cardinality(rows) > PageSize => Len(PageOf(rows)) >= 1
           /\ \A i, j \in 1..Len(PageOf(rows)) :
                 i < j => Older(PageOf(rows)[j], PageOf(rows)[i])
           /\ \A r \in rows :
                 \/ \E i \in 1..Len(PageOf(rows)) : PageOf(rows)[i] = r
                 \/ /\ Cardinality(rows) > PageSize
                    /\ Older(r, PageOf(rows)[Len(PageOf(rows))])
<1> DEFINE R == NewerPairs(rows)
<1> DEFINE k == Cardinality(rows)
<1> DEFINE n == IF k > PageSize THEN PageSize ELSE k
<1> DEFINE p == PageOf(rows)
<1> DEFINE nth(i) == CHOOSE r \in rows : Cardinality({q \in rows : Newer(q, r)}) = i - 1
<1>1. k \in Nat /\ PageSize \in Nat /\ PageSize >= 1
  BY FS_CardinalityType, EvidenceAssumption
<1>2. n \in 0..k /\ (k > PageSize => n = PageSize) /\ (~(k > PageSize) => n = k)
  BY <1>1
<1>3. InOrder(rows, R)
  BY NewerOrders
<1>4. /\ \A r \in rows : Cardinality({q \in rows : Newer(q, r)}) = Rank(rows, R, r)
      /\ \A q, r \in rows : <<q, r>> \in R <=> Newer(q, r)
  <2>1. \A r \in rows : {q \in rows : Newer(q, r)} = Before(rows, R, r)
    BY DEF Before, NewerPairs
  <2>. QED BY <2>1 DEF Rank, NewerPairs
<1>5. PageOf(rows) = [i \in 1..n |-> nth(i)]
  BY Zenon DEF PageOf
<1> HIDE DEF n, k, R
<1>6. \A i \in 1..n : nth(i) \in rows /\ Rank(rows, R, nth(i)) = i - 1
  <2>1. SUFFICES ASSUME NEW i \in 1..n
                 PROVE  nth(i) \in rows /\ Rank(rows, R, nth(i)) = i - 1
    OBVIOUS
  <2>2. i \in 1..Cardinality(rows)
    BY <1>1, <1>2 DEF k
  <2>3. PICK r \in rows : Rank(rows, R, r) = i - 1
    BY <1>3, <2>2, RankTaken
  <2>4. Cardinality({q \in rows : Newer(q, r)}) = i - 1
    BY <1>4, <2>3
  <2>5. nth(i) \in rows /\ Cardinality({q \in rows : Newer(q, nth(i))}) = i - 1
    BY <2>4, Zenon
  <2>. QED BY <1>4, <2>5
<1> HIDE DEF nth
<1>7. p \in [1..n -> rows] /\ \A i \in 1..n : p[i] = nth(i)
  BY <1>5, <1>6
<1> HIDE DEF p
<1>8. p \in Seq(rows) /\ Len(p) = n
  BY <1>1, <1>2, <1>7
<1>9. \A i \in 1..n : p[i] \in rows /\ Rank(rows, R, p[i]) = i - 1
  BY <1>6, <1>7
<1>10. \A q, r \in rows : Rank(rows, R, q) < Rank(rows, R, r) => Older(r, q)
  BY <1>3, <1>4, RankOrder, OlderIsNewer
<1>11. \A i, j \in 1..n : i < j => Older(p[j], p[i])
  BY <1>1, <1>2, <1>9, <1>10
<1>12. ASSUME NEW r \in rows
       PROVE  \/ \E i \in 1..n : p[i] = r
              \/ k > PageSize /\ Older(r, p[n])
  <2>1. Rank(rows, R, r) \in 0..(k - 1)
    BY <1>3, RankType DEF k
  <2>2. CASE Rank(rows, R, r) < n
    <3> DEFINE i == Rank(rows, R, r) + 1
    <3>1. i \in 1..n /\ i - 1 = Rank(rows, R, r)
      BY <1>1, <1>2, <2>1, <2>2
    <3>2. p[i] \in rows /\ Rank(rows, R, p[i]) = Rank(rows, R, r)
      BY <1>9, <3>1
    <3>3. p[i] = r
      BY <1>3, <3>2, RankOrder
    <3>. QED BY <3>1, <3>3
  <2>3. CASE ~(Rank(rows, R, r) < n)
    <3>1. k > PageSize /\ n \in 1..n
      BY <1>1, <1>2, <2>1, <2>3
    <3>2. p[n] \in rows /\ Rank(rows, R, p[n]) < Rank(rows, R, r)
      BY <1>1, <1>2, <1>9, <2>1, <2>3, <3>1
    <3>. QED BY <1>10, <3>1, <3>2
  <2>. QED BY <2>2, <2>3
<1>13. k > PageSize => Len(p) >= 1
  BY <1>1, <1>2, <1>8
<1>. QED BY <1>1, <1>8, <1>11, <1>12, <1>13 DEF k, p

-----------------------------------------------------------------------------
\* What each step does to the client that takes it.
Becomes(c, x) ==
    /\ x \in Readers /\ x.pc \in PathOf(x.kind)
    /\ client' = [client EXCEPT ![c] = x]

LEMMA PathsOf ==
    /\ PathOf("epoch") = {"idle", "list", "compute", "ask", "detail", "recheck",
                          "recompute", "load", "put", "done"}
    /\ PathOf("export") = {"ops", "verdicts", "done"}
    /\ PathOf("provenance") = {"ops", "verdicts", "done"}
    /\ PathOf("verdict") = {"verdicts", "ops", "done"}
    /\ PathOf("cost") = {"verdicts", "log", "done"}
    /\ PathOf("audit") = {"page", "done"}
    /\ PathOf("timeline") = {"page", "done"}
    /\ PathOf("incidents") = {"page", "done"}
BY DEF PathOf, Paged

LEMMA AskStep ==
    ASSUME NEW c \in Client, NEW kind \in AllKinds, Ask(c, kind)
    PROVE  \E x : /\ Becomes(c, x)
                  /\ x = [Idle EXCEPT !.pc = First(kind), !.kind = kind]
<1> DEFINE x == [Idle EXCEPT !.pc = First(kind), !.kind = kind]
<1>1. client' = [client EXCEPT ![c] = x]
  BY DEF Ask
<1>2. First(kind) \in Steps /\ First(kind) \in PathOf(kind)
  BY PathsOf DEF First, Paged, AllKinds, Steps, Reads, ExportReads, ProvenanceReads,
                 VerdictReads, CostReads
<1>3. x \in Readers /\ x.pc = First(kind) /\ x.kind = kind
  <2> HIDE DEF Idle, First
  <2>. QED BY <1>2, IdleTyped DEF Readers
<1>. QED BY <1>1, <1>2, <1>3 DEF Becomes

\* An answer is read in order.
Two(y, kinds, pc) == y.kind \in kinds /\ y.pc = pc

Exports == {"export", "provenance"}

ReadsOne(c, x) ==
    LET y == client[c]
    IN  \/ /\ Two(y, Exports, "ops")
           /\ x = [y EXCEPT !.pc = "verdicts", !.ops = ops]
        \/ /\ Two(y, Exports, "verdicts")
           /\ x = [y EXCEPT !.pc = "done", !.verdicts = verdicts]
        \/ /\ Two(y, {"verdict"}, "verdicts")
           /\ x = [y EXCEPT !.pc = "ops", !.verdicts = verdicts]
        \/ /\ Two(y, {"verdict"}, "ops")
           /\ x = [y EXCEPT !.pc = "done", !.ops = ops]
        \/ /\ Two(y, {"cost"}, "verdicts")
           /\ x = [y EXCEPT !.pc = "log", !.verdicts = verdicts]
        \/ /\ Two(y, {"cost"}, "log")
           /\ x = [y EXCEPT !.pc = "done", !.log = CountedLog(c)]

\* A read is of one table, and the rest of what a client has stays.
LEMMA ReadKeeps ==
    ASSUME TablesInv, NEW c \in Client, client[c] \in Readers, NEW x, ReadsOne(c, x)
    PROVE  /\ x \in Readers /\ x.kind = client[c].kind
           /\ x.epochs = client[c].epochs /\ x.got = client[c].got
           /\ x.kind \in Exports \cup {"verdict", "cost"}
           /\ x.pc \in {"ops", "verdicts", "log", "done"}
<1> DEFINE y == client[c]
<1> DEFINE Keeps == /\ x \in Readers /\ x.kind = y.kind /\ x.epochs = y.epochs
                    /\ x.got = y.got /\ x.pc \in {"ops", "verdicts", "log", "done"}
<1> DEFINE Next4 == {"ops", "verdicts", "log", "done"}
<1>1. /\ ops \in SUBSET Op /\ verdicts \in SUBSET VerdictRows
      /\ CountedLog(c) \in SUBSET Op
  BY DEF CountedLog, TablesInv, TablesTyped, VerdictsMatch
<1>2. Next4 \subseteq Steps
  BY DEF Steps
<1>3. y \in Readers
  OBVIOUS
<1> HIDE DEF y
<1>4. ASSUME NEW pc \in Next4, x = [y EXCEPT !.pc = pc, !.ops = ops] PROVE Keeps
  BY <1>1, <1>2, <1>3, <1>4 DEF Readers
<1>5. ASSUME NEW pc \in Next4, x = [y EXCEPT !.pc = pc, !.verdicts = verdicts] PROVE Keeps
  BY <1>1, <1>2, <1>3, <1>5 DEF Readers
<1>6. ASSUME NEW pc \in Next4, x = [y EXCEPT !.pc = pc, !.log = CountedLog(c)] PROVE Keeps
  BY <1>1, <1>2, <1>3, <1>6 DEF Readers
<1>7. /\ y.kind \in Exports \cup {"verdict", "cost"}
      /\ \E pc \in Next4 : \/ x = [y EXCEPT !.pc = pc, !.ops = ops]
                           \/ x = [y EXCEPT !.pc = pc, !.verdicts = verdicts]
                           \/ x = [y EXCEPT !.pc = pc, !.log = CountedLog(c)]
  BY Zenon DEF ReadsOne, Two, y
<1>8. Keeps
  <2> HIDE DEF Keeps, Next4
  <2>. QED BY <1>4, <1>5, <1>6, <1>7
<1>. QED BY <1>7, <1>8 DEF y

LEMMA ReadTableStep ==
    ASSUME TablesInv, ActorsTyped, NEW c \in Client, ReadTable(c)
    PROVE  \E x : Becomes(c, x) /\ ReadsOne(c, x)
<1> DEFINE y == client[c]
<1>0. y \in Readers /\ y.pc \in PathOf(y.kind) /\ y.pc \in {"ops", "verdicts", "log"}
  BY DEF ActorsTyped, ReadTable
<1>1. \/ Two(y, Exports, "ops") \/ Two(y, Exports, "verdicts")
      \/ Two(y, {"verdict"}, "verdicts") \/ Two(y, {"verdict"}, "ops")
      \/ Two(y, {"cost"}, "verdicts") \/ Two(y, {"cost"}, "log")
  <2>1. y.kind \in AllKinds
    BY <1>0 DEF Readers
  <2> HIDE DEF y
  <2>. QED BY <1>0, <2>1, PathsOf DEF AllKinds, Two, Exports
<1>2. After(y.kind, y.pc) =
         CASE Two(y, Exports, "ops") -> "verdicts"
           [] Two(y, Exports, "verdicts") -> "done"
           [] Two(y, {"verdict"}, "verdicts") -> "ops"
           [] Two(y, {"verdict"}, "ops") -> "done"
           [] Two(y, {"cost"}, "verdicts") -> "log"
           [] Two(y, {"cost"}, "log") -> "done"
  <2> HIDE DEF y
  <2>. QED BY <1>1 DEF Two, After, Reads, ExportReads, ProvenanceReads, VerdictReads,
                       CostReads, Exports
<1> DEFINE next == After(y.kind, y.pc)
<1> DEFINE x == CASE At(c, "ops")      -> [y EXCEPT !.pc = next, !.ops = ops]
                  [] At(c, "verdicts") -> [y EXCEPT !.pc = next, !.verdicts = verdicts]
                  [] At(c, "log")      -> [y EXCEPT !.pc = next, !.log = CountedLog(c)]
<1>3. client' = [client EXCEPT ![c] = x]
  BY Zenon DEF ReadTable
<1>4. ReadsOne(c, x)
  <2>1. x = CASE y.pc = "ops"      -> [y EXCEPT !.pc = next, !.ops = ops]
              [] y.pc = "verdicts" -> [y EXCEPT !.pc = next, !.verdicts = verdicts]
              [] y.pc = "log"      -> [y EXCEPT !.pc = next, !.log = CountedLog(c)]
    BY Zenon DEF At
  <2> HIDE DEF x, next
  <2>2. CASE Two(y, Exports, "ops")
    BY <1>2, <2>1, <2>2 DEF ReadsOne, Two, next, Exports
  <2>3. CASE Two(y, Exports, "verdicts")
    BY <1>2, <2>1, <2>3 DEF ReadsOne, Two, next, Exports
  <2>4. CASE Two(y, {"verdict"}, "verdicts")
    BY <1>2, <2>1, <2>4 DEF ReadsOne, Two, next, Exports
  <2>5. CASE Two(y, {"verdict"}, "ops")
    BY <1>2, <2>1, <2>5 DEF ReadsOne, Two, next, Exports
  <2>6. CASE Two(y, {"cost"}, "verdicts")
    BY <1>2, <2>1, <2>6 DEF ReadsOne, Two, next, Exports
  <2>7. CASE Two(y, {"cost"}, "log")
    BY <1>2, <2>1, <2>7 DEF ReadsOne, Two, next, Exports
  <2>. QED BY <1>1, <2>2, <2>3, <2>4, <2>5, <2>6, <2>7
<1>5. x \in Readers /\ x.kind = y.kind
  BY <1>0, <1>4, ReadKeeps
<1> HIDE DEF x, y
<1>6. x.pc \in PathOf(x.kind)
  <2>1. \/ y.kind \in Exports /\ x.pc \in {"verdicts", "done"}
        \/ y.kind = "verdict" /\ x.pc \in {"ops", "done"}
        \/ y.kind = "cost" /\ x.pc \in {"log", "done"}
    <3> DEFINE OneOf(pc) == \/ x = [y EXCEPT !.pc = pc, !.ops = ops]
                            \/ x = [y EXCEPT !.pc = pc, !.verdicts = verdicts]
                            \/ x = [y EXCEPT !.pc = pc, !.log = CountedLog(c)]
    <3>1. \/ y.kind \in Exports /\ (OneOf("verdicts") \/ OneOf("done"))
          \/ y.kind = "verdict" /\ (OneOf("ops") \/ OneOf("done"))
          \/ y.kind = "cost" /\ (OneOf("log") \/ OneOf("done"))
      <4>1. \/ Two(y, Exports, "ops") /\ OneOf("verdicts")
            \/ Two(y, Exports, "verdicts") /\ OneOf("done")
            \/ Two(y, {"verdict"}, "verdicts") /\ OneOf("ops")
            \/ Two(y, {"verdict"}, "ops") /\ OneOf("done")
            \/ Two(y, {"cost"}, "verdicts") /\ OneOf("log")
            \/ Two(y, {"cost"}, "log") /\ OneOf("done")
        BY <1>4, Zenon DEF ReadsOne, y
      <4> HIDE DEF OneOf
      <4>. QED BY <4>1, Zenon DEF Two
    <3>2. \A pc : OneOf(pc) => x.pc = pc
      BY <1>0 DEF Readers
    <3> HIDE DEF OneOf
    <3>. QED BY <3>1, <3>2
  <2>. QED BY <1>5, <2>1, PathsOf DEF Exports
<1>. QED BY <1>3, <1>4, <1>5, <1>6 DEF Becomes

\* The readers of epochs.
ListEpochsStep(c, x) ==
    LET y == client[c]
    IN  \/ y.pc = "list" /\ x = [y EXCEPT !.pc = IF epochs = {} THEN "compute" ELSE "ask",
                                          !.epochs = epochs]
        \/ y.pc = "compute" /\ x = [y EXCEPT !.pc = "ask", !.epochs = Computed]

LEMMA ComputedTyped ==
    ASSUME TablesInv
    PROVE  Computed \in SUBSET Epochs
BY EpochTyped DEF Computed

LEMMA EpochPath ==
    ASSUME NEW y \in Readers, y.pc \in PathOf(y.kind),
           y.pc \in {"list", "compute", "ask", "detail", "recheck", "recompute", "load", "put"}
    PROVE  y.kind = "epoch"
<1>1. y.kind \in AllKinds
  BY DEF Readers
<1>. QED BY <1>1, PathsOf DEF AllKinds

LEMMA ListStep ==
    ASSUME TablesInv, ActorsTyped, NEW c \in Client, ListEpochs(c)
    PROVE  \E x : Becomes(c, x) /\ x.kind = "epoch" /\ ListEpochsStep(c, x)
<1> DEFINE y == client[c]
<1>1. y \in Readers /\ y.pc \in PathOf(y.kind) /\ epochs \in SUBSET Epochs
  BY DEF ActorsTyped
<1>2. Computed \in SUBSET Epochs
  BY ComputedTyped
<1>3. PICK x : client' = [client EXCEPT ![c] = x] /\ ListEpochsStep(c, x)
  BY Zenon DEF ListEpochs, ListEpochsStep, Found, At
<1>4. y.kind = "epoch"
  <2>1. y.pc \in {"list", "compute"}
    BY <1>3 DEF ListEpochsStep
  <2> HIDE DEF y
  <2>. QED BY <1>1, <2>1, EpochPath
<1>5. x \in Readers /\ x.kind = y.kind /\ x.pc \in {"compute", "ask"}
  BY <1>1, <1>2, <1>3 DEF ListEpochsStep, Readers, Steps
<1>. QED BY <1>3, <1>4, <1>5, PathsOf DEF Becomes

LEMMA WantStep ==
    ASSUME ActorsTyped, NEW c \in Client, WantEpoch(c)
    PROVE  \E x : \E e \in client[c].epochs :
              /\ Becomes(c, x) /\ x.kind = "epoch"
              /\ x = [client[c] EXCEPT !.pc = "detail", !.want = e, !.epochs = {}]
<1> DEFINE y == client[c]
<1>1. y \in Readers /\ y.pc \in PathOf(y.kind) /\ y.pc = "ask"
  BY DEF ActorsTyped, WantEpoch, At
<1>2. PICK e \in client[c].epochs :
         client' = [client EXCEPT ![c] = [y EXCEPT !.pc = "detail", !.want = e, !.epochs = {}]]
  BY Zenon DEF WantEpoch
<1> DEFINE x == [y EXCEPT !.pc = "detail", !.want = e, !.epochs = {}]
<1>3. y.kind = "epoch"
  <2> HIDE DEF y
  <2>. QED BY <1>1, EpochPath
<1>4. x \in Readers /\ x.kind = y.kind /\ x.pc = "detail"
  <2>1. e \in Epochs
    BY <1>1 DEF Readers
  <2>. QED BY <1>1, <2>1 DEF Readers, Steps
<1>. QED BY <1>2, <1>3, <1>4, PathsOf DEF Becomes

\* The way of an epoch that is looked up.
Looks(c, x) ==
    LET y == client[c]
    IN  \/ /\ y.pc \in {"detail", "recheck", "recompute"}
           /\ \/ x = Idle
              \/ x = [y EXCEPT !.pc = "load"] \/ x = [y EXCEPT !.pc = "put"]
              \/ x = [y EXCEPT !.pc = "recheck"] \/ x = [y EXCEPT !.pc = "recompute"]
        \/ /\ y.pc = "load"
           /\ \/ y.want \in artifacts /\ x = [y EXCEPT !.pc = "done"]
              \/ x = [y EXCEPT !.pc = "put"]
        \/ /\ y.pc = "put"
           /\ artifacts' = artifacts \cup {y.want} /\ x = [y EXCEPT !.pc = "done"]

LEMMA LookStep ==
    ASSUME ActorsTyped, NEW c \in Client, FindEpoch(c) \/ LoadArtifact(c) \/ SignEpoch(c)
    PROVE  \E x : /\ Becomes(c, x) /\ x.kind = "epoch" /\ Looks(c, x)
                  /\ client[c].pc = "put" \/ UNCHANGED artifacts
<1> DEFINE y == client[c]
<1>1. y \in Readers /\ y.pc \in PathOf(y.kind)
  BY DEF ActorsTyped
<1>2. /\ y.pc \in {"detail", "recheck", "recompute", "load", "put"}
      /\ y.pc = "put" \/ UNCHANGED artifacts
  BY DEF FindEpoch, LoadArtifact, SignEpoch, At
<1>3. y.kind = "epoch"
  <2> HIDE DEF y
  <2>. QED BY <1>1, <1>2, EpochPath
<1>4. \A pc : Goto(c, pc) => client' = [client EXCEPT ![c] = [y EXCEPT !.pc = pc]]
  BY DEF Goto
<1>5. \E x : client' = [client EXCEPT ![c] = x] /\ Looks(c, x)
  <2>1. CASE FindEpoch(c)
    <3>1. /\ y.pc \in {"detail", "recheck", "recompute"}
          /\ \/ Goto(c, "load") \/ Goto(c, "put") \/ Goto(c, "recheck")
             \/ Goto(c, "recompute") \/ NotFound(c)
      BY <2>1 DEF FindEpoch, At
    <3>. QED BY <1>4, <3>1, Zenon DEF Looks, NotFound
  <2>2. CASE LoadArtifact(c)
    <3>1. /\ y.pc = "load"
          /\ (y.want \in artifacts /\ Goto(c, "done")) \/ Goto(c, "put")
      BY <2>2 DEF LoadArtifact, At
    <3>. QED BY <1>4, <3>1, Zenon DEF Looks
  <2>3. CASE SignEpoch(c)
    <3>1. /\ y.pc = "put" /\ artifacts' = artifacts \cup {y.want}
          /\ Goto(c, "done")
      BY <2>3 DEF SignEpoch, At
    <3>. QED BY <1>4, <3>1, Zenon DEF Looks
  <2>. QED BY <2>1, <2>2, <2>3
<1>6. PICK x : client' = [client EXCEPT ![c] = x] /\ Looks(c, x)
  BY <1>5
<1>7. /\ x \in Readers /\ x.kind = "epoch"
      /\ x.pc \in {"idle", "load", "put", "recheck", "recompute", "done"}
  <2>1. CASE x = Idle
    BY <2>1, IdleTyped DEF Idle
  <2>2. CASE \E pc \in {"load", "put", "recheck", "recompute", "done"} : x = [y EXCEPT !.pc = pc]
    BY <1>1, <1>3, <2>2 DEF Readers, Steps
  <2>. QED BY <1>6, <2>1, <2>2 DEF Looks
<1>. QED BY <1>2, <1>6, <1>7, PathsOf DEF Becomes

\* A page is cut from what is behind the last row of the one before.
CutsPage(c, x) ==
    LET y    == client[c]
        rest == Behind(RowsOf(y.kind), y.got)
    IN  /\ y.kind \in Paged /\ y.pc = "page"
        /\ x.kind = y.kind /\ x.epochs = y.epochs
        /\ x.ops = y.ops /\ x.verdicts = y.verdicts
        /\ x.pc = IF Cardinality(rest) > PageSize THEN "page" ELSE "done"
        /\ x.base = IF y.got = <<>> THEN RowsOf(y.kind) ELSE y.base
        /\ x.got = y.got \o PageOf(rest)

LEMMA RestTyped ==
    ASSUME TablesInv, NEW kind \in Paged, NEW got
    PROVE  /\ Behind(RowsOf(kind), got) \in SUBSET RowsOf(kind)
           /\ Behind(RowsOf(kind), got) \in SUBSET Rows
           /\ IsFiniteSet(Behind(RowsOf(kind), got))
<1>1. Behind(RowsOf(kind), got) \in SUBSET RowsOf(kind)
  <2> DEFINE all == RowsOf(kind)
  <2> HIDE DEF all
  <2>1. Behind(all, got) \in SUBSET all
    BY DEF Behind
  <2>. QED BY <2>1 DEF all
<1>2. RowsOf(kind) \in SUBSET Rows /\ IsFiniteSet(RowsOf(kind))
  BY RowsTyped
<1>3. IsFiniteSet(Behind(RowsOf(kind), got))
  BY <1>1, <1>2, FS_Subset
<1>. QED BY <1>1, <1>2, <1>3

LEMMA PageStep ==
    ASSUME TablesInv, ActorsTyped, NEW c \in Client, NextPage(c)
    PROVE  \E x : Becomes(c, x) /\ CutsPage(c, x)
<1> DEFINE y == client[c]
<1> DEFINE now == RowsOf(y.kind)
<1> DEFINE rest == Behind(now, y.got)
<1> DEFINE pc == IF Cardinality(rest) > PageSize THEN "page" ELSE "done"
<1> DEFINE base == IF y.got = <<>> THEN now ELSE y.base
<1> DEFINE x == [y EXCEPT !.pc = pc, !.base = base, !.got = y.got \o PageOf(rest)]
<1>1. y \in Readers /\ y.pc \in PathOf(y.kind) /\ y.pc = "page"
  BY DEF ActorsTyped, NextPage, At
<1>2. y.kind \in Paged
  <2>1. y.kind \in AllKinds
    BY <1>1 DEF Readers
  <2> HIDE DEF y
  <2>. QED BY <1>1, <2>1, PathsOf DEF AllKinds, Paged
<1>3. client' = [client EXCEPT ![c] = x]
  BY Zenon DEF NextPage
<1>4. /\ now \in SUBSET Rows
      /\ rest \in SUBSET Rows /\ IsFiniteSet(rest)
  BY <1>2, RowsTyped, RestTyped
<1>5. PageOf(rest) \in Seq(Rows)
  <2> HIDE DEF rest
  <2>1. PageOf(rest) \in Seq(rest)
    BY <1>4, PageExact
  <2>. QED BY <1>4, <2>1
<1> HIDE DEF now, rest
<1>6. y.got \o PageOf(rest) \in Seq(Rows)
  BY <1>1, <1>5 DEF Readers
<1>7. base \in SUBSET Rows
  BY <1>1, <1>4 DEF Readers
<1> HIDE DEF base
<1>8. /\ x \in Readers /\ x.kind = y.kind /\ x.epochs = y.epochs
      /\ x.ops = y.ops /\ x.verdicts = y.verdicts
      /\ x.pc = pc /\ pc \in {"page", "done"}
      /\ x.base = base /\ x.got = y.got \o PageOf(rest)
  BY <1>1, <1>6, <1>7 DEF Readers, Steps
<1>9. pc \in PathOf(y.kind)
  BY <1>2, <1>8, PathsOf DEF Paged
<1> HIDE DEF x
<1>10. Becomes(c, x)
  BY <1>3, <1>8, <1>9 DEF Becomes
<1>11. CutsPage(c, x)
  BY <1>1, <1>2, <1>8, Zenon DEF CutsPage, base, rest, now
<1>. QED BY <1>10, <1>11

\* What any step of a client leaves it.
ClientMove(c, x) ==
    /\ Becomes(c, x)
    /\ UNCHANGED <<tableVars, epochs, schedVars>>
    /\ \/ /\ \E kind \in AllKinds : x = [Idle EXCEPT !.pc = First(kind), !.kind = kind]
          /\ UNCHANGED artifacts
       \/ ReadsOne(c, x) /\ UNCHANGED artifacts
       \/ x.kind = "epoch" /\ ListEpochsStep(c, x) /\ UNCHANGED artifacts
       \/ /\ x.kind = "epoch" /\ UNCHANGED artifacts
          /\ \E e \in client[c].epochs :
                x = [client[c] EXCEPT !.pc = "detail", !.want = e, !.epochs = {}]
       \/ /\ x.kind = "epoch" /\ Looks(c, x)
          /\ client[c].pc = "put" \/ UNCHANGED artifacts
       \/ CutsPage(c, x) /\ UNCHANGED artifacts

LEMMA ClientMoves ==
    ASSUME TablesInv, ActorsTyped, NEW c \in Client,
           ClientStep(c) \/ \E kind \in AllKinds : Ask(c, kind)
    PROVE  \E x : ClientMove(c, x)
<1>1. UNCHANGED <<tableVars, epochs, schedVars>>
  BY DEF ClientStep, ReadTable, ListEpochs, WantEpoch, FindEpoch, LoadArtifact,
         SignEpoch, NextPage, Ask, ClientOnly
<1>2. ASSUME NEW kind \in AllKinds, Ask(c, kind) PROVE \E x : ClientMove(c, x)
  <2>1. UNCHANGED artifacts
    BY <1>2 DEF Ask
  <2>2. PICK x : Becomes(c, x) /\ x = [Idle EXCEPT !.pc = First(kind), !.kind = kind]
    BY <1>2, AskStep
  <2>3. \E k \in AllKinds : x = [Idle EXCEPT !.pc = First(k), !.kind = k]
    BY <2>2
  <2>. QED BY <1>1, <2>1, <2>2, <2>3 DEF ClientMove
<1>3. CASE ReadTable(c)
  <2>1. UNCHANGED artifacts
    BY <1>3 DEF ReadTable
  <2>. QED BY <1>1, <1>3, <2>1, ReadTableStep, Zenon DEF ClientMove
<1>4. CASE ListEpochs(c)
  <2>1. UNCHANGED artifacts
    BY <1>4 DEF ListEpochs
  <2>. QED BY <1>1, <1>4, <2>1, ListStep, Zenon DEF ClientMove
<1>5. CASE WantEpoch(c)
  <2>1. UNCHANGED artifacts
    BY <1>5 DEF WantEpoch
  <2>. QED BY <1>1, <1>5, <2>1, WantStep, Zenon DEF ClientMove
<1>6. CASE FindEpoch(c) \/ LoadArtifact(c) \/ SignEpoch(c)
  BY <1>1, <1>6, LookStep, Zenon DEF ClientMove
<1>7. CASE NextPage(c)
  <2>1. UNCHANGED artifacts
    BY <1>7 DEF NextPage
  <2>. QED BY <1>1, <1>7, <2>1, PageStep, Zenon DEF ClientMove
<1>. QED BY <1>2, <1>3, <1>4, <1>5, <1>6, <1>7 DEF ClientStep

-----------------------------------------------------------------------------
\* What each step does to the scheduler that takes it.
SchedulerMove(s, x) ==
    LET y == sched[s]
    IN  /\ x \in Runs /\ sched' = [sched EXCEPT ![s] = x]
        /\ UNCHANGED <<tableVars, client>>
        /\ timer' \in BOOLEAN /\ deaths' \in Nat
        /\ \/ /\ ops # {} /\ x.pc = "check" /\ x.epoch = EpochOf(ops)
              /\ UNCHANGED <<epochs, artifacts>>
           \/ /\ y.pc = "check" /\ x.pc = "put" /\ x.epoch = y.epoch
              /\ UNCHANGED <<epochs, artifacts>>
           \/ /\ y.pc = "put" /\ x.pc = "insert" /\ x.epoch = y.epoch
              /\ artifacts' = artifacts \cup {y.epoch} /\ UNCHANGED epochs
           \/ /\ y.pc = "insert" /\ x.pc \in {"idle", "down"}
              /\ epochs' = epochs \cup {y.epoch} /\ UNCHANGED artifacts
           \/ x.pc \in {"idle", "down"} /\ UNCHANGED <<epochs, artifacts>>

LEMMA SchedulerMoves ==
    ASSUME TablesInv, ActorsTyped, NEW s \in Scheduler, SchedulerStep(s) \/ Die(s)
    PROVE  \E x : SchedulerMove(s, x)
<1> DEFINE y == sched[s]
<1>0. /\ NoRun \in Runs /\ Ended \in Runs
      /\ NoRun.pc = "idle" /\ Ended.pc = "down"
  BY IdleTyped DEF NoRun, Ended
<1>1. /\ y \in Runs
      /\ \A e : \A pc \in {"put", "insert"} :
            /\ [y EXCEPT !.pc = pc] \in Runs
            /\ [y EXCEPT !.pc = pc].pc = pc
            /\ [y EXCEPT !.pc = pc].epoch = y.epoch
  BY DEF ActorsTyped, Runs
<1>2. timer \in BOOLEAN /\ deaths \in Nat
  BY DEF ActorsTyped
<1>3. UNCHANGED <<tableVars, client>>
  BY DEF SchedulerStep, ReadOps, CheckPersisted, PutArtifact, InsertEpoch, NextRun, Die
<1>4. timer' \in BOOLEAN /\ deaths' \in Nat
  BY <1>2 DEF SchedulerStep, ReadOps, CheckPersisted, PutArtifact, InsertEpoch, NextRun, Die
<1> HIDE DEF NoRun, Ended
<1>5. CASE ReadOps(s)
  <2> DEFINE x == [pc |-> "check", epoch |-> EpochOf(ops)]
  <2>1. /\ ops # {} /\ sched' = [sched EXCEPT ![s] = x]
        /\ UNCHANGED <<epochs, artifacts>>
    BY <1>5 DEF ReadOps
  <2>2. x \in Runs /\ x.pc = "check" /\ x.epoch = EpochOf(ops)
    BY EpochTyped DEF Runs
  <2> HIDE DEF x
  <2>. QED BY <1>3, <1>4, <2>1, <2>2 DEF SchedulerMove
<1>6. CASE CheckPersisted(s)
  <2>1. /\ y.pc = "check" /\ UNCHANGED <<epochs, artifacts>>
        /\ \/ sched' = [sched EXCEPT ![s] = NoRun]
           \/ sched' = [sched EXCEPT ![s] = [y EXCEPT !.pc = "put"]]
    BY <1>6 DEF CheckPersisted
  <2>2. CASE sched' = [sched EXCEPT ![s] = NoRun]
    BY <1>0, <1>3, <1>4, <2>1, <2>2 DEF SchedulerMove
  <2>3. CASE sched' = [sched EXCEPT ![s] = [y EXCEPT !.pc = "put"]]
    <3> DEFINE x == [y EXCEPT !.pc = "put"]
    <3>1. x \in Runs /\ x.pc = "put" /\ x.epoch = y.epoch
      BY <1>1
    <3> HIDE DEF x
    <3>. QED BY <1>3, <1>4, <2>1, <2>3, <3>1 DEF SchedulerMove, x
  <2>. QED BY <2>1, <2>2, <2>3
<1>7. CASE PutArtifact(s)
  <2> DEFINE x == [y EXCEPT !.pc = "insert"]
  <2>1. /\ y.pc = "put" /\ artifacts' = artifacts \cup {y.epoch} /\ UNCHANGED epochs
        /\ sched' = [sched EXCEPT ![s] = x]
    BY <1>7 DEF PutArtifact
  <2>2. x \in Runs /\ x.pc = "insert" /\ x.epoch = y.epoch
    BY <1>1
  <2> HIDE DEF x
  <2>. QED BY <1>3, <1>4, <2>1, <2>2 DEF SchedulerMove
<1>8. CASE InsertEpoch(s)
  <2>1. /\ y.pc = "insert" /\ epochs' = epochs \cup {y.epoch} /\ UNCHANGED artifacts
        /\ \/ sched' = [sched EXCEPT ![s] = NoRun]
           \/ sched' = [sched EXCEPT ![s] = Ended]
    BY <1>8 DEF InsertEpoch
  <2>. QED BY <1>0, <1>3, <1>4, <2>1 DEF SchedulerMove
<1>9. CASE NextRun(s) \/ Die(s)
  <2>1. /\ UNCHANGED <<epochs, artifacts>>
        /\ \/ sched' = [sched EXCEPT ![s] = NoRun]
           \/ sched' = [sched EXCEPT ![s] = Ended]
    BY <1>9 DEF NextRun, Die
  <2>. QED BY <1>0, <1>3, <1>4, <2>1 DEF SchedulerMove
<1>. QED BY <1>5, <1>6, <1>7, <1>8, <1>9 DEF SchedulerStep

\* All steps, for the parts that schedulers and clients write.
LEMMA ActorCases ==
    ASSUME TablesInv, ActorsTyped, [Next]_vars
    PROVE  \/ UNCHANGED <<epochs, artifacts, schedVars, client>>
           \/ \E s \in Scheduler : \E x : SchedulerMove(s, x)
           \/ \E c \in Client : \E x : ClientMove(c, x)
BY StepCases, SchedulerMoves, ClientMoves, Zenon DEF vars

LEMMA NextActors ==
    ASSUME TablesInv, ActorsTyped, [Next]_vars
    PROVE  ActorsTyped'
<1>1. CASE UNCHANGED <<epochs, artifacts, schedVars, client>>
  BY <1>1 DEF ActorsTyped, schedVars
<1>2. ASSUME NEW s \in Scheduler, NEW x, SchedulerMove(s, x) PROVE ActorsTyped'
  <2>1. sched' \in [Scheduler -> Runs]
    BY <1>2 DEF SchedulerMove, ActorsTyped
  <2>2. sched[s].epoch \in Epochs
    BY DEF ActorsTyped, Runs
  <2>3. epochs' \in SUBSET Epochs /\ artifacts' \in SUBSET Epochs
    BY <1>2, <2>2 DEF SchedulerMove, ActorsTyped
  <2>. QED BY <1>2, <2>1, <2>3 DEF SchedulerMove, ActorsTyped
<1>3. ASSUME NEW c \in Client, NEW x, ClientMove(c, x) PROVE ActorsTyped'
  <2>1. /\ client' \in [Client -> Readers]
        /\ \A d \in Client : client'[d].pc \in PathOf(client'[d].kind)
    BY <1>3 DEF ClientMove, Becomes, ActorsTyped
  <2>2. client[c].want \in Epochs
    BY DEF ActorsTyped, Readers
  <2>3. artifacts' \in SUBSET Epochs
    <3>1. artifacts' = artifacts \/ artifacts' = artifacts \cup {client[c].want}
      BY <1>3 DEF ClientMove, Looks
    <3>. QED BY <2>2, <3>1 DEF ActorsTyped
  <2>. QED BY <1>3, <2>1, <2>3 DEF ClientMove, ActorsTyped, schedVars
<1>. QED BY <1>1, <1>2, <1>3, ActorCases

LEMMA InitActors == Init => ActorsTyped
<1> USE IdleTyped
<1>1. Idle.pc \in PathOf(Idle.kind)
  BY PathsOf DEF Idle
<1> HIDE DEF Idle, NoRun
<1>. QED BY <1>1 DEF Init, ActorsTyped

TypeInv == TablesInv /\ ActorsTyped

LEMMA TypeInvariant == Spec => []TypeInv
<1>1. Init => TypeInv
  BY InitTables, InitActors DEF TypeInv
<1>2. TypeInv /\ [Next]_vars => TypeInv'
  BY NextTables, NextActors DEF TypeInv
<1>. QED BY <1>1, <1>2, PTL DEF Spec

-----------------------------------------------------------------------------
\* Every epoch anybody holds is one of operations that are stored.
Backed(st, os, e) == \E S \in SUBSET os : S # {} /\ EpochAt(st, S) = e

LEMMA BackedStays ==
    ASSUME TypeInv, [Next]_vars, NEW e, Backed(stamp, ops, e)
    PROVE  Backed(stamp', ops', e)
<1>1. PICK S \in SUBSET ops : S # {} /\ EpochAt(stamp, S) = e
  BY DEF Backed
<1>2. ops \subseteq ops' /\ \A o \in ops : stamp'[o] = stamp[o]
  BY TablesGrow DEF TypeInv
<1>3. S \in SUBSET ops' /\ EpochAt(stamp', S) = EpochAt(stamp, S)
  BY <1>1, <1>2, SameStamps
<1>. QED BY <1>1, <1>3 DEF Backed

LEMMA ComputedBacked ==
    ASSUME ops # {}
    PROVE  Backed(stamp, ops, EpochOf(ops))
BY EpochIs DEF Backed

Holding == {"check", "put", "insert"}
Looking == {"detail", "recheck", "recompute", "load", "put"}

SchedulerHolds(s) ==
    /\ sched[s].pc \in Holding => Backed(stamp, ops, sched[s].epoch)
    /\ sched[s].pc = "insert" => sched[s].epoch \in artifacts

ClientHolds(c) ==
    /\ \A e \in client[c].epochs : Backed(stamp, ops, e)
    /\ client[c].pc \in Looking => Backed(stamp, ops, client[c].want)
    /\ client[c].kind = "epoch" /\ client[c].pc = "done" => client[c].want \in artifacts

BackedInv ==
    /\ epochs \subseteq artifacts
    /\ \A e \in artifacts : Backed(stamp, ops, e)
    /\ \A s \in Scheduler : SchedulerHolds(s)
    /\ \A c \in Client : ClientHolds(c)

LEMMA InitBacked == Init => BackedInv
<1>. QED BY DEF Init, BackedInv, SchedulerHolds, ClientHolds, Holding, Looking, NoRun, Idle

\* A step that leaves what they hold leaves schedulers and clients backed.
LEMMA OthersHold ==
    ASSUME TypeInv, BackedInv, [Next]_vars, artifacts \subseteq artifacts'
    PROVE  /\ \A e \in artifacts : Backed(stamp', ops', e)
           /\ \A s \in Scheduler : sched'[s] = sched[s] => SchedulerHolds(s)'
           /\ \A c \in Client : client'[c] = client[c] => ClientHolds(c)'
<1>1. \A e : Backed(stamp, ops, e) => Backed(stamp', ops', e)
  BY BackedStays
<1>2. ASSUME NEW s \in Scheduler, sched'[s] = sched[s] PROVE SchedulerHolds(s)'
  BY <1>1, <1>2 DEF BackedInv, SchedulerHolds
<1>3. ASSUME NEW c \in Client, client'[c] = client[c] PROVE ClientHolds(c)'
  BY <1>1, <1>3 DEF BackedInv, ClientHolds
<1>. QED BY <1>1, <1>2, <1>3 DEF BackedInv

LEMMA SchedulerBacked ==
    ASSUME TypeInv, BackedInv, [Next]_vars, NEW s \in Scheduler, NEW x, SchedulerMove(s, x)
    PROVE  BackedInv'
<1> DEFINE y == sched[s]
<1>1. /\ sched' = [sched EXCEPT ![s] = x]
      /\ UNCHANGED <<stamp, ops, client>>
  BY DEF SchedulerMove, tableVars
<1>2. sched'[s] = x /\ \A t \in Scheduler : t # s => sched'[t] = sched[t]
  BY <1>1 DEF TypeInv, ActorsTyped
<1>3. /\ y.pc \in Holding => Backed(stamp, ops, y.epoch)
      /\ y.pc = "insert" => y.epoch \in artifacts
      /\ ops # {} => Backed(stamp, ops, EpochOf(ops))
  BY ComputedBacked DEF BackedInv, SchedulerHolds
<1> HIDE DEF y
<1>4. /\ artifacts \subseteq artifacts'
      /\ epochs' \subseteq artifacts'
      /\ \A e \in artifacts' : e \in artifacts \/ Backed(stamp, ops, e)
      /\ x.pc \in Holding => Backed(stamp, ops, x.epoch)
      /\ x.pc = "insert" => x.epoch \in artifacts'
  BY <1>3 DEF SchedulerMove, BackedInv, Holding, y
<1>5. SchedulerHolds(s)'
  BY <1>1, <1>2, <1>4 DEF SchedulerHolds
<1>. QED BY <1>1, <1>2, <1>4, <1>5, OthersHold DEF BackedInv

LEMMA ClientBacked ==
    ASSUME TypeInv, BackedInv, [Next]_vars, NEW c \in Client, NEW x, ClientMove(c, x)
    PROVE  BackedInv'
<1> DEFINE y == client[c]
<1>1. /\ client' = [client EXCEPT ![c] = x]
      /\ UNCHANGED <<stamp, ops, epochs, sched>>
  BY DEF ClientMove, Becomes, tableVars, schedVars
<1>2. client'[c] = x /\ \A d \in Client : d # c => client'[d] = client[d]
  BY <1>1 DEF TypeInv, ActorsTyped
<1>3. /\ \A e \in y.epochs : Backed(stamp, ops, e)
      /\ y.pc \in Looking => Backed(stamp, ops, y.want)
      /\ \A e \in epochs : Backed(stamp, ops, e)
      /\ y \in Readers
  BY DEF BackedInv, ClientHolds, TypeInv, ActorsTyped
<1>4. \A e \in Computed : Backed(stamp, ops, e)
  BY ComputedBacked DEF Computed
<1>5. /\ artifacts \subseteq artifacts'
      /\ \A e \in artifacts' : e \in artifacts \/ Backed(stamp, ops, e)
      /\ \A e \in x.epochs : Backed(stamp, ops, e)
      /\ x.pc \in Looking => Backed(stamp, ops, x.want)
      /\ x.kind = "epoch" /\ x.pc = "done" => x.want \in artifacts'
  <2> HIDE DEF y
  <2>1. ASSUME NEW kind \in AllKinds, x = [Idle EXCEPT !.pc = First(kind), !.kind = kind]
        PROVE  x.epochs = {} /\ x.pc \notin Looking /\ x.pc # "done"
    <3>1. x.epochs = {} /\ x.pc = First(kind)
      BY <2>1 DEF Idle
    <3>2. First(kind) \notin Looking /\ First(kind) # "done"
      BY DEF First, Paged, AllKinds, Looking, Reads, ExportReads, ProvenanceReads,
             VerdictReads, CostReads
    <3>. QED BY <3>1, <3>2
  <2>2. ASSUME ReadsOne(c, x)
        PROVE  x.epochs = y.epochs /\ x.pc \notin Looking /\ x.kind # "epoch"
    <3>1. /\ x.epochs = y.epochs /\ x.kind \in Exports \cup {"verdict", "cost"}
          /\ x.pc \in {"ops", "verdicts", "log", "done"}
      BY <1>3, <2>2, ReadKeeps DEF TypeInv, y
    <3>. QED BY <3>1 DEF Looking, Exports
  <2>3. ASSUME ListEpochsStep(c, x)
        PROVE  /\ x.epochs \subseteq epochs \cup Computed
               /\ x.pc \notin Looking /\ x.pc # "done"
    <3>1. \E es \in {epochs, Computed} : \E pc \in {"compute", "ask"} :
             x = [y EXCEPT !.pc = pc, !.epochs = es]
      BY <2>3, Zenon DEF ListEpochsStep, y
    <3>2. x.epochs \in {epochs, Computed} /\ x.pc \in {"compute", "ask"}
      BY <1>3, <3>1 DEF Readers
    <3>. QED BY <3>2 DEF Looking
  <2>4. ASSUME NEW e \in y.epochs, x = [y EXCEPT !.pc = "detail", !.want = e, !.epochs = {}]
        PROVE  x.epochs = {} /\ Backed(stamp, ops, x.want) /\ x.pc # "done"
    BY <1>3, <2>4 DEF Readers
  <2>5. ASSUME Looks(c, x), y.pc = "put" \/ UNCHANGED artifacts
        PROVE  /\ artifacts' = artifacts \/ (y.pc = "put" /\ artifacts' = artifacts \cup {y.want})
               /\ x.epochs \subseteq y.epochs
               /\ x.pc \in Looking => y.pc \in Looking /\ x.want = y.want
               /\ x.pc = "done" => x.want \in artifacts'
    <3>1. CASE x = Idle /\ y.pc \in {"detail", "recheck", "recompute"}
      BY <2>5, <3>1 DEF Idle, Looking
    <3>2. CASE /\ y.pc \in {"detail", "recheck", "recompute"}
               /\ \E pc \in {"load", "put", "recheck", "recompute"} : x = [y EXCEPT !.pc = pc]
      BY <1>3, <2>5, <3>2 DEF Readers, Looking
    <3>3. CASE /\ y.pc = "load"
               /\ \/ y.want \in artifacts /\ x = [y EXCEPT !.pc = "done"]
                  \/ x = [y EXCEPT !.pc = "put"]
      BY <1>3, <2>5, <3>3 DEF Readers, Looking
    <3>4. CASE /\ y.pc = "put"
               /\ artifacts' = artifacts \cup {y.want} /\ x = [y EXCEPT !.pc = "done"]
      BY <1>3, <2>5, <3>4 DEF Readers, Looking
    <3>. QED BY <2>5, <3>1, <3>2, <3>3, <3>4 DEF Looks, y
  <2>6. ASSUME CutsPage(c, x)
        PROVE  x.epochs = y.epochs /\ x.pc \notin Looking /\ x.kind # "epoch"
    BY <2>6 DEF CutsPage, Paged, Looking, y
  <2> DEFINE Goal == /\ artifacts \subseteq artifacts'
                     /\ \A e \in artifacts' : e \in artifacts \/ Backed(stamp, ops, e)
                     /\ \A e \in x.epochs : Backed(stamp, ops, e)
                     /\ x.pc \in Looking => Backed(stamp, ops, x.want)
                     /\ x.kind = "epoch" /\ x.pc = "done" => x.want \in artifacts'
  <2>7. ASSUME UNCHANGED artifacts,
               \E kind \in AllKinds : x = [Idle EXCEPT !.pc = First(kind), !.kind = kind]
        PROVE  Goal
    BY <2>1, <2>7
  <2>8. ASSUME UNCHANGED artifacts, ReadsOne(c, x) PROVE Goal
    BY <1>3, <2>2, <2>8
  <2>9. ASSUME UNCHANGED artifacts, ListEpochsStep(c, x) PROVE Goal
    BY <1>3, <1>4, <2>3, <2>9
  <2>10. ASSUME UNCHANGED artifacts, NEW e \in y.epochs,
                x = [y EXCEPT !.pc = "detail", !.want = e, !.epochs = {}]
         PROVE  Goal
    BY <2>4, <2>10
  <2>11. ASSUME Looks(c, x), y.pc = "put" \/ UNCHANGED artifacts PROVE Goal
    <3>1. y.pc = "put" => y.pc \in Looking
      BY DEF Looking
    <3>. QED BY <1>3, <2>5, <2>11, <3>1
  <2>12. ASSUME UNCHANGED artifacts, CutsPage(c, x) PROVE Goal
    BY <1>3, <2>6, <2>12
  <2> HIDE DEF Goal
  <2>13. Goal
    BY <2>7, <2>8, <2>9, <2>10, <2>11, <2>12 DEF ClientMove, y
  <2>. QED BY <2>13 DEF Goal
<1>6. ClientHolds(c)'
  BY <1>1, <1>2, <1>5 DEF ClientHolds
<1>. QED BY <1>1, <1>2, <1>5, <1>6, OthersHold DEF BackedInv

LEMMA BackedInvariant == Spec => []BackedInv
<1>1. TypeInv /\ BackedInv /\ [Next]_vars => BackedInv'
  <2>1. SUFFICES ASSUME TypeInv, BackedInv, [Next]_vars PROVE BackedInv'
    OBVIOUS
  <2>2. CASE UNCHANGED <<epochs, artifacts, schedVars, client>>
    BY <2>1, <2>2, OthersHold DEF BackedInv, schedVars
  <2>. QED BY <2>1, <2>2, ActorCases, SchedulerBacked, ClientBacked DEF TypeInv
<1>. QED BY <1>1, InitBacked, TypeInvariant, PTL DEF Spec

\* An epoch and its artifact are of stored operations, and of these only
\* (EpochsBacked): no other set of as many hashes has the root.
THEOREM EpochsCommit == Spec => []EpochsBacked
<1>1. TypeInv /\ BackedInv => EpochsBacked
  <2>1. SUFFICES ASSUME TypeInv, BackedInv PROVE EpochsBacked
    OBVIOUS
  <2>2. ASSUME NEW c \in Client, At(c, "done"), client[c].kind = "epoch"
        PROVE  client[c].want \in artifacts
    BY <2>1, <2>2 DEF BackedInv, ClientHolds, At
  <2>3. ASSUME NEW e \in artifacts
        PROVE  \E S \in SUBSET ops :
                  /\ Covers(S, e)
                  /\ \A H \in DOMAIN RootOf :
                        Cardinality(H) = e.count /\ RootOf[H] = e.root
                           => H = {Hash[o] : o \in S}
    <3>1. PICK S \in SUBSET ops : S # {} /\ EpochAt(stamp, S) = e
      BY <2>1, <2>3 DEF BackedInv, Backed
    <3>2. S \in SUBSET Op
      BY <2>1, <3>1 DEF TypeInv, TablesInv, TablesTyped
    <3>3. Covers(S, e)
      <4>1. e.count = Cardinality(S)
        BY <3>1 DEF EpochAt
      <4>. QED BY <3>1, <4>1, EpochIs DEF Covers
    <3>4. \A H \in DOMAIN RootOf :
             Cardinality(H) = e.count /\ RootOf[H] = e.root => H = HashesOf(S)
      BY <3>1, <3>2, HashesNamed
    <3>. QED BY <3>1, <3>3, <3>4 DEF HashesOf
  <2>. QED BY <2>1, <2>2, <2>3 DEF EpochsBacked, BackedInv
<1>. QED BY <1>1, TypeInvariant, BackedInvariant, PTL

-----------------------------------------------------------------------------
\* Of the epochs that are persisted or about to be, one covers the other.
Known == epochs \cup {sched[s].epoch : s \in {t \in Scheduler : sched[t].pc \in Holding}}

Ordered(st, os, E) ==
    \A e, f \in E : \A S, T \in SUBSET os :
       /\ S # {} /\ T # {}
       /\ EpochAt(st, S) = e /\ EpochAt(st, T) = f
       => S \subseteq T \/ T \subseteq S

NestedInv == Ordered(stamp, ops, Known)

\* Nothing but the epoch of all operations becomes known.
LEMMA KnownGrows ==
    ASSUME TypeInv, [Next]_vars
    PROVE  \/ Known' \subseteq Known
           \/ UNCHANGED <<stamp, ops>> /\ Known' \subseteq Known \cup {EpochAt(stamp, ops)}
<1>1. CASE UNCHANGED <<epochs, schedVars>>
  BY <1>1 DEF Known, schedVars
<1>2. ASSUME NEW s \in Scheduler, NEW x, SchedulerMove(s, x)
      PROVE  /\ UNCHANGED <<stamp, ops>>
             /\ Known' \subseteq Known \cup {EpochAt(stamp, ops)}
  <2> DEFINE y == sched[s]
  <2>1. /\ sched'[s] = x /\ \A t \in Scheduler : t # s => sched'[t] = sched[t]
        /\ UNCHANGED <<stamp, ops>>
    BY <1>2 DEF SchedulerMove, TypeInv, ActorsTyped, tableVars
  <2>2. y.pc \in Holding => y.epoch \in Known
    BY DEF Known
  <2>3. x.pc \in Holding =>
           x.epoch = EpochAt(stamp, ops) \/ (y.pc \in Holding /\ x.epoch = y.epoch)
    BY <1>2, EpochIs DEF SchedulerMove, Holding
  <2>4. epochs' \subseteq Known
    BY <1>2, <2>2 DEF SchedulerMove, Known, Holding
  <2> HIDE DEF y
  <2>5. ASSUME NEW t \in Scheduler, sched'[t].pc \in Holding
        PROVE  sched'[t].epoch \in Known \cup {EpochAt(stamp, ops)}
    BY <2>1, <2>2, <2>3, <2>5 DEF Known
  <2>. QED BY <2>1, <2>4, <2>5 DEF Known
<1>3. ASSUME NEW c \in Client, NEW x, ClientMove(c, x)
      PROVE  UNCHANGED <<epochs, schedVars>>
  BY <1>3 DEF ClientMove
<1>. QED BY <1>1, <1>2, <1>3, ActorCases DEF TypeInv

LEMMA NextNested ==
    ASSUME TypeInv, BackedInv, NestedInv, [Next]_vars
    PROVE  NestedInv'
<1>1. /\ ops \subseteq ops' /\ \A o \in ops : stamp'[o] = stamp[o]
      /\ ops \in SUBSET Op /\ ops' \in SUBSET Op
  BY TablesGrow, NextTables DEF TypeInv, TablesInv, TablesTyped
<1>2. \A e \in Known : Backed(stamp, ops, e)
  BY DEF BackedInv, Known, SchedulerHolds
<1>3. ASSUME NEW e \in Known, NEW S \in SUBSET ops', S # {}, EpochAt(stamp', S) = e
      PROVE  S \in SUBSET ops /\ EpochAt(stamp, S) = e
  <2>1. PICK R \in SUBSET ops : R # {} /\ EpochAt(stamp, R) = e
    BY <1>2 DEF Backed
  <2>2. S = R
    BY <1>1, <1>3, <2>1, OpsNamed
  <2>. QED BY <2>1, <2>2
<1>4. ASSUME NEW e \in Known', NEW f \in Known',
             NEW S \in SUBSET ops', NEW T \in SUBSET ops', S # {}, T # {},
             EpochAt(stamp', S) = e, EpochAt(stamp', T) = f
      PROVE  S \subseteq T \/ T \subseteq S
  <2>1. CASE e \in Known /\ f \in Known
    BY <1>3, <1>4, <2>1 DEF NestedInv, Ordered
  <2>2. CASE UNCHANGED <<stamp, ops>> /\ (e = EpochAt(stamp, ops) \/ f = EpochAt(stamp, ops))
    <3>1. ops # {}
      BY <1>4, <2>2
    <3>2. S = ops \/ T = ops
      BY <1>1, <1>4, <2>2, <3>1, OpsNamed
    <3>. QED BY <1>4, <2>2, <3>2
  <2>. QED BY <1>4, <2>1, <2>2, KnownGrows
<1>. QED BY <1>4 DEF NestedInv, Ordered

LEMMA NestedInvariant == Spec => []NestedInv
<1>1. Init => NestedInv
  BY DEF Init, NestedInv, Ordered, Known, Holding, NoRun
<1>2. TypeInv /\ BackedInv /\ NestedInv /\ [Next]_vars => NestedInv'
  BY NextNested
<1>. QED BY <1>1, <1>2, TypeInvariant, BackedInvariant, PTL DEF Spec

\* However schedulers overlap, die and start again while operations commit in any
\* order of their stamps, persisted epochs lie within one another (EpochsNested).
THEOREM EpochsLieNested == Spec => []EpochsNested
<1>1. TypeInv /\ BackedInv /\ NestedInv => EpochsNested
  <2>1. SUFFICES ASSUME TypeInv, BackedInv, NestedInv, NEW e \in epochs, NEW f \in epochs
                 PROVE  OpsOf(e) \subseteq OpsOf(f) \/ OpsOf(f) \subseteq OpsOf(e)
    BY DEF EpochsNested
  <2>2. ASSUME NEW g \in epochs
        PROVE  /\ OpsOf(g) \in SUBSET ops /\ OpsOf(g) # {}
               /\ EpochAt(stamp, OpsOf(g)) = g
    <3>1. PICK S \in SUBSET ops : S # {} /\ EpochAt(stamp, S) = g
      BY <2>1, <2>2 DEF BackedInv, Backed
    <3>2. g.count = Cardinality(S)
      BY <3>1 DEF EpochAt
    <3>3. Covers(S, g)
      BY <3>1, <3>2, EpochIs DEF Covers
    <3>4. OpsOf(g) \in SUBSET ops /\ Covers(OpsOf(g), g)
      BY <3>1, <3>3, Zenon DEF OpsOf
    <3>. QED BY <3>4, EpochIs DEF Covers
  <2>3. e \in Known /\ f \in Known
    BY DEF Known
  <2>. QED BY <2>1, <2>2, <2>3 DEF NestedInv, Ordered
<1>. QED BY <1>1, TypeInvariant, BackedInvariant, NestedInvariant, PTL

-----------------------------------------------------------------------------
\* What a client has read stays true of the tables, and an answer it has finished
\* agrees with itself.
Gates(vs) == {v.op : v \in {w \in vs : ~w.late}}

RowSound(v, os) ==
    /\ v.op \in os
    /\ v.id = IF v.late THEN LateId(v.op) ELSE v.op
    /\ ~v.late <=> v.op \in Decided

Agrees(y) ==
    y.pc = "done" =>
       /\ y.kind \in Exports => Decided \cap y.ops \subseteq Gates(y.verdicts)
       /\ y.kind = "verdict" => \A v \in y.verdicts : v.op \in y.ops
       /\ y.kind = "cost" => y.log = Gates(y.verdicts)

AnswerHolds(y, os) ==
    /\ y.ops \subseteq os
    /\ \A v \in y.verdicts : RowSound(v, os)
    /\ Agrees(y)

AnswerInv == \A c \in Client : AnswerHolds(client[c], ops)

\* The interventions of a run's verdicts are those of its gate verdicts.
LEMMA LogIsGates ==
    ASSUME TablesInv, NEW vs, \A v \in vs : RowSound(v, ops)
    PROVE  log \cap {v.id : v \in vs} = Gates(vs)
<1>1. /\ log = ops \cap Decided /\ ops \subseteq Op
      /\ \A o \in Op : LateId(o) \notin Op
  BY LateIdApart DEF TablesInv, TablesTyped, VerdictsMatch
<1>2. ASSUME NEW v \in vs, v.id \in log PROVE ~v.late /\ v.op = v.id
  BY <1>1, <1>2 DEF RowSound
<1>3. ASSUME NEW v \in vs, ~v.late PROVE v.op \in log /\ v.id = v.op
  BY <1>1, <1>3 DEF RowSound
<1>. QED BY <1>2, <1>3 DEF Gates

\* One read more, and the answer agrees if it is the last one.
LEMMA ReadsAgree ==
    ASSUME TypeInv, AnswerInv, NEW c \in Client, NEW x, ReadsOne(c, x)
    PROVE  AnswerHolds(x, ops)
<1> DEFINE y == client[c]
<1>1. /\ y \in Readers /\ y.ops \subseteq ops
      /\ \A v \in y.verdicts : RowSound(v, ops)
  BY DEF TypeInv, ActorsTyped, AnswerInv, AnswerHolds
<1>2. /\ \A v \in verdicts : RowSound(v, ops)
      /\ \A o \in ops \cap Decided : \E v \in verdicts : v.op = o
  BY DEF TypeInv, TablesInv, VerdictsMatch, RowSound
<1>3. ops \cap Decided \subseteq Gates(verdicts)
  BY <1>2 DEF Gates, RowSound
<1>4. CountedLog(c) = Gates(y.verdicts)
  BY <1>1, LogIsGates DEF TypeInv, CountedLog
<1> HIDE DEF y
<1> DEFINE Goal == AnswerHolds(x, ops)
<1>5. ASSUME Two(y, Exports, "ops"), x = [y EXCEPT !.pc = "verdicts", !.ops = ops] PROVE Goal
  <2>1. x.pc = "verdicts" /\ x.ops = ops /\ x.verdicts = y.verdicts
    BY <1>1, <1>5 DEF Readers
  <2>. QED BY <1>1, <2>1 DEF AnswerHolds, Agrees
<1>6. ASSUME Two(y, Exports, "verdicts"), x = [y EXCEPT !.pc = "done", !.verdicts = verdicts]
      PROVE  Goal
  <2>1. x.kind \in Exports /\ x.ops = y.ops /\ x.verdicts = verdicts
    BY <1>1, <1>6 DEF Readers, Two
  <2>. QED BY <1>1, <1>2, <1>3, <2>1 DEF AnswerHolds, Agrees, Exports
<1>7. ASSUME Two(y, {"verdict"}, "verdicts"), x = [y EXCEPT !.pc = "ops", !.verdicts = verdicts]
      PROVE  Goal
  <2>1. x.pc = "ops" /\ x.ops = y.ops /\ x.verdicts = verdicts
    BY <1>1, <1>7 DEF Readers
  <2>. QED BY <1>1, <1>2, <2>1 DEF AnswerHolds, Agrees
<1>8. ASSUME Two(y, {"verdict"}, "ops"), x = [y EXCEPT !.pc = "done", !.ops = ops] PROVE Goal
  <2>1. x.kind = "verdict" /\ x.ops = ops /\ x.verdicts = y.verdicts
    BY <1>1, <1>8 DEF Readers, Two
  <2>. QED BY <1>1, <2>1 DEF AnswerHolds, Agrees, Exports, RowSound
<1>9. ASSUME Two(y, {"cost"}, "verdicts"), x = [y EXCEPT !.pc = "log", !.verdicts = verdicts]
      PROVE  Goal
  <2>1. x.pc = "log" /\ x.ops = y.ops /\ x.verdicts = verdicts
    BY <1>1, <1>9 DEF Readers
  <2>. QED BY <1>1, <1>2, <2>1 DEF AnswerHolds, Agrees
<1>10. ASSUME Two(y, {"cost"}, "log"), x = [y EXCEPT !.pc = "done", !.log = CountedLog(c)]
       PROVE  Goal
  <2>1. /\ x.kind = "cost" /\ x.ops = y.ops /\ x.verdicts = y.verdicts
        /\ x.log = Gates(y.verdicts)
    BY <1>1, <1>4, <1>10 DEF Readers, Two
  <2>. QED BY <1>1, <2>1 DEF AnswerHolds, Agrees, Exports
<1> HIDE DEF Goal
<1>11. Goal
  BY <1>5, <1>6, <1>7, <1>8, <1>9, <1>10 DEF ReadsOne, y
<1>. QED BY <1>11 DEF Goal

\* What the readers of epochs do not touch.
LEMMA EpochKeeps ==
    ASSUME ActorsTyped, NEW c \in Client, NEW x, x.kind = "epoch",
           \/ ListEpochsStep(c, x) \/ Looks(c, x)
           \/ \E e \in client[c].epochs :
                 x = [client[c] EXCEPT !.pc = "detail", !.want = e, !.epochs = {}]
    PROVE  \/ x = Idle
           \/ /\ x.ops = client[c].ops /\ x.verdicts = client[c].verdicts
              /\ x.got = client[c].got
<1> DEFINE y == client[c]
<1>1. y \in Readers
  BY DEF ActorsTyped
<1> HIDE DEF y, Idle
<1>2. ASSUME ListEpochsStep(c, x)
      PROVE  x.ops = y.ops /\ x.verdicts = y.verdicts /\ x.got = y.got
  BY <1>1, <1>2 DEF ListEpochsStep, Readers, y
<1>3. ASSUME Looks(c, x)
      PROVE  x = Idle \/ (x.ops = y.ops /\ x.verdicts = y.verdicts /\ x.got = y.got)
  BY <1>1, <1>3 DEF Looks, Readers, y
<1>4. ASSUME NEW e \in y.epochs, x = [y EXCEPT !.pc = "detail", !.want = e, !.epochs = {}]
      PROVE  x.ops = y.ops /\ x.verdicts = y.verdicts /\ x.got = y.got
  BY <1>1, <1>4 DEF Readers
<1>. QED BY <1>2, <1>3, <1>4 DEF y

\* A request starts from nothing.
LEMMA AskedIs ==
    ASSUME NEW kind \in AllKinds, NEW x, x = [Idle EXCEPT !.pc = First(kind), !.kind = kind]
    PROVE  /\ x.kind = kind /\ x.ops = {} /\ x.verdicts = {}
           /\ x.base = {} /\ x.got = <<>> /\ x.pc # "done"
<1>1. First(kind) # "done"
  BY DEF First, Paged, AllKinds, Reads, ExportReads, ProvenanceReads, VerdictReads, CostReads
<1> HIDE DEF First
<1>. QED BY <1>1 DEF Idle

LEMMA NextAnswers ==
    ASSUME TypeInv, AnswerInv, [Next]_vars
    PROVE  AnswerInv'
<1>1. ASSUME NEW y, AnswerHolds(y, ops) PROVE AnswerHolds(y, ops')
  <2>1. ops \subseteq ops'
    BY TablesGrow DEF TypeInv
  <2>. QED BY <1>1, <2>1 DEF AnswerHolds, RowSound
<1>2. ASSUME UNCHANGED client PROVE AnswerInv'
  BY <1>1, <1>2 DEF AnswerInv
<1>3. ASSUME NEW c \in Client, NEW x, ClientMove(c, x) PROVE AnswerInv'
  <2>1. /\ client'[c] = x /\ \A d \in Client : d # c => client'[d] = client[d]
        /\ ops' = ops
    BY <1>3 DEF ClientMove, Becomes, TypeInv, ActorsTyped, tableVars
  <2>2. AnswerHolds(client[c], ops)
    BY DEF AnswerInv
  <2>3. AnswerHolds(x, ops)
    <3>1. ASSUME NEW kind \in AllKinds, x = [Idle EXCEPT !.pc = First(kind), !.kind = kind]
          PROVE  AnswerHolds(x, ops)
      BY <3>1, AskedIs DEF AnswerHolds, Agrees
    <3>2. ASSUME x.kind = "epoch",
                 \/ ListEpochsStep(c, x) \/ Looks(c, x)
                 \/ \E e \in client[c].epochs :
                       x = [client[c] EXCEPT !.pc = "detail", !.want = e, !.epochs = {}]
          PROVE  AnswerHolds(x, ops)
      <4>1. \/ x.ops = {} /\ x.verdicts = {}
            \/ x.ops = client[c].ops /\ x.verdicts = client[c].verdicts
        <5>1. Idle.ops = {} /\ Idle.verdicts = {}
          BY DEF Idle
        <5>. QED BY <3>2, <5>1, EpochKeeps DEF TypeInv
      <4>2. x.kind \notin Exports /\ x.kind # "verdict" /\ x.kind # "cost"
        BY <3>2 DEF Exports
      <4>. QED BY <2>2, <4>1, <4>2 DEF AnswerHolds, Agrees
    <3>3. ASSUME CutsPage(c, x) PROVE AnswerHolds(x, ops)
      <4>1. x.ops = client[c].ops /\ x.verdicts = client[c].verdicts
        BY <3>3 DEF CutsPage
      <4>2. x.kind \notin Exports /\ x.kind # "verdict" /\ x.kind # "cost"
        BY <3>3 DEF CutsPage, Paged, Exports
      <4>. QED BY <2>2, <4>1, <4>2 DEF AnswerHolds, Agrees
    <3>. QED BY <1>3, <3>1, <3>2, <3>3, ReadsAgree DEF ClientMove
  <2>. QED BY <2>1, <2>3 DEF AnswerInv
<1>. QED BY <1>2, <1>3, ActorCases DEF TypeInv, SchedulerMove

LEMMA AnswerInvariant == Spec => []AnswerInv
<1>1. Init => AnswerInv
  BY DEF Init, AnswerInv, AnswerHolds, Agrees, Idle
<1>2. TypeInv /\ AnswerInv /\ [Next]_vars => AnswerInv'
  BY NextAnswers
<1>. QED BY <1>1, <1>2, TypeInvariant, PTL DEF Spec

\* An export, a provenance, a verdict's detail and the cost of a run agree with
\* themselves (AnswersAgree), whatever commits between their two reads: reads.py
\* reads first the table whose rows then have their partners in the other.
THEOREM AnswersAreConsistent == Spec => []AnswersAgree
<1>1. AnswerInv => AnswersAgree
  <2>1. SUFFICES ASSUME AnswerInv, NEW c \in Client, At(c, "done")
                 PROVE  LET gates == {v.op : v \in {w \in client[c].verdicts : ~w.late}}
                        IN  CASE client[c].kind \in {"export", "provenance"} ->
                                   Decided \cap client[c].ops \subseteq gates
                              [] client[c].kind = "verdict" ->
                                   \A v \in client[c].verdicts : v.op \in client[c].ops
                              [] client[c].kind = "cost" -> client[c].log = gates
                              [] OTHER -> TRUE
    BY DEF AnswersAgree
  <2>2. Agrees(client[c]) /\ client[c].pc = "done"
    BY <2>1 DEF AnswerInv, AnswerHolds, At
  <2>3. /\ client[c].kind \in {"export", "provenance"} =>
              Decided \cap client[c].ops \subseteq Gates(client[c].verdicts)
        /\ client[c].kind = "verdict" => \A v \in client[c].verdicts : v.op \in client[c].ops
        /\ client[c].kind = "cost" => client[c].log = Gates(client[c].verdicts)
    BY <2>2 DEF Agrees, Exports
  <2>. QED BY <2>3 DEF Gates
<1>. QED BY <1>1, AnswerInvariant, PTL

-----------------------------------------------------------------------------
\* New rows of a view come under new ids, so what a client found on its first page
\* goes on to be a row, or not, but never comes back.
Ids == ops \cup {v.id : v \in verdicts}

LEMMA RowIds ==
    ASSUME TablesInv, NEW kind \in Paged, NEW r \in RowsOf(kind)
    PROVE  r.id \in Ids
BY DEF RowsOf, Paged, AuditRows, TimelineRows, IncidentRows, Ids

RowsGo == /\ Ids \subseteq Ids'
          /\ \A kind \in Paged : \A r \in RowsOf(kind)' : r \in RowsOf(kind) \/ r.id \notin Ids

\* Rows of views, as the operations and verdicts they are made from.
LEMMA RowsAre ==
    ASSUME NEW kind \in Paged, NEW r
    PROVE  /\ r \in RowsOf("audit") <=> \E o \in ops : r = [at |-> stamp[o], id |-> o]
           /\ r \in RowsOf("timeline") <=> \E v \in verdicts : r = [at |-> v.at, id |-> v.id]
           /\ r \in RowsOf("incidents") <=>
                 \E v \in verdicts : Pending(v) /\ r = [at |-> v.at, id |-> v.id]
           /\ r \in RowsOf("audit")' <=> \E o \in ops' : r = [at |-> stamp'[o], id |-> o]
           /\ r \in RowsOf("timeline")' <=> \E v \in verdicts' : r = [at |-> v.at, id |-> v.id]
           /\ r \in RowsOf("incidents")' <=>
                 \E v \in verdicts' : Pending(v) /\ r = [at |-> v.at, id |-> v.id]
BY DEF RowsOf, AuditRows, TimelineRows, IncidentRows, Pending

LEMMA SameRows ==
    ASSUME UNCHANGED <<ops, verdicts>>, \A o \in ops : stamp'[o] = stamp[o]
    PROVE  RowsGo
<1>1. Ids' = Ids
  BY DEF Ids
<1>2. ASSUME NEW kind \in Paged, NEW r \in RowsOf(kind)' PROVE r \in RowsOf(kind)
  BY <1>2, RowsAre DEF Paged
<1>. QED BY <1>1, <1>2 DEF RowsGo

LEMMA NewRows ==
    ASSUME TablesInv, NEW n, n \notin Ids, ops \subseteq ops', ops' \subseteq ops \cup {n},
           NEW w, w.id = n, verdicts \subseteq verdicts', verdicts' \subseteq verdicts \cup {w},
           UNCHANGED stamp
    PROVE  RowsGo
<1>1. Ids \subseteq Ids'
  BY DEF Ids
<1>2. ASSUME NEW kind \in Paged, NEW r \in RowsOf(kind)', r \notin RowsOf(kind)
      PROVE  r.id = n
  <2>1. CASE kind = "audit"
    BY <1>2, <2>1, RowsAre
  <2>2. CASE kind = "timeline"
    BY <1>2, <2>2, RowsAre
  <2>3. CASE kind = "incidents"
    BY <1>2, <2>3, RowsAre
  <2>. QED BY <2>1, <2>2, <2>3 DEF Paged
<1>. QED BY <1>1, <1>2 DEF RowsGo

LEMMA CommitRows ==
    ASSUME TablesInv, NEW o \in Op, Commit(o)
    PROVE  RowsGo
<1> DEFINE w == VerdictRow(o, o, stamp[o], FALSE)
<1>1. /\ o \notin ops /\ ops' = ops \cup {o} /\ UNCHANGED stamp
      /\ verdicts' = verdicts \cup {VerdictRow(g, g, stamp[g], FALSE) : g \in {o} \cap Decided}
  BY DEF Commit
<1>2. verdicts \subseteq verdicts' /\ verdicts' \subseteq verdicts \cup {w}
  BY <1>1
<1>3. w.id = o
  BY DEF VerdictRow
<1>4. o \notin Ids
  BY <1>1, LateIdApart DEF Ids, TablesInv, TablesTyped, VerdictsMatch
<1> HIDE DEF w
<1>. QED BY <1>1, <1>2, <1>3, <1>4, NewRows

LEMMA PublishRows ==
    ASSUME TablesInv, NEW o \in Op, PublishLate(o)
    PROVE  RowsGo
<1> DEFINE w == VerdictRow(LateId(o), o, clock, TRUE)
<1>1. /\ ~\E v \in verdicts : v.op = o
      /\ verdicts' = verdicts \cup {w} /\ UNCHANGED <<stamp, ops>>
  BY DEF PublishLate
<1>2. w.id = LateId(o)
  BY DEF VerdictRow
<1> HIDE DEF w
<1>3. LateId(o) \notin Ids
  <2>1. /\ ops \subseteq Op
        /\ \A v \in verdicts : v.op \in Op /\ v.id = IF v.late THEN LateId(v.op) ELSE v.op
    BY DEF TablesInv, TablesTyped, VerdictsMatch
  <2>2. ASSUME NEW v \in verdicts, v.late, v.id = LateId(o) PROVE FALSE
    <3>1. v.op = o
      BY <2>1, <2>2, LateIdApart
    <3>. QED BY <1>1, <2>2, <3>1
  <2>. QED BY <2>1, <2>2, LateIdApart DEF Ids
<1>. QED BY <1>1, <1>2, <1>3, NewRows

LEMMA ResolveRows ==
    ASSUME TablesInv, NEW v \in verdicts, Resolve(v)
    PROVE  RowsGo
<1>1. PICK w \in VerdictRows :
              /\ verdicts' = (verdicts \ {v}) \cup {w}
              /\ w.id = v.id /\ w.op = v.op /\ w.at = v.at /\ w.late = v.late /\ w.resolved
  BY ResolveRow
<1>2. UNCHANGED <<stamp, ops>>
  BY DEF Resolve
<1>3. Ids \subseteq Ids'
  BY <1>1, <1>2 DEF Ids
<1>4. ~Pending(w)
  BY <1>1 DEF Pending
<1>5. ASSUME NEW kind \in Paged, NEW r \in RowsOf(kind)' PROVE r \in RowsOf(kind)
  <2>1. CASE kind = "audit"
    BY <1>2, <1>5, <2>1, RowsAre
  <2>2. CASE kind = "timeline"
    BY <1>1, <1>5, <2>2, RowsAre
  <2>3. CASE kind = "incidents"
    BY <1>1, <1>4, <1>5, <2>3, RowsAre
  <2>. QED BY <1>5, <2>1, <2>2, <2>3 DEF Paged
<1>. QED BY <1>3, <1>5 DEF RowsGo

LEMMA NextRows ==
    ASSUME TablesInv, [Next]_vars
    PROVE  RowsGo
<1>1. CASE UNCHANGED tableVars
  BY <1>1, SameRows DEF tableVars
<1>2. CASE TableStep
  <2>1. CASE Tick
    BY <2>1, SameRows DEF Tick
  <2>2. ASSUME NEW o \in Op, Receive(o) PROVE RowsGo
    <3>1. /\ stamp' = [stamp EXCEPT ![o] = clock] /\ stamp[o] = 0
          /\ UNCHANGED <<ops, verdicts>>
      BY <2>2 DEF Receive
    <3>2. \A p \in ops : stamp'[p] = stamp[p]
      BY <3>1 DEF TablesInv, TablesTyped
    <3>. QED BY <3>1, <3>2, SameRows
  <2>. QED BY <1>2, <2>1, <2>2, CommitRows, PublishRows, ResolveRows DEF TableStep
<1>. QED BY <1>1, <1>2, StepCases DEF vars

-----------------------------------------------------------------------------
\* The rows a client has are in order, and of the rows of its first page that are
\* rows still each is on its pages or behind the cursor.
Descends(got) == \A i, j \in 1..Len(got) : i < j => Older(got[j], got[i])

Paging(x, r) == x.pc = "page" /\ x.got # <<>> /\ Older(r, x.got[Len(x.got)])

Listed(got, r) == \E i \in 1..Len(got) : got[i] = r

Complete(x, rows) == \A r \in x.base \cap rows : Listed(x.got, r) \/ Paging(x, r)

PagesHold(x) ==
    /\ Descends(x.got)
    /\ x.kind \in Paged => \A r \in x.base : r.id \in Ids
    /\ \A kind \in Paged : x.kind = kind => Complete(x, RowsOf(kind))

PagesInv == \A c \in Client : PagesHold(client[c])

LEMMA OlderChain ==
    ASSUME NEW q \in Rows, NEW r \in Rows, NEW s \in Rows, Older(s, r), r = q \/ Older(r, q)
    PROVE  Older(s, q)
BY DEF Rows, Older

\* A page goes behind the rows a client has.
LEMMA PagesJoin ==
    ASSUME NEW rows \in SUBSET Rows, IsFiniteSet(rows), NEW got \in Seq(Rows), Descends(got),
           \A r \in rows : got = <<>> \/ Older(r, got[Len(got)])
    PROVE  /\ Descends(got \o PageOf(rows))
           /\ \A r \in rows :
                 \/ Listed(got \o PageOf(rows), r)
                 \/ /\ Cardinality(rows) > PageSize
                    /\ got \o PageOf(rows) # <<>>
                    /\ Older(r, (got \o PageOf(rows))[Len(got \o PageOf(rows))])
<1> DEFINE page == PageOf(rows)
<1>1. /\ page \in Seq(rows)
      /\ Cardinality(rows) > PageSize => Len(page) >= 1
      /\ \A i, j \in 1..Len(page) : i < j => Older(page[j], page[i])
      /\ \A r \in rows :
            \/ \E i \in 1..Len(page) : page[i] = r
            \/ Cardinality(rows) > PageSize /\ Older(r, page[Len(page)])
  BY PageExact
<1> HIDE DEF page
<1> DEFINE n == Len(got)
<1> DEFINE m == Len(page)
<1> DEFINE all == got \o page
<1>2. /\ page \in Seq(Rows)
      /\ n \in Nat /\ m \in Nat /\ Len(all) = n + m
      /\ \A i \in 1..(n + m) : all[i] = IF i <= n THEN got[i] ELSE page[i - n]
      /\ \A i \in 1..n : got[i] \in Rows
      /\ \A i \in 1..m : page[i] \in rows /\ page[i] \in Rows
  BY <1>1
<1>3. got = <<>> <=> n = 0
  OBVIOUS
<1> HIDE DEF n, m, all
<1>4. \A i \in 1..n : \A j \in 1..m : Older(page[j], got[i])
  <2>1. SUFFICES ASSUME NEW i \in 1..n, NEW j \in 1..m PROVE Older(page[j], got[i])
    OBVIOUS
  <2>2. n \in 1..n /\ Older(page[j], got[n])
    BY <1>2, <1>3, <2>1 DEF n
  <2>3. got[n] = got[i] \/ Older(got[n], got[i])
    BY <1>2, <2>1, <2>2 DEF Descends, n
  <2>. QED BY <1>2, <2>1, <2>2, <2>3, OlderChain
<1>5. ASSUME NEW i \in 1..(n + m), NEW j \in 1..(n + m), i < j
      PROVE  Older(all[j], all[i])
  <2>1. CASE j <= n
    <3>1. i \in 1..n /\ j \in 1..n
      BY <1>2, <1>5, <2>1
    <3>. QED BY <1>2, <1>5, <2>1, <3>1 DEF Descends, n
  <2>2. CASE i <= n /\ ~(j <= n)
    <3>1. i \in 1..n /\ j - n \in 1..m
      BY <1>2, <1>5, <2>2
    <3>. QED BY <1>2, <1>4, <2>2, <3>1
  <2>3. CASE ~(i <= n)
    <3>1. i - n \in 1..m /\ j - n \in 1..m /\ i - n < j - n /\ ~(j <= n)
      BY <1>2, <1>5, <2>3
    <3>. QED BY <1>1, <1>2, <2>3, <3>1 DEF m
  <2>. QED BY <1>2, <1>5, <2>1, <2>2, <2>3
<1>6. Descends(all)
  BY <1>2, <1>5 DEF Descends
<1>7. ASSUME NEW r \in rows, NEW i \in 1..m, page[i] = r PROVE Listed(all, r)
  <2>1. n + i \in 1..(n + m) /\ ~(n + i <= n) /\ (n + i) - n = i
    BY <1>2, <1>7
  <2>2. all[n + i] = r
    BY <1>2, <1>7, <2>1
  <2>. QED BY <1>2, <2>1, <2>2 DEF Listed
<1>8. ASSUME NEW r \in rows, Cardinality(rows) > PageSize, Older(r, page[m])
      PROVE  all # <<>> /\ Older(r, all[Len(all)])
  <2>1. m >= 1
    BY <1>1, <1>8 DEF m
  <2>2. n + m \in 1..(n + m) /\ ~(n + m <= n) /\ (n + m) - n = m
    BY <1>2, <2>1
  <2>3. all[Len(all)] = page[m]
    BY <1>2, <2>2
  <2>4. Len(all) # 0
    BY <1>2, <2>2
  <2>. QED BY <1>8, <2>3, <2>4
<1>9. \A r \in rows :
         \/ \E i \in 1..m : page[i] = r
         \/ Cardinality(rows) > PageSize /\ Older(r, page[m])
  BY <1>1 DEF m
<1>10. \A r \in rows :
          \/ Listed(all, r)
          \/ Cardinality(rows) > PageSize /\ all # <<>> /\ Older(r, all[Len(all)])
  BY <1>7, <1>8, <1>9
<1>. QED BY <1>6, <1>10 DEF all, page

LEMMA ListedStays ==
    ASSUME NEW got \in Seq(Rows), NEW page \in Seq(Rows), NEW r, Listed(got, r)
    PROVE  Listed(got \o page, r)
<1>1. PICK i \in 1..Len(got) : got[i] = r
  BY DEF Listed
<1>2. i \in 1..Len(got \o page) /\ (got \o page)[i] = got[i]
  OBVIOUS
<1>. QED BY <1>1, <1>2 DEF Listed

LEMMA CutHolds ==
    ASSUME TypeInv, PagesInv, NEW c \in Client, NEW x, CutsPage(c, x)
    PROVE  PagesHold(x)
<1> DEFINE y == client[c]
<1> DEFINE rows == RowsOf(y.kind)
<1> DEFINE rest == Behind(rows, y.got)
<1>1. /\ y.kind \in Paged /\ y.pc = "page" /\ x.kind = y.kind
      /\ x.pc = IF Cardinality(rest) > PageSize THEN "page" ELSE "done"
      /\ x.base = IF y.got = <<>> THEN rows ELSE y.base
      /\ x.got = y.got \o PageOf(rest)
  BY Zenon DEF CutsPage
<1>2. /\ y.got \in Seq(Rows) /\ Descends(y.got)
      /\ \A r \in y.base : r.id \in Ids
      /\ Complete(y, rows)
  BY <1>1 DEF TypeInv, ActorsTyped, Readers, PagesInv, PagesHold
<1>3. /\ rest \in SUBSET Rows /\ IsFiniteSet(rest) /\ rest \subseteq rows
      /\ \A r \in rows : r.id \in Ids
  BY <1>1, RestTyped, RowIds DEF TypeInv
<1> HIDE DEF rows, y
<1>4. \A r \in rows : r \in rest <=> y.got = <<>> \/ Older(r, y.got[Len(y.got)])
  BY DEF Behind, Last
<1> HIDE DEF rest
<1>5. /\ Descends(x.got)
      /\ \A r \in rest :
            \/ Listed(x.got, r)
            \/ /\ Cardinality(rest) > PageSize /\ x.got # <<>>
               /\ Older(r, x.got[Len(x.got)])
  <2>1. \A r \in rest : y.got = <<>> \/ Older(r, y.got[Len(y.got)])
    BY <1>3, <1>4
  <2>. QED BY <1>1, <1>2, <1>3, <2>1, PagesJoin
<1>6. PageOf(rest) \in Seq(Rows)
  <2>1. PageOf(rest) \in Seq(rest)
    BY <1>3, PageExact
  <2>. QED BY <1>3, <2>1
<1>7. ASSUME NEW r \in x.base \cap rows PROVE Listed(x.got, r) \/ Paging(x, r)
  <2>1. CASE r \in rest
    BY <1>1, <1>5, <2>1 DEF Paging
  <2>2. CASE r \notin rest
    <3>1. y.got # <<>> /\ r \in y.base /\ ~Paging(y, r)
      BY <1>1, <1>4, <1>7, <2>2 DEF Paging
    <3>2. Listed(y.got, r)
      BY <1>2, <1>7, <3>1 DEF Complete
    <3>. QED BY <1>1, <1>2, <1>6, <3>2, ListedStays
  <2>. QED BY <2>1, <2>2
<1>8. Complete(x, rows)
  BY <1>7 DEF Complete
<1>9. \A r \in x.base : r.id \in Ids
  BY <1>1, <1>2, <1>3
<1>. QED BY <1>1, <1>5, <1>8, <1>9 DEF PagesHold, rows

\* What a step leaves a client goes on to hold while rows come and go.
LEMMA PagesStay ==
    ASSUME TypeInv, [Next]_vars, NEW x, PagesHold(x)
    PROVE  /\ Descends(x.got)
           /\ x.kind \in Paged => \A r \in x.base : r.id \in Ids'
           /\ \A kind \in Paged : x.kind = kind => Complete(x, RowsOf(kind)')
<1>1. /\ Ids \subseteq Ids'
      /\ \A kind \in Paged : \A r \in RowsOf(kind)' : r \in RowsOf(kind) \/ r.id \notin Ids
  BY NextRows DEF TypeInv, RowsGo
<1>2. ASSUME NEW kind \in Paged, x.kind = kind PROVE Complete(x, RowsOf(kind)')
  <2> DEFINE new == RowsOf(kind)'
  <2>1. \A r \in new : r \in RowsOf(kind) \/ r.id \notin Ids
    BY <1>1
  <2> HIDE DEF new
  <2>2. x.base \cap new \subseteq x.base \cap RowsOf(kind)
    BY <1>2, <2>1 DEF PagesHold
  <2>3. Complete(x, RowsOf(kind))
    BY <1>2 DEF PagesHold
  <2>4. Complete(x, new)
    BY <2>2, <2>3 DEF Complete
  <2>. QED BY <2>4 DEF new
<1>. QED BY <1>1, <1>2 DEF PagesHold

LEMMA NextPages ==
    ASSUME TypeInv, PagesInv, [Next]_vars
    PROVE  PagesInv'
<1>1. ASSUME NEW c \in Client, PagesHold(client'[c]) PROVE PagesHold(client[c])'
  BY <1>1, PagesStay DEF PagesHold
<1>2. ASSUME UNCHANGED client PROVE PagesInv'
  BY <1>1, <1>2 DEF PagesInv
<1>3. ASSUME NEW c \in Client, NEW x, ClientMove(c, x) PROVE PagesInv'
  <2>1. client'[c] = x /\ \A d \in Client : d # c => client'[d] = client[d]
    BY <1>3 DEF ClientMove, Becomes, TypeInv, ActorsTyped
  <2>2. Descends(client[c].got)
    BY DEF PagesInv, PagesHold
  <2>3. ASSUME NEW kind \in AllKinds, x = [Idle EXCEPT !.pc = First(kind), !.kind = kind]
        PROVE  PagesHold(x)
    <3>1. x.base = {} /\ x.got = <<>>
      BY <2>3, AskedIs
    <3>. QED BY <3>1 DEF PagesHold, Descends, Complete
  <2>4. ASSUME x.kind \notin Paged, x.got = client[c].got \/ x.got = <<>>
        PROVE  PagesHold(x)
    <3>1. Descends(x.got)
      BY <2>2, <2>4 DEF Descends
    <3>. QED BY <2>4, <3>1 DEF PagesHold
  <2>5. ASSUME ReadsOne(c, x) PROVE PagesHold(x)
    <3>1. client[c] \in Readers
      BY DEF TypeInv, ActorsTyped
    <3>2. x.got = client[c].got /\ x.kind \in Exports \cup {"verdict", "cost"}
      BY <2>5, <3>1, ReadKeeps DEF TypeInv
    <3>3. x.kind \notin Paged
      BY <3>2 DEF Exports, Paged
    <3>. QED BY <2>4, <3>2, <3>3
  <2>6. ASSUME x.kind = "epoch",
               \/ ListEpochsStep(c, x) \/ Looks(c, x)
               \/ \E e \in client[c].epochs :
                     x = [client[c] EXCEPT !.pc = "detail", !.want = e, !.epochs = {}]
        PROVE  PagesHold(x)
    <3>1. x.got = client[c].got \/ x.got = <<>>
      <4>1. Idle.got = <<>>
        BY DEF Idle
      <4>. QED BY <2>6, <4>1, EpochKeeps DEF TypeInv
    <3>2. x.kind \notin Paged
      BY <2>6 DEF Paged
    <3>. QED BY <2>4, <3>1, <3>2
  <2>7. PagesHold(x)
    BY <1>3, <2>3, <2>5, <2>6, CutHolds DEF ClientMove
  <2>. QED BY <1>1, <2>1, <2>7 DEF PagesInv
<1>. QED BY <1>2, <1>3, ActorCases DEF TypeInv, SchedulerMove

LEMMA PagesInvariant == Spec => []PagesInv
<1>1. Init => PagesInv
  BY DEF Init, PagesInv, PagesHold, Descends, Complete, Idle, Paged
<1>2. TypeInv /\ PagesInv /\ [Next]_vars => PagesInv'
  BY NextPages
<1>. QED BY <1>1, <1>2, TypeInvariant, PTL DEF Spec

\* Who follows the cursors from the first page to the last has seen, in order and
\* once each, all rows that were there from the first page on (PagesExact): a new
\* row never makes the cursor of audit.py or reads.py skip one or repeat one.
THEOREM PagesAreExact == Spec => []PagesExact
<1>1. TypeInv /\ PagesInv => PagesExact
  <2>1. SUFFICES ASSUME TypeInv, PagesInv, NEW c \in Client
                 PROVE  /\ \A i, j \in DOMAIN client[c].got :
                              i < j => Older(client[c].got[j], client[c].got[i])
                        /\ At(c, "done") /\ client[c].kind \in Paged =>
                              client[c].base \cap RowsOf(client[c].kind) \subseteq
                                 {client[c].got[i] : i \in DOMAIN client[c].got}
    BY Zenon DEF PagesExact
  <2>2. /\ client[c].got \in Seq(Rows) /\ PagesHold(client[c])
    BY <2>1 DEF TypeInv, ActorsTyped, Readers, PagesInv
  <2>3. DOMAIN client[c].got = 1..Len(client[c].got)
    BY <2>2
  <2>4. ASSUME At(c, "done"), client[c].kind \in Paged
        PROVE  \A r \in client[c].base \cap RowsOf(client[c].kind) : Listed(client[c].got, r)
    BY <2>2, <2>4 DEF PagesHold, Complete, Paging, At
  <2>. QED BY <2>2, <2>3, <2>4 DEF PagesHold, Descends, Listed
<1>. QED BY <1>1, TypeInvariant, PagesInvariant, PTL

\* The types hold, and a scheduler that is about to insert the row of an epoch has
\* put its artifact (TypeOK; epoch_scheduler.py puts before it inserts).
THEOREM EvidenceTypeCorrect == Spec => []TypeOK
<1>1. TypeInv /\ BackedInv => TypeOK
  <2>1. SUFFICES ASSUME TypeInv, BackedInv PROVE TypeOK
    OBVIOUS
  <2>2. /\ clock \in Nat /\ stamp \in [Op -> Nat]
        /\ ops \subseteq {o \in Op : stamp[o] # 0}
        /\ \A v \in verdicts : v.op \in ops /\ v.id = IF v.late THEN LateId(v.op) ELSE v.op
        /\ log \subseteq ops
    BY <2>1 DEF TypeInv, TablesInv, TablesTyped, VerdictsMatch
  <2>3. /\ \A s \in Scheduler :
              /\ sched[s].pc \in {"idle", "check", "put", "insert", "down"}
              /\ sched[s].pc = "insert" => sched[s].epoch \in artifacts
        /\ timer \in BOOLEAN /\ deaths \in Nat
    BY <2>1 DEF TypeInv, ActorsTyped, Runs, BackedInv, SchedulerHolds
  <2>4. \A c \in Client : client[c].pc \in Steps /\ client[c].kind \in AllKinds
    BY <2>1 DEF TypeInv, ActorsTyped, Readers
  <2>. QED BY <2>2, <2>3, <2>4 DEF TypeOK
<1>. QED BY <1>1, TypeInvariant, BackedInvariant, PTL
=============================================================================
