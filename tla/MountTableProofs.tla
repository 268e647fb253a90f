-------------------------- MODULE MountTableProofs --------------------------
(***************************************************************************)
(* What the operations of MountTable do to a table, for every table.       *)
(***************************************************************************)
EXTENDS MountTable, FiniteSetTheorems, WellFoundedInduction, TLAPS

CONSTANTS
    Segment,   \* the names that a path consists of
    FsType     \* the file systems

Path == Seq(Segment)
Entry == [at : Path, fs : FsType, shared : BOOLEAN]

\* A table has the root file system first.
Table == {t \in Seq(Entry) : Len(t) > 0 /\ t[1].at = Root}

Uncovered(t) == \A i \in DOMAIN t : ~Covered(t, i)

\* The mount that a lookup of p ends in.
Top(t, p) == t[Lookup(t, p)]

-----------------------------------------------------------------------------
(* Numbers.                                                                *)

LEMMA LeastNumber ==
    ASSUME NEW T \in SUBSET Nat, T # {}
    PROVE  \E m \in T : \A k \in T : m <= k
<1>1. PICK m \in T : \A k \in T : <<k, m>> \notin OpToRel(<, Nat)
  BY WFMin, NatLessThanWellFounded, Zenon
<1>2. \A k \in T : ~(k < m)
  BY <1>1, Zenon DEF OpToRel
<1> QED
  BY <1>2

LEMMA GreatestNumber ==
    ASSUME NEW n \in Nat, NEW S \in SUBSET (1..n), S # {}
    PROVE  Max(S) \in S /\ \A x \in S : x <= Max(S)
<1> DEFINE T == {k \in Nat : n - k \in S}
<1>1. PICK s \in S : TRUE
  OBVIOUS
<1>2. n - s \in T
  OBVIOUS
<1>3. PICK m \in T : \A k \in T : m <= k
  BY <1>2, LeastNumber
<1>4. n - m \in S
  OBVIOUS
<1>5. \A y \in S : n - m >= y
  <2>1. TAKE y \in S
  <2>2. n - y \in T /\ m <= n - y /\ m \in Nat /\ y \in Nat
    BY <1>3
  <2> QED
    BY <2>2
<1> QED
  BY <1>4, <1>5 DEF Max

-----------------------------------------------------------------------------
(* The mounts of a table whose places are in S.                            *)

LEMMA RankFacts ==
    ASSUME NEW n \in Nat, NEW S \in SUBSET (1..n)
    PROVE  /\ Cardinality(S) \in Nat
           /\ \A i \in 0..n : Rank(S, i) \in Nat
           /\ Rank(S, 0) = 0 /\ Rank(S, n) = Cardinality(S)
           /\ \A i \in 1..n : Rank(S, i) = IF i \in S THEN Rank(S, i - 1) + 1 ELSE Rank(S, i - 1)
           /\ \A i, j \in 0..n : i < j /\ j \in S => Rank(S, i) < Rank(S, j)
           /\ \A i \in 0..n : Rank(S, i) <= Cardinality(S)
<1> DEFINE Upto(i) == {j \in S : j <= i}
<1>0. \A s \in S : s \in Int /\ 0 < s /\ s <= n
  OBVIOUS
<1>1. IsFiniteSet(S)
  <2>1. IsFiniteSet(1..n)
    BY FS_Interval
  <2> QED
    BY <2>1, FS_Subset
<1>2. \A i \in 0..n : IsFiniteSet(Upto(i)) /\ Rank(S, i) = Cardinality(Upto(i))
  BY <1>1, FS_Subset DEF Rank
<1>3. Cardinality(S) \in Nat /\ \A i \in 0..n : Rank(S, i) \in Nat
  BY <1>1, <1>2, FS_CardinalityType
<1>4. Rank(S, 0) = 0
  <2>1. \A s \in S : ~(s <= 0)
    BY <1>0
  <2>2. Upto(0) = {}
    BY <2>1
  <2> QED
    BY <1>2, <2>2, FS_EmptySet
<1>5. Rank(S, n) = Cardinality(S)
  <2>1. \A s \in S : s <= n
    BY <1>0
  <2>2. Upto(n) = S
    BY <2>1
  <2> QED
    BY <1>2, <2>2
<1>6. ASSUME NEW i \in 1..n
      PROVE  Rank(S, i) = IF i \in S THEN Rank(S, i - 1) + 1 ELSE Rank(S, i - 1)
  <2>1. CASE i \in S
    <3>1. Upto(i) = Upto(i - 1) \cup {i} /\ i \notin Upto(i - 1)
      <4>1. \A s \in S : s <= i <=> s <= i - 1 \/ s = i
        BY <1>0
      <4>2. ~(i <= i - 1) /\ i <= i
        OBVIOUS
      <4> QED
        BY <2>1, <4>1, <4>2
    <3>2. i - 1 \in 0..n /\ i \in 0..n
      OBVIOUS
    <3>3. IsFiniteSet(Upto(i - 1))
      BY <1>2, <3>2
    <3> HIDE DEF Upto
    <3>4. Cardinality(Upto(i)) = Cardinality(Upto(i - 1)) + 1
      BY <3>1, <3>3, FS_AddElement
    <3> QED
      BY <1>2, <2>1, <3>2, <3>4
  <2>2. CASE i \notin S
    <3>1. Upto(i) = Upto(i - 1)
      <4>1. \A s \in S : s <= i <=> s <= i - 1
        BY <1>0, <2>2
      <4> QED
        BY <4>1
    <3>2. i - 1 \in 0..n /\ i \in 0..n
      OBVIOUS
    <3> HIDE DEF Upto
    <3> QED
      BY <1>2, <2>2, <3>1, <3>2
  <2> QED
    BY <2>1, <2>2
<1>7. ASSUME NEW i \in 0..n, NEW j \in 0..n, i < j, j \in S
      PROVE  Rank(S, i) < Rank(S, j)
  <2>1. Upto(i) \in SUBSET Upto(j) /\ Upto(i) # Upto(j)
    <3>1. j \in Upto(j) /\ j \notin Upto(i)
      BY <1>0, <1>7
    <3>2. \A s \in S : s <= i => s <= j
      BY <1>0, <1>7
    <3> QED
      BY <3>1, <3>2
  <2> HIDE DEF Upto
  <2>2. Cardinality(Upto(i)) <= Cardinality(Upto(j)) /\ Cardinality(Upto(i)) # Cardinality(Upto(j))
    BY <1>2, <2>1, FS_Subset
  <2> QED
    BY <1>2, <1>3, <2>2
<1>8. \A i \in 0..n : Rank(S, i) <= Cardinality(S)
  BY <1>1, <1>2, FS_Subset
<1> QED
  BY <1>3, <1>4, <1>5, <1>6, <1>7, <1>8

LEMMA RankReached ==
    ASSUME NEW n \in Nat, NEW S \in SUBSET (1..n), NEW m \in 1..Cardinality(S)
    PROVE  \E i \in S : Rank(S, i) = m
<1> DEFINE T == {k \in 0..n : m <= Rank(S, k)}
<1>1. n \in T /\ T \in SUBSET Nat
  BY RankFacts
<1>2. PICK k \in T : \A i \in T : k <= i
  BY <1>1, LeastNumber
<1>3. k # 0
  BY RankFacts
<1>4. k - 1 \notin T /\ k - 1 \in 0..n /\ k \in 1..n
  BY <1>2, <1>3
<1>5. Rank(S, k - 1) < m /\ m <= Rank(S, k)
  BY <1>4, RankFacts
<1> HIDE DEF T
<1>6. /\ Rank(S, k) = IF k \in S THEN Rank(S, k - 1) + 1 ELSE Rank(S, k - 1)
      /\ Rank(S, k) \in Nat /\ Rank(S, k - 1) \in Nat /\ m \in Nat
  BY <1>4, RankFacts
<1>7. k \in S /\ Rank(S, k) = m
  <2> DEFINE a == Rank(S, k - 1)
             b == Rank(S, k)
  <2>1. a \in Nat /\ b \in Nat /\ m \in Nat /\ a < m /\ m <= b /\ (k \in S => b = a + 1) /\ (k \notin S => b = a)
    BY <1>5, <1>6
  <2> HIDE DEF a, b
  <2>2. k \in S /\ b = m
    BY <2>1
  <2> QED
    BY <2>2 DEF b
<1> QED
  BY <1>7

\* The mounts picked are those of S, and keep their order.
PickedBy(t, S, m, f) ==
    /\ m \in Nat /\ f \in [1..m -> S]
    /\ Picked(t, S) = [i \in 1..m |-> t[f[i]]]
    /\ \A i, j \in 1..m : i < j => f[i] < f[j]
    /\ \A s \in S : \E i \in 1..m : f[i] = s

LEMMA PickedFacts ==
    \A t : \A n \in Nat : \A S \in SUBSET (1..n) : \E m, f : PickedBy(t, S, m, f)
<1> TAKE t
<1> TAKE n \in Nat
<1> TAKE S \in SUBSET (1..n)
<1> DEFINE m == Cardinality(S)
           place(r) == CHOOSE i \in S : Rank(S, i) = r
           f == [r \in 1..m |-> place(r)]
<1>1. m \in Nat
  BY RankFacts
<1>2. \A r \in 1..m : place(r) \in S /\ Rank(S, place(r)) = r
  BY RankReached
<1>3. f \in [1..m -> S]
  BY <1>2
<1>4. Picked(t, S) = [i \in 1..m |-> t[f[i]]]
  BY DEF Picked
<1>5. ASSUME NEW i \in 1..m, NEW j \in 1..m, i < j
      PROVE  f[i] < f[j]
  <2>1. f[i] \in S /\ f[j] \in S /\ Rank(S, f[i]) = i /\ Rank(S, f[j]) = j
    BY <1>2
  <2>2. f[i] \in 0..n /\ f[j] \in 0..n /\ f[i] \in Int /\ f[j] \in Int
    <3>1. \A s \in S : s \in 0..n /\ s \in Int
      OBVIOUS
    <3> HIDE DEF f, place
    <3> QED
      BY <2>1, <3>1
  <2> HIDE DEF f
  <2>3. ~(f[j] < f[i]) /\ f[i] # f[j]
    BY <1>5, <2>1, <2>2, RankFacts
  <2> QED
    BY <2>2, <2>3
<1>6. ASSUME NEW s \in S
      PROVE  \E i \in 1..m : f[i] = s
  <2>1. Rank(S, s) \in 1..m
    <3>1. s \in 1..n /\ s \in 0..n /\ s - 1 \in 0..n /\ n \in 0..n
      OBVIOUS
    <3>2. Rank(S, s) = Rank(S, s - 1) + 1 /\ Rank(S, s - 1) \in Nat
      BY <3>1, RankFacts
    <3>3. Rank(S, s) <= m
      BY <3>1, RankFacts
    <3> QED
      BY <3>1, <3>2, <3>3, RankFacts
  <2>2. place(Rank(S, s)) \in S /\ Rank(S, place(Rank(S, s))) = Rank(S, s)
    BY <1>2, <2>1
  <2>3. place(Rank(S, s)) = s
    <3> HIDE DEF place
    <3>1. place(Rank(S, s)) \in 1..n /\ s \in 1..n
      BY <2>2
    <3>2. ~(place(Rank(S, s)) < s) /\ ~(s < place(Rank(S, s)))
      BY <2>2, <3>1, RankFacts
    <3> QED
      BY <3>1, <3>2
  <2> QED
    BY <2>1, <2>3
<1> HIDE DEF m, f
<1>7. PickedBy(t, S, m, f)
  BY <1>1, <1>3, <1>4, <1>5, <1>6 DEF PickedBy
<1> QED
  BY <1>7

-----------------------------------------------------------------------------
(* Paths.                                                                  *)

LEMMA PathIs ==
    /\ \A a \in Path : Len(a) \in Nat
    /\ \A a, b \in Path : Len(a) = Len(b) /\ (\A i \in 1..Len(a) : a[i] = b[i]) => a = b
    /\ Root \in Path /\ Len(Root) = 0
BY DEF Path, Root

LEMMA PrefixElements ==
    \A a, b \in Path : IsPrefix(a, b) <=> Len(a) <= Len(b) /\ \A i \in 1..Len(a) : a[i] = b[i]
BY DEF IsPrefix, Path

LEMMA PathFacts ==
    \A a \in Path : /\ IsPrefix(Root, a) /\ IsPrefix(a, a)
                    /\ IsPrefix(a, Root) => a = Root
<1> TAKE a \in Path
<1>1. Len(a) \in Nat /\ Len(Root) = 0 /\ Root \in Path
  BY PathIs
<1>2. IsPrefix(Root, a) /\ IsPrefix(a, a)
  BY <1>1, PrefixElements
<1>3. ASSUME IsPrefix(a, Root)
      PROVE  a = Root
  <2>1. Len(a) = 0
    BY <1>1, <1>3, PrefixElements
  <2> QED
    BY <1>1, <2>1, PathIs
<1> QED
  BY <1>2, <1>3

LEMMA PrefixTransitive ==
    \A a, b, c \in Path : IsPrefix(a, b) /\ IsPrefix(b, c) => IsPrefix(a, c)
BY PrefixElements, PathIs

LEMMA PrefixAntisymmetric ==
    \A a, b \in Path : IsPrefix(a, b) /\ IsPrefix(b, a) => a = b
BY PrefixElements, PathIs

\* The directories above a path form a chain.
LEMMA PrefixesCompare ==
    \A a, b, c \in Path : IsPrefix(a, c) /\ IsPrefix(b, c) => IsPrefix(a, b) \/ IsPrefix(b, a)
BY PrefixElements, PathIs

LEMMA ConcatFacts ==
    \A a, b \in Path : /\ a \o b \in Path /\ Len(a \o b) = Len(a) + Len(b)
                       /\ \A i \in 1..Len(a) : (a \o b)[i] = a[i]
                       /\ \A i \in 1..Len(b) : (a \o b)[Len(a) + i] = b[i]
BY DEF Path

LEMMA ConcatPrefix ==
    \A a, b \in Path : a \o b \in Path /\ IsPrefix(a, a \o b)
<1> TAKE a, b \in Path
<1>1. /\ a \o b \in Path /\ Len(a \o b) = Len(a) + Len(b)
      /\ \A i \in 1..Len(a) : (a \o b)[i] = a[i]
  BY ConcatFacts
<1> DEFINE c == a \o b
<1> HIDE DEF c
<1>2. c \in Path /\ Len(a) <= Len(c) /\ \A i \in 1..Len(a) : a[i] = c[i]
  <2>1. Len(a) \in Nat /\ Len(b) \in Nat
    BY PathIs
  <2> QED
    BY <1>1, <2>1 DEF c
<1>3. IsPrefix(a, c)
  BY <1>2, PrefixElements
<1> QED
  BY <1>2, <1>3 DEF c

LEMMA RebasedFacts ==
    ASSUME NEW from \in Path, NEW to \in Path, NEW m \in Entry, IsPrefix(from, m.at)
    PROVE  /\ Rebased(m, from, to) \in Entry
           /\ Rebased(m, from, to).fs = m.fs /\ Rebased(m, from, to).shared = m.shared
           /\ Len(Rebased(m, from, to).at) = Len(to) + (Len(m.at) - Len(from))
           /\ \A i \in 1..Len(to) : Rebased(m, from, to).at[i] = to[i]
           /\ \A i \in 1..(Len(m.at) - Len(from)) : Rebased(m, from, to).at[Len(to) + i] = m.at[Len(from) + i]
<1>1. m.at \in Path /\ Len(from) <= Len(m.at) /\ Len(from) \in Nat /\ Len(m.at) \in Nat /\ Len(to) \in Nat
  BY PrefixElements, PathIs DEF Entry
<1> DEFINE rest == SubSeq(m.at, Len(from) + 1, Len(m.at))
<1>2. /\ rest \in Path /\ Len(rest) = Len(m.at) - Len(from)
      /\ \A i \in 1..Len(rest) : rest[i] = m.at[Len(from) + i]
  BY <1>1 DEF Path
<1>3. Rebased(m, from, to) = [m EXCEPT !.at = to \o rest]
  BY DEF Rebased
<1> HIDE DEF rest
<1>4. to \o rest \in Path /\ Len(to \o rest) = Len(to) + Len(rest)
      /\ (\A i \in 1..Len(to) : (to \o rest)[i] = to[i])
      /\ (\A i \in 1..Len(rest) : (to \o rest)[Len(to) + i] = rest[i])
  BY <1>2, ConcatFacts
<1>5. /\ Rebased(m, from, to) \in Entry /\ Rebased(m, from, to).at = to \o rest
      /\ Rebased(m, from, to).fs = m.fs /\ Rebased(m, from, to).shared = m.shared
  BY <1>3, <1>4 DEF Entry
<1> QED
  BY <1>2, <1>4, <1>5

\* A tree keeps its form where it goes.
LEMMA RebasedPrefix ==
    ASSUME NEW from \in Path, NEW to \in Path,
           NEW m \in Entry, IsPrefix(from, m.at), NEW n \in Entry, IsPrefix(from, n.at)
    PROVE  /\ IsPrefix(to, Rebased(m, from, to).at)
           /\ m.at = from => Rebased(m, from, to).at = to
           /\ IsPrefix(Rebased(m, from, to).at, Rebased(n, from, to).at) <=> IsPrefix(m.at, n.at)
<1> DEFINE a == Rebased(m, from, to).at
           b == Rebased(n, from, to).at
<1>1. /\ a \in Path /\ b \in Path /\ m.at \in Path /\ n.at \in Path
      /\ Len(from) \in Nat /\ Len(to) \in Nat /\ Len(m.at) \in Nat /\ Len(n.at) \in Nat
      /\ Len(a) \in Nat /\ Len(b) \in Nat
  <2>1. a \in Path /\ b \in Path /\ m.at \in Path /\ n.at \in Path
    BY RebasedFacts DEF Entry
  <2> HIDE DEF a, b
  <2> QED
    BY <2>1, PathIs
<1>2. /\ Len(from) <= Len(m.at) /\ \A i \in 1..Len(from) : m.at[i] = from[i]
      /\ Len(from) <= Len(n.at) /\ \A i \in 1..Len(from) : n.at[i] = from[i]
  BY <1>1, PrefixElements
<1>3. /\ Len(a) = Len(to) + (Len(m.at) - Len(from))
      /\ \A i \in 1..Len(to) : a[i] = to[i]
      /\ \A i \in 1..(Len(m.at) - Len(from)) : a[Len(to) + i] = m.at[Len(from) + i]
  BY RebasedFacts, Zenon
<1>4. /\ Len(b) = Len(to) + (Len(n.at) - Len(from))
      /\ \A i \in 1..Len(to) : b[i] = to[i]
      /\ \A i \in 1..(Len(n.at) - Len(from)) : b[Len(to) + i] = n.at[Len(from) + i]
  BY RebasedFacts, Zenon
<1> HIDE DEF a, b
<1>5. IsPrefix(to, a)
  BY <1>1, <1>2, <1>3, PrefixElements
<1>6. ASSUME m.at = from
      PROVE  a = to
  <2>1. Len(a) = Len(to)
    BY <1>1, <1>3, <1>6
  <2> QED
    BY <1>1, <1>3, <2>1, PathIs
<1>7. ASSUME IsPrefix(m.at, n.at)
      PROVE  IsPrefix(a, b)
  <2>1. Len(m.at) <= Len(n.at) /\ \A i \in 1..Len(m.at) : m.at[i] = n.at[i]
    BY <1>1, <1>7, PrefixElements
  <2>2. ASSUME NEW i \in 1..Len(a)
        PROVE  a[i] = b[i]
    <3>1. CASE i <= Len(to)
      BY <1>1, <1>3, <1>4, <3>1
    <3>2. CASE ~(i <= Len(to))
      <4> DEFINE j == i - Len(to)
      <4>1. /\ j \in 1..(Len(m.at) - Len(from)) /\ j \in 1..(Len(n.at) - Len(from))
            /\ Len(from) + j \in 1..Len(m.at) /\ i = Len(to) + j
        BY <1>1, <1>2, <1>3, <2>1, <3>2
      <4> HIDE DEF j
      <4> QED
        BY <1>3, <1>4, <2>1, <4>1
    <3> QED
      BY <3>1, <3>2
  <2>3. Len(a) <= Len(b)
    BY <1>1, <1>3, <1>4, <2>1
  <2> QED
    BY <1>1, <2>2, <2>3, PrefixElements
<1>8. ASSUME IsPrefix(a, b)
      PROVE  IsPrefix(m.at, n.at)
  <2>1. Len(a) <= Len(b) /\ \A i \in 1..Len(a) : a[i] = b[i]
    BY <1>1, <1>8, PrefixElements
  <2>2. ASSUME NEW i \in 1..Len(m.at)
        PROVE  m.at[i] = n.at[i]
    <3>1. CASE i <= Len(from)
      BY <1>1, <1>2, <3>1
    <3>2. CASE ~(i <= Len(from))
      <4> DEFINE j == i - Len(from)
      <4>1. /\ j \in 1..(Len(m.at) - Len(from)) /\ j \in 1..(Len(n.at) - Len(from))
            /\ Len(to) + j \in 1..Len(a) /\ i = Len(from) + j
        BY <1>1, <1>2, <1>3, <1>4, <2>1, <3>2
      <4> HIDE DEF j
      <4> QED
        BY <1>3, <1>4, <2>1, <4>1
    <3> QED
      BY <3>1, <3>2
  <2>3. Len(m.at) <= Len(n.at)
    BY <1>1, <1>3, <1>4, <2>1
  <2> QED
    BY <1>1, <2>2, <2>3, PrefixElements
<1> QED
  BY <1>5, <1>6, <1>7, <1>8 DEF a, b

LEMMA RebasedAt ==
    \A from, to \in Path : \A m \in Entry : IsPrefix(from, m.at) =>
        /\ Len(Rebased(m, from, to).at) = Len(to) + (Len(m.at) - Len(from))
        /\ \A i \in 1..(Len(m.at) - Len(from)) : Rebased(m, from, to).at[Len(to) + i] = m.at[Len(from) + i]
BY RebasedFacts

LEMMA RebasedToRoot ==
    ASSUME NEW top \in Path, NEW r \in Path, NEW m \in Entry, m.at = top \o r
    PROVE  IsPrefix(top, m.at) /\ Rebased(m, top, Root).at = r
<1>1. IsPrefix(top, m.at) /\ m.at \in Path
  BY ConcatPrefix
<1>2. /\ Len(m.at) = Len(top) + Len(r)
      /\ \A i \in 1..Len(r) : m.at[Len(top) + i] = r[i]
  BY ConcatFacts
<1>3. Root \in Path /\ Len(Root) = 0 /\ Len(top) \in Nat /\ Len(r) \in Nat
  BY PathIs
<1> DEFINE a == Rebased(m, top, Root).at
<1>4. /\ a \in Path /\ Len(a) = Len(Root) + (Len(m.at) - Len(top))
      /\ \A i \in 1..(Len(m.at) - Len(top)) : a[Len(Root) + i] = m.at[Len(top) + i]
  <2>1. Rebased(m, top, Root) \in Entry
    BY <1>1, <1>3, RebasedFacts
  <2>2. a \in Path
    BY <2>1 DEF Entry
  <2>3. Len(a) = Len(Root) + (Len(m.at) - Len(top))
    BY <1>1, <1>3, RebasedAt, Zenon
  <2>4. \A i \in 1..(Len(m.at) - Len(top)) : a[Len(Root) + i] = m.at[Len(top) + i]
    BY <1>1, <1>3, RebasedAt, Zenon
  <2> QED
    BY <2>2, <2>3, <2>4
<1> HIDE DEF a
<1>5. Len(a) = Len(r)
  BY <1>2, <1>3, <1>4
<1>6. \A i \in 1..Len(r) : a[i] = r[i]
  <2> TAKE i \in 1..Len(r)
  <2>1. i \in 1..(Len(m.at) - Len(top)) /\ Len(Root) + i = i
    BY <1>2, <1>3
  <2> QED
    BY <1>2, <1>4, <2>1
<1>7. a = r
  BY <1>4, <1>5, <1>6, PathIs
<1> QED
  BY <1>1, <1>7 DEF a

-----------------------------------------------------------------------------
(* Lookups.                                                                *)

LEMMA TableIs ==
    ASSUME NEW t \in Table
    PROVE  /\ Len(t) \in Nat /\ DOMAIN t = 1..Len(t) /\ 1 \in DOMAIN t /\ t[1].at = Root
           /\ \A i \in DOMAIN t : /\ i \in Nat /\ i >= 1 /\ i <= Len(t)
                                  /\ t[i] \in Entry /\ t[i].at \in Path
<1>1. t \in Seq(Entry) /\ Len(t) > 0 /\ t[1].at = Root
  BY DEF Table
<1>2. Len(t) \in Nat /\ DOMAIN t = 1..Len(t) /\ \A i \in DOMAIN t : t[i] \in Entry
  BY <1>1
<1>3. \A i \in DOMAIN t : i \in Nat /\ i >= 1 /\ i <= Len(t)
  BY <1>2
<1>4. \A e \in Entry : e.at \in Path
  BY DEF Entry
<1>5. 1 \in DOMAIN t
  BY <1>1, <1>2
<1> QED
  BY <1>1, <1>2, <1>3, <1>4, <1>5

\* A lookup ends in the last mount at the path or above it.
LEMMA LookupFacts ==
    ASSUME NEW t \in Table, NEW p \in Path
    PROVE  /\ Lookup(t, p) \in DOMAIN t /\ IsPrefix(t[Lookup(t, p)].at, p)
           /\ \A i \in DOMAIN t : IsPrefix(t[i].at, p) => i <= Lookup(t, p)
<1> DEFINE S == {i \in DOMAIN t : IsPrefix(t[i].at, p)}
<1>1. 1 \in S
  BY TableIs, PathFacts
<1>2. S \in SUBSET (1..Len(t)) /\ Len(t) \in Nat
  BY TableIs
<1>3. Lookup(t, p) = Max(S)
  BY DEF Lookup
<1> HIDE DEF S
<1>4. Max(S) \in S /\ \A i \in S : i <= Max(S)
  BY <1>1, <1>2, GreatestNumber
<1> QED
  BY <1>3, <1>4 DEF S

LEMMA LookupIs ==
    ASSUME NEW t \in Table, NEW p \in Path, NEW l \in DOMAIN t, IsPrefix(t[l].at, p),
           \A i \in DOMAIN t : IsPrefix(t[i].at, p) => i <= l
    PROVE  Lookup(t, p) = l /\ Top(t, p) = t[l]
<1>1. Lookup(t, p) \in DOMAIN t /\ Lookup(t, p) <= l /\ l <= Lookup(t, p)
  BY LookupFacts
<1>2. Lookup(t, p) = l
  BY <1>1, TableIs
<1> QED
  BY <1>2 DEF Top

LEMMA TopFacts ==
    ASSUME NEW t \in Table, NEW p \in Path
    PROVE  /\ Top(t, p) \in Entry /\ IsPrefix(Top(t, p).at, p)
           /\ \E i \in DOMAIN t : Top(t, p) = t[i]
           /\ IsMountPoint(t, p) <=> Top(t, p).at = p
           /\ FsAt(t, p) = Top(t, p).fs
BY LookupFacts, TableIs DEF Top, IsMountPoint, FsAt

\* Where nothing is covered the mount at a place is what a lookup finds.
LEMMA TopUncovered ==
    ASSUME NEW t \in Table, NEW i \in DOMAIN t, ~Covered(t, i)
    PROVE  Lookup(t, t[i].at) = i /\ Top(t, t[i].at) = t[i]
<1>1. \A j \in DOMAIN t : IsPrefix(t[j].at, t[i].at) => j <= i
  BY TableIs DEF Covered
<1>2. IsPrefix(t[i].at, t[i].at) /\ t[i].at \in Path
  BY TableIs, PathFacts
<1> QED
  BY <1>1, <1>2, LookupIs

-----------------------------------------------------------------------------
(* Mounting and sharing.                                                   *)

LEMMA MountedFacts ==
    ASSUME NEW t \in Table, NEW p \in Path, NEW fs \in FsType
    PROVE  /\ Mounted(t, p, fs) \in Table
           /\ DOMAIN Mounted(t, p, fs) = DOMAIN t \cup {Len(t) + 1}
           /\ \A i \in DOMAIN t : Mounted(t, p, fs)[i] = t[i]
           /\ Mounted(t, p, fs)[Len(t) + 1] = [at |-> p, fs |-> fs, shared |-> Top(t, p).shared]
<1> DEFINE e == [at |-> p, fs |-> fs, shared |-> Top(t, p).shared]
<1>1. e \in Entry
  <2>1. Top(t, p).shared \in BOOLEAN
    BY TopFacts DEF Entry
  <2> QED
    BY <2>1 DEF Entry
<1>2. Mounted(t, p, fs) = Append(t, e)
  BY DEF Mounted, Top
<1> HIDE DEF e
<1>3. t \in Seq(Entry) /\ Len(t) > 0 /\ t[1].at = Root
  BY DEF Table
<1>4. /\ Append(t, e) \in Seq(Entry) /\ Len(Append(t, e)) = Len(t) + 1
      /\ \A i \in 1..Len(t) : Append(t, e)[i] = t[i]
      /\ Append(t, e)[Len(t) + 1] = e
  BY <1>1, <1>3
<1>5. DOMAIN Append(t, e) = DOMAIN t \cup {Len(t) + 1} /\ DOMAIN t = 1..Len(t) /\ 1 \in DOMAIN t
  <2>1. DOMAIN Append(t, e) = 1..(Len(t) + 1)
    BY <1>4
  <2> QED
    BY <2>1, TableIs
<1>6. Append(t, e) \in Table
  <2>1. Append(t, e)[1] = t[1]
    BY <1>4, <1>5
  <2>2. Len(Append(t, e)) > 0
    BY <1>4, TableIs
  <2> QED
    BY <1>3, <1>4, <2>1, <2>2 DEF Table
<1> QED
  BY <1>2, <1>4, <1>5, <1>6 DEF e

\* A mount changes what is found at and below its place.
LEMMA MountedTop ==
    ASSUME NEW t \in Table, NEW p \in Path, NEW fs \in FsType, NEW q \in Path
    PROVE  Top(Mounted(t, p, fs), q) =
               IF IsPrefix(p, q) THEN [at |-> p, fs |-> fs, shared |-> Top(t, p).shared] ELSE Top(t, q)
<1> DEFINE u == Mounted(t, p, fs)
           n == Len(t) + 1
<1>1. /\ u \in Table /\ DOMAIN u = DOMAIN t \cup {n} /\ \A i \in DOMAIN t : u[i] = t[i]
      /\ u[n] = [at |-> p, fs |-> fs, shared |-> Top(t, p).shared]
  BY MountedFacts
<1>2. n \in DOMAIN u /\ n \in Nat /\ (\A i \in DOMAIN t : i < n /\ i \in Nat) /\ u[n].at = p
  <2>1. \A i \in DOMAIN t : i < n /\ i \in Nat
    BY TableIs
  <2> QED
    BY <1>1, <2>1, TableIs
<1> HIDE DEF u, n
<1>3. CASE IsPrefix(p, q)
  <2>1. \A i \in DOMAIN u : i <= n
    BY <1>1, <1>2
  <2>2. Top(u, q) = u[n]
    BY <1>1, <1>2, <1>3, <2>1, LookupIs
  <2> QED
    BY <1>1, <1>3, <2>2 DEF u
<1>4. CASE ~IsPrefix(p, q)
  <2> DEFINE l == Lookup(t, q)
  <2>1. l \in DOMAIN t /\ IsPrefix(t[l].at, q) /\ \A i \in DOMAIN t : IsPrefix(t[i].at, q) => i <= l
    BY LookupFacts
  <2>2. Top(t, q) = t[l]
    BY DEF Top
  <2> HIDE DEF l
  <2>3. l \in DOMAIN u /\ IsPrefix(u[l].at, q) /\ \A i \in DOMAIN u : IsPrefix(u[i].at, q) => i <= l
    BY <1>1, <1>2, <1>4, <2>1
  <2>4. Top(u, q) = u[l]
    BY <1>1, <2>3, LookupIs
  <2> QED
    BY <1>1, <1>4, <2>1, <2>2, <2>4 DEF u
<1> QED
  BY <1>3, <1>4

LEMMA MountedCovered ==
    ASSUME NEW t \in Table, NEW p \in Path, NEW fs \in FsType
    PROVE  /\ ~Covered(Mounted(t, p, fs), Len(t) + 1)
           /\ \A i \in DOMAIN t : Covered(Mounted(t, p, fs), i) <=> Covered(t, i) \/ IsPrefix(p, t[i].at)
<1> DEFINE u == Mounted(t, p, fs)
           n == Len(t) + 1
<1>1. /\ u \in Table /\ DOMAIN u = DOMAIN t \cup {n} /\ \A i \in DOMAIN t : u[i] = t[i]
      /\ u[n].at = p
  <2>1. u \in Table /\ DOMAIN u = DOMAIN t \cup {n} /\ \A i \in DOMAIN t : u[i] = t[i]
    BY MountedFacts
  <2>2. u[n] = [at |-> p, fs |-> fs, shared |-> Top(t, p).shared]
    BY MountedFacts
  <2> HIDE DEF u, n
  <2> QED
    BY <2>1, <2>2
<1>2. n \in Nat /\ \A i \in DOMAIN t : i < n /\ i \in Nat
  BY TableIs
<1> HIDE DEF u, n
<1>3. ~Covered(u, n)
  BY <1>1, <1>2 DEF Covered
<1>4. \A i \in DOMAIN t : Covered(u, i) <=> Covered(t, i) \/ IsPrefix(p, t[i].at)
  <2> TAKE i \in DOMAIN t
  <2>1. u[i] = t[i] /\ n > i /\ n \in DOMAIN u
    BY <1>1, <1>2
  <2>2. ASSUME Covered(u, i)
        PROVE  Covered(t, i) \/ IsPrefix(p, t[i].at)
    BY <1>1, <2>1, <2>2 DEF Covered
  <2>3. ASSUME Covered(t, i)
        PROVE  Covered(u, i)
    BY <1>1, <2>1, <2>3 DEF Covered
  <2>4. ASSUME IsPrefix(p, t[i].at)
        PROVE  Covered(u, i)
    BY <1>1, <2>1, <2>4 DEF Covered
  <2> QED
    BY <2>2, <2>3, <2>4
<1> QED
  BY <1>3, <1>4 DEF u, n

\* Sharing leaves every mount where it is.
LEMMA SharedFacts ==
    ASSUME NEW t \in Table, NEW p \in Path, NEW rec \in BOOLEAN
    PROVE  /\ Shared(t, p, rec) \in Table /\ DOMAIN Shared(t, p, rec) = DOMAIN t
           /\ \A i \in DOMAIN t : /\ Shared(t, p, rec)[i].at = t[i].at /\ Shared(t, p, rec)[i].fs = t[i].fs
                                  /\ t[i].shared => Shared(t, p, rec)[i].shared
                                  /\ Covered(Shared(t, p, rec), i) <=> Covered(t, i)
           /\ \A q \in Path : Lookup(Shared(t, p, rec), q) = Lookup(t, q)
           /\ IsMountPoint(t, p) => Shared(t, p, rec)[Lookup(t, p)].shared
<1> DEFINE chosen == IF rec THEN Reachable(t, p) ELSE {Lookup(t, p)}
           u == Shared(t, p, rec)
<1>1. u = [i \in DOMAIN t |-> [t[i] EXCEPT !.shared = @ \/ i \in chosen]]
  BY DEF Shared
<1> HIDE DEF chosen, u
<1>2. \A i \in DOMAIN t : /\ u[i] \in Entry /\ u[i].at = t[i].at /\ u[i].fs = t[i].fs
                          /\ u[i].shared <=> t[i].shared \/ i \in chosen
  <2> TAKE i \in DOMAIN t
  <2>1. t[i] \in Entry /\ u[i] = [t[i] EXCEPT !.shared = @ \/ i \in chosen]
    BY <1>1, TableIs
  <2> QED
    BY <2>1 DEF Entry
<1>3. DOMAIN u = DOMAIN t
  BY <1>1
<1>4. u \in Table
  <2>1. DOMAIN t = 1..Len(t) /\ Len(t) \in Nat /\ t[1].at = Root /\ Len(t) > 0 /\ 1 \in DOMAIN t
    BY TableIs DEF Table
  <2>2. u \in [1..Len(t) -> Entry]
    BY <1>1, <1>2, <2>1
  <2>3. u \in Seq(Entry) /\ Len(u) = Len(t)
    BY <2>1, <2>2
  <2> QED
    BY <1>2, <2>1, <2>3 DEF Table
<1>5. \A i \in DOMAIN t : Covered(u, i) <=> Covered(t, i)
  BY <1>2, <1>3 DEF Covered
<1>6. \A q \in Path : Lookup(u, q) = Lookup(t, q)
  <2> TAKE q \in Path
  <2>1. /\ Lookup(t, q) \in DOMAIN u /\ IsPrefix(u[Lookup(t, q)].at, q)
        /\ \A i \in DOMAIN u : IsPrefix(u[i].at, q) => i <= Lookup(t, q)
    BY <1>2, <1>3, LookupFacts
  <2> QED
    BY <1>4, <2>1, LookupIs
<1>7. ASSUME IsMountPoint(t, p)
      PROVE  u[Lookup(t, p)].shared
  <2> DEFINE l == Lookup(t, p)
  <2>1. l \in DOMAIN t /\ t[l].at = p /\ \A i \in DOMAIN t : IsPrefix(t[i].at, p) => i <= l
    BY <1>7, LookupFacts DEF IsMountPoint
  <2>2. ~Covered(t, l) /\ IsPrefix(p, t[l].at)
    BY <2>1, TableIs, PathFacts DEF Covered
  <2>3. l \in chosen
    BY <2>1, <2>2 DEF chosen, Reachable, Below
  <2> QED
    BY <1>2, <2>1, <2>3
<1> QED
  BY <1>2, <1>3, <1>4, <1>5, <1>6, <1>7 DEF u

-----------------------------------------------------------------------------
(* Taking mounts out, and moving them.                                     *)

\* What is picked keeps its order; a lookup that ended in a mount that stays
\* still does.
LEMMA PickedTable ==
    ASSUME NEW t \in Table, NEW S \in SUBSET (DOMAIN t)
    PROVE  /\ Picked(t, S) \in Seq(Entry)
           /\ \A i \in DOMAIN Picked(t, S) :
                \E s \in S : Picked(t, S)[i] = t[s] /\ (~Covered(t, s) => ~Covered(Picked(t, S), i))
           /\ \A s \in S : \E i \in DOMAIN Picked(t, S) : Picked(t, S)[i] = t[s]
           /\ 1 \in S => /\ Picked(t, S) \in Table
                         /\ \A q \in Path : Lookup(t, q) \in S => Top(Picked(t, S), q) = Top(t, q)
<1> DEFINE u == Picked(t, S)
<1>1. S \in SUBSET (1..Len(t)) /\ Len(t) \in Nat
  BY TableIs
<1>2a. PICK m, f : PickedBy(t, S, m, f)
  BY <1>1, PickedFacts
<1>2. /\ m \in Nat /\ f \in [1..m -> S]
      /\ u = [i \in 1..m |-> t[f[i]]]
      /\ \A i, j \in 1..m : i < j => f[i] < f[j]
      /\ \A s \in S : \E i \in 1..m : f[i] = s
  BY <1>2a DEF PickedBy
<1> HIDE DEF u
<1>3. \A s \in S : s \in DOMAIN t /\ s \in Nat /\ s >= 1 /\ t[s] \in Entry /\ t[s].at \in Path
  BY TableIs
<1>4. DOMAIN u = 1..m /\ \A i \in 1..m : u[i] = t[f[i]] /\ f[i] \in S /\ u[i] \in Entry /\ i \in Nat
  BY <1>2, <1>3
<1>5. u \in Seq(Entry) /\ Len(u) = m
  <2>1. u \in [1..m -> Entry] /\ m \in Nat
    BY <1>2, <1>4
  <2> QED
    BY <2>1
<1>6. ASSUME NEW i \in DOMAIN u
      PROVE  \E s \in S : u[i] = t[s] /\ (~Covered(t, s) => ~Covered(u, i))
  <2>1. f[i] \in S /\ u[i] = t[f[i]]
    BY <1>4
  <2>2. ASSUME Covered(u, i)
        PROVE  Covered(t, f[i])
    <3>1. PICK j \in DOMAIN u : j > i /\ IsPrefix(u[j].at, u[i].at)
      BY <2>2 DEF Covered
    <3>2. f[j] \in DOMAIN t /\ f[j] > f[i] /\ u[j] = t[f[j]]
      BY <1>2, <1>3, <1>4, <3>1
    <3> QED
      BY <2>1, <3>1, <3>2 DEF Covered
  <2> QED
    BY <2>1, <2>2
<1>7. \A s \in S : \E i \in DOMAIN u : u[i] = t[s]
  BY <1>2, <1>4
<1>8. ASSUME 1 \in S
      PROVE  u \in Table
  <2>1. PICK i \in 1..m : f[i] = 1
    BY <1>2, <1>8
  <2>2. i = 1
    <3>1. 1 < i => f[1] < f[i] /\ f[1] \in Nat /\ f[1] >= 1
      BY <1>2, <1>3, <1>4
    <3> QED
      BY <2>1, <3>1
  <2>3. u[1].at = Root /\ Len(u) > 0
    BY <1>4, <1>5, <2>1, <2>2, TableIs
  <2> QED
    BY <1>5, <2>3 DEF Table
<1>9. ASSUME 1 \in S, NEW q \in Path, Lookup(t, q) \in S
      PROVE  Top(u, q) = Top(t, q)
  <2>1. PICK l \in 1..m : f[l] = Lookup(t, q)
    BY <1>2, <1>9
  <2>2. u[l] = Top(t, q) /\ IsPrefix(u[l].at, q)
    BY <1>4, <2>1, LookupFacts DEF Top
  <2>3. ASSUME NEW i \in DOMAIN u, IsPrefix(u[i].at, q)
        PROVE  i <= l
    <3>1. f[i] \in DOMAIN t /\ IsPrefix(t[f[i]].at, q)
      BY <1>3, <1>4, <2>3
    <3>2. f[i] <= f[l]
      BY <2>1, <3>1, LookupFacts
    <3>3. l < i => f[l] < f[i]
      BY <1>2, <1>4
    <3>4. f[i] \in Nat /\ f[l] \in Nat /\ i \in Nat /\ l \in Nat
      BY <1>3, <1>4
    <3> QED
      BY <3>2, <3>3, <3>4
  <2> QED
    BY <1>4, <1>8, <1>9, <2>2, <2>3, LookupIs
<1> QED
  BY <1>5, <1>6, <1>7, <1>8, <1>9 DEF u

\* A tree keeps its form where it goes.
LEMMA RebasedTree ==
    ASSUME NEW from \in Path, NEW to \in Path, NEW tree \in Seq(Entry),
           \A i \in DOMAIN tree : IsPrefix(from, tree[i].at)
    PROVE  /\ [i \in DOMAIN tree |-> Rebased(tree[i], from, to)] \in Seq(Entry)
           /\ \A i \in DOMAIN tree :
                Covered([j \in DOMAIN tree |-> Rebased(tree[j], from, to)], i) <=> Covered(tree, i)
<1> DEFINE r == [i \in DOMAIN tree |-> Rebased(tree[i], from, to)]
<1>1. DOMAIN tree = 1..Len(tree) /\ Len(tree) \in Nat /\ \A i \in DOMAIN tree : tree[i] \in Entry
  OBVIOUS
<1>2. DOMAIN r = DOMAIN tree /\ \A i \in DOMAIN tree : r[i] = Rebased(tree[i], from, to)
  OBVIOUS
<1>3. r \in [1..Len(tree) -> Entry]
  BY <1>1, RebasedFacts
<1>4. r \in Seq(Entry)
  <2> HIDE DEF r
  <2> QED
    BY <1>1, <1>3
<1> HIDE DEF r
<1>5. \A i, j \in DOMAIN tree : IsPrefix(r[j].at, r[i].at) <=> IsPrefix(tree[j].at, tree[i].at)
  BY <1>1, <1>2, RebasedPrefix
<1>6. \A i \in DOMAIN tree : Covered(r, i) <=> Covered(tree, i)
  BY <1>2, <1>5 DEF Covered
<1> QED
  BY <1>4, <1>6 DEF r

LEMMA ConcatUncovered ==
    ASSUME NEW a \in Seq(Entry), NEW b \in Seq(Entry), Uncovered(a), Uncovered(b),
           \A i \in DOMAIN a : \A j \in DOMAIN b : ~IsPrefix(b[j].at, a[i].at)
    PROVE  Uncovered(a \o b)
<1> DEFINE c == a \o b
<1>1. /\ DOMAIN a = 1..Len(a) /\ DOMAIN b = 1..Len(b) /\ Len(a) \in Nat /\ Len(b) \in Nat
      /\ DOMAIN c = 1..(Len(a) + Len(b))
      /\ \A i \in DOMAIN a : c[i] = a[i]
      /\ \A i \in DOMAIN c : i > Len(a) => i - Len(a) \in DOMAIN b /\ c[i] = b[i - Len(a)]
  OBVIOUS
<1> HIDE DEF c
<1>2. ASSUME NEW i \in DOMAIN c, NEW j \in DOMAIN c, j > i, IsPrefix(c[j].at, c[i].at)
      PROVE  FALSE
  <2>1. CASE j <= Len(a)
    <3>1. i \in DOMAIN a /\ j \in DOMAIN a
      BY <1>1, <1>2, <2>1
    <3> QED
      BY <1>1, <1>2, <3>1 DEF Uncovered, Covered
  <2>2. CASE i <= Len(a) /\ j > Len(a)
    <3>1. i \in DOMAIN a /\ j - Len(a) \in DOMAIN b
      BY <1>1, <2>2
    <3> QED
      BY <1>1, <1>2, <2>2, <3>1
  <2>3. CASE i > Len(a)
    <3>1. j > Len(a) /\ j - Len(a) > i - Len(a)
      BY <1>1, <1>2, <2>3
    <3> QED
      BY <1>1, <1>2, <2>3, <3>1 DEF Uncovered, Covered
  <2> QED
    BY <1>1, <2>1, <2>2, <2>3
<1> QED
  BY <1>2 DEF Uncovered, Covered, c

LEMMA ConcatEntries ==
    ASSUME NEW a \in Seq(Entry), NEW b \in Seq(Entry)
    PROVE  /\ a \o b \in Seq(Entry)
           /\ \A i \in DOMAIN (a \o b) : \/ \E j \in DOMAIN a : (a \o b)[i] = a[j]
                                         \/ \E j \in DOMAIN b : (a \o b)[i] = b[j]
           /\ \A j \in DOMAIN a : j \in DOMAIN (a \o b) /\ (a \o b)[j] = a[j]
           /\ \A j \in DOMAIN b : \E i \in DOMAIN (a \o b) : (a \o b)[i] = b[j]
<1> DEFINE c == a \o b
<1>1. /\ DOMAIN a = 1..Len(a) /\ DOMAIN b = 1..Len(b) /\ Len(a) \in Nat /\ Len(b) \in Nat
      /\ DOMAIN c = 1..(Len(a) + Len(b)) /\ c \in Seq(Entry)
      /\ \A i \in DOMAIN a : c[i] = a[i]
      /\ \A i \in DOMAIN b : Len(a) + i \in DOMAIN c /\ c[Len(a) + i] = b[i]
      /\ \A i \in DOMAIN c : i > Len(a) => i - Len(a) \in DOMAIN b /\ c[i] = b[i - Len(a)]
  OBVIOUS
<1> HIDE DEF c
<1>2. \A i \in DOMAIN c : i <= Len(a) => i \in DOMAIN a
  BY <1>1
<1>3. \A i \in DOMAIN c : i <= Len(a) \/ i > Len(a)
  BY <1>1
<1>4. \A j \in DOMAIN a : j \in DOMAIN c
  BY <1>1
<1> QED
  BY <1>1, <1>2, <1>3, <1>4 DEF c

\* In a table without covered mounts a tree is what is at or below its root.
LEMMA ReachableIs ==
    ASSUME NEW t, Uncovered(t), NEW p
    PROVE  Reachable(t, p) = Below(t, p) /\ Below(t, p) \in SUBSET (DOMAIN t)
BY DEF Reachable, Below, Uncovered

LEMMA MovedFacts ==
    ASSUME NEW t \in Table, Uncovered(t), NEW from \in Path, from # Root, NEW to \in Path,
           \A i \in DOMAIN t : ~IsPrefix(to, t[i].at)
    PROVE  /\ Moved(t, from, to) \in Table /\ Uncovered(Moved(t, from, to))
           /\ \A i \in DOMAIN Moved(t, from, to) : \E j \in DOMAIN t :
                \/ ~IsPrefix(from, t[j].at) /\ Moved(t, from, to)[i] = t[j]
                \/ IsPrefix(from, t[j].at) /\ Moved(t, from, to)[i] = Rebased(t[j], from, to)
           /\ \A j \in DOMAIN t : ~IsPrefix(from, t[j].at) =>
                \E i \in DOMAIN Moved(t, from, to) : Moved(t, from, to)[i] = t[j]
<1> DEFINE B == Below(t, from)
           R == DOMAIN t \ B
           rest == Picked(t, R)
           tree == Picked(t, B)
           moved == [i \in DOMAIN tree |-> Rebased(tree[i], from, to)]
           u == Moved(t, from, to)
<1>1. B \in SUBSET (DOMAIN t) /\ R \in SUBSET (DOMAIN t) /\ Reachable(t, from) = B
  BY ReachableIs
<1>2. u = rest \o moved
  BY <1>1 DEF Moved, Without
<1>3. \A i \in DOMAIN t : i \in B <=> IsPrefix(from, t[i].at)
  BY DEF Below
<1>4. 1 \in R
  BY <1>3, TableIs, PathFacts
<1>5. \A i \in DOMAIN t : ~Covered(t, i) /\ t[i] \in Entry /\ t[i].at \in Path
  BY TableIs DEF Uncovered
<1> HIDE DEF B, R
<1>6. /\ rest \in Table /\ rest \in Seq(Entry) /\ Uncovered(rest)
      /\ \A i \in DOMAIN rest : \E s \in R : rest[i] = t[s]
      /\ \A s \in R : \E i \in DOMAIN rest : rest[i] = t[s]
  <2>1. rest \in Table /\ rest \in Seq(Entry) /\ \A s \in R : \E i \in DOMAIN rest : rest[i] = t[s]
    BY <1>1, <1>4, PickedTable
  <2>2. \A i \in DOMAIN rest : \E s \in R : rest[i] = t[s] /\ (~Covered(t, s) => ~Covered(rest, i))
    BY <1>1, PickedTable
  <2> HIDE DEF rest
  <2>3. Uncovered(rest)
    BY <1>1, <1>5, <2>2 DEF Uncovered
  <2> QED
    BY <2>1, <2>2, <2>3
<1>7. /\ tree \in Seq(Entry) /\ Uncovered(tree)
      /\ \A i \in DOMAIN tree : \E s \in B : tree[i] = t[s]
  <2>1. tree \in Seq(Entry)
    BY <1>1, PickedTable
  <2>2. \A i \in DOMAIN tree : \E s \in B : tree[i] = t[s] /\ (~Covered(t, s) => ~Covered(tree, i))
    BY <1>1, PickedTable
  <2> HIDE DEF tree
  <2>3. Uncovered(tree)
    BY <1>1, <1>5, <2>2 DEF Uncovered
  <2> QED
    BY <2>1, <2>2, <2>3
<1> HIDE DEF rest, tree
<1>8. \A i \in DOMAIN tree : tree[i] \in Entry /\ tree[i].at \in Path /\ IsPrefix(from, tree[i].at)
  BY <1>1, <1>3, <1>5, <1>7
<1>9. moved \in Seq(Entry) /\ DOMAIN moved = DOMAIN tree /\ Uncovered(moved)
  <2>1. moved \in Seq(Entry) /\ \A i \in DOMAIN tree : Covered(moved, i) <=> Covered(tree, i)
    BY <1>7, <1>8, RebasedTree
  <2>2. DOMAIN moved = DOMAIN tree
    OBVIOUS
  <2> HIDE DEF moved
  <2> QED
    BY <1>7, <2>1, <2>2 DEF Uncovered
<1>10. \A i \in DOMAIN tree : moved[i] = Rebased(tree[i], from, to)
  OBVIOUS
<1> HIDE DEF moved
<1>11. \A i \in DOMAIN moved : moved[i] \in Entry /\ moved[i].at \in Path /\ IsPrefix(to, moved[i].at)
  <2>1. \A i \in DOMAIN moved : moved[i] \in Entry /\ IsPrefix(to, moved[i].at)
    BY <1>8, <1>9, <1>10, RebasedFacts, RebasedPrefix
  <2> QED
    BY <2>1 DEF Entry
<1>12. \A i \in DOMAIN rest : \A j \in DOMAIN moved : ~IsPrefix(moved[j].at, rest[i].at)
  BY <1>1, <1>5, <1>6, <1>11, PrefixTransitive
<1>13. Uncovered(rest \o moved)
  BY <1>6, <1>9, <1>12, ConcatUncovered
<1>14. /\ rest \o moved \in Seq(Entry)
       /\ \A i \in DOMAIN (rest \o moved) : \/ \E j \in DOMAIN rest : (rest \o moved)[i] = rest[j]
                                            \/ \E j \in DOMAIN moved : (rest \o moved)[i] = moved[j]
       /\ \A j \in DOMAIN rest : j \in DOMAIN (rest \o moved) /\ (rest \o moved)[j] = rest[j]
  BY <1>6, <1>9, ConcatEntries
<1> DEFINE c == rest \o moved
<1>15. c \in Table
  <2>1. 1 \in DOMAIN rest /\ rest[1].at = Root
    BY <1>6, TableIs
  <2>2. c \in Seq(Entry) /\ 1 \in DOMAIN c /\ c[1].at = Root
    BY <1>14, <2>1
  <2> HIDE DEF c
  <2>3. Len(c) > 0
    BY <2>2
  <2> QED
    BY <2>2, <2>3 DEF Table
<1>16. \A i \in DOMAIN c : \E j \in DOMAIN t :
            \/ ~IsPrefix(from, t[j].at) /\ c[i] = t[j]
            \/ IsPrefix(from, t[j].at) /\ c[i] = Rebased(t[j], from, to)
  <2> TAKE i \in DOMAIN c
  <2>1. CASE \E j \in DOMAIN rest : c[i] = rest[j]
    <3>1. PICK s \in R : c[i] = t[s]
      BY <1>6, <2>1
    <3> HIDE DEF c
    <3>2. s \in DOMAIN t /\ ~IsPrefix(from, t[s].at)
      BY <1>1, <1>3 DEF R
    <3> QED
      BY <3>1, <3>2
  <2>2. CASE \E j \in DOMAIN moved : c[i] = moved[j]
    <3>1. PICK j \in DOMAIN tree : c[i] = Rebased(tree[j], from, to)
      BY <1>9, <1>10, <2>2
    <3> HIDE DEF c
    <3>2. PICK s \in B : tree[j] = t[s]
      BY <1>7
    <3>3. s \in DOMAIN t /\ IsPrefix(from, t[s].at)
      BY <1>1, <1>3
    <3> QED
      BY <3>1, <3>2, <3>3
  <2> QED
    BY <1>14, <2>1, <2>2
<1>17. \A j \in DOMAIN t : ~IsPrefix(from, t[j].at) => \E i \in DOMAIN c : c[i] = t[j]
  <2> TAKE j \in DOMAIN t
  <2> HAVE ~IsPrefix(from, t[j].at)
  <2>1. j \in R
    BY <1>3 DEF R
  <2>2. PICK i \in DOMAIN rest : rest[i] = t[j]
    BY <1>6, <2>1
  <2>3. i \in DOMAIN c /\ c[i] = rest[i]
    BY <1>14
  <2> HIDE DEF c
  <2> QED
    BY <2>2, <2>3
<1>18. Uncovered(c) /\ u = c
  BY <1>2, <1>13
<1> HIDE DEF c
<1> QED
  BY <1>15, <1>16, <1>17, <1>18

\* switch_root: the tree at top becomes the table, and S comes along.
LEMMA ChrootedFacts ==
    ASSUME NEW t \in Table, Uncovered(t), NEW top \in Path, NEW r \in DOMAIN t, t[r].at = top,
           NEW S \in SUBSET (DOMAIN t),
           \A i \in DOMAIN t : IsPrefix(top, t[i].at) =>
                \A s \in S : ~IsPrefix(t[s].at, Rebased(t[i], top, Root).at)
    PROVE  /\ Chrooted(t, top) \o Picked(t, S) \in Table /\ Uncovered(Chrooted(t, top) \o Picked(t, S))
           /\ \A i \in DOMAIN (Chrooted(t, top) \o Picked(t, S)) :
                \/ \E j \in DOMAIN t : /\ IsPrefix(top, t[j].at)
                                       /\ (Chrooted(t, top) \o Picked(t, S))[i] = Rebased(t[j], top, Root)
                \/ \E s \in S : (Chrooted(t, top) \o Picked(t, S))[i] = t[s]
           /\ \A s \in S : \E i \in DOMAIN (Chrooted(t, top) \o Picked(t, S)) :
                (Chrooted(t, top) \o Picked(t, S))[i] = t[s]
<1> DEFINE B == Below(t, top)
           tree == Picked(t, B)
           inside == [i \in DOMAIN tree |-> Rebased(tree[i], top, Root)]
           taken == Picked(t, S)
<1>1. B \in SUBSET (DOMAIN t) /\ \A i \in DOMAIN t : i \in B <=> IsPrefix(top, t[i].at)
  BY DEF Below
<1>2. Chrooted(t, top) = inside
  BY DEF Chrooted
<1>3. \A i \in DOMAIN t : ~Covered(t, i) /\ t[i] \in Entry /\ t[i].at \in Path
  BY TableIs DEF Uncovered
<1>4. Root \in Path /\ r \in B
  BY <1>1, <1>3, PathIs, PathFacts
<1> HIDE DEF B
<1>5. /\ tree \in Seq(Entry) /\ Uncovered(tree)
      /\ \A i \in DOMAIN tree : \E s \in B : tree[i] = t[s]
      /\ \E i \in DOMAIN tree : tree[i].at = top
  <2>1. tree \in Seq(Entry)
    BY <1>1, PickedTable
  <2>2. \A i \in DOMAIN tree : \E s \in B : tree[i] = t[s] /\ (~Covered(t, s) => ~Covered(tree, i))
    BY <1>1, PickedTable
  <2>3. \A s \in B : \E i \in DOMAIN tree : tree[i] = t[s]
    BY <1>1, PickedTable
  <2> HIDE DEF tree
  <2>4. Uncovered(tree)
    BY <1>1, <1>3, <2>2 DEF Uncovered
  <2> QED
    BY <1>4, <2>1, <2>2, <2>3, <2>4
<1>6. /\ taken \in Seq(Entry) /\ Uncovered(taken)
      /\ \A i \in DOMAIN taken : \E s \in S : taken[i] = t[s]
      /\ \A s \in S : \E i \in DOMAIN taken : taken[i] = t[s]
  <2>1. taken \in Seq(Entry) /\ \A s \in S : \E i \in DOMAIN taken : taken[i] = t[s]
    BY PickedTable
  <2>2. \A i \in DOMAIN taken : \E s \in S : taken[i] = t[s] /\ (~Covered(t, s) => ~Covered(taken, i))
    BY PickedTable
  <2> HIDE DEF taken
  <2>3. Uncovered(taken)
    BY <1>3, <2>2 DEF Uncovered
  <2> QED
    BY <2>1, <2>2, <2>3
<1> HIDE DEF tree, taken
<1>7. \A i \in DOMAIN tree : tree[i] \in Entry /\ tree[i].at \in Path /\ IsPrefix(top, tree[i].at)
  BY <1>1, <1>3, <1>5
<1>8. inside \in Seq(Entry) /\ DOMAIN inside = DOMAIN tree /\ Uncovered(inside)
  <2>1. inside \in Seq(Entry) /\ \A i \in DOMAIN tree : Covered(inside, i) <=> Covered(tree, i)
    BY <1>4, <1>5, <1>7, RebasedTree
  <2>2. DOMAIN inside = DOMAIN tree
    OBVIOUS
  <2> HIDE DEF inside
  <2> QED
    BY <1>5, <2>1, <2>2 DEF Uncovered
<1>9. \A i \in DOMAIN tree : inside[i] = Rebased(tree[i], top, Root)
  OBVIOUS
<1> HIDE DEF inside
\* The mount at top was made before all below it, which would be covered.
<1>10. 1 \in DOMAIN inside /\ inside[1].at = Root
  <2>1. PICK i \in DOMAIN tree : tree[i].at = top
    BY <1>5
  <2>2. DOMAIN tree = 1..Len(tree) /\ Len(tree) \in Nat
    BY <1>5
  <2>3. 1 \in DOMAIN tree /\ i >= 1 /\ i \in Nat
    BY <2>1, <2>2
  <2>4. ~(i > 1)
    BY <1>5, <1>7, <2>1, <2>3 DEF Uncovered, Covered
  <2>5. tree[1].at = top /\ inside[1] = Rebased(tree[1], top, Root)
    BY <1>9, <2>1, <2>3, <2>4
  <2>6. inside[1].at = Root
    BY <1>4, <1>7, <2>3, <2>5, RebasedPrefix
  <2> QED
    BY <1>8, <2>3, <2>6
<1>11. \A i \in DOMAIN inside : \E j \in B : inside[i] = Rebased(t[j], top, Root)
  BY <1>5, <1>8, <1>9
<1>12. \A i \in DOMAIN inside : \A j \in DOMAIN taken : ~IsPrefix(taken[j].at, inside[i].at)
  <2> TAKE i \in DOMAIN inside
  <2> TAKE j \in DOMAIN taken
  <2>1. PICK b \in B : inside[i] = Rebased(t[b], top, Root)
    BY <1>11
  <2>2. PICK s \in S : taken[j] = t[s]
    BY <1>6
  <2>3. b \in DOMAIN t /\ IsPrefix(top, t[b].at)
    BY <1>1
  <2> QED
    BY <2>1, <2>2, <2>3
<1> DEFINE c == inside \o taken
<1>13. Uncovered(c)
  BY <1>6, <1>8, <1>12, ConcatUncovered
<1>14. /\ c \in Seq(Entry)
       /\ \A i \in DOMAIN c : \/ \E j \in DOMAIN inside : c[i] = inside[j]
                              \/ \E j \in DOMAIN taken : c[i] = taken[j]
       /\ \A j \in DOMAIN inside : j \in DOMAIN c /\ c[j] = inside[j]
       /\ \A j \in DOMAIN taken : \E i \in DOMAIN c : c[i] = taken[j]
  BY <1>6, <1>8, ConcatEntries
<1>15. Chrooted(t, top) \o Picked(t, S) = c
  BY <1>2 DEF taken
<1> HIDE DEF c
<1>16. c \in Table
  <2>1. 1 \in DOMAIN c /\ c[1].at = Root
    BY <1>10, <1>14
  <2>2. Len(c) > 0
    BY <1>14, <2>1
  <2> QED
    BY <1>14, <2>1, <2>2 DEF Table
<1>17. \A i \in DOMAIN c :
            \/ \E j \in DOMAIN t : IsPrefix(top, t[j].at) /\ c[i] = Rebased(t[j], top, Root)
            \/ \E s \in S : c[i] = t[s]
  <2> TAKE i \in DOMAIN c
  <2>1. CASE \E j \in DOMAIN inside : c[i] = inside[j]
    BY <1>1, <1>11, <2>1
  <2>2. CASE \E j \in DOMAIN taken : c[i] = taken[j]
    BY <1>6, <2>2
  <2> QED
    BY <1>14, <2>1, <2>2
<1>18. \A s \in S : \E i \in DOMAIN c : c[i] = t[s]
  BY <1>6, <1>14
<1> QED
  BY <1>13, <1>15, <1>16, <1>17, <1>18
=============================================================================
