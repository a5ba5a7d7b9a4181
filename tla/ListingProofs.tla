---------------------------- MODULE ListingProofs ----------------------------
(***************************************************************************)
(* Paging, for any names, queries and changes.  First the operators: that  *)
(* names are ordered, that a finite set of rows can be sorted and cut, and *)
(* that keys and their files are two forms of the same thing; then the     *)
(* pages: no row comes twice, none is left out, none is invented.          *)
(***************************************************************************)
EXTENDS Listing, FiniteSetTheorems, SequenceTheorems, TLAPS

-----------------------------------------------------------------------------
(***************************************************************************)
(* Least elements, and ranks in a finite order                             *)
(***************************************************************************)

\* A set of numbers has a least element: what stands in for induction.
LEMMA LeastNumber ==
  ASSUME NEW T \in SUBSET Nat, T # {}
  PROVE  \E n \in T : \A m \in T : n <= m
<1>1. PICK R : R = OpToRel(<, Nat)
  BY Zenon
<1>2. \A a, b \in Nat : a < b => <<a, b>> \in R
  BY <1>1, Zenon DEF OpToRel
<1>3. IsWellFoundedOn(R, Nat)
  BY <1>1, NatLessThanWellFounded, Zenon
<1>4. PICK n \in T : \A m \in T : ~(<<m, n>> \in R)
  BY <1>3, WFMin
<1>5. \A m \in T : ~(m < n)
  BY <1>2, <1>4
<1>. QED  BY <1>5

\* A bounded one has a greatest.
LEMMA GreatestNumber ==
  ASSUME NEW T \in SUBSET Nat, T # {}, NEW b \in Nat, \A n \in T : n <= b
  PROVE  \E n \in T : \A m \in T : m <= n
<1>. DEFINE U == {d \in Nat : \E n \in T : d = b - n}
<1>1. U \in SUBSET Nat /\ U # {}
  <2>1. PICK n \in T : TRUE
    OBVIOUS
  <2>2. b - n \in U
    BY <2>1
  <2>. QED  BY <2>2
<1>. HIDE DEF U
<1>2. PICK d \in U : \A e \in U : d <= e
  BY <1>1, LeastNumber
<1>3. PICK n \in T : d = b - n
  BY <1>2 DEF U
<1>4. ASSUME NEW m \in T PROVE m <= n
  <2>1. b - m \in U
    BY DEF U
  <2>. QED  BY <1>2, <1>3, <2>1
<1>. QED  BY <1>4

LEMMA InjectionIs ==
  ASSUME NEW S, NEW T, NEW f \in [S -> T], \A x, y \in S : f[x] = f[y] => x = y
  PROVE  f \in Injection(S, T)
  BY DEF Injection, IsInjective

\* A strict total order on S, as a set of pairs.
Ordered(S, R) ==
  /\ \A x \in S : <<x, x>> \notin R
  /\ \A x, y \in S : x # y => <<x, y>> \in R \/ <<y, x>> \in R
  /\ \A x, y, z \in S : <<x, y>> \in R /\ <<y, z>> \in R => <<x, z>> \in R

Below(S, R, x) == {y \in S : <<y, x>> \in R}

\* In a finite order each place is somebody's, and the places agree with the order.
LEMMA RankedPlaces ==
  ASSUME NEW S, IsFiniteSet(S), NEW R, Ordered(S, R)
  PROVE  /\ \A x \in S : Cardinality(Below(S, R, x)) \in 0 .. Cardinality(S) - 1
         /\ \A x, y \in S : <<x, y>> \in R =>
              Cardinality(Below(S, R, x)) < Cardinality(Below(S, R, y))
         /\ \A i \in 0 .. Cardinality(S) - 1 :
              \E x \in S : Cardinality(Below(S, R, x)) = i
<1>. DEFINE rank(x) == Cardinality(Below(S, R, x))
            N == Cardinality(S)
<1>1. N \in Nat
  BY FS_CardinalityType
<1>2. \A x \in S : IsFiniteSet(Below(S, R, x)) /\ rank(x) \in Nat
  <2>1. \A x \in S : Below(S, R, x) \in SUBSET S
    BY DEF Below
  <2>2. \A x \in S : IsFiniteSet(Below(S, R, x))
    BY <2>1, FS_Subset
  <2>. QED  BY <2>2, FS_CardinalityType
<1>3. ASSUME NEW x \in S PROVE rank(x) \in 0 .. N - 1
  <2>1. Below(S, R, x) \in SUBSET S /\ x \in S /\ x \notin Below(S, R, x)
    BY DEF Below, Ordered
  <2>2. rank(x) <= N /\ (N = rank(x) => S = Below(S, R, x))
    BY <2>1, FS_Subset
  <2>3. rank(x) # N
    BY <2>1, <2>2
  <2>. QED  BY <1>1, <1>2, <2>2, <2>3
<1>4. ASSUME NEW x \in S, NEW y \in S, <<x, y>> \in R PROVE rank(x) < rank(y)
  <2>1. Below(S, R, x) \in SUBSET Below(S, R, y)
    BY <1>4 DEF Below, Ordered
  <2>2. x \in Below(S, R, y) /\ x \notin Below(S, R, x)
    BY <1>4 DEF Below, Ordered
  <2>3. /\ rank(x) <= rank(y)
        /\ rank(y) = rank(x) => Below(S, R, y) = Below(S, R, x)
    BY <1>2, <2>1, FS_Subset
  <2>4. rank(x) # rank(y)
    BY <2>2, <2>3
  <2>. QED  BY <1>2, <2>3, <2>4
<1>5. ASSUME NEW i \in 0 .. N - 1 PROVE \E x \in S : rank(x) = i
  <2>. DEFINE f == [x \in S |-> rank(x)]
  <2>1. f \in Injection(S, 0 .. N - 1)
    <3>1. f \in [S -> 0 .. N - 1]
      BY <1>3
    <3>2. ASSUME NEW x \in S, NEW y \in S, f[x] = f[y] PROVE x = y
      <4>1. ~(rank(x) < rank(y)) /\ ~(rank(y) < rank(x))
        BY <1>2, <3>2
      <4>. QED  BY <1>4, <4>1 DEF Ordered
    <3>. HIDE DEF f
    <3>. QED  BY <3>1, <3>2, InjectionIs
  <2>2. IsFiniteSet(0 .. N - 1) /\ Cardinality(0 .. N - 1) = N
    BY <1>1, FS_Interval
  <2>3. f \in Surjection(S, 0 .. N - 1)
    <3>. HIDE DEF f
    <3>. QED  BY <2>1, <2>2, FS_Injection
  <2>4. \E x \in S : f[x] = i
    <3>. HIDE DEF f
    <3>. QED  BY <2>3 DEF Surjection
  <2>. QED  BY <2>4
<1>. QED  BY <1>3, <1>4, <1>5

-----------------------------------------------------------------------------
(***************************************************************************)
(* Sequences, element by element, and their order                          *)
(***************************************************************************)

\* A beginning of a sequence.
LEMMA FrontOf ==
  ASSUME NEW S, NEW s \in Seq(S), NEW n \in 0 .. Len(s)
  PROVE  /\ SubSeq(s, 1, n) \in Seq(S) /\ Len(SubSeq(s, 1, n)) = n
         /\ \A i \in 1 .. n : SubSeq(s, 1, n)[i] = s[i]
<1>1. \A i \in 1 .. n : s[i] \in S
  BY ElementOfSeq
<1>2. /\ SubSeq(s, 1, n) \in Seq(S)
      /\ Len(SubSeq(s, 1, n)) = IF 1 <= n THEN n - 1 + 1 ELSE 0
      /\ \A i \in 1 .. n - 1 + 1 : SubSeq(s, 1, n)[i] = s[1 + i - 1]
  BY <1>1, SubSeqProperties
<1>. QED  BY <1>2

LEMMA SameFront ==
  ASSUME NEW S, NEW s \in Seq(S), NEW t \in Seq(S),
         NEW n \in 0 .. Len(s), n \in 0 .. Len(t)
  PROVE  SubSeq(s, 1, n) = SubSeq(t, 1, n) <=> \A i \in 1 .. n : s[i] = t[i]
<1>. DEFINE u == SubSeq(s, 1, n)
            v == SubSeq(t, 1, n)
<1>1. /\ u \in Seq(S) /\ Len(u) = n /\ \A i \in 1 .. n : u[i] = s[i]
      /\ v \in Seq(S) /\ Len(v) = n /\ \A i \in 1 .. n : v[i] = t[i]
  BY FrontOf
<1>. HIDE DEF u, v
<1>2. (\A i \in 1 .. n : s[i] = t[i]) => u = v
  BY <1>1, SeqEqual
<1>3. u = v => \A i \in 1 .. n : s[i] = t[i]
  BY <1>1
<1>4. u = v <=> \A i \in 1 .. n : s[i] = t[i]
  BY <1>2, <1>3
<1>. QED  BY <1>4 DEF u, v

LEMMA PrefixIs ==
  ASSUME NEW S, NEW s \in Seq(S), NEW t \in Seq(S)
  PROVE  IsPrefix(s, t) <=> Len(s) <= Len(t) /\ \A i \in 1 .. Len(s) : s[i] = t[i]
<1>1. CASE Len(s) <= Len(t)
  BY <1>1, SameFront DEF IsPrefix
<1>2. CASE ~(Len(s) <= Len(t))
  BY <1>2 DEF IsPrefix
<1>. QED  BY <1>1, <1>2

\* n is the first place in which s and t differ, and there s comes first.
FirstAt(s, t, n) ==
  /\ n \in 1 .. Len(t) /\ n <= Len(s) + 1
  /\ \A i \in 1 .. n - 1 : s[i] = t[i]
  /\ n <= Len(s) => s[n] < t[n]

LEMMA PrecedesAt ==
  ASSUME NEW s \in Seq(Nat), NEW t \in Seq(Nat)
  PROVE  Precedes(s, t) <=> \E n \in Nat : FirstAt(s, t, n)
<1>1. IsStrictPrefix(s, t) <=>
        Len(s) < Len(t) /\ \A i \in 1 .. Len(s) : s[i] = t[i]
  <2>1. Len(s) = Len(t) /\ (\A i \in 1 .. Len(s) : s[i] = t[i]) => s = t
    BY SeqEqual
  <2>. QED  BY <2>1, PrefixIs DEF IsStrictPrefix
<1>2. IsStrictPrefix(s, t) <=> FirstAt(s, t, Len(s) + 1)
  BY <1>1 DEF FirstAt
<1>3. ASSUME NEW n \in 1 .. Len(s), n \in 1 .. Len(t)
      PROVE  SubSeq(s, 1, n - 1) = SubSeq(t, 1, n - 1) /\ s[n] < t[n] <=> FirstAt(s, t, n)
  <2>1. SubSeq(s, 1, n - 1) = SubSeq(t, 1, n - 1) <=> \A i \in 1 .. n - 1 : s[i] = t[i]
    BY <1>3, SameFront
  <2>. QED  BY <1>3, <2>1 DEF FirstAt
<1>4. \A n \in Nat : FirstAt(s, t, n) =>
        n = Len(s) + 1 \/ (n \in 1 .. Len(s) /\ n \in 1 .. Len(t))
  BY DEF FirstAt
<1>5. DOMAIN s = 1 .. Len(s) /\ DOMAIN t = 1 .. Len(t)
  OBVIOUS
<1>6. ASSUME Precedes(s, t) PROVE \E n \in Nat : FirstAt(s, t, n)
  <2>1. CASE IsStrictPrefix(s, t)
    <3>1. Len(s) + 1 \in Nat
      OBVIOUS
    <3>. QED  BY <1>2, <2>1, <3>1
  <2>2. CASE ~IsStrictPrefix(s, t)
    <3>1. PICK n \in DOMAIN s \cap DOMAIN t :
            SubSeq(s, 1, n - 1) = SubSeq(t, 1, n - 1) /\ s[n] < t[n]
      BY <1>6, <2>2 DEF Precedes
    <3>2. n \in 1 .. Len(s) /\ n \in 1 .. Len(t) /\ n \in Nat
      BY <1>5, <3>1
    <3>3. FirstAt(s, t, n)
      BY <1>3, <3>1, <3>2
    <3>. QED  BY <3>2, <3>3
  <2>. QED  BY <2>1, <2>2
<1>7. ASSUME NEW n \in Nat, FirstAt(s, t, n) PROVE Precedes(s, t)
  BY <1>2, <1>3, <1>4, <1>5, <1>7 DEF Precedes
<1>. QED  BY <1>6, <1>7

\* No name comes before itself, of two one comes first, and the order is transitive.
LEMMA PrecedesOrders ==
  /\ \A s \in Seq(Nat) : ~Precedes(s, s)
  /\ \A s, t \in Seq(Nat) : s # t => Precedes(s, t) \/ Precedes(t, s)
  /\ \A s, t, u \in Seq(Nat) : Precedes(s, t) /\ Precedes(t, u) => Precedes(s, u)
<1>1. ASSUME NEW s \in Seq(Nat) PROVE ~Precedes(s, s)
  <2>1. \A n \in 1 .. Len(s) : s[n] \in Nat
    OBVIOUS
  <2>2. \A n \in Nat : ~FirstAt(s, s, n)
    BY <2>1 DEF FirstAt
  <2>. QED  BY <2>2, PrecedesAt
<1>2. ASSUME NEW s \in Seq(Nat), NEW t \in Seq(Nat), s # t
      PROVE  Precedes(s, t) \/ Precedes(t, s)
  <2>. DEFINE D == {n \in Nat : /\ n >= 1 /\ n <= Len(s) + 1 /\ n <= Len(t) + 1
                                /\ \/ n = Len(s) + 1 \/ n = Len(t) + 1
                                   \/ s[n] # t[n]}
  <2>1. D \in SUBSET Nat /\ D # {}
    <3>1. CASE Len(s) <= Len(t)
      <4>1. Len(s) + 1 \in D
        BY <3>1
      <4>. QED  BY <4>1
    <3>2. CASE Len(t) <= Len(s)
      <4>1. Len(t) + 1 \in D
        BY <3>2
      <4>. QED  BY <4>1
    <3>. QED  BY <3>1, <3>2
  <2>2. PICK n \in D : \A m \in D : n <= m
    <3>. HIDE DEF D
    <3>. QED  BY <2>1, LeastNumber
  <2>3. \A i \in 1 .. n - 1 : s[i] = t[i]
    <3>1. ASSUME NEW i \in 1 .. n - 1, s[i] # t[i] PROVE FALSE
      <4>0. n \in Nat /\ n <= Len(s) + 1 /\ n <= Len(t) + 1
        BY <2>2
      <4>1. i \in Nat /\ i >= 1 /\ i <= Len(s) + 1 /\ i <= Len(t) + 1 /\ i < n
        BY <4>0
      <4>2. i \in D
        BY <3>1, <4>1
      <4>. QED  BY <2>2, <4>1, <4>2
    <3>. QED  BY <3>1
  <2>4. ~(n = Len(s) + 1 /\ n = Len(t) + 1)
    BY <1>2, <2>3, SeqEqual
  <2>5. n \in Nat /\ n >= 1 /\ n <= Len(s) + 1 /\ n <= Len(t) + 1
    BY <2>2
  <2>6. CASE n = Len(s) + 1
    <3>1. FirstAt(s, t, n)
      BY <2>3, <2>4, <2>5, <2>6 DEF FirstAt
    <3>. QED  BY <2>5, <3>1, PrecedesAt
  <2>7. CASE n = Len(t) + 1
    <3>1. FirstAt(t, s, n)
      BY <2>3, <2>4, <2>5, <2>7 DEF FirstAt
    <3>. QED  BY <2>5, <3>1, PrecedesAt
  <2>8. CASE n # Len(s) + 1 /\ n # Len(t) + 1
    <3>1. n \in 1 .. Len(s) /\ n \in 1 .. Len(t) /\ s[n] # t[n]
      BY <2>2, <2>5, <2>8
    <3>2. s[n] \in Nat /\ t[n] \in Nat
      BY <3>1
    <3>3. FirstAt(s, t, n) \/ FirstAt(t, s, n)
      BY <2>3, <3>1, <3>2 DEF FirstAt
    <3>. QED  BY <2>5, <3>3, PrecedesAt
  <2>. QED  BY <2>6, <2>7, <2>8
<1>3. ASSUME NEW s \in Seq(Nat), NEW t \in Seq(Nat), NEW u \in Seq(Nat),
             Precedes(s, t), Precedes(t, u)
      PROVE  Precedes(s, u)
  <2>1. PICK m \in Nat : FirstAt(s, t, m)
    BY <1>3, PrecedesAt
  <2>2. PICK n \in Nat : FirstAt(t, u, n)
    BY <1>3, PrecedesAt
  <2>3. /\ \A i \in 1 .. Len(s) : s[i] \in Nat
        /\ \A i \in 1 .. Len(t) : t[i] \in Nat
        /\ \A i \in 1 .. Len(u) : u[i] \in Nat
        /\ Len(s) \in Nat /\ Len(t) \in Nat /\ Len(u) \in Nat
    OBVIOUS
  <2>4. CASE m <= n
    <3>1. m \in 1 .. Len(u) /\ m <= Len(s) + 1
      BY <2>1, <2>2, <2>3, <2>4 DEF FirstAt
    <3>2. \A i \in 1 .. m - 1 : s[i] = u[i]
      <4>1. ASSUME NEW i \in 1 .. m - 1 PROVE s[i] = t[i] /\ t[i] = u[i]
        <5>1. i \in 1 .. m - 1 /\ i \in 1 .. n - 1
          BY <2>4
        <5>. QED  BY <2>1, <2>2, <5>1 DEF FirstAt
      <4>. QED  BY <4>1
    <3>3. ASSUME m <= Len(s) PROVE s[m] < u[m]
      <4>1. m \in 1 .. Len(t) /\ s[m] < t[m]
        BY <2>1, <3>3 DEF FirstAt
      <4>2. t[m] = u[m] \/ t[m] < u[m]
        <5>1. CASE m = n
          <6>1. m <= Len(t)
            BY <4>1
          <6>. QED  BY <2>2, <5>1, <6>1 DEF FirstAt
        <5>2. CASE m # n
          <6>1. m \in 1 .. n - 1
            BY <2>4, <4>1, <5>2
          <6>. QED  BY <2>2, <6>1 DEF FirstAt
        <5>. QED  BY <5>1, <5>2
      <4>3. m \in 1 .. Len(s)
        BY <2>3, <3>3, <4>1
      <4>4. s[m] \in Nat /\ t[m] \in Nat /\ u[m] \in Nat
        BY <2>3, <3>1, <4>1, <4>3
      <4>5. \A x, y, z \in Nat : x < y /\ (y = z \/ y < z) => x < z
        OBVIOUS
      <4>. QED  BY <4>1, <4>2, <4>4, <4>5, Zenon
    <3>4. FirstAt(s, u, m)
      BY <3>1, <3>2, <3>3 DEF FirstAt
    <3>. QED  BY <3>4, PrecedesAt
  <2>5. CASE n < m
    <3>1. n \in 1 .. Len(u) /\ n <= Len(s) + 1
      BY <2>1, <2>2, <2>3, <2>5 DEF FirstAt
    <3>2. \A i \in 1 .. n - 1 : s[i] = u[i]
      <4>1. ASSUME NEW i \in 1 .. n - 1 PROVE s[i] = t[i] /\ t[i] = u[i]
        <5>1. i \in 1 .. m - 1 /\ i \in 1 .. n - 1
          BY <2>5
        <5>. QED  BY <2>1, <2>2, <5>1 DEF FirstAt
      <4>. QED  BY <4>1
    <3>3. n <= Len(s) => s[n] < u[n]
      BY <2>1, <2>2, <2>3, <3>1, <2>5 DEF FirstAt
    <3>4. FirstAt(s, u, n)
      BY <3>1, <3>2, <3>3 DEF FirstAt
    <3>. QED  BY <3>4, PrecedesAt
  <2>. QED  BY <2>4, <2>5
<1>. QED  BY <1>1, <1>2, <1>3

-----------------------------------------------------------------------------
(***************************************************************************)
(* Rows: sorting them and cutting a page                                   *)
(***************************************************************************)

\* Rows that their names tell apart.
Listable(rows) ==
  /\ IsFiniteSet(rows)
  /\ \A r \in rows : r.name \in Seq(Nat)
  /\ \A r, s \in rows : r.name = s.name => r = s

LEMMA ListableSubset ==
  ASSUME NEW rows, Listable(rows), NEW some \in SUBSET rows
  PROVE  Listable(some)
<1>1. IsFiniteSet(some)
  BY FS_Subset DEF Listable
<1>. QED  BY <1>1 DEF Listable

LEMMA RowsRanked ==
  ASSUME NEW rows, Listable(rows)
  PROVE  /\ Cardinality(rows) \in Nat
         /\ \A r \in rows : Rank(rows, r) \in 0 .. Cardinality(rows) - 1
         /\ \A r, s \in rows : Before(r, s) => Rank(rows, r) < Rank(rows, s)
         /\ \A r, s \in rows : r # s => Before(r, s) \/ Before(s, r)
         /\ \A i \in 0 .. Cardinality(rows) - 1 : \E r \in rows : Rank(rows, r) = i
<1>1. PICK R : R = {x \in rows \X rows : Before(x[1], x[2])}
  OBVIOUS
<1>2. \A r, s \in rows : <<r, s>> \in R <=> Before(r, s)
  BY <1>1
<1>3. /\ \A r \in rows : ~Before(r, r)
      /\ \A r, s \in rows : r # s => Before(r, s) \/ Before(s, r)
      /\ \A r, s, t \in rows : Before(r, s) /\ Before(s, t) => Before(r, t)
  BY PrecedesOrders DEF Listable, Before
<1>4. Ordered(rows, R)
  BY <1>2, <1>3 DEF Ordered
<1>5. \A r \in rows : Rank(rows, r) = Cardinality(Below(rows, R, r))
  <2>1. ASSUME NEW r \in rows PROVE {s \in rows : Before(s, r)} = Below(rows, R, r)
    BY <1>2 DEF Below
  <2>. QED  BY <2>1 DEF Rank
<1>6. /\ \A r \in rows : Cardinality(Below(rows, R, r)) \in 0 .. Cardinality(rows) - 1
      /\ \A r, s \in rows : <<r, s>> \in R =>
           Cardinality(Below(rows, R, r)) < Cardinality(Below(rows, R, s))
      /\ \A i \in 0 .. Cardinality(rows) - 1 :
           \E r \in rows : Cardinality(Below(rows, R, r)) = i
  BY <1>4, RankedPlaces DEF Listable
<1>7. Cardinality(rows) \in Nat
  BY FS_CardinalityType DEF Listable
<1>8. \A r \in rows : Rank(rows, r) \in 0 .. Cardinality(rows) - 1
  BY <1>5, <1>6
<1>9. \A r, s \in rows : Before(r, s) => Rank(rows, r) < Rank(rows, s)
  BY <1>2, <1>5, <1>6
<1>10. ASSUME NEW i \in 0 .. Cardinality(rows) - 1 PROVE \E r \in rows : Rank(rows, r) = i
  BY <1>5, <1>6
<1>. QED  BY <1>3, <1>7, <1>8, <1>9, <1>10

\* Sorted has each row once, in the order of the names.
LEMMA SortedIs ==
  ASSUME NEW rows, Listable(rows)
  PROVE  /\ Sorted(rows) \in Seq(rows)
         /\ \A n \in 1 .. Len(Sorted(rows)) : Sorted(rows)[n] \in rows
         /\ \A m, n \in 1 .. Len(Sorted(rows)) :
              m < n => Before(Sorted(rows)[m], Sorted(rows)[n])
         /\ \A r \in rows : \E n \in 1 .. Len(Sorted(rows)) : Sorted(rows)[n] = r
<1>. DEFINE N == Cardinality(rows)
            at(n) == CHOOSE r \in rows : Rank(rows, r) = n - 1
<1>1. \A n \in 1 .. N : n - 1 \in 0 .. N - 1
  BY RowsRanked
<1>2. \A n \in 1 .. N : at(n) \in rows /\ Rank(rows, at(n)) = n - 1
  <2>1. ASSUME NEW n \in 1 .. N PROVE \E r \in rows : Rank(rows, r) = n - 1
    BY <1>1, RowsRanked
  <2>. QED  BY <2>1
<1>3. Sorted(rows) = [n \in 1 .. N |-> at(n)]
  BY DEF Sorted
<1>. HIDE DEF at
<1>4. /\ Sorted(rows) \in Seq(rows) /\ Len(Sorted(rows)) = N
      /\ \A n \in 1 .. N : Sorted(rows)[n] = at(n)
  BY <1>2, <1>3, RowsRanked
<1>5. ASSUME NEW m \in 1 .. N, NEW n \in 1 .. N, m < n PROVE Before(at(m), at(n))
  <2>1. at(m) # at(n)
    BY <1>2, <1>5
  <2>2. ~Before(at(n), at(m))
    <3>1. Rank(rows, at(n)) = n - 1 /\ Rank(rows, at(m)) = m - 1
      BY <1>2
    <3>2. Before(at(n), at(m)) => n - 1 < m - 1
      BY <1>2, <3>1, RowsRanked
    <3>. QED  BY <1>5, <3>2
  <2>. QED  BY <1>2, <2>1, <2>2, RowsRanked
<1>6. ASSUME NEW r \in rows PROVE \E n \in 1 .. N : at(n) = r
  <2>1. Rank(rows, r) \in 0 .. N - 1 /\ N \in Nat
    BY RowsRanked
  <2>2. PICK n \in 1 .. N : n - 1 = Rank(rows, r)
    <3>1. PICK k \in 0 .. N - 1 : k = Rank(rows, r)
      BY <2>1
    <3>2. k + 1 \in 1 .. N /\ (k + 1) - 1 = k
      BY <2>1
    <3>. QED  BY <3>1, <3>2
  <2>3. Rank(rows, at(n)) = Rank(rows, r) /\ at(n) \in rows
    BY <1>2, <2>2
  <2>4. ~Before(at(n), r) /\ ~Before(r, at(n))
    <3>1. ~(Rank(rows, r) < Rank(rows, r))
      BY <2>1
    <3>. QED  BY <2>3, <3>1, RowsRanked
  <2>. QED  BY <2>3, <2>4, RowsRanked
<1>. QED  BY <1>2, <1>4, <1>5, <1>6

\* What is cut off comes behind the page, and a page that is cut is not empty.
LEMMA CutIs ==
  ASSUME NEW rows, Listable(rows), NEW size \in Nat \ {0}
  PROVE  /\ Cut(rows, size) \subseteq rows
         /\ \A r \in Cut(rows, size), s \in rows \ Cut(rows, size) : Before(r, s)
         /\ Cut(rows, size) # rows => Cut(rows, size) # {}
<1>1. Cut(rows, size) \subseteq rows
  BY DEF Cut
<1>2. ASSUME NEW r \in Cut(rows, size), NEW s \in rows \ Cut(rows, size)
      PROVE  Before(r, s)
  <2>1. Rank(rows, r) < size /\ ~(Rank(rows, s) < size) /\ r \in rows /\ s \in rows
    BY DEF Cut
  <2>2. ~(Rank(rows, s) < Rank(rows, r)) /\ r # s
    BY <2>1, RowsRanked
  <2>. QED  BY <2>1, <2>2, RowsRanked
<1>3. ASSUME Cut(rows, size) # rows PROVE Cut(rows, size) # {}
  <2>1. PICK r \in rows : TRUE
    BY <1>1, <1>3
  <2>2. 0 \in 0 .. Cardinality(rows) - 1
    BY <2>1, RowsRanked
  <2>3. PICK s \in rows : Rank(rows, s) = 0
    BY <2>2, RowsRanked
  <2>4. s \in Cut(rows, size)
    BY <2>3 DEF Cut
  <2>. QED  BY <2>4
<1>. QED  BY <1>1, <1>2, <1>3

LEMMA LastRowIs ==
  ASSUME NEW rows, Listable(rows), rows # {}
  PROVE  /\ LastRow(rows) \in rows
         /\ \A r \in rows : r = LastRow(rows) \/ Before(r, LastRow(rows))
<1>1. PICK r \in rows : TRUE
  OBVIOUS
<1>2. Cardinality(rows) - 1 \in 0 .. Cardinality(rows) - 1
  BY <1>1, RowsRanked
<1>3. PICK l \in rows : Rank(rows, l) = Cardinality(rows) - 1
  BY <1>2, RowsRanked
<1>4. \A s \in rows : ~Before(l, s)
  <2>1. ASSUME NEW s \in rows, Before(l, s) PROVE FALSE
    <3>1. Rank(rows, l) < Rank(rows, s) /\ Rank(rows, s) \in 0 .. Cardinality(rows) - 1
      BY <2>1, RowsRanked
    <3>. QED  BY <1>3, <3>1, RowsRanked
  <2>. QED  BY <2>1
<1>5. LastRow(rows) \in rows /\ \A s \in rows : ~Before(LastRow(rows), s)
  BY <1>4 DEF LastRow
<1>. QED  BY <1>5, RowsRanked

-----------------------------------------------------------------------------
(***************************************************************************)
(* The row a key is in                                                     *)
(***************************************************************************)

\* The rest of a sequence.
LEMMA RestOf ==
  ASSUME NEW S, NEW s \in Seq(S), NEW m \in 1 .. Len(s) + 1, NEW n \in m - 1 .. Len(s)
  PROVE  /\ SubSeq(s, m, n) \in Seq(S) /\ Len(SubSeq(s, m, n)) = n - m + 1
         /\ \A i \in 1 .. n - m + 1 : SubSeq(s, m, n)[i] = s[m + i - 1]
<1>1. \A i \in m .. n : s[i] \in S
  BY ElementOfSeq
<1>2. /\ SubSeq(s, m, n) \in Seq(S)
      /\ Len(SubSeq(s, m, n)) = IF m <= n THEN n - m + 1 ELSE 0
      /\ \A i \in 1 .. n - m + 1 : SubSeq(s, m, n)[i] = s[m + i - 1]
  BY <1>1, SubSeqProperties
<1>. QED  BY <1>2

LEMMA CutsAre ==
  ASSUME NEW key \in Seq(Nat), NEW q \in Query
  PROVE  \A n \in Nat : n \in Cuts(key, q) <=>
           /\ n > Len(q.prefix) /\ n <= Len(key)
           /\ n + Len(q.delimiter) - 1 <= Len(key)
           /\ \A i \in 1 .. Len(q.delimiter) : q.delimiter[i] = key[n + i - 1]
<1>0. /\ q.prefix \in Seq(Nat) /\ Len(q.prefix) \in Nat
      /\ q.delimiter \in Seq(Nat) /\ Len(q.delimiter) \in Nat
  BY DEF Query
<1>1. ASSUME NEW n \in Nat, n > Len(q.prefix), n <= Len(key)
      PROVE  IsPrefix(q.delimiter, SubSeq(key, n, Len(key))) <=>
               /\ n + Len(q.delimiter) - 1 <= Len(key)
               /\ \A i \in 1 .. Len(q.delimiter) : q.delimiter[i] = key[n + i - 1]
  <2>. DEFINE rest == SubSeq(key, n, Len(key))
  <2>1. /\ rest \in Seq(Nat) /\ Len(rest) = Len(key) - n + 1
        /\ \A i \in 1 .. Len(key) - n + 1 : rest[i] = key[n + i - 1]
    BY <1>0, <1>1, RestOf
  <2>. HIDE DEF rest
  <2>2. IsPrefix(q.delimiter, rest) <=>
          /\ Len(q.delimiter) <= Len(rest)
          /\ \A i \in 1 .. Len(q.delimiter) : q.delimiter[i] = rest[i]
    <3>1. PICK d \in Seq(Nat), r \in Seq(Nat) : d = q.delimiter /\ r = rest
      BY <1>0, <2>1
    <3>2. IsPrefix(d, r) <=> Len(d) <= Len(r) /\ \A i \in 1 .. Len(d) : d[i] = r[i]
      BY PrefixIs
    <3>. QED  BY <3>1, <3>2
  <2>3. Len(q.delimiter) <= Len(rest) <=> n + Len(q.delimiter) - 1 <= Len(key)
    BY <1>0, <1>1, <2>1
  <2>4. Len(q.delimiter) <= Len(rest) =>
          \A i \in 1 .. Len(q.delimiter) : rest[i] = key[n + i - 1]
    BY <1>0, <1>1, <2>1
  <2>5. IsPrefix(q.delimiter, rest) <=>
          /\ n + Len(q.delimiter) - 1 <= Len(key)
          /\ \A i \in 1 .. Len(q.delimiter) : q.delimiter[i] = key[n + i - 1]
    BY <2>2, <2>3, <2>4
  <2>. QED  BY <2>5 DEF rest
<1>2. \A n \in Nat : n \in Len(q.prefix) + 1 .. Len(key) <=>
        n > Len(q.prefix) /\ n <= Len(key)
  BY <1>0
<1>. QED  BY <1>1, <1>2 DEF Cuts

Rolls(key, q) == q.delimiter # <<>> /\ Cuts(key, q) # {}

LEMMA FirstCut ==
  ASSUME NEW key \in Seq(Nat), NEW q \in Query, Rolls(key, q)
  PROVE  \E n \in Cuts(key, q) :
           /\ n \in Nat /\ \A o \in Cuts(key, q) : n <= o
           /\ RowOf(key, q) = Row(SubSeq(key, 1, n + Len(q.delimiter) - 1), TRUE)
<1>1. Cuts(key, q) \in SUBSET Nat
  BY DEF Cuts, Query
<1>2. \E n \in Cuts(key, q) : \A o \in Cuts(key, q) : n <= o
  BY <1>1, LeastNumber DEF Rolls
<1>. DEFINE first == CHOOSE m \in Cuts(key, q) : \A o \in Cuts(key, q) : m <= o
<1>3. first \in Cuts(key, q) /\ \A o \in Cuts(key, q) : first <= o
  BY <1>2
<1>4. RowOf(key, q) = Row(SubSeq(key, 1, first + Len(q.delimiter) - 1), TRUE)
  BY DEF RowOf, Rolls
<1>. QED  BY <1>1, <1>3, <1>4

\* A row is a beginning of the key that has the prefix, or the key itself.
LEMMA RowIs ==
  ASSUME NEW key \in Seq(Nat), key # <<>>, NEW q \in Query, IsPrefix(q.prefix, key)
  PROVE  /\ RowOf(key, q) \in [name : Seq(Nat), rolled : BOOLEAN]
         /\ RowOf(key, q).name # <<>>
         /\ IsPrefix(q.prefix, RowOf(key, q).name)
         /\ ~RowOf(key, q).rolled => RowOf(key, q).name = key
<1>0. /\ q.prefix \in Seq(Nat) /\ Len(q.prefix) \in Nat
      /\ q.delimiter \in Seq(Nat) /\ Len(q.delimiter) \in Nat
  BY DEF Query
<1>1. CASE Rolls(key, q)
  <2>1. PICK n \in Cuts(key, q) :
          n \in Nat /\ RowOf(key, q) = Row(SubSeq(key, 1, n + Len(q.delimiter) - 1), TRUE)
    BY <1>1, FirstCut
  <2>2. n > Len(q.prefix) /\ n + Len(q.delimiter) - 1 <= Len(key)
    BY <2>1, CutsAre
  <2>3. Len(q.delimiter) >= 1
    BY <1>0, <1>1 DEF Rolls
  <2>4. PICK e \in 0 .. Len(key) : e = n + Len(q.delimiter) - 1 /\ e > Len(q.prefix)
    <3>1. n + Len(q.delimiter) - 1 \in 0 .. Len(key)
      BY <1>0, <2>1, <2>2, <2>3
    <3>2. n + Len(q.delimiter) - 1 > Len(q.prefix)
      BY <1>0, <2>1, <2>2, <2>3
    <3>. QED  BY <3>1, <3>2
  <2>5. PICK name : name = SubSeq(key, 1, e)
    OBVIOUS
  <2>6. name \in Seq(Nat) /\ Len(name) = e /\ \A i \in 1 .. e : name[i] = key[i]
    BY <2>5, FrontOf
  <2>7. RowOf(key, q) = [name |-> name, rolled |-> TRUE]
    BY <2>1, <2>4, <2>5 DEF Row
  <2>8. name # <<>> /\ IsPrefix(q.prefix, name)
    <3>1. PICK p \in Seq(Nat) : p = q.prefix /\ Len(p) \in Nat
      BY <1>0
    <3>2. Len(p) <= Len(key) /\ \A i \in 1 .. Len(p) : p[i] = key[i]
      BY <3>1, PrefixIs
    <3>3. Len(p) <= Len(name) /\ \A i \in 1 .. Len(p) : p[i] = name[i]
      BY <2>4, <2>6, <3>1, <3>2
    <3>4. IsPrefix(p, name)
      BY <2>6, <3>1, <3>3, PrefixIs
    <3>. QED  BY <2>4, <2>6, <3>1, <3>4
  <2>. QED  BY <2>6, <2>7, <2>8
<1>2. CASE ~Rolls(key, q)
  BY <1>2 DEF RowOf, Rolls, Row
<1>. QED  BY <1>1, <1>2

\* A key that is listed itself and keys that are rolled up never have the same name.
LEMMA RowsTold ==
  ASSUME NEW j \in Seq(Nat), NEW k \in Seq(Nat), NEW q \in Query,
         RowOf(j, q).name = RowOf(k, q).name
  PROVE  RowOf(j, q) = RowOf(k, q)
<1>1. ASSUME NEW a \in Seq(Nat), NEW b \in Seq(Nat), Rolls(a, q), ~Rolls(b, q),
             RowOf(a, q).name = RowOf(b, q).name
      PROVE  FALSE
  <2>0. /\ q.prefix \in Seq(Nat) /\ Len(q.prefix) \in Nat
        /\ q.delimiter \in Seq(Nat) /\ Len(q.delimiter) \in Nat /\ Len(q.delimiter) >= 1
    BY <1>1 DEF Query, Rolls
  <2>1. PICK n \in Cuts(a, q) :
          n \in Nat /\ RowOf(a, q) = Row(SubSeq(a, 1, n + Len(q.delimiter) - 1), TRUE)
    BY <1>1, FirstCut
  <2>2. /\ n > Len(q.prefix) /\ n + Len(q.delimiter) - 1 <= Len(a)
        /\ \A i \in 1 .. Len(q.delimiter) : q.delimiter[i] = a[n + i - 1]
    BY <2>1, CutsAre
  <2>3. PICK e \in 0 .. Len(a) : e = n + Len(q.delimiter) - 1
    <3>1. n + Len(q.delimiter) - 1 \in 0 .. Len(a)
      BY <2>0, <2>1, <2>2
    <3>. QED  BY <3>1
  <2>4. RowOf(b, q).name = b
    BY <1>1 DEF RowOf, Rolls, Row
  <2>5. b = SubSeq(a, 1, e)
    BY <1>1, <2>1, <2>3, <2>4 DEF Row
  <2>6. Len(b) = e /\ \A i \in 1 .. e : b[i] = a[i]
    BY <2>5, FrontOf
  <2>7. \A i \in 1 .. Len(q.delimiter) : q.delimiter[i] = b[n + i - 1]
    <3>1. \A i \in 1 .. Len(q.delimiter) : n + i - 1 \in 1 .. e
      BY <2>0, <2>1, <2>2, <2>3
    <3>. QED  BY <2>2, <2>6, <3>1
  <2>8. n \in Cuts(b, q)
    <3>1. n > Len(q.prefix) /\ n <= Len(b) /\ n + Len(q.delimiter) - 1 <= Len(b)
      BY <2>0, <2>1, <2>2, <2>3, <2>6
    <3>. QED  BY <2>1, <2>7, <3>1, CutsAre
  <2>. QED  BY <1>1, <2>8 DEF Rolls
<1>2. Rolls(j, q) <=> Rolls(k, q)
  BY <1>1
<1>3. ASSUME NEW a \in Seq(Nat), Rolls(a, q)
      PROVE  RowOf(a, q) = [name |-> RowOf(a, q).name, rolled |-> TRUE]
  <2>1. PICK n, name : RowOf(a, q) = [name |-> name, rolled |-> TRUE]
    BY <1>3, FirstCut DEF Row
  <2>. QED  BY <2>1
<1>4. ASSUME NEW a \in Seq(Nat), ~Rolls(a, q)
      PROVE  RowOf(a, q) = [name |-> RowOf(a, q).name, rolled |-> FALSE]
  BY <1>4 DEF RowOf, Rolls, Row
<1>5. CASE Rolls(j, q)
  BY <1>2, <1>3, <1>5
<1>6. CASE ~Rolls(j, q)
  BY <1>2, <1>4, <1>6
<1>. QED  BY <1>5, <1>6

-----------------------------------------------------------------------------
(***************************************************************************)
(* Keys and their paths                                                    *)
(***************************************************************************)

\* The element of T that has i smaller ones.
Nth(T, i) == CHOOSE c \in T : Cardinality({d \in T : d < c}) = i

LEMMA NthIs ==
  ASSUME NEW T \in SUBSET Nat, IsFiniteSet(T)
  PROVE  /\ Cardinality(T) \in Nat
         /\ \A i \in 0 .. Cardinality(T) - 1 :
              Nth(T, i) \in T /\ Cardinality({d \in T : d < Nth(T, i)}) = i
         /\ \A i, j \in 0 .. Cardinality(T) - 1 : i < j => Nth(T, i) < Nth(T, j)
         /\ \A c \in T : /\ Cardinality({d \in T : d < c}) \in 0 .. Cardinality(T) - 1
                         /\ c = Nth(T, Cardinality({d \in T : d < c}))
<1>. DEFINE N == Cardinality(T)
            below(c) == Cardinality({d \in T : d < c})
<1>1. PICK R : R = {x \in T \X T : x[1] < x[2]}
  OBVIOUS
<1>2. \A c, d \in T : <<c, d>> \in R <=> c < d
  BY <1>1
<1>3. Ordered(T, R)
  <2>1. \A c \in T : c \in Nat
    OBVIOUS
  <2>. QED  BY <1>2, <2>1 DEF Ordered
<1>4. \A c \in T : below(c) = Cardinality(Below(T, R, c))
  <2>1. ASSUME NEW c \in T PROVE {d \in T : d < c} = Below(T, R, c)
    BY <1>2 DEF Below
  <2>. QED  BY <2>1
<1>5. /\ \A c \in T : Cardinality(Below(T, R, c)) \in 0 .. N - 1
      /\ \A c, d \in T : <<c, d>> \in R =>
           Cardinality(Below(T, R, c)) < Cardinality(Below(T, R, d))
      /\ \A i \in 0 .. N - 1 : \E c \in T : Cardinality(Below(T, R, c)) = i
  BY <1>3, RankedPlaces
<1>6. N \in Nat
  BY FS_CardinalityType
<1>7. \A c \in T : below(c) \in 0 .. N - 1
  BY <1>4, <1>5
<1>8. ASSUME NEW c \in T, NEW d \in T, c < d PROVE below(c) < below(d)
  <2>1. Cardinality(Below(T, R, c)) < Cardinality(Below(T, R, d))
    BY <1>2, <1>5, <1>8
  <2>. QED  BY <1>4, <2>1
<1>9. \A c, d \in T : below(c) = below(d) => c = d
  <2>1. ASSUME NEW c \in T, NEW d \in T, below(c) = below(d) PROVE c = d
    <3>1. below(c) \in Nat
      BY <1>7
    <3>2. ~(below(c) < below(d)) /\ ~(below(d) < below(c))
      BY <2>1, <3>1
    <3>3. ~(c < d) /\ ~(d < c) /\ c \in Nat /\ d \in Nat
      BY <1>8, <3>2
    <3>. QED  BY <3>3
  <2>. QED  BY <2>1
<1>10. \A i : Nth(T, i) = CHOOSE c \in T : below(c) = i
  BY DEF Nth
<1>11. \A i \in 0 .. N - 1 : \E c \in T : below(c) = i
  BY <1>4, <1>5
<1>. HIDE DEF below
<1>12. \A i \in 0 .. N - 1 : Nth(T, i) \in T /\ below(Nth(T, i)) = i
  BY <1>10, <1>11
<1>13. ASSUME NEW i \in 0 .. N - 1, NEW j \in 0 .. N - 1, i < j PROVE Nth(T, i) < Nth(T, j)
  <2>1. Nth(T, i) \in Nat /\ Nth(T, j) \in Nat /\ i \in Nat /\ j \in Nat
    <3>1. \A c \in T : c \in Nat
      OBVIOUS
    <3>2. Nth(T, i) \in T /\ Nth(T, j) \in T
      BY <1>12
    <3>3. i \in Nat /\ j \in Nat
      BY <1>6
    <3>. QED  BY <3>1, <3>2, <3>3
  <2>2. CASE Nth(T, i) = Nth(T, j)
    BY <1>12, <1>13, <2>1, <2>2
  <2>3. CASE Nth(T, j) < Nth(T, i)
    <3>1. j < i
      BY <1>8, <1>12, <2>3
    <3>. QED  BY <1>13, <2>1, <3>1
  <2>. QED  BY <2>1, <2>2, <2>3
<1>14. ASSUME NEW c \in T PROVE c = Nth(T, below(c))
  BY <1>7, <1>9, <1>12
<1>. QED  BY <1>6, <1>7, <1>12, <1>13, <1>14 DEF below

\* Where the segments of a name begin and end.
Bounds(name) == {0, Len(name) + 1} \cup {n \in DOMAIN name : name[n] = Slash}

\* How many segments there are.
Segs(name) == Cardinality(Bounds(name)) - 1

\* The slash behind segment i, or the end.
Bound(name, i) == Nth(Bounds(name), i)

LEMMA BoundsAre ==
  ASSUME NEW name \in Seq(Nat)
  PROVE  /\ Segs(name) \in Nat /\ Segs(name) >= 1
         /\ Bounds(name) \in SUBSET Nat /\ IsFiniteSet(Bounds(name))
         /\ \A i \in 0 .. Segs(name) :
              Bound(name, i) \in Bounds(name) /\ Bound(name, i) \in 0 .. Len(name) + 1
         /\ \A i, j \in 0 .. Segs(name) : i < j => Bound(name, i) < Bound(name, j)
         /\ \A c \in Bounds(name) : \E i \in 0 .. Segs(name) : c = Bound(name, i)
         /\ Bound(name, 0) = 0 /\ Bound(name, Segs(name)) = Len(name) + 1
<1>. DEFINE B == Bounds(name)
<1>1. /\ B \in SUBSET Nat /\ 0 \in B /\ Len(name) + 1 \in B /\ Len(name) \in Nat
      /\ \A c \in B : c <= Len(name) + 1
  BY DEF Bounds
<1>2. IsFiniteSet(B)
  BY <1>1, FS_BoundedSetOfNaturals
<1>. HIDE DEF B
<1>3. /\ Cardinality(B) \in Nat
      /\ \A i \in 0 .. Cardinality(B) - 1 : Nth(B, i) \in B
      /\ \A i, j \in 0 .. Cardinality(B) - 1 : i < j => Nth(B, i) < Nth(B, j)
      /\ \A c \in B : \E i \in 0 .. Cardinality(B) - 1 : c = Nth(B, i)
  BY <1>1, <1>2, NthIs
<1>4. PICK z \in 0 .. Cardinality(B) - 1 : Nth(B, z) = 0
  BY <1>1, <1>3
<1>5. PICK e \in 0 .. Cardinality(B) - 1 : Nth(B, e) = Len(name) + 1
  BY <1>1, <1>3
<1>6. \A i \in 0 .. Cardinality(B) - 1 : Nth(B, i) \in Nat /\ Nth(B, i) <= Len(name) + 1
  BY <1>1, <1>3
<1>7. z = 0
  <2>1. ASSUME z > 0 PROVE FALSE
    <3>1. 0 \in 0 .. Cardinality(B) - 1
      BY <1>3
    <3>2. Nth(B, 0) < 0 /\ Nth(B, 0) \in Nat
      BY <1>3, <1>4, <1>6, <2>1, <3>1
    <3>. QED  BY <3>2
  <2>. QED  BY <2>1
<1>8. e = Cardinality(B) - 1
  <2>1. ASSUME e < Cardinality(B) - 1 PROVE FALSE
    <3>1. Cardinality(B) - 1 \in 0 .. Cardinality(B) - 1
      BY <1>3, <1>5
    <3>2. Len(name) + 1 < Nth(B, Cardinality(B) - 1)
      BY <1>3, <1>5, <2>1, <3>1
    <3>3. /\ Nth(B, Cardinality(B) - 1) \in Nat
          /\ Nth(B, Cardinality(B) - 1) <= Len(name) + 1
      BY <1>6, <3>1
    <3>. QED  BY <1>1, <3>2, <3>3
  <2>. QED  BY <1>3, <2>1
<1>9. Cardinality(B) - 1 >= 1
  <2>1. z # e
    BY <1>1, <1>4, <1>5
  <2>. QED  BY <1>3, <1>7, <1>8, <2>1
<1>10. \A c \in B : c \in 0 .. Len(name) + 1
  BY <1>1
<1>. QED  BY <1>1, <1>2, <1>3, <1>4, <1>5, <1>7, <1>8, <1>9, <1>10 DEF B, Segs, Bound

\* The segment between two slashes.
LEMMA SegmentsAre ==
  ASSUME NEW name \in Seq(Nat)
  PROVE  /\ Segments(name) \in Seq(Seq(Nat)) /\ Len(Segments(name)) = Segs(name)
         /\ \A i \in 1 .. Segs(name) :
              Segments(name)[i] = SubSeq(name, Bound(name, i - 1) + 1, Bound(name, i) - 1)
<1>. DEFINE seg(i) == SubSeq(name, Bound(name, i - 1) + 1, Bound(name, i) - 1)
<1>1. Segments(name) = [i \in 1 .. Segs(name) |-> seg(i)]
  BY DEF Segments, Segs, Bounds, Bound, Nth
<1>2. ASSUME NEW i \in 1 .. Segs(name) PROVE seg(i) \in Seq(Nat)
  <2>1. i - 1 \in 0 .. Segs(name) /\ i \in 0 .. Segs(name) /\ i - 1 < i
    BY BoundsAre
  <2>2. /\ Bound(name, i - 1) \in Nat /\ Bound(name, i) \in Nat
        /\ Bound(name, i - 1) < Bound(name, i) /\ Bound(name, i) <= Len(name) + 1
    BY <2>1, BoundsAre
  <2>3. /\ Bound(name, i - 1) + 1 \in 1 .. Len(name) + 1
        /\ Bound(name, i) - 1 \in (Bound(name, i - 1) + 1) - 1 .. Len(name)
    BY <2>2
  <2>. QED  BY <2>3, RestOf
<1>. HIDE DEF seg
<1>3. Segs(name) \in Nat
  BY BoundsAre
<1>4. PICK s : s = [i \in 1 .. Segs(name) |-> seg(i)]
  OBVIOUS
<1>5. s \in Seq(Seq(Nat)) /\ Len(s) = Segs(name) /\ \A i \in 1 .. Segs(name) : s[i] = seg(i)
  BY <1>2, <1>3, <1>4
<1>. QED  BY <1>1, <1>4, <1>5 DEF seg

LEMMA OneMore ==
  ASSUME NEW S, NEW b \in Seq(S), NEW s \in Seq(S), NEW i \in 1 .. Len(s)
  PROVE  b \o SubSeq(s, 1, i) = Append(b \o SubSeq(s, 1, i - 1), s[i])
<1>. DEFINE u == SubSeq(s, 1, i)
            v == SubSeq(s, 1, i - 1)
<1>1. /\ u \in Seq(S) /\ Len(u) = i /\ \A j \in 1 .. i : u[j] = s[j]
      /\ v \in Seq(S) /\ Len(v) = i - 1 /\ \A j \in 1 .. i - 1 : v[j] = s[j]
  <2>1. i \in 0 .. Len(s) /\ i - 1 \in 0 .. Len(s)
    OBVIOUS
  <2>. QED  BY <2>1, FrontOf
<1>. HIDE DEF u, v
<1>2. s[i] \in S
  BY ElementOfSeq
<1>3. /\ b \o u \in Seq(S) /\ b \o v \in Seq(S)
      /\ Len(b \o u) = Len(b) + i /\ Len(b \o v) = Len(b) + i - 1
  BY <1>1, ConcatProperties
<1>4. Append(b \o v, s[i]) \in Seq(S) /\ Len(Append(b \o v, s[i])) = Len(b) + i
  BY <1>2, <1>3
<1>5. ASSUME NEW j \in 1 .. Len(b) + i PROVE (b \o u)[j] = Append(b \o v, s[i])[j]
  <2>1. (b \o u)[j] = IF j <= Len(b) THEN b[j] ELSE u[j - Len(b)]
    BY <1>1, ConcatProperties
  <2>2. j < Len(b) + i => (b \o v)[j] = IF j <= Len(b) THEN b[j] ELSE v[j - Len(b)]
    BY <1>1, ConcatProperties
  <2>3. Append(b \o v, s[i])[j] = IF j < Len(b) + i THEN (b \o v)[j] ELSE s[i]
    BY <1>2, <1>3
  <2>4. CASE j <= Len(b)
    BY <2>1, <2>2, <2>3, <2>4
  <2>5. CASE j > Len(b) /\ j < Len(b) + i
    <3>1. j - Len(b) \in 1 .. i - 1 /\ j - Len(b) \in 1 .. i
      BY <2>5
    <3>. QED  BY <1>1, <2>1, <2>2, <2>3, <2>5, <3>1
  <2>6. CASE j = Len(b) + i
    <3>1. Len(b) \in Nat /\ j - Len(b) = i /\ ~(j <= Len(b)) /\ ~(j < Len(b) + i)
      BY <2>6
    <3>2. (b \o u)[j] = u[i] /\ Append(b \o v, s[i])[j] = s[i]
      BY <2>1, <2>3, <3>1
    <3>3. u[i] = s[i]
      BY <1>1
    <3>. QED  BY <3>2, <3>3
  <2>7. Len(b) \in Nat /\ i \in Nat /\ j \in Nat /\ j <= Len(b) + i
    OBVIOUS
  <2>8. j <= Len(b) \/ (j > Len(b) /\ j < Len(b) + i) \/ j = Len(b) + i
    BY <2>7
  <2>. QED  BY <2>4, <2>5, <2>6, <2>8, Zenon
<1>6. b \o u = Append(b \o v, s[i])
  BY <1>3, <1>4, <1>5, SeqEqual
<1>. QED  BY <1>6 DEF u, v

\* What Join makes of the first i segments when it has `path' of those before.
Joined(base, segs, path, i) ==
  CASE i = 0 -> base
    [] i > 0 /\ segs[i] \in {<<>>, <<Dot>>} -> path[i - 1]
    [] i > 0 /\ segs[i] = <<Dot, Dot>> ->
         SubSeq(path[i - 1], 1, Len(path[i - 1]) - 1)
    [] OTHER -> Append(path[i - 1], segs[i])

\* A segment that is a name.
Clean(seg) == seg \notin {<<>>, <<Dot>>, <<Dot, Dot>>}

LEMMA JoinedIs ==
  ASSUME NEW base, NEW segs, NEW path, NEW i \in Nat
  PROVE  /\ i = 0 => Joined(base, segs, path, i) = base
         /\ i > 0 /\ segs[i] = <<>> => Joined(base, segs, path, i) = path[i - 1]
         /\ i > 0 /\ Clean(segs[i]) =>
              Joined(base, segs, path, i) = Append(path[i - 1], segs[i])
<1>1. CASE i = 0
  BY <1>1 DEF Joined
<1>2. CASE i > 0
  <2>1. i # 0
    BY <1>2
  <2>2. segs[i] = <<>> => Joined(base, segs, path, i) = path[i - 1]
    <3>1. CASE segs[i] = <<>>
      <4>1. segs[i] # <<Dot, Dot>>
        BY <3>1
      <4>. QED  BY <1>2, <2>1, <3>1, <4>1 DEF Joined
    <3>. QED  BY <3>1
  <2>3. Clean(segs[i]) => Joined(base, segs, path, i) = Append(path[i - 1], segs[i])
    BY <1>2, <2>1 DEF Joined, Clean
  <2>. QED  BY <1>2, <2>2, <2>3
<1>. QED  BY <1>1, <1>2

\* Where nothing is to be cleaned but an empty last segment, Join keeps the segments.
LEMMA JoinIs ==
  ASSUME NEW base \in Seq(Seq(Nat)), NEW segs \in Seq(Seq(Nat)), NEW m \in 0 .. Len(segs),
         \A i \in 1 .. m : Clean(segs[i]),
         m = Len(segs) \/ (m = Len(segs) - 1 /\ segs[Len(segs)] = <<>>)
  PROVE  Join(base, segs) = base \o SubSeq(segs, 1, m)
<1>. DEFINE N == Len(segs)
            Fits(f) == f = [i \in 0 .. N |-> Joined(base, segs, f, i)]
<1>1. PICK v : v = [i \in 0 .. N |-> base \o SubSeq(segs, 1, IF i <= m THEN i ELSE m)]
  OBVIOUS
<1>2. N \in Nat /\ m \in Nat /\ m <= N
  OBVIOUS
<1>3. ASSUME NEW i \in 0 .. m PROVE v[i] = base \o SubSeq(segs, 1, i)
  <2>1. i \in 0 .. N /\ (IF i <= m THEN i ELSE m) = i
    BY <1>2
  <2>2. v[i] = base \o SubSeq(segs, 1, IF i <= m THEN i ELSE m)
    BY <1>1, <2>1
  <2>. QED  BY <2>1, <2>2
<1>4. v[N] = base \o SubSeq(segs, 1, m)
  <2>1. N \in 0 .. N /\ (IF N <= m THEN N ELSE m) = m
    BY <1>2
  <2>2. v[N] = base \o SubSeq(segs, 1, IF N <= m THEN N ELSE m)
    BY <1>1, <2>1
  <2>. QED  BY <2>1, <2>2
<1>5. v[0] = base
  <2>1. SubSeq(segs, 1, 0) = <<>> /\ base \o <<>> = base
    BY SubSeqEmpty, ConcatEmptySeq
  <2>2. 0 \in 0 .. m
    BY <1>2
  <2>. QED  BY <1>3, <2>1, <2>2
<1>6. \A i \in 1 .. m : v[i] = Append(v[i - 1], segs[i])
  <2>1. ASSUME NEW i \in 1 .. m PROVE v[i] = Append(v[i - 1], segs[i])
    <3>1. i \in 1 .. Len(segs) /\ i \in 0 .. m /\ i - 1 \in 0 .. m
      BY <1>2
    <3>2. base \o SubSeq(segs, 1, i) = Append(base \o SubSeq(segs, 1, i - 1), segs[i])
      BY <3>1, OneMore
    <3>. QED  BY <1>3, <3>1, <3>2
  <2>. QED  BY <2>1
<1>7. m < N => v[N] = v[N - 1] /\ segs[N] = <<>> /\ N - 1 = m
  <2>1. CASE m < N
    <3>1. N - 1 = m /\ m \in 0 .. m /\ segs[N] = <<>>
      BY <1>2, <2>1
    <3>2. v[m] = base \o SubSeq(segs, 1, m)
      BY <1>3, <3>1
    <3>. QED  BY <1>4, <3>1, <3>2
  <2>. QED  BY <2>1
<1>8. ASSUME NEW f, NEW i \in 0 .. N, i > 0 => f[i - 1] = v[i - 1]
      PROVE  Joined(base, segs, f, i) = v[i]
  <2>0. i \in Nat
    BY <1>2
  <2>1. CASE i = 0
    BY <1>5, <2>0, <2>1, JoinedIs
  <2>2. CASE i > 0 /\ i <= m
    <3>0. i \in 1 .. m
      BY <1>2, <2>2
    <3>1. Clean(segs[i])
      BY <3>0
    <3>2. i # 0
      BY <2>0, <2>2
    <3>3. Joined(base, segs, f, i) = Append(f[i - 1], segs[i])
      BY <2>2, <3>1, <3>2 DEF Joined, Clean
    <3>. QED  BY <1>6, <1>8, <2>2, <3>0, <3>3
  <2>3. CASE i > m
    <3>1. i = N /\ m < N /\ i > 0
      BY <1>2, <2>3
    <3>2. Joined(base, segs, f, i) = f[i - 1]
      BY <1>7, <2>0, <3>1, JoinedIs
    <3>. QED  BY <1>7, <1>8, <3>1, <3>2
  <2>. QED  BY <1>2, <2>0, <2>1, <2>2, <2>3
<1>9. Fits(v)
  <2>1. ASSUME NEW i \in 0 .. N PROVE v[i] = Joined(base, segs, v, i)
    BY <1>8
  <2>2. v = [i \in 0 .. N |-> v[i]]
    BY <1>1
  <2>. QED  BY <2>1, <2>2
<1>10. ASSUME NEW f, Fits(f) PROVE f[N] = v[N]
  <2>0. PICK D : D = {i \in 0 .. N : f[i] # v[i]}
    OBVIOUS
  <2>1. ASSUME D # {} PROVE FALSE
    <3>0. D \in SUBSET Nat
      BY <1>2, <2>0
    <3>1. PICK i \in D : \A j \in D : i <= j
      BY <2>1, <3>0, LeastNumber
    <3>2. i \in 0 .. N /\ f[i] # v[i]
      BY <2>0, <3>1
    <3>3. f[i] = Joined(base, segs, f, i)
      <4>1. PICK g : g = [j \in 0 .. N |-> Joined(base, segs, f, j)]
        OBVIOUS
      <4>2. f = g
        BY <1>10, <4>1
      <4>3. g[i] = Joined(base, segs, f, i)
        BY <3>2, <4>1
      <4>. QED  BY <4>2, <4>3
    <3>4. i > 0 => f[i - 1] = v[i - 1]
      <4>1. ASSUME i > 0, f[i - 1] # v[i - 1] PROVE FALSE
        <5>1. i - 1 \in 0 .. N /\ ~(i <= i - 1)
          BY <3>2, <4>1
        <5>. QED  BY <2>0, <3>1, <4>1, <5>1
      <4>. QED  BY <4>1
    <3>. QED  BY <1>8, <3>2, <3>3, <3>4
  <2>2. N \in 0 .. N
    BY <1>2
  <2>. QED  BY <2>0, <2>1, <2>2
<1>11. Join(base, segs) = (CHOOSE f : Fits(f))[N]
  BY DEF Join, Joined
<1>. HIDE DEF Fits
<1>12. Fits(CHOOSE f : Fits(f))
  BY <1>9
<1>13. Join(base, segs) = v[N]
  BY <1>10, <1>11, <1>12
<1>. QED  BY <1>4, <1>13

\* How many segments of a key are in its path: a marker's last one is empty.
Depth(key) == IF IsDirMarker(key) THEN Segs(key) - 1 ELSE Segs(key)

\* Of two neighbouring bounds, the segment between them.
LEMMA Between ==
  ASSUME NEW name \in Seq(Nat), NEW i \in 1 .. Segs(name)
  PROVE  /\ Bound(name, i - 1) \in 0 .. Len(name) /\ Bound(name, i) \in 1 .. Len(name) + 1
         /\ Bound(name, i - 1) < Bound(name, i)
         /\ \A c \in Bounds(name) : c < Bound(name, i) => c <= Bound(name, i - 1)
         /\ Segments(name)[i] = <<>> <=> Bound(name, i) = Bound(name, i - 1) + 1
<1>0. Segs(name) \in Nat /\ Len(name) \in Nat
  BY BoundsAre
<1>1. i - 1 \in 0 .. Segs(name) /\ i \in 0 .. Segs(name) /\ i - 1 < i
  BY <1>0
<1>2. /\ Bound(name, i - 1) \in 0 .. Len(name) + 1 /\ Bound(name, i) \in 0 .. Len(name) + 1
      /\ Bound(name, i - 1) < Bound(name, i)
  BY <1>1, BoundsAre
<1>3. /\ Bound(name, i - 1) \in 0 .. Len(name) /\ Bound(name, i) \in 1 .. Len(name) + 1
  BY <1>0, <1>2
<1>4. ASSUME NEW c \in Bounds(name), c < Bound(name, i) PROVE c <= Bound(name, i - 1)
  <2>1. PICK j \in 0 .. Segs(name) : c = Bound(name, j)
    BY BoundsAre
  <2>2. c \in Nat
    BY BoundsAre
  <2>3. ~(i < j) /\ j # i
    <3>1. ASSUME i < j PROVE FALSE
      <4>1. Bound(name, i) < Bound(name, j)
        BY <1>1, <3>1, BoundsAre
      <4>. QED  BY <1>2, <1>4, <2>1, <2>2, <4>1
    <3>. QED  BY <1>2, <1>4, <2>1, <3>1
  <2>4. CASE j = i - 1
    BY <1>2, <2>1, <2>4
  <2>5. CASE j < i - 1
    <3>1. Bound(name, j) < Bound(name, i - 1)
      BY <1>1, <2>5, BoundsAre
    <3>. QED  BY <1>2, <2>1, <2>2, <3>1
  <2>. QED  BY <1>0, <2>3, <2>4, <2>5
<1>5. Segments(name)[i] = <<>> <=> Bound(name, i) = Bound(name, i - 1) + 1
  <2>1. Segments(name)[i] = SubSeq(name, Bound(name, i - 1) + 1, Bound(name, i) - 1)
    BY SegmentsAre
  <2>0. Bound(name, i - 1) \in Nat /\ Bound(name, i) \in Nat
    BY <1>0, <1>3
  <2>2. PICK a \in 1 .. Len(name) + 1 : a = Bound(name, i - 1) + 1
    <3>1. Bound(name, i - 1) + 1 \in 1 .. Len(name) + 1
      BY <1>0, <1>3
    <3>. QED  BY <3>1
  <2>3. PICK b \in a - 1 .. Len(name) : b = Bound(name, i) - 1
    <3>1. Bound(name, i) - 1 \in a - 1 .. Len(name)
      BY <1>0, <1>2, <1>3, <2>2
    <3>. QED  BY <3>1
  <2>4. SubSeq(name, a, b) \in Seq(Nat) /\ Len(SubSeq(name, a, b)) = b - a + 1
    BY RestOf
  <2>5. SubSeq(name, a, b) = <<>> <=> b - a + 1 = 0
    BY <2>4
  <2>6. b - a + 1 = 0 <=> Bound(name, i) = Bound(name, i - 1) + 1
    <3>1. PICK x \in Nat, y \in Nat : x = Bound(name, i - 1) /\ y = Bound(name, i)
      BY <2>0
    <3>2. a = x + 1 /\ b = y - 1
      BY <2>2, <2>3, <3>1
    <3>3. (y - 1) - (x + 1) + 1 = 0 <=> y = x + 1
      OBVIOUS
    <3>. QED  BY <3>1, <3>2, <3>3
  <2>. QED  BY <2>1, <2>2, <2>3, <2>5, <2>6
<1>. QED  BY <1>2, <1>3, <1>4, <1>5

\* A name ends in a slash when its last segment is empty.
LEMMA MarkerEnds ==
  ASSUME NEW name \in Seq(Nat), name # <<>>
  PROVE  /\ IsDirMarker(name) <=> Segments(name)[Segs(name)] = <<>>
         /\ IsDirMarker(name) <=> Bound(name, Segs(name) - 1) = Len(name)
<1>1. Segs(name) \in 1 .. Segs(name) /\ Len(name) \in Nat /\ Len(name) >= 1
  BY BoundsAre
<1>2. /\ Bound(name, Segs(name)) = Len(name) + 1
      /\ Bound(name, Segs(name) - 1) \in 0 .. Len(name)
      /\ Segments(name)[Segs(name)] = <<>> <=>
           Bound(name, Segs(name)) = Bound(name, Segs(name) - 1) + 1
  BY <1>1, BoundsAre, Between
<1>3. Segments(name)[Segs(name)] = <<>> <=> Bound(name, Segs(name) - 1) = Len(name)
  BY <1>1, <1>2
<1>4. ASSUME IsDirMarker(name) PROVE Bound(name, Segs(name) - 1) = Len(name)
  <2>1. Len(name) \in Bounds(name)
    BY <1>1, <1>4 DEF IsDirMarker, Last, Bounds
  <2>2. Len(name) <= Bound(name, Segs(name) - 1)
    BY <1>1, <1>2, <2>1, Between
  <2>. QED  BY <1>1, <1>2, <2>2
<1>5. ASSUME Bound(name, Segs(name) - 1) = Len(name) PROVE IsDirMarker(name)
  <2>1. Segs(name) - 1 \in 0 .. Segs(name)
    BY <1>1
  <2>2. Len(name) \in Bounds(name)
    BY <1>5, <2>1, BoundsAre
  <2>3. name[Len(name)] = Slash
    BY <1>1, <2>2 DEF Bounds
  <2>. QED  BY <2>3 DEF IsDirMarker, Last
<1>. QED  BY <1>3, <1>4, <1>5

LEMMA BaseIs == Base \in Seq(Seq(Nat)) /\ Len(Base) = 1
  BY KeyPathsType DEF Base

\* Where a key is: its segments below the bucket, none of them cleaned away.
LEMMA KeyToPathIs ==
  ASSUME NEW key \in Seq(Nat), ValidateKey(key)
  PROVE  /\ Depth(key) \in 1 .. Segs(key)
         /\ KeyToPath(key) = Base \o SubSeq(Segments(key), 1, Depth(key))
         /\ KeyToPath(key) # NoPath
<1>. DEFINE segs == Segments(key)
<1>0. /\ segs \in Seq(Seq(Nat)) /\ Len(segs) = Segs(key)
      /\ Segs(key) \in Nat /\ Segs(key) >= 1 /\ DOMAIN segs = 1 .. Segs(key)
  BY SegmentsAre, BoundsAre
<1>1. /\ key # <<>>
      /\ \A i \in 1 .. Segs(key) :
           /\ segs[i] # <<>> \/ (i = Segs(key) /\ i > 1)
           /\ segs[i] \notin {<<Dot>>, <<Dot, Dot>>}
  BY <1>0 DEF ValidateKey
<1>2. IsDirMarker(key) <=> segs[Segs(key)] = <<>>
  BY <1>1, MarkerEnds
<1>3. Depth(key) \in 1 .. Segs(key)
  <2>1. CASE IsDirMarker(key)
    <3>1. Segs(key) > 1
      BY <1>0, <1>1, <1>2, <2>1
    <3>. QED  BY <1>0, <2>1, <3>1 DEF Depth
  <2>2. CASE ~IsDirMarker(key)
    BY <1>0, <2>2 DEF Depth
  <2>. QED  BY <2>1, <2>2
<1>4. \A i \in 1 .. Depth(key) : Clean(segs[i])
  <2>1. ASSUME NEW i \in 1 .. Depth(key) PROVE segs[i] # <<>>
    <3>1. i \in 1 .. Segs(key)
      BY <1>0, <1>3
    <3>2. CASE i = Segs(key)
      <4>1. ~IsDirMarker(key)
        BY <1>0, <3>2 DEF Depth
      <4>. QED  BY <1>2, <3>2, <4>1
    <3>3. CASE i # Segs(key)
      BY <1>1, <3>1, <3>3
    <3>. QED  BY <3>2, <3>3
  <2>2. ASSUME NEW i \in 1 .. Depth(key) PROVE segs[i] \notin {<<Dot>>, <<Dot, Dot>>}
    <3>1. i \in 1 .. Segs(key)
      BY <1>0, <1>3
    <3>. QED  BY <1>1, <3>1
  <2>. QED  BY <2>1, <2>2 DEF Clean
<1>5. Depth(key) = Segs(key) \/ (Depth(key) = Segs(key) - 1 /\ segs[Segs(key)] = <<>>)
  BY <1>2 DEF Depth
<1>6. PICK m \in 0 .. Len(segs) : m = Depth(key) /\ m >= 1
  BY <1>0, <1>3
<1>. HIDE DEF segs
<1>7. Join(Base, segs) = Base \o SubSeq(segs, 1, m)
  BY <1>0, <1>4, <1>5, <1>6, BaseIs, JoinIs
<1>8. PICK low \in Seq(Seq(Nat)) : low = SubSeq(segs, 1, m) /\ Len(low) = m
  <2>1. /\ SubSeq(segs, 1, m) \in Seq(Seq(Nat)) /\ Len(SubSeq(segs, 1, m)) = m
    BY <1>0, FrontOf
  <2>. QED  BY <2>1
<1>9. PICK path \in Seq(Seq(Nat)) : path = Base \o low
  <2>1. Base \o low \in Seq(Seq(Nat))
    BY BaseIs, ConcatProperties
  <2>. QED  BY <2>1
<1>10. Len(path) = 1 + m /\ path[1] = Base[1] /\ Len(path) \in Nat
  <2>1. Len(Base \o low) = Len(Base) + Len(low)
    BY BaseIs, ConcatProperties
  <2>2. 1 \in 1 .. Len(Base) + Len(low) /\ 1 <= Len(Base)
    BY <1>8, BaseIs
  <2>3. (Base \o low)[1] = Base[1]
    BY <2>2, BaseIs, ConcatProperties
  <2>. QED  BY <1>8, <1>9, <2>1, <2>3, BaseIs
<1>11. WithinDir(Base, path)
  <2>1. IsPrefix(Base, path)
    <3>1. Len(Base) <= Len(path) /\ \A i \in 1 .. Len(Base) : Base[i] = path[i]
      BY <1>6, <1>10, BaseIs
    <3>. QED  BY <3>1, BaseIs, PrefixIs
  <2>2. Base # path
    <3>1. Len(Base) # Len(path)
      BY <1>6, <1>10, BaseIs
    <3>. QED  BY <3>1
  <2>. QED  BY <2>1, <2>2 DEF WithinDir, IsStrictPrefix
<1>12. KeyToPath(key) = path
  BY <1>7, <1>8, <1>9, <1>11 DEF KeyToPath, segs
<1>13. path # NoPath
  BY <1>6, <1>10 DEF NoPath
<1>. QED  BY <1>3, <1>6, <1>8, <1>9, <1>12, <1>13 DEF segs

\* The path down to a key's n-th segment.
Down(key, n) == Base \o SubSeq(Segments(key), 1, n)

LEMMA DownIs ==
  ASSUME NEW key \in Seq(Nat), NEW n \in 1 .. Segs(key)
  PROVE  /\ Down(key, n) \in Seq(Seq(Nat)) /\ Len(Down(key, n)) = n + 1
         /\ \A i \in 2 .. n + 1 : Down(key, n)[i] = Segments(key)[i - 1]
<1>1. PICK low \in Seq(Seq(Nat)) :
        /\ low = SubSeq(Segments(key), 1, n) /\ Len(low) = n
        /\ \A i \in 1 .. n : low[i] = Segments(key)[i]
  <2>1. Segments(key) \in Seq(Seq(Nat)) /\ n \in 0 .. Len(Segments(key))
    BY SegmentsAre, BoundsAre
  <2>2. /\ SubSeq(Segments(key), 1, n) \in Seq(Seq(Nat))
        /\ Len(SubSeq(Segments(key), 1, n)) = n
        /\ \A i \in 1 .. n : SubSeq(Segments(key), 1, n)[i] = Segments(key)[i]
    BY <2>1, FrontOf
  <2>. QED  BY <2>2
<1>2. Base \o low \in Seq(Seq(Nat)) /\ Len(Base \o low) = Len(Base) + Len(low)
  BY BaseIs, ConcatProperties
<1>3. ASSUME NEW i \in 2 .. n + 1 PROVE (Base \o low)[i] = Segments(key)[i - 1]
  <2>1. i \in 1 .. Len(Base) + Len(low) /\ ~(i <= Len(Base)) /\ i - 1 \in 1 .. n
    BY <1>1, BaseIs
  <2>2. (Base \o low)[i] = low[i - Len(Base)]
    BY <2>1, BaseIs, ConcatProperties
  <2>. QED  BY <1>1, <2>1, <2>2, BaseIs
<1>. QED  BY <1>1, <1>2, <1>3, BaseIs DEF Down

\* Two segments and the slash between them.
LEMMA Glued ==
  ASSUME NEW s \in Seq(Nat), NEW b \in 1 .. Len(s), NEW c \in b + 1 .. Len(s) + 1, s[b] = Slash
  PROVE  SubSeq(s, 1, b - 1) \o <<Slash>> \o SubSeq(s, b + 1, c - 1) = SubSeq(s, 1, c - 1)
<1>. DEFINE u == SubSeq(s, 1, b - 1)
            v == SubSeq(s, b + 1, c - 1)
            w == SubSeq(s, 1, c - 1)
            t == u \o <<Slash>>
<1>0. Slash \in Nat /\ <<Slash>> \in Seq(Nat) /\ Len(<<Slash>>) = 1
  BY KeyPathsType
<1>1. u \in Seq(Nat) /\ Len(u) = b - 1 /\ \A i \in 1 .. b - 1 : u[i] = s[i]
  <2>1. b - 1 \in 0 .. Len(s)
    OBVIOUS
  <2>. QED  BY <2>1, FrontOf
<1>2. v \in Seq(Nat) /\ Len(v) = c - 1 - b /\ \A i \in 1 .. c - 1 - b : v[i] = s[b + i]
  <2>1. b + 1 \in 1 .. Len(s) + 1 /\ c - 1 \in (b + 1) - 1 .. Len(s)
    OBVIOUS
  <2>2. /\ v \in Seq(Nat) /\ Len(v) = (c - 1) - (b + 1) + 1
        /\ \A i \in 1 .. (c - 1) - (b + 1) + 1 : v[i] = s[(b + 1) + i - 1]
    BY <2>1, RestOf
  <2>3. (c - 1) - (b + 1) + 1 = c - 1 - b
    OBVIOUS
  <2>4. \A i \in 1 .. c - 1 - b : (b + 1) + i - 1 = b + i
    OBVIOUS
  <2>. QED  BY <2>2, <2>3, <2>4
<1>3. w \in Seq(Nat) /\ Len(w) = c - 1 /\ \A i \in 1 .. c - 1 : w[i] = s[i]
  <2>1. c - 1 \in 0 .. Len(s)
    OBVIOUS
  <2>. QED  BY <2>1, FrontOf
<1>. HIDE DEF u, v, w
<1>4. /\ t \in Seq(Nat) /\ Len(t) = b
      /\ \A i \in 1 .. b - 1 : t[i] = s[i]
      /\ t[b] = s[b]
  <2>1. /\ t \in Seq(Nat) /\ Len(t) = Len(u) + Len(<<Slash>>)
        /\ \A i \in 1 .. Len(u) + Len(<<Slash>>) :
             t[i] = IF i <= Len(u) THEN u[i] ELSE <<Slash>>[i - Len(u)]
    BY <1>0, <1>1, ConcatProperties
  <2>2. Len(u) = b - 1 /\ Len(u) + Len(<<Slash>>) = b
    BY <1>0, <1>1
  <2>3. ASSUME NEW i \in 1 .. b - 1 PROVE t[i] = s[i]
    <3>1. i \in 1 .. b /\ i <= b - 1
      OBVIOUS
    <3>. QED  BY <1>1, <2>1, <2>2, <3>1
  <2>4. t[b] = s[b]
    <3>1. b \in 1 .. b /\ ~(b <= b - 1) /\ b - (b - 1) = 1 /\ <<Slash>>[1] = Slash
      OBVIOUS
    <3>. QED  BY <2>1, <2>2, <3>1
  <2>. QED  BY <2>1, <2>2, <2>3, <2>4
<1>. HIDE DEF t
<1>5. t \o v \in Seq(Nat) /\ Len(t \o v) = c - 1
  <2>1. t \o v \in Seq(Nat) /\ Len(t \o v) = Len(t) + Len(v)
    BY <1>2, <1>4, ConcatProperties
  <2>2. Len(t) + Len(v) = c - 1
    BY <1>2, <1>4
  <2>. QED  BY <2>1, <2>2
<1>6. ASSUME NEW i \in 1 .. c - 1 PROVE (t \o v)[i] = w[i]
  <2>0. Len(t) = b /\ Len(t) + Len(v) = c - 1
    BY <1>2, <1>4
  <2>1. (t \o v)[i] = IF i <= b THEN t[i] ELSE v[i - b]
    <3>1. i \in 1 .. Len(t) + Len(v)
      BY <2>0
    <3>2. (t \o v)[i] = IF i <= Len(t) THEN t[i] ELSE v[i - Len(t)]
      BY <1>2, <1>4, <3>1, ConcatProperties
    <3>. QED  BY <2>0, <3>2
  <2>2. CASE i < b
    BY <1>3, <1>4, <2>1, <2>2
  <2>3. CASE i = b
    BY <1>3, <1>4, <2>1, <2>3
  <2>4. CASE i > b
    <3>1. i - b \in 1 .. c - 1 - b /\ b + (i - b) = i /\ ~(i <= b)
      BY <2>4
    <3>2. v[i - b] = s[i]
      BY <1>2, <3>1
    <3>. QED  BY <1>3, <2>1, <3>1, <3>2
  <2>5. i < b \/ i = b \/ i > b
    OBVIOUS
  <2>. QED  BY <2>2, <2>3, <2>4, <2>5, Zenon
<1>7. t \o v = w
  BY <1>3, <1>5, <1>6, SeqEqual
<1>. QED  BY <1>7 DEF t, u, v, w

\* PathToKey makes the name again, as far down as the path goes.
LEMMA PathToKeyIs ==
  ASSUME NEW key \in Seq(Nat), NEW n \in 1 .. Segs(key)
  PROVE  PathToKey(Down(key, n)) = SubSeq(key, 1, Bound(key, n) - 1)
<1>. DEFINE path == Down(key, n)
            L == n + 1
            Made(g, i) == IF i = 2 THEN path[i] ELSE g[i - 1] \o <<Slash>> \o path[i]
            Fits(g) == g = [i \in 2 .. L |-> Made(g, i)]
<1>0. n \in Nat /\ n >= 1 /\ Segs(key) \in Nat /\ n <= Segs(key) /\ L \in 2 .. L
  BY BoundsAre
<1>1. PICK v : v = [i \in 2 .. L |-> SubSeq(key, 1, Bound(key, i - 1) - 1)]
  OBVIOUS
<1>2. ASSUME NEW i \in 2 .. L
      PROVE  path[i] = SubSeq(key, Bound(key, i - 2) + 1, Bound(key, i - 1) - 1)
  <2>1. i - 1 \in 1 .. Segs(key) /\ (i - 1) - 1 = i - 2
    BY <1>0
  <2>2. path[i] = Segments(key)[i - 1]
    BY DownIs
  <2>. QED  BY <2>1, <2>2, SegmentsAre
<1>3. Len(path) = L
  BY DownIs
<1>. HIDE DEF path
<1>4. ASSUME NEW g, NEW i \in 2 .. L, i # 2 => g[i - 1] = v[i - 1] PROVE Made(g, i) = v[i]
  <2>1. v[i] = SubSeq(key, 1, Bound(key, i - 1) - 1)
    BY <1>1
  <2>2. CASE i = 2
    <3>1. Bound(key, i - 2) + 1 = 1
      BY <2>2, BoundsAre
    <3>. QED  BY <1>2, <2>1, <2>2, <3>1
  <2>3. CASE i # 2
    <3>1. i - 1 \in 2 .. L /\ (i - 1) - 1 = i - 2
      BY <1>0, <2>3
    <3>2. v[i - 1] = SubSeq(key, 1, Bound(key, i - 2) - 1)
      BY <1>1, <3>1
    <3>3. Bound(key, i - 2) \in 1 .. Len(key) /\ key[Bound(key, i - 2)] = Slash
      <4>1. i - 2 \in 0 .. Segs(key) /\ i - 2 < Segs(key) /\ 0 \in 0 .. Segs(key) /\ 0 < i - 2
            /\ Segs(key) \in 0 .. Segs(key)
        BY <1>0, <2>3
      <4>2. Bound(key, i - 2) < Len(key) + 1 /\ 0 < Bound(key, i - 2)
        BY <4>1, BoundsAre
      <4>3. Bound(key, i - 2) \in Bounds(key) /\ Bound(key, i - 2) \in 0 .. Len(key) + 1
        BY <4>1, BoundsAre
      <4>. QED  BY <4>2, <4>3 DEF Bounds
    <3>4. Bound(key, i - 1) \in Bound(key, i - 2) + 1 .. Len(key) + 1
      <4>1. i - 1 \in 1 .. Segs(key)
        BY <1>0, <2>3
      <4>. QED  BY <3>1, <4>1, Between
    <3>5. SubSeq(key, 1, Bound(key, i - 2) - 1) \o <<Slash>>
            \o SubSeq(key, Bound(key, i - 2) + 1, Bound(key, i - 1) - 1)
          = SubSeq(key, 1, Bound(key, i - 1) - 1)
      BY <3>3, <3>4, Glued
    <3>6. Made(g, i) = g[i - 1] \o <<Slash>> \o path[i]
      BY <2>3
    <3>. QED  BY <1>2, <1>4, <2>1, <2>3, <3>2, <3>5, <3>6
  <2>. QED  BY <2>2, <2>3
<1>5. PathToKey(path) = (CHOOSE g : Fits(g))[L]
  BY <1>3, BaseIs DEF PathToKey
<1>. HIDE DEF Made
<1>6. Fits(v)
  <2>1. ASSUME NEW i \in 2 .. L PROVE v[i] = Made(v, i)
    BY <1>4
  <2>2. v = [i \in 2 .. L |-> v[i]]
    BY <1>1
  <2>. QED  BY <2>1, <2>2
<1>7. ASSUME NEW g, Fits(g) PROVE g[L] = v[L]
  <2>0. PICK D : D = {i \in 2 .. L : g[i] # v[i]}
    OBVIOUS
  <2>1. ASSUME D # {} PROVE FALSE
    <3>0. D \in SUBSET Nat
      BY <1>0, <2>0
    <3>1. PICK i \in D : \A j \in D : i <= j
      BY <2>1, <3>0, LeastNumber
    <3>2. i \in 2 .. L /\ g[i] # v[i]
      BY <2>0, <3>1
    <3>3. g[i] = Made(g, i)
      <4>1. PICK h : h = [j \in 2 .. L |-> Made(g, j)]
        OBVIOUS
      <4>2. g = h
        BY <1>7, <4>1
      <4>3. h[i] = Made(g, i)
        BY <3>2, <4>1
      <4>. QED  BY <4>2, <4>3
    <3>4. i # 2 => g[i - 1] = v[i - 1]
      <4>1. ASSUME i # 2, g[i - 1] # v[i - 1] PROVE FALSE
        <5>1. i - 1 \in 2 .. L /\ ~(i <= i - 1)
          BY <3>2, <4>1
        <5>. QED  BY <2>0, <3>1, <4>1, <5>1
      <4>. QED  BY <4>1
    <3>. QED  BY <1>4, <3>2, <3>3, <3>4
  <2>. QED  BY <1>0, <2>0, <2>1
<1>. HIDE DEF Fits
<1>8. Fits(CHOOSE g : Fits(g))
  BY <1>6
<1>9. PathToKey(path) = v[L]
  BY <1>5, <1>7, <1>8
<1>10. v[L] = SubSeq(key, 1, Bound(key, n) - 1)
  <2>1. L - 1 = n
    BY <1>0
  <2>. QED  BY <1>0, <1>1, <2>1
<1>. QED  BY <1>9, <1>10 DEF path

\* The path of a key gives its name back, for a marker without its slash.
LEMMA KeyComesBack ==
  ASSUME NEW key \in Seq(Nat), ValidateKey(key)
  PROVE  /\ ~IsDirMarker(key) => PathToKey(KeyToPath(key)) = key
         /\ IsDirMarker(key) => Append(PathToKey(KeyToPath(key)), Slash) = key
<1>0. Segs(key) \in Nat /\ Segs(key) >= 1 /\ Len(key) \in Nat /\ key # <<>>
  BY BoundsAre DEF ValidateKey
<1>1. /\ Depth(key) \in 1 .. Segs(key)
      /\ PathToKey(KeyToPath(key)) = SubSeq(key, 1, Bound(key, Depth(key)) - 1)
  BY KeyToPathIs, PathToKeyIs DEF Down
<1>2. ASSUME ~IsDirMarker(key) PROVE PathToKey(KeyToPath(key)) = key
  <2>1. Bound(key, Depth(key)) - 1 = Len(key)
    BY <1>0, <1>2, BoundsAre DEF Depth
  <2>. QED  BY <1>1, <2>1, SubSeqFull
<1>3. ASSUME IsDirMarker(key) PROVE Append(PathToKey(KeyToPath(key)), Slash) = key
  <2>1. Bound(key, Depth(key)) = Len(key)
    BY <1>0, <1>3, MarkerEnds DEF Depth
  <2>2. key[Len(key)] = Slash /\ Len(key) \in 1 .. Len(key)
    BY <1>0, <1>3 DEF IsDirMarker, Last
  <2>3. SubSeq(key, 1, Len(key)) = SubSeq(key, 1, Len(key) - 1) \o <<key[Len(key)]>>
    BY <2>2, SubSeqRecursiveSecond
  <2>4. SubSeq(key, 1, Len(key) - 1) \in Seq(Nat)
    BY <1>0, <2>2, FrontOf
  <2>5. Append(SubSeq(key, 1, Len(key) - 1), Slash) = SubSeq(key, 1, Len(key) - 1) \o <<Slash>>
    BY <2>4, KeyPathsType
  <2>. QED  BY <1>1, <2>1, <2>2, <2>3, <2>5, SubSeqFull
<1>. QED  BY <1>2, <1>3

\* The n-th directory above a key, as the name of a marker.
DirMarkerOf(key, n) == SubSeq(key, 1, Bound(key, n))

\* It is a key, and its path is the directory.
LEMMA DirMarkerIs ==
  ASSUME NEW key \in Seq(Nat), ValidateKey(key), NEW n \in 1 .. Segs(key) - 1
  PROVE  /\ DirMarkerOf(key, n) \in Seq(Nat)
         /\ DirMarkerOf(key, n) = Append(PathToKey(Down(key, n)), Slash)
         /\ ValidateKey(DirMarkerOf(key, n))
         /\ \A i \in 1 .. Len(DirMarkerOf(key, n)) :
              i \in 1 .. Len(key) /\ DirMarkerOf(key, n)[i] = key[i]
<1>. DEFINE d == DirMarkerOf(key, n)
            b == Bound(key, n)
<1>0. /\ n \in 0 .. Segs(key) /\ n \in 1 .. Segs(key) /\ n + 1 \in 1 .. Segs(key)
      /\ n < Segs(key) /\ 0 \in 0 .. Segs(key) /\ Segs(key) \in 0 .. Segs(key)
      /\ Segs(key) \in Nat /\ Len(key) \in Nat
  BY BoundsAre
<1>1. b \in 1 .. Len(key) /\ key[b] = Slash
  <2>1. Bound(key, 0) < b /\ b < Bound(key, Segs(key)) /\ b \in Bounds(key)
        /\ b \in 0 .. Len(key) + 1
    BY <1>0, BoundsAre
  <2>2. b \in 1 .. Len(key)
    <3>1. Bound(key, 0) = 0 /\ Bound(key, Segs(key)) = Len(key) + 1
      BY BoundsAre
    <3>. QED  BY <1>0, <2>1, <3>1
  <2>. QED  BY <1>0, <2>1, <2>2 DEF Bounds
<1>. HIDE DEF b
<1>2. d \in Seq(Nat) /\ Len(d) = b /\ \A i \in 1 .. b : d[i] = key[i]
  <2>1. b \in 0 .. Len(key)
    BY <1>1
  <2>. QED  BY <2>1, FrontOf DEF b, DirMarkerOf
<1>3. d = Append(PathToKey(Down(key, n)), Slash)
  <2>1. PathToKey(Down(key, n)) = SubSeq(key, 1, b - 1)
    BY <1>0, PathToKeyIs DEF b
  <2>2. SubSeq(key, 1, b) = SubSeq(key, 1, b - 1) \o <<Slash>>
    BY <1>1, SubSeqRecursiveSecond
  <2>3. SubSeq(key, 1, b - 1) \in Seq(Nat)
    <3>1. b - 1 \in 0 .. Len(key)
      BY <1>1
    <3>. QED  BY <3>1, FrontOf
  <2>4. Append(SubSeq(key, 1, b - 1), Slash) = SubSeq(key, 1, b - 1) \o <<Slash>>
    <3>1. PICK u \in Seq(Nat) : u = SubSeq(key, 1, b - 1)
      BY <2>3
    <3>2. Append(u, Slash) = u \o <<Slash>>
      BY KeyPathsType
    <3>. QED  BY <3>1, <3>2
  <2>5. d = SubSeq(key, 1, b)
    BY DEF b, DirMarkerOf
  <2>. QED  BY <2>1, <2>2, <2>4, <2>5
<1>. HIDE DEF d
<1>4. \A c \in Nat : c \in Bounds(d) <=> (c \in Bounds(key) /\ c <= b) \/ c = b + 1
  <2>1. DOMAIN d = 1 .. b /\ DOMAIN key = 1 .. Len(key)
    BY <1>2
  <2>2. \A c \in Nat : c \in Bounds(d) <=>
          c = 0 \/ c = b + 1 \/ (c \in 1 .. b /\ key[c] = Slash)
    BY <1>2, <2>1 DEF Bounds
  <2>3. \A c \in Nat : c \in Bounds(key) <=>
          c = 0 \/ c = Len(key) + 1 \/ (c \in 1 .. Len(key) /\ key[c] = Slash)
    BY <2>1 DEF Bounds
  <2>. QED  BY <1>0, <1>1, <2>2, <2>3
<1>5. /\ Bounds(d) \in SUBSET Nat /\ IsFiniteSet(Bounds(d))
      /\ Bounds(key) \in SUBSET Nat /\ IsFiniteSet(Bounds(key))
  BY <1>2, BoundsAre
<1>6. ASSUME NEW i \in 0 .. n PROVE Bound(d, i) = Bound(key, i)
  <2>1. i \in 0 .. Segs(key) /\ i \in 0 .. Cardinality(Bounds(key)) - 1
    BY <1>0 DEF Segs
  <2>2. PICK c \in Bounds(key) : c = Bound(key, i) /\ c \in Nat
    BY <1>5, <2>1, BoundsAre
  <2>3. c <= b
    <3>1. CASE i = n
      BY <1>1, <2>2, <3>1 DEF b
    <3>2. CASE i < n
      BY <1>0, <1>1, <2>1, <2>2, <3>2, BoundsAre DEF b
    <3>. QED  BY <1>0, <3>1, <3>2
  <2>4. c \in Bounds(d)
    BY <1>4, <2>2, <2>3
  <2>5. {x \in Bounds(d) : x < c} = {x \in Bounds(key) : x < c}
    <3>1. \A x \in Nat : x < c => (x \in Bounds(d) <=> x \in Bounds(key))
      BY <1>1, <1>4, <2>2, <2>3
    <3>. QED  BY <1>5, <3>1
  <2>6. Cardinality({x \in Bounds(key) : x < c}) = i
    BY <1>5, <2>1, <2>2, NthIs DEF Bound
  <2>7. c = Nth(Bounds(d), Cardinality({x \in Bounds(d) : x < c}))
    BY <1>5, <2>4, NthIs
  <2>. QED  BY <2>2, <2>5, <2>6, <2>7 DEF Bound
<1>7. Bound(d, n + 1) = b + 1 /\ n + 1 \in 0 .. Segs(d)
  <2>1. n + 1 \in 0 .. Cardinality(Bounds(key)) - 1
    BY <1>0 DEF Segs
  <2>2. PICK c \in Bounds(key) : c = Bound(key, n + 1) /\ c \in Nat
    BY <1>0, <1>5, <2>1, BoundsAre
  <2>3. b < c /\ \A x \in Bounds(key) : x < c => x <= b
    <3>1. (n + 1) - 1 = n
      BY <1>0
    <3>. QED  BY <1>0, <2>2, <3>1, Between DEF b
  <2>4. b + 1 \in Bounds(d)
    BY <1>1, <1>4
  <2>5. {x \in Bounds(d) : x < b + 1} = {x \in Bounds(key) : x < c}
    <3>1. \A x \in Nat : x \in Bounds(d) /\ x < b + 1 <=> x \in Bounds(key) /\ x < c
      BY <1>1, <1>4, <2>2, <2>3
    <3>. QED  BY <1>5, <3>1
  <2>6. Cardinality({x \in Bounds(key) : x < c}) = n + 1
    BY <1>5, <2>1, <2>2, NthIs DEF Bound
  <2>7. /\ b + 1 = Nth(Bounds(d), Cardinality({x \in Bounds(d) : x < b + 1}))
        /\ Cardinality({x \in Bounds(d) : x < b + 1}) \in 0 .. Cardinality(Bounds(d)) - 1
    <3>1. PICK T \in SUBSET Nat : T = Bounds(d) /\ IsFiniteSet(T)
      BY <1>5
    <3>2. PICK e \in T : e = b + 1
      BY <2>4, <3>1
    <3>3. /\ Cardinality({x \in T : x < e}) \in 0 .. Cardinality(T) - 1
          /\ e = Nth(T, Cardinality({x \in T : x < e}))
      BY <3>1, NthIs
    <3>. QED  BY <3>1, <3>2, <3>3
  <2>8. Cardinality({x \in Bounds(d) : x < b + 1}) = n + 1
    BY <2>5, <2>6
  <2>. QED  BY <2>7, <2>8 DEF Bound, Segs
<1>8. Segs(d) = n + 1
  <2>1. Segs(d) \in Nat /\ Segs(d) \in 0 .. Segs(d) /\ Bound(d, Segs(d)) = b + 1
    BY <1>2, BoundsAre
  <2>2. ~(n + 1 < Segs(d))
    <3>1. ASSUME n + 1 < Segs(d) PROVE FALSE
      <4>1. Bound(d, n + 1) < Bound(d, Segs(d))
        BY <1>2, <1>7, <2>1, <3>1, BoundsAre
      <4>. QED  BY <1>1, <1>7, <2>1, <4>1
    <3>. QED  BY <3>1
  <2>. QED  BY <1>0, <1>7, <2>1, <2>2
<1>9. ASSUME NEW i \in 1 .. n PROVE Segments(d)[i] = Segments(key)[i]
  <2>1. i - 1 \in 0 .. n /\ i \in 0 .. n /\ i \in 1 .. Segs(d) /\ i \in 1 .. Segs(key)
    BY <1>0, <1>8
  <2>2. PICK x \in 0 .. Len(d), y \in 1 .. Len(d) + 1 :
          x = Bound(key, i - 1) /\ y = Bound(key, i) /\ x < y /\ y <= b
    <3>1. Bound(d, i - 1) \in 0 .. Len(d) /\ Bound(d, i) \in 1 .. Len(d) + 1
          /\ Bound(d, i - 1) < Bound(d, i)
      BY <1>2, <2>1, Between
    <3>2. Bound(key, i) <= b
      <4>1. CASE i = n
        BY <1>1, <4>1 DEF b
      <4>2. CASE i < n
        BY <1>0, <1>1, <2>1, <4>2, BoundsAre DEF b
      <4>. QED  BY <1>0, <4>1, <4>2
    <3>. QED  BY <1>6, <2>1, <3>1, <3>2
  <2>3. Segments(d)[i] = SubSeq(d, x + 1, y - 1)
    BY <1>2, <1>6, <2>1, <2>2, SegmentsAre
  <2>4. Segments(key)[i] = SubSeq(key, x + 1, y - 1)
    BY <2>1, <2>2, SegmentsAre
  <2>5. x + 1 \in 1 .. Len(d) + 1 /\ y - 1 \in (x + 1) - 1 .. Len(d)
        /\ x + 1 \in 1 .. Len(key) + 1 /\ y - 1 \in (x + 1) - 1 .. Len(key)
    <3>1. x \in Nat /\ y \in Nat /\ x < y /\ y <= b /\ b \in Nat /\ Len(d) = b /\ b <= Len(key)
      BY <1>0, <1>1, <1>2, <2>2
    <3>. QED  BY <1>0, <3>1
  <2>6. PICK u \in Seq(Nat), v \in Seq(Nat) :
          /\ u = SubSeq(d, x + 1, y - 1) /\ v = SubSeq(key, x + 1, y - 1)
          /\ Len(u) = (y - 1) - (x + 1) + 1 /\ Len(v) = (y - 1) - (x + 1) + 1
          /\ \A k \in 1 .. (y - 1) - (x + 1) + 1 :
               u[k] = d[(x + 1) + k - 1] /\ v[k] = key[(x + 1) + k - 1]
    <3>1. /\ SubSeq(d, x + 1, y - 1) \in Seq(Nat)
          /\ Len(SubSeq(d, x + 1, y - 1)) = (y - 1) - (x + 1) + 1
          /\ \A k \in 1 .. (y - 1) - (x + 1) + 1 :
               SubSeq(d, x + 1, y - 1)[k] = d[(x + 1) + k - 1]
      BY <1>2, <2>5, RestOf
    <3>2. /\ SubSeq(key, x + 1, y - 1) \in Seq(Nat)
          /\ Len(SubSeq(key, x + 1, y - 1)) = (y - 1) - (x + 1) + 1
          /\ \A k \in 1 .. (y - 1) - (x + 1) + 1 :
               SubSeq(key, x + 1, y - 1)[k] = key[(x + 1) + k - 1]
      BY <2>5, RestOf
    <3>. QED  BY <3>1, <3>2
  <2>7. \A k \in 1 .. (y - 1) - (x + 1) + 1 : (x + 1) + k - 1 \in 1 .. b
    <3>1. x \in Nat /\ y \in Nat /\ x < y /\ y <= b /\ b \in Nat
      BY <1>0, <1>1, <1>2, <2>2
    <3>. QED  BY <3>1
  <2>8. \A k \in 1 .. Len(u) : u[k] = v[k]
    BY <1>2, <2>6, <2>7
  <2>9. u = v
    BY <2>6, <2>8, SeqEqual
  <2>. QED  BY <2>3, <2>4, <2>6, <2>9
<1>10. Segments(d)[n + 1] = <<>>
  <2>1. n + 1 \in 1 .. Segs(d) /\ (n + 1) - 1 = n /\ n \in 0 .. n
    BY <1>0, <1>8
  <2>2. Bound(d, n + 1) = Bound(d, n) + 1
    BY <1>6, <1>7, <2>1 DEF b
  <2>. QED  BY <1>2, <2>1, <2>2, Between
<1>11. ValidateKey(d)
  <2>1. d # <<>> /\ Len(d) <= MaxKeyLength
    <3>1. Len(key) <= MaxKeyLength
      BY DEF ValidateKey
    <3>. QED  BY <1>0, <1>1, <1>2, <3>1, KeyPathsType
  <2>2. \A i \in DOMAIN d : d[i] \notin Banned
    <3>1. DOMAIN key = 1 .. Len(key) /\ DOMAIN d = 1 .. b
      BY <1>2
    <3>2. \A i \in DOMAIN key : key[i] \notin Banned
      BY DEF ValidateKey
    <3>3. \A i \in 1 .. b : i \in 1 .. Len(key)
      BY <1>0, <1>1
    <3>. QED  BY <1>2, <3>1, <3>2, <3>3
  <2>3. /\ DOMAIN Segments(d) = 1 .. n + 1 /\ DOMAIN Segments(key) = 1 .. Segs(key)
        /\ Len(Segments(d)) = n + 1 /\ Len(Segments(key)) = Segs(key)
    BY <1>2, <1>8, SegmentsAre
  <2>4. \A i \in 1 .. Segs(key) :
          /\ Segments(key)[i] # <<>> \/ (i = Segs(key) /\ i > 1)
          /\ Segments(key)[i] \notin {<<Dot>>, <<Dot, Dot>>}
    BY <2>3 DEF ValidateKey
  <2>5. ASSUME NEW i \in 1 .. n + 1
        PROVE  /\ Segments(d)[i] # <<>> \/ (i = n + 1 /\ i > 1)
               /\ Segments(d)[i] \notin {<<Dot>>, <<Dot, Dot>>}
    <3>1. CASE i = n + 1
      <4>1. Segments(d)[i] = <<>> /\ i > 1
        BY <1>0, <1>10, <3>1
      <4>2. <<>> # <<Dot>> /\ <<>> # <<Dot, Dot>>
        OBVIOUS
      <4>. QED  BY <3>1, <4>1, <4>2
    <3>2. CASE i # n + 1
      <4>1. i \in 1 .. n /\ i \in 1 .. Segs(key) /\ i # Segs(key)
        BY <1>0, <3>2
      <4>. QED  BY <1>9, <2>4, <4>1
    <3>. QED  BY <3>1, <3>2
  <2>. QED  BY <2>1, <2>2, <2>3, <2>5 DEF ValidateKey
<1>12. \A i \in 1 .. Len(d) : i \in 1 .. Len(key) /\ d[i] = key[i]
  BY <1>1, <1>2
<1>. QED  BY <1>2, <1>3, <1>11, <1>12 DEF d

-----------------------------------------------------------------------------
(***************************************************************************)
(* Files and sidecars tell keys apart                                      *)
(***************************************************************************)

\* What is in a segment is in the name.
LEMMA SegmentOf ==
  ASSUME NEW name \in Seq(Nat), NEW i \in 1 .. Segs(name),
         NEW j \in 1 .. Len(Segments(name)[i])
  PROVE  \E m \in 1 .. Len(name) : Segments(name)[i][j] = name[m]
<1>1. PICK x \in 0 .. Len(name), y \in 1 .. Len(name) + 1 :
        x = Bound(name, i - 1) /\ y = Bound(name, i) /\ x < y
  BY Between
<1>2. Segments(name)[i] = SubSeq(name, x + 1, y - 1)
  BY <1>1, SegmentsAre
<1>3. x + 1 \in 1 .. Len(name) + 1 /\ y - 1 \in (x + 1) - 1 .. Len(name)
  BY <1>1
<1>4. /\ Len(Segments(name)[i]) = (y - 1) - (x + 1) + 1
      /\ \A k \in 1 .. (y - 1) - (x + 1) + 1 : Segments(name)[i][k] = name[(x + 1) + k - 1]
  BY <1>2, <1>3, RestOf
<1>5. j \in 1 .. (y - 1) - (x + 1) + 1
  BY <1>4
<1>6. (x + 1) + j - 1 \in 1 .. Len(name)
  <2>1. x \in Nat /\ y \in Nat /\ Len(name) \in Nat /\ y <= Len(name) + 1
    BY <1>1
  <2>2. j \in Nat /\ j >= 1 /\ j <= y - x - 1
    BY <1>5, <2>1
  <2>. QED  BY <2>1, <2>2
<1>. QED  BY <1>4, <1>5, <1>6

\* A name without the endings that the metadata tree adds.
Plain(name) == \A n \in 1 .. Len(name) : name[n] \notin {Json, DirMarker}

Suffix(key) == IF IsDirMarker(key) THEN <<DirMarker, Json>> ELSE <<Json>>

\* The path of a key, its last component and what metaPath makes of it.
LEMMA MetaPathIs ==
  ASSUME NEW key \in Seq(Nat), ValidateKey(key)
  PROVE  \E p \in Seq(Seq(Nat)), l \in Seq(Nat) :
           /\ p = KeyToPath(key) /\ Len(p) >= 2 /\ l = p[Len(p)]
           /\ MetaPath(key) = Append(SubSeq(p, 1, Len(p) - 1), l \o Suffix(key))
           /\ \A j \in 1 .. Len(l) : \E m \in 1 .. Len(key) : l[j] = key[m]
<1>1. Depth(key) \in 1 .. Segs(key) /\ KeyToPath(key) = Down(key, Depth(key))
  BY KeyToPathIs DEF Down
<1>2. PICK d \in 1 .. Segs(key) : d = Depth(key) /\ d \in Nat
  BY <1>1, BoundsAre
<1>3. PICK p \in Seq(Seq(Nat)) : p = KeyToPath(key) /\ p = Down(key, d)
  BY <1>1, <1>2, DownIs
<1>4. Len(p) = d + 1 /\ p[d + 1] = Segments(key)[d]
  <2>1. d + 1 \in 2 .. d + 1 /\ (d + 1) - 1 = d
    BY <1>2
  <2>. QED  BY <1>3, <2>1, DownIs
<1>5. PICK l \in Seq(Nat) : l = p[Len(p)] /\ l = Segments(key)[d]
  BY <1>4, SegmentsAre, ElementOfSeq
<1>6. MetaPath(key) = Append(SubSeq(p, 1, Len(p) - 1), l \o Suffix(key))
  BY <1>3, <1>5 DEF MetaPath, Front, Last, Suffix
<1>7. \A j \in 1 .. Len(l) : \E m \in 1 .. Len(key) : l[j] = key[m]
  <2>1. ASSUME NEW j \in 1 .. Len(l) PROVE \E m \in 1 .. Len(key) : l[j] = key[m]
    <3>1. j \in 1 .. Len(Segments(key)[d])
      BY <1>5
    <3>2. \E m \in 1 .. Len(key) : Segments(key)[d][j] = key[m]
      BY <3>1, SegmentOf
    <3>. QED  BY <1>5, <3>2
  <2>. QED  BY <2>1
<1>8. Len(p) >= 2
  BY <1>2, <1>4
<1>9. p = KeyToPath(key) /\ l = p[Len(p)]
  BY <1>3, <1>5
<1>. QED  BY <1>6, <1>7, <1>8, <1>9, Zenon

LEMMA SameEnds ==
  ASSUME NEW S, NEW s \in Seq(S), NEW t \in Seq(S), NEW e \in Seq(S), s \o e = t \o e
  PROVE  s = t
<1>1. /\ Len(s \o e) = Len(s) + Len(e) /\ Len(t \o e) = Len(t) + Len(e)
      /\ \A i \in 1 .. Len(s) + Len(e) :
           (s \o e)[i] = IF i <= Len(s) THEN s[i] ELSE e[i - Len(s)]
      /\ \A i \in 1 .. Len(t) + Len(e) :
           (t \o e)[i] = IF i <= Len(t) THEN t[i] ELSE e[i - Len(t)]
  BY ConcatProperties
<1>2. Len(s) \in Nat /\ Len(t) \in Nat /\ Len(e) \in Nat
  OBVIOUS
<1>3. Len(s) = Len(t)
  BY <1>1, <1>2
<1>4. ASSUME NEW i \in 1 .. Len(s) PROVE s[i] = t[i]
  <2>1. i \in 1 .. Len(s) + Len(e) /\ i \in 1 .. Len(t) + Len(e) /\ i <= Len(s) /\ i <= Len(t)
    BY <1>2, <1>3
  <2>. QED  BY <1>1, <2>1
<1>. QED  BY <1>3, <1>4, SeqEqual

\* Paths that are the same up to the last component and in it.
LEMMA SameAppended ==
  ASSUME NEW s \in Seq(Seq(Nat)), NEW t \in Seq(Seq(Nat)),
         NEW x \in Seq(Nat), NEW y \in Seq(Nat),
         Len(s) # 0, Len(t) # 0,
         Append(SubSeq(s, 1, Len(s) - 1), x) = Append(SubSeq(t, 1, Len(t) - 1), y)
  PROVE  /\ x = y
         /\ s[Len(s)] = t[Len(t)] => s = t
<1>1. PICK m \in Nat, n \in Nat : m = Len(s) /\ n = Len(t) /\ m >= 1 /\ n >= 1
  <2>1. Len(s) \in Nat /\ Len(t) \in Nat
    OBVIOUS
  <2>. QED  BY <2>1
<1>2. PICK u \in Seq(Seq(Nat)), v \in Seq(Seq(Nat)) :
        /\ u = SubSeq(s, 1, m - 1) /\ v = SubSeq(t, 1, n - 1)
        /\ Len(u) = m - 1 /\ Len(v) = n - 1
        /\ \A i \in 1 .. m - 1 : u[i] = s[i]
        /\ \A i \in 1 .. n - 1 : v[i] = t[i]
  <2>1. m - 1 \in 0 .. Len(s) /\ n - 1 \in 0 .. Len(t)
    BY <1>1
  <2>2. /\ SubSeq(s, 1, m - 1) \in Seq(Seq(Nat)) /\ Len(SubSeq(s, 1, m - 1)) = m - 1
        /\ \A i \in 1 .. m - 1 : SubSeq(s, 1, m - 1)[i] = s[i]
    BY <2>1, FrontOf
  <2>3. /\ SubSeq(t, 1, n - 1) \in Seq(Seq(Nat)) /\ Len(SubSeq(t, 1, n - 1)) = n - 1
        /\ \A i \in 1 .. n - 1 : SubSeq(t, 1, n - 1)[i] = t[i]
    BY <2>1, FrontOf
  <2>. QED  BY <2>2, <2>3
<1>3. Append(u, x) = Append(v, y)
  BY <1>1, <1>2
<1>4. /\ Len(Append(u, x)) = m /\ Len(Append(v, y)) = n
      /\ Append(u, x)[m] = x /\ Append(v, y)[n] = y
      /\ \A i \in 1 .. m - 1 : Append(u, x)[i] = u[i]
      /\ \A i \in 1 .. n - 1 : Append(v, y)[i] = v[i]
  <2>1. ASSUME NEW w \in Seq(Seq(Nat)), NEW z \in Seq(Nat)
        PROVE  /\ Len(Append(w, z)) = Len(w) + 1 /\ Append(w, z)[Len(w) + 1] = z
               /\ \A i \in 1 .. Len(w) : Append(w, z)[i] = w[i]
    OBVIOUS
  <2>2. Len(u) = m - 1 /\ Len(v) = n - 1 /\ (m - 1) + 1 = m /\ (n - 1) + 1 = n
    BY <1>2
  <2>3. /\ Len(Append(u, x)) = m /\ Append(u, x)[m] = x
        /\ \A i \in 1 .. m - 1 : Append(u, x)[i] = u[i]
    BY <2>1, <2>2
  <2>4. /\ Len(Append(v, y)) = n /\ Append(v, y)[n] = y
        /\ \A i \in 1 .. n - 1 : Append(v, y)[i] = v[i]
    BY <2>1, <2>2
  <2>. QED  BY <2>3, <2>4
<1>5. m = n /\ x = y
  BY <1>3, <1>4
<1>6. ASSUME s[Len(s)] = t[Len(t)] PROVE s = t
  <2>1. ASSUME NEW i \in 1 .. m PROVE s[i] = t[i]
    <3>1. CASE i = m
      BY <1>1, <1>5, <1>6, <3>1
    <3>2. CASE i # m
      <4>1. i \in 1 .. m - 1 /\ i \in 1 .. n - 1
        BY <1>5, <3>2
      <4>. QED  BY <1>2, <1>3, <1>4, <4>1
    <3>. QED  BY <3>1, <3>2
  <2>. QED  BY <1>1, <1>5, <2>1, SeqEqual
<1>. QED  BY <1>5, <1>6

\* Two names with one path are a key and its marker.
LEMMA OnePath ==
  ASSUME NEW f \in Seq(Nat), NEW g \in Seq(Nat), ValidateKey(f), ValidateKey(g),
         KeyToPath(f) = KeyToPath(g)
  PROVE  /\ (IsDirMarker(f) <=> IsDirMarker(g)) => f = g
         /\ IsDirMarker(f) /\ ~IsDirMarker(g) => f = Append(g, Slash)
  BY KeyComesBack

\* The ending of a marker's sidecar is in no component of a plain name.
LEMMA EndingsApart ==
  ASSUME NEW a \in Seq(Nat), NEW b \in Seq(Nat), NEW h \in Seq(Nat), Plain(h),
         \A j \in 1 .. Len(b) : \E m \in 1 .. Len(h) : b[j] = h[m]
  PROVE  a \o <<DirMarker, Json>> # b \o <<Json>>
<1>. SUFFICES ASSUME a \o <<DirMarker, Json>> = b \o <<Json>> PROVE FALSE
  OBVIOUS
<1>1. PICK d \in Seq(Nat), i \in Seq(Nat) :
        /\ d = <<DirMarker, Json>> /\ Len(d) = 2 /\ d[1] = DirMarker
        /\ i = <<Json>> /\ Len(i) = 1
  <2>1. /\ <<DirMarker, Json>> \in Seq(Nat) /\ Len(<<DirMarker, Json>>) = 2
        /\ <<DirMarker, Json>>[1] = DirMarker
        /\ <<Json>> \in Seq(Nat) /\ Len(<<Json>>) = 1
    BY KeyPathsType
  <2>. QED  BY <2>1
<1>2. /\ Len(a \o d) = Len(a) + Len(d) /\ Len(b \o i) = Len(b) + Len(i)
      /\ \A n \in 1 .. Len(a) + Len(d) :
           (a \o d)[n] = IF n <= Len(a) THEN a[n] ELSE d[n - Len(a)]
      /\ \A n \in 1 .. Len(b) + Len(i) :
           (b \o i)[n] = IF n <= Len(b) THEN b[n] ELSE i[n - Len(b)]
  BY ConcatProperties
<1>3. a \o d = b \o i
  BY <1>1
<1>4. PICK x \in Nat, y \in Nat : x = Len(a) /\ y = Len(b)
  <2>1. Len(a) \in Nat /\ Len(b) \in Nat
    OBVIOUS
  <2>. QED  BY <2>1
<1>5. y = x + 1
  BY <1>1, <1>2, <1>3, <1>4
<1>6. (a \o d)[y] = DirMarker
  <2>1. y \in 1 .. x + 2 /\ ~(y <= x) /\ y - x = 1
    BY <1>5
  <2>. QED  BY <1>1, <1>2, <1>4, <2>1
<1>7. (b \o i)[y] = b[y]
  <2>1. y \in 1 .. y + 1 /\ y <= y
    BY <1>5
  <2>. QED  BY <1>1, <1>2, <1>4, <2>1
<1>8. y \in 1 .. Len(b) /\ b[y] = DirMarker
  BY <1>3, <1>4, <1>5, <1>6, <1>7
<1>. QED  BY <1>8 DEF Plain

\* A sidecar belongs to one key only.
LEMMA OneSidecar ==
  ASSUME NEW f \in Seq(Nat), NEW g \in Seq(Nat), ValidateKey(f), ValidateKey(g),
         Plain(f), Plain(g), MetaPath(f) = MetaPath(g)
  PROVE  f = g
<1>1. PICK p \in Seq(Seq(Nat)), k \in Seq(Nat) :
        /\ p = KeyToPath(f) /\ Len(p) >= 2 /\ k = p[Len(p)]
        /\ MetaPath(f) = Append(SubSeq(p, 1, Len(p) - 1), k \o Suffix(f))
        /\ \A j \in 1 .. Len(k) : \E m \in 1 .. Len(f) : k[j] = f[m]
  BY MetaPathIs
<1>2. PICK q \in Seq(Seq(Nat)), l \in Seq(Nat) :
        /\ q = KeyToPath(g) /\ Len(q) >= 2 /\ l = q[Len(q)]
        /\ MetaPath(g) = Append(SubSeq(q, 1, Len(q) - 1), l \o Suffix(g))
        /\ \A j \in 1 .. Len(l) : \E m \in 1 .. Len(g) : l[j] = g[m]
  BY MetaPathIs
<1>3. Len(p) # 0 /\ Len(q) # 0
  BY <1>1, <1>2
<1>4. /\ k \o Suffix(f) = l \o Suffix(g)
      /\ p[Len(p)] = q[Len(q)] => p = q
  <2>1. Append(SubSeq(p, 1, Len(p) - 1), k \o Suffix(f))
          = Append(SubSeq(q, 1, Len(q) - 1), l \o Suffix(g))
    BY <1>1, <1>2
  <2>2. PICK x \in Seq(Nat), y \in Seq(Nat) : x = k \o Suffix(f) /\ y = l \o Suffix(g)
    <3>1. Suffix(f) \in Seq(Nat) /\ Suffix(g) \in Seq(Nat)
      BY KeyPathsType DEF Suffix
    <3>2. k \o Suffix(f) \in Seq(Nat) /\ l \o Suffix(g) \in Seq(Nat)
      BY <3>1, ConcatProperties
    <3>. QED  BY <3>2
  <2>3. Append(SubSeq(p, 1, Len(p) - 1), x) = Append(SubSeq(q, 1, Len(q) - 1), y)
    BY <2>1, <2>2
  <2>4. x = y /\ (p[Len(p)] = q[Len(q)] => p = q)
    BY <1>3, <2>3, SameAppended
  <2>. QED  BY <2>2, <2>4
<1>5. <<Json>> \in Seq(Nat) /\ <<DirMarker, Json>> \in Seq(Nat) /\ DirMarker \in Nat
  BY KeyPathsType
<1>6. IsDirMarker(f) <=> IsDirMarker(g)
  <2>1. ~(IsDirMarker(f) /\ ~IsDirMarker(g))
    BY <1>1, <1>2, <1>4, EndingsApart DEF Suffix
  <2>2. ~(IsDirMarker(g) /\ ~IsDirMarker(f))
    BY <1>1, <1>2, <1>4, EndingsApart DEF Suffix
  <2>. QED  BY <2>1, <2>2
<1>7. Suffix(f) = Suffix(g) /\ Suffix(f) \in Seq(Nat)
  BY <1>5, <1>6 DEF Suffix
<1>8. k = l
  BY <1>4, <1>7, SameEnds
<1>9. KeyToPath(f) = KeyToPath(g)
  BY <1>1, <1>2, <1>4, <1>8
<1>. QED  BY <1>6, <1>9, OnePath

\* A name has a path only if it is a key.
LEMMA PathOnlyForKeys ==
  ASSUME NEW name, KeyToPath(name) # NoPath
  PROVE  ValidateKey(name)
  BY DEF KeyToPath

LEMMA KeysAre ==
  /\ Keys = {n \in Names : KeyToPath(n) # NoPath}
  /\ \A k \in Keys : k \in Names /\ k \in Seq(Nat) /\ k # <<>> /\ ValidateKey(k) /\ Plain(k)
<1>1. Keys = {n \in Names : KeyToPath(n) # NoPath}
  <2>1. \A k : k \in Keys <=> \E f \in Places : k = f.key
    BY DEF Keys
  <2>2. \A f \in Places : f.key \in {n \in Names : KeyToPath(n) # NoPath}
    BY DEF Places
  <2>3. ASSUME NEW k \in {n \in Names : KeyToPath(n) # NoPath} PROVE \E f \in Places : k = f.key
    <3>1. [key |-> k, path |-> KeyToPath(k), meta |-> MetaPath(k),
           found |-> PathToKey(KeyToPath(k)), dirs |-> DirsOf(k)] \in Places
      BY DEF Places
    <3>. QED  BY <3>1
  <2>. QED  BY <2>1, <2>2, <2>3
<1>2. ASSUME NEW k \in Keys
      PROVE  k \in Names /\ k \in Seq(Nat) /\ k # <<>> /\ ValidateKey(k) /\ Plain(k)
  <2>1. k \in Names /\ k \in Seq(Nat) /\ ValidateKey(k)
    BY <1>1, NamesType, PathOnlyForKeys
  <2>2. k # <<>>
    BY <2>1 DEF ValidateKey
  <2>3. Plain(k)
    <3>1. DOMAIN k = 1 .. Len(k)
      BY <2>1
    <3>. QED  BY <2>1, <3>1, NamesPlain DEF Plain
  <2>. QED  BY <2>1, <2>2, <2>3
<1>. QED  BY <1>1, <1>2

\* Of keys that can be in one tree, each has a file and a sidecar of its own.
LEMMA FilesApart ==
  ASSUME keys \subseteq Keys, Compatible(keys)
  PROVE  OwnFiles
<1>1. ASSUME NEW f \in Stored, NEW g \in Stored, f # g
      PROVE  f.path # g.path /\ f.meta # g.meta
  <2>1. /\ f \in Places /\ f.key \in keys /\ g \in Places /\ g.key \in keys
        /\ f.path = KeyToPath(f.key) /\ f.meta = MetaPath(f.key)
        /\ g.path = KeyToPath(g.key) /\ g.meta = MetaPath(g.key)
    BY DEF Stored, Places
  <2>2. f.key # g.key
    BY <1>1, <2>1 DEF Places
  <2>3. PICK j \in keys, k \in keys : j = f.key /\ k = g.key
    BY <2>1
  <2>4. /\ j \in Seq(Nat) /\ ValidateKey(j) /\ Plain(j)
        /\ k \in Seq(Nat) /\ ValidateKey(k) /\ Plain(k)
    BY KeysAre
  <2>5. MetaPath(j) # MetaPath(k)
    BY <2>2, <2>3, <2>4, OneSidecar
  <2>6. ASSUME NEW a \in keys, NEW b \in keys, a \in Seq(Nat), b \in Seq(Nat),
               a = Append(b, Slash)
        PROVE  FALSE
    <3>1. IsPrefix(a, a)
      <4>1. Len(a) <= Len(a)
        BY <2>6
      <4>. QED  BY <4>1 DEF IsPrefix
    <3>. QED  BY <2>6, <3>1 DEF Compatible
  <2>7. KeyToPath(j) # KeyToPath(k)
    <3>1. ASSUME KeyToPath(j) = KeyToPath(k) PROVE FALSE
      <4>1. j # k
        BY <2>2, <2>3
      <4>2. (IsDirMarker(j) /\ ~IsDirMarker(k)) \/ (IsDirMarker(k) /\ ~IsDirMarker(j))
        BY <2>4, <3>1, <4>1, OnePath
      <4>3. j = Append(k, Slash) \/ k = Append(j, Slash)
        BY <2>4, <3>1, <4>2, OnePath
      <4>. QED  BY <2>4, <2>6, <4>3
    <3>. QED  BY <3>1
  <2>. QED  BY <2>1, <2>3, <2>5, <2>7
<1>. QED  BY <1>1 DEF OwnFiles

-----------------------------------------------------------------------------
(***************************************************************************)
(* The walk finds the keys                                                 *)
(***************************************************************************)

\* The beginning of a key's path is a directory above it.
LEMMA PathDown ==
  ASSUME NEW key \in Seq(Nat), ValidateKey(key), NEW m \in 1 .. Depth(key)
  PROVE  SubSeq(KeyToPath(key), 1, m + 1) = Down(key, m)
<1>1. PICK d \in 1 .. Segs(key) : d = Depth(key) /\ d \in Nat
  BY KeyToPathIs, BoundsAre
<1>2. m \in Nat /\ m <= d /\ m >= 1 /\ m \in 1 .. Segs(key) /\ Segs(key) \in Nat
  BY <1>1, BoundsAre
<1>3. PICK p \in Seq(Seq(Nat)) : p = KeyToPath(key) /\ p = Down(key, d)
  BY <1>1, KeyToPathIs, DownIs DEF Down
<1>4. PICK t \in Seq(Seq(Nat)) : t = Down(key, m)
  BY <1>2, DownIs
<1>5. /\ Len(p) = d + 1 /\ Len(t) = m + 1
      /\ \A i \in 2 .. d + 1 : p[i] = Segments(key)[i - 1]
      /\ \A i \in 2 .. m + 1 : t[i] = Segments(key)[i - 1]
  BY <1>2, <1>3, <1>4, DownIs
<1>6. p[1] = Base[1] /\ t[1] = Base[1]
  <2>1. ASSUME NEW n \in 1 .. Segs(key) PROVE Down(key, n)[1] = Base[1]
    <3>1. n \in 0 .. Len(Segments(key))
      BY <1>2, SegmentsAre
    <3>2. PICK low \in Seq(Seq(Nat)) : low = SubSeq(Segments(key), 1, n)
      BY <3>1, FrontOf, SegmentsAre
    <3>3. (Base \o low)[1] = Base[1]
      <4>1. 1 \in 1 .. Len(Base) + Len(low) /\ 1 <= Len(Base)
        BY BaseIs
      <4>. QED  BY <4>1, BaseIs, ConcatProperties
    <3>. QED  BY <3>2, <3>3 DEF Down
  <2>2. Down(key, d)[1] = Base[1]
    BY <2>1
  <2>3. Down(key, m)[1] = Base[1]
    BY <1>2, <2>1
  <2>. QED  BY <1>3, <1>4, <2>2, <2>3
<1>7. PICK u \in Seq(Seq(Nat)) :
        u = SubSeq(p, 1, m + 1) /\ Len(u) = m + 1 /\ \A i \in 1 .. m + 1 : u[i] = p[i]
  <2>1. m + 1 \in 0 .. Len(p)
    BY <1>2, <1>5
  <2>2. /\ SubSeq(p, 1, m + 1) \in Seq(Seq(Nat)) /\ Len(SubSeq(p, 1, m + 1)) = m + 1
        /\ \A i \in 1 .. m + 1 : SubSeq(p, 1, m + 1)[i] = p[i]
    BY <2>1, FrontOf
  <2>. QED  BY <2>2
<1>8. ASSUME NEW i \in 1 .. m + 1 PROVE u[i] = t[i]
  <2>1. CASE i = 1
    BY <1>6, <1>7, <2>1
  <2>2. CASE i # 1
    <3>1. i \in 2 .. d + 1 /\ i \in 2 .. m + 1
      BY <1>1, <1>2, <2>2
    <3>. QED  BY <1>5, <1>7, <3>1
  <2>. QED  BY <2>1, <2>2
<1>9. u = t
  BY <1>5, <1>7, <1>8, SeqEqual
<1>. QED  BY <1>3, <1>4, <1>7, <1>9

\* The directories above a key, as markers.
LEMMA DirsAre ==
  ASSUME NEW key \in Seq(Nat), ValidateKey(key)
  PROVE  /\ \A dir \in DirsOf(key) : \E n \in 1 .. Segs(key) - 1 :
              dir.marker = DirMarkerOf(key, n) /\ dir.meta = MetaPath(dir.marker)
         /\ \A n \in 1 .. Segs(key) - 1 : \E dir \in DirsOf(key) :
              dir.marker = DirMarkerOf(key, n) /\ dir.meta = MetaPath(dir.marker)
<1>1. PICK d \in 1 .. Segs(key) : d = Depth(key) /\ d \in Nat /\ Segs(key) \in Nat
  BY KeyToPathIs, BoundsAre
<1>2. Len(KeyToPath(key)) = d + 1
  BY <1>1, KeyToPathIs, DownIs DEF Down
<1>3. d + 1 - (IF IsDirMarker(key) THEN 0 ELSE 1) = Segs(key)
  BY <1>1 DEF Depth
<1>4. Segs(key) - 1 <= d
  BY <1>1 DEF Depth
<1>. DEFINE Of(n) == Append(PathToKey(SubSeq(KeyToPath(key), 1, n)), Slash)
            D == {[marker |-> Of(n), meta |-> MetaPath(Of(n))] : n \in 2 .. Segs(key)}
<1>5. DirsOf(key) = D
  <2>1. PICK first, last :
          /\ first = Len(Base) + 1
          /\ last = Len(KeyToPath(key)) - (IF IsDirMarker(key) THEN 0 ELSE 1)
    OBVIOUS
  <2>2. first = 2 /\ last = Segs(key)
    BY <1>2, <1>3, <2>1, BaseIs
  <2>3. DirsOf(key) = {[marker |-> Of(n), meta |-> MetaPath(Of(n))] : n \in first .. last}
    BY <2>1 DEF DirsOf
  <2>. QED  BY <2>2, <2>3
<1>6. ASSUME NEW m \in 1 .. Segs(key) - 1 PROVE Of(m + 1) = DirMarkerOf(key, m)
  <2>1. m \in 1 .. Depth(key)
    BY <1>1, <1>4
  <2>2. SubSeq(KeyToPath(key), 1, m + 1) = Down(key, m)
    BY <2>1, PathDown
  <2>3. DirMarkerOf(key, m) = Append(PathToKey(Down(key, m)), Slash)
    BY DirMarkerIs
  <2>. QED  BY <2>2, <2>3
<1>. HIDE DEF Of
<1>7. ASSUME NEW dir \in D
      PROVE  \E n \in 1 .. Segs(key) - 1 :
               dir.marker = DirMarkerOf(key, n) /\ dir.meta = MetaPath(dir.marker)
  <2>1. PICK n \in 2 .. Segs(key) : dir = [marker |-> Of(n), meta |-> MetaPath(Of(n))]
    OBVIOUS
  <2>2. n - 1 \in 1 .. Segs(key) - 1 /\ (n - 1) + 1 = n
    BY <1>1
  <2>3. Of(n) = DirMarkerOf(key, n - 1)
    BY <1>6, <2>2
  <2>. QED  BY <2>1, <2>2, <2>3
<1>8. ASSUME NEW n \in 1 .. Segs(key) - 1
      PROVE  \E dir \in D :
               dir.marker = DirMarkerOf(key, n) /\ dir.meta = MetaPath(dir.marker)
  <2>1. n + 1 \in 2 .. Segs(key)
    BY <1>1
  <2>2. [marker |-> Of(n + 1), meta |-> MetaPath(Of(n + 1))] \in D
    BY <2>1
  <2>. QED  BY <1>6, <2>2
<1>. QED  BY <1>5, <1>7, <1>8

\* A marker that has a sidecar is a key: no other name has that sidecar.
LEMMA MarkersKept ==
  ASSUME keys \subseteq Keys, NEW k \in keys, NEW n \in 1 .. Segs(k) - 1,
         NEW dir, dir.marker = DirMarkerOf(k, n), dir.meta = MetaPath(dir.marker)
  PROVE  HasMarker(dir) <=> dir.marker \in keys
<1>1. k \in Seq(Nat) /\ ValidateKey(k) /\ Plain(k)
  BY KeysAre
<1>2. PICK d \in Seq(Nat) :
        /\ d = dir.marker /\ ValidateKey(d)
        /\ \A i \in 1 .. Len(d) : i \in 1 .. Len(k) /\ d[i] = k[i]
  BY <1>1, DirMarkerIs
<1>3. Plain(d)
  BY <1>1, <1>2 DEF Plain
<1>4. ASSUME NEW f \in Places, f.key \in keys, f.meta = dir.meta PROVE dir.marker \in keys
  <2>1. PICK j \in keys : j = f.key /\ j \in Seq(Nat) /\ ValidateKey(j) /\ Plain(j)
    BY <1>4, KeysAre
  <2>2. MetaPath(j) = MetaPath(d)
    BY <1>2, <1>4, <2>1 DEF Places
  <2>3. j = d
    BY <1>2, <1>3, <2>1, <2>2, OneSidecar
  <2>. QED  BY <1>2, <2>1, <2>3
<1>5. ASSUME dir.marker \in keys PROVE \E f \in Places : f.key \in keys /\ f.meta = dir.meta
  <2>1. PICK f \in Places : f.key = dir.marker
    <3>1. dir.marker \in Keys
      BY <1>5
    <3>. QED  BY <3>1 DEF Keys
  <2>2. f.meta = MetaPath(dir.marker)
    BY <2>1 DEF Places
  <2>. QED  BY <1>5, <2>1, <2>2
<1>. QED  BY <1>4, <1>5 DEF HasMarker

\* A marker is the lowest directory of its own path.
LEMMA MarkerIsDir ==
  ASSUME NEW k \in Seq(Nat), ValidateKey(k), IsDirMarker(k)
  PROVE  /\ Segs(k) - 1 \in 1 .. Segs(k) - 1
         /\ DirMarkerOf(k, Segs(k) - 1) = k
<1>1. Segs(k) \in Nat /\ Depth(k) \in 1 .. Segs(k) /\ Depth(k) = Segs(k) - 1 /\ k # <<>>
  BY BoundsAre, KeyToPathIs DEF Depth, ValidateKey
<1>2. Bound(k, Segs(k) - 1) = Len(k)
  BY <1>1, MarkerEnds
<1>. QED  BY <1>1, <1>2, SubSeqFull DEF DirMarkerOf

\* The walk finds each key and nothing else.
LEMMA WalkIs ==
  ASSUME keys \subseteq Keys
  PROVE  Walked = keys
<1>1. \A f \in Stored : f.key \in keys /\ f.found = PathToKey(KeyToPath(f.key))
                        /\ f.dirs = DirsOf(f.key)
  BY DEF Stored, Places
<1>2. ASSUME NEW k \in keys PROVE \E f \in Stored : f.key = k
  <2>1. k \in Keys
    OBVIOUS
  <2>2. PICK f \in Places : f.key = k
    BY <2>1 DEF Keys
  <2>. QED  BY <2>2 DEF Stored
<1>3. ASSUME NEW f \in Stored, ~IsDirMarker(f.key) PROVE f.found = f.key
  <2>1. PICK k \in keys : k = f.key /\ k \in Seq(Nat) /\ ValidateKey(k)
    BY <1>1, KeysAre
  <2>2. PathToKey(KeyToPath(k)) = k
    BY <1>3, <2>1, KeyComesBack
  <2>. QED  BY <1>1, <2>1, <2>2
<1>4. ASSUME NEW f \in Stored, NEW dir \in f.dirs PROVE HasMarker(dir) <=> dir.marker \in keys
  <2>1. PICK k \in keys : k = f.key /\ k \in Seq(Nat) /\ ValidateKey(k) /\ dir \in DirsOf(k)
    BY <1>1, <1>4, KeysAre
  <2>2. PICK n \in 1 .. Segs(k) - 1 :
          dir.marker = DirMarkerOf(k, n) /\ dir.meta = MetaPath(dir.marker)
    BY <2>1, DirsAre
  <2>. QED  BY <2>2, MarkersKept
<1>5. ASSUME NEW k \in Walked PROVE k \in keys
  <2>1. \/ \E f \in Stored : ~IsDirMarker(f.key) /\ k = f.found
        \/ \E f \in Stored : \E dir \in f.dirs : HasMarker(dir) /\ k = dir.marker
    BY DEF Walked
  <2>. QED  BY <1>1, <1>3, <1>4, <2>1
<1>6. ASSUME NEW k \in keys PROVE k \in Walked
  <2>1. PICK f \in Stored : f.key = k
    BY <1>2
  <2>2. CASE ~IsDirMarker(k)
    <3>1. f.found = k
      BY <1>3, <2>1, <2>2
    <3>. QED  BY <2>1, <2>2, <3>1 DEF Walked
  <2>3. CASE IsDirMarker(k)
    <3>1. k \in Seq(Nat) /\ ValidateKey(k)
      BY KeysAre
    <3>2. PICK n \in 1 .. Segs(k) - 1 : DirMarkerOf(k, n) = k
      BY <2>3, <3>1, MarkerIsDir
    <3>3. PICK dir \in DirsOf(k) : dir.marker = k
      BY <3>1, <3>2, DirsAre
    <3>4. dir \in f.dirs /\ HasMarker(dir)
      BY <1>1, <1>4, <2>1, <3>3
    <3>. QED  BY <3>3, <3>4 DEF Walked
  <2>. QED  BY <2>2, <2>3
<1>. QED  BY <1>5, <1>6

\* The directory a prefix names is a beginning of it.
LEMMA StartDirIs ==
  ASSUME NEW prefix \in Seq(Nat)
  PROVE  StartDir(prefix) \in Seq(Nat) /\ IsPrefix(StartDir(prefix), prefix)
<1>. DEFINE I == {i \in 1 .. Len(prefix) : prefix[i] = Slash}
<1>1. SelectLastInSeq(prefix, LAMBDA c : c = Slash) = IF I # {} THEN Max(I) ELSE 0
  BY DEF SelectLastInSeq
<1>2. I # {} => Max(I) \in I
  <2>1. CASE I # {}
    <3>1. I \in SUBSET Nat /\ Len(prefix) \in Nat /\ \A i \in I : i <= Len(prefix)
      OBVIOUS
    <3>. HIDE DEF I
    <3>2. PICK n \in I : \A m \in I : m <= n
      BY <2>1, <3>1, GreatestNumber
    <3>3. \A m \in I : n >= m
      BY <3>1, <3>2
    <3>. QED  BY <3>3 DEF Max
  <2>. QED  BY <2>1
<1>3. PICK n \in 0 .. Len(prefix) : StartDir(prefix) = SubSeq(prefix, 1, n)
  <2>1. (IF I # {} THEN Max(I) ELSE 0) \in 0 .. Len(prefix)
    BY <1>2
  <2>. QED  BY <1>1, <2>1 DEF StartDir
<1>4. PICK s \in Seq(Nat) :
        s = SubSeq(prefix, 1, n) /\ Len(s) = n /\ \A i \in 1 .. n : s[i] = prefix[i]
  <2>1. /\ SubSeq(prefix, 1, n) \in Seq(Nat) /\ Len(SubSeq(prefix, 1, n)) = n
        /\ \A i \in 1 .. n : SubSeq(prefix, 1, n)[i] = prefix[i]
    BY FrontOf
  <2>. QED  BY <2>1
<1>5. IsPrefix(s, prefix)
  <2>1. Len(s) <= Len(prefix) /\ \A i \in 1 .. Len(s) : s[i] = prefix[i]
    BY <1>4
  <2>. QED  BY <2>1, PrefixIs
<1>. QED  BY <1>3, <1>4, <1>5

\* collectKeys has the keys with the prefix.
LEMMA CollectKeysAre ==
  ASSUME keys \subseteq Keys, NEW prefix \in Seq(Nat)
  PROVE  CollectKeys(prefix) = {k \in keys : IsPrefix(prefix, k)}
<1>1. PICK start \in Seq(Nat) :
        /\ start = IF StartDir(prefix) = <<Slash>> THEN <<>> ELSE StartDir(prefix)
        /\ IsPrefix(start, prefix)
  <2>1. <<>> \in Seq(Nat) /\ IsPrefix(<<>>, prefix)
    <3>1. PICK e \in Seq(Nat) : e = <<>> /\ Len(e) = 0
      <4>1. <<>> \in Seq(Nat) /\ Len(<<>>) = 0
        OBVIOUS
      <4>. QED  BY <4>1
    <3>2. Len(e) <= Len(prefix) /\ \A i \in 1 .. Len(e) : e[i] = prefix[i]
      BY <3>1
    <3>. QED  BY <3>1, <3>2, PrefixIs
  <2>. QED  BY <2>1, StartDirIs
<1>2. CollectKeys(prefix) = {k \in Walked : IsPrefix(start, k) /\ IsPrefix(prefix, k)}
  BY <1>1 DEF CollectKeys
<1>3. ASSUME NEW k \in keys, IsPrefix(prefix, k) PROVE IsPrefix(start, k)
  <2>1. k \in Seq(Nat)
    BY KeysAre
  <2>2. Len(start) <= Len(prefix) /\ \A i \in 1 .. Len(start) : start[i] = prefix[i]
    BY <1>1, PrefixIs
  <2>3. Len(prefix) <= Len(k) /\ \A i \in 1 .. Len(prefix) : prefix[i] = k[i]
    BY <1>3, <2>1, PrefixIs
  <2>4. Len(start) <= Len(k) /\ \A i \in 1 .. Len(start) : start[i] = k[i]
    BY <2>1, <2>2, <2>3
  <2>. QED  BY <2>1, <2>4, PrefixIs
<1>. QED  BY <1>2, <1>3, WalkIs

-----------------------------------------------------------------------------
(***************************************************************************)
(* Paging                                                                  *)
(***************************************************************************)

\* What was sent lies up to the cursor.
Sent ==
  /\ cursor = Start => got = <<>>
  /\ cursor # Start => cursor.name # <<>>
  /\ \A n \in DOMAIN got : got[n].name = cursor.name \/ Precedes(got[n].name, cursor.name)

\* What is there all the time was sent, or lies behind the cursor.
Ahead ==
  \A k \in always :
    IsPrefix(query.prefix, k) /\ Beyond(RowOf(k, query).name, query.after) =>
      \/ \E n \in DOMAIN got : got[n] = RowOf(k, query)
      \/ Beyond(RowOf(k, query).name, After(query, cursor))

\* Only keys are stored, and a client that goes on has what lies up to its cursor.
LInv ==
  /\ TypeOK
  /\ keys \subseteq Keys /\ Compatible(keys) /\ keys \subseteq ever
  /\ status = "paging" => Sent /\ Ahead
  /\ NoRowTwice /\ NothingSkipped /\ NothingInvented

A_Row == [name : Seq(Nat), rolled : BOOLEAN]

\* The rows of a request.
LEMMA RemainingIs ==
  ASSUME keys \subseteq Keys, NEW q \in Query, NEW c
  PROVE  /\ \A r \in Remaining(q, c) :
              /\ r \in A_Row /\ r.name # <<>> /\ IsPrefix(q.prefix, r.name)
              /\ Beyond(r.name, After(q, c))
              /\ \E k \in keys : IsPrefix(q.prefix, k) /\ r = RowOf(k, q)
              /\ ~r.rolled => r = RowOf(r.name, q)
         /\ \A k \in keys : IsPrefix(q.prefix, k) /\ Beyond(RowOf(k, q).name, After(q, c))
              => RowOf(k, q) \in Remaining(q, c)
         /\ Listable(Remaining(q, c))
<1>. DEFINE some == {k \in keys : IsPrefix(q.prefix, k)}
            all == {RowOf(k, q) : k \in some}
<1>0. q.prefix \in Seq(Nat)
  BY DEF Query
<1>1. CollectKeys(q.prefix) = some
  BY <1>0, CollectKeysAre
<1>2. Remaining(q, c) = {r \in all : Beyond(r.name, After(q, c))}
  BY <1>1 DEF Remaining
<1>3. ASSUME NEW k \in some
      PROVE  /\ k \in Seq(Nat) /\ RowOf(k, q) \in A_Row /\ RowOf(k, q).name # <<>>
             /\ IsPrefix(q.prefix, RowOf(k, q).name)
             /\ ~RowOf(k, q).rolled => RowOf(k, q).name = k
  <2>1. k \in Seq(Nat) /\ k # <<>> /\ IsPrefix(q.prefix, k)
    BY KeysAre
  <2>. QED  BY <2>1, RowIs DEF A_Row
<1>4. IsFiniteSet(all)
  <2>1. some \in SUBSET Names
    BY KeysAre
  <2>2. IsFiniteSet(some)
    BY <2>1, NamesType, FS_Subset
  <2>3. PICK f : f = [k \in some |-> RowOf(k, q)]
    OBVIOUS
  <2>. HIDE DEF some
  <2>4. f \in Surjection(some, all)
    BY <2>3 DEF Surjection
  <2>. HIDE DEF all
  <2>. QED  BY <2>2, <2>4, FS_Surjection
<1>5. Listable(all)
  <2>1. \A r \in all : r.name \in Seq(Nat)
    BY <1>3 DEF A_Row
  <2>2. \A r, s \in all : r.name = s.name => r = s
    BY <1>3, RowsTold
  <2>. QED  BY <1>4, <2>1, <2>2 DEF Listable
<1>6. Listable(Remaining(q, c))
  <2>1. Remaining(q, c) \in SUBSET all
    BY <1>2
  <2>. HIDE DEF all
  <2>. QED  BY <1>5, <2>1, ListableSubset
<1>7. ASSUME NEW r \in Remaining(q, c)
      PROVE  /\ r \in A_Row /\ r.name # <<>> /\ IsPrefix(q.prefix, r.name)
             /\ Beyond(r.name, After(q, c))
             /\ \E k \in keys : IsPrefix(q.prefix, k) /\ r = RowOf(k, q)
             /\ ~r.rolled => r = RowOf(r.name, q)
  <2>1. PICK k \in some : r = RowOf(k, q) /\ Beyond(r.name, After(q, c))
    BY <1>2
  <2>. QED  BY <1>3, <2>1
<1>8. ASSUME NEW k \in keys, IsPrefix(q.prefix, k), Beyond(RowOf(k, q).name, After(q, c))
      PROVE  RowOf(k, q) \in Remaining(q, c)
  <2>1. k \in some
    BY <1>8
  <2>. QED  BY <1>2, <1>8, <2>1
<1>. QED  BY <1>6, <1>7, <1>8

\* Listings are continued with the rows after those sent.
LEMMA Continued ==
  ASSUME NEW s \in Seq(A_Row), NEW t \in Seq(A_Row)
  PROVE  /\ s \o t \in Seq(A_Row)
         /\ \A n \in DOMAIN s : n \in DOMAIN (s \o t) /\ (s \o t)[n] = s[n]
         /\ \A n \in DOMAIN t : \E m \in DOMAIN (s \o t) : (s \o t)[m] = t[n]
         /\ \A n \in DOMAIN (s \o t) :
              \/ n \in DOMAIN s /\ (s \o t)[n] = s[n]
              \/ \E m \in DOMAIN t : n = Len(s) + m /\ (s \o t)[n] = t[m]
<1>1. /\ s \o t \in Seq(A_Row) /\ Len(s \o t) = Len(s) + Len(t)
      /\ \A i \in 1 .. Len(s) + Len(t) :
           (s \o t)[i] = IF i <= Len(s) THEN s[i] ELSE t[i - Len(s)]
  BY ConcatProperties
<1>2. PICK a \in Nat, b \in Nat : a = Len(s) /\ b = Len(t)
  OBVIOUS
<1>3. DOMAIN s = 1 .. a /\ DOMAIN t = 1 .. b /\ DOMAIN (s \o t) = 1 .. a + b
  BY <1>1, <1>2
<1>4. ASSUME NEW n \in 1 .. a PROVE n \in 1 .. a + b /\ (s \o t)[n] = s[n]
  <2>1. n \in 1 .. a + b /\ n <= a
    OBVIOUS
  <2>. QED  BY <1>1, <1>2, <2>1
<1>5. ASSUME NEW n \in 1 .. b PROVE a + n \in 1 .. a + b /\ (s \o t)[a + n] = t[n]
  <2>1. a + n \in 1 .. a + b /\ ~(a + n <= a) /\ (a + n) - a = n
    OBVIOUS
  <2>. QED  BY <1>1, <1>2, <2>1
<1>6. ASSUME NEW n \in 1 .. a + b, n \notin 1 .. a
      PROVE  \E m \in 1 .. b : n = a + m /\ (s \o t)[n] = t[m]
  <2>1. n - a \in 1 .. b /\ n = a + (n - a)
    BY <1>6
  <2>. QED  BY <1>5, <2>1
<1>. QED  BY <1>1, <1>2, <1>3, <1>4, <1>5, <1>6

LEMMA BeyondIs ==
  ASSUME NEW name, NEW after, Beyond(name, after), after # <<>>
  PROVE  Precedes(after, name)
  BY DEF Beyond

\* What of the rows a page sends, and the name the next one is continued behind.
LEMMA PageIs ==
  ASSUME NEW rows, Listable(rows), \A r \in rows : r \in A_Row /\ r.name # <<>>,
         NEW q \in Query, NEW cut, cut = Cut(rows, PageSize(q.max)),
         NEW page \in SUBSET cut, NEW next, next = NextCursor(q, rows, page), cut # rows
  PROVE  /\ next \in [kind : {"start", "marker", "token"}, name : Seq(Nat)]
         /\ next.kind # (IF q.version = 2 THEN "marker" ELSE "token")
         /\ next # Start => /\ next.name # <<>> /\ \E r \in rows : r.name = next.name
                            /\ \A r \in page : r.name = next.name \/ Precedes(r.name, next.name)
                            /\ \A r \in rows \ cut : Precedes(next.name, r.name)
<1>1. PageSize(q.max) \in Nat \ {0}
  <2>1. q.max \in Nat
    BY DEF Query
  <2>. QED  BY <2>1, LimitType DEF PageSize
<1>2. /\ cut \subseteq rows /\ cut # {}
      /\ \A r \in cut, s \in rows \ cut : Before(r, s)
  BY <1>1, CutIs
<1>3. Listable(cut) /\ Listable(page) /\ page \subseteq rows
  BY <1>2, ListableSubset
<1>4. ASSUME NEW some \in SUBSET cut, Listable(some), some # {}, page \subseteq some
      PROVE  /\ LastRow(some) \in rows
             /\ \A r \in page : r = LastRow(some) \/ Precedes(r.name, LastRow(some).name)
             /\ \A r \in rows \ cut : Precedes(LastRow(some).name, r.name)
  <2>1. LastRow(some) \in some /\ \A r \in some : r = LastRow(some) \/ Before(r, LastRow(some))
    BY <1>4, LastRowIs
  <2>. QED  BY <1>2, <1>4, <2>1 DEF Before
<1>5. ASSUME NEW kind \in {"marker", "token"}, NEW some \in SUBSET cut, Listable(some), some # {},
             page \subseteq some, kind # (IF q.version = 2 THEN "marker" ELSE "token"),
             next = Cursor(kind, LastRow(some).name)
      PROVE  /\ next \in [kind : {"start", "marker", "token"}, name : Seq(Nat)]
             /\ next.kind # (IF q.version = 2 THEN "marker" ELSE "token")
             /\ next.name # <<>> /\ \E r \in rows : r.name = next.name
             /\ \A r \in page : r.name = next.name \/ Precedes(r.name, next.name)
             /\ \A r \in rows \ cut : Precedes(next.name, r.name)
  <2>1. PICK l \in rows : l = LastRow(some)
    BY <1>4, <1>5
  <2>2. next = [kind |-> kind, name |-> l.name] /\ l.name \in Seq(Nat) /\ l.name # <<>>
    BY <1>5, <2>1 DEF Cursor, A_Row
  <2>. QED  BY <1>4, <1>5, <2>1, <2>2
<1>6. CASE q.version = 2
  <2>1. next = Cursor("token", LastRow(cut).name)
    BY <1>6 DEF NextCursor, Token, CutAt
  <2>. QED  BY <1>2, <1>3, <1>5, <1>6, <2>1
<1>7. CASE q.version # 2 /\ \E r \in page : ~r.rolled
  <2>1. next = Cursor("marker", LastRow(page).name)
    BY <1>7 DEF NextCursor, Marker
  <2>. QED  BY <1>3, <1>5, <1>7, <2>1
<1>8. CASE q.version # 2 /\ ~\E r \in page : ~r.rolled
  <2>1. next = [kind |-> "start", name |-> <<>>] /\ next = Start
    BY <1>8 DEF NextCursor, Start, Cursor
  <2>. QED  BY <1>8, <2>1
<1>. QED  BY <1>6, <1>7, <1>8

LEMMA QueryIs == query \in Queries => query \in Query
  BY QueriesType

LEMMA InitInv == Init => LInv
<1>. SUFFICES ASSUME Init PROVE LInv
  OBVIOUS
<1>1. keys \subseteq Keys /\ Compatible(keys) /\ Keys \subseteq Names
  BY KeysAre DEF Init
<1>2. /\ cursor = [kind |-> "start", name |-> <<>>] /\ got = <<>> /\ status = "paging"
      /\ query \in Queries /\ changes = 0 /\ always = keys /\ ever = keys
  BY DEF Init, Start, Cursor
<1>3. TypeOK
  BY <1>1, <1>2, ChangesType DEF TypeOK
<1>4. DOMAIN got = {}
  BY <1>2
<1>5. Sent
  BY <1>2, <1>4 DEF Sent, Start, Cursor
<1>6. Ahead
  BY <1>2 DEF Ahead, After, Start, Cursor
<1>7. NoRowTwice /\ NothingSkipped /\ NothingInvented
  BY <1>2, <1>4 DEF NoRowTwice, NothingSkipped, NothingInvented
<1>. QED  BY <1>1, <1>2, <1>3, <1>5, <1>6, <1>7 DEF LInv

\* Fewer keys are still keys of one tree.
LEMMA FewerKeys ==
  ASSUME keys \subseteq Keys, Compatible(keys), keys \subseteq ever, keys' \subseteq keys,
         ever' = ever
  PROVE  keys' \subseteq Keys /\ Compatible(keys') /\ keys' \subseteq ever'
  BY DEF Compatible

\* What the pages say stays as it is while the client waits.
LEMMA Unread ==
  ASSUME LInv, UNCHANGED <<query, cursor, status, got>>,
         always' \subseteq always, ever \subseteq ever'
  PROVE  /\ (status = "paging" => Sent /\ Ahead)'
         /\ NoRowTwice' /\ NothingSkipped' /\ NothingInvented'
<1>1. (status = "paging" => Sent)'
  BY DEF LInv, Sent
<1>2. (status = "paging" => Ahead)'
  BY DEF LInv, Ahead
<1>3. NoRowTwice'
  BY DEF LInv, NoRowTwice
<1>4. NothingSkipped'
  BY DEF LInv, NothingSkipped
<1>5. NothingInvented'
  BY DEF LInv, NothingInvented
<1>. QED  BY <1>1, <1>2, <1>3, <1>4, <1>5

LEMMA PutStep ==
  ASSUME LInv, NEW k \in Names, Put(k)
  PROVE  LInv'
<1>1. keys' \subseteq Keys /\ Compatible(keys') /\ keys' \subseteq ever'
  BY DEF Put, LInv
<1>2. changes' \in 0 .. MaxChanges
  BY ChangesType DEF Put, LInv, TypeOK
<1>3. TypeOK'
  BY <1>2, KeysAre DEF Put, LInv, TypeOK
<1>4. /\ UNCHANGED <<query, cursor, status, got>>
      /\ always' \subseteq always /\ ever \subseteq ever'
  BY DEF Put
<1>. QED  BY <1>1, <1>3, <1>4, Unread DEF LInv

LEMMA DeleteStep ==
  ASSUME LInv, NEW k \in Names, Delete(k)
  PROVE  LInv'
<1>1. keys' \subseteq Keys /\ Compatible(keys') /\ keys' \subseteq ever'
  BY FewerKeys DEF Delete, LInv
<1>2. changes' \in 0 .. MaxChanges
  BY ChangesType DEF Delete, LInv, TypeOK
<1>3. TypeOK'
  BY <1>2 DEF Delete, LInv, TypeOK
<1>4. /\ UNCHANGED <<query, cursor, status, got>>
      /\ always' \subseteq always /\ ever \subseteq ever'
  BY DEF Delete
<1>. QED  BY <1>1, <1>3, <1>4, Unread DEF LInv

\* A page is sorted behind what was sent, and what is cut off lies ahead.
LEMMA PageStep ==
  ASSUME LInv, Page
  PROVE  LInv'
<1>1. PICK rows, cut : rows = Remaining(query, cursor) /\ cut = Cut(rows, PageSize(query.max))
  OBVIOUS
<1>2. PICK gone, page, next :
        /\ gone \in SUBSET {r.name : r \in {s \in cut : ~s.rolled}}
        /\ page = {r \in cut : r.rolled \/ r.name \notin gone}
        /\ next = IF cut # rows THEN NextCursor(query, rows, page) ELSE Start
        /\ changes + Cardinality(gone) <= MaxChanges
        /\ changes' = changes + Cardinality(gone)
        /\ keys' = keys \ gone /\ always' = always \ gone
        /\ got' = got \o Sorted(page)
        /\ cursor' = next
        /\ status' = IF cut = rows THEN "end" ELSE IF next = Start THEN "stuck" ELSE "paging"
  <2>. DEFINE Page_(gone) == {r \in cut : r.rolled \/ r.name \notin gone}
              Next_(gone) == IF cut # rows THEN NextCursor(query, rows, Page_(gone)) ELSE Start
  <2>1. PICK gone \in SUBSET {r.name : r \in {s \in cut : ~s.rolled}} :
          /\ changes + Cardinality(gone) <= MaxChanges
          /\ changes' = changes + Cardinality(gone)
          /\ keys' = keys \ gone /\ always' = always \ gone
          /\ got' = got \o Sorted(Page_(gone))
          /\ cursor' = Next_(gone)
          /\ status' = IF ~(cut # rows) THEN "end"
                       ELSE IF Next_(gone) = Start THEN "stuck" ELSE "paging"
    BY <1>1, Zenon DEF Page
  <2>2. PICK page, next : page = Page_(gone) /\ next = Next_(gone)
    OBVIOUS
  <2>3. next = IF cut # rows THEN NextCursor(query, rows, page) ELSE Start
    BY <2>2
  <2>4. page = {r \in cut : r.rolled \/ r.name \notin gone}
    BY <2>2
  <2>. HIDE DEF Page_, Next_
  <2>5. status' = IF cut = rows THEN "end" ELSE IF next = Start THEN "stuck" ELSE "paging"
    BY <2>1, <2>2
  <2>6. got' = got \o Sorted(page) /\ cursor' = next
    BY <2>1, <2>2
  <2>. QED  BY <2>1, <2>3, <2>4, <2>5, <2>6, Zenon
<1>3. status = "paging" /\ query' = query /\ ever' = ever
  BY DEF Page
<1>4. query \in Query /\ query' \in Queries /\ keys \subseteq Keys
  BY <1>3, QueryIs DEF LInv, TypeOK
<1>5. /\ Listable(rows)
      /\ \A r \in rows :
           /\ r \in A_Row /\ r.name # <<>> /\ IsPrefix(query.prefix, r.name)
           /\ Beyond(r.name, After(query, cursor))
           /\ \E k \in keys : IsPrefix(query.prefix, k) /\ r = RowOf(k, query)
           /\ ~r.rolled => r = RowOf(r.name, query)
      /\ \A k \in keys :
           IsPrefix(query.prefix, k) /\ Beyond(RowOf(k, query).name, After(query, cursor))
             => RowOf(k, query) \in rows
  BY <1>1, <1>4, RemainingIs
<1>6. PageSize(query.max) \in Nat \ {0}
  BY <1>4, LimitType DEF PageSize, Query
<1>7. cut \subseteq rows /\ page \subseteq cut /\ page \subseteq rows
  BY <1>1, <1>2, <1>5, <1>6, CutIs
<1>8. PICK list \in Seq(A_Row) :
        /\ list = Sorted(page)
        /\ \A n \in DOMAIN list : list[n] \in page
        /\ \A m, n \in DOMAIN list : m < n => Precedes(list[m].name, list[n].name)
        /\ \A r \in page : \E n \in DOMAIN list : list[n] = r
  <2>1. Listable(page)
    BY <1>5, <1>7, ListableSubset
  <2>2. /\ Sorted(page) \in Seq(page)
        /\ \A n \in 1 .. Len(Sorted(page)) : Sorted(page)[n] \in page
        /\ \A m, n \in 1 .. Len(Sorted(page)) :
             m < n => Before(Sorted(page)[m], Sorted(page)[n])
        /\ \A r \in page : \E n \in 1 .. Len(Sorted(page)) : Sorted(page)[n] = r
    BY <2>1, SortedIs
  <2>3. page \subseteq A_Row
    BY <1>5, <1>7
  <2>4. Sorted(page) \in Seq(A_Row) /\ DOMAIN Sorted(page) = 1 .. Len(Sorted(page))
    BY <2>2, <2>3
  <2>. QED  BY <2>2, <2>4 DEF Before
<1>9. got \in Seq(A_Row) /\ got' = got \o list
  BY <1>2, <1>8 DEF LInv, TypeOK, A_Row
<1>10. /\ got' \in Seq(A_Row)
       /\ \A n \in DOMAIN got : n \in DOMAIN got' /\ got'[n] = got[n]
       /\ \A n \in DOMAIN list : \E m \in DOMAIN got' : got'[m] = list[n]
       /\ \A n \in DOMAIN got' :
            \/ n \in DOMAIN got /\ got'[n] = got[n]
            \/ \E m \in DOMAIN list : n = Len(got) + m /\ got'[n] = list[m]
  <2>1. PICK old \in Seq(A_Row), new \in Seq(A_Row) : old = got /\ new = list
    BY <1>8, <1>9
  <2>2. /\ old \o new \in Seq(A_Row)
        /\ \A n \in DOMAIN old : n \in DOMAIN (old \o new) /\ (old \o new)[n] = old[n]
        /\ \A n \in DOMAIN new : \E m \in DOMAIN (old \o new) : (old \o new)[m] = new[n]
        /\ \A n \in DOMAIN (old \o new) :
             \/ n \in DOMAIN old /\ (old \o new)[n] = old[n]
             \/ \E m \in DOMAIN new : n = Len(old) + m /\ (old \o new)[n] = new[m]
    BY Continued
  <2>. QED  BY <1>9, <2>1, <2>2, Zenon
<1>11. Sent /\ Ahead
  BY <1>3 DEF LInv
\* The page lies behind what was sent.
<1>12. ASSUME NEW n \in DOMAIN got, NEW r \in rows PROVE Precedes(got[n].name, r.name)
  <2>1. cursor # Start
    <3>1. cursor = Start => got = <<>>
      BY <1>11 DEF Sent
    <3>2. DOMAIN <<>> = {}
      OBVIOUS
    <3>. QED  BY <1>12, <3>1, <3>2
  <2>2. cursor.name # <<>> /\ cursor.name \in Seq(Nat)
    BY <1>11, <2>1 DEF Sent, LInv, TypeOK
  <2>3. After(query, cursor) = cursor.name
    BY <2>1 DEF After
  <2>4. Precedes(cursor.name, r.name)
    BY <1>5, <2>2, <2>3, BeyondIs
  <2>5. got[n].name = cursor.name \/ Precedes(got[n].name, cursor.name)
    BY <1>11 DEF Sent
  <2>6. r.name \in Seq(Nat) /\ got[n].name \in Seq(Nat)
    <3>1. got[n] \in A_Row
      BY <1>9, <1>12
    <3>. QED  BY <1>5, <3>1 DEF A_Row
  <2>. QED  BY <2>2, <2>4, <2>5, <2>6, PrecedesOrders
\* What follows a page that is cut.
<1>13. ASSUME cut # rows
       PROVE  /\ next \in [kind : {"start", "marker", "token"}, name : Seq(Nat)]
              /\ next.kind # (IF query.version = 2 THEN "marker" ELSE "token")
              /\ next # Start =>
                   /\ next.name # <<>> /\ \E r \in rows : r.name = next.name
                   /\ \A r \in page : r.name = next.name \/ Precedes(r.name, next.name)
                   /\ \A r \in rows \ cut : Precedes(next.name, r.name)
  <2>1. next = NextCursor(query, rows, page)
    BY <1>2, <1>13
  <2>2. \A r \in rows : r \in A_Row /\ r.name # <<>>
    BY <1>5
  <2>. QED  BY <1>1, <1>4, <1>5, <1>7, <1>13, <2>1, <2>2, PageIs
<1>14. TypeOK'
  <2>1. /\ cursor' \in [kind : {"start", "marker", "token"}, name : Seq(Nat)]
        /\ cursor'.kind # (IF query'.version = 2 THEN "marker" ELSE "token")
    <3>1. CASE cut # rows
      BY <1>2, <1>3, <1>13, <3>1
    <3>2. CASE cut = rows
      <4>1. cursor' = [kind |-> "start", name |-> <<>>]
        BY <1>2, <3>2 DEF Start, Cursor
      <4>. QED  BY <4>1
    <3>. QED  BY <3>1, <3>2
  <2>2. Cardinality(gone) \in Nat
    <3>1. gone \in SUBSET Names
      <4>1. ASSUME NEW x \in gone PROVE x \in keys
        <5>1. PICK r \in cut : ~r.rolled /\ x = r.name
          BY <1>2
        <5>2. PICK k \in keys : IsPrefix(query.prefix, k) /\ r = RowOf(k, query)
          BY <1>5, <1>7, <5>1
        <5>3. k \in Seq(Nat) /\ k # <<>>
          BY <1>4, KeysAre
        <5>4. RowOf(k, query).name = k
          BY <1>4, <5>1, <5>2, <5>3, RowIs
        <5>. QED  BY <5>1, <5>2, <5>4
      <4>. QED  BY <1>4, <4>1, KeysAre
    <3>2. IsFiniteSet(gone)
      BY <3>1, NamesType, FS_Subset
    <3>. QED  BY <3>2, FS_CardinalityType
  <2>3. changes' \in 0 .. MaxChanges
    BY <1>2, <2>2, ChangesType DEF LInv, TypeOK
  <2>4. got' \in Seq([name : Seq(Nat), rolled : BOOLEAN])
    BY <1>10 DEF A_Row
  <2>5. keys' \subseteq Names /\ always' \subseteq keys' /\ ever' \subseteq Names
    BY <1>2, <1>3 DEF LInv, TypeOK
  <2>6. status' \in {"paging", "end", "stuck"}
    BY <1>2
  <2>. QED  BY <1>4, <2>1, <2>3, <2>4, <2>5, <2>6 DEF TypeOK
<1>15. keys' \subseteq Keys /\ Compatible(keys') /\ keys' \subseteq ever'
  <2>1. keys' \subseteq keys
    BY <1>2
  <2>. QED  BY <1>3, <2>1, FewerKeys DEF LInv
<1>16. NoRowTwice'
  <2>1. ASSUME NEW m \in DOMAIN got', NEW n \in DOMAIN got', m < n
        PROVE  Precedes(got'[m].name, got'[n].name)
    <3>0. /\ DOMAIN got = 1 .. Len(got) /\ DOMAIN list = 1 .. Len(list)
          /\ Len(got) \in Nat /\ Len(list) \in Nat
      BY <1>8, <1>9
    <3>1. CASE n \in DOMAIN got /\ got'[n] = got[n]
      <4>1. m \in DOMAIN got /\ got'[m] = got[m]
        <5>1. CASE \E i \in DOMAIN list : m = Len(got) + i
          BY <2>1, <3>0, <3>1, <5>1
        <5>. QED  BY <1>10, <5>1
      <4>. QED  BY <2>1, <3>1, <4>1 DEF LInv, NoRowTwice
    <3>2. ASSUME NEW j \in DOMAIN list, n = Len(got) + j, got'[n] = list[j]
          PROVE  Precedes(got'[m].name, got'[n].name)
      <4>1. CASE m \in DOMAIN got /\ got'[m] = got[m]
        BY <1>7, <1>8, <1>12, <3>2, <4>1
      <4>2. ASSUME NEW i \in DOMAIN list, m = Len(got) + i, got'[m] = list[i]
            PROVE  Precedes(got'[m].name, got'[n].name)
        <5>1. i < j
          BY <2>1, <3>0, <3>2, <4>2
        <5>. QED  BY <1>8, <3>2, <4>2, <5>1
      <4>. QED  BY <1>10, <4>1, <4>2
    <3>. QED  BY <1>10, <3>1, <3>2
  <2>. QED  BY <2>1 DEF NoRowTwice
\* A key that is still there was sent, or its row lies behind the next cursor.
<1>17. ASSUME NEW k \in always', IsPrefix(query.prefix, k),
              Beyond(RowOf(k, query).name, query.after)
       PROVE  \/ \E n \in DOMAIN got' : got'[n] = RowOf(k, query)
              \/ cut # rows /\ RowOf(k, query) \in rows \ cut
  <2>1. k \in always /\ k \in keys /\ k \notin gone
    BY <1>2, <1>17 DEF LInv, TypeOK
  <2>2. CASE \E n \in DOMAIN got : got[n] = RowOf(k, query)
    BY <1>10, <2>2
  <2>3. CASE Beyond(RowOf(k, query).name, After(query, cursor))
    <3>1. RowOf(k, query) \in rows
      BY <1>5, <1>17, <2>1, <2>3
    <3>2. CASE RowOf(k, query) \in cut
      <4>1. RowOf(k, query) \in page
        <5>1. ~RowOf(k, query).rolled => RowOf(k, query).name = k
          BY <1>4, <1>17, <2>1, KeysAre, RowIs
        <5>. QED  BY <1>2, <2>1, <3>2, <5>1
      <4>. QED  BY <1>8, <1>10, <4>1
    <3>3. CASE RowOf(k, query) \notin cut
      BY <3>1, <3>3
    <3>. QED  BY <3>2, <3>3
  <2>. QED  BY <1>11, <1>17, <2>1, <2>2, <2>3 DEF Ahead
<1>18. NothingSkipped'
  <2>1. ASSUME status' = "end" PROVE cut = rows
    BY <1>2, <2>1
  <2>. QED  BY <1>3, <1>17, <2>1 DEF NothingSkipped
<1>19. NothingInvented'
  <2>1. ASSUME NEW n \in DOMAIN got'
        PROVE  /\ IsPrefix(query.prefix, got'[n].name)
               /\ \E k \in ever : RowOf(k, query) = got'[n]
    <3>1. CASE n \in DOMAIN got /\ got'[n] = got[n]
      BY <3>1 DEF LInv, NothingInvented
    <3>2. ASSUME NEW j \in DOMAIN list, got'[n] = list[j]
          PROVE  /\ IsPrefix(query.prefix, got'[n].name)
                 /\ \E k \in ever : RowOf(k, query) = got'[n]
      <4>1. list[j] \in rows
        BY <1>7, <1>8
      <4>2. PICK k \in keys : list[j] = RowOf(k, query)
        BY <1>5, <4>1
      <4>. QED  BY <1>5, <3>2, <4>1, <4>2 DEF LInv
    <3>. QED  BY <1>10, <3>1, <3>2
  <2>. QED  BY <1>3, <2>1 DEF NothingInvented
<1>20. ASSUME status' = "paging" PROVE Sent' /\ Ahead'
  <2>1. cut # rows /\ next # Start /\ cursor' = next
    BY <1>2, <1>20
  <2>2. ASSUME NEW n \in DOMAIN got'
        PROVE  got'[n].name = next.name \/ Precedes(got'[n].name, next.name)
    <3>1. CASE n \in DOMAIN got /\ got'[n] = got[n]
      <4>1. PICK r \in rows : r.name = next.name
        BY <1>13, <2>1
      <4>. QED  BY <1>12, <3>1, <4>1
    <3>2. ASSUME NEW j \in DOMAIN list, got'[n] = list[j]
          PROVE  got'[n].name = next.name \/ Precedes(got'[n].name, next.name)
      BY <1>8, <1>13, <2>1, <3>2
    <3>. QED  BY <1>10, <3>1, <3>2
  <2>3. Sent'
    BY <1>13, <2>1, <2>2 DEF Sent
  <2>4. Ahead'
    <3>1. After(query, next) = next.name
      BY <2>1 DEF After
    <3>2. \A r \in rows \ cut : Beyond(r.name, next.name)
      BY <1>13, <2>1 DEF Beyond
    <3>. QED  BY <1>3, <1>17, <2>1, <3>1, <3>2 DEF Ahead
  <2>. QED  BY <2>3, <2>4
<1>. QED  BY <1>14, <1>15, <1>16, <1>18, <1>19, <1>20 DEF LInv

LEMMA NextInv == LInv /\ [Next]_vars => LInv'
<1>. SUFFICES ASSUME LInv, [Next]_vars PROVE LInv'
  OBVIOUS
<1>1. CASE Page
  BY <1>1, PageStep
<1>2. ASSUME NEW k \in Names, Put(k) PROVE LInv'
  BY <1>2, PutStep
<1>3. ASSUME NEW k \in Names, Delete(k) PROVE LInv'
  BY <1>3, DeleteStep
<1>4. CASE UNCHANGED vars
  <2>1. TypeOK'
    BY <1>4 DEF LInv, TypeOK, vars
  <2>2. keys' \subseteq Keys /\ Compatible(keys') /\ keys' \subseteq ever'
    BY <1>4 DEF LInv, vars
  <2>3. /\ UNCHANGED <<query, cursor, status, got>>
        /\ always' \subseteq always /\ ever \subseteq ever'
    BY <1>4 DEF vars
  <2>. QED  BY <2>1, <2>2, <2>3, Unread DEF LInv
<1>. QED  BY <1>1, <1>2, <1>3, <1>4 DEF Next, Rest

LEMMA ListingInv == Spec => []LInv
  BY InitInv, NextInv, PTL DEF Spec

-----------------------------------------------------------------------------
(***************************************************************************)
(* The theorems                                                            *)
(***************************************************************************)

\* Every variable has its type; V1 resumes from a name, V2 from a token, whatever
\* is deleted while a page is made (list.go, ListObjects).
THEOREM ListingTypes == Spec => []TypeOK
  BY ListingInv, PTL DEF LInv

\* The pages of a listing are one list in the order of the names, each row once,
\* however the bucket changes between them (list.go, sort.Slice and the cursor).
THEOREM PagesInOrder == Spec => []NoRowTwice
  BY ListingInv, PTL DEF LInv

\* A client that reached the end was sent what was in the bucket all the time,
\* as itself or rolled up (list.go, groupByDelimiter; s3api/list.go, the cursors).
THEOREM PagesLeaveNothingOut == Spec => []NothingSkipped
  BY ListingInv, PTL DEF LInv

\* Every row sent stands for a key that was in the bucket and has the prefix
\* (list.go, collectKeys; keypath.go, PathToKey).
THEOREM PagesInventNothing == Spec => []NothingInvented
  BY ListingInv, PTL DEF LInv

\* Keys that are in the bucket together never share a file or a sidecar (keypath.go,
\* ValidateKey and KeyToPath; meta.go, metaPath).
THEOREM KeysHaveOwnFiles == Spec => []OwnFiles
<1>1. LInv => OwnFiles
  BY FilesApart DEF LInv
<1>. QED  BY <1>1, ListingInv, PTL

\* The walk over the files finds the keys that are stored and no other: no name is
\* lost or made up on its way through the directory tree (list.go, collectKeys).
THEOREM WalkFindsKeys == Spec => [](Walked = keys)
<1>1. LInv => Walked = keys
  BY WalkIs DEF LInv
<1>. QED  BY <1>1, ListingInv, PTL
=============================================================================
