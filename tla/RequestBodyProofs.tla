-------------------------- MODULE RequestBodyProofs --------------------------
(***************************************************************************)
(* For bodies of any number of chunks of any length, whatever the pieces   *)
(* they are read in, and wherever the connection breaks or damages them.   *)
(***************************************************************************)
EXTENDS RequestBody, FiniteSetTheorems, SequenceTheorems, TLAPS

-----------------------------------------------------------------------------
(***************************************************************************)
(* Recursive functions                                                     *)
(***************************************************************************)

\* A set of numbers has a least element: what stands in for induction.
LEMMA LeastNumber ==
  ASSUME NEW T \in SUBSET Nat, T # {}
  PROVE  \E n \in T : \A m \in T : n <= m
<1>1. PICK R : R = OpToRel(<, Nat)
  BY Zenon
<1>2. \A a, b \in Nat : a < b => <<a, b>> \in R
  BY <1>1, Zenon DEF OpToRel
<1>3. IsWellFoundedOn(R, Nat)
  BY <1>1, NatLessThanWellFounded, Zenon
<1>4. PICK n \in T : \A m \in T : ~(<<m, n>> \in R)
  BY <1>3, WFMin
<1>5. \A m \in T : ~(m < n)
  BY <1>2, <1>4
<1>. QED  BY <1>5

\* Induction up to a bound, for a set of numbers.
LEMMA UpTo ==
  ASSUME NEW b \in Nat, NEW G, 0 \in G, \A n \in 1 .. b : n - 1 \in G => n \in G
  PROVE  \A n \in 0 .. b : n \in G
<1>. DEFINE T == {n \in 0 .. b : n \notin G}
<1>1. SUFFICES ASSUME T # {} PROVE FALSE
  OBVIOUS
<1>2. T \in SUBSET Nat
  OBVIOUS
<1>3. PICK k \in T : \A m \in T : k <= m
  <2>. HIDE DEF T
  <2>. QED  BY <1>1, <1>2, LeastNumber
<1>4. k \in 1 .. b /\ k - 1 \notin T
  BY <1>3
<1>. QED  BY <1>3, <1>4

\* What ParseInt computes, digit by digit.
LEMMA HexIs ==
  ASSUME NEW d \in Seq(0 .. 15), d # <<>>
  PROVE  \E v : /\ \A n \in 0 .. Len(d) :
                     v[n] = IF n = 0 THEN 0 ELSE 16 * v[n - 1] + d[n]
                /\ Hex(d) = v[Len(d)]
<1>. DEFINE Fits(f, k) == f = [n \in 0 .. k |-> IF n = 0 THEN 0 ELSE 16 * f[n - 1] + d[n]]
            G == {k \in 0 .. Len(d) : \E f : Fits(f, k)}
<1>0. Len(d) \in Nat
  OBVIOUS
<1>1. \A k \in 0 .. Len(d) : k \in G
  <2>1. 0 \in G
    <3>1. Fits([n \in 0 .. 0 |-> 0], 0)
      OBVIOUS
    <3>2. 0 \in 0 .. Len(d)
      BY <1>0
    <3>. HIDE DEF Fits
    <3>. QED  BY <3>1, <3>2
  <2>2. ASSUME NEW k \in 1 .. Len(d), k - 1 \in G PROVE k \in G
    <3>1. k \in Nat /\ k # 0
      BY <1>0
    <3>2. PICK f : Fits(f, k - 1)
      BY <2>2
    <3>3. PICK g : g = [n \in 0 .. k |-> IF n = k THEN 16 * f[k - 1] + d[k] ELSE f[n]]
      OBVIOUS
    <3>4. ASSUME NEW n \in 0 .. k
          PROVE  g[n] = IF n = 0 THEN 0 ELSE 16 * g[n - 1] + d[n]
      <4>1. CASE n = k
        BY <3>1, <3>3, <4>1
      <4>2. CASE n # k
        <5>1. n \in 0 .. k - 1 /\ g[n] = f[n]
          BY <3>1, <3>3, <4>2
        <5>2. n # 0 => g[n - 1] = f[n - 1]
          BY <3>1, <3>3, <5>1
        <5>3. f[n] = IF n = 0 THEN 0 ELSE 16 * f[n - 1] + d[n]
          BY <3>2, <5>1
        <5>. QED  BY <5>1, <5>2, <5>3
      <4>. QED  BY <4>1, <4>2
    <3>5. Fits(g, k)
      <4>1. g = [n \in 0 .. k |-> g[n]]
        BY <3>3
      <4>. QED  BY <3>4, <4>1, Zenon
    <3>6. k \in 0 .. Len(d)
      BY <1>0
    <3>. HIDE DEF Fits
    <3>. QED  BY <3>5, <3>6
  <2>. HIDE DEF G
  <2>. QED  BY <1>0, <2>1, <2>2, UpTo
<1>2. \E f : Fits(f, Len(d))
  BY <1>0, <1>1
<1>3. PICK v : /\ v = CHOOSE f : Fits(f, Len(d))
               /\ Hex(d) = v[Len(d)]
  <2>1. \A n \in DOMAIN d : d[n] \in 0 .. 15
    OBVIOUS
  <2>. QED  BY <2>1 DEF Hex
<1>4. Fits(v, Len(d))
  BY <1>2, <1>3
<1>. QED  BY <1>3, <1>4

LEMMA HexPositive ==
  ASSUME NEW d \in Seq(0 .. 15), d # <<>>
  PROVE  /\ Hex(d) \in Nat
         /\ d[1] # 0 => Hex(d) # 0
<1>0. Len(d) \in Nat \ {0} /\ \A n \in 1 .. Len(d) : d[n] \in 0 .. 15
  OBVIOUS
<1>1. PICK v : /\ \A n \in 0 .. Len(d) :
                    v[n] = IF n = 0 THEN 0 ELSE 16 * v[n - 1] + d[n]
               /\ Hex(d) = v[Len(d)]
  BY HexIs
<1>. DEFINE G == {n \in Nat : v[n] \in Nat /\ (n > 0 /\ d[1] # 0 => v[n] # 0)}
<1>2. \A n \in 0 .. Len(d) : n \in G
  <2>1. 0 \in G
    BY <1>0, <1>1
  <2>2. ASSUME NEW k \in 1 .. Len(d), k - 1 \in G PROVE k \in G
    <3>1. PICK w, e : w = v[k - 1] /\ e = d[k]
      OBVIOUS
    <3>2. v[k] = 16 * w + e /\ e \in 0 .. 15 /\ k \in Nat \ {0}
      BY <1>0, <1>1, <3>1
    <3>3. w \in Nat /\ (k - 1 > 0 /\ d[1] # 0 => w # 0)
      BY <2>2, <3>1
    <3>4. v[k] \in Nat /\ (w # 0 \/ e # 0 => v[k] # 0)
      BY <3>2, <3>3
    <3>5. d[1] # 0 => w # 0 \/ e # 0
      BY <3>1, <3>2, <3>3
    <3>. QED  BY <3>2, <3>4, <3>5
  <2>. HIDE DEF G
  <2>. QED  BY <1>0, <2>1, <2>2, UpTo
<1>. QED  BY <1>0, <1>1, <1>2

-----------------------------------------------------------------------------
(***************************************************************************)
(* Sequences of sequences, one behind the other                            *)
(***************************************************************************)

LEMMA FirstOf ==
  ASSUME NEW S, NEW s \in Seq(S), NEW n \in 0 .. Len(s)
  PROVE  /\ SubSeq(s, 1, n) \in Seq(S) /\ Len(SubSeq(s, 1, n)) = n
         /\ \A i \in 1 .. n : SubSeq(s, 1, n)[i] = s[i]
<1>1. n \in Nat /\ Len(s) \in Nat /\ n <= Len(s)
  OBVIOUS
<1>. QED  BY <1>1

LEMMA LastOf ==
  ASSUME NEW S, NEW s \in Seq(S), NEW n \in 0 .. Len(s)
  PROVE  /\ SubSeq(s, n + 1, Len(s)) \in Seq(S)
         /\ Len(SubSeq(s, n + 1, Len(s))) = Len(s) - n
         /\ \A i \in 1 .. Len(s) - n : SubSeq(s, n + 1, Len(s))[i] = s[n + i]
<1>1. n \in Nat /\ Len(s) \in Nat /\ n <= Len(s)
  OBVIOUS
<1>. QED  BY <1>1

LEMMA Behind ==
  ASSUME NEW S, NEW s \in Seq(S), NEW t \in Seq(S)
  PROVE  /\ s \o t \in Seq(S) /\ Len(s) \in Nat /\ Len(t) \in Nat
         /\ Len(s \o t) = Len(s) + Len(t)
         /\ \A i \in 1 .. Len(s) : (s \o t)[i] = s[i]
         /\ \A i \in 1 .. Len(t) : (s \o t)[Len(s) + i] = t[i]
<1>1. Len(s) \in Nat /\ Len(t) \in Nat
  OBVIOUS
<1>2. s \o t \in Seq(S) /\ Len(s \o t) = Len(s) + Len(t)
  OBVIOUS
<1>3. \A i \in 1 .. Len(s) : (s \o t)[i] = s[i]
  OBVIOUS
<1>4. \A i \in 1 .. Len(t) : (s \o t)[Len(s) + i] = t[i]
  BY <1>1
<1>. QED  BY <1>1, <1>2, <1>3, <1>4

LEMMA FlattenIs ==
  ASSUME NEW S, NEW q \in Seq(Seq(S)), q # <<>>
  PROVE  \E f : /\ \A n \in 1 .. Len(q) : f[n] = IF n = 1 THEN q[n] ELSE f[n - 1] \o q[n]
                /\ FlattenSeq(q) = f[Len(q)]
<1>. DEFINE Fits(f, k) == f = [n \in 1 .. k |-> IF n = 1 THEN q[n] ELSE f[n - 1] \o q[n]]
            G == {k \in 0 .. Len(q) : \E f : Fits(f, k)}
<1>0. Len(q) \in Nat \ {0}
  OBVIOUS
<1>1. \A k \in 0 .. Len(q) : k \in G
  <2>1. 0 \in G
    <3>1. Fits([n \in 1 .. 0 |-> 0], 0)
      OBVIOUS
    <3>2. 0 \in 0 .. Len(q)
      BY <1>0
    <3>. HIDE DEF Fits
    <3>. QED  BY <3>1, <3>2
  <2>2. ASSUME NEW k \in 1 .. Len(q), k - 1 \in G PROVE k \in G
    <3>1. k \in Nat /\ k # 0
      BY <1>0
    <3>2. PICK f : Fits(f, k - 1)
      BY <2>2
    <3>3. PICK g : g = [n \in 1 .. k |->
                          IF n # k THEN f[n] ELSE IF k = 1 THEN q[k] ELSE f[k - 1] \o q[k]]
      OBVIOUS
    <3>4. ASSUME NEW n \in 1 .. k
          PROVE  g[n] = IF n = 1 THEN q[n] ELSE g[n - 1] \o q[n]
      <4>1. n # 1 => n - 1 \in 1 .. k - 1 /\ g[n - 1] = f[n - 1]
        BY <3>1, <3>3
      <4>2. CASE n = k
        BY <3>1, <3>3, <4>1, <4>2
      <4>3. CASE n # k
        <5>1. n \in 1 .. k - 1 /\ g[n] = f[n]
          BY <3>1, <3>3, <4>3
        <5>2. f[n] = IF n = 1 THEN q[n] ELSE f[n - 1] \o q[n]
          BY <3>2, <5>1
        <5>. QED  BY <4>1, <5>1, <5>2
      <4>. QED  BY <4>2, <4>3
    <3>5. Fits(g, k)
      <4>1. g = [n \in 1 .. k |-> g[n]]
        BY <3>3
      <4>. QED  BY <3>4, <4>1, Zenon
    <3>6. k \in 0 .. Len(q)
      BY <1>0
    <3>. HIDE DEF Fits
    <3>. QED  BY <3>5, <3>6
  <2>. HIDE DEF G
  <2>. QED  BY <1>0, <2>1, <2>2, UpTo
<1>2. \E f : Fits(f, Len(q))
  <2>1. Len(q) \in G
    <3>1. Len(q) \in 0 .. Len(q)
      BY <1>0
    <3>. HIDE DEF G
    <3>. QED  BY <1>1, <3>1
  <2>. QED  BY <2>1
<1>3. PICK f : /\ f = CHOOSE g : Fits(g, Len(q))
               /\ FlattenSeq(q) = f[Len(q)]
  BY <1>0 DEF FlattenSeq
<1>4. Fits(f, Len(q))
  BY <1>2, <1>3
<1>5. PICK l \in Nat : l = Len(q)
  BY <1>0
<1>6. f = [n \in 1 .. l |-> IF n = 1 THEN q[n] ELSE f[n - 1] \o q[n]]
  BY <1>4, <1>5, Zenon
<1>7. \A n \in 1 .. l : f[n] = IF n = 1 THEN q[n] ELSE f[n - 1] \o q[n]
  BY <1>6, Zenon
<1>8. /\ \A n \in 1 .. Len(q) : f[n] = IF n = 1 THEN q[n] ELSE f[n - 1] \o q[n]
      /\ FlattenSeq(q) = f[Len(q)]
  BY <1>3, <1>5, <1>7, Zenon
<1>. QED  BY ONLY <1>8, Zenon

\* The flattened sequence grows by a member at a time.
LEMMA FlattenStep ==
  ASSUME NEW S, NEW q \in Seq(Seq(S))
  PROVE  /\ FlattenSeq(SubSeq(q, 1, 0)) = <<>>
         /\ \A n \in 1 .. Len(q) :
              FlattenSeq(SubSeq(q, 1, n)) = FlattenSeq(SubSeq(q, 1, n - 1)) \o q[n]
<1>0. Len(q) \in Nat /\ \A n \in 1 .. Len(q) : q[n] \in Seq(S)
  OBVIOUS
<1>1. FlattenSeq(SubSeq(q, 1, 0)) = <<>>
  <2>1. SubSeq(q, 1, 0) = <<>>
    OBVIOUS
  <2>. QED  BY <2>1 DEF FlattenSeq
<1>2. ASSUME NEW k \in 1 .. Len(q)
      PROVE  FlattenSeq(SubSeq(q, 1, k)) = FlattenSeq(SubSeq(q, 1, k - 1)) \o q[k]
  <2>0. k \in Nat /\ k # 0 /\ q[k] \in Seq(S)
    BY <1>0
  <2>1. PICK r \in Seq(Seq(S)) : /\ r = SubSeq(q, 1, k) /\ Len(r) = k
                                 /\ \A n \in 1 .. k : r[n] = q[n]
    <3>1. k \in 0 .. Len(q)
      BY <1>0
    <3>2. PICK r : r = SubSeq(q, 1, k)
      OBVIOUS
    <3>3. r \in Seq(Seq(S)) /\ Len(r) = k /\ \A n \in 1 .. k : r[n] = q[n]
      BY <3>1, <3>2, FirstOf
    <3>. QED  BY <3>2, <3>3
  <2>2. PICK f : /\ \A n \in 1 .. k : f[n] = IF n = 1 THEN q[n] ELSE f[n - 1] \o q[n]
                 /\ FlattenSeq(r) = f[k]
    <3>1. r # <<>>
      BY <2>0, <2>1
    <3>2. PICK f : /\ \A n \in 1 .. Len(r) :
                         f[n] = IF n = 1 THEN r[n] ELSE f[n - 1] \o r[n]
                   /\ FlattenSeq(r) = f[Len(r)]
      BY <3>1, FlattenIs
    <3>. QED  BY <2>1, <3>2
  <2>3. CASE k = 1
    <3>1. FlattenSeq(r) = q[k]
      BY <2>2, <2>3
    <3>2. <<>> \o q[k] = q[k]
      BY <2>0, ConcatEmptySeq
    <3>3. k - 1 = 0
      BY <2>3
    <3>. QED  BY <1>1, <2>1, <3>1, <3>2, <3>3
  <2>4. CASE k # 1
    <3>0. k - 1 \in Nat /\ k - 1 # 0 /\ k - 1 \in 1 .. Len(q)
      BY <1>0, <2>0, <2>4
    <3>1. PICK t \in Seq(Seq(S)) : /\ t = SubSeq(q, 1, k - 1) /\ Len(t) = k - 1
                                   /\ \A n \in 1 .. k - 1 : t[n] = q[n]
      <4>1. k - 1 \in 0 .. Len(q)
        BY <1>0, <3>0
      <4>2. PICK t : t = SubSeq(q, 1, k - 1)
        OBVIOUS
      <4>3. t \in Seq(Seq(S)) /\ Len(t) = k - 1 /\ \A n \in 1 .. k - 1 : t[n] = q[n]
        BY <4>1, <4>2, FirstOf
      <4>. QED  BY <4>2, <4>3
    <3>2. PICK g : /\ \A n \in 1 .. k - 1 : g[n] = IF n = 1 THEN q[n] ELSE g[n - 1] \o q[n]
                   /\ FlattenSeq(t) = g[k - 1]
      <4>1. t # <<>>
        BY <3>0, <3>1
      <4>2. PICK g : /\ \A n \in 1 .. Len(t) :
                           g[n] = IF n = 1 THEN t[n] ELSE g[n - 1] \o t[n]
                     /\ FlattenSeq(t) = g[Len(t)]
        BY <4>1, FlattenIs
      <4>. QED  BY <3>1, <4>2
    <3>. DEFINE G == {n \in Nat : n = 0 \/ f[n] = g[n]}
    <3>3. \A n \in 0 .. k - 1 : n \in G
      <4>1. 0 \in G
        OBVIOUS
      <4>2. ASSUME NEW n \in 1 .. k - 1, n - 1 \in G PROVE n \in G
        <5>1. n \in Nat /\ n \in 1 .. k /\ (n # 1 => f[n - 1] = g[n - 1])
          BY <2>0, <4>2
        <5>. QED  BY <2>2, <3>2, <5>1
      <4>. HIDE DEF G
      <4>. QED  BY <3>0, <4>1, <4>2, UpTo
    <3>4. f[k - 1] = g[k - 1]
      <4>1. k - 1 \in 0 .. k - 1
        BY <3>0
      <4>2. k - 1 \in G
        <5>. HIDE DEF G
        <5>. QED  BY <3>3, <4>1
      <4>. QED  BY <3>0, <4>2
    <3>5. f[k] = f[k - 1] \o q[k]
      <4>1. k \in 1 .. k
        BY <2>0
      <4>. QED  BY <2>2, <2>4, <4>1, Zenon
    <3>. QED  BY <2>1, <2>2, <3>1, <3>2, <3>4, <3>5
  <2>. QED  BY <2>3, <2>4
<1>. QED  BY <1>1, <1>2

LEMMA FlattenType ==
  ASSUME NEW S, NEW q \in Seq(Seq(S))
  PROVE  \A n \in 0 .. Len(q) : FlattenSeq(SubSeq(q, 1, n)) \in Seq(S)
<1>0. Len(q) \in Nat /\ \A n \in 1 .. Len(q) : q[n] \in Seq(S)
  OBVIOUS
<1>. DEFINE G == {n \in Nat : FlattenSeq(SubSeq(q, 1, n)) \in Seq(S)}
<1>1. 0 \in G
  <2>1. FlattenSeq(SubSeq(q, 1, 0)) = <<>> /\ <<>> \in Seq(S)
    BY FlattenStep, EmptySeq
  <2>. QED  BY <2>1
<1>2. ASSUME NEW n \in 1 .. Len(q), n - 1 \in G PROVE n \in G
  <2>1. FlattenSeq(SubSeq(q, 1, n)) = FlattenSeq(SubSeq(q, 1, n - 1)) \o q[n]
    BY FlattenStep
  <2>2. FlattenSeq(SubSeq(q, 1, n - 1)) \in Seq(S) /\ q[n] \in Seq(S) /\ n \in Nat
    BY <1>0, <1>2
  <2>3. FlattenSeq(SubSeq(q, 1, n)) \in Seq(S)
    BY <2>1, <2>2, Behind
  <2>. QED  BY <2>2, <2>3
<1>3. \A n \in 0 .. Len(q) : n \in G
  <2>. HIDE DEF G
  <2>. QED  BY <1>0, <1>1, <1>2, UpTo
<1>. QED  BY <1>3

\* Each member keeps its place in all that comes later.
LEMMA FlattenPlaces ==
  ASSUME NEW S, NEW q \in Seq(Seq(S)), NEW n \in 0 .. Len(q), NEW m \in 0 .. n,
         NEW short, short = FlattenSeq(SubSeq(q, 1, m)),
         NEW long, long = FlattenSeq(SubSeq(q, 1, n))
  PROVE  /\ short \in Seq(S) /\ long \in Seq(S) /\ Len(short) <= Len(long)
         /\ \A i \in 1 .. Len(short) : long[i] = short[i]
<1>0. Len(q) \in Nat /\ n \in Nat /\ m \in Nat /\ \A k \in 1 .. Len(q) : q[k] \in Seq(S)
  OBVIOUS
<1>. DEFINE F(k) == FlattenSeq(SubSeq(q, 1, k))
            G == {d \in Nat : m + d <= n =>
                    /\ Len(short) <= Len(F(m + d))
                    /\ \A i \in 1 .. Len(short) : F(m + d)[i] = short[i]}
<1>1. \A k \in 0 .. Len(q) : F(k) \in Seq(S)
  BY FlattenType
<1>2. 0 \in G
  <2>1. m + 0 = m /\ F(m) = short /\ Len(short) \in Nat
    BY <1>0, <1>1
  <2>. HIDE DEF F
  <2>. QED  BY <2>1
<1>3. ASSUME NEW d \in 1 .. n, d - 1 \in G PROVE d \in G
  <2>0. d \in Nat /\ m + (d - 1) = m + d - 1
    BY <1>0
  <2>1. SUFFICES ASSUME m + d <= n
                 PROVE  /\ Len(short) <= Len(F(m + d))
                        /\ \A i \in 1 .. Len(short) : F(m + d)[i] = short[i]
    BY <2>0
  <2>2. /\ Len(short) <= Len(F(m + d - 1))
        /\ \A i \in 1 .. Len(short) : F(m + d - 1)[i] = short[i]
    BY <1>0, <1>3, <2>0, <2>1
  <2>3. m + d \in 1 .. Len(q) /\ m + d - 1 \in 0 .. Len(q)
    BY <1>0, <2>0, <2>1
  <2>4. F(m + d) = F(m + d - 1) \o q[m + d]
    <3>1. PICK k \in 1 .. Len(q) : k = m + d
      BY <2>3
    <3>2. \A j \in 1 .. Len(q) :
            FlattenSeq(SubSeq(q, 1, j)) = FlattenSeq(SubSeq(q, 1, j - 1)) \o q[j]
      BY FlattenStep
    <3>3. F(k) = F(k - 1) \o q[k]
      BY <3>2, Zenon
    <3>4. m + d - 1 = k - 1 /\ m + d = k
      BY <3>1
    <3>5. F(m + d) = F(k) /\ F(m + d - 1) = F(k - 1) /\ q[m + d] = q[k]
      BY <3>4, Zenon
    <3>. HIDE DEF F
    <3>. QED  BY <3>3, <3>5, Zenon
  <2>5. PICK t \in Seq(S), x \in Seq(S) : t = F(m + d - 1) /\ x = q[m + d]
    BY <1>0, <1>1, <2>3
  <2>6. short \in Seq(S)
    BY <1>0, <1>1
  <2>. HIDE DEF F
  <2>7. /\ Len(t \o x) = Len(t) + Len(x) /\ Len(x) \in Nat /\ Len(t) \in Nat
        /\ \A i \in 1 .. Len(t) : (t \o x)[i] = t[i]
    BY Behind
  <2>8. Len(short) \in Nat
    BY <2>6
  <2>9. F(m + d) = t \o x
    BY <2>4, <2>5
  <2>10. Len(short) <= Len(t) /\ \A i \in 1 .. Len(short) : t[i] = short[i]
    BY <2>2, <2>5
  <2>. QED  BY <2>7, <2>8, <2>9, <2>10
<1>4. n - m \in G
  <2>1. \A d \in 0 .. n : d \in G
    <3>. HIDE DEF G
    <3>. QED  BY <1>0, <1>2, <1>3, UpTo
  <2>2. n - m \in 0 .. n
    BY <1>0
  <2>. HIDE DEF G
  <2>. QED  BY <2>1, <2>2
<1>5. m + (n - m) = n
  BY <1>0
<1>6. short \in Seq(S) /\ long \in Seq(S)
  BY <1>0, <1>1
<1>. QED  BY <1>4, <1>5, <1>6

-----------------------------------------------------------------------------
(***************************************************************************)
(* What is where in a framed stream                                        *)
(***************************************************************************)

\* Joining texts, under names that the provers leave alone.
Text(s) == s \in Seq(Symbol)
Join(s, t) == s \o t

LEMMA Joined ==
  ASSUME NEW s, NEW t, Text(s), Text(t), NEW c, c = Join(s, t)
  PROVE  /\ Text(c) /\ Len(s) \in Nat /\ Len(t) \in Nat /\ Len(c) = Len(s) + Len(t)
         /\ \A i \in 1 .. Len(s) : c[i] = s[i]
         /\ \A i \in 1 .. Len(t) : c[Len(s) + i] = t[i]
<1>1. /\ s \o t \in Seq(Symbol) /\ Len(s) \in Nat /\ Len(t) \in Nat
      /\ Len(s \o t) = Len(s) + Len(t)
      /\ \A i \in 1 .. Len(s) : (s \o t)[i] = s[i]
      /\ \A i \in 1 .. Len(t) : (s \o t)[Len(s) + i] = t[i]
  BY Behind DEF Text
<1>2. c = s \o t
  BY DEF Join
<1>. QED  BY <1>1, <1>2, Zenon DEF Text

\* The framed chunks up to the n-th, and what they hold.
Upto(u, n) == FlattenSeq(SubSeq(Framed(u), 1, n))
Held(u, n) == FlattenSeq(SubSeq(u.chunks, 1, n))

\* Where the n-th chunk ends in the stream with its line end, and the length of a
\* size line.
At(u, n) == Len(Upto(u, n))
Size(u, n) == Len(SizeLine(n, u))

LEMMA UploadIs ==
  ASSUME NEW u \in Uploads
  PROVE  /\ Len(u.chunks) \in Nat /\ u.chunks \in Seq(Seq(Symbol))
         /\ DOMAIN u.chunks = 1 .. Len(u.chunks) /\ Len(u.sizes) = Len(u.chunks) + 1
         /\ \A n \in 1 .. Len(u.chunks) :
              /\ u.chunks[n] \in Seq(Symbol) /\ Len(u.chunks[n]) \in Nat \ {0}
              /\ Hex(u.sizes[n]) = Len(u.chunks[n])
         /\ Hex(u.sizes[Len(u.chunks) + 1]) = 0
         /\ \A n \in 1 .. Len(u.chunks) + 1 :
              u.sizes[n] \in Seq(0 .. 15) /\ Len(u.sizes[n]) \in Nat \ {0}
<1>1. UploadType(u)
  BY UploadsType
<1>2. u.chunks \in Seq(Seq(Bytes) \ {<<>>}) /\ u.sizes \in Seq(Seq(0 .. 15))
  BY <1>1 DEF UploadType
<1>3. /\ Len(u.chunks) \in Nat /\ DOMAIN u.chunks = 1 .. Len(u.chunks)
      /\ \A n \in 1 .. Len(u.chunks) : u.chunks[n] \in Seq(Bytes) /\ u.chunks[n] # <<>>
  BY <1>2
<1>4. ASSUME NEW n \in 1 .. Len(u.chunks)
      PROVE  u.chunks[n] \in Seq(Symbol) /\ Len(u.chunks[n]) \in Nat \ {0}
  <2>1. u.chunks[n] \in Seq(Bytes) /\ u.chunks[n] # <<>>
    BY <1>3
  <2>2. u.chunks[n] \in Seq(Symbol)
    BY <2>1, SeqMonotonic DEF Symbol
  <2>. QED  BY <2>1, <2>2
<1>5. u.chunks \in Seq(Seq(Symbol))
  <2>1. PICK c \in Seq(Seq(Bytes) \ {<<>>}) : c = u.chunks
    BY <1>2
  <2>2. c = [n \in 1 .. Len(c) |-> c[n]] /\ Len(c) \in Nat
    OBVIOUS
  <2>3. \A n \in 1 .. Len(c) : c[n] \in Seq(Symbol)
    BY <1>4, <2>1
  <2>4. c \in Seq(Seq(Symbol))
    BY <2>2, <2>3
  <2>. QED  BY <2>1, <2>4
<1>6. /\ Len(u.sizes) = Len(u.chunks) + 1
      /\ \A n \in 1 .. Len(u.chunks) : Hex(u.sizes[n]) = Len(u.chunks[n])
      /\ Hex(u.sizes[Len(u.chunks) + 1]) = 0
  BY <1>1, <1>3 DEF UploadType
<1>7. ASSUME NEW n \in 1 .. Len(u.chunks) + 1
      PROVE  u.sizes[n] \in Seq(0 .. 15) /\ Len(u.sizes[n]) \in Nat \ {0}
  <2>1. u.sizes[n] \in Seq(0 .. 15)
    BY <1>2, <1>3, <1>6
  <2>2. Hex(u.sizes[n]) # -1
    <3>1. n = Len(u.chunks) + 1 \/ n \in 1 .. Len(u.chunks)
      BY <1>3
    <3>. QED  BY <1>4, <1>6, <3>1
  <2>3. u.sizes[n] # <<>>
    BY <2>2 DEF Hex
  <2>. QED  BY <2>1, <2>3
<1>. QED  BY <1>3, <1>4, <1>5, <1>6, <1>7

LEMMA LineEndIs ==
  Text(CRLF) /\ Len(CRLF) = 2 /\ CRLF[1] = CR /\ CRLF[2] = LF
<1>1. CR \in Symbol /\ LF \in Symbol
  BY DEF Symbol
<1>. QED  BY <1>1 DEF CRLF, Text

LEMMA Distinct ==
  /\ CR # LF /\ \A n \in Nat : n \notin {CR, LF} /\ n # Semicolon
  /\ Semicolon \notin {CR, LF} /\ Extension \notin {CR, LF} /\ Name \notin {CR, LF}
  /\ Colon \notin {CR, LF} /\ First \notin {CR, LF} /\ Second \notin {CR, LF}
BY Symbols, Zenon

\* A size line: digits d, then nothing or an extension, then a line end.
SizeText(line, d) ==
  /\ Text(line) /\ Len(line) \in Nat /\ Len(d) + 2 <= Len(line)
  /\ \A i \in 1 .. Len(d) : line[i] = d[i]
  /\ Len(d) + 2 < Len(line) => line[Len(d) + 1] = Semicolon
  /\ \A i \in 1 .. Len(line) - 2 : line[i] \notin {CR, LF}
  /\ line[Len(line) - 1] = CR /\ line[Len(line)] = LF

LEMMA SizeLineIs ==
  ASSUME NEW u \in Uploads, NEW n \in 1 .. Len(u.chunks) + 1,
         NEW line, line = SizeLine(n, u), NEW d, d = u.sizes[n]
  PROVE  SizeText(line, d)
<1>1. d \in Seq(0 .. 15) /\ Len(d) \in Nat \ {0} /\ \A i \in 1 .. Len(d) : d[i] \in 0 .. 15
  <2>1. d \in Seq(0 .. 15) /\ Len(d) \in Nat \ {0}
    BY UploadIs
  <2>2. \A i \in 1 .. Len(d) : d[i] \in 0 .. 15
    BY <2>1, ElementOfSeq, Zenon
  <2>. QED  BY <2>1, <2>2, Zenon
<1>2. Text(d)
  <2>1. 0 .. 15 \subseteq Symbol
    BY DEF Symbol
  <2>. QED  BY <1>1, <2>1, SeqMonotonic DEF Text
<1>3. PICK e : e = IF u.signed THEN <<Semicolon, Extension>> ELSE <<>>
  OBVIOUS
<1>4. /\ Text(e) /\ Len(e) \in Nat
      /\ Len(e) # 0 => e[1] = Semicolon
      /\ \A i \in 1 .. Len(e) : e[i] \notin {CR, LF}
  <2>1. CASE u.signed
    <3>1. e = <<Semicolon, Extension>>
      BY <1>3, <2>1
    <3>2. Semicolon \in Symbol /\ Extension \in Symbol
      BY DEF Symbol
    <3>3. Text(e) /\ Len(e) = 2 /\ e[1] = Semicolon /\ e[2] = Extension
      BY <3>1, <3>2 DEF Text
    <3>. QED  BY <3>3, Distinct
  <2>2. CASE ~u.signed
    <3>1. e = <<>>
      BY <1>3, <2>2
    <3>. QED  BY <3>1 DEF Text
  <2>. QED  BY <2>1, <2>2
<1>5. PICK c : c = CRLF
  OBVIOUS
<1>6. Text(c) /\ Len(c) = 2 /\ c[1] = CR /\ c[2] = LF
  BY <1>5, LineEndIs
<1>7. PICK de : de = Join(d, e)
  OBVIOUS
<1>8. /\ Text(de) /\ Len(de) = Len(d) + Len(e)
      /\ \A i \in 1 .. Len(d) : de[i] = d[i]
      /\ \A i \in 1 .. Len(e) : de[Len(d) + i] = e[i]
  <2>1. Text(e)
    BY <1>4
  <2>2. PICK k : k = d
    OBVIOUS
  <2>3. Text(k) /\ de = Join(k, e)
    BY <1>2, <1>7, <2>2, Zenon
  <2>4. /\ Text(de) /\ Len(de) = Len(k) + Len(e)
        /\ \A i \in 1 .. Len(k) : de[i] = k[i]
        /\ \A i \in 1 .. Len(e) : de[Len(k) + i] = e[i]
    BY <2>1, <2>3, Joined
  <2>. QED  BY <2>2, <2>4, Zenon
<1>9. /\ Text(line) /\ Len(line) = Len(de) + Len(c)
      /\ \A i \in 1 .. Len(de) : line[i] = de[i]
      /\ \A i \in 1 .. Len(c) : line[Len(de) + i] = c[i]
  <2>1. line = Join(de, c)
    BY <1>3, <1>5, <1>7 DEF SizeLine, Join
  <2>2. Text(de) /\ Text(c)
    BY <1>6, <1>8
  <2>. QED  BY <2>1, <2>2, Joined
<1>10. Len(de) \in Nat /\ Len(line) = Len(de) + 2
  BY <1>1, <1>4, <1>6, <1>8, <1>9
<1>11. line[Len(de) + 1] = CR /\ line[Len(de) + 2] = LF
  BY <1>6, <1>9
<1>12. ASSUME NEW i \in 1 .. Len(de) PROVE de[i] \notin {CR, LF}
  <2>1. CASE i <= Len(d)
    <3>1. i \in 1 .. Len(d)
      BY <1>1, <2>1
    <3>2. de[i] = d[i] /\ d[i] \in 0 .. 15
      BY <1>1, <1>8, <3>1
    <3>. QED  BY <3>2, Distinct
  <2>2. CASE ~(i <= Len(d))
    <3>1. PICK j \in 1 .. Len(e) : i = Len(d) + j
      <4>1. i - Len(d) \in 1 .. Len(e) /\ i = Len(d) + (i - Len(d))
        BY <1>1, <1>4, <1>8, <2>2
      <4>. QED  BY <4>1
    <3>. QED  BY <1>4, <1>8, <3>1
  <2>. QED  BY <2>1, <2>2
<1>13. Len(d) < Len(de) => line[Len(d) + 1] = Semicolon
  <2>1. SUFFICES ASSUME Len(d) < Len(de) PROVE line[Len(d) + 1] = Semicolon
    OBVIOUS
  <2>2. Len(e) # 0 /\ 1 \in 1 .. Len(e) /\ Len(d) + 1 \in 1 .. Len(de)
    BY <1>1, <1>4, <1>8, <2>1
  <2>. QED  BY <1>4, <1>8, <1>9, <2>2
<1>14. Len(de) = Len(line) - 2 /\ Len(de) + 1 = Len(line) - 1 /\ Len(de) + 2 = Len(line)
  BY <1>10
<1>15. \A i \in 1 .. Len(line) - 2 : line[i] \notin {CR, LF}
  BY <1>9, <1>12, <1>14
<1>16. \A i \in 1 .. Len(d) : line[i] = d[i]
  BY <1>1, <1>4, <1>8, <1>9
<1>17. Len(d) + 2 <= Len(line) /\ (Len(d) + 2 < Len(line) => Len(d) < Len(de))
  BY <1>1, <1>4, <1>8, <1>10
<1>. QED  BY <1>9, <1>10, <1>11, <1>13, <1>14, <1>15, <1>16, <1>17 DEF SizeText

\* One chunk in its frame.
LEMMA FramedIs ==
  ASSUME NEW u \in Uploads
  PROVE  /\ Framed(u) \in Seq(Seq(Symbol)) /\ Len(Framed(u)) = Len(u.chunks)
         /\ \A n \in 1 .. Len(u.chunks) :
              /\ Text(Framed(u)[n]) /\ Size(u, n) \in Nat
              /\ Len(Framed(u)[n]) = Size(u, n) + Len(u.chunks[n]) + 2
              /\ \A i \in 1 .. Size(u, n) : Framed(u)[n][i] = SizeLine(n, u)[i]
              /\ \A i \in 1 .. Len(u.chunks[n]) :
                   Framed(u)[n][Size(u, n) + i] = u.chunks[n][i]
              /\ Framed(u)[n][Size(u, n) + Len(u.chunks[n]) + 1] = CR
              /\ Framed(u)[n][Size(u, n) + Len(u.chunks[n]) + 2] = LF
<1>0. Len(u.chunks) \in Nat /\ DOMAIN u.chunks = 1 .. Len(u.chunks)
  BY UploadIs
<1>1. ASSUME NEW n \in 1 .. Len(u.chunks)
      PROVE  /\ Text(Framed(u)[n]) /\ Size(u, n) \in Nat
             /\ Len(Framed(u)[n]) = Size(u, n) + Len(u.chunks[n]) + 2
             /\ \A i \in 1 .. Size(u, n) : Framed(u)[n][i] = SizeLine(n, u)[i]
             /\ \A i \in 1 .. Len(u.chunks[n]) :
                  Framed(u)[n][Size(u, n) + i] = u.chunks[n][i]
             /\ Framed(u)[n][Size(u, n) + Len(u.chunks[n]) + 1] = CR
             /\ Framed(u)[n][Size(u, n) + Len(u.chunks[n]) + 2] = LF
  <2>0. n \in 1 .. Len(u.chunks) + 1
    BY <1>0
  <2>1. PICK line : line = SizeLine(n, u) /\ Text(line)
    BY <2>0, SizeLineIs DEF SizeText
  <2>2. PICK chunk : chunk = u.chunks[n] /\ Text(chunk)
    BY UploadIs DEF Text
  <2>3. PICK c : c = CRLF /\ Text(c) /\ Len(c) = 2 /\ c[1] = CR /\ c[2] = LF
    BY LineEndIs
  <2>4. PICK lc : lc = Join(line, chunk)
    OBVIOUS
  <2>5. /\ Text(lc) /\ Len(lc) = Len(line) + Len(chunk)
        /\ Len(line) \in Nat /\ Len(chunk) \in Nat
        /\ \A i \in 1 .. Len(line) : lc[i] = line[i]
        /\ \A i \in 1 .. Len(chunk) : lc[Len(line) + i] = chunk[i]
    <3>1. Text(line) /\ Text(chunk)
      BY <2>1, <2>2
    <3>. QED  BY <2>4, <3>1, Joined
  <2>6. PICK f : f = Framed(u)[n] /\ f = Join(lc, c)
    BY <1>0, <2>1, <2>2, <2>3, <2>4 DEF Framed, Join
  <2>7. /\ Text(f) /\ Len(f) = Len(lc) + Len(c)
        /\ \A i \in 1 .. Len(lc) : f[i] = lc[i]
        /\ \A i \in 1 .. Len(c) : f[Len(lc) + i] = c[i]
    <3>1. Text(lc) /\ Text(c)
      BY <2>3, <2>5
    <3>. QED  BY <2>6, <3>1, Joined
  <2>8. Size(u, n) = Len(line) /\ Len(lc) = Len(line) + Len(chunk)
    BY <2>1, <2>5 DEF Size
  <2>9. /\ Len(f) = Len(line) + Len(chunk) + 2
        /\ f[Len(line) + Len(chunk) + 1] = CR
        /\ f[Len(line) + Len(chunk) + 2] = LF
    <3>1. f[Len(lc) + 1] = CR /\ f[Len(lc) + 2] = LF
      BY <2>3, <2>7
    <3>. QED  BY <2>3, <2>5, <2>7, <3>1
  <2>10. \A i \in 1 .. Len(line) : f[i] = line[i]
    BY <2>5, <2>7
  <2>11. \A i \in 1 .. Len(chunk) : f[Len(line) + i] = chunk[i]
    BY <2>5, <2>7
  <2>. QED  BY <2>1, <2>2, <2>5, <2>6, <2>7, <2>8, <2>9, <2>10, <2>11
<1>2. PICK f : f = Framed(u) /\ f = [n \in 1 .. Len(u.chunks) |-> f[n]]
  BY <1>0 DEF Framed
<1>3. Framed(u) \in Seq(Seq(Symbol)) /\ Len(Framed(u)) = Len(u.chunks)
  <2>1. \A n \in 1 .. Len(u.chunks) : f[n] \in Seq(Symbol)
    BY <1>1, <1>2 DEF Text
  <2>2. f \in Seq(Seq(Symbol)) /\ Len(f) = Len(u.chunks)
    <3>1. PICK N \in Nat : N = Len(u.chunks)
      BY <1>0
    <3>2. f \in [1 .. N -> Seq(Symbol)]
      BY <1>2, <2>1, <3>1, Zenon
    <3>3. f \in Seq(Seq(Symbol)) /\ Len(f) = N
      BY <3>1, <3>2
    <3>. QED  BY <3>1, <3>3, Zenon
  <2>. QED  BY <1>2, <2>2
<1>. QED  BY <1>1, <1>3

\* The frames up to the n-th, one by one and as parts of each other.
LEMMA UptoIs ==
  ASSUME NEW u \in Uploads
  PROVE  /\ At(u, 0) = 0
         /\ \A n \in 0 .. Len(u.chunks) : Text(Upto(u, n)) /\ At(u, n) \in Nat
         /\ \A n \in 1 .. Len(u.chunks) : Upto(u, n) = Join(Upto(u, n - 1), Framed(u)[n])
         /\ \A n \in 0 .. Len(u.chunks) : \A m \in 0 .. n :
              /\ At(u, m) <= At(u, n)
              /\ \A i \in 1 .. At(u, m) : Upto(u, n)[i] = Upto(u, m)[i]
<1>1. PICK q : q = Framed(u) /\ q \in Seq(Seq(Symbol)) /\ Len(q) = Len(u.chunks)
  BY FramedIs
<1>2. /\ FlattenSeq(SubSeq(q, 1, 0)) = <<>>
      /\ \A n \in 1 .. Len(q) :
           FlattenSeq(SubSeq(q, 1, n)) = FlattenSeq(SubSeq(q, 1, n - 1)) \o q[n]
  BY <1>1, FlattenStep
<1>3. \A n \in 0 .. Len(q) : FlattenSeq(SubSeq(q, 1, n)) \in Seq(Symbol)
  BY <1>1, FlattenType
<1>4. At(u, 0) = 0
  BY <1>1, <1>2 DEF At, Upto
<1>5. ASSUME NEW n \in 0 .. Len(u.chunks)
      PROVE  Text(Upto(u, n)) /\ At(u, n) \in Nat
  <2>1. Upto(u, n) \in Seq(Symbol)
    BY <1>1, <1>3 DEF Upto
  <2>. QED  BY <2>1 DEF At, Text
<1>6. ASSUME NEW n \in 1 .. Len(u.chunks)
      PROVE  Upto(u, n) = Join(Upto(u, n - 1), Framed(u)[n])
  <2>1. n \in 1 .. Len(q)
    BY <1>1
  <2>. QED  BY <1>1, <1>2, <2>1, Zenon DEF Upto, Join
<1>7. ASSUME NEW n \in 0 .. Len(u.chunks), NEW m \in 0 .. n
      PROVE  /\ At(u, m) <= At(u, n)
             /\ \A i \in 1 .. At(u, m) : Upto(u, n)[i] = Upto(u, m)[i]
  <2>1. PICK short, long : /\ short = FlattenSeq(SubSeq(q, 1, m))
                           /\ long = FlattenSeq(SubSeq(q, 1, n))
    OBVIOUS
  <2>2. n \in 0 .. Len(q)
    BY <1>1
  <2>3. /\ short \in Seq(Symbol) /\ long \in Seq(Symbol) /\ Len(short) <= Len(long)
        /\ \A i \in 1 .. Len(short) : long[i] = short[i]
    BY <1>1, <2>1, <2>2, FlattenPlaces
  <2>4. short = Upto(u, m) /\ long = Upto(u, n)
    BY <1>1, <2>1 DEF Upto
  <2>. QED  BY <2>3, <2>4, Zenon DEF At
<1>. QED  BY <1>4, <1>5, <1>6, <1>7

\* What follows the last chunk.
Trailing(u) == IF u.asserts = "trailer" THEN <<Name, Colon, First, Second>> \o CRLF ELSE <<>>

LEMMA TrailingIs ==
  ASSUME NEW u, NEW t, t = Trailing(u)
  PROVE  /\ Text(t) /\ Len(t) = IF u.asserts = "trailer" THEN 6 ELSE 0
         /\ u.asserts = "trailer" =>
              /\ t[1] = Name /\ t[2] = Colon /\ t[3] = First /\ t[4] = Second
              /\ t[5] = CR /\ t[6] = LF
<1>1. PICK h : /\ h = <<Name, Colon, First, Second>> /\ Text(h) /\ Len(h) = 4
               /\ h[1] = Name /\ h[2] = Colon /\ h[3] = First /\ h[4] = Second
  <2>1. Name \in Symbol /\ Colon \in Symbol /\ First \in Symbol /\ Second \in Symbol
    BY DEF Symbol
  <2>2. PICK h : h = <<Name, Colon, First, Second>>
    OBVIOUS
  <2>3. /\ h \in Seq(Symbol) /\ Len(h) = 4
        /\ h[1] = Name /\ h[2] = Colon /\ h[3] = First /\ h[4] = Second
    BY <2>1, <2>2
  <2>. QED  BY <2>2, <2>3 DEF Text
<1>2. PICK c : c = CRLF /\ Text(c) /\ Len(c) = 2 /\ c[1] = CR /\ c[2] = LF
  BY LineEndIs
<1>3. CASE u.asserts = "trailer"
  <2>1. t = Join(h, c)
    BY <1>1, <1>2, <1>3, Zenon DEF Trailing, Join
  <2>2. Text(h) /\ Text(c)
    BY <1>1, <1>2
  <2>3. /\ Text(t) /\ Len(t) = Len(h) + Len(c)
        /\ \A i \in 1 .. Len(h) : t[i] = h[i]
        /\ \A i \in 1 .. Len(c) : t[Len(h) + i] = c[i]
    BY <2>1, <2>2, Joined
  <2>4. Len(t) = 6 /\ \A i \in 1 .. 4 : t[i] = h[i]
    BY <1>1, <1>2, <2>3
  <2>5. t[5] = c[1] /\ t[6] = c[2]
    <3>1. t[Len(h) + 1] = c[1] /\ t[Len(h) + 2] = c[2]
      BY <1>2, <2>3
    <3>. QED  BY <1>1, <3>1
  <2>. QED  BY <1>1, <1>2, <1>3, <2>3, <2>4, <2>5
<1>4. CASE u.asserts # "trailer"
  <2>1. t = <<>>
    BY <1>4 DEF Trailing
  <2>. QED  BY <1>4, <2>1 DEF Text
<1>. QED  BY <1>3, <1>4

\* Where the last size line ends, and what is behind it.
DataEnd(u) == At(u, Len(u.chunks)) + Size(u, Len(u.chunks) + 1)
TrailerSize(u) == IF u.asserts = "trailer" THEN 6 ELSE 0

\* All but the chunks of a stream f: it has N of them, and e bytes to the end of
\* the last size line, with t of a trailer.
Ends(u, f, N, e, t) ==
  /\ N = Len(u.chunks) /\ e = DataEnd(u) /\ t = TrailerSize(u)
  /\ Text(f) /\ Len(f) = e + t + 2
  /\ At(u, N) \in Nat /\ Size(u, N + 1) \in Nat /\ e = At(u, N) + Size(u, N + 1)
  /\ \A i \in 1 .. At(u, N) : f[i] = Upto(u, N)[i]
  /\ \A i \in 1 .. Size(u, N + 1) : f[At(u, N) + i] = SizeLine(N + 1, u)[i]
  /\ u.asserts = "trailer" =>
       /\ t = 6 /\ f[e + 1] = Name /\ f[e + 2] = Colon /\ f[e + 3] = First
       /\ f[e + 4] = Second /\ f[e + 5] = CR /\ f[e + 6] = LF
  /\ u.asserts # "trailer" => t = 0
  /\ f[e + t + 1] = CR /\ f[e + t + 2] = LF

LEMMA FrameIs ==
  ASSUME NEW u \in Uploads, NEW f, f = Frame(u)
  PROVE  \E N, e, t \in Nat : Ends(u, f, N, e, t)
<1>a. PICK N : N = Len(u.chunks)
  OBVIOUS
<1>0. N \in Nat /\ N \in 0 .. N /\ N + 1 \in 1 .. N + 1
  <2>1. Len(u.chunks) \in Nat
    BY UploadIs
  <2>. QED  BY <1>a, <2>1
<1>1. PICK a : a = Upto(u, N) /\ Text(a) /\ a = FlattenSeq(Framed(u)) /\ Len(a) = At(u, N)
  <2>1. Text(Upto(u, N))
    BY <1>a, <1>0, UptoIs
  <2>2. PICK q : q = Framed(u) /\ q \in Seq(Seq(Symbol)) /\ Len(q) = N
    BY <1>a, FramedIs
  <2>3. SubSeq(q, 1, Len(q)) = q
    BY <2>2, SubSeqFull
  <2>4. Upto(u, N) = FlattenSeq(Framed(u))
    BY <2>2, <2>3, Zenon DEF Upto
  <2>. QED  BY <2>1, <2>4 DEF At
<1>2. PICK l : l = SizeLine(N + 1, u) /\ Text(l) /\ Len(l) = Size(u, N + 1)
  <2>1. Text(SizeLine(N + 1, u))
    BY <1>a, <1>0, SizeLineIs DEF SizeText
  <2>. QED  BY <2>1 DEF Size
<1>3. PICK t : t = Trailing(u) /\ Text(t)
  BY TrailingIs
<1>4. PICK c : c = CRLF /\ Text(c) /\ Len(c) = 2 /\ c[1] = CR /\ c[2] = LF
  BY LineEndIs
<1>5. PICK al : al = Join(a, l)
  OBVIOUS
<1>6. PICK alt : alt = Join(al, t)
  OBVIOUS
<1>7. f = Join(alt, c)
  <2>1. Len(u.sizes) = N + 1
    BY <1>a, UploadIs
  <2>2. f = FlattenSeq(Framed(u)) \o SizeLine(Len(u.sizes), u) \o Trailing(u) \o CRLF
    BY Zenon DEF Frame, Trailing
  <2>3. f = a \o l \o t \o c
    BY <1>1, <1>2, <1>3, <1>4, <2>1, <2>2, Zenon
  <2>. QED  BY <1>5, <1>6, <2>3, Zenon DEF Join
<1>8. /\ Text(al) /\ Len(a) \in Nat /\ Len(l) \in Nat /\ Len(al) = Len(a) + Len(l)
      /\ \A i \in 1 .. Len(a) : al[i] = a[i]
      /\ \A i \in 1 .. Len(l) : al[Len(a) + i] = l[i]
  <2>1. Text(a) /\ Text(l)
    BY <1>1, <1>2
  <2>. QED  BY <1>5, <2>1, Joined
<1>9. /\ Text(alt) /\ Len(t) \in Nat /\ Len(alt) = Len(al) + Len(t)
      /\ \A i \in 1 .. Len(al) : alt[i] = al[i]
      /\ \A i \in 1 .. Len(t) : alt[Len(al) + i] = t[i]
  <2>1. Text(al) /\ Text(t)
    BY <1>3, <1>8
  <2>. QED  BY <1>6, <2>1, Joined
<1>10. /\ Text(f) /\ Len(f) = Len(alt) + Len(c)
       /\ \A i \in 1 .. Len(alt) : f[i] = alt[i]
       /\ \A i \in 1 .. Len(c) : f[Len(alt) + i] = c[i]
  <2>1. Text(alt) /\ Text(c)
    BY <1>4, <1>9
  <2>. QED  BY <1>7, <2>1, Joined
<1>11. PICK A, L, T \in Nat :
         /\ A = Len(a) /\ L = Len(l) /\ T = Len(t)
         /\ A = At(u, N) /\ L = Size(u, N + 1) /\ T = TrailerSize(u) /\ A + L = DataEnd(u)
  <2>1. Len(t) = TrailerSize(u)
    BY <1>3, TrailingIs DEF TrailerSize
  <2>2. DataEnd(u) = At(u, N) + Size(u, N + 1)
    BY <1>a, Zenon DEF DataEnd
  <2>. QED  BY <1>1, <1>2, <1>8, <1>9, <2>1, <2>2
<1>12. /\ Len(al) = A + L /\ Len(alt) = A + L + T /\ Len(f) = A + L + T + 2
  BY <1>4, <1>8, <1>9, <1>10, <1>11
<1>13. /\ \A i \in 1 .. A : f[i] = a[i]
       /\ \A i \in 1 .. L : f[A + i] = l[i]
       /\ \A i \in 1 .. T : f[A + L + i] = t[i]
  <2>1. \A i \in 1 .. A + L + T : f[i] = alt[i]
    BY <1>10, <1>12
  <2>2. \A i \in 1 .. A + L : alt[i] = al[i]
    BY <1>9, <1>12
  <2>3. \A i \in 1 .. T : alt[A + L + i] = t[i]
    BY <1>9, <1>11, <1>12
  <2>4. \A i \in 1 .. A : al[i] = a[i]
    BY <1>8, <1>11
  <2>5. \A i \in 1 .. L : al[A + i] = l[i]
    BY <1>8, <1>11
  <2>6. \A i \in 1 .. A : f[i] = a[i]
    BY <2>1, <2>2, <2>4
  <2>7. ASSUME NEW i \in 1 .. L PROVE f[A + i] = l[i]
    <3>1. PICK j : j = A + i /\ j \in 1 .. A + L
      OBVIOUS
    <3>2. f[j] = alt[j] /\ alt[j] = al[j]
      BY <2>1, <2>2, <3>1
    <3>. QED  BY <2>5, <3>1, <3>2
  <2>8. ASSUME NEW i \in 1 .. T PROVE f[A + L + i] = t[i]
    <3>1. PICK j : j = A + L + i /\ j \in 1 .. A + L + T
      OBVIOUS
    <3>2. f[j] = alt[j]
      BY <2>1, <3>1
    <3>. QED  BY <2>3, <3>1, <3>2
  <2>. QED  BY <2>6, <2>7, <2>8
<1>14. f[A + L + T + 1] = CR /\ f[A + L + T + 2] = LF
  <2>1. f[Len(alt) + 1] = CR /\ f[Len(alt) + 2] = LF
    BY <1>4, <1>10
  <2>. QED  BY <1>12, <2>1
<1>15. u.asserts = "trailer" =>
         /\ f[A + L + 1] = Name /\ f[A + L + 2] = Colon
         /\ f[A + L + 3] = First /\ f[A + L + 4] = Second
         /\ f[A + L + 5] = CR /\ f[A + L + 6] = LF
  <2>1. u.asserts = "trailer" => T = 6
    BY <1>11 DEF TrailerSize
  <2>2. u.asserts = "trailer" =>
         /\ t[1] = Name /\ t[2] = Colon /\ t[3] = First /\ t[4] = Second
         /\ t[5] = CR /\ t[6] = LF
    BY <1>3, TrailingIs
  <2>3. u.asserts = "trailer" => \A i \in 1 .. 6 : f[A + L + i] = t[i]
    BY <1>13, <2>1
  <2>4. SUFFICES ASSUME u.asserts = "trailer"
                 PROVE  /\ f[A + L + 1] = t[1] /\ f[A + L + 2] = t[2]
                        /\ f[A + L + 3] = t[3] /\ f[A + L + 4] = t[4]
                        /\ f[A + L + 5] = t[5] /\ f[A + L + 6] = t[6]
    BY <2>2
  <2>5. PICK B \in Nat : B = A + L
    OBVIOUS
  <2>6. \A i \in 1 .. 6 : f[B + i] = t[i]
    BY <2>3, <2>4, <2>5
  <2>7. /\ f[B + 1] = t[1] /\ f[B + 2] = t[2] /\ f[B + 3] = t[3]
        /\ f[B + 4] = t[4] /\ f[B + 5] = t[5] /\ f[B + 6] = t[6]
    BY <2>6
  <2>. QED  BY <2>5, <2>7
<1>16. PICK B \in Nat : B = A + L /\ B = DataEnd(u)
  BY <1>11
<1>17. u.asserts = "trailer" =>
         /\ f[B + 1] = Name /\ f[B + 2] = Colon /\ f[B + 3] = First /\ f[B + 4] = Second
         /\ f[B + 5] = CR /\ f[B + 6] = LF
  BY <1>15, <1>16, Zenon
<1>18. f[B + T + 1] = CR /\ f[B + T + 2] = LF /\ Len(f) = B + T + 2
  BY <1>12, <1>14, <1>16, Zenon
<1>19. /\ At(u, N) \in Nat /\ Size(u, N + 1) \in Nat /\ B = At(u, N) + Size(u, N + 1)
       /\ u.asserts = "trailer" => T = 6
       /\ u.asserts # "trailer" => T = 0
  <2>1. /\ u.asserts = "trailer" => T = 6
        /\ u.asserts # "trailer" => T = 0
    BY <1>11 DEF TrailerSize
  <2>. QED  BY <1>11, <1>16, <2>1
<1>20. /\ \A i \in 1 .. At(u, N) : f[i] = Upto(u, N)[i]
       /\ \A i \in 1 .. Size(u, N + 1) : f[At(u, N) + i] = SizeLine(N + 1, u)[i]
  BY <1>1, <1>2, <1>11, <1>13, Zenon
<1>21. Text(f)
  BY <1>10
<1>22. Ends(u, f, N, B, T)
  BY <1>a, <1>11, <1>16, <1>17, <1>18, <1>19, <1>20, <1>21, Zenon DEF Ends
<1>. QED  BY <1>0, <1>22

\* The n-th chunk in a stream f: it begins behind a bytes with a size line of s,
\* and has c bytes.
Placed(u, f, n, a, s, c) ==
  /\ a = At(u, n - 1) /\ s = Size(u, n) /\ c = Len(u.chunks[n]) /\ c # 0
  /\ At(u, n) = a + s + c + 2 /\ a + s + c + 2 <= DataEnd(u)
  /\ \A i \in 1 .. s : f[a + i] = SizeLine(n, u)[i]
  /\ \A i \in 1 .. c : f[a + s + i] = u.chunks[n][i]
  /\ f[a + s + c + 1] = CR /\ f[a + s + c + 2] = LF

LEMMA ChunkAt ==
  ASSUME NEW u \in Uploads, NEW n \in 1 .. Len(u.chunks), NEW f, f = Frame(u)
  PROVE  \E a, s, c \in Nat : Placed(u, f, n, a, s, c)
<1>0. PICK N : N = Len(u.chunks) /\ N \in Nat /\ n \in 1 .. N
  BY UploadIs
<1>a. PICK a, s, c : a = At(u, n - 1) /\ s = Size(u, n) /\ c = Len(u.chunks[n])
  OBVIOUS
<1>1. PICK up, fr, un : /\ up = Upto(u, n - 1) /\ fr = Framed(u)[n] /\ un = Upto(u, n)
                        /\ un = Join(up, fr)
  BY UptoIs
<1>2. /\ Text(up) /\ Len(up) = a /\ a \in Nat
      /\ At(u, N) \in Nat /\ At(u, n) \in Nat /\ At(u, n) <= At(u, N)
      /\ \A i \in 1 .. At(u, n) : Upto(u, N)[i] = un[i]
  <2>1. n - 1 \in 0 .. N /\ n \in 0 .. N /\ N \in 0 .. N
    BY <1>0
  <2>2. Text(Upto(u, n - 1)) /\ At(u, n - 1) \in Nat
    BY <1>0, <2>1, UptoIs
  <2>3. /\ At(u, n) <= At(u, N)
        /\ \A i \in 1 .. At(u, n) : Upto(u, N)[i] = Upto(u, n)[i]
    BY <1>0, <2>1, UptoIs
  <2>4. At(u, N) \in Nat /\ At(u, n) \in Nat
    BY <1>0, <2>1, UptoIs
  <2>5. Len(up) = a
    BY <1>a, <1>1 DEF At
  <2>. QED  BY <1>a, <1>1, <2>2, <2>3, <2>4, <2>5, Zenon
<1>3. /\ Text(fr) /\ s \in Nat /\ Len(fr) = s + c + 2
      /\ \A i \in 1 .. s : fr[i] = SizeLine(n, u)[i]
      /\ \A i \in 1 .. c : fr[s + i] = u.chunks[n][i]
      /\ fr[s + c + 1] = CR /\ fr[s + c + 2] = LF
  <2>1. /\ Text(Framed(u)[n]) /\ Size(u, n) \in Nat
        /\ Len(Framed(u)[n]) = Size(u, n) + Len(u.chunks[n]) + 2
        /\ \A i \in 1 .. Size(u, n) : Framed(u)[n][i] = SizeLine(n, u)[i]
        /\ \A i \in 1 .. Len(u.chunks[n]) :
             Framed(u)[n][Size(u, n) + i] = u.chunks[n][i]
        /\ Framed(u)[n][Size(u, n) + Len(u.chunks[n]) + 1] = CR
        /\ Framed(u)[n][Size(u, n) + Len(u.chunks[n]) + 2] = LF
    BY FramedIs, Zenon
  <2>. QED  BY <1>a, <1>1, <2>1, Zenon
<1>4. c \in Nat /\ c # 0
  <2>1. Len(u.chunks[n]) \in Nat \ {0}
    BY UploadIs
  <2>. QED  BY <1>a, <2>1
<1>5. /\ Len(un) = Len(up) + Len(fr)
      /\ \A i \in 1 .. Len(fr) : un[Len(up) + i] = fr[i]
  <2>1. Text(up) /\ Text(fr) /\ un = Join(up, fr)
    BY <1>1, <1>2, <1>3
  <2>. QED  BY <2>1, Joined
<1>6. Len(un) = a + (s + c + 2) /\ \A i \in 1 .. s + c + 2 : un[a + i] = fr[i]
  BY <1>2, <1>3, <1>5, Zenon
<1>7. At(u, n) = a + s + c + 2
  <2>1. At(u, n) = Len(un)
    BY <1>1 DEF At
  <2>. QED  BY <1>2, <1>3, <1>4, <1>6, <2>1
<1>8. /\ \A i \in 1 .. At(u, N) : f[i] = Upto(u, N)[i]
      /\ At(u, N) <= DataEnd(u) /\ DataEnd(u) \in Nat
  <2>0. PICK M, e, t \in Nat : Ends(u, f, M, e, t)
    BY FrameIs
  <2>1. /\ M = Len(u.chunks) /\ e = DataEnd(u)
        /\ At(u, M) \in Nat /\ Size(u, M + 1) \in Nat /\ e = At(u, M) + Size(u, M + 1)
        /\ \A i \in 1 .. At(u, M) : f[i] = Upto(u, M)[i]
    BY <2>0, Zenon DEF Ends
  <2>2. N = M
    BY <1>0, <2>1
  <2>3. At(u, M) <= e
    BY <2>1
  <2>. QED  BY <2>1, <2>2, <2>3, Zenon
<1>9. ASSUME NEW i \in 1 .. s + c + 2 PROVE f[a + i] = fr[i]
  <2>1. PICK j \in 1 .. At(u, n) : j = a + i
    BY <1>2, <1>3, <1>4, <1>7
  <2>2. f[j] = un[j]
    BY <1>2, <1>8
  <2>. QED  BY <1>6, <2>1, <2>2
<1>10. \A i \in 1 .. s : f[a + i] = SizeLine(n, u)[i]
  BY <1>3, <1>4, <1>9
<1>11. ASSUME NEW i \in 1 .. c PROVE f[a + s + i] = u.chunks[n][i]
  <2>1. PICK j \in 1 .. s + c + 2 : j = s + i /\ a + s + i = a + j
    BY <1>2, <1>3, <1>4
  <2>. QED  BY <1>3, <1>9, <2>1
<1>12. f[a + s + c + 1] = CR /\ f[a + s + c + 2] = LF
  <2>1. PICK j \in 1 .. s + c + 2 : j = s + c + 1 /\ a + s + c + 1 = a + j
    BY <1>2, <1>3, <1>4
  <2>2. PICK k \in 1 .. s + c + 2 : k = s + c + 2 /\ a + s + c + 2 = a + k
    BY <1>2, <1>3, <1>4
  <2>. QED  BY <1>3, <1>9, <2>1, <2>2
<1>13. At(u, n) <= DataEnd(u)
  BY <1>2, <1>8
<1>14. a + s + c + 2 <= DataEnd(u)
  BY <1>7, <1>13, Zenon
<1>15. Placed(u, f, n, a, s, c)
  BY <1>a, <1>4, <1>7, <1>10, <1>11, <1>12, <1>14, Zenon DEF Placed
<1>. QED  BY <1>2, <1>3, <1>4, <1>15

\* The size line of the n-th chunk, or of the end, in a stream f: s bytes behind the
\* first a, beginning with the digits d.
LineOf(u, f, n, a, s, d) ==
  /\ a = At(u, n - 1) /\ s = Size(u, n) /\ d = u.sizes[n]
  /\ Len(d) \in Nat /\ Len(d) # 0 /\ Len(d) + 2 <= s
  /\ a + s <= DataEnd(u) /\ (n = Len(u.chunks) + 1 => a + s = DataEnd(u))
  /\ \A i \in 1 .. Len(d) : f[a + i] = d[i]
  /\ Len(d) + 2 < s => f[a + Len(d) + 1] = Semicolon
  /\ \A i \in 1 .. s - 2 : f[a + i] \notin {CR, LF}
  /\ f[a + s - 1] = CR /\ f[a + s] = LF

LEMMA LineAt ==
  ASSUME NEW u \in Uploads, NEW f, f = Frame(u), NEW n \in 1 .. Len(u.chunks) + 1
  PROVE  \E a, s \in Nat, d \in Seq(0 .. 15) : LineOf(u, f, n, a, s, d)
<1>1. PICK N : N = Len(u.chunks) /\ N \in Nat /\ n \in 1 .. N + 1 /\ n \in Nat
  BY UploadIs
<1>2. PICK d, l, s : /\ d = u.sizes[n] /\ l = SizeLine(n, u) /\ s = Len(l) /\ s = Size(u, n)
  BY DEF Size
<1>3. d \in Seq(0 .. 15) /\ Len(d) \in Nat /\ Len(d) # 0
  <2>1. u.sizes[n] \in Seq(0 .. 15) /\ Len(u.sizes[n]) \in Nat \ {0}
    BY UploadIs
  <2>. QED  BY <1>2, <2>1
<1>4. /\ s \in Nat /\ Len(d) + 2 <= s
      /\ \A i \in 1 .. Len(d) : l[i] = d[i]
      /\ Len(d) + 2 < s => l[Len(d) + 1] = Semicolon
      /\ \A i \in 1 .. s - 2 : l[i] \notin {CR, LF}
      /\ l[s - 1] = CR /\ l[s] = LF
  <2>1. /\ Len(l) \in Nat /\ Len(d) + 2 <= Len(l)
        /\ \A i \in 1 .. Len(d) : l[i] = d[i]
        /\ Len(d) + 2 < Len(l) => l[Len(d) + 1] = Semicolon
        /\ \A i \in 1 .. Len(l) - 2 : l[i] \notin {CR, LF}
        /\ l[Len(l) - 1] = CR /\ l[Len(l)] = LF
    <3>1. SizeText(l, d)
      BY <1>2, SizeLineIs
    <3>. QED  BY <3>1, Zenon DEF SizeText
  <2>. QED  BY <1>2, <2>1, Zenon
<1>5. PICK a \in Nat : /\ a = At(u, n - 1) /\ a + s <= DataEnd(u)
                      /\ (n = N + 1 => a + s = DataEnd(u))
                       /\ \A i \in 1 .. s : f[a + i] = l[i]
  <2>1. CASE n = N + 1
    <3>1. PICK M, e, t \in Nat : Ends(u, f, M, e, t)
      BY FrameIs
    <3>2. /\ M = N /\ e = DataEnd(u) /\ At(u, M) \in Nat /\ e = At(u, M) + Size(u, M + 1)
          /\ \A i \in 1 .. Size(u, M + 1) : f[At(u, M) + i] = SizeLine(M + 1, u)[i]
      BY <1>1, <3>1, Zenon DEF Ends
    <3>3. n - 1 = M /\ n = M + 1
      BY <1>1, <2>1, <3>2
    <3>4. PICK a : a = At(u, n - 1) /\ a = At(u, M)
      BY <3>3, Zenon
    <3>5. /\ a \in Nat /\ DataEnd(u) = a + s
          /\ \A i \in 1 .. s : f[a + i] = l[i]
      BY <1>2, <3>2, <3>3, <3>4, Zenon
    <3>6. a + s <= a + s
      BY <1>4, <3>5
    <3>. QED  BY <3>4, <3>5, <3>6, Zenon
  <2>2. CASE n # N + 1
    <3>1. n \in 1 .. Len(u.chunks)
      BY <1>1, <2>2
    <3>2. PICK a, r, c \in Nat : Placed(u, f, n, a, r, c)
      BY <3>1, ChunkAt
    <3>3. /\ a = At(u, n - 1) /\ r = Size(u, n) /\ a + r + c + 2 <= DataEnd(u)
          /\ \A i \in 1 .. r : f[a + i] = SizeLine(n, u)[i]
      BY <3>2, Zenon DEF Placed
    <3>4. r = s
      BY <1>2, <3>3
    <3>5. DataEnd(u) \in Nat
      BY FrameIs DEF Ends
    <3>6. a + r <= DataEnd(u)
      BY <3>3, <3>5
    <3>7. \A i \in 1 .. s : f[a + i] = l[i]
      BY <1>2, <3>3, <3>4, Zenon
    <3>. QED  BY <2>2, <3>3, <3>4, <3>6, <3>7, Zenon
  <2>. QED  BY <2>1, <2>2
<1>6. PICK D : D = Len(d) /\ D \in Nat /\ D # 0
  BY <1>3
<1>7. /\ D + 2 <= s
      /\ \A i \in 1 .. D : l[i] = d[i]
      /\ D + 2 < s => l[D + 1] = Semicolon
      /\ \A i \in 1 .. s - 2 : l[i] \notin {CR, LF}
      /\ l[s - 1] = CR /\ l[s] = LF
  BY <1>4, <1>6, Zenon
<1>8. /\ \A i \in 1 .. D : f[a + i] = d[i]
      /\ \A i \in 1 .. s - 2 : f[a + i] \notin {CR, LF}
      /\ f[a + s] = LF
  <2>1. 1 .. D \subseteq 1 .. s /\ 1 .. s - 2 \subseteq 1 .. s /\ s \in 1 .. s
    BY <1>4, <1>6, <1>7
  <2>2. \A i \in 1 .. D : f[a + i] = d[i]
    BY <1>5, <1>7, <2>1
  <2>3. \A i \in 1 .. s - 2 : f[a + i] \notin {CR, LF}
    BY <1>5, <1>7, <2>1
  <2>4. f[a + s] = LF
    BY <1>5, <1>7, <2>1
  <2>. QED  BY <2>2, <2>3, <2>4
<1>9. D + 2 < s => f[a + D + 1] = Semicolon
  <2>1. PICK j : j = D + 1 /\ a + D + 1 = a + j
    BY <1>6
  <2>2. j \in 1 .. s
    BY <1>4, <1>6, <1>7, <2>1
  <2>. QED  BY <1>5, <1>7, <2>1, <2>2
<1>10. f[a + s - 1] = CR
  <2>1. PICK j : j = s - 1 /\ a + s - 1 = a + j
    BY <1>4
  <2>2. j \in 1 .. s
    BY <1>4, <1>6, <1>7, <2>1
  <2>. QED  BY <1>5, <1>7, <2>1, <2>2
<1>11. LineOf(u, f, n, a, s, d)
  BY <1>1, <1>2, <1>5, <1>6, <1>7, <1>8, <1>9, <1>10, Zenon DEF LineOf
<1>. QED  BY <1>3, <1>4, <1>11

\* No byte of the object is framing.
LEMMA Apart ==
  ASSUME NEW u \in Uploads, NEW i \in DataAt(u)
  PROVE  /\ i \in Nat /\ i <= DataEnd(u)
         /\ \A n \in 1 .. Len(u.chunks) + 1 : i <= At(u, n - 1) \/ i > At(u, n - 1) + Size(u, n)
         /\ \A n \in 1 .. Len(u.chunks) : i < At(u, n) - 1 \/ i > At(u, n)
         /\ i <= At(u, Len(u.chunks))
<1>1. PICK f : f = Frame(u)
  OBVIOUS
<1>2. PICK N : N = Len(u.chunks) /\ N \in Nat /\ DOMAIN u.chunks = 1 .. N
  BY UploadIs
<1>3. PICK m \in 1 .. N : i \in At(u, m - 1) + Size(u, m) + 1
                                .. At(u, m - 1) + Size(u, m) + Len(u.chunks[m])
  BY <1>2, Zenon DEF DataAt, At, Size, Upto
<1>4. PICK a, s, c \in Nat : Placed(u, f, m, a, s, c)
  BY <1>1, <1>2, ChunkAt
<1>5. /\ a = At(u, m - 1) /\ s = Size(u, m) /\ c = Len(u.chunks[m])
      /\ At(u, m) = a + s + c + 2 /\ a + s + c + 2 <= DataEnd(u)
  BY <1>4, Zenon DEF Placed
<1>6. i \in a + s + 1 .. a + s + c
  BY <1>3, <1>5, Zenon
<1>7. \A p \in 0 .. N : At(u, p) \in Nat /\ \A q \in 0 .. p : At(u, q) <= At(u, p)
  BY <1>2, UptoIs
<1>8. \A p \in 1 .. N + 1 : Size(u, p) \in Nat
  <2>1. ASSUME NEW p \in 1 .. N + 1 PROVE Size(u, p) \in Nat
    <3>1. \E b, r \in Nat, d \in Seq(0 .. 15) : LineOf(u, f, p, b, r, d)
      BY <1>1, <1>2, LineAt
    <3>. QED  BY <3>1, Zenon DEF LineOf
  <2>. QED  BY <2>1
<1>9. DataEnd(u) \in Nat
  <2>1. PICK M, e, t \in Nat : Ends(u, f, M, e, t)
    BY <1>1, FrameIs
  <2>2. e = DataEnd(u)
    BY <2>1, Zenon DEF Ends
  <2>. QED  BY <2>2
<1>10. i \in Nat /\ i <= DataEnd(u) /\ i > a + s /\ i < At(u, m) - 1
  <2>1. PICK x, y : x = At(u, m) /\ y = DataEnd(u) /\ x = a + s + c + 2 /\ a + s + c + 2 <= y
    BY <1>5, Zenon
  <2>2. i \in Nat /\ i <= y /\ i > a + s /\ i < x - 1
    <3>1. x = a + s + c + 2 /\ a + s + c + 2 <= y /\ y \in Nat
      BY <1>9, <2>1, Zenon
    <3>. QED  BY <1>6, <3>1
  <2>. QED  BY <2>1, <2>2, Zenon
<1>11. ASSUME NEW n \in 1 .. N + 1 PROVE i <= At(u, n - 1) \/ i > At(u, n - 1) + Size(u, n)
  <2>1. CASE n = m
    <3>1. At(u, n - 1) = a /\ Size(u, n) = s
      BY <1>5, <2>1
    <3>. QED  BY <1>10, <3>1
  <2>2. CASE m < n
    <3>1. n - 1 \in 0 .. N /\ m \in 0 .. n - 1 /\ m \in 0 .. N
      BY <1>2, <2>2
    <3>2. At(u, m) <= At(u, n - 1) /\ At(u, m) \in Nat /\ At(u, n - 1) \in Nat
      BY <1>7, <3>1
    <3>. QED  BY <1>10, <3>2
  <2>3. CASE n < m
    <3>1. m - 1 \in 0 .. N /\ n \in 0 .. m - 1 /\ n \in 1 .. N
      BY <1>2, <2>3
    <3>2. At(u, n) <= a
      BY <1>5, <1>7, <3>1
    <3>3. PICK b, r, k \in Nat : Placed(u, f, n, b, r, k)
      BY <1>1, <1>2, <3>1, ChunkAt
    <3>4. b = At(u, n - 1) /\ r = Size(u, n) /\ At(u, n) = b + r + k + 2
      BY <3>3, Zenon DEF Placed
    <3>5. b + r + k + 2 <= a
      BY <3>2, <3>4, Zenon
    <3>6. i > b + r
      BY <1>10, <3>5
    <3>. QED  BY <3>4, <3>6, Zenon
  <2>. QED  BY <1>2, <2>1, <2>2, <2>3
<1>12. ASSUME NEW n \in 1 .. N PROVE i < At(u, n) - 1 \/ i > At(u, n)
  <2>0. n \in 0 .. N /\ m \in 0 .. N /\ At(u, n) \in Nat /\ At(u, m) \in Nat
    BY <1>2, <1>7
  <2>1. CASE m <= n
    <3>1. m \in 0 .. n
      BY <1>2, <2>1
    <3>2. At(u, m) <= At(u, n)
      BY <1>7, <2>0, <3>1
    <3>. QED  BY <1>10, <2>0, <3>2
  <2>2. CASE n < m
    <3>1. m - 1 \in 0 .. N /\ n \in 0 .. m - 1
      BY <1>2, <2>2
    <3>2. At(u, n) <= a
      BY <1>5, <1>7, <3>1
    <3>. QED  BY <1>10, <2>0, <3>2
  <2>. QED  BY <1>2, <2>1, <2>2
<1>13. i <= At(u, N)
  <2>1. m \in 0 .. N /\ N \in 0 .. N
    BY <1>2
  <2>2. At(u, m) <= At(u, N) /\ At(u, m) \in Nat /\ At(u, N) \in Nat
    BY <1>7, <2>1
  <2>. QED  BY <1>10, <2>2
<1>. QED  BY <1>2, <1>10, <1>11, <1>12, <1>13

\* The n-th chunk in the object, behind h bytes.
HeldOf(u, n, h, c) ==
  /\ h = Len(Held(u, n - 1)) /\ c = Len(u.chunks[n])
  /\ Len(Held(u, n)) = h + c /\ h + c <= Len(Content(u))
  /\ \A i \in 1 .. c : Content(u)[h + i] = u.chunks[n][i]

LEMMA HeldIs ==
  ASSUME NEW u \in Uploads
  PROVE  /\ Text(Content(u)) /\ Len(Content(u)) \in Nat
         /\ Len(Held(u, 0)) = 0 /\ Held(u, Len(u.chunks)) = Content(u)
         /\ \A n \in 1 .. Len(u.chunks) : \E h, c \in Nat : HeldOf(u, n, h, c)
<1>1. PICK q, N : /\ q = u.chunks /\ q \in Seq(Seq(Symbol)) /\ N = Len(q) /\ N \in Nat
                  /\ \A n \in 1 .. N : Len(q[n]) \in Nat
  <2>1. u.chunks \in Seq(Seq(Symbol)) /\ Len(u.chunks) \in Nat
    BY UploadIs
  <2>2. \A n \in 1 .. Len(u.chunks) : Len(u.chunks[n]) \in Nat \ {0}
    BY UploadIs
  <2>. QED  BY <2>1, <2>2
<1>2. /\ FlattenSeq(SubSeq(q, 1, 0)) = <<>>
      /\ \A n \in 1 .. Len(q) :
           FlattenSeq(SubSeq(q, 1, n)) = FlattenSeq(SubSeq(q, 1, n - 1)) \o q[n]
  BY <1>1, FlattenStep
<1>3. \A n \in 0 .. N : Text(Held(u, n))
  <2>1. \A n \in 0 .. Len(q) : FlattenSeq(SubSeq(q, 1, n)) \in Seq(Symbol)
    BY <1>1, FlattenType
  <2>. QED  BY <1>1, <2>1, Zenon DEF Held, Text
<1>4. Held(u, N) = Content(u)
  <2>1. SubSeq(q, 1, Len(q)) = q
    BY <1>1, SubSeqFull
  <2>. QED  BY <1>1, <2>1, Zenon DEF Held, Content
<1>5. Text(Content(u))
  <2>1. N \in 0 .. N
    BY <1>1
  <2>. QED  BY <1>3, <1>4, <2>1
<1>6. Len(Content(u)) \in Nat
  BY <1>5 DEF Text
<1>7. Len(Held(u, 0)) = 0
  BY <1>1, <1>2 DEF Held
<1>8. ASSUME NEW n \in 1 .. N PROVE \E h, c \in Nat : HeldOf(u, n, h, c)
  <2>1. n \in 0 .. N /\ n - 1 \in 0 .. N /\ N \in 0 .. N /\ n \in 1 .. Len(q)
    BY <1>1
  <2>2. PICK hp, hn, x, y : hp = Held(u, n - 1) /\ hn = Held(u, n) /\ x = q[n] /\ y = Content(u)
    OBVIOUS
  <2>3. hn = Join(hp, x)
    BY <1>1, <1>2, <2>1, <2>2, Zenon DEF Held, Join
  <2>4. Text(hp) /\ Text(x)
    BY <1>1, <1>3, <2>1, <2>2 DEF Text
  <2>5. /\ Len(hp) \in Nat /\ Len(x) \in Nat /\ Len(hn) = Len(hp) + Len(x)
        /\ \A i \in 1 .. Len(x) : hn[Len(hp) + i] = x[i]
    BY <2>3, <2>4, Joined
  <2>6. Len(hn) <= Len(y) /\ \A i \in 1 .. Len(hn) : y[i] = hn[i]
    <3>1. PICK short, long : /\ short = FlattenSeq(SubSeq(q, 1, n))
                             /\ long = FlattenSeq(SubSeq(q, 1, N))
      OBVIOUS
    <3>2. q \in Seq(Seq(Symbol)) /\ n \in 0 .. N /\ N \in 0 .. Len(q)
      BY <1>1, <2>1
    <3>3. Len(short) <= Len(long) /\ \A i \in 1 .. Len(short) : long[i] = short[i]
      BY <3>1, <3>2, FlattenPlaces
    <3>4. short = hn /\ long = y
      BY <1>1, <1>4, <2>2, <3>1, Zenon DEF Held
    <3>. QED  BY <3>3, <3>4, Zenon
  <2>7. PICK h, c \in Nat : h = Len(hp) /\ c = Len(x)
    BY <2>5
  <2>8. Len(hn) = h + c /\ \A i \in 1 .. c : hn[h + i] = x[i]
    BY <2>5, <2>7, Zenon
  <2>9. h + c <= Len(y) /\ \A i \in 1 .. h + c : y[i] = hn[i]
    BY <2>6, <2>8, Zenon
  <2>10. ASSUME NEW i \in 1 .. c PROVE y[h + i] = x[i]
    <3>1. h + i \in 1 .. h + c
      OBVIOUS
    <3>. QED  BY <2>8, <2>9, <3>1, Zenon
  <2>11. HeldOf(u, n, h, c)
    BY <1>1, <2>2, <2>7, <2>8, <2>9, <2>10, Zenon DEF HeldOf
  <2>. QED  BY <2>11
<1>. QED  BY <1>1, <1>4, <1>5, <1>6, <1>7, <1>8

\* Cutting a piece out of a text.
LEMMA MiddleOf ==
  ASSUME NEW s \in Seq(Symbol), NEW a \in Nat, NEW k \in Nat, a + k <= Len(s),
         NEW x, x = SubSeq(s, a + 1, a + k)
  PROVE  /\ x \in Seq(Symbol) /\ Len(x) = k
         /\ \A i \in 1 .. k : x[i] = s[a + i]
<1>1. Len(s) \in Nat /\ a + 1 \in 1 .. Len(s) + 1 /\ a + k \in a .. Len(s)
  OBVIOUS
<1>2. x \in Seq(Symbol)
  BY <1>1
<1>3. Len(x) = k
  BY <1>1
<1>4. ASSUME NEW i \in 1 .. k PROVE x[i] = s[a + i]
  BY <1>1
<1>. QED  BY <1>2, <1>3, <1>4

-----------------------------------------------------------------------------
(***************************************************************************)
(* What the reader makes of a line                                         *)
(***************************************************************************)

\* A line ends at its first line feed, or where the stream does.
LEMMA LineLengthIs ==
  ASSUME NEW K, K = Len(stream), K \in Nat, NEW a \in 0 .. K, NEW s \in Nat, s # 0,
         \A i \in 1 .. s - 1 : a + i <= K => stream[a + i] # LF,
         a + s <= K => stream[a + s] = LF
  PROVE  LineLength(a) = IF a + s <= K THEN s ELSE K - a
<1>. DEFINE ends == {n \in 1 .. Len(stream) - a : stream[a + n] = LF}
<1>1. ends = {n \in 1 .. K - a : stream[a + n] = LF}
  OBVIOUS
<1>2. CASE a + s <= K
  <2>1. s \in ends /\ \A m \in ends : s <= m
    <3>1. s \in 1 .. K - a /\ stream[a + s] = LF
      BY <1>2
    <3>2. ASSUME NEW m \in ends PROVE s <= m
      <4>1. m \in 1 .. K - a /\ stream[a + m] = LF
        BY <1>1
      <4>2. a + m <= K
        BY <4>1
      <4>. QED  BY <4>1, <4>2
    <3>. QED  BY <1>1, <3>1, <3>2
  <2>2. ends \subseteq Nat
    BY <1>1
  <2>3. ends # {}
    BY <2>1
  <2>4. LineLength(a) = CHOOSE n \in ends : \A m \in ends : n <= m
    BY <2>3, Zenon DEF LineLength
  <2>. HIDE DEF ends
  <2>5. \A n \in ends : (\A m \in ends : n <= m) => n = s
    BY <2>1, <2>2
  <2>6. (CHOOSE n \in ends : \A m \in ends : n <= m) = s
    BY <2>1, <2>5
  <2>. QED  BY <1>2, <2>4, <2>6
<1>3. CASE ~(a + s <= K)
  <2>1. ends = {}
    <3>1. SUFFICES ASSUME NEW m \in ends PROVE FALSE
      OBVIOUS
    <3>2. m \in 1 .. K - a /\ stream[a + m] = LF
      BY <1>1
    <3>3. m \in 1 .. s - 1 /\ a + m <= K
      BY <1>3, <3>2
    <3>. QED  BY <3>2, <3>3
  <2>2. LineLength(a) = Len(stream) - a
    BY <2>1, Zenon DEF LineLength
  <2>. QED  BY <1>3, <2>2
<1>. QED  BY <1>2, <1>3

\* strings.TrimRight takes the line end off, however much of it there is.
LEMMA TrimIs ==
  ASSUME NEW t, NEW T \in Nat, Len(t) = T, NEW m \in 0 .. T,
         m # 0 => t[m] \notin {CR, LF},
         \A i \in m + 1 .. T : t[i] \in {CR, LF}
  PROVE  TrimEnd(t) = SubSeq(t, 1, m)
<1>. DEFINE I == {i \in 1 .. Len(t) : t[i] # CR /\ t[i] # LF}
<1>1. I = {i \in 1 .. T : t[i] # CR /\ t[i] # LF}
  OBVIOUS
<1>2. TrimEnd(t) = SubSeq(t, 1, IF I # {} THEN Max(I) ELSE 0)
  BY Zenon DEF TrimEnd, SelectLastInSeq
<1>3. \A i \in I : i \in Nat /\ i <= m
  BY <1>1
<1>4. CASE m = 0
  <2>1. I = {}
    BY <1>1, <1>4
  <2>. QED  BY <1>2, <1>4, <2>1
<1>5. CASE m # 0
  <2>1. m \in I
    BY <1>1, <1>5
  <2>. HIDE DEF I
  <2>2. Max(I) = m
    <3>1. Max(I) = CHOOSE x \in I : \A y \in I : x >= y
      BY Zenon DEF Max
    <3>2. \A y \in I : m >= y
      BY <1>3
    <3>3. \A x \in I : (\A y \in I : x >= y) => x = m
      BY <1>3, <2>1
    <3>. QED  BY <2>1, <3>1, <3>2, <3>3
  <2>. QED  BY <1>2, <2>1, <2>2
<1>. QED  BY <1>4, <1>5

\* strings.TrimSpace leaves alone what neither begins nor ends with white space.
LEMMA TrimSpaceIs ==
  ASSUME NEW t, Text(t), NEW T \in Nat, Len(t) = T,
         T # 0 => t[1] \notin {CR, LF} /\ t[T] \notin {CR, LF}
  PROVE  TrimSpace(t) = t
<1>. DEFINE I == {i \in 1 .. Len(t) : t[i] # CR /\ t[i] # LF}
<1>1. I = {i \in 1 .. T : t[i] # CR /\ t[i] # LF}
  OBVIOUS
<1>2. PICK first : /\ first = (IF I # {} THEN Min(I) ELSE 0)
                   /\ TrimSpace(t) = IF first = 0 THEN <<>> ELSE TrimEnd(SubSeq(t, first, Len(t)))
  BY Zenon DEF TrimSpace, SelectInSeq
<1>3. CASE T = 0
  <2>1. I = {} /\ t = <<>>
    BY <1>1, <1>3 DEF Text
  <2>. QED  BY <1>2, <2>1
<1>4. CASE T # 0
  <2>1. 1 \in I /\ \A i \in I : i \in Nat /\ 1 <= i
    BY <1>1, <1>4
  <2>2. Min(I) = 1
    <3>. HIDE DEF I
    <3>. QED  BY <2>1 DEF Min
  <2>3. SubSeq(t, 1, Len(t)) = t
    BY SubSeqFull DEF Text
  <2>4. TrimEnd(t) = SubSeq(t, 1, T)
    <3>1. T \in 0 .. T /\ \A i \in T + 1 .. T : t[i] \in {CR, LF}
      OBVIOUS
    <3>. QED  BY <1>4, <3>1, TrimIs
  <2>5. SubSeq(t, 1, T) = t
    BY <2>3
  <2>6. first = 1
    <3>1. I # {}
      BY <2>1
    <3>. HIDE DEF I
    <3>. QED  BY <1>2, <2>2, <3>1
  <2>7. TrimSpace(t) = TrimEnd(SubSeq(t, 1, Len(t)))
    BY <1>2, <2>6
  <2>. QED  BY <2>3, <2>4, <2>5, <2>7, Zenon
<1>. QED  BY <1>3, <1>4

\* The size is what stands before the first semicolon.
LEMMA ChunkSizeIs ==
  ASSUME NEW l, Text(l), NEW K \in Nat, Len(l) = K, NEW m \in 0 .. K,
         \A i \in 1 .. m : l[i] # Semicolon,
         m < K => l[m + 1] = Semicolon
  PROVE  ChunkSize(l) = Hex(TrimSpace(SubSeq(l, 1, m)))
<1>. DEFINE I == {i \in 1 .. Len(l) : l[i] = Semicolon}
            semi == IF I # {} THEN Min(I) ELSE 0
<1>1. I = {i \in 1 .. K : l[i] = Semicolon}
  OBVIOUS
<1>2. ChunkSize(l) = Hex(TrimSpace(IF semi = 0 THEN l ELSE SubSeq(l, 1, semi - 1)))
  BY Zenon DEF ChunkSize, Before, SelectInSeq
<1>3. \A i \in I : i \in Nat /\ m + 1 <= i
  BY <1>1
<1>4. CASE m = K
  <2>1. I = {}
    BY <1>1, <1>4
  <2>2. SubSeq(l, 1, Len(l)) = l
    BY SubSeqFull DEF Text
  <2>. QED  BY <1>2, <1>4, <2>1, <2>2
<1>5. CASE m # K
  <2>1. m + 1 \in I
    BY <1>1, <1>5
  <2>2. semi = m + 1
    <3>. HIDE DEF I
    <3>1. Min(I) = m + 1
      BY <1>3, <2>1 DEF Min
    <3>. QED  BY <2>1, <3>1
  <2>3. semi # 0 /\ semi - 1 = m
    BY <2>2
  <2>. HIDE DEF semi
  <2>. QED  BY <1>2, <2>3, Zenon
<1>. QED  BY <1>4, <1>5

\* What is read behind the first a bytes of a line of s in a stream f: all of it or
\* as much as arrives, and m bytes without the line end.
LineAs(f, a, s, r, m) ==
  /\ LineLength(a) = r /\ r = (IF a + s <= Len(stream) THEN s ELSE Len(stream) - a)
  /\ m = Smaller(r, s - 2) /\ Text(Line(a)) /\ Len(Line(a)) = m
  /\ \A i \in 1 .. m : Line(a)[i] = f[a + i]

LEMMA LineRead ==
  ASSUME Text(stream), NEW f, NEW a \in Nat, NEW s \in Nat, s >= 2, a <= Len(stream),
         \A i \in 1 .. s - 2 : f[a + i] \notin {CR, LF},
         f[a + s - 1] = CR, f[a + s] = LF,
         \A i \in 1 .. s : a + i <= Len(stream) => stream[a + i] = f[a + i]
  PROVE  \E r, m \in Nat : LineAs(f, a, s, r, m)
<1>1. PICK K \in Nat : K = Len(stream)
  BY DEF Text
<1>3. /\ \A i \in 1 .. s - 2 : f[a + i] \notin {CR, LF}
      /\ f[a + s - 1] = CR /\ f[a + s] = LF
  OBVIOUS
<1>4. a <= K /\ \A i \in 1 .. s : a + i <= K => stream[a + i] = f[a + i]
  BY <1>1, Zenon
<1>5. PICK r \in Nat : r = (IF a + s <= K THEN s ELSE K - a)
  <2>1. a <= K
    BY <1>4
  <2>2. K - a \in Nat
    BY <2>1
  <2>3. (IF a + s <= K THEN s ELSE K - a) \in Nat
    BY <2>2, Zenon
  <2>. QED  BY <2>3, Zenon
<1>6. r <= s /\ a + r <= K /\ (r # s => a + r = K)
  BY <1>4, <1>5
<1>7. ASSUME NEW i \in 1 .. r PROVE stream[a + i] = f[a + i]
  <2>1. i \in 1 .. s /\ a + i <= K
    BY <1>6
  <2>. QED  BY <1>4, <2>1, Zenon
<1>8. LineLength(a) = r
  <2>1. a \in 0 .. K /\ s # 0
    BY <1>4
  <2>2. ASSUME NEW i \in 1 .. s - 1, a + i <= K PROVE stream[a + i] # LF
    <3>0. i \in 1 .. s
      OBVIOUS
    <3>1. stream[a + i] = f[a + i]
      BY <1>4, <2>2, <3>0, Zenon
    <3>2. CASE i \in 1 .. s - 2
      BY <1>3, <3>1, <3>2
    <3>3. CASE i = s - 1
      <4>1. a + s - 1 = a + i
        BY <3>3
      <4>2. f[a + i] = CR
        BY <1>3, <4>1
      <4>. QED  BY <3>1, <4>2, Distinct
    <3>. QED  BY <3>2, <3>3
  <2>3. a + s <= K => stream[a + s] = LF
    <3>1. s \in 1 .. s
      BY <2>1
    <3>. QED  BY <1>3, <1>4, <3>1
  <2>4. LineLength(a) = IF a + s <= K THEN s ELSE K - a
    BY <1>1, <2>1, <2>2, <2>3, LineLengthIs
  <2>. QED  BY <1>5, <2>4, Zenon
<1>9. PICK t : /\ t = SubSeq(stream, a + 1, a + r) /\ Text(t) /\ Len(t) = r
               /\ \A i \in 1 .. r : t[i] = f[a + i]
  <2>1. stream \in Seq(Symbol) /\ a + 1 \in 1 .. K + 1 /\ a + r \in a .. K
    BY <1>4, <1>6 DEF Text
  <2>2. PICK t : t = SubSeq(stream, a + 1, a + r)
    OBVIOUS
  <2>3. t \in Seq(Symbol) /\ Len(t) = r /\ \A i \in 1 .. r : t[i] = stream[a + i]
    BY <1>1, <1>6, <2>1, <2>2
  <2>. QED  BY <1>7, <2>2, <2>3 DEF Text
<1>10. PICK m \in Nat : m = Smaller(r, s - 2)
  BY DEF Smaller
<1>11. m <= r /\ m <= s - 2 /\ (m # r => m = s - 2)
  BY <1>10 DEF Smaller
<1>12. Line(a) = SubSeq(t, 1, m)
  <2>1. m # 0 => t[m] \notin {CR, LF}
    <3>1. m # 0 => m \in 1 .. r /\ m \in 1 .. s - 2
      BY <1>11
    <3>. QED  BY <1>3, <1>9, <3>1
  <2>2. ASSUME NEW i \in m + 1 .. r PROVE t[i] \in {CR, LF}
    <3>1. i \in 1 .. r /\ (i = s - 1 \/ i = s)
      BY <1>6, <1>11
    <3>2. a + s - 1 = a + (s - 1)
      OBVIOUS
    <3>. QED  BY <1>3, <1>9, <3>1, <3>2
  <2>3. m \in 0 .. r
    BY <1>11
  <2>4. TrimEnd(t) = SubSeq(t, 1, m)
    <3>1. Len(t) = r
      BY <1>9
    <3>. QED  BY <2>1, <2>2, <2>3, <3>1, TrimIs
  <2>5. Line(a) = TrimEnd(t)
    BY <1>8, <1>9, Zenon DEF Line
  <2>. QED  BY <2>4, <2>5
<1>13. PICK l : /\ l = Line(a) /\ Text(l) /\ Len(l) = m
                /\ \A i \in 1 .. m : l[i] = f[a + i]
  <2>1. PICK l : l = SubSeq(t, 1, m)
    OBVIOUS
  <2>2. t \in Seq(Symbol) /\ m \in 0 .. Len(t)
    BY <1>9, <1>11 DEF Text
  <2>3. l \in Seq(Symbol) /\ Len(l) = m /\ \A i \in 1 .. m : l[i] = t[i]
    BY <2>1, <2>2, FirstOf
  <2>4. ASSUME NEW i \in 1 .. m PROVE l[i] = f[a + i]
    <3>1. i \in 1 .. r
      BY <1>11
    <3>. QED  BY <1>9, <2>3, <3>1, Zenon
  <2>. QED  BY <1>12, <2>1, <2>3, <2>4 DEF Text
<1>14. LineAs(f, a, s, r, m)
  BY <1>1, <1>5, <1>8, <1>10, <1>13, Zenon DEF LineAs
<1>. QED  BY <1>14

\* A size line is read as its digits, or as many of them as arrive.
SizeAs(a, s, d, r, m) ==
  /\ LineLength(a) = r /\ r = (IF a + s <= Len(stream) THEN s ELSE Len(stream) - a)
  /\ m = Smaller(r, Len(d)) /\ ChunkSize(Line(a)) = Hex(SubSeq(d, 1, m))

LEMMA SizeRead ==
  ASSUME Text(stream), NEW u, NEW f, NEW n, NEW a \in Nat, NEW s \in Nat,
         NEW d \in Seq(0 .. 15), LineOf(u, f, n, a, s, d), a <= Len(stream),
         \A i \in 1 .. s : a + i <= Len(stream) => stream[a + i] = f[a + i]
  PROVE  \E r, m \in Nat : SizeAs(a, s, d, r, m)
<1>2. PICK D \in Nat : D = Len(d) /\ D # 0 /\ D + 2 <= s
  BY DEF LineOf
<1>3. /\ \A i \in 1 .. D : f[a + i] = d[i]
      /\ D + 2 < s => f[a + D + 1] = Semicolon
      /\ \A i \in 1 .. s - 2 : f[a + i] \notin {CR, LF}
      /\ f[a + s - 1] = CR /\ f[a + s] = LF
  BY <1>2, Zenon DEF LineOf
<1>4. PICK r, m \in Nat : LineAs(f, a, s, r, m)
  <2>1. s >= 2
    BY <1>2
  <2>. QED  BY <1>3, <2>1, LineRead
<1>5. PICK l : /\ l = Line(a) /\ Text(l) /\ Len(l) = m
               /\ \A i \in 1 .. m : l[i] = f[a + i]
  BY <1>4, Zenon DEF LineAs
<1>6. m = Smaller(r, s - 2)
  BY <1>4, Zenon DEF LineAs
<1>7. m <= r /\ m <= s - 2 /\ (m # r => m = s - 2)
  BY <1>2, <1>6 DEF Smaller
<1>8. PICK p \in Nat : p = Smaller(r, D) /\ p <= m /\ p <= D /\ (p < m => p = D /\ D + 2 < s)
  BY <1>2, <1>7 DEF Smaller
<1>9. ChunkSize(l) = Hex(TrimSpace(SubSeq(l, 1, p)))
  <2>1. ASSUME NEW i \in 1 .. p PROVE l[i] # Semicolon
    <3>1. i \in 1 .. m /\ i \in 1 .. D /\ i \in 1 .. Len(d)
      BY <1>2, <1>8
    <3>2. l[i] = d[i]
      BY <1>3, <1>5, <3>1
    <3>3. d[i] \in 0 .. 15
      BY <3>1
    <3>. QED  BY <3>2, <3>3, Distinct
  <2>2. p < m => l[p + 1] = Semicolon
    <3>1. SUFFICES ASSUME p < m PROVE l[p + 1] = Semicolon
      OBVIOUS
    <3>2. p = D /\ p + 1 \in 1 .. m /\ a + D + 1 = a + (p + 1) /\ D + 2 < s
      BY <1>8, <3>1
    <3>. QED  BY <1>3, <1>5, <3>2
  <2>3. p \in 0 .. m /\ Text(l) /\ Len(l) = m
    BY <1>5, <1>8
  <2>. QED  BY <2>1, <2>2, <2>3, ChunkSizeIs
<1>10. TrimSpace(SubSeq(l, 1, p)) = SubSeq(d, 1, p)
  <2>1. PICK x, y : x = SubSeq(l, 1, p) /\ y = SubSeq(d, 1, p)
    OBVIOUS
  <2>2. l \in Seq(Symbol) /\ p \in 0 .. Len(l) /\ p \in 0 .. Len(d)
    BY <1>2, <1>5, <1>8 DEF Text
  <2>3. x \in Seq(Symbol) /\ Len(x) = p /\ \A i \in 1 .. p : x[i] = l[i]
    BY <2>1, <2>2, FirstOf
  <2>4. y \in Seq(0 .. 15) /\ Len(y) = p /\ \A i \in 1 .. p : y[i] = d[i]
    BY <2>1, <2>2, FirstOf
  <2>5. ASSUME NEW i \in 1 .. p PROVE l[i] = d[i]
    <3>1. i \in 1 .. m /\ i \in 1 .. D
      BY <1>8
    <3>. QED  BY <1>3, <1>5, <3>1, Zenon
  <2>6. \A i \in 1 .. p : x[i] = y[i]
    BY <2>3, <2>4, <2>5
  <2>7. x = y
    BY <2>3, <2>4, <2>6
  <2>8. TrimSpace(x) = x
    <3>1. p # 0 => x[1] \notin {CR, LF} /\ x[p] \notin {CR, LF}
      <4>1. \A i \in 1 .. p : y[i] \in 0 .. 15
        BY ONLY <2>4
      <4>2. \A i \in 1 .. p : x[i] \in Nat
        BY ONLY <4>1, <2>7
      <4>. QED  BY <2>3, <4>2, Distinct
    <3>. QED  BY <2>3, <3>1, TrimSpaceIs DEF Text
  <2>. QED  BY <2>1, <2>7, <2>8
<1>11. LineLength(a) = r /\ r = (IF a + s <= Len(stream) THEN s ELSE Len(stream) - a)
  BY <1>4, Zenon DEF LineAs
<1>12. SizeAs(a, s, d, r, p)
  BY <1>2, <1>5, <1>8, <1>9, <1>10, <1>11, Zenon DEF SizeAs
<1>. QED  BY <1>12

-----------------------------------------------------------------------------
(***************************************************************************)
(* The invariant                                                           *)
(***************************************************************************)

\* Where the bytes of the n-th chunk end in the stream.
End(u, n) == IF n = 0 THEN 0 ELSE At(u, n) - 2

\* What arrives is what was sent, up to where it is cut and but for a byte of the
\* object or of the framing between size lines.
Arrived ==
  /\ upload \in Uploads /\ fault \in {"none", "cut", "damage", "framing"}
  /\ Text(stream) /\ Len(stream) <= Len(Frame(upload))
  /\ fault # "cut" => Len(stream) = Len(Frame(upload))
  /\ \A i \in 1 .. Len(stream) :
       \/ stream[i] = Frame(upload)[i]
       \/ fault = "damage" /\ i \in DataAt(upload) /\ stream[i] \in Noise
       \/ fault = "framing" /\ i \notin DataAt(upload) /\ i \notin SizesAt(upload)

\* What is decoded is the beginning of the object.
Decoded ==
  /\ Text(out) /\ Len(out) <= Len(Content(upload))
  /\ \A i \in 1 .. Len(out) :
       out[i] = Content(upload)[i] \/ (fault = "damage" /\ out[i] \in Noise)

\* The reader has begun n chunks and has remain bytes of the last to read.
Track(n) ==
  /\ started = (n > 0)
  /\ pos + remain = End(upload, n)
  /\ n > 0 => remain <= Len(upload.chunks[n])
  /\ n = 0 => remain = 0
  /\ Len(out) + remain = Len(Held(upload, n))

\* The reader waits for bytes that do not come, after a size that may be cut.
Lost == fault = "cut" /\ pos = Len(stream) /\ remain > 0

Reading == status = "reading" =>
  Lost \/ \E n \in 0 .. Len(upload.chunks) : Track(n)

\* The last chunk has been found where it was sent, or what is left of a padded size.
Ended == status \in {"whole", "accepted", "BadDigest"} =>
  /\ (fault = "cut" /\ Padded(upload)) \/ Len(out) = Len(Content(upload))
  /\ fault \in {"none", "damage"} =>
       trailer = IF upload.asserts = "trailer" THEN <<First, Second>> ELSE <<>>

\* What an answer says of the body.
Judged ==
  /\ status = "failed" => fault \in {"cut", "framing"}
  /\ status = "BadDigest" => fault # "none"

\* The invariant of the bodies whose size lines arrive, and the one of all bodies.
BInv == TypeOK /\ Arrived /\ Decoded /\ Reading /\ Ended /\ Judged

AnyInv ==
  /\ TypeOK /\ Text(stream) /\ Text(out)
  /\ status = "accepted" => Matches
  /\ fault # "size" => BInv

\* An undamaged stream has all the frame, and its parts behind each other.
LEMMA NotCut ==
  ASSUME Arrived
  PROVE  /\ \E N, e, t \in Nat : Ends(upload, Frame(upload), N, e, t)
         /\ DataEnd(upload) \in Nat /\ Len(stream) \in Nat
         /\ fault # "cut" => DataEnd(upload) + 2 <= Len(stream)
<1>1. PICK f : f = Frame(upload) /\ upload \in Uploads
  BY DEF Arrived
<1>2. PICK N, e, t \in Nat : Ends(upload, f, N, e, t)
  BY <1>1, FrameIs
<1>3. e = DataEnd(upload) /\ Len(f) = e + t + 2
  BY <1>2, Zenon DEF Ends
<1>4. Len(stream) \in Nat
  BY DEF Arrived, Text
<1>5. fault # "cut" => Len(stream) = e + t + 2
  BY <1>1, <1>3, Zenon DEF Arrived
<1>6. fault # "cut" => e + 2 <= Len(stream)
  BY <1>5
<1>. QED  BY <1>1, <1>2, <1>3, <1>4, <1>6, Zenon

\* What is no byte of the object arrives as it was sent, unless the framing is
\* damaged elsewhere than in a size line.
LEMMA FramingArrives ==
  ASSUME Arrived, NEW i \in 1 .. Len(stream), i \notin DataAt(upload),
         fault # "framing" \/ i \in SizesAt(upload)
  PROVE  stream[i] = Frame(upload)[i]
BY Zenon DEF Arrived

LEMMA LineArrives ==
  ASSUME Arrived, NEW n \in 1 .. Len(upload.chunks) + 1, NEW a \in Nat, NEW s \in Nat, NEW d,
         LineOf(upload, Frame(upload), n, a, s, d)
  PROVE  \A i \in 1 .. s : a + i <= Len(stream) => stream[a + i] = Frame(upload)[a + i]
<1>1. SUFFICES ASSUME NEW i \in 1 .. s, a + i <= Len(stream)
               PROVE  stream[a + i] = Frame(upload)[a + i]
  BY Zenon
<1>2. Len(stream) \in Nat
  BY NotCut
<1>3. PICK j : j = a + i /\ j \in 1 .. Len(stream) /\ j > a /\ j <= a + s
  BY <1>1, <1>2
<1>4. a = At(upload, n - 1) /\ s = Size(upload, n)
  BY Zenon DEF LineOf
<1>5. j \notin DataAt(upload)
  <2>1. SUFFICES ASSUME j \in DataAt(upload) PROVE FALSE
    OBVIOUS
  <2>2. upload \in Uploads
    BY DEF Arrived
  <2>3. j <= At(upload, n - 1) \/ j > At(upload, n - 1) + Size(upload, n)
    BY <2>1, <2>2, Apart
  <2>4. j <= a \/ j > a + s
    BY <1>4, <2>3, Zenon
  <2>. QED  BY <1>3, <2>4
<1>6. j \in SizesAt(upload)
  <2>1. upload \in Uploads
    BY DEF Arrived
  <2>2. n \in DOMAIN upload.sizes
    <3>1. upload.sizes \in Seq(Seq(0 .. 15)) /\ Len(upload.sizes) = Len(upload.chunks) + 1
      BY <2>1, UploadsType DEF UploadType
    <3>. QED  BY <3>1
  <2>3. j \in At(upload, n - 1) + 1 .. At(upload, n - 1) + Size(upload, n)
    <3>1. j \in a + 1 .. a + s
      BY <1>3
    <3>. QED  BY <1>4, <3>1, Zenon
  <2>. QED  BY <2>2, <2>3, Zenon DEF SizesAt, At, Size, Upto
<1>7. stream[j] = Frame(upload)[j]
  BY <1>3, <1>5, <1>6, FramingArrives
<1>. QED  BY <1>3, <1>7, Zenon

\* A blank line ends the trailers, and a line that names one is the only one there.
LEMMA TrailerNone ==
  ASSUME NEW p \in Nat, Line(p) = <<>>
  PROVE  TrailerAt(p) = <<>>
<1>. DEFINE lines == {p} \cup {n \in p + 1 .. Len(stream) : stream[n] = LF}
<1>1. p \in lines /\ \A n \in lines : p <= n
  BY Zenon, SMT
<1>2. TrailerLines(p) = {n \in lines : \A m \in lines : m <= n => Line(m) # <<>>}
  BY DEF TrailerLines
<1>3. TrailerLines(p) = {}
  <2>. HIDE DEF lines
  <2>. QED  BY <1>1, <1>2
<1>4. Naming(p) = {}
  BY <1>3, Zenon DEF Naming
<1>. QED  BY <1>4, Zenon DEF TrailerAt

LEMMA TrailerOne ==
  ASSUME NEW K, K = Len(stream), K \in Nat, NEW p \in Nat, p + 8 = K,
         \A i \in 1 .. 5 : stream[p + i] # LF, stream[p + 6] = LF,
         NEW l, l = Line(p), l # <<>>, Line(p + 6) = <<>>,
         \E i \in DOMAIN l : l[i] = Colon, TrimSpace(Before(l, Colon)) = <<Name>>
  PROVE  TrailerAt(p) = TrimSpace(After(l, Colon))
<1>. DEFINE lines == {p} \cup {n \in p + 1 .. Len(stream) : stream[n] = LF}
<1>1. /\ p \in lines /\ p + 6 \in lines
      /\ \A n \in lines : n \in Nat /\ (n = p \/ n >= p + 6)
  <2>1. p + 6 \in p + 1 .. Len(stream)
    OBVIOUS
  <2>2. ASSUME NEW n \in lines, n # p PROVE n \in Nat /\ n >= p + 6
    <3>1. n \in p + 1 .. Len(stream) /\ stream[n] = LF
      BY <2>2
    <3>2. n < p + 6 => n - p \in 1 .. 5 /\ p + (n - p) = n
      BY <3>1
    <3>. QED  BY <3>1, <3>2
  <2>. QED  BY <2>1, <2>2
<1>2. TrailerLines(p) = {n \in lines : \A m \in lines : m <= n => Line(m) # <<>>}
  BY DEF TrailerLines
<1>3. TrailerLines(p) = {p}
  <2>. HIDE DEF lines
  <2>1. \A m \in lines : m <= p => Line(m) # <<>>
    BY <1>1
  <2>2. \A n \in lines : n # p => p + 6 <= n /\ ~(Line(p + 6) # <<>>)
    BY <1>1
  <2>. QED  BY <1>1, <1>2, <2>1, <2>2
<1>4. Naming(p) = {p}
  BY <1>3 DEF Naming
<1>5. Max(Naming(p)) = p
  BY <1>4 DEF Max
<1>. QED  BY <1>4, <1>5 DEF TrailerAt

\* What is made of the line of a trailer.
LEMMA TrailerParts ==
  ASSUME NEW l, Text(l), Len(l) = 4,
         l[1] = Name, l[2] = Colon, l[3] = First, l[4] = Second
  PROVE  /\ l # <<>> /\ \E i \in DOMAIN l : l[i] = Colon
         /\ TrimSpace(Before(l, Colon)) = <<Name>>
         /\ TrimSpace(After(l, Colon)) = <<First, Second>>
<1>. DEFINE I == {i \in 1 .. Len(l) : l[i] = Colon}
            at == IF I # {} THEN Min(I) ELSE 0
<1>0. l \in Seq(Symbol)
  BY DEF Text
<1>1. at = 2
  <2>1. 2 \in I /\ \A i \in I : i \in Nat /\ 2 <= i
    <3>1. ASSUME NEW i \in I PROVE i \in Nat /\ 2 <= i
      <4>1. i \in 1 .. 4 /\ l[i] = Colon
        OBVIOUS
      <4>2. i # 1
        BY <4>1, Symbols
      <4>. QED  BY <4>1, <4>2
    <3>. QED  BY <3>1
  <2>2. Min(I) = 2
    <3>. HIDE DEF I
    <3>. QED  BY <2>1 DEF Min
  <2>. QED  BY <2>1, <2>2
<1>2. Before(l, Colon) = SubSeq(l, 1, 1) /\ After(l, Colon) = SubSeq(l, 3, 4)
  <2>1. /\ Before(l, Colon) = IF at = 0 THEN l ELSE SubSeq(l, 1, at - 1)
        /\ After(l, Colon) = SubSeq(l, at + 1, Len(l))
    BY Zenon DEF Before, After, SelectInSeq
  <2>. HIDE DEF at
  <2>. QED  BY <1>1, <2>1
<1>3. PICK b : b = SubSeq(l, 1, 1) /\ Text(b) /\ Len(b) = 1 /\ b[1] = Name
  <2>1. PICK b : b = SubSeq(l, 1, 1)
    OBVIOUS
  <2>2. 1 \in 0 .. Len(l) /\ 1 \in 1 .. 1
    OBVIOUS
  <2>3. b \in Seq(Symbol) /\ Len(b) = 1 /\ \A i \in 1 .. 1 : b[i] = l[i]
    BY <1>0, <2>1, <2>2, FirstOf
  <2>. QED  BY <2>1, <2>2, <2>3, Zenon DEF Text
<1>4. PICK a : a = SubSeq(l, 3, 4) /\ Text(a) /\ Len(a) = 2 /\ a[1] = First /\ a[2] = Second
  <2>1. PICK a : a = SubSeq(l, 2 + 1, 2 + 2)
    OBVIOUS
  <2>2. 2 \in Nat /\ 2 + 2 <= Len(l)
    OBVIOUS
  <2>3. a \in Seq(Symbol) /\ Len(a) = 2 /\ \A i \in 1 .. 2 : a[i] = l[2 + i]
    BY ONLY <1>0, <2>1, <2>2, MiddleOf
  <2>4. a[1] = l[3] /\ a[2] = l[4]
    <3>1. 1 \in 1 .. 2 /\ 2 \in 1 .. 2 /\ 2 + 1 = 3 /\ 2 + 2 = 4
      OBVIOUS
    <3>. QED  BY ONLY <2>3, <3>1
  <2>5. a = SubSeq(l, 3, 4)
    BY <2>1
  <2>. QED  BY <2>3, <2>4, <2>5 DEF Text
<1>5. TrimSpace(b) = b /\ b = <<Name>>
  <2>1. PICK T \in Nat : T = 1 /\ Len(b) = T /\ b[1] \notin {CR, LF} /\ b[T] \notin {CR, LF}
    BY <1>3, Distinct
  <2>2. TrimSpace(b) = b
    BY <1>3, <2>1, TrimSpaceIs
  <2>3. b \in Seq(Symbol) /\ Len(b) = 1 /\ b[1] = Name
    BY <1>3 DEF Text
  <2>. QED  BY ONLY <2>2, <2>3
<1>6. TrimSpace(a) = a /\ a = <<First, Second>>
  <2>1. PICK T \in Nat : T = 2 /\ Len(a) = T /\ a[1] \notin {CR, LF} /\ a[T] \notin {CR, LF}
    BY <1>4, Distinct
  <2>2. TrimSpace(a) = a
    BY <1>4, <2>1, TrimSpaceIs
  <2>3. a \in Seq(Symbol) /\ Len(a) = 2 /\ a[1] = First /\ a[2] = Second
    BY <1>4 DEF Text
  <2>. QED  BY ONLY <2>2, <2>3
<1>7. l # <<>> /\ 2 \in DOMAIN l
  BY <1>0
<1>. QED  BY <1>2, <1>3, <1>4, <1>5, <1>6, <1>7

\* A trailer that arrives as it was sent is read whole.
LEMMA TrailerRead ==
  ASSUME Arrived, NEW p \in Nat, p <= Len(stream)
  PROVE  fault \in {"none", "damage"} /\ p = DataEnd(upload) =>
           TrailerAt(p) = IF upload.asserts = "trailer" THEN <<First, Second>> ELSE <<>>
<1>. SUFFICES ASSUME fault \in {"none", "damage"}, p = DataEnd(upload)
              PROVE  TrailerAt(p) = IF upload.asserts = "trailer" THEN <<First, Second>> ELSE <<>>
  OBVIOUS
<1>1. PICK g : g = Frame(upload) /\ upload \in Uploads
  BY DEF Arrived
<1>2. PICK N, e, t \in Nat : Ends(upload, g, N, e, t)
  BY <1>1, NotCut
<1>3. Text(stream)
  BY DEF Arrived
<1>4. PICK K \in Nat : K = Len(stream) /\ K = p + t + 2 /\ p = e
  <2>1. Len(stream) \in Nat
    BY NotCut
  <2>2. e = DataEnd(upload) /\ Len(g) = e + t + 2
    BY <1>2, Zenon DEF Ends
  <2>3. Len(stream) = e + t + 2
    BY <1>1, <2>2, Zenon DEF Arrived
  <2>. QED  BY <2>1, <2>2, <2>3, Zenon
<1>5. ASSUME NEW i \in Nat, i # 0, p + i <= K PROVE stream[p + i] = g[p + i]
  <2>1. PICK j : j = p + i /\ j \in 1 .. Len(stream) /\ ~(j <= DataEnd(upload))
    BY <1>4, <1>5
  <2>2. j \notin DataAt(upload)
    BY <1>1, <2>1, Apart
  <2>3. stream[j] = g[j]
    BY <1>1, <2>1, <2>2, FramingArrives
  <2>. QED  BY <2>1, <2>3, Zenon
<1>6. ASSUME NEW a \in Nat, a + 2 = K, a >= p, g[a + 1] = CR, g[a + 2] = LF
      PROVE  Line(a) = <<>>
  <2>1. /\ \A i \in 1 .. 2 - 2 : g[a + i] \notin {CR, LF}
        /\ g[a + 2 - 1] = CR /\ g[a + 2] = LF
    <3>1. a + 2 - 1 = a + 1 /\ 1 .. 2 - 2 = {}
      OBVIOUS
    <3>. QED  BY <1>6, <3>1
  <2>2. ASSUME NEW i \in 1 .. 2, a + i <= Len(stream) PROVE stream[a + i] = g[a + i]
    <3>1. PICK k \in Nat : k # 0 /\ p + k = a + i /\ p + k <= K
      <4>1. a + i - p \in Nat /\ a + i - p # 0 /\ p + (a + i - p) = a + i
        BY <1>6
      <4>. QED  BY <1>4, <2>2, <4>1
    <3>. QED  BY <1>5, <3>1, Zenon
  <2>3. a <= Len(stream) /\ 2 \in Nat /\ 2 >= 2
    BY <1>4, <1>6
  <2>4. PICK r, m \in Nat : LineAs(g, a, 2, r, m)
    BY <1>3, <2>1, <2>2, <2>3, LineRead, Zenon
  <2>5. m = Smaller(r, 2 - 2) /\ Len(Line(a)) = m /\ Text(Line(a))
    BY <2>4, Zenon DEF LineAs
  <2>6. m = 0
    BY <2>5 DEF Smaller
  <2>7. PICK l : l = Line(a) /\ l \in Seq(Symbol) /\ Len(l) = 0
    BY <2>5, <2>6 DEF Text
  <2>8. l = <<>>
    BY <2>7
  <2>. QED  BY <2>7, <2>8
<1>7. CASE upload.asserts = "trailer"
  <2>1. /\ t = 6 /\ g[e + 1] = Name /\ g[e + 2] = Colon /\ g[e + 3] = First
        /\ g[e + 4] = Second /\ g[e + 5] = CR /\ g[e + 6] = LF
        /\ g[e + t + 1] = CR /\ g[e + t + 2] = LF
    BY <1>2, <1>7, Zenon DEF Ends
  <2>2. ASSUME NEW i \in 1 .. 6 - 2 PROVE g[p + i] \notin {CR, LF}
    <3>1. i = 1 \/ i = 2 \/ i = 3 \/ i = 4
      OBVIOUS
    <3>. QED  BY <1>4, <2>1, <3>1, Distinct
  <2>3. g[p + 6 - 1] = CR /\ g[p + 6] = LF
    <3>1. p + 6 - 1 = e + 5
      BY <1>4
    <3>. QED  BY <1>4, <2>1, <3>1
  <2>4. \A i \in 1 .. 6 : p + i <= Len(stream) => stream[p + i] = g[p + i]
    BY <1>4, <1>5
  <2>5. PICK r, m \in Nat : LineAs(g, p, 6, r, m)
    <3>1. 6 \in Nat /\ 6 >= 2
      OBVIOUS
    <3>. QED  BY <1>3, <2>2, <2>3, <2>4, <3>1, LineRead, Zenon
  <2>6. /\ r = (IF p + 6 <= Len(stream) THEN 6 ELSE Len(stream) - p)
        /\ m = Smaller(r, 6 - 2) /\ Len(Line(p)) = m /\ Text(Line(p))
        /\ \A i \in 1 .. m : Line(p)[i] = g[p + i]
    BY <2>5, Zenon DEF LineAs
  <2>7. m = 4
    <3>1. r = 6
      <4>1. r = (IF p + 6 <= Len(stream) THEN 6 ELSE Len(stream) - p)
        BY <2>6, Zenon
      <4>2. p + 6 <= Len(stream)
        BY <1>4, <2>1
      <4>. QED  BY <4>1, <4>2, Zenon
    <3>2. m = Smaller(r, 6 - 2)
      BY <2>6, Zenon
    <3>. QED  BY <3>1, <3>2 DEF Smaller
  <2>8. PICK l : /\ l = Line(p) /\ Len(l) = 4 /\ Text(l)
                 /\ l[1] = Name /\ l[2] = Colon /\ l[3] = First /\ l[4] = Second
    <3>1. PICK l : l = Line(p)
      OBVIOUS
    <3>2. Len(l) = 4 /\ Text(l) /\ \A i \in 1 .. 4 : l[i] = g[e + i]
      BY <1>4, <2>6, <2>7, <3>1, Zenon
    <3>3. l[1] = Name /\ l[2] = Colon /\ l[3] = First /\ l[4] = Second
      BY <2>1, <3>2
    <3>. QED  BY <3>1, <3>2, <3>3
  <2>9. /\ l # <<>> /\ \E i \in DOMAIN l : l[i] = Colon
        /\ TrimSpace(Before(l, Colon)) = <<Name>>
        /\ TrimSpace(After(l, Colon)) = <<First, Second>>
    BY <2>8, TrailerParts
  <2>10. Line(p + 6) = <<>>
    <3>1. PICK a \in Nat : a = p + 6 /\ a + 2 = K /\ a >= p
      BY <1>4, <2>1
    <3>2. e + t + 1 = a + 1 /\ e + t + 2 = a + 2
      BY <1>4, <2>1, <3>1
    <3>3. g[a + 1] = CR /\ g[a + 2] = LF
      BY <2>1, <3>2
    <3>. QED  BY <1>6, <3>1, <3>3
  <2>11. p + 8 = K
    BY <1>4, <2>1
  <2>12. ASSUME NEW i \in 1 .. 5 PROVE stream[p + i] # LF
    <3>1. stream[p + i] = g[p + i]
      BY <1>5, <2>11
    <3>2. CASE i = 5
      BY <1>4, <2>1, <3>1, <3>2, Distinct
    <3>3. CASE i # 5
      <4>1. i \in 1 .. 6 - 2
        BY <3>3
      <4>. QED  BY <2>2, <3>1, <4>1
    <3>. QED  BY <3>2, <3>3
  <2>13. stream[p + 6] = LF
    <3>1. stream[p + 6] = g[p + 6]
      BY <1>5, <2>11
    <3>. QED  BY <2>3, <3>1
  <2>14. TrailerAt(p) = TrimSpace(After(l, Colon))
    BY <1>4, <2>8, <2>9, <2>10, <2>11, <2>12, <2>13, TrailerOne
  <2>. QED  BY <1>7, <2>9, <2>14
<1>8. CASE upload.asserts # "trailer"
  <2>1. t = 0 /\ g[e + t + 1] = CR /\ g[e + t + 2] = LF
    BY <1>2, <1>8, Zenon DEF Ends
  <2>2. p + 2 = K /\ p >= p /\ e + t + 1 = p + 1 /\ e + t + 2 = p + 2
    BY <1>4, <2>1
  <2>3. g[p + 1] = CR /\ g[p + 2] = LF
    BY <2>1, <2>2
  <2>4. Line(p) = <<>>
    BY <1>6, <2>2, <2>3
  <2>. QED  BY <1>8, <2>4, TrailerNone
<1>. QED  BY <1>7, <1>8

\* The line end behind a chunk is there, unless it is damaged or the stream is cut
\* before its end.
LEMMA SeparatorRead ==
  ASSUME Arrived, NEW n \in 1 .. Len(upload.chunks), NEW p \in Nat,
         p + 2 = At(upload, n), p <= Len(stream)
  PROVE  \/ SeparatorAt(p) = 0 /\ fault \in {"cut", "framing"}
         \/ SeparatorAt(p) = At(upload, n) /\ At(upload, n) <= Len(stream)
<1>0. upload \in Uploads
  BY DEF Arrived
<1>1. PICK K \in Nat : K = Len(stream) /\ p <= K
  BY NotCut
<1>2. PICK c : c = CRLF /\ c \in Seq(Symbol) /\ Len(c) = 2 /\ c[1] = CR /\ c[2] = LF
  BY LineEndIs DEF Text
<1>3. PICK rest : /\ rest = Rest(p) /\ rest \in Seq(Symbol) /\ Len(rest) = K - p
                  /\ \A i \in 1 .. K - p : rest[i] = stream[p + i]
  <2>1. stream \in Seq(Symbol) /\ p + 1 \in 1 .. K + 1 /\ Len(stream) = K
    BY <1>1 DEF Arrived, Text
  <2>2. PICK rest : rest = SubSeq(stream, p + 1, K)
    OBVIOUS
  <2>3. p \in 0 .. Len(stream)
    BY <1>1
  <2>4. rest \in Seq(Symbol) /\ Len(rest) = K - p /\ \A i \in 1 .. K - p : rest[i] = stream[p + i]
    BY <2>1, <2>2, <2>3, LastOf
  <2>5. rest = Rest(p)
    BY <1>1, <2>2, Zenon DEF Rest
  <2>. QED  BY <2>4, <2>5
<1>4. /\ SeparatorAt(p) = IF IsPrefix(c, rest) THEN p + 2 ELSE 0
      /\ IsPrefix(c, rest) <=> Len(c) <= Len(rest) /\ SubSeq(c, 1, Len(c)) = SubSeq(rest, 1, Len(c))
  BY <1>2, <1>3, Zenon DEF SeparatorAt, IsPrefix
<1>5. CASE IsPrefix(c, rest)
  <2>1. 2 <= K - p
    BY <1>2, <1>3, <1>4, <1>5
  <2>2. p + 2 <= K
    BY <1>1, <2>1
  <2>. QED  BY <1>1, <1>4, <1>5, <2>2, Zenon
<1>6. CASE ~IsPrefix(c, rest)
  <2>1. SUFFICES ASSUME fault \notin {"cut", "framing"} PROVE IsPrefix(c, rest)
    BY <1>4, <1>6
  <2>2. PICK a, s, k \in Nat : Placed(upload, Frame(upload), n, a, s, k)
    BY <1>0, ChunkAt
  <2>3. /\ At(upload, n) = a + s + k + 2 /\ a + s + k + 2 <= DataEnd(upload)
        /\ Frame(upload)[a + s + k + 1] = CR /\ Frame(upload)[a + s + k + 2] = LF
    BY <2>2, Zenon DEF Placed
  <2>4. p = a + s + k
    <3>1. p + 2 = a + s + k + 2
      BY <2>3, Zenon
    <3>. QED  BY <3>1
  <2>5. PICK i, j : /\ i = p + 1 /\ j = p + 2 /\ i \in 1 .. Len(stream) /\ j \in 1 .. Len(stream)
                    /\ i = At(upload, n) - 1 /\ j = At(upload, n)
                    /\ Frame(upload)[i] = CR /\ Frame(upload)[j] = LF /\ p + 2 <= K
    <3>1. DataEnd(upload) + 2 <= K /\ DataEnd(upload) \in Nat
      BY <1>1, <2>1, NotCut, Zenon
    <3>2. p + 2 <= K
      BY <2>3, <2>4, <3>1
    <3>3. Frame(upload)[p + 1] = CR /\ Frame(upload)[p + 2] = LF
      BY <2>3, <2>4, Zenon
    <3>4. p + 1 = (p + 2) - 1 /\ p + 1 \in 1 .. K /\ p + 2 \in 1 .. K
      BY <3>2
    <3>5. p + 1 = At(upload, n) - 1
      BY <3>4, Zenon
    <3>. QED  BY <1>1, <3>2, <3>3, <3>4, <3>5, Zenon
  <2>6. i \notin DataAt(upload) /\ j \notin DataAt(upload)
    <3>1. ASSUME NEW x \in DataAt(upload) PROVE x # i /\ x # j
      <4>1. x \in Nat /\ (x < At(upload, n) - 1 \/ x > At(upload, n))
        BY <1>0, Apart
      <4>2. x < i \/ x > j
        BY <2>5, <4>1, Zenon
      <4>. QED  BY <2>5, <4>1, <4>2
    <3>. QED  BY <3>1
  <2>7. stream[p + 1] = CR /\ stream[p + 2] = LF
    <3>1. stream[i] = Frame(upload)[i] /\ stream[j] = Frame(upload)[j]
      BY <2>1, <2>5, <2>6, FramingArrives
    <3>. QED  BY <2>5, <3>1, Zenon
  <2>8. 2 <= K - p /\ rest[1] = CR /\ rest[2] = LF
    <3>1. 1 \in 1 .. K - p /\ 2 \in 1 .. K - p
      BY <1>1, <2>5
    <3>. QED  BY <1>3, <2>7, <3>1
  <2>9. SubSeq(c, 1, 2) = SubSeq(rest, 1, 2)
    <3>1. PICK x, y : x = SubSeq(c, 1, 2) /\ y = SubSeq(rest, 1, 2)
      OBVIOUS
    <3>2. x \in Seq(Symbol) /\ Len(x) = 2 /\ \A h \in 1 .. 2 : x[h] = c[h]
      <4>1. 2 \in 0 .. Len(c) /\ c \in Seq(Symbol)
        BY <1>2
      <4>. QED  BY <3>1, <4>1, FirstOf
    <3>3. y \in Seq(Symbol) /\ Len(y) = 2 /\ \A h \in 1 .. 2 : y[h] = rest[h]
      <4>1. 2 \in 0 .. Len(rest) /\ rest \in Seq(Symbol)
        BY <1>1, <1>3, <2>8
      <4>. QED  BY <3>1, <4>1, FirstOf
    <3>4. x[1] = y[1] /\ x[2] = y[2]
      BY <1>2, <2>8, <3>2, <3>3
    <3>5. x = y
      BY <3>2, <3>3, <3>4
    <3>. QED  BY <3>1, <3>5
  <2>10. Len(c) <= Len(rest)
    BY <1>2, <1>3, <2>8
  <2>. QED  BY <1>2, <1>4, <2>9, <2>10, Zenon
<1>. QED  BY <1>5, <1>6

\* What can become of a size that the reader comes to: a chunk begins, the body
\* ends, or the stream does.
Begins(n, size, next) ==
  /\ size = Len(upload.chunks[n]) /\ size \in Nat /\ size # 0
  /\ next + size = End(upload, n) /\ Len(out) + size = Len(Held(upload, n))

Finishes(size, next) ==
  size = 0 /\ next = DataEnd(upload) /\ Len(out) = Len(Content(upload))

Breaks(size, next) ==
  /\ fault = "cut" /\ next = Len(stream) /\ (size \in Nat \/ size = -1)
  /\ size = 0 => Padded(upload) \/ Len(out) = Len(Content(upload))

LEMMA NextSize ==
  ASSUME Arrived, Len(out) \in Nat, NEW n \in 0 .. Len(upload.chunks),
         Len(out) = Len(Held(upload, n)), NEW a \in Nat, a = At(upload, n), a <= Len(stream),
         NEW size, size = ChunkSize(Line(a)), NEW next, next = a + LineLength(a)
  PROVE  /\ next \in Nat /\ a <= next /\ next <= Len(stream)
         /\ \/ n + 1 \in 1 .. Len(upload.chunks) /\ Begins(n + 1, size, next)
            \/ Finishes(size, next)
            \/ Breaks(size, next)
<1>0. upload \in Uploads /\ Text(stream)
  BY DEF Arrived
<1>1. PICK N, K \in Nat : N = Len(upload.chunks) /\ K = Len(stream) /\ a <= K
  BY <1>0, UploadIs, NotCut
<1>2. PICK k \in 1 .. N + 1 : k = n + 1 /\ k - 1 = n /\ n \in 0 .. N
  BY <1>1
<1>3. PICK b, s \in Nat, d \in Seq(0 .. 15) : LineOf(upload, Frame(upload), k, b, s, d)
  BY <1>0, <1>1, LineAt
<1>4. /\ b = At(upload, k - 1) /\ s = Size(upload, k) /\ d = upload.sizes[k]
      /\ Len(d) \in Nat /\ Len(d) # 0 /\ Len(d) + 2 <= s
      /\ b + s <= DataEnd(upload) /\ (k = N + 1 => b + s = DataEnd(upload))
  BY <1>1, <1>3, Zenon DEF LineOf
<1>5. a = b
  BY <1>2, <1>4, Zenon
<1>6. LineOf(upload, Frame(upload), k, a, s, d)
  BY <1>3, <1>5
<1>7. \A i \in 1 .. s : a + i <= Len(stream) => stream[a + i] = Frame(upload)[a + i]
  BY <1>1, <1>6, LineArrives
<1>8. PICK r, m \in Nat : SizeAs(a, s, d, r, m)
  BY <1>0, <1>6, <1>7, SizeRead
<1>9. /\ LineLength(a) = r /\ r = (IF a + s <= K THEN s ELSE K - a)
      /\ m = Smaller(r, Len(d)) /\ size = Hex(SubSeq(d, 1, m))
  BY <1>1, <1>8, Zenon DEF SizeAs
<1>10. next = a + r
  BY <1>9, Zenon
<1>11. next \in Nat /\ a <= next /\ next <= K
  <2>1. r = (IF a + s <= K THEN s ELSE K - a)
    BY <1>9
  <2>. QED  BY <1>1, <1>10, <2>1
<1>12. k = N + 1 => Len(out) = Len(Content(upload))
  <2>1. SUFFICES ASSUME k = N + 1 PROVE Len(out) = Len(Content(upload))
    OBVIOUS
  <2>2. n = N
    BY <1>2, <2>1
  <2>3. Held(upload, N) = Content(upload)
    BY <1>0, <1>1, HeldIs
  <2>. QED  BY <2>2, <2>3, Zenon
<1>13. CASE a + s <= K
  <2>1. r = s /\ m = Len(d)
    <3>1. r = s
      BY <1>9, <1>13, Zenon
    <3>2. PICK f \in Nat : f = Len(d)
      BY <1>4, Zenon
    <3>3. m = Smaller(s, f) /\ f + 2 <= s
      BY <1>4, <1>9, <3>1, <3>2, Zenon
    <3>4. m = f
      BY <3>3 DEF Smaller
    <3>. QED  BY <3>1, <3>2, <3>4, Zenon
  <2>2. size = Hex(d)
    <3>1. SubSeq(d, 1, Len(d)) = d
      BY SubSeqFull
    <3>. QED  BY <1>9, <2>1, <3>1, Zenon
  <2>3. CASE k = N + 1
    <3>1. Hex(upload.sizes[N + 1]) = 0
      BY <1>0, <1>1, UploadIs
    <3>2. size = 0
      BY <1>4, <2>2, <2>3, <3>1, Zenon
    <3>3. next = DataEnd(upload)
      BY <1>4, <1>5, <1>10, <2>1, <2>3, Zenon
    <3>. QED  BY <1>1, <1>11, <1>12, <2>3, <3>2, <3>3 DEF Finishes
  <2>4. CASE k # N + 1
    <3>1. k \in 1 .. Len(upload.chunks)
      BY <1>1, <2>4
    <3>2. PICK x, y, c \in Nat : Placed(upload, Frame(upload), k, x, y, c)
      BY <1>0, <3>1, ChunkAt
    <3>3. /\ x = At(upload, k - 1) /\ y = Size(upload, k) /\ c = Len(upload.chunks[k]) /\ c # 0
          /\ At(upload, k) = x + y + c + 2
      BY <3>2, Zenon DEF Placed
    <3>4. x = a /\ y = s
      BY <1>4, <1>5, <3>3, Zenon
    <3>5. size = c
      <4>1. Hex(upload.sizes[k]) = Len(upload.chunks[k])
        BY <1>0, <3>1, UploadIs
      <4>. QED  BY <1>4, <2>2, <3>3, <4>1, Zenon
    <3>6. next + c = End(upload, k)
      <4>1. PICK t : t = At(upload, k) /\ t = a + s + c + 2
        BY <3>3, <3>4, Zenon
      <4>2. End(upload, k) = t - 2
        BY <1>2, <4>1 DEF End
      <4>3. next = a + s
        BY <1>10, <2>1
      <4>. QED  BY <4>1, <4>2, <4>3
    <3>7. Len(out) + c = Len(Held(upload, k))
      <4>1. PICK h, e \in Nat : HeldOf(upload, k, h, e)
        BY <1>0, <3>1, HeldIs
      <4>2. /\ h = Len(Held(upload, k - 1)) /\ e = Len(upload.chunks[k])
            /\ Len(Held(upload, k)) = h + e
        BY <4>1, Zenon DEF HeldOf
      <4>. QED  BY <1>2, <3>3, <4>2, Zenon
    <3>8. Begins(k, size, next)
      BY <3>3, <3>5, <3>6, <3>7, Zenon DEF Begins
    <3>. QED  BY <1>1, <1>2, <1>11, <3>1, <3>8, Zenon
  <2>. QED  BY <2>3, <2>4
<1>14. CASE ~(a + s <= K)
  <2>1. fault = "cut"
    <3>1. SUFFICES ASSUME fault # "cut" PROVE a + s <= K
      BY <1>14
    <3>2. DataEnd(upload) + 2 <= K /\ DataEnd(upload) \in Nat
      BY <1>1, <3>1, NotCut, Zenon
    <3>3. a + s <= DataEnd(upload)
      BY <1>4, <1>5, Zenon
    <3>. QED  BY <3>2, <3>3
  <2>2. next = K
    <3>1. r = K - a
      BY <1>9, <1>14, Zenon
    <3>. QED  BY <1>10, <3>1
  <2>3. PICK p : p = SubSeq(d, 1, m)
    OBVIOUS
  <2>4. m <= Len(d)
    <3>1. PICK D \in Nat : D = Len(d) /\ m = Smaller(r, D)
      BY <1>4, <1>9
    <3>2. m <= D
      BY <3>1 DEF Smaller
    <3>. QED  BY <3>1, <3>2, Zenon
  <2>5. p \in Seq(0 .. 15) /\ Len(p) = m /\ \A i \in 1 .. m : p[i] = d[i]
    <3>1. m \in 0 .. Len(d)
      BY <1>4, <2>4
    <3>. QED  BY <2>3, <3>1, FirstOf
  <2>6. size = Hex(p)
    BY <1>9, <2>3, Zenon
  <2>7. size \in Nat \/ size = -1
    <3>1. CASE p = <<>>
      BY <2>6, <3>1 DEF Hex
    <3>2. CASE p # <<>>
      BY <2>5, <2>6, <3>2, HexPositive
    <3>. QED  BY <3>1, <3>2
  <2>8. size = 0 => Padded(upload) \/ Len(out) = Len(Content(upload))
    <3>1. SUFFICES ASSUME size = 0, k # N + 1 PROVE Padded(upload)
      BY <1>12
    <3>2. p # <<>>
      <4>1. Hex(<<>>) # 0
        BY DEF Hex
      <4>. QED  BY <2>6, <3>1, <4>1
    <3>3. p[1] = 0
      BY <2>5, <2>6, <3>1, <3>2, HexPositive
    <3>4. m # 0
      BY <2>5, <3>2
    <3>5. d[1] = 0
      BY <2>5, <3>3, <3>4
    <3>6. k \in DOMAIN upload.chunks
      <4>1. DOMAIN upload.chunks = 1 .. N
        BY <1>0, <1>1, UploadIs
      <4>. QED  BY <3>1, <4>1
    <3>. QED  BY <1>4, <3>5, <3>6, Zenon DEF Padded
  <2>. QED  BY <1>1, <1>11, <2>1, <2>2, <2>7, <2>8 DEF Breaks
<1>. QED  BY <1>13, <1>14

\* One byte of a text read as another.
Struck(f, n, noise) == [f EXCEPT ![n] = noise]

LEMMA Replaced ==
  ASSUME NEW f, Text(f), NEW K \in Nat, Len(f) = K, NEW n, NEW noise \in Noise
  PROVE  /\ Text(Struck(f, n, noise)) /\ Len(Struck(f, n, noise)) = K
         /\ \A i \in 1 .. K : \/ Struck(f, n, noise)[i] = f[i]
                              \/ i = n /\ Struck(f, n, noise)[i] \in Noise
<1>1. f \in Seq(Symbol) /\ noise \in Symbol
  BY DEF Text, Symbol
<1>2. DOMAIN f = 1 .. K /\ \A i \in 1 .. K : f[i] \in Symbol
  BY <1>1
<1>3. PICK x : x = [i \in 1 .. K |-> IF i = n THEN noise ELSE f[i]]
  OBVIOUS
<1>4. ASSUME NEW i \in 1 .. K
      PROVE  x[i] \in Symbol /\ (x[i] = f[i] \/ (i = n /\ x[i] = noise))
  BY <1>1, <1>2, <1>3
<1>5. DOMAIN x = 1 .. K /\ x = [i \in DOMAIN x |-> x[i]]
  BY <1>3
<1>6. x \in [1 .. K -> Symbol]
  BY ONLY <1>4, <1>5
<1>7. x \in Seq(Symbol)
  BY <1>6, SeqDef
<1>8. Len(x) = K
  BY <1>5, <1>7, LenProperties
<1>9. Struck(f, n, noise) = x
  BY <1>2, <1>3 DEF Struck
<1>. QED  BY <1>4, <1>7, <1>8, <1>9 DEF Text

LEMMA InitInv ==
  ASSUME Init, TypeOK, fault # "size"
  PROVE  BInv
<1>1. PICK f : f = Frame(upload) /\ upload \in Uploads
  BY DEF Init
<1>2. PICK K \in Nat : Text(f) /\ Len(f) = K
  <2>1. PICK N, e, t \in Nat : Ends(upload, f, N, e, t)
    BY <1>1, FrameIs
  <2>2. Text(f) /\ Len(f) = e + t + 2
    BY <2>1, Zenon DEF Ends
  <2>. QED  BY <2>2
<1>3. fault \in {"none", "cut", "damage", "framing"}
  BY DEF TypeOK
<1>4. /\ Text(stream) /\ Len(stream) <= K /\ (fault # "cut" => Len(stream) = K)
      /\ \A i \in 1 .. Len(stream) :
           \/ stream[i] = f[i]
           \/ fault = "damage" /\ i \in DataAt(upload) /\ stream[i] \in Noise
           \/ fault = "framing" /\ i \notin DataAt(upload) /\ i \notin SizesAt(upload)
  <2>1. CASE fault = "none" /\ stream = f
    BY <1>2, <2>1
  <2>2. CASE fault = "cut" /\ stream \in Prefixes(f) \ {f}
    <3>1. PICK l \in 0 .. Len(f) : stream = SubSeq(f, 1, l)
      BY <2>2, Zenon DEF Prefixes
    <3>2. f \in Seq(Symbol)
      BY <1>2 DEF Text
    <3>3. stream \in Seq(Symbol) /\ Len(stream) = l /\ \A i \in 1 .. l : stream[i] = f[i]
      BY <3>1, <3>2, FirstOf
    <3>. QED  BY <1>2, <2>2, <3>1, <3>3 DEF Text
  <2>3. CASE \E n \in DOMAIN f, noise \in Noise :
               /\ stream = [f EXCEPT ![n] = noise]
               /\ fault = IF n \in DataAt(upload) THEN "damage"
                          ELSE IF n \in SizesAt(upload) THEN "size" ELSE "framing"
    <3>1. PICK n \in DOMAIN f, noise \in Noise :
            /\ stream = [f EXCEPT ![n] = noise]
            /\ fault = IF n \in DataAt(upload) THEN "damage"
                       ELSE IF n \in SizesAt(upload) THEN "size" ELSE "framing"
      BY <2>3
    <3>2. \/ fault = "damage" /\ n \in DataAt(upload)
          \/ fault = "framing" /\ n \notin DataAt(upload) /\ n \notin SizesAt(upload)
      BY <3>1
    <3>3. Text(stream) /\ Len(stream) = K
          /\ \A i \in 1 .. K : stream[i] = f[i] \/ (i = n /\ stream[i] \in Noise)
      <4>1. stream = Struck(f, n, noise)
        BY <3>1 DEF Struck
      <4>. QED  BY <1>2, <4>1, Replaced
    <3>4. Len(stream) <= K
      BY <3>3
    <3>. QED  BY <3>2, <3>3, <3>4, Zenon
  <2>4. \/ fault = "none" /\ stream = f
        \/ fault = "cut" /\ stream \in Prefixes(f) \ {f}
        \/ \E n \in DOMAIN f, noise \in Noise :
             /\ stream = [f EXCEPT ![n] = noise]
             /\ fault = IF n \in DataAt(upload) THEN "damage"
                        ELSE IF n \in SizesAt(upload) THEN "size" ELSE "framing"
    BY <1>1, Zenon DEF Init
  <2>. QED  BY <2>1, <2>2, <2>3, <2>4
<1>5. Arrived
  BY <1>1, <1>2, <1>3, <1>4, Zenon DEF Arrived
<1>6. /\ pos = 0 /\ remain = 0 /\ started = FALSE
      /\ out = <<>> /\ trailer = <<>> /\ status = "reading"
  BY DEF Init
<1>7. Text(out) /\ Len(out) = 0 /\ Len(out) \in Nat
  BY <1>6 DEF Text
<1>9. Decoded
  <2>1. Len(Content(upload)) \in Nat
    BY <1>1, HeldIs
  <2>2. Len(out) <= Len(Content(upload)) /\ \A i \in 1 .. Len(out) : FALSE
    BY <1>7, <2>1
  <2>. QED  BY <1>7, <2>2 DEF Decoded
<1>10. Track(0) /\ 0 \in 0 .. Len(upload.chunks)
  <2>1. Len(Held(upload, 0)) = 0 /\ Len(upload.chunks) \in Nat
    BY <1>1, HeldIs, UploadIs
  <2>8. (0 > 0) = FALSE
    OBVIOUS
  <2>2. started = (0 > 0) /\ pos + remain = End(upload, 0) /\ ~(0 > 0)
    <3>1. pos + remain = End(upload, 0)
      BY <1>6 DEF End
    <3>. QED  BY <1>6, <2>8, <3>1, Zenon
  <2>3. Len(out) + remain = Len(Held(upload, 0))
    BY <1>6, <1>7, <2>1
  <2>4. 0 \in 0 .. Len(upload.chunks)
    BY <2>1
  <2>. QED  BY <1>6, <2>2, <2>3, <2>4, Zenon DEF Track
<1>11. Reading /\ Ended /\ Judged
  BY <1>6, <1>10 DEF Reading, Ended, Judged
<1>. QED  BY <1>5, <1>9, <1>11 DEF BInv

\* What was sent and what arrives of it do not change, nor what that means.
LEMMA ArrivedStays ==
  ASSUME Arrived, UNCHANGED <<upload, stream, fault>>
  PROVE  Arrived'
BY Zenon DEF Arrived, Text

LEMMA DecodedStays ==
  ASSUME Decoded, UNCHANGED <<upload, stream, fault>>, UNCHANGED out
  PROVE  Decoded'
BY Zenon DEF Decoded, Text

\* The reader between two chunks.
LEMMA SizeAhead ==
  ASSUME BInv, status = "reading", remain = 0,
         NEW from, from = (IF started THEN SeparatorAt(pos) ELSE pos),
         NEW size, size = ChunkSize(Line(from)), NEW next, next = from + LineLength(from)
  PROVE  \/ started /\ from = 0 /\ fault \in {"cut", "framing"}
         \/ /\ ~(started /\ from = 0)
            /\ next \in Nat /\ pos <= next /\ next <= Len(stream)
            /\ \/ \E n \in 1 .. Len(upload.chunks) : Begins(n, size, next)
               \/ Finishes(size, next)
               \/ Breaks(size, next)
<1>1. Arrived /\ TypeOK /\ upload \in Uploads
  BY DEF BInv, Arrived
<1>2. PICK N, K \in Nat : N = Len(upload.chunks) /\ K = Len(stream)
  BY <1>1, UploadIs, NotCut
<1>3. pos \in Nat /\ pos <= K
  BY <1>1, <1>2 DEF TypeOK
<1>4. PICK n \in 0 .. N : Track(n)
  <2>1. ~Lost
    BY DEF Lost
  <2>. QED  BY <1>2, <2>1, Zenon DEF BInv, Reading
<1>5. /\ started = (n > 0) /\ pos + remain = End(upload, n)
      /\ Len(out) + remain = Len(Held(upload, n))
  BY <1>4, Zenon DEF Track
<1>6. Len(out) \in Nat /\ Len(out) = Len(Held(upload, n))
  <2>1. Len(out) \in Nat
    BY DEF BInv, Decoded, Text
  <2>2. Len(out) + 0 = Len(out)
    BY <2>1
  <2>. QED  BY <1>5, <2>1, <2>2, Zenon
<1>7. pos = End(upload, n)
  <2>1. pos + 0 = pos
    BY <1>3
  <2>. QED  BY <1>5, <2>1, Zenon
<1>8. \/ started /\ from = 0 /\ fault \in {"cut", "framing"}
      \/ /\ ~(started /\ from = 0) /\ from \in Nat /\ pos <= from /\ from = At(upload, n)
         /\ from <= K
  <2>1. CASE n = 0
    <3>1. ~started
      <4>1. ~(n > 0)
        BY <2>1
      <4>. QED  BY <1>5, <4>1, Zenon
    <3>2. At(upload, 0) = 0
      BY <1>1, UptoIs
    <3>3. pos = 0
      BY <1>7, <2>1 DEF End
    <3>. QED  BY <1>3, <2>1, <3>1, <3>2, <3>3
  <2>2. CASE n # 0
    <3>1. started /\ n \in 1 .. Len(upload.chunks)
      <4>1. n > 0 /\ n \in 1 .. N
        BY <2>2
      <4>. QED  BY <1>2, <1>5, <4>1, Zenon
    <3>2. PICK t : t = At(upload, n) /\ t \in Nat
      <4>1. n \in 0 .. Len(upload.chunks)
        BY <1>2
      <4>. QED  BY <1>1, <4>1, UptoIs
    <3>3. pos = t - 2
      BY <1>7, <2>2, <3>2, Zenon DEF End
    <3>4. pos + 2 = t
      BY <3>2, <3>3
    <3>5. \/ SeparatorAt(pos) = 0 /\ fault \in {"cut", "framing"}
          \/ SeparatorAt(pos) = At(upload, n) /\ At(upload, n) <= Len(stream)
      <4>1. pos + 2 = At(upload, n) /\ pos <= Len(stream)
        BY <1>2, <1>3, <3>2, <3>4, Zenon
      <4>. QED  BY <1>1, <1>3, <3>1, <4>1, SeparatorRead
    <3>6. from = SeparatorAt(pos)
      BY <3>1
    <3>7. CASE SeparatorAt(pos) = 0 /\ fault \in {"cut", "framing"}
      BY <3>1, <3>6, <3>7
    <3>8. CASE SeparatorAt(pos) = At(upload, n) /\ At(upload, n) <= Len(stream)
      <4>1. from = t /\ from <= K
        BY <1>2, <3>2, <3>6, <3>8, Zenon
      <4>2. from # 0 /\ from \in Nat /\ pos <= from
        BY <1>3, <3>2, <3>4, <4>1
      <4>. QED  BY <3>2, <4>1, <4>2
    <3>. QED  BY <3>5, <3>7, <3>8
  <2>. QED  BY <2>1, <2>2
<1>9. CASE started /\ from = 0 /\ fault \in {"cut", "framing"}
  BY <1>9
<1>10. CASE /\ ~(started /\ from = 0) /\ from \in Nat /\ pos <= from /\ from = At(upload, n)
            /\ from <= K
  <2>1. n \in 0 .. Len(upload.chunks) /\ from <= Len(stream)
    BY <1>2, <1>10
  <2>2. PICK a \in Nat : a = from /\ a = At(upload, n) /\ a <= Len(stream)
    BY <1>10, <2>1
  <2>3. size = ChunkSize(Line(a)) /\ next = a + LineLength(a)
    BY <2>2, Zenon
  <2>4. /\ next \in Nat /\ a <= next /\ next <= Len(stream)
        /\ \/ n + 1 \in 1 .. Len(upload.chunks) /\ Begins(n + 1, size, next)
           \/ Finishes(size, next)
           \/ Breaks(size, next)
    BY <1>1, <1>6, <2>1, <2>2, <2>3, NextSize, Zenon
  <2>5. pos <= a
    BY <1>10, <2>2, Zenon
  <2>6. pos <= next
    BY <1>3, <2>4, <2>5
  <2>. QED  BY <1>10, <2>4, <2>6, Zenon
<1>. QED  BY <1>8, <1>9, <1>10

\* A refusal is for a stream that was cut, or damaged between size lines.
LEMMA FailStep ==
  ASSUME BInv, Fail, UNCHANGED <<upload, stream, fault>>, fault \in {"cut", "framing"}, TypeOK'
  PROVE  BInv'
<1>1. Arrived' /\ Decoded'
  BY ArrivedStays, DecodedStays DEF BInv, Fail
<1>2. status' = "failed" /\ fault' \in {"cut", "framing"}
  BY DEF Fail
<1>3. Reading' /\ Ended' /\ Judged'
  BY <1>2 DEF Reading, Ended, Judged
<1>. QED  BY <1>1, <1>3 DEF BInv

LEMMA SizeStep ==
  ASSUME BInv, ReadSize, TypeOK'
  PROVE  BInv'
<1>1. PICK from, size, next :
        /\ from = (IF started THEN SeparatorAt(pos) ELSE pos)
        /\ size = ChunkSize(Line(from)) /\ next = from + LineLength(from)
  OBVIOUS
<1>2. \/ (started /\ from = 0) /\ Fail
      \/ ~(started /\ from = 0) /\ size = -1 /\ Fail
      \/ /\ ~(started /\ from = 0) /\ size > 0
         /\ pos' = next /\ remain' = size /\ started' = TRUE
         /\ UNCHANGED <<out, trailer, status>>
      \/ /\ ~(started /\ from = 0) /\ size = 0
         /\ pos' = next /\ started' = TRUE
         /\ trailer' = TrailerAt(next)
         /\ status' = "whole"
         /\ UNCHANGED <<remain, out>>
  BY <1>1, Zenon DEF ReadSize
<1>3. UNCHANGED <<upload, stream, fault>> /\ status = "reading" /\ remain = 0
  BY DEF ReadSize
<1>4. \/ started /\ from = 0 /\ fault \in {"cut", "framing"}
      \/ /\ ~(started /\ from = 0)
         /\ next \in Nat /\ pos <= next /\ next <= Len(stream)
         /\ \/ \E n \in 1 .. Len(upload.chunks) : Begins(n, size, next)
            \/ Finishes(size, next)
            \/ Breaks(size, next)
  BY <1>1, <1>3, SizeAhead, Zenon
<1>5. Arrived /\ Decoded /\ TypeOK /\ upload \in Uploads
  BY DEF BInv, Arrived
<1>6. Arrived'
  BY <1>3, <1>5, ArrivedStays
<1>7. PICK K \in Nat : K = Len(stream) /\ K = Len(stream')
  <2>1. Len(stream) \in Nat
    BY <1>5, NotCut
  <2>. QED  BY <1>3, <2>1
<1>8. pos \in Nat /\ pos <= K /\ Len(out) \in Nat /\ Len(out) <= pos
  <2>1. pos \in 0 .. Len(stream) /\ Len(out) <= pos
    BY <1>5, Zenon DEF TypeOK
  <2>2. Len(out) \in Nat
    BY <1>5 DEF Decoded, Text
  <2>. QED  BY <1>7, <2>1, <2>2
<1>9. CASE Fail
  <2>1. fault \in {"cut", "framing"}
    <3>1. SUFFICES ASSUME fault \notin {"cut", "framing"} PROVE FALSE
      OBVIOUS
    <3>2. size = 0 \/ (size \in Nat /\ size # 0)
      BY <1>4, <3>1, Zenon DEF Begins, Finishes, Breaks
    <3>3. ~(size = -1) /\ ~(started /\ from = 0)
      BY <1>4, <3>1, <3>2
    <3>4. status' = "failed"
      BY <1>9 DEF Fail
    <3>5. status' = "whole" \/ status' = status
      BY <1>2, <3>3
    <3>. QED  BY <1>3, <3>4, <3>5
  <2>. QED  BY <1>3, <1>9, <2>1, FailStep
<1>10. CASE /\ ~(started /\ from = 0) /\ size > 0
            /\ pos' = next /\ remain' = size /\ started' = TRUE
            /\ UNCHANGED <<out, trailer, status>>
  <2>1. next \in Nat /\ pos <= next /\ next <= K
    BY <1>4, <1>7, <1>10
  <2>2. size # 0
    BY <1>10
  <2>3. \/ \E n \in 1 .. Len(upload.chunks) : Begins(n, size, next)
        \/ Breaks(size, next)
    BY <1>4, <1>10, <2>2, Zenon DEF Finishes
  <2>4. size \in Nat
    <3>1. size \in Nat \/ size = -1
      BY <2>3, Zenon DEF Begins, Breaks
    <3>. QED  BY <1>10, <3>1
  <2>5. Decoded'
    BY <1>3, <1>5, <1>10, DecodedStays
  <2>7. Lost' \/ \E n \in 0 .. Len(upload'.chunks) : Track(n)'
    <3>1. CASE \E n \in 1 .. Len(upload.chunks) : Begins(n, size, next)
      <4>1. PICK n \in 1 .. Len(upload.chunks) : Begins(n, size, next)
        BY <3>1
      <4>2. n \in 0 .. Len(upload.chunks) /\ n > 0 /\ ~(n = 0) /\ (n > 0) = TRUE
        OBVIOUS
      <4>3. /\ size = Len(upload.chunks[n])
            /\ next + size = End(upload, n) /\ Len(out) + size = Len(Held(upload, n))
        BY <4>1, Zenon DEF Begins
      <4>4. size <= Len(upload.chunks[n])
        <5>1. size <= size
          BY <2>4
        <5>. QED  BY <4>3, <5>1, Zenon
      <4>5. Track(n)'
        <5>1. started' = (n > 0)
          BY <1>10, <4>2, Zenon
        <5>2. pos' + remain' = End(upload', n) /\ Len(out') + remain' = Len(Held(upload', n))
          BY <1>3, <1>10, <4>3, Zenon
        <5>3. remain' <= Len(upload'.chunks[n])
          BY <1>3, <1>10, <4>4, Zenon
        <5>. QED  BY <4>2, <5>1, <5>2, <5>3, Zenon DEF Track, End, Held, At, Upto
      <4>. QED  BY <1>3, <4>2, <4>5, Zenon
    <3>2. CASE Breaks(size, next)
      <4>1. fault' = "cut" /\ pos' = Len(stream') /\ remain' > 0
        BY <1>3, <1>10, <3>2, Zenon DEF Breaks
      <4>. QED  BY <4>1 DEF Lost
    <3>. QED  BY <2>3, <3>1, <3>2
  <2>8. status' = "reading"
    BY <1>3, <1>10
  <2>9. Reading' /\ Ended' /\ Judged'
    BY <2>7, <2>8 DEF Reading, Ended, Judged
  <2>. QED  BY <1>6, <2>5, <2>9 DEF BInv
<1>11. CASE /\ ~(started /\ from = 0) /\ size = 0
            /\ pos' = next /\ started' = TRUE
            /\ trailer' = TrailerAt(next)
            /\ status' = "whole"
            /\ UNCHANGED <<remain, out>>
  <2>1. next \in Nat /\ pos <= next /\ next <= K
    BY <1>4, <1>7, <1>11
  <2>2. Finishes(size, next) \/ Breaks(size, next)
    BY <1>4, <1>11, Zenon DEF Begins
  <2>3. next <= Len(stream)
    BY <1>7, <2>1
  <2>4. fault \in {"none", "damage"} /\ next = DataEnd(upload) =>
          TrailerAt(next) = IF upload.asserts = "trailer" THEN <<First, Second>> ELSE <<>>
    BY <1>5, <2>1, <2>3, TrailerRead
  <2>5. Decoded'
    BY <1>3, <1>5, <1>11, DecodedStays
  <2>7. Ended'
    <3>1. (fault = "cut" /\ Padded(upload)) \/ Len(out) = Len(Content(upload))
      BY <1>11, <2>2, Zenon DEF Finishes, Breaks
    <3>2. fault # "cut" => next = DataEnd(upload)
      BY <2>2, Zenon DEF Finishes, Breaks
    <3>3. fault \in {"none", "damage"} =>
            trailer' = IF upload.asserts = "trailer" THEN <<First, Second>> ELSE <<>>
      BY <1>11, <2>4, <3>2
    <3>. QED  BY <1>3, <1>11, <3>1, <3>3, Zenon DEF Ended
  <2>8. Reading' /\ Judged'
    BY <1>11 DEF Reading, Judged
  <2>. QED  BY <1>6, <2>5, <2>7, <2>8 DEF BInv
<1>. QED  BY <1>2, <1>9, <1>10, <1>11

\* In a chunk, what is read next is its next bytes.
LEMMA ChunkAhead ==
  ASSUME Arrived, NEW n \in 1 .. Len(upload.chunks), NEW p \in Nat, NEW left \in Nat,
         NEW have \in Nat, p + left = End(upload, n), left <= Len(upload.chunks[n]),
         have + left = Len(Held(upload, n)),
         NEW i \in 1 .. left, p + i <= Len(stream)
  PROVE  /\ have + left <= Len(Content(upload))
         /\ \/ stream[p + i] = Content(upload)[have + i]
            \/ fault = "damage" /\ stream[p + i] \in Noise
<1>0. upload \in Uploads
  BY DEF Arrived
<1>1. PICK a, s, c \in Nat : Placed(upload, Frame(upload), n, a, s, c)
  BY <1>0, ChunkAt
<1>2. /\ c = Len(upload.chunks[n]) /\ At(upload, n) = a + s + c + 2
      /\ \A k \in 1 .. c : Frame(upload)[a + s + k] = upload.chunks[n][k]
  BY <1>1, Zenon DEF Placed
<1>3. PICK h, e \in Nat : HeldOf(upload, n, h, e)
  BY <1>0, HeldIs
<1>4. /\ e = Len(upload.chunks[n])
      /\ Len(Held(upload, n)) = h + e /\ h + e <= Len(Content(upload))
      /\ \A k \in 1 .. e : Content(upload)[h + k] = upload.chunks[n][k]
  BY <1>3, Zenon DEF HeldOf
<1>5. e = c
  BY <1>2, <1>4, Zenon
<1>6. p + left = a + s + c
  <2>1. PICK t : t = At(upload, n) /\ t = a + s + c + 2
    BY <1>2, Zenon
  <2>2. End(upload, n) = t - 2
    BY <2>1 DEF End
  <2>3. End(upload, n) = a + s + c
    BY <2>1, <2>2
  <2>. QED  BY <2>3, Zenon
<1>7. left <= c /\ have + left = h + c
  BY <1>2, <1>4, <1>5, Zenon
<1>8. PICK k \in 1 .. c : p + i = a + s + k /\ have + i = h + k
  <2>1. /\ c - left + i \in 1 .. c /\ p + i = a + s + (c - left + i)
        /\ have + i = h + (c - left + i)
    BY <1>6, <1>7
  <2>. QED  BY <2>1
<1>9. Frame(upload)[p + i] = Content(upload)[have + i]
  <2>1. Frame(upload)[a + s + k] = upload.chunks[n][k]
    BY <1>2
  <2>2. Content(upload)[h + k] = upload.chunks[n][k]
    BY <1>4, <1>5
  <2>. QED  BY <1>8, <2>1, <2>2, Zenon
<1>10. p + i \in 1 .. Len(stream)
  <2>1. Len(stream) \in Nat
    BY NotCut
  <2>. QED  BY <2>1
<1>11. have + left <= Len(Content(upload))
  BY <1>4, <1>5, <1>7, Zenon
<1>12. \/ stream[p + i] = Frame(upload)[p + i]
       \/ fault = "damage" /\ stream[p + i] \in Noise
  <2>1. a = At(upload, n - 1) /\ s = Size(upload, n) /\ n \in DOMAIN upload.chunks
    <3>1. DOMAIN upload.chunks = 1 .. Len(upload.chunks)
      BY <1>0, UploadIs
    <3>. QED  BY <1>1, <3>1, Zenon DEF Placed
  <2>2. p + i \in a + s + 1 .. a + s + c
    BY <1>8
  <2>3. p + i \in DataAt(upload)
    BY <1>2, <2>1, <2>2, Zenon DEF DataAt, At, Size, Upto
  <2>. QED  BY <1>10, <2>3, Zenon DEF Arrived
<1>. QED  BY <1>9, <1>11, <1>12, Zenon

\* What is decoded grows by what is read.
LEMMA Appended ==
  ASSUME Text(out), Text(stream), NEW k \in Nat, pos \in Nat, pos + k <= Len(stream),
         out' = out \o SubSeq(stream, pos + 1, pos + k)
  PROVE  \E x : /\ x = SubSeq(stream, pos + 1, pos + k)
                /\ \A i \in 1 .. k : x[i] = stream[pos + i]
                /\ Text(out') /\ Len(out') = Len(out) + k
                /\ \A i \in 1 .. Len(out) : out'[i] = out[i]
                /\ \A i \in 1 .. k : out'[Len(out) + i] = x[i]
<1>1. PICK x : x = SubSeq(stream, pos + 1, pos + k)
  OBVIOUS
<1>2. x \in Seq(Symbol) /\ Len(x) = k /\ \A i \in 1 .. k : x[i] = stream[pos + i]
  <2>1. stream \in Seq(Symbol)
    BY DEF Text
  <2>. QED  BY <1>1, <2>1, MiddleOf
<1>3. PICK o : o = Join(out, x) /\ o = out'
  BY <1>1, Zenon DEF Join
<1>4. /\ Text(o) /\ Len(o) = Len(out) + Len(x)
      /\ \A i \in 1 .. Len(out) : o[i] = out[i]
      /\ \A i \in 1 .. Len(x) : o[Len(out) + i] = x[i]
  <2>1. Text(out) /\ Text(x)
    BY <1>2 DEF Text
  <2>2. o = Join(out, x)
    BY <1>3
  <2>. QED  BY ONLY <2>1, <2>2, Joined
<1>5. /\ Text(out') /\ Len(out') = Len(out) + k
      /\ \A i \in 1 .. Len(out) : out'[i] = out[i]
      /\ \A i \in 1 .. k : out'[Len(out) + i] = x[i]
  <2>1. Text(out')
    BY <1>3, <1>4 DEF Text
  <2>. QED  BY <1>2, <1>3, <1>4, <2>1, Zenon
<1>. QED  BY <1>1, <1>2, <1>5, Zenon

\* The reader inside a chunk.
LEMMA InChunk ==
  ASSUME BInv, status = "reading", remain > 0
  PROVE  \/ fault = "cut" /\ pos = Len(stream)
         \/ \E n \in 1 .. Len(upload.chunks) : Track(n)
<1>1. Lost \/ \E n \in 0 .. Len(upload.chunks) : Track(n)
  BY DEF BInv, Reading
<1>2. CASE Lost
  BY <1>2 DEF Lost
<1>3. CASE \E n \in 0 .. Len(upload.chunks) : Track(n)
  <2>1. PICK n \in 0 .. Len(upload.chunks) : Track(n)
    BY <1>3
  <2>2. n # 0
    <3>1. n = 0 => remain = 0
      BY <2>1, Zenon DEF Track
    <3>. QED  BY <3>1
  <2>3. n \in 1 .. Len(upload.chunks)
    BY <2>2
  <2>. QED  BY <2>1, <2>3
<1>. QED  BY <1>1, <1>2, <1>3

LEMMA DataStep ==
  ASSUME BInv, ReadData, TypeOK'
  PROVE  BInv'
<1>1. status = "reading" /\ remain > 0 /\ UNCHANGED <<upload, stream, fault>>
  BY DEF ReadData
<1>2. Arrived /\ Decoded /\ TypeOK /\ upload \in Uploads
  BY DEF BInv, Arrived
<1>3. Arrived'
  BY <1>1, <1>2, ArrivedStays
<1>4. PICK K \in Nat : K = Len(stream)
  BY <1>2, NotCut
<1>5. pos \in Nat /\ pos <= K /\ remain \in Nat
  <2>1. pos \in 0 .. Len(stream) /\ remain \in Nat
    BY <1>2, Zenon DEF TypeOK
  <2>. QED  BY <1>4, <2>1
<1>6. CASE pos = Len(stream) /\ Break
  <2>1. fault \in {"cut", "framing"}
    <3>1. SUFFICES ASSUME fault # "cut" PROVE FALSE
      OBVIOUS
    <3>2. PICK n \in 1 .. Len(upload.chunks) : Track(n)
      BY <1>1, <3>1, InChunk
    <3>3. PICK a, s, c \in Nat : Placed(upload, Frame(upload), n, a, s, c)
      BY <1>2, ChunkAt
    <3>4. At(upload, n) = a + s + c + 2 /\ a + s + c + 2 <= DataEnd(upload)
      BY <3>3, Zenon DEF Placed
    <3>5. pos + remain = End(upload, n)
      BY <3>2, Zenon DEF Track
    <3>6. End(upload, n) = At(upload, n) - 2
      BY DEF End
    <3>7. DataEnd(upload) \in Nat /\ DataEnd(upload) + 2 <= Len(stream)
      BY <1>2, <3>1, NotCut
    <3>8. PICK t, e : /\ t = At(upload, n) /\ e = DataEnd(upload) /\ t = a + s + c + 2
                      /\ a + s + c + 2 <= e /\ e \in Nat /\ e + 2 <= K /\ pos + remain = t - 2
      BY <1>4, <3>4, <3>5, <3>6, <3>7, Zenon
    <3>9. pos = K
      BY <1>4, <1>6
    <3>10. t = a + s + c + 2 /\ a + s + c + 2 <= e /\ e \in Nat /\ e + 2 <= K
           /\ pos + remain = t - 2
      BY <3>8
    <3>. QED  BY <1>1, <1>5, <3>9, <3>10
  <2>2. Fail
    BY <1>6 DEF Break
  <2>. QED  BY <1>1, <2>1, <2>2, FailStep
<1>7. CASE \E k \in Piece :
             /\ out' = out \o SubSeq(stream, pos + 1, pos + k)
             /\ pos' = pos + k /\ remain' = remain - k
             /\ UNCHANGED <<started, trailer, status>>
  <2>1. PICK k \in Piece :
          /\ out' = out \o SubSeq(stream, pos + 1, pos + k)
          /\ pos' = pos + k /\ remain' = remain - k
          /\ UNCHANGED <<started, trailer, status>>
    BY <1>7
  <2>2. k \in Nat /\ k # 0 /\ k <= remain /\ pos + k <= K
    BY <1>4, <1>5, MaxReadType DEF Piece
  <2>3. PICK n \in 1 .. Len(upload.chunks) : Track(n)
    <3>1. ~(pos = Len(stream))
      BY <1>4, <1>5, <2>2
    <3>. QED  BY <1>1, <3>1, InChunk
  <2>4. /\ started = (n > 0) /\ pos + remain = End(upload, n)
        /\ remain <= Len(upload.chunks[n]) /\ Len(out) + remain = Len(Held(upload, n))
    <3>1. n > 0
      OBVIOUS
    <3>. QED  BY <2>3, <3>1, Zenon DEF Track
  <2>5. PICK L \in Nat : L = Len(out) /\ L <= pos
    <3>1. Len(out) <= pos
      BY <1>2, Zenon DEF TypeOK
    <3>. QED  BY <1>2, <3>1 DEF Decoded, Text
  <2>6. PICK x : /\ x = SubSeq(stream, pos + 1, pos + k)
                 /\ \A i \in 1 .. k : x[i] = stream[pos + i]
                 /\ Text(out') /\ Len(out') = Len(out) + k
                 /\ \A i \in 1 .. Len(out) : out'[i] = out[i]
                 /\ \A i \in 1 .. k : out'[Len(out) + i] = x[i]
    <3>1. Text(out) /\ Text(stream) /\ pos + k <= Len(stream)
      BY <1>2, <1>4, <2>2 DEF Arrived, Decoded
    <3>. QED  BY <1>5, <2>1, <2>2, <3>1, Appended
  <2>7. /\ Text(out') /\ Len(out') = L + k
        /\ \A i \in 1 .. L : out'[i] = out[i]
        /\ \A i \in 1 .. k : out'[L + i] = x[i]
    BY <2>5, <2>6, Zenon
  <2>8. /\ L + k <= Len(Content(upload)) /\ Len(Content(upload)) \in Nat
        /\ \A i \in 1 .. k : \/ x[i] = Content(upload)[L + i]
                             \/ fault = "damage" /\ x[i] \in Noise
    <3>1. L + remain = Len(Held(upload, n))
      BY <2>4, <2>5, Zenon
    <3>2. ASSUME NEW i \in 1 .. k
          PROVE  /\ L + remain <= Len(Content(upload))
                 /\ \/ x[i] = Content(upload)[L + i]
                    \/ fault = "damage" /\ x[i] \in Noise
      <4>1. i \in 1 .. remain /\ pos + i <= K
        BY <1>5, <2>2
      <4>2. pos + i <= Len(stream)
        BY <1>4, <4>1
      <4>3. /\ L + remain <= Len(Content(upload))
            /\ \/ stream[pos + i] = Content(upload)[L + i]
               \/ fault = "damage" /\ stream[pos + i] \in Noise
        BY <1>2, <1>5, <2>4, <3>1, <4>1, <4>2, ChunkAhead
      <4>. QED  BY <2>6, <4>3, Zenon
    <3>3. Len(Content(upload)) \in Nat
      BY <1>2, HeldIs
    <3>4. L + remain <= Len(Content(upload))
      <4>1. 1 \in 1 .. k
        BY <2>2
      <4>. QED  BY <3>2, <4>1
    <3>5. L + k <= Len(Content(upload))
      BY <1>5, <2>2, <3>3, <3>4
    <3>. QED  BY <3>2, <3>3, <3>5
  <2>9. Decoded'
    <3>1. ASSUME NEW i \in 1 .. L + k
          PROVE  out'[i] = Content(upload)[i] \/ (fault = "damage" /\ out'[i] \in Noise)
      <4>1. CASE i <= L
        <5>1. i \in 1 .. L /\ i \in 1 .. Len(out)
          BY <2>5, <4>1
        <5>2. out[i] = Content(upload)[i] \/ (fault = "damage" /\ out[i] \in Noise)
          BY <1>2, <5>1, Zenon DEF Decoded
        <5>. QED  BY <2>7, <5>1, <5>2, Zenon
      <4>2. CASE ~(i <= L)
        <5>1. PICK j \in 1 .. k : i = L + j
          <6>1. i - L \in 1 .. k /\ i = L + (i - L)
            BY <2>2, <4>2
          <6>. QED  BY <6>1
        <5>. QED  BY <2>7, <2>8, <5>1, Zenon
      <4>. QED  BY <4>1, <4>2
    <3>. QED  BY <1>1, <2>7, <2>8, <3>1, Zenon DEF Decoded, Text
  <2>10. L + k <= pos + k /\ pos + k \in 0 .. K /\ remain - k \in Nat
         /\ (pos + k) + (remain - k) = pos + remain
         /\ (L + k) + (remain - k) = L + remain /\ remain - k <= remain
    BY <1>5, <2>2, <2>5
  <2>12. Track(n)'
    <3>1. pos' + remain' = End(upload', n) /\ Len(out') + remain' = Len(Held(upload', n))
      BY <1>1, <2>1, <2>4, <2>5, <2>7, <2>10, Zenon
    <3>2. remain' <= Len(upload'.chunks[n])
      <4>1. Len(upload.chunks[n]) \in Nat
        BY <1>2, UploadIs
      <4>2. remain - k <= Len(upload.chunks[n])
        BY <1>5, <2>2, <2>4, <4>1
      <4>. QED  BY <1>1, <2>1, <4>2, Zenon
    <3>3. started' = (n > 0) /\ ~(n = 0)
      <4>1. ~(n = 0)
        OBVIOUS
      <4>. QED  BY <2>1, <2>4, <4>1, Zenon
    <3>. QED  BY <3>1, <3>2, <3>3, Zenon DEF Track, End, Held, At, Upto
  <2>13. n \in 0 .. Len(upload'.chunks)
    <3>1. n \in 0 .. Len(upload.chunks)
      OBVIOUS
    <3>. QED  BY <1>1, <3>1, Zenon
  <2>14. status' = "reading"
    BY <1>1, <2>1
  <2>15. Reading' /\ Ended' /\ Judged'
    <3>1. Lost' \/ \E m \in 0 .. Len(upload'.chunks) : Track(m)'
      BY <2>12, <2>13, Zenon
    <3>. QED  BY <2>14, <3>1 DEF Reading, Ended, Judged
  <2>. QED  BY <1>3, <2>9, <2>15 DEF BInv
<1>. QED  BY <1>6, <1>7 DEF ReadData

\* What is as long as the object and its beginning is the object.
LEMMA AllOfIt ==
  ASSUME Decoded, upload \in Uploads, fault # "damage", Len(out) = Len(Content(upload))
  PROVE  out = Content(upload)
<1>1. PICK c : c = Content(upload) /\ c \in Seq(Symbol)
  BY HeldIs DEF Text
<1>2. out \in Seq(Symbol)
  BY DEF Decoded, Text
<1>3. \A i \in 1 .. Len(out) : out[i] = c[i]
  BY <1>1, Zenon DEF Decoded
<1>4. Len(out) = Len(c)
  BY <1>1
<1>5. out = c
  BY <1>1, <1>2, <1>3, <1>4
<1>. QED  BY <1>1, <1>5

LEMMA VerifyStep ==
  ASSUME BInv, Verify, TypeOK'
  PROVE  BInv'
<1>1. /\ status = "whole" /\ status' = (IF Matches THEN "accepted" ELSE "BadDigest")
      /\ UNCHANGED <<upload, stream, fault, pos, remain, started, out, trailer>>
  BY DEF Verify
<1>2. Arrived /\ Decoded /\ TypeOK /\ Ended /\ upload \in Uploads
  BY DEF BInv, Arrived
<1>3. Arrived' /\ Decoded'
  BY <1>1, <1>2, ArrivedStays, DecodedStays
<1>4. status' \in {"accepted", "BadDigest"}
  BY <1>1
<1>6. /\ (fault = "cut" /\ Padded(upload)) \/ Len(out) = Len(Content(upload))
      /\ fault \in {"none", "damage"} =>
           trailer = IF upload.asserts = "trailer" THEN <<First, Second>> ELSE <<>>
  BY <1>1, <1>2 DEF Ended
<1>7. Ended'
  BY <1>1, <1>6, Zenon DEF Ended
<1>8. Judged'
  <2>1. status' # "failed"
    BY <1>4
  <2>2. status' = "BadDigest" => fault' # "none"
    <3>1. SUFFICES ASSUME fault = "none", ~Matches PROVE FALSE
      BY <1>1
    <3>2. out = Content(upload)
      BY <1>2, <1>6, <3>1, AllOfIt
    <3>3. /\ upload.asserts = "trailer" => trailer = <<First, Second>>
          /\ upload.asserts # "trailer" => trailer = <<>>
      BY <1>6, <3>1
    <3>. QED  BY <3>1, <3>2, <3>3 DEF Matches
  <2>. QED  BY <2>1, <2>2 DEF Judged
<1>9. Reading'
  BY <1>4 DEF Reading
<1>. QED  BY <1>3, <1>7, <1>8, <1>9 DEF BInv

LEMMA StutterStep ==
  ASSUME BInv, UNCHANGED vars, TypeOK'
  PROVE  BInv'
<1>1. /\ UNCHANGED <<upload, stream, fault>> /\ UNCHANGED out
      /\ UNCHANGED <<pos, remain, started, trailer, status>>
  BY DEF vars
<1>2. Arrived' /\ Decoded'
  BY <1>1, ArrivedStays, DecodedStays DEF BInv
<1>4. Reading'
  BY <1>1, Zenon DEF BInv, Reading, Lost, Track, End, Held, At, Upto
<1>5. Ended' /\ Judged'
  BY <1>1, Zenon DEF BInv, Ended, Judged
<1>. QED  BY <1>2, <1>4, <1>5 DEF BInv

-----------------------------------------------------------------------------
(***************************************************************************)
(* Any stream                                                              *)
(***************************************************************************)

LEMMA GreatestNumber ==
  ASSUME NEW b \in Nat, NEW T \in SUBSET (0 .. b), T # {}
  PROVE  \E n \in T : \A m \in T : m <= n
<1>. DEFINE Under == {b - n : n \in T}
<1>1. Under \in SUBSET Nat /\ Under # {}
  <2>1. ASSUME NEW n \in T PROVE b - n \in Nat
    <3>1. n \in 0 .. b
      OBVIOUS
    <3>. QED  BY <3>1
  <2>. QED  BY <2>1
<1>2. PICK k \in Under : \A m \in Under : k <= m
  <2>. HIDE DEF Under
  <2>. QED  BY <1>1, LeastNumber
<1>3. PICK n \in T : k = b - n
  OBVIOUS
<1>4. ASSUME NEW m \in T PROVE m <= n
  <2>1. b - m \in Under
    OBVIOUS
  <2>2. b - n <= b - m
    BY <1>2, <1>3, <2>1
  <2>. QED  BY <2>2
<1>. QED  BY <1>4

\* Cutting a text anywhere makes a text.
LEMMA TextFrom ==
  ASSUME NEW t, Text(t), NEW n \in 1 .. Len(t) + 1
  PROVE  Text(SubSeq(t, n, Len(t)))
<1>1. t \in Seq(Symbol)
  BY DEF Text
<1>2. SubSeq(t, n, Len(t)) \in Seq(Symbol)
  BY <1>1
<1>. QED  BY <1>2 DEF Text

LEMMA TextTo ==
  ASSUME NEW t, Text(t), NEW n \in 0 .. Len(t)
  PROVE  Text(SubSeq(t, 1, n))
BY FirstOf DEF Text

\* The first of some places, or none.
LEMMA LeastIn ==
  ASSUME NEW I \in SUBSET Nat, I # {}
  PROVE  Min(I) \in I
<1>1. \E k \in I : \A m \in I : k <= m
  BY LeastNumber
<1>2. Min(I) = CHOOSE x \in I : \A y \in I : x <= y
  BY Zenon DEF Min
<1>. QED  BY <1>1, <1>2

LEMMA FirstAt ==
  ASSUME NEW L \in Nat, NEW I \in SUBSET (1 .. L), NEW n, n = (IF I # {} THEN Min(I) ELSE 0)
  PROVE  n \in 0 .. L
<1>1. PICK least : least = Min(I)
  OBVIOUS
<1>2. n = (IF I # {} THEN least ELSE 0)
  BY <1>1
<1>3. I # {} => least \in I
  <2>1. I \in SUBSET Nat
    OBVIOUS
  <2>2. I # {} => Min(I) \in I
    BY <2>1, LeastIn
  <2>. QED  BY ONLY <1>1, <2>2, Zenon
<1>4. (n = least /\ I # {}) \/ n = 0
  BY ONLY <1>2, Zenon
<1>5. \A k \in I : k \in 0 .. L
  OBVIOUS
<1>6. 0 \in 0 .. L
  OBVIOUS
<1>. QED  BY ONLY <1>3, <1>4, <1>5, <1>6, Zenon

LEMMA TextTrimEnd ==
  ASSUME NEW t, Text(t)
  PROVE  Text(TrimEnd(t))
<1>. DEFINE I == {i \in 1 .. Len(t) : t[i] # CR /\ t[i] # LF}
<1>1. Len(t) \in Nat
  BY DEF Text
<1>2. PICK n : n = (IF I # {} THEN Max(I) ELSE 0) /\ TrimEnd(t) = SubSeq(t, 1, n)
  BY Zenon DEF TrimEnd, SelectLastInSeq
<1>3. n \in 0 .. Len(t)
  <2>1. CASE I = {}
    BY <1>1, <1>2, <2>1
  <2>2. CASE I # {}
    <3>1. I \in SUBSET (0 .. Len(t))
      BY <1>1
    <3>2. n = Max(I)
      BY <1>2, <2>2
    <3>. HIDE DEF I
    <3>3. \E k \in I : \A m \in I : m <= k
      BY <1>1, <2>2, <3>1, GreatestNumber
    <3>4. \E k \in I : \A m \in I : k >= m
      BY <3>1, <3>3
    <3>5. Max(I) \in I
      BY <3>4 DEF Max
    <3>. QED  BY <3>1, <3>2, <3>5
  <2>. QED  BY <2>1, <2>2
<1>. QED  BY <1>2, <1>3, TextTo

LEMMA TextTrimSpace ==
  ASSUME NEW t, Text(t)
  PROVE  Text(TrimSpace(t))
<1>. DEFINE I == {i \in 1 .. Len(t) : t[i] # CR /\ t[i] # LF}
<1>1. PICK n : /\ n = (IF I # {} THEN Min(I) ELSE 0)
               /\ TrimSpace(t) = IF n = 0 THEN <<>> ELSE TrimEnd(SubSeq(t, n, Len(t)))
  BY Zenon DEF TrimSpace, SelectInSeq
<1>2. n \in 0 .. Len(t) /\ Len(t) \in Nat
  <2>1. I \in SUBSET (1 .. Len(t)) /\ Len(t) \in Nat
    BY DEF Text
  <2>. HIDE DEF I
  <2>. QED  BY <1>1, <2>1, FirstAt
<1>3. CASE n = 0
  BY <1>1, <1>3 DEF Text
<1>4. CASE n # 0
  <2>1. n \in 1 .. Len(t) + 1
    BY <1>2, <1>4
  <2>. QED  BY <1>1, <1>4, <2>1, TextFrom, TextTrimEnd
<1>. QED  BY <1>3, <1>4

LEMMA TextParts ==
  ASSUME NEW t, Text(t), NEW mark
  PROVE  Text(Before(t, mark)) /\ Text(After(t, mark))
<1>. DEFINE I == {i \in 1 .. Len(t) : t[i] = mark}
<1>1. PICK n : /\ n = (IF I # {} THEN Min(I) ELSE 0)
               /\ Before(t, mark) = IF n = 0 THEN t ELSE SubSeq(t, 1, n - 1)
               /\ After(t, mark) = SubSeq(t, n + 1, Len(t))
  BY Zenon DEF Before, After, SelectInSeq
<1>2. n \in 0 .. Len(t) /\ Len(t) \in Nat
  <2>1. I \in SUBSET (1 .. Len(t)) /\ Len(t) \in Nat
    BY DEF Text
  <2>. HIDE DEF I
  <2>. QED  BY <1>1, <2>1, FirstAt
<1>3. n + 1 \in 1 .. Len(t) + 1 /\ (n # 0 => n - 1 \in 0 .. Len(t))
  BY <1>2
<1>. QED  BY <1>1, <1>3, TextFrom, TextTo

\* A line is a piece of the stream, whatever there is in it.
LEMMA AnyLine ==
  ASSUME Text(stream), NEW a \in 0 .. Len(stream)
  PROVE  LineLength(a) \in 0 .. Len(stream) - a /\ Text(Line(a))
<1>. DEFINE ends == {n \in 1 .. Len(stream) - a : stream[a + n] = LF}
<1>1. PICK K \in Nat : K = Len(stream) /\ a \in Nat /\ a <= K
  BY DEF Text
<1>2. LineLength(a) = IF ends = {} THEN Len(stream) - a
                      ELSE CHOOSE n \in ends : \A m \in ends : n <= m
  BY Zenon DEF LineLength
<1>3. LineLength(a) \in 0 .. K - a
  <2>1. CASE ends = {}
    BY <1>1, <1>2, <2>1
  <2>2. CASE ends # {}
    <3>1. ends \in SUBSET Nat /\ ends \subseteq 0 .. K - a
      BY <1>1
    <3>2. LineLength(a) = CHOOSE n \in ends : \A m \in ends : n <= m
      BY <1>2, <2>2
    <3>. HIDE DEF ends
    <3>3. \E n \in ends : \A m \in ends : n <= m
      BY <2>2, <3>1, LeastNumber
    <3>. QED  BY <3>1, <3>2, <3>3
  <2>. QED  BY <2>1, <2>2
<1>4. PICK r \in Nat : r = LineLength(a) /\ a + r <= K
  BY <1>1, <1>3
<1>5. Text(SubSeq(stream, a + 1, a + r))
  BY <1>1, <1>4, MiddleOf DEF Text
<1>. QED  BY <1>1, <1>3, <1>4, <1>5, TextTrimEnd DEF Line

\* A size is a number, or there is none.
LEMMA AnySizeRead ==
  ASSUME NEW l, Text(l)
  PROVE  ChunkSize(l) \in Nat \cup {-1}
<1>1. PICK t : t = TrimSpace(Before(l, Semicolon)) /\ Text(t) /\ ChunkSize(l) = Hex(t)
  BY TextTrimSpace, TextParts DEF ChunkSize
<1>2. CASE t = <<>> \/ \E n \in DOMAIN t : t[n] \notin 0 .. 15
  BY <1>1, <1>2 DEF Hex
<1>3. CASE ~(t = <<>> \/ \E n \in DOMAIN t : t[n] \notin 0 .. 15)
  <2>1. t \in Seq(0 .. 15) /\ t # <<>>
    BY <1>1, <1>3 DEF Text
  <2>. QED  BY <1>1, <2>1, HexPositive
<1>. QED  BY <1>2, <1>3

LEMMA AnyTrailer ==
  ASSUME Text(stream), NEW p \in 0 .. Len(stream)
  PROVE  TrailerAt(p) \in Seq(Symbol)
<1>1. PICK K \in Nat : K = Len(stream)
  BY DEF Text
<1>2. PICK last : /\ last = Max(Naming(p))
                  /\ TrailerAt(p) = IF Naming(p) = {} THEN <<>>
                                    ELSE TrimSpace(After(Line(last), Colon))
  BY Zenon DEF TrailerAt
<1>3. CASE Naming(p) = {}
  BY <1>2, <1>3
<1>4. CASE Naming(p) # {}
  <2>1. Naming(p) \in SUBSET (0 .. K)
    <3>1. TrailerLines(p) \subseteq 0 .. K
      BY <1>1 DEF TrailerLines
    <3>. QED  BY <3>1 DEF Naming
  <2>2. \E n \in Naming(p) : \A m \in Naming(p) : m <= n
    BY <1>4, <2>1, GreatestNumber
  <2>3. last \in Naming(p)
    <3>1. \E n \in Naming(p) : \A m \in Naming(p) : n >= m
      BY <2>1, <2>2
    <3>2. Max(Naming(p)) = CHOOSE x \in Naming(p) : \A y \in Naming(p) : x >= y
      BY Zenon DEF Max
    <3>. QED  BY <1>2, <3>1, <3>2
  <2>4. Text(Line(last))
    BY <1>1, <2>1, <2>3, AnyLine
  <2>5. Text(TrimSpace(After(Line(last), Colon)))
    BY <2>4, TextParts, TextTrimSpace
  <2>. QED  BY <1>2, <1>4, <2>5 DEF Text
<1>. QED  BY <1>3, <1>4

LEMMA AnySeparator ==
  ASSUME Text(stream), NEW p \in 0 .. Len(stream)
  PROVE  SeparatorAt(p) = 0 \/ (SeparatorAt(p) = p + 2 /\ p + 2 <= Len(stream))
<1>1. PICK K \in Nat : K = Len(stream) /\ p \in Nat /\ p <= K
  BY DEF Text
<1>2. Len(Rest(p)) = K - p
  <2>1. stream \in Seq(Symbol) /\ p + 1 \in 1 .. K + 1
    BY <1>1 DEF Text
  <2>. QED  BY <1>1, <2>1 DEF Rest
<1>3. Len(CRLF) = 2
  BY LineEndIs
<1>4. IsPrefix(CRLF, Rest(p)) => 2 <= K - p
  BY <1>2, <1>3, Zenon DEF IsPrefix
<1>5. SeparatorAt(p) = IF IsPrefix(CRLF, Rest(p)) THEN p + 2 ELSE 0
  BY Zenon DEF SeparatorAt
<1>. QED  BY <1>1, <1>4, <1>5

LEMMA AnyInit ==
  ASSUME Init
  PROVE  TypeOK /\ Text(stream) /\ Text(out)
<1>1. PICK f : f = Frame(upload) /\ upload \in Uploads
  BY DEF Init
<1>2. Text(f)
  <2>1. PICK N, e, t \in Nat : Ends(upload, f, N, e, t)
    BY <1>1, FrameIs
  <2>. QED  BY <2>1, Zenon DEF Ends
<1>3. Text(stream) /\ fault \in {"none", "cut", "damage", "size", "framing"}
  <2>1. CASE fault = "none" /\ stream = f
    BY <1>2, <2>1
  <2>2. CASE fault = "cut" /\ stream \in Prefixes(f) \ {f}
    <3>1. PICK l \in 0 .. Len(f) : stream = SubSeq(f, 1, l)
      BY <2>2, Zenon DEF Prefixes
    <3>. QED  BY <1>2, <2>2, <3>1, TextTo
  <2>3. CASE \E n \in DOMAIN f, noise \in Noise :
               /\ stream = [f EXCEPT ![n] = noise]
               /\ fault = IF n \in DataAt(upload) THEN "damage"
                          ELSE IF n \in SizesAt(upload) THEN "size" ELSE "framing"
    <3>1. PICK n \in DOMAIN f, noise \in Noise :
            /\ stream = [f EXCEPT ![n] = noise]
            /\ fault = IF n \in DataAt(upload) THEN "damage"
                       ELSE IF n \in SizesAt(upload) THEN "size" ELSE "framing"
      BY <2>3
    <3>2. PICK K \in Nat : Len(f) = K
      BY <1>2 DEF Text
    <3>3. stream = Struck(f, n, noise)
      BY <3>1 DEF Struck
    <3>4. Text(stream)
      BY <1>2, <3>2, <3>3, Replaced
    <3>. QED  BY <3>1, <3>4
  <2>4. \/ fault = "none" /\ stream = f
        \/ fault = "cut" /\ stream \in Prefixes(f) \ {f}
        \/ \E n \in DOMAIN f, noise \in Noise :
             /\ stream = [f EXCEPT ![n] = noise]
             /\ fault = IF n \in DataAt(upload) THEN "damage"
                        ELSE IF n \in SizesAt(upload) THEN "size" ELSE "framing"
    BY <1>1, Zenon DEF Init
  <2>. QED  BY <2>1, <2>2, <2>3, <2>4
<1>4. /\ pos = 0 /\ remain = 0 /\ started = FALSE
      /\ out = <<>> /\ trailer = <<>> /\ status = "reading"
  BY DEF Init
<1>5. Text(out) /\ Len(out) = 0
  BY <1>4 DEF Text
<1>6. pos \in 0 .. Len(stream) /\ Len(out) <= pos
  <2>1. Len(stream) \in Nat
    BY <1>3 DEF Text
  <2>. QED  BY <1>4, <1>5, <2>1
<1>7. trailer \in Seq(Symbol) /\ remain \in Nat
  BY <1>4
<1>. QED  BY <1>1, <1>3, <1>4, <1>5, <1>6, <1>7 DEF TypeOK

LEMMA AnySize ==
  ASSUME TypeOK, Text(stream), Text(out), ReadSize
  PROVE  TypeOK' /\ Text(out') /\ Text(stream') /\ fault' = fault /\ status' # "accepted"
<1>1. PICK from, size, next :
        /\ from = (IF started THEN SeparatorAt(pos) ELSE pos)
        /\ size = ChunkSize(Line(from)) /\ next = from + LineLength(from)
  OBVIOUS
<1>2. \/ Fail
      \/ /\ ~(started /\ from = 0) /\ size > 0
         /\ pos' = next /\ remain' = size /\ started' = TRUE
         /\ UNCHANGED <<out, trailer, status>>
      \/ /\ ~(started /\ from = 0) /\ size = 0
         /\ pos' = next /\ started' = TRUE
         /\ trailer' = TrailerAt(next)
         /\ status' = "whole"
         /\ UNCHANGED <<remain, out>>
  BY <1>1, Zenon DEF ReadSize
<1>3. UNCHANGED <<upload, stream, fault>> /\ status = "reading" /\ remain = 0
  BY DEF ReadSize
<1>4. PICK K \in Nat : K = Len(stream)
  BY DEF Text
<1>5. /\ upload \in Uploads /\ fault \in {"none", "cut", "damage", "size", "framing"}
      /\ pos \in 0 .. K /\ remain \in Nat /\ started \in BOOLEAN /\ Len(out) <= pos
      /\ trailer \in Seq(Symbol) /\ Len(out) \in Nat
  BY <1>4 DEF TypeOK, Text
<1>6. CASE Fail
  <2>1. status' = "failed" /\ UNCHANGED <<pos, remain, started, out, trailer>>
    BY <1>6 DEF Fail
  <2>. QED  BY <1>3, <1>4, <1>5, <2>1 DEF TypeOK, Text
<1>7. ASSUME ~(started /\ from = 0)
      PROVE  next \in 0 .. K /\ pos <= next /\ size \in Nat \cup {-1}
  <2>1. from \in 0 .. K /\ pos <= from
    <3>1. CASE started
      <4>1. SeparatorAt(pos) = pos + 2 /\ pos + 2 <= K
        BY <1>1, <1>4, <1>5, <1>7, <3>1, AnySeparator
      <4>. QED  BY <1>1, <1>5, <3>1, <4>1
    <3>2. CASE ~started
      BY <1>1, <1>5, <3>2
    <3>. QED  BY <3>1, <3>2
  <2>2. LineLength(from) \in 0 .. K - from /\ Text(Line(from))
    BY <1>4, <2>1, AnyLine
  <2>3. size \in Nat \cup {-1}
    BY <1>1, <2>2, AnySizeRead
  <2>4. next \in 0 .. K /\ pos <= next
    BY <1>1, <1>5, <2>1, <2>2
  <2>. QED  BY <2>3, <2>4
<1>8. CASE /\ ~(started /\ from = 0) /\ size > 0
           /\ pos' = next /\ remain' = size /\ started' = TRUE
           /\ UNCHANGED <<out, trailer, status>>
  <2>1. next \in 0 .. K /\ Len(out) <= next /\ size \in Nat
    BY <1>5, <1>7, <1>8
  <2>2. pos' \in 0 .. Len(stream') /\ Len(out') <= pos' /\ remain' \in Nat
    BY <1>3, <1>4, <1>8, <2>1
  <2>. QED  BY <1>3, <1>5, <1>8, <2>2 DEF TypeOK, Text
<1>9. CASE /\ ~(started /\ from = 0) /\ size = 0
           /\ pos' = next /\ started' = TRUE
           /\ trailer' = TrailerAt(next)
           /\ status' = "whole"
           /\ UNCHANGED <<remain, out>>
  <2>1. next \in 0 .. K /\ Len(out) <= next
    BY <1>5, <1>7, <1>9
  <2>2. pos' \in 0 .. Len(stream') /\ Len(out') <= pos'
    BY <1>3, <1>4, <1>9, <2>1
  <2>3. trailer' \in Seq(Symbol)
    BY <1>4, <1>9, <2>1, AnyTrailer
  <2>. QED  BY <1>3, <1>5, <1>9, <2>2, <2>3 DEF TypeOK, Text
<1>. QED  BY <1>2, <1>6, <1>8, <1>9

LEMMA AnyData ==
  ASSUME TypeOK, Text(stream), Text(out), ReadData
  PROVE  TypeOK' /\ Text(out') /\ Text(stream') /\ fault' = fault /\ status' # "accepted"
<1>1. status = "reading" /\ remain > 0 /\ UNCHANGED <<upload, stream, fault>>
  BY DEF ReadData
<1>2. PICK K \in Nat : K = Len(stream)
  BY DEF Text
<1>3. /\ upload \in Uploads /\ fault \in {"none", "cut", "damage", "size", "framing"}
      /\ pos \in 0 .. K /\ remain \in Nat /\ started \in BOOLEAN /\ Len(out) <= pos
      /\ trailer \in Seq(Symbol) /\ Len(out) \in Nat
  BY <1>2 DEF TypeOK, Text
<1>4. CASE Break
  <2>1. status' = "failed" /\ UNCHANGED <<pos, remain, started, out, trailer>>
    BY <1>4 DEF Break, Fail
  <2>. QED  BY <1>1, <1>2, <1>3, <2>1 DEF TypeOK, Text
<1>5. CASE \E k \in Piece :
             /\ out' = out \o SubSeq(stream, pos + 1, pos + k)
             /\ pos' = pos + k /\ remain' = remain - k
             /\ UNCHANGED <<started, trailer, status>>
  <2>1. PICK k \in Piece :
          /\ out' = out \o SubSeq(stream, pos + 1, pos + k)
          /\ pos' = pos + k /\ remain' = remain - k
          /\ UNCHANGED <<started, trailer, status>>
    BY <1>5
  <2>2. k \in Nat /\ k # 0 /\ k <= remain /\ pos + k <= K
    BY <1>2, <1>3, MaxReadType DEF Piece
  <2>3. Text(out') /\ Len(out') = Len(out) + k
    <3>1. pos \in Nat /\ pos + k <= Len(stream)
      BY <1>2, <1>3, <2>2
    <3>. QED  BY <2>1, <2>2, <3>1, Appended
  <2>4. pos' \in 0 .. Len(stream') /\ Len(out') <= pos' /\ remain' \in Nat
    BY <1>1, <1>2, <1>3, <2>1, <2>2, <2>3
  <2>5. Text(stream') /\ status' = "reading"
    BY <1>1, <2>1 DEF Text
  <2>. QED  BY <1>1, <1>3, <2>1, <2>3, <2>4, <2>5 DEF TypeOK
<1>. QED  BY <1>4, <1>5 DEF ReadData

-----------------------------------------------------------------------------
(***************************************************************************)
(* Theorems                                                                *)
(***************************************************************************)

LEMMA StepInv ==
  ASSUME AnyInv, [Next]_vars
  PROVE  AnyInv'
<1>1. CASE ReadSize
  <2>1. TypeOK' /\ Text(out') /\ Text(stream') /\ fault' = fault /\ status' # "accepted"
    BY <1>1, AnySize DEF AnyInv
  <2>. QED  BY <1>1, <2>1, SizeStep DEF AnyInv
<1>2. CASE ReadData
  <2>1. TypeOK' /\ Text(out') /\ Text(stream') /\ fault' = fault /\ status' # "accepted"
    BY <1>2, AnyData DEF AnyInv
  <2>. QED  BY <1>2, <2>1, DataStep DEF AnyInv
<1>3. CASE Verify
  <2>1. TypeOK' /\ Text(out') /\ Text(stream') /\ fault' = fault
    BY <1>3 DEF AnyInv, Verify, TypeOK, Text
  <2>2. status' = "accepted" => Matches'
    BY <1>3 DEF Verify, Matches
  <2>. QED  BY <1>3, <2>1, <2>2, VerifyStep DEF AnyInv
<1>4. CASE UNCHANGED vars
  <2>1. TypeOK' /\ Text(out') /\ Text(stream') /\ fault' = fault
    BY <1>4 DEF AnyInv, vars, TypeOK, Text
  <2>2. status' = "accepted" => Matches'
    BY <1>4 DEF AnyInv, vars, Matches
  <2>. QED  BY <1>4, <2>1, <2>2, StutterStep DEF AnyInv
<1>. QED  BY <1>1, <1>2, <1>3, <1>4 DEF Next

LEMMA Invariant == Spec => []AnyInv
<1>1. Init => AnyInv
  <2>. SUFFICES ASSUME Init PROVE AnyInv
    OBVIOUS
  <2>1. TypeOK /\ Text(stream) /\ Text(out)
    BY AnyInit
  <2>2. status # "accepted"
    BY DEF Init
  <2>. QED  BY <2>1, <2>2, InitInv DEF AnyInv
<1>2. AnyInv /\ [Next]_vars => AnyInv'
  BY StepInv
<1>. QED  BY <1>1, <1>2, PTL DEF Spec

\* Every variable keeps its type, whatever the pieces that chunked.go reads the
\* stream in.
THEOREM BodyTypes == Spec => []TypeOK
<1>1. AnyInv => TypeOK
  BY DEF AnyInv
<1>. QED  BY <1>1, Invariant, PTL

\* chunkedReader stores no framing while the size lines arrive as they were sent:
\* what it decodes is the beginning of the object, but for a byte damaged on the way.
THEOREM FramingNeverStored == Spec => []NoFramingStored
<1>1. AnyInv => NoFramingStored
  <2>1. SUFFICES ASSUME BInv PROVE NoFramingStored
    BY DEF AnyInv, NoFramingStored
  <2>2. Decoded /\ upload \in Uploads
    BY <2>1 DEF BInv, Arrived
  <2>3. PICK c : c = Content(upload) /\ c \in Seq(Symbol)
    BY <2>2, HeldIs DEF Text
  <2>4. /\ out \in Seq(Symbol) /\ Len(out) <= Len(c)
        /\ \A i \in 1 .. Len(out) : out[i] = c[i] \/ (fault = "damage" /\ out[i] \in Noise)
    BY <2>2, <2>3, Zenon DEF Decoded, Text
  <2>5. \A i \in DOMAIN out : out[i] \in {c[i]} \cup Noise
    BY <2>4
  <2>6. ASSUME fault # "damage" PROVE IsPrefix(out, c)
    <3>1. PICK L \in Nat : L = Len(out)
      BY <2>4
    <3>2. PICK x, y : x = SubSeq(out, 1, L) /\ y = SubSeq(c, 1, L)
      OBVIOUS
    <3>3. x \in Seq(Symbol) /\ Len(x) = L /\ \A i \in 1 .. L : x[i] = out[i]
      <4>1. L \in 0 .. Len(out) /\ out \in Seq(Symbol)
        BY <2>4, <3>1
      <4>. QED  BY <3>2, <4>1, FirstOf
    <3>4. y \in Seq(Symbol) /\ Len(y) = L /\ \A i \in 1 .. L : y[i] = c[i]
      <4>1. L \in 0 .. Len(c) /\ c \in Seq(Symbol)
        <5>1. Len(c) \in Nat
          BY <2>3
        <5>2. L <= Len(c)
          BY <2>4, <3>1, Zenon
        <5>. QED  BY <2>3, <3>1, <5>1, <5>2
      <4>. QED  BY <3>2, <4>1, FirstOf
    <3>5. \A i \in 1 .. L : out[i] = c[i]
      BY <2>4, <2>6, <3>1, Zenon
    <3>6. \A i \in 1 .. L : x[i] = y[i]
      BY <3>3, <3>4, <3>5
    <3>7. x = y
      BY <3>3, <3>4, <3>6
    <3>. QED  BY <2>4, <3>1, <3>2, <3>7, Zenon DEF IsPrefix
  <2>. QED  BY <2>3, <2>4, <2>5, <2>6, Zenon DEF NoFramingStored
<1>. QED  BY <1>1, Invariant, PTL

\* A body that breaks off is not taken for a shorter one, unless a size is padded
\* with zeros, and neither is one damaged elsewhere than in a size line: chunkedReader
\* ends only where the client's zero is, or what a cut leaves of a size.
THEOREM CutsAreNoticed == Spec => []CutIsNoticed
<1>1. AnyInv => CutIsNoticed
  BY DEF AnyInv, BInv, Ended, CutIsNoticed
<1>. QED  BY <1>1, Invariant, PTL

\* checksumValidator lets no body through that differs from the digest it came with,
\* whichever byte is damaged or missing; with the digest in a trailer, unless the
\* damage is in a size line or the break in a padded one and the trailer is not read.
THEOREM DamageNoticed == Spec => []DamageIsNoticed
<1>1. AnyInv => DamageIsNoticed
  <2>1. SUFFICES ASSUME AnyInv, status = "accepted",
                        \/ upload.asserts \in {"md5", "header"}
                        \/ /\ upload.asserts = "trailer"
                           /\ \/ trailer # <<>>
                              \/ ~(fault = "size" \/ (fault = "cut" /\ Padded(upload)))
                 PROVE  out = Content(upload)
    BY DEF DamageIsNoticed
  <2>2. Matches
    BY <2>1 DEF AnyInv
  <2>3. CASE upload.asserts \in {"md5", "header"}
    BY <2>2, <2>3 DEF Matches
  <2>4. CASE upload.asserts = "trailer" /\ trailer # <<>>
    BY <2>2, <2>4 DEF Matches
  <2>5. CASE /\ upload.asserts = "trailer" /\ trailer = <<>>
             /\ ~(fault = "size" \/ (fault = "cut" /\ Padded(upload)))
    <3>1. Ended /\ Decoded /\ upload \in Uploads
      BY <2>1, <2>5 DEF AnyInv, BInv, Arrived
    <3>2. Len(out) = Len(Content(upload)) /\ fault \notin {"none", "damage"}
      <4>1. fault \in {"none", "damage"} => trailer = <<First, Second>>
        BY <2>1, <2>5, <3>1 DEF Ended
      <4>. QED  BY <2>1, <2>5, <3>1, <4>1 DEF Ended
    <3>. QED  BY <3>1, <3>2, AllOfIt
  <2>. QED  BY <2>1, <2>3, <2>4, <2>5
<1>. QED  BY <1>1, Invariant, PTL

\* An undisturbed upload is never refused, however it is framed and whatever the
\* pieces it is read in, and is stored as it was sent.
THEOREM UndisturbedBodiesAccepted == Spec => []UndisturbedAccepted
<1>1. AnyInv => UndisturbedAccepted
  <2>1. SUFFICES ASSUME BInv, fault = "none"
                 PROVE  /\ status \notin {"failed", "BadDigest"}
                        /\ Answered => out = Content(upload)
    BY DEF AnyInv, UndisturbedAccepted
  <2>2. status \notin {"failed", "BadDigest"}
    BY <2>1 DEF BInv, Judged
  <2>3. ASSUME Answered PROVE out = Content(upload)
    <3>1. status = "accepted"
      BY <2>2, <2>3 DEF Answered
    <3>2. Len(out) = Len(Content(upload))
      BY <2>1, <3>1 DEF BInv, Ended
    <3>3. Decoded /\ upload \in Uploads
      BY <2>1 DEF BInv, Arrived
    <3>. QED  BY <2>1, <3>2, <3>3, AllOfIt
  <2>. QED  BY <2>2, <2>3
<1>. QED  BY <1>1, Invariant, PTL

\* What parseRange makes of a header that asks for those positions of an object: none
\* of them is there, or they are some bytes from an offset on, all of them there.
Grants(r, size, asked) ==
  \/ r.status = 416 /\ asked = {}
  \/ /\ r.status # 416 /\ r.offset \in Nat /\ r.length \in Nat /\ r.length # 0
     /\ r.offset + r.length <= size
     /\ asked = r.offset .. r.offset + r.length - 1

\* A range with both ends in an object.
LEMMA SpanIs ==
  ASSUME NEW size \in Nat, size # 0, NEW start \in Nat, NEW end \in Nat,
         NEW r, r = Span(start, end, size), NEW A,
         A = {n \in 0 .. size - 1 : n >= start /\ n <= end}
  PROVE  Grants(r, size, A)
<1>1. CASE start >= size \/ end < start
  <2>1. r = Unsatisfiable
    BY <1>1 DEF Span
  <2>2. A = {}
    BY <1>1
  <2>. QED  BY <2>1, <2>2 DEF Unsatisfiable, Grants
<1>2. CASE ~(start >= size \/ end < start)
  <2>1. PICK last \in Nat : /\ last = Smaller(end, size - 1)
                            /\ last <= end /\ last <= size - 1 /\ start <= last
                            /\ (last = end \/ last = size - 1)
    BY <1>2 DEF Smaller
  <2>2. PICK length \in Nat : length = last - start + 1 /\ length # 0 /\ start + length - 1 = last
    <3>1. last - start + 1 \in Nat
      BY <2>1
    <3>. QED  BY <2>1, <3>1
  <2>3. r = Part(start, length)
    BY <1>2, <2>1, <2>2, Zenon DEF Span
  <2>4. r.status # 416 /\ r.offset = start /\ r.length = length
    BY <2>3 DEF Part
  <2>5. A = start .. last
    BY <1>2, <2>1
  <2>6. start + length <= size
    BY <2>1, <2>2
  <2>7. A = start .. start + length - 1
    BY <2>2, <2>5, Zenon
  <2>8. A = r.offset .. r.offset + r.length - 1
    BY <2>4, <2>7, Zenon
  <2>9. r.offset \in Nat /\ r.length \in Nat /\ r.length # 0 /\ r.offset + r.length <= size
    BY <2>2, <2>4, <2>6
  <2>. QED  BY <2>4, <2>8, <2>9, Zenon DEF Grants
<1>. QED  BY <1>1, <1>2

LEMMA RangeIs ==
  ASSUME NEW h \in Headers, NEW size \in Nat, size # 0, NEW r, r = ParseRange(h, size)
  PROVE  Grants(r, size, Asked(h, size))
<1>1. CASE h.form = "other"
  <2>1. r = Whole(size)
    BY <1>1 DEF ParseRange
  <2>2. r.status # 416 /\ r.offset = 0 /\ r.length = size
    BY <2>1 DEF Whole
  <2>3. Asked(h, size) = 0 .. 0 + size - 1
    BY <1>1 DEF Asked
  <2>4. 0 \in Nat /\ 0 + size <= size
    OBVIOUS
  <2>5. Asked(h, size) = r.offset .. r.offset + r.length - 1
    BY <2>2, <2>3, Zenon
  <2>6. r.offset \in Nat /\ r.length \in Nat /\ r.length # 0 /\ r.offset + r.length <= size
    BY <2>2, <2>4
  <2>. QED  BY <2>2, <2>5, <2>6, Zenon DEF Grants
<1>2. CASE h.form = "bad"
  <2>1. r.status = 416
    BY <1>2 DEF ParseRange, Unsatisfiable
  <2>2. Asked(h, size) = {}
    BY <1>2 DEF Asked
  <2>. QED  BY <2>1, <2>2, Zenon DEF Grants
<1>3. CASE h.form = "last"
  <2>1. PICK count \in Nat : count = h.count
    BY <1>3, MaxOffsetType DEF Headers, Number
  <2>2. Asked(h, size) = {n \in 0 .. size - 1 : n >= size - count}
    BY <1>3, <2>1 DEF Asked
  <2>3. r = IF count = 0 THEN Unsatisfiable
            ELSE Part(size - Smaller(count, size), Smaller(count, size))
    BY <1>3, <2>1 DEF ParseRange
  <2>4. CASE count = 0
    <3>1. r.status = 416
      BY <2>3, <2>4 DEF Unsatisfiable
    <3>2. Asked(h, size) = {}
      BY <2>2, <2>4
    <3>. QED  BY <3>1, <3>2, Zenon DEF Grants
  <2>5. CASE count # 0
    <3>1. PICK length \in Nat : /\ length = Smaller(count, size) /\ length # 0
                                /\ length <= size
                                /\ (length = count \/ (length = size /\ size <= count))
      BY <2>5 DEF Smaller
    <3>2. PICK offset \in Nat : offset = size - length
      BY <3>1
    <3>3. r = Part(offset, length)
      BY <2>3, <2>5, <3>1, <3>2, Zenon
    <3>4. r.status # 416 /\ r.offset = offset /\ r.length = length
      BY <3>3 DEF Part
    <3>5. Asked(h, size) = offset .. offset + length - 1
      BY <2>2, <3>1, <3>2
    <3>6. offset + length <= size
      BY <3>1, <3>2
    <3>7. Asked(h, size) = r.offset .. r.offset + r.length - 1
      BY <3>4, <3>5, Zenon
    <3>8. r.offset \in Nat /\ r.length \in Nat /\ r.length # 0 /\ r.offset + r.length <= size
      BY <3>1, <3>4, <3>6, Zenon
    <3>. QED  BY <3>4, <3>7, <3>8, Zenon DEF Grants
  <2>. QED  BY <2>4, <2>5
<1>4. CASE h.form = "from"
  <2>1. PICK start \in Nat : start = h.start
    BY <1>4, MaxOffsetType DEF Headers, Number
  <2>2. PICK end \in Nat : end = size - 1
    OBVIOUS
  <2>3. r = Span(start, end, size)
    BY <1>4, <2>1, <2>2 DEF ParseRange
  <2>4. Asked(h, size) = {n \in 0 .. size - 1 : n >= start /\ n <= end}
    BY <1>4, <2>1, <2>2 DEF Asked
  <2>5. PICK A : A = Asked(h, size)
    OBVIOUS
  <2>6. A = {n \in 0 .. size - 1 : n >= start /\ n <= end}
    BY <2>4, <2>5, Zenon
  <2>7. Grants(r, size, A)
    BY <2>3, <2>6, SpanIs
  <2>. QED  BY <2>5, <2>7, Zenon
<1>5. CASE h.form = "span"
  <2>1. PICK start, end \in Nat : start = h.start /\ end = h.end
    BY <1>5, MaxOffsetType DEF Headers, Number
  <2>2. r = Span(start, end, size)
    BY <1>5, <2>1 DEF ParseRange
  <2>3. Asked(h, size) = {n \in 0 .. size - 1 : n >= start /\ n <= end}
    BY <1>5, <2>1 DEF Asked
  <2>4. PICK A : A = Asked(h, size)
    OBVIOUS
  <2>5. A = {n \in 0 .. size - 1 : n >= start /\ n <= end}
    BY <2>3, <2>4, Zenon
  <2>6. Grants(r, size, A)
    BY <2>2, <2>5, SpanIs
  <2>. QED  BY <2>4, <2>6, Zenon
<1>6. h.form \in {"other", "bad", "last", "from", "span"}
  BY DEF Headers
<1>. QED  BY <1>1, <1>2, <1>3, <1>4, <1>5, <1>6

\* An answer to a header that asks for those bytes of the upload that is read.
Serves(r, asked) ==
  /\ r.status = 416 <=> asked = {}
  /\ r.status # 416 =>
       /\ Len(Served(r, out)) = r.length /\ r.length = Cardinality(asked)
       /\ \A n \in asked : Served(r, out)[n - r.offset + 1] = out[n + 1]

\* parseRange and GetObjectRange serve just what a Range header asks for of an object
\* that is not empty: its bytes, as many as announced, or 416 when there are none.
THEOREM RangesServeUploads == Spec => []RangesServeTheUpload
<1>1. AnyInv => RangesServeTheUpload
  <2>1. SUFFICES ASSUME AnyInv, out # <<>>, NEW h \in Headers
                 PROVE  Serves(ParseRange(h, Len(out)), Asked(h, Len(out)))
    BY DEF RangesServeTheUpload, Serves
  <2>2. PICK r : r = ParseRange(h, Len(out))
    OBVIOUS
  <2>3. PICK asked : asked = Asked(h, Len(out))
    OBVIOUS
  <2>. SUFFICES Serves(r, asked)
    BY <2>2, <2>3, Zenon
  <2>4. PICK size \in Nat : size = Len(out) /\ size # 0 /\ out \in Seq(Symbol)
    BY <2>1 DEF AnyInv, Text
  <2>5. Grants(r, size, Asked(h, size))
    <3>1. r = ParseRange(h, size)
      BY <2>4, <2>2, Zenon
    <3>. QED  BY <2>1, <2>4, <3>1, RangeIs
  <2>6. CASE r.status = 416 /\ Asked(h, size) = {}
    <3>1. r.status = 416 /\ asked = {}
      BY <2>4, <2>6, <2>3, Zenon
    <3>. QED  BY <3>1, Zenon DEF Serves
  <2>7. CASE /\ r.status # 416 /\ r.offset \in Nat /\ r.length \in Nat /\ r.length # 0
             /\ r.offset + r.length <= size
             /\ Asked(h, size) = r.offset .. r.offset + r.length - 1
    <3>1. PICK offset, length \in Nat :
            /\ offset = r.offset /\ length = r.length /\ length # 0 /\ offset + length <= size
            /\ asked = offset .. offset + length - 1
      BY <2>3, <2>4, <2>7, Zenon
    <3>2. asked # {} /\ Cardinality(asked) = length
      <4>0. offset \in Nat /\ length \in Nat /\ length # 0
        BY <3>1
      <4>1. offset \in Int /\ offset + length - 1 \in Int /\ offset <= offset + length - 1
            /\ (offset + length - 1) - offset + 1 = length
        BY ONLY <4>0
      <4>2. PICK last : last = offset + length - 1
        OBVIOUS
      <4>3. Cardinality(offset .. last) = last - offset + 1
        BY <4>1, <4>2, FS_Interval
      <4>4. offset \in offset .. offset + length - 1
        BY <4>1
      <4>. QED  BY <3>1, <4>1, <4>2, <4>3, <4>4, Zenon
    <3>3. PICK x : x = Served(r, out) /\ x = SubSeq(out, offset + 1, offset + length)
      <4>1. Smaller(offset + length, size) = offset + length
        BY <3>1 DEF Smaller
      <4>2. Served(r, out) = SubSeq(out, offset + 1, Smaller(offset + length, size))
        BY <2>4, <3>1, Zenon DEF Served
      <4>. QED  BY <4>1, <4>2, Zenon
    <3>4. Len(x) = length /\ \A i \in 1 .. length : x[i] = out[offset + i]
      <4>1. offset + length <= Len(out)
        BY <2>4, <3>1, Zenon
      <4>. QED  BY <2>4, <3>3, <4>1, MiddleOf
    <3>5. ASSUME NEW n \in asked PROVE x[n - offset + 1] = out[n + 1]
      <4>1. n \in offset .. offset + length - 1
        BY <3>1
      <4>2. n - offset + 1 \in 1 .. length /\ offset + (n - offset + 1) = n + 1
        BY <4>1
      <4>3. PICK i \in 1 .. length : i = n - offset + 1 /\ offset + i = n + 1
        BY <4>2
      <4>4. x[i] = out[offset + i]
        BY <3>4, Zenon
      <4>. QED  BY <4>3, <4>4, Zenon
    <3>6. /\ Len(Served(r, out)) = r.length
          /\ r.length = Cardinality(asked)
      BY <3>1, <3>2, <3>3, <3>4, Zenon
    <3>7. ASSUME NEW n \in asked PROVE Served(r, out)[n - r.offset + 1] = out[n + 1]
      <4>1. x[n - offset + 1] = out[n + 1]
        BY <3>5, Zenon
      <4>. QED  BY <3>1, <3>3, <4>1, Zenon
    <3>. QED  BY <2>7, <3>2, <3>6, <3>7, Zenon DEF Serves
  <2>. QED  BY <2>5, <2>6, <2>7 DEF Grants
<1>. QED  BY <1>1, Invariant, PTL

=============================================================================
