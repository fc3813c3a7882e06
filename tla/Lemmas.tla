------------------------------- MODULE Lemmas -------------------------------
(* Facts about numbers, finite sets and sequences that the proofs of several modules use. *)
EXTENDS Integers, Sequences, FiniteSetTheorems, SequenceTheorems, TLAPS

\* A set of numbers that is not empty has a least one.
LEMMA LeastNumber ==
  ASSUME NEW T, T \subseteq Nat, T # {}
  PROVE  \E x \in T : \A y \in T : x <= y
<1>1. PICK n \in T : TRUE
  OBVIOUS
<1> DEFINE P == {k \in 0 .. n : \A t \in T : k <= t}
           c == Cardinality(P)
<1>2. IsFiniteSet(P) /\ c \in Nat
  <2>1. IsFiniteSet(0 .. n)
    BY <1>1, FS_Interval
  <2>2. IsFiniteSet(P)
    BY <2>1, FS_Subset
  <2>3. QED BY <2>2, FS_CardinalityType
<1>3. 0 \in P /\ \A k \in P : \A j \in 0 .. k : j \in P
  BY <1>1
<1>4. c \notin P
  <2> SUFFICES ASSUME c \in P PROVE FALSE
    OBVIOUS
  <2>1. 0 .. c \subseteq P
    BY <1>3
  <2>2. Cardinality(0 .. c) <= c
    BY <1>2, <2>1, FS_Subset
  <2>3. Cardinality(0 .. c) = c + 1
    BY <1>2, FS_Interval
  <2> HIDE DEF c
  <2>4. QED BY <1>2, <2>2, <2>3
<1>5. c # 0 /\ c - 1 \in P
  <2>1. c # 0
    BY <1>2, <1>3, FS_EmptySet
  <2>2. ASSUME c - 1 \notin P PROVE FALSE
    <3>1. P \subseteq 0 .. c - 2
      <4> SUFFICES ASSUME NEW k \in P PROVE k \in 0 .. c - 2
        OBVIOUS
      <4>1. k \in Nat /\ ~(c - 1 \in 0 .. k)
        BY <1>1, <1>3, <2>2
      <4> HIDE DEF P, c
      <4>2. QED BY <1>2, <2>1, <4>1
    <3>2. IsFiniteSet(0 .. c - 2) /\ Cardinality(0 .. c - 2) <= c - 1
      <4> HIDE DEF P, c
      <4>1. IsFiniteSet(0 .. c - 2) /\ Cardinality(0 .. c - 2) = IF 0 > c - 2 THEN 0 ELSE c - 2 - 0 + 1
        BY <1>2, FS_Interval
      <4>2. QED BY <1>2, <2>1, <4>1
    <3>3. c <= Cardinality(0 .. c - 2)
      BY <3>1, <3>2, FS_Subset
    <3> HIDE DEF P, c
    <3>4. QED 
      <4>1. Cardinality(0 .. c - 2) \in Nat
        BY <3>2, FS_CardinalityType
      <4>2. QED BY <1>2, <3>2, <3>3, <4>1
  <2>3. QED BY <2>1, <2>2
<1>6. c - 1 \in T
  <2>1. PICK t \in T : ~(c <= t)
    <3>1. CASE c \in 0 .. n
      BY <1>4, <3>1
    <3>2. CASE c \notin 0 .. n
      BY <1>1, <1>2, <3>2
    <3>3. QED BY <3>1, <3>2
  <2>2. c - 1 <= t
    BY <1>5
  <2> HIDE DEF c
  <2>3. QED BY <1>2, <2>1, <2>2
<1>7. QED BY <1>5, <1>6

\* A sequence without its entry p.
WithoutPlace(s, p) == SubSeq(s, 1, p - 1) \o SubSeq(s, p + 1, Len(s))

\* Where an entry was before entry p was taken out.
OldPlace(p, i) == IF i < p THEN i ELSE i + 1

\* A sequence without its entry p: the others stay, in their order.
LEMMA TakenOut ==
  ASSUME NEW S, NEW s \in Seq(S), NEW p \in 1 .. Len(s), NEW r, r = WithoutPlace(s, p)
  PROVE  /\ r \in Seq(S)
         /\ Len(r) = Len(s) - 1
         /\ \A i \in 1 .. Len(s) - 1 : r[i] = IF i < p THEN s[i] ELSE s[i + 1]
<1> DEFINE n == Len(s)
           a == SubSeq(s, 1, p - 1)
           b == SubSeq(s, p + 1, n)
<1>1. n \in Nat /\ DOMAIN s = 1 .. n /\ p \in 1 .. n
  BY LenProperties
<1>2. a \in Seq(S) /\ Len(a) = p - 1 /\ \A i \in 1 .. p - 1 : a[i] = s[i]
  <2>1. \A i \in 1 .. p - 1 : s[i] \in S
    BY <1>1, ElementOfSeq
  <2>2. /\ a \in Seq(S) /\ Len(a) = IF 1 <= p - 1 THEN (p - 1) - 1 + 1 ELSE 0
        /\ \A i \in 1 .. (p - 1) - 1 + 1 : a[i] = s[1 + i - 1]
    BY <1>1, <2>1, SubSeqProperties
  <2> HIDE DEF a, n
  <2>3. QED
    BY <1>1, <2>2
<1>3. b \in Seq(S) /\ Len(b) = n - p /\ \A i \in 1 .. n - p : b[i] = s[p + i]
  <2>1. \A i \in p + 1 .. n : s[i] \in S
    BY <1>1, ElementOfSeq
  <2>2. p + 1 \in 1 .. n + 1
    BY <1>1
  <2>3. /\ b \in Seq(S) /\ Len(b) = IF p + 1 <= n THEN n - (p + 1) + 1 ELSE 0
        /\ \A i \in 1 .. n - (p + 1) + 1 : b[i] = s[(p + 1) + i - 1]
    BY <1>1, <2>1, <2>2, SubSeqProperties
  <2> HIDE DEF b, n
  <2>4. Len(b) = n - p
    BY <1>1, <2>3
  <2>5. ASSUME NEW i \in 1 .. n - p PROVE b[i] = s[p + i]
    <3>1. i \in 1 .. n - (p + 1) + 1 /\ (p + 1) + i - 1 = p + i
      BY <1>1
    <3>2. b[i] = s[(p + 1) + i - 1]
      BY <2>3, <3>1
    <3>3. QED BY <3>1, <3>2
  <2>6. QED
    BY <2>3, <2>4, <2>5
<1>4. r = a \o b
  BY DEF WithoutPlace
<1> HIDE DEF a, b, n
<1>5. /\ a \o b \in Seq(S) /\ Len(a \o b) = Len(a) + Len(b)
      /\ \A i \in 1 .. Len(a) + Len(b) : (a \o b)[i] = IF i <= Len(a) THEN a[i] ELSE b[i - Len(a)]
  BY <1>2, <1>3, ConcatProperties
<1>6. /\ r \in Seq(S) /\ Len(r) = n - 1
      /\ \A i \in 1 .. n - 1 : r[i] = IF i < p THEN s[i] ELSE s[i + 1]
  <2>1. r \in Seq(S)
    BY <1>4, <1>5
  <2>3. Len(r) = Len(a) + Len(b)
    BY <1>4, <1>5
  <2>4. Len(r) = n - 1
    <3>1. Len(a) = p - 1 /\ Len(b) = n - p
      BY <1>2, <1>3
    <3>2. (p - 1) + (n - p) = n - 1
      BY <1>1
    <3>3. QED BY <2>3, <3>1, <3>2
  <2>2. ASSUME NEW i \in 1 .. n - 1 PROVE r[i] = IF i < p THEN s[i] ELSE s[i + 1]
    <3>1. i \in 1 .. Len(a) + Len(b)
      BY <1>1, <1>2, <1>3
    <3>2. r[i] = IF i <= Len(a) THEN a[i] ELSE b[i - Len(a)]
      BY <1>4, <1>5, <3>1
    <3>3. CASE i < p
      <4>1. i <= Len(a) /\ i \in 1 .. p - 1
        BY <1>1, <1>2, <3>3
      <4>2. QED BY <1>2, <3>2, <3>3, <4>1
    <3>4. CASE ~(i < p)
      <4>1. ~(i <= Len(a)) /\ i - Len(a) \in 1 .. n - p /\ p + (i - Len(a)) = i + 1
        BY <1>1, <1>2, <3>4
      <4>2. b[i - Len(a)] = s[i + 1]
        BY <1>3, <4>1
      <4>3. QED BY <3>2, <3>4, <4>1, <4>2
    <3>5. QED BY <3>3, <3>4
  <2>5. QED
    BY <2>1, <2>2, <2>4
<1>7. n = Len(s)
  BY DEF n
<1>8. QED
  BY <1>6, <1>7

\* The entries that stay were at every place but p, in the same order.
LEMMA OldPlaces ==
  ASSUME NEW S, NEW s \in Seq(S), NEW p \in DOMAIN s, NEW r, r = WithoutPlace(s, p)
  PROVE  /\ \A i \in DOMAIN r : OldPlace(p, i) \in DOMAIN s \ {p} /\ r[i] = s[OldPlace(p, i)]
         /\ \A i, j \in DOMAIN r : i < j <=> OldPlace(p, i) < OldPlace(p, j)
         /\ \A i, j \in DOMAIN r : OldPlace(p, i) = OldPlace(p, j) => i = j
         /\ \A k \in DOMAIN s \ {p} : \E i \in DOMAIN r : OldPlace(p, i) = k
<1>1. PICK n \in Nat : n = Len(s) /\ DOMAIN s = 1 .. n /\ p \in 1 .. n
  BY LenProperties
<1>2. /\ r \in Seq(S) /\ Len(r) = n - 1
      /\ \A i \in 1 .. n - 1 : r[i] = IF i < p THEN s[i] ELSE s[i + 1]
  BY <1>1, TakenOut
<1>3. DOMAIN r = 1 .. n - 1
  BY <1>2, LenProperties
<1>4. \A i \in 1 .. n - 1 : OldPlace(p, i) \in (1 .. n) \ {p} /\ r[i] = s[OldPlace(p, i)]
  <2> SUFFICES ASSUME NEW i \in 1 .. n - 1
               PROVE  OldPlace(p, i) \in (1 .. n) \ {p} /\ r[i] = s[OldPlace(p, i)]
    OBVIOUS
  <2>1. r[i] = IF i < p THEN s[i] ELSE s[i + 1]
    BY <1>2
  <2>2. OldPlace(p, i) \in (1 .. n) \ {p}
    BY <1>1 DEF OldPlace
  <2>3. QED
    BY <2>1, <2>2 DEF OldPlace
<1>5. /\ \A i, j \in 1 .. n - 1 : i < j <=> OldPlace(p, i) < OldPlace(p, j)
      /\ \A i, j \in 1 .. n - 1 : OldPlace(p, i) = OldPlace(p, j) => i = j
  BY <1>1 DEF OldPlace
<1>6. ASSUME NEW k \in (1 .. n) \ {p}
      PROVE  \E i \in 1 .. n - 1 : OldPlace(p, i) = k
  <2>1. CASE k < p
    BY <1>1, <2>1 DEF OldPlace
  <2>2. CASE p < k
    <3>1. k - 1 \in 1 .. n - 1 /\ OldPlace(p, k - 1) = k
      BY <1>1, <2>2 DEF OldPlace
    <3>2. QED
      BY <3>1
  <2>3. QED
    BY <1>1, <2>1, <2>2
<1>7. QED
  BY <1>1, <1>3, <1>4, <1>5, <1>6

\* A function with a finite domain has finitely many values.
LEMMA FiniteRange ==
  ASSUME NEW D, NEW T, IsFiniteSet(D), NEW f \in [D -> T]
  PROVE  IsFiniteSet({f[x] : x \in D})
<1>1. PICK R : R = {f[x] : x \in D}
  OBVIOUS
<1>2. f \in Surjection(D, R)
  BY <1>1 DEF Surjection
<1>3. IsFiniteSet(R)
  BY <1>2, FS_Surjection
<1>4. QED
  BY <1>1, <1>3

\* The places of a sequence are finitely many.
LEMMA FiniteDomain ==
  ASSUME NEW S, NEW s \in Seq(S)
  PROVE  IsFiniteSet(DOMAIN s)
<1>1. PICK n \in Nat : DOMAIN s = 1 .. n
  BY LenProperties
<1>2. QED
  BY <1>1, FS_Interval

\* A sequence without places is the empty one.
LEMMA NoPlaces ==
  ASSUME NEW S, NEW s \in Seq(S)
  PROVE  DOMAIN s = {} <=> s = <<>>
<1>1. PICK n \in Nat : DOMAIN s = 1 .. n /\ n = Len(s)
  BY LenProperties
<1>2. s # <<>> => n # 0
  BY <1>1, EmptySeq
<1>3. s = <<>> => n = 0
  BY <1>1, EmptySeq
<1>4. QED
  BY <1>1, <1>2, <1>3

\* Two sets after a step that adds to the first no more than to the second, or
\* takes from the second no more than from the first.
Follows(H, A, H2, A2) ==
  \/ H2 \subseteq H /\ A \subseteq A2
  \/ \E h, v : H2 \subseteq H \cup {h} /\ v \notin A /\ A \cup {v} \subseteq A2
  \/ \E h, v : h \in H /\ H2 \subseteq H \ {h} /\ A \ {v} \subseteq A2

\* Such a step keeps the first set the smaller one.
LEMMA StaysSmaller ==
  ASSUME NEW H, NEW A, NEW H2, NEW A2,
         IsFiniteSet(H), IsFiniteSet(A), IsFiniteSet(A2), Cardinality(H) <= Cardinality(A),
         Follows(H, A, H2, A2)
  PROVE  Cardinality(H2) <= Cardinality(A2)
<1>1. Cardinality(H) \in Nat /\ Cardinality(A) \in Nat /\ Cardinality(A2) \in Nat
  BY FS_CardinalityType
<1>2. CASE H2 \subseteq H /\ A \subseteq A2
  <2>1. IsFiniteSet(H2) /\ Cardinality(H2) <= Cardinality(H) /\ Cardinality(A) <= Cardinality(A2)
    BY <1>2, FS_Subset
  <2>2. Cardinality(H2) \in Nat
    BY <2>1, FS_CardinalityType
  <2>3. QED BY <1>1, <2>1, <2>2
<1>3. CASE \E h, v : H2 \subseteq H \cup {h} /\ v \notin A /\ A \cup {v} \subseteq A2
  <2>1. PICK h, v : H2 \subseteq H \cup {h} /\ v \notin A /\ A \cup {v} \subseteq A2
    BY <1>3
  <2>2. IsFiniteSet(H \cup {h}) /\ Cardinality(H \cup {h}) <= Cardinality(H) + 1
    <3>1. CASE h \in H
      <4>1. H \cup {h} = H
        BY <3>1
      <4>2. IsFiniteSet(H) /\ Cardinality(H) <= Cardinality(H) + 1
        BY <1>1
      <4>3. QED BY <4>1, <4>2
    <3>2. CASE h \notin H
      <4>1. IsFiniteSet(H \cup {h}) /\ Cardinality(H \cup {h}) = Cardinality(H) + 1
        BY <3>2, FS_AddElement
      <4>2. QED BY <1>1, <4>1
    <3>3. QED BY <3>1, <3>2
  <2>3. IsFiniteSet(H2) /\ Cardinality(H2) <= Cardinality(H \cup {h})
    BY <2>1, <2>2, FS_Subset
  <2>4. IsFiniteSet(A \cup {v}) /\ Cardinality(A \cup {v}) = Cardinality(A) + 1
    BY <2>1, FS_AddElement
  <2>5. Cardinality(A \cup {v}) <= Cardinality(A2)
    BY <2>1, FS_Subset
  <2>6. Cardinality(H2) \in Nat /\ Cardinality(H \cup {h}) \in Nat
    BY <2>2, <2>3, FS_CardinalityType
  <2>7. QED BY <1>1, <2>2, <2>3, <2>4, <2>5, <2>6
<1>4. CASE \E h, v : h \in H /\ H2 \subseteq H \ {h} /\ A \ {v} \subseteq A2
  <2>1. PICK h, v : h \in H /\ H2 \subseteq H \ {h} /\ A \ {v} \subseteq A2
    BY <1>4
  <2>2. IsFiniteSet(H \ {h}) /\ Cardinality(H \ {h}) = Cardinality(H) - 1
    BY <2>1, FS_RemoveElement
  <2>3. IsFiniteSet(H2) /\ Cardinality(H2) <= Cardinality(H \ {h})
    BY <2>1, <2>2, FS_Subset
  <2>4. IsFiniteSet(A \ {v}) /\ Cardinality(A \ {v}) >= Cardinality(A) - 1
    <3>1. CASE v \in A
      <4>1. IsFiniteSet(A \ {v}) /\ Cardinality(A \ {v}) = Cardinality(A) - 1
        BY <3>1, FS_RemoveElement
      <4>2. QED BY <1>1, <4>1
    <3>2. CASE v \notin A
      <4>1. A \ {v} = A
        BY <3>2
      <4>2. QED BY <1>1, <4>1
    <3>3. QED BY <3>1, <3>2
  <2>5. Cardinality(A \ {v}) <= Cardinality(A2)
    BY <2>1, FS_Subset
  <2>6. Cardinality(H2) \in Nat /\ Cardinality(A \ {v}) \in Nat
    BY <2>3, <2>4, FS_CardinalityType
  <2>7. QED BY <1>1, <2>2, <2>3, <2>4, <2>5, <2>6
<1>5. QED
  BY <1>2, <1>3, <1>4 DEF Follows

\* A sequence with e put in at place k.
WithPlace(s, k, e) == SubSeq(s, 1, k - 1) \o <<e>> \o SubSeq(s, k, Len(s))

\* What was put in is at its place, and taking it out again gives the sequence back.
LEMMA PutIn ==
  ASSUME NEW S, NEW s \in Seq(S), NEW k \in 1 .. Len(s) + 1, NEW e \in S,
         NEW r, r = WithPlace(s, k, e)
  PROVE  /\ r \in Seq(S) /\ k \in DOMAIN r /\ r[k] = e
         /\ s = WithoutPlace(r, k)
<1> DEFINE a == SubSeq(s, 1, k - 1)
           c == SubSeq(s, k, Len(s))
<1>1. PICK n \in Nat : n = Len(s) /\ DOMAIN s = 1 .. n /\ k \in 1 .. n + 1
  BY LenProperties
<1>2. a \in Seq(S) /\ Len(a) = k - 1 /\ \A i \in 1 .. k - 1 : a[i] = s[i]
  <2>1. \A i \in 1 .. k - 1 : s[i] \in S
    BY <1>1, ElementOfSeq
  <2>2. /\ a \in Seq(S) /\ Len(a) = IF 1 <= k - 1 THEN (k - 1) - 1 + 1 ELSE 0
        /\ \A i \in 1 .. (k - 1) - 1 + 1 : a[i] = s[1 + i - 1]
    BY <1>1, <2>1, SubSeqProperties
  <2> HIDE DEF a
  <2>3. QED
    BY <1>1, <2>2
<1>3. c \in Seq(S) /\ Len(c) = n - k + 1 /\ \A i \in 1 .. n - k + 1 : c[i] = s[k + i - 1]
  <2>1. \A i \in k .. n : s[i] \in S
    BY <1>1, ElementOfSeq
  <2>2. /\ c \in Seq(S) /\ Len(c) = IF k <= n THEN n - k + 1 ELSE 0
        /\ \A i \in 1 .. n - k + 1 : c[i] = s[k + i - 1]
    BY <1>1, <2>1, SubSeqProperties
  <2> HIDE DEF c
  <2>3. QED
    BY <1>1, <2>2
<1>4. r = (a \o <<e>>) \o c
  BY <1>1 DEF WithPlace
<1> HIDE DEF a, c
<1>5. PICK b : b = a \o <<e>> /\ r = b \o c
  BY <1>4
<1>6. PICK d : d = <<e>> /\ d \in Seq(S) /\ Len(d) = 1 /\ d[1] = e
  <2>1. Len(<<e>>) = 1 /\ <<e>>[1] = e
    OBVIOUS
  <2>2. e \in S => <<e>> \in Seq(S)
    BY ONLY TRUE
  <2>3. QED
    BY <2>1, <2>2
<1>7. /\ b \in Seq(S) /\ Len(b) = Len(a) + Len(d)
      /\ \A i \in 1 .. Len(a) + Len(d) : b[i] = IF i <= Len(a) THEN a[i] ELSE d[i - Len(a)]
  <2>1. b = a \o d /\ a \in Seq(S) /\ d \in Seq(S)
    BY <1>2, <1>5, <1>6
  <2>2. QED
    BY ONLY <2>1, ConcatProperties
<1>8. b \in Seq(S) /\ Len(b) = k /\ b[k] = e /\ \A i \in 1 .. k - 1 : b[i] = s[i]
  <2>1. Len(b) = k
    BY <1>1, <1>2, <1>6, <1>7
  <2>2. b[k] = d[1]
    <3>1. k \in 1 .. Len(a) + Len(d) /\ ~(k <= Len(a)) /\ k - Len(a) = 1
      BY <1>1, <1>2, <1>6
    <3>2. QED
      BY <1>7, <3>1
  <2>3. \A i \in 1 .. k - 1 : b[i] = a[i]
    BY <1>1, <1>2, <1>6, <1>7
  <2>4. QED
    BY <1>2, <1>6, <1>7, <2>1, <2>2, <2>3
<1>9. /\ r \in Seq(S) /\ Len(r) = Len(b) + Len(c)
      /\ \A i \in 1 .. Len(b) + Len(c) : r[i] = IF i <= Len(b) THEN b[i] ELSE c[i - Len(b)]
  <2>1. r = b \o c /\ b \in Seq(S) /\ c \in Seq(S)
    BY <1>3, <1>5, <1>8
  <2>2. QED
    BY ONLY <2>1, ConcatProperties
<1>10. Len(r) = n + 1 /\ DOMAIN r = 1 .. n + 1
  BY <1>1, <1>3, <1>8, <1>9, LenProperties
<1>11. \A i \in 1 .. k : r[i] = b[i]
  BY <1>1, <1>3, <1>8, <1>9
<1>12. ASSUME NEW i \in k .. n PROVE r[i + 1] = s[i]
  <2>1. i + 1 \in 1 .. n + 1 /\ ~(i + 1 <= k) /\ i + 1 - k \in 1 .. n - k + 1 /\ k + (i + 1 - k) - 1 = i
    BY <1>1
  <2>2. r[i + 1] = c[i + 1 - k]
    BY <1>8, <1>9, <1>10, <2>1
  <2>3. c[i + 1 - k] = s[k + (i + 1 - k) - 1]
    BY <1>3, <2>1
  <2>4. QED
    BY <2>1, <2>2, <2>3
<1>13. PICK w : w = WithoutPlace(r, k)
  OBVIOUS
<1>14. /\ w \in Seq(S) /\ Len(w) = n
       /\ \A i \in 1 .. n : w[i] = IF i < k THEN r[i] ELSE r[i + 1]
  <2>1. k \in 1 .. Len(r) /\ Len(r) - 1 = n
    BY <1>1, <1>10
  <2>2. r \in Seq(S)
    BY <1>9
  <2>3. /\ w \in Seq(S) /\ Len(w) = Len(r) - 1
        /\ \A i \in 1 .. Len(r) - 1 : w[i] = IF i < k THEN r[i] ELSE r[i + 1]
    BY ONLY <1>13, <2>1, <2>2, TakenOut
  <2>4. QED
    BY <2>1, <2>3
<1>15. ASSUME NEW i \in 1 .. n PROVE w[i] = s[i]
  <2>1. CASE i < k
    BY <1>1, <1>8, <1>11, <1>14, <2>1
  <2>2. CASE ~(i < k)
    <3>1. i \in k .. n
      BY <1>1, <2>2
    <3>2. QED
      BY <1>12, <1>14, <2>2, <3>1
  <2>3. QED
    BY <2>1, <2>2
<1>16. s = w
  BY <1>1, <1>14, <1>15, SeqEqual
<1>17. r[k] = e /\ k \in DOMAIN r
  BY <1>1, <1>8, <1>10, <1>11
<1>18. QED
  BY <1>9, <1>13, <1>16, <1>17

\* Without its first entry a sequence is its tail.
LEMMA FirstTaken ==
  ASSUME NEW S, NEW s \in Seq(S), s # <<>>
  PROVE  1 \in DOMAIN s /\ Tail(s) = WithoutPlace(s, 1)
<1>1. PICK n \in Nat : n = Len(s) /\ DOMAIN s = 1 .. n
  BY LenProperties
<1>2. 1 \in 1 .. n
  BY <1>1, NoPlaces
<1>3. Tail(s) \in Seq(S) /\ Len(Tail(s)) = n - 1 /\ \A i \in 1 .. n - 1 : Tail(s)[i] = s[i + 1]
  BY <1>1, HeadTailProperties
<1>4. PICK w : w = WithoutPlace(s, 1)
  OBVIOUS
<1>5. w \in Seq(S) /\ Len(w) = n - 1 /\ \A i \in 1 .. n - 1 : w[i] = IF i < 1 THEN s[i] ELSE s[i + 1]
  BY <1>1, <1>2, <1>4, TakenOut
<1>6. \A i \in 1 .. n - 1 : w[i] = Tail(s)[i]
  BY <1>1, <1>3, <1>5
<1>7. w = Tail(s)
  BY <1>3, <1>5, <1>6, SeqEqual
<1>8. QED
  BY <1>1, <1>2, <1>4, <1>7

\* The places of a sequence whose entries are in P.
PlacesWhere(s, P) == {i \in DOMAIN s : s[i] \in P}

\* Taking an entry out takes one of the places of a set that it is in, and none of another.
LEMMA PlacesTaken ==
  ASSUME NEW S, NEW s \in Seq(S), NEW p \in DOMAIN s, NEW r, r = WithoutPlace(s, p), NEW P
  PROVE  /\ Cardinality(PlacesWhere(s, P)) \in Nat /\ Cardinality(PlacesWhere(r, P)) \in Nat
         /\ Cardinality(PlacesWhere(r, P)) = IF s[p] \in P THEN Cardinality(PlacesWhere(s, P)) - 1
                                                      ELSE Cardinality(PlacesWhere(s, P))
<1>1. PICK A : A = PlacesWhere(s, P)
  OBVIOUS
<1>2. PICK B : B = PlacesWhere(r, P)
  OBVIOUS
<1>3. IsFiniteSet(A)
  BY <1>1, FiniteDomain, FS_Subset DEF PlacesWhere
<1>4. /\ \A i \in DOMAIN r : OldPlace(p, i) \in DOMAIN s \ {p} /\ r[i] = s[OldPlace(p, i)]
      /\ \A i, j \in DOMAIN r : i < j <=> OldPlace(p, i) < OldPlace(p, j)
      /\ \A i, j \in DOMAIN r : OldPlace(p, i) = OldPlace(p, j) => i = j
      /\ \A k \in DOMAIN s \ {p} : \E i \in DOMAIN r : OldPlace(p, i) = k
  BY OldPlaces
<1>5. PICK f : f = [i \in B |-> OldPlace(p, i)]
  OBVIOUS
<1>6. f \in [B -> A \ {p}] /\ \A i \in B : f[i] = OldPlace(p, i)
  <2>1. \A i \in B : OldPlace(p, i) \in A \ {p}
    BY <1>1, <1>2, <1>4 DEF PlacesWhere
  <2>2. QED
    BY <1>5, <2>1
<1>7. \A k \in A \ {p} : \E i \in B : f[i] = k
  BY <1>1, <1>2, <1>4, <1>6 DEF PlacesWhere
<1>8. \A i, j \in B : f[i] = f[j] => i = j
  BY <1>2, <1>4, <1>6 DEF PlacesWhere
<1>9. f \in Bijection(B, A \ {p})
  BY <1>6, <1>7, <1>8 DEF Bijection, Injection, Surjection, IsInjective
<1>10. IsFiniteSet(B) /\ Cardinality(B) = Cardinality(A \ {p})
  <2>1. /\ IsFiniteSet(A \ {p})
        /\ Cardinality(A \ {p}) = IF p \in A THEN Cardinality(A) - 1 ELSE Cardinality(A)
    BY <1>3, FS_RemoveElement
  <2>2. f \in Injection(B, A \ {p}) /\ f \in Surjection(B, A \ {p})
    BY <1>9 DEF Bijection
  <2>3. QED
    BY <2>1, <2>2, FS_Injection
<1>11. Cardinality(A \ {p}) = IF p \in A THEN Cardinality(A) - 1 ELSE Cardinality(A)
  BY <1>3, FS_RemoveElement
<1>12. p \in A <=> s[p] \in P
  BY <1>1 DEF PlacesWhere
<1>13. Cardinality(A) \in Nat /\ Cardinality(B) \in Nat
  BY <1>3, <1>10, FS_CardinalityType
<1>14. QED
  BY <1>1, <1>2, <1>10, <1>11, <1>12, <1>13
=============================================================================
