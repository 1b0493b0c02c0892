------------------------ MODULE AdminSectionsProofs ------------------------
(***************************************************************************)
(* Proofs about AdminSections, for any values, URLs, offers of sections    *)
(* and bounds: its types, that what a save put there is what is stored,    *)
(* and that the operator's text is kept.                                   *)
(***************************************************************************)
EXTENDS AdminSections, FiniteSetTheorems, SequenceTheorems, TLAPS

\* The lines that a region may have.
Body == Lines \ {Begin, End}

\* No two lines are of one key.
OneOf(r) == \A k \in AllKeys : \A i, j \in DOMAIN r : IsOf(r[i], k) /\ IsOf(r[j], k) => i = j

Regions == {r \in Seq(Body) : OneOf(r)}

HandsAt(r) == {i \in DOMAIN r : r[i] = Hand}

-----------------------------------------------------------------------------
(* Lines *)

LEMMA LineParts ==
    /\ Begin[1] = "begin" /\ End[1] = "end" /\ Hand[1] = "hand"
    /\ \A k, v : Entry(k, v)[1] = "entry" /\ Entry(k, v)[2] = k /\ Entry(k, v)[3] = v
BY DEF Begin, End, Hand, Entry

LEMMA LinesApart ==
    /\ Begin # End /\ Begin # Hand /\ End # Hand
    /\ \A k, v : Entry(k, v) \notin {Begin, End, Hand}
    /\ \A k, v, j : IsOf(Entry(k, v), j) <=> j = k
    /\ \A j : ~IsOf(Hand, j) /\ ~IsOf(Begin, j) /\ ~IsOf(End, j)
    /\ \A k, v, j, x : Entry(k, v) = Entry(j, x) => k = j /\ v = x
BY LineParts DEF IsOf

LEMMA BodyLines ==
    /\ Hand \in Body
    /\ \A k \in AllKeys, v \in Values : Entry(k, v) \in Body
    /\ \A l \in Body : l = Hand \/ \E k \in AllKeys, v \in Values : l = Entry(k, v)
    /\ Begin \notin Body /\ End \notin Body /\ Body \subseteq Lines
BY LinesApart DEF Body, Lines

LEMMA ParsedAt ==
    ASSUME NEW r \in Regions, NEW k \in AllKeys, NEW v, NEW i \in DOMAIN r, r[i] = Entry(k, v)
    PROVE  Parsed(r)[k] = v
<1>1. IsOf(r[i], k)
  BY LinesApart
<1>2. \A l \in Range(r) : IsOf(l, k) => l = r[i]
  BY <1>1 DEF Regions, OneOf, Range
<1>3. r[i] \in Range(r)
  BY DEF Range
<1>4. LineOf(r, k) = r[i]
  BY <1>1, <1>2, <1>3 DEF LineOf
<1> QED
  BY <1>1, <1>4, LineParts DEF Parsed

LEMMA ParsedNot ==
    ASSUME NEW r, NEW k \in AllKeys, \A i \in DOMAIN r : ~IsOf(r[i], k)
    PROVE  Parsed(r)[k] = Absent
BY DEF Parsed

\* What a region has for a key.
LEMMA ParsedCases ==
    ASSUME NEW r \in Regions, NEW k \in AllKeys
    PROVE  \/ \A i \in DOMAIN r : ~IsOf(r[i], k)
           \/ \E v \in Values : \E i \in DOMAIN r : r[i] = Entry(k, v)
<1>1. \A i \in DOMAIN r : r[i] \in Body
  BY DEF Regions
<1> QED
  BY <1>1, BodyLines, LinesApart

-----------------------------------------------------------------------------
(* Over *)

LEMMA SeqParts ==
    ASSUME NEW S, NEW s \in Seq(S)
    PROVE  Len(s) \in Nat /\ DOMAIN s = 1..Len(s) /\ \A i \in DOMAIN s : s[i] \in S
OBVIOUS

LEMMA SetToSeqOf ==
    ASSUME NEW S, IsFiniteSet(S)
    PROVE  /\ SetToSeq(S) \in Seq(S)
           /\ \A x \in S : \E i \in DOMAIN SetToSeq(S) : SetToSeq(S)[i] = x
           /\ \A i, j \in DOMAIN SetToSeq(S) : SetToSeq(S)[i] = SetToSeq(S)[j] => i = j
<1> DEFINE n == Cardinality(S)
           f == SetToSeq(S)
<1>1. n \in Nat /\ \E g \in [1..n -> S] : IsInjective(g)
  BY FS_CardinalityType DEF ExistsBijection, Bijection, Injection
<1>2. f \in [1..n -> S] /\ IsInjective(f)
  BY <1>1 DEF SetToSeq
<1>3. IsFiniteSet(1..n) /\ Cardinality(1..n) = n
  BY <1>1, FS_Interval
<1>4. f \in Injection(1..n, S)
  BY <1>2 DEF Injection
<1>5. f \in Surjection(1..n, S)
  BY <1>3, <1>4, FS_Injection
<1> QED
  BY <1>1, <1>2, <1>5 DEF Surjection, IsInjective

\* There are seventeen keys.
KeyList == <<"enabled", "image_url", "radius_km", "setting", "scatter_few_max", "host",
             "password", "haze_detection", "openaq_sensor_id", "col_a", "col_b", "site_title",
             "google_analytics_id", "hidden", "cards", "weights", "api_url">>

LEMMA KeysFinite == IsFiniteSet(AllKeys)
<1>1. AllKeys \subseteq {KeyList[i] : i \in 1..17}
  BY DEF AllKeys, Keys, Sections, KeyList
<1>2. IsFiniteSet({KeyList[i] : i \in 1..17})
  <2>1. KeyList \in Surjection(1..17, {KeyList[i] : i \in 1..17})
    BY DEF Surjection, KeyList
  <2>2. \A n \in Nat : IsFiniteSet(1..n)
    BY FS_Interval
  <2> QED
    <3>1. IsFiniteSet(1..17)
      BY <2>2
    <3> QED
      BY <2>1, <3>1, FS_Surjection
<1> QED
  BY <1>1, <1>2, FS_Subset

\* Writing values over a region.
LEMMA OverRegion ==
    ASSUME NEW r \in Regions, NEW K \in SUBSET AllKeys, NEW vals \in [K -> Values]
    PROVE  /\ Over(r, vals) \in Regions
           /\ \A k \in AllKeys :
                Parsed(Over(r, vals))[k] = IF k \in K THEN vals[k] ELSE Parsed(r)[k]
           /\ HandLines(Over(r, vals)) = HandLines(r)
<1> DEFINE New == {k \in K : \A i \in DOMAIN r : ~IsOf(r[i], k)}
           E   == {Entry(k, vals[k]) : k \in New}
           M   == [i \in DOMAIN r |-> IF r[i][1] = "entry" /\ r[i][2] \in DOMAIN vals
                                      THEN Entry(r[i][2], vals[r[i][2]]) ELSE r[i]]
           A   == SetToSeq(E)
           q   == Over(r, vals)
<1>1. q = M \o A /\ DOMAIN vals = K
  BY DEF Over
<1>2. r \in Seq(Body) /\ Len(r) \in Nat /\ DOMAIN r = 1..Len(r) /\ \A i \in DOMAIN r : r[i] \in Body
  BY DEF Regions
<1>3. \A i \in DOMAIN r : \/ r[i] = Hand /\ M[i] = Hand
                          \/ \E k \in AllKeys, v \in Values :
                                /\ r[i] = Entry(k, v)
                                /\ M[i] = IF k \in K THEN Entry(k, vals[k]) ELSE Entry(k, v)
  BY <1>1, <1>2, BodyLines, LineParts
<1>4. M \in Seq(Body) /\ Len(M) = Len(r)
  <2>1. \A i \in DOMAIN r : M[i] \in Body
    BY <1>3, BodyLines
  <2> QED
    BY <1>2, <2>1
<1>5. IsFiniteSet(E)
  <2>1. IsFiniteSet(New)
    BY KeysFinite, FS_Subset
  <2>2. [k \in New |-> Entry(k, vals[k])] \in Surjection(New, E)
    BY DEF Surjection
  <2> QED
    BY <2>1, <2>2, FS_Surjection
<1>6. /\ A \in Seq(Body) /\ \A i \in 1..Len(A) : \E k \in New : A[i] = Entry(k, vals[k])
      /\ \A k \in New : \E i \in 1..Len(A) : A[i] = Entry(k, vals[k])
      /\ \A i, j \in 1..Len(A) : A[i] = A[j] => i = j
  <2>1. \A x \in E : x \in Body
    BY BodyLines
  <2>2. A \in Seq(E) /\ A \in Seq(Body)
    BY <1>5, <2>1, SetToSeqOf
  <2>3. DOMAIN A = 1..Len(A) /\ \A i \in DOMAIN A : A[i] \in E
    BY <2>2, SeqParts, Zenon
  <2>4. \A x \in E : \E i \in DOMAIN A : A[i] = x
    BY <1>5, SetToSeqOf
  <2>5. \A i, j \in DOMAIN A : A[i] = A[j] => i = j
    BY <1>5, SetToSeqOf
  <2> HIDE DEF A
  <2>6. \A i \in DOMAIN A : \E k \in New : A[i] = Entry(k, vals[k])
    BY <2>3
  <2>7. \A k \in New : \E i \in DOMAIN A : A[i] = Entry(k, vals[k])
    BY <2>4
  <2> HIDE DEF New, E
  <2> QED
    BY <2>2, <2>3, <2>5, <2>6, <2>7
<1>7. /\ q \in Seq(Body) /\ Len(q) = Len(r) + Len(A) /\ Len(A) \in Nat
      /\ \A i \in 1..Len(r) : q[i] = M[i]
      /\ \A i \in 1..Len(A) : q[Len(r) + i] = A[i]
      /\ \A i \in (Len(r) + 1)..Len(q) : \E k \in New : q[i] = Entry(k, vals[k])
  <2> HIDE DEF M, A, q
  <2>1. q \in Seq(Body) /\ Len(q) = Len(r) + Len(A) /\ Len(A) \in Nat /\ Len(r) \in Nat
    BY <1>1, <1>4, <1>6, ConcatProperties
  <2>2. \A i \in 1..Len(r) + Len(A) : q[i] = IF i <= Len(r) THEN M[i] ELSE A[i - Len(r)]
    BY <1>1, <1>4, <1>6, ConcatProperties
  <2>3. \A i \in 1..Len(A) : q[Len(r) + i] = A[i]
    BY <2>1, <2>2
  <2>4. \A i \in (Len(r) + 1)..Len(q) : i - Len(r) \in 1..Len(A) /\ q[i] = A[i - Len(r)]
    BY <2>1, <2>2
  <2>5. \A i \in 1..Len(r) : q[i] = M[i]
    BY <2>1, <2>2
  <2>6. \A i \in (Len(r) + 1)..Len(q) : \E k \in New : q[i] = Entry(k, vals[k])
    BY <1>6, <2>4
  <2> QED
    BY <2>1, <2>3, <2>5, <2>6
<1>8. \A i \in 1..Len(r) : \A k \in AllKeys :
        /\ IsOf(q[i], k) <=> IsOf(r[i], k)
        /\ \A v \in Values : r[i] = Entry(k, v)
              => q[i] = IF k \in K THEN Entry(k, vals[k]) ELSE Entry(k, v)
  <2> SUFFICES ASSUME NEW i \in 1..Len(r)
               PROVE  \A k \in AllKeys :
                        /\ IsOf(q[i], k) <=> IsOf(r[i], k)
                        /\ \A v \in Values : r[i] = Entry(k, v)
                              => q[i] = IF k \in K THEN Entry(k, vals[k]) ELSE Entry(k, v)
    OBVIOUS
  <2>1. q[i] = M[i]
    BY <1>7
  <2> HIDE DEF M, q
  <2> QED
    BY <1>2, <1>3, <2>1, LinesApart
<1>9. q \in Regions
  <2> SUFFICES ASSUME NEW k \in AllKeys, NEW i \in 1..Len(q), NEW j \in 1..Len(q),
                      IsOf(q[i], k), IsOf(q[j], k)
               PROVE  i = j
    BY <1>7 DEF Regions, OneOf
  <2> HIDE DEF M, A, q
  <2>1. \A m \in 1..Len(q) : m \in 1..Len(r) \/ m \in (Len(r) + 1)..Len(q)
    BY <1>2, <1>7
  <2>2. \A m \in (Len(r) + 1)..Len(q) : IsOf(q[m], k) => k \in New /\ q[m] = Entry(k, vals[k])
    BY <1>7, LinesApart
  <2>3. CASE i \in 1..Len(r) /\ j \in 1..Len(r)
    BY <1>2, <1>8, <2>3 DEF Regions, OneOf
  <2>4. CASE i \in (Len(r) + 1)..Len(q) /\ j \in (Len(r) + 1)..Len(q)
    <3>1. i - Len(r) \in 1..Len(A) /\ j - Len(r) \in 1..Len(A) /\ q[i] = q[j]
      BY <1>2, <1>7, <2>2, <2>4
    <3>2. q[i] = A[i - Len(r)] /\ q[j] = A[j - Len(r)]
      BY <1>2, <1>7, <3>1
    <3>3. i - Len(r) = j - Len(r)
      BY <1>6, <3>1, <3>2
    <3> QED
      BY <1>2, <3>3
  <2>5. ASSUME NEW m \in 1..Len(r), NEW n \in (Len(r) + 1)..Len(q), IsOf(q[m], k), IsOf(q[n], k)
        PROVE  FALSE
    BY <1>2, <1>8, <2>2, <2>5
  <2> QED
    BY <2>1, <2>3, <2>4, <2>5
<1>10. \A k \in AllKeys : Parsed(q)[k] = IF k \in K THEN vals[k] ELSE Parsed(r)[k]
  <2> SUFFICES ASSUME NEW k \in AllKeys
               PROVE  Parsed(q)[k] = IF k \in K THEN vals[k] ELSE Parsed(r)[k]
    OBVIOUS
  <2> HIDE DEF M, A, q
  <2>1. CASE \E v \in Values : \E i \in DOMAIN r : r[i] = Entry(k, v)
    <3>1. PICK v \in Values, i \in DOMAIN r : r[i] = Entry(k, v)
      BY <2>1
    <3>2. i \in DOMAIN q /\ q[i] = IF k \in K THEN Entry(k, vals[k]) ELSE Entry(k, v)
      BY <1>2, <1>7, <1>8, <3>1
    <3>3. Parsed(r)[k] = v
      BY <3>1, ParsedAt
    <3>4. CASE k \in K
      BY <1>9, <3>2, <3>4, ParsedAt
    <3>5. CASE k \notin K
      BY <1>9, <3>2, <3>3, <3>5, ParsedAt
    <3> QED
      BY <3>4, <3>5
  <2>2. CASE \A i \in DOMAIN r : ~IsOf(r[i], k)
    <3>1. CASE k \in K
      <4>1. PICK i \in 1..Len(A) : A[i] = Entry(k, vals[k])
        BY <1>6, <2>2, <3>1
      <4>2. Len(r) + i \in DOMAIN q /\ q[Len(r) + i] = Entry(k, vals[k])
        BY <1>2, <1>7, <4>1
      <4> QED
        BY <1>9, <3>1, <4>2, ParsedAt
    <3>2. CASE k \notin K
      <4>1. \A i \in DOMAIN q : i \in 1..Len(r) \/ i \in (Len(r) + 1)..Len(q)
        BY <1>2, <1>7
      <4>2. \A i \in DOMAIN q : ~IsOf(q[i], k)
        BY <1>2, <1>7, <1>8, <2>2, <3>2, <4>1, LinesApart
      <4> QED
        BY <2>2, <3>2, <4>2, ParsedNot
    <3> QED
      BY <3>1, <3>2
  <2> QED
    BY <2>1, <2>2, ParsedCases
<1>11. HandsAt(q) = HandsAt(r)
  <2> HIDE DEF M, A, q
  <2>1. \A i \in (Len(r) + 1)..Len(q) : q[i] # Hand
    BY <1>7, LinesApart
  <2>2. \A i \in 1..Len(r) : q[i] = Hand <=> r[i] = Hand
    BY <1>2, <1>3, <1>7, LinesApart
  <2>3. \A i : i \in 1..Len(q) <=> i \in 1..Len(r) \/ i \in (Len(r) + 1)..Len(q)
    BY <1>2, <1>7
  <2>4. DOMAIN q = 1..Len(q)
    BY <1>7
  <2> QED
    BY <1>2, <2>1, <2>2, <2>3, <2>4 DEF HandsAt
<1>12. HandLines(q) = HandLines(r)
  <2> HIDE DEF q
  <2>1. HandLines(q) = Cardinality(HandsAt(q)) /\ HandLines(r) = Cardinality(HandsAt(r))
    BY DEF HandLines, HandsAt
  <2> QED
    BY <1>11, <2>1
<1> QED
  BY <1>9, <1>10, <1>12

-----------------------------------------------------------------------------
(* Kept *)

\* The n-th of some places, counted in their order.
Nth(S, n) == CHOOSE i \in S : Cardinality({j \in S : j <= i}) = n

LEMMA Ranks ==
    ASSUME NEW n \in Nat, NEW S \in SUBSET (1..n)
    PROVE  /\ IsFiniteSet(S) /\ Cardinality(S) \in Nat
           /\ \A m \in 1..Cardinality(S) : Nth(S, m) \in S
           /\ \A l, m \in 1..Cardinality(S) : Nth(S, l) = Nth(S, m) => l = m
           /\ \A i \in S : \E m \in 1..Cardinality(S) : Nth(S, m) = i
<1> DEFINE Upto(i) == {j \in S : j <= i}
           C       == Cardinality(S)
           rank    == [i \in S |-> Cardinality(Upto(i))]
<1>1. IsFiniteSet(1..n) /\ IsFiniteSet(S) /\ C \in Nat
  <2>1. \A k \in Nat : IsFiniteSet(1..k)
    BY FS_Interval
  <2>2. IsFiniteSet(1..n)
    BY <2>1
  <2>3. IsFiniteSet(S)
    BY <2>2, FS_Subset
  <2> QED
    BY <2>2, <2>3, FS_CardinalityType
<1>2. \A i \in S : IsFiniteSet(Upto(i)) /\ Cardinality(Upto(i)) \in 1..C
  <2> SUFFICES ASSUME NEW i \in S
               PROVE  IsFiniteSet(Upto(i)) /\ Cardinality(Upto(i)) \in 1..C
    OBVIOUS
  <2>1. Upto(i) \in SUBSET S /\ i \in Upto(i)
    OBVIOUS
  <2>2. IsFiniteSet(Upto(i)) /\ Cardinality(Upto(i)) <= C
    BY <1>1, <2>1, FS_Subset
  <2>3. Cardinality(Upto(i)) \in Nat /\ Cardinality(Upto(i)) # 0
    BY <2>1, <2>2, FS_CardinalityType, FS_EmptySet
  <2> QED
    BY <1>1, <2>2, <2>3
<1>3. ASSUME NEW i \in S, NEW k \in S, i < k
      PROVE  Cardinality(Upto(i)) # Cardinality(Upto(k))
  <2>1. Upto(i) \in SUBSET Upto(k)
    <3>1. \A j \in S : j \in Nat
      OBVIOUS
    <3>2. \A j \in S : j <= i => j <= k
      BY <1>3, <3>1
    <3> QED
      BY <3>2
  <2>2. k \in Upto(k) /\ k \notin Upto(i)
    BY <1>3
  <2> QED
    BY <1>2, <2>1, <2>2, FS_Subset
<1>4. \A i, k \in S : Cardinality(Upto(i)) = Cardinality(Upto(k)) => i = k
  BY <1>3
<1>5. rank \in Injection(S, 1..C)
  BY <1>2, <1>4 DEF Injection, IsInjective
<1>6. IsFiniteSet(1..C) /\ Cardinality(1..C) = C
  BY <1>1, FS_Interval
<1>7. rank \in Surjection(S, 1..C)
  BY <1>5, <1>6, FS_Injection
<1>8. \A m \in 1..C : \E i \in S : Cardinality(Upto(i)) = m
  BY <1>7 DEF Surjection
<1>9. \A m \in 1..C : Nth(S, m) \in S /\ Cardinality(Upto(Nth(S, m))) = m
  BY <1>8 DEF Nth
<1>10. \A i \in S : Nth(S, Cardinality(Upto(i))) = i
  BY <1>2, <1>4, <1>9
<1> QED
  BY <1>1, <1>2, <1>9, <1>10

\* Leaving out the lines of some keys.
LEMMA KeptRegion ==
    ASSUME NEW r \in Regions, NEW K \in SUBSET AllKeys
    PROVE  /\ Kept(r, K) \in Regions
           /\ \A k \in AllKeys :
                Parsed(Kept(r, K))[k] = IF k \in K THEN Absent ELSE Parsed(r)[k]
           /\ HandLines(Kept(r, K)) = HandLines(r)
<1> DEFINE S == {i \in DOMAIN r : \A k \in K : ~IsOf(r[i], k)}
           C == Cardinality(S)
           q == Kept(r, K)
<1>1. r \in Seq(Body) /\ Len(r) \in Nat /\ DOMAIN r = 1..Len(r) /\ \A i \in DOMAIN r : r[i] \in Body
  BY DEF Regions
<1>2. S \in SUBSET (1..Len(r))
  BY <1>1
<1>3. /\ C \in Nat /\ \A m \in 1..C : Nth(S, m) \in S
      /\ \A l, m \in 1..C : Nth(S, l) = Nth(S, m) => l = m
      /\ \A i \in S : \E m \in 1..C : Nth(S, m) = i
  BY <1>1, <1>2, Ranks
<1>4. q = [m \in 1..C |-> r[Nth(S, m)]]
  BY DEF Kept, Nth
<1>5. \A i \in S : i \in DOMAIN r /\ \A k \in K : ~IsOf(r[i], k)
  OBVIOUS
<1>6. \A i \in DOMAIN r : i \notin S => \E k \in K : IsOf(r[i], k)
  OBVIOUS
<1> HIDE DEF S, C, q
<1>7. q \in Seq(Body) /\ Len(q) = C /\ DOMAIN q = 1..C
  BY <1>1, <1>3, <1>4, <1>5
<1>8. q \in Regions
  BY <1>3, <1>4, <1>5, <1>7 DEF Regions, OneOf
<1>9. \A k \in AllKeys : Parsed(q)[k] = IF k \in K THEN Absent ELSE Parsed(r)[k]
  <2> SUFFICES ASSUME NEW k \in AllKeys
               PROVE  Parsed(q)[k] = IF k \in K THEN Absent ELSE Parsed(r)[k]
    OBVIOUS
  <2>1. CASE k \in K
    <3>1. \A m \in DOMAIN q : ~IsOf(q[m], k)
      BY <1>3, <1>4, <1>5, <1>7, <2>1
    <3> QED
      BY <2>1, <3>1, ParsedNot
  <2>2. CASE k \notin K /\ \A i \in DOMAIN r : ~IsOf(r[i], k)
    <3>1. \A m \in DOMAIN q : ~IsOf(q[m], k)
      BY <1>3, <1>4, <1>5, <1>7, <2>2
    <3> QED
      BY <2>2, <3>1, ParsedNot
  <2>3. CASE k \notin K /\ \E v \in Values : \E i \in DOMAIN r : r[i] = Entry(k, v)
    <3>1. PICK v \in Values, i \in DOMAIN r : r[i] = Entry(k, v)
      BY <2>3
    <3>2. i \in S
      BY <1>6, <2>3, <3>1, LinesApart
    <3>3. PICK m \in 1..C : Nth(S, m) = i
      BY <1>3, <3>2
    <3>4. m \in DOMAIN q /\ q[m] = Entry(k, v)
      BY <1>4, <1>7, <3>1, <3>3
    <3>5. Parsed(q)[k] = v
      BY <1>8, <3>4, ParsedAt
    <3>6. Parsed(r)[k] = v
      BY <3>1, ParsedAt
    <3> QED
      BY <2>3, <3>5, <3>6
  <2> QED
    BY <2>1, <2>2, <2>3, ParsedCases
<1>10. HandLines(q) = HandLines(r)
  <2> DEFINE pick == [m \in HandsAt(q) |-> Nth(S, m)]
  <2>1. \A m \in HandsAt(q) : m \in 1..C /\ Nth(S, m) \in HandsAt(r)
    BY <1>3, <1>4, <1>5, <1>7 DEF HandsAt
  <2>2. \A i \in HandsAt(r) : \E m \in HandsAt(q) : Nth(S, m) = i
    <3> SUFFICES ASSUME NEW i \in HandsAt(r)
                 PROVE  \E m \in HandsAt(q) : Nth(S, m) = i
      OBVIOUS
    <3>1. i \in DOMAIN r /\ r[i] = Hand
      BY DEF HandsAt
    <3>2. i \in S
      BY <1>6, <3>1, LinesApart
    <3>3. PICK m \in 1..C : Nth(S, m) = i
      BY <1>3, <3>2
    <3> QED
      BY <1>4, <1>7, <3>1, <3>3 DEF HandsAt
  <2>3. pick \in Bijection(HandsAt(q), HandsAt(r))
    BY <1>3, <2>1, <2>2 DEF Bijection, Injection, Surjection, IsInjective
  <2>4. IsFiniteSet(HandsAt(q))
    <3>1. HandsAt(q) \in SUBSET (1..C) /\ IsFiniteSet(1..C)
      BY <1>3, <1>7, FS_Interval DEF HandsAt
    <3> QED
      BY <3>1, FS_Subset
  <2>5. Cardinality(HandsAt(q)) = Cardinality(HandsAt(r))
    BY <2>3, <2>4, FS_Bijection DEF ExistsBijection
  <2> QED
    BY <2>5 DEF HandLines, HandsAt
<1> QED
  BY <1>8, <1>9, <1>10 DEF q

-----------------------------------------------------------------------------
(* The shape of a conf file *)

\* A region between its markers, and n lines of the operator's below it.
Whole(r, n) ==
    [i \in 1..(Len(r) + 2 + n) |->
        IF i = 1 THEN Begin
        ELSE IF i <= Len(r) + 1 THEN r[i - 1]
        ELSE IF i = Len(r) + 2 THEN End ELSE Hand]

\* A file of n lines of the operator's.
Hands(n) == [i \in 1..n |-> Hand]

Shaped(t) ==
    \/ \E r \in Regions, n \in Nat : t = Whole(r, n)
    \/ \E n \in Nat : t = Hands(n)

\* Where a line is.
LEMMA AtUnique ==
    ASSUME NEW S, NEW t \in Seq(S), NEW line, NEW i \in 1..Len(t),
           \A j \in 1..Len(t) : t[j] = line <=> j = i
    PROVE  At(t, line) = i
<1>1. {j \in 1..Len(t) : t[j] = line} = {i}
  OBVIOUS
<1>2. Min({i}) = i
  BY DEF Min
<1> QED
  BY <1>1, <1>2 DEF At, SelectInSeq

LEMMA AtNone ==
    ASSUME NEW t, NEW line, \A j \in 1..Len(t) : t[j] # line
    PROVE  At(t, line) = 0
<1>1. {j \in 1..Len(t) : t[j] = line} = {}
  OBVIOUS
<1> QED
  BY <1>1 DEF At, SelectInSeq

LEMMA RegionParts ==
    ASSUME NEW r \in Regions
    PROVE  /\ r \in Seq(Body) /\ Len(r) \in Nat /\ DOMAIN r = 1..Len(r)
           /\ \A i \in 1..Len(r) : r[i] \in Body /\ r[i] # Begin /\ r[i] # End
<1>1. r \in Seq(Body)
  BY DEF Regions
<1>2. Len(r) \in Nat /\ DOMAIN r = 1..Len(r) /\ \A i \in 1..Len(r) : r[i] \in Body
  BY <1>1
<1> QED
  BY <1>1, <1>2, BodyLines

LEMMA WholeParts ==
    ASSUME NEW r \in Regions, NEW n \in Nat
    PROVE  /\ Whole(r, n) \in Seq(Lines) /\ Len(Whole(r, n)) = Len(r) + 2 + n
           /\ Whole(r, n)[1] = Begin /\ Whole(r, n)[Len(r) + 2] = End
           /\ \A i \in 1..Len(r) : Whole(r, n)[i + 1] = r[i]
           /\ \A i \in 2..(Len(r) + 1) : Whole(r, n)[i] = r[i - 1] /\ i - 1 \in 1..Len(r)
           /\ \A i \in (Len(r) + 3)..(Len(r) + 2 + n) : Whole(r, n)[i] = Hand
<1> DEFINE t == Whole(r, n)
<1>1. t = [i \in 1..(Len(r) + 2 + n) |->
              IF i = 1 THEN Begin
              ELSE IF i <= Len(r) + 1 THEN r[i - 1]
              ELSE IF i = Len(r) + 2 THEN End ELSE Hand]
  BY DEF Whole
<1>2. Len(r) \in Nat
  BY RegionParts
<1> HIDE DEF t
<1>3. /\ t[1] = Begin /\ t[Len(r) + 2] = End
      /\ \A i \in 2..(Len(r) + 1) : t[i] = r[i - 1] /\ i - 1 \in 1..Len(r)
      /\ \A i \in (Len(r) + 3)..(Len(r) + 2 + n) : t[i] = Hand
  BY <1>1, <1>2
<1>4. \A i \in 1..Len(r) : i + 1 \in 2..(Len(r) + 1) /\ (i + 1) - 1 = i
  BY <1>2
<1>5. \A i \in 1..Len(r) : t[i + 1] = r[i]
  BY <1>3, <1>4
<1>6. \A i \in 1..(Len(r) + 2 + n) :
        i = 1 \/ i \in 2..(Len(r) + 1) \/ i = Len(r) + 2 \/ i \in (Len(r) + 3)..(Len(r) + 2 + n)
  BY <1>2
<1>7. Begin \in Lines /\ End \in Lines /\ Hand \in Lines /\ \A i \in 1..Len(r) : r[i] \in Lines
  BY RegionParts, BodyLines DEF Lines
<1>8. \A i \in 1..(Len(r) + 2 + n) : t[i] \in Lines
  BY <1>3, <1>6, <1>7
<1>9. t \in [1..(Len(r) + 2 + n) -> Lines]
  BY <1>1, <1>8
<1>10. t \in Seq(Lines) /\ Len(t) = Len(r) + 2 + n
  BY <1>2, <1>9
<1> QED
  BY <1>3, <1>5, <1>10 DEF t

\* Every line of such a file is of one of these kinds.
LEMMA WholePlaces ==
    ASSUME NEW r \in Regions, NEW n \in Nat, NEW i \in 1..Len(Whole(r, n))
    PROVE  \/ i = 1 \/ i \in 2..(Len(r) + 1) \/ i = Len(r) + 2
           \/ i \in (Len(r) + 3)..(Len(r) + 2 + n)
<1>1. Len(r) \in Nat /\ Len(Whole(r, n)) = Len(r) + 2 + n
  BY RegionParts, WholeParts
<1> QED
  BY <1>1

LEMMA WholeMarks ==
    ASSUME NEW r \in Regions, NEW n \in Nat
    PROVE  /\ At(Whole(r, n), Begin) = 1 /\ At(Whole(r, n), End) = Len(r) + 2
           /\ Marked(Whole(r, n)) /\ Region(Whole(r, n)) = r
<1> DEFINE t == Whole(r, n)
<1>1. /\ t \in Seq(Lines) /\ Len(t) = Len(r) + 2 + n /\ Len(r) \in Nat
      /\ t[1] = Begin /\ t[Len(r) + 2] = End
      /\ \A i \in 1..Len(r) : t[i + 1] = r[i]
      /\ \A i \in 2..(Len(r) + 1) : t[i] = r[i - 1] /\ i - 1 \in 1..Len(r)
      /\ \A i \in (Len(r) + 3)..(Len(r) + 2 + n) : t[i] = Hand
  BY WholeParts, RegionParts
<1>2. \A i \in 1..Len(t) : \/ i = 1 \/ i \in 2..(Len(r) + 1) \/ i = Len(r) + 2
                           \/ i \in (Len(r) + 3)..(Len(r) + 2 + n)
  BY WholePlaces
<1>3. \A i \in 1..Len(r) : r[i] # Begin /\ r[i] # End
  BY RegionParts
<1> HIDE DEF t
<1>4. \A i \in 1..Len(t) : (t[i] = Begin <=> i = 1) /\ (t[i] = End <=> i = Len(r) + 2)
  <2> SUFFICES ASSUME NEW i \in 1..Len(t)
               PROVE  (t[i] = Begin <=> i = 1) /\ (t[i] = End <=> i = Len(r) + 2)
    OBVIOUS
  <2>1. Begin # End /\ Begin # Hand /\ End # Hand
    BY LinesApart
  <2>2. CASE i = 1
    BY <1>1, <2>1, <2>2
  <2>3. CASE i \in 2..(Len(r) + 1)
    BY <1>1, <1>3, <2>3
  <2>4. CASE i = Len(r) + 2
    BY <1>1, <2>1, <2>4
  <2>5. CASE i \in (Len(r) + 3)..(Len(r) + 2 + n)
    BY <1>1, <2>1, <2>5
  <2> QED
    BY <1>2, <2>2, <2>3, <2>4, <2>5
<1>5. At(t, Begin) = 1
  <2>1. 1 \in 1..Len(t)
    BY <1>1
  <2> QED
    BY <1>1, <1>4, <2>1, AtUnique
<1>6. At(t, End) = Len(r) + 2
  <2>1. Len(r) + 2 \in 1..Len(t)
    BY <1>1
  <2> QED
    BY <1>1, <1>4, <2>1, AtUnique
<1>7. Marked(t)
  BY <1>1, <1>5, <1>6 DEF Marked
<1>8. Region(t) = SubSeq(t, 2, Len(r) + 1)
  BY <1>1, <1>5, <1>6, <1>7 DEF Region
<1>9. SubSeq(t, 2, Len(r) + 1) = r
  <2>1. /\ SubSeq(t, 2, Len(r) + 1) \in Seq(Lines) /\ Len(SubSeq(t, 2, Len(r) + 1)) = Len(r)
        /\ \A i \in 1..Len(r) : SubSeq(t, 2, Len(r) + 1)[i] = t[i + 1]
    BY <1>1
  <2>2. r \in Seq(Lines)
    BY RegionParts, BodyLines
  <2> QED
    BY <1>1, <2>1, <2>2, SeqEqual
<1> QED
  BY <1>5, <1>6, <1>7, <1>8, <1>9 DEF t

LEMMA HandsParts ==
    ASSUME NEW n \in Nat
    PROVE  /\ Hands(n) \in Regions /\ Len(Hands(n)) = n
           /\ ~Marked(Hands(n)) /\ Region(Hands(n)) = Hands(n)
<1>1. Hands(n) \in [1..n -> Body]
  BY BodyLines DEF Hands
<1>2. Hands(n) \in Seq(Body) /\ Len(Hands(n)) = n
  BY <1>1
<1>3. \A i \in DOMAIN Hands(n) : Hands(n)[i] = Hand
  BY DEF Hands
<1>4. Hands(n) \in Regions
  BY <1>2, <1>3, LinesApart DEF Regions, OneOf
<1>5. \A i \in 1..Len(Hands(n)) : Hands(n)[i] # Begin /\ Hands(n)[i] # End
  BY <1>4, RegionParts
<1>6. At(Hands(n), Begin) = 0
  BY <1>5, AtNone
<1> QED
  BY <1>2, <1>4, <1>6 DEF Marked, Region

\* The lines of the operator's.
LEMMA HandLinesOfHands ==
    ASSUME NEW n \in Nat
    PROVE  HandLines(Hands(n)) = n
<1>1. {i \in DOMAIN Hands(n) : Hands(n)[i] = Hand} = 1..n
  BY DEF Hands
<1>2. Cardinality(1..n) = n
  <2>1. \A m \in Nat : Cardinality(1..m) = m
    BY FS_Interval
  <2> QED
    BY <2>1
<1> QED
  BY <1>1, <1>2 DEF HandLines

LEMMA HandLinesOfWhole ==
    ASSUME NEW r \in Regions, NEW n \in Nat
    PROVE  HandLines(Whole(r, n)) = HandLines(r) + n /\ HandLines(r) \in Nat
<1> DEFINE t == Whole(r, n)
           P == {i \in 2..(Len(r) + 1) : r[i - 1] = Hand}
           Q == (Len(r) + 3)..(Len(r) + 2 + n)
           shift == [i \in HandsAt(r) |-> i + 1]
<1>1. /\ t \in Seq(Lines) /\ Len(t) = Len(r) + 2 + n /\ Len(r) \in Nat /\ DOMAIN r = 1..Len(r)
      /\ t[1] = Begin /\ t[Len(r) + 2] = End
      /\ \A i \in 2..(Len(r) + 1) : t[i] = r[i - 1] /\ i - 1 \in 1..Len(r)
      /\ \A i \in (Len(r) + 3)..(Len(r) + 2 + n) : t[i] = Hand
  BY WholeParts, RegionParts
<1>2. \A i \in 1..Len(t) : \/ i = 1 \/ i \in 2..(Len(r) + 1) \/ i = Len(r) + 2
                           \/ i \in (Len(r) + 3)..(Len(r) + 2 + n)
  BY WholePlaces
<1> HIDE DEF t
<1>3. HandsAt(t) = P \cup Q
  <2>1. \A i \in HandsAt(t) : i \in P \cup Q
    BY <1>1, <1>2, LinesApart DEF HandsAt
  <2>2. \A i \in P \cup Q : i \in 1..Len(t) /\ t[i] = Hand
    BY <1>1
  <2>3. DOMAIN t = 1..Len(t)
    BY <1>1
  <2> QED
    BY <2>1, <2>2, <2>3 DEF HandsAt
<1>4. \A m \in Nat : IsFiniteSet(1..m)
  BY FS_Interval
<1>5. IsFiniteSet(HandsAt(r)) /\ Cardinality(HandsAt(r)) \in Nat
  <2>1. HandsAt(r) \in SUBSET (1..Len(r)) /\ IsFiniteSet(1..Len(r))
    BY <1>1, <1>4 DEF HandsAt
  <2>2. IsFiniteSet(HandsAt(r))
    BY <2>1, FS_Subset
  <2> QED
    BY <2>2, FS_CardinalityType
<1>6. shift \in Bijection(HandsAt(r), P)
  <2>1. \A i \in HandsAt(r) : i \in 1..Len(r) /\ i + 1 \in P
    BY <1>1 DEF HandsAt
  <2>2. \A i, j \in HandsAt(r) : i + 1 = j + 1 => i = j
    BY <1>1, <2>1
  <2>3. \A j \in P : j - 1 \in HandsAt(r) /\ (j - 1) + 1 = j
    BY <1>1 DEF HandsAt
  <2> HIDE DEF P
  <2>4. shift \in [HandsAt(r) -> P]
    BY <2>1
  <2>5. \A j \in P : \E i \in HandsAt(r) : shift[i] = j
    BY <2>3
  <2>6. \A i, j \in HandsAt(r) : shift[i] = shift[j] => i = j
    BY <2>2
  <2> QED
    BY <2>4, <2>5, <2>6 DEF Bijection, Injection, Surjection, IsInjective
<1>7. IsFiniteSet(P) /\ Cardinality(P) = Cardinality(HandsAt(r))
  BY <1>5, <1>6, FS_Bijection DEF ExistsBijection
<1>8. IsFiniteSet(Q) /\ Cardinality(Q) = n
  <2> DEFINE a == Len(r) + 3
             b == Len(r) + 2 + n
  <2>1. a \in Int /\ b \in Int /\ (a > b <=> n = 0) /\ b - a + 1 = n
    BY <1>1
  <2>2. Q = a..b
    OBVIOUS
  <2> HIDE DEF a, b, Q
  <2>3. IsFiniteSet(a..b) /\ Cardinality(a..b) = IF a > b THEN 0 ELSE b - a + 1
    BY <2>1, FS_Interval
  <2> QED
    BY <2>1, <2>2, <2>3
<1>9. P \cap Q = {}
  BY <1>1
<1>10. Cardinality({}) = 0
  BY FS_EmptySet
<1> HIDE DEF P, Q, shift
<1>11. Cardinality(P \cup Q) = Cardinality(P) + Cardinality(Q) - Cardinality(P \cap Q)
  BY <1>7, <1>8, FS_Union
<1>12. Cardinality(HandsAt(t)) = Cardinality(HandsAt(r)) + n
  <2>1. Cardinality(P \cap Q) = 0
    BY <1>9, <1>10, Zenon
  <2>2. Cardinality(P \cup Q) = Cardinality(HandsAt(t))
    BY <1>3, Zenon
  <2> QED
    BY <1>5, <1>7, <1>8, <1>11, <2>1, <2>2
<1> QED
  BY <1>5, <1>12 DEF HandLines, HandsAt, t

-----------------------------------------------------------------------------
(* Writing a region back *)

\* A region between its markers is such a file.
LEMMA Enclosed ==
    ASSUME NEW q \in Regions
    PROVE  <<Begin>> \o q \o <<End>> = Whole(q, 0)
<1> DEFINE b == <<Begin>>
           e == <<End>>
           w == Whole(q, 0)
           u == b \o q
           x == u \o e
<1>1. /\ b \in Seq(Lines) /\ Len(b) = 1 /\ b[1] = Begin
      /\ e \in Seq(Lines) /\ Len(e) = 1 /\ e[1] = End
  BY DEF Lines
<1>2. q \in Seq(Lines) /\ Len(q) \in Nat
  BY RegionParts, BodyLines
<1>3. /\ w \in Seq(Lines) /\ Len(w) = Len(q) + 2
      /\ w[1] = Begin /\ w[Len(q) + 2] = End
      /\ \A i \in 2..(Len(q) + 1) : w[i] = q[i - 1] /\ i - 1 \in 1..Len(q)
  BY <1>2, WholeParts
<1> HIDE DEF b, e, w, u, x
<1>4. /\ u \in Seq(Lines) /\ Len(u) = 1 + Len(q)
      /\ \A i \in 1..(1 + Len(q)) : u[i] = IF i <= 1 THEN b[i] ELSE q[i - 1]
  <2>1. u \in Seq(Lines) /\ Len(u) = Len(b) + Len(q)
    BY <1>1, <1>2, ConcatProperties DEF u
  <2>2. \A i \in 1..(Len(b) + Len(q)) : u[i] = IF i <= Len(b) THEN b[i] ELSE q[i - Len(b)]
    BY <1>1, <1>2, ConcatProperties DEF u
  <2> QED
    BY <1>1, <1>2, <2>1, <2>2
<1>5. /\ x \in Seq(Lines) /\ Len(x) = Len(q) + 2
      /\ \A i \in 1..(Len(q) + 2) : x[i] = IF i <= 1 + Len(q) THEN u[i] ELSE e[i - (1 + Len(q))]
  <2>1. x \in Seq(Lines) /\ Len(x) = Len(u) + Len(e)
    BY <1>1, <1>4, ConcatProperties DEF x
  <2>2. \A i \in 1..(Len(u) + Len(e)) : x[i] = IF i <= Len(u) THEN u[i] ELSE e[i - Len(u)]
    BY <1>1, <1>4, ConcatProperties DEF x
  <2> QED
    BY <1>1, <1>2, <1>4, <2>1, <2>2
<1>6. \A i \in 1..(Len(q) + 2) : x[i] = w[i]
  <2> SUFFICES ASSUME NEW i \in 1..(Len(q) + 2)
               PROVE  x[i] = w[i]
    OBVIOUS
  <2>1. CASE i = 1
    BY <1>1, <1>2, <1>3, <1>4, <1>5, <2>1
  <2>2. CASE i \in 2..(Len(q) + 1)
    <3>1. i \in 1..(1 + Len(q)) /\ ~(i <= 1) /\ i <= 1 + Len(q)
      BY <1>2, <2>2
    <3>2. x[i] = u[i] /\ u[i] = q[i - 1]
      BY <1>4, <1>5, <3>1
    <3> QED
      BY <1>3, <2>2, <3>2
  <2>3. CASE i = Len(q) + 2
    <3>1. i - (1 + Len(q)) = 1 /\ ~(i <= 1 + Len(q))
      BY <1>2, <2>3
    <3> QED
      BY <1>1, <1>3, <1>5, <2>3, <3>1
  <2> QED
    BY <1>2, <2>1, <2>2, <2>3
<1>7. x = w
  BY <1>3, <1>5, <1>6, SeqEqual
<1> QED
  BY <1>7 DEF b, e, w, u, x

\* The text below the region stays where it was.
LEMMA SplicedWhole ==
    ASSUME NEW r \in Regions, NEW n \in Nat, NEW q \in Regions
    PROVE  Spliced(Whole(r, n), q) = Whole(q, n)
<1> DEFINE t == Whole(r, n)
           w == Whole(q, n)
           b == SubSeq(t, 1, 1)
           e == SubSeq(t, Len(r) + 2, Len(r) + 2 + n)
           u == b \o q
           x == u \o e
<1>1. q \in Seq(Lines) /\ Len(q) \in Nat /\ Len(r) \in Nat
  BY RegionParts, BodyLines
<1>2. /\ t \in Seq(Lines) /\ Len(t) = Len(r) + 2 + n
      /\ t[1] = Begin /\ t[Len(r) + 2] = End
      /\ \A i \in (Len(r) + 3)..(Len(r) + 2 + n) : t[i] = Hand
  BY WholeParts
<1>3. /\ w \in Seq(Lines) /\ Len(w) = Len(q) + 2 + n
      /\ w[1] = Begin /\ w[Len(q) + 2] = End
      /\ \A i \in 2..(Len(q) + 1) : w[i] = q[i - 1] /\ i - 1 \in 1..Len(q)
      /\ \A i \in (Len(q) + 3)..(Len(q) + 2 + n) : w[i] = Hand
  BY WholeParts
<1>4. Spliced(t, q) = x
  BY <1>2, WholeMarks DEF Spliced
<1> HIDE DEF t, w, u, x
<1>5. b \in Seq(Lines) /\ Len(b) = 1 /\ b[1] = Begin
  BY <1>1, <1>2
<1>6. /\ e \in Seq(Lines) /\ Len(e) = n + 1 /\ e[1] = End
      /\ \A i \in 2..(n + 1) : e[i] = Hand
  <2>1. e \in Seq(Lines) /\ Len(e) = n + 1 /\ \A i \in 1..(n + 1) : e[i] = t[Len(r) + 2 + i - 1]
    BY <1>1, <1>2
  <2> HIDE DEF e
  <2>2. \A i \in 2..(n + 1) : Len(r) + 2 + i - 1 \in (Len(r) + 3)..(Len(r) + 2 + n)
    BY <1>1
  <2>3. e[1] = t[Len(r) + 2]
    <3>1. Len(r) + 2 + 1 - 1 = Len(r) + 2 /\ 1 \in 1..(n + 1)
      BY <1>1
    <3> QED
      BY <2>1, <3>1
  <2>4. \A i \in 2..(n + 1) : i \in 1..(n + 1)
    OBVIOUS
  <2> QED
    BY <1>2, <2>1, <2>2, <2>3, <2>4
<1> HIDE DEF b, e
<1>7. /\ u \in Seq(Lines) /\ Len(u) = 1 + Len(q)
      /\ \A i \in 1..(1 + Len(q)) : u[i] = IF i <= 1 THEN b[i] ELSE q[i - 1]
  <2>1. u \in Seq(Lines) /\ Len(u) = Len(b) + Len(q)
    BY <1>1, <1>5, ConcatProperties DEF u
  <2>2. \A i \in 1..(Len(b) + Len(q)) : u[i] = IF i <= Len(b) THEN b[i] ELSE q[i - Len(b)]
    BY <1>1, <1>5, ConcatProperties DEF u
  <2> QED
    BY <1>1, <1>5, <2>1, <2>2
<1>8. /\ x \in Seq(Lines) /\ Len(x) = Len(q) + 2 + n
      /\ \A i \in 1..(Len(q) + 2 + n) : x[i] = IF i <= 1 + Len(q) THEN u[i] ELSE e[i - (1 + Len(q))]
  <2>1. x \in Seq(Lines) /\ Len(x) = Len(u) + Len(e)
    BY <1>6, <1>7, ConcatProperties DEF x
  <2>2. \A i \in 1..(Len(u) + Len(e)) : x[i] = IF i <= Len(u) THEN u[i] ELSE e[i - Len(u)]
    BY <1>6, <1>7, ConcatProperties DEF x
  <2>3. Len(u) + Len(e) = Len(q) + 2 + n
    BY <1>1, <1>6, <1>7
  <2> QED
    BY <1>7, <2>1, <2>2, <2>3
<1>9. \A i \in 1..(Len(q) + 2 + n) : x[i] = w[i]
  <2> SUFFICES ASSUME NEW i \in 1..(Len(q) + 2 + n)
               PROVE  x[i] = w[i]
    OBVIOUS
  <2>1. CASE i = 1
    BY <1>1, <1>3, <1>5, <1>7, <1>8, <2>1
  <2>2. CASE i \in 2..(Len(q) + 1)
    <3>1. i \in 1..(1 + Len(q)) /\ ~(i <= 1) /\ i <= 1 + Len(q)
      BY <1>1, <2>2
    <3>2. x[i] = u[i] /\ u[i] = q[i - 1]
      BY <1>7, <1>8, <3>1
    <3> QED
      BY <1>3, <2>2, <3>2
  <2>3. CASE i = Len(q) + 2
    <3>1. i - (1 + Len(q)) = 1 /\ ~(i <= 1 + Len(q))
      BY <1>1, <2>3
    <3> QED
      BY <1>3, <1>6, <1>8, <2>3, <3>1
  <2>4. CASE i \in (Len(q) + 3)..(Len(q) + 2 + n)
    <3>1. i - (1 + Len(q)) \in 2..(n + 1) /\ ~(i <= 1 + Len(q))
      BY <1>1, <2>4
    <3> QED
      BY <1>3, <1>6, <1>8, <2>4, <3>1
  <2> QED
    BY <1>1, <2>1, <2>2, <2>3, <2>4
<1>10. x = w
  BY <1>3, <1>8, <1>9, SeqEqual
<1> QED
  BY <1>4, <1>10 DEF t, w

\* A line more of the operator's.
LEMMA AppendedWhole ==
    ASSUME NEW r \in Regions, NEW n \in Nat
    PROVE  Append(Whole(r, n), Hand) = Whole(r, n + 1)
<1> DEFINE t == Whole(r, n)
           w == Whole(r, n + 1)
<1>1. Len(r) \in Nat /\ Hand \in Lines
  BY RegionParts DEF Lines
<1>2. /\ t \in Seq(Lines) /\ Len(t) = Len(r) + 2 + n
      /\ t[1] = Begin /\ t[Len(r) + 2] = End
      /\ \A i \in 2..(Len(r) + 1) : t[i] = r[i - 1]
      /\ \A i \in (Len(r) + 3)..(Len(r) + 2 + n) : t[i] = Hand
  BY WholeParts
<1>3. \A m \in Nat : LET v == Whole(r, m) IN
        /\ v \in Seq(Lines) /\ Len(v) = Len(r) + 2 + m
        /\ v[1] = Begin /\ v[Len(r) + 2] = End
        /\ \A i \in 2..(Len(r) + 1) : v[i] = r[i - 1]
        /\ \A i \in (Len(r) + 3)..(Len(r) + 2 + m) : v[i] = Hand
  BY WholeParts
<1>4. n + 1 \in Nat
  OBVIOUS
<1>5. /\ w \in Seq(Lines) /\ Len(w) = Len(r) + 2 + (n + 1)
      /\ w[1] = Begin /\ w[Len(r) + 2] = End
      /\ \A i \in 2..(Len(r) + 1) : w[i] = r[i - 1]
      /\ \A i \in (Len(r) + 3)..(Len(r) + 2 + (n + 1)) : w[i] = Hand
  BY <1>3, <1>4
<1>6. \A i \in 1..Len(t) : \/ i = 1 \/ i \in 2..(Len(r) + 1) \/ i = Len(r) + 2
                           \/ i \in (Len(r) + 3)..(Len(r) + 2 + n)
  BY WholePlaces
<1> HIDE DEF t, w
<1>7. /\ Append(t, Hand) \in Seq(Lines) /\ Len(Append(t, Hand)) = Len(t) + 1
      /\ \A i \in 1..Len(t) : Append(t, Hand)[i] = t[i]
      /\ Append(t, Hand)[Len(t) + 1] = Hand
  <2>1. t \in Seq(Lines)
    BY <1>2
  <2> QED
    BY <1>1, <2>1, AppendProperties
<1>8. \A i \in 1..Len(t) : t[i] = w[i]
  <2> SUFFICES ASSUME NEW i \in 1..Len(t)
               PROVE  t[i] = w[i]
    OBVIOUS
  <2>1. CASE i \in (Len(r) + 3)..(Len(r) + 2 + n)
    <3>1. i \in (Len(r) + 3)..(Len(r) + 2 + (n + 1))
      BY <1>1, <2>1
    <3> QED
      BY <1>2, <1>5, <2>1, <3>1
  <2> QED
    BY <1>2, <1>5, <1>6, <2>1
<1>9. w[Len(t) + 1] = Hand
  <2>1. Len(t) + 1 \in (Len(r) + 3)..(Len(r) + 2 + (n + 1))
    BY <1>1, <1>2
  <2> QED
    BY <1>5, <2>1
<1>10. Len(t) \in Nat /\ Len(w) = Len(t) + 1
  BY <1>1, <1>2, <1>5
<1>11. \A i \in 1..(Len(t) + 1) : Append(t, Hand)[i] = w[i]
  BY <1>7, <1>8, <1>9, <1>10
<1>12. Append(t, Hand) = w
  BY <1>5, <1>7, <1>10, <1>11, SeqEqual
<1> QED
  BY <1>12 DEF t, w

LEMMA AppendedHands ==
    ASSUME NEW n \in Nat
    PROVE  Append(Hands(n), Hand) = Hands(n + 1)
<1>1. Hands(n) \in Seq({Hand}) /\ Len(Hands(n)) = n
  BY DEF Hands
<1>2. Hands(n + 1) \in Seq({Hand}) /\ Len(Hands(n + 1)) = n + 1
  BY DEF Hands
<1>3. Append(Hands(n), Hand) \in Seq({Hand}) /\ Len(Append(Hands(n), Hand)) = n + 1
  BY <1>1, AppendProperties
<1>4. \A i \in 1..(n + 1) : Append(Hands(n), Hand)[i] = Hand /\ Hands(n + 1)[i] = Hand
  BY <1>2, <1>3
<1> QED
  BY <1>2, <1>3, <1>4, SeqEqual

\* The files that there are before any save.
LEMMA FirstTexts ==
    /\ <<>> \in Regions
    /\ <<Begin, End>> = Whole(<<>>, 0) /\ <<>> = Hands(0) /\ <<Hand>> = Hands(1)
<1>1. <<>> \in Regions
  BY DEF Regions, OneOf
<1>2. <<Begin, End>> = Whole(<<>>, 0)
  <2>1. /\ Whole(<<>>, 0) \in Seq(Lines) /\ Len(Whole(<<>>, 0)) = 2
        /\ Whole(<<>>, 0)[1] = Begin /\ Whole(<<>>, 0)[2] = End
    <3>1. Len(<<>>) = 0
      OBVIOUS
    <3>2. \A r \in Regions : /\ Whole(r, 0) \in Seq(Lines) /\ Len(Whole(r, 0)) = Len(r) + 2 + 0
                             /\ Whole(r, 0)[1] = Begin /\ Whole(r, 0)[Len(r) + 2] = End
      BY WholeParts
    <3>3. 0 + 2 + 0 = 2 /\ 0 + 2 = 2
      OBVIOUS
    <3> QED
      BY <1>1, <3>1, <3>2, <3>3
  <2>2. <<Begin, End>> \in Seq(Lines) /\ Len(<<Begin, End>>) = 2
    BY DEF Lines
  <2>3. \A i \in 1..2 : <<Begin, End>>[i] = Whole(<<>>, 0)[i]
    BY <2>1
  <2> QED
    BY <2>1, <2>2, <2>3, SeqEqual
<1>3. <<>> = Hands(0) /\ <<Hand>> = Hands(1)
  BY DEF Hands
<1> QED
  BY <1>1, <1>2, <1>3

\* What a conf file is to the code that reads it, and what becomes of it when a region is
\* put back or the operator adds a line.
LEMMA ShapedText ==
    ASSUME NEW t, Shaped(t)
    PROVE  /\ t \in Seq(Lines) /\ t # Gone
           /\ Region(t) \in Regions /\ HandLines(t) \in Nat
           /\ \A q \in Regions : HandLines(q) = HandLines(Region(t)) =>
                /\ Shaped(Spliced(t, q)) /\ Region(Spliced(t, q)) = q
                /\ HandLines(Spliced(t, q)) = HandLines(t)
           /\ Shaped(Append(t, Hand)) /\ HandLines(Append(t, Hand)) = HandLines(t) + 1
           /\ \A k \in AllKeys : Parsed(Region(Append(t, Hand)))[k] = Parsed(Region(t))[k]
<1>1. CASE \E r \in Regions, n \in Nat : t = Whole(r, n)
  <2>1. PICK r \in Regions, n \in Nat : t = Whole(r, n)
    BY <1>1
  <2>2. n + 1 \in Nat
    OBVIOUS
  <2>3. t \in Seq(Lines) /\ Region(t) = r /\ HandLines(t) = HandLines(r) + n /\ HandLines(r) \in Nat
    BY <2>1, WholeParts, WholeMarks, HandLinesOfWhole
  <2>4. ASSUME NEW q \in Regions, HandLines(q) = HandLines(r)
        PROVE  /\ Shaped(Spliced(t, q)) /\ Region(Spliced(t, q)) = q
               /\ HandLines(Spliced(t, q)) = HandLines(t)
    <3>1. Spliced(t, q) = Whole(q, n)
      BY <2>1, SplicedWhole
    <3>2. Region(Whole(q, n)) = q /\ HandLines(Whole(q, n)) = HandLines(q) + n
      BY WholeMarks, HandLinesOfWhole
    <3> QED
      BY <2>3, <2>4, <3>1, <3>2 DEF Shaped
  <2>5. Append(t, Hand) = Whole(r, n + 1)
    BY <2>1, AppendedWhole
  <2>6. Region(Whole(r, n + 1)) = r /\ HandLines(Whole(r, n + 1)) = HandLines(r) + (n + 1)
    BY <2>2, WholeMarks, HandLinesOfWhole
  <2>7. Shaped(Append(t, Hand))
    BY <2>2, <2>5 DEF Shaped
  <2>8. HandLines(Append(t, Hand)) = HandLines(t) + 1
    BY <2>3, <2>5, <2>6
  <2>9. HandLines(t) \in Nat
    BY <2>3
  <2>10. t # Gone
    BY <2>3, GoneIsNoText
  <2> QED
    BY <2>3, <2>4, <2>5, <2>6, <2>7, <2>8, <2>9, <2>10
<1>2. CASE \E n \in Nat : t = Hands(n)
  <2>1. PICK n \in Nat : t = Hands(n)
    BY <1>2
  <2>2. n + 1 \in Nat
    OBVIOUS
  <2>3. t \in Regions /\ Region(t) = t /\ HandLines(t) = n /\ ~Marked(t)
    BY <2>1, HandsParts, HandLinesOfHands
  <2>4. t \in Seq(Lines)
    BY <2>3, RegionParts, BodyLines
  <2>5. ASSUME NEW q \in Regions, HandLines(q) = HandLines(t)
        PROVE  /\ Shaped(Spliced(t, q)) /\ Region(Spliced(t, q)) = q
               /\ HandLines(Spliced(t, q)) = HandLines(t)
    <3>1. Spliced(t, q) = Whole(q, 0)
      BY <2>3, Enclosed DEF Spliced
    <3>2. Region(Whole(q, 0)) = q /\ HandLines(Whole(q, 0)) = HandLines(q) + 0
      BY WholeMarks, HandLinesOfWhole
    <3> QED
      BY <2>3, <2>5, <3>1, <3>2 DEF Shaped
  <2>6. Append(t, Hand) = Hands(n + 1)
    BY <2>1, AppendedHands
  <2>7. Hands(n + 1) \in Regions /\ Region(Hands(n + 1)) = Hands(n + 1) /\ HandLines(Hands(n + 1)) = n + 1
    BY <2>2, HandsParts, HandLinesOfHands
  <2>8. \A m \in Nat : \A k \in AllKeys : Parsed(Hands(m))[k] = Absent
    <3>1. \A m \in Nat : \A i \in DOMAIN Hands(m) : Hands(m)[i] = Hand
      BY DEF Hands
    <3>2. \A m \in Nat : \A k \in AllKeys : \A i \in DOMAIN Hands(m) : ~IsOf(Hands(m)[i], k)
      BY <3>1, LinesApart
    <3> QED
      BY <3>2, ParsedNot
  <2>9. \A k \in AllKeys : Parsed(Region(Append(t, Hand)))[k] = Parsed(Region(t))[k]
    BY <2>1, <2>2, <2>3, <2>6, <2>7, <2>8
  <2>10. Shaped(Append(t, Hand))
    BY <2>2, <2>6 DEF Shaped
  <2>11. HandLines(Append(t, Hand)) = HandLines(t) + 1
    BY <2>3, <2>6, <2>7
  <2>12. t # Gone
    BY <2>4, GoneIsNoText
  <2> QED
    BY <2>3, <2>4, <2>5, <2>9, <2>10, <2>11, <2>12
<1> QED
  BY <1>1, <1>2 DEF Shaped

\* What the type invariant says of a conf file.
LEMMA ShapedTypes ==
    ASSUME NEW t, Shaped(t)
    PROVE  /\ Range(t) \subseteq Lines
           /\ \A i, j \in DOMAIN t : t[i] = t[j] => i = j \/ t[i] = Hand
           /\ \A k \in AllKeys : \A i, j \in DOMAIN t : IsOf(t[i], k) /\ IsOf(t[j], k) => i = j
           /\ Marked(t) => At(t, Begin) < At(t, End)
<1>1. t \in Seq(Lines)
  BY ShapedText
<1>2. Range(t) \subseteq Lines
  BY <1>1 DEF Range
<1>3. CASE \E r \in Regions, n \in Nat : t = Whole(r, n)
  <2>1. PICK r \in Regions, n \in Nat : t = Whole(r, n)
    BY <1>3
  <2>2. /\ Len(t) = Len(r) + 2 + n /\ Len(r) \in Nat /\ DOMAIN t = 1..Len(t)
        /\ t[1] = Begin /\ t[Len(r) + 2] = End
        /\ \A i \in 2..(Len(r) + 1) : t[i] = r[i - 1] /\ i - 1 \in 1..Len(r)
        /\ \A i \in (Len(r) + 3)..(Len(r) + 2 + n) : t[i] = Hand
    <3>1. DOMAIN t = 1..Len(t)
      BY <1>1
    <3>2. Len(r) \in Nat
      BY RegionParts
    <3>3. /\ Len(t) = Len(r) + 2 + n /\ t[1] = Begin /\ t[Len(r) + 2] = End
          /\ \A i \in 2..(Len(r) + 1) : t[i] = r[i - 1] /\ i - 1 \in 1..Len(r)
          /\ \A i \in (Len(r) + 3)..(Len(r) + 2 + n) : t[i] = Hand
      BY <2>1, WholeParts
    <3> QED
      BY <3>1, <3>2, <3>3
  <2>3. \A i \in DOMAIN t : \/ i = 1 \/ i \in 2..(Len(r) + 1) \/ i = Len(r) + 2
                            \/ i \in (Len(r) + 3)..(Len(r) + 2 + n)
    BY <2>1, <2>2, WholePlaces
  <2>4. \A i \in 1..Len(r) : r[i] \in Body /\ r[i] # Begin /\ r[i] # End
    BY RegionParts
  <2>5. \A k \in AllKeys : \A i \in DOMAIN t : IsOf(t[i], k) => i \in 2..(Len(r) + 1)
    BY <2>2, <2>3, LinesApart
  <2>6. \A k \in AllKeys : \A i, j \in DOMAIN t : IsOf(t[i], k) /\ IsOf(t[j], k) => i = j
    <3> SUFFICES ASSUME NEW k \in AllKeys, NEW i \in DOMAIN t, NEW j \in DOMAIN t,
                        IsOf(t[i], k), IsOf(t[j], k)
                 PROVE  i = j
      OBVIOUS
    <3>1. i \in 2..(Len(r) + 1) /\ j \in 2..(Len(r) + 1)
      BY <2>5
    <3>2. IsOf(r[i - 1], k) /\ IsOf(r[j - 1], k) /\ i - 1 \in 1..Len(r) /\ j - 1 \in 1..Len(r)
      BY <2>2, <3>1
    <3>3. i - 1 = j - 1
      BY <3>2, RegionParts DEF Regions, OneOf
    <3> QED
      BY <2>2, <3>1, <3>3
  <2>7. \A i, j \in DOMAIN t : t[i] = t[j] => i = j \/ t[i] = Hand
    <3> SUFFICES ASSUME NEW i \in DOMAIN t, NEW j \in DOMAIN t, t[i] = t[j], t[i] # Hand
                 PROVE  i = j
      OBVIOUS
    <3>1. \A m \in DOMAIN t : (t[m] = Begin => m = 1) /\ (t[m] = End => m = Len(r) + 2)
      BY <2>2, <2>3, <2>4, LinesApart
    <3>2. t[i] \in Lines
      BY <1>1
    <3>3. t[i] \in {Begin, End} \/ \E k \in AllKeys, v \in Values : t[i] = Entry(k, v)
      BY <3>2 DEF Lines
    <3>4. CASE \E k \in AllKeys, v \in Values : t[i] = Entry(k, v)
      <4>1. PICK k \in AllKeys, v \in Values : t[i] = Entry(k, v)
        BY <3>4
      <4>2. IsOf(t[i], k) /\ IsOf(t[j], k)
        BY <4>1, LinesApart
      <4> QED
        BY <2>6, <4>2
    <3> QED
      BY <3>1, <3>3, <3>4
  <2>8. At(t, Begin) < At(t, End)
    BY <2>1, <2>2, WholeMarks
  <2> QED
    BY <1>2, <2>6, <2>7, <2>8
<1>4. CASE \E n \in Nat : t = Hands(n)
  <2>1. PICK n \in Nat : t = Hands(n)
    BY <1>4
  <2>2. t \in Regions /\ ~Marked(t)
    BY <2>1, HandsParts
  <2>3. \A i \in DOMAIN t : t[i] = Hand
    BY <2>1 DEF Hands
  <2> QED
    BY <1>2, <2>2, <2>3 DEF Regions, OneOf
<1> QED
  BY <1>3, <1>4 DEF Shaped

\* Saving values.
LEMMA UpdatedText ==
    ASSUME NEW t, Shaped(t), NEW K \in SUBSET AllKeys, NEW vals \in [K -> Values]
    PROVE  /\ Shaped(Updated(t, vals)) /\ HandLines(Updated(t, vals)) = HandLines(t)
           /\ \A k \in AllKeys : Parsed(Region(Updated(t, vals)))[k]
                                   = IF k \in K THEN vals[k] ELSE Parsed(Region(t))[k]
<1>1. Region(t) \in Regions
  BY ShapedText
<1>2. /\ Over(Region(t), vals) \in Regions
      /\ HandLines(Over(Region(t), vals)) = HandLines(Region(t))
      /\ \A k \in AllKeys : Parsed(Over(Region(t), vals))[k]
                              = IF k \in K THEN vals[k] ELSE Parsed(Region(t))[k]
  BY <1>1, OverRegion
<1>3. /\ Shaped(Updated(t, vals)) /\ Region(Updated(t, vals)) = Over(Region(t), vals)
      /\ HandLines(Updated(t, vals)) = HandLines(t)
  BY <1>2, ShapedText DEF Updated
<1> QED
  BY <1>2, <1>3

\* Removing keys.
LEMMA WithoutText ==
    ASSUME NEW t, Shaped(t), NEW K \in SUBSET AllKeys
    PROVE  /\ Shaped(Without(t, K)) /\ HandLines(Without(t, K)) = HandLines(t)
           /\ \A k \in AllKeys : Parsed(Region(Without(t, K)))[k]
                                   = IF k \in K THEN Absent ELSE Parsed(Region(t))[k]
<1>1. Region(t) \in Regions
  BY ShapedText
<1>2. /\ Kept(Region(t), K) \in Regions
      /\ HandLines(Kept(Region(t), K)) = HandLines(Region(t))
      /\ \A k \in AllKeys : Parsed(Kept(Region(t), K))[k]
                              = IF k \in K THEN Absent ELSE Parsed(Region(t))[k]
  BY <1>1, KeptRegion
<1>3. /\ Shaped(Without(t, K)) /\ Region(Without(t, K)) = Kept(Region(t), K)
      /\ HandLines(Without(t, K)) = HandLines(t)
  BY <1>2, ShapedText DEF Without
<1> QED
  BY <1>2, <1>3

\* What Apply writes.
LEMMA AppliedText ==
    ASSUME NEW K \in SUBSET AllKeys, NEW vals \in [K -> Values]
    PROVE  /\ Shaped(Over(<<Begin>>, vals) \o <<End>>)
           /\ HandLines(Over(<<Begin>>, vals) \o <<End>>) = 0
<1> DEFINE A == SetToSeq({Entry(k, vals[k]) : k \in K})
           q == Over(<<>>, vals)
<1>1. {k \in DOMAIN vals : \A i \in DOMAIN <<>> : ~IsOf(<<>>[i], k)} = K
  OBVIOUS
<1>2. {k \in DOMAIN vals : \A i \in DOMAIN <<Begin>> : ~IsOf(<<Begin>>[i], k)} = K
  BY LinesApart
<1>3. <<>> \in Regions
  BY FirstTexts
<1>4. q \in Regions /\ HandLines(q) = HandLines(<<>>)
  BY <1>3, OverRegion
<1>5. Over(<<Begin>>, vals) = <<Begin>> \o q
  <2>1. [i \in DOMAIN <<Begin>> |->
            IF <<Begin>>[i][1] = "entry" /\ <<Begin>>[i][2] \in DOMAIN vals
            THEN Entry(<<Begin>>[i][2], vals[<<Begin>>[i][2]]) ELSE <<Begin>>[i]] = <<Begin>>
    BY LineParts
  <2>2. [i \in DOMAIN <<>> |->
            IF <<>>[i][1] = "entry" /\ <<>>[i][2] \in DOMAIN vals
            THEN Entry(<<>>[i][2], vals[<<>>[i][2]]) ELSE <<>>[i]] = <<>>
    OBVIOUS
  <2>3. Over(<<Begin>>, vals) = <<Begin>> \o A
    BY <1>2, <2>1, Zenon DEF Over
  <2>4. q = <<>> \o A
    BY <1>1, <2>2, Zenon DEF Over
  <2>5. A \in Seq(Body)
    <3>1. IsFiniteSet(K)
      BY KeysFinite, FS_Subset
    <3>2. [k \in K |-> Entry(k, vals[k])] \in Surjection(K, {Entry(k, vals[k]) : k \in K})
      BY DEF Surjection
    <3>3. IsFiniteSet({Entry(k, vals[k]) : k \in K})
      BY <3>1, <3>2, FS_Surjection
    <3>4. \A x \in {Entry(k, vals[k]) : k \in K} : x \in Body
      BY BodyLines
    <3> QED
      BY <3>3, <3>4, SetToSeqOf
  <2>6. q = A
    <3> HIDE DEF A, q
    <3> QED
      BY <2>4, <2>5, ConcatEmptySeq
  <2> QED
    BY <2>3, <2>6
<1>6. Over(<<Begin>>, vals) \o <<End>> = Whole(q, 0)
  BY <1>4, <1>5, Enclosed
<1>7. HandLines(<<>>) = 0
  BY FirstTexts, HandLinesOfHands
<1>8. HandLines(Whole(q, 0)) = HandLines(q) + 0
  BY <1>4, HandLinesOfWhole
<1> HIDE DEF q
<1>9. Shaped(Whole(q, 0))
  BY <1>4 DEF Shaped
<1>10. HandLines(Whole(q, 0)) = 0
  BY <1>4, <1>7, <1>8
<1> QED
  BY <1>6, <1>9, <1>10

-----------------------------------------------------------------------------
(* Which keys are where *)

LEMMA KeyOfOneSection ==
    ASSUME NEW s \in Sections, NEW t \in Sections, NEW k, k \in Keys[s], k \in Keys[t]
    PROVE  s = t
BY DEF Sections, Keys

LEMMA FileOfKey ==
    ASSUME NEW s \in Sections, NEW k \in Keys[s]
    PROVE  FileOf(k) = File[s]
BY KeyOfOneSection DEF FileOf

LEMMA FileOfKeys ==
    ASSUME NEW f, NEW k \in KeysIn(f)
    PROVE  FileOf(k) = f
BY FileOfKey DEF KeysIn

LEMMA KeysOfFiles ==
    /\ KeysIn("stack") = {"enabled", "image_url", "radius_km", "setting"}
    /\ KeysIn("api") = {"scatter_few_max", "host", "password", "haze_detection",
                        "openaq_sensor_id", "col_a", "col_b"}
    /\ KeysIn("branding") = {"site_title", "google_analytics_id"}
    /\ KeysIn("pages") = {"hidden"} /\ KeysIn("layout") = {"cards"}
<1>1. {t \in Sections : File[t] = "stack"} = {"webcam", "earthquakes", "card"}
  BY DEF Sections, File
<1>2. {t \in Sections : File[t] = "api"} = {"sky", "database", "conditions", "columns"}
  BY DEF Sections, File
<1>3. {t \in Sections : File[t] = "branding"} = {"branding", "analytics"}
  BY DEF Sections, File
<1>4. {t \in Sections : File[t] = "pages"} = {"pages"}
  BY DEF Sections, File
<1>5. {t \in Sections : File[t] = "layout"} = {"layout"}
  BY DEF Sections, File
<1> QED
  BY <1>1, <1>2, <1>3, <1>4, <1>5 DEF KeysIn, Keys

LEMMA KeysOfSections ==
    ASSUME NEW s \in Sections
    PROVE  Keys[s] \subseteq KeysIn(File[s]) /\ Keys[s] \subseteq AllKeys
BY DEF KeysIn, AllKeys

LEMMA KeyKinds ==
    /\ AllKeys = KeysIn("stack") \cup KeysIn("api") \cup JsonKeys \cup {"weights", "api_url"}
    /\ JsonKeys = {"site_title", "google_analytics_id", "hidden", "cards"}
    /\ \A f : KeysIn(f) \subseteq AllKeys
<1>1. JsonKeys = KeysIn("branding") \cup KeysIn("pages") \cup KeysIn("layout")
  BY DEF JsonKeys, Jsons
<1>2. JsonKeys = {"site_title", "google_analytics_id", "hidden", "cards"}
  BY <1>1, KeysOfFiles
<1>3. \A f : KeysIn(f) \subseteq AllKeys
  BY DEF KeysIn, AllKeys
<1>4. AllKeys = {"enabled", "image_url", "radius_km", "setting", "scatter_few_max", "host",
                 "password", "haze_detection", "openaq_sensor_id", "col_a", "col_b", "site_title",
                 "google_analytics_id", "hidden", "cards", "weights", "api_url"}
  BY DEF AllKeys, Sections, Keys
<1> QED
  BY <1>2, <1>3, <1>4, KeysOfFiles

\* What is read of a conf file.
Read(t, k) == IF t = Gone THEN Absent ELSE Parsed(Region(t))[k]

LEMMA StoredKinds ==
    /\ \A c \in Confs : \A k \in KeysIn(c) \ Secrets : Stored(k) = Read(text[c], k)
    /\ \A k \in JsonKeys : Stored(k) = json[k]
    /\ Stored("password") = secret /\ Stored("weights") = surf
    /\ Stored("api_url") = IF pins = <<>> THEN Absent ELSE Head(pins)
<1>1. /\ \A f \in Confs : f \notin Jsons \cup {"surf", "known"}
      /\ \A f \in Jsons : f \notin Confs \cup {"surf", "known"}
      /\ "surf" \notin Confs \cup Jsons \cup {"known"} /\ "known" \notin Confs \cup Jsons \cup {"surf"}
  BY DEF Confs, Jsons
<1>2. \A c \in Confs : \A k \in KeysIn(c) \ Secrets : Stored(k) = Read(text[c], k)
  <2> SUFFICES ASSUME NEW c \in Confs, NEW k \in KeysIn(c) \ Secrets
               PROVE  Stored(k) = Read(text[c], k)
    OBVIOUS
  <2>1. FileOf(k) = c
    BY FileOfKeys
  <2> QED
    BY <1>1, <2>1 DEF Stored, Read
<1>3. \A k \in JsonKeys : Stored(k) = json[k]
  <2> SUFFICES ASSUME NEW k \in JsonKeys
               PROVE  Stored(k) = json[k]
    OBVIOUS
  <2>1. FileOf(k) \in Jsons
    BY FileOfKeys DEF JsonKeys
  <2>2. k \notin Secrets
    BY KeyKinds DEF Secrets
  <2> QED
    BY <1>1, <2>1, <2>2 DEF Stored
<1>4. /\ FileOf("password") = "api" /\ FileOf("weights") = "surf" /\ FileOf("api_url") = "known"
      /\ "api" \in Confs
  <2>1. "password" \in KeysIn("api")
    BY KeysOfFiles
  <2>2. "surf" \in Sections /\ "weights" \in Keys["surf"] /\ File["surf"] = "surf"
    BY DEF Sections, Keys, File
  <2>3. "connection" \in Sections /\ "api_url" \in Keys["connection"] /\ File["connection"] = "known"
    BY DEF Sections, Keys, File
  <2> QED
    BY <2>1, <2>2, <2>3, FileOfKey, FileOfKeys DEF Confs
<1>5. "password" \in Secrets /\ "weights" \notin Secrets /\ "api_url" \notin Secrets
  BY DEF Secrets
<1>6. Stored("password") = secret
  BY <1>1, <1>4, <1>5 DEF Stored
<1>7. Stored("weights") = surf
  BY <1>1, <1>4, <1>5 DEF Stored
<1>8. Stored("api_url") = IF pins = <<>> THEN Absent ELSE Head(pins)
  BY <1>1, <1>4, <1>5 DEF Stored
<1> QED
  BY <1>2, <1>3, <1>6, <1>7, <1>8

-----------------------------------------------------------------------------
(* The inductive invariant *)

Texts   == {Gone} \cup {t \in Seq(Lines) : Shaped(t)}
Answers == Values \cup Urls \cup {Absent, Unsaved}

Typed ==
    /\ used \in Offers /\ text \in [Confs -> Texts]
    /\ json \in [JsonKeys -> Values \cup {Absent}]
    /\ secret \in Values \cup {Absent, Spoilt}
    /\ pins \in Seq(Urls) /\ Len(pins) <= MaxPins
    /\ caddy \in Urls \cup {Absent} /\ surf \in Values \cup {Absent}
    /\ last \in [AllKeys -> Answers] /\ hand \in [Confs -> 0..MaxHand]

\* The count of the operator's lines is that of the lines in the file, if it is there.
Counted == \A c \in Confs : hand[c] = IF text[c] = Gone THEN 0 ELSE HandLines(text[c])

ConfsStick ==
    \A c \in Confs : \A k \in KeysIn(c) \ Secrets : last[k] # Unsaved => Read(text[c], k) = last[k]
JsonStick   == \A k \in JsonKeys : last[k] # Unsaved => json[k] = last[k]
SecretStick == last["password"] # Unsaved => secret = last["password"]
SurfStick   == last["weights"] # Unsaved => surf = last["weights"]
UrlStick    == last["api_url"] # Unsaved =>
    pins # <<>> /\ Head(pins) = last["api_url"] /\ caddy = last["api_url"]

IInv == Typed /\ Counted /\ ConfsStick /\ JsonStick /\ SecretStick /\ SurfStick /\ UrlStick

LEMMA InitInvariant == Init => IInv
<1> SUFFICES ASSUME Init PROVE IInv
  OBVIOUS
<1>1. \A k \in AllKeys : last[k] = Unsaved
  BY DEF Init
<1>2. {<<Begin, End>>, <<>>, <<Hand>>} \subseteq Texts /\ <<>> # Gone /\ <<Begin, End>> # Gone
  <2>1. Shaped(<<Begin, End>>) /\ Shaped(<<>>) /\ Shaped(<<Hand>>)
    BY FirstTexts DEF Shaped
  <2> QED
    BY <2>1, ShapedText DEF Texts
<1>3. HandLines(<<Begin, End>>) = 0 /\ HandLines(<<>>) = 0
  <2>1. HandLines(<<>>) = 0
    BY FirstTexts, HandLinesOfHands
  <2>2. HandLines(Whole(<<>>, 0)) = HandLines(<<>>) + 0
    BY FirstTexts, HandLinesOfWhole
  <2> QED
    BY <2>1, <2>2, FirstTexts
<1>4. /\ text["stack"] \in {<<Begin, End>>, <<>>} /\ text["api"] \in {<<Begin, End>>, <<>>, Gone}
      /\ text = [c \in Confs |-> text[c]]
  BY DEF Init, Confs
<1>5. text \in [Confs -> Texts]
  BY <1>2, <1>4 DEF Confs, Texts
<1>6. pins \in Seq(Urls) /\ Len(pins) <= MaxPins /\ caddy \in Urls \cup {Absent}
  <2>1. CASE pins = <<>>
    BY <2>1, BoundsGiven DEF Init
  <2>2. CASE \E u \in Urls : pins = <<u>>
    <3>1. PICK u \in Urls : pins = <<u>>
      BY <2>2
    <3>2. pins \in Seq(Urls) /\ Len(pins) = 1 /\ Head(pins) = u /\ pins # <<>>
      BY <3>1
    <3> QED
      BY <3>2, BoundsGiven DEF Init
  <2> QED
    BY <2>1, <2>2 DEF Init
<1>7. Typed
  BY <1>5, <1>6, BoundsGiven DEF Init, Typed, Answers
<1>8. Counted
  BY <1>2, <1>3, <1>4 DEF Init, Counted, Confs
<1>9. JsonKeys \cup {"password", "weights", "api_url"} \cup KeysIn("stack") \cup KeysIn("api") \subseteq AllKeys
  BY KeyKinds, KeysOfFiles
<1>10. ConfsStick /\ JsonStick /\ SecretStick /\ SurfStick /\ UrlStick
  BY <1>1, <1>9, KeyKinds DEF ConfsStick, JsonStick, SecretStick, SurfStick, UrlStick
<1> QED
  BY <1>7, <1>8, <1>10 DEF IInv

LEMMA InvariantImplies == IInv => TypeOK /\ SavesStick /\ HandTextKept
<1> SUFFICES ASSUME IInv PROVE TypeOK /\ SavesStick /\ HandTextKept
  OBVIOUS
<1>1. \A c \in Confs : text[c] # Gone => Shaped(text[c])
  BY DEF IInv, Typed, Texts
<1>2. TypeOK
  <2>1. \A c \in Confs : text[c] # Gone =>
         /\ Range(text[c]) \subseteq Lines
         /\ \A i, j \in DOMAIN text[c] : text[c][i] = text[c][j] => i = j \/ text[c][i] = Hand
         /\ \A k \in AllKeys : \A i, j \in DOMAIN text[c] :
              IsOf(text[c][i], k) /\ IsOf(text[c][j], k) => i = j
         /\ Marked(text[c]) => At(text[c], Begin) < At(text[c], End)
    BY <1>1, ShapedTypes
  <2>2. Range(pins) \subseteq Urls
    BY DEF IInv, Typed, Range
  <2> QED
    BY <2>1, <2>2 DEF TypeOK, IInv, Typed, Answers
<1>3. SavesStick
  <2> SUFFICES ASSUME NEW k \in AllKeys, last[k] # Unsaved
               PROVE  Stored(k) = last[k] /\ (k = "api_url" => caddy = last[k])
    BY DEF SavesStick
  <2>1. CASE k \in KeysIn("stack") \/ k \in KeysIn("api")
    <3>1. PICK c \in Confs : k \in KeysIn(c)
      BY <2>1 DEF Confs
    <3>2. k # "api_url"
      BY <2>1, KeysOfFiles
    <3>3. CASE k \in Secrets
      BY <3>2, <3>3, StoredKinds DEF IInv, SecretStick, Secrets
    <3>4. CASE k \notin Secrets
      BY <3>1, <3>2, <3>4, StoredKinds DEF IInv, ConfsStick
    <3> QED
      BY <3>3, <3>4
  <2>2. CASE k \in JsonKeys
    <3>1. k # "api_url"
      BY <2>2, KeyKinds
    <3> QED
      BY <2>2, <3>1, StoredKinds DEF IInv, JsonStick
  <2>3. CASE k = "weights"
    BY <2>3, StoredKinds DEF IInv, SurfStick
  <2>4. CASE k = "api_url"
    BY <2>4, StoredKinds DEF IInv, UrlStick
  <2> QED
    BY <2>1, <2>2, <2>3, <2>4, KeyKinds
<1>4. HandTextKept
  BY DEF HandTextKept, IInv, Counted
<1> QED
  BY <1>2, <1>3, <1>4

-----------------------------------------------------------------------------
(* Steps *)

LEMMA PutParts ==
    ASSUME Typed, NEW K \in SUBSET AllKeys, NEW vals \in [K -> Answers]
    PROVE  /\ Put(last, vals) \in [AllKeys -> Answers]
           /\ \A k \in AllKeys : Put(last, vals)[k] = IF k \in K THEN vals[k] ELSE last[k]
BY DEF Put, Typed

LEMMA ForgetParts ==
    ASSUME Typed, NEW K
    PROVE  /\ Forget(K) \in [AllKeys -> Answers]
           /\ \A k \in AllKeys : Forget(K)[k] = IF k \in K THEN Unsaved ELSE last[k]
BY DEF Forget, Typed, Answers

\* The files of two confs have no key in common, nor with what is kept elsewhere.
LEMMA ConfKeys ==
    /\ \A c, d \in Confs : c # d => KeysIn(c) \cap KeysIn(d) = {}
    /\ \A c \in Confs : KeysIn(c) \cap (JsonKeys \cup {"weights", "api_url"}) = {}
    /\ JsonKeys \cup {"weights", "api_url", "password"} \subseteq AllKeys
    /\ KeysIn("stack") \cap Secrets = {} /\ "password" \in KeysIn("api") /\ Secrets = {"password"}
BY KeysOfFiles, KeyKinds DEF Confs, Secrets

\* What is not in a conf file is as it was when nothing is put there.
LEMMA OthersStick ==
    ASSUME IInv, UNCHANGED <<json, pins, caddy, surf>>,
           \A k \in JsonKeys \cup {"weights", "api_url"} : last'[k] \in {Unsaved, last[k]}
    PROVE  JsonStick' /\ SurfStick' /\ UrlStick'
<1>1. JsonStick'
  BY DEF IInv, JsonStick
<1>2. SurfStick'
  BY DEF IInv, SurfStick
<1>3. UrlStick'
  BY DEF IInv, UrlStick
<1> QED
  BY <1>1, <1>2, <1>3

\* The write of a conf file, whichever way it goes, when the new text has what the
\* save answers for and keeps the operator's lines.
LEMMA WriteConfKeeps ==
    ASSUME IInv, NEW c \in Confs, text[c] # Gone, NEW new, NEW answered \in [AllKeys -> Answers],
           NEW K, Shaped(new), HandLines(new) = HandLines(text[c]),
           \A k \in KeysIn(c) \ Secrets : answered[k] # Unsaved => Parsed(Region(new))[k] = answered[k],
           \A k \in AllKeys \ KeysIn(c) : answered[k] = last[k],
           WriteConf(c, new, answered, K)
    PROVE  /\ text' \in [Confs -> Texts] /\ hand' \in [Confs -> 0..MaxHand]
           /\ last' \in [AllKeys -> Answers] /\ Counted' /\ ConfsStick'
           /\ \A k \in AllKeys \ KeysIn(c) : last'[k] \in {Unsaved, last[k]}
           /\ \/ last' = answered
              \/ \A k \in AllKeys : last'[k] = Unsaved \/ (k \notin K /\ last'[k] = last[k])
<1>1. /\ Typed /\ Counted /\ ConfsStick
      /\ text \in [Confs -> Texts] /\ hand \in [Confs -> 0..MaxHand] /\ last \in [AllKeys -> Answers]
  BY DEF IInv, Typed
<1>2. \A f : KeysIn(f) \subseteq AllKeys
  BY KeyKinds
<1>3. \A d \in Confs : d # c => KeysIn(c) \cap KeysIn(d) = {}
  BY ConfKeys
<1>4. ASSUME text' = [text EXCEPT ![c] = new], last' = answered, UNCHANGED hand
      PROVE  /\ text' \in [Confs -> Texts] /\ hand' \in [Confs -> 0..MaxHand]
             /\ last' \in [AllKeys -> Answers] /\ Counted' /\ ConfsStick'
             /\ \A k \in AllKeys \ KeysIn(c) : last'[k] \in {Unsaved, last[k]}
  <2>1. new \in Texts /\ new # Gone
    BY ShapedText DEF Texts
  <2>2. text' \in [Confs -> Texts] /\ text'[c] = new /\ \A d \in Confs : d # c => text'[d] = text[d]
    BY <1>1, <1>4, <2>1
  <2>3. Counted'
    BY <1>1, <1>4, <2>1, <2>2 DEF Counted
  <2>4. \A k \in KeysIn(c) \ Secrets : last'[k] # Unsaved => Read(text'[c], k) = last'[k]
    BY <1>4, <2>1, <2>2 DEF Read
  <2>5. \A d \in Confs : d # c => \A k \in KeysIn(d) \ Secrets : last'[k] = last[k]
    BY <1>2, <1>3, <1>4
  <2>6. \A d \in Confs : d # c => \A k \in KeysIn(d) \ Secrets :
            last'[k] # Unsaved => Read(text'[d], k) = last'[k]
    BY <1>1, <2>2, <2>5 DEF ConfsStick
  <2>7. ConfsStick'
    BY <2>4, <2>6 DEF ConfsStick
  <2> QED
    BY <1>1, <1>4, <2>2, <2>3, <2>7
<1>5. ASSUME UNCHANGED <<text, hand>>, last' = Forget(K)
      PROVE  /\ text' \in [Confs -> Texts] /\ hand' \in [Confs -> 0..MaxHand]
             /\ last' \in [AllKeys -> Answers] /\ Counted' /\ ConfsStick'
             /\ \A k \in AllKeys : last'[k] = Unsaved \/ (k \notin K /\ last'[k] = last[k])
  <2>1. last' \in [AllKeys -> Answers] /\ \A k \in AllKeys : last'[k] = IF k \in K THEN Unsaved ELSE last[k]
    BY <1>1, <1>5, ForgetParts
  <2>2. ConfsStick'
    BY <1>1, <1>2, <1>5, <2>1 DEF ConfsStick
  <2>3. Counted'
    BY <1>1, <1>5 DEF Counted
  <2> QED
    BY <1>1, <1>5, <2>1, <2>2, <2>3
<1>6. ASSUME text' = [text EXCEPT ![c] = <<>>], last' = Forget(KeysIn(c) \cup K),
             hand' = [hand EXCEPT ![c] = 0]
      PROVE  /\ text' \in [Confs -> Texts] /\ hand' \in [Confs -> 0..MaxHand]
             /\ last' \in [AllKeys -> Answers] /\ Counted' /\ ConfsStick'
             /\ \A k \in AllKeys : last'[k] = Unsaved \/ (k \notin K /\ last'[k] = last[k])
  <2>1. /\ last' \in [AllKeys -> Answers]
        /\ \A k \in AllKeys : last'[k] = IF k \in KeysIn(c) \cup K THEN Unsaved ELSE last[k]
    BY <1>1, <1>6, ForgetParts
  <2>2. Shaped(<<>>) /\ HandLines(<<>>) = 0
    BY FirstTexts, HandLinesOfHands DEF Shaped
  <2>3. <<>> \in Texts /\ <<>> # Gone
    BY <2>2, ShapedText DEF Texts
  <2>4. text' \in [Confs -> Texts] /\ text'[c] = <<>> /\ \A d \in Confs : d # c => text'[d] = text[d]
    BY <1>1, <1>6, <2>3
  <2>5. hand' \in [Confs -> 0..MaxHand] /\ hand'[c] = 0 /\ \A d \in Confs : d # c => hand'[d] = hand[d]
    BY <1>1, <1>6, BoundsGiven
  <2>6. Counted'
    BY <1>1, <2>2, <2>3, <2>4, <2>5 DEF Counted
  <2>7. \A k \in KeysIn(c) : last'[k] = Unsaved
    BY <1>2, <2>1
  <2>8. \A d \in Confs : d # c => \A k \in KeysIn(d) \ Secrets :
            last'[k] # Unsaved => Read(text'[d], k) = last'[k]
    BY <1>1, <1>2, <2>1, <2>4 DEF ConfsStick
  <2>9. ConfsStick'
    BY <2>7, <2>8 DEF ConfsStick
  <2> QED
    BY <2>1, <2>4, <2>5, <2>6, <2>9
<1>7. CASE text' = [text EXCEPT ![c] = new] /\ last' = answered /\ UNCHANGED hand
  BY <1>4, <1>7
<1>8. CASE UNCHANGED <<text, hand>> /\ last' = Forget(K)
  BY <1>5, <1>8
<1>9. CASE /\ text' = [text EXCEPT ![c] = <<>>] /\ last' = Forget(KeysIn(c) \cup K)
           /\ hand' = [hand EXCEPT ![c] = 0]
  BY <1>6, <1>9
<1> QED
  BY <1>7, <1>8, <1>9 DEF WriteConf

\* A save of values for keys of one conf file, whose password stays as it is.
LEMMA SavesKeep ==
    ASSUME IInv, NEW c \in Confs, text[c] # Gone, NEW K \in SUBSET (KeysIn(c) \ Secrets),
           NEW vals \in [K -> Values],
           WriteConf(c, Updated(text[c], vals), Put(last, vals), {}),
           UNCHANGED <<used, json, secret, pins, caddy, surf>>
    PROVE  IInv'
<1> DEFINE new == Updated(text[c], vals)
           answered == Put(last, vals)
<1>1. K \in SUBSET AllKeys /\ vals \in [K -> Answers]
  BY KeyKinds DEF Answers
<1>2. answered \in [AllKeys -> Answers] /\ \A k \in AllKeys : answered[k] = IF k \in K THEN vals[k] ELSE last[k]
  BY <1>1, PutParts DEF IInv
<1>3. Shaped(text[c])
  BY DEF IInv, Typed, Texts
<1>4. /\ Shaped(new) /\ HandLines(new) = HandLines(text[c])
      /\ \A k \in AllKeys : Parsed(Region(new))[k] = IF k \in K THEN vals[k] ELSE Parsed(Region(text[c]))[k]
  BY <1>1, <1>3, UpdatedText
<1> HIDE DEF new, answered
<1>5. \A k \in KeysIn(c) \ Secrets : answered[k] # Unsaved => Parsed(Region(new))[k] = answered[k]
  BY <1>2, <1>4, KeyKinds DEF IInv, ConfsStick, Read
<1>6. \A k \in AllKeys \ KeysIn(c) : answered[k] = last[k]
  BY <1>2
<1>7. WriteConf(c, new, answered, {})
  BY DEF new, answered
<1>8. /\ text' \in [Confs -> Texts] /\ hand' \in [Confs -> 0..MaxHand]
      /\ last' \in [AllKeys -> Answers] /\ Counted' /\ ConfsStick'
      /\ \A k \in AllKeys \ KeysIn(c) : last'[k] \in {Unsaved, last[k]}
      /\ \/ last' = answered
         \/ \A k \in AllKeys : last'[k] = Unsaved \/ (k \notin {} /\ last'[k] = last[k])
  BY <1>2, <1>4, <1>5, <1>6, <1>7, WriteConfKeeps
<1>9. JsonStick' /\ SurfStick' /\ UrlStick'
  BY <1>8, ConfKeys, OthersStick
<1>10. SecretStick'
  <2>1. last'["password"] \in {Unsaved, last["password"]}
    BY <1>2, <1>8, ConfKeys
  <2> QED
    BY <2>1 DEF IInv, SecretStick
<1>11. Typed'
  BY <1>8 DEF IInv, Typed
<1> QED
  BY <1>8, <1>9, <1>10, <1>11 DEF IInv

LEMMA SaveConfKeeps ==
    ASSUME IInv, NEW s \in Sections, SaveConf(s)
    PROVE  IInv'
<1>1. s \in {"webcam", "earthquakes", "card", "sky"}
  BY DEF SaveConf
<1>2. File[s] \in Confs
  BY <1>1 DEF File, Confs
<1>3. Keys[s] \in SUBSET (KeysIn(File[s]) \ Secrets)
  <2>1. "password" \notin Keys[s]
    BY <1>1 DEF Keys
  <2> QED
    BY <2>1, KeysOfSections, ConfKeys
<1>4. PICK vals \in [Keys[s] -> Values] :
        WriteConf(File[s], Updated(text[File[s]], vals), Put(last, vals), {})
  BY DEF SaveConf
<1>5. text[File[s]] # Gone /\ UNCHANGED <<used, json, secret, pins, caddy, surf>>
  BY DEF SaveConf
<1> QED
  BY <1>2, <1>3, <1>4, <1>5, SavesKeep

LEMMA EditWebcamKeeps ==
    ASSUME IInv, EditWebcam
    PROVE  IInv'
<1>1. PICK K \in (SUBSET Keys["webcam"]) \ {{}} : \E vals \in [K -> Values] :
        WriteConf("stack", Updated(text["stack"], vals), Put(last, vals), {})
  BY DEF EditWebcam
<1>2. K \in SUBSET (KeysIn("stack") \ Secrets) /\ "stack" \in Confs
  BY KeysOfFiles, ConfKeys DEF Keys, Confs
<1>3. text["stack"] # Gone /\ UNCHANGED <<used, json, secret, pins, caddy, surf>>
  BY DEF EditWebcam
<1> QED
  BY <1>1, <1>2, <1>3, SavesKeep

LEMMA SaveHazeKeeps ==
    ASSUME IInv, SaveHaze
    PROVE  IInv'
<1>1. PICK K \in {{"haze_detection"}, Keys["conditions"]} : \E vals \in [K -> Values] :
        WriteConf("api", Updated(text["api"], vals), Put(last, vals), {})
  BY DEF SaveHaze
<1>2. K \in SUBSET (KeysIn("api") \ Secrets) /\ "api" \in Confs
  BY KeysOfFiles, ConfKeys DEF Keys, Confs
<1>3. text["api"] # Gone /\ UNCHANGED <<used, json, secret, pins, caddy, surf>>
  BY DEF SaveHaze
<1> QED
  BY <1>1, <1>2, <1>3, SavesKeep

LEMMA EditDatabaseKeeps ==
    ASSUME IInv, EditDatabase
    PROVE  IInv'
<1>1. PICK K \in (SUBSET Keys["database"]) \ {{}} : \E vals \in [K -> Values] :
         LET conf == [k \in K \ Secrets |-> vals[k]]
         IN  \/ /\ secret' = IF "password" \in K THEN vals["password"] ELSE secret
                /\ IF DOMAIN conf = {}
                   THEN last' = Put(last, vals) /\ UNCHANGED <<text, hand>>
                   ELSE WriteConf("api", Updated(text["api"], conf), Put(last, vals), K \cap Secrets)
             \/ /\ "password" \in K
                /\ secret' \in {secret, Absent}
                /\ last' = IF secret' = secret THEN last ELSE Forget(Secrets)
                /\ UNCHANGED <<text, hand>>
  BY DEF EditDatabase
<1>2. PICK vals \in [K -> Values] :
         \/ /\ secret' = IF "password" \in K THEN vals["password"] ELSE secret
            /\ IF DOMAIN [k \in K \ Secrets |-> vals[k]] = {}
               THEN last' = Put(last, vals) /\ UNCHANGED <<text, hand>>
               ELSE WriteConf("api", Updated(text["api"], [k \in K \ Secrets |-> vals[k]]),
                              Put(last, vals), K \cap Secrets)
         \/ /\ "password" \in K
            /\ secret' \in {secret, Absent}
            /\ last' = IF secret' = secret THEN last ELSE Forget(Secrets)
            /\ UNCHANGED <<text, hand>>
  BY <1>1
<1> DEFINE conf == [k \in K \ Secrets |-> vals[k]]
           new  == Updated(text["api"], conf)
           answered == Put(last, vals)
<1>3. text["api"] # Gone /\ UNCHANGED <<used, json, pins, caddy, surf>>
  BY DEF EditDatabase
<1>4. K \in SUBSET KeysIn("api") /\ K \in SUBSET AllKeys /\ "api" \in Confs
  BY KeysOfFiles, KeyKinds DEF Keys, Confs
<1>5. conf \in [K \ Secrets -> Values] /\ DOMAIN conf = K \ Secrets
  OBVIOUS
<1>6. /\ answered \in [AllKeys -> Answers]
      /\ \A k \in AllKeys : answered[k] = IF k \in K THEN vals[k] ELSE last[k]
  <2>1. vals \in [K -> Answers]
    BY DEF Answers
  <2> QED
    BY <1>4, <2>1, PutParts DEF IInv
<1>7. Typed /\ Counted /\ ConfsStick /\ SecretStick
  BY DEF IInv
<1>8. ASSUME secret' = IF "password" \in K THEN vals["password"] ELSE secret,
             DOMAIN conf = {}, last' = answered, UNCHANGED <<text, hand>>
      PROVE  IInv'
  <2> HIDE DEF answered
  <2>1. K \subseteq Secrets
    BY <1>5, <1>8
  <2>2. ConfsStick'
    BY <1>6, <1>7, <1>8, <2>1, KeyKinds DEF ConfsStick
  <2>3. Counted'
    BY <1>7, <1>8 DEF Counted
  <2>4. Typed'
    BY <1>3, <1>6, <1>7, <1>8 DEF Typed
  <2>5. SecretStick'
    BY <1>6, <1>7, <1>8, ConfKeys DEF SecretStick
  <2>6. \A k \in JsonKeys \cup {"weights", "api_url"} : last'[k] = last[k]
    BY <1>4, <1>6, <1>8, ConfKeys
  <2>7. JsonStick' /\ SurfStick' /\ UrlStick'
    BY <1>3, <2>6, OthersStick
  <2> QED
    BY <2>2, <2>3, <2>4, <2>5, <2>7 DEF IInv
<1>9. ASSUME secret' = IF "password" \in K THEN vals["password"] ELSE secret,
             WriteConf("api", new, answered, K \cap Secrets)
      PROVE  IInv'
  <2>1. Shaped(text["api"])
    BY <1>3, <1>4, <1>7 DEF Typed, Texts
  <2>2. K \ Secrets \in SUBSET AllKeys
    BY <1>4
  <2>3. /\ Shaped(new) /\ HandLines(new) = HandLines(text["api"])
        /\ \A k \in AllKeys : Parsed(Region(new))[k]
                                = IF k \in K \ Secrets THEN conf[k] ELSE Parsed(Region(text["api"]))[k]
    BY <1>5, <2>1, <2>2, UpdatedText
  <2>4. \A k \in K \ Secrets : conf[k] = vals[k]
    OBVIOUS
  <2> HIDE DEF new, answered, conf
  <2>5. \A k \in KeysIn("api") \ Secrets : answered[k] # Unsaved => Parsed(Region(new))[k] = answered[k]
    BY <1>3, <1>4, <1>6, <1>7, <2>3, <2>4, KeyKinds DEF ConfsStick, Read
  <2>6. \A k \in AllKeys \ KeysIn("api") : answered[k] = last[k]
    BY <1>4, <1>6
  <2>7. /\ text' \in [Confs -> Texts] /\ hand' \in [Confs -> 0..MaxHand]
        /\ last' \in [AllKeys -> Answers] /\ Counted' /\ ConfsStick'
        /\ \A k \in AllKeys \ KeysIn("api") : last'[k] \in {Unsaved, last[k]}
        /\ \/ last' = answered
           \/ \A k \in AllKeys : last'[k] = Unsaved \/ (k \notin K \cap Secrets /\ last'[k] = last[k])
    BY <1>3, <1>4, <1>6, <1>9, <2>3, <2>5, <2>6, WriteConfKeeps
  <2>8. JsonStick' /\ SurfStick' /\ UrlStick'
    BY <1>3, <1>4, <2>7, ConfKeys, OthersStick
  <2>9. SecretStick'
    BY <1>6, <1>7, <1>9, <2>7, ConfKeys DEF SecretStick
  <2>10. Typed'
    BY <1>3, <1>7, <1>9, <2>7 DEF Typed
  <2> QED
    BY <2>7, <2>8, <2>9, <2>10 DEF IInv
<1>10. ASSUME secret' \in {secret, Absent}, last' = IF secret' = secret THEN last ELSE Forget(Secrets),
              UNCHANGED <<text, hand>>
       PROVE  IInv'
  <2>1. /\ last' \in [AllKeys -> Answers]
        /\ \A k \in AllKeys : last'[k] = last[k] \/ (last'[k] = Unsaved)
        /\ secret' = secret \/ last'["password"] = Unsaved
    <3>1. last \in [AllKeys -> Answers]
      BY <1>7 DEF Typed
    <3>2. /\ Forget(Secrets) \in [AllKeys -> Answers]
          /\ \A k \in AllKeys : Forget(Secrets)[k] = IF k \in Secrets THEN Unsaved ELSE last[k]
      BY <1>7, ForgetParts
    <3> QED
      BY <1>10, <3>1, <3>2, ConfKeys
  <2>2. ConfsStick'
    BY <1>7, <1>10, <2>1, KeyKinds DEF ConfsStick
  <2>3. Counted'
    BY <1>7, <1>10 DEF Counted
  <2>4. Typed'
    BY <1>3, <1>7, <1>10, <2>1 DEF Typed
  <2>5. SecretStick'
    BY <1>7, <2>1, ConfKeys DEF SecretStick
  <2>6. JsonStick' /\ SurfStick' /\ UrlStick'
    BY <1>3, <2>1, ConfKeys, OthersStick
  <2> QED
    BY <2>2, <2>3, <2>4, <2>5, <2>6 DEF IInv
<1> QED
  BY <1>2, <1>8, <1>9, <1>10

LEMMA SaveColumnsKeeps ==
    ASSUME IInv, SaveColumns
    PROVE  IInv'
<1>1. PICK K \in SUBSET Keys["columns"] : \E vals \in [K -> Values \cup {Absent}] :
         LET mapped == {k \in K : vals[k] # Absent}
             first  == Updated(text["api"], [k \in mapped |-> vals[k]])
         IN  IF mapped = K
             THEN WriteConf("api", first, Put(last, vals), {})
             ELSE \/ WriteConf("api", Without(first, K \ mapped), Put(last, vals), {})
                  \/ /\ text' = [text EXCEPT !["api"] = first]
                     /\ last' = Forget(K) /\ UNCHANGED hand
  BY DEF SaveColumns
<1>2. PICK vals \in [K -> Values \cup {Absent}] :
         LET mapped == {k \in K : vals[k] # Absent}
             first  == Updated(text["api"], [k \in mapped |-> vals[k]])
         IN  IF mapped = K
             THEN WriteConf("api", first, Put(last, vals), {})
             ELSE \/ WriteConf("api", Without(first, K \ mapped), Put(last, vals), {})
                  \/ /\ text' = [text EXCEPT !["api"] = first]
                     /\ last' = Forget(K) /\ UNCHANGED hand
  BY <1>1
<1> DEFINE mapped == {k \in K : vals[k] # Absent}
           chosen == [k \in mapped |-> vals[k]]
           first  == Updated(text["api"], chosen)
           second == Without(first, K \ mapped)
           answered == Put(last, vals)
<1>3. text["api"] # Gone /\ UNCHANGED <<used, json, secret, pins, caddy, surf>>
  BY DEF SaveColumns
<1>4. /\ K \in SUBSET (KeysIn("api") \ Secrets) /\ K \in SUBSET AllKeys /\ "api" \in Confs
      /\ mapped \in SUBSET AllKeys /\ K \ mapped \in SUBSET AllKeys
  BY KeysOfFiles, KeyKinds, ConfKeys DEF Keys, Confs
<1>5. Typed /\ Counted /\ ConfsStick /\ SecretStick
  BY DEF IInv
<1>6. /\ answered \in [AllKeys -> Answers]
      /\ \A k \in AllKeys : answered[k] = IF k \in K THEN vals[k] ELSE last[k]
  <2>1. vals \in [K -> Answers]
    BY DEF Answers
  <2> QED
    BY <1>4, <1>5, <2>1, PutParts
<1>7. Shaped(text["api"])
  BY <1>3, <1>4, <1>5 DEF Typed, Texts
<1>8. chosen \in [mapped -> Values] /\ \A k \in mapped : chosen[k] = vals[k]
  OBVIOUS
<1>9. mapped \subseteq K /\ \A k \in K : k \in mapped \/ vals[k] = Absent
  OBVIOUS
<1>10. CASE mapped = K /\ WriteConf("api", first, answered, {})
  <2>1. chosen = vals
    BY <1>10
  <2>2. vals \in [K -> Values]
    BY <1>8, <1>10, <2>1
  <2> QED
    BY <1>3, <1>4, <1>10, <2>1, <2>2, SavesKeep
<1>11. /\ Shaped(first) /\ HandLines(first) = HandLines(text["api"])
       /\ \A k \in AllKeys : Parsed(Region(first))[k]
                               = IF k \in mapped THEN chosen[k] ELSE Parsed(Region(text["api"]))[k]
  BY <1>4, <1>7, <1>8, UpdatedText
<1>12. /\ Shaped(second) /\ HandLines(second) = HandLines(first)
       /\ \A k \in AllKeys : Parsed(Region(second))[k]
                               = IF k \in K \ mapped THEN Absent ELSE Parsed(Region(first))[k]
  BY <1>4, <1>11, WithoutText
<1>13. CASE WriteConf("api", second, answered, {})
  <2> HIDE DEF mapped, chosen, first, second, answered
  <2>1. \A k \in KeysIn("api") \ Secrets : answered[k] # Unsaved => Parsed(Region(second))[k] = answered[k]
    <3> SUFFICES ASSUME NEW k \in KeysIn("api") \ Secrets, answered[k] # Unsaved
                 PROVE  Parsed(Region(second))[k] = answered[k]
      OBVIOUS
    <3>1. k \in AllKeys
      BY KeyKinds
    <3>2. CASE k \in mapped
      BY <1>6, <1>8, <1>9, <1>11, <1>12, <3>1, <3>2
    <3>3. CASE k \in K \ mapped
      BY <1>6, <1>9, <1>12, <3>1, <3>3
    <3>4. CASE k \notin K
      <4>1. answered[k] = last[k] /\ k \notin mapped
        BY <1>6, <1>9, <3>1, <3>4
      <4>2. Parsed(Region(second))[k] = Parsed(Region(text["api"]))[k]
        BY <1>11, <1>12, <3>1, <3>4, <4>1
      <4>3. Read(text["api"], k) = last[k]
        BY <1>4, <1>5, <4>1 DEF ConfsStick
      <4> QED
        BY <1>3, <4>1, <4>2, <4>3 DEF Read
    <3> QED
      BY <3>2, <3>3, <3>4
  <2>2. \A k \in AllKeys \ KeysIn("api") : answered[k] = last[k]
    BY <1>4, <1>6
  <2>3. HandLines(second) = HandLines(text["api"])
    BY <1>11, <1>12
  <2>4. /\ text' \in [Confs -> Texts] /\ hand' \in [Confs -> 0..MaxHand]
        /\ last' \in [AllKeys -> Answers] /\ Counted' /\ ConfsStick'
        /\ \A k \in AllKeys \ KeysIn("api") : last'[k] \in {Unsaved, last[k]}
        /\ \/ last' = answered
           \/ \A k \in AllKeys : last'[k] = Unsaved \/ (k \notin {} /\ last'[k] = last[k])
    BY <1>3, <1>4, <1>6, <1>12, <1>13, <2>1, <2>2, <2>3, WriteConfKeeps
  <2>5. JsonStick' /\ SurfStick' /\ UrlStick'
    BY <1>3, <1>4, <2>4, ConfKeys, OthersStick
  <2>6. SecretStick'
    <3>1. last'["password"] \in {Unsaved, last["password"]}
      BY <1>4, <1>6, <2>4, ConfKeys
    <3> QED
      BY <1>3, <1>5, <3>1 DEF SecretStick
  <2>7. Typed'
    BY <1>3, <1>5, <2>4 DEF Typed
  <2> QED
    BY <2>4, <2>5, <2>6, <2>7 DEF IInv
<1>14. CASE text' = [text EXCEPT !["api"] = first] /\ last' = Forget(K) /\ UNCHANGED hand
  <2> HIDE DEF mapped, chosen, first, second, answered
  <2>1. last' \in [AllKeys -> Answers] /\ \A k \in AllKeys : last'[k] = IF k \in K THEN Unsaved ELSE last[k]
    BY <1>5, <1>14, ForgetParts
  <2>2. first \in Texts /\ first # Gone
    BY <1>11, ShapedText DEF Texts
  <2>3. /\ text' \in [Confs -> Texts] /\ text'["api"] = first
        /\ \A d \in Confs : d # "api" => text'[d] = text[d]
    BY <1>4, <1>5, <1>14, <2>2 DEF Typed
  <2>4. Counted'
    BY <1>3, <1>4, <1>5, <1>11, <1>14, <2>2, <2>3 DEF Counted
  <2>5. \A k \in KeysIn("api") \ Secrets : last'[k] # Unsaved => Read(first, k) = last'[k]
    <3> SUFFICES ASSUME NEW k \in KeysIn("api") \ Secrets, last'[k] # Unsaved
                 PROVE  Read(first, k) = last'[k]
      OBVIOUS
    <3>1. k \in AllKeys
      BY KeyKinds
    <3>2. k \notin K /\ last'[k] = last[k]
      BY <2>1, <3>1
    <3>3. k \notin mapped
      BY <3>2 DEF mapped
    <3>4. Read(first, k) = Read(text["api"], k)
      BY <1>3, <1>11, <2>2, <3>1, <3>3 DEF Read
    <3> QED
      BY <1>4, <1>5, <3>2, <3>4 DEF ConfsStick
  <2>6. ConfsStick'
    BY <1>5, <2>1, <2>3, <2>5, KeyKinds DEF ConfsStick
  <2>7. Typed'
    BY <1>3, <1>5, <1>14, <2>1, <2>3 DEF Typed
  <2>8. JsonStick' /\ SurfStick' /\ UrlStick'
    BY <1>3, <2>1, ConfKeys, OthersStick
  <2>9. SecretStick'
    BY <1>3, <1>5, <2>1, ConfKeys DEF SecretStick
  <2> QED
    BY <2>4, <2>6, <2>7, <2>8, <2>9 DEF IInv
<1> QED
  BY <1>2, <1>10, <1>13, <1>14

\* A step that leaves the conf files alone keeps what is said of them.
LEMMA ConfsUntouched ==
    ASSUME IInv, UNCHANGED <<text, hand>>,
           \A c \in Confs : \A k \in KeysIn(c) : last'[k] \in {Unsaved, last[k]}
    PROVE  Counted' /\ ConfsStick'
<1>1. Counted'
  BY DEF IInv, Counted
<1>2. ConfsStick'
  BY DEF IInv, ConfsStick
<1> QED
  BY <1>1, <1>2

LEMMA SaveJsonKeeps ==
    ASSUME IInv, NEW s \in Sections, SaveJson(s)
    PROVE  IInv'
<1>1. PICK vals \in [Keys[s] -> Values] :
         \/ json' = Put(json, vals) /\ last' = Put(last, vals)
         \/ UNCHANGED <<json, last>>
         \/ /\ json' = [k \in JsonKeys |-> IF k \in KeysIn(File[s]) THEN Absent ELSE json[k]]
            /\ last' = Forget(KeysIn(File[s]))
  BY DEF SaveJson
<1>2. UNCHANGED <<used, text, secret, pins, caddy, surf, hand>>
  BY DEF SaveJson
<1>3. Typed /\ JsonStick /\ SecretStick /\ SurfStick /\ UrlStick
  BY DEF IInv
<1>4. KeysIn(File[s]) \subseteq JsonKeys /\ Keys[s] \in SUBSET JsonKeys /\ Keys[s] \in SUBSET AllKeys
  BY KeysOfSections DEF SaveJson, JsonKeys
<1>5. /\ json \in [JsonKeys -> Values \cup {Absent}] /\ last \in [AllKeys -> Answers]
  BY <1>3 DEF Typed
<1>6. /\ json' \in [JsonKeys -> Values \cup {Absent}] /\ last' \in [AllKeys -> Answers]
      /\ \A k \in AllKeys \ JsonKeys : last'[k] = last[k]
      /\ \A k \in JsonKeys : \/ last'[k] = Unsaved \/ json'[k] = last'[k]
                             \/ (last'[k] = last[k] /\ json'[k] = json[k])
  <2>1. CASE json' = Put(json, vals) /\ last' = Put(last, vals)
    <3>1. vals \in [Keys[s] -> Answers]
      BY DEF Answers
    <3>2. /\ last' \in [AllKeys -> Answers]
          /\ \A k \in AllKeys : last'[k] = IF k \in Keys[s] THEN vals[k] ELSE last[k]
      BY <1>3, <1>4, <2>1, <3>1, PutParts
    <3>3. /\ json' \in [JsonKeys -> Values \cup {Absent}]
          /\ \A k \in JsonKeys : json'[k] = IF k \in Keys[s] THEN vals[k] ELSE json[k]
      BY <1>4, <1>5, <2>1 DEF Put
    <3> QED
      BY <1>4, <3>2, <3>3, ConfKeys
  <2>2. CASE UNCHANGED <<json, last>>
    BY <1>5, <2>2
  <2>3. CASE /\ json' = [k \in JsonKeys |-> IF k \in KeysIn(File[s]) THEN Absent ELSE json[k]]
             /\ last' = Forget(KeysIn(File[s]))
    <3>1. /\ last' \in [AllKeys -> Answers]
          /\ \A k \in AllKeys : last'[k] = IF k \in KeysIn(File[s]) THEN Unsaved ELSE last[k]
      BY <1>3, <2>3, ForgetParts
    <3>2. /\ json' \in [JsonKeys -> Values \cup {Absent}]
          /\ \A k \in JsonKeys : json'[k] = IF k \in KeysIn(File[s]) THEN Absent ELSE json[k]
      BY <1>5, <2>3
    <3> QED
      BY <1>4, <3>1, <3>2, ConfKeys
  <2> QED
    BY <1>1, <2>1, <2>2, <2>3
<1>7. JsonStick'
  BY <1>3, <1>6 DEF JsonStick
<1>8. \A k \in {"password", "weights", "api_url"} : last'[k] = last[k]
  BY <1>6, ConfKeys, KeyKinds
<1>9. SecretStick' /\ SurfStick' /\ UrlStick'
  BY <1>2, <1>3, <1>8 DEF SecretStick, SurfStick, UrlStick
<1>10. \A c \in Confs : \A k \in KeysIn(c) : last'[k] = last[k]
  BY <1>6, ConfKeys, KeyKinds
<1>11. Counted' /\ ConfsStick'
  BY <1>2, <1>10, ConfsUntouched
<1>12. Typed'
  BY <1>2, <1>3, <1>6 DEF Typed
<1> QED
  BY <1>7, <1>9, <1>11, <1>12 DEF IInv

LEMMA SaveSurfKeeps ==
    ASSUME IInv, SaveSurf
    PROVE  IInv'
<1>1. PICK w \in Values :
         \/ surf' = w /\ last' \in {Put(last, [weights |-> w]), Forget({"weights"})}
         \/ UNCHANGED <<surf, last>>
  BY DEF SaveSurf
<1>2. UNCHANGED <<used, text, json, secret, pins, caddy, hand>>
  BY DEF SaveSurf
<1>3. Typed /\ JsonStick /\ SecretStick /\ SurfStick /\ UrlStick
  BY DEF IInv
<1>4. /\ Put(last, [weights |-> w]) \in [AllKeys -> Answers]
      /\ \A k \in AllKeys : Put(last, [weights |-> w])[k] = IF k = "weights" THEN w ELSE last[k]
  <2>1. [weights |-> w] \in [{"weights"} -> Answers] /\ [weights |-> w]["weights"] = w
    BY DEF Answers
  <2>2. {"weights"} \in SUBSET AllKeys
    BY ConfKeys
  <2> QED
    BY <1>3, <2>1, <2>2, PutParts
<1>5. /\ Forget({"weights"}) \in [AllKeys -> Answers]
      /\ \A k \in AllKeys : Forget({"weights"})[k] = IF k = "weights" THEN Unsaved ELSE last[k]
  BY <1>3, ForgetParts
<1>6. /\ last' \in [AllKeys -> Answers] /\ surf' \in Values \cup {Absent}
      /\ \A k \in AllKeys \ {"weights"} : last'[k] = last[k]
      /\ SurfStick'
  BY <1>1, <1>3, <1>4, <1>5, ConfKeys DEF Typed, SurfStick
<1>7. \A c \in Confs : \A k \in KeysIn(c) : last'[k] = last[k]
  BY <1>6, ConfKeys, KeyKinds
<1>8. Counted' /\ ConfsStick'
  BY <1>2, <1>7, ConfsUntouched
<1>9. \A k \in JsonKeys \cup {"password", "api_url"} : last'[k] = last[k]
  BY <1>6, ConfKeys, KeyKinds
<1>10. JsonStick' /\ SecretStick' /\ UrlStick'
  BY <1>2, <1>3, <1>9 DEF JsonStick, SecretStick, UrlStick
<1>11. Typed'
  BY <1>2, <1>3, <1>6 DEF Typed
<1> QED
  BY <1>6, <1>8, <1>10, <1>11 DEF IInv

LEMMA SaveConnectionKeeps ==
    ASSUME IInv, SaveConnection
    PROVE  IInv'
<1>1. PICK url \in Urls :
         LET repinned == IF pins # <<>> /\ Head(pins) = url THEN pins ELSE <<url>>
         IN  \/ /\ pins' = repinned /\ caddy' = url
                /\ last' \in {Put(last, [api_url |-> url]), Forget({"api_url"})}
             \/ pins' \in {repinned, <<>>} /\ caddy' \in {caddy, Absent} /\ last' = Forget({"api_url"})
             \/ UNCHANGED <<pins, caddy, last>>
  BY DEF SaveConnection
<1> DEFINE repinned == IF pins # <<>> /\ Head(pins) = url THEN pins ELSE <<url>>
<1>2. UNCHANGED <<used, text, json, secret, surf, hand>>
  BY DEF SaveConnection
<1>3. Typed /\ JsonStick /\ SecretStick /\ SurfStick /\ UrlStick
  BY DEF IInv
<1>4. /\ repinned \in Seq(Urls) /\ Len(repinned) <= MaxPins /\ repinned # <<>> /\ Head(repinned) = url
      /\ <<>> \in Seq(Urls) /\ Len(<<>>) <= MaxPins
  <2>1. <<url>> \in Seq(Urls) /\ Len(<<url>>) = 1 /\ Head(<<url>>) = url /\ <<url>> # <<>>
    OBVIOUS
  <2>2. 1 <= MaxPins /\ 0 <= MaxPins /\ Len(<<>>) = 0 /\ <<>> \in Seq(Urls)
    BY BoundsGiven
  <2> QED
    BY <1>3, <2>1, <2>2 DEF Typed
<1>5. /\ Put(last, [api_url |-> url]) \in [AllKeys -> Answers]
      /\ \A k \in AllKeys : Put(last, [api_url |-> url])[k] = IF k = "api_url" THEN url ELSE last[k]
  <2>1. [api_url |-> url] \in [{"api_url"} -> Answers] /\ [api_url |-> url]["api_url"] = url
    BY DEF Answers
  <2>2. {"api_url"} \in SUBSET AllKeys
    BY ConfKeys
  <2> QED
    BY <1>3, <2>1, <2>2, PutParts
<1>6. /\ Forget({"api_url"}) \in [AllKeys -> Answers]
      /\ \A k \in AllKeys : Forget({"api_url"})[k] = IF k = "api_url" THEN Unsaved ELSE last[k]
  BY <1>3, ForgetParts
<1> HIDE DEF repinned
<1>7. /\ last' \in [AllKeys -> Answers] /\ pins' \in Seq(Urls) /\ Len(pins') <= MaxPins
      /\ caddy' \in Urls \cup {Absent} /\ UrlStick'
      /\ \A k \in AllKeys \ {"api_url"} : last'[k] = last[k]
  <2>1. "api_url" \in AllKeys
    BY ConfKeys
  <2>2. CASE /\ pins' = repinned /\ caddy' = url
             /\ last' \in {Put(last, [api_url |-> url]), Forget({"api_url"})}
    BY <1>4, <1>5, <1>6, <2>1, <2>2 DEF UrlStick
  <2>3. CASE pins' \in {repinned, <<>>} /\ caddy' \in {caddy, Absent} /\ last' = Forget({"api_url"})
    <3>1. UrlStick'
      BY <1>6, <2>1, <2>3 DEF UrlStick
    <3> QED
      BY <1>3, <1>4, <1>6, <2>3, <3>1 DEF Typed
  <2>4. CASE UNCHANGED <<pins, caddy, last>>
    BY <1>3, <2>4 DEF Typed, UrlStick
  <2> QED
    BY <1>1, <2>2, <2>3, <2>4 DEF repinned
<1>8. \A c \in Confs : \A k \in KeysIn(c) : last'[k] = last[k]
  BY <1>7, ConfKeys, KeyKinds
<1>9. Counted' /\ ConfsStick'
  BY <1>2, <1>8, ConfsUntouched
<1>10. \A k \in JsonKeys \cup {"password", "weights"} : last'[k] = last[k]
  BY <1>7, ConfKeys, KeyKinds
<1>11. JsonStick' /\ SecretStick' /\ SurfStick'
  BY <1>2, <1>3, <1>10 DEF JsonStick, SecretStick, SurfStick
<1>12. Typed'
  BY <1>2, <1>3, <1>7 DEF Typed
<1> QED
  BY <1>7, <1>9, <1>11, <1>12 DEF IInv

\* The operator's line, in a file that is there or in a new one.
LEMMA HandEditKeeps ==
    ASSUME IInv, NEW c \in Confs, HandEdit(c)
    PROVE  IInv'
<1> DEFINE new == IF text[c] = Gone THEN <<Hand>> ELSE Append(text[c], Hand)
<1>1. /\ text' = [text EXCEPT ![c] = new] /\ hand' = [hand EXCEPT ![c] = hand[c] + 1]
      /\ hand[c] < MaxHand /\ UNCHANGED <<used, json, secret, pins, caddy, surf, last>>
  BY DEF HandEdit
<1>2. Typed /\ Counted /\ ConfsStick
  BY DEF IInv
<1>3. Shaped(new) /\ HandLines(new) = hand[c] + 1 /\ \A k \in AllKeys : Parsed(Region(new))[k] = Read(text[c], k)
  <2>1. CASE text[c] = Gone
    <3>1. new = Hands(1) /\ hand[c] = 0
      BY <1>2, <2>1, FirstTexts DEF Counted
    <3>2. Shaped(Hands(1)) /\ HandLines(Hands(1)) = 1 /\ Region(Hands(1)) = Hands(1)
      BY HandLinesOfHands, HandsParts DEF Shaped
    <3>3. \A k \in AllKeys : \A i \in DOMAIN Hands(1) : ~IsOf(Hands(1)[i], k)
      BY LinesApart DEF Hands
    <3>4. \A k \in AllKeys : Parsed(Hands(1))[k] = Absent
      BY <3>3, ParsedNot
    <3> QED
      BY <2>1, <3>1, <3>2, <3>4 DEF Read
  <2>2. CASE text[c] # Gone
    <3>1. Shaped(text[c])
      BY <1>2, <2>2 DEF Typed, Texts
    <3>2. new = Append(text[c], Hand) /\ hand[c] = HandLines(text[c])
      BY <1>2, <2>2 DEF Counted
    <3> QED
      BY <2>2, <3>1, <3>2, ShapedText DEF Read
  <2> QED
    BY <2>1, <2>2
<1> HIDE DEF new
<1>4. new \in Texts /\ new # Gone
  BY <1>3, ShapedText DEF Texts
<1>5. text' \in [Confs -> Texts] /\ text'[c] = new /\ \A d \in Confs : d # c => text'[d] = text[d]
  BY <1>1, <1>2, <1>4 DEF Typed
<1>6. /\ hand' \in [Confs -> 0..MaxHand] /\ hand'[c] = hand[c] + 1
      /\ \A d \in Confs : d # c => hand'[d] = hand[d]
  BY <1>1, <1>2, BoundsGiven DEF Typed
<1>7. Counted'
  BY <1>2, <1>3, <1>4, <1>5, <1>6 DEF Counted
<1>8. \A d \in Confs : \A k \in KeysIn(d) : Read(text'[d], k) = Read(text[d], k)
  BY <1>3, <1>4, <1>5, KeyKinds DEF Read
<1>9. ConfsStick'
  BY <1>1, <1>2, <1>8 DEF ConfsStick
<1>10. Typed'
  BY <1>1, <1>2, <1>5, <1>6 DEF Typed
<1>11. JsonStick' /\ SurfStick' /\ UrlStick'
  BY <1>1, OthersStick
<1>12. SecretStick'
  BY <1>1 DEF IInv, SecretStick
<1> QED
  BY <1>7, <1>9, <1>10, <1>11, <1>12 DEF IInv

LEMMA PinKeeps ==
    ASSUME IInv, NEW url \in Urls, Pin(url)
    PROVE  IInv'
<1>1. /\ Len(pins) < MaxPins /\ pins' = Append(pins, url)
      /\ last' = (IF pins = <<>> THEN Forget({"api_url"}) ELSE last)
      /\ UNCHANGED <<used, text, json, secret, caddy, surf, hand>>
  BY DEF Pin
<1>2. Typed /\ JsonStick /\ SecretStick /\ SurfStick /\ UrlStick
  BY DEF IInv
<1>3. pins \in Seq(Urls) /\ Len(pins) \in Nat
  BY <1>2 DEF Typed
<1>4. pins' \in Seq(Urls) /\ Len(pins') = Len(pins) + 1
  BY <1>1, <1>3, AppendProperties
<1>5. pins # <<>> => Head(pins') = Head(pins) /\ pins' # <<>>
  BY <1>1, <1>3
<1>6. Len(pins') <= MaxPins
  BY <1>1, <1>3, <1>4, BoundsGiven
<1>7. /\ Forget({"api_url"}) \in [AllKeys -> Answers]
      /\ \A k \in AllKeys : Forget({"api_url"})[k] = IF k = "api_url" THEN Unsaved ELSE last[k]
  BY <1>2, ForgetParts
<1>8. last' \in [AllKeys -> Answers] /\ \A k \in AllKeys \ {"api_url"} : last'[k] = last[k]
  BY <1>1, <1>2, <1>7 DEF Typed
<1>9. UrlStick'
  BY <1>1, <1>2, <1>5, <1>7, ConfKeys DEF UrlStick
<1>10. \A c \in Confs : \A k \in KeysIn(c) : last'[k] = last[k]
  BY <1>8, ConfKeys, KeyKinds
<1>11. Counted' /\ ConfsStick'
  BY <1>1, <1>10, ConfsUntouched
<1>12. \A k \in JsonKeys \cup {"password", "weights"} : last'[k] = last[k]
  BY <1>8, ConfKeys, KeyKinds
<1>13. JsonStick' /\ SecretStick' /\ SurfStick'
  BY <1>1, <1>2, <1>12 DEF JsonStick, SecretStick, SurfStick
<1>14. Typed'
  BY <1>1, <1>2, <1>4, <1>6, <1>8 DEF Typed
<1> QED
  BY <1>9, <1>11, <1>13, <1>14 DEF IInv

LEMMA ApplyKeeps ==
    ASSUME IInv, Apply
    PROVE  IInv'
<1> DEFINE K == Keys["webcam"] \cup Keys["earthquakes"]
           forgotten == KeysIn("stack") \cup KeysIn("branding")
                          \cup (IF caddy' = caddy THEN {} ELSE {"api_url"})
                          \cup (IF secret' = secret THEN {} ELSE Secrets)
<1>1. PICK vals \in [K -> Values] : text' = [text EXCEPT !["stack"] = Over(<<Begin>>, vals) \o <<End>>]
  BY DEF Apply
<1>2. /\ json' \in {json, [k \in JsonKeys |-> IF k \in KeysIn("branding") THEN Absent ELSE json[k]]}
      /\ caddy' \in (Range(pins) \cup {caddy}) /\ secret' \in {secret, Requoted(secret)}
      /\ last' = Forget(forgotten)
      /\ hand' = [hand EXCEPT !["stack"] = 0]
      /\ UNCHANGED <<used, pins, surf>>
  BY DEF Apply
<1>3. Typed /\ Counted /\ ConfsStick /\ JsonStick /\ SecretStick /\ SurfStick /\ UrlStick
  BY DEF IInv
<1> DEFINE new == Over(<<Begin>>, vals) \o <<End>>
<1>4. Shaped(new) /\ HandLines(new) = 0
  <2>1. K \in SUBSET AllKeys
    BY KeysOfFiles, KeyKinds DEF Keys
  <2> HIDE DEF K
  <2> QED
    BY <2>1, AppliedText
<1>5. text' = [text EXCEPT !["stack"] = new]
  BY <1>1
<1> HIDE DEF new, K, forgotten
<1>6. last' \in [AllKeys -> Answers] /\ \A k \in AllKeys : last'[k] = IF k \in forgotten THEN Unsaved ELSE last[k]
  BY <1>2, <1>3, ForgetParts
<1>7. new \in Texts /\ new # Gone
  BY <1>4, ShapedText DEF Texts
<1>8. "stack" \in Confs
  BY DEF Confs
<1>9. text' \in [Confs -> Texts] /\ text'["stack"] = new /\ \A d \in Confs : d # "stack" => text'[d] = text[d]
  BY <1>3, <1>5, <1>7, <1>8 DEF Typed
<1>10. /\ hand' \in [Confs -> 0..MaxHand] /\ hand'["stack"] = 0
       /\ \A d \in Confs : d # "stack" => hand'[d] = hand[d]
  BY <1>2, <1>3, <1>8, BoundsGiven DEF Typed
<1>11. Counted'
  BY <1>3, <1>4, <1>7, <1>9, <1>10 DEF Counted
<1>12. \A k \in KeysIn("stack") \cup KeysIn("branding") : last'[k] = Unsaved
  BY <1>6, KeyKinds DEF forgotten
<1>13. \A d \in Confs : d # "stack" => \A k \in KeysIn(d) \ Secrets :
          last'[k] # Unsaved => Read(text'[d], k) = last'[k]
  BY <1>3, <1>6, <1>9, KeyKinds DEF ConfsStick
<1>14. ConfsStick'
  BY <1>12, <1>13 DEF ConfsStick
<1>15. /\ json' \in [JsonKeys -> Values \cup {Absent}]
       /\ \A k \in JsonKeys \ KeysIn("branding") : json'[k] = json[k]
  BY <1>2, <1>3 DEF Typed
<1>16. JsonStick'
  BY <1>3, <1>6, <1>12, <1>15, ConfKeys DEF JsonStick
<1>17. SecretStick'
  <2>1. CASE secret' = secret
    BY <1>3, <1>6, <2>1, ConfKeys DEF SecretStick
  <2>2. CASE secret' # secret
    <3>1. "password" \in forgotten
      BY <2>2, ConfKeys DEF forgotten
    <3> QED
      BY <1>6, <3>1, ConfKeys DEF SecretStick
  <2> QED
    BY <2>1, <2>2
<1>18. SurfStick'
  BY <1>2, <1>3, <1>6, ConfKeys DEF SurfStick
<1>19. UrlStick'
  <2>1. CASE caddy' = caddy
    BY <1>2, <1>3, <1>6, <2>1, ConfKeys DEF UrlStick
  <2>2. CASE caddy' # caddy
    <3>1. "api_url" \in forgotten
      BY <2>2 DEF forgotten
    <3> QED
      BY <1>6, <3>1, ConfKeys DEF UrlStick
  <2> QED
    BY <2>1, <2>2
<1>20. secret' \in Values \cup {Absent, Spoilt}
  BY <1>2, <1>3 DEF Typed, Requoted
<1>21. caddy' \in Urls \cup {Absent}
  BY <1>2, <1>3 DEF Typed, Range
<1>22. Typed'
  BY <1>2, <1>3, <1>6, <1>9, <1>10, <1>15, <1>20, <1>21 DEF Typed
<1> QED
  BY <1>11, <1>14, <1>16, <1>17, <1>18, <1>19, <1>22 DEF IInv

LEMMA StepInvariant == IInv /\ [Next]_vars => IInv'
<1> SUFFICES ASSUME IInv, [Next]_vars PROVE IInv'
  OBVIOUS
<1>1. ASSUME NEW s \in Sections, SaveConf(s) PROVE IInv'
  BY <1>1, SaveConfKeeps
<1>2. ASSUME NEW s \in Sections, SaveJson(s) PROVE IInv'
  BY <1>2, SaveJsonKeeps
<1>3. CASE EditWebcam
  BY <1>3, EditWebcamKeeps
<1>4. CASE EditDatabase
  BY <1>4, EditDatabaseKeeps
<1>5. CASE SaveHaze
  BY <1>5, SaveHazeKeeps
<1>6. CASE SaveColumns
  BY <1>6, SaveColumnsKeeps
<1>7. CASE SaveSurf
  BY <1>7, SaveSurfKeeps
<1>8. CASE SaveConnection
  BY <1>8, SaveConnectionKeeps
<1>9. ASSUME NEW c \in Confs, HandEdit(c) PROVE IInv'
  BY <1>9, HandEditKeeps
<1>10. ASSUME NEW url \in Urls, Pin(url) PROVE IInv'
  BY <1>10, PinKeeps
<1>11. CASE Apply
  BY <1>11, ApplyKeeps
<1>12. CASE UNCHANGED vars
  <2>1. Counted' /\ ConfsStick'
    BY <1>12, ConfsUntouched, KeyKinds DEF vars
  <2>2. JsonStick' /\ SurfStick' /\ UrlStick'
    BY <1>12, OthersStick DEF vars
  <2>3. SecretStick' /\ Typed'
    BY <1>12 DEF vars, IInv, SecretStick, Typed
  <2> QED
    BY <2>1, <2>2, <2>3 DEF IInv
<1> QED
  BY <1>1, <1>2, <1>3, <1>4, <1>5, <1>6, <1>7, <1>8, <1>9, <1>10, <1>11, <1>12 DEF Next

LEMMA InvariantHolds == Spec => []IInv
BY InitInvariant, StepInvariant, PTL DEF Spec

-----------------------------------------------------------------------------
(* Theorems *)

\* The conf files keep their markers in order, a line of a key only once and every line
\* of theirs but the operator's only once; the other files hold what they may
\* (update_managed_region, update_column_mapping, update_branding, write_secret,
\* connection_post).
THEOREM SectionsTypeCorrect == Spec => []TypeOK
BY InvariantHolds, InvariantImplies, PTL

\* What a save put there is what is stored, and what Caddy is told of the API's URL,
\* until it is saved again, the wizard changes it or a write is cut short (the section
\* handlers of admin/routes.py, update_managed_region, update_column_mapping,
\* update_branding).
THEOREM SavesAlwaysStick == Spec => []SavesStick
BY InvariantHolds, InvariantImplies, PTL

\* The operator's own lines stay in a conf file through any save (update_managed_region).
THEOREM HandTextAlwaysKept == Spec => []HandTextKept
BY InvariantHolds, InvariantImplies, PTL
=============================================================================
