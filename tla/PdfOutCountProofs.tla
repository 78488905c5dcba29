-------------------------- MODULE PdfOutCountProofs --------------------------
(***************************************************************************)
(* Reference counts are exact: proof of RefcountExact, and from it, of      *)
(* XrefComplete.  A count that is exact makes a freed object one that       *)
(* nobody owns; that in the end everything is freed, and so written, needs  *)
(* in addition that no objects own each other in a circle.                  *)
(***************************************************************************)
EXTENDS PdfOutProofs, FiniteSetTheorems, FunctionTheorems

(***************************************************************************)
(* How often x occurs in a sequence of objects.                             *)
(***************************************************************************)
Occ(s, x) == { i \in DOMAIN s : s[i] = x }
Count(s, x) == Cardinality(Occ(s, x))
Same(x, y) == IF x = y THEN 1 ELSE 0

LEMMA SameType == \A x, y : Same(x, y) \in Nat
BY DEF Same

LEMMA CountType ==
  ASSUME NEW s \in Seq(Obj), NEW x
  PROVE  IsFiniteSet(Occ(s, x)) /\ Count(s, x) \in Nat
<1>1. DOMAIN s = 1 .. Len(s) /\ Len(s) \in Nat
  OBVIOUS
<1>2. IsFiniteSet(1 .. Len(s))
  BY <1>1, FS_Interval
<1>3. Occ(s, x) \in SUBSET (1 .. Len(s))
  BY <1>1 DEF Occ
<1>4. IsFiniteSet(Occ(s, x))
  BY <1>2, <1>3, FS_Subset
<1>5. QED
  BY <1>4, FS_CardinalityType DEF Count

\* No occurrence, and at least one.
LEMMA CountZero ==
  ASSUME NEW s \in Seq(Obj), NEW x
  PROVE  Count(s, x) = 0 <=> \A i \in DOMAIN s : s[i] # x
<1>1. Count(s, x) = 0 <=> Occ(s, x) = {}
  BY CountType, FS_EmptySet DEF Count
<1>2. QED
  BY <1>1 DEF Occ

LEMMA CountEmpty == \A x : Count(<< >>, x) = 0
<1> TAKE x
<1>1. Occ(<< >>, x) = {}
  BY DEF Occ
<1>2. QED
  BY <1>1, FS_EmptySet DEF Count

LEMMA CountOne ==
  ASSUME NEW y \in Obj, NEW x
  PROVE  Count(<< y >>, x) = Same(x, y)
<1>1. CASE x = y
  <2>1. Occ(<< y >>, x) = {1}
    BY <1>1 DEF Occ
  <2>2. QED
    BY <1>1, <2>1, FS_Singleton DEF Count, Same
<1>2. CASE x # y
  <2>1. Occ(<< y >>, x) = {}
    BY <1>2 DEF Occ
  <2>2. QED
    BY <1>2, <2>1, FS_EmptySet DEF Count, Same
<1>3. QED
  BY <1>1, <1>2

LEMMA CountConcat ==
  ASSUME NEW s \in Seq(Obj), NEW t \in Seq(Obj), NEW x
  PROVE  Count(s \o t, x) = Count(s, x) + Count(t, x)
<1> DEFINE n == Len(s)
           Moved == { i + n : i \in Occ(t, x) }
<1>1. /\ n \in Nat /\ Len(t) \in Nat /\ DOMAIN s = 1 .. n /\ DOMAIN t = 1 .. Len(t)
      /\ DOMAIN (s \o t) = 1 .. n + Len(t)
      /\ \A i \in 1 .. n + Len(t) : (s \o t)[i] = IF i <= n THEN s[i] ELSE t[i - n]
  BY ConcatProperties
<1>2. Occ(s \o t, x) = Occ(s, x) \cup Moved
  <2>1. ASSUME NEW i \in Occ(s \o t, x) PROVE i \in Occ(s, x) \cup Moved
    <3>1. i \in 1 .. n + Len(t) /\ (s \o t)[i] = x
      BY <1>1 DEF Occ
    <3>2. CASE i <= n
      BY <1>1, <3>1, <3>2 DEF Occ
    <3>3. CASE i > n
      <4>1. i - n \in DOMAIN t /\ t[i - n] = x /\ i = (i - n) + n
        BY <1>1, <3>1, <3>3
      <4>2. i - n \in Occ(t, x)
        BY <4>1 DEF Occ
      <4>3. QED
        BY <4>1, <4>2
    <3>4. QED
      BY <1>1, <3>1, <3>2, <3>3
  <2>2. Occ(s, x) \subseteq Occ(s \o t, x)
    BY <1>1 DEF Occ
  <2>3. ASSUME NEW i \in Occ(t, x) PROVE i + n \in Occ(s \o t, x)
    <3>1. i \in 1 .. Len(t) /\ t[i] = x
      BY <1>1 DEF Occ
    <3>2. i + n \in 1 .. n + Len(t) /\ (s \o t)[i + n] = t[i]
      BY <1>1, <3>1
    <3>3. QED
      BY <1>1, <3>1, <3>2 DEF Occ
  <2>4. QED
    BY <2>1, <2>2, <2>3
<1>3. Occ(s, x) \cap Moved = {}
  BY <1>1 DEF Occ
<1>4. IsFiniteSet(Moved) /\ Cardinality(Moved) = Cardinality(Occ(t, x))
  <2> DEFINE shift == [i \in Occ(t, x) |-> i + n]
  <2>1. shift \in [Occ(t, x) -> Moved]
    OBVIOUS
  <2>2. \A a, b \in Occ(t, x) : shift[a] = shift[b] => a = b
    BY <1>1 DEF Occ
  <2>3. \A m \in Moved : \E a \in Occ(t, x) : shift[a] = m
    OBVIOUS
  <2>4. shift \in Bijection(Occ(t, x), Moved)
    BY <2>1, <2>2, <2>3, Fun_IsBij
  <2>5. ExistsBijection(Occ(t, x), Moved)
    BY <2>4, Fun_ExistsBij
  <2>6. QED
    BY <2>5, CountType, FS_Bijection
<1>5. Cardinality({}) = 0
  BY FS_EmptySet
<1>6. IsFiniteSet(Occ(s, x)) /\ Cardinality(Occ(s, x)) \in Nat /\ Cardinality(Occ(t, x)) \in Nat
  BY CountType DEF Count
<1> HIDE DEF Moved
<1>7. Cardinality(Occ(s, x) \cup Moved)
        = Cardinality(Occ(s, x)) + Cardinality(Moved) - Cardinality(Occ(s, x) \cap Moved)
  BY <1>4, <1>6, FS_Union
<1>8. Cardinality(Occ(s, x) \cap Moved) = 0
  BY <1>3, <1>5
<1>9. Cardinality(Occ(s \o t, x)) = Cardinality(Occ(s, x)) + Cardinality(Occ(t, x))
  BY <1>2, <1>4, <1>6, <1>7, <1>8
<1>10. QED
  BY <1>9 DEF Count

\* What a release, an added, a replaced and a removed member do to the count.
LEMMA CountTail ==
  ASSUME NEW s \in Seq(Obj), s # << >>, NEW x
  PROVE  /\ Head(s) \in Obj /\ Tail(s) \in Seq(Obj)
         /\ Count(s, x) = Count(Tail(s), x) + Same(x, Head(s))
<1>1. Head(s) \in Obj /\ Tail(s) \in Seq(Obj) /\ s = << Head(s) >> \o Tail(s)
  OBVIOUS
<1>2. << Head(s) >> \in Seq(Obj)
  BY <1>1
<1>3. Count(<< Head(s) >> \o Tail(s), x) = Count(<< Head(s) >>, x) + Count(Tail(s), x)
  BY <1>1, <1>2, CountConcat
<1>4. Count(<< Head(s) >>, x) = Same(x, Head(s)) /\ Same(x, Head(s)) \in Nat
  BY <1>1, CountOne, SameType
<1>5. Count(Tail(s), x) \in Nat /\ Count(s, x) = Same(x, Head(s)) + Count(Tail(s), x)
  BY <1>1, <1>3, <1>4, CountType
<1>6. QED
  BY <1>1, <1>4, <1>5

LEMMA CountAppend ==
  ASSUME NEW s \in Seq(Obj), NEW y \in Obj, NEW x
  PROVE  Count(Append(s, y), x) = Count(s, x) + Same(x, y)
<1>1. Append(s, y) = s \o << y >> /\ << y >> \in Seq(Obj)
  BY AppendIsConcat
<1>2. Count(s \o << y >>, x) = Count(s, x) + Count(<< y >>, x)
  BY <1>1, CountConcat
<1>3. QED
  BY <1>1, <1>2, CountOne

LEMMA CountRemove ==
  ASSUME NEW s \in Seq(Obj), NEW i \in DOMAIN s, NEW x
  PROVE  LET rest == SubSeq(s, 1, i - 1) \o SubSeq(s, i + 1, Len(s))
         IN  /\ rest \in Seq(Obj) /\ Len(rest) = Len(s) - 1
             /\ Count(s, x) = Count(rest, x) + Same(x, s[i])
<1> DEFINE a == SubSeq(s, 1, i - 1)
           b == SubSeq(s, i + 1, Len(s))
<1>1. i \in 1 .. Len(s) /\ Len(s) \in Nat /\ s[i] \in Obj /\ i \in Nat
  OBVIOUS
<1>2. a \in Seq(Obj) /\ Len(a) = i - 1 /\ \A j \in 1 .. i - 1 : a[j] = s[j]
  BY <1>1
<1>3. b \in Seq(Obj) /\ Len(b) = Len(s) - i /\ \A j \in 1 .. Len(s) - i : b[j] = s[i + j]
  <2>1. b \in Seq(Obj) /\ Len(b) = Len(s) - i
    BY <1>1
  <2>2. ASSUME NEW j \in 1 .. Len(s) - i PROVE b[j] = s[i + j]
    BY <1>1
  <2>3. QED
    BY <2>1, <2>2
<1> HIDE DEF a, b
<1>4. s = (a \o << s[i] >>) \o b
  <2> DEFINE c == a \o << s[i] >>
  <2>1. c \in Seq(Obj) /\ Len(c) = i /\ c[i] = s[i] /\ \A j \in 1 .. i - 1 : c[j] = s[j]
    BY <1>1, <1>2
  <2> HIDE DEF c
  <2>2. c \o b \in Seq(Obj) /\ Len(c \o b) = Len(s)
    BY <1>1, <1>3, <2>1
  <2>3. ASSUME NEW j \in 1 .. Len(s) PROVE (c \o b)[j] = s[j]
    <3>1. (c \o b)[j] = IF j <= i THEN c[j] ELSE b[j - i]
      BY <1>1, <1>3, <2>1, ConcatProperties
    <3>2. CASE j <= i
      BY <1>1, <2>1, <3>1, <3>2
    <3>3. CASE j > i
      <4>1. j - i \in 1 .. Len(s) - i /\ i + (j - i) = j
        BY <1>1, <3>3
      <4>2. b[j - i] = s[i + (j - i)]
        BY <1>3, <4>1
      <4>3. QED
        BY <1>1, <3>1, <3>3, <4>1, <4>2
    <3>4. j <= i \/ j > i
      BY <1>1
    <3>5. QED
      BY <3>2, <3>3, <3>4
  <2>4. s = c \o b
    BY <2>2, <2>3, SeqEqual
  <2>5. QED
    BY <2>4 DEF c
<1>5. << s[i] >> \in Seq(Obj) /\ a \o << s[i] >> \in Seq(Obj) /\ a \o b \in Seq(Obj)
  BY <1>1, <1>2, <1>3
<1>6. /\ Count((a \o << s[i] >>) \o b, x) = Count(a \o << s[i] >>, x) + Count(b, x)
      /\ Count(a \o << s[i] >>, x) = Count(a, x) + Count(<< s[i] >>, x)
      /\ Count(<< s[i] >>, x) = Same(x, s[i])
  <2> DEFINE c == a \o << s[i] >>
  <2>1. Count(c, x) = Count(a, x) + Count(<< s[i] >>, x)
    BY <1>2, <1>5, CountConcat
  <2>2. c \in Seq(Obj)
    BY <1>5
  <2> HIDE DEF c
  <2>3. Count(c \o b, x) = Count(c, x) + Count(b, x)
    BY <1>3, <2>2, CountConcat
  <2>4. QED
    BY <1>1, <2>1, <2>3, CountOne DEF c
<1>7. Count(a \o b, x) = Count(a, x) + Count(b, x)
  BY <1>2, <1>3, CountConcat
<1>8. Count(a, x) \in Nat /\ Count(b, x) \in Nat /\ Same(x, s[i]) \in Nat
  BY <1>2, <1>3, CountType, SameType
<1>9. Len(a \o b) = Len(s) - 1
  BY <1>1, <1>2, <1>3
<1>10. Count(s, x) = Count(a \o b, x) + Same(x, s[i])
  <2> DEFINE k == Same(x, s[i])
             m == Count(s, x)
             n == Count(a \o b, x)
  <2>1. m = Count(a, x) + k + Count(b, x) /\ n = Count(a, x) + Count(b, x)
    BY <1>4, <1>6, <1>7
  <2>2. Count(a, x) \in Nat /\ Count(b, x) \in Nat /\ k \in Nat
    BY <1>8
  <2> HIDE DEF k, m, n
  <2>3. m = n + k
    BY <2>1, <2>2
  <2>4. QED
    BY <2>3 DEF k, m, n
<1>11. QED
  BY <1>5, <1>9, <1>10 DEF a, b

LEMMA CountReplace ==
  ASSUME NEW s \in Seq(Obj), NEW i \in DOMAIN s, NEW y \in Obj, NEW x
  PROVE  LET t == [s EXCEPT ![i] = y]
         IN  /\ t \in Seq(Obj) /\ Len(t) = Len(s)
             /\ Count(s, x) + Same(x, y)
                  = Count(t, x) + Same(x, s[i])
<1> DEFINE t == [s EXCEPT ![i] = y]
<1>1. /\ i \in 1 .. Len(s) /\ Len(s) \in Nat /\ s[i] \in Obj
      /\ t \in Seq(Obj) /\ Len(t) = Len(s) /\ t[i] = y
      /\ DOMAIN s = 1 .. Len(s) /\ DOMAIN t = 1 .. Len(s)
      /\ \A j \in 1 .. Len(s) : j # i => t[j] = s[j]
  OBVIOUS
<1> HIDE DEF t
<1>2. Occ(t, x) \ {i} = Occ(s, x) \ {i}
  BY <1>1 DEF Occ
<1>3. /\ Cardinality(Occ(s, x) \ {i}) = Count(s, x) - Same(x, s[i])
      /\ Cardinality(Occ(t, x) \ {i}) = Count(t, x) - Same(x, y)
  <2>1. (i \in Occ(s, x) <=> x = s[i]) /\ (i \in Occ(t, x) <=> x = y)
    BY <1>1 DEF Occ
  <2>2. IsFiniteSet(Occ(s, x)) /\ IsFiniteSet(Occ(t, x))
    BY <1>1, CountType
  <2>3. Cardinality(Occ(s, x)) \in Nat /\ Cardinality(Occ(t, x)) \in Nat
    BY <1>1, CountType DEF Count
  <2>4. /\ Cardinality(Occ(s, x) \ {i})
             = IF i \in Occ(s, x) THEN Cardinality(Occ(s, x)) - 1 ELSE Cardinality(Occ(s, x))
        /\ Cardinality(Occ(t, x) \ {i})
             = IF i \in Occ(t, x) THEN Cardinality(Occ(t, x)) - 1 ELSE Cardinality(Occ(t, x))
    BY <2>2, FS_RemoveElement
  <2>5. /\ Same(x, s[i]) = IF i \in Occ(s, x) THEN 1 ELSE 0
        /\ Same(x, y) = IF i \in Occ(t, x) THEN 1 ELSE 0
    BY <2>1 DEF Same
  <2>6. \A n \in Nat : n - 0 = n
    OBVIOUS
  <2>7. QED
    BY <2>3, <2>4, <2>5, <2>6 DEF Count
<1>4. Count(s, x) \in Nat /\ Count(t, x) \in Nat /\ Same(x, y) \in Nat /\ Same(x, s[i]) \in Nat
  BY <1>1, CountType, SameType
<1>5. Count(s, x) - Same(x, s[i]) = Count(t, x) - Same(x, y)
  BY <1>2, <1>3
<1>6. Count(s, x) + Same(x, y) = Count(t, x) + Same(x, s[i])
  <2> DEFINE k == Same(x, y)
             m == Same(x, s[i])
  <2>1. Count(s, x) \in Nat /\ Count(t, x) \in Nat /\ k \in Nat /\ m \in Nat
    BY <1>4
  <2>2. Count(s, x) - m = Count(t, x) - k
    BY <1>5
  <2> HIDE DEF k, m
  <2>3. Count(s, x) + k = Count(t, x) + m
    BY <2>1, <2>2
  <2>4. QED
    BY <2>3 DEF k, m
<1>7. QED
  BY <1>1, <1>6 DEF t

(***************************************************************************)
(* The places of containers.  K: what each object owns.                     *)
(***************************************************************************)
SlotsIn(K, x) == { p \in Obj \X (1 .. MaxKids) : p[2] \in DOMAIN K[p[1]] /\ K[p[1]][p[2]] = x }
Slots(K, x) == Cardinality(SlotsIn(K, x))
Owners(K) == K \in [Obj -> Seq(Obj)] /\ \A c \in Obj : Len(K[c]) <= MaxKids

LEMMA SlotsType ==
  ASSUME NEW K, NEW x
  PROVE  IsFiniteSet(SlotsIn(K, x)) /\ Slots(K, x) \in Nat
<1>1. IsFiniteSet(1 .. MaxKids)
  BY OutAssumption, FS_Interval
<1>2. IsFiniteSet(Obj \X (1 .. MaxKids))
  BY <1>1, OutAssumption, FS_Product
<1>3. SlotsIn(K, x) \in SUBSET (Obj \X (1 .. MaxKids))
  BY DEF SlotsIn
<1>4. IsFiniteSet(SlotsIn(K, x))
  BY <1>2, <1>3, FS_Subset
<1>5. QED
  BY <1>4, FS_CardinalityType DEF Slots

\* The places in one container are the occurrences in its sequence.
LEMMA SlotsOfOne ==
  ASSUME NEW K, Owners(K), NEW c \in Obj, NEW x
  PROVE  /\ Cardinality({ p \in SlotsIn(K, x) : p[1] = c }) = Count(K[c], x)
         /\ IsFiniteSet({ p \in SlotsIn(K, x) : p[1] = c })
<1> DEFINE Mine == { p \in SlotsIn(K, x) : p[1] = c }
           place == [i \in Occ(K[c], x) |-> << c, i >>]
<1>1. K[c] \in Seq(Obj) /\ Len(K[c]) \in Nat /\ Len(K[c]) <= MaxKids /\ DOMAIN K[c] = 1 .. Len(K[c])
  BY DEF Owners
<1>2. ASSUME NEW i \in Occ(K[c], x) PROVE << c, i >> \in Mine
  <2>1. i \in DOMAIN K[c] /\ K[c][i] = x /\ i \in 1 .. MaxKids
    BY <1>1, OutAssumption DEF Occ
  <2>2. << c, i >> \in Obj \X (1 .. MaxKids)
    BY <2>1
  <2>3. QED
    BY <2>1, <2>2 DEF SlotsIn
<1>3. ASSUME NEW p \in Mine PROVE \E i \in Occ(K[c], x) : place[i] = p
  <2>1. p \in Obj \X (1 .. MaxKids) /\ p[1] = c /\ p[2] \in DOMAIN K[c] /\ K[c][p[2]] = x
    BY DEF SlotsIn
  <2>2. p[2] \in Occ(K[c], x) /\ p = << c, p[2] >>
    BY <2>1 DEF Occ
  <2>3. QED
    BY <2>2
<1>4. \A a, b \in Occ(K[c], x) : place[a] = place[b] => a = b
  OBVIOUS
<1>5. place \in [Occ(K[c], x) -> Mine]
  BY <1>2
<1> HIDE DEF place
<1>6. place \in Bijection(Occ(K[c], x), Mine)
  BY <1>3, <1>4, <1>5, Fun_IsBij
<1>7. ExistsBijection(Occ(K[c], x), Mine)
  BY <1>6, Fun_ExistsBij
<1>8. QED
  BY <1>1, <1>7, CountType, FS_Bijection DEF Count

LEMMA SlotsSplit ==
  ASSUME NEW K, Owners(K), NEW c \in Obj, NEW x
  PROVE  /\ Slots(K, x) = Cardinality({ p \in SlotsIn(K, x) : p[1] # c }) + Count(K[c], x)
         /\ Cardinality({ p \in SlotsIn(K, x) : p[1] # c }) \in Nat
<1> DEFINE Mine == { p \in SlotsIn(K, x) : p[1] = c }
           Others == { p \in SlotsIn(K, x) : p[1] # c }
<1>1. IsFiniteSet(Mine) /\ Cardinality(Mine) = Count(K[c], x)
  BY SlotsOfOne
<1>2. IsFiniteSet(Others)
  <2>1. Others \in SUBSET SlotsIn(K, x)
    OBVIOUS
  <2>2. QED
    BY <2>1, SlotsType, FS_Subset
<1>3. Mine \cap Others = {} /\ SlotsIn(K, x) = Others \cup Mine
  OBVIOUS
<1> HIDE DEF Mine, Others
<1>4. Cardinality(Others \cup Mine) = Cardinality(Others) + Cardinality(Mine) - Cardinality(Others \cap Mine)
  BY <1>1, <1>2, FS_Union
<1>5. Others \cap Mine = {} /\ Cardinality({}) = 0
  BY <1>3, FS_EmptySet
<1>6. Cardinality(Others) \in Nat /\ Cardinality(Mine) \in Nat
  BY <1>1, <1>2, FS_CardinalityType
<1>7. Cardinality(Others \cup Mine) = Cardinality(Others) + Cardinality(Mine)
  <2> DEFINE u == Cardinality(Others \cup Mine)
             a == Cardinality(Others)
             b == Cardinality(Mine)
  <2>1. u = a + b - 0 /\ a \in Nat /\ b \in Nat
    BY <1>4, <1>5, <1>6
  <2> HIDE DEF u, a, b
  <2>2. u = a + b
    BY <2>1
  <2>3. QED
    BY <2>2 DEF u, a, b
<1>8. QED
  BY <1>1, <1>3, <1>6, <1>7 DEF Slots, Mine, Others

\* Only what c owns changes.
LEMMA SlotsMove ==
  ASSUME NEW K, Owners(K), NEW M, Owners(M), NEW c \in Obj, NEW x,
         \A d \in Obj : d # c => M[d] = K[d]
  PROVE  Slots(M, x) + Count(K[c], x) = Slots(K, x) + Count(M[c], x)
<1> DEFINE s == M[c]
<1>1. \A d \in Obj : d # c => M[d] = K[d]
  OBVIOUS
<1>2. { p \in SlotsIn(K, x) : p[1] # c } = { p \in SlotsIn(M, x) : p[1] # c }
  <2>1. ASSUME NEW p \in Obj \X (1 .. MaxKids), p[1] # c
        PROVE  p \in SlotsIn(K, x) <=> p \in SlotsIn(M, x)
    BY <1>1, <2>1 DEF SlotsIn
  <2>2. SlotsIn(K, x) \subseteq Obj \X (1 .. MaxKids) /\ SlotsIn(M, x) \subseteq Obj \X (1 .. MaxKids)
    BY DEF SlotsIn
  <2>3. QED
    BY <2>1, <2>2
<1> DEFINE n == Cardinality({ p \in SlotsIn(K, x) : p[1] # c })
<1>3. Slots(K, x) = n + Count(K[c], x) /\ n \in Nat
  BY SlotsSplit
<1>4. Slots(M, x) = n + Count(s, x)
  BY <1>2, SlotsSplit
<1>5. Count(K[c], x) \in Nat /\ Count(s, x) \in Nat
  BY CountType DEF Owners
<1>6. Slots(M, x) + Count(K[c], x) = Slots(K, x) + Count(s, x)
  <2> DEFINE a == Slots(K, x)
             b == Slots(M, x)
             i == Count(K[c], x)
             j == Count(s, x)
  <2>1. a = n + i /\ b = n + j /\ n \in Nat /\ i \in Nat /\ j \in Nat
    BY <1>3, <1>4, <1>5
  <2> HIDE DEF n, a, b, i, j
  <2>2. b + i = a + j
    BY <2>1
  <2>3. QED
    BY <2>2 DEF a, b, i, j
<1>7. QED
  BY <1>6

(***************************************************************************)
(* The balance of links: R, what the counts say; H, what the callers hold;  *)
(* W, the releases still to do.                                             *)
(***************************************************************************)
Balance(K, R, H, W) == \A x \in Obj : R[x] = H[x] + Slots(K, x) + Count(W, x)

(***************************************************************************)
(* Nothing owns itself, even through others: among any objects there is one *)
(* that none of them owns.                                                  *)
(***************************************************************************)
Owns(K, c, x) == \E i \in DOMAIN K[c] : K[c][i] = x
NoCircle(K) == \A S \in SUBSET Obj : S # {} => \E x \in S : \A c \in S : ~Owns(K, c, x)
Reached(K, o) ==
  { x \in Obj : \A S \in SUBSET Obj :
                  o \in S /\ (\A y \in S, z \in Obj : Owns(K, y, z) => z \in S) => x \in S }

LEMMA CircleFewer ==
  ASSUME NEW K, NEW M, NoCircle(K),
         \A c, x \in Obj : Owns(M, c, x) => Owns(K, c, x)
  PROVE  NoCircle(M)
BY DEF NoCircle

\* A container may take o unless o reaches the container.
LEMMA CircleStore ==
  ASSUME NEW K, NEW M, NoCircle(K), NEW c \in Obj, NEW o \in Obj, c \notin Reached(K, o),
         \A d, x \in Obj : Owns(M, d, x) => Owns(K, d, x) \/ (d = c /\ x = o)
  PROVE  NoCircle(M)
<1> DEFINE R == Reached(K, o)
<1>1. o \in R /\ c \notin R /\ R \subseteq Obj
  BY DEF Reached
<1>2. \A y \in R, z \in Obj : Owns(K, y, z) => z \in R
  BY DEF Reached
<1> HIDE DEF R
<1>3. ASSUME NEW S \in SUBSET Obj, S # {}
      PROVE  \E x \in S : \A d \in S : ~Owns(M, d, x)
  <2>1. CASE S \subseteq R
    <3>1. PICK x \in S : \A d \in S : ~Owns(K, d, x)
      BY <1>3 DEF NoCircle
    <3>2. QED
      BY <1>1, <2>1, <3>1
  <2>2. CASE ~(S \subseteq R)
    <3>1. S \ R \in SUBSET Obj /\ S \ R # {}
      BY <2>2
    <3>2. PICK x \in S \ R : \A d \in S \ R : ~Owns(K, d, x)
      BY <3>1 DEF NoCircle
    <3>3. ASSUME NEW d \in S, Owns(M, d, x) PROVE FALSE
      BY <1>1, <1>2, <3>2, <3>3
    <3>4. QED
      BY <3>2, <3>3
  <2>3. QED
    BY <2>1, <2>2
<1>4. QED
  BY <1>3 DEF NoCircle

(***************************************************************************)
(* The inductive invariant.                                                 *)
(***************************************************************************)
KidsAt == [o \in Obj |-> heap[o].kids]
RcAt == [o \in Obj |-> heap[o].rc]

CountInv ==
  /\ Owners(KidsAt)
  /\ Balance(KidsAt, RcAt, held, work)
  /\ NoCircle(KidsAt)
  /\ \A o \in Obj : IF Live(o) THEN heap[o].rc > 0 ELSE heap[o].rc = 0 /\ heap[o].kids = << >>
  /\ phase = "init" => \A o \in Obj : ~Live(o)

LEMMA OwnersOfIs ==
  ASSUME NEW x \in Obj
  PROVE  OwnersOf(x) = held[x] + Slots(KidsAt, x) + Count(work, x)
<1>1. SlotsOf(x) = SlotsIn(KidsAt, x)
  BY DEF SlotsOf, SlotsIn, KidsAt
<1>2. CallsOf(x) = Occ(work, x)
  BY DEF CallsOf, Occ
<1>3. QED
  BY <1>1, <1>2 DEF OwnersOf, Slots, Count

LEMMA InvRefcount == CountInv => RefcountExact
BY OwnersOfIs DEF CountInv, Balance, RcAt, RefcountExact

\* What the invariant says of the variables as they are.
LEMMA CountFacts ==
  ASSUME TypeOK, NEW o \in Obj
  PROVE  /\ KidsAt \in [Obj -> Seq(Obj)] /\ RcAt \in [Obj -> Nat]
         /\ KidsAt[o] = heap[o].kids /\ RcAt[o] = heap[o].rc
         /\ heap[o].kids \in Seq(Obj) /\ heap[o].rc \in Nat /\ held[o] \in Nat
         /\ held \in [Obj -> Nat] /\ work \in Seq(Obj)
BY ObjFields DEF KidsAt, RcAt, TypeOK

LEMMA CountMove ==
  ASSUME TypeOK, TypeOK', CountInv, NEW c \in Obj,
         \A d \in Obj : d # c => heap'[d].kids = heap[d].kids,
         Len(heap'[c].kids) <= MaxKids,
         \A x \in Obj : heap'[x].rc + (held[x] + Count(heap[c].kids, x) + Count(work, x))
                          = heap[x].rc + (held'[x] + Count(heap'[c].kids, x) + Count(work', x))
  PROVE  Owners(KidsAt)' /\ Balance(KidsAt, RcAt, held, work)'
<1> DEFINE K == KidsAt
           R == RcAt
           M == [o \in Obj |-> heap'[o].kids]
           Q == [o \in Obj |-> heap'[o].rc]
<1>1. KidsAt' = M /\ RcAt' = Q
  BY DEF KidsAt, RcAt
<1>2. heap' \in [Obj -> ObjRecord]
  BY DEF TypeOK
<1>3. \A o \in Obj : heap'[o].kids \in Seq(Obj) /\ heap'[o].rc \in Nat
  BY <1>2 DEF ObjRecord
<1>4. M \in [Obj -> Seq(Obj)] /\ Q \in [Obj -> Nat]
  BY <1>3
<1>5. Owners(M)
  <2>1. ASSUME NEW o \in Obj PROVE Len(heap'[o].kids) <= MaxKids
    <3>1. CASE o = c
      BY <3>1
    <3>2. CASE o # c
      <4>1. Len(K[o]) <= MaxKids
        BY DEF CountInv, Owners
      <4>2. QED
        BY <3>2, <4>1, CountFacts
    <3>3. QED
      BY <3>1, <3>2
  <2>2. QED
    BY <1>4, <2>1 DEF Owners
<1>6. Owners(K) /\ Balance(K, R, held, work) /\ R \in [Obj -> Nat]
  BY CountFacts DEF CountInv
<1>7. held \in [Obj -> Nat] /\ work \in Seq(Obj) /\ held' \in [Obj -> Nat] /\ work' \in Seq(Obj)
  BY DEF TypeOK
<1>8. /\ \A x \in Obj : K[x] = heap[x].kids /\ R[x] = heap[x].rc
      /\ \A x \in Obj : M[x] = heap'[x].kids /\ Q[x] = heap'[x].rc
  BY DEF KidsAt, RcAt
<1> HIDE DEF K, R, M, Q
<1>9. \A d \in Obj : d # c => M[d] = K[d]
  BY <1>8
<1>10. \A x \in Obj : Q[x] + (held[x] + Count(K[c], x) + Count(work, x))
                         = R[x] + (held'[x] + Count(M[c], x) + Count(work', x))
  BY <1>8
<1>11. \A x \in Obj : Slots(M, x) + Count(K[c], x) = Slots(K, x) + Count(M[c], x)
  BY <1>5, <1>6, <1>9, SlotsMove
<1>12. ASSUME NEW x \in Obj PROVE Q[x] = held'[x] + Slots(M, x) + Count(work', x)
  <2> DEFINE q == Q[x]
             r == R[x]
             h == held[x]
             g == held'[x]
             m == Slots(M, x)
             k == Slots(K, x)
             kc == Count(K[c], x)
             ks == Count(M[c], x)
             w == Count(work, x)
             v == Count(work', x)
  <2>1. q + (h + kc + w) = r + (g + ks + v) /\ r = h + k + w /\ m + kc = k + ks
    BY <1>6, <1>10, <1>11 DEF Balance
  <2>2. q \in Nat /\ r \in Nat /\ h \in Nat /\ g \in Nat
    BY <1>4, <1>6, <1>7
  <2>3. m \in Nat /\ k \in Nat
    BY SlotsType
  <2>4. kc \in Nat /\ ks \in Nat /\ w \in Nat /\ v \in Nat
    BY <1>5, <1>6, <1>7, CountType DEF Owners
  <2> HIDE DEF q, r, h, g, m, k, kc, ks, w, v
  <2>5. q = g + m + v
    BY <2>1, <2>2, <2>3, <2>4
  <2>6. QED
    BY <2>5 DEF q, g, m, v
<1>13. QED
  BY <1>1, <1>5, <1>12 DEF Balance

\* A step that gives no container anything closes no circle.
LEMMA CircleKept ==
  ASSUME TypeOK, CountInv,
         \A o \in Obj : \A i \in DOMAIN heap'[o].kids :
            \E j \in DOMAIN heap[o].kids : heap[o].kids[j] = heap'[o].kids[i]
  PROVE  NoCircle(KidsAt)'
<1> DEFINE K == KidsAt
           M == [o \in Obj |-> heap'[o].kids]
<1>1. KidsAt' = M
  BY DEF KidsAt
<1>2. ASSUME NEW c \in Obj, NEW x, Owns(M, c, x) PROVE Owns(K, c, x)
  <2>1. PICK i \in DOMAIN heap'[c].kids : heap'[c].kids[i] = x
    BY <1>2 DEF Owns
  <2>2. PICK j \in DOMAIN heap[c].kids : heap[c].kids[j] = heap'[c].kids[i]
    BY <2>1
  <2>3. QED
    BY <2>1, <2>2, CountFacts DEF Owns
<1> HIDE DEF K, M
<1>3. NoCircle(M)
  BY <1>2, CircleFewer DEF CountInv, K
<1>4. QED
  BY <1>1, <1>3

\* What a caller may store does not own the container.
LEMMA CircleMayStore ==
  ASSUME TypeOK, CountInv, NEW c \in Obj, NEW o \in Obj, MayStore(c, o),
         \A d \in Obj : \A i \in DOMAIN heap'[d].kids :
            \/ \E j \in DOMAIN heap[d].kids : heap[d].kids[j] = heap'[d].kids[i]
            \/ d = c /\ heap'[d].kids[i] = o
  PROVE  NoCircle(KidsAt)'
<1> DEFINE K == KidsAt
           M == [d \in Obj |-> heap'[d].kids]
<1>1. KidsAt' = M
  BY DEF KidsAt
<1>2. ASSUME NEW d \in Obj, NEW x, Owns(M, d, x) PROVE Owns(K, d, x) \/ (d = c /\ x = o)
  <2>1. PICK i \in DOMAIN heap'[d].kids : heap'[d].kids[i] = x
    BY <1>2 DEF Owns
  <2>2. CASE \E j \in DOMAIN heap[d].kids : heap[d].kids[j] = heap'[d].kids[i]
    BY <2>1, <2>2, CountFacts DEF Owns
  <2>3. CASE d = c /\ heap'[d].kids[i] = o
    BY <2>1, <2>3
  <2>4. QED
    BY <2>2, <2>3
<1>3. ASSUME NEW y \in Obj, NEW z \in Obj, Owns(K, y, z) PROVE z \in Kids(y)
  <2>1. K[y] = heap[y].kids
    BY CountFacts
  <2>2. QED
    BY <1>3, <2>1 DEF Owns, Kids
<1>4. c \notin Reached(K, o)
  <2>1. c \notin Owned(o)
    BY DEF MayStore
  <2>2. PICK S \in SUBSET Obj : o \in S /\ (\A y \in S : Kids(y) \subseteq S) /\ c \notin S
    BY <2>1 DEF Owned
  <2>3. \A y \in S, z \in Obj : Owns(K, y, z) => z \in S
    BY <1>3, <2>2
  <2>4. QED
    BY <2>2, <2>3 DEF Reached
<1> HIDE DEF K, M
<1>5. NoCircle(K)
  BY DEF CountInv, K
<1>6. NoCircle(M)
  BY <1>2, <1>4, <1>5, CircleStore
<1>7. QED
  BY <1>1, <1>6

(***************************************************************************)
(* The actions.                                                             *)
(***************************************************************************)
LEMMA CountFrame ==
  ASSUME TypeOK, TypeOK', CountInv, UNCHANGED << held, work >>, phase' = "init" => phase = "init",
         \A o \in Obj : /\ heap'[o].rc = heap[o].rc /\ heap'[o].kids = heap[o].kids
                        /\ heap'[o].type = heap[o].type
  PROVE  CountInv'
<1>1. KidsAt' = KidsAt /\ RcAt' = RcAt
  BY DEF KidsAt, RcAt
<1>2. \A o \in Obj : Live(o)' <=> Live(o)
  BY DEF Live
<1>3. QED
  BY <1>1, <1>2 DEF CountInv

\* An object nobody has a link to is dead, and the converse.
LEMMA CountZeroDead ==
  ASSUME TypeOK, CountInv, NEW o \in Obj
  PROVE  /\ heap[o].rc = held[o] + Slots(KidsAt, o) + Count(work, o)
         /\ Slots(KidsAt, o) \in Nat /\ Count(work, o) \in Nat /\ held[o] \in Nat /\ heap[o].rc \in Nat
         /\ Live(o) <=> heap[o].rc > 0
         /\ ~Live(o) => heap[o].rc = 0 /\ held[o] = 0 /\ heap[o].kids = << >>
         /\ held[o] > 0 => Live(o)
<1>1. heap[o].rc = held[o] + Slots(KidsAt, o) + Count(work, o)
  BY CountFacts DEF CountInv, Balance
<1>2. Slots(KidsAt, o) \in Nat /\ Count(work, o) \in Nat /\ held[o] \in Nat /\ heap[o].rc \in Nat
  BY CountFacts, SlotsType, CountType
<1>3. Live(o) <=> heap[o].rc > 0
  BY <1>2 DEF CountInv
<1>4. ~Live(o) => heap[o].rc = 0 /\ heap[o].kids = << >>
  BY DEF CountInv
<1>5. (heap[o].rc = 0 => held[o] = 0) /\ (held[o] > 0 => heap[o].rc > 0)
  <2> DEFINE r == heap[o].rc
             h == held[o]
             k == Slots(KidsAt, o)
             w == Count(work, o)
  <2>1. r = h + k + w /\ r \in Nat /\ h \in Nat /\ k \in Nat /\ w \in Nat
    BY <1>1, <1>2
  <2> HIDE DEF r, h, k, w
  <2>2. (r = 0 => h = 0) /\ (h > 0 => r > 0)
    BY <2>1
  <2>3. QED
    BY <2>2 DEF r, h
<1>6. QED
  BY <1>1, <1>2, <1>3, <1>4, <1>5

\* One more link, to an old object or to a new one, that a caller holds.
LEMMA CountGained ==
  ASSUME TypeOK, TypeOK', CountInv, NEW o \in Obj,
         heap'[o].kids = heap[o].kids, heap'[o].rc = heap[o].rc + 1, heap'[o].type # "none",
         \A x \in Obj : x # o => /\ heap'[x].rc = heap[x].rc /\ heap'[x].kids = heap[x].kids
                                 /\ heap'[x].type = heap[x].type,
         held' = [held EXCEPT ![o] = held[o] + 1], work' = work, phase' # "init"
  PROVE  CountInv'
<1>1. Len(heap'[o].kids) <= MaxKids
  BY CountFacts DEF CountInv, Owners
<1>2. ASSUME NEW x \in Obj
      PROVE  heap'[x].rc + (held[x] + Count(heap[o].kids, x) + Count(work, x))
               = heap[x].rc + (held'[x] + Count(heap'[o].kids, x) + Count(work', x))
  <2> DEFINE q == heap'[x].rc
             r == heap[x].rc
             h == held[x]
             g == held'[x]
             k == Count(heap[o].kids, x)
             w == Count(work, x)
  <2>1. r \in Nat /\ h \in Nat /\ k \in Nat /\ w \in Nat
    BY CountFacts, CountType
  <2>2. (q = r /\ g = h) \/ (q = r + 1 /\ g = h + 1)
    BY CountFacts
  <2> HIDE DEF q, r, h, g, k, w
  <2>3. q + (h + k + w) = r + (g + k + w)
    BY <2>1, <2>2
  <2>4. QED
    BY <2>3 DEF q, r, h, g, k, w
<1>3. Owners(KidsAt)' /\ Balance(KidsAt, RcAt, held, work)'
  BY <1>1, <1>2, CountMove
<1>4. NoCircle(KidsAt)'
  BY CircleKept
<1>5. ASSUME NEW x \in Obj
      PROVE  IF Live(x)' THEN heap'[x].rc > 0 ELSE heap'[x].rc = 0 /\ heap'[x].kids = << >>
  <2>1. CASE x = o
    BY <2>1, CountFacts DEF Live
  <2>2. CASE x # o
    BY <2>2 DEF CountInv, Live
  <2>3. QED
    BY <2>1, <2>2
<1>6. QED
  BY <1>3, <1>4, <1>5 DEF CountInv

LEMMA CountInit == Init => CountInv
<1> SUFFICES ASSUME Init PROVE CountInv
  OBVIOUS
<1>1. /\ \A o \in Obj : heap[o] = Dead /\ held[o] = 0 /\ ~Live(o)
      /\ work = << >>
  BY DEF Init, Dead, Live
<1>2. \A o \in Obj : KidsAt[o] = << >> /\ RcAt[o] = 0
  BY <1>1 DEF KidsAt, RcAt, Dead
<1>3. Owners(KidsAt)
  <2>1. << >> \in Seq(Obj) /\ Len(<< >>) <= MaxKids
    BY OutAssumption
  <2>2. KidsAt \in [Obj -> Seq(Obj)]
    BY <1>2, <2>1 DEF KidsAt
  <2>3. QED
    BY <1>2, <2>1, <2>2 DEF Owners
<1>4. NoCircle(KidsAt)
  BY <1>2 DEF NoCircle, Owns
<1>5. ASSUME NEW x \in Obj PROVE Slots(KidsAt, x) = 0 /\ Count(work, x) = 0
  <2>1. SlotsIn(KidsAt, x) = {}
    BY <1>2 DEF SlotsIn
  <2>2. Occ(work, x) = {}
    BY <1>1 DEF Occ
  <2>3. QED
    BY <2>1, <2>2, FS_EmptySet DEF Slots, Count
<1>6. Balance(KidsAt, RcAt, held, work)
  <2>1. ASSUME NEW x \in Obj PROVE RcAt[x] = held[x] + Slots(KidsAt, x) + Count(work, x)
    <3>1. RcAt[x] = 0 /\ held[x] = 0 /\ 0 = 0 + 0 + 0
      BY <1>1, <1>2
    <3>2. QED
      BY <1>5, <3>1
  <2>2. QED
    BY <2>1 DEF Balance
<1>7. QED
  BY <1>1, <1>3, <1>4, <1>6 DEF CountInv, Dead

LEMMA CountOutOpen ==
  ASSUME TypeOK, TypeOK', CountInv, NEW c \in Obj, OutOpen(c) PROVE CountInv'
<1>1. /\ heap' = [heap EXCEPT ![c] = Catalog] /\ held' = [held EXCEPT ![c] = 1]
      /\ phase = "init" /\ phase' = "open" /\ work' = work
  BY DEF OutOpen
<1>2. heap[c].rc = 0 /\ held[c] = 0 /\ heap[c].kids = << >>
  BY <1>1, CountZeroDead DEF CountInv
<1>3. Catalog.rc = 1 /\ Catalog.kids = << >> /\ Catalog.type = "dict"
  BY DEF Catalog, NewObj, Dead
<1>4. heap \in [Obj -> ObjRecord]
  BY DEF TypeOK
<1>5. /\ heap'[c].kids = heap[c].kids /\ heap'[c].rc = heap[c].rc + 1 /\ heap'[c].type # "none"
      /\ \A x \in Obj : x # c => heap'[x] = heap[x]
  BY <1>1, <1>2, <1>3, <1>4
<1>6. held' = [held EXCEPT ![c] = held[c] + 1]
  BY <1>1, <1>2
<1>7. QED
  BY <1>1, <1>5, <1>6, CountGained

LEMMA CountAlloc ==
  ASSUME TypeOK, TypeOK', CountInv, NEW o \in Obj, NEW t \in Kinds, Alloc(o, t) PROVE CountInv'
<1>1. /\ heap' = [heap EXCEPT ![o] = NewObj(t)] /\ held' = [held EXCEPT ![o] = 1]
      /\ ~Live(o) /\ phase' # "init" /\ work' = work
  BY DEF Alloc, Idle
<1>2. heap[o].rc = 0 /\ held[o] = 0 /\ heap[o].kids = << >>
  BY <1>1, CountZeroDead
<1>3. NewObj(t).rc = 1 /\ NewObj(t).kids = << >> /\ NewObj(t).type # "none"
  BY OutAssumption DEF NewObj, Dead
<1>4. heap \in [Obj -> ObjRecord]
  BY DEF TypeOK
<1>5. /\ heap'[o].kids = heap[o].kids /\ heap'[o].rc = heap[o].rc + 1 /\ heap'[o].type # "none"
      /\ \A x \in Obj : x # o => heap'[x] = heap[x]
  BY <1>1, <1>2, <1>3, <1>4
<1>6. held' = [held EXCEPT ![o] = held[o] + 1]
  BY <1>1, <1>2
<1>7. QED
  BY <1>1, <1>5, <1>6, CountGained

LEMMA CountLink == ASSUME TypeOK, TypeOK', CountInv, NEW o \in Obj, Link(o) PROVE CountInv'
<1>1. /\ heap' = [heap EXCEPT ![o].rc = @ + 1] /\ held' = [held EXCEPT ![o] = held[o] + 1]
      /\ held[o] > 0 /\ phase' # "init" /\ work' = work
  BY CountFacts DEF Link, Idle
<1>2. heap \in [Obj -> ObjRecord]
  BY DEF TypeOK
<1>3. /\ heap'[o].rc = heap[o].rc + 1 /\ heap'[o].kids = heap[o].kids /\ heap'[o].type = heap[o].type
      /\ \A x \in Obj : x # o => heap'[x] = heap[x]
  BY <1>1, <1>2 DEF ObjRecord
<1>4. heap[o].type # "none"
  BY <1>1, CountZeroDead DEF Live
<1>5. QED
  BY <1>1, <1>3, <1>4, CountGained

LEMMA CountRef ==
  ASSUME TypeOK, TypeOK', CountInv, NEW o \in Obj, NEW r \in Obj, Ref(o, r) PROVE CountInv'
<1>1. /\ heap' = [heap EXCEPT ![o].label = LabelOf(o), ![r] = NewRef(o, LabelOf(o))]
      /\ held' = [held EXCEPT ![r] = 1] /\ Live(o) /\ ~Live(r) /\ phase' # "init" /\ work' = work
  BY DEF Ref, Idle
<1>2. heap[r].rc = 0 /\ held[r] = 0 /\ heap[r].kids = << >> /\ o # r
  BY <1>1, CountZeroDead
<1>3. /\ NewRef(o, LabelOf(o)).rc = 1 /\ NewRef(o, LabelOf(o)).kids = << >>
      /\ NewRef(o, LabelOf(o)).type = "ref"
  BY DEF NewRef, NewObj, Dead
<1>4. heap \in [Obj -> ObjRecord]
  BY DEF TypeOK
<1>5. /\ heap'[r] = NewRef(o, LabelOf(o))
      /\ \A x \in Obj : x # r => /\ heap'[x].rc = heap[x].rc /\ heap'[x].kids = heap[x].kids
                               /\ heap'[x].type = heap[x].type
  BY <1>1, <1>2, <1>4 DEF ObjRecord
<1>6. heap'[r].kids = heap[r].kids /\ heap'[r].rc = heap[r].rc + 1 /\ heap'[r].type # "none"
  BY <1>2, <1>3, <1>5
<1>7. held' = [held EXCEPT ![r] = held[r] + 1]
  BY <1>1, <1>2
<1>8. QED
  BY <1>1, <1>5, <1>6, <1>7, CountGained

\* A container whose members change keeps its own count.
LEMMA CountContainer ==
  ASSUME TypeOK, CountInv, NEW c \in Obj, NEW s,
         heap' = [heap EXCEPT ![c].kids = s]
  PROVE  /\ heap'[c].kids = s /\ heap'[c].rc = heap[c].rc /\ heap'[c].type = heap[c].type
         /\ \A x \in Obj : heap'[x].rc = heap[x].rc /\ heap'[x].type = heap[x].type
         /\ \A x \in Obj : x # c => heap'[x].kids = heap[x].kids
         /\ Live(c) => \A x \in Obj : IF Live(x)' THEN heap'[x].rc > 0
                                       ELSE heap'[x].rc = 0 /\ heap'[x].kids = << >>
<1>1. heap \in [Obj -> ObjRecord]
  BY DEF TypeOK
<1>2. /\ \A x \in Obj : heap'[x].rc = heap[x].rc /\ heap'[x].type = heap[x].type
      /\ \A x \in Obj : x # c => heap'[x].kids = heap[x].kids
      /\ heap'[c].kids = s
  BY <1>1 DEF ObjRecord
<1>3. QED
  BY <1>2 DEF CountInv, Live

LEMMA HeldLess ==
  ASSUME TypeOK, NEW o \in Obj, held[o] > 0, held' = [held EXCEPT ![o] = @ - 1], NEW x \in Obj
  PROVE  held'[x] \in Nat /\ held[x] \in Nat /\ held[x] = held'[x] + Same(x, o)
<1>1. held \in [Obj -> Nat]
  BY DEF TypeOK
<1>2. CASE x = o
  BY <1>1, <1>2 DEF Same
<1>3. CASE x # o
  BY <1>1, <1>3 DEF Same
<1>4. QED
  BY <1>2, <1>3

LEMMA CountAddKid ==
  ASSUME TypeOK, TypeOK', CountInv, NEW c \in Obj, NEW o \in Obj, AddKid(c, o) PROVE CountInv'
<1> DEFINE s == Append(heap[c].kids, o)
<1>1. /\ heap' = [heap EXCEPT ![c].kids = s] /\ held' = [held EXCEPT ![o] = @ - 1]
      /\ held[o] > 0 /\ held[c] > 0 /\ Len(heap[c].kids) < MaxKids /\ MayStore(c, o)
      /\ work' = work /\ phase' # "init"
  BY DEF AddKid, MayStore, Idle
<1>2. /\ heap[c].kids \in Seq(Obj) /\ Live(c)
  BY <1>1, CountFacts, CountZeroDead
<1>3. /\ Len(s) <= MaxKids /\ DOMAIN s = 1 .. Len(heap[c].kids) + 1
      /\ \A i \in DOMAIN s : IF i <= Len(heap[c].kids)
                             THEN i \in DOMAIN heap[c].kids /\ s[i] = heap[c].kids[i] ELSE s[i] = o
  BY <1>1, <1>2, OutAssumption
<1>4. \A x \in Obj : Count(s, x) = Count(heap[c].kids, x) + Same(x, o)
  BY <1>2, CountAppend
<1> HIDE DEF s
<1>5. /\ heap'[c].kids = s
      /\ \A x \in Obj : heap'[x].rc = heap[x].rc /\ heap'[x].type = heap[x].type
      /\ \A x \in Obj : x # c => heap'[x].kids = heap[x].kids
      /\ \A x \in Obj : IF Live(x)' THEN heap'[x].rc > 0 ELSE heap'[x].rc = 0 /\ heap'[x].kids = << >>
  BY <1>1, <1>2, CountContainer
<1>6. ASSUME NEW x \in Obj
      PROVE  heap'[x].rc + (held[x] + Count(heap[c].kids, x) + Count(work, x))
               = heap[x].rc + (held'[x] + Count(heap'[c].kids, x) + Count(work', x))
  <2> DEFINE r == heap[x].rc
             h == held[x]
             g == held'[x]
             k == Count(heap[c].kids, x)
             w == Count(work, x)
             e == Same(x, o)
  <2>1. r \in Nat /\ h \in Nat /\ k \in Nat /\ w \in Nat /\ e \in Nat
    BY CountFacts, CountType, SameType
  <2>2. h = g + e /\ g \in Nat
    BY <1>1, HeldLess
  <2>3. Count(heap'[c].kids, x) = k + e /\ heap'[x].rc = r
    BY <1>4, <1>5
  <2> HIDE DEF r, h, g, k, w, e
  <2>4. r + (h + k + w) = r + (g + (k + e) + w)
    BY <2>1, <2>2
  <2>5. QED
    BY <1>1, <2>3, <2>4 DEF r, h, g, k, w, e
<1>7. Owners(KidsAt)' /\ Balance(KidsAt, RcAt, held, work)'
  BY <1>3, <1>5, <1>6, CountMove
<1>8. NoCircle(KidsAt)'
  <2>1. ASSUME NEW d \in Obj, NEW i \in DOMAIN heap'[d].kids
        PROVE  \/ \E j \in DOMAIN heap[d].kids : heap[d].kids[j] = heap'[d].kids[i]
               \/ d = c /\ heap'[d].kids[i] = o
    <3>1. CASE d = c
      BY <1>3, <1>5, <3>1
    <3>2. CASE d # c
      BY <1>5, <3>2
    <3>3. QED
      BY <3>1, <3>2
  <2>2. QED
    BY <1>1, <2>1, CircleMayStore
<1>9. QED
  BY <1>1, <1>5, <1>7, <1>8 DEF CountInv

LEMMA CountReplaceKid ==
  ASSUME TypeOK, TypeOK', CountInv, NEW c \in Obj, NEW i \in 1 .. MaxKids, NEW o \in Obj,
         ReplaceKid(c, i, o)
  PROVE  CountInv'
<1> DEFINE s == [heap[c].kids EXCEPT ![i] = o]
           y == heap[c].kids[i]
<1>1. /\ heap' = [heap EXCEPT ![c].kids[i] = o] /\ held' = [held EXCEPT ![o] = @ - 1]
      /\ held[o] > 0 /\ held[c] > 0 /\ i \in DOMAIN heap[c].kids /\ MayStore(c, o)
      /\ work = << >> /\ work' = << y >> /\ phase' # "init"
  BY DEF ReplaceKid, MayStore, Idle
<1>2. heap[c].kids \in Seq(Obj) /\ Live(c) /\ Len(heap[c].kids) <= MaxKids /\ y \in Obj
  <2>1. Len(KidsAt[c]) <= MaxKids
    BY DEF CountInv, Owners
  <2>2. heap[c].kids \in Seq(Obj) /\ KidsAt[c] = heap[c].kids
    BY CountFacts
  <2>3. Live(c)
    BY <1>1, CountZeroDead
  <2>4. y \in Obj
    BY <1>1, <2>2
  <2>5. QED
    BY <2>1, <2>2, <2>3, <2>4
<1>3. heap' = [heap EXCEPT ![c].kids = s]
  BY <1>1
<1>4. /\ Len(s) <= MaxKids
      /\ \A j \in DOMAIN s : j \in DOMAIN heap[c].kids /\ (s[j] = heap[c].kids[j] \/ s[j] = o)
  BY <1>1, <1>2
<1>5. \A x \in Obj : Count(heap[c].kids, x) + Same(x, o) = Count(s, x) + Same(x, y)
  BY <1>1, <1>2, CountReplace
<1>6. s \in Seq(Obj)
  BY <1>1, <1>2
<1> HIDE DEF s, y
<1>7. /\ heap'[c].kids = s
      /\ \A x \in Obj : heap'[x].rc = heap[x].rc /\ heap'[x].type = heap[x].type
      /\ \A x \in Obj : x # c => heap'[x].kids = heap[x].kids
      /\ \A x \in Obj : IF Live(x)' THEN heap'[x].rc > 0 ELSE heap'[x].rc = 0 /\ heap'[x].kids = << >>
  BY <1>2, <1>3, CountContainer
<1>8. \A x \in Obj : Count(work, x) = 0 /\ Count(work', x) = Same(x, y)
  <2>1. \A x \in Obj : Count(<< y >>, x) = Same(x, y)
    BY <1>2, CountOne
  <2>2. QED
    BY <1>1, <2>1, CountEmpty
<1>9. ASSUME NEW x \in Obj
      PROVE  heap'[x].rc + (held[x] + Count(heap[c].kids, x) + Count(work, x))
               = heap[x].rc + (held'[x] + Count(heap'[c].kids, x) + Count(work', x))
  <2> DEFINE r == heap[x].rc
             h == held[x]
             g == held'[x]
             k == Count(heap[c].kids, x)
             m == Count(s, x)
             e == Same(x, o)
             f == Same(x, y)
  <2>1. r \in Nat /\ h \in Nat /\ k \in Nat /\ m \in Nat /\ e \in Nat /\ f \in Nat
    BY <1>6, CountFacts, CountType, SameType
  <2>2. h = g + e /\ g \in Nat
    BY <1>1, HeldLess
  <2>3. k + e = m + f
    BY <1>5
  <2> HIDE DEF r, h, g, k, m, e, f
  <2>4. r + (h + k + 0) = r + (g + m + f)
    BY <2>1, <2>2, <2>3
  <2>5. QED
    BY <1>7, <1>8, <2>4 DEF r, h, g, k, m, f
<1>10. Owners(KidsAt)' /\ Balance(KidsAt, RcAt, held, work)'
  BY <1>4, <1>7, <1>9, CountMove
<1>11. NoCircle(KidsAt)'
  <2>1. ASSUME NEW d \in Obj, NEW j \in DOMAIN heap'[d].kids
        PROVE  \/ \E k \in DOMAIN heap[d].kids : heap[d].kids[k] = heap'[d].kids[j]
               \/ d = c /\ heap'[d].kids[j] = o
    <3>1. CASE d = c
      BY <1>4, <1>7, <3>1
    <3>2. CASE d # c
      BY <1>7, <3>2
    <3>3. QED
      BY <3>1, <3>2
  <2>2. QED
    BY <1>1, <2>1, CircleMayStore
<1>12. QED
  BY <1>1, <1>7, <1>10, <1>11 DEF CountInv

LEMMA CountRemoveKid ==
  ASSUME TypeOK, TypeOK', CountInv, NEW c \in Obj, NEW i \in 1 .. MaxKids, RemoveKid(c, i)
  PROVE  CountInv'
<1> DEFINE k0 == heap[c].kids
           s == SubSeq(k0, 1, i - 1) \o SubSeq(k0, i + 1, Len(k0))
           y == k0[i]
<1>1. /\ heap' = [heap EXCEPT ![c].kids = s] /\ held' = held /\ held[c] > 0 /\ i \in DOMAIN k0
      /\ work = << >> /\ work' = << y >> /\ phase' # "init"
  BY DEF RemoveKid, Idle
<1>2. k0 \in Seq(Obj) /\ Live(c) /\ Len(k0) <= MaxKids /\ y \in Obj
  <2>1. Len(KidsAt[c]) <= MaxKids
    BY DEF CountInv, Owners
  <2>2. k0 \in Seq(Obj) /\ KidsAt[c] = k0
    BY CountFacts
  <2>3. Live(c)
    BY <1>1, CountZeroDead
  <2>4. y \in Obj
    BY <1>1, <2>2
  <2>5. QED
    BY <2>1, <2>2, <2>3, <2>4
<1>3. s \in Seq(Obj) /\ Len(s) = Len(k0) - 1
  BY <1>1, <1>2, CountRemove
<1>4. \A x \in Obj : Count(k0, x) = Count(s, x) + Same(x, y)
  BY <1>1, <1>2, CountRemove
<1> HIDE DEF s, y
<1>5. \A j \in DOMAIN s : \E k \in DOMAIN k0 : k0[k] = s[j]
  <2> SUFFICES ASSUME NEW j \in DOMAIN s PROVE \E k \in DOMAIN k0 : k0[k] = s[j]
    OBVIOUS
  <2>1. s[j] \in Obj /\ j \in DOMAIN s
    BY <1>3
  <2>2. Count(s, s[j]) # 0
    BY <1>3, <2>1, CountZero
  <2>3. Count(k0, s[j]) # 0
    <3> DEFINE a == Count(k0, s[j])
               b == Count(s, s[j])
               e == Same(s[j], y)
    <3>1. a = b + e /\ b \in Nat /\ e \in Nat /\ b # 0
      BY <1>3, <1>4, <2>1, <2>2, CountType, SameType
    <3> HIDE DEF a, b, e
    <3>2. a # 0
      BY <3>1
    <3>3. QED
      BY <3>2 DEF a
  <2>4. QED
    BY <1>2, <2>3, CountZero
<1>6. Len(s) <= MaxKids
  BY <1>2, <1>3, OutAssumption
<1>7. /\ heap'[c].kids = s
      /\ \A x \in Obj : heap'[x].rc = heap[x].rc /\ heap'[x].type = heap[x].type
      /\ \A x \in Obj : x # c => heap'[x].kids = heap[x].kids
      /\ \A x \in Obj : IF Live(x)' THEN heap'[x].rc > 0 ELSE heap'[x].rc = 0 /\ heap'[x].kids = << >>
  BY <1>1, <1>2, CountContainer
<1>8. \A x \in Obj : Count(work, x) = 0 /\ Count(work', x) = Same(x, y)
  <2>1. \A x \in Obj : Count(<< y >>, x) = Same(x, y)
    BY <1>2, CountOne
  <2>2. QED
    BY <1>1, <2>1, CountEmpty
<1>9. ASSUME NEW x \in Obj
      PROVE  heap'[x].rc + (held[x] + Count(heap[c].kids, x) + Count(work, x))
               = heap[x].rc + (held'[x] + Count(heap'[c].kids, x) + Count(work', x))
  <2> DEFINE r == heap[x].rc
             h == held[x]
             k == Count(heap[c].kids, x)
             m == Count(s, x)
             f == Same(x, y)
  <2>1. r \in Nat /\ h \in Nat /\ k = m + f /\ m \in Nat /\ f \in Nat
    BY <1>3, <1>4, CountFacts, CountType, SameType
  <2> HIDE DEF r, h, k, m, f
  <2>2. r + (h + k + 0) = r + (h + m + f)
    BY <2>1
  <2>3. QED
    BY <1>1, <1>7, <1>8, <2>2 DEF r, h, k, m, f
<1>10. Owners(KidsAt)' /\ Balance(KidsAt, RcAt, held, work)'
  BY <1>6, <1>7, <1>9, CountMove
<1>11. NoCircle(KidsAt)'
  <2>1. ASSUME NEW d \in Obj, NEW j \in DOMAIN heap'[d].kids
        PROVE  \E k \in DOMAIN heap[d].kids : heap[d].kids[k] = heap'[d].kids[j]
    <3>1. CASE d = c
      BY <1>5, <1>7, <3>1
    <3>2. CASE d # c
      BY <1>7, <3>2
    <3>3. QED
      BY <3>1, <3>2
  <2>2. QED
    BY <2>1, CircleKept
<1>12. QED
  BY <1>1, <1>7, <1>10, <1>11 DEF CountInv

\* The objects stay as they are: links pass between callers and releases.
LEMMA CountPassed ==
  ASSUME TypeOK, TypeOK', CountInv, heap' = heap, phase' = "init" => phase = "init",
         NEW c \in Obj,
         \A x \in Obj : held[x] + Count(work, x) = held'[x] + Count(work', x)
  PROVE  CountInv'
<1>1. Len(heap'[c].kids) <= MaxKids
  BY CountFacts DEF CountInv, Owners
<1>2. ASSUME NEW x \in Obj
      PROVE  heap'[x].rc + (held[x] + Count(heap[c].kids, x) + Count(work, x))
               = heap[x].rc + (held'[x] + Count(heap'[c].kids, x) + Count(work', x))
  <2> DEFINE r == heap[x].rc
             h == held[x]
             g == held'[x]
             k == Count(heap[c].kids, x)
             w == Count(work, x)
             v == Count(work', x)
  <2>1. r \in Nat /\ h \in Nat /\ k \in Nat /\ w \in Nat
    BY CountFacts, CountType
  <2>2. v \in Nat /\ g \in Nat
    BY CountType DEF TypeOK
  <2>3. h + w = g + v
    OBVIOUS
  <2> HIDE DEF r, h, g, k, w, v
  <2>4. r + (h + k + w) = r + (g + k + v)
    BY <2>1, <2>2, <2>3
  <2>5. QED
    BY <2>4 DEF r, h, g, k, w, v
<1>3. Owners(KidsAt)' /\ Balance(KidsAt, RcAt, held, work)'
  BY <1>1, <1>2, CountMove
<1>4. KidsAt' = KidsAt
  BY DEF KidsAt
<1>5. \A x \in Obj : Live(x)' <=> Live(x)
  BY DEF Live
<1>6. QED
  BY <1>3, <1>4, <1>5 DEF CountInv

LEMMA CountReleaseCall ==
  ASSUME TypeOK, TypeOK', CountInv, NEW o \in Obj, Release(o) PROVE CountInv'
<1>1. /\ heap' = heap /\ held' = [held EXCEPT ![o] = @ - 1] /\ held[o] > 0
      /\ work = << >> /\ work' = << o >> /\ phase' # "init"
  BY DEF Release, Idle
<1>2. ASSUME NEW x \in Obj PROVE held[x] + Count(work, x) = held'[x] + Count(work', x)
  <2> DEFINE h == held[x]
             g == held'[x]
             e == Same(x, o)
  <2>1. h \in Nat /\ g \in Nat /\ h = g + e
    BY <1>1, HeldLess
  <2>2. Count(work, x) = 0 /\ Count(work', x) = e
    BY <1>1, CountEmpty, CountOne
  <2> HIDE DEF h, g, e
  <2>3. h + 0 = g + e
    BY <2>1
  <2>4. QED
    BY <2>2, <2>3 DEF h, g
<1>3. QED
  BY <1>1, <1>2, CountPassed

LEMMA CountSetInfo ==
  ASSUME TypeOK, TypeOK', CountInv, NEW o \in Obj, SetInfo(o) PROVE CountInv'
<1>1. heap' = [heap EXCEPT ![o].label = LabelOf(o)] /\ held' = held /\ work' = work /\ phase' # "init"
  BY DEF SetInfo, Idle
<1>2. heap \in [Obj -> ObjRecord]
  BY DEF TypeOK
<1>3. \A x \in Obj : /\ heap'[x].rc = heap[x].rc /\ heap'[x].kids = heap[x].kids
                    /\ heap'[x].type = heap[x].type
  BY <1>1, <1>2 DEF ObjRecord
<1>4. QED
  BY <1>1, <1>3, CountFrame

LEMMA CountCaller == ASSUME TypeOK, TypeOK', CountInv, CallerStep PROVE CountInv'
<1>1. ASSUME NEW o \in Obj, RefFails(o) PROVE CountInv'
  BY <1>1, CountFrame DEF RefFails
<1>2. QED
  BY <1>1, CountAlloc, CountLink, CountRef, CountAddKid, CountReplaceKid, CountRemoveKid,
     CountSetInfo, CountReleaseCall DEF CallerStep

LEMMA CountShared ==
  ASSUME TypeOK, TypeOK', CountInv, NEW o \in Obj, ReleaseShared(o) PROVE CountInv'
<1>1. /\ heap' = [heap EXCEPT ![o].rc = @ - 1] /\ held' = held /\ phase' = phase
      /\ work # << >> /\ o = Head(work) /\ work' = Tail(work) /\ heap[o].rc > 1
  BY DEF ReleaseShared, Releasing
<1>2. heap \in [Obj -> ObjRecord] /\ work \in Seq(Obj) /\ heap[o].rc \in Nat
  BY ObjFields DEF TypeOK
<1>3. /\ \A x \in Obj : heap'[x].kids = heap[x].kids /\ heap'[x].type = heap[x].type
      /\ \A x \in Obj : x # o => heap'[x].rc = heap[x].rc
      /\ heap'[o].rc = heap[o].rc - 1
  BY <1>1, <1>2 DEF ObjRecord
<1>4. Len(heap'[o].kids) <= MaxKids
  BY <1>3, CountFacts DEF CountInv, Owners
<1>5. ASSUME NEW x \in Obj
      PROVE  heap'[x].rc + (held[x] + Count(heap[o].kids, x) + Count(work, x))
               = heap[x].rc + (held'[x] + Count(heap'[o].kids, x) + Count(work', x))
  <2> DEFINE q == heap'[x].rc
             r == heap[x].rc
             h == held[x]
             k == Count(heap[o].kids, x)
             v == Count(Tail(work), x)
             w == Count(work, x)
             e == Same(x, o)
  <2>1. w = v + e
    BY <1>1, <1>2, CountTail
  <2>2. /\ r \in Nat /\ h \in Nat /\ k \in Nat /\ e \in Nat /\ v \in Nat
    BY <1>1, <1>2, CountTail, CountFacts, CountType, SameType
  <2>3. (q = r /\ e = 0) \/ (q = r - 1 /\ e = 1)
    BY <1>3 DEF Same
  <2> HIDE DEF q, r, h, k, v, w, e
  <2>4. q + (h + k + w) = r + (h + k + v)
    BY <2>1, <2>2, <2>3
  <2>5. QED
    BY <1>1, <1>3, <2>4 DEF q, r, h, k, v, w
<1>6. Owners(KidsAt)' /\ Balance(KidsAt, RcAt, held, work)'
  BY <1>3, <1>4, <1>5, CountMove
<1>7. NoCircle(KidsAt)'
  BY <1>3, CircleKept
<1>8. \A x \in Obj : Live(x)' <=> Live(x)
  BY <1>3 DEF Live
<1>9. ASSUME NEW x \in Obj
      PROVE  IF Live(x)' THEN heap'[x].rc > 0 ELSE heap'[x].rc = 0 /\ heap'[x].kids = << >>
  <2>1. CASE x = o
    <3>1. Live(o) /\ heap'[o].rc > 0
      BY <1>1, <1>2, <1>3, CountZeroDead
    <3>2. QED
      BY <1>8, <2>1, <3>1
  <2>2. CASE x # o
    BY <1>3, <1>8, <2>2 DEF CountInv
  <2>3. QED
    BY <2>1, <2>2
<1>10. QED
  BY <1>1, <1>6, <1>7, <1>8, <1>9 DEF CountInv

\* The last link goes, and with the struct the links it owned become
\* releases to do.
LEMMA CountDestroy ==
  ASSUME TypeOK, TypeOK', CountInv, NEW o \in Obj, Releasing(o), heap[o].rc = 1, Destroy(o),
         held' = held, phase' = phase
  PROVE  CountInv'
<1>1. /\ heap' = [heap EXCEPT ![o] = Dead]
      /\ work # << >> /\ o = Head(work) /\ work' = heap[o].kids \o Tail(work)
  BY DEF Releasing, Destroy
<1>2. heap \in [Obj -> ObjRecord] /\ work \in Seq(Obj) /\ heap[o].kids \in Seq(Obj)
  BY ObjFields DEF TypeOK
<1>3. /\ heap'[o].rc = 0 /\ heap'[o].kids = << >> /\ heap'[o].type = "none"
      /\ \A x \in Obj : x # o => heap'[x] = heap[x]
  BY <1>1, <1>2 DEF Dead
<1>4. Len(heap'[o].kids) <= MaxKids
  BY <1>3, OutAssumption
<1>5. ASSUME NEW x \in Obj
      PROVE  heap'[x].rc + (held[x] + Count(heap[o].kids, x) + Count(work, x))
               = heap[x].rc + (held'[x] + Count(heap'[o].kids, x) + Count(work', x))
  <2> DEFINE q == heap'[x].rc
             r == heap[x].rc
             h == held[x]
             k == Count(heap[o].kids, x)
             t == Count(Tail(work), x)
             w == Count(work, x)
             v == Count(heap[o].kids \o Tail(work), x)
             e == Same(x, o)
  <2>1. w = t + e /\ Tail(work) \in Seq(Obj)
    BY <1>1, <1>2, CountTail
  <2>2. v = k + t
    BY <1>2, <2>1, CountConcat
  <2>3. r \in Nat /\ h \in Nat /\ k \in Nat /\ e \in Nat /\ t \in Nat
    BY <1>2, <2>1, CountFacts, CountType, SameType
  <2>4. (q = r /\ e = 0) \/ (q = 0 /\ r = 1 /\ e = 1)
    BY <1>3 DEF Same
  <2> HIDE DEF q, r, h, k, t, w, v, e
  <2>5. q + (h + k + w) = r + (h + 0 + v)
    BY <2>1, <2>2, <2>3, <2>4
  <2>6. Count(heap'[o].kids, x) = 0
    BY <1>3, CountEmpty
  <2>7. QED
    BY <1>1, <2>5, <2>6 DEF q, r, h, k, w, v
<1>6. Owners(KidsAt)' /\ Balance(KidsAt, RcAt, held, work)'
  BY <1>3, <1>4, <1>5, CountMove
<1>7. NoCircle(KidsAt)'
  <2>1. ASSUME NEW d \in Obj, NEW j \in DOMAIN heap'[d].kids
        PROVE  \E k \in DOMAIN heap[d].kids : heap[d].kids[k] = heap'[d].kids[j]
    BY <1>3
  <2>2. QED
    BY <2>1, CircleKept
<1>8. QED
  BY <1>3, <1>6, <1>7 DEF CountInv, Live

LEMMA CountRelease == ASSUME TypeOK, TypeOK', CountInv, ReleaseStep PROVE CountInv'
<1>1. ASSUME NEW o \in Obj, ReleaseUnlabelled(o) PROVE CountInv'
  BY <1>1, CountDestroy DEF ReleaseUnlabelled
<1>2. ASSUME NEW o \in Obj, ReleaseToFile(o) PROVE CountInv'
  BY <1>2, CountDestroy DEF ReleaseToFile, LastLabelled
<1>3. ASSUME NEW o \in Obj, ReleaseToObjStm(o) PROVE CountInv'
  BY <1>3, CountDestroy DEF ReleaseToObjStm, LastLabelled
<1>4. ASSUME NEW o \in Obj, ReleaseFails(o) PROVE CountInv'
  BY <1>4, CountFrame DEF ReleaseFails
<1>5. QED
  BY <1>1, <1>2, <1>3, <1>4, CountShared DEF ReleaseStep

LEMMA CountStep == ASSUME TypeOK, TypeOK', CountInv, [Next]_vars PROVE CountInv'
<1>1. CASE UNCHANGED vars
  BY <1>1, CountFrame DEF vars
<1>2. ASSUME OutFlush PROVE CountInv'
  BY <1>2, CountFrame DEF OutFlush, OutFlushTable, OutFlushStream, OutFlushFails
<1>3. QED
  BY <1>1, <1>2, CountOutOpen, CountCaller, CountRelease DEF Next

LEMMA CountCorrect == Spec => []CountInv
<1>1. TypeOK /\ TypeOK' /\ CountInv /\ [Next]_vars => CountInv'
  BY CountStep
<1>2. QED
  BY <1>1, CountInit, TypeCorrect, PTL DEF Spec

\* refcount is exactly the number of links that exist, however objects are
\* created, linked, nested, replaced and released: no object is freed while
\* somebody has it, and none is left behind.
THEOREM RefcountCorrect == Spec => []RefcountExact
<1>1. CountInv => RefcountExact
  BY InvRefcount
<1>2. QED
  BY <1>1, CountCorrect, PTL

(***************************************************************************)
(* The end of a run.  Once the callers have given back what they held, no   *)
(* object is left: a live one would be owned by a live one, and so on, in a *)
(* circle.  So everything labelled has been written.                        *)
(***************************************************************************)
LEMMA AllReleased ==
  ASSUME TypeOK, CountInv, ReadyToFlush, NEW o \in Obj PROVE ~Live(o)
<1> DEFINE S == { x \in Obj : Live(x) }
<1>1. work = << >> /\ \A x \in Obj : held[x] = 0
  BY DEF ReadyToFlush, Idle
<1>2. ASSUME NEW x \in S PROVE \E c \in S : Owns(KidsAt, c, x)
  <2>1. Slots(KidsAt, x) # 0
    <3> DEFINE r == heap[x].rc
               k == Slots(KidsAt, x)
    <3>1. r = 0 + k + 0 /\ r > 0 /\ k \in Nat
      BY <1>1, CountZeroDead, CountEmpty
    <3> HIDE DEF r, k
    <3>2. k # 0
      BY <3>1
    <3>3. QED
      BY <3>2 DEF k
  <2>2. SlotsIn(KidsAt, x) # {}
    BY <2>1, FS_EmptySet DEF Slots
  <2>3. PICK p \in SlotsIn(KidsAt, x) : TRUE
    BY <2>2
  <2>4. p[1] \in Obj /\ Owns(KidsAt, p[1], x)
    BY <2>3 DEF SlotsIn, Owns
  <2>5. Live(p[1])
    <3>1. KidsAt[p[1]] # << >>
      BY <2>4 DEF Owns
    <3>2. QED
      BY <2>4, <3>1, CountFacts, CountZeroDead
  <2>6. QED
    BY <2>4, <2>5
<1>3. S \in SUBSET Obj
  OBVIOUS
<1> HIDE DEF S
<1>4. S = {}
  BY <1>2, <1>3 DEF CountInv, NoCircle
<1>5. QED
  BY <1>4 DEF S

\* What is left to write: nothing once the file is closed, and no object
\* stream ever without use_objstm.
ClosedInv ==
  /\ phase = "closed" => work = << >> /\ stm.label = 0 /\ \A o \in Obj : ~Live(o)
  /\ ~UseObjStm => stm.label = 0

LEMMA ClosedStep == ASSUME TypeOK, CountInv, ClosedInv, [Next]_vars PROVE ClosedInv'
<1>1. CASE UNCHANGED vars
  BY <1>1 DEF vars, outVars, ClosedInv, Live
<1>2. ASSUME NEW c \in Obj, OutOpen(c) PROVE ClosedInv'
  BY <1>2 DEF OutOpen, ClosedInv
<1>3. ASSUME CallerStep PROVE ClosedInv'
  <2>1. phase' # "closed" /\ stm' = stm
    BY <1>3 DEF CallerStep, Alloc, Link, Ref, RefFails, AddKid, ReplaceKid, RemoveKid,
                SetInfo, Release, Idle, outVars
  <2>2. QED
    BY <2>1 DEF ClosedInv
<1>4. ASSUME ReleaseStep PROVE ClosedInv'
  <2>1. PICK o \in Obj : \/ ReleaseShared(o) \/ ReleaseUnlabelled(o) \/ ReleaseToFile(o)
                        \/ ReleaseToObjStm(o) \/ ReleaseFails(o)
    BY <1>4 DEF ReleaseStep
  <2>2. phase # "closed" /\ phase' # "closed"
    BY <2>1 DEF ReleaseShared, ReleaseUnlabelled, ReleaseToFile, ReleaseToObjStm, ReleaseFails,
                LastLabelled, Releasing, ClosedInv
  <2>3. ~UseObjStm => stm' = stm
    BY <2>1 DEF ReleaseShared, ReleaseUnlabelled, ReleaseToFile, ReleaseToObjStm, ReleaseFails,
                outVars, TopLevel
  <2>4. QED
    BY <2>2, <2>3 DEF ClosedInv
<1>5. ASSUME OutFlush PROVE ClosedInv'
  <2>1. \A o \in Obj : ~Live(o)
    BY <1>5, AllReleased DEF OutFlush, OutFlushTable, OutFlushStream, OutFlushFails
  <2>2. (UseObjStm /\ stm' = NoStm) \/ (~UseObjStm /\ stm' = stm)
    BY <1>5 DEF OutFlush, OutFlushTable, OutFlushStream, OutFlushFails
  <2>3. stm'.label = 0
    BY <2>2 DEF ClosedInv, NoStm
  <2>4. heap' = heap /\ work' = << >>
    BY <1>5 DEF OutFlush, OutFlushTable, OutFlushStream, OutFlushFails, ReadyToFlush, Idle
  <2>5. QED
    BY <2>1, <2>3, <2>4 DEF ClosedInv, Live
<1>6. QED
  BY <1>1, <1>2, <1>3, <1>4, <1>5 DEF Next

LEMMA ClosedCorrect == Spec => []ClosedInv
<1>1. Init => ClosedInv
  BY DEF Init, ClosedInv, NoStm
<1>2. TypeOK /\ CountInv /\ ClosedInv /\ [Next]_vars => ClosedInv'
  BY ClosedStep
<1>3. QED
  BY <1>1, <1>2, TypeCorrect, CountCorrect, PTL DEF Spec

\* The table pdf_out_flush dumps has no entry left uninitialised: every
\* label handed out belongs to something that was written, in whatever
\* order objects were created, shared and released.
THEOREM XrefCompleteCorrect == Spec => []XrefComplete
<1>1. TypeOK /\ LabelInv /\ ClosedInv => XrefComplete
  <2> SUFFICES ASSUME TypeOK, LabelInv, ClosedInv, phase = "closed", NEW l \in 1 .. nextLabel - 1
               PROVE  xref[l] # Unset
    BY DEF XrefComplete
  <2>1. nextLabel \in 1 .. MaxLabel /\ l \in Label /\ l # 0 /\ ~(l >= nextLabel)
    BY OutAssumption DEF TypeOK, Label
  <2>2. stm.label = 0 /\ \A a \in Obj : Labels[a] = 0
    BY DEF ClosedInv, LabelInv, Labels
  <2>3. xref[l] = Unset <=> l >= nextLabel \/ stm.label = l \/ \E a \in Obj : Labels[a] = l
    BY <2>1 DEF LabelInv, Accounted, Unwritten
  <2>4. QED
    BY <2>1, <2>2, <2>3
<1>2. QED
  BY <1>1, TypeCorrect, LabelCorrect, ClosedCorrect, PTL

(***************************************************************************)
(* What is in the file: the bits of free_list agree with the table, proof   *)
(* of FreeListExact, and strings are encrypted once, proof of EncryptedOnce. *)
(***************************************************************************)

(***************************************************************************)
(* free_list.                                                               *)
(***************************************************************************)
Entries(x) == { l \in Label : x[l] # Unset }

\* An entry is made for l, and the bit of l set.
LEMMA EntryMade ==
  ASSUME NEW x \in [Label -> XrefRecord], NEW l \in Label, NEW e \in XrefRecord, e # Unset
  PROVE  /\ [x EXCEPT ![l] = e] \in [Label -> XrefRecord]
         /\ Entries([x EXCEPT ![l] = e]) = Entries(x) \cup {l}
BY DEF Entries

LEMMA FreeOpen ==
  ASSUME TypeOK, LabelInv, FreeListExact, NEW c \in Obj, OutOpen(c) PROVE FreeListExact'
<1>1. phase = "init" /\ xref \in [Label -> XrefRecord]
  BY NoEntry DEF OutOpen
<1>2. Entries(xref) = {}
  <2>1. \A l \in Label : l >= nextLabel
    BY <1>1, OutAssumption DEF LabelInv, Label
  <2>2. QED
    BY <2>1, NoEntry DEF Entries
<1>3. 2 \in Label /\ InFile(1) \in XrefRecord /\ InFile(1) # Unset
  <2>1. 2 \in Label
    BY OutAssumption DEF Label
  <2>2. QED
    BY <2>1, XrefTypes, Kinds3
<1>4. CASE Encrypt
  <2>1. freed' = {2} /\ xref' = [xref EXCEPT ![2] = InFile(1)]
    BY <1>4 DEF OutOpen
  <2>2. Entries([xref EXCEPT ![2] = InFile(1)]) = Entries(xref) \cup {2}
    BY <1>1, <1>3, EntryMade
  <2>3. Entries(xref') = freed'
    BY <1>2, <2>1, <2>2
  <2>4. QED
    BY <2>3 DEF FreeListExact, Entries
<1>5. CASE ~Encrypt
  <2>1. freed' = freed /\ xref' = xref
    BY <1>5 DEF OutOpen
  <2>2. QED
    BY <1>1, <2>1 DEF FreeListExact
<1>6. QED
  BY <1>4, <1>5, OutAssumption

LEMMA FreeToFile ==
  ASSUME TypeOK, FreeListExact, NEW o \in Obj, ReleaseToFile(o) PROVE FreeListExact'
<1> DEFINE l == heap[o].label
<1>1. /\ l # 0 /\ phase # "failed" /\ freed' = freed \cup {l}
      /\ xref' = [xref EXCEPT ![l] = InFile(Len(file) + 1)]
  BY DEF ReleaseToFile, LastLabelled, Releasing, Freed
<1>2. l \in Label /\ xref \in [Label -> XrefRecord]
  BY <1>1, ObjFields DEF TypeOK, XrefRecord
<1>3. InFile(Len(file) + 1) \in XrefRecord /\ InFile(Len(file) + 1) # Unset
  <2>1. Len(file) + 1 \in Nat
    BY DEF TypeOK
  <2>2. QED
    BY <2>1, XrefTypes, Kinds3
<1>4. freed = Entries(xref)
  BY <1>1 DEF FreeListExact, Entries
<1> HIDE DEF l
<1>5. Entries(xref') = freed'
  BY <1>1, <1>2, <1>3, <1>4, EntryMade
<1>6. QED
  BY <1>5 DEF FreeListExact, Entries

LEMMA FreeToObjStm ==
  ASSUME TypeOK, FreeListExact, NEW o \in Obj, ReleaseToObjStm(o) PROVE FreeListExact'
<1> DEFINE l == heap[o].label
           s == StmWith(o)
           m == s.label
           x == [xref EXCEPT ![l] = InStm(m, Len(s.members) - 1)]
<1>1. /\ l # 0 /\ phase # "failed" /\ (stm.label # 0 \/ CanLabel)
      /\ \/ freed' = freed \cup {l} \cup {m} /\ xref' = [x EXCEPT ![m] = InFile(Len(file) + 1)]
         \/ freed' = freed \cup {l} /\ xref' = x
  BY DEF ReleaseToObjStm, LastLabelled, Releasing, Freed
<1>2. l \in Label /\ xref \in [Label -> XrefRecord]
  BY <1>1, ObjFields DEF TypeOK, XrefRecord
<1>3. m \in Label /\ Len(s.members) - 1 \in Nat
  <2>1. m \in Label /\ Len(s.members) = Len(OpenStm.members) + 1 /\ OpenStm.members \in Seq(MemberRecord)
    BY <1>1, TypeStm
  <2>2. Len(OpenStm.members) \in Nat
    BY <2>1
  <2> HIDE DEF s
  <2>3. QED
    BY <2>1, <2>2
<1>4. freed = Entries(xref)
  BY <1>1 DEF FreeListExact, Entries
<1>5. /\ InFile(Len(file) + 1) \in XrefRecord /\ InFile(Len(file) + 1) # Unset
      /\ InStm(m, Len(s.members) - 1) \in XrefRecord /\ InStm(m, Len(s.members) - 1) # Unset
  <2>1. Len(file) + 1 \in Nat
    BY DEF TypeOK
  <2>2. m \in Nat
    BY <1>3, LabelRange
  <2> HIDE DEF s
  <2>3. QED
    BY <1>3, <2>1, <2>2, XrefTypes, Kinds3
<1> DEFINE e == InStm(m, Len(s.members) - 1)
<1> HIDE DEF l, m, s, e
<1>6. x \in [Label -> XrefRecord] /\ Entries(x) = freed \cup {l}
  BY <1>2, <1>4, <1>5, EntryMade DEF e
<1> HIDE DEF x
<1>7. Entries(xref') = freed'
  <2> DEFINE d == InFile(Len(file) + 1)
  <2>1. d \in XrefRecord /\ d # Unset
    BY <1>5
  <2>2. \/ freed' = (freed \cup {l}) \cup {m} /\ xref' = [x EXCEPT ![m] = d]
        \/ freed' = freed \cup {l} /\ xref' = x
    BY <1>1
  <2> HIDE DEF d
  <2>3. Entries([x EXCEPT ![m] = d]) = Entries(x) \cup {m}
    BY <1>3, <1>6, <2>1, EntryMade
  <2>4. QED
    BY <1>6, <2>2, <2>3
<1>8. QED
  BY <1>7 DEF FreeListExact, Entries

LEMMA FreeFlush == ASSUME TypeOK, FreeListExact, OutFlush PROVE FreeListExact'
<1>1. phase # "failed" /\ xref \in [Label -> XrefRecord] /\ freed = Entries(xref)
  BY DEF OutFlush, OutFlushTable, OutFlushStream, OutFlushFails, ReadyToFlush, Idle,
         FreeListExact, Entries, TypeOK, XrefRecord
<1>2. FlushedXref \in [Label -> XrefRecord] /\ Entries(FlushedXref) = FlushedFreed
  <2>1. CASE stm.label = 0
    BY <1>1, <2>1 DEF FlushedXref, FlushedFreed
  <2>2. CASE stm.label # 0
    <3>1. stm.label \in Label
      BY <2>2, OutAssumption DEF TypeOK, Label
    <3>2. InFile(Len(file) + 1) \in XrefRecord /\ InFile(Len(file) + 1) # Unset
      <4>1. Len(file) + 1 \in Nat
        BY DEF TypeOK
      <4>2. QED
        BY <4>1, XrefTypes, Kinds3
    <3>3. FlushedXref = [xref EXCEPT ![stm.label] = InFile(Len(file) + 1)]
      BY <2>2 DEF FlushedXref
    <3>4. FlushedFreed = freed \cup {stm.label}
      BY <2>2 DEF FlushedFreed
    <3>5. QED
      BY <1>1, <3>1, <3>2, <3>3, <3>4, EntryMade
  <2>3. QED
    BY <2>1, <2>2
<1>3. CASE OutFlushTable
  BY <1>1, <1>3 DEF OutFlushTable, FreeListExact, Entries
<1>4. CASE OutFlushFails
  BY <1>4 DEF OutFlushFails, FreeListExact
<1>5. CASE OutFlushStream
  <2> DEFINE n == Len(FlushedFile) + 1
  <2>1. /\ nextLabel \in Label /\ freed' = FlushedFreed \cup {nextLabel}
        /\ xref' = [FlushedXref EXCEPT ![nextLabel] = InFile(n)]
    BY <1>5, OutAssumption DEF OutFlushStream, CanLabel, TypeOK, Label
  <2>2. FlushedFile \in Seq(EntryRecord)
    BY TypeFlushed
  <2>3. InFile(n) \in XrefRecord /\ InFile(n) # Unset
    <3>1. n \in Nat
      BY <2>2
    <3>2. QED
      BY <3>1, XrefTypes, Kinds3
  <2> HIDE DEF n
  <2>4. Entries(xref') = freed'
    BY <1>2, <2>1, <2>3, EntryMade
  <2>5. QED
    BY <2>4 DEF FreeListExact, Entries
<1>6. QED
  BY <1>3, <1>4, <1>5 DEF OutFlush

LEMMA FreeStep ==
  ASSUME TypeOK, LabelInv, FreeListExact, [Next]_vars PROVE FreeListExact'
<1>1. ASSUME UNCHANGED << freed, xref >>, phase = "failed" => phase' = "failed"
      PROVE  FreeListExact'
  BY <1>1 DEF FreeListExact
<1>2. ASSUME CallerStep PROVE FreeListExact'
  BY <1>1, <1>2 DEF CallerStep, Alloc, Link, Ref, RefFails, AddKid, ReplaceKid, RemoveKid,
                    SetInfo, Release, outVars, Idle
<1>3. ASSUME ReleaseStep PROVE FreeListExact'
  <2>1. ASSUME NEW o \in Obj, ReleaseShared(o) \/ ReleaseUnlabelled(o) \/ ReleaseFails(o)
        PROVE  FreeListExact'
    BY <1>1, <2>1 DEF ReleaseShared, ReleaseUnlabelled, ReleaseFails, outVars, FreeListExact
  <2>2. QED
    BY <1>3, <2>1, FreeToFile, FreeToObjStm DEF ReleaseStep
<1>4. CASE UNCHANGED vars
  BY <1>1, <1>4 DEF vars, outVars
<1>5. QED
  BY <1>2, <1>3, <1>4, FreeOpen, FreeFlush DEF Next

\* The bits pdf_deref_obj and pdf_release_obj trust and the table the reader
\* of the file gets agree: a label is marked free exactly when it has an
\* entry.
THEOREM FreeListCorrect == Spec => []FreeListExact
<1>1. Init => FreeListExact
  BY DEF Init, FreeListExact
<1>2. TypeOK /\ LabelInv /\ FreeListExact /\ [Next]_vars => FreeListExact'
  BY FreeStep
<1>3. QED
  BY <1>1, <1>2, TypeCorrect, LabelCorrect, PTL DEF Spec

(***************************************************************************)
(* Encryption.                                                              *)
(***************************************************************************)
InClear(ms) == \A i \in DOMAIN ms : ~ms[i].enc
EncRight(e) == e.enc = (Encrypt /\ e.type # "xref" /\ e.label # 2) /\ InClear(e.members)
EncFile(f) == \A p \in DOMAIN f : EncRight(f[p])

\* EncryptedOnce needs to know that 2 is the number of the encryption
\* dictionary alone, 1 that of the catalog, and that the catalog stays out
\* of object streams.
EncInv ==
  /\ EncFile(file) /\ InClear(stm.members)
  /\ Encrypt => xref[1].kind # "stm"
  /\ phase = "closed" => ~encMode
  /\ phase # "init" => nextLabel >= 2
  /\ Encrypt /\ phase # "init" => nextLabel >= 3 /\ xref[2] # Unset
  /\ Encrypt => \A o \in Obj : heap[o].label = 1 => heap[o].noStm

LEMMA EncAppend ==
  ASSUME NEW f \in Seq(EntryRecord), EncFile(f), NEW e \in EntryRecord, EncRight(e)
  PROVE  EncFile(Append(f, e))
<1>1. \A p \in DOMAIN Append(f, e) : Append(f, e)[p] = e \/ (p \in DOMAIN f /\ Append(f, e)[p] = f[p])
  OBVIOUS
<1>2. QED
  BY <1>1 DEF EncFile

\* The labels 1 and 2 are not the object's or the stream's to take.
LEMMA EncLabels ==
  ASSUME TypeOK, LabelInv, EncInv, Encrypt, phase # "init"
  PROVE  /\ nextLabel > 2 /\ stm.label # 2
         /\ \A o \in Obj : heap[o].label # 2
<1>1. nextLabel \in Nat /\ nextLabel >= 3 /\ xref[2] # Unset /\ 2 \in Label
  BY OutAssumption DEF EncInv, TypeOK, Label
<1>2. QED
  BY <1>1, NoEntry

\* Steps that write nothing.
LEMMA EncFrame ==
  ASSUME EncInv, UNCHANGED << xref, stm, file >>, phase' # "closed" \/ ~encMode',
         phase' # "init" => phase # "init", nextLabel' >= nextLabel,
         nextLabel \in Nat, nextLabel' \in Nat,
         \A o \in Obj : heap'[o].label = 1 => heap[o].label = 1 /\ heap'[o].noStm = heap[o].noStm
  PROVE  EncInv'
BY DEF EncInv

LEMMA EncInit == Init => EncInv
<1> SUFFICES ASSUME Init PROVE EncInv
  OBVIOUS
<1>1. file = << >> /\ stm.members = << >> /\ phase = "init" /\ 1 \in Label
  BY OutAssumption DEF Init, NoStm, Label
<1>2. xref[1].kind # "stm"
  BY <1>1, Kinds3 DEF Init
<1>3. \A o \in Obj : heap[o].label = 0
  BY DEF Init, Dead
<1>4. EncFile(file) /\ InClear(stm.members)
  BY <1>1 DEF EncFile, InClear
<1>5. QED
  BY <1>1, <1>2, <1>3, <1>4 DEF EncInv

LEMMA EncOpen ==
  ASSUME TypeOK, LabelInv, EncInv, NEW c \in Obj, OutOpen(c) PROVE EncInv'
<1>1. /\ heap' = [heap EXCEPT ![c] = Catalog] /\ phase = "init" /\ phase' = "open" /\ stm' = stm
      /\ heap \in [Obj -> ObjRecord] /\ xref \in [Label -> XrefRecord]
  BY NoEntry DEF OutOpen, TypeOK
<1>2. Catalog.label = 1 /\ Catalog.noStm = Encrypt
  BY DEF Catalog, NewObj, Dead
<1>3. Encrypt => \A o \in Obj : heap'[o].label = 1 => heap'[o].noStm
  BY <1>1, <1>2 DEF EncInv
<1>4. 1 \in Label /\ 2 \in Label /\ 1 # 2
  BY OutAssumption DEF Label
<1>5. CASE Encrypt
  <2>1. /\ nextLabel' = 3 /\ file' = << Entry(2, "dict", FALSE, << >>) >>
        /\ xref' = [xref EXCEPT ![2] = InFile(1)]
    BY <1>5 DEF OutOpen
  <2>2. xref'[2] # Unset /\ xref'[1] = xref[1]
    BY <1>1, <1>4, <2>1, Kinds3
  <2>3. EncRight(Entry(2, "dict", FALSE, << >>))
    <3> DEFINE e == Entry(2, "dict", FALSE, << >>)
    <3>1. e.enc = FALSE /\ e.label = 2 /\ e.members = << >>
      BY DEF Entry
    <3> HIDE DEF e
    <3>2. InClear(e.members)
      BY <3>1 DEF InClear
    <3>3. e.enc = (Encrypt /\ e.type # "xref" /\ e.label # 2)
      BY <3>1
    <3>4. QED
      BY <3>2, <3>3 DEF EncRight, e
  <2>4. EncFile(file')
    <3> DEFINE e == Entry(2, "dict", FALSE, << >>)
    <3>1. file' = << e >> /\ EncRight(e)
      BY <2>1, <2>3
    <3> HIDE DEF e
    <3>2. \A p \in DOMAIN << e >> : << e >>[p] = e
      OBVIOUS
    <3>3. QED
      BY <3>1, <3>2 DEF EncFile
  <2>5. QED
    BY <1>1, <1>3, <2>1, <2>2, <2>4 DEF EncInv
<1>6. CASE ~Encrypt
  <2>1. nextLabel' = 2 /\ file' = file /\ xref' = xref
    BY <1>6 DEF OutOpen
  <2>2. QED
    BY <1>1, <1>6, <2>1 DEF EncInv
<1>7. QED
  BY <1>5, <1>6, OutAssumption

\* Releasing happens while the file is open, and a freed object has no label.
LEMMA EncReleasing ==
  ASSUME TypeOK, LabelInv, ClosedInv, EncInv, NEW o \in Obj, Releasing(o)
  PROVE  /\ phase # "init" /\ phase # "closed"
         /\ Destroy(o) => (Encrypt => \A a \in Obj : heap'[a].label = 1 => heap'[a].noStm)
<1>1. phase # "init" /\ phase # "closed"
  BY DEF Releasing, LabelInv, ClosedInv
<1>2. ASSUME Destroy(o) PROVE heap' = [heap EXCEPT ![o] = Dead]
  BY <1>2 DEF Destroy
<1>3. Dead.label = 0 /\ heap \in [Obj -> ObjRecord]
  BY NewLabels DEF TypeOK
<1>4. ASSUME Destroy(o), Encrypt, NEW a \in Obj, heap'[a].label = 1 PROVE heap'[a].noStm
  <2>1. a # o /\ heap'[a] = heap[a]
    BY <1>2, <1>3, <1>4
  <2>2. QED
    BY <1>4, <2>1 DEF EncInv
<1>5. QED
  BY <1>1, <1>4

LEMMA EncToFile ==
  ASSUME TypeOK, LabelInv, ClosedInv, EncInv, NEW o \in Obj, ReleaseToFile(o) PROVE EncInv'
<1> DEFINE l == heap[o].label
           e == Entry(l, heap[o].type, Encrypt, << >>)
<1>1. /\ l # 0 /\ Releasing(o) /\ Destroy(o) /\ phase' = phase /\ stm' = stm /\ nextLabel' = nextLabel
      /\ file' = Append(file, e)
      /\ xref' = [xref EXCEPT ![l] = InFile(Len(file) + 1)]
  BY DEF ReleaseToFile, LastLabelled
<1>2. l \in Label /\ heap[o].type \in ObjType /\ heap[o].type # "xref"
  BY <1>1, ObjFields DEF ObjType, Containers, LeafTypes
<1>3. /\ phase # "init" /\ phase # "closed"
      /\ Encrypt => \A a \in Obj : heap'[a].label = 1 => heap'[a].noStm
  BY <1>1, EncReleasing
<1>4. Encrypt => l # 2
  BY <1>3, EncLabels
<1>5. e \in EntryRecord /\ EncRight(e)
  <2>1. << >> \in Seq(MemberRecord) /\ InClear(<< >>)
    BY DEF InClear
  <2>2. e \in EntryRecord
    BY <1>2, <2>1, EntryType, OutAssumption
  <2>3. e.enc = Encrypt /\ e.type # "xref" /\ e.label = l /\ e.members = << >>
    BY <1>2 DEF Entry
  <2>4. Encrypt \in BOOLEAN
    BY OutAssumption
  <2> HIDE DEF e
  <2>5. e.enc = (Encrypt /\ e.type # "xref" /\ e.label # 2)
    BY <1>4, <2>3, <2>4
  <2>6. QED
    BY <2>1, <2>2, <2>3, <2>5 DEF EncRight
<1> HIDE DEF e
<1>6. file \in Seq(EntryRecord) /\ xref \in [Label -> XrefRecord]
  BY NoEntry
<1>7. EncFile(file')
  BY <1>1, <1>5, <1>6, EncAppend DEF EncInv
<1>8. Encrypt => xref'[1].kind # "stm" /\ xref'[2] # Unset
  <2> SUFFICES ASSUME Encrypt PROVE xref'[1].kind # "stm" /\ xref'[2] # Unset
    OBVIOUS
  <2>1. xref[1].kind # "stm" /\ xref[2] # Unset
    BY <1>3 DEF EncInv
  <2>2. xref'[2] = xref[2] /\ (xref'[1] = xref[1] \/ xref'[1] = InFile(Len(file) + 1))
    BY <1>1, <1>4, <1>6, OutAssumption DEF Label
  <2>3. QED
    BY <2>1, <2>2, Kinds3
<1>9. QED
  BY <1>1, <1>3, <1>7, <1>8 DEF EncInv

LEMMA EncStm ==
  ASSUME TypeOK, LabelInv, EncInv, phase # "init", NEW s \in StmRecord, s.label \in Label,
         InClear(s.members), Encrypt => s.label # 2
  PROVE  EncFile(FileWithStm(s))
<1> DEFINE e == Entry(s.label, "stream", Encrypt, s.members)
<1>1. "stream" \in ObjType /\ s.members \in Seq(MemberRecord) /\ Encrypt \in BOOLEAN
  BY OutAssumption DEF ObjType, Containers, StmRecord
<1>2. e \in EntryRecord
  BY <1>1, EntryType
<1>3. e.enc = Encrypt /\ e.type = "stream" /\ e.label = s.label /\ e.members = s.members
  BY DEF Entry
<1>4. FileWithStm(s) = Append(file, e)
  BY DEF FileWithStm
<1> HIDE DEF e
<1>5. e.enc = (Encrypt /\ e.type # "xref" /\ e.label # 2)
  BY <1>1, <1>3
<1>6. EncRight(e)
  BY <1>3, <1>5 DEF EncRight
<1>7. QED
  BY <1>2, <1>4, <1>6, NoEntry, EncAppend DEF EncInv

LEMMA EncToObjStm ==
  ASSUME TypeOK, LabelInv, ClosedInv, EncInv, NEW o \in Obj, ReleaseToObjStm(o) PROVE EncInv'
<1> DEFINE l == heap[o].label
           s == StmWith(o)
           x == [xref EXCEPT ![l] = InStm(s.label, Len(s.members) - 1)]
           m == Member(l, heap[o].type, FALSE)
<1>1. /\ l # 0 /\ Releasing(o) /\ Destroy(o) /\ phase' = phase /\ (stm.label # 0 \/ CanLabel)
      /\ ~TopLevel(o) /\ (nextLabel' = nextLabel \/ nextLabel' = nextLabel + 1)
      /\ \/ /\ stm' = NoStm /\ file' = FileWithStm(s)
            /\ xref' = [x EXCEPT ![s.label] = InFile(Len(file) + 1)]
         \/ stm' = s /\ file' = file /\ xref' = x
  BY DEF ReleaseToObjStm, LastLabelled
<1>2. /\ phase # "init" /\ phase # "closed"
      /\ Encrypt => \A a \in Obj : heap'[a].label = 1 => heap'[a].noStm
  BY <1>1, EncReleasing
<1>3. l \in Label /\ xref \in [Label -> XrefRecord] /\ nextLabel \in Nat
  BY <1>1, ObjFields, NoEntry DEF TypeOK
<1>4. Encrypt => l # 2 /\ l # 1
  BY <1>1, <1>2, EncLabels DEF EncInv, TopLevel
<1>5. /\ s.label \in Label /\ s \in StmRecord /\ (s.label = stm.label \/ s.label = nextLabel)
      /\ s.members = Append(OpenStm.members, m) /\ OpenStm.members \in Seq(MemberRecord)
  BY <1>1, TypeStm
<1>6. Encrypt => s.label # 2
  BY <1>2, <1>5, EncLabels
<1>7. InClear(s.members)
  <2>1. OpenStm.members = stm.members \/ OpenStm.members = << >>
    BY DEF OpenStm, NoStm
  <2>2. m \in MemberRecord /\ ~m.enc
    <3>1. heap[o].type \in ObjType
      BY ObjFields
    <3>2. QED
      BY <1>3, <3>1, MemberType DEF Member
  <2> DEFINE ms == OpenStm.members
  <2>3. InClear(ms)
    BY <2>1 DEF EncInv, InClear
  <2>4. ms \in Seq(MemberRecord)
    BY <1>5
  <2> HIDE DEF ms, m
  <2>5. \A i \in DOMAIN Append(ms, m) : Append(ms, m)[i] = m \/ (i \in DOMAIN ms /\ Append(ms, m)[i] = ms[i])
    BY <2>2, <2>4
  <2>6. InClear(Append(ms, m))
    BY <2>2, <2>3, <2>5 DEF InClear
  <2>7. QED
    BY <1>5, <2>6 DEF ms
<1> HIDE DEF s, l
<1>8. EncFile(file') /\ InClear(stm'.members)
  <2>1. InClear(NoStm.members)
    BY DEF NoStm, InClear
  <2>2. EncFile(FileWithStm(s)) /\ EncFile(file)
    BY <1>2, <1>5, <1>6, <1>7, EncStm DEF EncInv
  <2>3. QED
    BY <1>1, <1>7, <2>1, <2>2
<1>9. Encrypt => xref'[1].kind # "stm" /\ xref'[2] # Unset
  <2> SUFFICES ASSUME Encrypt PROVE xref'[1].kind # "stm" /\ xref'[2] # Unset
    OBVIOUS
  <2>1. xref[1].kind # "stm" /\ xref[2] # Unset
    BY <1>2 DEF EncInv
  <2>2. /\ 1 \in Label /\ 2 \in Label /\ x[1] = xref[1] /\ x[2] = xref[2]
        /\ x \in [Label -> XrefRecord \cup {InStm(s.label, Len(s.members) - 1)}]
    <3>1. 1 \in Label /\ 2 \in Label
      BY OutAssumption DEF Label
    <3> DEFINE d == InStm(s.label, Len(s.members) - 1)
    <3> HIDE DEF d
    <3>2. [xref EXCEPT ![l] = d] \in [Label -> XrefRecord \cup {d}]
      BY <1>3
    <3>3. x = [xref EXCEPT ![l] = d]
      BY DEF d
    <3>4. x[1] = xref[1] /\ x[2] = xref[2]
      BY <1>3, <1>4, <3>1, <3>3
    <3>5. QED
      BY <3>1, <3>2, <3>3, <3>4 DEF d
  <2> HIDE DEF x
  <2>3. xref'[2] = x[2] /\ (xref'[1] = x[1] \/ xref'[1] = InFile(Len(file) + 1))
    BY <1>1, <1>3, <1>6, <2>2
  <2>4. QED
    BY <2>1, <2>2, <2>3, Kinds3
<1>10. nextLabel' >= 2 /\ (Encrypt => nextLabel' >= 3)
  BY <1>1, <1>2, <1>3 DEF EncInv
<1>11. QED
  BY <1>1, <1>2, <1>8, <1>9, <1>10 DEF EncInv

LEMMA EncFlush ==
  ASSUME TypeOK, LabelInv, EncInv, OutFlush PROVE EncInv'
<1>1. /\ phase # "init" /\ heap' = heap /\ nextLabel \in Nat
      /\ xref \in [Label -> XrefRecord] /\ stm \in StmRecord
  BY NoEntry DEF OutFlush, OutFlushTable, OutFlushStream, OutFlushFails, ReadyToFlush, Idle, TypeOK
<1>2. EncFile(FlushedFile)
  <2>1. CASE stm.label = 0
    BY <2>1 DEF FlushedFile, EncInv
  <2>2. CASE stm.label # 0
    <3>1. stm.label \in Label /\ InClear(stm.members) /\ (Encrypt => stm.label # 2)
      BY <1>1, <2>2, EncLabels, OutAssumption DEF EncInv, StmRecord, AnyLabel, Label
    <3>2. QED
      BY <1>1, <2>2, <3>1, EncStm DEF FlushedFile
  <2>3. QED
    BY <2>1, <2>2
<1>3. Encrypt => FlushedXref[1].kind # "stm" /\ FlushedXref[2] # Unset
  <2> SUFFICES ASSUME Encrypt PROVE FlushedXref[1].kind # "stm" /\ FlushedXref[2] # Unset
    OBVIOUS
  <2>1. xref[1].kind # "stm" /\ xref[2] # Unset /\ stm.label # 2
    BY <1>1, EncLabels DEF EncInv
  <2>2. 1 \in Label /\ 2 \in Label
    BY OutAssumption DEF Label
  <2>3. /\ FlushedXref[2] = xref[2]
        /\ FlushedXref[1] = xref[1] \/ FlushedXref[1] = InFile(Len(file) + 1)
    BY <1>1, <2>1, <2>2 DEF FlushedXref
  <2>4. QED
    BY <2>1, <2>3, Kinds3
<1>4. FlushedXref \in [Label -> XrefRecord] /\ FlushedFile \in Seq(EntryRecord)
  BY TypeFlushed
<1>5. InClear(NoStm.members)
  BY DEF NoStm, InClear
<1>6. CASE OutFlushTable
  BY <1>1, <1>6 DEF OutFlushTable, EncInv
<1>7. CASE OutFlushFails
  BY <1>1, <1>2, <1>3, <1>5, <1>7 DEF OutFlushFails, EncInv
<1>8. CASE OutFlushStream
  <2> DEFINE e == Entry(nextLabel, "xref", FALSE, << >>)
             d == InFile(Len(FlushedFile) + 1)
  <2>1. /\ nextLabel \in Label /\ nextLabel' = nextLabel + 1 /\ stm' = NoStm /\ encMode' = FALSE
        /\ file' = Append(FlushedFile, e) /\ xref' = [FlushedXref EXCEPT ![nextLabel] = d]
    <3>1. /\ nextLabel < MaxLabel /\ nextLabel' = nextLabel + 1 /\ stm' = NoStm /\ encMode' = FALSE
          /\ file' = Append(FlushedFile, e) /\ xref' = [FlushedXref EXCEPT ![nextLabel] = d]
      BY <1>8 DEF OutFlushStream, CanLabel
    <3>2. nextLabel \in Label
      BY <3>1, OutAssumption DEF TypeOK, Label
    <3>3. QED
      BY <3>1, <3>2
  <2>2. e \in EntryRecord /\ EncRight(e)
    <3>1. << >> \in Seq(MemberRecord) /\ InClear(<< >>)
      BY DEF InClear
    <3>2. e \in EntryRecord
      BY <2>1, <3>1, EntryType
    <3>3. e.enc = FALSE /\ e.type = "xref" /\ e.members = << >>
      BY DEF Entry
    <3> HIDE DEF e
    <3>4. e.enc = (Encrypt /\ e.type # "xref" /\ e.label # 2)
      BY <3>3
    <3>5. QED
      BY <3>1, <3>2, <3>3, <3>4 DEF EncRight
  <2>3. d.kind = "file" /\ d # Unset
    BY Kinds3
  <2> HIDE DEF e, d
  <2>4. EncFile(file')
    BY <1>2, <1>4, <2>1, <2>2, EncAppend
  <2>5. Encrypt => xref'[1].kind # "stm" /\ xref'[2] # Unset
    <3>1. 1 \in Label /\ 2 \in Label
      BY OutAssumption DEF Label
    <3>2. /\ xref'[1] = FlushedXref[1] \/ xref'[1] = d
          /\ xref'[2] = FlushedXref[2] \/ xref'[2] = d
      BY <1>4, <2>1, <3>1
    <3>3. QED
      BY <1>3, <2>3, <3>2
  <2>6. QED
    BY <1>1, <1>5, <2>1, <2>4, <2>5 DEF EncInv
<1>9. QED
  BY <1>6, <1>7, <1>8 DEF OutFlush

\* Labelling an object hands out neither number 1 nor number 2.
LEMMA EncCaller ==
  ASSUME TypeOK, LabelInv, EncInv, CallerStep PROVE EncInv'
<1>1. /\ phase # "init" /\ phase' # "closed" /\ UNCHANGED << xref, stm, file >>
      /\ heap \in [Obj -> ObjRecord] /\ nextLabel \in Nat /\ nextLabel >= 2
      /\ nextLabel' = nextLabel \/ nextLabel' = nextLabel + 1
  BY DEF CallerStep, Alloc, Link, Ref, RefFails, AddKid, ReplaceKid, RemoveKid, SetInfo, Release,
         Idle, outVars, TypeOK, EncInv, NextAfter
<1>2. nextLabel' >= nextLabel /\ nextLabel' \in Nat
  BY <1>1
<1>3. \A o \in Obj : LabelOf(o) = 1 => heap[o].label = 1
  BY <1>1 DEF LabelOf
<1>4. ASSUME \A a \in Obj : heap'[a].label = 1 => heap[a].label = 1 /\ heap'[a].noStm = heap[a].noStm
      PROVE  EncInv'
  BY <1>1, <1>2, <1>4, EncFrame
<1>5. ASSUME NEW o \in Obj, NEW t \in Kinds, Alloc(o, t) PROVE EncInv'
  <2>1. heap' = [heap EXCEPT ![o] = NewObj(t)]
    BY <1>5 DEF Alloc
  <2>2. QED
    BY <1>1, <1>4, <2>1, NewLabels
<1>6. ASSUME NEW o \in Obj, Link(o) PROVE EncInv'
  <2>1. heap' = [heap EXCEPT ![o].rc = @ + 1]
    BY <1>6 DEF Link
  <2>2. QED
    BY <1>1, <1>4, <2>1 DEF ObjRecord
<1>7. ASSUME NEW o \in Obj, NEW r \in Obj, Ref(o, r) PROVE EncInv'
  <2>1. /\ heap' = [heap EXCEPT ![o].label = LabelOf(o), ![r] = NewRef(o, LabelOf(o))]
        /\ NewRef(o, LabelOf(o)).label = 0
    BY <1>7, NewLabels DEF Ref
  <2>2. ASSUME NEW a \in Obj, heap'[a].label = 1
        PROVE  heap[a].label = 1 /\ heap'[a].noStm = heap[a].noStm
    <3>1. a # r
      BY <1>1, <2>1, <2>2
    <3>2. CASE a = o
      BY <1>1, <1>3, <2>1, <2>2, <3>1, <3>2 DEF ObjRecord
    <3>3. CASE a # o
      BY <1>1, <2>1, <2>2, <3>1, <3>3 DEF ObjRecord
    <3>4. QED
      BY <3>2, <3>3
  <2>3. QED
    BY <1>4, <2>2
<1>8. ASSUME NEW c \in Obj, NEW o \in Obj, AddKid(c, o) PROVE EncInv'
  <2>1. heap' = [heap EXCEPT ![c].kids = Append(@, o)]
    BY <1>8 DEF AddKid
  <2>2. QED
    BY <1>1, <1>4, <2>1 DEF ObjRecord
<1>9. ASSUME NEW c \in Obj, NEW o \in Obj, NEW i \in 1 .. MaxKids,
             ReplaceKid(c, i, o) \/ RemoveKid(c, i)
      PROVE  EncInv'
  <2>1. \/ heap' = [heap EXCEPT ![c].kids[i] = o]
        \/ heap' = [heap EXCEPT ![c].kids = SubSeq(@, 1, i - 1) \o SubSeq(@, i + 1, Len(@))]
    BY <1>9 DEF ReplaceKid, RemoveKid
  <2>2. CASE heap' = [heap EXCEPT ![c].kids[i] = o]
    <3>1. heap' = [heap EXCEPT ![c].kids = [@ EXCEPT ![i] = o]]
      BY <2>2
    <3>2. QED
      BY <1>1, <1>4, <3>1 DEF ObjRecord
  <2>3. CASE heap' = [heap EXCEPT ![c].kids = SubSeq(@, 1, i - 1) \o SubSeq(@, i + 1, Len(@))]
    BY <1>1, <1>4, <2>3 DEF ObjRecord
  <2>4. QED
    BY <2>1, <2>2, <2>3
<1>10. ASSUME NEW o \in Obj, SetInfo(o) PROVE EncInv'
  <2>1. heap' = [heap EXCEPT ![o].label = LabelOf(o)]
    BY <1>10 DEF SetInfo
  <2>2. QED
    BY <1>1, <1>3, <1>4, <2>1 DEF ObjRecord
<1>11. ASSUME NEW o \in Obj, RefFails(o) \/ Release(o) PROVE EncInv'
  BY <1>4, <1>11 DEF RefFails, Release
<1>12. QED
  BY <1>5, <1>6, <1>7, <1>8, <1>9, <1>10, <1>11 DEF CallerStep

LEMMA EncRelease ==
  ASSUME TypeOK, LabelInv, ClosedInv, EncInv, ReleaseStep PROVE EncInv'
<1>1. ASSUME NEW o \in Obj, ReleaseShared(o) PROVE EncInv'
  <2>1. /\ Releasing(o) /\ phase' = phase /\ UNCHANGED << xref, stm, file, nextLabel >>
        /\ heap' = [heap EXCEPT ![o].rc = @ - 1] /\ heap \in [Obj -> ObjRecord] /\ nextLabel \in Nat
    BY <1>1 DEF ReleaseShared, outVars, TypeOK
  <2>2. \A a \in Obj : heap'[a].label = heap[a].label /\ heap'[a].noStm = heap[a].noStm
    BY <2>1 DEF ObjRecord
  <2>3. QED
    BY <2>1, <2>2, EncReleasing, EncFrame
<1>2. ASSUME NEW o \in Obj, ReleaseUnlabelled(o) PROVE EncInv'
  <2>1. /\ Releasing(o) /\ Destroy(o) /\ phase' = phase /\ UNCHANGED << xref, stm, file, nextLabel >>
    BY <1>2 DEF ReleaseUnlabelled, outVars
  <2>2. QED
    BY <2>1, EncReleasing DEF EncInv
<1>3. ASSUME NEW o \in Obj, ReleaseFails(o) PROVE EncInv'
  <2>1. /\ Releasing(o) /\ phase' = "failed" /\ UNCHANGED << heap, xref, stm, file, nextLabel >>
    BY <1>3 DEF ReleaseFails, LastLabelled
  <2>2. QED
    BY <2>1, EncReleasing DEF EncInv
<1>4. QED
  BY <1>1, <1>2, <1>3, EncToFile, EncToObjStm DEF ReleaseStep

LEMMA EncStep ==
  ASSUME TypeOK, LabelInv, ClosedInv, EncInv, [Next]_vars PROVE EncInv'
<1>1. CASE UNCHANGED vars
  BY <1>1 DEF vars, outVars, EncInv
<1>2. QED
  BY <1>1, EncOpen, EncCaller, EncRelease, EncFlush DEF Next

\* Every string is encrypted once: what is in an object stream in clear
\* inside the encrypted stream, the encryption dictionary and the cross
\* reference not at all, and the catalog in no object stream, whatever was
\* written before.
THEOREM EncryptedCorrect == Spec => []EncryptedOnce
<1>1. EncInv => EncryptedOnce
  BY DEF EncInv, EncFile, EncRight, InClear, EncryptedOnce
<1>2. TypeOK /\ LabelInv /\ ClosedInv /\ EncInv /\ [Next]_vars => EncInv'
  BY EncStep
<1>3. QED
  BY <1>1, <1>2, EncInit, TypeCorrect, LabelCorrect, ClosedCorrect, PTL DEF Spec
==============================================================================
