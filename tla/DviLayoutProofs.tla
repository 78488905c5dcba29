--------------------------- MODULE DviLayoutProofs ---------------------------
(***************************************************************************)
(* The proof of LayoutRight: what the interpreter of Dvi has typeset, where *)
(* it stands and the font it is in are those of one reading of the          *)
(* instructions it has executed.                                            *)
(*                                                                          *)
(* Laid(code, start, k) is that reading after k instructions.  A frame      *)
(* below the top is suspended in it, waiting for the packet above it; the   *)
(* frame at the top runs along it, or stands where a segment of reflected   *)
(* text begins, with the width measured so far.                             *)
(***************************************************************************)
EXTENDS DviLinkProofs

(***************************************************************************)
(* The layout and the width of a segment as far as they have been read.     *)
(***************************************************************************)
Laid(code, start, n) ==
  LET at[m \in 0..n] == IF m = 0 THEN Blank(start) ELSE Lay(at[m - 1], code, m)
  IN at[n]
Measured(code, b, font, n) ==
  LET at[m \in 0..n] == IF m = 0 THEN [w |-> 0, font |-> font, depth |-> 0]
                        ELSE Measure(at[m - 1], code[b + m])
  IN at[n]

(***************************************************************************)
(* The layout after each instruction.                                       *)
(***************************************************************************)
LayTable(h, code, start, n) == h = [k \in 0..n |-> IF k = 0 THEN Blank(start) ELSE Lay(h[k - 1], code, k)]
LayRun(h, code, start, n) ==
  h[0] = Blank(start) /\ \A k \in 1..n : h[k] = Lay(h[k - 1], code, k)

LEMMA LayTableExists ==
  ASSUME NEW code, NEW start, NEW n \in Nat
  PROVE  \E h : LayTable(h, code, start, n)
<1> DEFINE S == {k \in Nat : \E h : LayTable(h, code, start, k)}
<1>1. 0 \in S
  <2> DEFINE h == [k \in 0..0 |-> Blank(start)]
  <2>1. h = [k \in 0..0 |-> IF k = 0 THEN Blank(start) ELSE Lay(h[k - 1], code, k)]
    <3>1. \A k \in 0..0 : k = 0
      OBVIOUS
    <3>2. QED
      BY <3>1
  <2>2. QED
    BY <2>1 DEF LayTable
<1>2. ASSUME NEW m \in Nat, m \in S PROVE m + 1 \in S
  <2>1. PICK f : LayTable(f, code, start, m)
    BY <1>2
  <2> DEFINE h == [k \in 0..m + 1 |-> IF k = m + 1 THEN Lay(f[m], code, m + 1) ELSE f[k]]
             r == [k \in 0..m + 1 |-> IF k = 0 THEN Blank(start) ELSE Lay(h[k - 1], code, k)]
  <2>2. ASSUME NEW k \in 0..m + 1 PROVE h[k] = r[k]
    <3>1. CASE k = m + 1
      <4>1. m \in 0..m + 1 /\ m # m + 1 /\ k # 0 /\ k - 1 = m
        BY <3>1
      <4>2. h[m] = f[m]
        BY <4>1
      <4>3. QED
        BY <3>1, <4>1, <4>2
    <3>2. CASE k # m + 1
      <4>1. k \in 0..m
        BY <3>2
      <4>2. f[k] = IF k = 0 THEN Blank(start) ELSE Lay(f[k - 1], code, k)
        BY <2>1, <4>1 DEF LayTable
      <4>3. k # 0 => k - 1 \in 0..m + 1 /\ k - 1 # m + 1
        BY <4>1
      <4>4. k # 0 => h[k - 1] = f[k - 1]
        BY <4>3
      <4>5. h[k] = f[k]
        BY <3>2
      <4>6. QED
        BY <4>2, <4>4, <4>5
    <3>3. QED
      BY <3>1, <3>2
  <2>3. h = r
    BY <2>2
  <2>4. LayTable(h, code, start, m + 1)
    BY <2>3 DEF LayTable
  <2>5. QED
    BY <2>4
<1> HIDE DEF S
<1>3. \A k \in 0..n : k \in S
  BY <1>1, <1>2, UpTo
<1>4. n \in S
  BY <1>3
<1>5. QED
  BY <1>4 DEF S

LEMMA LayRuns ==
  ASSUME NEW code, NEW start, NEW n \in Nat, n = n
  PROVE  \E h : LayRun(h, code, start, n) /\ Laid(code, start, n) = h[n]
<1> DEFINE g == CHOOSE f : f = [k \in 0..n |-> IF k = 0 THEN Blank(start) ELSE Lay(f[k - 1], code, k)]
<1>1. PICK h : h = [k \in 0..n |-> IF k = 0 THEN Blank(start) ELSE Lay(h[k - 1], code, k)]
  <2>1. \E h : LayTable(h, code, start, n)
    BY LayTableExists
  <2>2. QED
    BY <2>1 DEF LayTable
<1>2. g = [k \in 0..n |-> IF k = 0 THEN Blank(start) ELSE Lay(g[k - 1], code, k)]
  BY <1>1, Zenon
<1>3. Laid(code, start, n) = g[n]
  BY Zenon DEF Laid
<1> HIDE DEF g
<1>4. g[0] = Blank(start)
  BY <1>2
<1>5. ASSUME NEW k \in 1..n PROVE g[k] = Lay(g[k - 1], code, k)
  <2>1. k \in 0..n /\ k # 0
    OBVIOUS
  <2>2. QED
    BY <1>2, <2>1
<1>6. QED
  BY <1>3, <1>4, <1>5 DEF LayRun

(***************************************************************************)
(* The width after each instruction of a segment.                           *)
(***************************************************************************)
MeasureTable(h, code, b, font, n) ==
  h = [k \in 0..n |-> IF k = 0 THEN [w |-> 0, font |-> font, depth |-> 0] ELSE Measure(h[k - 1], code[b + k])]
MeasureRun(h, code, b, font, n) ==
  h[0] = [w |-> 0, font |-> font, depth |-> 0] /\ \A k \in 1..n : h[k] = Measure(h[k - 1], code[b + k])

LEMMA MeasureTableExists ==
  ASSUME NEW code, NEW b, NEW font, NEW n \in Nat
  PROVE  \E h : MeasureTable(h, code, b, font, n)
<1> DEFINE S == {k \in Nat : \E h : MeasureTable(h, code, b, font, k)}
<1>1. 0 \in S
  <2> DEFINE h == [k \in 0..0 |-> [w |-> 0, font |-> font, depth |-> 0]]
  <2>1. h = [k \in 0..0 |-> IF k = 0 THEN [w |-> 0, font |-> font, depth |-> 0] ELSE Measure(h[k - 1], code[b + k])]
    <3>1. \A k \in 0..0 : k = 0
      OBVIOUS
    <3>2. QED
      BY <3>1
  <2>2. QED
    BY <2>1 DEF MeasureTable
<1>2. ASSUME NEW m \in Nat, m \in S PROVE m + 1 \in S
  <2>1. PICK f : MeasureTable(f, code, b, font, m)
    BY <1>2
  <2> DEFINE h == [k \in 0..m + 1 |-> IF k = m + 1 THEN Measure(f[m], code[b + (m + 1)]) ELSE f[k]]
             r == [k \in 0..m + 1 |->
                     IF k = 0 THEN [w |-> 0, font |-> font, depth |-> 0] ELSE Measure(h[k - 1], code[b + k])]
  <2>2. ASSUME NEW k \in 0..m + 1 PROVE h[k] = r[k]
    <3>1. CASE k = m + 1
      <4>1. m \in 0..m + 1 /\ m # m + 1 /\ k # 0 /\ k - 1 = m
        BY <3>1
      <4>2. h[m] = f[m]
        BY <4>1
      <4>3. QED
        BY <3>1, <4>1, <4>2
    <3>2. CASE k # m + 1
      <4>1. k \in 0..m
        BY <3>2
      <4>2. f[k] = IF k = 0 THEN [w |-> 0, font |-> font, depth |-> 0] ELSE Measure(f[k - 1], code[b + k])
        BY <2>1, <4>1 DEF MeasureTable
      <4>3. k # 0 => k - 1 \in 0..m + 1 /\ k - 1 # m + 1
        BY <4>1
      <4>4. k # 0 => h[k - 1] = f[k - 1]
        BY <4>3
      <4>5. h[k] = f[k]
        BY <3>2
      <4>6. QED
        BY <4>2, <4>4, <4>5
    <3>3. QED
      BY <3>1, <3>2
  <2>3. h = r
    BY <2>2
  <2>4. MeasureTable(h, code, b, font, m + 1)
    BY <2>3 DEF MeasureTable
  <2>5. QED
    BY <2>4
<1> HIDE DEF S
<1>3. \A k \in 0..n : k \in S
  BY <1>1, <1>2, UpTo
<1>4. n \in S
  BY <1>3
<1>5. QED
  BY <1>4 DEF S

LEMMA MeasureRuns ==
  ASSUME NEW code, NEW b, NEW font, NEW n \in Nat, n = n
  PROVE  \E h : MeasureRun(h, code, b, font, n) /\ Measured(code, b, font, n) = h[n]
<1> DEFINE g == CHOOSE f : f = [k \in 0..n |->
                   IF k = 0 THEN [w |-> 0, font |-> font, depth |-> 0] ELSE Measure(f[k - 1], code[b + k])]
<1>1. PICK h : h = [k \in 0..n |->
                   IF k = 0 THEN [w |-> 0, font |-> font, depth |-> 0] ELSE Measure(h[k - 1], code[b + k])]
  <2>1. \E h : MeasureTable(h, code, b, font, n)
    BY MeasureTableExists
  <2>2. QED
    BY <2>1 DEF MeasureTable
<1>2. g = [k \in 0..n |-> IF k = 0 THEN [w |-> 0, font |-> font, depth |-> 0] ELSE Measure(g[k - 1], code[b + k])]
  BY <1>1, Zenon
<1>3. Measured(code, b, font, n) = g[n]
  BY Zenon DEF Measured
<1> HIDE DEF g
<1>4. g[0] = [w |-> 0, font |-> font, depth |-> 0]
  BY <1>2
<1>5. ASSUME NEW k \in 1..n PROVE g[k] = Measure(g[k - 1], code[b + k])
  <2>1. k \in 0..n /\ k # 0
    OBVIOUS
  <2>2. QED
    BY <1>2, <2>1
<1>6. QED
  BY <1>3, <1>4, <1>5 DEF MeasureRun

(***************************************************************************)
(* The layout after each glyph of a run.                                    *)
(***************************************************************************)
PlaceTable(h, a, glyphs, n) == h = [k \in 0..n |-> IF k = 0 THEN a ELSE PlaceAt(h[k - 1], glyphs[k])]
PlaceRun(h, a, glyphs, n) ==
  h[0] = a /\ \A k \in 1..n : h[k] = PlaceAt(h[k - 1], glyphs[k])

LEMMA PlaceTableExists ==
  ASSUME NEW a, NEW glyphs, NEW n \in Nat
  PROVE  \E h : PlaceTable(h, a, glyphs, n)
<1> DEFINE S == {k \in Nat : \E h : PlaceTable(h, a, glyphs, k)}
<1>1. 0 \in S
  <2> DEFINE h == [k \in 0..0 |-> a]
  <2>1. h = [k \in 0..0 |-> IF k = 0 THEN a ELSE PlaceAt(h[k - 1], glyphs[k])]
    <3>1. \A k \in 0..0 : k = 0
      OBVIOUS
    <3>2. QED
      BY <3>1
  <2>2. QED
    BY <2>1 DEF PlaceTable
<1>2. ASSUME NEW m \in Nat, m \in S PROVE m + 1 \in S
  <2>1. PICK f : PlaceTable(f, a, glyphs, m)
    BY <1>2
  <2> DEFINE h == [k \in 0..m + 1 |-> IF k = m + 1 THEN PlaceAt(f[m], glyphs[m + 1]) ELSE f[k]]
             r == [k \in 0..m + 1 |-> IF k = 0 THEN a ELSE PlaceAt(h[k - 1], glyphs[k])]
  <2>2. ASSUME NEW k \in 0..m + 1 PROVE h[k] = r[k]
    <3>1. CASE k = m + 1
      <4>1. m \in 0..m + 1 /\ m # m + 1 /\ k # 0 /\ k - 1 = m
        BY <3>1
      <4>2. h[m] = f[m]
        BY <4>1
      <4>3. QED
        BY <3>1, <4>1, <4>2
    <3>2. CASE k # m + 1
      <4>1. k \in 0..m
        BY <3>2
      <4>2. f[k] = IF k = 0 THEN a ELSE PlaceAt(f[k - 1], glyphs[k])
        BY <2>1, <4>1 DEF PlaceTable
      <4>3. k # 0 => k - 1 \in 0..m + 1 /\ k - 1 # m + 1
        BY <4>1
      <4>4. k # 0 => h[k - 1] = f[k - 1]
        BY <4>3
      <4>5. h[k] = f[k]
        BY <3>2
      <4>6. QED
        BY <4>2, <4>4, <4>5
    <3>3. QED
      BY <3>1, <3>2
  <2>3. h = r
    BY <2>2
  <2>4. PlaceTable(h, a, glyphs, m + 1)
    BY <2>3 DEF PlaceTable
  <2>5. QED
    BY <2>4
<1> HIDE DEF S
<1>3. \A k \in 0..n : k \in S
  BY <1>1, <1>2, UpTo
<1>4. n \in S
  BY <1>3
<1>5. QED
  BY <1>4 DEF S

LEMMA PlaceRuns ==
  ASSUME NEW a, NEW glyphs, NEW n \in Nat, n = Len(glyphs)
  PROVE  \E h : PlaceRun(h, a, glyphs, n) /\ PlaceAll(a, glyphs) = h[n]
<1> DEFINE g == CHOOSE f : f = [k \in 0..n |-> IF k = 0 THEN a ELSE PlaceAt(f[k - 1], glyphs[k])]
<1>1. PICK h : h = [k \in 0..n |-> IF k = 0 THEN a ELSE PlaceAt(h[k - 1], glyphs[k])]
  <2>1. \E h : PlaceTable(h, a, glyphs, n)
    BY PlaceTableExists
  <2>2. QED
    BY <2>1 DEF PlaceTable
<1>2. g = [k \in 0..n |-> IF k = 0 THEN a ELSE PlaceAt(g[k - 1], glyphs[k])]
  BY <1>1, Zenon
<1>3. PlaceAll(a, glyphs) = g[n]
  BY Zenon DEF PlaceAll
<1> HIDE DEF g
<1>4. g[0] = a
  BY <1>2
<1>5. ASSUME NEW k \in 1..n PROVE g[k] = PlaceAt(g[k - 1], glyphs[k])
  <2>1. k \in 0..n /\ k # 0
    OBVIOUS
  <2>2. QED
    BY <1>2, <2>1
<1>6. QED
  BY <1>3, <1>4, <1>5 DEF PlaceRun

LEMMA LaidSame ==
  ASSUME NEW c1, NEW c2, NEW start, NEW n \in Nat, NEW h1, NEW h2, LayRun(h1, c1, start, n), LayRun(h2, c2, start, n),
         \A a, k : k \in 1..n => Lay(a, c1, k) = Lay(a, c2, k)
  PROVE  h1[n] = h2[n]
<1> DEFINE S == {k \in Nat : h1[k] = h2[k]}
<1>1. 0 \in S
  BY DEF LayRun
<1>2. ASSUME NEW k \in Nat, k < n, k \in S PROVE k + 1 \in S
  <2>1. k + 1 \in 1..n /\ (k + 1) - 1 = k
    BY <1>2
  <2>2. h1[k + 1] = Lay(h1[k], c1, k + 1) /\ h2[k + 1] = Lay(h2[k], c2, k + 1)
    BY <2>1 DEF LayRun
  <2>3. QED
    BY <1>2, <2>1, <2>2
<1> HIDE DEF S
<1>3. \A k \in 0..n : k \in S
  BY <1>1, <1>2, UpTo
<1>4. n \in 0..n
  OBVIOUS
<1>5. QED
  BY <1>3, <1>4 DEF S

\* A layout goes on with the next instruction.
LEMMA LaidNext ==
  ASSUME NEW code, NEW start
  PROVE  /\ Laid(code, start, 0) = Blank(start)
         /\ \A n \in Nat : Laid(code, start, n + 1) = Lay(Laid(code, start, n), code, n + 1)
<1>1. Laid(code, start, 0) = Blank(start)
  <2>1. 0 \in Nat
    OBVIOUS
  <2>2. PICK h : LayRun(h, code, start, 0) /\ Laid(code, start, 0) = h[0]
    BY <2>1, LayRuns
  <2>3. QED
    BY <2>2 DEF LayRun
<1>2. ASSUME NEW n \in Nat PROVE Laid(code, start, n + 1) = Lay(Laid(code, start, n), code, n + 1)
  <2>1. n + 1 \in Nat /\ n + 1 \in 1..n + 1 /\ (n + 1) - 1 = n /\ \A k \in 1..n : k \in 1..n + 1
    OBVIOUS
  <2>2. PICK h : LayRun(h, code, start, n) /\ Laid(code, start, n) = h[n]
    BY LayRuns
  <2>3. PICK f : LayRun(f, code, start, n + 1) /\ Laid(code, start, n + 1) = f[n + 1]
    BY <2>1, LayRuns
  <2>4. LayRun(f, code, start, n)
    BY <2>1, <2>3 DEF LayRun
  <2>5. h[n] = f[n]
    BY <2>2, <2>4, LaidSame
  <2>6. f[n + 1] = Lay(f[n], code, n + 1)
    BY <2>1, <2>3 DEF LayRun
  <2>7. QED
    BY <2>2, <2>3, <2>5, <2>6
<1>3. QED
  BY <1>1, <1>2

LEMMA LayoutLaid ==
  ASSUME NEW code, NEW start
  PROVE  Layout(code, start) = Laid(code, start, Len(code))
BY Zenon DEF Layout, Laid

LEMMA MeasuredSame ==
  ASSUME NEW c1, NEW c2, NEW b, NEW font, NEW n \in Nat, NEW h1, NEW h2,
         MeasureRun(h1, c1, b, font, n), MeasureRun(h2, c2, b, font, n), \A k \in 1..n : c1[b + k] = c2[b + k]
  PROVE  h1[n] = h2[n]
<1> DEFINE S == {k \in Nat : h1[k] = h2[k]}
<1>1. 0 \in S
  BY DEF MeasureRun
<1>2. ASSUME NEW k \in Nat, k < n, k \in S PROVE k + 1 \in S
  <2>1. k + 1 \in 1..n /\ (k + 1) - 1 = k
    BY <1>2
  <2>2. h1[k + 1] = Measure(h1[k], c1[b + (k + 1)]) /\ h2[k + 1] = Measure(h2[k], c2[b + (k + 1)])
    BY <2>1 DEF MeasureRun
  <2>3. c1[b + (k + 1)] = c2[b + (k + 1)]
    BY <2>1
  <2>4. QED
    BY <1>2, <2>1, <2>2, <2>3
<1> HIDE DEF S
<1>3. \A k \in 0..n : k \in S
  BY <1>1, <1>2, UpTo
<1>4. n \in 0..n
  OBVIOUS
<1>5. QED
  BY <1>3, <1>4 DEF S

\* So does the width of a segment.
LEMMA MeasuredNext ==
  ASSUME NEW code, NEW b, NEW font
  PROVE  /\ Measured(code, b, font, 0) = [w |-> 0, font |-> font, depth |-> 0]
         /\ \A n \in Nat : Measured(code, b, font, n + 1)
                           = Measure(Measured(code, b, font, n), code[b + (n + 1)])
<1>1. Measured(code, b, font, 0) = [w |-> 0, font |-> font, depth |-> 0]
  <2>1. 0 \in Nat
    OBVIOUS
  <2>2. PICK h : MeasureRun(h, code, b, font, 0) /\ Measured(code, b, font, 0) = h[0]
    BY <2>1, MeasureRuns
  <2>3. QED
    BY <2>2 DEF MeasureRun
<1>2. ASSUME NEW n \in Nat
      PROVE  Measured(code, b, font, n + 1) = Measure(Measured(code, b, font, n), code[b + (n + 1)])
  <2>1. n + 1 \in Nat /\ n + 1 \in 1..n + 1 /\ (n + 1) - 1 = n /\ \A k \in 1..n : k \in 1..n + 1
    OBVIOUS
  <2>2. PICK h : MeasureRun(h, code, b, font, n) /\ Measured(code, b, font, n) = h[n]
    BY MeasureRuns
  <2>3. PICK f : MeasureRun(f, code, b, font, n + 1) /\ Measured(code, b, font, n + 1) = f[n + 1]
    BY <2>1, MeasureRuns
  <2>4. MeasureRun(f, code, b, font, n)
    BY <2>1, <2>3 DEF MeasureRun
  <2>5. h[n] = f[n]
    BY <2>2, <2>4, MeasuredSame
  <2>6. f[n + 1] = Measure(f[n], code[b + (n + 1)])
    BY <2>1, <2>3 DEF MeasureRun
  <2>7. QED
    BY <2>2, <2>3, <2>5, <2>6
<1>3. QED
  BY <1>1, <1>2

LEMMA SegmentMeasured ==
  ASSUME NEW code, NEW n, NEW m, NEW font
  PROVE  SegmentWidth(code, n, m, font) = Measured(code, n, font, m - 1 - n).w
BY Zenon DEF SegmentWidth, Measured

\* Instructions that are read later do not change what was measured.
LEMMA MeasuredKeeps ==
  ASSUME NEW c1, NEW c2, NEW b, NEW font, NEW n \in Nat, \A k \in 1..n : c1[b + k] = c2[b + k]
  PROVE  Measured(c1, b, font, n) = Measured(c2, b, font, n)
<1>1. PICK h : MeasureRun(h, c1, b, font, n) /\ Measured(c1, b, font, n) = h[n]
  BY MeasureRuns
<1>2. PICK f : MeasureRun(f, c2, b, font, n) /\ Measured(c2, b, font, n) = f[n]
  BY MeasureRuns
<1>3. QED
  BY <1>1, <1>2, MeasuredSame

(***************************************************************************)
(* Where a segment ends, and that what is read later does not change it.    *)
(***************************************************************************)
Closed(code, n) == \E m \in n + 1..Len(code) : Open(code, m) = Open(code, n - 1)
ClosedUpTo(code, n) == \A x \in 1..n : code[x].op = "breflect" => Closed(code, x)
ClosesAt(code, n, m) ==
  /\ m \in n + 1..Len(code) /\ Open(code, m) = Open(code, n - 1)
  /\ \A k \in n..m - 1 : Open(code, k) # Open(code, n - 1)

LEMMA ClosesOnce ==
  ASSUME NEW code, NEW n \in Nat, Len(code) \in Nat, NEW m, NEW x, ClosesAt(code, n, m), ClosesAt(code, n, x)
  PROVE  m = x
<1>1. m \in Nat /\ x \in Nat /\ m >= n + 1 /\ x >= n + 1
  BY DEF ClosesAt
<1>2. CASE m < x
  <2>1. m \in n..x - 1
    BY <1>1, <1>2
  <2>2. QED
    BY <2>1 DEF ClosesAt
<1>3. CASE x < m
  <2>1. x \in n..m - 1
    BY <1>1, <1>3
  <2>2. QED
    BY <2>1 DEF ClosesAt
<1>4. QED
  BY <1>1, <1>2, <1>3

LEMMA ClosingIs ==
  ASSUME NEW code, NEW n \in Nat, Len(code) \in Nat, NEW m, ClosesAt(code, n, m)
  PROVE  Closing(code, n) = m
<1>1. Closing(code, n) = CHOOSE x \in n + 1..Len(code) :
        /\ Open(code, x) = Open(code, n - 1)
        /\ \A k \in n..x - 1 : Open(code, k) # Open(code, n - 1)
  BY Zenon DEF Closing, Open
<1>2. \E x \in n + 1..Len(code) :
        /\ Open(code, x) = Open(code, n - 1)
        /\ \A k \in n..x - 1 : Open(code, k) # Open(code, n - 1)
  BY DEF ClosesAt
<1>3. ClosesAt(code, n, Closing(code, n))
  BY <1>1, <1>2, Zenon DEF ClosesAt
<1>4. QED
  BY <1>3, ClosesOnce

\* The first place where nothing of the segment is open any more.
LEMMA ClosesFirst ==
  ASSUME NEW code, NEW n \in Nat, Len(code) \in Nat, Closed(code, n), Open(code, n) # Open(code, n - 1)
  PROVE  \E m : ClosesAt(code, n, m)
<1> DEFINE S == {m \in n + 1..Len(code) : Open(code, m) = Open(code, n - 1)}
<1>1. S \in SUBSET Nat /\ S # {}
  BY DEF Closed
<1>2. PICK m \in S : \A x \in S : m <= x
  BY <1>1, NatLeast
<1>3. m \in n + 1..Len(code) /\ Open(code, m) = Open(code, n - 1)
  BY <1>2
<1>4. ASSUME NEW k \in n..m - 1 PROVE Open(code, k) # Open(code, n - 1)
  <2>1. CASE k = n
    BY <2>1
  <2>2. CASE k # n
    <3>1. k \in n + 1..Len(code) /\ ~(m <= k)
      BY <1>3, <2>2
    <3>2. k \notin S
      BY <1>2, <3>1
    <3>3. QED
      BY <3>1, <3>2
  <2>3. QED
    BY <2>1, <2>2
<1>5. QED
  BY <1>3, <1>4 DEF ClosesAt

LEMMA ReflectOpens ==
  ASSUME NEW code \in Seq(Instr), Formed(code), NEW n \in 1..Len(code), code[n].op = "breflect"
  PROVE  Open(code, n) # Open(code, n - 1)
<1>1. Turns(Open(code, n - 1), code[n], Open(code, n))
  BY OpenTurns
<1>2. n - 1 \in 0..Len(code)
  BY LenProperties
<1>3. Open(code, n - 1) \in Opening
  BY <1>2, OpenType
<1>4. Open(code, n) = Append(Open(code, n - 1), "breflect")
  BY <1>1 DEF Turns, Opens, Closes
<1> DEFINE p == Open(code, n - 1)
<1>5. Len(Append(p, "breflect")) = Len(p) + 1 /\ Len(p) \in Nat
  <2>1. p \in Seq(Kinds) /\ "breflect" \in Kinds
    BY <1>3 DEF Opening, Kinds
  <2>2. QED
    BY <2>1, AppendProperties, LenProperties
<1> HIDE DEF p
<1>6. Append(p, "breflect") # p
  BY <1>5
<1>7. QED
  BY <1>4, <1>6 DEF p

\* c is code with more instructions read.
Longer(c, code) ==
  /\ Len(code) \in Nat /\ Len(c) \in Nat /\ Len(c) >= Len(code) /\ \A k \in 1..Len(code) : c[k] = code[k]
  /\ \A k \in 0..Len(code) : Open(c, k) = Open(code, k)

LEMMA AppendLonger ==
  ASSUME NEW code \in Seq(Instr), NEW i \in Instr
  PROVE  Longer(Append(code, i), code)
<1>1. /\ Len(code) \in Nat /\ Len(Append(code, i)) = Len(code) + 1
      /\ \A k \in 1..Len(code) : Append(code, i)[k] = code[k]
  BY AppendProperties, LenProperties
<1>2. \A k \in 0..Len(code) : Open(Append(code, i), k) = Open(code, k)
  BY OpenSame
<1>3. QED
  BY <1>1, <1>2 DEF Longer

LEMMA ClosesKeeps ==
  ASSUME NEW code, NEW c, Longer(c, code), NEW n \in Nat, n >= 1, NEW m, ClosesAt(code, n, m)
  PROVE  ClosesAt(c, n, m)
<1>1. /\ Len(code) \in Nat /\ Len(c) \in Nat /\ Len(c) >= Len(code)
      /\ \A k \in 0..Len(code) : Open(c, k) = Open(code, k)
  BY DEF Longer
<1>2. m \in n + 1..Len(code)
  BY DEF ClosesAt
<1>3. n - 1 \in 0..Len(code) /\ m \in 0..Len(code) /\ m \in n + 1..Len(c) /\ \A k \in n..m - 1 : k \in 0..Len(code)
  BY <1>1, <1>2
<1>4. /\ Open(c, n - 1) = Open(code, n - 1) /\ Open(c, m) = Open(code, m)
      /\ \A k \in n..m - 1 : Open(c, k) = Open(code, k)
  BY <1>1, <1>3
<1>5. QED
  BY <1>3, <1>4 DEF ClosesAt

LEMMA ClosedKeeps ==
  ASSUME NEW code, NEW c, Longer(c, code), NEW n \in 0..Len(code), ClosedUpTo(code, n)
  PROVE  ClosedUpTo(c, n)
<1>1. /\ Len(code) \in Nat /\ Len(c) \in Nat /\ Len(c) >= Len(code) /\ \A k \in 1..Len(code) : c[k] = code[k]
      /\ \A k \in 0..Len(code) : Open(c, k) = Open(code, k)
  BY DEF Longer
<1>2. ASSUME NEW x \in 1..n, c[x].op = "breflect" PROVE Closed(c, x)
  <2>1. x \in 1..Len(code) /\ x - 1 \in 0..Len(code)
    BY <1>1
  <2>2. Closed(code, x)
    BY <1>1, <1>2, <2>1 DEF ClosedUpTo
  <2>3. PICK m \in x + 1..Len(code) : Open(code, m) = Open(code, x - 1)
    BY <2>2 DEF Closed
  <2>4. m \in x + 1..Len(c) /\ m \in 0..Len(code)
    BY <1>1, <2>1
  <2>5. Open(c, m) = Open(c, x - 1)
    BY <1>1, <2>1, <2>3, <2>4
  <2>6. QED
    BY <2>4, <2>5 DEF Closed
<1>3. QED
  BY <1>2 DEF ClosedUpTo

LEMMA LayKeeps ==
  ASSUME NEW code \in Seq(Instr), Formed(code), NEW c, Longer(c, code), NEW n \in 1..Len(code),
         code[n].op = "breflect" => Closed(code, n), NEW a
  PROVE  Lay(a, c, n) = Lay(a, code, n)
<1>1. Len(code) \in Nat /\ Len(c) \in Nat /\ c[n] = code[n] /\ n \in Nat /\ n >= 1
  BY DEF Longer
<1>2. CASE code[n].op = "breflect"
  <2>1. Open(code, n) # Open(code, n - 1)
    BY <1>2, ReflectOpens
  <2>2. PICK m : ClosesAt(code, n, m)
    BY <1>1, <1>2, <2>1, ClosesFirst
  <2>3. Closing(code, n) = m
    BY <1>1, <2>2, ClosingIs
  <2>4. Closing(c, n) = m
    BY <1>1, <2>2, ClosesKeeps, ClosingIs
  <2>5. m \in n + 1..Len(code)
    BY <2>2 DEF ClosesAt
  <2>6. m - 1 - n \in Nat /\ \A k \in 1..m - 1 - n : c[n + k] = code[n + k]
    <3>1. m - 1 - n \in Nat /\ \A k \in 1..m - 1 - n : n + k \in 1..Len(code)
      BY <1>1, <2>5
    <3>2. QED
      BY <3>1 DEF Longer
  <2>7. Measured(c, n, a.font, m - 1 - n) = Measured(code, n, a.font, m - 1 - n)
    BY <2>6, MeasuredKeeps
  <2>8. SegmentWidth(c, n, Closing(c, n), a.font) = SegmentWidth(code, n, Closing(code, n), a.font)
    BY <2>3, <2>4, <2>7, SegmentMeasured
  <2>9. Lay(a, c, n) = Enter(a, SegmentWidth(c, n, Closing(c, n), a.font))
    BY <1>1, <1>2 DEF Lay
  <2>10. Lay(a, code, n) = Enter(a, SegmentWidth(code, n, Closing(code, n), a.font))
    BY <1>2 DEF Lay
  <2>11. QED
    BY <2>8, <2>9, <2>10
<1>3. CASE code[n].op # "breflect"
  BY <1>1, <1>3 DEF Lay
<1>4. QED
  BY <1>2, <1>3

\* What has been laid out stays as it is.
LEMMA LaidKeeps ==
  ASSUME NEW code \in Seq(Instr), Formed(code), NEW c, Longer(c, code), NEW start, NEW n \in 0..Len(code),
         ClosedUpTo(code, n)
  PROVE  Laid(c, start, n) = Laid(code, start, n)
<1>1. Len(code) \in Nat /\ n \in Nat
  BY DEF Longer
<1>2. PICK h : LayRun(h, c, start, n) /\ Laid(c, start, n) = h[n]
  BY <1>1, LayRuns
<1>3. PICK f : LayRun(f, code, start, n) /\ Laid(code, start, n) = f[n]
  BY <1>1, LayRuns
<1>4. ASSUME NEW a, NEW k \in 1..n PROVE Lay(a, c, k) = Lay(a, code, k)
  <2>1. k \in 1..Len(code)
    BY <1>1
  <2>2. code[k].op = "breflect" => Closed(code, k)
    BY DEF ClosedUpTo
  <2>3. QED
    BY <2>1, <2>2, LayKeeps
<1>5. \A a, k : k \in 1..n => Lay(a, c, k) = Lay(a, code, k)
  BY <1>4
<1>6. QED
  BY <1>1, <1>2, <1>3, <1>5, LaidSame

(***************************************************************************)
(* What the instructions do to a layout.                                    *)
(***************************************************************************)
GlyphSeq == Seq(Glyph)
Layouts == [regs : RegSet, font : AnyFont, sign : {1, -1}, stack : Stacks, widths : Widths, set : GlyphSeq]
\* b is a but for the registers.
Shifts(a, b) ==
  /\ b \in Layouts /\ b.font = a.font /\ b.sign = a.sign /\ b.stack = a.stack /\ b.widths = a.widths
  /\ b.set = a.set
\* b is a with one glyph more.
Places(a, b, g) ==
  /\ b \in Layouts /\ b.regs = a.regs /\ b.font = a.font /\ b.sign = a.sign /\ b.stack = a.stack
  /\ b.widths = a.widths /\ b.set = Append(a.set, g)
Mark(a, what) == [font |-> a.font, char |-> what, h |-> a.regs.h, v |-> a.regs.v, d |-> a.regs.d]

LEMMA LayoutFields ==
  ASSUME NEW a \in Layouts
  PROVE  /\ a.regs \in RegSet /\ a.font \in AnyFont /\ a.sign \in {1, -1} /\ a.stack \in Stacks
         /\ a.widths \in Widths /\ a.set \in GlyphSeq
BY DEF Layouts

LEMMA RegsFields ==
  ASSUME NEW r \in RegSet
  PROVE  r.h \in Int /\ r.v \in Int /\ r.w \in Int /\ r.d \in {0, 1, 3}
BY DEF RegSet

LEMMA ShiftRegsIs ==
  ASSUME NEW r \in RegSet, NEW x \in Int
  PROVE  ShiftRegs(r, x) \in RegSet
<1>1. r.h \in Int /\ r.v \in Int /\ r.d \in {0, 1, 3}
  BY RegsFields
<1>2. r.h + x \in Int /\ r.v + x \in Int /\ r.v - x \in Int
  BY <1>1
<1>3. CASE r.d = 0
  <2>1. ShiftRegs(r, x) = [r EXCEPT !.h = r.h + x]
    BY <1>3 DEF ShiftRegs
  <2>2. QED
    BY <1>2, <2>1 DEF RegSet
<1>4. CASE r.d = 1
  <2>1. ShiftRegs(r, x) = [r EXCEPT !.v = r.v + x]
    BY <1>4 DEF ShiftRegs
  <2>2. QED
    BY <1>2, <2>1 DEF RegSet
<1>5. CASE r.d = 3
  <2>1. ShiftRegs(r, x) = [r EXCEPT !.v = r.v - x]
    BY <1>5 DEF ShiftRegs
  <2>2. QED
    BY <1>2, <2>1 DEF RegSet
<1>6. QED
  BY <1>1, <1>3, <1>4, <1>5

LEMMA SinkRegsIs ==
  ASSUME NEW r \in RegSet, NEW y \in Int
  PROVE  SinkRegs(r, y) \in RegSet
<1>1. r.h \in Int /\ r.v \in Int /\ r.d \in {0, 1, 3}
  BY RegsFields
<1>2. r.v + y \in Int /\ r.h - y \in Int /\ r.h + y \in Int
  BY <1>1
<1>3. CASE r.d = 0
  <2>1. SinkRegs(r, y) = [r EXCEPT !.v = r.v + y]
    BY <1>3 DEF SinkRegs
  <2>2. QED
    BY <1>2, <2>1 DEF RegSet
<1>4. CASE r.d = 1
  <2>1. SinkRegs(r, y) = [r EXCEPT !.h = r.h - y]
    BY <1>4 DEF SinkRegs
  <2>2. QED
    BY <1>2, <2>1 DEF RegSet
<1>5. CASE r.d = 3
  <2>1. SinkRegs(r, y) = [r EXCEPT !.h = r.h + y]
    BY <1>5 DEF SinkRegs
  <2>2. QED
    BY <1>2, <2>1 DEF RegSet
<1>6. QED
  BY <1>1, <1>3, <1>4, <1>5

LEMMA RegsSetIs ==
  ASSUME NEW a \in Layouts, NEW r \in RegSet, NEW b, b = [a EXCEPT !.regs = r]
  PROVE  Shifts(a, b) /\ b.regs = r
BY DEF Shifts, Layouts

LEMMA ShiftIs ==
  ASSUME NEW a \in Layouts, NEW x \in Int, NEW b, b = Shift(a, x)
  PROVE  Shifts(a, b) /\ b.regs = ShiftRegs(a.regs, x)
<1>1. b = [a EXCEPT !.regs = ShiftRegs(a.regs, x)]
  BY DEF Shift
<1>2. ShiftRegs(a.regs, x) \in RegSet
  BY LayoutFields, ShiftRegsIs
<1>3. QED
  BY <1>1, <1>2, RegsSetIs

LEMMA SinkIs ==
  ASSUME NEW a \in Layouts, NEW y \in Int, NEW b, b = Sink(a, y)
  PROVE  Shifts(a, b) /\ b.regs = SinkRegs(a.regs, y)
<1>1. b = [a EXCEPT !.regs = SinkRegs(a.regs, y)]
  BY DEF Sink
<1>2. SinkRegs(a.regs, y) \in RegSet
  BY LayoutFields, SinkRegsIs
<1>3. QED
  BY <1>1, <1>2, RegsSetIs

LEMMA PlaceIs ==
  ASSUME NEW a \in Layouts, NEW what \in Char \cup {Rule}, NEW b, b = Place(a, what)
  PROVE  Places(a, b, Mark(a, what))
<1>1. Mark(a, what) \in Glyph
  <2>1. a.regs \in RegSet /\ a.font \in AnyFont
    BY LayoutFields
  <2>2. QED
    BY <2>1, RegsFields DEF Mark, Glyph
<1> DEFINE g == Mark(a, what)
           q == Append(a.set, g)
<1>2. q \in GlyphSeq
  BY <1>1, LayoutFields, AppendProperties DEF GlyphSeq
<1>3. b = [a EXCEPT !.set = q]
  BY DEF Place, Mark
<1> HIDE DEF g, q
<1>4. /\ b \in Layouts /\ b.regs = a.regs /\ b.font = a.font /\ b.sign = a.sign /\ b.stack = a.stack
      /\ b.widths = a.widths /\ b.set = q
  BY <1>2, <1>3 DEF Layouts
<1>5. QED
  BY <1>4 DEF Places, q, g

(***************************************************************************)
(* The part of a stack that belongs to a frame.                             *)
(***************************************************************************)
Cut(p, b, n) == SubSeq(p, b + 1, n)
CutOK(S, p, b, n) == p \in Seq(S) /\ b \in Nat /\ n \in Nat /\ b <= n /\ n <= Len(p) /\ Len(p) \in Nat

LEMMA CutIs ==
  ASSUME NEW S, NEW p, NEW b, NEW n, CutOK(S, p, b, n)
  PROVE  /\ Cut(p, b, n) \in Seq(S) /\ Len(Cut(p, b, n)) = n - b
         /\ \A k \in 1..n - b : Cut(p, b, n)[k] = p[b + k]
<1>1. p \in Seq(S) /\ b \in Nat /\ n \in Nat /\ b <= n /\ n <= Len(p) /\ Len(p) \in Nat
  BY DEF CutOK
<1>2. \A k \in b + 1..n : p[k] \in S
  <2>1. \A k \in b + 1..n : k \in 1..Len(p)
    BY <1>1
  <2>2. QED
    BY <1>1, <2>1, ElementOfSeq
<1>3. b + 1 \in Int /\ n \in Int
  BY <1>1
<1> DEFINE q == SubSeq(p, b + 1, n)
<1>4. /\ q \in Seq(S) /\ Len(q) = IF b + 1 <= n THEN n - (b + 1) + 1 ELSE 0
      /\ \A k \in 1..n - (b + 1) + 1 : q[k] = p[b + 1 + k - 1]
  BY <1>2, <1>3, SubSeqProperties
<1> HIDE DEF q
<1>5. Len(q) = n - b
  BY <1>1, <1>4
<1>6. \A k \in 1..n - b : k \in 1..n - (b + 1) + 1 /\ b + 1 + k - 1 = b + k
  BY <1>1
<1>7. \A k \in 1..n - b : q[k] = p[b + k]
  BY <1>4, <1>6
<1>8. QED
  BY <1>4, <1>5, <1>7 DEF Cut, q

LEMMA CutSame ==
  ASSUME NEW S, NEW p, NEW q, NEW b, NEW n, CutOK(S, p, b, n), CutOK(S, q, b, n),
         \A k \in b + 1..n : q[k] = p[k]
  PROVE  Cut(q, b, n) = Cut(p, b, n)
<1>1. b \in Nat /\ n \in Nat
  BY DEF CutOK
<1>2. \A k \in 1..n - b : q[b + k] = p[b + k]
  <2>1. \A k \in 1..n - b : b + k \in b + 1..n
    BY <1>1
  <2>2. QED
    BY <2>1
<1> DEFINE x == Cut(p, b, n)
           y == Cut(q, b, n)
<1>3. /\ x \in Seq(S) /\ y \in Seq(S) /\ Len(x) = n - b /\ Len(y) = n - b
      /\ \A k \in 1..n - b : x[k] = p[b + k] /\ y[k] = q[b + k]
  BY CutIs
<1> HIDE DEF x, y
<1>4. \A k \in 1..Len(y) : y[k] = x[k]
  BY <1>2, <1>3
<1>5. y = x
  BY <1>3, <1>4, SeqEqual
<1>6. QED
  BY <1>5 DEF x, y

LEMMA CutAppend ==
  ASSUME NEW S, NEW p, NEW b, NEW n, CutOK(S, p, b, n), n = Len(p), NEW e \in S
  PROVE  Cut(Append(p, e), b, n + 1) = Append(Cut(p, b, n), e)
<1>1. p \in Seq(S) /\ b \in Nat /\ n \in Nat /\ b <= n /\ Len(p) = n
  BY DEF CutOK
<1> DEFINE q == Append(p, e)
           x == Cut(p, b, n)
           y == Cut(q, b, n + 1)
           z == Append(x, e)
<1>2. q \in Seq(S) /\ Len(q) = Len(p) + 1 /\ (\A k \in 1..Len(p) : q[k] = p[k]) /\ q[Len(p) + 1] = e
  BY <1>1, AppendProperties
<1>3. x \in Seq(S) /\ Len(x) = n - b /\ \A k \in 1..n - b : x[k] = p[b + k]
  BY CutIs
<1>4. z \in Seq(S) /\ Len(z) = Len(x) + 1 /\ (\A k \in 1..Len(x) : z[k] = x[k]) /\ z[Len(x) + 1] = e
  BY <1>3, AppendProperties
<1> HIDE DEF x, z, q
<1>5. CutOK(S, q, b, n + 1)
  BY <1>1, <1>2 DEF CutOK
<1>6. y \in Seq(S) /\ Len(y) = (n + 1) - b /\ \A k \in 1..(n + 1) - b : y[k] = q[b + k]
  BY <1>5, CutIs
<1> HIDE DEF y
<1>7. Len(y) = Len(z)
  BY <1>1, <1>3, <1>4, <1>6
<1>8. ASSUME NEW k \in 1..Len(y) PROVE y[k] = z[k]
  <2>1. k \in 1..(n + 1) - b /\ y[k] = q[b + k]
    BY <1>1, <1>6
  <2>2. CASE k = (n + 1) - b
    <3>1. b + k = Len(p) + 1 /\ k = Len(x) + 1
      BY <1>1, <1>3, <2>2
    <3>2. QED
      BY <1>2, <1>4, <2>1, <3>1
  <2>3. CASE k # (n + 1) - b
    <3>1. n \in Nat /\ b \in Nat /\ b <= n /\ k \in 1..(n + 1) - b /\ k # (n + 1) - b
      BY <1>1, <2>1, <2>3
    <3>2. b + k \in 1..n /\ k \in 1..n - b
      BY <3>1
    <3>3. b + k \in 1..Len(p) /\ k \in 1..Len(x)
      BY <1>1, <1>3, <3>2
    <3>4. QED
      BY <1>2, <1>3, <1>4, <2>1, <3>2, <3>3
  <2>4. QED
    BY <2>2, <2>3
<1>9. y = z
  BY <1>4, <1>6, <1>7, <1>8, SeqEqual
<1>10. QED
  BY <1>9 DEF x, y, z, q

LEMMA CutFront ==
  ASSUME NEW S, NEW p, NEW b, NEW n, CutOK(S, p, b, n), n = Len(p), b < n
  PROVE  /\ Cut(p, b, n) # << >> /\ Last(Cut(p, b, n)) = Last(p)
         /\ Front(Cut(p, b, n)) = Cut(Front(p), b, n - 1)
         /\ CutOK(S, Front(p), b, n - 1)
<1>1. p \in Seq(S) /\ b \in Nat /\ n \in Nat /\ b <= n /\ Len(p) = n
  BY DEF CutOK
<1> DEFINE q == Front(p)
           x == Cut(p, b, n)
           y == Cut(q, b, n - 1)
           z == Front(x)
<1>2. p # << >>
  BY <1>1, EmptySeq
<1>3. q \in Seq(S) /\ Len(q) = n - 1 /\ (\A k \in 1..n - 1 : q[k] = p[k]) /\ Last(p) = p[n]
  BY <1>1, <1>2, FrontLast
<1>4. x \in Seq(S) /\ Len(x) = n - b /\ \A k \in 1..n - b : x[k] = p[b + k]
  BY CutIs
<1> HIDE DEF x, q
<1>5. x # << >>
  BY <1>1, <1>4, EmptySeq
<1>6. z \in Seq(S) /\ Len(z) = n - b - 1 /\ (\A k \in 1..n - b - 1 : z[k] = x[k]) /\ Last(x) = x[n - b]
  BY <1>4, <1>5, FrontLast
<1> HIDE DEF z
<1>7. CutOK(S, q, b, n - 1)
  BY <1>1, <1>3 DEF CutOK
<1>8. y \in Seq(S) /\ Len(y) = n - 1 - b /\ \A k \in 1..n - 1 - b : y[k] = q[b + k]
  BY <1>7, CutIs
<1> HIDE DEF y
<1>9. Len(y) = Len(z)
  BY <1>1, <1>6, <1>8
<1>10. ASSUME NEW k \in 1..Len(y) PROVE y[k] = z[k]
  <2>1. k \in 1..n - 1 - b /\ b + k \in 1..n - 1 /\ k \in 1..n - b - 1 /\ k \in 1..n - b
    BY <1>1, <1>8
  <2>2. QED
    BY <1>3, <1>4, <1>6, <1>8, <2>1
<1>11. z = y
  BY <1>6, <1>8, <1>9, <1>10, SeqEqual
<1>12. Last(x) = Last(p)
  <2>1. n - b \in 1..n - b /\ b + (n - b) = n
    BY <1>1
  <2>2. QED
    BY <1>3, <1>4, <1>6, <2>1
<1>13. QED
  BY <1>5, <1>7, <1>11, <1>12 DEF x, y, z, q

(***************************************************************************)
(* A layout that the interpreter shows while it typesets.                   *)
(***************************************************************************)
Sign(mode) == 1 - 2 * mode
Signed(d, x) == IF d.lr.mode = Right THEN -x ELSE x
Here(d) == Cut(d.stack, Base(d, Len(d.frames)), Len(d.stack))
Views(d, a) ==
  /\ a \in Layouts /\ a.regs = Regs(d) /\ a.font = d.font /\ a.sign = Sign(d.lr.mode)
  /\ a.stack = Here(d) /\ a.widths = d.lr.widths /\ a.set = d.frames[Len(d.frames)].set
\* d is typesetting.
Sets(d) == d \in State /\ d.frames # << >> /\ d.lr.mode \in Mode

LEMMA SetsIs ==
  ASSUME NEW d, Sets(d)
  PROVE  d \in State /\ d.frames # << >> /\ d.lr.mode \in Mode /\ ~Skims(d) /\ d.lr.mode \in {0, 1}
BY DEF Sets, Mode, Left, Right, Skims, Skimming

LEMMA SignIs ==
  ASSUME NEW mode \in {0, 1}, NEW x \in Int
  PROVE  /\ Sign(mode) \in {1, -1} /\ Sign(mode) * x = IF mode = Right THEN -x ELSE x
         /\ (Sign(mode) = 1 <=> mode = Left) /\ Sign(Opposite(mode)) = -Sign(mode)
         /\ -Sign(mode) * x = IF mode = Right THEN x ELSE -x
<1>1. CASE mode = 0
  BY <1>1 DEF Sign, Right, Left, Opposite
<1>2. CASE mode = 1
  <2>1. Sign(mode) = -1 /\ Opposite(mode) = 0 /\ Sign(0) = 1
    BY <1>2 DEF Sign, Right, Left, Opposite
  <2>2. (-1) * x = -x
    OBVIOUS
  <2>4. -((-1) * x) = x
    BY <2>2
  <2>5. Sign(0) = -Sign(mode)
    <3>1. \A y \in Int : y + 1 = 0 => 1 = -y
      OBVIOUS
    <3>2. Sign(mode) \in Int /\ Sign(mode) + 1 = 0
      BY <2>1
    <3>3. 1 = -Sign(mode)
      BY <3>1, <3>2
    <3>4. QED
      BY <2>1, <3>3
  <2>3. QED
    BY <1>2, <2>1, <2>2, <2>4, <2>5 DEF Right, Left
<1>3. QED
  BY <1>1, <1>2

LEMMA HereSame ==
  ASSUME NEW d, NEW e, Len(e.frames) = Len(d.frames), e.stack = d.stack,
         e.frames[Len(d.frames)].below = d.frames[Len(d.frames)].below
  PROVE  Here(e) = Here(d)
BY DEF Here, Base

LEMMA HereCodes ==
  ASSUME NEW d \in State, d.frames # << >>, NEW e, Codes(d, e), e.stack = d.stack
  PROVE  Here(e) = Here(d) /\ Len(e.frames) = Len(d.frames)
<1>1. Len(d.frames) \in Nat /\ Len(d.frames) >= 1 /\ Len(d.frames) \in 1..Len(d.frames)
  BY FramesLen
<1>2. e.frames[Len(d.frames)].below = d.frames[Len(d.frames)].below /\ Len(e.frames) = Len(d.frames)
  BY <1>1 DEF Codes, SameFrame
<1>3. QED
  BY <1>2, HereSame

LEMMA ViewMoves ==
  ASSUME NEW d, NEW a, Views(d, a), NEW e, Moves(d, e), NEW b, Shifts(a, b), b.regs = Regs(e)
  PROVE  Views(e, b)
<1>1. Here(e) = Here(d)
  BY HereSame DEF Moves
<1>2. QED
  BY <1>1 DEF Views, Moves, SameTurns, Shifts

LEMMA ViewRight ==
  ASSUME NEW d, Sets(d), NEW a, Views(d, a), NEW x \in Int
  PROVE  /\ Sets(MoveRight(d, x)) /\ Views(MoveRight(d, x), Shift(a, Signed(d, x)))
         /\ MoveRight(d, x).lr = d.lr /\ MoveRight(d, x).font = d.font
<1> DEFINE e == MoveRight(d, x)
           b == Shift(a, Signed(d, x))
<1>1. d \in State /\ ~Skims(d)
  BY SetsIs
<1>2. e \in State /\ Moves(d, e) /\ Regs(e) = ShiftRegs(Regs(d), Signed(d, x)) /\ e.lr = d.lr
  BY <1>1, MoveRightIs, RightRegs DEF Signed
<1>3. Signed(d, x) \in Int
  BY DEF Signed
<1>4. Shifts(a, b) /\ b.regs = ShiftRegs(a.regs, Signed(d, x))
  BY <1>3, ShiftIs DEF Views
<1> HIDE DEF e, b
<1>5. Views(e, b)
  BY <1>2, <1>4, ViewMoves DEF Views
<1>6. Sets(e) /\ e.font = d.font
  BY <1>2 DEF Sets, Moves
<1>7. QED
  BY <1>2, <1>5, <1>6 DEF e, b

LEMMA DownRegs ==
  ASSUME NEW d \in State, NEW y \in Int, ~Skims(d), NEW e, e = MoveDown(d, y)
  PROVE  Regs(e) = SinkRegs(Regs(d), y)
<1>1. d.h \in Int /\ d.v \in Int /\ d.d \in {0, 1, 3}
  BY StateFields DEF Direction
<1>2. CASE d.d = 0
  <2>1. e = [d EXCEPT !.v = d.v + y]
    BY <1>2 DEF MoveDown
  <2>2. e.v = d.v + y /\ e.h = d.h /\ e.w = d.w /\ e.d = d.d
    BY <2>1 DEF State
  <2>3. QED
    BY <1>1, <1>2, <2>2 DEF Regs, SinkRegs
<1>3. CASE d.d = 1
  <2>1. e = [d EXCEPT !.h = d.h - y]
    BY <1>3 DEF MoveDown
  <2>2. e.h = d.h - y /\ e.v = d.v /\ e.w = d.w /\ e.d = d.d
    BY <2>1 DEF State
  <2>3. QED
    BY <1>1, <1>3, <2>2 DEF Regs, SinkRegs
<1>4. CASE d.d = 3
  <2>1. e = [d EXCEPT !.h = d.h + y]
    BY <1>4 DEF MoveDown
  <2>2. e.h = d.h + y /\ e.v = d.v /\ e.w = d.w /\ e.d = d.d
    BY <2>1 DEF State
  <2>3. QED
    BY <1>1, <1>4, <2>2 DEF Regs, SinkRegs
<1>5. QED
  BY <1>1, <1>2, <1>3, <1>4

LEMMA ViewDown ==
  ASSUME NEW d, Sets(d), NEW a, Views(d, a), NEW y \in Int
  PROVE  Views(MoveDown(d, y), Sink(a, y))
<1> DEFINE e == MoveDown(d, y)
           b == Sink(a, y)
<1>1. d \in State /\ ~Skims(d)
  BY SetsIs
<1>2. e \in State /\ Moves(d, e) /\ Regs(e) = SinkRegs(Regs(d), y)
  BY <1>1, MoveDownIs, DownRegs
<1>3. Shifts(a, b) /\ b.regs = SinkRegs(a.regs, y)
  BY SinkIs DEF Views
<1> HIDE DEF e, b
<1>4. Views(e, b)
  BY <1>2, <1>3, ViewMoves DEF Views
<1>5. QED
  BY <1>4 DEF e, b

LEMMA ViewW ==
  ASSUME NEW d, Sets(d), NEW a, Views(d, a), NEW x \in Int
  PROVE  Views(MoveW(d, x), Shift([a EXCEPT !.regs.w = x], Signed(d, x)))
<1> DEFINE f == [d EXCEPT !.w = x]
           r == [a.regs EXCEPT !.w = x]
           b == [a EXCEPT !.regs = r]
<1>1. d \in State /\ ~Skims(d) /\ a \in Layouts /\ a.regs \in RegSet
  BY SetsIs, LayoutFields DEF Views
<1>2. f \in State /\ Moves(d, f) /\ f.w = x /\ f.h = d.h /\ f.v = d.v /\ f.d = d.d /\ f.lr = d.lr
  BY <1>1 DEF State, Moves, SamePage, SameLinks, SameTurns
<1>3. r \in RegSet /\ r.h = a.regs.h /\ r.v = a.regs.v /\ r.d = a.regs.d /\ r.w = x
  BY <1>1 DEF RegSet
<1>4. r = Regs(f)
  <2>1. r = [a.regs EXCEPT !.w = x] /\ a.regs = Regs(d)
    BY DEF Views
  <2> HIDE DEF r, f
  <2>2. QED
    BY <1>2, <2>1 DEF Regs
<1>5. b = [a EXCEPT !.regs.w = x]
  OBVIOUS
<1>6. MoveW(d, x) = MoveRight(f, x)
  BY DEF MoveW
<1> HIDE DEF f, r
<1>7. Shifts(a, b) /\ b.regs = r
  BY <1>1, <1>3, RegsSetIs
<1> HIDE DEF b
<1>8. Views(f, b)
  BY <1>2, <1>4, <1>7, ViewMoves
<1>9. Sets(f) /\ Signed(f, x) = Signed(d, x)
  BY <1>2 DEF Sets, Signed, Moves
<1>10. Views(MoveRight(f, x), Shift(b, Signed(d, x)))
  BY <1>8, <1>9, ViewRight
<1>11. QED
  BY <1>5, <1>6, <1>10

LEMMA ViewDir ==
  ASSUME NEW d, Sets(d), NEW a, Views(d, a), NEW x \in {0, 1, 3}
  PROVE  Views(SetDir(d, x), [a EXCEPT !.regs.d = x])
<1> DEFINE f == SetDir(d, x)
           r == [a.regs EXCEPT !.d = x]
           b == [a EXCEPT !.regs = r]
<1>1. d \in State /\ ~Skims(d) /\ a \in Layouts /\ a.regs \in RegSet /\ x \in Direction
  BY SetsIs, LayoutFields DEF Views, Direction
<1>2. f \in State /\ Moves(d, f)
  BY <1>1, SetDirIs
<1>3. f.w = d.w /\ f.h = d.h /\ f.v = d.v /\ f.d = x
  BY <1>1 DEF State, SetDir
<1>4. r \in RegSet /\ r.h = a.regs.h /\ r.v = a.regs.v /\ r.d = x /\ r.w = a.regs.w
  BY <1>1 DEF RegSet
<1>5. r = Regs(f)
  <2>1. r = [a.regs EXCEPT !.d = x] /\ a.regs = Regs(d)
    BY DEF Views
  <2> HIDE DEF r, f
  <2>2. QED
    BY <1>3, <2>1 DEF Regs
<1>6. b = [a EXCEPT !.regs.d = x]
  OBVIOUS
<1> HIDE DEF f, r
<1>7. Shifts(a, b) /\ b.regs = r
  BY <1>1, <1>4, RegsSetIs
<1> HIDE DEF b
<1>8. Views(f, b)
  BY <1>2, <1>5, <1>7, ViewMoves
<1>9. QED
  BY <1>6, <1>8 DEF f

\* What typesetting leaves alone.
Rests(d, e) ==
  /\ Codes(d, e) /\ \A j \in 1..Len(d.frames) - 1 : e.frames[j] = d.frames[j]
  /\ e.stack = d.stack /\ e.saved = d.saved /\ e.status = d.status /\ e.lr = d.lr /\ e.font = d.font
Lays(d, e, b) == Sets(e) /\ Views(e, b) /\ Rests(d, e)

LEMMA RestsMore ==
  ASSUME NEW d \in State, NEW e, NEW f, Rests(d, e), Rests(e, f)
  PROVE  Rests(d, f)
<1> DEFINE n == Len(d.frames)
<1>1. n = Len(e.frames) /\ Len(f.frames) = n /\ n \in Nat
  BY FramesLen DEF Rests, Codes
<1> HIDE DEF n
<1>2. \A j \in 1..n : SameFrame(d.frames[j], e.frames[j]) /\ SameFrame(e.frames[j], f.frames[j])
  BY <1>1 DEF Rests, Codes, n
<1>3. \A j \in 1..n : SameFrame(d.frames[j], f.frames[j])
  BY <1>2 DEF SameFrame
<1>4. \A j \in 1..n - 1 : e.frames[j] = d.frames[j] /\ f.frames[j] = e.frames[j]
  BY <1>1 DEF Rests, n
<1>5. \A j \in 1..n - 1 : f.frames[j] = d.frames[j]
  BY <1>4
<1>6. e.stack = d.stack /\ e.saved = d.saved /\ e.status = d.status /\ e.lr = d.lr /\ e.font = d.font
  BY DEF Rests
<1>7. f.stack = d.stack /\ f.saved = d.saved /\ f.status = d.status /\ f.lr = d.lr /\ f.font = d.font
  BY <1>6 DEF Rests
<1>8. QED
  BY <1>1, <1>3, <1>5, <1>7 DEF Rests, Codes, n

LEMMA MovesRests ==
  ASSUME NEW d, NEW e, Moves(d, e), e.lr = d.lr
  PROVE  Rests(d, e)
BY DEF Moves, Rests, Codes, SameFrame

LEMMA LogsRests ==
  ASSUME NEW d, NEW e, NEW g, Stays(d, e), Logs(d, e, g)
  PROVE  Rests(d, e)
BY DEF Stays, Logs, Rests

LEMMA LaysMore ==
  ASSUME NEW d, Sets(d), NEW e, NEW b, Lays(d, e, b), NEW f, NEW c, Lays(e, f, c)
  PROVE  Lays(d, f, c)
BY RestsMore DEF Lays, Sets

LEMMA LaysRight ==
  ASSUME NEW d, Sets(d), NEW a, Views(d, a), NEW x \in Int
  PROVE  Lays(d, MoveRight(d, x), Shift(a, Signed(d, x)))
<1>1. Moves(d, MoveRight(d, x))
  BY MoveRightIs DEF Sets
<1>2. QED
  BY <1>1, ViewRight, MovesRests DEF Lays

LEMMA ViewLogs ==
  ASSUME NEW d \in State, d.frames # << >>, NEW a, Views(d, a), NEW c, NEW e, Stays(d, e),
         Logs(d, e, GlyphAt(d, c)), NEW b, Places(a, b, Mark(a, c))
  PROVE  Views(e, b)
<1>1. Codes(d, e) /\ e.stack = d.stack /\ e.font = d.font /\ e.lr = d.lr
      /\ e.frames[Len(d.frames)].set = Append(d.frames[Len(d.frames)].set, GlyphAt(d, c))
  BY DEF Logs, Stays
<1>2. Here(e) = Here(d) /\ Len(e.frames) = Len(d.frames)
  BY <1>1, HereCodes
<1>3. Regs(e) = Regs(d)
  BY DEF Regs, Stays, SamePlace
<1>4. Mark(a, c) = GlyphAt(d, c)
  <2>1. a.regs = Regs(d) /\ a.font = d.font
    BY DEF Views
  <2>2. a.regs.h = d.h /\ a.regs.v = d.v /\ a.regs.d = d.d
    BY <2>1 DEF Regs
  <2>3. QED
    BY <2>1, <2>2 DEF Mark, GlyphAt
<1>5. QED
  BY <1>1, <1>2, <1>3, <1>4 DEF Views, Places

LEMMA ViewLog ==
  ASSUME NEW d, Sets(d), NEW a, Views(d, a), NEW c \in Char \cup {Rule}
  PROVE  Lays(d, Log(d, c), Place(a, c))
<1> DEFINE e == Log(d, c)
           b == Place(a, c)
<1>1. d \in State /\ d.frames # << >> /\ a \in Layouts /\ d.lr.mode \in Mode
  BY DEF Sets, Views
<1>2. e \in State /\ Stays(d, e) /\ Logs(d, e, GlyphAt(d, c))
  BY <1>1, LogIs
<1>3. Places(a, b, Mark(a, c))
  BY <1>1, PlaceIs
<1> HIDE DEF e, b
<1>4. Views(e, b)
  BY <1>1, <1>2, <1>3, ViewLogs
<1>5. e.frames # << >>
  <2>1. Len(d.frames) >= 1 /\ Len(e.frames) = Len(d.frames)
    BY <1>1, <1>2, FramesLen DEF Logs, Codes
  <2>2. QED
    BY <1>2, <2>1, FramesLen
<1>6. Rests(d, e) /\ e.lr = d.lr
  BY <1>2, LogsRests DEF Rests
<1>7. QED
  BY <1>1, <1>2, <1>4, <1>5, <1>6 DEF Sets, Lays, e, b

LEMMA ViewTypeset ==
  ASSUME NEW d, Sets(d), NEW a, Views(d, a), NEW c \in Char
  PROVE  Lays(d, Typeset(d, c), Place(a, c))
<1> DEFINE e == Typeset(d, c)
           b == Place(a, c)
<1>1. d \in State /\ d.frames # << >> /\ a \in Layouts /\ d.lr.mode \in Mode
  BY DEF Sets, Views
<1>2. e \in State /\ Stays(d, e) /\ Logs(d, e, GlyphAt(d, c))
  BY <1>1, TypesetIs DEF Shows
<1>3. Places(a, b, Mark(a, c))
  BY <1>1, PlaceIs
<1> HIDE DEF e, b
<1>4. Views(e, b)
  BY <1>1, <1>2, <1>3, ViewLogs
<1>5. e.frames # << >>
  <2>1. Len(d.frames) >= 1 /\ Len(e.frames) = Len(d.frames)
    BY <1>1, <1>2, FramesLen DEF Logs, Codes
  <2>2. QED
    BY <1>2, <2>1, FramesLen
<1>6. Rests(d, e) /\ e.lr = d.lr
  BY <1>2, LogsRests DEF Rests
<1>7. QED
  BY <1>1, <1>2, <1>4, <1>5, <1>6 DEF Sets, Lays, e, b

\* A glyph of a run stands at its place, and leaves no trace in the registers.
LEMMA PlaceAtIs ==
  ASSUME NEW a \in Layouts, NEW g, g.x \in Int, g.char \in Char, NEW b, b = PlaceAt(a, g)
  PROVE  Places(a, b, [font |-> a.font, char |-> g.char, h |-> a.regs.h + g.x, v |-> a.regs.v,
                       d |-> a.regs.d])
<1> DEFINE r == [a.regs EXCEPT !.h = @ + g.x]
           m == [a EXCEPT !.regs = r]
           p == Place(m, g.char)
<1>1. a.regs \in RegSet
  BY LayoutFields
<1>2. a.regs.h \in Int /\ a.regs.h + g.x \in Int
  BY <1>1, RegsFields
<1>3. r \in RegSet /\ r.h = a.regs.h + g.x /\ r.v = a.regs.v /\ r.d = a.regs.d
  BY <1>1, <1>2 DEF RegSet
<1>4. m = [a EXCEPT !.regs.h = @ + g.x]
  OBVIOUS
<1> HIDE DEF r
<1>5. Shifts(a, m) /\ m.regs = r
  BY <1>3, RegsSetIs
<1> HIDE DEF m
<1>6. Places(m, p, Mark(m, g.char)) /\ m \in Layouts
  BY <1>5, PlaceIs DEF Shifts
<1>7. b = [p EXCEPT !.regs = a.regs]
  BY <1>4 DEF PlaceAt, p
<1> HIDE DEF p
<1>8. Shifts(p, b) /\ b.regs = a.regs
  BY <1>1, <1>6, <1>7, RegsSetIs DEF Places
<1>9. Mark(m, g.char) = [font |-> a.font, char |-> g.char, h |-> a.regs.h + g.x, v |-> a.regs.v,
                         d |-> a.regs.d]
  BY <1>3, <1>5 DEF Mark, Shifts
<1>10. QED
  BY <1>5, <1>6, <1>8, <1>9 DEF Places, Shifts

LEMMA ViewTypesetAt ==
  ASSUME NEW d, Sets(d), NEW a, Views(d, a), NEW g, g.x \in Int, g.char \in Char
  PROVE  Lays(d, TypesetAt(d, g), PlaceAt(a, g))
<1> DEFINE e == TypesetAt(d, g)
           b == PlaceAt(a, g)
           n == Len(d.frames)
           x == [font |-> a.font, char |-> g.char, h |-> a.regs.h + g.x, v |-> a.regs.v, d |-> a.regs.d]
<1>1. d \in State /\ d.frames # << >> /\ a \in Layouts /\ d.lr.mode \in Mode
  BY DEF Sets, Views
<1>2. e \in State /\ Draws(d, e) /\ e.frames # << >>
  BY <1>1, TypesetAtIs
<1>3. PICK m \in State, r \in State : AtPlace(d, m, r, e, g.x, g.char)
  BY <1>1, TypesetAtIs
<1>4. Places(a, b, x)
  BY <1>1, PlaceAtIs
<1> HIDE DEF e, b
<1>5. e.frames[n].set = Append(d.frames[n].set, GlyphAt(m, g.char))
  BY <1>3 DEF AtPlace, Shows, Logs
<1>6. GlyphAt(m, g.char) = x
  <2>1. a.regs = Regs(d) /\ a.font = d.font
    BY DEF Views
  <2>2. a.regs.h = d.h /\ a.regs.v = d.v /\ a.regs.d = d.d
    BY <2>1 DEF Regs
  <2>3. m.h = d.h + g.x /\ m.v = d.v /\ m.d = d.d /\ m.font = d.font
    BY <1>3 DEF AtPlace
  <2>4. QED
    BY <2>1, <2>2, <2>3 DEF GlyphAt
<1> HIDE DEF x
<1>7. /\ Codes(d, e) /\ e.stack = d.stack /\ e.font = d.font /\ e.lr = d.lr /\ Regs(e) = Regs(d)
  BY <1>2 DEF Draws, Stays, Regs, SamePlace
<1>8. Here(e) = Here(d) /\ Len(e.frames) = Len(d.frames)
  BY <1>1, <1>7, HereCodes
<1>9. Views(e, b)
  BY <1>4, <1>5, <1>6, <1>7, <1>8 DEF Views, Places
<1>10. Sets(e)
  BY <1>1, <1>2, <1>7 DEF Sets
<1>11. Rests(d, e)
  <2>1. Logs(m, r, GlyphAt(m, g.char)) /\ e.frames = r.frames /\ m.frames = d.frames
    BY <1>3 DEF AtPlace, Shows
  <2>2. \A j \in 1..n - 1 : e.frames[j] = d.frames[j]
    BY <2>1 DEF Logs
  <2>3. e.saved = d.saved /\ e.status = d.status
    BY <1>2 DEF Draws, Stays
  <2>4. QED
    BY <1>7, <2>2, <2>3 DEF Rests
<1>12. QED
  BY <1>9, <1>10, <1>11 DEF e, b, Lays

LEMMA ViewTypesetAll ==
  ASSUME NEW d, Sets(d), NEW a, Views(d, a), NEW glyphs \in GlyphRun
  PROVE  Lays(d, TypesetAll(d, glyphs), PlaceAll(a, glyphs))
<1> DEFINE n == Len(glyphs)
<1>1. n \in Nat /\ \A k \in 1..n : glyphs[k].x \in Int /\ glyphs[k].char \in Char
  <2>1. n \in Nat /\ \A k \in 1..n : glyphs[k] \in [x : Int, char : Char]
    BY LenProperties, ElementOfSeq DEF GlyphRun
  <2>2. QED
    BY <2>1
<1>2. PICK h : AllRun(h, d, glyphs, n) /\ TypesetAll(d, glyphs) = h[n]
  BY <1>1, AllRuns
<1>3. PICK f : PlaceRun(f, a, glyphs, n) /\ PlaceAll(a, glyphs) = f[n]
  BY <1>1, PlaceRuns
<1>4. f[0] = a /\ \A k \in 1..n : f[k] = PlaceAt(f[k - 1], glyphs[k])
  BY <1>3 DEF PlaceRun
<1> HIDE DEF n
<1> DEFINE T == {k \in Nat : k <= n => Lays(d, h[k], f[k])}
<1>5. 0 \in T
  <2>1. h[0] = d /\ f[0] = a
    BY <1>2, <1>4 DEF AllRun
  <2>2. Rests(d, d)
    BY DEF Rests, Codes, SameFrame
  <2>3. QED
    BY <2>1, <2>2 DEF Lays
<1>6. ASSUME NEW k \in Nat, k < n, k \in T PROVE k + 1 \in T
  <2>1. k + 1 \in 1..n /\ (k + 1) - 1 = k /\ k <= n
    BY <1>1, <1>6
  <2>2. h[k + 1] = TypesetAt(h[k], glyphs[k + 1]) /\ f[k + 1] = PlaceAt(f[k], glyphs[k + 1])
    BY <1>2, <1>4, <2>1 DEF AllRun
  <2>3. Lays(d, h[k], f[k])
    BY <1>6, <2>1
  <2> DEFINE p == h[k]
             u == f[k]
             g == glyphs[k + 1]
  <2>4. g.x \in Int /\ g.char \in Char
    BY <1>1, <2>1
  <2>5. h[k + 1] = TypesetAt(p, g) /\ f[k + 1] = PlaceAt(u, g) /\ Lays(d, p, u)
    BY <2>2, <2>3
  <2> HIDE DEF p, u, g
  <2>6. Lays(p, TypesetAt(p, g), PlaceAt(u, g))
    BY <2>4, <2>5, ViewTypesetAt DEF Lays
  <2>7. Lays(d, h[k + 1], f[k + 1])
    BY <2>5, <2>6, LaysMore
  <2>8. QED
    BY <2>7
<1> HIDE DEF T
<1>7. \A k \in 0..n : k \in T
  BY <1>1, <1>5, <1>6, UpTo
<1>8. n \in T
  BY <1>1, <1>7
<1>9. QED
  BY <1>1, <1>2, <1>3, <1>8 DEF T

(***************************************************************************)
(* What typesets: characters, runs of glyphs and rules.                    *)
(***************************************************************************)
\* A box: the move comes after what stands in it, or before when reflected.
LEMMA ViewSet ==
  ASSUME NEW d, Sets(d), NEW a, Views(d, a), NEW c \in Char, NEW w \in Int,
         NEW r, r = IF d.lr.mode = Right THEN MoveRight(d, w) ELSE d
  PROVE  Lays(d, AfterSet(Typeset(r, c), w), Box(a, c, w))
<1> DEFINE t == Typeset(r, c)
<1>1. d.lr.mode \in {0, 1} /\ a.sign = Sign(d.lr.mode) /\ -w \in Int
  BY SetsIs DEF Views
<1>2. CASE d.lr.mode = 0
  <2>1. r = d /\ d.lr.mode = Left /\ a.sign = 1
    BY <1>1, <1>2 DEF Left, Right, Sign
  <2>2. Lays(d, t, Place(a, c))
    BY <2>1, ViewTypeset
  <2>3. AfterSet(t, w) = MoveRight(t, w) /\ Signed(t, w) = w
    <3>1. t.lr = d.lr
      BY <2>2 DEF Lays, Rests
    <3>2. QED
      BY <2>1, <3>1 DEF AfterSet, Signed, Left, Right
  <2> HIDE DEF t
  <2>4. Lays(t, MoveRight(t, w), Shift(Place(a, c), w))
    BY <2>2, <2>3, LaysRight DEF Lays
  <2>5. Box(a, c, w) = Shift(Place(a, c), w)
    BY <2>1 DEF Box
  <2>6. QED
    BY <2>2, <2>3, <2>4, <2>5, LaysMore DEF t
<1>3. CASE d.lr.mode = 1
  <2>1. r = MoveRight(d, w) /\ d.lr.mode # Left /\ a.sign # 1 /\ Signed(d, w) = -w
    BY <1>1, <1>3 DEF Left, Right, Sign, Signed
  <2>2. Lays(d, r, Shift(a, -w))
    BY <2>1, LaysRight
  <2>3. Lays(r, t, Place(Shift(a, -w), c))
    BY <2>2, ViewTypeset DEF Lays
  <2>4. Lays(d, t, Place(Shift(a, -w), c))
    BY <2>2, <2>3, LaysMore
  <2> HIDE DEF t
  <2>5. AfterSet(t, w) = t
    BY <2>1, <2>4 DEF AfterSet, Lays, Rests
  <2>6. Box(a, c, w) = Place(Shift(a, -w), c)
    BY <2>1 DEF Box
  <2>7. QED
    BY <2>4, <2>5, <2>6 DEF t
<1>4. QED
  BY <1>1, <1>2, <1>3

LEMMA ViewGlyphs ==
  ASSUME NEW d, Sets(d), NEW a, Views(d, a), NEW glyphs \in GlyphRun, NEW w \in Int,
         NEW r, r = IF d.lr.mode = Right THEN MoveRight(d, w) ELSE d
  PROVE  Lays(d, AfterSet(TypesetAll(r, glyphs), w), Run(a, glyphs, w))
<1> DEFINE t == TypesetAll(r, glyphs)
<1>1. d.lr.mode \in {0, 1} /\ a.sign = Sign(d.lr.mode) /\ -w \in Int
  BY SetsIs DEF Views
<1>2. CASE d.lr.mode = 0
  <2>1. r = d /\ d.lr.mode = Left /\ a.sign = 1
    BY <1>1, <1>2 DEF Left, Right, Sign
  <2>2. Lays(d, t, PlaceAll(a, glyphs))
    BY <2>1, ViewTypesetAll
  <2>3. AfterSet(t, w) = MoveRight(t, w) /\ Signed(t, w) = w
    <3>1. t.lr = d.lr
      BY <2>2 DEF Lays, Rests
    <3>2. QED
      BY <2>1, <3>1 DEF AfterSet, Signed, Left, Right
  <2> HIDE DEF t
  <2>4. Lays(t, MoveRight(t, w), Shift(PlaceAll(a, glyphs), w))
    BY <2>2, <2>3, LaysRight DEF Lays
  <2>5. Run(a, glyphs, w) = Shift(PlaceAll(a, glyphs), w)
    BY <2>1 DEF Run
  <2>6. QED
    BY <2>2, <2>3, <2>4, <2>5, LaysMore DEF t
<1>3. CASE d.lr.mode = 1
  <2>1. r = MoveRight(d, w) /\ d.lr.mode # Left /\ a.sign # 1 /\ Signed(d, w) = -w
    BY <1>1, <1>3 DEF Left, Right, Sign, Signed
  <2>2. Lays(d, r, Shift(a, -w))
    BY <2>1, LaysRight
  <2>3. Lays(r, t, PlaceAll(Shift(a, -w), glyphs))
    BY <2>2, ViewTypesetAll DEF Lays
  <2>4. Lays(d, t, PlaceAll(Shift(a, -w), glyphs))
    BY <2>2, <2>3, LaysMore
  <2> HIDE DEF t
  <2>5. AfterSet(t, w) = t
    BY <2>1, <2>4 DEF AfterSet, Lays, Rests
  <2>6. Run(a, glyphs, w) = PlaceAll(Shift(a, -w), glyphs)
    BY <2>1 DEF Run
  <2>7. QED
    BY <2>4, <2>5, <2>6 DEF t
<1>4. QED
  BY <1>1, <1>2, <1>3

LEMMA ViewRule ==
  ASSUME NEW d, Sets(d), NEW a, Views(d, a), NEW w \in Int
  PROVE  Lays(d, SetRule(d, w), Box(a, Rule, w))
<1> DEFINE e == SetRule(d, w)
           l == Log(d, Rule)
           m == MoveRight(d, w)
<1>1. d.lr.mode \in {0, 1} /\ a.sign = Sign(d.lr.mode) /\ -w \in Int /\ ~Skims(d)
  BY SetsIs DEF Views
<1>2. CASE d.lr.mode = 0
  <2>1. d.lr.mode = Left /\ a.sign = 1
    BY <1>1, <1>2 DEF Left, Sign
  <2>2. Lays(d, l, Place(a, Rule))
    BY ViewLog
  <2>3. e = MoveRight(l, w)
    BY <1>1, <2>1 DEF SetRule
  <2>4. Signed(l, w) = w
    <3>1. l.lr = d.lr
      BY <2>2 DEF Lays, Rests
    <3>2. QED
      BY <1>2, <3>1 DEF Signed, Right
  <2> HIDE DEF l, e
  <2>5. Lays(l, MoveRight(l, w), Shift(Place(a, Rule), w))
    BY <2>2, <2>4, LaysRight DEF Lays
  <2>6. Box(a, Rule, w) = Shift(Place(a, Rule), w)
    BY <2>1 DEF Box
  <2>7. QED
    BY <2>2, <2>3, <2>5, <2>6, LaysMore DEF e
<1>3. CASE d.lr.mode = 1
  <2>1. d.lr.mode # Left /\ a.sign # 1 /\ Signed(d, w) = -w
    BY <1>1, <1>3 DEF Left, Right, Sign, Signed
  <2>2. Lays(d, m, Shift(a, -w))
    BY <2>1, LaysRight
  <2>3. e = Log(m, Rule)
    BY <1>1, <2>1 DEF SetRule
  <2> HIDE DEF m, e
  <2>4. Lays(m, Log(m, Rule), Place(Shift(a, -w), Rule))
    BY <2>2, ViewLog DEF Lays
  <2>5. Box(a, Rule, w) = Place(Shift(a, -w), Rule)
    BY <2>1 DEF Box
  <2>6. QED
    BY <2>2, <2>3, <2>4, <2>5, LaysMore DEF e
<1>4. QED
  BY <1>1, <1>2, <1>3

\* The moves that are left: down, of the register w, and to another direction.
LEMMA LaysDown ==
  ASSUME NEW d, Sets(d), NEW a, Views(d, a), NEW y \in Int
  PROVE  Lays(d, MoveDown(d, y), Sink(a, y))
<1> DEFINE e == MoveDown(d, y)
<1>1. d \in State /\ ~Skims(d)
  BY SetsIs
<1>2. e \in State /\ Moves(d, e)
  BY <1>1, MoveDownIs
<1>3. e.lr = d.lr
  BY <1>1, StateFields DEF MoveDown, Direction
<1>4. Views(e, Sink(a, y))
  BY ViewDown
<1> HIDE DEF e
<1>5. Sets(e) /\ Rests(d, e)
  BY <1>2, <1>3, MovesRests DEF Sets, Moves
<1>6. QED
  BY <1>4, <1>5 DEF Lays, e

LEMMA LaysW ==
  ASSUME NEW d, Sets(d), NEW a, Views(d, a), NEW x \in Int
  PROVE  Lays(d, MoveW(d, x), Shift([a EXCEPT !.regs.w = x], Signed(d, x)))
<1> DEFINE e == MoveW(d, x)
           m == [d EXCEPT !.w = x]
<1>1. d \in State /\ ~Skims(d)
  BY SetsIs
<1>2. e \in State /\ Moves(d, e)
  BY <1>1, MoveWIs
<1>3. e.lr = d.lr
  <2>1. m \in State /\ m.lr = d.lr
    BY <1>1 DEF State
  <2>2. e = MoveRight(m, x)
    BY DEF MoveW
  <2> HIDE DEF m, e
  <2>3. ~Skims(m)
    BY <1>1, <2>1 DEF Skims
  <2>4. QED
    BY <2>1, <2>2, <2>3, RightRegs
<1>4. Views(e, Shift([a EXCEPT !.regs.w = x], Signed(d, x)))
  BY ViewW
<1> HIDE DEF e
<1>5. Sets(e) /\ Rests(d, e)
  BY <1>2, <1>3, MovesRests DEF Sets, Moves
<1>6. QED
  BY <1>4, <1>5 DEF Lays, e

LEMMA LaysDir ==
  ASSUME NEW d, Sets(d), NEW a, Views(d, a), NEW x \in {0, 1, 3}
  PROVE  Lays(d, SetDir(d, x), [a EXCEPT !.regs.d = x])
<1> DEFINE e == SetDir(d, x)
<1>1. d \in State
  BY SetsIs
<1>2. e \in State /\ Moves(d, e)
  BY <1>1, SetDirIs DEF Direction
<1>3. e.lr = d.lr
  BY <1>1 DEF SetDir, State
<1>4. Views(e, [a EXCEPT !.regs.d = x])
  BY ViewDir
<1> HIDE DEF e
<1>5. Sets(e) /\ Rests(d, e)
  BY <1>2, <1>3, MovesRests DEF Sets, Moves
<1>6. QED
  BY <1>4, <1>5 DEF Lays, e

(***************************************************************************)
(* The stack below the frame at the top.                                   *)
(***************************************************************************)
\* The instructions of the frame at the top that have run.
Standing(d, k) ==
  /\ d \in State /\ d.frames # << >> /\ OnPage(d, k)
  /\ k \in 0..Len(d.frames[Len(d.frames)].code)

\* What a frame has pushed lies above its base.
LEMMA FrameBase ==
  ASSUME NEW d, NEW k, Standing(d, k), NEW j \in 1..Len(d.frames)
  PROVE  /\ Depth(d, j) \in Nat /\ Base(d, j) \in Nat /\ Base(d, j) <= Depth(d, j)
         /\ Depth(d, j) = Base(d, j) + Count(Open(d.frames[j].code, Ran(d, j, k)), "push")
         /\ Count(Open(d.frames[j].code, Ran(d, j, k)), "push") \in Nat
         /\ j < Len(d.frames) => d.frames[j].pc - 1 \in 0..Len(d.frames[j].code)
<1> DEFINE n == Len(d.frames)
           c == d.frames[j].code
           r == Ran(d, j, k)
           p == Open(c, r)
<1>1. d \in State /\ n \in Nat /\ n >= 1
  BY FramesLen DEF Standing
<1>2. FrameOK(d, j, k) /\ d.frames[j].below \in Nat /\ c \in Seq(Instr) /\ d.frames[j].pc \in Nat
  BY <1>1, FrameAt DEF OnPage, Standing
<1>3. Depth(d, j) = Base(d, j) + Count(p, "push") /\ d.frames[j].pc \in 1..Len(c) + 1
  BY <1>2 DEF FrameOK
<1>4. Len(c) \in Nat
  BY <1>2, LenProperties
<1>5. d.frames[j].pc - 1 \in 0..Len(c)
  BY <1>3, <1>4
<1>6. r \in 0..Len(c)
  BY <1>5 DEF Ran, Standing
<1> HIDE DEF r
<1>7. Count(p, "push") \in Nat
  <2>1. p \in Opening
    BY <1>2, <1>6, OpenType
  <2>2. QED
    BY <2>1, CountType
<1>8. Base(d, j) \in Nat
  BY <1>2 DEF Base
<1> HIDE DEF p
<1>9. Depth(d, j) \in Nat /\ Base(d, j) <= Depth(d, j)
  BY <1>3, <1>7, <1>8
<1>10. QED
  BY <1>3, <1>5, <1>7, <1>8, <1>9 DEF p, r

LEMMA TopStands ==
  ASSUME NEW d, NEW k, Standing(d, k), NEW n, n = Len(d.frames)
  PROVE  /\ CutOK(RegSet, d.stack, Base(d, n), Len(d.stack)) /\ n \in Nat /\ n >= 1
         /\ Len(d.stack) = Base(d, n) + Count(Open(d.frames[n].code, k), "push")
         /\ Count(Open(d.frames[n].code, k), "push") \in Nat
<1>1. d \in State /\ n \in Nat /\ n >= 1 /\ n \in 1..n /\ d.stack \in Seq(RegSet)
  BY FramesLen, StateFields DEF Standing, Stacks
<1>2. Depth(d, n) = Len(d.stack) /\ Ran(d, n, k) = k
  BY DEF Depth, Ran
<1>3. QED
  BY <1>1, <1>2, FrameBase DEF CutOK

\* A frame begins above all that is below it.
LEMMA BelowGrows ==
  ASSUME NEW d, NEW k, Standing(d, k), NEW n, n = Len(d.frames), NEW j \in 2..n
  PROVE  /\ d.frames[j].below \in Nat /\ d.frames[j].below + 1 <= Base(d, n)
         /\ d.frames[n].below \in Nat /\ Base(d, n) = d.frames[n].below + 1
         /\ j < n => d.frames[j].below < d.frames[n].below
<1>1. d \in State /\ n \in Nat /\ n >= 2 /\ j \in Nat
  BY FramesLen DEF Standing
<1>2. \A x \in 1..n : d.frames[x].below \in Nat
  BY <1>1, FrameAt
<1> DEFINE B(x) == d.frames[x].below
<1>3. ASSUME NEW x \in 2..n - 1 PROVE B(x) < B(x + 1)
  <2>1. x \in 1..Len(d.frames) /\ x # 1 /\ x # n
    BY <1>1
  <2>2. Base(d, x) = B(x) + 1 /\ Depth(d, x) = B(x + 1)
    BY <2>1 DEF Base, Depth
  <2>3. Base(d, x) <= Depth(d, x)
    BY <2>1, FrameBase
  <2>4. B(x) \in Nat /\ B(x + 1) \in Nat
    BY <1>1, <1>2
  <2>5. QED
    BY <2>2, <2>3, <2>4
<1> DEFINE T == {y \in Nat : y <= n - j => B(j) <= B(j + y) /\ (y > 0 => B(j) < B(j + y))}
<1>4. 0 \in T
  BY <1>1, <1>2
<1> HIDE DEF B
<1>5. ASSUME NEW y \in Nat, y < n - j, y \in T PROVE y + 1 \in T
  <2>1. B(j) <= B(j + y) /\ j + y \in 2..n - 1 /\ j + (y + 1) = (j + y) + 1
    BY <1>1, <1>5
  <2>2. B(j + y) < B((j + y) + 1)
    BY <1>3, <2>1
  <2>3. B(j) \in Nat /\ B(j + y) \in Nat /\ B((j + y) + 1) \in Nat
    <3>1. j \in 1..n /\ j + y \in 1..n /\ (j + y) + 1 \in 1..n
      BY <1>1, <2>1
    <3>2. QED
      BY <1>2, <3>1 DEF B
  <2>4. B(j) < B((j + y) + 1)
    BY <2>1, <2>2, <2>3
  <2>5. B(j) <= B(j + (y + 1)) /\ B(j) < B(j + (y + 1))
    BY <2>1, <2>3, <2>4
  <2>6. QED
    BY <2>5
<1> HIDE DEF T
<1>6. n - j \in Nat
  BY <1>1
<1>7. n - j \in T
  <2>1. \A y \in 0..n - j : y \in T
    BY <1>4, <1>5, <1>6, UpTo
  <2>2. QED
    BY <1>6, <2>1
<1>8. j + (n - j) = n
  BY <1>1
<1>9. B(j) <= B(n) /\ (n - j > 0 => B(j) < B(n))
  BY <1>7, <1>8 DEF T
<1>10. B(j) \in Nat /\ B(n) \in Nat
  BY <1>1, <1>2 DEF B
<1>11. Base(d, n) = B(n) + 1
  BY <1>1 DEF Base, B
<1>12. QED
  BY <1>1, <1>9, <1>10, <1>11 DEF B

(***************************************************************************)
(* The invariant of layout.                                                 *)
(***************************************************************************)
\* A frame below the top waits for the packet above it: what its instructions
\* have laid out is found when the packet is left.
Awaits(d, j, a) ==
  LET g == d.frames[j + 1]
  IN /\ a \in Layouts /\ a.regs = ShiftRegs(d.stack[g.below + 1], g.after) /\ a.font = d.saved[j]
     /\ a.sign = 1 /\ a.stack = Cut(d.stack, Base(d, j), g.below) /\ a.widths = << >>
     /\ a.set = d.frames[j].set
Suspended(d, j) ==
  LET f == d.frames[j]
  IN ClosedUpTo(f.code, f.pc - 1) /\ Awaits(d, j, Laid(f.code, f.start, f.pc - 1))
AllSuspended(d) == \A j \in 1..Len(d.frames) - 1 : Suspended(d, j)
\* The frame at the top, unless it is being measured.
Running(d, k) ==
  LET f == d.frames[Len(d.frames)]
  IN ClosedUpTo(f.code, k) /\ Views(d, Laid(f.code, f.start, k))

LEMMA SuspendedStays ==
  ASSUME NEW d, NEW k, Standing(d, k), NEW j \in 1..Len(d.frames) - 1, Suspended(d, j),
         NEW e, e.stack \in Seq(RegSet), e.frames[j] = d.frames[j],
         e.frames[j + 1].below = d.frames[j + 1].below, e.frames[j + 1].after = d.frames[j + 1].after,
         e.saved[j] = d.saved[j], d.frames[j + 1].below + 1 <= Len(d.stack),
         d.frames[j + 1].below + 1 <= Len(e.stack),
         \A x \in 1..d.frames[j + 1].below + 1 : e.stack[x] = d.stack[x]
  PROVE  Suspended(e, j)
<1> DEFINE f == d.frames[j]
           y == d.frames[j + 1].below
           a == Laid(f.code, f.start, f.pc - 1)
           b == Base(d, j)
<1>1. j \in 1..Len(d.frames) /\ j + 1 \in 1..Len(d.frames) /\ j # Len(d.frames) /\ d \in State
  BY FramesLen DEF Standing
<1>2. y = Depth(d, j) /\ y \in Nat /\ b \in Nat /\ b <= y
  BY <1>1, FrameBase DEF Depth
<1>3. d.stack \in Seq(RegSet) /\ Len(d.stack) \in Nat /\ Len(e.stack) \in Nat
  BY <1>1, StateFields, LenProperties DEF Stacks
<1>4. ClosedUpTo(f.code, f.pc - 1) /\ Awaits(d, j, a)
  BY DEF Suspended
<1>5. Base(e, j) = b
  BY DEF Base
<1> HIDE DEF y, b
<1>6. y + 1 <= Len(d.stack) /\ y + 1 <= Len(e.stack) /\ \A x \in 1..y + 1 : e.stack[x] = d.stack[x]
  BY DEF y
<1>7. CutOK(RegSet, d.stack, b, y) /\ CutOK(RegSet, e.stack, b, y)
  BY <1>2, <1>3, <1>6 DEF CutOK
<1>8. e.stack[y + 1] = d.stack[y + 1] /\ \A x \in b + 1..y : e.stack[x] = d.stack[x]
  <2>1. y \in Nat /\ b \in Nat
    BY <1>2
  <2>2. y + 1 \in 1..y + 1 /\ \A x \in b + 1..y : x \in 1..y + 1
    BY <2>1
  <2>3. QED
    BY <1>6, <2>2
<1>9. Cut(e.stack, b, y) = Cut(d.stack, b, y)
  BY <1>7, <1>8, CutSame
<1>10. Awaits(e, j, a)
  <2>1. e.frames[j + 1].below = y /\ e.frames[j + 1].after = d.frames[j + 1].after /\ e.saved[j] = d.saved[j]
    BY DEF y
  <2> HIDE DEF a
  <2>2. /\ a \in Layouts /\ a.regs = ShiftRegs(d.stack[y + 1], d.frames[j + 1].after) /\ a.font = d.saved[j]
        /\ a.sign = 1 /\ a.stack = Cut(d.stack, b, y) /\ a.widths = << >> /\ a.set = d.frames[j].set
    BY <1>4 DEF Awaits, y, b
  <2>3. QED
    BY <1>5, <1>8, <1>9, <2>1, <2>2 DEF Awaits
<1>11. QED
  BY <1>4, <1>10 DEF Suspended

\* What happens in the frame at the top leaves the others alone.
Above(d, e) ==
  LET n == Len(d.frames)
  IN /\ Len(e.frames) = n /\ \A j \in 1..n - 1 : e.frames[j] = d.frames[j]
     /\ SameFrame(d.frames[n], e.frames[n])
     /\ e.saved = d.saved /\ e.stack \in Seq(RegSet) /\ Base(d, n) <= Len(e.stack)
     /\ \A x \in 1..Base(d, n) : e.stack[x] = d.stack[x]

LEMMA AboveSuspended ==
  ASSUME NEW d, NEW k, Standing(d, k), NEW e, Above(d, e), AllSuspended(d)
  PROVE  AllSuspended(e)
<1>0. PICK n : n = Len(d.frames)
  OBVIOUS
<1>1. d \in State /\ n \in Nat /\ n >= 1 /\ Len(e.frames) = n
  BY <1>0, TopStands, FramesLen DEF Standing, Above
<1>2. ASSUME NEW j \in 1..n - 1 PROVE Suspended(e, j)
  <2>1. j + 1 \in 2..n /\ j \in 1..Len(d.frames) - 1 /\ n # 1
    <3>1. n \in Nat /\ j \in 1..n - 1
      BY <1>1, <1>2
    <3>2. j + 1 \in 2..n /\ n # 1
      BY <3>1
    <3>3. j \in 1..Len(d.frames) - 1
      BY <1>0, <3>1
    <3>4. QED
      BY <3>2, <3>3
  <2>2. d.frames[j + 1].below \in Nat /\ d.frames[j + 1].below + 1 <= Base(d, n)
    BY <1>0, <2>1, BelowGrows
  <2>3. Base(d, n) \in Nat /\ Base(d, n) <= Len(d.stack) /\ Len(d.stack) \in Nat
    BY <1>0, TopStands DEF CutOK
  <2>4. Base(d, n) <= Len(e.stack) /\ Len(e.stack) \in Nat /\ \A x \in 1..Base(d, n) : e.stack[x] = d.stack[x]
    BY <1>0, LenProperties DEF Above
  <2>5. /\ e.frames[j] = d.frames[j] /\ e.saved = d.saved /\ e.stack \in Seq(RegSet)
        /\ e.frames[j + 1].below = d.frames[j + 1].below /\ e.frames[j + 1].after = d.frames[j + 1].after
    <3>1. j + 1 = n \/ j + 1 \in 1..n - 1
      BY <2>1, <1>1
    <3>2. QED
      BY <1>0, <3>1 DEF Above, SameFrame
  <2>6. /\ d.frames[j + 1].below + 1 <= Len(d.stack) /\ d.frames[j + 1].below + 1 <= Len(e.stack)
        /\ \A x \in 1..d.frames[j + 1].below + 1 : e.stack[x] = d.stack[x]
    BY <2>2, <2>3, <2>4
  <2>7. Suspended(d, j)
    BY <2>1 DEF AllSuspended
  <2>8. QED
    BY <2>1, <2>5, <2>6, <2>7, SuspendedStays
<1>3. QED
  BY <1>0, <1>1, <1>2 DEF AllSuspended

LEMMA RestsAbove ==
  ASSUME NEW d, NEW k, Standing(d, k), NEW e, Rests(d, e)
  PROVE  Above(d, e)
<1>1. CutOK(RegSet, d.stack, Base(d, Len(d.frames)), Len(d.stack)) /\ Len(d.frames) \in 1..Len(d.frames)
  BY TopStands
<1>2. Len(e.frames) = Len(d.frames) /\ SameFrame(d.frames[Len(d.frames)], e.frames[Len(d.frames)])
  BY <1>1 DEF Rests, Codes
<1>3. QED
  BY <1>1, <1>2 DEF Above, Rests, CutOK, SameFrame

(***************************************************************************)
(* A step of the frame at the top, seen as a step of its layout.           *)
(***************************************************************************)
Runs(d, e, b) == Above(d, e) /\ Views(e, b) /\ e.lr = d.lr
Restacked(d, e) ==
  /\ e \in State /\ e.frames = d.frames /\ e.font = d.font /\ e.lr = d.lr /\ e.saved = d.saved

LEMMA RegsType ==
  ASSUME NEW d \in State
  PROVE  Regs(d) \in RegSet
BY StateFields DEF Regs, RegSet, Direction

LEMMA LaysRuns ==
  ASSUME NEW d, NEW k, Standing(d, k), NEW e, NEW b, Lays(d, e, b)
  PROVE  Runs(d, e, b)
BY RestsAbove DEF Lays, Runs, Rests

LEMMA RunsPush ==
  ASSUME NEW d, NEW k, Standing(d, k), NEW a, Views(d, a), NEW e, Restacked(d, e),
         e.stack = Append(d.stack, Regs(d)), Regs(e) = Regs(d)
  PROVE  Runs(d, e, [a EXCEPT !.stack = Append(@, a.regs)])
<1>0. PICK n : n = Len(d.frames)
  OBVIOUS
<1> DEFINE b == [a EXCEPT !.stack = Append(@, a.regs)]
           m == Base(d, n)
           x == Len(d.stack)
           r == Regs(d)
<1>1. CutOK(RegSet, d.stack, m, x) /\ d \in State /\ r \in RegSet
  BY <1>0, TopStands, RegsType DEF Standing
<1>2. d.stack \in Seq(RegSet) /\ m \in Nat /\ x \in Nat /\ m <= x
  BY <1>1 DEF CutOK
<1>3. e.stack \in Seq(RegSet) /\ Len(e.stack) = x + 1 /\ \A y \in 1..x : e.stack[y] = d.stack[y]
  BY <1>1, <1>2, AppendProperties
<1>4. Base(e, n) = m /\ Len(e.frames) = n
  BY <1>0 DEF Base, Restacked
<1>5. Here(e) = Append(Here(d), r)
  <2>1. Cut(Append(d.stack, r), m, x + 1) = Append(Cut(d.stack, m, x), r)
    BY <1>1, CutAppend
  <2>2. QED
    BY <1>0, <1>3, <1>4, <2>1 DEF Here
<1>6. a \in Layouts /\ a.regs = r /\ a.stack = Here(d) /\ a.stack \in Stacks
  BY LayoutFields DEF Views
<1> HIDE DEF r, m, x
<1>7. Append(a.stack, r) \in Stacks
  BY <1>1, <1>6, AppendProperties DEF Stacks
<1>8. b = [a EXCEPT !.stack = Append(a.stack, r)]
  BY <1>6
<1> HIDE DEF b
<1>9. /\ b \in Layouts /\ b.regs = a.regs /\ b.font = a.font /\ b.sign = a.sign /\ b.widths = a.widths
      /\ b.set = a.set /\ b.stack = Append(a.stack, r)
  BY <1>6, <1>7, <1>8 DEF Layouts
<1>10. Views(e, b)
  BY <1>5, <1>6, <1>9 DEF Views, Restacked
<1>11. Above(d, e)
  <2>1. \A y \in 1..m : e.stack[y] = d.stack[y]
    BY <1>2, <1>3
  <2>2. m <= Len(e.stack)
    BY <1>2, <1>3
  <2>3. SameFrame(d.frames[n], e.frames[n])
    BY DEF Restacked, SameFrame
  <2>4. QED
    BY <1>0, <1>3, <2>1, <2>2, <2>3 DEF Above, Restacked, m
<1>12. QED
  BY <1>10, <1>11 DEF Runs, Restacked, b

LEMMA RunsPop ==
  ASSUME NEW d, NEW k, Standing(d, k), NEW a, Views(d, a), NEW e, Restacked(d, e),
         Base(d, Len(d.frames)) < Len(d.stack), e.stack = Front(d.stack), Regs(e) = Last(d.stack)
  PROVE  Runs(d, e, [a EXCEPT !.regs = Last(a.stack), !.stack = Front(@)])
<1>0. PICK n : n = Len(d.frames)
  OBVIOUS
<1> DEFINE b == [a EXCEPT !.regs = Last(a.stack), !.stack = Front(@)]
           m == Base(d, n)
           x == Len(d.stack)
<1>1. CutOK(RegSet, d.stack, m, x) /\ d \in State /\ m < x
  BY <1>0, TopStands DEF Standing
<1>2. d.stack \in Seq(RegSet) /\ m \in Nat /\ x \in Nat /\ m <= x
  BY <1>1 DEF CutOK
<1>3. d.stack # << >>
  BY <1>1, <1>2
<1>4. /\ e.stack \in Seq(RegSet) /\ Len(e.stack) = x - 1 /\ \A y \in 1..x - 1 : e.stack[y] = d.stack[y]
      /\ Last(d.stack) \in RegSet
  BY <1>2, <1>3, FrontLast
<1>5. Base(e, n) = m /\ Len(e.frames) = n
  BY <1>0 DEF Base, Restacked
<1>6. a.stack # << >> /\ Here(e) = Front(a.stack) /\ Last(a.stack) = Last(d.stack)
  <2>1. /\ Cut(d.stack, m, x) # << >> /\ Last(Cut(d.stack, m, x)) = Last(d.stack)
        /\ Front(Cut(d.stack, m, x)) = Cut(Front(d.stack), m, x - 1)
    <3>1. x = Len(d.stack)
      OBVIOUS
    <3> HIDE DEF m, x
    <3>2. PICK p : p = d.stack
      OBVIOUS
    <3>3. CutOK(RegSet, p, m, x) /\ x = Len(p) /\ m < x
      BY <1>1, <3>1, <3>2
    <3>4. /\ Cut(p, m, x) # << >> /\ Last(Cut(p, m, x)) = Last(p)
          /\ Front(Cut(p, m, x)) = Cut(Front(p), m, x - 1)
      BY <3>3, CutFront
    <3>5. QED
      BY <3>2, <3>4
  <2>2. a.stack = Cut(d.stack, m, x)
    BY <1>0 DEF Views, Here
  <2>3. Here(e) = Cut(Front(d.stack), m, x - 1)
    BY <1>4, <1>5 DEF Here
  <2>4. QED
    BY <2>1, <2>2, <2>3
<1>7. a \in Layouts /\ a.stack \in Seq(RegSet)
  BY LayoutFields DEF Views, Stacks
<1> HIDE DEF m, x
<1>8. Front(a.stack) \in Stacks /\ Last(a.stack) \in RegSet
  BY <1>6, <1>7, FrontLast DEF Stacks
<1> HIDE DEF b
<1>9. /\ b \in Layouts /\ b.regs = Last(a.stack) /\ b.font = a.font /\ b.sign = a.sign /\ b.widths = a.widths
      /\ b.set = a.set /\ b.stack = Front(a.stack)
  BY <1>7, <1>8 DEF Layouts, b
<1>10. Views(e, b)
  BY <1>6, <1>9 DEF Views, Restacked
<1>11. Above(d, e)
  <2>1. \A y \in 1..m : e.stack[y] = d.stack[y]
    BY <1>1, <1>2, <1>4
  <2>2. m <= Len(e.stack)
    BY <1>1, <1>2, <1>4
  <2>3. SameFrame(d.frames[n], e.frames[n])
    BY DEF Restacked, SameFrame
  <2>4. QED
    BY <1>0, <1>4, <2>1, <2>2, <2>3 DEF Above, Restacked, m
<1>12. QED
  BY <1>10, <1>11 DEF Runs, Restacked, b

LEMMA RunsFont ==
  ASSUME NEW d, NEW k, Standing(d, k), NEW a, Views(d, a), NEW f \in Font, NEW e, e = [d EXCEPT !.font = f]
  PROVE  Runs(d, e, [a EXCEPT !.font = f])
<1> DEFINE b == [a EXCEPT !.font = f]
<1>1. d \in State /\ a \in Layouts /\ f \in AnyFont
  BY DEF Standing, Views, AnyFont
<1>2. /\ e.frames = d.frames /\ e.stack = d.stack /\ e.saved = d.saved /\ e.lr = d.lr
      /\ e.font = f /\ Regs(e) = Regs(d)
  BY <1>1 DEF State, Regs
<1>3. /\ b \in Layouts /\ b.regs = a.regs /\ b.font = f /\ b.sign = a.sign /\ b.widths = a.widths
      /\ b.set = a.set /\ b.stack = a.stack
  BY <1>1 DEF Layouts
<1> HIDE DEF b
<1>4. Here(e) = Here(d)
  BY <1>2, HereSame
<1>5. Views(e, b)
  BY <1>2, <1>3, <1>4 DEF Views
<1>6. Above(d, e)
  <2>1. CutOK(RegSet, d.stack, Base(d, Len(d.frames)), Len(d.stack))
    BY TopStands
  <2>2. QED
    BY <1>2, <2>1 DEF Above, CutOK, SameFrame
<1>7. QED
  BY <1>2, <1>5, <1>6 DEF Runs, b

\* A special leaves the place, the fonts and the stack alone.
LEMMA RunsSpecial ==
  ASSUME NEW d, NEW k, Standing(d, k), NEW a, Views(d, a), NEW e, Tells(d, e)
  PROVE  Runs(d, e, a)
<1>1. /\ e.frames = d.frames /\ e.stack = d.stack /\ e.saved = d.saved /\ e.lr = d.lr
      /\ e.font = d.font /\ Regs(e) = Regs(d)
  BY DEF Tells, Relinks, SamePlace, Regs
<1>2. Here(e) = Here(d)
  BY <1>1, HereSame
<1>3. Views(e, a)
  BY <1>1, <1>2 DEF Views
<1>4. Above(d, e)
  <2>1. CutOK(RegSet, d.stack, Base(d, Len(d.frames)), Len(d.stack))
    BY TopStands
  <2>2. QED
    BY <1>1, <2>1 DEF Above, CutOK, SameFrame
<1>5. QED
  BY <1>1, <1>3, <1>4 DEF Runs

(***************************************************************************)
(* An instruction executed is an instruction laid out.                      *)
(***************************************************************************)
Stepping(d, k, i, a) == Ready(d, k, i) /\ ~Skims(d) /\ Views(d, a)

LEMMA ReadyTop ==
  ASSUME NEW d, NEW k, NEW i, Ready(d, k, i)
  PROVE  /\ Standing(d, k) /\ i = d.frames[Len(d.frames)].code[k + 1]
         /\ k + 1 \in 1..Len(d.frames[Len(d.frames)].code)
         /\ d.frames[Len(d.frames)].pc = k + 2
<1> DEFINE c == d.frames[Len(d.frames)].code
<1>1. d \in State /\ k \in Nat /\ OnPage(d, k) /\ Turn(d, k, i)
  BY DEF Ready
<1>2. d.frames # << >> /\ k + 1 \in 1..Len(c) /\ i = c[k + 1] /\ d.frames[Len(d.frames)].pc = k + 2
  BY <1>1 DEF Turn
<1>3. Len(c) \in Nat
  BY <1>1, TurnIs
<1> HIDE DEF c
<1>4. k \in 0..Len(c)
  BY <1>1, <1>2, <1>3
<1>5. QED
  BY <1>1, <1>2, <1>4 DEF Standing, c

LEMMA SteppingIs ==
  ASSUME NEW d, NEW k, NEW i, NEW a, Stepping(d, k, i, a)
  PROVE  /\ Sets(d) /\ Standing(d, k) /\ Views(d, a) /\ i \in Instr /\ ~Skims(d)
         /\ d.font \in AnyFont /\ a.font = d.font /\ d \in State
         /\ \A x \in Int : a.sign * x = Signed(d, x)
<1>1. d \in State /\ d.frames # << >> /\ i \in Instr /\ ~Skims(d) /\ Standing(d, k)
  BY ReadyIs, ReadyTop DEF Stepping
<1>2. d.lr.mode \in Mode /\ d.lr.mode \in {0, 1}
  <2>1. d.lr.mode \in Nat
    BY <1>1, LrFields
  <2>2. QED
    BY <1>1, <2>1 DEF Skims, Skimming, Mode, Left, Right
<1>3. a.sign = Sign(d.lr.mode) /\ a.font = d.font
  BY DEF Stepping, Views
<1>4. \A x \in Int : a.sign * x = Signed(d, x)
  BY <1>2, <1>3, SignIs DEF Signed
<1>5. QED
  BY <1>1, <1>2, <1>3, <1>4, StateFields DEF Sets, Stepping

LEMMA RunsSet ==
  ASSUME NEW d, NEW k, NEW i, NEW a, Stepping(d, k, i, a), i.op = "set", Kind(d.font) # "virtual",
         NEW e, e = SetChar(d, i.char), e.status # "failed"
  PROVE  Runs(d, e, Box(a, i.char, Width[a.font][i.char]))
<1> DEFINE c == i.char
           w == Width[d.font][c]
           r == IF d.lr.mode = Right THEN MoveRight(d, w) ELSE d
<1>1. Sets(d) /\ Standing(d, k) /\ Views(d, a) /\ c \in Char /\ ~Skims(d) /\ a.font = d.font /\ d \in State
  BY SteppingIs DEF Instr
<1>2. d.font # NoFont
  <2>1. Fail(d).status = "failed"
    BY <1>1, FailIs DEF Fails
  <2>2. QED
    BY <2>1 DEF SetChar
<1>3. w \in Int
  <2>1. d.font \in Font
    BY <1>2, SteppingIs DEF AnyFont
  <2>2. QED
    BY <1>1, <2>1, DviAssumption
<1>4. e = AfterSet(Typeset(r, c), w)
  BY <1>1, <1>2 DEF SetChar
<1> HIDE DEF c, w
<1>5. Lays(d, AfterSet(Typeset(r, c), w), Box(a, c, w))
  BY <1>1, <1>3, ViewSet
<1> HIDE DEF r
<1>6. Runs(d, e, Box(a, c, w))
  BY <1>1, <1>4, <1>5, LaysRuns
<1>7. QED
  BY <1>1, <1>6 DEF c, w

LEMMA RunsPut ==
  ASSUME NEW d, NEW k, NEW i, NEW a, Stepping(d, k, i, a), i.op = "put", Kind(d.font) # "virtual",
         NEW e, e = PutChar(d, i.char), e.status # "failed"
  PROVE  Runs(d, e, Place(a, i.char))
<1>1. Sets(d) /\ Standing(d, k) /\ Views(d, a) /\ i.char \in Char /\ d \in State
  BY SteppingIs DEF Instr
<1>2. d.font # NoFont
  <2>1. Fail(d).status = "failed"
    BY <1>1, FailIs DEF Fails
  <2>2. QED
    BY <2>1 DEF PutChar
<1>3. e = Typeset(d, i.char)
  BY <1>2 DEF PutChar
<1>4. Lays(d, e, Place(a, i.char))
  BY <1>1, <1>3, ViewTypeset
<1>5. QED
  BY <1>1, <1>4, LaysRuns

LEMMA RunsGlyphs ==
  ASSUME NEW d, NEW k, NEW i, NEW a, Stepping(d, k, i, a), i.op = "glyphs",
         NEW e, e = SetGlyphs(d, i.glyphs, i.by), e.status # "failed"
  PROVE  Runs(d, e, Run(a, i.glyphs, i.by))
<1> DEFINE w == i.by
           g == i.glyphs
           r == IF d.lr.mode = Right THEN MoveRight(d, w) ELSE d
<1>1. Sets(d) /\ Standing(d, k) /\ Views(d, a) /\ i \in Instr /\ ~Skims(d) /\ d \in State
  BY SteppingIs
<1>2. w \in Int /\ g \in GlyphRun
  BY <1>1 DEF Instr, GlyphRun
<1>3. d.font # NoFont
  <2>1. Fail(d).status = "failed"
    BY <1>1, FailIs DEF Fails
  <2>2. QED
    BY <2>1 DEF SetGlyphs
<1>4. e = AfterSet(TypesetAll(r, g), w)
  BY <1>1, <1>3 DEF SetGlyphs
<1> HIDE DEF g, w
<1>5. Lays(d, AfterSet(TypesetAll(r, g), w), Run(a, g, w))
  BY <1>1, <1>2, ViewGlyphs
<1> HIDE DEF r
<1>6. Runs(d, e, Run(a, g, w))
  BY <1>1, <1>4, <1>5, LaysRuns
<1>7. QED
  BY <1>6 DEF g, w

LEMMA RunsMoves ==
  ASSUME NEW d, NEW k, NEW i, NEW a, Stepping(d, k, i, a), NEW e
  PROVE  /\ i.op = "rule" /\ e = SetRule(d, i.by) => Runs(d, e, Box(a, Rule, i.by))
         /\ i.op = "right" /\ e = MoveRight(d, i.by) => Runs(d, e, Shift(a, a.sign * i.by))
         /\ i.op = "w" /\ e = MoveW(d, i.by) => Runs(d, e, Shift([a EXCEPT !.regs.w = i.by], a.sign * i.by))
         /\ e = MoveRight(d, d.w) => Runs(d, e, Shift(a, a.sign * a.regs.w))
         /\ i.op = "down" /\ e = MoveDown(d, i.by) => Runs(d, e, Sink(a, i.by))
         /\ i.op = "dir" /\ e = SetDir(d, i.dir) => Runs(d, e, [a EXCEPT !.regs.d = i.dir])
<1>1. /\ Sets(d) /\ Standing(d, k) /\ Views(d, a) /\ i \in Instr /\ d \in State
      /\ \A x \in Int : a.sign * x = Signed(d, x)
  BY SteppingIs
<1>2. /\ i.op \in {"rule", "right", "w", "down"} => i.by \in Int
      /\ i.op = "dir" => i.dir \in {0, 1, 3}
  BY <1>1 DEF Instr
<1>3. i.op = "rule" /\ e = SetRule(d, i.by) => Runs(d, e, Box(a, Rule, i.by))
  BY <1>1, <1>2, ViewRule, LaysRuns
<1>4. i.op = "right" /\ e = MoveRight(d, i.by) => Runs(d, e, Shift(a, a.sign * i.by))
  BY <1>1, <1>2, LaysRight, LaysRuns
<1>5. i.op = "w" /\ e = MoveW(d, i.by) => Runs(d, e, Shift([a EXCEPT !.regs.w = i.by], a.sign * i.by))
  BY <1>1, <1>2, LaysW, LaysRuns
<1>6. e = MoveRight(d, d.w) => Runs(d, e, Shift(a, a.sign * a.regs.w))
  <2>1. a.regs.w = d.w /\ d.w \in Int
    BY <1>1, StateFields DEF Views, Regs
  <2>2. QED
    BY <1>1, <2>1, LaysRight, LaysRuns
<1>7. i.op = "down" /\ e = MoveDown(d, i.by) => Runs(d, e, Sink(a, i.by))
  BY <1>1, <1>2, LaysDown, LaysRuns
<1>8. i.op = "dir" /\ e = SetDir(d, i.dir) => Runs(d, e, [a EXCEPT !.regs.d = i.dir])
  BY <1>1, <1>2, LaysDir, LaysRuns
<1>9. QED
  BY <1>3, <1>4, <1>5, <1>6, <1>7, <1>8

LEMMA RunsStack ==
  ASSUME NEW d, NEW k, NEW i, NEW a, Stepping(d, k, i, a), NEW e, e.status # "failed",
         \/ InPacket(d) /\ ((i.op = "push" /\ e = Push(d)) \/ (i.op = "pop" /\ e = Pop(d)))
         \/ ~InPacket(d) /\ ((i.op = "push" /\ e = PushOp(d)) \/ (i.op = "pop" /\ e = PopOp(d)))
  PROVE  /\ i.op = "push" => Runs(d, e, [a EXCEPT !.stack = Append(@, a.regs)])
         /\ i.op = "pop" => Runs(d, e, [a EXCEPT !.regs = Last(a.stack), !.stack = Front(@)])
<1>1. Standing(d, k) /\ Views(d, a) /\ d \in State /\ ~Skims(d)
  BY SteppingIs
<1>2. /\ OnPage(d, k) /\ Turn(d, k, i) /\ LinkInv(d) /\ d.link.mark = PageDepth(d) /\ k \in Nat
      /\ d.status = "page"
  BY ReadyIs DEF Stepping
<1>3. ~InPacket(d) => d.link.mark = Len(d.stack)
  BY <1>2 DEF PageDepth
<1>4. CASE i.op = "push"
  <2>1. Restacked(d, e) /\ e.stack = Append(d.stack, Regs(d)) /\ Regs(e) = Regs(d)
    <3>1. CASE InPacket(d)
      <4>1. e = Push(d)
        BY <1>4, <3>1
      <4>2. e \in State /\ Restacks(d, e) /\ SamePlace(d, e) /\ e.stack = Append(d.stack, Regs(d))
        <5>1. Len(d.stack) \in Nat /\ StackMax \in Nat
          BY ReadyIs DEF Stepping
        <5>2. QED
          BY <1>1, <4>1, <5>1, PushIs DEF Fails
      <4>3. QED
        BY <4>2 DEF Restacked, Restacks, SamePlace, Regs
    <3>2. CASE ~InPacket(d)
      <4>1. e = PushOp(d)
        BY <1>4, <3>2
      <4>2. Marks(d, e) /\ Pushes(d, e)
        BY <1>1, <1>2, <1>3, <3>2, <4>1, PushOpIs
      <4>3. QED
        BY <1>1, <4>2 DEF Marks, Pushes, Stacks1, Restacked, SamePlace, Regs
    <3>3. QED
      BY <3>1, <3>2
  <2>2. QED
    BY <1>1, <1>4, <2>1, RunsPush
<1>5. CASE i.op = "pop"
  <2>1. Base(d, Len(d.frames)) < Len(d.stack) /\ d.stack # << >>
    <3>1. Count(Open(d.frames[Len(d.frames)].code, k), "push") >= 1
      BY <1>1, <1>2, <1>5, TurnIs
    <3>2. /\ Len(d.stack) = Base(d, Len(d.frames)) + Count(Open(d.frames[Len(d.frames)].code, k), "push")
          /\ Base(d, Len(d.frames)) \in Nat
      BY <1>1, TopStands DEF CutOK
    <3>3. Count(Open(d.frames[Len(d.frames)].code, k), "push") \in Nat
      BY <1>1, TopStands
    <3>4. QED
      BY <3>1, <3>2, <3>3
  <2>2. Restacked(d, e) /\ e.stack = Front(d.stack) /\ Regs(e) = Last(d.stack)
    <3>1. CASE InPacket(d)
      <4>1. e = Pop(d)
        BY <1>5, <3>1
      <4>2. e \in State /\ Restacks(d, e) /\ e.stack = Front(d.stack) /\ Regs(e) = Last(d.stack)
        BY <1>1, <2>1, <4>1, PopIs
      <4>3. QED
        BY <4>2 DEF Restacked, Restacks
    <3>2. CASE ~InPacket(d)
      <4>1. e = PopOp(d)
        BY <1>5, <3>2
      <4>2. Marks(d, e) /\ Pops(d, e)
        BY <1>1, <1>2, <1>3, <2>1, <3>2, <4>1, PopOpIs
      <4>3. QED
        BY <1>1, <4>2 DEF Marks, Pops, Stacks1, Restacked
    <3>3. QED
      BY <3>1, <3>2
  <2>3. QED
    BY <1>1, <1>5, <2>1, <2>2, RunsPop
<1>6. QED
  BY <1>4, <1>5

LEMMA RunsFnt ==
  ASSUME NEW d, NEW k, NEW i, NEW a, Stepping(d, k, i, a), i.op = "fnt",
         NEW e, e = SelectFont(d, i.font), e.status # "failed"
  PROVE  Runs(d, e, [a EXCEPT !.font = i.font])
<1>1. Standing(d, k) /\ Views(d, a) /\ d \in State /\ i.font \in Font
  BY SteppingIs DEF Instr
<1>2. e = [d EXCEPT !.font = i.font]
  <2>1. Fail(d).status = "failed"
    BY <1>1, FailIs DEF Fails
  <2>2. QED
    BY <2>1 DEF SelectFont
<1>3. QED
  BY <1>1, <1>2, RunsFont

LEMMA RunsXxx ==
  ASSUME NEW d, NEW k, NEW i, NEW a, Stepping(d, k, i, a), i.op = "xxx", NEW id \in Dict, id # NoLink,
         NEW e, e = Special(d, i, id)
  PROVE  Runs(d, e, a)
<1>1. Standing(d, k) /\ Views(d, a) /\ d \in State /\ i \in Instr
  BY SteppingIs
<1>2. Tells(d, e)
  <2>1. /\ OnPage(d, k) /\ Turn(d, k, i) /\ LinkInv(d) /\ d.link.mark = PageDepth(d) /\ k \in Nat
        /\ d.frames # << >>
    BY ReadyIs DEF Stepping
  <2>2. Len(d.frames) \in Nat /\ Len(d.frames) >= 1
    BY <1>1, <2>1, FramesLen
  <2>3. (Len(d.frames) > 1 => i.op \notin {"xxx", "breflect", "ereflect"})
        /\ (Len(d.frames) = 1 => i \in InstrsOf(d.doc))
    BY <1>1, <2>1, TurnIs
  <2>4. Len(d.frames) = 1 /\ i \in InstrsOf(d.doc)
    <3>1. ~(Len(d.frames) > 1)
      BY <2>3
    <3>2. Len(d.frames) = 1
      <4>1. \A n \in Nat : n >= 1 /\ ~(n > 1) => n = 1
        OBVIOUS
      <4>2. QED
        BY <2>2, <3>1, <4>1
    <3>3. QED
      BY <2>3, <3>2
  <2>5. d.link.mark = Len(d.stack)
    BY <2>1, <2>4 DEF PageDepth, InPacket
  <2>6. /\ IsSpecial(i, {"bann", "href"}) => Len(d.stack) >= 1
        /\ IsSpecial(i, {"nolink"}) => Len(d.stack) = 0
    BY <1>1, <2>1, <2>4, DepthIs
  <2>7. /\ i.special \in {"bann", "href"} => d.link.mark >= 1
        /\ i.special = "nolink" => d.link.mark = 0
    BY <2>5, <2>6 DEF IsSpecial
  <2>8. QED
    BY <1>1, <2>1, <2>4, <2>7, SpecialIs
<1>3. QED
  BY <1>1, <1>2, RunsSpecial

\* Every instruction but those that reflect or enter a packet.
LEMMA ExecuteRuns ==
  ASSUME NEW d, NEW k, NEW i, NEW a, Stepping(d, k, i, a), NEW id \in Dict, id # NoLink,
         NEW e, e = Execute(d, i, id), e.status # "failed", i.op \notin {"breflect", "ereflect"},
         i.op \in {"set", "put"} => Kind(d.font) # "virtual",
         NEW code, code[k + 1] = i
  PROVE  Runs(d, e, Lay(a, code, k + 1))
<1>1. i \in Instr /\ ~Skims(d)
  BY SteppingIs
<1>2. CASE i.op = "set"
  <2>1. e = SetChar(d, i.char) /\ Lay(a, code, k + 1) = Box(a, i.char, Width[a.font][i.char])
    BY <1>2 DEF Execute, Lay
  <2>2. QED
    BY <1>2, <2>1, RunsSet
<1>3. CASE i.op = "put"
  <2>1. e = PutChar(d, i.char) /\ Lay(a, code, k + 1) = Place(a, i.char)
    BY <1>3 DEF Execute, Lay
  <2>2. QED
    BY <1>3, <2>1, RunsPut
<1>4. CASE i.op = "glyphs"
  <2>1. e = SetGlyphs(d, i.glyphs, i.by) /\ Lay(a, code, k + 1) = Run(a, i.glyphs, i.by)
    BY <1>4 DEF Execute, Lay
  <2>2. QED
    BY <1>4, <2>1, RunsGlyphs
<1>5. CASE i.op = "rule"
  <2>1. e = SetRule(d, i.by) /\ Lay(a, code, k + 1) = Box(a, Rule, i.by)
    BY <1>5 DEF Execute, Lay
  <2>2. QED
    BY <1>5, <2>1, RunsMoves
<1>6. CASE i.op = "right"
  <2>1. e = MoveRight(d, i.by) /\ Lay(a, code, k + 1) = Shift(a, a.sign * i.by)
    BY <1>6 DEF Execute, Lay
  <2>2. QED
    BY <1>6, <2>1, RunsMoves
<1>7. CASE i.op = "w"
  <2>1. e = MoveW(d, i.by) /\ Lay(a, code, k + 1) = Shift([a EXCEPT !.regs.w = i.by], a.sign * i.by)
    BY <1>7 DEF Execute, Lay
  <2>2. Runs(d, e, Shift([a EXCEPT !.regs.w = i.by], a.sign * i.by))
    BY <1>7, <2>1, RunsMoves, Zenon
  <2>3. QED
    BY <2>1, <2>2
<1>8. CASE i.op = "w0"
  <2>1. e = MoveRight(d, d.w) /\ Lay(a, code, k + 1) = Shift(a, a.sign * a.regs.w)
    BY <1>8 DEF Execute, Lay
  <2>2. QED
    BY <1>8, <2>1, RunsMoves
<1>9. CASE i.op = "down"
  <2>1. e = MoveDown(d, i.by) /\ Lay(a, code, k + 1) = Sink(a, i.by)
    BY <1>9 DEF Execute, Lay
  <2>2. Runs(d, e, Sink(a, i.by))
    BY <1>9, <2>1, RunsMoves, Zenon
  <2>3. QED
    BY <2>1, <2>2
<1>10. CASE i.op = "dir"
  <2>1. e = SetDir(d, i.dir) /\ Lay(a, code, k + 1) = [a EXCEPT !.regs.d = i.dir]
    BY <1>10 DEF Execute, Lay
  <2>2. Runs(d, e, [a EXCEPT !.regs.d = i.dir])
    BY <1>10, <2>1, RunsMoves, Zenon
  <2>3. QED
    BY <2>1, <2>2
<1>11. CASE i.op = "push"
  <2>1. /\ e = IF InPacket(d) THEN Push(d) ELSE PushOp(d)
        /\ Lay(a, code, k + 1) = [a EXCEPT !.stack = Append(@, a.regs)]
    BY <1>11 DEF Execute, Lay
  <2>2. Runs(d, e, [a EXCEPT !.stack = Append(@, a.regs)])
    <3>1. \/ InPacket(d) /\ ((i.op = "push" /\ e = Push(d)) \/ (i.op = "pop" /\ e = Pop(d)))
          \/ ~InPacket(d) /\ ((i.op = "push" /\ e = PushOp(d)) \/ (i.op = "pop" /\ e = PopOp(d)))
      <4>1. e = IF InPacket(d) THEN Push(d) ELSE PushOp(d)
        BY <2>1
      <4>2. QED
        BY <1>11, <4>1
    <3>2. QED
      BY <1>11, <3>1, RunsStack
  <2>3. QED
    BY <2>1, <2>2
<1>12. CASE i.op = "pop"
  <2>1. /\ e = IF InPacket(d) THEN Pop(d) ELSE PopOp(d)
        /\ Lay(a, code, k + 1) = [a EXCEPT !.regs = Last(a.stack), !.stack = Front(@)]
    BY <1>12 DEF Execute, Lay
  <2>2. Runs(d, e, [a EXCEPT !.regs = Last(a.stack), !.stack = Front(@)])
    BY <1>12, <2>1, RunsStack
  <2>3. QED
    BY <2>1, <2>2
<1>13. CASE i.op = "fnt"
  <2>1. e = SelectFont(d, i.font) /\ Lay(a, code, k + 1) = [a EXCEPT !.font = i.font]
    BY <1>13 DEF Execute, Lay
  <2>2. QED
    BY <1>13, <2>1, RunsFnt
<1>14. CASE i.op = "xxx"
  <2>1. e = Special(d, i, id) /\ Lay(a, code, k + 1) = a
    BY <1>1, <1>14 DEF Execute, Lay
  <2>2. QED
    BY <1>14, <2>1, RunsXxx
<1>15. QED
  <2>1. i.op \in {"set", "put", "fnt", "xxx", "right", "w", "w0", "down", "dir", "glyphs", "rule",
                  "breflect", "ereflect", "push", "pop"}
    BY <1>1 DEF Instr
  <2>2. QED
    BY <2>1, <1>2, <1>3, <1>4, <1>5, <1>6, <1>7, <1>8, <1>9, <1>10, <1>11, <1>12, <1>13, <1>14

(***************************************************************************)
(* Into a packet and back.                                                  *)
(***************************************************************************)
LEMMA ShiftZero ==
  ASSUME NEW r \in RegSet
  PROVE  ShiftRegs(r, 0) = r
<1>1. r.h \in Int /\ r.v \in Int /\ r.d \in {0, 1, 3}
  BY RegsFields
<1>2. r.h + 0 = r.h /\ r.v + 0 = r.v /\ r.v - 0 = r.v
  BY <1>1
<1>3. CASE r.d = 0
  <2>1. ShiftRegs(r, 0) = [r EXCEPT !.h = r.h]
    BY <1>2, <1>3 DEF ShiftRegs
  <2>2. QED
    BY <2>1 DEF RegSet
<1>4. CASE r.d = 1
  <2>1. ShiftRegs(r, 0) = [r EXCEPT !.v = r.v]
    BY <1>2, <1>4 DEF ShiftRegs
  <2>2. QED
    BY <2>1 DEF RegSet
<1>5. CASE r.d = 3
  <2>1. ShiftRegs(r, 0) = [r EXCEPT !.v = r.v]
    BY <1>2, <1>5 DEF ShiftRegs
  <2>2. QED
    BY <2>1 DEF RegSet
<1>6. QED
  BY <1>1, <1>3, <1>4, <1>5

LEMMA ClosedNext ==
  ASSUME NEW code, NEW k \in Nat, ClosedUpTo(code, k), code[k + 1].op = "breflect" => Closed(code, k + 1)
  PROVE  ClosedUpTo(code, k + 1)
<1>1. \A x \in 1..k + 1 : x \in 1..k \/ x = k + 1
  OBVIOUS
<1>2. QED
  BY <1>1 DEF ClosedUpTo

\* The layout of a character of a virtual font, which leaves a box of its width.
Boxes(a, b, g, w) ==
  /\ b \in Layouts /\ b.regs = ShiftRegs(a.regs, w) /\ b.font = a.font /\ b.sign = a.sign
  /\ b.stack = a.stack /\ b.widths = a.widths /\ b.set = Append(a.set, g)

LEMMA BoxIs ==
  ASSUME NEW a \in Layouts, a.sign = 1, NEW c \in Char, NEW w \in Int
  PROVE  Boxes(a, Box(a, c, w), Mark(a, c), w) /\ Boxes(a, Place(a, c), Mark(a, c), 0)
<1> DEFINE p == Place(a, c)
           b == Shift(p, w)
<1>1. Places(a, p, Mark(a, c))
  BY PlaceIs
<1>2. Box(a, c, w) = b
  BY DEF Box
<1> HIDE DEF p
<1>3. Shifts(p, b) /\ b.regs = ShiftRegs(p.regs, w)
  BY <1>1, ShiftIs DEF Places
<1> HIDE DEF b
<1>4. Boxes(a, b, Mark(a, c), w)
  BY <1>1, <1>3 DEF Places, Shifts, Boxes
<1>5. ShiftRegs(a.regs, 0) = a.regs
  BY LayoutFields, ShiftZero
<1>6. Boxes(a, p, Mark(a, c), 0)
  BY <1>1, <1>5 DEF Places, Boxes
<1>7. QED
  BY <1>2, <1>4, <1>6 DEF p

\* The frame that was at the top is now below one more.
LEMMA EnterAwaits ==
  ASSUME NEW d, NEW k, Standing(d, k), NEW a, Views(d, a), d.lr.mode = Left, d.lr.widths = << >>,
         Len(d.saved) = Len(d.frames) - 1, NEW c \in Char, NEW after \in Int, NEW e \in State,
         Enters(d, e, c, after), NEW b, Boxes(a, b, Mark(a, c), after)
  PROVE  Awaits(e, Len(d.frames), b)
<1>0. PICK n : n = Len(d.frames)
  OBVIOUS
<1> DEFINE x == Len(d.stack)
           m == Base(d, n)
<1>1. CutOK(RegSet, d.stack, m, x) /\ n \in Nat /\ n >= 1 /\ d \in State
  BY <1>0, TopStands DEF Standing
<1>2. d.stack \in Seq(RegSet) /\ m \in Nat /\ x \in Nat /\ m <= x /\ Regs(d) \in RegSet
  BY <1>1, RegsType DEF CutOK
<1>3. d.saved \in Seq(AnyFont) /\ Len(d.saved) = n - 1 /\ d.font \in AnyFont
  BY <1>0, <1>1, StateFields DEF Saves
<1>4. e.stack = Append(d.stack, Regs(d)) /\ e.saved = Append(d.saved, d.font)
  BY DEF Enters
<1>5. e.stack[x + 1] = Regs(d) /\ CutOK(RegSet, e.stack, m, x) /\ \A y \in m + 1..x : e.stack[y] = d.stack[y]
  <2>1. /\ e.stack \in Seq(RegSet) /\ Len(e.stack) = x + 1 /\ e.stack[x + 1] = Regs(d)
        /\ \A y \in 1..x : e.stack[y] = d.stack[y]
    BY <1>2, <1>4, AppendProperties
  <2> HIDE DEF m, x
  <2>2. QED
    BY <1>2, <2>1 DEF CutOK
<1>6. e.saved[n] = d.font
  <2>1. e.saved[Len(d.saved) + 1] = d.font
    BY <1>3, <1>4, AppendProperties
  <2>2. Len(d.saved) + 1 = n
    BY <1>1, <1>3
  <2>3. QED
    BY <2>1, <2>2
<1>7. /\ e.frames[n + 1].below = x /\ e.frames[n + 1].after = after
      /\ e.frames[n].set = Append(d.frames[n].set, GlyphAt(d, c)) /\ Base(e, n) = m
  <2>1. n \in 1..n
    BY <1>1
  <2>2. e.frames[n + 1] = NewFrame(d, c, after) /\ SameFrame(d.frames[n], e.frames[n])
        /\ e.frames[n].set = Append(d.frames[n].set, GlyphAt(d, c))
    BY <1>0, <2>1 DEF Enters
  <2>3. QED
    BY <2>2 DEF NewFrame, SameFrame, Base
<1>8. Cut(e.stack, m, x) = Cut(d.stack, m, x)
  BY <1>1, <1>5, CutSame
<1>9. a.stack = Cut(d.stack, m, x) /\ a.regs = Regs(d) /\ a.font = d.font /\ a.widths = << >>
      /\ a.set = d.frames[n].set /\ a.sign = 1
  BY <1>0 DEF Views, Here, Left, Sign
<1>10. Mark(a, c) = GlyphAt(d, c)
  BY <1>9 DEF Mark, GlyphAt, Regs
<1> HIDE DEF m, x
<1>11. QED
  BY <1>0, <1>5, <1>6, <1>7, <1>8, <1>9, <1>10 DEF Awaits, Boxes

LEMMA EnterLower ==
  ASSUME NEW d, NEW k, Standing(d, k), AllSuspended(d), Len(d.saved) = Len(d.frames) - 1,
         NEW c, NEW after, NEW e \in State, Enters(d, e, c, after), NEW j \in 1..Len(d.frames) - 1
  PROVE  Suspended(e, j)
<1>0. PICK n : n = Len(d.frames)
  OBVIOUS
<1> DEFINE x == Len(d.stack)
<1>1. n \in Nat /\ n >= 1 /\ d \in State /\ Base(d, n) \in Nat /\ Base(d, n) <= x /\ x \in Nat
      /\ d.stack \in Seq(RegSet) /\ Regs(d) \in RegSet
  BY <1>0, TopStands, RegsType DEF Standing, CutOK
<1>2. n \in Nat /\ j \in 1..n - 1
  BY <1>0, <1>1
<1>3. j + 1 \in 2..n /\ j \in 1..n
  BY <1>2
<1>4. d.frames[j + 1].below \in Nat /\ d.frames[j + 1].below + 1 <= Base(d, n)
  BY <1>0, <1>3, BelowGrows
<1>5. e.stack \in Seq(RegSet) /\ Len(e.stack) = x + 1 /\ \A y \in 1..x : e.stack[y] = d.stack[y]
  <2>1. e.stack = Append(d.stack, Regs(d))
    BY DEF Enters
  <2>2. QED
    BY <1>1, <2>1, AppendProperties
<1>6. e.saved[j] = d.saved[j]
  <2>1. e.saved = Append(d.saved, d.font) /\ d.saved \in Seq(AnyFont) /\ d.font \in AnyFont
    BY <1>1, StateFields DEF Enters, Saves
  <2>2. \A y \in 1..Len(d.saved) : e.saved[y] = d.saved[y]
    BY <2>1, AppendProperties
  <2>3. Len(d.saved) = n - 1
    BY <1>0
  <2>4. QED
    BY <1>2, <2>2, <2>3
<1>7. /\ e.frames[j] = d.frames[j] /\ e.frames[j + 1].below = d.frames[j + 1].below
      /\ e.frames[j + 1].after = d.frames[j + 1].after
  <2>1. j + 1 \in 1..n
    BY <1>3, <1>2
  <2>2. SameFrame(d.frames[j + 1], e.frames[j + 1])
    BY <1>0, <2>1 DEF Enters
  <2>3. e.frames[j] = d.frames[j]
    BY <1>0, <1>2 DEF Enters
  <2>4. QED
    BY <2>2, <2>3 DEF SameFrame
<1> HIDE DEF x
<1>8. /\ d.frames[j + 1].below + 1 <= x /\ d.frames[j + 1].below + 1 <= x + 1
      /\ \A y \in 1..d.frames[j + 1].below + 1 : e.stack[y] = d.stack[y]
  BY <1>1, <1>4, <1>5
<1>9. Suspended(d, j)
  BY <1>0, <1>2 DEF AllSuspended
<1>10. QED
  BY <1>5, <1>6, <1>7, <1>8, <1>9, SuspendedStays DEF x

\* The packet starts with nothing laid out.
LEMMA EnterRunning ==
  ASSUME NEW d \in State, NEW c \in Char, NEW after \in Int, NEW e \in State, Enters(d, e, c, after),
         d.frames # << >>, d.lr.mode = Left, d.lr.widths = << >>
  PROVE  Running(e, 0)
<1> DEFINE n == Len(d.frames)
           f == e.frames[n + 1]
           a == Laid(f.code, f.start, 0)
           x == Len(d.stack)
<1>1. n \in Nat /\ n >= 1 /\ Len(e.frames) = n + 1 /\ n + 1 # 1 /\ f = NewFrame(d, c, after)
  BY FramesLen DEF Enters
<1>2. /\ f.start.regs = Regs(e) /\ f.start.font = e.font /\ f.set = << >> /\ f.below = x
  BY <1>1 DEF Enters, NewFrame
<1> HIDE DEF f
<1>3. a = [regs |-> Regs(e), font |-> e.font, sign |-> 1, stack |-> << >>, widths |-> << >>, set |-> << >>]
  BY <1>2, LaidNext DEF Blank
<1>4. Here(e) = << >>
  <2>1. Base(e, n + 1) = x + 1 /\ Len(e.stack) = x + 1
    BY <1>1, <1>2 DEF Base, Enters, f
  <2>2. x \in Nat /\ e.stack \in Seq(RegSet)
    BY StateFields, LenProperties DEF Stacks
  <2> HIDE DEF x
  <2>3. CutOK(RegSet, e.stack, x + 1, x + 1)
    BY <2>1, <2>2 DEF CutOK
  <2>4. Here(e) = Cut(e.stack, x + 1, x + 1)
    BY <1>1, <2>1 DEF Here
  <2>5. Here(e) \in Seq(RegSet) /\ Len(Here(e)) = (x + 1) - (x + 1)
    BY <2>3, <2>4, CutIs
  <2>6. Len(Here(e)) = 0
    BY <2>2, <2>5
  <2>7. QED
    BY <2>5, <2>6, EmptySeq
<1>5. a \in Layouts
  <2>1. Regs(e) \in RegSet /\ e.font \in AnyFont
    BY RegsType, StateFields
  <2>2. << >> \in Stacks /\ << >> \in Widths /\ << >> \in GlyphSeq
    BY DEF Stacks, Widths, GlyphSeq
  <2>3. QED
    BY <1>3, <2>1, <2>2 DEF Layouts
<1>6. e.lr.widths = << >> /\ Sign(e.lr.mode) = 1
  BY DEF Enters, Sign, Left
<1> HIDE DEF a
<1>7. Views(e, a)
  BY <1>1, <1>2, <1>3, <1>4, <1>5, <1>6 DEF Views, f
<1>8. ClosedUpTo(f.code, 0)
  BY DEF ClosedUpTo
<1>9. QED
  BY <1>1, <1>7, <1>8 DEF Running, a, f

LEMMA EntersLayout ==
  ASSUME NEW d, NEW k, NEW i, Ready(d, k, i), ~Skims(d), AllSuspended(d), Running(d, k),
         i.op \in {"set", "put"}, Kind(d.font) = "virtual", d.font # NoFont, NEW after \in Int,
         NEW e, e = EnterVf(d, i.char, after), e.status # "failed",
         i.op = "set" => after = Width[d.font][i.char], i.op = "put" => after = 0
  PROVE  AllSuspended(e) /\ Running(e, 0) /\ Top(e).pc - 1 = 0 /\ ~Skims(e)
<1>0. PICK n : n = Len(d.frames)
  OBVIOUS
<1> DEFINE f == d.frames[n]
           c == f.code
           a == Laid(c, f.start, k)
           b == Laid(c, f.start, k + 1)
           x == i.char
<1>1. Standing(d, k) /\ i = c[k + 1] /\ k + 1 \in 1..Len(c) /\ f.pc = k + 2 /\ k \in Nat /\ d \in State
  BY <1>0, ReadyTop DEF Ready
<1>2. Views(d, a) /\ ClosedUpTo(c, k)
  BY <1>0 DEF Running
<1>3. Stepping(d, k, i, a)
  BY <1>2 DEF Stepping
<1>4. x \in Char /\ a \in Layouts /\ a.font = d.font
  BY <1>2, <1>3, SteppingIs DEF Instr, Views
<1>5. d.font \in HasVf
  BY DEF Kind
<1>6. ~Turning(d.doc)
  BY ReadyIs
<1>7. d.lr.mode = Left
  BY <1>6, ReadyIs
<1>8. d.lr.widths = << >> /\ Len(d.saved) = n - 1 /\ n \in Nat /\ n >= 1
  <2>1. TurnsOK(d, k) /\ Len(d.frames) = Len(d.saved) + 1 /\ Len(d.saved) \in Nat
    BY ReadyIs DEF OnPage
  <2>2. Len(d.lr.widths) = 0 /\ d.lr.widths \in Seq(Int)
    BY <1>1, <1>6, <2>1, LrFields DEF TurnsOK
  <2>3. d.lr.widths = << >>
    BY <2>2, EmptySeq
  <2>4. QED
    BY <1>0, <2>1, <2>3
<1>9. e \in State /\ Enters(d, e, x, after)
  <2>1. d.frames # << >>
    BY <1>1 DEF Standing
  <2>2. QED
    BY <1>1, <1>4, <1>5, <2>1, EnterVfIs DEF Fails
<1>10. b = Lay(a, c, k + 1)
  BY <1>1, LaidNext
<1>11. Boxes(a, b, Mark(a, x), after)
  <2>1. a.sign = 1
    BY <1>2, <1>7 DEF Views, Sign, Left
  <2>2. CASE i.op = "set"
    <3>1. b = Box(a, x, Width[a.font][x])
      BY <1>1, <1>10, <2>2 DEF Lay
    <3>2. after = Width[a.font][x]
      BY <1>4, <2>2
    <3> HIDE DEF a, b, x
    <3>3. QED
      BY <1>4, <2>1, <3>1, <3>2, BoxIs
  <2>3. CASE i.op = "put"
    <3>1. b = Place(a, x)
      BY <1>1, <1>10, <2>3 DEF Lay
    <3> HIDE DEF a, b, x
    <3>2. QED
      BY <1>4, <2>1, <2>3, <3>1, BoxIs
  <2>4. QED
    BY <2>2, <2>3
<1>12. ClosedUpTo(c, k + 1)
  BY <1>1, <1>2, ClosedNext
<1> HIDE DEF x
<1>13. Suspended(e, n)
  <2>1. Awaits(e, n, b)
    <3> HIDE DEF a, b
    <3>1. QED
      BY <1>0, <1>1, <1>2, <1>4, <1>7, <1>8, <1>9, <1>11, EnterAwaits
  <2>2. e.frames[n].code = c /\ e.frames[n].start = f.start /\ e.frames[n].pc - 1 = k + 1
    <3>1. n \in 1..n
      BY <1>8
    <3>2. SameFrame(f, e.frames[n])
      BY <1>0, <1>9, <3>1 DEF Enters
    <3>3. e.frames[n].code = c /\ e.frames[n].start = f.start /\ e.frames[n].pc = k + 2
      BY <1>1, <3>2 DEF SameFrame
    <3>4. (k + 2) - 1 = k + 1
      BY <1>1
    <3>5. QED
      BY <3>3, <3>4
  <2>3. QED
    BY <1>12, <2>1, <2>2 DEF Suspended
<1>14. AllSuspended(e)
  <2>1. Len(e.frames) = n + 1
    BY <1>0, <1>9 DEF Enters
  <2>2. \A j \in 1..n - 1 : Suspended(e, j)
    BY <1>0, <1>1, <1>8, <1>9, EnterLower
  <2>3. \A j \in 1..n : j = n \/ j \in 1..n - 1
    BY <1>8
  <2>4. (n + 1) - 1 = n
    BY <1>8
  <2>5. QED
    BY <1>13, <2>1, <2>2, <2>3, <2>4 DEF AllSuspended
<1>15. Running(e, 0)
  <2>1. d.frames # << >>
    BY <1>1 DEF Standing
  <2>2. QED
    BY <1>1, <1>4, <1>7, <1>8, <1>9, <2>1, EnterRunning
<1>16. Top(e).pc - 1 = 0
  <2>1. Len(e.frames) = n + 1 /\ e.frames[n + 1] = NewFrame(d, x, after)
    BY <1>0, <1>9 DEF Enters
  <2>2. Last(e.frames) = e.frames[Len(e.frames)]
    BY DEF Last
  <2>3. QED
    BY <2>1, <2>2 DEF Top, NewFrame
<1>17. ~Skims(e)
  BY <1>9 DEF Enters, Skims
<1>18. QED
  BY <1>14, <1>15, <1>16, <1>17

LEMMA LeavesLayout ==
  ASSUME NEW d, Kept(d), Ending(d), AllSuspended(d), NEW e, e = LeaveVf(d)
  PROVE  AllSuspended(e) /\ Running(e, Top(e).pc - 1) /\ ~Skims(e)
<1>0. PICK n : n = Len(d.frames)
  OBVIOUS
<1> DEFINE k == Top(d).pc - 1
           j == n - 1
           f == d.frames[j]
           c == f.code
           a == Laid(c, f.start, f.pc - 1)
           y == d.frames[n].below
           m == Base(d, j)
<1>1. d \in State /\ OnPage(d, k) /\ d.status = "page"
  BY PageIs DEF Ending
<1>2. /\ n \in Nat /\ n > 1 /\ d.frames # << >> /\ d.stack # << >> /\ d.saved # << >>
      /\ d.lr.mode = Left /\ d.lr.widths = << >> /\ ~Skims(d)
      /\ Len(d.stack) = y + 1 /\ y \in Nat /\ Len(d.saved) = n - 1
  BY <1>0, <1>1, EndingIs
<1>3. /\ e \in State /\ Leaves(d, e) /\ Len(e.frames) = n - 1
      /\ \A x \in 1..n - 1 : e.frames[x] = d.frames[x]
  BY <1>0, <1>1, LeaveKeeps
<1>4. Standing(d, k)
  <2>1. PICK p \in Nat : p = Len(d.frames) /\ Top(d) = d.frames[p] /\ Len(Top(d).code) \in Nat
                         /\ Top(d).pc \in 1..Len(Top(d).code) + 1 /\ Top(d).pc - 1 \in Nat
    BY <1>1, PageIs
  <2>2. k \in 0..Len(d.frames[Len(d.frames)].code)
    BY <2>1
  <2>3. QED
    BY <1>1, <1>2, <2>2 DEF Standing
<1>5. /\ d.stack \in Seq(RegSet) /\ e.stack \in Seq(RegSet) /\ e.stack = Front(d.stack) /\ Len(e.stack) = y
      /\ (\A x \in 1..y : e.stack[x] = d.stack[x]) /\ Last(d.stack) = d.stack[y + 1]
  <2>1. d.stack \in Seq(RegSet) /\ e.stack = Front(d.stack)
    BY <1>1, <1>3, StateFields DEF Stacks, Leaves
  <2>2. /\ Front(d.stack) \in Seq(RegSet) /\ Len(Front(d.stack)) = Len(d.stack) - 1
        /\ \A x \in 1..Len(d.stack) - 1 : Front(d.stack)[x] = d.stack[x]
        /\ Last(d.stack) = d.stack[Len(d.stack)]
    BY <1>2, <2>1, FrontLast
  <2>3. (y + 1) - 1 = y
    BY <1>2
  <2>4. QED
    BY <1>2, <2>1, <2>2, <2>3
<1>6. /\ d.saved \in Seq(AnyFont) /\ e.saved = Front(d.saved) /\ Last(d.saved) = d.saved[n - 1]
      /\ \A x \in 1..n - 2 : e.saved[x] = d.saved[x]
  <2>1. d.saved \in Seq(AnyFont) /\ e.saved = Front(d.saved)
    BY <1>1, <1>3, StateFields DEF Saves, Leaves
  <2>2. /\ \A x \in 1..Len(d.saved) - 1 : Front(d.saved)[x] = d.saved[x]
        /\ Last(d.saved) = d.saved[Len(d.saved)]
    BY <1>2, <2>1, FrontLast
  <2>3. (n - 1) - 1 = n - 2
    BY <1>2
  <2>4. QED
    BY <1>2, <2>1, <2>2, <2>3
<1>7. ASSUME NEW x \in 1..(n - 1) - 1 PROVE Suspended(e, x)
  <2>1. x \in 1..n - 1 /\ x + 1 \in 2..n /\ x + 1 < n /\ x + 1 \in 1..n - 1 /\ x \in 1..n - 2 /\ n \in 2..n
    BY <1>2
  <2>2. d.frames[x + 1].below \in Nat /\ d.frames[x + 1].below < y
    BY <1>0, <1>4, <2>1, BelowGrows
  <2>3. e.frames[x] = d.frames[x] /\ e.frames[x + 1] = d.frames[x + 1] /\ e.saved[x] = d.saved[x]
    BY <1>3, <1>6, <2>1
  <2> HIDE DEF y
  <2>4. /\ d.frames[x + 1].below + 1 <= Len(d.stack) /\ d.frames[x + 1].below + 1 <= Len(e.stack)
        /\ \A z \in 1..d.frames[x + 1].below + 1 : e.stack[z] = d.stack[z]
    BY <1>2, <1>5, <2>2
  <2>5. Suspended(d, x) /\ x \in 1..Len(d.frames) - 1
    BY <1>0, <2>1 DEF AllSuspended
  <2>6. QED
    BY <1>4, <1>5, <2>3, <2>4, <2>5, SuspendedStays
<1>8. AllSuspended(e)
  BY <1>3, <1>7 DEF AllSuspended
<1>9. j \in 1..n - 1 /\ j + 1 = n /\ e.frames[j] = f /\ Len(e.frames) = j
  <2>1. j \in 1..n - 1 /\ j + 1 = n
    BY <1>2
  <2>2. QED
    BY <1>3, <2>1
<1>10. ClosedUpTo(c, f.pc - 1) /\ Awaits(d, j, a)
  BY <1>0, <1>9 DEF AllSuspended, Suspended
<1>11. /\ a \in Layouts /\ a.regs = ShiftRegs(d.stack[y + 1], d.frames[n].after) /\ a.font = d.saved[j]
       /\ a.sign = 1 /\ a.stack = Cut(d.stack, m, y) /\ a.widths = << >> /\ a.set = f.set
  BY <1>9, <1>10 DEF Awaits
<1>12. /\ Regs(e) = ShiftRegs(d.stack[y + 1], d.frames[n].after) /\ e.font = d.saved[j]
       /\ e.lr = d.lr
  <2>1. Top(d) = d.frames[n]
    BY <1>0 DEF Top, Last
  <2>2. QED
    BY <1>3, <1>5, <1>6, <2>1 DEF Leaves
<1>13. Here(e) = Cut(d.stack, m, y)
  <2>1. m \in Nat /\ m <= y
    <3>1. j \in 1..Len(d.frames) /\ j # Len(d.frames)
      BY <1>0, <1>2, <1>9
    <3>2. Depth(d, j) = y
      BY <1>9, <3>1 DEF Depth
    <3>3. QED
      BY <1>4, <3>1, <3>2, FrameBase
  <2>2. Base(e, j) = m
    BY <1>9 DEF Base
  <2> HIDE DEF m, y
  <2>3. CutOK(RegSet, d.stack, m, y) /\ CutOK(RegSet, e.stack, m, y) /\ \A x \in m + 1..y : e.stack[x] = d.stack[x]
    <3>1. \A x \in m + 1..y : x \in 1..y
      BY <2>1
    <3>2. y <= y + 1
      BY <1>2
    <3>3. QED
      BY <1>2, <1>5, <2>1, <3>1, <3>2 DEF CutOK
  <2>4. Cut(e.stack, m, y) = Cut(d.stack, m, y)
    BY <2>3, CutSame
  <2>5. QED
    BY <1>5, <1>9, <2>2, <2>4 DEF Here
<1>14. Running(e, Top(e).pc - 1)
  <2>1. Top(e) = f
    BY <1>9 DEF Top, Last
  <2>2. Sign(e.lr.mode) = 1 /\ e.lr.widths = << >>
    BY <1>2, <1>12 DEF Sign, Left
  <2> HIDE DEF a, m, y, j
  <2>3. Views(e, a)
    BY <1>9, <1>11, <1>12, <1>13, <2>2 DEF Views
  <2>4. QED
    BY <1>9, <1>10, <2>1, <2>3 DEF Running, a
<1>15. ~Skims(e)
  BY <1>2, <1>12 DEF Skims
<1>16. QED
  BY <1>8, <1>14, <1>15

(***************************************************************************)
(* A segment that is being measured.                                        *)
(***************************************************************************)
Measures == [w : Int, font : AnyFont, depth : Nat]
\* a is the layout before the segment, m what has been measured of it.
Gauges(d, a, m) ==
  /\ a \in Layouts /\ m \in Measures
  /\ a.regs = Regs(d) /\ a.font = d.lr.state.font /\ a.sign = Sign(d.lr.state.mode)
  /\ a.set = d.frames[1].set
  /\ Extends(d.stack, a.stack) /\ Extends(d.lr.widths, a.widths)
  /\ \A y \in Len(a.stack) + 1..Len(d.stack) : d.stack[y] = Regs(d)
  /\ m.font = d.font /\ m.depth = Len(d.stack) - Len(a.stack)
  /\ m.depth = Len(d.lr.widths) - Len(a.widths)
  /\ m.w = IF m.depth = 0 THEN d.lr.width ELSE d.lr.widths[Len(a.widths) + 1]
\* What a step of a segment leaves alone.
Skimmed(d, e) ==
  /\ e \in State /\ e.frames = d.frames /\ e.saved = d.saved /\ Regs(e) = Regs(d)
  /\ e.lr.state = d.lr.state /\ e.lr.mode >= Skimming
WidenBy(m, x) == IF m.depth = 0 THEN [m EXCEPT !.w = @ + x] ELSE m

LEMMA MeasuresFields ==
  ASSUME NEW m \in Measures
  PROVE  m.w \in Int /\ m.font \in AnyFont /\ m.depth \in Nat
BY DEF Measures

LEMMA GaugesLens ==
  ASSUME NEW d \in State, NEW a, NEW m, Gauges(d, a, m)
  PROVE  /\ Len(a.stack) \in Nat /\ Len(d.stack) \in Nat /\ Len(a.stack) <= Len(d.stack)
         /\ Len(a.widths) \in Nat /\ Len(d.lr.widths) \in Nat /\ Len(a.widths) <= Len(d.lr.widths)
         /\ d.stack \in Seq(RegSet) /\ d.lr.widths \in Seq(Int) /\ d.lr.width \in Int
         /\ a.stack \in Seq(RegSet) /\ a.widths \in Seq(Int) /\ m \in Measures /\ m.depth \in Nat
<1>1. a.stack \in Seq(RegSet) /\ a.widths \in Seq(Int) /\ m \in Measures /\ m.depth \in Nat
  BY LayoutFields, MeasuresFields DEF Gauges, Stacks, Widths
<1>2. d.stack \in Seq(RegSet) /\ d.lr.widths \in Seq(Int) /\ d.lr.width \in Int
  BY StateFields, LrFields DEF Stacks
<1>3. Len(a.stack) <= Len(d.stack) /\ Len(a.widths) <= Len(d.lr.widths)
  BY DEF Gauges, Extends
<1>4. QED
  BY <1>1, <1>2, <1>3, LenProperties

LEMMA GaugeWide ==
  ASSUME NEW d \in State, NEW a, NEW m, Gauges(d, a, m), NEW e, Skimmed(d, e), e.stack = d.stack,
         e.font = d.font, e.lr.widths = d.lr.widths, NEW x \in Int, e.lr.width = d.lr.width + x
  PROVE  Gauges(e, a, WidenBy(m, x))
<1> DEFINE y == WidenBy(m, x)
<1>1. m \in Measures /\ m.w \in Int /\ d.lr.width \in Int /\ m.depth \in Nat
  BY GaugesLens, MeasuresFields
<1>2. /\ y \in Measures /\ y.font = m.font /\ y.depth = m.depth
      /\ y.w = IF m.depth = 0 THEN m.w + x ELSE m.w
  BY <1>1 DEF Measures, WidenBy
<1> HIDE DEF y
<1>3. y.w = IF y.depth = 0 THEN e.lr.width ELSE e.lr.widths[Len(a.widths) + 1]
  BY <1>2 DEF Gauges
<1>4. Gauges(e, a, y)
  BY <1>2, <1>3 DEF Gauges, Skimmed
<1>5. QED
  BY <1>4 DEF y

LEMMA GaugeFont ==
  ASSUME NEW d \in State, NEW a, NEW m, Gauges(d, a, m), NEW e, Skimmed(d, e), e.stack = d.stack,
         NEW f \in Font, e.font = f, e.lr.widths = d.lr.widths, e.lr.width = d.lr.width
  PROVE  Gauges(e, a, [m EXCEPT !.font = f])
<1> DEFINE y == [m EXCEPT !.font = f]
<1>1. m \in Measures /\ f \in AnyFont
  BY GaugesLens DEF AnyFont
<1>2. y \in Measures /\ y.font = f /\ y.depth = m.depth /\ y.w = m.w
  BY <1>1 DEF Measures
<1> HIDE DEF y
<1>3. Gauges(e, a, y)
  BY <1>2 DEF Gauges, Skimmed
<1>4. QED
  BY <1>3 DEF y

LEMMA ExtendsAppend ==
  ASSUME NEW S, NEW p \in Seq(S), NEW q \in Seq(S), Extends(p, q), NEW x \in S
  PROVE  Extends(Append(p, x), q)
<1>1. Len(Append(p, x)) = Len(p) + 1 /\ Len(p) \in Nat /\ Len(q) \in Nat
      /\ \A y \in 1..Len(p) : Append(p, x)[y] = p[y]
  BY AppendProperties, LenProperties
<1>2. Len(q) <= Len(p) /\ \A y \in 1..Len(q) : p[y] = q[y]
  BY DEF Extends
<1>3. QED
  BY <1>1, <1>2 DEF Extends

LEMMA ExtendsFront ==
  ASSUME NEW S, NEW p \in Seq(S), NEW q \in Seq(S), Extends(p, q), Len(q) < Len(p)
  PROVE  Extends(Front(p), q) /\ p # << >>
<1>1. Len(p) \in Nat /\ Len(q) \in Nat /\ p # << >>
  BY LenProperties
<1>2. Len(Front(p)) = Len(p) - 1 /\ \A y \in 1..Len(p) - 1 : Front(p)[y] = p[y]
  BY <1>1, FrontLast
<1>3. Len(q) <= Len(p) /\ \A y \in 1..Len(q) : p[y] = q[y]
  BY DEF Extends
<1>4. QED
  BY <1>1, <1>2, <1>3 DEF Extends

LEMMA GaugePush ==
  ASSUME NEW d \in State, NEW a, NEW m, Gauges(d, a, m), NEW e, Skimmed(d, e),
         e.stack = Append(d.stack, Regs(d)), e.font = d.font,
         e.lr.widths = Append(d.lr.widths, d.lr.width), e.lr.width = d.lr.width
  PROVE  Gauges(e, a, [m EXCEPT !.depth = @ + 1])
<1> DEFINE y == [m EXCEPT !.depth = @ + 1]
           n == Len(a.stack)
           x == Len(a.widths)
           N == Len(d.stack)
           X == Len(d.lr.widths)
<1>1. /\ n \in Nat /\ N \in Nat /\ n <= N /\ x \in Nat /\ X \in Nat /\ x <= X
      /\ d.stack \in Seq(RegSet) /\ d.lr.widths \in Seq(Int) /\ d.lr.width \in Int
      /\ a.stack \in Seq(RegSet) /\ a.widths \in Seq(Int) /\ m \in Measures /\ m.depth \in Nat
      /\ Regs(d) \in RegSet
  BY GaugesLens, RegsType
<1>2. y \in Measures /\ y.font = m.font /\ y.depth = m.depth + 1 /\ y.w = m.w
  <2>1. m \in Measures /\ m.depth \in Nat /\ m.depth + 1 \in Nat
    BY <1>1
  <2>2. QED
    BY <2>1 DEF Measures
<1>3. Extends(e.stack, a.stack) /\ Extends(e.lr.widths, a.widths)
  BY <1>1, ExtendsAppend DEF Gauges
<1>4. Len(e.stack) = N + 1 /\ e.stack[N + 1] = Regs(d) /\ \A z \in 1..N : e.stack[z] = d.stack[z]
  BY <1>1, AppendProperties
<1>5. Len(e.lr.widths) = X + 1 /\ e.lr.widths[X + 1] = d.lr.width
      /\ \A z \in 1..X : e.lr.widths[z] = d.lr.widths[z]
  BY <1>1, AppendProperties
<1>6. m.depth = N - n /\ m.depth = X - x /\ m.font = d.font
      /\ m.w = (IF m.depth = 0 THEN d.lr.width ELSE d.lr.widths[x + 1])
      /\ \A z \in n + 1..N : d.stack[z] = Regs(d)
  BY DEF Gauges
<1> HIDE DEF y, n, x, N, X
<1>7. \A z \in n + 1..N + 1 : e.stack[z] = Regs(d)
  <2>1. \A z \in n + 1..N + 1 : z = N + 1 \/ (z \in n + 1..N /\ z \in 1..N)
    BY <1>1
  <2>2. QED
    BY <1>4, <1>6, <2>1
<1>8. y.depth = (N + 1) - n /\ y.depth = (X + 1) - x /\ y.depth # 0
  BY <1>1, <1>2, <1>6
<1>9. y.w = e.lr.widths[x + 1]
  <2>1. CASE m.depth = 0
    <3>1. x = X
      BY <1>1, <1>6, <2>1
    <3>2. QED
      BY <1>2, <1>5, <1>6, <2>1, <3>1
  <2>2. CASE m.depth # 0
    <3>1. x + 1 \in 1..X
      <4>1. X - x # 0
        BY <1>6, <2>2
      <4>2. x \in Nat /\ X \in Nat /\ x <= X
        BY <1>1
      <4>3. QED
        BY <4>1, <4>2
    <3>2. e.lr.widths[x + 1] = d.lr.widths[x + 1]
      BY <1>5, <3>1
    <3>3. y.w = d.lr.widths[x + 1]
      BY <1>2, <1>6, <2>2
    <3>4. QED
      BY <3>2, <3>3
  <2>3. QED
    BY <2>1, <2>2
<1>10. /\ a \in Layouts /\ a.regs = Regs(e) /\ a.font = e.lr.state.font /\ a.sign = Sign(e.lr.state.mode)
       /\ a.set = e.frames[1].set /\ y.font = e.font /\ Regs(e) = Regs(d)
  BY <1>2 DEF Gauges, Skimmed
<1>11. Len(e.stack) = N + 1 /\ Len(e.lr.widths) = X + 1
  BY <1>4, <1>5
<1>12. Gauges(e, a, y)
  BY <1>2, <1>3, <1>7, <1>8, <1>9, <1>10, <1>11 DEF Gauges, n, x
<1>13. QED
  BY <1>12 DEF y

LEMMA GaugePop ==
  ASSUME NEW d \in State, NEW a, NEW m, Gauges(d, a, m), NEW e, Skimmed(d, e),
         Len(a.stack) < Len(d.stack), e.stack = Front(d.stack), e.font = d.font,
         e.lr.widths = Front(d.lr.widths), e.lr.width = Last(d.lr.widths)
  PROVE  Gauges(e, a, [m EXCEPT !.depth = @ - 1])
<1> DEFINE y == [m EXCEPT !.depth = @ - 1]
           n == Len(a.stack)
           x == Len(a.widths)
           N == Len(d.stack)
           X == Len(d.lr.widths)
<1>1. /\ n \in Nat /\ N \in Nat /\ n < N /\ x \in Nat /\ X \in Nat /\ x <= X
      /\ d.stack \in Seq(RegSet) /\ d.lr.widths \in Seq(Int) /\ d.lr.width \in Int
      /\ a.stack \in Seq(RegSet) /\ a.widths \in Seq(Int) /\ m \in Measures /\ m.depth \in Nat
  BY GaugesLens
<1>2. m.depth = N - n /\ m.depth = X - x /\ m.font = d.font
      /\ m.w = (IF m.depth = 0 THEN d.lr.width ELSE d.lr.widths[x + 1])
      /\ \A z \in n + 1..N : d.stack[z] = Regs(d)
  BY DEF Gauges
<1>3. m.depth >= 1 /\ x < X
  <2> HIDE DEF n, x, N, X
  <2>1. QED
    BY <1>1, <1>2
<1>4. m.depth - 1 \in Nat
  BY <1>1, <1>3
<1>5. y \in Measures /\ y.font = m.font /\ y.depth = m.depth - 1 /\ y.w = m.w
  BY <1>1, <1>4 DEF Measures
<1>6. Extends(e.stack, a.stack) /\ Extends(e.lr.widths, a.widths) /\ d.stack # << >> /\ d.lr.widths # << >>
  BY <1>1, <1>3, ExtendsFront DEF Gauges
<1>7. Len(e.stack) = N - 1 /\ \A z \in 1..N - 1 : e.stack[z] = d.stack[z]
  <2>1. \A S : \A p \in Seq(S) : p # << >> =>
          /\ Len(Front(p)) = Len(p) - 1 /\ \A z \in 1..Len(p) - 1 : Front(p)[z] = p[z]
    BY FrontLast
  <2>2. d.stack \in Seq(RegSet) /\ d.stack # << >>
    BY <1>1, <1>6
  <2>3. QED
    BY <2>1, <2>2
<1>8. Len(e.lr.widths) = X - 1 /\ e.lr.width = d.lr.widths[X]
      /\ \A z \in 1..X - 1 : e.lr.widths[z] = d.lr.widths[z]
  <2>1. \A S : \A p \in Seq(S) : p # << >> =>
          /\ Len(Front(p)) = Len(p) - 1 /\ Last(p) = p[Len(p)]
          /\ \A z \in 1..Len(p) - 1 : Front(p)[z] = p[z]
    BY FrontLast
  <2>2. d.lr.widths \in Seq(Int) /\ d.lr.widths # << >>
    BY <1>1, <1>6
  <2>3. QED
    BY <2>1, <2>2
<1> HIDE DEF y, n, x, N, X
<1>9. \A z \in n + 1..N - 1 : e.stack[z] = Regs(d)
  <2>1. \A z \in n + 1..N - 1 : z \in n + 1..N /\ z \in 1..N - 1
    BY <1>1
  <2>2. QED
    BY <1>2, <1>7, <2>1
<1>10. y.depth = (N - 1) - n /\ y.depth = (X - 1) - x
  BY <1>1, <1>2, <1>5
<1>11. y.w = IF y.depth = 0 THEN e.lr.width ELSE e.lr.widths[x + 1]
  <2>1. y.w = d.lr.widths[x + 1]
    BY <1>2, <1>3, <1>1, <1>5
  <2>2. CASE y.depth = 0
    <3>1. x + 1 = X
      BY <1>1, <1>10, <2>2
    <3>2. QED
      BY <1>8, <2>1, <2>2, <3>1
  <2>3. CASE y.depth # 0
    <3>1. x + 1 \in 1..X - 1
      BY <1>1, <1>3, <1>10, <2>3
    <3>2. QED
      BY <1>8, <2>1, <2>3, <3>1
  <2>4. QED
    BY <2>2, <2>3
<1>12. /\ a \in Layouts /\ a.regs = Regs(e) /\ a.font = e.lr.state.font /\ a.sign = Sign(e.lr.state.mode)
       /\ a.set = e.frames[1].set /\ y.font = e.font /\ Regs(e) = Regs(d)
  BY <1>5 DEF Gauges, Skimmed
<1>13. Len(e.stack) = N - 1 /\ Len(e.lr.widths) = X - 1
  BY <1>7, <1>8
<1>14. Gauges(e, a, y)
  BY <1>5, <1>6, <1>9, <1>10, <1>11, <1>12, <1>13 DEF Gauges, n, x
<1>15. QED
  BY <1>14 DEF y

(***************************************************************************)
(* Steps that measure.                                                     *)
(***************************************************************************)
Gauging(d, k, i, a, m) == Ready(d, k, i) /\ Skims(d) /\ Gauges(d, a, m)

LEMMA SkimmingIs ==
  ASSUME NEW d, NEW k, NEW i, Ready(d, k, i), Skims(d)
  PROVE  /\ d \in State /\ i \in Instr /\ i \in InstrsOf(d.doc) /\ Len(d.frames) = 1 /\ ~InPacket(d)
         /\ d.frames # << >> /\ d.status = "page" /\ Measuring(d, k) /\ LinkInv(d)
         /\ d.link.mark = Len(d.stack) /\ d.lr.mode \in Nat /\ d.lr.mode >= Skimming
         /\ OnPage(d, k) /\ Turn(d, k, i) /\ k \in Nat /\ Turning(d.doc)
         /\ i.op \notin {"put", "w", "w0", "dir"}
<1>1. /\ d \in State /\ i \in Instr /\ d.frames # << >> /\ d.status = "page" /\ LinkInv(d) /\ k \in Nat
      /\ OnPage(d, k) /\ Turn(d, k, i) /\ d.link.mark = PageDepth(d)
      /\ Turning(d.doc) => Len(d.frames) = 1
      /\ ~Turning(d.doc) => ~Skims(d)
  BY ReadyIs
<1>2. Turning(d.doc) /\ Len(d.frames) = 1
  BY <1>1
<1>3. Measuring(d, k)
  BY <1>1 DEF OnPage, TurnsOK
<1>4. ~InPacket(d) /\ d.link.mark = Len(d.stack)
  BY <1>1, <1>2 DEF InPacket, PageDepth
<1>5. i \in InstrsOf(d.doc)
  BY <1>1, <1>2, TurnIs
<1>6. d.lr.mode \in Nat /\ d.lr.mode >= Skimming
  BY <1>1, LrFields DEF Skims
<1>7. i.op \notin {"put", "w", "w0", "dir"}
  <2>1. d.doc \in Documents
    BY <1>1, StateFields
  <2>2. PICK x \in InstrsOf(d.doc) : x.op = "breflect"
    BY <1>2 DEF Turning
  <2>3. QED
    BY <1>5, <2>1, <2>2, DocumentAssumption
<1>8. QED
  BY <1>1, <1>2, <1>3, <1>4, <1>5, <1>6, <1>7

LEMMA SkimStill ==
  ASSUME NEW d \in State, NEW a, NEW m, Gauges(d, a, m), NEW e, Skimmed(d, e), e.stack = d.stack,
         e.font = d.font, e.lr.widths = d.lr.widths, e.lr.width = d.lr.width
  PROVE  Gauges(e, a, WidenBy(m, 0))
<1>1. d.lr.width \in Int
  BY LrFields
<1>2. e.lr.width = d.lr.width + 0 /\ 0 \in Int
  BY <1>1
<1>3. QED
  BY <1>2, GaugeWide

LEMMA SkimRight ==
  ASSUME NEW d \in State, Skims(d), NEW a, NEW m, Gauges(d, a, m), NEW x \in Int,
         NEW e, e = MoveRight(d, x)
  PROVE  Skimmed(d, e) /\ Gauges(e, a, WidenBy(m, x))
<1>1. e = [d EXCEPT !.lr.width = @ + x]
  BY DEF MoveRight
<1>2. e \in State /\ Moves(d, e) /\ SamePlace(d, e) /\ e.lr.width = d.lr.width + x
  BY <1>1, WidthIs
<1>3. Skimmed(d, e)
  BY <1>2 DEF Moves, SamePlace, Skimmed, SameTurns, Regs, Skims
<1>4. e.stack = d.stack /\ e.font = d.font /\ e.lr.widths = d.lr.widths
  BY <1>2 DEF Moves, SameTurns
<1>5. QED
  BY <1>2, <1>3, <1>4, GaugeWide

\* There is more on the stack than where the segment began when it is popped.
LEMMA PopSkims ==
  ASSUME NEW d, NEW k, NEW i, Ready(d, k, i), Skims(d), i.op = "pop", NEW c, c = d.frames[1].code
  PROVE  Len(d.stack) > Count(Open(c, d.lr.state.pc - 2), "push")
<1> DEFINE p == Open(c, k)
           q == Open(c, d.lr.state.pc - 1)
           r == Open(c, d.lr.state.pc - 2)
           t == Open(c, k + 1)
<1>1. /\ d \in State /\ Measuring(d, k) /\ Len(d.frames) = 1 /\ OnPage(d, k) /\ Turn(d, k, i) /\ k \in Nat
  BY SkimmingIs
<1>2. /\ c \in Seq(Instr) /\ Formed(c) /\ Len(c) \in Nat /\ k + 1 \in 1..Len(c) /\ Turns(p, i, t)
      /\ p \in Opening
  BY <1>1, TurnIs
<1>3. k <= Len(c)
  BY <1>1, <1>2
<1>4. Gauge(d, c, k, d.lr.state.pc - 1, p, q, r)
  BY <1>1, <1>2, <1>3, MeasuringIs
<1>5. /\ q \in Opening /\ q # << >> /\ Last(q) = "breflect" /\ Extends(p, q)
      /\ Count(q, "push") = Count(r, "push") /\ Count(p, "push") \in Nat /\ Count(q, "push") \in Nat
  BY <1>4 DEF Gauge
<1> HIDE DEF p, q, r, t
<1>6. Count(p, "push") >= Count(q, "push") + 1
  BY <1>2, <1>5, ExtendsNext
<1>7. Len(d.stack) = Count(p, "push")
  <2>1. Standing(d, k)
    BY ReadyTop
  <2>2. Len(d.stack) = Base(d, 1) + Count(p, "push")
    BY <1>1, <2>1, TopStands DEF p
  <2>3. Base(d, 1) = 0
    BY DEF Base
  <2>4. QED
    BY <1>5, <2>2, <2>3
<1>8. QED
  BY <1>5, <1>6, <1>7 DEF r

LEMMA SkimsMove ==
  ASSUME NEW d, NEW k, NEW i, NEW a, NEW m, Gauging(d, k, i, a, m), NEW id,
         i.op \in {"set", "glyphs", "rule", "right"}, NEW e, e = Execute(d, i, id), e.status # "failed"
  PROVE  Skimmed(d, e) /\ Gauges(e, a, Measure(m, i))
<1>1. d \in State /\ i \in Instr /\ Skims(d) /\ Gauges(d, a, m) /\ m.font = d.font
  BY SkimmingIs DEF Gauging, Gauges
<1>2. Fail(d).status = "failed"
  BY <1>1, FailIs DEF Fails
<1>3. CASE i.op = "set"
  <2>1. e = SetChar(d, i.char)
    BY <1>3 DEF Execute
  <2>2. d.font # NoFont
    BY <1>2, <2>1 DEF SetChar
  <2>3. d.font \in Font /\ i.char \in Char
    BY <1>1, <1>3, <2>2, StateFields DEF AnyFont, Instr
  <2>4. e = MoveRight(d, Width[m.font][i.char])
    BY <1>1, <2>1, <2>2 DEF SetChar
  <2>5. Width[m.font][i.char] \in Int
    BY <1>1, <2>3, DviAssumption
  <2>6. Measure(m, i) = WidenBy(m, Width[m.font][i.char])
    BY <1>3 DEF Measure, WidenBy
  <2>7. QED
    BY <1>1, <2>4, <2>5, <2>6, SkimRight
<1>4. CASE i.op \in {"glyphs", "rule", "right"}
  <2>1. e = MoveRight(d, i.by)
    <3>1. CASE i.op = "glyphs"
      <4>1. e = SetGlyphs(d, i.glyphs, i.by)
        BY <3>1 DEF Execute
      <4>2. QED
        BY <1>1, <1>2, <4>1 DEF SetGlyphs
    <3>2. CASE i.op = "rule"
      <4>1. e = SetRule(d, i.by)
        BY <3>2 DEF Execute
      <4>2. QED
        <5>1. d.lr.mode # Left
          BY <1>1, LrFields DEF Skims, Skimming, Left
        <5>2. QED
          BY <1>1, <4>1, <5>1 DEF SetRule
    <3>3. CASE i.op = "right"
      BY <3>3 DEF Execute
    <3>4. QED
      BY <1>4, <3>1, <3>2, <3>3
  <2>2. i.by \in Int
    BY <1>1, <1>4 DEF Instr
  <2>3. Measure(m, i) = WidenBy(m, i.by)
    BY <1>4 DEF Measure, WidenBy
  <2>4. QED
    BY <1>1, <2>1, <2>2, <2>3, SkimRight
<1>5. QED
  BY <1>3, <1>4

LEMMA SkimsStay ==
  ASSUME NEW d, NEW k, NEW i, NEW a, NEW m, Gauging(d, k, i, a, m), NEW id,
         i.op \in {"down", "xxx", "breflect", "ereflect"},
         i.op = "ereflect" => d.lr.mode > Skimming, NEW e, e = Execute(d, i, id)
  PROVE  Skimmed(d, e) /\ Gauges(e, a, Measure(m, i))
<1>1. /\ d \in State /\ i \in Instr /\ Skims(d) /\ Gauges(d, a, m) /\ m.font = d.font /\ d.frames # << >>
      /\ d.lr.mode \in Nat /\ d.lr.mode >= Skimming
  BY SkimmingIs DEF Gauging, Gauges
<1>2. /\ Skimmed(d, e) /\ e.stack = d.stack /\ e.font = d.font /\ e.lr.widths = d.lr.widths
      /\ e.lr.width = d.lr.width
  <2>1. CASE i.op \in {"down", "xxx"}
    <3>1. e = d
      BY <1>1, <2>1 DEF Execute, MoveDown
    <3>2. QED
      BY <1>1, <3>1 DEF Skimmed
  <2>2. CASE i.op = "breflect"
    <3>1. e = BeginReflect(d)
      BY <2>2 DEF Execute
    <3>2. /\ e \in State /\ Reflects(d, e) /\ e.lr.widths = d.lr.widths /\ e.lr.mode = d.lr.mode + 1
          /\ e.lr.state = d.lr.state /\ e.lr.width = d.lr.width
      BY <1>1, <3>1, BeginReflectIs
    <3>3. e.lr.mode >= Skimming
      BY <1>1, <3>2 DEF Skimming
    <3>4. QED
      BY <3>2, <3>3 DEF Skimmed, Reflects, SamePlace, Regs
  <2>3. CASE i.op = "ereflect"
    <3>1. e = EndReflect(d) /\ d.lr.mode > Skimming
      BY <2>3 DEF Execute
    <3>2. /\ e \in State /\ Reflects(d, e) /\ e.lr.widths = d.lr.widths /\ e.lr.mode = d.lr.mode - 1
          /\ e.lr.state = d.lr.state /\ e.lr.width = d.lr.width
      BY <1>1, <3>1, EndInnerIs
    <3>3. e.lr.mode >= Skimming
      BY <1>1, <3>1, <3>2 DEF Skimming
    <3>4. QED
      BY <3>2, <3>3 DEF Skimmed, Reflects, SamePlace, Regs
  <2>4. QED
    BY <2>1, <2>2, <2>3
<1>3. Measure(m, i) = WidenBy(m, 0)
  BY DEF Measure, WidenBy
<1>4. QED
  BY <1>1, <1>2, <1>3, SkimStill

LEMMA SkimsStack ==
  ASSUME NEW d, NEW k, NEW i, NEW a, NEW m, Gauging(d, k, i, a, m), NEW id,
         i.op \in {"push", "pop"}, Len(a.stack) = Count(Open(d.frames[1].code, d.lr.state.pc - 2), "push"),
         NEW e, e = Execute(d, i, id), e.status # "failed"
  PROVE  Skimmed(d, e) /\ Gauges(e, a, Measure(m, i))
<1>1. /\ d \in State /\ i \in Instr /\ Skims(d) /\ Gauges(d, a, m) /\ d.frames # << >> /\ ~InPacket(d)
      /\ d.status = "page" /\ LinkInv(d) /\ d.link.mark = Len(d.stack) /\ OnPage(d, k) /\ Turn(d, k, i)
      /\ k \in Nat
  BY SkimmingIs DEF Gauging
<1>2. CASE i.op = "push"
  <2>1. e = PushOp(d)
    BY <1>1, <1>2 DEF Execute
  <2>2. Marks(d, e) /\ Pushes(d, e)
    BY <1>1, <2>1, PushOpIs
  <2>3. /\ Skimmed(d, e) /\ e.stack = Append(d.stack, Regs(d)) /\ e.font = d.font
        /\ e.lr.widths = Append(d.lr.widths, d.lr.width) /\ e.lr.width = d.lr.width
    BY <1>1, <2>2 DEF Marks, Pushes, Stacks1, Skimmed, SamePlace, Regs, Skims
  <2>4. Measure(m, i) = [m EXCEPT !.depth = @ + 1]
    BY <1>2 DEF Measure
  <2>5. Gauges(e, a, [m EXCEPT !.depth = @ + 1])
    BY <1>1, <2>3, GaugePush
  <2>6. QED
    BY <2>3, <2>4, <2>5
<1>3. CASE i.op = "pop"
  <2>1. e = PopOp(d)
    BY <1>1, <1>3 DEF Execute
  <2>2. d.stack # << >> /\ d.lr.widths # << >>
    BY <1>1, <1>3, PopCan
  <2>3. Marks(d, e) /\ Pops(d, e)
    BY <1>1, <2>1, <2>2, PopOpIs
  <2>4. Len(a.stack) < Len(d.stack)
    BY <1>1, <1>3, PopSkims DEF Gauging
  <2>5. Last(d.stack) = Regs(d)
    <3>1. Len(a.stack) \in Nat /\ Len(d.stack) \in Nat
      BY <1>1, GaugesLens
    <3>2. Len(d.stack) \in Len(a.stack) + 1..Len(d.stack)
      BY <2>4, <3>1
    <3>3. d.stack[Len(d.stack)] = Regs(d)
      BY <1>1, <3>2 DEF Gauges
    <3>4. QED
      BY <3>3 DEF Last
  <2>6. /\ Skimmed(d, e) /\ e.stack = Front(d.stack) /\ e.font = d.font
        /\ e.lr.widths = Front(d.lr.widths) /\ e.lr.width = Last(d.lr.widths)
    BY <1>1, <2>3, <2>5 DEF Marks, Pops, Stacks1, Skimmed, Skims
  <2>7. Measure(m, i) = [m EXCEPT !.depth = @ - 1]
    BY <1>3 DEF Measure
  <2>8. Gauges(e, a, [m EXCEPT !.depth = @ - 1])
    BY <1>1, <2>4, <2>6, GaugePop
  <2>9. QED
    BY <2>6, <2>7, <2>8
<1>4. QED
  BY <1>2, <1>3

LEMMA SkimsFont ==
  ASSUME NEW d, NEW k, NEW i, NEW a, NEW m, Gauging(d, k, i, a, m), NEW id,
         i.op = "fnt", NEW e, e = Execute(d, i, id), e.status # "failed"
  PROVE  Skimmed(d, e) /\ Gauges(e, a, Measure(m, i))
<1>1. d \in State /\ i \in Instr /\ Skims(d) /\ Gauges(d, a, m)
  BY SkimmingIs DEF Gauging
<1>2. i.font \in Font
  BY <1>1 DEF Instr
<1>3. e = [d EXCEPT !.font = i.font]
  <2>1. Fail(d).status = "failed"
    BY <1>1, FailIs DEF Fails
  <2>2. e = SelectFont(d, i.font)
    BY DEF Execute
  <2>3. QED
    BY <2>1, <2>2 DEF SelectFont
<1>4. e \in State /\ e.frames = d.frames /\ e.saved = d.saved /\ Regs(e) = Regs(d) /\ e.lr = d.lr
      /\ e.stack = d.stack /\ e.font = i.font
  <2>1. i.font \in AnyFont
    BY <1>2 DEF AnyFont
  <2>2. QED
    BY <1>1, <1>3, <2>1 DEF State, Regs
<1>5. Skimmed(d, e)
  BY <1>1, <1>4 DEF Skimmed, Skims
<1>6. Measure(m, i) = [m EXCEPT !.font = i.font]
  BY DEF Measure
<1>7. Gauges(e, a, [m EXCEPT !.font = i.font])
  BY <1>1, <1>2, <1>4, <1>5, GaugeFont
<1>8. QED
  BY <1>5, <1>6, <1>7

\* An instruction of a segment that is being measured.
LEMMA ExecuteGauges ==
  ASSUME NEW d, NEW k, NEW i, NEW a, NEW m, Gauging(d, k, i, a, m), NEW id,
         Len(a.stack) = Count(Open(d.frames[1].code, d.lr.state.pc - 2), "push"),
         i.op = "ereflect" => d.lr.mode > Skimming,
         NEW e, e = Execute(d, i, id), e.status # "failed"
  PROVE  Skimmed(d, e) /\ Gauges(e, a, Measure(m, i))
<1>1. i \in Instr /\ i.op \notin {"put", "w", "w0", "dir"}
  BY SkimmingIs DEF Gauging
<1>2. i.op \in {"set", "glyphs", "rule", "right"} \/ i.op \in {"down", "xxx", "breflect", "ereflect"}
      \/ i.op \in {"push", "pop"} \/ i.op = "fnt"
  BY <1>1 DEF Instr
<1>3. QED
  BY <1>2, SkimsMove, SkimsStay, SkimsStack, SkimsFont

(***************************************************************************)
(* Reflected text: where it begins, is read again and ends.                 *)
(***************************************************************************)
Gauged(d, k) ==
  LET f == d.frames[1]
      b == d.lr.state.pc - 1
      a == Laid(f.code, f.start, d.lr.state.pc - 2)
  IN /\ ClosedUpTo(f.code, d.lr.state.pc - 2)
     /\ Len(a.stack) = Count(Open(f.code, d.lr.state.pc - 2), "push")
     /\ Gauges(d, a, Measured(f.code, b, d.lr.state.font, k - b))

LEMMA ReflectsTop ==
  ASSUME NEW d, NEW k, NEW i, Ready(d, k, i), i.op \in {"breflect", "ereflect"}, NEW f, f = d.frames[1]
  PROVE  /\ d \in State /\ k \in Nat /\ Len(d.frames) = 1 /\ d.frames # << >> /\ Standing(d, k)
         /\ OnPage(d, k) /\ Turn(d, k, i) /\ f.pc = k + 2 /\ i = f.code[k + 1] /\ k + 1 \in 1..Len(f.code)
         /\ f.code \in Seq(Instr) /\ Formed(f.code) /\ Len(f.code) \in Nat /\ Base(d, 1) = 0
         /\ CutOK(RegSet, d.stack, 0, Len(d.stack)) /\ Top(d) = f /\ d.status = "page"
         /\ Len(d.stack) = Count(Open(f.code, k), "push")
         /\ Turns(Open(f.code, k), i, Open(f.code, k + 1)) /\ Open(f.code, k) \in Opening
<1>1. /\ d \in State /\ d.frames # << >> /\ k \in Nat /\ OnPage(d, k) /\ Turn(d, k, i) /\ d.status = "page"
  BY ReadyIs
<1>2. Len(d.frames) = 1
  <2>1. PICK n \in Nat : n = Len(d.frames) /\ n >= 1
    BY <1>1, FramesLen
  <2>2. ~(n > 1)
    BY <1>1, <2>1, TurnIs
  <2>3. n = 1
    <3>1. \A x \in Nat : x >= 1 /\ ~(x > 1) => x = 1
      OBVIOUS
    <3>2. QED
      BY <2>1, <2>2, <3>1
  <2>4. QED
    BY <2>1, <2>3
<1>3. /\ f.code \in Seq(Instr) /\ Formed(f.code) /\ Len(f.code) \in Nat
      /\ Turns(Open(f.code, k), i, Open(f.code, k + 1)) /\ Open(f.code, k) \in Opening
  BY <1>1, <1>2, TurnIs
<1>4. Standing(d, k) /\ f.pc = k + 2 /\ i = f.code[k + 1] /\ k + 1 \in 1..Len(f.code)
  BY <1>2, ReadyTop
<1>5. Base(d, 1) = 0
  BY DEF Base
<1>6. /\ CutOK(RegSet, d.stack, 0, Len(d.stack)) /\ Len(d.stack) = 0 + Count(Open(f.code, k), "push")
      /\ Count(Open(f.code, k), "push") \in Nat
  <2>1. PICK n : n = Len(d.frames)
    OBVIOUS
  <2>2. /\ CutOK(RegSet, d.stack, Base(d, n), Len(d.stack))
        /\ Len(d.stack) = Base(d, n) + Count(Open(d.frames[n].code, k), "push")
        /\ Count(Open(d.frames[n].code, k), "push") \in Nat
    BY <1>4, <2>1, TopStands
  <2>3. n = 1
    BY <1>2, <2>1
  <2>4. QED
    BY <1>5, <2>2, <2>3
<1>7. Len(d.stack) = Count(Open(f.code, k), "push")
  BY <1>6
<1>8. Top(d) = f
  BY <1>2 DEF Top, Last
<1>9. QED
  BY <1>1, <1>2, <1>3, <1>4, <1>5, <1>6, <1>7, <1>8

\* The layout before a segment and the stack agree where it begins.
LEMMA WholeStack ==
  ASSUME NEW p, CutOK(RegSet, p, 0, Len(p))
  PROVE  Cut(p, 0, Len(p)) = p
<1> DEFINE q == Cut(p, 0, Len(p))
<1>1. p \in Seq(RegSet) /\ Len(p) \in Nat
  BY DEF CutOK
<1>2. q \in Seq(RegSet) /\ Len(q) = Len(p) - 0 /\ \A y \in 1..Len(p) - 0 : q[y] = p[0 + y]
  BY CutIs
<1> HIDE DEF q
<1>3. Len(q) = Len(p) /\ \A y \in 1..Len(p) : q[y] = p[y]
  <2>1. Len(p) - 0 = Len(p) /\ \A y \in 1..Len(p) : 0 + y = y
    BY <1>1
  <2>2. QED
    BY <1>2, <2>1
<1>4. q = p
  BY <1>1, <1>2, <1>3, SeqEqual
<1>5. QED
  BY <1>4 DEF q

LEMMA BeginGauged ==
  ASSUME NEW d, NEW k, NEW i, Ready(d, k, i), ~Skims(d), Running(d, k), i.op = "breflect",
         NEW e, e = BeginReflect(d)
  PROVE  Gauged(e, k + 1) /\ Skims(e) /\ Len(e.frames) = 1
<1>0. PICK f : f = d.frames[1]
  OBVIOUS
<1> DEFINE c == f.code
           a == Laid(c, f.start, k)
           m == Measured(c, k + 1, d.font, 0)
<1>1. /\ d \in State /\ k \in Nat /\ Len(d.frames) = 1 /\ d.frames # << >> /\ OnPage(d, k) /\ Turn(d, k, i)
      /\ f.pc = k + 2 /\ Base(d, 1) = 0 /\ CutOK(RegSet, d.stack, 0, Len(d.stack)) /\ Top(d) = f
      /\ Len(d.stack) = Count(Open(c, k), "push")
  BY <1>0, ReflectsTop
<1>2. ClosedUpTo(c, k) /\ Views(d, a)
  BY <1>0, <1>1 DEF Running
<1>3. d.lr.mode \in Mode
  BY <1>2, SteppingIs DEF Stepping, Sets
<1>4. /\ e \in State /\ Reflects(d, e) /\ e.lr.widths = d.lr.widths /\ e.lr.mode = Skimming /\ e.lr.width = 0
      /\ e.lr.state = [pc |-> f.pc, font |-> d.font, mode |-> d.lr.mode]
  BY <1>1, <1>3, BeginReflectIs
<1>5. /\ e.frames = d.frames /\ e.stack = d.stack /\ e.font = d.font /\ Regs(e) = Regs(d)
      /\ e.lr.state.font = d.font /\ e.lr.state.mode = d.lr.mode
  BY <1>4 DEF Reflects, SamePlace, Regs
<1>6. e.lr.state.pc - 2 = k /\ e.lr.state.pc - 1 = k + 1 /\ (k + 1) - (k + 1) = 0
  BY <1>1, <1>4
<1>7. m = [w |-> 0, font |-> d.font, depth |-> 0] /\ m \in Measures
  <2>1. m = [w |-> 0, font |-> d.font, depth |-> 0]
    BY MeasuredNext
  <2>2. d.font \in AnyFont
    BY <1>1, StateFields
  <2>3. QED
    BY <2>1, <2>2 DEF Measures
<1>8. a.stack = d.stack
  BY <1>1, <1>2, WholeStack DEF Views, Here
<1>9. /\ a \in Layouts /\ a.regs = Regs(d) /\ a.font = d.font /\ a.sign = Sign(d.lr.mode)
      /\ a.widths = d.lr.widths /\ a.set = f.set
  BY <1>0, <1>1, <1>2 DEF Views
<1>10. d.stack \in Seq(RegSet) /\ Len(d.stack) \in Nat /\ Len(d.lr.widths) \in Nat
  BY <1>1, LrFields DEF CutOK
<1> HIDE DEF a, m
<1>11. Gauges(e, a, m)
  <2>1. Extends(e.stack, a.stack) /\ Extends(e.lr.widths, a.widths)
    BY <1>4, <1>5, <1>8, <1>9, <1>10 DEF Extends
  <2>2. \A y \in Len(a.stack) + 1..Len(e.stack) : e.stack[y] = Regs(e)
    BY <1>5, <1>8, <1>10
  <2>3. m.font = e.font /\ m.depth = 0 /\ m.w = 0
    BY <1>5, <1>7
  <2>4. m.depth = Len(e.stack) - Len(a.stack) /\ m.depth = Len(e.lr.widths) - Len(a.widths)
    BY <1>4, <1>5, <1>8, <1>9, <1>10, <2>3
  <2>5. m.w = IF m.depth = 0 THEN e.lr.width ELSE e.lr.widths[Len(a.widths) + 1]
    BY <1>4, <2>3
  <2>6. a.set = e.frames[1].set
    BY <1>0, <1>5, <1>9
  <2>7. QED
    BY <1>5, <1>7, <1>9, <2>1, <2>2, <2>3, <2>4, <2>5, <2>6 DEF Gauges
<1>12. Gauged(e, k + 1)
  <2>1. e.frames[1] = f
    BY <1>0, <1>5
  <2>2. Len(a.stack) = Count(Open(c, k), "push")
    BY <1>1, <1>8
  <2>3. QED
    BY <1>2, <1>5, <1>6, <1>11, <2>1, <2>2 DEF Gauged, a, m
<1>13. Skims(e)
  BY <1>4 DEF Skims, Skimming
<1>14. QED
  BY <1>1, <1>5, <1>12, <1>13

LEMMA EndReflectRuns ==
  ASSUME NEW d, NEW k, NEW i, Ready(d, k, i), ~Skims(d), Running(d, k), i.op = "ereflect",
         NEW e, e = EndReflect(d)
  PROVE  Running(e, k + 1) /\ ~Skims(e) /\ Len(e.frames) = 1
<1>0. PICK f : f = d.frames[1]
  OBVIOUS
<1> DEFINE c == f.code
           a == Laid(c, f.start, k)
           b == Laid(c, f.start, k + 1)
           w == Last(a.widths)
<1>1. /\ d \in State /\ k \in Nat /\ Len(d.frames) = 1 /\ d.frames # << >> /\ OnPage(d, k) /\ Turn(d, k, i)
      /\ i = c[k + 1] /\ Top(d) = f
  BY <1>0, ReflectsTop
<1>2. ClosedUpTo(c, k) /\ Views(d, a)
  BY <1>0, <1>1 DEF Running
<1>3. e \in State /\ Unreflects(d, e)
  BY <1>1, EndReflectKeeps
<1>4. d.lr.mode \in {0, 1} /\ d.lr.widths # << >>
  <2>1. d.lr.mode \in {0, 1}
    BY <1>2, SteppingIs, SetsIs DEF Stepping
  <2>2. Turner(d, k, i, c, Open(c, k), Open(c, k + 1))
    BY <1>0, <1>1, TurnerIs
  <2>3. Len(d.lr.widths) = Count(Open(c, k), "breflect")
    BY <1>0, <2>2 DEF TurnsOK, Turner
  <2>4. Count(Open(c, k), "breflect") >= 1 /\ Count(Open(c, k), "breflect") \in Nat
    BY <2>2 DEF Turner, Tally
  <2>6. Len(d.lr.widths) # 0
    BY <2>3, <2>4
  <2>5. QED
    BY <2>1, <2>6, EmptySeq
<1>5. a \in Layouts /\ a.widths = d.lr.widths /\ a.sign = Sign(d.lr.mode) /\ a.regs = Regs(d)
      /\ a.font = d.font /\ a.stack = Here(d) /\ a.set = f.set
  BY <1>0, <1>1, <1>2 DEF Views
<1>6. w \in Int /\ Front(a.widths) \in Widths
  <2>1. a.widths \in Seq(Int) /\ a.widths # << >>
    BY <1>4, <1>5, LayoutFields DEF Widths
  <2>2. QED
    BY <2>1, FrontLast DEF Widths
<1>7. b = Leave(a)
  <2>1. b = Lay(a, c, k + 1)
    BY <1>1, LaidNext
  <2>2. QED
    BY <1>1, <2>1 DEF Lay
<1> DEFINE x == -a.sign * w
           t == Shift(a, x)
<1>8. /\ x = (IF d.lr.mode = Right THEN w ELSE -w) /\ -a.sign = Sign(Opposite(d.lr.mode)) /\ x \in Int
      /\ -a.sign \in {1, -1}
  <2>1. /\ -Sign(d.lr.mode) * w = (IF d.lr.mode = Right THEN w ELSE -w)
        /\ Sign(Opposite(d.lr.mode)) = -Sign(d.lr.mode)
    BY <1>4, <1>6, SignIs
  <2>2. Opposite(d.lr.mode) \in {0, 1}
    BY <1>4 DEF Opposite, Left, Right
  <2>3. Sign(Opposite(d.lr.mode)) \in {1, -1}
    BY <2>2, SignIs
  <2>4. (IF d.lr.mode = Right THEN w ELSE -w) \in Int
    BY <1>6
  <2> HIDE DEF a, w
  <2>5. QED
    BY <1>5, <2>1, <2>3, <2>4
<1> HIDE DEF x
<1>9. Shifts(a, t) /\ t.regs = ShiftRegs(a.regs, x)
  BY <1>5, <1>8, ShiftIs
<1>10. b = [t EXCEPT !.sign = -t.sign, !.widths = Front(t.widths)]
  BY <1>7, <1>9 DEF Leave, Shifts, x
<1> HIDE DEF a, b, t, w
<1>11. /\ b \in Layouts /\ b.regs = ShiftRegs(Regs(d), x) /\ b.font = d.font /\ b.sign = Sign(Opposite(d.lr.mode))
       /\ b.stack = Here(d) /\ b.widths = Front(d.lr.widths) /\ b.set = f.set
  <2>1. /\ t \in Layouts /\ t.sign = a.sign /\ t.widths = a.widths /\ t.font = a.font
        /\ t.stack = a.stack /\ t.set = a.set
    BY <1>9 DEF Shifts
  <2>2. -t.sign \in {1, -1} /\ Front(t.widths) \in Widths
    BY <1>6, <1>8, <2>1
  <2>3. b \in Layouts /\ b.regs = t.regs /\ b.font = t.font /\ b.sign = -t.sign /\ b.stack = t.stack
        /\ b.widths = Front(t.widths) /\ b.set = t.set
    BY <1>10, <2>1, <2>2 DEF Layouts
  <2>4. QED
    BY <1>5, <1>8, <1>9, <2>1, <2>3
<1>12. /\ e.frames = d.frames /\ e.font = d.font /\ e.stack = d.stack /\ e.lr.mode = Opposite(d.lr.mode)
       /\ e.lr.widths = Front(d.lr.widths) /\ Regs(e) = ShiftRegs(Regs(d), x)
  BY <1>3, <1>5, <1>8 DEF Unreflects, w
<1>13. Here(e) = Here(d)
  BY <1>12, HereSame
<1>14. Views(e, b)
  BY <1>0, <1>1, <1>11, <1>12, <1>13 DEF Views
<1>15. ClosedUpTo(c, k + 1)
  BY <1>1, <1>2, ClosedNext
<1>16. Running(e, k + 1)
  BY <1>0, <1>1, <1>12, <1>14, <1>15 DEF Running, b
<1>17. ~Skims(e)
  BY <1>4, <1>12 DEF Skims, Skimming, Opposite, Left, Right
<1>18. QED
  BY <1>1, <1>12, <1>16, <1>17

(***************************************************************************)
(* Back to where a segment begins, with its width.                          *)
(***************************************************************************)
Back(d, c, k, b) ==
  /\ b \in Nat /\ b \in 1..k /\ b - 1 \in Nat /\ d.lr.state.pc - 1 = b /\ d.lr.state.pc - 2 = b - 1
  /\ d.lr.state \in Segment /\ c[b].op = "breflect" /\ Closing(c, b) = k + 1 /\ Closed(c, b)
  /\ Count(Open(c, b - 1), "push") = Count(Open(c, k), "push")

LEMMA SegmentCloses ==
  ASSUME NEW d, NEW k, NEW i, Ready(d, k, i), d.lr.mode = Skimming, i.op = "ereflect",
         NEW c, c = d.frames[1].code, NEW b, b = d.lr.state.pc - 1
  PROVE  Back(d, c, k, b)
<1>1. /\ d \in State /\ k \in Nat /\ OnPage(d, k) /\ Turn(d, k, i) /\ c \in Seq(Instr) /\ Formed(c)
      /\ Len(c) \in Nat /\ k + 1 \in 1..Len(c) /\ Turns(Open(c, k), i, Open(c, k + 1))
  BY ReflectsTop
<1>2. Skims(d)
  BY DEF Skims, Skimming
<1>3. Measuring(d, k)
  BY <1>2, SkimmingIs
<1>4. Gauge(d, c, k, b, Open(c, k), Open(c, b), Open(c, d.lr.state.pc - 2))
  <2>1. k <= Len(c)
    BY <1>1
  <2>2. QED
    BY <1>1, <1>3, <2>1, MeasuringIs
<1>5. b \in Nat /\ b >= 1 /\ b <= k /\ b - 1 \in Nat /\ d.lr.state.pc - 2 = b - 1 /\ d.lr.state \in Segment
      /\ c[b].op = "breflect"
  <2>1. d.lr.state \in Segment /\ b \in 1..k /\ c[b].op = "breflect"
    BY <1>4 DEF Gauge
  <2>2. d.lr.state.pc \in Nat
    BY <2>1 DEF Segment
  <2>3. QED
    BY <1>1, <2>1, <2>2
<1> DEFINE p == Open(c, k)
           q == Open(c, b)
           r == Open(c, b - 1)
<1>6. p = q
  <2>1. d \in State /\ d.lr.mode = Skimming /\ i.op = "ereflect"
    BY <1>1
  <2>2. QED
    BY <1>1, <2>1, RereadKeeps
<1>7. /\ r \in Opening /\ q = Append(r, "breflect") /\ Front(q) = r /\ Count(q, "push") = Count(r, "push")
      /\ \A m \in b..k : Extends(Open(c, m), q)
  BY <1>4, <1>5 DEF Gauge
<1>8. Open(c, k + 1) = r
  BY <1>1, <1>6, <1>7 DEF Turns
<1>9. \A m \in b..k : Open(c, m) # r
  <2>1. Len(r) \in Nat /\ Len(q) = Len(r) + 1
    BY <1>7 DEF Opening, Kinds
  <2> HIDE DEF q, r
  <2>2. TAKE m \in b..k
  <2>3. Len(q) <= Len(Open(c, m))
    BY <1>7, <2>2 DEF Extends
  <2>4. ~(Len(r) + 1 <= Len(r))
    BY <2>1
  <2>5. QED
    BY <2>1, <2>3, <2>4
<1>10. ClosesAt(c, b, k + 1)
  <2>1. k + 1 \in b + 1..Len(c) /\ (k + 1) - 1 = k
    BY <1>1, <1>5
  <2>2. QED
    BY <1>8, <1>9, <2>1 DEF ClosesAt
<1>11. Closing(c, b) = k + 1
  BY <1>1, <1>5, <1>10, ClosingIs
<1>12. Closed(c, b)
  BY <1>10 DEF Closed, ClosesAt
<1>13. b \in 1..k
  BY <1>1, <1>5
<1>14. QED
  BY <1>5, <1>6, <1>7, <1>11, <1>12, <1>13 DEF Back

EntersAt(a, b, w) ==
  /\ b \in Layouts /\ b.regs = ShiftRegs(a.regs, a.sign * w) /\ b.font = a.font /\ b.sign = -a.sign
  /\ b.stack = a.stack /\ b.widths = Append(a.widths, w) /\ b.set = a.set
LEMMA EnterIs ==
  ASSUME NEW a \in Layouts, NEW w \in Int, NEW b, b = Enter(a, w)
  PROVE  EntersAt(a, b, w)
<1> DEFINE x == a.sign * w
           t == Shift(a, x)
<1>1. a.sign \in {1, -1} /\ a.widths \in Seq(Int)
  BY LayoutFields DEF Widths
<1>2. x \in Int /\ -a.sign \in {1, -1}
  <2>1. CASE a.sign = 1
    BY <2>1
  <2>2. CASE a.sign = -1
    <3>1. \A y \in Int : y + 1 = 0 => y * w = -w /\ -y = 1
      OBVIOUS
    <3>2. a.sign \in Int /\ a.sign + 1 = 0
      BY <2>2
    <3>3. QED
      BY <3>1, <3>2
  <2>3. QED
    BY <1>1, <2>1, <2>2
<1>3. Append(a.widths, w) \in Widths
  BY <1>1 DEF Widths
<1> HIDE DEF x
<1>4. Shifts(a, t) /\ t.regs = ShiftRegs(a.regs, x)
  BY <1>2, ShiftIs
<1>5. b = [t EXCEPT !.sign = -t.sign, !.widths = Append(t.widths, w)]
  BY <1>4 DEF Enter, x, Shifts
<1> HIDE DEF t
<1>6. t \in Layouts /\ t.font = a.font /\ t.sign = a.sign /\ t.stack = a.stack /\ t.widths = a.widths /\ t.set = a.set
  BY <1>4 DEF Shifts
<1>7. -t.sign \in {1, -1} /\ Append(t.widths, w) \in Widths
  BY <1>2, <1>3, <1>6
<1>8. /\ b \in Layouts /\ b.regs = t.regs /\ b.font = t.font /\ b.sign = -t.sign /\ b.stack = t.stack
      /\ b.widths = Append(t.widths, w) /\ b.set = t.set
  BY <1>5, <1>6, <1>7 DEF Layouts
<1>9. QED
  BY <1>4, <1>6, <1>8 DEF EntersAt, x

LEMMA RereadRuns ==
  ASSUME NEW d, NEW k, NEW i, Ready(d, k, i), d.lr.mode = Skimming, i.op = "ereflect", Gauged(d, k),
         NEW e, e = EndReflect(d), e.status # "failed"
  PROVE  Running(e, Top(e).pc - 1) /\ ~Skims(e) /\ Len(e.frames) = 1
<1>0. PICK f : f = d.frames[1]
  OBVIOUS
<1>1. /\ d \in State /\ k \in Nat /\ Len(d.frames) = 1 /\ OnPage(d, k) /\ Turn(d, k, i)
      /\ CutOK(RegSet, d.stack, 0, Len(d.stack)) /\ Len(d.stack) = Count(Open(f.code, k), "push")
  BY <1>0, ReflectsTop
<1>2. PICK b : b = d.lr.state.pc - 1
  OBVIOUS
<1>3. Back(d, f.code, k, b)
  BY <1>0, <1>2, SegmentCloses
<1>4. e = Reread(d)
  BY EndSkimming
<1>5. e.status = "page"
  BY <1>1, <1>4, RereadKeeps
<1>6. /\ e \in State /\ Rereads(d, e) /\ ~Skims(e) /\ Top(e).pc - 1 = d.lr.state.pc - 1
  BY <1>1, <1>4, <1>5, RereadKeeps
<1> DEFINE a == Laid(f.code, f.start, b - 1)
           m == Measured(f.code, b, d.lr.state.font, k - b)
           w == d.lr.width
           l == Laid(f.code, f.start, b)
<1>7. /\ ClosedUpTo(f.code, b - 1) /\ Len(a.stack) = Count(Open(f.code, b - 1), "push") /\ Gauges(d, a, m)
  BY <1>0, <1>2, <1>3 DEF Gauged, Back
<1>8. Len(a.stack) = Len(d.stack)
  BY <1>1, <1>3, <1>7 DEF Back
<1>9. w \in Int
  BY <1>1, LrFields
<1> HIDE DEF a, m, w
<1>10. /\ a \in Layouts /\ a.font = d.lr.state.font /\ a.regs = Regs(d) /\ a.sign = Sign(d.lr.state.mode)
       /\ a.set = f.set
  BY <1>0, <1>7 DEF Gauges
<1>11. /\ d.stack \in Seq(RegSet) /\ d.lr.widths \in Seq(Int) /\ a.stack \in Seq(RegSet) /\ a.widths \in Seq(Int)
       /\ Len(d.stack) \in Nat /\ Len(d.lr.widths) \in Nat /\ Len(a.widths) \in Nat
  BY <1>1, <1>7, GaugesLens
<1>12. m.depth = 0
  BY <1>7, <1>8, <1>11 DEF Gauges
<1>13. Len(a.widths) = Len(d.lr.widths)
  <2>1. m.depth = Len(d.lr.widths) - Len(a.widths)
    BY <1>7 DEF Gauges
  <2>2. \A x, y \in Nat : x - y = 0 => y = x
    OBVIOUS
  <2>3. QED
    BY <1>11, <1>12, <2>1, <2>2
<1>14. a.stack = d.stack /\ a.widths = d.lr.widths
  <2>1. Extends(d.stack, a.stack) /\ Extends(d.lr.widths, a.widths)
    BY <1>7 DEF Gauges
  <2>2. \A x \in 1..Len(a.stack) : d.stack[x] = a.stack[x]
    BY <2>1 DEF Extends
  <2>3. \A x \in 1..Len(a.widths) : d.lr.widths[x] = a.widths[x]
    BY <2>1 DEF Extends
  <2>4. a.stack = d.stack
    BY <1>8, <1>11, <2>2, SeqEqual
  <2>5. a.widths = d.lr.widths
    BY <1>11, <1>13, <2>3, SeqEqual
  <2>6. QED
    BY <2>4, <2>5
<1>15. m.w = w
  BY <1>7, <1>12 DEF Gauges, w
<1>16. SegmentWidth(f.code, b, k + 1, a.font) = w
  <2>1. ((k + 1) - 1) - b = k - b
    BY <1>1, <1>3 DEF Back
  <2>2. SegmentWidth(f.code, b, k + 1, a.font) = Measured(f.code, b, a.font, ((k + 1) - 1) - b).w
    BY SegmentMeasured
  <2>3. Measured(f.code, b, a.font, ((k + 1) - 1) - b) = m
    BY <1>10, <2>1 DEF m
  <2>4. QED
    BY <1>15, <2>2, <2>3
<1>17. l = Enter(a, w)
  <2>1. b - 1 \in Nat /\ (b - 1) + 1 = b /\ f.code[b].op = "breflect" /\ Closing(f.code, b) = k + 1
    BY <1>3 DEF Back
  <2>2. l = Lay(a, f.code, b)
    <3>1. \A x \in Nat : Laid(f.code, f.start, x + 1) = Lay(Laid(f.code, f.start, x), f.code, x + 1)
      BY LaidNext
    <3>2. Laid(f.code, f.start, (b - 1) + 1) = Lay(Laid(f.code, f.start, b - 1), f.code, (b - 1) + 1)
      BY <2>1, <3>1
    <3>3. QED
      BY <2>1, <3>2 DEF a
  <2>3. Lay(a, f.code, b) = Enter(a, SegmentWidth(f.code, b, Closing(f.code, b), a.font))
    BY <2>1 DEF Lay
  <2>4. QED
    BY <1>16, <2>1, <2>2, <2>3
<1>18. EntersAt(a, l, w)
  BY <1>9, <1>10, <1>17, EnterIs
<1>19. d.lr.state.mode \in {0, 1}
  BY <1>3 DEF Back, Segment, Mode, Left, Right
<1>20. /\ Sign(d.lr.state.mode) * w = (IF e.lr.mode = Right THEN w ELSE -w)
       /\ Sign(e.lr.mode) = -a.sign
  <2>1. e.lr.mode = Opposite(d.lr.state.mode)
    BY <1>6 DEF Rereads
  <2>2. /\ Sign(d.lr.state.mode) * w = (IF d.lr.state.mode = Right THEN -w ELSE w)
        /\ Sign(Opposite(d.lr.state.mode)) = -Sign(d.lr.state.mode)
    BY <1>9, <1>19, SignIs
  <2>3. (e.lr.mode = Right) <=> (d.lr.state.mode # Right)
    BY <1>19, <2>1 DEF Opposite, Left, Right
  <2>4. QED
    BY <1>10, <2>1, <2>2, <2>3
<1>21. Regs(e) = l.regs /\ e.font = l.font /\ l.sign = Sign(e.lr.mode) /\ l.widths = e.lr.widths
  <2>1. /\ Regs(e) = ShiftRegs(Regs(d), IF e.lr.mode = Right THEN w ELSE -w) /\ e.font = d.lr.state.font
        /\ e.lr.widths = Append(d.lr.widths, w)
    BY <1>6 DEF Rereads, w
  <2>2. /\ l.regs = ShiftRegs(a.regs, a.sign * w) /\ l.font = a.font /\ l.sign = -a.sign
        /\ l.widths = Append(a.widths, w)
    BY <1>18 DEF EntersAt
  <2>3. a.sign * w = (IF e.lr.mode = Right THEN w ELSE -w)
    BY <1>10, <1>20
  <2>4. QED
    BY <1>10, <1>14, <1>20, <2>1, <2>2, <2>3
<1>22. Len(e.frames) = 1 /\ e.frames[1].code = f.code /\ e.frames[1].start = f.start /\ e.frames[1].set = f.set
       /\ e.stack = d.stack
  BY <1>0, <1>1, <1>6 DEF Rereads, Texts, SameText
<1>23. Here(e) = e.stack
  <2>1. Base(e, 1) = 0
    BY DEF Base
  <2>2. QED
    BY <1>1, <1>22, <2>1, WholeStack DEF Here
<1>24. Views(e, l)
  BY <1>10, <1>14, <1>18, <1>21, <1>22, <1>23 DEF Views, EntersAt
<1>25. ClosedUpTo(f.code, b)
  <2>1. b - 1 \in Nat /\ (b - 1) + 1 = b /\ Closed(f.code, b)
    BY <1>3 DEF Back
  <2>2. ClosedUpTo(f.code, (b - 1) + 1)
    BY <1>7, <2>1, ClosedNext
  <2>3. QED
    BY <2>1, <2>2
<1>26. Running(e, b)
  BY <1>22, <1>24, <1>25 DEF Running, l
<1>27. QED
  BY <1>2, <1>6, <1>22, <1>26

\* A step of skimming that does not end the segment measures its instruction.
LEMMA SkimsOn ==
  ASSUME NEW d, NEW k, NEW i, Ready(d, k, i), Skims(d), Gauged(d, k), NEW id,
         i.op = "ereflect" => d.lr.mode > Skimming,
         NEW e, e = Execute(d, i, id), e.status # "failed"
  PROVE  Gauged(e, k + 1) /\ Skims(e) /\ e.frames = d.frames
<1>0. PICK f : f = d.frames[1]
  OBVIOUS
<1>1. PICK b : b = d.lr.state.pc - 1
  OBVIOUS
<1> DEFINE a == Laid(f.code, f.start, d.lr.state.pc - 2)
           m == Measured(f.code, b, d.lr.state.font, k - b)
<1>2. /\ ClosedUpTo(f.code, d.lr.state.pc - 2) /\ Gauges(d, a, m)
      /\ Len(a.stack) = Count(Open(f.code, d.lr.state.pc - 2), "push")
  BY <1>0, <1>1 DEF Gauged
<1> HIDE DEF a, m
<1>3. Gauging(d, k, i, a, m)
  BY <1>2 DEF Gauging
<1>4. Skimmed(d, e) /\ Gauges(e, a, Measure(m, i))
  BY <1>0, <1>2, <1>3, ExecuteGauges
<1>5. Len(d.frames) = 1 /\ k \in Nat /\ b \in Nat /\ b \in 1..k /\ k - b \in Nat
  <2>1. Len(d.frames) = 1 /\ k \in Nat /\ Measuring(d, k)
    BY SkimmingIs
  <2>2. d.lr.state \in Segment /\ b \in 1..k
    BY <1>1, <2>1 DEF Measuring
  <2>3. b \in Nat /\ k - b \in Nat
    BY <2>1, <2>2
  <2>4. QED
    BY <2>1, <2>2, <2>3
<1>6. i = f.code[k + 1]
  BY <1>0, <1>5, ReadyTop
<1>7. (k + 1) - b = (k - b) + 1 /\ b + ((k - b) + 1) = k + 1
  BY <1>5
<1>8. Measured(f.code, b, d.lr.state.font, (k + 1) - b) = Measure(m, i)
  <2>1. \A n \in Nat : Measured(f.code, b, d.lr.state.font, n + 1)
                       = Measure(Measured(f.code, b, d.lr.state.font, n), f.code[b + (n + 1)])
    BY MeasuredNext
  <2>2. Measured(f.code, b, d.lr.state.font, (k - b) + 1)
        = Measure(Measured(f.code, b, d.lr.state.font, k - b), f.code[b + ((k - b) + 1)])
    BY <1>5, <2>1
  <2>3. QED
    BY <1>6, <1>7, <2>2 DEF m
<1>9. e.frames = d.frames /\ e.lr.state = d.lr.state /\ e.lr.mode >= Skimming
  BY <1>4 DEF Skimmed
<1>10. Gauged(e, k + 1)
  BY <1>0, <1>1, <1>2, <1>4, <1>8, <1>9 DEF Gauged, a
<1>11. QED
  BY <1>9, <1>10 DEF Skims

(***************************************************************************)
(* The invariant: while nothing is measured the page or packet at the top   *)
(* is as a reading of what it has executed leaves it; while a segment is    *)
(* measured it is as it was before the segment, with the width so far.      *)
(***************************************************************************)
Laying(d, k) == AllSuspended(d) /\ IF Skims(d) THEN Gauged(d, k) ELSE Running(d, k)
LaidOut(d) == d.status = "page" => Laying(d, Top(d).pc - 1)

\* One frame has nothing below it.
LEMMA NoneSuspended ==
  ASSUME NEW d, Len(d.frames) = 1
  PROVE  AllSuspended(d)
<1>1. \A j \in 1..Len(d.frames) - 1 : FALSE
  OBVIOUS
<1>2. QED
  BY <1>1 DEF AllSuspended

LEMMA TopPc ==
  ASSUME NEW d, NEW k, NEW i, Ready(d, k, i), NEW e, Len(e.frames) = Len(d.frames),
         e.frames[Len(d.frames)].pc = d.frames[Len(d.frames)].pc
  PROVE  Top(e).pc - 1 = k + 1
<1>1. d.frames[Len(d.frames)].pc = k + 2 /\ k \in Nat
  BY ReadyTop, ReadyIs
<1>2. Top(e) = e.frames[Len(e.frames)]
  BY DEF Top, Last
<1> HIDE DEF Top
<1>3. QED
  BY <1>1, <1>2

\* A step.
LEMMA SkimsLaid ==
  ASSUME NEW d, NEW k, NEW i, Ready(d, k, i), Skims(d), Gauged(d, k), NEW id,
         NEW e, e = Execute(d, i, id), e.status # "failed"
  PROVE  Laying(e, Top(e).pc - 1)
<1>1. d.lr.mode \in Nat /\ d.lr.mode >= Skimming /\ Len(d.frames) = 1
  BY SkimmingIs
<1>2. CASE i.op = "ereflect" /\ ~(d.lr.mode > Skimming)
  <2>1. d.lr.mode = Skimming
    BY <1>1, <1>2 DEF Skimming
  <2>2. e = EndReflect(d)
    BY <1>2 DEF Execute
  <2>3. QED
    BY <1>2, <2>1, <2>2, RereadRuns, NoneSuspended DEF Laying
<1>3. CASE i.op = "ereflect" => d.lr.mode > Skimming
  <2>1. Gauged(e, k + 1) /\ Skims(e) /\ e.frames = d.frames
    BY <1>3, SkimsOn
  <2>2. Top(e).pc - 1 = k + 1
    BY <2>1, TopPc
  <2>3. QED
    BY <1>1, <2>1, <2>2, NoneSuspended DEF Laying
<1>4. QED
  BY <1>2, <1>3

LEMMA TurnsLaid ==
  ASSUME NEW d, NEW k, NEW i, Ready(d, k, i), ~Skims(d), Running(d, k), i.op \in {"breflect", "ereflect"}, NEW id,
         NEW e, e = Execute(d, i, id)
  PROVE  Laying(e, Top(e).pc - 1)
<1>1. Len(d.frames) = 1
  BY ReflectsTop
<1>2. d \in State /\ OnPage(d, k) /\ Turn(d, k, i) /\ k \in Nat
  BY ReadyIs
<1>3. CASE i.op = "breflect"
  <2>1. e = BeginReflect(d)
    BY <1>3 DEF Execute
  <2>2. Gauged(e, k + 1) /\ Skims(e) /\ Len(e.frames) = 1
    BY <1>3, <2>1, BeginGauged
  <2>3. e.frames = d.frames
    BY <1>2, <1>3, <2>1, BeginReflectKeeps DEF Reflects
  <2>4. QED
    BY <2>2, <2>3, TopPc, NoneSuspended DEF Laying
<1>4. CASE i.op = "ereflect"
  <2>1. e = EndReflect(d)
    BY <1>4 DEF Execute
  <2>2. Running(e, k + 1) /\ ~Skims(e) /\ Len(e.frames) = 1
    BY <1>4, <2>1, EndReflectRuns
  <2>3. e.frames = d.frames
    BY <1>2, <1>4, <2>1, EndReflectKeeps DEF Unreflects
  <2>4. QED
    BY <2>2, <2>3, TopPc, NoneSuspended DEF Laying
<1>5. QED
  BY <1>3, <1>4

LEMMA EntersLaid ==
  ASSUME NEW d, NEW k, NEW i, Ready(d, k, i), ~Skims(d), AllSuspended(d), Running(d, k),
         i.op \in {"set", "put"}, Kind(d.font) = "virtual", NEW id,
         NEW e, e = Execute(d, i, id), e.status # "failed"
  PROVE  Laying(e, Top(e).pc - 1)
<1>1. /\ d \in State /\ i \in Instr /\ d.status = "page" /\ ~Turning(d.doc) /\ d.lr.mode = Left
  BY ReadyIs
<1>2. i.char \in Char
  BY <1>1 DEF Instr
<1>3. CASE d.font = NoFont
  <2>1. e = Fail(d)
    BY <1>3 DEF Execute, SetChar, PutChar
  <2>2. e.status = "failed"
    BY <1>1, <2>1, FailIs DEF Fails
  <2>3. QED
    BY <2>2
<1>4. CASE d.font # NoFont
  <2>1. d.font \in Font
    BY <1>1, <1>4, StateFields DEF AnyFont
  <2>2. Width[d.font][i.char] \in Int
    BY <1>2, <2>1, DviAssumption
  <2>3. CASE i.op = "set"
    <3>1. e = SetChar(d, i.char)
      BY <2>3 DEF Execute
    <3>2. e = EnterVf(d, i.char, Width[d.font][i.char])
      BY <1>1, <1>4, <3>1 DEF SetChar, Left, Right
    <3>3. QED
      BY <1>4, <2>2, <2>3, <3>2, EntersLayout DEF Laying
  <2>4. CASE i.op = "put"
    <3>1. e = EnterVf(d, i.char, 0)
      BY <1>4, <2>4 DEF Execute, PutChar
    <3>2. QED
      BY <1>4, <2>4, <3>1, EntersLayout DEF Laying
  <2>5. QED
    BY <2>3, <2>4
<1>5. QED
  BY <1>3, <1>4

LEMMA RunsLaid ==
  ASSUME NEW d, NEW k, NEW i, Ready(d, k, i), ~Skims(d), AllSuspended(d), Running(d, k),
         i.op \notin {"breflect", "ereflect"}, i.op \in {"set", "put"} => Kind(d.font) # "virtual",
         NEW id \in Dict, id # NoLink, NEW e, e = Execute(d, i, id), e.status # "failed"
  PROVE  Laying(e, Top(e).pc - 1)
<1>0. PICK n : n = Len(d.frames)
  OBVIOUS
<1>1. PICK f : f = d.frames[n]
  OBVIOUS
<1> DEFINE a == Laid(f.code, f.start, k)
<1>2. ClosedUpTo(f.code, k) /\ Views(d, a)
  BY <1>0, <1>1 DEF Running
<1>3. k \in Nat /\ Standing(d, k) /\ f.code[k + 1] = i
  BY <1>0, <1>1, ReadyTop, ReadyIs
<1> HIDE DEF a
<1>4. Stepping(d, k, i, a)
  BY <1>2 DEF Stepping
<1>5. Runs(d, e, Lay(a, f.code, k + 1))
  BY <1>3, <1>4, ExecuteRuns
<1>6. Above(d, e) /\ Views(e, Lay(a, f.code, k + 1)) /\ e.lr = d.lr
  BY <1>5 DEF Runs
<1>7. Lay(a, f.code, k + 1) = Laid(f.code, f.start, k + 1)
  BY <1>3, LaidNext DEF a
<1>8. ClosedUpTo(f.code, k + 1)
  BY <1>2, <1>3, ClosedNext
<1>9. Len(e.frames) = n /\ SameFrame(f, e.frames[n])
  BY <1>0, <1>1, <1>6 DEF Above
<1>10. Running(e, k + 1)
  BY <1>6, <1>7, <1>8, <1>9 DEF Running, SameFrame
<1>11. Top(e).pc - 1 = k + 1
  BY <1>0, <1>1, <1>9, TopPc DEF SameFrame
<1>12. AllSuspended(e)
  BY <1>3, <1>6, AboveSuspended
<1>13. QED
  BY <1>6, <1>10, <1>11, <1>12 DEF Laying, Skims

LEMMA ExecuteLaid ==
  ASSUME NEW d, NEW k, NEW i, Ready(d, k, i), Laying(d, k), NEW id \in Dict, id # NoLink,
         NEW e, e = Execute(d, i, id)
  PROVE  LaidOut(e)
<1>1. SUFFICES ASSUME e.status = "page" PROVE Laying(e, Top(e).pc - 1)
  BY DEF LaidOut
<1>2. e.status # "failed"
  BY <1>1
<1>3. CASE Skims(d)
  BY <1>2, <1>3, SkimsLaid DEF Laying
<1>4. CASE ~Skims(d)
  <2>1. AllSuspended(d) /\ Running(d, k)
    BY <1>4 DEF Laying
  <2>2. CASE i.op \in {"breflect", "ereflect"}
    BY <1>4, <2>1, <2>2, TurnsLaid
  <2>3. CASE i.op \in {"set", "put"} /\ Kind(d.font) = "virtual"
    BY <1>2, <1>4, <2>1, <2>3, EntersLaid
  <2>4. CASE i.op \notin {"breflect", "ereflect"} /\ ~(i.op \in {"set", "put"} /\ Kind(d.font) = "virtual")
    BY <1>2, <1>4, <2>1, <2>4, RunsLaid
  <2>5. QED
    BY <2>2, <2>3, <2>4
<1>5. QED
  BY <1>3, <1>4

(***************************************************************************)
(* The actions.                                                            *)
(***************************************************************************)
\* Only the page itself is measured.
LEMMA SkimsOne ==
  ASSUME NEW d, Kept(d), d.status = "page", Skims(d)
  PROVE  Len(d.frames) = 1 /\ Measuring(d, Top(d).pc - 1)
BY PageIs DEF OnPage, TurnsOK

\* The layout does not notice that an instruction is fetched.
Likewise(d, e) ==
  LET n == Len(d.frames)
  IN /\ Len(e.frames) = n /\ \A j \in 1..n - 1 : e.frames[j] = d.frames[j]
     /\ SameText(d.frames[n], e.frames[n]) /\ e.frames[n].set = d.frames[n].set
     /\ e.stack = d.stack /\ e.saved = d.saved /\ e.font = d.font /\ e.lr = d.lr /\ Regs(e) = Regs(d)

LEMMA LikewiseLaid ==
  ASSUME NEW d \in State, d.frames # << >>, NEW k, Laying(d, k), NEW e, Likewise(d, e),
         Skims(d) => Len(d.frames) = 1
  PROVE  Laying(e, k)
<1>0. PICK n : n = Len(d.frames)
  OBVIOUS
<1>1. n \in Nat /\ n >= 1 /\ Len(e.frames) = n /\ e.lr = d.lr /\ e.stack = d.stack /\ e.saved = d.saved
      /\ e.font = d.font /\ Regs(e) = Regs(d)
  BY <1>0, FramesLen DEF Likewise
<1>2. /\ e.frames[n].code = d.frames[n].code /\ e.frames[n].start = d.frames[n].start
      /\ e.frames[n].below = d.frames[n].below /\ e.frames[n].after = d.frames[n].after
      /\ e.frames[n].set = d.frames[n].set /\ \A j \in 1..n - 1 : e.frames[j] = d.frames[j]
  BY <1>0 DEF Likewise, SameText
<1>3. AllSuspended(e)
  <2>1. SUFFICES ASSUME NEW j \in 1..n - 1 PROVE Suspended(e, j)
    BY <1>1 DEF AllSuspended
  <2>2. j + 1 = n \/ j + 1 \in 1..n - 1
    BY <1>1, <2>1
  <2>3. e.frames[j] = d.frames[j] /\ e.frames[j + 1].below = d.frames[j + 1].below
        /\ e.frames[j + 1].after = d.frames[j + 1].after
    BY <1>2, <2>1, <2>2
  <2>4. Suspended(d, j)
    BY <1>0, <2>1 DEF Laying, AllSuspended
  <2>5. Base(e, j) = Base(d, j)
    BY <2>3 DEF Base
  <2>6. QED
    BY <1>1, <2>3, <2>4, <2>5 DEF Suspended, Awaits
<1>4. CASE Skims(d)
  <2>1. Gauged(d, k) /\ Skims(e) /\ n = 1
    BY <1>0, <1>1, <1>4 DEF Laying, Skims
  <2>2. Gauged(e, k)
    BY <1>1, <1>2, <2>1 DEF Gauged, Gauges
  <2>3. QED
    BY <1>3, <2>1, <2>2 DEF Laying
<1>5. CASE ~Skims(d)
  <2>1. Running(d, k) /\ ~Skims(e)
    BY <1>1, <1>5 DEF Laying, Skims
  <2>2. Here(e) = Here(d)
    BY <1>0, <1>1, <1>2, HereSame
  <2>3. Running(e, k)
    BY <1>0, <1>1, <1>2, <2>1, <2>2 DEF Running, Views
  <2>4. QED
    BY <1>3, <2>1, <2>3 DEF Laying
<1>6. QED
  BY <1>4, <1>5

LEMMA StepLaid ==
  ASSUME Kept(s), LaidOut(s), Step
  PROVE  LaidOut(s')
<1> DEFINE f == Top(s)
           g == [f EXCEPT !.pc = f.pc + 1]
           e == [s EXCEPT !.frames[Len(s.frames)].pc = @ + 1]
           i == f.code[f.pc]
           id == << s.pages, f.pc >>
<1>1. s.status = "page" /\ f.pc <= Len(f.code) /\ s' = Execute(e, i, id)
  BY DEF Step
<1>2. s \in State /\ s.frames # << >> /\ f \in Frame /\ f = s.frames[Len(s.frames)]
  BY <1>1, PageIs
<1>3. f.pc \in Nat /\ f.pc >= 1 /\ s.pages \in Nat
  <2>1. \E n \in Nat : f.pc \in 1..Len(f.code) + 1 /\ Len(f.code) \in Nat
    BY <1>1, PageIs
  <2>2. QED
    BY <1>2, <2>1, StateFields
<1>4. g \in Frame /\ SameText(f, g) /\ g.pc = f.pc + 1 /\ g.set = f.set
  <2>1. f.pc + 1 \in Nat
    BY <1>3
  <2> HIDE DEF f
  <2>2. QED
    BY <1>2, <2>1 DEF Frame, SameText
<1>5. e = [s EXCEPT !.frames = [s.frames EXCEPT ![Len(s.frames)] = g]]
  BY <1>2
<1>6. id \in Dict /\ id # NoLink
  BY <1>3 DEF Dict, NoLink
<1> HIDE DEF e, g, f, i, id
<1>7. Fetches(s, e)
  BY <1>2, <1>4, <1>5, FetchIs DEF f
<1>8. Likewise(s, e)
  <2>1. /\ Stays(s, e) /\ Len(e.frames) = Len(s.frames) /\ e.frames[Len(s.frames)] = g
        /\ \A j \in 1..Len(s.frames) - 1 : e.frames[j] = s.frames[j]
    BY <1>2, <1>4, <1>5, SetTop
  <2>2. QED
    BY <1>2, <1>4, <2>1 DEF Likewise, Stays, SamePlace, Regs
<1>9. Ready(e, f.pc - 1, i)
  BY <1>1, <1>7, AdvanceReady DEF i, f
<1>10. Laying(s, f.pc - 1)
  BY <1>1 DEF LaidOut, f
<1>11. Laying(e, f.pc - 1)
  BY <1>1, <1>2, <1>8, <1>10, SkimsOne, LikewiseLaid
<1>12. QED
  BY <1>1, <1>6, <1>9, <1>11, ExecuteLaid

\* The end of a packet.
LEMMA EndPacketLaid ==
  ASSUME Kept(s), LaidOut(s), EndPacket
  PROVE  LaidOut(s')
<1>1. Ending(s) /\ s' = LeaveVf(s) /\ s.status = "page"
  BY PageIs DEF EndPacket, Ending, InPacket
<1>2. AllSuspended(s)
  BY <1>1 DEF LaidOut, Laying
<1>3. AllSuspended(s') /\ Running(s', Top(s').pc - 1) /\ ~Skims(s')
  BY <1>1, <1>2, LeavesLayout
<1>4. QED
  BY <1>3 DEF LaidOut, Laying

(***************************************************************************)
(* Reading: the layout of what was read before stays.                       *)
(***************************************************************************)
LEMMA ReadLaid ==
  ASSUME NEW d, Kept(d), d.status = "page", Len(d.frames) = 1, Top(d).pc > Len(Top(d).code), LaidOut(d),
         NEW i \in Instr, NEW e, Reads(d, e, i)
  PROVE  LaidOut(e)
<1> DEFINE f == d.frames[1]
           c == f.code
           x == Append(c, i)
           k == f.pc - 1
<1>1. d \in State /\ c \in Seq(Instr) /\ Formed(c) /\ Len(c) \in Nat /\ k = Len(c) /\ k \in Nat /\ Top(d) = f
      /\ f \in Frame /\ d.frames # << >>
  <2>1. PICK n \in Nat :
          /\ n = Len(d.frames) /\ Top(d) = d.frames[n] /\ Top(d) \in Frame /\ d.frames # << >>
          /\ Top(d).code \in Seq(Instr) /\ Formed(Top(d).code) /\ Len(Top(d).code) \in Nat
          /\ Top(d).pc \in 1..Len(Top(d).code) + 1 /\ Top(d).pc - 1 \in Nat
    BY PageIs
  <2>2. Top(d) = f /\ d \in State
    BY <2>1, PageIs
  <2>3. f.pc \in 1..Len(c) + 1 /\ f.pc > Len(c) /\ Len(c) \in Nat
    BY <2>1, <2>2
  <2>4. k = Len(c)
    BY <2>3
  <2>5. QED
    BY <2>1, <2>2, <2>4
<1>2. Laying(d, k)
  BY <1>1 DEF LaidOut
<1>3. Longer(x, c)
  BY <1>1, AppendLonger
<1>4. /\ e.frames[1] = [f EXCEPT !.code = x] /\ Len(e.frames) = 1 /\ e.lr = d.lr /\ e.stack = d.stack
      /\ e.font = d.font /\ Regs(e) = Regs(d) /\ e.status = "page"
  BY DEF Reads, SamePlace, Regs
<1>4a. Top(e) = e.frames[1]
  BY <1>4 DEF Top, Last
<1> HIDE DEF f, c, x, k
<1>5. /\ e.frames[1].code = x /\ e.frames[1].start = f.start /\ e.frames[1].below = f.below
      /\ e.frames[1].set = f.set /\ e.frames[1].pc = f.pc
  BY <1>1, <1>4 DEF Frame
<1>6. Top(e).pc - 1 = k
  BY <1>4a, <1>5 DEF k
<1>7. k \in 0..Len(c)
  BY <1>1
<1>8. CASE Skims(d)
  <2>1. Measuring(d, k) /\ Skims(e)
    BY <1>1, <1>4, <1>8, SkimsOne DEF Skims, k
  <2>2. PICK b : b = d.lr.state.pc - 1
    OBVIOUS
  <2>3. d.lr.state \in Segment /\ b \in 1..k
    BY <2>1, <2>2 DEF Measuring
  <2>4. b - 1 = d.lr.state.pc - 2 /\ b - 1 \in 0..Len(c) /\ k - b \in Nat
        /\ \A y \in 1..k - b : b + y \in 1..Len(c)
    <3>1. d.lr.state.pc \in Nat
      BY <2>3 DEF Segment
    <3>2. \A n \in Nat : \A v \in Nat : \A p \in Nat :
            n = p - 1 /\ n \in 1..v => n - 1 = p - 2 /\ n - 1 \in 0..v /\ v - n \in Nat
      OBVIOUS
    <3>3. b \in Nat
      BY <1>1, <2>3
    <3>4. PICK p \in Nat, v \in Nat : p = d.lr.state.pc /\ v = Len(c)
      BY <1>1, <3>1
    <3>5. b = p - 1 /\ b \in 1..k /\ k = v /\ k \in Nat
      BY <1>1, <2>2, <2>3, <3>4
    <3>6. b \in 1..v
      BY <3>5
    <3>7. b - 1 = p - 2 /\ b - 1 \in 0..v /\ v - b \in Nat
      BY <3>2, <3>3, <3>4, <3>5, <3>6
    <3>8. \A y \in 1..v - b : b + y \in 1..v
      BY <3>3, <3>4, <3>6
    <3>9. QED
      BY <3>4, <3>5, <3>7, <3>8
  <2> DEFINE a == Laid(c, f.start, b - 1)
             m == Measured(c, b, d.lr.state.font, k - b)
  <2>5. /\ ClosedUpTo(c, b - 1) /\ Len(a.stack) = Count(Open(c, b - 1), "push") /\ Gauges(d, a, m)
    BY <1>2, <1>8, <2>2, <2>4 DEF Laying, Gauged, f, c
  <2>6. Laid(x, f.start, b - 1) = a
    BY <1>1, <1>3, <2>4, <2>5, LaidKeeps
  <2>7. Measured(x, b, d.lr.state.font, k - b) = m
    <3>1. \A y \in 1..k - b : x[b + y] = c[b + y]
      BY <1>3, <2>4 DEF Longer
    <3>2. QED
      BY <2>4, <3>1, MeasuredKeeps
  <2>8. ClosedUpTo(x, b - 1)
    BY <1>3, <2>4, <2>5, ClosedKeeps
  <2>9. Open(x, b - 1) = Open(c, b - 1)
    BY <1>3, <2>4 DEF Longer
  <2> HIDE DEF a, m
  <2>10. Gauges(e, a, m)
    BY <1>4, <1>5, <2>5 DEF Gauges, f
  <2>11. Gauged(e, k)
    BY <1>4, <1>5, <2>2, <2>4, <2>5, <2>6, <2>7, <2>8, <2>9, <2>10 DEF Gauged
  <2>12. QED
    BY <1>4, <1>6, <2>1, <2>11, NoneSuspended DEF LaidOut, Laying
<1>9. CASE ~Skims(d)
  <2> DEFINE a == Laid(c, f.start, k)
  <2>1. ClosedUpTo(c, k) /\ Views(d, a) /\ ~Skims(e)
    BY <1>2, <1>4, <1>9 DEF Laying, Running, f, c, Skims
  <2>2. ClosedUpTo(x, k)
    BY <1>3, <1>7, <2>1, ClosedKeeps
  <2>3. Laid(x, f.start, k) = a
    BY <1>1, <1>3, <1>7, <2>1, LaidKeeps
  <2> HIDE DEF a
  <2>4. Here(e) = Here(d)
    BY <1>4, <1>5, HereSame DEF f
  <2>5. Views(e, a)
    BY <1>4, <1>5, <2>1, <2>4 DEF Views, f
  <2>6. Running(e, k)
    BY <1>4, <1>5, <2>2, <2>3, <2>5 DEF Running
  <2>7. QED
    BY <1>4, <1>6, <2>1, <2>6, NoneSuspended DEF LaidOut, Laying
<1>10. QED
  BY <1>8, <1>9

LEMMA ReadsLaid ==
  ASSUME Kept(s), LaidOut(s), Read
  PROVE  LaidOut(s')
<1>1. /\ s.status = "page" /\ Top(s).pc > Len(Top(s).code) /\ s.left > 0
      /\ s \in State /\ Len(s.frames) = 1
  <2>1. s.status = "page" /\ ~InPacket(s) /\ Top(s).pc > Len(Top(s).code) /\ s.left > 0
    BY DEF Read, Reading
  <2>2. PICK n \in Nat : s \in State /\ s.frames # << >>
    BY <2>1, PageIs
  <2>3. QED
    BY <2>1, <2>2, InPacketIs
<1>2. PICK i \in s.doc.then :
        s' = [s EXCEPT !.frames[1].code = Append(@, i), !.left = @ - 1]
  BY DEF Read
<1>3. i \in Instr
  BY <1>1, StateFields, DocumentAssumption
<1>4. Reads(s, s', i)
  BY <1>1, <1>2, <1>3, ReadIs
<1>5. QED
  BY <1>1, <1>3, <1>4, ReadLaid

(***************************************************************************)
(* The beginning of a page.                                                 *)
(***************************************************************************)
LEMMA BlankIs ==
  ASSUME NEW a, a = Blank(Origin)
  PROVE  /\ a \in Layouts /\ a.regs = Origin.regs /\ a.font = NoFont /\ a.sign = 1 /\ a.stack = << >>
         /\ a.widths = << >> /\ a.set = << >>
<1>1. << >> \in Stacks /\ << >> \in Widths /\ << >> \in GlyphSeq
  BY EmptySeq DEF Stacks, Widths, GlyphSeq
<1>2. a = [regs |-> Origin.regs, font |-> NoFont, sign |-> 1, stack |-> << >>, widths |-> << >>, set |-> << >>]
  BY DEF Blank, Origin
<1>3. Origin.regs \in RegSet /\ NoFont \in AnyFont
  BY DEF Origin, RegSet, AnyFont
<1> HIDE DEF Origin
<1>4. QED
  BY <1>1, <1>2, <1>3 DEF Layouts

LEMMA BeginsRegs ==
  ASSUME NEW d \in State, NEW e, NEW fs,
         e = [ WithRegs(d, Origin.regs) EXCEPT
                 !.status = "page", !.pages = @ + 1, !.stack = << >>, !.font = NoFont,
                 !.line = @ + 1, !.frames = fs ]
  PROVE  Regs(e) = Origin.regs
<1>1. e.h = 0 /\ e.v = 0 /\ e.w = 0 /\ e.d = 0
  BY DEF State, WithRegs, Origin
<1>2. QED
  BY <1>1 DEF Regs, Origin

LEMMA BeginsLaid ==
  ASSUME NEW d, Kept(d), d.status = "idle", NEW e, Begins(d, e), Regs(e) = Origin.regs
  PROVE  LaidOut(e)
<1>1. d.lr.mode = Left /\ d.lr.widths = << >>
  BY IdleIs
<1> DEFINE f == FirstFrame(d.doc)
           a == Laid(f.code, f.start, 0)
<1>2. /\ e.status = "page" /\ e.frames = << f >> /\ e.stack = << >> /\ e.font = NoFont
      /\ e.lr.mode = Left /\ e.lr.widths = << >>
  BY <1>1 DEF Begins, Carries
<1>3. f.pc = 1 /\ f.start = Origin /\ f.set = << >>
  BY DEF FirstFrame
<1> HIDE DEF f
<1>4. Len(e.frames) = 1 /\ e.frames[1] = f /\ Top(e) = f /\ ~Skims(e)
  <2>1. Len(e.frames) = 1 /\ e.frames[1] = f
    BY <1>2
  <2>2. Top(e) = f
    BY <2>1 DEF Top, Last
  <2>3. QED
    BY <1>2, <2>1, <2>2 DEF Skims, Skimming, Left
<1>5. a = Blank(Origin)
  BY <1>3, LaidNext
<1> HIDE DEF a
<1>6. /\ a \in Layouts /\ a.regs = Origin.regs /\ a.font = NoFont /\ a.sign = 1 /\ a.stack = << >>
      /\ a.widths = << >> /\ a.set = << >>
  BY <1>5, BlankIs
<1>7. Sign(Left) = 1
  BY DEF Sign, Left
<1>8. Here(e) = << >>
  <2>1. Base(e, 1) = 0
    BY DEF Base
  <2>2. Len(<< >>) = 0 /\ << >> \in Seq(RegSet)
    BY EmptySeq
  <2>3. CutOK(RegSet, << >>, 0, Len(<< >>))
    BY <2>2 DEF CutOK
  <2>4. QED
    BY <1>2, <1>4, <2>1, <2>3, WholeStack DEF Here
<1>9. Views(e, a)
  BY <1>2, <1>3, <1>4, <1>6, <1>7, <1>8 DEF Views
<1>10. ClosedUpTo(f.code, 0)
  BY DEF ClosedUpTo
<1>11. Running(e, 0)
  BY <1>4, <1>9, <1>10 DEF Running, a
<1>12. Top(e).pc - 1 = 0
  BY <1>3, <1>4
<1>13. QED
  BY <1>4, <1>11, <1>12, NoneSuspended DEF LaidOut, Laying

LEMMA BopLaid ==
  ASSUME Kept(s), Bop
  PROVE  LaidOut(s')
<1>1. s.status = "idle" /\ s \in State
  BY IdleIs DEF Bop
<1>2. Begins(s, s')
  BY <1>1, BeginsIs DEF Bop, FirstFrame
<1>3. Regs(s') = Origin.regs
  BY <1>1, BeginsRegs DEF Bop
<1>4. QED
  BY <1>1, <1>2, <1>3, BeginsLaid

(***************************************************************************)
(* The theorem.                                                             *)
(***************************************************************************)
LayInv == LaidOut(s)

LEMMA LayInvHolds == DviSpec => []LayInv
<1>1. DviInit => LayInv
  <2>1. ASSUME NEW doc \in Documents, s = Start(doc) PROVE s.status = "idle"
    BY <2>1 DEF Start
  <2>2. QED
    BY <2>1 DEF DviInit, LayInv, LaidOut
<1>2. DviInv /\ LayInv /\ [DviNext]_s => LayInv'
  <2>1. SUFFICES ASSUME Kept(s), LaidOut(s), [DviNext]_s PROVE LaidOut(s')
    BY DEF DviInv, LayInv
  <2>2. CASE Bop
    BY <2>1, <2>2, BopLaid
  <2>3. CASE Read
    BY <2>1, <2>3, ReadsLaid
  <2>4. CASE Step
    BY <2>1, <2>4, StepLaid
  <2>5. CASE EndPacket
    BY <2>1, <2>5, EndPacketLaid
  <2>6. CASE Eop
    <3>1. s \in State /\ s.status = "page"
      BY <2>1, <2>6, PageIs DEF Eop, Reading
    <3>2. s'.status # "page"
      <4>1. CASE s' = Fail(s)
        BY <3>1, <4>1, FailIs DEF Fails
      <4>2. CASE s' = [s EXCEPT !.status = "idle", !.frames = << >>]
        BY <3>1, <4>2 DEF State
      <4>3. QED
        BY <2>6, <4>1, <4>2 DEF Eop
    <3>3. QED
      BY <3>2 DEF LaidOut
  <2>7. CASE UNCHANGED s
    BY <2>1, <2>7
  <2>8. QED
    BY <2>1, <2>2, <2>3, <2>4, <2>5, <2>6, <2>7 DEF DviNext
<1>3. QED
  BY <1>1, <1>2, DviInvHolds, PTL DEF DviSpec

\* Where the page or packet ends, its glyphs, the registers and the font are those of
\* one reading of its instructions from left to right: measuring a segment and going
\* back, the packets in between and the pushes of dvi_vf_init leave nothing behind
\* (dvi_begin_reflect, dvi_end_reflect, dvi_vf_init, dvi_vf_finish, do_glyphs).
THEOREM LayoutRightCorrect == DviSpec => []LayoutRight
<1>1. DviInv /\ LayInv => LayoutRight
  <2>1. SUFFICES ASSUME Kept(s), LaidOut(s), AtEnd
                 PROVE  LET l == Layout(Top(s).code, Top(s).start)
                        IN Top(s).set = l.set /\ Regs(s) = l.regs /\ s.font = l.font
    BY DEF DviInv, LayInv, LayoutRight
  <2>2. PICK f : f = Top(s)
    OBVIOUS
  <2>3. s.status = "page" /\ f.pc > Len(f.code) /\ Pending(f.code) = << >>
    BY <2>1, <2>2 DEF AtEnd
  <2>4. PICK n \in Nat :
          /\ n = Len(s.frames) /\ f = s.frames[n] /\ f.code \in Seq(Instr) /\ Formed(f.code)
          /\ Len(f.code) \in Nat /\ f.pc \in 1..Len(f.code) + 1 /\ f.pc - 1 \in Nat
    BY <2>1, <2>2, <2>3, PageIs
  <2>5. f.pc - 1 = Len(f.code)
    BY <2>3, <2>4
  <2>6. s \in State /\ OnPage(s, f.pc - 1)
    BY <2>1, <2>2, <2>3, PageIs
  <2>7. Open(f.code, f.pc - 1) = << >>
    BY <2>3, <2>4, <2>5, OpenWhole
  <2>8. ~Skims(s)
    <3>1. SUFFICES ASSUME Skims(s) PROVE FALSE
      OBVIOUS
    <3>2. Len(s.frames) = 1
      BY <2>1, <2>3, <3>1, SkimsOne
    <3>3. s.lr.mode = Left
      BY <2>4, <2>5, <2>6, <2>7, <3>2, NothingOpen
    <3>4. QED
      BY <3>1, <3>3 DEF Skims, Skimming, Left
  <2>9. Running(s, f.pc - 1)
    BY <2>1, <2>2, <2>3, <2>8 DEF LaidOut, Laying
  <2>10. Views(s, Laid(f.code, f.start, Len(f.code)))
    BY <2>4, <2>5, <2>9 DEF Running
  <2>11. Layout(f.code, f.start) = Laid(f.code, f.start, Len(f.code))
    BY LayoutLaid
  <2>12. QED
    BY <2>2, <2>4, <2>10, <2>11 DEF Views
<1>2. QED
  BY <1>1, DviInvHolds, LayInvHolds, PTL
==============================================================================
