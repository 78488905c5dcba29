------------------------------ MODULE DviProofs ------------------------------
(***************************************************************************)
(* Control in the interpreter of DVI files, for every document and every    *)
(* set of fonts: at each instruction the stacks of registers, of fonts and  *)
(* of widths are as deep as what the page and its packets have opened.      *)
(***************************************************************************)
EXTENDS DviLayout, SequenceTheorems, FiniteSetTheorems, WellFoundedInduction, TLAPS

(***************************************************************************)
(* Types.                                                                   *)
(***************************************************************************)
AnyFont == Font \cup {NoFont}
Mode == {Left, Right}
RegSet == [h : Int, v : Int, w : Int, d : {0, 1, 3}]
Glyph == [font : AnyFont, char : Char \cup {Rule}, h : Int, v : Int, d : {0, 1, 3}]
Begun == [regs : RegSet, font : AnyFont]
Frame == [code : Seq(Instr), pc : Nat, set : Seq(Glyph), start : Begun, below : Nat, after : Int]
Segment == [pc : Nat, font : AnyFont, mode : Mode]
Widths == Seq(Int)
Segments == Segment \cup {<< >>}
LrSet == [mode : Nat, width : Int, widths : Widths, state : Segments]
Dict == Nat \X Nat
LinkSet == [dict : Dict, on : BOOLEAN, boxes : BOOLEAN, tag : Int, mark : Nat,
            box : SUBSET Nat, broken : BOOLEAN]
OwnSet == [annot_dict : Dict, pending : {"none", "href", "name"}]
OutGlyph == [font : AnyFont, char : Char, link : Dict, line : Nat]
Annot == [link : Dict, glyphs : SUBSET Nat, first : BOOLEAN]
Status == {"idle", "page", "failed"}
Direction == {0, 1, 3}
Frames == Seq(Frame)
Stacks == Seq(RegSet)
Saves == Seq(AnyFont)
Outs == Seq(OutGlyph)
Annots == Seq(Annot)
State == [status : Status, doc : Documents, left : Nat, pages : Nat,
          frames : Frames, h : Int, v : Int, w : Int, d : Direction, font : AnyFont,
          stack : Stacks, saved : Saves, lr : LrSet, link : LinkSet, own : OwnSet,
          out : Outs, annots : Annots, line : Nat]

LEMMA MovedIs ==
  ASSUME NEW d \in State, NEW x \in Int, NEW e, e = Moved(d, x)
  PROVE  /\ e \in State
         /\ e.w = d.w /\ e.d = d.d
         /\ e.status = d.status /\ e.doc = d.doc /\ e.left = d.left /\ e.pages = d.pages
         /\ e.frames = d.frames /\ e.font = d.font /\ e.stack = d.stack /\ e.saved = d.saved
         /\ e.lr = d.lr /\ e.link = d.link /\ e.own = d.own /\ e.out = d.out /\ e.annots = d.annots
         /\ e.line = d.line
<1>1. d.h \in Int /\ d.v \in Int /\ d.d \in {0, 1, 3}
  BY DEF State, Direction
<1>2. CASE d.d = 0
  <2>1. e = [d EXCEPT !.h = d.h + x]
    BY <1>2 DEF Moved
  <2>2. d.h + x \in Int
    BY <1>1
  <2>3. QED
    BY <2>1, <2>2 DEF State
<1>3. CASE d.d = 1
  <2>1. e = [d EXCEPT !.v = d.v + x]
    BY <1>3 DEF Moved
  <2>2. d.v + x \in Int
    BY <1>1
  <2>3. QED
    BY <2>1, <2>2, ZenonT(30) DEF State
<1>4. CASE d.d = 3
  <2>1. e = [d EXCEPT !.v = d.v - x]
    BY <1>4 DEF Moved
  <2>2. d.v - x \in Int
    BY <1>1
  <2>3. QED
    BY <2>1, <2>2 DEF State
<1>5. QED
  BY <1>1, <1>2, <1>3, <1>4
(***************************************************************************)
(* Counting: what holds of 0, and of k + 1 when it holds of k, holds up to  *)
(* n.  S is the set of numbers of which it holds.                           *)
(***************************************************************************)
LEMMA NatLeast ==
  ASSUME NEW S \in SUBSET Nat, S # {}
  PROVE  \E n \in S : \A m \in S : n <= m
<1> DEFINE R == OpToRel(<, Nat)
<1>1. IsWellFoundedOn(R, Nat)
  BY NatLessThanWellFounded, Zenon
<1>2. \A n, m \in Nat : ~(<< m, n >> \in R) => n <= m
  BY DEF OpToRel
<1> HIDE DEF R
<1>3. PICK n \in S : \A m \in S : ~(<< m, n >> \in R)
  BY <1>1, WFMin, Zenon
<1>4. \A m \in S : n <= m
  BY <1>2, <1>3
<1>5. QED
  BY <1>4

LEMMA UpTo ==
  ASSUME NEW n \in Nat, NEW S, 0 \in S,
         \A k \in Nat : k < n /\ k \in S => k + 1 \in S
  PROVE  \A k \in 0..n : k \in S
<1> DEFINE T == {k \in 0..n : k \notin S}
<1>1. SUFFICES ASSUME T # {} PROVE FALSE
  OBVIOUS
<1>2. T \in SUBSET Nat
  OBVIOUS
<1>3. PICK m \in T : \A k \in T : m <= k
  BY <1>1, <1>2, NatLeast
<1>4. m \in 0..n /\ m \notin S /\ m # 0
  BY <1>3
<1>5. m - 1 \in 0..n /\ m - 1 \in Nat /\ m - 1 < n /\ ~(m <= m - 1) /\ (m - 1) + 1 = m
  BY <1>4
<1>6. m - 1 \in S
  BY <1>3, <1>5
<1>7. QED
  BY <1>4, <1>5, <1>6

(***************************************************************************)
(* Pending: what is open after the first k instructions.                    *)
(***************************************************************************)
Kinds == {"push", "breflect"}
Opened(p, i) == CASE i.op \in Opens -> Append(p, i.op)
                  [] i.op \in DOMAIN Closes -> Front(p)
                  [] OTHER -> p
Openings(h, code, n) == h = [k \in 0..n |-> IF k = 0 THEN << >> ELSE Opened(h[k - 1], code[k])]
Follows(h, code, n) == h[0] = << >> /\ \A k \in 1..n : h[k] = Opened(h[k - 1], code[k])
Open(code, k) == Pending(SubSeq(code, 1, k))

LEMMA OpeningsFollow ==
  ASSUME NEW h, NEW code, NEW m \in Nat, Openings(h, code, m), NEW n \in 0..m
  PROVE  Follows(h, code, n)
BY DEF Openings, Follows

LEMMA OpeningsExist ==
  ASSUME NEW code, NEW n \in Nat
  PROVE  \E h : Openings(h, code, n)
<1> DEFINE S == {k \in Nat : \E h : Openings(h, code, k)}
<1>1. 0 \in S
  <2> DEFINE h == [k \in 0..0 |-> << >>]
  <2>1. h = [k \in 0..0 |-> IF k = 0 THEN << >> ELSE Opened(h[k - 1], code[k])]
    <3>1. \A k \in 0..0 : k = 0
      OBVIOUS
    <3>2. QED
      BY <3>1
  <2>2. QED
    BY <2>1 DEF Openings
<1>2. ASSUME NEW m \in Nat, m \in S PROVE m + 1 \in S
  <2>1. PICK f : Openings(f, code, m)
    BY <1>2
  <2> DEFINE h == [k \in 0..m + 1 |-> IF k = m + 1 THEN Opened(f[m], code[m + 1]) ELSE f[k]]
             r == [k \in 0..m + 1 |-> IF k = 0 THEN << >> ELSE Opened(h[k - 1], code[k])]
  <2>2. ASSUME NEW k \in 0..m + 1 PROVE h[k] = r[k]
    <3>1. CASE k = m + 1
      <4>1. m \in 0..m + 1 /\ m # m + 1 /\ k # 0 /\ k - 1 = m
        BY <3>1
      <4>2. h[m] = f[m]
        BY <4>1
      <4>3. QED
        BY <3>1, <4>1, <4>2
    <3>2. CASE k # m + 1
      <4>1. k \in 0..m
        BY <3>2
      <4>2. f[k] = IF k = 0 THEN << >> ELSE Opened(f[k - 1], code[k])
        BY <2>1, <4>1 DEF Openings
      <4>3. k # 0 => k - 1 \in 0..m + 1 /\ k - 1 # m + 1
        BY <4>1
      <4>4. k # 0 => h[k - 1] = f[k - 1]
        BY <4>3
      <4>5. h[k] = f[k]
        BY <3>2
      <4>6. QED
        BY <4>2, <4>4, <4>5
    <3>3. QED
      BY <3>1, <3>2
  <2>3. h = r
    BY <2>2
  <2>4. Openings(h, code, m + 1)
    BY <2>3 DEF Openings
  <2>5. QED
    BY <2>4
<1>3. \A k \in 0..n : k \in S
  BY <1>1, <1>2, UpTo
<1>4. QED
  BY <1>3

\* Two codes with the same beginning open the same there.
LEMMA OpeningsSame ==
  ASSUME NEW c1, NEW c2, NEW h1, NEW h2, NEW n \in Nat, Follows(h1, c1, n), Follows(h2, c2, n),
         \A k \in 1..n : c1[k] = c2[k]
  PROVE  h1[n] = h2[n]
<1> DEFINE S == {k \in Nat : h1[k] = h2[k]}
<1>1. 0 \in S
  BY DEF Follows
<1>2. ASSUME NEW k \in Nat, k < n, k \in S PROVE k + 1 \in S
  <2>1. k + 1 \in 1..n /\ (k + 1) - 1 = k
    BY <1>2
  <2>2. h1[k + 1] = Opened(h1[k], c1[k + 1]) /\ h2[k + 1] = Opened(h2[k], c2[k + 1])
    BY <2>1 DEF Follows
  <2>3. QED
    BY <1>2, <2>1, <2>2
<1> HIDE DEF S
<1>3. \A k \in 0..n : k \in S
  BY <1>1, <1>2, UpTo
<1>4. n \in 0..n
  OBVIOUS
<1>5. QED
  BY <1>3, <1>4 DEF S

LEMMA PendingIs ==
  ASSUME NEW code, Len(code) \in Nat, NEW h, Openings(h, code, Len(code))
  PROVE  Pending(code) = h[Len(code)]
<1> DEFINE n == Len(code)
           g == CHOOSE f : f = [k \in 0..n |-> IF k = 0 THEN << >>
                   ELSE CASE code[k].op \in Opens -> Append(f[k - 1], code[k].op)
                          [] code[k].op \in DOMAIN Closes -> Front(f[k - 1])
                          [] OTHER -> f[k - 1]]
<1>1. h = [k \in 0..n |-> IF k = 0 THEN << >>
             ELSE CASE code[k].op \in Opens -> Append(h[k - 1], code[k].op)
                    [] code[k].op \in DOMAIN Closes -> Front(h[k - 1])
                    [] OTHER -> h[k - 1]]
  BY Zenon DEF Openings, Opened
<1>2. g = [k \in 0..n |-> IF k = 0 THEN << >>
             ELSE CASE code[k].op \in Opens -> Append(g[k - 1], code[k].op)
                    [] code[k].op \in DOMAIN Closes -> Front(g[k - 1])
                    [] OTHER -> g[k - 1]]
  BY <1>1, Zenon
<1>3. Openings(g, code, n)
  BY <1>2, Zenon DEF Openings, Opened
<1>4. Pending(code) = g[n]
  BY Zenon DEF Pending
<1>5. g[n] = h[n]
  <2>1. n \in Nat /\ n \in 0..n /\ Openings(h, code, n)
    OBVIOUS
  <2> HIDE DEF g, n
  <2>2. Follows(g, code, n) /\ Follows(h, code, n)
    BY <1>3, <2>1, OpeningsFollow
  <2>3. QED
    BY <2>1, <2>2, OpeningsSame
<1>6. QED
  BY <1>4, <1>5

LEMMA OpenIs ==
  ASSUME NEW S, NEW code \in Seq(S), NEW n \in 0..Len(code), NEW h, NEW m \in Nat, n <= m, m <= Len(code),
         Openings(h, code, m)
  PROVE  Open(code, n) = h[n]
<1> DEFINE c == SubSeq(code, 1, n)
<1>1. Len(code) \in Nat /\ n \in Nat /\ n <= Len(code)
  BY LenProperties
<1>2. Len(c) = n /\ \A k \in 1..n : c[k] = code[k]
  <2>1. \A k \in 1..n : code[k] \in S
    BY <1>1, ElementOfSeq
  <2>2. Len(c) = IF 1 <= n THEN n - 1 + 1 ELSE 0
    BY <1>1, <2>1, SubSeqProperties
  <2>3. \A k \in 1..n - 1 + 1 : c[k] = code[1 + k - 1]
    BY <1>1, <2>1, SubSeqProperties
  <2>4. QED
    BY <1>1, <2>2, <2>3
<1>3. PICK f : Openings(f, c, n)
  BY <1>1, OpeningsExist
<1>4. Pending(c) = f[n]
  BY <1>1, <1>2, <1>3, PendingIs
<1> HIDE DEF c
<1>5. f[n] = h[n]
  <2>1. n \in 0..n /\ n \in 0..m
    BY <1>1
  <2>2. Follows(f, c, n) /\ Follows(h, code, n)
    BY <1>1, <1>3, <2>1, OpeningsFollow
  <2>3. QED
    BY <1>1, <1>2, <2>2, OpeningsSame
<1>6. QED
  BY <1>4, <1>5 DEF Open, c

LEMMA OpenRun ==
  ASSUME NEW S, NEW code \in Seq(S)
  PROVE  /\ Open(code, 0) = << >>
         /\ \A n \in 1..Len(code) : Open(code, n) = Opened(Open(code, n - 1), code[n])
<1>1. Len(code) \in Nat
  BY LenProperties
<1>2. PICK h : Openings(h, code, Len(code))
  BY <1>1, OpeningsExist
<1>3. \A n \in 0..Len(code) : Open(code, n) = h[n]
  BY <1>1, <1>2, OpenIs
<1>4. h[0] = << >> /\ \A n \in 1..Len(code) : h[n] = Opened(h[n - 1], code[n])
  BY <1>1, <1>2 DEF Openings
<1>5. QED
  BY <1>1, <1>3, <1>4

LEMMA OpenWhole ==
  ASSUME NEW S, NEW code \in Seq(S)
  PROVE  Open(code, Len(code)) = Pending(code)
BY SubSeqFull DEF Open

LEMMA OpenSame ==
  ASSUME NEW S, NEW code \in Seq(S), NEW i \in S, NEW n \in 0..Len(code)
  PROVE  Open(Append(code, i), n) = Open(code, n)
<1> DEFINE c == Append(code, i)
<1>1. c \in Seq(S) /\ Len(c) = Len(code) + 1 /\ \A k \in 1..Len(code) : c[k] = code[k]
  BY AppendProperties
<1>2. Len(code) \in Nat
  BY LenProperties
<1>3. PICK h : Openings(h, code, Len(code))
  BY <1>2, OpeningsExist
<1>4. PICK f : Openings(f, c, Len(c))
  <2>1. Len(c) \in Nat
    BY <1>1, <1>2
  <2>2. QED
    BY <2>1, OpeningsExist
<1>5. f[n] = h[n]
  <2> HIDE DEF c
  <2>1. n \in Nat /\ n \in 0..Len(code) /\ n \in 0..Len(c) /\ Len(c) \in Nat
    BY <1>1, <1>2
  <2>2. \A k \in 1..n : c[k] = code[k]
    BY <1>1, <1>2
  <2>3. Follows(f, c, n) /\ Follows(h, code, n)
    BY <1>2, <1>3, <1>4, <2>1, OpeningsFollow
  <2>4. QED
    BY <2>1, <2>2, <2>3, OpeningsSame
<1>6. Open(c, n) = f[n] /\ Open(code, n) = h[n]
  <2>1. n \in 0..Len(c) /\ n <= Len(c) /\ n <= Len(code) /\ Len(c) \in Nat /\ Len(c) <= Len(c) /\ Len(code) <= Len(code)
    BY <1>1, <1>2
  <2> HIDE DEF c
  <2>2. Open(code, n) = h[n]
    BY <1>2, <1>3, <2>1, OpenIs
  <2>3. Open(c, n) = f[n]
    BY <1>1, <1>4, <2>1, OpenIs, ZenonT(30)
  <2>4. QED
    BY <2>2, <2>3
<1>7. QED
  BY <1>5, <1>6

Opening == Seq(Kinds)

LEMMA FrontLast ==
  ASSUME NEW S, NEW p \in Seq(S), p # << >>
  PROVE  /\ Front(p) \in Seq(S) /\ Len(Front(p)) = Len(p) - 1 /\ Len(p) \in Nat /\ Len(p) >= 1
         /\ \A k \in 1..Len(p) - 1 : Front(p)[k] = p[k]
         /\ Last(p) = p[Len(p)] /\ Last(p) \in S
<1>1. Len(p) \in Nat /\ Len(p) >= 1
  BY EmptySeq, LenProperties
<1>2. \A k \in 1..Len(p) - 1 : p[k] \in S
  BY <1>1, ElementOfSeq
<1>3. Front(p) = SubSeq(p, 1, Len(p) - 1)
  BY DEF Front
<1>4. Front(p) \in Seq(S) /\ Len(Front(p)) = (IF 1 <= Len(p) - 1 THEN Len(p) - 1 - 1 + 1 ELSE 0)
  BY <1>1, <1>2, <1>3, SubSeqProperties
<1>5. \A k \in 1..Len(p) - 1 - 1 + 1 : Front(p)[k] = p[1 + k - 1]
  BY <1>1, <1>2, <1>3, SubSeqProperties
<1>6. Last(p) = p[Len(p)] /\ p[Len(p)] \in S
  BY <1>1, ElementOfSeq DEF Last
<1>7. Len(Front(p)) = Len(p) - 1
  BY <1>1, <1>4
<1>8. \A k \in 1..Len(p) - 1 : Front(p)[k] = p[k]
  <2>1. \A k \in 1..Len(p) - 1 : k \in 1..Len(p) - 1 - 1 + 1 /\ 1 + k - 1 = k
    BY <1>1
  <2>2. QED
    BY <1>5, <2>1
<1>9. QED
  BY <1>1, <1>4, <1>6, <1>7, <1>8

LEMMA OpenType ==
  ASSUME NEW S, NEW code \in Seq(S), NEW n \in 0..Len(code)
  PROVE  Open(code, n) \in Opening
<1> DEFINE T == {k \in Nat : k <= Len(code) => Open(code, k) \in Opening}
<1>1. Len(code) \in Nat
  BY LenProperties
<1>2. 0 \in T
  BY OpenRun, EmptySeq DEF Opening
<1>3. ASSUME NEW k \in Nat, k < n, k \in T PROVE k + 1 \in T
  <2>1. k + 1 \in 1..Len(code) /\ (k + 1) - 1 = k /\ k <= Len(code)
    BY <1>1, <1>3
  <2> DEFINE p == Open(code, k)
             i == code[k + 1]
  <2>2. p \in Opening /\ Open(code, k + 1) = Opened(p, i)
    BY <1>3, <2>1, OpenRun
  <2> HIDE DEF p, i
  <2>3. Opened(p, i) \in Opening
    <3>1. Append(p, i.op) \in Opening \/ i.op \notin Opens
      BY <2>2, AppendProperties DEF Opening, Opens, Kinds
    <3>2. Front(p) \in Opening
      <4>1. CASE p = << >>
        <5>1. Front(p) = SubSeq(<< >>, 1, 0 - 1)
          BY <4>1, EmptySeq DEF Front
        <5>2. Front(p) = << >>
          BY <5>1, SubSeqEmpty
        <5>3. QED
          BY <5>2, EmptySeq DEF Opening
      <4>2. CASE p # << >>
        BY <2>2, <4>2, FrontLast DEF Opening
      <4>3. QED
        BY <4>1, <4>2
    <3>3. CASE i.op \in Opens
      <4>1. Opened(p, i) = Append(p, i.op)
        BY <3>3 DEF Opened, Opens, Closes
      <4>2. QED
        BY <3>1, <3>3, <4>1
    <3>4. CASE i.op \notin Opens /\ i.op \in DOMAIN Closes
      <4>1. Opened(p, i) = Front(p)
        BY <3>4 DEF Opened
      <4>2. QED
        BY <3>2, <4>1
    <3>5. CASE i.op \notin Opens /\ i.op \notin DOMAIN Closes
      <4>1. Opened(p, i) = p
        BY <3>5 DEF Opened
      <4>2. QED
        BY <2>2, <4>1
    <3>6. QED
      BY <3>3, <3>4, <3>5
  <2>4. QED
    BY <2>2, <2>3 DEF p
<1> HIDE DEF T
<1>4. \A k \in 0..n : k \in T
  BY <1>1, <1>2, <1>3, UpTo
<1>5. QED
  BY <1>1, <1>4 DEF T

\* What the code that a typesetter writes opens and closes.
Turns(p, i, q) ==
  /\ i.op \in {"push", "breflect"} => q = Append(p, i.op)
  /\ i.op = "pop" => p # << >> /\ Last(p) = "push" /\ q = Front(p)
  /\ i.op = "ereflect" => p # << >> /\ Last(p) = "breflect" /\ q = Front(p)
  /\ i.op \notin {"push", "breflect", "pop", "ereflect"} => q = p

LEMMA OpenTurns ==
  ASSUME NEW S, NEW code \in Seq(S), Formed(code), NEW n \in 1..Len(code)
  PROVE  /\ Turns(Open(code, n - 1), code[n], Open(code, n))
         /\ IsSpecial(code[n], {"bann", "href"}) => "push" \in ToSet(Open(code, n - 1))
         /\ IsSpecial(code[n], {"nolink"}) => Open(code, n - 1) = << >>
<1> DEFINE p == Open(code, n - 1)
           i == code[n]
           q == Open(code, n)
<1>1. q = Opened(p, i)
  BY OpenRun
<1>2. /\ i.op \in DOMAIN Closes => p # << >> /\ Last(p) = Closes[i.op]
      /\ IsSpecial(i, {"bann", "href"}) => "push" \in ToSet(p)
      /\ IsSpecial(i, {"nolink"}) => p = << >>
  <2>1. n \in DOMAIN code
    BY LenProperties
  <2>2. MayFollow(SubSeq(code, 1, n - 1), i)
    BY <2>1 DEF Formed
  <2>3. QED
    BY <2>2 DEF MayFollow, Open
<1>3. DOMAIN Closes = {"pop", "ereflect"} /\ Closes["pop"] = "push" /\ Closes["ereflect"] = "breflect"
  BY DEF Closes
<1> HIDE DEF p, i, q
<1>4. Turns(p, i, q)
  BY <1>1, <1>2, <1>3 DEF Turns, Opened, Opens
<1>5. QED
  BY <1>2, <1>4 DEF p, i, q

(***************************************************************************)
(* How many of what is open are pushes, or reflected segments.              *)
(***************************************************************************)
LEMMA CountEmpty ==
  ASSUME NEW what
  PROVE  Count(<< >>, what) = 0
<1>1. {k \in DOMAIN << >> : << >>[k] = what} = {}
  BY EmptySeq, LenProperties
<1>2. QED
  BY <1>1, FS_EmptySet DEF Count

LEMMA CountType ==
  ASSUME NEW p \in Opening, NEW what
  PROVE  /\ IsFiniteSet({k \in DOMAIN p : p[k] = what}) /\ Count(p, what) \in Nat
         /\ Count(p, what) <= Len(p)
<1>1. DOMAIN p = 1..Len(p) /\ Len(p) \in Nat
  BY LenProperties DEF Opening
<1>2. IsFiniteSet(1..Len(p)) /\ Cardinality(1..Len(p)) = Len(p)
  <2> DEFINE n == Len(p)
  <2>1. n \in Int /\ n >= 0 /\ 1 \in Int
    BY <1>1
  <2> HIDE DEF n
  <2>2. IsFiniteSet(1..n) /\ Cardinality(1..n) = IF 1 > n THEN 0 ELSE n - 1 + 1
    BY <2>1, FS_Interval
  <2>3. Cardinality(1..n) = n
    BY <2>1, <2>2
  <2>4. QED
    BY <2>2, <2>3 DEF n
<1>3. {k \in DOMAIN p : p[k] = what} \in SUBSET (1..Len(p))
  BY <1>1
<1>4. IsFiniteSet({k \in DOMAIN p : p[k] = what}) /\ Cardinality({k \in DOMAIN p : p[k] = what}) <= Len(p)
  BY <1>2, <1>3, FS_Subset
<1>5. QED
  BY <1>4, FS_CardinalityType DEF Count

LEMMA CountAppend ==
  ASSUME NEW p \in Opening, NEW x \in Kinds, NEW what
  PROVE  Count(Append(p, x), what) = Count(p, what) + (IF x = what THEN 1 ELSE 0)
<1> DEFINE q == Append(p, x)
           P == {k \in DOMAIN p : p[k] = what}
           Q == {k \in DOMAIN q : q[k] = what}
           n == Len(p)
<1>1. DOMAIN p = 1..n /\ n \in Nat /\ DOMAIN q = 1..n + 1 /\ q[n + 1] = x
      /\ \A k \in 1..n : q[k] = p[k]
  <2>1. DOMAIN p = 1..n /\ n \in Nat
    BY LenProperties DEF Opening
  <2>2. q \in Seq(Kinds) /\ Len(q) = n + 1 /\ q[n + 1] = x /\ \A k \in 1..n : q[k] = p[k]
    BY AppendProperties DEF Opening
  <2>3. DOMAIN q = 1..n + 1
    BY <2>2, LenProperties
  <2>4. QED
    BY <2>1, <2>2, <2>3
<1> HIDE DEF q, n
<1>2. Q = IF x = what THEN P \cup {n + 1} ELSE P
  BY <1>1
<1>3. n + 1 \notin P
  BY <1>1
<1>4. IsFiniteSet(P) /\ Cardinality(P) \in Nat
  BY CountType DEF Count
<1> HIDE DEF P, Q
<1>5. Cardinality(Q) = Cardinality(P) + (IF x = what THEN 1 ELSE 0)
  BY <1>2, <1>3, <1>4, FS_AddElement
<1>6. QED
  BY <1>5 DEF Count, P, Q, q

LEMMA FrontAppend ==
  ASSUME NEW S, NEW p \in Seq(S), p # << >>
  PROVE  p = Append(Front(p), Last(p))
<1>1. Front(p) \in Seq(S) /\ Last(p) \in S /\ Len(Front(p)) = Len(p) - 1 /\ Len(p) \in Nat /\ Len(p) >= 1
  BY FrontLast
<1> DEFINE q == Append(Front(p), Last(p))
<1>2. q \in Seq(S) /\ Len(q) = Len(Front(p)) + 1 /\ q[Len(Front(p)) + 1] = Last(p)
      /\ \A k \in 1..Len(Front(p)) : q[k] = Front(p)[k]
  BY <1>1, AppendProperties
<1>3. Len(q) = Len(p) /\ \A k \in 1..Len(p) : q[k] = p[k]
  BY <1>1, <1>2, FrontLast
<1> HIDE DEF q
<1>4. q = p
  BY <1>2, <1>3, SeqEqual
<1>5. QED
  BY <1>4 DEF q

LEMMA CountFront ==
  ASSUME NEW p \in Opening, p # << >>, NEW what
  PROVE  Count(p, what) = Count(Front(p), what) + (IF Last(p) = what THEN 1 ELSE 0)
<1>1. p = Append(Front(p), Last(p)) /\ Front(p) \in Opening /\ Last(p) \in Kinds
  BY FrontAppend, FrontLast DEF Opening
<1>2. Count(Append(Front(p), Last(p)), what) = Count(Front(p), what) + (IF Last(p) = what THEN 1 ELSE 0)
  BY <1>1, CountAppend
<1>3. QED
  BY <1>1, <1>2, Zenon

LEMMA CountIn ==
  ASSUME NEW p \in Opening, NEW what, what \in ToSet(p)
  PROVE  Count(p, what) >= 1
<1> DEFINE P == {k \in DOMAIN p : p[k] = what}
<1>1. P # {}
  BY DEF ToSet
<1>2. IsFiniteSet(P) /\ Cardinality(P) \in Nat
  BY CountType DEF Count
<1>3. Cardinality(P) # 0
  BY <1>1, <1>2, FS_EmptySet
<1>4. QED
  BY <1>2, <1>3 DEF Count

(***************************************************************************)
(* What the operations leave alone.                                         *)
(***************************************************************************)
SamePage(d, e) == e.doc = d.doc /\ e.left = d.left /\ e.pages = d.pages
SameLinks(d, e) ==
  e.link = d.link /\ e.own = d.own /\ e.out = d.out /\ e.annots = d.annots /\ e.line = d.line
SamePlace(d, e) == e.h = d.h /\ e.v = d.v /\ e.w = d.w /\ e.d = d.d
SameTurns(d, e) == e.lr.mode = d.lr.mode /\ e.lr.widths = d.lr.widths /\ e.lr.state = d.lr.state

\* A move changes the registers and the width that is measured.
Moves(d, e) ==
  /\ SamePage(d, e) /\ SameLinks(d, e) /\ SameTurns(d, e)
  /\ e.status = d.status /\ e.frames = d.frames /\ e.font = d.font /\ e.stack = d.stack
  /\ e.saved = d.saved

\* PUSH and POP by themselves.
Restacks(d, e) ==
  /\ SamePage(d, e) /\ SameLinks(d, e) /\ e.status = d.status /\ e.frames = d.frames
  /\ e.font = d.font /\ e.saved = d.saved /\ e.lr = d.lr

\* What an error leaves.
Fails(d, e) ==
  /\ e.status = "failed" /\ SamePage(d, e) /\ SameLinks(d, e) /\ e.stack = d.stack /\ e.saved = d.saved

\* Links alone.
Relinks(d, e) ==
  /\ SamePage(d, e) /\ SamePlace(d, e) /\ e.status = d.status /\ e.frames = d.frames
  /\ e.font = d.font /\ e.stack = d.stack /\ e.saved = d.saved /\ e.lr = d.lr /\ e.out = d.out

LEMMA StateFields ==
  ASSUME NEW d \in State
  PROVE  /\ d.status \in Status /\ d.doc \in Documents /\ d.left \in Nat /\ d.pages \in Nat
         /\ d.frames \in Frames /\ d.h \in Int /\ d.v \in Int /\ d.w \in Int /\ d.d \in Direction
         /\ d.font \in AnyFont /\ d.stack \in Stacks /\ d.saved \in Saves /\ d.lr \in LrSet
         /\ d.link \in LinkSet /\ d.own \in OwnSet /\ d.out \in Outs /\ d.annots \in Annots
         /\ d.line \in Nat
BY DEF State

LEMMA FailIs ==
  ASSUME NEW d \in State, NEW e, e = Fail(d)
  PROVE  e \in State /\ Fails(d, e)
BY DEF Fail, State, Status, Fails, SamePage, SameLinks

LEMMA MovesMore ==
  ASSUME NEW d, NEW e, NEW f, Moves(d, e), Moves(e, f)
  PROVE  Moves(d, f)
BY DEF Moves, SamePage, SameLinks, SameTurns

LEMMA WidthIs ==
  ASSUME NEW d \in State, NEW x \in Int, NEW e, e = [d EXCEPT !.lr.width = @ + x]
  PROVE  /\ e \in State /\ Moves(d, e) /\ SamePlace(d, e)
         /\ e.lr.width = d.lr.width + x
<1> DEFINE l == [d.lr EXCEPT !.width = d.lr.width + x]
<1>1. d.lr \in LrSet
  BY StateFields
<1>2. /\ l \in LrSet /\ l.width = d.lr.width + x /\ l.mode = d.lr.mode /\ l.widths = d.lr.widths
      /\ l.state = d.lr.state
  <2>1. d.lr.width + x \in Int
    BY <1>1 DEF LrSet
  <2>2. QED
    BY <1>1, <2>1 DEF LrSet
<1>3. e = [d EXCEPT !.lr = l]
  OBVIOUS
<1> HIDE DEF l
<1>4. QED
  BY <1>2, <1>3 DEF State, Moves, SamePage, SameLinks, SameTurns, SamePlace

LEMMA MovedMoves ==
  ASSUME NEW d \in State, NEW x \in Int, NEW e, e = Moved(d, x)
  PROVE  e \in State /\ Moves(d, e) /\ e.lr = d.lr /\ e.w = d.w /\ e.d = d.d
BY MovedIs DEF Moves, SamePage, SameLinks, SameTurns

LEMMA MoveRightIs ==
  ASSUME NEW d \in State, NEW x \in Int, NEW e, e = MoveRight(d, x)
  PROVE  e \in State /\ Moves(d, e) /\ e.w = d.w /\ e.d = d.d
<1>1. CASE Skims(d)
  <2>1. e = [d EXCEPT !.lr.width = @ + x]
    BY <1>1 DEF MoveRight
  <2>2. QED
    BY <2>1, WidthIs DEF SamePlace
<1>2. CASE ~Skims(d)
  <2> DEFINE y == IF d.lr.mode = Right THEN -x ELSE x
  <2>1. y \in Int
    OBVIOUS
  <2>2. e = Moved(d, y)
    BY <1>2 DEF MoveRight
  <2> HIDE DEF y
  <2>3. QED
    BY <2>1, <2>2, MovedMoves
<1>3. QED
  BY <1>1, <1>2

LEMMA MoveDownIs ==
  ASSUME NEW d \in State, NEW y \in Int, NEW e, e = MoveDown(d, y)
  PROVE  e \in State /\ Moves(d, e)
<1>1. d.h \in Int /\ d.v \in Int /\ d.d \in {0, 1, 3}
  BY StateFields DEF Direction
<1>2. CASE Skims(d)
  BY <1>2 DEF MoveDown, Moves, SamePage, SameLinks, SameTurns
<1>3. CASE ~Skims(d) /\ d.d = 0
  <2>1. e = [d EXCEPT !.v = d.v + y]
    BY <1>3 DEF MoveDown
  <2>2. d.v + y \in Int
    BY <1>1
  <2>3. QED
    BY <2>1, <2>2 DEF State, Moves, SamePage, SameLinks, SameTurns
<1>4. CASE ~Skims(d) /\ d.d = 1
  <2>1. e = [d EXCEPT !.h = d.h - y]
    BY <1>4 DEF MoveDown
  <2>2. d.h - y \in Int
    BY <1>1
  <2>3. QED
    BY <2>1, <2>2 DEF State, Moves, SamePage, SameLinks, SameTurns
<1>5. CASE ~Skims(d) /\ d.d = 3
  <2>1. e = [d EXCEPT !.h = d.h + y]
    BY <1>5 DEF MoveDown
  <2>2. d.h + y \in Int
    BY <1>1
  <2>3. QED
    BY <2>1, <2>2 DEF State, Moves, SamePage, SameLinks, SameTurns
<1>6. QED
  BY <1>1, <1>2, <1>3, <1>4, <1>5

LEMMA MoveWIs ==
  ASSUME NEW d \in State, NEW x \in Int, NEW e, e = MoveW(d, x)
  PROVE  e \in State /\ Moves(d, e)
<1> DEFINE f == [d EXCEPT !.w = x]
<1>1. f \in State /\ Moves(d, f)
  BY DEF State, Moves, SamePage, SameLinks, SameTurns
<1>2. e = MoveRight(f, x)
  BY DEF MoveW
<1> HIDE DEF f
<1>3. QED
  BY <1>1, <1>2, MoveRightIs, MovesMore

LEMMA SetDirIs ==
  ASSUME NEW d \in State, NEW x \in Direction, NEW e, e = SetDir(d, x)
  PROVE  e \in State /\ Moves(d, e)
BY DEF SetDir, State, Moves, SamePage, SameLinks, SameTurns

LEMMA PushIs ==
  ASSUME NEW d \in State, NEW e, e = Push(d)
  PROVE  /\ e \in State
         /\ Len(d.stack) >= StackMax => Fails(d, e)
         /\ Len(d.stack) < StackMax =>
              /\ Restacks(d, e) /\ SamePlace(d, e)
              /\ e.stack = Append(d.stack, Regs(d)) /\ Len(e.stack) = Len(d.stack) + 1
<1>1. d.stack \in Seq(RegSet) /\ Regs(d) \in RegSet
  BY StateFields DEF Stacks, Regs, RegSet, Direction
<1>2. StackMax \in Nat /\ Len(d.stack) \in Nat
  BY <1>1, DviAssumption, LenProperties
<1> DEFINE t == Append(d.stack, Regs(d))
<1>3. t \in Stacks /\ Len(t) = Len(d.stack) + 1
  BY <1>1, AppendProperties DEF Stacks
<1>4. CASE Len(d.stack) >= StackMax
  <2>1. e = Fail(d)
    BY <1>4 DEF Push
  <2>2. QED
    BY <1>2, <1>4, <2>1, FailIs
<1>5. CASE ~(Len(d.stack) >= StackMax)
  <2>1. e = [d EXCEPT !.stack = t]
    BY <1>5 DEF Push
  <2> HIDE DEF t
  <2>2. e \in State /\ e.stack = t /\ Restacks(d, e) /\ SamePlace(d, e)
    BY <1>3, <2>1 DEF State, Restacks, SamePage, SameLinks, SamePlace
  <2>3. QED
    BY <1>2, <1>3, <1>5, <2>2 DEF t
<1>6. QED
  BY <1>4, <1>5

LEMMA PopIs ==
  ASSUME NEW d \in State, NEW e, e = Pop(d)
  PROVE  /\ e \in State
         /\ d.stack = << >> => Fails(d, e)
         /\ d.stack # << >> =>
              /\ Restacks(d, e) /\ e.stack = Front(d.stack) /\ Len(e.stack) = Len(d.stack) - 1
              /\ Regs(e) = Last(d.stack)
<1>1. d.stack \in Seq(RegSet)
  BY StateFields DEF Stacks
<1>2. CASE d.stack = << >>
  <2>1. e = Fail(d)
    BY <1>2 DEF Pop
  <2>2. QED
    BY <1>2, <2>1, FailIs
<1>3. CASE d.stack # << >>
  <2> DEFINE t == Front(d.stack)
             r == Last(d.stack)
  <2>1. t \in Stacks /\ Len(t) = Len(d.stack) - 1 /\ r \in RegSet
    BY <1>1, <1>3, FrontLast DEF Stacks
  <2>2. e = [WithRegs(d, r) EXCEPT !.stack = t]
    BY <1>3 DEF Pop, WithRegs
  <2>3. r.h \in Int /\ r.v \in Int /\ r.w \in Int /\ r.d \in Direction
        /\ r = [h |-> r.h, v |-> r.v, w |-> r.w, d |-> r.d]
    BY <2>1 DEF RegSet, Direction
  <2> HIDE DEF t, r
  <2>4. WithRegs(d, r) \in State /\ Regs(WithRegs(d, r)) = r
        /\ Restacks(d, WithRegs(d, r)) /\ WithRegs(d, r).stack = d.stack
    BY <2>3 DEF WithRegs, State, Regs, Restacks, SamePage, SameLinks
  <2> DEFINE f == WithRegs(d, r)
  <2> HIDE DEF f
  <2>5. e = [f EXCEPT !.stack = t] /\ f \in State
    BY <2>2, <2>4 DEF f
  <2>6. e \in State /\ e.stack = t /\ Restacks(f, e) /\ Regs(e) = Regs(f)
    BY <2>1, <2>5 DEF State, Restacks, SamePage, SameLinks, Regs
  <2>7. QED
    BY <1>3, <2>1, <2>4, <2>6 DEF f, t, r, Restacks, SamePage, SameLinks
<1>4. QED
  BY <1>2, <1>3

(***************************************************************************)
(* Glyphs.                                                                  *)
(***************************************************************************)
SameFrame(f, g) ==
  g.code = f.code /\ g.pc = f.pc /\ g.start = f.start /\ g.below = f.below /\ g.after = f.after
GlyphAt(d, c) == [font |-> d.font, char |-> c, h |-> d.h, v |-> d.v, d |-> d.d]
Codes(d, e) ==
  /\ Len(e.frames) = Len(d.frames)
  /\ \A j \in 1..Len(d.frames) : SameFrame(d.frames[j], e.frames[j])
Logs(d, e, g) ==
  /\ Codes(d, e)
  /\ \A j \in 1..Len(d.frames) - 1 : e.frames[j] = d.frames[j]
  /\ e.frames[Len(d.frames)].set = Append(d.frames[Len(d.frames)].set, g)
Stays(d, e) ==
  /\ SamePage(d, e) /\ SamePlace(d, e) /\ e.status = d.status /\ e.font = d.font
  /\ e.stack = d.stack /\ e.saved = d.saved /\ e.lr = d.lr
SameTracks(d, e) ==
  /\ e.link.dict = d.link.dict /\ e.link.on = d.link.on /\ e.link.boxes = d.link.boxes
  /\ e.link.tag = d.link.tag /\ e.link.mark = d.link.mark /\ e.own = d.own
  /\ e.annots = d.annots /\ e.line = d.line

LEMMA FrameAt ==
  ASSUME NEW d \in State, NEW j \in 1..Len(d.frames)
  PROVE  /\ d.frames[j] \in Frame /\ d.frames[j].code \in Seq(Instr) /\ d.frames[j].pc \in Nat
         /\ d.frames[j].set \in Seq(Glyph) /\ d.frames[j].start \in Begun /\ d.frames[j].below \in Nat
         /\ d.frames[j].after \in Int
<1>1. d.frames \in Seq(Frame)
  BY StateFields DEF Frames
<1>2. d.frames[j] \in Frame
  BY <1>1, ElementOfSeq
<1>3. QED
  BY <1>2 DEF Frame

LEMMA FramesLen ==
  ASSUME NEW d \in State
  PROVE  /\ d.frames \in Seq(Frame) /\ Len(d.frames) \in Nat /\ DOMAIN d.frames = 1..Len(d.frames)
         /\ (d.frames # << >> => Len(d.frames) >= 1) /\ (d.frames = << >> => Len(d.frames) = 0)
<1>1. d.frames \in Seq(Frame)
  BY StateFields DEF Frames
<1>2. QED
  BY <1>1, LenProperties, EmptySeq

LEMMA GlyphIs ==
  ASSUME NEW d \in State, NEW c \in Char \cup {Rule}
  PROVE  GlyphAt(d, c) \in Glyph
BY StateFields DEF GlyphAt, Glyph, Direction

LEMMA SetTop ==
  ASSUME NEW d \in State, d.frames # << >>, NEW f \in Frame,
         NEW e, e = [d EXCEPT !.frames = [d.frames EXCEPT ![Len(d.frames)] = f]]
  PROVE  /\ e \in State /\ Stays(d, e) /\ SameLinks(d, e)
         /\ Len(e.frames) = Len(d.frames) /\ e.frames[Len(d.frames)] = f
         /\ \A j \in 1..Len(d.frames) - 1 : e.frames[j] = d.frames[j]
<1> DEFINE n == Len(d.frames)
           fs == [d.frames EXCEPT ![n] = f]
<1>1. d.frames \in Seq(Frame) /\ n \in Nat /\ n >= 1
  BY FramesLen
<1>2. n \in 1..n
  BY <1>1
<1>3. fs \in Seq(Frame) /\ Len(fs) = n /\ \A j \in 1..n : fs[j] = IF j = n THEN f ELSE d.frames[j]
  BY <1>1, <1>2, ExceptSeq
<1>4. fs \in Frames
  BY <1>3 DEF Frames
<1>5. Len(fs) = n /\ fs[n] = f /\ \A j \in 1..n - 1 : fs[j] = d.frames[j]
  BY <1>1, <1>2, <1>3
<1> HIDE DEF fs
<1>6. e \in State /\ Stays(d, e) /\ SameLinks(d, e) /\ e.frames = fs
  <2>1. e = [d EXCEPT !.frames = fs]
    BY DEF fs
  <2>2. QED
    BY <1>4, <2>1 DEF State, Stays, SameLinks, SamePage, SamePlace
<1>7. QED
  BY <1>5, <1>6

LEMMA LogIs ==
  ASSUME NEW d \in State, d.frames # << >>, NEW c \in Char \cup {Rule}, NEW e, e = Log(d, c)
  PROVE  e \in State /\ Stays(d, e) /\ SameLinks(d, e) /\ Logs(d, e, GlyphAt(d, c))
<1> DEFINE n == Len(d.frames)
           s1 == Append(d.frames[n].set, GlyphAt(d, c))
           f == [d.frames[n] EXCEPT !.set = s1]
<1>1. n \in Nat /\ n >= 1 /\ n \in 1..n
  BY FramesLen
<1>2. d.frames[n] \in Frame /\ d.frames[n].set \in Seq(Glyph) /\ GlyphAt(d, c) \in Glyph
  BY <1>1, FrameAt, GlyphIs
<1>3. s1 \in Seq(Glyph)
  BY <1>2, AppendProperties
<1>4. e = [d EXCEPT !.frames = [d.frames EXCEPT ![n] = f]]
  BY DEF Log, GlyphAt
<1> HIDE DEF s1
<1>5. f \in Frame /\ SameFrame(d.frames[n], f) /\ f.set = s1
  BY <1>2, <1>3 DEF Frame, SameFrame
<1> HIDE DEF f
<1>6. /\ e \in State /\ Stays(d, e) /\ SameLinks(d, e)
      /\ Len(e.frames) = n /\ e.frames[n] = f
      /\ \A j \in 1..n - 1 : e.frames[j] = d.frames[j]
  BY <1>4, <1>5, SetTop
<1>7. \A j \in 1..n : SameFrame(d.frames[j], e.frames[j])
  <2>1. \A j \in 1..n : j = n \/ j \in 1..n - 1
    BY <1>1
  <2>2. QED
    BY <1>5, <1>6, <2>1 DEF SameFrame
<1>8. QED
  BY <1>5, <1>6, <1>7 DEF Logs, Codes, s1

Shown(d, c) == [font |-> d.font, char |-> c, link |-> Inside(d), line |-> d.line]
Shows(d, e, c) ==
  /\ Stays(d, e) /\ SameTracks(d, e) /\ Logs(d, e, GlyphAt(d, c))
  /\ e.out = Append(d.out, Shown(d, c))
  /\ e.link.box = IF Tracking(d) THEN d.link.box \cup {Len(d.out) + 1} ELSE d.link.box

LEMMA TypesetIs ==
  ASSUME NEW d \in State, d.frames # << >>, NEW c \in Char, NEW e, e = Typeset(d, c)
  PROVE  e \in State /\ Shows(d, e, c)
<1> DEFINE l == Log(d, c)
           g == Shown(d, c)
           o == Append(d.out, g)
           n == Len(d.out) + 1
<1>1. l \in State /\ Stays(d, l) /\ SameLinks(d, l) /\ Logs(d, l, GlyphAt(d, c))
  BY LogIs
<1>2. g \in OutGlyph
  BY StateFields DEF Shown, OutGlyph, Inside, NoLink, LinkSet, Dict
<1>3. d.out \in Seq(OutGlyph) /\ Len(d.out) \in Nat
  BY StateFields, LenProperties DEF Outs
<1>4. o \in Outs /\ n \in Nat
  BY <1>2, <1>3, AppendProperties DEF Outs
<1> DEFINE m == [l EXCEPT !.out = o]
<1>5. e = ExpandBox(m, n)
  <2>1. l.out = d.out
    BY <1>1 DEF SameLinks
  <2>2. m = [l EXCEPT !.out = Append(@, [font |-> d.font, char |-> c, link |-> Inside(d), line |-> d.line])]
    BY <2>1 DEF Shown
  <2>3. QED
    BY <2>2 DEF Typeset
<1> HIDE DEF l, o, n
<1>6. m \in State /\ Stays(l, m) /\ m.frames = l.frames /\ m.out = o /\ m.link = l.link /\ m.own = l.own
      /\ m.annots = l.annots /\ m.line = l.line
  BY <1>1, <1>4 DEF State, Stays, SamePage, SamePlace
<1> HIDE DEF m
<1> DEFINE b == IF Tracking(m) THEN m.link.box \cup {n} ELSE m.link.box
<1>7. m.link \in LinkSet
  BY <1>6, StateFields
<1> DEFINE k == [m.link EXCEPT !.box = b]
<1>8. /\ k \in LinkSet /\ k.dict = m.link.dict /\ k.on = m.link.on /\ k.boxes = m.link.boxes
      /\ k.tag = m.link.tag /\ k.mark = m.link.mark /\ k.box = b
  <2>1. b \in SUBSET Nat
    BY <1>4, <1>7 DEF LinkSet
  <2> HIDE DEF b
  <2>2. QED
    BY <1>7, <2>1 DEF LinkSet
<1>9. e = [m EXCEPT !.link = k]
  <2>1. CASE Tracking(m)
    BY <1>5, <2>1 DEF ExpandBox
  <2>2. CASE ~Tracking(m)
    <3>1. e = m
      BY <1>5, <2>2 DEF ExpandBox
    <3>2. k = m.link
      BY <1>7, <2>2 DEF LinkSet
    <3> HIDE DEF k
    <3>3. QED
      BY <1>6, <3>1, <3>2 DEF State
  <2>3. QED
    BY <2>1, <2>2
<1>10. Tracking(m) <=> Tracking(d)
  BY <1>1, <1>6 DEF Tracking, SameLinks
<1>11. b = IF Tracking(d) THEN d.link.box \cup {n} ELSE d.link.box
  BY <1>1, <1>6, <1>10 DEF SameLinks
<1> HIDE DEF k, b
<1>12. e \in State /\ Stays(m, e) /\ e.frames = m.frames /\ e.out = m.out /\ e.link = k /\ e.own = m.own
       /\ e.annots = m.annots /\ e.line = m.line
  BY <1>6, <1>8, <1>9 DEF State, Stays, SamePage, SamePlace
<1>13. Stays(d, e)
  BY <1>1, <1>6, <1>12 DEF Stays, SamePage, SamePlace
<1>14. SameTracks(d, e)
  BY <1>1, <1>6, <1>8, <1>12 DEF SameTracks, SameLinks
<1>15. Logs(d, e, GlyphAt(d, c))
  BY <1>1, <1>6, <1>12 DEF Logs, Codes
<1>16. QED
  BY <1>6, <1>8, <1>11, <1>12, <1>13, <1>14, <1>15 DEF Shows, o, n

(***************************************************************************)
(* What do_glyphs makes of n glyphs.                                        *)
(***************************************************************************)
AllTable(h, d, glyphs, n) == h = [k \in 0..n |-> IF k = 0 THEN d ELSE TypesetAt(h[k - 1], glyphs[k])]
AllRun(h, d, glyphs, n) ==
  h[0] = d /\ \A k \in 1..n : h[k] = TypesetAt(h[k - 1], glyphs[k])

LEMMA AllTableExists ==
  ASSUME NEW d, NEW glyphs, NEW n \in Nat
  PROVE  \E h : AllTable(h, d, glyphs, n)
<1> DEFINE S == {k \in Nat : \E h : AllTable(h, d, glyphs, k)}
<1>1. 0 \in S
  <2> DEFINE h == [k \in 0..0 |-> d]
  <2>1. h = [k \in 0..0 |-> IF k = 0 THEN d ELSE TypesetAt(h[k - 1], glyphs[k])]
    <3>1. \A k \in 0..0 : k = 0
      OBVIOUS
    <3>2. QED
      BY <3>1
  <2>2. QED
    BY <2>1 DEF AllTable
<1>2. ASSUME NEW m \in Nat, m \in S PROVE m + 1 \in S
  <2>1. PICK f : AllTable(f, d, glyphs, m)
    BY <1>2
  <2> DEFINE h == [k \in 0..m + 1 |-> IF k = m + 1 THEN TypesetAt(f[m], glyphs[m + 1]) ELSE f[k]]
             r == [k \in 0..m + 1 |-> IF k = 0 THEN d ELSE TypesetAt(h[k - 1], glyphs[k])]
  <2>2. ASSUME NEW k \in 0..m + 1 PROVE h[k] = r[k]
    <3>1. CASE k = m + 1
      <4>1. m \in 0..m + 1 /\ m # m + 1 /\ k # 0 /\ k - 1 = m
        BY <3>1
      <4>2. h[m] = f[m]
        BY <4>1
      <4>3. QED
        BY <3>1, <4>1, <4>2
    <3>2. CASE k # m + 1
      <4>1. k \in 0..m
        BY <3>2
      <4>2. f[k] = IF k = 0 THEN d ELSE TypesetAt(f[k - 1], glyphs[k])
        BY <2>1, <4>1 DEF AllTable
      <4>3. k # 0 => k - 1 \in 0..m + 1 /\ k - 1 # m + 1
        BY <4>1
      <4>4. k # 0 => h[k - 1] = f[k - 1]
        BY <4>3
      <4>5. h[k] = f[k]
        BY <3>2
      <4>6. QED
        BY <4>2, <4>4, <4>5
    <3>3. QED
      BY <3>1, <3>2
  <2>3. h = r
    BY <2>2
  <2>4. AllTable(h, d, glyphs, m + 1)
    BY <2>3 DEF AllTable
  <2>5. QED
    BY <2>4
<1> HIDE DEF S
<1>3. \A k \in 0..n : k \in S
  BY <1>1, <1>2, UpTo
<1>4. n \in S
  BY <1>3
<1>5. QED
  BY <1>4 DEF S

LEMMA AllRuns ==
  ASSUME NEW d, NEW glyphs, NEW n \in Nat, n = Len(glyphs)
  PROVE  \E h : AllRun(h, d, glyphs, n) /\ TypesetAll(d, glyphs) = h[n]
<1> DEFINE g == CHOOSE f : f = [k \in 0..n |-> IF k = 0 THEN d ELSE TypesetAt(f[k - 1], glyphs[k])]
<1>1. PICK h : h = [k \in 0..n |-> IF k = 0 THEN d ELSE TypesetAt(h[k - 1], glyphs[k])]
  <2>1. \E h : AllTable(h, d, glyphs, n)
    BY AllTableExists
  <2>2. QED
    BY <2>1 DEF AllTable
<1>2. g = [k \in 0..n |-> IF k = 0 THEN d ELSE TypesetAt(g[k - 1], glyphs[k])]
  BY <1>1, Zenon
<1>3. TypesetAll(d, glyphs) = g[n]
  BY Zenon DEF TypesetAll
<1> HIDE DEF g
<1>4. g[0] = d
  BY <1>2
<1>5. ASSUME NEW k \in 1..n PROVE g[k] = TypesetAt(g[k - 1], glyphs[k])
  <2>1. k \in 0..n /\ k # 0
    OBVIOUS
  <2>2. QED
    BY <1>2, <2>1
<1>6. QED
  BY <1>3, <1>4, <1>5 DEF AllRun

GlyphRun == Seq([x : Int, char : Char])

\* The glyphs of a run change what typesetting one of them changes.
Draws(d, e) == Stays(d, e) /\ SameTracks(d, e) /\ Codes(d, e)

LEMMA DrawsMore ==
  ASSUME NEW d, NEW e, NEW f, Draws(d, e), Draws(e, f)
  PROVE  Draws(d, f)
BY DEF Draws, Stays, SameTracks, Codes, SameFrame, SamePage, SamePlace

\* A glyph of a run: moved to its place, typeset, and back.
AtPlace(d, m, r, e, x, c) ==
  /\ m = [d EXCEPT !.h = @ + x] /\ m.h = d.h + x /\ r = Typeset(m, c) /\ Shows(m, r, c)
  /\ e = [r EXCEPT !.h = d.h] /\ SameLinks(r, e) /\ e.frames = r.frames
  /\ SameLinks(d, m) /\ m.frames = d.frames
  /\ m.font = d.font /\ m.stack = d.stack /\ m.v = d.v /\ m.d = d.d

LEMMA TypesetAtIs ==
  ASSUME NEW d \in State, d.frames # << >>, NEW g, g.x \in Int, g.char \in Char, NEW e,
         e = TypesetAt(d, g)
  PROVE  /\ e \in State /\ Draws(d, e) /\ e.frames # << >>
         /\ \E m \in State, r \in State : AtPlace(d, m, r, e, g.x, g.char)
<1> DEFINE x == g.x
           c == g.char
<1>0. x \in Int /\ c \in Char
  OBVIOUS
<1> DEFINE m == [d EXCEPT !.h = d.h + x]
           r == Typeset(m, c)
<1>1. d.h \in Int /\ d.h + x \in Int
  BY <1>0, StateFields
<1>2. /\ m \in State /\ SameLinks(d, m) /\ m.frames = d.frames /\ m.h = d.h + x
      /\ SamePage(d, m) /\ m.v = d.v /\ m.w = d.w /\ m.d = d.d /\ m.status = d.status /\ m.font = d.font
      /\ m.stack = d.stack /\ m.saved = d.saved /\ m.lr = d.lr
  BY <1>1 DEF State, SameLinks, SamePage
<1>3. m = [d EXCEPT !.h = @ + x]
  OBVIOUS
<1> HIDE DEF m
<1>4. r \in State /\ Shows(m, r, c)
  BY <1>0, <1>2, TypesetIs
<1>5. e = [r EXCEPT !.h = d.h]
  BY DEF TypesetAt, m
<1> HIDE DEF r
<1>6. /\ e \in State /\ SameLinks(r, e) /\ e.frames = r.frames /\ e.h = d.h
      /\ SamePage(r, e) /\ e.v = r.v /\ e.w = r.w /\ e.d = r.d /\ e.status = r.status /\ e.font = r.font
      /\ e.stack = r.stack /\ e.saved = r.saved /\ e.lr = r.lr
  BY <1>1, <1>4, <1>5 DEF State, SameLinks, SamePage
<1>7. Draws(d, e)
  BY <1>2, <1>4, <1>6 DEF Draws, Shows, Stays, SameTracks, Codes, Logs, SameFrame, SamePage, SamePlace, SameLinks
<1>8. e.frames # << >>
  <2>1. Len(d.frames) >= 1 /\ Len(e.frames) = Len(d.frames)
    BY <1>7, FramesLen DEF Draws, Codes
  <2>2. QED
    BY <1>6, <2>1, FramesLen
<1>9. QED
  <2>1. r = Typeset(m, c)
    BY DEF r
  <2>2. AtPlace(d, m, r, e, x, c)
    BY <1>2, <1>3, <1>4, <1>5, <1>6, <2>1 DEF AtPlace
  <2>3. QED
    BY <1>2, <1>4, <1>6, <1>7, <1>8, <2>2

LEMMA TypesetAllIs ==
  ASSUME NEW d \in State, d.frames # << >>, NEW glyphs \in GlyphRun, NEW e, e = TypesetAll(d, glyphs)
  PROVE  e \in State /\ Draws(d, e)
<1> DEFINE n == Len(glyphs)
<1>1. n \in Nat /\ \A k \in 1..n : glyphs[k].x \in Int /\ glyphs[k].char \in Char
  <2>1. n \in Nat /\ \A k \in 1..n : glyphs[k] \in [x : Int, char : Char]
    BY LenProperties, ElementOfSeq DEF GlyphRun
  <2>2. QED
    BY <2>1
<1>2. PICK h : AllRun(h, d, glyphs, n) /\ e = h[n]
  BY <1>1, AllRuns
<1> HIDE DEF n
<1> DEFINE T == {k \in Nat : k <= n => h[k] \in State /\ Draws(d, h[k]) /\ h[k].frames # << >>}
<1>3. 0 \in T
  <2>1. h[0] = d
    BY <1>2 DEF AllRun
  <2>2. Draws(d, d)
    BY DEF Draws, Stays, SameTracks, Codes, SameFrame, SamePage, SamePlace
  <2>3. QED
    BY <2>1, <2>2
<1>4. ASSUME NEW k \in Nat, k < n, k \in T PROVE k + 1 \in T
  <2>1. k + 1 \in 1..n /\ (k + 1) - 1 = k /\ k <= n
    BY <1>1, <1>4
  <2>2. h[k + 1] = TypesetAt(h[k], glyphs[k + 1])
    BY <1>2, <2>1 DEF AllRun
  <2>3. h[k] \in State /\ Draws(d, h[k]) /\ h[k].frames # << >>
    BY <1>4, <2>1
  <2> DEFINE p == h[k]
             q == h[k + 1]
             g == glyphs[k + 1]
  <2>4. g.x \in Int /\ g.char \in Char
    BY <1>1, <2>1
  <2> HIDE DEF p, q, g
  <2>5. p \in State /\ p.frames # << >> /\ q = TypesetAt(p, g) /\ Draws(d, p)
    BY <2>2, <2>3 DEF p, q, g
  <2>6. q \in State /\ Draws(p, q) /\ q.frames # << >>
    BY <2>4, <2>5, TypesetAtIs
  <2>7. Draws(d, q)
    BY <2>5, <2>6, DrawsMore
  <2>8. QED
    BY <2>6, <2>7 DEF q
<1> HIDE DEF T
<1>5. \A k \in 0..n : k \in T
  BY <1>1, <1>3, <1>4, UpTo
<1>6. n \in T
  BY <1>1, <1>5
<1>7. QED
  BY <1>1, <1>2, <1>6 DEF T

(***************************************************************************)
(* The invariant of control: how deep the stacks are, and what is open.     *)
(* k is how many instructions of the frame at the top have been executed:   *)
(* within a step one less than before its end.                              *)
(***************************************************************************)
Ran(d, j, k) == IF j = Len(d.frames) THEN k ELSE d.frames[j].pc - 1
Depth(d, j) == IF j = Len(d.frames) THEN Len(d.stack) ELSE d.frames[j + 1].below
Base(d, j) == IF j = 1 THEN 0 ELSE d.frames[j].below + 1
Turning(doc) == \E i \in InstrsOf(doc) : i.op = "breflect"
Extends(p, q) == Len(q) <= Len(p) /\ \A x \in 1..Len(q) : p[x] = q[x]

FrameOK(d, j, k) ==
  LET f == d.frames[j]
  IN /\ Formed(f.code) /\ f.pc \in 1..Len(f.code) + 1
     /\ Depth(d, j) = Base(d, j) + Count(Open(f.code, Ran(d, j, k)), "push")
     /\ j = 1 => f.below = 0 /\ f.code \in Seq(InstrsOf(d.doc))
     /\ j > 1 => /\ f.below >= j - 2 /\ Pending(f.code) = << >>
                 /\ \A n \in 1..Len(f.code) : f.code[n].op \notin {"xxx", "breflect", "ereflect"}

\* While a segment is measured its beginning stays open, and the stack of widths
\* holds those of the segments around it and one for each push in it.
Measuring(d, k) ==
  LET code == d.frames[1].code
      b == d.lr.state.pc - 1
      p == Open(code, k)
      q == Open(code, b)
  IN /\ d.lr.state \in Segment /\ b \in 1..k /\ code[b].op = "breflect"
     /\ \A m \in b..k : Extends(Open(code, m), q)
     /\ d.lr.mode - Skimming = Count(p, "breflect") - Count(q, "breflect")
     /\ Len(d.lr.widths) = Count(q, "breflect") - 1 + Count(p, "push") - Count(q, "push")
     /\ d.lr.state.mode = (Count(q, "breflect") - 1) % 2 /\ Kind(d.lr.state.font) # "virtual"

TurnsOK(d, k) ==
  LET p == Open(d.frames[1].code, Ran(d, 1, k))
  IN /\ ~Turning(d.doc) => Count(p, "breflect") = 0 /\ ~Skims(d)
     /\ Turning(d.doc) => Len(d.frames) = 1 /\ Kind(d.font) # "virtual"
     /\ ~Skims(d) => /\ d.lr.mode = Count(p, "breflect") % 2
                     /\ Len(d.lr.widths) = Count(p, "breflect")
     /\ Skims(d) => Measuring(d, k)

OnPage(d, k) ==
  /\ Len(d.frames) = Len(d.saved) + 1
  /\ \A j \in 1..Len(d.frames) : FrameOK(d, j, k)
  /\ TurnsOK(d, k)

Bounded(d) == Len(d.stack) <= StackMax /\ Len(d.saved) <= NestMax
ControlInv(d) ==
  /\ d \in State /\ Bounded(d)
  /\ d.status = "idle" => /\ d.frames = << >> /\ d.saved = << >> /\ d.stack = << >>
                          /\ d.lr.mode = Left /\ d.lr.widths = << >>
  /\ d.status = "page" => OnPage(d, Top(d).pc - 1)

(***************************************************************************)
(* The invariant of links.                                                  *)
(***************************************************************************)
Rects(d, g) == {n \in DOMAIN d.annots : g \in d.annots[n].glyphs}
Covered(d, g) ==
  LET open == g \in d.link.box
  IN IF d.out[g].link = NoLink THEN Rects(d, g) = {} /\ ~open
     ELSE IF open THEN Rects(d, g) = {} /\ d.link.dict = d.out[g].link
     ELSE \E n \in Rects(d, g) : Rects(d, g) = {n} /\ d.annots[n].link = d.out[g].link
OneLine(d, glyphs) == \A g, f \in glyphs : d.out[g].line = d.out[f].line
Has(doc, name) == \E i \in InstrsOf(doc) : IsSpecial(i, {name})

\* What rectangles and the box being collected hold, whatever the depth and line.
LinkCore(d) ==
  /\ d.link.boxes <=> d.link.dict # NoLink
  /\ IF d.link.boxes THEN d.link.tag >= 1 ELSE d.link.tag = -1 /\ d.link.box = {}
  /\ d.link.boxes <=> d.own.annot_dict # NoLink \/ d.own.pending = "href"
  /\ d.own.annot_dict # NoLink => Has(d.doc, "bann")
  /\ d.own.pending = "href" => Has(d.doc, "href")
  /\ d.link.box \subseteq DOMAIN d.out /\ OneLine(d, d.link.box)
  /\ \A n \in DOMAIN d.annots : d.annots[n].glyphs \subseteq DOMAIN d.out
                                /\ OneLine(d, d.annots[n].glyphs)
  /\ \A g \in DOMAIN d.out : Covered(d, g)
\* The box is on the line that is being set, no shallower than its link.
BoxInv(d) ==
  /\ \A g \in d.link.box : d.out[g].line = d.line
  /\ d.link.box # {} => d.link.on /\ d.link.mark >= d.link.tag
LinkInv(d) == LinkCore(d) /\ BoxInv(d)
Marked(d) == d.link.mark = (IF d.status = "idle" THEN 0 ELSE PageDepth(d))
LinksInv(d) == LinkInv(d) /\ (d.status # "failed" => Marked(d))

(***************************************************************************)
(* How an instruction changes what is open.                                 *)
(***************************************************************************)
Tally(p, i, q) ==
  /\ Count(q, "push") = Count(p, "push") + (IF i.op = "push" THEN 1 ELSE IF i.op = "pop" THEN -1 ELSE 0)
  /\ Count(q, "breflect") = Count(p, "breflect")
       + (IF i.op = "breflect" THEN 1 ELSE IF i.op = "ereflect" THEN -1 ELSE 0)

LEMMA TurnsTally ==
  ASSUME NEW p \in Opening, NEW i, NEW q, Turns(p, i, q)
  PROVE  /\ Count(p, "push") \in Nat /\ Count(p, "breflect") \in Nat
         /\ Tally(p, i, q)
         /\ i.op = "pop" => Count(p, "push") >= 1
         /\ i.op = "ereflect" => Count(p, "breflect") >= 1
<1>1. Count(p, "push") \in Nat /\ Count(p, "breflect") \in Nat
  BY CountType
<1>2. CASE i.op \in {"push", "breflect"}
  <2>1. q = Append(p, i.op) /\ i.op \in Kinds
    BY <1>2 DEF Turns, Kinds
  <2>2. /\ Count(q, "push") = Count(p, "push") + (IF i.op = "push" THEN 1 ELSE 0)
        /\ Count(q, "breflect") = Count(p, "breflect") + (IF i.op = "breflect" THEN 1 ELSE 0)
    BY <2>1, CountAppend
  <2>3. QED
    BY <1>1, <1>2, <2>2 DEF Tally
<1>3. CASE i.op \in {"pop", "ereflect"}
  <2>1. p # << >> /\ q = Front(p) /\ Last(p) = IF i.op = "pop" THEN "push" ELSE "breflect"
    BY <1>3 DEF Turns
  <2>2. /\ Count(p, "push") = Count(q, "push") + (IF Last(p) = "push" THEN 1 ELSE 0)
        /\ Count(p, "breflect") = Count(q, "breflect") + (IF Last(p) = "breflect" THEN 1 ELSE 0)
    BY <2>1, CountFront
  <2>3. q \in Opening
    BY <2>1, FrontLast DEF Opening
  <2>4. Count(q, "push") \in Nat /\ Count(q, "breflect") \in Nat
    BY <2>3, CountType
  <2>5. QED
    BY <1>1, <1>3, <2>1, <2>2, <2>4 DEF Tally
<1>4. CASE i.op \notin {"push", "breflect", "pop", "ereflect"}
  BY <1>1, <1>4 DEF Turns, Tally
<1>5. QED
  BY <1>2, <1>3, <1>4

LEMMA CountExtends ==
  ASSUME NEW p \in Opening, NEW q \in Opening, Extends(p, q), NEW what
  PROVE  Count(q, what) <= Count(p, what)
<1> DEFINE P == {k \in DOMAIN p : p[k] = what}
           Q == {k \in DOMAIN q : q[k] = what}
<1>1. DOMAIN p = 1..Len(p) /\ DOMAIN q = 1..Len(q) /\ Len(p) \in Nat /\ Len(q) \in Nat
  BY LenProperties DEF Opening
<1>2. Q \in SUBSET P
  BY <1>1 DEF Extends
<1>3. IsFiniteSet(P)
  BY CountType
<1> HIDE DEF P, Q
<1>4. Cardinality(Q) <= Cardinality(P)
  BY <1>2, <1>3, FS_Subset
<1>5. QED
  BY <1>4 DEF Count, P, Q

\* What is longer and ends with what has one more of it.
LEMMA CountLonger ==
  ASSUME NEW p \in Opening, NEW q \in Opening, Extends(p, q), Len(p) > Len(q)
  PROVE  /\ Extends(Front(p), q)
         /\ Count(p, Last(p)) >= Count(q, Last(p)) + 1
<1>1. p # << >>
  BY EmptySeq, LenProperties DEF Opening
<1>2. /\ Front(p) \in Opening /\ Len(Front(p)) = Len(p) - 1 /\ Len(p) \in Nat
      /\ \A k \in 1..Len(p) - 1 : Front(p)[k] = p[k]
  BY <1>1, FrontLast DEF Opening
<1>3. Len(q) \in Nat
  BY LenProperties DEF Opening
<1>4. Extends(Front(p), q)
  BY <1>2, <1>3 DEF Extends
<1>5. Count(q, Last(p)) <= Count(Front(p), Last(p))
  BY <1>2, <1>4, CountExtends
<1>6. Count(p, Last(p)) = Count(Front(p), Last(p)) + 1
  BY <1>1, CountFront
<1>7. Count(q, Last(p)) \in Nat /\ Count(Front(p), Last(p)) \in Nat
  BY <1>2, CountType
<1>8. QED
  BY <1>4, <1>5, <1>6, <1>7

\* What extends without being longer is the same.
LEMMA ExtendsSame ==
  ASSUME NEW p \in Opening, NEW q \in Opening, Extends(p, q), ~(Len(p) > Len(q))
  PROVE  p = q
<1>1. Len(p) \in Nat /\ Len(q) \in Nat /\ p \in Seq(Kinds) /\ q \in Seq(Kinds)
  BY LenProperties DEF Opening
<1>2. Len(p) = Len(q) /\ \A k \in 1..Len(p) : p[k] = q[k]
  BY <1>1 DEF Extends
<1>3. QED
  BY <1>1, <1>2, SeqEqual

\* A segment stays open until its end is read.
LEMMA ExtendsNext ==
  ASSUME NEW p \in Opening, NEW q \in Opening, q # << >>, Last(q) = "breflect", Extends(p, q),
         NEW i, NEW r, Turns(p, i, r), i.op = "ereflect" => p # q
  PROVE  /\ Extends(r, q)
         /\ i.op = "ereflect" => Count(p, "breflect") >= Count(q, "breflect") + 1
         /\ i.op = "pop" => Count(p, "push") >= Count(q, "push") + 1
<1>1. CASE i.op \in {"push", "breflect"}
  <2>1. r = Append(p, i.op) /\ i.op \in Kinds
    BY <1>1 DEF Turns, Kinds
  <2>2. Len(r) = Len(p) + 1 /\ \A k \in 1..Len(p) : r[k] = p[k]
    BY <2>1, AppendProperties DEF Opening
  <2>3. Len(p) \in Nat /\ Len(q) \in Nat
    BY LenProperties DEF Opening
  <2>4. QED
    BY <1>1, <2>2, <2>3 DEF Extends
<1>2. CASE i.op \in {"pop", "ereflect"}
  <2>1. r = Front(p) /\ Last(p) = (IF i.op = "pop" THEN "push" ELSE "breflect")
    BY <1>2 DEF Turns
  <2>2. p # q
    BY <1>2, <2>1
  <2>3. Len(p) > Len(q)
    BY <2>2, ExtendsSame
  <2>4. Extends(r, q) /\ Count(p, Last(p)) >= Count(q, Last(p)) + 1
    BY <2>1, <2>3, CountLonger
  <2>5. QED
    BY <1>2, <2>1, <2>4
<1>3. CASE i.op \notin {"push", "breflect", "pop", "ereflect"}
  BY <1>3 DEF Turns
<1>4. QED
  BY <1>1, <1>2, <1>3

(***************************************************************************)
(* Control: the frames.                                                     *)
(***************************************************************************)
SameText(f, g) == g.code = f.code /\ g.start = f.start /\ g.below = f.below /\ g.after = f.after
Texts(d, e) ==
  /\ Len(e.frames) = Len(d.frames)
  /\ \A j \in 1..Len(d.frames) - 1 : SameFrame(d.frames[j], e.frames[j])
  /\ SameText(d.frames[Len(d.frames)], e.frames[Len(d.frames)])

LEMMA CodesTexts ==
  ASSUME NEW d \in State, d.frames # << >>, NEW e, Codes(d, e)
  PROVE  /\ Texts(d, e) /\ e.frames[Len(d.frames)].pc = d.frames[Len(d.frames)].pc
         /\ Len(d.frames) \in Nat /\ Len(d.frames) >= 1
<1>1. Len(d.frames) \in Nat /\ Len(d.frames) >= 1
  BY FramesLen
<1>2. Len(d.frames) \in 1..Len(d.frames) /\ \A j \in 1..Len(d.frames) - 1 : j \in 1..Len(d.frames)
  BY <1>1
<1>3. QED
  BY <1>1, <1>2 DEF Codes, Texts, SameText, SameFrame

\* A frame below the top does not notice what the top does.
LEMMA FrameStays ==
  ASSUME NEW d \in State, NEW e \in State, Texts(d, e), e.doc = d.doc,
         NEW j \in 1..Len(d.frames) - 1, NEW k \in Nat, NEW k2 \in Nat, FrameOK(d, j, k)
  PROVE  FrameOK(e, j, k2)
<1>1. Len(d.frames) \in Nat /\ j # Len(d.frames) /\ j \in 1..Len(d.frames) /\ Len(e.frames) = Len(d.frames)
  BY FramesLen DEF Texts
<1>2. SameFrame(d.frames[j], e.frames[j]) /\ e.frames[j + 1].below = d.frames[j + 1].below
  <2>1. CASE j + 1 \in 1..Len(d.frames) - 1
    BY <2>1 DEF Texts, SameFrame
  <2>2. CASE j + 1 = Len(d.frames)
    BY <2>2 DEF Texts, SameText
  <2>3. QED
    BY <1>1, <2>1, <2>2
<1>3. Ran(e, j, k2) = Ran(d, j, k) /\ Depth(e, j) = Depth(d, j) /\ Base(e, j) = Base(d, j)
  BY <1>1, <1>2 DEF Ran, Depth, Base, SameFrame
<1> DEFINE f == d.frames[j]
           g == e.frames[j]
<1>4. g.code = f.code /\ g.pc = f.pc /\ g.below = f.below
  BY <1>2 DEF SameFrame
<1> HIDE DEF f, g
<1>5. QED
  BY <1>3, <1>4 DEF FrameOK, f, g

\* The frame at the top is as deep as it has open pushes.
LEMMA FrameMoves ==
  ASSUME NEW d \in State, NEW e \in State, d.frames # << >>, Texts(d, e), e.doc = d.doc,
         NEW k \in Nat, NEW k2 \in Nat, FrameOK(d, Len(d.frames), k),
         e.frames[Len(d.frames)].pc \in 1..Len(d.frames[Len(d.frames)].code) + 1,
         Len(e.stack) - Len(d.stack) = Count(Open(d.frames[Len(d.frames)].code, k2), "push")
                                         - Count(Open(d.frames[Len(d.frames)].code, k), "push"),
         Count(Open(d.frames[Len(d.frames)].code, k2), "push") \in Nat,
         Count(Open(d.frames[Len(d.frames)].code, k), "push") \in Nat
  PROVE  FrameOK(e, Len(e.frames), k2)
<1> DEFINE n == Len(d.frames)
           f == d.frames[n]
           g == e.frames[n]
<1>1. n \in Nat /\ n >= 1 /\ Len(e.frames) = n
  BY FramesLen DEF Texts
<1>2. g.code = f.code /\ g.below = f.below
  BY DEF Texts, SameText
<1>3. Len(d.stack) \in Nat /\ Len(e.stack) \in Nat
  BY StateFields, LenProperties DEF Stacks
<1>4. n \in 1..n /\ f.below \in Nat
  BY <1>1, FrameAt
<1>5. Base(e, n) = Base(d, n) /\ Base(d, n) \in Nat
  BY <1>2, <1>4 DEF Base
<1>6. Ran(e, n, k2) = k2 /\ Ran(d, n, k) = k /\ Depth(e, n) = Len(e.stack) /\ Depth(d, n) = Len(d.stack)
  BY <1>1 DEF Ran, Depth
<1>7. Len(d.stack) = Base(d, n) + Count(Open(f.code, k), "push")
  BY <1>6 DEF FrameOK
<1>8. Len(e.stack) = Base(e, n) + Count(Open(g.code, k2), "push")
  <2> DEFINE u == Count(Open(f.code, k), "push")
             w == Count(Open(f.code, k2), "push")
  <2>1. Len(e.stack) - Len(d.stack) = w - u /\ u \in Nat /\ w \in Nat
    OBVIOUS
  <2>2. Len(d.stack) = Base(d, n) + u
    BY <1>7
  <2> DEFINE x == Len(e.stack)
             y == Len(d.stack)
             b == Base(d, n)
  <2>3. x \in Nat /\ y \in Nat /\ b \in Nat /\ x - y = w - u /\ y = b + u
        /\ u \in Nat /\ w \in Nat
    BY <1>3, <1>5, <2>1, <2>2
  <2> HIDE DEF u, w, x, y, b
  <2>4. x = b + w
    BY <2>3
  <2>5. QED
    BY <1>2, <1>5, <2>4 DEF w, x, b
<1>9. FrameOK(d, n, k) /\ g.pc \in 1..Len(g.code) + 1
  BY <1>2
<1> HIDE DEF f, g, n
<1>10. FrameOK(e, n, k2)
  BY <1>2, <1>6, <1>8, <1>9 DEF FrameOK, f, g
<1>11. QED
  BY <1>1, <1>10

LEMMA PageMoves ==
  ASSUME NEW d \in State, NEW e \in State, Len(d.frames) = 1, d.frames # << >>, Texts(d, e), e.doc = d.doc,
         NEW k \in Nat, NEW k2 \in Nat, FrameOK(d, 1, k),
         e.frames[1].pc \in 1..Len(d.frames[1].code) + 1,
         Len(e.stack) - Len(d.stack) = Count(Open(d.frames[1].code, k2), "push")
                                         - Count(Open(d.frames[1].code, k), "push"),
         Count(Open(d.frames[1].code, k2), "push") \in Nat,
         Count(Open(d.frames[1].code, k), "push") \in Nat
  PROVE  FrameOK(e, Len(e.frames), k2)
<1> DEFINE n == Len(d.frames)
<1>1. n = 1
  OBVIOUS
<1> HIDE DEF n
<1>2. /\ FrameOK(d, n, k) /\ e.frames[n].pc \in 1..Len(d.frames[n].code) + 1
      /\ Len(e.stack) - Len(d.stack) = Count(Open(d.frames[n].code, k2), "push")
                                         - Count(Open(d.frames[n].code, k), "push")
      /\ Count(Open(d.frames[n].code, k2), "push") \in Nat
      /\ Count(Open(d.frames[n].code, k), "push") \in Nat
  BY <1>1
<1>3. QED
  BY <1>2, FrameMoves DEF n

LEMMA FramesMove ==
  ASSUME NEW d \in State, NEW e \in State, d.frames # << >>, Texts(d, e), e.doc = d.doc,
         Len(e.saved) = Len(d.saved),
         NEW k \in Nat, NEW k2 \in Nat, OnPage(d, k), FrameOK(e, Len(e.frames), k2), TurnsOK(e, k2)
  PROVE  OnPage(e, k2)
<1>1. Len(d.frames) \in Nat /\ Len(d.frames) >= 1 /\ Len(e.frames) = Len(d.frames)
  BY FramesLen DEF Texts
<1>2. ASSUME NEW j \in 1..Len(e.frames) PROVE FrameOK(e, j, k2)
  <2>1. CASE j = Len(e.frames)
    BY <2>1
  <2>2. CASE j # Len(e.frames)
    <3>1. j \in 1..Len(d.frames) - 1 /\ j \in 1..Len(d.frames)
      BY <1>1, <2>2
    <3>2. FrameOK(d, j, k)
      BY <3>1 DEF OnPage
    <3>3. QED
      BY <3>1, <3>2, FrameStays
  <2>3. QED
    BY <2>1, <2>2
<1>3. QED
  BY <1>1, <1>2 DEF OnPage

\* What is known of the instruction that the frame at the top executes.
Turn(d, k, i) ==
  LET c == d.frames[Len(d.frames)].code
  IN /\ d.frames # << >> /\ d.status = "page" /\ k + 1 \in 1..Len(c) /\ i = c[k + 1]
     /\ d.frames[Len(d.frames)].pc = k + 2

LEMMA TurnIs ==
  ASSUME NEW d \in State, NEW k \in Nat, NEW i, OnPage(d, k), Turn(d, k, i),
         NEW n, n = Len(d.frames), NEW c, c = d.frames[n].code
  PROVE  /\ n \in Nat /\ n >= 1 /\ FrameOK(d, n, k) /\ c \in Seq(Instr) /\ Formed(c) /\ Len(c) \in Nat
         /\ k + 1 \in 1..Len(c) /\ i = c[k + 1] /\ i \in Instr /\ d.frames[n].pc \in 1..Len(c) + 1
         /\ Turns(Open(c, k), i, Open(c, k + 1)) /\ Open(c, k) \in Opening /\ Open(c, k + 1) \in Opening
         /\ Count(Open(c, k), "push") \in Nat /\ Count(Open(c, k), "breflect") \in Nat
         /\ Tally(Open(c, k), i, Open(c, k + 1))
         /\ i.op = "pop" => Count(Open(c, k), "push") >= 1
         /\ i.op = "ereflect" => Count(Open(c, k), "breflect") >= 1
         /\ n > 1 => i.op \notin {"xxx", "breflect", "ereflect"}
         /\ n = 1 => i \in InstrsOf(d.doc)
<1>1. n \in Nat /\ n >= 1
  BY FramesLen DEF Turn
<1>2. n \in 1..n
  BY <1>1
<1>3. FrameOK(d, n, k)
  BY <1>2 DEF OnPage
<1>4. c \in Seq(Instr) /\ Formed(c) /\ Len(c) \in Nat
  BY <1>2, <1>3, FrameAt, LenProperties DEF FrameOK
<1>5. k + 1 \in 1..Len(c) /\ i = c[k + 1]
  BY DEF Turn
<1>6. i \in Instr
  BY <1>4, <1>5, ElementOfSeq
<1>7. k = (k + 1) - 1 /\ k \in 0..Len(c) /\ k + 1 \in 0..Len(c)
  BY <1>4, <1>5
<1>8. Turns(Open(c, k), i, Open(c, k + 1))
  BY <1>4, <1>5, <1>7, OpenTurns
<1>9. Open(c, k) \in Opening /\ Open(c, k + 1) \in Opening
  BY <1>4, <1>7, OpenType
<1>10. n > 1 => i.op \notin {"xxx", "breflect", "ereflect"}
  BY <1>3, <1>5 DEF FrameOK
<1>11. n = 1 => i \in InstrsOf(d.doc)
  <2>1. n = 1 => c \in Seq(InstrsOf(d.doc))
    BY <1>3 DEF FrameOK
  <2>2. QED
    BY <1>5, <2>1, ElementOfSeq
<1>12. d.frames[n].pc \in 1..Len(c) + 1
  BY <1>3 DEF FrameOK
<1>13. /\ Count(Open(c, k), "push") \in Nat /\ Count(Open(c, k), "breflect") \in Nat
       /\ Tally(Open(c, k), i, Open(c, k + 1))
       /\ i.op = "pop" => Count(Open(c, k), "push") >= 1
       /\ i.op = "ereflect" => Count(Open(c, k), "breflect") >= 1
  BY <1>8, <1>9, TurnsTally
<1>14. QED
  BY <1>1, <1>3, <1>4, <1>5, <1>6, <1>8, <1>9, <1>10, <1>11, <1>12, <1>13

(***************************************************************************)
(* Control: the segments.                                                   *)
(***************************************************************************)
LEMMA AppendLast ==
  ASSUME NEW S, NEW p \in Seq(S), NEW x \in S
  PROVE  Append(p, x) # << >> /\ Last(Append(p, x)) = x /\ Front(Append(p, x)) = p
<1> DEFINE q == Append(p, x)
<1>1. q \in Seq(S) /\ Len(q) = Len(p) + 1 /\ q[Len(p) + 1] = x /\ \A k \in 1..Len(p) : q[k] = p[k]
  BY AppendProperties
<1>2. Len(p) \in Nat
  BY LenProperties
<1> HIDE DEF q
<1>3. q # << >>
  BY <1>1, <1>2, EmptySeq
<1>4. Front(q) \in Seq(S) /\ Len(Front(q)) = Len(q) - 1 /\ Last(q) = q[Len(q)]
      /\ \A k \in 1..Len(q) - 1 : Front(q)[k] = q[k]
  BY <1>1, <1>3, FrontLast
<1>5. Len(Front(q)) = Len(p) /\ \A k \in 1..Len(p) : Front(q)[k] = p[k]
  BY <1>1, <1>2, <1>4
<1>6. Front(q) = p
  BY <1>4, <1>5, SeqEqual
<1>7. QED
  BY <1>1, <1>3, <1>4, <1>6 DEF q

Gauge(d, c, k, b, p, q, r) ==
  /\ b \in 1..k /\ b \in Nat /\ c[b].op = "breflect" /\ p \in Opening /\ q \in Opening /\ r \in Opening
  /\ q = Append(r, "breflect") /\ q # << >> /\ Last(q) = "breflect" /\ Front(q) = r
  /\ Extends(p, q)
  /\ Count(p, "push") \in Nat /\ Count(p, "breflect") \in Nat
  /\ Count(q, "push") \in Nat /\ Count(q, "breflect") \in Nat
  /\ Count(r, "push") \in Nat /\ Count(r, "breflect") \in Nat
  /\ Count(q, "push") = Count(r, "push") /\ Count(q, "breflect") = Count(r, "breflect") + 1
  /\ \A m \in b..k : Extends(Open(c, m), q)
  /\ d.lr.mode - Skimming = Count(p, "breflect") - Count(q, "breflect")
  /\ Len(d.lr.widths) = Count(q, "breflect") - 1 + Count(p, "push") - Count(q, "push")
  /\ d.lr.state.mode = (Count(q, "breflect") - 1) % 2 /\ Kind(d.lr.state.font) # "virtual"
  /\ d.lr.state \in Segment
LEMMA MeasuringIs ==
  ASSUME NEW d \in State, NEW k \in Nat, Measuring(d, k), NEW c \in Seq(Instr),
         c = d.frames[1].code, Formed(c), k <= Len(c)
  PROVE  Gauge(d, c, k, d.lr.state.pc - 1, Open(c, k), Open(c, d.lr.state.pc - 1),
               Open(c, d.lr.state.pc - 2))
<1> DEFINE b == d.lr.state.pc - 1
           p == Open(c, k)
           q == Open(c, b)
           r == Open(c, b - 1)
<1>1. b \in 1..k /\ c[b].op = "breflect" /\ \A m \in b..k : Extends(Open(c, m), q)
  BY DEF Measuring
<1>2. Len(c) \in Nat
  BY LenProperties
<1>3. b \in 1..Len(c) /\ b \in 0..Len(c) /\ b - 1 \in 0..Len(c) /\ k \in 0..Len(c) /\ k \in b..k
  BY <1>1, <1>2
<1>3a. b \in Nat
  BY <1>1
<1>4. p \in Opening /\ q \in Opening /\ r \in Opening
  BY <1>3, OpenType
<1>5. Turns(r, c[b], q)
  BY <1>3, OpenTurns
<1>6. q = Append(r, "breflect")
  BY <1>1, <1>5 DEF Turns
<1>7. q # << >> /\ Last(q) = "breflect" /\ Front(q) = r
  <2>1. r \in Seq(Kinds) /\ "breflect" \in Kinds
    BY <1>4 DEF Opening, Kinds
  <2>2. /\ Append(r, "breflect") # << >> /\ Last(Append(r, "breflect")) = "breflect"
        /\ Front(Append(r, "breflect")) = r
    BY <2>1, AppendLast, Zenon
  <2>3. QED
    BY <1>6, <2>2, Zenon
<1>8. Extends(p, q)
  BY <1>1, <1>3
<1>9. /\ Count(p, "push") \in Nat /\ Count(p, "breflect") \in Nat
      /\ Count(q, "push") \in Nat /\ Count(q, "breflect") \in Nat
      /\ Count(r, "push") \in Nat /\ Count(r, "breflect") \in Nat
  BY <1>4, CountType
<1>10. Count(q, "push") = Count(r, "push") /\ Count(q, "breflect") = Count(r, "breflect") + 1
  <2>1. Tally(r, c[b], q)
    BY <1>4, <1>5, TurnsTally
  <2>2. QED
    BY <1>1, <1>9, <2>1 DEF Tally
<1>11. /\ d.lr.mode - Skimming = Count(p, "breflect") - Count(q, "breflect")
       /\ Len(d.lr.widths) = Count(q, "breflect") - 1 + Count(p, "push") - Count(q, "push")
       /\ d.lr.state.mode = (Count(q, "breflect") - 1) % 2 /\ Kind(d.lr.state.font) # "virtual"
       /\ d.lr.state \in Segment
  BY DEF Measuring
<1>12. QED
  <2>1. b - 1 = d.lr.state.pc - 2
    BY <1>11 DEF Segment
  <2> HIDE DEF b
  <2>2. Gauge(d, c, k, b, p, q, r)
    <3> HIDE DEF p, q, r
    <3>1. QED
      BY <1>1, <1>3a, <1>4, <1>6, <1>7, <1>8, <1>9, <1>10, <1>11, Zenon DEF Gauge
  <2>3. QED
    BY <2>1, <2>2 DEF b

\* Instructions that open or close no segment.
Widens(d, e, i) ==
  Len(e.lr.widths) = Len(d.lr.widths)
    + (IF Skims(d) /\ i.op = "push" THEN 1 ELSE IF Skims(d) /\ i.op = "pop" THEN -1 ELSE 0)
LEMMA TurnsMove ==
  ASSUME NEW d \in State, NEW e \in State, NEW k \in Nat, NEW i, OnPage(d, k), Turn(d, k, i),
         Texts(d, e), e.doc = d.doc, e.lr.mode = d.lr.mode, e.lr.state = d.lr.state,
         Turning(d.doc) => Kind(e.font) # "virtual", i.op \notin {"breflect", "ereflect"},
         Widens(d, e, i)
  PROVE  TurnsOK(e, k + 1)
<1> DEFINE n == Len(d.frames)
           t == d.frames[n].code
           c == d.frames[1].code
           p == Open(c, Ran(d, 1, k))
           p2 == Open(e.frames[1].code, Ran(e, 1, k + 1))
<1>1. /\ n \in Nat /\ n >= 1 /\ t \in Seq(Instr) /\ Formed(t) /\ k + 1 \in 1..Len(t) /\ Len(t) \in Nat
      /\ Turns(Open(t, k), i, Open(t, k + 1)) /\ Tally(Open(t, k), i, Open(t, k + 1))
      /\ Count(Open(t, k), "push") \in Nat /\ Count(Open(t, k), "breflect") \in Nat
      /\ Open(t, k + 1) \in Opening
  BY TurnIs, SMTT(60)
<1>1a. n \in Nat /\ n >= 1
  BY <1>1
<1>2. TurnsOK(d, k)
  BY DEF OnPage
<1>3. Len(e.frames) = n /\ e.frames[1].code = c
  <2>1. n = 1 \/ 1 \in 1..n - 1
    <3> HIDE DEF n
    <3>1. QED
      BY <1>1a
  <2>2. QED
    BY <2>1 DEF Texts, SameText, SameFrame
<1>4. Count(p2, "breflect") = Count(p, "breflect")
  <2>1. CASE n = 1
    <3>1. p = Open(t, k) /\ p2 = Open(t, k + 1)
      BY <1>3, <2>1 DEF Ran
    <3>2. QED
      BY <1>1, <3>1 DEF Tally
  <2>2. CASE n # 1
    <3>1. 1 \in 1..n - 1
      <4> HIDE DEF n
      <4>1. QED
        BY <1>1a, <2>2
    <3>2. e.frames[1].pc = d.frames[1].pc
      BY <3>1 DEF Texts, SameFrame
    <3>3. p2 = p
      BY <1>3, <2>2, <3>2 DEF Ran
    <3>4. QED
      BY <3>3
  <2>3. QED
    BY <2>1, <2>2
<1>5. Skims(e) <=> Skims(d)
  BY DEF Skims
<1>6. ASSUME Skims(d) PROVE Measuring(e, k + 1)
  <2>1. n = 1 /\ Measuring(d, k)
    BY <1>2, <1>6 DEF TurnsOK
  <2>1a. t \in Seq(Instr) /\ Formed(t) /\ Len(t) \in Nat /\ k + 1 \in 1..Len(t)
    BY <1>1
  <2> DEFINE b == d.lr.state.pc - 1
             q == Open(t, b)
             u == Open(t, k)
             v == Open(t, k + 1)
  <2>2. t = d.frames[1].code /\ k <= Len(t)
    BY <2>1, <2>1a
  <2>3. Gauge(d, t, k, b, u, q, Open(t, d.lr.state.pc - 2))
    <3> HIDE DEF t
    <3>1. QED
      BY <2>1, <2>1a, <2>2, MeasuringIs
  <2>4. e.frames[1].code = t
    BY <1>3, <2>1
  <2>5. Turns(u, i, v) /\ Tally(u, i, v) /\ v \in Opening
    BY <1>1
  <2> HIDE DEF u, v, q, b, t, c, n
  <2>3a. /\ u \in Opening /\ q \in Opening /\ q # << >> /\ Last(q) = "breflect" /\ Extends(u, q)
         /\ d.lr.mode - Skimming = Count(u, "breflect") - Count(q, "breflect")
         /\ b \in 1..k /\ b \in Nat /\ Count(u, "breflect") \in Nat
    BY <2>3 DEF Gauge
  <2>6. Extends(v, q)
    BY <2>3a, <2>5, ExtendsNext
  <2>7. /\ e.lr.mode - Skimming = Count(v, "breflect") - Count(q, "breflect")
        /\ Len(e.lr.widths) = Count(q, "breflect") - 1 + Count(v, "push") - Count(q, "push")
    <3> DEFINE up == Count(u, "push")
               ub == Count(u, "breflect")
               vp == Count(v, "push")
               vb == Count(v, "breflect")
               qp == Count(q, "push")
               qb == Count(q, "breflect")
               y == IF i.op = "push" THEN 1 ELSE IF i.op = "pop" THEN -1 ELSE 0
    <3>1. vp = up + y /\ vb = ub
      BY <2>3a, <2>5 DEF Tally
    <3>2. Len(e.lr.widths) = Len(d.lr.widths) + y
      BY <1>6 DEF Widens
    <3>3. y \in Int /\ up \in Nat /\ qp \in Nat /\ qb \in Nat /\ Len(d.lr.widths) = qb - 1 + up - qp
          /\ e.lr.mode - Skimming = ub - qb
      BY <2>3 DEF Gauge
    <3> HIDE DEF y, up, ub, vp, vb, qp, qb
    <3>4. Len(e.lr.widths) = qb - 1 + vp - qp
      BY <3>1, <3>2, <3>3
    <3>5. e.lr.mode - Skimming = vb - qb
      BY <3>1, <3>3
    <3>6. QED
      BY <3>4, <3>5 DEF vp, vb, qp, qb
  <2>8. \A m \in b..k + 1 : Extends(Open(t, m), q)
    <3>1. \A m \in b..k + 1 : m \in b..k \/ m = k + 1
      BY <2>3a
    <3>2. QED
      BY <2>3, <2>6, <3>1 DEF v, Gauge
  <2>9. b \in 1..k + 1
    BY <2>3a
  <2>10. b = e.lr.state.pc - 1 /\ q = Open(e.frames[1].code, b) /\ v = Open(e.frames[1].code, k + 1)
    BY <2>4 DEF b, q, v
  <2>11. QED
    BY <2>3, <2>4, <2>7, <2>8, <2>9, <2>10 DEF Measuring, Gauge
<1> HIDE DEF p, p2, n, t, c
<1>7. /\ ~Turning(d.doc) => Count(p, "breflect") = 0 /\ ~Skims(d)
      /\ Turning(d.doc) => n = 1
      /\ ~Skims(d) => /\ d.lr.mode = Count(p, "breflect") % 2
                      /\ Len(d.lr.widths) = Count(p, "breflect")
  BY <1>2 DEF TurnsOK, p, c, n
<1>8. d.lr.widths \in Widths /\ Len(d.lr.widths) \in Nat
  BY StateFields, LenProperties DEF LrSet, Widths
<1>9. ~Skims(d) => Len(e.lr.widths) = Len(d.lr.widths)
  BY <1>8 DEF Widens
<1>10. QED
  BY <1>3, <1>4, <1>5, <1>6, <1>7, <1>9 DEF TurnsOK, p2

\* A turn that enters no packet and begins or ends no segment.
Deepens(d, e, i) ==
  Len(e.stack) = Len(d.stack) + (IF i.op = "push" THEN 1 ELSE IF i.op = "pop" THEN -1 ELSE 0)

LEMMA StepKeeps ==
  ASSUME NEW d \in State, NEW e \in State, NEW k \in Nat, NEW i, OnPage(d, k), Turn(d, k, i),
         Codes(d, e), e.doc = d.doc, Len(e.saved) = Len(d.saved), e.lr.mode = d.lr.mode,
         e.lr.state = d.lr.state, Turning(d.doc) => Kind(e.font) # "virtual",
         i.op \notin {"breflect", "ereflect"}, Widens(d, e, i), Deepens(d, e, i)
  PROVE  OnPage(e, Top(e).pc - 1)
<1> DEFINE n == Len(d.frames)
           t == d.frames[n].code
<1>1. /\ FrameOK(d, n, k) /\ Tally(Open(t, k), i, Open(t, k + 1)) /\ Open(t, k + 1) \in Opening
      /\ Count(Open(t, k), "push") \in Nat /\ d.frames[n].pc \in 1..Len(t) + 1
  BY TurnIs, SMTT(60)
<1>2. d.frames # << >> /\ d.frames[n].pc = k + 2
  BY DEF Turn
<1>3. Texts(d, e) /\ e.frames[n].pc = d.frames[n].pc
  BY <1>2, CodesTexts
<1>4. Count(Open(t, k + 1), "push") \in Nat
  BY <1>1, CountType
<1>5. Len(e.stack) - Len(d.stack) = Count(Open(t, k + 1), "push") - Count(Open(t, k), "push")
  <2> DEFINE y == IF i.op = "push" THEN 1 ELSE IF i.op = "pop" THEN -1 ELSE 0
             a == Len(e.stack)
             b == Len(d.stack)
             u == Count(Open(t, k), "push")
             w == Count(Open(t, k + 1), "push")
  <2>1. a = b + y
    BY DEF Deepens
  <2>2. w = u + y
    BY <1>1 DEF Tally
  <2>3. y \in Int /\ b \in Nat /\ u \in Nat
    BY <1>1, StateFields, LenProperties DEF Stacks
  <2> HIDE DEF a, b, u, w, y
  <2>4. a - b = w - u
    BY <2>1, <2>2, <2>3
  <2>5. QED
    BY <2>4 DEF a, b, u, w
<1>6. k + 1 \in Nat
  OBVIOUS
<1>7. FrameOK(e, Len(e.frames), k + 1)
  <2>1. e.frames[n].pc \in 1..Len(t) + 1
    BY <1>1, <1>3
  <2>2. QED
    BY <1>1, <1>2, <1>3, <1>4, <1>5, <1>6, <2>1, FrameMoves
<1>8. TurnsOK(e, k + 1)
  BY <1>3, TurnsMove
<1>9. OnPage(e, k + 1)
  BY <1>2, <1>3, <1>6, <1>7, <1>8, FramesMove
<1>10. Top(e).pc - 1 = k + 1
  <2>1. Len(e.frames) = n /\ e.frames[n].pc = k + 2
    BY <1>2, <1>3 DEF Texts
  <2>2. QED
    BY <2>1 DEF Top, Last
<1>11. QED
  BY <1>9, <1>10

(***************************************************************************)
(* Reflected text.                                                          *)
(***************************************************************************)
\* Only the state of the direction of text changes.
Reflects(d, e) ==
  /\ SamePage(d, e) /\ SameLinks(d, e) /\ SamePlace(d, e) /\ e.status = d.status
  /\ e.frames = d.frames /\ e.font = d.font /\ e.stack = d.stack /\ e.saved = d.saved

LEMMA LrIs ==
  ASSUME NEW d \in State, NEW l \in LrSet, NEW e, e = [d EXCEPT !.lr = l]
  PROVE  e \in State /\ Reflects(d, e) /\ e.lr = l
BY DEF State, Reflects, SamePage, SameLinks, SamePlace

LEMMA LrFields ==
  ASSUME NEW d \in State
  PROVE  /\ d.lr \in LrSet /\ d.lr.mode \in Nat /\ d.lr.width \in Int /\ d.lr.widths \in Seq(Int)
         /\ Len(d.lr.widths) \in Nat /\ d.lr.state \in Segments
<1>1. d.lr \in LrSet
  BY StateFields
<1>2. d.lr.mode \in Nat /\ d.lr.width \in Int /\ d.lr.widths \in Seq(Int) /\ d.lr.state \in Segments
  BY <1>1 DEF LrSet, Widths
<1>3. QED
  BY <1>1, <1>2, LenProperties

LEMMA BeginReflectIs ==
  ASSUME NEW d \in State, d.frames # << >>, ~Skims(d) => d.lr.mode \in Mode, NEW e, e = BeginReflect(d)
  PROVE  /\ e \in State /\ Reflects(d, e) /\ e.lr.widths = d.lr.widths
         /\ Skims(d) => e.lr.mode = d.lr.mode + 1 /\ e.lr.state = d.lr.state /\ e.lr.width = d.lr.width
         /\ ~Skims(d) => /\ e.lr.mode = Skimming /\ e.lr.width = 0
                         /\ e.lr.state = [pc |-> Top(d).pc, font |-> d.font, mode |-> d.lr.mode]
<1>1. d.lr \in LrSet /\ d.lr.mode \in Nat
  BY LrFields
<1>2. CASE Skims(d)
  <2> DEFINE l == [d.lr EXCEPT !.mode = d.lr.mode + 1]
  <2>1. l \in LrSet /\ l.mode = d.lr.mode + 1 /\ l.state = d.lr.state /\ l.width = d.lr.width
        /\ l.widths = d.lr.widths
    BY <1>1 DEF LrSet
  <2>2. e = [d EXCEPT !.lr = l]
    BY <1>2 DEF BeginReflect
  <2> HIDE DEF l
  <2>3. QED
    BY <1>2, <2>1, <2>2, LrIs
<1>3. CASE ~Skims(d)
  <2> DEFINE g == [pc |-> Top(d).pc, font |-> d.font, mode |-> d.lr.mode]
             l == [d.lr EXCEPT !.state = g, !.mode = Skimming, !.width = 0]
  <2>1. g \in Segments
    <3>1. Len(d.frames) \in 1..Len(d.frames)
      BY FramesLen
    <3>2. Top(d).pc \in Nat
      BY <3>1, FrameAt DEF Top, Last
    <3>3. d.font \in AnyFont
      BY StateFields
    <3>4. QED
      BY <1>3, <3>2, <3>3 DEF Segments, Segment
  <2>2. e = [d EXCEPT !.lr = l]
    BY <1>3 DEF BeginReflect
  <2> DEFINE l1 == [d.lr EXCEPT !.state = g]
             l2 == [l1 EXCEPT !.mode = Skimming]
             l3 == [l2 EXCEPT !.width = 0]
  <2>2a. l = l3
    OBVIOUS
  <2> HIDE DEF g, l
  <2>2b. l1 \in LrSet /\ l1.state = g /\ l1.widths = d.lr.widths
    BY <1>1, <2>1 DEF LrSet
  <2> HIDE DEF l1
  <2>2c. l2 \in LrSet /\ l2.state = g /\ l2.widths = d.lr.widths /\ l2.mode = Skimming
    BY <2>2b DEF LrSet, Skimming
  <2> HIDE DEF l2
  <2>2d. l3 \in LrSet /\ l3.state = g /\ l3.widths = d.lr.widths /\ l3.mode = Skimming /\ l3.width = 0
    BY <2>2c DEF LrSet
  <2> HIDE DEF l3
  <2>3. l \in LrSet /\ l.mode = Skimming /\ l.state = g /\ l.width = 0 /\ l.widths = d.lr.widths
    BY <2>2a, <2>2d
  <2>4. QED
    BY <1>3, <2>2, <2>3, LrIs DEF g
<1>4. QED
  BY <1>2, <1>3

LEMMA BeginReflectKeeps ==
  ASSUME NEW d \in State, NEW k \in Nat, NEW i, OnPage(d, k), Turn(d, k, i), i.op = "breflect",
         NEW e, e = BeginReflect(d)
  PROVE  /\ e \in State /\ OnPage(e, Top(e).pc - 1) /\ Reflects(d, e) /\ d.lr.mode \in Nat
         /\ ~Skims(d) => d.lr.mode \in Mode
<1> DEFINE n == Len(d.frames)
           c == d.frames[1].code
           p == Open(c, k)
           q == Open(c, k + 1)
<1>1. d.frames # << >> /\ d.frames[n].pc = k + 2 /\ n = 1
  <2>1. n \in Nat /\ n >= 1 /\ ~(n > 1) /\ d.frames # << >> /\ d.frames[n].pc = k + 2
    BY TurnIs DEF Turn
  <2> HIDE DEF n
  <2>2. n = 1
    BY <2>1
  <2>3. QED
    BY <2>1, <2>2 DEF n
<1>2. /\ c \in Seq(Instr) /\ Formed(c) /\ Len(c) \in Nat /\ k + 1 \in 1..Len(c) /\ i = c[k + 1]
      /\ Turns(p, i, q) /\ p \in Opening /\ q \in Opening /\ Tally(p, i, q)
      /\ Count(p, "push") \in Nat /\ Count(p, "breflect") \in Nat /\ FrameOK(d, n, k)
      /\ d.frames[n].pc \in 1..Len(c) + 1 /\ i \in InstrsOf(d.doc)
  <2> DEFINE t == d.frames[n].code
  <2>1. /\ t \in Seq(Instr) /\ Formed(t) /\ Len(t) \in Nat /\ k + 1 \in 1..Len(t) /\ i = t[k + 1]
        /\ Turns(Open(t, k), i, Open(t, k + 1)) /\ Open(t, k) \in Opening /\ Open(t, k + 1) \in Opening
        /\ Tally(Open(t, k), i, Open(t, k + 1)) /\ Count(Open(t, k), "push") \in Nat
        /\ Count(Open(t, k), "breflect") \in Nat /\ FrameOK(d, n, k)
        /\ d.frames[n].pc \in 1..Len(t) + 1 /\ (n = 1 => i \in InstrsOf(d.doc))
    BY TurnIs, SMTT(60)
  <2>2. t = c
    BY <1>1
  <2>3. QED
    BY <1>1, <2>1, <2>2
<1>3. Turning(d.doc)
  BY <1>2 DEF Turning
<1>4. TurnsOK(d, k) /\ Ran(d, 1, k) = k
  BY <1>1 DEF OnPage, Ran
<1>4a. Kind(d.font) # "virtual"
  BY <1>3, <1>4 DEF TurnsOK
<1>5. ~Skims(d) => d.lr.mode \in Mode /\ d.lr.mode = Count(p, "breflect") % 2
                   /\ Len(d.lr.widths) = Count(p, "breflect")
  BY <1>2, <1>4 DEF TurnsOK, Mode, Left, Right
<1>6. /\ e \in State /\ Reflects(d, e) /\ e.lr.widths = d.lr.widths
      /\ Skims(d) => e.lr.mode = d.lr.mode + 1 /\ e.lr.state = d.lr.state
      /\ ~Skims(d) => /\ e.lr.mode = Skimming
                      /\ e.lr.state = [pc |-> Top(d).pc, font |-> d.font, mode |-> d.lr.mode]
  BY <1>1, <1>5, BeginReflectIs
<1>7. e.frames = d.frames /\ e.doc = d.doc /\ e.stack = d.stack /\ e.saved = d.saved /\ e.font = d.font
  BY <1>6 DEF Reflects, SamePage
<1>8. Texts(d, e)
  BY <1>7 DEF Texts, SameText, SameFrame
<1>9. /\ Count(q, "push") = Count(p, "push") /\ Count(q, "breflect") = Count(p, "breflect") + 1
      /\ Count(q, "push") \in Nat /\ Count(q, "breflect") \in Nat
  BY <1>2, CountType DEF Tally
<1>10. FrameOK(e, Len(e.frames), k + 1)
  <2>1. k + 1 \in Nat /\ d.frames[n].pc \in 1..Len(d.frames[n].code) + 1
    BY <1>1, <1>2
  <2>2. Len(e.stack) - Len(d.stack) = Count(q, "push") - Count(p, "push")
    BY <1>7, <1>9, StateFields, LenProperties DEF Stacks
  <2>3. QED
    BY <1>1, <1>2, <1>6, <1>7, <1>8, <1>9, <2>1, <2>2, FrameMoves
<1>11. d.lr.mode \in Nat
  BY LrFields
<1>12. ASSUME Skims(d) PROVE Measuring(e, k + 1)
  <2> DEFINE b == d.lr.state.pc - 1
             u == Open(c, b)
  <2>1. Gauge(d, c, k, b, p, u, Open(c, d.lr.state.pc - 2))
    <3>1. Measuring(d, k) /\ k <= Len(c)
      BY <1>2, <1>4, <1>12 DEF TurnsOK
    <3> HIDE DEF c
    <3>2. c = d.frames[1].code
      BY DEF c
    <3>3. QED
      BY <1>2, <3>1, <3>2, MeasuringIs
  <2>2. e.lr.state = d.lr.state /\ e.lr.mode = d.lr.mode + 1 /\ e.lr.widths = d.lr.widths
        /\ e.frames[1].code = c
    BY <1>6, <1>7, <1>12
  <2> HIDE DEF c, p, q, b, u
  <2>3. /\ p \in Opening /\ u \in Opening /\ u # << >> /\ Last(u) = "breflect" /\ Extends(p, u)
        /\ d.lr.mode - Skimming = Count(p, "breflect") - Count(u, "breflect")
        /\ Len(d.lr.widths) = Count(u, "breflect") - 1 + Count(p, "push") - Count(u, "push")
        /\ b \in 1..k /\ b \in Nat /\ Count(u, "breflect") \in Nat /\ Count(u, "push") \in Nat
    BY <2>1 DEF Gauge
  <2>4. Extends(q, u)
    BY <1>2, <2>3, ExtendsNext
  <2>5. \A m \in b..k + 1 : Extends(Open(c, m), u)
    <3>1. \A m \in b..k + 1 : m \in b..k \/ m = k + 1
      BY <2>3
    <3>2. QED
      BY <2>1, <2>4, <3>1 DEF Gauge, q
  <2>6. e.lr.mode - Skimming = Count(q, "breflect") - Count(u, "breflect")
    <3> DEFINE cp == Count(p, "breflect")
               cq == Count(q, "breflect")
               cu == Count(u, "breflect")
               m == d.lr.mode
               l == e.lr.mode
    <3>1. cq = cp + 1 /\ l = m + 1 /\ m - 2 = cp - cu /\ m \in Nat /\ cp \in Nat /\ cu \in Nat
      BY <1>2, <1>9, <1>11, <2>2, <2>3 DEF Skimming, p
    <3> HIDE DEF cp, cq, cu, m, l
    <3>2. l - 2 = cq - cu
      BY <3>1
    <3>3. QED
      BY <3>2 DEF Skimming, l, cq, cu
  <2>7. Len(e.lr.widths) = Count(u, "breflect") - 1 + Count(q, "push") - Count(u, "push")
    BY <1>9, <2>2, <2>3
  <2>8. b \in 1..k + 1
    BY <2>3
  <2>9. b = e.lr.state.pc - 1 /\ u = Open(e.frames[1].code, b) /\ q = Open(e.frames[1].code, k + 1)
    BY <2>2 DEF b, u, q
  <2>10. QED
    BY <2>1, <2>2, <2>5, <2>6, <2>7, <2>8, <2>9 DEF Measuring, Gauge
<1>13. ASSUME ~Skims(d) PROVE Measuring(e, k + 1)
  <2> DEFINE g == [pc |-> Top(d).pc, font |-> d.font, mode |-> d.lr.mode]
             x == Count(p, "breflect")
             y == Count(p, "push")
  <2>1. e.lr.state = g /\ e.lr.mode = Skimming /\ e.lr.widths = d.lr.widths /\ e.frames[1].code = c
    BY <1>6, <1>7, <1>13
  <2>2. g.pc = k + 2 /\ g.mode = x % 2 /\ g.font = d.font
    BY <1>1, <1>5, <1>13 DEF Top, Last
  <2>3. g \in Segment
    <3>1. d.font \in AnyFont
      BY StateFields
    <3>2. QED
      BY <1>5, <1>13, <2>2, <3>1 DEF Segment
  <2>4. e.lr.state.pc - 1 = k + 1 /\ k + 1 \in 1..k + 1
    BY <2>1, <2>2
  <2>5. \A m \in k + 1..k + 1 : m = k + 1
    OBVIOUS
  <2>6. Extends(q, q)
    BY <1>2, LenProperties DEF Extends, Opening
  <2>7. /\ e.lr.mode - Skimming = Count(q, "breflect") - Count(q, "breflect")
        /\ Len(e.lr.widths) = Count(q, "breflect") - 1 + Count(q, "push") - Count(q, "push")
        /\ e.lr.state.mode = (Count(q, "breflect") - 1) % 2
    <3>1. x \in Nat /\ y \in Nat /\ Count(q, "push") = y /\ Count(q, "breflect") = x + 1
          /\ Len(e.lr.widths) = x
      BY <1>2, <1>5, <1>9, <1>13, <2>1
    <3>2. e.lr.mode = Skimming /\ e.lr.state.mode = x % 2
      BY <2>1, <2>2
    <3> HIDE DEF x, y, q, g
    <3>3. (Count(q, "breflect") - 1) = x
      BY <3>1
    <3>4. QED
      BY <3>1, <3>2, <3>3 DEF Skimming
  <2> HIDE DEF g, x, y, p
  <2>8. c[k + 1].op = "breflect" /\ Kind(e.lr.state.font) # "virtual"
    BY <1>2, <1>4a, <2>1, <2>2
  <2> HIDE DEF c
  <2>9. QED
    BY <2>1, <2>3, <2>4, <2>5, <2>6, <2>7, <2>8 DEF Measuring
<1>14. TurnsOK(e, k + 1)
  <2>1. Skims(e)
    BY <1>6, <1>11 DEF Skims, Skimming
  <2>2. QED
    BY <1>1, <1>3, <1>4a, <1>7, <1>12, <1>13, <2>1 DEF TurnsOK
<1>15. OnPage(e, k + 1)
  <2>1. k + 1 \in Nat /\ Len(e.saved) = Len(d.saved)
    BY <1>7
  <2>2. QED
    BY <1>1, <1>6, <1>7, <1>8, <1>10, <1>14, <2>1, FramesMove
<1>16. Top(e).pc - 1 = k + 1
  BY <1>1, <1>7 DEF Top, Last
<1>17. QED
  BY <1>5, <1>6, <1>11, <1>15, <1>16

LEMMA MovedRegs ==
  ASSUME NEW d \in State, NEW x \in Int, NEW e, e = Moved(d, x)
  PROVE  Regs(e) = ShiftRegs(Regs(d), x)
<1>1. d.h \in Int /\ d.v \in Int /\ d.d \in {0, 1, 3} /\ e.w = d.w /\ e.d = d.d
  BY StateFields, MovedIs DEF Direction
<1>2. CASE d.d = 0
  <2>1. e = [d EXCEPT !.h = d.h + x]
    BY <1>2 DEF Moved
  <2>2. e.h = d.h + x /\ e.v = d.v
    BY <2>1 DEF State
  <2>3. QED
    BY <1>1, <1>2, <2>2 DEF Regs, ShiftRegs
<1>3. CASE d.d = 1
  <2>1. e = [d EXCEPT !.v = d.v + x]
    BY <1>3 DEF Moved
  <2>2. e.v = d.v + x /\ e.h = d.h
    BY <2>1 DEF State
  <2>3. QED
    BY <1>1, <1>3, <2>2 DEF Regs, ShiftRegs
<1>4. CASE d.d = 3
  <2>1. e = [d EXCEPT !.v = d.v - x]
    BY <1>4 DEF Moved
  <2>2. e.v = d.v - x /\ e.h = d.h
    BY <2>1 DEF State
  <2>3. QED
    BY <1>1, <1>4, <2>2 DEF Regs, ShiftRegs
<1>5. QED
  BY <1>1, <1>2, <1>3, <1>4

LEMMA RightRegs ==
  ASSUME NEW d \in State, NEW x \in Int, NEW e, e = MoveRight(d, x)
  PROVE  /\ ~Skims(d) => /\ Regs(e) = ShiftRegs(Regs(d), IF d.lr.mode = Right THEN -x ELSE x)
                         /\ e.lr = d.lr
         /\ Skims(d) => Regs(e) = Regs(d) /\ e.lr.width = d.lr.width + x
<1>1. CASE Skims(d)
  <2>1. e = [d EXCEPT !.lr.width = @ + x]
    BY <1>1 DEF MoveRight
  <2>2. SamePlace(d, e) /\ e.lr.width = d.lr.width + x
    BY <2>1, WidthIs
  <2>3. QED
    BY <1>1, <2>2 DEF SamePlace, Regs
<1>2. CASE ~Skims(d)
  <2> DEFINE y == IF d.lr.mode = Right THEN -x ELSE x
  <2>1. y \in Int
    OBVIOUS
  <2>2. e = Moved(d, y)
    BY <1>2 DEF MoveRight
  <2> HIDE DEF y
  <2>3. Regs(e) = ShiftRegs(Regs(d), y) /\ e.lr = d.lr
    BY <2>1, <2>2, MovedRegs, MovedMoves
  <2>4. QED
    BY <1>2, <2>3 DEF y
<1>3. QED
  BY <1>1, <1>2

LEMMA WidthPushIs ==
  ASSUME NEW d \in State, NEW e, e = WidthPush(d)
  PROVE  /\ e \in State
         /\ e.status # d.status => Fails(d, e)
         /\ e.status = d.status /\ d.status # "failed" =>
              /\ Reflects(d, e) /\ e.lr.mode = d.lr.mode /\ e.lr.state = d.lr.state
              /\ e.lr.width = d.lr.width /\ e.lr.widths = Append(d.lr.widths, d.lr.width)
         /\ SamePage(d, e) /\ SameLinks(d, e) /\ e.stack = d.stack /\ e.saved = d.saved
         /\ e.frames = d.frames /\ SamePlace(d, e) /\ e.font = d.font
<1>1. CASE Len(d.lr.widths) >= StackMax
  <2>1. e = Fail(d)
    BY <1>1 DEF WidthPush
  <2>2. e \in State /\ Fails(d, e)
    BY <2>1, FailIs
  <2>3. e.frames = d.frames /\ SamePlace(d, e) /\ e.font = d.font
    BY <2>1 DEF Fail, State, SamePlace
  <2>4. QED
    BY <2>2, <2>3 DEF Fails
<1>2. CASE ~(Len(d.lr.widths) >= StackMax)
  <2> DEFINE w == Append(d.lr.widths, d.lr.width)
             l == [d.lr EXCEPT !.widths = w]
  <2>1. w \in Widths /\ d.lr \in LrSet
    BY LrFields, AppendProperties DEF Widths
  <2>2. e = [d EXCEPT !.lr = l]
    BY <1>2 DEF WidthPush
  <2> HIDE DEF w
  <2>3. l \in LrSet /\ l.mode = d.lr.mode /\ l.state = d.lr.state /\ l.width = d.lr.width /\ l.widths = w
    BY <2>1 DEF LrSet
  <2> HIDE DEF l
  <2>4. e \in State /\ Reflects(d, e) /\ e.lr = l
    BY <2>2, <2>3, LrIs
  <2>5. QED
    BY <2>3, <2>4 DEF Reflects, w
<1>3. QED
  BY <1>1, <1>2

LEMMA WidthPopIs ==
  ASSUME NEW d \in State, NEW e, e = WidthPop(d)
  PROVE  /\ e \in State
         /\ d.lr.widths = << >> => Fails(d, e)
         /\ d.lr.widths # << >> =>
              /\ Reflects(d, e) /\ e.lr.mode = d.lr.mode /\ e.lr.state = d.lr.state
              /\ e.lr.width = Last(d.lr.widths) /\ e.lr.widths = Front(d.lr.widths)
         /\ SamePage(d, e) /\ SameLinks(d, e) /\ e.stack = d.stack /\ e.saved = d.saved
         /\ e.frames = d.frames /\ SamePlace(d, e) /\ e.font = d.font
<1>1. CASE d.lr.widths = << >>
  <2>1. e = Fail(d)
    BY <1>1 DEF WidthPop
  <2>2. e \in State /\ Fails(d, e)
    BY <2>1, FailIs
  <2>3. e.frames = d.frames /\ SamePlace(d, e) /\ e.font = d.font
    BY <2>1 DEF Fail, State, SamePlace
  <2>4. QED
    BY <1>1, <2>2, <2>3 DEF Fails
<1>2. CASE d.lr.widths # << >>
  <2> DEFINE w == Front(d.lr.widths)
             x == Last(d.lr.widths)
             l1 == [d.lr EXCEPT !.width = x]
             l == [l1 EXCEPT !.widths = w]
  <2>1. w \in Widths /\ x \in Int /\ d.lr \in LrSet
    BY <1>2, LrFields, FrontLast DEF Widths
  <2>2. e = [d EXCEPT !.lr = l]
    BY <1>2 DEF WidthPop
  <2> HIDE DEF w, x
  <2>3. l1 \in LrSet /\ l1.mode = d.lr.mode /\ l1.state = d.lr.state /\ l1.width = x
    BY <2>1 DEF LrSet
  <2> HIDE DEF l1
  <2>4. l \in LrSet /\ l.mode = d.lr.mode /\ l.state = d.lr.state /\ l.width = x /\ l.widths = w
    BY <2>1, <2>3 DEF LrSet
  <2> HIDE DEF l
  <2>5. e \in State /\ Reflects(d, e) /\ e.lr = l
    BY <2>2, <2>4, LrIs
  <2>6. QED
    BY <1>2, <2>4, <2>5 DEF Reflects, w, x
<1>3. QED
  BY <1>1, <1>2

\* Rereading goes back to where the segment begins.
Rereads(d, e) ==
  /\ SamePage(d, e) /\ e.status = d.status /\ e.stack = d.stack /\ e.saved = d.saved
  /\ Texts(d, e) /\ e.frames[1].pc = d.lr.state.pc /\ e.frames[1].set = d.frames[1].set
  /\ e.font = d.lr.state.font /\ e.lr.mode = Opposite(d.lr.state.mode) /\ e.lr.state = d.lr.state
  /\ e.lr.widths = Append(d.lr.widths, d.lr.width)
  /\ Regs(e) = ShiftRegs(Regs(d), IF e.lr.mode = Right THEN d.lr.width ELSE -d.lr.width)

LEMMA OneFrame ==
  ASSUME NEW d \in State, Len(d.frames) = 1
  PROVE  d.frames # << >>
<1>1. d.frames = << >> => Len(d.frames) = 0
  BY FramesLen
<1>2. Len(d.frames) # 0
  OBVIOUS
<1>3. QED
  BY <1>1, <1>2, Zenon

LEMMA RereadIs ==
  ASSUME NEW d \in State, Len(d.frames) = 1, d.status = "page", d.lr.state \in Segment,
         NEW e, e = Reread(d)
  PROVE  /\ e \in State /\ SamePage(d, e) /\ SameLinks(d, e) /\ e.stack = d.stack /\ e.saved = d.saved
         /\ e.status \in {"page", "failed"}
         /\ e.status = "page" => Rereads(d, e)
<1> DEFINE f == [d.frames[1] EXCEPT !.pc = d.lr.state.pc]
           m == Opposite(d.lr.state.mode)
           l == [d.lr EXCEPT !.mode = m]
           fs == [d.frames EXCEPT ![1] = f]
           r1 == [d EXCEPT !.font = d.lr.state.font]
           r2 == [r1 EXCEPT !.frames = fs]
           r == [r2 EXCEPT !.lr = l]
           x == d.lr.width
           a == MoveRight(r, -x)
<1>1. d.lr \in LrSet /\ x \in Int /\ d.lr.widths \in Widths
  BY LrFields DEF Widths
<1>2. d.lr.state.pc \in Nat /\ d.lr.state.font \in AnyFont /\ d.lr.state.mode \in {0, 1}
  BY DEF Segment, Mode, Left, Right
<1>3. m \in {0, 1} /\ m \in Nat
  BY <1>2 DEF Opposite, Left, Right
<1>4. e = WidthPush(a)
  <2>1. r = [d EXCEPT !.font = d.lr.state.font, !.frames[1].pc = d.lr.state.pc, !.lr.mode = m]
    OBVIOUS
  <2>2. QED
    BY <2>1 DEF Reread
<1>5. d.frames[1] \in Frame /\ d.frames # << >>
  <2>1. 1 \in 1..Len(d.frames)
    OBVIOUS
  <2>2. d.frames[1] \in Frame
    BY <2>1, FrameAt
  <2>3. QED
    BY <2>2, OneFrame
<1> HIDE DEF m
<1>6. f \in Frame /\ SameText(d.frames[1], f) /\ f.pc = d.lr.state.pc /\ f.set = d.frames[1].set
  BY <1>2, <1>5 DEF Frame, SameText
<1>7. l \in LrSet /\ l.mode = m /\ l.state = d.lr.state /\ l.width = x /\ l.widths = d.lr.widths
  BY <1>1, <1>3 DEF LrSet
<1>8. fs \in Frames /\ Len(fs) = 1 /\ fs[1] = f
  <2>1. d.frames \in Seq(Frame) /\ 1 \in 1..Len(d.frames)
    BY FramesLen
  <2> HIDE DEF f
  <2>2. fs \in Seq(Frame) /\ Len(fs) = Len(d.frames)
        /\ \A j \in 1..Len(d.frames) : fs[j] = IF j = 1 THEN f ELSE d.frames[j]
    BY <1>6, <2>1, ExceptSeq
  <2>3. QED
    BY <2>1, <2>2 DEF Frames
<1> HIDE DEF f, l, fs, x
<1>9. r1 \in State /\ SamePage(d, r1) /\ SameLinks(d, r1) /\ SamePlace(d, r1) /\ r1.status = d.status
      /\ r1.stack = d.stack /\ r1.saved = d.saved /\ r1.font = d.lr.state.font
  BY <1>2 DEF State, SamePage, SameLinks, SamePlace
<1> HIDE DEF r1
<1>10. r2 \in State /\ SamePage(d, r2) /\ SameLinks(d, r2) /\ SamePlace(d, r2) /\ r2.status = d.status
       /\ r2.stack = d.stack /\ r2.saved = d.saved /\ r2.font = d.lr.state.font /\ r2.frames = fs
  BY <1>8, <1>9 DEF State, SamePage, SameLinks, SamePlace
<1> HIDE DEF r2
<1>11. r \in State /\ SamePage(d, r) /\ SameLinks(d, r) /\ SamePlace(d, r) /\ r.status = d.status
       /\ r.stack = d.stack /\ r.saved = d.saved /\ r.font = d.lr.state.font /\ r.frames = fs /\ r.lr = l
  BY <1>7, <1>10 DEF State, SamePage, SameLinks, SamePlace
<1> HIDE DEF r
<1>12. a \in State /\ Moves(r, a)
  BY <1>1, <1>11, MoveRightIs
<1>13. ~Skims(r)
  BY <1>3, <1>7, <1>11 DEF Skims, Skimming
<1>14. Regs(a) = ShiftRegs(Regs(r), IF m = Right THEN x ELSE -x) /\ a.lr = l
  <2>1. -x \in Int /\ -(-x) = x
    BY <1>1
  <2>2. Regs(a) = ShiftRegs(Regs(r), IF r.lr.mode = Right THEN -(-x) ELSE -x) /\ a.lr = r.lr
    BY <1>11, <1>13, <2>1, RightRegs
  <2>3. QED
    BY <1>7, <1>11, <2>1, <2>2
<1> HIDE DEF a
<1>15. /\ e \in State /\ (e.status # a.status => Fails(a, e))
       /\ e.status = a.status /\ a.status # "failed" =>
            /\ e.lr.mode = l.mode /\ e.lr.state = l.state
            /\ e.lr.width = l.width /\ e.lr.widths = Append(l.widths, l.width)
       /\ SamePage(a, e) /\ SameLinks(a, e) /\ e.stack = a.stack /\ e.saved = a.saved
       /\ e.frames = a.frames /\ SamePlace(a, e) /\ e.font = a.font
  BY <1>4, <1>12, <1>14, WidthPushIs
<1>16. /\ SamePage(d, e) /\ SameLinks(d, e) /\ e.stack = d.stack /\ e.saved = d.saved
       /\ e.frames = fs /\ e.font = d.lr.state.font /\ a.status = "page"
  BY <1>11, <1>12, <1>15 DEF Moves, SamePage, SameLinks
<1>17. e.status \in {"page", "failed"}
  BY <1>15, <1>16 DEF Fails
<1>18. ASSUME e.status = "page" PROVE Rereads(d, e)
  <2>1. e.lr.mode = m /\ e.lr.state = d.lr.state /\ e.lr.widths = Append(d.lr.widths, d.lr.width)
    BY <1>7, <1>15, <1>16, <1>18 DEF x
  <2>2. Regs(e) = Regs(a) /\ Regs(r) = Regs(d)
    BY <1>11, <1>15 DEF SamePlace, Regs
  <2>3. Texts(d, e)
    BY <1>6, <1>8, <1>16 DEF Texts
  <2>4. e.frames[1].pc = d.lr.state.pc /\ e.frames[1].set = d.frames[1].set
    BY <1>6, <1>8, <1>16
  <2>5. QED
    BY <1>14, <1>16, <1>18, <2>1, <2>2, <2>3, <2>4 DEF Rereads, m, x
<1>19. QED
  BY <1>15, <1>16, <1>17, <1>18

\* The end of a segment that has been reread.
Unreflects(d, e) ==
  /\ SamePage(d, e) /\ SameLinks(d, e) /\ e.status = d.status /\ e.frames = d.frames
  /\ e.font = d.font /\ e.stack = d.stack /\ e.saved = d.saved
  /\ e.lr.mode = Opposite(d.lr.mode) /\ e.lr.widths = Front(d.lr.widths) /\ e.lr.state = d.lr.state
  /\ Regs(e) = ShiftRegs(Regs(d), IF d.lr.mode = Right THEN Last(d.lr.widths) ELSE -Last(d.lr.widths))

LEMMA EndReflectIs ==
  ASSUME NEW d \in State, ~Skims(d), d.lr.widths # << >>, d.lr.mode \in {0, 1},
         NEW e, e = EndReflect(d)
  PROVE  e \in State /\ Unreflects(d, e)
<1> DEFINE p == WidthPop(d)
           x == Last(d.lr.widths)
           a == MoveRight(p, -p.lr.width)
           m == Opposite(a.lr.mode)
           l == [a.lr EXCEPT !.mode = m]
<1>1. e = [a EXCEPT !.lr = l]
  <2>1. d.lr.mode # Skimming /\ ~(d.lr.mode > Skimming)
    BY DEF Skimming
  <2>2. e = [a EXCEPT !.lr.mode = Opposite(@)]
    BY <2>1 DEF EndReflect
  <2>3. QED
    BY <2>2
<1>2. x \in Int
  BY LrFields, FrontLast
<1>3. /\ p \in State /\ Reflects(d, p) /\ p.lr.mode = d.lr.mode /\ p.lr.state = d.lr.state
      /\ p.lr.width = x /\ p.lr.widths = Front(d.lr.widths)
  BY WidthPopIs
<1> HIDE DEF p, x
<1>4. a \in State /\ Moves(p, a)
  BY <1>2, <1>3, MoveRightIs
<1>5. ~Skims(p)
  BY <1>3 DEF Skims, Skimming
<1>6. Regs(a) = ShiftRegs(Regs(p), IF p.lr.mode = Right THEN x ELSE -x) /\ a.lr = p.lr
  <2>1. -x \in Int /\ -(-x) = x /\ a = MoveRight(p, -x)
    BY <1>2, <1>3
  <2> HIDE DEF a
  <2>2. Regs(a) = ShiftRegs(Regs(p), IF p.lr.mode = Right THEN -(-x) ELSE -x) /\ a.lr = p.lr
    BY <1>3, <1>5, <2>1, RightRegs
  <2>3. QED
    BY <2>1, <2>2
<1> HIDE DEF a
<1>7. m \in Nat /\ m = Opposite(d.lr.mode)
  <2>1. a.lr.mode = d.lr.mode
    BY <1>3, <1>6
  <2>2. Opposite(d.lr.mode) \in {0, 1}
    BY DEF Opposite, Left, Right
  <2>3. QED
    BY <2>1, <2>2
<1> HIDE DEF m
<1>8. l \in LrSet /\ l.mode = m /\ l.state = a.lr.state /\ l.widths = a.lr.widths
  BY <1>4, <1>7, LrFields DEF LrSet
<1> HIDE DEF l
<1>9. e \in State /\ Reflects(a, e) /\ e.lr = l
  BY <1>1, <1>4, <1>8, LrIs
<1>10. Regs(e) = Regs(a) /\ Regs(p) = Regs(d)
  BY <1>3, <1>9 DEF Reflects, SamePlace, Regs
<1>11. /\ SamePage(d, e) /\ SameLinks(d, e) /\ e.status = d.status /\ e.frames = d.frames
       /\ e.font = d.font /\ e.stack = d.stack /\ e.saved = d.saved
  BY <1>3, <1>4, <1>9 DEF Reflects, Moves, SamePage, SameLinks
<1>12. QED
  BY <1>3, <1>6, <1>7, <1>8, <1>9, <1>10, <1>11 DEF Unreflects, x

\* The end of a segment within the one that is being measured.
LEMMA EndInnerIs ==
  ASSUME NEW d \in State, d.lr.mode > Skimming, NEW e, e = EndReflect(d)
  PROVE  /\ e \in State /\ Reflects(d, e) /\ e.lr.widths = d.lr.widths /\ e.lr.mode = d.lr.mode - 1
         /\ e.lr.state = d.lr.state /\ e.lr.width = d.lr.width
<1> DEFINE m == d.lr.mode - 1
           l == [d.lr EXCEPT !.mode = m]
<1>1. d.lr \in LrSet /\ d.lr.mode \in Nat
  BY LrFields
<1>2. m \in Nat /\ d.lr.mode # Skimming
  BY <1>1 DEF Skimming
<1>3. e = [d EXCEPT !.lr = l]
  BY <1>2 DEF EndReflect
<1> HIDE DEF m
<1>4. l \in LrSet /\ l.mode = m /\ l.state = d.lr.state /\ l.width = d.lr.width /\ l.widths = d.lr.widths
  BY <1>1, <1>2 DEF LrSet
<1> HIDE DEF l
<1>5. QED
  BY <1>3, <1>4, LrIs DEF m

LEMMA Parity ==
  ASSUME NEW n \in Nat, n >= 1
  PROVE  /\ Opposite((n - 1) % 2) = n % 2 /\ Opposite(n % 2) = (n - 1) % 2
         /\ n % 2 \in {0, 1} /\ (n - 1) % 2 \in {0, 1}
<1>1. Opposite((n - 1) % 2) = n % 2 /\ Opposite(n % 2) = (n - 1) % 2
  BY DEF Opposite, Left, Right
<1>2. n % 2 \in {0, 1} /\ (n - 1) % 2 \in {0, 1}
  OBVIOUS
<1>3. QED
  BY <1>1, <1>2

\* What is known of the page when it turns the text.
Turner(d, k, i, c, p, q) ==
  /\ d.frames # << >> /\ Len(d.frames) = 1 /\ d.frames[1].pc = k + 2 /\ d.status = "page"
  /\ c = d.frames[1].code /\ c \in Seq(Instr) /\ Formed(c) /\ Len(c) \in Nat
  /\ k + 1 \in 1..Len(c) /\ k <= Len(c) /\ i = c[k + 1]
  /\ p \in Opening /\ q \in Opening /\ Turns(p, i, q) /\ Tally(p, i, q)
  /\ Count(p, "push") \in Nat /\ Count(p, "breflect") \in Nat
  /\ Count(q, "push") \in Nat /\ Count(q, "breflect") \in Nat
  /\ FrameOK(d, 1, k) /\ TurnsOK(d, k) /\ Ran(d, 1, k) = k
  /\ d.frames[1].pc \in 1..Len(c) + 1 /\ i \in InstrsOf(d.doc)

LEMMA TurnerIs ==
  ASSUME NEW d \in State, NEW k \in Nat, NEW i, OnPage(d, k), Turn(d, k, i), i.op \in {"breflect", "ereflect"}
  PROVE  Turner(d, k, i, d.frames[1].code, Open(d.frames[1].code, k), Open(d.frames[1].code, k + 1))
<1> DEFINE n == Len(d.frames)
           t == d.frames[n].code
<1>1. d.frames # << >> /\ d.frames[n].pc = k + 2 /\ n = 1 /\ d.status = "page"
  <2>1. n \in Nat /\ n >= 1 /\ ~(n > 1) /\ d.frames # << >> /\ d.frames[n].pc = k + 2 /\ d.status = "page"
    BY TurnIs DEF Turn
  <2> HIDE DEF n
  <2>2. n = 1
    BY <2>1
  <2>3. QED
    BY <2>1, <2>2 DEF n
<1>2. /\ t \in Seq(Instr) /\ Formed(t) /\ Len(t) \in Nat /\ k + 1 \in 1..Len(t) /\ i = t[k + 1]
      /\ Turns(Open(t, k), i, Open(t, k + 1)) /\ Open(t, k) \in Opening /\ Open(t, k + 1) \in Opening
      /\ Tally(Open(t, k), i, Open(t, k + 1)) /\ Count(Open(t, k), "push") \in Nat
      /\ Count(Open(t, k), "breflect") \in Nat /\ FrameOK(d, n, k)
      /\ d.frames[n].pc \in 1..Len(t) + 1 /\ (n = 1 => i \in InstrsOf(d.doc))
  BY TurnIs, SMTT(60)
<1>3. t = d.frames[1].code
  BY <1>1
<1>4. TurnsOK(d, k) /\ Ran(d, 1, k) = k
  BY <1>1 DEF OnPage, Ran
<1>5. Count(Open(t, k + 1), "push") \in Nat /\ Count(Open(t, k + 1), "breflect") \in Nat
  BY <1>2, CountType
<1>6. k <= Len(t)
  <2> HIDE DEF t
  <2>1. QED
    BY <1>2
<1> HIDE DEF t
<1>7. QED
  BY <1>1, <1>2, <1>3, <1>4, <1>5, <1>6 DEF Turner

\* At the end of the segment that is measured the page goes back to its beginning.
LEMMA RereadKeeps ==
  ASSUME NEW d \in State, NEW k \in Nat, NEW i, OnPage(d, k), Turn(d, k, i), i.op = "ereflect",
         d.lr.mode = Skimming, NEW e, e = Reread(d)
  PROVE  /\ e \in State /\ SamePage(d, e) /\ SameLinks(d, e) /\ e.stack = d.stack /\ e.saved = d.saved
         /\ e.status \in {"page", "failed"}
         /\ e.status = "page" => /\ Rereads(d, e) /\ OnPage(e, Top(e).pc - 1) /\ ~Skims(e)
                                 /\ Top(e).pc - 1 = d.lr.state.pc - 1
         /\ Open(d.frames[1].code, k) = Open(d.frames[1].code, d.lr.state.pc - 1)
<1> DEFINE c == d.frames[1].code
           p == Open(c, k)
           r == Open(c, k + 1)
           b == d.lr.state.pc - 1
           q == Open(c, b)
<1>1. Turner(d, k, i, c, p, r)
  BY TurnerIs
<1>2. Skims(d)
  BY DEF Skims, Skimming
<1>3. Gauge(d, c, k, b, p, q, Open(c, d.lr.state.pc - 2))
  <2>1. Measuring(d, k) /\ k <= Len(c) /\ c \in Seq(Instr) /\ Formed(c)
    BY <1>1, <1>2 DEF Turner, TurnsOK
  <2>2. c = d.frames[1].code
    OBVIOUS
  <2> HIDE DEF c
  <2>3. QED
    BY <2>1, <2>2, MeasuringIs
<1> HIDE DEF p, r, q, b
<1>4. p = q
  <2>1. /\ p \in Opening /\ q \in Opening /\ Extends(p, q)
        /\ d.lr.mode - Skimming = Count(p, "breflect") - Count(q, "breflect")
        /\ Count(p, "breflect") \in Nat /\ Count(q, "breflect") \in Nat
    BY <1>3 DEF Gauge
  <2>2. Last(p) = "breflect"
    BY <1>1 DEF Turner, Turns
  <2>3. Count(p, "breflect") = Count(q, "breflect")
    <3> DEFINE u == Count(p, "breflect")
               w == Count(q, "breflect")
    <3>1. u \in Nat /\ w \in Nat /\ u - w = 2 - 2
      BY <2>1 DEF Skimming
    <3> HIDE DEF u, w
    <3>2. u = w
      BY <3>1
    <3>3. QED
      BY <3>2 DEF u, w
  <2>4. ~(Len(p) > Len(q))
    <3>1. SUFFICES ASSUME Len(p) > Len(q) PROVE FALSE
      OBVIOUS
    <3>2. Count(p, Last(p)) >= Count(q, Last(p)) + 1
      BY <2>1, <3>1, CountLonger
    <3>3. QED
      BY <2>1, <2>2, <2>3, <3>2
  <2>5. QED
    BY <2>1, <2>4, ExtendsSame
<1>5. d.lr.state \in Segment /\ Len(d.frames) = 1 /\ d.status = "page"
  BY <1>1, <1>3 DEF Turner, Gauge
<1>6. /\ e \in State /\ SamePage(d, e) /\ SameLinks(d, e) /\ e.stack = d.stack /\ e.saved = d.saved
      /\ e.status \in {"page", "failed"}
      /\ e.status = "page" => Rereads(d, e)
  BY <1>5, RereadIs
<1>7. ASSUME e.status = "page"
      PROVE  OnPage(e, Top(e).pc - 1) /\ ~Skims(e) /\ Top(e).pc - 1 = d.lr.state.pc - 1
  <2>1. Rereads(d, e)
    BY <1>6, <1>7
  <2>2. /\ Texts(d, e) /\ e.frames[1].pc = d.lr.state.pc /\ e.font = d.lr.state.font
        /\ e.lr.mode = Opposite(d.lr.state.mode) /\ e.lr.widths = Append(d.lr.widths, d.lr.width)
    BY <2>1 DEF Rereads
  <2>3. Len(e.frames) = 1 /\ e.frames[1].code = c
    BY <1>5, <2>2 DEF Texts, SameText
  <2>4. /\ b \in 1..k /\ b \in Nat /\ Count(q, "breflect") \in Nat /\ Count(q, "push") \in Nat
        /\ Len(d.lr.widths) = Count(q, "breflect") - 1 + Count(p, "push") - Count(q, "push")
        /\ d.lr.state.mode = (Count(q, "breflect") - 1) % 2 /\ Kind(d.lr.state.font) # "virtual"
        /\ Count(q, "breflect") = Count(Open(c, d.lr.state.pc - 2), "breflect") + 1
        /\ Count(Open(c, d.lr.state.pc - 2), "breflect") \in Nat
    BY <1>3 DEF Gauge
  <2>5. Count(q, "breflect") >= 1
    BY <2>4
  <2>6. e.lr.mode = Count(q, "breflect") % 2 /\ e.lr.mode \in {0, 1}
    BY <2>2, <2>4, <2>5, Parity
  <2>7. ~Skims(e)
    BY <2>6 DEF Skims, Skimming
  <2>8. Len(e.lr.widths) = Count(q, "breflect")
    <3>1. d.lr.widths \in Seq(Int) /\ d.lr.width \in Int
      BY LrFields
    <3>2. Len(e.lr.widths) = Len(d.lr.widths) + 1
      BY <2>2, <3>1, AppendProperties
    <3>3. Len(d.lr.widths) = Count(q, "breflect") - 1
      BY <1>4, <2>4
    <3>4. QED
      BY <2>4, <3>2, <3>3
  <2>9. e.frames[1].pc = b + 1 /\ Top(e).pc - 1 = b
    <3>1. d.lr.state.pc \in Nat /\ Top(e) = e.frames[1]
      BY <1>5, <2>3 DEF Segment, Top, Last
    <3>2. QED
      BY <2>2, <3>1 DEF b
  <2>10. FrameOK(e, Len(e.frames), b)
    <3>1. e.frames[1].pc \in 1..Len(c) + 1
      <4>1. k <= Len(c) /\ Len(c) \in Nat
        BY <1>1 DEF Turner
      <4> HIDE DEF c
      <4>2. QED
        BY <2>4, <2>9, <4>1
    <3>2. Len(e.stack) - Len(d.stack) = Count(q, "push") - Count(p, "push")
      <4>1. e.stack = d.stack
        BY <1>6
      <4>2. Len(d.stack) \in Nat
        BY StateFields, LenProperties DEF Stacks
      <4>3. QED
        BY <1>4, <2>4, <4>1, <4>2
    <3>3. FrameOK(d, 1, k) /\ d.frames # << >> /\ e.doc = d.doc
      BY <1>1, <1>6 DEF Turner, SamePage
    <3>4. Count(q, "push") \in Nat /\ Count(p, "push") \in Nat
      BY <1>4, <2>4
    <3>5. QED
      BY <1>5, <1>6, <2>2, <2>4, <3>1, <3>2, <3>3, <3>4, PageMoves DEF p, q
  <2>11. TurnsOK(e, b)
    <3>1. Ran(e, 1, b) = b
      BY <2>3 DEF Ran
    <3>2. Turning(d.doc) /\ e.doc = d.doc
      BY <1>1, <1>2, <1>6 DEF Turner, TurnsOK, SamePage
    <3>3. Open(e.frames[1].code, Ran(e, 1, b)) = q
      BY <2>3, <3>1 DEF q
    <3>4. QED
      BY <2>2, <2>3, <2>4, <2>6, <2>7, <2>8, <3>2, <3>3 DEF TurnsOK
  <2>12. OnPage(e, b)
    <3>1. d.frames # << >> /\ e.doc = d.doc /\ Len(e.saved) = Len(d.saved)
      BY <1>1, <1>6 DEF Turner, SamePage
    <3>2. QED
      BY <1>6, <2>2, <2>4, <2>10, <2>11, <3>1, FramesMove
  <2>13. QED
    BY <2>7, <2>9, <2>12 DEF b
<1>8. QED
  BY <1>4, <1>6, <1>7 DEF p, q, b

LEMMA EndInnerKeeps ==
  ASSUME NEW d \in State, NEW k \in Nat, NEW i, OnPage(d, k), Turn(d, k, i), i.op = "ereflect",
         d.lr.mode > Skimming, NEW e, e = EndReflect(d)
  PROVE  e \in State /\ Reflects(d, e) /\ OnPage(e, Top(e).pc - 1)
<1> DEFINE c == d.frames[1].code
           p == Open(c, k)
           r == Open(c, k + 1)
           b == d.lr.state.pc - 1
           q == Open(c, b)
<1>1. Turner(d, k, i, c, p, r)
  BY TurnerIs
<1>2. Skims(d) /\ d.lr.mode \in Nat
  BY LrFields DEF Skims, Skimming
<1>3. Gauge(d, c, k, b, p, q, Open(c, d.lr.state.pc - 2))
  <2>1. Measuring(d, k) /\ k <= Len(c) /\ c \in Seq(Instr) /\ Formed(c)
    BY <1>1, <1>2 DEF Turner, TurnsOK
  <2>2. c = d.frames[1].code
    OBVIOUS
  <2> HIDE DEF c
  <2>3. QED
    BY <2>1, <2>2, MeasuringIs
<1> HIDE DEF p, r, q, b
<1>4. /\ e \in State /\ Reflects(d, e) /\ e.lr.widths = d.lr.widths /\ e.lr.mode = d.lr.mode - 1
      /\ e.lr.state = d.lr.state
  BY EndInnerIs
<1>5. /\ e.doc = d.doc /\ e.frames = d.frames /\ e.stack = d.stack /\ e.saved = d.saved /\ e.font = d.font
  BY <1>4 DEF Reflects, SamePage
<1>6. /\ p \in Opening /\ q \in Opening /\ q # << >> /\ Last(q) = "breflect" /\ Extends(p, q)
      /\ d.lr.mode - Skimming = Count(p, "breflect") - Count(q, "breflect")
      /\ Count(p, "breflect") \in Nat /\ Count(q, "breflect") \in Nat /\ b \in 1..k /\ b \in Nat
      /\ Count(p, "push") \in Nat /\ Count(q, "push") \in Nat
      /\ Len(d.lr.widths) = Count(q, "breflect") - 1 + Count(p, "push") - Count(q, "push")
  BY <1>3 DEF Gauge
<1>7. /\ Count(r, "push") = Count(p, "push") /\ Count(r, "breflect") = Count(p, "breflect") - 1
      /\ Turns(p, i, r) /\ Count(r, "push") \in Nat
  BY <1>1 DEF Turner, Tally
<1>8. p # q
  <2> DEFINE u == Count(p, "breflect")
             w == Count(q, "breflect")
             m == d.lr.mode
  <2>1. u \in Nat /\ w \in Nat /\ m - 2 = u - w /\ m > 2 /\ m \in Nat
    BY <1>2, <1>6 DEF Skimming
  <2> HIDE DEF u, w, m
  <2>2. u # w
    BY <2>1
  <2>3. QED
    BY <2>2 DEF u, w
<1>9. Extends(r, q)
  BY <1>6, <1>7, <1>8, ExtendsNext
<1>10. Measuring(e, k + 1)
  <2>1. e.lr.mode - Skimming = Count(r, "breflect") - Count(q, "breflect")
    <3> DEFINE u == Count(p, "breflect")
               w == Count(q, "breflect")
               x == Count(r, "breflect")
               m == d.lr.mode
               l == e.lr.mode
    <3>1. u \in Nat /\ w \in Nat /\ m - 2 = u - w /\ m \in Nat /\ x = u - 1 /\ l = m - 1
      BY <1>2, <1>4, <1>6, <1>7 DEF Skimming
    <3> HIDE DEF u, w, m, x, l
    <3>2. l - 2 = x - w
      BY <3>1
    <3>3. QED
      BY <3>2 DEF l, x, w, Skimming
  <2>2. Len(e.lr.widths) = Count(q, "breflect") - 1 + Count(r, "push") - Count(q, "push")
    BY <1>4, <1>6, <1>7
  <2>3. \A m \in b..k + 1 : Extends(Open(c, m), q)
    <3> HIDE DEF c
    <3>1. \A m \in b..k + 1 : m \in b..k \/ m = k + 1
      BY <1>6
    <3>2. QED
      BY <1>3, <1>9, <3>1 DEF Gauge, r
  <2>4. b \in 1..k + 1
    BY <1>6
  <2>5. b = e.lr.state.pc - 1 /\ q = Open(e.frames[1].code, b) /\ r = Open(e.frames[1].code, k + 1)
        /\ e.frames[1].code = c
    BY <1>4, <1>5 DEF b, q, r
  <2> HIDE DEF c
  <2>6. QED
    BY <1>3, <1>4, <2>1, <2>2, <2>3, <2>4, <2>5 DEF Measuring, Gauge
<1>11. TurnsOK(e, k + 1)
  <2>1. Skims(e)
    BY <1>2, <1>4 DEF Skims, Skimming
  <2>2. Turning(d.doc) /\ Len(d.frames) = 1 /\ Kind(d.font) # "virtual"
    BY <1>1, <1>2 DEF Turner, TurnsOK
  <2>3. QED
    BY <1>5, <1>10, <2>1, <2>2 DEF TurnsOK
<1>12. /\ Len(d.frames) = 1 /\ d.frames # << >> /\ FrameOK(d, 1, k) /\ d.frames[1].pc \in 1..Len(c) + 1
       /\ d.frames[1].pc = k + 2
  BY <1>1 DEF Turner
<1>13. Texts(d, e)
  BY <1>5 DEF Texts, SameText, SameFrame
<1>14. FrameOK(e, Len(e.frames), k + 1)
  <2>1. k + 1 \in Nat
    OBVIOUS
  <2>2. Len(e.stack) - Len(d.stack) = Count(r, "push") - Count(p, "push")
    BY <1>5, <1>6, <1>7, StateFields, LenProperties DEF Stacks
  <2>3. e.frames[1].pc \in 1..Len(c) + 1
    BY <1>5, <1>12
  <2>4. QED
    BY <1>4, <1>5, <1>6, <1>7, <1>12, <1>13, <2>1, <2>2, <2>3, PageMoves DEF p, r
<1>15. OnPage(e, k + 1)
  <2>1. k + 1 \in Nat /\ Len(e.saved) = Len(d.saved)
    BY <1>5
  <2>2. QED
    BY <1>4, <1>5, <1>11, <1>12, <1>13, <1>14, <2>1, FramesMove
<1>16. Top(e).pc - 1 = k + 1
  BY <1>5, <1>12 DEF Top, Last
<1>17. QED
  BY <1>4, <1>15, <1>16

LEMMA EndReflectKeeps ==
  ASSUME NEW d \in State, NEW k \in Nat, NEW i, OnPage(d, k), Turn(d, k, i), i.op = "ereflect",
         ~Skims(d), NEW e, e = EndReflect(d)
  PROVE  e \in State /\ Unreflects(d, e) /\ OnPage(e, Top(e).pc - 1)
<1> DEFINE c == d.frames[1].code
           p == Open(c, k)
           r == Open(c, k + 1)
<1>1. Turner(d, k, i, c, p, r)
  BY TurnerIs
<1> HIDE DEF p, r
<1>2. /\ Count(r, "push") = Count(p, "push") /\ Count(r, "breflect") = Count(p, "breflect") - 1
      /\ Count(r, "push") \in Nat /\ Count(r, "breflect") \in Nat /\ Count(p, "breflect") \in Nat
      /\ Count(p, "push") \in Nat
  BY <1>1 DEF Turner, Tally
<1>3. Count(p, "breflect") >= 1
  BY <1>2
<1>4. d.lr.mode = Count(p, "breflect") % 2 /\ Len(d.lr.widths) = Count(p, "breflect") /\ Turning(d.doc)
      /\ Kind(d.font) # "virtual"
  <2>1. TurnsOK(d, k) /\ Ran(d, 1, k) = k
    BY <1>1 DEF Turner
  <2>2. ~(Count(p, "breflect") = 0)
    BY <1>2, <1>3
  <2>3. QED
    BY <2>1, <2>2 DEF TurnsOK, p
<1>5. d.lr.widths # << >> /\ d.lr.mode \in {0, 1}
  <2>1. d.lr.widths = << >> => Len(d.lr.widths) = 0
    BY EmptySeq
  <2>2. QED
    BY <1>2, <1>3, <1>4, <2>1, Parity
<1>6. e \in State /\ Unreflects(d, e)
  BY <1>5, EndReflectIs
<1>7. /\ e.doc = d.doc /\ e.frames = d.frames /\ e.stack = d.stack /\ e.saved = d.saved /\ e.font = d.font
      /\ e.lr.mode = Opposite(d.lr.mode) /\ e.lr.widths = Front(d.lr.widths)
  BY <1>6 DEF Unreflects, SamePage
<1>8. e.lr.mode = Count(r, "breflect") % 2 /\ e.lr.mode \in {0, 1}
  <2>1. Opposite(Count(p, "breflect") % 2) = (Count(p, "breflect") - 1) % 2
        /\ (Count(p, "breflect") - 1) % 2 \in {0, 1}
    BY <1>2, <1>3, Parity
  <2>2. QED
    BY <1>2, <1>4, <1>7, <2>1
<1>9. Len(e.lr.widths) = Count(r, "breflect")
  <2>1. d.lr.widths \in Seq(Int)
    BY LrFields
  <2>2. Len(Front(d.lr.widths)) = Len(d.lr.widths) - 1
    BY <1>5, <2>1, FrontLast
  <2>3. QED
    BY <1>2, <1>4, <1>7, <2>2
<1>10. ~Skims(e)
  BY <1>8 DEF Skims, Skimming
<1>12. /\ Len(d.frames) = 1 /\ d.frames # << >> /\ FrameOK(d, 1, k) /\ d.frames[1].pc \in 1..Len(c) + 1
       /\ d.frames[1].pc = k + 2
  BY <1>1 DEF Turner
<1>11. TurnsOK(e, k + 1)
  <2>1. Ran(e, 1, k + 1) = k + 1 /\ Open(e.frames[1].code, k + 1) = r
    BY <1>7, <1>12 DEF Ran, r
  <2>2. QED
    BY <1>4, <1>7, <1>8, <1>9, <1>10, <1>12, <2>1 DEF TurnsOK
<1>13. Texts(d, e)
  BY <1>7 DEF Texts, SameText, SameFrame
<1>14. FrameOK(e, Len(e.frames), k + 1)
  <2>1. k + 1 \in Nat
    OBVIOUS
  <2>2. Len(e.stack) - Len(d.stack) = Count(r, "push") - Count(p, "push")
    BY <1>2, <1>7, StateFields, LenProperties DEF Stacks
  <2>3. e.frames[1].pc \in 1..Len(c) + 1
    BY <1>7, <1>12
  <2>4. QED
    BY <1>2, <1>6, <1>7, <1>12, <1>13, <2>1, <2>2, <2>3, PageMoves DEF p, r
<1>15. OnPage(e, k + 1)
  <2>1. k + 1 \in Nat /\ Len(e.saved) = Len(d.saved)
    BY <1>7
  <2>2. QED
    BY <1>6, <1>7, <1>11, <1>12, <1>13, <1>14, <2>1, FramesMove
<1>16. Top(e).pc - 1 = k + 1
  BY <1>7, <1>12 DEF Top, Last
<1>17. QED
  BY <1>6, <1>15, <1>16

(***************************************************************************)
(* Packets.                                                                 *)
(***************************************************************************)
NewFrame(d, c, after) ==
  [code |-> Packet(d.font, c), pc |-> 1, set |-> << >>,
   start |-> [regs |-> [Regs(d) EXCEPT !.w = 0], font |-> Default[d.font]],
   below |-> Len(d.stack), after |-> after]

Enters(d, e, c, after) ==
  /\ SamePage(d, e) /\ SameLinks(d, e) /\ e.status = d.status /\ e.lr = d.lr
  /\ e.stack = Append(d.stack, Regs(d)) /\ Len(e.stack) = Len(d.stack) + 1 /\ Len(d.stack) < StackMax
  /\ e.saved = Append(d.saved, d.font) /\ Len(e.saved) = Len(d.saved) + 1 /\ Len(d.saved) < NestMax
  /\ e.font = Default[d.font] /\ Regs(e) = [Regs(d) EXCEPT !.w = 0]
  /\ Len(e.frames) = Len(d.frames) + 1
  /\ \A j \in 1..Len(d.frames) : SameFrame(d.frames[j], e.frames[j])
  /\ \A j \in 1..Len(d.frames) - 1 : e.frames[j] = d.frames[j]
  /\ e.frames[Len(d.frames)].set = Append(d.frames[Len(d.frames)].set, GlyphAt(d, c))
  /\ e.frames[Len(d.frames) + 1] = NewFrame(d, c, after)

LEMMA PacketIs ==
  ASSUME NEW f \in HasVf, NEW c
  PROVE  /\ Packet(f, c) \in Seq(Instr) /\ Formed(Packet(f, c)) /\ Pending(Packet(f, c)) = << >>
         /\ \A n \in 1..Len(Packet(f, c)) : Packet(f, c)[n].op \notin {"xxx", "breflect", "ereflect"}
<1>1. CASE c \in DOMAIN Packets[f]
  <2>1. Packet(f, c) = Packets[f][c]
    BY <1>1 DEF Packet
  <2> DEFINE code == Packets[f][c]
  <2>2. /\ code \in Seq(Instr) /\ Formed(code) /\ Pending(code) = << >>
        /\ \A n \in DOMAIN code : code[n].op \notin {"xxx", "breflect", "ereflect"}
    BY <1>1, PacketAssumption
  <2> HIDE DEF code
  <2>3. DOMAIN code = 1..Len(code)
    BY <2>2, LenProperties
  <2>4. QED
    BY <2>1, <2>2, <2>3 DEF code
<1>2. CASE c \notin DOMAIN Packets[f]
  <2> DEFINE code == << >>
  <2>1. Packet(f, c) = code
    BY <1>2 DEF Packet
  <2>2. code \in Seq(Instr) /\ Len(code) = 0 /\ DOMAIN code = {}
    BY EmptySeq, LenProperties
  <2>3. Formed(code)
    BY <2>2 DEF Formed
  <2>4. Pending(code) = << >>
    <3>1. code \in Seq(Instr)
      BY <2>2
    <3>2. Open(code, 0) = << >> /\ Open(code, Len(code)) = Pending(code)
      BY <3>1, OpenRun, OpenWhole
    <3>3. QED
      BY <2>2, <3>2
  <2>5. 1..0 = {}
    OBVIOUS
  <2> HIDE DEF code
  <2>6. QED
    BY <2>1, <2>2, <2>3, <2>4, <2>5
<1>3. QED
  BY <1>1, <1>2

LEMMA EnterVfIs ==
  ASSUME NEW d \in State, d.frames # << >>, d.font \in HasVf, NEW c \in Char, NEW after \in Int,
         NEW e, e = EnterVf(d, c, after)
  PROVE  e \in State /\ (Fails(d, e) \/ Enters(d, e, c, after))
<1> DEFINE l == Log(d, c)
           p == Push(l)
           g == NewFrame(d, c, after)
           n == Len(d.frames)
<1>1. l \in State /\ Stays(d, l) /\ SameLinks(d, l) /\ Logs(d, l, GlyphAt(d, c))
  BY LogIs
<1>2. Regs(l) = Regs(d) /\ l.stack = d.stack
  BY <1>1 DEF Stays, SamePlace, Regs
<1>3. CASE p.status = "failed" \/ Len(d.saved) >= NestMax
  <2>1. e = Fail(d)
    BY <1>3 DEF EnterVf
  <2>2. QED
    BY <2>1, FailIs
<1>4. CASE ~(p.status = "failed" \/ Len(d.saved) >= NestMax)
  <2> DEFINE sv == Append(d.saved, d.font)
             fs == Append(l.frames, g)
             df == Default[d.font]
  <2>1. /\ p \in State /\ ~(Len(l.stack) >= StackMax) /\ Restacks(l, p) /\ SamePlace(l, p)
        /\ p.stack = Append(d.stack, Regs(d)) /\ Len(p.stack) = Len(d.stack) + 1
    <3>1. Len(l.stack) >= StackMax => p.status = "failed"
      BY <1>1, PushIs DEF Fails
    <3>2. Len(l.stack) \in Nat /\ StackMax \in Nat
      BY <1>1, StateFields, LenProperties, DviAssumption DEF Stacks
    <3>3. Len(l.stack) < StackMax
      BY <1>4, <3>1, <3>2
    <3>4. QED
      BY <1>1, <1>2, <3>2, <3>3, PushIs
  <2> HIDE DEF l, p
  <2>2. d.saved \in Seq(AnyFont) /\ d.font \in AnyFont /\ d.font \in Font /\ df \in AnyFont
    BY StateFields, DviAssumption DEF Saves, AnyFont
  <2>3. sv \in Saves /\ Len(sv) = Len(d.saved) + 1
    BY <2>2, AppendProperties DEF Saves
  <2>4. Regs(d) \in RegSet /\ [Regs(d) EXCEPT !.w = 0] \in RegSet
    BY StateFields DEF Regs, RegSet, Direction
  <2>5. g \in Frame
    <3>1. Packet(d.font, c) \in Seq(Instr)
      BY PacketIs
    <3>2. << >> \in Seq(Glyph) /\ Len(d.stack) \in Nat
      BY EmptySeq, StateFields, LenProperties DEF Stacks
    <3> DEFINE st == [regs |-> [Regs(d) EXCEPT !.w = 0], font |-> df]
    <3>3. st \in Begun
      BY <2>2, <2>4 DEF Begun
    <3> HIDE DEF st
    <3>4. g = [code |-> Packet(d.font, c), pc |-> 1, set |-> << >>, start |-> st,
               below |-> Len(d.stack), after |-> after]
      BY DEF NewFrame, st
    <3>5. QED
      BY <3>1, <3>2, <3>3, <3>4 DEF Frame
  <2> HIDE DEF g, sv, df
  <2>6. l.frames \in Seq(Frame) /\ Len(l.frames) = n /\ n \in Nat /\ n >= 1
    BY <1>1, FramesLen DEF Logs, Codes
  <2>7. fs \in Frames /\ Len(fs) = n + 1 /\ fs[n + 1] = g /\ \A j \in 1..n : fs[j] = l.frames[j]
    <3> HIDE DEF n
    <3>1. QED
      BY <2>5, <2>6, AppendProperties DEF Frames
  <2>8. e = [p EXCEPT !.w = 0, !.saved = sv, !.font = df, !.frames = fs]
    <3>1. p.frames = l.frames /\ p.saved = d.saved
      BY <1>1, <2>1 DEF Restacks, Stays
    <3>2. e = [p EXCEPT !.w = 0, !.saved = Append(@, d.font), !.font = Default[d.font],
                    !.frames = Append(@, [code |-> Packet(d.font, c), pc |-> 1, set |-> << >>,
                                          start |-> [regs |-> [Regs(d) EXCEPT !.w = 0],
                                                     font |-> Default[d.font]],
                                          below |-> Len(d.stack), after |-> after])]
      BY <1>4 DEF EnterVf, l, p
    <3>3. QED
      BY <3>1, <3>2 DEF sv, df, g, NewFrame
  <2> HIDE DEF fs
  <2> DEFINE e1 == [p EXCEPT !.w = 0]
             e2 == [e1 EXCEPT !.saved = sv]
             e3 == [e2 EXCEPT !.font = df]
             e4 == [e3 EXCEPT !.frames = fs]
  <2>9. e = e4
    BY <2>8
  <2>10. /\ e1 \in State /\ SamePage(p, e1) /\ SameLinks(p, e1) /\ e1.status = p.status /\ e1.lr = p.lr
         /\ e1.stack = p.stack /\ e1.h = p.h /\ e1.v = p.v /\ e1.d = p.d /\ e1.w = 0
    <3>1. p \in State /\ 0 \in Int
      BY <2>1
    <3>2. QED
      BY <3>1 DEF State, SamePage, SameLinks
  <2> HIDE DEF e1
  <2>11. /\ e2 \in State /\ SamePage(p, e2) /\ SameLinks(p, e2) /\ e2.status = p.status /\ e2.lr = p.lr
         /\ e2.stack = p.stack /\ e2.h = p.h /\ e2.v = p.v /\ e2.d = p.d /\ e2.w = 0 /\ e2.saved = sv
    BY <2>3, <2>10 DEF State, SamePage, SameLinks
  <2> HIDE DEF e2
  <2>12. /\ e3 \in State /\ SamePage(p, e3) /\ SameLinks(p, e3) /\ e3.status = p.status /\ e3.lr = p.lr
         /\ e3.stack = p.stack /\ e3.h = p.h /\ e3.v = p.v /\ e3.d = p.d /\ e3.w = 0 /\ e3.saved = sv
         /\ e3.font = df
    BY <2>2, <2>11 DEF State, SamePage, SameLinks
  <2> HIDE DEF e3
  <2>13. /\ e \in State /\ SamePage(p, e) /\ SameLinks(p, e) /\ e.status = p.status /\ e.lr = p.lr
         /\ e.stack = p.stack /\ e.h = p.h /\ e.v = p.v /\ e.d = p.d /\ e.w = 0 /\ e.saved = sv
         /\ e.font = df /\ e.frames = fs
    BY <2>7, <2>9, <2>12 DEF State, SamePage, SameLinks
  <2> HIDE DEF e4
  <2>14. SamePage(d, e) /\ SameLinks(d, e) /\ e.status = d.status /\ e.lr = d.lr
    BY <1>1, <2>1, <2>13 DEF Stays, Restacks, SamePage, SameLinks
  <2>15. e.h = d.h /\ e.v = d.v /\ e.d = d.d /\ e.w = 0
    BY <1>1, <2>1, <2>13 DEF Stays, SamePlace
  <2>16. Regs(e) = [Regs(d) EXCEPT !.w = 0]
    BY <2>15 DEF Regs
  <2>17. Len(d.stack) < StackMax /\ Len(d.saved) < NestMax
    <3>1. Len(d.stack) \in Nat /\ Len(d.saved) \in Nat /\ StackMax \in Nat /\ NestMax \in Nat
      BY StateFields, LenProperties, DviAssumption DEF Stacks, Saves
    <3>2. QED
      BY <1>2, <1>4, <2>1, <3>1
  <2>18. \A j \in 1..n : e.frames[j] = l.frames[j]
    BY <2>7, <2>13
  <2>19. /\ Len(e.frames) = n + 1
         /\ \A j \in 1..n : SameFrame(d.frames[j], e.frames[j])
         /\ \A j \in 1..n - 1 : e.frames[j] = d.frames[j]
         /\ e.frames[n].set = Append(d.frames[n].set, GlyphAt(d, c))
         /\ e.frames[n + 1] = g
    <3>1. n \in 1..n /\ \A j \in 1..n - 1 : j \in 1..n
      <4> HIDE DEF n
      <4>1. QED
        BY <2>6
    <3>2. /\ \A j \in 1..n : SameFrame(d.frames[j], l.frames[j])
          /\ \A j \in 1..n - 1 : l.frames[j] = d.frames[j]
          /\ l.frames[n].set = Append(d.frames[n].set, GlyphAt(d, c))
      BY <1>1 DEF Logs, Codes
    <3>3. Len(e.frames) = n + 1 /\ e.frames[n + 1] = g
      BY <2>7, <2>13
    <3> HIDE DEF n
    <3>4. QED
      BY <2>18, <3>1, <3>2, <3>3
  <2>20. QED
    BY <2>1, <2>3, <2>13, <2>14, <2>16, <2>17, <2>19 DEF Enters, sv, df, g, n
<1>5. QED
  BY <1>3, <1>4

LEMMA EnterKeeps ==
  ASSUME NEW d \in State, NEW k \in Nat, NEW i, OnPage(d, k), Turn(d, k, i), i.op \in {"set", "put"},
         ~Turning(d.doc), d.font \in HasVf, NEW c \in Char, NEW after \in Int, NEW e \in State,
         Enters(d, e, c, after)
  PROVE  OnPage(e, 0) /\ Top(e).pc - 1 = 0
<1> DEFINE n == Len(d.frames)
           t == d.frames[n].code
           g == NewFrame(d, c, after)
<1>1. /\ n \in Nat /\ n >= 1 /\ FrameOK(d, n, k) /\ Tally(Open(t, k), i, Open(t, k + 1))
      /\ Count(Open(t, k), "push") \in Nat /\ Count(Open(t, k), "breflect") \in Nat
  BY TurnIs, SMTT(60)
<1>2. d.frames[n].pc = k + 2 /\ d.frames # << >>
  BY DEF Turn
<1>3. Count(Open(t, k + 1), "push") = Count(Open(t, k), "push")
      /\ Count(Open(t, k + 1), "breflect") = Count(Open(t, k), "breflect")
  BY <1>1 DEF Tally
<1>4. /\ Len(e.frames) = n + 1 /\ e.frames[n + 1] = g /\ e.doc = d.doc
      /\ \A j \in 1..n : SameFrame(d.frames[j], e.frames[j])
      /\ Len(e.stack) = Len(d.stack) + 1 /\ Len(e.saved) = Len(d.saved) + 1 /\ e.lr = d.lr
  BY DEF Enters, SamePage
<1>5. /\ g.code = Packet(d.font, c) /\ g.pc = 1 /\ g.below = Len(d.stack)
  BY DEF NewFrame
<1>6. /\ g.code \in Seq(Instr) /\ Formed(g.code) /\ Pending(g.code) = << >>
      /\ \A m \in 1..Len(g.code) : g.code[m].op \notin {"xxx", "breflect", "ereflect"}
  BY <1>5, PacketIs
<1>7. Len(d.stack) \in Nat
  BY StateFields, LenProperties DEF Stacks
<1> HIDE DEF g
<1>8. Len(d.stack) = Base(d, n) + Count(Open(t, k), "push")
  BY <1>1 DEF FrameOK, Ran, Depth
<1>9. Len(d.stack) >= n - 1
  <2>1. CASE n = 1
    BY <1>7, <2>1
  <2>2. CASE n # 1
    <3>1. d.frames[n].below >= n - 2 /\ d.frames[n].below \in Nat
      <4>1. n \in 1..n /\ n > 1
        <5> HIDE DEF n
        <5>1. QED
          BY <1>1, <2>2
      <4>2. QED
        BY <1>1, <4>1, FrameAt DEF FrameOK
    <3>2. Base(d, n) = d.frames[n].below + 1
      BY <2>2 DEF Base
    <3> DEFINE x == d.frames[n].below
               y == Count(Open(t, k), "push")
               z == Len(d.stack)
    <3>3. x >= n - 2 /\ x \in Nat /\ y \in Nat /\ z = x + 1 + y
      BY <1>1, <1>8, <3>1, <3>2
    <3> HIDE DEF x, y, z, n
    <3>4. z >= n - 1
      BY <1>1, <3>3
    <3>5. QED
      BY <3>4 DEF z
  <2>3. QED
    BY <2>1, <2>2
<1>10. FrameOK(e, n + 1, 0)
  <2>1. Ran(e, n + 1, 0) = 0 /\ Depth(e, n + 1) = Len(e.stack)
    BY <1>4 DEF Ran, Depth
  <2>2. n + 1 # 1 /\ n + 1 > 1
    <3> HIDE DEF n
    <3>1. QED
      BY <1>1
  <2>3. Base(e, n + 1) = Len(d.stack) + 1
    BY <1>4, <1>5, <2>2 DEF Base
  <2>4. Open(g.code, 0) = << >>
    BY <1>6, OpenRun
  <2>5. Count(Open(g.code, 0), "push") = 0
    BY <2>4, CountEmpty
  <2>6. Len(e.stack) = Len(d.stack) + 1 + 0
    BY <1>4, <1>7
  <2>7. g.pc \in 1..Len(g.code) + 1
    <3>1. Len(g.code) \in Nat
      BY <1>6, LenProperties
    <3>2. QED
      BY <1>5, <3>1
  <2>8. g.below >= (n + 1) - 2
    <3> HIDE DEF n
    <3>1. QED
      BY <1>1, <1>5, <1>7, <1>9
  <2> HIDE DEF n
  <2>9. QED
    BY <1>4, <1>5, <1>6, <2>1, <2>2, <2>3, <2>5, <2>6, <2>7, <2>8 DEF FrameOK
<1>11. ASSUME NEW j \in 1..n PROVE FrameOK(e, j, 0)
  <2> DEFINE f == d.frames[j]
             h == e.frames[j]
  <2>1. FrameOK(d, j, k)
    BY DEF OnPage
  <2>2. h.code = f.code /\ h.pc = f.pc /\ h.below = f.below
    BY <1>4 DEF SameFrame
  <2>3. j # n + 1
    <3> HIDE DEF n
    <3>1. QED
      BY <1>1
  <2>4. Ran(e, j, 0) = f.pc - 1 /\ Base(e, j) = Base(d, j)
    BY <1>4, <2>2, <2>3 DEF Ran, Base
  <2>5. Depth(e, j) = Depth(d, j)
    <3>1. CASE j = n
      <4>1. Depth(e, j) = g.below /\ Depth(d, j) = Len(d.stack)
        BY <1>4, <2>3, <3>1 DEF Depth
      <4>2. QED
        BY <1>5, <4>1
    <3>2. CASE j # n
      <4>1. j + 1 \in 1..n
        <5> HIDE DEF n
        <5>1. QED
          BY <1>1, <3>2
      <4>2. Depth(e, j) = e.frames[j + 1].below /\ Depth(d, j) = d.frames[j + 1].below
        BY <1>4, <2>3, <3>2 DEF Depth
      <4>3. QED
        BY <1>4, <4>1, <4>2 DEF SameFrame
    <3>3. QED
      BY <3>1, <3>2
  <2>6. Count(Open(f.code, Ran(e, j, 0)), "push") = Count(Open(f.code, Ran(d, j, k)), "push")
    <3>1. CASE j = n
      <4>1. Ran(e, j, 0) = k + 1 /\ Ran(d, j, k) = k /\ f.code = t
        BY <1>2, <2>4, <3>1 DEF Ran
      <4>2. QED
        BY <1>3, <4>1
    <3>2. CASE j # n
      <4>1. Ran(d, j, k) = Ran(e, j, 0)
        BY <2>4, <3>2 DEF Ran
      <4>2. QED
        BY <4>1
    <3>3. QED
      BY <3>1, <3>2
  <2>7. e.doc = d.doc
    BY <1>4
  <2> HIDE DEF f, h, n
  <2>8. QED
    BY <2>1, <2>2, <2>4, <2>5, <2>6, <2>7 DEF FrameOK, f, h
<1>12. TurnsOK(e, 0)
  <2> DEFINE p == Open(d.frames[1].code, Ran(d, 1, k))
             q == Open(e.frames[1].code, Ran(e, 1, 0))
  <2>1. /\ Count(p, "breflect") = 0 /\ ~Skims(d) /\ d.lr.mode = Count(p, "breflect") % 2
        /\ Len(d.lr.widths) = Count(p, "breflect")
    BY DEF OnPage, TurnsOK
  <2>2. 1 \in 1..n /\ 1 # n + 1
    <3> HIDE DEF n
    <3>1. QED
      BY <1>1
  <2>3. Ran(e, 1, 0) = d.frames[1].pc - 1 /\ e.frames[1].code = d.frames[1].code
    BY <1>4, <2>2 DEF Ran, SameFrame
  <2>4. Count(q, "breflect") = Count(p, "breflect")
    <3>1. CASE n = 1
      <4>1. Ran(d, 1, k) = k /\ Ran(e, 1, 0) = k + 1 /\ d.frames[1].code = t
        BY <1>2, <2>3, <3>1 DEF Ran
      <4>2. QED
        BY <1>3, <2>3, <4>1
    <3>2. CASE n # 1
      <4>1. Ran(d, 1, k) = Ran(e, 1, 0)
        BY <2>3, <3>2 DEF Ran
      <4>2. QED
        BY <2>3, <4>1
    <3>3. QED
      BY <3>1, <3>2
  <2>5. ~Skims(e) /\ e.lr.mode = d.lr.mode /\ e.lr.widths = d.lr.widths /\ ~Turning(e.doc)
    BY <1>4, <2>1 DEF Skims
  <2> HIDE DEF p
  <2>6. QED
    BY <2>1, <2>4, <2>5 DEF TurnsOK
<1>13. Len(e.frames) = Len(e.saved) + 1
  <2>1. Len(d.frames) = Len(d.saved) + 1
    BY DEF OnPage
  <2>2. QED
    BY <1>4, <2>1
<1>14. \A j \in 1..n + 1 : FrameOK(e, j, 0)
  <2>1. \A j \in 1..n + 1 : j \in 1..n \/ j = n + 1
    <3> HIDE DEF n
    <3>1. QED
      BY <1>1
  <2>2. QED
    BY <1>10, <1>11, <2>1
<1>15. Top(e).pc - 1 = 0
  BY <1>4, <1>5 DEF Top, Last
<1>16. QED
  BY <1>4, <1>12, <1>13, <1>14, <1>15 DEF OnPage

Leaves(d, e) ==
  /\ SamePage(d, e) /\ SameLinks(d, e) /\ e.status = d.status /\ e.lr = d.lr
  /\ e.frames = Front(d.frames) /\ e.stack = Front(d.stack) /\ e.saved = Front(d.saved)
  /\ e.font = Last(d.saved) /\ Regs(e) = ShiftRegs(Last(d.stack), Top(d).after)

LEMMA LeaveVfIs ==
  ASSUME NEW d \in State, d.frames # << >>, d.stack # << >>, d.saved # << >>, d.lr.mode = Left,
         d.status = "page", NEW e, e = LeaveVf(d)
  PROVE  e \in State /\ Leaves(d, e)
<1> DEFINE fs == Front(d.frames)
           f == Last(d.saved)
           sv == Front(d.saved)
           x == Top(d).after
           d1 == [d EXCEPT !.frames = fs]
           p == Pop(d1)
           r1 == [p EXCEPT !.font = f]
           r == [r1 EXCEPT !.saved = sv]
<1>1. fs \in Frames
  BY FramesLen, FrontLast DEF Frames
<1>2. f \in AnyFont /\ sv \in Saves
  <2>1. d.saved \in Seq(AnyFont)
    BY StateFields DEF Saves
  <2>2. QED
    BY <2>1, FrontLast DEF Saves
<1>3. x \in Int
  <2>1. Len(d.frames) \in 1..Len(d.frames)
    BY FramesLen
  <2>2. QED
    BY <2>1, FrameAt DEF Top, Last
<1> HIDE DEF fs, f, sv, x
<1>5. /\ d1 \in State /\ SamePage(d, d1) /\ SameLinks(d, d1) /\ d1.status = d.status /\ d1.lr = d.lr
      /\ d1.stack = d.stack /\ d1.frames = fs
  BY <1>1 DEF State, SamePage, SameLinks
<1> HIDE DEF d1
<1>6. p \in State /\ Restacks(d1, p) /\ p.stack = Front(d.stack) /\ Regs(p) = Last(d.stack)
  BY <1>5, PopIs
<1>6a. d1.saved = d.saved
  BY DEF d1, State
<1>4. e = IF p.status = "failed" THEN p ELSE AfterSet(r, x)
  <2>1. sv = Front(p.saved)
    BY <1>6, <1>6a DEF sv, Restacks
  <2>2. r = [p EXCEPT !.font = Last(d.saved), !.saved = Front(p.saved)]
    BY <2>1 DEF f
  <2>3. QED
    BY <2>2 DEF LeaveVf, x, d1, fs
<1> HIDE DEF p
<1>7. /\ r1 \in State /\ SamePage(p, r1) /\ SameLinks(p, r1) /\ r1.status = p.status /\ r1.lr = p.lr
      /\ r1.stack = p.stack /\ r1.frames = p.frames /\ r1.font = f /\ SamePlace(p, r1)
  BY <1>2, <1>6 DEF State, SamePage, SameLinks, SamePlace
<1> HIDE DEF r1
<1>8. /\ r \in State /\ SamePage(p, r) /\ SameLinks(p, r) /\ r.status = p.status /\ r.lr = p.lr
      /\ r.stack = p.stack /\ r.frames = p.frames /\ r.font = f /\ SamePlace(p, r) /\ r.saved = sv
  BY <1>2, <1>7 DEF State, SamePage, SameLinks, SamePlace
<1> HIDE DEF r
<1>9. p.status = "page" /\ p.lr = d.lr /\ p.frames = fs
  BY <1>5, <1>6 DEF Restacks
<1>10. e = MoveRight(r, x) /\ ~Skims(r) /\ r.lr.mode = Left
  BY <1>4, <1>8, <1>9 DEF AfterSet, Skims, Skimming, Left
<1>11. e \in State /\ Moves(r, e)
  BY <1>3, <1>8, <1>10, MoveRightIs
<1>12. Regs(e) = ShiftRegs(Regs(r), x) /\ e.lr = r.lr
  <2>1. Regs(e) = ShiftRegs(Regs(r), IF r.lr.mode = Right THEN -x ELSE x) /\ e.lr = r.lr
    BY <1>3, <1>8, <1>10, RightRegs
  <2>2. r.lr.mode # Right
    BY <1>10 DEF Left, Right
  <2>3. QED
    BY <2>1, <2>2
<1>13. Regs(r) = Last(d.stack)
  BY <1>6, <1>8 DEF SamePlace, Regs
<1>14. SamePage(d, e) /\ SameLinks(d, e) /\ e.status = d.status /\ e.lr = d.lr
  BY <1>5, <1>6, <1>8, <1>9, <1>11, <1>12 DEF SamePage, SameLinks, Moves, Restacks
<1>15. e.frames = fs /\ e.stack = Front(d.stack) /\ e.saved = sv /\ e.font = f
  BY <1>6, <1>8, <1>9, <1>11 DEF Moves
<1>16. QED
  BY <1>11, <1>12, <1>13, <1>14, <1>15 DEF Leaves, fs, sv, f, x

\* A packet that is at its end, and the frame that it returns to.
Ending(d) ==
  /\ d.status = "page" /\ Len(d.frames) > 1
  /\ d.frames[Len(d.frames)].pc > Len(d.frames[Len(d.frames)].code)

LEMMA EndingIs ==
  ASSUME NEW d \in State, OnPage(d, Top(d).pc - 1), Ending(d), NEW n, n = Len(d.frames)
  PROVE  /\ n \in Nat /\ n > 1 /\ n \in 1..n /\ d.frames # << >> /\ d.stack # << >> /\ d.saved # << >>
         /\ d.lr.mode = Left /\ d.lr.widths = << >> /\ ~Turning(d.doc) /\ ~Skims(d)
         /\ Len(d.stack) = d.frames[n].below + 1 /\ d.frames[n].below \in Nat
         /\ Len(d.saved) = n - 1
<1>1. n \in Nat /\ n > 1 /\ n \in 1..n /\ d.frames # << >>
  <2>1. n \in Nat /\ (d.frames = << >> => n = 0)
    BY FramesLen
  <2>2. n > 1
    BY DEF Ending
  <2> HIDE DEF Ending
  <2>3. QED
    BY <2>1, <2>2
<1> DEFINE f == d.frames[n]
           c == f.code
           k == f.pc - 1
<1>2. f.pc \in Nat /\ c \in Seq(Instr) /\ f.below \in Nat
  BY <1>1, FrameAt
<1>3. Top(d) = f
  BY DEF Top, Last
<1>4. FrameOK(d, n, k)
  BY <1>1, <1>3 DEF OnPage
<1>5. k = Len(c)
  <2>1. Len(c) \in Nat /\ f.pc \in 1..Len(c) + 1
    BY <1>2, <1>4, LenProperties DEF FrameOK
  <2>2. f.pc > Len(c)
    BY DEF Ending
  <2> HIDE DEF f, c
  <2>3. QED
    BY <2>1, <2>2
<1>6. Open(c, k) = << >>
  <2>1. Pending(c) = << >>
    BY <1>1, <1>4 DEF FrameOK
  <2>2. QED
    BY <1>2, <1>5, <2>1, OpenWhole
<1>7. Len(d.stack) = f.below + 1
  <2>1. Count(Open(c, k), "push") = 0
    BY <1>6, CountEmpty
  <2>2. Ran(d, n, k) = k /\ Depth(d, n) = Len(d.stack) /\ Base(d, n) = f.below + 1
    BY <1>1 DEF Ran, Depth, Base
  <2>3. Len(d.stack) = f.below + 1 + 0
    BY <1>4, <2>1, <2>2 DEF FrameOK
  <2>4. QED
    BY <1>2, <2>3
<1>8. d.stack # << >>
  <2>1. d.stack = << >> => Len(d.stack) = 0
    BY EmptySeq
  <2>2. Len(d.stack) # 0
    BY <1>2, <1>7
  <2>3. QED
    BY <2>1, <2>2, Zenon
<1>9. Len(d.saved) = n - 1 /\ d.saved # << >>
  <2>1. n = Len(d.saved) + 1
    BY DEF OnPage
  <2>2. Len(d.saved) \in Nat
    BY StateFields, LenProperties DEF Saves
  <2>3. d.saved = << >> => Len(d.saved) = 0
    BY EmptySeq
  <2>4. Len(d.saved) = n - 1 /\ Len(d.saved) # 0
    BY <1>1, <2>1, <2>2
  <2>5. QED
    BY <2>3, <2>4, Zenon
<1>10. ~Turning(d.doc) /\ d.lr.mode = Left /\ ~Skims(d) /\ d.lr.widths = << >>
  <2> DEFINE p == Open(d.frames[1].code, Ran(d, 1, k))
  <2>1. TurnsOK(d, k)
    BY <1>3 DEF OnPage
  <2>2. ~Turning(d.doc)
    BY <1>1, <2>1 DEF TurnsOK
  <2>3. Count(p, "breflect") = 0 /\ d.lr.mode = Count(p, "breflect") % 2 /\ ~Skims(d)
        /\ Len(d.lr.widths) = Count(p, "breflect")
    BY <2>1, <2>2 DEF TurnsOK
  <2> HIDE DEF p
  <2>4. d.lr.mode = 0 % 2 /\ Len(d.lr.widths) = 0
    BY <2>3
  <2>5. d.lr.widths = << >>
    BY <2>4, LrFields, EmptySeq
  <2>6. QED
    BY <2>2, <2>3, <2>4, <2>5 DEF Left
<1>11. QED
  BY <1>1, <1>2, <1>7, <1>8, <1>9, <1>10

LEMMA LeaveKeeps ==
  ASSUME NEW d \in State, OnPage(d, Top(d).pc - 1), Ending(d), NEW e, e = LeaveVf(d)
  PROVE  /\ e \in State /\ Leaves(d, e) /\ OnPage(e, Top(e).pc - 1)
         /\ Len(e.frames) = Len(d.frames) - 1 /\ \A j \in 1..Len(d.frames) - 1 : e.frames[j] = d.frames[j]
<1> DEFINE n == Len(d.frames)
           k == Top(d).pc - 1
<1>1. /\ n \in Nat /\ n > 1 /\ n \in 1..n /\ d.frames # << >> /\ d.stack # << >> /\ d.saved # << >>
      /\ d.lr.mode = Left /\ ~Turning(d.doc) /\ ~Skims(d)
      /\ Len(d.stack) = d.frames[n].below + 1 /\ d.frames[n].below \in Nat
      /\ Len(d.saved) = n - 1
  BY EndingIs
<1>2. e \in State /\ Leaves(d, e)
  BY <1>1, LeaveVfIs DEF Ending
<1>3. /\ e.doc = d.doc /\ e.lr = d.lr
      /\ e.frames = Front(d.frames) /\ e.stack = Front(d.stack) /\ e.saved = Front(d.saved)
  BY <1>2 DEF Leaves, SamePage
<1>4. Len(e.frames) = n - 1 /\ \A j \in 1..n - 1 : e.frames[j] = d.frames[j]
  <2>1. d.frames \in Seq(Frame)
    BY FramesLen
  <2>2. Len(Front(d.frames)) = Len(d.frames) - 1
        /\ \A j \in 1..Len(d.frames) - 1 : Front(d.frames)[j] = d.frames[j]
    BY <1>1, <2>1, FrontLast
  <2>3. QED
    BY <1>3, <2>2
<1>5. Len(e.stack) = d.frames[n].below
  <2>1. d.stack \in Seq(RegSet)
    BY StateFields DEF Stacks
  <2>2. Len(Front(d.stack)) = Len(d.stack) - 1
    BY <1>1, <2>1, FrontLast
  <2>3. QED
    BY <1>1, <1>3, <2>2
<1>6. Len(e.saved) = n - 2
  <2>1. d.saved \in Seq(AnyFont)
    BY StateFields DEF Saves
  <2>2. Len(Front(d.saved)) = Len(d.saved) - 1
    BY <1>1, <2>1, FrontLast
  <2>3. QED
    BY <1>1, <1>3, <2>2
<1> DEFINE j2 == n - 1
           k2 == e.frames[j2].pc - 1
<1>7. Top(e).pc - 1 = k2
  BY <1>4 DEF Top, Last
<1>8. ASSUME NEW j \in 1..n - 1 PROVE FrameOK(e, j, k2)
  <2>1. j \in 1..n /\ j # n /\ e.frames[j] = d.frames[j]
    <3>1. j \in 1..n /\ j # n
      <4> HIDE DEF n
      <4>1. QED
        BY <1>1
    <3>2. QED
      BY <1>4, <3>1
  <2>2. FrameOK(d, j, k)
    BY <2>1 DEF OnPage
  <2>3. Ran(e, j, k2) = Ran(d, j, k)
    <3>1. Ran(d, j, k) = d.frames[j].pc - 1
      BY <2>1 DEF Ran
    <3>2. Ran(e, j, k2) = e.frames[j].pc - 1
      BY <1>4 DEF Ran
    <3>3. QED
      BY <2>1, <3>1, <3>2
  <2>4. Depth(e, j) = Depth(d, j)
    <3>1. CASE j = n - 1
      <4>1. j + 1 = n
        <5> HIDE DEF n
        <5>1. QED
          BY <1>1, <3>1
      <4>2. Depth(d, j) = d.frames[n].below /\ Depth(e, j) = Len(e.stack)
        BY <1>4, <2>1, <3>1, <4>1 DEF Depth
      <4>3. QED
        BY <1>5, <4>2
    <3>2. CASE j # n - 1
      <4>1. j + 1 \in 1..n - 1
        <5> HIDE DEF n
        <5>1. QED
          BY <1>1, <3>2
      <4>2. Depth(d, j) = d.frames[j + 1].below /\ Depth(e, j) = e.frames[j + 1].below
        BY <1>4, <2>1, <3>2 DEF Depth
      <4>3. QED
        BY <1>4, <4>1, <4>2
    <3>3. QED
      BY <3>1, <3>2
  <2>5. Base(e, j) = Base(d, j)
    BY <2>1 DEF Base
  <2> HIDE DEF k, k2, n
  <2>6. QED
    BY <1>3, <2>1, <2>2, <2>3, <2>4, <2>5 DEF FrameOK
<1>9. TurnsOK(e, k2)
  <2>1. 1 \in 1..n - 1 /\ 1 # n
    <3> HIDE DEF n
    <3>1. QED
      BY <1>1
  <2>2. e.frames[1] = d.frames[1]
    BY <1>4, <2>1
  <2>3. Ran(e, 1, k2) = Ran(d, 1, k)
    <3>1. Ran(d, 1, k) = d.frames[1].pc - 1
      BY <2>1 DEF Ran
    <3>2. Ran(e, 1, k2) = e.frames[1].pc - 1
      BY <1>4 DEF Ran
    <3>3. QED
      BY <2>2, <3>1, <3>2
  <2>4. Skims(e) <=> Skims(d)
    BY <1>3 DEF Skims
  <2>5. TurnsOK(d, k)
    BY DEF OnPage
  <2> HIDE DEF k, k2, n
  <2>6. QED
    BY <1>1, <1>3, <2>2, <2>3, <2>4, <2>5 DEF TurnsOK
<1>10. Len(e.frames) = Len(e.saved) + 1
  <2> HIDE DEF n
  <2>1. QED
    BY <1>1, <1>4, <1>6
<1>11. OnPage(e, k2)
  BY <1>4, <1>8, <1>9, <1>10 DEF OnPage
<1>12. QED
  BY <1>2, <1>4, <1>7, <1>11
=============================================================================
