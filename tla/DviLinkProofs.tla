---------------------------- MODULE DviLinkProofs ----------------------------
(***************************************************************************)
(* Every glyph of a link is in one rectangle of that link and on one line:  *)
(* each operation of the interpreter, and each step of a page, keeps what   *)
(* DviProofs says of control and what LinkInv says of the links.            *)
(***************************************************************************)
EXTENDS DviProofs

(***************************************************************************)
(* Links: what the operations do to glyphs and rectangles.  A turn fits     *)
(* when it keeps the invariant and the depth that is marked.                *)
(***************************************************************************)
Fits(d) == LinkInv(d) /\ d.link.mark = PageDepth(d)
Tracks(d, e) == Fits(d) => Fits(e)

LEMMA TracksMore ==
  ASSUME NEW d, NEW e, NEW f, Tracks(d, e), Tracks(e, f)
  PROVE  Tracks(d, f)
BY DEF Tracks

LEMMA CoreSame ==
  ASSUME NEW d, NEW e, LinkCore(d), e.doc = d.doc, e.out = d.out, e.annots = d.annots, e.own = d.own,
         e.link.dict = d.link.dict, e.link.boxes = d.link.boxes, e.link.tag = d.link.tag,
         e.link.box = d.link.box
  PROVE  LinkCore(e)
<1>1. \A g : Covered(d, g) => Covered(e, g)
  <2>1. \A g : Rects(e, g) = Rects(d, g)
    BY DEF Rects
  <2>2. QED
    BY <2>1 DEF Covered
<1>2. \A glyphs : OneLine(d, glyphs) => OneLine(e, glyphs)
  BY DEF OneLine
<1>3. QED
  BY <1>1, <1>2 DEF LinkCore

LEMMA LinkSame ==
  ASSUME NEW d, NEW e, SameLinks(d, e), e.doc = d.doc, LinkInv(d)
  PROVE  LinkInv(e)
<1>1. LinkCore(e)
  BY CoreSame DEF SameLinks, LinkInv
<1>2. QED
  BY <1>1 DEF SameLinks, LinkInv, BoxInv

\* When nothing is collected, nothing depends on what link is open.
LEMMA CoreUnboxed ==
  ASSUME NEW d, NEW e, LinkCore(d), e.doc = d.doc, e.out = d.out, e.annots = d.annots,
         d.link.box = {}, e.link.box = {}, e.link.boxes <=> e.link.dict # NoLink,
         IF e.link.boxes THEN e.link.tag >= 1 ELSE e.link.tag = -1,
         e.link.boxes <=> e.own.annot_dict # NoLink \/ e.own.pending = "href",
         e.own.annot_dict # NoLink => Has(e.doc, "bann"), e.own.pending = "href" => Has(e.doc, "href")
  PROVE  LinkCore(e)
<1>1. \A g : Covered(d, g) => Covered(e, g)
  <2>1. \A g : Rects(e, g) = Rects(d, g)
    BY DEF Rects
  <2>2. QED
    BY <2>1 DEF Covered
<1>2. \A glyphs : OneLine(d, glyphs) => OneLine(e, glyphs)
  BY DEF OneLine
<1>3. QED
  BY <1>1, <1>2 DEF LinkCore

LEMMA PageDepthSame ==
  ASSUME NEW d \in State, NEW e \in State, Codes(d, e), Len(e.stack) = Len(d.stack)
  PROVE  PageDepth(e) = PageDepth(d)
<1>1. Len(e.frames) = Len(d.frames) /\ Len(d.frames) \in Nat
  BY FramesLen DEF Codes
<1>2. CASE InPacket(d)
  <2>1. 2 \in 1..Len(d.frames) /\ InPacket(e)
    BY <1>1, <1>2 DEF InPacket
  <2>2. e.frames[2].below = d.frames[2].below
    BY <2>1 DEF Codes, SameFrame
  <2>3. QED
    BY <1>2, <2>1, <2>2 DEF PageDepth
<1>3. CASE ~InPacket(d)
  <2>1. ~InPacket(e)
    BY <1>1, <1>3 DEF InPacket
  <2>2. QED
    BY <1>3, <2>1 DEF PageDepth
<1>4. QED
  BY <1>2, <1>3

LEMMA TracksSame ==
  ASSUME NEW d \in State, NEW e \in State, Codes(d, e), Len(e.stack) = Len(d.stack), SameLinks(d, e),
         e.doc = d.doc
  PROVE  Tracks(d, e)
<1>1. PageDepth(e) = PageDepth(d)
  BY PageDepthSame
<1>2. e.link = d.link
  BY DEF SameLinks
<1>3. QED
  BY <1>1, <1>2, LinkSame DEF Tracks, Fits

\* A turn that leaves the stacks and the direction of text as they are.
Ordinary(d, e) ==
  /\ SamePage(d, e) /\ Codes(d, e) /\ SameTurns(d, e) /\ e.status = d.status
  /\ e.stack = d.stack /\ e.saved = d.saved /\ e.font = d.font

LEMMA OrdinaryMore ==
  ASSUME NEW d, NEW e, NEW f, Ordinary(d, e), Ordinary(e, f)
  PROVE  Ordinary(d, f)
BY DEF Ordinary, SamePage, Codes, SameTurns, SameFrame

LEMMA MovesOrdinary ==
  ASSUME NEW d \in State, NEW e \in State, Moves(d, e)
  PROVE  Ordinary(d, e) /\ Tracks(d, e)
<1>1. Codes(d, e)
  BY DEF Moves, Codes, SameFrame
<1>2. Tracks(d, e)
  BY <1>1, TracksSame DEF Moves, SamePage
<1>3. QED
  BY <1>1, <1>2 DEF Moves, Ordinary

LEMMA LogOrdinary ==
  ASSUME NEW d \in State, NEW e \in State, NEW g, Stays(d, e), SameLinks(d, e), Logs(d, e, g)
  PROVE  Ordinary(d, e) /\ Tracks(d, e)
<1>1. Codes(d, e) /\ e.stack = d.stack /\ e.doc = d.doc
  BY DEF Logs, Stays, SamePage
<1>2. QED
  BY <1>1, TracksSame DEF Stays, Ordinary, SameTurns

LEMMA DrawsOrdinary ==
  ASSUME NEW d, NEW e, Draws(d, e)
  PROVE  Ordinary(d, e)
BY DEF Draws, Stays, Ordinary, SameTurns

LEMMA OrdinaryFrames ==
  ASSUME NEW d \in State, NEW e \in State, Ordinary(d, e), d.frames # << >>
  PROVE  e.frames # << >>
<1>1. Len(d.frames) >= 1 /\ Len(d.frames) \in Nat /\ Len(e.frames) = Len(d.frames)
  BY FramesLen DEF Ordinary, Codes
<1>2. QED
  BY <1>1, FramesLen

LEMMA TypesetTracks ==
  ASSUME NEW d \in State, NEW e \in State, NEW c, Shows(d, e, c)
  PROVE  Tracks(d, e)
<1>1. SUFFICES ASSUME Fits(d) PROVE Fits(e)
  BY DEF Tracks
<1> DEFINE n == Len(d.out) + 1
           l == Inside(d)
<1>2. LinkInv(d) /\ d.link.mark = PageDepth(d)
  BY <1>1 DEF Fits
<1>3. /\ e.link.dict = d.link.dict /\ e.link.on = d.link.on /\ e.link.boxes = d.link.boxes
      /\ e.link.tag = d.link.tag /\ e.link.mark = d.link.mark /\ e.own = d.own
      /\ e.annots = d.annots /\ e.line = d.line /\ e.doc = d.doc /\ e.stack = d.stack /\ Codes(d, e)
  BY DEF Shows, Stays, SameTracks, SamePage, Logs
<1>4. PageDepth(e) = PageDepth(d)
  BY <1>3, PageDepthSame
<1>5. e.out = Append(d.out, Shown(d, c)) /\ d.out \in Seq(OutGlyph) /\ e.out \in Seq(OutGlyph)
  BY StateFields DEF Shows, Outs
<1>6. DOMAIN d.out = 1..Len(d.out) /\ Len(d.out) \in Nat /\ DOMAIN e.out = 1..Len(e.out)
  BY <1>5, LenProperties
<1>7. Len(e.out) = n /\ e.out[n] = Shown(d, c) /\ \A g \in 1..Len(d.out) : e.out[g] = d.out[g]
  <2> HIDE DEF Shown
  <2> DEFINE x == Shown(d, c)
  <2>1. e.out = Append(d.out, x)
    BY <1>5
  <2> HIDE DEF x
  <2>2. x \in OutGlyph
    BY <1>5, <1>6, <2>1
  <2>3. QED
    BY <1>5, <2>1, <2>2, AppendProperties DEF x
<1>8. e.out[n].link = l /\ e.out[n].line = d.line
  BY <1>7 DEF Shown
<1>9. n \in Nat /\ n \notin DOMAIN d.out /\ DOMAIN e.out = DOMAIN d.out \cup {n}
      /\ \A g \in DOMAIN d.out : e.out[g] = d.out[g]
  BY <1>6, <1>7
<1>10. d.link.on \in BOOLEAN /\ d.link.boxes \in BOOLEAN /\ d.link.tag \in Int /\ d.link.mark \in Nat
       /\ d.link.dict \in Dict
  BY StateFields DEF LinkSet
<1>11. Tracking(d) <=> l # NoLink
  BY <1>2, <1>10 DEF LinkInv, LinkCore, BoxInv, Tracking, Inside
<1>12. l # NoLink => l = d.link.dict /\ d.link.on /\ d.link.mark >= d.link.tag /\ d.link.boxes
  BY <1>2, <1>10 DEF LinkInv, LinkCore, BoxInv, Inside
<1>13. e.link.box = IF Tracking(d) THEN d.link.box \cup {n} ELSE d.link.box
  BY DEF Shows
<1>14. d.link.box \subseteq DOMAIN d.out /\ n \notin d.link.box
       /\ \A a \in DOMAIN d.annots : d.annots[a].glyphs \subseteq DOMAIN d.out
  BY <1>2, <1>9 DEF LinkInv, LinkCore, BoxInv
<1> HIDE DEF n, l
<1>15. \A g \in DOMAIN d.out : Rects(e, g) = Rects(d, g)
  BY <1>3 DEF Rects
<1>16. Rects(e, n) = {}
  BY <1>3, <1>9, <1>14 DEF Rects
<1>17. \A g \in DOMAIN d.out : g \in e.link.box <=> g \in d.link.box
  BY <1>9, <1>13
<1>18. ASSUME NEW g \in DOMAIN e.out PROVE Covered(e, g)
  <2>1. CASE g = n
    BY <2>1, <1>3, <1>8, <1>11, <1>12, <1>13, <1>14, <1>16 DEF Covered
  <2>2. CASE g # n
    <3>1. g \in DOMAIN d.out
      BY <1>9, <2>2
    <3>2. Covered(d, g)
      BY <1>2, <3>1 DEF LinkInv, LinkCore, BoxInv
    <3>3. QED
      BY <1>3, <1>9, <1>15, <1>17, <3>1, <3>2 DEF Covered
  <2>3. QED
    BY <2>1, <2>2
<1>19. \A g \in e.link.box : e.out[g].line = e.line
  BY <1>2, <1>3, <1>8, <1>9, <1>13, <1>14 DEF LinkInv, LinkCore, BoxInv
<1>20. e.link.box \subseteq DOMAIN e.out
  BY <1>9, <1>13, <1>14
<1>21. e.link.box # {} => e.link.on /\ e.link.mark >= e.link.tag
  <2>1. CASE Tracking(d)
    BY <1>3, <1>11, <1>12, <2>1
  <2>2. CASE ~Tracking(d)
    <3>1. e.link.box = d.link.box
      BY <1>13, <2>2
    <3>2. QED
      BY <1>2, <1>3, <3>1 DEF LinkInv, LinkCore, BoxInv
  <2>3. QED
    BY <2>1, <2>2
<1>22. IF e.link.boxes THEN e.link.tag >= 1 ELSE e.link.tag = -1 /\ e.link.box = {}
  BY <1>2, <1>3, <1>11, <1>12, <1>13 DEF LinkInv, LinkCore, BoxInv
<1>23. ASSUME NEW a \in DOMAIN e.annots
       PROVE  e.annots[a].glyphs \subseteq DOMAIN e.out /\ OneLine(e, e.annots[a].glyphs)
  <2>1. a \in DOMAIN d.annots /\ d.annots[a].glyphs \subseteq DOMAIN d.out
        /\ OneLine(d, d.annots[a].glyphs) /\ e.annots[a] = d.annots[a]
    BY <1>2, <1>3 DEF LinkInv, LinkCore, BoxInv
  <2>2. QED
    BY <1>9, <2>1 DEF OneLine
<1>24. /\ e.link.boxes <=> e.link.dict # NoLink
       /\ e.link.boxes <=> e.own.annot_dict # NoLink \/ e.own.pending = "href"
       /\ e.own.annot_dict # NoLink => Has(e.doc, "bann")
       /\ e.own.pending = "href" => Has(e.doc, "href")
  BY <1>2, <1>3 DEF LinkInv, LinkCore, BoxInv
<1>25. LinkInv(e)
  <2>1. OneLine(e, e.link.box)
    BY <1>19 DEF OneLine
  <2>2. QED
    BY <1>18, <1>19, <1>20, <1>21, <1>22, <1>23, <1>24, <2>1 DEF LinkInv, LinkCore, BoxInv
<1>26. QED
  BY <1>2, <1>3, <1>4, <1>25 DEF Fits

LEMMA TypesetAtTracks ==
  ASSUME NEW d \in State, d.frames # << >>, NEW g, g.x \in Int, g.char \in Char, NEW e,
         e = TypesetAt(d, g)
  PROVE  Tracks(d, e)
<1>1. e \in State /\ Draws(d, e)
  BY TypesetAtIs
<1>2. PICK m \in State, r \in State : AtPlace(d, m, r, e, g.x, g.char)
  BY TypesetAtIs
<1>2a. /\ m = [d EXCEPT !.h = @ + g.x] /\ e = [r EXCEPT !.h = d.h] /\ Shows(m, r, g.char)
       /\ SameLinks(r, e) /\ e.frames = r.frames /\ SameLinks(d, m) /\ m.frames = d.frames
       /\ m.stack = d.stack
  BY <1>2 DEF AtPlace
<1>3. m.doc = d.doc /\ e.doc = r.doc /\ e.stack = r.stack
  BY <1>2a DEF State
<1>4. Codes(d, m) /\ Codes(r, e)
  BY <1>2a DEF Codes, SameFrame
<1>5. Tracks(d, m) /\ Tracks(r, e)
  BY <1>1, <1>2a, <1>3, <1>4, TracksSame
<1>6. Tracks(m, r)
  BY <1>2a, TypesetTracks
<1>7. QED
  BY <1>5, <1>6 DEF Tracks

LEMMA TypesetAllTracks ==
  ASSUME NEW d \in State, d.frames # << >>, NEW glyphs \in GlyphRun, NEW e, e = TypesetAll(d, glyphs)
  PROVE  Tracks(d, e)
<1> DEFINE n == Len(glyphs)
<1>1. n \in Nat /\ \A k \in 1..n : glyphs[k].x \in Int /\ glyphs[k].char \in Char
  <2>1. n \in Nat /\ \A k \in 1..n : glyphs[k] \in [x : Int, char : Char]
    BY LenProperties, ElementOfSeq DEF GlyphRun
  <2>2. QED
    BY <2>1
<1>2. PICK h : AllRun(h, d, glyphs, n) /\ e = h[n]
  BY <1>1, AllRuns
<1> HIDE DEF n
<1> DEFINE T == {k \in Nat : k <= n => h[k] \in State /\ Tracks(d, h[k]) /\ h[k].frames # << >>}
<1>3. 0 \in T
  <2>1. h[0] = d
    BY <1>2 DEF AllRun
  <2>2. QED
    BY <2>1 DEF Tracks
<1>4. ASSUME NEW k \in Nat, k < n, k \in T PROVE k + 1 \in T
  <2>1. k + 1 \in 1..n /\ (k + 1) - 1 = k /\ k <= n
    BY <1>1, <1>4
  <2>2. h[k + 1] = TypesetAt(h[k], glyphs[k + 1])
    BY <1>2, <2>1 DEF AllRun
  <2>3. h[k] \in State /\ Tracks(d, h[k]) /\ h[k].frames # << >>
    BY <1>4, <2>1
  <2> DEFINE p == h[k]
             q == h[k + 1]
             g == glyphs[k + 1]
  <2>4. g.x \in Int /\ g.char \in Char
    BY <1>1, <2>1
  <2> HIDE DEF p, q, g
  <2>5. p \in State /\ p.frames # << >> /\ q = TypesetAt(p, g) /\ Tracks(d, p)
    BY <2>2, <2>3 DEF p, q, g
  <2>6. q \in State /\ Tracks(p, q) /\ q.frames # << >>
    BY <2>4, <2>5, TypesetAtIs, TypesetAtTracks
  <2>7. Tracks(d, q)
    BY <2>5, <2>6, TracksMore
  <2>8. QED
    BY <2>6, <2>7 DEF q
<1> HIDE DEF T
<1>5. \A k \in 0..n : k \in T
  BY <1>1, <1>3, <1>4, UpTo
<1>6. n \in T
  BY <1>1, <1>5
<1>7. QED
  BY <1>1, <1>2, <1>6 DEF T

(***************************************************************************)
(* Control and links: the operations.                                       *)
(***************************************************************************)
Does(d, e) == e \in State /\ Ordinary(d, e) /\ Tracks(d, e)

LEMMA DoesMore ==
  ASSUME NEW d, NEW e, NEW f, Does(d, e), Does(e, f)
  PROVE  Does(d, f)
BY OrdinaryMore, TracksMore DEF Does

LEMMA DoesFrames ==
  ASSUME NEW d \in State, NEW e, Does(d, e), d.frames # << >>
  PROVE  e \in State /\ e.frames # << >> /\ e.lr.mode = d.lr.mode /\ e.font = d.font
BY OrdinaryFrames DEF Does, Ordinary, SameTurns

LEMMA MoveRightDoes ==
  ASSUME NEW d \in State, NEW x \in Int
  PROVE  Does(d, MoveRight(d, x))
BY MoveRightIs, MovesOrdinary DEF Does

LEMMA AfterSetDoes ==
  ASSUME NEW d \in State, NEW x \in Int
  PROVE  Does(d, AfterSet(d, x))
<1>1. Does(d, d)
  BY DEF Does, Ordinary, Tracks, SamePage, Codes, SameTurns, SameFrame
<1>2. QED
  BY <1>1, MoveRightDoes DEF AfterSet

LEMMA LogDoes ==
  ASSUME NEW d \in State, d.frames # << >>, NEW c \in Char \cup {Rule}
  PROVE  Does(d, Log(d, c))
BY LogIs, LogOrdinary DEF Does

LEMMA TypesetDoes ==
  ASSUME NEW d \in State, d.frames # << >>, NEW c \in Char
  PROVE  Does(d, Typeset(d, c))
<1> DEFINE e == Typeset(d, c)
<1>1. e \in State /\ Shows(d, e, c)
  BY TypesetIs
<1> HIDE DEF e
<1>2. Tracks(d, e)
  BY <1>1, TypesetTracks
<1>3. Ordinary(d, e)
  BY <1>1, DrawsOrdinary DEF Shows, Draws, Logs
<1>4. QED
  BY <1>1, <1>2, <1>3 DEF Does, e

LEMMA TypesetAllDoes ==
  ASSUME NEW d \in State, d.frames # << >>, NEW glyphs \in GlyphRun
  PROVE  Does(d, TypesetAll(d, glyphs))
BY TypesetAllIs, TypesetAllTracks, DrawsOrdinary DEF Does

LEMMA SetRuleDoes ==
  ASSUME NEW d \in State, d.frames # << >>, NEW w \in Int
  PROVE  Does(d, SetRule(d, w))
<1> DEFINE l == Log(d, Rule)
           r == MoveRight(d, w)
<1>1. Does(d, l) /\ Does(l, MoveRight(l, w))
  BY LogDoes, MoveRightDoes DEF Does
<1>2. Does(d, r) /\ Does(r, Log(r, Rule))
  <2>1. Does(d, r)
    BY MoveRightDoes
  <2> HIDE DEF r
  <2>2. r \in State /\ r.frames # << >>
    BY <2>1, DoesFrames
  <2>3. QED
    BY <2>1, <2>2, LogDoes
<1> HIDE DEF l, r
<1>3. Does(d, MoveRight(l, w)) /\ Does(d, Log(r, Rule))
  BY <1>1, <1>2, DoesMore
<1>4. SetRule(d, w) \in {r, MoveRight(l, w), Log(r, Rule)}
  BY DEF SetRule, l, r
<1>5. QED
  BY <1>2, <1>3, <1>4

LEMMA SetGlyphsDoes ==
  ASSUME NEW d \in State, d.frames # << >>, NEW glyphs \in GlyphRun, NEW w \in Int,
         NEW e, e = SetGlyphs(d, glyphs, w)
  PROVE  (e \in State /\ Fails(d, e)) \/ Does(d, e)
<1> DEFINE r == IF d.lr.mode = Right THEN MoveRight(d, w) ELSE d
           t == TypesetAll(r, glyphs)
<1>1. CASE d.font = NoFont
  <2>1. e = Fail(d)
    BY <1>1 DEF SetGlyphs
  <2>2. QED
    BY <2>1, FailIs
<1>2. CASE d.font # NoFont /\ Skims(d)
  <2>1. e = MoveRight(d, w)
    BY <1>2 DEF SetGlyphs
  <2>2. QED
    BY <2>1, MoveRightDoes
<1>3. CASE d.font # NoFont /\ ~Skims(d)
  <2>1. e = AfterSet(t, w)
    BY <1>3 DEF SetGlyphs
  <2>2. Does(d, r) /\ r \in State /\ r.frames # << >>
    <3>1. Does(d, MoveRight(d, w)) /\ Does(d, d)
      BY MoveRightDoes DEF Does, Ordinary, Tracks, SamePage, Codes, SameTurns, SameFrame
    <3>2. Does(d, r)
      BY <3>1
    <3> HIDE DEF r
    <3>3. QED
      BY <3>2, DoesFrames
  <2> HIDE DEF r
  <2>3. Does(r, t) /\ t \in State
    BY <2>2, TypesetAllDoes DEF Does
  <2> HIDE DEF t
  <2>4. Does(t, e)
    BY <2>1, <2>3, AfterSetDoes
  <2>5. QED
    BY <2>2, <2>3, <2>4, DoesMore
<1>4. QED
  BY <1>1, <1>2, <1>3

(***************************************************************************)
(* Links: breaking the rectangle.                                           *)
(***************************************************************************)
SameLink(d, e) ==
  /\ e.link.dict = d.link.dict /\ e.link.on = d.link.on /\ e.link.boxes = d.link.boxes
  /\ e.link.tag = d.link.tag /\ e.own = d.own /\ e.line = d.line

LEMMA LinkFields ==
  ASSUME NEW d \in State
  PROVE  /\ d.link.dict \in Dict /\ d.link.on \in BOOLEAN /\ d.link.boxes \in BOOLEAN
         /\ d.link.tag \in Int /\ d.link.mark \in Nat /\ d.link.box \in SUBSET Nat
         /\ d.link.broken \in BOOLEAN
BY StateFields DEF LinkSet

LEMMA RelinkIs ==
  ASSUME NEW d \in State, NEW l \in LinkSet, NEW e, e = [d EXCEPT !.link = l]
  PROVE  /\ e \in State /\ Relinks(d, e) /\ e.link = l /\ e.own = d.own /\ e.annots = d.annots
         /\ e.line = d.line
BY DEF State, Relinks, SamePage, SamePlace

LEMMA RelinksMore ==
  ASSUME NEW d, NEW e, NEW f, Relinks(d, e), Relinks(e, f)
  PROVE  Relinks(d, f)
BY DEF Relinks, SamePage, SamePlace

LEMMA BreakIs ==
  ASSUME NEW d \in State, NEW e, e = BreakAnnot(d)
  PROVE  /\ e \in State /\ Relinks(d, e) /\ SameLink(d, e) /\ e.link.mark = d.link.mark
         /\ e.link.box = {}
         /\ d.link.box # {} =>
              e.annots = Append(d.annots, [link |-> d.link.dict, glyphs |-> d.link.box,
                                           first |-> ~d.link.broken])
         /\ d.link.box = {} => e.annots = d.annots
<1>1. CASE d.link.box = {}
  BY <1>1 DEF BreakAnnot, Relinks, SameLink, SamePage, SamePlace
<1>2. CASE d.link.box # {}
  <2> DEFINE a == [link |-> d.link.dict, glyphs |-> d.link.box, first |-> ~d.link.broken]
             s1 == Append(d.annots, a)
             d1 == [d EXCEPT !.annots = s1]
             l1 == [d.link EXCEPT !.box = {}]
             l == [l1 EXCEPT !.broken = TRUE]
  <2>1. a \in Annot
    BY LinkFields DEF Annot
  <2>2. s1 \in Annots
    BY <2>1, StateFields, AppendProperties DEF Annots
  <2>3. e = [d1 EXCEPT !.link = l]
    BY <1>2 DEF BreakAnnot
  <2>4. s1 = Append(d.annots, [link |-> d.link.dict, glyphs |-> d.link.box, first |-> ~d.link.broken])
    OBVIOUS
  <2> HIDE DEF s1
  <2>5. /\ d1 \in State /\ Relinks(d, d1) /\ d1.link = d.link /\ d1.own = d.own /\ d1.annots = s1
        /\ d1.line = d.line
    BY <2>2 DEF State, Relinks, SamePage, SamePlace
  <2> HIDE DEF d1
  <2>6. /\ l \in LinkSet /\ l.box = {} /\ l.dict = d.link.dict /\ l.on = d.link.on
        /\ l.boxes = d.link.boxes /\ l.tag = d.link.tag /\ l.mark = d.link.mark
    BY StateFields DEF LinkSet
  <2> HIDE DEF l
  <2>7. /\ e \in State /\ Relinks(d1, e) /\ e.link = l /\ e.own = d1.own /\ e.annots = d1.annots
        /\ e.line = d1.line
    BY <2>3, <2>5, <2>6, RelinkIs
  <2>8. Relinks(d, e)
    BY <2>5, <2>7, RelinksMore
  <2>9. SameLink(d, e)
    BY <2>5, <2>6, <2>7 DEF SameLink
  <2>10. QED
    BY <1>2, <2>4, <2>5, <2>6, <2>7, <2>8, <2>9
<1>3. QED
  BY <1>1, <1>2

LEMMA BreakCore ==
  ASSUME NEW d \in State, LinkCore(d), NEW e, e = BreakAnnot(d)
  PROVE  LinkCore(e)
<1>1. /\ e \in State /\ Relinks(d, e) /\ SameLink(d, e) /\ e.link.box = {}
      /\ d.link.box = {} => e.annots = d.annots
  BY BreakIs
<1>2. CASE d.link.box = {}
  BY <1>1, <1>2, CoreSame DEF Relinks, SameLink, SamePage
<1>3. CASE d.link.box # {}
  <2> DEFINE a == [link |-> d.link.dict, glyphs |-> d.link.box, first |-> ~d.link.broken]
             m == Len(d.annots) + 1
  <2>1. e.annots = Append(d.annots, a)
    BY <1>3, BreakIs
  <2>2. a \in Annot /\ a.link = d.link.dict /\ a.glyphs = d.link.box
    BY LinkFields DEF Annot
  <2> HIDE DEF a
  <2>3. d.annots \in Seq(Annot) /\ e.annots \in Seq(Annot)
    BY <1>1, StateFields DEF Annots
  <2>4. /\ Len(e.annots) = m /\ e.annots[m] = a /\ \A x \in 1..Len(d.annots) : e.annots[x] = d.annots[x]
    BY <2>1, <2>2, <2>3, AppendProperties
  <2>5. /\ m \notin DOMAIN d.annots /\ DOMAIN e.annots = DOMAIN d.annots \cup {m}
        /\ \A x \in DOMAIN d.annots : e.annots[x] = d.annots[x]
    BY <2>3, <2>4, LenProperties
  <2> HIDE DEF m
  <2>6. e.out = d.out /\ e.doc = d.doc /\ e.link.dict = d.link.dict /\ e.link.tag = d.link.tag
        /\ e.own = d.own /\ e.link.boxes = d.link.boxes
    BY <1>1 DEF Relinks, SameLink, SamePage
  <2>7. \A g : Rects(e, g) = IF g \in d.link.box THEN Rects(d, g) \cup {m} ELSE Rects(d, g)
    BY <2>2, <2>4, <2>5 DEF Rects
  <2>8. ASSUME NEW g \in DOMAIN e.out PROVE Covered(e, g)
    <3>1. Covered(d, g)
      BY <2>6 DEF LinkCore
    <3>2. CASE g \in d.link.box
      <4>1. Rects(d, g) = {} /\ d.out[g].link # NoLink /\ d.link.dict = d.out[g].link
        BY <3>1, <3>2 DEF Covered
      <4>2. Rects(e, g) = {m} /\ e.annots[m].link = d.link.dict
        BY <2>2, <2>4, <2>7, <3>2, <4>1
      <4>3. QED
        BY <1>1, <2>6, <4>1, <4>2 DEF Covered
    <3>3. CASE g \notin d.link.box
      <4>1. Rects(e, g) = Rects(d, g) /\ \A x \in Rects(d, g) : e.annots[x] = d.annots[x]
        BY <2>5, <2>7, <3>3 DEF Rects
      <4>2. QED
        BY <1>1, <2>6, <3>1, <3>3, <4>1 DEF Covered
    <3>4. QED
      BY <3>2, <3>3
  <2>9. ASSUME NEW x \in DOMAIN e.annots
        PROVE  e.annots[x].glyphs \subseteq DOMAIN e.out /\ OneLine(e, e.annots[x].glyphs)
    <3>1. CASE x = m
      BY <2>2, <2>4, <2>6, <3>1 DEF LinkCore, OneLine
    <3>2. CASE x \in DOMAIN d.annots
      BY <2>5, <2>6, <3>2 DEF LinkCore, OneLine
    <3>3. QED
      BY <2>5, <3>1, <3>2
  <2>10. e.link.box \subseteq DOMAIN e.out /\ OneLine(e, e.link.box)
    BY <1>1 DEF OneLine
  <2>11. QED
    BY <1>1, <2>6, <2>8, <2>9, <2>10 DEF LinkCore
<1>4. QED
  BY <1>2, <1>3

\* The text returns to above the depth at which a link began.
Returns(d) == d.link.on /\ d.link.mark = d.link.tag /\ Len(d.stack) = d.link.tag - 1

LEMMA MarkIs ==
  ASSUME NEW d \in State, LinkCore(d), NEW e, e = MarkDepth(d)
  PROVE  /\ e \in State /\ Relinks(d, e) /\ SameLink(d, e) /\ LinkCore(e)
         /\ e.link.mark = Len(d.stack)
         /\ e.link.box = IF Returns(d) THEN {} ELSE d.link.box
<1> DEFINE m == IF Returns(d) THEN BreakAnnot(d) ELSE d
           l == [m.link EXCEPT !.mark = Len(d.stack)]
<1>1. Len(d.stack) \in Nat
  BY StateFields, LenProperties DEF Stacks
<1>2. /\ m \in State /\ Relinks(d, m) /\ SameLink(d, m) /\ LinkCore(m)
      /\ m.link.box = IF Returns(d) THEN {} ELSE d.link.box
  <2>1. CASE Returns(d)
    <3>1. m = BreakAnnot(d)
      BY <2>1
    <3> HIDE DEF m
    <3>2. QED
      BY <2>1, <3>1, BreakIs, BreakCore
  <2>2. CASE ~Returns(d)
    BY <2>2 DEF Relinks, SameLink, SamePage, SamePlace
  <2>3. QED
    BY <2>1, <2>2
<1>3. e = [m EXCEPT !.link = l]
  BY DEF MarkDepth, Returns
<1> HIDE DEF m
<1>4. /\ l \in LinkSet /\ l.mark = Len(d.stack) /\ l.dict = m.link.dict /\ l.on = m.link.on
      /\ l.boxes = m.link.boxes /\ l.tag = m.link.tag /\ l.box = m.link.box
  BY <1>1, <1>2, StateFields DEF LinkSet
<1> HIDE DEF l
<1>5. /\ e \in State /\ Relinks(m, e) /\ e.link = l /\ e.own = m.own /\ e.annots = m.annots
      /\ e.line = m.line
  BY <1>2, <1>3, <1>4, RelinkIs
<1>6. Relinks(d, e)
  BY <1>2, <1>5, RelinksMore
<1>7. SameLink(d, e)
  BY <1>2, <1>4, <1>5 DEF SameLink
<1>8. LinkCore(e)
  BY <1>2, <1>4, <1>5, CoreSame DEF Relinks, SamePage
<1>9. QED
  BY <1>2, <1>4, <1>5, <1>6, <1>7, <1>8

\* PUSH and POP of the page.
Stacks1(d, e) ==
  /\ e.status = "page" /\ e.frames = d.frames /\ e.font = d.font /\ e.out = d.out
  /\ e.lr.mode = d.lr.mode /\ e.lr.state = d.lr.state
Pushes(d, e) ==
  /\ Stacks1(d, e) /\ SamePlace(d, e) /\ e.stack = Append(d.stack, Regs(d))
  /\ Len(e.stack) = Len(d.stack) + 1
  /\ IF Skims(d) THEN e.lr.widths = Append(d.lr.widths, d.lr.width) /\ e.lr.width = d.lr.width
     ELSE e.lr = d.lr
Pops(d, e) ==
  /\ Stacks1(d, e) /\ e.stack = Front(d.stack) /\ Len(e.stack) = Len(d.stack) - 1
  /\ Regs(e) = Last(d.stack)
  /\ IF Skims(d) THEN e.lr.widths = Front(d.lr.widths) /\ e.lr.width = Last(d.lr.widths)
     ELSE e.lr = d.lr
Marks(d, e) ==
  /\ e \in State /\ SamePage(d, e) /\ LinkInv(e) /\ e.link.mark = Len(e.stack) /\ e.saved = d.saved

LEMMA PushOpIs ==
  ASSUME NEW d \in State, d.status = "page", LinkInv(d), d.link.mark = Len(d.stack),
         NEW e, e = PushOp(d)
  PROVE  /\ Marks(d, e)
         /\ \/ e.stack = d.stack /\ e.status = "failed"
            \/ /\ Len(d.stack) < StackMax /\ Len(e.stack) = Len(d.stack) + 1
               /\ e.status = "failed" \/ Pushes(d, e)
<1> DEFINE p == Push(d)
           w == IF Skims(d) THEN WidthPush(p) ELSE p
<1>1. e = MarkDepth(w)
  BY DEF PushOp
<1>2. StackMax \in Nat /\ Len(d.stack) \in Nat
  BY DviAssumption, StateFields, LenProperties DEF Stacks
<1>3. /\ p \in State
      /\ Len(d.stack) >= StackMax => Fails(d, p)
      /\ Len(d.stack) < StackMax =>
           /\ Restacks(d, p) /\ SamePlace(d, p)
           /\ p.stack = Append(d.stack, Regs(d)) /\ Len(p.stack) = Len(d.stack) + 1
  BY PushIs
<1> HIDE DEF p
<1>4. /\ w \in State /\ SamePage(p, w) /\ SameLinks(p, w) /\ w.stack = p.stack /\ w.saved = p.saved
      /\ w.frames = p.frames /\ SamePlace(p, w) /\ w.font = p.font
      /\ w.status # p.status => w.status = "failed"
      /\ ~Skims(d) => w = p
      /\ Skims(d) /\ w.status = "page" /\ p.status = "page" =>
           /\ w.lr.mode = p.lr.mode /\ w.lr.state = p.lr.state
           /\ w.lr.width = p.lr.width /\ w.lr.widths = Append(p.lr.widths, p.lr.width)
  <2>1. CASE Skims(d)
    <3>1. w = WidthPush(p)
      BY <2>1
    <3> HIDE DEF w
    <3>2. QED
      BY <1>3, <2>1, <3>1, WidthPushIs DEF Fails
  <2>2. CASE ~Skims(d)
    BY <1>3, <2>2 DEF SamePage, SameLinks, SamePlace
  <2>3. QED
    BY <2>1, <2>2
<1> HIDE DEF w
<1>5. SamePage(d, p) /\ SameLinks(d, p) /\ p.saved = d.saved
  BY <1>2, <1>3 DEF Fails, Restacks
<1>6. SamePage(d, w) /\ SameLinks(d, w) /\ w.saved = d.saved /\ w.doc = d.doc
  BY <1>4, <1>5 DEF SamePage, SameLinks
<1>7. LinkInv(w)
  BY <1>6, LinkSame
<1>8. Len(w.stack) >= Len(d.stack) /\ Len(w.stack) \in Nat
  BY <1>2, <1>3, <1>4 DEF Fails
<1>9. ~Returns(w)
  <2>1. w.link.mark = Len(d.stack)
    BY <1>6 DEF SameLinks
  <2> DEFINE x == Len(w.stack)
             y == Len(d.stack)
             t == w.link.tag
  <2>2. x >= y /\ x \in Nat /\ y \in Nat /\ t \in Int
    BY <1>2, <1>4, <1>8, LinkFields
  <2> HIDE DEF x, y, t
  <2>3. ~(y = t /\ x = t - 1)
    BY <2>2
  <2>4. QED
    BY <2>1, <2>3 DEF Returns, x, y, t
<1>10. /\ e \in State /\ Relinks(w, e) /\ SameLink(w, e) /\ LinkCore(e) /\ e.link.mark = Len(w.stack)
       /\ e.link.box = w.link.box
  BY <1>1, <1>4, <1>7, <1>9, MarkIs DEF LinkInv
<1>11. LinkInv(e)
  <2>1. BoxInv(w) /\ w.link.mark = Len(d.stack)
    BY <1>6, <1>7 DEF LinkInv, SameLinks
  <2> DEFINE x == Len(w.stack)
             y == Len(d.stack)
             t == w.link.tag
  <2>2. y >= t => x >= t
    <3>1. x >= y /\ x \in Nat /\ y \in Nat /\ t \in Int
      BY <1>2, <1>4, <1>8, LinkFields
    <3> HIDE DEF x, y, t
    <3>2. QED
      BY <3>1
  <2>3. e.link.on = w.link.on /\ e.link.tag = t /\ e.out = w.out /\ e.line = w.line
    BY <1>10 DEF SameLink, Relinks
  <2>4. BoxInv(e)
    BY <1>10, <2>1, <2>2, <2>3 DEF BoxInv
  <2>5. QED
    BY <1>10, <2>4 DEF LinkInv
<1>12. Marks(d, e)
  BY <1>6, <1>10, <1>11 DEF Marks, Relinks, SamePage
<1>13. CASE Len(d.stack) >= StackMax
  <2>1. p.status = "failed" /\ p.stack = d.stack
    BY <1>3, <1>13 DEF Fails
  <2>2. w.status = "failed" /\ w.stack = d.stack
    BY <1>4, <2>1
  <2>3. e.status = "failed" /\ e.stack = d.stack
    BY <1>10, <2>2 DEF Relinks
  <2>4. QED
    BY <1>12, <2>3, Zenon
<1>14. CASE ~(Len(d.stack) >= StackMax)
  <2>1. /\ Restacks(d, p) /\ SamePlace(d, p) /\ Len(d.stack) < StackMax
        /\ p.stack = Append(d.stack, Regs(d)) /\ Len(p.stack) = Len(d.stack) + 1
    BY <1>2, <1>3, <1>14
  <2>2. Len(e.stack) = Len(d.stack) + 1
    BY <1>4, <1>10, <2>1 DEF Relinks
  <2>3. ASSUME e.status # "failed" PROVE Pushes(d, e)
    <3>1. w.status = "page" /\ p.status = "page" /\ p.lr = d.lr
      BY <1>4, <1>10, <2>1, <2>3 DEF Relinks, Restacks
    <3>2. e.lr = w.lr /\ e.status = "page" /\ e.frames = w.frames /\ e.stack = w.stack /\ e.font = w.font
          /\ e.out = w.out /\ SamePlace(w, e)
      BY <1>10, <3>1 DEF Relinks
    <3>3. w.frames = d.frames /\ w.font = d.font /\ w.out = d.out /\ SamePlace(d, w)
      BY <1>4, <2>1, <1>6 DEF Restacks, SamePlace, SameLinks
    <3>4. SamePlace(d, e)
      BY <3>2, <3>3 DEF SamePlace
    <3>5. e.stack = Append(d.stack, Regs(d))
      BY <1>4, <2>1, <3>2
    <3>6. IF Skims(d) THEN e.lr.widths = Append(d.lr.widths, d.lr.width) /\ e.lr.width = d.lr.width
          ELSE e.lr = d.lr
      BY <1>4, <3>1, <3>2
    <3>7. e.lr.mode = d.lr.mode /\ e.lr.state = d.lr.state
      BY <1>4, <3>1, <3>2
    <3>8. QED
      BY <2>2, <3>2, <3>3, <3>4, <3>5, <3>6, <3>7 DEF Pushes, Stacks1
  <2>4. QED
    BY <1>12, <2>1, <2>2, <2>3
<1>15. QED
  BY <1>13, <1>14

LEMMA PopOpIs ==
  ASSUME NEW d \in State, d.status = "page", LinkInv(d), d.link.mark = Len(d.stack),
         d.stack # << >>, Skims(d) => d.lr.widths # << >>, NEW e, e = PopOp(d)
  PROVE  Marks(d, e) /\ Pops(d, e)
<1> DEFINE p == Pop(d)
           w == IF Skims(d) THEN WidthPop(p) ELSE p
           n == IF Len(d.stack) = d.link.tag THEN w.line + 1 ELSE w.line
           x == [w EXCEPT !.line = n]
<1>1. e = MarkDepth(x)
  BY DEF PopOp
<1>2. Len(d.stack) \in Nat /\ Len(d.stack) >= 1 /\ d.link.tag \in Int
  <2>1. d.stack \in Seq(RegSet)
    BY StateFields DEF Stacks
  <2>2. QED
    BY <2>1, FrontLast, LinkFields
<1>3. /\ p \in State /\ Restacks(d, p) /\ p.stack = Front(d.stack) /\ Len(p.stack) = Len(d.stack) - 1
      /\ Regs(p) = Last(d.stack)
  BY PopIs
<1> HIDE DEF p
<1>3a. p.lr = d.lr /\ p.status = "page"
  BY <1>3 DEF Restacks
<1>4. /\ w \in State /\ SamePage(p, w) /\ SameLinks(p, w) /\ w.stack = p.stack /\ w.saved = p.saved
      /\ w.frames = p.frames /\ SamePlace(p, w) /\ w.font = p.font /\ w.status = "page"
      /\ ~Skims(d) => w = p
      /\ Skims(d) =>
           /\ w.lr.mode = p.lr.mode /\ w.lr.state = p.lr.state
           /\ w.lr.width = Last(p.lr.widths) /\ w.lr.widths = Front(p.lr.widths)
  <2>1. CASE Skims(d)
    <3>1. w = WidthPop(p) /\ p.lr.widths # << >>
      BY <1>3a, <2>1
    <3> HIDE DEF w
    <3>2. QED
      BY <1>3, <1>3a, <2>1, <3>1, WidthPopIs DEF Reflects
  <2>2. CASE ~Skims(d)
    BY <1>3, <1>3a, <2>2 DEF SamePage, SameLinks, SamePlace
  <2>3. QED
    BY <2>1, <2>2
<1> HIDE DEF w
<1>5. n \in Nat
  BY <1>4, StateFields
<1>5a. n = d.line \/ Len(d.stack) = d.link.tag
  BY <1>3, <1>4 DEF Restacks, SameLinks
<1> HIDE DEF n
<1>6. /\ x \in State /\ x.link = w.link /\ x.own = w.own /\ x.out = w.out /\ x.annots = w.annots
      /\ x.line = n /\ x.stack = w.stack /\ x.saved = w.saved /\ x.lr = w.lr /\ x.status = w.status
      /\ x.frames = w.frames /\ SamePage(w, x) /\ SamePlace(w, x) /\ x.font = w.font
  BY <1>4, <1>5 DEF State, SamePage, SamePlace
<1> HIDE DEF x
<1>7. /\ SamePage(d, x) /\ x.link = d.link /\ x.own = d.own /\ x.out = d.out /\ x.annots = d.annots
      /\ x.stack = Front(d.stack) /\ Len(x.stack) = Len(d.stack) - 1 /\ x.saved = d.saved
      /\ x.frames = d.frames /\ x.font = d.font /\ x.status = "page"
  BY <1>3, <1>4, <1>6 DEF Restacks, SameLinks, SamePage
<1>8. LinkCore(x)
  BY <1>7, CoreSame DEF LinkInv, SamePage
<1>9. /\ e \in State /\ Relinks(x, e) /\ SameLink(x, e) /\ LinkCore(e)
      /\ e.link.mark = Len(x.stack)
      /\ e.link.box = IF Returns(x) THEN {} ELSE x.link.box
  BY <1>1, <1>6, <1>8, MarkIs
<1>10. LinkInv(e)
  <2>1. CASE e.link.box = {}
    BY <1>9, <2>1 DEF LinkInv, BoxInv
  <2>2. CASE e.link.box # {}
    <3>1. ~Returns(x) /\ e.link.box = d.link.box
      BY <1>7, <1>9, <2>2
    <3>2. d.link.on /\ Len(d.stack) >= d.link.tag
          /\ \A g \in d.link.box : d.out[g].line = d.line
      BY <2>2, <3>1 DEF LinkInv, BoxInv
    <3> DEFINE y == Len(d.stack)
               z == Len(x.stack)
               t == d.link.tag
    <3>3. z = y - 1 /\ ~(y = t /\ z = t - 1)
      BY <1>7, <3>1, <3>2 DEF Returns
    <3>4. y \in Nat /\ t \in Int /\ y >= t
      BY <1>2, <3>2
    <3> HIDE DEF y, z, t
    <3>5. y # t /\ z >= t
      BY <3>3, <3>4
    <3>6. n = d.line
      BY <1>5a, <3>5 DEF y, t
    <3>7. e.out = d.out /\ e.line = d.line /\ e.link.on = d.link.on /\ e.link.tag = t
          /\ e.link.mark = z
      BY <1>6, <1>7, <1>9, <3>6 DEF Relinks, SameLink, t, z
    <3>8. QED
      BY <1>9, <3>1, <3>2, <3>5, <3>7 DEF LinkInv, BoxInv
  <2>3. QED
    BY <2>1, <2>2
<1>11. Marks(d, e)
  BY <1>7, <1>9, <1>10 DEF Marks, Relinks, SamePage
<1>12. Pops(d, e)
  <2>1. /\ e.status = "page" /\ e.frames = d.frames /\ e.font = d.font /\ e.out = d.out
        /\ e.lr = w.lr /\ e.stack = Front(d.stack) /\ SamePlace(x, e)
    BY <1>6, <1>7, <1>9 DEF Relinks
  <2>2. Regs(e) = Regs(p)
    BY <1>4, <1>6, <2>1 DEF SamePlace, Regs
  <2>3. Len(e.stack) = Len(d.stack) - 1
    BY <1>7, <2>1
  <2>4. w.lr.mode = d.lr.mode /\ w.lr.state = d.lr.state
    BY <1>3a, <1>4
  <2>5. IF Skims(d) THEN w.lr.widths = Front(d.lr.widths) /\ w.lr.width = Last(d.lr.widths)
        ELSE w.lr = d.lr
    BY <1>3a, <1>4
  <2>6. QED
    BY <1>3, <2>1, <2>2, <2>3, <2>4, <2>5 DEF Pops, Stacks1
<1>13. QED
  BY <1>11, <1>12

(***************************************************************************)
(* Links: the specials.                                                     *)
(***************************************************************************)
Owned(doc, own) ==
  /\ own.annot_dict # NoLink => Has(doc, "bann")
  /\ own.pending = "href" => Has(doc, "href")
Links(own) == own.annot_dict # NoLink \/ own.pending = "href"
\* What a special leaves: the links are in order, at the depth they were.
Tells(d, e) ==
  /\ e \in State /\ Relinks(d, e) /\ LinkInv(e) /\ e.link.mark = d.link.mark /\ e.line = d.line

LEMMA OwnIs ==
  ASSUME NEW d \in State, NEW o \in OwnSet, NEW e, e = [d EXCEPT !.own = o]
  PROVE  /\ e \in State /\ Relinks(d, e) /\ e.link = d.link /\ e.own = o /\ e.annots = d.annots
         /\ e.line = d.line
BY DEF State, Relinks, SamePage, SamePlace

LEMMA OwnFields ==
  ASSUME NEW d \in State
  PROVE  /\ d.own \in OwnSet /\ d.own.annot_dict \in Dict /\ d.own.pending \in {"none", "href", "name"}
         /\ \A x \in Dict : [d.own EXCEPT !.annot_dict = x] \in OwnSet
         /\ \A x \in {"none", "href", "name"} : [d.own EXCEPT !.pending = x] \in OwnSet
BY StateFields DEF OwnSet

LEMMA BeginIs ==
  ASSUME NEW d \in State, LinkCore(d), ~d.link.boxes, d.link.mark >= 1, NEW x \in Dict, x # NoLink,
         NEW o \in OwnSet, Links(o), Owned(d.doc, o), NEW e, e = BeginAnnot([d EXCEPT !.own = o], x)
  PROVE  Tells(d, e)
<1> DEFINE f == [d EXCEPT !.own = o]
           l1 == [f.link EXCEPT !.dict = x]
           l2 == [l1 EXCEPT !.broken = FALSE]
           l3 == [l2 EXCEPT !.box = {}]
           l4 == [l3 EXCEPT !.tag = f.link.mark]
           l5 == [l4 EXCEPT !.boxes = TRUE]
<1>1. e = [f EXCEPT !.link = l5]
  BY DEF BeginAnnot
<1>2. /\ f \in State /\ Relinks(d, f) /\ f.link = d.link /\ f.own = o /\ f.annots = d.annots
      /\ f.line = d.line
  BY OwnIs
<1> HIDE DEF f
<1>3. l1 \in LinkSet /\ l1.dict = x /\ l1.on = d.link.on /\ l1.mark = d.link.mark
  BY <1>2, StateFields DEF LinkSet
<1> HIDE DEF l1
<1>4. l2 \in LinkSet /\ l2.dict = x /\ l2.on = d.link.on /\ l2.mark = d.link.mark
  BY <1>3 DEF LinkSet
<1> HIDE DEF l2
<1>5. l3 \in LinkSet /\ l3.dict = x /\ l3.on = d.link.on /\ l3.mark = d.link.mark /\ l3.box = {}
  BY <1>4 DEF LinkSet
<1> HIDE DEF l3
<1>6. l4 \in LinkSet /\ l4.dict = x /\ l4.on = d.link.on /\ l4.mark = d.link.mark /\ l4.box = {}
      /\ l4.tag = d.link.mark
  <2>1. f.link.mark = d.link.mark /\ d.link.mark \in Int
    BY <1>2, LinkFields
  <2>2. QED
    BY <1>5, <2>1 DEF LinkSet
<1> HIDE DEF l4
<1>7. l5 \in LinkSet /\ l5.dict = x /\ l5.on = d.link.on /\ l5.mark = d.link.mark /\ l5.box = {}
      /\ l5.tag = d.link.mark /\ l5.boxes = TRUE
  BY <1>6 DEF LinkSet
<1> HIDE DEF l5
<1>8. /\ e \in State /\ Relinks(f, e) /\ e.link = l5 /\ e.own = o /\ e.annots = d.annots
      /\ e.line = d.line
  BY <1>1, <1>2, <1>7, RelinkIs
<1>9. Relinks(d, e)
  BY <1>2, <1>8, RelinksMore
<1>10. e.doc = d.doc /\ e.out = d.out
  BY <1>9 DEF Relinks, SamePage
<1>11. LinkCore(e)
  <2>1. d.link.box = {}
    BY DEF LinkCore
  <2>2. QED
    BY <1>7, <1>8, <1>10, <2>1, CoreUnboxed DEF Owned, Links
<1>12. QED
  BY <1>7, <1>8, <1>9, <1>11 DEF Tells, LinkInv, BoxInv

LEMMA EndIs ==
  ASSUME NEW d \in State, LinkCore(d), NEW o \in OwnSet, ~Links(o),
         NEW f0, f0 = EndAnnot(d), NEW e, e = [f0 EXCEPT !.own = o]
  PROVE  Tells(d, e)
<1> DEFINE l1 == [d.link EXCEPT !.tag = -1]
           l2 == [l1 EXCEPT !.boxes = FALSE]
           f == [d EXCEPT !.link = l2]
           g == BreakAnnot(f)
           l3 == [g.link EXCEPT !.dict = NoLink]
           h == [g EXCEPT !.link = l3]
           c == BreakAnnot(d)
<1>1. f0 = h
  BY DEF EndAnnot
<1>2. /\ l1 \in LinkSet /\ l1.dict = d.link.dict /\ l1.on = d.link.on /\ l1.mark = d.link.mark
      /\ l1.box = d.link.box /\ l1.tag = -1 /\ l1.broken = d.link.broken
  BY StateFields DEF LinkSet
<1> HIDE DEF l1
<1>3. /\ l2 \in LinkSet /\ l2.dict = d.link.dict /\ l2.on = d.link.on /\ l2.mark = d.link.mark
      /\ l2.box = d.link.box /\ l2.tag = -1 /\ l2.broken = d.link.broken /\ l2.boxes = FALSE
  BY <1>2 DEF LinkSet
<1> HIDE DEF l2
<1>4. /\ f \in State /\ Relinks(d, f) /\ f.link = l2 /\ f.own = d.own /\ f.annots = d.annots
      /\ f.line = d.line
  BY <1>3, RelinkIs
<1> HIDE DEF f
<1>5. /\ c \in State /\ Relinks(d, c) /\ c.link.box = {} /\ LinkCore(c)
      /\ d.link.box # {} =>
              c.annots = Append(d.annots, [link |-> d.link.dict, glyphs |-> d.link.box,
                                           first |-> ~d.link.broken])
      /\ d.link.box = {} => c.annots = d.annots
  BY BreakIs, BreakCore
<1>6. /\ g \in State /\ Relinks(f, g) /\ SameLink(f, g) /\ g.link.mark = f.link.mark
      /\ g.link.box = {}
      /\ f.link.box # {} =>
              g.annots = Append(f.annots, [link |-> f.link.dict, glyphs |-> f.link.box,
                                           first |-> ~f.link.broken])
      /\ f.link.box = {} => g.annots = f.annots
  BY <1>4, BreakIs
<1> HIDE DEF g, c
<1>7. g.annots = c.annots
  BY <1>3, <1>4, <1>5, <1>6
<1>8. /\ l3 \in LinkSet /\ l3.dict = NoLink /\ l3.boxes = FALSE /\ l3.tag = -1 /\ l3.box = {}
      /\ l3.mark = d.link.mark /\ l3.on = d.link.on
  BY <1>3, <1>4, <1>6, StateFields DEF LinkSet, SameLink, NoLink, Dict
<1> HIDE DEF l3
<1>9. /\ h \in State /\ Relinks(g, h) /\ h.link = l3 /\ h.own = g.own /\ h.annots = g.annots
      /\ h.line = g.line
  BY <1>6, <1>8, RelinkIs
<1> HIDE DEF h
<1>10. /\ e \in State /\ Relinks(h, e) /\ e.link = h.link /\ e.own = o /\ e.annots = h.annots
       /\ e.line = h.line
  BY <1>1, <1>9, OwnIs
<1>11. Relinks(d, e)
  BY <1>4, <1>6, <1>9, <1>10, RelinksMore
<1>12. e.doc = c.doc /\ e.out = c.out /\ e.annots = c.annots
  BY <1>5, <1>7, <1>9, <1>10, <1>11 DEF Relinks, SamePage
<1>13. LinkCore(e)
  BY <1>5, <1>8, <1>9, <1>10, <1>12, CoreUnboxed DEF Links
<1>14. e.line = d.line /\ e.link.mark = d.link.mark
  BY <1>4, <1>6, <1>8, <1>9, <1>10 DEF SameLink
<1>15. QED
  BY <1>8, <1>9, <1>10, <1>11, <1>13, <1>14 DEF Tells, LinkInv, BoxInv

LEMMA OnIs ==
  ASSUME NEW d \in State, LinkInv(d), NEW on \in BOOLEAN, ~on => d.link.mark = 0,
         NEW e, e = LinkAnnot(d, on)
  PROVE  Tells(d, e)
<1> DEFINE l == [d.link EXCEPT !.on = on]
<1>1. e = [d EXCEPT !.link = l]
  BY DEF LinkAnnot
<1>2. /\ l \in LinkSet /\ l.dict = d.link.dict /\ l.boxes = d.link.boxes /\ l.tag = d.link.tag
      /\ l.box = d.link.box /\ l.mark = d.link.mark /\ l.on = on
  BY StateFields DEF LinkSet
<1> HIDE DEF l
<1>3. /\ e \in State /\ Relinks(d, e) /\ e.link = l /\ e.own = d.own /\ e.annots = d.annots
      /\ e.line = d.line
  BY <1>1, <1>2, RelinkIs
<1>4. LinkCore(e)
  BY <1>2, <1>3, CoreSame DEF LinkInv, Relinks, SamePage
<1>5. ~on => d.link.box = {}
  BY LinkFields DEF LinkInv, LinkCore, BoxInv
<1>6. BoxInv(e)
  BY <1>2, <1>3, <1>5 DEF LinkInv, BoxInv, Relinks
<1>7. QED
  BY <1>2, <1>3, <1>4, <1>6 DEF Tells, LinkInv

LEMMA EndOwn ==
  ASSUME NEW d \in State
  PROVE  EndAnnot(d).own = d.own
<1> DEFINE l1 == [d.link EXCEPT !.tag = -1]
           l == [l1 EXCEPT !.boxes = FALSE]
           f == [d EXCEPT !.link = l]
           g == BreakAnnot(f)
<1>1. EndAnnot(d) = [g EXCEPT !.link.dict = NoLink]
  BY DEF EndAnnot
<1>2. l \in LinkSet
  <2>1. l1 \in LinkSet
    BY StateFields DEF LinkSet
  <2> HIDE DEF l1
  <2>2. QED
    BY <2>1 DEF LinkSet
<1> HIDE DEF l
<1>3. f \in State /\ f.own = d.own
  BY <1>2, RelinkIs
<1> HIDE DEF f
<1>4. g \in State /\ g.own = f.own
  BY <1>3, BreakIs DEF SameLink
<1> HIDE DEF g
<1>5. QED
  BY <1>1, <1>3, <1>4 DEF State

\* A destination is not a link.
LEMMA NameIs ==
  ASSUME NEW d \in State, LinkInv(d), d.own.pending # "href", NEW x \in {"none", "name"},
         NEW o \in OwnSet, o.annot_dict = d.own.annot_dict, o.pending = x,
         NEW e, e = [d EXCEPT !.own = o]
  PROVE  Tells(d, e)
<1>1. o.pending # "href"
  OBVIOUS
<1>3. /\ e \in State /\ Relinks(d, e) /\ e.link = d.link /\ e.own = o /\ e.annots = d.annots
      /\ e.line = d.line
  BY OwnIs
<1>4. e.doc = d.doc /\ e.out = d.out
  BY <1>3 DEF Relinks, SamePage
<1>5. LinkCore(e)
  <2>1. \A g : Covered(d, g) => Covered(e, g)
    <3>1. \A g : Rects(e, g) = Rects(d, g)
      BY <1>3 DEF Rects
    <3>2. QED
      BY <1>3, <1>4, <3>1 DEF Covered
  <2>2. \A glyphs : OneLine(d, glyphs) => OneLine(e, glyphs)
    BY <1>4 DEF OneLine
  <2>3. QED
    BY <1>1, <1>3, <1>4, <2>1, <2>2 DEF LinkInv, LinkCore
<1>6. QED
  BY <1>3, <1>4, <1>5 DEF Tells, LinkInv, BoxInv

LEMMA SpecialIs ==
  ASSUME NEW d \in State, LinkInv(d), NEW i, i \in InstrsOf(d.doc), i \in Instr, i.op = "xxx",
         i.special \in {"bann", "href"} => d.link.mark >= 1,
         i.special = "nolink" => d.link.mark = 0,
         NEW id \in Dict, id # NoLink, NEW e, e = Special(d, i, id)
  PROVE  Tells(d, e)
<1> DEFINE s1 == i.special
<1>1. s1 \in {"bann", "eann", "href", "name", "close", "link", "nolink"}
  BY DEF Instr
<1>2. ~(Has(d.doc, "bann") /\ Has(d.doc, "href"))
  <2>1. d.doc \in Documents
    BY StateFields
  <2>2. \A x, y \in InstrsOf(d.doc) : ~(IsSpecial(x, {"bann"}) /\ IsSpecial(y, {"href"}))
    BY <2>1, DocumentAssumption
  <2>3. QED
    BY <2>2 DEF Has
<1>3. (s1 = "bann" => Has(d.doc, "bann")) /\ (s1 = "href" => Has(d.doc, "href"))
  BY DEF Has, IsSpecial
<1>4. LinkCore(d)
  BY DEF LinkInv
<1>5. /\ d.link.boxes <=> Links(d.own)
      /\ Owned(d.doc, d.own)
  BY <1>4 DEF LinkCore, Links, Owned
<1>6. /\ d.own \in OwnSet /\ d.own.annot_dict \in Dict /\ d.own.pending \in {"none", "href", "name"}
      /\ \A x \in Dict : [d.own EXCEPT !.annot_dict = x] \in OwnSet
      /\ \A x \in {"none", "href", "name"} : [d.own EXCEPT !.pending = x] \in OwnSet
  BY OwnFields
<1>7. Tells(d, d)
  BY DEF Tells, Relinks, SamePage, SamePlace
<1>8. NoLink \in Dict
  BY DEF NoLink, Dict
<1>9. CASE s1 = "bann"
  <2>1. CASE d.own.annot_dict # NoLink
    <3>1. e = d
      BY <1>9, <2>1 DEF Special, BeginPdfLink
    <3>2. QED
      BY <1>7, <3>1
  <2>2. CASE d.own.annot_dict = NoLink
    <3> DEFINE o == [d.own EXCEPT !.annot_dict = id]
    <3>1. e = BeginAnnot([d EXCEPT !.own = o], id)
      BY <1>9, <2>2 DEF Special, BeginPdfLink
    <3>2. o \in OwnSet /\ o.annot_dict = id /\ o.pending = d.own.pending
      BY <1>6 DEF OwnSet
    <3> HIDE DEF o
    <3>3. ~(d.own.pending = "href")
      BY <1>2, <1>3, <1>5, <1>9 DEF Owned
    <3>4. ~d.link.boxes /\ Links(o) /\ Owned(d.doc, o)
      BY <1>3, <1>5, <1>9, <2>2, <3>2, <3>3 DEF Links, Owned
    <3>5. QED
      BY <1>4, <1>9, <3>1, <3>2, <3>4, BeginIs
  <2>3. QED
    BY <2>1, <2>2
<1>10. CASE s1 = "href"
  <2>1. CASE d.own.pending # "none"
    <3>1. e = d
      BY <1>10, <2>1 DEF Special, OpenAnchor
    <3>2. QED
      BY <1>7, <3>1
  <2>2. CASE d.own.pending = "none"
    <3> DEFINE o == [d.own EXCEPT !.pending = "href"]
    <3>1. e = BeginAnnot([d EXCEPT !.own = o], id)
      BY <1>10, <2>2 DEF Special, OpenAnchor
    <3>2. o \in OwnSet /\ o.annot_dict = d.own.annot_dict /\ o.pending = "href"
      BY <1>6 DEF OwnSet
    <3> HIDE DEF o
    <3>3. d.own.annot_dict = NoLink
      BY <1>2, <1>3, <1>5, <1>10 DEF Owned
    <3>4. ~d.link.boxes /\ Links(o) /\ Owned(d.doc, o)
      BY <1>3, <1>5, <1>10, <2>2, <3>2, <3>3 DEF Links, Owned
    <3>5. QED
      BY <1>4, <1>10, <3>1, <3>2, <3>4, BeginIs
  <2>3. QED
    BY <2>1, <2>2
<1>11. CASE s1 = "eann"
  <2>1. CASE d.own.annot_dict = NoLink
    <3>1. e = d
      BY <1>11, <2>1 DEF Special, EndPdfLink
    <3>2. QED
      BY <1>7, <3>1
  <2>2. CASE d.own.annot_dict # NoLink
    <3> DEFINE f == EndAnnot(d)
               o == [d.own EXCEPT !.annot_dict = NoLink]
    <3>1. e = [f EXCEPT !.own.annot_dict = NoLink] /\ f.own = d.own
      <4>1. e = [f EXCEPT !.own.annot_dict = NoLink]
        BY <1>11, <2>2 DEF Special, EndPdfLink
      <4>2. f.own = d.own
        BY EndOwn
      <4>3. QED
        BY <4>1, <4>2
    <3> HIDE DEF f
    <3>2. e = [f EXCEPT !.own = o]
      BY <3>1
    <3>3. o \in OwnSet /\ o.annot_dict = NoLink /\ o.pending = d.own.pending
      BY <1>6, <1>8 DEF OwnSet
    <3> HIDE DEF o
    <3>4. ~(d.own.pending = "href")
      BY <1>2, <1>5, <2>2 DEF Owned
    <3>5. ~Links(o)
      BY <3>3, <3>4 DEF Links
    <3>6. QED
      BY <1>4, <3>2, <3>3, <3>5, EndIs DEF f
  <2>3. QED
    BY <2>1, <2>2
<1>12. CASE s1 = "name"
  <2>1. CASE d.own.pending # "none"
    <3>1. e = d
      BY <1>12, <2>1 DEF Special, OpenAnchor
    <3>2. QED
      BY <1>7, <3>1
  <2>2. CASE d.own.pending = "none"
    <3> DEFINE o == [d.own EXCEPT !.pending = "name"]
    <3>1. e = [d EXCEPT !.own = o]
      BY <1>12, <2>2 DEF Special, OpenAnchor
    <3>2. o \in OwnSet /\ o.annot_dict = d.own.annot_dict /\ o.pending = "name"
      BY <1>6 DEF OwnSet
    <3> HIDE DEF o
    <3>3. d.own.pending # "href"
      BY <2>2
    <3>4. QED
      BY <3>1, <3>2, <3>3, NameIs
  <2>3. QED
    BY <2>1, <2>2
<1>13. CASE s1 = "close"
  <2>1. CASE d.own.pending = "none"
    <3>1. e = d
      BY <1>13, <2>1 DEF Special, CloseAnchor
    <3>2. QED
      BY <1>7, <3>1
  <2>2. CASE d.own.pending = "name"
    <3> DEFINE o == [d.own EXCEPT !.pending = "none"]
    <3>1. e = [d EXCEPT !.own = o]
      BY <1>13, <2>2 DEF Special, CloseAnchor
    <3>2. o \in OwnSet /\ o.annot_dict = d.own.annot_dict /\ o.pending = "none"
      BY <1>6 DEF OwnSet
    <3> HIDE DEF o
    <3>3. d.own.pending # "href"
      BY <2>2
    <3>4. QED
      BY <3>1, <3>2, <3>3, NameIs
  <2>3. CASE d.own.pending = "href"
    <3> DEFINE f == EndAnnot(d)
               o == [d.own EXCEPT !.pending = "none"]
    <3>1. e = [f EXCEPT !.own.pending = "none"] /\ f.own = d.own
      <4>1. e = [f EXCEPT !.own.pending = "none"]
        BY <1>13, <2>3 DEF Special, CloseAnchor
      <4>2. f.own = d.own
        BY EndOwn
      <4>3. QED
        BY <4>1, <4>2
    <3> HIDE DEF f
    <3>2. e = [f EXCEPT !.own = o]
      BY <3>1
    <3>3. o \in OwnSet /\ o.annot_dict = d.own.annot_dict /\ o.pending = "none"
      BY <1>6 DEF OwnSet
    <3> HIDE DEF o
    <3>4. d.own.annot_dict = NoLink
      BY <1>2, <1>5, <2>3 DEF Owned
    <3>5. ~Links(o)
      BY <3>3, <3>4 DEF Links
    <3>6. QED
      BY <1>4, <3>2, <3>3, <3>5, EndIs DEF f
  <2>4. QED
    BY <1>6, <2>1, <2>2, <2>3
<1>14. CASE s1 = "link"
  <2>1. e = LinkAnnot(d, TRUE)
    BY <1>14 DEF Special
  <2>2. QED
    BY <2>1, OnIs
<1>15. CASE s1 = "nolink"
  <2>1. e = LinkAnnot(d, FALSE)
    BY <1>15 DEF Special
  <2>2. QED
    BY <1>15, <2>1, OnIs
<1>16. QED
  BY <1>1, <1>9, <1>10, <1>11, <1>12, <1>13, <1>14, <1>15

(***************************************************************************)
(* What a turn of the loop leaves: a failure, or a page in order.           *)
(***************************************************************************)
Good(e) ==
  /\ e \in State /\ Bounded(e) /\ LinkInv(e)
  /\ \/ e.status = "failed"
     \/ e.status = "page" /\ OnPage(e, Top(e).pc - 1) /\ e.link.mark = PageDepth(e)
Ready(d, k, i) ==
  /\ d \in State /\ k \in Nat /\ OnPage(d, k) /\ Turn(d, k, i) /\ Bounded(d) /\ Fits(d)

LEMMA FailGood ==
  ASSUME NEW d, NEW k, NEW i, Ready(d, k, i), NEW e \in State, Fails(d, e)
  PROVE  Good(e)
<1>1. LinkInv(e)
  BY LinkSame DEF Ready, Fails, Fits, SamePage
<1>2. QED
  BY <1>1 DEF Good, Fails, Ready, Bounded

LEMMA ReadyIs ==
  ASSUME NEW d, NEW k, NEW i, Ready(d, k, i)
  PROVE  /\ d \in State /\ d.frames # << >> /\ d.status = "page" /\ i \in Instr /\ k \in Nat
         /\ OnPage(d, k) /\ Turn(d, k, i) /\ LinkInv(d) /\ d.link.mark = PageDepth(d)
         /\ Turning(d.doc) => Kind(d.font) # "virtual" /\ Len(d.frames) = 1
         /\ ~Turning(d.doc) => d.lr.mode = Left /\ ~Skims(d)
         /\ Len(d.stack) \in Nat /\ Len(d.saved) \in Nat /\ Len(d.stack) <= StackMax
         /\ Len(d.saved) <= NestMax /\ StackMax \in Nat /\ NestMax \in Nat
<1>1. d \in State /\ k \in Nat /\ OnPage(d, k) /\ Turn(d, k, i) /\ Bounded(d) /\ Fits(d)
  BY DEF Ready
<1>2. i \in Instr
  BY <1>1, TurnIs
<1>3. Turning(d.doc) => Kind(d.font) # "virtual" /\ Len(d.frames) = 1
  BY <1>1 DEF OnPage, TurnsOK
<1>4. ~Turning(d.doc) => d.lr.mode = Left /\ ~Skims(d)
  <2>1. ASSUME ~Turning(d.doc) PROVE d.lr.mode = 0 /\ ~Skims(d)
    <3> DEFINE p == Open(d.frames[1].code, Ran(d, 1, k))
    <3>1. Count(p, "breflect") = 0 /\ ~Skims(d) /\ d.lr.mode = Count(p, "breflect") % 2
      BY <1>1, <2>1 DEF OnPage, TurnsOK
    <3> HIDE DEF p
    <3>2. d.lr.mode = 0 % 2
      BY <3>1
    <3>3. QED
      BY <3>1, <3>2
  <2>2. QED
    BY <2>1 DEF Left
<1>5. Len(d.stack) \in Nat /\ Len(d.saved) \in Nat /\ StackMax \in Nat /\ NestMax \in Nat
  BY <1>1, StateFields, LenProperties, DviAssumption DEF Stacks, Saves
<1>6. QED
  BY <1>1, <1>2, <1>3, <1>4, <1>5 DEF Fits, Bounded, Turn

LEMMA DoesGood ==
  ASSUME NEW d, NEW k, NEW i, Ready(d, k, i), i.op \notin {"push", "pop", "breflect", "ereflect"},
         NEW e, Does(d, e)
  PROVE  Good(e)
<1>1. /\ d \in State /\ d.status = "page" /\ k \in Nat /\ OnPage(d, k) /\ Turn(d, k, i)
      /\ Turning(d.doc) => Kind(d.font) # "virtual"
      /\ Len(d.stack) \in Nat /\ Len(d.stack) <= StackMax /\ Len(d.saved) <= NestMax
  BY ReadyIs
<1>2. e \in State /\ Ordinary(d, e) /\ Tracks(d, e)
  BY DEF Does
<1>3. /\ Codes(d, e) /\ e.doc = d.doc /\ e.saved = d.saved /\ e.lr.mode = d.lr.mode
      /\ e.lr.state = d.lr.state /\ e.lr.widths = d.lr.widths /\ e.font = d.font /\ e.stack = d.stack
      /\ e.status = "page"
  BY <1>1, <1>2 DEF Ordinary, SamePage, SameTurns
<1>3a. i.op # "push" /\ i.op # "pop"
  OBVIOUS
<1>4. Widens(d, e, i)
  <2>1. Len(d.lr.widths) \in Nat
    BY <1>1, LrFields
  <2>2. QED
    BY <1>3, <1>3a, <2>1 DEF Widens
<1>5. Deepens(d, e, i)
  BY <1>1, <1>3, <1>3a DEF Deepens
<1>6. OnPage(e, Top(e).pc - 1)
  BY <1>1, <1>2, <1>3, <1>4, <1>5, StepKeeps
<1>7. Fits(e)
  BY <1>2 DEF Tracks, Ready
<1>8. QED
  BY <1>1, <1>2, <1>3, <1>6, <1>7 DEF Good, Fits, Bounded

LEMMA SelectFontGood ==
  ASSUME NEW d, NEW k, NEW i, Ready(d, k, i), i.op = "fnt", NEW e, e = SelectFont(d, i.font)
  PROVE  Good(e)
<1>1. /\ d \in State /\ d.status = "page" /\ k \in Nat /\ OnPage(d, k) /\ Turn(d, k, i) /\ i \in Instr
      /\ Turning(d.doc) => Len(d.frames) = 1
      /\ Len(d.stack) \in Nat /\ Len(d.stack) <= StackMax /\ Len(d.saved) <= NestMax
  BY ReadyIs
<1>2. CASE Kind(i.font) = "missing"
  <2>1. e = Fail(d)
    BY <1>2 DEF SelectFont
  <2>2. QED
    BY <1>1, <2>1, FailIs, FailGood
<1>3. CASE Kind(i.font) # "missing"
  <2> DEFINE f == i.font
  <2>1. f \in AnyFont
    BY <1>1 DEF Instr, AnyFont
  <2>2. e = [d EXCEPT !.font = f]
    BY <1>3 DEF SelectFont
  <2> HIDE DEF f
  <2>3. /\ e \in State /\ SamePage(d, e) /\ SameLinks(d, e) /\ e.frames = d.frames /\ e.lr = d.lr
        /\ e.font = f /\ e.stack = d.stack /\ e.saved = d.saved /\ e.status = d.status
    BY <1>1, <2>1, <2>2 DEF State, SamePage, SameLinks
  <2>4. Codes(d, e) /\ e.doc = d.doc
    BY <2>3 DEF Codes, SameFrame, SamePage
  <2>5. Widens(d, e, i)
    <3>1. Len(d.lr.widths) \in Nat
      BY <1>1, LrFields
    <3>2. QED
      BY <2>3, <3>1 DEF Widens
  <2>6. Deepens(d, e, i)
    BY <1>1, <2>3 DEF Deepens
  <2>7. Turning(d.doc) => Kind(e.font) # "virtual"
    <3>1. ASSUME Turning(d.doc) PROVE Kind(e.font) # "virtual"
      <4>1. i \in InstrsOf(d.doc)
        <5>1. Len(d.frames) = 1 => i \in InstrsOf(d.doc)
          BY <1>1, TurnIs
        <5>2. QED
          BY <1>1, <3>1, <5>1
      <4>2. d.doc \in Documents
        BY <1>1, StateFields
      <4>3. PICK j \in InstrsOf(d.doc) : j.op = "breflect"
        BY <3>1 DEF Turning
      <4>4. Kind(i.font) # "virtual"
        BY <4>1, <4>2, <4>3, DocumentAssumption
      <4>5. QED
        BY <2>3, <4>4 DEF f
    <3>2. QED
      BY <3>1
  <2>8. OnPage(e, Top(e).pc - 1)
    BY <1>1, <2>3, <2>4, <2>5, <2>6, <2>7, StepKeeps
  <2>9. Tracks(d, e)
    BY <1>1, <2>3, <2>4, TracksSame
  <2>10. Fits(e)
    BY <2>9 DEF Tracks, Ready
  <2>11. QED
    BY <1>1, <2>3, <2>8, <2>10 DEF Good, Fits, Bounded
<1>4. QED
  BY <1>2, <1>3

LEMMA EnterGood ==
  ASSUME NEW d, NEW k, NEW i, Ready(d, k, i), i.op \in {"set", "put"}, Kind(d.font) = "virtual",
         NEW c \in Char, NEW after \in Int, NEW e, e = EnterVf(d, c, after)
  PROVE  Good(e)
<1>1. /\ d \in State /\ d.status = "page" /\ k \in Nat /\ OnPage(d, k) /\ Turn(d, k, i)
      /\ d.frames # << >> /\ ~Turning(d.doc) /\ LinkInv(d) /\ d.link.mark = PageDepth(d)
      /\ Len(d.stack) \in Nat /\ Len(d.saved) \in Nat /\ StackMax \in Nat /\ NestMax \in Nat
  BY ReadyIs
<1>2. d.font \in HasVf
  BY DEF Kind
<1>3. e \in State /\ (Fails(d, e) \/ Enters(d, e, c, after))
  BY <1>1, <1>2, EnterVfIs
<1>4. CASE Fails(d, e)
  BY <1>3, <1>4, FailGood
<1>5. CASE Enters(d, e, c, after)
  <2>1. OnPage(e, 0) /\ Top(e).pc - 1 = 0
    BY <1>1, <1>2, <1>3, <1>5, EnterKeeps
  <2>2. /\ SamePage(d, e) /\ SameLinks(d, e) /\ e.status = d.status
        /\ Len(e.stack) = Len(d.stack) + 1 /\ Len(d.stack) < StackMax
        /\ Len(e.saved) = Len(d.saved) + 1 /\ Len(d.saved) < NestMax
        /\ Len(e.frames) = Len(d.frames) + 1
        /\ \A j \in 1..Len(d.frames) : SameFrame(d.frames[j], e.frames[j])
        /\ e.frames[Len(d.frames) + 1] = NewFrame(d, c, after)
    BY <1>5 DEF Enters
  <2>3. LinkInv(e)
    BY <1>1, <2>2, LinkSame DEF SamePage
  <2>4. Bounded(e)
    BY <1>1, <2>2 DEF Bounded
  <2>5. PageDepth(e) = PageDepth(d)
    <3>1. Len(d.frames) \in Nat /\ Len(d.frames) >= 1
      BY <1>1, FramesLen
    <3>2. InPacket(e)
      BY <2>2, <3>1 DEF InPacket
    <3>3. CASE InPacket(d)
      <4>1. 2 \in 1..Len(d.frames)
        BY <3>1, <3>3 DEF InPacket
      <4>2. e.frames[2].below = d.frames[2].below
        BY <2>2, <4>1 DEF SameFrame
      <4>3. QED
        BY <3>2, <3>3, <4>2 DEF PageDepth
    <3>4. CASE ~InPacket(d)
      <4>1. Len(d.frames) + 1 = 2
        BY <3>1, <3>4 DEF InPacket
      <4>2. e.frames[2].below = Len(d.stack)
        BY <2>2, <4>1 DEF NewFrame
      <4>3. QED
        BY <3>2, <3>4, <4>2 DEF PageDepth
    <3>5. QED
      BY <3>3, <3>4
  <2>6. e.link.mark = PageDepth(e)
    BY <1>1, <2>2, <2>5 DEF SameLinks
  <2>7. QED
    BY <1>1, <1>3, <2>1, <2>2, <2>3, <2>4, <2>6 DEF Good
<1>6. QED
  BY <1>3, <1>4, <1>5

LEMMA SetCharGood ==
  ASSUME NEW d, NEW k, NEW i, Ready(d, k, i), i.op = "set", NEW e, e = SetChar(d, i.char)
  PROVE  Good(e)
<1> DEFINE c == i.char
           w == Width[d.font][c]
           r == IF d.lr.mode = Right THEN MoveRight(d, w) ELSE d
           t == Typeset(r, c)
<1>1. /\ d \in State /\ d.frames # << >> /\ i \in Instr
      /\ Turning(d.doc) => Kind(d.font) # "virtual"
      /\ ~Turning(d.doc) => d.lr.mode = Left /\ ~Skims(d)
  BY ReadyIs
<1>2. c \in Char
  BY <1>1 DEF Instr
<1>3. CASE d.font = NoFont
  <2>1. e = Fail(d)
    BY <1>3 DEF SetChar
  <2>2. QED
    BY <1>1, <2>1, FailIs, FailGood
<1>4. CASE d.font # NoFont
  <2>1. d.font \in Font
    BY <1>1, <1>4, StateFields DEF AnyFont
  <2>2. w \in Int
    BY <1>2, <2>1, DviAssumption
  <2> HIDE DEF c, w
  <2>3. CASE Skims(d)
    <3>1. e = MoveRight(d, w)
      BY <1>4, <2>3 DEF SetChar, c, w
    <3>2. Does(d, e)
      BY <1>1, <2>2, <3>1, MoveRightDoes
    <3>3. QED
      BY <3>2, DoesGood
  <2>4. CASE ~Skims(d) /\ Kind(d.font) = "virtual"
    <3>1. r = d
      BY <1>1, <2>4 DEF Left, Right
    <3>2. e = EnterVf(r, c, w)
      BY <1>4, <2>4 DEF SetChar, c, w
    <3>3. QED
      BY <1>2, <2>2, <2>4, <3>1, <3>2, EnterGood
  <2>5. CASE ~Skims(d) /\ Kind(d.font) # "virtual"
    <3>1. e = AfterSet(t, w)
      BY <1>4, <2>5 DEF SetChar, c, w
    <3>2. Does(d, r)
      <4>1. Does(d, MoveRight(d, w)) /\ Does(d, d)
        BY <1>1, <2>2, MoveRightDoes DEF Does, Ordinary, Tracks, SamePage, Codes, SameTurns, SameFrame
      <4>2. QED
        BY <4>1
    <3> HIDE DEF r
    <3>3. r \in State /\ r.frames # << >>
      BY <1>1, <3>2, DoesFrames
    <3>4. Does(r, t) /\ t \in State
      BY <1>2, <3>3, TypesetDoes DEF Does
    <3> HIDE DEF t
    <3>5. Does(t, e)
      BY <2>2, <3>1, <3>4, AfterSetDoes
    <3>6. Does(d, e)
      BY <3>2, <3>4, <3>5, DoesMore
    <3>7. QED
      BY <3>6, DoesGood
  <2>6. QED
    BY <2>3, <2>4, <2>5
<1>5. QED
  BY <1>3, <1>4

LEMMA PutCharGood ==
  ASSUME NEW d, NEW k, NEW i, Ready(d, k, i), i.op = "put", NEW e, e = PutChar(d, i.char)
  PROVE  Good(e)
<1> DEFINE c == i.char
<1>1. d \in State /\ d.frames # << >> /\ i \in Instr
  BY ReadyIs
<1>2. c \in Char /\ 0 \in Int
  BY <1>1 DEF Instr
<1> HIDE DEF c
<1>3. CASE d.font = NoFont
  <2>1. e = Fail(d)
    BY <1>3 DEF PutChar
  <2>2. QED
    BY <1>1, <2>1, FailIs, FailGood
<1>4. CASE d.font # NoFont /\ Kind(d.font) = "virtual"
  <2>1. e = EnterVf(d, c, 0)
    BY <1>4 DEF PutChar, c
  <2>2. QED
    BY <1>2, <1>4, <2>1, EnterGood
<1>5. CASE d.font # NoFont /\ Kind(d.font) # "virtual"
  <2>1. e = Typeset(d, c)
    BY <1>5 DEF PutChar, c
  <2>2. Does(d, e)
    BY <1>1, <1>2, <2>1, TypesetDoes
  <2>3. QED
    BY <2>2, DoesGood
<1>6. QED
  BY <1>3, <1>4, <1>5

LEMMA MovesGood ==
  ASSUME NEW d, NEW k, NEW i, Ready(d, k, i), NEW e,
         \/ i.op = "right" /\ e = MoveRight(d, i.by)
         \/ i.op = "w" /\ e = MoveW(d, i.by)
         \/ i.op = "w0" /\ e = MoveRight(d, d.w)
         \/ i.op = "down" /\ e = MoveDown(d, i.by)
         \/ i.op = "dir" /\ e = SetDir(d, i.dir)
  PROVE  Good(e)
<1>1. d \in State /\ i \in Instr /\ d.w \in Int
  BY ReadyIs, StateFields
<1>2. i.op \in {"right", "w", "down"} => i.by \in Int
  BY <1>1 DEF Instr
<1>3. i.op = "dir" => i.dir \in Direction
  BY <1>1 DEF Instr, Direction
<1>4. e \in State /\ Moves(d, e)
  <2>1. CASE i.op = "right" /\ e = MoveRight(d, i.by)
    BY <1>1, <1>2, <2>1, MoveRightIs
  <2>2. CASE i.op = "w" /\ e = MoveW(d, i.by)
    BY <1>1, <1>2, <2>2, MoveWIs
  <2>3. CASE i.op = "w0" /\ e = MoveRight(d, d.w)
    BY <1>1, <2>3, MoveRightIs
  <2>4. CASE i.op = "down" /\ e = MoveDown(d, i.by)
    BY <1>1, <1>2, <2>4, MoveDownIs
  <2>5. CASE i.op = "dir" /\ e = SetDir(d, i.dir)
    BY <1>1, <1>3, <2>5, SetDirIs
  <2>6. QED
    BY <2>1, <2>2, <2>3, <2>4, <2>5
<1>5. Does(d, e)
  BY <1>1, <1>4, MovesOrdinary DEF Does
<1>6. i.op \notin {"push", "pop", "breflect", "ereflect"}
  OBVIOUS
<1>7. QED
  BY <1>5, <1>6, DoesGood

LEMMA DrawsGood ==
  ASSUME NEW d, NEW k, NEW i, Ready(d, k, i), NEW e,
         \/ i.op = "glyphs" /\ e = SetGlyphs(d, i.glyphs, i.by)
         \/ i.op = "rule" /\ e = SetRule(d, i.by)
  PROVE  Good(e)
<1>1. d \in State /\ d.frames # << >> /\ i \in Instr
  BY ReadyIs
<1>2. CASE i.op = "glyphs" /\ e = SetGlyphs(d, i.glyphs, i.by)
  <2> DEFINE gs == i.glyphs
             w == i.by
  <2>1. gs \in GlyphRun /\ w \in Int
    BY <1>1, <1>2 DEF Instr, GlyphRun
  <2>2. e = SetGlyphs(d, gs, w)
    BY <1>2
  <2> HIDE DEF gs, w
  <2>3. (e \in State /\ Fails(d, e)) \/ Does(d, e)
    BY <1>1, <2>1, <2>2, SetGlyphsDoes
  <2>4. QED
    BY <1>2, <2>3, DoesGood, FailGood
<1>3. CASE i.op = "rule" /\ e = SetRule(d, i.by)
  <2>1. i.by \in Int
    BY <1>1, <1>3 DEF Instr
  <2>2. Does(d, e)
    BY <1>1, <1>3, <2>1, SetRuleDoes
  <2>3. QED
    BY <1>3, <2>2, DoesGood
<1>4. QED
  BY <1>2, <1>3

LEMMA InPacketIs ==
  ASSUME NEW d \in State
  PROVE  /\ InPacket(d) => Len(d.frames) # 1
         /\ ~InPacket(d) /\ d.frames # << >> => Len(d.frames) = 1
<1> DEFINE n == Len(d.frames)
<1>1. n \in Nat /\ (d.frames # << >> => n >= 1)
  BY FramesLen
<1>2. InPacket(d) <=> n > 1
  BY DEF InPacket
<1> HIDE DEF n
<1>3. (InPacket(d) => n # 1) /\ (~InPacket(d) /\ d.frames # << >> => n = 1)
  BY <1>1, <1>2
<1>4. QED
  BY <1>3 DEF n

LEMMA PacketStackGood ==
  ASSUME NEW d, NEW k, NEW i, Ready(d, k, i), InPacket(d), NEW e,
         \/ i.op = "push" /\ e = Push(d)
         \/ i.op = "pop" /\ e = Pop(d)
  PROVE  Good(e)
<1>1. /\ d \in State /\ d.frames # << >> /\ d.status = "page" /\ k \in Nat /\ OnPage(d, k) /\ Turn(d, k, i)
      /\ LinkInv(d) /\ d.link.mark = PageDepth(d) /\ Len(d.stack) \in Nat
      /\ Len(d.stack) <= StackMax /\ Len(d.saved) <= NestMax /\ StackMax \in Nat
  BY ReadyIs
<1>2. ~Turning(d.doc) /\ ~Skims(d)
  <2>1. Turning(d.doc) => Len(d.frames) = 1
    BY ReadyIs
  <2>2. ~Turning(d.doc) => ~Skims(d)
    BY ReadyIs
  <2>3. Len(d.frames) # 1
    BY <1>1, InPacketIs
  <2>4. QED
    BY <2>1, <2>2, <2>3
<1>3. e \in State
  BY <1>1, PushIs, PopIs
<1>4. CASE Restacks(d, e) /\ Deepens(d, e, i) /\ Len(e.stack) <= StackMax
  <2>1. /\ SamePage(d, e) /\ SameLinks(d, e) /\ e.status = "page" /\ e.frames = d.frames
        /\ e.font = d.font /\ e.saved = d.saved /\ e.lr = d.lr /\ e.doc = d.doc
    BY <1>1, <1>4 DEF Restacks, SamePage
  <2>2. Codes(d, e)
    BY <2>1 DEF Codes, SameFrame
  <2>3. Widens(d, e, i)
    <3>1. Len(d.lr.widths) \in Nat
      BY <1>1, LrFields
    <3>2. QED
      BY <1>2, <2>1, <3>1 DEF Widens
  <2>4. i.op \notin {"breflect", "ereflect"}
    OBVIOUS
  <2>5. OnPage(e, Top(e).pc - 1)
    BY <1>1, <1>2, <1>3, <1>4, <2>1, <2>2, <2>3, <2>4, StepKeeps
  <2>6. LinkInv(e)
    BY <1>1, <2>1, LinkSame
  <2>7. PageDepth(e) = PageDepth(d)
    BY <2>1 DEF PageDepth, InPacket
  <2>8. QED
    BY <1>1, <1>3, <1>4, <2>1, <2>5, <2>6, <2>7 DEF Good, Bounded, SameLinks
<1>5. CASE Fails(d, e)
  BY <1>3, <1>5, FailGood
<1>6. Fails(d, e) \/ (Restacks(d, e) /\ Deepens(d, e, i) /\ Len(e.stack) <= StackMax)
  <2>1. CASE i.op = "push" /\ e = Push(d)
    <3>1. Fails(d, e) \/ (Len(d.stack) < StackMax /\ Restacks(d, e) /\ Len(e.stack) = Len(d.stack) + 1)
      BY <1>1, <2>1, PushIs
    <3>2. QED
      BY <1>1, <2>1, <3>1 DEF Deepens
  <2>2. CASE i.op = "pop" /\ e = Pop(d)
    <3>1. Fails(d, e) \/ (Restacks(d, e) /\ Len(e.stack) = Len(d.stack) - 1)
      BY <1>1, <2>2, PopIs
    <3>2. QED
      BY <1>1, <2>2, <3>1 DEF Deepens
  <2>3. QED
    BY <2>1, <2>2
<1>7. QED
  BY <1>4, <1>5, <1>6

\* A pop finds what its push has left.
LEMMA PopCan ==
  ASSUME NEW d \in State, NEW k \in Nat, NEW i, OnPage(d, k), Turn(d, k, i), ~InPacket(d), i.op = "pop"
  PROVE  d.stack # << >> /\ (Skims(d) => d.lr.widths # << >>)
<1> DEFINE n == Len(d.frames)
           c == d.frames[n].code
           p == Open(c, k)
<1>1. /\ n \in Nat /\ n >= 1 /\ FrameOK(d, n, k) /\ c \in Seq(Instr) /\ Formed(c) /\ Len(c) \in Nat
      /\ k + 1 \in 1..Len(c) /\ Turns(p, i, Open(c, k + 1)) /\ p \in Opening
      /\ Count(p, "push") \in Nat /\ (i.op = "pop" => Count(p, "push") >= 1)
  BY TurnIs, SMTT(60)
<1>2. n = 1
  <2> HIDE DEF n
  <2>1. ~(n > 1)
    BY DEF InPacket, n
  <2>2. QED
    BY <1>1, <2>1
<1>3. Len(d.stack) = Count(p, "push")
  <2>1. FrameOK(d, 1, k) /\ Len(d.frames) = 1
    BY <1>1, <1>2
  <2>2. Depth(d, 1) = Len(d.stack) /\ Base(d, 1) = 0 /\ Ran(d, 1, k) = k
    BY <2>1 DEF Depth, Base, Ran
  <2>3. Len(d.stack) = 0 + Count(Open(d.frames[1].code, k), "push")
    BY <2>1, <2>2 DEF FrameOK
  <2>4. d.frames[1].code = c
    BY <1>2
  <2> HIDE DEF c, p
  <2>5. QED
    BY <1>1, <2>3, <2>4 DEF p
<1>4. d.stack # << >>
  <2>1. d.stack = << >> => Len(d.stack) = 0
    BY EmptySeq
  <2>2. Len(d.stack) # 0
    BY <1>1, <1>3
  <2>3. QED
    BY <2>1, <2>2, Zenon
<1>5. ASSUME Skims(d) PROVE d.lr.widths # << >>
  <2> DEFINE b == d.lr.state.pc - 1
             q == Open(c, b)
             r == Open(c, d.lr.state.pc - 2)
  <2>1. Measuring(d, k)
    BY <1>2, <1>5 DEF OnPage, TurnsOK, Ran
  <2>2. c = d.frames[1].code /\ k <= Len(c)
    BY <1>1, <1>2
  <2> HIDE DEF c, b, q, r, p
  <2>3. Gauge(d, c, k, b, p, q, r)
    BY <1>1, <2>1, <2>2, MeasuringIs DEF b, p, q, r
  <2>4. /\ p \in Opening /\ q \in Opening /\ q # << >> /\ Last(q) = "breflect" /\ Extends(p, q)
        /\ Len(d.lr.widths) = Count(q, "breflect") - 1 + Count(p, "push") - Count(q, "push")
        /\ Count(q, "push") \in Nat /\ Count(r, "breflect") \in Nat
        /\ Count(q, "breflect") = Count(r, "breflect") + 1
    BY <2>3 DEF Gauge
  <2>5. Count(p, "push") >= Count(q, "push") + 1
    <3>1. i.op = "ereflect" => p # q
      OBVIOUS
    <3>2. QED
      BY <1>1, <2>4, <3>1, ExtendsNext DEF p
  <2>6. Len(d.lr.widths) >= 1
    <3> DEFINE x == Count(p, "push")
               y == Count(q, "push")
               z == Count(q, "breflect")
               u == Count(r, "breflect")
    <3>1. /\ x \in Nat /\ y \in Nat /\ u \in Nat /\ x >= y + 1 /\ z = u + 1
          /\ Len(d.lr.widths) = z - 1 + x - y
      BY <1>1, <2>4, <2>5 DEF p
    <3> HIDE DEF x, y, z, u
    <3>2. QED
      BY <3>1
  <2>7. d.lr.widths = << >> => Len(d.lr.widths) = 0
    BY EmptySeq
  <2>8. Len(d.lr.widths) # 0
    BY <2>6
  <2>9. QED
    BY <2>7, <2>8, Zenon
<1>6. QED
  BY <1>4, <1>5

\* PUSH and POP of the page are no deeper than the page is.
LEMMA PageStackGood ==
  ASSUME NEW d, NEW k, NEW i, Ready(d, k, i), ~InPacket(d), NEW e,
         \/ i.op = "push" /\ e = PushOp(d)
         \/ i.op = "pop" /\ e = PopOp(d)
  PROVE  Good(e)
<1>1. /\ d \in State /\ d.frames # << >> /\ d.status = "page" /\ k \in Nat /\ OnPage(d, k) /\ Turn(d, k, i)
      /\ LinkInv(d) /\ d.link.mark = Len(d.stack) /\ Len(d.stack) \in Nat
      /\ Len(d.stack) <= StackMax /\ Len(d.saved) <= NestMax /\ StackMax \in Nat
      /\ (Turning(d.doc) => Kind(d.font) # "virtual")
  BY ReadyIs DEF PageDepth
<1>2. ASSUME Marks(d, e), Len(e.stack) <= StackMax, Stacks1(d, e), Widens(d, e, i), Deepens(d, e, i)
      PROVE  Good(e)
  <2>1. /\ e \in State /\ SamePage(d, e) /\ LinkInv(e) /\ e.link.mark = Len(e.stack)
        /\ e.saved = d.saved /\ e.doc = d.doc
        /\ e.status = "page" /\ e.frames = d.frames /\ e.font = d.font
        /\ e.lr.mode = d.lr.mode /\ e.lr.state = d.lr.state
    BY <1>2 DEF Marks, Stacks1, SamePage
  <2>2. Codes(d, e)
    BY <2>1 DEF Codes, SameFrame
  <2>3. i.op \notin {"breflect", "ereflect"}
    OBVIOUS
  <2>4. OnPage(e, Top(e).pc - 1)
    BY <1>1, <1>2, <2>1, <2>2, <2>3, StepKeeps
  <2>5. PageDepth(e) = Len(e.stack)
    BY <2>1 DEF PageDepth, InPacket
  <2>6. QED
    BY <1>1, <1>2, <2>1, <2>4, <2>5 DEF Good, Bounded
<1>3. CASE i.op = "push" /\ e = PushOp(d)
  <2>1. /\ Marks(d, e)
        /\ \/ e.stack = d.stack /\ e.status = "failed"
           \/ /\ Len(d.stack) < StackMax /\ Len(e.stack) = Len(d.stack) + 1
              /\ e.status = "failed" \/ Pushes(d, e)
    BY <1>1, <1>3, PushOpIs
  <2>2. Len(e.stack) <= StackMax
    BY <1>1, <2>1
  <2>3. CASE e.status = "failed"
    BY <1>1, <2>1, <2>2, <2>3 DEF Good, Bounded, Marks
  <2>4. CASE Pushes(d, e)
    <3>1. Len(d.lr.widths) \in Nat /\ d.lr.widths \in Seq(Int) /\ d.lr.width \in Int
      BY <1>1, LrFields
    <3>2. Widens(d, e, i)
      <4>1. CASE Skims(d)
        <5>1. e.lr.widths = Append(d.lr.widths, d.lr.width)
          BY <2>4, <4>1 DEF Pushes
        <5>2. Len(e.lr.widths) = Len(d.lr.widths) + 1
          BY <3>1, <5>1, AppendProperties
        <5>3. QED
          BY <1>3, <4>1, <5>2 DEF Widens
      <4>2. CASE ~Skims(d)
        BY <2>4, <3>1, <4>2 DEF Widens, Pushes
      <4>3. QED
        BY <4>1, <4>2
    <3>3. Deepens(d, e, i)
      BY <1>3, <2>4 DEF Pushes, Deepens
    <3>4. QED
      BY <1>2, <2>1, <2>2, <2>4, <3>2, <3>3 DEF Pushes
  <2>5. QED
    BY <2>1, <2>3, <2>4
<1>4. CASE i.op = "pop" /\ e = PopOp(d)
  <2>1. d.stack # << >> /\ (Skims(d) => d.lr.widths # << >>)
    BY <1>1, <1>4, PopCan
  <2>2. Marks(d, e) /\ Pops(d, e)
    BY <1>1, <1>4, <2>1, PopOpIs
  <2>3. Len(e.stack) = Len(d.stack) - 1 /\ Stacks1(d, e)
    BY <2>2 DEF Pops
  <2>4. Deepens(d, e, i) /\ Len(e.stack) <= StackMax
    BY <1>1, <1>4, <2>3 DEF Deepens
  <2>5. Widens(d, e, i)
    <3>1. Len(d.lr.widths) \in Nat /\ d.lr.widths \in Seq(Int)
      BY <1>1, LrFields
    <3>2. CASE Skims(d)
      <4>1. e.lr.widths = Front(d.lr.widths)
        BY <2>2, <3>2 DEF Pops
      <4>2. Len(e.lr.widths) = Len(d.lr.widths) - 1
        BY <2>1, <3>1, <3>2, <4>1, FrontLast
      <4>3. QED
        BY <1>4, <3>1, <3>2, <4>2 DEF Widens
    <3>3. CASE ~Skims(d)
      BY <2>2, <3>1, <3>3 DEF Widens, Pops
    <3>4. QED
      BY <3>2, <3>3
  <2>6. QED
    BY <1>2, <2>2, <2>3, <2>4, <2>5
<1>5. QED
  BY <1>3, <1>4

\* A link is begun inside a push of the page, and suspended outside of all.
LEMMA DepthIs ==
  ASSUME NEW d \in State, NEW k \in Nat, NEW i, OnPage(d, k), Turn(d, k, i)
  PROVE  Len(d.frames) = 1 => /\ IsSpecial(i, {"bann", "href"}) => Len(d.stack) >= 1
                              /\ IsSpecial(i, {"nolink"}) => Len(d.stack) = 0
<1> DEFINE c == d.frames[1].code
           p == Open(c, k)
<1>0. /\ FrameOK(d, Len(d.frames), k)
      /\ \A t : t = d.frames[Len(d.frames)].code =>
                 /\ t \in Seq(Instr) /\ Formed(t) /\ Len(t) \in Nat
                 /\ k + 1 \in 1..Len(t) /\ i = t[k + 1] /\ Open(t, k) \in Opening
                 /\ Count(Open(t, k), "push") \in Nat
  BY TurnIs, SMTT(60)
<1>. SUFFICES ASSUME Len(d.frames) = 1
              PROVE  /\ IsSpecial(i, {"bann", "href"}) => Len(d.stack) >= 1
                     /\ IsSpecial(i, {"nolink"}) => Len(d.stack) = 0
  OBVIOUS
<1>1. /\ FrameOK(d, 1, k) /\ c \in Seq(Instr) /\ Formed(c) /\ Len(c) \in Nat
      /\ k + 1 \in 1..Len(c) /\ i = c[k + 1] /\ p \in Opening /\ Count(p, "push") \in Nat
  BY <1>0
<1>2. MayFollow(SubSeq(c, 1, k), i)
  <2>1. k + 1 \in DOMAIN c /\ (k + 1) - 1 = k
    BY <1>1, LenProperties
  <2>2. MayFollow(SubSeq(c, 1, (k + 1) - 1), c[k + 1])
    BY <1>1, <2>1 DEF Formed
  <2>3. QED
    BY <1>1, <2>1, <2>2
<1>3. Len(d.stack) = Count(p, "push")
  <2>1. Depth(d, 1) = Len(d.stack) /\ Base(d, 1) = 0 /\ Ran(d, 1, k) = k
    BY DEF Depth, Base, Ran
  <2> HIDE DEF p
  <2>2. Len(d.stack) = 0 + Count(p, "push")
    BY <1>1, <2>1 DEF FrameOK, p
  <2>3. QED
    BY <1>1, <2>2
<1>4. /\ IsSpecial(i, {"bann", "href"}) => "push" \in ToSet(p)
      /\ IsSpecial(i, {"nolink"}) => p = << >>
  BY <1>2 DEF MayFollow, Open
<1> HIDE DEF p
<1>5. IsSpecial(i, {"bann", "href"}) => Count(p, "push") >= 1
  BY <1>1, <1>4, CountIn
<1>6. IsSpecial(i, {"nolink"}) => Count(p, "push") = 0
  BY <1>4, CountEmpty
<1>7. QED
  BY <1>3, <1>5, <1>6

LEMMA SpecialGood ==
  ASSUME NEW d, NEW k, NEW i, Ready(d, k, i), i.op = "xxx", NEW id \in Dict, id # NoLink,
         NEW e, e = IF Skims(d) THEN d ELSE Special(d, i, id)
  PROVE  Good(e)
<1>1. /\ d \in State /\ d.frames # << >> /\ d.status = "page" /\ k \in Nat /\ OnPage(d, k) /\ Turn(d, k, i)
      /\ LinkInv(d) /\ d.link.mark = PageDepth(d) /\ Len(d.stack) \in Nat /\ i \in Instr
      /\ Len(d.stack) <= StackMax /\ Len(d.saved) <= NestMax
      /\ (Turning(d.doc) => Kind(d.font) # "virtual")
  BY ReadyIs
<1>2. Len(d.frames) = 1 /\ i \in InstrsOf(d.doc)
  <2>1. Len(d.frames) > 1 => i.op \notin {"xxx", "breflect", "ereflect"}
    BY <1>1, TurnIs
  <2>2. Len(d.frames) = 1
    BY <1>1, <2>1, InPacketIs DEF InPacket
  <2>3. Len(d.frames) = 1 => i \in InstrsOf(d.doc)
    BY <1>1, TurnIs
  <2>4. QED
    BY <2>2, <2>3
<1>3. PageDepth(d) = Len(d.stack)
  BY <1>2 DEF PageDepth, InPacket
<1>4. Tells(d, e)
  <2>1. CASE Skims(d)
    <3>1. Tells(d, d)
      BY <1>1 DEF Tells, Relinks, SamePage, SamePlace
    <3>2. QED
      BY <2>1, <3>1
  <2>2. CASE ~Skims(d)
    <3>1. e = Special(d, i, id)
      BY <2>2
    <3>2. /\ i.special \in {"bann", "href"} => d.link.mark >= 1
          /\ i.special = "nolink" => d.link.mark = 0
      BY <1>1, <1>2, <1>3, DepthIs DEF IsSpecial
    <3>3. QED
      BY <1>1, <1>2, <3>1, <3>2, SpecialIs
  <2>3. QED
    BY <2>1, <2>2
<1>5. /\ e \in State /\ LinkInv(e) /\ e.link.mark = d.link.mark
      /\ SamePage(d, e) /\ e.status = "page" /\ e.frames = d.frames /\ e.font = d.font
      /\ e.stack = d.stack /\ e.saved = d.saved /\ e.lr = d.lr /\ e.doc = d.doc
  BY <1>1, <1>4 DEF Tells, Relinks, SamePage
<1>6. Codes(d, e)
  BY <1>5 DEF Codes, SameFrame
<1>7. Widens(d, e, i) /\ Deepens(d, e, i) /\ i.op \notin {"breflect", "ereflect"}
  <2>1. Len(d.lr.widths) \in Nat
    BY <1>1, LrFields
  <2>2. QED
    BY <1>1, <1>5, <2>1 DEF Widens, Deepens
<1>8. OnPage(e, Top(e).pc - 1)
  BY <1>1, <1>5, <1>6, <1>7, StepKeeps
<1>9. PageDepth(e) = PageDepth(d)
  BY <1>1, <1>5, <1>6, PageDepthSame
<1>10. QED
  BY <1>1, <1>5, <1>8, <1>9 DEF Good, Bounded

LEMMA EndSkimming ==
  ASSUME NEW d, d.lr.mode = Skimming
  PROVE  EndReflect(d) = Reread(d)
<1>1. d.lr.mode = 2 /\ ~(d.lr.mode > 2)
  BY DEF Skimming
<1>2. QED
  BY <1>1 DEF EndReflect, Skimming

LEMMA ReflectGood ==
  ASSUME NEW d, NEW k, NEW i, Ready(d, k, i), NEW e,
         \/ i.op = "breflect" /\ e = BeginReflect(d)
         \/ i.op = "ereflect" /\ e = EndReflect(d)
  PROVE  Good(e)
<1>1. /\ d \in State /\ d.frames # << >> /\ d.status = "page" /\ k \in Nat /\ OnPage(d, k) /\ Turn(d, k, i)
      /\ LinkInv(d) /\ d.link.mark = PageDepth(d)
      /\ Len(d.stack) <= StackMax /\ Len(d.saved) <= NestMax
  BY ReadyIs
<1>2. ASSUME e \in State, OnPage(e, Top(e).pc - 1), SamePage(d, e), SameLinks(d, e), e.status = "page",
             Len(e.frames) = Len(d.frames), Len(d.frames) = 1, e.stack = d.stack, e.saved = d.saved
      PROVE  Good(e)
  <2>1. LinkInv(e) /\ e.link = d.link
    BY <1>1, <1>2, LinkSame DEF SamePage, SameLinks
  <2>2. PageDepth(e) = PageDepth(d)
    BY <1>2 DEF PageDepth, InPacket
  <2>3. QED
    BY <1>1, <1>2, <2>1, <2>2 DEF Good, Bounded
<1>3. Len(d.frames) = 1
  <2>1. Len(d.frames) > 1 => i.op \notin {"xxx", "breflect", "ereflect"}
    BY <1>1, TurnIs
  <2>2. QED
    BY <1>1, <2>1, InPacketIs DEF InPacket
<1>4. ASSUME e \in State, Reflects(d, e), OnPage(e, Top(e).pc - 1) PROVE Good(e)
  BY <1>1, <1>2, <1>3, <1>4 DEF Reflects
<1>5. CASE i.op = "breflect" /\ e = BeginReflect(d)
  BY <1>1, <1>4, <1>5, BeginReflectKeeps
<1>6. CASE i.op = "ereflect" /\ e = EndReflect(d)
  <2>1. CASE d.lr.mode = Skimming
    <3>1. e = Reread(d)
      <4>1. e = EndReflect(d)
        BY <1>6
      <4>2. EndReflect(d) = Reread(d)
        BY <2>1, EndSkimming
      <4>3. QED
        BY <4>1, <4>2
    <3>2. /\ e \in State /\ SamePage(d, e) /\ SameLinks(d, e) /\ e.stack = d.stack /\ e.saved = d.saved
          /\ e.status \in {"page", "failed"}
          /\ e.status = "page" => /\ Rereads(d, e) /\ OnPage(e, Top(e).pc - 1)
      BY <1>1, <1>6, <2>1, <3>1, RereadKeeps
    <3>3. CASE e.status = "failed"
      BY <3>2, <3>3, FailGood DEF Fails
    <3>4. CASE e.status = "page"
      <4>1. Len(e.frames) = Len(d.frames)
        BY <3>2, <3>4 DEF Rereads, Texts
      <4>2. QED
        BY <1>2, <1>3, <3>2, <3>4, <4>1
    <3>5. QED
      BY <3>2, <3>3, <3>4
  <2>2. CASE d.lr.mode > Skimming
    BY <1>1, <1>4, <1>6, <2>2, EndInnerKeeps
  <2>3. CASE ~Skims(d)
    <3>1. e \in State /\ Unreflects(d, e) /\ OnPage(e, Top(e).pc - 1)
      BY <1>1, <1>6, <2>3, EndReflectKeeps
    <3>2. QED
      BY <1>1, <1>2, <1>3, <3>1 DEF Unreflects
  <2>4. QED
    <3>1. d.lr.mode \in Nat
      BY <1>1, LrFields
    <3>2. QED
      BY <2>1, <2>2, <2>3, <3>1 DEF Skims, Skimming
<1>7. QED
  BY <1>5, <1>6
LEMMA ExecuteGood ==
  ASSUME NEW d, NEW k, NEW i, Ready(d, k, i), NEW id \in Dict, id # NoLink,
         NEW e, e = Execute(d, i, id)
  PROVE  Good(e)
<1>1. i \in Instr
  BY ReadyIs
<1>2. /\ i.op = "set" => e = SetChar(d, i.char)
      /\ i.op = "put" => e = PutChar(d, i.char)
      /\ i.op = "fnt" => e = SelectFont(d, i.font)
      /\ i.op = "xxx" => e = IF Skims(d) THEN d ELSE Special(d, i, id)
  BY DEF Execute
<1>3. /\ i.op = "right" => e = MoveRight(d, i.by)
      /\ i.op = "w" => e = MoveW(d, i.by)
      /\ i.op = "w0" => e = MoveRight(d, d.w)
      /\ i.op = "down" => e = MoveDown(d, i.by)
      /\ i.op = "dir" => e = SetDir(d, i.dir)
  BY DEF Execute
<1>4. /\ i.op = "glyphs" => e = SetGlyphs(d, i.glyphs, i.by)
      /\ i.op = "rule" => e = SetRule(d, i.by)
      /\ i.op = "breflect" => e = BeginReflect(d)
      /\ i.op = "ereflect" => e = EndReflect(d)
  BY DEF Execute
<1>5. /\ i.op = "push" => e = IF InPacket(d) THEN Push(d) ELSE PushOp(d)
      /\ i.op = "pop" => e = IF InPacket(d) THEN Pop(d) ELSE PopOp(d)
  BY DEF Execute
<1>6. CASE i.op = "set"
  BY <1>2, <1>6, SetCharGood
<1>7. CASE i.op = "put"
  BY <1>2, <1>7, PutCharGood
<1>8. CASE i.op = "fnt"
  BY <1>2, <1>8, SelectFontGood
<1>9. CASE i.op = "xxx"
  BY <1>2, <1>9, SpecialGood
<1>10. CASE i.op \in {"right", "w", "w0", "down", "dir"}
  BY <1>3, <1>10, MovesGood
<1>11. CASE i.op \in {"glyphs", "rule"}
  BY <1>4, <1>11, DrawsGood
<1>12. CASE i.op \in {"breflect", "ereflect"}
  BY <1>4, <1>12, ReflectGood
<1>13. CASE i.op \in {"push", "pop"} /\ InPacket(d)
  BY <1>5, <1>13, PacketStackGood
<1>14. CASE i.op \in {"push", "pop"} /\ ~InPacket(d)
  BY <1>5, <1>14, PageStackGood
<1>15. QED
  <2>1. i.op \in {"set", "put", "fnt", "xxx", "right", "w", "w0", "down", "dir", "glyphs", "rule",
                  "breflect", "ereflect", "push", "pop"}
    BY <1>1 DEF Instr
  <2>2. QED
    BY <2>1, <1>6, <1>7, <1>8, <1>9, <1>10, <1>11, <1>12, <1>13, <1>14
(***************************************************************************)
(* The steps of a page.                                                     *)
(***************************************************************************)
Kept(d) == ControlInv(d) /\ LinksInv(d)

LEMMA GoodKept ==
  ASSUME NEW e, Good(e)
  PROVE  Kept(e)
BY DEF Good, Kept, ControlInv, LinksInv, Marked

\* On a page there is a frame at the top, and what it has executed is part of it.
LEMMA PageIs ==
  ASSUME NEW d, Kept(d), d.status = "page"
  PROVE  /\ d \in State /\ Bounded(d) /\ Fits(d) /\ OnPage(d, Top(d).pc - 1)
         /\ \E n \in Nat :
              /\ n = Len(d.frames) /\ n >= 1 /\ d.frames # << >> /\ Top(d) = d.frames[n] /\ Top(d) \in Frame
              /\ FrameOK(d, n, Top(d).pc - 1) /\ Top(d).code \in Seq(Instr) /\ Formed(Top(d).code)
              /\ Len(Top(d).code) \in Nat /\ Top(d).pc \in 1..Len(Top(d).code) + 1 /\ Top(d).pc - 1 \in Nat
<1> DEFINE n == Len(d.frames)
           k == Top(d).pc - 1
<1>1. d \in State /\ Bounded(d) /\ Fits(d) /\ OnPage(d, k)
  BY DEF Kept, ControlInv, LinksInv, Marked, Fits
<1>2. n \in Nat /\ n >= 1 /\ d.frames # << >>
  <2>1. Len(d.saved) \in Nat
    BY <1>1, StateFields, LenProperties DEF Saves
  <2>2. n = Len(d.saved) + 1
    BY <1>1 DEF OnPage
  <2>3. n # 0
    BY <2>1, <2>2
  <2>4. QED
    BY <1>1, <2>3, FramesLen
<1>3. Top(d) = d.frames[n]
  BY DEF Top, Last
<1>4. n \in 1..n
  BY <1>2
<1>5. Top(d) \in Frame /\ Top(d).code \in Seq(Instr) /\ FrameOK(d, n, k)
  BY <1>1, <1>3, <1>4, FrameAt DEF OnPage
<1>6. Formed(Top(d).code) /\ Len(Top(d).code) \in Nat /\ Top(d).pc \in 1..Len(Top(d).code) + 1
  BY <1>3, <1>5, LenProperties DEF FrameOK
<1>7. k \in Nat
  BY <1>6
<1> HIDE DEF n
<1>8. QED
  BY <1>1, <1>2, <1>3, <1>5, <1>6, <1>7 DEF n

\* The instruction is fetched: the frame at the top has a new place in its code.
Fetches(d, e) ==
  LET n == Len(d.frames)
  IN /\ e \in State /\ Stays(d, e) /\ SameLinks(d, e) /\ Texts(d, e)
     /\ e.frames[n].pc = Top(d).pc + 1 /\ \A j \in 1..n - 1 : e.frames[j] = d.frames[j]

LEMMA FetchIs ==
  ASSUME NEW d \in State, d.frames # << >>, NEW f \in Frame, SameText(Top(d), f), f.pc = Top(d).pc + 1,
         NEW e, e = [d EXCEPT !.frames = [d.frames EXCEPT ![Len(d.frames)] = f]]
  PROVE  Fetches(d, e)
<1>1. /\ e \in State /\ Stays(d, e) /\ SameLinks(d, e)
      /\ Len(e.frames) = Len(d.frames) /\ e.frames[Len(d.frames)] = f
      /\ \A j \in 1..Len(d.frames) - 1 : e.frames[j] = d.frames[j]
  BY SetTop
<1>2. Top(d) = d.frames[Len(d.frames)]
  BY DEF Top, Last
<1> HIDE DEF Top
<1>3. Texts(d, e)
  BY <1>1, <1>2 DEF Texts, SameFrame
<1>4. QED
  BY <1>1, <1>3 DEF Fetches

LEMMA AdvanceReady ==
  ASSUME NEW d, Kept(d), d.status = "page", Top(d).pc <= Len(Top(d).code),
         NEW e, Fetches(d, e)
  PROVE  Ready(e, Top(d).pc - 1, Top(d).code[Top(d).pc]) /\ e.pages = d.pages
<1> DEFINE t == Top(d)
           k == t.pc - 1
           c == t.code
<1>1. d \in State /\ Bounded(d) /\ Fits(d) /\ OnPage(d, k)
  BY PageIs
<1>2. PICK n \in Nat :
        /\ n = Len(d.frames) /\ n >= 1 /\ d.frames # << >> /\ t = d.frames[n] /\ t \in Frame
        /\ FrameOK(d, n, k) /\ c \in Seq(Instr) /\ Formed(c) /\ Len(c) \in Nat
        /\ t.pc \in 1..Len(c) + 1 /\ k \in Nat
  BY PageIs
<1>2a. n \in Nat /\ n >= 1
  BY <1>2
<1>3. t.pc \in Nat /\ t.pc + 1 \in Nat /\ t.pc + 1 = k + 2 /\ k + 1 = t.pc /\ t.pc \in 1..Len(c)
  BY <1>2
<1>6. t.pc <= Len(c) /\ c = d.frames[n].code
  BY <1>2
<1>7. /\ e \in State /\ Stays(d, e) /\ SameLinks(d, e) /\ Texts(d, e) /\ Len(e.frames) = n
      /\ e.frames[n].pc = k + 2 /\ \A j \in 1..n - 1 : e.frames[j] = d.frames[j]
  BY <1>2, <1>3 DEF Fetches, Texts
<1> HIDE DEF t, k, c
<1>8. Texts(d, e) /\ e.doc = d.doc /\ e.stack = d.stack /\ e.saved = d.saved /\ e.pages = d.pages
      /\ e.lr = d.lr /\ e.font = d.font /\ e.status = "page"
  BY <1>7 DEF Stays, SamePage
<1>9. e.frames # << >>
  BY <1>2, <1>7, FramesLen
<1>10. FrameOK(e, Len(e.frames), k)
  <2>1. Open(c, k) \in Opening
    <3>1. k \in 0..Len(c)
      BY <1>2, <1>3
    <3>2. QED
      BY <1>2, <3>1, OpenType
  <2>2. Count(Open(c, k), "push") \in Nat
    BY <2>1, CountType
  <2>3. Len(d.stack) \in Nat
    BY <1>1, StateFields, LenProperties DEF Stacks
  <2>4. e.frames[n].pc \in 1..Len(c) + 1
    BY <1>2, <1>3, <1>7
  <2>5. Len(e.stack) - Len(d.stack) = Count(Open(c, k), "push") - Count(Open(c, k), "push")
    BY <1>8, <2>2, <2>3
  <2>6. /\ FrameOK(d, Len(d.frames), k) /\ d.frames # << >> /\ k \in Nat
        /\ c = d.frames[Len(d.frames)].code
        /\ e.frames[Len(d.frames)].pc \in 1..Len(d.frames[Len(d.frames)].code) + 1
    BY <1>2, <1>6, <2>4
  <2> HIDE DEF Count
  <2>7. QED
    BY <1>1, <1>7, <1>8, <2>2, <2>5, <2>6, FrameMoves
<1>11. TurnsOK(e, k)
  <2>1. Ran(e, 1, k) = Ran(d, 1, k) /\ e.frames[1].code = d.frames[1].code
    <3>1. CASE n = 1
      BY <1>2, <1>7, <1>8, <3>1 DEF Ran, Texts, SameText
    <3>2. CASE n # 1
      <4>1. 1 \in 1..n - 1
        BY <1>2a, <3>2
      <4>2. e.frames[1] = d.frames[1]
        BY <1>7, <4>1
      <4>3. QED
        BY <1>2, <1>7, <3>2, <4>2 DEF Ran
    <3>3. QED
      BY <3>1, <3>2
  <2>2. TurnsOK(d, k)
    BY <1>1 DEF OnPage
  <2>3. Measuring(d, k) => Measuring(e, k)
    BY <1>8, <2>1 DEF Measuring
  <2>4. QED
    BY <1>2, <1>7, <1>8, <2>1, <2>2, <2>3 DEF TurnsOK, Skims
<1>12. OnPage(e, k)
  BY <1>1, <1>2, <1>7, <1>8, <1>10, <1>11, FramesMove
<1>13. Turn(e, k, c[t.pc])
  <2>1. e.frames[n].code = c /\ e.frames[n].pc = k + 2
    BY <1>2, <1>6, <1>7, <1>8 DEF Texts, SameText
  <2>2. QED
    BY <1>3, <1>7, <1>8, <1>9, <2>1 DEF Turn
<1>14. PageDepth(e) = PageDepth(d)
  <2>1. CASE n = 1
    BY <1>2, <1>7, <1>8, <2>1 DEF PageDepth, InPacket
  <2>2. CASE n > 1
    <3>1. e.frames[2].below = d.frames[2].below
      <4>1. CASE n = 2
        BY <1>2, <1>7, <1>8, <4>1 DEF Texts, SameText
      <4>2. CASE n > 2
        <5>1. 2 \in 1..n - 1
          BY <1>2, <4>2
        <5>2. QED
          BY <1>7, <5>1
      <4>3. QED
        BY <2>2, <4>1, <4>2
    <3>2. InPacket(d) /\ InPacket(e)
      BY <1>2, <1>7, <2>2 DEF InPacket
    <3>3. QED
      BY <3>1, <3>2 DEF PageDepth
  <2>3. QED
    BY <1>2a, <2>1, <2>2
<1>15. Bounded(e) /\ Fits(e)
  <2>1. LinkInv(e) /\ e.link = d.link
    BY <1>1, <1>7, <1>8, LinkSame DEF Fits, SameLinks
  <2>2. QED
    BY <1>1, <1>8, <1>14, <2>1 DEF Bounded, Fits
<1>16. Ready(e, k, c[t.pc]) /\ e.pages = d.pages
  BY <1>2, <1>7, <1>8, <1>12, <1>13, <1>15 DEF Ready
<1>17. QED
  BY <1>16 DEF t, k, c

LEMMA StepGood ==
  ASSUME Kept(s), Step
  PROVE  Kept(s')
<1> DEFINE f == Top(s)
           e == [s EXCEPT !.frames[Len(s.frames)].pc = @ + 1]
           i == f.code[f.pc]
           id == << s.pages, f.pc >>
<1>1. s.status = "page" /\ f.pc <= Len(f.code) /\ s' = Execute(e, i, id)
  BY DEF Step
<1>2. f.pc \in Nat /\ f.pc >= 1 /\ s.pages \in Nat
  <2>1. s \in State
    BY <1>1, PageIs
  <2>2. \E n \in Nat : f.pc \in 1..Len(f.code) + 1 /\ Len(f.code) \in Nat
    BY <1>1, PageIs
  <2>3. QED
    BY <2>1, <2>2, StateFields
<1>2a. Fetches(s, e)
  <2> DEFINE g == [f EXCEPT !.pc = f.pc + 1]
  <2>1. s \in State /\ s.frames # << >> /\ f \in Frame /\ f = s.frames[Len(s.frames)]
    BY <1>1, PageIs
  <2>2. g \in Frame /\ SameText(f, g) /\ g.pc = f.pc + 1
    BY <1>2, <2>1 DEF Frame, SameText
  <2>3. e = [s EXCEPT !.frames = [s.frames EXCEPT ![Len(s.frames)] = g]]
    BY <2>1
  <2> HIDE DEF g, e
  <2>4. QED
    BY <2>1, <2>2, <2>3, FetchIs
<1>3. id \in Dict /\ id # NoLink
  BY <1>2 DEF Dict, NoLink
<1> HIDE DEF e, i, id, f
<1>4. Ready(e, f.pc - 1, i)
  BY <1>1, <1>2a, AdvanceReady DEF i, f
<1>5. Good(s')
  BY <1>1, <1>3, <1>4, ExecuteGood
<1>6. QED
  BY <1>5, GoodKept

LEMMA LeaveGood ==
  ASSUME NEW d, Kept(d), Ending(d), NEW e, e = LeaveVf(d)
  PROVE  Good(e)
<1> DEFINE n == Len(d.frames)
<1>1. d \in State /\ Bounded(d) /\ Fits(d) /\ OnPage(d, Top(d).pc - 1) /\ d.status = "page"
  BY PageIs DEF Ending
<1>2. /\ n \in Nat /\ n > 1 /\ d.stack # << >> /\ d.saved # << >>
      /\ Len(d.stack) = d.frames[n].below + 1
  BY <1>1, EndingIs
<1>3. /\ e \in State /\ Leaves(d, e) /\ OnPage(e, Top(e).pc - 1)
      /\ Len(e.frames) = n - 1 /\ \A j \in 1..n - 1 : e.frames[j] = d.frames[j]
  BY <1>1, LeaveKeeps
<1>4. /\ e.doc = d.doc /\ SameLinks(d, e) /\ e.status = "page" /\ e.stack = Front(d.stack) /\ e.saved = Front(d.saved)
  BY <1>1, <1>3 DEF Leaves, SamePage
<1>5. /\ Len(e.stack) = Len(d.stack) - 1 /\ Len(d.stack) \in Nat
      /\ Len(e.saved) = Len(d.saved) - 1 /\ Len(d.saved) \in Nat
  <2>1. d.stack \in Seq(RegSet) /\ d.saved \in Seq(AnyFont)
    BY <1>1, StateFields DEF Stacks, Saves
  <2>2. QED
    BY <1>2, <1>4, <2>1, FrontLast
<1>6. Bounded(e)
  <2>1. StackMax \in Nat /\ NestMax \in Nat
    BY DviAssumption
  <2>2. QED
    BY <1>1, <1>5, <2>1 DEF Bounded
<1>7. LinkInv(e) /\ e.link = d.link
  BY <1>1, <1>4, LinkSame DEF Fits, SameLinks
<1> HIDE DEF n
<1>8. PageDepth(e) = PageDepth(d)
  <2>1. InPacket(d)
    BY <1>2 DEF InPacket, n
  <2>2. CASE n = 2
    <3>1. ~InPacket(e) /\ Len(e.stack) = d.frames[2].below
      <4>1. d.frames[2].below \in Nat
        <5>1. 2 \in 1..Len(d.frames)
          BY <2>2 DEF n
        <5>2. QED
          BY <1>1, <5>1, FrameAt
      <4>2. QED
        BY <1>2, <1>3, <1>5, <2>2, <4>1 DEF InPacket
    <3>2. QED
      BY <2>1, <3>1 DEF PageDepth
  <2>3. CASE n > 2
    <3>1. InPacket(e) /\ 2 \in 1..n - 1
      BY <1>2, <1>3, <2>3 DEF InPacket
    <3>2. e.frames[2] = d.frames[2]
      BY <1>3, <3>1
    <3>3. QED
      BY <2>1, <3>1, <3>2 DEF PageDepth
  <2>4. QED
    BY <1>2, <2>2, <2>3
<1>9. QED
  BY <1>1, <1>3, <1>4, <1>6, <1>7, <1>8 DEF Good, Fits

LEMMA EndPacketGood ==
  ASSUME Kept(s), EndPacket
  PROVE  Kept(s')
<1>1. Ending(s) /\ s' = LeaveVf(s)
  BY PageIs DEF EndPacket, Ending, InPacket
<1>2. QED
  BY <1>1, LeaveGood, GoodKept
\* Nothing is collected between pages.
LEMMA IdleIs ==
  ASSUME NEW d, Kept(d), d.status = "idle"
  PROVE  /\ d \in State /\ d.frames = << >> /\ d.saved = << >> /\ d.stack = << >>
         /\ d.lr.mode = Left /\ d.lr.widths = << >> /\ LinkCore(d) /\ d.link.box = {} /\ d.link.mark = 0
<1>1. /\ d \in State /\ d.frames = << >> /\ d.saved = << >> /\ d.stack = << >>
      /\ d.lr.mode = Left /\ d.lr.widths = << >> /\ LinkInv(d) /\ d.link.mark = 0
  BY DEF Kept, ControlInv, LinksInv, Marked
<1>2. d.link.tag \in Int
  BY <1>1, StateFields DEF LinkSet
<1>3. d.link.box = {}
  <2>1. d.link.box # {} => d.link.tag >= 1
    BY <1>1 DEF LinkInv, LinkCore
  <2>2. d.link.box # {} => d.link.mark >= d.link.tag
    BY <1>1 DEF LinkInv, BoxInv
  <2>3. QED
    BY <1>1, <1>2, <2>1, <2>2
<1>4. QED
  BY <1>1, <1>3 DEF LinkInv

\* How a document begins.
LEMMA FirstIs ==
  ASSUME NEW doc \in Documents
  PROVE  /\ doc.first \in Seq(Instr) /\ Formed(doc.first) /\ doc.first \in Seq(InstrsOf(doc))
         /\ Len(doc.first) \in Nat
<1>1. doc.first \in Seq(Instr) /\ Formed(doc.first)
  BY DocumentAssumption
<1>2. Len(doc.first) \in Nat /\ DOMAIN doc.first = 1..Len(doc.first)
  BY <1>1, LenProperties
<1>3. \A k \in 1..Len(doc.first) : doc.first[k] \in InstrsOf(doc)
  BY <1>2 DEF InstrsOf, ToSet
<1>4. doc.first = [k \in 1..Len(doc.first) |-> doc.first[k]]
  BY <1>1, LenProperties
<1>5. QED
  BY <1>1, <1>2, <1>3, <1>4

FirstFrame(doc) == [code |-> doc.first, pc |-> 1, set |-> << >>, start |-> Origin, below |-> 0, after |-> 0]
Carries(d, e) ==
  /\ e.doc = d.doc /\ e.saved = d.saved /\ e.lr = d.lr
  /\ e.link = d.link /\ e.own = d.own /\ e.out = d.out /\ e.annots = d.annots

Begins(d, e) ==
  /\ Carries(d, e) /\ e.status = "page" /\ e.frames = << FirstFrame(d.doc) >>
  /\ e.stack = << >> /\ e.font = NoFont

LEMMA BeginsIs ==
  ASSUME NEW d \in State, NEW e,
         e = [ WithRegs(d, Origin.regs) EXCEPT
                 !.status = "page", !.pages = @ + 1, !.stack = << >>, !.font = NoFont,
                 !.line = @ + 1, !.frames = << FirstFrame(d.doc) >> ]
  PROVE  e \in State /\ Begins(d, e)
<1> DEFINE fs == << FirstFrame(d.doc) >>
<1>1. /\ d.doc \in Documents /\ d.pages + 1 \in Nat /\ d.line + 1 \in Nat /\ << >> \in Stacks
      /\ NoFont \in AnyFont /\ "page" \in Status
  BY StateFields, EmptySeq DEF Stacks, AnyFont, Status
<1>2. Origin \in Begun
  BY DEF Origin, Begun, RegSet, AnyFont
<1>3. fs \in Frames
  <2>1. << >> \in Seq(Glyph)
    BY EmptySeq
  <2>2. d.doc.first \in Seq(Instr)
    BY <1>1, FirstIs
  <2>3. FirstFrame(d.doc) \in Frame
    BY <1>2, <2>1, <2>2 DEF FirstFrame, Frame
  <2>4. QED
    BY <2>3 DEF Frames
<1> HIDE DEF fs
<1> DEFINE a1 == [d EXCEPT !.h = 0]
           a2 == [a1 EXCEPT !.v = 0]
           a3 == [a2 EXCEPT !.w = 0]
           a4 == [a3 EXCEPT !.d = 0]
           a5 == [a4 EXCEPT !.status = "page", !.pages = d.pages + 1, !.stack = << >>]
           a6 == [a5 EXCEPT !.font = NoFont, !.line = d.line + 1]
<1>4. e = [a6 EXCEPT !.frames = fs]
  BY DEF WithRegs, Origin, fs
<1> DEFINE Like(x) == x \in State /\ Carries(d, x)
<1>5. Like(a1)
  BY DEF State, Carries
<1> HIDE DEF a1
<1>6. Like(a2)
  BY <1>5 DEF State, Carries
<1> HIDE DEF a2
<1>7. Like(a3)
  BY <1>6 DEF State, Carries
<1> HIDE DEF a3
<1>8. Like(a4)
  BY <1>7 DEF State, Carries, Direction
<1> HIDE DEF a4
<1>9. Like(a5) /\ a5.status = "page" /\ a5.stack = << >>
  BY <1>1, <1>8 DEF State, Carries
<1> HIDE DEF a5
<1>10. Like(a6) /\ a6.status = "page" /\ a6.stack = << >> /\ a6.font = NoFont
  BY <1>1, <1>9 DEF State, Carries
<1> HIDE DEF a6
<1>11. Like(e) /\ e.status = "page" /\ e.stack = << >> /\ e.font = NoFont /\ e.frames = fs
  BY <1>3, <1>4, <1>10 DEF State, Carries
<1>12. QED
  BY <1>11 DEF Begins, fs

LEMMA BeginsGood ==
  ASSUME NEW d, Kept(d), d.status = "idle", NEW e \in State, Begins(d, e)
  PROVE  Good(e)
<1> DEFINE f == FirstFrame(d.doc)
           c == d.doc.first
<1>1. /\ d \in State /\ d.saved = << >> /\ d.lr.mode = Left /\ d.lr.widths = << >>
      /\ LinkCore(d) /\ d.link.box = {} /\ d.link.mark = 0
  BY IdleIs
<1>2. /\ e.doc = d.doc /\ e.status = "page" /\ e.frames = << f >> /\ e.stack = << >> /\ e.saved = << >>
      /\ e.font = NoFont /\ e.lr.mode = 0 /\ e.lr.widths = << >>
      /\ e.link = d.link /\ e.own = d.own /\ e.out = d.out /\ e.annots = d.annots
  BY <1>1 DEF Begins, Carries, Left
<1>3. f.code = c /\ f.pc = 1 /\ f.below = 0
  BY DEF FirstFrame
<1>4. c \in Seq(Instr) /\ Formed(c) /\ c \in Seq(InstrsOf(d.doc)) /\ Len(c) \in Nat
  BY <1>1, StateFields, FirstIs
<1>5. Open(c, 0) = << >>
  BY <1>4, OpenRun
<1>6. Count(<< >>, "push") = 0 /\ Count(<< >>, "breflect") = 0
  BY CountEmpty
<1> HIDE DEF f, c
<1>7. Len(e.frames) = 1 /\ e.frames[1] = f /\ Len(e.stack) = 0 /\ Len(e.saved) = 0 /\ Len(e.lr.widths) = 0
      /\ Top(e) = f /\ ~InPacket(e)
  <2>1. Len(e.frames) = 1 /\ e.frames[1] = f /\ Len(e.stack) = 0 /\ Len(e.saved) = 0 /\ Len(e.lr.widths) = 0
    BY <1>2
  <2>2. QED
    BY <2>1 DEF Top, Last, InPacket
<1>8. FrameOK(e, 1, 0)
  <2>1. Ran(e, 1, 0) = 0 /\ Depth(e, 1) = 0 /\ Base(e, 1) = 0
    BY <1>7 DEF Ran, Depth, Base
  <2>2. 1 \in 1..Len(c) + 1
    BY <1>4
  <2>3. QED
    BY <1>2, <1>3, <1>4, <1>5, <1>6, <1>7, <2>1, <2>2 DEF FrameOK
<1>9. TurnsOK(e, 0)
  <2>1. Ran(e, 1, 0) = 0 /\ ~Skims(e)
    BY <1>2, <1>7 DEF Ran, Skims, Skimming
  <2>2. Kind(e.font) # "virtual"
    BY <1>2, NoFontAssumption, DviAssumption DEF Kind
  <2>3. QED
    BY <1>2, <1>3, <1>5, <1>6, <1>7, <2>1, <2>2 DEF TurnsOK
<1>10. OnPage(e, 0) /\ Top(e).pc - 1 = 0
  BY <1>3, <1>7, <1>8, <1>9 DEF OnPage
<1>11. LinkInv(e)
  <2>1. LinkCore(e)
    BY <1>1, <1>2, CoreSame
  <2>2. QED
    BY <1>1, <1>2, <2>1 DEF LinkInv, BoxInv
<1>12. Bounded(e) /\ PageDepth(e) = 0
  BY <1>7, DviAssumption DEF Bounded, PageDepth
<1>13. QED
  BY <1>1, <1>2, <1>10, <1>11, <1>12 DEF Good

LEMMA BopGood ==
  ASSUME Kept(s), Bop
  PROVE  Kept(s')
<1>1. s.status = "idle" /\ s \in State
  BY IdleIs DEF Bop
<1>2. s' \in State /\ Begins(s, s')
  BY <1>1, BeginsIs DEF Bop, FirstFrame
<1>3. QED
  BY <1>1, <1>2, BeginsGood, GoodKept

(***************************************************************************)
(* Reading: what has been read stays, and the next instruction may follow.  *)
(***************************************************************************)
LEMMA FormedMore ==
  ASSUME NEW c \in Seq(Instr), Formed(c), NEW i \in Instr, MayFollow(c, i)
  PROVE  Formed(Append(c, i))
<1> DEFINE a == Append(c, i)
<1>1. a \in Seq(Instr) /\ Len(c) \in Nat /\ Len(a) = Len(c) + 1 /\ a[Len(c) + 1] = i
      /\ \A k \in 1..Len(c) : a[k] = c[k]
  BY AppendProperties, LenProperties
<1>2. DOMAIN a = 1..Len(c) + 1 /\ DOMAIN c = 1..Len(c)
  BY <1>1, LenProperties
<1> HIDE DEF a
<1>3. \A k \in 0..Len(c) : SubSeq(a, 1, k) = SubSeq(c, 1, k)
  <2>1. SUFFICES ASSUME NEW k \in 0..Len(c) PROVE SubSeq(a, 1, k) = SubSeq(c, 1, k)
    OBVIOUS
  <2>2. k \in Nat /\ k <= Len(c) /\ k <= Len(a)
    BY <1>1
  <2> DEFINE x == SubSeq(a, 1, k)
             y == SubSeq(c, 1, k)
             m == IF 1 <= k THEN k - 1 + 1 ELSE 0
  <2>3. \A j \in 1..k : a[j] \in Instr /\ c[j] \in Instr
    <3>1. \A j \in 1..k : j \in 1..Len(a) /\ j \in 1..Len(c)
      BY <1>1, <2>2
    <3>2. QED
      BY <1>1, <3>1, ElementOfSeq
  <2>4. x \in Seq(Instr) /\ Len(x) = m /\ \A j \in 1..k - 1 + 1 : x[j] = a[1 + j - 1]
    BY <2>2, <2>3, SubSeqProperties
  <2>5. y \in Seq(Instr) /\ Len(y) = m /\ \A j \in 1..k - 1 + 1 : y[j] = c[1 + j - 1]
    BY <2>2, <2>3, SubSeqProperties
  <2>6. m = k
    BY <2>2
  <2> HIDE DEF x, y, m
  <2>7. \A j \in 1..Len(x) : x[j] = y[j]
    <3>1. \A j \in 1..k : j \in 1..k - 1 + 1 /\ 1 + j - 1 = j /\ j \in 1..Len(c)
      BY <1>1, <2>2
    <3>2. QED
      BY <1>1, <2>4, <2>5, <2>6, <3>1
  <2>8. Len(x) = Len(y)
    BY <2>4, <2>5
  <2>9. x = y
    BY <2>4, <2>5, <2>7, <2>8, SeqEqual
  <2>10. QED
    BY <2>9 DEF x, y
<1>4. SubSeq(c, 1, Len(c)) = c
  BY SubSeqFull
<1>5. ASSUME NEW n \in 1..Len(c) + 1 PROVE MayFollow(SubSeq(a, 1, n - 1), a[n])
  <2>1. CASE n = Len(c) + 1
    <3>1. n - 1 = Len(c) /\ Len(c) \in 0..Len(c)
      BY <1>1, <2>1
    <3>2. QED
      BY <1>1, <1>3, <1>4, <2>1, <3>1
  <2>2. CASE n # Len(c) + 1
    <3>1. n \in 1..Len(c) /\ n - 1 \in 0..Len(c)
      BY <1>1, <2>2
    <3>2. MayFollow(SubSeq(c, 1, n - 1), c[n])
      BY <1>2, <3>1 DEF Formed
    <3>3. QED
      BY <1>1, <1>3, <3>1, <3>2
  <2>3. QED
    BY <2>1, <2>2
<1>6. QED
  BY <1>2, <1>5 DEF Formed, a

Reads(d, e, i) ==
  /\ SameLinks(d, e) /\ e.doc = d.doc /\ e.status = d.status /\ e.font = d.font /\ e.stack = d.stack
  /\ e.saved = d.saved /\ e.lr = d.lr /\ Len(e.frames) = 1 /\ SamePlace(d, e)
  /\ e.frames[1] = [d.frames[1] EXCEPT !.code = Append(d.frames[1].code, i)]

LEMMA ReadIs ==
  ASSUME NEW d \in State, Len(d.frames) = 1, d.left > 0, NEW i \in Instr,
         NEW e, e = [d EXCEPT !.frames[1].code = Append(@, i), !.left = @ - 1]
  PROVE  e \in State /\ Reads(d, e, i)
<1> DEFINE f == d.frames[1]
           a == Append(f.code, i)
           g == [f EXCEPT !.code = a]
           m == [d EXCEPT !.frames = [d.frames EXCEPT ![Len(d.frames)] = g]]
<1>1. f \in Frame /\ f.code \in Seq(Instr) /\ d.frames # << >>
  <2>1. 1 \in 1..Len(d.frames)
    OBVIOUS
  <2>2. QED
    BY <2>1, FrameAt, OneFrame
<1>2. a \in Seq(Instr)
  BY <1>1, AppendProperties
<1>3. d.left - 1 \in Nat
  BY StateFields
<1>4. e = [m EXCEPT !.left = d.left - 1]
  OBVIOUS
<1> HIDE DEF f, a
<1>5. g \in Frame
  BY <1>1, <1>2 DEF Frame
<1> HIDE DEF g
<1>6. m \in State /\ Stays(d, m) /\ SameLinks(d, m) /\ Len(m.frames) = 1 /\ m.frames[1] = g
  <2> DEFINE n == Len(d.frames)
  <2>1. n = 1
    OBVIOUS
  <2>2. m \in State /\ Stays(d, m) /\ SameLinks(d, m) /\ Len(m.frames) = n /\ m.frames[n] = g
    BY <1>1, <1>5, SetTop
  <2> HIDE DEF n, m
  <2>3. QED
    BY <2>1, <2>2
<1> HIDE DEF m
<1>7. e \in State /\ e.frames = m.frames /\ SameLinks(m, e) /\ Stays(m, [e EXCEPT !.left = m.left])
  BY <1>3, <1>4, <1>6 DEF State, SameLinks, Stays, SamePage, SamePlace
<1>8. /\ e.doc = m.doc /\ e.status = m.status /\ e.font = m.font /\ e.stack = m.stack
      /\ e.saved = m.saved /\ e.lr = m.lr /\ SamePlace(m, e)
  BY <1>4, <1>6 DEF State, SamePlace
<1>9. QED
  BY <1>6, <1>7, <1>8 DEF Reads, Stays, SamePage, SameLinks, SamePlace, f, a, g

LEMMA ReadGood ==
  ASSUME NEW d, Kept(d), d.status = "page", ~InPacket(d), Top(d).pc > Len(Top(d).code),
         NEW i \in d.doc.then, MayFollow(d.frames[1].code, i), NEW e \in State, Reads(d, e, i)
  PROVE  Good(e)
<1> DEFINE t == Top(d)
           c == t.code
           a == Append(c, i)
           k == t.pc - 1
<1>1. d \in State /\ Bounded(d) /\ Fits(d) /\ OnPage(d, k)
  BY PageIs
<1>2. /\ Len(d.frames) = 1 /\ t = d.frames[1] /\ FrameOK(d, 1, k) /\ c \in Seq(Instr) /\ Formed(c)
      /\ Len(c) \in Nat /\ t.pc \in 1..Len(c) + 1 /\ k \in Nat /\ t \in Frame
  <2>1. PICK n \in Nat :
          /\ n = Len(d.frames) /\ n >= 1 /\ d.frames # << >> /\ t = d.frames[n] /\ t \in Frame
          /\ FrameOK(d, n, k) /\ c \in Seq(Instr) /\ Formed(c) /\ Len(c) \in Nat
          /\ t.pc \in 1..Len(c) + 1 /\ k \in Nat
    BY PageIs
  <2>2. n >= 1 /\ ~(n > 1) /\ n \in Nat
    BY <2>1 DEF InPacket
  <2>3. n = 1
    BY <2>2
  <2> HIDE DEF t, c, k
  <2>4. QED
    BY <2>1, <2>3
<1>3. k = Len(c) /\ t.pc = Len(c) + 1
  BY <1>2
<1>4. i \in Instr /\ i \in InstrsOf(d.doc)
  <2>1. d.doc \in Documents
    BY <1>1, StateFields
  <2>2. QED
    BY <2>1, DocumentAssumption DEF InstrsOf
<1>5. MayFollow(c, i)
  BY <1>2
<1>6. /\ e.doc = d.doc /\ e.status = "page" /\ e.font = d.font /\ e.stack = d.stack /\ e.saved = d.saved
      /\ e.lr = d.lr /\ Len(e.frames) = 1 /\ SameLinks(d, e) /\ e.frames[1] = [t EXCEPT !.code = a]
  BY <1>2 DEF Reads
<1> HIDE DEF c, a, t, k
<1>7. a \in Seq(Instr) /\ Len(a) = Len(c) + 1 /\ \A j \in 1..Len(c) : a[j] = c[j]
  BY <1>2, <1>4, AppendProperties DEF a
<1>8. Formed(a)
  BY <1>2, <1>4, <1>5, FormedMore DEF a
<1>9. \A m \in 0..Len(c) : Open(a, m) = Open(c, m)
  BY <1>2, <1>4, OpenSame DEF a
<1>10. e.frames[1].code = a /\ e.frames[1].pc = t.pc /\ e.frames[1].below = t.below /\ t.code = c
  BY <1>2, <1>6 DEF Frame, c
<1>11. Open(a, k) = Open(c, k)
  BY <1>2, <1>3, <1>9
<1>12. FrameOK(e, 1, k)
  <2>1. c \in Seq(InstrsOf(d.doc)) /\ t.below = 0 /\ Depth(d, 1) = Base(d, 1) + Count(Open(c, Ran(d, 1, k)), "push")
    BY <1>2, <1>10 DEF FrameOK
  <2>2. a \in Seq(InstrsOf(d.doc))
    BY <1>4, <2>1, AppendProperties DEF a
  <2>3. Ran(d, 1, k) = k /\ Ran(e, 1, k) = k /\ Depth(e, 1) = Depth(d, 1) /\ Base(e, 1) = Base(d, 1)
    BY <1>2, <1>6 DEF Ran, Depth, Base
  <2>4. t.pc \in 1..Len(a) + 1
    BY <1>2, <1>7
  <2>5. QED
    BY <1>6, <1>8, <1>10, <1>11, <2>1, <2>2, <2>3, <2>4 DEF FrameOK
<1>13. TurnsOK(e, k)
  <2>1. TurnsOK(d, k) /\ d.frames[1].code = c
    BY <1>1, <1>2, <1>10 DEF OnPage
  <2>2. Ran(d, 1, k) = k /\ Ran(e, 1, k) = k
    BY <1>2, <1>6 DEF Ran
  <2>3. Measuring(d, k) => Measuring(e, k)
    <3> DEFINE b == d.lr.state.pc - 1
    <3>1. SUFFICES ASSUME Measuring(d, k) PROVE Measuring(e, k)
      OBVIOUS
    <3>2. /\ d.lr.state \in Segment /\ b \in 1..k /\ c[b].op = "breflect"
          /\ \A m \in b..k : Extends(Open(c, m), Open(c, b))
          /\ d.lr.mode - Skimming = Count(Open(c, k), "breflect") - Count(Open(c, b), "breflect")
          /\ Len(d.lr.widths) = Count(Open(c, b), "breflect") - 1 + Count(Open(c, k), "push") - Count(Open(c, b), "push")
          /\ d.lr.state.mode = (Count(Open(c, b), "breflect") - 1) % 2 /\ Kind(d.lr.state.font) # "virtual"
      BY <2>1, <3>1 DEF Measuring
    <3>3. b \in 1..Len(c) /\ b \in 0..Len(c) /\ \A m \in b..k : m \in 0..Len(c)
      BY <1>2, <1>3, <3>2
    <3>4. a[b].op = "breflect" /\ Open(a, b) = Open(c, b) /\ \A m \in b..k : Extends(Open(a, m), Open(a, b))
      BY <1>7, <1>9, <3>2, <3>3
    <3>5. e.lr.state.pc - 1 = b
      BY <1>6
    <3> HIDE DEF b
    <3>6. QED
      BY <1>6, <1>10, <1>11, <3>2, <3>4, <3>5 DEF Measuring
  <2>4. QED
    BY <1>2, <1>6, <1>10, <1>11, <2>1, <2>2, <2>3 DEF TurnsOK, Skims
<1>14. OnPage(e, Top(e).pc - 1)
  <2>1. Top(e) = e.frames[1]
    BY <1>6 DEF Top, Last
  <2>2. Top(e).pc - 1 = k
    BY <1>10, <2>1 DEF k
  <2>3. Len(e.frames) = Len(e.saved) + 1
    BY <1>1, <1>2, <1>6 DEF OnPage
  <2>4. \A j \in 1..Len(e.frames) : j = 1
    BY <1>6
  <2>5. QED
    BY <1>12, <1>13, <2>2, <2>3, <2>4 DEF OnPage
<1>15. LinkInv(e) /\ e.link = d.link
  BY <1>1, <1>6, LinkSame DEF Fits, SameLinks
<1>16. PageDepth(e) = PageDepth(d)
  BY <1>2, <1>6 DEF PageDepth, InPacket
<1>17. QED
  BY <1>1, <1>6, <1>14, <1>15, <1>16 DEF Good, Fits, Bounded

LEMMA ReadsGood ==
  ASSUME Kept(s), Read
  PROVE  Kept(s')
<1>1. /\ s.status = "page" /\ ~InPacket(s) /\ Top(s).pc > Len(Top(s).code) /\ s.left > 0
      /\ s \in State /\ Len(s.frames) = 1
  <2>1. s.status = "page" /\ ~InPacket(s) /\ Top(s).pc > Len(Top(s).code) /\ s.left > 0
    BY DEF Read, Reading
  <2>2. PICK n \in Nat : s \in State /\ n = Len(s.frames) /\ n >= 1
    BY <2>1, PageIs
  <2>3. n >= 1 /\ ~(n > 1)
    BY <2>1, <2>2 DEF InPacket
  <2>4. n = 1
    BY <2>3
  <2>5. QED
    BY <2>1, <2>2, <2>4
<1>2. PICK i \in s.doc.then :
        /\ MayFollow(s.frames[1].code, i)
        /\ s' = [s EXCEPT !.frames[1].code = Append(@, i), !.left = @ - 1]
  BY DEF Read
<1>3. i \in Instr
  BY <1>1, StateFields, DocumentAssumption
<1>4. s' \in State /\ Reads(s, s', i)
  BY <1>1, <1>2, <1>3, ReadIs
<1>5. QED
  BY <1>1, <1>2, <1>4, ReadGood, GoodKept

(***************************************************************************)
(* The end of a page, where nothing is open, and the beginning of it all.   *)
(***************************************************************************)
Ends(d, e) ==
  /\ SameLinks(d, e) /\ e.doc = d.doc /\ e.stack = d.stack /\ e.saved = d.saved /\ e.lr = d.lr
  /\ e.frames = << >>

\* At the end of a page nothing is being measured.
LEMMA NothingOpen ==
  ASSUME NEW d \in State, NEW k \in Nat, OnPage(d, k), Len(d.frames) = 1, NEW c \in Seq(Instr),
         c = d.frames[1].code, Formed(c), k = Len(c), Open(c, k) = << >>
  PROVE  d.lr.mode = Left /\ d.lr.widths = << >>
<1>1. TurnsOK(d, k) /\ Ran(d, 1, k) = k
  BY DEF OnPage, Ran
<1>2. Count(<< >>, "breflect") = 0 /\ 0 % 2 = 0
  BY CountEmpty
<1>3. ~Skims(d)
  <2>1. SUFFICES ASSUME Skims(d) PROVE FALSE
    OBVIOUS
  <2> DEFINE b == d.lr.state.pc - 1
             q == Open(c, b)
             r == Open(c, b - 1)
  <2>2. b \in 1..k /\ c[b].op = "breflect" /\ Extends(<< >>, q)
    <3>1. Measuring(d, k)
      BY <1>1, <2>1 DEF TurnsOK
    <3>2. b \in 1..k /\ c[b].op = "breflect" /\ \A m \in b..k : Extends(Open(c, m), q)
      BY <3>1 DEF Measuring
    <3>3. k \in b..k
      BY <3>2
    <3>4. QED
      BY <3>2, <3>3
  <2>3. b \in 1..Len(c) /\ b - 1 \in 0..Len(c)
    BY <2>2
  <2> HIDE DEF b
  <2>4. Turns(r, c[b], q) /\ r \in Opening
    BY <2>3, OpenTurns, OpenType
  <2> HIDE DEF q, r
  <2>5. q = Append(r, "breflect")
    BY <2>2, <2>4 DEF Turns
  <2>6. Len(q) = Len(r) + 1 /\ Len(r) \in Nat
    BY <2>4, <2>5, AppendProperties, LenProperties DEF Opening, Kinds
  <2>7. Len(q) <= 0
    BY <2>2 DEF Extends
  <2>8. QED
    BY <2>6, <2>7
<1>4. d.lr.mode = 0 /\ Len(d.lr.widths) = 0
  BY <1>1, <1>2, <1>3 DEF TurnsOK
<1>5. d.lr.widths = << >>
  BY <1>4, LrFields, EmptySeq
<1>6. QED
  BY <1>4, <1>5 DEF Left

LEMMA EopGood ==
  ASSUME Kept(s), Eop
  PROVE  Kept(s')
<1> DEFINE t == Top(s)
           c == t.code
           k == t.pc - 1
<1>1. s.status = "page" /\ ~InPacket(s) /\ t.pc > Len(c) /\ Pending(c) = << >>
  BY DEF Eop, Reading
<1>2. s \in State /\ Bounded(s) /\ Fits(s) /\ OnPage(s, k)
  BY <1>1, PageIs
<1>3. PICK n \in Nat :
          /\ n = Len(s.frames) /\ n >= 1 /\ s.frames # << >> /\ t = s.frames[n] /\ t \in Frame
          /\ FrameOK(s, n, k) /\ c \in Seq(Instr) /\ Formed(c) /\ Len(c) \in Nat
          /\ t.pc \in 1..Len(c) + 1 /\ k \in Nat
  BY <1>1, PageIs
<1>4. n = 1 /\ k = Len(c)
  <2>1. n >= 1 /\ ~(n > 1) /\ n \in Nat
    BY <1>1, <1>3 DEF InPacket
  <2>2. t.pc \in 1..Len(c) + 1 /\ Len(c) \in Nat /\ t.pc > Len(c)
    BY <1>1, <1>3
  <2>3. QED
    BY <2>1, <2>2
<1>5. Open(c, k) = << >>
  BY <1>1, <1>3, <1>4, OpenWhole
<1>6. CASE s.stack # << >>
  <2>1. s' = Fail(s)
    BY <1>6 DEF Eop
  <2>2. s' \in State /\ Fails(s, s')
    BY <1>2, <2>1, FailIs
  <2>3. LinkInv(s')
    BY <1>2, <2>2, LinkSame DEF Fails, SamePage, Fits
  <2>4. QED
    BY <1>2, <2>2, <2>3 DEF Kept, ControlInv, LinksInv, Fails, Bounded
<1>7. CASE s.stack = << >>
  <2> DEFINE e == [s EXCEPT !.status = "idle", !.frames = << >>]
  <2>1. s' = e
    BY <1>7 DEF Eop
  <2>2. << >> \in Frames
    BY EmptySeq DEF Frames
  <2>3. e \in State /\ Ends(s, e) /\ e.status = "idle"
    BY <1>2, <2>2 DEF State, Status, Ends, SameLinks
  <2> HIDE DEF e
  <2>4. s.lr.mode = Left /\ s.lr.widths = << >>
    <3>1. Len(s.frames) = 1 /\ c = s.frames[1].code
      BY <1>3, <1>4
    <3> HIDE DEF c, k
    <3>2. QED
      BY <1>2, <1>3, <1>4, <1>5, <3>1, NothingOpen
  <2>5. s.saved = << >>
    <3>1. s.saved \in Seq(AnyFont) /\ Len(s.saved) \in Nat
      BY <1>2, StateFields, LenProperties DEF Saves
    <3>2. n = Len(s.saved) + 1
      BY <1>2, <1>3 DEF OnPage
    <3>3. Len(s.saved) = 0
      BY <1>4, <3>1, <3>2
    <3>4. QED
      BY <3>1, <3>3, EmptySeq
  <2>6. s.link.mark = 0
    <3>1. PageDepth(s) = Len(s.stack)
      BY <1>1 DEF PageDepth
    <3>2. QED
      BY <1>2, <1>7, <3>1 DEF Fits
  <2>7. LinkInv(e) /\ e.link = s.link
    BY <1>2, <2>3, LinkSame DEF Fits, Ends, SameLinks
  <2>8. Kept(e)
    BY <1>2, <1>7, <2>3, <2>4, <2>5, <2>6, <2>7 DEF Kept, ControlInv, LinksInv, Marked, Bounded, Ends
  <2>9. QED
    BY <2>1, <2>8
<1>8. QED
  BY <1>6, <1>7

LEMMA StartKept ==
  ASSUME NEW doc \in Documents, NEW e, e = Start(doc)
  PROVE  Kept(e)
<1>1. << >> \in Frames /\ << >> \in Stacks /\ << >> \in Saves /\ << >> \in Outs /\ << >> \in Annots
      /\ << >> \in Widths /\ << >> \in Segments
  BY EmptySeq DEF Frames, Stacks, Saves, Outs, Annots, Widths, Segments
<1>2. doc.ops \in Nat
  BY DocumentAssumption
<1> DEFINE r == [mode |-> Left, width |-> 0, widths |-> << >>, state |-> << >>]
           l == [dict |-> NoLink, on |-> TRUE, boxes |-> FALSE, tag |-> -1, mark |-> 0,
                 box |-> {}, broken |-> FALSE]
           o == [annot_dict |-> NoLink, pending |-> "none"]
<1>3. r \in LrSet /\ l \in LinkSet /\ o \in OwnSet
  BY <1>1 DEF LrSet, LinkSet, OwnSet, Dict, NoLink, Left
<1>4. /\ e.status = "idle" /\ e.doc = doc /\ e.frames = << >> /\ e.stack = << >> /\ e.saved = << >>
      /\ e.lr = r /\ e.link = l /\ e.own = o /\ e.out = << >> /\ e.annots = << >>
  BY DEF Start
<1>5. e \in State
  BY <1>1, <1>2, <1>3 DEF Start, State, Status, Direction, AnyFont
<1>6. Bounded(e)
  BY <1>4, DviAssumption DEF Bounded
<1>7. LinkCore(e)
  <2>1. DOMAIN e.out = {} /\ DOMAIN e.annots = {}
    BY <1>4
  <2>2. OneLine(e, e.link.box)
    BY <1>4 DEF OneLine
  <2>3. QED
    BY <1>4, <2>1, <2>2 DEF LinkCore
<1>8. BoxInv(e)
  BY <1>4 DEF BoxInv
<1>9. QED
  BY <1>4, <1>5, <1>6, <1>7, <1>8 DEF Kept, ControlInv, LinksInv, LinkInv, Marked

(***************************************************************************)
(* The invariant and the theorems.                                          *)
(***************************************************************************)
DviInv == Kept(s)

LEMMA DviInvHolds == DviSpec => []DviInv
<1>1. DviInit => DviInv
  BY StartKept DEF DviInit, DviInv
<1>2. DviInv /\ [DviNext]_s => DviInv'
  <2>1. SUFFICES ASSUME DviInv, [DviNext]_s PROVE DviInv'
    OBVIOUS
  <2>2. CASE Bop
    BY <2>1, <2>2, BopGood DEF DviInv
  <2>3. CASE Read
    BY <2>1, <2>3, ReadsGood DEF DviInv
  <2>4. CASE Step
    BY <2>1, <2>4, StepGood DEF DviInv
  <2>5. CASE EndPacket
    BY <2>1, <2>5, EndPacketGood DEF DviInv
  <2>6. CASE Eop
    BY <2>1, <2>6, EopGood DEF DviInv
  <2>7. CASE UNCHANGED s
    BY <2>1, <2>7 DEF DviInv
  <2>8. QED
    BY <2>1, <2>2, <2>3, <2>4, <2>5, <2>6, <2>7 DEF DviNext
<1>3. QED
  BY <1>1, <1>2, PTL DEF DviSpec

\* The depths of the stacks agree with the frames that are being executed: every
\* packet has its font saved and the registers of its character pushed, and no stack
\* grows past its limit (dvi_vf_init, dvi_vf_finish, dvi_push, dvi_pop).
THEOREM DviTypeCorrect == DviSpec => []DviTypeOK
<1>1. DviInv => DviTypeOK
  <2>1. SUFFICES ASSUME Kept(s) PROVE DviTypeOK
    BY DEF DviInv
  <2>2. s \in State /\ Bounded(s)
    BY <2>1 DEF Kept, ControlInv
  <2>3. /\ s.status \in Status /\ s.font \in AnyFont /\ Len(s.stack) \in Nat /\ Len(s.saved) \in Nat
        /\ StackMax \in Nat /\ NestMax \in Nat
    BY <2>2, StateFields, LenProperties, DviAssumption DEF Stacks, Saves
  <2>4. Len(s.stack) \in 0..StackMax /\ Len(s.saved) \in 0..NestMax
    BY <2>2, <2>3 DEF Bounded
  <2>5. ASSUME s.status = "page"
        PROVE  /\ Len(s.frames) = Len(s.saved) + 1
               /\ Len(s.stack) >= Len(s.saved)
               /\ \A n \in DOMAIN s.frames : s.frames[n].pc \in 1..Len(s.frames[n].code) + 1
               /\ ~Skims(s) =>
                    LET page == s.frames[1]
                        segments == Count(Pending(SubSeq(page.code, 1, page.pc - 1)), "breflect")
                    IN Len(s.lr.widths) = segments /\ s.lr.mode = segments % 2
    <3> DEFINE k == Top(s).pc - 1
    <3>1. OnPage(s, k) /\ k \in Nat
      BY <2>1, <2>5, PageIs
    <3>2. PICK n \in Nat : /\ n = Len(s.frames) /\ n >= 1 /\ FrameOK(s, n, k) /\ Top(s) = s.frames[n]
                           /\ Top(s).code \in Seq(Instr) /\ Len(Top(s).code) \in Nat
                           /\ Top(s).pc \in 1..Len(Top(s).code) + 1
      BY <2>1, <2>5, PageIs
    <3> DEFINE c == Top(s).code
               f == s.frames[n]
    <3>3. Len(s.frames) = Len(s.saved) + 1 /\ \A j \in 1..Len(s.frames) : FrameOK(s, j, k)
      BY <3>1 DEF OnPage
    <3>4. Count(Open(c, k), "push") \in Nat
      <4>1. k \in 0..Len(c)
        BY <3>2
      <4>2. QED
        BY <3>2, <4>1, OpenType, CountType
    <3>5. Len(s.stack) >= Len(s.saved)
      <4>1. CASE n = 1
        <5>1. Len(s.saved) = 0
          BY <2>3, <3>2, <3>3, <4>1
        <5>2. QED
          BY <2>3, <5>1
      <4>2. CASE n > 1
        <5>1. Depth(s, n) = Len(s.stack) /\ Base(s, n) = f.below + 1 /\ Ran(s, n, k) = k
          BY <3>2, <4>2 DEF Depth, Base, Ran
        <5>2. f.below >= n - 2 /\ Len(s.stack) = f.below + 1 + Count(Open(c, k), "push")
          BY <3>2, <4>2, <5>1 DEF FrameOK
        <5>3. f.below \in Nat
          <6>1. n \in 1..Len(s.frames)
            BY <3>2
          <6>2. QED
            BY <2>2, <6>1, FrameAt
        <5>4. n = Len(s.saved) + 1
          BY <3>2, <3>3
        <5> HIDE DEF f, c, k
        <5>5. QED
          BY <2>3, <3>4, <5>2, <5>3, <5>4
      <4>3. n = 1 \/ n > 1
        <5>1. n \in Nat /\ n >= 1
          BY <3>2
        <5>2. QED
          BY <5>1
      <4>4. QED
        BY <4>1, <4>2, <4>3
    <3>6. \A j \in DOMAIN s.frames : s.frames[j].pc \in 1..Len(s.frames[j].code) + 1
      BY <2>2, <3>3, FramesLen DEF FrameOK
    <3>7. ASSUME ~Skims(s)
          PROVE  LET page == s.frames[1]
                     segments == Count(Pending(SubSeq(page.code, 1, page.pc - 1)), "breflect")
                 IN Len(s.lr.widths) = segments /\ s.lr.mode = segments % 2
      <4>1. Ran(s, 1, k) = s.frames[1].pc - 1
        BY <3>2 DEF Ran
      <4>2. TurnsOK(s, k)
        BY <3>1 DEF OnPage
      <4>3. QED
        BY <3>7, <4>1, <4>2 DEF TurnsOK, Open
    <3>8. QED
      BY <3>3, <3>5, <3>6, <3>7
  <2>6. QED
    BY <2>3, <2>4, <2>5 DEF DviTypeOK, Status, AnyFont
<1>2. QED
  BY <1>1, DviInvHolds, PTL

\* A glyph is in exactly one rectangle of the link it was set in, or in the box that
\* is being collected for it, and a glyph of no link is in none, whatever the depths,
\* the lines, the packets and the suspended links (pdf_doc_expand_box, dvi_mark_depth).
THEOREM LinksCoverCorrect == DviSpec => []LinksCover
<1>1. DviInv => LinksCover
  BY DEF DviInv, Kept, LinksInv, LinkInv, LinkCore, Covered, Rects, LinksCover
<1>2. QED
  BY <1>1, DviInvHolds, PTL

\* A rectangle, or the box being collected, never holds glyphs of two lines
\* (dvi_mark_depth flushes the box on the way back to the line).
THEOREM LinesApartCorrect == DviSpec => []LinesApart
<1>1. DviInv => LinesApart
  BY DEF DviInv, Kept, LinksInv, LinkInv, LinkCore, OneLine, LinesApart
<1>2. QED
  BY <1>1, DviInvHolds, PTL
==============================================================================
