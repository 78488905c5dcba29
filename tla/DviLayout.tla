------------------------------ MODULE DviLayout ------------------------------
(***************************************************************************)
(* What typesetting a page promises, and the properties of Dvi that say so: *)
(* every glyph stands where the instructions of its page or packet put it,  *)
(* and every glyph of a link is in one of the rectangles of that link.      *)
(***************************************************************************)
EXTENDS Dvi

\* The instruction that closes what instruction n opens.
Closing(code, n) ==
  LET open(k) == Pending(SubSeq(code, 1, k))
  IN CHOOSE m \in n + 1..Len(code) :
       /\ open(m) = open(n - 1)
       /\ \A k \in n..m - 1 : open(k) # open(n - 1)

\* How far the instructions n + 1..m - 1 move, those between push and pop apart.
Measure(a, i) ==
  LET by == CASE i.op = "set" -> Width[a.font][i.char]
              [] i.op \in {"right", "rule", "glyphs"} -> i.by
              [] OTHER -> 0
  IN CASE i.op = "push" -> [a EXCEPT !.depth = @ + 1]
       [] i.op = "pop"  -> [a EXCEPT !.depth = @ - 1]
       [] i.op = "fnt"  -> [a EXCEPT !.font = i.font]
       [] OTHER -> IF a.depth = 0 THEN [a EXCEPT !.w = @ + by] ELSE a
SegmentWidth(code, n, m, font) ==
  LET at[k \in 0..m - 1 - n] == IF k = 0 THEN [w |-> 0, font |-> font, depth |-> 0]
                                ELSE Measure(at[k - 1], code[n + k])
  IN at[m - 1 - n].w

\* A layout in progress: the registers, the font, the direction, what was
\* pushed, the widths of open segments and the glyphs with their places.
ShiftRegs(r, x) == CASE r.d = 0 -> [r EXCEPT !.h = @ + x]
                     [] r.d = 1 -> [r EXCEPT !.v = @ + x]
                     [] r.d = 3 -> [r EXCEPT !.v = @ - x]
SinkRegs(r, y) == CASE r.d = 0 -> [r EXCEPT !.v = @ + y]
                    [] r.d = 1 -> [r EXCEPT !.h = @ - y]
                    [] r.d = 3 -> [r EXCEPT !.h = @ + y]
Shift(a, x) == [a EXCEPT !.regs = ShiftRegs(@, x)]
Sink(a, y) == [a EXCEPT !.regs = SinkRegs(@, y)]
Place(a, what) == [a EXCEPT !.set = Append(@, [font |-> a.font, char |-> what, h |-> a.regs.h,
                                               v |-> a.regs.v, d |-> a.regs.d])]
\* A glyph stands at the left of its box whichever way the text runs.
Box(a, what, w) == IF a.sign = 1 THEN Shift(Place(a, what), w) ELSE Place(Shift(a, -w), what)

\* So does a run of glyphs, each at its place in the box of the run.  Places are
\* those of the paper, whatever the direction.
PlaceAt(a, g) == [ Place([a EXCEPT !.regs.h = @ + g.x], g.char) EXCEPT !.regs = a.regs ]
PlaceAll(a, glyphs) ==
  LET at[n \in 0..Len(glyphs)] == IF n = 0 THEN a ELSE PlaceAt(at[n - 1], glyphs[n])
  IN at[Len(glyphs)]
Run(a, glyphs, w) ==
  IF a.sign = 1 THEN Shift(PlaceAll(a, glyphs), w) ELSE PlaceAll(Shift(a, -w), glyphs)

\* Text in the other direction starts at the far end of its segment.
Enter(a, w) == [Shift(a, a.sign * w) EXCEPT !.sign = -@, !.widths = Append(@, w)]
Leave(a) == [Shift(a, -a.sign * Last(a.widths)) EXCEPT !.sign = -@, !.widths = Front(@)]

\* What instruction n does to the layout.
Lay(a, code, n) ==
  LET i == code[n]
  IN CASE i.op = "set"   -> Box(a, i.char, Width[a.font][i.char])
       [] i.op = "put"   -> Place(a, i.char)
       [] i.op = "rule"  -> Box(a, Rule, i.by)
       [] i.op = "glyphs" -> Run(a, i.glyphs, i.by)
       [] i.op = "right" -> Shift(a, a.sign * i.by)
       [] i.op = "w"     -> Shift([a EXCEPT !.regs.w = i.by], a.sign * i.by)
       [] i.op = "w0"    -> Shift(a, a.sign * a.regs.w)
       [] i.op = "down"  -> Sink(a, i.by)
       [] i.op = "push"  -> [a EXCEPT !.stack = Append(@, a.regs)]
       [] i.op = "pop"   -> [a EXCEPT !.regs = Last(a.stack), !.stack = Front(@)]
       [] i.op = "fnt"   -> [a EXCEPT !.font = i.font]
       [] i.op = "dir"   -> [a EXCEPT !.regs.d = i.dir]
       [] i.op = "breflect" -> Enter(a, SegmentWidth(code, n, Closing(code, n), a.font))
       [] i.op = "ereflect" -> Leave(a)
       [] i.op = "xxx"   -> a

\* The layout of a page or packet, read once from left to right.
Blank(start) == [regs |-> start.regs, font |-> start.font, sign |-> 1,
                 stack |-> << >>, widths |-> << >>, set |-> << >>]
Layout(code, start) ==
  LET at[n \in 0..Len(code)] == IF n = 0 THEN Blank(start) ELSE Lay(at[n - 1], code, n)
  IN at[Len(code)]

----------------------------------------------------------------------------
AtEnd == s.status = "page" /\ Top(s).pc > Len(Top(s).code) /\ Pending(Top(s).code) = << >>

(* The glyphs and rules of a page, and of each packet of a virtual font, stand *)
(* where a single reading of its instructions puts them, and the registers and *)
(* the font are left as that reading leaves them: measuring a reflected segment *)
(* and going back, the packets run in between and the pushes of dvi_vf_init     *)
(* change nothing that follows (dvi.c: dvi_set, do_glyphs, dvi_begin_reflect).  *)
LayoutRight ==
  AtEnd => LET l == Layout(Top(s).code, Top(s).start)
           IN /\ Top(s).set = l.set
              /\ Regs(s) = l.regs
              /\ s.font = l.font

(* A glyph that was set while a link was open, annotations were on and the      *)
(* stack was no shallower than where the link began is in exactly one rectangle, *)
(* and that is one of its link; any other glyph is in none (dvi_is_tracking_boxes, *)
(* pdf_doc_expand_box, pdf_doc_break_annot).                                    *)
LinksCover ==
  \A g \in DOMAIN s.out :
    LET rects == {n \in DOMAIN s.annots : g \in s.annots[n].glyphs}
        open  == g \in s.link.box
    IN IF s.out[g].link = NoLink THEN rects = {} /\ ~open
       ELSE IF open THEN rects = {} /\ s.link.dict = s.out[g].link
       ELSE \E n \in rects : rects = {n} /\ s.annots[n].link = s.out[g].link

(* A rectangle never spans two lines: no two glyphs of an annotation, or of the *)
(* box being collected, are separated by a return to a depth below the one where *)
(* the link began, or by the end of a page                                      *)
(* (dvi_mark_depth: "If so, flush the logical unit").                           *)
LinesApart ==
  /\ \A n \in DOMAIN s.annots : \A g, f \in s.annots[n].glyphs : s.out[g].line = s.out[f].line
  /\ \A g, f \in s.link.box : s.out[g].line = s.out[f].line

\* How many of what is open are of one kind, of what Pending returns.
Count(p, what) == Cardinality({k \in DOMAIN p : p[k] = what})

(* The depths agree with the frames: a packet has saved one font and, below it, *)
(* a stack no shallower than it was entered with.  While a page is not skimming *)
(* there is one measured width for each reflected segment that is open in it,   *)
(* and an odd number of them turns the text around (dvi_begin_reflect,          *)
(* dvi_end_reflect), whatever was pushed, measured and read again before.       *)
DviTypeOK ==
  /\ s.status \in {"idle", "page", "failed"}
  /\ Len(s.stack) \in 0..StackMax /\ Len(s.saved) \in 0..NestMax
  /\ s.font \in Font \cup {NoFont}
  /\ s.status = "page" =>
       /\ Len(s.frames) = Len(s.saved) + 1
       /\ Len(s.stack) >= Len(s.saved)
       /\ \A n \in DOMAIN s.frames : s.frames[n].pc \in 1..Len(s.frames[n].code) + 1
       /\ ~Skims(s) =>
            LET page == s.frames[1]
                segments == Count(Pending(SubSeq(page.code, 1, page.pc - 1)), "breflect")
            IN Len(s.lr.widths) = segments /\ s.lr.mode = segments % 2
=============================================================================
