------------------------------ MODULE CharDraw ------------------------------
(***************************************************************************)
(* What a charstring draws, for the reader of the font: the width, and the *)
(* moves, lines and curves in absolute points, each with the stems that    *)
(* hold while it is drawn.  DrawType1 and DrawType2 are the meaning the    *)
(* Type 1 and Type 2 formats give their operators; the conversions of      *)
(* Type1Char and Type2Char have to keep it.                                *)
(***************************************************************************)
EXTENDS Type2Char

Stem(dir, pos, del) == [dir |-> dir, pos |-> pos, del |-> del]
Shift(p, d) == <<p[1] + d[1], p[2] + d[2]>>

NewPicture == [width |-> <<>>, at |-> <<0, 0>>, drawn |-> <<>>, hints |-> {}, counters |-> {},
               stack |-> <<>>, ps |-> <<>>, sb |-> <<0, 0>>, started |-> FALSE,
               cells |-> <<>>, flex |-> <<>>, inflex |-> FALSE, stems |-> <<>>, masked |-> FALSE, done |-> FALSE]

\* One move, line (one difference) or curve (three), from the current point.
Segment(g, kind, ds) ==
    [g EXCEPT !.at = Last(Points(ds, g.at)), !.started = TRUE, !.stack = <<>>,
              !.drawn = Append(@, [kind |-> kind, to |-> Points(ds, g.at), hints |-> g.hints])]

Segments(g, kind, dss) == FoldLeft(LAMBDA h, ds : Segment(h, kind, ds), [g EXCEPT !.stack = <<>>], dss)

-----------------------------------------------------------------------------
(* Type 1.                                                                  *)

\* Stems of these widths are ghosts, hints of one edge; Type 2 gives an edge
\* hint the same width with the other sign (t1_char.c).
GhostWidths == {20 * Unit, 21 * Unit}
Stem1(dir, pos, del) == Stem(dir, pos, IF del \in GhostWidths THEN -del ELSE del)
IsEdge(stem) == {stem.del, -stem.del} \cap GhostWidths # {}

Declare1(g, dir, a) ==
    LET sb == IF dir = "h" THEN g.sb[2] ELSE g.sb[1]
    IN  [g EXCEPT !.stack = <<>>,
            !.hints = @ \cup {Stem1(dir, sb + a[2 * i - 1], a[2 * i]) : i \in 1 .. Len(a) \div 2}]

Move1(g, d) ==
    IF g.inflex THEN [g EXCEPT !.at = Shift(@, d), !.stack = <<>>] ELSE Segment(g, "move", <<d>>)

\* The seven points of a flex: the reference point and the two curves.
Flex1(g) ==
    LET p == g.flex
    IN  [g EXCEPT !.flex = <<>>, !.inflex = FALSE, !.at = p[7],
            !.drawn = @ \o << [kind |-> "curve", to |-> SubSeq(p, 2, 4), hints |-> g.hints],
                              [kind |-> "curve", to |-> SubSeq(p, 5, 7), hints |-> g.hints] >>]

Other1(g) ==
    LET no   == Last(g.stack) \div Unit
        argn == g.stack[Len(g.stack) - 1] \div Unit
        h    == [g EXCEPT !.stack = Pop(@, 2 + argn),
                          !.ps = Reverse(LastOf(Pop(g.stack, 2), argn))]
    IN  CASE no = 0 -> [Flex1(h) EXCEPT !.ps = SubSeq(@, 1, 2)]
          [] no = 1 -> [h EXCEPT !.inflex = TRUE]
          [] no = 2 -> [h EXCEPT !.flex = Append(@, h.at)]
          [] no = 3 -> [h EXCEPT !.hints = {}, !.masked = TRUE]
          [] OTHER  -> h

RECURSIVE Draw1(_, _, _)
Draw1(g, data, subrs) ==
    IF data = <<>> \/ g.done THEN g
    ELSE LET t == Head(data)
             s == g.stack
             n == Len(s)
             h == CASE t.op = "num"       -> [g EXCEPT !.stack = Append(@, t.n)]
                    [] t.op = "hsbw"      -> [g EXCEPT !.width = <<s[2]>>, !.sb = <<s[1], 0>>,
                                                       !.at = <<s[1], 0>>, !.stack = <<>>]
                    [] t.op = "sbw"       -> [g EXCEPT !.width = <<s[3]>>, !.sb = <<s[1], s[2]>>,
                                                       !.at = <<s[1], s[2]>>, !.stack = <<>>]
                    [] t.op \in {"hstem", "hstem3"} -> Declare1(g, "h", s)
                    [] t.op \in {"vstem", "vstem3"} -> Declare1(g, "v", s)
                    [] t.op = "rmoveto"   -> Move1(g, s)
                    [] t.op = "hmoveto"   -> Move1(g, <<s[1], 0>>)
                    [] t.op = "vmoveto"   -> Move1(g, <<0, s[1]>>)
                    [] t.op = "rlineto"   -> Segment(g, "line", <<s>>)
                    [] t.op = "hlineto"   -> Segment(g, "line", << <<s[1], 0>> >>)
                    [] t.op = "vlineto"   -> Segment(g, "line", << <<0, s[1]>> >>)
                    [] t.op = "rrcurveto" -> Segment(g, "curve", << <<s[1], s[2]>>, <<s[3], s[4]>>, <<s[5], s[6]>> >>)
                    [] t.op = "vhcurveto" -> Segment(g, "curve", << <<0, s[1]>>, <<s[2], s[3]>>, <<s[4], 0>> >>)
                    [] t.op = "hvcurveto" -> Segment(g, "curve", << <<s[1], 0>>, <<s[2], s[3]>>, <<0, s[4]>> >>)
                    [] t.op = "div"       -> [g EXCEPT !.stack = Append(Pop(s, 2), (s[n-1] * Unit) \div s[n])]
                    [] t.op = "pop"       -> [g EXCEPT !.stack = Append(@, Last(g.ps)), !.ps = Front(@)]
                    [] t.op = "callothersubr" -> Other1(g)
                    [] t.op = "callsubr"  -> Draw1([g EXCEPT !.stack = Front(@)],
                                                   subrs[Last(s) \div Unit + 1], subrs)
                    [] t.op = "endchar"   -> [g EXCEPT !.done = TRUE]
                    [] OTHER              -> [g EXCEPT !.stack = <<>>]
         IN  Draw1(h, Tail(data), subrs)

\* Without hint replacement every stem of the charstring holds throughout.
Picture(g, replaced) ==
    [width |-> g.width, counters |-> g.counters,
     drawn |-> IF replaced THEN g.drawn
               ELSE [i \in DOMAIN g.drawn |-> [g.drawn[i] EXCEPT !.hints = g.hints]]]

DrawType1(data, subrs) ==
    LET g == Draw1(NewPicture, data, subrs) IN Picture(g, g.masked)

-----------------------------------------------------------------------------
(* Type 2.                                                                  *)

Pairs(a) == [i \in 1 .. Len(a) \div 2 |-> << <<a[2 * i - 1], a[2 * i]>> >>]

Sixes(a) == [i \in 1 .. Len(a) \div 6 |->
                LET k == 6 * (i - 1)
                IN  << <<a[k+1], a[k+2]>>, <<a[k+3], a[k+4]>>, <<a[k+5], a[k+6]>> >>]

\* Lines that alternate, beginning with the horizontal one if h.
Alternating(a, h) ==
    [i \in DOMAIN a |-> << IF h = Odd(i) THEN <<a[i], 0>> ELSE <<0, a[i]>> >>]

\* Curves that alternate; a fifth operand ends the last one off its axis.
Swinging(a, h) ==
    LET m == Len(a) \div 4
        extra(i) == IF i = m /\ Len(a) % 4 = 1 THEN Last(a) ELSE 0
    IN  [i \in 1 .. m |->
            LET k == 4 * (i - 1)
            IN  IF h = Odd(i)
                THEN << <<a[k+1], 0>>, <<a[k+2], a[k+3]>>, <<extra(i), a[k+4]>> >>
                ELSE << <<0, a[k+1]>>, <<a[k+2], a[k+3]>>, <<a[k+4], extra(i)>> >>]

FlexPoints(op, a) ==
    CASE op = "flex"   -> Sixes(SubSeq(a, 1, 12))
      [] op = "hflex"  -> << << <<a[1], 0>>, <<a[2], a[3]>>, <<a[4], 0>> >>,
                             << <<a[5], 0>>, <<a[6], -a[3]>>, <<a[7], 0>> >> >>
      [] op = "hflex1" -> << << <<a[1], a[2]>>, <<a[3], a[4]>>, <<a[5], 0>> >>,
                             << <<a[6], 0>>, <<a[7], a[8]>>, <<a[9], -(a[2] + a[4] + a[8])>> >> >>

Path2(g, op) ==
    LET a == g.stack
        n == Len(a)
        upto(k) == SubSeq(a, 1, n - k)
        lines(h, b) == Segments(h, "line", b)
        curves(h, b) == Segments(h, "curve", b)
    IN  CASE op = "rlineto"    -> lines(g, Pairs(a))
          [] op = "hlineto"    -> lines(g, Alternating(a, TRUE))
          [] op = "vlineto"    -> lines(g, Alternating(a, FALSE))
          [] op = "rrcurveto"  -> curves(g, Sixes(a))
          [] op = "hvcurveto"  -> curves(g, Swinging(a, TRUE))
          [] op = "vhcurveto"  -> curves(g, Swinging(a, FALSE))
          [] op = "rcurveline" -> lines(curves(g, Sixes(upto(2))), Pairs(LastOf(a, 2)))
          [] op = "rlinecurve" -> curves(lines(g, Pairs(upto(6))), Sixes(LastOf(a, 6)))
          [] op = "hhcurveto"  -> curves(g, << << <<a[n-3], IF n = 5 THEN a[1] ELSE 0>>,
                                                  <<a[n-2], a[n-1]>>, <<a[n], 0>> >> >>)
          [] op = "vvcurveto"  -> curves(g, << << <<IF n = 5 THEN a[1] ELSE 0, a[n-3]>>,
                                                  <<a[n-2], a[n-1]>>, <<0, a[n]>> >> >>)
          [] OTHER             -> curves(g, FlexPoints(op, a))

\* The first operator that clears the stack may find the width below its own.
TakeWidth(g, extra) ==
    IF ~g.started /\ extra
    THEN [g EXCEPT !.width = <<g.stack[1]>>, !.stack = Tail(@), !.started = TRUE]
    ELSE [g EXCEPT !.started = TRUE]

Declare2(g, dir) ==
    LET h == TakeWidth(g, Odd(Len(g.stack)))
        a == h.stack
        lo(k) == FoldLeft(LAMBDA sum, i : sum + a[i], 0, [i \in 1 .. 2 * k - 1 |-> i])
        new == [k \in 1 .. Len(a) \div 2 |-> Stem(dir, lo(k), a[2 * k])]
    IN  [h EXCEPT !.stack = <<>>, !.stems = @ \o new,
                  !.hints = IF g.masked THEN @ ELSE @ \cup ToSet(new)]

Chosen2(g, m) == {g.stems[i] : i \in m \cap DOMAIN g.stems}

\* The operators that compute, on the operands counted from the top.
Computed2(s, op) ==
    LET top(k) == s[Len(s) + 1 - k]
        put(k, vs) == SubSeq(s, 1, Len(s) - k) \o vs
        truth(b) == <<IF b THEN Unit ELSE 0>>
    IN  CASE op = "and"    -> put(2, truth(0 \notin {top(1), top(2)}))
          [] op = "or"     -> put(2, truth({top(1), top(2)} # {0}))
          [] op = "not"    -> put(1, truth(top(1) = 0))
          [] op = "eq"     -> put(2, truth(top(1) = top(2)))
          [] op = "abs"    -> put(1, <<Max({top(1), -top(1)})>>)
          [] op = "neg"    -> put(1, <<0 - top(1)>>)
          [] op = "add"    -> put(2, <<top(2) + top(1)>>)
          [] op = "sub"    -> put(2, <<top(2) - top(1)>>)
          [] op = "mul"    -> put(2, <<(top(2) * top(1)) \div Unit>>)
          [] op = "div"    -> put(2, <<(top(2) * Unit) \div top(1)>>)
          [] op = "sqrt"   -> put(1, <<Max({r \in 0 .. top(1) : r * r <= top(1) * Unit})>>)
          [] op = "drop"   -> put(1, <<>>)
          [] op = "dup"    -> put(1, <<top(1), top(1)>>)
          [] op = "exch"   -> put(2, <<top(1), top(2)>>)
          [] op = "ifelse" -> put(4, <<IF top(2) <= top(1) THEN top(4) ELSE top(3)>>)
          [] op = "index"  -> put(1, <<IF top(1) < 0 THEN top(2) ELSE top(2 + top(1) \div Unit)>>)

RECURSIVE Draw2(_, _, _, _)
Draw2(g, data, gsubrs, subrs) ==
    IF data = <<>> \/ g.done THEN g
    ELSE LET t == Head(data)
             n == Len(g.stack)
             h == CASE t.op = "num" -> [g EXCEPT !.stack = Append(@, t.n)]
                    [] t.op \in {"hstem", "hstemhm"} -> Declare2(g, "h")
                    [] t.op \in {"vstem", "vstemhm"} -> Declare2(g, "v")
                    [] t.op = "hintmask" ->
                         LET d == IF n = 0 THEN g ELSE Declare2(g, "v")
                         IN  [d EXCEPT !.masked = TRUE, !.started = TRUE, !.hints = Chosen2(d, t.mask)]
                    [] t.op = "cntrmask" ->
                         LET d == IF n = 0 THEN g ELSE Declare2(g, "v")
                         IN  [d EXCEPT !.started = TRUE, !.counters = @ \cup {Chosen2(d, t.mask)}]
                    [] t.op = "rmoveto" ->
                         LET d == TakeWidth(g, n = 3) IN Segment(d, "move", <<d.stack>>)
                    [] t.op = "hmoveto" ->
                         LET d == TakeWidth(g, n = 2) IN Segment(d, "move", << <<d.stack[1], 0>> >>)
                    [] t.op = "vmoveto" ->
                         LET d == TakeWidth(g, n = 2) IN Segment(d, "move", << <<0, d.stack[1]>> >>)
                    [] t.op = "endchar" -> [TakeWidth(g, n \in {1, 5}) EXCEPT !.done = TRUE]
                    [] t.op = "callsubr" -> Draw2([g EXCEPT !.stack = Front(@)],
                                subrs[Last(g.stack) \div Unit + BiasSmall + 1], gsubrs, subrs)
                    [] t.op = "callgsubr" -> Draw2([g EXCEPT !.stack = Front(@)],
                                gsubrs[Last(g.stack) \div Unit + BiasSmall + 1], gsubrs, subrs)
                    [] t.op \in CurveOps \cup FlexOps -> Path2(g, t.op)
                    [] t.op = "return" -> g
                    [] t.op = "roll" ->
                         \* roll as a permutation of the operands it names
                         LET k == g.stack[n-1] \div Unit
                             j == g.stack[n] \div Unit
                             s == LastOf(Pop(g.stack, 2), k)
                         IN  [g EXCEPT !.stack = Pop(@, 2 + k) \o
                                 [i \in 1 .. k |-> s[((i - 1 - j) % k) + 1]]]
                    [] t.op = "put" -> [g EXCEPT !.stack = Pop(@, 2),
                                                 !.cells = (g.stack[n] :> g.stack[n-1]) @@ @]
                    [] t.op = "get" -> [g EXCEPT !.stack = Append(Front(@), g.cells[g.stack[n]])]
                    [] OTHER -> [g EXCEPT !.stack = Computed2(@, t.op)]
         IN  Draw2(h, Tail(data), gsubrs, subrs)

DrawType2(data, gsubrs, subrs) ==
    LET g == Draw2(NewPicture, data, gsubrs, subrs)
    IN  Picture(g, g.masked)

=============================================================================
