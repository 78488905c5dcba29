------------------------------- MODULE MCChar -------------------------------
(***************************************************************************)
(* Charstrings, put together from the parts they are made of, converted    *)
(* (t1_char.c) and copied (cs_type2.c); see CharDraw for what they draw.   *)
(***************************************************************************)
EXTENDS CharDraw

VARIABLES subject, given, made

H(s) == [i \in DOMAIN s |-> Num(Unit * s[i])]
Cmd(s, o) == H(s) \o <<Op(o)>>
Call(n) == <<Num(Unit * n), Op("callsubr")>>

HintReplacement(n) == H(<<n, 1, 3>>) \o <<Op("callothersubr"), Op("pop"), Op("callsubr")>>
FlexOf(ps, depth) ==
    Call(1) \o FlattenSeq([i \in DOMAIN ps |-> Cmd(ps[i], "rmoveto") \o Call(2)])
    \o H(<<depth, 0, 0>>) \o Call(0)

Subrs == << H(<<3, 0>>) \o <<Op("callothersubr"), Op("pop"), Op("pop"), Op("setcurrentpoint"), Op("return")>>,
            H(<<0, 1>>) \o <<Op("callothersubr"), Op("return")>>,
            H(<<0, 2>>) \o <<Op("callothersubr"), Op("return")>>,
            <<Op("return")>>,
            Cmd(<<0, 25>>, "hstem") \o <<Op("return")>>,
            Cmd(<<7, 3>>, "vstem") \o Cmd(<<-10, 5>>, "hstem") \o <<Op("return")>> >>

Starts == { Cmd(<<0, 500>>, "hsbw"),
              Cmd(<<10, 300>>, "hsbw") \o Cmd(<<0, 25>>, "hstem") \o Cmd(<<5, 10>>, "vstem")
                \o Cmd(<<-10, 5>>, "hstem"),
              Cmd(<<4, 3, 500, 0>>, "sbw") \o Cmd(<<30, 2, 10, 2, 20, 2>>, "vstem3")
                \o Cmd(<<0, 20>>, "hstem") }     \* a ghost
Moves == { Cmd(<<1, 2>>, "rmoveto"), Cmd(<<3>>, "hmoveto"), Cmd(<<7, 2>>, "div") \o <<Op("vmoveto")>> }
Draws == { Cmd(<<1, 2>>, "rlineto"), Cmd(<<2>>, "hlineto"), Cmd(<<3>>, "vlineto"),
           Cmd(<<1, 2, 3, 4, 5, 6>>, "rrcurveto"), Cmd(<<1, 2, 3, 4>>, "vhcurveto"),
           Cmd(<<5, 6, 7, 8>>, "hvcurveto") }
Flexes == { FlexOf(<< <<5, 0>>, <<-3, 0>>, <<1, 2>>, <<3, 0>>, <<3, 0>>, <<1, -2>>, <<2, 0>> >>, 50),
            FlexOf(<< <<5, 1>>, <<-3, 0>>, <<1, 2>>, <<3, 0>>, <<3, 0>>, <<1, -2>>, <<2, -1>> >>, 50),
            FlexOf(<< <<5, 1>>, <<-3, 0>>, <<1, 2>>, <<3, 1>>, <<3, 0>>, <<1, -2>>, <<2, -1>> >>, 40) }
Breaks == { HintReplacement(4), HintReplacement(5), <<Op("closepath")>> \o Cmd(<<2, 1>>, "rmoveto") }

Replacing == {HintReplacement(4), HintReplacement(5)}
Parts     == Draws \cup Flexes \cup Breaks
OneSpace  == Cmd(<<0, 500>>, "hsbw")     \* no stems, so none to replace
Bodies(parts) ==
    LET last == parts \ Replacing
    IN  {a \o b \o c : a \in Moves, b \in parts, c \in last}
Chains == {Cmd(<<3>>, "hmoveto") \o b \o c \o d :
              b \in Draws, c \in Parts, d \in Parts \ Replacing}
Complete(start, bodies) == {start \o b \o <<Op("endchar")>> : b \in bodies}

Glyphs == Complete(OneSpace, Bodies(Parts \ Replacing))
          \cup UNION {Complete(p, {<<>>} \cup Bodies(Parts) \cup Chains) : p \in Starts \ {OneSpace}}

-----------------------------------------------------------------------------
(* Type 2 charstrings: how they begin, with or without the width and with   *)
(* stems that a mask may leave to the operands before it; what they draw;   *)
(* operands that are computed or come from a subroutine.                    *)

Masked(o, m) == <<Mask(o, m)>>

Heads == { H(<<1, 2>>) \o <<Op("rmoveto")>>, H(<<60, 1, 2>>) \o <<Op("rmoveto")>>,
           H(<<60, 3>>) \o <<Op("hmoveto")>>, H(<<3>>) \o <<Op("vmoveto")>>,
           H(<<60, 0, 20>>) \o <<Op("hstem")>> \o H(<<4>>) \o <<Op("hmoveto")>>,
           H(<<0, 20>>) \o <<Op("hstemhm")>> \o H(<<5, 6, 7, 8>>) \o Masked("hintmask", {1, 3})
              \o H(<<1, 2>>) \o <<Op("rmoveto")>>,
           H(<<60, 0, 20>>) \o <<Op("hstemhm")>> \o H(<<5, 6>>) \o <<Op("vstemhm")>>
              \o Masked("cntrmask", {1, 2}) \o Masked("hintmask", {2}) \o H(<<1, 2>>) \o <<Op("rmoveto")>>,
           H(<<60, 2, 3, 4, 5>>) \o Masked("hintmask", {1}) \o H(<<4>>) \o <<Op("vmoveto")>>,
           H([i \in 1 .. 12 |-> i]) \o <<Op("hstemhm")>> \o H([i \in 1 .. 6 |-> i])
              \o Masked("hintmask", {1, 8, 9}) \o H(<<4>>) \o <<Op("hmoveto")>> }

Strokes2 == {
    Cmd(<<1, 2, 3, 4>>, "rlineto"), Cmd(<<1, 2, 3>>, "hlineto"), Cmd(<<1, 2>>, "vlineto"),
    Cmd(<<1, 2, 3, 4, 5, 6, 7, 8>>, "rcurveline"), Cmd(<<1, 2, 3, 4, 5, 6, 7, 8>>, "rlinecurve"),
    Cmd(<<9, 1, 2, 3, 4>>, "vvcurveto"), Cmd(<<1, 2, 3, 4>>, "hhcurveto"),
    Cmd(<<1, 2, 3, 4, 5, 6, 7, 8, 9>>, "hvcurveto"), Cmd(<<1, 2, 3, 4, 5>>, "vhcurveto"),
    Cmd(<<1, 2, 3, 4, 5, 6, 7>>, "hflex"), Cmd(<<1, 2, 3, 4, 5, 6, 7, 8, 9>>, "hflex1"),
    Cmd(<<1, 2, 3, 4, 5, 6, 6, 5, 4, 3, 2, 1, 50>>, "flex") }

Computed == {
    Cmd(<<3, 4>>, "add") \o Cmd(<<9>>, "sub") \o Cmd(<<2>>, "mul") \o Cmd(<<5>>, "rlineto"),
    Cmd(<<3, 2>>, "div") \o Cmd(<<9>>, "sqrt") \o <<Op("exch"), Op("rlineto")>>,
    Cmd(<<1, 2, 3, 4, 5, 6, 3, 1>>, "roll") \o <<Op("rrcurveto")>>,
    Cmd(<<1, 2, 3, 4, 5, 6, 4, -6>>, "roll") \o <<Op("rrcurveto")>>,
    Cmd(<<1, 2, 3, 1>>, "index") \o <<Op("rlineto")>>,
    Cmd(<<7, 8, 4, 4>>, "ifelse") \o Cmd(<<-2>>, "abs") \o <<Op("neg"), Op("rlineto")>>,
    Cmd(<<7, 8, 5, 4>>, "ifelse") \o <<Op("dup"), Op("not"), Op("drop"), Op("dup"), Op("rlineto")>>,
    Cmd(<<5, 3>>, "put") \o Cmd(<<3>>, "get") \o Cmd(<<4, 4>>, "eq") \o Cmd(<<0>>, "or") \o <<Op("rlineto")>>,
    Cmd(<<0>>, "callsubr"), Cmd(<<4, 1>>, "callgsubr"), Cmd(<<4, 1>>, "callsubr") \o <<Op("rlineto")>> }

\* A subroutine may draw, leave operands, call another one or end the glyph.
LocalSubrs  == << Cmd(<<1, 2>>, "rlineto") \o Cmd(<<0>>, "callgsubr") \o <<Op("return")>>,
                  H(<<3>>) \o <<Op("return")>>,
                  Cmd(<<2, 2>>, "rlineto") \o <<Op("endchar")>> >>
GlobalSubrs == << Cmd(<<5>>, "vlineto") \o <<Op("return")>>,
                  Cmd(<<1>>, "callsubr") \o <<Op("rlineto"), Op("return")>> >>
Ends == {<<Op("endchar")>>, Cmd(<<2>>, "callsubr") \o Cmd(<<1, 1>>, "rlineto")}

-----------------------------------------------------------------------------
Default == 500 * Unit
Nominal == 400 * Unit

vars == <<subject, given, made>>
Init == subject = "none" /\ given = <<>> /\ made = <<>>

Convert ==
    \E g \in Glyphs :
        /\ subject' = "type1" /\ given' = g
        /\ made' = t1char_convert_charstring(g, Subrs, Default, Nominal)

Copy ==
    \E h \in Heads, b \in {<<>>} \cup {c \o d : c \in Strokes2 \cup Computed, d \in Computed},
       m \in {<<>>, Masked("hintmask", {1, 2})}, e \in Ends, left \in {0, 9} :
        LET src == h \o b \o (IF \E i \in DOMAIN h : h[i].op = "hintmask" THEN m ELSE <<>>) \o e
        IN  /\ left # 0 => \E i \in DOMAIN src : src[i].op = "get"
            /\ subject' = "type2" /\ given' = src
            /\ made' = cs_copy_charstring([i \in 0 .. TransMax - 1 |-> left], src, GlobalSubrs, LocalSubrs, Default, Nominal)

\* Whole numbers around the ends of each form, and fractions between them.
Numbers == {w * Fixed + f : w \in UNION {(e - 1) .. (e + 1) : e \in {-30000, -1131, -107, 0, 107, 1131, 30000}},
                            f \in {0, 1, 32768, 65535}}

Number ==
    \E v \in Numbers :
        subject' = "number" /\ given' = v /\ made' = PutNumber(v)

Next == subject = "none" /\ (Convert \/ Copy \/ Number)
Spec == Init /\ [][Next]_vars

\* The picture of a Type 2 charstring, its width as the font's DICTs make it.
Type2Picture(code, gsubrs, subrs) ==
    [DrawType2(code, gsubrs, subrs)
        EXCEPT !.width = IF @ = <<>> THEN <<Default>> ELSE <<@[1] + Nominal>>]

\* A number is read again as the one that was written, to the last bit of
\* its fraction unless it is within that of a whole one.
NumberKept ==
    LET back == IF made[1] = 255 THEN GetFixed(made) ELSE GetInteger(made) * Fixed
    IN  back - given \in (IF Len(made) = 5 THEN {0} ELSE -1 .. 1)

\* What is left of a picture without the hints of single edges.
Edgeless(p) == [p EXCEPT !.drawn = [i \in DOMAIN @ |-> [@[i] EXCEPT !.hints = {h \in @ : ~IsEdge(h)}]]]

\* A Type 1 glyph draws the same after its conversion: width, outline, and
\* for every part of the outline the stems that hold there, through flexes,
\* hint replacement and the joining of lines and curves (t1_char.c).  The
\* hints of single edges are left out: their conversion is still to be done
\* there ("TODO: Convert ghost hint to edge hint").
OutlineKept ==
    /\ subject = "type1" =>
          /\ made.status = "ok"
          /\ Edgeless(DrawType1(given, Subrs)) = Edgeless(Type2Picture(made.code, <<>>, <<>>))
    /\ subject = "number" => NumberKept

\* A Type 2 glyph draws the same after its subroutines and computations are
\* carried out, and the width taken from it is its own (cs_type2.c).
CopyKept ==
    subject = "type2" =>
        LET p == Type2Picture(given, GlobalSubrs, LocalSubrs)
        IN  /\ made.status = "ok"
            /\ p = Type2Picture(made.code, <<>>, <<>>)
            /\ p.width = <<made.wx>>

=============================================================================
