------------------------------- MODULE PdfDev -------------------------------
(***************************************************************************)
(* The page device: pdfdev.c, the graphics state stack of pdfdraw.c, the    *)
(* colour stack of pdfcolor.c and the content streams of pdfdoc.c, driven   *)
(* by the interpreter of the DVI file and by specials.                      *)
(*                                                                          *)
(* The device emits an operator only when it believes that it is needed: it *)
(* caches what the viewer will have in force at that point of the stream    *)
(* (font, text matrix, rendering mode, colour).  The module therefore keeps *)
(* both sides: the static variables of the device and, for each content     *)
(* stream being written, the state in which a viewer will be after what has *)
(* been written to it so far.  Positions are left out, so that Td, cm and   *)
(* kerning are only what they do to the string they interrupt; a font is    *)
(* what pdf_dev_set_font reads from it; stroke and fill colour are handled  *)
(* alike and are one colour here.                                           *)
(***************************************************************************)
EXTENDS Integers, Sequences, SequencesExt

CONSTANTS
  Font,         \* indices into dev_fonts
  Composite,    \* format = PDF_FONTTYPE_COMPOSITE
  Tall,         \* wmode = 1
  Slanted,      \* slant or extend away from 0 and 1
  Bold,         \* fake bold: bold > 0
  Dirs,         \* directions the document sets text in: 0, 1 (down), 3 (up)
  Color,        \* colours, "black" is one
  ColorMax,     \* DEV_COLOR_STACK_MAX
  MaxDepth,     \* bound: graphics states on the stack
  MaxForms      \* bound: form XObjects being captured at once

ASSUME DevAssumption ==
  /\ Composite \subseteq Font /\ Tall \subseteq Composite
  /\ Slanted \subseteq Font /\ Bold \subseteq Font
  /\ 0 \in Dirs /\ Dirs \subseteq {0, 1, 3}
  /\ "black" \in Color
  /\ ColorMax \in Nat \ {0} /\ MaxForms \in Nat
  /\ MaxDepth \in Nat \ {0, 1}                  \* a page begins with two

NoFont == "none"
ASSUME FontAssumption == NoFont \notin Font

VARIABLE p      \* everything below: see DevTypeOK

----------------------------------------------------------------------------
(* The viewer: what ISO 32000-1, 8.2 and 9.4 say of the operators written,  *)
(* but that a font does not outlive its text object, because the device     *)
(* wants to "make no assumptions about what fonts" then (spc_pdfm.c).       *)

HH == 0
Turn == [r \in {0, 1, 3, 4, 5, 7} |-> CASE r \in {0, 5} -> 0 [] r = 1 -> 270
                                          [] r \in {3, 4} -> 90 [] r = 7 -> 180]

\* The matrix written for a shape and a rotation: an upright font has the
\* same one in every mode of the same angle, a slanted font has not.
Matrix(slanted, rotate) ==
  IF slanted THEN << "slanted", rotate >> ELSE << "upright", Turn[rotate] >>
Identity == Matrix(FALSE, HH)

\* A stream whose surroundings leave the given colour and nothing else.
Blank(color) ==
  [ text |-> FALSE, string |-> "none", tm |-> Identity, res |-> {}, bad |-> {},
    gs |-> [font |-> NoFont, bold |-> FALSE, fill |-> color], saved |-> << >> ]

Fault(s, allowed, kind) == IF allowed THEN s.bad ELSE s.bad \cup {kind}

Delimiter(mb) == IF mb THEN "hex" ELSE "literal"

\* What one operator does to the viewer.  op.op names it.
Exec(s, op) ==
  CASE op.op = "BT" ->
         [s EXCEPT !.text = TRUE, !.tm = Identity, !.bad = Fault(s, ~s.text, "syntax")]
    [] op.op = "ET" ->
         [s EXCEPT !.text = FALSE, !.tm = Identity, !.gs.font = NoFont,
                   !.bad = Fault(s, s.text /\ s.string = "none", "syntax")]
    [] op.op = "Tf" ->
         [s EXCEPT !.gs.font = op.font,
                   !.bad = Fault([s EXCEPT !.bad = Fault(s, op.font \in s.res, "resource")],
                                 s.string = "none", "syntax")]
    [] op.op = "Tr" ->
         [s EXCEPT !.gs.bold = op.bold, !.bad = Fault(s, s.string = "none", "syntax")]
    [] op.op = "Tm" ->
         [s EXCEPT !.tm = op.tm, !.bad = Fault(s, s.text /\ s.string = "none", "syntax")]
    [] op.op = "open" ->                                    \* Td [(  or  Td [<
         [s EXCEPT !.string = op.delim, !.bad = Fault(s, s.text /\ s.string = "none", "syntax")]
    [] op.op = "kern" ->                                    \* )n(    or  >n<
         [s EXCEPT !.bad = Fault(s, s.string = op.delim, "syntax")]
    [] op.op = "close" ->                                   \* )]TJ   or  >]TJ
         [s EXCEPT !.string = "none", !.bad = Fault(s, s.string = op.delim, "syntax")]
    [] op.op = "show" ->
         [s EXCEPT !.bad = Fault([s EXCEPT !.bad = Fault(s, s.string = op.delim, "syntax")],
                                 << s.gs.font, s.gs.bold, s.tm >> = op.want, "show")]
    [] op.op = "q" ->
         [s EXCEPT !.saved = Append(@, s.gs), !.bad = Fault(s, ~s.text, "syntax")]
    [] op.op = "Q" ->
         IF s.saved = << >>
         THEN [s EXCEPT !.bad = @ \cup {"syntax"}]
         ELSE [s EXCEPT !.gs = Last(s.saved), !.saved = Front(@), !.bad = Fault(s, ~s.text, "syntax")]
    [] op.op = "color" ->
         [s EXCEPT !.gs.fill = op.color, !.bad = Fault(s, ~s.text, "syntax")]
    [] op.op = "paint" ->                                   \* re f, Do, BDC, EMC
         [s EXCEPT !.bad = Fault(s, ~s.text, "syntax")]

\* A stream that ends must have closed what it opened.
Ended(s) == Fault(s, s.saved = << >> /\ ~s.text, "syntax")

----------------------------------------------------------------------------
(* The device. *)

\* pdf_doc_add_page_content: to the innermost pending form, or to the page.
Emit(d, op) == [d EXCEPT !.out[Len(d.out)] = Exec(@, op)]
EmitIf(d, c, op) == IF c THEN Emit(d, op) ELSE d

SetTextMatrix(d) == Emit(d, [op |-> "Tm", tm |-> Matrix(d.slanted, d.rotate)])
CloseString(d) == Emit(d, [op |-> "close", delim |-> Delimiter(d.mb)])
OpenString(d) == Emit(d, [op |-> "open", delim |-> Delimiter(d.mb)])

ResetTextStateBare(d) == [ Emit(d, [op |-> "BT"]) EXCEPT !.reset = FALSE ]
ResetTextState(d) ==
  LET bt == Emit(d, [op |-> "BT"])
  IN [ IF d.reset \/ d.slanted \/ d.rotate \notin {0, 5} THEN SetTextMatrix(bt) ELSE bt
       EXCEPT !.reset = FALSE ]

TextMode(d) ==
  [ CASE d.motion = "text"     -> d
      [] d.motion = "string"   -> CloseString(d)
      [] d.motion = "graphics" -> ResetTextState(d)
    EXCEPT !.motion = "text" ]

GraphicsMode(d) ==
  IF d.motion = "graphics" THEN d
  ELSE LET closed == IF d.motion = "string" THEN CloseString(d) ELSE d
           plain == EmitIf(closed, d.bold, [op |-> "Tr", bold |-> FALSE])
       IN [ Emit(plain, [op |-> "ET"]) EXCEPT
              !.bold = FALSE, !.reset = FALSE, !.font = NoFont, !.motion = "graphics" ]

StringMode(d) ==
  LET t == IF d.motion = "graphics" THEN ResetTextState(d) ELSE d
  IN IF d.motion = "string" THEN d
     ELSE [ OpenString(IF t.reset THEN SetTextMatrix(t) ELSE t) EXCEPT
              !.reset = FALSE, !.motion = "string" ]

\* abs(m1 - m2) % 5.
AngleChanges(m1, m2) == (IF m1 > m2 THEN m1 - m2 ELSE m2 - m1) % 5 # 0

\* text_rotate, with autorotate on as it is outside MetaPost figures.
Rotation(f, dir) == (IF f \in Tall THEN 4 ELSE 0) + dir

\* t has left the string that was being written.
SelectFont(t, f) ==
  LET rotate == Rotation(f, t.dir)
      n == [t EXCEPT !.mb = f \in Composite,
                     !.reset = @ \/ (f \in Slanted) # t.slanted \/ AngleChanges(rotate, t.rotate),
                     !.slanted = f \in Slanted,
                     !.rotate = rotate,
                     !.out[Len(t.out)].res = IF f \in t.used THEN @ ELSE @ \cup {f},
                     !.used = @ \cup {f}]
      tf == Emit(n, [op |-> "Tf", font |-> f])
  IN [ EmitIf(tf, f \in Bold \/ t.bold, [op |-> "Tr", bold |-> f \in Bold])
       EXCEPT !.bold = f \in Bold, !.font = f ]

\* "text_mode() must come before text_state.is_mb is changed."
SetFontMbFirst(d, f) == SelectFont(TextMode([d EXCEPT !.mb = f \in Composite]), f)
SetFont(d, f) == SelectFont(TextMode(d), f)

\* pdf_dev_set_string.  gap is the distance from the end of the string before:
\* none, kern (within WORD_SPACE_MAX) or far.
Wanted(f, dir) == << f, f \in Bold, Matrix(f \in Slanted, Rotation(f, dir)) >>
SetString(d, f, gap) ==
  LET a == IF f # d.font THEN SetFont(d, f) ELSE d
      b == IF a.reset \/ gap = "far" THEN TextMode(a) ELSE a
      c == IF b.motion # "string" THEN StringMode(b)
           ELSE EmitIf(b, gap = "kern", [op |-> "kern", delim |-> Delimiter(b.mb)])
  IN Emit(c, [op |-> "show", delim |-> Delimiter(f \in Composite), want |-> Wanted(f, d.dir)])

SetDirMode(d, dir) ==
  LET rotate == Rotation(d.font, dir)
  IN [d EXCEPT !.reset = @ \/ (d.font # NoFont /\ AngleChanges(rotate, d.rotate)),
               !.rotate = rotate, !.dir = dir]

ResetFontsKeepUsed(d, newpage) ==
  [d EXCEPT !.font = NoFont, !.slanted = FALSE, !.rotate = HH, !.bold = @ /\ ~newpage, !.mb = FALSE]
ResetFonts(d, newpage) ==
  [d EXCEPT !.used = {}, !.font = NoFont, !.slanted = FALSE, !.rotate = HH,
            !.bold = @ /\ ~newpage, !.mb = FALSE]

\* pdf_dev_set_color for the top of the colour stack.
ResetColor(d, force) ==
  LET c == Last(d.cs)
  IN IF force \/ c # Last(d.gs)
     THEN [ Emit(GraphicsMode(d), [op |-> "color", color |-> c]) EXCEPT !.gs[Len(d.gs)] = c ]
     ELSE d

PushGstate(d) == [d EXCEPT !.gs = Append(@, "black")]
PopGstate(d) == IF Len(d.gs) <= 1 THEN d ELSE [d EXCEPT !.gs = Front(@)]

GsaveFresh(d) == PushGstate(Emit(d, [op |-> "q"]))
Gsave(d) == [ Emit(d, [op |-> "q"]) EXCEPT !.gs = Append(@, Last(@)) ]

\* Q, and the graphics state below: pdf_dev_grestore but for the fonts.
Restore(d) == [ Emit(d, [op |-> "Q"]) EXCEPT !.gs = Front(@) ]

Grestore(d) ==
  IF Len(d.gs) <= 1 THEN d                      \* "Too many grestores."
  ELSE ResetFonts(Restore(d), FALSE)

GrestoreTo(d, depth) ==
  LET n == IF Len(d.gs) > depth + 1 THEN Len(d.gs) - depth - 1 ELSE 0
      after[k \in 0..n] == IF k = 0 THEN d ELSE Restore(after[k - 1])
  IN ResetFonts(after[n], FALSE)

ColorSet(d, c) == ResetColor([d EXCEPT !.cs[Len(d.cs)] = c], TRUE)
ColorPushUnbounded(d, c) == ColorSet([d EXCEPT !.cs = Append(@, c)], c)
ColorPush(d, c) ==
  IF Len(d.cs) >= ColorMax THEN d               \* "Color stack overflow."
  ELSE ColorSet([d EXCEPT !.cs = Append(@, c)], c)
ColorPop(d) ==
  IF Len(d.cs) <= 1 THEN d                      \* "Color stack underflow."
  ELSE ResetColor([d EXCEPT !.cs = Front(@)], TRUE)
ColorClear(d) == [d EXCEPT !.cs = << "black" >>]

----------------------------------------------------------------------------
(* What the interpreter of the DVI file and the specials make of it.        *)

InitDevice ==
      [ motion |-> "graphics", font |-> NoFont, slanted |-> FALSE, rotate |-> HH,
        bold |-> FALSE, mb |-> FALSE, reset |-> FALSE, dir |-> 0, used |-> {},
        gs |-> << "black" >>, cs |-> << "black" >>,
        out |-> << >>, forms |-> << >>, bad |-> {}, failed |-> FALSE ]

Init == p = InitDevice

OnPage == ~p.failed /\ p.out # << >>
InForm == p.forms # << >>

BeginPage ==
  /\ ~p.failed /\ p.out = << >>
  /\ LET d == [ GraphicsMode([ SetDirMode(p, 0) EXCEPT !.out = << Blank("black") >> ])
                EXCEPT !.reset = FALSE ]
     IN p' = ResetColor(ResetFonts(Gsave(d), TRUE), FALSE)

\* The background is painted in a stream of its own, between q and Q.
EndPage ==
  /\ OnPage /\ ~InForm
  /\ LET g == GraphicsMode(p)
         d == IF Len(g.gs) - 1 # 1 THEN GrestoreTo(g, 0) ELSE Grestore(g)
     IN p' = [ d EXCEPT !.bad = @ \cup Ended(d.out[1]), !.out = << >> ]

\* "A pending form XObject at the end of page." is an ERROR: the program is
\* gone, and its state with it.
EndPageFails ==
  /\ OnPage /\ InForm
  /\ p' = [InitDevice EXCEPT !.failed = TRUE]

String ==
  /\ OnPage
  /\ \E f \in Font, gap \in {"none", "kern", "far"} : p' = SetString(p, f, gap)

DirChange ==
  /\ OnPage
  /\ \E dir \in Dirs \ {p.dir} : p' = SetDirMode(p, dir)

Between(d, op) == Emit(Emit(Emit(d, [op |-> "q"]), op), [op |-> "Q"])

Rule ==
  /\ OnPage
  /\ p' = Between(GraphicsMode(p), [op |-> "paint"])

\* A run of glyphs of a native font: in a span of its own if its text is
\* given, in the colour of the font if that has one, and between q and Q too
\* if that is translucent.
Glyphs ==
  /\ OnPage /\ Len(p.gs) < MaxDepth
  /\ \E f \in Composite, span, clear \in BOOLEAN, tint \in Color \cup {"no tint"} :
       /\ clear => tint # "no tint"
       /\ LET a == IF span THEN Emit(GraphicsMode(p), [op |-> "paint"]) ELSE p
              b == IF tint = "no tint" THEN a ELSE ColorPush(a, tint)
              c == SetString(IF clear THEN Gsave(GraphicsMode(b)) ELSE b, f, "far")
              d == IF clear THEN Grestore(GraphicsMode(c)) ELSE c
              e == IF tint = "no tint" THEN d ELSE ColorPop(d)
          IN p' = IF span THEN Emit(GraphicsMode(e), [op |-> "paint"]) ELSE e

\* dvi_do_special leaves text before anything else.
Special == GraphicsMode(p)

\* The graphics states that belong to what is being written now.
Floor == IF InForm THEN Last(p.forms) + 1 ELSE 2

\* pdf:btrans, pdf:bcontent, x:gsave.
Btrans ==
  /\ OnPage /\ Len(p.gs) < MaxDepth
  /\ p' = Gsave(Special)

\* pdf:etrans, pdf:econtent, x:grestore, in a document that closes only what
\* it has opened on the same page or in the same form.
EtransOnly ==
  /\ OnPage /\ Len(p.gs) > Floor
  /\ p' = Grestore(Special)
Etrans ==
  /\ OnPage /\ Len(p.gs) > Floor
  /\ p' = ResetColor(Grestore(Special), FALSE)

\* pdf:bcolor and color push; pdf:ecolor and color pop; pdf:scolor; color.
ColorSpecial ==
  /\ OnPage
  /\ \/ \E c \in Color : \/ p' = ColorPush(Special, c)
                         \/ p' = ColorSet(Special, c)
                         \/ p' = ColorSet(ColorClear(Special), c)
     \/ p' = ColorPop(Special)

\* pdf:content; raw operators are taken to be well formed and balanced.
Content ==
  /\ OnPage
  /\ p' = Between(Special, [op |-> "paint"])

\* pdf:image, pdf:uxobj.
Image ==
  /\ OnPage /\ Len(p.gs) < MaxDepth
  /\ p' = Grestore(Emit(Gsave(GraphicsMode(Special)), [op |-> "paint"]))

\* pdf:bxobj: what is painted through the form has whatever colour is in
\* force there, which is no colour this stream could rely on.
BeginForm ==
  /\ OnPage /\ Len(p.forms) < MaxForms /\ Len(p.gs) < MaxDepth
  /\ LET d == PushGstate(Special)
         f == [d EXCEPT !.forms = Append(@, Len(d.gs) - 1), !.out = Append(@, Blank("inherited"))]
     IN p' = ResetColor(ResetFonts(f, TRUE), TRUE)

\* pdf:exobj.
EndForm ==
  /\ OnPage /\ InForm
  /\ LET d == GrestoreTo(Special, Last(p.forms))
         f == [d EXCEPT !.bad = @ \cup Ended(Last(d.out)), !.out = Front(@), !.forms = Front(@)]
     IN p' = ResetColor(ResetFonts(PopGstate(f), TRUE), FALSE)

Next ==
  \/ BeginPage \/ EndPage \/ EndPageFails
  \/ String \/ DirChange \/ Rule \/ Glyphs
  \/ Btrans \/ Etrans \/ ColorSpecial \/ Content \/ Image
  \/ BeginForm \/ EndForm

Spec == Init /\ [][Next]_p

----------------------------------------------------------------------------
(* Properties. *)

\* The stacks stay within their arrays and there is one stream per pending
\* form and one for the page.
DevTypeOK ==
  /\ p.motion \in {"graphics", "text", "string"}
  /\ p.font \in Font \cup {NoFont} /\ p.used \subseteq Font
  /\ p.rotate \in DOMAIN Turn /\ p.dir \in Dirs
  /\ {p.slanted, p.bold, p.mb, p.reset, p.failed} \subseteq BOOLEAN
  /\ p.gs \in Seq(Color) /\ Len(p.gs) \in 1..MaxDepth
  /\ p.cs \in Seq(Color) /\ Len(p.cs) \in 1..ColorMax
  /\ p.forms \in Seq(Nat) /\ Len(p.forms) <= MaxForms
  /\ Len(p.out) = (IF p.out = << >> THEN 0 ELSE Len(p.forms) + 1)
  /\ p.motion # "graphics" => p.out # << >>

Faults == UNION ({p.bad} \cup { p.out[i].bad : i \in DOMAIN p.out })

\* Every content stream is well formed: BT and ET, q and Q, string delimiters
\* (a string is closed the way it was opened although is_mb changes with the
\* font) are nested and closed in every page and form, also when the document
\* leaves transformations open at the end of one.
SyntaxRight == "syntax" \notin Faults

\* A string is shown in the font, the rendering mode and the text matrix that
\* the document has selected, although each of them is written only when the
\* device believes it has changed.
ShowsRight == "show" \notin Faults

\* The font a stream selects is in the resources of that very stream, although
\* used_on_this_page is one flag for the page and all forms captured in it.
FontsListed == "resource" \notin Faults

\* While a page is being written the viewer paints in the colour at the top of
\* the colour stack: colours outlive grestore, forms and pages, because the
\* device reinstalls them "after grestore and other operations that can change
\* current color implicitely" (spc_color.c).
FillFollowsStack == OnPage => Last(p.out).gs.fill = Last(p.cs)

\* What the device remembers is what the viewer has: the colour in the saved
\* graphics states, of suspended streams too, and the state of the text object.
CachesRight ==
  /\ p.gs[1] = "black"                          \* what every page begins with
  /\ OnPage =>
    LET s == Last(p.out)
        tops == Append(p.forms, Len(p.gs))      \* gs of each stream
    IN /\ \A i \in DOMAIN p.out : p.out[i].gs.fill = p.gs[tops[i]]
       /\ s.text = (p.motion # "graphics")
       /\ s.gs.bold = p.bold
       /\ s.text /\ p.font # NoFont => s.gs.font = p.font
       /\ s.text /\ ~p.reset => s.tm = Matrix(p.slanted, p.rotate)
=============================================================================
