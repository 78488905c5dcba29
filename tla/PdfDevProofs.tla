---------------------------- MODULE PdfDevProofs ----------------------------
(***************************************************************************)
(* The page device writes only right content streams: proof of the          *)
(* invariants of PdfDev.                                                    *)
(***************************************************************************)
EXTENDS PdfDev, SequenceTheorems, WellFoundedInduction, TLAPS

(***************************************************************************)
(* Types.                                                                   *)
(***************************************************************************)
Angle == {0, 1, 3, 4, 5, 7}
Tm == { Matrix(b, r) : b \in BOOLEAN, r \in Angle }
AnyFont == Font \cup {NoFont}
Kind == {"syntax", "show", "resource"}
Gstate == [font : AnyFont, bold : BOOLEAN, fill : Color \cup {"inherited"}]
Stream == [text : BOOLEAN, string : {"none", "hex", "literal"}, tm : Tm, res : SUBSET Font,
           bad : SUBSET Kind, gs : Gstate, saved : Seq(Gstate)]
Device == [motion : {"graphics", "text", "string"}, font : AnyFont, slanted : BOOLEAN,
           rotate : Angle, bold : BOOLEAN, mb : BOOLEAN, reset : BOOLEAN, dir : Dirs,
           used : SUBSET Font, gs : Seq(Color), cs : Seq(Color), out : Seq(Stream),
           forms : Seq(Nat), bad : SUBSET Kind, failed : BOOLEAN]

LEMMA MatrixType == \A b \in BOOLEAN, r \in Angle : Matrix(b, r) \in Tm
BY DEF Tm

LEMMA IdentityType == Identity \in Tm /\ Identity = Matrix(FALSE, 0) /\ Identity = Matrix(FALSE, 5)
<1>1. Turn[0] = 0 /\ Turn[5] = 0
  BY DEF Turn
<1>2. Matrix(FALSE, 0) = << "upright", 0 >> /\ Matrix(FALSE, 5) = << "upright", 0 >>
  BY <1>1 DEF Matrix
<1>3. Matrix(FALSE, 0) \in Tm
  BY MatrixType DEF Angle
<1>4. QED
  BY <1>2, <1>3 DEF Identity, HH

LEMMA StreamFields ==
  ASSUME NEW s \in Stream
  PROVE  /\ s.text \in BOOLEAN /\ s.string \in {"none", "hex", "literal"} /\ s.tm \in Tm
         /\ s.res \in SUBSET Font /\ s.bad \in SUBSET Kind /\ s.gs \in Gstate /\ s.saved \in Seq(Gstate)
         /\ s.gs.font \in AnyFont /\ s.gs.bold \in BOOLEAN /\ s.gs.fill \in Color \cup {"inherited"}
BY DEF Stream, Gstate

(***************************************************************************)
(* Operators on a stream.  Kept(s, t) is what most of them leave alone.     *)
(***************************************************************************)
\* t has the colour and the saved states of s.
Kept(s, t) == t.gs.fill = s.gs.fill /\ t.saved = s.saved

LEMMA ExecBT ==
  ASSUME NEW s \in Stream, NEW t, t = Exec(s, [op |-> "BT"])
  PROVE  /\ t \in Stream /\ Kept(s, t) /\ (~s.text => t.bad = s.bad)
         /\ t.text = TRUE /\ t.tm = Identity
         /\ t.string = s.string /\ t.res = s.res /\ t.gs = s.gs
BY IdentityType DEF Exec, Stream, Kept, Fault, Kind

LEMMA ExecET ==
  ASSUME NEW s \in Stream, NEW t, t = Exec(s, [op |-> "ET"])
  PROVE  /\ t \in Stream /\ Kept(s, t) /\ (s.text /\ s.string = "none" => t.bad = s.bad)
         /\ t.text = FALSE /\ t.gs.bold = s.gs.bold
         /\ t.string = s.string /\ t.res = s.res
BY IdentityType DEF Exec, Stream, Gstate, AnyFont, Kept, Fault, Kind

LEMMA ExecTf ==
  ASSUME NEW s \in Stream, NEW f \in Font, NEW t, t = Exec(s, [op |-> "Tf", font |-> f])
  PROVE  /\ t \in Stream /\ Kept(s, t) /\ (f \in s.res /\ s.string = "none" => t.bad = s.bad)
         /\ t.gs.font = f /\ t.gs.bold = s.gs.bold
         /\ t.text = s.text /\ t.string = s.string /\ t.res = s.res /\ t.tm = s.tm
BY DEF Exec, Stream, Gstate, AnyFont, Kept, Fault, Kind

LEMMA ExecTr ==
  ASSUME NEW s \in Stream, NEW b \in BOOLEAN, NEW t, t = Exec(s, [op |-> "Tr", bold |-> b])
  PROVE  /\ t \in Stream /\ Kept(s, t) /\ (s.string = "none" => t.bad = s.bad)
         /\ t.gs.bold = b /\ t.gs.font = s.gs.font
         /\ t.text = s.text /\ t.string = s.string /\ t.res = s.res /\ t.tm = s.tm
BY DEF Exec, Stream, Gstate, AnyFont, Kept, Fault, Kind

LEMMA ExecTm ==
  ASSUME NEW s \in Stream, NEW m \in Tm, NEW t, t = Exec(s, [op |-> "Tm", tm |-> m])
  PROVE  /\ t \in Stream /\ Kept(s, t) /\ (s.text /\ s.string = "none" => t.bad = s.bad)
         /\ t.tm = m
         /\ t.text = s.text /\ t.string = s.string /\ t.res = s.res /\ t.gs = s.gs
BY DEF Exec, Stream, Kept, Fault, Kind

LEMMA ExecOpen ==
  ASSUME NEW s \in Stream, NEW b \in BOOLEAN, NEW t, t = Exec(s, [op |-> "open", delim |-> Delimiter(b)])
  PROVE  /\ t \in Stream /\ Kept(s, t) /\ (s.text /\ s.string = "none" => t.bad = s.bad)
         /\ t.string = Delimiter(b)
         /\ t.text = s.text /\ t.res = s.res /\ t.gs = s.gs /\ t.tm = s.tm
BY DEF Exec, Stream, Kept, Fault, Kind, Delimiter

LEMMA ExecKern ==
  ASSUME NEW s \in Stream, NEW x, NEW t, t = Exec(s, [op |-> "kern", delim |-> x])
  PROVE  t \in Stream /\ (s.string = x => t = s)
BY DEF Exec, Stream, Kept, Fault, Kind

LEMMA ExecClose ==
  ASSUME NEW s \in Stream, NEW x, NEW t, t = Exec(s, [op |-> "close", delim |-> x])
  PROVE  /\ t \in Stream /\ Kept(s, t) /\ (s.string = x => t.bad = s.bad)
         /\ t.string = "none"
         /\ t.text = s.text /\ t.res = s.res /\ t.gs = s.gs /\ t.tm = s.tm
BY DEF Exec, Stream, Kept, Fault, Kind

LEMMA ExecShow ==
  ASSUME NEW s \in Stream, NEW x, NEW w, NEW t, t = Exec(s, [op |-> "show", delim |-> x, want |-> w])
  PROVE  t \in Stream /\ (s.string = x /\ w = << s.gs.font, s.gs.bold, s.tm >> => t = s)
BY DEF Exec, Stream, Kept, Fault, Kind

LEMMA ExecPaint ==
  ASSUME NEW s \in Stream, NEW t, t = Exec(s, [op |-> "paint"])
  PROVE  t \in Stream /\ (~s.text => t = s)
BY DEF Exec, Stream, Fault, Kind

LEMMA ExecColor ==
  ASSUME NEW s \in Stream, NEW c \in Color, NEW t, t = Exec(s, [op |-> "color", color |-> c])
  PROVE  /\ t \in Stream /\ (~s.text => t.bad = s.bad)
         /\ t.gs.fill = c /\ t.gs.bold = s.gs.bold /\ t.gs.font = s.gs.font
         /\ t.text = s.text /\ t.string = s.string /\ t.res = s.res /\ t.saved = s.saved /\ t.tm = s.tm
BY DEF Exec, Stream, Gstate, Fault, Kind

LEMMA SavedSeq ==
  ASSUME NEW r \in Seq(Gstate)
  PROVE  /\ \A g \in Gstate : Append(r, g) \in Seq(Gstate)
         /\ r # << >> => Front(r) \in Seq(Gstate) /\ Last(r) \in Gstate
<1>1. r # << >> => Len(r) >= 1
  OBVIOUS
<1>2. QED
  BY <1>1 DEF Front, Last

LEMMA Exec_q ==
  ASSUME NEW s \in Stream, NEW t, t = Exec(s, [op |-> "q"])
  PROVE  /\ t \in Stream /\ (~s.text => t.bad = s.bad)
         /\ t.saved = Append(s.saved, s.gs)
         /\ t.text = s.text /\ t.string = s.string /\ t.res = s.res /\ t.gs = s.gs /\ t.tm = s.tm
<1> DEFINE r == Append(s.saved, s.gs)
<1>1. r \in Seq(Gstate)
  BY SavedSeq, StreamFields
<1>2. t = [s EXCEPT !.saved = r, !.bad = Fault(s, ~s.text, "syntax")]
  BY DEF Exec
<1> HIDE DEF r
<1>3. QED
  BY <1>1, <1>2 DEF Stream, Fault, Kind, r

LEMMA Exec_Q ==
  ASSUME NEW s \in Stream, s.saved # << >>, NEW t, t = Exec(s, [op |-> "Q"])
  PROVE  /\ t \in Stream /\ (~s.text => t.bad = s.bad)
         /\ t.gs = Last(s.saved) /\ t.saved = Front(s.saved)
         /\ t.text = s.text /\ t.string = s.string /\ t.res = s.res /\ t.tm = s.tm
<1> DEFINE r == Front(s.saved)
           g == Last(s.saved)
<1>1. r \in Seq(Gstate) /\ g \in Gstate
  BY SavedSeq, StreamFields
<1>2. t = [s EXCEPT !.gs = g, !.saved = r, !.bad = Fault(s, ~s.text, "syntax")]
  BY DEF Exec
<1> HIDE DEF r, g
<1>3. QED
  BY <1>1, <1>2, ZenonT(30) DEF Stream, Fault, Kind, r, g
(***************************************************************************)
(* What the functions of the device do to it.                               *)
(***************************************************************************)
Top(d) == Last(d.out)

\* The state of the text is the same, and everything but the innermost stream
\* and the state of the text.
SameText(d, e) ==
  /\ e.motion = d.motion /\ e.font = d.font /\ e.slanted = d.slanted /\ e.rotate = d.rotate
  /\ e.bold = d.bold /\ e.mb = d.mb /\ e.reset = d.reset /\ e.used = d.used
SameStreams(d, e) ==
  /\ Len(e.out) = Len(d.out)
  /\ \A i \in 1 .. Len(d.out) - 1 : e.out[i] = d.out[i]
SameRest(d, e) ==
  /\ e.dir = d.dir /\ e.gs = d.gs /\ e.cs = d.cs /\ e.forms = d.forms
  /\ e.bad = d.bad /\ e.failed = d.failed

LEMMA DeviceFields ==
  ASSUME NEW d \in Device
  PROVE  /\ d.motion \in {"graphics", "text", "string"} /\ d.font \in AnyFont /\ d.slanted \in BOOLEAN
         /\ d.rotate \in Angle /\ d.bold \in BOOLEAN /\ d.mb \in BOOLEAN /\ d.reset \in BOOLEAN
         /\ d.dir \in Dirs /\ d.used \in SUBSET Font /\ d.gs \in Seq(Color) /\ d.cs \in Seq(Color)
         /\ d.out \in Seq(Stream) /\ d.forms \in Seq(Nat) /\ d.bad \in SUBSET Kind /\ d.failed \in BOOLEAN
BY DEF Device

\* Sequences of anything, seen from their end.
LEMMA LastSet ==
  ASSUME NEW S, NEW q \in Seq(S), q # << >>, NEW t \in S, NEW r, r = [q EXCEPT ![Len(q)] = t]
  PROVE  /\ r \in Seq(S) /\ Len(r) = Len(q) /\ Last(r) = t /\ r # << >>
         /\ \A i \in 1 .. Len(q) - 1 : r[i] = q[i]
         /\ Len(q) >= 1 /\ Last(q) \in S /\ Last(q) = q[Len(q)]
<1>1. Len(q) >= 1 /\ Len(q) \in Nat
  OBVIOUS
<1>2. r \in Seq(S) /\ Len(r) = Len(q)
  BY <1>1
<1>3. \A i \in 1 .. Len(q) : r[i] = IF i = Len(q) THEN t ELSE q[i]
  BY <1>1
<1>4. r[Len(q)] = t /\ \A i \in 1 .. Len(q) - 1 : r[i] = q[i]
  BY <1>1, <1>3
<1>5. q[Len(q)] \in S /\ r # << >>
  BY <1>1, <1>2
<1>6. QED
  BY <1>1, <1>2, <1>4, <1>5 DEF Last

LEMMA TopType ==
  ASSUME NEW d \in Device, d.out # << >>
  PROVE  Top(d) \in Stream /\ Top(d) = d.out[Len(d.out)] /\ Len(d.out) >= 1 /\ Len(d.out) \in Nat
<1>1. d.out \in Seq(Stream)
  BY DeviceFields
<1>2. Len(d.out) >= 1 /\ Len(d.out) \in Nat
  BY <1>1
<1>3. QED
  BY <1>1, <1>2 DEF Top, Last

LEMMA EmitIs ==
  ASSUME NEW d \in Device, d.out # << >>, NEW op, Exec(Top(d), op) \in Stream, NEW e, e = Emit(d, op)
  PROVE  /\ e \in Device /\ e.out # << >> /\ Top(e) = Exec(Top(d), op)
         /\ SameText(d, e) /\ SameStreams(d, e) /\ SameRest(d, e)
<1> DEFINE q == d.out
           t == Exec(Top(d), op)
           r == [q EXCEPT ![Len(q)] = t]
<1>1. q \in Seq(Stream) /\ Top(d) = q[Len(q)] /\ t \in Stream
  BY TopType, DeviceFields
<1>2. e = [d EXCEPT !.out = r]
  BY <1>1 DEF Emit
<1>3. /\ r \in Seq(Stream) /\ Len(r) = Len(q) /\ Last(r) = t /\ r # << >>
      /\ \A i \in 1 .. Len(q) - 1 : r[i] = q[i]
  BY <1>1, LastSet
<1> HIDE DEF r, t
<1>4. e \in Device /\ e.out = r
  BY <1>2, <1>3 DEF Device
<1>5. SameText(d, e) /\ SameRest(d, e)
  BY <1>2 DEF SameText, SameRest, Device
<1>6. QED
  BY <1>3, <1>4, <1>5 DEF SameStreams, Top, t
\* What the functions that show text do: they leave alone everything but the
\* state of the text and, in the innermost stream, what Kept does not name.
Draws(d, e) ==
  /\ e \in Device /\ e.out # << >>
  /\ SameStreams(d, e) /\ SameRest(d, e) /\ Kept(Top(d), Top(e))

LEMMA DrawsOn ==
  ASSUME NEW d, NEW e, NEW f, Draws(d, e), Draws(e, f)
  PROVE  Draws(d, f)
BY DEF Draws, SameStreams, SameRest, Kept

\* The viewer is in the state the device believes it is in.
TextRight(d) ==
  LET s == Top(d) IN
  /\ s.bad = {}
  /\ s.text = (d.motion # "graphics")
  /\ s.string = (IF d.motion = "string" THEN Delimiter(d.mb) ELSE "none")
  /\ s.gs.bold = d.bold
  /\ d.motion # "graphics" /\ d.font # NoFont => s.gs.font = d.font
  /\ d.motion # "graphics" /\ ~d.reset => s.tm = Matrix(d.slanted, d.rotate)
  /\ d.used \subseteq s.res

\* What the device remembers of the font is right for the font.
FontRight(d) ==
  /\ d.motion = "graphics" => d.font = NoFont /\ ~d.bold /\ ~d.reset
  /\ d.font # NoFont => /\ d.mb = (d.font \in Composite) /\ d.slanted = (d.font \in Slanted)
                        /\ d.bold = (d.font \in Bold) /\ d.rotate = Rotation(d.font, d.dir)
  /\ d.slanted => d.rotate \in {d.dir, d.dir + 4}
  /\ d.rotate \in {0, d.dir, d.dir + 4}

Sound(d) == d \in Device /\ d.out # << >> /\ TextRight(d) /\ FontRight(d)

LEMMA MatrixIs ==
  ASSUME NEW d \in Device, d.out # << >>, NEW e, e = SetTextMatrix(d),
         Top(d).text, Top(d).string = "none"
  PROVE  /\ Draws(d, e) /\ SameText(d, e) /\ Top(e).tm = Matrix(d.slanted, d.rotate)
         /\ Top(e).text = TRUE /\ Top(e).string = "none" /\ Top(e).res = Top(d).res
         /\ Top(e).gs = Top(d).gs /\ Top(e).bad = Top(d).bad
<1> DEFINE m == Matrix(d.slanted, d.rotate)
<1>1. m \in Tm /\ Top(d) \in Stream
  BY MatrixType, DeviceFields, TopType
<1>2. e = Emit(d, [op |-> "Tm", tm |-> m])
  BY DEF SetTextMatrix
<1> HIDE DEF m
<1>3. Top(e) = Exec(Top(d), [op |-> "Tm", tm |-> m]) /\ Exec(Top(d), [op |-> "Tm", tm |-> m]) \in Stream
  BY <1>1, <1>2, ExecTm, EmitIs
<1>4. QED
  BY <1>1, <1>2, <1>3, ExecTm, EmitIs DEF Draws, m

LEMMA ResetTextIs ==
  ASSUME NEW d, Sound(d), d.motion = "graphics", NEW e, e = ResetTextState(d)
  PROVE  /\ Draws(d, e) /\ SameText(d, e) /\ Top(e).tm = Matrix(d.slanted, d.rotate)
         /\ Top(e).text = TRUE /\ Top(e).string = "none" /\ Top(e).res = Top(d).res
         /\ Top(e).gs = Top(d).gs /\ Top(e).bad = {}
<1> DEFINE bt == Emit(d, [op |-> "BT"])
           tm == SetTextMatrix(bt)
           s == Top(d)
<1>1. /\ d \in Device /\ d.out # << >> /\ ~d.reset
      /\ s \in Stream /\ s.text = FALSE /\ s.string = "none" /\ s.bad = {}
  BY TopType DEF Sound, TextRight, FontRight
<1>2. /\ Top(bt) = Exec(s, [op |-> "BT"]) /\ Exec(s, [op |-> "BT"]) \in Stream
      /\ bt \in Device /\ bt.out # << >> /\ SameText(d, bt) /\ SameStreams(d, bt) /\ SameRest(d, bt)
  <2>1. Exec(s, [op |-> "BT"]) \in Stream
    BY <1>1, ExecBT
  <2>2. QED
    BY <1>1, <2>1, EmitIs
<1> HIDE DEF bt, s
<1>3. /\ Draws(d, bt) /\ Top(bt).text = TRUE /\ Top(bt).tm = Identity /\ Top(bt).string = "none"
      /\ Top(bt).res = s.res /\ Top(bt).gs = s.gs /\ Top(bt).bad = {}
  BY <1>1, <1>2, ExecBT DEF Draws, s
<1>4. /\ Draws(bt, tm) /\ SameText(bt, tm) /\ Top(tm).tm = Matrix(d.slanted, d.rotate)
      /\ Top(tm).text = TRUE /\ Top(tm).string = "none" /\ Top(tm).res = s.res
      /\ Top(tm).gs = s.gs /\ Top(tm).bad = {}
  <2>1. bt.slanted = d.slanted /\ bt.rotate = d.rotate
    BY <1>2 DEF SameText
  <2>2. /\ Draws(bt, tm) /\ SameText(bt, tm) /\ Top(tm).tm = Matrix(bt.slanted, bt.rotate)
        /\ Top(tm).text = TRUE /\ Top(tm).string = "none" /\ Top(tm).res = Top(bt).res
        /\ Top(tm).gs = Top(bt).gs /\ Top(tm).bad = Top(bt).bad
    BY <1>2, <1>3, MatrixIs
  <2>3. QED
    BY <1>3, <2>1, <2>2
<1> HIDE DEF tm
<1>5. Draws(d, tm) /\ SameText(d, tm)
  BY <1>2, <1>3, <1>4, DrawsOn DEF SameText
<1>6. d.slanted = FALSE /\ d.rotate \in {0, 5} => Identity = Matrix(d.slanted, d.rotate)
  BY IdentityType
<1>7. \/ e = [tm EXCEPT !.reset = FALSE]
      \/ e = [bt EXCEPT !.reset = FALSE] /\ d.slanted = FALSE /\ d.rotate \in {0, 5}
  <2>1. e = [IF d.reset \/ d.slanted \/ d.rotate \notin {0, 5} THEN tm ELSE bt EXCEPT !.reset = FALSE]
    BY DEF ResetTextState, bt, tm
  <2>2. d.slanted \in BOOLEAN
    BY <1>1, DeviceFields
  <2>3. CASE d.reset \/ d.slanted \/ d.rotate \notin {0, 5}
    BY <2>1, <2>3
  <2>4. CASE ~(d.reset \/ d.slanted \/ d.rotate \notin {0, 5})
    BY <2>1, <2>2, <2>4
  <2>5. QED
    BY <2>3, <2>4
<1>8. ASSUME NEW x, x = tm \/ (x = bt /\ d.slanted = FALSE /\ d.rotate \in {0, 5}),
             e = [x EXCEPT !.reset = FALSE]
      PROVE  /\ Draws(d, e) /\ SameText(d, e) /\ Top(e).tm = Matrix(d.slanted, d.rotate)
             /\ Top(e).text = TRUE /\ Top(e).string = "none" /\ Top(e).res = s.res
             /\ Top(e).gs = s.gs /\ Top(e).bad = {}
  <2>1. /\ Draws(d, x) /\ SameText(d, x) /\ x.reset = FALSE /\ Top(x).tm = Matrix(d.slanted, d.rotate)
        /\ Top(x).text = TRUE /\ Top(x).string = "none" /\ Top(x).res = s.res
        /\ Top(x).gs = s.gs /\ Top(x).bad = {}
    BY <1>1, <1>2, <1>3, <1>4, <1>5, <1>6, <1>8 DEF SameText, Device
  <2>2. x \in Device
    BY <2>1 DEF Draws
  <2>3. e \in Device /\ e.out = x.out /\ SameText(x, e) /\ SameRest(x, e)
    BY <1>8, <2>1, <2>2 DEF Device, SameText, SameRest
  <2>4. Top(e) = Top(x)
    BY <2>3 DEF Top
  <2>5. QED
    BY <2>1, <2>3, <2>4 DEF Draws, SameText, SameRest, SameStreams, Kept
<1>9. QED
  BY <1>7, <1>8 DEF s
\* Assignments to the state of the text.
LEMMA Assigned ==
  ASSUME NEW d, NEW x, NEW e, Draws(d, x), e \in Device, e.out = x.out, SameRest(x, e)
  PROVE  Draws(d, e) /\ Top(e) = Top(x)
<1>1. Top(e) = Top(x)
  BY DEF Top
<1>2. QED
  BY <1>1 DEF Draws, SameRest, SameStreams, Kept

LEMMA DrawsSame == ASSUME NEW d \in Device, d.out # << >> PROVE Draws(d, d) /\ SameText(d, d)
BY DEF Draws, SameRest, SameStreams, Kept, SameText

LEMMA CloseStringIs ==
  ASSUME NEW d, Sound(d), d.motion = "string", NEW e, e = CloseString(d)
  PROVE  /\ Draws(d, e) /\ SameText(d, e) /\ Top(e).tm = Top(d).tm
         /\ Top(e).text = TRUE /\ Top(e).string = "none" /\ Top(e).res = Top(d).res
         /\ Top(e).gs = Top(d).gs /\ Top(e).bad = {}
<1> DEFINE s == Top(d)
           x == Delimiter(d.mb)
           op == [op |-> "close", delim |-> x]
<1>1. /\ d \in Device /\ d.out # << >>
      /\ s \in Stream /\ s.text = TRUE /\ s.string = x /\ s.bad = {}
  BY TopType DEF Sound, TextRight
<1>2. e = Emit(d, op)
  BY DEF CloseString
<1> HIDE DEF s, x
<1>3. Exec(s, op) \in Stream
  BY <1>1, ExecClose
<1>4. /\ Top(e) = Exec(s, op)
      /\ e \in Device /\ e.out # << >> /\ SameText(d, e) /\ SameStreams(d, e) /\ SameRest(d, e)
  BY <1>1, <1>2, <1>3, EmitIs DEF s
<1>5. /\ Kept(s, Top(e)) /\ Top(e).bad = s.bad /\ Top(e).string = "none"
      /\ Top(e).text = s.text /\ Top(e).res = s.res /\ Top(e).gs = s.gs /\ Top(e).tm = s.tm
  BY <1>1, <1>4, ExecClose
<1>6. QED
  BY <1>1, <1>4, <1>5 DEF Draws, s

\* text_mode().
LEMMA TextModeIs ==
  ASSUME NEW d, Sound(d), NEW e, e = TextMode(d)
  PROVE  /\ Sound(e) /\ Draws(d, e) /\ e.motion = "text"
         /\ e.font = d.font /\ e.slanted = d.slanted /\ e.rotate = d.rotate
         /\ e.bold = d.bold /\ e.mb = d.mb /\ e.reset = d.reset /\ e.used = d.used
<1>1. d \in Device /\ d.out # << >>
  BY DEF Sound
<1>2. ASSUME NEW x, Draws(d, x), SameText(d, x), e = [x EXCEPT !.motion = "text"],
             Top(x).bad = {}, Top(x).text = TRUE, Top(x).string = "none",
             Top(x).gs.bold = d.bold, Top(x).gs.font = Top(d).gs.font \/ d.font = NoFont,
             Top(x).res = Top(d).res,
             ~d.reset => Top(x).tm = Matrix(d.slanted, d.rotate)
      PROVE  /\ Sound(e) /\ Draws(d, e) /\ e.motion = "text"
             /\ e.font = d.font /\ e.slanted = d.slanted /\ e.rotate = d.rotate
             /\ e.bold = d.bold /\ e.mb = d.mb /\ e.reset = d.reset /\ e.used = d.used
  <2>1. Draws(d, x) /\ x \in Device /\ SameRest(d, x)
    BY <1>2 DEF Draws
  <2>2. /\ e \in Device /\ e.out = x.out /\ SameRest(x, e) /\ e.motion = "text"
        /\ e.font = x.font /\ e.slanted = x.slanted /\ e.rotate = x.rotate
        /\ e.bold = x.bold /\ e.mb = x.mb /\ e.reset = x.reset /\ e.used = x.used
    BY <1>2, <2>1, ZenonT(30) DEF Device, SameRest
  <2>3. Draws(d, e) /\ Top(e) = Top(x)
    BY <2>1, <2>2, Assigned
  <2>4. /\ e.font = d.font /\ e.slanted = d.slanted /\ e.rotate = d.rotate /\ e.dir = d.dir
        /\ e.bold = d.bold /\ e.mb = d.mb /\ e.reset = d.reset /\ e.used = d.used
    BY <1>2, <2>1, <2>2 DEF SameText, SameRest
  <2>5. FontRight(e)
    BY <2>2, <2>4 DEF Sound, FontRight
  <2>6. TextRight(e)
    <3>1. d.font # NoFont => d.motion # "graphics" /\ Top(d).gs.font = d.font
      BY DEF Sound, FontRight, TextRight
    <3>2. d.used \subseteq Top(d).res
      BY DEF Sound, TextRight
    <3>3. QED
      BY <1>2, <2>2, <2>3, <2>4, <3>1, <3>2 DEF TextRight
  <2>7. QED
    BY <2>2, <2>3, <2>4, <2>5, <2>6 DEF Sound, Draws
<1>3. CASE d.motion = "text"
  <2>1. e = [d EXCEPT !.motion = "text"]
    BY <1>3 DEF TextMode
  <2>2. QED
    BY <1>1, <1>2, <1>3, <2>1, DrawsSame DEF Sound, TextRight
<1>4. CASE d.motion = "string"
  <2> DEFINE x == CloseString(d)
  <2>1. e = [x EXCEPT !.motion = "text"]
    BY <1>4 DEF TextMode
  <2>2. /\ Draws(d, x) /\ SameText(d, x) /\ Top(x).tm = Top(d).tm
         /\ Top(x).text = TRUE /\ Top(x).string = "none" /\ Top(x).res = Top(d).res
         /\ Top(x).gs = Top(d).gs /\ Top(x).bad = {}
    BY <1>4, CloseStringIs
  <2> HIDE DEF x
  <2>3. Top(d).gs.bold = d.bold /\ (~d.reset => Top(d).tm = Matrix(d.slanted, d.rotate))
    BY <1>4 DEF Sound, TextRight
  <2>4. QED
    BY <1>2, <2>1, <2>2, <2>3
<1>5. CASE d.motion = "graphics"
  <2> DEFINE x == ResetTextState(d)
  <2>1. e = [x EXCEPT !.motion = "text"]
    BY <1>5 DEF TextMode
  <2>2. /\ Draws(d, x) /\ SameText(d, x) /\ Top(x).tm = Matrix(d.slanted, d.rotate)
        /\ Top(x).text = TRUE /\ Top(x).string = "none" /\ Top(x).res = Top(d).res
        /\ Top(x).gs = Top(d).gs /\ Top(x).bad = {}
    BY <1>5, ResetTextIs
  <2> HIDE DEF x
  <2>3. Top(d).gs.bold = d.bold
    BY DEF Sound, TextRight
  <2>4. QED
    BY <1>2, <2>1, <2>2, <2>3
<1>6. QED
  BY <1>1, <1>3, <1>4, <1>5, DeviceFields
LEMMA RenderingIs ==
  ASSUME NEW d \in Device, d.out # << >>, Top(d).string = "none", NEW b \in BOOLEAN,
         NEW e, e = Emit(d, [op |-> "Tr", bold |-> b])
  PROVE  /\ Draws(d, e) /\ SameText(d, e) /\ Top(e).gs.bold = b /\ Top(e).gs.font = Top(d).gs.font
         /\ Top(e).tm = Top(d).tm /\ Top(e).text = Top(d).text /\ Top(e).string = "none"
         /\ Top(e).res = Top(d).res /\ Top(e).bad = Top(d).bad
<1> DEFINE s == Top(d)
           op == [op |-> "Tr", bold |-> b]
<1>1. s \in Stream
  BY TopType
<1> HIDE DEF s
<1>2. Exec(s, op) \in Stream
  BY <1>1, ExecTr
<1>3. /\ Top(e) = Exec(s, op)
      /\ e \in Device /\ e.out # << >> /\ SameText(d, e) /\ SameStreams(d, e) /\ SameRest(d, e)
  BY <1>2, EmitIs DEF s
<1>4. /\ Kept(s, Top(e)) /\ (s.string = "none" => Top(e).bad = s.bad)
      /\ Top(e).gs.bold = b /\ Top(e).gs.font = s.gs.font
      /\ Top(e).text = s.text /\ Top(e).string = s.string /\ Top(e).res = s.res /\ Top(e).tm = s.tm
  BY <1>1, <1>3, ExecTr
<1>5. QED
  BY <1>3, <1>4 DEF Draws, s

\* graphics_mode().
LEMMA GraphicsModeIs ==
  ASSUME NEW d, Sound(d), NEW e, e = GraphicsMode(d)
  PROVE  Sound(e) /\ Draws(d, e) /\ e.motion = "graphics" /\ e.used = d.used
<1>1. d \in Device /\ d.out # << >> /\ TextRight(d) /\ FontRight(d)
  BY DEF Sound
<1>2. CASE d.motion = "graphics"
  BY <1>1, <1>2, DrawsSame DEF GraphicsMode
<1>3. ASSUME d.motion # "graphics" PROVE Sound(e) /\ Draws(d, e) /\ e.motion = "graphics" /\ e.used = d.used
  <2> DEFINE a == IF d.motion = "string" THEN CloseString(d) ELSE d
             b == EmitIf(a, d.bold, [op |-> "Tr", bold |-> FALSE])
             c == Emit(b, [op |-> "ET"])
  <2>1. /\ Draws(d, a) /\ SameText(d, a) /\ Top(a).text = TRUE /\ Top(a).string = "none"
        /\ Top(a).res = Top(d).res /\ Top(a).gs = Top(d).gs /\ Top(a).bad = {}
    <3>1. CASE d.motion = "string"
      BY <3>1, CloseStringIs
    <3>2. CASE d.motion # "string"
      BY <1>1, <1>3, <3>2, DrawsSame DEF TextRight
    <3>3. QED
      BY <3>1, <3>2
  <2> HIDE DEF a
  <2>2. a \in Device /\ a.out # << >>
    BY <2>1 DEF Draws
  <2>16. \/ d.bold = TRUE /\ b = Emit(a, [op |-> "Tr", bold |-> FALSE])
         \/ d.bold = FALSE /\ b = a
    <3>1. d.bold \in BOOLEAN
      BY <1>1, DeviceFields
    <3>2. QED
      BY <3>1 DEF EmitIf
  <2>7. e = [c EXCEPT !.bold = FALSE, !.reset = FALSE, !.font = NoFont, !.motion = "graphics"]
    BY <1>3 DEF GraphicsMode, a, b
  <2> HIDE DEF b
  <2>3. /\ Draws(a, b) /\ SameText(a, b) /\ Top(b).text = TRUE /\ Top(b).string = "none"
        /\ Top(b).res = Top(d).res /\ Top(b).gs.bold = FALSE /\ Top(b).bad = {}
    <3>1. Top(a).gs.bold = d.bold
      BY <1>1, <2>1 DEF TextRight
    <3>2. CASE d.bold = FALSE /\ b = a
      BY <2>1, <2>2, <3>1, <3>2, DrawsSame
    <3>3. ASSUME NEW f \in BOOLEAN, f = FALSE, b = Emit(a, [op |-> "Tr", bold |-> f])
          PROVE  /\ Draws(a, b) /\ SameText(a, b) /\ Top(b).text = TRUE /\ Top(b).string = "none"
                 /\ Top(b).res = Top(d).res /\ Top(b).gs.bold = FALSE /\ Top(b).bad = {}
      <4>1. /\ Draws(a, b) /\ SameText(a, b) /\ Top(b).gs.bold = f /\ Top(b).text = Top(a).text
            /\ Top(b).string = "none" /\ Top(b).res = Top(a).res /\ Top(b).bad = Top(a).bad
        BY <2>1, <2>2, <3>3, RenderingIs
      <4>2. QED
        BY <2>1, <3>3, <4>1
    <3>4. QED
      BY <2>16, <3>2, <3>3
  <2>4. b \in Device /\ b.out # << >> /\ Top(b) \in Stream
    BY <2>3, TopType DEF Draws
  <2>5. /\ Top(c) = Exec(Top(b), [op |-> "ET"]) /\ Exec(Top(b), [op |-> "ET"]) \in Stream
        /\ c \in Device /\ c.out # << >> /\ SameText(b, c) /\ SameStreams(b, c) /\ SameRest(b, c)
    <3>1. Exec(Top(b), [op |-> "ET"]) \in Stream
      BY <2>4, ExecET
    <3>2. QED
      BY <2>4, <3>1, EmitIs
  <2>6. /\ Kept(Top(b), Top(c)) /\ Top(c).text = FALSE /\ Top(c).string = "none"
        /\ Top(c).res = Top(d).res /\ Top(c).gs.bold = FALSE /\ Top(c).bad = {}
    BY <2>3, <2>4, <2>5, ExecET
  <2> HIDE DEF c
  <2>8. Draws(b, c)
    BY <2>5, <2>6 DEF Draws
  <2>9. Draws(d, c)
    BY <2>1, <2>3, <2>8, DrawsOn
  <2>10. /\ e \in Device /\ e.out = c.out /\ SameRest(c, e)
         /\ e.motion = "graphics" /\ e.font = NoFont /\ e.slanted = c.slanted /\ e.rotate = c.rotate
         /\ e.bold = FALSE /\ e.mb = c.mb /\ e.reset = FALSE /\ e.used = c.used
    BY <2>5, <2>7 DEF Device, SameRest, AnyFont
  <2>11. Draws(d, e) /\ Top(e) = Top(c)
    BY <2>9, <2>10, Assigned
  <2>12. e.slanted = d.slanted /\ e.rotate = d.rotate /\ e.used = d.used /\ e.dir = d.dir
    BY <2>1, <2>3, <2>5, <2>10, <2>11 DEF SameText, Draws, SameRest
  <2>13. FontRight(e)
    BY <1>1, <2>10, <2>12 DEF FontRight
  <2>14. TextRight(e)
    BY <1>1, <2>6, <2>10, <2>11, <2>12 DEF TextRight
  <2>15. QED
    BY <2>10, <2>11, <2>12, <2>13, <2>14 DEF Sound, Draws
<1>4. QED
  BY <1>2, <1>3
(***************************************************************************)
(* Fonts and strings.                                                       *)
(***************************************************************************)
LEMMA RotationType ==
  ASSUME NEW f \in Font, NEW d \in Dirs
  PROVE  Rotation(f, d) \in {d, d + 4} /\ Rotation(f, d) \in Angle
BY DevAssumption DEF Rotation, Angle

\* The matrix in force serves the new font unless a reset is asked for.
LEMMA MatrixServes ==
  ASSUME NEW f \in Font, NEW d \in Dirs, NEW b \in BOOLEAN, NEW r \in Angle,
         b => r \in {d, d + 4}, ~AngleChanges(Rotation(f, d), r)
  PROVE  Matrix(b, Rotation(f, d)) = Matrix(b, r)
<1> DEFINE t == Rotation(f, d)
<1>1. t \in {d, d + 4} /\ t \in Angle /\ r \in Angle /\ d \in {0, 1, 3}
  BY RotationType, DevAssumption
<1>2. (IF t > r THEN t - r ELSE r - t) % 5 = 0
  BY DEF AngleChanges
<1> HIDE DEF t
<1>3. t = r \/ (t \in {0, 5} /\ r \in {0, 5})
  BY <1>1, <1>2 DEF Angle
<1>4. CASE t = r
  BY <1>4 DEF t
<1>5. CASE t # r
  <2>1. b = FALSE
    BY <1>1, <1>3, <1>5
  <2>2. Matrix(FALSE, t) = Identity /\ Matrix(FALSE, r) = Identity
    BY <1>3, <1>5, IdentityType
  <2>3. QED
    BY <2>1, <2>2 DEF t
<1>6. QED
  BY <1>4, <1>5
\* The fields pdf_dev_set_font assigns, and the resources of the stream.
FontFields(d, mb, reset, slanted, rotate, res, used) ==
  [d EXCEPT !.mb = mb, !.reset = reset, !.slanted = slanted, !.rotate = rotate,
            !.out[Len(d.out)].res = res, !.used = used]

LEMMA FontAssigned ==
  ASSUME NEW d \in Device, d.out # << >>, NEW mb \in BOOLEAN, NEW reset \in BOOLEAN,
         NEW slanted \in BOOLEAN, NEW rotate \in Angle, NEW res \in SUBSET Font, NEW used \in SUBSET Font
  PROVE  LET n == FontFields(d, mb, reset, slanted, rotate, res, used) IN
         /\ Draws(d, n) /\ Top(n).res = res /\ Top(n).text = Top(d).text /\ Top(n).string = Top(d).string
         /\ Top(n).tm = Top(d).tm /\ Top(n).gs = Top(d).gs /\ Top(n).bad = Top(d).bad
         /\ n.mb = mb /\ n.reset = reset /\ n.slanted = slanted /\ n.rotate = rotate /\ n.used = used
         /\ n.font = d.font /\ n.bold = d.bold /\ n.motion = d.motion /\ n.dir = d.dir
<1> DEFINE n == FontFields(d, mb, reset, slanted, rotate, res, used)
           q == d.out
           s == Top(d)
           t == [s EXCEPT !.res = res]
           r == [q EXCEPT ![Len(q)] = t]
<1>1. q \in Seq(Stream) /\ q # << >> /\ s = q[Len(q)] /\ s \in Stream
  BY TopType, DeviceFields
<1>2. n = [d EXCEPT !.mb = mb, !.reset = reset, !.slanted = slanted, !.rotate = rotate,
                    !.out = r, !.used = used]
  BY <1>1 DEF FontFields
<1> HIDE DEF s, n
<1>3. /\ t \in Stream /\ t.res = res /\ t.text = s.text /\ t.string = s.string
      /\ t.tm = s.tm /\ t.gs = s.gs /\ t.bad = s.bad /\ Kept(s, t)
  BY <1>1 DEF Stream, Kept
<1> HIDE DEF t
<1>4. /\ r \in Seq(Stream) /\ Len(r) = Len(q) /\ Last(r) = t /\ r # << >>
      /\ \A i \in 1 .. Len(q) - 1 : r[i] = q[i]
  BY <1>1, <1>3, LastSet
<1> HIDE DEF r
<1>5. /\ n \in Device /\ n.out = r /\ SameRest(d, n)
      /\ n.mb = mb /\ n.reset = reset /\ n.slanted = slanted /\ n.rotate = rotate /\ n.used = used
      /\ n.font = d.font /\ n.bold = d.bold /\ n.motion = d.motion /\ n.dir = d.dir
  BY <1>2, <1>4, ZenonT(30) DEF Device, SameRest
<1>6. Top(n) = t
  BY <1>4, <1>5 DEF Top
<1>7. Draws(d, n)
  BY <1>3, <1>4, <1>5, <1>6 DEF Draws, SameStreams, s
<1>8. QED
  BY <1>3, <1>5, <1>6, <1>7 DEF s, n

LEMMA SelectFontIs ==
  ASSUME NEW t, Sound(t), t.motion = "text", NEW f \in Font, NEW e, e = SelectFont(t, f)
  PROVE  Sound(e) /\ Draws(t, e) /\ e.motion = "text" /\ e.font = f
<1> DEFINE rotate == Rotation(f, t.dir)
           reset == t.reset \/ (f \in Slanted) # t.slanted \/ AngleChanges(rotate, t.rotate)
           res == IF f \in t.used THEN Top(t).res ELSE Top(t).res \cup {f}
           used == t.used \cup {f}
           n == [t EXCEPT !.mb = f \in Composite, !.reset = reset, !.slanted = f \in Slanted,
                          !.rotate = rotate, !.out[Len(t.out)].res = res, !.used = used]
           tf == Emit(n, [op |-> "Tf", font |-> f])
           bold == f \in Bold
           tr == Emit(tf, [op |-> "Tr", bold |-> bold])
<1>1. t \in Device /\ t.out # << >> /\ TextRight(t) /\ FontRight(t) /\ Top(t) \in Stream
  BY TopType DEF Sound
<1>2. /\ rotate \in Angle /\ rotate \in {t.dir, t.dir + 4}
      /\ reset \in BOOLEAN /\ res \in SUBSET Font /\ used \in SUBSET Font
      /\ (f \in Composite) \in BOOLEAN /\ (f \in Slanted) \in BOOLEAN /\ bold \in BOOLEAN
  BY <1>1, RotationType, DeviceFields, StreamFields
<1>3. Top(t) = t.out[Len(t.out)]
  BY <1>1, TopType
<1>4. /\ \/ (bold \/ t.bold) /\ e = [tr EXCEPT !.bold = bold, !.font = f]
         \/ ~(bold \/ t.bold) /\ e = [tf EXCEPT !.bold = bold, !.font = f]
  BY <1>3 DEF SelectFont, EmitIf
<1>5. /\ Draws(t, n) /\ Top(n).res = res /\ Top(n).text = Top(t).text /\ Top(n).string = Top(t).string
      /\ Top(n).tm = Top(t).tm /\ Top(n).gs = Top(t).gs /\ Top(n).bad = Top(t).bad
      /\ n.mb = (f \in Composite) /\ n.reset = reset /\ n.slanted = (f \in Slanted)
      /\ n.rotate = rotate /\ n.used = used
      /\ n.font = t.font /\ n.bold = t.bold /\ n.motion = t.motion /\ n.dir = t.dir
  <2> DEFINE mb == f \in Composite
             slanted == f \in Slanted
  <2>1. n = FontFields(t, mb, reset, slanted, rotate, res, used)
    BY DEF FontFields
  <2>2. mb \in BOOLEAN /\ slanted \in BOOLEAN
    OBVIOUS
  <2> HIDE DEF n, rotate, reset, res, used, mb, slanted
  <2>3. /\ Draws(t, n) /\ Top(n).res = res /\ Top(n).text = Top(t).text /\ Top(n).string = Top(t).string
        /\ Top(n).tm = Top(t).tm /\ Top(n).gs = Top(t).gs /\ Top(n).bad = Top(t).bad
        /\ n.mb = mb /\ n.reset = reset /\ n.slanted = slanted /\ n.rotate = rotate /\ n.used = used
        /\ n.font = t.font /\ n.bold = t.bold /\ n.motion = t.motion /\ n.dir = t.dir
    BY <1>1, <1>2, <2>1, <2>2, FontAssigned
  <2>4. QED
    BY <2>3 DEF mb, slanted
<1> HIDE DEF n
<1>6. n \in Device /\ n.out # << >> /\ Top(n) \in Stream
  BY <1>5, TopType DEF Draws
<1>7. f \in Top(n).res /\ used \subseteq Top(n).res
  BY <1>1, <1>5 DEF TextRight
<1>8. /\ Draws(n, tf) /\ SameText(n, tf) /\ Top(tf).bad = {} /\ Top(tf).gs.font = f
      /\ Top(tf).gs.bold = t.bold /\ Top(tf).text = TRUE /\ Top(tf).string = "none"
      /\ Top(tf).res = res /\ Top(tf).tm = Top(t).tm
  <2> DEFINE s == Top(n)
             op == [op |-> "Tf", font |-> f]
  <2>1. s \in Stream /\ f \in s.res /\ s.string = "none" /\ s.text = TRUE /\ s.bad = {} /\ s.gs.bold = t.bold
    BY <1>1, <1>5, <1>6, <1>7 DEF TextRight
  <2> HIDE DEF s
  <2>2. Exec(s, op) \in Stream
    BY <2>1, ExecTf
  <2>3. /\ Top(tf) = Exec(s, op)
        /\ tf \in Device /\ tf.out # << >> /\ SameText(n, tf) /\ SameStreams(n, tf) /\ SameRest(n, tf)
    BY <1>6, <2>2, EmitIs DEF s
  <2> HIDE DEF tf
  <2>4. /\ Kept(s, Top(tf)) /\ Top(tf).bad = s.bad /\ Top(tf).gs.font = f /\ Top(tf).gs.bold = s.gs.bold
        /\ Top(tf).text = s.text /\ Top(tf).string = s.string /\ Top(tf).res = s.res /\ Top(tf).tm = s.tm
    BY <2>1, <2>3, ExecTf
  <2>5. QED
    BY <1>5, <2>1, <2>3, <2>4 DEF Draws, s
<1> HIDE DEF tf
<1>9. tf \in Device /\ tf.out # << >>
  BY <1>8 DEF Draws
<1>10. /\ Draws(tf, tr) /\ SameText(tf, tr) /\ Top(tr).bad = {} /\ Top(tr).gs.font = f
       /\ Top(tr).gs.bold = bold /\ Top(tr).text = TRUE /\ Top(tr).string = "none"
       /\ Top(tr).res = res /\ Top(tr).tm = Top(t).tm
  <2>1. bold \in BOOLEAN /\ tr = Emit(tf, [op |-> "Tr", bold |-> bold])
    OBVIOUS
  <2> HIDE DEF bold, tr
  <2>2. /\ Draws(tf, tr) /\ SameText(tf, tr) /\ Top(tr).gs.bold = bold /\ Top(tr).gs.font = Top(tf).gs.font
        /\ Top(tr).tm = Top(tf).tm /\ Top(tr).text = Top(tf).text /\ Top(tr).string = "none"
        /\ Top(tr).res = Top(tf).res /\ Top(tr).bad = Top(tf).bad
    BY <1>8, <1>9, <2>1, RenderingIs
  <2>3. QED
    BY <1>8, <2>2
<1> HIDE DEF tr, bold
<1>11. ASSUME NEW x, Draws(n, x), SameText(n, x), Top(x).bad = {}, Top(x).gs.font = f,
              Top(x).gs.bold = bold, Top(x).text = TRUE, Top(x).string = "none",
              Top(x).res = res, Top(x).tm = Top(t).tm,
              e = [x EXCEPT !.bold = bold, !.font = f]
       PROVE  Sound(e) /\ Draws(t, e) /\ e.motion = "text" /\ e.font = f
  <2>1. x \in Device /\ Draws(t, x)
    BY <1>5, <1>11, DrawsOn DEF Draws
  <2>2. /\ e \in Device /\ e.out = x.out /\ SameRest(x, e)
        /\ e.motion = x.motion /\ e.font = f /\ e.slanted = x.slanted /\ e.rotate = x.rotate
        /\ e.bold = bold /\ e.mb = x.mb /\ e.reset = x.reset /\ e.used = x.used
    BY <1>2, <1>11, <2>1, ZenonT(30) DEF Device, SameRest, AnyFont
  <2>3. Draws(t, e) /\ Top(e) = Top(x)
    BY <2>1, <2>2, Assigned
  <2>4. /\ e.motion = "text" /\ e.slanted = (f \in Slanted) /\ e.rotate = rotate /\ e.mb = (f \in Composite)
        /\ e.reset = reset /\ e.used = used /\ e.dir = t.dir
    BY <1>5, <1>11, <2>2, <2>3 DEF SameText, Draws, SameRest
  <2>5. FontRight(e)
    BY <1>2, <2>2, <2>4 DEF FontRight, bold
  <2>6. ~reset => Top(t).tm = Matrix(f \in Slanted, rotate)
    <3>1. SUFFICES ASSUME ~reset PROVE Top(t).tm = Matrix(f \in Slanted, rotate)
      OBVIOUS
    <3>2. ~t.reset /\ t.slanted = (f \in Slanted) /\ ~AngleChanges(Rotation(f, t.dir), t.rotate)
      BY <3>1
    <3>3. Top(t).tm = Matrix(t.slanted, t.rotate)
      BY <1>1, <3>2 DEF TextRight
    <3>4. t.dir \in Dirs /\ t.slanted \in BOOLEAN /\ t.rotate \in Angle
          /\ (t.slanted => t.rotate \in {t.dir, t.dir + 4})
      BY <1>1, DeviceFields DEF FontRight
    <3>5. Matrix(t.slanted, rotate) = Matrix(t.slanted, t.rotate)
      BY <3>2, <3>4, MatrixServes, ZenonT(30)
    <3>6. QED
      BY <3>2, <3>3, <3>5
  <2>7. TextRight(e)
    <3> DEFINE s == Top(e)
    <3>1. s.bad = {} /\ s.text = TRUE /\ s.string = "none" /\ s.gs.bold = bold /\ s.gs.font = f
      BY <1>11, <2>3
    <3>2. used \subseteq s.res
      BY <1>5, <1>7, <1>11, <2>3
    <3>3. ~reset => s.tm = Matrix(e.slanted, e.rotate)
      BY <1>11, <2>3, <2>4, <2>6
    <3> HIDE DEF s, used, reset
    <3>4. QED
      BY <2>2, <2>4, <3>1, <3>2, <3>3 DEF TextRight, s
  <2>8. QED
    BY <2>2, <2>3, <2>4, <2>5, <2>7 DEF Sound, Draws
<1>12. CASE (bold \/ t.bold) /\ e = [tr EXCEPT !.bold = bold, !.font = f]
  <2>1. Draws(n, tr) /\ SameText(n, tr)
    BY <1>8, <1>10, DrawsOn DEF SameText
  <2>2. QED
    BY <1>10, <1>11, <1>12, <2>1
<1>13. CASE ~(bold \/ t.bold) /\ e = [tf EXCEPT !.bold = bold, !.font = f]
  <2>1. t.bold = FALSE /\ bold = FALSE
    BY <1>1, <1>2, <1>13, DeviceFields
  <2>2. QED
    BY <1>8, <1>11, <1>13, <2>1
<1>14. QED
  BY <1>4, <1>12, <1>13
\* pdf_dev_set_font.
LEMMA SetFontIs ==
  ASSUME NEW d, Sound(d), NEW f \in Font, NEW e, e = SetFont(d, f)
  PROVE  Sound(e) /\ Draws(d, e) /\ e.motion = "text" /\ e.font = f
<1> DEFINE t == TextMode(d)
<1>1. Sound(t) /\ Draws(d, t) /\ t.motion = "text"
  BY TextModeIs
<1>2. e = SelectFont(t, f)
  BY DEF SetFont
<1> HIDE DEF t
<1>3. Sound(e) /\ Draws(t, e) /\ e.motion = "text" /\ e.font = f
  BY <1>1, <1>2, SelectFontIs
<1>4. QED
  BY <1>1, <1>3, DrawsOn

\* string_mode(), of text that is not being shown yet.
LEMMA StringModeIs ==
  ASSUME NEW d, Sound(d), d.motion = "text", NEW e, e = StringMode(d)
  PROVE  /\ Sound(e) /\ Draws(d, e) /\ e.motion = "string" /\ e.reset = FALSE /\ e.font = d.font
<1> DEFINE t == IF d.reset THEN SetTextMatrix(d) ELSE d
           s == OpenString(t)
<1>1. /\ d \in Device /\ d.out # << >> /\ TextRight(d) /\ FontRight(d)
      /\ Top(d).text = TRUE /\ Top(d).string = "none" /\ d.reset \in BOOLEAN
  BY DeviceFields DEF Sound, TextRight
<1>2. /\ Draws(d, t) /\ SameText(d, t) /\ Top(t).tm = Matrix(d.slanted, d.rotate)
      /\ Top(t).text = TRUE /\ Top(t).string = "none" /\ Top(t).res = Top(d).res
      /\ Top(t).gs = Top(d).gs /\ Top(t).bad = {}
  <2>1. CASE d.reset
    BY <1>1, <2>1, MatrixIs DEF TextRight
  <2>2. CASE ~d.reset
    BY <1>1, <2>2, DrawsSame DEF TextRight
  <2>3. QED
    BY <2>1, <2>2
<1>3. e = [s EXCEPT !.reset = FALSE, !.motion = "string"]
  BY DEF StringMode
<1> HIDE DEF t
<1>4. t \in Device /\ t.out # << >> /\ Top(t) \in Stream /\ t.mb \in BOOLEAN
  BY <1>2, TopType, DeviceFields DEF Draws
<1>5. /\ Draws(t, s) /\ SameText(t, s) /\ Top(s).string = Delimiter(t.mb) /\ Top(s).bad = {}
      /\ Top(s).text = TRUE /\ Top(s).res = Top(t).res /\ Top(s).gs = Top(t).gs /\ Top(s).tm = Top(t).tm
  <2> DEFINE x == Top(t)
             op == [op |-> "open", delim |-> Delimiter(t.mb)]
  <2>1. x \in Stream /\ x.text = TRUE /\ x.string = "none" /\ x.bad = {}
    BY <1>2, <1>4
  <2>2. s = Emit(t, op)
    BY DEF OpenString
  <2> HIDE DEF x, s
  <2>3. Exec(x, op) \in Stream
    BY <1>4, <2>1, ExecOpen
  <2>4. /\ Top(s) = Exec(x, op)
        /\ s \in Device /\ s.out # << >> /\ SameText(t, s) /\ SameStreams(t, s) /\ SameRest(t, s)
    BY <1>4, <2>2, <2>3, EmitIs DEF x
  <2>5. /\ Kept(x, Top(s)) /\ Top(s).bad = x.bad /\ Top(s).string = Delimiter(t.mb)
        /\ Top(s).text = x.text /\ Top(s).res = x.res /\ Top(s).gs = x.gs /\ Top(s).tm = x.tm
    BY <1>4, <2>1, <2>4, ExecOpen
  <2>6. QED
    BY <2>1, <2>4, <2>5 DEF Draws, x
<1> HIDE DEF s
<1>6. s \in Device /\ Draws(d, s) /\ SameText(d, s)
  BY <1>2, <1>5, DrawsOn DEF Draws, SameText
<1>7. /\ e \in Device /\ e.out = s.out /\ SameRest(s, e)
      /\ e.motion = "string" /\ e.font = s.font /\ e.slanted = s.slanted /\ e.rotate = s.rotate
      /\ e.bold = s.bold /\ e.mb = s.mb /\ e.reset = FALSE /\ e.used = s.used
  BY <1>3, <1>6 DEF Device, SameRest
<1>8. Draws(d, e) /\ Top(e) = Top(s)
  BY <1>6, <1>7, Assigned
<1>9. /\ e.font = d.font /\ e.slanted = d.slanted /\ e.rotate = d.rotate /\ e.dir = d.dir
      /\ e.bold = d.bold /\ e.mb = d.mb /\ e.used = d.used /\ t.mb = d.mb
  BY <1>2, <1>6, <1>7, <1>8 DEF SameText, Draws, SameRest
<1>10. FontRight(e)
  BY <1>1, <1>7, <1>9 DEF FontRight
<1>11. TextRight(e)
  <2> DEFINE x == Top(e)
  <2>1. /\ x.bad = {} /\ x.text = TRUE /\ x.string = Delimiter(e.mb) /\ x.gs = Top(d).gs
        /\ x.tm = Matrix(e.slanted, e.rotate) /\ x.res = Top(d).res
    BY <1>2, <1>5, <1>8, <1>9
  <2>2. /\ Top(d).gs.bold = e.bold /\ e.used \subseteq Top(d).res
        /\ e.font # NoFont => Top(d).gs.font = e.font
    BY <1>1, <1>9 DEF TextRight
  <2> HIDE DEF x
  <2>3. QED
    BY <1>7, <2>1, <2>2 DEF TextRight, x
<1>12. QED
  BY <1>7, <1>8, <1>9, <1>10, <1>11 DEF Sound, Draws
\* pdf_dev_set_string: what is shown is what was asked for.
LEMMA SetStringIs ==
  ASSUME NEW d, Sound(d), NEW f \in Font, NEW gap \in {"none", "kern", "far"},
         NEW e, e = SetString(d, f, gap)
  PROVE  Sound(e) /\ Draws(d, e) /\ e.font # NoFont
<1> DEFINE a == IF f # d.font THEN SetFont(d, f) ELSE d
           b == IF a.reset \/ gap = "far" THEN TextMode(a) ELSE a
           c == IF b.motion # "string" THEN StringMode(b)
                ELSE EmitIf(b, gap = "kern", [op |-> "kern", delim |-> Delimiter(b.mb)])
           op == [op |-> "show", delim |-> Delimiter(f \in Composite), want |-> Wanted(f, d.dir)]
<1>1. e = Emit(c, op)
  BY DEF SetString
<1>2. d \in Device /\ d.out # << >> /\ f # NoFont
  BY FontAssumption DEF Sound
<1>3. Sound(a) /\ Draws(d, a) /\ a.font = f /\ a.motion # "graphics" /\ a.reset \in BOOLEAN
  <2>1. CASE f # d.font
    <3>1. Sound(a) /\ Draws(d, a) /\ a.font = f /\ a.motion = "text"
      BY <2>1, SetFontIs
    <3>2. QED
      BY <3>1, DeviceFields DEF Draws
  <2>2. CASE f = d.font
    BY <1>2, <2>2, DrawsSame, DeviceFields DEF Sound, FontRight
  <2>3. QED
    BY <2>1, <2>2
<1> HIDE DEF a
<1>4. /\ Sound(b) /\ Draws(a, b) /\ b.font = f
      /\ b.motion = "text" \/ (b.motion = "string" /\ ~b.reset)
  <2>1. a \in Device /\ a.out # << >> /\ a.motion \in {"graphics", "text", "string"}
    BY <1>3, DeviceFields DEF Sound
  <2>2. CASE a.reset \/ gap = "far"
    <3>1. Sound(b) /\ Draws(a, b) /\ b.motion = "text" /\ b.font = a.font
      BY <1>3, <2>2, TextModeIs
    <3>2. QED
      BY <1>3, <3>1
  <2>3. CASE ~(a.reset \/ gap = "far")
    BY <1>3, <2>1, <2>3, DrawsSame
  <2>4. QED
    BY <2>2, <2>3
<1> HIDE DEF b
<1>5. Sound(c) /\ Draws(b, c) /\ c.motion = "string" /\ c.reset = FALSE /\ c.font = f
  <2>1. b \in Device /\ b.out # << >> /\ Top(b) \in Stream /\ TextRight(b) /\ FontRight(b) /\ b.reset \in BOOLEAN
    BY <1>4, TopType, DeviceFields DEF Sound
  <2>2. CASE b.motion = "text"
    <3>1. Sound(c) /\ Draws(b, c) /\ c.motion = "string" /\ c.reset = FALSE /\ c.font = b.font
      BY <1>4, <2>2, StringModeIs
    <3>2. QED
      BY <1>4, <3>1
  <2>3. CASE b.motion = "string" /\ gap = "kern"
    <3> DEFINE s == Top(b)
               x == Delimiter(b.mb)
               k == [op |-> "kern", delim |-> x]
    <3>1. c = Emit(b, k)
      BY <2>3 DEF EmitIf
    <3>2. s.string = x
      BY <2>3, <2>1 DEF TextRight
    <3> HIDE DEF c, s, x
    <3>3. Exec(s, k) = s /\ Exec(s, k) \in Stream
      BY <2>1, <3>2, ExecKern DEF s
    <3>4. /\ Top(c) = s /\ c \in Device /\ c.out # << >>
          /\ SameText(b, c) /\ SameStreams(b, c) /\ SameRest(b, c)
      BY <2>1, <3>1, <3>3, EmitIs DEF s
    <3>5. Draws(b, c)
      BY <3>4 DEF Draws, Kept, s
    <3>6. TextRight(c) /\ FontRight(c)
      BY <2>1, <3>4 DEF TextRight, FontRight, SameText, SameRest, s
    <3>7. QED
      BY <1>4, <2>1, <2>3, <3>4, <3>5, <3>6 DEF Sound, SameText
  <2>4. CASE b.motion = "string" /\ gap # "kern"
    <3>1. c = b
      BY <2>4 DEF EmitIf
    <3>2. QED
      BY <1>4, <2>1, <2>4, <3>1, DrawsSame
  <2>5. QED
    BY <1>4, <2>2, <2>3, <2>4
<1> HIDE DEF c
<1>6. Draws(d, c)
  BY <1>3, <1>4, <1>5, DrawsOn
<1>7. c \in Device /\ c.out # << >> /\ Top(c) \in Stream /\ TextRight(c) /\ FontRight(c) /\ c.dir = d.dir
  BY <1>5, <1>6, TopType DEF Sound, Draws, SameRest
<1> DEFINE s == Top(c)
<1>8. s.string = Delimiter(f \in Composite)
  BY <1>2, <1>5, <1>7 DEF TextRight, FontRight
<1>9. Wanted(f, d.dir) = << s.gs.font, s.gs.bold, s.tm >>
  <2>1. c.slanted = (f \in Slanted) /\ c.bold = (f \in Bold) /\ c.rotate = Rotation(f, d.dir)
    BY <1>2, <1>5, <1>7 DEF FontRight
  <2>2. s.gs.font = f /\ s.gs.bold = c.bold /\ s.tm = Matrix(c.slanted, c.rotate)
    BY <1>2, <1>5, <1>7 DEF TextRight
  <2>3. QED
    BY <2>1, <2>2 DEF Wanted
<1>10. Exec(s, op) \in Stream /\ Exec(s, op) = s
  BY <1>7, <1>8, <1>9, ExecShow
<1> HIDE DEF op, s
<1>11. /\ Top(e) = s /\ e \in Device /\ e.out # << >>
       /\ SameText(c, e) /\ SameStreams(c, e) /\ SameRest(c, e)
  BY <1>1, <1>7, <1>10, EmitIs DEF s
<1>12. Draws(c, e)
  BY <1>11 DEF Draws, Kept, s
<1>13. TextRight(e) /\ FontRight(e)
  BY <1>7, <1>11 DEF TextRight, FontRight, SameText, SameRest, s
<1>14. e.font # NoFont
  BY <1>2, <1>5, <1>11 DEF SameText
<1>15. QED
  BY <1>6, <1>11, <1>12, <1>13, <1>14, DrawsOn DEF Sound
\* Text that is being shown has a font.
Settled(d) == d.motion # "graphics" => d.font # NoFont

\* pdf_dev_set_dirmode: the matrix is set again if the angle changes.
LEMMA SetDirModeIs ==
  ASSUME NEW d \in Device, FontRight(d), Settled(d), NEW dir \in Dirs, NEW e, e = SetDirMode(d, dir)
  PROVE  /\ e \in Device /\ FontRight(e) /\ Settled(e)
         /\ e.motion = d.motion /\ e.font = d.font /\ e.bold = d.bold /\ e.mb = d.mb /\ e.used = d.used
         /\ e.out = d.out /\ e.gs = d.gs /\ e.cs = d.cs /\ e.forms = d.forms /\ e.bad = d.bad
         /\ e.failed = d.failed
         /\ d.out # << >> /\ TextRight(d) => TextRight(e)
<1> DEFINE rotate == Rotation(d.font, dir)
           change == AngleChanges(rotate, d.rotate)
           reset == d.reset \/ (d.font # NoFont /\ change)
<1>1. e = [d EXCEPT !.reset = reset, !.rotate = rotate, !.dir = dir]
  BY DEF SetDirMode
<1>2. rotate \in {dir, dir + 4} /\ rotate \in Angle /\ (d.font = NoFont => rotate = dir) /\ reset \in BOOLEAN
  <2>1. d.font \in AnyFont /\ d.reset \in BOOLEAN /\ NoFont \notin Tall /\ dir \in {0, 1, 3}
    BY DeviceFields, DevAssumption, FontAssumption
  <2>2. rotate = dir \/ (rotate = dir + 4 /\ d.font # NoFont)
    BY <2>1 DEF Rotation
  <2>3. QED
    BY <2>1, <2>2 DEF Angle
<1>3. d.font # NoFont /\ ~change => rotate = d.rotate /\ dir = d.dir
  <2>1. SUFFICES ASSUME d.font # NoFont, ~change PROVE rotate = d.rotate /\ dir = d.dir
    OBVIOUS
  <2> DEFINE k == IF d.font \in Tall THEN 4 ELSE 0
  <2>2. d.dir \in {0, 1, 3} /\ dir \in {0, 1, 3} /\ k \in {0, 4}
    BY DeviceFields, DevAssumption
  <2>3. rotate = k + dir /\ d.rotate = k + d.dir
    BY <2>1 DEF Rotation, FontRight
  <2> DEFINE r == d.rotate
  <2>4. (IF rotate > r THEN rotate - r ELSE r - rotate) % 5 = 0 /\ rotate \in Angle /\ r \in Angle
    BY <1>2, <2>1, DeviceFields DEF AngleChanges
  <2> HIDE DEF k, rotate, r
  <2>5. rotate = r \/ (rotate \in {0, 5} /\ r \in {0, 5})
    BY <2>4 DEF Angle
  <2>6. dir = d.dir
    BY <2>2, <2>3, <2>5 DEF r
  <2>7. QED
    BY <2>3, <2>6
<1> HIDE DEF rotate, change
<1>4. /\ e \in Device /\ e.reset = reset /\ e.rotate = rotate /\ e.dir = dir /\ e.slanted = d.slanted
      /\ e.motion = d.motion /\ e.font = d.font /\ e.bold = d.bold /\ e.mb = d.mb /\ e.used = d.used
      /\ e.out = d.out /\ e.gs = d.gs /\ e.cs = d.cs /\ e.forms = d.forms /\ e.bad = d.bad
      /\ e.failed = d.failed
  BY <1>1, <1>2, ZenonT(30) DEF Device
<1>5. FontRight(e)
  <2>1. d.font # NoFont => rotate = Rotation(d.font, dir)
    BY DEF rotate
  <2>2. QED
    BY <1>2, <1>4, <2>1 DEF FontRight
<1>6. ASSUME d.out # << >>, TextRight(d) PROVE TextRight(e)
  <2>1. Top(e) = Top(d)
    BY <1>4 DEF Top
  <2>2. d.motion # "graphics" /\ ~reset => rotate = d.rotate
    BY <1>3 DEF Settled
  <2>3. QED
    BY <1>4, <1>6, <2>1, <2>2 DEF TextRight
<1>7. QED
  BY <1>4, <1>5, <1>6 DEF Settled

\* pdf_dev_reset_fonts, which everybody calls outside of text objects.
LEMMA ResetFontsIs ==
  ASSUME NEW d, Sound(d), d.motion = "graphics", NEW b \in BOOLEAN, NEW e, e = ResetFonts(d, b)
  PROVE  Sound(e) /\ Draws(d, e) /\ e.motion = "graphics" /\ e.used = {}
<1>1. d \in Device /\ d.out # << >> /\ TextRight(d) /\ FontRight(d) /\ d.bold = FALSE
  BY DeviceFields DEF Sound, FontRight
<1>2. e = [d EXCEPT !.used = {}, !.font = NoFont, !.slanted = FALSE, !.rotate = HH, !.bold = FALSE, !.mb = FALSE]
  BY <1>1 DEF ResetFonts
<1>3. /\ e \in Device /\ e.out = d.out /\ SameRest(d, e)
      /\ e.motion = "graphics" /\ e.font = NoFont /\ e.slanted = FALSE /\ e.rotate = 0
      /\ e.bold = FALSE /\ e.mb = FALSE /\ e.reset = d.reset /\ e.used = {}
  BY <1>1, <1>2 DEF Device, SameRest, AnyFont, HH, Angle
<1>4. Draws(d, e) /\ Top(e) = Top(d)
  BY <1>1, <1>3, DrawsSame, Assigned
<1>5. FontRight(e)
  BY <1>1, <1>3 DEF FontRight
<1>6. TextRight(e)
  BY <1>1, <1>3, <1>4 DEF TextRight
<1>7. QED
  BY <1>1, <1>3, <1>4, <1>5, <1>6 DEF Sound, Draws
(***************************************************************************)
(* Streams and the stack of graphics states.  A stream of q, suspended or   *)
(* not, has the graphics states of G from Bottom, where it began, to Upper: *)
(* saved ones in the viewer below, the current one on top.                  *)
(***************************************************************************)
Bottom(F, i) == IF i = 1 THEN 1 ELSE F[i - 1] + 1
Upper(q, G, F, i) == IF i = Len(q) THEN Len(G) ELSE F[i]

\* Saved graphics states are those of the device, and none of them is bold.
Nested(s, G, b, h) ==
  /\ b <= h /\ Len(s.saved) = h - b
  /\ \A j \in 1 .. h - b : s.saved[j].fill = G[b + j - 1] /\ s.saved[j].bold = FALSE

\* A stream that waits for a form to end is outside of text.
Suspended(s) == s.text = FALSE /\ s.string = "none" /\ s.gs.bold = FALSE /\ s.bad = {}

Framed(q, G, F) ==
  /\ q \in Seq(Stream) /\ G \in Seq(Color) /\ F \in Seq(Nat)
  /\ Len(q) = Len(F) + 1 /\ Len(G) >= 1 /\ G[1] = "black"
  /\ \A i \in 1 .. Len(F) : 2 <= F[i] /\ F[i] < Len(G)
  /\ \A i, j \in 1 .. Len(F) : i < j => F[i] < F[j]
  /\ \A i \in 1 .. Len(q) : Nested(q[i], G, Bottom(F, i), Upper(q, G, F, i))
  /\ \A i \in 1 .. Len(F) : Suspended(q[i]) /\ q[i].gs.fill = G[F[i]]

LEMMA FramedFacts ==
  ASSUME NEW q, NEW G, NEW F, Framed(q, G, F)
  PROVE  /\ q \in Seq(Stream) /\ G \in Seq(Color) /\ F \in Seq(Nat)
         /\ Len(q) \in Nat /\ Len(G) \in Nat /\ Len(F) \in Nat
         /\ Len(q) = Len(F) + 1 /\ Len(q) >= 1 /\ Len(G) >= 1
         /\ \A i \in 1 .. Len(F) : F[i] \in Nat
         /\ \A i \in 1 .. Len(q) : Bottom(F, i) \in Nat /\ Bottom(F, i) >= 1
<1>1. q \in Seq(Stream) /\ G \in Seq(Color) /\ F \in Seq(Nat) /\ Len(q) = Len(F) + 1 /\ Len(G) >= 1
  BY DEF Framed
<1>2. Len(q) \in Nat /\ Len(G) \in Nat /\ Len(F) \in Nat /\ \A i \in 1 .. Len(F) : F[i] \in Nat
  BY <1>1
<1>3. \A i \in 1 .. Len(q) : Bottom(F, i) \in Nat /\ Bottom(F, i) >= 1
  BY <1>1, <1>2 DEF Bottom
<1>4. QED
  BY <1>1, <1>2, <1>3

\* Bottoms are at most one above the graphics state of the stream below.
LEMMA BottomBelow ==
  ASSUME NEW q, NEW G, NEW F, Framed(q, G, F), NEW i \in 1 .. Len(F)
  PROVE  Bottom(F, i) <= F[i] /\ F[i] < Len(G) /\ i # Len(q) /\ i \in 1 .. Len(q) /\ Upper(q, G, F, i) = F[i]
<1>1. Len(q) = Len(F) + 1 /\ Len(F) \in Nat /\ F[i] < Len(G)
  BY FramedFacts DEF Framed
<1>2. i # Len(q) /\ i \in 1 .. Len(q)
  BY <1>1
<1>3. Upper(q, G, F, i) = F[i] /\ Nested(q[i], G, Bottom(F, i), Upper(q, G, F, i))
  BY <1>2 DEF Upper, Framed
<1>4. QED
  BY <1>1, <1>2, <1>3 DEF Nested

\* A new top stream r with the saved states of the old one, and graphics
\* states that agree below the top.
LEMMA FramedTop ==
  ASSUME NEW q, NEW G, NEW F, Framed(q, G, F),
         NEW r \in Seq(Stream), Len(r) = Len(q), \A i \in 1 .. Len(q) - 1 : r[i] = q[i],
         NEW H \in Seq(Color), NEW b, b = Bottom(F, Len(q)),
         Len(H) >= b, H[1] = "black",
         \A k \in 1 .. Len(H) - 1 : k \in 1 .. Len(G) /\ H[k] = G[k],
         Nested(r[Len(r)], H, b, Len(H))
  PROVE  Framed(r, H, F)
<1>1. /\ Len(q) \in Nat /\ Len(G) \in Nat /\ Len(F) \in Nat /\ Len(H) \in Nat
      /\ Len(q) = Len(F) + 1 /\ Len(q) >= 1 /\ Len(G) >= 1 /\ b \in Nat /\ b >= 1
      /\ \A i \in 1 .. Len(F) : F[i] \in Nat
  <2>1. /\ Len(q) \in Nat /\ Len(G) \in Nat /\ Len(F) \in Nat
        /\ Len(q) = Len(F) + 1 /\ Len(q) >= 1 /\ Len(G) >= 1
        /\ \A i \in 1 .. Len(F) : F[i] \in Nat
    BY FramedFacts
  <2>2. Bottom(F, Len(q)) \in Nat /\ Bottom(F, Len(q)) >= 1
    BY <2>1, FramedFacts
  <2>3. QED
    BY <2>1, <2>2
<1>2. \A i \in 1 .. Len(F) : F[i] <= b - 1
  <2>1. SUFFICES ASSUME NEW i \in 1 .. Len(F) PROVE F[i] <= b - 1
    OBVIOUS
  <2>2. b = F[Len(F)] + 1
    BY <1>1, <2>1 DEF Bottom
  <2>3. i = Len(F) \/ F[i] < F[Len(F)]
    BY <1>1, <2>1 DEF Framed
  <2>4. F[i] \in Nat /\ F[Len(F)] \in Nat
    BY <1>1, <2>1
  <2> DEFINE x == F[i]
             y == F[Len(F)]
  <2>5. x \in Nat /\ y \in Nat /\ b = y + 1 /\ x <= y
    BY <2>2, <2>3, <2>4
  <2> HIDE DEF x, y
  <2>6. x <= b - 1
    BY <2>5
  <2>7. QED
    BY <2>6 DEF x
<1>3. \A i \in 1 .. Len(F) : F[i] < Len(H) /\ H[F[i]] = G[F[i]] /\ 2 <= F[i]
  <2>1. SUFFICES ASSUME NEW i \in 1 .. Len(F) PROVE F[i] < Len(H) /\ H[F[i]] = G[F[i]] /\ 2 <= F[i]
    OBVIOUS
  <2>2. 2 <= F[i] /\ F[i] <= b - 1 /\ F[i] \in Nat
    BY <1>1, <1>2 DEF Framed
  <2> DEFINE x == F[i]
  <2>3. x \in 1 .. Len(H) - 1 /\ x < Len(H)
    <3>1. x \in Nat /\ 2 <= x /\ x <= b - 1
      BY <2>2
    <3> HIDE DEF x
    <3>2. QED
      BY <1>1, <3>1
  <2>4. QED
    BY <2>2, <2>3
<1>4. \A i \in 1 .. Len(F) : Nested(r[i], H, Bottom(F, i), F[i])
  <2>1. SUFFICES ASSUME NEW i \in 1 .. Len(F) PROVE Nested(r[i], H, Bottom(F, i), F[i])
    OBVIOUS
  <2>2. Nested(q[i], G, Bottom(F, i), F[i]) /\ r[i] = q[i]
    <3>1. Upper(q, G, F, i) = F[i] /\ i \in 1 .. Len(q) /\ i \in 1 .. Len(q) - 1
      BY <1>1, BottomBelow
    <3>2. Nested(q[i], G, Bottom(F, i), Upper(q, G, F, i))
      BY <3>1 DEF Framed
    <3>3. QED
      BY <3>1, <3>2
  <2>3. F[i] \in Nat /\ Bottom(F, i) \in Nat /\ Bottom(F, i) >= 1 /\ F[i] < Len(H)
    BY <1>1, <1>3, FramedFacts
  <2> DEFINE c == Bottom(F, i)
             h == F[i]
  <2>4. \A j \in 1 .. h - c : H[c + j - 1] = G[c + j - 1]
    <3>1. ASSUME NEW j \in 1 .. h - c PROVE c + j - 1 \in 1 .. Len(H) - 1
      BY <1>1, <2>3, SMTT(30)
    <3>2. QED
      BY <3>1
  <2> HIDE DEF c, h
  <2>5. QED
    BY <2>2, <2>4 DEF Nested, c, h
<1>5. \A i \in 1 .. Len(r) : Nested(r[i], H, Bottom(F, i), Upper(r, H, F, i))
  <2>1. SUFFICES ASSUME NEW i \in 1 .. Len(r) PROVE Nested(r[i], H, Bottom(F, i), Upper(r, H, F, i))
    OBVIOUS
  <2>2. i = Len(r) \/ (i \in 1 .. Len(F) /\ i # Len(r))
    BY <1>1
  <2>3. QED
    BY <1>4, <2>2 DEF Upper
<1>6. \A i \in 1 .. Len(F) : Suspended(r[i]) /\ r[i].gs.fill = H[F[i]]
  BY <1>1, <1>3 DEF Framed
<1>7. Len(H) >= 1
  BY <1>1
<1>8. QED
  BY <1>1, <1>3, <1>5, <1>6, <1>7 DEF Framed
LEMMA Pushed ==
  ASSUME NEW G \in Seq(Color), NEW c \in Color
  PROVE  LET H == Append(G, c) IN
         /\ H \in Seq(Color) /\ Len(H) = Len(G) + 1 /\ Len(G) \in Nat /\ Last(H) = c /\ H[Len(G) + 1] = c
         /\ \A k \in 1 .. Len(G) : H[k] = G[k]
<1> DEFINE H == Append(G, c)
<1>1. /\ H \in Seq(Color) /\ Len(H) = Len(G) + 1 /\ Len(G) \in Nat /\ H[Len(G) + 1] = c
      /\ \A k \in 1 .. Len(G) : H[k] = G[k]
  OBVIOUS
<1>2. QED
  BY <1>1 DEF Last

LEMMA Popped ==
  ASSUME NEW S, NEW G \in Seq(S), Len(G) >= 1, NEW H, H = Front(G)
  PROVE  /\ H \in Seq(S) /\ Len(H) = Len(G) - 1 /\ Len(G) \in Nat /\ Last(G) = G[Len(G)] /\ Last(G) \in S
         /\ \A k \in 1 .. Len(G) - 1 : H[k] = G[k]
<1>1. H = SubSeq(G, 1, Len(G) - 1) /\ Len(G) \in Nat
  BY DEF Front
<1> DEFINE m == Len(G) - 1
<1>2. /\ H \in Seq(S) /\ Len(H) = Len(G) - 1
      /\ \A k \in 1 .. Len(G) - 1 : H[k] = G[k]
  <2>1. m \in Nat /\ m <= Len(G) /\ \A k \in 1 .. m : G[k] \in S
    BY <1>1
  <2>2. H = SubSeq(G, 1, m)
    BY <1>1
  <2> HIDE DEF m
  <2>3. H \in Seq(S) /\ Len(H) = m /\ \A k \in 1 .. m : H[k] = G[k]
    BY <2>1, <2>2
  <2>4. QED
    BY <2>3 DEF m
<1>3. G[Len(G)] \in S
  BY <1>1
<1>4. QED
  BY <1>1, <1>2, <1>3 DEF Last

LEMMA NestedPush ==
  ASSUME NEW s \in Stream, NEW t \in Stream, NEW G \in Seq(Color), NEW b \in Nat, b >= 1,
         Nested(s, G, b, Len(G)), NEW g \in Gstate, t.saved = Append(s.saved, g),
         g.fill = G[Len(G)], g.bold = FALSE, NEW c \in Color, NEW H, H = Append(G, c)
  PROVE  Nested(t, H, b, Len(H))
<1> DEFINE r == s.saved
           u == t.saved
           n == Len(G)
<1>1. /\ H \in Seq(Color) /\ Len(H) = n + 1 /\ n \in Nat
      /\ \A k \in 1 .. n : H[k] = G[k]
  BY Pushed
<1>2. r \in Seq(Gstate) /\ b <= n /\ Len(r) = n - b
      /\ \A j \in 1 .. n - b : r[j].fill = G[b + j - 1] /\ r[j].bold = FALSE
  BY StreamFields DEF Nested
<1>3. /\ Len(u) = n - b + 1 /\ u[n - b + 1] = g
      /\ \A j \in 1 .. n - b : u[j] = r[j]
  BY <1>2
<1> HIDE DEF r, u, n
<1>4. ASSUME NEW j \in 1 .. n - b PROVE u[j].fill = H[b + j - 1] /\ u[j].bold = FALSE
  <2>1. b + j - 1 \in 1 .. n
    BY <1>1, <1>2
  <2>2. QED
    BY <1>1, <1>2, <1>3, <2>1
<1>5. u[n - b + 1].fill = H[b + (n - b + 1) - 1] /\ u[n - b + 1].bold = FALSE
  <2>1. b + (n - b + 1) - 1 = n /\ n \in 1 .. n
    BY <1>1, <1>2
  <2>2. H[n] = G[n]
    BY <1>1, <2>1
  <2>3. QED
    BY <1>3, <2>1, <2>2 DEF n
<1>6. \A j \in 1 .. n + 1 - b : u[j].fill = H[b + j - 1] /\ u[j].bold = FALSE
  <2>1. SUFFICES ASSUME NEW j \in 1 .. n + 1 - b PROVE u[j].fill = H[b + j - 1] /\ u[j].bold = FALSE
    OBVIOUS
  <2>2. j \in 1 .. n - b \/ j = n - b + 1
    BY <1>1, <1>2
  <2>3. QED
    BY <1>4, <1>5, <2>2
<1>7. b <= n + 1 /\ Len(u) = n + 1 - b
  BY <1>1, <1>2, <1>3
<1>8. QED
  BY <1>1, <1>6, <1>7, SMTT(30) DEF Nested, u

LEMMA NestedPop ==
  ASSUME NEW s \in Stream, NEW t \in Stream, NEW G \in Seq(Color), NEW b \in Nat, b >= 1, Len(G) > b,
         Nested(s, G, b, Len(G)), t.saved = Front(s.saved)
  PROVE  LET H == Front(G) IN
         /\ Nested(t, H, b, Len(H)) /\ s.saved # << >> /\ Last(s.saved) \in Gstate
         /\ Last(s.saved).fill = H[Len(H)] /\ Last(s.saved).bold = FALSE
<1> DEFINE H == Front(G)
           r == s.saved
           u == t.saved
           n == Len(G)
<1>1. r \in Seq(Gstate) /\ b <= n /\ Len(r) = n - b /\ n \in Nat
      /\ \A j \in 1 .. n - b : r[j].fill = G[b + j - 1] /\ r[j].bold = FALSE
  BY StreamFields DEF Nested
<1>2. Len(r) >= 1 /\ n >= 1
  BY <1>1
<1>3. H \in Seq(Color) /\ Len(H) = n - 1 /\ \A k \in 1 .. n - 1 : H[k] = G[k]
  BY <1>2, Popped
<1>4. /\ Len(u) = n - b - 1 /\ Last(r) = r[n - b] /\ Last(r) \in Gstate
      /\ \A j \in 1 .. n - b - 1 : u[j] = r[j]
  <2>1. u = Front(r) /\ r \in Seq(Gstate) /\ Len(r) >= 1
    BY <1>1, <1>2
  <2> HIDE DEF r, u
  <2>2. /\ Len(u) = Len(r) - 1 /\ Last(r) = r[Len(r)] /\ Last(r) \in Gstate
        /\ \A j \in 1 .. Len(r) - 1 : u[j] = r[j]
    BY <2>1, Popped, SMTT(30)
  <2>3. QED
    BY <1>1, <2>2
<1>5. r # << >>
  BY <1>2
<1> HIDE DEF r, u, n
<1>6. ASSUME NEW j \in 1 .. n - 1 - b PROVE u[j].fill = H[b + j - 1] /\ u[j].bold = FALSE
  <2>1. b + j - 1 \in 1 .. n - 1 /\ j \in 1 .. n - b /\ j \in 1 .. n - b - 1
    BY <1>1
  <2>2. QED
    BY <1>1, <1>3, <1>4, <2>1
<1>7. Last(r).fill = H[n - 1] /\ Last(r).bold = FALSE
  <2>1. n - b \in 1 .. n - b /\ b + (n - b) - 1 = n - 1 /\ n - 1 \in 1 .. n - 1
    BY <1>1, <1>2 DEF n
  <2>2. r[n - b].fill = G[b + (n - b) - 1] /\ r[n - b].bold = FALSE
    BY <1>1, <2>1
  <2>3. QED
    BY <1>3, <1>4, <2>1, <2>2
<1>8. b <= n - 1 /\ Len(u) = n - 1 - b
  BY <1>1, <1>4 DEF n
<1>9. QED
  BY <1>3, <1>4, <1>5, <1>6, <1>7, <1>8 DEF Nested, u, r
(***************************************************************************)
(* The functions that save, restore and change graphics states.             *)
(***************************************************************************)
Shaped(d) == Framed(d.out, d.gs, d.forms)
Filled(d) == Top(d).gs.fill = Last(d.gs)
Ready(d) == Sound(d) /\ Shaped(d) /\ d.motion = "graphics"
Here(d) == Bottom(d.forms, Len(d.out))

Keeps(d, e) ==
  /\ e.dir = d.dir /\ e.cs = d.cs /\ e.forms = d.forms /\ e.bad = d.bad /\ e.failed = d.failed
  /\ Len(e.out) = Len(d.out)

LEMMA TopNested ==
  ASSUME NEW d, Sound(d), Shaped(d)
  PROVE  /\ Nested(Top(d), d.gs, Here(d), Len(d.gs)) /\ Here(d) \in Nat /\ Here(d) >= 1
         /\ Len(d.gs) \in Nat /\ Here(d) <= Len(d.gs)
         /\ d.gs \in Seq(Color) /\ d.gs[1] = "black" /\ Len(d.gs) >= 1 /\ Last(d.gs) = d.gs[Len(d.gs)]
         /\ Last(d.gs) \in Color /\ Top(d) \in Stream /\ Top(d) = d.out[Len(d.out)]
         /\ d.out \in Seq(Stream) /\ Len(d.out) >= 1 /\ Len(d.out) \in Nat
<1>1. /\ Top(d) \in Stream /\ Top(d) = d.out[Len(d.out)] /\ Len(d.out) >= 1 /\ Len(d.out) \in Nat
      /\ d.out \in Seq(Stream)
  BY TopType, DeviceFields DEF Sound
<1>2. d.gs \in Seq(Color) /\ Len(d.gs) >= 1 /\ d.gs[1] = "black"
  BY DEF Shaped, Framed
<1>3. Len(d.out) \in 1 .. Len(d.out)
  BY <1>1
<1>4. Nested(Top(d), d.gs, Here(d), Len(d.gs)) /\ Here(d) \in Nat /\ Here(d) >= 1
  <2>1. Nested(d.out[Len(d.out)], d.gs, Bottom(d.forms, Len(d.out)), Upper(d.out, d.gs, d.forms, Len(d.out)))
    BY <1>3 DEF Shaped, Framed
  <2>2. Bottom(d.forms, Len(d.out)) \in Nat /\ Bottom(d.forms, Len(d.out)) >= 1
    BY <1>3, FramedFacts DEF Shaped
  <2>3. QED
    BY <1>1, <2>1, <2>2 DEF Upper, Here
<1>5. Last(d.gs) = d.gs[Len(d.gs)] /\ Last(d.gs) \in Color /\ Len(d.gs) \in Nat
  BY <1>2, Popped
<1>6. QED
  BY <1>1, <1>2, <1>4, <1>5 DEF Nested

LEMMA ShapedDraws ==
  ASSUME NEW d, Sound(d), Shaped(d), NEW e, Draws(d, e)
  PROVE  Shaped(e) /\ Keeps(d, e) /\ e.gs = d.gs /\ (Filled(d) => Filled(e))
<1>1. /\ e \in Device /\ e.out # << >> /\ Len(e.out) = Len(d.out)
      /\ \A i \in 1 .. Len(d.out) - 1 : e.out[i] = d.out[i]
      /\ e.gs = d.gs /\ e.forms = d.forms /\ Keeps(d, e)
      /\ Top(e).saved = Top(d).saved /\ Top(e).gs.fill = Top(d).gs.fill
  BY DEF Draws, SameStreams, SameRest, Kept, Keeps
<1>2. e.out \in Seq(Stream) /\ Top(e) = e.out[Len(e.out)]
  BY <1>1, TopType, DeviceFields
<1>3. Nested(Top(e), d.gs, Here(d), Len(d.gs))
  BY <1>1, TopNested DEF Nested
<1>4. \A k \in 1 .. Len(d.gs) - 1 : k \in 1 .. Len(d.gs) /\ d.gs[k] = d.gs[k]
  BY TopNested
<1> DEFINE q == d.out
           r == e.out
           G == d.gs
           F == d.forms
           b == Here(d)
<1>5. /\ Framed(q, G, F) /\ r \in Seq(Stream) /\ Len(r) = Len(q) /\ \A i \in 1 .. Len(q) - 1 : r[i] = q[i]
      /\ G \in Seq(Color) /\ b = Bottom(F, Len(q)) /\ Len(G) >= b /\ G[1] = "black"
      /\ Nested(r[Len(r)], G, b, Len(G))
  BY <1>1, <1>2, <1>3, TopNested DEF Shaped, Here
<1> HIDE DEF q, r, G, F, b
<1>6. Framed(r, G, F)
  BY <1>4, <1>5, FramedTop DEF G
<1>7. QED
  BY <1>1, <1>6 DEF Shaped, Filled, r, G, F

\* pdf_dev_gsave.
LEMMA GsaveIs ==
  ASSUME NEW d, Ready(d), Filled(d), NEW e, e = Gsave(d)
  PROVE  Ready(e) /\ Filled(e) /\ Keeps(d, e) /\ e.gs = Append(d.gs, Last(d.gs))
<1>1. d \in Device /\ d.out # << >> /\ TextRight(d) /\ FontRight(d) /\ d.bold = FALSE
  BY DeviceFields DEF Ready, Sound, FontRight
<1> DEFINE s == Top(d)
           x == Emit(d, [op |-> "q"])
           H == Append(d.gs, Last(d.gs))
<1>2. s \in Stream /\ s.text = FALSE /\ s.string = "none" /\ s.bad = {} /\ s.gs.bold = FALSE /\ s.gs \in Gstate
  BY <1>1, TopNested, StreamFields DEF Ready, TextRight
<1>3. d.gs \in Seq(Color) /\ Last(d.gs) \in Color
  BY TopNested DEF Ready
<1>4. /\ H \in Seq(Color) /\ Len(H) = Len(d.gs) + 1 /\ Len(d.gs) \in Nat /\ Last(H) = Last(d.gs)
      /\ \A k \in 1 .. Len(d.gs) : H[k] = d.gs[k]
  <2> DEFINE G == d.gs
             c == Last(G)
  <2>1. G \in Seq(Color) /\ c \in Color /\ H = Append(G, c)
    BY <1>3
  <2> HIDE DEF G, c, H
  <2>2. /\ H \in Seq(Color) /\ Len(H) = Len(G) + 1 /\ Len(G) \in Nat /\ Last(H) = c
        /\ \A k \in 1 .. Len(G) : H[k] = G[k]
    BY <2>1, Pushed
  <2>3. QED
    BY <2>2 DEF G, c
<1>5. e = [x EXCEPT !.gs = Append(@, Last(@))]
  BY DEF Gsave
<1> HIDE DEF s, x
<1>6. /\ Top(x) = Exec(s, [op |-> "q"]) /\ Exec(s, [op |-> "q"]) \in Stream
      /\ x \in Device /\ x.out # << >> /\ SameText(d, x) /\ SameStreams(d, x) /\ SameRest(d, x)
  <2>1. Exec(s, [op |-> "q"]) \in Stream
    BY <1>2, Exec_q
  <2>2. QED
    BY <1>1, <2>1, EmitIs DEF s, x
<1>7. /\ Top(x).saved = Append(s.saved, s.gs) /\ Top(x).bad = s.bad /\ Top(x).text = s.text
      /\ Top(x).string = s.string /\ Top(x).res = s.res /\ Top(x).gs = s.gs /\ Top(x).tm = s.tm
  BY <1>2, <1>6, Exec_q
<1>8. e = [x EXCEPT !.gs = H]
  BY <1>5, <1>6 DEF SameRest
<1> HIDE DEF H
<1>9. /\ e \in Device /\ e.gs = H /\ e.out = x.out /\ SameText(d, e)
      /\ e.dir = x.dir /\ e.cs = x.cs /\ e.forms = x.forms /\ e.bad = x.bad /\ e.failed = x.failed
  <2>1. e \in Device /\ e.gs = H /\ e.out = x.out /\ SameText(x, e)
        /\ e.dir = x.dir /\ e.cs = x.cs /\ e.forms = x.forms /\ e.bad = x.bad /\ e.failed = x.failed
    BY <1>4, <1>6, <1>8 DEF Device, SameText
  <2>2. QED
    BY <1>6, <2>1 DEF SameText
<1>10. Top(e) = Top(x) /\ Keeps(d, e) /\ e.out # << >>
  BY <1>6, <1>9 DEF Top, Keeps, SameRest, SameStreams
<1>11. TextRight(e) /\ FontRight(e)
  BY <1>1, <1>7, <1>9, <1>10 DEF TextRight, FontRight, SameText, Keeps, s
<1>12. Shaped(e)
  <2> DEFINE q == d.out
             r == e.out
             G == d.gs
             F == d.forms
             b == Here(d)
  <2>1. /\ Nested(s, G, b, Len(G)) /\ b \in Nat /\ b >= 1 /\ b <= Len(G) /\ Len(G) \in Nat
        /\ G[1] = "black" /\ Len(G) >= 1 /\ Last(G) = G[Len(G)] /\ G \in Seq(Color) /\ Last(G) \in Color
    BY TopNested DEF Ready, s
  <2>2. s.gs.fill = G[Len(G)] /\ H = Append(G, Last(G))
    BY <2>1 DEF Filled, s, H
  <2>3. r \in Seq(Stream) /\ r[Len(r)] = Top(x) /\ Top(x) \in Stream
    BY <1>6, <1>9, <1>10, TopType, DeviceFields
  <2>4. Len(r) = Len(q) /\ \A i \in 1 .. Len(q) - 1 : r[i] = q[i]
    BY <1>6, <1>9 DEF SameStreams
  <2>5. Framed(q, G, F) /\ b = Bottom(F, Len(q)) /\ e.gs = H /\ e.forms = F
    BY <1>9, <1>10 DEF Ready, Shaped, Here, Keeps
  <2> HIDE DEF q, r, G, F, b
  <2>6. Nested(r[Len(r)], H, b, Len(H))
    <3>1. Nested(Top(x), H, b, Len(H))
      BY <1>2, <1>7, <2>1, <2>2, <2>3, NestedPush
    <3>2. QED
      BY <2>3, <3>1
  <2>7. H \in Seq(Color) /\ Len(H) >= b /\ H[1] = "black" /\ \A k \in 1 .. Len(H) - 1 : k \in 1 .. Len(G) /\ H[k] = G[k]
    BY <1>4, <2>1 DEF G
  <2>8. Framed(r, H, F)
    BY <2>3, <2>4, <2>5, <2>6, <2>7, FramedTop, SMTT(30)
  <2>9. QED
    BY <2>5, <2>8 DEF Shaped, r
<1>13. Filled(e)
  BY <1>4, <1>7, <1>9, <1>10 DEF Filled, s
<1>14. QED
  BY <1>9, <1>10, <1>11, <1>12, <1>13 DEF Ready, Sound, SameText, H
\* Q, where the stream has a state to restore.
LEMMA RestoreIs ==
  ASSUME NEW d, Ready(d), Len(d.gs) > Here(d), NEW e, e = Restore(d)
  PROVE  /\ Ready(e) /\ Filled(e) /\ Keeps(d, e) /\ e.gs = Front(d.gs)
         /\ Len(e.gs) = Len(d.gs) - 1 /\ Here(e) = Here(d)
<1>1. d \in Device /\ d.out # << >> /\ TextRight(d) /\ FontRight(d) /\ d.bold = FALSE
  BY DeviceFields DEF Ready, Sound, FontRight
<1> DEFINE s == Top(d)
           x == Emit(d, [op |-> "Q"])
           H == Front(d.gs)
           b == Here(d)
           G == d.gs
<1>2. s \in Stream /\ s.text = FALSE /\ s.string = "none" /\ s.bad = {}
  BY <1>1, TopNested DEF Ready, TextRight
<1>3. /\ Nested(s, G, b, Len(G)) /\ b \in Nat /\ b >= 1 /\ Len(G) > b /\ Len(G) \in Nat
      /\ G[1] = "black" /\ Len(G) >= 1 /\ G \in Seq(Color)
  BY TopNested DEF Ready
<1>4. e = [x EXCEPT !.gs = Front(@)]
  BY DEF Restore
<1> HIDE DEF s, x, G, b
<1>5. /\ H \in Seq(Color) /\ Len(H) = Len(G) - 1
      /\ \A k \in 1 .. Len(G) - 1 : H[k] = G[k]
  BY <1>3, Popped DEF G
<1>6. s.saved # << >> /\ Last(s.saved) \in Gstate /\ Last(s.saved).fill = H[Len(H)] /\ Last(s.saved).bold = FALSE
  <2> DEFINE t == [s EXCEPT !.saved = Front(s.saved)]
  <2>1. Len(s.saved) = Len(G) - b /\ s.saved \in Seq(Gstate)
    BY <1>2, <1>3, StreamFields DEF Nested
  <2>2. Front(s.saved) \in Seq(Gstate)
    BY <1>3, <2>1, Popped
  <2>3. t \in Stream /\ t.saved = Front(s.saved)
    BY <1>2, <2>2 DEF Stream
  <2>4. H = Front(G)
    BY DEF G
  <2> HIDE DEF t, H
  <2>5. /\ Nested(t, H, b, Len(H)) /\ s.saved # << >> /\ Last(s.saved) \in Gstate
        /\ Last(s.saved).fill = H[Len(H)] /\ Last(s.saved).bold = FALSE
    BY <1>2, <1>3, <2>3, <2>4, NestedPop
  <2>6. QED
    BY <2>5
<1>7. /\ Top(x) = Exec(s, [op |-> "Q"]) /\ Exec(s, [op |-> "Q"]) \in Stream
      /\ x \in Device /\ x.out # << >> /\ SameText(d, x) /\ SameStreams(d, x) /\ SameRest(d, x)
  <2>1. Exec(s, [op |-> "Q"]) \in Stream
    BY <1>2, <1>6, Exec_Q
  <2>2. QED
    BY <1>1, <2>1, EmitIs DEF s, x
<1>8. /\ Top(x).saved = Front(s.saved) /\ Top(x).bad = s.bad /\ Top(x).text = s.text
      /\ Top(x).string = s.string /\ Top(x).res = s.res /\ Top(x).gs = Last(s.saved)
  BY <1>2, <1>6, <1>7, Exec_Q
<1>9. e = [x EXCEPT !.gs = H]
  BY <1>4, <1>7 DEF SameRest
<1> HIDE DEF H
<1>10. /\ e \in Device /\ e.gs = H /\ e.out = x.out /\ SameText(d, e)
       /\ e.dir = x.dir /\ e.cs = x.cs /\ e.forms = x.forms /\ e.bad = x.bad /\ e.failed = x.failed
  <2>1. e \in Device /\ e.gs = H /\ e.out = x.out /\ SameText(x, e)
        /\ e.dir = x.dir /\ e.cs = x.cs /\ e.forms = x.forms /\ e.bad = x.bad /\ e.failed = x.failed
    BY <1>5, <1>7, <1>9 DEF Device, SameText
  <2>2. QED
    BY <1>7, <2>1 DEF SameText
<1>11. Top(e) = Top(x) /\ Keeps(d, e) /\ e.out # << >> /\ Here(e) = b
  BY <1>7, <1>10 DEF Top, Keeps, SameRest, SameStreams, Here, b
<1>12. TextRight(e) /\ FontRight(e)
  <2>1. d.motion = "graphics" /\ d.used \subseteq s.res
    BY <1>1 DEF Ready, TextRight, s
  <2>2. /\ e.motion = "graphics" /\ e.font = d.font /\ e.slanted = d.slanted /\ e.rotate = d.rotate
        /\ e.bold = FALSE /\ e.mb = d.mb /\ e.reset = d.reset /\ e.used = d.used /\ e.dir = d.dir
    BY <1>1, <1>10, <1>11, <2>1 DEF SameText, Keeps
  <2>3. FontRight(e)
    BY <1>1, <2>1, <2>2 DEF FontRight
  <2> DEFINE t == Top(e)
  <2>4. t.bad = {} /\ t.text = FALSE /\ t.string = "none" /\ t.gs.bold = FALSE /\ e.used \subseteq t.res
    BY <1>2, <1>6, <1>8, <1>11, <2>1, <2>2
  <2> HIDE DEF t
  <2>5. TextRight(e)
    BY <2>2, <2>4 DEF TextRight, t
  <2>6. QED
    BY <2>3, <2>5
<1>13. Shaped(e)
  <2> DEFINE q == d.out
             r == e.out
             F == d.forms
  <2>1. r \in Seq(Stream) /\ r[Len(r)] = Top(x) /\ Top(x) \in Stream
    BY <1>7, <1>10, <1>11, TopType, DeviceFields
  <2>2. Len(r) = Len(q) /\ \A i \in 1 .. Len(q) - 1 : r[i] = q[i]
    BY <1>7, <1>10 DEF SameStreams
  <2>3. Framed(q, G, F) /\ b = Bottom(F, Len(q)) /\ e.gs = H /\ e.forms = F
    BY <1>10, <1>11 DEF Ready, Shaped, Here, Keeps, G, b
  <2>4. H = Front(G)
    BY DEF H, G
  <2> HIDE DEF q, r, F
  <2>5. Nested(r[Len(r)], H, b, Len(H))
    <3>1. Nested(Top(x), H, b, Len(H))
      BY <1>2, <1>3, <1>8, <2>1, <2>4, NestedPop
    <3>2. QED
      BY <2>1, <3>1
  <2>6. H \in Seq(Color) /\ Len(H) >= b /\ H[1] = "black" /\ \A k \in 1 .. Len(H) - 1 : k \in 1 .. Len(G) /\ H[k] = G[k]
    BY <1>3, <1>5
  <2>7. Framed(r, H, F)
    BY <2>1, <2>2, <2>3, <2>5, <2>6, FramedTop, SMTT(30)
  <2>8. QED
    BY <2>3, <2>7 DEF Shaped, r
<1>14. Filled(e)
  BY <1>6, <1>8, <1>10, <1>11 DEF Filled, Last
<1>15. QED
  BY <1>5, <1>10, <1>11, <1>12, <1>13, <1>14 DEF Ready, Sound, SameText, H, G, b
LEMMA ReadyReset ==
  ASSUME NEW d, Ready(d), NEW b \in BOOLEAN, NEW e, e = ResetFonts(d, b)
  PROVE  /\ Ready(e) /\ Keeps(d, e) /\ e.gs = d.gs /\ Here(e) = Here(d) /\ (Filled(d) => Filled(e))
         /\ e.used = {}
<1>1. Sound(d) /\ Shaped(d) /\ d.motion = "graphics"
  BY DEF Ready
<1>2. Sound(e) /\ Draws(d, e) /\ e.motion = "graphics" /\ e.used = {}
  BY <1>1, ResetFontsIs
<1>3. Shaped(e) /\ Keeps(d, e) /\ e.gs = d.gs /\ (Filled(d) => Filled(e))
  BY <1>1, <1>2, ShapedDraws
<1>4. QED
  BY <1>2, <1>3 DEF Ready, Keeps, Here

LEMMA ReadyGraphics ==
  ASSUME NEW d, Sound(d), Shaped(d), NEW e, e = GraphicsMode(d)
  PROVE  Ready(e) /\ Keeps(d, e) /\ e.gs = d.gs /\ Here(e) = Here(d) /\ (Filled(d) => Filled(e))
<1>1. Sound(e) /\ Draws(d, e) /\ e.motion = "graphics"
  BY GraphicsModeIs
<1>2. Shaped(e) /\ Keeps(d, e) /\ e.gs = d.gs /\ (Filled(d) => Filled(e))
  BY <1>1, ShapedDraws
<1>3. QED
  BY <1>1, <1>2 DEF Ready, Keeps, Here

LEMMA KeepsOn ==
  ASSUME NEW d, NEW e, NEW f, Keeps(d, e), Keeps(e, f)
  PROVE  Keeps(d, f)
BY DEF Keeps

\* pdf_dev_grestore.
LEMMA GrestoreIs ==
  ASSUME NEW d, Ready(d), Len(d.gs) > Here(d), NEW e, e = Grestore(d)
  PROVE  /\ Ready(e) /\ Filled(e) /\ Keeps(d, e) /\ e.gs = Front(d.gs)
         /\ Len(e.gs) = Len(d.gs) - 1 /\ Here(e) = Here(d) /\ e.used = {}
<1> DEFINE x == Restore(d)
<1>1. Len(d.gs) \in Nat /\ Here(d) \in Nat /\ Here(d) >= 1
  BY TopNested DEF Ready
<1>2. e = ResetFonts(x, FALSE)
  <2>1. ~(Len(d.gs) <= 1)
    BY <1>1
  <2>2. QED
    BY <2>1 DEF Grestore
<1>3. /\ Ready(x) /\ Filled(x) /\ Keeps(d, x) /\ x.gs = Front(d.gs)
      /\ Len(x.gs) = Len(d.gs) - 1 /\ Here(x) = Here(d)
  BY RestoreIs
<1> HIDE DEF x
<1>4. Ready(e) /\ Keeps(x, e) /\ e.gs = x.gs /\ Here(e) = Here(x) /\ (Filled(x) => Filled(e)) /\ e.used = {}
  BY <1>2, <1>3, ReadyReset
<1>5. QED
  BY <1>3, <1>4, KeepsOn

(***************************************************************************)
(* pdf_dev_grestore_to: a loop.                                             *)
(***************************************************************************)
LEMMA NatLeast ==
  ASSUME NEW S \in SUBSET Nat, S # {}
  PROVE  \E n \in S : \A m \in S : n <= m
<1> DEFINE R == OpToRel(<, Nat)
<1>1. IsWellFoundedOn(R, Nat)
  BY NatLessThanWellFounded, Zenon
<1>2. \A n, m \in Nat : ~(<< m, n >> \in R) => n <= m
  BY DEF OpToRel
<1> HIDE DEF R
<1>3. PICK n \in S : \A m \in S : ~(<< m, n >> \in R)
  BY <1>1, WFMin, Zenon
<1>4. \A m \in S : n <= m
  BY <1>2, <1>3
<1>5. QED
  BY <1>4

\* What k rounds of the loop make of d.
Rounds(h, n, d) == h = [k \in 0 .. n |-> IF k = 0 THEN d ELSE Restore(h[k - 1])]

LEMMA RoundsExist ==
  ASSUME NEW d, NEW n \in Nat
  PROVE  \E h : Rounds(h, n, d)
<1> DEFINE S == { k \in Nat : ~ \E h : Rounds(h, k, d) }
<1>1. SUFFICES ASSUME S # {} PROVE FALSE
  OBVIOUS
<1>2. PICK m \in S : \A k \in S : m <= k
  BY <1>1, NatLeast
<1>3. m \in Nat /\ ~ \E h : Rounds(h, m, d)
  BY <1>2
<1>4. CASE m = 0
  <2> DEFINE h == [k \in 0 .. 0 |-> d]
  <2>1. h = [k \in 0 .. 0 |-> IF k = 0 THEN d ELSE Restore(h[k - 1])]
    <3>1. \A k \in 0 .. 0 : k = 0
      OBVIOUS
    <3>2. QED
      BY <3>1
  <2>2. Rounds(h, 0, d)
    BY <2>1 DEF Rounds
  <2>3. QED
    BY <1>3, <1>4, <2>2
<1>5. CASE m # 0
  <2>1. m - 1 \in Nat /\ ~(m <= m - 1)
    BY <1>3, <1>5
  <2>2. m - 1 \notin S
    BY <1>2, <2>1
  <2>3. PICK f : Rounds(f, m - 1, d)
    BY <2>1, <2>2
  <2> DEFINE h == [k \in 0 .. m |-> IF k = m THEN Restore(f[m - 1]) ELSE f[k]]
             r == [k \in 0 .. m |-> IF k = 0 THEN d ELSE Restore(h[k - 1])]
  <2>4. ASSUME NEW k \in 0 .. m PROVE h[k] = r[k]
    <3>1. CASE k = m
      <4>1. m - 1 \in 0 .. m /\ m - 1 # m /\ k # 0
        BY <1>3, <1>5, <3>1
      <4>2. h[m - 1] = f[m - 1]
        BY <4>1
      <4>3. QED
        BY <3>1, <4>1, <4>2
    <3>2. CASE k # m
      <4>1. k \in 0 .. m - 1
        BY <1>3, <3>2
      <4>2. f[k] = IF k = 0 THEN d ELSE Restore(f[k - 1])
        BY <2>3, <4>1 DEF Rounds
      <4>3. k # 0 => k - 1 \in 0 .. m /\ k - 1 # m
        BY <1>3, <4>1
      <4>4. k # 0 => h[k - 1] = f[k - 1]
        BY <4>3
      <4>5. h[k] = f[k]
        BY <3>2
      <4>6. r[k] = IF k = 0 THEN d ELSE Restore(h[k - 1])
        OBVIOUS
      <4>7. QED
        BY <4>2, <4>4, <4>5, <4>6
    <3>3. QED
      BY <3>1, <3>2
  <2>5. h = r
    BY <2>4
  <2>6. Rounds(h, m, d)
    BY <2>5 DEF Rounds
  <2>7. QED
    BY <1>3, <2>6
<1>6. QED
  BY <1>4, <1>5

LEMMA GrestoreToLoop ==
  ASSUME NEW d, NEW depth, NEW n \in Nat,
         n = IF Len(d.gs) > depth + 1 THEN Len(d.gs) - depth - 1 ELSE 0
  PROVE  \E g : Rounds(g, n, d) /\ GrestoreTo(d, depth) = ResetFonts(g[n], FALSE)
<1> DEFINE g == CHOOSE f : f = [k \in 0 .. n |-> IF k = 0 THEN d ELSE Restore(f[k - 1])]
<1>1. PICK h : h = [k \in 0 .. n |-> IF k = 0 THEN d ELSE Restore(h[k - 1])]
  <2>1. \E h : Rounds(h, n, d)
    BY RoundsExist
  <2>2. QED
    BY <2>1 DEF Rounds
<1>2. g = [k \in 0 .. n |-> IF k = 0 THEN d ELSE Restore(g[k - 1])]
  BY <1>1, Zenon
<1>3. GrestoreTo(d, depth) = ResetFonts(g[n], FALSE)
  BY Zenon DEF GrestoreTo
<1>4. QED
  BY <1>2, <1>3 DEF Rounds
LEMMA GrestoreToIs ==
  ASSUME NEW d, Ready(d), Filled(d), NEW depth \in Nat, Here(d) = depth + 1, NEW e, e = GrestoreTo(d, depth)
  PROVE  Ready(e) /\ Filled(e) /\ Keeps(d, e) /\ Len(e.gs) = depth + 1 /\ Here(e) = depth + 1 /\ e.used = {}
<1> DEFINE n == IF Len(d.gs) > depth + 1 THEN Len(d.gs) - depth - 1 ELSE 0
           l == Len(d.gs)
<1>1. l \in Nat /\ l >= depth + 1 /\ n \in Nat /\ n = l - depth - 1
  BY TopNested DEF Ready
<1>2. PICK g : Rounds(g, n, d) /\ e = ResetFonts(g[n], FALSE)
  BY <1>1, GrestoreToLoop, ZenonT(30)
<1> HIDE DEF n, l
<1> DEFINE P(x, k) == /\ Ready(x) /\ Filled(x) /\ Keeps(d, x)
                      /\ Len(x.gs) = l - k /\ Here(x) = depth + 1
           S == { k \in 0 .. n : ~P(g[k], k) }
<1>3. P(d, 0)
  BY <1>1 DEF Keeps, l
<1>4. ASSUME NEW k \in 0 .. n, k # 0, P(g[k - 1], k - 1) PROVE P(g[k], k)
  <2> DEFINE x == g[k - 1]
  <2>1. g[k] = Restore(x)
    BY <1>2, <1>4 DEF Rounds
  <2>2. Len(x.gs) = l - (k - 1) /\ Len(x.gs) > Here(x)
    BY <1>1, <1>4
  <2>3. Ready(x) /\ Keeps(d, x) /\ Here(x) = depth + 1
    BY <1>4
  <2> HIDE DEF x
  <2> DEFINE y == g[k]
  <2>4. y = Restore(x)
    BY <2>1
  <2> HIDE DEF y
  <2>5. /\ Ready(y) /\ Filled(y) /\ Keeps(x, y)
        /\ Len(y.gs) = Len(x.gs) - 1 /\ Here(y) = Here(x)
    BY <2>2, <2>3, <2>4, RestoreIs
  <2>6. Keeps(d, y)
    BY <2>3, <2>5, KeepsOn
  <2>7. Len(y.gs) = l - k
    BY <1>1, <2>2, <2>5
  <2>8. QED
    BY <2>3, <2>5, <2>6, <2>7 DEF y
<1>5. S = {}
  <2>1. SUFFICES ASSUME S # {} PROVE FALSE
    OBVIOUS
  <2>2. S \in SUBSET Nat
    BY <1>1
  <2>3. PICK m \in S : \A k \in S : m <= k
    BY <2>1, <2>2, NatLeast
  <2>4. m \in 0 .. n /\ ~P(g[m], m)
    BY <2>3
  <2>5. m # 0
    <3>1. g[0] = d
      BY <1>1, <1>2 DEF Rounds
    <3>2. QED
      BY <1>3, <2>4, <3>1
  <2>6. m - 1 \in 0 .. n /\ ~(m <= m - 1)
    BY <1>1, <2>4, <2>5
  <2>7. P(g[m - 1], m - 1)
    BY <2>3, <2>6
  <2>8. QED
    BY <1>4, <2>4, <2>5, <2>7
<1>6. P(g[n], n)
  BY <1>1, <1>5, SMTT(30)
<1> DEFINE x == g[n]
<1>7. e = ResetFonts(x, FALSE) /\ Ready(x) /\ Filled(x) /\ Keeps(d, x) /\ Len(x.gs) = l - n /\ Here(x) = depth + 1
  BY <1>2, <1>6
<1> HIDE DEF x
<1>8. Ready(e) /\ Keeps(x, e) /\ e.gs = x.gs /\ Here(e) = Here(x) /\ Filled(e) /\ e.used = {}
  BY <1>7, ReadyReset
<1>9. Len(e.gs) = depth + 1
  <2>1. l - n = depth + 1
    BY <1>1
  <2>2. QED
    BY <1>7, <1>8, <2>1
<1>10. QED
  BY <1>7, <1>8, <1>9, KeepsOn
(***************************************************************************)
(* Colours.                                                                 *)
(***************************************************************************)
\* pdf_dev_set_color.
LEMMA SetColorIs ==
  ASSUME NEW d, Ready(d), Len(d.gs) >= 2, NEW c \in Color,
         NEW e, e = [Emit(d, [op |-> "color", color |-> c]) EXCEPT !.gs[Len(d.gs)] = c]
  PROVE  Ready(e) /\ Filled(e) /\ Keeps(d, e) /\ Len(e.gs) = Len(d.gs) /\ Last(e.gs) = c
<1> DEFINE s == Top(d)
           op == [op |-> "color", color |-> c]
           x == Emit(d, op)
           G == d.gs
           H == [G EXCEPT ![Len(G)] = c]
           b == Here(d)
<1>1. d \in Device /\ d.out # << >> /\ TextRight(d) /\ FontRight(d) /\ d.bold = FALSE
  BY DeviceFields DEF Ready, Sound, FontRight
<1>2. s \in Stream /\ s.text = FALSE /\ s.string = "none" /\ s.bad = {} /\ s.gs.bold = FALSE /\ d.used \subseteq s.res
  BY <1>1, TopNested DEF Ready, TextRight
<1>3. /\ Nested(s, G, b, Len(G)) /\ b \in Nat /\ b >= 1 /\ Len(G) >= b /\ Len(G) \in Nat
      /\ G[1] = "black" /\ Len(G) >= 2 /\ G \in Seq(Color)
  BY TopNested DEF Ready
<1>4. e = [x EXCEPT !.gs[Len(G)] = c]
  OBVIOUS
<1> HIDE DEF s, x, G, b
<1>5. /\ H \in Seq(Color) /\ Len(H) = Len(G) /\ Last(H) = c /\ H # << >>
      /\ \A i \in 1 .. Len(G) - 1 : H[i] = G[i]
  <2>1. G # << >>
    BY <1>3
  <2>2. QED
    BY <1>3, <2>1, LastSet
<1>6. /\ Top(x) = Exec(s, op) /\ Exec(s, op) \in Stream
      /\ x \in Device /\ x.out # << >> /\ SameText(d, x) /\ SameStreams(d, x) /\ SameRest(d, x)
  <2>1. Exec(s, op) \in Stream
    BY <1>2, ExecColor
  <2>2. QED
    BY <1>1, <2>1, EmitIs DEF s, x
<1>7. /\ Top(x).saved = s.saved /\ Top(x).bad = s.bad /\ Top(x).text = s.text /\ Top(x).string = s.string
      /\ Top(x).res = s.res /\ Top(x).gs.fill = c /\ Top(x).gs.bold = s.gs.bold
  BY <1>2, <1>6, ExecColor
<1>8. e = [x EXCEPT !.gs = H]
  BY <1>4, <1>6 DEF SameRest, G
<1> HIDE DEF H
<1>9. /\ e \in Device /\ e.gs = H /\ e.out = x.out /\ SameText(d, e)
      /\ e.dir = x.dir /\ e.cs = x.cs /\ e.forms = x.forms /\ e.bad = x.bad /\ e.failed = x.failed
  <2>1. e \in Device /\ e.gs = H /\ e.out = x.out /\ SameText(x, e)
        /\ e.dir = x.dir /\ e.cs = x.cs /\ e.forms = x.forms /\ e.bad = x.bad /\ e.failed = x.failed
    BY <1>5, <1>6, <1>8 DEF Device, SameText
  <2>2. QED
    BY <1>6, <2>1 DEF SameText
<1>10. Top(e) = Top(x) /\ Keeps(d, e) /\ e.out # << >>
  BY <1>6, <1>9 DEF Top, Keeps, SameRest, SameStreams
<1>11. TextRight(e) /\ FontRight(e)
  <2>1. d.motion = "graphics"
    BY DEF Ready
  <2>2. /\ e.motion = "graphics" /\ e.font = d.font /\ e.slanted = d.slanted /\ e.rotate = d.rotate
        /\ e.bold = FALSE /\ e.mb = d.mb /\ e.reset = d.reset /\ e.used = d.used /\ e.dir = d.dir
    BY <1>1, <1>9, <1>10, <2>1 DEF SameText, Keeps
  <2>3. FontRight(e)
    BY <1>1, <2>1, <2>2 DEF FontRight
  <2> DEFINE t == Top(e)
  <2>4. t.bad = {} /\ t.text = FALSE /\ t.string = "none" /\ t.gs.bold = FALSE /\ e.used \subseteq t.res
    BY <1>2, <1>7, <1>10, <2>2
  <2> HIDE DEF t
  <2>5. TextRight(e)
    BY <2>2, <2>4 DEF TextRight, t
  <2>6. QED
    BY <2>3, <2>5
<1>12. Shaped(e)
  <2> DEFINE q == d.out
             r == e.out
             F == d.forms
  <2>1. r \in Seq(Stream) /\ r[Len(r)] = Top(x) /\ Top(x) \in Stream
    BY <1>6, <1>9, <1>10, TopType, DeviceFields
  <2>2. Len(r) = Len(q) /\ \A i \in 1 .. Len(q) - 1 : r[i] = q[i]
    BY <1>6, <1>9 DEF SameStreams
  <2>3. Framed(q, G, F) /\ b = Bottom(F, Len(q)) /\ e.gs = H /\ e.forms = F
    BY <1>9, <1>10 DEF Ready, Shaped, Here, Keeps, G, b
  <2> HIDE DEF q, r, F
  <2>4. Nested(r[Len(r)], H, b, Len(H))
    <3> DEFINE t == r[Len(r)]
               n == Len(G)
    <3>1. t.saved = s.saved
      BY <1>7, <2>1
    <3>2. /\ b <= n /\ Len(s.saved) = n - b
          /\ \A j \in 1 .. n - b : s.saved[j].fill = G[b + j - 1] /\ s.saved[j].bold = FALSE
      BY <1>3 DEF Nested
    <3>3. \A j \in 1 .. n - b : H[b + j - 1] = G[b + j - 1]
      <4>1. ASSUME NEW j \in 1 .. n - b PROVE b + j - 1 \in 1 .. n - 1
        BY <1>3
      <4>2. QED
        BY <1>5, <4>1
    <3>4. Len(H) = n
      BY <1>5
    <3> HIDE DEF t, n
    <3>5. Nested(t, H, b, n)
      BY <3>1, <3>2, <3>3 DEF Nested
    <3>6. QED
      BY <3>4, <3>5 DEF t
  <2>5. H \in Seq(Color) /\ Len(H) >= b /\ H[1] = "black" /\ \A k \in 1 .. Len(H) - 1 : k \in 1 .. Len(G) /\ H[k] = G[k]
    BY <1>3, <1>5
  <2>6. Framed(r, H, F)
    BY <2>1, <2>2, <2>3, <2>4, <2>5, FramedTop, SMTT(30)
  <2>7. QED
    BY <2>3, <2>6 DEF Shaped, r
<1>13. Filled(e)
  BY <1>5, <1>7, <1>9, <1>10 DEF Filled
<1>14. QED
  BY <1>5, <1>9, <1>10, <1>11, <1>12, <1>13 DEF Ready, Sound, SameText, G

\* A device on a page, but for the colours.
Steady(d) ==
  /\ Sound(d) /\ Shaped(d) /\ Settled(d)
  /\ Len(d.gs) >= 2 /\ Len(d.cs) \in 1 .. ColorMax /\ Len(d.forms) <= MaxForms
  /\ d.bad = {} /\ d.failed = FALSE
\* The colours, too, are what they should be.
Tinted(d) == Filled(d) /\ Last(d.gs) = Last(d.cs)

LEMMA SteadyOn ==
  ASSUME NEW d, Steady(d), NEW e, Sound(e), Shaped(e), Settled(e), Keeps(d, e), Len(e.gs) >= 2
  PROVE  Steady(e)
BY DEF Steady, Keeps

LEMMA SteadyGraphics ==
  ASSUME NEW d, Steady(d), NEW e, e = GraphicsMode(d)
  PROVE  /\ Steady(e) /\ Ready(e) /\ Keeps(d, e) /\ e.gs = d.gs /\ Here(e) = Here(d)
         /\ (Filled(d) => Filled(e)) /\ (Tinted(d) => Tinted(e))
<1>1. Ready(e) /\ Keeps(d, e) /\ e.gs = d.gs /\ Here(e) = Here(d) /\ (Filled(d) => Filled(e))
  BY ReadyGraphics DEF Steady
<1>2. Sound(e) /\ Shaped(e) /\ Settled(e) /\ Len(e.gs) >= 2
  BY <1>1 DEF Ready, Settled, Steady
<1>3. Steady(e)
  BY <1>1, <1>2, SteadyOn
<1>4. Tinted(d) => Tinted(e)
  BY <1>1 DEF Tinted, Keeps
<1>5. QED
  BY <1>1, <1>3, <1>4

\* pdf_color_... and pdf_dev_reset_color: the colour on top of the stack.
LEMMA ResetColorIs ==
  ASSUME NEW d, Steady(d), NEW force \in BOOLEAN, force \/ Filled(d), NEW e, e = ResetColor(d, force)
  PROVE  Steady(e) /\ Tinted(e) /\ Keeps(d, e) /\ Len(e.gs) = Len(d.gs)
<1> DEFINE c == Last(d.cs)
           g == GraphicsMode(d)
<1>1. c \in Color
  <2>1. d.cs \in Seq(Color) /\ Len(d.cs) >= 1
    BY DeviceFields DEF Steady, Sound
  <2>2. QED
    BY <2>1, Popped
<1>2. CASE force \/ c # Last(d.gs)
  <2>1. e = [Emit(g, [op |-> "color", color |-> c]) EXCEPT !.gs[Len(d.gs)] = c]
    BY <1>2 DEF ResetColor
  <2>2. Steady(g) /\ Ready(g) /\ Keeps(d, g) /\ g.gs = d.gs
    BY SteadyGraphics
  <2> HIDE DEF c, g
  <2>3. e = [Emit(g, [op |-> "color", color |-> c]) EXCEPT !.gs[Len(g.gs)] = c] /\ Len(g.gs) >= 2
    BY <2>1, <2>2 DEF Steady
  <2>4. Ready(e) /\ Filled(e) /\ Keeps(g, e) /\ Len(e.gs) = Len(g.gs) /\ Last(e.gs) = c
    BY <1>1, <2>2, <2>3, SetColorIs
  <2>5. Steady(e)
    <3>1. Sound(e) /\ Shaped(e) /\ Settled(e) /\ Len(e.gs) >= 2
      BY <2>3, <2>4 DEF Ready, Settled
    <3>2. QED
      BY <2>2, <2>4, <3>1, SteadyOn
  <2>6. Tinted(e) /\ Keeps(d, e)
    BY <2>2, <2>4 DEF Tinted, Keeps, c
  <2>7. QED
    BY <2>2, <2>4, <2>5, <2>6
<1>3. CASE ~(force \/ c # Last(d.gs))
  <2>1. e = d
    BY <1>3 DEF ResetColor
  <2>2. Tinted(d)
    BY <1>3 DEF Tinted
  <2>3. QED
    BY <2>1, <2>2 DEF Keeps
<1>4. QED
  BY <1>2, <1>3
\* The stack of colours changes, and nothing else.
LEMMA StackChanged ==
  ASSUME NEW d, Steady(d), NEW cs \in Seq(Color), Len(cs) \in 1 .. ColorMax, NEW e, e = [d EXCEPT !.cs = cs]
  PROVE  /\ Steady(e) /\ e.cs = cs /\ e.gs = d.gs /\ e.forms = d.forms /\ Len(e.out) = Len(d.out) /\ Here(e) = Here(d)
         /\ (Filled(d) => Filled(e))
<1>1. d \in Device
  BY DEF Steady, Sound
<1>2. /\ e \in Device /\ e.out = d.out /\ SameText(d, e) /\ e.cs = cs
      /\ e.dir = d.dir /\ e.gs = d.gs /\ e.forms = d.forms /\ e.bad = d.bad /\ e.failed = d.failed
  BY <1>1 DEF Device, SameText
<1>3. Top(e) = Top(d)
  BY <1>2 DEF Top
<1>4. TextRight(e) /\ FontRight(e)
  BY <1>2, <1>3 DEF Steady, Sound, TextRight, FontRight, SameText
<1>5. QED
  BY <1>2, <1>3, <1>4 DEF Steady, Sound, Shaped, Settled, Filled, Here, SameText

LEMMA ColorsType ==
  ASSUME NEW d, Steady(d)
  PROVE  d.cs \in Seq(Color) /\ Len(d.cs) \in 1 .. ColorMax /\ Len(d.cs) \in Nat /\ d.cs # << >> /\ ColorMax \in Nat
<1>1. d.cs \in Seq(Color) /\ Len(d.cs) \in 1 .. ColorMax /\ ColorMax \in Nat
  BY DeviceFields, DevAssumption DEF Steady, Sound
<1>2. QED
  BY <1>1

\* What each function on colours does: the same page, with the colour on top
\* of the stack installed.
Recolored(d, e) ==
  /\ Steady(e) /\ Tinted(e) /\ Len(e.gs) = Len(d.gs) /\ e.forms = d.forms
  /\ Len(e.out) = Len(d.out) /\ Here(e) = Here(d)

LEMMA ColorSetIs ==
  ASSUME NEW d, Steady(d), NEW c \in Color, NEW e, e = ColorSet(d, c)
  PROVE  Recolored(d, e)
<1> DEFINE cs == [d.cs EXCEPT ![Len(d.cs)] = c]
           x == [d EXCEPT !.cs = cs]
<1>1. cs \in Seq(Color) /\ Len(cs) = Len(d.cs)
  BY ColorsType, LastSet
<1>2. e = ResetColor(x, TRUE)
  BY DEF ColorSet
<1> HIDE DEF cs
<1>3. /\ Steady(x) /\ x.gs = d.gs /\ x.forms = d.forms /\ Len(x.out) = Len(d.out) /\ Here(x) = Here(d)
  BY <1>1, ColorsType, StackChanged
<1> HIDE DEF x
<1>4. Steady(e) /\ Tinted(e) /\ Keeps(x, e) /\ Len(e.gs) = Len(x.gs)
  BY <1>2, <1>3, ResetColorIs
<1>5. QED
  BY <1>3, <1>4 DEF Recolored, Keeps, Here

LEMMA ColorPushIs ==
  ASSUME NEW d, Steady(d), Tinted(d), NEW c \in Color, NEW e, e = ColorPush(d, c)
  PROVE  Recolored(d, e)
<1>1. CASE Len(d.cs) >= ColorMax
  BY <1>1 DEF ColorPush, Recolored
<1>2. CASE ~(Len(d.cs) >= ColorMax)
  <2> DEFINE cs == Append(d.cs, c)
             x == [d EXCEPT !.cs = cs]
  <2>1. cs \in Seq(Color) /\ Len(cs) = Len(d.cs) + 1
    BY ColorsType, Pushed
  <2>2. Len(cs) \in 1 .. ColorMax
    BY <1>2, <2>1, ColorsType
  <2>3. e = ColorSet(x, c)
    BY <1>2 DEF ColorPush
  <2> HIDE DEF cs
  <2>4. /\ Steady(x) /\ x.gs = d.gs /\ x.forms = d.forms /\ Len(x.out) = Len(d.out) /\ Here(x) = Here(d)
    BY <2>1, <2>2, StackChanged
  <2> HIDE DEF x
  <2>5. Recolored(x, e)
    BY <2>3, <2>4, ColorSetIs
  <2>6. QED
    BY <2>4, <2>5 DEF Recolored
<1>3. QED
  BY <1>1, <1>2

LEMMA ColorPopIs ==
  ASSUME NEW d, Steady(d), Tinted(d), NEW e, e = ColorPop(d)
  PROVE  Recolored(d, e)
<1>1. CASE Len(d.cs) <= 1
  BY <1>1 DEF ColorPop, Recolored
<1>2. CASE ~(Len(d.cs) <= 1)
  <2> DEFINE cs == Front(d.cs)
             x == [d EXCEPT !.cs = cs]
  <2>1. Len(d.cs) >= 1 /\ Len(d.cs) - 1 \in 1 .. ColorMax
    BY <1>2, ColorsType
  <2>2. cs \in Seq(Color) /\ Len(cs) = Len(d.cs) - 1
    BY <2>1, ColorsType, Popped
  <2>3. e = ResetColor(x, TRUE)
    BY <1>2 DEF ColorPop
  <2> HIDE DEF cs
  <2>4. /\ Steady(x) /\ x.gs = d.gs /\ x.forms = d.forms /\ Len(x.out) = Len(d.out) /\ Here(x) = Here(d)
    BY <2>1, <2>2, StackChanged
  <2> HIDE DEF x
  <2>5. Steady(e) /\ Tinted(e) /\ Keeps(x, e) /\ Len(e.gs) = Len(x.gs)
    BY <2>3, <2>4, ResetColorIs
  <2>6. QED
    BY <2>4, <2>5 DEF Recolored, Keeps, Here
<1>3. QED
  BY <1>1, <1>2

LEMMA ColorClearIs ==
  ASSUME NEW d, Steady(d), NEW c \in Color, NEW e, e = ColorSet(ColorClear(d), c)
  PROVE  Recolored(d, e)
<1> DEFINE cs == << "black" >>
           x == [d EXCEPT !.cs = cs]
<1>1. cs \in Seq(Color) /\ Len(cs) \in 1 .. ColorMax
  BY DevAssumption
<1>2. e = ColorSet(x, c)
  BY DEF ColorClear
<1> HIDE DEF cs
<1>3. /\ Steady(x) /\ x.gs = d.gs /\ x.forms = d.forms /\ Len(x.out) = Len(d.out) /\ Here(x) = Here(d)
  BY <1>1, StackChanged
<1> HIDE DEF x
<1>4. Recolored(x, e)
  BY <1>2, <1>3, ColorSetIs
<1>5. QED
  BY <1>3, <1>4 DEF Recolored(***************************************************************************)
(* Forms: a stream begins above, or ends on top of, another.                *)
(***************************************************************************)
LEMMA FramedForm ==
  ASSUME NEW q, NEW G, NEW F, Framed(q, G, F), Len(G) >= 2, Suspended(Last(q)), Last(q).gs.fill = Last(G),
         NEW s \in Stream, s.saved = << >>, NEW c \in Color,
         NEW r, r = Append(q, s), NEW H, H = Append(G, c), NEW E, E = Append(F, Len(G))
  PROVE  Framed(r, H, E)
<1> DEFINE n == Len(F)
           m == Len(G)
<1>1. /\ q \in Seq(Stream) /\ G \in Seq(Color) /\ F \in Seq(Nat)
      /\ n \in Nat /\ m \in Nat /\ Len(q) = n + 1 /\ m >= 2
      /\ \A i \in 1 .. n : F[i] \in Nat
  BY FramedFacts
<1>2. /\ H \in Seq(Color) /\ Len(H) = m + 1 /\ \A k \in 1 .. m : H[k] = G[k]
  BY <1>1, Pushed
<1>3. /\ E \in Seq(Nat) /\ Len(E) = n + 1 /\ E[n + 1] = m /\ \A i \in 1 .. n : E[i] = F[i]
  BY <1>1
<1>4. /\ r \in Seq(Stream) /\ Len(r) = n + 2 /\ r[n + 2] = s /\ \A i \in 1 .. n + 1 : r[i] = q[i]
  BY <1>1
<1>5. /\ G[1] = "black" /\ \A i \in 1 .. n : 2 <= F[i] /\ F[i] < m
      /\ \A i, j \in 1 .. n : i < j => F[i] < F[j]
      /\ \A i \in 1 .. n + 1 : Nested(q[i], G, Bottom(F, i), Upper(q, G, F, i))
      /\ \A i \in 1 .. n : Suspended(q[i]) /\ q[i].gs.fill = G[F[i]]
  BY <1>1 DEF Framed
<1>6. Suspended(q[n + 1]) /\ q[n + 1].gs.fill = G[m]
  BY <1>1, Popped DEF Last
<1> HIDE DEF n, m
<1>7. \A i \in 1 .. n + 1 : E[i] \in Nat /\ 2 <= E[i] /\ E[i] < m + 1
  <2>1. SUFFICES ASSUME NEW i \in 1 .. n + 1 PROVE E[i] \in Nat /\ 2 <= E[i] /\ E[i] < m + 1
    OBVIOUS
  <2>2. CASE i = n + 1
    BY <1>1, <1>3, <2>2
  <2>3. CASE i # n + 1
    <3>1. i \in 1 .. n
      BY <1>1, <2>3
    <3>2. E[i] = F[i] /\ F[i] \in Nat /\ 2 <= F[i] /\ F[i] < m
      BY <1>1, <1>3, <1>5, <3>1
    <3>3. QED
      BY <1>1, <3>2
  <2>4. QED
    BY <2>2, <2>3
<1>8. n \in Nat /\ m \in Nat /\ m >= 2
  BY <1>1
<1>9. \A i \in 1 .. n + 1 : E[i] \in Nat /\ E[i] <= m /\ E[i] \in 1 .. m
  <2>1. SUFFICES ASSUME NEW x \in Nat, 2 <= x, x < m + 1 PROVE x <= m /\ x \in 1 .. m
    BY <1>7
  <2>2. QED
    BY <1>8, <2>1
<1>10. \A i, j \in 1 .. n + 1 : i < j => E[i] < E[j]
  <2>1. SUFFICES ASSUME NEW i \in 1 .. n + 1, NEW j \in 1 .. n + 1, i < j PROVE E[i] < E[j]
    OBVIOUS
  <2>2. i \in 1 .. n /\ E[i] = F[i] /\ F[i] < m
    BY <1>1, <1>3, <1>5, <2>1, SMTT(30)
  <2>3. CASE j = n + 1
    BY <1>3, <2>2, <2>3
  <2>4. CASE j # n + 1
    <3>1. j \in 1 .. n
      BY <1>1, <2>4
    <3>2. QED
      BY <1>3, <1>5, <2>1, <2>2, <3>1
  <2>5. QED
    BY <2>3, <2>4
<1>11. \A i \in 1 .. n + 1 : Bottom(E, i) = Bottom(F, i) /\ Upper(q, G, F, i) = E[i]
  <2>1. SUFFICES ASSUME NEW i \in 1 .. n + 1 PROVE Bottom(E, i) = Bottom(F, i) /\ Upper(q, G, F, i) = E[i]
    OBVIOUS
  <2>2. i # 1 => E[i - 1] = F[i - 1]
    BY <1>1, <1>3, SMTT(30)
  <2>3. i # n + 1 => E[i] = F[i]
    BY <1>1, <1>3
  <2>4. Bottom(E, i) = Bottom(F, i)
    BY <2>2 DEF Bottom
  <2>5. Upper(q, G, F, i) = E[i]
    BY <1>1, <1>3, <2>3 DEF Upper, m
  <2>6. QED
    BY <2>4, <2>5
<1>12. \A i \in 1 .. n + 1 : Nested(r[i], H, Bottom(E, i), E[i])
  <2>1. SUFFICES ASSUME NEW i \in 1 .. n + 1 PROVE Nested(r[i], H, Bottom(E, i), E[i])
    OBVIOUS
  <2> DEFINE b == Bottom(E, i)
             h == E[i]
  <2>2. Nested(r[i], G, b, h) /\ b \in Nat /\ b >= 1 /\ h \in Nat /\ h <= m
    <3>1. Bottom(F, i) \in Nat /\ Bottom(F, i) >= 1
      BY <1>1, FramedFacts
    <3>2. Nested(q[i], G, Bottom(F, i), Upper(q, G, F, i))
      BY <1>5
    <3>3. h \in Nat /\ h <= m
      BY <1>9
    <3>4. QED
      BY <1>4, <1>11, <3>1, <3>2, <3>3
  <2> HIDE DEF b, h
  <2>3. \A j \in 1 .. h - b : H[b + j - 1] = G[b + j - 1]
    <3>1. ASSUME NEW j \in 1 .. h - b PROVE b + j - 1 \in 1 .. m
      <4>1. b \in Nat /\ b >= 1 /\ h \in Nat /\ h <= m /\ m \in Nat
        BY <1>1, <2>2
      <4>2. QED
        BY <4>1
    <3>2. QED
      BY <1>2, <3>1
  <2>4. Nested(r[i], H, b, h)
    BY <2>2, <2>3 DEF Nested
  <2>5. QED
    BY <2>4 DEF b, h
<1>13. Nested(s, H, m + 1, m + 1)
  <2>1. Len(s.saved) = 0 /\ m + 1 <= m + 1 /\ (m + 1) - (m + 1) = 0
    BY <1>1
  <2>2. QED
    BY <2>1 DEF Nested
<1>14. \A i \in 1 .. n + 2 : Nested(r[i], H, Bottom(E, i), Upper(r, H, E, i))
  <2>1. SUFFICES ASSUME NEW i \in 1 .. n + 2 PROVE Nested(r[i], H, Bottom(E, i), Upper(r, H, E, i))
    OBVIOUS
  <2>2. CASE i = n + 2
    <3>1. (n + 2) - 1 = n + 1 /\ n + 2 # 1
      BY <1>1
    <3>2. Bottom(E, i) = m + 1 /\ Upper(r, H, E, i) = m + 1 /\ r[i] = s
      BY <1>2, <1>3, <1>4, <2>2, <3>1 DEF Bottom, Upper
    <3>3. QED
      BY <1>13, <3>2
  <2>3. CASE i # n + 2
    <3>1. i \in 1 .. n + 1
      BY <1>8, <2>3
    <3>2. Upper(r, H, E, i) = E[i]
      BY <1>4, <2>3 DEF Upper
    <3>3. QED
      BY <1>12, <3>1, <3>2
  <2>4. QED
    BY <2>2, <2>3
<1>15. \A i \in 1 .. n + 1 : Suspended(r[i]) /\ r[i].gs.fill = H[E[i]]
  <2>1. SUFFICES ASSUME NEW i \in 1 .. n + 1 PROVE Suspended(r[i]) /\ r[i].gs.fill = H[E[i]]
    OBVIOUS
  <2>2. E[i] \in 1 .. m /\ H[E[i]] = G[E[i]] /\ r[i] = q[i]
    BY <1>2, <1>4, <1>9
  <2>3. CASE i = n + 1
    BY <1>3, <1>6, <2>2, <2>3
  <2>4. CASE i # n + 1
    <3>1. i \in 1 .. n
      BY <1>1, <2>4
    <3>2. QED
      BY <1>3, <1>5, <2>2, <3>1
  <2>5. QED
    BY <2>3, <2>4
<1>16. Len(r) = Len(E) + 1 /\ Len(H) >= 1 /\ H[1] = "black"
  BY <1>1, <1>2, <1>3, <1>4, <1>5
<1>17. QED
  BY <1>1, <1>2, <1>3, <1>4, <1>7, <1>10, <1>14, <1>15, <1>16 DEF Framed

\* The end of a form that has the graphics state it began with, and of which
\* the stream below takes up again where it was left.
LEMMA FramedEnd ==
  ASSUME NEW q, NEW G, NEW F, Framed(q, G, F), F # << >>, Len(G) = Last(F) + 1
  PROVE  LET r == Front(q)  H == Front(G)  E == Front(F) IN
         /\ Framed(r, H, E) /\ Suspended(Last(r)) /\ Last(r).gs.fill = Last(H)
         /\ Len(H) >= 2 /\ Len(E) = Len(F) - 1 /\ r # << >>
<1> DEFINE n == Len(F)
           m == Len(G)
           r == Front(q)
           H == Front(G)
           E == Front(F)
<1>1. /\ q \in Seq(Stream) /\ G \in Seq(Color) /\ F \in Seq(Nat)
      /\ n \in Nat /\ n >= 1 /\ m \in Nat /\ Len(q) = n + 1 /\ m >= 1
      /\ \A i \in 1 .. n : F[i] \in Nat
  BY FramedFacts
<1>2. /\ H \in Seq(Color) /\ Len(H) = m - 1 /\ \A k \in 1 .. m - 1 : H[k] = G[k]
  <2>1. G \in Seq(Color) /\ Len(G) >= 1 /\ H = Front(G)
    BY <1>1
  <2> HIDE DEF H
  <2>2. QED
    BY <2>1, Popped
<1>3. /\ E \in Seq(Nat) /\ Len(E) = n - 1 /\ Last(F) = F[n] /\ \A i \in 1 .. n - 1 : E[i] = F[i]
  <2> DEFINE S == Nat
  <2>1. F \in Seq(S) /\ Len(F) >= 1 /\ E = Front(F) /\ Len(F) = n
    BY <1>1
  <2> HIDE DEF E, n, S
  <2>2. E \in Seq(S) /\ Len(E) = Len(F) - 1 /\ Last(F) = F[Len(F)] /\ \A i \in 1 .. Len(F) - 1 : E[i] = F[i]
    BY <2>1, Popped
  <2>3. QED
    BY <2>1, <2>2 DEF S
<1>4. /\ r \in Seq(Stream) /\ Len(r) = n /\ \A i \in 1 .. n : r[i] = q[i]
  <2>1. Len(q) >= 1 /\ Len(q) - 1 = n /\ q \in Seq(Stream) /\ r = Front(q)
    BY <1>1
  <2> HIDE DEF r, n
  <2>2. r \in Seq(Stream) /\ Len(r) = Len(q) - 1 /\ \A i \in 1 .. Len(q) - 1 : r[i] = q[i]
    BY <2>1, Popped
  <2>3. QED
    BY <2>1, <2>2
<1>5. /\ G[1] = "black" /\ \A i \in 1 .. n : 2 <= F[i] /\ F[i] < m
      /\ \A i, j \in 1 .. n : i < j => F[i] < F[j]
      /\ \A i \in 1 .. n + 1 : Nested(q[i], G, Bottom(F, i), Upper(q, G, F, i))
      /\ \A i \in 1 .. n : Suspended(q[i]) /\ q[i].gs.fill = G[F[i]]
  BY <1>1 DEF Framed
<1>6. F[n] = m - 1 /\ n \in 1 .. n /\ m - 1 >= 2
  BY <1>1, <1>3, <1>5
<1> HIDE DEF n, m, r, H, E
<1>7. \A i \in 1 .. n - 1 : 2 <= E[i] /\ E[i] < m - 1 /\ E[i] \in Nat
  <2>1. SUFFICES ASSUME NEW i \in 1 .. n - 1 PROVE 2 <= E[i] /\ E[i] < m - 1 /\ E[i] \in Nat
    OBVIOUS
  <2>2. i \in 1 .. n /\ i < n
    BY <1>1
  <2>3. QED
    BY <1>1, <1>3, <1>5, <1>6, <2>2
<1>8. \A i, j \in 1 .. n - 1 : i < j => E[i] < E[j]
  <2>1. SUFFICES ASSUME NEW i \in 1 .. n - 1, NEW j \in 1 .. n - 1, i < j PROVE E[i] < E[j]
    OBVIOUS
  <2>2. i \in 1 .. n /\ j \in 1 .. n
    BY <1>1
  <2>3. QED
    BY <1>3, <1>5, <2>1, <2>2
<1>9. \A i \in 1 .. n : Nested(r[i], H, Bottom(E, i), Upper(r, H, E, i))
  <2>1. SUFFICES ASSUME NEW i \in 1 .. n PROVE Nested(r[i], H, Bottom(E, i), Upper(r, H, E, i))
    OBVIOUS
  <2>2. Bottom(F, i) \in Nat /\ Bottom(F, i) >= 1 /\ Upper(q, G, F, i) = F[i] /\ i \in 1 .. n + 1
    <3>1. i \in 1 .. Len(q) /\ i \in 1 .. n + 1
      BY <1>1
    <3>2. Bottom(F, i) \in Nat /\ Bottom(F, i) >= 1
      BY <3>1, FramedFacts
    <3>3. Upper(q, G, F, i) = F[i]
      BY BottomBelow DEF n
    <3>4. QED
      BY <3>1, <3>2, <3>3
  <2>3. Bottom(E, i) = Bottom(F, i)
    <3>1. i # 1 => E[i - 1] = F[i - 1]
      BY <1>1, <1>3
    <3>2. QED
      BY <3>1 DEF Bottom
  <2>4. Upper(r, H, E, i) = F[i]
    <3>1. CASE i = n
      BY <1>2, <1>4, <1>6, <3>1 DEF Upper
    <3>2. CASE i # n
      <4>1. i \in 1 .. n - 1
        BY <1>1, <3>2
      <4>2. QED
        BY <1>3, <1>4, <3>2, <4>1 DEF Upper
    <3>3. QED
      BY <3>1, <3>2
  <2> DEFINE b == Bottom(F, i)
             h == F[i]
  <2>5. Nested(q[i], G, b, h) /\ h \in Nat /\ h <= m - 1 /\ b \in Nat /\ b >= 1
    <3>1. Nested(q[i], G, b, h)
      BY <1>5, <2>2
    <3>2. h \in Nat /\ h < m
      BY <1>1, <1>5
    <3>3. QED
      BY <1>1, <2>2, <3>1, <3>2
  <2> HIDE DEF b, h
  <2>6. \A j \in 1 .. h - b : H[b + j - 1] = G[b + j - 1]
    <3>1. ASSUME NEW j \in 1 .. h - b PROVE b + j - 1 \in 1 .. m - 1
      BY <1>1, <2>5
    <3>2. QED
      BY <1>2, <3>1
  <2>7. Nested(r[i], H, b, h)
    BY <1>4, <2>5, <2>6 DEF Nested
  <2>8. QED
    BY <2>3, <2>4, <2>7 DEF b, h
<1>10. \A i \in 1 .. n - 1 : Suspended(r[i]) /\ r[i].gs.fill = H[E[i]]
  <2>1. SUFFICES ASSUME NEW i \in 1 .. n - 1 PROVE Suspended(r[i]) /\ r[i].gs.fill = H[E[i]]
    OBVIOUS
  <2>2. i \in 1 .. n /\ E[i] \in 1 .. m - 1
    BY <1>1, <1>7
  <2>3. H[E[i]] = G[F[i]]
    BY <1>2, <1>3, <2>2
  <2>4. QED
    BY <1>4, <1>5, <2>2, <2>3
<1>11. Suspended(Last(r)) /\ Last(r).gs.fill = Last(H)
  <2>1. Last(r) = r[n] /\ Last(H) = H[m - 1] /\ m - 1 \in 1 .. m - 1
    BY <1>1, <1>2, <1>4, <1>6 DEF Last
  <2>2. QED
    BY <1>2, <1>4, <1>5, <1>6, <2>1
<1>12. Framed(r, H, E)
  <2>1. Len(r) = Len(E) + 1 /\ Len(H) >= 1 /\ H[1] = "black"
    BY <1>1, <1>2, <1>3, <1>4, <1>5, <1>6, SMTT(30)
  <2>2. \A i \in 1 .. Len(E) : 2 <= E[i] /\ E[i] < Len(H)
    BY <1>2, <1>3, <1>7
  <2>3. QED
    BY <1>2, <1>3, <1>4, <1>8, <1>9, <1>10, <2>1, <2>2 DEF Framed
<1>13. Len(H) >= 2 /\ Len(E) = n - 1 /\ r # << >>
  BY <1>1, <1>2, <1>3, <1>4, <1>6
<1>14. QED
  BY <1>11, <1>12, <1>13 DEF n, r, H, E(***************************************************************************)
(* Steps of a page that leave its stack of graphics states as high as it    *)
(* was.                                                                     *)
(***************************************************************************)
LEMMA RecoloredOn ==
  ASSUME NEW d, NEW e, NEW f, Recolored(d, e), Recolored(e, f)
  PROVE  Recolored(d, f)
BY DEF Recolored

\* Text may be shown, and whatever else Draws allows.
LEMMA DrawnIs ==
  ASSUME NEW d, Steady(d), NEW e, Sound(e), Draws(d, e), Settled(e)
  PROVE  /\ Steady(e) /\ Keeps(d, e) /\ e.gs = d.gs /\ Here(e) = Here(d)
         /\ Tinted(d) => Tinted(e) /\ Recolored(d, e)
<1>1. Shaped(e) /\ Keeps(d, e) /\ e.gs = d.gs /\ (Filled(d) => Filled(e))
  BY ShapedDraws DEF Steady
<1>2. Steady(e)
  BY <1>1, SteadyOn DEF Steady
<1>3. Here(e) = Here(d) /\ e.cs = d.cs /\ e.forms = d.forms /\ Len(e.out) = Len(d.out)
  BY <1>1 DEF Keeps, Here
<1>4. QED
  BY <1>1, <1>2, <1>3 DEF Tinted, Recolored

\* pdf_dev_set_string on a page.
LEMMA ShownIs ==
  ASSUME NEW d, Steady(d), NEW f \in Font, NEW gap \in {"none", "kern", "far"}, NEW e, e = SetString(d, f, gap)
  PROVE  /\ Steady(e) /\ Keeps(d, e) /\ e.gs = d.gs /\ Here(e) = Here(d)
         /\ Tinted(d) => Tinted(e) /\ Recolored(d, e)
<1>1. Sound(e) /\ Draws(d, e) /\ e.font # NoFont
  BY SetStringIs DEF Steady
<1>2. Settled(e)
  BY <1>1 DEF Settled
<1>3. QED
  BY <1>1, <1>2, DrawnIs

\* graphics_mode() on a page.
LEMMA LeftText ==
  ASSUME NEW d, Steady(d), Tinted(d), NEW e, e = GraphicsMode(d)
  PROVE  Recolored(d, e) /\ Ready(e) /\ Keeps(d, e) /\ e.gs = d.gs
<1>1. Steady(e) /\ Ready(e) /\ Keeps(d, e) /\ e.gs = d.gs /\ Here(e) = Here(d) /\ Tinted(e)
  BY SteadyGraphics
<1>2. QED
  BY <1>1 DEF Recolored, Keeps

\* What is the same stream and the same device for all that matters is right.
LEMMA StillSound ==
  ASSUME NEW d, Ready(d), NEW e \in Device, e.out # << >>, SameText(d, e), SameStreams(d, e), SameRest(d, e),
         Top(e).text = Top(d).text, Top(e).string = Top(d).string, Top(e).res = Top(d).res,
         Top(e).bad = Top(d).bad, Top(e).gs = Top(d).gs, Top(e).saved = Top(d).saved
  PROVE  Sound(e) /\ Draws(d, e) /\ e.motion = "graphics"
<1>1. d.motion = "graphics" /\ TextRight(d) /\ FontRight(d)
  BY DEF Ready, Sound
<1>2. /\ e.motion = "graphics" /\ e.font = d.font /\ e.slanted = d.slanted /\ e.rotate = d.rotate
      /\ e.bold = d.bold /\ e.mb = d.mb /\ e.reset = d.reset /\ e.used = d.used /\ e.dir = d.dir
  BY <1>1 DEF SameText, SameRest
<1>3. FontRight(e)
  BY <1>1, <1>2 DEF FontRight
<1>4. TextRight(e)
  BY <1>1, <1>2 DEF TextRight
<1>5. Draws(d, e)
  BY DEF Draws, Kept
<1>6. QED
  BY <1>2, <1>3, <1>4, <1>5 DEF Sound

\* re f, Do, BDC and EMC.
LEMMA PaintedIs ==
  ASSUME NEW d, Ready(d), NEW e, e = Emit(d, [op |-> "paint"])
  PROVE  Sound(e) /\ Draws(d, e) /\ e.motion = "graphics"
<1> DEFINE s == Top(d)
           op == [op |-> "paint"]
<1>1. d \in Device /\ d.out # << >> /\ s \in Stream /\ s.text = FALSE
  BY TopNested DEF Ready, Sound, TextRight
<1> HIDE DEF s
<1>2. Exec(s, op) = s /\ Exec(s, op) \in Stream
  BY <1>1, ExecPaint
<1>3. /\ e \in Device /\ e.out # << >> /\ Top(e) = s
      /\ SameText(d, e) /\ SameStreams(d, e) /\ SameRest(d, e)
  BY <1>1, <1>2, EmitIs DEF s
<1>4. QED
  BY <1>3, StillSound DEF s

\* Something painted between q and Q.
LEMMA BetweenIs ==
  ASSUME NEW d, Ready(d), NEW e, e = Between(d, [op |-> "paint"])
  PROVE  Sound(e) /\ Draws(d, e) /\ e.motion = "graphics"
<1> DEFINE s == Top(d)
           x == Emit(d, [op |-> "q"])
           y == Emit(x, [op |-> "paint"])
           t == Exec(s, [op |-> "q"])
           u == Exec(t, [op |-> "Q"])
<1>1. d \in Device /\ d.out # << >> /\ s \in Stream /\ s.text = FALSE /\ s.string = "none" /\ s.gs \in Gstate /\ s.saved \in Seq(Gstate)
  BY TopNested, StreamFields DEF Ready, Sound, TextRight
<1>2. e = Emit(y, [op |-> "Q"])
  BY DEF Between
<1> HIDE DEF s, x, y, t, u
<1>3. /\ t \in Stream /\ t.saved = Append(s.saved, s.gs) /\ t.bad = s.bad /\ t.text = s.text
      /\ t.string = s.string /\ t.res = s.res /\ t.gs = s.gs
  BY <1>1, Exec_q DEF t
<1>4. /\ t.saved # << >> /\ Last(t.saved) = s.gs /\ Front(t.saved) = s.saved
  <2> DEFINE r == s.saved
             w == t.saved
             g == s.gs
  <2>1. r \in Seq(Gstate) /\ g \in Gstate /\ w = Append(r, g)
    BY <1>1, <1>3
  <2> HIDE DEF r, w, g
  <2>2. w \in Seq(Gstate) /\ Len(w) = Len(r) + 1 /\ w[Len(r) + 1] = g /\ Len(r) \in Nat
        /\ \A i \in 1 .. Len(r) : w[i] = r[i]
    BY <2>1
  <2>3. Last(w) = g /\ w # << >>
    BY <2>2 DEF Last
  <2>4. Front(w) \in Seq(Gstate) /\ Len(Front(w)) = Len(r) /\ \A i \in 1 .. Len(r) : Front(w)[i] = w[i]
    <3>1. Len(w) >= 1 /\ Len(w) - 1 = Len(r)
      BY <2>2
    <3> DEFINE v == Front(w)
    <3>2. v = Front(w)
      OBVIOUS
    <3> HIDE DEF v
    <3>3. v \in Seq(Gstate) /\ Len(v) = Len(w) - 1 /\ \A i \in 1 .. Len(w) - 1 : v[i] = w[i]
      BY <2>2, <3>1, <3>2, Popped
    <3>4. QED
      BY <3>1, <3>3 DEF v
  <2> DEFINE v == Front(w)
  <2>5. v \in Seq(Gstate) /\ Len(v) = Len(r) /\ \A i \in 1 .. Len(r) : v[i] = r[i]
    BY <2>2, <2>4
  <2> HIDE DEF v
  <2>6. v = r
    BY <2>1, <2>5
  <2>7. QED
    BY <2>3, <2>6 DEF r, w, g, v
<1>5. /\ u \in Stream /\ u.saved = s.saved /\ u.bad = s.bad /\ u.text = s.text
      /\ u.string = s.string /\ u.res = s.res /\ u.gs = s.gs
  BY <1>1, <1>3, <1>4, Exec_Q DEF u
<1>6. /\ x \in Device /\ x.out # << >> /\ Top(x) = t
      /\ SameText(d, x) /\ SameStreams(d, x) /\ SameRest(d, x)
  BY <1>1, <1>3, EmitIs DEF s, x, t
<1>7. /\ y \in Device /\ y.out # << >> /\ Top(y) = t
      /\ SameText(x, y) /\ SameStreams(x, y) /\ SameRest(x, y)
  <2>1. Exec(t, [op |-> "paint"]) = t /\ Exec(t, [op |-> "paint"]) \in Stream
    BY <1>1, <1>3, ExecPaint
  <2>2. QED
    BY <1>6, <2>1, EmitIs DEF y
<1>8. /\ e \in Device /\ e.out # << >> /\ Top(e) = u
      /\ SameText(y, e) /\ SameStreams(y, e) /\ SameRest(y, e)
  BY <1>2, <1>5, <1>7, EmitIs DEF u
<1>9. SameText(d, e) /\ SameStreams(d, e) /\ SameRest(d, e)
  BY <1>6, <1>7, <1>8 DEF SameText, SameStreams, SameRest
<1>10. QED
  BY <1>5, <1>8, <1>9, StillSound DEF s

\* Something that keeps the stack of graphics states, between gsave and
\* grestore: the colour of before is the colour of after.
LEMMA Bracketed ==
  ASSUME NEW d, Ready(d), Steady(d), Tinted(d), NEW x, x = Gsave(d),
         NEW y, Ready(y), Keeps(x, y), y.gs = x.gs, NEW e, e = Grestore(y)
  PROVE  Recolored(d, e) /\ Ready(e)
<1>1. Ready(x) /\ Keeps(d, x) /\ x.gs = Append(d.gs, Last(d.gs))
  BY GsaveIs DEF Tinted
<1>2. /\ d.gs \in Seq(Color) /\ Last(d.gs) \in Color /\ Len(d.gs) \in Nat /\ Here(d) \in Nat
      /\ Here(d) <= Len(d.gs) /\ Len(d.gs) >= 2
  BY TopNested DEF Steady
<1> DEFINE G == d.gs
           H == y.gs
           E == Front(H)
<1>3. G \in Seq(Color) /\ H = Append(G, Last(G)) /\ Last(G) \in Color
  BY <1>1, <1>2
<1>4. Keeps(d, y) /\ Here(y) = Here(d)
  BY <1>1 DEF Keeps, Here
<1> HIDE DEF G, H
<1>5. H \in Seq(Color) /\ Len(H) = Len(G) + 1 /\ Len(G) \in Nat /\ \A k \in 1 .. Len(G) : H[k] = G[k]
  BY <1>3
<1>6. E = G
  <2>1. Len(H) >= 1 /\ Len(H) - 1 = Len(G) /\ E = Front(H)
    BY <1>5
  <2> HIDE DEF E
  <2>2. E \in Seq(Color) /\ Len(E) = Len(H) - 1 /\ \A k \in 1 .. Len(H) - 1 : E[k] = H[k]
    BY <1>5, <2>1, Popped
  <2>3. Len(E) = Len(G) /\ \A k \in 1 .. Len(G) : E[k] = G[k]
    BY <1>5, <2>1, <2>2
  <2>4. QED
    BY <1>3, <2>2, <2>3
<1>7. Len(y.gs) > Here(y)
  BY <1>2, <1>4, <1>5 DEF G, H
<1>8. Ready(e) /\ Filled(e) /\ Keeps(y, e) /\ e.gs = d.gs /\ Here(e) = Here(d)
  <2>1. Ready(e) /\ Filled(e) /\ Keeps(y, e) /\ e.gs = Front(y.gs) /\ Here(e) = Here(y)
    BY <1>7, GrestoreIs
  <2>2. QED
    BY <1>4, <1>6, <2>1 DEF G, H
<1>9. Keeps(d, e)
  BY <1>4, <1>8, KeepsOn
<1>10. Steady(e)
  <2>1. Sound(e) /\ Shaped(e) /\ Settled(e) /\ Len(e.gs) >= 2
    BY <1>2, <1>8 DEF Ready, Settled
  <2>2. QED
    BY <1>9, <2>1, SteadyOn
<1>11. Tinted(e)
  BY <1>8, <1>9 DEF Tinted, Keeps
<1>12. QED
  BY <1>8, <1>9, <1>10, <1>11 DEF Recolored, Keeps(***************************************************************************)
(* The invariant, and the actions.                                          *)
(***************************************************************************)
\* Between pages.
Resting(d) ==
  /\ d \in Device /\ FontRight(d) /\ d.motion = "graphics" /\ d.used = {}
  /\ d.out = << >> /\ d.forms = << >> /\ d.gs = << "black" >>
  /\ Len(d.cs) \in 1 .. ColorMax /\ d.bad = {}

Right(d) == Steady(d) /\ Tinted(d) /\ Len(d.gs) <= MaxDepth
DevInv == IF p.out = << >> THEN Resting(p) ELSE Right(p)

LEMMA RightOn ==
  ASSUME NEW d, Right(d), NEW e, Recolored(d, e)
  PROVE  Right(e)
BY DEF Right, Recolored

LEMMA InitResting ==
  ASSUME NEW d, d \in {InitDevice, [InitDevice EXCEPT !.failed = TRUE]}
  PROVE  Resting(d)
<1>1. /\ d.motion = "graphics" /\ d.font = NoFont /\ d.slanted = FALSE /\ d.rotate = 0 /\ d.bold = FALSE
      /\ d.mb = FALSE /\ d.reset = FALSE /\ d.dir = 0 /\ d.used = {} /\ d.gs = << "black" >>
      /\ d.cs = << "black" >> /\ d.out = << >> /\ d.forms = << >> /\ d.bad = {}
  BY DEF InitDevice, HH
<1>2. d \in Device
  <2>1. << "black" >> \in Seq(Color) /\ << >> \in Seq(Stream) /\ << >> \in Seq(Nat) /\ 0 \in Dirs
    BY DevAssumption
  <2>2. {} \in SUBSET Font /\ {} \in SUBSET Kind /\ NoFont \in AnyFont /\ 0 \in Angle
    BY DEF AnyFont, Angle
  <2>3. InitDevice \in Device
    BY <2>1, <2>2 DEF Device, InitDevice, HH
  <2>4. [InitDevice EXCEPT !.failed = TRUE] \in Device
    BY <2>3 DEF Device
  <2>5. QED
    BY <2>3, <2>4
<1>3. FontRight(d)
  BY <1>1 DEF FontRight
<1>4. Len(d.cs) \in 1 .. ColorMax
  <2>1. d.cs = << "black" >>
    BY <1>1
  <2>2. Len(<< "black" >>) \in 1 .. ColorMax
    BY DevAssumption
  <2>3. QED
    BY <2>1, <2>2
<1>5. QED
  BY <1>1, <1>2, <1>3, <1>4 DEF Resting

\* A stream that nothing has been written to.
LEMMA BlankIs ==
  ASSUME NEW c \in Color \cup {"inherited"}, NEW s, s = Blank(c)
  PROVE  /\ s \in Stream /\ s.text = FALSE /\ s.string = "none" /\ s.res = {} /\ s.bad = {}
         /\ s.saved = << >> /\ s.gs.bold = FALSE /\ s.gs.fill = c
<1>1. Identity \in Tm /\ [font |-> NoFont, bold |-> FALSE, fill |-> c] \in Gstate
  BY IdentityType DEF Gstate, AnyFont
<1>2. << >> \in Seq(Gstate)
  OBVIOUS
<1>3. QED
  BY <1>1, <1>2 DEF Blank, Stream

\* A device made of a stream outside of text and a stack is ready.
LEMMA Opened ==
  ASSUME NEW d \in Device, d.out # << >>, Suspended(Top(d)), Shaped(d), d.used = {},
         d.motion = "graphics", FontRight(d)
  PROVE  Ready(d)
<1>1. d.bold = FALSE /\ d.reset = FALSE
  BY DeviceFields DEF FontRight
<1>2. TextRight(d)
  BY <1>1 DEF TextRight, Suspended
<1>3. QED
  BY <1>2 DEF Ready, Sound

\* Outside of text, pdf_dev_reset_fonts: also right in a stream that it is the
\* first to see.
LEMMA FontsForgotten ==
  ASSUME NEW f \in Device, f.motion = "graphics", f.reset = FALSE, NEW y, y = ResetFonts(f, TRUE)
  PROVE  /\ y \in Device /\ FontRight(y) /\ y.used = {} /\ y.motion = "graphics" /\ y.out = f.out /\ SameRest(f, y)
<1>1. y = [f EXCEPT !.used = {}, !.font = NoFont, !.slanted = FALSE, !.rotate = HH, !.bold = FALSE, !.mb = FALSE]
  <2>1. (f.bold /\ ~TRUE) = FALSE
    BY DeviceFields
  <2>2. QED
    BY <2>1 DEF ResetFonts
<1>2. /\ y \in Device /\ y.out = f.out /\ SameRest(f, y)
      /\ y.motion = "graphics" /\ y.font = NoFont /\ y.slanted = FALSE /\ y.rotate = 0
      /\ y.bold = FALSE /\ y.mb = FALSE /\ y.reset = FALSE /\ y.used = {}
  BY <1>1 DEF Device, SameRest, AnyFont, HH, Angle
<1>3. FontRight(y)
  BY <1>2 DEF FontRight
<1>4. QED
  BY <1>2, <1>3

\* pdf_doc_begin_page and pdf_dev_bop.
LEMMA BeginPageIs ==
  ASSUME DevInv, BeginPage
  PROVE  Right(p')
<1> DEFINE s == Blank("black")
           x == SetDirMode(p, 0)
           b == [x EXCEPT !.out = << s >>]
           d == [GraphicsMode(b) EXCEPT !.reset = FALSE]
           g == Gsave(d)
           f == ResetFonts(g, TRUE)
<1>1. Resting(p) /\ p.failed = FALSE /\ p' = ResetColor(f, FALSE)
  <2>1. p \in Device
    BY DEF BeginPage, DevInv, Resting
  <2>2. QED
    BY <2>1, DeviceFields DEF BeginPage, DevInv
<1>2. /\ s \in Stream /\ s.text = FALSE /\ s.string = "none" /\ s.res = {} /\ s.bad = {}
      /\ s.saved = << >> /\ s.gs.bold = FALSE /\ s.gs.fill = "black" /\ "black" \in Color
  BY BlankIs, DevAssumption
<1> HIDE DEF s, x
<1>3. /\ x \in Device /\ FontRight(x) /\ x.motion = "graphics" /\ x.used = {} /\ x.gs = << "black" >>
      /\ x.cs = p.cs /\ x.forms = << >> /\ x.bad = {} /\ x.failed = FALSE
  BY <1>1, DevAssumption, SetDirModeIs DEF x, Resting, Settled
<1>4. /\ b \in Device /\ b.out = << s >> /\ FontRight(b) /\ b.motion = "graphics" /\ b.used = {}
      /\ b.gs = << "black" >> /\ b.cs = p.cs /\ b.forms = << >> /\ b.bad = {} /\ b.failed = FALSE
  <2>1. << s >> \in Seq(Stream)
    BY <1>2
  <2>2. /\ b \in Device /\ b.out = << s >> /\ b.motion = "graphics" /\ b.used = {} /\ b.gs = << "black" >>
        /\ b.cs = p.cs /\ b.forms = << >> /\ b.bad = {} /\ b.failed = FALSE
        /\ b.font = x.font /\ b.slanted = x.slanted /\ b.rotate = x.rotate /\ b.bold = x.bold
        /\ b.mb = x.mb /\ b.reset = x.reset /\ b.dir = x.dir
    BY <1>3, <2>1 DEF Device
  <2>3. FontRight(b)
    BY <1>3, <2>2 DEF FontRight
  <2>4. QED
    BY <2>2, <2>3
<1> HIDE DEF b
<1>5. d = b
  <2>1. b.reset = FALSE
    BY <1>4, DeviceFields DEF FontRight
  <2>2. d = [b EXCEPT !.reset = FALSE]
    BY <1>4 DEF GraphicsMode
  <2>3. QED
    BY <1>4, <2>1, <2>2 DEF Device
<1>6. Framed(<< s >>, << "black" >>, << >>)
  <2> DEFINE q == << s >>
             G == << "black" >>
             F == << >>
  <2>1. /\ q \in Seq(Stream) /\ G \in Seq(Color) /\ F \in Seq(Nat)
        /\ Len(q) = 1 /\ Len(F) = 0 /\ Len(G) = 1 /\ G[1] = "black" /\ q[1] = s
    BY <1>2
  <2> HIDE DEF q, G, F
  <2>2. Nested(q[1], G, 1, 1)
    BY <1>2, <2>1 DEF Nested
  <2>3. Bottom(F, 1) = 1 /\ Upper(q, G, F, 1) = 1
    BY <2>1 DEF Bottom, Upper
  <2>4. \A i \in 1 .. Len(q) : i = 1
    BY <2>1
  <2>5. \A i \in 1 .. Len(q) : Nested(q[i], G, Bottom(F, i), Upper(q, G, F, i))
    BY <2>2, <2>3, <2>4
  <2>6. 1 .. Len(F) = {}
    BY <2>1
  <2>7. Framed(q, G, F)
    BY <2>1, <2>5, <2>6 DEF Framed
  <2>8. QED
    BY <2>7 DEF q, G, F
<1>7. Ready(d) /\ Filled(d)
  <2>1. Top(b) = s /\ b.out # << >>
    BY <1>4 DEF Top, Last
  <2>2. Suspended(Top(b))
    BY <1>2, <2>1 DEF Suspended
  <2>3. Shaped(b)
    BY <1>4, <1>6 DEF Shaped
  <2>4. Ready(b)
    BY <1>4, <2>1, <2>2, <2>3, Opened
  <2>5. Filled(b)
    BY <1>2, <1>4, <2>1 DEF Filled, Last
  <2>6. QED
    BY <1>5, <2>4, <2>5
<1> HIDE DEF d, g, f
<1>8. Ready(g) /\ Filled(g) /\ Keeps(d, g) /\ g.gs = Append(d.gs, Last(d.gs))
  BY <1>7, GsaveIs DEF g
<1>9. Ready(f) /\ Filled(f) /\ Keeps(g, f) /\ f.gs = g.gs
  BY <1>8, ReadyReset DEF f
<1>10. Len(f.gs) = 2
  BY <1>4, <1>5, <1>8, <1>9
<1>11. Steady(f)
  <2>1. f.cs = p.cs /\ f.forms = << >> /\ f.bad = {} /\ f.failed = FALSE
    BY <1>4, <1>5, <1>8, <1>9 DEF Keeps
  <2>2. Len(f.forms) <= MaxForms
    BY <2>1, DevAssumption
  <2>3. QED
    BY <1>1, <1>9, <1>10, <2>1, <2>2 DEF Steady, Ready, Settled, Resting
<1>12. Steady(p') /\ Tinted(p') /\ Len(p.gs') = Len(f.gs)
  BY <1>1, <1>9, <1>11, ResetColorIs
<1>13. QED
  BY <1>10, <1>12, DevAssumption DEF Right

\* The end of a stream that has given back what it had saved.
LEMMA NothingOpen ==
  ASSUME NEW d, Ready(d), Len(d.gs) = Here(d)
  PROVE  Ended(Top(d)) = {}
<1> DEFINE s == Top(d)
<1>1. s \in Stream /\ Nested(s, d.gs, Here(d), Len(d.gs)) /\ Here(d) \in Nat /\ s.text = FALSE /\ s.bad = {}
  BY TopNested DEF Ready, Sound, TextRight
<1> HIDE DEF s
<1>2. Len(s.saved) = 0 /\ s.saved \in Seq(Gstate)
  BY <1>1, StreamFields DEF Nested
<1>3. s.saved = << >>
  BY <1>2
<1>4. QED
  BY <1>1, <1>3 DEF Ended, Fault, s

\* pdf_dev_eop and pdf_doc_end_page.
LEMMA EndPageIs ==
  ASSUME DevInv, EndPage
  PROVE  Resting(p')
<1> DEFINE g == GraphicsMode(p)
           d == IF Len(g.gs) - 1 # 1 THEN GrestoreTo(g, 0) ELSE Grestore(g)
           e == [d EXCEPT !.bad = @ \cup Ended(d.out[1]), !.out = << >>]
<1>1. /\ Right(p) /\ p.forms = << >> /\ p' = e
  BY DEF EndPage, OnPage, InForm, DevInv
<1>2. Steady(p) /\ Tinted(p)
  BY <1>1 DEF Right
<1> HIDE DEF g, d, e
<1>3. Ready(g) /\ Keeps(p, g) /\ g.gs = p.gs /\ Filled(g)
  BY <1>2, SteadyGraphics DEF g, Tinted
<1>4. Len(g.out) = 1 /\ Here(g) = 1 /\ Len(g.gs) >= 2 /\ Len(g.gs) \in Nat
  <2>1. Len(p.out) = Len(p.forms) + 1 /\ Len(p.forms) = 0
    BY <1>1, <1>2 DEF Steady, Shaped, Framed
  <2>2. Len(g.out) = 1
    BY <1>3, <2>1 DEF Keeps
  <2>3. QED
    BY <1>2, <1>3, <2>2, TopNested DEF Here, Bottom, Steady, Ready
<1>5. Ready(d) /\ Filled(d) /\ Keeps(g, d) /\ Len(d.gs) = 1 /\ Here(d) = 1 /\ d.used = {}
  <2>1. CASE Len(g.gs) - 1 # 1
    <3>1. Here(g) = 0 + 1 /\ 0 \in Nat /\ d = GrestoreTo(g, 0)
      BY <1>4, <2>1 DEF d
    <3>2. Ready(d) /\ Filled(d) /\ Keeps(g, d) /\ Len(d.gs) = 0 + 1 /\ Here(d) = 0 + 1 /\ d.used = {}
      BY <1>3, <3>1, GrestoreToIs
    <3>3. QED
      BY <3>2
  <2>2. CASE ~(Len(g.gs) - 1 # 1)
    <3>1. d = Grestore(g) /\ Len(g.gs) > Here(g) /\ Len(g.gs) - 1 = 1
      BY <1>4, <2>2 DEF d
    <3>2. Ready(d) /\ Filled(d) /\ Keeps(g, d) /\ Len(d.gs) = Len(g.gs) - 1 /\ Here(d) = Here(g) /\ d.used = {}
      BY <1>3, <3>1, GrestoreIs
    <3>3. QED
      BY <1>4, <3>1, <3>2
  <2>3. QED
    BY <2>1, <2>2
<1>6. Ended(d.out[1]) = {}
  <2>1. Ended(Top(d)) = {}
    BY <1>5, NothingOpen
  <2>2. Len(d.out) = 1
    BY <1>4, <1>5 DEF Keeps
  <2>3. QED
    BY <2>1, <2>2 DEF Top, Last
<1>7. d.gs = << "black" >>
  <2>1. d.gs \in Seq(Color) /\ d.gs[1] = "black"
    BY <1>5, TopNested DEF Ready
  <2>2. QED
    BY <1>5, <2>1
<1>8. /\ d \in Device /\ FontRight(d) /\ d.motion = "graphics" /\ d.used = {} /\ d.gs = << "black" >>
      /\ d.forms = << >> /\ Len(d.cs) \in 1 .. ColorMax /\ d.bad = {}
  <2>1. d.forms = p.forms /\ d.cs = p.cs /\ d.bad = p.bad
    BY <1>3, <1>5 DEF Keeps
  <2>2. QED
    BY <1>1, <1>2, <1>5, <1>7, <2>1 DEF Ready, Sound, Steady
<1>9. e = [d EXCEPT !.bad = {}, !.out = << >>]
  BY <1>6, <1>8 DEF e
<1>10. << >> \in Seq(Stream)
  OBVIOUS
<1>11. /\ e \in Device /\ e.out = << >> /\ e.motion = "graphics" /\ e.used = {} /\ e.gs = << "black" >>
       /\ e.forms = << >> /\ e.cs = d.cs /\ e.bad = {}
       /\ e.font = d.font /\ e.slanted = d.slanted /\ e.rotate = d.rotate /\ e.bold = d.bold
       /\ e.mb = d.mb /\ e.reset = d.reset /\ e.dir = d.dir
  BY <1>8, <1>9, <1>10 DEF Device
<1>12. FontRight(e)
  BY <1>8, <1>11 DEF FontRight
<1>13. QED
  BY <1>1, <1>8, <1>11, <1>12 DEF Resting
LEMMA EndPageFailsIs ==
  ASSUME EndPageFails
  PROVE  Resting(p')
BY InitResting DEF EndPageFails

\* pdf_dev_set_string and pdf_dev_set_dirmode.
LEMMA StringIs ==
  ASSUME Right(p), String
  PROVE  Right(p')
<1>1. PICK f \in Font, gap \in {"none", "kern", "far"} : p' = SetString(p, f, gap)
  BY DEF String
<1>2. Recolored(p, p')
  BY <1>1, ShownIs DEF Right
<1>3. QED
  BY <1>2, RightOn

LEMMA DirChangeIs ==
  ASSUME Right(p), DirChange
  PROVE  Right(p')
<1>1. PICK dir \in Dirs : p' = SetDirMode(p, dir)
  BY DEF DirChange
<1>2. Steady(p) /\ Sound(p) /\ Settled(p) /\ p \in Device /\ FontRight(p) /\ TextRight(p) /\ p.out # << >>
  BY DEF Right, Steady, Sound
<1> DEFINE e == p'
<1>3. /\ e \in Device /\ FontRight(e) /\ Settled(e) /\ TextRight(e)
      /\ e.out = p.out /\ e.gs = p.gs /\ e.cs = p.cs /\ e.forms = p.forms /\ e.bad = p.bad
      /\ e.failed = p.failed
  BY <1>1, <1>2, SetDirModeIs
<1> HIDE DEF e
<1>4. Sound(e) /\ Shaped(e) /\ Top(e) = Top(p)
  BY <1>2, <1>3 DEF Sound, Shaped, Steady, Top
<1>5. Steady(e) /\ Tinted(e)
  BY <1>3, <1>4 DEF Right, Steady, Tinted, Filled
<1>6. QED
  BY <1>3, <1>5 DEF Right, e

\* pdf_dev_set_rule and pdf:content.
LEMMA BetweenStep ==
  ASSUME Right(p), p' = Between(GraphicsMode(p), [op |-> "paint"])
  PROVE  Right(p')
<1> DEFINE g == GraphicsMode(p)
           e == p'
<1>1. Recolored(p, g) /\ Ready(g)
  BY LeftText DEF Right
<1>2. e = Between(g, [op |-> "paint"])
  OBVIOUS
<1> HIDE DEF g, e
<1>3. Sound(e) /\ Draws(g, e) /\ e.motion = "graphics"
  BY <1>1, <1>2, BetweenIs
<1>4. Recolored(g, e)
  BY <1>1, <1>3, DrawnIs DEF Recolored, Settled
<1>5. QED
  BY <1>1, <1>4, RecoloredOn, RightOn DEF e

\* A colour, if there is one, a translucent group, if there is one, and the
\* glyphs.
LEMMA Tagged ==
  ASSUME NEW d, Steady(d), Tinted(d), NEW e, e = Emit(GraphicsMode(d), [op |-> "paint"])
  PROVE  Recolored(d, e)
<1> DEFINE g == GraphicsMode(d)
<1>1. Recolored(d, g) /\ Ready(g) /\ e = Emit(g, [op |-> "paint"])
  BY LeftText
<1> HIDE DEF g
<1>2. Sound(e) /\ Draws(g, e) /\ e.motion = "graphics"
  BY <1>1, PaintedIs
<1>3. Recolored(g, e)
  BY <1>1, <1>2, DrawnIs DEF Recolored, Settled
<1>4. QED
  BY <1>1, <1>3, RecoloredOn

LEMMA GlyphsShown ==
  ASSUME NEW b, Steady(b), Tinted(b), NEW f \in Font, NEW clear \in BOOLEAN, NEW c, NEW d,
         c = SetString(IF clear THEN Gsave(GraphicsMode(b)) ELSE b, f, "far"),
         d = IF clear THEN Grestore(GraphicsMode(c)) ELSE c
  PROVE  Recolored(b, d)
<1>1. CASE clear
  <2> DEFINE g == GraphicsMode(b)
             x == Gsave(g)
             y == GraphicsMode(c)
  <2>1. c = SetString(x, f, "far") /\ d = Grestore(y)
    BY <1>1
  <2>2. Recolored(b, g) /\ Ready(g)
    BY LeftText
  <2>3. Steady(g) /\ Tinted(g) /\ Filled(g)
    BY <2>2 DEF Recolored, Tinted
  <2> HIDE DEF g, x
  <2>4. Ready(x) /\ Filled(x) /\ Keeps(g, x) /\ x.gs = Append(g.gs, Last(g.gs))
    BY <2>2, <2>3, GsaveIs DEF x
  <2>5. Steady(x)
    <3>1. g.gs \in Seq(Color) /\ Last(g.gs) \in Color /\ Len(g.gs) >= 2
      BY <2>3, TopNested DEF Steady
    <3>2. Len(x.gs) >= 2
      BY <2>4, <3>1
    <3>3. Sound(x) /\ Shaped(x) /\ Settled(x)
      BY <2>4 DEF Ready, Settled
    <3>4. QED
      BY <2>3, <2>4, <3>2, <3>3, SteadyOn
  <2>6. Steady(c) /\ Keeps(x, c) /\ c.gs = x.gs
    BY <2>1, <2>5, ShownIs
  <2>7. Ready(y) /\ Keeps(c, y) /\ y.gs = c.gs
    BY <2>6, SteadyGraphics
  <2> HIDE DEF y
  <2>8. Keeps(x, y) /\ y.gs = x.gs
    BY <2>6, <2>7, KeepsOn
  <2>9. Recolored(g, d)
    BY <2>1, <2>2, <2>3, <2>7, <2>8, Bracketed DEF x
  <2>10. QED
    BY <2>2, <2>9, RecoloredOn
<1>2. CASE ~clear
  <2>1. d = SetString(b, f, "far")
    BY <1>2
  <2>2. QED
    BY <2>1, ShownIs
<1>3. QED
  BY <1>1, <1>2

LEMMA GlyphsIs ==
  ASSUME Right(p), Glyphs
  PROVE  Right(p')
<1>1. PICK f \in Composite, span, clear \in BOOLEAN, tint \in Color \cup {"no tint"} :
     /\ clear => tint # "no tint"
     /\ LET a == IF span THEN Emit(GraphicsMode(p), [op |-> "paint"]) ELSE p
            b == IF tint = "no tint" THEN a ELSE ColorPush(a, tint)
            c == SetString(IF clear THEN Gsave(GraphicsMode(b)) ELSE b, f, "far")
            d == IF clear THEN Grestore(GraphicsMode(c)) ELSE c
            e == IF tint = "no tint" THEN d ELSE ColorPop(d)
        IN p' = IF span THEN Emit(GraphicsMode(e), [op |-> "paint"]) ELSE e
  BY Zenon DEF Glyphs
<1> DEFINE a == IF span THEN Emit(GraphicsMode(p), [op |-> "paint"]) ELSE p
           b == IF tint = "no tint" THEN a ELSE ColorPush(a, tint)
           c == SetString(IF clear THEN Gsave(GraphicsMode(b)) ELSE b, f, "far")
           d == IF clear THEN Grestore(GraphicsMode(c)) ELSE c
           e == IF tint = "no tint" THEN d ELSE ColorPop(d)
           r == p'
<1>2. r = IF span THEN Emit(GraphicsMode(e), [op |-> "paint"]) ELSE e
  BY <1>1
<1> HIDE DEF a, b, c, d, e, r
<1>3. Recolored(p, p)
  BY DEF Right, Recolored
<1>4. Recolored(p, a)
  BY <1>3, Tagged DEF Right, a
<1>5. Recolored(p, b)
  <2>1. CASE tint = "no tint"
    BY <1>4, <2>1 DEF b
  <2>2. CASE tint # "no tint"
    <3>1. tint \in Color /\ b = ColorPush(a, tint)
      BY <2>2 DEF b
    <3>2. Steady(a) /\ Tinted(a)
      BY <1>4 DEF Recolored
    <3>3. Recolored(a, b)
      BY <3>1, <3>2, ColorPushIs
    <3>4. QED
      BY <1>4, <3>3, RecoloredOn
  <2>3. QED
    BY <2>1, <2>2
<1>6. Recolored(p, d)
  <2>1. f \in Font
    BY DevAssumption
  <2>2. Steady(b) /\ Tinted(b)
    BY <1>5 DEF Recolored
  <2>3. Recolored(b, d)
    BY <2>1, <2>2, GlyphsShown DEF c, d
  <2>4. QED
    BY <1>5, <2>3, RecoloredOn
<1>7. Recolored(p, e)
  <2>1. CASE tint = "no tint"
    BY <1>6, <2>1 DEF e
  <2>2. CASE tint # "no tint"
    <3>1. e = ColorPop(d)
      BY <2>2 DEF e
    <3>2. Steady(d) /\ Tinted(d)
      BY <1>6 DEF Recolored
    <3>3. Recolored(d, e)
      BY <3>1, <3>2, ColorPopIs
    <3>4. QED
      BY <1>6, <3>3, RecoloredOn
  <2>3. QED
    BY <2>1, <2>2
<1>8. Recolored(p, r)
  <2>1. CASE span
    <3>1. r = Emit(GraphicsMode(e), [op |-> "paint"])
      BY <1>2, <2>1
    <3>2. Steady(e) /\ Tinted(e)
      BY <1>7 DEF Recolored
    <3>3. Recolored(e, r)
      BY <3>1, <3>2, Tagged
    <3>4. QED
      BY <1>7, <3>3, RecoloredOn
  <2>2. CASE ~span
    BY <1>2, <1>7, <2>2
  <2>3. QED
    BY <2>1, <2>2
<1>9. QED
  BY <1>8, RightOn DEF r

\* pdf_dev_put_image, between gsave and grestore of the special.
LEMMA ImageIs ==
  ASSUME Right(p), Image
  PROVE  Right(p')
<1> DEFINE s == GraphicsMode(p)
           g == GraphicsMode(s)
           x == Gsave(g)
           y == Emit(x, [op |-> "paint"])
           e == p'
<1>1. e = Grestore(y)
  BY DEF Image, Special
<1>2. Recolored(p, s)
  BY LeftText DEF Right
<1>3. Steady(s) /\ Tinted(s)
  BY <1>2 DEF Recolored
<1> HIDE DEF s, g, x, y, e
<1>4. Recolored(s, g) /\ Ready(g)
  BY <1>3, LeftText DEF g
<1>5. Steady(g) /\ Tinted(g) /\ Filled(g)
  BY <1>4 DEF Recolored, Tinted
<1>6. Ready(x)
  BY <1>4, <1>5, GsaveIs DEF x
<1>7. Sound(y) /\ Draws(x, y) /\ y.motion = "graphics"
  BY <1>6, PaintedIs DEF y
<1>8. Ready(y) /\ Keeps(x, y) /\ y.gs = x.gs
  BY <1>6, <1>7, ShapedDraws DEF Ready
<1>9. Recolored(g, e)
  BY <1>1, <1>4, <1>5, <1>8, Bracketed DEF x
<1>10. QED
  BY <1>2, <1>4, <1>9, RecoloredOn, RightOn DEF e
\* gsave and grestore by specials, and whatever leaves text first.
LEMMA BtransIs ==
  ASSUME Right(p), Btrans
  PROVE  Right(p')
<1> DEFINE g == GraphicsMode(p)
           e == p'
<1>1. e = Gsave(g) /\ Len(p.gs) < MaxDepth
  BY DEF Btrans, Special
<1>2. Recolored(p, g) /\ Ready(g) /\ g.gs = p.gs
  BY LeftText DEF Right
<1>3. Steady(g) /\ Tinted(g) /\ Filled(g)
  BY <1>2 DEF Recolored, Tinted
<1> HIDE DEF g, e
<1>4. Ready(e) /\ Filled(e) /\ Keeps(g, e) /\ e.gs = Append(g.gs, Last(g.gs))
  BY <1>1, <1>2, <1>3, GsaveIs
<1>5. Len(e.gs) = Len(g.gs) + 1 /\ Last(e.gs) = Last(g.gs) /\ Len(g.gs) \in Nat /\ Len(g.gs) >= 2
  <2> DEFINE G == g.gs
             H == e.gs
             c == Last(G)
  <2>1. G \in Seq(Color) /\ c \in Color /\ H = Append(G, c) /\ Len(G) >= 2
    BY <1>3, <1>4, TopNested DEF Steady
  <2> HIDE DEF G, H, c
  <2>2. Len(H) = Len(G) + 1 /\ Len(G) \in Nat /\ Last(H) = c
    BY <2>1, Pushed
  <2>3. QED
    BY <2>1, <2>2 DEF G, H, c
<1>6. Steady(e)
  <2>1. Sound(e) /\ Shaped(e) /\ Settled(e) /\ Len(e.gs) >= 2
    BY <1>4, <1>5 DEF Ready, Settled
  <2>2. QED
    BY <1>3, <1>4, <2>1, SteadyOn
<1>7. Tinted(e)
  BY <1>3, <1>4, <1>5 DEF Tinted, Keeps
<1>8. Len(e.gs) <= MaxDepth
  BY <1>1, <1>2, <1>5, DevAssumption
<1>9. QED
  BY <1>6, <1>7, <1>8 DEF Right, e

\* The streams of a page and of its forms, and where the top one begins.
LEMMA Depths ==
  ASSUME NEW d, Steady(d)
  PROVE  /\ Len(d.forms) \in Nat /\ Len(d.out) = Len(d.forms) + 1 /\ d.forms \in Seq(Nat)
         /\ d.forms = << >> => Here(d) = 1
         /\ d.forms # << >> => /\ Here(d) = Last(d.forms) + 1 /\ Last(d.forms) \in Nat /\ Last(d.forms) >= 2
                               /\ Last(d.forms) = d.forms[Len(d.forms)] /\ Last(d.forms) < Len(d.gs)
<1> DEFINE F == d.forms
           n == Len(F)
<1>1. /\ F \in Seq(Nat) /\ n \in Nat /\ Len(d.out) = n + 1
      /\ \A i \in 1 .. n : F[i] \in Nat /\ 2 <= F[i] /\ F[i] < Len(d.gs)
  BY FramedFacts DEF Steady, Shaped, Framed
<1>2. CASE F = << >>
  BY <1>1, <1>2 DEF Here, Bottom
<1>3. CASE F # << >>
  <2>1. n >= 1 /\ n \in 1 .. n
    BY <1>1, <1>3
  <2>2. Last(F) = F[n]
    BY DEF Last
  <2>3. Here(d) = F[n] + 1
    BY <1>1, <2>1 DEF Here, Bottom
  <2>4. QED
    BY <1>1, <1>3, <2>1, <2>2, <2>3
<1>4. QED
  BY <1>2, <1>3

LEMMA EtransIs ==
  ASSUME Right(p), Etrans
  PROVE  Right(p')
<1> DEFINE g == GraphicsMode(p)
           x == Grestore(g)
           e == p'
<1>1. e = ResetColor(x, FALSE) /\ Len(p.gs) > Floor
  BY DEF Etrans, Special
<1>2. Recolored(p, g) /\ Ready(g) /\ g.gs = p.gs /\ Keeps(p, g)
  BY LeftText DEF Right
<1>3. Steady(g) /\ Steady(p) /\ Here(g) = Here(p) /\ Len(p.gs) \in Nat /\ Len(p.gs) <= MaxDepth
  BY <1>2, TopNested DEF Recolored, Right, Steady
<1> HIDE DEF g, x, e
<1>4. Len(g.gs) > Here(g) /\ Len(g.gs) - 1 >= 2
  <2>1. CASE p.forms = << >>
    <3>1. Here(p) = 1 /\ Floor = 2
      BY <1>3, <2>1, Depths DEF Floor, InForm
    <3>2. QED
      BY <1>1, <1>2, <1>3, <3>1
  <2>2. CASE p.forms # << >>
    <3>1. Here(p) = Last(p.forms) + 1 /\ Last(p.forms) \in Nat /\ Last(p.forms) >= 2 /\ Floor = Last(p.forms) + 1
      BY <1>3, <2>2, Depths DEF Floor, InForm
    <3>2. QED
      BY <1>1, <1>2, <1>3, <3>1
  <2>3. QED
    BY <2>1, <2>2
<1>5. Ready(x) /\ Filled(x) /\ Keeps(g, x) /\ Len(x.gs) = Len(g.gs) - 1
  BY <1>2, <1>4, GrestoreIs DEF x
<1>6. Steady(x)
  <2>1. Sound(x) /\ Shaped(x) /\ Settled(x) /\ Len(x.gs) >= 2
    BY <1>4, <1>5 DEF Ready, Settled
  <2>2. QED
    BY <1>3, <1>5, <2>1, SteadyOn
<1>7. Steady(e) /\ Tinted(e) /\ Len(e.gs) = Len(x.gs)
  BY <1>1, <1>5, <1>6, ResetColorIs
<1>8. Len(e.gs) <= MaxDepth
  BY <1>2, <1>3, <1>5, <1>7, DevAssumption
<1>9. QED
  BY <1>7, <1>8 DEF Right, e

LEMMA ColorSpecialIs ==
  ASSUME Right(p), ColorSpecial
  PROVE  Right(p')
<1> DEFINE g == GraphicsMode(p)
           e == p'
<1>1. \/ \E c \in Color : \/ e = ColorPush(g, c)
                          \/ e = ColorSet(g, c)
                          \/ e = ColorSet(ColorClear(g), c)
      \/ e = ColorPop(g)
  BY DEF ColorSpecial, Special
<1>2. Recolored(p, g)
  BY LeftText DEF Right
<1> HIDE DEF g, e
<1>3. Steady(g) /\ Tinted(g)
  BY <1>2 DEF Recolored
<1>4. Recolored(g, e)
  <2>1. CASE e = ColorPop(g)
    BY <1>3, <2>1, ColorPopIs
  <2>2. ASSUME NEW c \in Color, e = ColorPush(g, c) PROVE Recolored(g, e)
    BY <1>3, <2>2, ColorPushIs
  <2>3. ASSUME NEW c \in Color, e = ColorSet(g, c) PROVE Recolored(g, e)
    BY <1>3, <2>3, ColorSetIs
  <2>4. ASSUME NEW c \in Color, e = ColorSet(ColorClear(g), c) PROVE Recolored(g, e)
    BY <1>3, <2>4, ColorClearIs
  <2>5. QED
    BY <1>1, <2>1, <2>2, <2>3, <2>4
<1>5. QED
  BY <1>2, <1>4, RecoloredOn, RightOn DEF e

\* pdf_doc_begin_grabbing: the stream below waits.
LEMMA Waits ==
  ASSUME NEW d, Ready(d), Filled(d)
  PROVE  Suspended(Last(d.out)) /\ Last(d.out).gs.fill = Last(d.gs)
<1>1. TextRight(d) /\ FontRight(d) /\ d.motion = "graphics" /\ d.bold = FALSE
  BY DeviceFields DEF Ready, Sound, FontRight
<1>2. QED
  BY <1>1 DEF TextRight, Suspended, Top, Filled

LEMMA BeginFormIs ==
  ASSUME Right(p), BeginForm
  PROVE  Right(p')
<1> DEFINE g == GraphicsMode(p)
           d == PushGstate(g)
           s == Blank("inherited")
           E == Append(g.forms, Len(g.gs))
           q == Append(g.out, s)
           H == Append(g.gs, "black")
           f == [d EXCEPT !.forms = Append(@, Len(d.gs) - 1), !.out = Append(@, s)]
           y == ResetFonts(f, TRUE)
           e == p'
<1>1. e = ResetColor(y, TRUE) /\ Len(p.gs) < MaxDepth /\ Len(p.forms) < MaxForms
  BY DEF BeginForm, Special
<1>2. Steady(g) /\ Ready(g) /\ Filled(g) /\ Keeps(p, g) /\ g.gs = p.gs
  BY SteadyGraphics DEF Right, Tinted
<1>3. "black" \in Color /\ s \in Stream /\ s.text = FALSE /\ s.string = "none" /\ s.bad = {}
      /\ s.saved = << >> /\ s.gs.bold = FALSE
  BY BlankIs, DevAssumption
<1> HIDE DEF s, g, y, e
<1>4. g \in Device /\ FontRight(g) /\ g.motion = "graphics" /\ g.reset = FALSE /\ g.bold = FALSE
  BY <1>2, DeviceFields DEF Ready, Sound, FontRight
<1>5. g.gs \in Seq(Color) /\ g.forms \in Seq(Nat) /\ g.out \in Seq(Stream) /\ Len(g.gs) \in Nat /\ Len(g.gs) >= 2
  BY <1>2, TopNested, DeviceFields DEF Steady, Sound
<1>6. /\ E \in Seq(Nat) /\ Len(E) = Len(g.forms) + 1
      /\ q \in Seq(Stream) /\ q # << >> /\ Last(q) = s
      /\ H \in Seq(Color) /\ Len(H) = Len(g.gs) + 1
  <2>1. E \in Seq(Nat) /\ Len(E) = Len(g.forms) + 1
    BY <1>5
  <2>2. q \in Seq(Stream) /\ Len(q) = Len(g.out) + 1 /\ q[Len(g.out) + 1] = s /\ Len(g.out) \in Nat
    BY <1>3, <1>5
  <2>3. q # << >> /\ Last(q) = s
    BY <2>2 DEF Last
  <2>4. H \in Seq(Color) /\ Len(H) = Len(g.gs) + 1
    BY <1>3, <1>5
  <2>5. QED
    BY <2>1, <2>2, <2>3, <2>4
<1>7. d = [g EXCEPT !.gs = H]
  BY DEF PushGstate
<1> HIDE DEF d, E, q, H
<1>8. f = [g EXCEPT !.gs = H, !.forms = E, !.out = q]
  <2>1. d.gs = H /\ d.forms = g.forms /\ d.out = g.out
    BY <1>4, <1>7 DEF Device
  <2>2. Len(d.gs) - 1 = Len(g.gs)
    BY <1>5, <1>6, <2>1
  <2>3. f = [d EXCEPT !.forms = E, !.out = q]
    BY <2>1, <2>2 DEF E, q
  <2>4. QED
    BY <1>4, <1>7, <2>3 DEF Device
<1> HIDE DEF f
<1>9. /\ f \in Device /\ f.gs = H /\ f.forms = E /\ f.out = q /\ f.motion = "graphics" /\ f.reset = FALSE
      /\ f.cs = g.cs /\ f.bad = g.bad /\ f.failed = g.failed
  BY <1>4, <1>6, <1>8 DEF Device
<1>10. Framed(q, H, E)
  <2>1. Suspended(Last(g.out)) /\ Last(g.out).gs.fill = Last(g.gs) /\ Framed(g.out, g.gs, g.forms)
    BY <1>2, Waits DEF Ready, Shaped
  <2>2. QED
    BY <1>3, <1>5, <2>1, FramedForm DEF q, H, E
<1>11. /\ y \in Device /\ FontRight(y) /\ y.used = {} /\ y.motion = "graphics" /\ y.out = q
       /\ y.gs = H /\ y.forms = E /\ y.cs = g.cs /\ y.bad = g.bad /\ y.failed = g.failed
  <2>1. y = ResetFonts(f, TRUE)
    BY DEF y
  <2>2. /\ y \in Device /\ FontRight(y) /\ y.used = {} /\ y.motion = "graphics" /\ y.out = f.out /\ SameRest(f, y)
    BY <1>9, <2>1, FontsForgotten
  <2>3. QED
    BY <1>9, <2>2 DEF SameRest
<1>12. Ready(y)
  <2>1. Top(y) = s /\ y.out # << >>
    BY <1>6, <1>11 DEF Top
  <2>2. Suspended(Top(y)) /\ Shaped(y)
    BY <1>3, <1>10, <1>11, <2>1 DEF Suspended, Shaped
  <2>3. QED
    BY <1>11, <2>1, <2>2, Opened
<1>13. Steady(y) /\ Len(y.gs) = Len(g.gs) + 1
  <2>1. Len(y.forms) <= MaxForms
    <3>1. Len(y.forms) = Len(p.forms) + 1 /\ Len(p.forms) \in Nat
      BY <1>2, <1>6, <1>11, Depths DEF Keeps, Right
    <3>2. QED
      BY <1>1, <3>1, DevAssumption
  <2>2. Len(y.gs) = Len(g.gs) + 1
    BY <1>6, <1>11
  <2>3. Len(y.gs) >= 2
    BY <1>5, <2>2
  <2>4. QED
    BY <1>2, <1>11, <1>12, <2>1, <2>2, <2>3 DEF Steady, Ready, Settled
<1>14. Steady(e) /\ Tinted(e) /\ Len(e.gs) = Len(y.gs)
  BY <1>1, <1>13, ResetColorIs
<1>15. Len(e.gs) <= MaxDepth
  <2>1. Len(e.gs) = Len(g.gs) + 1 /\ Len(g.gs) < MaxDepth /\ Len(g.gs) \in Nat /\ MaxDepth \in Nat
    BY <1>1, <1>2, <1>5, <1>13, <1>14, DevAssumption
  <2>2. QED
    BY <2>1
<1>16. QED
  BY <1>14, <1>15 DEF Right, e

LEMMA EndFormIs ==
  ASSUME Right(p), EndForm
  PROVE  Right(p')
<1> DEFINE g == GraphicsMode(p)
           d == GrestoreTo(g, Last(g.forms))
           f == [d EXCEPT !.bad = @ \cup Ended(Last(d.out)), !.out = Front(@), !.forms = Front(@)]
           t == PopGstate(f)
           y == ResetFonts(t, TRUE)
           q == Front(d.out)
           H == Front(d.gs)
           E == Front(d.forms)
           e == p'
<1>1. Steady(g) /\ Ready(g) /\ Filled(g) /\ Keeps(p, g) /\ g.gs = p.gs
  BY SteadyGraphics DEF Right, Tinted
<1>2. e = ResetColor(y, FALSE) /\ g.forms # << >>
  <2>1. g.forms = p.forms
    BY <1>1 DEF Keeps
  <2>2. QED
    BY <2>1 DEF EndForm, Special, InForm
<1> HIDE DEF g, y, e
<1>3. /\ Here(g) = Last(g.forms) + 1 /\ Last(g.forms) \in Nat /\ Last(g.forms) >= 2 /\ Last(g.forms) < Len(g.gs)
      /\ g.forms \in Seq(Nat) /\ Len(g.forms) \in Nat
  BY <1>1, <1>2, Depths
<1>4. Ready(d) /\ Filled(d) /\ Keeps(g, d) /\ Len(d.gs) = Last(g.forms) + 1 /\ Here(d) = Last(g.forms) + 1
  BY <1>1, <1>3, GrestoreToIs
<1> HIDE DEF d
<1>5. /\ d \in Device /\ d.forms = g.forms /\ d.motion = "graphics" /\ d.reset = FALSE
      /\ Framed(d.out, d.gs, d.forms) /\ d.bad = {} /\ d.cs = g.cs /\ d.failed = g.failed
  <2>1. d.forms = g.forms /\ d.bad = g.bad /\ d.cs = g.cs /\ d.failed = g.failed /\ g.bad = {}
    BY <1>1, <1>4 DEF Keeps, Steady
  <2>2. d \in Device /\ FontRight(d) /\ d.motion = "graphics" /\ Framed(d.out, d.gs, d.forms)
    BY <1>4 DEF Ready, Sound, Shaped
  <2>3. d.reset = FALSE
    BY <2>2, DeviceFields DEF FontRight
  <2>4. QED
    BY <2>1, <2>2, <2>3
<1>6. /\ Framed(q, H, E) /\ Suspended(Last(q)) /\ Last(q).gs.fill = Last(H)
      /\ Len(H) >= 2 /\ Len(E) = Len(d.forms) - 1 /\ q # << >>
  <2>1. d.forms # << >> /\ Len(d.gs) = Last(d.forms) + 1
    BY <1>2, <1>4, <1>5
  <2>2. QED
    BY <1>5, <2>1, FramedEnd
<1>7. q \in Seq(Stream) /\ H \in Seq(Color) /\ E \in Seq(Nat) /\ Len(H) = Len(d.gs) - 1
  <2>1. q \in Seq(Stream) /\ H \in Seq(Color) /\ E \in Seq(Nat)
    BY <1>6, FramedFacts
  <2>2. d.gs \in Seq(Color) /\ Len(d.gs) >= 1
    BY <1>4, TopNested DEF Ready
  <2>3. Len(H) = Len(d.gs) - 1
    BY <2>2, Popped
  <2>4. QED
    BY <2>1, <2>3
<1>8. Ended(Last(d.out)) = {}
  <2>1. Ended(Top(d)) = {}
    BY <1>4, NothingOpen
  <2>2. QED
    BY <2>1 DEF Top
<1> HIDE DEF q, H, E
<1>9. f = [d EXCEPT !.bad = {}, !.out = q, !.forms = E]
  BY <1>5, <1>8 DEF q, E
<1> HIDE DEF f
<1>10. t = [d EXCEPT !.gs = H, !.bad = {}, !.out = q, !.forms = E]
  <2>1. f.gs = d.gs
    BY <1>5, <1>9 DEF Device
  <2>2. ~(Len(f.gs) <= 1)
    BY <1>3, <1>4, <2>1
  <2>3. t = [f EXCEPT !.gs = H]
    BY <2>1, <2>2 DEF PopGstate, H
  <2>4. QED
    BY <1>5, <1>9, <2>3 DEF Device
<1> HIDE DEF t
<1>11. /\ t \in Device /\ t.gs = H /\ t.forms = E /\ t.out = q /\ t.motion = "graphics" /\ t.reset = FALSE
       /\ t.cs = g.cs /\ t.bad = {} /\ t.failed = g.failed
  BY <1>5, <1>7, <1>10 DEF Device
<1>12. /\ y \in Device /\ FontRight(y) /\ y.used = {} /\ y.motion = "graphics" /\ y.out = q
       /\ y.gs = H /\ y.forms = E /\ y.cs = g.cs /\ y.bad = {} /\ y.failed = g.failed
  <2>1. y = ResetFonts(t, TRUE)
    BY DEF y
  <2>2. /\ y \in Device /\ FontRight(y) /\ y.used = {} /\ y.motion = "graphics" /\ y.out = t.out /\ SameRest(t, y)
    BY <1>11, <2>1, FontsForgotten
  <2>3. QED
    BY <1>11, <2>2 DEF SameRest
<1>13. Ready(y) /\ Filled(y)
  <2>1. Top(y) = Last(q) /\ y.out # << >>
    BY <1>6, <1>12 DEF Top
  <2>2. Suspended(Top(y)) /\ Shaped(y) /\ Filled(y)
    BY <1>6, <1>12, <2>1 DEF Shaped, Filled
  <2>3. QED
    BY <1>12, <2>1, <2>2, Opened
<1>14. Steady(y)
  <2>1. Len(y.forms) <= MaxForms
    <3>1. Len(g.forms) <= MaxForms /\ Len(y.forms) = Len(g.forms) - 1
      BY <1>1, <1>5, <1>6, <1>12 DEF Steady
    <3>2. QED
      BY <1>3, <3>1, DevAssumption
  <2>2. QED
    BY <1>1, <1>6, <1>12, <1>13, <2>1 DEF Steady, Ready, Settled
<1>15. Steady(e) /\ Tinted(e) /\ Len(e.gs) = Len(y.gs)
  BY <1>2, <1>13, <1>14, ResetColorIs
<1>16. Len(e.gs) <= MaxDepth
  <2>1. Len(e.gs) = Last(g.forms) /\ Last(g.forms) < Len(g.gs) /\ Len(g.gs) <= MaxDepth
    <3>1. Len(H) = Last(g.forms) /\ Len(g.gs) <= MaxDepth
      BY <1>1, <1>3, <1>4, <1>7 DEF Right
    <3>2. QED
      BY <1>3, <1>12, <1>15, <3>1
  <2>2. Len(g.gs) \in Nat
    BY <1>1, TopNested DEF Ready
  <2>3. QED
    BY <1>3, <2>1, <2>2, DevAssumption
<1>17. QED
  BY <1>15, <1>16 DEF Right, e
(***************************************************************************)
(* The invariant is one, and what follows from it.                          *)
(***************************************************************************)
LEMMA DevStep == DevInv /\ [Next]_p => DevInv'
<1>1. SUFFICES ASSUME DevInv, [Next]_p PROVE DevInv'
  OBVIOUS
<1>2. ASSUME Right(p') PROVE DevInv'
  <2>1. p'.out # << >>
    BY <1>2 DEF Right, Steady, Sound
  <2>2. QED
    BY <1>2, <2>1 DEF DevInv
<1>3. ASSUME Resting(p') PROVE DevInv'
  BY <1>3 DEF DevInv, Resting
<1>4. OnPage => Right(p)
  BY <1>1 DEF OnPage, DevInv
<1>5. CASE BeginPage
  BY <1>1, <1>2, <1>5, BeginPageIs
<1>6. CASE EndPage
  BY <1>1, <1>3, <1>6, EndPageIs
<1>7. CASE EndPageFails
  BY <1>3, <1>7, EndPageFailsIs
<1>8. CASE String
  BY <1>2, <1>4, <1>8, StringIs DEF String
<1>9. CASE DirChange
  BY <1>2, <1>4, <1>9, DirChangeIs DEF DirChange
<1>10. CASE Rule
  BY <1>2, <1>4, <1>10, BetweenStep DEF Rule
<1>11. CASE Glyphs
  <2>1. OnPage
    BY <1>11, Zenon DEF Glyphs
  <2>2. QED
    BY <1>2, <1>4, <1>11, <2>1, GlyphsIs
<1>12. CASE Btrans
  BY <1>2, <1>4, <1>12, BtransIs DEF Btrans
<1>13. CASE Etrans
  BY <1>2, <1>4, <1>13, EtransIs DEF Etrans
<1>14. CASE ColorSpecial
  BY <1>2, <1>4, <1>14, ColorSpecialIs DEF ColorSpecial
<1>15. CASE Content
  BY <1>2, <1>4, <1>15, BetweenStep DEF Content, Special
<1>16. CASE Image
  BY <1>2, <1>4, <1>16, ImageIs DEF Image
<1>17. CASE BeginForm
  BY <1>2, <1>4, <1>17, BeginFormIs DEF BeginForm
<1>18. CASE EndForm
  BY <1>2, <1>4, <1>18, EndFormIs DEF EndForm
<1>19. CASE UNCHANGED p
  BY <1>1, <1>19 DEF DevInv
<1>20. QED
  BY <1>1, <1>5, <1>6, <1>7, <1>8, <1>9, <1>10, <1>11, <1>12, <1>13, <1>14, <1>15, <1>16, <1>17, <1>18, <1>19
     DEF Next

\* Whatever follows from the invariant is always true.
LEMMA DevInvariant == Spec => []DevInv
<1>1. Init => DevInv
  <2>1. SUFFICES ASSUME Init PROVE DevInv
    OBVIOUS
  <2>2. Resting(p)
    BY <2>1, InitResting DEF Init
  <2>3. QED
    BY <2>2 DEF DevInv, Resting
<1>2. QED
  BY <1>1, DevStep, PTL DEF Spec

\* No stream holds an operator out of place, a string shown in a state that
\* was not asked for, or a font that it does not list.
LEMMA NoFaults == DevInv => Faults = {}
<1>1. SUFFICES ASSUME DevInv PROVE p.bad = {} /\ \A i \in DOMAIN p.out : p.out[i].bad = {}
  BY DEF Faults
<1>2. CASE p.out = << >>
  BY <1>1, <1>2 DEF DevInv, Resting
<1>3. CASE p.out # << >>
  <2>1. Steady(p)
    BY <1>1, <1>3 DEF DevInv, Right
  <2>2. /\ Sound(p) /\ Shaped(p) /\ p.bad = {}
    BY <2>1 DEF Steady
  <2>3. Top(p).bad = {} /\ Top(p) = p.out[Len(p.out)] /\ p.out \in Seq(Stream)
    BY <2>2, TopNested DEF Sound, TextRight
  <2>4. Len(p.out) = Len(p.forms) + 1 /\ Len(p.forms) \in Nat
    BY <2>1, Depths
  <2>5. \A i \in 1 .. Len(p.forms) : p.out[i].bad = {}
    BY <2>2 DEF Shaped, Framed, Suspended
  <2>6. ASSUME NEW i \in 1 .. Len(p.out) PROVE p.out[i].bad = {}
    <3>1. i = Len(p.out) \/ i \in 1 .. Len(p.forms)
      BY <2>4
    <3>2. QED
      BY <2>3, <2>5, <3>1
  <2>7. DOMAIN p.out = 1 .. Len(p.out)
    BY <2>3
  <2>8. QED
    BY <2>2, <2>6, <2>7
<1>4. QED
  BY <1>2, <1>3

\* The variables of pdfdev.c, pdfdraw.c, pdfcolor.c and pdfdoc.c have their
\* types: the stacks stay within their arrays, and there is one stream per
\* pending form and one for the page.
THEOREM DevTypeCorrect == Spec => []DevTypeOK
<1>1. DevInv => DevTypeOK
  <2>1. SUFFICES ASSUME DevInv PROVE DevTypeOK
    OBVIOUS
  <2>2. CASE p.out = << >>
    <3>1. Resting(p) /\ p \in Device
      BY <2>1, <2>2 DEF DevInv, Resting
    <3>2. Len(p.gs) = 1 /\ Len(p.forms) = 0 /\ Len(p.out) = 0
      BY <3>1 DEF Resting
    <3>3. Len(p.gs) \in 1 .. MaxDepth /\ Len(p.forms) <= MaxForms
      BY <3>2, DevAssumption
    <3>4. QED
      BY <2>2, <3>1, <3>2, <3>3, DeviceFields DEF DevTypeOK, Resting, AnyFont, Angle, Turn
  <2>3. CASE p.out # << >>
    <3>1. Steady(p) /\ p \in Device /\ Len(p.gs) <= MaxDepth /\ Len(p.gs) >= 2
      BY <2>1, <2>3 DEF DevInv, Right, Steady, Sound
    <3>2. Len(p.gs) \in 1 .. MaxDepth
      <4>1. Len(p.gs) \in Nat
        BY <3>1, DeviceFields
      <4>2. QED
        BY <3>1, <4>1, DevAssumption
    <3>3. Len(p.out) = Len(p.forms) + 1
      BY <3>1, Depths
    <3>4. QED
      BY <2>3, <3>1, <3>2, <3>3, DeviceFields DEF DevTypeOK, Steady, AnyFont, Angle, Turn
  <2>4. QED
    BY <2>2, <2>3
<1>2. QED
  BY <1>1, DevInvariant, PTL

\* BT and ET, q and Q and the delimiters of strings are nested and closed in
\* every page and form, whatever the document leaves open.
THEOREM SyntaxCorrect == Spec => []SyntaxRight
<1>1. DevInv => SyntaxRight
  BY NoFaults DEF SyntaxRight
<1>2. QED
  BY <1>1, DevInvariant, PTL

\* A string is shown in the font, the rendering mode and the text matrix that
\* the document has selected.
THEOREM ShowsCorrect == Spec => []ShowsRight
<1>1. DevInv => ShowsRight
  BY NoFaults DEF ShowsRight
<1>2. QED
  BY <1>1, DevInvariant, PTL

\* The font that a stream selects is in the resources of that very stream.
THEOREM FontsListedCorrect == Spec => []FontsListed
<1>1. DevInv => FontsListed
  BY NoFaults DEF FontsListed
<1>2. QED
  BY <1>1, DevInvariant, PTL

\* While a page is being written the viewer paints in the colour at the top of
\* the colour stack.
THEOREM FillCorrect == Spec => []FillFollowsStack
<1>1. DevInv => FillFollowsStack
  BY DEF DevInv, Right, Tinted, Filled, Top, FillFollowsStack, OnPage
<1>2. QED
  BY <1>1, DevInvariant, PTL

\* What the device remembers is what the viewer has: the colours in the saved
\* graphics states, of suspended streams too, and the state of the text.
THEOREM CachesCorrect == Spec => []CachesRight
<1>1. DevInv => CachesRight
  <2>1. SUFFICES ASSUME DevInv PROVE CachesRight
    OBVIOUS
  <2>2. CASE p.out = << >>
    BY <2>1, <2>2 DEF DevInv, Resting, CachesRight, OnPage
  <2>3. CASE p.out # << >>
    <3> DEFINE s == Last(p.out)
               F == p.forms
               tops == Append(F, Len(p.gs))
    <3>1. Steady(p) /\ Filled(p) /\ Sound(p) /\ Shaped(p) /\ TextRight(p)
      BY <2>1, <2>3 DEF DevInv, Right, Tinted, Steady, Sound
    <3>2. /\ p.gs \in Seq(Color) /\ p.gs[1] = "black" /\ Last(p.gs) = p.gs[Len(p.gs)] /\ Len(p.gs) \in Nat
          /\ p.out \in Seq(Stream) /\ Top(p) = p.out[Len(p.out)]
      BY <3>1, TopNested
    <3>3. Len(p.out) = Len(F) + 1 /\ Len(F) \in Nat /\ F \in Seq(Nat)
      BY <3>1, Depths
    <3>4. /\ tops[Len(F) + 1] = Len(p.gs)
          /\ \A i \in 1 .. Len(F) : tops[i] = F[i]
      BY <3>2, <3>3
    <3>5. \A i \in 1 .. Len(F) : p.out[i].gs.fill = p.gs[F[i]]
      BY <3>1 DEF Shaped, Framed
    <3> HIDE DEF tops, F
    <3>6. ASSUME NEW i \in 1 .. Len(p.out) PROVE p.out[i].gs.fill = p.gs[tops[i]]
      <4>1. CASE i = Len(F) + 1
        BY <3>1, <3>2, <3>3, <3>4, <4>1 DEF Filled
      <4>2. CASE i # Len(F) + 1
        <5>1. i \in 1 .. Len(F)
          BY <3>3, <4>2
        <5>2. QED
          BY <3>4, <3>5, <5>1
      <4>3. QED
        BY <4>1, <4>2
    <3>7. DOMAIN p.out = 1 .. Len(p.out)
      BY <3>2
    <3>8. /\ s.text = (p.motion # "graphics") /\ s.gs.bold = p.bold
          /\ s.text /\ p.font # NoFont => s.gs.font = p.font
          /\ s.text /\ ~p.reset => s.tm = Matrix(p.slanted, p.rotate)
      BY <3>1 DEF TextRight, Top
    <3>9. QED
      BY <3>2, <3>6, <3>7, <3>8 DEF CachesRight, tops, F
  <2>4. QED
    BY <2>2, <2>3
<1>2. QED
  BY <1>1, DevInvariant, PTL
=============================================================================
