--------------------------------- MODULE Dvi ---------------------------------
(***************************************************************************)
(* The interpreter of a page of a DVI file: dvi.c, with the packets of      *)
(* virtual fonts (vf.c) and the boxes of links (pdfdoc.c, spc_pdfm.c).      *)
(*                                                                          *)
(* A page is a sequence of instructions.  It is chosen while it is read,    *)
(* and what has been read stays in the page buffer, because a segment of    *)
(* reflected text is read twice: once to measure it ("skimming") and once   *)
(* to typeset it in the other direction.  A character of a virtual font is  *)
(* a packet of instructions: a frame above that of the page.                *)
(*                                                                          *)
(* Distances are small integers; what a character looks like, the bytes it  *)
(* is written as and the numbers of opcodes are left out.  A glyph is known *)
(* by its place in out, the sequence of everything typeset on the page.     *)
(***************************************************************************)
EXTENDS Integers, Sequences, SequencesExt, FiniteSets, FiniteSetsExt

CONSTANTS
  Font,         \* names of the fonts the file defines
  Char,         \* character codes
  Width,        \* Width[f][c]: the width in the metrics of the font
  Mapped,       \* fonts with a record in the font map
  HasVf,        \* fonts for which a virtual font file is found
  HasDev,       \* fonts for which the device locates a font
  Packets,      \* Packets[f][c]: the instructions of a character of a virtual font
  Default,      \* Default[f]: the first font that a virtual font defines
  Documents,    \* documents: how a page begins, the instructions that follow, and
                \* the bound on how many of them there are
  StackMax,     \* DVI_STACK_DEPTH_MAX
  NestMax,      \* VF_NESTING_MAX
  MaxPages      \* bound: pages of a document

ASSUME DviAssumption ==
  /\ Width \in [Font -> [Char -> Nat]]
  /\ Mapped \subseteq Font /\ HasVf \subseteq Font /\ HasDev \subseteq Font
  /\ DOMAIN Packets = HasVf /\ Default \in [HasVf -> Font]
  /\ {StackMax, NestMax, MaxPages} \subseteq Nat \ {0}

NoFont == "no font"
ASSUME NoFontAssumption == NoFont \notin Font

VARIABLE s      \* the state of the interpreter: see Start

----------------------------------------------------------------------------
(* The directions of text (lr_mode); Skimming + n is n segments deep.      *)
Left == 0
Right == 1
Skimming == 2
Opposite(mode) == Left + Right - mode
Skims(d) == d.lr.mode >= Skimming

Fail(d) == [d EXCEPT !.status = "failed"]

Moved(d, x) ==
  CASE d.d = 0 -> [d EXCEPT !.h = @ + x]
    [] d.d = 1 -> [d EXCEPT !.v = @ + x]
    [] d.d = 3 -> [d EXCEPT !.v = @ - x]

\* dvi_right
MoveRight(d, x) ==
  IF Skims(d) THEN [d EXCEPT !.lr.width = @ + x]
  ELSE Moved(d, IF d.lr.mode = Right THEN -x ELSE x)

\* dvi_down
MoveDown(d, y) ==
  IF Skims(d) THEN d
  ELSE CASE d.d = 0 -> [d EXCEPT !.v = @ + y]
         [] d.d = 1 -> [d EXCEPT !.h = @ - y]
         [] d.d = 3 -> [d EXCEPT !.h = @ + y]

MoveW(d, x) == MoveRight([d EXCEPT !.w = x], x)

Regs(d) == [h |-> d.h, v |-> d.v, w |-> d.w, d |-> d.d]
WithRegs(d, r) == [d EXCEPT !.h = r.h, !.v = r.v, !.w = r.w, !.d = r.d]

Push(d) ==
  IF Len(d.stack) >= StackMax THEN Fail(d)
  ELSE [d EXCEPT !.stack = Append(@, Regs(d))]
Pop(d) ==
  IF d.stack = << >> THEN Fail(d)
  ELSE [WithRegs(d, Last(d.stack)) EXCEPT !.stack = Front(@)]

----------------------------------------------------------------------------
(* Links.  The dictionary of a pending annotation is known by the place of  *)
(* its pdf:bann; box holds the glyphs that the rectangle now covers.        *)

NoLink == << 0, 0 >>

\* dvi_is_tracking_boxes
TrackingAlways(d) == d.link.boxes /\ d.link.mark >= d.link.tag
Tracking(d) == d.link.boxes /\ d.link.on /\ d.link.mark >= d.link.tag

\* pdf_doc_expand_box
ExpandBox(d, glyph) == IF Tracking(d) THEN [d EXCEPT !.link.box = @ \cup {glyph}] ELSE d

\* pdf_doc_break_annot
BreakAnnot(d) ==
  IF d.link.box = {} THEN d
  ELSE [d EXCEPT !.annots = Append(@, [link |-> d.link.dict, glyphs |-> d.link.box,
                                       first |-> ~d.link.broken]),
                 !.link.box = {}, !.link.broken = TRUE]

\* dvi_mark_depth
MarkDepthLate(d) ==
  LET returns == d.link.on /\ d.link.mark = d.link.tag /\ Len(d.stack) = d.link.tag
  IN [ IF returns THEN BreakAnnot(d) ELSE d EXCEPT !.link.mark = Len(d.stack) ]
MarkDepth(d) ==
  LET returns == d.link.on /\ d.link.mark = d.link.tag /\ Len(d.stack) = d.link.tag - 1
  IN [ IF returns THEN BreakAnnot(d) ELSE d EXCEPT !.link.mark = Len(d.stack) ]

\* spc_begin_annot and spc_end_annot, which all kinds of links share
BeginAnnot(d, dict) ==
  [d EXCEPT !.link.dict = dict, !.link.broken = FALSE, !.link.box = {},
            !.link.tag = d.link.mark, !.link.boxes = TRUE]
EndAnnot(d) ==
  [ BreakAnnot([d EXCEPT !.link.tag = -1, !.link.boxes = FALSE]) EXCEPT !.link.dict = NoLink ]

\* pdf:bann and pdf:eann: a second link, or an end without one, is refused.
BeginPdfLink(d, dict) ==
  IF d.own.annot_dict # NoLink THEN d
  ELSE BeginAnnot([d EXCEPT !.own.annot_dict = dict], dict)
EndPdfLink(d) ==
  IF d.own.annot_dict = NoLink THEN d ELSE [ EndAnnot(d) EXCEPT !.own.annot_dict = NoLink ]

\* An html anchor is either the beginning of a link or a destination, and has
\* an own idea of what is pending.
OpenAnchor(d, kind, dict) ==
  IF d.own.pending # "none" THEN d       \* "Nested html anchors found!"
  ELSE IF kind = "href" THEN BeginAnnot([d EXCEPT !.own.pending = kind], dict)
  ELSE [d EXCEPT !.own.pending = kind]
CloseAnchor(d) ==
  CASE d.own.pending = "href" -> [ EndAnnot(d) EXCEPT !.own.pending = "none" ]
    [] d.own.pending = "name" -> [d EXCEPT !.own.pending = "none"]
    [] OTHER -> d

\* pdf:link and pdf:nolink
LinkAnnot(d, on) == [d EXCEPT !.link.on = on]

Special(d, i, id) ==
  CASE i.special = "bann"   -> BeginPdfLink(d, id)
    [] i.special = "eann"   -> EndPdfLink(d)
    [] i.special = "href"   -> OpenAnchor(d, "href", id)
    [] i.special = "name"   -> OpenAnchor(d, "name", id)
    [] i.special = "close"  -> CloseAnchor(d)
    [] i.special = "link"   -> LinkAnnot(d, TRUE)
    [] i.special = "nolink" -> LinkAnnot(d, FALSE)

----------------------------------------------------------------------------
(* Characters, and the packets of virtual fonts.  The frame at the top is   *)
(* what is being executed: code from pc on, started with the registers and  *)
(* the font of start; set is what it has typeset itself, and after the move *)
(* that dvi_set still has to make.                                          *)

\* dvi_locate_font: without a record in the font map a virtual font comes
\* first, then a font of the device.
Kind(f) == CASE f \notin Mapped /\ f \in HasVf -> "virtual"
             [] f \in HasDev -> "physical"
             [] OTHER -> "missing"

Top(d) == Last(d.frames)
Log(d, c) ==
  [d EXCEPT !.frames[Len(d.frames)].set =
      Append(@, [font |-> d.font, char |-> c, h |-> d.h, v |-> d.v, d |-> d.d])]

\* History: the link a glyph is set in, and on which of its lines.  Of the depth
\* of the stack only what the page has pushed counts: "logical structure of
\* document is oblivous to virtual fonts".
InPacket(d) == Len(d.frames) > 1
PageDepth(d) == IF InPacket(d) THEN d.frames[2].below ELSE Len(d.stack)
Inside(d) == IF d.link.on /\ PageDepth(d) >= d.link.tag THEN d.link.dict ELSE NoLink

Typeset(d, c) ==
  ExpandBox([ Log(d, c) EXCEPT !.out = Append(@, [font |-> d.font, char |-> c,
                                                  link |-> Inside(d), line |-> d.line]) ],
            Len(d.out) + 1)

\* What a nonexistent character does: nothing.
Packet(f, c) == IF c \in DOMAIN Packets[f] THEN Packets[f][c] ELSE << >>

\* vf_set_char up to its loop, dvi_vf_init
EnterVf(d, c, after) ==
  LET l == Log(d, c)
      p == Push(l)
  IN IF p.status = "failed" \/ Len(d.saved) >= NestMax
     THEN Fail(d)                        \* "Virtual fonts nested too deeply!"
     ELSE [p EXCEPT !.w = 0, !.saved = Append(@, d.font), !.font = Default[d.font],
                    !.frames = Append(@, [code |-> Packet(d.font, c), pc |-> 1, set |-> << >>,
                                          start |-> [regs |-> [Regs(d) EXCEPT !.w = 0],
                                                     font |-> Default[d.font]],
                                          below |-> Len(d.stack), after |-> after])]

AfterSet(d, w) == IF d.lr.mode = Left THEN MoveRight(d, w) ELSE d

\* dvi_vf_finish, and the rest of the dvi_set that called vf_set_char
LeaveVf(d) ==
  LET p == Pop([d EXCEPT !.frames = Front(@)])
      r == [p EXCEPT !.font = Last(d.saved), !.saved = Front(@)]
  IN IF p.status = "failed" THEN p ELSE AfterSet(r, Top(d).after)

SetChar(d, c) ==
  IF d.font = NoFont THEN Fail(d)        \* "No font selected!"
  ELSE LET w == Width[d.font][c]
           r == IF d.lr.mode = Right THEN MoveRight(d, w) ELSE d
       IN CASE Skims(d) -> MoveRight(d, w)
            [] ~Skims(d) /\ Kind(d.font) = "virtual" -> EnterVf(r, c, w)
            [] OTHER -> AfterSet(Typeset(r, c), w)

\* dvi_put looks neither at the direction nor whether it is skimming.
PutChar(d, c) ==
  IF d.font = NoFont THEN Fail(d)
  ELSE IF Kind(d.font) = "virtual" THEN EnterVf(d, c, 0) ELSE Typeset(d, c)

\* do_glyphs: a run of glyphs of an XDV file, with their places and the width
\* of the whole.
TypesetAt(d, g) == [ Typeset([d EXCEPT !.h = @ + g.x], g.char) EXCEPT !.h = d.h ]
TypesetAll(d, glyphs) ==
  LET after[n \in 0..Len(glyphs)] == IF n = 0 THEN d ELSE TypesetAt(after[n - 1], glyphs[n])
  IN after[Len(glyphs)]
SetGlyphs(d, glyphs, w) ==
  IF d.font = NoFont THEN Fail(d)
  ELSE IF Skims(d) THEN MoveRight(d, w)
  ELSE AfterSet(TypesetAll(IF d.lr.mode = Right THEN MoveRight(d, w) ELSE d, glyphs), w)

Rule == "rule"

\* do_setrule and vf_setrule
SetRule(d, w) ==
  CASE Skims(d) -> MoveRight(d, w)
    [] d.lr.mode = Left -> MoveRight(Log(d, Rule), w)
    [] OTHER -> Log(MoveRight(d, w), Rule)

\* do_fnt and vf_fnt: a font is located when it is first selected.
SelectFont(d, f) == IF Kind(f) = "missing" THEN Fail(d) ELSE [d EXCEPT !.font = f]

\* dvi_dirchg and do_dir
SetDir(d, dir) == [d EXCEPT !.d = dir]

----------------------------------------------------------------------------
(* Reflected text. *)

BeginReflect(d) ==
  IF Skims(d) THEN [d EXCEPT !.lr.mode = @ + 1]
  ELSE [d EXCEPT !.lr.state = [pc |-> Top(d).pc, font |-> d.font, mode |-> d.lr.mode],
                 !.lr.mode = Skimming, !.lr.width = 0]

WidthPush(d) ==
  IF Len(d.lr.widths) >= StackMax THEN Fail(d)
  ELSE [d EXCEPT !.lr.widths = Append(@, d.lr.width)]
WidthPop(d) ==
  IF d.lr.widths = << >> THEN Fail(d)
  ELSE [d EXCEPT !.lr.width = Last(d.lr.widths), !.lr.widths = Front(@)]

\* Back to the beginning of the segment, in the other direction.
RereadKeepFont(d) ==
  LET r == [d EXCEPT !.frames[1].pc = d.lr.state.pc, !.lr.mode = Opposite(d.lr.state.mode)]
  IN WidthPush(MoveRight(r, -d.lr.width))
Reread(d) ==
  LET r == [d EXCEPT !.font = d.lr.state.font, !.frames[1].pc = d.lr.state.pc,
                     !.lr.mode = Opposite(d.lr.state.mode)]
  IN WidthPush(MoveRight(r, -d.lr.width))

EndReflectKeepWidth(d) ==
  CASE d.lr.mode = Skimming -> Reread(d)
    [] d.lr.mode > Skimming -> [d EXCEPT !.lr.mode = @ - 1]
    [] OTHER -> [ MoveRight(d, -Last(d.lr.widths)) EXCEPT !.lr.mode = Opposite(@) ]
EndReflect(d) ==
  CASE d.lr.mode = Skimming -> Reread(d)
    [] d.lr.mode > Skimming -> [d EXCEPT !.lr.mode = @ - 1]
    [] OTHER -> LET p == WidthPop(d)
                IN [ MoveRight(p, -p.lr.width) EXCEPT !.lr.mode = Opposite(@) ]

\* PUSH and POP in the page, which alone are what links are broken at.
PushOp(d) == LET p == Push(d) IN MarkDepth(IF Skims(d) THEN WidthPush(p) ELSE p)
PopOp(d) ==
  LET p == Pop(d)
      leaves == Len(d.stack) = d.link.tag
  IN MarkDepth([ IF Skims(d) THEN WidthPop(p) ELSE p EXCEPT !.line = IF leaves THEN @ + 1 ELSE @ ])

\* One turn of the loop of dvi_do_page or of vf_set_char.
Execute(d, i, id) ==
  CASE i.op = "set"    -> SetChar(d, i.char)
    [] i.op = "put"    -> PutChar(d, i.char)
    [] i.op = "glyphs" -> SetGlyphs(d, i.glyphs, i.by)
    [] i.op = "rule"   -> SetRule(d, i.by)
    [] i.op = "right"  -> MoveRight(d, i.by)
    [] i.op = "w"      -> MoveW(d, i.by)
    [] i.op = "w0"     -> MoveRight(d, d.w)
    [] i.op = "down"   -> MoveDown(d, i.by)
    [] i.op = "push"   -> IF InPacket(d) THEN Push(d) ELSE PushOp(d)
    [] i.op = "pop"    -> IF InPacket(d) THEN Pop(d) ELSE PopOp(d)
    [] i.op = "fnt"    -> SelectFont(d, i.font)
    [] i.op = "dir"    -> SetDir(d, i.dir)
    [] i.op = "breflect" -> BeginReflect(d)
    [] i.op = "ereflect" -> EndReflect(d)
    [] i.op = "xxx"    -> IF Skims(d) THEN d ELSE Special(d, i, id)

----------------------------------------------------------------------------
(* The pages. *)

Start(doc) ==
  [ status |-> "idle", doc |-> doc, left |-> doc.ops, pages |-> 0,
    frames |-> << >>, h |-> 0, v |-> 0, w |-> 0, d |-> 0, font |-> NoFont,
    stack |-> << >>, saved |-> << >>,
    lr |-> [mode |-> Left, width |-> 0, widths |-> << >>, state |-> << >>],
    link |-> [dict |-> NoLink, on |-> TRUE, boxes |-> FALSE, tag |-> -1, mark |-> 0,
              box |-> {}, broken |-> FALSE],
    own |-> [annot_dict |-> NoLink, pending |-> "none"],
    out |-> << >>, annots |-> << >>, line |-> 0 ]

DviInit == \E doc \in Documents : s = Start(doc)

Origin == [regs |-> [h |-> 0, v |-> 0, w |-> 0, d |-> 0], font |-> NoFont]

\* do_bop, clear_state
Bop ==
  /\ s.status = "idle" /\ s.pages < MaxPages
  /\ s' = [ WithRegs(s, Origin.regs) EXCEPT
              !.status = "page", !.pages = @ + 1, !.stack = << >>, !.font = NoFont,
              !.line = @ + 1,
              !.frames = << [code |-> s.doc.first, pc |-> 1, set |-> << >>, start |-> Origin,
                             below |-> 0, after |-> 0] >> ]

\* What instructions have opened and not yet closed.
Opens == {"push", "breflect"}
Closes == [pop |-> "push", ereflect |-> "breflect"]
Pending(code) ==
  LET after[n \in 0..Len(code)] ==
        IF n = 0 THEN << >>
        ELSE CASE code[n].op \in Opens -> Append(after[n - 1], code[n].op)
               [] code[n].op \in DOMAIN Closes -> Front(after[n - 1])
               [] OTHER -> after[n - 1]
  IN after[Len(code)]

\* TeX closes what it opens, in order; a link is begun in a line of text, and
\* links are suspended between lines.
IsSpecial(i, names) == i.op = "xxx" /\ i.special \in names
MayFollow(code, i) ==
  /\ i.op \in DOMAIN Closes =>
       Pending(code) # << >> /\ Last(Pending(code)) = Closes[i.op]
  /\ IsSpecial(i, {"bann", "href"}) => "push" \in ToSet(Pending(code))
  /\ IsSpecial(i, {"nolink"}) => Pending(code) = << >>
Formed(code) == \A n \in DOMAIN code : MayFollow(SubSeq(code, 1, n - 1), code[n])

----------------------------------------------------------------------------
(* What is given.  The instructions of a file are those of a typesetter:    *)
(* what it opens it closes, a document has links of one kind (they share    *)
(* one state, and one begun inside another loses the outer), and packets    *)
(* typeset text.  Reflected text is that of TeX--XeT: what it measures is   *)
(* what it moves by, which is not so of dvi_put, of the registers that      *)
(* dvi_w sets while skimming, of a change of direction and of packets.      *)

Instr ==
  [op : {"set", "put"}, char : Char]
    \cup [op : {"glyphs"}, by : Int, glyphs : Seq([x : Int, char : Char])]
    \cup [op : {"rule", "right", "w", "down"}, by : Int]
    \cup [op : {"w0", "push", "pop", "breflect", "ereflect"}]
    \cup [op : {"fnt"}, font : Font] \cup [op : {"dir"}, dir : {0, 1, 3}]
    \cup [op : {"xxx"}, special : {"bann", "eann", "href", "name", "close", "link", "nolink"}]

InstrsOf(doc) == ToSet(doc.first) \cup doc.then
ASSUME DocumentAssumption ==
  \A doc \in Documents :
    /\ doc.first \in Seq(Instr) /\ doc.then \subseteq Instr /\ doc.ops \in Nat
    /\ Formed(doc.first)
    /\ \A i, j \in InstrsOf(doc) : ~(IsSpecial(i, {"bann"}) /\ IsSpecial(j, {"href"}))
    /\ \A i, j \in InstrsOf(doc) :
         i.op = "breflect" => /\ j.op \notin {"put", "w", "w0", "dir"}
                              /\ j.op = "fnt" => Kind(j.font) # "virtual"

ASSUME PacketAssumption ==
  \A f \in HasVf : \A c \in DOMAIN Packets[f] :
    LET code == Packets[f][c]
    IN /\ code \in Seq(Instr) /\ Formed(code) /\ Pending(code) = << >>
       /\ \A n \in DOMAIN code : code[n].op \notin {"xxx", "breflect", "ereflect"}

----------------------------------------------------------------------------

Reading == s.status = "page" /\ ~InPacket(s) /\ Top(s).pc > Len(Top(s).code)

\* The next instruction of the page comes from the file, by way of the buffer.
Read ==
  /\ Reading /\ s.left > 0
  /\ \E i \in s.doc.then :
       /\ MayFollow(s.frames[1].code, i)
       /\ s' = [s EXCEPT !.frames[1].code = Append(@, i), !.left = @ - 1]

Step ==
  /\ s.status = "page" /\ Top(s).pc <= Len(Top(s).code)
  /\ LET f == Top(s)
     IN s' = Execute([s EXCEPT !.frames[Len(s.frames)].pc = @ + 1], f.code[f.pc], << s.pages, f.pc >>)

EndPacket ==
  /\ s.status = "page" /\ InPacket(s) /\ Top(s).pc > Len(Top(s).code)
  /\ s' = LeaveVf(s)

\* do_eop
Eop ==
  /\ Reading /\ Pending(Top(s).code) = << >>
  /\ s' = IF s.stack # << >> THEN Fail(s) ELSE [s EXCEPT !.status = "idle", !.frames = << >>]

DviNext == Bop \/ Read \/ Step \/ EndPacket \/ Eop

DviSpec == DviInit /\ [][DviNext]_s /\ WF_s(Step \/ EndPacket)
=============================================================================
