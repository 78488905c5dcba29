----------------------------- MODULE Type1Font -----------------------------
(***************************************************************************)
(* Type 1 fonts: what t1_load.c reads of a font program, and the fonts     *)
(* made of it, a simple font (type1.c) and a CIDFont whose CIDs are the    *)
(* glyphs of the program (cidtype0.c).                                     *)
(*                                                                         *)
(* A program is a record: fontname; notice, a string or NULL; bbox, four   *)
(* numbers; encoding, the names of a standard array and the operations     *)
(* that change it; blues; lenIV; subrs, pairs <<number, bytes>>; chars,    *)
(* pairs <<name, bytes>>, and count, what /CharStrings says their number   *)
(* is.  Bytes are as in CffFont, with lenIV bytes to drop in front; a      *)
(* glyph may be <<width, Seac, accent, base>>.                             *)
(***************************************************************************)
EXTENDS CffFont

CONSTANT Seac    \* the byte of an accented glyph

Space == <<1>>

\* StandardEncoding, as seen from the names of CFF.
t1_get_standard_glyph(code) == IF code \in 1 .. StdMax - 1 THEN <<code>> ELSE NULL
StandardEncoding == [c \in Codes |-> t1_get_standard_glyph(c)]

-----------------------------------------------------------------------------
(* t1_load.c.                                                               *)

\* dup dup a exch b get put; dup dup a n getinterval b exch putinterval.
try_put_or_putinterval(enc, o) ==
    CASE o.op = "copy"     -> [enc EXCEPT ![o.to] = enc[o.from]]
      [] o.op = "interval" -> FoldLeft(LAMBDA e, i : IF e[o.from + i] = NULL THEN e
                                              ELSE [e EXCEPT ![o.to + i] = e[o.from + i]],
                                       enc, [i \in 1 .. o.n |-> i - 1])

parse_encoding(e) ==
    FoldLeft(LAMBDA enc, o : IF o.op = "put" THEN [enc EXCEPT ![o.to] = o.name]
                             ELSE try_put_or_putinterval(enc, o),
             IF e.standard THEN StandardEncoding ELSE [c \in Codes |-> NULL], e.ops)

Decrypted(b, lenIV) == IF lenIV >= 0 THEN SubSeq(b, lenIV + 1, Len(b)) ELSE b

\* The subroutines by number; those the program does not give are empty.
parse_subrs(subrs, count, lenIV) ==
    [i \in 1 .. count |->
        LET at == {k \in DOMAIN subrs : subrs[k][1] = i - 1}
        IN  IF at = {} THEN <<>>
            ELSE Decrypted(subrs[CHOOSE k \in at : \A j \in at : k >= j][2], lenIV)]

\* As GlyphOf of a reader that leaves .notdef where the program has it.
GlyphInOrder(i, name, before) == i

\* .notdef becomes glyph 0: what comes before it moves up.
GlyphOf(i, name, before) ==
    IF name = Notdef THEN 0 ELSE IF before THEN i + 1 ELSE i

\* Places count from 0 here; the glyphs read so far lie one after the other.
AddChar(lenIV, acc, char) ==
    LET i    == acc.i
        gid  == GlyphOf(i, char[1], acc.notdef = 0)
        body == Decrypted(char[2], lenIV)
        r    == cff_add_string(acc.new, char[1], FALSE)
    IN  [i |-> i + 1,
         notdef |-> IF char[1] = Notdef THEN 1 ELSE acc.notdef,
         new    |-> IF gid > 0 THEN r[1] ELSE acc.new,
         glyphs |-> IF gid > 0 THEN [acc.glyphs EXCEPT ![gid] = r[2]] ELSE acc.glyphs,
         data   |-> IF gid = 0 THEN body \o acc.data ELSE acc.data \o body,
         offset |-> [j \in DOMAIN acc.offset |->
                        IF j = gid THEN (IF gid = 0 THEN 0 ELSE Len(acc.data))
                        ELSE IF gid = 0 /\ j \in 1 .. i THEN acc.offset[j] + Len(body)
                        ELSE acc.offset[j]]]

parse_charstrings(prog, new) ==
    LET n == prog.count
        r == FoldLeft(LAMBDA acc, char : AddChar(prog.lenIV, acc, char),
                      [i |-> 0, notdef |-> 0, new |-> new, data |-> <<>>,
                       glyphs |-> [g \in 1 .. n - 1 |-> 0], offset |-> [j \in 0 .. n |-> 0]],
                      prog.chars)
        offset == [r.offset EXCEPT ![n] = Len(r.data)]
    IN  [new |-> r.new,
         cstrings |-> [g \in 1 .. n |-> SubSeq(r.data, offset[g - 1] + 1, offset[g])],
         charsets |-> Table(0, [g \in 1 .. n - 1 |-> <<r.glyphs[g], 0>>])]

parse_part1(prog) ==
    LET notice == cff_add_string(<<>>, prog.notice, IsStd(prog.notice))
        bbox   == Entry("FontBBox", [k \in 1 .. 4 |-> Num(prog.bbox[k])])
    IN  [topdict |-> IF prog.notice = NULL THEN <<bbox>>
                     ELSE <<bbox, Entry("Notice", <<Num(notice[2])>>)>>,
         new |-> IF prog.notice = NULL THEN <<>> ELSE notice[1]]

\* Arrays of a Private DICT are kept as differences.
parse_part2(prog) ==
    IF prog.blues = <<>> THEN <<>>
    ELSE <<Entry("BlueValues", [k \in DOMAIN prog.blues |->
               Num(prog.blues[k] - (IF k = 1 THEN 0 ELSE prog.blues[k - 1]))])>>

t1_load_font(prog) ==
    LET part1 == parse_part1(prog)
        chars == parse_charstrings(prog, part1.new)
        count == IF prog.subrs = <<>> THEN 0
                 ELSE 1 + FoldLeft(LAMBDA m, s : IF s[1] > m THEN s[1] ELSE m, 0, prog.subrs)
    IN  [fontname |-> prog.fontname, topdict |-> part1.topdict, string |-> chars.new,
         num_glyphs |-> prog.count, cidfont |-> FALSE, encoding |-> NoTable,
         charsets |-> chars.charsets, fdselect |-> NoTable, gsubr |-> <<>>,
         cstrings |-> chars.cstrings, fdarray |-> <<>>,
         private |-> <<parse_part2(prog)>>,
         subrs |-> <<parse_subrs(prog.subrs, count, prog.lenIV)>>]

-----------------------------------------------------------------------------
(* type1.c.                                                                 *)

t1char_get_metrics(cs) == Head(cs)

\* The charstring without subroutines, its width left out when it is the default.
t1char_convert_charstring(cs, subrs, default) ==
    [code |-> <<IF Head(cs) = default THEN 0 ELSE Head(cs)>> \o Expand(Tail(cs), <<>>, subrs),
     wx |-> Head(cs), seac |-> Len(cs) > 1 /\ cs[2] = Seac]

\* get_font_attr: a font without a glyph "space" takes .notdef for it.
DefaultWidth(font) ==
    LET w == t1char_get_metrics(font.cstrings[cff_glyph_lookup(font, Space) + 1])
    IN  IF w = 0 THEN font
        ELSE [font EXCEPT !.private = <<Append(@[1], Entry("defaultWidthX", <<Num(w)>>))>>]

\* The code written for a glyph that an earlier code shows already.
SuppCode(duplicate, code) == duplicate

\* One code; acc = [used, new, map, glyphs, ranges, supp, prev].
EncodeCode(font, enc, acc, code) ==
    LET name == enc[code]
        gid  == cff_glyph_lookup(font, name)
        same == {d \in acc.used : d < code /\ enc[d] = name}
        r    == cff_add_string(acc.new, name, TRUE)
        n    == Len(acc.ranges)
    IN  IF code \notin acc.used THEN acc
        ELSE IF name \in {NULL, Notdef} \/ gid = 0 THEN [acc EXCEPT !.used = @ \ {code}]
        ELSE IF same # {}
        THEN [acc EXCEPT !.new = r[1], !.supp = Append(@,
                  <<SuppCode(CHOOSE d \in same : \A e \in same : d <= e, code), r[2]>>)]
        ELSE [acc EXCEPT !.new = r[1], !.map = Append(@, gid), !.glyphs = Append(@, r[2]),
                         !.prev = code,
                         !.ranges = IF code = acc.prev + 1 THEN [@ EXCEPT ![n][2] = @ + 1]
                                    ELSE Append(@, <<code, 0>>)]

\* The parts of an accented glyph join the subset unless they are in it.
AddPart(font, acc, code) ==
    LET name == t1_get_standard_glyph(code)
        gid  == cff_glyph_lookup(font, name)
    IN  IF gid \in ToSet(acc.map) THEN acc
        ELSE [acc EXCEPT !.map = Append(@, gid), !.glyphs = Append(@, name[1])]

\* The charstrings of the subset, which grows while they are converted.
RECURSIVE ConvertFrom(_, _, _, _)
ConvertFrom(font, default, acc, at) ==
    LET cs  == font.cstrings[acc.map[at] + 1]
        r   == t1char_convert_charstring(cs, font.subrs[1], default)
        out == [acc EXCEPT !.cstrings = Append(@, r.code), !.widths = Append(@, r.wx)]
    IN  IF at > Len(acc.map) THEN acc
        ELSE ConvertFrom(font, default,
                IF r.seac THEN AddPart(font, AddPart(font, out, cs[3]), cs[4]) ELSE out, at + 1)

\* add_metrics of type1.c: by the names, so that two codes of a glyph have its width.
Type1Metrics(font, enc, used, widths) ==
    SimpleMetrics(Len(widths), used, [c \in Codes |->
        IF c \in used THEN widths[cff_glyph_lookup(font, enc[c]) + 1] ELSE 0])

pdf_font_load_type1(prog, usedchars, pdfenc) ==
    LET font == DefaultWidth(t1_load_font(prog))
        enc  == IF pdfenc # NULL THEN pdfenc ELSE parse_encoding(prog.encoding)
        default == Number(font.private[1], "defaultWidthX", 0)
        e    == FoldLeft(LAMBDA acc, c : EncodeCode(font, enc, acc, c),
                         [used |-> usedchars, new |-> <<>>, map |-> <<0>>, glyphs |-> <<>>,
                          ranges |-> <<>>, supp |-> <<>>, prev |-> -2],
                         [i \in 1 .. CodeMax + 1 |-> i - 1])
        c    == ConvertFrom(font, default, [map |-> e.map, glyphs |-> e.glyphs,
                                            cstrings |-> <<>>, widths |-> <<>>], 1)
        top  == cff_dict_update(font.topdict, font, e.new)
        priv == cff_dict_update(font.private[1], font, top[2])
        new  == [font EXCEPT
                    !.encoding = [format |-> IF e.supp = <<>> THEN 1 ELSE 129,
                                  ranges |-> e.ranges, supp |-> e.supp],
                    !.charsets = Table(0, [i \in DOMAIN c.glyphs |-> <<c.glyphs[i], 0>>]),
                    !.cstrings = c.cstrings, !.string = priv[2],
                    !.topdict = top[1], !.private = <<priv[1]>>]
    IN  [file |-> WriteFontfile(new), enc |-> pdfenc] @@ Type1Metrics(new, enc, e.used, c.widths)

-----------------------------------------------------------------------------
(* A CIDFont of a Type 1 program (cidtype0.c).                              *)

\* The width most glyphs have; the smallest of them.
MostFrequent(ws) ==
    LET times(w) == Cardinality({i \in DOMAIN ws : ws[i] = w})
        most == {w \in ToSet(ws) : \A v \in ToSet(ws) : times(v) <= times(w)}
    IN  CHOOSE w \in most : \A v \in most : w <= v

\* add_metrics of cidtype0.c: c c w for every other width.
CIDMetrics(cids, widths, dw) ==
    LET differ == SelectSeq([i \in DOMAIN cids |-> i], LAMBDA i : widths[i] # dw)
    IN  [DW |-> dw, W |-> [k \in DOMAIN differ |-> [c |-> cids[differ[k]], w |-> <<widths[differ[k]]>>]]]

\* The charstrings of the used glyphs; not for accented glyphs.
CIDFont_type0_t1dofont(prog, used_chars) ==
    LET load == DefaultWidth(t1_load_font(prog))
        default == Number(load.private[1], "defaultWidthX", 0)
        cids == Ascending({c \in used_chars : c < 8 * ((load.num_glyphs + 7) \div 8)} \cup {0})
        made == [i \in DOMAIN cids |-> t1char_convert_charstring(load.cstrings[cids[i] + 1],
                                                                load.subrs[1], default)]
        widths == [i \in DOMAIN cids |-> made[i].wx]
        named == cff_add_string(<<>>, load.fontname, TRUE)
        fd    == <<Entry("FontName", <<Num(named[2])>>), Entry("Private", <<Num(0), Num(0)>>)>>
        count == cff_dict_set(cff_dict_add(load.topdict, "CIDCount", 1), "CIDCount", 0, Last(cids) + 1)
        top   == FoldLeft(LAMBDA d, k : cff_dict_add(d, k, 1), count,
                          <<"FDArray", "FDSelect", "charset", "CharStrings">>)
        new   == [load EXCEPT !.topdict = top, !.fdarray = <<fd>>, !.num_glyphs = Len(cids),
                    !.charsets = Table(0, [i \in 1 .. Len(cids) - 1 |-> <<cids[i + 1], 0>>]),
                    !.fdselect = Table(3, << <<0, 0>> >>),
                    !.cstrings = [i \in DOMAIN cids |-> made[i].code]]
    IN  IF \E i \in DOMAIN cids : made[i].seac THEN [file |-> NULL, metrics |-> [DW |-> 0, W |-> <<>>]]
        ELSE [file |-> WriteCIDFontfile(IdentityROS(new, named[1])),
              metrics |-> CIDMetrics(cids, widths, MostFrequent(widths))]

=============================================================================
