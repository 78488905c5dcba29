------------------------------ MODULE CffFont ------------------------------
(***************************************************************************)
(* What the fonts embedded as CFF have in common (type1.c, type1c.c,       *)
(* cidtype0.c): the assembly of a font file, and the subset of a CFF font  *)
(* as a simple font (type1c.c) or as a CIDFont (cidtype0.c).               *)
(*                                                                         *)
(* The charstrings are those of Type1Char and Type2Char seen from afar: a  *)
(* byte for the width (0 for the default width) and bytes for the glyph,   *)
(* in which LocalCall + n and GlobalCall + n stand for a subroutine.       *)
(***************************************************************************)
EXTENDS Cff

CONSTANT CodeMax    \* 255: the last character code of a simple font

Notdef == <<0>>
NULL   == <<>>                            \* no name in an encoding
Codes  == 0 .. CodeMax
LocalCall  == 200
GlobalCall == 220

Expand(body, gsubr, subrs) ==
    FlattenSeq([i \in DOMAIN body |->
        CASE body[i] \in LocalCall .. LocalCall + Len(subrs) - 1 -> subrs[body[i] - LocalCall + 1]
          [] body[i] \in GlobalCall .. GlobalCall + Len(gsubr) - 1 -> gsubr[body[i] - GlobalCall + 1]
          [] OTHER -> <<body[i]>>])

cs_copy_charstring(cs, gsubr, subrs, default, nominal) ==
    [code |-> <<Head(cs)>> \o Expand(Tail(cs), gsubr, subrs),
     wx |-> IF Head(cs) = 0 THEN default ELSE nominal + Head(cs)]

Number(d, key, default) == IF cff_dict_known(d, key) THEN cff_dict_get(d, key, 0) ELSE default

\* Ascending list of a set of numbers.
Ascending(S) == SetToSortSeq(S, LAMBDA a, b : a < b)

-----------------------------------------------------------------------------
(* write_fontfile of type1.c, and the end of pdf_font_load_type1c.          *)

cff_put_header == <<1, 0, 4, 4>>

\* The Top DICT is packed twice: for its size, and with the places of the
\* tables; the numbers that change have a fixed length.
WriteFontfile(font) ==
    LET need    == FoldLeft(LAMBDA d, k : cff_dict_add(d, k, 1), font.topdict,
                            <<"CharStrings", "charset", "Encoding">>)
        top     == cff_dict_add(need, "Private", 2)
        private == cff_dict_pack(font.private[1])
        head    == cff_put_header \o cff_pack_index(<<font.fontname>>)
        strings == cff_pack_index(font.string) \o cff_pack_index(font.gsubr)
        encoding == cff_pack_encoding(font)
        charset  == cff_pack_charsets(font)
        chars    == cff_pack_index(font.cstrings)
        at1 == Len(head) + cff_index_size(<<cff_dict_pack(top)>>) + Len(strings)
        at2 == at1 + Len(encoding)
        at3 == at2 + Len(charset)
        at4 == at3 + Len(chars)
        placed == FoldLeft(LAMBDA d, s : cff_dict_set(d, s[1], s[2], s[3]), top,
                           << <<"Encoding", 0, at1>>, <<"charset", 0, at2>>,
                              <<"CharStrings", 0, at3>>, <<"Private", 1, at4>>,
                              <<"Private", 0, Len(private)>> >>)
    IN  head \o cff_pack_index(<<cff_dict_pack(placed)>>) \o strings
        \o encoding \o charset \o chars \o private

-----------------------------------------------------------------------------
(* type1c.c.                                                                *)

\* add_SimpleMetrics: widths from the first used code to the last, unless .notdef is
\* the only glyph of the subset (each glyph after it was added for a code that stays used).
SimpleMetrics(num_glyphs, used, widths) ==
    LET first == CHOOSE c \in used : \A d \in used : c <= d
        last  == CHOOSE c \in used : \A d \in used : c >= d
    IN  IF num_glyphs <= 1 THEN [first |-> 0, widths |-> <<0>>]
        ELSE [first |-> first, widths |-> [i \in 1 .. last - first + 1 |->
                 IF first + i - 1 \in used THEN widths[first + i - 1] ELSE 0]]

\* The codes that stay used, in runs <<first, left>>.
Runs(codes) ==
    LET firsts == {c \in codes : c - 1 \notin codes}
        left(c) == Cardinality({d \in codes : d > c /\ \A e \in c .. d : e \in codes})
    IN  [i \in 1 .. Cardinality(firsts) |-> <<Ascending(firsts)[i], left(Ascending(firsts)[i])>>]

\* One code of the subset; acc = [used, new, glyphs, cstrings, supp, widths].
SubsetCode(file, font, chars, enc, acc, code) ==
    LET name == enc[code]
        orig == cff_get_sid(font, name)
        r    == IF orig \in 0 .. StdMax - 1 THEN <<acc.new, orig>>
                ELSE cff_add_string(acc.new, name, FALSE)
        gid  == IF orig < 0 THEN 0 ELSE cff_charsets_lookup_gid(font.charsets, orig)
        cs   == cs_copy_charstring(chars[gid + 1], font.gsubr, font.subrs[1],
                                   Number(font.private[1], "defaultWidthX", 0),
                                   Number(font.private[1], "nominalWidthX", 0))
    IN  IF code \notin acc.used \/ name \in {NULL, Notdef} THEN acc
        ELSE IF InSeq(acc.glyphs, r[2]) # {}
        THEN [acc EXCEPT !.supp = Append(@, <<code, r[2]>>), !.used = @ \ {code}]
        ELSE IF gid = 0 THEN [acc EXCEPT !.new = r[1], !.used = @ \ {code}]
        ELSE [acc EXCEPT !.new = r[1], !.glyphs = Append(@, r[2]),
                         !.cstrings = Append(@, cs.code), !.widths[code] = cs.wx]

pdf_font_load_type1c(file, usedchars, pdfenc) ==
    LET open == cff_open(file)
        chars == cff_get_index(file, cff_dict_get(open.topdict, "CharStrings", 0) + 1)[1]
        a    == [open EXCEPT !.charsets = cff_read_charsets(file, open)]
        b    == [a EXCEPT !.encoding = IF pdfenc = NULL THEN cff_read_encoding(file, a) ELSE @,
                          !.private = cff_read_private(file, a)]
        font == [b EXCEPT !.gsubr = cff_get_index(file, b.gsubr_offset)[1],
                          !.subrs = cff_read_subrs(file, b)]
        enc  == IF pdfenc # NULL THEN pdfenc
                ELSE [c \in Codes |-> IF c \in usedchars
                        THEN cff_get_glyphname(font, cff_encoding_lookup(font, c)) ELSE NULL]
        none == cs_copy_charstring(chars[1], font.gsubr, font.subrs[1],
                                   Number(font.private[1], "defaultWidthX", 0),
                                   Number(font.private[1], "nominalWidthX", 0))
        sub  == FoldLeft(LAMBDA acc, c : SubsetCode(file, font, chars, enc, acc, c),
                         [used |-> usedchars, new |-> <<>>, glyphs |-> <<>>,
                          cstrings |-> <<none.code>>, supp |-> <<>>,
                          widths |-> [c \in Codes |-> none.wx]],
                         [i \in 1 .. CodeMax + 1 |-> i - 1])
        listed == {c \in sub.used : enc[c] \notin {NULL, Notdef}}
        top  == cff_dict_update(font.topdict, font, sub.new)
        priv == cff_dict_update(font.private[1], font, top[2])
        new  == [font EXCEPT
                    !.charsets = Table(0, [i \in DOMAIN sub.glyphs |-> <<sub.glyphs[i], 0>>]),
                    !.encoding = [format |-> IF sub.supp = <<>> THEN 1 ELSE 129,
                                  ranges |-> Runs(listed), supp |-> sub.supp],
                    !.gsubr = <<>>, !.string = priv[2], !.cstrings = sub.cstrings,
                    !.topdict = cff_dict_remove(top[1], "UniqueID"),
                    !.private = <<cff_dict_remove(priv[1], "Subrs")>>]
    IN  [file |-> WriteFontfile(new), enc |-> pdfenc] @@ SimpleMetrics(Len(sub.cstrings), sub.used, sub.widths)

-----------------------------------------------------------------------------
(* cidtype0.c.                                                              *)

\* c [w ... w] for every run of glyphs whose width is not that of glyph 0.
AddCIDHMetrics(gidof, last_cid, advance) ==
    LET cids == SelectSeq([i \in 1 .. last_cid + 1 |-> i - 1],
                          LAMBDA c : gidof[c] + 1 \in DOMAIN advance /\ (c = 0 \/ gidof[c] # 0))
        w(c) == advance[gidof[c] + 1]
        \* acc = [runs, open]: a run stays open until a default width or a gap
        step(acc, c) ==
            IF w(c) = advance[1] THEN [acc EXCEPT !.open = FALSE]
            ELSE IF acc.open /\ c = Last(acc.runs).c + Len(Last(acc.runs).w)
            THEN [acc EXCEPT !.runs[Len(acc.runs)].w = Append(@, w(c))]
            ELSE [runs |-> Append(acc.runs, [c |-> c, w |-> <<w(c)>>]), open |-> TRUE]
    IN  [DW |-> advance[1], W |-> FoldLeft(step, [runs |-> <<>>, open |-> FALSE], cids).runs]

\* write_fontfile of cidtype0.c: the Private DICTs follow the array.
WriteCIDFontfile(font) ==
    LET top     == FoldLeft(cff_dict_remove, font.topdict, <<"UniqueID", "Private", "Encoding">>)
        privs   == [i \in DOMAIN font.private |-> cff_dict_pack(font.private[i])]
        fds     == [i \in DOMAIN font.fdarray |->
                        IF privs[i] = <<>> THEN cff_dict_remove(font.fdarray[i], "Private")
                        ELSE font.fdarray[i]]
        array(ds) == [i \in DOMAIN ds |-> cff_dict_pack(ds[i])]
        head    == cff_put_header \o cff_pack_index(<<font.fontname>>)
        strings == cff_pack_index(font.string) \o cff_pack_index(font.gsubr)
        charset == cff_pack_charsets(font)
        fdsel   == cff_pack_fdselect(font)
        chars   == cff_pack_index(font.cstrings)
        at1 == Len(head) + cff_index_size(<<cff_dict_pack(top)>>) + Len(strings)
        at2 == at1 + Len(charset)
        at3 == at2 + Len(fdsel)
        at4 == at3 + Len(chars)
        after(i) == at4 + cff_index_size(array(fds)) + Sum([k \in 1 .. i - 1 |-> Len(privs[k])])
        fds2 == [i \in DOMAIN fds |-> IF privs[i] = <<>> THEN fds[i]
                    ELSE cff_dict_set(cff_dict_set(fds[i], "Private", 0, Len(privs[i])),
                                      "Private", 1, after(i))]
        placed == FoldLeft(LAMBDA d, s : cff_dict_set(d, s[1], 0, s[2]), top,
                           << <<"charset", at1>>, <<"FDSelect", at2>>, <<"CharStrings", at3>>,
                              <<"FDArray", at4>> >>)
    IN  head \o cff_pack_index(<<cff_dict_pack(placed)>>) \o strings \o charset \o fdsel
        \o chars \o cff_pack_index(array(fds2)) \o FlattenSeq(privs)

\* The Font DICTs of the glyphs, a range for every change.
FdRanges(fds) ==
    LET starts == {i \in DOMAIN fds : i = 1 \/ fds[i] # fds[i - 1]}
    IN  [k \in 1 .. Cardinality(starts) |-> <<Ascending(starts)[k] - 1, fds[Ascending(starts)[k]]>>]

\* A CIDFont of a CID-keyed font: the glyphs keep their CIDs and Font DICTs.
CIDFont_type0_dofont(file, used_chars, advance) ==
    LET open  == cff_open(file)
        a     == [open EXCEPT !.charsets = cff_read_charsets(file, open)]
        gidof == [c \in 0 .. CodeMax |-> IF c \in used_chars \cup {0}
                    THEN cff_charsets_lookup_gid(a.charsets, c) ELSE 0]
        used  == {c \in used_chars \cup {0} : c = 0 \/ gidof[c] # 0}
        cids  == Ascending(used)
        b     == [a EXCEPT !.fdselect = cff_read_fdselect(file, a),
                           !.fdarray = cff_read_fdarray(file, a)]
        c     == [b EXCEPT !.private = cff_read_private(file, b)]
        font  == [c EXCEPT !.subrs = cff_read_subrs(file, c),
                           !.gsubr = cff_get_index(file, c.gsubr_offset)[1]]
        chars == cff_get_index(file, cff_dict_get(font.topdict, "CharStrings", 0) + 1)[1]
        fds   == [i \in DOMAIN cids |-> cff_fdselect_lookup(font, gidof[cids[i]])]
        new   == [font EXCEPT !.num_glyphs = Len(cids), !.gsubr = <<>>,
                    !.charsets = Table(0, [i \in 1 .. Len(cids) - 1 |-> <<cids[i + 1], 0>>]),
                    !.fdselect = Table(3, FdRanges(fds)),
                    !.cstrings = [i \in DOMAIN cids |->
                        cs_copy_charstring(chars[gidof[cids[i]] + 1], font.gsubr,
                                           font.subrs[fds[i] + 1], 0, 0).code],
                    !.private = [i \in DOMAIN font.private |-> cff_dict_remove(font.private[i], "Subrs")]]
    IN  [file |-> WriteCIDFontfile(new), metrics |-> AddCIDHMetrics(gidof, Last(cids), advance)]

\* The end of the CIDFonts made of fonts without CIDs: ROS with the strings
\* Adobe and Identity, and only the strings the DICTs still name.
Adobe    == <<201>>
Identity == <<202>>

IdentityROS(font, new) ==
    LET names == cff_add_string(cff_add_string(new, Adobe, TRUE)[1], Identity, TRUE)[1]
        top   == cff_dict_update(font.topdict, font, names)
        priv  == cff_dict_update(font.private[1], font, top[2])
        sid(name) == Num(cff_get_sid([string |-> priv[2]], name))
    IN  [font EXCEPT !.string = priv[2], !.private = <<priv[1]>>,
            !.topdict = Append(top[1], Entry("ROS", <<sid(Adobe), sid(Identity), Num(0)>>))]

\* As CIDFont_type0_dofont, of a font without CIDs: the CID is the glyph.
CIDFont_type0_t1cdofont(file, used_chars, advance) ==
    LET open  == cff_open(file)
        a     == [open EXCEPT !.private = cff_read_private(file, open)]
        font  == [a EXCEPT !.subrs = cff_read_subrs(file, a),
                           !.gsubr = cff_get_index(file, a.gsubr_offset)[1]]
        default == Number(font.private[1], "defaultWidthX", 0)
        nominal == Number(font.private[1], "nominalWidthX", 0)
        cids  == Ascending({c \in used_chars : c < 8 * ((font.num_glyphs + 7) \div 8)} \cup {0})
        last  == Last(cids)
        chars == cff_get_index(file, cff_dict_get(font.topdict, "CharStrings", 0) + 1)[1]
        named == cff_add_string(<<>>, font.fontname, TRUE)
        fd    == <<Entry("FontName", <<Num(named[2])>>), Entry("Private", <<Num(0), Num(0)>>)>>
        count == cff_dict_set(cff_dict_add(font.topdict, "CIDCount", 1), "CIDCount", 0, last + 1)
        added == FoldLeft(LAMBDA d, k : cff_dict_add(d, k, 1), count, <<"FDArray", "FDSelect">>)
        top   == FoldLeft(cff_dict_remove, added, <<"UniqueID", "Private", "Encoding">>)
        new   == [font EXCEPT !.topdict = top, !.fdarray = <<fd>>, !.num_glyphs = Len(cids),
                    !.gsubr = <<>>, !.private = <<cff_dict_remove(@[1], "Subrs")>>,
                    !.charsets = Table(0, [i \in 1 .. Len(cids) - 1 |-> <<cids[i + 1], 0>>]),
                    !.fdselect = Table(3, << <<0, 0>> >>),
                    !.cstrings = [i \in DOMAIN cids |->
                        cs_copy_charstring(chars[cids[i] + 1], font.gsubr, font.subrs[1],
                                           default, nominal).code]]
        gidof == [c \in 0 .. CodeMax |-> IF c \in ToSet(cids) THEN c ELSE 0]
    IN  [file |-> WriteCIDFontfile(IdentityROS(new, named[1])),
         metrics |-> AddCIDHMetrics(gidof, last, advance)]

=============================================================================
