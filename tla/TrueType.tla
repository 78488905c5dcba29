------------------------------ MODULE TrueType ------------------------------
(***************************************************************************)
(* Embedding TrueType outlines: the subset that is built (tt_glyf.c), the  *)
(* glyphs of the names in an encoding (truetype.c) and the glyphs of CIDs  *)
(* (cidtype2.c).  None stands for an error that ends the font.             *)
(***************************************************************************)
EXTENDS Gsub

Bit(flags, k)  == (flags \div 2^k) % 2 = 1
PDFUNIT(v, em) == (1000 * v + (em \div 2)) \div em

-----------------------------------------------------------------------------
(* tt_glyf.c: the glyphs of the subset; gid is the new number of one, ogid  *)
(* its number in the font.  The bounding box of a new one is not set: its   *)
(* ury is whatever the memory holds, and stays so without an outline.       *)

Desc(gid, ogid, ury) == [gid |-> gid, ogid |-> ogid, advw |-> 0, lsb |-> 0, advh |-> 0, tsb |-> 0,
                         ury |-> ury, data |-> <<>>]

tt_build_init(unset) == [gd |-> <<Desc(0, 0, unset)>>, last_gid |-> 0, emsize |-> 1, dw |-> 0,
                         default_advh |-> 0, default_tsb |-> 0, unset |-> unset]

UsedSlots(g) == {g.gd[i].gid : i \in DOMAIN g.gd}
find_empty_slot(g) == CHOOSE n \in 0 .. Len(g.gd) : n \notin UsedSlots(g) /\ 0 .. n - 1 \subseteq UsedSlots(g)

tt_find_glyph(g, gid) ==
    LET at == {i \in DOMAIN g.gd : g.gd[i].ogid = gid} IN IF at = {} THEN 0 ELSE g.gd[Min(at)].gid
\* As tt_get_index of a reader that takes the number of the font.
IndexOfOld(g, gid) ==
    LET at == {i \in DOMAIN g.gd : g.gd[i].ogid = gid} IN IF at = {} THEN 1 ELSE Min(at)
\* The place of a glyph, that of .notdef when there is none.
tt_get_index(g, gid) ==
    LET at == {i \in DOMAIN g.gd : g.gd[i].gid = gid} IN IF at = {} THEN 1 ELSE Min(at)

tt_add_glyph(g, gid, new) ==
    [g EXCEPT !.gd = IF new \in UsedSlots(g) THEN @ ELSE Append(@, Desc(new, gid, g.unset)),
              !.last_gid = Max({@, new})]

\* What is read of the font before its glyphs.
FontTables(s) ==
    LET f    == s.file
        head == tt_read_head_table(s)
        n    == tt_read_maxp_table(s).numGlyphs
        hhea == tt_read_hhea_table(s)
        vhea == tt_read_vhea_table(s)
        loca == sfnt_find_table_pos(s, TagLoca)
    IN  [num |-> n, em |-> head.unitsPerEm, glyf |-> sfnt_find_table_pos(s, TagGlyf),
         hmtx |-> tt_read_longMetrics(f, sfnt_find_table_pos(s, TagHmtx), n,
                                      hhea.numOfLongHorMetrics, hhea.numOfExSideBearings),
         os2  |-> tt_read_os2__table(s),
         vmtx |-> IF sfnt_find_table_pos(s, TagVmtx) = 0 THEN None
                  ELSE <<tt_read_longMetrics(f, sfnt_find_table_pos(s, TagVmtx), n,
                                             vhea.numOfLongVerMetrics, vhea.numOfExSideBearings)>>,
         loca |-> [i \in 0 .. n |-> IF head.indexToLocFormat = 0 THEN 2 * UShort(f, loca + 2 * i)
                                    ELSE ULong(f, loca + 4 * i)]]

WithDefaults(g, t) ==
    LET h == t.os2.sTypoAscender - t.os2.sTypoDescender
    IN  [g EXCEPT !.emsize = t.em, !.default_advh = h, !.default_tsb = h - t.os2.sTypoAscender]

\* Metrics and outline of one glyph.
ReadGlyph(g, d, t, s) ==
    LET words == (t.loca[d.ogid + 1] - t.loca[d.ogid]) \div 2
        data  == UShorts(s.file, t.glyf + t.loca[d.ogid], words)
        ury   == IF data = <<>> THEN d.ury ELSE Short(s.file, t.glyf + t.loca[d.ogid] + 8)
    IN  [d EXCEPT !.advw = t.hmtx[d.ogid].advance, !.lsb = t.hmtx[d.ogid].sideBearing, !.ury = ury,
                  !.data = data,
                  !.advh = IF t.vmtx = None THEN g.default_advh ELSE t.vmtx[1][d.ogid].advance,
                  !.tsb = IF t.vmtx # None THEN t.vmtx[1][d.ogid].sideBearing
                          ELSE IF data = <<>> THEN g.default_tsb
                          ELSE g.default_advh - g.default_tsb - ury]

\* The components of a composite get their new numbers; a component that the
\* subset has not is added in the first empty slot.
RECURSIVE FixComponents(_, _, _, _)
FixComponents(g, data, p, num) ==
    LET flags == data[p]
        cgid  == data[p + 1]
        added == IF tt_find_glyph(g, cgid) = 0 THEN tt_add_glyph(g, cgid, find_empty_slot(g)) ELSE g
        new   == IF tt_find_glyph(g, cgid) = 0 THEN find_empty_slot(g) ELSE tt_find_glyph(g, cgid)
        fixed == [data EXCEPT ![p + 1] = new]
        next  == p + 2 + (IF Bit(flags, 0) THEN 2 ELSE 1)
                 + (IF Bit(flags, 3) THEN 1 ELSE IF Bit(flags, 6) THEN 2 ELSE IF Bit(flags, 7) THEN 4 ELSE 0)
    IN  IF p > Len(data) \/ cgid >= num THEN None
        ELSE IF Bit(flags, 5) THEN FixComponents(added, fixed, next, num)
        ELSE <<[g |-> added, data |-> fixed]>>

\* Fewer than the ten bytes that every outline begins with.
TooShort(d) == Len(d.data) \in 1 .. 4
IsComposite(data) == data # <<>> /\ data[1] >= 32768

\* The list grows while it is read.
RECURSIVE ReadGlyphs(_, _, _, _)
ReadGlyphs(g, i, t, s) ==
    LET d   == ReadGlyph(g, g.gd[i], t, s)
        fix == FixComponents(g, d.data, 6, t.num)
    IN  IF i > Len(g.gd) THEN <<g>>
        ELSE IF g.gd[i].ogid >= t.num \/ TooShort(d) THEN None
        ELSE IF ~IsComposite(d.data) THEN ReadGlyphs([g EXCEPT !.gd[i] = d], i + 1, t, s)
        ELSE IF fix = None THEN None
        ELSE ReadGlyphs([fix[1].g EXCEPT !.gd[i] = [d EXCEPT !.data = fix[1].data]], i + 1, t, s)

\* The advance width up to an em that most glyphs have, the smallest of them.
CommonWidth(g) ==
    LET count(w) == Cardinality({i \in DOMAIN g.gd : g.gd[i].advw = w})
        ws == {g.gd[i].advw : i \in DOMAIN g.gd} \cap (0 .. g.emsize)
    IN  IF ws = {} THEN 0 ELSE Min({w \in ws : \A v \in ws : count(v) <= count(w)})

PackedWords(d) == Len(d.data) + (Len(d.data) % 2)

\* hmtx, loca and glyf of the subset; a number without a glyph is empty.
PackTables(s, g) ==
    LET n     == Len(g.gd)
        lastw == g.gd[n].advw
        other == {i \in 1 .. n : g.gd[i].advw # lastw}
        long  == IF other = {} THEN 1 ELSE g.gd[Max(other)].gid + 2
        size  == FoldLeft(LAMBDA a, d : a + PackedWords(d), 0, g.gd)
        short == 2 * size < GlyfLimit
        slot(k) == {i \in 1 .. n : g.gd[i].gid = k}
        advw(k) == IF slot(k) # {} THEN g.gd[Min(slot(k))].advw ELSE IF k = long - 1 THEN lastw ELSE 0
        lsb(k)  == IF slot(k) # {} THEN g.gd[Min(slot(k))].lsb % Word ELSE 0
        start(k) == FoldLeft(LAMBDA a, d : IF d.gid < k THEN a + PackedWords(d) ELSE a, 0, g.gd)
        hmtx == FlattenSeq([k \in 1 .. g.last_gid + 1 |->
                    (IF k - 1 < long THEN <<advw(k - 1)>> ELSE <<>>) \o <<lsb(k - 1)>>])
        loca == FlattenSeq([k \in 1 .. g.last_gid + 2 |->
                    IF short THEN <<start(k - 1)>> ELSE sfnt_put_ulong(2 * start(k - 1))])
        glyf == FlattenSeq([i \in 1 .. n |-> g.gd[i].data \o [k \in 1 .. Len(g.gd[i].data) % 2 |-> 0]])
        one  == sfnt_set_table(sfnt_set_table(sfnt_set_table(s, TagHmtx, hmtx), TagLoca, loca), TagGlyf, glyf)
        two  == sfnt_set_table(one, TagMaxp, tt_pack_maxp_table([numGlyphs |-> g.last_gid + 1]))
        thr  == sfnt_set_table(two, TagHhea, tt_pack_hhea_table([numOfLongHorMetrics |-> long]))
    IN  sfnt_set_table(thr, TagHead, tt_pack_head_table([unitsPerEm |-> g.emsize,
                                         indexToLocFormat |-> IF short THEN 0 ELSE 1]))

InOrder(gd) == SortSeq(gd, LAMBDA a, b : a.gid < b.gid)

tt_build_tables(s, g) ==
    LET t    == FontTables(s)
        read == ReadGlyphs(WithDefaults(g, t), 1, t, s)
        done == [read[1] EXCEPT !.dw = CommonWidth(read[1]), !.gd = InOrder(@)]
    IN  IF read = None THEN None ELSE <<[s |-> PackTables(s, done), g |-> done]>>

\* The metrics only, for a font that is not embedded.
tt_get_metrics(s, g) ==
    LET t    == FontTables(s)
        from == WithDefaults(g, t)
        read == [from EXCEPT !.gd = FoldLeft(LAMBDA acc, d : Append(acc, ReadGlyph(from, d, t, s)), <<>>, @)]
    IN  IF \E i \in DOMAIN g.gd : g.gd[i].ogid >= t.num \/ TooShort(read.gd[i]) THEN None
        ELSE <<[s |-> s, g |-> [read EXCEPT !.dw = CommonWidth(read)]]>>

-----------------------------------------------------------------------------
(* truetype.c: a simple font.                                               *)

MAC == 1  WIN == 3  MAC_ROMAN == 0  WIN_UNICODE == 1  WIN_UCS4 == 10

\* A table for Mac-Roman of format 0; codes are the entries.
CmapTable(codes) == <<0, 1, MAC, MAC_ROMAN, 0, 12, 0, 262, 0>> \o codes
EmptyCodes == [c \in 1 .. CodeMax + 1 |-> 0]

\* The code reads an entry as a char, which has a sign.
AsChar(b) == IF b > CodeMax \div 2 THEN (b - CodeMax - 1) % Word ELSE b

\* The widths from the first to the last used code; unused codes have none.
do_widths(used, codes, g) ==
    IF used = {} THEN None
    ELSE <<[first |-> Min(used),
            widths |-> [k \in 1 .. Max(used) - Min(used) + 1 |->
               LET c == Min(used) + k - 1
               IN  IF c \in used THEN PDFUNIT(g.gd[tt_get_index(g, AsChar(codes[c + 1]))].advw, g.emsize)
                   ELSE 0]]>>

Finished(s, st, used) ==
    LET built == tt_build_tables(s, st.g)
    IN  IF built = None THEN None
        ELSE <<[s |-> sfnt_set_table(built[1].s, TagCmap, CmapTable(st.codes)),
                widths |-> do_widths(used, st.codes, built[1].g)]>>

UsedCodes(used) == IF used = {} THEN <<>>
                   ELSE SelectSeq([i \in 1 .. Max(used) + 1 |-> i - 1], LAMBDA c : c \in used)

\* The number counts codes, also those that share a glyph or have none.
do_builtin_encoding(s, used) ==
    LET m == tt_cmap_read(s, MAC, MAC_ROMAN)
        add(st, c) ==
            LET gid == tt_cmap_lookup(m[1], c)
                old == tt_find_glyph(st.g, gid)
                new == gid # 0 /\ old = 0
                idx == IF gid = 0 THEN 0 ELSE IF new THEN st.count ELSE old
            IN  [g |-> IF new THEN tt_add_glyph(st.g, gid, st.count) ELSE st.g,
                 codes |-> [st.codes EXCEPT ![c + 1] = idx % (CodeMax + 1)], count |-> st.count + 1]
    IN  IF m = None THEN None
        ELSE Finished(s, FoldLeft(add, [g |-> tt_build_init(0), codes |-> EmptyCodes, count |-> 1],
                                  UsedCodes(used)), used)

-----------------------------------------------------------------------------
(* The glyph of a name.  gm is the mapper: post, the glyph names of the     *)
(* font, cmap, its Unicode map, s, the font, and agl, the glyph list.  A    *)
(* result is whether it failed and the value that is left in gid; the       *)
(* substitutions that the code keeps are read anew here.                    *)

Result(error, gid) == [error |-> error, gid |-> gid]
Found(gid, was)    == IF gid > 0 THEN Result(FALSE, gid) ELSE Result(TRUE, was)

select_gsub(feat, gm) ==
    LET opt == [script |-> ANY, language |-> ANY, feature |-> feat]
    IN  otl_gsub_select(otl_gsub_add_feat(otl_gsub_new, opt, gm.s), opt)

Applied(gid, in) == IF gid < 0 THEN Result(TRUE, in) ELSE Result(FALSE, gid)

IsDigit(c) == c \in 48 .. 57
Value(digits) == FoldLeft(LAMBDA a, c : 10 * a + c - 48, 0, digits)

\* A suffix that ends in a number names an alternate; the name of its feature
\* is not padded, and a shorter one selects every feature.
Alternate(in, suffix, gm) ==
    LET at   == {i \in DOMAIN suffix : ~IsDigit(suffix[i])} \cup {1}
        stem == SubSeq(suffix, 1, Max(at))
        list == select_gsub(stem, gm)
        alt  == (Value(SubSeq(suffix, Max(at) + 1, Len(suffix))) - 1) % Word
    IN  IF Len(stem) = 1 \/ Len(stem) > 4 \/ list.select < 0 THEN Result(TRUE, in)
        ELSE Applied(otl_gsub_apply_alt(list, alt, in), in)

selectglyph(in, suffix, gm) ==
    LET tag  == agl_suffix_to_otltag(suffix)
        list == select_gsub(IF tag # None THEN tag[1] ELSE Padding(suffix), gm)
    IN  IF (tag # None \/ Len(suffix) <= 4) /\ list.select >= 0 THEN Applied(otl_gsub_apply(list, in), in)
        ELSE IF tag # None THEN Result(TRUE, in)
        ELSE Alternate(in, suffix, gm)

\* "(?lig|lig?|?cmp|cmp?|frac|afrc)"
LIG  == <<108, 105, 103>>
CMP  == <<99, 109, 112>>
FRAC == <<102, 114, 97, 99>>
AFRC == <<97, 102, 114, 99>>
LigFeatures ==
    <<Open, Query>> \o LIG \o <<Bar>> \o LIG \o <<Query, Bar, Query>> \o CMP \o <<Bar>> \o CMP
    \o <<Query, Bar>> \o FRAC \o <<Bar>> \o AFRC \o <<Close>>

composeglyph(gids, feat, gm, was) ==
    LET list == select_gsub(IF feat = None THEN LigFeatures ELSE Padding(feat), gm)
    IN  IF Len(feat) > 4 \/ list.select < 0 THEN Result(TRUE, was)
        ELSE Applied(otl_gsub_apply_lig(list, gids), was)

composeuchar(unicodes, gm, was) ==
    LET gids == [i \in DOMAIN unicodes |-> tt_cmap_lookup(gm.cmap[1], unicodes[i])]
    IN  IF \E i \in DOMAIN gids : gids[i] = 0 THEN Result(TRUE, was) ELSE composeglyph(gids, <<>>, gm, was)

findposttable(name, gm, was) ==
    IF gm.post = None THEN Result(TRUE, was)
    ELSE LET gid == tt_lookup_post_table(gm.post[1], name) IN Result(gid = 0, gid)

\* The alternatives of a name in turn, until one has a glyph.
RECURSIVE findparanoiac(_, _, _)
RECURSIVE FirstOf(_, _, _)
FirstOf(alts, gm, was) ==
    LET a    == alts[1]
        base == findparanoiac(a.name, gm, 0)
        idx  == CASE a.suffix # NoVar -> selectglyph(base.gid, a.suffix, gm).gid
                  [] Len(a.unicodes) = 1 -> tt_cmap_lookup(gm.cmap[1], a.unicodes[1])
                  [] OTHER -> composeuchar(a.unicodes, gm, 0).gid
    IN  IF alts = <<>> THEN Result(TRUE, 0)
        ELSE IF a.suffix # NoVar /\ base.error THEN Result(TRUE, was)
        ELSE IF idx = 0 THEN FirstOf(Tail(alts), gm, was) ELSE Result(FALSE, idx)
findparanoiac(part, gm, was) == FirstOf(agl_lookup_list(gm.agl, part), gm, was)

resolve_glyph(name, gm, was) ==
    LET post == findposttable(name, gm, was)
        chop == agl_chop_suffix(name)
        part == name.parts[1]
        ucv  == agl_name_convert_unicode(part)
        base == IF chop.name = None THEN Result(TRUE, post.gid)
                ELSE IF agl_name_is_unicode(part)
                     THEN LET gid == IF ucv < 0 THEN 0 ELSE tt_cmap_lookup(gm.cmap[1], ucv)
                          IN  Result(gid = 0, gid)
                ELSE findparanoiac(part, gm, post.gid)
    IN  IF ~post.error \/ gm.cmap = None THEN post
        ELSE IF base.error \/ chop.suffix = None THEN base
        ELSE Result(FALSE, selectglyph(base.gid, chop.suffix, gm).gid)

LIGA == <<108, 105, 103, 97>>
DLIG == <<100, 108, 105, 103>>
HLIG == <<104, 108, 105, 103>>
CCMP == <<99, 99, 109, 112>>
agl_decompose_glyphname(name) == [i \in DOMAIN name.parts |-> Name(name.parts[i])]

findcomposite(name, gm, was) ==
    LET post  == findposttable(name, gm, was)
        parts == agl_decompose_glyphname(name)
        each  == [i \in DOMAIN parts |-> resolve_glyph(parts[i], gm, 0)]
        gids  == [i \in DOMAIN each |-> each[i].gid]
        all   == composeglyph(gids, <<>>, gm, post.gid)
    IN  IF ~post.error THEN post
        ELSE IF \E i \in DOMAIN each : each[i].error THEN Result(TRUE, post.gid)
        ELSE IF name.suffix \in {LIGA, DLIG, HLIG, FRAC, CCMP, AFRC} THEN composeglyph(gids, name.suffix, gm, post.gid)
        ELSE IF all.error \/ name.suffix = None THEN all
        ELSE selectglyph(all.gid, name.suffix, gm)

setup_glyph_mapper(s, agl, names) ==
    LET ucs4 == tt_cmap_read(s, WIN, WIN_UCS4)
    IN  [post |-> tt_read_post_table(s, names.standard, names.extra), s |-> s, agl |-> agl,
         cmap |-> IF ucs4 # None THEN ucs4 ELSE tt_cmap_read(s, WIN, WIN_UNICODE)]

\* enc is the encoding: a name, or NoName, for every code.  A glyph that is
\* not found leaves gid as it is, at first undefined (junk), and is used.
NoName == [parts |-> <<>>, suffix |-> None]
do_custom_encoding(s, enc, used, agl, names, junk) ==
    LET gm == setup_glyph_mapper(s, agl, names)
        add(st, c) ==
            LET name == enc[c]
                r    == IF Len(name.parts) > 1 THEN findcomposite(name, gm, st.gid)
                        ELSE resolve_glyph(name, gm, st.gid)
                old  == tt_find_glyph(st.g, r.gid)
                new  == name # NoName /\ old = 0
            IN  [g |-> IF new THEN tt_add_glyph(st.g, r.gid, st.count) ELSE st.g,
                 codes |-> [st.codes EXCEPT ![c + 1] =
                               (IF name = NoName THEN 0 ELSE IF new THEN st.count ELSE old) % (CodeMax + 1)],
                 count |-> IF new THEN st.count + 1 ELSE st.count,
                 gid |-> IF name = NoName THEN st.gid ELSE r.gid]
    IN  IF gm.post = None /\ gm.cmap = None THEN None
        ELSE Finished(s, FoldLeft(add, [g |-> tt_build_init(0), codes |-> EmptyCodes, count |-> 1, gid |-> junk],
                                  UsedCodes(used)), used)

\* The font in its file: one of a collection, a resource, or the file itself.
OpenFont(file, index, dfont) ==
    LET s == sfnt_open(file)
        d == dfont_open(file, index)
        offset == ttc_read_offset(s, index)
    IN  CASE dfont -> IF d = None THEN None ELSE <<sfnt_read_table_directory(d[1], d[1].offset)>>
          [] s.type = "TTC" -> IF offset = 0 THEN None ELSE <<sfnt_read_table_directory(s, offset)>>
          [] s.type = "TRUETYPE" -> <<sfnt_read_table_directory(s, 0)>>
          [] OTHER -> None

Required == {TagHead, TagHhea, TagLoca, TagMaxp, TagName, TagGlyf, TagHmtx}
Embedded(s, tables) ==
    LET all == FoldLeft(sfnt_require_table, s, UsedCodes(tables \cup {TagOs2}))
    IN  IF \E t \in tables : find_table_index(s, t) = 0 THEN None ELSE <<sfnt_create_FontFile_stream(all)>>

pdf_font_load_truetype(font) ==
    LET s == OpenFont(font.file, font.index, font.dfont)
        r == IF font.enc = None THEN do_builtin_encoding(s[1], font.used)
             ELSE do_custom_encoding(s[1], font.enc[1], font.used, font.agl, font.names, font.junk)
        out == Embedded(r[1].s, Required \cup {TagCmap})
    IN  IF s = None \/ r = None THEN None
        ELSE IF out = None THEN None
        ELSE <<[file |-> out[1], widths |-> r[1].widths]>>

-----------------------------------------------------------------------------
(* cidtype2.c: a CIDFont.                                                   *)

CJK == {<<8212, 8213>>, <<8214, 8741>>, <<8254, 65507>>, <<8230, 8943>>, <<8722, 65293>>,
        <<12316, 65374>>, <<65504, 162>>, <<65505, 163>>, <<65506, 172>>}
fix_CJK_symbols(code) ==
    LET on == {p \in CJK : code \in {p[1], p[2]}}
        p  == CHOOSE q \in on : TRUE
    IN  IF on = {} THEN code ELSE IF p[1] = code THEN p[2] ELSE p[1]

\* A CMap is what it makes of every CID: a sequence of bytes, empty for a CID
\* it does not know.
Byte == 256
UC_UTF16BE_decode_char(b) ==
    LET hi == b[1] * Byte + b[2]  lo == b[3] * Byte + b[4]
    IN  IF hi \in 55296 .. 56319 /\ lo \in 56320 .. 57343 THEN 65536 + (hi - 55296) * 1024 + (lo - 56320)
        ELSE -1
cid_to_code(cmap, cid, unicode) ==
    LET out == cmap[1][cid]
    IN  IF cmap = None THEN cid
        ELSE CASE Len(out) = 1 -> out[1]
               [] Len(out) = 2 -> out[1] * Byte + out[2]
               [] Len(out) = 4 /\ unicode -> UC_UTF16BE_decode_char(out)
               [] OTHER -> -1
cid_to_gid(cmap, cid) == IF Len(cmap[cid]) # 2 THEN 0 ELSE cmap[cid][1] * Byte + cmap[cid][2]

SJIS == 2  RPC == 3  BIG5 == 4  WANSUNG == 5
KnownEncodings == << <<WIN, WIN_UCS4>>, <<WIN, WIN_UNICODE>>, <<WIN, SJIS>>, <<WIN, RPC>>,
                     <<WIN, BIG5>>, <<WIN, WANSUNG>>, <<MAC, 1>>, <<MAC, 2>>, <<MAC, 25>>, <<MAC, 3>> >>
UcsMax == 2

\* The first character map of the font that is known, with its place.
KnownCmap(s) ==
    LET at == {i \in DOMAIN KnownEncodings : tt_cmap_read(s, KnownEncodings[i][1], KnownEncodings[i][2]) # None}
        i  == Min(at)
    IN  IF at = {} THEN None
        ELSE <<[select |-> i, cmap |-> tt_cmap_read(s, KnownEncodings[i][1], KnownEncodings[i][2])[1]]>>

\* The first CMap there is for what the encoding is called.
find_tocode_cmap(font, select) == font.tocode[select]

\* How the CIDs of the font become glyphs; None when that cannot be known.
MapOf(font, s) ==
    LET known  == KnownCmap(s)
        ucs    == known[1].select <= UcsMax
        tocode == find_tocode_cmap(font, known[1].select)
    IN  CASE font.identity -> <<[type |-> "glyph_ordering"]>>
          [] ~font.identity /\ font.togid # None -> <<[type |-> "via_cid_to_gid", cmap |-> font.togid[1]]>>
          [] OTHER ->
                IF known = None THEN None
                ELSE IF font.ucs /\ ucs
                     THEN <<[type |-> "via_cid_to_code", cmap |-> None, tt |-> known[1].cmap, unicode |-> ucs]>>
                ELSE IF tocode = None THEN None
                ELSE <<[type |-> "via_cid_to_code", cmap |-> tocode, tt |-> known[1].cmap, unicode |-> ucs]>>

GlyphOfCid(map, cid) ==
    LET code == cid_to_code(map.cmap, cid, map.unicode)
        gid  == tt_cmap_lookup(map.tt, code)
    IN  CASE map.type = "glyph_ordering" -> cid
          [] map.type = "via_cid_to_gid" -> cid_to_gid(map.cmap, cid)
          [] OTHER -> IF code < 0 THEN 0
                      ELSE IF gid = 0 /\ map.unicode THEN tt_cmap_lookup(map.tt, fix_CJK_symbols(code % Word))
                      ELSE gid

VRT2 == <<118, 114, 116, 50>>
VERT == <<118, 101, 114, 116>>
VerticalGsub(map, s) ==
    LET opt(f) == [script |-> ANY, language |-> ANY, feature |-> f]
        vrt2 == otl_gsub_add_feat(otl_gsub_new, opt(VRT2), s)
        vert == otl_gsub_add_feat(otl_gsub_new, opt(VERT), s)
    IN  IF map.type # "via_cid_to_code" THEN None
        ELSE IF vrt2.gsubs # <<>> THEN <<vrt2>> ELSE IF vert.gsubs # <<>> THEN <<vert>> ELSE None

\* A CID in use both ways keeps the horizontal glyph.
CidGlyphs(font, map, s) ==
    LET gsub == VerticalGsub(map, s)
        vglyph(cid) ==
            LET gid == GlyphOfCid(map, cid)
                out == otl_gsub_apply(gsub[1], gid)
            IN  IF gid = 0 \/ gsub = None THEN gid ELSE IF out < 0 THEN gid ELSE out
        h == FoldLeft(LAMBDA g, cid : tt_add_glyph(g, GlyphOfCid(map, cid), cid), tt_build_init(font.unset),
                      UsedCodes(font.used \ {0}))
    IN  FoldLeft(LAMBDA g, cid : tt_add_glyph(g, vglyph(cid), cid), h, UsedCodes(font.usedv \ (font.used \cup {0})))

\* DW and, in W, runs of CIDs whose width is another one.
add_TTCIDHMetrics(g, cids) ==
    LET dw == PDFUNIT(IF g.dw # 0 /\ g.dw <= g.emsize THEN g.dw ELSE g.gd[1].advw, g.emsize)
        add(st, cid) ==
            LET idx == tt_get_index(g, cid)
                w   == PDFUNIT(g.gd[idx].advw, g.emsize)
                n   == Len(st.w)
            IN  IF cid # 0 /\ idx = 1 THEN st
                ELSE IF w = dw THEN [st EXCEPT !.open = FALSE]
                ELSE [w |-> IF st.open /\ cid = st.prev + 1
                            THEN [st.w EXCEPT ![n].widths = Append(@, w)]
                            ELSE Append(st.w, [start |-> cid, widths |-> <<w>>]),
                      open |-> TRUE, prev |-> cid]
    IN  [dw |-> dw, w |-> FoldLeft(add, [w |-> <<>>, open |-> FALSE, prev |-> 0], cids).w]

\* The default position and advance, and the CIDs with other ones.
add_TTCIDVMetrics(g, cids) ==
    LET em  == g.emsize
        dy  == PDFUNIT(g.default_advh - g.default_tsb, em)
        dh  == PDFUNIT(g.default_advh, em)
        at(cid) == tt_get_index(g, cid)
        own(cid) == LET d == g.gd[at(cid)]
                    IN  [cid |-> cid, w |-> -PDFUNIT(d.advh, em), x |-> PDFUNIT(d.advw, 2 * em),
                         y |-> PDFUNIT(d.tsb + d.ury, em)]
        listed == SelectSeq(cids, LAMBDA cid : (cid = 0 \/ at(cid) # 1)
                                                /\ (own(cid).y # dy \/ own(cid).w # -dh))
    IN  [dw2 |-> <<dy, -dh>>, w2 |-> [i \in DOMAIN listed |-> own(listed[i])]]

NoMetrics == [dw |-> 1000, w |-> <<>>]
NoVMetrics == [dw2 |-> <<880, -1000>>, w2 |-> <<>>]

CIDFont_type2_dofont(font) ==
    LET s   == OpenFont(font.file, font.index, font.dfont)
        map == MapOf(font, s[1])
        g   == CidGlyphs(font, map[1], s[1])
        built == IF font.embed THEN tt_build_tables(s[1], g) ELSE tt_get_metrics(s[1], g)
        cids == UsedCodes(font.used \cup font.usedv)
        h    == IF font.fixed THEN NoMetrics ELSE add_TTCIDHMetrics(built[1].g, cids)
        v    == IF font.fixed \/ ~font.vmetrics THEN NoVMetrics ELSE add_TTCIDVMetrics(built[1].g, cids)
        out  == Embedded(built[1].s, Required)
    IN  IF ~font.embed /\ font.fixed THEN <<[file |-> None, h |-> NoMetrics, v |-> NoVMetrics, cidset |-> {}]>>
        ELSE IF s = None THEN None
        ELSE IF map = None \/ (s[1].type = "TRUETYPE" /\ font.index > 0) THEN None
        ELSE IF built = None THEN None
        ELSE IF font.embed /\ out = None THEN None
        ELSE <<[file |-> IF font.embed THEN out ELSE None, h |-> h, v |-> v,
                cidset |-> 1 .. built[1].g.last_gid]>>

=============================================================================
