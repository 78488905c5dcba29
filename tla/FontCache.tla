------------------------------ MODULE FontCache ------------------------------
(***************************************************************************)
(* The fonts of the document: the cache of pdffont.c, composite fonts      *)
(* (type0.c), CIDFonts (cid.c and the functions of cidtype0.c and          *)
(* cidtype2.c that open them) and the fonts of the page device.            *)
(*                                                                         *)
(* S is the state: S.fonts the cache (an id is an index, 0 for none), S.e  *)
(* the encodings, S.w the CMaps, S.m the font map, S.dev the fonts of the  *)
(* device, S.cmaps the CMap resources already written, S.prog the font     *)
(* programs on the disk.  What a font program contains is in the modules   *)
(* Type1Font, CffFont and TrueType; here it is its kind ("type1", "otf" a  *)
(* CFF font, "otfcid" a CID-keyed one, "truetype", "pk"), its PostScript   *)
(* name, its collection, its glyph names, whether it may be embedded and   *)
(* how many fonts its file holds.                                          *)
(***************************************************************************)
EXTENDS Encoding

CONSTANTS SlotMax, CharMax
Map == INSTANCE FontMap

CACHE_IDENTITY == <<"Adobe", "Identity">>
Collection(csi) == SubSeq(csi, 1, 2)

\* base is <<tagged, name, style>>, program what is embedded.
NoRes == [made |-> FALSE, subtype |-> "", base |-> None, cmap |-> "", encoding |-> NoResource, tounicode |-> <<>>,
          desc |-> 0, csi |-> None, program |-> None]

pdf_init_font_struct ==
    [ident |-> "", file |-> "", subtype |-> "none", of |-> 0, enc |-> 0, ref |-> FALSE, res |-> NoRes,
     size |-> 0, index |-> 0, used |-> {}, usedv |-> {}, store |-> None, flags |-> {}, name |-> None,
     wmode |-> 0, desc |-> 0, csi |-> None, embed |-> FALSE, style |-> "", vmetrics |-> FALSE, source |-> ""]

pdf_init_fonts(prog, files, enc, fontmap) ==
    [fonts |-> <<>>, prog |-> prog, w |-> CMap_cache_init(files), e |-> enc, m |-> fontmap, dev |-> <<>>,
     cmaps |-> {}, dead |-> FALSE]

-----------------------------------------------------------------------------
(* Access to a font: an alias stands for its font, and a re-encoded font    *)
(* shares everything but the encoding with the font it was made from.       *)

CIDTypes == {"cidtype0", "cidtype2"}
Simple == {"type1", "type1c", "truetype"}

GET_FONT(S, id) == IF "alias" \in S.fonts[id].flags THEN S.fonts[id].of ELSE id
Real(S, id) ==
    LET f == GET_FONT(S, id)
    IN  IF "reencode" \in S.fonts[f].flags THEN GET_FONT(S, S.fonts[f].of) ELSE f

pdf_font_get_resource(S, id) ==
    LET kind == CASE S.fonts[id].subtype \in {"type1", "type1c"} -> "Type1"
                  [] S.fonts[id].subtype = "type3" -> "Type3"
                  [] S.fonts[id].subtype = "truetype" -> "TrueType"
                  [] OTHER -> ""
    IN  IF S.fonts[id].res.made THEN S
        ELSE [S EXCEPT !.fonts[id].res = [NoRes EXCEPT !.made = TRUE, !.subtype = kind]]

\* A composite font refers to its CIDFont from its first reference on.
RECURSIVE pdf_get_font_reference(_, _)
pdf_get_font_reference(S, id) ==
    LET f == Real(S, id)
        own == [pdf_font_get_resource(S, f) EXCEPT !.fonts[f].ref = TRUE]
        desc == S.fonts[f].desc
    IN  IF S.fonts[f].subtype # "type0" \/ own.fonts[f].res.desc # 0 THEN own
        ELSE [pdf_get_font_reference(own, desc) EXCEPT !.fonts[f].res.desc = desc]

\* Where the characters used are noted: <<font, which set>>.
pdf_get_font_usedchars(S, id) ==
    LET f == Real(S, id) IN IF S.fonts[f].subtype = "type0" THEN S.fonts[f].store ELSE <<f, "used">>
MarkUsed(S, at, chars) ==
    IF at[2] = "used" THEN [S EXCEPT !.fonts[at[1]].used = @ \cup chars]
    ELSE [S EXCEPT !.fonts[at[1]].usedv = @ \cup chars]

pdf_get_font_wmode(S, id) ==
    LET f == S.fonts[Real(S, id)] IN IF f.subtype = "type0" THEN f.wmode ELSE 0
pdf_get_font_subtype(S, id) == S.fonts[Real(S, id)].subtype
pdf_get_font_encoding(S, id) == S.fonts[GET_FONT(S, id)].enc

\* A bug that pdf_font_resource_name could have: a re-encoded font is named like a font of its own.
OwnResourceName(S, id) == GET_FONT(S, id)
\* The number in the name of the resource.
pdf_font_resource_name(S, id) ==
    LET f == GET_FONT(S, id) IN IF "reencode" \in S.fonts[f].flags THEN S.fonts[f].of ELSE f

pdf_font_findresource(S, ident, scale) ==
    LET hits == {i \in DOMAIN S.fonts :
                    LET f == S.fonts[i]
                    IN  /\ f.subtype \in Simple \cup {"type0", "type3"} /\ f.ident = ident
                        /\ f.subtype = "type3" => f.size = scale}
    IN  IF hits = {} THEN 0 ELSE Min(hits)

create_font_alias(S, ident, id) ==
    Append(S.fonts, [pdf_init_font_struct EXCEPT !.ident = ident, !.of = id, !.subtype = S.fonts[id].subtype,
                                                 !.enc = S.fonts[id].enc, !.flags = {"alias"}])
create_font_reencoded(S, ident, id, cmap) ==
    Append(S.fonts, [pdf_init_font_struct EXCEPT !.ident = ident, !.of = id, !.subtype = "type0", !.enc = cmap,
                                                 !.flags = {"reencode"}])

-----------------------------------------------------------------------------
(* Character collections.                                                   *)

UCS_CC == 1
Def(r, o, sup) == [ros |-> <<r, o>>, supplement |-> sup]
\* The highest supplement a PDF 1.5 reader knows (the table has one for each version).
CIDFont_stdcc_def ==
    <<Def("Adobe", "UCS", 0), Def("Adobe", "GB1", 4), Def("Adobe", "CNS1", 4), Def("Adobe", "Japan1", 5),
      Def("Adobe", "Korea1", 2), Def("Adobe", "Identity", 0)>>
CIDFont_stdcc_alias == [n \in {"AJ1", "Japan1", "J", "AK1", "UCS", "AI"} |->
    CASE n \in {"AJ1", "Japan1", "J"} -> 4 [] n = "AK1" -> 5 [] n = "UCS" -> UCS_CC [] OTHER -> 6]

CIDFont_is_ACCFont(f) == \E i \in 2 .. 5 : Collection(f.csi) = CIDFont_stdcc_def[i].ros
CIDFont_is_UCSFont(f) == f.csi[2] \in {"UCS", "UCS2"}

\* An alias stands for the collection with the highest supplement; otherwise
\* the option spells out registry, ordering and supplement.
Spellings == [n \in {"Adobe-Japan1-6", "Adobe-Private-1"} |->
                 IF n = "Adobe-Japan1-6" THEN <<"Adobe", "Japan1", 6>> ELSE <<"Adobe", "Private", 1>>]
get_cidsysinfo(charcoll) ==
    IF charcoll = "" THEN None
    ELSE IF charcoll \in DOMAIN CIDFont_stdcc_alias
         THEN LET def == CIDFont_stdcc_def[CIDFont_stdcc_alias[charcoll]] IN Append(def.ros, def.supplement)
    ELSE Spellings[charcoll]

-----------------------------------------------------------------------------
(* CIDFonts.                                                                *)

Options(opt, csi) ==
    LET own == get_cidsysinfo(opt.charcoll)
    IN  [style |-> opt.style, embed |-> ~opt.noembed, csi |-> IF own = None THEN csi ELSE own]

\* The first font of the file with the same style whose collection fits;
\* a TrueType font does not serve when no collection is given.
pdf_font_cidfont_lookup_cache(S, file, csi, rec) ==
    LET opt == Options(rec, csi)
        fits(f) == IF f.embed # opt.embed THEN "basefont" \in f.flags
                   ELSE IF opt.csi = None THEN f.subtype = "cidtype0"
                   ELSE Collection(f.csi) = Collection(opt.csi)
        hits == {i \in DOMAIN S.fonts :
                    LET f == S.fonts[i]
                    IN  f.subtype \in CIDTypes /\ f.file = file /\ f.style = opt.style /\ f.index = rec.index /\ fits(f)}
        id == Min(hits)
        raise == S.fonts[id].subtype = "cidtype2" /\ S.fonts[id].embed = opt.embed
    IN  IF hits = {} THEN [S |-> S, id |-> 0]
        ELSE [S |-> IF raise THEN [S EXCEPT !.fonts[id].csi = <<@[1], @[2], Max({@[3], opt.csi[3]})>>] ELSE S,
              id |-> id]

\* Each opener yields None or <<font, options>>.
Is(S, file, kinds) == file \in DOMAIN S.prog /\ S.prog[file].kind \in kinds
CIDRes(f, kind, tagged, style) ==
    [f EXCEPT !.res = [NoRes EXCEPT !.made = TRUE, !.subtype = kind, !.base = <<tagged, f.name[1], style>>,
                                    !.csi = f.csi]]

\* The style goes into the name of a font that would have been embedded.
CIDFont_type0_open(S, font, file, index, opt) ==
    LET p == S.prog[file]
        styled == opt.embed /\ opt.style # ""
        embed == opt.embed /\ ~styled /\ p.licensed
        f == [font EXCEPT !.subtype = "cidtype0", !.csi = p.csi, !.name = <<p.psname>>]
    IN  IF ~Is(S, file, {"otfcid"}) THEN None
        ELSE <<CIDRes(f, "CIDFontType0", embed, IF styled THEN opt.style ELSE ""), [opt EXCEPT !.embed = embed]>>

CIDFont_type2_open(S, font, file, index, opt) ==
    LET p == S.prog[file]
        embed == opt.embed /\ opt.style = "" /\ p.licensed
        f == [font EXCEPT !.subtype = "cidtype2", !.csi = opt.csi, !.name = <<p.psname>>]
    IN  IF ~Is(S, file, {"truetype"}) THEN None
        ELSE IF index >= p.count THEN None
        ELSE <<CIDRes(f, "CIDFontType2", embed, opt.style), [opt EXCEPT !.embed = embed]>>

CIDFont_type0_open_from_t1(S, font, file, index, opt) ==
    LET f == [font EXCEPT !.subtype = "cidtype0", !.csi = CSI_IDENTITY, !.source = "type1",
                          !.name = <<S.prog[file].psname>>]
    IN  IF ~Is(S, file, {"type1"}) THEN None
        ELSE <<CIDRes(f, "CIDFontType0", TRUE, ""), [opt EXCEPT !.style = ""]>>

\* A font that may not be embedded does not do.
CIDFont_type0_open_from_t1c(S, font, file, index, opt) ==
    LET f == [font EXCEPT !.subtype = "cidtype0", !.csi = CSI_IDENTITY, !.source = "type1c",
                          !.name = <<S.prog[file].psname>>]
    IN  IF ~Is(S, file, {"otf"}) THEN None
        ELSE IF ~S.prog[file].licensed THEN None
        ELSE <<CIDRes(f, "CIDFontType0", TRUE, ""), [opt EXCEPT !.embed = TRUE]>>

\* The fonts every reader has.
CIDFont_base_open(S, font, file, opt) ==
    LET p == S.prog[file]
        f == [font EXCEPT !.subtype = p.subtype, !.csi = p.csi, !.name = <<file>>, !.flags = @ \cup {"basefont"}]
    IN  IF ~Is(S, file, {"base"}) THEN None
        ELSE <<CIDRes(f, IF p.subtype = "cidtype0" THEN "CIDFontType0" ELSE "CIDFontType2", FALSE, opt.style),
               [opt EXCEPT !.embed = FALSE]>>

\* A CMap of another collection ends the program.
pdf_font_open_cidfont(S, file, csi, rec) ==
    LET opt == Options(rec, csi)
        tries == <<CIDFont_type0_open(S, pdf_init_font_struct, file, rec.index, opt),
                   CIDFont_type2_open(S, pdf_init_font_struct, file, rec.index, opt),
                   CIDFont_type0_open_from_t1(S, pdf_init_font_struct, file, rec.index, opt),
                   CIDFont_type0_open_from_t1c(S, pdf_init_font_struct, file, rec.index, opt),
                   CIDFont_base_open(S, pdf_init_font_struct, file, opt)>>
        good == {i \in DOMAIN tries : tries[i] # None}
        font == tries[Min(good)][1]
        after == tries[Min(good)][2]
        clash == font.csi # None /\ csi # None /\ Collection(font.csi) # Collection(csi)
        set == IF font.csi = None THEN (IF csi = None THEN CSI_IDENTITY ELSE csi)
               ELSE IF csi = None THEN font.csi
               ELSE <<font.csi[1], font.csi[2], Max({font.csi[3], csi[3]})>>
    IN  IF good = {} THEN None
        ELSE <<[S EXCEPT !.dead = @ \/ clash,
                         !.fonts = Append(@, [font EXCEPT !.file = file, !.ident = file, !.index = rec.index,
                                                          !.embed = after.embed, !.style = after.style, !.csi = set])]>>

CIDFont_get_usedchars(cid)   == <<cid, "used">>
CIDFont_get_usedchars_v(cid) == <<cid, "usedv">>

\* The characters of vertical text are kept apart where glyphs are substituted.
pdf_font_open_type0(S, font, cid, wmode) ==
    LET d == S.fonts[cid]
        apart == d.subtype = "cidtype2" /\ Collection(d.csi) # CACHE_IDENTITY /\ wmode = 1
        encoding == IF wmode = 1 THEN "Identity-V" ELSE "Identity-H"
        f == [font EXCEPT !.wmode = wmode, !.desc = cid, !.name = d.name,
                  !.store = IF apart THEN CIDFont_get_usedchars_v(cid) ELSE CIDFont_get_usedchars(cid),
                  !.res = [NoRes EXCEPT !.made = TRUE, !.subtype = "Type0", !.base = <<d.embed, d.name[1], "">>,
                                        !.cmap = encoding]]
    IN  [S EXCEPT !.fonts = Append([@ EXCEPT ![cid].vmetrics = @ \/ wmode = 1], f)]

-----------------------------------------------------------------------------
(* CMaps made from the glyphs of a font.                                    *)

FourBytes(c) == <<(c \div (B * B * B)) % B, (c \div (B * B)) % B, (c \div B) % B, c % B>>
GlyphChars(list, name) ==
    IF name.parts = <<>> \/ name.suffix # None THEN <<>>
    ELSE IF Len(name.parts) = 1 /\ Glyphs!agl_name_is_unicode(name.parts[1])
         THEN <<Glyphs!agl_name_convert_unicode(name.parts[1])>>
    ELSE LET alts == SelectSeq(Glyphs!agl_lookup_list(list, name.parts[1]), LAMBDA a : Len(a.unicodes) = 1)
         IN  IF Len(name.parts) > 1 THEN <<>> ELSE [i \in DOMAIN alts |-> alts[i].unicodes[1]]

load_base_CMap(S, file, wmode) ==
    LET name == file \o (IF wmode = 1 THEN "-UCS4-V" ELSE "-UCS4-H")
        found == CMap_cache_find(S.w, name)
        empty == CMap_add_codespacerange([CMap_new EXCEPT !.name = name, !.wmode = wmode, !.csi = CSI_IDENTITY],
                                         <<0, 0, 0, 0>>, <<ByteMax \div 2, ByteMax, ByteMax, ByteMax>>)
        glyph(m, g) == FoldLeft(LAMBDA a, c : CMap_add_cidrange(a, FourBytes(c), FourBytes(c), g), m,
                                GlyphChars(S.e.list, S.e.names[S.prog[file].glyphs[g]]))
        cmap == FoldLeft(glyph, empty, [g \in DOMAIN S.prog[file].glyphs |-> g])
    IN  IF found.id # 0 THEN [S |-> [S EXCEPT !.w = found.w], id |-> found.id]
        ELSE [S |-> [S EXCEPT !.w = CMap_cache_add(S.w, cmap)], id |-> Len(S.w.cmaps) + 1]
t1_load_UnicodeCMap(S, file, wmode) ==
    IF Is(S, file, {"type1"}) THEN load_base_CMap(S, file, wmode) ELSE [S |-> S, id |-> 0]

\* A glyph without characters leaves no entry; one in ten may have none.
create_ToUnicode_stream(S, fontname, glyphs, used) ==
    LET shown == {c \in used : c \in DOMAIN glyphs /\ S.e.names[glyphs[c]].parts # <<>>}
        sput(c) == Glyphs!agl_sput_UTF16BE(S.e.list, S.e.names[glyphs[c]])
        good == {c \in shown : sput(c).text # <<>> /\ sput(c).fails = 0}
        fails == MapThenSumSet(LAMBDA c : sput(c).fails, shown)
        cmap == CMap_add_codespacerange([CMap_new EXCEPT !.name = fontname \o "-UTF16", !.type = TO_UNICODE,
                                                         !.csi = CSI_UNICODE], <<0, 0>>, <<ByteMax, ByteMax>>)
        add(m, c) == CMap_add_bfrange(m, Cid(c), Cid(c), Utf16(sput(c).text))
        full == FoldLeft(add, cmap, SelectSeq([c \in DOMAIN glyphs |-> c], LAMBDA c : c \in good))
    IN  IF fails # 0 /\ fails >= Cardinality(shown) \div 10 THEN <<>>
        ELSE CMap_create_stream([cmaps |-> <<>>], full).toks

\* The CMaps that tt_cmap.c makes for an OpenType font (see OtfCmap): made once, from the pairs
\* <<code, CID>> that the font yields.
CMapFromFont(S, name, wmode, csi, pairs) ==
    LET found == CMap_cache_find(S.w, name)
        empty == CMap_add_codespacerange([CMap_new EXCEPT !.name = name, !.wmode = wmode, !.csi = csi],
                                         <<0, 0>>, <<ByteMax, ByteMax>>)
        cmap == FoldLeft(LAMBDA m, r : CMap_add_cidrange(m, Cid(r[1]), Cid(r[1]), r[2]), empty, pairs)
    IN  IF pairs = <<>> THEN [S |-> S, id |-> 0]
        ELSE IF found.id # 0 THEN [S |-> [S EXCEPT !.w = found.w], id |-> found.id]
        ELSE [S |-> [S EXCEPT !.w = CMap_cache_add(S.w, cmap)], id |-> Len(S.w.cmaps) + 1]

-----------------------------------------------------------------------------
(* Loading a font.                                                          *)

\* The CMap or the encoding of a map record: [S, cmap, enc].
EncodingOf(S, rec) ==
    LET wmode == IF rec.enc = "Identity-V" THEN 1 ELSE 0
        file == rec.font
        gids == IF rec.glyphs /\ Is(S, file, {"otfcid"})
                THEN CMapFromFont(S, file \o (IF wmode = 1 THEN "-GID-V" ELSE "-GID-H"), wmode, S.prog[file].csi,
                                  S.prog[file].cids)
                ELSE [S |-> S, id |-> 0]
        vert == IF rec.vert THEN 1 ELSE 0
        sfnt == IF Is(S, file, {"otfcid", "otf", "truetype"})
                THEN CMapFromFont(S, file \o (IF rec.vert THEN "-UCS-V" ELSE "-UCS-H"), vert, S.prog[file].csi,
                                  S.prog[file].chars)
                ELSE [S |-> S, id |-> 0]
        unicode == IF sfnt.id # 0 THEN sfnt ELSE t1_load_UnicodeCMap(S, file, vert)
        named == CMap_cache_find(S.w, rec.enc)
        cmap == IF gids.id # 0 THEN gids
                ELSE IF rec.enc = "" THEN [S |-> S, id |-> 0]
                ELSE IF rec.enc = "unicode" THEN unicode
                ELSE IF rec.enc \in DOMAIN S.e.files THEN [S |-> S, id |-> 0]
                ELSE [S |-> [S EXCEPT !.w = named.w], id |-> named.id]
        enc == pdf_encoding_findresource(cmap.S.e, rec.enc)
    IN  IF cmap.id # 0 \/ rec.enc = "" THEN [S |-> cmap.S, cmap |-> cmap.id, enc |-> 0]
        ELSE [S |-> [cmap.S EXCEPT !.e = enc.e], cmap |-> 0, enc |-> enc.id]

Known(S, ident, id) ==
    IF S.fonts[id].ident = ident THEN [S |-> S, id |-> id]
    ELSE [S |-> [S EXCEPT !.fonts = create_font_alias(S, ident, id)], id |-> Len(S.fonts) + 1]
NotLoaded(S) == [S |-> S, id |-> 0]

\* A composite font: one for each CIDFont and writing mode, re-encoded for every further CMap.
LoadComposite(S0, ident, rec, cmap) ==
    LET map == S0.w.cmaps[cmap]
        csi == IF map.type = IDENTITY THEN None ELSE map.csi
        found == pdf_font_cidfont_lookup_cache(S0, rec.font, csi, rec)
        S == found.S
        same == {i \in DOMAIN S.fonts : /\ S.fonts[i].subtype = "type0"
                                        /\ S.fonts[i].wmode = map.wmode /\ S.fonts[i].desc = found.id}
        opened == IF found.id # 0 THEN <<S>> ELSE pdf_font_open_cidfont(S, rec.font, csi, rec)
        cid == IF found.id # 0 THEN found.id ELSE Len(S.fonts) + 1
        new == [pdf_init_font_struct EXCEPT !.ident = ident, !.subtype = "type0", !.enc = cmap]
    IN  IF found.id # 0 /\ same # {}
        THEN IF S.fonts[Min(same)].enc = cmap THEN Known(S, ident, Min(same))
             ELSE [S |-> [S EXCEPT !.fonts = create_font_reencoded(S, ident, Min(same), cmap)],
                   id |-> Len(S.fonts) + 1]
        ELSE IF opened = None THEN NotLoaded(S)
        ELSE LET made == pdf_font_open_type0(opened[1], new, cid, map.wmode)
             IN  [S |-> made, id |-> Len(made.fonts)]

\* A simple font is shared when the file, the encoding and the index agree; a PK font when its size does.
\* The option not to embed is taken back by every program that reads one.
LoadSimple(S, ident, scale, file, index, enc) ==
    LET shared == {i \in DOMAIN S.fonts :
                      LET f == S.fonts[i]
                      IN  /\ "alias" \notin f.flags /\ f.file = file
                          /\ \/ f.subtype \in Simple /\ f.enc = enc /\ f.index = index
                             \/ f.subtype = "type3" /\ f.size = scale}
        licensed == file \in DOMAIN S.prog /\ S.prog[file].licensed
        kind == CASE Is(S, file, {"type1", "base14"}) -> "type1"
                  [] Is(S, file, {"otf"}) /\ licensed -> "type1c"
                  [] Is(S, file, {"truetype"}) /\ licensed /\ index < S.prog[file].count -> "truetype"
                  [] Is(S, file, {"pk"}) -> "type3"
                  [] OTHER -> "none"
        font == [pdf_init_font_struct EXCEPT !.ident = ident, !.enc = enc, !.file = file, !.size = scale,
                    !.index = index, !.subtype = kind, !.flags = IF Is(S, file, {"base14"}) THEN {"basefont", "noembed"}
                                                                 ELSE {}]
        used3 == kind = "type3" /\ enc # 0
    IN  IF shared # {} THEN Known(S, ident, Min(shared))
        ELSE IF kind = "none" THEN NotLoaded(S)
        ELSE [S |-> [S EXCEPT !.fonts = Append(@, font),
                              !.e = IF used3 THEN pdf_encoding_used_by_type3(@, enc) ELSE @],
              id |-> Len(S.fonts) + 1]

pdf_font_load_font(S, ident, scale, mrec) ==
    LET rec == mrec[1]
        sel == EncodingOf(S, rec)
    IN  IF mrec = None THEN LoadSimple(S, ident, scale, ident, 0, 0)
        ELSE IF rec.enc # "" /\ sel.cmap = 0 /\ sel.enc = 0 THEN NotLoaded(sel.S)
        ELSE IF sel.cmap # 0 THEN LoadComposite(sel.S, ident, rec, sel.cmap)
        ELSE LoadSimple(sel.S, ident, scale, rec.font, rec.index, sel.enc)

-----------------------------------------------------------------------------
(* The fonts of the device, by name and size.                               *)

pdf_dev_locate_font(S, name, size) ==
    LET known == {i \in DOMAIN S.dev : S.dev[i].tex = name /\ S.dev[i].size = size}
        mrec == Map!pdf_lookup_fontmap_record(S.m, Map!Plain(name))
        hit == pdf_font_findresource(S, name, size)
        got == IF hit # 0 THEN [S |-> S, id |-> hit] ELSE pdf_font_load_font(S, name, size, mrec)
        T == got.S
        kind == pdf_get_font_subtype(T, got.id)
        dev == [tex |-> name, size |-> size, font |-> got.id, short |-> pdf_font_resource_name(T, got.id),
                format |-> CASE kind = "type3" -> "bitmap" [] kind = "type0" -> "composite" [] OTHER -> "simple",
                wmode |-> pdf_get_font_wmode(T, got.id), enc |-> pdf_get_font_encoding(T, got.id), used |-> None,
                extend |-> IF mrec = None THEN 1 ELSE mrec[1].extend,
                slant |-> IF mrec = None THEN 0 ELSE mrec[1].slant,
                bold |-> IF mrec = None THEN 0 ELSE mrec[1].bold]
    IN  IF known # {} THEN [S |-> S, id |-> Min(known)]
        ELSE IF got.id = 0 THEN [S |-> T, id |-> 0]
        ELSE [S |-> [T EXCEPT !.dev = Append(@, dev)], id |-> Len(T.dev) + 1]

\* The codes that go to the page: two bytes for a composite font.
handle_multibyte_string(S, dev, str) ==
    IF dev.enc = 0 THEN [out |-> <<str>>, dead |-> FALSE] ELSE CMap_decode(S.w, S.w.cmaps[dev.enc], str)
pdf_dev_font_minbytes(S, id) ==
    IF S.dev[id].format = "composite" THEN S.w.cmaps[S.dev[id].enc].inMin ELSE 1

Number(bytes) == FoldLeft(LAMBDA n, b : n * B + b, 0, bytes)
\* A string is set: the font gets its reference, and the codes are noted: [S, codes].
SetString(S, id, str) ==
    LET dev == S.dev[id]
        T == IF dev.used = None THEN pdf_get_font_reference(S, dev.font) ELSE S
        used == IF dev.used = None THEN pdf_get_font_usedchars(T, dev.font) ELSE dev.used
        text == IF dev.format = "composite" THEN handle_multibyte_string(S, dev, str)
                ELSE [out |-> [i \in DOMAIN str |-> <<str[i]>>], dead |-> FALSE]
        codes == [i \in DOMAIN text.out |-> Number(text.out[i])]
    IN  [S |-> [MarkUsed([T EXCEPT !.dev[id].used = used], used, ToSet(codes)) EXCEPT !.dead = @ \/ text.dead],
         codes |-> codes]

-----------------------------------------------------------------------------
(* The end of the document.                                                 *)

\* The option of the map record comes first, then a CMap named like the font.
try_load_ToUnicode_CMap(S, id) ==
    LET f == S.fonts[id]
        mrec == Map!pdf_lookup_fontmap_record(S.m, Map!Plain(f.ident))
        named == mrec # None /\ mrec[1].tounicode # ""
        toks == pdf_load_ToUnicode_stream(S.w, IF named THEN mrec[1].tounicode ELSE f.ident)
    IN  IF f.subtype = "type0" THEN S
        ELSE [pdf_font_get_resource(S, id) EXCEPT !.fonts[id].res.tounicode = toks]

\* The codes of a simple font that its loader keeps; that of a CFF font keeps one code for each glyph.
Kept(S, f, vec) ==
    LET present == {c \in f.used : vec[c] # 0 /\ vec[c] \in ToSet(S.prog[f.file].glyphs)}
    IN  CASE f.subtype = "type1"  -> present
          [] f.subtype = "type1c" -> {c \in present : \A d \in present : d < c => vec[d] # vec[c]}
          [] OTHER -> f.used
LoadProgram(S, id) ==
    LET f == S.fonts[id]
        builtin == f.enc = 0
        vec == IF builtin THEN S.prog[f.file].builtin ELSE S.e.encodings[f.enc].glyphs
        toks == pdf_create_ToUnicode_CMap(S.e, f.file, vec, f.used)
        made == builtin /\ f.subtype \in {"type1", "type1c"} /\ f.res.tounicode = <<>>
    IN  IF "basefont" \in f.flags THEN S
        ELSE [S EXCEPT !.fonts[id].res.program = <<[file |-> f.file, index |-> f.index, vec |-> vec, chars |-> f.used]>>,
                       !.fonts[id].res.tounicode = IF made THEN toks ELSE @,
                       !.fonts[id].used = Kept(S, f, vec)]

\* A CMap resource is read or made only once.
Surrogates == {b \in 0 .. ByteMax : (b * 256) \div B \in 216 .. 223}
Row(b) == <<Str(<<b, 0>>), Str(<<b, ByteMax>>), Str(<<b, 0>>)>>
create_dummy_CMap ==
    LET rows == SelectSeq([i \in 1 .. B |-> i - 1], LAMBDA b : b \notin Surrogates)
    IN  <<Nm("CMapName"), Nm("Adobe-Identity-UCS2"), Op("def"), Nm("CMapType"), Num(2), Op("def")>>
        \o <<Num(2), Op("begincodespacerange"), Str(<<0, 0>>), Str(<<ByteMax, ByteMax>>), Op("endcodespacerange")>>
        \o Section("bfrange", [i \in DOMAIN rows |-> Row(rows[i])])
pdf_read_ToUnicode_file(S, name) ==
    LET toks == IF name = "Adobe-Identity-UCS2" THEN create_dummy_CMap ELSE pdf_load_ToUnicode_stream(S.w, name)
    IN  IF \E r \in S.cmaps : r[1] = name THEN [S |-> S, toks |-> (CHOOSE r \in S.cmaps : r[1] = name)[2]]
        ELSE IF toks = <<>> THEN [S |-> S, toks |-> <<>>]
        ELSE [S |-> [S EXCEPT !.cmaps = @ \cup {<<name, toks>>}], toks |-> toks]
try_load_ToUnicode_file(S, base) ==
    LET utf16 == pdf_read_ToUnicode_file(S, base \o "-UTF16")
    IN  IF utf16.toks # <<>> THEN utf16 ELSE pdf_read_ToUnicode_file(utf16.S, base \o "-UCS2")

Type0Font_attach_ToUnicode_stream(S, id) ==
    LET d == S.fonts[S.fonts[id].desc]
        p == S.prog[d.file]
        used == IF S.fonts[id].store[2] = "used" THEN d.used ELSE d.usedv
        glyphs == [S |-> S, toks |-> create_ToUnicode_stream(S, d.name[1], p.glyphs, used)]
        file == try_load_ToUnicode_file(S, d.name[1])
        got == CASE CIDFont_is_ACCFont(d) -> [S |-> S, toks |-> <<>>]
                 [] CIDFont_is_UCSFont(d) -> pdf_read_ToUnicode_file(S, "Adobe-Identity-UCS2")
                 [] d.subtype = "cidtype2" /\ Collection(d.csi) = CACHE_IDENTITY -> glyphs
                 [] d.subtype = "cidtype2" -> try_load_ToUnicode_file(S, d.csi[1] \o "-" \o d.csi[2])
                 [] d.source # "" -> glyphs
                 [] OTHER -> IF file.toks # <<>> THEN file ELSE [glyphs EXCEPT !.S = file.S]
    IN  [got.S EXCEPT !.fonts[id].res.tounicode = got.toks]
pdf_font_load_type0(S, id) ==
    IF S.fonts[id].res.tounicode = <<>> THEN Type0Font_attach_ToUnicode_stream(S, id) ELSE S

source_font_type(f) == IF f.source = "" THEN "cidtype0" ELSE f.source
pdf_font_load_cidfont(S, id) ==
    LET f == S.fonts[id]
        program == [file |-> f.file, index |-> f.index, source |-> source_font_type(f), chars |-> f.used, vert |-> f.usedv]
        embedded == "basefont" \notin f.flags /\ (f.embed \/ f.source # "")
        T == IF f.subtype = "cidtype2" THEN [S EXCEPT !.fonts[id].res.csi = f.csi] ELSE S
    IN  IF embedded THEN [T EXCEPT !.fonts[id].res.program = <<program>>] ELSE T

Written(S, i) == S.fonts[i].ref /\ S.fonts[i].flags \cap {"alias", "reencode"} = {}
LoadFont(S, i) ==
    LET f == S.fonts[i]
        loaded == IF f.subtype = "type0" THEN pdf_font_load_type0(S, i)
                  ELSE LoadProgram(try_load_ToUnicode_CMap(S, i), i)
    IN  IF ~Written(S, i) \/ f.subtype \in CIDTypes THEN S
        ELSE IF f.enc = 0 \/ f.subtype = "type0" THEN loaded
        ELSE [loaded EXCEPT !.e = pdf_encoding_add_usedchars(@, f.enc, loaded.fonts[i].used)]

pdf_flush_font(S, i) ==
    LET f == S.fonts[i]
    IN  IF f.subtype \in {"type3", "type0"} \cup CIDTypes THEN S
        ELSE [S EXCEPT !.fonts[i].res.base = <<"noembed" \notin f.flags, S.prog[f.file].psname, "">>]
FinishFont(S, i) ==
    LET f == S.fonts[i]
        enc == S.e.encodings[f.enc]
        set == IF f.subtype = "truetype" THEN enc.predefined ELSE TRUE
        own == [S EXCEPT !.fonts[i].res.encoding = IF set THEN enc.resource ELSE @,
                         !.fonts[i].res.tounicode = IF @ = <<>> THEN enc.tounicode ELSE @]
        mac == [S EXCEPT !.fonts[i].res.encoding = [NoResource EXCEPT !.kind = "name", !.base = "MacRomanEncoding"]]
    IN  IF ~Written(S, i) THEN S
        ELSE pdf_flush_font(IF f.enc # 0 /\ f.subtype \in Simple \cup {"type3"} THEN own
                            ELSE IF f.subtype = "truetype" THEN mac ELSE S, i)

\* The encodings are finished between the fonts and the CIDFonts.
pdf_close_fonts(S) ==
    LET ids == [i \in DOMAIN S.fonts |-> i]
        loaded == FoldLeft(LoadFont, S, ids)
        encoded == [loaded EXCEPT !.e = pdf_encoding_complete(@)]
        cid(T, i) == IF Written(T, i) /\ T.fonts[i].subtype \in CIDTypes THEN pdf_font_load_cidfont(T, i) ELSE T
    IN  FoldLeft(FinishFont, FoldLeft(cid, encoded, ids), ids)
=============================================================================
