------------------------------- MODULE OtfCmap -------------------------------
(***************************************************************************)
(* CMaps made from the character map of an OpenType font (tt_cmap.c): the  *)
(* ToUnicode CMap of an embedded font, the CMap from Unicode to CIDs of a  *)
(* font whose encoding is "unicode", and the one from glyphs to CIDs.      *)
(*                                                                         *)
(* A CMap is a function: of bfchar entries for a code the last one stays,  *)
(* of cidchar entries the first.  What cff.c reads of a CFF table is a     *)
(* record: cid, whether it is a CIDFont, charset, its ranges <<first, left>> *)
(* (left is 0 in format 0), format, and the names of its glyphs.           *)
(***************************************************************************)
EXTENDS TrueType

NoCff == [cid |-> FALSE, format |-> 0, charset |-> <<>>, names |-> <<>>]

Identity(num) == [g \in 0 .. num - 1 |-> g]

\* The CIDs in the order of the glyphs from the first after .notdef on.
Listed(cff) == FlattenSeq([i \in DOMAIN cff.charset |->
                  [k \in 1 .. cff.charset[i][2] + 1 |-> cff.charset[i][1] + k - 1]])
create_GIDToCIDMap(num, cff) ==
    LET cids == Listed(cff)
    IN  IF ~cff.cid \/ (cff.format = 2 /\ Len(cff.charset) = 1 /\ cff.charset[1][1] = 1) THEN Identity(num)
        ELSE [g \in 0 .. num - 1 |-> IF g \in DOMAIN cids THEN cids[g] ELSE 0]

is_PUA_or_presentation(c) ==
    \E r \in { <<11904, 12019>>, <<12032, 12245>>, <<57344, 63743>>, <<64256, 64335>>, <<63744, 64255>>,
             <<194560, 195103>>, <<983040, 1048573>>, <<1048576, 1114109>>, <<173, 173>> } : c \in r[1] .. r[2]

lookup_glyph_name(post, cff, gid) ==
    LET name == IF post = None THEN None ELSE tt_get_glyphname(post[1], gid)
    IN  IF name # None \/ cff = None THEN name ELSE <<cff[1].names[gid + 1]>>

-----------------------------------------------------------------------------
(* The characters of a map with their glyphs, as <<character, glyph>>.  The *)
(* entries of a segment are taken as they are: 0 is not an absent glyph.    *)

SegmentPairs(m, i) ==
    [k \in 1 .. m.end[i] - m.start[i] + 1 |->
        LET ch == m.start[i] + k - 1
        IN  <<ch, IF m.range[i] = 0 THEN (ch + m.delta[i]) % Word
                  ELSE IF m.start[i] = Word - 1 /\ m.range[i] = Word - 1 THEN 0
                  ELSE (Indexed(m, i, ch) + m.delta[i]) % Word>>]
GroupPairs(g) == [k \in 1 .. g.end - g.start + 1 |-> <<g.start + k - 1, (g.gid + k - 1) % Word>>]

NoChars(num) == [g \in 0 .. num - 1 |-> -1]
\* Both maps of a glyph: characters of its own and compatibility characters.
Inverse2(num, pairs) ==
    FoldLeft(LAMBDA acc, p : IF is_PUA_or_presentation(p[1]) THEN [acc EXCEPT !.sub = (p[2] :> p[1]) @@ @]
                             ELSE [acc EXCEPT !.base = (p[2] :> p[1]) @@ @],
             [base |-> NoChars(num), sub |-> NoChars(num)], pairs)

create_inverse_cmap4(num, m)  == Inverse2(num, FlattenSeq([i \in DOMAIN m.end |-> SegmentPairs(m, i)]))
create_inverse_cmap12(num, m) == Inverse2(num, FlattenSeq([i \in DOMAIN m.groups |-> GroupPairs(m.groups[i])]))
InverseOf(num, m) == IF m.format = 4 THEN create_inverse_cmap4(num, m) ELSE create_inverse_cmap12(num, m)

-----------------------------------------------------------------------------
(* ToUnicode.  The sources are asked in turn for the CIDs still without a   *)
(* text: the map of the font, then what was kept when the CMap of the font  *)
(* was made or else GSUB, then the names of the glyphs, and at last the     *)
(* compatibility characters.                                                *)

\* A text for the CIDs of the glyphs that have one.
AddTexts(st, num, cids, Text(_)) ==
    FoldLeft(LAMBDA acc, g : IF cids[g] \in acc.used /\ Text(g) # None THEN AddText(acc, cids[g], Text(g)) ELSE acc,
             st, [k \in 1 .. num |-> k - 1])

handle_subst_glyphs(st, add) ==
    [cmap |-> [c \in st.used \cap DOMAIN add |-> add[c]] @@ st.cmap, used |-> st.used \ DOMAIN add]

add_ToUnicode_via_glyph_name(st, num, cids, s, cff, agl, names) ==
    LET post == tt_read_post_table(s, names.standard, names.extra)
        text(g) == LET n == lookup_glyph_name(post, cff, g) IN IF n = None THEN None ELSE agl_get_unicodes(agl, n[1])
    IN  IF post = None /\ cff = None THEN st ELSE AddTexts(st, num, cids, text)

create_ToUnicode_cmap(m, add, used, s, cff, agl, names) ==
    LET num  == tt_read_maxp_table(s).numGlyphs
        inv  == InverseOf(num, m)
        ps   == s.type = "POSTSCRIPT"
        cids == IF ps THEN create_GIDToCIDMap(num, cff) ELSE Identity(num)
        env  == [base |-> inv.base, sub |-> inv.sub, num |-> num, cids |-> cids]
        char(c) == IF UC_is_valid(c) THEN <<c>> ELSE None
        base(g) == char(inv.base[g])
        sub(g)  == char(inv.sub[g])
        one == AddTexts([cmap |-> <<>>, used |-> used], num, cids, base)
        two == IF add # None THEN handle_subst_glyphs(one, add[1]) ELSE otl_gsub_add_ToUnicode(one, env, s)
        thr == add_ToUnicode_via_glyph_name(two, num, cids, s, IF ps /\ ~cff.cid THEN <<cff>> ELSE None, agl, names)
    IN  AddTexts(thr, num, cids, sub).cmap

\* The file of a font, whatever kind of OpenType font it is.
OpenAny(file, index, dfont) ==
    LET s == sfnt_open(file)
    IN  IF ~dfont /\ s.type = "POSTSCRIPT" THEN <<sfnt_read_table_directory(s, 0)>>
        ELSE OpenFont(file, index, dfont)

UnicodeMaps == << <<3, 10>>, <<0, 3>>, <<0, 0>>, <<3, 1>>, <<0, 1>> >>

\* The first map of format 4 or 12; without one there is no ToUnicode.
otf_create_ToUnicode_stream(font, add) ==
    LET s  == OpenAny(font.file, font.index, font.dfont)
        m(i) == tt_cmap_read(s[1], UnicodeMaps[i][1], UnicodeMaps[i][2])
        at == {i \in DOMAIN UnicodeMaps : m(i) # None /\ m(i)[1].format \in {4, 12}}
    IN  IF s = None THEN None
        ELSE IF at = {} THEN None
        ELSE <<create_ToUnicode_cmap(m(Min(at))[1], add, font.used \cup font.usedv, s[1], font.cff,
                                     font.agl, font.names)>>

-----------------------------------------------------------------------------
(* The CMap from Unicode to CIDs.                                           *)

\* A glyph after the features of the font and the vertical substitution.
Substituted(list, vert, gid) ==
    LET g == IF list = None THEN gid ELSE otl_gsub_apply_chain(list[1], gid)
        v == IF vert = None THEN -1 ELSE otl_gsub_apply(vert[1], g)
    IN  IF v < 0 THEN g ELSE v

\* Pairs in the order they are added.
LoadPairs(num, cids, pairs) ==
    LET first == FoldLeft(LAMBDA acc, p : IF p[1] \in DOMAIN acc THEN acc
                                          ELSE (p[1] :> IF p[2] < num THEN cids[p[2]] ELSE 0) @@ acc,
                          <<>>, pairs)
    IN  [cmap |-> first, inv |-> Inverse2(num, pairs)]

\* The segments from the last to the first; no glyph, no entry.
load_cmap4(m, cids, num, vert, list) ==
    LET n   == Len(m.end)
        all == SelectSeq(FlattenSeq([k \in 1 .. n |-> SegmentPairs(m, n + 1 - k)]),
                         LAMBDA p : p[2] \notin {0, Word - 1})
    IN  LoadPairs(num, cids, [k \in DOMAIN all |-> <<all[k][1], Substituted(list, vert, all[k][2])>>])

load_cmap12(m, cids, num, vert, list) ==
    LET all == FlattenSeq([i \in DOMAIN m.groups |-> GroupPairs(m.groups[i])])
    IN  LoadPairs(num, cids, [k \in DOMAIN all |-> <<all[k][1], Substituted(list, vert, all[k][2])>>])

FirstMap(s, pairs) ==
    LET at == {i \in DOMAIN pairs : tt_cmap_read(s, pairs[i][1], pairs[i][2]) # None}
    IN  IF at = {} THEN None ELSE tt_cmap_read(s, pairs[Min(at)][1], pairs[Min(at)][2])

\* The CMap, and what is kept for ToUnicode when features are in use: added to
\* what an earlier CMap of the font has kept.
otf_load_Unicode_CMap(font, wmode, tags, kept) ==
    LET s    == OpenAny(font.file, font.index, font.dfont)
        num  == tt_read_maxp_table(s[1]).numGlyphs
        cids == IF s[1].type = "POSTSCRIPT" THEN create_GIDToCIDMap(num, font.cff) ELSE Identity(num)
        m    == FirstMap(s[1], << <<3, 10>>, <<3, 1>>, <<0, 3>> >>)
        vert == IF wmode = 1 THEN VerticalGsub([type |-> "via_cid_to_code"], s[1]) ELSE None
        list == IF tags = None THEN None
                ELSE <<otl_gsub_set_chain(otl_gsub_add_feat_list(otl_gsub_new, tags, s[1]), tags)>>
        got  == IF m[1].format = 12 THEN load_cmap12(m[1], cids, num, vert, list)
                ELSE load_cmap4(m[1], cids, num, vert, list)
        env  == [base |-> got.inv.base, sub |-> got.inv.sub]
        text(g) == IF cids[g] > 0 /\ UC_is_valid(CharOfGlyph(env, g)) THEN <<CharOfGlyph(env, g)>> ELSE None
        old  == IF kept = None THEN [c \in {0} |-> <<Word - 1>>] ELSE kept[1]
        new  == FoldLeft(LAMBDA acc, g : IF text(g) = None THEN acc ELSE (cids[g] :> text(g)) @@ acc,
                         old, [k \in 1 .. num |-> k - 1])
    IN  IF s = None THEN None
        ELSE IF m = None THEN None
        ELSE <<[cmap |-> got.cmap, kept |-> IF tags = None THEN kept ELSE <<new>>]>>

\* Only a CFF font has one, and only when it is a CIDFont.
otf_try_load_GID_to_CID_map(font) ==
    LET s == OpenAny(font.file, font.index, font.dfont)
    IN  IF s = None THEN None
        ELSE IF s[1].type # "POSTSCRIPT" \/ ~font.cff.cid THEN None
        ELSE <<create_GIDToCIDMap(tt_read_maxp_table(s[1]).numGlyphs, font.cff)>>

=============================================================================
