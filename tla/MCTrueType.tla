----------------------------- MODULE MCTrueType -----------------------------
(***************************************************************************)
(* Small TrueType fonts, built here table by table, are embedded as simple *)
(* fonts and as CIDFonts and turned into CMaps; what comes out has to show *)
(* for every used code and CID the glyph that the font has for it.         *)
(***************************************************************************)
EXTENDS OtfCmap, TLC

CONSTANTS
  FileWith(_),  \* InFile: the font file that some options describe
  Made(_, _)    \* MadeOf: what the program makes of a font of some kind

VARIABLES kind, given, made
vars == <<kind, given, made>>

-----------------------------------------------------------------------------
(* The glyphs: outlines, of which two are composites, one of them nested.   *)

Simple(n, extra) == <<1, 0, 0, 0, 10 * n, 200 + n>> \o extra
Scale == 8  More == 32  Words == 1
Glyphs == [g \in 0 .. 10 |->
    CASE g = 3 -> <<Word - 1, 0, 0, 0, 30, More, 1, 0, Scale, 2, 1, 16>>
      [] g = 4 -> <<Word - 1, 0, 0, 0, 40, More + Words, 3, 2, 2, 64, 6, 0, 1, 1>>
      [] g = 5 -> <<>>
      [] OTHER -> Simple(g, IF g % 2 = 1 THEN <<7>> ELSE <<>>)]
NumGlyphs == 11
\* A is 1, acute 2, Aacute 3, the rest have no names that matter.
Em == 1000
LongMetrics == 8
Advance == [g \in 0 .. 10 |-> CASE g \in {1, 3} -> 400 [] g = 2 -> 300 [] g = 9 -> 1400 [] g >= 7 -> 500
                                [] OTHER -> 100 * g + 50]
TrueAdvance(g) == IF g < LongMetrics THEN Advance[g] ELSE Advance[LongMetrics - 1]
Bearing(g) == g

Cat(seqs) == FlattenSeq(seqs)
Ranged(n, f(_)) == [i \in 1 .. n |-> f(i - 1)]

Hmtx == LET f(g) == IF g < LongMetrics THEN <<Advance[g], Bearing(g)>> ELSE <<Bearing(g)>>
        IN  Cat(Ranged(NumGlyphs, f))
Vmtx == LET f(g) == IF g < 2 THEN <<900 + g, Word - g>> ELSE <<g>> IN Cat(Ranged(NumGlyphs, f))
Even(w) == w \o [i \in 1 .. Len(w) % 2 |-> 0]
Glyf == LET f(g) == Even(Glyphs[g]) IN Cat(Ranged(NumGlyphs, f))
Start(g) == FoldLeft(LAMBDA a, k : IF k - 1 < g THEN a + Len(Even(Glyphs[k - 1])) ELSE a, 0,
                     [k \in 1 .. NumGlyphs |-> k])
Starts == [i \in 1 .. NumGlyphs + 1 |-> Start(i - 1)]

-----------------------------------------------------------------------------
(* Tables with offsets.                                                     *)

Offsets(n, blocks) ==
    FoldLeft(LAMBDA acc, b : Append(acc, Last(acc) + 2 * Len(b)), <<2 * n>>, blocks)

\* A character map of chars, a sequence of <<character, glyph>> in order.
Map0(chars) == <<0, 262, 0>> \o [c \in 1 .. CodeMax + 1 |->
                  LET at == {i \in DOMAIN chars : chars[i][1] = c - 1}
                  IN  IF at = {} THEN 0 ELSE chars[CHOOSE i \in at : TRUE][2]]
FirstOfMap(chars) == chars[1][1]
Span(chars) == Last(chars)[1] - FirstOfMap(chars) + 1
Dense(chars, delta) == [k \in 1 .. Span(chars) |->
                  LET at == {i \in DOMAIN chars : chars[i][1] = FirstOfMap(chars) + k - 1}
                  IN  IF at = {} THEN 0 ELSE (chars[CHOOSE i \in at : TRUE][2] - delta) % Word]
Map2(chars) == <<2, 6 + 2 * (CodeMax + 1) + 8 + 2 * Span(chars), 0>> \o [c \in 1 .. CodeMax + 1 |-> 0]
               \o <<FirstOfMap(chars), Span(chars), Word - 1, 2>> \o Dense(chars, Word - 1)
\* One segment for each character, or one for all of them.
Map4(chars, joined) ==
    LET n      == IF joined THEN 2 ELSE Len(chars) + 1
        ends   == IF joined THEN <<Last(chars)[1]>> ELSE [i \in DOMAIN chars |-> chars[i][1]]
        starts == IF joined THEN <<FirstOfMap(chars)>> ELSE ends
        deltas == IF joined THEN <<0>> ELSE [i \in DOMAIN chars |-> (chars[i][2] - chars[i][1]) % Word]
        ranges == IF joined THEN <<4>> ELSE [i \in DOMAIN chars |-> 0]
        glyphs == IF joined THEN Dense(chars, 0) ELSE <<>>
    IN  <<4, 16 + 8 * n + 2 * Len(glyphs), 0, 2 * n, 0, 0, 0>> \o ends \o <<Word - 1, 0>> \o starts \o <<Word - 1>>
        \o deltas \o <<1>> \o ranges \o <<0>> \o glyphs
Map6(chars) == <<6, 10 + 2 * Span(chars), 0, FirstOfMap(chars), Span(chars)>> \o Dense(chars, 0)
Map12(chars) == <<12, 0, 0, 16 + 12 * Len(chars), 0, 0, 0, Len(chars)>>
                \o Cat([i \in DOMAIN chars |-> sfnt_put_ulong(chars[i][1]) \o sfnt_put_ulong(chars[i][1])
                                               \o sfnt_put_ulong(chars[i][2])])
MapOfFormat(format, chars) ==
    CASE format = 0 -> Map0(chars) [] format = 2 -> Map2(chars) [] format = 4 -> Map4(chars, FALSE)
      [] format = 5 -> Map4(chars, TRUE) [] format = 6 -> Map6(chars) [] format = 12 -> Map12(chars)

\* maps: <<platform, encoding, table>>
CmapOf(maps) ==
    LET at == Offsets(2 + 4 * Len(maps), [i \in DOMAIN maps |-> maps[i][3]])
    IN  <<0, Len(maps)>> \o Cat([i \in DOMAIN maps |-> <<maps[i][1], maps[i][2], 0, at[i]>>])
        \o Cat([i \in DOMAIN maps |-> maps[i][3]])

TagWords(t) == <<t[1] * 256 + t[2], t[3] * 256 + t[4]>>
ListCoverage(list) == <<1, Len(list)>> \o list
RangeCoverage(first, last) == <<2, 1, first, last, 0>>
Single1(cov, delta) == <<1, 6, delta % Word>> \o cov
Single2(cov, to) == <<2, 6 + 2 * Len(to), Len(to)>> \o to \o cov
Sets(cov, sets) == LET at == Offsets(3 + Len(sets), sets)
                   IN  <<1, Last(at), Len(sets)>> \o SubSeq(at, 1, Len(sets)) \o Cat(sets) \o cov
AltSet(alts) == <<Len(alts)>> \o alts
Lig(glyph, rest) == <<glyph, Len(rest) + 1>> \o rest
LigSet(ligs) == <<Len(ligs)>> \o SubSeq(Offsets(1 + Len(ligs), ligs), 1, Len(ligs)) \o Cat(ligs)
Extension(type, sub) == <<1, type, 0, 8>> \o sub
Lookup(type, subs) == <<type, 0, Len(subs)>> \o SubSeq(Offsets(3 + Len(subs), subs), 1, Len(subs)) \o Cat(subs)
FeatureTable(i) == <<0, 1, i>>
Numbered(blocks) == <<Len(blocks)>> \o SubSeq(Offsets(1 + Len(blocks), blocks), 1, Len(blocks)) \o Cat(blocks)
FeatureList(tags) ==
    <<Len(tags)>> \o Cat([i \in DOMAIN tags |-> TagWords(tags[i]) \o <<2 + 6 * Len(tags) + 6 * (i - 1)>>])
    \o Cat([i \in DOMAIN tags |-> FeatureTable(i - 1)])
\* One script with a default language and another one that has all but the first feature.
ScriptList(n) ==
    LET all == [i \in 1 .. n |-> i - 1]
        dflt == <<0, Word - 1, n>> \o all
    IN  <<1>> \o TagWords(Dflt) \o <<8>> \o <<10, 1>> \o TagWords(VERT) \o <<10 + 2 * Len(dflt)>>
        \o dflt \o <<0, Word - 1, n - 1>> \o Tail(all)

ALT  == <<110, 97, 108, 116>>
\* A small capital (6) of A, a vertical form (7) of A and (8) of acute, an
\* alternate (9) of A, a ligature (10) of A and acute.
Gsub(vert) ==
    LET tags == <<SMCP, LIGA, ALT, vert>>
        lookups == <<Lookup(SINGLE, <<Single2(ListCoverage(<<1>>), <<6>>)>>),
                     Lookup(LIGATURE, <<Sets(ListCoverage(<<1>>), <<LigSet(<<Lig(9, <<1>>), Lig(10, <<2>>)>>)>>)>>),
                     Lookup(ESUBST, <<Extension(ALTERNATE, Sets(RangeCoverage(1, 1), <<AltSet(<<3, 9>>)>>))>>),
                     Lookup(SINGLE, <<Single1(RangeCoverage(1, 2), 6)>>)>>
        s == ScriptList(4)
        f == FeatureList(tags)
    IN  <<1, 0, 10, 10 + 2 * Len(s), 10 + 2 * Len(s) + 2 * Len(f)>> \o s \o f \o Numbered(lookups)

-----------------------------------------------------------------------------
(* Names.                                                                   *)

NotDefName == [parts |-> <<>>, suffix |-> <<110>>]
NameA == Name(Plain(1))     NameAcute == Name(Plain(2))   NameAacute == Name(Plain(3))
Odd   == Name(Plain(9))
Names == [standard |-> <<NotDefName, NameA, NameAcute>>, extra |-> <<NameAacute, Odd>>]
\* post lists the names of all glyphs; Odd stands for names nobody uses.
PostTable(version) ==
    IF version = 2 THEN <<2, NumGlyphs>> \o [i \in 1 .. NumGlyphs |-> IF i <= 4 THEN i - 1 ELSE 4] ELSE <<version, 0>>
Asmall == Variant(1, SC)
AglEntries == <<(<<Plain(1), <<65>>>>), <<Plain(2), <<180>>>>, <<Plain(3), <<193>>>>, <<Asmall, <<63329>>>>,
                <<Plain(4), <<65, 180>>>>>>
Agl == agl_load_listfile(<<>>, AglEntries)
Alt2 == ALT \o <<50>>
Joined == [parts |-> <<Plain(1), Plain(2)>>, suffix |-> None]
\* The names of an encoding and the glyphs they stand for.
NamesOf == << NameA, NameAacute, Name(UniName(<<180>>)), Suffixed(NameA, SC), Name(Asmall),
              Joined, Suffixed(NameA, Alt2), Name(Plain(4)), NoName >>
GlyphsOf == << 1, 3, 2, 6, 6, 10, 9, 10, 0 >>

-----------------------------------------------------------------------------
(* Files.                                                                   *)

Font(opt) ==
    LET os2    == IF opt.os2 THEN <<(<<TagOs2, <<800, Word - 200>>>>)>> ELSE <<>>
        tables == <<(<<TagCmap, CmapOf(opt.maps)>>), <<TagGlyf, Glyf>>,
                    <<TagHead, <<Em, IF opt.long THEN 1 ELSE 0>>>>, <<TagHhea, <<LongMetrics>>>>,
                    <<TagHmtx, Hmtx>>,
                    <<TagLoca, IF opt.long THEN Cat([i \in DOMAIN Starts |-> sfnt_put_ulong(2 * Starts[i])])
                               ELSE Starts>>,
                    <<TagMaxp, <<NumGlyphs>>>>, <<TagName, <<0>>>>, <<TagPost, PostTable(opt.post)>>>>
        more == (IF opt.gsub = None THEN <<>> ELSE <<(<<TagGsub, Gsub(opt.gsub[1])>>)>>)
                \o (IF opt.vertical THEN <<(<<TagVhea, <<2>>>>), <<TagVmtx, Vmtx>>>> ELSE <<>>)
    IN  os2 \o tables \o more

\* A font at an offset; positions of its tables count from base.
Directory(tables, version, at, base) ==
    LET n    == Len(tables)
        offs == Offsets((at - base) \div 2 + 6 + 8 * n, [i \in 1 .. n |-> Even(tables[i][2])])
    IN  sfnt_put_ulong(version) \o <<n, 0, 0, 0>>
        \o Cat([i \in 1 .. n |-> sfnt_put_ulong(tables[i][1]) \o <<7, 7>> \o sfnt_put_ulong(offs[i])
                                 \o sfnt_put_ulong(2 * Len(tables[i][2]))])
        \o Cat([i \in 1 .. n |-> Even(tables[i][2])])

Other == <<(<<TagName, <<5>>>>)>>       \* another font of the same file
FileOf(tables, box) ==
    LET first == Directory(Other, TrueTypeVersion, 20, 0)
        res1  == Directory(Other, TrueTypeVersion, 0, 0)
        res2  == Directory(tables, TrueTypeVersion, 0, 0)
        data  == sfnt_put_ulong(2 * Len(res1)) \o res1 \o sfnt_put_ulong(2 * Len(res2)) \o res2
    IN  CASE box = "plain" -> Directory(tables, TrueTypeVersion, 0, 0)
          [] box = "otf" -> Directory(tables, PostScriptVersion, 0, 0)
          [] box = "ttc" -> <<0, TtcVersion, 1, 0, 0, 2, 0, 20, 0, 20 + 2 * Len(first)>> \o first
                            \o Directory(tables, TrueTypeVersion, 20 + 2 * Len(first), 0)
          [] box = "dfont" -> <<0, 16, 0, 16 + 2 * Len(data), 0, 0, 0, 0>> \o data
                              \o [i \in 1 .. 12 |-> 0] \o <<28, 0>> \o <<0, 0, SfntTag, 1, 10>>
                              \o <<1, 0, 0, 0, 0, 0>> \o <<2, 0>> \o sfnt_put_ulong(2 * Len(res1) + 4) \o <<0, 0>>
IndexIn(box) == IF box \in {"ttc", "dfont"} THEN 1 ELSE 0

Opened(f) == [file |-> f.file, index |-> f.index, dfont |-> f.dfont]
InFile(opt) ==
    LET file == FileOf(Font(opt), opt.box)
    IN  [file |-> file, index |-> IndexIn(opt.box), dfont |-> opt.box = "dfont"]

-----------------------------------------------------------------------------
(* What is embedded.                                                        *)

Chars == << <<65, 1>>, <<67, 3>>, <<180, 2>>, <<193, 3>>, <<63329, 6>>, <<65293, 5>> >>
Low   == << <<5, 1>>, <<6, 2>>, <<9, 3>> >>
CodesA == << <<1, 1>>, <<3, 3>>, <<4, 5>>, <<7, 4>>, <<8, 8>>, <<12, 3>> >>

Boxes == {"plain", "ttc", "dfont"}
MacMap(format, codes) == <<MAC, MAC_ROMAN, MapOfFormat(format, codes)>>
WinMap(format, chars) == IF format = 12 THEN <<WIN, WIN_UCS4, Map12(chars)>>
                         ELSE <<WIN, WIN_UNICODE, MapOfFormat(format, chars)>>

Init == kind = "none" /\ given = <<>> /\ made = None

Builtin ==
    \E box \in Boxes, format \in {0, 2, 5, 6}, long \in BOOLEAN, used \in SUBSET {1, 3, 4, 7, 12, 13} :
        LET opt  == [maps |-> <<WinMap(4, Chars), MacMap(format, CodesA)>>, long |-> long, post |-> 1,
                     gsub |-> None, vertical |-> FALSE, os2 |-> TRUE, box |-> box]
            font == [used |-> used, enc |-> None] @@ FileWith(opt)
        IN  /\ used # {}
            /\ (box = "plain" \/ used = {3, 7}) /\ (long => format = 0)
            /\ kind' = "simple"
            /\ given' = [font |-> font, glyphs |-> [c \in used |->
                            LET at == {i \in DOMAIN CodesA : CodesA[i][1] = c}
                            IN  IF at = {} THEN 0 ELSE CodesA[CHOOSE i \in at : TRUE][2]]]
            /\ made' = Made("simple", font)

Encoded ==
    \E format \in {4, 12}, post \in {1, 2, 3}, gsub \in {None, <<VERT>>}, box \in {"plain", "ttc"},
       used \in SUBSET (0 .. 8) :
        LET opt  == [maps |-> <<WinMap(format, Chars)>>, long |-> FALSE, post |-> post,
                     gsub |-> gsub, vertical |-> FALSE, os2 |-> TRUE, box |-> box]
            font == [used |-> used, enc |-> <<[c \in 0 .. 8 |-> NamesOf[c + 1]]>>, agl |-> Agl, names |-> Names,
                     junk |-> 2] @@ FileWith(opt)
        IN  /\ Cardinality(used) \in {1, 2, 7} /\ (Cardinality(used) = 2 => 0 \in used) /\ (box = "ttc" => used = 0 .. 6)
            /\ gsub = None => used \subseteq {0, 1, 2, 8}
            /\ kind' = "simple"
            /\ given' = [font |-> font, glyphs |-> [c \in used |-> GlyphsOf[c + 1]]]
            /\ made' = Made("simple", font)

\* CIDs in use for horizontal and for vertical text.  CID n + 20 is for the
\* n-th character when a CMap says so.
CidCode(n) == LET c == Chars[n][1] IN <<c \div 256, c % 256>>
ToCode == <<[cid \in 0 .. 30 |-> IF cid \in 21 .. 20 + Len(Chars) THEN CidCode(cid - 20)
                                 ELSE IF cid = 27 THEN <<34, 18>> ELSE <<>>]>>
ToGid == <<[cid \in 0 .. 30 |-> IF cid \in 21 .. 30 THEN <<0, cid - 20>> ELSE <<>>]>>

Cids ==
    \E way \in {"identity", "togid", "ucs", "tocode"}, gsub \in {<<VERT>>, <<VRT2>>, None},
       vertical \in BOOLEAN, embed \in BOOLEAN, os2 \in BOOLEAN, unset \in {0, 77},
       box \in {"plain", "ttc", "dfont"}, h, v \in SUBSET (0 .. 3) :
        LET cid(k) == CASE way = "identity" -> <<1, 4, 2, 9>>[k + 1] [] way = "ucs" -> <<5, 6, 9, 11>>[k + 1]
                        [] OTHER -> <<21, 23, 25, 27>>[k + 1]
            gid(c) == CASE way = "identity" -> c [] way = "togid" -> c - 20
                        [] way = "ucs" -> (5 :> 1 @@ 6 :> 2 @@ 9 :> 3 @@ 11 :> 0)[c]
                        [] OTHER -> (21 :> 1 @@ 23 :> 2 @@ 25 :> 6 @@ 27 :> 5)[c]
            vgid(c) == IF gsub # None /\ way \in {"ucs", "tocode"} /\ gid(c) \in {1, 2} THEN gid(c) + 6 ELSE gid(c)
            used == {cid(k) : k \in h}  usedv == {cid(k) : k \in v}
            opt  == [maps |-> <<WinMap(4, IF way = "ucs" THEN Low ELSE Chars)>>, long |-> FALSE, post |-> 3, gsub |-> gsub,
                     vertical |-> vertical, os2 |-> os2, box |-> box]
            font == [used |-> used, usedv |-> usedv, identity |-> way = "identity",
                     togid |-> IF way = "togid" THEN ToGid ELSE None, ucs |-> way = "ucs",
                     tocode |-> [i \in 1 .. Len(KnownEncodings) |-> IF i = 2 THEN ToCode ELSE None],
                     embed |-> embed, unset |-> unset, fixed |-> FALSE, vmetrics |-> v # {}] @@ FileWith(opt)
        IN  /\ Cardinality(h \cup v) = 2 /\ h \cap v \in {{}, h \cup v}
            /\ (gsub # None => way \in {"ucs", "tocode"}) /\ (gsub = <<VRT2>> => ~vertical)
            /\ box # "plain" => h = {0} /\ v = {2}
            /\ ~embed => h = {0, 1}
            /\ ~os2 => gsub = None /\ box = "plain"
            /\ unset # 0 => way = "tocode" /\ v = {3}
            /\ kind' = "cid"
            /\ given' = [font |-> font, vertical |-> vertical, os2 |-> os2,
                         glyphs |-> [c \in used \cup usedv |-> IF c \in used THEN gid(c) ELSE vgid(c)]]
            /\ made' = Made("cid", font)

\* The texts a glyph may stand for: of its characters, and of what a
\* substitution or its name makes of them.
TextsOf(g, gsub, chars) ==
    LET of(k) == {chars[i][1] : i \in {j \in DOMAIN chars : chars[j][2] = k}}
        own   == {<<c>> : c \in of(g)}
    IN  IF gsub = None THEN own
        ELSE own \cup CASE g \in {6, 7, 9} -> {<<c>> : c \in of(1)} \cup {<<c, c>> : c \in of(1)}
                       [] g = 8  -> {<<c>> : c \in of(2)}
                       [] g = 10 -> {<<c, d>> : c \in of(1), d \in of(2)}
                       [] OTHER  -> {}

\* The charsets of a CFF table for the ten glyphs after .notdef, and no table.
CffTables == { [NoCff EXCEPT !.names = [i \in 1 .. NumGlyphs |-> IF i = 4 THEN NameAacute ELSE Odd]],
               [NoCff EXCEPT !.cid = TRUE, !.charset = << <<3, 1>>, <<8, 3>>, <<1, 1>>, <<20, 1>> >>, !.format = 1],
               [NoCff EXCEPT !.cid = TRUE, !.charset = << <<1, 9>> >>, !.format = 2] }
CidsOf(box, cff) == IF box # "otf" \/ ~cff.cid \/ cff.format = 2 THEN [g \in 0 .. 10 |-> g]
                    ELSE [g \in 0 .. 10 |-> <<0, 3, 4, 8, 9, 10, 11, 1, 2, 20, 21>>[g + 1]]

Text ==
    \E box \in {"plain", "otf"}, format \in {4, 12}, post \in {2, 3}, gsub \in {None, <<VERT>>}, cff \in CffTables,
       glyphs \in SUBSET (1 .. 10) :
        LET opt  == [maps |-> <<WinMap(format, Chars)>>, long |-> FALSE, post |-> post, gsub |-> gsub,
                     vertical |-> FALSE, os2 |-> TRUE, box |-> box]
            cids == CidsOf(box, cff)
            used == {cids[g] : g \in glyphs}
            font == [used |-> used, usedv |-> {}, cff |-> cff, agl |-> Agl, names |-> Names] @@ FileWith(opt)
        IN  /\ glyphs \in {1 .. 10, {1, 6, 9, 10}, {3}, {4, 7, 8}, {2, 5, 6}}
            /\ (box = "plain" => ~cff.cid)
            /\ kind' = "text"
            /\ given' = [cids |-> cids, glyphs |-> glyphs, gsub |-> gsub, used |-> used]
            /\ made' = Made("text", font)

\* The font is loaded with one or two CMaps from its characters, one after
\* the other, and the CIDs they give are in use.
Upright == [wmode |-> 0, tags |-> None]
Loads == { Upright, [Upright EXCEPT !.wmode = 1], [Upright EXCEPT !.tags = <<(<<(<<SMCP>>)>>)>>],
           [wmode |-> 1, tags |-> <<(<<(<<SMCP>>), <<Dflt, VERT>>>>)>>] }
Unicode ==
    \E box \in {"plain", "otf"}, format \in {4, 12}, cff \in CffTables, loads \in {1, 2}, a, b \in Loads,
       chars \in {Chars, Low, SubSeq(Chars, 1, 2)} :
        LET opt  == [maps |-> <<WinMap(format, chars)>>, long |-> FALSE, post |-> 3, gsub |-> <<VERT>>,
                     vertical |-> FALSE, os2 |-> TRUE, box |-> box]
            file == [cff |-> cff, agl |-> Agl, names |-> Names] @@ FileWith(opt)
        IN  /\ (box = "plain" => ~cff.cid) /\ (loads = 1 => a = b)
            /\ (loads = 2 => format = 4 /\ box = "otf" /\ chars = Chars)
            /\ kind' = "unicode"
            /\ given' = [loads |-> loads, chars |-> chars, cids |-> CidsOf(box, cff), a |-> a, b |-> b]
            /\ made' = Made("unicode", [loads |-> loads, a |-> a, b |-> b] @@ file)

MadeOf(k, f) ==
    LET load(l, kept) == otf_load_Unicode_CMap(f, l.wmode, IF l.tags = None THEN None ELSE l.tags[1], kept)[1]
        one  == load(f.a, None)
        two  == IF f.loads = 2 THEN load(f.b, one.kept) ELSE one
        used == {one.cmap[c] : c \in DOMAIN one.cmap} \cup {two.cmap[c] : c \in DOMAIN two.cmap}
    IN  CASE k = "simple" -> pdf_font_load_truetype(f)
          [] k = "cid" -> CIDFont_type2_dofont(f)
          [] k = "text" -> [map |-> otf_try_load_GID_to_CID_map(f), text |-> otf_create_ToUnicode_stream(f, None)]
          [] k = "unicode" -> [cmaps |-> {one.cmap, two.cmap}, one |-> one.cmap, used |-> used,
                               text |-> otf_create_ToUnicode_stream([used |-> used, usedv |-> {}] @@ f, two.kept)[1]]

Next == kind = "none" /\ (Builtin \/ Encoded \/ Cids \/ Text \/ Unicode)
Spec == Init /\ [][Next]_vars

-----------------------------------------------------------------------------
(* Reading what was embedded.                                               *)

\* The outline of a glyph: what its parts are drawn from, with their places.
RECURSIVE Outline(_, _, _), Parts(_, _, _, _)
Parts(t, f, data, p) ==
    LET n == (IF Bit(data[p], 0) THEN 2 ELSE 1)
             + (IF Bit(data[p], 3) THEN 1 ELSE IF Bit(data[p], 6) THEN 2 ELSE IF Bit(data[p], 7) THEN 4 ELSE 0)
    IN  <<data[p]>> \o SubSeq(data, p + 2, p + 1 + n) \o Outline(t, f, data[p + 1])
        \o (IF Bit(data[p], 5) THEN Parts(t, f, data, p + 2 + n) ELSE <<>>)
Outline(t, f, gid) ==
    LET data == UShorts(f, t.glyf + t.loca[gid], (t.loca[gid + 1] - t.loca[gid]) \div 2)
    IN  IF IsComposite(data) THEN SubSeq(data, 1, 5) \o Parts(t, f, data, 6) ELSE Even(data)

\* The same for the glyphs as they were given.
RECURSIVE Meant(_), MeantParts(_, _)
MeantParts(data, p) ==
    LET n == (IF data[p] \in {Words, Words + More} THEN 2 ELSE 1) + (IF data[p] = Scale THEN 1 ELSE 0)
             + (IF data[p] = 64 THEN 2 ELSE 0)
    IN  <<data[p]>> \o SubSeq(data, p + 2, p + 1 + n) \o Meant(data[p + 1])
        \o (IF data[p] \in {More, More + Words} THEN MeantParts(data, p + 2 + n) ELSE <<>>)
Meant(gid) ==
    IF gid \in {3, 4} THEN SubSeq(Glyphs[gid], 1, 5) \o MeantParts(Glyphs[gid], 6) ELSE Even(Glyphs[gid])

Program(file) == sfnt_read_table_directory(sfnt_open(file), 0)

Shows(file, gid, meant) ==
    LET t == FontTables(Program(file))
    IN  Outline(t, file, gid) = Meant(meant) /\ t.hmtx[gid].advance = TrueAdvance(meant)
        /\ t.hmtx[gid].sideBearing = Bearing(meant)

WidthOfCode(w, c) == w.widths[c - w.first + 1]
WidthOfCid(h, cid) ==
    LET at == {i \in DOMAIN h.w : cid \in h.w[i].start .. h.w[i].start + Len(h.w[i].widths) - 1}
        i  == CHOOSE k \in at : TRUE
    IN  IF at = {} THEN h.dw ELSE h.w[i].widths[cid - h.w[i].start + 1]

CodesShown ==
    kind = "simple" =>
        /\ made # None
        /\ \A c \in given.font.used :
              LET m == tt_cmap_read(Program(made[1].file), MAC, MAC_ROMAN)[1]
              IN  /\ Shows(made[1].file, tt_cmap_lookup(m, c), given.glyphs[c])
                  /\ WidthOfCode(made[1].widths[1], c) = TrueAdvance(given.glyphs[c])

\* The vertical advance of a glyph and the position of one with an outline.
HeightOf(g) == IF given.vertical THEN 900 + Min({g, 1}) ELSE 1000
TopOf(g) == IF given.vertical THEN 10 * g + (IF g < 2 THEN -g ELSE g)
            ELSE IF given.os2 THEN 800 ELSE 880
VerticalOf(v, cid) ==
    LET at == {i \in DOMAIN v.w2 : v.w2[i].cid = cid}
        i  == CHOOSE k \in at : TRUE
    IN  IF at = {} THEN v.dw2 ELSE <<v.w2[i].y, v.w2[i].w>>

TTCidsShown ==
    kind = "cid" =>
        /\ made # None
        /\ \A cid \in DOMAIN given.glyphs :
              LET g == given.glyphs[cid]
              IN  /\ given.font.embed => Shows(made[1].file[1], cid, g)
                  /\ WidthOfCid(made[1].h, cid) = TrueAdvance(g)
                  /\ given.font.vmetrics =>
                        /\ VerticalOf(made[1].v, cid)[2] = -HeightOf(g)
                        /\ Glyphs[g] # <<>> => VerticalOf(made[1].v, cid)[1] = TopOf(g)

TextShown ==
    kind = "text" =>
        /\ made.map = None \/ made.map[1] = given.cids
        /\ \A g \in given.glyphs :
              IF TextsOf(g, given.gsub, Chars) = {} THEN given.cids[g] \notin DOMAIN made.text[1]
              ELSE made.text[1][given.cids[g]] \in TextsOf(g, given.gsub, Chars)

\* The CID of a character is that of its glyph after the substitutions, and
\* the text of a CID leads back to it.
GlyphAfter(l, g) ==
    LET small == IF l.tags # None /\ g = 1 THEN 6 ELSE g
    IN  IF l.wmode = 1 /\ small \in {1, 2} THEN small + 6 ELSE small
CharsLoaded ==
    kind = "unicode" =>
        /\ \A i \in DOMAIN given.chars :
              made.one[given.chars[i][1]] = given.cids[GlyphAfter(given.a, given.chars[i][2])]
        /\ \A g \in 1 .. 10 : given.cids[g] \in DOMAIN made.text =>
              LET text == made.text[given.cids[g]]
              IN  /\ text \in TextsOf(g, <<VERT>>, given.chars)
                  /\ given.b.tags # None => \E m \in made.cmaps :
                        text[1] \in DOMAIN m /\ m[text[1]] = given.cids[g]
        /\ given.loads = 1 => made.used \subseteq DOMAIN made.text

\* A font that is embedded shows for every used code and CID the outline and
\* metrics of the glyph meant, and the CMaps made from its character map lead
\* from characters to their glyphs and from CIDs back to their characters
\* (tt_glyf.c, truetype.c, cidtype2.c, tt_cmap.c).  What has no outline has no
\* place either: only its advances count.
TrueTypeShown == CodesShown /\ TTCidsShown /\ TextShown /\ CharsLoaded

=============================================================================
