------------------------------- MODULE MCCodes -------------------------------
(***************************************************************************)
(* From the codes of a document to glyphs and characters: small CMap       *)
(* files, encodings, font maps and font caches, made here, are read, used  *)
(* and written; what comes out has to mean what the files say.             *)
(***************************************************************************)
EXTENDS FontCache

CONSTANTS
  Made(_, _),  \* Outcome: what the program makes of a subject of some kind
  Reread(_)    \* Parsed: the CMap that is read from the tokens of one

VARIABLES kind, given, done, made
vars == <<kind, given, done, made>>

-----------------------------------------------------------------------------
(* CMap files.  A record is <<section, first code, last code, value>>.      *)

Csi == <<"Adobe", "Japan1", 4>>
Spaces == <<<<<<0>>, <<1>>>>, <<<<2, 0>>, <<3, 3>>>>>>
ValidCodes == {<<0>>, <<1>>} \cup {<<a, b>> : a \in {2, 3}, b \in 0 .. 3}

CidRecords ==
    <<<<"cidrange", <<0>>, <<1>>, 5>>, <<"cidchar", <<1>>, <<1>>, 9>>, <<"cidrange", <<2, 0>>, <<2, 3>>, 2>>,
      <<"cidchar", <<2, 1>>, <<2, 1>>, 14>>, <<"cidrange", <<3, 1>>, <<3, 2>>, 12>>,
      <<"cidrange", <<0>>, <<3>>, 7>>, <<"notdefrange", <<2, 0>>, <<2, 2>>, 1>>, <<"notdefchar", <<0>>, <<0>>, 3>>>>
BfRecords ==
    <<<<"bfrange", <<0>>, <<1>>, <<2, 3>>>>, <<"bfchar", <<1>>, <<1>>, <<1, 1, 2, 0>>>>,
      <<"bfrange", <<2, 0>>, <<2, 3>>, <<0, 2>>>>, <<"bfchar", <<2, 1>>, <<2, 1>>, <<2, 0>>>>,
      <<"bfarray", <<3, 0>>, <<3, 1>>, <<<<1, 0>>, <<3, 3, 3, 2>>>>>>, <<"bfchar", <<3, 2>>, <<3, 2>>, <<3, 3>>>>,
      <<"bfrange", <<3, 1>>, <<3, 3>>, <<1, 3, 3, 3>>>>>>

Value(v) == IF v \in 0 .. 15 THEN Num(v) ELSE Str(v)
RecordTokens(r) ==
    CASE r[1] \in {"cidrange", "notdefrange"} -> Section(r[1], <<<<Str(r[2]), Str(r[3]), Num(r[4])>>>>)
      [] r[1] \in {"cidchar", "notdefchar"} -> Section(r[1], <<<<Str(r[2]), Num(r[4])>>>>)
      [] r[1] = "bfrange" -> Section(r[1], <<<<Str(r[2]), Str(r[3]), Str(r[4])>>>>)
      [] r[1] = "bfchar" -> Section(r[1], <<<<Str(r[2]), Str(r[4])>>>>)
      [] r[1] = "bfarray" -> Section("bfrange", <<<<Str(r[2]), Str(r[3]), <<"mark", "[">>>>
                                                  \o [i \in DOMAIN r[4] |-> Str(r[4][i])] \o <<Op("]")>>>>)

File(name, type, wmode, use, csi, recs) ==
    [sig |-> TRUE,
     toks |-> <<Nm("CIDInit"), Nm("ProcSet"), Op("findresource"), Op("begin"), Op("begincmap")>>
              \o (IF use = "" THEN <<>> ELSE <<Nm(use), Op("usecmap")>>)
              \o CsiTokens(csi)
              \o <<Nm("CMapName"), Nm(name), Op("def"), Nm("CMapType"), Num(type), Op("def"),
                   Nm("WMode"), Num(wmode), Op("def")>>
              \o Section("codespacerange", [i \in DOMAIN Spaces |-> <<Str(Spaces[i][1]), Str(Spaces[i][2])>>])
              \o FlattenSeq([i \in DOMAIN recs |-> RecordTokens(recs[i])])
              \o <<Op("endcmap")>>]

\* What the records say of a code: the last CID, the last character string.
Covers(r, c) == /\ Len(r[2]) = Len(c) /\ Front(r[2]) = Front(c) /\ Last(c) \in Last(r[2]) .. Last(r[3])
                /\ r[2] \in ValidCodes /\ r[3] \in ValidCodes
Hits(recs, c) == {i \in DOMAIN recs : Covers(recs[i], c)}
IsNotdef(r) == r[1] \in {"notdefrange", "notdefchar"}
CidOf(r, c) == IF IsNotdef(r) THEN r[4] ELSE r[4] + (Last(c) - Last(r[2]))
\* Among those of one file a later CID supersedes what is before it, and a
\* notdef record is for the codes without a CID; a file comes before the one it uses.
MeantBy(recs, c) ==
    LET cids == {i \in Hits(recs, c) : ~IsNotdef(recs[i])}
    IN  CidOf(recs[Max(IF cids # {} THEN cids ELSE Hits(recs, c))], c)
MeantCid(recs, use, c) ==
    IF Hits(recs, c) # {} THEN MeantBy(recs, c) ELSE IF Hits(use, c) # {} THEN MeantBy(use, c) ELSE 0
\* A CID after another record of the same code that says something else.
Redefined(recs, c) ==
    \E i, j \in Hits(recs, c) : i < j /\ ~IsNotdef(recs[j]) /\ CidOf(recs[i], c) # CidOf(recs[j], c)
RECURSIVE Bytes(_, _)
Bytes(n, len) == IF len = 0 THEN <<>> ELSE Append(Bytes(n \div B, len - 1), n % B)
MeantText(recs, c) ==
    LET r == recs[Max(Hits(recs, c))]
    IN  IF Hits(recs, c) = {} THEN <<ByteMax, ByteMax - 2>>
        ELSE IF r[1] = "bfarray" THEN r[4][(Last(c) - Last(r[2])) + 1]
        ELSE Bytes(Number(r[4]) + (Last(c) - Last(r[2])), Len(r[4]))

Picks(n, most) == UNION {[1 .. k -> 1 .. n] : k \in 0 .. most}
Of(list, pick) == [i \in DOMAIN pick |-> list[pick[i]]]
GivenCids == {[recs |-> Of(CidRecords, p), use |-> u] :
                 p \in Picks(Len(CidRecords), 3),
                 u \in {<<>>, <<CidRecords[3]>>, <<CidRecords[2], CidRecords[5]>>}}
GivenTexts == {[recs |-> Of(BfRecords, p)] : p \in Picks(Len(BfRecords), 3)}

ReadFiles(files, name) == CMap_cache_find(CMap_cache_init(files), name)
MadeCids(g) ==
    ReadFiles([n \in {"A", "U"} |-> IF n = "U" THEN File("U", CODE_TO_CID, 0, "", Csi, g.use)
                                    ELSE File("A", CODE_TO_CID, 0, IF g.use = <<>> THEN "" ELSE "U", Csi, g.recs)], "A")
Parsed(toks) ==
    LET w == [cmaps |-> <<CMap_new>>, files |-> <<>>, dead |-> FALSE]
    IN  CMap_parse([w |-> w, id |-> 1, toks |-> toks, st |-> 0, n |-> -1])
MadeTexts(g) ==
    LET read == ReadFiles([n \in {"T"} |-> File("T", TO_UNICODE, 0, "", CSI_UNICODE, g.recs)], "T")
        out == CMap_create_stream(read.w, read.w.cmaps[read.id])
    IN  [read |-> read, out |-> out, again |-> Reread(out.toks)]

\* A code that is given one CID has it, from the records of its file that cover it or else of the
\* CMap that is used, in any order with the notdef records after it; the file that a CMap uses is
\* read while it is itself being read.  A code that a later record gives another CID is left out:
\* CMap_add_cidrange ignores that record, and CMap_add_bfrange quotes the specification against it.
CidsRight ==
    done /\ kind = "cids" =>
        LET cmap == made.w.cmaps[made.id]
        IN  /\ made.id # 0 /\ ~made.w.dead
            /\ \A c, d \in {b \in ValidCodes : ~Redefined(given.recs, b) /\ ~Redefined(given.use, b)} :
                LET text == CMap_decode(made.w, cmap, c \o d)
                IN  ~text.dead /\ text.out = <<Cid(MeantCid(given.recs, given.use, c)),
                                               Cid(MeantCid(given.recs, given.use, d))>>

\* A later record replaces an earlier one, and the stream written from the tables means the same.
TextsRight ==
    done /\ kind = "texts" =>
        /\ \A c \in ValidCodes :
              CMap_decode(made.read.w, made.read.w.cmaps[made.read.id], c).out = <<MeantText(given.recs, c)>>
        /\ made.out.made => /\ made.again.st = 0
                            /\ \A c \in ValidCodes : CMap_decode(made.again.w, Cur(made.again), c).out
                                                     = <<MeantText(given.recs, c)>>
        /\ given.recs # <<>> => made.out.made

-----------------------------------------------------------------------------
(* Encodings.  The glyphs are a, b, c, the ligature c_a, one without        *)
(* characters and one whose name spells its character.                      *)

Names == <<Glyphs!Name(Glyphs!Plain(1)), Glyphs!Name(Glyphs!Plain(2)), Glyphs!Name(Glyphs!Plain(3)),
           [parts |-> <<Glyphs!Plain(3), Glyphs!Plain(1)>>, suffix |-> None],
           Glyphs!Name(Glyphs!Plain(4)), Glyphs!Name(Glyphs!UniName(<<9>>))>>
List == Glyphs!agl_load_listfile(<<>>, <<<<Glyphs!Plain(1), <<6>>>>, <<Glyphs!Plain(2), <<7>>>>, <<Glyphs!Plain(3), <<12>>>>>>)
TextOf == <<<<6>>, <<7>>, <<12>>, <<12, 6>>, <<>>, <<9>>>>

Vec(a, b, c, d) == [x \in Codes |-> CASE x = 0 -> a [] x = 1 -> b [] x = 2 -> c [] OTHER -> d]
Win == Vec(1, 2, 3, 6)
Vectors == [n \in {"e1", "e2", "e3"} |->
    CASE n = "e1" -> Vec(1, 3, 2, 6) [] n = "e2" -> Vec(2, 1, 4, 5) [] OTHER -> Vec(0, 2, 3, 1)]
EncodingState(version) ==
    pdf_init_encodings([encodings |-> <<>>, list |-> List, names |-> Names, version |-> version,
                        files |-> [n \in DOMAIN Vectors |-> [array |-> TRUE, name |-> n \o "-Enc", vec |-> Vectors[n]]]],
                       Win, Vec(2, 2, 3, 3), Vec(5, 5, 5, 5))

Uses == {{0}, {1, 2}, {2, 3}, {0, 1, 3}}
GivenEncodings ==
    [uses : UNION {[1 .. k -> [name : DOMAIN Vectors \cup {"WinAnsiEncoding", "missing"}, used : Uses, type3 : BOOLEAN]] :
                      k \in 1 .. 2},
     version : {13, 15}]
Use(e, u) ==
    LET found == pdf_encoding_findresource(e, u.name)
        t == IF u.type3 THEN pdf_encoding_used_by_type3(found.e, found.id) ELSE found.e
    IN  IF found.id = 0 THEN found.e ELSE pdf_encoding_add_usedchars(t, found.id, u.used)
MadeEncodings(g) == pdf_encoding_complete(FoldLeft(Use, EncodingState(g.version), g.uses))

\* How a reader understands an Encoding entry.
Differ(res, c) ==
    FoldLeft(LAMBDA a, d : IF d[1] = "code" THEN [a EXCEPT !.at = d[2]]
                           ELSE [at |-> a.at + 1, glyph |-> IF a.at = c THEN d[2] ELSE a.glyph],
             [at |-> 0, glyph |-> 0], res.diffs).glyph
BaseVector(e, name, builtin) ==
    IF name = "" THEN builtin ELSE e.encodings[CHOOSE i \in 1 .. 3 : e.encodings[i].name = name].glyphs
ReadGlyph(e, res, builtin, c) ==
    IF res.kind = "dict" /\ Differ(res, c) # 0 THEN Differ(res, c) ELSE BaseVector(e, res.base, builtin)[c]
ReadText(toks, c) == LET p == Reread(toks) IN CMap_decode(p.w, Cur(p), c).out[1]

UsedAs(g, id) == UNION {IF g.uses[i].name \in {id.ident, id.name} THEN g.uses[i].used ELSE {} : i \in DOMAIN g.uses}
\* The differences written give every used code its glyph, and the ToUnicode CMap its characters.
EncodingsRight ==
    done /\ kind = "encodings" =>
        \A i \in 4 .. Len(made.encodings) :
            LET enc == made.encodings[i]
                used == UsedAs(given, enc)
                shown == {c \in used : enc.glyphs[c] # 0}
            IN  /\ enc.glyphs = Vectors[enc.ident]
                /\ \A c \in shown : ReadGlyph(made, enc.resource, NoGlyphs, c) = enc.glyphs[c]
                /\ enc.tounicode = None <=> shown = {} \/ \E c \in shown : TextOf[enc.glyphs[c]] = <<>>
                /\ enc.tounicode # None =>
                      \A c \in shown : ReadText(enc.tounicode, <<c>>) = Utf16(TextOf[enc.glyphs[c]])

-----------------------------------------------------------------------------
(* Font maps.                                                               *)

Field(name, index, noembed, charcoll, style) ==
    [name |-> name, index |-> index, noembed |-> noembed, charcoll |-> charcoll, style |-> style]
Line(name, enc, font, opts) == [name |-> name, fields |-> <<Field(enc, 0, FALSE, "", ""), font>>, opts |-> opts, parts |-> <<>>]
Font(name) == Field(name, 0, FALSE, "", "")

Item(from, to) == <<"range", from, to>>
SFD == [n \in {"S"} |->
    <<<<<<"id", "x">>, Item(1, 2), <<"\\">>>>,
      <<<<"pos", 3>>, Item(8, 8), <<"#">>, <<"bad">>>>,
      <<<<"#">>>>,
      <<<<"id", "y">>, <<"pos", 1>>, Item(4, 5)>>,
      <<<<"id", "z">>, Item(1, 2), <<"pos", 1>>, Item(3, 3)>>>>]
Vectors3 == [id \in {"x", "y", "z"} |->
    CASE id = "x" -> [s \in 0 .. SlotMax |-> CASE s = 0 -> 1 [] s = 1 -> 2 [] s = 3 -> 8 [] OTHER -> 0]
      [] id = "y" -> [s \in 0 .. SlotMax |-> CASE s = 1 -> 4 [] s = 2 -> 5 [] OTHER -> 0]
      [] OTHER -> None]

Family == <<"foo", "S", "">>
MapLines == <<Line(Map!Plain("bar"), "e1", Font("f1"), <<>>),
              Line(Map!Plain("bar"), "default", Font("f2"), <<<<"s", <<2>>>>>>),
              Line(Family, "J", Font("cid"), <<>>),
              Line(Map!Plain("foox"), "e2", Font("f1"), <<>>),
              [name |-> Family, fields |-> <<Field("e2", 0, FALSE, "", "")>>, opts |-> <<<<"e", <<2>>>>>>, parts |-> <<>>],
              [name |-> Map!Plain("bar"), fields |-> <<>>, opts |-> <<>>, parts |-> <<<<"<enc", "e3">>, <<"<font", "f1">>>>]>>
Modes == {"replace", "append", "remove"}
GivenMaps == UNION {[1 .. k -> [mode : Modes, line : DOMAIN MapLines]] : k \in 1 .. 3}
MadeMaps(g) ==
    FoldLeft(LAMBDA m, f : Map!pdf_load_fontmap_file(m, <<MapLines[f.line]>>, f.mode), Map!pdf_init_fontmaps(SFD), g)

\* The names a line is about, and what it says of them.
SubName(id) == Map!Plain("foo" \o id)
About(line) == {line.name} \cup (IF line.name = Family THEN {SubName("x"), SubName("y"), SubName("z")} ELSE {})
Says(line, name) ==
    IF name # line.name THEN <<"link", Family>>
    ELSE <<"line", IF Len(line.fields) = 2 THEN <<line.fields[2].name>>
                   ELSE IF line.parts # <<>> THEN <<line.parts[2][2]>> ELSE <<"foo">>>>
RECURSIVE Told(_, _)
Told(g, name) ==
    LET last == g[Len(g)]
        before == Told(Front(g), name)
        line == MapLines[last.line]
    IN  IF g = <<>> THEN None
        ELSE IF name \notin About(line) THEN before
        ELSE IF last.mode = "remove" THEN None
        ELSE IF last.mode = "append" /\ before # None THEN before
        ELSE Says(line, name)

\* A font name finds the record that the map files, each read to replace, to append or to remove,
\* leave it, and a subfont name finds the family it belongs to and the vector of its definition,
\* however often the files are loaded (fontmap.c, subfont.c).
MapsRight ==
    done /\ kind = "maps" =>
        /\ \A name \in {Map!Plain("bar"), Family, SubName("x"), SubName("y"), SubName("z")} :
              LET got == Map!pdf_lookup_fontmap_record(made, name)
                  told == Told(given, name)
              IN  IF told = None THEN got = None
                  ELSE IF told[1] = "link"
                       THEN got[1].map = Family /\ SubName(got[1].sub) = name
                  ELSE <<got[1].font>> = told[2] /\ got[1].map = Map!NoName
        /\ Family \in DOMAIN made.table =>
              \A id \in {"x", "y", "z"} :
                  LET rec == Map!sfd_load_record(made, "S", id)
                  IN  IF Vectors3[id] = None THEN rec.rec = 0
                      ELSE \A s \in 0 .. SlotMax : Map!lookup_sfd_record(rec.m, rec.rec, s) = Vectors3[id][s]

-----------------------------------------------------------------------------
(* Fonts.                                                                   *)

Program(k, csi, glyphs, builtin, pairs) ==
    [kind |-> k, psname |-> "Font", csi |-> csi, glyphs |-> glyphs, builtin |-> builtin, licensed |-> TRUE, count |-> 2,
     subtype |-> "cidtype0", cids |-> pairs, chars |-> <<>>]
Programs == [n \in {"f1", "f2", "tt", "cid", "ryu", "k"} |->
    CASE n = "f1" -> Program("type1", None, <<1, 2, 3, 4, 6>>, Vec(4, 3, 2, 1), <<>>)
      [] n = "f2" -> Program("otf", None, <<1, 2, 3, 4, 5, 6>>, Vec(3, 2, 1, 4), <<>>)
      [] n = "tt" -> Program("truetype", None, <<1, 2, 3, 4, 5, 6>>, Vec(1, 1, 1, 1), <<>>)
      [] n = "cid" -> Program("otfcid", Csi, <<1, 2, 3, 4, 5, 6>>, Vec(1, 1, 1, 1), <<<<0, 0>>, <<6, 11>>, <<9, 3>>>>)
      [] n = "ryu" -> Program("base", Csi, <<>>, Vec(1, 1, 1, 1), <<>>)
      [] n = "k" -> Program("pk", None, <<1, 2, 3, 4, 5, 6>>, Vec(2, 4, 1, 3), <<>>)]

JRecords == <<CidRecords[1], CidRecords[3]>>
J2Records == <<<<"cidrange", <<2, 0>>, <<2, 3>>, 8>>>>
VRecords == <<CidRecords[4]>>
CMapFiles == [n \in {"J", "J2", "V", "cid-UCS2"} |->
    CASE n = "J"  -> File("J", CODE_TO_CID, 0, "", Csi, JRecords)
      [] n = "J2" -> File("J2", CODE_TO_CID, 0, "", <<"Adobe", "Japan1", 6>>, J2Records)
      [] n = "V"  -> File("V", CODE_TO_CID, 1, "J", Csi, VRecords)
      [] OTHER    -> File("cid-UCS2", TO_UNICODE, 0, "", CSI_UNICODE, <<BfRecords[6]>>)]

FontLine(n) ==
    LET name == Map!Plain(n)
        cid == Field("cid", 0, FALSE, "", "")
    IN CASE n \in {"a", "a2"} -> Line(name, "e1", Font("f1"), <<>>)
         [] n = "b"  -> Line(name, "e2", Font("f1"), <<<<"s", <<1>>>>>>)
         [] n = "c"  -> Line(name, "default", Font("f1"), <<>>)
         [] n = "o"  -> Line(name, "e3", Font("f2"), <<>>)
         [] n = "t"  -> Line(name, "e1", Font("tt"), <<>>)
         [] n = "t1" -> Line(name, "e1", Field("tt", 1, FALSE, "", ""), <<>>)
         [] n = "th" -> Line(name, "Identity-H", Font("tt"), <<>>)
         [] n = "tj" -> Line(name, "J", Font("tt"), <<>>)
         [] n = "tv" -> Line(name, "V", Font("tt"), <<>>)
         [] n = "cj" -> Line(name, "J", cid, <<>>)
         [] n = "c2" -> Line(name, "J2", cid, <<>>)
         [] n = "cv" -> Line(name, "V", cid, <<>>)
         [] n = "ch" -> Line(name, "Identity-H", cid, <<>>)
         [] n = "cs" -> Line(name, "J", Field("cid", 0, FALSE, "J", "Bold"), <<>>)
         [] n = "r"  -> Line(name, "J", Field("ryu", 0, TRUE, "", ""), <<>>)
         [] n = "u"  -> Line(name, "unicode", Font("f1"), <<>>)
FontNames == {"a", "a2", "b", "c", "o", "t", "t1", "th", "tj", "tv", "cj", "c2", "cv", "ch", "cs", "r", "u"}
FontMapOf ==
    Map!pdf_insert_native_fontmap_record(
        FoldLeft(LAMBDA m, n : Map!pdf_load_fontmap_file(m, <<FontLine(n)>>, "replace"), Map!pdf_init_fontmaps(<<>>),
                 <<"a", "a2", "b", "c", "o", "t", "t1", "th", "tj", "tv", "cj", "c2", "cv", "ch", "cs", "r", "u">>),
        Map!Plain("g"), "cid", 0, FALSE, 1, 0, 0)
Start == pdf_init_fonts(Programs, CMapFiles, EncodingState(15), FontMapOf)

\* Requests for a font in a size, with a string each.
Multi == {"tj", "tv", "cj", "c2", "cv", "cs", "r"}
Strings(n) ==
    CASE n \in Multi -> {<<2, 1, 0>>, <<2, 3>>}
      [] n \in {"th", "ch"} -> {<<1, 1, 2, 0>>}
      [] n = "g" -> {<<1, 2, 2, 1>>}
      [] n = "u" -> {<<0, 0, 1, 2, 0, 0, 1, 3>>, <<0, 0, 2, 1>>}
      [] OTHER -> {<<1>>, <<2, 3>>}
Requests == {[name |-> n, size |-> s, str |-> t] : n \in FontNames \cup {"k", "g"}, s \in {1}, t \in {<<>>}}
            \cup {[name |-> "k", size |-> 2, str |-> <<>>], [name |-> "cj", size |-> 2, str |-> <<>>]}
Asked == {[r EXCEPT !.str = t] : r \in Requests, t \in {<<1>>, <<2, 3>>, <<2, 1, 0>>, <<1, 1, 2, 0>>, <<1, 2, 2, 1>>,
                                                      <<0, 0, 1, 2, 0, 0, 1, 3>>, <<0, 0, 2, 1>>}}
RightAsked == {r \in Asked : r.str \in Strings(r.name)}
Core == {r \in RightAsked : r.name \in {"a", "a2", "b", "k", "th", "tj", "tv", "cj", "c2", "cv", "ch", "g"}
                            /\ r.str \in {<<1>>, <<2, 1, 0>>, <<1, 1, 2, 0>>, <<1, 2, 2, 1>>}}
GivenFonts == UNION {[1 .. k -> RightAsked] : k \in 1 .. 2} \cup [1 .. 3 -> Core]

\* The fonts located, the codes shown with them, and the fonts written at the end.
MadeFonts(g) ==
    LET one(a, r) ==
            LET at == pdf_dev_locate_font(a.S, r.name, r.size)
                set == SetString(at.S, at.id, r.str)
            IN  [S |-> set.S, dev |-> Append(a.dev, at.id), codes |-> Append(a.codes, set.codes)]
        all == FoldLeft(one, [S |-> Start, dev |-> <<>>, codes |-> <<>>], g)
    IN  [all EXCEPT !.S = pdf_close_fonts(@)]

\* What the map line of a request asks for.
CodesIn(n, str) ==
    CASE str = <<2, 1, 0>> /\ n \in Multi -> <<<<2, 1>>, <<0>>>>
      [] n \in Multi -> <<str>>
      [] n \in {"th", "ch", "g"} -> <<SubSeq(str, 1, 2), SubSeq(str, 3, 4)>>
      [] n = "u" -> IF Len(str) = 4 THEN <<str>> ELSE <<SubSeq(str, 1, 4), SubSeq(str, 5, 8)>>
      [] OTHER -> [i \in DOMAIN str |-> <<str[i]>>]
Ask(n, c) ==
    CASE n \in {"tj", "cj", "cs", "r"} -> MeantCid(JRecords, <<>>, c)
      [] n = "c2" -> MeantCid(J2Records, <<>>, c)
      [] n \in {"tv", "cv"} -> MeantCid(VRecords, JRecords, c)
      [] n = "g" -> IF Number(c) = 6 THEN 11 ELSE 3
      [] n = "u" -> (CASE Number(c) = 6 -> 1 [] Number(c) = 7 -> 2 [] Number(c) = 9 -> 5)
      [] OTHER -> Number(c)
Vertical == {"tv", "cv"}
FileOf(n) == CASE n = "k" -> "k" [] n = "g" -> "cid" [] OTHER -> FontLine(n).fields[2].name
IndexOf(n) == IF n = "t1" THEN 1 ELSE 0
VectorOf(n) == IF n \in {"k", "c"} THEN Programs[FileOf(n)].builtin ELSE Vectors[FontLine(n).fields[1].name]
Composite == Multi \cup {"th", "ch", "g", "u"}
CollectionOf(n) == IF n \in {"th", "u"} THEN CACHE_IDENTITY ELSE <<"Adobe", "Japan1">>
Embedded(n) == n \notin {"cs", "r"}

SimpleShown(f, n, code) ==
    LET prog == f.res.program[1]
    IN  /\ f.ref /\ prog.file = FileOf(n) /\ prog.index = IndexOf(n) /\ code \in prog.chars
        /\ f.subtype # "truetype" =>
              ReadGlyph(made.S.e, f.res.encoding, prog.vec, code) = VectorOf(n)[code]
        /\ f.subtype = "truetype" => prog.vec = VectorOf(n)
        /\ f.res.tounicode # <<>> /\ VectorOf(n)[code] \in ToSet(Programs[FileOf(n)].glyphs) =>
              ReadText(f.res.tounicode, <<code>>) = Utf16(TextOf[VectorOf(n)[code]])
CompositeShown(f, n, cid) ==
    LET d == made.S.fonts[f.res.desc]
        prog == d.res.program[1]
    IN  /\ f.ref /\ d.ref /\ d.file = FileOf(n) /\ Collection(d.res.csi) = CollectionOf(n)
        /\ f.res.cmap = (IF n \in Vertical THEN "Identity-V" ELSE "Identity-H")
        /\ n \in Vertical => d.vmetrics
        /\ IF Embedded(n) THEN d.res.program # None /\ prog.file = FileOf(n)
                               /\ cid \in (IF n = "tv" THEN prog.vert ELSE prog.chars)
           ELSE d.res.program = None
        /\ n = "u" => ReadText(f.res.tounicode, Cid(cid)) = Utf16(TextOf[Programs["f1"].glyphs[cid]])
        /\ f.res.base[1] = d.res.base[1]

SameFont(a, b) == FileOf(a) = FileOf(b) /\ VectorOf(a) = VectorOf(b) /\ IndexOf(a) = IndexOf(b)
\* Whatever fonts are asked for in which order, sizes and encodings: each name gets the font, the
\* CID or glyph for each code and the metrics its map line asks for, and fonts are shared.
FontsRight ==
    done /\ kind = "fonts" =>
        /\ ~made.S.dead
        /\ \A i \in DOMAIN given :
              LET n == given[i].name
                  dev == made.S.dev[made.dev[i]]
                  f == made.S.fonts[dev.short]
                  codes == CodesIn(n, given[i].str)
              IN  /\ dev.size = given[i].size /\ dev.slant = (IF n = "b" THEN 1 ELSE 0)
                  /\ Len(made.codes[i]) = Len(codes)
                  /\ \A k \in DOMAIN codes :
                        /\ made.codes[i][k] = Ask(n, codes[k])
                        /\ IF n \in Composite THEN CompositeShown(f, n, made.codes[i][k])
                           ELSE SimpleShown(f, n, made.codes[i][k])
                  /\ n = "k" => f.size = given[i].size
        \* A font is written once.
        /\ \A i, j \in DOMAIN given :
              LET a == given[i].name
                  b == given[j].name
              IN  {a, b} \cap Composite = {} /\ {a, b} # {"k"} =>
                      (SameFont(a, b) <=> made.S.dev[made.dev[i]].short = made.S.dev[made.dev[j]].short)

-----------------------------------------------------------------------------

Subjects(k) ==
    CASE k = "cids" -> GivenCids [] k = "texts" -> GivenTexts [] k = "encodings" -> GivenEncodings
      [] k = "maps" -> GivenMaps [] k = "fonts" -> GivenFonts
Outcome(k, g) ==
    LET out == CASE k = "cids" -> MadeCids(g) [] k = "texts" -> MadeTexts(g) [] k = "encodings" -> MadeEncodings(g)
                 [] k = "maps" -> MadeMaps(g) [] k = "fonts" -> MadeFonts(g)
    IN  out

Init == /\ \E k \in {"cids", "texts", "encodings", "maps", "fonts"} : \E g \in Subjects(k) : kind = k /\ given = g
        /\ done = FALSE /\ made = <<>>
Next == ~done /\ done' = TRUE /\ made' = Made(kind, given) /\ UNCHANGED <<kind, given>>
Spec == Init /\ [][Next]_vars

\* Every CMap, read from files that use others, decodes as its files say, and written again still
\* does (cmap.c, cmap_read.c, cmap_write.c).
CMapsRight == CidsRight /\ TextsRight

\* What the closed document has for a font of the page leads from each code that was shown to the
\* glyph meant and to its characters, whichever fonts share its program, its CIDFont or its
\* encoding (pdffont.c, cid.c, type0.c, pdfencoding.c).
CodesShown == EncodingsRight /\ FontsRight
=============================================================================
