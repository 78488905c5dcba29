------------------------------ MODULE MCFonts ------------------------------
(***************************************************************************)
(* Small fonts, built here from their glyphs, are read and embedded; what  *)
(* is embedded has to show, for every code and CID that is used, the glyph *)
(* and the width the font has for it.                                      *)
(***************************************************************************)
EXTENDS Type1Font, TLC

CONSTANTS
  Made(_, _),  \* Embedded: what the program makes of a font of some kind
  Read(_)      \* ReadFont: what a reader finds in a font file

VARIABLES kind, given, made
vars == <<kind, given, made>>

A == <<2>>   B == <<3>>   P == <<50>>   Q == <<51>>    \* glyph names; P and Q are not standard

-----------------------------------------------------------------------------
(* Glyphs: a shape is a sequence of bytes, of which 71 and 72 are what the  *)
(* subroutines draw.                                                        *)

Subrs  == << <<71, 71>>, <<72>> >>
GSubrs == << <<72, 72>> >>
Width  == (Notdef :> 7) @@ (Space :> 9) @@ (A :> 8) @@ (B :> 8) @@ (P :> 9) @@ (Q :> 11)
Body   == (Notdef :> <<10>>) @@ (Space :> <<>>) @@ (A :> <<12, LocalCall, LocalCall + 1>>)
          @@ (B :> <<LocalCall + 1, 13>>) @@ (P :> <<14, LocalCall>>) @@ (Q :> <<15>>)
Shape  == (Notdef :> <<10>>) @@ (Space :> <<>>) @@ (A :> <<12, 71, 71, 72>>)
          @@ (B :> <<72, 13>>) @@ (P :> <<14, 71, 71>>) @@ (Q :> <<15>>)

\* In a CFF font B calls a global subroutine as well.
CffBody(n)  == IF n = B THEN <<GlobalCall, 13>> ELSE Body[n]
CffShape(n) == IF n = B THEN <<72, 72, 13>> ELSE Shape[n]

-----------------------------------------------------------------------------
(* A CFF font, table by table.                                              *)

Bytes2(n) == <<n \div 256, n % 256>>
Long5(n)  == <<29, 0, 0>> \o Bytes2(n)
Starts(items) == [i \in 1 .. Len(items) + 1 |-> 1 + Sum([k \in 1 .. i - 1 |-> Len(items[k])])]
Index(items, wide) ==
    IF items = <<>> THEN <<0, 0>>
    ELSE Bytes2(Len(items)) \o <<IF wide THEN 2 ELSE 1>>
         \o FlattenSeq([i \in 1 .. Len(items) + 1 |->
                IF wide THEN Bytes2(Starts(items)[i]) ELSE <<Starts(items)[i]>>])
         \o FlattenSeq(items)

SidOf(n) == IF Len(n) = 1 /\ n[1] < StdMax THEN n[1] ELSE StdMax + n[1] - 50
\* Runs of consecutive numbers, as <<first, left>>, or the numbers one by one.
RunsOf(s, joined) ==
    LET first(i) == i = 1 \/ ~joined \/ s[i] # s[i - 1] + 1
        at == SetToSortSeq({i \in DOMAIN s : first(i)}, LAMBDA a, b : a < b)
    IN  [k \in DOMAIN at |-> <<s[at[k]], (IF k = Len(at) THEN Len(s) + 1 ELSE at[k + 1]) - at[k] - 1>>]
Charset(s, format) ==
    <<format>> \o FlattenSeq([i \in DOMAIN RunsOf(s, format > 0) |->
        LET r == RunsOf(s, format > 0)[i]
        IN  Bytes2(r[1]) \o (CASE format = 0 -> <<>> [] format = 1 -> <<r[2]>> [] OTHER -> Bytes2(r[2]))])
Encoding(codes, format, supp) ==
    LET rs == RunsOf(codes, format > 0)
    IN  <<format + (IF supp = <<>> THEN 0 ELSE 128), Len(rs)>>
        \o FlattenSeq([i \in DOMAIN rs |-> IF format = 0 THEN <<rs[i][1]>> ELSE rs[i]])
        \o (IF supp = <<>> THEN <<>>
            ELSE <<Len(supp)>> \o FlattenSeq([i \in DOMAIN supp |-> <<supp[i][1]>> \o Bytes2(supp[i][2])]))

\* Widths 9 and 11 in the Private DICT: the default one and what is added.
Private(default, nominal) == <<default + 139, 20, nominal + 139, 21>> \o Long5(10) \o <<19>>
CharString(n, default, nominal) ==
    <<IF Width[n] = default THEN 0 ELSE Width[n] - nominal>> \o CffBody(n)

FontName == <<90>>
Layout(top(_), strings, parts) ==
    LET head == <<1, 0, 4, 4>> \o Index(<<FontName>>, FALSE)
        size == Len(Index(<<top([i \in DOMAIN parts |-> 0])>>, FALSE))
        rest == Index(strings, FALSE) \o Index(GSubrs, FALSE)
        at   == [i \in DOMAIN parts |-> Len(head) + size + Len(rest)
                                        + Sum([k \in 1 .. i - 1 |-> Len(parts[k])])]
    IN  head \o Index(<<top(at)>>, FALSE) \o rest \o FlattenSeq(parts)

\* names lists the glyphs after .notdef.
CffOf(names, format, codes, eformat, supp, default, nominal) ==
    LET private == Private(default, nominal)
        chars   == <<Notdef>> \o names
        parts   == <<Charset([i \in DOMAIN names |-> SidOf(names[i])], format),
                     Encoding(codes, eformat, supp),
                     Index([i \in DOMAIN chars |-> CharString(chars[i], default, nominal)], TRUE),
                     private, Index(Subrs, FALSE)>>
    IN  Layout(LAMBDA at : Long5(at[1]) \o <<15>> \o Long5(at[2]) \o <<16>> \o Long5(at[3]) \o <<17>>
                           \o <<Len(private) + 139>> \o Long5(at[4]) \o <<18>>
                           \o <<144, 13>> \o Long5(SidOf(Q)) \o <<1>>,
               <<P, Q>>, parts)

\* A CID-keyed font of two Font DICTs; the first draws subroutine 0 otherwise.
CidOf(cids, format, names, fds, fformat) ==
    LET subrs2  == << <<72>>, <<71, 71>> >>
        chars   == <<Notdef>> \o names
        private == Private(9, 0)
        runs    == RunsOf(cids, TRUE)
        changes == SetToSortSeq({i \in DOMAIN fds : i = 1 \/ fds[i] # fds[i - 1]}, LAMBDA a, b : a < b)
        fdsel   == IF fformat = 0 THEN <<0>> \o fds
                   ELSE <<3>> \o Bytes2(Len(changes))
                        \o FlattenSeq([k \in DOMAIN changes |-> Bytes2(changes[k] - 1) \o <<fds[changes[k]]>>])
                        \o Bytes2(Len(chars))
        part(at) == <<Len(private) + 139>> \o Long5(at) \o <<18>>
        array(a, b) == Index(<<part(a), part(b)>>, FALSE)
        head(at) == Long5(SidOf(P)) \o Long5(SidOf(Q)) \o <<139, 12, 30>>
                    \o Long5(at[1]) \o <<15>> \o Long5(at[2]) \o <<12, 37>> \o Long5(at[3]) \o <<17>>
                    \o Long5(at[8]) \o <<12, 36>>
        parts(a, b) == <<Charset(cids, format), fdsel,
                         Index([i \in DOMAIN chars |-> CharString(chars[i], 9, 0)], FALSE),
                         private, Index(Subrs, FALSE), private, Index(subrs2, FALSE), array(a, b)>>
        size == Len(Layout(head, <<P, Q>>, parts(0, 0)))
        from(k) == size - Sum([i \in k .. 8 |-> Len(parts(0, 0)[i])])
    IN  Layout(head, <<P, Q>>, parts(from(4), from(6)))

Shape2(n) == IF n = A THEN <<12, 72, 71, 71>> ELSE IF n = P THEN <<14, 72>> ELSE CffShape(n)
CidShape(n, fd) == IF fd = 0 THEN CffShape(n) ELSE Shape2(n)


-----------------------------------------------------------------------------
(* A Type 1 program; a glyph may be an accented one.                        *)

Accented == <<11, Seac, 2, 3>>            \* accent A, base B
T1Bytes(n, accented) == IF n = P /\ accented THEN Accented ELSE <<Width[n]>> \o Body[n]
Keyed(b, lenIV) == IF lenIV < 0 THEN b ELSE [i \in 1 .. lenIV |-> 99] \o b

ProgramOf(names, accented, lenIV, encoding) ==
    [fontname |-> FontName, notice |-> <<60, 61>>, bbox |-> <<0, -200, 1000, 800>>,
     encoding |-> encoding, blues |-> <<-10, 0, 500, 510>>, lenIV |-> lenIV,
     subrs |-> << <<1, Keyed(Subrs[2], lenIV)>>, <<0, Keyed(Subrs[1], lenIV)>> >>,
     count |-> Len(names),
     chars |-> [i \in DOMAIN names |-> <<names[i], Keyed(T1Bytes(names[i], accented), lenIV)>>]]

Put(code, name) == [op |-> "put", to |-> code, name |-> name]
T1Encodings == {
    [standard |-> TRUE,  ops |-> <<>>],
    [standard |-> FALSE, ops |-> <<Put(0, A), Put(4, P), Put(1, Q)>>],
    [standard |-> FALSE, ops |-> <<Put(1, B), Put(2, P), [op |-> "interval", from |-> 0, n |-> 3, to |-> 3],
                                   [op |-> "copy", from |-> 2, to |-> 0]>>]}
\* The names these arrays hold.
T1Names(e) == CASE e.standard -> <<NULL, Space, A, B, NULL, NULL>>
                [] Len(e.ops) = 3 -> <<A, Q, NULL, NULL, P, NULL>>
                [] OTHER -> <<P, B, P, NULL, B, P>>

-----------------------------------------------------------------------------
(* What a reader of an embedded font finds.                                 *)

ReadFont(file) ==
    LET o == cff_open(file)
        a == [o EXCEPT !.charsets = cff_read_charsets(file, o)]
        b == IF o.cidfont THEN [a EXCEPT !.fdselect = cff_read_fdselect(file, a),
                                         !.fdarray = cff_read_fdarray(file, a)]
             ELSE [a EXCEPT !.encoding = cff_read_encoding(file, a)]
        c == [b EXCEPT !.private = cff_read_private(file, b)]
    IN  [c EXCEPT !.cstrings = cff_get_index(file, cff_dict_get(c.topdict, "CharStrings", 0) + 1)[1]]

Drawn(font, gid) == Tail(font.cstrings[gid + 1])
Advance(font, gid) ==
    LET w == Head(font.cstrings[gid + 1])
        p == font.private[IF font.cidfont THEN cff_fdselect_lookup(font, gid) + 1 ELSE 1]
    IN  IF w = 0 THEN Number(p, "defaultWidthX", 0) ELSE Number(p, "nominalWidthX", 0) + w

WidthAt(m, code) == IF code - m.first + 1 \in DOMAIN m.widths THEN m.widths[code - m.first + 1] ELSE 0
CidWidthAt(m, cid) ==
    LET at == {i \in DOMAIN m.W : cid - m.W[i].c + 1 \in DOMAIN m.W[i].w}
    IN  IF at = {} THEN m.DW ELSE LET i == CHOOSE k \in at : TRUE IN m.W[i].w[cid - m.W[i].c + 1]

\* The glyph of a code: by the names of the encoding of the PDF file when it
\* has one, else by the encoding of the font.
GlyphShown(font, enc, code) ==
    IF enc # NULL THEN cff_glyph_lookup(font, enc[code]) ELSE cff_encoding_lookup(font, code)

-----------------------------------------------------------------------------
(* The runs.  names[c + 1] is the glyph of code c, NULL when there is none.  *)

PdfEncodings == {NULL, [c \in Codes |-> <<A, P, A, Notdef, Q, <<63>>>>[c + 1]]}
NamesIn(enc, names) == [i \in 1 .. CodeMax + 1 |->
    IF enc[i - 1] \in ToSet(names) \ {Notdef} THEN enc[i - 1] ELSE NULL]
BuiltIn(names, codes, supp) == [i \in 1 .. CodeMax + 1 |->
    LET k == {j \in DOMAIN codes : codes[j] = i - 1}
    IN  IF k # {} THEN names[CHOOSE j \in k : TRUE]
        ELSE IF supp # <<>> /\ supp[1][1] = i - 1 THEN names[1] ELSE NULL]

Init == kind = "none" /\ given = <<>> /\ made = <<>>

Type1c ==
    \E names \in {<<A, P, Q>>, <<P, Q, A, B>>, <<Q, A, B>>}, f \in {<<0, 0>>, <<1, 1>>, <<2, 1>>},
       codes \in {<<1, 2, 3>>, <<4, 0, 1>>}, more \in BOOLEAN, wd \in {<<9, 2>>, <<8, 0>>},
       enc \in PdfEncodings, used \in {u \in SUBSET Codes : Cardinality(u) \in {1, 3, 5}} :
        LET supp == IF more THEN << <<5, SidOf(names[1])>> >> ELSE <<>>
        IN  /\ kind' = "type1c"
            /\ given' = [used |-> used, accented |-> FALSE, names |-> IF enc = NULL
                            THEN BuiltIn(names, codes, supp) ELSE NamesIn(enc, names)]
            /\ made' = Made("type1c", [file |-> <<names, f[1], codes, f[2], supp, wd[1], wd[2]>>, used |-> used, enc |-> enc])

Type1 ==
    \E names \in {<<Notdef, A, B, P>>, <<A, P, Notdef, B>>, <<Q, Space, P, A, Notdef, B>>},
       lenIV \in {-1, 0, 2}, accented \in BOOLEAN,
       e \in T1Encodings, enc \in PdfEncodings,
       used \in {u \in SUBSET Codes : Cardinality(u) \in {1, 3, 5}} :
        /\ kind' = "type1"
        /\ given' = [used |-> used, accented |-> accented, names |-> NamesIn(
                IF enc = NULL THEN [c \in Codes |-> T1Names(e)[c + 1]] ELSE enc, names)]
        /\ made' = Made("type1", [file |-> <<names, accented, lenIV, e>>, used |-> used, enc |-> enc])

Advances == <<9, 8, 9, 11, 8, 7>>       \* what the metrics table says of the glyphs

CidSets == {u \in SUBSET (0 .. CodeMax) : Cardinality(u) \in {1, 2, 4}}

\* given.names and given.fds follow the glyphs; given.cids their CIDs.
Type0 ==
    \E cids \in {<<1, 2, 3>>, <<5, 2, 3>>, <<4, 5>>, <<2, 4, 5>>}, f \in {<<0, 3>>, <<1, 0>>, <<2, 3>>},
       fds \in {<<0, 0, 1, 1>>, <<1, 0, 1, 0>>}, used \in CidSets :
        LET names == SubSeq(<<A, P, B>>, 1, Len(cids))
            select == SubSeq(fds, 1, Len(cids) + 1)
        IN  /\ kind' = "cff"
            /\ given' = [used |-> used, cids |-> <<0>> \o cids, names |-> <<Notdef>> \o names, fds |-> select]
            /\ made' = Made("cff", [file |-> <<cids, f[1], names, select, f[2]>>, used |-> used])

Type0FromType1c ==
    \E names \in {<<A, P, Q>>, <<P, Q, A, B>>}, wd \in {<<9, 2>>, <<8, 0>>}, used \in CidSets :
        /\ used \subseteq 0 .. Len(names)
        /\ kind' = "t1c"
        /\ given' = [used |-> used, cids |-> [i \in 1 .. Len(names) + 1 |-> i - 1],
                     names |-> <<Notdef>> \o names, fds |-> [i \in 1 .. Len(names) + 1 |-> 0]]
        /\ made' = Made("t1c", [file |-> <<names, 1, <<1, 2, 3>>, 0, <<>>, wd[1], wd[2]>>, used |-> used])

Type0FromType1 ==
    \E names \in {<<Notdef, A, B, P>>, <<A, P, Notdef, B>>, <<Q, Space, P, A, Notdef, B>>},
       lenIV \in {-1, 2}, accented \in BOOLEAN, used \in CidSets :
        LET glyphs == <<Notdef>> \o SelectSeq(names, LAMBDA n : n # Notdef)
        IN  /\ used \subseteq 0 .. Len(names) - 1
            /\ kind' = "t1"
            /\ given' = [used |-> used, accented |-> accented, cids |-> [i \in DOMAIN glyphs |-> i - 1],
                         names |-> glyphs, fds |-> [i \in DOMAIN glyphs |-> 0]]
            /\ made' = Made("t1", [file |-> <<names, accented, lenIV, CHOOSE e \in T1Encodings : e.standard>>, used |-> used])

Embedded(k, s) ==
    LET f   == s.file
        cff == CffOf(f[1], f[2], f[3], f[4], f[5], f[6], f[7])
    IN  CASE k = "type1c" -> pdf_font_load_type1c(cff, s.used, s.enc)
          [] k = "type1" -> pdf_font_load_type1(ProgramOf(f[1], f[2], f[3], f[4]), s.used, s.enc)
          [] k = "cff" -> CIDFont_type0_dofont(CidOf(f[1], f[2], f[3], f[4], f[5]), s.used, Advances)
          [] k = "t1c" -> CIDFont_type0_t1cdofont(cff, s.used, Advances)
          [] k = "t1" -> CIDFont_type0_t1dofont(ProgramOf(f[1], f[2], f[3], f[4]), s.used)

Next == kind = "none" /\ (Type1c \/ Type1 \/ Type0 \/ Type0FromType1c \/ Type0FromType1)
Spec == Init /\ [][Next]_vars


-----------------------------------------------------------------------------
(* Properties.                                                              *)

FirstCode(g, c) == \A d \in g.used : d < c => g.names[d + 1] # g.names[c + 1]
ShapeOf(n) == IF given.accented /\ n = P THEN <<Seac, 2, 3>>
              ELSE IF kind = "type1" THEN Shape[n] ELSE CffShape(n)
WidthOf(n) == IF given.accented /\ n = P THEN 11 ELSE Width[n]
Right(font, gid, n) ==
    /\ Drawn(font, gid) = ShapeOf(n)
    /\ Advance(font, gid) = WidthOf(n)
    /\ cff_get_glyphname(font, gid) = n

\* SimpleShown: every used code of a simple font shows the glyph that the font has for it,
\* with its width, in the embedded subset: by its encoding or by its names,
\* subroutines drawn out, .notdef first, the parts of an accented glyph there.
\* Not said of the second code of a glyph: its width in Widths (a CFF font) and
\* its place in the encoding of the font itself (a Type 1 font).
SimpleShown ==
    kind \in {"type1c", "type1"} =>
        LET font == Read(made.file)
        IN  /\ Drawn(font, 0) = Shape[Notdef]
            /\ \A c \in given.used :
                LET n   == given.names[c + 1]
                    gid == GlyphShown(font, made.enc, c)
                IN  n # NULL =>
                    /\ (FirstCode(given, c) \/ kind = "type1c" \/ made.enc # NULL) => Right(font, gid, n)
                    /\ (FirstCode(given, c) \/ kind = "type1") => WidthAt(made, c) = WidthOf(n)
                    /\ n = P /\ given.accented =>
                        \A part \in {A, B} : Right(font, cff_glyph_lookup(font, part), part)

\* CidsShown: every used CID of a CIDFont shows its glyph, drawn with the
\* subroutines of its Font DICT, with the width that W and DW give it; a CID
\* without a glyph has none.  A program with a used accented glyph is refused.
CidsShown ==
    kind \in {"cff", "t1c", "t1"} =>
        LET font == Read(made.file)
            seac == kind = "t1" /\ given.accented /\ \E g \in DOMAIN given.names :
                        given.names[g] = P /\ given.cids[g] \in given.used
        IN  IF seac THEN made.file = NULL
            ELSE \A cid \in given.used \cup {0} :
                    LET at  == {g \in DOMAIN given.cids : given.cids[g] = cid}
                        g   == CHOOSE k \in at : TRUE
                        gid == cff_charsets_lookup_gid(font.charsets, cid)
                        n   == given.names[g]
                    IN  IF at = {} THEN gid = 0
                        ELSE /\ Drawn(font, gid) = CASE kind = "cff" -> CidShape(n, given.fds[g])
                                                     [] kind = "t1"  -> Shape[n]
                                                     [] OTHER -> CffShape(n)
                             /\ Advance(font, gid) = Width[n]
                             /\ CidWidthAt(made.metrics, cid) =
                                    IF kind = "t1" THEN Width[n] ELSE Advances[g]

GlyphsShown == SimpleShown /\ CidsShown

=============================================================================
