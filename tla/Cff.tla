-------------------------------- MODULE Cff --------------------------------
(***************************************************************************)
(* The tables of a CFF font file and their readers and writers (cff.c).    *)
(* A file is a sequence of bytes.  A glyph name is the sequence of its     *)
(* bytes; the standard strings are the names <<0>> ... <<StdMax - 1>>.     *)
(* Charsets and encodings of every format are kept as ranges <<first,      *)
(* left>>, those of format 0 with left = 0.                                *)
(***************************************************************************)
EXTENDS CffDict

CONSTANT StdMax    \* CFF_STDSTR_MAX: standard strings

Sum(s) == FoldLeft(LAMBDA a, b : a + b, 0, s)
PairAt(b, at) == b[at] * 256 + b[at + 1]

-----------------------------------------------------------------------------
(* INDEX: the places count from 1, in as few bytes as the data needs.       *)

cff_index_size(items) ==
    LET data == Sum([i \in DOMAIN items |-> Len(items[i])])
        size == CASE data < 255 -> 1 [] data < 65535 -> 2 [] data < 16777215 -> 3 [] OTHER -> 4
    IN  IF items = <<>> THEN 2 ELSE 3 + size * (Len(items) + 1) + data

cff_pack_index(items) ==
    LET data == Sum([i \in DOMAIN items |-> Len(items[i])])
        place(i) == 1 + Sum([k \in 1 .. i - 1 |-> Len(items[k])])
        size == IF data < 255 THEN 1 ELSE 2
        put(n) == IF size = 1 THEN <<n % 256>> ELSE Pair(n)
    IN  IF items = <<>> THEN <<0, 0>>
        ELSE Pair(Len(items)) \o <<size>>
             \o FlattenSeq([i \in 1 .. Len(items) + 1 |-> put(place(i))]) \o FlattenSeq(items)

\* The items and the place after them.
cff_get_index(file, at) ==
    LET count == PairAt(file, at)
        size  == file[at + 2]
        place(i) == LET p == at + 3 + size * (i - 1)
                    IN  IF size = 1 THEN file[p] ELSE PairAt(file, p)
        data  == at + 2 + size * (count + 1)
    IN  IF count = 0 THEN <<<<>>, at + 2>>
        ELSE <<[i \in 1 .. count |-> SubSeq(file, data + place(i), data + place(i + 1) - 1)],
               data + place(count + 1)>>

-----------------------------------------------------------------------------
(* Strings.                                                                 *)

IsStd(name) == Len(name) = 1 /\ name[1] < StdMax
InSeq(s, e) == {i \in DOMAIN s : s[i] = e}
FirstIn(s, e) == CHOOSE i \in InSeq(s, e) : \A j \in InSeq(s, e) : i <= j

cff_get_string(font, sid) == IF sid < StdMax THEN <<sid>> ELSE font.string[sid - StdMax + 1]

\* The String INDEX is searched before the standard strings.
cff_get_sid(font, name) ==
    IF InSeq(font.string, name) # {} THEN FirstIn(font.string, name) - 1 + StdMax
    ELSE IF IsStd(name) THEN name[1] ELSE -1

\* The new strings and the number of the name among them.
cff_add_string(new, name, unique) ==
    IF unique /\ IsStd(name) THEN <<new, name[1]>>
    ELSE IF unique /\ InSeq(new, name) # {} THEN <<new, FirstIn(new, name) - 1 + StdMax>>
    ELSE <<Append(new, name), Len(new) + StdMax>>

\* The strings a DICT names, moved to the new String INDEX; <<dict, new>>.
cff_dict_update(d, font, new) ==
    LET move(acc, at) ==
            LET r == cff_add_string(acc[2], cff_get_string(font, acc[1][at[1]].vals[at[2]].int), TRUE)
            IN  <<[acc[1] EXCEPT ![at[1]].vals[at[2]] = Num(r[2])], r[1]>>
        count(e) == CASE e.vals = <<>> -> 0 [] TypeOf(e.key) = "sid" -> 1
                      [] TypeOf(e.key) = "ros" -> 2 [] OTHER -> 0
    IN  FoldLeft(move, <<d, new>>,
                 FlattenSeq([i \in DOMAIN d |-> [k \in 1 .. count(d[i]) |-> <<i, k>>]]))

-----------------------------------------------------------------------------
(* Charsets: glyph 0 is not listed.                                         *)

EntrySize(format) == 2 + format

RECURSIVE CharsetEntries(_, _, _, _)
CharsetEntries(file, at, format, count) ==
    IF count <= 0 THEN <<>>
    ELSE LET left == CASE format = 0 -> 0 [] format = 1 -> file[at + 2]
                       [] OTHER -> PairAt(file, at + 2)
         IN  <<<<PairAt(file, at), left>>>> \o
             CharsetEntries(file, at + EntrySize(format), format, count - left - 1)

Table(format, ranges) == [format |-> format, ranges |-> ranges, supp |-> <<>>]
NoTable == Table(-1, <<>>)

cff_read_charsets(file, font) ==
    LET at == cff_dict_get(font.topdict, "charset", 0) + 1
    IN  Table(file[at], CharsetEntries(file, at + 1, file[at], font.num_glyphs - 1))

cff_pack_charsets(font) ==
    LET c == font.charsets
        put(r) == Pair(r[1]) \o (CASE c.format = 0 -> <<>> [] c.format = 1 -> <<r[2]>>
                                   [] OTHER -> Pair(r[2]))
    IN  IF c = NoTable THEN <<>>
        ELSE <<c.format>> \o FlattenSeq([i \in DOMAIN c.ranges |-> put(c.ranges[i])])

Holds(r, n) == n \in r[1] .. r[1] + r[2]
Before(rs, i) == Sum([k \in 1 .. i - 1 |-> rs[k][2] + 1])

\* Glyph of an identifier; 0 when there is none.
cff_charsets_lookup_gid(c, cid) ==
    LET at == {i \in DOMAIN c.ranges : Holds(c.ranges[i], cid)}
        i  == CHOOSE k \in at : \A j \in at : k <= j
    IN  IF cid = 0 \/ at = {} THEN 0 ELSE Before(c.ranges, i) + cid - c.ranges[i][1] + 1

\* Identifier of a glyph.
cff_charsets_lookup_cid(c, gid) ==
    LET i == CHOOSE k \in DOMAIN c.ranges :
                gid - Before(c.ranges, k) \in 1 .. c.ranges[k][2] + 1
    IN  IF gid = 0 THEN 0 ELSE gid - Before(c.ranges, i) + c.ranges[i][1] - 1

cff_get_glyphname(font, gid) == cff_get_string(font, cff_charsets_lookup_cid(font.charsets, gid))

\* The first glyph that bears the name; .notdef when there is none.
cff_glyph_lookup(font, name) ==
    LET at == {g \in 1 .. Before(font.charsets.ranges, Len(font.charsets.ranges) + 1) :
                    cff_get_glyphname(font, g) = name}
    IN  IF at = {} \/ name = <<0>> THEN 0 ELSE CHOOSE g \in at : \A h \in at : g <= h

-----------------------------------------------------------------------------
(* Encodings: 128 is added to the format when supplements follow.           *)

cff_read_encoding(file, font) ==
    LET at   == cff_dict_get(font.topdict, "Encoding", 0) + 1
        f    == file[at] % 128
        n    == file[at + 1]
        size == f + 1
        end  == at + 2 + size * n
    IN  [format |-> file[at],
         ranges |-> [i \in 1 .. n |-> LET p == at + 2 + size * (i - 1)
                                      IN  <<file[p], IF f = 0 THEN 0 ELSE file[p + 1]>>],
         supp |-> IF file[at] < 128 THEN <<>>
                  ELSE [i \in 1 .. file[end] |-> <<file[end + 3 * i - 2],
                                                   PairAt(file, end + 3 * i - 1)>>]]

cff_pack_encoding(font) ==
    LET e == font.encoding
    IN  IF e = NoTable THEN <<>>
        ELSE <<e.format, Len(e.ranges)>>
             \o FlattenSeq([i \in DOMAIN e.ranges |->
                    IF e.format % 128 = 0 THEN <<e.ranges[i][1]>> ELSE e.ranges[i]])
             \o (IF e.format < 128 THEN <<>>
                 ELSE <<Len(e.supp)>> \o FlattenSeq([i \in DOMAIN e.supp |->
                                            <<e.supp[i][1]>> \o Pair(e.supp[i][2])]))

cff_encoding_lookup(font, code) ==
    LET e  == font.encoding
        at == {i \in DOMAIN e.ranges : Holds(e.ranges[i], code)}
        i  == CHOOSE k \in at : \A j \in at : k <= j
        su == {k \in DOMAIN e.supp : e.supp[k][1] = code}
    IN  IF at # {} THEN Before(e.ranges, i) + code - e.ranges[i][1] + 1
        ELSE IF su # {}
        THEN cff_charsets_lookup_gid(font.charsets, e.supp[CHOOSE k \in su : \A j \in su : k <= j][2])
        ELSE 0

-----------------------------------------------------------------------------
(* FDSelect: the Font DICT of a glyph.                                      *)

cff_read_fdselect(file, font) ==
    LET at == cff_dict_get(font.topdict, "FDSelect", 0) + 1
    IN  Table(file[at], IF file[at] = 0
                           THEN [g \in 1 .. font.num_glyphs |-> <<g - 1, file[at + g]>>]
                           ELSE [i \in 1 .. PairAt(file, at + 1) |->
                                    <<PairAt(file, at + 3 * i), file[at + 3 * i + 2]>>])

cff_pack_fdselect(font) ==
    LET s == font.fdselect
    IN  IF s.format = 0 THEN <<0>> \o [g \in DOMAIN s.ranges |-> s.ranges[g][2]]
        ELSE <<3>> \o Pair(Len(s.ranges))
             \o FlattenSeq([i \in DOMAIN s.ranges |-> Pair(s.ranges[i][1]) \o <<s.ranges[i][2]>>])
             \o Pair(font.num_glyphs)

cff_fdselect_lookup(font, gid) ==
    LET s == font.fdselect
        after == {i \in 2 .. Len(s.ranges) : gid < s.ranges[i][1]}
    IN  s.ranges[IF after = {} THEN Len(s.ranges)
                 ELSE (CHOOSE i \in after : \A j \in after : i <= j) - 1][2]

-----------------------------------------------------------------------------
(* Reading a font.                                                          *)

cff_open(file) ==
    LET name == cff_get_index(file, file[3] + 1)
        tops == cff_get_index(file, name[2])
        strs == cff_get_index(file, tops[2])
        top  == cff_dict_unpack(tops[1][1])
        flag(key, std) == ~cff_dict_known(top, key) \/ cff_dict_get(top, key, 0) \in std
    IN  [fontname |-> name[1][1], topdict |-> top, string |-> strs[1], gsubr_offset |-> strs[2],
         num_glyphs |-> PairAt(file, cff_dict_get(top, "CharStrings", 0) + 1),
         cidfont |-> cff_dict_known(top, "ROS"),
         stdencoding |-> flag("Encoding", {0, 1}), stdcharset |-> flag("charset", {0, 1, 2}),
         encoding |-> NoTable, charsets |-> NoTable, fdselect |-> NoTable,
         gsubr |-> <<>>, cstrings |-> <<>>, fdarray |-> <<>>, private |-> <<>>, subrs |-> <<>>]

cff_read_fdarray(file, font) ==
    LET idx == cff_get_index(file, cff_dict_get(font.topdict, "FDArray", 0) + 1)[1]
    IN  [i \in DOMAIN idx |-> cff_dict_unpack(idx[i])]

\* The DICTs that name a Private DICT: those of the array, or the top one.
Owners(font) == IF font.cidfont THEN font.fdarray ELSE <<font.topdict>>

cff_read_private(file, font) ==
    LET at(d)   == cff_dict_get(d, "Private", 1)
        size(d) == cff_dict_get(d, "Private", 0)
        read(d) == IF cff_dict_known(d, "Private")
                   THEN cff_dict_unpack(SubSeq(file, at(d) + 1, at(d) + size(d))) ELSE <<>>
    IN  [i \in DOMAIN Owners(font) |-> read(Owners(font)[i])]

\* The place of the local subroutines counts from the Private DICT.
cff_read_subrs(file, font) ==
    [i \in DOMAIN Owners(font) |->
        IF ~cff_dict_known(font.private[i], "Subrs") THEN <<>>
        ELSE cff_get_index(file, cff_dict_get(Owners(font)[i], "Private", 1)
                                 + cff_dict_get(font.private[i], "Subrs", 0) + 1)[1]]

=============================================================================
