------------------------------ MODULE OpenType ------------------------------
(***************************************************************************)
(* Font files of the sfnt kind: the table directory (sfnt.c), the tables   *)
(* read from it (tt_table.c, tt_post.c) and the character maps (tt_cmap.c).*)
(*                                                                         *)
(* A file is a sequence of 16-bit words; offsets, lengths and positions    *)
(* count bytes, as in the code.  Of the tables head, hhea, maxp, OS/2 and  *)
(* post only the fields that something reads are kept; a table of bytes    *)
(* (format 0 of cmap) has one word for a byte.                             *)
(***************************************************************************)
EXTENDS Agl

CONSTANTS CodeMax,      \* 255: the last code of one byte
          GlyfLimit,    \* 0x20000: glyphs that do not fit need long offsets in loca
          StandardNames \* 258: the glyph names that every Macintosh font knows

Word  == 65536
UShort(f, p) == f[(p \div 2) + 1]
Short(f, p)  == IF UShort(f, p) < 32768 THEN UShort(f, p) ELSE UShort(f, p) - Word
ULong(f, p)  == UShort(f, p) * Word + UShort(f, p + 2)
UShorts(f, p, n) == [i \in 1 .. n |-> UShort(f, p + 2 * (i - 1))]
sfnt_put_ushort(n) == <<n % Word>>
sfnt_put_ulong(n)  == <<n \div Word, n % Word>>

-----------------------------------------------------------------------------
(* sfnt.c; a tag of a table is a number below 65536.                        *)

TrueTypeVersion   == 65536           \* 1.0
PostScriptVersion == 20308           \* OTTO
TtcVersion        == 29812           \* ttcf
SfntTag           == 29542           \* the type of font resources in a dfont

SfntType(version) ==
    CASE version = TrueTypeVersion   -> "TRUETYPE"
      [] version = PostScriptVersion -> "POSTSCRIPT"
      [] version = TtcVersion        -> "TTC"
      [] OTHER -> "unknown"

sfnt_open(f) == [file |-> f, type |-> SfntType(ULong(f, 0)), offset |-> 0, version |-> 0,
                 tables |-> <<>>, required |-> <<>>]

\* The resource of one font in a Macintosh resource file.
dfont_open(f, index) ==
    LET rdata == ULong(f, 0)
        map   == ULong(f, 4)
        tags  == map + UShort(f, map + 24)
        at    == {i \in 0 .. UShort(f, tags) : ULong(f, tags + 2 + 8 * i) = SfntTag}
        k     == CHOOSE i \in at : \A j \in at : i <= j
        types == tags + UShort(f, tags + 2 + 8 * k + 6)
    IN  IF at = {} \/ index > UShort(f, tags + 2 + 8 * k + 4) THEN None
        ELSE <<[sfnt_open(f) EXCEPT !.type = "DFONT",
                                    !.offset = ULong(f, types + 12 * index + 4) + rdata + 4]>>

ttc_read_offset(s, index) == IF index > ULong(s.file, 8) - 1 THEN 0 ELSE ULong(s.file, 12 + 4 * index)

sfnt_read_table_directory(s, offset) ==
    [s EXCEPT !.version = ULong(s.file, offset),
              !.tables = [i \in 1 .. UShort(s.file, offset + 4) |->
                 LET p == offset + 12 + 16 * (i - 1)
                 IN  [tag |-> ULong(s.file, p), check_sum |-> UShorts(s.file, p + 4, 2),
                      offset |-> ULong(s.file, p + 8) + s.offset,
                      length |-> ULong(s.file, p + 12), data |-> None]],
              !.required = {}]

find_table_index(s, tag) ==
    LET at == {i \in DOMAIN s.tables : s.tables[i].tag = tag}
    IN  IF at = {} THEN 0 ELSE CHOOSE i \in at : \A j \in at : i <= j

\* The sum of the words of two bytes, as the two words of a sum of four.
sfnt_calc_checksum(data) ==
    LET half(r) == FoldLeft(LAMBDA a, i : a + (IF i % 2 = r THEN data[i] ELSE 0), 0,
                            [i \in DOMAIN data |-> i])
    IN  <<(half(1) + (half(0) \div Word)) % Word, half(0) % Word>>

sfnt_set_table(s, tag, data) ==
    LET i == find_table_index(s, tag)
        t == [tag |-> tag, check_sum |-> sfnt_calc_checksum(data), offset |-> 0,
              length |-> 2 * Len(data), data |-> <<data>>]
    IN  [s EXCEPT !.tables = IF i = 0 THEN Append(@, t) ELSE [@ EXCEPT ![i] = t]]

sfnt_find_table_len(s, tag) == LET i == find_table_index(s, tag) IN IF i = 0 THEN 0 ELSE s.tables[i].length
sfnt_find_table_pos(s, tag) == LET i == find_table_index(s, tag) IN IF i = 0 THEN 0 ELSE s.tables[i].offset

\* A table that must exist and does not is an error.
sfnt_require_table(s, tag) ==
    LET i == find_table_index(s, tag) IN [s EXCEPT !.required = IF i = 0 THEN @ ELSE @ \cup {i}]

max2floor(n) == Max({k \in {1, 2, 4, 8, 16, 32} : k <= n})
log2floor(n) == Cardinality({k \in {2, 4, 8, 16, 32} : k <= n})

Padded(n) == n + ((4 - (n % 4)) % 4)

\* The required tables, in the order of the directory, each at a multiple of 4.
sfnt_create_FontFile_stream(s) ==
    LET kept == SelectSeq(s.tables, LAMBDA t : find_table_index(s, t.tag) \in s.required)
        n    == Len(kept)
        at   == FoldLeft(LAMBDA acc, t : Append(acc, Padded(Last(acc) + t.length)),
                         <<12 + 16 * n>>, kept)
        data(t) == IF t.data # None THEN t.data[1] ELSE UShorts(s.file, t.offset, t.length \div 2)
    IN  sfnt_put_ulong(s.version)
        \o <<n, max2floor(n) * 16, log2floor(n), (n - max2floor(n)) * 16>>
        \o FlattenSeq([i \in DOMAIN kept |->
              sfnt_put_ulong(kept[i].tag) \o kept[i].check_sum \o sfnt_put_ulong(at[i])
              \o sfnt_put_ulong(kept[i].length)])
        \o FlattenSeq([i \in DOMAIN kept |->
              data(kept[i]) \o (IF i < n /\ kept[i].length % 4 # 0 THEN <<0>> ELSE <<>>)])

-----------------------------------------------------------------------------
(* tt_table.c and tt_post.c.  The fields of the tables, as offsets.         *)

TagCff == 1   TagGsub == 2   TagOs2 == 3   TagCmap == 4   TagGlyf == 5   TagHead == 6
TagHhea == 7  TagHmtx == 8   TagLoca == 9  TagMaxp == 10  TagName == 11  TagPost == 12
TagVhea == 13 TagVmtx == 14

Field(s, tag, p) == UShort(s.file, sfnt_find_table_pos(s, tag) + p)

tt_read_head_table(s) == [unitsPerEm |-> Field(s, TagHead, 0), indexToLocFormat |-> Field(s, TagHead, 2)]
tt_pack_head_table(t) == <<t.unitsPerEm, t.indexToLocFormat>>
tt_read_maxp_table(s) == [numGlyphs |-> Field(s, TagMaxp, 0)]
tt_pack_maxp_table(t) == <<t.numGlyphs>>

tt_read_hhea_table(s) ==
    LET n == Field(s, TagHhea, 0)
    IN  [numOfLongHorMetrics |-> n, numOfExSideBearings |-> (sfnt_find_table_len(s, TagHmtx) - 4 * n) \div 2]
tt_pack_hhea_table(t) == <<t.numOfLongHorMetrics>>
tt_read_vhea_table(s) ==
    LET n == Field(s, TagVhea, 0)
    IN  [numOfLongVerMetrics |-> n, numOfExSideBearings |-> (sfnt_find_table_len(s, TagVmtx) - 4 * n) \div 2]

tt_read_os2__table(s) ==
    LET p == sfnt_find_table_pos(s, TagOs2)
    IN  IF p = 0 THEN [sTypoAscender |-> 880, sTypoDescender |-> -120]
        ELSE [sTypoAscender |-> Short(s.file, p), sTypoDescender |-> Short(s.file, p + 2)]

\* numLong pairs of advance and bearing, then bearings with the last advance.
tt_read_longMetrics(f, p, numGlyphs, numLong, numEx) ==
    LET ints(n) == IF n < numLong THEN 4 * n ELSE 4 * numLong + 2 * (n - numLong)
    IN  [n \in 0 .. numGlyphs - 1 |->
            [advance |-> IF numLong = 0 THEN 0 ELSE UShort(f, p + 4 * Min({n, numLong - 1})),
             sideBearing |-> IF n < numLong THEN Short(f, p + 4 * n + 2)
                             ELSE IF numLong + numEx = 0 THEN 0
                             ELSE LET k == Min({n, numLong + numEx - 1})
                                  IN  IF k < numLong THEN Short(f, p + 4 * k + 2) ELSE Short(f, p + ints(k))]]

\* post: a version, then for version 2 the index of the name of every glyph;
\* names are the names of the model, those after the standard ones in extra.
tt_read_post_table(s, standard, extra) ==
    LET p == sfnt_find_table_pos(s, TagPost)
        n == UShort(s.file, p + 2)
        idx == UShorts(s.file, p + 4, n)
    IN  CASE UShort(s.file, p) = 1 -> <<standard>>
          [] UShort(s.file, p) = 2 ->
                 IF \E i \in DOMAIN idx : idx[i] >= StandardNames + Len(extra) THEN None
                 ELSE <<[i \in DOMAIN idx |-> IF idx[i] < StandardNames THEN standard[idx[i] + 1]
                                              ELSE extra[idx[i] - StandardNames + 1]]>>
          [] OTHER -> << <<>> >>

tt_lookup_post_table(post, name) ==
    LET at == {i \in DOMAIN post : post[i] = name}
    IN  IF at = {} THEN 0 ELSE Min(at) - 1
tt_get_glyphname(post, gid) == IF gid < Len(post) THEN <<post[gid + 1]>> ELSE None

-----------------------------------------------------------------------------
(* tt_cmap.c: reading a subtable.                                           *)

read_cmap0(f, p) == [format |-> 0, glyphs |-> UShorts(f, p, CodeMax + 1)]

\* idRangeOffset is made to count from the start of the array of glyphs.
read_cmap2(f, p, len) ==
    LET keys == [i \in 1 .. CodeMax + 1 |-> UShort(f, p + 2 * (i - 1)) \div 8]
        n    == Max({keys[i] : i \in DOMAIN keys}) + 1
        at   == p + 2 * (CodeMax + 1)
        sub(i) == at + 8 * (i - 1)
    IN  [format |-> 2, keys |-> keys,
         heads |-> [i \in 1 .. n |->
            [first |-> UShort(f, sub(i)), count |-> UShort(f, sub(i) + 2), delta |-> Short(f, sub(i) + 4),
             range |-> IF UShort(f, sub(i) + 6) = 0 THEN 0
                       ELSE UShort(f, sub(i) + 6) - (2 + (n - i) * 8)]],
         glyphs |-> UShorts(f, at + 8 * n, (len - 6 - 2 * (CodeMax + 1) - 8 * n) \div 2)]

read_cmap4(f, p, len) ==
    LET n == UShort(f, p) \div 2
    IN  [format |-> 4, end |-> UShorts(f, p + 8, n), start |-> UShorts(f, p + 10 + 2 * n, n),
         delta |-> UShorts(f, p + 10 + 4 * n, n), range |-> UShorts(f, p + 10 + 6 * n, n),
         glyphs |-> UShorts(f, p + 10 + 8 * n, (len - 16 - 8 * n) \div 2)]

read_cmap6(f, p) == [format |-> 6, first |-> UShort(f, p), glyphs |-> UShorts(f, p + 4, UShort(f, p + 2))]

read_cmap12(f, p) ==
    [format |-> 12, groups |-> [i \in 1 .. ULong(f, p) |->
        LET q == p + 4 + 12 * (i - 1)
        IN  [start |-> ULong(f, q), end |-> ULong(f, q + 4), gid |-> ULong(f, q + 8)]]]

\* The first subtable for a platform and an encoding.
tt_cmap_read(s, platform, encoding) ==
    LET at == sfnt_find_table_pos(s, TagCmap)
        ok == {i \in 1 .. UShort(s.file, at + 2) :
                  /\ UShort(s.file, at + 4 + 8 * (i - 1)) = platform
                  /\ UShort(s.file, at + 6 + 8 * (i - 1)) = encoding}
        p  == at + ULong(s.file, at + 8 + 8 * (Min(ok) - 1))
        len == UShort(s.file, p + 2)
    IN  IF ok = {} THEN None
        ELSE CASE UShort(s.file, p) = 0  -> <<read_cmap0(s.file, p + 6)>>
               [] UShort(s.file, p) = 2  -> <<read_cmap2(s.file, p + 6, len)>>
               [] UShort(s.file, p) = 4  -> <<read_cmap4(s.file, p + 6, len)>>
               [] UShort(s.file, p) = 6  -> <<read_cmap6(s.file, p + 6)>>
               [] UShort(s.file, p) = 12 -> <<read_cmap12(s.file, p + 12)>>
               [] OTHER -> None

-----------------------------------------------------------------------------
(* The glyph of a code, 0 for none.                                         *)

lookup_cmap0(m, cc) == IF cc > CodeMax THEN 0 ELSE m.glyphs[cc + 1]

lookup_cmap2(m, cc) ==
    LET lo   == cc % (CodeMax + 1)
        head == m.heads[m.keys[(cc \div (CodeMax + 1)) + 1] + 1]
        idx  == m.glyphs[(head.range \div 2) + lo - head.first + 1]
    IN  IF lo \notin head.first .. head.first + head.count - 1 \/ idx = 0 THEN 0
        ELSE (idx + head.delta) % Word

\* The entry of glyphs that a code of segment i points at.
Indexed(m, i, cc) ==
    m.glyphs[cc - m.start[i] + (m.range[i] \div 2) - (Len(m.end) - i + 1) + 1]

lookup_cmap4(m, cc) ==
    LET hit == {i \in DOMAIN m.end : cc >= m.start[i] /\ \A k \in i .. Len(m.end) : cc <= m.end[k]}
        i   == Max(hit)
    IN  CASE hit = {}       -> 0
          [] m.range[i] = 0 -> (cc + m.delta[i]) % Word
          [] cc = Word - 1 /\ m.range[i] = Word - 1 -> 0
          [] OTHER -> IF Indexed(m, i, cc) = 0 THEN 0 ELSE (Indexed(m, i, cc) + m.delta[i]) % Word

lookup_cmap6(m, cc) ==
    LET idx == (cc - m.first) % Word IN IF idx < Len(m.glyphs) THEN m.glyphs[idx + 1] ELSE 0

lookup_cmap12(m, cc) ==
    LET n   == Len(m.groups)
        hit == {i \in 1 .. n : cc >= m.groups[i].start /\ \A k \in i .. n : cc <= m.groups[k].end}
        g   == m.groups[Max(hit)]
    IN  IF hit = {} THEN 0 ELSE (cc - g.start + g.gid) % Word

tt_cmap_lookup(m, cc) ==
    CASE cc >= Word /\ m.format < 12 -> 0
      [] m.format = 0  -> lookup_cmap0(m, cc)
      [] m.format = 2  -> lookup_cmap2(m, cc)
      [] m.format = 4  -> lookup_cmap4(m, cc)
      [] m.format = 6  -> lookup_cmap6(m, cc)
      [] m.format = 12 -> lookup_cmap12(m, cc)

=============================================================================
