------------------------------ MODULE FontMap ------------------------------
(***************************************************************************)
(* The font map (fontmap.c) and the subfont definitions (subfont.c).       *)
(*                                                                         *)
(* A font name is <<before, sfd, after>>: "foo@A@10" is                    *)
(* <<"foo", "A", "10">>, a name without an SFD has "" there.  A map line   *)
(* is a record of its fields; an option is <<letter, value>>, with a value *)
(* of none when there is none or it does not parse.  m is the state:       *)
(* m.table is the map, m.sfd the SFD files scanned, m.recs the subfont     *)
(* vectors loaded and m.disk the SFD files there are.                      *)
(***************************************************************************)
EXTENDS Integers, Sequences, FiniteSets, SequencesExt, FiniteSetsExt

CONSTANTS SlotMax,     \* 255 in the program
          CharMax      \* 65535 in the program

None == <<>>
NoName == <<"", "", "">>
Plain(s) == <<s, "", "">>
Spelled(name) == IF name[2] = "" THEN name[1] ELSE name[1] \o "@" \o name[2] \o "@" \o name[3]

-----------------------------------------------------------------------------
(* Subfont definition files.  A file is a sequence of physical lines; the   *)
(* items of a line are <<"id", name>>, <<"pos", n>>, <<"range", from, to>>, *)
(* <<"bad">>, <<"#">> (a comment starts) and <<"\\">> at the end.           *)

Uncommented(line) ==
    LET at == {i \in DOMAIN line : line[i] = <<"#">>}
    IN  IF at = {} THEN line ELSE SubSeq(line, 1, Min(at) - 1)
RECURSIVE readlines(_)
readlines(file) ==
    LET line == Uncommented(Head(file))
        rest == readlines(Tail(file))
    IN  IF file = <<>> THEN <<>>
        ELSE IF line # <<>> /\ Last(line) = <<"\\">>
             THEN IF rest = <<>> THEN <<Front(line)>> ELSE <<Front(line) \o Head(rest)>> \o Tail(rest)
        ELSE <<line>> \o rest

Undefined == 0
EmptyVector == [s \in 0 .. SlotMax |-> Undefined]

\* A range fills the slots from the present position on; none may be filled twice.
read_sfd_record(items) ==
    LET place(a, item) ==
            LET slots == a.pos .. a.pos + (item[3] - item[2])
            IN  IF ~a.ok THEN a
                ELSE IF item[1] = "pos" THEN [a EXCEPT !.pos = item[2], !.ok = item[2] \in 0 .. SlotMax]
                ELSE IF item[1] # "range" THEN [a EXCEPT !.ok = FALSE]
                ELSE IF ~({item[2], item[3]} \subseteq 0 .. CharMax /\ item[2] <= item[3]
                          /\ a.pos + (item[3] - item[2]) <= SlotMax)
                     THEN [a EXCEPT !.ok = FALSE]
                ELSE IF \E s \in slots : a.vec[s] # Undefined THEN [a EXCEPT !.ok = FALSE]
                ELSE [a EXCEPT !.pos = @ + (item[3] - item[2]) + 1,
                               !.vec = [s \in 0 .. SlotMax |-> IF s \in slots THEN item[2] + (s - a.pos) ELSE @[s]]]
    IN  FoldLeft(place, [pos |-> 0, vec |-> EmptyVector, ok |-> TRUE], items)

Content(file) == SelectSeq(readlines(file), LAMBDA l : l # <<>>)
scan_sfd_file(file) == [i \in DOMAIN Content(file) |-> [id |-> Content(file)[i][1][2], rec |-> 0]]

\* The index of the file among those scanned, 0 when there is none.
find_sfd_file(m, sfd) ==
    LET known == {i \in DOMAIN m.sfd : m.sfd[i].ident = sfd}
    IN  IF known # {} THEN [m |-> m, id |-> Min(known)]
        ELSE IF sfd \notin DOMAIN m.disk THEN [m |-> m, id |-> 0]
        ELSE [m |-> [m EXCEPT !.sfd = Append(@, [ident |-> sfd, subs |-> scan_sfd_file(m.disk[sfd])])],
              id |-> Len(m.sfd) + 1]
sfd_get_subfont_ids(f) == [i \in DOMAIN f.m.sfd[f.id].subs |-> f.m.sfd[f.id].subs[i].id]

\* On a line that holds only its id the program steps past the end of the string and
\* reads on in what earlier lines left in the buffer: characters that no file gives.
Leftover == [s \in 0 .. SlotMax |-> -1]
read_rest(line) ==
    IF Tail(line) = <<>> THEN [pos |-> 0, vec |-> Leftover, ok |-> TRUE] ELSE read_sfd_record(Tail(line))

\* The vectors are read when first asked for; of two lines with one id the last good one counts.
sfd_load_record(m, sfd, sub) ==
    LET f == find_sfd_file(m, sfd)
        at == {i \in DOMAIN f.m.sfd[f.id].subs : f.m.sfd[f.id].subs[i].id = sub}
        lines == SelectSeq(Content(m.disk[sfd]), LAMBDA l : l[1][2] = sub)
        good == SelectSeq([i \in DOMAIN lines |-> read_rest(lines[i])], LAMBDA r : r.ok)
        recs == f.m.recs \o [i \in DOMAIN good |-> good[i].vec]
        rec == IF good = <<>> THEN 0 ELSE Len(recs)
    IN  IF f.id = 0 THEN [m |-> f.m, rec |-> 0]
        ELSE IF at = {} THEN [m |-> f.m, rec |-> 0]
        ELSE IF f.m.sfd[f.id].subs[Min(at)].rec # 0 THEN [m |-> f.m, rec |-> f.m.sfd[f.id].subs[Min(at)].rec]
        ELSE [m |-> [f.m EXCEPT !.recs = recs, !.sfd[f.id].subs[Min(at)].rec = rec], rec |-> rec]
lookup_sfd_record(m, rec, c) == m.recs[rec][c]

-----------------------------------------------------------------------------
(* Map records and map lines.                                               *)

pdf_init_fontmap_record ==
    [map |-> NoName, sfd |-> "", sub |-> "", font |-> "", enc |-> "", slant |-> 0, extend |-> 1, bold |-> 0,
     vert |-> FALSE, noembed |-> FALSE, mapc |-> -1, tounicode |-> "", otl |-> "", index |-> 0, charcoll |-> "",
     style |-> "", stemv |-> -1, glyphs |-> FALSE]

UnicodeSFDs == {"Unicode", "UBig5", "UBg5plus", "UGB", "UKS", "UJIS"}
NoValue == {"default", "none"}
fill_in_defaults(rec, name) ==
    LET enc == IF rec.enc \in NoValue THEN "" ELSE rec.enc
    IN  [rec EXCEPT !.enc = enc, !.map = name,
                    !.font = IF @ \in NoValue \cup {""} THEN Spelled(name) ELSE @,
                    !.charcoll = IF @ = "" /\ rec.sfd \in UnicodeSFDs /\ enc \in {"Identity-H", "Identity-V"}
                                 THEN "UCS" ELSE @]

\* :index:!name/charcoll,style
strip_options(rec, f) ==
    [rec EXCEPT !.font = f.name, !.index = f.index, !.noembed = f.noembed, !.vert = FALSE,
                !.charcoll = f.charcoll, !.style = f.style]

\* The error ends the reading of the line: [rec, ok].
Option(r, opt) ==
    LET v == opt[2]
        set(rec) == [rec |-> rec, ok |-> TRUE]
        bad == [r EXCEPT !.ok = FALSE]
    IN  IF ~r.ok THEN r
        ELSE IF opt[1] = "r" THEN r
        ELSE IF v = None THEN bad
        ELSE CASE opt[1] = "s" -> set([r.rec EXCEPT !.slant = v[1]])
               [] opt[1] = "e" -> [rec |-> [r.rec EXCEPT !.extend = v[1]], ok |-> v[1] > 0]
               [] opt[1] = "b" -> [rec |-> [r.rec EXCEPT !.bold = v[1]], ok |-> v[1] > 0]
               [] opt[1] = "i" -> set([r.rec EXCEPT !.index = v[1]])
               [] opt[1] = "p" -> IF v[1] \in 0 .. 16 THEN set([r.rec EXCEPT !.mapc = v[1] * 65536]) ELSE r
               [] opt[1] = "u" -> set([r.rec EXCEPT !.tounicode = v[1]])
               [] opt[1] = "v" -> set([r.rec EXCEPT !.stemv = v[1]])
               [] opt[1] = "l" -> set([r.rec EXCEPT !.otl = v[1]])
               [] opt[1] = "m" -> IF Len(v) = 1 THEN set([r.rec EXCEPT !.mapc = (v[1] * 256) % 65536])
                                  ELSE IF v[2] = "" THEN bad
                                  ELSE set([r.rec EXCEPT !.sfd = v[1], !.sub = v[2]])
               [] opt[1] = "w" -> IF r.rec.enc # "unicode" THEN bad
                                  ELSE IF v[1] \in {0, 1} THEN set([r.rec EXCEPT !.vert = v[1] = 1]) ELSE r
               [] OTHER -> bad

\* name encoding font options
fontmap_parse_mapdef_dpm(line) ==
    LET enc == IF Len(line.fields) >= 1 THEN line.fields[1].name ELSE ""
        base == [pdf_init_fontmap_record EXCEPT !.enc = enc]
        named == IF Len(line.fields) >= 2 THEN strip_options(base, line.fields[2]) ELSE base
    IN  IF Len(line.fields) > 2 THEN [rec |-> named, ok |-> FALSE]
        ELSE FoldLeft(Option, [rec |-> named, ok |-> TRUE], line.opts)

\* name PSname "options" <encoding.enc <font; of several files the last counts.
fontmap_parse_mapdef_dps(line) ==
    LET part(rec, o) ==
            CASE o[1] = "<enc"  -> [rec EXCEPT !.enc = o[2]]
              [] o[1] = "<font" -> [rec EXCEPT !.font = o[2]]
              [] o[1] = "SlantFont"  -> [rec EXCEPT !.slant = o[2]]
              [] o[1] = "ExtendFont" -> [rec EXCEPT !.extend = o[2]]
              [] OTHER -> rec
    IN  IF Len(line.fields) > 1 \/ (line.fields = <<>> /\ line.parts = <<>>)
        THEN [rec |-> pdf_init_fontmap_record, ok |-> FALSE]
        ELSE [rec |-> FoldLeft(part, pdf_init_fontmap_record, line.parts), ok |-> TRUE]

\* -1 for a line of dvips, 1 for one of dvipdfm, 0 when it may be either.
is_pdfm_mapline(line) ==
    IF line.parts # <<>> THEN -1 ELSE IF line.opts = <<>> /\ Len(line.fields) = 1 THEN 0 ELSE 1

\* "foo@A@10" names the font foo10 and the SFD A.
HasSFD(name) == name[2] # "" /\ name[1] # ""
chop_sfd_name(name) == name[1] \o name[3]
make_subfont_name(name, id) == Plain(name[1] \o id \o name[3])

pdf_read_fontmap_line(line, format) ==
    LET read == IF format > 0 THEN fontmap_parse_mapdef_dpm(line) ELSE fontmap_parse_mapdef_dps(line)
        rec == IF ~HasSFD(line.name) THEN read.rec
               ELSE [read.rec EXCEPT !.font = IF @ = "" THEN chop_sfd_name(line.name) ELSE @, !.sfd = line.name[2]]
    IN  [read EXCEPT !.rec = IF read.ok THEN fill_in_defaults(rec, line.name) ELSE @]

-----------------------------------------------------------------------------
(* The table.                                                               *)

Insert(m, name, rec) == [m EXCEPT !.table = (name :> rec) @@ @]
Drop(m, names) == [m EXCEPT !.table = [n \in DOMAIN @ \ names |-> @[n]]]
SubRecord(name, id) == [pdf_init_fontmap_record EXCEPT !.map = name, !.sfd = name[2], !.sub = id]
\* A bug that Own could have: the record keeps the name of its line, as those of subfonts do.
OwnLinked(rec, name) == rec
\* The record of the line itself has no link to itself.
Own(rec, name) == [rec EXCEPT !.map = IF @ = name THEN NoName ELSE @]

pdf_append_fontmap_record(m, name, rec) ==
    LET f == find_sfd_file(m, name[2])
        add(s, id) == LET sub == make_subfont_name(name, id)
                      IN  IF sub \in DOMAIN s.table THEN s ELSE Insert(s, sub, SubRecord(name, id))
        subs == IF HasSFD(name) THEN FoldLeft(add, f.m, Reverse(sfd_get_subfont_ids(f))) ELSE m
    IN  IF HasSFD(name) /\ f.id = 0 THEN m
        ELSE IF name \in DOMAIN subs.table THEN subs ELSE Insert(subs, name, Own(rec, name))

pdf_remove_fontmap_record(m, name) ==
    LET f == find_sfd_file(m, name[2])
        ids == ToSet(sfd_get_subfont_ids(f))
    IN  IF ~HasSFD(name) THEN Drop(m, {name})
        ELSE IF f.id = 0 THEN m
        ELSE Drop(f.m, {name} \cup {make_subfont_name(name, id) : id \in ids})

pdf_insert_fontmap_record(m, name, rec) ==
    LET f == find_sfd_file(m, name[2])
        add(s, id) == Insert(s, make_subfont_name(name, id), SubRecord(name, id))
        subs == IF HasSFD(name) THEN FoldLeft(add, f.m, Reverse(sfd_get_subfont_ids(f))) ELSE m
    IN  IF HasSFD(name) /\ f.id = 0 THEN m ELSE Insert(subs, name, Own(rec, name))

\* A line that cannot be read ends the file; one of the other format is passed over.
pdf_load_fontmap_file(m, file, mode) ==
    LET one(s, line) ==
            LET k == is_pdfm_mapline(line)
                read == pdf_read_fontmap_line(line, s.format + k)
                t == [s EXCEPT !.format = @ + k]
            IN  IF s.error \/ s.format * k < 0 THEN s
                ELSE IF ~read.ok THEN [t EXCEPT !.error = TRUE]
                ELSE [t EXCEPT !.m = CASE mode = "replace" -> pdf_insert_fontmap_record(@, read.rec.map, read.rec)
                                       [] mode = "append"  -> pdf_append_fontmap_record(@, read.rec.map, read.rec)
                                       [] mode = "remove"  -> pdf_remove_fontmap_record(@, read.rec.map)]
    IN  FoldLeft(one, [m |-> m, format |-> 0, error |-> FALSE], file).m

\* The record a native font gets; it is found under its file and its settings.
pdf_insert_native_fontmap_record(m, key, path, index, vert, extend, slant, bold) ==
    LET rec == fill_in_defaults([pdf_init_fontmap_record EXCEPT !.font = path, !.index = index, !.vert = vert,
                                    !.enc = IF vert THEN "Identity-V" ELSE "Identity-H"], key)
    IN  pdf_insert_fontmap_record(m, key, [rec EXCEPT !.extend = extend, !.slant = slant, !.bold = bold,
                                                      !.glyphs = TRUE])

pdf_lookup_fontmap_record(m, name) == IF name \in DOMAIN m.table THEN <<m.table[name]>> ELSE None
pdf_init_fontmaps(disk) == [table |-> <<>>, sfd |-> <<>>, recs |-> <<>>, disk |-> disk]
=============================================================================
