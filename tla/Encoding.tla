------------------------------ MODULE Encoding ------------------------------
(***************************************************************************)
(* Encodings of simple fonts (pdfencoding.c): the cache, the Encoding      *)
(* resource with its differences and the ToUnicode CMap made from the      *)
(* glyph names.                                                            *)
(*                                                                         *)
(* A glyph is the index of its name in e.names, 0 for none (.notdef).  e   *)
(* is the state: e.encodings the cache, e.files the encoding files, e.list *)
(* the glyph list, e.version the version of the PDF file to write.  The    *)
(* cache is an array that moves when it grows; a base encoding is its      *)
(* index here, which the pointer that the program keeps stands for as long *)
(* as no more than 16 files are loaded.                                    *)
(***************************************************************************)
EXTENDS CMap

CONSTANT SimilarAt   \* how many codes make two encodings similar, 64 in the program

Glyphs == INSTANCE Agl

Codes == 0 .. ByteMax
NoResource == [kind |-> "none", base |-> "", diffs |-> <<>>]

pdf_init_encoding_struct ==
    [ident |-> "", name |-> "", glyphs |-> [c \in Codes |-> 0], used |-> {}, base |-> 0, predefined |-> FALSE,
     type3 |-> FALSE, resource |-> NoResource, tounicode |-> None]

\* An unused code is no difference; the first encoding is WinAnsiEncoding.
is_similar_charset(vec, vec2) == Cardinality({c \in Codes : vec[c] = 0 \/ vec[c] = vec2[c]}) >= SimilarAt

\* A number where a run of differences starts, then the names of the run.
make_encoding_differences(vec, base, used) ==
    LET differs(c) == c \in used /\ vec[c] # 0 /\ vec[c] # base[c]
        add(acc, c) == [diffs |-> IF ~differs(c) THEN acc.diffs
                                  ELSE acc.diffs \o (IF acc.skipping THEN <<<<"code", c>>>> ELSE <<>>)
                                                 \o <<<<"glyph", vec[c]>>>>,
                        skipping |-> ~differs(c)]
    IN  FoldLeft(add, [diffs |-> <<>>, skipping |-> TRUE], [i \in 1 .. B |-> i - 1]).diffs

NoGlyphs == [c \in Codes |-> 0]
create_encoding_resource(e, enc, base) ==
    LET name == IF base = 0 THEN "" ELSE e.encodings[base].name
        diffs == make_encoding_differences(enc.glyphs, IF base = 0 THEN NoGlyphs ELSE e.encodings[base].glyphs, enc.used)
    IN  IF diffs # <<>> THEN [kind |-> "dict", base |-> name, diffs |-> diffs]
        ELSE IF base # 0 THEN [kind |-> "name", base |-> name, diffs |-> <<>>]
        ELSE NoResource

pdf_encoding_new_encoding(e, name, ident, vec, predefined) ==
    LET win == e.encodings[1].glyphs
        new == [pdf_init_encoding_struct EXCEPT !.ident = ident, !.name = name, !.glyphs = vec,
                    !.predefined = predefined,
                    !.base = IF ~predefined /\ is_similar_charset(vec, win) THEN 1 ELSE 0,
                    !.resource = IF predefined THEN [NoResource EXCEPT !.kind = "name", !.base = name] ELSE @]
    IN  [e EXCEPT !.encodings = Append(@, new)]

\* The three encodings a PDF reader knows.
pdf_init_encodings(e, win, mac, expert) ==
    LET one(s, def) == pdf_encoding_new_encoding(s, def[1], def[1], def[2], TRUE)
    IN  FoldLeft(one, [e EXCEPT !.encodings = <<>>],
                 <<<<"WinAnsiEncoding", win>>, <<"MacRomanEncoding", mac>>, <<"MacExpertEncoding", expert>>>>)

\* The id is 0 for an encoding that cannot be found.
load_encoding_file(e, filename) ==
    IF filename \notin DOMAIN e.files THEN [e |-> e, id |-> 0]
    ELSE IF ~e.files[filename].array THEN [e |-> e, id |-> 0]
    ELSE [e |-> pdf_encoding_new_encoding(e, e.files[filename].name, filename, e.files[filename].vec, FALSE),
          id |-> Len(e.encodings) + 1]
pdf_encoding_findresource(e, name) ==
    LET known == {i \in DOMAIN e.encodings : name \in {e.encodings[i].ident, e.encodings[i].name}}
    IN  IF known # {} THEN [e |-> e, id |-> Min(known)] ELSE load_encoding_file(e, name)

pdf_encoding_used_by_type3(e, id) == [e EXCEPT !.encodings[id].type3 = TRUE]
pdf_encoding_add_usedchars(e, id, used) ==
    IF e.encodings[id].predefined THEN e ELSE [e EXCEPT !.encodings[id].used = @ \cup used]

\* No CMap when a used glyph has no characters at all.
Utf16(text) == FoldLeft(LAMBDA a, c : a \o Cid(c), <<>>, text)
pdf_create_ToUnicode_CMap(e, name, vec, used) ==
    LET shown == {c \in used : vec[c] # 0}
        sput(c) == Glyphs!agl_sput_UTF16BE(e.list, e.names[vec[c]])
        failed == {c \in shown : sput(c).text = <<>> /\ sput(c).fails > 0}
        cmap == CMap_add_codespacerange([CMap_new EXCEPT !.name = name \o "-UTF16", !.type = TO_UNICODE,
                                                         !.csi = CSI_UNICODE], <<0>>, <<ByteMax>>)
        add(m, c) == CMap_add_bfrange(m, <<c>>, <<c>>, Utf16(sput(c).text))
        full == FoldLeft(add, cmap, SelectSeq([i \in 1 .. B |-> i - 1], LAMBDA c : c \in shown \ failed))
        made == CMap_create_stream([cmaps |-> <<>>], full)
    IN  IF shown \ failed = {} \/ failed # {} \/ ~made.made THEN None ELSE made.toks

\* Every encoding gets its resource and its ToUnicode CMap at the end.
pdf_encoding_complete(e) ==
    LET one(s, i) ==
            LET enc == s.encodings[i]
                base == IF enc.type3 /\ s.version < 14 THEN 0 ELSE enc.base
            IN  IF enc.predefined THEN s
                ELSE [s EXCEPT !.encodings[i].resource = create_encoding_resource(s, enc, base),
                               !.encodings[i].tounicode = pdf_create_ToUnicode_CMap(s, enc.name, enc.glyphs, enc.used)]
    IN  FoldLeft(one, e, [i \in DOMAIN e.encodings |-> i])

\* A ToUnicode CMap that a file has: read and written again.
pdf_load_ToUnicode_stream(w, ident) ==
    LET read == CMap_parse([w |-> [w EXCEPT !.cmaps = Append(@, CMap_new)], id |-> Len(w.cmaps) + 1,
                            toks |-> w.files[ident].toks, st |-> 0, n |-> -1])
    IN  IF ident \notin DOMAIN w.files THEN None
        ELSE IF ~w.files[ident].sig THEN None
        ELSE IF read.st < 0 THEN None
        ELSE CMap_create_stream(read.w, Cur(read)).toks
=============================================================================
