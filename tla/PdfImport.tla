------------------------------- MODULE PdfImport -------------------------------
(***************************************************************************)
(* Pages of other PDF files that are included as images: the tables of a    *)
(* file are read (pdfobj.c), the page is found in its page tree with what   *)
(* it inherits (pdfdoc.c), its resources are copied object by object under  *)
(* new labels, and the form is entered in the table of images (epdf.c,      *)
(* pdfximage.c), where other specials refer to it by an identifier.         *)
(*                                                                          *)
(* A file is given by its cross-reference sections, newest first, by what   *)
(* is found at each offset, by its object streams and by its page tree.     *)
(* An object is a tag and the sequence of its values: references and simple *)
(* values, whatever the arrays and dictionaries between them.               *)
(***************************************************************************)
EXTENDS Integers, Sequences, SequencesExt, FiniteSets, FiniteSetsExt, TLC

CONSTANTS
  Files,        \* the files: [sections, at, streams, tree]
  Requests,     \* the images asked for: [ident, file, page, box]
  Idents,       \* identifiers that are used, perhaps before they are defined
  MaxDepth,     \* PDF_OBJ_MAX_DEPTH
  Garbage,      \* values of a variable that is not initialized
  MaxUses       \* bound: images asked for and used

ASSUME PdfImportAssumption ==
  /\ MaxDepth \in Nat \ {0} /\ MaxUses \in Nat /\ Garbage \subseteq Int
  /\ \A r \in Requests : r.file \in DOMAIN Files

VARIABLES
  files,        \* pdf_files: the tables of the files that were opened
  out,          \* the objects of the output; the label is the index
  stack,        \* pdf_import_indirect, which calls itself
  images,       \* _ic.ximages
  names,        \* global_names: the labels of identifiers
  doing,        \* the request that is carried out
  uses,         \* history: what was asked for, the image and the label it got
  failed        \* the program ended with an error

vars == << files, out, stack, images, names, doing, uses, failed >>

----------------------------------------------------------------------------
(* Cross-reference tables.  An entry is [type, f2, f3]: free, an object at  *)
(* offset f2 with generation f3, or object f3 of stream f2.                 *)

Unset == [type |-> 0, f2 |-> 0, f3 |-> 0]
EntryOf(t, n) == IF n \in DOMAIN t THEN t[n] ELSE Unset
NumObj(t) == Cardinality(DOMAIN t)

\* extend_xref
Extend(t, size) == [n \in 0..Max({NumObj(t), size}) - 1 |-> EntryOf(t, n)]

\* A section, a subsection at a time: what has been set is not overwritten.
KeepLast(old, e) == e
Keep(old, e) == IF old.f2 = 0 THEN e ELSE old
ReadEntries(t, entries) ==
  LET wide == Extend(t, Max({0} \cup {n + 1 : n \in DOMAIN entries}))
  IN [n \in DOMAIN wide |-> IF n \in DOMAIN entries THEN Keep(wide[n], entries[n]) ELSE wide[n]]
ParseXrefTable(t, s) == ReadEntries(t, s.entries)

\* The fields of an entry of a stream have widths; a type of width 0 is 1.
Field(width, x, def) == IF width = 0 THEN def ELSE x % (256 ^ width)
ParseXrefStream(t, s) ==
  ReadEntries(t, [n \in DOMAIN s.entries |->
    [type |-> Field(s.W[1], s.entries[n].type, 1),
     f2   |-> Field(s.W[2], s.entries[n].f2, 0),
     f3   |-> Field(s.W[3], s.entries[n].f3, 0)]])

\* read_xref: the sections by way of /Prev; a table may have a stream beside it.
ReadSection(t, s) ==
  CASE s.kind = "table"  -> ParseXrefTable(t, s)
    [] s.kind = "hybrid" -> ParseXrefStream(ParseXrefTable(t, s), s.xrefstm)
    [] s.kind = "stream" -> ParseXrefStream(t, s)
ReadXref(f) == FoldLeft(ReadSection, << >>, f.sections)

----------------------------------------------------------------------------
(* Objects of a file.  NoObject is what cannot be read at all.              *)

Null == [tag |-> "null", kids |-> << >>]
NoObject == [tag |-> "none", kids |-> << >>]

\* checklabel
CheckLabel(t, n, g) ==
  /\ n > 0 /\ n \in DOMAIN t
  /\ \/ t[n].type = 1 /\ t[n].f3 = g
     \/ t[n].type = 2 /\ g = 0

\* next_object_offset: where the object at most ends.
NextOffset(t, n, size) ==
  Min({size} \cup {t[m].f2 : m \in {x \in DOMAIN t : t[x].type = 1 /\ t[x].f2 > t[n].f2}})

\* pdf_read_object: the number and the generation must be those asked for, and
\* the object must end before the next one begins.
ReadObject(f, t, n, g) ==
  LET here == f.at[t[n].f2]
  IN IF t[n].f2 \in DOMAIN f.at /\ here.num = n /\ here.gen = g
        /\ t[n].f2 + here.length <= NextOffset(t, n, f.size)
     THEN here.obj ELSE NoObject

\* read_objstm
ReadObjStm(f, t, n) ==
  IF n \in DOMAIN t /\ t[n].type = 1 /\ n \in DOMAIN f.streams
     /\ ReadObject(f, t, n, t[n].f3) # NoObject
  THEN f.streams[n] ELSE << >>

\* pdf_get_object
GetObject(f, t, n, g) ==
  IF ~CheckLabel(t, n, g) THEN Null
  ELSE IF t[n].type = 1 THEN ReadObject(f, t, n, g)
  ELSE LET stm == ReadObjStm(f, t, t[n].f2)
           k   == t[n].f3 + 1
       IN IF k \in DOMAIN stm /\ stm[k].num = n THEN stm[k].obj ELSE Null

----------------------------------------------------------------------------
(* Pages of a file: [count, kids, attrs], with no count for a page.         *)

NoCount == -1
CountOf(node) == IF node.count = NoCount THEN 1 ELSE node.count

\* The kid that has page idx, and which of its pages that is.
PickKid(kids, idx) ==
  FoldLeft(LAMBDA a, i : IF a.kid # 0 THEN a
                         ELSE IF a.idx < CountOf(kids[i]) THEN [a EXCEPT !.kid = i]
                         ELSE [a EXCEPT !.idx = @ - CountOf(kids[i])],
           [kid |-> 0, idx |-> idx], [i \in DOMAIN kids |-> i])

\* The last node that has an entry gives it to the page.
Inherit(have, node) == node.attrs @@ have

NoPage == [node |-> << >>, attrs |-> << >>]
GetPage(tree, page) ==
  LET walk[d \in 0..MaxDepth] ==
        IF d = 0 THEN [node |-> tree, idx |-> page - 1, attrs |-> tree.attrs, at |-> "node"]
        ELSE LET w    == walk[d - 1]
                 pick == PickKid(w.node.kids, w.idx)
             IN IF w.at # "node" THEN w
                ELSE IF w.node.kids = << >> THEN [w EXCEPT !.at = "page"]
                ELSE IF pick.kid = 0 THEN [w EXCEPT !.at = "error"]
                ELSE LET kid == w.node.kids[pick.kid]
                     IN [node |-> kid, idx |-> pick.idx, attrs |-> Inherit(w.attrs, kid), at |-> "node"]
      last == walk[MaxDepth]
  IN IF page \notin 1..tree.count \/ last.at # "page" \/ "Resources" \notin DOMAIN last.attrs
        \/ "MediaBox" \notin DOMAIN last.attrs
     THEN NoPage ELSE [node |-> last.node, attrs |-> last.attrs]

\* set_bounding_box, but for XDV files; a box is << llx, lly, urx, ury >>.
First(attrs, keys) == attrs[keys[SelectInSeq(keys, LAMBDA k : k \in DOMAIN attrs)]]
Clip(box, media) == << Max({box[1], media[1]}), Max({box[2], media[2]}),
                       Min({box[3], media[3]}), Min({box[4], media[4]}) >>
\* As BoundingBox of a code in which the media box stands for a box that is missing.
BoundingBoxOrMedia(attrs, opt) ==
  Clip(First(attrs, << IF opt = "auto" THEN "CropBox" ELSE opt, "MediaBox" >>), attrs["MediaBox"])
BoundingBox(attrs, opt) ==
  IF opt = "auto" THEN First(attrs, << "CropBox", "ArtBox", "TrimBox", "BleedBox", "MediaBox" >>)
  ELSE Clip(First(attrs, IF opt = "MediaBox" THEN << opt >> ELSE << opt, "CropBox", "MediaBox" >>),
            attrs["MediaBox"])

\* set_transform_matrix: << a, b, c, d, e, f >>.
Turn(attrs) == IF "Rotate" \in DOMAIN attrs THEN attrs["Rotate"] % 360 ELSE 0
TransformMatrix(box, rot) ==
  CASE rot = 90  -> << 0, -1, 1, 0, box[1] - box[2], box[2] + box[3] >>
    [] rot = 180 -> << -1, 0, 0, -1, box[1] + box[3], box[2] + box[4] >>
    [] rot = 270 -> << 0, 1, -1, 0, box[1] + box[4], box[2] - box[1] >>
    [] OTHER     -> << 1, 0, 0, 1, 0, 0 >>

Apply(M, x, y) == << M[1] * x + M[3] * y + M[5], M[2] * x + M[4] * y + M[6] >>

\* pdf_ximage_set_form: the box of the image.  The second coordinate of the second
\* corner is never set; the first corner loses the one it was given.
ImageBox(box, M, garbage) ==
  LET p1 == << Apply(M, box[1], box[2])[1], box[2] >>
      ps == {p1, Apply(M, box[3], garbage), Apply(M, box[3], box[4]), Apply(M, box[1], box[4])}
      xs == {p[1] : p \in ps}
      ys == {p[2] : p \in ps}
  IN << Min(xs), Min(ys), Max(xs), Max(ys) >>

----------------------------------------------------------------------------
(* Copying.  A frame is an object that is being copied: its label, 0 for    *)
(* the resources themselves, the values left to copy and those copied.      *)

Reserved == [tag |-> "reserved", kids |-> << >>]
Frame(label, obj) == [label |-> label, obj |-> obj, done |-> << >>]
Top == Head(stack)
NextKid == Top.obj.kids[Len(Top.done) + 1]
CopyOf(fr) == [tag |-> fr.obj.tag, kids |-> fr.done]
File == Files[doing.file]
Tables == files[doing.file]
Ref(label) == [label |-> label]
NullValue == [label |-> 0]

Importing == doing # << >> /\ stack # << >> /\ ~failed
Unfinished == Importing /\ Len(Top.done) < Len(Top.obj.kids)
Put(value) == stack' = << [Top EXCEPT !.done = Append(@, value)] >> \o Tail(stack)

\* pdf_import_object of a value that is not a reference to another object.
CopySimple ==
  /\ Unfinished /\ "simple" \in DOMAIN NextKid
  /\ Put(NextKid)
  /\ UNCHANGED << files, out, images, names, doing, uses, failed >>

IsRef == Unfinished /\ "num" \in DOMAIN NextKid

\* pdf_import_indirect: a reference to nothing, or to what was met before.
CopyNull ==
  /\ IsRef /\ ~CheckLabel(Tables.xref, NextKid.num, NextKid.gen)
  /\ Put(NullValue)
  /\ UNCHANGED << files, out, images, names, doing, uses, failed >>
CopyKnown ==
  /\ IsRef /\ CheckLabel(Tables.xref, NextKid.num, NextKid.gen)
  /\ Tables.indirect[NextKid.num] # 0
  /\ Put(Ref(Tables.indirect[NextKid.num]))
  /\ UNCHANGED << files, out, images, names, doing, uses, failed >>

\* The label is taken before the object is copied, so that a cycle ends.
CopyNew ==
  /\ IsRef /\ CheckLabel(Tables.xref, NextKid.num, NextKid.gen)
  /\ Tables.indirect[NextKid.num] = 0
  /\ LET obj   == GetObject(File, Tables.xref, NextKid.num, NextKid.gen)
         label == Len(out) + 1
     IN IF obj # NoObject
        THEN /\ out' = Append(out, Reserved)
             /\ files' = [files EXCEPT ![doing.file].indirect[NextKid.num] = label]
             /\ stack' = << Frame(label, obj),
                            [Top EXCEPT !.done = Append(@, Ref(label))] >> \o Tail(stack)
             /\ UNCHANGED failed
        ELSE failed' = TRUE /\ UNCHANGED << files, out, stack >>   \* pdf_link_obj
  /\ UNCHANGED << images, names, doing, uses >>

Copied ==
  /\ Importing /\ Len(stack) > 1 /\ Len(Top.done) = Len(Top.obj.kids)
  /\ out' = [out EXCEPT ![Top.label] = CopyOf(Top)]
  /\ stack' = Tail(stack)
  /\ UNCHANGED << files, images, names, doing, uses, failed >>

----------------------------------------------------------------------------
(* The table of images.                                                     *)

NoIdent == "no identifier"
Image(ident) == [ident |-> ident, file |-> "", page |-> 0, box |-> "", label |-> 0,
                 reserved |-> FALSE, bbox |-> << >>]
Named(i, ident) == ident # NoIdent /\ i.ident = ident
Find(P(_)) == SelectInSeq(images, P)

\* pdf_ximage_load_image: the first image of the file, if it is the one wanted.
Cached(r) ==
  LET id == Find(LAMBDA i : i.file = r.file)
  IN IF id # 0 /\ images[id].page = r.page /\ images[id].box = r.box THEN id ELSE 0

\* pdf_ximage_findresource
FindResource(ident) == Find(LAMBDA i : Named(i, ident))

ByIdent(ident) == [ident |-> ident, file |-> "", page |-> 0, box |-> ""]

CanAsk == doing = << >> /\ ~failed /\ Len(uses) < MaxUses

ImageAgain(r) ==
  /\ CanAsk /\ Cached(r) # 0
  /\ uses' = Append(uses, [of |-> r, id |-> Cached(r), label |-> images[Cached(r)].label])
  /\ UNCHANGED << files, out, stack, images, names, doing, failed >>

\* load_image, pdf_open and the start of pdf_include_page.
LoadImage(r) ==
  /\ CanAsk /\ Cached(r) = 0
  /\ LET waiting == Find(LAMBDA i : Named(i, r.ident) /\ i.reserved)
         id      == IF waiting = 0 THEN Len(images) + 1 ELSE waiting
         entry   == IF waiting = 0 THEN Image(r.ident) ELSE images[waiting]
         xref    == ReadXref(Files[r.file])
         page    == GetPage(Files[r.file].tree, r.page)
     IN /\ images' = [i \in 1..Max({Len(images), id}) |->
                        IF i = id THEN [entry EXCEPT !.file = r.file, !.page = r.page, !.box = r.box]
                        ELSE images[i]]
        /\ files' = IF r.file \in DOMAIN files THEN files
                    ELSE (r.file :> [xref |-> xref, indirect |-> [n \in DOMAIN xref |-> 0]]) @@ files
        /\ failed' = (page = NoPage)
        /\ doing' = [file |-> r.file, id |-> id, request |-> r]
        /\ stack' = IF page = NoPage THEN << >> ELSE << Frame(0, page.attrs["Resources"]) >>
  /\ UNCHANGED << out, names, uses >>

\* pdf_names_add_object: the label of an identifier that is still undefined.
NewLabel(ident) == Len(out) + 1
FormLabel(ident) ==
  IF ident \in DOMAIN names /\ ~names[ident].defined THEN names[ident].label ELSE Len(out) + 1

\* The end of pdf_include_page: pdf_ximage_set_form.
SetForm ==
  /\ Importing /\ Len(stack) = 1 /\ Len(Top.done) = Len(Top.obj.kids)
  /\ LET r     == doing.request
         page  == GetPage(File.tree, r.page)
         box   == BoundingBox(page.attrs, r.box)
         M     == TransformMatrix(box, Turn(page.attrs))
         label == FormLabel(r.ident)
         form  == [tag |-> page.node.tag, kids |-> Top.done, box |-> box, matrix |-> M]
     IN /\ out' = [l \in 1..Max({Len(out), label}) |-> IF l = label THEN form ELSE out[l]]
        /\ names' = IF r.ident = NoIdent \/ (r.ident \in DOMAIN names /\ names[r.ident].defined) THEN names
                    ELSE (r.ident :> [label |-> label, defined |-> TRUE]) @@ names
        /\ \E g \in Garbage :
             images' = [images EXCEPT ![doing.id].label = label, ![doing.id].reserved = FALSE,
                                      ![doing.id].bbox = ImageBox(box, M, g)]
        /\ uses' = Append(uses, [of |-> r, id |-> doing.id, label |-> label])
  /\ doing' = << >> /\ stack' = << >>
  /\ UNCHANGED << files, failed >>

\* spc_handler_pdfm_uxobj: an unknown identifier is reserved.
UseXObject(ident) ==
  /\ CanAsk
  /\ LET id    == FindResource(ident)
         label == Len(out) + 1
     IN IF id # 0 THEN /\ uses' = Append(uses, [of |-> ByIdent(ident), id |-> id, label |-> images[id].label])
                       /\ UNCHANGED << out, images, names >>
        ELSE /\ images' = Append(images, [Image(ident) EXCEPT !.reserved = TRUE, !.label = label])
             /\ out' = Append(out, Reserved)
             /\ names' = (ident :> [label |-> label, defined |-> FALSE]) @@ names
             /\ uses' = Append(uses, [of |-> ByIdent(ident), id |-> Len(images) + 1,
                                           label |-> label])
  /\ UNCHANGED << files, stack, doing, failed >>

----------------------------------------------------------------------------
PdfImportInit ==
  /\ files = << >> /\ out = << >> /\ stack = << >> /\ images = << >> /\ names = << >>
  /\ doing = << >> /\ uses = << >> /\ failed = FALSE

PdfImportNext ==
  \/ CopySimple \/ CopyNull \/ CopyKnown \/ CopyNew \/ Copied \/ SetForm
  \/ \E r \in Requests : ImageAgain(r) \/ LoadImage(r)
  \/ \E ident \in Idents : UseXObject(ident)

PdfImportSpec == PdfImportInit /\ [][PdfImportNext]_vars /\ WF_vars(Importing /\ PdfImportNext)
=============================================================================
