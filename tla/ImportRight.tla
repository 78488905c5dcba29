------------------------------ MODULE ImportRight ------------------------------
(***************************************************************************)
(* What an included page must be: the page that was asked for, with the     *)
(* objects of the newest revision of its file.                              *)
(***************************************************************************)
EXTENDS PdfImport

\* The entry of an object in the newest section that says something of it; an
\* object that a table hides is looked for in the stream beside it.
Sections(f) ==
  FlattenSeq([i \in DOMAIN f.sections |->
    IF f.sections[i].kind = "hybrid"
    THEN << [n \in {m \in DOMAIN f.sections[i].entries : ~(f.sections[i].entries[m].type = 0
                       /\ m \in DOMAIN f.sections[i].xrefstm.entries)} |-> f.sections[i].entries[n]],
            f.sections[i].xrefstm.entries >>
    ELSE << f.sections[i].entries >>])
Newest(f, n) ==
  LET all == Sections(f)
      k   == SelectInSeq(all, LAMBDA s : n \in DOMAIN s)
  IN IF k = 0 THEN Unset ELSE all[k][n]
Exists(f, n, g) == n > 0 /\ \/ Newest(f, n).type = 1 /\ Newest(f, n).f3 = g
                            \/ Newest(f, n).type = 2 /\ g = 0
Meant(f, n) ==
  LET e == Newest(f, n)
  IN IF e.type = 1 THEN f.at[e.f2].obj ELSE f.streams[e.f2][e.f3 + 1].obj

IsRequest(use) == use.of.file # ""

Settled == stack = << >> /\ ~failed
Same(file, value, kid) ==
  IF "simple" \in DOMAIN kid THEN value = kid
  ELSE IF Exists(Files[file], kid.num, kid.gen)
  THEN value.label # 0 /\ value.label = files[file].indirect[kid.num]
  ELSE value = NullValue
Taken(file) == {n \in DOMAIN files[file].indirect : files[file].indirect[n] # 0}

(* The objects in the output are those of the newest revision of the file, each *)
(* copied once however often and from whichever page it is referred to, and the *)
(* references between them, round cycles too, are those of the file             *)
(* (read_xref, pdf_get_object, pdf_import_indirect).                            *)
ImportedRight ==
  Settled =>
    /\ \A file \in DOMAIN files : \A n \in Taken(file) :
         LET obj == Meant(Files[file], n)
             new == out[files[file].indirect[n]]
         IN /\ new.tag = obj.tag /\ Len(new.kids) = Len(obj.kids)
            /\ \A i \in DOMAIN obj.kids : Same(file, new.kids[i], obj.kids[i])
    /\ \A f1, f2 \in DOMAIN files : \A n1 \in Taken(f1), n2 \in Taken(f2) :
         files[f1].indirect[n1] = files[f2].indirect[n2] => f1 = f2 /\ n1 = n2

\* The pages of a tree, in order, each with what it has or inherits.
RECURSIVE PagesOf(_, _)
PagesOf(node, above) ==
  LET attrs == [k \in DOMAIN above \cup DOMAIN node.attrs |->
                  IF k \in DOMAIN node.attrs THEN node.attrs[k] ELSE above[k]]
  IN IF node.kids = << >> THEN << [tag |-> node.tag, attrs |-> attrs] >>
     ELSE FlattenSeq([i \in DOMAIN node.kids |-> PagesOf(node.kids[i], attrs)])

Corners(b) == {<< b[1], b[2] >>, << b[3], b[2] >>, << b[3], b[4] >>, << b[1], b[4] >>}
Within(p, b) == p[1] \in b[1]..b[3] /\ p[2] \in b[2]..b[4]

\* The box that a page has for a name: a crop box that is missing is the media
\* box, any other the crop box.  Without a name the crop box counts, for a page
\* that has none its art, trim or bleed box, the first of them that it has.
NamedBox(attrs, opt) ==
  LET own(k, other) == IF k \in DOMAIN attrs THEN attrs[k] ELSE other
      media == attrs["MediaBox"]
  IN CASE opt = "MediaBox" -> media
       [] opt = "auto" -> own("CropBox", own("ArtBox", own("TrimBox", own("BleedBox", media))))
       [] OTHER -> own(opt, own("CropBox", media))

\* What two boxes have in common: inside both, each of its edges on one of theirs.
IsCut(b, x, y) == /\ \A p \in Corners(b) : Within(p, x) /\ Within(p, y)
                  /\ \A i \in 1..4 : b[i] \in {x[i], y[i]}

(* The image that a special gets is the page it asked for: the contents and     *)
(* resources of that page, the box it named cut to the media of the page, or,   *)
(* when it named none, the box the page has for that, uncut, and a matrix that  *)
(* turns the box as the page says and leaves its lower left corner in place,    *)
(* whichever page of the file was taken before (pdf_doc_get_page,               *)
(* set_bounding_box, set_transform_matrix, pdf_ximage_load_image).              *)
IncludedRight ==
  \A u \in {x \in DOMAIN uses : IsRequest(uses[x])} :
    LET r    == uses[u].of
        form == out[images[uses[u].id].label]
        pgs  == PagesOf(Files[r.file].tree, << >>)
        page == pgs[r.page]
        M    == form.matrix
        to   == {Apply(M, p[1], p[2]) : p \in Corners(form.box)}
        rot  == IF "Rotate" \in DOMAIN page.attrs THEN page.attrs["Rotate"] ELSE 0
        up   == << M[3], M[4] >>
    IN /\ r.page \in DOMAIN pgs /\ form.tag = page.tag
       /\ Len(form.kids) = Len(page.attrs["Resources"].kids)
       /\ \A i \in DOMAIN form.kids : Same(r.file, form.kids[i], page.attrs["Resources"].kids[i])
       /\ IF r.box = "auto" THEN form.box = NamedBox(page.attrs, r.box)
          ELSE IsCut(form.box, NamedBox(page.attrs, r.box), page.attrs["MediaBox"])
       /\ << Min({p[1] : p \in to}), Min({p[2] : p \in to}) >> = << form.box[1], form.box[2] >>
       /\ M[1] * M[4] - M[2] * M[3] = 1
       /\ up = CASE rot % 360 = 90 -> << 1, 0 >> [] rot % 360 = 180 -> << 0, -1 >>
                 [] rot % 360 = 270 -> << -1, 0 >> [] OTHER -> << 0, 1 >>

(* An identifier stands for the first image that was loaded under it, also      *)
(* where it was used before, by the label it was given then                     *)
(* (pdf_ximage_reserve, pdf_ximage_findresource).                               *)
IdentsResolve ==
  Settled =>
    \A u \in {x \in DOMAIN uses : ~IsRequest(uses[x])} :
      LET ident == uses[u].of.ident
          loads == SelectSeq(uses, LAMBDA x : IsRequest(x) /\ x.of.ident = ident)
          image == images[uses[u].id]
      IN /\ loads # << >> =>
              /\ << image.file, image.page >> = << loads[1].of.file, loads[1].of.page >>
              /\ ~image.reserved
         /\ loads = << >> => image.reserved
         /\ uses[u].label = image.label

=============================================================================
