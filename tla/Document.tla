------------------------------- MODULE Document -------------------------------
(***************************************************************************)
(* What the document of a run of the program must be, whatever the order in *)
(* which its parts were asked for.                                          *)
(***************************************************************************)
EXTENDS Main

\* The pages of a range, in the order they were asked for.
Asked(r, n) ==
  LET last == IF r[2] < 0 THEN n ELSE r[2]
      all  == IF r[1] <= last THEN [k \in 1..last - r[1] + 1 |-> r[1] + k - 1]
              ELSE [k \in 1..r[1] - last + 1 |-> r[1] - k + 1]
  IN SelectSeq(all, LAMBDA k : k <= n)
Selected == FlattenSeq([i \in DOMAIN input.ranges |-> Asked(input.ranges[i], Len(input.pages))])

DefaultBox ==
  LET first == input.pages[1]
      size  == CASE input.option # << >> -> input.option
                 [] first.kind \in {"pagesize", "papersize"} -> first.wh
                 [] OTHER -> Paper
  IN IF first.kind = "landscape" THEN Swapped(size) ELSE size
BoxOf(page) ==
  IF input.option = << >> /\ input.pages[page].kind = "pagesize" THEN input.pages[page].wh
  ELSE DefaultBox

(* The pages of the output are the pages asked for, as far as the file has      *)
(* them, in that order, and each has the size of its own special or else the    *)
(* size of the document: the first page is scanned once more than the others,   *)
(* a pipe does not tell how many pages it has, and a range may run backwards    *)
(* (do_dvi_pages, dvi_scan_specials).                                           *)
PagesInOrder ==
  LET pgs == [k \in DOMAIN printed |-> printed[k].page]
  IN /\ IsPrefix(pgs, Selected)
     /\ loop.at = "end" => pgs = Selected
     /\ phase = "closed" => pages.count = Len(printed)
     /\ \A k \in DOMAIN printed : printed[k].box = BoxOf(pgs[k])

----------------------------------------------------------------------------
RECURSIVE Leaves(_)
Leaves(t) == IF "kids" \notin DOMAIN t THEN << t >>
             ELSE FlattenSeq([i \in DOMAIN t.kids |-> Leaves(t.kids[i])])
RECURSIVE CountsRight(_)
CountsRight(t) == "kids" \in DOMAIN t =>
  /\ t.count = Len(Leaves(t)) /\ \A i \in DOMAIN t.kids : CountsRight(t.kids[i])

(* The page tree has every finished page once, in order, with the right counts, *)
(* and every reference that was given out to one of them, before, while or      *)
(* after it was made, is to the object that is in the tree (pdf_doc_ref_page,   *)
(* pdf_doc_new_page, build_page_tree).                                          *)
PagesReferred ==
  /\ file.written =>
       LET leaves == Leaves(file.tree)
       IN /\ [k \in DOMAIN leaves |-> leaves[k].page] = [k \in 1..pages.count |-> k]
          /\ CountsRight(file.tree)
          /\ \A r \in pages.refs : r.page <= pages.count => leaves[r.page].obj = r.obj
          /\ \A j, k \in DOMAIN leaves : leaves[j].obj = leaves[k].obj => j = k
  /\ loop.at = "start" =>
       \A n \in 0..PageMax :
         LET t == PageTree([pages EXCEPT !.count = n])
         IN CountsRight(t) /\ [k \in DOMAIN Leaves(t) |-> Leaves(t)[k].page] = [k \in 1..n |-> k]

----------------------------------------------------------------------------
\* The outline that was asked for, in reading order, with items for the levels
\* that were left out.
Filled ==
  LET add(a, n) ==
        LET e    == outlines.asked[n]
            from == IF a = << >> THEN 0 ELSE Last(a).depth
            gap  == [k \in 1..(IF e.depth > from THEN e.depth - from - 1 ELSE 0) |->
                       [item |-> Filler, depth |-> from + k, open |-> FALSE]]
        IN Append(a \o gap, [item |-> n, depth |-> e.depth, open |-> e.open])
  IN FoldLeft(add, << >>, [n \in DOMAIN outlines.asked |-> n])

\* How many of the items below item i of a list can be seen when it is open.
Seen(list, i) ==
  Cardinality({j \in i + 1..Len(list) :
    /\ \A k \in i + 1..j : list[k].depth > list[i].depth
    /\ \A k \in i + 1..j - 1 : (~list[k].open) => \E m \in k + 1..j : list[m].depth <= list[k].depth})

RECURSIVE Flat(_, _)
Flat(items, depth) ==
  FlattenSeq([i \in DOMAIN items |->
    << [item |-> items[i].item, depth |-> depth, count |-> items[i].count] >>
      \o Flat(items[i].below, depth + 1)])

(* The outline in the file has the items in the order and at the levels they    *)
(* were asked for, levels that were skipped filled in and levels below the      *)
(* first one met counted from the lowest so far, and every Count is what a      *)
(* viewer shows (spc_handler_pdfm_outline, pdf_doc_bookmarks_up, _down, _add,   *)
(* flush_bookmarks).                                                            *)
OutlineRight ==
  file.written =>
    Flat(file.outlines, 1) =
      [i \in DOMAIN Filled |->
        [item |-> Filled[i].item, depth |-> Filled[i].depth,
         count |-> IF Filled[i].open THEN Seen(Filled, i) ELSE -Seen(Filled, i)]]

----------------------------------------------------------------------------
Follow(ring, n) ==
  LET from[k \in 1..n] == IF k = 1 THEN ring.first
                          ELSE (CHOOSE l \in ToSet(ring.next) : l[1] = from[k - 1])[2]
  IN from

(* Following a thread from its first bead visits the beads of its article, in   *)
(* the order they were set, and returns to the first; backwards is the reverse; *)
(* and each bead is among the beads of the page it is on (pdf_doc_add_bead,     *)
(* make_article, pdf_doc_close_articles).                                       *)
ThreadsRight ==
  file.written =>
    LET beads(id) == SelectSeq([b \in DOMAIN articles.beads |-> b],
                               LAMBDA b : articles.beads[b].article = id)
        used == {b.article : b \in ToSet(articles.beads)}
    IN /\ Len(file.threads) = Cardinality(used)
       /\ \A id \in used : \E r \in ToSet(file.threads) :
            /\ Follow(r, Len(beads(id)) + 1) = Append(beads(id), beads(id)[1])
            /\ ToSet(r.back) = {<< l[2], l[1] >> : l \in ToSet(r.next)}
            /\ Len(r.next) = Len(beads(id))
       /\ \A b \in DOMAIN articles.beads : \A k \in 1..pages.count :
            Contains(file.beads[k], b) <=> articles.beads[b].page = k

----------------------------------------------------------------------------
\* A viewer finds a name by the limits of the nodes; names are ordered as words are.
Precedes(a, b) ==
  \/ IsStrictPrefix(a, b)
  \/ \E k \in (1..Len(a)) \cap (1..Len(b)) : SubSeq(a, 1, k - 1) = SubSeq(b, 1, k - 1) /\ a[k] < b[k]
RECURSIVE Found(_, _)
Found(t, key) ==
  {e.page : e \in {x \in ToSet(t.names) : x.key = key}} \cup
  UNION {Found(t.kids[i], key) : i \in {j \in DOMAIN t.kids :
           ~Precedes(key, t.kids[j].limits[1]) /\ ~Precedes(t.kids[j].limits[2], key)}}

(* Every line of a link whose destination is defined anywhere in the document   *)
(* leads to it, by the name that is left in the line and the limits of the      *)
(* name tree; and no destination is kept that no link leads to                  *)
(* (pdf_doc_add_goto, pdf_doc_break_annot, flat_table, build_name_tree).        *)
LinksResolve ==
  /\ file.written =>
       \A l \in ToSet(names.links) :
         LET pgs == {d.page : d \in {x \in ToSet(names.dests) : x.name = l.name}}
         IN \A t \in ToSet(l.targets) : Found(file.dests, t) = pgs
  /\ loop.at = "start" =>
       \A n \in 0..3 * Cluster * Cluster :
         LET flat == SortSeq([k \in 1..n |-> [key |-> Digits(k), page |-> k]],
                             LAMBDA x, y : Before(x.key, y.key))
         IN \A k \in 1..n : Found(NameTree(flat), Digits(k)) = {k}
=============================================================================
