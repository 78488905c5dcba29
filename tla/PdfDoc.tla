-------------------------------- MODULE PdfDoc --------------------------------
(***************************************************************************)
(* The document under construction (pdfdoc.c, with the name trees of        *)
(* pdfnames.c and the handlers of spc_pdfm.c and spc_html.c that call it):  *)
(* pages and references to them, bookmarks, articles, destinations and the  *)
(* links that name them, and how all of it is written when the document is  *)
(* closed.                                                                  *)
(*                                                                          *)
(* What is on a page, and the rest of every dictionary, is left out; the    *)
(* device below is PdfDev, the objects and the file are PdfOut.             *)
(***************************************************************************)
EXTENDS Integers, Sequences, SequencesExt, FiniteSets, FiniteSetsExt

CONSTANTS
  Name,         \* names of destinations, as sequences of digits
  Ident,        \* identifiers of articles and of named objects
  Levels,       \* levels asked of outline entries
  OpenDepth,    \* options.outline_open_depth
  CheckGotos,   \* check_gotos: destinations are renamed, unused ones removed
  Radix,        \* of the new names: 16
  Cluster,      \* PAGE_CLUSTER and NAME_CLUSTER: 4
  LinkKeys,     \* where links name their target: "A" and "Dest"
  PageMax       \* bound: page entries

ASSUME PdfDocAssumption ==
  /\ Levels \subseteq Nat \ {0} /\ OpenDepth \in Nat /\ CheckGotos \in BOOLEAN
  /\ Radix \in Nat \ {0, 1} /\ Cluster \in Nat \ {0, 1} /\ PageMax \in Nat \ {0}
  /\ Name \subseteq Seq(Nat) /\ LinkKeys \subseteq {"A", "Dest"}

VARIABLES
  phase,        \* "between" pages, in a "page", "closed", or "failed"
  pages,        \* pdoc.pages: count, entries, bop; refs is what was referred to
  outlines,     \* pdoc.outlines, a pointer structure; asked is what it was asked for
  articles,     \* pdoc.articles, and the identifiers that name an object
  names,        \* the destinations, pdoc.gotos and the links on the pages
  file          \* what closing the document wrote

doc == << phase, pages, outlines, articles, names, file >>

----------------------------------------------------------------------------
(* Pages.  obj is the number of the page object, 0 while it is not needed.  *)

NoEntry == [obj |-> 0, bop |-> 0, beads |-> << >>]
NoStream == 0

InitPages == [count |-> 0, entries |-> [k \in 1..PageMax |-> NoEntry], made |-> 0,
              bop |-> NoStream, refs |-> {}]

\* pdf_doc_ref_page: the page may be one that is still to come.
WithObject(p, k) ==
  IF p.entries[k].obj # 0 THEN p
  ELSE [p EXCEPT !.made = @ + 1, !.entries[k].obj = p.made + 1]
RefPage(k) ==
  /\ phase = "page" /\ k \in 1..PageMax
  /\ LET p == WithObject(pages, k)
     IN pages' = [p EXCEPT !.refs = @ \cup {[page |-> k, obj |-> p.entries[k].obj]}]
  /\ UNCHANGED << phase, outlines, articles, names, file >>

\* pdf_doc_get_reference: this page, the one before and the one after.
GetReference == \E k \in {pages.count, pages.count + 1, pages.count + 2} : RefPage(k)

\* pdf_doc_new_page
AnotherPage(p, k) == [p EXCEPT !.made = @ + 1, !.entries[k].obj = p.made + 1]
NewPage(p, k) == WithObject(p, k)
BeginPage ==
  /\ phase = "between" /\ pages.count < PageMax
  /\ phase' = "page"
  /\ pages' = NewPage(pages, pages.count + 1)
  /\ UNCHANGED << outlines, articles, names, file >>

\* pdf_doc_end_page, pdf_doc_finish_page
EndPage ==
  /\ phase = "page"
  /\ phase' = "between"
  /\ pages' = [pages EXCEPT !.count = @ + 1, !.entries[pages.count + 1].bop = pages.bop]
  /\ UNCHANGED << outlines, articles, names, file >>

\* pdf_doc_set_bop_content: stream x from here on, NoStream for none.
SetBop(x) ==
  /\ phase = "page"
  /\ pages' = [pages EXCEPT !.bop = x]
  /\ UNCHANGED << phase, outlines, articles, names, file >>

\* build_page_tree: a node has at most Cluster kids.
PageTree(p) ==
  LET leaf(k) == [page |-> k, obj |-> p.entries[k].obj]
      tree[first \in 1..PageMax + 1, num \in 0..PageMax] ==
        IF num <= Cluster THEN [kids |-> [k \in 1..num |-> leaf(first + k - 1)], count |-> num]
        ELSE [count |-> num,
              kids |-> [i \in 1..Cluster |->
                LET start == ((i - 1) * num) \div Cluster
                    size  == (i * num) \div Cluster - start
                IN IF size > 1 THEN tree[first + start, size] ELSE leaf(first + start)]]
  IN tree[1, p.count]

\* doc_flush_page: a page that was finished without a bop stream gets the last one.
Contents(p, k) == IF p.entries[k].bop # NoStream THEN p.entries[k].bop ELSE p.bop

----------------------------------------------------------------------------
(* Bookmarks.  Node 1 is outlines.first; a node without an item is the     *)
(* place for the next one.                                                  *)

None == 0
Filler == 0             \* the item "<No Title>"
Node(parent, open) == [item |-> None, has |-> FALSE, open |-> open,
                       first |-> None, next |-> None, parent |-> parent]

InitOutlines == [nodes |-> << Node(None, TRUE) >>, current |-> 1, depth |-> 1,
                 lowest |-> Max(Levels), asked |-> << >>]

\* Allocates node n and makes it the current one.
Grow(o, n) == [o EXCEPT !.nodes = Append(@, n), !.current = Len(o.nodes) + 1]

\* pdf_doc_bookmarks_up
BookmarksUpFlat(o) ==
  LET parent == o.nodes[o.current].parent
      next   == o.nodes[parent].next
      up     == IF next # None THEN [o EXCEPT !.current = next]
                ELSE Grow([o EXCEPT !.nodes[parent].next = Len(o.nodes) + 1], Node(parent, FALSE))
  IN IF parent = None THEN o ELSE [up EXCEPT !.depth = @ - 1]
BookmarksUp(o) ==
  LET parent == o.nodes[o.current].parent
      next   == o.nodes[parent].next
      up     == IF next # None THEN [o EXCEPT !.current = next]
                ELSE Grow([o EXCEPT !.nodes[parent].next = Len(o.nodes) + 1],
                          Node(o.nodes[parent].parent, FALSE))
  IN IF parent = None THEN o ELSE [up EXCEPT !.depth = @ - 1]

\* pdf_doc_bookmarks_down
BookmarksDown(o) ==
  LET filled == IF o.nodes[o.current].has THEN o
                ELSE [o EXCEPT !.nodes[o.current].has = TRUE, !.nodes[o.current].item = Filler]
  IN [ Grow([filled EXCEPT !.nodes[o.current].first = Len(o.nodes) + 1],
            Node(o.current, FALSE)) EXCEPT !.depth = @ + 1 ]

\* pdf_doc_bookmarks_add; open is TRUE or FALSE when asked for, "default" when not.
IsOpen(open, depth) == IF open = "default" THEN depth <= OpenDepth ELSE open = "open"
BookmarksAdd(o, item, open) ==
  LET here == IF o.nodes[o.current].has THEN o.nodes[o.current].next ELSE o.current
      put  == [o EXCEPT !.nodes[here] =
                 [@ EXCEPT !.item = item, !.has = TRUE, !.first = None,
                           !.open = IsOpen(open, o.depth), !.next = Len(o.nodes) + 1]]
  IN [ Grow(put, Node(put.nodes[here].parent, TRUE)) EXCEPT !.current = here ]

\* spc_handler_pdfm_outline
Times(F(_), o, n) == LET f[k \in 0..n] == IF k = 0 THEN o ELSE F(f[k - 1]) IN f[n]
Outline(level, open) ==
  /\ phase = "page"
  /\ LET lowest == Min({outlines.lowest, level})
         target == level + 1 - lowest
         from   == outlines.depth
         moved  == IF from > target THEN Times(BookmarksUp, outlines, from - target)
                   ELSE Times(BookmarksDown, outlines, target - from)
         item   == Len(outlines.asked) + 1
     IN outlines' = [ BookmarksAdd(moved, item, open)
                      EXCEPT !.lowest = lowest,
                             !.asked = Append(@, [depth |-> target, open |-> IsOpen(open, target)]) ]
  /\ UNCHANGED << phase, pages, articles, names, file >>

\* flush_bookmarks: the items from a node on, each with those below it.
\* Count is what the dictionary of the item says.
FlushBookmarks(o) ==
  LET visible(items) == FoldLeft(LAMBDA a, i : a + 1 + (IF i.count > 0 THEN i.count ELSE 0), 0, items)
      flush[x \in None..Len(o.nodes)] ==
        IF x = None \/ ~o.nodes[x].has THEN << >>
        ELSE LET n == o.nodes[x]
                 below == flush[n.first]
             IN << [item |-> n.item, below |-> below,
                    count |-> IF n.open THEN visible(below) ELSE -visible(below)] >>
                \o flush[n.next]
  IN flush[1]

----------------------------------------------------------------------------
(* Articles.  A bead is known by its place in the list of all beads.        *)

InitArticles == [entries |-> << >>, named |-> {}, beads |-> << >>]

\* pdf_doc_begin_article
BeginArticle(a, id) ==
  [a EXCEPT !.entries = Append(@, [id |-> id, beads |-> << >>]), !.named = @ \cup {id}]

\* spc_handler_pdfm_article
Article(id) ==
  /\ phase = "page"
  /\ articles' = BeginArticle(articles, id)
  /\ UNCHANGED << phase, pages, outlines, names, file >>

\* spc_handler_pdfm_object: the identifier may as well name something else.
NameObject(id) ==
  /\ phase = "page"
  /\ articles' = [articles EXCEPT !.named = @ \cup {id}]
  /\ UNCHANGED << phase, pages, outlines, names, file >>

\* pdf_doc_add_bead: to the first article of that name.
FirstArticle(a, id) == SelectInSeq(a.entries, LAMBDA e : e.id = id)
LastArticle(a, id) == SelectLastInSeq(a.entries, LAMBDA e : e.id = id)
ArticleOf(a, id) == FirstArticle(a, id)

\* spc_handler_pdfm_bead: an unknown article is begun.
Bead(id) ==
  /\ phase = "page"
  /\ LET a == IF id \in articles.named THEN articles ELSE BeginArticle(articles, id)
         n == ArticleOf(a, id)
         b == [article |-> id, page |-> pages.count + 1]
     IN IF n = 0                 \* "Specified article thread that doesn't exist."
        THEN phase' = "failed" /\ articles' = a
        ELSE phase' = phase /\
             articles' = [a EXCEPT !.beads = Append(@, b),
                                   !.entries[n].beads = Append(@, Len(a.beads) + 1)]
  /\ UNCHANGED << pages, outlines, names, file >>

\* make_article: the beads are linked in a ring as they are made.
Ring(beads) ==
  LET n == Len(beads)
      link[i \in 1..n] ==
        IF i = 1 THEN [first |-> beads[1], prev |-> beads[1], next |-> << >>, back |-> << >>]
        ELSE LET l == link[i - 1]
             IN [first |-> l.first, prev |-> beads[i],
                 next |-> Append(l.next, << l.prev, beads[i] >>),
                 back |-> Append(l.back, << beads[i], l.prev >>)]
      done == link[n]
  IN [first |-> done.first,
      next |-> Append(done.next, << done.prev, done.first >>),
      back |-> Append(done.back, << done.first, done.prev >>)]

\* pdf_doc_close_articles
Threads(a) == [n \in DOMAIN a.entries |-> IF a.entries[n].beads = << >> THEN << >>
                                          ELSE << Ring(a.entries[n].beads) >>]
CloseArticles(a) == FlattenSeq(Threads(a))
PageBeads(a, k) == SelectSeq(FlattenSeq([n \in DOMAIN a.entries |-> a.entries[n].beads]),
                             LAMBDA b : a.beads[b].page = k)

----------------------------------------------------------------------------
(* Destinations and links.  A link is one or more annotations, a new one    *)
(* for each line; the annotations of a link are copies of one dictionary,   *)
(* and share its action.                                                    *)

InitNames == [dests |-> << >>, gotos |-> << >>, links |-> << >>]

\* pdf_doc_add_names: a name is defined once.
Dest(name) ==
  /\ phase = "page"
  /\ names' = IF \E d \in ToSet(names.dests) : d.name = name THEN names
              ELSE [names EXCEPT !.dests = Append(@, [name |-> name, page |-> pages.count + 1])]
  /\ UNCHANGED << phase, pages, outlines, articles, file >>

\* The digits of n, the first one first.
Digits(n) ==
  LET d[k \in 0..n] == IF k < Radix THEN << k >> ELSE Append(d[k \div Radix], k % Radix)
  IN d[n]

\* pdf_doc_add_goto: a target is renamed when it is first met.
Renamed(gotos, name) ==
  IF Contains(gotos, name) THEN Digits(SelectInSeq(gotos, LAMBDA g : g = name) - 1) ELSE Digits(Len(gotos))

\* pdf_doc_add_annot by way of pdf_doc_break_annot, for a link of so many lines.
NamesInAction(key) == key = "A"
Link(key, name, lines) ==
  /\ phase = "page" /\ key \in LinkKeys
  /\ LET new == IF CheckGotos THEN Renamed(names.gotos, name) ELSE name
         written(n) == IF n = 1 \/ NamesInAction(key) THEN new ELSE name
     IN names' = [names EXCEPT
          !.gotos = IF ~CheckGotos \/ Contains(@, name) THEN @ ELSE Append(@, name),
          !.links = Append(@, [name |-> name, targets |-> [n \in 1..lines |-> written(n)]])]
  /\ UNCHANGED << phase, pages, outlines, articles, file >>

\* cmp_key
BeforeShortFirst(a, b) ==
  LET same == Len(LongestCommonPrefix({a, b}))
  IN IF Len(a) # Len(b) THEN Len(a) < Len(b) ELSE same < Len(a) /\ a[same + 1] < b[same + 1]
Before(a, b) ==
  LET same == Len(LongestCommonPrefix({a, b}))
  IN IF same = Min({Len(a), Len(b)}) THEN Len(a) < Len(b) ELSE a[same + 1] < b[same + 1]

\* flat_table: the destinations that are kept, under the names they are written by.
FlatTable(n) ==
  LET kept == SelectSeq(n.dests, LAMBDA d : ~CheckGotos \/ Contains(n.gotos, d.name))
      key(d) == IF CheckGotos THEN Renamed(n.gotos, d.name) ELSE d.name
  IN SortSeq([i \in DOMAIN kept |-> [key |-> key(kept[i]), page |-> kept[i].page]],
             LAMBDA x, y : Before(x.key, y.key))

\* build_name_tree: a node knows its least and greatest name.
NameTree(flat) ==
  LET tree[first \in 1..Len(flat) + 1, num \in 0..Len(flat)] ==
        LET limits == << flat[first].key, flat[first + num - 1].key >>
        IN IF num = 0 THEN [names |-> << >>, kids |-> << >>]
           ELSE IF num <= 2 * Cluster
           THEN [limits |-> limits, names |-> SubSeq(flat, first, first + num - 1), kids |-> << >>]
           ELSE [limits |-> limits, names |-> << >>,
                 kids |-> [i \in 1..Cluster |->
                   LET start == ((i - 1) * num) \div Cluster
                       end   == (i * num) \div Cluster
                   IN tree[first + start, end - start]]]
  IN tree[1, Len(flat)]

----------------------------------------------------------------------------
NoFile == [written |-> FALSE]

PdfDocInit ==
  /\ phase = "between"
  /\ pages = InitPages /\ outlines = InitOutlines /\ articles = InitArticles
  /\ names = InitNames /\ file = NoFile

\* pdf_close_document: articles, names, bookmarks, then the pages.
CloseDocument ==
  /\ phase = "between"
  /\ phase' = "closed"
  /\ file' = [written  |-> TRUE,
              threads  |-> CloseArticles(articles),
              dests    |-> NameTree(FlatTable(names)),
              outlines |-> FlushBookmarks(outlines),
              tree     |-> PageTree(pages),
              contents |-> [k \in 1..pages.count |-> Contents(pages, k)],
              beads    |-> [k \in 1..pages.count |-> PageBeads(articles, k)]]
  /\ UNCHANGED << pages, outlines, articles, names >>
=============================================================================
