--------------------------------- MODULE Main ---------------------------------
(***************************************************************************)
(* A run of the program on a DVI file: opening the file and scanning its    *)
(* first page, the loop over the pages that were asked for (dvipdfmx.c),    *)
(* the scan of each page for specials about its size (dvi.c), and the       *)
(* document that is built on the way (PdfDoc).                              *)
(*                                                                          *)
(* A page of the input is what its size special says; what else is on it is *)
(* chosen while it is translated, among the operations of the document.     *)
(***************************************************************************)
EXTENDS PdfDoc

CONSTANTS
  Documents,    \* [pages, linear, ranges, ops, option, max] : see Main's actions
  Paper,        \* the paper of the configuration: << width, height >>
  Offset,       \* the offset of the origin of the configuration
  Endless       \* the number of pages that a pipe is taken to have

ASSUME MainAssumption ==
  /\ Paper \in Nat \X Nat /\ Offset \in Nat /\ Endless \in Nat
  /\ \A d \in Documents : d.linear => Len(d.pages) < Endless

VARIABLES
  input,        \* the document being translated
  loop,         \* the variables of do_dvi_pages
  sizes,        \* paper, offset and landscape, globals of dvipdfmx.c
  scanned,      \* buffered_page and npages, statics of dvi.c; next is the place in a pipe
  printed,      \* history: the pages of the output
  left          \* bound: operations that are still to come

main == << input, loop, sizes, scanned, printed, left >>

NoPage == -1
Plain == [kind |-> "plain"]

----------------------------------------------------------------------------
\* scan_special
Scan(sp, st, global) ==
  CASE sp.kind = "plain"     -> st
    [] sp.kind = "landscape" -> [st EXCEPT !.landscape = TRUE]
    [] sp.kind = "pagesize"  -> [st EXCEPT !.wh = sp.wh]
    [] sp.kind = "offset"    -> [st EXCEPT !.offset = sp.offset]
    [] sp.kind = "papersize" -> [st EXCEPT !.wh = sp.wh, !.paper = sp.wh]
    [] sp.kind = "default"   -> [st EXCEPT !.wh = global.paper, !.landscape = global.landscape,
                                           !.offset = Offset]

\* dvi_scan_specials: nothing is scanned twice in a row, and a pipe has no other
\* page than the next one.
PageAt(no) == IF input.linear THEN scanned.next ELSE no
ScanPage(no, st) ==
  IF no = scanned.buffered \/ scanned.npages = 0 \/ PageAt(no) > Len(input.pages) THEN st
  ELSE Scan(input.pages[PageAt(no)], st, sizes)

Swapped(wh) == << wh[2], wh[1] >>
Box0 == [wh |-> Paper, offset |-> Offset, landscape |-> FALSE, paper |-> Paper]

MainInit ==
  /\ PdfDocInit
  /\ input \in Documents
  /\ loop = [at |-> "start", range |-> 0, page_no |-> NoPage, last |-> NoPage, step |-> 1, count |-> 0]
  /\ sizes = [paper |-> Paper, offset |-> Offset, landscape |-> FALSE, init |-> Paper]
  /\ scanned = [buffered |-> NoPage, next |-> 1, npages |-> 0]
  /\ printed = << >> /\ left = input.max

\* main up to do_dvi_pages: dvi_init, the first scan, then the options, which
\* take precedence, and landscape.
Open ==
  /\ loop.at = "start"
  /\ LET st    == Scan(input.pages[1], Box0, [paper |-> Paper, landscape |-> FALSE])
         size  == IF input.option = << >> THEN st.wh ELSE input.option
         paper == IF st.landscape THEN Swapped(size) ELSE size
     IN sizes' = [paper |-> paper, offset |-> st.offset, landscape |-> st.landscape,
                  init |-> paper]
  /\ scanned' = [scanned EXCEPT !.buffered = 1,
                                !.npages = IF input.linear THEN Endless ELSE Len(input.pages)]
  /\ loop' = [loop EXCEPT !.at = "range"]
  /\ UNCHANGED << doc, input, printed, left >>

\* The next range; -1 is the last page.
NextRange ==
  /\ loop.at = "range" /\ loop.range < Len(input.ranges) /\ scanned.npages > 0
  /\ LET r    == input.ranges[loop.range + 1]
         last == IF r[2] < 0 THEN r[2] + scanned.npages + 1 ELSE r[2]
     IN loop' = [loop EXCEPT !.at = "page", !.range = @ + 1, !.page_no = r[1], !.last = last,
                             !.step = IF r[1] <= last THEN 1 ELSE -1]
  /\ UNCHANGED << doc, input, sizes, scanned, printed, left >>

\* The size of the page, the new globals, and what is printed.
Sized(no) ==
  LET st    == ScanPage(no, [wh |-> sizes.paper, offset |-> sizes.offset,
                             landscape |-> sizes.landscape, paper |-> sizes.paper])
      turned == st.landscape # sizes.landscape
      wh    == IF turned THEN Swapped(st.wh) ELSE st.wh
  IN [box |-> IF input.option = << >> THEN wh ELSE sizes.paper,
      globals |-> [sizes EXCEPT !.landscape = st.landscape, !.offset = st.offset,
                                !.paper = st.paper]]

\* The page after the last one of a pipe is not there: dvi_do_page finds out.
AtPostamble == input.linear /\ scanned.next > Len(input.pages)

StartPage ==
  /\ loop.at = "page" /\ scanned.npages > 0 /\ loop.page_no <= scanned.npages
  /\ ~AtPostamble
  /\ LET s == Sized(loop.page_no)
     IN /\ sizes' = s.globals
        /\ printed' = Append(printed, [page |-> PageAt(loop.page_no), box |-> s.box,
                                       offset |-> s.globals.offset])
  /\ scanned' = [scanned EXCEPT !.buffered = loop.page_no]
  /\ loop' = [loop EXCEPT !.at = "body"]
  /\ BeginPage
  /\ UNCHANGED << input, left >>

EndOfPipe ==
  /\ loop.at = "page" /\ scanned.npages > 0 /\ AtPostamble
  /\ scanned' = [scanned EXCEPT !.buffered = loop.page_no, !.npages = 0]
  /\ loop' = [loop EXCEPT !.at = "advance", !.count = @ + 1]
  /\ UNCHANGED << doc, input, sizes, printed, left >>

Missing ==
  /\ loop.at = "page" /\ loop.page_no > scanned.npages /\ scanned.npages > 0
  /\ loop' = [loop EXCEPT !.at = "advance"]
  /\ UNCHANGED << doc, input, sizes, scanned, printed, left >>

FinishPage ==
  /\ loop.at = "body"
  /\ EndPage
  /\ loop' = [loop EXCEPT !.at = "advance", !.count = @ + 1]
  /\ scanned' = [scanned EXCEPT !.next = @ + 1]
  /\ UNCHANGED << input, sizes, printed, left >>

\* The end of a range, or the next page of it.
AtEitherEnd(l) == l.page_no >= l.last
AtLast(l) == (l.step > 0 /\ l.page_no >= l.last) \/ (l.step < 0 /\ l.page_no <= l.last)
Advance ==
  /\ loop.at = "advance"
  /\ loop' = IF AtLast(loop) \/ scanned.npages = 0 THEN [loop EXCEPT !.at = "range"]
             ELSE [loop EXCEPT !.at = "page", !.page_no = @ + loop.step]
  /\ UNCHANGED << doc, input, sizes, scanned, printed, left >>

\* The ranges are done: the document is closed, unless nothing was printed.
Finish ==
  /\ loop.at = "range" /\ (loop.range = Len(input.ranges) \/ scanned.npages = 0)
  /\ loop' = [loop EXCEPT !.at = "end"]
  /\ IF loop.count < 1
     THEN phase' = "failed" /\ UNCHANGED << pages, outlines, articles, names, file >>
     ELSE CloseDocument
  /\ UNCHANGED << input, sizes, scanned, printed, left >>

\* A special of the page, among those of the document.
Special ==
  /\ loop.at = "body" /\ left > 0
  /\ \/ "reference" \in input.ops /\ GetReference
     \/ "bop" \in input.ops /\ \E x \in 0..2 : SetBop(x)
     \/ "outline" \in input.ops /\
        \E l \in Levels, o \in {"open", "closed", "default"} : Outline(l, o)
     \/ "article" \in input.ops /\ \E id \in Ident : Article(id) \/ NameObject(id) \/ Bead(id)
     \/ "dest" \in input.ops /\ \E x \in Name : Dest(x)
     \/ "link" \in input.ops /\ \E x \in Name, k \in LinkKeys, n \in 1..2 : Link(k, x, n)
  /\ left' = left - 1
  /\ UNCHANGED << input, loop, sizes, scanned, printed >>

MainNext ==
  \/ Open \/ NextRange \/ StartPage \/ EndOfPipe \/ Missing \/ FinishPage \/ Advance
  \/ Finish \/ Special

MainSpec == MainInit /\ [][MainNext]_<< doc, main >> /\ WF_<< doc, main >>(MainNext)
=============================================================================
