------------------------------ MODULE MCDocument ------------------------------
EXTENDS Document

Doc(pgs, ranges, ops, max) ==
  [pages |-> pgs, linear |-> FALSE, ranges |-> ranges, ops |-> ops, option |-> << >>, max |-> max]
Size(w, h) == [kind |-> "pagesize", wh |-> << w, h >>]
PaperIs(w, h) == [kind |-> "papersize", wh |-> << w, h >>]
Landscape == [kind |-> "landscape"]
At(x) == [kind |-> "offset", offset |-> x]

All == << << 1, -1 >> >>
MCName == {<< 1 >>, << 1, 0 >>, << 2 >>}
MCPaper == << 2, 3 >>

\* Pages and sizes.
Files == {<< a, b, c >> : a \in {Plain, Landscape, Size(4, 5), PaperIs(6, 7)},
                          b \in {Plain, Size(8, 9)}, c \in {Plain, Size(1, 1)}}
Ranges == {All, << << 2, 3 >> >>, << << 3, 1 >> >>, << << 2, -1 >>, << 1, 1 >> >>,
           << << 1, 7 >> >>, << << 5, 6 >> >>, << << 2, 2 >>, << 6, 2 >> >>}
Shapes == {[Doc(f, r, {}, 0) EXCEPT !.option = o] : f \in Files, r \in Ranges, o \in {<< >>, << 5, 8 >>}}
Pipes  == {[Doc(SubSeq(f, 1, n), All, {}, 0) EXCEPT !.linear = TRUE] : f \in Files, n \in 1..3}

\* What is on them.
Pages(n) == [k \in 1..n |-> Plain]
Contentful ==
  {Doc(Pages(3), All, {"reference", "bop"}, 4), Doc(Pages(1), All, {"outline"}, 5),
   Doc(Pages(2), All, {"article"}, 4), Doc(Pages(2), All, {"dest", "link"}, 4)}
MCDocuments == Shapes \cup Pipes \cup Contentful
=============================================================================
