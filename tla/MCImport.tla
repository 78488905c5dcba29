-------------------------------- MODULE MCImport --------------------------------
EXTENDS ImportRight

R(n) == [num |-> n, gen |-> 0]
S(x) == [simple |-> x]
Obj(tag, kids) == [tag |-> tag, kids |-> kids]
At(n, obj) == [num |-> n, gen |-> 0, length |-> 8, obj |-> obj]
Free(n) == [type |-> 0, f2 |-> n, f3 |-> 1]
In(pos) == [type |-> 1, f2 |-> pos, f3 |-> 0]
InStm(n, k) == [type |-> 2, f2 |-> n, f3 |-> k]
Leaf(tag, attrs) == [tag |-> tag, count |-> NoCount, kids |-> << >>, attrs |-> attrs]
Node(count, kids, attrs) == [tag |-> "pages", count |-> count, kids |-> kids, attrs |-> attrs]

\* Object 3 has a newer version, object 5 was deleted; 6 and 7 are in stream 4.
Objects ==
  10 :> At(1, Obj("a", << R(2), S(1), R(3) >>)) @@ 20 :> At(2, Obj("b", << R(1) >>)) @@
  30 :> At(3, Obj("old", << R(2) >>)) @@ 40 :> At(4, Obj("stm", << >>)) @@
  50 :> At(5, Obj("gone", << R(3) >>)) @@ 300 :> At(3, Obj("new", << R(6), R(3), R(5) >>))
OldEntries(free) == 0 :> Free(free) @@ 1 :> In(10) @@ 2 :> In(20) @@ 3 :> In(30) @@ 4 :> In(40)
Streams == 4 :> << [num |-> 6, obj |-> Obj("d", << R(7) >>)],
                   [num |-> 7, obj |-> Obj("e", << R(2), R(9), S(2) >>)] >>
Hidden == [W |-> << 1, 2, 1 >>, entries |-> 6 :> InStm(4, 0) @@ 7 :> InStm(4, 1)]

Common == [tag |-> "res", kids |-> << R(1), R(5), R(3) >>]
Own == [tag |-> "res", kids |-> << S(3), R(7) >>]
Tree ==
  Node(3, << Node(2, << Leaf("p1", "CropBox" :> << 2, 3, 50, 60 >> @@ "ArtBox" :> << 4, 4, 30, 30 >>),
                        Leaf("p2", "Rotate" :> 270 @@ "Resources" :> Own
                                     @@ "CropBox" :> << -1, 5, 60, 90 >>) >>,
                  "Rotate" :> 90),
             Leaf("p3", "TrimBox" :> << -5, 1, 40, 90 >> @@ "Rotate" :> -180) >>,
       "MediaBox" :> << 0, 0, 70, 80 >> @@ "Resources" :> Common)

A(next) ==
  [sections |-> << [kind |-> "table", entries |-> 3 :> In(300) @@ 5 :> Free(next)],
                   [kind |-> "hybrid", xrefstm |-> Hidden,
                    entries |-> OldEntries(0) @@ 5 :> In(50) @@ 6 :> Free(0) @@ 7 :> Free(0)] >>,
   at |-> Objects, streams |-> Streams, tree |-> Tree, size |-> 400]
B ==
  [sections |-> << [kind |-> "stream", W |-> << 0, 1, 0 >>, entries |-> 3 :> In(200)],
                   [kind |-> "stream", W |-> << 1, 1, 1 >>, entries |-> OldEntries(5) @@ Hidden.entries] >>,
   at |-> Objects @@ 200 :> At(3, Obj("new", << R(4), S(4) >>)), streams |-> Streams,
   tree |-> Node(1, << Leaf("only", "MediaBox" :> << 1, 2, 30, 40 >> @@ "Resources" :> Common) >>, << >>),
   size |-> 400]

MCFiles == "A" :> A(9) @@ "B" :> B
FreedFiles == "A" :> A(0) @@ "B" :> B

Ask(ident, file, page, box) == [ident |-> ident, file |-> file, page |-> page, box |-> box]
MCRequests == {Ask(NoIdent, "A", 1, "auto"), Ask("x", "A", 2, "BleedBox"), Ask(NoIdent, "A", 3, "TrimBox"),
               Ask("y", "B", 1, "auto"), Ask("z", "A", 1, "MediaBox")}
MCGarbage == {-100, 0, 40, 500}
MCIdents == {"x", "y", "z"}
=============================================================================
