-------------------------------- MODULE MCDvi --------------------------------
EXTENDS DviLayout

MCFont == {"a", "b", "v", "u"}
MCWidth == [f \in Font |-> [c \in Char |-> CASE f = "a" -> c [] f = "b" -> c + 2 [] OTHER -> c]]

Set(c)   == [op |-> "set", char |-> c]
Put(c)   == [op |-> "put", char |-> c]
Fnt(f)   == [op |-> "fnt", font |-> f]
By(o, x) == [op |-> o, by |-> x]
Plain(o) == [op |-> o]
Xxx(w)   == [op |-> "xxx", special |-> w]
Glyphs   == [op |-> "glyphs", by |-> 5,
             glyphs |-> << [x |-> 1, char |-> 1], [x |-> 3, char |-> 2] >>]
Dir(x)   == [op |-> "dir", dir |-> x]

\* Character 2 of "u" is three packets above its deepest one, and is too deep.
MCPackets ==
  [v |-> 1 :> << By("w", 1), Set(1), Fnt("b"), Plain("push"), Plain("w0"), Put(2), Plain("pop") >>
         @@ 2 :> << Fnt("u"), Set(1), By("down", 1), Set(1) >>,
   u |-> 1 :> << Fnt("v"), Set(1), By("rule", 2) >> @@ 2 :> << Fnt("v"), Set(2) >>]
MCDefault == [v |-> "a", u |-> "a"]

Doc(first, then, ops) == [first |-> first, then |-> then, ops |-> ops]

\* Every page has a header that belongs to no link.
Links    == Doc(<< Fnt("a"), Xxx("nolink"), Plain("push"), Set(1), Plain("pop"), Xxx("link"),
                   Plain("push") >>,
                {Set(1), Plain("push"), Plain("pop"), Xxx("bann"), Xxx("eann")}, 7)
Scanned  == Doc(<< Fnt("v"), Plain("push") >>,
                {Set(1), Set(2), Plain("push"), Plain("pop"), Xxx("bann"), Xxx("eann")}, 6)
Turned   == Doc(<< Fnt("a"), Plain("push") >>,
                {Set(1), Plain("push"), Plain("pop"), Xxx("bann"), Xxx("nolink"), Xxx("link"),
                 Plain("breflect"), Plain("ereflect")}, 7)
Anchors  == Doc(<< Fnt("a"), Plain("push") >>,
                {Set(1), Plain("push"), Plain("pop"), Xxx("href"), Xxx("name"), Xxx("close")}, 6)
Reflect  == Doc(<< Fnt("a") >>,
                {Fnt("b"), Set(1), Plain("push"), Plain("pop"), Plain("breflect"),
                 Plain("ereflect")}, 8)
Bars     == Doc(<< Fnt("b"), Plain("breflect") >>,
                {By("rule", 2), By("right", 1), Glyphs, Plain("breflect"), Plain("ereflect")}, 6)
Virtual  == Doc(<< Fnt("v") >>,
                {Fnt("a"), Fnt("u"), Set(1), Set(2), Put(1), By("w", 3), Plain("w0"),
                 Plain("push"), Plain("pop")}, 4)
Japanese == Doc(<< Fnt("a") >>,
                {Set(1), Glyphs, By("right", 2), By("down", 1), Dir(1), Dir(3), Plain("push"),
                 Plain("pop")}, 5)
MCDocuments == {Links, Scanned, Turned, Anchors, Reflect, Bars, Virtual, Japanese}
=============================================================================
