----------------------------- MODULE Type1Char -----------------------------
(***************************************************************************)
(* The conversion of a Type 1 charstring to a Type 2 charstring            *)
(* (t1_char.c): the charstring is run on its two stacks into a list of     *)
(* path items (t1char_build_charpath), the list is compacted               *)
(* (do_postproc), and written again with its stems sorted, made relative   *)
(* and selected by masks (t1char_encode_charpath).                         *)
(*                                                                         *)
(* A charstring is a sequence of tokens; a number is counted in units of   *)
(* 1/Unit, the only fractions the inputs make.  The bytes of a number are  *)
(* the operators PutNumber and GetInteger.                                 *)
(***************************************************************************)
EXTENDS Integers, Sequences, FiniteSets, SequencesExt

CONSTANTS
    ArgMax,    \* CS_ARG_STACK_MAX: operands of one operator
    StemMax,   \* CS_STEM_ZONE_MAX: stems of one charstring
    NestMax    \* CS_SUBR_NEST_MAX: depth of subroutine calls

ASSUME LimitsAssumption == {ArgMax, StemMax, NestMax} \subseteq Nat \ {0}

Unit == 2

Num(v)      == [op |-> "num", n |-> v, mask |-> {}]
Op(o)       == [op |-> o, n |-> 0, mask |-> {}]
Mask(o, m)  == [op |-> o, n |-> 0, mask |-> m]
Nums(vs)    == [i \in DOMAIN vs |-> Num(vs[i])]

PathOps == {"rmoveto", "hmoveto", "vmoveto", "rlineto", "hlineto", "vlineto",
            "rrcurveto", "vhcurveto", "hvcurveto", "closepath", "rcurveline",
            "rlinecurve", "vvcurveto", "hhcurveto"}

\* The phases of a charstring, in their order.
AtInit == 0
AtHint == 1
AtPath == 2
InFlex == 3

NewChar ==
    [status |-> "ok", phase |-> AtInit, hintmask |-> FALSE, cntrmask |-> FALSE,
     sbx |-> 0, sby |-> 0, wx |-> 0, wy |-> 0, seac |-> <<>>,
     stems |-> <<>>, path |-> <<>>, stack |-> <<>>, ps |-> <<>>]

Fail(cd)    == [cd EXCEPT !.status = "error"]
Clear(cd)   == [cd EXCEPT !.stack = <<>>]
LastOf(s, n) == SubSeq(s, Len(s) - n + 1, Len(s))
Pop(s, n)   == SubSeq(s, 1, Len(s) - n)

-----------------------------------------------------------------------------
(* Stems and path items.                                                    *)

StemsAt(cd, pos, del, dir) ==
    LET at == pos + (IF dir = "h" THEN cd.sby ELSE cd.sbx)
    IN  {i \in DOMAIN cd.stems : /\ cd.stems[i].dir = dir
                                 /\ cd.stems[i].pos = at
                                 /\ cd.stems[i].del = del}

\* As AddStem of a code that keeps the stem relative to the side bearing.
AddStemNoBearing(cd, pos, del, dir) ==
    IF StemsAt(cd, pos, del, dir) # {} \/ Len(cd.stems) = StemMax THEN cd
    ELSE [cd EXCEPT !.stems =
            Append(@, [id |-> Len(@), dir |-> dir, del |-> del, pos |-> pos])]

AddStem(cd, pos, del, dir) ==
    IF StemsAt(cd, pos, del, dir) # {} \/ Len(cd.stems) = StemMax THEN cd
    ELSE [cd EXCEPT !.stems =
            Append(@, [id  |-> Len(@), dir |-> dir, del |-> del,
                       pos |-> pos + (IF dir = "h" THEN cd.sby ELSE cd.sbx)])]

StemLess(a, b) ==
    IF a.dir # b.dir THEN a.dir = "h"
    ELSE a.pos < b.pos \/ (a.pos = b.pos /\ a.del < b.del)

AddPath(cd, type, args) ==
    [cd EXCEPT !.path = Append(@, [type |-> type, args |-> args]),
               !.phase = IF @ # InFlex /\ type \in PathOps THEN AtPath ELSE @]

DeclareStem(cd, pos, del, dir) ==
    LET d  == AddStem(cd, pos, del, dir)
        at == StemsAt(d, pos, del, dir)
    IN  IF at = {} THEN Fail(cd)
        ELSE AddPath(d, "hint", <<d.stems[CHOOSE i \in at : TRUE].id>>)

-----------------------------------------------------------------------------
(* The operators of one byte.                                               *)

Needs == [o \in {"closepath", "endchar"} |-> 0]
      @@ [o \in {"hsbw", "hstem", "vstem", "rmoveto", "rlineto"} |-> 2]
      @@ [o \in {"hmoveto", "vmoveto", "hlineto", "vlineto"} |-> 1]
      @@ [o \in {"vhcurveto", "hvcurveto"} |-> 4]
      @@ [o \in {"rrcurveto"} |-> 6]

\* The first moveto of a Type 1 charstring starts at the side bearing, that
\* of a Type 2 charstring at the origin.
MoveTo(cd, op) ==
    LET first == cd.phase < AtPath
        a     == LastOf(cd.stack, Needs[op])
    IN  CASE ~first -> AddPath(cd, op, a)
          [] first /\ op = "rmoveto" ->
                AddPath(cd, op, <<a[1] + cd.sbx, a[2] + cd.sby>>)
          [] first /\ op = "hmoveto" ->
                IF cd.sby # 0 THEN AddPath(cd, "rmoveto", <<a[1] + cd.sbx, cd.sby>>)
                ELSE AddPath(cd, op, <<a[1] + cd.sbx>>)
          [] OTHER ->
                IF cd.sbx # 0 THEN AddPath(cd, "rmoveto", <<cd.sbx, a[1] + cd.sby>>)
                ELSE AddPath(cd, op, <<a[1] + cd.sby>>)

Operator1(cd, op) ==
    LET a == LastOf(cd.stack, Needs[op])
    IN  CASE op \notin DOMAIN Needs \/ Len(cd.stack) < Needs[op] -> Fail(cd)
          [] op = "closepath" -> Clear(cd)
          [] op = "hsbw"  -> Clear([cd EXCEPT !.sbx = a[1], !.sby = 0,
                                              !.wx = a[2], !.wy = 0])
          [] op = "hstem" -> Clear(DeclareStem(cd, a[1], a[2], "h"))
          [] op = "vstem" -> Clear(DeclareStem(cd, a[1], a[2], "v"))
          [] op \in {"rmoveto", "hmoveto", "vmoveto"} -> Clear(MoveTo(cd, op))
          [] op = "endchar" -> Clear([cd EXCEPT !.status = "end"])
          [] OTHER -> Clear(AddPath(cd, op, a))

-----------------------------------------------------------------------------
(* The OtherSubrs: flex, hint replacement and counter control.              *)

\* Seven marked movetos become one flex; the first two are added.
OtherSubr0(cd) ==
    LET marks == {i \in DOMAIN cd.path : cd.path[i].type = "flexctrl"}
        from  == CHOOSE i \in marks : \A j \in marks : i <= j
        item  == cd.path[from]
        rest  == SubSeq(cd.path, from + 1, Len(cd.path))
        args  == <<item.args[1] + rest[1].args[1], item.args[2] + rest[1].args[2]>>
                 \o FlattenSeq([i \in 1 .. 5 |-> rest[i + 1].args])
                 \o <<Last(cd.ps)>>
    IN  IF \/ cd.ps = <<>> \/ marks = {} \/ Len(rest) # 6
           \/ \E i \in DOMAIN rest : rest[i].type # "flexctrl" \/ Len(rest[i].args) # 2
        THEN Fail(cd)
        ELSE [cd EXCEPT !.path = Append(SubSeq(@, 1, from - 1),
                                        [type |-> "flex", args |-> args]),
                        !.ps = Front(@), !.phase = AtPath]

OtherSubr2(cd) ==
    LET p == Last(cd.path)
    IN  IF cd.phase # InFlex \/ cd.path = <<>> THEN Fail(cd)
        ELSE CASE p.type = "rmoveto" ->
                    [cd EXCEPT !.path[Len(cd.path)] = [p EXCEPT !.type = "flexctrl"]]
               [] p.type = "hmoveto" ->
                    [cd EXCEPT !.path[Len(cd.path)] =
                        [type |-> "flexctrl", args |-> <<p.args[1], 0>>]]
               [] p.type = "vmoveto" ->
                    [cd EXCEPT !.path[Len(cd.path)] =
                        [type |-> "flexctrl", args |-> <<0, p.args[1]>>]]
               [] OTHER -> Fail(cd)

\* The stems of the counter groups of one direction, popped in pairs; a
\* negative width ends a group.  acc = [cd, left, n, pos, groups].
RECURSIVE HintGroups(_, _)
HintGroups(acc, dir) ==
    IF Len(acc.cd.ps) < 2 \/ acc.n = acc.left THEN acc
    ELSE LET ps  == acc.cd.ps
             pos == acc.pos + ps[Len(ps)]
             del == ps[Len(ps) - 1]
             lo  == IF del < 0 THEN pos + del ELSE pos
             d   == AddStem([acc.cd EXCEPT !.ps = Pop(@, 2)], lo,
                            IF del < 0 THEN -del ELSE del, dir)
             id  == {d.stems[i].id : i \in StemsAt(d, lo, IF del < 0 THEN -del ELSE del, dir)}
         IN  HintGroups(
                [cd |-> d, left |-> acc.left,
                 n |-> IF del < 0 THEN acc.n + 1 ELSE acc.n,
                 pos |-> IF del < 0 THEN 0 ELSE pos + del,
                 groups |-> [acc.groups EXCEPT ![acc.n + 1] = @ \cup id]], dir)

OtherSubr13(cd) ==
    LET count(c) == Last(c.ps) \div Unit
        start(c, g) == [cd |-> [c EXCEPT !.ps = Front(@)], left |-> count(c),
                        n |-> 0, pos |-> 0, groups |-> g]
        none  == [n \in 1 .. StemMax |-> {}]
        h     == HintGroups(start(cd, none), "h")
        v     == HintGroups(start(h.cd, h.groups), "v")
        most  == IF h.left > v.left THEN h.left ELSE v.left
    IN  IF cd.phase # AtInit \/ cd.ps = <<>> THEN Fail(cd)
        ELSE IF count(cd) \notin 0 .. StemMax \/ h.n # h.left \/ h.cd.ps = <<>> THEN Fail(cd)
        ELSE IF count(h.cd) \notin 0 .. StemMax \/ v.n # v.left THEN Fail(cd)
        ELSE [FoldLeft(LAMBDA c, n : AddPath(c, "cntrmask", SetToSeq(v.groups[n])),
                       v.cd, [n \in 1 .. most |-> n])
                 EXCEPT !.cntrmask = TRUE]

CallOtherSubr(cd) ==
    LET no   == Last(cd.stack) \div Unit
        argn == cd.stack[Len(cd.stack) - 1] \div Unit
        c    == [cd EXCEPT !.stack = Pop(@, 2 + argn),
                           !.ps = @ \o Reverse(LastOf(Pop(cd.stack, 2), argn))]
    IN  IF Len(cd.stack) < 2 THEN Fail(cd)
        ELSE IF Len(cd.stack) - 2 < argn \/ Len(cd.ps) + argn > 2 * StemMax + 2
        THEN Fail(cd)
        ELSE CASE no = 0  -> OtherSubr0(c)
               [] no = 1  -> [c EXCEPT !.phase = InFlex]
               [] no = 2  -> OtherSubr2(c)
               [] no = 3  -> [c EXCEPT !.hintmask = TRUE]
               [] no = 12 -> IF c.phase = AtInit THEN c ELSE Fail(c)
               [] no = 13 -> OtherSubr13(c)
               [] OTHER   -> Fail(c)

-----------------------------------------------------------------------------
(* The operators of two bytes, and the run of a charstring.                 *)

Stem3(cd, dir) ==
    LET a == LastOf(cd.stack, 6)
    IN  FoldLeft(LAMBDA c, i : IF c.status # "ok" THEN c
                               ELSE DeclareStem(c, a[2 * i - 1], a[2 * i], dir),
                 cd, <<1, 2, 3>>)

Operator2(cd, op) ==
    LET s == cd.stack
        n == Len(s)
    IN  CASE op = "sbw" /\ n >= 4 ->
                Clear([cd EXCEPT !.wy = s[n], !.wx = s[n-1], !.sby = s[n-2], !.sbx = s[n-3]])
          [] op = "hstem3" /\ n >= 6 -> Clear(Stem3(cd, "h"))
          [] op = "vstem3" /\ n >= 6 -> Clear(Stem3(cd, "v"))
          [] op = "setcurrentpoint" /\ n >= 2 -> Clear(cd)
          [] op = "pop" /\ cd.ps # <<>> /\ n < ArgMax ->
                [cd EXCEPT !.stack = Append(@, Last(cd.ps)), !.ps = Front(@)]
          [] op = "dotsection" -> cd
          [] op = "div" /\ n >= 2 ->
                [cd EXCEPT !.stack = Append(Pop(@, 2), (s[n-1] * Unit) \div s[n])]
          [] op = "callothersubr" -> CallOtherSubr(cd)
          [] op = "seac" /\ n >= 5 ->
                Clear([cd EXCEPT !.seac = <<s[n-3] + cd.sbx - s[n-4], s[n-2] + cd.sby,
                                            s[n-1], s[n]>>])
          [] OTHER -> Fail(cd)

TwoByteOps == {"sbw", "hstem3", "vstem3", "setcurrentpoint", "pop", "dotsection",
               "div", "callothersubr", "seac"}

RECURSIVE BuildCharpath(_, _, _, _)
BuildCharpath(cd, data, subrs, nest) ==
    IF nest > NestMax THEN Fail(cd)
    ELSE IF data = <<>> \/ cd.status # "ok"
    THEN [cd EXCEPT !.status = IF @ = "return" THEN "ok" ELSE @]
    ELSE LET t   == Head(data)
             idx == Last(cd.stack) \div Unit
             c   == CASE t.op = "num" ->
                            IF Len(cd.stack) = ArgMax THEN Fail(cd)
                            ELSE [cd EXCEPT !.stack = Append(@, t.n)]
                      [] t.op = "return" -> [cd EXCEPT !.status = "return"]
                      [] t.op = "callsubr" ->
                            IF cd.stack = <<>> THEN Fail(cd)
                            ELSE IF idx >= Len(subrs) THEN Fail(cd)
                            ELSE BuildCharpath([cd EXCEPT !.stack = Front(@)],
                                               subrs[idx + 1], subrs, nest + 1)
                      [] t.op \in TwoByteOps -> Operator2(cd, t.op)
                      [] OTHER -> Operator1(cd, t.op)
         IN  BuildCharpath(c, Tail(data), subrs, nest)

-----------------------------------------------------------------------------
(* Compaction and the bounding box.                                         *)

\* How the points of an item follow each other.  The flex adds its second
\* ordinate six times (the index is 2*1+1, not 2*i+1).
Deltas(p) ==
    LET a == p.args
    IN  CASE p.type \in {"rmoveto", "rlineto"} -> << <<a[1], a[2]>> >>
          [] p.type \in {"hmoveto", "hlineto"} -> << <<a[1], 0>> >>
          [] p.type \in {"vmoveto", "vlineto"} -> << <<0, a[1]>> >>
          [] p.type = "rrcurveto" -> << <<a[1], a[2]>>, <<a[3], a[4]>>, <<a[5], a[6]>> >>
          [] p.type = "vhcurveto" -> << <<0, a[1]>>, <<a[2], a[3]>>, <<a[4], 0>> >>
          [] p.type = "hvcurveto" -> << <<a[1], 0>>, <<a[2], a[3]>>, <<0, a[4]>> >>
          [] p.type = "flex" -> [i \in 1 .. 6 |-> <<a[2 * i - 1], a[4]>>]
          [] OTHER -> <<>>

Points(ds, from) ==
    Tail(FoldLeft(LAMBDA ps, d : Append(ps, <<Last(ps)[1] + d[1], Last(ps)[2] + d[2]>>),
                  <<from>>, ds))

BBox(cd) ==
    LET pts == ToSet(Points(FlattenSeq([i \in DOMAIN cd.path |-> Deltas(cd.path[i])]),
                            <<0, 0>>))
        xs  == {p[1] : p \in pts}
        ys  == {p[2] : p \in pts}
        low(s)  == CHOOSE m \in s : \A e \in s : m <= e
        high(s) == CHOOSE m \in s : \A e \in s : m >= e
    IN  IF cd.path = <<>> THEN <<0, 0, 0, 0>>
        ELSE IF pts = {} THEN <<cd.wx, cd.wy, cd.wx, cd.wy>>
        ELSE <<low(xs), low(ys), high(xs), high(ys)>>

Odd(n) == n % 2 = 1

\* As Joined of a code that does not look at how many lines the item has.
JoinedAnyParity(prev, cur) ==
    LET p == prev.type
        c == cur.type
    IN  CASE p = c /\ c \in {"rlineto", "rrcurveto"} -> c
          [] p = "rrcurveto" /\ c = "rlineto" -> "rcurveline"
          [] p = "rlineto" /\ c = "rrcurveto" -> "rlinecurve"
          [] {p, c} \subseteq {"hlineto", "vlineto"} /\ p # c -> p
          [] {p, c} \subseteq {"hvcurveto", "vhcurveto"} /\ p # c -> p
          [] OTHER -> "none"

\* The type of the item that stands for prev and cur together, if any.
Joined(prev, cur) ==
    LET p == prev.type
        c == cur.type
    IN  CASE p = c /\ c \in {"rlineto", "rrcurveto"} -> c
          [] p = "rrcurveto" /\ c = "rlineto" -> "rcurveline"
          [] p = "rlineto" /\ c = "rrcurveto" -> "rlinecurve"
          [] {p, c} \subseteq {"hlineto", "vlineto"} /\ (p # c) = Odd(Len(prev.args)) -> p
          [] {p, c} \subseteq {"hvcurveto", "vhcurveto"}
                /\ (p # c) = Odd(Len(prev.args) \div 4) -> p
          [] OTHER -> "none"

Compact(path, cur) ==
    IF path # <<>> /\ Len(Last(path).args) + Len(cur.args) < ArgMax
                   /\ Joined(Last(path), cur) # "none"
    THEN Append(Front(path), [type |-> Joined(Last(path), cur),
                              args |-> Last(path).args \o cur.args])
    ELSE Append(path, cur)

Shorter(p) ==
    LET a == p.args
    IN  IF p.type # "flex" THEN p
        ELSE IF a[13] # 50 * Unit \/ a[6] # 0 \/ a[8] # 0 THEN p
        ELSE IF a[2] = 0 /\ a[12] = 0 /\ a[4] + a[10] = 0
        THEN [type |-> "hflex", args |-> <<a[1], a[3], a[4], a[5], a[7], a[9], a[11]>>]
        ELSE IF a[2] + a[4] + a[10] + a[12] = 0
        THEN [type |-> "hflex1", args |-> <<a[1], a[2], a[3], a[4], a[5], a[7], a[9], a[10], a[11]>>]
        ELSE p

PostProc(cd) ==
    [cd EXCEPT !.path = LET q == FoldLeft(Compact, <<>>, @)
                        IN  [i \in DOMAIN q |-> Shorter(q[i])]]

-----------------------------------------------------------------------------
(* The Type 2 charstring.                                                   *)

\* The stems of one direction: an operator whenever the operands are many,
\* after which positions count from the origin again.
StemRun(ss, op) ==
    LET full(k) == 2 * k > ArgMax - 3
        place(k) == IF k = 1 \/ full(k - 1) THEN ss[k].pos
                    ELSE ss[k].pos - (ss[k-1].pos + ss[k-1].del)
    IN  FlattenSeq([k \in DOMAIN ss |-> <<Num(place(k)), Num(ss[k].del)>>
                        \o (IF full(k) THEN <<Op(op)>> ELSE <<>>)])

Pending(ss) == ss # <<>> /\ ~(2 * Len(ss) > ArgMax - 3)

Stems(cd) ==
    LET hs == SelectSeq(cd.stems, LAMBDA s : s.dir = "h")
        vs == SelectSeq(cd.stems, LAMBDA s : s.dir = "v")
        hop == IF cd.hintmask THEN "hstemhm" ELSE "hstem"
        vop == IF cd.hintmask THEN "vstemhm" ELSE "vstem"
        end == IF ~(cd.hintmask \/ cd.cntrmask) THEN <<Op("vstem")>>
               ELSE IF cd.path[1].type \in {"hint", "cntrmask"} THEN <<>>
               ELSE <<Op("vstemhm")>>
    IN  StemRun(hs, hop) \o (IF Pending(hs) THEN <<Op(hop)>> ELSE <<>>)
        \o StemRun(vs, vop) \o (IF Pending(vs) THEN end ELSE <<>>)

\* get_stem: the place of a stem in the sorted list, from its identifier.
Chosen(cd, ids) == {i \in DOMAIN cd.stems : cd.stems[i].id \in ids}

RECURSIVE PathTokens(_, _)
PathTokens(cd, path) ==
    IF path = <<>> THEN <<>>
    ELSE LET p    == Head(path)
             ends == {i \in DOMAIN path : path[i].type # "hint"}
             k    == IF ends = {} THEN Len(path)
                     ELSE (CHOOSE i \in ends : \A j \in ends : i <= j) - 1
         IN  IF p.type = "hint"
             THEN (IF cd.hintmask
                   THEN <<Mask("hintmask", Chosen(cd, {path[i].args[1] : i \in 1 .. k}))>>
                   ELSE <<>>)
                  \o PathTokens(cd, SubSeq(path, k + 1, Len(path)))
             ELSE (IF p.type = "cntrmask" THEN <<Mask("cntrmask", Chosen(cd, ToSet(p.args)))>>
                   ELSE Nums(p.args) \o <<Op(p.type)>>)
                  \o PathTokens(cd, Tail(path))

EncodeCharpath(cd, default, nominal) ==
    (IF cd.wx # default THEN <<Num(cd.wx - nominal)>> ELSE <<>>)
    \o Stems(cd) \o PathTokens(cd, cd.path)
    \o (IF cd.seac = <<>> THEN <<>> ELSE Nums(cd.seac)) \o <<Op("endchar")>>

t1char_convert_charstring(src, subrs, default, nominal) ==
    LET built == BuildCharpath(NewChar, src, subrs, 0)
        done  == [PostProc(built) EXCEPT !.stems = SortSeq(@, StemLess)]
    IN  IF built.status = "error" THEN [status |-> "error", code |-> <<>>, bbox |-> <<>>]
        ELSE [status |-> "ok", code |-> EncodeCharpath(done, default, nominal),
              bbox |-> BBox(built)]

-----------------------------------------------------------------------------
(* The bytes of a number; v is in units of 1/65536.                         *)

Fixed == 65536

PutNumber(v) ==
    LET iv   == (v + Fixed \div 2) \div Fixed
        near == v - iv * Fixed \in -1 .. 1          \* fabs(...) <= 3.0e-5
        lo   == v \div Fixed
    IN  CASE ~near -> <<255, (lo \div 256) % 256, lo % 256,
                        ((v % Fixed) \div 256) % 256, (v % Fixed) % 256>>
          [] near /\ iv \in -107 .. 107    -> <<iv + 139>>
          [] near /\ iv \in 108 .. 1131    -> <<247 + (iv - 108) \div 256, (iv - 108) % 256>>
          [] near /\ iv \in -1131 .. -108  -> <<251 + (-iv - 108) \div 256, (-iv - 108) % 256>>
          [] OTHER -> <<28, (iv \div 256) % 256, iv % 256>>

GetInteger(b) ==
    CASE b[1] = 28 -> LET n == b[2] * 256 + b[3] IN IF n > 32767 THEN n - 65536 ELSE n
      [] b[1] \in 32 .. 246  -> b[1] - 139
      [] b[1] \in 247 .. 250 -> (b[1] - 247) * 256 + b[2] + 108
      [] b[1] \in 251 .. 254 -> -(b[1] - 251) * 256 - b[2] - 108

\* The reading of a fixed number is that of cs_type2.c.
GetFixed(b) ==
    LET hi == b[2] * 256 + b[3]
    IN  (IF hi > 32767 THEN hi - 65536 ELSE hi) * Fixed + b[4] * 256 + b[5]

=============================================================================
