----------------------------- MODULE Type2Char -----------------------------
(***************************************************************************)
(* The copy of a Type 2 charstring into a font subset (cs_type2.c): the    *)
(* subroutines are expanded, the operators of arithmetic, storage and      *)
(* choice are carried out, and every other operator is written with the    *)
(* operands it finds.  Charstrings are the token sequences of Type1Char.   *)
(***************************************************************************)
EXTENDS Type1Char

CONSTANTS
    BiasSmall,   \* 107: added to a subroutine number when there are few
    TransMax     \* CS_TRANS_ARRAY_MAX: cells of the transient array

\* The transient array keeps what the glyph before has left in it.
NewCopy(trans) == [status |-> "ok", phase |-> 0, stems |-> 0, stack |-> <<>>, width |-> <<>>,
                   trans |-> trans, out |-> <<>>]

\* A place outside an array is read or written: anything may follow.
Undefined(cs) == [cs EXCEPT !.status = "undefined"]

\* The conversion to int, towards 0.
Whole(v) == IF v < 0 THEN -((-v) \div Unit) ELSE v \div Unit

\* clear_stack and the operator after it.
Write(cs, token) ==
    [cs EXCEPT !.out = @ \o Nums(cs.stack) \o <<token>>, !.stack = <<>>]

\* The width is the operand too many of the first operator that clears.
Width(cs, extra) ==
    IF cs.phase = 0 /\ extra /\ cs.stack # <<>> THEN [cs EXCEPT !.width = <<cs.stack[1]>>] ELSE cs

CurveOps == {"rlineto", "hlineto", "vlineto", "rrcurveto", "rcurveline", "rlinecurve",
             "vvcurveto", "hhcurveto", "vhcurveto", "hvcurveto"}
FlexOps  == {"hflex", "flex", "hflex1", "flex1"}
StemOps  == {"hstem", "vstem", "hstemhm", "vstemhm"}
MaskOps  == {"hintmask", "cntrmask"}

CopyStem(cs, t) ==
    LET c == Width(cs, Odd(Len(cs.stack)))
    IN  [Write([c EXCEPT !.stems = @ + Len(cs.stack) \div 2], t) EXCEPT !.phase = 1]

\* As CopyMask of a code that counts only the stems of the stem operators.
CopyMaskDeclared(cs, t) ==
    LET c == Width(cs, Odd(Len(cs.stack)))
        n == c.stems
    IN  [Write([c EXCEPT !.stems = n], [t EXCEPT !.mask = {i \in @ : i <= 8 * ((n + 7) \div 8)}])
            EXCEPT !.phase = 2]

\* The operands before a mask are stems too, until the path begins.
CopyMask(cs, t) ==
    LET c == Width(cs, Odd(Len(cs.stack)))
        n == IF cs.phase < 2 THEN c.stems + Len(cs.stack) \div 2 ELSE c.stems
    IN  [Write([c EXCEPT !.stems = n], [t EXCEPT !.mask = {i \in @ : i <= 8 * ((n + 7) \div 8)}])
            EXCEPT !.phase = 2]

CopyMove(cs, t) ==
    [Write(Width(cs, Odd(Len(cs.stack)) = (t.op = "rmoveto")), t) EXCEPT !.phase = 2]

CopyEnd(cs, t) ==
    LET n == Len(cs.stack)
        c == IF n = 1 THEN [cs EXCEPT !.width = <<cs.stack[1]>>] ELSE [cs EXCEPT !.stack = <<>>]
    IN  IF n \in {4, 5} THEN Fail(cs) ELSE [Write(c, t) EXCEPT !.status = "end"]

CopyOperator1(cs, t) ==
    CASE t.op \in StemOps -> CopyStem(cs, t)
      [] t.op \in MaskOps -> CopyMask(cs, t)
      [] t.op \in {"rmoveto", "hmoveto", "vmoveto"} -> CopyMove(cs, t)
      [] t.op = "endchar" -> CopyEnd(cs, t)
      [] t.op \in CurveOps /\ cs.phase = 2 -> Write(cs, t)
      [] OTHER -> Fail(cs)

-----------------------------------------------------------------------------
Truth(b) == IF b THEN Unit ELSE 0

\* As Roll of a code that rolls down whatever the sign.
RollDown(s, j) ==
    LET k == (IF j < 0 THEN -j ELSE j) % Len(s)
    IN  SubSeq(s, k + 1, Len(s)) \o SubSeq(s, 1, k)

\* roll: the operands turn j places, towards the top when j is positive.
Roll(s, j) ==
    LET k == (IF j < 0 THEN -j ELSE j) % Len(s)
    IN  IF j > 0 THEN LastOf(s, k) \o Pop(s, k) ELSE SubSeq(s, k + 1, Len(s)) \o SubSeq(s, 1, k)

ArithNeeds == [o \in {"not", "abs", "neg", "drop", "sqrt", "dup", "get"} |-> 1]
           @@ [o \in {"and", "or", "add", "sub", "div", "eq", "put", "mul", "exch",
                      "index", "roll"} |-> 2]
           @@ [o \in {"ifelse"} |-> 4]

Arithmetic(s, trans, op) ==
    LET n == Len(s)
        a == IF n > 1 THEN s[n-1] ELSE 0
        b == s[n]
        i == Whole(b)
        two(v) == Append(Pop(s, 2), v)
        one(v) == Append(Pop(s, 1), v)
    IN  CASE op = "and"  -> two(Truth(a # 0 /\ b # 0))
          [] op = "or"   -> two(Truth(a # 0 \/ b # 0))
          [] op = "not"  -> one(Truth(b = 0))
          [] op = "eq"   -> two(Truth(a = b))
          [] op = "abs"  -> one(IF b < 0 THEN -b ELSE b)
          [] op = "neg"  -> one(-b)
          [] op = "add"  -> two(a + b)
          [] op = "sub"  -> two(a - b)
          [] op = "mul"  -> two((a * b) \div Unit)
          [] op = "div"  -> two((a * Unit) \div b)
          [] op = "sqrt" -> one(CHOOSE r \in 0 .. b : r * r <= b * Unit /\ (r + 1) * (r + 1) > b * Unit)
          [] op = "drop" -> Pop(s, 1)
          [] op = "put"  -> Pop(s, 2)
          [] op = "get"  -> one(trans[i])
          [] op = "dup"  -> Append(s, b)
          [] op = "exch" -> Pop(s, 2) \o <<b, a>>
          [] op = "ifelse" -> Append(Pop(s, 4), IF a > b THEN s[n-2] ELSE s[n-3])
          [] op = "index"  -> one(IF i < 0 THEN a ELSE s[n - i - 1])
          [] op = "roll" -> IF a < 0 THEN Pop(s, 2)
                            ELSE Pop(s, 2 + Whole(a)) \o Roll(LastOf(Pop(s, 2), Whole(a)), i)

CopyOperator2(cs, t) ==
    LET s == cs.stack
        n == Len(s)
        i == Whole(Last(s))
        N == Whole(s[n-1])
    IN  CASE t.op \in FlexOps /\ cs.phase = 2 -> Write(cs, t)
          [] t.op = "random" /\ n < ArgMax -> [cs EXCEPT !.stack = Append(@, Unit)]
          [] t.op \in DOMAIN ArithNeeds /\ n >= ArithNeeds[t.op] ->
                IF \/ t.op = "dup" /\ n = ArgMax
                   \/ t.op \in {"put", "get"} /\ i > TransMax
                   \/ t.op = "index" /\ n < i + 2
                   \/ t.op = "roll" /\ n - 2 < N
                THEN Fail(cs)
                ELSE IF \/ t.op \in {"put", "get"} /\ i \notin DOMAIN cs.trans
                        \/ t.op = "roll" /\ (N = 0 \/ (N < 0 /\ i < 0 /\ (-i) % (-N) # 0))
                THEN Undefined(cs)
                ELSE [cs EXCEPT !.stack = Arithmetic(s, cs.trans, t.op),
                        !.trans = IF t.op = "put" THEN [@ EXCEPT ![i] = s[n-1]] ELSE @]
          [] OTHER -> Fail(cs)

\* get_subr: the bias makes small numbers of either sign.  A number past the
\* last one by more than one is refused, the other wrong ones are not.
SubrIndex(subrs, id) ==
    IF Len(subrs) < 1240 THEN id + BiasSmall
    ELSE IF Len(subrs) < 33900 THEN id + 1131 ELSE id + 32768

RECURSIVE DoCharstring(_, _, _, _, _)
DoCharstring(cs, data, gsubrs, subrs, nest) ==
    IF nest > NestMax THEN Fail(cs)
    ELSE IF data = <<>> \/ cs.status # "ok"
    THEN [cs EXCEPT !.status = IF @ = "return" THEN "ok" ELSE @]
    ELSE LET t   == Head(data)
             lib == IF t.op = "callgsubr" THEN gsubrs ELSE subrs
             idx == SubrIndex(lib, Whole(Last(cs.stack)))
             c   == CASE t.op = "num" ->
                            IF Len(cs.stack) = ArgMax THEN Fail(cs)
                            ELSE [cs EXCEPT !.stack = Append(@, t.n)]
                      [] t.op = "return" -> [cs EXCEPT !.status = "return"]
                      [] t.op \in {"callsubr", "callgsubr"} ->
                            IF cs.stack = <<>> THEN Fail(cs)
                            ELSE IF lib = <<>> \/ idx > Len(lib) THEN Fail(cs)
                            ELSE IF idx \notin 0 .. Len(lib) - 1 THEN Undefined(cs)
                            ELSE DoCharstring([cs EXCEPT !.stack = Front(@)], lib[idx + 1],
                                              gsubrs, subrs, nest + 1)
                      [] t.op \in FlexOps \cup DOMAIN ArithNeeds \cup {"random"} ->
                            CopyOperator2(cs, t)
                      [] OTHER -> CopyOperator1(cs, t)
         IN  DoCharstring(c, Tail(data), gsubrs, subrs, nest)

cs_copy_charstring(trans, src, gsubrs, subrs, default, nominal) ==
    LET c == DoCharstring(NewCopy(trans), src, gsubrs, subrs, 0)
    IN  [status |-> IF c.status \in {"error", "undefined"} THEN c.status ELSE "ok", code |-> c.out,
         trans |-> c.trans, wx |-> IF c.width = <<>> THEN default ELSE nominal + c.width[1]]

=============================================================================
