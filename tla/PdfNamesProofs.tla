--------------------------- MODULE PdfNamesProofs ---------------------------
(***************************************************************************)
(* The table of named objects on top of the writer: what is proved of the   *)
(* writer still holds when the table takes links, gives them back and moves *)
(* labels, and every entry of the table can produce a reference.            *)
(***************************************************************************)
EXTENDS PdfNames, PdfOutCountProofs

NameRecord == [used : BOOLEAN, object : Obj \cup {NoObj}, reference : Obj \cup {NoObj}, closed : BOOLEAN]

TableType ==
  /\ names \in [Key -> NameRecord]
  /\ deleting \in BOOLEAN
  /\ abort \in {"none", "transfer", "close"}
  /\ bound \in [Key -> AnyLabel]
  /\ meaning \in [Key -> ObjType]

(***************************************************************************)
(* The links of the table, N, on object x.                                  *)
(***************************************************************************)
Objects(N, x) == { k \in Key : N[k].object = x }
References(N, x) == { k \in Key : N[k].reference = x }
Links(N, x) == Cardinality(Objects(N, x)) + Cardinality(References(N, x))

LEMMA TableLinksIs == \A x : TableLinks(x) = Links(names, x)
BY DEF TableLinks, Links, Objects, References

LEMMA LinksType ==
  ASSUME NEW N, NEW x
  PROVE  /\ IsFiniteSet(Objects(N, x)) /\ IsFiniteSet(References(N, x))
         /\ Cardinality(Objects(N, x)) \in Nat /\ Cardinality(References(N, x)) \in Nat
         /\ Links(N, x) \in Nat
<1>1. Objects(N, x) \in SUBSET Key /\ References(N, x) \in SUBSET Key
  BY DEF Objects, References
<1>2. IsFiniteSet(Objects(N, x)) /\ IsFiniteSet(References(N, x))
  BY <1>1, NamesAssumption, FS_Subset
<1>3. Cardinality(Objects(N, x)) \in Nat /\ Cardinality(References(N, x)) \in Nat
  BY <1>2, FS_CardinalityType
<1>4. QED
  BY <1>2, <1>3 DEF Links

\* What entry k adds to the count of x.
LEMMA LinksSplit ==
  ASSUME NEW N, NEW k \in Key, NEW x
  PROVE  /\ Cardinality(Objects(N, x)) = Cardinality(Objects(N, x) \ {k}) + Same(x, N[k].object)
         /\ Cardinality(References(N, x)) = Cardinality(References(N, x) \ {k}) + Same(x, N[k].reference)
         /\ Cardinality(Objects(N, x) \ {k}) \in Nat /\ Cardinality(References(N, x) \ {k}) \in Nat
<1>1. ASSUME NEW S, IsFiniteSet(S), NEW e \in Nat, e = IF k \in S THEN 1 ELSE 0
      PROVE  Cardinality(S) = Cardinality(S \ {k}) + e /\ Cardinality(S \ {k}) \in Nat
  <2>1. IsFiniteSet(S \ {k}) /\ Cardinality(S \ {k}) = IF k \in S THEN Cardinality(S) - 1 ELSE Cardinality(S)
    BY <1>1, FS_RemoveElement
  <2>2. Cardinality(S) \in Nat /\ Cardinality(S \ {k}) \in Nat
    BY <1>1, <2>1, FS_CardinalityType
  <2> DEFINE m == Cardinality(S)
             n == Cardinality(S \ {k})
  <2>3. (n = m - 1 /\ e = 1) \/ (n = m /\ e = 0)
    BY <1>1, <2>1
  <2>4. m \in Nat /\ n \in Nat
    BY <2>2
  <2> HIDE DEF m, n
  <2>5. m = n + e
    BY <2>3, <2>4
  <2>6. QED
    BY <2>2, <2>5 DEF m, n
<1>2. /\ Same(x, N[k].object) = IF k \in Objects(N, x) THEN 1 ELSE 0
      /\ Same(x, N[k].reference) = IF k \in References(N, x) THEN 1 ELSE 0
  BY DEF Same, Objects, References
<1>3. QED
  BY <1>1, <1>2, LinksType, SameType

\* Only entry k changes.
LEMMA LinksMove ==
  ASSUME NEW N, NEW M, NEW k \in Key, NEW x, \A j \in Key : j # k => M[j] = N[j]
  PROVE  Links(M, x) + (Same(x, N[k].object) + Same(x, N[k].reference))
           = Links(N, x) + (Same(x, M[k].object) + Same(x, M[k].reference))
<1>1. Objects(M, x) \ {k} = Objects(N, x) \ {k} /\ References(M, x) \ {k} = References(N, x) \ {k}
  BY DEF Objects, References
<1> DEFINE a == Cardinality(Objects(N, x) \ {k})
           b == Cardinality(References(N, x) \ {k})
           m == Cardinality(Objects(M, x))
           n == Cardinality(References(M, x))
           p == Cardinality(Objects(N, x))
           q == Cardinality(References(N, x))
           mo == Same(x, M[k].object)
           mr == Same(x, M[k].reference)
           no == Same(x, N[k].object)
           nr == Same(x, N[k].reference)
<1>2. p = a + no /\ q = b + nr /\ a \in Nat /\ b \in Nat
  BY LinksSplit
<1>3. m = a + mo /\ n = b + mr
  BY <1>1, LinksSplit
<1>4. mo \in Nat /\ mr \in Nat /\ no \in Nat /\ nr \in Nat
  BY SameType
<1>5. Links(M, x) = m + n /\ Links(N, x) = p + q
  BY DEF Links
<1> HIDE DEF a, b, m, n, p, q, mo, mr, no, nr
<1>6. (m + n) + (no + nr) = (p + q) + (mo + mr)
  BY <1>2, <1>3, <1>4
<1>7. QED
  BY <1>5, <1>6 DEF no, nr, mo, mr

\* An entry that names or refers to an object is a link on it.
LEMMA LinksAtLeast ==
  ASSUME NEW N, NEW k \in Key, NEW x
  PROVE  Same(x, N[k].object) + Same(x, N[k].reference) <= Links(N, x)
<1> DEFINE a == Cardinality(Objects(N, x) \ {k})
           b == Cardinality(References(N, x) \ {k})
           p == Cardinality(Objects(N, x))
           q == Cardinality(References(N, x))
           no == Same(x, N[k].object)
           nr == Same(x, N[k].reference)
<1>1. p = a + no /\ q = b + nr /\ a \in Nat /\ b \in Nat
  BY LinksSplit
<1>2. no \in Nat /\ nr \in Nat
  BY SameType
<1>3. Links(N, x) = p + q
  BY DEF Links
<1> HIDE DEF a, b, p, q, no, nr
<1>4. no + nr <= p + q
  BY <1>1, <1>2
<1>5. QED
  BY <1>3, <1>4 DEF no, nr

(***************************************************************************)
(* The table does not own more than the callers of pdfobj.c do.             *)
(***************************************************************************)
TableInv ==
  /\ TableType
  /\ \A x \in Obj : Links(names, x) <= held[x]
  /\ NameReachable

LEMMA InTable ==
  ASSUME TypeOK, TableInv, NEW k \in Key
  PROVE  /\ names \in [Key -> NameRecord] /\ held \in [Obj -> Nat]
         /\ names[k].object # NoObj => names[k].object \in Obj /\ held[names[k].object] > 0
         /\ names[k].reference # NoObj => names[k].reference \in Obj /\ held[names[k].reference] > 0
<1>1. names \in [Key -> NameRecord] /\ held \in [Obj -> Nat]
  BY DEF TypeOK, TableInv, TableType
<1>2. names[k] \in NameRecord
  BY <1>1
<1>3. names[k].object \in Obj \cup {NoObj} /\ names[k].reference \in Obj \cup {NoObj}
  BY <1>2 DEF NameRecord
<1>4. ASSUME NEW x \in Obj, x = names[k].object \/ x = names[k].reference PROVE held[x] > 0
  <2> DEFINE no == Same(x, names[k].object)
             nr == Same(x, names[k].reference)
             l == Links(names, x)
             h == held[x]
  <2>1. no + nr <= l /\ l <= h
    BY LinksAtLeast DEF TableInv
  <2>2. no = 1 \/ nr = 1
    BY <1>4 DEF Same
  <2>3. no \in Nat /\ nr \in Nat /\ l \in Nat /\ h \in Nat
    BY <1>1, SameType, LinksType
  <2> HIDE DEF no, nr, l, h
  <2>4. h > 0
    BY <2>1, <2>2, <2>3
  <2>5. QED
    BY <2>4 DEF h
<1>5. QED
  BY <1>1, <1>3, <1>4

\* An object of which a special has a link of its own.
LEMMA MineHeld ==
  ASSUME TypeOK, TableInv, NEW o \in Obj, Mine(o) > 0
  PROVE  held[o] > 0 /\ Links(names, o) < held[o]
<1> DEFINE l == Links(names, o)
           h == held[o]
<1>1. h - l > 0 /\ h \in Nat /\ l \in Nat
  BY TableLinksIs, LinksType DEF Mine, TypeOK
<1> HIDE DEF l, h
<1>2. h > 0 /\ l < h
  BY <1>1
<1>3. QED
  BY <1>2 DEF l, h

(***************************************************************************)
(* Steps of the table that leave what containers own alone: links pass      *)
(* between callers, counts and releases to do.                              *)
(***************************************************************************)
LEMMA CountLinks ==
  ASSUME TypeOK, TypeOK', CountInv, phase' # "init",
         \A x \in Obj : /\ heap'[x].kids = heap[x].kids
                        /\ heap'[x].rc + (held[x] + Count(work, x))
                             = heap[x].rc + (held'[x] + Count(work', x))
                        /\ IF heap'[x].type = "none" THEN heap'[x] = heap[x] ELSE heap'[x].rc > 0
  PROVE  CountInv'
<1>1. \A c \in Obj : Len(heap'[c].kids) <= MaxKids
  BY CountFacts DEF CountInv, Owners
<1>2. ASSUME NEW c \in Obj, NEW x \in Obj
      PROVE  heap'[x].rc + (held[x] + Count(heap[c].kids, x) + Count(work, x))
               = heap[x].rc + (held'[x] + Count(heap'[c].kids, x) + Count(work', x))
  <2> DEFINE q == heap'[x].rc
             r == heap[x].rc
             h == held[x]
             g == held'[x]
             k == Count(heap[c].kids, x)
             w == Count(work, x)
             v == Count(work', x)
  <2>1. r \in Nat /\ h \in Nat /\ k \in Nat /\ w \in Nat
    BY CountFacts, CountType
  <2>2. v \in Nat /\ g \in Nat
    BY CountType DEF TypeOK
  <2>3. q \in Nat
    BY ObjFields DEF TypeOK, ObjRecord
  <2>4. q + (h + w) = r + (g + v)
    OBVIOUS
  <2> HIDE DEF q, r, h, g, k, w, v
  <2>5. q + (h + k + w) = r + (g + k + v)
    BY <2>1, <2>2, <2>3, <2>4
  <2>6. QED
    BY <2>5 DEF q, r, h, g, k, w, v
<1>3. Obj # {} => Owners(KidsAt)' /\ Balance(KidsAt, RcAt, held, work)'
  BY <1>1, <1>2, CountMove
<1>4. Obj = {} => Owners(KidsAt)' /\ Balance(KidsAt, RcAt, held, work)'
  BY DEF Owners, KidsAt, Balance
<1>5. NoCircle(KidsAt)'
  <2>1. ASSUME NEW o \in Obj, NEW i \in DOMAIN heap'[o].kids
        PROVE  \E j \in DOMAIN heap[o].kids : heap[o].kids[j] = heap'[o].kids[i]
    OBVIOUS
  <2>2. QED
    BY <2>1, CircleKept
<1>6. ASSUME NEW x \in Obj
      PROVE  IF Live(x)' THEN heap'[x].rc > 0 ELSE heap'[x].rc = 0 /\ heap'[x].kids = << >>
  BY DEF CountInv, Live
<1>7. QED
  BY <1>3, <1>4, <1>5, <1>6 DEF CountInv

\* pdf_transfer_label.
LEMMA Transfer ==
  ASSUME NEW L, NEW n, NEW x, NEW s, NEW f, Accounted(L, n, x, s, f),
         NEW dst \in Obj, NEW src \in Obj, dst # src, L[dst] = 0
  PROVE  Accounted([L EXCEPT ![dst] = L[src], ![src] = 0], n, x, s, f)
<1> DEFINE M == [L EXCEPT ![dst] = L[src], ![src] = 0]
<1>1. L \in [Obj -> AnyLabel] /\ 0 \in AnyLabel /\ \A l \in Label : l # 0
  BY OutAssumption DEF Accounted, Types, AnyLabel, Label
<1>2. /\ M \in [Obj -> AnyLabel] /\ M[dst] = L[src] /\ M[src] = 0
      /\ \A a \in Obj : a # dst /\ a # src => M[a] = L[a]
  BY <1>1
<1> HIDE DEF M
<1>3. Unwritten(L, n, x, s)
  BY DEF Accounted
<1>4. \A l \in Label : (\E a \in Obj : M[a] = l) <=> (\E a \in Obj : L[a] = l)
  BY <1>1, <1>2
<1>5. \A a, b \in Obj : M[a] # 0 /\ M[a] = M[b] => a = b
  BY <1>2, <1>3 DEF Unwritten
<1>6. \A a \in Obj : M[a] # 0 => M[a] < n /\ M[a] # s.label
  BY <1>2, <1>3 DEF Unwritten
<1>7. Unwritten(M, n, x, s)
  BY <1>3, <1>4, <1>5, <1>6 DEF Unwritten
<1>8. Types(M, n, x, s, f)
  BY <1>2 DEF Accounted, Types
<1>9. QED
  BY <1>7, <1>8 DEF Accounted, M

(***************************************************************************)
(* The operations of the table, as steps of the writer.                     *)
(***************************************************************************)
WriterInv == TypeOK /\ LabelInv /\ CountInv /\ ClosedInv /\ FreeListExact

\* A step of the writer itself.
LEMMA WriterKept == ASSUME WriterInv, [Next]_vars PROVE WriterInv'
<1>1. TypeOK'
  <2>1. CASE Next
    BY <2>1, TypeOutOpen, TypeCaller, TypeRelease, TypeFlush DEF Next, WriterInv
  <2>2. CASE UNCHANGED vars
    BY <2>2 DEF vars, outVars, TypeOK, WriterInv
  <2>3. QED
    BY <2>1, <2>2
<1>2. QED
  BY <1>1, LabelStep, CountStep, ClosedStep, FreeStep DEF WriterInv

\* The parts of WriterInv that only writing disturbs.
LEMMA WriterFrame ==
  ASSUME WriterInv, TypeOK', LabelInv', CountInv', phase = "open", phase' # "closed",
         UNCHANGED << freed, xref, stm >>
  PROVE  WriterInv'
BY DEF WriterInv, ClosedInv, FreeListExact

\* Types after a step that writes nothing.
LEMMA TypeFrame ==
  ASSUME TypeOK, heap' \in [Obj -> ObjRecord], held' \in [Obj -> Nat], work' \in Seq(Obj),
         nextLabel' \in 1 .. MaxLabel, phase' \in {"open", "failed"},
         UNCHANGED << freed, xref, stm, file, encMode, trailer >>
  PROVE  TypeOK'
BY DEF TypeOK

\* The label of u passes to o; the table's link on u is to be released.
LEMMA PassedFacts ==
  ASSUME TypeOK, NEW u \in Obj, held[u] > 0, held' = [held EXCEPT ![u] = @ - 1],
         work = << >>, work' = << u >>, NEW x \in Obj
  PROVE  /\ held' \in [Obj -> Nat] /\ work' \in Seq(Obj)
         /\ held[x] + Count(work, x) = held'[x] + Count(work', x)
<1>1. held' \in [Obj -> Nat]
  <2>1. held \in [Obj -> Nat]
    BY DEF TypeOK
  <2>2. held[u] - 1 \in Nat
    BY <2>1
  <2>3. QED
    BY <2>1, <2>2
<1>2. held[x] + Count(work, x) = held'[x] + Count(work', x)
  <2> DEFINE h == held[x]
             g == held'[x]
             e == Same(x, u)
  <2>1. h \in Nat /\ g \in Nat /\ h = g + e
    BY HeldLess
  <2>2. Count(work, x) = 0 /\ Count(work', x) = e
    BY CountEmpty, CountOne
  <2> HIDE DEF h, g, e
  <2>3. h + 0 = g + e
    BY <2>1
  <2>4. QED
    BY <2>2, <2>3 DEF h, g
<1>3. QED
  BY <1>1, <1>2

LEMMA Relabelled ==
  ASSUME NEW h \in [Obj -> ObjRecord], NEW o \in Obj, NEW l \in AnyLabel
  PROVE  /\ [h EXCEPT ![o].label = l] \in [Obj -> ObjRecord]
         /\ [h EXCEPT ![o].label = l][o] = [h[o] EXCEPT !.label = l]
         /\ \A x \in Obj : x # o => [h EXCEPT ![o].label = l][x] = h[x]
<1>1. h[o] \in ObjRecord
  OBVIOUS
<1>2. [h[o] EXCEPT !.label = l] \in ObjRecord
  BY <1>1 DEF ObjRecord, AnyLabel
<1>3. [h EXCEPT ![o].label = l] = [h EXCEPT ![o] = [h[o] EXCEPT !.label = l]]
  OBVIOUS
<1>4. QED
  BY <1>2, <1>3

\* What DefineReserved does to the objects: o takes over the label of u.
LEMMA HeapReserved ==
  ASSUME WriterInv, TableInv, NEW k \in Key, NEW o \in Obj, DefineReserved(k, o), heap[o].label = 0,
         NEW u, u = names[k].object
  PROVE  /\ u \in Obj /\ held[u] > 0 /\ heap[u].type = "undefined" /\ o # u
         /\ heap[o].type # "undefined" /\ heap[o].type # "none"
         /\ heap' \in [Obj -> ObjRecord]
         /\ \A x \in Obj : /\ heap'[x].kids = heap[x].kids /\ heap'[x].rc = heap[x].rc
                           /\ heap'[x].type = heap[x].type
                           /\ heap'[x].label = IF x = o THEN heap[u].label
                                                ELSE IF x = u THEN 0 ELSE heap[x].label
                           /\ x # o /\ x # u => heap'[x] = heap[x]
<1> USE DEF WriterInv
<1>1. heap' = [heap EXCEPT ![o].label = heap[u].label, ![u].label = 0]
  BY DEF DefineReserved, LabelTransferred
<1>2. u \in Obj /\ held[u] > 0 /\ heap[u].type = "undefined"
  BY InTable DEF DefineReserved, Placeholder
<1>3. heap[o].type # "undefined" /\ heap[o].type # "none" /\ o # u
  <2>1. heap[o].type # "undefined" /\ held[o] > 0
    BY MineHeld DEF DefineReserved, MayName
  <2>2. QED
    BY <1>2, <2>1, CountZeroDead DEF Live
<1>4. heap \in [Obj -> ObjRecord] /\ 0 \in AnyLabel /\ heap[u].label \in AnyLabel
  BY <1>2, ObjFields, LabelRange
<1>5. heap' \in [Obj -> ObjRecord]
  <2> DEFINE h == [heap EXCEPT ![o].label = heap[u].label]
  <2>1. h \in [Obj -> ObjRecord]
    BY <1>4, Relabelled
  <2> HIDE DEF h
  <2>2. [h EXCEPT ![u].label = 0] \in [Obj -> ObjRecord]
    BY <1>2, <1>4, <2>1, Relabelled
  <2>3. QED
    BY <1>1, <2>2 DEF h
<1>6. /\ \A x \in Obj : /\ heap'[x].kids = heap[x].kids /\ heap'[x].rc = heap[x].rc
                        /\ heap'[x].type = heap[x].type
      /\ \A x \in Obj : heap'[x].label = IF x = o THEN heap[u].label
                                          ELSE IF x = u THEN 0 ELSE heap[x].label
      /\ \A x \in Obj : x # o /\ x # u => heap'[x] = heap[x]
  BY <1>1, <1>2, <1>3, <1>4 DEF ObjRecord
<1>7. QED
  BY <1>2, <1>3, <1>5, <1>6

LEMMA WriterReserved ==
  ASSUME WriterInv, TableInv, NEW k \in Key, NEW o \in Obj, DefineReserved(k, o) PROVE WriterInv'
<1> USE DEF WriterInv
<1>1. CASE heap[o].label # 0
  BY <1>1, WriterKept DEF DefineReserved
<1>2. CASE heap[o].label = 0
  <2> DEFINE u == names[k].object
  <2>1. /\ work = << >> /\ work' = << u >> /\ held' = [held EXCEPT ![u] = @ - 1]
        /\ UNCHANGED << outVars, trailer, phase >> /\ phase = "open"
    BY <1>2 DEF DefineReserved, Running, Idle
  <2>2. /\ u \in Obj /\ held[u] > 0 /\ heap[u].type = "undefined" /\ o # u
        /\ heap[o].type # "undefined" /\ heap[o].type # "none"
        /\ heap' \in [Obj -> ObjRecord]
        /\ \A x \in Obj : /\ heap'[x].kids = heap[x].kids /\ heap'[x].rc = heap[x].rc
                          /\ heap'[x].type = heap[x].type
                          /\ heap'[x].label = IF x = o THEN heap[u].label
                                               ELSE IF x = u THEN 0 ELSE heap[x].label
                          /\ x # o /\ x # u => heap'[x] = heap[x]
    BY <1>2, HeapReserved
  <2> HIDE DEF u
  <2>3. TypeOK'
    BY <2>1, <2>2, PassedFacts, TypeFrame DEF outVars, TypeOK
  <2>4. LabelInv'
    <3>1. Labels' = [Labels EXCEPT ![o] = Labels[u], ![u] = 0]
      BY <2>2 DEF Labels
    <3>2. Labels[o] = 0
      BY <1>2 DEF Labels
    <3>3. Accounted([Labels EXCEPT ![o] = Labels[u], ![u] = 0], nextLabel, xref, stm, file)
      BY <2>2, <3>2, Transfer DEF LabelInv
    <3>4. Accounted(Labels, nextLabel, xref, stm, file)'
      BY <2>1, <3>1, <3>3 DEF outVars
    <3>5. \A x \in Obj : heap'[x].type = "none" => heap'[x].label = 0
      BY <2>2 DEF LabelInv, Live
    <3>6. QED
      BY <2>1, <3>4, <3>5 DEF LabelInv, Live
  <2>5. CountInv'
    <3>1. ASSUME NEW x \in Obj
          PROVE  /\ heap'[x].kids = heap[x].kids
                 /\ heap'[x].rc + (held[x] + Count(work, x))
                      = heap[x].rc + (held'[x] + Count(work', x))
                 /\ IF heap'[x].type = "none" THEN heap'[x] = heap[x] ELSE heap'[x].rc > 0
      <4>1. held[x] + Count(work, x) = held'[x] + Count(work', x)
        BY <2>1, <2>2, PassedFacts
      <4>2. IF heap'[x].type = "none" THEN heap'[x] = heap[x] ELSE heap'[x].rc > 0
        BY <2>2, CountZeroDead DEF Live
      <4>3. QED
        BY <2>2, <4>1, <4>2
    <3>2. QED
      BY <2>1, <2>3, <3>1, CountLinks
  <2>6. QED
    BY <2>1, <2>3, <2>4, <2>5, WriterFrame DEF outVars
<1>3. QED
  BY <1>1, <1>2

\* pdf_link_obj d times on an object the table has.
LEMMA WriterLinked ==
  ASSUME WriterInv, Idle, NEW o \in Obj, held[o] > 0, NEW d \in Nat,
         heap' = [heap EXCEPT ![o].rc = @ + d], held' = [held EXCEPT ![o] = @ + d],
         UNCHANGED << outVars, trailer, work, phase >>
  PROVE  WriterInv'
<1> USE DEF WriterInv
<1>1. heap \in [Obj -> ObjRecord] /\ held \in [Obj -> Nat] /\ heap[o].rc + d \in Nat /\ held[o] + d \in Nat
  BY ObjFields DEF TypeOK
<1>2. heap' \in [Obj -> ObjRecord]
  BY <1>1 DEF ObjRecord
<1>3. held' \in [Obj -> Nat]
  BY <1>1
<1>4. TypeOK'
  BY <1>2, <1>3, TypeFrame DEF outVars, TypeOK, Idle
<1>5. /\ \A x \in Obj : /\ heap'[x].kids = heap[x].kids /\ heap'[x].label = heap[x].label
                        /\ heap'[x].type = heap[x].type
      /\ heap'[o].rc = heap[o].rc + d /\ held'[o] = held[o] + d
      /\ \A x \in Obj : x # o => heap'[x] = heap[x] /\ held'[x] = held[x]
  BY <1>1 DEF ObjRecord
<1>6. LabelInv'
  BY <1>5, LabelFrame DEF outVars, Idle, LabelInv, Live
<1>7. heap[o].type # "none"
  BY CountZeroDead DEF Live
<1>8. ASSUME NEW x \in Obj
      PROVE  /\ heap'[x].kids = heap[x].kids
             /\ heap'[x].rc + (held[x] + Count(work, x)) = heap[x].rc + (held'[x] + Count(work', x))
             /\ IF heap'[x].type = "none" THEN heap'[x] = heap[x] ELSE heap'[x].rc > 0
  <2> DEFINE c == Count(work, x)
             r == heap[o].rc
             h == held[o]
  <2>1. c \in Nat /\ r \in Nat /\ h \in Nat
    BY CountFacts, CountType
  <2>2. r > 0
    BY <1>7, CountZeroDead DEF Live
  <2>3. Count(work', x) = c
    OBVIOUS
  <2> HIDE DEF c, r, h
  <2>4. (r + d) + (h + c) = r + ((h + d) + c) /\ r + d > 0
    BY <2>1, <2>2
  <2>5. CASE x = o
    BY <1>5, <1>7, <2>3, <2>4, <2>5 DEF c, r, h
  <2>6. CASE x # o
    BY <1>5, <2>6, CountZeroDead DEF Live
  <2>7. QED
    BY <2>5, <2>6
<1>9. CountInv'
  BY <1>4, <1>8, CountLinks DEF Idle
<1>10. QED
  BY <1>4, <1>6, <1>9, WriterFrame DEF outVars, Idle

\* A name that is defined a second time, and an object the table gives back.
LEMMA WriterReleased ==
  ASSUME WriterInv, TableInv, NEW k \in Key,
         CloseReferred(k) \/ \E o \in Obj : DefineTwice(k, o)
  PROVE  WriterInv'
<1>1. CASE CloseReferred(k)
  <2>1. names[k].object \in Obj /\ held[names[k].object] > 0
    BY <1>1, InTable DEF CloseReferred, WriterInv
  <2>2. Release(names[k].object)
    BY <1>1, <2>1 DEF CloseReferred, Release, Running
  <2>3. QED
    BY <2>1, <2>2, WriterKept DEF Next, CallerStep
<1>2. ASSUME NEW o \in Obj, DefineTwice(k, o) PROVE WriterInv'
  <2>1. held[o] > 0
    BY <1>2, MineHeld DEF DefineTwice, MayName, WriterInv
  <2>2. Release(o)
    BY <1>2, <2>1 DEF DefineTwice, Release, Running
  <2>3. QED
    BY <2>2, WriterKept DEF Next, CallerStep
<1>3. QED
  BY <1>1, <1>2

\* Links on what the table has handed out before.
LEMMA WriterAgain ==
  ASSUME WriterInv, TableInv, NEW k \in Key, FirstAlias(k) \/ NextReference(k) PROVE WriterInv'
<1>1. CASE FirstAlias(k)
  <2>1. names[k].object \in Obj
    BY <1>1, InTable DEF FirstAlias, WriterInv, TableInv, NameReachable
  <2>2. QED
    <3> DEFINE o == names[k].object
    <3>1. o \in Obj /\ held[o] > 0
      BY <2>1, InTable, OutAssumption DEF WriterInv
    <3>2. /\ heap' = [heap EXCEPT ![o].rc = @ + 2] /\ held' = [held EXCEPT ![o] = @ + 2]
          /\ UNCHANGED << outVars, trailer, work, phase >> /\ Idle
      BY <1>1 DEF FirstAlias, Running
    <3> HIDE DEF o
    <3>3. 2 \in Nat
      OBVIOUS
    <3>4. QED
      BY <3>1, <3>2, <3>3, WriterLinked
<1>2. CASE NextReference(k)
  <2>1. names[k].reference \in Obj /\ held[names[k].reference] > 0
    BY <1>2, InTable DEF NextReference, WriterInv
  <2>2. QED
    BY <1>2, <2>1, WriterLinked DEF NextReference, Running
<1>3. QED
  BY <1>1, <1>2

LEMMA WriterReferenceFails ==
  ASSUME WriterInv, NEW k \in Key, ReferenceFails(k) PROVE WriterInv'
<1> USE DEF WriterInv
<1>1. /\ phase = "open" /\ phase' = "failed"
      /\ heap' = heap /\ held' = held /\ work' = work /\ UNCHANGED << outVars, trailer >>
  BY DEF ReferenceFails, Running, Idle
<1>2. TypeOK'
  BY <1>1, TypeFrame DEF TypeOK, outVars
<1>3. LabelInv'
  BY <1>1, LabelFrame DEF LabelInv, Live, outVars
<1>4. CountInv'
  BY <1>1, <1>2, CountFrame
<1>5. QED
  BY <1>1, <1>2, <1>3, <1>4, WriterFrame DEF outVars
\* A number is handed out, or looked up, for o, and r becomes a reference to o.
LEMMA WriterReferred ==
  ASSUME WriterInv, Idle, NEW o \in Obj, NEW r \in Obj, o # r, ~Live(r),
         heap[o].label # 0 \/ CanLabel, nextLabel' = NextAfter(o),
         heap' \in [Obj -> ObjRecord], held' \in [Obj -> Nat],
         heap'[o].label = LabelOf(o), heap'[o].type # "none", heap'[o].kids = heap[o].kids,
         heap'[o].rc > 0, heap'[o].rc + held[o] = heap[o].rc + held'[o],
         heap'[r].label = 0, heap'[r].type # "none", heap'[r].kids = << >>,
         heap'[r].rc > 0, heap'[r].rc = held'[r],
         \A x \in Obj : x # o /\ x # r => heap'[x] = heap[x] /\ held'[x] = held[x],
         UNCHANGED << freed, xref, stm, file, encMode, trailer, work, phase >>
  PROVE  WriterInv'
<1> USE DEF WriterInv
<1>1. TypeOK'
  BY LabelOfType, TypeFrame DEF TypeOK, Idle
<1>2. heap[r].label = 0 /\ heap[r].rc = 0 /\ held[r] = 0 /\ heap[r].kids = << >>
  BY CountZeroDead DEF LabelInv, Live
<1>3. LabelInv'
  <2>1. \A a \in Obj : a # o => heap'[a].label = heap[a].label
    BY <1>2
  <2>2. \A a \in Obj : heap'[a].type = "none" => heap'[a].label = 0
    BY DEF LabelInv, Live
  <2>3. QED
    BY <2>1, <2>2, LabelIssued DEF Idle
<1>4. ASSUME NEW x \in Obj
      PROVE  /\ heap'[x].kids = heap[x].kids
             /\ heap'[x].rc + (held[x] + Count(work, x)) = heap[x].rc + (held'[x] + Count(work', x))
             /\ IF heap'[x].type = "none" THEN heap'[x] = heap[x] ELSE heap'[x].rc > 0
  <2> DEFINE q == heap'[x].rc
             p == heap[x].rc
             h == held[x]
             g == held'[x]
             c == Count(work, x)
  <2>1. p \in Nat /\ h \in Nat /\ c \in Nat /\ g \in Nat /\ Count(work', x) = c
    BY CountFacts, CountType
  <2>2. q \in Nat
    BY <1>1, ObjFields DEF TypeOK, ObjRecord
  <2>3. q + h = p + g
    <3>1. CASE x = r
      BY <1>2, <2>1, <2>2, <3>1
    <3>2. CASE x # r
      BY <2>1, <2>2, <3>2
    <3>3. QED
      BY <3>1, <3>2
  <2> HIDE DEF q, p, h, g, c
  <2>4. q + (h + c) = p + (g + c)
    BY <2>1, <2>2, <2>3
  <2>5. heap'[x].kids = heap[x].kids
    BY <1>2
  <2>6. IF heap'[x].type = "none" THEN heap'[x] = heap[x] ELSE heap'[x].rc > 0
    BY CountZeroDead DEF Live
  <2>7. QED
    BY <2>1, <2>4, <2>5, <2>6 DEF q, p, h, g, c
<1>5. CountInv'
  BY <1>1, <1>4, CountLinks DEF Idle
<1>6. QED
  BY <1>1, <1>3, <1>5, WriterFrame DEF Idle

\* Reserve makes a placeholder u and a reference r to it.
LEMMA HeapReserve ==
  ASSUME WriterInv, NEW k \in Key, NEW u \in Obj, NEW r \in Obj, Reserve(k, u, r)
  PROVE  /\ u # r /\ ~Live(u) /\ ~Live(r) /\ nextLabel \in Label
         /\ LabelOf(u) = nextLabel /\ NextAfter(u) = nextLabel + 1
         /\ heap[u].label = 0 /\ heap[u].rc = 0 /\ held[u] = 0 /\ heap[u].kids = << >>
         /\ heap' \in [Obj -> ObjRecord] /\ held' \in [Obj -> Nat]
         /\ heap'[u].label = nextLabel /\ heap'[u].type = "undefined"
         /\ heap'[u].rc = 1 /\ heap'[u].kids = << >>
         /\ heap'[r].label = 0 /\ heap'[r].type = "ref" /\ heap'[r].rc = 1 /\ heap'[r].kids = << >>
         /\ held'[u] = 1 /\ held'[r] = 1
         /\ \A x \in Obj : x # u /\ x # r => heap'[x] = heap[x] /\ held'[x] = held[x]
<1> USE DEF WriterInv
<1> DEFINE p == [NewObj("undefined") EXCEPT !.label = nextLabel]
<1>1. /\ heap' = [heap EXCEPT ![u] = p, ![r] = NewRef(u, nextLabel)]
      /\ held' = [held EXCEPT ![u] = 1, ![r] = 1]
      /\ u # r /\ ~Live(u) /\ ~Live(r) /\ CanLabel
  BY DEF Reserve
<1>2. heap \in [Obj -> ObjRecord] /\ held \in [Obj -> Nat] /\ nextLabel \in AnyLabel /\ nextLabel \in Label
  BY <1>1, OutAssumption DEF TypeOK, CanLabel, AnyLabel, Label
<1>3. /\ p \in ObjRecord /\ p.label = nextLabel /\ p.type = "undefined" /\ p.rc = 1 /\ p.kids = << >>
  <2>1. NewObj("undefined") \in ObjRecord
    BY NewObjType DEF LeafTypes
  <2>2. QED
    BY <1>2, <2>1 DEF NewObj, Dead, ObjRecord, AnyLabel
<1>4. LET n == NewRef(u, nextLabel)
      IN  n \in ObjRecord /\ n.label = 0 /\ n.type = "ref" /\ n.rc = 1 /\ n.kids = << >>
  <2>1. NewRef(u, nextLabel) \in ObjRecord
    BY <1>2, NewRefType
  <2>2. QED
    BY <2>1 DEF NewRef, NewObj, Dead
<1> HIDE DEF p
<1>5. heap' \in [Obj -> ObjRecord] /\ held' \in [Obj -> Nat]
  BY <1>1, <1>2, <1>3, <1>4
<1>6. heap[u].label = 0 /\ heap[u].rc = 0 /\ held[u] = 0 /\ heap[u].kids = << >>
  BY <1>1, CountZeroDead DEF LabelInv, Live
<1>7. LabelOf(u) = nextLabel /\ NextAfter(u) = nextLabel + 1
  BY <1>6 DEF LabelOf, NextAfter
<1>8. /\ heap'[u] = p /\ heap'[r] = NewRef(u, nextLabel) /\ held'[u] = 1 /\ held'[r] = 1
      /\ \A x \in Obj : x # u /\ x # r => heap'[x] = heap[x] /\ held'[x] = held[x]
  BY <1>1, <1>2
<1>9. QED
  BY <1>1, <1>2, <1>3, <1>4, <1>5, <1>6, <1>7, <1>8

LEMMA WriterReserve ==
  ASSUME WriterInv, TableInv, NEW k \in Key, NEW u \in Obj, NEW r \in Obj, Reserve(k, u, r)
  PROVE  WriterInv'
<1>1. /\ Idle /\ CanLabel /\ nextLabel' = nextLabel + 1
      /\ UNCHANGED << freed, xref, stm, file, encMode, trailer, work, phase >>
  BY DEF Reserve, Running
<1>2. QED
  BY <1>1, HeapReserve, WriterReferred

\* FirstReference labels the object o of the name and makes r refer to it.
LEMMA HeapFirst ==
  ASSUME WriterInv, TableInv, NEW k \in Key, NEW r \in Obj, FirstReference(k, r),
         NEW o, o = names[k].object
  PROVE  /\ o \in Obj /\ held[o] > 0 /\ Live(o) /\ o # r /\ ~Live(r) /\ ~IsRef(o)
         /\ heap[o].label # 0 \/ CanLabel
         /\ LabelOf(o) \in Label
         /\ heap' \in [Obj -> ObjRecord] /\ held' \in [Obj -> Nat]
         /\ heap'[o].label = LabelOf(o) /\ heap'[o].type = heap[o].type
         /\ heap'[o].kids = heap[o].kids /\ heap'[o].rc = heap[o].rc /\ heap[o].rc > 0
         /\ heap'[r].label = 0 /\ heap'[r].type = "ref" /\ heap'[r].rc = 2 /\ heap'[r].kids = << >>
         /\ held'[o] = held[o] /\ held'[r] = 2
         /\ \A x \in Obj : x # o /\ x # r => heap'[x] = heap[x] /\ held'[x] = held[x]
<1> USE DEF WriterInv
<1> DEFINE n == [NewRef(o, LabelOf(o)) EXCEPT !.rc = 2]
           h == [heap EXCEPT ![o].label = LabelOf(o)]
<1>1. /\ heap' = [heap EXCEPT ![o].label = LabelOf(o), ![r] = n]
      /\ held' = [held EXCEPT ![r] = 2]
      /\ ~Live(r) /\ ~IsRef(o)
      /\ heap[o].label # 0 \/ CanLabel
  BY DEF FirstReference
<1>2. o \in Obj /\ held[o] > 0
  BY InTable, OutAssumption DEF FirstReference, TableInv, NameReachable
<1>3. Live(o) /\ o # r /\ heap[o].type # "none" /\ heap[o].rc > 0
  BY <1>1, <1>2, CountZeroDead DEF Live
<1>4. /\ heap \in [Obj -> ObjRecord] /\ held \in [Obj -> Nat]
      /\ LabelOf(o) \in AnyLabel /\ LabelOf(o) \in Label
  BY <1>1, <1>2, LabelOfType DEF TypeOK
<1>5. n \in ObjRecord /\ n.label = 0 /\ n.type = "ref" /\ n.rc = 2 /\ n.kids = << >>
  <2>1. NewRef(o, LabelOf(o)) \in ObjRecord
    BY <1>2, <1>4, NewRefType
  <2>2. QED
    BY <2>1 DEF NewRef, NewObj, Dead, ObjRecord
<1>6. /\ h \in [Obj -> ObjRecord] /\ h[o] = [heap[o] EXCEPT !.label = LabelOf(o)]
      /\ \A x \in Obj : x # o => h[x] = heap[x]
  BY <1>2, <1>4, Relabelled
<1>7. heap' = [h EXCEPT ![r] = n]
  BY <1>1
<1> HIDE DEF n, h
<1>8. /\ heap' \in [Obj -> ObjRecord] /\ held' \in [Obj -> Nat]
      /\ heap'[o] = [heap[o] EXCEPT !.label = LabelOf(o)] /\ heap'[r] = n
      /\ held'[o] = held[o] /\ held'[r] = 2
      /\ \A x \in Obj : x # o /\ x # r => heap'[x] = heap[x] /\ held'[x] = held[x]
  <2>1. /\ heap' \in [Obj -> ObjRecord]
        /\ heap'[o] = [heap[o] EXCEPT !.label = LabelOf(o)] /\ heap'[r] = n
        /\ \A x \in Obj : x # o /\ x # r => heap'[x] = heap[x]
    BY <1>2, <1>3, <1>5, <1>6, <1>7
  <2>2. /\ held' \in [Obj -> Nat] /\ held'[o] = held[o] /\ held'[r] = 2
        /\ \A x \in Obj : x # o /\ x # r => held'[x] = held[x]
    BY <1>1, <1>2, <1>3, <1>4
  <2>3. QED
    BY <2>1, <2>2
<1>9. /\ heap'[o].label = LabelOf(o) /\ heap'[o].type = heap[o].type
      /\ heap'[o].kids = heap[o].kids /\ heap'[o].rc = heap[o].rc
  BY <1>2, <1>4, <1>8 DEF ObjRecord
<1>10. QED
  BY <1>1, <1>2, <1>3, <1>4, <1>5, <1>8, <1>9

LEMMA WriterFirst ==
  ASSUME WriterInv, TableInv, NEW k \in Key, NEW r \in Obj, FirstReference(k, r)
  PROVE  WriterInv'
<1> DEFINE o == names[k].object
<1>1. /\ Idle /\ nextLabel' = NextAfter(o)
      /\ UNCHANGED << freed, xref, stm, file, encMode, trailer, work, phase >>
  BY DEF FirstReference, Running
<1>2. /\ o \in Obj /\ Live(o) /\ o # r /\ ~Live(r)
      /\ heap[o].label # 0 \/ CanLabel
      /\ heap' \in [Obj -> ObjRecord] /\ held' \in [Obj -> Nat]
      /\ heap'[o].label = LabelOf(o) /\ heap'[o].type = heap[o].type
      /\ heap'[o].kids = heap[o].kids /\ heap'[o].rc = heap[o].rc /\ heap[o].rc > 0
      /\ heap'[r].label = 0 /\ heap'[r].type = "ref" /\ heap'[r].rc = 2 /\ heap'[r].kids = << >>
      /\ held'[o] = held[o] /\ held'[r] = 2
      /\ \A x \in Obj : x # o /\ x # r => heap'[x] = heap[x] /\ held'[x] = held[x]
  BY HeapFirst
<1> HIDE DEF o
<1>3. heap'[o].type # "none"
  BY <1>2 DEF Live
<1>4. QED
  BY <1>1, <1>2, <1>3, WriterReferred

\* check_objects_defined: a new null object takes over label and entry of u.
LEMMA HeapNull ==
  ASSUME WriterInv, TableInv, NEW k \in Key, NEW o \in Obj, DefineNull(k, o),
         NEW u, u = names[k].object
  PROVE  /\ u \in Obj /\ held[u] > 0 /\ heap[u].type = "undefined" /\ u # o /\ ~Live(o) /\ heap[u].rc > 0
         /\ heap' \in [Obj -> ObjRecord] /\ held' \in [Obj -> Nat]
         /\ heap'[u].label = 0 /\ heap'[u].type = heap[u].type
         /\ heap'[u].kids = heap[u].kids /\ heap'[u].rc = heap[u].rc
         /\ heap'[o].label = heap[u].label /\ heap'[o].type = "null" /\ heap'[o].rc = 1 /\ heap'[o].kids = << >>
         /\ heap[o].label = 0 /\ heap[o].rc = 0 /\ held[o] = 0 /\ heap[o].kids = << >>
         /\ held'[o] = 1 /\ held'[u] + 1 = held[u]
         /\ \A x \in Obj : x # o /\ x # u => heap'[x] = heap[x] /\ held'[x] = held[x]
<1> USE DEF WriterInv
<1> DEFINE n == [NewObj("null") EXCEPT !.label = heap[u].label]
           h == [heap EXCEPT ![o] = n]
<1>1. /\ heap' = [heap EXCEPT ![o] = n, ![u].label = 0]
      /\ held' = [held EXCEPT ![o] = 1, ![u] = @ - 1]
      /\ ~Live(o)
  BY DEF DefineNull
<1>2. u \in Obj /\ held[u] > 0 /\ heap[u].type = "undefined"
  BY InTable DEF DefineNull, Placeholder
<1>3. Live(u) /\ u # o /\ heap[u].type # "none" /\ heap[u].rc > 0 /\ heap[u].label \in AnyLabel
  BY <1>1, <1>2, CountZeroDead, ObjFields DEF Live
<1>4. heap \in [Obj -> ObjRecord] /\ held \in [Obj -> Nat] /\ 0 \in AnyLabel
  BY LabelRange DEF TypeOK
<1>5. n \in ObjRecord /\ n.label = heap[u].label /\ n.type = "null" /\ n.rc = 1 /\ n.kids = << >>
  <2>1. NewObj("null") \in ObjRecord
    BY NewObjType DEF LeafTypes
  <2>2. QED
    BY <1>3, <2>1 DEF NewObj, Dead, ObjRecord, AnyLabel
<1> HIDE DEF n
<1>6. h \in [Obj -> ObjRecord] /\ h[o] = n /\ \A x \in Obj : x # o => h[x] = heap[x]
  BY <1>4, <1>5
<1>7. heap' = [h EXCEPT ![u].label = 0]
  BY <1>1
<1> HIDE DEF h
<1>8. /\ heap' \in [Obj -> ObjRecord] /\ heap'[u] = [heap[u] EXCEPT !.label = 0] /\ heap'[o] = n
      /\ \A x \in Obj : x # o /\ x # u => heap'[x] = heap[x]
  BY <1>2, <1>3, <1>4, <1>6, <1>7, Relabelled
<1>9. /\ heap'[u].label = 0 /\ heap'[u].type = heap[u].type
      /\ heap'[u].kids = heap[u].kids /\ heap'[u].rc = heap[u].rc
  BY <1>2, <1>4, <1>8 DEF ObjRecord
<1>10. /\ held' \in [Obj -> Nat] /\ held'[o] = 1 /\ held'[u] + 1 = held[u]
       /\ \A x \in Obj : x # o /\ x # u => held'[x] = held[x]
  <2>1. held[u] \in Nat /\ held[u] - 1 \in Nat /\ (held[u] - 1) + 1 = held[u]
    BY <1>2, <1>4
  <2>2. held'[o] = 1 /\ held'[u] = held[u] - 1
    BY <1>1, <1>2, <1>3, <1>4
  <2>3. held' \in [Obj -> Nat] /\ \A x \in Obj : x # o /\ x # u => held'[x] = held[x]
    BY <1>1, <1>2, <1>3, <1>4, <2>1
  <2>4. QED
    BY <2>1, <2>2, <2>3
<1>11. heap[o].label = 0 /\ heap[o].rc = 0 /\ held[o] = 0 /\ heap[o].kids = << >>
  BY <1>1, CountZeroDead DEF LabelInv, Live
<1>12. QED
  BY <1>1, <1>2, <1>3, <1>5, <1>8, <1>9, <1>10, <1>11

LEMMA WriterNull ==
  ASSUME WriterInv, TableInv, NEW k \in Key, NEW o \in Obj, DefineNull(k, o) PROVE WriterInv'
<1> USE DEF WriterInv
<1> DEFINE u == names[k].object
<1>1. /\ work = << >> /\ work' = << u >> /\ phase = "open"
      /\ UNCHANGED << outVars, trailer, phase >>
  BY DEF DefineNull, Deleting, Idle
<1>2. /\ u \in Obj /\ held[u] > 0 /\ heap[u].type = "undefined" /\ u # o /\ ~Live(o) /\ heap[u].rc > 0
      /\ heap' \in [Obj -> ObjRecord] /\ held' \in [Obj -> Nat]
      /\ heap'[u].label = 0 /\ heap'[u].type = heap[u].type
      /\ heap'[u].kids = heap[u].kids /\ heap'[u].rc = heap[u].rc
      /\ heap'[o].label = heap[u].label /\ heap'[o].type = "null" /\ heap'[o].rc = 1 /\ heap'[o].kids = << >>
      /\ heap[o].label = 0 /\ heap[o].rc = 0 /\ held[o] = 0 /\ heap[o].kids = << >>
      /\ held'[o] = 1 /\ held'[u] + 1 = held[u]
      /\ \A x \in Obj : x # o /\ x # u => heap'[x] = heap[x] /\ held'[x] = held[x]
  BY HeapNull
<1> HIDE DEF u
<1>3. TypeOK'
  <2>1. work' \in Seq(Obj)
    BY <1>1, <1>2
  <2>2. QED
    BY <1>1, <1>2, <2>1, TypeFrame DEF TypeOK, outVars
<1>4. LabelInv'
  <2>1. Labels' = [Labels EXCEPT ![o] = Labels[u], ![u] = 0]
    BY <1>2 DEF Labels
  <2>2. Labels[o] = 0
    BY <1>2 DEF Labels
  <2>3. Accounted(Labels, nextLabel, xref, stm, file)'
    BY <1>1, <1>2, <2>1, <2>2, Transfer DEF LabelInv, outVars
  <2>4. \A x \in Obj : heap'[x].type = "none" => heap'[x].label = 0
    BY <1>2 DEF LabelInv, Live
  <2>5. QED
    BY <1>1, <2>3, <2>4 DEF LabelInv, Live
<1>5. ASSUME NEW x \in Obj
       PROVE  /\ heap'[x].kids = heap[x].kids
              /\ heap'[x].rc + (held[x] + Count(work, x)) = heap[x].rc + (held'[x] + Count(work', x))
              /\ IF heap'[x].type = "none" THEN heap'[x] = heap[x] ELSE heap'[x].rc > 0
  <2>1. Count(work, x) = 0 /\ Count(work', x) = Same(x, u)
    BY <1>1, <1>2, CountEmpty, CountOne
  <2>2. heap'[x].kids = heap[x].kids /\ IF heap'[x].type = "none" THEN heap'[x] = heap[x] ELSE heap'[x].rc > 0
    <3>1. CASE x = o
      BY <1>2, <3>1
    <3>2. CASE x = u
      BY <1>2, <3>2
    <3>3. CASE x # o /\ x # u
      BY <1>2, <3>3, CountZeroDead DEF Live
    <3>4. QED
      BY <3>1, <3>2, <3>3
  <2> DEFINE q == heap'[x].rc
             p == heap[x].rc
             a == held[x]
             g == held'[x]
  <2>3. p \in Nat /\ a \in Nat /\ g \in Nat
    BY <1>2, CountFacts
  <2>4. q \in Nat
    BY <1>2 DEF ObjRecord
  <2>5. q + (a + 0) = p + (g + Same(x, u))
    <3>1. CASE x = o
      <4>1. q = 1 /\ a = 0 /\ p = 0 /\ g = 1 /\ Same(x, u) = 0
        BY <1>2, <3>1 DEF Same
      <4> HIDE DEF q, p, a, g
      <4>2. QED
        BY <4>1
    <3>2. CASE x = u
      <4>1. q = p /\ a = g + 1 /\ Same(x, u) = 1
        BY <1>2, <3>2 DEF Same
      <4> HIDE DEF q, p, a, g
      <4>2. QED
        BY <2>3, <2>4, <4>1
    <3>3. CASE x # o /\ x # u
      <4>1. q = p /\ a = g /\ Same(x, u) = 0
        BY <1>2, <3>3 DEF Same
      <4> HIDE DEF q, p, a, g
      <4>2. QED
        BY <2>3, <2>4, <4>1
    <3>4. QED
      BY <3>1, <3>2, <3>3
  <2>6. QED
    BY <2>1, <2>2, <2>5
<1>6. CountInv'
  BY <1>1, <1>3, <1>5, CountLinks
<1>7. QED
  BY <1>1, <1>3, <1>4, <1>6, WriterFrame DEF outVars

\* hval_free: both links of the entry are on their way back.
LEMMA HvalCount ==
  ASSUME TypeOK, TableInv, NEW k \in Key, NEW x \in Obj
  PROVE  /\ Hval(k) \in Seq(Obj)
         /\ Count(Hval(k), x) = Same(x, names[k].reference) + Same(x, names[k].object)
<1> DEFINE link(o) == IF o = NoObj THEN << >> ELSE << o >>
<1>1. ASSUME NEW o \in Obj \cup {NoObj} PROVE link(o) \in Seq(Obj) /\ Count(link(o), x) = Same(x, o)
  <2>1. CASE o = NoObj
    <3>1. x # o
      BY <2>1, OutAssumption
    <3>2. QED
      BY <2>1, <3>1, CountEmpty DEF Same
  <2>2. CASE o # NoObj
    BY <2>2, CountOne
  <2>3. QED
    BY <2>1, <2>2
<1>2. names[k].object \in Obj \cup {NoObj} /\ names[k].reference \in Obj \cup {NoObj}
  BY InTable
<1>3. Hval(k) = link(names[k].reference) \o link(names[k].object)
  BY DEF Hval
<1> HIDE DEF link
<1>4. link(names[k].reference) \o link(names[k].object) \in Seq(Obj)
  BY <1>1, <1>2
<1>5. QED
  BY <1>1, <1>2, <1>3, <1>4, CountConcat

\* What is left to the callers when the entry's links are gone.
LEMMA HeldFreed ==
  ASSUME TypeOK, TableInv, NEW k \in Key, FreeName(k), NEW x \in Obj
  PROVE  /\ held'[x] \in Nat
         /\ held[x] = held'[x] + (Same(x, names[k].object) + Same(x, names[k].reference))
<1> DEFINE no == Same(x, names[k].object)
           nr == Same(x, names[k].reference)
           l == Links(names, x)
           h == held[x]
           g == held'[x]
<1>1. g = h - nr - no
  BY DEF FreeName, Same
<1>2. no + nr <= l /\ l <= h
  BY LinksAtLeast DEF TableInv
<1>3. no \in Nat /\ nr \in Nat /\ l \in Nat /\ h \in Nat
  BY SameType, LinksType DEF TypeOK
<1> HIDE DEF no, nr, l, h, g
<1>4. g \in Nat /\ h = g + (no + nr)
  BY <1>1, <1>2, <1>3
<1>5. QED
  BY <1>4 DEF no, nr, h, g

LEMMA WriterFreed ==
  ASSUME WriterInv, TableInv, NEW k \in Key, FreeName(k) PROVE WriterInv'
<1> USE DEF WriterInv
<1>1. /\ work = << >> /\ work' = Hval(k) /\ heap' = heap /\ phase = "open"
      /\ UNCHANGED << outVars, trailer, phase >>
  BY DEF FreeName, Deleting, Idle
<1>2. held' \in [Obj -> Nat]
  <2>1. held' = [x \in Obj |-> held'[x]]
    BY DEF FreeName
  <2>2. QED
    BY <2>1, HeldFreed
<1>3. work' \in Seq(Obj)
  <2>1. Obj = {} => work' \in Seq(Obj)
    BY <1>1, InTable DEF Hval
  <2>2. Obj # {} => work' \in Seq(Obj)
    BY <1>1, HvalCount
  <2>3. QED
    BY <2>1, <2>2
<1>4. TypeOK'
  BY <1>1, <1>2, <1>3, TypeFrame DEF TypeOK, outVars
<1>5. LabelInv'
  BY <1>1, LabelFrame DEF LabelInv, Live, outVars
<1>6. ASSUME NEW x \in Obj
      PROVE  held[x] + Count(work, x) = held'[x] + Count(work', x)
  <2> DEFINE no == Same(x, names[k].object)
             nr == Same(x, names[k].reference)
             h == held[x]
             g == held'[x]
  <2>1. h = g + (no + nr) /\ g \in Nat /\ no \in Nat /\ nr \in Nat
    BY HeldFreed, SameType
  <2>2. Count(work, x) = 0 /\ Count(work', x) = nr + no
    BY <1>1, CountEmpty, HvalCount
  <2> HIDE DEF no, nr, h, g
  <2>3. h + 0 = g + (nr + no)
    BY <2>1
  <2>4. QED
    BY <2>2, <2>3 DEF h, g
<1>7. CountInv'
  <2>1. ASSUME NEW c \in Obj PROVE CountInv'
    BY <1>1, <1>4, <1>6, CountPassed
  <2>2. Obj = {} => CountInv'
    BY <1>1, <1>6 DEF CountInv, Owners, Balance, NoCircle, KidsAt, RcAt, Live
  <2>3. QED
    BY <2>1, <2>2
<1>8. QED
  BY <1>1, <1>4, <1>5, <1>7, WriterFrame DEF outVars
\* Every step of the table, the specials and the writer.
LEMMA WriterStepKept == ASSUME WriterInv, TableInv, NamesNext PROVE WriterInv'
<1>1. ASSUME NEW k \in Key, LookupReference(k) PROVE WriterInv'
  BY <1>1, WriterReserve, WriterFirst, WriterAgain, WriterReferenceFails DEF LookupReference
<1>2. ASSUME NEW k \in Key, CloseObject(k) PROVE WriterInv'
  BY <1>2, WriterReleased, WriterKept DEF CloseObject, CloseUnreferred, CloseAborts
<1>3. ASSUME NEW k \in Key, FreeName(k) PROVE WriterInv'
  BY <1>3, WriterFreed
<1>4. ASSUME NEW k \in Key, NEW o \in Obj, AddObject(k, o) PROVE WriterInv'
  BY <1>4, WriterReserved, WriterReleased, WriterKept DEF AddObject, DefineFresh
<1>5. ASSUME NEW k \in Key, NEW o \in Obj, Put(k, o) PROVE WriterInv'
  <2>1. names[k].object \in Obj
    BY <1>5, InTable DEF Put, WriterInv
  <2>2. QED
    BY <1>5, <2>1, WriterKept DEF Put, Next, CallerStep
<1>6. ASSUME NEW k \in Key, NEW o \in Obj, DefineNull(k, o) PROVE WriterInv'
  BY <1>6, WriterNull
<1>7. ASSUME NEW o \in Obj, GiveBack(o) PROVE WriterInv'
  BY <1>7, WriterKept DEF GiveBack, Next, CallerStep
<1>8. CASE BeginDelete
  BY <1>8, WriterKept DEF BeginDelete
<1>9. CASE SpecialStep
  BY <1>9, WriterKept DEF SpecialStep, Next, CallerStep
<1>10. CASE WriterStep
  BY <1>10, WriterKept DEF WriterStep, Next
<1>11. QED
  BY <1>1, <1>2, <1>3, <1>4, <1>5, <1>6, <1>7, <1>8, <1>9, <1>10 DEF NamesNext

(***************************************************************************)
(* The links of the table stay links that exist.                            *)
(***************************************************************************)
\* Entry k becomes r.
LEMMA TableMoved ==
  ASSUME TypeOK, TypeOK', TableInv, NEW k \in Key, NEW r \in NameRecord,
         names' = [names EXCEPT ![k] = r],
         deleting' \in BOOLEAN, abort' \in {"none", "transfer", "close"},
         bound' \in [Key -> AnyLabel], meaning' \in [Key -> ObjType],
         r.used => r.reference # NoObj \/ r.object # NoObj,
         \A x \in Obj : Links(names, x) + (Same(x, r.object) + Same(x, r.reference))
                          <= held'[x] + (Same(x, names[k].object) + Same(x, names[k].reference))
  PROVE  TableInv'
<1>1. names \in [Key -> NameRecord]
  BY DEF TableInv, TableType
<1>2. names'[k] = r /\ \A j \in Key : j # k => names'[j] = names[j]
  BY <1>1
<1>3. ASSUME NEW x \in Obj PROVE Links(names', x) <= held'[x]
  <2> DEFINE m == Links(names', x)
             l == Links(names, x)
             g == held'[x]
             p == Same(x, r.object) + Same(x, r.reference)
             q == Same(x, names[k].object) + Same(x, names[k].reference)
  <2>1. m + q = l + p
    <3> DEFINE M == names'
    <3>1. M[k] = r /\ \A j \in Key : j # k => M[j] = names[j]
      BY <1>2
    <3> HIDE DEF M
    <3>2. Links(M, x) + (Same(x, names[k].object) + Same(x, names[k].reference))
            = Links(names, x) + (Same(x, M[k].object) + Same(x, M[k].reference))
      BY <3>1, LinksMove
    <3>3. QED
      BY <3>1, <3>2 DEF M
  <2>2. l + p <= g + q
    OBVIOUS
  <2>3. m \in Nat /\ l \in Nat /\ g \in Nat /\ p \in Nat /\ q \in Nat
    <3>1. m \in Nat /\ l \in Nat /\ g \in Nat
      BY LinksType DEF TypeOK
    <3>2. \A a, b : Same(x, a) + Same(x, b) \in Nat
      BY SameType
    <3>3. QED
      BY <3>1, <3>2
  <2> HIDE DEF m, l, g, p, q
  <2>4. m <= g
    BY <2>1, <2>2, <2>3
  <2>5. QED
    BY <2>4 DEF m, g
<1>4. NameReachable'
  BY <1>2 DEF TableInv, NameReachable
<1>5. TableType'
  BY <1>1 DEF TableType
<1>6. QED
  BY <1>3, <1>4, <1>5 DEF TableInv

LEMMA TableSame ==
  ASSUME TableInv, names' = names, TableType', \A x \in Obj : Links(names, x) <= held'[x]
  PROVE  TableInv'
BY DEF TableInv, NameReachable

\* A special gives away a link of its own.
LEMMA TableGiven ==
  ASSUME TypeOK, TableInv, UNCHANGED nameVars, NEW o \in Obj, Mine(o) > 0,
         held' = [held EXCEPT ![o] = @ - 1]
  PROVE  TableInv'
<1>1. held[o] > 0 /\ Links(names, o) < held[o]
  BY MineHeld
<1>2. ASSUME NEW x \in Obj PROVE Links(names, x) <= held'[x]
  <2> DEFINE l == Links(names, x)
             h == held[x]
             g == held'[x]
  <2>1. h \in Nat /\ g \in Nat /\ h = g + Same(x, o) /\ l \in Nat
    BY <1>1, HeldLess, LinksType
  <2>2. l <= h
    BY DEF TableInv
  <2>3. x = o => l < h
    BY <1>1
  <2>4. Same(x, o) = IF x = o THEN 1 ELSE 0
    BY DEF Same
  <2> HIDE DEF l, h, g
  <2>5. l <= g
    BY <2>1, <2>2, <2>3, <2>4
  <2>6. QED
    BY <2>5 DEF l, g
<1>3. TableType'
  BY DEF TableInv, TableType, nameVars
<1>4. QED
  BY <1>2, <1>3, TableSame DEF nameVars
LEMMA LinksFacts ==
  ASSUME WriterInv, TableInv, NEW x \in Obj
  PROVE  /\ Links(names, x) \in Nat /\ held[x] \in Nat /\ Links(names, x) <= held[x]
         /\ ~Live(x) => held[x] = 0 /\ Links(names, x) = 0
         /\ \A y : Same(x, y) = (IF x = y THEN 1 ELSE 0)
         /\ Same(x, NoObj) = 0
<1>1. Links(names, x) \in Nat /\ held[x] \in Nat /\ Links(names, x) <= held[x]
  BY LinksType DEF TableInv, WriterInv, TypeOK
<1>2. ~Live(x) => held[x] = 0
  BY CountZeroDead DEF WriterInv
<1>3. x # NoObj
  BY OutAssumption
<1>4. QED
  BY <1>1, <1>2, <1>3 DEF Same

LEMMA EntryFields ==
  ASSUME TableInv, NEW k \in Key
  PROVE  /\ names \in [Key -> NameRecord] /\ names[k] \in NameRecord
         /\ \A o \in Obj : /\ [NoName EXCEPT !.used = TRUE, !.object = o] \in NameRecord
                           /\ [names[k] EXCEPT !.object = o] \in NameRecord
                           /\ [names[k] EXCEPT !.reference = o] \in NameRecord
         /\ [names[k] EXCEPT !.object = NoObj, !.closed = TRUE] \in NameRecord
         /\ [names[k] EXCEPT !.closed = TRUE] \in NameRecord
         /\ NoName \in NameRecord
<1>1. names \in [Key -> NameRecord] /\ names[k] \in NameRecord
  BY DEF TableInv, TableType
<1>2. NoName \in NameRecord
  BY DEF NoName, NameRecord
<1>3. QED
  BY <1>1, <1>2 DEF NameRecord

LEMMA TableDefined ==
  ASSUME WriterInv, TypeOK', TableInv, NEW k \in Key, NEW o \in Obj, AddObject(k, o) PROVE TableInv'
<1>1. TypeOK /\ Mine(o) > 0 /\ heap[o].type \in ObjType
  BY ObjFields DEF WriterInv, AddObject, DefineFresh, DefineReserved, DefineTwice, MayName
<1>2. held[o] > 0 /\ Links(names, o) < held[o]
  BY <1>1, MineHeld
<1>3. CASE DefineFresh(k, o)
  <2> DEFINE r == [NoName EXCEPT !.used = TRUE, !.object = o]
  <2>1. r \in NameRecord /\ r.object = o /\ r.reference = NoObj /\ o # NoObj
    BY EntryFields, OutAssumption DEF NoName
  <2>2. names' = [names EXCEPT ![k] = r] /\ held' = held
    BY <1>3 DEF DefineFresh, vars
  <2> HIDE DEF r
  <2>3. ASSUME NEW x \in Obj
        PROVE  Links(names, x) + (Same(x, r.object) + Same(x, r.reference))
                 <= held'[x] + (Same(x, names[k].object) + Same(x, names[k].reference))
    <3> DEFINE l == Links(names, x)
               h == held[x]
               q == Same(x, names[k].object)
               s == Same(x, names[k].reference)
    <3>1. l \in Nat /\ h \in Nat /\ l <= h /\ Same(x, o) = (IF x = o THEN 1 ELSE 0) /\ Same(x, NoObj) = 0
      BY LinksFacts
    <3>2. q \in Nat /\ s \in Nat
      BY SameType
    <3>3. x = o => l < h
      BY <1>2
    <3> HIDE DEF l, h, q, s
    <3>4. l + (Same(x, o) + Same(x, NoObj)) <= h + (q + s)
      BY <3>1, <3>2, <3>3
    <3>5. QED
      BY <2>1, <2>2, <3>4 DEF l, h, q, s
  <2>4. /\ deleting' \in BOOLEAN /\ abort' \in {"none", "transfer", "close"}
        /\ bound' \in [Key -> AnyLabel] /\ meaning' \in [Key -> ObjType]
    BY <1>1, <1>3 DEF DefineFresh, TableInv, TableType
  <2>5. QED
    BY <1>1, <2>1, <2>2, <2>3, <2>4, TableMoved
<1>4. CASE DefineReserved(k, o) /\ heap[o].label # 0
  BY <1>4, TableSame DEF DefineReserved, TableInv, TableType, vars
<1>5. CASE DefineReserved(k, o) /\ heap[o].label = 0
  <2> DEFINE r == [names[k] EXCEPT !.object = o]
             u == names[k].object
  <2>1. names[k] \in NameRecord /\ r \in NameRecord
    BY EntryFields
  <2>2. r.object = o /\ r.reference = names[k].reference /\ o # NoObj
    BY <2>1, OutAssumption DEF NameRecord
  <2>3. u \in Obj /\ held[u] > 0
    BY <1>1, <1>5, InTable DEF DefineReserved, Placeholder
  <2>4. names' = [names EXCEPT ![k] = r] /\ held' = [held EXCEPT ![u] = @ - 1]
    BY <1>5 DEF DefineReserved
  <2> HIDE DEF r, u
  <2>5. ASSUME NEW x \in Obj
        PROVE  Links(names, x) + (Same(x, r.object) + Same(x, r.reference))
                 <= held'[x] + (Same(x, u) + Same(x, names[k].reference))
    <3> DEFINE l == Links(names, x)
               h == held[x]
               g == held'[x]
               q == Same(x, u)
               s == Same(x, names[k].reference)
    <3>1. l \in Nat /\ h \in Nat /\ l <= h /\ Same(x, o) = (IF x = o THEN 1 ELSE 0)
      BY LinksFacts
    <3>2. q \in Nat /\ s \in Nat /\ g \in Nat /\ h = g + q
      BY <1>1, <2>3, <2>4, SameType, HeldLess
    <3>3. x = o => l < h
      BY <1>2
    <3> HIDE DEF l, h, q, s, g
    <3>4. l + (Same(x, o) + s) <= g + (q + s)
      BY <3>1, <3>2, <3>3
    <3>5. QED
      BY <2>2, <3>4 DEF l, q, s, g
  <2>6. /\ deleting' \in BOOLEAN /\ abort' \in {"none", "transfer", "close"}
        /\ bound' \in [Key -> AnyLabel] /\ meaning' \in [Key -> ObjType]
    BY <1>1, <1>5 DEF DefineReserved, TableInv, TableType
  <2>7. QED
    BY <1>1, <2>1, <2>2, <2>4, <2>5, <2>6, TableMoved DEF u
<1>6. CASE DefineTwice(k, o)
  BY <1>1, <1>6, TableGiven DEF DefineTwice
<1>7. QED
  BY <1>3, <1>4, <1>5, <1>6 DEF AddObject

LEMMA FirstNumberType ==
  ASSUME TableInv, NEW k \in Key, NEW l \in AnyLabel PROVE FirstNumber(k, l) \in [Key -> AnyLabel]
BY DEF FirstNumber, TableInv, TableType

LEMMA TableReserved ==
  ASSUME WriterInv, TypeOK', TableInv, NEW k \in Key, NEW u \in Obj, NEW r \in Obj, Reserve(k, u, r)
  PROVE  TableInv'
<1> DEFINE n == [NoName EXCEPT !.used = TRUE, !.object = u]
<1>1. n \in NameRecord /\ n.object = u /\ n.reference = NoObj /\ u # NoObj
  BY EntryFields, OutAssumption DEF NoName
<1>2. /\ names' = [names EXCEPT ![k] = n] /\ held' = [held EXCEPT ![u] = 1, ![r] = 1]
      /\ u # r /\ ~Live(u) /\ ~Live(r) /\ CanLabel
      /\ deleting' = deleting /\ abort' = abort /\ meaning' = meaning
      /\ bound' = FirstNumber(k, nextLabel)
  BY DEF Reserve
<1> HIDE DEF n
<1>3. ASSUME NEW x \in Obj
      PROVE  Links(names, x) + (Same(x, n.object) + Same(x, n.reference))
               <= held'[x] + (Same(x, names[k].object) + Same(x, names[k].reference))
  <2> DEFINE l == Links(names, x)
             h == held[x]
             g == held'[x]
             q == Same(x, names[k].object)
             s == Same(x, names[k].reference)
  <2>1. l \in Nat /\ h \in Nat /\ l <= h /\ Same(x, u) = (IF x = u THEN 1 ELSE 0) /\ Same(x, NoObj) = 0
    BY LinksFacts
  <2>2. q \in Nat /\ s \in Nat
    BY SameType
  <2>3. x = u \/ x = r => l = 0
    BY <1>2, LinksFacts
  <2>4. g = IF x = u \/ x = r THEN 1 ELSE h
    BY <1>2 DEF WriterInv, TypeOK
  <2> HIDE DEF l, h, q, s, g
  <2>5. l + (Same(x, u) + Same(x, NoObj)) <= g + (q + s)
    BY <2>1, <2>2, <2>3, <2>4
  <2>6. QED
    BY <1>1, <2>5 DEF l, q, s, g
<1>4. nextLabel \in AnyLabel
  BY <1>2, OutAssumption DEF WriterInv, TypeOK, CanLabel, AnyLabel
<1>5. /\ deleting' \in BOOLEAN /\ abort' \in {"none", "transfer", "close"}
      /\ bound' \in [Key -> AnyLabel] /\ meaning' \in [Key -> ObjType]
  BY <1>2, <1>4, FirstNumberType DEF TableInv, TableType
<1>6. QED
  BY <1>1, <1>2, <1>3, <1>5, TableMoved DEF WriterInv

LEMMA TableFirst ==
  ASSUME WriterInv, TypeOK', TableInv, NEW k \in Key, NEW r \in Obj, FirstReference(k, r)
  PROVE  TableInv'
<1> DEFINE n == [names[k] EXCEPT !.reference = r]
           o == names[k].object
<1>1. n \in NameRecord /\ n.object = o /\ n.reference = r /\ r # NoObj
  BY EntryFields, OutAssumption DEF NameRecord
<1>2. /\ names' = [names EXCEPT ![k] = n] /\ held' = [held EXCEPT ![r] = 2]
      /\ ~Live(r) /\ names[k].reference = NoObj /\ (heap[o].label # 0 \/ CanLabel)
      /\ deleting' = deleting /\ abort' = abort /\ meaning' = meaning
      /\ bound' = FirstNumber(k, LabelOf(o))
  BY DEF FirstReference
<1>3. o \in Obj
  BY InTable DEF FirstReference, TableInv, NameReachable, WriterInv
<1> HIDE DEF n, o
<1>4. ASSUME NEW x \in Obj
      PROVE  Links(names, x) + (Same(x, n.object) + Same(x, n.reference))
               <= held'[x] + (Same(x, o) + Same(x, names[k].reference))
  <2> DEFINE l == Links(names, x)
             h == held[x]
             g == held'[x]
             q == Same(x, o)
  <2>1. l \in Nat /\ h \in Nat /\ l <= h /\ Same(x, r) = (IF x = r THEN 1 ELSE 0) /\ Same(x, NoObj) = 0
    BY LinksFacts
  <2>2. q \in Nat
    BY SameType
  <2>3. x = r => l = 0
    <3>1. ~Live(r)
      BY <1>2
    <3>2. QED
      BY <3>1, LinksFacts
  <2>4. g = IF x = r THEN 2 ELSE h
    BY <1>2 DEF WriterInv, TypeOK
  <2> HIDE DEF l, h, q, g
  <2>5. l + (q + Same(x, r)) <= g + (q + Same(x, NoObj))
    BY <2>1, <2>2, <2>3, <2>4
  <2>6. names[k].reference = NoObj
    BY <1>2
  <2>7. QED
    BY <1>1, <2>5, <2>6 DEF l, q, g
<1>5. LabelOf(o) \in AnyLabel
  BY <1>2, <1>3, LabelOfType DEF WriterInv
<1>6. /\ deleting' \in BOOLEAN /\ abort' \in {"none", "transfer", "close"}
      /\ bound' \in [Key -> AnyLabel] /\ meaning' \in [Key -> ObjType]
  BY <1>2, <1>5, FirstNumberType DEF TableInv, TableType
<1>7. QED
  BY <1>1, <1>2, <1>4, <1>6, TableMoved DEF WriterInv, o
LEMMA TableAgain ==
  ASSUME WriterInv, TypeOK', TableInv, NEW k \in Key, FirstAlias(k) \/ NextReference(k)
  PROVE  TableInv'
<1>1. CASE FirstAlias(k)
  <2> DEFINE o == names[k].object
             n == [names[k] EXCEPT !.reference = o]
  <2>1. o \in Obj
    BY <1>1, InTable DEF FirstAlias, TableInv, NameReachable, WriterInv
  <2>2. n \in NameRecord /\ n.object = o /\ n.reference = o /\ o # NoObj
    BY <2>1, EntryFields, OutAssumption DEF NameRecord
  <2>3. /\ names' = [names EXCEPT ![k] = n] /\ held' = [held EXCEPT ![o] = @ + 2]
        /\ names[k].reference = NoObj
        /\ deleting' = deleting /\ abort' = abort /\ meaning' = meaning /\ bound' = bound
    BY <1>1 DEF FirstAlias
  <2> HIDE DEF n, o
  <2>4. ASSUME NEW x \in Obj
        PROVE  Links(names, x) + (Same(x, n.object) + Same(x, n.reference))
                 <= held'[x] + (Same(x, o) + Same(x, names[k].reference))
    <3> DEFINE l == Links(names, x)
               h == held[x]
               g == held'[x]
    <3>1. l \in Nat /\ h \in Nat /\ l <= h /\ Same(x, o) = (IF x = o THEN 1 ELSE 0) /\ Same(x, NoObj) = 0
      BY LinksFacts
    <3>2. g = IF x = o THEN h + 2 ELSE h
      BY <2>1, <2>3 DEF WriterInv, TypeOK
    <3> HIDE DEF l, h, g
    <3>3. l + (Same(x, o) + Same(x, o)) <= g + (Same(x, o) + Same(x, NoObj))
      BY <3>1, <3>2
    <3>4. QED
      BY <2>2, <2>3, <3>3 DEF l, g
  <2>5. /\ deleting' \in BOOLEAN /\ abort' \in {"none", "transfer", "close"}
        /\ bound' \in [Key -> AnyLabel] /\ meaning' \in [Key -> ObjType]
    BY <2>3 DEF TableInv, TableType
  <2>6. QED
    BY <2>2, <2>3, <2>4, <2>5, TableMoved DEF WriterInv, o
<1>2. CASE NextReference(k)
  <2> DEFINE r == names[k].reference
  <2>1. r \in Obj /\ held' = [held EXCEPT ![r] = @ + 1] /\ UNCHANGED nameVars
    BY <1>2, InTable DEF NextReference, WriterInv
  <2> HIDE DEF r
  <2>2. ASSUME NEW x \in Obj PROVE Links(names, x) <= held'[x]
    <3> DEFINE l == Links(names, x)
               h == held[x]
               g == held'[x]
    <3>1. l \in Nat /\ h \in Nat /\ l <= h
      BY LinksFacts
    <3>2. g = IF x = r THEN h + 1 ELSE h
      BY <2>1 DEF WriterInv, TypeOK
    <3> HIDE DEF l, h, g
    <3>3. l <= g
      BY <3>1, <3>2
    <3>4. QED
      BY <3>3 DEF l, g
  <2>3. TableType'
    BY <2>1 DEF TableInv, TableType, nameVars
  <2>4. QED
    BY <2>1, <2>2, <2>3, TableSame DEF nameVars
<1>3. QED
  BY <1>1, <1>2

LEMMA TableClosed ==
  ASSUME WriterInv, TypeOK', TableInv, NEW k \in Key, CloseObject(k) PROVE TableInv'
<1>1. CASE CloseReferred(k)
  <2> DEFINE o == names[k].object
             n == [names[k] EXCEPT !.object = NoObj, !.closed = TRUE]
  <2>1. n \in NameRecord /\ n.object = NoObj /\ n.reference = names[k].reference
    BY EntryFields DEF NameRecord
  <2>2. /\ names' = [names EXCEPT ![k] = n] /\ held' = [held EXCEPT ![o] = @ - 1]
        /\ names[k].reference # NoObj
        /\ deleting' = deleting /\ abort' = abort /\ meaning' = meaning /\ bound' = bound
    BY <1>1 DEF CloseReferred
  <2>3. o \in Obj /\ held[o] > 0
    BY <1>1, InTable DEF CloseReferred, WriterInv
  <2> HIDE DEF n, o
  <2>4. ASSUME NEW x \in Obj
        PROVE  Links(names, x) + (Same(x, n.object) + Same(x, n.reference))
                 <= held'[x] + (Same(x, o) + Same(x, names[k].reference))
    <3> DEFINE l == Links(names, x)
               h == held[x]
               g == held'[x]
               s == Same(x, names[k].reference)
    <3>1. l \in Nat /\ h \in Nat /\ l <= h /\ Same(x, NoObj) = 0
      BY LinksFacts
    <3>2. g \in Nat /\ h = g + Same(x, o)
      BY <2>2, <2>3, HeldLess DEF WriterInv
    <3>3. s \in Nat /\ Same(x, o) \in Nat
      BY SameType
    <3> HIDE DEF l, h, g, s
    <3>4. l + (Same(x, NoObj) + s) <= g + (Same(x, o) + s)
      BY <3>1, <3>2, <3>3
    <3>5. QED
      BY <2>1, <3>4 DEF l, g, s
  <2>5. /\ deleting' \in BOOLEAN /\ abort' \in {"none", "transfer", "close"}
        /\ bound' \in [Key -> AnyLabel] /\ meaning' \in [Key -> ObjType]
    BY <2>2 DEF TableInv, TableType
  <2>6. QED
    BY <2>1, <2>2, <2>4, <2>5, TableMoved DEF WriterInv, o
<1>2. CASE CloseUnreferred(k)
  <2> DEFINE n == [names[k] EXCEPT !.closed = TRUE]
  <2>1. n \in NameRecord /\ n.object = names[k].object /\ n.reference = names[k].reference
    BY EntryFields DEF NameRecord
  <2>2. /\ names' = [names EXCEPT ![k] = n] /\ held' = held /\ n.object # NoObj
        /\ deleting' = deleting /\ abort' = abort /\ meaning' = meaning /\ bound' = bound
    BY <1>2, <2>1 DEF CloseUnreferred, vars
  <2> HIDE DEF n
  <2>3. ASSUME NEW x \in Obj
        PROVE  Links(names, x) + (Same(x, n.object) + Same(x, n.reference))
                 <= held'[x] + (Same(x, names[k].object) + Same(x, names[k].reference))
    <3> DEFINE l == Links(names, x)
               h == held[x]
               q == Same(x, names[k].object)
               s == Same(x, names[k].reference)
    <3>1. l \in Nat /\ h \in Nat /\ l <= h /\ q \in Nat /\ s \in Nat
      BY LinksFacts, SameType
    <3> HIDE DEF l, h, q, s
    <3>2. l + (q + s) <= h + (q + s)
      BY <3>1
    <3>3. QED
      BY <2>1, <2>2, <3>2 DEF l, h, q, s
  <2>4. /\ deleting' \in BOOLEAN /\ abort' \in {"none", "transfer", "close"}
        /\ bound' \in [Key -> AnyLabel] /\ meaning' \in [Key -> ObjType]
    BY <2>2 DEF TableInv, TableType
  <2>5. QED
    BY <2>1, <2>2, <2>3, <2>4, TableMoved DEF WriterInv
<1>3. CASE CloseAborts(k)
  <2>1. names' = names /\ held' = held /\ TableType'
    BY <1>3 DEF CloseAborts, vars, TableInv, TableType
  <2>2. QED
    BY <2>1, TableSame DEF TableInv
<1>4. QED
  BY <1>1, <1>2, <1>3 DEF CloseObject

LEMMA TableNull ==
  ASSUME WriterInv, TypeOK', TableInv, NEW k \in Key, NEW o \in Obj, DefineNull(k, o) PROVE TableInv'
<1> DEFINE u == names[k].object
           n == [names[k] EXCEPT !.object = o]
<1>1. n \in NameRecord /\ n.object = o /\ n.reference = names[k].reference /\ o # NoObj
  BY EntryFields, OutAssumption DEF NameRecord
<1>2. /\ names' = [names EXCEPT ![k] = n] /\ held' = [held EXCEPT ![o] = 1, ![u] = @ - 1]
      /\ ~Live(o)
      /\ deleting' = deleting /\ abort' = abort /\ bound' = bound
      /\ meaning' = [meaning EXCEPT ![k] = "null"]
  BY DEF DefineNull
<1>3. u \in Obj /\ held[u] > 0
  BY InTable DEF DefineNull, Placeholder, WriterInv
<1> HIDE DEF n, u
<1>4. u # o /\ held \in [Obj -> Nat]
  <2>1. held[o] = 0
    BY <1>2, CountZeroDead DEF WriterInv
  <2>2. QED
    BY <1>3, <2>1 DEF WriterInv, TypeOK
<1>5. ASSUME NEW x \in Obj
      PROVE  Links(names, x) + (Same(x, n.object) + Same(x, n.reference))
               <= held'[x] + (Same(x, u) + Same(x, names[k].reference))
  <2> DEFINE l == Links(names, x)
             h == held[x]
             g == held'[x]
             s == Same(x, names[k].reference)
  <2>1. /\ l \in Nat /\ h \in Nat /\ l <= h
        /\ Same(x, u) = (IF x = u THEN 1 ELSE 0) /\ Same(x, o) = (IF x = o THEN 1 ELSE 0)
    BY LinksFacts
  <2>2. g = IF x = o THEN 1 ELSE IF x = u THEN h - 1 ELSE h
    BY <1>2, <1>3, <1>4
  <2>3. x = o => l = 0
    <3>1. ~Live(o)
      BY <1>2
    <3>2. QED
      BY <3>1, LinksFacts
  <2>4. s \in Nat
    BY SameType
  <2> HIDE DEF l, h, g, s
  <2>5. l + (Same(x, o) + s) <= g + (Same(x, u) + s)
    BY <1>4, <2>1, <2>2, <2>3, <2>4
  <2>6. QED
    BY <1>1, <2>5 DEF l, g, s
<1>6. /\ deleting' \in BOOLEAN /\ abort' \in {"none", "transfer", "close"}
      /\ bound' \in [Key -> AnyLabel] /\ meaning' \in [Key -> ObjType]
  BY <1>2 DEF TableInv, TableType, ObjType, LeafTypes
<1>7. QED
  BY <1>1, <1>2, <1>5, <1>6, TableMoved DEF WriterInv, u

LEMMA TableFreed ==
  ASSUME WriterInv, TypeOK', TableInv, NEW k \in Key, FreeName(k) PROVE TableInv'
<1>1. NoName \in NameRecord /\ NoName.object = NoObj /\ NoName.reference = NoObj /\ ~NoName.used
  BY EntryFields DEF NoName
<1>2. /\ names' = [names EXCEPT ![k] = NoName]
      /\ deleting' = deleting /\ abort' = abort /\ bound' = bound /\ meaning' = meaning
  BY DEF FreeName
<1>3. ASSUME NEW x \in Obj
      PROVE  Links(names, x) + (Same(x, NoName.object) + Same(x, NoName.reference))
               <= held'[x] + (Same(x, names[k].object) + Same(x, names[k].reference))
  <2> DEFINE l == Links(names, x)
             h == held[x]
             g == held'[x]
             q == Same(x, names[k].object) + Same(x, names[k].reference)
  <2>1. l \in Nat /\ h \in Nat /\ l <= h /\ Same(x, NoObj) = 0
    BY LinksFacts
  <2>2. h = g + q
    BY HeldFreed DEF WriterInv
  <2> HIDE DEF l, h, g, q
  <2>3. l + (Same(x, NoObj) + Same(x, NoObj)) <= g + q
    BY <2>1, <2>2
  <2>4. QED
    BY <1>1, <2>3 DEF l, g, q
<1>4. /\ deleting' \in BOOLEAN /\ abort' \in {"none", "transfer", "close"}
      /\ bound' \in [Key -> AnyLabel] /\ meaning' \in [Key -> ObjType]
  BY <1>2 DEF TableInv, TableType
<1>5. QED
  BY <1>1, <1>2, <1>3, <1>4, TableMoved DEF WriterInv
\* Steps that leave the table alone.
LEMMA TableElse ==
  ASSUME WriterInv, TypeOK', TableInv,
         \/ \E k \in Key : ReferenceFails(k) \/ \E o \in Obj : Put(k, o)
         \/ \E o \in Obj : GiveBack(o)
         \/ BeginDelete \/ SpecialStep \/ WriterStep
  PROVE  TableInv'
<1>1. ASSUME names' = names, held' = held, TableType' PROVE TableInv'
  BY <1>1, TableSame DEF TableInv
<1>2. ASSUME UNCHANGED nameVars PROVE names' = names /\ TableType'
  BY <1>2 DEF nameVars, TableInv, TableType
<1>3. ASSUME NEW o \in Obj, ~Live(o), held' = [held EXCEPT ![o] = 1], UNCHANGED nameVars
      PROVE  TableInv'
  <2>1. ASSUME NEW x \in Obj PROVE Links(names, x) <= held'[x]
    <3> DEFINE l == Links(names, x)
               h == held[x]
               g == held'[x]
    <3>1. l \in Nat /\ h \in Nat /\ l <= h
      BY LinksFacts
    <3>2. x = o => l = 0
      BY <1>3, LinksFacts
    <3>3. g = IF x = o THEN 1 ELSE h
      BY <1>3 DEF WriterInv, TypeOK
    <3> HIDE DEF l, h, g
    <3>4. l <= g
      BY <3>1, <3>2, <3>3
    <3>5. QED
      BY <3>4 DEF l, g
  <2>2. QED
    BY <1>2, <1>3, <2>1, TableSame
<1>4. ASSUME NEW k \in Key, ReferenceFails(k) PROVE TableInv'
  BY <1>1, <1>2, <1>4 DEF ReferenceFails
<1>5. ASSUME NEW k \in Key, NEW o \in Obj, Put(k, o) PROVE TableInv'
  BY <1>5, TableGiven DEF Put, AddKid, WriterInv
<1>6. ASSUME NEW o \in Obj, GiveBack(o) PROVE TableInv'
  BY <1>6, TableGiven DEF GiveBack, Release, WriterInv
<1>7. CASE BeginDelete
  <2>1. names' = names /\ held' = held /\ TableType'
    BY <1>7 DEF BeginDelete, vars, TableInv, TableType
  <2>2. QED
    BY <1>1, <2>1
<1>8. CASE SpecialStep
  BY <1>3, <1>8 DEF SpecialStep, Alloc, Ref
<1>9. CASE WriterStep
  <2>1. ASSUME NEW c \in Obj, OutOpen(c) PROVE TableInv'
    <3>1. ~Live(c)
      BY <2>1 DEF OutOpen, WriterInv, CountInv
    <3>2. QED
      BY <1>3, <1>9, <2>1, <3>1 DEF OutOpen, WriterStep
  <2>2. CASE ReleaseStep
    BY <1>1, <1>2, <1>9, <2>2
       DEF WriterStep, ReleaseStep, ReleaseShared, ReleaseUnlabelled, ReleaseToFile, ReleaseToObjStm,
           ReleaseFails
  <2>3. CASE OutFlush
    BY <1>1, <1>2, <1>9, <2>3 DEF WriterStep, OutFlush, OutFlushTable, OutFlushStream, OutFlushFails
  <2>4. QED
    BY <1>9, <2>1, <2>2, <2>3 DEF WriterStep
<1>10. QED
  BY <1>4, <1>5, <1>6, <1>7, <1>8, <1>9

LEMMA TableStepKept == ASSUME WriterInv, TypeOK', TableInv, NamesNext PROVE TableInv'
<1>1. ASSUME NEW k \in Key, LookupReference(k) PROVE TableInv'
  BY <1>1, TableReserved, TableFirst, TableAgain, TableElse DEF LookupReference
<1>2. ASSUME NEW k \in Key, CloseObject(k) \/ FreeName(k) PROVE TableInv'
  BY <1>2, TableClosed, TableFreed
<1>3. ASSUME NEW k \in Key, NEW o \in Obj, AddObject(k, o) \/ DefineNull(k, o) PROVE TableInv'
  BY <1>3, TableDefined, TableNull
<1>4. QED
  BY <1>1, <1>2, <1>3, TableElse DEF NamesNext

LEMMA NamesStepKept ==
  ASSUME WriterInv, TableInv, [NamesNext]_<< vars, nameVars >> PROVE WriterInv' /\ TableInv'
<1>1. CASE NamesNext
  <2>1. WriterInv'
    BY <1>1, WriterStepKept
  <2>2. QED
    BY <1>1, <2>1, TableStepKept DEF WriterInv
<1>2. CASE UNCHANGED << vars, nameVars >>
  <2>1. WriterInv'
    BY <1>2, WriterKept
  <2>2. names' = names /\ held' = held /\ TableType'
    BY <1>2 DEF vars, nameVars, TableInv, TableType
  <2>3. QED
    BY <2>1, <2>2, TableSame DEF TableInv
<1>3. QED
  BY <1>1, <1>2

LEMMA NamesInitInv == NamesInit => WriterInv /\ TableInv
<1> SUFFICES ASSUME NamesInit PROVE WriterInv /\ TableInv
  OBVIOUS
<1>1. Init /\ names = [k \in Key |-> NoName] /\ held = [o \in Obj |-> 0]
  BY DEF NamesInit, Init
<1>2. TypeOK /\ LabelInv /\ CountInv
  BY <1>1, TypeInit, LabelInit, CountInit
<1>3. ClosedInv /\ FreeListExact
  BY <1>1 DEF Init, ClosedInv, FreeListExact, NoStm
<1>4. TableType
  <2>1. NoName \in NameRecord /\ 0 \in AnyLabel
    BY LabelRange DEF NoName, NameRecord
  <2>2. QED
    BY <2>1 DEF NamesInit, TableType, ObjType
<1>5. ASSUME NEW x \in Obj PROVE Links(names, x) <= held[x]
  <2>1. Objects(names, x) = {} /\ References(names, x) = {}
    BY <1>1, OutAssumption DEF Objects, References, NoName
  <2>2. Links(names, x) = 0
    BY <2>1, FS_EmptySet DEF Links
  <2>3. QED
    BY <1>1, <2>2
<1>6. NameReachable
  BY <1>1 DEF NameReachable, NoName
<1>7. QED
  BY <1>2, <1>3, <1>4, <1>5, <1>6 DEF WriterInv, TableInv

LEMMA NamesInvCorrect == NamesSpec => [](WriterInv /\ TableInv)
<1>1. (WriterInv /\ TableInv) /\ [NamesNext]_<< vars, nameVars >> => (WriterInv /\ TableInv)'
  BY NamesStepKept
<1>2. QED
  BY NamesInitInv, <1>1, PTL DEF NamesSpec

\* The table and the writer keep their types.
THEOREM NamesTypeCorrect == NamesSpec => []NamesTypeOK
<1>1. WriterInv /\ TableInv => NamesTypeOK
  BY DEF WriterInv, TableInv, TableType, NamesTypeOK, NameRecord, AnyLabel
<1>2. QED
  BY NamesInvCorrect, <1>1, PTL

\* value->reference or value->object of every entry is there: whatever mix of
\* definitions, closes and forward references has happened,
\* pdf_names_lookup_reference never dereferences NULL.
THEOREM NameReachableCorrect == NamesSpec => []NameReachable
<1>1. WriterInv /\ TableInv => NameReachable
  BY DEF TableInv
<1>2. QED
  BY NamesInvCorrect, <1>1, PTL

\* The labels of the writer stay accounted for, and its free list exact, when
\* pdf_transfer_label moves a label from a placeholder to its definition and
\* when check_objects_defined gives it to null.
THEOREM NamesAccountedCorrect == NamesSpec => []NamesLabelsAccounted
<1>1. WriterInv /\ TableInv => NamesLabelsAccounted
  BY InvUnique, InvFindable, InvNoOrphans DEF WriterInv, NamesLabelsAccounted, LabelsAccounted
<1>2. QED
  BY NamesInvCorrect, <1>1, PTL
=============================================================================
