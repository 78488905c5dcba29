-------------------------- MODULE NameBindingProofs --------------------------
(***************************************************************************)
(* The table of named objects implements what it promises (NameBinding):    *)
(* the number a name was first referred to by is where its first            *)
(* definition ends up in the file, or null if it never got one.             *)
(***************************************************************************)
EXTENDS PdfNamesProofs

(***************************************************************************)
(* What the file holds under a number that has an entry never changes, and  *)
(* is no placeholder.                                                       *)
(***************************************************************************)
Prefix(ms, ns) == \A i \in DOMAIN ms : i \in DOMAIN ns /\ ns[i] = ms[i]

LEMMA GrownAt ==
  ASSUME NEW f \in Seq(EntryRecord), NEW g \in Seq(EntryRecord), Grown(f, g), NEW p \in DOMAIN f
  PROVE  g[p] = f[p]
<1>1. f = SubSeq(g, 1, Len(f)) /\ p \in 1 .. Len(f) /\ Len(f) \in Nat
  BY DEF Grown
<1>2. SubSeq(g, 1, Len(f))[p] = g[p]
  BY <1>1
<1>3. QED
  BY <1>1, <1>2

\* The stream an object is added to.
LEMMA StmGrown ==
  ASSUME TypeOK, NEW o \in Obj, heap[o].label # 0, stm.label # 0 \/ CanLabel
  PROVE  /\ OpenStm.members \in Seq(MemberRecord)
         /\ StmWith(o).members \in Seq(MemberRecord)
         /\ Len(StmWith(o).members) = Len(OpenStm.members) + 1
         /\ StmWith(o).members[Len(StmWith(o).members)].type = heap[o].type
         /\ Prefix(OpenStm.members, StmWith(o).members)
         /\ stm.label # 0 => StmWith(o).label = stm.label /\ OpenStm = stm
         /\ stm.label = 0 => OpenStm.members = << >>
         /\ \A i \in DOMAIN StmWith(o).members :
              \/ i \in DOMAIN OpenStm.members /\ StmWith(o).members[i] = OpenStm.members[i]
              \/ StmWith(o).members[i].type = heap[o].type
<1> DEFINE m == Member(heap[o].label, heap[o].type, FALSE)
           ms == OpenStm.members
           ns == StmWith(o).members
<1>1. m \in MemberRecord /\ m.type = heap[o].type
  <2>1. heap[o].label \in Label /\ heap[o].type \in ObjType
    BY ObjFields
  <2>2. QED
    BY <2>1, MemberType DEF Member
<1>2. ns = Append(ms, m) /\ ms \in Seq(MemberRecord) /\ ns \in Seq(MemberRecord)
  BY TypeStm
<1>3. stm.label # 0 => StmWith(o).label = stm.label /\ OpenStm = stm
  BY TypeStm DEF OpenStm
<1>4. stm.label = 0 => OpenStm.members = << >>
  BY DEF OpenStm, NoStm
<1> HIDE DEF m, ms, ns
<1>5. /\ Len(ns) = Len(ms) + 1 /\ ns[Len(ns)] = m
      /\ \A i \in DOMAIN ms : i \in DOMAIN ns /\ ns[i] = ms[i]
      /\ \A i \in DOMAIN ns : (i \in DOMAIN ms /\ ns[i] = ms[i]) \/ ns[i] = m
  BY <1>1, <1>2
<1>6. QED
  BY <1>1, <1>2, <1>3, <1>4, <1>5 DEF ms, ns, Prefix

\* The members of the current stream stay what and where they are.
LEMMA StmKept ==
  ASSUME TypeOK, LabelInv, [Next]_vars, stm.label # 0
  PROVE  \/ stm'.label = stm.label /\ Prefix(stm.members, stm'.members)
         \/ /\ stm'.label # stm.label /\ xref'[stm.label].kind = "file"
            /\ Prefix(stm.members, file'[xref'[stm.label].pos].members)
<1>1. stm.label \in Label /\ NoStm.label = 0 /\ xref \in [Label -> XrefRecord] /\ file \in Seq(EntryRecord)
  BY NoEntry, OutAssumption DEF NoStm, StmRecord, AnyLabel, Label
<1>2. CASE UNCHANGED stm
  BY <1>2 DEF Prefix
<1>3. ASSUME NEW o \in Obj, ReleaseToObjStm(o)
      PROVE  \/ stm'.label = stm.label /\ Prefix(stm.members, stm'.members)
             \/ /\ stm'.label # stm.label /\ xref'[stm.label].kind = "file"
                /\ Prefix(stm.members, file'[xref'[stm.label].pos].members)
  <2> DEFINE s == StmWith(o)
             l == heap[o].label
             x == [xref EXCEPT ![l] = InStm(s.label, Len(s.members) - 1)]
             e == Entry(s.label, "stream", Encrypt, s.members)
             q == Len(file) + 1
  <2>1. /\ l # 0
        /\ \/ /\ stm' = NoStm /\ file' = Append(file, e) /\ xref' = [x EXCEPT ![s.label] = InFile(q)]
           \/ stm' = s
    BY <1>3 DEF ReleaseToObjStm, LastLabelled, FileWithStm
  <2>2. s.label = stm.label /\ Prefix(stm.members, s.members)
    BY <2>1, StmGrown
  <2>3. e.members = s.members
    BY DEF Entry
  <2>4. DOMAIN x = Label
    BY <1>1
  <2> HIDE DEF s, l, x, e
  <2>5. CASE /\ stm' = NoStm /\ file' = Append(file, e) /\ xref' = [x EXCEPT ![s.label] = InFile(q)]
    <3>1. xref'[stm.label] = InFile(q) /\ q \in Nat /\ file'[q] = e
      BY <1>1, <2>2, <2>4, <2>5
    <3>2. InFile(q).kind = "file" /\ InFile(q).pos = q
      BY Kinds3
    <3>3. QED
      BY <1>1, <2>2, <2>3, <2>5, <3>1, <3>2
  <2>6. QED
    BY <2>1, <2>2, <2>5
<1>4. CASE OutFlush /\ stm' # stm
  <2> DEFINE e == Entry(stm.label, "stream", Encrypt, stm.members)
             q == Len(file) + 1
             d == Entry(nextLabel, "xref", FALSE, << >>)
  <2>1. /\ stm' = NoStm /\ FlushedFile = Append(file, e) /\ FlushedXref = [xref EXCEPT ![stm.label] = InFile(q)]
        /\ \/ file' = FlushedFile /\ xref' = FlushedXref
           \/ /\ file' = Append(FlushedFile, d)
              /\ xref' = [FlushedXref EXCEPT ![nextLabel] = InFile(Len(FlushedFile) + 1)]
    BY <1>4 DEF OutFlush, OutFlushTable, OutFlushStream, OutFlushFails, FlushedFile, FlushedXref, FileWithStm
  <2>2. stm.label # nextLabel
    BY DEF LabelInv, Accounted, Unwritten, TypeOK
  <2>3. e.members = stm.members
    BY DEF Entry
  <2> HIDE DEF e, d
  <2>4. Len(FlushedFile) + 1 # q /\ FlushedFile[q] = e /\ q \in Nat /\ q \in 1 .. Len(FlushedFile)
    BY <1>1, <2>1
  <2>5. xref'[stm.label] = InFile(q) /\ file'[q] = e
    BY <1>1, <2>1, <2>2, <2>4
  <2>6. InFile(q).kind = "file" /\ InFile(q).pos = q
    BY Kinds3
  <2>7. QED
    BY <1>1, <2>1, <2>3, <2>5, <2>6 DEF Prefix
<1>5. UNCHANGED stm \/ (\E o \in Obj : ReleaseToObjStm(o)) \/ OutFlush
  <2>1. ASSUME NEW c \in Obj, OutOpen(c) PROVE UNCHANGED stm
    BY <2>1 DEF OutOpen
  <2>2. CASE CallerStep
    BY <2>2 DEF CallerStep, outVars, Alloc, Link, Ref, RefFails, AddKid, ReplaceKid, RemoveKid, SetInfo, Release
  <2>3. CASE ReleaseStep
    BY <2>3 DEF ReleaseStep, outVars, ReleaseShared, ReleaseUnlabelled, ReleaseToFile, ReleaseFails
  <2>4. CASE UNCHANGED vars
    BY <2>4 DEF vars, outVars
  <2>5. QED
    BY <2>1, <2>2, <2>3, <2>4 DEF Next
<1>6. QED
  BY <1>2, <1>3, <1>4, <1>5

LEMMA PrintedKept ==
  ASSUME TypeOK, TypeOK', LabelInv, LabelInv', [Next]_vars, NEW l \in Label, xref[l] # Unset
  PROVE  xref'[l] = xref[l] /\ Printed(l)' = Printed(l)
<1>1. \A k \in Label : xref[k] # Unset => xref'[k] = xref[k] /\ LocatedIn(k, xref, stm, file)
  BY OnceStep DEF Kept, LabelInv, Accounted, Written
<1>2. xref'[l] = xref[l] /\ LocatedIn(l, xref, stm, file) /\ l # 0
  BY <1>1, OutAssumption DEF Label
<1>3. \A p \in DOMAIN file : file'[p] = file[p]
  BY OnceStep, GrownAt, NoEntry DEF TypeOK
<1>4. CASE xref[l].kind = "file"
  BY <1>2, <1>3, <1>4 DEF Printed, LocatedIn
<1>5. CASE xref[l].kind = "stm"
  <2> DEFINE m == xref[l].pos
             i == xref[l].idx
  <2>1. m \in Label /\ m # 0
    BY <1>2, <1>5, OutAssumption DEF LocatedIn, Label
  <2>2. CASE stm.label = m
    <3>1. xref[m] = Unset
      BY <2>1, <2>2 DEF LabelInv, Accounted, Unwritten
    <3>2. i + 1 \in DOMAIN stm.members
      BY <1>2, <1>5, <2>2, <3>1 DEF LocatedIn, MemberAt, Unset
    <3>3. Printed(l) = stm.members[i + 1].type
      BY <1>2, <1>5, <2>2 DEF Printed
    <3>4. \/ stm'.label = m /\ stm'.members[i + 1] = stm.members[i + 1]
          \/ stm'.label # m /\ file'[xref'[m].pos].members[i + 1] = stm.members[i + 1]
      BY <2>1, <2>2, <3>2, StmKept DEF Prefix
    <3>5. QED
      BY <1>2, <1>5, <3>3, <3>4 DEF Printed
  <2>3. CASE stm.label # m
    <3>1. xref[m].kind = "file"
      BY <1>2, <1>5, <2>3 DEF LocatedIn
    <3>2. xref[m] # Unset
      BY <3>1 DEF Unset
    <3>3. xref'[m] = xref[m] /\ xref[m].pos \in DOMAIN file
      BY <1>1, <2>1, <3>1, <3>2 DEF LocatedIn
    <3>4. stm'.label # m
      BY <2>1, <3>2, <3>3 DEF LabelInv, Accounted, Unwritten
    <3>5. Printed(l) = file[xref[m].pos].members[i + 1].type
      BY <1>2, <1>5, <2>3 DEF Printed
    <3>6. Printed(l)' = file'[xref'[m].pos].members[i + 1].type
      BY <1>2, <1>5, <3>4 DEF Printed
    <3>7. QED
      BY <1>2, <1>3, <3>3, <3>5, <3>6
  <2>4. QED
    BY <2>2, <2>3
<1>6. QED
  BY <1>2, <1>4, <1>5 DEF LocatedIn
\* An object is found under its label as soon as it is written.
LEMMA WroteToFile ==
  ASSUME TypeOK, LabelInv, NEW o \in Obj, ReleaseToFile(o), NEW l, l = heap[o].label
  PROVE  /\ l \in Label /\ heap[o].type \notin {"none", "undefined"}
         /\ Printed(l)' = heap[o].type
         /\ \A k \in Label : k # l => xref'[k] = xref[k]
<1> DEFINE e == Entry(l, heap[o].type, Encrypt, << >>)
           q == Len(file) + 1
<1>1. /\ l # 0 /\ heap[o].type # "undefined"
      /\ file' = Append(file, e) /\ xref' = [xref EXCEPT ![l] = InFile(q)]
  BY DEF ReleaseToFile, LastLabelled
<1>2. l \in Label /\ xref \in [Label -> XrefRecord] /\ file \in Seq(EntryRecord)
  BY <1>1, ObjFields, NoEntry
<1>3. heap[o].type # "none"
  BY <1>1 DEF LabelInv, Live
<1>4. e.type = heap[o].type
  BY DEF Entry
<1> HIDE DEF e
<1>5. file'[q] = e /\ xref'[l] = InFile(q) /\ \A k \in Label : k # l => xref'[k] = xref[k]
  BY <1>1, <1>2
<1>6. Printed(l)' = heap[o].type
  <2>1. xref'[l].kind = "file" /\ xref'[l].pos = q
    BY <1>5, Kinds3
  <2>2. Printed(l)' = file'[q].type
    BY <1>1, <2>1 DEF Printed
  <2>3. QED
    BY <1>4, <1>5, <2>2
<1>7. QED
  BY <1>1, <1>2, <1>3, <1>5, <1>6

LEMMA WroteToObjStm ==
  ASSUME TypeOK, LabelInv, NEW o \in Obj, ReleaseToObjStm(o), NEW l, l = heap[o].label
  PROVE  /\ l \in Label /\ heap[o].type \notin {"none", "undefined"}
         /\ Printed(l)' = heap[o].type
         /\ \A k \in Label : k # l /\ k # stm.label /\ k < nextLabel => xref'[k] = xref[k]
<1> DEFINE s == StmWith(o)
           n == Len(s.members)
           x == [xref EXCEPT ![l] = InStm(s.label, n - 1)]
           e == Entry(s.label, "stream", Encrypt, s.members)
           q == Len(file) + 1
<1>1. /\ l # 0 /\ heap[o].type # "undefined" /\ (stm.label # 0 \/ CanLabel)
      /\ \/ stm' = NoStm /\ file' = Append(file, e) /\ xref' = [x EXCEPT ![s.label] = InFile(q)]
         \/ stm' = s /\ xref' = x
  BY DEF ReleaseToObjStm, LastLabelled, FileWithStm
<1>2. l \in Label /\ xref \in [Label -> XrefRecord] /\ file \in Seq(EntryRecord)
  BY <1>1, ObjFields, NoEntry
<1>3. heap[o].type # "none"
  BY <1>1 DEF LabelInv, Live
<1>4. e.members = s.members
  BY DEF Entry
<1>5. /\ n \in Nat /\ s.members[n].type = heap[o].type
      /\ s.label \in Label /\ s.label # 0 /\ s.label = (IF stm.label = 0 THEN nextLabel ELSE stm.label)
  <2>1. n \in Nat /\ s.members[n].type = heap[o].type
    BY <1>1, StmGrown
  <2>2. s.label \in Label /\ s.label = IF stm.label = 0 THEN nextLabel ELSE stm.label
    BY <1>1, TypeStm
  <2>3. QED
    BY <2>1, <2>2, OutAssumption DEF Label
<1>6. l # s.label
  <2>1. l = Labels[o] /\ l < nextLabel /\ l # stm.label
    BY <1>1 DEF Labels, LabelInv, Accounted, Unwritten
  <2>2. nextLabel \in Nat
    BY DEF TypeOK
  <2>3. QED
    BY <1>2, <1>5, <2>1, <2>2 DEF Label
<1>7. NoStm.label = 0 /\ DOMAIN x = Label
  BY <1>2 DEF NoStm
<1>8. x[l] = InStm(s.label, n - 1) /\ \A k \in Label : k # l => x[k] = xref[k]
  BY <1>2
<1> HIDE DEF s, x, e, n, q
<1>9. xref'[l] = InStm(s.label, n - 1) /\ xref'[l].pos = s.label /\ xref'[l].idx = n - 1
  BY <1>1, <1>2, <1>6, <1>7, <1>8, Kinds3
<1>10. \A k \in Label : k # l /\ k # s.label => xref'[k] = xref[k]
  BY <1>1, <1>7, <1>8
<1>11. Printed(l)' = heap[o].type
  <2>1. xref'[l].kind = "stm" /\ (n - 1) + 1 = n
    BY <1>5, <1>9, Kinds3
  <2>2. CASE stm' = s
    BY <1>1, <1>5, <1>9, <2>1, <2>2 DEF Printed
  <2>3. CASE stm' = NoStm /\ file' = Append(file, e) /\ xref' = [x EXCEPT ![s.label] = InFile(q)]
    <3>1. xref'[s.label] = InFile(q) /\ InFile(q).pos = q
      BY <1>5, <1>7, <2>3, Kinds3
    <3>2. file'[q] = e
      BY <1>2, <2>3 DEF q
    <3>3. stm'.label # s.label
      BY <1>5, <1>7, <2>3
    <3>4. QED
      BY <1>1, <1>4, <1>5, <1>9, <2>1, <3>1, <3>2, <3>3 DEF Printed
  <2>4. QED
    BY <1>1, <2>2, <2>3
<1>12. \A k \in Label : k # l /\ k # stm.label /\ k < nextLabel => xref'[k] = xref[k]
  BY <1>5, <1>10 DEF TypeOK
<1>13. QED
  BY <1>1, <1>2, <1>3, <1>11, <1>12

\* Nothing else gets an entry, but streams and numbers handed out in the step.
LEMMA WroteElse ==
  ASSUME TypeOK, LabelInv, [Next]_vars, \A o \in Obj : ~ReleaseToFile(o) /\ ~ReleaseToObjStm(o),
         NEW l \in Label, l < nextLabel, l # stm.label
  PROVE  xref'[l] = xref[l]
<1>1. xref \in [Label -> XrefRecord] /\ nextLabel \in Nat
  BY NoEntry DEF TypeOK
<1>2. ASSUME NEW c \in Obj, OutOpen(c) PROVE xref'[l] = xref[l]
  BY <1>1, <1>2 DEF OutOpen, LabelInv, Label
<1>3. CASE CallerStep
  BY <1>3 DEF CallerStep, outVars, Alloc, Link, Ref, RefFails, AddKid, ReplaceKid, RemoveKid, SetInfo, Release
<1>4. CASE ReleaseStep
  BY <1>4 DEF ReleaseStep, outVars, ReleaseShared, ReleaseUnlabelled, ReleaseFails
<1>5. CASE OutFlush
  <2>1. FlushedXref \in [Label -> XrefRecord] /\ FlushedXref[l] = xref[l]
    BY <1>1, TypeFlushed DEF FlushedXref
  <2>2. l # nextLabel
    BY <1>1 DEF Label
  <2>3. xref' = xref \/ xref' = FlushedXref
          \/ xref' = [FlushedXref EXCEPT ![nextLabel] = InFile(Len(FlushedFile) + 1)]
    BY <1>5 DEF OutFlush, OutFlushTable, OutFlushStream, OutFlushFails
  <2>4. QED
    BY <2>1, <2>2, <2>3
<1>6. CASE UNCHANGED vars
  BY <1>6 DEF vars, outVars
<1>7. QED
  BY <1>2, <1>3, <1>4, <1>5, <1>6 DEF Next

(***************************************************************************)
(* No placeholder and no freed object is in the file.                       *)
(***************************************************************************)
Filed(ms) == \A i \in DOMAIN ms : ms[i].type \notin {"none", "undefined"}
FiledIn(f) == \A p \in DOMAIN f : f[p].type \notin {"none", "undefined"} /\ Filed(f[p].members)
FiledInv == FiledIn(file) /\ Filed(stm.members)

LEMMA FiledAppend ==
  ASSUME NEW f \in Seq(EntryRecord), FiledIn(f), NEW e \in EntryRecord,
         e.type \notin {"none", "undefined"}, Filed(e.members)
  PROVE  FiledIn(Append(f, e))
<1>1. \A p \in DOMAIN Append(f, e) : Append(f, e)[p] = e \/ (p \in DOMAIN f /\ Append(f, e)[p] = f[p])
  OBVIOUS
<1>2. QED
  BY <1>1 DEF FiledIn

LEMMA FiledEntry ==
  ASSUME NEW l \in Label, NEW t \in ObjType \cup {"xref"}, t \notin {"none", "undefined"},
         NEW c \in BOOLEAN, NEW ms \in Seq(MemberRecord), Filed(ms)
  PROVE  LET e == Entry(l, t, c, ms)
         IN  e \in EntryRecord /\ e.type \notin {"none", "undefined"} /\ Filed(e.members)
<1>1. Entry(l, t, c, ms) \in EntryRecord
  BY EntryType
<1>2. QED
  BY <1>1 DEF Entry

LEMMA FiledStm ==
  ASSUME TypeOK, FiledIn(file), NEW s \in StmRecord, s.label \in Label, Filed(s.members)
  PROVE  FiledIn(FileWithStm(s)) /\ FileWithStm(s) \in Seq(EntryRecord)
<1>1. "stream" \in ObjType \cup {"xref"} /\ "stream" \notin {"none", "undefined"} /\ Encrypt \in BOOLEAN
  BY OutAssumption DEF ObjType, Containers
<1>2. s.members \in Seq(MemberRecord) /\ file \in Seq(EntryRecord)
  BY DEF StmRecord, TypeOK
<1> DEFINE e == Entry(s.label, "stream", Encrypt, s.members)
<1>3. e \in EntryRecord /\ e.type \notin {"none", "undefined"} /\ Filed(e.members)
  BY <1>1, <1>2, FiledEntry
<1> HIDE DEF e
<1>4. FiledIn(Append(file, e)) /\ Append(file, e) \in Seq(EntryRecord)
  BY <1>2, <1>3, FiledAppend
<1>5. QED
  BY <1>4 DEF FileWithStm, e

LEMMA FiledFlush ==
  ASSUME TypeOK, FiledInv, OutFlush PROVE FiledInv'
<1>1. Filed(NoStm.members) /\ Filed(<< >>) /\ << >> \in Seq(MemberRecord)
  BY DEF Filed, NoStm
<1>2. stm \in StmRecord /\ file \in Seq(EntryRecord) /\ (stm.label # 0 => stm.label \in Label)
  BY OutAssumption DEF TypeOK, StmRecord, AnyLabel, Label
<1>3. FiledIn(FlushedFile) /\ FlushedFile \in Seq(EntryRecord)
  <2>1. CASE stm.label = 0
    BY <1>2, <2>1 DEF FlushedFile, FiledInv
  <2>2. CASE stm.label # 0
    BY <1>2, <2>2, FiledStm DEF FlushedFile, FiledInv
  <2>3. QED
    BY <2>1, <2>2
<1>4. CASE OutFlushTable
  BY <1>4 DEF OutFlushTable, FiledInv
<1>5. CASE OutFlushFails
  BY <1>1, <1>3, <1>5 DEF OutFlushFails, FiledInv
<1>6. CASE OutFlushStream
  <2> DEFINE e == Entry(nextLabel, "xref", FALSE, << >>)
  <2>1. nextLabel \in Label /\ stm' = NoStm /\ file' = Append(FlushedFile, e)
    <3>1. nextLabel < MaxLabel /\ stm' = NoStm /\ file' = Append(FlushedFile, e)
      BY <1>6 DEF OutFlushStream, CanLabel
    <3>2. nextLabel \in Label
      BY <3>1, OutAssumption DEF TypeOK, Label
    <3>3. QED
      BY <3>1, <3>2
  <2>2. e \in EntryRecord /\ e.type \notin {"none", "undefined"} /\ Filed(e.members)
    BY <1>1, <2>1, FiledEntry
  <2> HIDE DEF e
  <2>3. FiledIn(Append(FlushedFile, e))
    BY <1>3, <2>2, FiledAppend
  <2>4. QED
    BY <1>1, <2>1, <2>3 DEF FiledInv
<1>7. QED
  BY <1>4, <1>5, <1>6 DEF OutFlush

LEMMA FiledWritten ==
  ASSUME TypeOK, LabelInv, FiledInv, NEW o \in Obj, ReleaseToFile(o) \/ ReleaseToObjStm(o)
  PROVE  FiledInv'
<1>1. /\ heap[o].label \in Label /\ heap[o].label # 0 /\ heap[o].type \notin {"none", "undefined"}
      /\ heap[o].type \in ObjType /\ file \in Seq(EntryRecord)
  <2>1. heap[o].label \in Label /\ heap[o].type \notin {"none", "undefined"}
    BY WroteToFile, WroteToObjStm
  <2>2. heap[o].type \in ObjType /\ file \in Seq(EntryRecord)
    BY ObjFields DEF TypeOK
  <2>3. QED
    BY <2>1, <2>2, OutAssumption DEF Label
<1>2. CASE ReleaseToFile(o)
  <2> DEFINE e == Entry(heap[o].label, heap[o].type, Encrypt, << >>)
  <2>1. file' = Append(file, e) /\ stm' = stm
    BY <1>2 DEF ReleaseToFile
  <2>2. Filed(<< >>) /\ << >> \in Seq(MemberRecord) /\ Encrypt \in BOOLEAN
    BY OutAssumption DEF Filed
  <2>3. e \in EntryRecord /\ e.type \notin {"none", "undefined"} /\ Filed(e.members)
    BY <1>1, <2>2, FiledEntry
  <2> HIDE DEF e
  <2>4. FiledIn(Append(file, e))
    BY <1>1, <2>3, FiledAppend DEF FiledInv
  <2>5. QED
    BY <2>1, <2>4 DEF FiledInv
<1>3. CASE ReleaseToObjStm(o)
  <2> DEFINE s == StmWith(o)
  <2>1. stm.label # 0 \/ CanLabel
    BY <1>3 DEF ReleaseToObjStm
  <2>2. s \in StmRecord /\ s.label \in Label
    BY <1>1, <2>1, TypeStm
  <2>3. Filed(OpenStm.members)
    BY DEF OpenStm, NoStm, FiledInv, Filed
  <2>4. Filed(s.members)
    BY <1>1, <2>1, <2>3, StmGrown DEF Filed
  <2>5. \/ stm' = NoStm /\ file' = FileWithStm(s)
        \/ stm' = s /\ file' = file
    BY <1>3 DEF ReleaseToObjStm
  <2> HIDE DEF s
  <2>6. FiledIn(FileWithStm(s)) /\ Filed(NoStm.members)
    BY <2>2, <2>4, FiledStm DEF FiledInv, Filed, NoStm
  <2>7. QED
    BY <2>4, <2>5, <2>6 DEF FiledInv
<1>4. QED
  BY <1>2, <1>3

LEMMA FiledStep == ASSUME TypeOK, LabelInv, FiledInv, [Next]_vars PROVE FiledInv'
<1>1. ASSUME UNCHANGED << file, stm >> PROVE FiledInv'
  BY <1>1 DEF FiledInv
<1>2. ASSUME NEW c \in Obj, OutOpen(c) PROVE FiledInv'
  <2>1. CASE Encrypt
    <3> DEFINE e == Entry(2, "dict", FALSE, << >>)
    <3>1. file' = << e >> /\ stm' = stm
      BY <1>2, <2>1 DEF OutOpen
    <3>2. e.type = "dict" /\ e.members = << >>
      BY DEF Entry
    <3> HIDE DEF e
    <3>3. FiledIn(<< e >>)
      BY <3>2 DEF FiledIn, Filed
    <3>4. QED
      BY <3>1, <3>3 DEF FiledInv
  <2>2. CASE ~Encrypt
    BY <1>1, <1>2, <2>2 DEF OutOpen
  <2>3. QED
    BY <2>1, <2>2
<1>3. CASE CallerStep
  BY <1>1, <1>3 DEF CallerStep, outVars, Alloc, Link, Ref, RefFails, AddKid, ReplaceKid, RemoveKid, SetInfo, Release
<1>4. CASE ReleaseStep
  BY <1>1, <1>4, FiledWritten DEF ReleaseStep, outVars, ReleaseShared, ReleaseUnlabelled, ReleaseFails
<1>5. CASE UNCHANGED vars
  BY <1>1, <1>5 DEF vars, outVars
<1>6. QED
  BY <1>2, <1>3, <1>4, <1>5, FiledFlush DEF Next
\* The table itself writes nothing.
LEMMA TableUnwritten ==
  ASSUME \/ \E k \in Key : LookupReference(k) \/ CloseObject(k) \/ FreeName(k)
         \/ \E k \in Key, o \in Obj : AddObject(k, o) \/ DefineNull(k, o)
         \/ BeginDelete
  PROVE  UNCHANGED << xref, stm, file >>
<1>1. ASSUME NEW k \in Key, LookupReference(k) PROVE UNCHANGED << xref, stm, file >>
  BY <1>1 DEF LookupReference, Reserve, FirstReference, FirstAlias, NextReference, ReferenceFails, outVars
<1>2. ASSUME NEW k \in Key, CloseObject(k) \/ FreeName(k) PROVE UNCHANGED << xref, stm, file >>
  BY <1>2 DEF CloseObject, CloseReferred, CloseUnreferred, CloseAborts, FreeName, vars, outVars
<1>3. ASSUME NEW k \in Key, NEW o \in Obj, AddObject(k, o) \/ DefineNull(k, o)
      PROVE  UNCHANGED << xref, stm, file >>
  BY <1>3 DEF AddObject, DefineFresh, DefineReserved, DefineTwice, DefineNull, vars, outVars
<1>4. CASE BeginDelete
  BY <1>4 DEF BeginDelete, vars, outVars
<1>5. QED
  BY <1>1, <1>2, <1>3, <1>4

\* What the specials and the writer do beside the table.
Beside == (\E k \in Key, o \in Obj : Put(k, o)) \/ (\E o \in Obj : GiveBack(o)) \/ SpecialStep \/ WriterStep

LEMMA BesideNext ==
  ASSUME WriterInv, TableInv, Beside
  PROVE  UNCHANGED nameVars
         /\ \/ \E c, o \in Obj : AddKid(c, o) /\ Mine(o) > 0
            \/ \E o \in Obj : Release(o)
            \/ \E o \in Obj, t \in Kinds : Alloc(o, t) /\ \A x \in Obj : ~Unnamed(x)
            \/ \E o, r \in Obj : Ref(o, r) /\ Mine(o) > 0
            \/ \E c \in Obj : OutOpen(c)
            \/ ReleaseStep \/ OutFlush
<1>1. ASSUME NEW k \in Key, NEW o \in Obj, Put(k, o)
      PROVE  UNCHANGED nameVars /\ \E c, x \in Obj : AddKid(c, x) /\ Mine(x) > 0
  <2>1. names[k].object \in Obj
    BY <1>1, InTable DEF Put, WriterInv
  <2>2. QED
    BY <1>1, <2>1 DEF Put
<1>2. QED
  BY <1>1 DEF Beside, GiveBack, SpecialStep, WriterStep

LEMMA BesideIsNext == ASSUME WriterInv, TableInv, Beside PROVE Next
BY BesideNext DEF Next, CallerStep

LEMMA FiledNames ==
  ASSUME WriterInv, TableInv, FiledInv, [NamesNext]_<< vars, nameVars >> PROVE FiledInv'
<1>1. CASE Beside
  BY <1>1, BesideIsNext, FiledStep DEF WriterInv
<1>2. CASE NamesNext /\ ~Beside
  BY <1>2, TableUnwritten DEF NamesNext, Beside, FiledInv
<1>3. CASE UNCHANGED << vars, nameVars >>
  BY <1>3 DEF vars, outVars, FiledInv
<1>4. QED
  BY <1>1, <1>2, <1>3

\* An entry leads to what has been filed.
LEMMA PrintedFiled ==
  ASSUME TypeOK, LabelInv, FiledInv, NEW l \in Label, xref[l] # Unset
  PROVE  Printed(l) \notin {"none", "undefined"}
<1>1. \A k \in Label : xref[k] # Unset => LocatedIn(k, xref, stm, file)
  BY DEF LabelInv, Accounted, Written
<1>2. LocatedIn(l, xref, stm, file) /\ l # 0
  BY <1>1, OutAssumption DEF Label
<1>3. CASE xref[l].kind = "file"
  BY <1>2, <1>3 DEF Printed, LocatedIn, FiledInv, FiledIn
<1>4. CASE xref[l].kind = "stm"
  <2> DEFINE m == xref[l].pos
             i == xref[l].idx
  <2>1. m \in Label
    BY <1>2, <1>4 DEF LocatedIn
  <2>2. CASE stm.label = m
    <3>1. xref[m] = Unset
      BY <2>1, <2>2 DEF LabelInv, Accounted, Unwritten
    <3>2. i + 1 \in DOMAIN stm.members
      BY <1>2, <1>4, <2>2, <3>1 DEF LocatedIn, MemberAt, Unset
    <3>3. Printed(l) = stm.members[i + 1].type
      BY <1>2, <1>4, <2>2 DEF Printed
    <3>4. QED
      BY <3>2, <3>3 DEF FiledInv, Filed
  <2>3. CASE stm.label # m
    <3>1. xref[m].kind = "file" /\ i + 1 \in DOMAIN file[xref[m].pos].members
      BY <1>2, <1>4, <2>3 DEF LocatedIn, MemberAt
    <3>2. xref[m].pos \in DOMAIN file
      BY <1>1, <2>1, <3>1 DEF LocatedIn, Unset
    <3>3. Printed(l) = file[xref[m].pos].members[i + 1].type
      BY <1>2, <1>4, <2>3 DEF Printed
    <3>4. QED
      BY <3>1, <3>2, <3>3 DEF FiledInv, FiledIn, Filed
  <2>4. QED
    BY <2>2, <2>3
<1>5. QED
  BY <1>2, <1>3, <1>4 DEF LocatedIn

LEMMA ClosedPrinted ==
  ASSUME WriterInv, FiledInv, phase = "closed", NEW l \in 1 .. nextLabel - 1
  PROVE  Printed(l) \notin {"none", "undefined"}
<1>1. l \in Label /\ l < nextLabel /\ l # 0
  BY OutAssumption DEF WriterInv, TypeOK, Label
<1>2. stm.label = 0 /\ \A o \in Obj : heap[o].label = 0
  BY DEF WriterInv, ClosedInv, LabelInv
<1>3. ~(l >= nextLabel)
  BY <1>1 DEF WriterInv, TypeOK, Label
<1>4. xref[l] # Unset
  BY <1>1, <1>2, <1>3 DEF WriterInv, LabelInv, Accounted, Unwritten, Labels
<1>5. QED
  BY <1>1, <1>4, PrintedFiled DEF WriterInv

LEMMA NamesFiledCorrect == NamesSpec => [](WriterInv /\ TableInv /\ FiledInv)
<1>1. NamesInit => FiledInv
  BY DEF NamesInit, Init, FiledInv, FiledIn, Filed, NoStm
<1>2. WriterInv /\ TableInv /\ FiledInv /\ [NamesNext]_<< vars, nameVars >> => FiledInv'
  BY FiledNames
<1>3. QED
  BY NamesInvCorrect, <1>1, <1>2, PTL DEF NamesSpec

\* A finished file is complete: whatever the specials named, referred to,
\* closed or never defined, every number handed out leads to an object, and
\* to no placeholder (pdf_close_document).
THEOREM NamesXrefCorrect == NamesSpec => []NamesXrefComplete
<1>1. WriterInv /\ TableInv /\ FiledInv => NamesXrefComplete
  BY ClosedPrinted DEF NamesXrefComplete
<1>2. QED
  BY NamesFiledCorrect, <1>1, PTL
(***************************************************************************)
(* The inductive invariant of the table.                                    *)
(***************************************************************************)
\* Nobody shares an object but by references: what a name stands for is
\* not also in the hands of a special, or under another name.
Single == \A x \in Obj : Live(x) /\ ~IsRef(x) => held[x] <= 1

Referring == \A k \in Key : names[k].reference # NoObj => IsRef(names[k].reference)

\* Numbers: an unused name has none, two names never share one.
Fresh(k) == ~deleting /\ ~names[k].used => meaning[k] = "none" /\ bound[k] = 0
Numbered(k) ==
  /\ bound[k] < nextLabel
  /\ bound[k] # 0 => bound[k] # stm.label /\ \A j \in Key : bound[j] = bound[k] => j = k

\* The object a name stands for bears the number of the name and is what the
\* name means, or its placeholder.
Stands(k, o) ==
  /\ ~IsRef(o) => heap[o].label = bound[k]
  /\ IF heap[o].type = "undefined" THEN meaning[k] = "none" /\ bound[k] # 0
                                   ELSE meaning[k] = heap[o].type
Named(k) == names[k].object # NoObj => Stands(k, names[k].object)

\* What bears the number of a name, or is in the file under it, is what the
\* name means.
Meant(k) ==
  bound[k] # 0 =>
    IF xref[bound[k]] = Unset
    THEN \A x \in Obj : heap[x].label = bound[k] =>
           heap[x].type = meaning[k] \/ (heap[x].type = "undefined" /\ meaning[k] = "none")
    ELSE Printed(bound[k]) = meaning[k]

BindInv ==
  /\ Single /\ Referring
  /\ \A k \in Key : Fresh(k) /\ Numbered(k) /\ Named(k) /\ Meant(k)

\* An object of which a special has a link of its own is not in the table.
LEMMA MineUnnamed ==
  ASSUME TypeOK, TableInv, Single, NEW o \in Obj, Live(o), ~IsRef(o), Mine(o) > 0, NEW k \in Key
  PROVE  names[k].object # o /\ names[k].reference # o
<1> DEFINE l == Links(names, o)
           h == held[o]
           a == Same(o, names[k].object)
           b == Same(o, names[k].reference)
<1>1. l < h /\ h <= 1 /\ h \in Nat /\ l \in Nat /\ a + b <= l /\ a \in Nat /\ b \in Nat
  BY MineHeld, LinksAtLeast, LinksType, SameType DEF Single, TypeOK
<1>2. (a = 1 <=> o = names[k].object) /\ (b = 1 <=> o = names[k].reference)
  BY DEF Same
<1> HIDE DEF l, h, a, b
<1>3. a = 0 /\ b = 0
  BY <1>1
<1>4. QED
  BY <1>2, <1>3

\* No second name stands for the object a name stands for.
LEMMA SoleName ==
  ASSUME TypeOK, TableInv, Single, NEW o \in Obj, Live(o), ~IsRef(o),
         NEW k \in Key, names[k].object = o, NEW j \in Key, j # k
  PROVE  names[j].object # o
<1> SUFFICES ASSUME names[j].object = o PROVE FALSE
  OBVIOUS
<1> DEFINE S == Objects(names, o) \ {k}
           a == Cardinality(Objects(names, o))
           b == Cardinality(References(names, o))
           n == Cardinality(S)
           h == held[o]
<1>1. j \in S
  BY DEF Objects
<1>2. IsFiniteSet(Objects(names, o)) /\ a \in Nat /\ b \in Nat
  BY LinksType
<1>3. IsFiniteSet(S) /\ n \in Nat
  BY <1>2, FS_RemoveElement, FS_CardinalityType
<1>4. n # 0
  BY <1>1, <1>3, FS_EmptySet
<1>5. a = n + 1
  <2>1. Same(o, names[k].object) = 1
    BY DEF Same
  <2>2. QED
    BY <2>1, LinksSplit
<1>6. a + b <= h /\ h <= 1 /\ h \in Nat
  BY DEF TableInv, Links, Single, TypeOK
<1> HIDE DEF a, b, n, h
<1>7. QED
  BY <1>2, <1>3, <1>4, <1>5, <1>6

\* What an object to be destroyed is held by.
LEMMA LastHeld ==
  ASSUME TypeOK, CountInv, NEW o \in Obj, Releasing(o), heap[o].rc = 1 PROVE held[o] = 0
<1> DEFINE h == held[o]
           s == Slots(KidsAt, o)
           c == Count(work, o)
           t == Count(Tail(work), o)
<1>1. 1 = h + s + c /\ s \in Nat /\ c \in Nat /\ h \in Nat
  BY CountZeroDead
<1>2. c = t + Same(o, o) /\ t \in Nat
  BY CountTail, CountType DEF Releasing, TypeOK
<1>3. Same(o, o) = 1
  BY DEF Same
<1> HIDE DEF h, s, c, t
<1>4. h = 0
  BY <1>1, <1>2, <1>3
<1>5. QED
  BY <1>4 DEF h

(***************************************************************************)
(* Steps beside the table.                                                  *)
(***************************************************************************)
InTheTable(x) == \E k \in Key : names[k].object = x \/ names[k].reference = x

\* What every such step does to an object.
Undisturbed(x) ==
  /\ \/ heap'[x].label = 0 \/ heap'[x].label >= nextLabel
     \/ heap'[x].label = heap[x].label /\ heap'[x].type = heap[x].type
  /\ Live(x)' /\ ~IsRef(x)' => held'[x] <= 1
  /\ InTheTable(x) => heap'[x].type = heap[x].type /\ (~IsRef(x) => heap'[x].label = heap[x].label)

LEMMA InTableHeld ==
  ASSUME WriterInv, TableInv, NEW x \in Obj, InTheTable(x) PROVE held[x] > 0 /\ Live(x)
BY InTable, CountZeroDead, OutAssumption DEF InTheTable, WriterInv

LEMMA BesideObjects ==
  ASSUME WriterInv, TableInv, BindInv, Beside, NEW x \in Obj PROVE Undisturbed(x)
<1> USE DEF WriterInv
<1>1. heap \in [Obj -> ObjRecord] /\ held \in [Obj -> Nat] /\ nextLabel \in Nat
  BY DEF TypeOK
<1>2. ASSUME heap'[x].label = heap[x].label, heap'[x].type = heap[x].type, held'[x] = held[x]
      PROVE  Undisturbed(x)
  BY <1>2 DEF Undisturbed, BindInv, Single, Live, IsRef
<1>3. ASSUME NEW c \in Obj, NEW o \in Obj, AddKid(c, o), Mine(o) > 0 PROVE Undisturbed(x)
  <2>1. heap' = [heap EXCEPT ![c].kids = Append(@, o)] /\ held' = [held EXCEPT ![o] = @ - 1] /\ held[o] > 0
    BY <1>3, MineHeld DEF AddKid
  <2>2. heap'[x].label = heap[x].label /\ heap'[x].type = heap[x].type
    BY <1>1, <2>1 DEF ObjRecord
  <2>3. held'[x] <= held[x]
    BY <1>1, <2>1
  <2>4. held[x] \in Nat /\ held'[x] \in Nat
    BY <2>1, HeldLess
  <2>5. Live(x)' /\ ~IsRef(x)' => held'[x] <= 1
    BY <2>2, <2>3, <2>4 DEF BindInv, Single, Live, IsRef
  <2>6. QED
    BY <2>2, <2>5 DEF Undisturbed
<1>4. ASSUME NEW o \in Obj, Release(o) PROVE Undisturbed(x)
  <2>1. heap' = heap /\ held' = [held EXCEPT ![o] = @ - 1] /\ held[o] > 0
    BY <1>4 DEF Release
  <2>2. held'[x] <= held[x] /\ held[x] \in Nat /\ held'[x] \in Nat
    <3>1. held[x] \in Nat /\ held'[x] \in Nat
      BY <2>1, HeldLess
    <3>2. QED
      BY <1>1, <2>1, <3>1
  <2>3. Live(x)' /\ ~IsRef(x)' => held'[x] <= 1
    BY <2>1, <2>2 DEF BindInv, Single, Live, IsRef
  <2>4. QED
    BY <2>1, <2>3 DEF Undisturbed
<1>5. ASSUME NEW o \in Obj, NEW t \in Kinds, Alloc(o, t) PROVE Undisturbed(x)
  <2>1. heap' = [heap EXCEPT ![o] = NewObj(t)] /\ held' = [held EXCEPT ![o] = 1] /\ ~Live(o)
    BY <1>5 DEF Alloc
  <2>2. CASE x = o
    <3>1. heap'[x].label = 0 /\ held'[x] = 1 /\ ~InTheTable(x)
      BY <1>1, <2>1, <2>2, NewLabels, InTableHeld
    <3>2. QED
      BY <3>1 DEF Undisturbed
  <2>3. CASE x # o
    BY <1>1, <1>2, <2>1, <2>3
  <2>4. QED
    BY <2>2, <2>3
<1>6. ASSUME NEW o \in Obj, NEW r \in Obj, Ref(o, r), Mine(o) > 0 PROVE Undisturbed(x)
  <2>1. /\ heap' = [heap EXCEPT ![o].label = LabelOf(o), ![r] = NewRef(o, LabelOf(o))]
        /\ held' = [held EXCEPT ![r] = 1] /\ ~Live(r) /\ Live(o) /\ ~IsRef(o)
    BY <1>6 DEF Ref
  <2>2. o # r
    BY <2>1
  <2>3. CASE x = r
    <3>1. heap'[x] = NewRef(o, LabelOf(o)) /\ held'[x] = 1 /\ ~InTheTable(x)
      BY <1>1, <2>1, <2>3, InTableHeld
    <3>2. heap'[x].label = 0
      BY <3>1, NewLabels
    <3>3. QED
      BY <3>1, <3>2 DEF Undisturbed
  <2>4. CASE x = o
    <3>1. heap'[x].label = LabelOf(o) /\ heap'[x].type = heap[x].type /\ held'[x] = held[x]
      BY <1>1, <2>1, <2>2, <2>4 DEF ObjRecord
    <3>2. heap'[x].label >= nextLabel \/ heap'[x].label = heap[x].label
      BY <1>1, <2>4, <3>1 DEF LabelOf
    <3>3. ~InTheTable(x)
      BY <1>6, <2>1, <2>4, MineUnnamed DEF InTheTable, BindInv
    <3>4. QED
      BY <3>1, <3>2, <3>3 DEF Undisturbed, BindInv, Single, Live, IsRef
  <2>5. CASE x # o /\ x # r
    BY <1>1, <1>2, <2>1, <2>5
  <2>6. QED
    BY <2>3, <2>4, <2>5
<1>7. ASSUME NEW c \in Obj, OutOpen(c) PROVE Undisturbed(x)
  <2>1. /\ heap' = [heap EXCEPT ![c] = Catalog] /\ held' = [held EXCEPT ![c] = 1]
        /\ nextLabel = 1 /\ ~Live(x)
    BY <1>7 DEF OutOpen, LabelInv, CountInv
  <2>2. ~InTheTable(x)
    BY <2>1, InTableHeld
  <2>3. held[x] = 0
    BY <2>1, CountZeroDead
  <2>4. CASE x = c
    <3>1. heap'[x].label = 1 /\ held'[x] = 1
      BY <1>1, <2>1, <2>4 DEF Catalog
    <3>2. QED
      BY <2>1, <2>2, <3>1 DEF Undisturbed
  <2>5. CASE x # c
    BY <1>1, <1>2, <2>1, <2>5
  <2>6. QED
    BY <2>4, <2>5
<1>8. CASE ReleaseStep
  <2>1. ASSUME NEW o \in Obj, ReleaseShared(o) PROVE Undisturbed(x)
    <3>1. heap' = [heap EXCEPT ![o].rc = @ - 1] /\ held' = held
      BY <2>1 DEF ReleaseShared
    <3>2. heap'[x].label = heap[x].label /\ heap'[x].type = heap[x].type /\ held'[x] = held[x]
      BY <1>1, <3>1 DEF ObjRecord
    <3>3. QED
      BY <1>2, <3>2
  <2>2. ASSUME NEW o \in Obj, Releasing(o), heap[o].rc = 1, Destroy(o), held' = held
        PROVE  Undisturbed(x)
    <3>1. heap'[o].label = 0 /\ \A a \in Obj : a # o => heap'[a] = heap[a]
      BY <2>2, LabelDestroy
    <3>2. held[o] = 0 /\ ~InTheTable(o)
      BY <2>2, LastHeld, InTableHeld
    <3>3. CASE x = o
      BY <2>2, <3>1, <3>2, <3>3 DEF Undisturbed
    <3>4. CASE x # o
      BY <1>2, <2>2, <3>1, <3>4
    <3>5. QED
      BY <3>3, <3>4
  <2>3. ASSUME NEW o \in Obj, ReleaseFails(o) PROVE Undisturbed(x)
    BY <1>2, <2>3 DEF ReleaseFails
  <2>4. QED
    BY <1>8, <2>1, <2>2, <2>3
       DEF ReleaseStep, ReleaseUnlabelled, ReleaseToFile, ReleaseToObjStm, LastLabelled
<1>9. CASE OutFlush
  BY <1>2, <1>9 DEF OutFlush, OutFlushTable, OutFlushStream, OutFlushFails
<1>10. QED
  BY <1>3, <1>4, <1>5, <1>6, <1>7, <1>8, <1>9, BesideNext
LEMMA NextNumbers ==
  ASSUME TypeOK, LabelInv, Next
  PROVE  /\ nextLabel' >= nextLabel /\ nextLabel \in Nat
         /\ stm'.label = stm.label \/ stm'.label = 0 \/ stm'.label >= nextLabel
<1>1. nextLabel \in Nat /\ NoStm.label = 0
  BY DEF TypeOK, NoStm
<1>2. ASSUME NEW c \in Obj, OutOpen(c)
      PROVE  nextLabel' >= nextLabel /\ stm' = stm
  <2>1. phase = "init" /\ stm' = stm /\ (nextLabel' = 3 \/ nextLabel' = 2)
    BY <1>2 DEF OutOpen
  <2>2. nextLabel = 1
    BY <2>1 DEF LabelInv
  <2>3. QED
    BY <2>1, <2>2
<1>3. CASE CallerStep
  <2>1. stm' = stm
    BY <1>3 DEF CallerStep, outVars, Alloc, Link, Ref, RefFails, AddKid, ReplaceKid, RemoveKid, SetInfo, Release
  <2>2. nextLabel' = nextLabel \/ nextLabel' = nextLabel + 1
    BY <1>3 DEF CallerStep, outVars, Alloc, Link, Ref, RefFails, AddKid, ReplaceKid, RemoveKid,
                SetInfo, Release, NextAfter
  <2>3. QED
    BY <1>1, <2>1, <2>2
<1>4. ASSUME NEW o \in Obj, ReleaseToObjStm(o)
      PROVE  /\ nextLabel' >= nextLabel
             /\ stm'.label = stm.label \/ stm'.label = 0 \/ stm'.label >= nextLabel
  <2>1. /\ nextLabel' = nextLabel \/ nextLabel' = nextLabel + 1
        /\ stm' = NoStm \/ stm' = StmWith(o)
        /\ heap[o].label # 0 /\ (stm.label # 0 \/ CanLabel)
    BY <1>4 DEF ReleaseToObjStm, LastLabelled
  <2>2. StmWith(o).label = IF stm.label = 0 THEN nextLabel ELSE stm.label
    BY <2>1, TypeStm
  <2>3. QED
    BY <1>1, <2>1, <2>2
<1>5. CASE ReleaseStep
  BY <1>1, <1>4, <1>5 DEF ReleaseStep, outVars, ReleaseShared, ReleaseUnlabelled, ReleaseToFile, ReleaseFails
<1>6. CASE OutFlush
  BY <1>1, <1>6 DEF OutFlush, OutFlushTable, OutFlushStream, OutFlushFails
<1>7. QED
  BY <1>1, <1>2, <1>3, <1>5, <1>6 DEF Next

\* An entry made in a step beside the table is of the object being released.
LEMMA NextWritten ==
  ASSUME TypeOK, LabelInv, Next,
         NEW l \in Label, l < nextLabel, l # stm.label, xref'[l] # xref[l]
  PROVE  LET o == Head(work)
         IN  /\ o \in Obj /\ heap[o].label = l /\ heap[o].type \notin {"none", "undefined"}
             /\ Printed(l)' = heap[o].type
<1>1. PICK o \in Obj : ReleaseToFile(o) \/ ReleaseToObjStm(o)
  BY WroteElse
<1>2. o = Head(work)
  BY <1>1 DEF ReleaseToFile, ReleaseToObjStm, LastLabelled, Releasing
<1>3. CASE ReleaseToFile(o)
  BY <1>2, <1>3, WroteToFile
<1>4. CASE ReleaseToObjStm(o)
  BY <1>2, <1>4, WroteToObjStm
<1>5. QED
  BY <1>1, <1>3, <1>4

LEMMA BoundLabel ==
  ASSUME WriterInv, TableInv, BindInv, NEW k \in Key, bound[k] # 0
  PROVE  bound[k] \in Label /\ bound[k] < nextLabel /\ bound[k] # stm.label
<1>1. bound[k] \in AnyLabel
  BY DEF TableInv, TableType
<1>2. bound[k] \in Label
  BY <1>1, OutAssumption DEF AnyLabel, Label
<1>3. QED
  BY <1>2 DEF BindInv, Numbered

LEMMA BesideBind ==
  ASSUME WriterInv, WriterInv', TableInv, BindInv, Beside PROVE BindInv'
<1> USE DEF WriterInv
<1>1. UNCHANGED nameVars /\ Next
  BY BesideNext, BesideIsNext
<1>2. names' = names /\ deleting' = deleting /\ bound' = bound /\ meaning' = meaning
  BY <1>1 DEF nameVars
<1>3. \A x \in Obj : Undisturbed(x)
  BY BesideObjects
<1>4. Single'
  BY <1>3 DEF Undisturbed, Single, Live, IsRef
<1>5. \A k \in Key : /\ names[k].object # NoObj => names[k].object \in Obj
                     /\ names[k].reference # NoObj => names[k].reference \in Obj
  BY InTable
<1>6. Referring'
  BY <1>2, <1>3, <1>5 DEF Undisturbed, InTheTable, BindInv, Referring, IsRef
<1>7. ASSUME NEW k \in Key PROVE (Fresh(k) /\ Numbered(k) /\ Named(k) /\ Meant(k))'
  <2>1. Fresh(k)'
    BY <1>2 DEF Fresh, BindInv
  <2>2. Numbered(k)'
    <3>1. /\ nextLabel' >= nextLabel /\ nextLabel \in Nat
          /\ stm'.label = stm.label \/ stm'.label = 0 \/ stm'.label >= nextLabel
      BY <1>1, NextNumbers
    <3>2. bound[k] \in Nat /\ nextLabel' \in Nat
      BY <1>2 DEF TableInv, TableType, AnyLabel, TypeOK
    <3>3. Numbered(k)
      BY DEF BindInv
    <3>4. bound[k] < nextLabel' /\ (bound[k] # 0 => bound[k] # stm'.label)
      BY <3>1, <3>2, <3>3 DEF Numbered
    <3>5. QED
      BY <1>2, <3>3, <3>4 DEF Numbered
  <2>3. Named(k)'
    <3> DEFINE o == names[k].object
    <3> SUFFICES ASSUME o # NoObj PROVE Stands(k, o)'
      BY <1>2 DEF Named
    <3>1. o \in Obj /\ InTheTable(o)
      BY <1>5 DEF InTheTable
    <3>2. heap'[o].type = heap[o].type /\ (~IsRef(o) => heap'[o].label = heap[o].label)
      BY <1>3, <3>1 DEF Undisturbed
    <3>3. Stands(k, o)
      BY DEF BindInv, Named
    <3>4. QED
      BY <1>2, <3>2, <3>3 DEF Stands, IsRef
  <2>4. Meant(k)'
    <3> SUFFICES ASSUME NEW l, l = bound[k], l # 0 PROVE Meant(k)'
      BY <1>2 DEF Meant
    <3>1. l \in Label /\ l < nextLabel /\ l # stm.label /\ Meant(k)
      BY BoundLabel DEF BindInv
    <3>2. CASE xref[l] # Unset
      <4>1. xref'[l] = xref[l] /\ Printed(l)' = Printed(l)
        BY <1>1, <3>1, <3>2, PrintedKept
      <4>2. Printed(l) = meaning[k]
        BY <3>1, <3>2 DEF Meant
      <4>3. Printed(bound[k])' = Printed(l)'
        BY <1>2
      <4>4. QED
        BY <1>2, <3>2, <4>1, <4>2, <4>3 DEF Meant
    <3>3. CASE xref[l] = Unset /\ xref'[l] = Unset
      <4>1. ASSUME NEW x \in Obj, heap'[x].label = l
            PROVE  heap[x].label = l /\ heap'[x].type = heap[x].type
        <5>1. Undisturbed(x) /\ nextLabel \in Nat
          BY <1>3 DEF TypeOK
        <5>2. QED
          BY <3>1, <4>1, <5>1 DEF Undisturbed, Label
      <4>2. QED
        BY <1>2, <3>1, <3>3, <4>1 DEF Meant
    <3>4. CASE xref[l] = Unset /\ xref'[l] # Unset
      <4> DEFINE o == Head(work)
      <4>1. /\ o \in Obj /\ heap[o].label = l /\ heap[o].type \notin {"none", "undefined"}
            /\ Printed(l)' = heap[o].type
        BY <1>1, <3>1, <3>4, NextWritten
      <4>2. heap[o].type = meaning[k]
        BY <3>1, <3>4, <4>1 DEF Meant
      <4>3. Printed(bound[k])' = Printed(l)'
        BY <1>2
      <4>4. QED
        BY <1>2, <3>4, <4>1, <4>2, <4>3 DEF Meant
    <3>5. QED
      BY <3>2, <3>3, <3>4
  <2>5. QED
    BY <2>1, <2>2, <2>3, <2>4
<1>8. QED
  BY <1>4, <1>6, <1>7 DEF BindInv
(***************************************************************************)
(* Steps of the table.                                                      *)
(***************************************************************************)
LEMMA PrintedSame == ASSUME UNCHANGED << xref, stm, file >>, NEW l PROVE Printed(l)' = Printed(l)
BY DEF Printed

\* A step that moves no label and hands out none.
LEMMA BindFrame ==
  ASSUME WriterInv, TableInv, BindInv, Single',
         UNCHANGED << nextLabel, xref, stm, file, bound, meaning >>,
         \A x \in Obj : \/ heap'[x].type = heap[x].type /\ heap'[x].label = heap[x].label
                        \/ ~InTheTable(x) /\ heap'[x].label = 0,
         \A k \in Key : /\ names'[k].object = names[k].object \/ names'[k].object = NoObj
                        /\ \/ names'[k].reference = names[k].reference \/ names'[k].reference = NoObj
                           \/ heap'[names'[k].reference].type = "ref"
                        /\ deleting' \/ (names[k].used => names'[k].used)
                        /\ deleting => deleting'
  PROVE  BindInv'
<1> USE DEF WriterInv
<1>1. ASSUME NEW k \in Key, NEW x \in {names[k].object, names[k].reference} \ {NoObj}
      PROVE  x \in Obj /\ heap'[x].type = heap[x].type /\ heap'[x].label = heap[x].label
  BY InTable DEF InTheTable
<1>2. Referring'
  <2>1. ASSUME NEW k \in Key, names'[k].reference # NoObj PROVE heap'[names'[k].reference].type = "ref"
    BY <1>1, <2>1 DEF BindInv, Referring, IsRef
  <2>2. QED
    BY <2>1 DEF Referring, IsRef
<1>3. ASSUME NEW k \in Key PROVE (Fresh(k) /\ Numbered(k) /\ Named(k) /\ Meant(k))'
  <2>1. Fresh(k) /\ Numbered(k) /\ Named(k) /\ Meant(k)
    BY DEF BindInv
  <2>2. Fresh(k)' /\ Numbered(k)'
    BY <2>1 DEF Fresh, Numbered
  <2>3. Named(k)'
    BY <1>1, <2>1 DEF Named, Stands, IsRef
  <2>4. Meant(k)'
    BY <2>1, PrintedSame DEF Meant
  <2>5. QED
    BY <2>2, <2>3, <2>4
<1>4. QED
  BY <1>2, <1>3 DEF BindInv

\* The callers' links do not get more.
LEMMA SingleKept ==
  ASSUME WriterInv, BindInv, TypeOK', \A x \in Obj : heap'[x].type = heap[x].type,
         \A x \in Obj : held'[x] <= held[x] \/ IsRef(x)
  PROVE  Single'
<1>1. \A x \in Obj : held[x] \in Nat /\ held'[x] \in Nat
  BY DEF WriterInv, TypeOK
<1>2. QED
  BY <1>1 DEF BindInv, Single, Live, IsRef

LEMMA LessHeld ==
  ASSUME TypeOK, NEW o \in Obj, held[o] > 0, held' = [held EXCEPT ![o] = @ - 1]
  PROVE  \A x \in Obj : held'[x] <= held[x]
<1>1. held \in [Obj -> Nat]
  BY DEF TypeOK
<1>2. QED
  BY <1>1

LEMMA BindElse ==
  ASSUME WriterInv, TypeOK', TableInv, BindInv, NEW k \in Key,
         \/ FirstAlias(k) \/ NextReference(k) \/ ReferenceFails(k)
         \/ CloseObject(k) \/ FreeName(k)
         \/ \E o \in Obj : DefineTwice(k, o)
  PROVE  BindInv'
<1> USE DEF WriterInv
<1>1. heap \in [Obj -> ObjRecord] /\ held \in [Obj -> Nat] /\ names \in [Key -> NameRecord]
  BY InTable DEF TypeOK
<1>2. CASE FirstAlias(k)
  <2> DEFINE o == names[k].object
  <2>1. o \in Obj /\ IsRef(o)
    BY <1>2, InTable DEF FirstAlias, TableInv, NameReachable
  <2>2. /\ heap' = [heap EXCEPT ![o].rc = @ + 2] /\ held' = [held EXCEPT ![o] = @ + 2]
        /\ names' = [names EXCEPT ![k].reference = o]
        /\ UNCHANGED << nextLabel, xref, stm, file, bound, meaning, deleting >>
    BY <1>2 DEF FirstAlias, outVars
  <2>3. \A x \in Obj : heap'[x].type = heap[x].type /\ heap'[x].label = heap[x].label
    BY <1>1, <2>1, <2>2 DEF ObjRecord
  <2>4. \A x \in Obj : held'[x] <= held[x] \/ IsRef(x)
    BY <1>1, <2>1, <2>2
  <2>5. \A j \in Key : /\ names'[j].object = names[j].object /\ names'[j].used = names[j].used
                       /\ names'[j].reference = names[j].reference \/ names'[j].reference = o
    BY <1>1, <2>2 DEF NameRecord
  <2> HIDE DEF o
  <2>6. Single'
    BY <2>3, <2>4, SingleKept
  <2>7. heap'[o].type = "ref"
    BY <2>1, <2>3 DEF IsRef
  <2>8. QED
    BY <2>2, <2>3, <2>5, <2>6, <2>7, BindFrame
<1>3. CASE NextReference(k)
  <2> DEFINE r == names[k].reference
  <2>1. r \in Obj /\ IsRef(r)
    BY <1>3, InTable DEF NextReference, BindInv, Referring
  <2>2. /\ heap' = [heap EXCEPT ![r].rc = @ + 1] /\ held' = [held EXCEPT ![r] = @ + 1]
        /\ UNCHANGED << names, nextLabel, xref, stm, file, bound, meaning, deleting >>
    BY <1>3 DEF NextReference, outVars, nameVars
  <2>3. \A x \in Obj : heap'[x].type = heap[x].type /\ heap'[x].label = heap[x].label
    BY <1>1, <2>1, <2>2 DEF ObjRecord
  <2>4. \A x \in Obj : held'[x] <= held[x] \/ IsRef(x)
    BY <1>1, <2>1, <2>2
  <2> HIDE DEF r
  <2>5. Single'
    BY <2>3, <2>4, SingleKept
  <2>6. QED
    BY <2>2, <2>3, <2>5, BindFrame
<1>4. CASE ReferenceFails(k) \/ CloseUnreferred(k) \/ CloseAborts(k)
  <2>1. /\ heap' = heap /\ held' = held /\ UNCHANGED << nextLabel, xref, stm, file, bound, meaning >>
        /\ names' = names \/ names' = [names EXCEPT ![k].closed = TRUE]
        /\ deleting' = deleting
    BY <1>4 DEF ReferenceFails, CloseUnreferred, CloseAborts, vars, outVars, nameVars
  <2>2. \A j \in Key : /\ names'[j].object = names[j].object /\ names'[j].used = names[j].used
                       /\ names'[j].reference = names[j].reference
    BY <1>1, <2>1 DEF NameRecord
  <2>3. Single'
    BY <2>1 DEF BindInv, Single, Live, IsRef
  <2>4. QED
    BY <2>1, <2>2, <2>3, BindFrame
<1>5. CASE CloseReferred(k)
  <2>1. names[k].object \in Obj /\ held[names[k].object] > 0
    BY <1>5, InTable DEF CloseReferred
  <2>2. /\ heap' = heap /\ held' = [held EXCEPT ![names[k].object] = @ - 1]
        /\ UNCHANGED << nextLabel, xref, stm, file, bound, meaning, deleting >>
        /\ names' = [names EXCEPT ![k].object = NoObj, ![k].closed = TRUE]
    BY <1>5 DEF CloseReferred, outVars
  <2>3. \A j \in Key : /\ names'[j].object = names[j].object \/ names'[j].object = NoObj
                       /\ names'[j].used = names[j].used /\ names'[j].reference = names[j].reference
    BY <1>1, <2>2 DEF NameRecord
  <2>4. Single'
    BY <2>1, <2>2, LessHeld, SingleKept
  <2>5. QED
    BY <2>2, <2>3, <2>4, BindFrame
<1>6. ASSUME NEW o \in Obj, DefineTwice(k, o) PROVE BindInv'
  <2>1. held[o] > 0
    BY <1>6, MineHeld DEF DefineTwice, MayName
  <2>2. /\ heap' = heap /\ held' = [held EXCEPT ![o] = @ - 1]
        /\ UNCHANGED << names, nextLabel, xref, stm, file, bound, meaning, deleting >>
    BY <1>6 DEF DefineTwice, outVars, nameVars
  <2>3. Single'
    BY <2>1, <2>2, LessHeld, SingleKept
  <2>4. QED
    BY <2>2, <2>3, BindFrame
<1>7. CASE FreeName(k)
  <2>1. /\ heap' = heap /\ deleting' /\ names' = [names EXCEPT ![k] = NoName]
        /\ UNCHANGED << nextLabel, xref, stm, file, bound, meaning >>
    BY <1>7 DEF FreeName, Deleting, outVars
  <2>2. ASSUME NEW x \in Obj PROVE held'[x] <= held[x]
    <3> DEFINE h == held[x]
               g == held'[x]
               e == Same(x, names[k].object) + Same(x, names[k].reference)
    <3>1. h = g + e /\ g \in Nat
      BY <1>7, HeldFreed
    <3>2. e \in Nat
      <4>1. \A a, b : Same(x, a) + Same(x, b) \in Nat
        BY SameType
      <4>2. QED
        BY <4>1
    <3> HIDE DEF h, g, e
    <3>3. g <= h
      BY <3>1, <3>2
    <3>4. QED
      BY <3>3 DEF g, h
  <2>3. Single'
    BY <2>1, <2>2, SingleKept
  <2>4. \A j \in Key : /\ names'[j].object = names[j].object \/ names'[j].object = NoObj
                       /\ names'[j].reference = names[j].reference \/ names'[j].reference = NoObj
    BY <1>1, <2>1 DEF NoName
  <2>5. QED
    BY <2>1, <2>3, <2>4, BindFrame
<1>8. QED
  BY <1>2, <1>3, <1>4, <1>5, <1>6, <1>7 DEF CloseObject\* What bears a label bears it alone and is not in the file.
LEMMA Borne ==
  ASSUME WriterInv, NEW x \in Obj, heap[x].label # 0
  PROVE  /\ heap[x].label \in Label /\ heap[x].label < nextLabel /\ heap[x].label # stm.label
         /\ xref[heap[x].label] = Unset
         /\ \A y \in Obj : heap[y].label = heap[x].label => y = x
<1>1. heap[x].label \in Label
  BY ObjFields DEF WriterInv
<1>2. \A y \in Obj : Labels[y] = heap[y].label
  BY DEF Labels
<1>3. Unwritten(Labels, nextLabel, xref, stm)
  BY DEF WriterInv, LabelInv, Accounted
<1>4. \A y \in Obj : heap[y].label = heap[x].label => y = x
  BY <1>2, <1>3 DEF Unwritten
<1>5. heap[x].label < nextLabel /\ heap[x].label # stm.label
  BY <1>2, <1>3 DEF Unwritten
<1>6. QED
  BY <1>1, <1>4, <1>5, NoEntry DEF WriterInv

\* The label of placeholder u passes to o, which is named k in its place, and
\* means m.
Moved(k, u, o, m) ==
  /\ u = names[k].object /\ o # u
  /\ heap[u].type = "undefined" /\ heap[o].label = 0
  /\ UNCHANGED << nextLabel, xref, stm, file, bound, deleting >>
  /\ m \notin {"none", "undefined"} /\ heap'[o].type = m
  /\ meaning' = [meaning EXCEPT ![k] = m]
  /\ names' = [names EXCEPT ![k].object = o]
  /\ heap'[o].label = heap[u].label /\ heap'[u].label = 0
  /\ \A x \in Obj : /\ x # o => heap'[x].type = heap[x].type
                    /\ x # o /\ x # u => heap'[x].label = heap[x].label
  /\ \A j \in Key : names[j].object = u => j = k
  /\ \/ IsRef(o) /\ m = "ref"
     \/ \A j \in Key : names[j].object # o /\ names[j].reference # o

LEMMA BindMoved ==
  ASSUME WriterInv, TableInv, BindInv, Single',
         NEW k \in Key, NEW u \in Obj, NEW o \in Obj, NEW m, Moved(k, u, o, m)
  PROVE  BindInv'
<1> USE DEF WriterInv, Moved
<1>1. \A j \in Key : /\ names[j].object # NoObj => names[j].object \in Obj
                     /\ names[j].reference # NoObj => names[j].reference \in Obj
  BY InTable
<1>2. names \in [Key -> NameRecord] /\ meaning \in [Key -> ObjType]
  BY DEF TableInv, TableType
<1>3. /\ names'[k].object = o /\ meaning'[k] = m
      /\ \A j \in Key : /\ names'[j].reference = names[j].reference /\ names'[j].used = names[j].used
                        /\ j # k => names'[j].object = names[j].object /\ meaning'[j] = meaning[j]
  BY <1>2 DEF NameRecord
<1>4. u # NoObj /\ Stands(k, u)
  BY OutAssumption DEF BindInv, Named
<1>5. bound[k] # 0 /\ heap[u].label = bound[k]
  BY <1>4 DEF Stands, IsRef
<1>6. xref[bound[k]] = Unset /\ \A y \in Obj : heap[y].label = bound[k] => y = u
  BY <1>5, Borne
<1>7. Referring'
  BY <1>1, <1>3 DEF BindInv, Referring, IsRef
<1>8. ASSUME NEW j \in Key PROVE (Fresh(j) /\ Numbered(j) /\ Named(j) /\ Meant(j))'
  <2>1. Fresh(j) /\ Numbered(j) /\ Named(j) /\ Meant(j)
    BY DEF BindInv
  <2>2. Fresh(j)'
    <3>1. j = k => bound[k] # 0
      BY <1>5
    <3>2. QED
      BY <1>3, <2>1, <3>1 DEF Fresh
  <2>3. Numbered(j)'
    BY <2>1 DEF Numbered
  <2>4. Named(j)'
    <3>1. CASE j = k
      BY <1>3, <1>5, <3>1 DEF Named, Stands
    <3>2. CASE j # k
      <4> SUFFICES ASSUME NEW x, x = names[j].object, x # NoObj PROVE Stands(j, x)'
        BY <1>3, <3>2 DEF Named
      <4>1. x \in Obj /\ x # u /\ Stands(j, x)
        BY <1>1, <2>1, <3>2 DEF Named
      <4>2. heap'[x].type = heap[x].type /\ (~IsRef(x) => heap'[x].label = heap[x].label)
        BY <4>1 DEF IsRef
      <4>3. QED
        BY <1>3, <3>2, <4>1, <4>2 DEF Stands, IsRef
    <3>3. QED
      BY <3>1, <3>2
  <2>5. Meant(j)'
    <3>1. CASE j = k
      <4>1. \A x \in Obj : heap'[x].label = bound[k] => x = o
        BY <1>5, <1>6
      <4>2. QED
        BY <1>3, <1>6, <3>1, <4>1 DEF Meant
    <3>2. CASE j # k
      <4>1. bound[j] # 0 => bound[j] # bound[k]
        BY <2>1, <3>2 DEF Numbered
      <4>2. ASSUME bound[j] # 0, NEW x \in Obj, heap'[x].label = bound[j]
            PROVE  heap[x].label = bound[j] /\ heap'[x].type = heap[x].type
        BY <1>5, <4>1, <4>2
      <4>3. QED
        BY <1>3, <2>1, <3>2, <4>2, PrintedSame DEF Meant
    <3>3. QED
      BY <3>1, <3>2
  <2>6. QED
    BY <2>2, <2>3, <2>4, <2>5
<1>9. QED
  BY <1>7, <1>8 DEF BindInv

LEMMA BindReserved ==
  ASSUME WriterInv, WriterInv', TableInv, BindInv,
         NEW k \in Key, NEW o \in Obj, DefineReserved(k, o)
  PROVE  BindInv'
<1> USE DEF WriterInv
<1>1. CASE heap[o].label # 0
  <2>1. UNCHANGED << vars, names, meaning, deleting, bound >>
    BY <1>1 DEF DefineReserved
  <2>2. heap' = heap /\ held' = held /\ names' = names /\ deleting' = deleting
        /\ UNCHANGED << nextLabel, xref, stm, file, bound, meaning >>
    BY <2>1 DEF vars, outVars
  <2>3. Single'
    BY <2>2 DEF BindInv, Single, Live, IsRef
  <2>4. QED
    BY <2>2, <2>3, BindFrame
<1>2. CASE heap[o].label = 0
  <2> SUFFICES ASSUME NEW u, u = names[k].object, NEW m, m = heap[o].type PROVE BindInv'
    OBVIOUS
  <2>1. /\ u \in Obj /\ held[u] > 0 /\ heap[u].type = "undefined" /\ o # u
        /\ m # "undefined" /\ m # "none"
        /\ \A x \in Obj : /\ heap'[x].type = heap[x].type
                          /\ heap'[x].label = IF x = o THEN heap[u].label
                                               ELSE IF x = u THEN 0 ELSE heap[x].label
    BY <1>2, HeapReserved
  <2>2. /\ held' = [held EXCEPT ![u] = @ - 1] /\ names' = [names EXCEPT ![k].object = o]
        /\ meaning' = [meaning EXCEPT ![k] = m] /\ Mine(o) > 0
        /\ UNCHANGED << nextLabel, xref, stm, file, bound, deleting >>
    BY <1>2 DEF DefineReserved, outVars, MayName
  <2>3. Live(u) /\ ~IsRef(u) /\ Single
    BY <2>1 DEF Live, IsRef, BindInv
  <2>4. \A j \in Key : names[j].object = u => j = k
    BY <2>1, <2>3, SoleName
  <2>5. IsRef(o) \/ \A j \in Key : names[j].object # o /\ names[j].reference # o
    BY <2>1, <2>2, <2>3, MineUnnamed DEF Live
  <2>6. Single'
    BY <2>1, <2>2, LessHeld, SingleKept
  <2>7. heap'[o].type = m /\ heap'[o].label = heap[u].label /\ heap'[u].label = 0
        /\ \A x \in Obj : /\ x # o => heap'[x].type = heap[x].type
                          /\ x # o /\ x # u => heap'[x].label = heap[x].label
    BY <2>1
  <2>8. (IsRef(o) /\ m = "ref") \/ \A j \in Key : names[j].object # o /\ names[j].reference # o
    BY <2>5 DEF IsRef
  <2>9. Moved(k, u, o, m)
    BY <1>2, <2>1, <2>2, <2>4, <2>7, <2>8 DEF Moved
  <2>10. QED
    BY <2>1, <2>6, <2>9, BindMoved
<1>3. QED
  BY <1>1, <1>2

LEMMA BindNull ==
  ASSUME WriterInv, WriterInv', TableInv, BindInv, NEW k \in Key, NEW o \in Obj, DefineNull(k, o)
  PROVE  BindInv'
<1> USE DEF WriterInv
<1> SUFFICES ASSUME NEW u, u = names[k].object PROVE BindInv'
  OBVIOUS
<1>1. /\ u \in Obj /\ held[u] > 0 /\ heap[u].type = "undefined" /\ u # o /\ ~Live(o)
      /\ heap'[u].label = 0 /\ heap'[u].type = heap[u].type
      /\ heap'[o].label = heap[u].label /\ heap'[o].type = "null" /\ heap[o].label = 0
      /\ held'[o] = 1 /\ held'[u] + 1 = held[u]
      /\ \A x \in Obj : x # o /\ x # u => heap'[x] = heap[x] /\ held'[x] = held[x]
  BY HeapNull
<1>2. /\ names' = [names EXCEPT ![k].object = o]
      /\ meaning' = [meaning EXCEPT ![k] = "null"]
      /\ UNCHANGED << nextLabel, xref, stm, file, bound, deleting >>
  BY DEF DefineNull, outVars
<1>3. Live(u) /\ ~IsRef(u) /\ Single
  BY <1>1 DEF Live, IsRef, BindInv
<1>4. \A j \in Key : names[j].object = u => j = k
  BY <1>1, <1>3, SoleName
<1>5. \A j \in Key : names[j].object # o /\ names[j].reference # o
  BY <1>1, InTableHeld DEF InTheTable
<1>6. Single'
  <2>1. held'[u] <= 1
    BY <1>1, <1>3 DEF Single, TypeOK
  <2>2. ASSUME NEW x \in Obj, Live(x)', ~IsRef(x)' PROVE held'[x] <= 1
    BY <1>1, <1>3, <2>1, <2>2 DEF Single, Live, IsRef
  <2>3. QED
    BY <2>2 DEF Single
<1>7. \A x \in Obj : /\ x # o => heap'[x].type = heap[x].type
                     /\ x # o /\ x # u => heap'[x].label = heap[x].label
  BY <1>1
<1>8. Moved(k, u, o, "null")
  BY <1>1, <1>2, <1>4, <1>5, <1>7 DEF Moved
<1>9. QED
  BY <1>1, <1>6, <1>8, BindMoved
\* The first definition of a name nobody has used.
LEMMA BindFresh ==
  ASSUME WriterInv, TableInv, BindInv, NEW k \in Key, NEW o \in Obj, DefineFresh(k, o)
  PROVE  BindInv'
<1> USE DEF WriterInv
<1>1. /\ heap' = heap /\ held' = held
      /\ UNCHANGED << nextLabel, xref, stm, file, bound, deleting >>
      /\ names' = [names EXCEPT ![k] = [NoName EXCEPT !.used = TRUE, !.object = o]]
      /\ meaning' = [meaning EXCEPT ![k] = heap[o].type]
      /\ ~names[k].used /\ ~deleting /\ MayName(o)
  BY DEF DefineFresh, Running, vars, outVars
<1>2. names \in [Key -> NameRecord] /\ meaning \in [Key -> ObjType]
  BY DEF TableInv, TableType
<1>3. /\ names'[k].used /\ names'[k].object = o /\ names'[k].reference = NoObj
      /\ meaning'[k] = heap[o].type
      /\ \A j \in Key : j # k => names'[j] = names[j] /\ meaning'[j] = meaning[j]
  BY <1>1, <1>2 DEF NoName
<1>4. bound[k] = 0
  BY <1>1 DEF BindInv, Fresh
<1>5. Single' /\ Referring'
  BY <1>1, <1>3 DEF BindInv, Single, Referring, Live, IsRef
<1>6. heap[o].type # "undefined" /\ (IsRef(o) \/ heap[o].label = 0)
  BY <1>1 DEF MayName
<1>7. ASSUME NEW j \in Key PROVE (Fresh(j) /\ Numbered(j) /\ Named(j) /\ Meant(j))'
  <2>1. Fresh(j) /\ Numbered(j) /\ Named(j) /\ Meant(j)
    BY DEF BindInv
  <2>2. Fresh(j)' /\ Numbered(j)'
    BY <1>1, <1>3, <2>1 DEF Fresh, Numbered
  <2>3. Named(j)'
    BY <1>1, <1>3, <1>4, <1>6, <2>1 DEF Named, Stands, IsRef
  <2>4. Meant(j)'
    BY <1>1, <1>3, <1>4, <2>1, PrintedSame DEF Meant
  <2>5. QED
    BY <2>2, <2>3, <2>4
<1>8. QED
  BY <1>5, <1>7 DEF BindInv

\* Object o, named k, is given the next label, and k its number.
FirstNumbered(k, o) ==
  /\ nextLabel \in Label /\ nextLabel' = nextLabel + 1
  /\ bound[k] = 0 /\ bound' = [bound EXCEPT ![k] = nextLabel]
  /\ UNCHANGED << xref, stm, file, deleting, meaning >>
  /\ names'[k].used /\ names'[k].object = o
  /\ names'[k].reference # NoObj => heap'[names'[k].reference].type = "ref"
  /\ heap'[o].label = nextLabel /\ ~IsRef(o)' /\ Stands(k, o)'
  /\ \A j \in Key : j # k => /\ names'[j] = names[j] /\ names[j].object # o
                             /\ \A x \in {names[j].object, names[j].reference} \ {NoObj} :
                                  /\ heap'[x].type = heap[x].type
                                  /\ ~IsRef(x) => heap'[x].label = heap[x].label
  /\ \A x \in Obj : x # o => heap'[x].label = 0 \/ heap'[x] = heap[x]
  /\ heap'[o].type = heap[o].type \/ heap[o].label = 0

LEMMA BindNumbered ==
  ASSUME WriterInv, TableInv, BindInv, Single', NEW k \in Key, NEW o \in Obj, FirstNumbered(k, o)
  PROVE  BindInv'
<1> USE DEF WriterInv, FirstNumbered
<1>1. nextLabel \in Nat /\ nextLabel # 0 /\ 0 < nextLabel /\ xref[nextLabel] = Unset
  BY NoEntry DEF TypeOK, Label
<1>2. bound \in [Key -> AnyLabel] /\ AnyLabel \subseteq Nat
  BY DEF TableInv, TableType, AnyLabel
<1>3. bound'[k] = nextLabel /\ \A j \in Key : j # k => bound'[j] = bound[j]
  BY <1>2
<1>4. stm.label \in Nat /\ stm.label < nextLabel
  BY NoEntry DEF LabelInv, Accounted, Unwritten, StmRecord, AnyLabel
<1>5. \A x \in Obj : heap[x].label # nextLabel
  <2>1. ASSUME NEW x \in Obj, heap[x].label = nextLabel PROVE FALSE
    BY <1>1, <2>1, Borne
  <2>2. QED
    BY <2>1
<1>6. Referring'
  <2>1. ASSUME NEW j \in Key, names'[j].reference # NoObj PROVE heap'[names'[j].reference].type = "ref"
    <3>1. CASE j = k
      BY <2>1, <3>1
    <3>2. CASE j # k
      BY <2>1, <3>2 DEF BindInv, Referring, IsRef
    <3>3. QED
      BY <3>1, <3>2
  <2>2. QED
    BY <2>1 DEF Referring, IsRef
<1>7. ASSUME NEW j \in Key PROVE (Fresh(j) /\ Numbered(j) /\ Named(j) /\ Meant(j))'
  <2>1. Fresh(j) /\ Numbered(j) /\ Named(j) /\ Meant(j) /\ \A i \in Key : Numbered(i)
    BY DEF BindInv
  <2>2. Fresh(j)'
    BY <1>3, <2>1 DEF Fresh
  <2>3. Numbered(j)'
    <3>1. \A i \in Key : bound[i] \in Nat /\ bound[i] < nextLabel
      BY <1>2, <2>1 DEF Numbered
    <3>2. bound'[j] < nextLabel + 1
      BY <1>1, <1>3, <3>1
    <3>3. bound'[j] # 0 => bound'[j] # stm.label
      BY <1>3, <1>4, <2>1 DEF Numbered
    <3>4. ASSUME bound'[j] # 0, NEW i \in Key, bound'[i] = bound'[j] PROVE i = j
      <4>1. CASE i = k \/ j = k
        BY <1>1, <1>3, <3>1, <3>4, <4>1
      <4>2. CASE i # k /\ j # k
        BY <1>3, <2>1, <3>4, <4>2 DEF Numbered
      <4>3. QED
        BY <4>1, <4>2
    <3>5. QED
      BY <3>2, <3>3, <3>4 DEF Numbered
  <2>4. Named(j)'
    <3>1. CASE j = k
      <4>1. names'[j].object = o /\ Stands(j, o)'
        BY <3>1
      <4>2. QED
        BY <4>1 DEF Named, Stands, IsRef
    <3>2. CASE j # k
      <4> SUFFICES ASSUME NEW x, x = names[j].object, x # NoObj PROVE Stands(j, x)'
        BY <3>2 DEF Named
      <4>1. Stands(j, x) /\ heap'[x].type = heap[x].type /\ (~IsRef(x) => heap'[x].label = heap[x].label)
        BY <2>1, <3>2 DEF Named
      <4>2. QED
        BY <1>3, <3>2, <4>1 DEF Stands, IsRef
    <3>3. QED
      BY <3>1, <3>2
  <2>5. Meant(j)'
    <3>1. CASE j = k
      <4>1. ASSUME NEW x \in Obj, heap'[x].label = nextLabel PROVE x = o
        BY <1>1, <1>5, <4>1
      <4>2. heap'[o].type = meaning'[k] \/ (heap'[o].type = "undefined" /\ meaning'[k] = "none")
        BY DEF Stands
      <4>3. QED
        BY <1>1, <1>3, <3>1, <4>1, <4>2 DEF Meant
    <3>2. CASE j # k
      <4>1. bound[j] # nextLabel
        BY <1>1, <1>2, <2>1 DEF Numbered
      <4>2. ASSUME bound[j] # 0, NEW x \in Obj, heap'[x].label = bound[j]
            PROVE  heap[x].label = bound[j] /\ heap'[x].type = heap[x].type
        <5>1. x # o
          BY <4>1, <4>2
        <5>2. heap'[x] = heap[x]
          BY <4>2, <5>1
        <5>3. QED
          BY <4>2, <5>2
      <4>3. QED
        BY <1>3, <2>1, <3>2, <4>2, PrintedSame DEF Meant
    <3>3. QED
      BY <3>1, <3>2
  <2>6. QED
    BY <2>2, <2>3, <2>4, <2>5
<1>8. QED
  BY <1>6, <1>7 DEF BindInv
\* pdf_names_reserve of a new name.
LEMMA BindReserve ==
  ASSUME WriterInv, TableInv, BindInv, NEW k \in Key, NEW u \in Obj, NEW r \in Obj, Reserve(k, u, r)
  PROVE  BindInv' /\ FirstNumbered(k, u)
<1>1. /\ u # r /\ ~Live(u) /\ ~Live(r) /\ nextLabel \in Label
      /\ heap[u].label = 0
      /\ heap'[u].label = nextLabel /\ heap'[u].type = "undefined"
      /\ heap'[r].label = 0 /\ heap'[r].type = "ref"
      /\ held'[u] = 1 /\ held'[r] = 1
      /\ \A x \in Obj : x # u /\ x # r => heap'[x] = heap[x] /\ held'[x] = held[x]
  BY HeapReserve
<1>2. /\ ~names[k].used /\ ~deleting /\ nextLabel' = nextLabel + 1
      /\ names' = [names EXCEPT ![k] = [NoName EXCEPT !.used = TRUE, !.object = u]]
      /\ bound' = FirstNumber(k, nextLabel)
      /\ UNCHANGED << xref, stm, file, deleting, meaning >>
  BY DEF Reserve, Running
<1>3. names \in [Key -> NameRecord] /\ bound \in [Key -> AnyLabel]
  BY DEF TableInv, TableType
<1>4. /\ names'[k].used /\ names'[k].object = u /\ names'[k].reference = NoObj
      /\ \A j \in Key : j # k => names'[j] = names[j]
  BY <1>2, <1>3 DEF NoName
<1>5. meaning[k] = "none" /\ bound[k] = 0
  BY <1>2 DEF BindInv, Fresh
<1>6. bound' = [bound EXCEPT ![k] = nextLabel] /\ bound'[k] = nextLabel
  BY <1>2, <1>3, <1>5 DEF FirstNumber
<1>7. nextLabel # 0
  BY <1>1 DEF Label
<1>8. Stands(k, u)' /\ ~IsRef(u)'
  BY <1>1, <1>2, <1>5, <1>6, <1>7 DEF Stands, IsRef
<1>9. ASSUME NEW j \in Key, NEW x \in {names[j].object, names[j].reference} \ {NoObj}
      PROVE  x \in Obj /\ x # u /\ x # r
  <2>1. x \in Obj /\ InTheTable(x)
    BY InTable DEF InTheTable, WriterInv
  <2>2. Live(x)
    BY <2>1, InTableHeld
  <2>3. QED
    BY <1>1, <2>1, <2>2
<1>10. ASSUME NEW j \in Key, j # k
       PROVE  /\ names[j].object # u
              /\ \A x \in {names[j].object, names[j].reference} \ {NoObj} :
                   heap'[x].type = heap[x].type /\ heap'[x].label = heap[x].label
  <2>1. u # NoObj
    BY OutAssumption
  <2>2. QED
    BY <1>1, <1>9, <2>1
<1>11. Single'
  BY <1>1 DEF BindInv, Single, Live, IsRef
<1>12. FirstNumbered(k, u)
  BY <1>1, <1>2, <1>4, <1>5, <1>6, <1>8, <1>10 DEF FirstNumbered
<1>13. QED
  BY <1>11, <1>12, BindNumbered

\* pdf_names_lookup_reference, the first time.
LEMMA BindFirst ==
  ASSUME WriterInv, TableInv, BindInv, NEW k \in Key, NEW r \in Obj, FirstReference(k, r)
  PROVE  BindInv' /\ (bound' = bound \/ \E o \in Obj : FirstNumbered(k, o))
<1> SUFFICES ASSUME NEW o, o = names[k].object
             PROVE  BindInv' /\ (bound' = bound \/ \E x \in Obj : FirstNumbered(k, x))
  OBVIOUS
<1>1. /\ o \in Obj /\ held[o] > 0 /\ Live(o) /\ o # r /\ ~Live(r) /\ ~IsRef(o)
      /\ heap[o].label # 0 \/ CanLabel
      /\ LabelOf(o) \in Label
      /\ heap'[o].label = LabelOf(o) /\ heap'[o].type = heap[o].type
      /\ heap'[r].label = 0 /\ heap'[r].type = "ref"
      /\ held'[o] = held[o]
      /\ \A x \in Obj : x # o /\ x # r => heap'[x] = heap[x] /\ held'[x] = held[x]
  BY HeapFirst
<1>2. /\ names[k].used /\ ~deleting /\ nextLabel' = NextAfter(o)
      /\ names' = [names EXCEPT ![k].reference = r]
      /\ bound' = FirstNumber(k, LabelOf(o))
      /\ UNCHANGED << xref, stm, file, deleting, meaning >>
  BY DEF FirstReference, Running
<1>3. names \in [Key -> NameRecord] /\ bound \in [Key -> AnyLabel]
  BY DEF TableInv, TableType
<1>4. /\ names'[k].used /\ names'[k].object = o /\ names'[k].reference = r
      /\ \A j \in Key : j # k => names'[j] = names[j]
  BY <1>2, <1>3 DEF NameRecord
<1>5. Stands(k, o) /\ heap[o].label = bound[k]
  BY <1>1, OutAssumption DEF BindInv, Named, Stands
<1>6. Single'
  BY <1>1 DEF BindInv, Single, Live, IsRef
<1>7. ASSUME NEW j \in Key, NEW x \in {names[j].object, names[j].reference} \ {NoObj}
      PROVE  /\ x \in Obj /\ heap'[x].type = heap[x].type
             /\ x # o => heap'[x].label = heap[x].label
  <2>1. x \in Obj /\ InTheTable(x)
    BY InTable DEF InTheTable, WriterInv
  <2>2. Live(x)
    BY <2>1, InTableHeld
  <2>3. QED
    BY <1>1, <2>1, <2>2
<1>8. CASE heap[o].label # 0
  <2>1. LabelOf(o) = heap[o].label /\ nextLabel' = nextLabel /\ bound' = bound
    BY <1>2, <1>5, <1>8 DEF LabelOf, NextAfter, FirstNumber
  <2>2. r # NoObj /\ \A x \in Obj : x # r => heap'[x].type = heap[x].type /\ heap'[x].label = heap[x].label
    BY <1>1, <2>1, OutAssumption
  <2>3. ~InTheTable(r)
    BY <1>1, InTableHeld
  <2>4. \A x \in Obj : \/ heap'[x].type = heap[x].type /\ heap'[x].label = heap[x].label
                       \/ ~InTheTable(x) /\ heap'[x].label = 0
    BY <1>1, <2>2, <2>3
  <2>5. \A j \in Key : names'[j].object = names[j].object /\ names'[j].used = names[j].used
                       /\ (names'[j].reference = names[j].reference \/ names'[j].reference = r)
    BY <1>2, <1>3 DEF NameRecord
  <2>6. QED
    BY <1>1, <1>2, <1>6, <2>1, <2>4, <2>5, BindFrame
<1>9. CASE heap[o].label = 0
  <2>1. LabelOf(o) = nextLabel /\ nextLabel' = nextLabel + 1 /\ bound[k] = 0
        /\ bound' = [bound EXCEPT ![k] = nextLabel]
    BY <1>2, <1>5, <1>9 DEF LabelOf, NextAfter, FirstNumber
  <2>2. \A j \in Key : j # k => names[j].object # o
    BY <1>1, SoleName DEF BindInv, WriterInv
  <2>3. Stands(k, o)' /\ ~IsRef(o)'
    <3>1. bound'[k] = nextLabel
      BY <1>3, <2>1
    <3>2. QED
      BY <1>1, <1>2, <1>5, <2>1, <3>1 DEF Stands, IsRef
  <2>4. ASSUME NEW j \in Key, NEW x \in {names[j].object, names[j].reference} \ {NoObj}, j # k
        PROVE  heap'[x].type = heap[x].type /\ (~IsRef(x) => heap'[x].label = heap[x].label)
    <3>1. x = names[j].reference => IsRef(x)
      BY <2>4 DEF BindInv, Referring
    <3>2. QED
      BY <1>1, <1>7, <2>2, <2>4, <3>1
  <2>5. names'[k].reference # NoObj => heap'[names'[k].reference].type = "ref"
    BY <1>1, <1>4
  <2>6. nextLabel \in Label /\ heap'[o].label = nextLabel
    BY <1>1, <2>1
  <2>7. \A x \in Obj : x # o => heap'[x].label = 0 \/ heap'[x] = heap[x]
    BY <1>1
  <2>8. UNCHANGED << xref, stm, file, deleting, meaning >>
    BY <1>2
  <2>9. FirstNumbered(k, o)
    BY <1>1, <1>4, <2>1, <2>2, <2>3, <2>4, <2>5, <2>6, <2>7, <2>8 DEF FirstNumbered
  <2>10. QED
    BY <1>1, <1>6, <2>9, BindNumbered
<1>10. QED
  BY <1>8, <1>9
LEMMA BindSame ==
  ASSUME WriterInv, TableInv, BindInv, BeginDelete \/ UNCHANGED << vars, nameVars >> PROVE BindInv'
<1>1. /\ heap' = heap /\ held' = held /\ names' = names /\ (deleting' \/ deleting' = deleting)
      /\ UNCHANGED << nextLabel, xref, stm, file, bound, meaning >>
  BY DEF BeginDelete, vars, outVars, nameVars
<1>2. Single'
  BY <1>1 DEF BindInv, Single, Live, IsRef
<1>3. QED
  BY <1>1, <1>2, BindFrame

LEMMA BindStep ==
  ASSUME WriterInv, WriterInv', TableInv, BindInv, [NamesNext]_<< vars, nameVars >>
  PROVE  BindInv'
<1>1. TypeOK'
  BY DEF WriterInv
<1>2. ASSUME NEW k \in Key, LookupReference(k) PROVE BindInv'
  BY <1>1, <1>2, BindReserve, BindFirst, BindElse DEF LookupReference
<1>3. ASSUME NEW k \in Key, CloseObject(k) \/ FreeName(k) PROVE BindInv'
  BY <1>1, <1>3, BindElse
<1>4. ASSUME NEW k \in Key, NEW o \in Obj, AddObject(k, o) \/ DefineNull(k, o) PROVE BindInv'
  BY <1>1, <1>4, BindFresh, BindReserved, BindElse, BindNull DEF AddObject
<1>5. CASE Beside
  BY <1>5, BesideBind
<1>6. QED
  BY <1>2, <1>3, <1>4, <1>5, BindSame DEF NamesNext, Beside

LEMMA BindInit == NamesInit => BindInv
<1> SUFFICES ASSUME NamesInit PROVE BindInv
  OBVIOUS
<1>1. /\ held = [o \in Obj |-> 0] /\ names = [k \in Key |-> NoName] /\ nextLabel = 1
      /\ bound = [k \in Key |-> 0] /\ meaning = [k \in Key |-> "none"]
  BY DEF NamesInit, Init
<1>2. Single
  BY <1>1 DEF Single
<1>3. QED
  BY <1>1, <1>2 DEF BindInv, Referring, Fresh, Numbered, Named, Meant, NoName

LEMMA BindInvCorrect == NamesSpec => [](WriterInv /\ TableInv /\ BindInv)
<1>1. (WriterInv /\ TableInv /\ BindInv) /\ [NamesNext]_<< vars, nameVars >>
        => (WriterInv /\ TableInv /\ BindInv)'
  BY NamesStepKept, BindStep
<1>2. QED
  BY NamesInitInv, BindInit, <1>1, PTL DEF NamesSpec

(***************************************************************************)
(* The refinement.                                                          *)
(***************************************************************************)
Found(k) == Printed(bound[k])

LEMMA BindingInit == NamesInit => Binding!Init
<1> SUFFICES ASSUME NamesInit PROVE Binding!Init
  OBVIOUS
<1>1. bound = [k \in Key |-> 0] /\ meaning = [k \in Key |-> "none"]
  BY DEF NamesInit
<1>2. \A k \in Key : Printed(bound[k]) = "none"
  BY <1>1 DEF Printed
<1>3. QED
  BY <1>1, <1>2 DEF Binding!Init

\* Nothing the table promises changes.
LEMMA BindingStutter ==
  ASSUME UNCHANGED << bound, meaning >>, \A k \in Key : Found(k)' = Found(k)
  PROVE  [Binding!Next]_<< bound, meaning, [k \in Key |-> Printed(bound[k])] >>
BY DEF Found

LEMMA FoundSame ==
  ASSUME UNCHANGED << bound, xref, stm, file >> PROVE \A k \in Key : Found(k)' = Found(k)
BY DEF Found, Printed

LEMMA BindingDefine ==
  ASSUME WriterInv, TableInv, BindInv, NEW k \in Key, NEW o \in Obj,
         DefineFresh(k, o) \/ DefineReserved(k, o)
  PROVE  [Binding!Next]_<< bound, meaning, [j \in Key |-> Printed(bound[j])] >>
<1>1. UNCHANGED << bound, xref, stm, file >>
  BY DEF DefineFresh, DefineReserved, vars, outVars
<1>2. CASE meaning' = meaning
  BY <1>1, <1>2, FoundSame, BindingStutter
<1>3. CASE meaning' # meaning
  <2>1. meaning' = [meaning EXCEPT ![k] = heap[o].type] /\ MayName(o)
    BY <1>3 DEF DefineFresh, DefineReserved
  <2>2. meaning[k] = "none"
    <3>1. CASE DefineFresh(k, o)
      BY <3>1 DEF DefineFresh, Running, BindInv, Fresh
    <3>2. CASE DefineReserved(k, o)
      BY <3>2 DEF DefineReserved, Placeholder, BindInv, Named, Stands
    <3>3. QED
      BY <3>1, <3>2
  <2>3. heap[o].type \in ObjType \ {"none", "undefined"}
    <3>1. held[o] > 0 /\ heap[o].type # "undefined" /\ heap[o].type \in ObjType
      BY <2>1, MineHeld, ObjFields DEF MayName, WriterInv
    <3>2. Live(o)
      BY <3>1, CountZeroDead DEF WriterInv
    <3>3. QED
      BY <3>1, <3>2 DEF Live
  <2>4. Binding!Define(k)
    BY <1>1, <2>1, <2>2, <2>3, FoundSame DEF Binding!Define, Found
  <2>5. QED
    BY <2>4 DEF Binding!Next
<1>4. QED
  BY <1>2, <1>3

LEMMA BindingGiveUp ==
  ASSUME WriterInv, TableInv, BindInv, NEW k \in Key, NEW o \in Obj, DefineNull(k, o)
  PROVE  [Binding!Next]_<< bound, meaning, [j \in Key |-> Printed(bound[j])] >>
<1>1. UNCHANGED << bound, xref, stm, file >> /\ meaning' = [meaning EXCEPT ![k] = "null"]
  BY DEF DefineNull, outVars
<1>2. meaning[k] = "none" /\ bound[k] # 0
  BY DEF DefineNull, Placeholder, BindInv, Named, Stands
<1>3. Binding!GiveUp(k)
  BY <1>1, <1>2, FoundSame DEF Binding!GiveUp, Found
<1>4. QED
  BY <1>3 DEF Binding!Next

LEMMA BindingRefer ==
  ASSUME WriterInv, TableInv, BindInv, NEW k \in Key, NEW o \in Obj, FirstNumbered(k, o)
  PROVE  [Binding!Next]_<< bound, meaning, [j \in Key |-> Printed(bound[j])] >>
<1>1. /\ nextLabel \in Label /\ bound[k] = 0 /\ bound' = [bound EXCEPT ![k] = nextLabel]
      /\ UNCHANGED << xref, stm, file, meaning >>
  BY DEF FirstNumbered
<1>2. bound \in [Key -> AnyLabel]
  BY DEF TableInv, TableType
<1>3. \A j \in Key : bound[j] # nextLabel
  BY <1>1, <1>2 DEF BindInv, Numbered, AnyLabel, Label
<1>4. Printed(bound[k]) = "none"
  BY <1>1 DEF Printed
<1>5. Printed(nextLabel)  = "none"
  <2>1. xref[nextLabel] = Unset
    BY <1>1, NoEntry DEF WriterInv, TypeOK
  <2>2. QED
    BY <2>1 DEF Printed, Unset
<1>6. ASSUME NEW j \in Key PROVE Found(j)' = Found(j)
  <2> SUFFICES ASSUME NEW l, l = bound'[j] PROVE Found(j)' = Found(j)
    OBVIOUS
  <2>1. Found(j)' = Printed(l)' /\ Printed(l)' = Printed(l)
    BY <1>1, PrintedSame DEF Found
  <2>2. l = IF j = k THEN nextLabel ELSE bound[j]
    BY <1>1, <1>2
  <2>3. QED
    BY <1>4, <1>5, <2>1, <2>2 DEF Found
<1>7. Binding!Refer(k)
  BY <1>1, <1>3, <1>6 DEF Binding!Refer, Found
<1>8. QED
  BY <1>7 DEF Binding!Next
\* A step beside the table leaves a number that has an entry, or gets none,
\* where it is.
LEMMA FoundKept ==
  ASSUME WriterInv, WriterInv', TableInv, BindInv, Beside, NEW k \in Key,
         bound[k] # 0 => xref'[bound[k]] = xref[bound[k]] \/ xref[bound[k]] # Unset
  PROVE  Found(k)' = Found(k)
<1> USE DEF WriterInv
<1>1. bound' = bound /\ Next
  BY BesideNext, BesideIsNext DEF nameVars
<1> SUFFICES ASSUME NEW l, l = bound[k] PROVE Printed(l)' = Printed(l)
  BY <1>1 DEF Found
<1>2. CASE l = 0
  BY <1>2 DEF Printed
<1>3. CASE l # 0 /\ xref[l] # Unset
  BY <1>1, <1>3, BoundLabel, PrintedKept
<1>4. CASE l # 0 /\ xref[l] = Unset
  <2>1. xref'[l] = Unset
    BY <1>4
  <2>2. Printed(l) = "none" /\ Printed(l)' = "none"
    BY <1>4, <2>1 DEF Printed, Unset
  <2>3. QED
    BY <2>2
<1>5. QED
  BY <1>2, <1>3, <1>4

\* Such a step writes what at most one name stands for.
LEMMA BindingWrite ==
  ASSUME WriterInv, WriterInv', TableInv, BindInv, Beside
  PROVE  [Binding!Next]_<< bound, meaning, [j \in Key |-> Printed(bound[j])] >>
<1> USE DEF WriterInv
<1>1. bound' = bound /\ meaning' = meaning /\ Next
  BY BesideNext, BesideIsNext DEF nameVars
<1>2. CASE \A k \in Key : Found(k)' = Found(k)
  BY <1>1, <1>2, BindingStutter
<1>3. ASSUME NEW k \in Key, Found(k)' # Found(k)
      PROVE  [Binding!Next]_<< bound, meaning, [j \in Key |-> Printed(bound[j])] >>
  <2> DEFINE o == Head(work)
  <2>1. \A j \in Key : Found(j)' # Found(j) =>
          /\ bound[j] # 0 /\ xref'[bound[j]] # xref[bound[j]] /\ xref[bound[j]] = Unset
    BY FoundKept
  <2>2. ASSUME NEW j \in Key, Found(j)' # Found(j)
        PROVE  /\ o \in Obj /\ heap[o].label = bound[j] /\ heap[o].type \notin {"none", "undefined"}
               /\ Found(j)' = heap[o].type
    <3> SUFFICES ASSUME NEW l, l = bound[j]
                 PROVE  /\ o \in Obj /\ heap[o].label = l
                        /\ heap[o].type \notin {"none", "undefined"} /\ Printed(l)' = heap[o].type
      BY <1>1 DEF Found
    <3>1. l \in Label /\ l < nextLabel /\ l # stm.label /\ xref'[l] # xref[l]
      BY <2>1, <2>2, BoundLabel
    <3>2. QED
      BY <1>1, <3>1, NextWritten
  <2>3. bound[k] # 0 /\ xref[bound[k]] = Unset
    BY <1>3, <2>1
  <2>4. /\ o \in Obj /\ heap[o].label = bound[k] /\ heap[o].type \notin {"none", "undefined"}
        /\ Found(k)' = heap[o].type
    BY <1>3, <2>2
  <2>5. heap[o].type = meaning[k] /\ meaning[k] # "none"
    BY <2>3, <2>4 DEF BindInv, Meant
  <2>6. ASSUME NEW j \in Key, j # k PROVE Found(j)' = Found(j)
    <3> SUFFICES ASSUME Found(j)' # Found(j) PROVE FALSE
      OBVIOUS
    <3>1. bound[j] = bound[k]
      BY <2>2, <2>4
    <3>2. QED
      BY <2>3, <2>6, <3>1 DEF BindInv, Numbered
  <2>7. Found(k) = "none"
    BY <2>3 DEF Found, Printed, Unset
  <2> HIDE DEF o
  <2>8. Binding!Write(k)
    <3> DEFINE f == [j \in Key |-> Found(j)]
    <3>1. f' = [f EXCEPT ![k] = meaning[k]]
      BY <2>4, <2>5, <2>6
    <3>2. f = [j \in Key |-> Printed(bound[j])]
      BY DEF Found
    <3>3. f[k] = "none"
      BY <2>7
    <3>4. f' = [j \in Key |-> Printed(bound[j])]'
      BY DEF Found
    <3> HIDE DEF f
    <3>5. QED
      BY <1>1, <2>3, <2>5, <3>1, <3>2, <3>3, <3>4 DEF Binding!Write
  <2>9. QED
    BY <2>8 DEF Binding!Next
<1>4. QED
  BY <1>2, <1>3

LEMMA BindingStep ==
  ASSUME WriterInv, WriterInv', TableInv, BindInv, [NamesNext]_<< vars, nameVars >>
  PROVE  [Binding!Next]_<< bound, meaning, [j \in Key |-> Printed(bound[j])] >>
<1>1. ASSUME UNCHANGED << bound, meaning, xref, stm, file >>
      PROVE  [Binding!Next]_<< bound, meaning, [j \in Key |-> Printed(bound[j])] >>
  BY <1>1, FoundSame, BindingStutter
<1>2. ASSUME NEW k \in Key, LookupReference(k)
      PROVE  \/ UNCHANGED << bound, meaning, xref, stm, file >>
             \/ \E o \in Obj : FirstNumbered(k, o)
  <2>1. ASSUME NEW u \in Obj, NEW r \in Obj, Reserve(k, u, r) PROVE FirstNumbered(k, u)
    BY <2>1, BindReserve
  <2>2. ASSUME NEW r \in Obj, FirstReference(k, r)
        PROVE  UNCHANGED << bound, meaning, xref, stm, file >> \/ \E o \in Obj : FirstNumbered(k, o)
    <3>1. UNCHANGED << meaning, xref, stm, file >>
      BY <2>2 DEF FirstReference
    <3>2. QED
      BY <2>2, <3>1, BindFirst
  <2>3. CASE FirstAlias(k) \/ NextReference(k) \/ ReferenceFails(k)
    BY <2>3 DEF FirstAlias, NextReference, ReferenceFails, outVars, nameVars
  <2>4. QED
    BY <1>2, <2>1, <2>2, <2>3 DEF LookupReference
<1>3. ASSUME NEW k \in Key, CloseObject(k) \/ FreeName(k) \/ \E o \in Obj : DefineTwice(k, o)
      PROVE  UNCHANGED << bound, meaning, xref, stm, file >>
  BY <1>3 DEF CloseObject, CloseReferred, CloseUnreferred, CloseAborts, FreeName, DefineTwice,
              vars, outVars, nameVars
<1>4. CASE BeginDelete \/ UNCHANGED << vars, nameVars >>
  BY <1>1, <1>4 DEF BeginDelete, vars, outVars, nameVars
<1>5. ASSUME NEW k \in Key, NEW o \in Obj, AddObject(k, o) \/ DefineNull(k, o)
      PROVE  [Binding!Next]_<< bound, meaning, [j \in Key |-> Printed(bound[j])] >>
  BY <1>1, <1>3, <1>5, BindingDefine, BindingGiveUp DEF AddObject
<1>6. QED
  BY <1>1, <1>2, <1>3, <1>4, <1>5, BindingRefer, BindingWrite DEF NamesNext, Beside

\* pdfnames.c keeps its promise: whatever mix of forward references,
\* definitions, redefinitions, closes and references that are named again
\* the specials ask for, the number a name was first given is where its first
\* definition is found in the file, or null if it never had one.
THEOREM BindingCorrect == NamesSpec => ImplementsBinding
<1>1. (WriterInv /\ TableInv /\ BindInv) /\ (WriterInv /\ TableInv /\ BindInv)'
        /\ [NamesNext]_<< vars, nameVars >>
        => [Binding!Next]_<< bound, meaning, [k \in Key |-> Printed(bound[k])] >>
  BY BindingStep
<1>2. NamesSpec => Binding!Init /\ [][Binding!Next]_<< bound, meaning, [k \in Key |-> Printed(bound[k])] >>
  BY BindInvCorrect, BindingInit, <1>1, PTL DEF NamesSpec
<1>3. QED
  BY <1>2, PTL DEF ImplementsBinding, Binding!Spec
=============================================================================
