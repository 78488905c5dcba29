---------------------------- MODULE PdfOutProofs -----------------------------
(***************************************************************************)
(* Proofs about PdfOut, for every set of addresses, every label limit and   *)
(* every object stream size.                                                *)
(***************************************************************************)
EXTENDS PdfOut, TLAPS, SequenceTheorems

AnyLabel == 0 .. MaxLabel - 1
XrefRecord == [kind : {"unset", "file", "stm"}, pos : Nat, idx : Nat]
StmRecord == [label : AnyLabel, members : Seq(MemberRecord)]

(***************************************************************************)
(* Types of the records the actions build.                                  *)
(***************************************************************************)
LEMMA LabelRange == Label \subseteq AnyLabel /\ 0 \in AnyLabel /\ 1 \in Label /\ Label \subseteq Nat
BY OutAssumption DEF Label, AnyLabel

LEMMA DeadType == Dead \in ObjRecord
BY OutAssumption DEF Dead, ObjRecord, ObjType

LEMMA NewObjType ==
  ASSUME NEW t \in {"ref"} \cup Containers \cup LeafTypes
  PROVE  NewObj(t) \in ObjRecord
<1>1. t \in ObjType /\ (t = "stream") \in BOOLEAN
  BY DEF ObjType
<1>2. Dead \in ObjRecord
  BY DeadType
<1>3. QED
  BY <1>1, <1>2 DEF NewObj, ObjRecord

LEMMA NewRefType ==
  ASSUME NEW o \in Obj \cup {NoObj}, NEW l \in AnyLabel PROVE NewRef(o, l) \in ObjRecord
<1>1. NewObj("ref") \in ObjRecord
  BY NewObjType
<1>2. QED
  BY <1>1 DEF NewRef, ObjRecord, AnyLabel

LEMMA EntryType ==
  ASSUME NEW l \in Label, NEW t \in ObjType \cup {"xref"}, NEW e \in BOOLEAN, NEW ms \in Seq(MemberRecord)
  PROVE  Entry(l, t, e, ms) \in EntryRecord
BY DEF Entry, EntryRecord

LEMMA MemberType ==
  ASSUME NEW l \in Label, NEW t \in ObjType, NEW e \in BOOLEAN
  PROVE  Member(l, t, e) \in MemberRecord
BY DEF Member, MemberRecord

LEMMA XrefTypes ==
  /\ Unset \in XrefRecord
  /\ \A p \in Nat : InFile(p) \in XrefRecord
  /\ \A l, i \in Nat : InStm(l, i) \in XrefRecord
BY DEF XrefRecord, Unset, InFile, InStm

LEMMA NoStmType == NoStm \in StmRecord
BY OutAssumption DEF NoStm, StmRecord, AnyLabel

LEMMA ObjFields ==
  ASSUME TypeOK, NEW o \in Obj
  PROVE  /\ heap \in [Obj -> ObjRecord]
         /\ heap[o].type \in ObjType
         /\ heap[o].label \in AnyLabel
         /\ heap[o].label # 0 => heap[o].label \in Label
         /\ heap[o].rc \in Nat
         /\ heap[o].noStm \in BOOLEAN
         /\ heap[o].kids \in Seq(Obj)
<1>1. heap \in [Obj -> ObjRecord]
  BY DEF TypeOK
<1>2. heap[o] \in ObjRecord
  BY <1>1
<1>3. /\ heap[o].type \in ObjType
      /\ heap[o].label \in AnyLabel
      /\ heap[o].rc \in Nat
      /\ heap[o].noStm \in BOOLEAN
      /\ heap[o].kids \in Seq(Obj)
  BY <1>2 DEF ObjRecord, AnyLabel
<1>4. heap[o].label # 0 => heap[o].label \in Label
  BY <1>3, OutAssumption DEF AnyLabel, Label
<1>5. QED
  BY <1>1, <1>3, <1>4

\* The label LabelOf yields, fresh or old.
LEMMA LabelOfType ==
  ASSUME TypeOK, NEW o \in Obj, heap[o].label # 0 \/ CanLabel
  PROVE  LabelOf(o) \in Label /\ LabelOf(o) \in AnyLabel /\ NextAfter(o) \in 1 .. MaxLabel
<1>1. heap[o].label \in AnyLabel /\ nextLabel \in 1 .. MaxLabel
  BY ObjFields DEF TypeOK
<1>2. QED
  BY <1>1, OutAssumption DEF LabelOf, NextAfter, CanLabel, Label, AnyLabel

(***************************************************************************)
(* The initial states and the opening of the file.                          *)
(***************************************************************************)
LEMMA TypeInit == Init => TypeOK
<1> SUFFICES ASSUME Init PROVE TypeOK
  OBVIOUS
<1>1. heap \in [Obj -> ObjRecord] /\ held \in [Obj -> Nat]
  BY DeadType DEF Init
<1>2. xref \in [Label -> XrefRecord]
  BY XrefTypes DEF Init
<1>3. file \in Seq(EntryRecord) /\ work \in Seq(Obj)
  BY DEF Init
<1>4. stm \in StmRecord
  BY OutAssumption DEF Init, NoStm, StmRecord, AnyLabel
<1>5. nextLabel \in 1 .. MaxLabel /\ freed \in SUBSET Label
  BY OutAssumption DEF Init
<1>6. /\ trailer \in [TrailerKeys -> 0 .. MaxLabel - 1]
      /\ phase \in {"init", "open", "closed", "failed"}
      /\ encMode \in BOOLEAN
  <2>1. 0 \in 0 .. MaxLabel - 1
    BY OutAssumption
  <2>2. trailer \in [TrailerKeys -> 0 .. MaxLabel - 1]
    BY <2>1 DEF Init
  <2>3. QED
    BY <2>2 DEF Init
<1>7. QED
  BY <1>1, <1>2, <1>3, <1>4, <1>5, <1>6 DEF TypeOK, XrefRecord, StmRecord, AnyLabel

LEMMA TypeOutOpen ==
  ASSUME TypeOK, NEW c \in Obj, OutOpen(c) PROVE TypeOK'
<1>1. /\ 1 \in Label /\ 1 \in AnyLabel /\ 2 \in Label /\ 2 \in AnyLabel
      /\ 2 \in 1 .. MaxLabel /\ 3 \in 1 .. MaxLabel
  BY OutAssumption DEF Label, AnyLabel
<1>2. Catalog \in ObjRecord
  <2>1. NewObj("dict") \in ObjRecord
    BY NewObjType DEF Containers
  <2>2. QED
    BY <1>1, <2>1, OutAssumption DEF Catalog, ObjRecord, AnyLabel
<1>3. heap' \in [Obj -> ObjRecord]
  BY <1>2 DEF OutOpen, TypeOK
<1>4. held' \in [Obj -> Nat] /\ work' \in Seq(Obj)
  BY DEF OutOpen, TypeOK
<1>5. trailer \in [TrailerKeys -> 0 .. MaxLabel - 1]
  BY DEF TypeOK
<1>6. trailer' \in [TrailerKeys -> 0 .. MaxLabel - 1] /\ nextLabel' \in 1 .. MaxLabel
  BY <1>1, <1>5 DEF OutOpen, AnyLabel
<1>7. freed' \in SUBSET Label /\ file' \in Seq(EntryRecord) /\ xref' \in [Label -> XrefRecord]
  <2>1. CASE Encrypt
    <3> DEFINE e == Entry(2, "dict", FALSE, << >>)
    <3>1. << >> \in Seq(MemberRecord)
      OBVIOUS
    <3>2. e \in EntryRecord
      BY <1>1, <3>1 DEF Entry, EntryRecord, ObjType, Containers
    <3>3. file' = << e >> /\ freed' = {2}
      BY <2>1 DEF OutOpen
    <3>4. xref \in [Label -> XrefRecord] /\ xref' = [xref EXCEPT ![2] = InFile(1)]
      BY <2>1 DEF OutOpen, TypeOK, XrefRecord
    <3> HIDE DEF e
    <3>5. file' \in Seq(EntryRecord)
      BY <3>2, <3>3
    <3>6. 1 \in Nat
      OBVIOUS
    <3>7. xref' \in [Label -> XrefRecord]
      BY <1>1, <3>4, <3>6, XrefTypes
    <3>8. QED
      BY <1>1, <3>3, <3>5, <3>7
  <2>2. CASE ~Encrypt
    BY <2>2 DEF OutOpen, TypeOK, XrefRecord
  <2>3. QED
    BY <2>1, <2>2
<1>8. QED
  BY <1>3, <1>4, <1>6, <1>7 DEF OutOpen, TypeOK, XrefRecord

LEMMA TypeAlloc == ASSUME TypeOK, NEW o \in Obj, NEW t \in Kinds, Alloc(o, t) PROVE TypeOK'
<1>1. NewObj(t) \in ObjRecord
  BY NewObjType, OutAssumption DEF Containers, LeafTypes
<1>2. heap \in [Obj -> ObjRecord] /\ heap' = [heap EXCEPT ![o] = NewObj(t)]
  BY DEF Alloc, TypeOK
<1>3. heap' \in [Obj -> ObjRecord]
  BY <1>1, <1>2
<1>4. held' \in [Obj -> Nat]
  BY DEF Alloc, TypeOK
<1>5. QED
  BY <1>3, <1>4 DEF Alloc, TypeOK, outVars

LEMMA TypeLink == ASSUME TypeOK, NEW o \in Obj, Link(o) PROVE TypeOK'
<1>1. heap \in [Obj -> ObjRecord] /\ heap[o].rc + 1 \in Nat
  BY ObjFields
<1>2. heap' = [heap EXCEPT ![o].rc = @ + 1]
  BY DEF Link
<1>3. heap' \in [Obj -> ObjRecord]
  BY <1>1, <1>2 DEF ObjRecord
<1>4. held' \in [Obj -> Nat]
  BY DEF Link, TypeOK
<1>5. QED
  BY <1>3, <1>4 DEF Link, TypeOK, outVars

LEMMA TypeRef == ASSUME TypeOK, NEW o \in Obj, NEW r \in Obj, Ref(o, r) PROVE TypeOK'
<1>1. LabelOf(o) \in 0 .. MaxLabel - 1 /\ NextAfter(o) \in 1 .. MaxLabel
  BY LabelOfType DEF Ref, AnyLabel
<1>2. NewRef(o, LabelOf(o)) \in ObjRecord
  BY <1>1, NewRefType DEF AnyLabel
<1>3. /\ heap \in [Obj -> ObjRecord]
      /\ heap' = [heap EXCEPT ![o].label = LabelOf(o), ![r] = NewRef(o, LabelOf(o))]
  BY DEF Ref, TypeOK
<1>4. heap' \in [Obj -> ObjRecord]
  BY <1>1, <1>2, <1>3 DEF ObjRecord
<1>5. held' \in [Obj -> Nat] /\ nextLabel' \in 1 .. MaxLabel
  BY <1>1 DEF Ref, TypeOK
<1>6. QED
  BY <1>4, <1>5 DEF Ref, TypeOK

LEMMA TypeAddKid ==
  ASSUME TypeOK, NEW c \in Obj, NEW o \in Obj, AddKid(c, o) PROVE TypeOK'
<1>1. heap \in [Obj -> ObjRecord] /\ Append(heap[c].kids, o) \in Seq(Obj)
  BY ObjFields
<1>2. heap' = [heap EXCEPT ![c].kids = Append(@, o)]
  BY DEF AddKid
<1>3. heap' \in [Obj -> ObjRecord]
  BY <1>1, <1>2 DEF ObjRecord
<1>4. held' \in [Obj -> Nat]
  BY DEF AddKid, MayStore, TypeOK
<1>5. QED
  BY <1>3, <1>4 DEF AddKid, TypeOK, outVars

LEMMA TypeReplaceKid ==
  ASSUME TypeOK, NEW c \in Obj, NEW o \in Obj, NEW i \in 1 .. MaxKids, ReplaceKid(c, i, o)
  PROVE  TypeOK'
<1>1. heap \in [Obj -> ObjRecord] /\ heap[c].kids \in Seq(Obj) /\ i \in DOMAIN heap[c].kids
  BY ObjFields DEF ReplaceKid
<1>2. [heap[c].kids EXCEPT ![i] = o] \in Seq(Obj) /\ << heap[c].kids[i] >> \in Seq(Obj)
  BY <1>1
<1>3. heap' = [heap EXCEPT ![c].kids[i] = o] /\ work' = << heap[c].kids[i] >>
  BY DEF ReplaceKid
<1>4. heap' \in [Obj -> ObjRecord]
  BY <1>1, <1>2, <1>3 DEF ObjRecord
<1>5. held' \in [Obj -> Nat]
  BY DEF ReplaceKid, MayStore, TypeOK
<1>6. QED
  BY <1>2, <1>3, <1>4, <1>5 DEF ReplaceKid, TypeOK, outVars

LEMMA TypeRemoveKid ==
  ASSUME TypeOK, NEW c \in Obj, NEW i \in 1 .. MaxKids, RemoveKid(c, i) PROVE TypeOK'
<1> DEFINE rest == SubSeq(heap[c].kids, 1, i - 1)
                     \o SubSeq(heap[c].kids, i + 1, Len(heap[c].kids))
<1>1. heap \in [Obj -> ObjRecord] /\ heap[c].kids \in Seq(Obj) /\ i \in DOMAIN heap[c].kids
  BY ObjFields DEF RemoveKid
<1>2. rest \in Seq(Obj) /\ << heap[c].kids[i] >> \in Seq(Obj)
  BY <1>1
<1>3. heap' = [heap EXCEPT ![c].kids = rest] /\ work' = << heap[c].kids[i] >>
  BY DEF RemoveKid
<1> HIDE DEF rest
<1>4. heap' \in [Obj -> ObjRecord]
  BY <1>1, <1>2, <1>3 DEF ObjRecord
<1>5. QED
  BY <1>2, <1>3, <1>4 DEF RemoveKid, TypeOK, outVars

LEMMA TypeSetInfo ==
  ASSUME TypeOK, NEW o \in Obj, SetInfo(o) PROVE TypeOK'
<1>1. LabelOf(o) \in 0 .. MaxLabel - 1 /\ NextAfter(o) \in 1 .. MaxLabel
  BY LabelOfType DEF SetInfo, AnyLabel
<1>2. heap \in [Obj -> ObjRecord] /\ heap' = [heap EXCEPT ![o].label = LabelOf(o)]
  BY DEF SetInfo, TypeOK
<1>3. heap' \in [Obj -> ObjRecord]
  BY <1>1, <1>2 DEF ObjRecord
<1>4. trailer' \in [TrailerKeys -> 0 .. MaxLabel - 1] /\ nextLabel' \in 1 .. MaxLabel
  BY <1>1 DEF SetInfo, TypeOK
<1>5. QED
  BY <1>3, <1>4 DEF SetInfo, TypeOK

LEMMA TypeCaller == ASSUME TypeOK, CallerStep PROVE TypeOK'
<1>1. ASSUME NEW o \in Obj, RefFails(o) PROVE TypeOK'
  BY <1>1 DEF RefFails, TypeOK, outVars
<1>2. ASSUME NEW o \in Obj, Release(o) PROVE TypeOK'
  <2>1. held' \in [Obj -> Nat] /\ work' \in Seq(Obj)
    BY <1>2 DEF Release, TypeOK
  <2>2. QED
    BY <1>2, <2>1 DEF Release, TypeOK, outVars
<1>3. QED
  BY <1>1, <1>2, TypeAlloc, TypeLink, TypeRef, TypeAddKid, TypeReplaceKid, TypeRemoveKid,
     TypeSetInfo
  DEF CallerStep

(***************************************************************************)
(* pdf_release_obj.                                                         *)
(***************************************************************************)
LEMMA TypeDestroy ==
  ASSUME TypeOK, NEW o \in Obj, Releasing(o), Destroy(o)
  PROVE  heap' \in [Obj -> ObjRecord] /\ work' \in Seq(Obj)
<1>1. heap[o].kids \in Seq(Obj) /\ heap \in [Obj -> ObjRecord]
  BY ObjFields
<1>2. Tail(work) \in Seq(Obj)
  BY DEF TypeOK, Releasing
<1>3. heap' \in [Obj -> ObjRecord]
  BY <1>1, DeadType DEF Destroy
<1>4. work' \in Seq(Obj)
  BY <1>1, <1>2 DEF Destroy
<1>5. QED
  BY <1>3, <1>4

\* The object stream a labelled object goes to.
LEMMA TypeStm ==
  ASSUME TypeOK, NEW o \in Obj, heap[o].label # 0, stm.label # 0 \/ CanLabel
  PROVE  /\ StmWith(o).label \in Label
         /\ StmWith(o).label = IF stm.label = 0 THEN nextLabel ELSE stm.label
         /\ StmWith(o).members = Append(OpenStm.members, Member(heap[o].label, heap[o].type, FALSE))
         /\ StmWith(o).members \in Seq(MemberRecord)
         /\ StmWith(o) \in StmRecord
         /\ OpenStm.members \in Seq(MemberRecord)
         /\ Len(StmWith(o).members) = Len(OpenStm.members) + 1
<1>1. heap[o].label \in Label /\ heap[o].type \in ObjType
  BY ObjFields
<1>2. Member(heap[o].label, heap[o].type, FALSE) \in MemberRecord
  BY <1>1 DEF Member, MemberRecord
<1>3. stm \in StmRecord /\ nextLabel \in 1 .. MaxLabel
  BY DEF TypeOK, StmRecord, AnyLabel
<1>4. /\ OpenStm.label = IF stm.label = 0 THEN nextLabel ELSE stm.label
      /\ OpenStm \in StmRecord
      /\ OpenStm.label \in Label
      /\ OpenStm.members \in Seq(MemberRecord)
  <2>1. CASE stm.label = 0
    <3>1. OpenStm = [label |-> nextLabel, members |-> << >>]
      BY <2>1 DEF OpenStm, NoStm
    <3>2. nextLabel \in Label /\ nextLabel \in AnyLabel
      BY <1>3, <2>1, OutAssumption DEF CanLabel, Label, AnyLabel
    <3>3. << >> \in Seq(MemberRecord)
      OBVIOUS
    <3>4. QED
      BY <2>1, <3>1, <3>2, <3>3 DEF StmRecord
  <2>2. CASE stm.label # 0
    BY <1>3, <2>2, OutAssumption DEF OpenStm, Label, StmRecord, AnyLabel
  <2>3. QED
    BY <2>1, <2>2
<1> DEFINE m == Member(heap[o].label, heap[o].type, FALSE)
<1>5. /\ Append(OpenStm.members, m) \in Seq(MemberRecord)
      /\ Len(Append(OpenStm.members, m)) = Len(OpenStm.members) + 1
  <2> HIDE DEF m
  <2>1. m \in MemberRecord
    BY <1>2 DEF m
  <2>2. QED
    BY <1>4, <2>1, AppendProperties
<1>6. /\ StmWith(o).label = OpenStm.label
      /\ StmWith(o).members = Append(OpenStm.members, Member(heap[o].label, heap[o].type, FALSE))
      /\ StmWith(o) \in StmRecord
  BY <1>4, <1>5 DEF StmWith, StmRecord
<1>7. QED
  BY <1>4, <1>5, <1>6

LEMMA TypeFileWithStm ==
  ASSUME TypeOK, NEW s \in StmRecord, s.label # 0
  PROVE  FileWithStm(s) \in Seq(EntryRecord)
<1>1. s.label \in Label /\ s.members \in Seq(MemberRecord)
  BY OutAssumption DEF StmRecord, AnyLabel, Label
<1>2. "stream" \in ObjType \cup {"xref"}
  BY DEF ObjType, Containers
<1>3. Entry(s.label, "stream", Encrypt, s.members) \in EntryRecord
  BY <1>1, <1>2, OutAssumption DEF Entry, EntryRecord
<1>4. file \in Seq(EntryRecord)
  BY DEF TypeOK
<1>5. QED
  BY <1>3, <1>4 DEF FileWithStm

LEMMA TypeReleaseToFile ==
  ASSUME TypeOK, NEW o \in Obj, ReleaseToFile(o) PROVE TypeOK'
<1>1. heap[o].label \in Label /\ heap[o].type \in ObjType
  BY ObjFields DEF ReleaseToFile, LastLabelled
<1>2. << >> \in Seq(MemberRecord)
  OBVIOUS
<1>3. Entry(heap[o].label, heap[o].type, Encrypt, << >>) \in EntryRecord
  BY <1>1, <1>2, OutAssumption DEF Entry, EntryRecord
<1>4. file \in Seq(EntryRecord) /\ Len(file) + 1 \in Nat
  BY DEF TypeOK
<1>5. file' = Append(file, Entry(heap[o].label, heap[o].type, Encrypt, << >>))
  BY DEF ReleaseToFile
<1>6. file' \in Seq(EntryRecord)
  BY <1>3, <1>4, <1>5
<1>7. xref' \in [Label -> XrefRecord]
  BY <1>1, <1>4, XrefTypes DEF ReleaseToFile, TypeOK, XrefRecord
<1>8. freed' \in SUBSET Label /\ encMode' \in BOOLEAN
  BY <1>1, OutAssumption DEF ReleaseToFile, Freed, TypeOK
<1>9. heap' \in [Obj -> ObjRecord] /\ work' \in Seq(Obj)
  BY TypeDestroy DEF ReleaseToFile, LastLabelled
<1>10. QED
  BY <1>6, <1>7, <1>8, <1>9 DEF ReleaseToFile, TypeOK, XrefRecord

LEMMA TypeReleaseToObjStm ==
  ASSUME TypeOK, NEW o \in Obj, ReleaseToObjStm(o) PROVE TypeOK'
<1> DEFINE s == StmWith(o)
           n == Len(s.members)
           x == [xref EXCEPT ![heap[o].label] = InStm(s.label, n - 1)]
<1>1. heap[o].label \in Label /\ heap[o].label # 0
  BY ObjFields DEF ReleaseToObjStm, LastLabelled
<1>2. /\ s.label \in Label /\ s \in StmRecord
      /\ n \in Nat /\ n - 1 \in Nat /\ s.label \in Nat /\ s.label # 0
  <2>1. stm.label # 0 \/ CanLabel
    BY DEF ReleaseToObjStm
  <2>2. s.label \in Label /\ s \in StmRecord /\ n = Len(OpenStm.members) + 1
    BY <1>1, <2>1, TypeStm
  <2>3. Len(OpenStm.members) \in Nat
    BY <1>1, <2>1, TypeStm
  <2>4. QED
    BY <2>2, <2>3, OutAssumption DEF Label
<1>3. /\ IF n = ObjStmMax
         THEN /\ stm' = NoStm
              /\ file' = FileWithStm(s)
              /\ encMode' = Encrypt
              /\ xref' = [x EXCEPT ![s.label] = InFile(Len(file) + 1)]
              /\ freed' = Freed(o) \cup {s.label}
         ELSE /\ stm' = s
              /\ encMode' = FALSE
              /\ xref' = x
              /\ freed' = Freed(o)
              /\ UNCHANGED file
      /\ nextLabel' = IF stm.label = 0 THEN nextLabel + 1 ELSE nextLabel
      /\ stm.label # 0 \/ CanLabel
      /\ UNCHANGED << held, trailer, phase >>
  BY DEF ReleaseToObjStm
<1> HIDE DEF s, n
<1>4. x \in [Label -> XrefRecord]
  BY <1>1, <1>2, XrefTypes DEF TypeOK, XrefRecord
<1>5. nextLabel' \in 1 .. MaxLabel
  BY <1>3, OutAssumption DEF TypeOK, CanLabel
<1>6. heap' \in [Obj -> ObjRecord] /\ work' \in Seq(Obj)
  BY TypeDestroy DEF ReleaseToObjStm, LastLabelled
<1> HIDE DEF x
<1>7. CASE n = ObjStmMax
  <2>1. stm' \in StmRecord
    BY <1>3, <1>7, NoStmType
  <2>2. file' \in Seq(EntryRecord) /\ Len(file) + 1 \in Nat
    BY <1>2, <1>3, <1>7, TypeFileWithStm DEF TypeOK
  <2>3. xref' \in [Label -> XrefRecord]
    BY <1>2, <1>3, <1>4, <1>7, <2>2, XrefTypes
  <2>4. freed' \in SUBSET Label /\ encMode' \in BOOLEAN
    BY <1>1, <1>2, <1>3, <1>7, OutAssumption DEF TypeOK, Freed
  <2>5. QED
    BY <1>3, <1>5, <1>6, <2>1, <2>2, <2>3, <2>4 DEF TypeOK, XrefRecord, StmRecord, AnyLabel
<1>8. CASE n # ObjStmMax
  <2>1. stm' \in StmRecord /\ file' \in Seq(EntryRecord) /\ encMode' \in BOOLEAN
    BY <1>2, <1>3, <1>8 DEF TypeOK
  <2>2. xref' \in [Label -> XrefRecord] /\ freed' \in SUBSET Label
    BY <1>1, <1>3, <1>4, <1>8 DEF TypeOK, Freed
  <2>3. QED
    BY <1>3, <1>5, <1>6, <2>1, <2>2 DEF TypeOK, XrefRecord, StmRecord, AnyLabel
<1>9. QED
  BY <1>7, <1>8

LEMMA TypeRelease == ASSUME TypeOK, ReleaseStep PROVE TypeOK'
<1>1. ASSUME NEW o \in Obj, ReleaseShared(o) PROVE TypeOK'
  <2>1. heap \in [Obj -> ObjRecord] /\ heap[o].rc - 1 \in Nat
    BY <1>1, ObjFields DEF ReleaseShared
  <2>2. heap' = [heap EXCEPT ![o].rc = @ - 1]
    BY <1>1 DEF ReleaseShared
  <2>3. heap' \in [Obj -> ObjRecord]
    BY <2>1, <2>2 DEF ObjRecord
  <2>4. work' \in Seq(Obj)
    BY <1>1 DEF ReleaseShared, Releasing, TypeOK
  <2>5. QED
    BY <1>1, <2>3, <2>4 DEF ReleaseShared, TypeOK, outVars
<1>2. ASSUME NEW o \in Obj, ReleaseUnlabelled(o) PROVE TypeOK'
  <2>1. heap' \in [Obj -> ObjRecord] /\ work' \in Seq(Obj)
    BY <1>2, TypeDestroy DEF ReleaseUnlabelled
  <2>2. QED
    BY <1>2, <2>1 DEF ReleaseUnlabelled, TypeOK, outVars
<1>3. ASSUME NEW o \in Obj, ReleaseFails(o) PROVE TypeOK'
  <2>1. heap[o].label \in Label
    BY <1>3, ObjFields DEF ReleaseFails, LastLabelled
  <2>2. freed' \in SUBSET Label
    BY <1>3, <2>1 DEF ReleaseFails, Freed, TypeOK
  <2>3. QED
    BY <1>3, <2>2 DEF ReleaseFails, TypeOK
<1>4. QED
  BY <1>1, <1>2, <1>3, TypeReleaseToFile, TypeReleaseToObjStm DEF ReleaseStep

(***************************************************************************)
(* pdf_out_flush.                                                           *)
(***************************************************************************)
LEMMA TypeFlushed ==
  ASSUME TypeOK
  PROVE  /\ FlushedFile \in Seq(EntryRecord)
         /\ FlushedXref \in [Label -> XrefRecord]
         /\ FlushedFreed \in SUBSET Label
<1>1. stm \in StmRecord /\ Len(file) + 1 \in Nat
  BY DEF TypeOK, StmRecord, AnyLabel
<1>2. stm.label # 0 => stm.label \in Label
  BY <1>1, OutAssumption DEF StmRecord, AnyLabel, Label
<1>3. FlushedFile \in Seq(EntryRecord)
  BY <1>1, TypeFileWithStm DEF FlushedFile, TypeOK
<1>4. FlushedXref \in [Label -> XrefRecord]
  BY <1>1, <1>2, XrefTypes DEF FlushedXref, TypeOK, XrefRecord
<1>5. FlushedFreed \in SUBSET Label
  BY <1>2 DEF FlushedFreed, TypeOK
<1>6. QED
  BY <1>3, <1>4, <1>5

LEMMA TypeFlush == ASSUME TypeOK, OutFlush PROVE TypeOK'
<1>2. NoStm \in StmRecord
  BY NoStmType
<1>3. ASSUME OutFlushTable PROVE TypeOK'
  BY <1>3 DEF OutFlushTable, TypeOK
<1>4. ASSUME OutFlushStream PROVE TypeOK'
  <2>1. nextLabel \in Label /\ nextLabel' \in 1 .. MaxLabel
    BY <1>4, OutAssumption DEF OutFlushStream, CanLabel, Label, TypeOK
  <2>2. << >> \in Seq(MemberRecord)
    OBVIOUS
  <2>3. Entry(nextLabel, "xref", FALSE, << >>) \in EntryRecord
    BY <2>1, <2>2 DEF Entry, EntryRecord
  <2>4. /\ file' = Append(FlushedFile, Entry(nextLabel, "xref", FALSE, << >>))
        /\ xref' = [FlushedXref EXCEPT ![nextLabel] = InFile(Len(FlushedFile) + 1)]
    BY <1>4 DEF OutFlushStream
  <2>5. file' \in Seq(EntryRecord) /\ Len(FlushedFile) + 1 \in Nat
    <3>1. FlushedFile \in Seq(EntryRecord)
      BY TypeFlushed
    <3> DEFINE e == Entry(nextLabel, "xref", FALSE, << >>)
    <3>2. e \in EntryRecord /\ file' = Append(FlushedFile, e)
      BY <2>3, <2>4
    <3> HIDE DEF e
    <3>3. QED
      BY <3>1, <3>2
  <2>6. xref' \in [Label -> XrefRecord]
    BY <2>1, <2>4, <2>5, TypeFlushed, XrefTypes
  <2>7. freed' \in SUBSET Label
    BY <1>4, <2>1, TypeFlushed DEF OutFlushStream
  <2>8. QED
    BY <1>2, <1>4, <2>1, <2>5, <2>6, <2>7
    DEF OutFlushStream, TypeOK, XrefRecord, StmRecord, AnyLabel
<1>5. ASSUME OutFlushFails PROVE TypeOK'
  BY <1>2, <1>5, TypeFlushed DEF OutFlushFails, TypeOK, XrefRecord, StmRecord, AnyLabel
<1>6. QED
  BY <1>3, <1>4, <1>5 DEF OutFlush

\* The writer keeps its types: in particular every label it hands out or
\* writes is below PDF_NUM_INDIRECT_MAX.
THEOREM TypeCorrect == Spec => []TypeOK
<1>1. TypeOK /\ [Next]_vars => TypeOK'
  <2> SUFFICES ASSUME TypeOK, [Next]_vars PROVE TypeOK'
    OBVIOUS
  <2>1. CASE Next
    BY <2>1, TypeOutOpen, TypeCaller, TypeRelease, TypeFlush DEF Next
  <2>2. CASE UNCHANGED vars
    BY <2>2 DEF vars, outVars, TypeOK
  <2>3. QED
    BY <2>1, <2>2
<1>2. QED
  BY <1>1, TypeInit, PTL DEF Spec

(***************************************************************************)
(* Every label handed out is accounted for: proof of LabelsAccounted.       *)
(*                                                                          *)
(* The inductive invariant is stated about values (L: the label of each     *)
(* object, n: the next label, x: the table, s: the open stream, f: the      *)
(* file), so that a step that writes twice, such as filling an object       *)
(* stream, is the composition of two lemmas.                                *)
(***************************************************************************)

LocatedIn(l, x, s, f) ==
  \/ /\ x[l].kind = "file"
     /\ x[l].pos \in DOMAIN f /\ f[x[l].pos].label = l
  \/ /\ x[l].kind = "stm" /\ x[l].pos \in Label
     /\ \/ s.label = x[l].pos /\ MemberAt(l, x[l].idx, s.members)
        \/ /\ x[x[l].pos].kind = "file"
           /\ MemberAt(l, x[l].idx, f[x[x[l].pos].pos].members)

Types(L, n, x, s, f) ==
  /\ L \in [Obj -> AnyLabel] /\ n \in 1 .. MaxLabel
  /\ x \in [Label -> XrefRecord] /\ s \in StmRecord /\ f \in Seq(EntryRecord)

\* Labels in use are below n and borne once; a label is without an entry
\* exactly while it is unissued or borne.
Unwritten(L, n, x, s) ==
  /\ \A a, b \in Obj : L[a] # 0 /\ L[a] = L[b] => a = b
  /\ \A a \in Obj : L[a] # 0 => L[a] < n /\ L[a] # s.label
  /\ s.label < n
  /\ \A l \in Label : x[l] = Unset <=> l >= n \/ s.label = l \/ \E a \in Obj : L[a] = l

\* Entries lead to objects.
Written(x, s, f) == \A l \in Label : x[l] # Unset => LocatedIn(l, x, s, f)

\* Objects have entries.
Listed(x, s, f) ==
  /\ \A p \in DOMAIN f :
       /\ x[f[p].label] = InFile(p)
       /\ \A i \in DOMAIN f[p].members : x[f[p].members[i].label] = InStm(f[p].label, i - 1)
  /\ \A i \in DOMAIN s.members : x[s.members[i].label] = InStm(s.label, i - 1)

Accounted(L, n, x, s, f) ==
  Types(L, n, x, s, f) /\ Unwritten(L, n, x, s) /\ Written(x, s, f) /\ Listed(x, s, f)

LEMMA Kinds3 ==
  ASSUME NEW p, NEW l, NEW i
  PROVE  /\ Unset.kind = "unset" /\ InFile(p).kind = "file" /\ InFile(p).pos = p
         /\ InStm(l, i).kind = "stm" /\ InStm(l, i).pos = l /\ InStm(l, i).idx = i
         /\ InFile(p) # Unset /\ InStm(l, i) # Unset
BY DEF Unset, InFile, InStm

\* What the types say of the members and entries already there.
LEMMA SeqFacts ==
  ASSUME NEW f \in Seq(EntryRecord), NEW p \in DOMAIN f
  PROVE  f[p].label \in Label /\ f[p].members \in Seq(MemberRecord)
<1>1. f[p] \in EntryRecord
  OBVIOUS
<1>2. QED
  BY <1>1 DEF EntryRecord

LEMMA MemberFacts ==
  ASSUME NEW ms \in Seq(MemberRecord), NEW i \in DOMAIN ms
  PROVE  ms[i].label \in Label
<1>1. ms[i] \in MemberRecord
  OBVIOUS
<1>2. QED
  BY <1>1 DEF MemberRecord

(***************************************************************************)
(* The elementary steps.                                                    *)
(***************************************************************************)
\* pdf_label_obj on an unlabelled object.
LEMMA Issue ==
  ASSUME NEW L, NEW n, NEW x, NEW s, NEW f, Accounted(L, n, x, s, f),
         NEW o \in Obj, L[o] = 0, n < MaxLabel
  PROVE  Accounted([L EXCEPT ![o] = n], n + 1, x, s, f)
<1> DEFINE M == [L EXCEPT ![o] = n]
<1>1. /\ L \in [Obj -> AnyLabel] /\ n \in Nat /\ n > 0 /\ n \in AnyLabel
      /\ s.label \in Nat
      /\ \A a \in Obj : L[a] \in Nat
  BY OutAssumption DEF Accounted, Types, AnyLabel, StmRecord
<1>2. Types(M, n + 1, x, s, f)
  BY <1>1, OutAssumption DEF Accounted, Types
<1>3. M[o] = n /\ \A a \in Obj : a # o => M[a] = L[a]
  BY <1>1
<1> HIDE DEF M
<1>4. Unwritten(L, n, x, s)
  BY DEF Accounted
<1>5. \A l \in Label : l \in Nat /\ l > 0
  BY OutAssumption DEF Label
<1>6. Unwritten(M, n + 1, x, s)
  <2>1. \A a, b \in Obj : M[a] # 0 /\ M[a] = M[b] => a = b
    BY <1>1, <1>3, <1>4 DEF Unwritten
  <2>2. \A a \in Obj : M[a] # 0 => M[a] < n + 1 /\ M[a] # s.label
    BY <1>1, <1>3, <1>4 DEF Unwritten
  <2>3. s.label < n + 1
    BY <1>1, <1>4 DEF Unwritten
  <2>4. ASSUME NEW l \in Label
        PROVE  x[l] = Unset <=> l >= n + 1 \/ s.label = l \/ \E a \in Obj : M[a] = l
    <3>1. x[l] = Unset <=> l >= n \/ s.label = l \/ \E a \in Obj : L[a] = l
      BY <1>4 DEF Unwritten
    <3>2. (\E a \in Obj : M[a] = l) <=> l = n \/ (\E a \in Obj : L[a] = l)
      BY <1>1, <1>3, <1>5 DEF Unwritten
    <3>3. l >= n <=> l >= n + 1 \/ l = n
      BY <1>1, <1>5
    <3>4. QED
      BY <3>1, <3>2, <3>3
  <2>5. QED
    BY <2>1, <2>2, <2>3, <2>4 DEF Unwritten
<1>7. Accounted(M, n + 1, x, s, f)
  BY <1>2, <1>6 DEF Accounted
<1>8. QED
  BY <1>7 DEF M

\* A fresh object stream takes the next label.
LEMMA IssueStm ==
  ASSUME NEW L, NEW n, NEW x, NEW s, NEW f, Accounted(L, n, x, s, f),
         s.label = 0, n < MaxLabel
  PROVE  Accounted(L, n + 1, x, [NoStm EXCEPT !.label = n], f)
<1> DEFINE t == [NoStm EXCEPT !.label = n]
<1>1. /\ n \in Nat /\ n > 0 /\ n \in AnyLabel
      /\ \A a \in Obj : L[a] \in Nat
  BY OutAssumption DEF Accounted, Types, AnyLabel
<1>2. t.label = n /\ t.members = << >> /\ t \in StmRecord
  BY <1>1, NoStmType DEF NoStm, StmRecord
<1> HIDE DEF t
<1>3. Types(L, n + 1, x, t, f)
  BY <1>1, <1>2, OutAssumption DEF Accounted, Types
<1>4. \A l \in Label : l \in Nat /\ l > 0
  BY OutAssumption DEF Label
<1>5. Unwritten(L, n, x, s)
  BY DEF Accounted
<1>6. Unwritten(L, n + 1, x, t)
  <2>1. \A a \in Obj : L[a] # 0 => L[a] < n + 1 /\ L[a] # t.label
    BY <1>1, <1>2, <1>5 DEF Unwritten
  <2>2. ASSUME NEW l \in Label
        PROVE  x[l] = Unset <=> l >= n + 1 \/ t.label = l \/ \E a \in Obj : L[a] = l
    <3>1. x[l] = Unset <=> l >= n \/ s.label = l \/ \E a \in Obj : L[a] = l
      BY <1>5 DEF Unwritten
    <3>2. l >= n <=> l >= n + 1 \/ l = n
      BY <1>1, <1>4
    <3>3. QED
      BY <1>2, <1>4, <3>1, <3>2
  <2>3. QED
    BY <1>1, <1>2, <1>5, <2>1, <2>2 DEF Unwritten
<1>7. Written(x, t, f)
  <2>1. Written(x, s, f)
    BY DEF Accounted
  <2>2. ASSUME NEW l \in Label, LocatedIn(l, x, s, f) PROVE LocatedIn(l, x, t, f)
    BY <2>2, <1>4 DEF LocatedIn
  <2>3. QED
    BY <2>1, <2>2 DEF Written
<1>8. Listed(x, t, f)
  BY <1>2 DEF Accounted, Listed
<1>9. Accounted(L, n + 1, x, t, f)
  BY <1>3, <1>6, <1>7, <1>8 DEF Accounted
<1>10. QED
  BY <1>9 DEF t

\* A labelled object becomes a member of the open stream.
LEMMA Store ==
  ASSUME NEW L, NEW n, NEW x, NEW s, NEW f, Accounted(L, n, x, s, f),
         NEW o \in Obj, L[o] # 0, s.label # 0, NEW m \in MemberRecord, m.label = L[o]
  PROVE  Accounted([L EXCEPT ![o] = 0], n,
                   [x EXCEPT ![L[o]] = InStm(s.label, Len(s.members))],
                   [s EXCEPT !.members = Append(@, m)], f)
<1> DEFINE k == L[o]
           M == [L EXCEPT ![o] = 0]
           y == [x EXCEPT ![L[o]] = InStm(s.label, Len(s.members))]
           t == [s EXCEPT !.members = Append(@, m)]
           i0 == Len(s.members)
<1>1. /\ L \in [Obj -> AnyLabel] /\ x \in [Label -> XrefRecord] /\ f \in Seq(EntryRecord)
      /\ s \in StmRecord /\ s.members \in Seq(MemberRecord) /\ i0 \in Nat
      /\ k \in Label /\ s.label \in Label /\ s.label \in Nat /\ n \in Nat
      /\ \A l \in Label : l \in Nat /\ l > 0
  BY OutAssumption DEF Accounted, Types, AnyLabel, StmRecord, Label
<1>2. M[o] = 0 /\ \A a \in Obj : a # o => M[a] = L[a]
  BY <1>1
<1>3. /\ t.label = s.label /\ t.members = Append(s.members, m) /\ t \in StmRecord
      /\ t.members \in Seq(MemberRecord)
      /\ DOMAIN t.members = 1 .. i0 + 1
      /\ t.members[i0 + 1] = m
      /\ \A i \in DOMAIN s.members : i \in DOMAIN t.members /\ t.members[i] = s.members[i]
  <2>1. Append(s.members, m) \in Seq(MemberRecord)
    BY <1>1
  <2>2. t.label = s.label /\ t.members = Append(s.members, m) /\ t \in StmRecord
    BY <1>1, <2>1 DEF StmRecord
  <2>3. QED
    BY <1>1, <2>1, <2>2
<1>4. /\ y \in [Label -> XrefRecord] /\ y[k] = InStm(s.label, i0)
      /\ \A l \in Label : l # k => y[l] = x[l]
  BY <1>1, XrefTypes
<1>5. M \in [Obj -> AnyLabel]
  BY <1>1, LabelRange
<1> HIDE DEF M, y, t, i0
<1>6. Types(M, n, y, t, f)
  BY <1>3, <1>4, <1>5 DEF Accounted, Types
<1>7. Unwritten(L, n, x, s)
  BY DEF Accounted
<1>8. k # s.label /\ k < n /\ x[k] = Unset
  BY <1>1, <1>7 DEF Unwritten
<1>9. Unwritten(M, n, y, t)
  <2>1. \A a, b \in Obj : M[a] # 0 /\ M[a] = M[b] => a = b
    BY <1>2, <1>7 DEF Unwritten
  <2>2. \A a \in Obj : M[a] # 0 => M[a] < n /\ M[a] # t.label
    BY <1>2, <1>3, <1>7 DEF Unwritten
  <2>3. ASSUME NEW l \in Label
        PROVE  y[l] = Unset <=> l >= n \/ t.label = l \/ \E a \in Obj : M[a] = l
    <3>1. CASE l = k
      <4>1. y[l] # Unset
        BY <1>4, <3>1, Kinds3
      <4>2. ~ \E a \in Obj : M[a] = l
        BY <1>1, <1>2, <1>7, <3>1 DEF Unwritten
      <4>3. QED
        BY <1>1, <1>3, <1>8, <3>1, <4>1, <4>2
    <3>2. CASE l # k
      <4>1. (\E a \in Obj : M[a] = l) <=> (\E a \in Obj : L[a] = l)
        BY <1>1, <1>2, <3>2
      <4>2. QED
        BY <1>3, <1>4, <1>7, <3>2, <4>1 DEF Unwritten
    <3>3. QED
      BY <3>1, <3>2
  <2>4. QED
    BY <1>3, <1>7, <2>1, <2>2, <2>3 DEF Unwritten
<1>10. Written(y, t, f)
  <2> SUFFICES ASSUME NEW l \in Label, y[l] # Unset PROVE LocatedIn(l, y, t, f)
    BY DEF Written
  <2>1. CASE l = k
    <3>1. /\ y[l].kind = "stm" /\ y[l].pos = s.label /\ y[l].idx = i0
      BY <1>4, <2>1, Kinds3
    <3>2. MemberAt(l, i0, t.members)
      BY <1>1, <1>3, <2>1 DEF MemberAt, i0
    <3>3. QED
      BY <1>1, <1>3, <3>1, <3>2 DEF LocatedIn
  <2>2. CASE l # k
    <3>1. LocatedIn(l, x, s, f) /\ y[l] = x[l]
      BY <1>4, <2>2 DEF Accounted, Written
    <3>2. CASE x[l].kind = "file"
      BY <3>1, <3>2 DEF LocatedIn
    <3>3. CASE x[l].kind = "stm"
      <4>1. CASE s.label = x[l].pos /\ MemberAt(l, x[l].idx, s.members)
        BY <1>3, <3>1, <3>3, <4>1 DEF LocatedIn, MemberAt
      <4>2. CASE /\ x[x[l].pos].kind = "file"
                 /\ MemberAt(l, x[l].idx, f[x[x[l].pos].pos].members)
        <5>1. x[l].pos \in Label /\ x[l].pos # k
          BY <1>8, <3>1, <3>3, <4>2, Kinds3 DEF LocatedIn
        <5>2. y[x[l].pos] = x[x[l].pos]
          BY <1>4, <5>1
        <5>3. QED
          BY <3>1, <3>3, <4>2, <5>1, <5>2 DEF LocatedIn
      <4>3. QED
        BY <3>1, <3>3, <4>1, <4>2 DEF LocatedIn
    <3>4. QED
      BY <3>1, <3>2, <3>3 DEF LocatedIn
  <2>3. QED
    BY <2>1, <2>2
<1>11. Listed(y, t, f)
  <2>1. Listed(x, s, f)
    BY DEF Accounted
  <2>2. ASSUME NEW l \in Label, x[l] # Unset PROVE y[l] = x[l]
    BY <1>4, <1>8, <2>2
  <2>3. ASSUME NEW p \in DOMAIN f
        PROVE  /\ y[f[p].label] = InFile(p)
               /\ \A i \in DOMAIN f[p].members :
                    y[f[p].members[i].label] = InStm(f[p].label, i - 1)
    <3>1. f[p].label \in Label /\ f[p].members \in Seq(MemberRecord)
      BY <1>1, SeqFacts
    <3>2. y[f[p].label] = InFile(p)
      BY <2>1, <2>2, <3>1, Kinds3 DEF Listed
    <3>3. ASSUME NEW i \in DOMAIN f[p].members
          PROVE  y[f[p].members[i].label] = InStm(f[p].label, i - 1)
      BY <2>1, <2>2, <3>1, MemberFacts, Kinds3 DEF Listed
    <3>4. QED
      BY <3>2, <3>3
  <2>4. ASSUME NEW i \in DOMAIN t.members
        PROVE  y[t.members[i].label] = InStm(t.label, i - 1)
    <3>1. CASE i = i0 + 1
      BY <1>1, <1>3, <1>4, <3>1 DEF i0
    <3>2. CASE i # i0 + 1
      <4>1. i \in DOMAIN s.members /\ t.members[i] = s.members[i]
        BY <1>1, <1>3, <3>2 DEF i0
      <4>2. s.members[i].label \in Label
        BY <1>1, <4>1, MemberFacts
      <4>3. QED
        <5>1. x[s.members[i].label] = InStm(s.label, i - 1)
          BY <2>1, <4>1 DEF Listed
        <5>2. y[s.members[i].label] = x[s.members[i].label]
          BY <2>2, <4>2, <5>1, Kinds3
        <5>3. QED
          BY <1>3, <4>1, <5>1, <5>2
    <3>3. QED
      BY <3>1, <3>2
  <2>5. QED
    BY <2>3, <2>4 DEF Listed
<1>12. Accounted(M, n, y, t, f)
  BY <1>6, <1>9, <1>10, <1>11 DEF Accounted
<1>13. QED
  BY <1>12 DEF M, y, t, i0

\* An entry with a label that had none is appended to the file; t is the
\* open stream afterwards, the same or, when e is that stream, none.
LEMMA AppendEntry ==
  ASSUME NEW x \in [Label -> XrefRecord], NEW s \in StmRecord, NEW f \in Seq(EntryRecord),
         Written(x, s, f), Listed(x, s, f),
         NEW e \in EntryRecord, x[e.label] = Unset, NEW t \in StmRecord,
         \/ t = s /\ e.members = << >>
         \/ t = NoStm /\ e.label = s.label /\ e.members = s.members
  PROVE  LET y == [x EXCEPT ![e.label] = InFile(Len(f) + 1)]
         IN  Written(y, t, Append(f, e)) /\ Listed(y, t, Append(f, e))
<1> DEFINE k == e.label
           q == Len(f) + 1
           y == [x EXCEPT ![k] = InFile(q)]
           g == Append(f, e)
<1>1. k \in Label /\ e.members \in Seq(MemberRecord) /\ q \in Nat /\ q > 0
  BY DEF EntryRecord
<1>2. /\ g \in Seq(EntryRecord) /\ DOMAIN g = 1 .. q /\ g[q] = e
      /\ \A p \in DOMAIN f : p \in DOMAIN g /\ g[p] = f[p]
      /\ DOMAIN f = 1 .. q - 1
  <2>1. g \in Seq(EntryRecord) /\ Len(g) = q /\ g[q] = e
    OBVIOUS
  <2>2. QED
    BY <1>1, <2>1
<1>3. y[k] = InFile(q) /\ \A l \in Label : l # k => y[l] = x[l]
  BY <1>1
<1>4. \A l \in Label : x[l] # Unset => y[l] = x[l]
  BY <1>3
<1>5. y[k].kind = "file" /\ y[k].pos = q
  BY <1>3, Kinds3
<1>6. s.members \in Seq(MemberRecord) /\ 0 \notin Label
  BY OutAssumption DEF StmRecord, Label
<1> HIDE DEF k, q, y, g
<1>7. ASSUME NEW l \in Label, y[l] # Unset PROVE LocatedIn(l, y, t, g)
  <2>1. CASE l = k
    <3>1. q \in DOMAIN g /\ g[q].label = l
      BY <1>1, <1>2, <2>1 DEF k
    <3>2. QED
      BY <1>5, <2>1, <3>1 DEF LocatedIn
  <2>2. CASE l # k
    <3>1. LocatedIn(l, x, s, f) /\ y[l] = x[l]
      BY <1>3, <1>7, <2>2 DEF Written
    <3>2. CASE x[l].kind = "file"
      BY <1>2, <3>1, <3>2 DEF LocatedIn
    <3>3. CASE x[l].kind = "stm"
      <4>1. CASE s.label = x[l].pos /\ MemberAt(l, x[l].idx, s.members)
        <5>1. CASE t = s
          BY <3>1, <3>3, <4>1, <5>1 DEF LocatedIn
        <5>2. CASE e.label = s.label /\ e.members = s.members
          <6>1. x[l].pos = k /\ MemberAt(l, x[l].idx, g[y[k].pos].members)
            BY <1>2, <1>5, <4>1, <5>2 DEF k
          <6>2. QED
            BY <1>1, <1>5, <3>1, <3>3, <6>1 DEF LocatedIn
        <5>3. QED
          BY <5>1, <5>2
      <4>2. CASE /\ x[x[l].pos].kind = "file"
                 /\ MemberAt(l, x[l].idx, f[x[x[l].pos].pos].members)
        <5> DEFINE a == x[l].pos
        <5>1. a \in Label /\ x[a].kind = "file"
          BY <3>1, <3>3, <4>2 DEF LocatedIn
        <5>2. x[a] # Unset
          BY <5>1, Kinds3
        <5>3. LocatedIn(a, x, s, f) /\ y[a] = x[a]
          BY <1>4, <5>1, <5>2 DEF Written
        <5>4. x[a].pos \in DOMAIN f
          BY <5>1, <5>3 DEF LocatedIn
        <5>5. g[y[a].pos] = f[x[a].pos]
          BY <1>2, <5>3, <5>4
        <5>6. QED
          BY <3>1, <3>3, <4>2, <5>1, <5>3, <5>5 DEF LocatedIn
      <4>3. QED
        BY <3>1, <3>3, <4>1, <4>2 DEF LocatedIn
    <3>4. QED
      BY <3>1, <3>2, <3>3 DEF LocatedIn
  <2>3. QED
    BY <2>1, <2>2
<1>8. ASSUME NEW p \in DOMAIN g
      PROVE  /\ y[g[p].label] = InFile(p)
             /\ \A i \in DOMAIN g[p].members :
                  y[g[p].members[i].label] = InStm(g[p].label, i - 1)
  <2>1. CASE p = q
    <3>1. y[g[p].label] = InFile(p)
      BY <1>2, <1>3, <2>1 DEF k
    <3>2. ASSUME NEW i \in DOMAIN g[p].members
          PROVE  y[g[p].members[i].label] = InStm(g[p].label, i - 1)
      <4>1. g[p] = e /\ e.label = s.label /\ e.members = s.members
        BY <1>2, <2>1, <3>2
      <4>2. s.members[i].label \in Label /\ i \in DOMAIN s.members
        BY <1>6, <3>2, <4>1, MemberFacts
      <4>3. x[s.members[i].label] = InStm(s.label, i - 1)
        BY <4>2 DEF Listed
      <4>4. QED
        BY <1>4, <4>1, <4>2, <4>3, Kinds3
    <3>3. QED
      BY <3>1, <3>2
  <2>2. CASE p # q
    <3>1. p \in DOMAIN f /\ g[p] = f[p]
      BY <1>1, <1>2, <2>2
    <3>2. f[p].label \in Label /\ f[p].members \in Seq(MemberRecord)
      BY <3>1, SeqFacts
    <3>3. x[f[p].label] = InFile(p)
      BY <3>1 DEF Listed
    <3>4. y[f[p].label] = InFile(p)
      BY <1>4, <3>2, <3>3, Kinds3
    <3>5. ASSUME NEW i \in DOMAIN f[p].members
          PROVE  y[f[p].members[i].label] = InStm(f[p].label, i - 1)
      <4>1. x[f[p].members[i].label] = InStm(f[p].label, i - 1)
        BY <3>1 DEF Listed
      <4>2. f[p].members[i].label \in Label
        BY <3>2, MemberFacts
      <4>3. QED
        BY <1>4, <4>1, <4>2, Kinds3
    <3>6. QED
      BY <3>1, <3>4, <3>5
  <2>3. QED
    BY <2>1, <2>2
<1>9. ASSUME NEW i \in DOMAIN t.members
      PROVE  y[t.members[i].label] = InStm(t.label, i - 1)
  <2>1. CASE t = s
    <3>1. x[s.members[i].label] = InStm(s.label, i - 1) /\ s.members[i].label \in Label
      BY <1>6, <1>9, <2>1, MemberFacts DEF Listed
    <3>2. QED
      BY <1>4, <2>1, <3>1, Kinds3
  <2>2. CASE t = NoStm
    BY <1>9, <2>2 DEF NoStm
  <2>3. QED
    BY <2>1, <2>2
<1>10. Written(y, t, g) /\ Listed(y, t, g)
  BY <1>7, <1>8, <1>9 DEF Written, Listed
<1>11. QED
  BY <1>10 DEF k, q, y, g

\* A labelled object is written by itself.
LEMMA Write ==
  ASSUME NEW L, NEW n, NEW x, NEW s, NEW f, Accounted(L, n, x, s, f),
         NEW o \in Obj, L[o] # 0,
         NEW e \in EntryRecord, e.label = L[o], e.members = << >>
  PROVE  Accounted([L EXCEPT ![o] = 0], n, [x EXCEPT ![L[o]] = InFile(Len(f) + 1)], s,
                   Append(f, e))
<1> DEFINE k == L[o]
           M == [L EXCEPT ![o] = 0]
           y == [x EXCEPT ![L[o]] = InFile(Len(f) + 1)]
<1>1. /\ L \in [Obj -> AnyLabel] /\ x \in [Label -> XrefRecord] /\ f \in Seq(EntryRecord)
      /\ s \in StmRecord /\ k \in Label /\ Len(f) + 1 \in Nat
      /\ \A l \in Label : l \in Nat /\ l > 0
  BY OutAssumption DEF Accounted, Types, AnyLabel, Label
<1>2. M[o] = 0 /\ (\A a \in Obj : a # o => M[a] = L[a]) /\ M \in [Obj -> AnyLabel]
  BY <1>1, LabelRange
<1>3. /\ y \in [Label -> XrefRecord] /\ y[k] # Unset
      /\ \A l \in Label : l # k => y[l] = x[l]
  BY <1>1, XrefTypes, Kinds3
<1>4. Unwritten(L, n, x, s)
  BY DEF Accounted
<1>5. x[k] = Unset
  BY <1>1, <1>4 DEF Unwritten
<1>6. Written(y, s, Append(f, e)) /\ Listed(y, s, Append(f, e))
  BY <1>1, <1>5, AppendEntry DEF Accounted
<1> HIDE DEF M, y
<1>7. Append(f, e) \in Seq(EntryRecord)
  BY <1>1
<1>8. Types(M, n, y, s, Append(f, e))
  BY <1>2, <1>3, <1>7 DEF Accounted, Types
<1>9. k < n /\ k # s.label
  BY <1>4 DEF Unwritten
<1> HIDE DEF k
<1>10. ASSUME NEW l \in Label
       PROVE  y[l] = Unset <=> l >= n \/ s.label = l \/ \E a \in Obj : M[a] = l
  <2>1. CASE l = k
    <3>1. ~ \E a \in Obj : M[a] = l
      BY <1>1, <1>2, <1>4, <2>1 DEF Unwritten, k
    <3>2. ~(l >= n)
      BY <1>1, <1>9, <2>1, OutAssumption DEF Accounted, Types
    <3>3. QED
      BY <1>3, <1>9, <2>1, <3>1, <3>2
  <2>2. CASE l # k
    <3>1. (\E a \in Obj : M[a] = l) <=> (\E a \in Obj : L[a] = l)
      BY <1>1, <1>2, <2>2 DEF k
    <3>2. QED
      BY <1>3, <1>4, <2>2, <3>1 DEF Unwritten
  <2>3. QED
    BY <2>1, <2>2
<1>11. Unwritten(M, n, y, s)
  BY <1>2, <1>4, <1>10 DEF Unwritten
<1>12. Accounted(M, n, y, s, Append(f, e))
  BY <1>6, <1>8, <1>11 DEF Accounted
<1>13. QED
  BY <1>12 DEF M, y, k

\* release_objstm: the open stream is written.
LEMMA WriteStm ==
  ASSUME NEW L, NEW n, NEW x, NEW s, NEW f, Accounted(L, n, x, s, f), s.label # 0,
         NEW e \in EntryRecord, e.label = s.label, e.members = s.members
  PROVE  Accounted(L, n, [x EXCEPT ![s.label] = InFile(Len(f) + 1)], NoStm, Append(f, e))
<1> DEFINE k == s.label
           y == [x EXCEPT ![s.label] = InFile(Len(f) + 1)]
<1>1. /\ L \in [Obj -> AnyLabel] /\ x \in [Label -> XrefRecord] /\ f \in Seq(EntryRecord)
      /\ s \in StmRecord /\ k \in Label /\ Len(f) + 1 \in Nat
      /\ n \in Nat /\ n > 0
      /\ \A l \in Label : l \in Nat /\ l > 0
  BY OutAssumption DEF Accounted, Types, AnyLabel, StmRecord, Label
<1>2. /\ y \in [Label -> XrefRecord] /\ y[k] # Unset
      /\ \A l \in Label : l # k => y[l] = x[l]
  BY <1>1, XrefTypes, Kinds3
<1>3. Unwritten(L, n, x, s)
  BY DEF Accounted
<1>4. x[k] = Unset
  BY <1>1, <1>3 DEF Unwritten
<1>5. Written(y, NoStm, Append(f, e)) /\ Listed(y, NoStm, Append(f, e))
  BY <1>1, <1>4, NoStmType, AppendEntry DEF Accounted
<1> HIDE DEF y
<1>6. Append(f, e) \in Seq(EntryRecord)
  BY <1>1
<1>7. Types(L, n, y, NoStm, Append(f, e))
  BY <1>2, <1>6, NoStmType DEF Accounted, Types
<1>8. NoStm.label = 0
  BY DEF NoStm
<1>9. ASSUME NEW l \in Label
      PROVE  y[l] = Unset <=> l >= n \/ NoStm.label = l \/ \E a \in Obj : L[a] = l
  <2>1. CASE l = k
    <3>1. ~(l >= n) /\ ~ \E a \in Obj : L[a] = l
      BY <1>1, <1>3, <2>1 DEF Unwritten
    <3>2. QED
      BY <1>1, <1>2, <1>8, <2>1, <3>1
  <2>2. CASE l # k
    BY <1>1, <1>2, <1>3, <1>8, <2>2 DEF Unwritten
  <2>3. QED
    BY <2>1, <2>2
<1>10. Unwritten(L, n, y, NoStm)
  BY <1>1, <1>3, <1>8, <1>9 DEF Unwritten
<1>11. Accounted(L, n, y, NoStm, Append(f, e))
  BY <1>5, <1>7, <1>10 DEF Accounted
<1>12. QED
  BY <1>11 DEF y

\* The cross reference stream takes the next label and is written at once,
\* and so is the encryption dictionary.
LEMMA WriteFresh ==
  ASSUME NEW L, NEW n, NEW x, NEW f, Accounted(L, n, x, NoStm, f), n < MaxLabel,
         NEW e \in EntryRecord, e.label = n, e.members = << >>
  PROVE  Accounted(L, n + 1, [x EXCEPT ![n] = InFile(Len(f) + 1)], NoStm, Append(f, e))
<1> DEFINE y == [x EXCEPT ![n] = InFile(Len(f) + 1)]
<1>1. /\ L \in [Obj -> AnyLabel] /\ x \in [Label -> XrefRecord] /\ f \in Seq(EntryRecord)
      /\ n \in Label /\ n \in Nat /\ Len(f) + 1 \in Nat /\ NoStm.label = 0
      /\ \A a \in Obj : L[a] \in Nat
      /\ \A l \in Label : l \in Nat /\ l > 0
  BY OutAssumption DEF Accounted, Types, AnyLabel, Label, NoStm
<1>2. /\ y \in [Label -> XrefRecord] /\ y[n] # Unset
      /\ \A l \in Label : l # n => y[l] = x[l]
  BY <1>1, XrefTypes, Kinds3
<1>3. Unwritten(L, n, x, NoStm)
  BY DEF Accounted
<1>4. x[n] = Unset
  BY <1>1, <1>3 DEF Unwritten
<1>5. Written(y, NoStm, Append(f, e)) /\ Listed(y, NoStm, Append(f, e))
  BY <1>1, <1>4, NoStmType, AppendEntry DEF Accounted
<1> HIDE DEF y
<1>6. Append(f, e) \in Seq(EntryRecord)
  BY <1>1
<1>7. Types(L, n + 1, y, NoStm, Append(f, e))
  BY <1>1, <1>2, <1>6, NoStmType, OutAssumption DEF Accounted, Types
<1>8. ASSUME NEW l \in Label
      PROVE  y[l] = Unset <=> l >= n + 1 \/ NoStm.label = l \/ \E a \in Obj : L[a] = l
  <2>1. CASE l = n
    <3>1. ~(l >= n + 1) /\ ~ \E a \in Obj : L[a] = l
      BY <1>1, <1>3, <2>1 DEF Unwritten
    <3>2. QED
      BY <1>1, <1>2, <2>1, <3>1
  <2>2. CASE l # n
    <3>1. l >= n <=> l >= n + 1
      BY <1>1, <2>2
    <3>2. QED
      BY <1>2, <1>3, <2>2, <3>1 DEF Unwritten
  <2>3. QED
    BY <2>1, <2>2
<1>9. Unwritten(L, n + 1, y, NoStm)
  BY <1>1, <1>3, <1>8 DEF Unwritten
<1>10. Accounted(L, n + 1, y, NoStm, Append(f, e))
  BY <1>5, <1>7, <1>9 DEF Accounted
<1>11. QED
  BY <1>10 DEF y

(***************************************************************************)
(* The invariant of the specification.                                      *)
(***************************************************************************)
Labels == [o \in Obj |-> heap[o].label]

LabelInv ==
  /\ Accounted(Labels, nextLabel, xref, stm, file)
  /\ \A o \in Obj : ~Live(o) => heap[o].label = 0
  /\ phase = "init" => nextLabel = 1 /\ stm = NoStm /\ file = << >> /\ work = << >>

LEMMA NewLabels ==
  ASSUME NEW t, NEW o, NEW l
  PROVE  /\ NewObj(t).label = 0 /\ NewObj(t).type = t
         /\ NewRef(o, l).label = 0 /\ NewRef(o, l).type = "ref"
         /\ Dead.label = 0 /\ Dead.type = "none"
BY DEF NewObj, NewRef, Dead

\* Steps that write nothing and leave every label where it is.
LEMMA LabelFrame ==
  ASSUME LabelInv, UNCHANGED << nextLabel, xref, stm, file >>, phase' # "init",
         \A o \in Obj : heap'[o].label = heap[o].label,
         \A o \in Obj : heap'[o].type = "none" => heap'[o].label = 0
  PROVE  LabelInv'
<1>1. Labels' = Labels
  BY DEF Labels
<1>2. QED
  BY <1>1 DEF LabelInv, Live

\* Steps that may label o.
LEMMA LabelIssued ==
  ASSUME TypeOK, LabelInv, NEW o \in Obj, heap[o].label # 0 \/ CanLabel,
         nextLabel' = NextAfter(o), UNCHANGED << xref, stm, file >>, phase' # "init",
         heap'[o].label = LabelOf(o), heap'[o].type # "none",
         \A a \in Obj : a # o => heap'[a].label = heap[a].label,
         \A a \in Obj : heap'[a].type = "none" => heap'[a].label = 0
  PROVE  LabelInv'
<1>1. CASE heap[o].label # 0
  <2>1. heap'[o].label = heap[o].label /\ nextLabel' = nextLabel
    BY <1>1 DEF LabelOf, NextAfter
  <2>2. \A a \in Obj : heap'[a].label = heap[a].label
    BY <2>1
  <2>3. QED
    BY <2>1, <2>2, LabelFrame
<1>2. CASE heap[o].label = 0
  <2>1. heap'[o].label = nextLabel /\ nextLabel' = nextLabel + 1 /\ nextLabel < MaxLabel
    BY <1>2 DEF LabelOf, NextAfter, CanLabel
  <2>2. Labels' = [Labels EXCEPT ![o] = nextLabel]
    BY <2>1 DEF Labels
  <2>3. Labels[o] = 0
    BY <1>2 DEF Labels
  <2>4. Accounted([Labels EXCEPT ![o] = nextLabel], nextLabel + 1, xref, stm, file)
    BY <2>1, <2>3, Issue DEF LabelInv
  <2>5. Accounted(Labels, nextLabel, xref, stm, file)'
    BY <2>1, <2>2, <2>4
  <2>6. QED
    BY <2>5 DEF LabelInv, Live
<1>3. QED
  BY <1>1, <1>2

LEMMA LabelInit == Init => LabelInv
<1> SUFFICES ASSUME Init PROVE LabelInv
  OBVIOUS
<1>1. Labels = [o \in Obj |-> 0]
  BY NewLabels DEF Init, Labels
<1>2. /\ nextLabel = 1 /\ xref = [l \in Label |-> Unset] /\ stm = NoStm /\ file = << >>
      /\ NoStm.label = 0 /\ NoStm.members = << >> /\ work = << >>
  BY DEF Init, NoStm
<1>3. \A l \in Label : l \in Nat /\ l >= 1
  BY OutAssumption DEF Label
<1>4. Types(Labels, nextLabel, xref, stm, file)
  BY <1>1, <1>2, LabelRange, NoStmType, XrefTypes, OutAssumption DEF Types
<1>5. Unwritten(Labels, nextLabel, xref, stm)
  BY <1>1, <1>2, <1>3 DEF Unwritten
<1>6. Written(xref, stm, file)
  BY <1>2 DEF Written
<1>7. Listed(xref, stm, file)
  BY <1>2 DEF Listed
<1>8. \A o \in Obj : heap[o].label = 0
  BY NewLabels DEF Init
<1>9. QED
  BY <1>2, <1>4, <1>5, <1>6, <1>7, <1>8 DEF LabelInv, Accounted

LEMMA LabelOutOpen ==
  ASSUME TypeOK, LabelInv, NEW c \in Obj, OutOpen(c) PROVE LabelInv'
<1>1. /\ heap \in [Obj -> ObjRecord] /\ phase' = "open"
      /\ nextLabel = 1 /\ stm = NoStm /\ file = << >> /\ stm' = stm
      /\ heap' = [heap EXCEPT ![c] = Catalog] /\ 2 < MaxLabel
  BY OutAssumption DEF TypeOK, OutOpen, LabelInv
<1>2. Catalog.label = 1 /\ Catalog.type = "dict"
  BY DEF Catalog, NewObj, Dead
<1>3. \A o \in Obj : heap[o].label = 0
  BY <1>1, OutAssumption DEF LabelInv, Accounted, Unwritten, Types, Labels, AnyLabel
<1>4. Labels' = [Labels EXCEPT ![c] = 1] /\ Labels[c] = 0
  BY <1>1, <1>2, <1>3 DEF Labels
<1>5. Accounted(Labels', 2, xref, NoStm, file)
  <2>1. Accounted(Labels, 1, xref, NoStm, file)
    BY <1>1 DEF LabelInv
  <2>2. 1 < MaxLabel /\ 1 + 1 = 2
    BY <1>1, OutAssumption
  <2>3. Accounted([Labels EXCEPT ![c] = 1], 1 + 1, xref, NoStm, file)
    BY <1>4, <2>1, <2>2, Issue
  <2>4. QED
    BY <1>4, <2>2, <2>3
<1>6. Accounted(Labels, nextLabel, xref, stm, file)'
  <2>1. CASE Encrypt
    <3> DEFINE e == Entry(2, "dict", FALSE, << >>)
    <3>1. nextLabel' = 3 /\ file' = << e >> /\ xref' = [xref EXCEPT ![2] = InFile(1)]
      BY <2>1 DEF OutOpen
    <3>2. << >> \in Seq(MemberRecord) /\ 2 \in Label
      <4>1. 2 \in Label
        BY <1>1, OutAssumption DEF Label
      <4>2. QED
        BY <4>1
    <3>3. e \in EntryRecord /\ e.label = 2 /\ e.members = << >>
      BY <3>2 DEF Entry, EntryRecord, ObjType, Containers
    <3> HIDE DEF e
    <3>4. file' = Append(file, e) /\ Len(file) + 1 = 1
      BY <1>1, <3>1
    <3>5. Accounted(Labels', 2 + 1, [xref EXCEPT ![2] = InFile(Len(file) + 1)],
                    NoStm, Append(file, e))
      BY <1>1, <1>5, <3>3, WriteFresh
    <3>6. QED
      BY <1>1, <3>1, <3>4, <3>5
  <2>2. CASE ~Encrypt
    <3>1. nextLabel' = 2 /\ xref' = xref /\ file' = file
      BY <2>2 DEF OutOpen
    <3>2. QED
      BY <1>1, <1>5, <3>1
  <2>3. QED
    BY <2>1, <2>2
<1>7. \A o \in Obj : heap'[o].type = "none" => heap'[o].label = 0
  BY <1>1, <1>2, <1>3
<1>8. QED
  BY <1>1, <1>6, <1>7 DEF LabelInv, Live

LEMMA LabelCaller ==
  ASSUME TypeOK, LabelInv, CallerStep PROVE LabelInv'
<1>1. heap \in [Obj -> ObjRecord] /\ \A o \in Obj : heap[o].type = "none" => heap[o].label = 0
  BY DEF TypeOK, LabelInv, Live
<1>2. ASSUME NEW o \in Obj, NEW t \in Kinds, Alloc(o, t) PROVE LabelInv'
  <2>1. /\ heap' = [heap EXCEPT ![o] = NewObj(t)] /\ heap[o].type = "none"
        /\ UNCHANGED << nextLabel, xref, stm, file >> /\ phase' # "init"
    BY <1>2 DEF Alloc, Live, outVars, Idle
  <2>2. QED
    BY <1>1, <2>1, NewLabels, LabelFrame
<1>3. ASSUME NEW o \in Obj, Link(o) PROVE LabelInv'
  <2>1. /\ heap' = [heap EXCEPT ![o].rc = @ + 1]
        /\ UNCHANGED << nextLabel, xref, stm, file >> /\ phase' # "init"
    BY <1>3 DEF Link, outVars, Idle
  <2>2. \A a \in Obj : heap'[a].label = heap[a].label /\ heap'[a].type = heap[a].type
    BY <1>1, <2>1 DEF ObjRecord
  <2>3. QED
    BY <1>1, <2>1, <2>2, LabelFrame
<1>4. ASSUME NEW o \in Obj, NEW r \in Obj, Ref(o, r) PROVE LabelInv'
  <2>1. /\ heap' = [heap EXCEPT ![o].label = LabelOf(o), ![r] = NewRef(o, LabelOf(o))]
        /\ nextLabel' = NextAfter(o) /\ UNCHANGED << xref, stm, file >>
        /\ heap[o].label # 0 \/ CanLabel
        /\ heap[r].type = "none" /\ heap[o].type # "none" /\ phase' # "init"
    BY <1>4 DEF Ref, Live, Idle
  <2>2. /\ heap'[o].label = LabelOf(o) /\ heap'[o].type = heap[o].type
        /\ heap'[r].label = 0 /\ heap'[r].type = "ref"
        /\ \A a \in Obj \ {o, r} : heap'[a] = heap[a]
    <3>1. o # r /\ heap'[r] = NewRef(o, LabelOf(o))
      BY <1>1, <2>1
    <3>2. /\ heap'[o] = [heap[o] EXCEPT !.label = LabelOf(o)]
          /\ \A a \in Obj \ {o, r} : heap'[a] = heap[a]
      BY <1>1, <2>1, <3>1
    <3>3. heap'[o].label = LabelOf(o) /\ heap'[o].type = heap[o].type
      BY <1>1, <3>2 DEF ObjRecord
    <3>4. QED
      BY <3>1, <3>2, <3>3, NewLabels
  <2>3. QED
    BY <1>1, <2>1, <2>2, LabelIssued
<1>5. ASSUME NEW o \in Obj, RefFails(o) PROVE LabelInv'
  <2>1. UNCHANGED << heap, nextLabel, xref, stm, file >> /\ phase' # "init"
    BY <1>5 DEF RefFails, outVars
  <2>2. QED
    BY <1>1, <2>1, LabelFrame
<1>6. ASSUME NEW c \in Obj, NEW o \in Obj, AddKid(c, o) PROVE LabelInv'
  <2>1. /\ heap' = [heap EXCEPT ![c].kids = Append(@, o)]
        /\ UNCHANGED << nextLabel, xref, stm, file >> /\ phase' # "init"
    BY <1>6 DEF AddKid, outVars, Idle
  <2>2. \A a \in Obj : heap'[a].label = heap[a].label /\ heap'[a].type = heap[a].type
    BY <1>1, <2>1 DEF ObjRecord
  <2>3. QED
    BY <1>1, <2>1, <2>2, LabelFrame
<1>7. ASSUME NEW c \in Obj, NEW o \in Obj, NEW i \in 1 .. MaxKids, ReplaceKid(c, i, o)
      PROVE  LabelInv'
  <2>1. /\ heap' = [heap EXCEPT ![c].kids[i] = o]
        /\ UNCHANGED << nextLabel, xref, stm, file >> /\ phase' # "init"
    BY <1>7 DEF ReplaceKid, outVars, Idle
  <2>2. \A a \in Obj : heap'[a].label = heap[a].label /\ heap'[a].type = heap[a].type
    BY <1>1, <2>1 DEF ObjRecord
  <2>3. QED
    BY <1>1, <2>1, <2>2, LabelFrame
<1>8. ASSUME NEW c \in Obj, NEW i \in 1 .. MaxKids, RemoveKid(c, i) PROVE LabelInv'
  <2> DEFINE rest == SubSeq(heap[c].kids, 1, i - 1)
                       \o SubSeq(heap[c].kids, i + 1, Len(heap[c].kids))
  <2>1. /\ heap' = [heap EXCEPT ![c].kids = rest]
        /\ UNCHANGED << nextLabel, xref, stm, file >> /\ phase' # "init"
    BY <1>8 DEF RemoveKid, outVars, Idle
  <2> HIDE DEF rest
  <2>2. \A a \in Obj : heap'[a].label = heap[a].label /\ heap'[a].type = heap[a].type
    BY <1>1, <2>1 DEF ObjRecord
  <2>3. QED
    BY <1>1, <2>1, <2>2, LabelFrame
<1>9. ASSUME NEW o \in Obj, SetInfo(o) PROVE LabelInv'
  <2>1. /\ heap' = [heap EXCEPT ![o].label = LabelOf(o)]
        /\ nextLabel' = NextAfter(o) /\ UNCHANGED << xref, stm, file >>
        /\ heap[o].label # 0 \/ CanLabel
        /\ heap[o].type # "none" /\ phase' # "init"
    BY <1>9 DEF SetInfo, Idle
  <2>2. /\ heap'[o].label = LabelOf(o) /\ heap'[o].type = heap[o].type
        /\ \A a \in Obj \ {o} : heap'[a] = heap[a]
    BY <1>1, <2>1 DEF ObjRecord
  <2>3. QED
    BY <1>1, <2>1, <2>2, LabelIssued
<1>10. ASSUME NEW o \in Obj, Release(o) PROVE LabelInv'
  <2>1. UNCHANGED << heap, nextLabel, xref, stm, file >> /\ phase' # "init"
    BY <1>10 DEF Release, outVars, Idle
  <2>2. QED
    BY <1>1, <2>1, LabelFrame
<1>11. QED
  BY <1>2, <1>3, <1>4, <1>5, <1>6, <1>7, <1>8, <1>9, <1>10 DEF CallerStep

\* What Destroy does to the labels.
LEMMA LabelDestroy ==
  ASSUME TypeOK, NEW o \in Obj, Destroy(o)
  PROVE  /\ Labels' = [Labels EXCEPT ![o] = 0]
         /\ heap'[o].label = 0
         /\ \A a \in Obj : a # o => heap'[a] = heap[a]
<1>1. heap' = [heap EXCEPT ![o] = Dead] /\ heap \in [Obj -> ObjRecord]
  BY DEF Destroy, TypeOK
<1>2. heap'[o].label = 0 /\ \A a \in Obj : a # o => heap'[a] = heap[a]
  BY <1>1, NewLabels
<1>3. QED
  BY <1>2 DEF Labels

LEMMA LabelToFile ==
  ASSUME TypeOK, LabelInv, NEW o \in Obj, ReleaseToFile(o) PROVE LabelInv'
<1> DEFINE e == Entry(heap[o].label, heap[o].type, Encrypt, << >>)
<1>1. /\ heap[o].label # 0 /\ phase' = phase /\ phase # "init"
      /\ UNCHANGED << nextLabel, stm >>
      /\ file' = Append(file, e)
      /\ xref' = [xref EXCEPT ![heap[o].label] = InFile(Len(file) + 1)]
      /\ Destroy(o)
  BY DEF ReleaseToFile, LastLabelled, Releasing, LabelInv
<1>2. e \in EntryRecord /\ e.label = heap[o].label /\ e.members = << >>
  <2>1. heap[o].label \in Label /\ heap[o].type \in ObjType
    BY <1>1, ObjFields
  <2>2. << >> \in Seq(MemberRecord)
    OBVIOUS
  <2>3. QED
    BY <2>1, <2>2, OutAssumption DEF Entry, EntryRecord
<1> HIDE DEF e
<1>3. Labels[o] = heap[o].label
  BY DEF Labels
<1>4. Accounted([Labels EXCEPT ![o] = 0], nextLabel,
                [xref EXCEPT ![Labels[o]] = InFile(Len(file) + 1)], stm, Append(file, e))
  BY <1>1, <1>2, <1>3, Write DEF LabelInv
<1>5. Accounted(Labels, nextLabel, xref, stm, file)'
  BY <1>1, <1>3, <1>4, LabelDestroy
<1>6. \A a \in Obj : heap'[a].type = "none" => heap'[a].label = 0
  BY <1>1, LabelDestroy DEF LabelInv, Live
<1>7. QED
  BY <1>1, <1>5, <1>6 DEF LabelInv, Live

LEMMA LabelToObjStm ==
  ASSUME TypeOK, LabelInv, NEW o \in Obj, ReleaseToObjStm(o) PROVE LabelInv'
<1> DEFINE k == heap[o].label
           m == Member(heap[o].label, heap[o].type, FALSE)
           s0 == OpenStm
           s == StmWith(o)
           n1 == IF stm.label = 0 THEN nextLabel + 1 ELSE nextLabel
           L1 == [Labels EXCEPT ![o] = 0]
           x1 == [xref EXCEPT ![k] = InStm(s.label, Len(s.members) - 1)]
<1>1. /\ k # 0 /\ phase' = phase /\ phase # "init" /\ Destroy(o)
      /\ stm.label # 0 \/ CanLabel
      /\ nextLabel' = n1
      /\ IF Len(s.members) = ObjStmMax
         THEN /\ stm' = NoStm
              /\ file' = FileWithStm(s)
              /\ xref' = [x1 EXCEPT ![s.label] = InFile(Len(file) + 1)]
         ELSE /\ stm' = s /\ xref' = x1 /\ UNCHANGED file
  BY DEF ReleaseToObjStm, LastLabelled, Releasing, LabelInv
<1>2. k \in Label /\ heap[o].type \in ObjType /\ Labels[o] = k
  BY <1>1, ObjFields DEF Labels
<1>3. m \in MemberRecord /\ m.label = k
  BY <1>2 DEF Member, MemberRecord
<1>4. /\ s.label \in Label /\ s.label # 0 /\ s \in StmRecord
      /\ s.members = Append(s0.members, m) /\ s = [s0 EXCEPT !.members = Append(@, m)]
      /\ s0.members \in Seq(MemberRecord) /\ Len(s.members) = Len(s0.members) + 1
      /\ s.members \in Seq(MemberRecord)
  <2>1. /\ s.label \in Label /\ s \in StmRecord
        /\ s.members = Append(s0.members, m)
        /\ s0.members \in Seq(MemberRecord) /\ Len(s.members) = Len(s0.members) + 1
        /\ s.members \in Seq(MemberRecord)
    BY <1>1, TypeStm
  <2>2. s.label # 0
    BY <2>1, OutAssumption DEF Label
  <2>3. s = [s0 EXCEPT !.members = Append(@, m)]
    BY DEF StmWith
  <2>4. QED
    BY <2>1, <2>2, <2>3
<1>5. Accounted(Labels, n1, xref, s0, file) /\ s0.label # 0 /\ s.label = s0.label
  <2>1. CASE stm.label = 0
    <3>1. nextLabel < MaxLabel /\ s0 = [NoStm EXCEPT !.label = nextLabel] /\ n1 = nextLabel + 1
      BY <1>1, <2>1 DEF CanLabel, OpenStm
    <3>2. Accounted(Labels, n1, xref, s0, file)
      BY <2>1, <3>1, IssueStm DEF LabelInv
    <3>3. s0.label = nextLabel /\ nextLabel # 0
      BY <3>1 DEF NoStm, TypeOK
    <3>4. s.label = nextLabel
      BY <1>1, <2>1, TypeStm
    <3>5. QED
      BY <3>2, <3>3, <3>4
  <2>2. CASE stm.label # 0
    <3>1. s0 = stm /\ n1 = nextLabel
      BY <2>2 DEF OpenStm
    <3>2. s.label = stm.label
      BY <1>1, <2>2, TypeStm
    <3>3. QED
      BY <2>2, <3>1, <3>2 DEF LabelInv
  <2>3. QED
    BY <2>1, <2>2
<1> HIDE DEF k, m, s0, s, n1
<1>6. Accounted(L1, n1, x1, s, file)
  <2>1. Accounted([Labels EXCEPT ![o] = 0], n1,
                  [xref EXCEPT ![Labels[o]] = InStm(s0.label, Len(s0.members))],
                  [s0 EXCEPT !.members = Append(@, m)], file)
    BY <1>1, <1>2, <1>3, <1>5, Store
  <2>2. Len(s.members) - 1 = Len(s0.members)
    BY <1>4
  <2>3. QED
    BY <1>2, <1>4, <1>5, <2>1, <2>2
<1> HIDE DEF x1
<1>7. Accounted(Labels, nextLabel, xref, stm, file)'
  <2>1. Labels' = L1
    BY <1>1, LabelDestroy
  <2>2. CASE Len(s.members) = ObjStmMax
    <3> DEFINE e == Entry(s.label, "stream", Encrypt, s.members)
    <3>1. "stream" \in ObjType \cup {"xref"}
      BY DEF ObjType, Containers
    <3>2. e \in EntryRecord /\ e.label = s.label /\ e.members = s.members
      BY <1>4, <3>1, OutAssumption DEF Entry, EntryRecord
    <3>3. file' = Append(file, e)
      BY <1>1, <2>2 DEF FileWithStm
    <3> HIDE DEF e
    <3>4. Accounted(L1, n1, [x1 EXCEPT ![s.label] = InFile(Len(file) + 1)], NoStm,
                    Append(file, e))
      BY <1>4, <1>6, <3>2, WriteStm
    <3>5. QED
      BY <1>1, <2>1, <2>2, <3>3, <3>4
  <2>3. CASE Len(s.members) # ObjStmMax
    BY <1>1, <1>6, <2>1, <2>3
  <2>4. QED
    BY <2>2, <2>3
<1>8. \A a \in Obj : heap'[a].type = "none" => heap'[a].label = 0
  BY <1>1, LabelDestroy DEF LabelInv, Live
<1>9. QED
  BY <1>1, <1>7, <1>8 DEF LabelInv, Live

LEMMA LabelRelease == ASSUME TypeOK, LabelInv, ReleaseStep PROVE LabelInv'
<1>1. heap \in [Obj -> ObjRecord] /\ \A o \in Obj : heap[o].type = "none" => heap[o].label = 0
  BY DEF TypeOK, LabelInv, Live
<1>2. ASSUME NEW o \in Obj, ReleaseShared(o) PROVE LabelInv'
  <2>1. /\ heap' = [heap EXCEPT ![o].rc = @ - 1] /\ phase' # "init"
        /\ UNCHANGED << nextLabel, xref, stm, file >>
    BY <1>2 DEF ReleaseShared, Releasing, outVars, LabelInv
  <2>2. \A a \in Obj : heap'[a].label = heap[a].label /\ heap'[a].type = heap[a].type
    BY <1>1, <2>1 DEF ObjRecord
  <2>3. QED
    BY <1>1, <2>1, <2>2, LabelFrame
<1>3. ASSUME NEW o \in Obj, ReleaseUnlabelled(o) PROVE LabelInv'
  <2>1. /\ Destroy(o) /\ heap[o].label = 0 /\ phase' # "init"
        /\ UNCHANGED << nextLabel, xref, stm, file >>
    BY <1>3 DEF ReleaseUnlabelled, Releasing, outVars, LabelInv
  <2>2. QED
    BY <1>1, <2>1, LabelDestroy, LabelFrame
<1>4. ASSUME NEW o \in Obj, ReleaseFails(o) PROVE LabelInv'
  <2>1. UNCHANGED << heap, nextLabel, xref, stm, file >> /\ phase' # "init"
    BY <1>4 DEF ReleaseFails
  <2>2. QED
    BY <1>1, <2>1, LabelFrame
<1>5. QED
  BY <1>2, <1>3, <1>4, LabelToFile, LabelToObjStm DEF ReleaseStep

\* The file and the table once the open object stream is out.
LEMMA LabelFlushed ==
  ASSUME TypeOK, LabelInv PROVE Accounted(Labels, nextLabel, FlushedXref, NoStm, FlushedFile)
<1>1. stm \in StmRecord
  BY DEF TypeOK, StmRecord, AnyLabel
<1>2. CASE stm.label = 0
  <2>1. Accounted(Labels, nextLabel, xref, stm, file)
    BY DEF LabelInv
  <2>2. \A l \in Label : l # 0
    BY OutAssumption DEF Label
  <2>3. NoStm.label = 0 /\ NoStm.members = << >>
    BY DEF NoStm
  <2>4. Types(Labels, nextLabel, xref, NoStm, file)
    BY <2>1, NoStmType DEF Accounted, Types
  <2>5. Unwritten(Labels, nextLabel, xref, NoStm)
    BY <1>2, <2>1, <2>3 DEF Accounted, Unwritten
  <2>6. Written(xref, NoStm, file)
    BY <1>2, <2>1, <2>2 DEF Accounted, Written, LocatedIn
  <2>7. Listed(xref, NoStm, file)
    BY <2>1, <2>3 DEF Accounted, Listed
  <2>8. Accounted(Labels, nextLabel, xref, NoStm, file)
    BY <2>4, <2>5, <2>6, <2>7 DEF Accounted
  <2>9. QED
    BY <1>2, <2>8 DEF FlushedXref, FlushedFile
<1>3. CASE stm.label # 0
  <2> DEFINE e == Entry(stm.label, "stream", Encrypt, stm.members)
  <2>1. "stream" \in ObjType \cup {"xref"}
    BY DEF ObjType, Containers
  <2>2. e \in EntryRecord /\ e.label = stm.label /\ e.members = stm.members
    BY <1>1, <1>3, <2>1, OutAssumption DEF Entry, EntryRecord, StmRecord, Label, AnyLabel
  <2> HIDE DEF e
  <2>3. Accounted(Labels, nextLabel, [xref EXCEPT ![stm.label] = InFile(Len(file) + 1)], NoStm,
                  Append(file, e))
    BY <1>3, <2>2, WriteStm DEF LabelInv
  <2>4. QED
    BY <1>3, <2>3 DEF FlushedXref, FlushedFile, FileWithStm, e
<1>4. QED
  BY <1>2, <1>3

LEMMA LabelFlush == ASSUME TypeOK, LabelInv, OutFlush PROVE LabelInv'
<1>1. ASSUME OutFlushTable PROVE LabelInv'
  <2>1. UNCHANGED << heap, nextLabel, xref, stm, file >> /\ phase' # "init"
    BY <1>1 DEF OutFlushTable
  <2>2. QED
    BY <2>1, LabelFrame DEF LabelInv, Live
<1>2. ASSUME OutFlushStream PROVE LabelInv'
  <2> DEFINE e == Entry(nextLabel, "xref", FALSE, << >>)
  <2>1. /\ nextLabel < MaxLabel /\ nextLabel' = nextLabel + 1 /\ stm' = NoStm /\ heap' = heap
        /\ file' = Append(FlushedFile, e) /\ phase' = "closed"
        /\ xref' = [FlushedXref EXCEPT ![nextLabel] = InFile(Len(FlushedFile) + 1)]
    BY <1>2 DEF OutFlushStream, CanLabel
  <2>2. nextLabel \in Label
    BY <2>1, OutAssumption DEF TypeOK, Label
  <2>3. << >> \in Seq(MemberRecord)
    OBVIOUS
  <2>4. e \in EntryRecord /\ e.label = nextLabel /\ e.members = << >>
    BY <2>2, <2>3 DEF Entry, EntryRecord
  <2> HIDE DEF e
  <2>5. Accounted(Labels, nextLabel + 1,
                  [FlushedXref EXCEPT ![nextLabel] = InFile(Len(FlushedFile) + 1)], NoStm,
                  Append(FlushedFile, e))
    BY <2>1, <2>4, LabelFlushed, WriteFresh
  <2>6. Labels' = Labels
    BY <2>1 DEF Labels
  <2>7. Accounted(Labels, nextLabel, xref, stm, file)'
    BY <2>1, <2>5, <2>6
  <2>8. QED
    BY <2>1, <2>7 DEF LabelInv, Live
<1>3. ASSUME OutFlushFails PROVE LabelInv'
  <2>1. /\ UNCHANGED << heap, nextLabel >> /\ stm' = NoStm
        /\ file' = FlushedFile /\ xref' = FlushedXref /\ phase' = "failed"
    BY <1>3 DEF OutFlushFails
  <2>2. Labels' = Labels
    BY <2>1 DEF Labels
  <2>3. Accounted(Labels, nextLabel, xref, stm, file)'
    BY <2>1, <2>2, LabelFlushed
  <2>4. QED
    BY <2>1, <2>3 DEF LabelInv, Live
<1>4. QED
  BY <1>1, <1>2, <1>3 DEF OutFlush

LEMMA LabelStep == ASSUME TypeOK, LabelInv, [Next]_vars PROVE LabelInv'
<1>1. CASE Next
  BY <1>1, LabelOutOpen, LabelCaller, LabelRelease, LabelFlush DEF Next
<1>2. CASE UNCHANGED vars
  BY <1>2 DEF vars, outVars, LabelInv, Labels, Live
<1>3. QED
  BY <1>1, <1>2

LEMMA LabelCorrect == Spec => []LabelInv
<1>1. TypeOK /\ LabelInv /\ [Next]_vars => LabelInv'
  BY LabelStep
<1>2. QED
  BY <1>1, LabelInit, TypeCorrect, PTL DEF Spec

(***************************************************************************)
(* The properties.                                                          *)
(***************************************************************************)
LEMMA InvUnique == LabelInv => LabelsUnique
BY DEF LabelInv, Accounted, Unwritten, LabelsUnique, Labels, Bearers

LEMMA InvFindable == LabelInv => LabelsFindable
<1> SUFFICES ASSUME LabelInv, NEW l \in Label
             PROVE  IF l < nextLabel
                    THEN (xref[l] = Unset <=> Pending(l)) /\ (Pending(l) \/ Located(l))
                    ELSE xref[l] = Unset /\ ~Pending(l)
  BY DEF LabelsFindable
<1>1. Pending(l) <=> stm.label = l \/ \E a \in Obj : Labels[a] = l
  BY DEF Pending, Bearers, Labels
<1>2. xref[l] = Unset <=> l >= nextLabel \/ stm.label = l \/ \E a \in Obj : Labels[a] = l
  BY DEF LabelInv, Accounted, Unwritten
<1>3. xref[l] # Unset => Located(l)
  BY DEF LabelInv, Accounted, Written, LocatedIn, Located
<1>4. /\ l \in Nat /\ l > 0 /\ nextLabel \in Nat /\ stm.label \in Nat
      /\ \A a \in Obj : Labels[a] \in Nat
  BY OutAssumption DEF LabelInv, Accounted, Types, AnyLabel, StmRecord, Label
<1>5. l >= nextLabel => ~Pending(l)
  BY <1>1, <1>4 DEF LabelInv, Accounted, Unwritten
<1>6. QED
  BY <1>1, <1>2, <1>3, <1>4, <1>5

LEMMA InvNoOrphans == LabelInv => NoOrphans
BY DEF LabelInv, Accounted, Listed, NoOrphans

\* Every label ever handed out is borne by exactly one thing still to be
\* written or stored exactly once where the cross reference table says:
\* whatever callers share, reference, nest and release, in any order.
THEOREM AccountedCorrect == Spec => []LabelsAccounted
<1>1. LabelInv => LabelsAccounted
  BY InvUnique, InvFindable, InvNoOrphans DEF LabelsAccounted
<1>2. QED
  BY <1>1, LabelCorrect, PTL

(***************************************************************************)
(* What is written stays as it is: a consequence of LabelInv, since a label *)
(* that is borne, or not issued yet, has no entry that could be lost.       *)
(***************************************************************************)
Grown(f, g) == SubSeq(g, 1, Len(f)) = f
Kept(x, y) == \A l \in Label : x[l] # Unset => y[l] = x[l]

LEMMA GrownBy ==
  ASSUME NEW f \in Seq(EntryRecord)
  PROVE  /\ Grown(f, f)
         /\ \A e \in EntryRecord : Append(f, e) \in Seq(EntryRecord) /\ Grown(f, Append(f, e))
         /\ \A e, d \in EntryRecord : Grown(f, Append(Append(f, e), d))
<1>1. SubSeq(f, 1, Len(f)) = f
  OBVIOUS
<1>2. ASSUME NEW e \in EntryRecord PROVE SubSeq(Append(f, e), 1, Len(f)) = f
  OBVIOUS
<1>3. ASSUME NEW e \in EntryRecord, NEW d \in EntryRecord
      PROVE  SubSeq(Append(Append(f, e), d), 1, Len(f)) = f
  OBVIOUS
<1>4. QED
  BY <1>1, <1>2, <1>3 DEF Grown

\* What an action that writes can rely on: these labels have no entry yet.
LEMMA NoEntry ==
  ASSUME TypeOK, LabelInv
  PROVE  /\ xref \in [Label -> XrefRecord] /\ file \in Seq(EntryRecord) /\ stm \in StmRecord
         /\ \A o \in Obj : heap[o].label \in Label => xref[heap[o].label] = Unset
         /\ \A l \in Label : l >= nextLabel => xref[l] = Unset
         /\ stm.label \in Label => xref[stm.label] = Unset
<1>1. \A o \in Obj : Labels[o] = heap[o].label
  BY DEF Labels
<1>2. QED
  BY <1>1 DEF LabelInv, Accounted, Types, Unwritten

LEMMA OnceOpen ==
  ASSUME TypeOK, LabelInv, NEW c \in Obj, OutOpen(c)
  PROVE  Grown(file, file') /\ Kept(xref, xref')
<1>1. nextLabel = 1 /\ file = << >> /\ Len(file) = 0
  BY DEF OutOpen, LabelInv
<1>2. \A l \in Label : xref[l] = Unset
  <2>1. \A l \in Label : l >= 1
    BY OutAssumption DEF Label
  <2>2. QED
    BY <1>1, <2>1, NoEntry
<1>3. Grown(file, file')
  BY <1>1, SMT DEF Grown, OutOpen
<1>4. QED
  BY <1>2, <1>3 DEF Kept

LEMMA OnceToFile ==
  ASSUME TypeOK, LabelInv, NEW o \in Obj, ReleaseToFile(o)
  PROVE  Grown(file, file') /\ Kept(xref, xref')
<1> DEFINE e == Entry(heap[o].label, heap[o].type, Encrypt, << >>)
<1>1. /\ file' = Append(file, e) /\ heap[o].label # 0
      /\ xref' = [xref EXCEPT ![heap[o].label] = InFile(Len(file) + 1)]
  BY DEF ReleaseToFile, LastLabelled
<1>2. heap[o].label \in Label /\ heap[o].type \in ObjType
  BY <1>1, ObjFields
<1>3. << >> \in Seq(MemberRecord)
  OBVIOUS
<1>4. e \in EntryRecord
  BY <1>2, <1>3, EntryType, OutAssumption
<1> HIDE DEF e
<1>5. Kept(xref, xref')
  BY <1>1, <1>2, NoEntry DEF Kept
<1>6. QED
  BY <1>1, <1>4, <1>5, NoEntry, GrownBy

LEMMA OnceToObjStm ==
  ASSUME TypeOK, LabelInv, NEW o \in Obj, ReleaseToObjStm(o)
  PROVE  Grown(file, file') /\ Kept(xref, xref')
<1> DEFINE s == StmWith(o)
           x == [xref EXCEPT ![heap[o].label] = InStm(s.label, Len(s.members) - 1)]
<1>1. /\ heap[o].label # 0
      /\ stm.label # 0 \/ CanLabel
      /\ IF Len(s.members) = ObjStmMax
         THEN file' = FileWithStm(s) /\ xref' = [x EXCEPT ![s.label] = InFile(Len(file) + 1)]
         ELSE UNCHANGED file /\ xref' = x
  BY DEF ReleaseToObjStm, LastLabelled
<1>2. heap[o].label \in Label /\ xref[heap[o].label] = Unset
  BY <1>1, ObjFields, NoEntry
<1>3. s.label \in Label /\ s \in StmRecord /\ s.label \in {stm.label, nextLabel}
  BY <1>1, <1>2, TypeStm
<1>4. xref[s.label] = Unset
  <2>1. s.label = nextLabel => s.label >= nextLabel
    BY DEF TypeOK
  <2>2. QED
    BY <1>3, <2>1, NoEntry
<1> HIDE DEF s
<1>5. Kept(xref, xref')
  BY <1>1, <1>2, <1>4, NoEntry DEF Kept
<1>6. Grown(file, file')
  <2> DEFINE e == Entry(s.label, "stream", Encrypt, s.members)
  <2>1. file' = Append(file, e) \/ file' = file
    BY <1>1 DEF FileWithStm
  <2>2. e \in EntryRecord
    BY <1>3, EntryType, OutAssumption DEF StmRecord, ObjType, Containers
  <2> HIDE DEF e
  <2>3. QED
    BY <2>1, <2>2, NoEntry, GrownBy
<1>7. QED
  BY <1>5, <1>6

LEMMA OnceFlush ==
  ASSUME TypeOK, LabelInv, OutFlush
  PROVE  Grown(file, file') /\ Kept(xref, xref')
<1> DEFINE e == Entry(stm.label, "stream", Encrypt, stm.members)
           d == Entry(nextLabel, "xref", FALSE, << >>)
<1>1. stm.label # 0 => stm.label \in Label /\ xref[stm.label] = Unset /\ e \in EntryRecord
  <2>1. stm \in StmRecord
    BY NoEntry
  <2>2. stm.label # 0 => stm.label \in Label
    BY <2>1, OutAssumption DEF StmRecord, AnyLabel, Label
  <2>3. stm.members \in Seq(MemberRecord) /\ "stream" \in ObjType
    BY <2>1 DEF StmRecord, ObjType, Containers
  <2>4. QED
    BY <2>2, <2>3, NoEntry, EntryType, OutAssumption
<1>2. FlushedFile = IF stm.label = 0 THEN file ELSE Append(file, e)
  BY DEF FlushedFile, FileWithStm
<1>3. Kept(xref, FlushedXref)
  BY <1>1, NoEntry DEF FlushedXref, Kept
<1>4. CASE OutFlushTable
  BY <1>4, NoEntry, GrownBy DEF OutFlushTable, Kept
<1>5. CASE OutFlushFails
  <2>1. file' = FlushedFile /\ xref' = FlushedXref
    BY <1>5 DEF OutFlushFails
  <2> HIDE DEF e
  <2>2. Grown(file, file')
    BY <1>1, <1>2, <2>1, NoEntry, GrownBy
  <2>3. QED
    BY <1>3, <2>1, <2>2
<1>6. CASE OutFlushStream
  <2>1. /\ file' = Append(FlushedFile, d)
        /\ xref' = [FlushedXref EXCEPT ![nextLabel] = InFile(Len(FlushedFile) + 1)]
        /\ nextLabel < MaxLabel
    BY <1>6 DEF OutFlushStream, CanLabel
  <2>2. nextLabel \in Label /\ xref[nextLabel] = Unset
    <3>1. nextLabel \in Label /\ nextLabel >= nextLabel
      BY <2>1, OutAssumption DEF TypeOK, Label
    <3>2. QED
      BY <3>1, NoEntry
  <2>3. d \in EntryRecord
    <3>1. << >> \in Seq(MemberRecord)
      OBVIOUS
    <3>2. QED
      BY <2>2, <3>1, EntryType
  <2> HIDE DEF e, d
  <2>4. Grown(file, file')
    BY <1>1, <1>2, <2>1, <2>3, NoEntry, GrownBy
  <2>5. Kept(xref, xref')
    <3>1. FlushedXref \in [Label -> XrefRecord]
      BY TypeFlushed DEF XrefRecord
    <3>2. QED
      BY <1>3, <2>1, <2>2, <3>1 DEF Kept
  <2>6. QED
    BY <2>4, <2>5
<1>7. QED
  BY <1>4, <1>5, <1>6 DEF OutFlush

LEMMA OnceStep ==
  ASSUME TypeOK, LabelInv, [Next]_vars
  PROVE  Grown(file, file') /\ Kept(xref, xref')
<1>1. CASE UNCHANGED << file, xref >>
  BY <1>1, NoEntry, GrownBy DEF Kept
<1>2. ASSUME CallerStep PROVE UNCHANGED << file, xref >>
  BY <1>2 DEF CallerStep, Alloc, Link, Ref, RefFails, AddKid, ReplaceKid, RemoveKid,
              SetInfo, Release, outVars
<1>3. ASSUME ReleaseStep PROVE Grown(file, file') /\ Kept(xref, xref')
  <2>1. ASSUME NEW o \in Obj, ReleaseShared(o) \/ ReleaseUnlabelled(o) \/ ReleaseFails(o)
        PROVE  UNCHANGED << file, xref >>
    BY <2>1 DEF ReleaseShared, ReleaseUnlabelled, ReleaseFails, outVars
  <2>2. QED
    BY <1>1, <1>3, <2>1, OnceToFile, OnceToObjStm DEF ReleaseStep
<1>4. ASSUME UNCHANGED vars PROVE UNCHANGED << file, xref >>
  BY <1>4 DEF vars, outVars
<1>5. QED
  BY <1>1, <1>2, <1>3, <1>4, OnceOpen, OnceFlush DEF Next

\* A written object is never written again and never moves, whatever is
\* shared, referred to, stored and released in which order.
THEOREM OnceCorrect == Spec => WrittenOnce
<1>1. TypeOK /\ LabelInv /\ [Next]_vars
        => [/\ SubSeq(file', 1, Len(file)) = file
            /\ \A l \in Label : xref[l] # Unset => xref'[l] = xref[l]]_<< file, xref >>
  BY OnceStep DEF Grown, Kept
<1>2. QED
  BY <1>1, TypeCorrect, LabelCorrect, PTL DEF Spec, WrittenOnce

(***************************************************************************)
(* A reference whose object is still to be written points at that object:   *)
(* proof of DerefSafe.  The address in a reference is not a counted link,   *)
(* so nothing but the free bit of the label tells whether it dangles.       *)
(***************************************************************************)

\* The part of the state a reference depends on, per reference r.
Bound(r) ==
  IsRef(r) => /\ heap[r].tlabel # 0
              /\ heap[r].tlabel \notin freed =>
                   /\ heap[r].target \in Obj /\ Live(heap[r].target)
                   /\ heap[heap[r].target].label = heap[r].tlabel

\* DerefSafe is inductive once references are known to carry a number, and
\* to be made only after the file is open.
DerefInv ==
  /\ \A r \in Obj : Bound(r)
  /\ phase = "init" => \A o \in Obj : ~IsRef(o)

LEMMA DerefInit == Init => DerefInv
BY DEF Init, DerefInv, Bound, IsRef, Dead

LEMMA DerefOutOpen ==
  ASSUME TypeOK, DerefInv, NEW c \in Obj, OutOpen(c) PROVE DerefInv'
<1>1. \A r \in Obj : ~IsRef(r)'
  <2>1. \A r \in Obj : heap[r].type # "ref"
    BY DEF DerefInv, OutOpen, IsRef
  <2>2. Catalog.type = "dict"
    BY DEF Catalog, NewObj, Dead
  <2>3. heap' = [heap EXCEPT ![c] = Catalog] /\ heap \in [Obj -> ObjRecord]
    BY DEF OutOpen, TypeOK
  <2>4. QED
    BY <2>1, <2>2, <2>3 DEF IsRef
<1>2. QED
  BY <1>1 DEF DerefInv, Bound

\* A step that keeps kind, label and target of every object, and clears no
\* free bit, keeps every reference bound.
LEMMA DerefFrame ==
  ASSUME DerefInv, phase # "init", phase' # "init", freed \subseteq freed',
         \A o \in Obj : /\ heap'[o].type = heap[o].type /\ heap'[o].label = heap[o].label
                        /\ heap'[o].target = heap[o].target /\ heap'[o].tlabel = heap[o].tlabel
  PROVE  DerefInv'
BY DEF DerefInv, Bound, IsRef, Live

\* Nothing bound can refer to an address that is free to be allocated.
LEMMA DerefAlloc ==
  ASSUME TypeOK, DerefInv, NEW o \in Obj, NEW t \in Kinds, Alloc(o, t) PROVE DerefInv'
<1>1. heap' = [heap EXCEPT ![o] = NewObj(t)] /\ heap \in [Obj -> ObjRecord]
  BY DEF Alloc, TypeOK
<1>2. NewObj(t).type = t /\ t # "ref" /\ t # "none"
  BY OutAssumption DEF NewObj, Dead
<1>3. heap[o].type = "none" /\ UNCHANGED freed /\ phase' = "open"
  BY DEF Alloc, Idle, Live, outVars
<1>4. \A r \in Obj : r # o => heap'[r] = heap[r]
  BY <1>1
<1>5. heap'[o].type = t
  BY <1>1, <1>2
<1>6. ASSUME NEW r \in Obj PROVE Bound(r)'
  BY <1>2, <1>3, <1>4, <1>5 DEF Bound, IsRef, Live, DerefInv
<1>7. QED
  BY <1>3, <1>6 DEF DerefInv

\* pdf_ref_obj: the object gets its number, if it had none, in the same step
\* as the reference that carries it.
LEMMA DerefRef ==
  ASSUME TypeOK, DerefInv, NEW o \in Obj, NEW n \in Obj, Ref(o, n) PROVE DerefInv'
<1>1. heap' = [heap EXCEPT ![o].label = LabelOf(o), ![n] = NewRef(o, LabelOf(o))]
  BY DEF Ref
<1>2. heap \in [Obj -> ObjRecord] /\ o # n
  BY DEF Ref, TypeOK
<1>3. LabelOf(o) \in Label /\ LabelOf(o) # 0
  BY LabelOfType, OutAssumption DEF Ref, Label
<1>4. /\ heap'[o].type = heap[o].type /\ heap'[o].label = LabelOf(o)
      /\ \A r \in Obj : r # n => /\ heap'[r].type = heap[r].type
                                 /\ heap'[r].target = heap[r].target
                                 /\ heap'[r].tlabel = heap[r].tlabel
                                 /\ r # o => heap'[r].label = heap[r].label
  BY <1>1, <1>2 DEF ObjRecord
<1>5. heap'[n].target = o /\ heap'[n].tlabel = LabelOf(o)
  BY <1>1, <1>2 DEF NewRef, NewObj, Dead
<1>6. heap[o].type # "none" /\ heap[n].type = "none" /\ UNCHANGED freed /\ phase' = "open"
  BY DEF Ref, Idle, Live
<1>7. Bound(n)'
  BY <1>2, <1>3, <1>4, <1>5, <1>6 DEF Bound, Live
<1>8. ASSUME NEW r \in Obj, r # n PROVE Bound(r)'
  <2>1. heap[r].tlabel # 0 /\ heap[r].target = o /\ heap[o].label = heap[r].tlabel
          => LabelOf(o) = heap[r].tlabel
    BY DEF LabelOf
  <2>2. QED
    BY <1>4, <1>6, <1>8, <2>1 DEF Bound, IsRef, Live, DerefInv
<1>9. QED
  BY <1>6, <1>7, <1>8 DEF DerefInv

\* pdf_set_info labels an object that no reference can be bound to yet.
LEMMA DerefSetInfo ==
  ASSUME TypeOK, DerefInv, NEW o \in Obj, SetInfo(o) PROVE DerefInv'
<1>1. heap' = [heap EXCEPT ![o].label = LabelOf(o)] /\ heap \in [Obj -> ObjRecord]
  BY DEF SetInfo, TypeOK
<1>2. \A r \in Obj : /\ heap'[r].type = heap[r].type /\ heap'[r].target = heap[r].target
                     /\ heap'[r].tlabel = heap[r].tlabel
                     /\ r # o => heap'[r].label = heap[r].label
  BY <1>1 DEF ObjRecord
<1>3. heap[o].label # 0 => heap'[o].label = heap[o].label
  BY <1>1 DEF LabelOf, ObjRecord
<1>4. UNCHANGED freed /\ phase' = "open"
  BY DEF SetInfo, Idle
<1>5. ASSUME NEW r \in Obj PROVE Bound(r)'
  BY <1>2, <1>3, <1>4 DEF Bound, IsRef, Live, DerefInv
<1>6. QED
  BY <1>4, <1>5 DEF DerefInv

LEMMA DerefCaller == ASSUME TypeOK, DerefInv, CallerStep PROVE DerefInv'
<1> DEFINE Same ==
      \A o \in Obj : /\ heap'[o].type = heap[o].type /\ heap'[o].label = heap[o].label
                     /\ heap'[o].target = heap[o].target /\ heap'[o].tlabel = heap[o].tlabel
<1>1. heap \in [Obj -> ObjRecord]
  BY DEF TypeOK
<1>2. ASSUME NEW o \in Obj, Link(o) PROVE DerefInv'
  <2>1. Same
    BY <1>1, <1>2 DEF Link, ObjRecord
  <2>2. QED
    BY <1>2, <2>1, DerefFrame DEF Link, Idle, outVars
<1>3. ASSUME NEW o \in Obj, RefFails(o) PROVE DerefInv'
  BY <1>3, DerefFrame DEF RefFails, Idle, outVars
<1>4. ASSUME NEW c \in Obj, NEW o \in Obj, AddKid(c, o) PROVE DerefInv'
  <2>1. Same
    BY <1>1, <1>4 DEF AddKid, ObjRecord
  <2>2. QED
    BY <1>4, <2>1, DerefFrame DEF AddKid, Idle, outVars
<1>5. ASSUME NEW c \in Obj, NEW o \in Obj, NEW i \in 1 .. MaxKids, ReplaceKid(c, i, o)
      PROVE  DerefInv'
  <2>1. Same
    BY <1>1, <1>5 DEF ReplaceKid, ObjRecord
  <2>2. QED
    BY <1>5, <2>1, DerefFrame DEF ReplaceKid, Idle, outVars
<1>6. ASSUME NEW c \in Obj, NEW i \in 1 .. MaxKids, RemoveKid(c, i) PROVE DerefInv'
  <2>1. Same
    BY <1>1, <1>6 DEF RemoveKid, ObjRecord
  <2>2. QED
    BY <1>6, <2>1, DerefFrame DEF RemoveKid, Idle, outVars
<1>7. ASSUME NEW o \in Obj, Release(o) PROVE DerefInv'
  BY <1>7, DerefFrame DEF Release, Idle, outVars
<1>8. QED
  BY <1>2, <1>3, <1>4, <1>5, <1>6, <1>7, DerefAlloc, DerefRef, DerefSetInfo DEF CallerStep

\* An object goes: the references to it are those to its label, which is
\* marked free in the same step, and an object without label has none.
LEMMA DerefDestroy ==
  ASSUME TypeOK, DerefInv, NEW o \in Obj, Destroy(o), phase # "init", phase' = phase,
         freed \subseteq freed', heap[o].label = 0 \/ heap[o].label \in freed'
  PROVE  DerefInv'
<1>1. heap' = [heap EXCEPT ![o] = Dead] /\ heap \in [Obj -> ObjRecord]
  BY DEF Destroy, TypeOK
<1>2. Dead.type = "none"
  BY DEF Dead
<1>3. heap'[o].type = "none" /\ \A r \in Obj : r # o => heap'[r] = heap[r]
  BY <1>1, <1>2
<1>4. ASSUME NEW r \in Obj PROVE Bound(r)'
  BY <1>3 DEF Bound, IsRef, Live, DerefInv
<1>5. QED
  BY <1>4 DEF DerefInv

LEMMA DerefRelease == ASSUME TypeOK, DerefInv, phase # "init", ReleaseStep PROVE DerefInv'
<1>1. ASSUME NEW o \in Obj, ReleaseShared(o) PROVE DerefInv'
  <2>1. heap \in [Obj -> ObjRecord] /\ heap' = [heap EXCEPT ![o].rc = @ - 1]
    BY <1>1 DEF ReleaseShared, TypeOK
  <2>2. \A a \in Obj : /\ heap'[a].type = heap[a].type /\ heap'[a].label = heap[a].label
                       /\ heap'[a].target = heap[a].target /\ heap'[a].tlabel = heap[a].tlabel
    BY <2>1 DEF ObjRecord
  <2>3. QED
    BY <1>1, <2>2, DerefFrame DEF ReleaseShared, outVars
<1>2. ASSUME NEW o \in Obj, ReleaseUnlabelled(o) PROVE DerefInv'
  BY <1>2, DerefDestroy DEF ReleaseUnlabelled, outVars
<1>3. ASSUME NEW o \in Obj, ReleaseToFile(o) PROVE DerefInv'
  BY <1>3, DerefDestroy DEF ReleaseToFile, Freed
<1>4. ASSUME NEW o \in Obj, ReleaseToObjStm(o) PROVE DerefInv'
  <2>1. Freed(o) \subseteq freed' /\ Destroy(o) /\ UNCHANGED phase
    BY <1>4 DEF ReleaseToObjStm
  <2>2. QED
    BY <2>1, DerefDestroy DEF Freed
<1>5. ASSUME NEW o \in Obj, ReleaseFails(o) PROVE DerefInv'
  BY <1>5, DerefFrame DEF ReleaseFails, Freed
<1>6. QED
  BY <1>1, <1>2, <1>3, <1>4, <1>5 DEF ReleaseStep

LEMMA DerefFlush == ASSUME DerefInv, OutFlush PROVE DerefInv'
BY DerefFrame DEF OutFlush, OutFlushTable, OutFlushStream, OutFlushFails, FlushedFreed,
                  ReadyToFlush, Idle

\* No release runs before the file is open.
IdleInit == phase = "init" => work = << >>

LEMMA IdleCorrect == Spec => []IdleInit
<1>1. Init => IdleInit
  BY DEF Init, IdleInit
<1>2. IdleInit /\ [Next]_vars => IdleInit'
  <2> SUFFICES ASSUME IdleInit, Next PROVE IdleInit'
    BY DEF vars, IdleInit
  <2>1. ASSUME NEW c \in Obj, OutOpen(c) PROVE IdleInit'
    BY <2>1 DEF OutOpen, IdleInit
  <2>2. ASSUME CallerStep PROVE IdleInit'
    BY <2>2 DEF CallerStep, Alloc, Link, Ref, RefFails, AddKid, ReplaceKid, RemoveKid,
                SetInfo, Release, Idle, IdleInit
  <2>3. ASSUME ReleaseStep PROVE IdleInit'
    BY <2>3 DEF ReleaseStep, ReleaseShared, ReleaseUnlabelled, ReleaseToFile,
                ReleaseToObjStm, ReleaseFails, LastLabelled, Releasing, IdleInit
  <2>4. ASSUME OutFlush PROVE IdleInit'
    BY <2>4 DEF OutFlush, OutFlushTable, OutFlushStream, OutFlushFails, IdleInit
  <2>5. QED
    BY <2>1, <2>2, <2>3, <2>4 DEF Next
<1>3. QED
  BY <1>1, <1>2, PTL DEF Spec

LEMMA DerefStep == ASSUME TypeOK, IdleInit, DerefInv, [Next]_vars PROVE DerefInv'
<1>1. CASE UNCHANGED vars
  BY <1>1 DEF vars, outVars, DerefInv, Bound, IsRef, Live
<1>2. ASSUME ReleaseStep PROVE phase # "init"
  BY <1>2 DEF IdleInit, ReleaseStep, ReleaseShared, ReleaseUnlabelled, ReleaseToFile,
              ReleaseToObjStm, ReleaseFails, LastLabelled, Releasing
<1>3. CASE Next
  BY <1>2, <1>3, DerefOutOpen, DerefCaller, DerefRelease, DerefFlush DEF Next
<1>4. QED
  BY <1>1, <1>3

\* pdf_deref_obj may follow the address in a reference as long as the free
\* bit of its label is not set: the object there is alive and bears that
\* label, in whatever order objects are shared, referred to and released.
THEOREM DerefCorrect == Spec => []DerefSafe
<1>1. DerefInv => DerefSafe
  BY OutAssumption DEF DerefInv, Bound, DerefSafe
<1>2. Init => DerefInv
  BY DerefInit
<1>3. TypeOK /\ IdleInit /\ DerefInv /\ [Next]_vars => DerefInv'
  BY DerefStep
<1>4. QED
  BY <1>1, <1>2, <1>3, TypeCorrect, IdleCorrect, PTL DEF Spec
==============================================================================
