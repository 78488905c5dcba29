------------------------------- MODULE PdfOut -------------------------------
(***************************************************************************)
(* The output half of pdfobj.c: reference counted objects, the labels that  *)
(* make them indirect, and the file they end up in.  An object is written   *)
(* when its last link is released, either as a top level object or as a     *)
(* member of the current object stream; pdf_out_flush then dumps the cross  *)
(* reference table, which must know every label ever handed out.            *)
(*                                                                          *)
(* Data is abstracted to what the bookkeeping tells apart: a container      *)
(* (array, dict, stream) is the sequence of the links it owns, a reference  *)
(* ("n g R") is an object of its own, a file position is an index into the  *)
(* sequence of top level objects written.  Generations are left out: every  *)
(* assignment to pdf_obj.generation of an output object stores 0.           *)
(***************************************************************************)
EXTENDS Integers, Sequences, FiniteSets

CONSTANTS
  Obj,          \* addresses malloc can return for a pdf_obj
  NoObj,        \* NULL
  MaxLabel,     \* PDF_NUM_INDIRECT_MAX
  ObjStmMax,    \* OBJSTM_MAX_OBJS
  UseObjStm,    \* p->options.use_objstm
  Encrypt,      \* p->options.enable_encrypt
  Kinds,        \* bound: the types of object the callers create
  MaxLinks,     \* bound: links the callers hold on one object
  MaxKids       \* bound: links one container owns

ASSUME OutAssumption ==
  /\ NoObj \notin Obj
  /\ IsFiniteSet(Obj)
  /\ MaxLabel \in Nat /\ MaxLabel > 2
  /\ ObjStmMax \in Nat \ {0}
  /\ UseObjStm \in BOOLEAN /\ Encrypt \in BOOLEAN
  /\ Kinds \subseteq {"dict", "stream", "null", "undefined"}
  /\ MaxLinks \in Nat \ {0} /\ MaxKids \in Nat

VARIABLES
  heap,       \* the pdf_obj structs
  held,       \* links the code outside pdfobj.c owns, per object
  nextLabel,  \* p->obj.next_label
  freed,      \* p->free_list
  xref,       \* p->xref_table
  stm,        \* p->current_objstm
  file,       \* the top level objects written so far
  encMode,    \* p->state.enc_mode
  trailer,    \* labels the trailer refers to, 0 for none; the reference
              \* objects themselves, unlabelled and linked once, are left out
  work,       \* releases still to do in the running pdf_release_obj
  phase       \* init, open, closed (pdf_out_flush done) or failed (ERROR exit)

\* What only labelling and writing change.
outVars == << nextLabel, freed, xref, stm, file, encMode >>
vars == << heap, held, outVars, trailer, work, phase >>

----------------------------------------------------------------------------
Label == 1 .. MaxLabel - 1          \* pdf_label_obj fails at MaxLabel itself
Containers == {"dict", "stream"}
LeafTypes == {"null", "undefined"}
TrailerKeys == {"Root", "Info", "Encrypt"}

\* The storage types of a cross reference entry; "unset" is memory that
\* add_xref_entry has not initialised (RENEW does not clear it).
Unset == [kind |-> "unset", pos |-> 0, idx |-> 0]
InFile(p) == [kind |-> "file", pos |-> p, idx |-> 0]
InStm(l, i) == [kind |-> "stm", pos |-> l, idx |-> i]

\* A top level object of the file, and a member of an object stream: enc is
\* the value of enc_mode while it was written.
Entry(l, t, e, ms) == [label |-> l, type |-> t, enc |-> e, members |-> ms]
Member(l, t, e) == [label |-> l, type |-> t, enc |-> e]

Dead == [type |-> "none", label |-> 0, rc |-> 0, noStm |-> FALSE,
         kids |-> << >>, target |-> NoObj, tlabel |-> 0]
NoStm == [label |-> 0, members |-> << >>]

Live(o) == heap[o].type # "none"
IsRef(o) == heap[o].type = "ref"

\* pdf_new_obj, and the flag pdf_new_stream adds.
NewObj(t) == [Dead EXCEPT !.type = t, !.rc = 1, !.noStm = (t = "stream")]

\* pdf_new_indirect called by pdf_new_ref for object o that carries label l.
NewRef(o, l) == [NewObj("ref") EXCEPT !.target = o, !.tlabel = l]

\* pdf_set_root labels the catalog and keeps it out of encrypted streams.
Catalog == [NewObj("dict") EXCEPT !.label = 1, !.noStm = Encrypt]

CanLabelPastEnd == nextLabel <= MaxLabel      \* mutant: off by one at the limit
CanLabel == nextLabel < MaxLabel

LabelOfAgain(o) == nextLabel                   \* mutant: relabels a labelled object
\* pdf_label_obj: the label o has after the call, and the counter after it.
LabelOf(o) == IF heap[o].label = 0 THEN nextLabel ELSE heap[o].label
NextAfterSame(o) == nextLabel                  \* mutant: the counter is not advanced
NextAfter(o) == IF heap[o].label = 0 THEN nextLabel + 1 ELSE nextLabel

Idle == phase = "open" /\ work = << >>

Kids(o) == { heap[o].kids[i] : i \in DOMAIN heap[o].kids }

\* The objects reached from o by following owned links: those in every set
\* that contains o and what its members own.
Owned(o) ==
  { x \in Obj : \A S \in SUBSET Obj : o \in S /\ (\A y \in S : Kids(y) \subseteq S) => x \in S }

----------------------------------------------------------------------------
Init ==
  /\ heap = [o \in Obj |-> Dead]
  /\ held = [o \in Obj |-> 0]
  /\ nextLabel = 1
  /\ freed = {}
  /\ xref = [l \in Label |-> Unset]
  /\ stm = NoStm
  /\ file = << >>
  /\ encMode = FALSE
  /\ trailer = [k \in TrailerKeys |-> 0]
  /\ work = << >>
  /\ phase = "init"

\* pdf_open_document: the catalog c is created, labelled and named in the
\* trailer; then the encryption dictionary is labelled and written at once,
\* in clear.
OutOpen(c) ==
  /\ phase = "init"
  /\ phase' = "open"
  /\ heap' = [heap EXCEPT ![c] = Catalog]
  /\ held' = [held EXCEPT ![c] = 1]
  /\ IF Encrypt
     THEN /\ trailer' = [trailer EXCEPT !["Root"] = 1, !["Encrypt"] = 2]
          /\ nextLabel' = 3
          /\ freed' = {2}
          /\ file' = << Entry(2, "dict", FALSE, << >>) >>
          /\ xref' = [xref EXCEPT ![2] = InFile(1)]
     ELSE /\ trailer' = [trailer EXCEPT !["Root"] = 1]
          /\ nextLabel' = 2
          /\ UNCHANGED << freed, file, xref >>
  /\ UNCHANGED << stm, encMode, work >>

(***************************************************************************)
(* Operations of the callers.  A caller may use an object it holds a link   *)
(* on; it gives links away (to a container) and gives them back (release).  *)
(* No caller makes a container own itself.                                  *)
(***************************************************************************)
Alloc(o, t) ==
  /\ Idle
  /\ ~Live(o)
  /\ heap' = [heap EXCEPT ![o] = NewObj(t)]
  /\ held' = [held EXCEPT ![o] = 1]
  /\ UNCHANGED << outVars, trailer, work, phase >>

Link(o) ==                                        \* pdf_link_obj
  /\ Idle
  /\ held[o] \in 1 .. MaxLinks - 1
  /\ heap' = [heap EXCEPT ![o].rc = @ + 1]
  /\ held' = [held EXCEPT ![o] = @ + 1]
  /\ UNCHANGED << outVars, trailer, work, phase >>

\* pdf_ref_obj on a direct object: r becomes a new reference to it.  (On a
\* reference pdf_ref_obj is pdf_link_obj.)
Ref(o, r) ==
  /\ Idle
  /\ held[o] > 0 /\ Live(o) /\ ~IsRef(o)
  /\ ~Live(r)
  /\ heap[o].label # 0 \/ CanLabel
  /\ heap' = [heap EXCEPT ![o].label = LabelOf(o), ![r] = NewRef(o, LabelOf(o))]
  /\ held' = [held EXCEPT ![r] = 1]
  /\ nextLabel' = NextAfter(o)
  /\ UNCHANGED << freed, xref, stm, file, encMode, trailer, work, phase >>

\* pdf_label_obj at its limit: ERROR.
RefFails(o) ==
  /\ Idle
  /\ held[o] > 0 /\ ~IsRef(o)
  /\ heap[o].label = 0 /\ ~CanLabel
  /\ phase' = "failed"
  /\ UNCHANGED << heap, held, outVars, trailer, work >>

\* The caller may store o in container c.  Placeholders stay in pdfnames.c.
MayStore(c, o) ==
  /\ held[c] > 0 /\ heap[c].type \in Containers
  /\ held[o] > 0 /\ heap[o].type # "undefined"
  /\ c \notin Owned(o)

\* pdf_add_array, and pdf_add_dict with a new key: the caller's link moves
\* into the container.
AddKid(c, o) ==
  /\ Idle
  /\ MayStore(c, o) /\ Len(heap[c].kids) < MaxKids
  /\ heap' = [heap EXCEPT ![c].kids = Append(@, o)]
  /\ held' = [held EXCEPT ![o] = @ - 1]
  /\ UNCHANGED << outVars, trailer, work, phase >>

\* pdf_add_dict with a key the dict has: the old value is released.
ReplaceKid(c, i, o) ==
  /\ Idle
  /\ MayStore(c, o) /\ i \in DOMAIN heap[c].kids
  /\ heap' = [heap EXCEPT ![c].kids[i] = o]
  /\ held' = [held EXCEPT ![o] = @ - 1]
  /\ work' = << heap[c].kids[i] >>
  /\ UNCHANGED << outVars, trailer, phase >>

\* pdf_remove_dict.
RemoveKid(c, i) ==
  /\ Idle
  /\ held[c] > 0 /\ heap[c].type \in Containers /\ i \in DOMAIN heap[c].kids
  /\ heap' = [heap EXCEPT ![c].kids = SubSeq(@, 1, i - 1) \o SubSeq(@, i + 1, Len(@))]
  /\ work' = << heap[c].kids[i] >>
  /\ UNCHANGED << held, outVars, trailer, phase >>

\* pdf_set_info.
SetInfo(o) ==
  /\ Idle
  /\ trailer["Info"] = 0
  /\ held[o] > 0 /\ heap[o].type = "dict"
  /\ heap[o].label # 0 \/ CanLabel
  /\ heap' = [heap EXCEPT ![o].label = LabelOf(o)]
  /\ nextLabel' = NextAfter(o)
  /\ trailer' = [trailer EXCEPT !["Info"] = LabelOf(o)]
  /\ UNCHANGED << held, freed, xref, stm, file, encMode, work, phase >>

Release(o) ==                                     \* a call of pdf_release_obj
  /\ Idle
  /\ held[o] > 0
  /\ held' = [held EXCEPT ![o] = @ - 1]
  /\ work' = << o >>
  /\ UNCHANGED << heap, outVars, trailer, phase >>

\* Mutant: the source keeps its label.
LabelCopied(dst, src) == [heap EXCEPT ![dst].label = heap[src].label]

\* The heap after pdf_transfer_label, which asserts that dst has no label.
\* Only pdfnames.c calls it.
LabelTransferred(dst, src) ==
  [heap EXCEPT ![dst].label = heap[src].label, ![src].label = 0]

(***************************************************************************)
(* pdf_release_obj.  work holds the calls still to make: releasing the last *)
(* link of an object writes it if it is labelled, then releases what it     *)
(* owns, in order, before the caller's next release.                        *)
(***************************************************************************)
Releasing(o) == phase # "failed" /\ work # << >> /\ o = Head(work)

ReleaseShared(o) ==
  /\ Releasing(o)
  /\ heap[o].rc > 1
  /\ heap' = [heap EXCEPT ![o].rc = @ - 1]
  /\ work' = Tail(work)
  /\ UNCHANGED << held, outVars, trailer, phase >>

\* Mutants: what the object owns is not released; the call never returns.
DestroyAlone(o) ==
  /\ heap' = [heap EXCEPT ![o] = Dead]
  /\ work' = Tail(work)
DestroyAgain(o) ==
  /\ heap' = [heap EXCEPT ![o] = Dead]
  /\ work' = heap[o].kids \o work

\* The struct is freed and its own links go next.
Destroy(o) ==
  /\ heap' = [heap EXCEPT ![o] = Dead]
  /\ work' = heap[o].kids \o Tail(work)

ReleaseUnlabelled(o) ==
  /\ Releasing(o)
  /\ heap[o].rc = 1 /\ heap[o].label = 0
  /\ Destroy(o)
  /\ UNCHANGED << held, outVars, trailer, phase >>

\* The last link of a labelled object: it has to be written.
LastLabelled(o) == Releasing(o) /\ heap[o].rc = 1 /\ heap[o].label # 0

FreedUnmarked(o) == freed                      \* mutant: the bit is not set
Freed(o) == freed \cup {heap[o].label}

\* Whether pdf_release_obj flushes the object by itself.
TopLevel(o) == ~UseObjStm \/ heap[o].noStm

ReleaseToFile(o) ==                               \* pdf_flush_obj
  /\ LastLabelled(o)
  /\ TopLevel(o) /\ heap[o].type # "undefined"
  /\ freed' = Freed(o)
  /\ encMode' = Encrypt
  /\ file' = Append(file, Entry(heap[o].label, heap[o].type, encMode', << >>))
  /\ xref' = [xref EXCEPT ![heap[o].label] = InFile(Len(file) + 1)]
  /\ Destroy(o)
  /\ UNCHANGED << held, nextLabel, stm, trailer, phase >>

\* The object stream that receives the next object: the current one, or a
\* fresh one with a label of its own.
OpenStm == IF stm.label = 0 THEN [NoStm EXCEPT !.label = nextLabel] ELSE stm

\* Mutant: enc_mode is left as the last top level object set it.
StmWithStaleMode(o) ==
  [OpenStm EXCEPT !.members = Append(@, Member(heap[o].label, heap[o].type, encMode))]

\* enc_mode is off while a member is written into the stream.
StmWith(o) ==
  [OpenStm EXCEPT !.members = Append(@, Member(heap[o].label, heap[o].type, FALSE))]

\* release_objstm: object stream s becomes a top level object.
FileWithStm(s) == Append(file, Entry(s.label, "stream", Encrypt, s.members))

ReleaseToObjStm(o) ==                             \* pdf_add_objstm
  /\ LastLabelled(o)
  /\ ~TopLevel(o) /\ heap[o].type # "undefined"
  /\ stm.label # 0 \/ CanLabel
  /\ nextLabel' = IF stm.label = 0 THEN nextLabel + 1 ELSE nextLabel
  /\ LET s == StmWith(o)
         n == Len(s.members)
         x == [xref EXCEPT ![heap[o].label] = InStm(s.label, n - 1)]
     IN  IF n = ObjStmMax
         THEN /\ stm' = NoStm
              /\ file' = FileWithStm(s)
              /\ encMode' = Encrypt
              /\ xref' = [x EXCEPT ![s.label] = InFile(Len(file) + 1)]
              /\ freed' = Freed(o) \cup {s.label}
         ELSE /\ stm' = s
              /\ encMode' = FALSE
              /\ xref' = x
              /\ freed' = Freed(o)
              /\ UNCHANGED file
  /\ Destroy(o)
  /\ UNCHANGED << held, trailer, phase >>

\* ERROR: no label is left for the object stream, or the object to write is
\* a placeholder of pdfnames.c.
ReleaseFails(o) ==
  /\ LastLabelled(o)
  /\ \/ heap[o].type = "undefined"
     \/ ~TopLevel(o) /\ stm.label = 0 /\ ~CanLabel
  /\ freed' = Freed(o)
  /\ phase' = "failed"
  /\ UNCHANGED << heap, held, nextLabel, xref, stm, file, encMode, trailer, work >>

ReleaseStep ==
  \E o \in Obj :
    \/ ReleaseShared(o) \/ ReleaseUnlabelled(o) \/ ReleaseToFile(o)
    \/ ReleaseToObjStm(o) \/ ReleaseFails(o)

----------------------------------------------------------------------------
\* What is left of the current object stream goes to the file first.
FlushedFile == IF stm.label = 0 THEN file ELSE FileWithStm(stm)
FlushedXrefStale == xref                       \* mutant: the stream gets no entry
FlushedXref == IF stm.label = 0 THEN xref
               ELSE [xref EXCEPT ![stm.label] = InFile(Len(file) + 1)]
FlushedFreedStale == freed                     \* mutant: the bit is not set
FlushedFreed == freed \cup ({stm.label} \ {0})

\* The callers have released what they held (pdf_close_document).
ReadyToFlush ==
  /\ Idle
  /\ \A o \in Obj : held[o] = 0

\* pdf_out_flush with a cross reference table.
OutFlushTable ==
  /\ ReadyToFlush /\ ~UseObjStm
  /\ encMode' = FALSE
  /\ phase' = "closed"
  /\ UNCHANGED << heap, held, nextLabel, freed, xref, stm, file, trailer, work >>

\* pdf_out_flush with a cross reference stream: it is an object too, is
\* labelled last, has to list itself, and is never encrypted.
OutFlushStream ==
  /\ ReadyToFlush /\ UseObjStm /\ CanLabel
  /\ stm' = NoStm
  /\ nextLabel' = nextLabel + 1
  /\ encMode' = FALSE
  /\ file' = Append(FlushedFile, Entry(nextLabel, "xref", encMode', << >>))
  /\ xref' = [FlushedXref EXCEPT ![nextLabel] = InFile(Len(FlushedFile) + 1)]
  /\ freed' = FlushedFreed \cup {nextLabel}
  /\ phase' = "closed"
  /\ UNCHANGED << heap, held, trailer, work >>

\* No label is left for the cross reference stream: ERROR.
OutFlushFails ==
  /\ ReadyToFlush /\ UseObjStm /\ ~CanLabel
  /\ stm' = NoStm
  /\ file' = FlushedFile /\ xref' = FlushedXref /\ freed' = FlushedFreed
  /\ phase' = "failed"
  /\ UNCHANGED << heap, held, nextLabel, encMode, trailer, work >>

OutFlush == OutFlushTable \/ OutFlushStream \/ OutFlushFails

CallerStep ==
  \/ \E o \in Obj, t \in Kinds : Alloc(o, t)
  \/ \E o \in Obj : Link(o)
  \/ \E o, r \in Obj : Ref(o, r)
  \/ \E o \in Obj : RefFails(o)
  \/ \E c, o \in Obj : AddKid(c, o)
  \/ \E c, o \in Obj : \E i \in 1 .. MaxKids : ReplaceKid(c, i, o)
  \/ \E c \in Obj : \E i \in 1 .. MaxKids : RemoveKid(c, i)
  \/ \E o \in Obj : SetInfo(o)
  \/ \E o \in Obj : Release(o)

Next == (\E c \in Obj : OutOpen(c)) \/ CallerStep \/ ReleaseStep \/ OutFlush

Spec == Init /\ [][Next]_vars

\* The program is one thread: a release that has begun runs to its end.
FairSpec == Spec /\ WF_vars(ReleaseStep)

(***************************************************************************)
(* Properties.                                                              *)
(***************************************************************************)
ObjType == {"none", "ref"} \cup Containers \cup LeafTypes
ObjRecord == [type : ObjType,
              label : 0 .. MaxLabel - 1, rc : Nat, noStm : BOOLEAN,
              kids : Seq(Obj), target : Obj \cup {NoObj}, tlabel : 0 .. MaxLabel - 1]
MemberRecord == [label : Label, type : ObjType, enc : BOOLEAN]
EntryRecord == [label : Label, type : ObjType \cup {"xref"}, enc : BOOLEAN, members : Seq(MemberRecord)]

\* The type invariant: what each variable of the writer can hold.
TypeOK ==
  /\ heap \in [Obj -> ObjRecord]
  /\ held \in [Obj -> Nat]
  /\ nextLabel \in 1 .. MaxLabel
  /\ freed \in SUBSET Label
  /\ xref \in [Label -> [kind : {"unset", "file", "stm"}, pos : Nat, idx : Nat]]
  /\ stm \in [label : 0 .. MaxLabel - 1, members : Seq(MemberRecord)]
  /\ file \in Seq(EntryRecord)
  /\ encMode \in BOOLEAN
  /\ trailer \in [TrailerKeys -> 0 .. MaxLabel - 1]
  /\ work \in Seq(Obj)
  /\ phase \in {"init", "open", "closed", "failed"}

Bearers(l) == { o \in Obj : heap[o].label = l }

\* Label l has not been written yet: an object or the open stream bears it.
Pending(l) == Bearers(l) # {} \/ stm.label = l

\* Entry l is found at place i of the members ms.
MemberAt(l, i, ms) == i + 1 \in DOMAIN ms /\ ms[i + 1].label = l

\* The cross reference entry of l leads to an object of that number.
Located(l) ==
  \/ /\ xref[l].kind = "file"
     /\ xref[l].pos \in DOMAIN file /\ file[xref[l].pos].label = l
  \/ /\ xref[l].kind = "stm" /\ xref[l].pos \in Label
     /\ \/ stm.label = xref[l].pos /\ MemberAt(l, xref[l].idx, stm.members)
        \/ /\ xref[xref[l].pos].kind = "file"
           /\ MemberAt(l, xref[l].idx, file[xref[xref[l].pos].pos].members)

\* No two holders of one label: a second bearer would write a second object
\* with the same number (pdf_label_obj, pdf_transfer_label).
LabelsUnique ==
  /\ \A o1, o2 \in Obj : heap[o1].label # 0 /\ heap[o1].label = heap[o2].label => o1 = o2
  /\ stm.label # 0 => Bearers(stm.label) = {}

\* A label is without an entry exactly while something still to be written
\* bears it, and its entry, once made, leads to an object of that number.
LabelsFindable ==
  \A l \in Label :
    IF l < nextLabel THEN (xref[l] = Unset <=> Pending(l)) /\ (Pending(l) \/ Located(l))
                     ELSE xref[l] = Unset /\ ~Pending(l)

\* The converse: nothing is in the file that the table does not lead to, so
\* no object is written twice (pdf_flush_obj, pdf_add_objstm).
NoOrphans ==
  /\ \A p \in DOMAIN file :
       /\ xref[file[p].label] = InFile(p)
       /\ \A i \in DOMAIN file[p].members :
            xref[file[p].members[i].label] = InStm(file[p].label, i - 1)
  /\ \A i \in DOMAIN stm.members : xref[stm.members[i].label] = InStm(stm.label, i - 1)

\* Every label ever handed out is either borne by exactly one thing still to
\* be written or stored exactly once where the table says, never both and
\* never neither (pdf_label_obj, pdf_release_obj, add_xref_entry).
LabelsAccounted == LabelsUnique /\ LabelsFindable /\ NoOrphans

\* The bits of free_list and the entries of the table agree: pdf_deref_obj
\* trusts the bits, a reader of the file the table.
FreeListExact ==
  phase # "failed" => freed = { l \in Label : xref[l] # Unset }

\* The table pdf_out_flush dumps has no entry left uninitialised: whatever
\* order objects were created, shared and released in, all were written.
XrefComplete ==
  phase = "closed" => \A l \in 1 .. nextLabel - 1 : xref[l] # Unset

\* The places of containers that hold o, and the releases of o still to do.
SlotsOf(o) ==
  { c \in Obj \X (1 .. MaxKids) : c[2] \in DOMAIN heap[c[1]].kids /\ heap[c[1]].kids[c[2]] = o }
CallsOf(o) == { i \in DOMAIN work : work[i] = o }

\* The links to o: the callers', the containers', and those the running
\* release is about to give back.
OwnersOf(o) == held[o] + Cardinality(SlotsOf(o)) + Cardinality(CallsOf(o))

\* refcount is exactly the number of links that exist; in particular nobody
\* owns a freed object and pdf_release_obj never meets refcount <= 0.
RefcountExact == phase # "failed" => \A o \in Obj : heap[o].rc = OwnersOf(o)

\* A reference whose object has not been written still points at that
\* object, so pdf_deref_obj may follow it (OBJ_OBJ is not a counted link).
DerefSafe ==
  \A r \in Obj : IsRef(r) /\ heap[r].tlabel \notin freed =>
     heap[r].target # NoObj /\ Live(heap[r].target) /\ heap[heap[r].target].label = heap[r].tlabel

\* With encryption on, every string is encrypted once: members in clear
\* inside an encrypted stream, the encryption dictionary and the cross
\* reference not at all, and the catalog never inside an object stream.
EncryptedOnce ==
  /\ \A p \in DOMAIN file :
       /\ file[p].enc = (Encrypt /\ file[p].type # "xref" /\ file[p].label # 2)
       /\ \A i \in DOMAIN file[p].members : ~file[p].members[i].enc
  /\ \A i \in DOMAIN stm.members : ~stm.members[i].enc
  /\ Encrypt => xref[1].kind # "stm"
  /\ phase = "closed" => ~encMode

\* A written object is never written again and never moves: the file only
\* grows and an entry of the table, once made, stays what it is.
WrittenOnce ==
  [][/\ SubSeq(file', 1, Len(file)) = file
     /\ \A l \in Label : xref[l] # Unset => xref'[l] = xref[l]]_<< file, xref >>

\* The cascade of releases a single pdf_release_obj starts always ends.
ReleaseEnds == (work # << >>) ~> (work = << >> \/ phase = "failed")
=============================================================================
