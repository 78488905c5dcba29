------------------------------ MODULE PdfNames ------------------------------
(***************************************************************************)
(* pdfnames.c on top of the writer: the table of objects named by specials  *)
(* (@name).  A name may be used before it is defined: the table then makes  *)
(* a placeholder of type PDF_UNDEFINED and hands out references to it; the  *)
(* definition takes over the label of the placeholder, which is released.   *)
(* pdf_close_document deletes the table first, replaces what was never      *)
(* defined by null, and writes the file at the end.                         *)
(***************************************************************************)
EXTENDS PdfOut

CONSTANT Key        \* names that occur in the specials of the document

ASSUME NamesAssumption == IsFiniteSet(Key)

VARIABLES
  names,            \* global_names: struct obj_data per key
  deleting,         \* pdf_delete_name_tree has been called
  abort,            \* which ASSERT has failed: none, transfer, close
  bound,            \* history: the number a name was first referred to by
  meaning           \* history: the type of what it was first defined as

nameVars == << names, deleting, abort, bound, meaning >>

----------------------------------------------------------------------------
NoName == [used |-> FALSE, object |-> NoObj, reference |-> NoObj, closed |-> FALSE]

\* Links the table owns on o; the rest of held[o] belongs to the specials.
TableLinks(o) ==
  Cardinality({ k \in Key : names[k].object = o }) + Cardinality({ k \in Key : names[k].reference = o })
Mine(o) == held[o] - TableLinks(o)

\* PDF_OBJ_UNDEFINED(value->object).
Placeholder(k) == names[k].object # NoObj /\ heap[names[k].object].type = "undefined"

Running == Idle /\ abort = "none" /\ ~deleting

NamesInit ==
  /\ Init
  /\ names = [k \in Key |-> NoName]
  /\ deleting = FALSE
  /\ abort = "none"
  /\ bound = [k \in Key |-> 0]
  /\ meaning = [k \in Key |-> "none"]

(***************************************************************************)
(* pdf_names_add_object: the caller's link on o moves into the table, or is *)
(* released if the name is taken.  o is not labelled by the specials before *)
(* it is named ("Order is important", spc_pdfm.c), but a reference that a   *)
(* previous definition was given carries the label of that name.            *)
(***************************************************************************)
MayName(o) == Mine(o) > 0 /\ heap[o].type # "undefined" /\ (IsRef(o) \/ heap[o].label = 0)

DefineFresh(k, o) ==
  /\ Running /\ MayName(o)
  /\ ~names[k].used
  /\ names' = [names EXCEPT ![k] = [NoName EXCEPT !.used = TRUE, !.object = o]]
  /\ meaning' = [meaning EXCEPT ![k] = heap[o].type]
  /\ UNCHANGED << vars, deleting, abort, bound >>

\* The label of the placeholder goes to o, the placeholder is released.
DefineReserved(k, o) ==
  /\ Running /\ MayName(o)
  /\ Placeholder(k)
  /\ IF heap[o].label # 0
     THEN /\ abort' = "transfer"          \* ASSERT(!dst->label)
          /\ UNCHANGED << vars, names, meaning >>
     ELSE /\ heap' = LabelTransferred(o, names[k].object)
          /\ work' = << names[k].object >>
          /\ held' = [held EXCEPT ![names[k].object] = @ - 1]
          /\ names' = [names EXCEPT ![k].object = o]
          /\ meaning' = [meaning EXCEPT ![k] = heap[o].type]
          /\ UNCHANGED << outVars, trailer, phase, abort >>
  /\ UNCHANGED << deleting, bound >>

DefineTwice(k, o) ==
  /\ Running /\ MayName(o)
  /\ names[k].used /\ ~Placeholder(k)
  /\ held' = [held EXCEPT ![o] = @ - 1]
  /\ work' = << o >>
  /\ UNCHANGED << heap, outVars, trailer, phase, nameVars >>

AddObject(k, o) == DefineFresh(k, o) \/ DefineReserved(k, o) \/ DefineTwice(k, o)

(***************************************************************************)
(* pdf_names_lookup_reference; pdf_names_reserve is the same on a new name  *)
(* and on a placeholder, and only warns on a defined one.                   *)
(***************************************************************************)
FirstNumber(k, l) == IF bound[k] = 0 THEN [bound EXCEPT ![k] = l] ELSE bound

\* pdf_names_reserve of a new name: r refers to the placeholder u and is
\* not remembered in value->reference.
Reserve(k, u, r) ==
  /\ Running /\ CanLabel
  /\ ~names[k].used
  /\ u # r /\ ~Live(u) /\ ~Live(r)
  /\ heap' = [heap EXCEPT ![u] = [NewObj("undefined") EXCEPT !.label = nextLabel],
                          ![r] = NewRef(u, nextLabel)]
  /\ held' = [held EXCEPT ![u] = 1, ![r] = 1]
  /\ nextLabel' = nextLabel + 1
  /\ names' = [names EXCEPT ![k] = [NoName EXCEPT !.used = TRUE, !.object = u]]
  /\ bound' = FirstNumber(k, nextLabel)
  /\ UNCHANGED << freed, xref, stm, file, encMode, trailer, work, phase, deleting, abort, meaning >>

\* The first reference that is remembered.
FirstReference(k, r) ==
  LET o == names[k].object IN
  /\ Running
  /\ names[k].used /\ names[k].reference = NoObj
  /\ ~IsRef(o) /\ ~Live(r)
  /\ heap[o].label # 0 \/ CanLabel
  /\ heap' = [heap EXCEPT ![o].label = LabelOf(o), ![r] = [NewRef(o, LabelOf(o)) EXCEPT !.rc = 2]]
  /\ held' = [held EXCEPT ![r] = 2]
  /\ nextLabel' = NextAfter(o)
  /\ names' = [names EXCEPT ![k].reference = r]
  /\ bound' = FirstNumber(k, LabelOf(o))
  /\ UNCHANGED << freed, xref, stm, file, encMode, trailer, work, phase, deleting, abort, meaning >>

\* pdf_ref_obj on an object that is a reference itself is a link.
FirstAlias(k) ==
  LET o == names[k].object IN
  /\ Running
  /\ names[k].used /\ names[k].reference = NoObj
  /\ IsRef(o) /\ Mine(o) < MaxLinks
  /\ heap' = [heap EXCEPT ![o].rc = @ + 2]
  /\ held' = [held EXCEPT ![o] = @ + 2]
  /\ names' = [names EXCEPT ![k].reference = o]
  /\ UNCHANGED << outVars, trailer, work, phase, deleting, abort, bound, meaning >>

NextReference(k) ==
  LET r == names[k].reference IN
  /\ Running
  /\ r # NoObj /\ Mine(r) < MaxLinks
  /\ heap' = [heap EXCEPT ![r].rc = @ + 1]
  /\ held' = [held EXCEPT ![r] = @ + 1]
  /\ UNCHANGED << outVars, trailer, work, phase, nameVars >>

\* pdf_label_obj at its limit.
ReferenceFails(k) ==
  /\ Running /\ ~CanLabel
  /\ names[k].used => /\ names[k].reference = NoObj
                      /\ ~IsRef(names[k].object) /\ heap[names[k].object].label = 0
  /\ phase' = "failed"
  /\ UNCHANGED << heap, held, outVars, trailer, work, nameVars >>

LookupReference(k) ==
  \/ \E u, r \in Obj : Reserve(k, u, r)
  \/ \E r \in Obj : FirstReference(k, r)
  \/ FirstAlias(k) \/ NextReference(k) \/ ReferenceFails(k)

(***************************************************************************)
(* pdf_names_lookup_object, as spc_handler_pdfm_put uses it: o is added to  *)
(* the container named k.                                                   *)
(***************************************************************************)
Put(k, o) ==
  /\ Running
  /\ names[k].object # NoObj /\ ~Placeholder(k)
  /\ Mine(o) > 0
  /\ AddKid(names[k].object, o)
  /\ UNCHANGED nameVars

(***************************************************************************)
(* pdf_names_close_object.                                                  *)
(***************************************************************************)
CloseReferred(k) ==
  /\ Running
  /\ names[k].used /\ ~Placeholder(k)
  /\ names[k].object # NoObj /\ ~names[k].closed /\ names[k].reference # NoObj
  /\ work' = << names[k].object >>
  /\ held' = [held EXCEPT ![names[k].object] = @ - 1]
  /\ names' = [names EXCEPT ![k].object = NoObj, ![k].closed = TRUE]
  /\ UNCHANGED << heap, outVars, trailer, phase, deleting, abort, bound, meaning >>

\* Mutant: the only link to an object nothing refers to is given back.
CloseUnreferredDropping(k) ==
  /\ Running
  /\ names[k].used /\ ~Placeholder(k)
  /\ names[k].object # NoObj /\ ~names[k].closed /\ names[k].reference = NoObj
  /\ work' = << names[k].object >>
  /\ held' = [held EXCEPT ![names[k].object] = @ - 1]
  /\ names' = [names EXCEPT ![k].object = NoObj, ![k].closed = TRUE]
  /\ UNCHANGED << heap, outVars, trailer, phase, deleting, abort, bound, meaning >>

CloseUnreferred(k) ==
  /\ Running
  /\ names[k].used /\ ~Placeholder(k)
  /\ names[k].object # NoObj /\ ~names[k].closed /\ names[k].reference = NoObj
  /\ names' = [names EXCEPT ![k].closed = TRUE]
  /\ UNCHANGED << vars, deleting, abort, bound, meaning >>

\* ASSERT(value->object) comes before the test of value->closed.
CloseAborts(k) ==
  /\ Running
  /\ names[k].used /\ names[k].object = NoObj
  /\ abort' = "close"
  /\ UNCHANGED << vars, names, deleting, bound, meaning >>

CloseObject(k) == CloseReferred(k) \/ CloseUnreferred(k) \/ CloseAborts(k)

(***************************************************************************)
(* pdf_delete_name_tree: check_objects_defined, then hval_free per entry.   *)
(***************************************************************************)
BeginDelete ==
  /\ Running
  /\ deleting' = TRUE
  /\ UNCHANGED << vars, names, abort, bound, meaning >>

Deleting == deleting /\ Idle /\ abort = "none"

DefineNull(k, o) ==
  /\ Deleting
  /\ Placeholder(k) /\ ~Live(o)
  /\ heap' = [heap EXCEPT ![o] = [NewObj("null") EXCEPT !.label = heap[names[k].object].label],
                          ![names[k].object].label = 0]
  /\ held' = [held EXCEPT ![o] = 1, ![names[k].object] = @ - 1]
  /\ work' = << names[k].object >>
  /\ names' = [names EXCEPT ![k].object = o]
  /\ meaning' = [meaning EXCEPT ![k] = "null"]
  /\ UNCHANGED << outVars, trailer, phase, deleting, abort, bound >>

\* Mutant: the object is forgotten.
HvalReference(k) == IF names[k].reference = NoObj THEN << >> ELSE << names[k].reference >>

\* hval_free: the reference is released first, then the object.
Hval(k) ==
  LET link(o) == IF o = NoObj THEN << >> ELSE << o >>
  IN  link(names[k].reference) \o link(names[k].object)

FreeName(k) ==
  /\ Deleting
  /\ names[k].used
  /\ \A j \in Key : ~Placeholder(j)
  /\ work' = Hval(k)
  /\ held' = [o \in Obj |-> held[o] - (IF names[k].reference = o THEN 1 ELSE 0)
                                    - (IF names[k].object = o THEN 1 ELSE 0)]
  /\ names' = [names EXCEPT ![k] = NoName]
  /\ UNCHANGED << heap, outVars, trailer, phase, deleting, abort, bound, meaning >>

NamesGone == deleting /\ \A k \in Key : ~names[k].used

(***************************************************************************)
(* What the specials do with the objects they hold themselves (a container  *)
(* is filled by Put); a special names the object it has read, or drops it,  *)
(* before the next special reads one.  The catalog belongs to pdfdoc.c and  *)
(* is given back by pdf_doc_close_catalog, when the table is gone.          *)
(***************************************************************************)
Unnamed(o) == Mine(o) > 0 /\ ~IsRef(o) /\ heap[o].label = 0 /\ TableLinks(o) = 0

SpecialStep ==
  /\ Running
  /\ \/ (\A x \in Obj : ~Unnamed(x)) /\ \E o \in Obj, t \in Kinds : Alloc(o, t)
     \/ \E o, r \in Obj : Mine(o) > 0 /\ heap[o].type # "undefined" /\ Ref(o, r)
  /\ UNCHANGED nameVars

GiveBack(o) ==
  /\ abort = "none"
  /\ Mine(o) > 0
  /\ NamesGone \/ (~deleting /\ heap[o].label # 1)
  /\ Release(o)
  /\ UNCHANGED nameVars

WriterStep ==
  /\ abort = "none"
  /\ \/ \E c \in Obj : OutOpen(c)
     \/ ReleaseStep
     \/ NamesGone /\ OutFlush
  /\ UNCHANGED nameVars

NamesNext ==
  \/ \E k \in Key : LookupReference(k) \/ CloseObject(k) \/ FreeName(k)
  \/ \E k \in Key, o \in Obj : AddObject(k, o) \/ Put(k, o) \/ DefineNull(k, o)
  \/ \E o \in Obj : GiveBack(o)
  \/ BeginDelete
  \/ SpecialStep
  \/ WriterStep

NamesSpec == NamesInit /\ [][NamesNext]_<< vars, nameVars >>

(***************************************************************************)
(* Properties.                                                              *)
(***************************************************************************)
\* The type invariant of the table.
NamesTypeOK ==
  /\ TypeOK
  /\ names \in [Key -> [used : BOOLEAN, object : Obj \cup {NoObj},
                        reference : Obj \cup {NoObj}, closed : BOOLEAN]]
  /\ deleting \in BOOLEAN
  /\ abort \in {"none", "transfer", "close"}
  /\ bound \in [Key -> 0 .. MaxLabel - 1]
  /\ meaning \in [Key -> ObjType]

\* What the file holds under number l.
Printed(l) ==
  IF l = 0 THEN "none"
  ELSE CASE xref[l].kind = "file" -> file[xref[l].pos].type
         [] xref[l].kind = "stm"  -> (IF stm.label = xref[l].pos THEN stm.members
                                      ELSE file[xref[xref[l].pos].pos].members)[xref[l].idx + 1].type
         [] OTHER -> "none"

\* The table implements what it promises (NameBinding): whatever mix of
\* forward references, definitions, redefinitions, closes and references
\* that are named again, the number handed out first is where the first
\* definition is found in the file, or null.
Binding == INSTANCE NameBinding WITH
  Number <- Label, Value <- ObjType \ {"none", "undefined"}, Null <- "null",
  num <- bound, def <- meaning, out <- [k \in Key |-> Printed(bound[k])]
ImplementsBinding == Binding!Spec

\* Every entry can still produce a reference: value->reference or
\* value->object is there, so pdf_names_lookup_reference never links NULL.
NameReachable ==
  \A k \in Key : names[k].used => names[k].reference # NoObj \/ names[k].object # NoObj

\* The labels of the writer stay accounted for when the table moves one from
\* a placeholder to a definition.
NamesLabelsAccounted == LabelsAccounted /\ FreeListExact

\* The file is complete: no number handed out for a name, or for anything
\* else, is left without an object, and no placeholder has been written.
NamesXrefComplete ==
  phase = "closed" => \A l \in 1 .. nextLabel - 1 : Printed(l) \notin {"none", "undefined"}

=============================================================================
