SPECIFICATION NamesSpec
CONSTANTS
  Obj = {o1, o2, o3, o4}
  NoObj = NoObj
  Key = {k1, k2}
  MaxLabel = 4
  ObjStmMax = 2
  UseObjStm = FALSE
  Encrypt = FALSE
  Kinds = {"dict"}
  MaxLinks = 1
  MaxKids = 1
SYMMETRY Interchangeable
INVARIANTS
  NamesTypeOK
  NamesLabelsAccounted
  NamesXrefComplete
  NameReachable
PROPERTIES
  ImplementsBinding
CHECK_DEADLOCK FALSE
