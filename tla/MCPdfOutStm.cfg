SPECIFICATION Spec
CONSTANTS
  Obj = {o1, o2, o3}
  NoObj = NoObj
  MaxLabel = 6
  ObjStmMax = 2
  UseObjStm = TRUE
  Encrypt = TRUE
  Kinds = {"dict"}
  MaxLinks = 2
  MaxKids = 1
SYMMETRY Addresses
INVARIANTS
  TypeOK
  LabelsAccounted
  FreeListExact
  XrefComplete
  RefcountExact
  DerefSafe
  EncryptedOnce
PROPERTIES
  WrittenOnce
CHECK_DEADLOCK FALSE
