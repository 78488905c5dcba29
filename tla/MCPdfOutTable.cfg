SPECIFICATION FairSpec
CONSTANTS
  Obj = {o1, o2, o3}
  NoObj = NoObj
  MaxLabel = 3
  ObjStmMax = 2
  UseObjStm = FALSE
  Encrypt = FALSE
  Kinds = {"dict", "undefined"}
  MaxLinks = 1
  MaxKids = 2
INVARIANTS
  XrefComplete
PROPERTIES
  ReleaseEnds
CHECK_DEADLOCK FALSE
