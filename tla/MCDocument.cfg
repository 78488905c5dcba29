SPECIFICATION MainSpec
CONSTANTS
  Name <- MCName
  Ident = {"x", "y"}
  Levels = {1, 2, 4}
  OpenDepth = 1
  CheckGotos = TRUE
  Radix = 3
  Cluster = 2
  LinkKeys = {"A"}
  PageMax = 11
  Documents <- MCDocuments
  Paper <- MCPaper
  Offset = 72
  Endless = 20
INVARIANTS PagesInOrder PagesReferred OutlineRight ThreadsRight LinksResolve
CHECK_DEADLOCK FALSE
