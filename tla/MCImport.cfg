SPECIFICATION PdfImportSpec
CONSTANTS
  Files <- MCFiles
  Requests <- MCRequests
  Idents <- MCIdents
  MaxDepth = 6
  Garbage = {0}
  MaxUses = 4
INVARIANTS ImportedRight IncludedRight IdentsResolve
CHECK_DEADLOCK FALSE
