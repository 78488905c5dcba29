SPECIFICATION PdfImportSpec
CONSTANTS
  Files <- FreedFiles
  Requests <- MCRequests
  Idents <- MCIdents
  MaxDepth = 6
  Garbage = {0}
  MaxUses = 4
INVARIANTS ImportedRight
CHECK_DEADLOCK FALSE
