----------------------------- MODULE MCPdfNames -----------------------------
(***************************************************************************)
(* Model checking of PdfNames: addresses are interchangeable, and so are    *)
(* names.                                                                   *)
(***************************************************************************)
EXTENDS PdfNames, TLC

Interchangeable == Permutations(Obj) \cup Permutations(Key)
=============================================================================
