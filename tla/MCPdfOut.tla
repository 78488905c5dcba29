------------------------------ MODULE MCPdfOut ------------------------------
(***************************************************************************)
(* PdfOut for TLC.  The addresses are interchangeable: which one malloc     *)
(* returns never matters.                                                   *)
(***************************************************************************)
EXTENDS PdfOut, TLC

Addresses == Permutations(Obj)
=============================================================================
