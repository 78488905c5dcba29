------------------------------ MODULE MCPdfDev ------------------------------
(***************************************************************************)
(* Model checking of PdfDev: two fonts that differ in everything the device *)
(* reads from a font, two colours, forms captured inside forms.             *)
(***************************************************************************)
EXTENDS PdfDev

MCFont == {"tall", "oblique"}
MCComposite == {"tall"}
MCTall == {"tall"}
MCSlanted == {"oblique"}
MCBold == {"oblique"}
=============================================================================
