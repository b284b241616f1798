------------------------------- MODULE MCOcrImport -------------------------------
(***************************************************************************)
(* Small instances of OcrImport.                                           *)
(***************************************************************************)
EXTENDS OcrImport

MCBlank == {2}
=============================================================================
