-------------------------- MODULE MCWorkbookAutosave --------------------------
(***************************************************************************)
(* One tab, two sections, documents that add to one of them.               *)
(***************************************************************************)
EXTENDS WorkbookAutosave

CONSTANTS
  sA, sB,    \* sections
  t1, t2,    \* rows typed
  dA,        \* a row of a document
  f1, f2     \* handlers

MCDocuments == [s \in {sA, sB} |-> IF s = sA THEN {dA} ELSE {}]
===============================================================================
