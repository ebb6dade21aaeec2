---------------------------- MODULE MCLspDocuments -----------------------------
(***************************************************************************)
(* A workspace of three files for the runs of LspDocuments: a imports b or *)
(* c, b imports c or nothing, and c imports nothing, or a, which closes a  *)
(* cycle.                                                                  *)
(***************************************************************************)
EXTENDS LspDocuments, TLC

CONSTANTS a, b, c

MCTextsOf == (a :> {1, 2}) @@ (b :> {3, 4}) @@ (c :> {5, 6})
MCImportsOf == (Missing :> {}) @@ <<{b}, {c}, {c}, {}, {}, {a}>>
===============================================================================
