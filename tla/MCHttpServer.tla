----------------------------- MODULE MCHttpServer -----------------------------
(* Small instances of HttpServer.  Slots and other tasks are interchangeable. *)
EXTENDS HttpServer, TLC

Symmetry == Permutations(Slots) \cup Permutations(Others)
===============================================================================
