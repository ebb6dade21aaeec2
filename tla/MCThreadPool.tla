---------------------------- MODULE MCThreadPool -----------------------------
(* Small pools for TLC: the tasks and the waiting clients are interchangeable. *)
EXTENDS ThreadPool, TLC

Symmetry == Permutations(Tasks) \cup Permutations(Clients)
==============================================================================
