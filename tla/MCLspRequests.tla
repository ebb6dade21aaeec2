----------------------------- MODULE MCLspRequests -----------------------------
(* What the client sends in the runs of LspRequests. *)
EXTENDS LspRequests, TLC

CONSTANTS a, b, c, w1, w2

\* Requests of any kind under ids of their own, in the order of their first use.
Fresh == {<< <<a, k>>, <<b, l>>, <<c, m>> >> : k, l, m \in {"document", "symbol"}}

\* One id again and again, for documents; another one than the first of Fresh, so
\* that ids alone tell which requests may follow.
Reused == {<< <<b, "document">>, <<b, "document">>, <<b, "document">> >>}

FreshOrReused == Fresh \cup Reused

\* A workspace symbol, and a document request under the same id.
SymbolFirst == {<< <<a, "symbol">>, <<a, "document">> >>}

\* Threads are told apart by what happens to them only.
Symmetric == Permutations(Workers)
===============================================================================
