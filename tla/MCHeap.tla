------------------------------- MODULE MCHeap -------------------------------
(***************************************************************************)
(* Small heaps for TLC: two client roots and the intern table, and the     *)
(* objects that the program of one run allocates.                          *)
(***************************************************************************)
EXTENDS Heap

CONSTANTS r1, r2, tbl, fun1

MCRootSeq == <<r1, r2, tbl>>

Client == {r1, r2}

Request(tag, n, dst, srcs) == [tag |-> tag, n |-> n, dst |-> dst, srcs |-> srcs]

\* Pairs of 2 units and vectors of 3; stores make lists, sharing and cycles.
PairRequests ==
  {Request("pair", 2, r1, <<r1, r2>>), Request("vector", 2, r2, <<>>)}

\* A symbol (2 units), a closure to be compiled (2), and the end of the
\* compilation of a function with one constant (a vector of 2 units).
CodeRequests ==
  {Request("symbol", 0, r, <<>>) : r \in Client}
    \cup {Request("closure", 0, r2, <<>>)}
    \cup {Request("function", 1, r2, <<r1, c>>) : c \in Client}
=============================================================================
