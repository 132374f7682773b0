---------------------------- MODULE MCPaddedSpMM ----------------------------
(***************************************************************************)
(* Instance of PaddedSpMM for TLC: three nodes, so every in-degree 0 .. 3  *)
(* occurs, with tile_size 2, so rows need 0, 1 or 2 tiles and 0 or 1      *)
(* padding edges, and a node may already have an edge from node 0 (the    *)
(* padding source).  x[u] = 10^u tells every source apart.                 *)
(***************************************************************************)
EXTENDS PaddedSpMM

MCBVal(u) == 10 ^ u
MCStaleC == {7}

=============================================================================
