----------------------------- MODULE MCEllFormat -----------------------------
(***************************************************************************)
(* Instance of EllFormat for TLC: graphs on 4 nodes with nnz_cols = 2, and *)
(* for ellfuse two tile blocks of two columns.  A row is empty, has one    *)
(* column, two columns in tile 0 or one in each tile, or three columns,   *)
(* which ell cannot hold and ellfuse splits 1 + 2 over its tiles.  Every  *)
(* graph of such rows is loaded for "cora", the 8-edge ones for "dense",  *)
(* and "bogus" is a name get_dataset does not know.  ell_ind holds the    *)
(* rows within columns 0 and 1.  Powers of 10 as B tell the columns a sum *)
(* adds apart.  Value slots hold a stale 7 before the loader, C a 7.      *)
(***************************************************************************)
EXTENDS EllFormat

MCAVal(r, c) == 1 + c + 4 * r
MCBVal(c) == 10 ^ c
MCRowPatterns == {{}, {1}, {0, 1}, {1, 2}, {0, 2, 3}}

=============================================================================
