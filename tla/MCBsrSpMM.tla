------------------------------ MODULE MCBsrSpMM ------------------------------
(***************************************************************************)
(* Instance of BsrSpMM for TLC: a 4 x 4 matrix in 2 x 2 blocks, so two     *)
(* block rows of up to two blocks each: the searches have two blocks to    *)
(* choose from and the second block row's values start at an offset.      *)
(* A row is empty, holds one column of either block, or two columns of  *)
(* one block or of both; every combination of such rows is enumerated,   *)
(* so block rows with no block, one block of either column, or both.     *)
(* The value buffer is taken to start zeroed (csr2bsr never zeroes the   *)
(* cells of a block that no nonzero fills); C holds a stale 7.           *)
(***************************************************************************)
EXTENDS BsrSpMM

MCAVal(r, c) == 1 + c + 4 * r
MCBVal(c) == 10 ^ c
MCRowPatterns == {{}, {1}, {2}, {0, 3}, {1, 2}, {2, 3}}
MCStaleB == {0}
MCStaleC == {7}

=============================================================================
