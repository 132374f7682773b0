------------------------------ MODULE MCHybSpMM ------------------------------
(***************************************************************************)
(* Instance of HybSpMM for TLC.  The five widths 32 .. 512 are scaled to   *)
(* three, 1, 2 and 4, which keeps the shape of bench_hyb's rule: every     *)
(* bucket but the last takes the rows of degree <= its width, the last     *)
(* takes the rows above the width before it.  Two rows over three columns  *)
(* give every degree 0 .. 3, so every bucket is used and a row may sit in  *)
(* one bucket or in two.  Padding is neutral (value 0 at column 0), C      *)
(* holds a stale 7 before the launch.                                      *)
(***************************************************************************)
EXTENDS HybSpMM

MCRows == 0 .. 1
MCCols == 0 .. 2
MCAVal(r, c) == 1 + c + 3 * r
MCBVal(c) == 10 ^ c
MCWidths == <<1, 2, 4>>
MCStaleC == {7}

=============================================================================
