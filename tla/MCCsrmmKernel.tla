---------------------------- MODULE MCCsrmmKernel ----------------------------
(***************************************************************************)
(* Instance of CsrmmKernel for TLC: three rows, three columns, every CSR  *)
(* pattern over them (empty rows included).  A and B values are distinct  *)
(* per position, so a product taken at the wrong column or row changes    *)
(* the sum.  C holds 0 or a stale value 7 (MCStaleC), or, for the        *)
(* lowered kernels, is zeroed by the caller, as bench_spmm.py does for    *)
(* its output y (MCCallerC).                                               *)
(***************************************************************************)
EXTENDS CsrmmKernel

MCRows == 0 .. 2
MCCols == 0 .. 2
MCAVal(r, c) == 1 + c + 3 * r
MCBVal(c) == 10 ^ c
MCStaleC(k) == {0, 7}
MCCallerC(k) == IF k = "tir" THEN {0, 7} ELSE {0}

=============================================================================
