--------------------------- MODULE MCCsrmmDenseIter ---------------------------
(***************************************************************************)
(* Instance of CsrmmDenseIter for TLC: two rows, three columns, every CSR  *)
(* pattern (so rows with absent columns below, between and above the     *)
(* present ones, and empty rows).  A read past the last nonzero is taken  *)
(* to return 0, so that what the run shows does not rest on reads past    *)
(* the buffer.  C holds a stale 7 before the kernel.                       *)
(***************************************************************************)
EXTENDS CsrmmDenseIter

MCAVal(r, c) == 1 + c + 3 * r
MCBVal(c) == 10 ^ c
MCOobZero == {0}
MCStaleC == {7}

=============================================================================
