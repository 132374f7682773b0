----------------------------- MODULE MCRgcnHetero -----------------------------
(***************************************************************************)
(* Instance of RgcnHetero for TLC: two relations over two nodes, every     *)
(* per-relation pattern, so a node may have edges of one relation, of    *)
(* both, or of none.  Edge weights are 1 (the ground truth has none),     *)
(* relation weights 1 and 2, features powers of 10, so a lost or repeated *)
(* term changes the sum.  Y holds 0 or a stale 7 before the kernel, and   *)
(* 0 (y = zeros) in the ground-truth run.                                  *)
(***************************************************************************)
EXTENDS RgcnHetero

MCAVal(vr, d, s) == 1
MCWVal(vr) == 1 + vr
MCXVal(s) == 10 ^ s
MCStaleY == {0, 7}
MCZeroY == {0}

=============================================================================
