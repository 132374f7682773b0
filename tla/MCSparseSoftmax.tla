---------------------------- MODULE MCSparseSoftmax ----------------------------
(***************************************************************************)
(* Instance of SparseSoftmax for TLC: two rows, three columns, every CSR   *)
(* pattern and every assignment of values 0 .. 1 to the nonzeros, so rows  *)
(* with maximum 0 and maximum 1, ties, single nonzeros and empty rows      *)
(* occur.  -100000 stands for T.min_value and for the T.iter init; the     *)
(* allocated buffers start holding 0 or 5.                                 *)
(***************************************************************************)
EXTENDS SparseSoftmax

MCStale == {0, 5}

\* T.min_value("float32") of the lowered max init, scaled down.
MCMinValue == -100000

\* The T.init of TMP1 in sparse_tir_scripts.py.
MCScriptTmp1Init == -100000

=============================================================================
