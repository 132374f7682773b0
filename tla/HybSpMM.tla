------------------------------- MODULE HybSpMM -------------------------------
(***************************************************************************)
(* The hybrid (bucketed ELL) SpMM of tests/python/sparsetir/bench_spmm.py. *)
(*                                                                         *)
(* csrmm_hyb_tir declares one bucket per width W in 32, 64, ..., 512: a    *)
(* sparse_variable axis I_W over the bucket's rows (indices row_W) and a   *)
(* sparse_fixed axis J_W of W slots per row (indices_W, values a_W).  For  *)
(* each bucket, T.iter([T.fuse(O, I_W), J_W, F], "SSRS") runs              *)
(*     T.init: C[vi, vf] = 0;   C[vi, vf] = C[vi, vf] + A_W[..] * B[vj, vf] *)
(* over the W slots.  bench_hyb puts the rows in buckets by in-degree,     *)
(* sizes I_W from the bucket's row count, binds the fused row axis to      *)
(* blockIdx.x and f to threadIdx.x, and the function carries              *)
(* "horizontal_fuse": all buckets run in one launch, so every (bucket,     *)
(* row) thread runs concurrently with every other.                        *)
(*                                                                         *)
(* One feature column is kept.  A thread is <<b, r>>: bucket b, row r.     *)
(* Its updates of C[r] are a load and a store (global memory, no atomics). *)
(* The ELL slots of a row hold its nonzeros in column order, then padding *)
(* slots (PadCol, PadValue), as the data loader must supply them.          *)
(***************************************************************************)
EXTENDS Integers, Sequences, SequencesExt

CONSTANTS
  Rows, Cols, AVal(_, _), BVal(_), NotDone,
  Widths,      \* bucket widths, ascending: <<32, 64, 128, 256, 512>> scaled
  PadValue,    \* value the loader stores in a padding slot of a_W
  PadCol,      \* column the loader stores in a padding slot of indices_W
  StaleC       \* what the C buffer holds before the launch

Buckets == 1 .. Len(Widths)

ASSUME /\ Widths \in Seq(Nat \ {0}) /\ Len(Widths) >= 2
       /\ IsSorted(Widths, <)
       /\ Cardinality(Cols) <= Widths[Len(Widths)]  \* every row fits a bucket
       /\ PadCol \in Cols

VARIABLES
  pattern,   \* the CSR pattern the buckets are built from
  C,         \* C[r, f] of the kept feature f
  pc,        \* per thread: "none" (row not in bucket), "init", "load",
             \* "store", "done"
  s,         \* per thread: the serial slot loop counter over J_W
  reg        \* per thread: the value of C[r] it loaded

vars == <<pattern, C, pc, s, reg>>

Threads == Buckets \X Rows

Degree(r) == Cardinality(pattern[r])
RowIndices(r) == SetToSortSeq(pattern[r], <)

(* rows_32 = (in_degrees <= 32), ..., rows_256 = (in_degrees <= 256),      *)
(* rows_512 = (in_degrees > 256).                                         *)
BucketRows(b) ==
  IF b < Len(Widths)
    THEN {r \in Rows : Degree(r) <= Widths[b]}
    ELSE {r \in Rows : Degree(r) > Widths[b - 1]}

(* Slot q of row r in the ELL arrays indices_W and a_W.                   *)
EllCol(r, q) == IF q < Degree(r) THEN RowIndices(r)[q + 1] ELSE PadCol
EllVal(r, q) == IF q < Degree(r) THEN AVal(r, EllCol(r, q)) ELSE PadValue

Init ==
  /\ pattern \in [Rows -> SUBSET Cols]
  /\ C \in [Rows -> StaleC]
  /\ pc = [t \in Threads |-> IF t[2] \in BucketRows(t[1]) THEN "init"
                                                         ELSE "none"]
  /\ s = [t \in Threads |-> 0]
  /\ reg = [t \in Threads |-> 0]

(* T.init of the bucket's block: C[vi, vf] = 0.0 (vi addresses row r).     *)
HybInit(t) ==
  /\ pc[t] = "init"
  /\ C' = [C EXCEPT ![t[2]] = 0]
  /\ pc' = [pc EXCEPT ![t] = "load"]
  /\ UNCHANGED <<pattern, s, reg>>

(* Read of C[vi, vf] in C[vi, vf] + A[vo, vi, vj] * B[vj, vf].             *)
HybLoad(t) ==
  /\ pc[t] = "load"
  /\ s[t] < Widths[t[1]]
  /\ reg' = [reg EXCEPT ![t] = C[t[2]]]
  /\ pc' = [pc EXCEPT ![t] = "store"]
  /\ UNCHANGED <<pattern, C, s>>

(* Write of the sum back to C[vi, vf]; next slot of J_W.                   *)
HybStore(t) ==
  /\ pc[t] = "store"
  /\ LET r == t[2]
         q == s[t]
     IN C' = [C EXCEPT ![r] = reg[t] + EllVal(r, q) * BVal(EllCol(r, q))]
  /\ s' = [s EXCEPT ![t] = @ + 1]
  /\ pc' = [pc EXCEPT ![t] = "load"]
  /\ UNCHANGED <<pattern, reg>>

(* The slot loop of J_W ends after W iterations.                           *)
HybEnd(t) ==
  /\ pc[t] = "load"
  /\ s[t] = Widths[t[1]]
  /\ pc' = [pc EXCEPT ![t] = "done"]
  /\ UNCHANGED <<pattern, C, s, reg>>

ThreadStep(t) == HybInit(t) \/ HybLoad(t) \/ HybStore(t) \/ HybEnd(t)

Next == \E t \in Threads : ThreadStep(t)

(* The GPU runs every thread of the launch to its end.                     *)
Spec == Init /\ [][Next]_vars /\ \A t \in Threads : WF_vars(ThreadStep(t))

-----------------------------------------------------------------------------
TypeOK ==
  /\ pattern \in [Rows -> SUBSET Cols]
  /\ C \in [Rows -> Int]
  /\ pc \in [Threads -> {"none", "init", "load", "store", "done"}]
  /\ \A t \in Threads : s[t] \in 0 .. Widths[t[1]]
  /\ reg \in [Threads -> Int]

RowFinished(r) == \A b \in Buckets : pc[<<b, r>>] \in {"none", "done"}

(* Refinement: the fused launch implements SpMM when a row's result is    *)
(* read off C once every thread of every bucket holding that row has       *)
(* ended.  It fails if a row is in no bucket (its stale C shows through),  *)
(* if two buckets' threads race on one row, or if padding slots add to    *)
(* the sum.                                                                *)
Abstract == INSTANCE SpMM WITH
              B <- [c \in Cols |-> BVal(c)],
              out <- [r \in Rows |-> IF RowFinished(r) THEN C[r] ELSE NotDone]

ImplementsSpMM == Abstract!Spec

=============================================================================
