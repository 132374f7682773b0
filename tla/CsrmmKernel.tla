----------------------------- MODULE CsrmmKernel -----------------------------
(***************************************************************************)
(* The CSR SpMM loop nest as it runs on the GPU.  Two sources share it:    *)
(*                                                                         *)
(*  - csrmm_tir of tests/python/sparsetir/bench_spmm.py, scheduled by      *)
(*    bench_tir_csrmm with i bound to blockIdx.x and k to threadIdx.x:    *)
(*    block "spmm_outer" runs T.init (C[vi * K + vk] = 0) and then the     *)
(*    serial loop over j in 0 .. indptr[vi + 1] - indptr[vi] of block     *)
(*    "spmm_inner";                                                       *)
(*  - the lowered csrmm of sparse_tir_lowered_iter_scripts.py: block      *)
(*    "csrmm0" per row, whose serial j loop runs block "csrmm1" that       *)
(*    carries the T.init itself, so the init runs when vj = 0;             *)
(*  - the lowered row reductions segment_reduce and csr_reduce of the      *)
(*    same file, B[vi] = sum of A[vi, vj], whose blocks segment_reduce1 /  *)
(*    csr_reduce1 carry the T.init in the same place.  Their output B is   *)
(*    the model's C, and the abstract B is all ones.                       *)
(*                                                                         *)
(* kernel names the loop nest that runs ("tir", "lowered",                *)
(* "segment_reduce", "csr_reduce"), chosen from Kernels at the start.  Each row is one thread block; the blocks        *)
(* interleave freely.  A C element is written only by the thread owning  *)
(* (vi, vk), so its read-modify-write is one step.  C starts with what   *)
(* the caller's buffer holds for that kernel (InitialC(kernel)).           *)
(***************************************************************************)
EXTENDS Integers, Sequences, SequencesExt

CONSTANTS
  Rows, Cols, AVal(_, _), BVal(_), NotDone,
  Kernels,           \* which kernels may run, a subset of AllKernels
  InitialC(_)        \* values the caller's C buffer may hold on entry

AllKernels == {"tir", "lowered", "segment_reduce", "csr_reduce"}
ReduceKernels == {"segment_reduce", "csr_reduce"}

ASSUME Kernels \subseteq AllKernels

VARIABLES
  kernel,    \* which of the two loop nests runs
  pattern,   \* the CSR pattern (indptr / indices)
  C,         \* C[vi, vk] of the kept feature k
  pc,        \* per thread block: "outer", "inner" or "done"
  j          \* per thread block: the serial loop counter j

vars == <<kernel, pattern, C, pc, j>>

(* indices[indptr[r] + p] for p < indptr[r + 1] - indptr[r]: sorted row.   *)
RowIndices(r) == SetToSortSeq(pattern[r], <)
RowLen(r) == Len(RowIndices(r))
Product(r, p) == LET col == RowIndices(r)[p + 1] IN AVal(r, col) * BVal(col)

(* A[vi, vj] of the row's nonzero p, the term of the row reductions.       *)
Element(r, p) == AVal(r, RowIndices(r)[p + 1])

Init ==
  /\ kernel \in Kernels
  /\ pattern \in [Rows -> SUBSET Cols]
  /\ C \in [Rows -> InitialC(kernel)]
  /\ pc = [r \in Rows |-> "outer"]
  /\ j = [r \in Rows |-> 0]

(* Mutation of spmm_outer: the T.init store left out.                      *)
SpmmOuterNoInit(r) ==
  /\ kernel = "tir" /\ pc[r] = "outer"
  /\ pc' = [pc EXCEPT ![r] = "inner"]
  /\ UNCHANGED <<kernel, pattern, C, j>>

(* Block spmm_outer of csrmm_tir: T.init, then enter the j loop.           *)
SpmmOuter(r) ==
  /\ kernel = "tir" /\ pc[r] = "outer"
  /\ C' = [C EXCEPT ![r] = 0]
  /\ pc' = [pc EXCEPT ![r] = "inner"]
  /\ UNCHANGED <<kernel, pattern, j>>

(* Mutation of spmm_inner: the loop counter advanced by two.               *)
SpmmInnerStride2(r) ==
  /\ kernel = "tir" /\ pc[r] = "inner"
  /\ j[r] < RowLen(r)
  /\ C' = [C EXCEPT ![r] = @ + Product(r, j[r])]
  /\ j' = [j EXCEPT ![r] = @ + 2]
  /\ UNCHANGED <<kernel, pattern, pc>>

(* Block spmm_inner: C += A_data[j + indptr[vi]] * B[indices[..] * K + vk]*)
SpmmInner(r) ==
  /\ kernel = "tir" /\ pc[r] = "inner"
  /\ j[r] < RowLen(r)
  /\ C' = [C EXCEPT ![r] = @ + Product(r, j[r])]
  /\ j' = [j EXCEPT ![r] = @ + 1]
  /\ UNCHANGED <<kernel, pattern, pc>>

(* Block csrmm0 of the lowered csrmm: enter the row, no init here.         *)
Csrmm0(r) ==
  /\ kernel = "lowered" /\ pc[r] = "outer"
  /\ pc' = [pc EXCEPT ![r] = "inner"]
  /\ UNCHANGED <<kernel, pattern, C, j>>

(* Block csrmm1: T.init when vj = 0, then C[vi, vk] += A * B.              *)
Csrmm1(r) ==
  /\ kernel = "lowered" /\ pc[r] = "inner"
  /\ j[r] < RowLen(r)
  /\ C' = [C EXCEPT ![r] = (IF j[r] = 0 THEN 0 ELSE @) + Product(r, j[r])]
  /\ j' = [j EXCEPT ![r] = @ + 1]
  /\ UNCHANGED <<kernel, pattern, pc>>

(* Block segment_reduce0: enter the row, no init here.                    *)
SegmentReduce0(r) ==
  /\ kernel = "segment_reduce" /\ pc[r] = "outer"
  /\ pc' = [pc EXCEPT ![r] = "inner"]
  /\ UNCHANGED <<kernel, pattern, C, j>>

(* Block segment_reduce1: T.init B[vi] = 0 when vj = 0, then += A[vi, vj]. *)
SegmentReduce1(r) ==
  /\ kernel = "segment_reduce" /\ pc[r] = "inner"
  /\ j[r] < RowLen(r)
  /\ C' = [C EXCEPT ![r] = (IF j[r] = 0 THEN 0 ELSE @) + Element(r, j[r])]
  /\ j' = [j EXCEPT ![r] = @ + 1]
  /\ UNCHANGED <<kernel, pattern, pc>>

(* Block csr_reduce0: enter the row, no init here.                         *)
CsrReduce0(r) ==
  /\ kernel = "csr_reduce" /\ pc[r] = "outer"
  /\ pc' = [pc EXCEPT ![r] = "inner"]
  /\ UNCHANGED <<kernel, pattern, C, j>>

(* Block csr_reduce1: T.init B[vi] = 0 when vj = 0, then += A[vi, vj].     *)
CsrReduce1(r) ==
  /\ kernel = "csr_reduce" /\ pc[r] = "inner"
  /\ j[r] < RowLen(r)
  /\ C' = [C EXCEPT ![r] = (IF j[r] = 0 THEN 0 ELSE @) + Element(r, j[r])]
  /\ j' = [j EXCEPT ![r] = @ + 1]
  /\ UNCHANGED <<kernel, pattern, pc>>

(* The serial j loop reaches indptr[vi + 1] - indptr[vi]: the block ends.  *)
RowEnd(r) ==
  /\ pc[r] = "inner"
  /\ j[r] = RowLen(r)
  /\ pc' = [pc EXCEPT ![r] = "done"]
  /\ UNCHANGED <<kernel, pattern, C, j>>

RowStep(r) ==
  \/ SpmmOuter(r) \/ SpmmInner(r)
  \/ Csrmm0(r) \/ Csrmm1(r)
  \/ SegmentReduce0(r) \/ SegmentReduce1(r)
  \/ CsrReduce0(r) \/ CsrReduce1(r)
  \/ RowEnd(r)

Next == \E r \in Rows : RowStep(r)

(* Every launched thread block runs to completion.                         *)
Fairness == \A r \in Rows : WF_vars(RowStep(r))

Spec == Init /\ [][Next]_vars /\ Fairness

-----------------------------------------------------------------------------
TypeOK ==
  /\ kernel \in Kernels
  /\ pattern \in [Rows -> SUBSET Cols]
  /\ C \in [Rows -> Int]
  /\ pc \in [Rows -> {"outer", "inner", "done"}]
  /\ j \in [Rows -> 0 .. Cardinality(Cols)]

(* Refinement: the kernel implements SpMM (a row sum for the reductions)  *)
(* when a row's result is read off C once its thread block has ended.     *)
(* This says that every row, empty ones included, ends holding exactly    *)
(* its dot product whatever the caller left in C (InitialC(kernel)) and   *)
(* however the blocks interleave, and that every row is finished.         *)
Abstract == INSTANCE SpMM WITH
              B <- [c \in Cols |-> IF kernel \in ReduceKernels THEN 1 ELSE BVal(c)],
              out <- [r \in Rows |-> IF pc[r] = "done" THEN C[r] ELSE NotDone]

ImplementsSpMM == Abstract!Spec

=============================================================================
