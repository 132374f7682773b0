---------------------------- MODULE CsrmmDenseIter ----------------------------
(***************************************************************************)
(* csrmm_dense_iter: SpMM iterating the dense column axis J_detach over a  *)
(* CSR matrix.  In tests/python/sparsetir/sparse_tir_scripts.py it is      *)
(*   T.iter([I, J_detach, K], "SRS"): C[vi, vk] += A[vi, vj] * B[vj, vk],  *)
(* where A[vi, vj] is zero for a column vj absent from row vi.  The        *)
(* lowered form in sparse_tir_lowered_iter_scripts.py first runs, for      *)
(* every (vi, vj), the binary_search_block that stores in mid_0[vi, vj]    *)
(* the lower-bound position of vj in the row's indices, then the block     *)
(* csrmm0 adds A[vi, mid_0[vi, vj]] * B[vj, vk].  The function has         *)
(* check_invalid_binary_search False: no block tests that the position    *)
(* found holds vj.                                                         *)
(*                                                                         *)
(* The loop nests are not scheduled, so they run in order: the search     *)
(* grid, then the compute grid.  A search block is one step whose result   *)
(* is LowerBoundRef, the value the BinarySearch module shows its loop      *)
(* computes.  A is stored by nonzero position, row after row, so a read   *)
(* at position mid of row vi is A_data[indptr[vi] + mid]; past the last   *)
(* nonzero it reads whatever lies beyond the buffer (OobValues).           *)
(***************************************************************************)
EXTENDS Integers, Sequences, SequencesExt

CONSTANTS
  NumRows, NumCols, AVal(_, _), BVal(_), NotDone,
  OobValues,      \* what a read past the end of A_data may return
  StaleC          \* what C holds before the kernel runs

Rows == 0 .. NumRows - 1
Cols == 0 .. NumCols - 1

VARIABLES
  pattern,   \* the CSR pattern: indptr / indices
  mid,       \* mid_0[vi, vj]
  C,         \* C[vi, vk] of the kept feature
  phase,     \* "search" (binary_search_block grid), "compute", "done"
  i, j       \* the loop counters of the running grid

vars == <<pattern, mid, C, phase, i, j>>

RowIndices(r) == SetToSortSeq(pattern[r], <)
RowLen(r) == Cardinality(pattern[r])
Indptr(r) == MapThenSumSet(RowLen, 0 .. r - 1)
Nnz == Indptr(NumRows)

(* Lower-bound position of column c in a sorted row (see BinarySearch).    *)
LowerBoundRef(s, c) == Cardinality({p \in 1 .. Len(s) : s[p] < c})

(* The nonzero at global position g of A_data: its row and column.        *)
EntryAt(g) ==
  CHOOSE e \in {<<r, c>> : r \in Rows, c \in Cols} :
    /\ e[2] \in pattern[e[1]]
    /\ Indptr(e[1]) + LowerBoundRef(RowIndices(e[1]), e[2]) = g

(* Values the read A[vi, mid_0[vi, vj]] may return.                        *)
AAt(r, q) ==
  LET g == Indptr(r) + q
  IN IF g < Nnz THEN {AVal(EntryAt(g)[1], EntryAt(g)[2])} ELSE OobValues

Init ==
  /\ pattern \in [Rows -> SUBSET Cols]
  /\ mid = [r \in Rows |-> [c \in Cols |-> 0]]
  /\ C \in [Rows -> StaleC]
  /\ phase = "search"
  /\ i = 0 /\ j = 0

(* Advances the (i, j) counters of a T.grid(m, n) nest.                    *)
NextCell == IF j + 1 < NumCols THEN <<i, j + 1>> ELSE <<i + 1, 0>>

(* binary_search_block_0_0 for (vi, vj) = (i, j).                           *)
SearchBlock ==
  /\ phase = "search" /\ i < NumRows
  /\ mid' = [mid EXCEPT ![i][j] = LowerBoundRef(RowIndices(i), j)]
  /\ i' = NextCell[1] /\ j' = NextCell[2]
  /\ UNCHANGED <<pattern, C, phase>>

(* The search grid ends; the compute grid starts.                          *)
SearchDone ==
  /\ phase = "search" /\ i = NumRows
  /\ phase' = "compute" /\ i' = 0 /\ j' = 0
  /\ UNCHANGED <<pattern, mid, C>>

(* Block csrmm0 for (vi, vj): T.init at vj = 0, then the product at mid_0. *)
(* It is taken whatever mid_0 points at.                                  *)
Csrmm0Add ==
  /\ phase = "compute" /\ i < NumRows
  /\ \E a \in AAt(i, mid[i][j]) :
       C' = [C EXCEPT ![i] = (IF j = 0 THEN 0 ELSE @) + a * BVal(j)]
  /\ i' = NextCell[1] /\ j' = NextCell[2]
  /\ UNCHANGED <<pattern, mid, phase>>

ComputeDone ==
  /\ phase = "compute" /\ i = NumRows
  /\ phase' = "done"
  /\ UNCHANGED <<pattern, mid, C, i, j>>

Next ==
  \/ SearchBlock \/ SearchDone
  \/ Csrmm0Add \/ ComputeDone

(* The program runs its loop nests to the end.                             *)
Spec == Init /\ [][Next]_vars /\ WF_vars(Next)

-----------------------------------------------------------------------------
TypeOK ==
  /\ pattern \in [Rows -> SUBSET Cols]
  /\ mid \in [Rows -> [Cols -> 0 .. NumCols]]
  /\ C \in [Rows -> Int]
  /\ phase \in {"search", "compute", "done"}
  /\ i \in 0 .. NumRows /\ j \in 0 .. NumCols - 1

RowFinished(r) == phase = "done" \/ (phase = "compute" /\ r < i)

(* Refinement: the lowered dense-iteration kernel computes SpMM: a row's   *)
(* C, once the compute grid has left the row, is its dot product over the *)
(* row's nonzeros, so every column absent from the row must contribute    *)
(* nothing although a product is formed for every column.                  *)
Abstract == INSTANCE SpMM WITH
              Rows <- Rows, Cols <- Cols, B <- [c \in Cols |-> BVal(c)],
              out <- [r \in Rows |-> IF RowFinished(r) THEN C[r] ELSE NotDone]

ImplementsSpMM == Abstract!Spec

=============================================================================
