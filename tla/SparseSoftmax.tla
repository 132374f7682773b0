----------------------------- MODULE SparseSoftmax -----------------------------
(***************************************************************************)
(* Row softmax over a CSR matrix, sparse_softmax of                        *)
(* tests/python/sparsetir/sparse_tir_lowered_iter_scripts.py (and the      *)
(* T.iter form it is lowered from in sparse_tir_scripts.py).  Per row vi   *)
(* (block sparse_softmax0) three serial loops run over the row's nonzeros: *)
(*   computer_max0: T.init TMP[vi] = min_value; TMP[vi] = max(TMP, A)      *)
(*   exp_and_sum0:  T.init TMP1[vi] = Tmp1Init;                            *)
(*                  TMP1[vi] += exp(A[vi, vj] - TMP[vi])                   *)
(*   div0:          B[vi, vj] = exp(A[vi, vj]) / TMP1[vi]                  *)
(* Tmp1Init is 0 in the lowered script and -100000 in the T.iter script.   *)
(*                                                                         *)
(* Values: A is a small integer; exp(x) is taken as 2^(x + MaxA), a         *)
(* positive, increasing function with exp(a + b) = exp(a) * exp(b) up to  *)
(* the fixed scale 2^MaxA, which is all that softmax's normalisation and  *)
(* its invariance under a shift of the row use; it is 0 below -MaxA        *)
(* (underflow).  B[vi, vj] is kept as the exact fraction <<num, den>>.     *)
(* TMP, TMP1 and B are allocated buffers: they start with stale values.    *)
(***************************************************************************)
EXTENDS Integers, Sequences, SequencesExt

CONSTANTS
  NumRows, NumCols,
  MaxA,        \* A values range over 0 .. MaxA
  MinValue,    \* T.min_value("float32") in the lowered max init
  Tmp1Init,    \* the T.init value of TMP1
  Stale        \* values an uninitialised TMP / TMP1 cell may hold

Rows == 0 .. NumRows - 1
Cols == 0 .. NumCols - 1

VARIABLES
  pattern, A,   \* the CSR matrix: pattern and values
  TMP, TMP1,    \* the per-row max and sum buffers
  B,            \* B[vi][vj] = <<numerator, denominator>>
  phase,        \* "max", "sum", "div" (loops of row i), "done"
  i, j          \* the row loop counter, the counter of the running loop

vars == <<pattern, A, TMP, TMP1, B, phase, i, j>>

RowIndices(r) == SetToSortSeq(pattern[r], <)
RowLen(r) == Cardinality(pattern[r])
Col(r, q) == RowIndices(r)[q + 1]

Exp(x) == IF x + MaxA >= 0 THEN 2 ^ (x + MaxA) ELSE 0

MaxOf(a, b) == IF a >= b THEN a ELSE b

(* Reference: the row's maximum and the softmax denominator.              *)
RowMax(r) == CHOOSE m \in {A[r][c] : c \in pattern[r]} :
               \A c \in pattern[r] : A[r][c] <= m
ExpSum(r) == MapThenSumSet(LAMBDA c : Exp(A[r][c] - RowMax(r)), pattern[r])

Init ==
  /\ pattern \in [Rows -> SUBSET Cols]
  /\ A \in {a \in [Rows -> [Cols -> 0 .. MaxA]] :
              \A r \in Rows, c \in Cols : c \notin pattern[r] => a[r][c] = 0}
  /\ TMP \in [Rows -> Stale]
  /\ TMP1 \in [Rows -> Stale]
  /\ B = [r \in Rows |-> [c \in Cols |-> <<0, 1>>]]
  /\ phase = "max" /\ i = 0 /\ j = 0

(* Mutation of computer_max0: the T.init store left out.                   *)
MaxStepNoInit ==
  /\ phase = "max" /\ i < NumRows /\ j < RowLen(i)
  /\ TMP' = [TMP EXCEPT ![i] = MaxOf(@, A[i][Col(i, j)])]
  /\ j' = j + 1
  /\ UNCHANGED <<pattern, A, TMP1, B, phase, i>>

(* Block computer_max0 for nonzero j of row i.                              *)
MaxStep ==
  /\ phase = "max" /\ i < NumRows /\ j < RowLen(i)
  /\ TMP' = [TMP EXCEPT ![i] = MaxOf(IF j = 0 THEN MinValue ELSE @,
                                     A[i][Col(i, j)])]
  /\ j' = j + 1
  /\ UNCHANGED <<pattern, A, TMP1, B, phase, i>>

MaxEnd ==
  /\ phase = "max" /\ i < NumRows /\ j = RowLen(i)
  /\ phase' = "sum" /\ j' = 0
  /\ UNCHANGED <<pattern, A, TMP, TMP1, B, i>>

(* Block exp_and_sum0 for nonzero j of row i.                               *)
SumStep ==
  /\ phase = "sum" /\ j < RowLen(i)
  /\ TMP1' = [TMP1 EXCEPT ![i] = (IF j = 0 THEN Tmp1Init ELSE @)
                                 + Exp(A[i][Col(i, j)] - TMP[i])]
  /\ j' = j + 1
  /\ UNCHANGED <<pattern, A, TMP, B, phase, i>>

SumEnd ==
  /\ phase = "sum" /\ j = RowLen(i)
  /\ phase' = "div" /\ j' = 0
  /\ UNCHANGED <<pattern, A, TMP, TMP1, B, i>>

(* Block div0 for nonzero j of row i: B = exp(A) / TMP1.                    *)
DivStep ==
  /\ phase = "div" /\ j < RowLen(i)
  /\ B' = [B EXCEPT ![i][Col(i, j)] = <<Exp(A[i][Col(i, j)]), TMP1[i]>>]
  /\ j' = j + 1
  /\ UNCHANGED <<pattern, A, TMP, TMP1, phase, i>>

(* Mutation of the row loop: the loop counter not restarted.               *)
DivEndNoReset ==
  /\ phase = "div" /\ j = RowLen(i)
  /\ phase' = "max" /\ i' = i + 1
  /\ UNCHANGED <<pattern, A, TMP, TMP1, B, j>>

(* The row's last loop ends: next row.                                     *)
DivEnd ==
  /\ phase = "div" /\ j = RowLen(i)
  /\ phase' = "max" /\ i' = i + 1 /\ j' = 0
  /\ UNCHANGED <<pattern, A, TMP, TMP1, B>>

RowsEnd ==
  /\ phase = "max" /\ i = NumRows
  /\ phase' = "done"
  /\ UNCHANGED <<pattern, A, TMP, TMP1, B, i, j>>

Next ==
  \/ MaxStep \/ MaxEnd \/ SumStep \/ SumEnd \/ DivStep \/ DivEnd
  \/ RowsEnd

(* The program runs its loop nests to the end.                             *)
Spec == Init /\ [][Next]_vars /\ WF_vars(Next)

-----------------------------------------------------------------------------
TypeOK ==
  /\ pattern \in [Rows -> SUBSET Cols]
  /\ TMP \in [Rows -> Int] /\ TMP1 \in [Rows -> Int]
  /\ B \in [Rows -> [Cols -> Int \X Int]]
  /\ phase \in {"max", "sum", "div", "done"}
  /\ i \in 0 .. NumRows
  \* the inner loop counter stays within the row being processed
  /\ i < NumRows => j \in 0 .. RowLen(i)

SumDone(r) == r < i \/ (r = i /\ phase = "div")

(* Once a row's exp_and_sum loop has run, TMP holds the row's maximum and  *)
(* TMP1 the sum of exp(A - max) over the row, whatever the allocated      *)
(* buffers held before: both reductions start from their T.init value.     *)
RowStatsCorrect ==
  \A r \in Rows :
    (SumDone(r) /\ pattern[r] # {}) =>
      /\ TMP[r] = RowMax(r)
      /\ TMP1[r] = ExpSum(r)

(* Once a row has run, every B[vi, vj] of it is its softmax,               *)
(* exp(A - max) / sum of exp(A - max) over the row.                        *)
SoftmaxCorrect ==
  \A r \in Rows : r < i =>
    \A c \in pattern[r] :
      B[r][c][1] * ExpSum(r) = Exp(A[r][c] - RowMax(r)) * B[r][c][2]

=============================================================================
