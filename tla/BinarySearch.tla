---------------------------- MODULE BinarySearch ----------------------------
(***************************************************************************)
(* The binary searches that sparse-iteration lowering emits as            *)
(* "binary_search_block" preprocess blocks in                             *)
(* tests/python/sparsetir/sparse_tir_lowered_iter_scripts.py.  Two loops  *)
(* occur there:                                                           *)
(*                                                                         *)
(*   - the lower-bound search of a column key in the sorted index array   *)
(*     of one CSR row (csrmm_dense_iter, square_sum_two_K, csr2bsr): it   *)
(*     leaves mid at the first position whose index is not below the key; *)
(*   - the row search of fused_sddmm: an upper-bound search of a          *)
(*     nonzero position j in indptr, followed by mid := mid - 1, which     *)
(*     leaves mid at the row that owns nonzero j.                          *)
(*                                                                         *)
(* One behaviour is one execution of one search block.  The loop is       *)
(* modelled iteration by iteration over the block's local low/high cells  *)
(* and the mid_0 cell it writes.  Positions are 0-based as in the code;   *)
(* At(s, p) reads element p of a 0-based array kept as a TLA+ sequence.   *)
(***************************************************************************)
EXTENDS Integers, Sequences, SequencesExt

CONSTANTS
  MaxIndex,   \* largest column index of a row (n - 1 in the kernels)
  MaxLen,     \* longest row searched by the lower-bound search
  MaxRows,    \* most rows m of an indptr searched by the row search
  MaxNnz      \* largest nnz, the last entry of an indptr

ASSUME /\ MaxIndex \in Nat /\ MaxLen \in Nat
       /\ MaxRows \in Nat \ {0} /\ MaxNnz \in Nat \ {0}

VARIABLES
  kind,   \* "lower" (column search in a row) or "row" (row of a nonzero)
  arr,    \* the array searched: J_indices[vi, :] or J_indptr[0 : m + 1]
  key,    \* the key: vj (column) or the nonzero position vj
  low,    \* low[0]
  high,   \* high[0]
  mid,    \* mid_0[vi, vj]
  pc

vars == <<kind, arr, key, low, high, mid, pc>>

At(s, p) == s[p + 1]

(* The index array of a row of a sparse_variable axis declared sorted=True. *)
SortedRows == {s \in BoundedSeq(0 .. MaxIndex, MaxLen) : IsSorted(s, <)}

(* An indptr array of m rows: starts at 0, never decreases, nnz > 0.        *)
IndptrArrays ==
  UNION { {s \in [1 .. m + 1 -> 0 .. MaxNnz] :
              /\ s[1] = 0
              /\ IsSorted(s, <=)
              /\ s[m + 1] > 0} : m \in 1 .. MaxRows }

Midpoint(l, h) == l + (h - l) \div 2

-----------------------------------------------------------------------------
(* Reference definitions the searches are checked against.                 *)

(* Number of indices of the row below k: the lower-bound position.         *)
LowerBoundRef(s, k) == Cardinality({p \in 1 .. Len(s) : s[p] < k})

(* The row r with indptr[r] <= j < indptr[r + 1].                           *)
RowOfRef(ptr, j) ==
  CHOOSE r \in 0 .. Len(ptr) - 2 : At(ptr, r) <= j /\ j < At(ptr, r + 1)

-----------------------------------------------------------------------------
Init ==
  /\ \/ /\ kind = "lower"
        /\ arr \in SortedRows
        /\ key \in 0 .. MaxIndex          \* vj ranges over J_detach
     \/ /\ kind = "row"
        /\ arr \in IndptrArrays
        /\ key \in 0 .. arr[Len(arr)] - 1 \* vj ranges over 0 .. nnz - 1
  /\ low = 0 /\ high = 0 /\ mid = 0
  /\ pc = "start"

(* Mutations of LowerBoundStart: the row extent taken one or two too long. *)
LowerBoundStartPastRow ==
  /\ pc = "start" /\ kind = "lower"
  /\ low' = 0 /\ high' = Len(arr) + 1
  /\ mid' = Midpoint(0, Len(arr) + 1)
  /\ pc' = "loop"
  /\ UNCHANGED <<kind, arr, key>>

LowerBoundStartTwoPast ==
  /\ pc = "start" /\ kind = "lower"
  /\ low' = 0 /\ high' = Len(arr) + 2
  /\ mid' = Midpoint(0, Len(arr) + 2)
  /\ pc' = "loop"
  /\ UNCHANGED <<kind, arr, key>>

(* low[0] = 0; high[0] = J_indptr[vi + 1] - J_indptr[vi]; first midpoint.  *)
LowerBoundStart ==
  /\ pc = "start" /\ kind = "lower"
  /\ low' = 0
  /\ high' = Len(arr)
  /\ mid' = Midpoint(0, Len(arr))
  /\ pc' = "loop"
  /\ UNCHANGED <<kind, arr, key>>

(* Mutation of LowerBoundStep: <= for < in the comparison.                 *)
LowerBoundStepLe ==
  /\ pc = "loop" /\ kind = "lower"
  /\ low < high
  /\ LET goRight == At(arr, mid) <= key
         l == IF goRight THEN mid + 1 ELSE low
         h == IF goRight THEN high ELSE mid
     IN /\ low' = l /\ high' = h
        /\ mid' = Midpoint(l, h)
  /\ UNCHANGED <<kind, arr, key, pc>>

(* One iteration of the while loop of the column search.                   *)
LowerBoundStep ==
  /\ pc = "loop" /\ kind = "lower"
  /\ low < high
  /\ LET goRight == At(arr, mid) < key
         l == IF goRight THEN mid + 1 ELSE low
         h == IF goRight THEN high ELSE mid
     IN /\ low' = l /\ high' = h
        /\ mid' = Midpoint(l, h)
  /\ UNCHANGED <<kind, arr, key, pc>>

(* The loop condition low < high fails: mid_0 keeps the last midpoint.      *)
LowerBoundExit ==
  /\ pc = "loop" /\ kind = "lower"
  /\ low >= high
  /\ pc' = "done"
  /\ UNCHANGED <<kind, arr, key, low, high, mid>>

(* low[0] = 0; high[0] = m + 1; first midpoint (fused_sddmm).             *)
RowSearchStart ==
  /\ pc = "start" /\ kind = "row"
  /\ low' = 0
  /\ high' = Len(arr)
  /\ mid' = Midpoint(0, Len(arr))
  /\ pc' = "loop"
  /\ UNCHANGED <<kind, arr, key>>

(* Mutation of RowSearchStep: low[0] = mid_0 instead of mid_0 + 1.         *)
RowSearchStepNoAdvance ==
  /\ pc = "loop" /\ kind = "row"
  /\ low < high
  /\ LET goLeft == At(arr, mid) > key
         l == IF goLeft THEN low ELSE mid
         h == IF goLeft THEN mid ELSE high
     IN /\ low' = l /\ high' = h
        /\ mid' = Midpoint(l, h)
  /\ UNCHANGED <<kind, arr, key, pc>>

(* One iteration: J_indptr[mid] > vj moves high down, otherwise low up.    *)
RowSearchStep ==
  /\ pc = "loop" /\ kind = "row"
  /\ low < high
  /\ LET goLeft == At(arr, mid) > key
         l == IF goLeft THEN low ELSE mid + 1
         h == IF goLeft THEN mid ELSE high
     IN /\ low' = l /\ high' = h
        /\ mid' = Midpoint(l, h)
  /\ UNCHANGED <<kind, arr, key, pc>>

(* Loop exit followed by mid_0[vi, vj] = mid_0[vi, vj] - 1.                 *)
RowSearchExit ==
  /\ pc = "loop" /\ kind = "row"
  /\ low >= high
  /\ mid' = mid - 1
  /\ pc' = "done"
  /\ UNCHANGED <<kind, arr, key, low, high>>

Next ==
  \/ LowerBoundStart \/ LowerBoundStep \/ LowerBoundExit
  \/ RowSearchStart \/ RowSearchStep \/ RowSearchExit

(* A search block runs on one thread that is never preempted forever.      *)
Spec == Init /\ [][Next]_vars /\ WF_vars(Next)

-----------------------------------------------------------------------------
TypeOK ==
  /\ kind \in {"lower", "row"}
  /\ arr \in Seq(0 .. MaxNnz + MaxIndex)
  /\ key \in Nat
  /\ {low, high} \subseteq 0 .. Len(arr) + 1
  /\ mid \in -1 .. Len(arr) + 1
  /\ pc \in {"start", "loop", "done"}

(* Every element the loop body reads, J_indices[vi, mid] or J_indptr[mid], *)
(* lies inside the array searched.  A read past the end of a row's index   *)
(* array silently reads the next row's indices (or past the buffer for     *)
(* the last row), which no assertion in the lowered code would notice.     *)
ReadsInBounds ==
  (pc = "loop" /\ low < high) => mid \in 0 .. Len(arr) - 1

(* When the loop has ended, mid_0 holds what the consuming block assumes:  *)
(* the lower-bound position of the column in the row, or the row owning   *)
(* the nonzero, for every row pattern including empty rows and keys that  *)
(* are absent from the row.                                                *)
SearchResultCorrect ==
  pc = "done" =>
    IF kind = "lower" THEN mid = LowerBoundRef(arr, key)
                      ELSE mid = RowOfRef(arr, key)

(* Every search block terminates.                                          *)
Terminates == <>(pc = "done")

=============================================================================
