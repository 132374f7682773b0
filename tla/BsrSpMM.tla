-------------------------------- MODULE BsrSpMM --------------------------------
(***************************************************************************)
(* The block-sparse path of tests/python/sparsetir/                       *)
(* sparse_tir_lowered_iter_scripts.py: csr2bsr converts a CSR matrix to   *)
(* BSR, and bsrmm multiplies the BSR matrix with a dense B.               *)
(*                                                                         *)
(* csr2bsr is given the BSR structure (indptr_out, indices_out) by its    *)
(* caller and fills the values only.  Its preprocess grid                 *)
(* binary_search_block_0_0/0_1 stores in mid_0[vi, vj] the lower-bound    *)
(* position of block column J_indices[vi, vj] // blk_size in block row    *)
(* vi // blk_size; its grid csr2bsr0/csr2bsr1 then stores A[vi, vj] at    *)
(* B[vi // blk_size, mid_0[vi, vj], vi % blk_size, J_indices % blk_size]. *)
(* A search block is one step whose result is the lower bound the         *)
(* BinarySearch module shows its loop computes.  The BSR values are kept  *)
(* flat, block after block, as the buffer is, so a block written at a    *)
(* wrong position lands in another block.                                  *)
(*                                                                         *)
(* bsrmm runs T.grid(nb, blk, blk, feat_size) of block bsrmm0, whose      *)
(* T.init (C[vi, vbi, vf] = 0) runs when the reduction iterator vbj is 0, *)
(* and inside it the serial loop of bsrmm1 over the blocks of block row   *)
(* vi.  One feature column is kept.  Scalar row r of C is block row       *)
(* r // Blk, in-block row r % Blk.  The loop nests are not scheduled, so  *)
(* they run in order.                                                      *)
(*                                                                         *)
(* ellmm multiplies a blocked ELL matrix, col blocks in every block row:  *)
(* one block ellmm0 per cell of T.grid(nb, col, blk, blk, feat_size),     *)
(* with j and bj its reduction iterators, so its T.init runs at           *)
(* j = bj = 0.  It is modelled reading the BSR buffer csr2bsr produced,  *)
(* when every block row holds the same number col > 0 of blocks: that    *)
(* buffer is then the ELL layout, block j of block row i at i * col + j.  *)
(***************************************************************************)
EXTENDS Integers, Sequences, SequencesExt

CONSTANTS
  MIn, NIn,       \* m_in, n_in: the scalar shape
  Blk,            \* blk_size
  AVal(_, _),     \* A[vi, vj] at a CSR nonzero
  BVal(_),        \* B[vj, vf] of the kept feature, by scalar column
  StaleB,         \* what the BSR value buffer holds before csr2bsr
  StaleC,         \* what C holds before bsrmm
  RowPatterns,    \* the column sets a CSR row may have
  Kernels,        \* the multiply kernels run after csr2bsr
  NotDone

ASSUME Blk \in Nat \ {0} /\ MIn % Blk = 0 /\ NIn % Blk = 0

ASSUME RowPatterns \subseteq SUBSET (0 .. NIn - 1)
ASSUME Kernels \subseteq {"bsrmm", "ellmm"}

Rows == 0 .. MIn - 1
Cols == 0 .. NIn - 1
Sub == 0 .. Blk - 1
MOut == MIn \div Blk
NOut == NIn \div Blk

VARIABLES
  kernel,    \* the multiply kernel: "bsrmm" or "ellmm"
  pattern,   \* the CSR pattern: indptr_in / indices_in
  mid,       \* mid_0[vi, vj]
  Bsr,       \* the BSR value buffer: Bsr[p][vbi][vbj] for block p
  C,         \* C[vi, vbi, vf] of the kept feature, by scalar row
  phase,     \* "search", "scatter", "enter", "inner" (bsrmm), "ell" (ellmm),
             \* "done"
  i, j,      \* loop counters: i, j of the CSR grids; vi and j of bsrmm
  vbi, vbj   \* the bi, bj loop counters of bsrmm's grid

vars == <<kernel, pattern, mid, Bsr, C, phase, i, j, vbi, vbj>>

RowIndices(r) == SetToSortSeq(pattern[r], <)
RowLen(r) == Cardinality(pattern[r])
Col(r, q) == RowIndices(r)[q + 1]

(* The BSR structure the caller passes: the block columns holding a        *)
(* nonzero of block row bi, and indptr_out.                                *)
BsrIndices(bi) ==
  SetToSortSeq({c \div Blk : c \in UNION {pattern[r] : r \in bi * Blk .. bi * Blk + Blk - 1}}, <)
BsrIndptr(bi) == MapThenSumSet(LAMBDA b : Len(BsrIndices(b)), 0 .. bi - 1)
Slots == 0 .. MOut * NOut - 1

(* Lower-bound position of k in a sorted sequence (see BinarySearch).     *)
LowerBoundRef(s, k) == Cardinality({p \in 1 .. Len(s) : s[p] < k})

(* ellmm's col: the same number of blocks in every block row.             *)
EllCol == Len(BsrIndices(0))
EllLayout == EllCol > 0 /\ \A bi \in 0 .. MOut - 1 : Len(BsrIndices(bi)) = EllCol

Init ==
  /\ kernel \in Kernels
  /\ pattern \in [Rows -> RowPatterns]
  /\ kernel = "ellmm" => EllLayout
  /\ mid = [r \in Rows |-> [q \in 0 .. NIn - 1 |-> 0]]
  /\ Bsr \in [Slots -> [Sub -> [Sub -> StaleB]]]
  /\ C \in [Rows -> StaleC]
  /\ phase = "search"
  /\ i = 0 /\ j = 0 /\ vbi = 0 /\ vbj = 0

(* Mutation of the search block: <= for < (an upper bound).                *)
SearchUpper ==
  /\ phase = "search" /\ i < MIn /\ j < RowLen(i)
  /\ mid' = [mid EXCEPT ![i][j] = Cardinality({p \in 1 .. Len(BsrIndices(i \div Blk)) :
                                      BsrIndices(i \div Blk)[p] <= Col(i, j) \div Blk})]
  /\ j' = j + 1
  /\ UNCHANGED <<kernel, pattern, Bsr, C, phase, i, vbi, vbj>>

(* binary_search_block_0_1 for (vi, vj) = (i, j).                           *)
Search ==
  /\ phase = "search" /\ i < MIn /\ j < RowLen(i)
  /\ mid' = [mid EXCEPT ![i][j] = LowerBoundRef(BsrIndices(i \div Blk), Col(i, j) \div Blk)]
  /\ j' = j + 1
  /\ UNCHANGED <<kernel, pattern, Bsr, C, phase, i, vbi, vbj>>

(* Mutation of the search grid: j not restarted for the next row.          *)
SearchRowEndNoReset ==
  /\ phase = "search" /\ i < MIn /\ j = RowLen(i)
  /\ i' = i + 1
  /\ UNCHANGED <<kernel, pattern, mid, Bsr, C, phase, j, vbi, vbj>>

(* The j loop of binary_search_block_0_0 ends: next row.                   *)
SearchRowEnd ==
  /\ phase = "search" /\ i < MIn /\ j = RowLen(i)
  /\ i' = i + 1 /\ j' = 0
  /\ UNCHANGED <<kernel, pattern, mid, Bsr, C, phase, vbi, vbj>>

SearchDone ==
  /\ phase = "search" /\ i = MIn
  /\ phase' = "scatter" /\ i' = 0
  /\ UNCHANGED <<kernel, pattern, mid, Bsr, C, j, vbi, vbj>>

(* Block csr2bsr1 for (vi, vj) = (i, j).                                    *)
Scatter ==
  /\ phase = "scatter" /\ i < MIn /\ j < RowLen(i)
  /\ LET p == BsrIndptr(i \div Blk) + mid[i][j]
     IN Bsr' = [Bsr EXCEPT ![p][i % Blk][Col(i, j) % Blk] = AVal(i, Col(i, j))]
  /\ j' = j + 1
  /\ UNCHANGED <<kernel, pattern, mid, C, phase, i, vbi, vbj>>

ScatterRowEnd ==
  /\ phase = "scatter" /\ i < MIn /\ j = RowLen(i)
  /\ i' = i + 1 /\ j' = 0
  /\ UNCHANGED <<kernel, pattern, mid, Bsr, C, phase, vbi, vbj>>

(* csr2bsr has ended: the multiply kernel starts.                          *)
ScatterDone ==
  /\ phase = "scatter" /\ i = MIn
  /\ phase' = IF kernel = "bsrmm" THEN "enter" ELSE "ell"
  /\ i' = 0
  /\ UNCHANGED <<kernel, pattern, mid, Bsr, C, j, vbi, vbj>>

(* Mutation of bsrmm0: the T.init taken at every vbj.                      *)
BsrmmEnterInitEveryBj ==
  /\ phase = "enter" /\ i < MOut
  /\ C' = [C EXCEPT ![i * Blk + vbi] = 0]
  /\ phase' = "inner"
  /\ UNCHANGED <<kernel, pattern, mid, Bsr, i, j, vbi, vbj>>

(* Block bsrmm0 for (vi, vbi, vbj): T.init when vbj = 0, enter the j loop. *)
BsrmmEnter ==
  /\ phase = "enter" /\ i < MOut
  /\ C' = [C EXCEPT ![i * Blk + vbi] = IF vbj = 0 THEN 0 ELSE @]
  /\ phase' = "inner"
  /\ UNCHANGED <<kernel, pattern, mid, Bsr, i, j, vbi, vbj>>

(* Block bsrmm1: C += A[vi, vj, vbi, vbj] * B[J_indices[vi, vj], vbj, vf]. *)
BsrmmStep ==
  /\ phase = "inner" /\ j < Len(BsrIndices(i))
  /\ LET blk == Bsr[BsrIndptr(i) + j]
         c == BsrIndices(i)[j + 1] * Blk + vbj
     IN C' = [C EXCEPT ![i * Blk + vbi] = @ + blk[vbi][vbj] * BVal(c)]
  /\ j' = j + 1
  /\ UNCHANGED <<kernel, pattern, mid, Bsr, phase, i, vbi, vbj>>

(* The j loop ends: the next cell of T.grid(nb, blk, blk, feat_size).      *)
BsrmmNext ==
  /\ phase = "inner" /\ j = Len(BsrIndices(i))
  /\ phase' = "enter" /\ j' = 0
  /\ vbj' = (vbj + 1) % Blk
  /\ vbi' = IF vbj + 1 < Blk THEN vbi ELSE (vbi + 1) % Blk
  /\ i' = IF vbj + 1 < Blk \/ vbi + 1 < Blk THEN i ELSE i + 1
  /\ UNCHANGED <<kernel, pattern, mid, Bsr, C>>

BsrmmDone ==
  /\ phase = "enter" /\ i = MOut
  /\ phase' = "done"
  /\ UNCHANGED <<kernel, pattern, mid, Bsr, C, i, j, vbi, vbj>>

(* Block ellmm0 for (vi, vj, vbi, vbj) = (i, j, vbi, vbj): T.init when    *)
(* vj = vbj = 0, then C += A[vi, vj, vbi, vbj] * B[J_indices[vi, vj], vbj]; *)
(* then the next cell of T.grid(nb, col, blk, blk, feat_size).             *)
EllmmStep ==
  /\ phase = "ell" /\ i < MOut
  /\ LET blk == Bsr[i * EllCol + j]
         c == BsrIndices(i)[j + 1] * Blk + vbj
     IN C' = [C EXCEPT ![i * Blk + vbi] = (IF j = 0 /\ vbj = 0 THEN 0 ELSE @)
                                           + blk[vbi][vbj] * BVal(c)]
  /\ vbj' = (vbj + 1) % Blk
  /\ vbi' = IF vbj + 1 < Blk THEN vbi ELSE (vbi + 1) % Blk
  /\ LET blockDone == vbj + 1 = Blk /\ vbi + 1 = Blk
     IN /\ j' = IF blockDone THEN (j + 1) % EllCol ELSE j
        /\ i' = IF blockDone /\ j + 1 = EllCol THEN i + 1 ELSE i
  /\ UNCHANGED <<kernel, pattern, mid, Bsr, phase>>

EllmmDone ==
  /\ phase = "ell" /\ i = MOut
  /\ phase' = "done"
  /\ UNCHANGED <<kernel, pattern, mid, Bsr, C, i, j, vbi, vbj>>

Next ==
  \/ Search \/ SearchRowEnd \/ SearchDone
  \/ Scatter \/ ScatterRowEnd \/ ScatterDone
  \/ BsrmmEnter \/ BsrmmStep \/ BsrmmNext \/ BsrmmDone
  \/ EllmmStep \/ EllmmDone

(* The program runs its loop nests to the end.                             *)
Spec == Init /\ [][Next]_vars /\ WF_vars(Next)

-----------------------------------------------------------------------------
TypeOK ==
  /\ pattern \in [Rows -> SUBSET Cols]
  /\ Bsr \in [Slots -> [Sub -> [Sub -> Int]]]
  /\ C \in [Rows -> Int]
  /\ kernel \in Kernels
  /\ phase \in {"search", "scatter", "enter", "inner", "ell", "done"}
  /\ {vbi, vbj} \subseteq Sub
  \* the CSR loop counters stay within the row being processed
  /\ (phase \in {"search", "scatter"} /\ i < MIn) => j \in 0 .. RowLen(i)

(* Once csr2bsr has run, the BSR buffer holds the CSR matrix: every cell  *)
(* of every block of the structure holds A at that position when it is a  *)
(* CSR nonzero and 0 otherwise, the searches having put each nonzero in   *)
(* the block of its block column.                                          *)
BsrRepresentsCsr ==
  phase \in {"enter", "inner", "ell", "done"} =>
    \A bi \in 0 .. MOut - 1 : \A q \in 0 .. Len(BsrIndices(bi)) - 1, x, y \in Sub :
      LET r == bi * Blk + x
          c == BsrIndices(bi)[q + 1] * Blk + y
      IN Bsr[BsrIndptr(bi) + q][x][y] = IF c \in pattern[r] THEN AVal(r, c) ELSE 0

(* The multiply kernel's grid has left scalar row r.                      *)
RowFinished(r) ==
  \/ phase = "done"
  \/ /\ phase \in {"enter", "inner"}
     /\ \/ i > r \div Blk
        \/ i = r \div Blk /\ vbi > r % Blk
  \/ /\ phase = "ell"
     /\ \/ i > r \div Blk
        \/ i = r \div Blk /\ j = EllCol - 1 /\ vbi > r % Blk

(* Refinement: csr2bsr followed by bsrmm or ellmm computes SpMM of the CSR matrix: *)
(* each scalar row of C, once bsrmm's grid has left it, is the row's dot  *)
(* product, whatever C held before, empty block rows included.             *)
Abstract == INSTANCE SpMM WITH
              Rows <- Rows, Cols <- Cols, B <- [c \in Cols |-> BVal(c)],
              out <- [r \in Rows |-> IF RowFinished(r) THEN C[r] ELSE NotDone]

ImplementsSpMM == Abstract!Spec

=============================================================================
