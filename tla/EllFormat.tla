------------------------------- MODULE EllFormat -------------------------------
(***************************************************************************)
(* The ELL formats declared in examples/spmm/utils.py, from the graph a    *)
(* caller loads to the SpMM that reads the format.                         *)
(*                                                                         *)
(* get_dataset(name) loads the named graph and returns it with int32 ids,  *)
(* or raises KeyError for a name it does not know.  Node ids are below     *)
(* 2^31 in every listed dataset, so the int32 cast keeps them.             *)
(*                                                                         *)
(* ell declares A over (O, I, J): O = dense_fixed(1); I =                 *)
(* sparse_variable(O, (m, num_rows), (indptr_i, indices_i)), the stored    *)
(* rows; J = sparse_fixed(I, (n, nnz_cols), indices_j), nnz_cols column    *)
(* slots per stored row.  ell_ind has the same O and I but J =             *)
(* dense_fixed(nnz_cols): slot q of a stored row is column q itself.       *)
(* Value slot q of stored row p is a[p * nnz_cols + q], and so is its     *)
(* column indices_j[p * nnz_cols + q] in ell.                              *)
(*                                                                         *)
(* ellfuse declares A over (R, IO, II, J): IO = dense_fixed(nnz_tile_block)*)
(* tile blocks; II = sparse_variable(IO, (d2, nnz_rows), (indptr_ii,       *)
(* indices_ii)), the rows of each tile block, nnz_rows counting them over  *)
(* all blocks; J = sparse_fixed(II, (d3, nnz_cols), indices_j), with d3    *)
(* the tile's column count.  A row with nonzeros in several tile blocks   *)
(* is stored once in each.  ell is the case of one tile block spanning     *)
(* every column (O = dense_fixed(1), indptr_i = [0, num_rows]), so the    *)
(* three formats share one state: indptr, the stored rows of all tile    *)
(* blocks in order, and slot p * nnz_cols + q of the p-th stored row.     *)
(* The tile blocks are taken as column tiles of TileWidth columns, and    *)
(* indices_j of ellfuse as the column within the tile.                    *)
(*                                                                         *)
(* No code of the repository fills these buffers.  The loader is the data *)
(* source the format-rewrite design describes: it stores the bucket's     *)
(* rows in ascending order, each row's nonzeros in column order, and      *)
(* fills the remaining slots of a row with padding.  The padding holds    *)
(* the identity 0 at a column that is not one of the row's nonzeros when *)
(* there is one.  The kernel is the rewritten csrmm of bench_spmm.py's    *)
(* buckets, T.iter([T.fuse(O, I), J, F], "SSRS"): for every stored row,   *)
(* T.init zeroes C[vi], then each of the nnz_cols slots adds             *)
(* A[vo, vi, vj] * B[vj].  It runs lowered in order.  One feature column *)
(* is kept.                                                                *)
(***************************************************************************)
EXTENDS Integers, Sequences, SequencesExt

CONSTANTS
  Names,        \* the dataset names a caller may pass
  NumNodes,     \* the nodes of a loaded graph
  Width,        \* nnz_cols
  Formats,      \* a subset of {"ell", "ell_ind", "ellfuse"}
  Tiles,        \* nnz_tile_block of ellfuse
  TileWidth,    \* d3, the columns of a tile block
  RowPatterns,  \* the column sets a loaded row may have
  AVal(_, _),   \* the value of a nonzero
  BVal(_),      \* B[vj, vf] of the kept feature
  StaleA,       \* what a value slot holds before the loader writes it
  StaleC        \* what C holds before the kernel

Nodes == 0 .. NumNodes - 1
Slots == 0 .. NumNodes * Tiles * Width - 1

ASSUME /\ Width \in Nat \ {0} /\ Tiles \in Nat \ {0} /\ TileWidth \in Nat \ {0}
       /\ Formats \subseteq {"ell", "ell_ind", "ellfuse"}
       /\ RowPatterns \subseteq SUBSET Nodes

VARIABLES
  name,        \* the argument of get_dataset
  fmt,         \* the format the buffers are declared in
  pattern,     \* the loaded graph: pattern[r], the columns of row r
  indptr,      \* indptr_i / indptr_ii: where each tile block's rows start
  indicesI,    \* indices_i / indices_ii: the stored rows, ascending per tile
  indicesJ,    \* indices_j[s]: the column of slot s (ell only)
  a,           \* a[s]: the value of slot s
  C,           \* C[vi, vf] of the kept feature
  phase,       \* "load", "fill", "run", "done", "error"
  p, q         \* the stored row and the slot being filled or read

vars == <<name, fmt, pattern, indptr, indicesI, indicesJ, a, C, phase, p, q>>

(* The names get_dataset knows.                                            *)
KnownDatasets ==
  {"arxiv", "proteins", "products", "pubmed", "citeseer", "cora", "ppi",
   "reddit", "dense"}

(* The graphs get_dataset(nm) may return: "dense" is dgl.rand_graph(n,    *)
(* n * n // 2), which draws its edges without replacement.                 *)
Graphs(nm) ==
  IF nm = "dense"
    THEN {g \in [Nodes -> RowPatterns] :
            MapThenSumSet(LAMBDA r : Cardinality(g[r]), Nodes) = (NumNodes * NumNodes) \div 2}
    ELSE [Nodes -> RowPatterns]

(* The tile blocks: O or R has one block of every column; IO has          *)
(* nnz_tile_block blocks of d3 columns each.                              *)
NumTiles == IF fmt = "ellfuse" THEN Tiles ELSE 1
TileBase(t) == IF fmt = "ellfuse" THEN t * TileWidth ELSE 0
TileColumns(t) == {c \in Nodes : c >= TileBase(t) /\ (fmt = "ellfuse" => c < TileBase(t) + TileWidth)}
RowPart(g, r, t) == g[r] \cap TileColumns(t)

(* The rows of graph g that tile block t holds in nnz_cols slots.          *)
TileRows(g, t) ==
  {r \in Nodes :
     CASE fmt = "ell" -> Cardinality(g[r]) <= Width
       [] fmt = "ell_ind" -> g[r] \subseteq 0 .. Width - 1
       [] OTHER -> RowPart(g, r, t) # {} /\ Cardinality(RowPart(g, r, t)) <= Width}

(* num_rows / nnz_rows, the stored rows over all tile blocks.             *)
NumRows == Len(indicesI)

(* The tile block of the pp-th stored row, by indptr_ii.                  *)
TileOf(pp) == CHOOSE t \in 0 .. NumTiles - 1 : indptr[t + 1] <= pp /\ pp < indptr[t + 2]

(* The coordinates of slot q of stored row p, by the declared axes.        *)
EllCol(pp, qq) == indicesJ[pp * Width + qq]
EllIndCol(pp, qq) == qq
EllfuseCol(pp, qq) == TileBase(TileOf(pp)) + indicesJ[pp * Width + qq]
SlotCol(pp, qq) ==
  CASE fmt = "ell" -> EllCol(pp, qq)
    [] fmt = "ell_ind" -> EllIndCol(pp, qq)
    [] OTHER -> EllfuseCol(pp, qq)
SlotRow(pp) == indicesI[pp + 1]
SlotVal(pp, qq) == a[pp * Width + qq]

Init ==
  /\ name \in Names
  /\ fmt \in Formats
  /\ pattern = [r \in Nodes |-> {}]
  /\ indptr = <<0>>
  /\ indicesI = <<>>
  /\ indicesJ = [s \in Slots |-> 0]
  /\ a \in [Slots -> StaleA]
  /\ C \in [Nodes -> StaleC]
  /\ phase = "load"
  /\ p = 0 /\ q = 0

(* get_dataset: a known name loads its graph; any other raises KeyError. *)
(* The loader then lists the rows each tile block holds, and indptr.      *)
GetDataset ==
  /\ phase = "load"
  /\ IF name \in KnownDatasets
       THEN \E g \in Graphs(name) :
              LET blocks == [k \in 1 .. NumTiles |-> SetToSortSeq(TileRows(g, k - 1), <)]
              IN /\ pattern' = g
                 /\ indicesI' = FlattenSeq(blocks)
                 /\ indptr' = [k \in 1 .. NumTiles + 1 |-> Len(FlattenSeq(SubSeq(blocks, 1, k - 1)))]
                 /\ phase' = "fill"
       ELSE /\ phase' = "error"
            /\ UNCHANGED <<pattern, indptr, indicesI>>
  /\ UNCHANGED <<name, fmt, indicesJ, a, C, p, q>>

(* Mutation of the slot loop: J runs to nnz_cols inclusive.                *)
NextSlotPastWidth == IF q < Width THEN <<p, q + 1>> ELSE <<p + 1, 0>>

(* Advances (p, q) over the num_rows x nnz_cols slots.                     *)
NextSlot == IF q + 1 < Width THEN <<p, q + 1>> ELSE <<p + 1, 0>>

(* The loader writes slot q of stored row p: the q-th nonzero of the row  *)
(* in p's tile block, or padding: value 0 at a column of the block that   *)
(* is no nonzero of the row if there is one.  ell_ind writes column q.    *)
FillSlot ==
  /\ phase = "fill" /\ p < NumRows
  /\ LET r == SlotRow(p)
         t == TileOf(p)
         cols == SetToSortSeq(RowPart(pattern, r, t), <)
         s == p * Width + q
         free == TileColumns(t) \ pattern[r]
     IN IF fmt = "ell_ind"
          THEN /\ a' = [a EXCEPT ![s] = IF q \in pattern[r] THEN AVal(r, q) ELSE 0]
               /\ UNCHANGED indicesJ
          ELSE IF q < Len(cols)
                 THEN /\ indicesJ' = [indicesJ EXCEPT ![s] = cols[q + 1] - TileBase(t)]
                      /\ a' = [a EXCEPT ![s] = AVal(r, cols[q + 1])]
                 ELSE \E c \in IF free # {} THEN free ELSE TileColumns(t) :
                        /\ indicesJ' = [indicesJ EXCEPT ![s] = c - TileBase(t)]
                        /\ a' = [a EXCEPT ![s] = 0]
  /\ p' = NextSlot[1] /\ q' = NextSlot[2]
  /\ UNCHANGED <<name, fmt, pattern, indptr, indicesI, C, phase>>

(* No kernel of the repository reads ellfuse: its program ends here.      *)
FillDone ==
  /\ phase = "fill" /\ p = NumRows
  /\ phase' = IF fmt = "ellfuse" THEN "done" ELSE "run"
  /\ p' = 0 /\ q' = 0
  /\ UNCHANGED <<name, fmt, pattern, indptr, indicesI, indicesJ, a, C>>

(* Mutation of the kernel: T.init at every slot.                           *)
KernelStepInitEverySlot ==
  /\ phase = "run" /\ p < NumRows
  /\ C' = [C EXCEPT ![SlotRow(p)] = SlotVal(p, q) * BVal(SlotCol(p, q))]
  /\ p' = NextSlot[1] /\ q' = NextSlot[2]
  /\ UNCHANGED <<name, fmt, pattern, indptr, indicesI, indicesJ, a, phase>>

(* Block csrmm_W0 for (vo, vi, vj) = (0, p, q): T.init when vj = 0, then  *)
(* C[vi] = C[vi] + A[vo, vi, vj] * B[vj].                                  *)
KernelStep ==
  /\ phase = "run" /\ p < NumRows
  /\ C' = [C EXCEPT ![SlotRow(p)] = (IF q = 0 THEN 0 ELSE @)
                                     + SlotVal(p, q) * BVal(SlotCol(p, q))]
  /\ p' = NextSlot[1] /\ q' = NextSlot[2]
  /\ UNCHANGED <<name, fmt, pattern, indptr, indicesI, indicesJ, a, phase>>

KernelDone ==
  /\ phase = "run" /\ p = NumRows
  /\ phase' = "done"
  /\ UNCHANGED <<name, fmt, pattern, indptr, indicesI, indicesJ, a, C, p, q>>

Next == GetDataset \/ FillSlot \/ FillDone \/ KernelStep \/ KernelDone

(* The program runs to its end or to the KeyError; no liveness is checked. *)
Spec == Init /\ [][Next]_vars

-----------------------------------------------------------------------------

TypeOK ==
  /\ name \in Names /\ fmt \in Formats
  /\ pattern \in [Nodes -> SUBSET Nodes]
  /\ indicesI \in Seq(Nodes) /\ NumRows <= NumNodes * Tiles
  /\ indptr \in Seq(0 .. NumRows)
  /\ indicesJ \in [Slots -> Nodes]
  /\ phase \in {"load", "fill", "run", "done", "error"}
  /\ p \in 0 .. NumRows /\ q \in 0 .. Width - 1
  /\ p = NumRows => q = 0

(* The row of A times B the format stands for.                             *)
RowDot(r) == MapThenSumSet(LAMBDA c : AVal(r, c) * BVal(c), pattern[r])

(* The kernel over the format computes SpMM: every stored row the loop   *)
(* has passed holds its row of A times B, the empty rows of the bucket    *)
(* included (their nnz_cols padding slots still run T.init).              *)
KernelCorrect ==
  phase \in {"run", "done"} =>
    \A k \in 1 .. p : C[indicesI[k]] = RowDot(indicesI[k])

=============================================================================
