------------------------------ MODULE PaddedSpMM ------------------------------
(***************************************************************************)
(* The padded CSR SpMM of tests/python/sparsetir/bench_spmm.py.            *)
(*                                                                         *)
(* pad_graph adds, for every node v of in-degree deg, edges 0 -> v until   *)
(* the in-degree is a multiple of tile_size.  bench_tir_csrmm takes the    *)
(* CSC arrays of the padded graph, divides indptr by tile_size, fills      *)
(* A_data with ones, and launches csrmm_padding_tir: per row vi           *)
(* ("spmm_outer", i on blockIdx.x) T.init zeroes C, then the serial loop   *)
(* over the row's tiles j ("spmm_inner") runs the tile loop t              *)
(* ("spmm_inner_2") that adds A_data[(vj + A_indptr[vi]) * tile_size + vt] *)
(* * B[A_indices[same position] * K + vk].                                 *)
(*                                                                         *)
(* The CSC arrays are kept whole, as one index sequence over all rows, so *)
(* a row whose tiles are misplaced reads another row's entries.  Within a *)
(* row the sources are listed in ascending order followed by the padding  *)
(* sources; the sum does not depend on the order.  One feature column.     *)
(* The model checks the result against SpMM over the unpadded graph with  *)
(* unit weights, which is what dgl.ops.u_mul_e_sum(g, h, ones) computes.   *)
(***************************************************************************)
EXTENDS Integers, Sequences, SequencesExt

CONSTANTS
  NumNodes,   \* g.num_dst_nodes() = g.num_src_nodes()
  TileSize,   \* tile_size
  BVal(_),    \* x[u] of the kept feature
  PadA,       \* A_data at a padding edge: 1 with np.ones
  StaleC,     \* what C holds before the launch
  NotDone

Nodes == 0 .. NumNodes - 1

ASSUME NumNodes \in Nat \ {0} /\ TileSize \in Nat \ {0}

VARIABLES
  pattern,   \* pattern[v]: the sources u of the edges u -> v of g
  C,         \* C[v] of the kept feature
  pc,        \* per row: "outer", "inner", "done"
  j,         \* per row: the tile loop counter
  t          \* per row: the in-tile loop counter

vars == <<pattern, C, pc, j, t>>

(* pad_graph: edges_to_add = ((deg + tile_size - 1) // tile_size)          *)
(*                           * tile_size - deg                             *)
PadCount(v) ==
  LET deg == Cardinality(pattern[v])
  IN ((deg + TileSize - 1) \div TileSize) * TileSize - deg

(* Column v of the padded graph's CSC: the real sources, then the padding *)
(* sources th.full((edges_to_add,), 0).                                    *)
PaddedRow(v) ==
  SetToSortSeq(pattern[v], <) \o [k \in 1 .. PadCount(v) |-> 0]

(* indices_ of g_pad.adj_sparse("csc"), 0-based positions.                 *)
PaddedIndices == FlattenSeq([k \in 1 .. NumNodes |-> PaddedRow(k - 1)])

(* indptr_[v]: the position of the first edge into v.                     *)
PaddedIndptr(v) == MapThenSumSet(LAMBDA u : Len(PaddedRow(u)), 0 .. v - 1)

(* Mutation of A_indptr: indptr_ passed without the division.             *)
AIndptrUndivided(v) == PaddedIndptr(v)

(* A_indptr = indptr_ // tile_size, in tiles.                               *)
AIndptr(v) == PaddedIndptr(v) \div TileSize

Tiles(v) == AIndptr(v + 1) - AIndptr(v)

(* The slot the tile loop reads: (vj + A_indptr[vi]) * tile_size + vt.      *)
Slot(v) == (j[v] + AIndptr(v)) * TileSize + t[v]

IsPadSlot(p) ==
  \E v \in Nodes : /\ PaddedIndptr(v) + Cardinality(pattern[v]) <= p
                   /\ p < PaddedIndptr(v + 1)

(* A_data: np.ones for the edges of g, PadA for the padding edges.         *)
AData(p) == IF IsPadSlot(p) THEN PadA ELSE 1

Init ==
  /\ pattern \in [Nodes -> SUBSET Nodes]
  /\ C \in [Nodes -> StaleC]
  /\ pc = [v \in Nodes |-> "outer"]
  /\ j = [v \in Nodes |-> 0]
  /\ t = [v \in Nodes |-> 0]

(* Block spmm_outer: T.init C[vi * K + vk] = 0, enter the tile loop.       *)
PadOuter(v) ==
  /\ pc[v] = "outer"
  /\ C' = [C EXCEPT ![v] = 0]
  /\ pc' = [pc EXCEPT ![v] = "inner"]
  /\ UNCHANGED <<pattern, j, t>>

(* Block spmm_inner_2: one element of the tile.                            *)
PadTileStep(v) ==
  /\ pc[v] = "inner" /\ j[v] < Tiles(v) /\ t[v] < TileSize
  /\ C' = [C EXCEPT ![v] = @ + AData(Slot(v)) * BVal(PaddedIndices[Slot(v) + 1])]
  /\ t' = [t EXCEPT ![v] = @ + 1]
  /\ UNCHANGED <<pattern, pc, j>>

(* Mutation of the tile loop: vt not restarted for the next tile.          *)
PadTileNextNoReset(v) ==
  /\ pc[v] = "inner" /\ j[v] < Tiles(v) /\ t[v] = TileSize
  /\ j' = [j EXCEPT ![v] = @ + 1]
  /\ UNCHANGED <<pattern, C, pc, t>>

(* Mutation of the tile loop: vt advanced where it should restart.         *)
PadTileNextAdvance(v) ==
  /\ pc[v] = "inner" /\ j[v] < Tiles(v) /\ t[v] = TileSize
  /\ j' = [j EXCEPT ![v] = @ + 1]
  /\ t' = [t EXCEPT ![v] = @ + 1]
  /\ UNCHANGED <<pattern, C, pc>>

(* End of a tile: the next iteration of spmm_inner.                        *)
PadTileNext(v) ==
  /\ pc[v] = "inner" /\ j[v] < Tiles(v) /\ t[v] = TileSize
  /\ j' = [j EXCEPT ![v] = @ + 1]
  /\ t' = [t EXCEPT ![v] = 0]
  /\ UNCHANGED <<pattern, C, pc>>

(* The loop over A_indptr[vi + 1] - A_indptr[vi] tiles ends.               *)
PadRowEnd(v) ==
  /\ pc[v] = "inner" /\ j[v] = Tiles(v)
  /\ pc' = [pc EXCEPT ![v] = "done"]
  /\ UNCHANGED <<pattern, C, j, t>>

RowStep(v) ==
  PadOuter(v) \/ PadTileStep(v) \/ PadTileNext(v) \/ PadRowEnd(v)

Next == \E v \in Nodes : RowStep(v)

(* Every thread block of the launch runs to its end.                       *)
Spec == Init /\ [][Next]_vars /\ \A v \in Nodes : WF_vars(RowStep(v))

-----------------------------------------------------------------------------
TypeOK ==
  /\ pattern \in [Nodes -> SUBSET Nodes]
  /\ C \in [Nodes -> Int]
  /\ pc \in [Nodes -> {"outer", "inner", "done"}]
  /\ j \in [Nodes -> Nat]
  /\ t \in [Nodes -> 0 .. TileSize]

(* Every slot the tile loop is about to read lies inside the padded        *)
(* indices: the row's tiles, found by dividing indptr_ by tile_size, stay *)
(* inside the arrays pad_graph produced.                                   *)
ReadsInBounds ==
  \A v \in Nodes :
    (pc[v] = "inner" /\ j[v] < Tiles(v) /\ t[v] < TileSize)
      => Slot(v) < Len(PaddedIndices)

One(r, c) == 1

(* Refinement: the padded kernel computes, for every node, the sum of x   *)
(* over its in-edges in the unpadded graph, the result of                  *)
(* u_mul_e_sum(g, h, ones).  This needs the padding to be neutral and     *)
(* every row's tiles to be exactly its own edges.                          *)
Abstract == INSTANCE SpMM WITH
              Rows <- Nodes, Cols <- Nodes, AVal <- One, B <- [u \in Nodes |-> BVal(u)],
              out <- [v \in Nodes |-> IF pc[v] = "done" THEN C[v] ELSE NotDone]

ImplementsSpMM == Abstract!Spec

=============================================================================
