------------------------------ MODULE RgcnHetero ------------------------------
(***************************************************************************)
(* The heterogeneous RGCN forward kernel rgcn_hetero_forward, as lowered   *)
(* in tests/python/sparsetir/sparse_tir_lowered_iter_scripts.py.  The      *)
(* graph is stored per relation vr in CSF form: I_indices[vr] lists the    *)
(* destination nodes that have edges of relation vr (in ascending order),  *)
(* J_indices[vr, vi] the sources of those edges.  For each relation        *)
(* (block rgcn-hetero-forward0) and each of its destination rows (block   *)
(* rgcn-hetero-forward1), the reduction block rgcn-hetero-forward2 runs    *)
(* over the row's edges and the input features; its T.init, taken at the  *)
(* first edge, sets Y[I_indices[vr, vi], vfo] to 0, and every edge adds    *)
(* A[vr, vi, vj] * W[vr, vfo, vfi] * X[J_indices[vr, vi, vj], vfi].        *)
(*                                                                         *)
(* One input and one output feature are kept (W[vr] is then a scalar per  *)
(* relation).  The loop nests are not scheduled and run in order.  The     *)
(* CSF of bench_rgcn_composable keeps only the destination nodes with an  *)
(* edge of the relation (unique_nodes = indptr[:-1] != indptr[1:]).        *)
(***************************************************************************)
EXTENDS Integers, Sequences, SequencesExt

CONSTANTS
  NumRels, NumNodes,
  AVal(_, _, _),   \* A[vr, vi, vj]: the edge weight
  WVal(_),         \* W[vr, vfo, vfi] of the kept features
  XVal(_),         \* X[vj, vfi] of the kept feature
  StaleY           \* what Y holds before the kernel runs

Rels == 0 .. NumRels - 1
Nodes == 0 .. NumNodes - 1

VARIABLES
  pattern,   \* pattern[vr][d]: the sources of the edges into d of relation vr
  Y,         \* Y[d, vfo] of the kept output feature
  pc,        \* "rel", "row", "edge", "done"
  r,         \* the relation loop counter
  i,         \* the row loop counter over I_indices[vr]
  j          \* the edge loop counter over J_indices[vr, vi]

vars == <<pattern, Y, pc, r, i, j>>

(* I_indices[vr, :]: destination nodes with an edge of relation vr.        *)
RelRows(vr) == SetToSortSeq({d \in Nodes : pattern[vr][d] # {}}, <)

(* I_indices[vr, vi]: the destination node of row vi of relation vr.       *)
Dst(vr, vi) == RelRows(vr)[vi + 1]

(* J_indices[vr, vi, :]                                                    *)
RowSrcs(vr, vi) == SetToSortSeq(pattern[vr][Dst(vr, vi)], <)

(* The product one edge adds.                                              *)
EdgeTerm(vr, d, s) == AVal(vr, d, s) * WVal(vr) * XVal(s)

(* What relation vr contributes to node d.                                 *)
RelSum(vr, d) == MapThenSumSet(LAMBDA s : EdgeTerm(vr, d, s), pattern[vr][d])

(* dgl.to_homogeneous lists the edges type after type; within a type the  *)
(* order is immaterial to the sums below.  An edge is <<src, dst>>.        *)
RelEdges(vr) ==
  SetToSortSeq(UNION {{<<u, d>> : u \in pattern[vr][d]} : d \in Nodes},
               LAMBDA a, b : a[2] * NumNodes + a[1] < b[2] * NumNodes + b[1])

HomoEdges == FlattenSeq([k \in 1 .. NumRels |-> RelEdges(k - 1)])

(* prepare_hetero_graph_simplified: etype_pointer, the prefix sums of the  *)
(* edge counts of the edge types.                                          *)
EtypePointer ==
  [k \in 0 .. NumRels |-> MapThenSumSet(LAMBDA vr : Len(RelEdges(vr)), 0 .. k - 1)]

(* get_ground_truth: msg[start:end] = feat[us][start:end] @ weight_T[i - 1] *)
(* for start, end = etype_pointer[i - 1], etype_pointer[i].                 *)
Msg(e) ==
  LET seg == CHOOSE k \in 1 .. NumRels :
               EtypePointer[k - 1] <= e /\ e < EtypePointer[k]
  IN XVal(HomoEdges[e + 1][1]) * WVal(seg - 1)

(* y = copy_e_sum(g_homo, msg): the messages of the edges into d summed.   *)
GroundTruth(d) ==
  MapThenSumSet(Msg, {e \in 0 .. Len(HomoEdges) - 1 : HomoEdges[e + 1][2] = d})

Init ==
  /\ pattern \in [Rels -> [Nodes -> SUBSET Nodes]]
  /\ Y \in [Nodes -> StaleY]
  /\ pc = "rel"
  /\ r = 0 /\ i = 0 /\ j = 0

(* Block rgcn-hetero-forward0 for vr = r: enter the row loop.             *)
HeteroRel ==
  /\ pc = "rel" /\ r < NumRels
  /\ pc' = "row" /\ i' = 0
  /\ UNCHANGED <<pattern, Y, r, j>>

(* The relation loop ends.                                                 *)
HeteroRelEnd ==
  /\ pc = "rel" /\ r = NumRels
  /\ pc' = "done"
  /\ UNCHANGED <<pattern, Y, r, i, j>>

(* Block rgcn-hetero-forward1 for row i of relation r.                     *)
HeteroRow ==
  /\ pc = "row" /\ i < Len(RelRows(r))
  /\ pc' = "edge" /\ j' = 0
  /\ UNCHANGED <<pattern, Y, r, i>>

(* The row loop of relation r ends: next relation.                        *)
HeteroRowEnd ==
  /\ pc = "row" /\ i = Len(RelRows(r))
  /\ pc' = "rel" /\ r' = r + 1
  /\ UNCHANGED <<pattern, Y, i, j>>

(* Block rgcn-hetero-forward2 for edge j: T.init at the first edge, then  *)
(* Y[I_indices[vr, vi], vfo] += A * W * X.                                 *)
HeteroEdge ==
  /\ pc = "edge" /\ j < Len(RowSrcs(r, i))
  /\ LET d == Dst(r, i)
         s == RowSrcs(r, i)[j + 1]
     IN Y' = [Y EXCEPT ![d] = (IF j = 0 THEN 0 ELSE @) + EdgeTerm(r, d, s)]
  /\ j' = j + 1
  /\ UNCHANGED <<pattern, pc, r, i>>

(* The edge loop of the row ends: next row.                                *)
HeteroEdgeEnd ==
  /\ pc = "edge" /\ j = Len(RowSrcs(r, i))
  /\ pc' = "row" /\ i' = i + 1
  /\ UNCHANGED <<pattern, Y, r, j>>

Next ==
  \/ HeteroRel \/ HeteroRelEnd
  \/ HeteroRow \/ HeteroRowEnd
  \/ HeteroEdge \/ HeteroEdgeEnd

(* The program runs its loop nests to the end.                             *)
Spec == Init /\ [][Next]_vars /\ WF_vars(Next)

-----------------------------------------------------------------------------
TypeOK ==
  /\ pattern \in [Rels -> [Nodes -> SUBSET Nodes]]
  /\ Y \in [Nodes -> Int]
  /\ pc \in {"rel", "row", "edge", "done"}
  /\ r \in 0 .. NumRels
  \* the loop counters stay within the extents of their loops
  /\ pc \in {"row", "edge"} => i \in 0 .. Len(RelRows(r))
  /\ pc = "edge" => j \in 0 .. Len(RowSrcs(r, i))

(* When the kernel has ended, every node holds the ground truth of        *)
(* bench_rgcn_composable: the sum over all relations of their messages.   *)
MatchesGroundTruth ==
  pc = "done" => \A d \in Nodes : Y[d] = GroundTruth(d)

=============================================================================
