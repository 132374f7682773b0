-------------------------------- MODULE SpMM --------------------------------
(***************************************************************************)
(* What a sparse-matrix times dense-matrix kernel promises, stated once    *)
(* for every kernel of the repository that computes C = A * B over a CSR   *)
(* pattern: the high-level csrmm of tests/python/sparsetir/               *)
(* sparse_tir_scripts.py                                                  *)
(*                                                                         *)
(*    with T.iter([I, K, J], "SSR", "csrmm") as [vi, vk, vj]:            *)
(*        with T.init(): C[vi, vk] = 0.0                                   *)
(*        C[vi, vk] = C[vi, vk] + A[vi, vj] * B[vj, vk]                    *)
(*                                                                         *)
(* I and K are spatial, J (the sparse row) is the reduction.  The dense    *)
(* feature axis K is the same for every k and passes through every format  *)
(* unchanged, so one feature column is kept: out[r] is C[r, k].  Floating  *)
(* point sums are abstracted to integer sums (the benches compare within   *)
(* a tolerance, which reassociation stays inside).                         *)
(*                                                                         *)
(* The row reductions segment_reduce and csr_reduce of the same script,   *)
(* B[vi] = sum over vj of A[vi, vj], are this specification with B all    *)
(* ones.  B is therefore a variable the refining kernel maps, fixed from  *)
(* the first state on.                                                     *)
(*                                                                         *)
(* A row's result appears in one step, holding the full row dot product;   *)
(* until then it is NotDone.  Every row is eventually computed.            *)
(***************************************************************************)
EXTENDS Integers, FiniteSetsExt

CONSTANTS
  Rows,         \* the dense_fixed axis I
  Cols,         \* the column space J_detach of the sparse axis J
  AVal(_, _),   \* A[i, j] at a nonzero (i, j)
  NotDone       \* a row whose result is not yet produced

VARIABLES
  pattern,      \* the nonzero columns of each row: indptr/indices
  B,            \* B[j, k] for the kept feature k
  out           \* the rows of C produced so far

RowDot(p, r) == MapThenSumSet(LAMBDA j : AVal(r, j) * B[j], p[r])

Init ==
  /\ pattern \in [Rows -> SUBSET Cols]
  /\ B \in [Cols -> Int]
  /\ out = [r \in Rows |-> NotDone]

ComputeRow(r) ==
  /\ out[r] = NotDone
  /\ out' = [out EXCEPT ![r] = RowDot(pattern, r)]
  /\ UNCHANGED <<pattern, B>>

Next == \E r \in Rows : ComputeRow(r)

Spec == Init /\ [][Next]_<<pattern, B, out>>
             /\ \A r \in Rows : WF_<<pattern, B, out>>(ComputeRow(r))

=============================================================================
