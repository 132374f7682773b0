# TLA+ models of SparseTIR's sparse kernels

This directory holds TLA+ models of the SparseTIR kernels in
`src/tests/python/sparsetir/` and the TLC runs that check them.

## The system

The repository's code is a set of TVM script programs (`@T.prim_func`) and the
benchmark drivers that specialise, schedule, build and launch them:

| Part | Source | What it does |
|---|---|---|
| High-level sparse kernels | `sparse_tir_scripts.py` | `T.iter` over sparse axes with `T.init`. These state what a kernel computes. |
| Lowered kernels | `sparse_tir_lowered_iter_scripts.py` | Loop nests of `T.block`s that sparse-iteration lowering emits. Coordinates of dense iteration are found by binary-search preprocess blocks (`check_invalid_binary_search: False`). |
| SpMM drivers | `bench_spmm.py` | `csrmm_tir`, `csrmm_padding_tir`, `csrmm_hyb_tir`. `pad_graph` pads the graph; `bench_hyb` builds degree buckets; `bench_tir_csrmm` binds rows to `blockIdx.x` and features to `threadIdx.x`. |
| SDDMM driver | `bench_sddmm.py` | Returns right after the DGL baseline, so its TIR schedules never run. |
| RGCN driver | `bench_rgcn_composable.py` | Builds the hetero-graph prefix sums and format-rewrite rules for RGCN. |
| Example helpers | `examples/spmm/utils.py` | `get_dataset` picks a graph by name or raises `KeyError`. `ell`, `ell_ind`, `ell_inter_buffer` and `ellfuse` declare ELL-style sparse buffers; no code of the repository fills or calls them. |

The parts interact like this. A driver chooses inputs: the CSR pattern, the
buckets and the padding. It then launches a kernel whose thread blocks run
concurrently on the GPU, and each block writes its own part of the output.
Several things make these kernels hard to get right:
- where `T.init` sits relative to a reduction loop that may run zero times;
- the binary searches at the boundaries: empty rows, absent keys, one past
  the end;
- threads of horizontally fused buckets that write the same output
  without atomics;
- padding that must add nothing to the result.

## Modules

### `SpMM`: the abstract specification

This is the high-level `csrmm` of `sparse_tir_scripts.py`. The state is the
pattern, the dense operand `B` and `out`. The action `ComputeRow(r)` sets `out[r]` to the row's dot
product. Every detailed SpMM kernel is checked to refine it.

### `BinarySearch`: the lowered search loops

There are two searches:
- the lower-bound search of a column in a CSR row (`csrmm_dense_iter`
  122-127; the same loop appears in `square_sum_two_K` and `csr2bsr`);
- the upper-bound-minus-one row search of `fused_sddmm` (634-640).

The variables are the block's `low`, `high` and `mid_0` cells. There is one
action per statement group: start, loop iteration, exit. The results are
compared with `LowerBoundRef` and `RowOfRef`, reference definitions by counting
and by `CHOOSE`.

### `CsrmmKernel`: per-row CSR SpMM

It models four kernels, chosen by the variable `kernel`:
- `csrmm_tir` of `bench_spmm.py`, with `T.init` in `spmm_outer`;
- the lowered `csrmm`, with `T.init` inside the reduction block `csrmm1`;
- the lowered row reductions `segment_reduce` and `csr_reduce`, whose
  `T.init` also sits in the reduction block. They are SpMM with B all ones,
  which is how the instance of `SpMM` is given B.

Each row is one thread block (`blockIdx.x`). The feature axis is reduced to a
single column, since every column follows the same control. A C element is
written by one thread only, so each update is one step.
`INSTANCE SpMM WITH out <- ...` maps a finished row's C to `out`.

### `HybSpMM`: the horizontally fused bucketed kernel

This is `csrmm_hyb_tir` with the buckets `bench_hyb` builds. A thread
`<<b, r>>` is bucket b, row r. It runs its T.init, then W slot iterations,
each a separate load and store of C[r]. The threads of all buckets
interleave, since the function carries `horizontal_fuse`. `BucketRows` is
`bench_hyb`'s rule: `rows_W = in_degrees <= W` for every bucket but the last.

### `PaddedSpMM`: `pad_graph` and `csrmm_padding_tir`

`pad_graph` adds edges 0 -> v until every in-degree is a multiple of
`tile_size`. `bench_tir_csrmm` divides indptr by `tile_size` and fills
`A_data` (`PadA` at padding slots). Each row is a thread block. It runs
T.init, then its tiles, then the slots of a tile. The CSC arrays are kept
whole, so a misplaced tile reads another row's data. `ReadsInBounds` checks
every read of `A_data` and `A_indices`.

### `CsrmmDenseIter`: dense column iteration

This is the lowered `csrmm_dense_iter`. A search grid stores the lower-bound
position of each column in `mid_0`. The compute grid then adds
`A[vi, mid_0[vi, vj]] * B[vj]` for every column, and no block checks that the
position holds vj (`check_invalid_binary_search: False`). A read past the last
nonzero returns a value from `OobValues`.

### `RgcnHetero`: per-relation RGCN

This is the lowered `rgcn_hetero_forward` over a per-relation CSF: relation
loop, then destination rows, then edges, with T.init at a row's first edge.
`GroundTruth` translates `get_ground_truth` and
`prepare_hetero_graph_simplified` of `bench_rgcn_composable.py`:
- the edges are listed type after type;
- `EtypePointer` holds the prefix sums of the edge counts;
- each edge's message uses its segment's weight;
- the messages into a node are summed.

### `SparseSoftmax`: row softmax

This is the lowered `sparse_softmax`, three serial loops per row: max, sum
of exp and divide. `exp(x)` is modelled as `2^(x + MaxA)`: positive,
increasing and multiplicative up to a fixed scale, which is all softmax
uses. B is kept as an exact fraction. `TMP` and `TMP1` start stale.

### `BsrSpMM`: `csr2bsr`, then `bsrmm` or `ellmm`

`csr2bsr` first runs a search grid. It stores in `mid_0` the position of
each nonzero's block column in its block row. Each search block is one step
whose loop `BinarySearch` checks. A scatter grid then writes each value into
a flat BSR buffer at `indptr_out[block row] + mid_0`.

The buffer is then multiplied by one of two kernels:
- `bsrmm` runs the grid (vi, vbi, vbj) with T.init at vbj = 0 and a serial
  loop over the block row's blocks;
- `ellmm` reads the same buffer as blocked ELL when every block row has the
  same number `col > 0` of blocks. Its grid is (vi, vj, vbi, vbj) with
  T.init at vj = vbj = 0.

The BSR structure (`indptr_out`, `indices_out`) is the caller's. It is
modelled as the sorted block columns of each block row, as the sorted
`sparse_variable` declaration requires.

### `EllFormat`: `get_dataset`, the ELL axes and the bucket kernel

`GetDataset` translates `get_dataset` (utils.py 23-52):
- a known name loads some graph on `NumNodes` nodes;
- `"dense"` loads one with exactly n * n // 2 edges, as `dgl.rand_graph`
  draws them without replacement;
- any other name ends in `"error"`, the `KeyError`.

The buffers are the axes of `ell` (utils.py 66-69), `ell_ind` (109-112)
and `ellfuse` (135-139). `ell` is the case of `ellfuse` with one tile block
that spans every column, so the three share one state:
- `indptr` is `indptr_ii`, where each tile block's rows start. For `ell`
  it is `indptr_i`, [0, num_rows].
- `indicesI` is `indices_i` / `indices_ii`, the stored rows of all blocks
  in order. A row with nonzeros in two blocks is stored in both.
- `TileOf` finds a stored row's block by `indptr_ii`.
- `EllCol` reads column `indices_j[p * nnz_cols + q]`. `ellfuse` adds its
  block's first column (`EllfuseCol`), and `ell_ind`'s dense J makes the
  column q itself.
- `SlotVal` reads the value at `a[p * nnz_cols + q]`.

`ellfuse` leaves `d3` an unbound `T.var`, and its comments call d3 the
tile's column count. The model takes the tile blocks as column tiles of
`TileWidth` columns, with `indices_j` the column within the tile.

No code fills these buffers. The loader (`RowPart`, `TileRows`, `FillSlot`,
`FillDone`) follows the format-rewrite design, not code:
- `ell` stores the rows of degree <= nnz_cols, empty ones included, as
  `bench_hyb` buckets them;
- `ell_ind` stores the rows whose columns are all below nnz_cols;
- `ellfuse` stores in block t the rows with 1..nnz_cols nonzeros in its
  columns;
- the loader writes a row's nonzeros of the block in column order, then
  padding: value 0 at a column of the block that is not in the row.

No kernel of the repository reads `ellfuse`, so its program ends after the
loader.

Since the loader and the read-back both come from the model's reading of
the axes, no property checks the layout against itself; only the kernel
that runs over it is checked.

`KernelStep` is the per-bucket block of `csrmm_hyb_tir` (bench_spmm.py
168-171), run in order: T.init at vj = 0, then C[vi] += A * B[vj].

## Runs

| Run | Expect | What it shows |
|---|---|---|
| `binary_search` | pass | Both searches read only inside the array, end, and give the lower bound or the owning row. This holds for sorted rows of up to 4 indices out of 0..4 and indptr arrays of up to 4 rows with nnz up to 4. |
| `csrmm` | pass | `csrmm_tir` refines SpMM for every 3x3 pattern, whether C holds 0 or a stale 7. The lowered csrmm, `segment_reduce` and `csr_reduce` refine it when C starts zeroed, as `bench_spmm.py` allocates it. |
| `csrmm_lowered` | violation | With a stale output, an empty row of the lowered csrmm, `segment_reduce` or `csr_reduce` keeps the stale value. |
| `hyb_bench` | violation | `bench_hyb`'s buckets overlap. Two buckets' threads race on one row and the row is counted twice. |
| `padded_neutral` | pass | With 0 at the padding slots, the padded kernel reads in bounds and refines SpMM of the unpadded graph. |
| `padded_ones` | violation | With `A_data = np.ones`, as `bench_tir_csrmm` fills it, each padding edge adds x[0]. |
| `dense_iter_unchecked` | violation | Without the validity check, every absent column adds the value at its lower-bound position. |
| `rgcn_ground_truth` | violation | A node with edges of two relations keeps only the last relation's sum; `get_ground_truth` sums all of them. |
| `softmax_lowered` | pass | Once a row's sum loop has run, TMP holds the row's maximum and TMP1 the sum of exp(A - max), whatever the buffers held. |
| `softmax_lowered_div` | violation | The div block divides exp(A) rather than exp(A - max), so a row whose maximum is not 0 does not sum to 1. |
| `ell_format` | pass | `get_dataset` loads a graph or raises `KeyError`. The bucket kernel of `csrmm_hyb_tir`, run over the `ell` or `ell_ind` axes, leaves every stored row it has passed holding A times B, empty rows included, under a stale C and stale value slots (`KernelCorrect`). |
| `bsr` | pass | After `csr2bsr`, every cell of every block holds A or 0. `bsrmm` and `ellmm` on that buffer refine SpMM of the CSR matrix, stale C and empty block rows included. |

Every property of a passing run has a mutant in `PROJECT.json`: a plausible
slip in the mapped code that TLC catches. The findings in `PROJECT.json`
explain each violation, with TLC's trace.

Two more disagreements were seen while modelling but are not checked:
- The T.iter softmax initialises TMP1 to -100000 (`sparse_tir_scripts.py`
  557). The lowered one initialises it to 0 (lowered 1159).
- `bench_rgcn_composable.py` imports `ell3d` from
  `sparse_tir_format_rewrite_scripts`, and no such module is in the
  repository.

### Bounds

- **CsrmmKernel:** 3 rows x 3 columns covers empty, partial and full rows.
  A and B values differ at every position (1 + c + 3r, 10^c), so a wrong
  product or a double count changes the sum.
- **HybSpMM:** the widths 32..512 are scaled to <1, 2, 4> over 2 rows x 3
  columns. Every bucket is reached, and under `bench_hyb`'s rule a row lies
  in one or two buckets.
- **PaddedSpMM:** 3 nodes give every in-degree 0..3. With `tile_size` 2, a
  row needs 0, 1 or 2 tiles and 0 or 1 padding edge.
- **CsrmmDenseIter:** 2 rows x 3 columns, so absent columns fall below,
  between and above the present ones.
- **RgcnHetero:** 2 relations over 2 nodes, with every per-relation pattern.
- **SparseSoftmax:** 2 rows x 3 columns, with values 0..1 at every nonzero.
  This gives ties, a maximum of 0 or 1, and empty rows.
- **BsrSpMM:** a 4x4 matrix in 2x2 blocks, so 2 block rows of up to 2
  blocks. The searches have two blocks to choose from, and the second block
  row starts at an offset. The rows are drawn from six column sets, which
  reach every block-row shape.
- **EllFormat:** 4 nodes, nnz_cols 2, and for `ellfuse` 2 tile blocks of 2
  columns. The rows are drawn from {}, {1}, {0,1}, {1,2} and {0,2,3}, and
  every graph of them is loaded (8-edge graphs for `"dense"`). Rows are
  therefore empty, padded, or full. Some have degree 3, which `ell` cannot
  hold, and some have columns that `ell_ind` cannot hold. A row may lie in
  one tile block or be split over both, and a block may be empty. Value
  slots start with a stale 7, so a slot left unwritten shows.

## Fairness

Every launched GPU thread or block runs to its end, so each thread's steps
are weakly fair (`HybSpMM`, `PaddedSpMM`, `CsrmmKernel`). The sequential
kernels have weak fairness on `Next`: an unscheduled loop nest runs to the
end.
`EllFormat` is sequential too, and checks no liveness: its bucket loop is
bounded by the loader's own row count, so that it ends says nothing about
the code.

## Plan

Done:
- `BinarySearch`, `SpMM`, `CsrmmKernel` (with the row reductions),
  `HybSpMM`, `PaddedSpMM`, `CsrmmDenseIter`, `RgcnHetero`, `SparseSoftmax`
  `BsrSpMM` (with `ellmm`) and `EllFormat`.

Left, most important first:
1. `FusedSddmm`: a nonzero-parallel SDDMM that uses the row search.
2. `sddmm`, `square_sum`, `fused_reduction_*`, `csr_element_wise`, `bmm`,
   `hyper_gnn` and `rgcn_homo_forward`.
   `fused_reduction_4d_2d` and `_4d_3d` come first. Their T.init sits inside
   the k loop and the l loop respectively. This is the placement that leaves
   stale values in the lowered csrmm, and it is listed as a hazard in
   `PROJECT.json`.
3. A stale-buffer run of `csr2bsr`, a run of the T.iter softmax init, and
   a run of `bench_hyb`'s `rows_512` bucket (degree > 256, width 512) over
   `EllFormat`'s axes. These wait on the limit of twelve runs; for that
   limit the passing per-row check of `RgcnHetero` was dropped, and its
   violation run `rgcn_ground_truth` is kept.

## Not modelled

- Timers and `tvm.build`: code generation and timing. Dataset loading is
  modelled only as which graphs a name can give.
- `ell_inter_buffer` and `empty_func` in `examples/spmm/utils.py`. They
  end in `T.evaluate(0)`, and nothing fills, reads or calls them.
  `ell_inter_buffer` matches a second input and allocates an intermediate
  over `ell`'s axes, with no statement that reads or writes either, so it
  has no behaviour beyond the `ell` layout. `empty_func` has no body.
- Which tile blocks `ellfuse` stores: its comment (line 136) names an
  `indices_io` array that the declaration lacks. The model stores every
  block of the dense IO axis.
- `bench_sddmm.py`: it returns right after the DGL baseline.
- The other lowered kernels (`csr_element_wise`, `hyper_gnn`, `bmm`,
  `sddmm`, `fused_sddmm`, `square_sum`, `fused_reduction_*` and
  `rgcn_homo_forward`). Each would need a run of its own, and the project
  already has the twelve runs it is limited to. `fused_sddmm`'s row search
  is checked in `BinarySearch`.
- The format rewrite of `bench_rgcn_composable.py`: its `ell3d` script is
  not in the repository.
- Floating point: values are integers. The properties are about which
  products are summed, not about rounding.
- The feature axis: one column stands for all of them.
