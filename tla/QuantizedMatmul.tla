--------------------------- MODULE QuantizedMatmul ---------------------------
(***************************************************************************)
(* Floating-point arithmetic, as far as the equality of bits goes, and the *)
(* product of a quantized matrix and the rows of a pass (src/src/gguf.rs,  *)
(* src/src/qgemm.rs) on top of it.                                         *)
(*                                                                         *)
(* What an operation returns is a function of its operands and nothing     *)
(* else, and a sum depends on the order of its terms.  An array is a       *)
(* function from 0..(n - 1), indexed as the code indexes its slices.       *)
(***************************************************************************)
EXTENDS Integers, Sequences, FiniteSets, FiniteSetsExt

CONSTANTS
  Unary(_, _),      \* Unary(f, x): the function named f of x
  Binary(_, _, _)   \* Binary(op, x, y)

Plus(x, y) == Binary("+", x, y)
Minus(x, y) == Binary("-", x, y)
Times(x, y) == Binary("*", x, y)
Over(x, y) == Binary("/", x, y)
Exp(x) == Unary("exp", x)
Sigmoid(x) == Unary("sigmoid", x)
Silu(x) == Unary("silu", x)
Softplus(x) == Unary("softplus", x)
InverseRoot(x) == Unary("inverse root", x)
Cos(position, index) == Binary("cos", position, index)
Sin(position, index) == Binary("sin", position, index)

\* Fields put in a record, in place of those of their names.
Amended(fields, record) ==
  [name \in DOMAIN fields \cup DOMAIN record |->
     IF name \in DOMAIN fields THEN fields[name] ELSE record[name]]

Indices(n) == 0..(n - 1)
Width(array) == Cardinality(DOMAIN array)

\* The terms of an array added to start one after the other.
Accumulate(start, terms) ==
  LET sum[i \in 0..Width(terms)] == IF i = 0 THEN start ELSE Plus(sum[i - 1], terms[i - 1])
  IN sum[Width(terms)]
Summed(terms) == Accumulate(0, terms)

Slice(array, base, n) == [i \in Indices(n) |-> array[base + i]]
Concatenated(a, b) ==
  [i \in Indices(Width(a) + Width(b)) |-> IF i < Width(a) THEN a[i] ELSE b[i - Width(a)]]

DivCeil(a, b) == (a + b - 1) \div b
NextMultiple(a, b) == DivCeil(a, b) * b
Clamp(a, low, high) == Max({low, Min({a, high})})

\* A weight scales each element, divided by the root of the mean square.
SumOfSquares(vector) == Summed([i \in DOMAIN vector |-> Times(vector[i], vector[i])])
RmsNorm(vector, weight) ==
  LET root == Unary("root mean", SumOfSquares(vector))
  IN [i \in DOMAIN vector |-> Times(Over(vector[i], root), weight[i])]
-----------------------------------------------------------------------------
(***************************************************************************)
(* One row goes to the library's kernel, several to a kernel that decodes  *)
(* each weight block once for all of them, a tile of rows at a time.  A    *)
(* column here stands for one block of columns.  A matrix is               *)
(*   [dtype, rows, columns, blocks, cpu]                                   *)
(* where cpu is [exact, fused]: whether the build makes the kernels add as *)
(* the library does, and whether the processor can run the fused one.      *)
(***************************************************************************)
CONSTANTS
  Tile,           \* rows of a register tile (TILE)
  MultiRowTile,   \* rows of one kernel call (MULTI_ROW_TILE)
  SmallMMinBlocks \* blocks from which a matrix is worth the kernels
                  \* (SMALL_M_MIN_STORAGE_BYTES)

ASSUME MatmulAssumption == Tile \in Nat \ {0} /\ MultiRowTile \in Nat \ {0, 1}

\* A block's scaled product with a block of the input, and for some types what
\* its minima take off: integer sums, each scaled once.
ScaledDot(weight, input) == Binary("block", weight, input)
MinsDot(weight, input) == Binary("mins", weight, input)
WithMins == {"Q4K", "Q5K"}

Quantized(x) == Unary("quantize", x)
QuantizedRows(xs) == [i \in DOMAIN xs |-> Quantized(xs[i])]

WeightRow(matrix, row) == Slice(matrix.blocks, row * matrix.columns, matrix.columns)

\* The library's dot product: block by block in a build with fused
\* multiply-adds, and in another order without them.  The lanes of a vector
\* register are one sum here and in the kernels.
VecDot(matrix, weight, input) ==
  LET n == matrix.columns
      at(block) == IF matrix.cpu.exact THEN block ELSE n - 1 - block
      products == Summed([block \in Indices(n) |-> ScaledDot(weight[at(block)], input[at(block)])])
      mins == Summed([block \in Indices(n) |-> MinsDot(weight[at(block)], input[at(block)])])
  IN IF matrix.dtype \in WithMins THEN Plus(products, mins) ELSE products

\* A result computed one output row after the other, back in row-major order.
RowMajor(transposed, outputs, rows) ==
  [i \in Indices(rows * outputs) |-> transposed[(i % outputs) * rows + i \div outputs]]

Candle(matrix, xs, rows) ==
  LET inputs == QuantizedRows(xs)
  IN [i \in Indices(rows * matrix.rows) |->
        VecDot(matrix, WeightRow(matrix, i % matrix.rows),
               Slice(inputs, (i \div matrix.rows) * matrix.columns, matrix.columns))]

SmallM(matrix, xs, rows) ==
  LET inputs == QuantizedRows(xs)
      transposed == [i \in Indices(matrix.rows * rows) |->
                       VecDot(matrix, WeightRow(matrix, i \div rows),
                              Slice(inputs, (i % rows) * matrix.columns, matrix.columns))]
  IN RowMajor(transposed, matrix.rows, rows)

\* One weight row against a row of a tile: each has sums of its own, and the
\* block's decoding is shared.
InputBlock(packed, rows, base, lane, block) == packed[block * rows + base + lane]
Q4KTile(weight, packed, rows, base, lane) ==
  Plus(Summed([block \in DOMAIN weight |->
                 ScaledDot(weight[block], InputBlock(packed, rows, base, lane, block))]),
       Summed([block \in DOMAIN weight |->
                 MinsDot(weight[block], InputBlock(packed, rows, base, lane, block))]))
Q6KTile(weight, packed, rows, base, lane) ==
  Summed([block \in DOMAIN weight |->
            ScaledDot(weight[block], InputBlock(packed, rows, base, lane, block))])
Q80Tile(weight, packed, rows, base, lane) ==
  Summed([block \in DOMAIN weight |->
            ScaledDot(weight[block], InputBlock(packed, rows, base, lane, block))])

\* One weight row against every row of the call, a register tile at a time.
KernelRow(dtype, weight, packed, rows) ==
  [row \in Indices(rows) |->
     LET base == (row \div Tile) * Tile
         lane == row - base
     IN CASE dtype = "Q4K" -> Q4KTile(weight, packed, rows, base, lane)
          [] dtype = "Q6K" -> Q6KTile(weight, packed, rows, base, lane)
          [] dtype = "Q8_0" -> Q80Tile(weight, packed, rows, base, lane)]

\* The inputs are packed block by block for the kernel.
Packed(inputs, rows, columns) ==
  [i \in DOMAIN inputs |-> inputs[(i % rows) * columns + i \div rows]]

Fused(matrix, xs, rows) ==
  LET packed == Packed(QuantizedRows(xs), rows, matrix.columns)
      transposed == [i \in Indices(matrix.rows * rows) |->
                       KernelRow(matrix.dtype, WeightRow(matrix, i \div rows), packed, rows)
                         [i % rows]]
  IN RowMajor(transposed, matrix.rows, rows)

MultiRow(matrix, xs, rows) ==
  IF matrix.cpu.fused /\ matrix.dtype \in {"Q4K", "Q6K", "Q8_0"}
  THEN Fused(matrix, xs, rows) ELSE SmallM(matrix, xs, rows)

\* No tile is left with a single row, unless the pass has no other.
TileRows(remaining) ==
  CASE remaining <= MultiRowTile -> remaining
    [] remaining = MultiRowTile + 1 -> MultiRowTile - 1
    [] OTHER -> MultiRowTile

TileStarts(rows) ==
  LET from[start \in 0..rows] ==
        IF start >= rows THEN {} ELSE {start} \cup from[start + TileRows(rows - start)]
  IN from[0]

TiledMultiRow(matrix, xs, rows) ==
  [i \in Indices(rows * matrix.rows) |->
     LET start == Max({s \in TileStarts(rows) : s <= i \div matrix.rows})
         width == TileRows(rows - start)
     IN MultiRow(matrix, Slice(xs, start * matrix.columns, width * matrix.columns), width)
          [i - start * matrix.rows]]

\* A caller that runs on one thread of many never enters the library's pool.
TakesMultiRow(matrix, rows, spread) ==
  spread = "caller" \/ (rows >= 2 /\ Width(matrix.blocks) >= SmallMMinBlocks)

ForwardRows(matrix, xs, rows, spread) ==
  IF TakesMultiRow(matrix, rows, spread) /\ matrix.dtype \in {"Q4K", "Q5K", "Q6K", "Q8_0"}
  THEN TiledMultiRow(matrix, xs, rows) ELSE Candle(matrix, xs, rows)
Forward(matrix, xs, rows) == ForwardRows(matrix, xs, rows, "pool")

\* Rows are contiguous, so the first of them are a prefix of the bytes, and two
\* matrices of one kind are stacked.
LeadingRows(matrix, rows) ==
  [matrix EXCEPT !.rows = rows, !.blocks = Slice(@, 0, rows * matrix.columns)]
ConcatenateRows(first, second) ==
  [first EXCEPT !.rows = @ + second.rows, !.blocks = Concatenated(@, second.blocks)]
=============================================================================
