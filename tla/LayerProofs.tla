---------------------------- MODULE LayerProofs -----------------------------
(***************************************************************************)
(* A row leaves no trace of the pass it came in: for every file, shape and *)
(* type of weights, rounding of every operation, tile, lane, block and     *)
(* chunk size, number of threads and sequence of passes and rollbacks.     *)
(***************************************************************************)
EXTENDS LayerRows, SeqLemmas, FiniteSetTheorems, TLAPS

LEMMA Commutes ==
  ASSUME NEW a \in Int, NEW b \in Int
  PROVE  a * b = b * a /\ a * b \in Int
OBVIOUS

\* An index of an array of n rows of w columns is a row's and a column's.
LEMMA IndexSplit ==
  ASSUME NEW n \in Nat, NEW w \in Nat, NEW i \in Indices(n * w)
  PROVE  /\ w \in Nat \ {0} /\ n \in Nat \ {0} /\ i \in Nat
         /\ i \div w \in Indices(n) /\ i % w \in Indices(w)
         /\ i = (i \div w) * w + (i % w)
<1>1. i \in Nat /\ i < n * w /\ n * w \in Int
  BY DEF Indices
<1>2. w # 0 /\ n # 0
  BY <1>1
<1>3. PICK q \in Int : q = i \div w
  BY <1>1, <1>2, DivMod
<1>4. PICK r \in 0..(w - 1) : r = i % w
  BY <1>1, <1>2, DivMod
<1>5. i = w * q + r
  BY <1>1, <1>2, <1>3, <1>4, DivMod
<1>6. w * q + r < w * n /\ 0 <= w * q + r
  BY <1>1, <1>5, Commutes
<1>7. 0 <= q /\ q < n
  BY <1>2, <1>6, QuotientBelow
<1>8. w * q = q * w
  BY Commutes
<1>9. i = q * w + r
  BY <1>5, <1>8
<1>10. q \in 0..(n - 1)
  BY <1>7
<1>11. w \in Nat \ {0} /\ n \in Nat \ {0} /\ i \in Nat
  BY <1>1, <1>2
<1>12. i \div w \in Indices(n)
  BY <1>3, <1>10 DEF Indices
<1>13. i % w \in Indices(w)
  BY <1>4 DEF Indices
<1>14. i = (i \div w) * w + (i % w)
  BY <1>3, <1>4, <1>9, Zenon
<1> QED
  BY <1>11, <1>12, <1>13, <1>14

\* A row's index and a column's make one.
LEMMA IndexJoin ==
  ASSUME NEW n \in Nat, NEW w \in Nat, NEW r \in Indices(n), NEW c \in Indices(w)
  PROVE  /\ r * w + c \in Indices(n * w) /\ r * w + c \in Nat
         /\ (r * w + c) \div w = r /\ (r * w + c) % w = c
         /\ w \in Nat \ {0} /\ r \in Nat /\ c \in Nat
<1>1. r \in Nat /\ r < n /\ c \in 0..(w - 1) /\ w \in Nat \ {0}
  BY DEF Indices
<1>2. PICK m \in Nat : m = r * w
  BY <1>1
<1>3. PICK p \in Nat : p = n * w
  BY <1>1
<1>4. m + w <= p
  <2>1. (r + 1) * w <= n * w
    BY <1>1
  <2>2. (r + 1) * w = r * w + w
    BY <1>1
  <2> QED BY <2>1, <2>2, <1>2, <1>3
<1>5. m + c \in Nat /\ m + c < p
  BY <1>1, <1>4
<1>6. /\ (m + c) % w \in 0..(w - 1) /\ (m + c) \div w \in Int
      /\ m + c = w * ((m + c) \div w) + ((m + c) % w)
  BY <1>1, <1>5, DivMod
<1>7. w * r + c = w * ((m + c) \div w) + ((m + c) % w)
  BY <1>1, <1>2, <1>6, Commutes
<1>8. (m + c) \div w = r /\ (m + c) % w = c
  BY <1>1, <1>6, <1>7, DivModUnique
<1> QED
  BY <1>1, <1>2, <1>3, <1>5, <1>8 DEF Indices

LEMMA DivNat ==
  ASSUME NEW m \in Nat, NEW w \in Nat \ {0}
  PROVE  /\ m \div w \in Nat /\ m % w \in Indices(w)
         /\ m = (m \div w) * w + (m % w)
<1>1. m < (m + 1) * w /\ (m + 1) * w \in Nat
  <2>1. (m + 1) * w >= (m + 1) * 1
    BY SMTT(30)
  <2> QED BY <2>1
<1>2. m \in Indices((m + 1) * w) /\ m + 1 \in Nat
  BY <1>1 DEF Indices
<1>3. /\ m \div w \in Indices(m + 1) /\ m % w \in Indices(w)
      /\ m = (m \div w) * w + (m % w)
  BY <1>2, IndexSplit
<1>4. m \div w \in Nat
  <2>1. \A k \in Indices(m + 1) : k \in Nat
    BY DEF Indices
  <2> QED BY <1>3, <2>1, Zenon
<1> QED BY <1>3, <1>4, Zenon

\* The width of an array.
LEMMA WidthIs ==
  ASSUME NEW n \in Nat, NEW a, DOMAIN a = Indices(n)
  PROVE  Width(a) = n
<1>1. IsFiniteSet(0..(n - 1)) /\ Cardinality(0..(n - 1)) = n
  BY FS_Interval
<1> QED BY <1>1 DEF Width, Indices

LEMMA SliceIs ==
  ASSUME NEW a, NEW base, NEW n
  PROVE  /\ DOMAIN Slice(a, base, n) = Indices(n)
         /\ \A c \in Indices(n) : Slice(a, base, n)[c] = a[base + c]
BY DEF Slice

\* Two arrays of the same rows are the same.
LEMMA ArrayDomain ==
  ASSUME NEW a, NEW n, IsArray(a, n)
  PROVE  DOMAIN a = Indices(n)
BY DEF IsArray

LEMMA SameArray ==
  ASSUME NEW n, NEW a, IsArray(a, n), NEW b, IsArray(b, n), \A i \in Indices(n) : a[i] = b[i]
  PROVE  a = b
BY DEF IsArray

LEMMA SliceArray ==
  ASSUME NEW a, NEW base, NEW n
  PROVE  IsArray(Slice(a, base, n), n)
BY DEF Slice, IsArray

LEMMA RowArray ==
  ASSUME NEW a, NEW r, NEW w
  PROVE  /\ IsArray(Row(a, r, w), w)
         /\ \A c \in Indices(w) : Row(a, r, w)[c] = a[r * w + c]
BY DEF Row, Slice, IsArray

LEMMA SameRows ==
  ASSUME NEW n \in Nat, NEW w \in Nat, NEW a, IsArray(a, n * w), NEW b, IsArray(b, n * w),
         \A r \in Indices(n) : Row(a, r, w) = Row(b, r, w)
  PROVE  a = b
<1>1. ASSUME NEW i \in Indices(n * w) PROVE a[i] = b[i]
  <2>1. PICK r \in Indices(n) : r = i \div w
    BY IndexSplit
  <2>2. PICK c \in Indices(w) : c = i % w
    BY IndexSplit
  <2>3. i = r * w + c
    BY <2>1, <2>2, IndexSplit, Zenon
  <2>4. Row(a, r, w)[c] = Row(b, r, w)[c]
    BY Zenon
  <2> QED BY <2>3, <2>4, RowArray
<1> QED BY <1>1, SameArray, Zenon

-----------------------------------------------------------------------------
(***************************************************************************)
(* A matrix product, a row at a time.                                      *)
(***************************************************************************)
LEMMA QuantizedRow ==
  ASSUME NEW n \in Nat, NEW w \in Nat, NEW xs, IsArray(xs, n * w), NEW r \in Indices(n)
  PROVE  /\ Slice(QuantizedRows(xs), r * w, w) = QuantizedRows(Row(xs, r, w))
         /\ \A c \in Indices(w) : QuantizedRows(xs)[r * w + c] = Quantized(xs[r * w + c])
<1>1. \A c \in Indices(w) : r * w + c \in Indices(n * w)
  BY IndexJoin
<1>2. \A c \in Indices(w) : QuantizedRows(xs)[r * w + c] = Quantized(xs[r * w + c])
  BY <1>1, ArrayDomain DEF QuantizedRows
<1>3. QuantizedRows(Row(xs, r, w)) = [c \in Indices(w) |-> Quantized(xs[r * w + c])]
  <2>1. DOMAIN Row(xs, r, w) = Indices(w)
    BY RowArray, ArrayDomain, Zenon
  <2>2. \A c \in Indices(w) : Row(xs, r, w)[c] = xs[r * w + c]
    BY RowArray
  <2> QED BY <2>1, <2>2, Zenon DEF QuantizedRows
<1>4. Slice(QuantizedRows(xs), r * w, w) = [c \in Indices(w) |-> Quantized(xs[r * w + c])]
  BY <1>2 DEF Slice
<1> QED BY <1>2, <1>3, <1>4, Zenon

\* An array given by rows and columns is a product if each element is.
LEMMA ByRows ==
  ASSUME NEW m, IsShape(m), NEW n \in Nat, NEW xs, NEW product, IsArray(product, n * m.rows),
         \A i \in Indices(n * m.rows) :
           product[i] = ProductAt(m, Row(xs, i \div m.rows, m.columns), i % m.rows)
  PROVE  IsProduct(m, xs, n, product)
<1>1. ASSUME NEW r \in Indices(n), NEW o \in Indices(m.rows)
      PROVE  product[r * m.rows + o] = ProductAt(m, Row(xs, r, m.columns), o)
  <2>0. m.rows \in Nat
    BY DEF IsShape
  <2>1. PICK w \in Nat : w = m.rows
    BY <2>0
  <2>3. o \in Indices(w)
    BY <2>1
  <2>2. /\ r * w + o \in Indices(n * w)
        /\ (r * w + o) \div w = r /\ (r * w + o) % w = o
    BY <2>3, IndexJoin
  <2> QED BY <2>1, <2>2, Zenon
<1> QED BY <1>1 DEF IsProduct

LEMMA CandleIs ==
  ASSUME NEW m, IsShape(m), NEW n \in Nat, NEW xs, IsArray(xs, n * m.columns)
  PROVE  IsProduct(m, xs, n, Candle(m, xs, n))
<1>0. m.rows \in Nat /\ m.columns \in Nat
  BY DEF IsShape
<1>1. IsArray(Candle(m, xs, n), n * m.rows)
  BY DEF Candle, IsArray
<1>2. ASSUME NEW i \in Indices(n * m.rows)
      PROVE  Candle(m, xs, n)[i] = ProductAt(m, Row(xs, i \div m.rows, m.columns), i % m.rows)
  <2>1. i \div m.rows \in Indices(n)
    BY <1>0, IndexSplit
  <2>2. Candle(m, xs, n)[i] = VecDot(m, WeightRow(m, i % m.rows),
               Slice(QuantizedRows(xs), (i \div m.rows) * m.columns, m.columns))
    BY DEF Candle
  <2> QED BY <1>0, <2>1, <2>2, QuantizedRow, Zenon DEF ProductAt
<1> QED BY <1>1, <1>2, ByRows

\* Row-major order from that of the outputs.
LEMMA RowMajorIs ==
  ASSUME NEW m, IsShape(m), NEW n \in Nat, NEW xs, NEW t,
         \A o \in Indices(m.rows) : \A r \in Indices(n) :
           t[o * n + r] = ProductAt(m, Row(xs, r, m.columns), o)
  PROVE  IsProduct(m, xs, n, RowMajor(t, m.rows, n))
<1>0. m.rows \in Nat /\ m.columns \in Nat
  BY DEF IsShape
<1>1. IsArray(RowMajor(t, m.rows, n), n * m.rows)
  BY DEF RowMajor, IsArray
<1>2. ASSUME NEW i \in Indices(n * m.rows)
      PROVE  RowMajor(t, m.rows, n)[i] = ProductAt(m, Row(xs, i \div m.rows, m.columns), i % m.rows)
  <2>1. i \div m.rows \in Indices(n) /\ i % m.rows \in Indices(m.rows)
    BY <1>0, IndexSplit
  <2>2. RowMajor(t, m.rows, n)[i] = t[(i % m.rows) * n + i \div m.rows]
    BY DEF RowMajor
  <2> QED BY <2>1, <2>2, Zenon
<1> QED BY <1>1, <1>2, ByRows

LEMMA SmallMIs ==
  ASSUME NEW m, IsShape(m), NEW n \in Nat, NEW xs, IsArray(xs, n * m.columns)
  PROVE  IsProduct(m, xs, n, SmallM(m, xs, n))
<1>0. m.rows \in Nat /\ m.columns \in Nat
  BY DEF IsShape
<1>1. PICK t : t = [i \in Indices(m.rows * n) |->
                       VecDot(m, WeightRow(m, i \div n),
                              Slice(QuantizedRows(xs), (i % n) * m.columns, m.columns))]
  OBVIOUS
<1>2. ASSUME NEW o \in Indices(m.rows), NEW r \in Indices(n)
      PROVE  t[o * n + r] = ProductAt(m, Row(xs, r, m.columns), o)
  <2>1. PICK i \in Indices(m.rows * n) : i = o * n + r /\ i \div n = o /\ i % n = r
    BY <1>0, IndexJoin
  <2>2. t[i] = VecDot(m, WeightRow(m, o), Slice(QuantizedRows(xs), r * m.columns, m.columns))
    BY <1>1, <2>1, Zenon
  <2> QED BY <1>0, <2>1, <2>2, QuantizedRow, Zenon DEF ProductAt
<1>3. SmallM(m, xs, n) = RowMajor(t, m.rows, n)
  BY <1>1, Zenon DEF SmallM
<1> QED BY <1>2, <1>3, RowMajorIs

\* One output of the fused kernels for one row is the library's.
LEMMA KernelRowIs ==
  ASSUME NEW m, IsShape(m), m.dtype \in {"Q4K", "Q6K", "Q8_0"}, NEW n \in Nat,
         NEW xs, IsArray(xs, n * m.columns), NEW r \in Indices(n), NEW o
  PROVE  KernelRow(m.dtype, WeightRow(m, o), Packed(QuantizedRows(xs), n, m.columns), n)[r]
           = ProductAt(m, Row(xs, r, m.columns), o)
<1>0. m.rows \in Nat /\ m.columns \in Nat /\ m.cpu.exact = TRUE /\ r \in Nat /\ r < n
  BY DEF IsShape, Indices
<1>1. PICK w : w = WeightRow(m, o)
  OBVIOUS
<1>2. DOMAIN w = Indices(m.columns)
  BY <1>1, SliceIs DEF WeightRow
<1>3. PICK p : p = Packed(QuantizedRows(xs), n, m.columns)
  OBVIOUS
<1>4. PICK b \in Nat : b = (r \div Tile) * Tile
  <2>1. r \div Tile \in Nat
    BY <1>0, MatmulAssumption, DivNat
  <2> QED BY <2>1, MatmulAssumption
<1>5. PICK input : input = QuantizedRows(Row(xs, r, m.columns))
  OBVIOUS
<1>6. ASSUME NEW c \in Indices(m.columns)
      PROVE  InputBlock(p, n, b, r - b, c) = input[c]
  <2>1. c \in Nat /\ c * n + b + (r - b) = c * n + r
    <3>1. c \in Nat /\ c * n \in Nat
      BY <1>0 DEF Indices
    <3> QED BY <1>0, <3>1
  <2>2. PICK i \in Indices(m.columns * n) : i = c * n + r /\ i \div n = c /\ i % n = r
    BY <1>0, IndexJoin
  <2>3. DOMAIN QuantizedRows(xs) = Indices(m.columns * n)
    <3>1. n * m.columns = m.columns * n
      BY <1>0
    <3> QED BY <3>1, ArrayDomain DEF QuantizedRows
  <2>4. p[i] = QuantizedRows(xs)[r * m.columns + c]
    BY <1>3, <2>2, <2>3, Zenon DEF Packed
  <2>5. r * m.columns + c \in Indices(n * m.columns)
    BY <1>0, IndexJoin
  <2>6. QuantizedRows(xs)[r * m.columns + c] = Quantized(xs[r * m.columns + c])
    BY <1>0, QuantizedRow
  <2>7. input[c] = Quantized(xs[r * m.columns + c])
    <3>1. /\ DOMAIN Row(xs, r, m.columns) = Indices(m.columns)
          /\ Row(xs, r, m.columns)[c] = xs[r * m.columns + c]
      BY RowArray, ArrayDomain
    <3> QED BY <1>5, <3>1, Zenon DEF QuantizedRows
  <2> QED BY <2>1, <2>2, <2>4, <2>6, <2>7, Zenon DEF InputBlock
<1>7. PICK scaled : scaled = Summed([c \in Indices(m.columns) |-> ScaledDot(w[c], input[c])])
  OBVIOUS
<1>8. PICK mins : mins = Summed([c \in Indices(m.columns) |-> MinsDot(w[c], input[c])])
  OBVIOUS
<1>9. Summed([c \in DOMAIN w |-> ScaledDot(w[c], InputBlock(p, n, b, r - b, c))]) = scaled
  <2>1. [c \in DOMAIN w |-> ScaledDot(w[c], InputBlock(p, n, b, r - b, c))]
          = [c \in Indices(m.columns) |-> ScaledDot(w[c], input[c])]
    BY <1>2, <1>6, Zenon
  <2> QED BY <1>7, <2>1, Zenon
<1>10. Summed([c \in DOMAIN w |-> MinsDot(w[c], InputBlock(p, n, b, r - b, c))]) = mins
  <2>1. [c \in DOMAIN w |-> MinsDot(w[c], InputBlock(p, n, b, r - b, c))]
          = [c \in Indices(m.columns) |-> MinsDot(w[c], input[c])]
    BY <1>2, <1>6, Zenon
  <2> QED BY <1>8, <2>1, Zenon
<1>11. KernelRow(m.dtype, w, p, n)[r]
         = IF m.dtype = "Q4K" THEN Plus(scaled, mins) ELSE scaled
  <2>1. KernelRow(m.dtype, w, p, n)[r]
          = CASE m.dtype = "Q4K" -> Q4KTile(w, p, n, b, r - b)
              [] m.dtype = "Q6K" -> Q6KTile(w, p, n, b, r - b)
              [] m.dtype = "Q8_0" -> Q80Tile(w, p, n, b, r - b)
    BY <1>4, Zenon DEF KernelRow
  <2>2. Q4KTile(w, p, n, b, r - b) = Plus(scaled, mins)
    BY <1>9, <1>10, Zenon DEF Q4KTile
  <2>3. Q6KTile(w, p, n, b, r - b) = scaled /\ Q80Tile(w, p, n, b, r - b) = scaled
    BY <1>9, Zenon DEF Q6KTile, Q80Tile
  <2> QED BY <2>1, <2>2, <2>3
<1>12. VecDot(m, w, input) = IF m.dtype = "Q4K" THEN Plus(scaled, mins) ELSE scaled
  <2>1. VecDot(m, w, input) = IF m.dtype \in WithMins THEN Plus(scaled, mins) ELSE scaled
    <3>1. [c \in Indices(m.columns) |->
             ScaledDot(w[IF m.cpu.exact THEN c ELSE m.columns - 1 - c],
                       input[IF m.cpu.exact THEN c ELSE m.columns - 1 - c])]
            = [c \in Indices(m.columns) |-> ScaledDot(w[c], input[c])]
      BY <1>0, Zenon
    <3>2. [c \in Indices(m.columns) |->
             MinsDot(w[IF m.cpu.exact THEN c ELSE m.columns - 1 - c],
                     input[IF m.cpu.exact THEN c ELSE m.columns - 1 - c])]
            = [c \in Indices(m.columns) |-> MinsDot(w[c], input[c])]
      BY <1>0, Zenon
    <3> QED BY <1>7, <1>8, <3>1, <3>2, Zenon DEF VecDot
  <2>2. m.dtype \in WithMins <=> m.dtype = "Q4K"
    BY DEF WithMins
  <2> QED BY <2>1, <2>2
<1> QED BY <1>1, <1>3, <1>5, <1>11, <1>12, Zenon DEF ProductAt

LEMMA FusedIs ==
  ASSUME NEW m, IsShape(m), m.dtype \in {"Q4K", "Q6K", "Q8_0"}, NEW n \in Nat,
         NEW xs, IsArray(xs, n * m.columns)
  PROVE  IsProduct(m, xs, n, Fused(m, xs, n))
<1>0. m.rows \in Nat /\ m.columns \in Nat
  BY DEF IsShape
<1>1. PICK t : t = [i \in Indices(m.rows * n) |->
                       KernelRow(m.dtype, WeightRow(m, i \div n),
                                 Packed(QuantizedRows(xs), n, m.columns), n)[i % n]]
  OBVIOUS
<1>2. ASSUME NEW o \in Indices(m.rows), NEW r \in Indices(n)
      PROVE  t[o * n + r] = ProductAt(m, Row(xs, r, m.columns), o)
  <2>1. PICK i \in Indices(m.rows * n) : i = o * n + r /\ i \div n = o /\ i % n = r
    BY <1>0, IndexJoin
  <2>2. t[i] = KernelRow(m.dtype, WeightRow(m, o), Packed(QuantizedRows(xs), n, m.columns), n)[r]
    BY <1>1, <2>1, Zenon
  <2> QED BY <2>1, <2>2, KernelRowIs
<1>3. Fused(m, xs, n) = RowMajor(t, m.rows, n)
  BY <1>1, Zenon DEF Fused
<1> QED BY <1>2, <1>3, RowMajorIs

LEMMA MultiRowIs ==
  ASSUME NEW m, IsShape(m), NEW n \in Nat, NEW xs, IsArray(xs, n * m.columns)
  PROVE  IsProduct(m, xs, n, MultiRow(m, xs, n))
<1>1. CASE m.cpu.fused /\ m.dtype \in {"Q4K", "Q6K", "Q8_0"}
  BY <1>1, FusedIs, Zenon DEF MultiRow
<1>2. CASE ~(m.cpu.fused /\ m.dtype \in {"Q4K", "Q6K", "Q8_0"})
  BY <1>2, SmallMIs, Zenon DEF MultiRow
<1> QED BY <1>1, <1>2

\* A tile has at least a row and no more than are left.
LEMMA TileRowsType ==
  ASSUME NEW n \in Nat \ {0}
  PROVE  TileRows(n) \in 1..n
BY MatmulAssumption DEF TileRows

\* What a tile starts at: the first row, and where the tile before ends.
Tiled(S, x, n) ==
  /\ S \subseteq x..(n - 1) /\ (x < n => x \in S)
  /\ \A s \in S : s + TileRows(n - s) < n => s + TileRows(n - s) \in S

LEMMA TileStartsAre ==
  ASSUME NEW n \in Nat
  PROVE  Tiled(TileStarts(n), 0, n)
<1> DEFINE S == 0..n
           V == SUBSET (0..n)
           body(x, f) == IF x >= n THEN {} ELSE {x} \cup f[x + TileRows(n - x)]
<1>1. PICK step : step = [x \in S |-> [f \in [S -> V] |-> body(x, f)]]
  OBVIOUS
<1>2. PICK Good : Good = [x \in S |-> {T \in V : Tiled(T, x, n)}]
  OBVIOUS
<1>3. ASSUME NEW x \in S, x < n
      PROVE  x + TileRows(n - x) \in (x + 1)..n /\ x + TileRows(n - x) \in S
  <2>1. n - x \in Nat \ {0}
    BY <1>3
  <2>2. TileRows(n - x) \in 1..(n - x)
    BY <2>1, TileRowsType
  <2> QED BY <2>2
<1>4. ASSUME NEW x \in S, NEW f \in [S -> V] PROVE body(x, f) \in V
  <2>1. CASE x < n
    <3>1. f[x + TileRows(n - x)] \in V
      BY <1>3, <2>1
    <3> QED BY <2>1, <3>1
  <2>2. CASE ~(x < n)
    BY <2>2
  <2> QED BY <2>1, <2>2
<1>5. ASSUME NEW x \in S, NEW f, NEW g, AgreeOn(f, g, (x + 1)..n) PROVE body(x, f) = body(x, g)
  <2>1. CASE x < n
    <3>1. f[x + TileRows(n - x)] = g[x + TileRows(n - x)]
      BY <1>3, <1>5, <2>1 DEF AgreeOn
    <3> QED BY <2>1, <3>1
  <2>2. CASE ~(x < n)
    BY <2>2
  <2> QED BY <2>1, <2>2
<1>6. ASSUME NEW x \in S, NEW f \in [S -> V], \A y \in (x + 1)..n : f[y] \in Good[y]
      PROVE  body(x, f) \in Good[x]
  <2>1. CASE x < n
    <3>1. PICK y \in (x + 1)..n : y = x + TileRows(n - x)
      BY <1>3, <2>1
    <3>2. f[y] \in Good[y] /\ y \in S
      BY <1>6, <3>1
    <3>3. Tiled(f[y], y, n) /\ f[y] \in V
      BY <1>2, <3>2
    <3>4. PICK T : T = {x} \cup f[y]
      OBVIOUS
    <3>5. T \subseteq x..(n - 1) /\ x \in T
      BY <2>1, <3>1, <3>3, <3>4 DEF Tiled
    <3>6. ASSUME NEW s \in T, s + TileRows(n - s) < n PROVE s + TileRows(n - s) \in T
      BY <3>1, <3>3, <3>4, <3>6 DEF Tiled
    <3>7. Tiled(T, x, n)
      BY <3>5, <3>6, Zenon DEF Tiled
    <3>8. body(x, f) = T
      BY <2>1, <3>1, <3>4
    <3> QED BY <1>2, <1>4, <3>7, <3>8
  <2>2. CASE ~(x < n)
    <3>1. body(x, f) = {} /\ Tiled({}, x, n)
      BY <2>2 DEF Tiled
    <3> QED BY <1>2, <3>1
  <2> QED BY <2>1, <2>2
<1>7. IsStep(step, S, V)
  BY <1>1, <1>4 DEF IsStep
<1> HIDE DEF body
<1>8. LooksLater(step, 0, n, V)
  BY <1>1, <1>5 DEF LooksLater
<1>9. KeepsLater(step, Good, 0, n, V)
  BY <1>1, <1>6 DEF KeepsLater
<1>10. PICK f \in [S -> V] : \A x \in S : f[x] = step[x][f] /\ f[x] \in Good[x]
  <2>1. 0 \in Nat /\ {} \in V
    OBVIOUS
  <2>2. SolvedLater(step, Good, 0, n, V)
    BY <1>7, <1>8, <1>9, <2>1, LaterRecursion
  <2> QED BY <2>2 DEF SolvedLater
<1>11. f = [x \in S |-> body(x, f)]
  <2>1. f = [x \in S |-> f[x]]
    OBVIOUS
  <2>2. \A x \in S : f[x] = body(x, f)
    BY <1>1, <1>10
  <2> QED BY <2>1, <2>2, Zenon
<1>12. PICK e : e = [x \in S |-> body(x, e)] /\ TileStarts(n) = e[0]
  <2> DEFINE table(e) == [x \in S |-> body(x, e)]
  <2>1. TileStarts(n) = (CHOOSE e : e = table(e))[0]
    BY Zenon DEF TileStarts, body
  <2>2. \E e : e = table(e)
    BY <1>11
  <2> HIDE DEF table
  <2>3. PICK e : e = (CHOOSE g : g = table(g))
    OBVIOUS
  <2>4. e = table(e)
    BY <2>2, <2>3, Zenon
  <2> QED BY <2>1, <2>3, <2>4, Zenon DEF table
<1>13. ASSUME NEW x \in S, AgreeOn(e, f, (x + 1)..n) PROVE e[x] = f[x]
  <2>1. e[x] = body(x, e)
    BY <1>12
  <2>2. f[x] = body(x, f) /\ body(x, e) = body(x, f)
    BY <1>1, <1>10, <1>5, <1>13
  <2> QED BY <2>1, <2>2
<1>14. AgreeOn(e, f, S)
  <2>1. \A x \in 0..n : AgreeOn(e, f, (x + 1)..n) => e[x] = f[x]
    BY <1>13
  <2>2. 0 \in Nat
    OBVIOUS
  <2> QED BY <2>1, <2>2, AgreeLater
<1>15. TileStarts(n) = f[0] /\ f[0] \in Good[0] /\ 0 \in S
  BY <1>10, <1>12, <1>14 DEF AgreeOn
<1> QED BY <1>2, <1>15

LEMMA MaxIs ==
  ASSUME NEW n \in Nat, NEW S, S \subseteq 0..n, S # {}
  PROVE  Max(S) \in S /\ \A y \in S : y <= Max(S)
<1>1. PICK T : T = {n - y : y \in S}
  OBVIOUS
<1>2. T \subseteq Nat /\ T # {}
  <2>1. \A y \in S : n - y \in Nat
    OBVIOUS
  <2> QED BY <1>1, <2>1
<1>3. PICK t \in T : \A u \in T : t <= u
  BY <1>2, LeastNat
<1>4. PICK x \in S : t = n - x
  BY <1>1, <1>3
<1>5. ASSUME NEW y \in S PROVE y <= x
  <2>1. n - y \in T
    BY <1>1
  <2>2. n - x <= n - y
    BY <1>3, <1>4, <2>1
  <2> QED BY <2>2
<1>6. \E m \in S : \A y \in S : m >= y
  BY <1>5
<1>7. Max(S) \in S /\ \A y \in S : Max(S) >= y
  BY <1>6 DEF Max
<1> QED BY <1>7

LEMMA MaxOfTwo ==
  ASSUME NEW a \in Int, NEW b \in Int
  PROVE  Max({a, b}) = IF a >= b THEN a ELSE b
<1>1. \E m \in {a, b} : \A y \in {a, b} : m >= y
  OBVIOUS
<1>2. Max({a, b}) \in {a, b} /\ \A y \in {a, b} : Max({a, b}) >= y
  BY <1>1 DEF Max
<1> QED BY <1>2

LEMMA MinOfTwo ==
  ASSUME NEW a \in Int, NEW b \in Int
  PROVE  Min({a, b}) = IF a <= b THEN a ELSE b
<1>1. \E m \in {a, b} : \A y \in {a, b} : m <= y
  OBVIOUS
<1>2. Min({a, b}) \in {a, b} /\ \A y \in {a, b} : Min({a, b}) <= y
  BY <1>1 DEF Min
<1> QED BY <1>2

\* A row's tile holds it.
LEMMA TileOfRow ==
  ASSUME NEW n \in Nat, NEW r \in Indices(n), NEW s, s = Max({x \in TileStarts(n) : x <= r})
  PROVE  /\ s \in Nat /\ TileRows(n - s) \in Nat
         /\ r - s \in Indices(TileRows(n - s)) /\ s + TileRows(n - s) <= n
<1>1. Tiled(TileStarts(n), 0, n)
  BY TileStartsAre
<1>2. r \in Nat /\ r < n /\ n \in Nat
  BY DEF Indices
<1>3. PICK S : S = {x \in TileStarts(n) : x <= r}
  OBVIOUS
<1>4. S \subseteq 0..n /\ S # {}
  BY <1>1, <1>2, <1>3 DEF Tiled
<1>5. s \in S /\ \A y \in S : y <= s
  BY <1>2, <1>3, <1>4, MaxIs
<1>6. s \in 0..(n - 1) /\ s <= r /\ s \in TileStarts(n)
  BY <1>1, <1>3, <1>5 DEF Tiled
<1>7. n - s \in Nat \ {0}
  BY <1>6
<1>8. PICK w \in 1..(n - s) : w = TileRows(n - s)
  BY <1>7, TileRowsType
<1>9. r < s + w
  <2> SUFFICES ASSUME s + w <= r PROVE FALSE
    BY <1>2, <1>6
  <2>1. s + w < n /\ s + w \in TileStarts(n)
    BY <1>1, <1>2, <1>6, <1>8 DEF Tiled
  <2>2. s + w \in S
    BY <1>3, <2>1
  <2> QED BY <1>5, <1>6, <2>2
<1> QED BY <1>2, <1>6, <1>8, <1>9 DEF Indices

\* The rows of a slice of rows.
LEMMA RowOfRows ==
  ASSUME NEW xs, NEW w \in Nat, NEW s \in Nat, NEW n \in Nat, NEW r \in Indices(n)
  PROVE  Row(Slice(xs, s * w, n * w), r, w) = Row(xs, s + r, w)
<1>1. r \in Nat
  BY DEF Indices
<1>2. ASSUME NEW c \in Indices(w)
      PROVE  Row(Slice(xs, s * w, n * w), r, w)[c] = Row(xs, s + r, w)[c]
  <2>1. r * w + c \in Indices(n * w) /\ c \in Nat
    BY IndexJoin
  <2>2. Slice(xs, s * w, n * w)[r * w + c] = xs[s * w + (r * w + c)]
    <3>1. PICK k \in Indices(n * w) : k = r * w + c
      BY <2>1
    <3>2. Slice(xs, s * w, n * w)[k] = xs[s * w + k]
      BY DEF Slice
    <3> QED BY <3>1, <3>2, Zenon
  <2>3. s * w + (r * w + c) = (s + r) * w + c
    BY <1>1, <2>1
  <2> QED BY <2>2, <2>3, RowArray
<1> QED BY <1>2, RowArray, SameArray

LEMMA TiledMultiRowIs ==
  ASSUME NEW m, IsShape(m), NEW n \in Nat, NEW xs, IsArray(xs, n * m.columns)
  PROVE  IsProduct(m, xs, n, TiledMultiRow(m, xs, n))
<1>0. m.rows \in Nat /\ m.columns \in Nat
  BY DEF IsShape
<1>1. IsArray(TiledMultiRow(m, xs, n), n * m.rows)
  BY DEF TiledMultiRow, IsArray
<1>2. ASSUME NEW i \in Indices(n * m.rows)
      PROVE  TiledMultiRow(m, xs, n)[i] = ProductAt(m, Row(xs, i \div m.rows, m.columns), i % m.rows)
  <2>1. PICK r \in Indices(n) : r = i \div m.rows
    BY <1>0, IndexSplit
  <2>2. PICK o \in Indices(m.rows) : o = i % m.rows
    BY <1>0, IndexSplit
  <2>3. i = r * m.rows + o
    BY <1>0, <2>1, <2>2, IndexSplit, Zenon
  <2>4. PICK s : s = Max({x \in TileStarts(n) : x <= r})
    OBVIOUS
  <2>5. PICK w : w = TileRows(n - s)
    OBVIOUS
  <2>6. s \in Nat /\ w \in Nat /\ r - s \in Indices(w) /\ s + w <= n /\ r \in Nat /\ o \in Nat
    BY <2>4, <2>5, TileOfRow DEF Indices
  <2>7. PICK part : part = Slice(xs, s * m.columns, w * m.columns)
    OBVIOUS
  <2>8. IsArray(part, w * m.columns)
    BY <2>7, SliceArray
  <2>9. IsProduct(m, part, w, MultiRow(m, part, w))
    BY <2>6, <2>8, MultiRowIs
  <2>10. TiledMultiRow(m, xs, n)[i] = MultiRow(m, part, w)[i - s * m.rows]
    BY <2>1, <2>4, <2>5, <2>7, Zenon DEF TiledMultiRow
  <2>11. i - s * m.rows = (r - s) * m.rows + o
    BY <1>0, <2>3, <2>6
  <2>12. MultiRow(m, part, w)[(r - s) * m.rows + o] = ProductAt(m, Row(part, r - s, m.columns), o)
    BY <2>6, <2>9 DEF IsProduct
  <2>13. Row(part, r - s, m.columns) = Row(xs, r, m.columns)
    <3>1. Row(part, r - s, m.columns) = Row(xs, s + (r - s), m.columns)
      BY <1>0, <2>6, <2>7, RowOfRows
    <3>2. s + (r - s) = r
      BY <2>6
    <3> QED BY <3>1, <3>2
  <2> QED BY <2>1, <2>2, <2>10, <2>11, <2>12, <2>13, Zenon
<1> QED BY <1>1, <1>2, ByRows

\* However many rows there are, wherever they are sent, in whatever tiles: the product
\* of a row is that of the row alone.
LEMMA ForwardRowsIs ==
  ASSUME NEW m, IsShape(m), NEW n \in Nat, NEW xs, IsArray(xs, n * m.columns), NEW spread
  PROVE  IsProduct(m, xs, n, ForwardRows(m, xs, n, spread))
<1>1. CASE TakesMultiRow(m, n, spread) /\ m.dtype \in {"Q4K", "Q5K", "Q6K", "Q8_0"}
  BY <1>1, TiledMultiRowIs, Zenon DEF ForwardRows
<1>2. CASE ~(TakesMultiRow(m, n, spread) /\ m.dtype \in {"Q4K", "Q5K", "Q6K", "Q8_0"})
  BY <1>2, CandleIs, Zenon DEF ForwardRows
<1> QED BY <1>1, <1>2

LEMMA RowOfProduct ==
  ASSUME NEW m, IsShape(m), NEW n \in Nat, NEW xs, NEW product, IsProduct(m, xs, n, product),
         NEW r \in Indices(n)
  PROVE  Row(product, r, m.rows) = ProductRow(m, Row(xs, r, m.columns))
<1>1. IsArray(ProductRow(m, Row(xs, r, m.columns)), m.rows)
  BY DEF ProductRow, IsArray
<1>2. ASSUME NEW o \in Indices(m.rows)
      PROVE  Row(product, r, m.rows)[o] = ProductRow(m, Row(xs, r, m.columns))[o]
  BY RowArray DEF IsProduct, ProductRow
<1> QED BY <1>1, <1>2, RowArray, SameArray

-----------------------------------------------------------------------------
(***************************************************************************)
(* Attention, a row and a query head at a time.                            *)
(***************************************************************************)
\* A row of heads of columns.
LEMMA NestedJoin ==
  ASSUME NEW n \in Nat, NEW a \in Nat, NEW b \in Nat,
         NEW t \in Indices(n), NEW h \in Indices(a), NEW c \in Indices(b),
         NEW i, i = (t * a + h) * b + c
  PROVE  /\ i \in Indices((n * a) * b) /\ i \in Nat
         /\ i \div b = t * a + h /\ i % b = c
         /\ (i \div b) \div a = t /\ (i \div b) % a = h
         /\ i = t * (a * b) + (h * b + c)
         /\ h * b + c \in Indices(a * b)
<1>1. PICK m \in Nat : m = n * a
  OBVIOUS
<1>2. PICK k \in Indices(m) : k = t * a + h
  BY <1>1, IndexJoin
<1>3. k \div a = t /\ k % a = h /\ t \in Nat /\ h \in Nat /\ c \in Nat
  BY <1>2, IndexJoin
<1>4. k * b + c \in Indices(m * b) /\ k * b + c \in Nat
      /\ (k * b + c) \div b = k /\ (k * b + c) % b = c
  BY IndexJoin
<1>5. h * b + c \in Indices(a * b)
  BY IndexJoin
<1>6. (t * a + h) * b + c = t * (a * b) + (h * b + c)
  BY <1>3
<1> QED BY <1>1, <1>2, <1>3, <1>4, <1>5, <1>6, Zenon

\* The head of a group, and the group it is of.
LEMMA HeadOfGroup ==
  ASSUME NEW shape, IsScan(shape), NEW head \in Indices(shape.queryHeads)
  PROVE  /\ head \div GroupSize(shape) \in Indices(shape.kvHeads)
         /\ head % GroupSize(shape) \in Indices(GroupSize(shape))
         /\ head = (head \div GroupSize(shape)) * GroupSize(shape) + (head % GroupSize(shape))
<1>1. PICK g \in Nat : g = GroupSize(shape)
  BY DEF IsScan
<1>2. PICK k \in Nat : k = shape.kvHeads
  BY DEF IsScan
<1>3. head \in Indices(k * g)
  BY <1>1, <1>2 DEF IsScan
<1>4. head \div g \in Indices(k) /\ head % g \in Indices(g) /\ head = (head \div g) * g + (head % g)
  BY <1>3, IndexSplit
<1> QED BY <1>1, <1>2, <1>4, Zenon

\* Where a column of a head of a cached row is.
LEMMA RowBaseIs ==
  ASSUME NEW shape, IsScan(shape), NEW n \in Nat, NEW past \in Indices(n),
         NEW kvHead \in Indices(shape.kvHeads), NEW c \in Indices(shape.headDim)
  PROVE  RowBase(shape, past, kvHead) + c \in Indices(n * KvWidth(shape))
<1>1. PICK k \in Nat : k = shape.kvHeads
  BY DEF IsScan
<1>2. PICK d \in Nat : d = shape.headDim
  BY DEF IsScan
<1>3. kvHead \in Indices(k) /\ c \in Indices(d)
  BY <1>1, <1>2
<1>4. (past * k + kvHead) * d + c \in Indices((n * k) * d)
  BY <1>3, NestedJoin
<1>5. (n * k) * d = n * (k * d)
  OBVIOUS
<1> QED BY <1>1, <1>2, <1>4, <1>5, Zenon DEF RowBase, KvWidth

LEMMA AttendedAgree ==
  ASSUME NEW shape, IsScan(shape), NEW other, other.kvHeads = shape.kvHeads,
         other.headDim = shape.headDim,
         NEW scores, NEW gate, NEW kvHead \in Indices(shape.kvHeads), NEW n \in Nat,
         NEW values, NEW values2, DOMAIN scores = Indices(n),
         \A i \in Indices(n * KvWidth(shape)) : values[i] = values2[i]
  PROVE  Attended(shape, scores, gate, values, kvHead) = Attended(other, scores, gate, values2, kvHead)
<1>1. DOMAIN scores = Indices(n)
  OBVIOUS
<1> DEFINE max == Max({scores[past] : past \in DOMAIN scores} \cup {NEG_INFINITY})
           weight == [past \in DOMAIN scores |-> Exp(Minus(scores[past], max))]
           output(s, v, column) ==
             Times(Summed([past \in DOMAIN scores |->
                             Times(Over(weight[past], Summed(weight)),
                                   v[RowBase(s, past, kvHead) + column])]),
                   Sigmoid(gate[column]))
<1>2. /\ Attended(shape, scores, gate, values, kvHead)
           = [column \in Indices(shape.headDim) |-> output(shape, values, column)]
      /\ Attended(other, scores, gate, values2, kvHead)
           = [column \in Indices(other.headDim) |-> output(other, values2, column)]
  BY Zenon DEF Attended
<1> HIDE DEF max, weight
<1>3. ASSUME NEW column \in Indices(shape.headDim)
      PROVE  output(shape, values, column) = output(other, values2, column)
  <2>1. ASSUME NEW past \in DOMAIN scores
        PROVE  values[RowBase(shape, past, kvHead) + column]
                 = values2[RowBase(other, past, kvHead) + column]
    <3>1. RowBase(shape, past, kvHead) = RowBase(other, past, kvHead)
      BY Zenon DEF RowBase
    <3>2. RowBase(shape, past, kvHead) + column \in Indices(n * KvWidth(shape))
      BY <1>1, RowBaseIs
    <3> QED BY <3>1, <3>2, Zenon
  <2>2. [past \in DOMAIN scores |->
           Times(Over(weight[past], Summed(weight)), values[RowBase(shape, past, kvHead) + column])]
          = [past \in DOMAIN scores |->
           Times(Over(weight[past], Summed(weight)), values2[RowBase(other, past, kvHead) + column])]
    BY <2>1, Zenon
  <2> QED BY <2>2, Zenon
<1> HIDE DEF output
<1>4. [column \in Indices(shape.headDim) |-> output(shape, values, column)]
        = [column \in Indices(shape.headDim) |-> output(other, values2, column)]
  BY <1>3, Zenon
<1> QED BY <1>2, <1>4, Zenon

\* A head's output is of the rows it sees.
LEMMA HeadOutputAgree ==
  ASSUME NEW shape, IsScan(shape), NEW other, other.kvHeads = shape.kvHeads,
         other.headDim = shape.headDim,
         NEW query, NEW gate, NEW kvHead \in Indices(shape.kvHeads), NEW n \in Nat,
         NEW keys, NEW values, NEW keys2, NEW values2,
         \A i \in Indices(n * KvWidth(shape)) : keys[i] = keys2[i] /\ values[i] = values2[i]
  PROVE  HeadOutput(shape, query, gate, keys, values, kvHead, n)
           = HeadOutput(other, query, gate, keys2, values2, kvHead, n)
<1>1. ASSUME NEW past \in Indices(n)
      PROVE  Score(shape, query, keys, past, kvHead) = Score(other, query, keys2, past, kvHead)
  <2>1. Slice(keys, RowBase(shape, past, kvHead), shape.headDim)
          = Slice(keys2, RowBase(shape, past, kvHead), shape.headDim)
    <3>1. \A c \in Indices(shape.headDim) :
            keys[RowBase(shape, past, kvHead) + c] = keys2[RowBase(shape, past, kvHead) + c]
      BY RowBaseIs
    <3> QED BY <3>1, Zenon DEF Slice
  <2>2. RowBase(shape, past, kvHead) = RowBase(other, past, kvHead) /\ Scale(shape) = Scale(other)
    BY Zenon DEF RowBase, Scale
  <2> QED BY <2>1, <2>2, Zenon DEF Score
<1>2. PICK scores : scores = [past \in Indices(n) |-> Score(shape, query, keys, past, kvHead)]
  OBVIOUS
<1>3. scores = [past \in Indices(n) |-> Score(other, query, keys2, past, kvHead)]
  BY <1>1, <1>2, Zenon
<1>4. Attended(shape, scores, gate, values, kvHead) = Attended(other, scores, gate, values2, kvHead)
  <2>1. DOMAIN scores = Indices(n)
    BY <1>2
  <2> QED BY <2>1, AttendedAgree
<1> QED BY <1>2, <1>3, <1>4, Zenon DEF HeadOutput

\* A scan is one if each head's columns are its output.
LEMMA ScannedByHeads ==
  ASSUME NEW shape, IsScan(shape), NEW queries, NEW gates, NEW keys, NEW values, NEW mixed,
         IsArray(mixed, (shape.seq * shape.queryHeads) * shape.headDim),
         \A t \in Indices(shape.seq) : \A h \in Indices(shape.queryHeads) :
           \A c \in Indices(shape.headDim) :
             mixed[(t * shape.queryHeads + h) * shape.headDim + c]
               = HeadOutput(shape, queries[t][h], gates[t][h], keys, values, h \div GroupSize(shape),
                            shape.existing + t + 1)[c]
  PROVE  IsScanned(shape, queries, gates, keys, values, mixed)
<1>1. PICK n \in Nat : n = shape.seq
  BY DEF IsScan
<1>2. PICK a \in Nat : a = shape.queryHeads
  BY DEF IsScan
<1>3. PICK b \in Nat : b = shape.headDim
  BY DEF IsScan
<1>4. (n * a) * b = n * (a * b) /\ a * b \in Nat
  OBVIOUS
<1>5. IsArray(mixed, n * (a * b))
  BY <1>1, <1>2, <1>3, <1>4, Zenon
<1>6. ASSUME NEW t \in Indices(n), NEW j \in Indices(a * b)
      PROVE  Row(mixed, t, a * b)[j]
               = HeadOutput(shape, queries[t][j \div b], gates[t][j \div b], keys, values,
                            (j \div b) \div GroupSize(shape), shape.existing + t + 1)[j % b]
  <2>1. PICK h \in Indices(a) : h = j \div b
    BY IndexSplit
  <2>2. PICK c \in Indices(b) : c = j % b
    BY IndexSplit
  <2>3. j = h * b + c
    BY <2>1, <2>2, IndexSplit, Zenon
  <2>4. (t * a + h) * b + c = t * (a * b) + (h * b + c)
    BY NestedJoin
  <2>5. Row(mixed, t, a * b)[j] = mixed[(t * a + h) * b + c]
    BY <2>3, <2>4, RowArray
  <2> QED BY <2>1, <2>2, <2>5, <1>1, <1>2, <1>3, Zenon
<1>7. ASSUME NEW t \in Indices(n)
      PROVE  Row(mixed, t, MixedWidth(shape))
               = MixedRow(shape, queries[t], gates[t], keys, values, shape.existing + t + 1)
  <2>1. MixedWidth(shape) = a * b
    BY <1>2, <1>3 DEF MixedWidth
  <2>2. IsArray(Row(mixed, t, a * b), a * b)
    BY RowArray
  <2>3. MixedRow(shape, queries[t], gates[t], keys, values, shape.existing + t + 1)
          = [j \in Indices(a * b) |->
                HeadOutput(shape, queries[t][j \div b], gates[t][j \div b], keys, values,
                            (j \div b) \div GroupSize(shape), shape.existing + t + 1)[j % b]]
    BY <1>3, <2>1, Zenon DEF MixedRow
  <2>4. Row(mixed, t, a * b)
          = [j \in Indices(a * b) |->
                HeadOutput(shape, queries[t][j \div b], gates[t][j \div b], keys, values,
                            (j \div b) \div GroupSize(shape), shape.existing + t + 1)[j % b]]
    BY <1>6, <2>2, Zenon DEF IsArray
  <2> QED BY <2>1, <2>3, <2>4, Zenon
<1> QED BY <1>1, <1>2, <1>3, <1>5, <1>7, Zenon DEF IsScanned, MixedWidth

LEMMA PerHeadScanIs ==
  ASSUME NEW shape, IsScan(shape), NEW queries, NEW gates, NEW keys, NEW values
  PROVE  IsScanned(shape, queries, gates, keys, values,
                   PerHeadScan(shape, queries, gates, keys, values))
<1>1. PICK mixed : mixed = PerHeadScan(shape, queries, gates, keys, values)
  OBVIOUS
<1>2. IsArray(mixed, (shape.seq * shape.queryHeads) * shape.headDim)
  BY <1>1 DEF PerHeadScan, IsArray
<1>3. ASSUME NEW t \in Indices(shape.seq), NEW h \in Indices(shape.queryHeads),
             NEW c \in Indices(shape.headDim)
      PROVE  mixed[(t * shape.queryHeads + h) * shape.headDim + c]
               = HeadOutput(shape, queries[t][h], gates[t][h], keys, values, h \div GroupSize(shape),
                            shape.existing + t + 1)[c]
  <2>1. PICK n \in Nat : n = shape.seq
    BY DEF IsScan
  <2>a. PICK a \in Nat : a = shape.queryHeads
    BY DEF IsScan
  <2>b. PICK b \in Nat : b = shape.headDim
    BY DEF IsScan
  <2>2. PICK i : i = (t * a + h) * b + c
    OBVIOUS
  <2>c. t \in Indices(n) /\ h \in Indices(a) /\ c \in Indices(b)
    BY <2>1, <2>a, <2>b, Zenon
  <2>3. /\ i \in Indices((n * a) * b)
        /\ i % b = c /\ (i \div b) \div a = t /\ (i \div b) % a = h
    BY <2>2, <2>c, NestedJoin
  <2>4. /\ i \in Indices((shape.seq * shape.queryHeads) * shape.headDim)
        /\ i % shape.headDim = c
        /\ (i \div shape.headDim) \div shape.queryHeads = t
        /\ (i \div shape.headDim) % shape.queryHeads = h
    BY <2>1, <2>a, <2>b, <2>3, Zenon
  <2>5. i = (t * shape.queryHeads + h) * shape.headDim + c
    BY <2>a, <2>b, <2>2, Zenon
  <2> QED BY <1>1, <2>4, <2>5, Zenon DEF PerHeadScan
<1> QED BY <1>1, <1>2, <1>3, ScannedByHeads

-----------------------------------------------------------------------------
(***************************************************************************)
(* The blocked scan, a chunk of rows at a time.                            *)
(***************************************************************************)
LEMMA StrideIs ==
  ASSUME NEW shape, IsScan(shape)
  PROVE  /\ PlaneStride(shape) \in Nat \ {0}
         /\ PlaneStride(shape) = (shape.existing + shape.seq) * GroupSize(shape)
         /\ AccumulatorStride(shape) \in Nat \ {0}
         /\ shape.kvHeads * PlaneStride(shape) \in Nat \ {0}
<1>1. PICK g \in Nat \ {0} : g = GroupSize(shape)
  BY DEF IsScan
<1>2. PICK e \in Nat \ {0} : e = shape.existing + shape.seq
  <2>1. shape.existing \in Nat /\ shape.seq \in Nat \ {0}
    BY DEF IsScan
  <2> QED BY <2>1
<1>3. PICK d \in Nat \ {0} : d = shape.headDim
  BY DEF IsScan
<1>a. PICK k \in Nat \ {0} : k = shape.kvHeads
  BY DEF IsScan
<1>4. PICK p \in Nat \ {0} : p = e * g
  <2>1. e * g \in Nat \ {0} BY SMTT(30)
  <2> QED BY <2>1
<1>5. PICK q \in Nat \ {0} : q = d * g
  <2>1. d * g \in Nat \ {0} BY SMTT(30)
  <2> QED BY <2>1
<1>6. PICK r \in Nat \ {0} : r = k * p
  <2>1. k * p \in Nat \ {0} BY SMTT(30)
  <2> QED BY <2>1
<1>7. PlaneStride(shape) = p /\ AccumulatorStride(shape) = q
  BY <1>1, <1>2, <1>3, <1>4, <1>5, Zenon DEF PlaneStride, AccumulatorStride
<1> QED BY <1>1, <1>2, <1>4, <1>5, <1>6, <1>7, <1>a

LEMMA ClampIs ==
  ASSUME NEW a \in Int, NEW low \in Int, NEW high \in Int, low <= high
  PROVE  Clamp(a, low, high) \in low..high
<1>1. Min({a, high}) \in Int /\ Min({a, high}) <= high
  BY MinOfTwo
<1>2. Max({low, Min({a, high})}) \in low..high
  BY <1>1, MaxOfTwo
<1> QED BY <1>2 DEF Clamp

LEMMA RowsPerChunkIs ==
  ASSUME NEW shape, IsScan(shape)
  PROVE  RowsPerChunk(shape) \in 1..shape.seq
<1>1. ScoreBudget \in Nat
  BY KernelAssumption
<1>2. PICK w \in Nat \ {0} : w = shape.kvHeads * PlaneStride(shape)
  BY StrideIs
<1>3. PICK a \in Nat : a = ScoreBudget \div w
  BY <1>1, DivNat
<1>4. PICK n \in Nat \ {0} : n = shape.seq
  BY DEF IsScan
<1>5. Clamp(a, 1, n) \in 1..n
  BY ClampIs
<1> QED BY <1>2, <1>3, <1>4, <1>5, Zenon DEF RowsPerChunk

LEMMA ChunkIs ==
  ASSUME NEW shape, IsScan(shape), NEW first \in Indices(shape.seq)
  PROVE  IsChunk(shape, ChunkAt(shape, first)) /\ ChunkAt(shape, first).first = first
<1>1. PICK n \in Nat \ {0} : n = shape.seq
  BY DEF IsScan
<1>2. PICK p \in 1..n : p = RowsPerChunk(shape)
  BY <1>1, RowsPerChunkIs
<1>3. first \in 0..(n - 1)
  BY <1>1 DEF Indices
<1>4. PICK r : r = Min({p, n - first})
  OBVIOUS
<1>5. r \in 1..p /\ first + r <= n
  BY <1>2, <1>3, <1>4, MinOfTwo
<1>6. ChunkAt(shape, first) = [first |-> first, rows |-> r]
  BY <1>1, <1>2, <1>4, Zenon DEF ChunkAt
<1>7. ChunkAt(shape, first).first = first /\ ChunkAt(shape, first).rows = r
  BY <1>6
<1> QED BY <1>1, <1>2, <1>5, <1>7, Zenon DEF IsChunk

\* A width of a block is one at least.
LEMMA SplitIs ==
  ASSUME NEW total \in Nat, NEW planes \in Nat, NEW threads \in Nat, NEW grain \in Nat \ {0}
  PROVE  Split(total, planes, threads, grain) \in Nat \ {0}
<1>1. PICK m \in Nat \ {0} : m = Max({1, planes})
  <2>1. Max({1, planes}) \in Nat \ {0}
    BY MaxOfTwo
  <2> QED BY <2>1
<1>2. 2 * threads + m - 1 \in Nat
  OBVIOUS
<1>3. (2 * threads + m - 1) \div m \in Nat
  BY <1>2, DivNat
<1>4. PICK parts \in Nat \ {0} : parts = Max({1, DivCeil(2 * threads, Max({1, planes}))})
  <2>1. DivCeil(2 * threads, Max({1, planes})) \in Nat
    BY <1>1, <1>3 DEF DivCeil
  <2>2. Max({1, DivCeil(2 * threads, Max({1, planes}))}) \in Nat \ {0}
    BY <2>1, MaxOfTwo
  <2> QED BY <2>2
<1>5. total + parts - 1 \in Nat
  OBVIOUS
<1>6. PICK d \in Nat : d = DivCeil(total, parts)
  BY <1>5, DivNat DEF DivCeil
<1>7. d + grain - 1 \in Nat
  OBVIOUS
<1>8. PICK k \in Nat : k = DivCeil(d, grain)
  BY <1>7, DivNat DEF DivCeil
<1>9. NextMultiple(d, grain) \in Nat
  <2>1. k * grain \in Nat
    OBVIOUS
  <2> QED BY <1>8, <2>1, Zenon DEF NextMultiple
<1>10. PICK high \in Nat : high = Max({total, grain}) /\ grain <= high
  BY MaxOfTwo
<1>11. Clamp(NextMultiple(d, grain), grain, high) \in grain..high
  BY <1>9, <1>10, ClampIs
<1>12. Clamp(NextMultiple(d, grain), grain, high) \in Nat \ {0}
  BY <1>10, <1>11
<1> QED BY <1>4, <1>6, <1>10, <1>12, Zenon DEF Split

LEMMA BlocksAre ==
  ASSUME NEW shape, IsScan(shape), NEW chunk, IsChunk(shape, chunk)
  PROVE  /\ PastBlock(shape, chunk) \in Nat \ {0}
         /\ ColumnBlock(shape, chunk) \in Nat \ {0}
         /\ Planes(shape, chunk) \in Nat
<1>1. PICK k \in Nat \ {0} : k = shape.kvHeads
  BY DEF IsScan
<1>2. chunk.rows \in Nat /\ chunk.first \in Nat
  BY RowsPerChunkIs DEF IsChunk, Indices
<1>3. Planes(shape, chunk) \in Nat
  BY <1>1, <1>2 DEF Planes
<1>4. shape.existing + chunk.first + chunk.rows \in Nat /\ shape.headDim \in Nat /\ shape.threads \in Nat
  BY <1>2 DEF IsScan
<1>5. MinPastBlock \in Nat \ {0} /\ MinColumnBlock \in Nat \ {0}
  BY KernelAssumption
<1> QED BY <1>3, <1>4, <1>5, SplitIs DEF PastBlock, ColumnBlock

\* A block's slots are its positions' or columns', each with the group's heads.
InBlock(j, p, g, past, lane) ==
  /\ (j \div (p * g)) * p + ((j % (p * g)) \div g) = past
  /\ j % g = lane /\ j \div g = past

LEMMA BlockIs ==
  ASSUME NEW p \in Nat \ {0}, NEW g \in Nat \ {0}, NEW past \in Nat, NEW lane \in Indices(g),
         NEW j, j = past * g + lane
  PROVE  InBlock(j, p, g, past, lane)
<1>1. PICK a \in Nat : a = past \div p
  BY DivNat
<1>2. PICK b \in Indices(p) : b = past % p
  BY DivNat
<1>3. past = a * p + b
  BY <1>1, <1>2, DivNat
<1>4. a \in Indices(a + 1) /\ a + 1 \in Nat
  BY DEF Indices
<1>5. j = (a * p + b) * g + lane
  BY <1>3
<1>6. /\ j \div g = a * p + b /\ j % g = lane
      /\ j = a * (p * g) + (b * g + lane) /\ b * g + lane \in Indices(p * g)
  BY <1>4, <1>5, NestedJoin
<1>7. PICK w \in Nat : w = p * g
  OBVIOUS
<1>8. PICK c \in Indices(w) : c = b * g + lane
  BY <1>6, <1>7
<1>9. j = a * w + c
  BY <1>6, <1>7, <1>8
<1>10. j \div w = a /\ j % w = c
  BY <1>4, <1>9, IndexJoin
<1>11. c \div g = b
  BY <1>8, IndexJoin
<1> QED BY <1>3, <1>6, <1>7, <1>10, <1>11, Zenon DEF InBlock

LEMMA PlaneIs ==
  ASSUME NEW shape, IsScan(shape), NEW chunk, IsChunk(shape, chunk),
         NEW row \in Indices(chunk.rows), NEW kvHead \in Indices(shape.kvHeads),
         NEW plane, plane = PlaneOf(shape, row, kvHead)
  PROVE  /\ plane \in Indices(Planes(shape, chunk)) /\ plane \in Nat /\ plane < Planes(shape, chunk)
         /\ plane \in Indices(RowsPerChunk(shape) * shape.kvHeads)
         /\ plane \div shape.kvHeads = row /\ plane % shape.kvHeads = kvHead
         /\ PlaneToken(shape, chunk, plane) = chunk.first + row
         /\ AttendTo(shape, chunk, plane) = SeenBy(shape, chunk, row)
         /\ SeenBy(shape, chunk, row) \in Nat
         /\ SeenBy(shape, chunk, row) <= shape.existing + shape.seq
         /\ chunk.first + row \in Indices(shape.seq)
<1>1. PICK k \in Nat : k = shape.kvHeads
  BY DEF IsScan
<1>2. PICK n \in Nat : n = chunk.rows
  BY RowsPerChunkIs DEF IsChunk
<1>3. PICK m \in Nat : m = RowsPerChunk(shape)
  BY RowsPerChunkIs DEF IsScan
<1>4. n <= m
  BY <1>2, <1>3 DEF IsChunk
<1>5. row \in Indices(n) /\ row \in Indices(m) /\ kvHead \in Indices(k) /\ row \in Nat
  BY <1>1, <1>2, <1>4 DEF Indices
<1>6. PICK p : p = row * k + kvHead
  OBVIOUS
<1>7. /\ p \in Indices(n * k) /\ p \in Nat /\ p \in Indices(m * k)
      /\ p \div k = row /\ p % k = kvHead
  BY <1>5, <1>6, IndexJoin
<1>8. p < n * k
  BY <1>7 DEF Indices
<1>9. Planes(shape, chunk) = n * k /\ plane = p
  BY <1>1, <1>2, <1>6 DEF Planes, PlaneOf
<1>10. PlaneToken(shape, chunk, plane) = chunk.first + row
  BY <1>1, <1>7, <1>9, Zenon DEF PlaneToken
<1>11. AttendTo(shape, chunk, plane) = SeenBy(shape, chunk, row)
  BY <1>10, Zenon DEF AttendTo, SeenBy
<1>12. /\ SeenBy(shape, chunk, row) \in Nat
       /\ SeenBy(shape, chunk, row) <= shape.existing + shape.seq
       /\ chunk.first + row \in Indices(shape.seq)
  <2>1. PICK e \in Nat : e = shape.existing
    BY DEF IsScan
  <2>2. PICK q \in Nat : q = shape.seq
    BY DEF IsScan
  <2>3. PICK f \in Nat : f = chunk.first
    BY DEF IsChunk, Indices
  <2>4. f + n <= q /\ row < n
    BY <1>2, <1>5, <2>2, <2>3 DEF IsChunk, Indices
  <2> QED BY <1>5, <2>1, <2>2, <2>3, <2>4 DEF SeenBy, Indices
<1> QED BY <1>1, <1>3, <1>7, <1>8, <1>9, <1>10, <1>11, <1>12, Zenon

LEMMA SlotIs ==
  ASSUME NEW shape, IsScan(shape), NEW chunk, IsChunk(shape, chunk),
         NEW row \in Indices(chunk.rows), NEW kvHead \in Indices(shape.kvHeads),
         NEW past \in Indices(SeenBy(shape, chunk, row)), NEW lane \in Indices(GroupSize(shape)),
         NEW i, i = SlotOf(shape, row, kvHead, past, lane)
  PROVE  /\ i \in Indices(BufferSize(shape))
         /\ i \div PlaneStride(shape) = PlaneOf(shape, row, kvHead)
         /\ i % PlaneStride(shape) = past * GroupSize(shape) + lane
         /\ Rewritten(shape, chunk, i)
<1>1. PICK g \in Nat \ {0} : g = GroupSize(shape)
  BY DEF IsScan
<1>2. PICK s \in Nat \ {0} : s = PlaneStride(shape)
  BY StrideIs
<1>3. PICK e \in Nat : e = shape.existing + shape.seq
  BY DEF IsScan
<1>4. PICK seen \in Nat : seen = SeenBy(shape, chunk, row)
  BY PlaneIs
<1>5. seen <= e
  BY <1>3, <1>4, PlaneIs
<1>6. PICK plane \in Nat : plane = PlaneOf(shape, row, kvHead)
  BY PlaneIs
<1>7. PICK m : m = RowsPerChunk(shape) * shape.kvHeads
  OBVIOUS
<1>8. m \in Nat /\ plane \in Indices(m)
  <2>1. RowsPerChunk(shape) \in Nat /\ shape.kvHeads \in Nat
    BY RowsPerChunkIs DEF IsScan
  <2>2. RowsPerChunk(shape) * shape.kvHeads \in Nat
    BY <2>1
  <2> QED BY <1>6, <1>7, <2>2, PlaneIs
<1>9. past \in Indices(seen) /\ lane \in Indices(g)
  BY <1>1, <1>4
<1>10. past \in Indices(e)
  BY <1>5, <1>9 DEF Indices
<1>11. PICK j : j = past * g + lane
  OBVIOUS
<1>12. j \in Indices(seen * g) /\ j \in Indices(e * g) /\ j \in Nat
  BY <1>9, <1>10, <1>11, IndexJoin
<1>13. e * g = s
  BY <1>1, <1>2, <1>3, StrideIs
<1>b. j \in Indices(s)
  BY <1>12, <1>13
<1>14. /\ plane * s + j \in Indices(m * s)
       /\ (plane * s + j) \div s = plane /\ (plane * s + j) % s = j
  BY <1>8, <1>b, IndexJoin
<1>15. i = plane * s + j
  <2>1. i = plane * s + past * g + lane
    BY <1>1, <1>2, <1>6, Zenon DEF SlotOf
  <2>2. past \in Nat /\ lane \in Nat
    BY <1>9 DEF Indices
  <2> QED BY <1>11, <2>1, <2>2
<1>16. i \in Indices(BufferSize(shape))
  BY <1>2, <1>7, <1>14, <1>15, Zenon DEF BufferSize
<1>17. j < seen * g
  BY <1>12 DEF Indices
<1>18. Rewritten(shape, chunk, i)
  <2>1. plane < Planes(shape, chunk) /\ AttendTo(shape, chunk, plane) = seen
    BY <1>4, <1>6, PlaneIs
  <2> QED BY <1>1, <1>2, <1>14, <1>15, <1>17, <2>1, Zenon DEF Rewritten
<1> QED BY <1>1, <1>2, <1>6, <1>11, <1>14, <1>15, <1>16, <1>18, Zenon

LEMMA ScoresAre ==
  ASSUME NEW shape, IsScan(shape), NEW chunk, IsChunk(shape, chunk), NEW queries, NEW keys,
         NEW buffer, IsArray(buffer, BufferSize(shape))
  PROVE  Scored(shape, chunk, queries, keys, Scores(shape, chunk, queries, keys, buffer))
<1>1. PICK after : after = Scores(shape, chunk, queries, keys, buffer)
  OBVIOUS
<1>2. DOMAIN buffer = Indices(BufferSize(shape))
  BY ArrayDomain, Zenon
<1>3. IsArray(after, BufferSize(shape))
  BY <1>1, <1>2 DEF Scores, IsArray
<1>4. ASSUME NEW row \in Indices(chunk.rows), NEW kvHead \in Indices(shape.kvHeads),
             NEW lane \in Indices(GroupSize(shape)), NEW past \in Indices(SeenBy(shape, chunk, row))
      PROVE  after[SlotOf(shape, row, kvHead, past, lane)]
               = ScoreOf(shape, chunk, queries, keys, row, kvHead, lane)[past]
  <2>1. PICK i : i = SlotOf(shape, row, kvHead, past, lane)
    OBVIOUS
  <2>2. PICK plane : plane = PlaneOf(shape, row, kvHead)
    OBVIOUS
  <2>3. PICK g \in Nat \ {0} : g = GroupSize(shape)
    BY DEF IsScan
  <2>4. PICK p \in Nat \ {0} : p = PastBlock(shape, chunk)
    BY BlocksAre
  <2>5. PICK j : j = past * g + lane
    OBVIOUS
  <2>6. /\ i \in DOMAIN buffer /\ i \div PlaneStride(shape) = plane
        /\ i % PlaneStride(shape) = j /\ Rewritten(shape, chunk, i)
    <3>1. /\ i \in Indices(BufferSize(shape))
          /\ i \div PlaneStride(shape) = PlaneOf(shape, row, kvHead)
          /\ i % PlaneStride(shape) = past * GroupSize(shape) + lane
          /\ Rewritten(shape, chunk, i)
      BY <2>1, SlotIs
    <3> QED BY <1>2, <2>2, <2>3, <2>5, <3>1, Zenon
  <2>7. past \in Nat
    BY PlaneIs DEF Indices
  <2>8. (j \div (p * g)) * p + ((j % (p * g)) \div g) = past /\ j % g = lane
    BY <2>3, <2>5, <2>7, BlockIs DEF InBlock
  <2>9. PlaneToken(shape, chunk, plane) = chunk.first + row /\ plane % shape.kvHeads = kvHead
    BY <2>2, PlaneIs
  <2>10. after[i] = Score(shape, queries[chunk.first + row][kvHead * g + lane], keys, past, kvHead)
    BY <1>1, <2>3, <2>4, <2>6, <2>8, <2>9, Zenon DEF Scores
  <2> QED BY <2>1, <2>3, <2>10, Zenon DEF ScoreOf
<1> QED BY <1>1, <1>3, <1>4 DEF Scored, Holds

LEMMA SoftmaxIs ==
  ASSUME NEW shape, IsScan(shape), NEW chunk, IsChunk(shape, chunk), NEW queries, NEW keys,
         NEW buffer, Scored(shape, chunk, queries, keys, buffer)
  PROVE  Weighed(shape, chunk, queries, keys, Softmax(shape, chunk, buffer))
<1>1. PICK after : after = Softmax(shape, chunk, buffer)
  OBVIOUS
<1>2. DOMAIN buffer = Indices(BufferSize(shape))
  BY ArrayDomain, Zenon DEF Scored
<1>3. IsArray(after, BufferSize(shape))
  BY <1>1, <1>2 DEF Softmax, IsArray
<1>4. ASSUME NEW row \in Indices(chunk.rows), NEW kvHead \in Indices(shape.kvHeads),
             NEW lane \in Indices(GroupSize(shape)), NEW past \in Indices(SeenBy(shape, chunk, row))
      PROVE  after[SlotOf(shape, row, kvHead, past, lane)]
               = ChanceOf(ScoreOf(shape, chunk, queries, keys, row, kvHead, lane))[past]
  <2>1. PICK i : i = SlotOf(shape, row, kvHead, past, lane)
    OBVIOUS
  <2>2. PICK plane : plane = PlaneOf(shape, row, kvHead)
    OBVIOUS
  <2>3. PICK g \in Nat \ {0} : g = GroupSize(shape)
    BY DEF IsScan
  <2>5. PICK j : j = past * g + lane
    OBVIOUS
  <2>6. /\ i \in DOMAIN buffer /\ i \div PlaneStride(shape) = plane
        /\ i % PlaneStride(shape) = j /\ Rewritten(shape, chunk, i)
    <3>1. /\ i \in Indices(BufferSize(shape))
          /\ i \div PlaneStride(shape) = PlaneOf(shape, row, kvHead)
          /\ i % PlaneStride(shape) = past * GroupSize(shape) + lane
          /\ Rewritten(shape, chunk, i)
      BY <2>1, SlotIs
    <3> QED BY <1>2, <2>2, <2>3, <2>5, <3>1, Zenon
  <2>7. past \in Nat
    BY PlaneIs DEF Indices
  <2>8. j % g = lane /\ j \div g = past
    BY <2>3, <2>5, <2>7, BlockIs DEF InBlock
  <2>9. PICK seen : seen = SeenBy(shape, chunk, row)
    OBVIOUS
  <2>10. AttendTo(shape, chunk, plane) = seen
    BY <2>2, <2>9, PlaneIs
  <2>11. PICK scores : scores = ScoreOf(shape, chunk, queries, keys, row, kvHead, lane)
    OBVIOUS
  <2>12. DOMAIN scores = Indices(seen)
    BY <2>9, <2>11 DEF ScoreOf
  <2>13. \A q \in Indices(seen) : buffer[plane * PlaneStride(shape) + q * g + lane] = scores[q]
    BY <2>2, <2>3, <2>9, <2>11, Zenon DEF Scored, Holds, SlotOf
  <2>14. [q \in Indices(seen) |->
            Exp(Minus(buffer[plane * PlaneStride(shape) + q * g + lane],
              Max({buffer[plane * PlaneStride(shape) + p * g + lane] : p \in Indices(seen)}
                    \cup {NEG_INFINITY})))]
           = WeightOf(scores)
    <3>1. {buffer[plane * PlaneStride(shape) + p * g + lane] : p \in Indices(seen)}
            = {scores[p] : p \in Indices(seen)}
      BY <2>13, Zenon
    <3> QED BY <2>12, <2>13, <3>1, Zenon DEF WeightOf
  <2>15. after[i] = Over(WeightOf(scores)[past], Summed(WeightOf(scores)))
    <3>1. after[i] = (LET weight == [q \in Indices(seen) |->
                            Exp(Minus(buffer[plane * PlaneStride(shape) + q * g + lane],
                              Max({buffer[plane * PlaneStride(shape) + p * g + lane] : p \in Indices(seen)}
                                    \cup {NEG_INFINITY})))]
                      IN Over(weight[past], Summed(weight)))
      BY <1>1, <2>3, <2>6, <2>8, <2>10, Zenon DEF Softmax
    <3> QED BY <2>14, <3>1, Zenon
  <2>16. past \in DOMAIN scores
    BY <2>9, <2>12
  <2> QED BY <2>1, <2>11, <2>15, <2>16, Zenon DEF ChanceOf
<1> QED BY <1>1, <1>3, <1>4 DEF Weighed, Holds

LEMMA SumSlotIs ==
  ASSUME NEW shape, IsScan(shape), NEW chunk, IsChunk(shape, chunk),
         NEW row \in Indices(chunk.rows), NEW kvHead \in Indices(shape.kvHeads),
         NEW column \in Indices(shape.headDim), NEW lane \in Indices(GroupSize(shape)),
         NEW i, i = SumOf(shape, row, kvHead, column, lane)
  PROVE  /\ i \in Indices(SumsSize(shape))
         /\ i \div AccumulatorStride(shape) = PlaneOf(shape, row, kvHead)
         /\ i % AccumulatorStride(shape) = column * GroupSize(shape) + lane
         /\ i < Planes(shape, chunk) * AccumulatorStride(shape)
<1>1. PICK g \in Nat \ {0} : g = GroupSize(shape)
  BY DEF IsScan
<1>2. PICK s \in Nat \ {0} : s = AccumulatorStride(shape)
  BY StrideIs
<1>3. PICK d \in Nat \ {0} : d = shape.headDim
  BY DEF IsScan
<1>6. PICK plane \in Nat : plane = PlaneOf(shape, row, kvHead)
  BY PlaneIs
<1>7. PICK m : m = RowsPerChunk(shape) * shape.kvHeads
  OBVIOUS
<1>8. m \in Nat /\ plane \in Indices(m)
  <2>1. RowsPerChunk(shape) \in Nat /\ shape.kvHeads \in Nat
    BY RowsPerChunkIs DEF IsScan
  <2>2. RowsPerChunk(shape) * shape.kvHeads \in Nat
    BY <2>1
  <2> QED BY <1>6, <1>7, <2>2, PlaneIs
<1>9. column \in Indices(d) /\ lane \in Indices(g)
  BY <1>1, <1>3
<1>11. PICK j : j = column * g + lane
  OBVIOUS
<1>13. d * g = s
  BY <1>1, <1>2, <1>3, Zenon DEF AccumulatorStride
<1>12. j \in Indices(s) /\ j \in Nat
  BY <1>9, <1>11, <1>13, IndexJoin
<1>14. /\ plane * s + j \in Indices(m * s)
       /\ (plane * s + j) \div s = plane /\ (plane * s + j) % s = j
  BY <1>8, <1>12, IndexJoin
<1>15. i = plane * s + j
  <2>1. i = plane * s + column * g + lane
    BY <1>1, <1>2, <1>6, Zenon DEF SumOf
  <2>2. column \in Nat /\ lane \in Nat
    BY <1>9 DEF Indices
  <2> QED BY <1>11, <2>1, <2>2
<1>16. i \in Indices(SumsSize(shape))
  BY <1>2, <1>7, <1>14, <1>15, Zenon DEF SumsSize
<1>17. i < Planes(shape, chunk) * s
  <2>1. PICK q \in Nat : q = Planes(shape, chunk)
    BY BlocksAre
  <2>2. plane \in Indices(q)
    BY <1>6, <2>1, PlaneIs
  <2>3. plane * s + j \in Indices(q * s)
    BY <1>12, <2>2, IndexJoin
  <2>4. plane * s + j < q * s
    BY <2>3 DEF Indices
  <2> QED BY <1>15, <2>1, <2>4, Zenon
<1> QED BY <1>1, <1>2, <1>6, <1>11, <1>14, <1>15, <1>16, <1>17, Zenon

LEMMA WeightedSumIs ==
  ASSUME NEW shape, IsScan(shape), NEW chunk, IsChunk(shape, chunk), NEW queries, NEW keys,
         NEW values, NEW buffer, Weighed(shape, chunk, queries, keys, buffer),
         NEW accumulator, IsArray(accumulator, SumsSize(shape))
  PROVE  Summarized(shape, chunk, queries, keys, values,
                    WeightedSum(shape, chunk, buffer, values, accumulator))
<1>1. PICK after : after = WeightedSum(shape, chunk, buffer, values, accumulator)
  OBVIOUS
<1>2. DOMAIN accumulator = Indices(SumsSize(shape))
  BY ArrayDomain, Zenon
<1>3. IsArray(after, SumsSize(shape))
  BY <1>1, <1>2 DEF WeightedSum, IsArray
<1>4. ASSUME NEW row \in Indices(chunk.rows), NEW kvHead \in Indices(shape.kvHeads),
             NEW lane \in Indices(GroupSize(shape)), NEW column \in Indices(shape.headDim)
      PROVE  after[SumOf(shape, row, kvHead, column, lane)]
               = Summed(TermsOf(shape, ChanceOf(ScoreOf(shape, chunk, queries, keys, row, kvHead, lane)),
                                values, kvHead, column))
  <2>1. PICK i : i = SumOf(shape, row, kvHead, column, lane)
    OBVIOUS
  <2>2. PICK plane \in Nat : plane = PlaneOf(shape, row, kvHead)
    BY PlaneIs
  <2>3. PICK g \in Nat \ {0} : g = GroupSize(shape)
    BY DEF IsScan
  <2>4. PICK p \in Nat \ {0} : p = ColumnBlock(shape, chunk)
    BY BlocksAre
  <2>5. PICK j : j = column * g + lane
    OBVIOUS
  <2>6. /\ i \in Indices(SumsSize(shape))
        /\ i \div AccumulatorStride(shape) = PlaneOf(shape, row, kvHead)
        /\ i % AccumulatorStride(shape) = column * GroupSize(shape) + lane
        /\ i < Planes(shape, chunk) * AccumulatorStride(shape)
    BY <2>1, SumSlotIs
  <2>7. column \in Nat
    BY DEF IsScan, Indices
  <2>8. (j \div (p * g)) * p + ((j % (p * g)) \div g) = column /\ j % g = lane
    <3>1. lane \in Indices(g)
      BY <2>3
    <3>2. InBlock(j, p, g, column, lane)
      BY <2>5, <2>7, <3>1, BlockIs
    <3> QED BY <3>2, Zenon DEF InBlock
  <2>9. PICK seen : seen = SeenBy(shape, chunk, row)
    OBVIOUS
  <2>10. /\ AttendTo(shape, chunk, plane) = seen /\ plane % shape.kvHeads = kvHead
         /\ ~(plane >= Planes(shape, chunk))
    <3>1. plane < Planes(shape, chunk)
      BY <2>2, PlaneIs
    <3>2. Planes(shape, chunk) \in Nat
      BY BlocksAre
    <3> QED BY <2>2, <2>9, <3>1, <3>2, PlaneIs
  <2>11. PICK chances : chances = ChanceOf(ScoreOf(shape, chunk, queries, keys, row, kvHead, lane))
    OBVIOUS
  <2>12. DOMAIN chances = Indices(seen)
    BY <2>9, <2>11 DEF ScoreOf, ChanceOf
  <2>13. \A q \in Indices(seen) : buffer[plane * PlaneStride(shape) + q * g + lane] = chances[q]
    BY <2>2, <2>3, <2>9, <2>11, Zenon DEF Weighed, Holds, SlotOf
  <2>14. [q \in Indices(seen) |-> Times(buffer[plane * PlaneStride(shape) + q * g + lane],
                                        values[RowBase(shape, q, kvHead) + column])]
           = TermsOf(shape, chances, values, kvHead, column)
    BY <2>12, <2>13, Zenon DEF TermsOf
  <2>15. Cleared(shape, chunk, accumulator)[i] = 0
    BY <1>2, <2>6, Zenon DEF Cleared
  <2>16. /\ i \div AccumulatorStride(shape) = plane /\ i % AccumulatorStride(shape) = j
         /\ i \in DOMAIN accumulator
    BY <1>2, <2>2, <2>3, <2>5, <2>6, Zenon
  <2>17. after[i] = Accumulate(Cleared(shape, chunk, accumulator)[i],
                      [q \in Indices(seen) |-> Times(buffer[plane * PlaneStride(shape) + q * g + lane],
                                        values[RowBase(shape, q, kvHead) + column])])
    BY <1>1, <2>3, <2>4, <2>8, <2>10, <2>16, Zenon DEF WeightedSum
  <2> QED BY <2>1, <2>11, <2>14, <2>15, <2>17, Zenon DEF Summed
<1> QED BY <1>1, <1>3, <1>4 DEF Summarized

\* A head's output from its sums.
LEMMA HeadOutputIs ==
  ASSUME NEW shape, NEW query, NEW gate, NEW keys, NEW values, NEW kvHead, NEW n, NEW scores,
         scores = [past \in Indices(n) |-> Score(shape, query, keys, past, kvHead)],
         NEW c \in Indices(shape.headDim)
  PROVE  HeadOutput(shape, query, gate, keys, values, kvHead, n)[c]
           = Times(Summed(TermsOf(shape, ChanceOf(scores), values, kvHead, c)), Sigmoid(gate[c]))
<1>1. PICK weight : weight = WeightOf(scores)
  OBVIOUS
<1>2. DOMAIN weight = DOMAIN scores /\ DOMAIN ChanceOf(scores) = DOMAIN scores
  BY <1>1 DEF WeightOf, ChanceOf
<1>3. TermsOf(shape, ChanceOf(scores), values, kvHead, c)
        = [past \in DOMAIN scores |-> Times(Over(weight[past], Summed(weight)),
                                            values[RowBase(shape, past, kvHead) + c])]
  <2>1. \A past \in DOMAIN scores : ChanceOf(scores)[past] = Over(weight[past], Summed(weight))
    BY <1>1, Zenon DEF ChanceOf
  <2> QED BY <1>2, <2>1, Zenon DEF TermsOf
<1>4. weight = [past \in DOMAIN scores |->
                  Exp(Minus(scores[past],
                            Max({scores[p] : p \in DOMAIN scores} \cup {NEG_INFINITY})))]
  BY <1>1, Zenon DEF WeightOf
<1>5. Attended(shape, scores, gate, values, kvHead)[c]
        = Times(Summed([past \in DOMAIN scores |-> Times(Over(weight[past], Summed(weight)),
                                            values[RowBase(shape, past, kvHead) + c])]),
                Sigmoid(gate[c]))
  BY <1>4, Zenon DEF Attended
<1> QED BY <1>3, <1>5, Zenon DEF HeadOutput

LEMMA GatheredIs ==
  ASSUME NEW shape, IsScan(shape), NEW chunk, IsChunk(shape, chunk), NEW queries, NEW gates,
         NEW keys, NEW values, NEW accumulator,
         Summarized(shape, chunk, queries, keys, values, accumulator),
         NEW mixed, ScannedTo(shape, queries, gates, keys, values, mixed, chunk.first)
  PROVE  ScannedTo(shape, queries, gates, keys, values,
                   Gathered(shape, chunk, accumulator, gates, mixed), chunk.first + chunk.rows)
<1>1. PICK after : after = Gathered(shape, chunk, accumulator, gates, mixed)
  OBVIOUS
<1>2. PICK n \in Nat : n = shape.seq
  BY DEF IsScan
<1>3. PICK a \in Nat : a = shape.queryHeads
  BY DEF IsScan
<1>4. PICK b \in Nat : b = shape.headDim
  BY DEF IsScan
<1>5. DOMAIN mixed = Indices((n * a) * b)
  BY <1>2, <1>3, <1>4, ArrayDomain, Zenon DEF ScannedTo
<1>6. IsArray(after, (n * a) * b)
  BY <1>1, <1>5 DEF Gathered, IsArray
<1>7. PICK first \in Nat : first = chunk.first
  BY DEF IsChunk, Indices
<1>8. PICK rowCount \in Nat : rowCount = chunk.rows
  BY RowsPerChunkIs DEF IsChunk
<1>9. first + rowCount <= n
  BY <1>2, <1>7, <1>8 DEF IsChunk
<1>10. ASSUME NEW t \in Indices(first + rowCount), NEW h \in Indices(a), NEW c \in Indices(b)
       PROVE  after[(t * a + h) * b + c]
                = HeadOutput(shape, queries[t][h], gates[t][h], keys, values, h \div GroupSize(shape),
                             shape.existing + t + 1)[c]
  <2>1. PICK i : i = (t * a + h) * b + c
    OBVIOUS
  <2>2. t \in Indices(n) /\ t \in Nat /\ t < first + rowCount
    BY <1>9 DEF Indices
  <2>3. /\ i \in Indices((n * a) * b) /\ i % b = c
        /\ i = t * (a * b) + (h * b + c) /\ h * b + c \in Indices(a * b)
    <3>1. t \in Indices(n)
      BY <2>2
    <3> QED BY ONLY n \in Nat, a \in Nat, b \in Nat, <3>1, h \in Indices(a), c \in Indices(b), <2>1, NestedJoin
  <2>4. PICK w \in Nat : w = a * b
    OBVIOUS
  <2>5. PICK j \in Indices(w) : j = h * b + c
    BY <2>3, <2>4
  <2>6. i \div w = t /\ i % w = j
    <3>1. i = t * w + j
      BY <2>3, <2>4, <2>5
    <3> QED BY <2>2, <3>1, IndexJoin
  <2>7. j \div b = h
    BY <2>5, IndexJoin
  <2>8. CASE t < first
    <3>1. t \notin first..(first + rowCount - 1) /\ t \in Indices(first)
      BY <2>2, <2>8 DEF Indices
    <3>2. after[i] = mixed[i]
      BY <1>1, <1>3, <1>4, <1>5, <1>7, <1>8, <2>3, <2>4, <2>6, <3>1, Zenon DEF Gathered
    <3> QED BY <1>3, <1>4, <1>7, <2>1, <3>1, <3>2, Zenon DEF ScannedTo
  <2>9. CASE ~(t < first)
    <3>1. t \in first..(first + rowCount - 1)
      BY <2>2, <2>9
    <3>2. PICK row \in Indices(rowCount) : row = t - first
      BY <2>2, <2>9 DEF Indices
    <3>3. PICK kvHead \in Indices(shape.kvHeads) : kvHead = h \div GroupSize(shape)
      BY <1>3, HeadOfGroup
    <3>4. PICK lane \in Indices(GroupSize(shape)) : lane = h % GroupSize(shape)
      BY <1>3, HeadOfGroup
    <3>5. h = kvHead * GroupSize(shape) + lane
      BY <1>3, <3>3, <3>4, HeadOfGroup, Zenon
    <3>6. after[i] = Times(accumulator[SumOf(shape, row, kvHead, c, lane)], Sigmoid(gates[t][h][c]))
      <4>1. after[i] = Times(accumulator[(row * shape.kvHeads + kvHead) * AccumulatorStride(shape)
                                         + c * GroupSize(shape) + lane],
                             Sigmoid(gates[t][h][c]))
        BY <1>1, <1>3, <1>4, <1>5, <1>7, <1>8, <2>3, <2>4, <2>6, <2>7, <3>1, <3>2, <3>3, <3>4, Zenon
           DEF Gathered
      <4> QED BY <4>1, Zenon DEF SumOf, PlaneOf
    <3>7. PICK scores : scores = ScoreOf(shape, chunk, queries, keys, row, kvHead, lane)
      OBVIOUS
    <3>8. accumulator[SumOf(shape, row, kvHead, c, lane)]
            = Summed(TermsOf(shape, ChanceOf(scores), values, kvHead, c))
      BY <1>4, <1>8, <3>7, Zenon DEF Summarized
    <3>9. chunk.first + row = t
      BY <1>7, <2>2, <3>2
    <3>10. scores = [past \in Indices(shape.existing + t + 1) |->
                       Score(shape, queries[t][h], keys, past, kvHead)]
      BY <3>5, <3>7, <3>9, Zenon DEF ScoreOf, SeenBy
    <3>11. HeadOutput(shape, queries[t][h], gates[t][h], keys, values, kvHead,
                      shape.existing + t + 1)[c]
             = Times(Summed(TermsOf(shape, ChanceOf(scores), values, kvHead, c)),
                     Sigmoid(gates[t][h][c]))
      <4>1. c \in Indices(shape.headDim)
        BY <1>4
      <4> QED BY <3>10, <4>1, HeadOutputIs
    <3> QED BY <2>1, <3>3, <3>6, <3>8, <3>11, Zenon
  <2> QED BY <2>8, <2>9
<1> QED BY <1>1, <1>2, <1>3, <1>4, <1>6, <1>7, <1>8, <1>10, Zenon DEF ScannedTo

-----------------------------------------------------------------------------
(***************************************************************************)
(* What the other kernels make of a row.                                   *)
(***************************************************************************)
LEMMA RowAt ==
  ASSUME NEW a, NEW r, NEW w, NEW c \in Indices(w)
  PROVE  Row(a, r, w)[c] = a[r * w + c]
BY RowArray

LEMMA RowIs ==
  ASSUME NEW a, NEW r, NEW w, NEW y, IsArray(y, w), \A c \in Indices(w) : a[r * w + c] = y[c]
  PROVE  Row(a, r, w) = y
<1>1. ASSUME NEW c \in Indices(w) PROVE Row(a, r, w)[c] = y[c]
  BY RowAt
<1>2. IsArray(Row(a, r, w), w)
  BY RowArray
<1> QED BY <1>1, <1>2, SameArray, Zenon

LEMMA ForwardIs ==
  ASSUME NEW m, IsShape(m), NEW n \in Nat, NEW xs, IsArray(xs, n * m.columns), NEW spread
  PROVE  /\ IsArray(ForwardRows(m, xs, n, spread), n * m.rows)
         /\ \A r \in Indices(n) :
              Row(ForwardRows(m, xs, n, spread), r, m.rows) = ProductRow(m, Row(xs, r, m.columns))
<1>1. IsProduct(m, xs, n, ForwardRows(m, xs, n, spread))
  BY ForwardRowsIs
<1>2. \A r \in Indices(n) :
        Row(ForwardRows(m, xs, n, spread), r, m.rows) = ProductRow(m, Row(xs, r, m.columns))
  BY <1>1, RowOfProduct
<1> QED BY <1>1, <1>2 DEF IsProduct

LEMMA NormedRowsIs ==
  ASSUME NEW w \in Nat, w = file.config.hidden, NEW n \in Nat, NEW xs, IsArray(xs, n * w), NEW weight
  PROVE  /\ IsArray(NormedRows(xs, n, weight), n * w)
         /\ \A r \in Indices(n) : Row(NormedRows(xs, n, weight), r, w) = RmsNorm(Row(xs, r, w), weight)
<1>1. PICK normed : normed = NormedRows(xs, n, weight)
  OBVIOUS
<1>2. normed = [i \in Indices(n * w) |-> RmsNorm(Slice(xs, (i \div w) * w, w), weight)[i % w]]
  <2>1. DOMAIN xs = Indices(n * w)
    BY ArrayDomain, Zenon
  <2>2. \A i \in Indices(n * w) : i \div w \in Indices(n)
    BY IndexSplit
  <2>3. \A i \in Indices(n * w) :
          [r \in Indices(n) |-> RmsNorm(Slice(xs, r * w, w), weight)][i \div w][i % w]
            = RmsNorm(Slice(xs, (i \div w) * w, w), weight)[i % w]
    BY <2>2, Zenon
  <2> QED BY <1>1, <2>1, <2>3, Zenon DEF NormedRows
<1>3. IsArray(normed, n * w)
  BY <1>2 DEF IsArray
<1>4. ASSUME NEW r \in Indices(n)
      PROVE  Row(normed, r, w) = RmsNorm(Row(xs, r, w), weight)
  <2>1. PICK vector : vector = Row(xs, r, w)
    OBVIOUS
  <2>2. DOMAIN vector = Indices(w)
    <3>1. IsArray(vector, w)
      BY <2>1, RowArray
    <3> QED BY <3>1, ArrayDomain, Zenon
  <2>3. IsArray(RmsNorm(vector, weight), w)
    BY <2>2 DEF RmsNorm, IsArray
  <2>4. ASSUME NEW c \in Indices(w)
        PROVE  normed[r * w + c] = RmsNorm(vector, weight)[c]
    <3>1. r * w + c \in Indices(n * w) /\ (r * w + c) \div w = r /\ (r * w + c) % w = c
      BY ONLY n \in Nat, w \in Nat, r \in Indices(n), c \in Indices(w), IndexJoin
    <3> QED BY <1>2, <2>1, <3>1, Zenon DEF Row
  <2> QED BY <2>1, <2>3, <2>4, RowIs
<1> QED BY <1>1, <1>3, <1>4, Zenon

LEMMA AddedRowsAre ==
  ASSUME NEW n \in Nat, NEW w \in Nat, NEW xs, IsArray(xs, n * w), NEW ys,
         NEW sums, sums = [i \in DOMAIN xs |-> Plus(xs[i], ys[i])]
  PROVE  /\ IsArray(sums, n * w)
         /\ \A r \in Indices(n) : Row(sums, r, w) = SumRow(Row(xs, r, w), Row(ys, r, w), w)
<1>1. DOMAIN xs = Indices(n * w)
  BY ArrayDomain, Zenon
<1>2. IsArray(sums, n * w)
  BY <1>1 DEF IsArray
<1>3. ASSUME NEW r \in Indices(n)
      PROVE  Row(sums, r, w) = SumRow(Row(xs, r, w), Row(ys, r, w), w)
  <2>1. IsArray(SumRow(Row(xs, r, w), Row(ys, r, w), w), w)
    BY DEF SumRow, IsArray
  <2>2. ASSUME NEW c \in Indices(w)
        PROVE  sums[r * w + c] = SumRow(Row(xs, r, w), Row(ys, r, w), w)[c]
    <3>1. r * w + c \in Indices(n * w)
      BY IndexJoin
    <3>2. Row(xs, r, w)[c] = xs[r * w + c] /\ Row(ys, r, w)[c] = ys[r * w + c]
      BY RowAt
    <3> QED BY <1>1, <3>1, <3>2, Zenon DEF SumRow
  <2> QED BY <2>1, <2>2, RowIs
<1> QED BY <1>2, <1>3

LEMMA QuotientIs ==
  ASSUME NEW n \in Nat \ {0}, NEW w \in Nat
  PROVE  (n * w) \div n = w
<1>1. 0 \in Indices(n) /\ w \in Indices(w + 1) /\ w + 1 \in Nat
  BY DEF Indices
<1>2. (w * n + 0) \div n = w
  BY <1>1, IndexJoin
<1>3. w * n + 0 = n * w
  OBVIOUS
<1> QED BY <1>2, <1>3, Zenon

LEMMA ActivatedIs ==
  ASSUME NEW n \in Nat \ {0}, NEW w \in Nat, NEW gateUp, IsArray(gateUp, n * (2 * w))
  PROVE  /\ IsArray(Activated(gateUp, n), n * w)
         /\ \A r \in Indices(n) :
              Row(Activated(gateUp, n), r, w) = ActivatedRow(Row(gateUp, r, 2 * w), w)
<1>1. PICK after : after = Activated(gateUp, n)
  OBVIOUS
<1>2. Width(gateUp) \div (2 * n) = w
  <2>1. n * (2 * w) \in Nat /\ n * (2 * w) = (2 * n) * w /\ 2 * n \in Nat \ {0}
    OBVIOUS
  <2>2. Width(gateUp) = n * (2 * w)
    BY <2>1, ArrayDomain, WidthIs, Zenon
  <2>3. ((2 * n) * w) \div (2 * n) = w
    BY <2>1, QuotientIs, Zenon
  <2> QED BY <2>1, <2>2, <2>3, Zenon
<1>3. after = [i \in Indices(n * w) |->
                 Times(Silu(gateUp[(i \div w) * 2 * w + (i % w)]),
                       gateUp[(i \div w) * 2 * w + (i % w) + w])]
  BY <1>1, <1>2, Zenon DEF Activated
<1>4. IsArray(after, n * w)
  BY <1>3 DEF IsArray
<1>5. ASSUME NEW r \in Indices(n)
      PROVE  Row(after, r, w) = ActivatedRow(Row(gateUp, r, 2 * w), w)
  <2>1. IsArray(ActivatedRow(Row(gateUp, r, 2 * w), w), w)
    BY DEF ActivatedRow, IsArray
  <2>2. ASSUME NEW c \in Indices(w)
        PROVE  after[r * w + c] = ActivatedRow(Row(gateUp, r, 2 * w), w)[c]
    <3>1. r * w + c \in Indices(n * w) /\ (r * w + c) \div w = r /\ (r * w + c) % w = c
      BY IndexJoin
    <3>3. after[r * w + c] = Times(Silu(gateUp[r * 2 * w + c]), gateUp[r * 2 * w + c + w])
      BY <1>3, <3>1, Zenon
    <3>4. /\ r \in Nat /\ c \in Indices(2 * w) /\ c + w \in Indices(2 * w)
          /\ r * 2 * w + c = r * (2 * w) + c /\ r * 2 * w + c + w = r * (2 * w) + (c + w)
      BY DEF Indices
    <3>5. /\ Row(gateUp, r, 2 * w)[c] = gateUp[r * 2 * w + c]
          /\ Row(gateUp, r, 2 * w)[c + w] = gateUp[r * 2 * w + c + w]
      <4>1. /\ Row(gateUp, r, 2 * w)[c] = gateUp[r * (2 * w) + c]
            /\ Row(gateUp, r, 2 * w)[c + w] = gateUp[r * (2 * w) + (c + w)]
        <5>1. PICK v : v = 2 * w
          OBVIOUS
        <5>2. c \in Indices(v) /\ c + w \in Indices(v)
          BY <3>4, <5>1
        <5>3. Row(gateUp, r, v)[c] = gateUp[r * v + c]
          BY <5>2, RowAt
        <5>4. Row(gateUp, r, v)[c + w] = gateUp[r * v + (c + w)]
          BY <5>2, RowAt
        <5> QED BY <5>1, <5>3, <5>4, Zenon
      <4> QED BY <3>4, <4>1
    <3> QED BY <3>3, <3>5, Zenon DEF ActivatedRow
  <2> QED BY <2>1, <2>2, RowIs
<1> QED BY <1>1, <1>4, <1>5, Zenon

LEMMA RunExpertIs ==
  ASSUME NEW expert, IsExpert(expert), NEW n \in Nat \ {0}, NEW xs,
         IsArray(xs, n * expert.gateUp.columns), NEW spread
  PROVE  /\ IsArray(RunExpert(expert, xs, n, spread), n * expert.down.rows)
         /\ \A r \in Indices(n) :
              Row(RunExpert(expert, xs, n, spread), r, expert.down.rows)
                = ExpertRow(expert, Row(xs, r, expert.gateUp.columns))
<1>1. PICK gateUp : gateUp = ForwardRows(expert.gateUp, xs, n, spread)
  OBVIOUS
<1>2. PICK w \in Nat : w = expert.down.columns
  BY DEF IsExpert, IsShape
<1>3. /\ IsArray(gateUp, n * (2 * w))
      /\ \A r \in Indices(n) :
           Row(gateUp, r, 2 * w) = ProductRow(expert.gateUp, Row(xs, r, expert.gateUp.columns))
  <2>1. /\ IsArray(gateUp, n * expert.gateUp.rows)
        /\ \A r \in Indices(n) :
             Row(gateUp, r, expert.gateUp.rows)
               = ProductRow(expert.gateUp, Row(xs, r, expert.gateUp.columns))
    BY <1>1, ForwardIs, Zenon DEF IsExpert
  <2>2. expert.gateUp.rows = 2 * w
    BY <1>2 DEF IsExpert
  <2> QED BY <2>1, <2>2, Zenon
<1>4. PICK activated : activated = Activated(gateUp, n)
  OBVIOUS
<1>5. /\ IsArray(activated, n * w)
      /\ \A r \in Indices(n) : Row(activated, r, w) = ActivatedRow(Row(gateUp, r, 2 * w), w)
  BY <1>3, <1>4, ActivatedIs
<1>6. RunExpert(expert, xs, n, spread) = ForwardRows(expert.down, activated, n, spread)
  BY <1>1, <1>4, Zenon DEF RunExpert
<1>7. /\ IsArray(ForwardRows(expert.down, activated, n, spread), n * expert.down.rows)
      /\ \A r \in Indices(n) :
           Row(ForwardRows(expert.down, activated, n, spread), r, expert.down.rows)
             = ProductRow(expert.down, Row(activated, r, w))
  BY <1>2, <1>5, ForwardIs, Zenon DEF IsExpert
<1>8. \A r \in Indices(n) : ProductRow(expert.down, Row(activated, r, w))
                              = ExpertRow(expert, Row(xs, r, expert.gateUp.columns))
  BY <1>2, <1>3, <1>5, Zenon DEF ExpertRow
<1> QED BY <1>6, <1>7, <1>8, Zenon

\* A row's place among those its expert is given, counted from 0.
LEMMA PlaceBelow ==
  ASSUME NEW S, IsFiniteSet(S), S \subseteq Nat
  PROVE  /\ Cardinality(S) \in Nat
         /\ \A x \in S : Cardinality({y \in S : y < x}) \in Indices(Cardinality(S))
         /\ \A x, z \in S : Cardinality({y \in S : y < x}) = Cardinality({y \in S : y < z}) => x = z
<1>1. ASSUME NEW x \in S
      PROVE  /\ Cardinality({y \in S : y < x}) \in Nat
             /\ Cardinality({y \in S : y <= x}) = Cardinality({y \in S : y < x}) + 1
  <2>1. PICK T : T = {y \in S : y < x}
    OBVIOUS
  <2>2. IsFiniteSet(T) /\ x \notin T
    <3>1. T \subseteq S
      BY <2>1
    <3>2. IsFiniteSet(T)
      BY <3>1, FS_Subset
    <3> QED BY <2>1, <3>2
  <2>3. {y \in S : y <= x} = T \cup {x}
    <3>1. \A y \in S : y \in Nat
      OBVIOUS
    <3>2. \A y \in S : y <= x <=> (y < x \/ y = x)
      BY <3>1
    <3> QED BY <2>1, <3>2
  <2>4. Cardinality(T \cup {x}) = Cardinality(T) + 1 /\ Cardinality(T) \in Nat
    BY <2>2, FS_AddElement, FS_CardinalityType
  <2> QED BY <2>1, <2>3, <2>4, Zenon
<1>2. PICK N \in Nat : N = Cardinality(S)
  BY FS_CardinalityType
<1>3. /\ \A x \in S : Cardinality({y \in S : y <= x}) \in 1..N
      /\ \A x, z \in S : x < z => Cardinality({y \in S : y <= x}) < Cardinality({y \in S : y <= z})
  BY <1>2, PlaceIs
<1>4. ASSUME NEW x \in S PROVE Cardinality({y \in S : y < x}) \in Indices(N)
  <2>1. PICK m \in Nat : m = Cardinality({y \in S : y < x})
    BY <1>1
  <2>2. m + 1 \in 1..N
    <3>1. m + 1 = Cardinality({y \in S : y <= x})
      BY <1>1, <2>1
    <3> QED BY <1>3, <3>1
  <2>3. m \in Indices(N)
    BY <2>2 DEF Indices
  <2> QED BY <2>1, <2>3
<1>5. ASSUME NEW x \in S, NEW z \in S, Cardinality({y \in S : y < x}) = Cardinality({y \in S : y < z})
      PROVE  x = z
  <2>1. x \in Nat /\ z \in Nat
    OBVIOUS
  <2>2. Cardinality({y \in S : y <= x}) = Cardinality({y \in S : y <= z})
    BY <1>1, <1>5
  <2>3. PICK m \in 1..N : m = Cardinality({y \in S : y <= x})
    BY <1>3
  <2>4. ~(x < z) /\ ~(z < x)
    BY <1>3, <2>2, <2>3
  <2> QED BY <2>1, <2>4
<1> QED BY <1>2, <1>4, <1>5

LEMMA TokenMajorIs ==
  ASSUME NEW hidden \in Nat, NEW experts, NEW routes, IsRouted(experts, hidden, routes, 1), NEW flat,
         IsArray(flat, hidden), NEW i, i \in DOMAIN routes[0].experts, NEW c \in Indices(hidden)
  PROVE  TokenMajorValue(experts, flat, routes, 0, i)[c]
           = ExpertRow(experts[routes[0].experts[i]], Row(flat, 0, hidden))[c]
<1>1. PICK expert : expert = experts[routes[0].experts[i]]
  OBVIOUS
<1>2. 0 \in Indices(1) /\ 1 * hidden = hidden /\ 0 * hidden + c = c
  BY DEF Indices
<1>3. IsExpert(expert) /\ expert.gateUp.columns = hidden /\ expert.down.rows = hidden
  BY <1>1, <1>2, Zenon DEF IsRouted
<1>4. PICK after : after = RunExpert(expert, flat, 1, "pool")
  OBVIOUS
<1>5. Row(after, 0, hidden) = ExpertRow(expert, Row(flat, 0, hidden))
  <2>1. IsArray(flat, 1 * expert.gateUp.columns) /\ 1 \in Nat \ {0}
    BY <1>2, <1>3
  <2>2. \A r \in Indices(1) : Row(after, r, expert.down.rows)
                                = ExpertRow(expert, Row(flat, r, expert.gateUp.columns))
    BY <1>3, <1>4, <2>1, RunExpertIs, Zenon
  <2> QED BY <1>2, <1>3, <2>2, Zenon
<1>6. Row(after, 0, hidden)[c] = after[c]
  <2>1. Row(after, 0, hidden)[c] = after[0 * hidden + c]
    BY RowAt
  <2> QED BY <1>2, <2>1, Zenon
<1> QED BY <1>1, <1>4, <1>5, <1>6, Zenon DEF TokenMajorValue

LEMMA GroupedIs ==
  ASSUME NEW hidden \in Nat, NEW n \in Nat, NEW experts, NEW routes,
         IsRouted(experts, hidden, routes, n), NEW flat, IsArray(flat, n * hidden),
         NEW row \in Indices(n), NEW i, i \in DOMAIN routes[row].experts
  PROVE  GroupedValue(experts, flat, hidden, routes, row, i)
           = ExpertRow(experts[routes[row].experts[i]], Row(flat, row, hidden))
<1> DEFINE group == Assigned(routes, routes[row].experts[i])
           place(r) == Cardinality({other \in group : other < r})
           rowAt(k) == CHOOSE r \in group : place(r) = k
<1>1. PICK expert : expert = experts[routes[row].experts[i]]
  OBVIOUS
<1>2. IsExpert(expert) /\ expert.gateUp.columns = hidden /\ expert.down.rows = hidden
  BY <1>1, Zenon DEF IsRouted
<1>3. row \in group /\ group \subseteq Indices(n)
  <2>1. DOMAIN routes = Indices(n)
    BY DEF IsRouted
  <2> QED BY <2>1 DEF Assigned
<1>4. IsFiniteSet(group) /\ group \subseteq Nat
  <2>1. IsFiniteSet(Indices(n))
    BY FS_Interval DEF Indices
  <2>2. Indices(n) \subseteq Nat
    BY DEF Indices
  <2> QED BY <1>3, <2>1, <2>2, FS_Subset
<1>5. PICK k \in Nat \ {0} : k = Cardinality(group) /\ place(row) \in Indices(k)
  <2>1. PICK k \in Nat : k = Cardinality(group)
    BY <1>4, FS_CardinalityType
  <2>2. \A x \in group : place(x) \in Indices(k)
    BY <1>4, <2>1, PlaceBelow
  <2>3. PICK q \in Indices(k) : q = place(row)
    BY <1>3, <2>2
  <2>4. k # 0
    BY <2>3 DEF Indices
  <2> QED BY <2>1, <2>3, <2>4
<1>6. PICK p \in Indices(k) : p = place(row)
  BY <1>5
<1>7. rowAt(p) = row
  <2>1. rowAt(p) \in group /\ place(rowAt(p)) = p
    BY <1>3, <1>6, Zenon
  <2>2. \A x, z \in group : place(x) = place(z) => x = z
    BY <1>4, PlaceBelow
  <2> QED BY <1>3, <1>6, <2>1, <2>2, Zenon
<1>8. PICK inputs : inputs = [j \in Indices(k * hidden) |->
                               flat[rowAt(j \div hidden) * hidden + (j % hidden)]]
  OBVIOUS
<1>9. GroupedValue(experts, flat, hidden, routes, row, i)
        = Slice(RunExpert(expert, inputs, k, "caller"), p * hidden, hidden)
  BY <1>1, <1>5, <1>6, <1>8, Zenon DEF GroupedValue
<1> HIDE DEF place
<1>10. Row(inputs, p, hidden) = Row(flat, row, hidden)
  <2>1. ASSUME NEW c \in Indices(hidden)
        PROVE  inputs[p * hidden + c] = Row(flat, row, hidden)[c]
    <3>1. /\ p * hidden + c \in Indices(k * hidden)
          /\ (p * hidden + c) \div hidden = p /\ (p * hidden + c) % hidden = c
      BY IndexJoin
    <3>2. Row(flat, row, hidden)[c] = flat[row * hidden + c]
      BY RowAt
    <3> QED BY <1>7, <1>8, <3>1, <3>2, Zenon
  <2>2. IsArray(Row(flat, row, hidden), hidden)
    BY RowArray
  <2> QED BY <2>1, <2>2, RowIs
<1>11. IsArray(inputs, k * expert.gateUp.columns)
  BY <1>2, <1>8 DEF IsArray
<1>12. \A r \in Indices(k) : Row(RunExpert(expert, inputs, k, "caller"), r, expert.down.rows)
                               = ExpertRow(expert, Row(inputs, r, expert.gateUp.columns))
  BY <1>2, <1>11, RunExpertIs, Zenon
<1> QED BY <1>1, <1>2, <1>9, <1>10, <1>12, Zenon DEF Row

LEMMA RoutedExpertsIs ==
  ASSUME NEW hidden \in Nat, NEW n \in Nat, NEW experts, NEW routes,
         IsRouted(experts, hidden, routes, n), NEW flat, IsArray(flat, n * hidden)
  PROVE  /\ IsArray(RoutedExperts(experts, flat, hidden, routes), n * hidden)
         /\ \A r \in Indices(n) :
              Row(RoutedExperts(experts, flat, hidden, routes), r, hidden)
                = RoutedRow(experts, hidden, Row(flat, r, hidden), routes[r])
<1> DEFINE value(row, i) == IF Width(routes) = 1 THEN TokenMajorValue(experts, flat, routes, row, i)
                            ELSE GroupedValue(experts, flat, hidden, routes, row, i)
<1>1. PICK after : after = RoutedExperts(experts, flat, hidden, routes)
  OBVIOUS
<1>2. DOMAIN flat = Indices(n * hidden) /\ Width(routes) = n
  BY ArrayDomain, WidthIs DEF IsRouted
<1>3. ASSUME NEW row \in Indices(n), NEW i \in DOMAIN routes[row].experts, NEW c \in Indices(hidden)
      PROVE  value(row, i)[c] = ExpertRow(experts[routes[row].experts[i]], Row(flat, row, hidden))[c]
  <2>1. CASE n = 1
    <3>1. row = 0 /\ 1 * hidden = hidden
      BY <2>1 DEF Indices
    <3>2. TokenMajorValue(experts, flat, routes, 0, i)[c]
            = ExpertRow(experts[routes[0].experts[i]], Row(flat, 0, hidden))[c]
      BY <2>1, <3>1, TokenMajorIs
    <3> QED BY <1>2, <2>1, <3>1, <3>2, Zenon
  <2>2. CASE n # 1
    <3>1. value(row, i) = GroupedValue(experts, flat, hidden, routes, row, i)
      BY <1>2, <2>2
    <3>2. GroupedValue(experts, flat, hidden, routes, row, i)
            = ExpertRow(experts[routes[row].experts[i]], Row(flat, row, hidden))
      BY GroupedIs
    <3> QED BY <3>1, <3>2, Zenon
  <2> QED BY <2>1, <2>2
<1>4. after = [j \in Indices(n * hidden) |->
                 Summed([i \in DOMAIN routes[j \div hidden].experts |->
                           Times(value(j \div hidden, i)[j % hidden],
                                 routes[j \div hidden].weights[i])])]
  BY <1>1, <1>2, Zenon DEF RoutedExperts
<1> HIDE DEF value
<1>5. IsArray(after, n * hidden)
  BY <1>4 DEF IsArray
<1>6. ASSUME NEW r \in Indices(n)
      PROVE  Row(after, r, hidden) = RoutedRow(experts, hidden, Row(flat, r, hidden), routes[r])
  <2>1. IsArray(RoutedRow(experts, hidden, Row(flat, r, hidden), routes[r]), hidden)
    BY DEF RoutedRow, IsArray
  <2>2. ASSUME NEW c \in Indices(hidden)
        PROVE  after[r * hidden + c] = RoutedRow(experts, hidden, Row(flat, r, hidden), routes[r])[c]
    <3>1. /\ r * hidden + c \in Indices(n * hidden)
          /\ (r * hidden + c) \div hidden = r /\ (r * hidden + c) % hidden = c
      BY IndexJoin
    <3>2. after[r * hidden + c] = Summed([i \in DOMAIN routes[r].experts |->
                                           Times(value(r, i)[c], routes[r].weights[i])])
      BY <1>4, <3>1, Zenon
    <3>3. [i \in DOMAIN routes[r].experts |-> Times(value(r, i)[c], routes[r].weights[i])]
            = [i \in DOMAIN routes[r].experts |->
                Times(ExpertRow(experts[routes[r].experts[i]], Row(flat, r, hidden))[c],
                      routes[r].weights[i])]
      BY <1>3, Zenon
    <3> QED BY <3>2, <3>3, Zenon DEF RoutedRow
  <2> QED BY <2>1, <2>2, RowIs
<1> QED BY <1>1, <1>5, <1>6, Zenon

LEMMA SharedExpertIs ==
  ASSUME NEW hidden \in Nat, NEW n \in Nat \ {0}, NEW experts, IsShape(experts.sharedGateUp),
         IsShape(experts.sharedDown), experts.sharedGateUp.rows = 2 * experts.sharedDown.columns,
         experts.sharedGateUp.columns = hidden, experts.sharedDown.rows = hidden,
         NEW flat, IsArray(flat, n * hidden)
  PROVE  /\ IsArray(SharedExpert(experts, flat, hidden, n), n * hidden)
         /\ \A r \in Indices(n) :
              Row(SharedExpert(experts, flat, hidden, n), r, hidden)
                = SharedRow(experts, hidden, Row(flat, r, hidden))
<1>1. PICK after : after = SharedExpert(experts, flat, hidden, n)
  OBVIOUS
<1>2. PICK expert : expert = [gateUp |-> experts.sharedGateUp, down |-> experts.sharedDown]
  OBVIOUS
<1>3. expert.gateUp = experts.sharedGateUp /\ expert.down = experts.sharedDown
  BY <1>2
<1>4. IsExpert(expert) /\ expert.gateUp.columns = hidden /\ expert.down.rows = hidden
  BY <1>3, Zenon DEF IsExpert
<1>5. PICK shared : shared = RunExpert(expert, flat, n, "pool")
  OBVIOUS
<1>6. \A r \in Indices(n) : Row(shared, r, hidden) = ExpertRow(expert, Row(flat, r, hidden))
  <2>1. IsArray(flat, n * expert.gateUp.columns)
    BY <1>4
  <2>2. \A r \in Indices(n) : Row(shared, r, expert.down.rows)
                                = ExpertRow(expert, Row(flat, r, expert.gateUp.columns))
    BY <1>4, <1>5, <2>1, RunExpertIs, Zenon
  <2> QED BY <1>4, <2>2, Zenon
<1>7. shared = Forward(experts.sharedDown,
                       Activated(Forward(experts.sharedGateUp, flat, n), n), n)
  BY <1>3, <1>5, Zenon DEF RunExpert, Forward
<1>8. after = [j \in Indices(n * hidden) |->
                 Times(shared[j],
                       Sigmoid(Summed([i \in Indices(hidden) |->
                                         Times(flat[(j \div hidden) * hidden + i],
                                               experts.sharedSelector[i])])))]
  <2>1. DOMAIN flat = Indices(n * hidden)
    BY ArrayDomain, Zenon
  <2> QED BY <1>1, <1>7, <2>1, Zenon DEF SharedExpert
<1>9. IsArray(after, n * hidden)
  BY <1>8 DEF IsArray
<1>10. ASSUME NEW r \in Indices(n)
       PROVE  Row(after, r, hidden) = SharedRow(experts, hidden, Row(flat, r, hidden))
  <2>1. IsArray(SharedRow(experts, hidden, Row(flat, r, hidden)), hidden)
    BY DEF SharedRow, IsArray
  <2>2. ASSUME NEW c \in Indices(hidden)
        PROVE  after[r * hidden + c] = SharedRow(experts, hidden, Row(flat, r, hidden))[c]
    <3>1. /\ r * hidden + c \in Indices(n * hidden)
          /\ (r * hidden + c) \div hidden = r /\ (r * hidden + c) % hidden = c
      BY IndexJoin
    <3>2. shared[r * hidden + c] = ExpertRow(expert, Row(flat, r, hidden))[c]
      <4>1. Row(shared, r, hidden)[c] = shared[r * hidden + c]
        BY RowAt
      <4> QED BY <1>6, <4>1, Zenon
    <3>3. [i \in Indices(hidden) |-> Times(flat[r * hidden + i], experts.sharedSelector[i])]
            = [i \in Indices(hidden) |-> Times(Row(flat, r, hidden)[i], experts.sharedSelector[i])]
      BY RowAt
    <3> QED BY <1>2, <1>8, <3>1, <3>2, <3>3, Zenon DEF SharedRow
  <2> QED BY <2>1, <2>2, RowIs
<1> QED BY <1>1, <1>9, <1>10, Zenon

\* A part of a row is a row of the array cut finer.
LEMMA NestedRow ==
  ASSUME NEW n \in Nat, NEW x \in Nat, NEW w \in Nat, NEW a, NEW r \in Indices(n), NEW h \in Indices(x)
  PROVE  Row(Row(a, r, x * w), h, w) = Row(a, r * x + h, w)
<1>1. IsArray(Row(a, r * x + h, w), w)
  BY RowArray
<1>2. ASSUME NEW c \in Indices(w)
      PROVE  Row(a, r, x * w)[h * w + c] = Row(a, r * x + h, w)[c]
  <2>1. PICK v \in Nat : v = x * w
    OBVIOUS
  <2>2. h * w + c \in Indices(v)
    BY <2>1, IndexJoin
  <2>3. Row(a, r, v)[h * w + c] = a[r * v + (h * w + c)]
    BY <2>2, RowAt
  <2>4. Row(a, r * x + h, w)[c] = a[(r * x + h) * w + c]
    BY RowAt
  <2>5. (r * x + h) * w + c = r * (x * w) + (h * w + c)
    BY NestedJoin
  <2> QED BY <2>1, <2>3, <2>4, <2>5, Zenon
<1> QED BY <1>1, <1>2, RowIs

\* Rows after rows.
LEMMA ConcatenatedIs ==
  ASSUME NEW m \in Nat, NEW n \in Nat, NEW w \in Nat, NEW a, IsArray(a, m * w), NEW b, IsArray(b, n * w)
  PROVE  /\ IsArray(Concatenated(a, b), (m + n) * w)
         /\ \A r \in Indices(m) : Row(Concatenated(a, b), r, w) = Row(a, r, w)
         /\ \A r \in Indices(n) : Row(Concatenated(a, b), m + r, w) = Row(b, r, w)
<1>1. PICK u \in Nat : u = m * w
  OBVIOUS
<1>2. PICK v \in Nat : v = n * w
  OBVIOUS
<1>3. Width(a) = u /\ Width(b) = v
  BY <1>1, <1>2, ArrayDomain, WidthIs, Zenon
<1>4. Concatenated(a, b) = [i \in Indices(u + v) |-> IF i < u THEN a[i] ELSE b[i - u]]
  BY <1>3, Zenon DEF Concatenated
<1>5. (m + n) * w = u + v
  BY <1>1, <1>2
<1>6. IsArray(Concatenated(a, b), (m + n) * w)
  BY <1>4, <1>5 DEF IsArray
<1>7. ASSUME NEW r \in Indices(m) PROVE Row(Concatenated(a, b), r, w) = Row(a, r, w)
  <2>1. ASSUME NEW c \in Indices(w) PROVE Concatenated(a, b)[r * w + c] = Row(a, r, w)[c]
    <3>1. PICK k \in Indices(u) : k = r * w + c
      BY <1>1, IndexJoin
    <3>2. k \in Indices(u + v) /\ k < u
      BY DEF Indices
    <3>3. Concatenated(a, b)[k] = a[k]
      BY <1>4, <3>2
    <3> QED BY <3>1, <3>3, RowAt
  <2>2. IsArray(Row(a, r, w), w)
    BY RowArray
  <2> QED BY <2>1, <2>2, RowIs
<1>8. ASSUME NEW r \in Indices(n) PROVE Row(Concatenated(a, b), m + r, w) = Row(b, r, w)
  <2>1. ASSUME NEW c \in Indices(w) PROVE Concatenated(a, b)[(m + r) * w + c] = Row(b, r, w)[c]
    <3>1. PICK k \in Indices(v) : k = r * w + c
      BY <1>2, IndexJoin
    <3>2. u + k \in Indices(u + v) /\ ~(u + k < u) /\ (u + k) - u = k
      BY DEF Indices
    <3>3. Concatenated(a, b)[u + k] = b[k]
      BY <1>4, <3>2
    <3>4. (m + r) * w + c = u + k
      <4>1. r \in Nat /\ c \in Nat
        BY DEF Indices
      <4> QED BY <1>1, <3>1, <4>1
    <3> QED BY <3>1, <3>3, <3>4, RowAt
  <2>2. IsArray(Row(b, r, w), w)
    BY RowArray
  <2> QED BY <2>1, <2>2, RowIs
<1> QED BY <1>6, <1>7, <1>8

LEMMA GatedNormIs ==
  ASSUME NEW heads, heads.value \in Nat, heads.valueDim \in Nat, NEW n \in Nat,
         NEW output, IsArray(output, n * ValueDim(heads)), NEW gates, NEW weight
  PROVE  /\ IsArray(GatedNorm(heads, output, gates, weight), n * ValueDim(heads))
         /\ \A r \in Indices(n) :
              Row(GatedNorm(heads, output, gates, weight), r, ValueDim(heads))
                = GatedNorm(heads, Row(output, r, ValueDim(heads)), Row(gates, r, ValueDim(heads)),
                            weight)
<1>1. PICK x \in Nat : x = heads.value
  OBVIOUS
<1>2. PICK w \in Nat : w = heads.valueDim
  OBVIOUS
<1>3. PICK v \in Nat : v = x * w
  OBVIOUS
<1>4. ValueDim(heads) = v
  BY <1>1, <1>2, <1>3, Zenon DEF ValueDim
<1>5. PICK after : after = GatedNorm(heads, output, gates, weight)
  OBVIOUS
<1>6. after = [i \in Indices(n * v) |->
                 Times(RmsNorm(Row(output, i \div w, w), weight)[i % w], Silu(gates[i]))]
  <2>1. DOMAIN output = Indices(n * v)
    BY <1>4, ArrayDomain, Zenon
  <2> QED BY <1>2, <1>5, <2>1, Zenon DEF GatedNorm, Row
<1>7. IsArray(after, n * v)
  BY <1>6 DEF IsArray
<1>8. ASSUME NEW r \in Indices(n)
      PROVE  Row(after, r, v) = GatedNorm(heads, Row(output, r, v), Row(gates, r, v), weight)
  <2>1. GatedNorm(heads, Row(output, r, v), Row(gates, r, v), weight)
          = [j \in Indices(v) |->
               Times(RmsNorm(Row(Row(output, r, v), j \div w, w), weight)[j % w],
                     Silu(Row(gates, r, v)[j]))]
    <3>1. DOMAIN Row(output, r, v) = Indices(v)
      <4>1. IsArray(Row(output, r, v), v)
        BY RowArray
      <4> QED BY <4>1, ArrayDomain, Zenon
    <3>2. \A a, k : Row(a, k, w) = Slice(a, k * w, w)
      BY DEF Row
    <3> QED BY <1>2, <3>1, <3>2, Zenon DEF GatedNorm
  <2>2. IsArray(GatedNorm(heads, Row(output, r, v), Row(gates, r, v), weight), v)
    BY <2>1 DEF IsArray
  <2>3. ASSUME NEW j \in Indices(v)
        PROVE  after[r * v + j] = GatedNorm(heads, Row(output, r, v), Row(gates, r, v), weight)[j]
    <3>1. PICK h \in Indices(x) : h = j \div w
      BY <1>3, IndexSplit
    <3>2. PICK c \in Indices(w) : c = j % w
      BY <1>3, IndexSplit
    <3>3. j = h * w + c
      BY <1>3, <3>1, <3>2, IndexSplit, Zenon
    <3>4. PICK i : i = (r * x + h) * w + c
      OBVIOUS
    <3>5. /\ i \in Indices((n * x) * w) /\ i \div w = r * x + h /\ i % w = c
          /\ i = r * (x * w) + (h * w + c)
      BY <3>4, NestedJoin
    <3>6. i = r * v + j /\ (n * x) * w = n * v
      BY <1>3, <3>3, <3>5
    <3>7. Row(Row(output, r, v), h, w) = Row(output, r * x + h, w)
      BY <1>3, NestedRow
    <3>8. Row(gates, r, v)[j] = gates[r * v + j]
      BY RowAt
    <3>9. after[i] = Times(RmsNorm(Row(output, r * x + h, w), weight)[c], Silu(gates[i]))
      BY <1>6, <3>5, <3>6, Zenon
    <3> QED BY <2>1, <3>1, <3>2, <3>6, <3>7, <3>8, <3>9, Zenon
  <2> QED BY <2>2, <2>3, RowIs
<1> QED BY <1>4, <1>5, <1>7, <1>8, Zenon

-----------------------------------------------------------------------------
(***************************************************************************)
(* The reference model's kernels, a row at a time.                         *)
(***************************************************************************)
LEMMA LinearIs ==
  ASSUME NEW m, IsDense(m), NEW n \in Nat, NEW xs
  PROVE  /\ IsArray(Linear(m, xs, n), n * m.rows)
         /\ \A r \in Indices(n) :
              Row(Linear(m, xs, n), r, m.rows) = LinearRow(m, Row(xs, r, m.columns))
<1>1. PICK w \in Nat : w = m.rows
  BY DEF IsDense
<1>2. PICK k \in Nat : k = m.columns
  BY DEF IsDense
<1>3. PICK after : after = Linear(m, xs, n)
  OBVIOUS
<1>4. after = [i \in Indices(n * w) |->
                 Rounded(m.dtype, Summed([c \in Indices(k) |->
                                    Times(xs[(i \div w) * k + c], m.blocks[(i % w) * k + c])]))]
  BY <1>1, <1>2, <1>3, Zenon DEF Linear
<1>5. IsArray(after, n * w)
  BY <1>4 DEF IsArray
<1>6. ASSUME NEW r \in Indices(n)
      PROVE  Row(after, r, w) = LinearRow(m, Row(xs, r, k))
  <2>1. IsArray(LinearRow(m, Row(xs, r, k)), w)
    BY <1>1 DEF LinearRow, IsArray
  <2>2. ASSUME NEW o \in Indices(w)
        PROVE  after[r * w + o] = LinearRow(m, Row(xs, r, k))[o]
    <3>1. /\ r * w + o \in Indices(n * w)
          /\ (r * w + o) \div w = r /\ (r * w + o) % w = o
      BY ONLY n \in Nat, w \in Nat, r \in Indices(n), o \in Indices(w), IndexJoin
    <3>2. [c \in Indices(k) |-> Times(xs[r * k + c], m.blocks[o * k + c])]
            = [c \in Indices(k) |-> Times(Row(xs, r, k)[c], m.blocks[o * k + c])]
      BY RowAt
    <3> QED BY <1>1, <1>2, <1>4, <3>1, <3>2, Zenon DEF LinearRow
  <2> QED BY <2>1, <2>2, RowIs
<1> QED BY <1>1, <1>2, <1>3, <1>5, <1>6, Zenon

LEMMA RoundedAllIs ==
  ASSUME NEW n \in Nat, NEW w \in Nat, NEW xs, IsArray(xs, n * w), NEW dtype
  PROVE  /\ IsArray(RoundedAll(dtype, xs), n * w)
         /\ \A r \in Indices(n) : Row(RoundedAll(dtype, xs), r, w) = RoundedRow(dtype, Row(xs, r, w), w)
<1>1. DOMAIN xs = Indices(n * w)
  BY ArrayDomain, Zenon
<1>2. IsArray(RoundedAll(dtype, xs), n * w)
  BY <1>1 DEF RoundedAll, IsArray
<1>3. ASSUME NEW r \in Indices(n)
      PROVE  Row(RoundedAll(dtype, xs), r, w) = RoundedRow(dtype, Row(xs, r, w), w)
  <2>1. IsArray(RoundedRow(dtype, Row(xs, r, w), w), w)
    BY DEF RoundedRow, IsArray
  <2>2. ASSUME NEW c \in Indices(w)
        PROVE  RoundedAll(dtype, xs)[r * w + c] = RoundedRow(dtype, Row(xs, r, w), w)[c]
    <3>1. r * w + c \in Indices(n * w)
      BY IndexJoin
    <3>2. Row(xs, r, w)[c] = xs[r * w + c]
      BY RowAt
    <3> QED BY <1>1, <3>1, <3>2, Zenon DEF RoundedAll, RoundedRow
  <2> QED BY <2>1, <2>2, RowIs
<1> QED BY <1>2, <1>3

LEMMA MlpIs ==
  ASSUME NEW hidden \in Nat, NEW expert, IsMlp(expert, hidden), NEW n \in Nat, NEW xs
  PROVE  /\ IsArray(Mlp(expert, xs, n), n * hidden)
         /\ \A r \in Indices(n) : Row(Mlp(expert, xs, n), r, hidden) = MlpRow(expert, Row(xs, r, hidden))
<1>1. PICK w \in Nat : w = expert.gate.rows
  BY DEF IsMlp, IsDense
<1>2. PICK gate : gate = Linear(expert.gate, xs, n)
  OBVIOUS
<1>3. PICK up : up = Linear(expert.up, xs, n)
  OBVIOUS
<1>4. /\ IsArray(gate, n * w)
      /\ \A r \in Indices(n) : Row(gate, r, w) = LinearRow(expert.gate, Row(xs, r, hidden))
  <2>1. IsDense(expert.gate) /\ expert.gate.columns = hidden
    BY DEF IsMlp
  <2>2. /\ IsArray(gate, n * expert.gate.rows)
        /\ \A r \in Indices(n) : Row(gate, r, expert.gate.rows)
                                   = LinearRow(expert.gate, Row(xs, r, expert.gate.columns))
    BY <1>2, <2>1, LinearIs, Zenon
  <2> QED BY <1>1, <2>1, <2>2, Zenon
<1>5. /\ IsArray(up, n * w)
      /\ \A r \in Indices(n) : Row(up, r, w) = LinearRow(expert.up, Row(xs, r, hidden))
  <2>1. IsDense(expert.up) /\ expert.up.columns = hidden /\ expert.up.rows = w
    BY <1>1 DEF IsMlp
  <2>2. /\ IsArray(up, n * expert.up.rows)
        /\ \A r \in Indices(n) : Row(up, r, expert.up.rows)
                                   = LinearRow(expert.up, Row(xs, r, expert.up.columns))
    BY <1>3, <2>1, LinearIs, Zenon
  <2> QED BY <2>1, <2>2, Zenon
<1>6. PICK inner : inner = MlpInner(expert, gate, up)
  OBVIOUS
<1>7. Mlp(expert, xs, n) = Linear(expert.down, inner, n)
  BY <1>2, <1>3, <1>6, Zenon DEF Mlp, MlpInner
<1>8. ASSUME NEW r \in Indices(n)
      PROVE  Row(inner, r, w) = MlpInner(expert, Row(gate, r, w), Row(up, r, w))
  <2>0. DOMAIN Row(gate, r, w) = Indices(w)
    <3>1. IsArray(Row(gate, r, w), w)
      BY RowArray
    <3> QED BY <3>1, ArrayDomain, Zenon
  <2>1. IsArray(MlpInner(expert, Row(gate, r, w), Row(up, r, w)), w)
    BY <2>0 DEF MlpInner, IsArray
  <2>2. ASSUME NEW c \in Indices(w)
        PROVE  inner[r * w + c] = MlpInner(expert, Row(gate, r, w), Row(up, r, w))[c]
    <3>1. r * w + c \in Indices(n * w)
      BY IndexJoin
    <3>2. Row(gate, r, w)[c] = gate[r * w + c] /\ Row(up, r, w)[c] = up[r * w + c]
      BY RowAt
    <3>3. r * w + c \in DOMAIN gate
      BY <1>4, <3>1, ArrayDomain, Zenon
    <3> QED BY <1>6, <2>0, <3>2, <3>3, Zenon DEF MlpInner
  <2> QED BY <2>1, <2>2, RowIs
<1>9. IsDense(expert.down) /\ expert.down.columns = w /\ expert.down.rows = hidden
  BY <1>1 DEF IsMlp
<1>10. /\ IsArray(Linear(expert.down, inner, n), n * hidden)
       /\ \A r \in Indices(n) : Row(Linear(expert.down, inner, n), r, hidden)
                                  = LinearRow(expert.down, Row(inner, r, w))
  <2>1. /\ IsArray(Linear(expert.down, inner, n), n * expert.down.rows)
        /\ \A r \in Indices(n) : Row(Linear(expert.down, inner, n), r, expert.down.rows)
                                  = LinearRow(expert.down, Row(inner, r, expert.down.columns))
    BY <1>9, LinearIs, Zenon
  <2> QED BY <1>9, <2>1, Zenon
<1> QED BY <1>4, <1>5, <1>7, <1>8, <1>10, Zenon DEF MlpRow

LEMMA SparseMoeIs ==
  ASSUME NEW hidden \in Nat, NEW n \in Nat, NEW experts, NEW shared, IsMlp(shared, hidden),
         NEW selector, IsDense(selector), selector.rows = 1, selector.columns = hidden,
         NEW routes, routes = [r \in Indices(n) |-> routes[r]], NEW flat, IsArray(flat, n * hidden)
  PROVE  /\ IsArray(SparseMoe(experts, shared, selector, flat, hidden, routes), n * hidden)
         /\ \A r \in Indices(n) :
              Row(SparseMoe(experts, shared, selector, flat, hidden, routes), r, hidden)
                = SparseRow(experts, shared, selector, hidden, Row(flat, r, hidden), routes[r])
<1>1. PICK after : after = SparseMoe(experts, shared, selector, flat, hidden, routes)
  OBVIOUS
<1>2. DOMAIN flat = Indices(n * hidden) /\ Width(routes) = n /\ DOMAIN routes = Indices(n)
  BY ArrayDomain, WidthIs
<1>3. PICK sharedOut : sharedOut = Mlp(shared, flat, n)
  OBVIOUS
<1>4. PICK selected : selected = Linear(selector, flat, n)
  OBVIOUS
<1>5. \A r \in Indices(n) : Row(sharedOut, r, hidden) = MlpRow(shared, Row(flat, r, hidden))
  BY <1>3, MlpIs
<1>6. ASSUME NEW r \in Indices(n)
      PROVE  selected[r] = LinearRow(selector, Row(flat, r, hidden))[0]
  <2>1. Row(selected, r, 1) = LinearRow(selector, Row(flat, r, hidden))
    <3>1. Row(selected, r, selector.rows) = LinearRow(selector, Row(flat, r, selector.columns))
      BY <1>4, LinearIs, Zenon
    <3> QED BY <3>1, Zenon
  <2>2. 0 \in Indices(1) /\ r \in Nat /\ r * 1 + 0 = r
    BY DEF Indices
  <2>3. Row(selected, r, 1)[0] = selected[r * 1 + 0]
    BY <2>2, RowAt
  <2> QED BY <2>1, <2>2, <2>3, Zenon
<1>7. \A r \in Indices(n) : \A i : i \in DOMAIN routes[r].experts =>
        [row \in DOMAIN routes |-> [k \in DOMAIN routes[row].experts |->
                  Mlp(experts[routes[row].experts[k]], Slice(flat, row * hidden, hidden), 1)]][r][i]
          = Mlp(experts[routes[r].experts[i]], Row(flat, r, hidden), 1)
  BY <1>2, Zenon DEF Row
<1>8. ASSUME NEW j \in Indices(n * hidden), NEW r \in Indices(n), r = j \div hidden
      PROVE  after[j] = Plus(Summed([i \in DOMAIN routes[r].experts |->
                               Times(Mlp(experts[routes[r].experts[i]], Row(flat, r, hidden), 1)
                                       [j % hidden], routes[r].weights[i])]),
                             Times(sharedOut[j], Sigmoid(selected[r])))
  <2> DEFINE value == [row \in DOMAIN routes |-> [k \in DOMAIN routes[row].experts |->
                  Mlp(experts[routes[row].experts[k]], Slice(flat, row * hidden, hidden), 1)]]
  <2>1. after[j] = Plus(Summed([i \in DOMAIN routes[r].experts |->
                                 Times(value[r][i][j % hidden], routes[r].weights[i])]),
                        Times(sharedOut[j], Sigmoid(selected[r])))
    BY <1>1, <1>2, <1>3, <1>4, <1>8, Zenon DEF SparseMoe
  <2>2. [i \in DOMAIN routes[r].experts |-> Times(value[r][i][j % hidden], routes[r].weights[i])]
          = [i \in DOMAIN routes[r].experts |->
               Times(Mlp(experts[routes[r].experts[i]], Row(flat, r, hidden), 1)[j % hidden],
                     routes[r].weights[i])]
    <3>1. \A i \in DOMAIN routes[r].experts :
            value[r][i] = Mlp(experts[routes[r].experts[i]], Row(flat, r, hidden), 1)
      BY <1>7
    <3> QED BY <3>1, Zenon
  <2> QED BY <2>1, <2>2, Zenon
<1>9. IsArray(after, n * hidden)
  BY <1>1, <1>2 DEF SparseMoe, IsArray
<1>10. ASSUME NEW r \in Indices(n)
       PROVE  Row(after, r, hidden)
                = SparseRow(experts, shared, selector, hidden, Row(flat, r, hidden), routes[r])
  <2>1. IsArray(SparseRow(experts, shared, selector, hidden, Row(flat, r, hidden), routes[r]), hidden)
    BY DEF SparseRow, IsArray
  <2>2. ASSUME NEW c \in Indices(hidden)
        PROVE  after[r * hidden + c]
                 = SparseRow(experts, shared, selector, hidden, Row(flat, r, hidden), routes[r])[c]
    <3>1. /\ r * hidden + c \in Indices(n * hidden)
          /\ (r * hidden + c) \div hidden = r /\ (r * hidden + c) % hidden = c
      BY ONLY n \in Nat, hidden \in Nat, r \in Indices(n), c \in Indices(hidden), IndexJoin
    <3>2. sharedOut[r * hidden + c] = MlpRow(shared, Row(flat, r, hidden))[c]
      <4>1. Row(sharedOut, r, hidden)[c] = sharedOut[r * hidden + c]
        BY RowAt
      <4> QED BY <1>5, <4>1, Zenon
    <3>3. after[r * hidden + c]
            = Plus(Summed([i \in DOMAIN routes[r].experts |->
                      Times(Mlp(experts[routes[r].experts[i]], Row(flat, r, hidden), 1)[c],
                            routes[r].weights[i])]),
                   Times(sharedOut[r * hidden + c], Sigmoid(selected[r])))
      BY <1>8, <3>1, Zenon
    <3> QED BY <1>6, <3>2, <3>3, Zenon DEF SparseRow
  <2> QED BY <2>1, <2>2, RowIs
<1> QED BY <1>1, <1>9, <1>10, Zenon

-----------------------------------------------------------------------------
(***************************************************************************)
(* What a file that loads is.                                              *)
(***************************************************************************)
LEMMA RowsBy ==
  ASSUME NEW n \in Nat, NEW w \in Nat, NEW y, \A r \in Indices(n) : IsArray(y[r], w),
         NEW a, a = [i \in Indices(n * w) |-> y[i \div w][i % w]]
  PROVE  RowsOf(a, n, w, y)
<1>1. IsArray(a, n * w)
  BY DEF IsArray
<1>2. ASSUME NEW r \in Indices(n) PROVE Row(a, r, w) = y[r]
  <2>0. PICK v : v = y[r]
    OBVIOUS
  <2>1. ASSUME NEW c \in Indices(w) PROVE a[r * w + c] = v[c]
    <3>1. /\ r * w + c \in Indices(n * w)
          /\ (r * w + c) \div w = r /\ (r * w + c) % w = c
      BY ONLY n \in Nat, w \in Nat, r \in Indices(n), c \in Indices(w), IndexJoin
    <3> QED BY <2>0, <3>1, Zenon
  <2>2. IsArray(v, w)
    BY <2>0
  <2>3. Row(a, r, w) = v
    <3>1. \A c \in Indices(w) : a[r * w + c] = v[c]
      BY <2>1
    <3> QED BY ONLY IsArray(v, w), <2>2, <3>1, RowIs
  <2> QED BY <2>0, <2>3
<1> QED BY <1>1, <1>2 DEF RowsOf

LEMMA SliceElements ==
  ASSUME NEW a, NEW base, NEW n
  PROVE  IsArray(Slice(a, base, n), n)
BY DEF Slice, IsArray

\* Rows that are normed.
LEMMA NormedAre ==
  ASSUME NEW n \in Nat, Hid(file) \in Nat, NEW xs, NEW y, RowsOf(xs, n, Hid(file), y), NEW weight
  PROVE  RowsOf(NormedRows(xs, n, weight), n, Hid(file), [r \in Indices(n) |-> RmsNorm(y[r], weight)])
<1>1. PICK w \in Nat : w = Hid(file)
  OBVIOUS
<1>2. w = file.config.hidden /\ IsArray(xs, n * w) /\ \A r \in Indices(n) : Row(xs, r, w) = y[r]
  BY <1>1 DEF RowsOf, Hid
<1>3. /\ IsArray(NormedRows(xs, n, weight), n * w)
      /\ \A r \in Indices(n) : Row(NormedRows(xs, n, weight), r, w) = RmsNorm(Row(xs, r, w), weight)
  BY <1>2, NormedRowsIs
<1> QED BY <1>1, <1>2, <1>3 DEF RowsOf

LEMMA ReferenceNormedAre ==
  ASSUME NEW n \in Nat, Hid(file) \in Nat, n = work.count, NEW xs, NEW y,
         RowsOf(xs, n, Hid(file), y), NEW name
  PROVE  RowsOf(ReferenceNorm(xs, name), n, Hid(file), [r \in Indices(n) |-> RefNorm(file, y[r], name)])
<1>1. PICK w \in Nat : w = Hid(file)
  OBVIOUS
<1>2. PICK normed : normed = NormedRows(xs, n, OneCentered(file.vectors[name]))
  OBVIOUS
<1>3. RowsOf(normed, n, w, [r \in Indices(n) |-> RmsNorm(y[r], OneCentered(file.vectors[name]))])
  BY <1>1, <1>2, NormedAre
<1>4. ReferenceNorm(xs, name) = RoundedAll(Typed(file), normed)
  BY <1>2 DEF ReferenceNorm, HiddenType, TensorOf, Typed
<1>5. IsArray(normed, n * w) /\ \A r \in Indices(n) :
        Row(normed, r, w) = RmsNorm(y[r], OneCentered(file.vectors[name]))
  BY <1>3 DEF RowsOf
<1>6. /\ IsArray(RoundedAll(Typed(file), normed), n * w)
      /\ \A r \in Indices(n) : Row(RoundedAll(Typed(file), normed), r, w)
                                 = RoundedRow(Typed(file), Row(normed, r, w), w)
  BY <1>5, RoundedAllIs
<1> QED BY <1>1, <1>4, <1>5, <1>6, Zenon DEF RowsOf, RefNorm

LEMMA EmbeddingsAre ==
  ASSUME NEW n \in Nat, n = work.count, Hid(file) \in Nat, weights = LW(file),
         LW(file).embedding.columns = Hid(file)
  PROVE  RowsOf(Embeddings, n, Hid(file),
                [r \in Indices(n) |-> WeightRow(LW(file).embedding, work.tokens[r + 1])])
<1>1. PICK w \in Nat : w = Hid(file)
  OBVIOUS
<1>2. PICK y : y = [r \in Indices(n) |-> WeightRow(LW(file).embedding, work.tokens[r + 1])]
  OBVIOUS
<1>3. \A r \in Indices(n) : IsArray(y[r], w)
  BY <1>1, <1>2, SliceElements DEF WeightRow
<1>4. Embeddings = [i \in Indices(n * w) |-> y[i \div w][i % w]]
  <2>1. \A i \in Indices(n * w) : i \div w \in Indices(n)
    BY ONLY n \in Nat, w \in Nat, IndexSplit
  <2>2. \A i \in Indices(n * w) :
          y[i \div w][i % w] = WeightRow(LW(file).embedding, work.tokens[i \div w + 1])[i % w]
    BY <1>2, <2>1, Zenon
  <2> QED BY <1>1, <2>2 DEF Embeddings, Hid
<1>5. RowsOf(Embeddings, n, w, y)
  BY <1>3, <1>4, RowsBy
<1> QED BY <1>1, <1>2, <1>5

LEMMA TargetHiddenIs ==
  ASSUME NEW n \in Nat, n = work.count, Hid(file) \in Nat
  PROVE  RowsOf(TargetHidden, n, Hid(file),
                [r \in Indices(n) |-> [j \in Indices(Hid(file)) |-> Hidden(work.tokens[r + 1])[j]]])
<1>1. PICK w \in Nat : w = Hid(file)
  OBVIOUS
<1>2. PICK y : y = [r \in Indices(n) |-> [j \in Indices(w) |-> Hidden(work.tokens[r + 1])[j]]]
  OBVIOUS
<1>3. \A r \in Indices(n) : IsArray(y[r], w)
  BY <1>2 DEF IsArray
<1>4. TargetHidden = [i \in Indices(n * w) |-> y[i \div w][i % w]]
  <2>1. \A i \in Indices(n * w) : i \div w \in Indices(n) /\ i % w \in Indices(w)
    BY ONLY n \in Nat, w \in Nat, IndexSplit
  <2>2. \A i \in Indices(n * w) :
          y[i \div w][i % w] = Hidden(work.tokens[i \div w + 1])[i % w]
    BY <1>2, <2>1, Zenon
  <2> QED BY <1>1, <2>2 DEF TargetHidden, Hid
<1>5. RowsOf(TargetHidden, n, w, y)
  BY <1>3, <1>4, RowsBy
<1> QED BY <1>1, <1>2, <1>5

\* Two rows of rows side by side.
LEMMA PairedAre ==
  ASSUME NEW n \in Nat, n = work.count, Hid(file) \in Nat, NEW a, NEW b, NEW y, NEW z,
         RowsOf(a, n, Hid(file), y), RowsOf(b, n, Hid(file), z)
  PROVE  RowsOf(Paired(a, b), n, 2 * Hid(file),
                [r \in Indices(n) |-> [j \in Indices(2 * Hid(file)) |->
                   IF j < Hid(file) THEN y[r][j] ELSE z[r][j - Hid(file)]]])
<1>1. PICK w \in Nat : w = Hid(file)
  OBVIOUS
<1>2. PICK u : u = [r \in Indices(n) |-> [j \in Indices(2 * w) |->
                      IF j < w THEN y[r][j] ELSE z[r][j - w]]]
  OBVIOUS
<1>3. PICK d \in Nat : d = 2 * w
  OBVIOUS
<1>4. \A r \in Indices(n) : IsArray(u[r], d)
  BY <1>2, <1>3 DEF IsArray
<1>5. 2 * n * w = n * d
  BY <1>3
<1>6. ASSUME NEW i \in Indices(n * d)
      PROVE  u[i \div d][i % d]
               = IF i % d < w THEN a[(i \div d) * w + (i % d)] ELSE b[(i \div d) * w + (i % d) - w]
  <2>1. PICK r \in Indices(n) : r = i \div d
    BY IndexSplit
  <2>2. PICK j \in Indices(d) : j = i % d
    BY IndexSplit
  <2>3. u[r][j] = IF j < w THEN y[r][j] ELSE z[r][j - w]
    BY <1>2, <1>3
  <2>4. CASE j < w
    <3>1. j \in Indices(w)
      BY <2>4, <1>3 DEF Indices
    <3>2. Row(a, r, w)[j] = a[r * w + j]
      BY <3>1, RowAt
    <3>3. Row(a, r, w) = y[r]
      BY <1>1 DEF RowsOf
    <3> QED BY <2>1, <2>2, <2>3, <2>4, <3>2, <3>3
  <2>5. CASE ~(j < w)
    <3>1. j - w \in Indices(w) /\ j \in Nat /\ r \in Nat
      BY <2>5, <1>3 DEF Indices
    <3>2. Row(b, r, w)[j - w] = b[r * w + (j - w)]
      BY <3>1, RowAt
    <3>3. Row(b, r, w) = z[r]
      BY <1>1 DEF RowsOf
    <3>4. r * w + (j - w) = r * w + j - w
      BY <3>1
    <3> QED BY <2>1, <2>2, <2>3, <2>5, <3>2, <3>3, <3>4
  <2> QED BY <2>4, <2>5
<1>7. Paired(a, b) = [i \in Indices(n * d) |-> u[i \div d][i % d]]
  <2>1. Paired(a, b) = [i \in Indices(n * d) |->
          IF i % d < w THEN a[(i \div d) * w + (i % d)] ELSE b[(i \div d) * w + (i % d) - w]]
    BY <1>1, <1>3, <1>5, Zenon DEF Paired, Hid
  <2> QED BY <1>6, <2>1, Zenon
<1>8. RowsOf(Paired(a, b), n, d, u)
  BY <1>4, <1>7, RowsBy
<1> QED BY <1>1, <1>2, <1>3, <1>8

LEMMA ProductArray ==
  ASSUME NEW m, NEW row
  PROVE  IsArray(ProductRow(m, row), m.rows) /\ IsArray(LinearRow(m, row), m.rows)
BY DEF ProductRow, LinearRow, IsArray

LEMMA ForwardAre ==
  ASSUME NEW n \in Nat, NEW m, NEW h, NEW w, MatrixIs(m, h, w), NEW xs, NEW y, RowsOf(xs, n, w, y),
         NEW spread
  PROVE  RowsOf(ForwardRows(m, xs, n, spread), n, h, [r \in Indices(n) |-> ProductRow(m, y[r])])
<1>1. IsShape(m) /\ m.rows = h /\ m.columns = w
  BY DEF MatrixIs
<1>2. IsArray(xs, n * m.columns) /\ \A r \in Indices(n) : Row(xs, r, w) = y[r]
  BY <1>1 DEF RowsOf
<1>3. /\ IsArray(ForwardRows(m, xs, n, spread), n * m.rows)
      /\ \A r \in Indices(n) :
           Row(ForwardRows(m, xs, n, spread), r, m.rows) = ProductRow(m, Row(xs, r, m.columns))
  BY <1>1, <1>2, ForwardIs
<1> QED BY <1>1, <1>2, <1>3, Zenon DEF RowsOf

LEMMA LinearAre ==
  ASSUME NEW n \in Nat, NEW m, NEW h, NEW w, DenseIs(m, h, w), NEW xs, NEW y, RowsOf(xs, n, w, y)
  PROVE  RowsOf(Linear(m, xs, n), n, h, [r \in Indices(n) |-> LinearRow(m, y[r])])
<1>1. IsDense(m) /\ m.rows = h /\ m.columns = w
  BY DEF DenseIs
<1>2. IsArray(xs, n * m.columns) /\ \A r \in Indices(n) : Row(xs, r, w) = y[r]
  BY <1>1 DEF RowsOf
<1>3. /\ IsArray(Linear(m, xs, n), n * m.rows)
      /\ \A r \in Indices(n) : Row(Linear(m, xs, n), r, m.rows) = LinearRow(m, Row(xs, r, m.columns))
  BY <1>1, LinearIs
<1> QED BY <1>1, <1>2, <1>3, Zenon DEF RowsOf

LEMMA RoundedAre ==
  ASSUME NEW n \in Nat, NEW w \in Nat, NEW xs, NEW y, RowsOf(xs, n, w, y), NEW dtype
  PROVE  RowsOf(RoundedAll(dtype, xs), n, w, [r \in Indices(n) |-> RoundedRow(dtype, y[r], w)])
<1>1. IsArray(xs, n * w) /\ \A r \in Indices(n) : Row(xs, r, w) = y[r]
  BY DEF RowsOf
<1>2. /\ IsArray(RoundedAll(dtype, xs), n * w)
      /\ \A r \in Indices(n) : Row(RoundedAll(dtype, xs), r, w) = RoundedRow(dtype, Row(xs, r, w), w)
  BY <1>1, RoundedAllIs
<1> QED BY <1>1, <1>2, Zenon DEF RowsOf

LEMMA SumsAre ==
  ASSUME NEW n \in Nat, NEW w \in Nat, NEW xs, NEW y, RowsOf(xs, n, w, y), NEW ys, NEW z,
         RowsOf(ys, n, w, z), NEW sums, sums = [i \in DOMAIN xs |-> Plus(xs[i], ys[i])]
  PROVE  RowsOf(sums, n, w, [r \in Indices(n) |-> SumRow(y[r], z[r], w)])
<1>1. IsArray(xs, n * w) /\ \A r \in Indices(n) : Row(xs, r, w) = y[r] /\ Row(ys, r, w) = z[r]
  BY DEF RowsOf
<1>2. /\ IsArray(sums, n * w)
      /\ \A r \in Indices(n) : Row(sums, r, w) = SumRow(Row(xs, r, w), Row(ys, r, w), w)
  BY <1>1, AddedRowsAre
<1> QED BY <1>1, <1>2, Zenon DEF RowsOf

\* The rows of what a layer or the predictor is given.
LEMMA PredictorInputIs ==
  ASSUME NEW n \in Nat, n = work.count, GoodFile(file), ~Ref(file), KindOf(file) = "predictor",
         weights = LW(file)
  PROVE  RowsOf(PredictorInput, n, Hid(file),
                [r \in Indices(n) |-> ProductRow(Matrix(file, "eh_proj"), PairRow(file, work.tokens[r + 1]))])
<1>1. Hid(file) \in Nat
  BY DEF GoodFile, GoodConfig, Hid
<1>2. MatrixIs(Matrix(file, "eh_proj"), Hid(file), 2 * Hid(file)) /\ LW(file).embedding.columns = Hid(file)
  BY DEF GoodFile, GoodGguf, MatrixIs
<1>3. PICK y : y = [r \in Indices(n) |-> RmsNorm(WeightRow(LW(file).embedding, work.tokens[r + 1]),
                                                   file.vectors["enorm"])]
  OBVIOUS
<1>4. PICK z : z = [r \in Indices(n) |-> RmsNorm([j \in Indices(Hid(file)) |-> Hidden(work.tokens[r + 1])[j]],
                                                 file.vectors["hnorm"])]
  OBVIOUS
<1>5. PICK a : a = NormedRows(Embeddings, n, file.vectors["enorm"])
  OBVIOUS
<1>6. PICK b : b = NormedRows(TargetHidden, n, file.vectors["hnorm"])
  OBVIOUS
<1>7. RowsOf(a, n, Hid(file), y)
  <2>1. PICK e : e = [r \in Indices(n) |-> WeightRow(LW(file).embedding, work.tokens[r + 1])]
    OBVIOUS
  <2>2. RowsOf(Embeddings, n, Hid(file), e)
    BY <1>1, <1>2, <2>1, EmbeddingsAre, Zenon
  <2>3. RowsOf(a, n, Hid(file), [r \in Indices(n) |-> RmsNorm(e[r], file.vectors["enorm"])])
    BY <1>1, <1>5, <2>2, NormedAre, Zenon
  <2>4. y = [r \in Indices(n) |-> RmsNorm(e[r], file.vectors["enorm"])]
    BY <1>3, <2>1, Zenon
  <2> QED BY <2>3, <2>4, Zenon
<1>8. RowsOf(b, n, Hid(file), z)
  <2>1. PICK e : e = [r \in Indices(n) |-> [j \in Indices(Hid(file)) |-> Hidden(work.tokens[r + 1])[j]]]
    OBVIOUS
  <2>2. RowsOf(TargetHidden, n, Hid(file), e)
    BY <1>1, <2>1, TargetHiddenIs, Zenon
  <2>3. RowsOf(b, n, Hid(file), [r \in Indices(n) |-> RmsNorm(e[r], file.vectors["hnorm"])])
    BY <1>1, <1>6, <2>2, NormedAre, Zenon
  <2>4. z = [r \in Indices(n) |-> RmsNorm(e[r], file.vectors["hnorm"])]
    BY <1>4, <2>1, Zenon
  <2> QED BY <2>3, <2>4, Zenon
<1>9. PICK u : u = [r \in Indices(n) |-> PairRow(file, work.tokens[r + 1])]
  OBVIOUS
<1>10. RowsOf(Paired(a, b), n, 2 * Hid(file), u)
  <2>1. u = [r \in Indices(n) |-> [j \in Indices(2 * Hid(file)) |->
                   IF j < Hid(file) THEN y[r][j] ELSE z[r][j - Hid(file)]]]
    BY <1>3, <1>4, <1>9, Zenon DEF PairRow
  <2>2. RowsOf(Paired(a, b), n, 2 * Hid(file), [r \in Indices(n) |-> [j \in Indices(2 * Hid(file)) |->
                   IF j < Hid(file) THEN y[r][j] ELSE z[r][j - Hid(file)]]])
    BY <1>1, <1>7, <1>8, PairedAre
  <2> QED BY <2>1, <2>2, Zenon
<1>11. PredictorInput = ForwardRows(Matrix(file, "eh_proj"), Paired(a, b), n, "pool")
  BY <1>5, <1>6, Zenon DEF PredictorInput, Forward
<1>12. RowsOf(PredictorInput, n, Hid(file), [r \in Indices(n) |-> ProductRow(Matrix(file, "eh_proj"), u[r])])
  BY <1>2, <1>10, <1>11, ForwardAre, Zenon
<1>13. [r \in Indices(n) |-> ProductRow(Matrix(file, "eh_proj"), u[r])]
         = [r \in Indices(n) |-> ProductRow(Matrix(file, "eh_proj"), PairRow(file, work.tokens[r + 1]))]
  BY <1>9, Zenon
<1> QED BY <1>12, <1>13, Zenon

LEMMA EnteredAre ==
  ASSUME NEW n \in Nat, n = work.count, GoodFile(file), ~Ref(file), weights = LW(file),
         NEW xs, xs = IF KindOf(file) = "predictor" THEN PredictorInput ELSE Embeddings
  PROVE  /\ RowsOf(xs, n, Hid(file), XsRows(file, work.tokens, n))
         /\ RowsOf(NormedRows(xs, n, file.vectors["attn_norm"]), n, Hid(file),
                   InRows(file, work.tokens, n))
<1>1. Hid(file) \in Nat
  BY DEF GoodFile, GoodConfig, Hid
<1>2. LW(file).embedding.columns = Hid(file)
  BY DEF GoodFile, GoodGguf, MatrixIs
<1>3. RowsOf(xs, n, Hid(file), XsRows(file, work.tokens, n))
  <2>1. CASE KindOf(file) = "predictor"
    <3>1. XsRows(file, work.tokens, n)
            = [r \in Indices(n) |-> ProductRow(Matrix(file, "eh_proj"), PairRow(file, work.tokens[r + 1]))]
      BY <2>1, Zenon DEF XsRows, XsRow
    <3> QED BY <2>1, <3>1, PredictorInputIs, Zenon
  <2>2. CASE KindOf(file) # "predictor"
    <3>1. XsRows(file, work.tokens, n)
            = [r \in Indices(n) |-> WeightRow(LW(file).embedding, work.tokens[r + 1])]
      BY <2>2, Zenon DEF XsRows, XsRow
    <3> QED BY <1>1, <1>2, <2>2, <3>1, EmbeddingsAre, Zenon
  <2> QED BY <2>1, <2>2
<1>4. RowsOf(NormedRows(xs, n, file.vectors["attn_norm"]), n, Hid(file),
             [r \in Indices(n) |-> RmsNorm(XsRows(file, work.tokens, n)[r], file.vectors["attn_norm"])])
  BY <1>1, <1>3, NormedAre, Zenon
<1>5. [r \in Indices(n) |-> RmsNorm(XsRows(file, work.tokens, n)[r], file.vectors["attn_norm"])]
        = InRows(file, work.tokens, n)
  BY Zenon DEF XsRows, InRows, InRow
<1> QED BY <1>3, <1>4, <1>5, Zenon

LEMMA ReferenceEnteredAre ==
  ASSUME NEW n \in Nat, n = work.count, GoodFile(file), Ref(file), NEW xs,
         xs = [i \in Indices(n * Hid(file)) |->
                 WeightRow(file.tensors["embed_tokens"], work.tokens[i \div Hid(file) + 1])[i % Hid(file)]]
  PROVE  /\ RowsOf(xs, n, Hid(file), XsRows(file, work.tokens, n))
         /\ RowsOf(ReferenceNorm(xs, "input_layernorm"), n, Hid(file), InRows(file, work.tokens, n))
<1>1. Hid(file) \in Nat
  BY DEF GoodFile, GoodConfig, Hid
<1>2. file.tensors["embed_tokens"].columns = Hid(file)
  BY DEF GoodFile, GoodReference, DenseIs
<1>3. PICK w \in Nat : w = Hid(file)
  BY <1>1
<1>4. PICK y : y = XsRows(file, work.tokens, n)
  OBVIOUS
<1>5. \A r \in Indices(n) : y[r] = WeightRow(file.tensors["embed_tokens"], work.tokens[r + 1])
  BY <1>4, Zenon DEF XsRows, XsRow
<1>6. \A r \in Indices(n) : IsArray(y[r], w)
  BY <1>2, <1>3, <1>5, SliceElements DEF WeightRow
<1>7. xs = [i \in Indices(n * w) |-> y[i \div w][i % w]]
  <2>1. \A i \in Indices(n * w) : i \div w \in Indices(n)
    BY ONLY n \in Nat, w \in Nat, IndexSplit
  <2> QED BY <1>3, <1>5, <2>1, Zenon
<1>8. RowsOf(xs, n, w, y)
  BY <1>6, <1>7, RowsBy
<1>9. RowsOf(ReferenceNorm(xs, "input_layernorm"), n, w,
             [r \in Indices(n) |-> RefNorm(file, y[r], "input_layernorm")])
  BY <1>3, <1>8, ReferenceNormedAre, Zenon
<1>10. [r \in Indices(n) |-> RefNorm(file, y[r], "input_layernorm")] = InRows(file, work.tokens, n)
  BY <1>4, Zenon DEF XsRows, InRows, InRow
<1> QED BY <1>3, <1>4, <1>8, <1>9, <1>10, Zenon

-----------------------------------------------------------------------------
(***************************************************************************)
(* The projections of attention, and the rows it caches.                   *)
(***************************************************************************)
LEMMA HeadsAre ==
  ASSUME NEW n \in Nat, n = work.count, NEW heads \in Nat, NEW w \in Nat, NEW product, NEW y,
         RowsOf(product, n, heads * w, y)
  PROVE  HeadsTo(TokenHeads(product, heads, w), n, heads, w, y)
<1>1. ASSUME NEW t \in Indices(n), NEW h \in Indices(heads)
      PROVE  Row(product, t * heads + h, w) = Row(y[t], h, w)
  <2>1. Row(Row(product, t, heads * w), h, w) = Row(product, t * heads + h, w)
    BY NestedRow
  <2>2. Row(product, t, heads * w) = y[t]
    BY DEF RowsOf
  <2> QED BY <2>1, <2>2, Zenon
<1>2. TokenHeads(product, heads, w)
        = [t \in Indices(n) |-> [h \in Indices(heads) |-> Row(product, t * heads + h, w)]]
  BY Zenon DEF TokenHeads, Row
<1>3. DOMAIN TokenHeads(product, heads, w) = Indices(n)
  BY <1>2
<1>4. ASSUME NEW t \in Indices(n)
      PROVE  /\ DOMAIN TokenHeads(product, heads, w)[t] = Indices(heads)
             /\ \A h \in Indices(heads) : TokenHeads(product, heads, w)[t][h] = Row(y[t], h, w)
  <2>1. TokenHeads(product, heads, w)[t] = [h \in Indices(heads) |-> Row(product, t * heads + h, w)]
    BY <1>2, Zenon
  <2> QED BY <1>1, <2>1, Zenon
<1> QED BY <1>3, <1>4, Zenon DEF HeadsTo

LEMMA ExtendedIs ==
  ASSUME NEW n \in Nat, n = work.count, NEW kv \in Nat, kv = file.config.kvHeads,
         NEW hd \in Nat, hd = file.config.headDim, NEW m \in Nat,
         NEW array, IsArray(array, m * (kv * hd)), NEW heads, NEW z, HeadRows(z, heads, n, kv, hd)
  PROVE  ExtendedTo(array, Extended(array, heads), m, n, kv * hd, z)
<1>1. PICK w \in Nat : w = kv * hd
  OBVIOUS
<1>2. PICK b : b = [i \in Indices(n * w) |-> heads[i \div w][(i % w) \div hd][i % hd]]
  OBVIOUS
<1>3. Extended(array, heads) = Concatenated(array, b)
  BY <1>1, <1>2, Zenon DEF Extended
<1>4. ASSUME NEW i \in Indices(n * w)
      PROVE  b[i] = z[i \div w][i % w]
  <2>1. PICK t \in Indices(n) : t = i \div w
    BY IndexSplit
  <2>2. PICK j \in Indices(w) : j = i % w
    BY IndexSplit
  <2>3. i = t * w + j
    BY <2>1, <2>2, IndexSplit, Zenon
  <2>4. j \in Indices(kv * hd)
    BY <1>1
  <2>5. PICK h \in Indices(kv) : h = j \div hd
    BY <2>4, IndexSplit
  <2>6. PICK c \in Indices(hd) : c = j % hd
    BY <2>4, IndexSplit
  <2>7. j = h * hd + c
    <3>1. j = (j \div hd) * hd + (j % hd)
      BY ONLY kv \in Nat, hd \in Nat, <2>4, IndexSplit
    <3> QED BY <2>5, <2>6, <3>1, Zenon
  <2>8. i = (t * kv + h) * hd + c
    <3>1. t \in Nat /\ h \in Nat /\ c \in Nat
      BY DEF Indices
    <3>2. t * (kv * hd) + (h * hd + c) = (t * kv + h) * hd + c
      BY <3>1
    <3> QED BY <1>1, <2>3, <2>7, <3>2, Zenon
  <2>9. i % hd = c
    <3>1. PICK k : k = (t * kv + h) * hd + c
      OBVIOUS
    <3>2. /\ k \in Indices((n * kv) * hd)
          /\ k % hd = c /\ (k \div hd) \div kv = t /\ (k \div hd) % kv = h
      BY ONLY n \in Nat, kv \in Nat, hd \in Nat, t \in Indices(n), h \in Indices(kv),
              c \in Indices(hd), <3>1, NestedJoin
    <3> QED BY <2>8, <3>1, <3>2, Zenon
  <2>10. z[t] = [k \in Indices(w) |-> heads[t][k \div hd][k % hd]]
    BY <1>1 DEF HeadRows
  <2>11. b[i] = heads[t][j \div hd][j % hd]
    BY <1>2, <2>1, <2>2, <2>6, <2>9, Zenon
  <2> QED BY <2>1, <2>2, <2>10, <2>11, Zenon
<1>5. ASSUME NEW t \in Indices(n) PROVE IsArray(z[t], w)
  <2>1. z[t] = [j \in Indices(w) |-> heads[t][j \div hd][j % hd]]
    BY <1>1 DEF HeadRows
  <2> QED BY <2>1 DEF IsArray
<1>6. b = [i \in Indices(n * w) |-> z[i \div w][i % w]]
  BY <1>2, <1>4, Zenon
<1>7. RowsOf(b, n, w, z)
  BY <1>5, <1>6, RowsBy
<1>8. IsArray(array, m * w) /\ IsArray(b, n * w) /\ \A r \in Indices(n) : Row(b, r, w) = z[r]
  BY <1>1, <1>7 DEF RowsOf
<1>9. /\ IsArray(Concatenated(array, b), (m + n) * w)
      /\ \A r \in Indices(m) : Row(Concatenated(array, b), r, w) = Row(array, r, w)
      /\ \A r \in Indices(n) : Row(Concatenated(array, b), m + r, w) = Row(b, r, w)
  BY <1>8, ConcatenatedIs
<1> QED BY <1>1, <1>3, <1>8, <1>9, Zenon DEF ExtendedTo

\* The rows of the cache of some tokens, and what has them.
LEMMA CacheRows ==
  ASSUME NEW f, CacheWidth(f) \in Nat, NEW toks, NEW n \in Nat
  PROVE  /\ RowsOf(CacheOf(f, toks, n).keys, n, CacheWidth(f), [q \in Indices(n) |-> KeyAt(f, toks, q)])
         /\ RowsOf(CacheOf(f, toks, n).values, n, CacheWidth(f),
                   [q \in Indices(n) |-> ValueAt(f, toks, q)])
<1>1. PICK w \in Nat : w = CacheWidth(f)
  OBVIOUS
<1>2. \A i \in Indices(n * w) : i \div w \in Indices(n)
  BY ONLY n \in Nat, w \in Nat, IndexSplit
<1>3. PICK y : y = [q \in Indices(n) |-> KeyAt(f, toks, q)]
  OBVIOUS
<1>4. PICK z : z = [q \in Indices(n) |-> ValueAt(f, toks, q)]
  OBVIOUS
<1>5. \A q \in Indices(n) : IsArray(y[q], w) /\ IsArray(z[q], w)
  BY <1>1, <1>3, <1>4 DEF KeyAt, ValueAt, KeysOf, ValuesOf, IsArray
<1>6. CacheOf(f, toks, n).keys = [i \in Indices(n * w) |-> y[i \div w][i % w]]
  <2>1. CacheOf(f, toks, n).keys = [i \in Indices(n * w) |-> KeyAt(f, toks, i \div w)[i % w]]
    BY <1>1 DEF CacheOf
  <2> QED BY <1>2, <1>3, <2>1, Zenon
<1>7. CacheOf(f, toks, n).values = [i \in Indices(n * w) |-> z[i \div w][i % w]]
  <2>1. CacheOf(f, toks, n).values = [i \in Indices(n * w) |-> ValueAt(f, toks, i \div w)[i % w]]
    BY <1>1 DEF CacheOf
  <2> QED BY <1>2, <1>4, <2>1, Zenon
<1>8. RowsOf(CacheOf(f, toks, n).keys, n, w, y)
  BY <1>5, <1>6, RowsBy
<1>9. RowsOf(CacheOf(f, toks, n).values, n, w, z)
  BY <1>5, <1>7, RowsBy
<1> QED BY <1>1, <1>3, <1>4, <1>8, <1>9, Zenon

LEMMA SameRowsOf ==
  ASSUME NEW n \in Nat, NEW w \in Nat, NEW y, NEW a, RowsOf(a, n, w, y), NEW b, IsArray(b, n * w),
         \A r \in Indices(n) : Row(b, r, w) = y[r]
  PROVE  b = a
<1>1. IsArray(a, n * w) /\ \A r \in Indices(n) : Row(a, r, w) = Row(b, r, w)
  BY DEF RowsOf
<1> QED BY <1>1, SameRows

LEMMA CacheIs ==
  ASSUME NEW f, CacheWidth(f) \in Nat, NEW toks, NEW n \in Nat, NEW state,
         state = [keys |-> state.keys, values |-> state.values, positions |-> n],
         IsArray(state.keys, n * CacheWidth(f)), IsArray(state.values, n * CacheWidth(f)),
         \A q \in Indices(n) : /\ Row(state.keys, q, CacheWidth(f)) = KeyAt(f, toks, q)
                               /\ Row(state.values, q, CacheWidth(f)) = ValueAt(f, toks, q)
  PROVE  state = CacheOf(f, toks, n)
<1>1. PICK w \in Nat : w = CacheWidth(f)
  OBVIOUS
<1>2. PICK y : y = [q \in Indices(n) |-> KeyAt(f, toks, q)]
  OBVIOUS
<1>3. PICK z : z = [q \in Indices(n) |-> ValueAt(f, toks, q)]
  OBVIOUS
<1>4. RowsOf(CacheOf(f, toks, n).keys, n, w, y) /\ RowsOf(CacheOf(f, toks, n).values, n, w, z)
  BY <1>1, <1>2, <1>3, CacheRows, Zenon
<1>5. \A q \in Indices(n) : Row(state.keys, q, w) = y[q] /\ Row(state.values, q, w) = z[q]
  BY <1>1, <1>2, <1>3, Zenon
<1>6. IsArray(state.keys, n * w) /\ IsArray(state.values, n * w)
  BY <1>1
<1>7. PICK keys : keys = state.keys
  OBVIOUS
<1>8. PICK values : values = state.values
  OBVIOUS
<1>9. keys = CacheOf(f, toks, n).keys
  <2>1. IsArray(keys, n * w) /\ \A q \in Indices(n) : Row(keys, q, w) = y[q]
    BY <1>5, <1>6, <1>7, Zenon
  <2>2. RowsOf(CacheOf(f, toks, n).keys, n, w, y)
    BY <1>4
  <2> QED BY ONLY n \in Nat, w \in Nat, <2>1, <2>2, SameRowsOf
<1>10. values = CacheOf(f, toks, n).values
  <2>1. IsArray(values, n * w) /\ \A q \in Indices(n) : Row(values, q, w) = z[q]
    BY <1>5, <1>6, <1>8, Zenon
  <2>2. RowsOf(CacheOf(f, toks, n).values, n, w, z)
    BY <1>4
  <2> QED BY ONLY n \in Nat, w \in Nat, <2>1, <2>2, SameRowsOf
<1> QED BY <1>7, <1>8, <1>9, <1>10 DEF CacheOf

LEMMA CacheFields ==
  ASSUME NEW f, CacheWidth(f) \in Nat, NEW toks, NEW n \in Nat
  PROVE  /\ CacheOf(f, toks, n).positions = n
         /\ IsArray(CacheOf(f, toks, n).keys, n * CacheWidth(f))
         /\ IsArray(CacheOf(f, toks, n).values, n * CacheWidth(f))
         /\ \A q \in Indices(n) : /\ Row(CacheOf(f, toks, n).keys, q, CacheWidth(f)) = KeyAt(f, toks, q)
                                  /\ Row(CacheOf(f, toks, n).values, q, CacheWidth(f)) = ValueAt(f, toks, q)
<1>1. /\ RowsOf(CacheOf(f, toks, n).keys, n, CacheWidth(f), [q \in Indices(n) |-> KeyAt(f, toks, q)])
      /\ RowsOf(CacheOf(f, toks, n).values, n, CacheWidth(f), [q \in Indices(n) |-> ValueAt(f, toks, q)])
  BY CacheRows
<1>2. CacheOf(f, toks, n).positions = n
  BY DEF CacheOf
<1> QED BY <1>1, <1>2, Zenon DEF RowsOf

\* The cache of the first of the tokens is that of tokens that begin with them.
LEMMA CachePrefix ==
  ASSUME NEW f, CacheWidth(f) \in Nat, NEW toks, NEW other, NEW n \in Nat,
         \A q \in Indices(n) : toks[q + 1] = other[q + 1]
  PROVE  CacheOf(f, toks, n) = CacheOf(f, other, n)
<1>1. PICK w \in Nat : w = CacheWidth(f)
  OBVIOUS
<1>2. \A i \in Indices(n * w) : i \div w \in Indices(n)
  BY ONLY n \in Nat, w \in Nat, IndexSplit
<1>3. \A q \in Indices(n) : KeyAt(f, toks, q) = KeyAt(f, other, q) /\ ValueAt(f, toks, q) = ValueAt(f, other, q)
  BY Zenon DEF KeyAt, ValueAt
<1>4. [i \in Indices(n * w) |-> KeyAt(f, toks, i \div w)[i % w]]
        = [i \in Indices(n * w) |-> KeyAt(f, other, i \div w)[i % w]]
  BY <1>2, <1>3, Zenon
<1>5. [i \in Indices(n * w) |-> ValueAt(f, toks, i \div w)[i % w]]
        = [i \in Indices(n * w) |-> ValueAt(f, other, i \div w)[i % w]]
  BY <1>2, <1>3, Zenon
<1> QED BY <1>1, <1>4, <1>5, Zenon DEF CacheOf

LEMMA ProjectedIs ==
  ASSUME GoodConfig(file), NEW n \in Nat, n = work.count, NEW p \in Nat, p = work.position, NEW toks,
         NEW query, RowsOf(query, n, file.config.queryHeads * (2 * file.config.headDim),
                           QueryRows(file, toks, p, n)),
         NEW key, RowsOf(key, n, CacheWidth(file), KeyRows(file, toks, p, n)),
         NEW value, RowsOf(value, n, CacheWidth(file), ValueRows(file, toks, p, n)),
         work.state = CacheOf(file, toks, p),
         NEW projected, projected = Projected(query, key, value, QueryNorm(file), KeyNorm(file))
  PROVE  ProjectedTo(file, toks, p, n, projected)
<1>1. PICK kv \in Nat : kv = file.config.kvHeads
  BY DEF GoodConfig
<1>2. PICK hd \in Nat : hd = file.config.headDim
  BY DEF GoodConfig
<1>3. PICK qh \in Nat : qh = file.config.queryHeads
  BY DEF GoodConfig
<1>4. PICK d \in Nat : d = 2 * hd
  OBVIOUS
<1>5. PICK w \in Nat : w = kv * hd /\ w = CacheWidth(file)
  BY <1>1, <1>2 DEF CacheWidth
<1>6. PICK qs : qs = TokenHeads(query, qh, d)
  OBVIOUS
<1>7. PICK ks : ks = TokenHeads(key, kv, hd)
  OBVIOUS
<1>8. PICK vs : vs = TokenHeads(value, kv, hd)
  OBVIOUS
<1>9. PICK rot : rot = [token \in DOMAIN ks |-> [head \in DOMAIN ks[token] |->
                          Positioned(ks[token][head], KeyNorm(file), token)]]
  OBVIOUS
<1>10. projected = [queries |-> [token \in DOMAIN qs |-> [head \in DOMAIN qs[token] |->
                                   Positioned(Slice(qs[token][head], 0, hd), QueryNorm(file), token)]],
                    gates |-> [token \in DOMAIN qs |-> [head \in DOMAIN qs[token] |->
                                 Slice(qs[token][head], hd, hd)]],
                    state |-> [keys |-> Extended(work.state.keys, rot),
                               values |-> Extended(work.state.values, vs),
                               positions |-> p + n]]
  BY <1>1, <1>2, <1>3, <1>4, <1>6, <1>7, <1>8, <1>9, Zenon DEF Projected
<1>11. \A vector, weight, token : Positioned(vector, weight, token) = Placed(file, vector, weight, p + token)
  BY Zenon DEF Positioned, Placed
<1>12. PICK qy : qy = QueryRows(file, toks, p, n)
  OBVIOUS
<1>13. PICK ky : ky = KeyRows(file, toks, p, n)
  OBVIOUS
<1>14. PICK vy : vy = ValueRows(file, toks, p, n)
  OBVIOUS
<1>15. RowsOf(query, n, qh * d, qy) /\ RowsOf(key, n, kv * hd, ky) /\ RowsOf(value, n, kv * hd, vy)
  BY <1>2, <1>3, <1>4, <1>5, <1>12, <1>13, <1>14, Zenon
<1>16. /\ DOMAIN qs = Indices(n)
       /\ \A t \in Indices(n) : /\ DOMAIN qs[t] = Indices(qh)
                                /\ \A h \in Indices(qh) : qs[t][h] = Row(qy[t], h, d)
  <2>1. RowsOf(query, n, qh * d, qy)
    BY <1>15
  <2>2. HeadsTo(qs, n, qh, d, qy)
    BY <1>6, <2>1, HeadsAre
  <2> QED BY <2>2, Zenon DEF HeadsTo
<1>17. /\ DOMAIN ks = Indices(n)
       /\ \A t \in Indices(n) : /\ DOMAIN ks[t] = Indices(kv)
                                /\ \A h \in Indices(kv) : ks[t][h] = Row(ky[t], h, hd)
  <2>1. RowsOf(key, n, kv * hd, ky)
    BY <1>15
  <2>2. HeadsTo(ks, n, kv, hd, ky)
    BY <1>7, <2>1, HeadsAre
  <2> QED BY <2>2, Zenon DEF HeadsTo
<1>18. /\ DOMAIN vs = Indices(n)
       /\ \A t \in Indices(n) : /\ DOMAIN vs[t] = Indices(kv)
                                /\ \A h \in Indices(kv) : vs[t][h] = Row(vy[t], h, hd)
  <2>1. RowsOf(value, n, kv * hd, vy)
    BY <1>15
  <2>2. HeadsTo(vs, n, kv, hd, vy)
    BY <1>8, <2>1, HeadsAre
  <2> QED BY <2>2, Zenon DEF HeadsTo
<1>19. ASSUME NEW t \in Indices(n)
       PROVE  /\ projected.queries[t] = QueryAt(file, toks, p + t)
              /\ projected.gates[t] = GateAt(file, toks, p + t)
  <2>1. qy[t] = QueryProduct(file, InRow(file, toks[p + t + 1]))
    BY <1>12, Zenon DEF QueryRows
  <2>2. projected.queries[t] = [head \in DOMAIN qs[t] |->
                                  Positioned(Slice(qs[t][head], 0, hd), QueryNorm(file), t)]
    BY <1>10, <1>16
  <2>3. projected.gates[t] = [head \in DOMAIN qs[t] |-> Slice(qs[t][head], hd, hd)]
    BY <1>10, <1>16
  <2>4. projected.queries[t] = [h \in Indices(qh) |->
                                  Placed(file, Slice(Row(qy[t], h, d), 0, hd), QueryNorm(file), p + t)]
    BY <1>11, <1>16, <2>2, Zenon
  <2>5. projected.gates[t] = [h \in Indices(qh) |-> Slice(Row(qy[t], h, d), hd, hd)]
    BY <1>16, <2>3, Zenon
  <2>6. QueryAt(file, toks, p + t) = [h \in Indices(qh) |->
                                  Placed(file, Slice(Row(qy[t], h, d), 0, hd), QueryNorm(file), p + t)]
    BY <1>2, <1>3, <1>4, <2>1, Zenon DEF QueryAt, QueriesOf
  <2>7. GateAt(file, toks, p + t) = [h \in Indices(qh) |-> Slice(Row(qy[t], h, d), hd, hd)]
    BY <1>2, <1>3, <1>4, <2>1, Zenon DEF GateAt, GatesOf
  <2> QED BY <2>4, <2>5, <2>6, <2>7
<1>20. PICK kz : kz = [t \in Indices(n) |-> KeyAt(file, toks, p + t)]
  OBVIOUS
<1>21. PICK vz : vz = [t \in Indices(n) |-> ValueAt(file, toks, p + t)]
  OBVIOUS
<1>22. ASSUME NEW t \in Indices(n)
       PROVE  /\ kz[t] = [j \in Indices(kv * hd) |-> rot[t][j \div hd][j % hd]]
              /\ vz[t] = [j \in Indices(kv * hd) |-> vs[t][j \div hd][j % hd]]
  <2>1. \A j \in Indices(kv * hd) : j \div hd \in Indices(kv)
    BY ONLY kv \in Nat, hd \in Nat, IndexSplit
  <2>2. \A h \in Indices(kv) : rot[t][h] = Placed(file, Row(ky[t], h, hd), KeyNorm(file), p + t)
    BY <1>9, <1>11, <1>17, Zenon
  <2>3. ky[t] = KeyProduct(file, InRow(file, toks[p + t + 1])) /\ vy[t] = ValueProduct(file, InRow(file, toks[p + t + 1]))
    BY <1>13, <1>14, Zenon DEF KeyRows, ValueRows
  <2>4. kz[t] = [j \in Indices(kv * hd) |-> Placed(file, Row(ky[t], j \div hd, hd), KeyNorm(file), p + t)[j % hd]]
    BY <1>1, <1>2, <1>20, <2>3, Zenon DEF KeyAt, KeysOf, CacheWidth
  <2>5. vz[t] = [j \in Indices(kv * hd) |-> Row(vy[t], j \div hd, hd)[j % hd]]
    BY <1>1, <1>2, <1>21, <2>3, Zenon DEF ValueAt, ValuesOf, CacheWidth
  <2>6. [j \in Indices(kv * hd) |-> Placed(file, Row(ky[t], j \div hd, hd), KeyNorm(file), p + t)[j % hd]]
          = [j \in Indices(kv * hd) |-> rot[t][j \div hd][j % hd]]
    BY <2>1, <2>2, Zenon
  <2>7. [j \in Indices(kv * hd) |-> Row(vy[t], j \div hd, hd)[j % hd]]
          = [j \in Indices(kv * hd) |-> vs[t][j \div hd][j % hd]]
    BY <1>18, <2>1, Zenon
  <2> QED BY <2>4, <2>5, <2>6, <2>7, Zenon
<1>23. /\ work.state.positions = p
       /\ IsArray(work.state.keys, p * w) /\ IsArray(work.state.values, p * w)
       /\ \A q \in Indices(p) : /\ Row(work.state.keys, q, w) = KeyAt(file, toks, q)
                                /\ Row(work.state.values, q, w) = ValueAt(file, toks, q)
  <2>1. CacheWidth(file) \in Nat
    BY <1>5
  <2>2. /\ CacheOf(file, toks, p).positions = p
        /\ IsArray(CacheOf(file, toks, p).keys, p * CacheWidth(file))
        /\ IsArray(CacheOf(file, toks, p).values, p * CacheWidth(file))
        /\ \A q \in Indices(p) : /\ Row(CacheOf(file, toks, p).keys, q, CacheWidth(file)) = KeyAt(file, toks, q)
                                 /\ Row(CacheOf(file, toks, p).values, q, CacheWidth(file)) = ValueAt(file, toks, q)
    BY <2>1, CacheFields
  <2> QED BY <1>5, <2>2, Zenon
<1>24. PICK newKeys : newKeys = Extended(work.state.keys, rot)
  OBVIOUS
<1>25. PICK newValues : newValues = Extended(work.state.values, vs)
  OBVIOUS
<1>26. /\ IsArray(newKeys, (p + n) * w)
       /\ \A r \in Indices(p) : Row(newKeys, r, w) = Row(work.state.keys, r, w)
       /\ \A r \in Indices(n) : Row(newKeys, p + r, w) = kz[r]
  <2>1. IsArray(work.state.keys, p * (kv * hd))
    BY <1>5, <1>23, Zenon
  <2>2. HeadRows(kz, rot, n, kv, hd)
    BY <1>22, Zenon DEF HeadRows
  <2>3. PICK old : old = work.state.keys
    OBVIOUS
  <2>4. ExtendedTo(old, Extended(old, rot), p, n, kv * hd, kz)
    <3>1. IsArray(old, p * (kv * hd)) /\ kv = file.config.kvHeads /\ hd = file.config.headDim
      BY <1>1, <1>2, <2>1, <2>3, Zenon
    <3> QED BY ONLY n \in Nat, n = work.count, p \in Nat, kv \in Nat, hd \in Nat, <2>2, <3>1, ExtendedIs
  <2> QED BY <1>5, <1>24, <2>3, <2>4, Zenon DEF ExtendedTo
<1>27. /\ IsArray(newValues, (p + n) * w)
       /\ \A r \in Indices(p) : Row(newValues, r, w) = Row(work.state.values, r, w)
       /\ \A r \in Indices(n) : Row(newValues, p + r, w) = vz[r]
  <2>1. IsArray(work.state.values, p * (kv * hd))
    BY <1>5, <1>23, Zenon
  <2>2. HeadRows(vz, vs, n, kv, hd)
    BY <1>22, Zenon DEF HeadRows
  <2>3. PICK old : old = work.state.values
    OBVIOUS
  <2>4. ExtendedTo(old, Extended(old, vs), p, n, kv * hd, vz)
    <3>1. IsArray(old, p * (kv * hd)) /\ kv = file.config.kvHeads /\ hd = file.config.headDim
      BY <1>1, <1>2, <2>1, <2>3, Zenon
    <3> QED BY ONLY n \in Nat, n = work.count, p \in Nat, kv \in Nat, hd \in Nat, <2>2, <3>1, ExtendedIs
  <2> QED BY <1>5, <1>25, <2>3, <2>4, Zenon DEF ExtendedTo
<1>28. PICK state : state = [keys |-> newKeys, values |-> newValues, positions |-> p + n]
  OBVIOUS
<1>29. state = CacheOf(file, toks, p + n)
  <2>1. ASSUME NEW q \in Indices(p + n)
        PROVE  /\ Row(newKeys, q, w) = KeyAt(file, toks, q)
               /\ Row(newValues, q, w) = ValueAt(file, toks, q)
    <3>1. CASE q < p
      <4>1. q \in Indices(p)
        BY <3>1 DEF Indices
      <4> QED BY <1>23, <1>26, <1>27, <4>1, Zenon
    <3>2. CASE ~(q < p)
      <4>1. PICK r \in Indices(n) : q = p + r
        <5>1. q - p \in Indices(n) /\ q = p + (q - p)
          BY <3>2 DEF Indices
        <5> QED BY <5>1
      <4> QED BY <1>20, <1>21, <1>26, <1>27, <4>1, Zenon
    <3> QED BY <3>1, <3>2
  <2>2. state.keys = newKeys /\ state.values = newValues /\ p + n \in Nat
    BY <1>28
  <2>3. state = [keys |-> state.keys, values |-> state.values, positions |-> p + n]
    BY <1>28
  <2>4. /\ IsArray(state.keys, (p + n) * CacheWidth(file)) /\ IsArray(state.values, (p + n) * CacheWidth(file))
        /\ \A q \in Indices(p + n) : /\ Row(state.keys, q, CacheWidth(file)) = KeyAt(file, toks, q)
                                     /\ Row(state.values, q, CacheWidth(file)) = ValueAt(file, toks, q)
    BY <1>5, <1>26, <1>27, <2>1, <2>2, Zenon
  <2>5. CacheWidth(file) \in Nat
    BY <1>5
  <2>6. PICK m \in Nat : m = p + n
    OBVIOUS
  <2> QED BY <2>3, <2>4, <2>5, <2>6, CacheIs
<1>30. projected.state = state
  BY <1>10, <1>24, <1>25, <1>28
<1> QED BY <1>19, <1>29, <1>30 DEF ProjectedTo

-----------------------------------------------------------------------------
(***************************************************************************)
(* What a scan returns for a row is what it returns for the row alone.     *)
(***************************************************************************)
LEMMA ShapeIs ==
  ASSUME NEW f, GoodConfig(f), NEW n \in Nat \ {0}, NEW p \in Nat
  PROVE  /\ IsScan(ShapeOf(f, n, p))
         /\ KvWidth(ShapeOf(f, n, p)) = CacheWidth(f) /\ CacheWidth(f) \in Nat
         /\ MixedWidth(ShapeOf(f, n, p)) = f.config.queryHeads * f.config.headDim
<1>1. PICK kv \in Nat \ {0} : kv = f.config.kvHeads
  BY DEF GoodConfig
<1>2. PICK hd \in Nat \ {0} : hd = f.config.headDim
  BY DEF GoodConfig
<1>3. PICK qh \in Nat \ {0} : qh = f.config.queryHeads
  BY DEF GoodConfig
<1>4. PICK g \in Nat \ {0} : qh = g * kv
  BY <1>1, <1>3 DEF GoodConfig
<1>5. PICK shape : shape = ShapeOf(f, n, p)
  OBVIOUS
<1>6. /\ shape.seq = n /\ shape.existing = p /\ shape.queryHeads = qh /\ shape.kvHeads = kv
      /\ shape.headDim = hd /\ shape.threads = f.threads
  BY <1>1, <1>2, <1>3, <1>5 DEF ShapeOf
<1>7. f.threads \in Nat
  BY DEF GoodConfig
<1>8. qh \div kv = g
  <2>1. kv * g = g * kv
    BY Commutes
  <2>2. (kv * g) \div kv = g
    BY QuotientIs
  <2> QED BY <1>4, <2>1, <2>2, Zenon
<1>9. GroupSize(shape) = g
  BY <1>6, <1>8, Zenon DEF GroupSize
<1>10. qh = kv * g
  BY <1>4, Commutes
<1>11. IsScan(shape)
  BY <1>6, <1>7, <1>9, <1>10 DEF IsScan
<1>12. KvWidth(shape) = kv * hd /\ CacheWidth(f) = kv * hd /\ MixedWidth(shape) = qh * hd /\ kv * hd \in Nat
  BY <1>1, <1>2, <1>6 DEF KvWidth, CacheWidth, MixedWidth
<1> QED BY <1>2, <1>3, <1>5, <1>11, <1>12

LEMMA CacheAgrees ==
  ASSUME NEW f, CacheWidth(f) \in Nat, NEW toks, NEW m \in Nat, NEW n \in Nat, m <= n
  PROVE  \A i \in Indices(m * CacheWidth(f)) :
           /\ CacheOf(f, toks, n).keys[i] = CacheOf(f, toks, m).keys[i]
           /\ CacheOf(f, toks, n).values[i] = CacheOf(f, toks, m).values[i]
<1>1. PICK w \in Nat : w = CacheWidth(f)
  OBVIOUS
<1>2. ASSUME NEW i \in Indices(m * w) PROVE i \in Indices(n * w)
  <2>1. PICK r \in Indices(m) : r = i \div w
    BY IndexSplit
  <2>2. PICK c \in Indices(w) : c = i % w
    BY IndexSplit
  <2>3. i = r * w + c
    BY <2>1, <2>2, IndexSplit, Zenon
  <2>4. r \in Indices(n)
    BY DEF Indices
  <2>5. r * w + c \in Indices(n * w)
    BY ONLY n \in Nat, w \in Nat, <2>4, c \in Indices(w), IndexJoin
  <2> QED BY <2>3, <2>5, Zenon
<1> QED BY <1>1, <1>2, Zenon DEF CacheOf

LEMMA MixedAgree ==
  ASSUME NEW f, GoodConfig(f), NEW toks, NEW n \in Nat \ {0}, NEW p \in Nat, NEW t \in Indices(n),
         NEW query, NEW gate
  PROVE  MixedAlone(f, toks, n, p, t, query, gate)
<1>1. PICK shape : shape = ShapeOf(f, n, p)
  OBVIOUS
<1>2. PICK other : other = ShapeOf(f, 1, p + t)
  OBVIOUS
<1>3. PICK m \in Nat : m = p + t + 1 /\ m <= p + n /\ p + n \in Nat
  BY DEF Indices
<1>4. PICK keys : keys = CacheOf(f, toks, p + n).keys
  OBVIOUS
<1>5. PICK values : values = CacheOf(f, toks, p + n).values
  OBVIOUS
<1>6. PICK keys2 : keys2 = CacheOf(f, toks, m).keys
  OBVIOUS
<1>7. PICK values2 : values2 = CacheOf(f, toks, m).values
  OBVIOUS
<1>8. IsScan(shape) /\ KvWidth(shape) = CacheWidth(f) /\ CacheWidth(f) \in Nat
  BY <1>1, ShapeIs
<1>9. \A i \in Indices(m * KvWidth(shape)) : keys[i] = keys2[i] /\ values[i] = values2[i]
  <2>1. PICK k \in Nat : k = p + n
    OBVIOUS
  <2>2. m <= k
    BY <1>3, <2>1
  <2>3. \A i \in Indices(m * CacheWidth(f)) :
           /\ CacheOf(f, toks, k).keys[i] = CacheOf(f, toks, m).keys[i]
           /\ CacheOf(f, toks, k).values[i] = CacheOf(f, toks, m).values[i]
    BY <1>8, <2>2, CacheAgrees
  <2> QED BY <1>4, <1>5, <1>6, <1>7, <1>8, <2>1, <2>3, Zenon
<1>10. /\ other.kvHeads = shape.kvHeads /\ other.headDim = shape.headDim
       /\ other.queryHeads = shape.queryHeads
  BY <1>1, <1>2 DEF ShapeOf
<1>11. GroupSize(other) = GroupSize(shape) /\ MixedWidth(other) = MixedWidth(shape)
  BY <1>10, Zenon DEF GroupSize, MixedWidth
<1>12. ASSUME NEW j \in Indices(MixedWidth(shape))
       PROVE  (j \div shape.headDim) \div GroupSize(shape) \in Indices(shape.kvHeads)
  <2>1. shape.queryHeads \in Nat /\ shape.headDim \in Nat
    BY <1>8 DEF IsScan
  <2>2. j \in Indices(shape.queryHeads * shape.headDim)
    BY DEF MixedWidth
  <2>3. j \div shape.headDim \in Indices(shape.queryHeads)
    BY ONLY <2>1, <2>2, IndexSplit
  <2> QED BY <1>8, <2>3, HeadOfGroup
<1>13. ASSUME NEW j \in Indices(MixedWidth(shape))
       PROVE  HeadOutput(shape, query[j \div shape.headDim], gate[j \div shape.headDim], keys, values,
                         (j \div shape.headDim) \div GroupSize(shape), m)
                = HeadOutput(other, query[j \div shape.headDim], gate[j \div shape.headDim], keys2, values2,
                         (j \div shape.headDim) \div GroupSize(shape), m)
  <2>1. PICK kvHead \in Indices(shape.kvHeads) : kvHead = (j \div shape.headDim) \div GroupSize(shape)
    BY <1>12
  <2>2. PICK q : q = query[j \div shape.headDim]
    OBVIOUS
  <2>3. PICK g : g = gate[j \div shape.headDim]
    OBVIOUS
  <2>4. HeadOutput(shape, q, g, keys, values, kvHead, m) = HeadOutput(other, q, g, keys2, values2, kvHead, m)
    BY <1>8, <1>9, <1>10, HeadOutputAgree
  <2> QED BY <2>1, <2>2, <2>3, <2>4, Zenon
<1>14. MixedRow(shape, query, gate, keys, values, m) = MixedRow(other, query, gate, keys2, values2, m)
  BY <1>10, <1>11, <1>13, Zenon DEF MixedRow
<1> QED BY <1>1, <1>2, <1>3, <1>4, <1>5, <1>6, <1>7, <1>14, Zenon DEF MixedAlone

\* The rows of a scan.
LEMMA ScannedRows ==
  ASSUME NEW f, GoodConfig(f), ~Ref(f), NEW toks, NEW n \in Nat \ {0}, NEW p \in Nat,
         NEW queries, NEW gates,
         \A t \in Indices(n) : queries[t] = QueryAt(f, toks, p + t) /\ gates[t] = GateAt(f, toks, p + t),
         NEW mixed, IsScanned(ShapeOf(f, n, p), queries, gates, CacheOf(f, toks, p + n).keys,
                              CacheOf(f, toks, p + n).values, mixed)
  PROVE  RowsOf(mixed, n, f.config.queryHeads * f.config.headDim,
                [r \in Indices(n) |-> AttentionMixed(f, toks, p + r)])
<1>1. PICK shape : shape = ShapeOf(f, n, p)
  OBVIOUS
<1>2. MixedWidth(shape) = f.config.queryHeads * f.config.headDim
  BY <1>1, ShapeIs
<1>3. shape.seq = n /\ shape.existing = p
  BY <1>1 DEF ShapeOf
<1>4. IsArray(mixed, n * MixedWidth(shape))
  BY <1>1, <1>3 DEF IsScanned
<1>5. ASSUME NEW t \in Indices(n)
      PROVE  Row(mixed, t, MixedWidth(shape)) = AttentionMixed(f, toks, p + t)
  <2>1. Row(mixed, t, MixedWidth(shape))
          = MixedRow(shape, queries[t], gates[t], CacheOf(f, toks, p + n).keys,
                     CacheOf(f, toks, p + n).values, p + t + 1)
    BY <1>1, <1>3, Zenon DEF IsScanned
  <2>2. MixedRow(shape, queries[t], gates[t], CacheOf(f, toks, p + n).keys,
                 CacheOf(f, toks, p + n).values, p + t + 1)
          = MixedRow(ShapeOf(f, 1, p + t), queries[t], gates[t], CacheOf(f, toks, p + t + 1).keys,
                     CacheOf(f, toks, p + t + 1).values, p + t + 1)
    <3>1. PICK query : query = queries[t]
      OBVIOUS
    <3>2. PICK gate : gate = gates[t]
      OBVIOUS
    <3>3. MixedAlone(f, toks, n, p, t, query, gate)
      BY MixedAgree
    <3> QED BY <1>1, <3>1, <3>2, <3>3, Zenon DEF MixedAlone
  <2>3. queries[t] = QueryAt(f, toks, p + t) /\ gates[t] = GateAt(f, toks, p + t)
    OBVIOUS
  <2>4. p + t + 1 = (p + t) + 1
    OBVIOUS
  <2> QED BY <2>1, <2>2, <2>3, <2>4, Zenon DEF AttentionMixed
<1> QED BY <1>2, <1>4, <1>5, Zenon DEF RowsOf

\* The reference model's scan.
LEMMA ReferenceScanIs ==
  ASSUME NEW shape, IsScan(shape), NEW queries, NEW gates, NEW keys, NEW values, NEW mixed,
         mixed = ReferenceScan(shape, queries, gates, keys, values)
  PROVE  /\ IsArray(mixed, shape.seq * MixedWidth(shape))
         /\ \A t \in Indices(shape.seq) :
              Row(mixed, t, MixedWidth(shape))
                = RefMixedRow(shape, queries[t], gates[t], keys, values, shape.existing + t + 1)
<1>1. PICK n \in Nat : n = shape.seq
  BY DEF IsScan
<1>2. PICK a \in Nat : a = shape.queryHeads
  BY DEF IsScan
<1>3. PICK b \in Nat : b = shape.headDim
  BY DEF IsScan
<1>4. (n * a) * b = n * (a * b) /\ a * b \in Nat
  OBVIOUS
<1> DEFINE output(t, h, kvHead) ==
             Attended(shape, [past \in Indices(shape.existing + t + 1) |->
                                ReferenceScore(shape, queries[t][h], keys, past, kvHead)],
                      gates[t][h], values, kvHead)
<1>5. mixed = [i \in Indices((n * a) * b) |->
                 output((i \div b) \div a, (i \div b) % a, ((i \div b) % a) \div GroupSize(shape))[i % b]]
  BY <1>1, <1>2, <1>3, Zenon DEF ReferenceScan
<1> HIDE DEF output
<1>6. IsArray(mixed, n * (a * b))
  BY <1>4, <1>5 DEF IsArray
<1>7. ASSUME NEW t \in Indices(n), NEW j \in Indices(a * b)
      PROVE  Row(mixed, t, a * b)[j]
               = output(t, j \div b, (j \div b) \div GroupSize(shape))[j % b]
  <2>1. PICK h \in Indices(a) : h = j \div b
    BY IndexSplit
  <2>2. PICK c \in Indices(b) : c = j % b
    BY IndexSplit
  <2>3. j = h * b + c
    <3>1. j = (j \div b) * b + (j % b)
      BY ONLY a \in Nat, b \in Nat, j \in Indices(a * b), IndexSplit
    <3> QED BY <2>1, <2>2, <3>1, Zenon
  <2>4. PICK i : i = (t * a + h) * b + c
    OBVIOUS
  <2>5. /\ i \in Indices((n * a) * b)
        /\ i % b = c /\ (i \div b) \div a = t /\ (i \div b) % a = h
    BY ONLY n \in Nat, a \in Nat, b \in Nat, t \in Indices(n), h \in Indices(a), c \in Indices(b),
            <2>4, NestedJoin
  <2>6. (t * a + h) * b + c = t * (a * b) + (h * b + c)
    BY NestedJoin
  <2>7. Row(mixed, t, a * b)[j] = mixed[i]
    BY <2>3, <2>4, <2>6, RowArray
  <2>8. mixed[i] = output(t, h, h \div GroupSize(shape))[c]
    BY <1>5, <2>5, Zenon
  <2> QED BY <2>1, <2>2, <2>7, <2>8, Zenon
<1>8. ASSUME NEW t \in Indices(n)
      PROVE  Row(mixed, t, a * b)
               = RefMixedRow(shape, queries[t], gates[t], keys, values, shape.existing + t + 1)
  <2>1. IsArray(Row(mixed, t, a * b), a * b)
    BY RowArray
  <2>2. Row(mixed, t, a * b)
          = [j \in Indices(a * b) |-> output(t, j \div b, (j \div b) \div GroupSize(shape))[j % b]]
    BY <1>7, <2>1, Zenon DEF IsArray
  <2>3. MixedWidth(shape) = a * b
    BY <1>2, <1>3 DEF MixedWidth
  <2>4. RefMixedRow(shape, queries[t], gates[t], keys, values, shape.existing + t + 1)
          = [j \in Indices(a * b) |-> output(t, j \div b, (j \div b) \div GroupSize(shape))[j % b]]
    BY <1>3, <2>3, Zenon DEF RefMixedRow, output
  <2> QED BY <2>2, <2>4, Zenon
<1>9. MixedWidth(shape) = a * b
  BY <1>2, <1>3 DEF MixedWidth
<1> QED BY <1>1, <1>6, <1>8, <1>9, Zenon

LEMMA ReferenceScoreAgree ==
  ASSUME NEW shape, IsScan(shape), NEW other, other.kvHeads = shape.kvHeads,
         other.headDim = shape.headDim, NEW query, NEW kvHead \in Indices(shape.kvHeads), NEW n \in Nat,
         NEW keys, NEW keys2, \A i \in Indices(n * KvWidth(shape)) : keys[i] = keys2[i],
         NEW past \in Indices(n)
  PROVE  ReferenceScore(shape, query, keys, past, kvHead) = ReferenceScore(other, query, keys2, past, kvHead)
<1>1. RowBase(shape, past, kvHead) = RowBase(other, past, kvHead)
  BY Zenon DEF RowBase
<1>2. \A d \in Indices(shape.headDim) :
        keys[RowBase(shape, past, kvHead) + d] = keys2[RowBase(shape, past, kvHead) + d]
  BY RowBaseIs
<1>3. [d \in Indices(shape.headDim) |-> Times(query[d], keys[RowBase(shape, past, kvHead) + d])]
        = [d \in Indices(other.headDim) |-> Times(query[d], keys2[RowBase(other, past, kvHead) + d])]
  BY <1>1, <1>2, Zenon
<1>4. Scale(shape) = Scale(other)
  BY Zenon DEF Scale
<1> QED BY <1>3, <1>4, Zenon DEF ReferenceScore

LEMMA ReferenceMixedAgree ==
  ASSUME NEW f, GoodConfig(f), NEW toks, NEW n \in Nat \ {0}, NEW p \in Nat, NEW t \in Indices(n),
         NEW query, NEW gate
  PROVE  ReferenceMixedAlone(f, toks, n, p, t, query, gate)
<1>1. PICK shape : shape = ShapeOf(f, n, p)
  OBVIOUS
<1>2. PICK other : other = ShapeOf(f, 1, p + t)
  OBVIOUS
<1>3. PICK m \in Nat : m = p + t + 1 /\ m <= p + n /\ p + n \in Nat
  BY DEF Indices
<1>4. PICK keys : keys = CacheOf(f, toks, p + n).keys
  OBVIOUS
<1>5. PICK values : values = CacheOf(f, toks, p + n).values
  OBVIOUS
<1>6. PICK keys2 : keys2 = CacheOf(f, toks, m).keys
  OBVIOUS
<1>7. PICK values2 : values2 = CacheOf(f, toks, m).values
  OBVIOUS
<1>8. IsScan(shape) /\ KvWidth(shape) = CacheWidth(f) /\ CacheWidth(f) \in Nat
  BY <1>1, ShapeIs
<1>9. \A i \in Indices(m * KvWidth(shape)) : keys[i] = keys2[i] /\ values[i] = values2[i]
  <2>1. PICK k \in Nat : k = p + n
    OBVIOUS
  <2>2. m <= k
    BY <1>3, <2>1
  <2>3. \A i \in Indices(m * CacheWidth(f)) :
           /\ CacheOf(f, toks, k).keys[i] = CacheOf(f, toks, m).keys[i]
           /\ CacheOf(f, toks, k).values[i] = CacheOf(f, toks, m).values[i]
    BY <1>8, <2>2, CacheAgrees
  <2> QED BY <1>4, <1>5, <1>6, <1>7, <1>8, <2>1, <2>3, Zenon
<1>10. /\ other.kvHeads = shape.kvHeads /\ other.headDim = shape.headDim
       /\ other.queryHeads = shape.queryHeads
  BY <1>1, <1>2 DEF ShapeOf
<1>11. GroupSize(other) = GroupSize(shape) /\ MixedWidth(other) = MixedWidth(shape)
  BY <1>10, Zenon DEF GroupSize, MixedWidth
<1>12. ASSUME NEW j \in Indices(MixedWidth(shape))
       PROVE  (j \div shape.headDim) \div GroupSize(shape) \in Indices(shape.kvHeads)
  <2>1. shape.queryHeads \in Nat /\ shape.headDim \in Nat
    BY <1>8 DEF IsScan
  <2>2. j \in Indices(shape.queryHeads * shape.headDim)
    BY DEF MixedWidth
  <2>3. j \div shape.headDim \in Indices(shape.queryHeads)
    BY ONLY <2>1, <2>2, IndexSplit
  <2> QED BY <1>8, <2>3, HeadOfGroup
<1> DEFINE of(s, k, v, q, g, kvHead) ==
             Attended(s, [past \in Indices(m) |-> ReferenceScore(s, q, k, past, kvHead)], g, v, kvHead)
<1>13. ASSUME NEW kvHead \in Indices(shape.kvHeads), NEW q, NEW g
       PROVE  of(shape, keys, values, q, g, kvHead) = of(other, keys2, values2, q, g, kvHead)
  <2>1. PICK scores : scores = [past \in Indices(m) |-> ReferenceScore(shape, q, keys, past, kvHead)]
    OBVIOUS
  <2>2. scores = [past \in Indices(m) |-> ReferenceScore(other, q, keys2, past, kvHead)]
    <3>1. \A past \in Indices(m) :
            ReferenceScore(shape, q, keys, past, kvHead) = ReferenceScore(other, q, keys2, past, kvHead)
      <4>1. \A i \in Indices(m * KvWidth(shape)) : keys[i] = keys2[i]
        BY <1>9
      <4> QED BY <1>3, <1>8, <1>10, <4>1, ReferenceScoreAgree
    <3> QED BY <2>1, <3>1, Zenon
  <2>3. DOMAIN scores = Indices(m) /\ \A i \in Indices(m * KvWidth(shape)) : values[i] = values2[i]
    BY <1>9, <2>1
  <2>4. Attended(shape, scores, g, values, kvHead) = Attended(other, scores, g, values2, kvHead)
    BY <1>3, <1>8, <1>10, <2>3, AttendedAgree
  <2> QED BY <2>1, <2>2, <2>4, Zenon
<1> HIDE DEF of
<1>14. RefMixedRow(shape, query, gate, keys, values, m)
         = [j \in Indices(MixedWidth(shape)) |->
              of(shape, keys, values, query[j \div shape.headDim], gate[j \div shape.headDim],
                 (j \div shape.headDim) \div GroupSize(shape))[j % shape.headDim]]
  BY Zenon DEF RefMixedRow, of
<1>15. RefMixedRow(other, query, gate, keys2, values2, m)
         = [j \in Indices(MixedWidth(shape)) |->
              of(other, keys2, values2, query[j \div shape.headDim], gate[j \div shape.headDim],
                 (j \div shape.headDim) \div GroupSize(shape))[j % shape.headDim]]
  BY <1>10, <1>11, Zenon DEF RefMixedRow, of
<1>16. RefMixedRow(shape, query, gate, keys, values, m) = RefMixedRow(other, query, gate, keys2, values2, m)
  <2>1. \A j \in Indices(MixedWidth(shape)) :
          of(shape, keys, values, query[j \div shape.headDim], gate[j \div shape.headDim],
             (j \div shape.headDim) \div GroupSize(shape))
            = of(other, keys2, values2, query[j \div shape.headDim], gate[j \div shape.headDim],
                 (j \div shape.headDim) \div GroupSize(shape))
    BY <1>12, <1>13, Zenon
  <2> QED BY <1>14, <1>15, <2>1, Zenon
<1> QED BY <1>1, <1>2, <1>3, <1>4, <1>5, <1>6, <1>7, <1>16, Zenon DEF ReferenceMixedAlone

LEMMA ReferenceScannedRows ==
  ASSUME NEW f, GoodConfig(f), Ref(f), NEW toks, NEW n \in Nat \ {0}, NEW p \in Nat,
         NEW queries, NEW gates,
         \A t \in Indices(n) : queries[t] = QueryAt(f, toks, p + t) /\ gates[t] = GateAt(f, toks, p + t),
         NEW mixed, mixed = ReferenceScan(ShapeOf(f, n, p), queries, gates, CacheOf(f, toks, p + n).keys,
                                          CacheOf(f, toks, p + n).values)
  PROVE  RowsOf(mixed, n, f.config.queryHeads * f.config.headDim,
                [r \in Indices(n) |-> AttentionMixed(f, toks, p + r)])
<1>1. PICK shape : shape = ShapeOf(f, n, p)
  OBVIOUS
<1>2. MixedWidth(shape) = f.config.queryHeads * f.config.headDim /\ IsScan(shape)
  BY <1>1, ShapeIs
<1>3. shape.seq = n /\ shape.existing = p
  BY <1>1 DEF ShapeOf
<1>4. PICK keys : keys = CacheOf(f, toks, p + n).keys
  OBVIOUS
<1>5. PICK values : values = CacheOf(f, toks, p + n).values
  OBVIOUS
<1>6. mixed = ReferenceScan(shape, queries, gates, keys, values)
  BY <1>1, <1>4, <1>5, Zenon
<1>7. /\ IsArray(mixed, shape.seq * MixedWidth(shape))
      /\ \A t \in Indices(shape.seq) :
           Row(mixed, t, MixedWidth(shape))
             = RefMixedRow(shape, queries[t], gates[t], keys, values, shape.existing + t + 1)
  BY <1>2, <1>6, ReferenceScanIs
<1>8. ASSUME NEW t \in Indices(n)
      PROVE  Row(mixed, t, MixedWidth(shape)) = AttentionMixed(f, toks, p + t)
  <2>1. Row(mixed, t, MixedWidth(shape))
          = RefMixedRow(shape, queries[t], gates[t], keys, values, p + t + 1)
    BY <1>3, <1>7, Zenon
  <2>2. RefMixedRow(shape, queries[t], gates[t], keys, values, p + t + 1)
          = RefMixedRow(ShapeOf(f, 1, p + t), queries[t], gates[t], CacheOf(f, toks, p + t + 1).keys,
                     CacheOf(f, toks, p + t + 1).values, p + t + 1)
    <3>1. PICK query : query = queries[t]
      OBVIOUS
    <3>2. PICK gate : gate = gates[t]
      OBVIOUS
    <3>3. ReferenceMixedAlone(f, toks, n, p, t, query, gate)
      BY ReferenceMixedAgree
    <3> QED BY <1>1, <1>4, <1>5, <3>1, <3>2, <3>3, Zenon DEF ReferenceMixedAlone
  <2>3. queries[t] = QueryAt(f, toks, p + t) /\ gates[t] = GateAt(f, toks, p + t)
    OBVIOUS
  <2>4. p + t + 1 = (p + t) + 1
    OBVIOUS
  <2> QED BY <2>1, <2>2, <2>3, <2>4, Zenon DEF AttentionMixed
<1>9. IsArray(mixed, n * MixedWidth(shape))
  BY <1>3, <1>7, Zenon
<1> QED BY <1>2, <1>8, <1>9, Zenon DEF RowsOf

-----------------------------------------------------------------------------
(***************************************************************************)
(* The projections of the recurrence.                                      *)
(***************************************************************************)
LEMMA HeadNumbers ==
  ASSUME NEW f, GoodConfig(f)
  PROVE  /\ Heads(f).key \in Nat /\ Heads(f).value \in Nat
         /\ Heads(f).keyDim \in Nat /\ Heads(f).valueDim \in Nat
         /\ KeyDim(Heads(f)) \in Nat /\ ValueDim(Heads(f)) \in Nat /\ ConvDim(Heads(f)) \in Nat
         /\ ConvDim(Heads(f)) = 2 * KeyDim(Heads(f)) + ValueDim(Heads(f))
         /\ Hid(f) \in Nat
<1>1. /\ Heads(f).key \in Nat /\ Heads(f).value \in Nat
      /\ Heads(f).keyDim \in Nat /\ Heads(f).valueDim \in Nat /\ Hid(f) \in Nat
  BY DEF GoodConfig, Hid
<1>2. PICK h : h = Heads(f)
  OBVIOUS
<1>3. PICK a \in Nat : a = h.key
  BY <1>1, <1>2
<1>4. PICK b \in Nat : b = h.value
  BY <1>1, <1>2
<1>5. PICK c \in Nat : c = h.keyDim
  BY <1>1, <1>2
<1>6. PICK d \in Nat : d = h.valueDim
  BY <1>1, <1>2
<1>7. KeyDim(h) = a * c /\ ValueDim(h) = b * d
  BY <1>3, <1>4, <1>5, <1>6 DEF KeyDim, ValueDim
<1>8. a * c \in Nat /\ b * d \in Nat
  OBVIOUS
<1>9. ConvDim(h) = 2 * KeyDim(h) + ValueDim(h)
  BY DEF ConvDim
<1> QED BY <1>1, <1>2, <1>7, <1>8, <1>9

\* Part of the rows of rows.
LEMMA PartOfRow ==
  ASSUME NEW a, NEW n, NEW w \in Nat, NEW y, RowsOf(a, n, w, y), NEW r \in Indices(n),
         NEW from \in Nat, NEW k \in Nat, from + k <= w
  PROVE  /\ \A c \in Indices(k) : a[r * w + from + c] = y[r][from + c]
         /\ \A c \in Indices(k) : Slice(y[r], from, k)[c] = y[r][from + c]
<1>1. Row(a, r, w) = y[r]
  BY DEF RowsOf
<1>2. ASSUME NEW c \in Indices(k) PROVE a[r * w + from + c] = y[r][from + c]
  <2>1. PICK i \in Nat : i = from + c /\ i \in Indices(w)
    BY DEF Indices
  <2>2. Row(a, r, w)[i] = a[r * w + i]
    BY <2>1, RowAt
  <2>3. r \in Int
    BY DEF Indices
  <2>4. r * w + i = r * w + from + c
    <3>1. c \in Int
      BY DEF Indices
    <3>2. PICK m \in Int : m = r * w
      BY <2>3
    <3> QED BY <2>1, <3>1, <3>2
  <2> QED BY <1>1, <2>1, <2>2, <2>4, Zenon
<1>3. \A c \in Indices(k) : Slice(y[r], from, k)[c] = y[r][from + c]
  BY DEF Slice
<1> QED BY <1>2, <1>3

DeltaParts(n, h, products, w, qkv, gates, betaAlpha) ==
  /\ h = Heads(file) /\ products = [m \in DOMAIN weights.mixer.qkvz |-> Product(weights.mixer.qkvz[m])]
  /\ w = Width(products[1]) \div n
  /\ qkv = [token \in Indices(n) |-> Slice(products[1], token * w, ConvDim(h))]
  /\ gates = [i \in Indices(n * ValueDim(h)) |->
               IF Len(products) = 1
               THEN products[1][(i \div ValueDim(h)) * w + ConvDim(h) + (i % ValueDim(h))]
               ELSE products[2][(i \div ValueDim(h)) * ValueDim(h) + (i % ValueDim(h))]]
  /\ betaAlpha = [token \in Indices(n) |->
                   Slice(Product(weights.mixer.betaAlpha), token * 2 * h.value, 2 * h.value)]

LEMMA DeltaProjectedIs ==
  ASSUME NEW n \in Nat \ {0}, n = work.count, GoodFile(file), ~Ref(file), weights = LW(file),
         KindOf(file) = "linear", NEW tokens,
         RowsOf(work.normed, n, Hid(file), InRows(file, tokens, n)),
         NEW h, NEW products, NEW w, NEW qkv, NEW gates, NEW betaAlpha,
         DeltaParts(n, h, products, w, qkv, gates, betaAlpha)
  PROVE  DeltaProjectedTo(file, tokens, n, qkv, gates, betaAlpha)
<1> USE DEF DeltaParts
<1>1. GoodConfig(file) /\ GoodMixer(file)
  BY DEF GoodFile, GoodGguf
<1>2. PICK hid \in Nat : hid = Hid(file)
  BY <1>1, HeadNumbers
<1>3. PICK cd \in Nat : cd = ConvDim(h)
  BY <1>1, HeadNumbers
<1>4. PICK vd \in Nat : vd = ValueDim(h)
  BY <1>1, HeadNumbers
<1>5. PICK first : first = LW(file).mixer.qkvz[1]
  OBVIOUS
<1>6. PICK second : second = LW(file).mixer.qkvz[2]
  OBVIOUS
<1>7. \/ LW(file).mixer.qkvz = <<first>> /\ Len(LW(file).mixer.qkvz) = 1 /\ MatrixIs(first, cd + vd, hid)
      \/ /\ LW(file).mixer.qkvz = <<first, second>> /\ Len(LW(file).mixer.qkvz) = 2
         /\ MatrixIs(first, cd, hid) /\ MatrixIs(second, vd, hid)
  BY <1>1, <1>2, <1>3, <1>4, <1>5, <1>6, Zenon DEF GoodMixer
<1>8. PICK big \in Nat : MatrixIs(first, big, hid) /\ cd <= big
                         /\ (Len(LW(file).mixer.qkvz) = 1 => big = cd + vd)
  <2>1. cd + vd \in Nat /\ cd <= cd + vd /\ cd <= cd /\ cd \in Nat /\ 2 # 1
    OBVIOUS
  <2> QED BY <1>7, <2>1
<1>9. PICK ins : ins = InRows(file, tokens, n)
  OBVIOUS
<1>10. \A m : Product(m) = ForwardRows(m, work.normed, n, "pool")
  BY Zenon DEF Product, Forward
<1>11. RowsOf(work.normed, n, hid, ins)
  BY <1>2, <1>9, Zenon
<1>12. PICK p1 : p1 = products[1]
  OBVIOUS
<1>13. DOMAIN products = DOMAIN LW(file).mixer.qkvz
  OBVIOUS
<1>14. 1 \in DOMAIN LW(file).mixer.qkvz /\ Len(products) = Len(LW(file).mixer.qkvz)
       /\ (Len(LW(file).mixer.qkvz) # 1 => 2 \in DOMAIN LW(file).mixer.qkvz)
  <2>1. CASE LW(file).mixer.qkvz = <<first>>
    <3>1. products = [m \in 1..1 |-> Product(LW(file).mixer.qkvz[m])]
      BY <2>1
    <3>2. Len(products) = 1
      BY <3>1
    <3> QED BY <2>1, <3>2
  <2>2. CASE LW(file).mixer.qkvz = <<first, second>>
    <3>1. products = [m \in 1..2 |-> Product(LW(file).mixer.qkvz[m])]
      BY <2>2
    <3>2. Len(products) = 2
      BY <3>1
    <3> QED BY <2>2, <3>2
  <2> QED BY <1>7, <2>1, <2>2
<1>15. PICK y1 : y1 = [r \in Indices(n) |-> ProductRow(first, ins[r])]
  OBVIOUS
<1>16. RowsOf(p1, n, big, y1)
  <2>1. p1 = ForwardRows(first, work.normed, n, "pool")
    BY <1>5, <1>10, <1>12, <1>14, Zenon
  <2>2. RowsOf(ForwardRows(first, work.normed, n, "pool"), n, big, [r \in Indices(n) |-> ProductRow(first, ins[r])])
    BY <1>8, <1>11, ForwardAre
  <2> QED BY <1>15, <2>1, <2>2, Zenon
<1>17. w = big
  <2>1. DOMAIN p1 = Indices(n * big) /\ n * big \in Nat
    BY <1>16, ArrayDomain DEF RowsOf
  <2>2. Width(p1) = n * big
    BY <2>1, WidthIs
  <2>3. (n * big) \div n = big
    BY QuotientIs
  <2> QED BY <1>12, <2>2, <2>3, Zenon
<1>18. \A r \in Indices(n) : ins[r] = InRow(file, tokens[r + 1])
  BY <1>9, Zenon DEF InRows
<1>19. qkv = QkvRows(file, tokens, n)
  <2>1. ASSUME NEW r \in Indices(n)
        PROVE  Slice(p1, r * big, cd) = QkvRow(file, tokens[r + 1])
    <3>1. QkvRow(file, tokens[r + 1]) = Slice(y1[r], 0, cd)
      BY <1>3, <1>5, <1>15, <1>18, Zenon DEF QkvRow
    <3>2. \A c \in Indices(cd) : p1[r * big + 0 + c] = y1[r][0 + c]
      BY <1>8, <1>16, PartOfRow
    <3>3. r * big \in Int /\ r * big + 0 = r * big
      <4>1. r \in Int
        BY DEF Indices
      <4> QED BY <4>1
    <3>4. \A c \in Indices(cd) : p1[r * big + c] = y1[r][0 + c]
      BY <3>2, <3>3, Zenon
    <3> QED BY <3>1, <3>4, Zenon DEF Slice
  <2> QED BY <1>3, <1>12, <1>17, <2>1, Zenon DEF QkvRows
<1>20. betaAlpha = BetaAlphaRows(file, tokens, n)
  <2>1. PICK v \in Nat : v = h.value
    BY <1>1, HeadNumbers
  <2>2. PICK m : m = LW(file).mixer.betaAlpha
    OBVIOUS
  <2>3. MatrixIs(m, 2 * v, hid)
    BY <1>1, <1>2, <2>1, <2>2, Zenon DEF GoodMixer
  <2>4. PICK product : product = ForwardRows(m, work.normed, n, "pool")
    OBVIOUS
  <2>5. RowsOf(product, n, 2 * v, [r \in Indices(n) |-> ProductRow(m, ins[r])])
    <3>1. RowsOf(ForwardRows(m, work.normed, n, "pool"), n, 2 * v, [r \in Indices(n) |-> ProductRow(m, ins[r])])
      BY <1>11, <2>3, ForwardAre
    <3> QED BY <2>4, <3>1, Zenon
  <2>6. \A r \in Indices(n) : r * 2 * v = r * (2 * v)
    BY DEF Indices
  <2>7. \A r \in Indices(n) : Slice(product, r * 2 * v, 2 * v) = BetaAlphaRow(file, tokens[r + 1])
    BY <1>18, <2>2, <2>5, <2>6, Zenon DEF BetaAlphaRow, RowsOf, Row
  <2> QED BY <1>10, <2>1, <2>2, <2>4, <2>7, Zenon DEF BetaAlphaRows
<1>21. RowsOf(gates, n, vd, GateRows(file, tokens, n))
  <2>1. PICK y : y = GateRows(file, tokens, n)
    OBVIOUS
  <2>2. \A i \in Indices(n * vd) : i \div vd \in Indices(n) /\ i % vd \in Indices(vd)
    BY ONLY n \in Nat, vd \in Nat, IndexSplit
  <2>3. CASE Len(LW(file).mixer.qkvz) = 1
    <3>1. big = cd + vd
      BY <1>8, <2>3
    <3>2. \A r \in Indices(n) : y[r] = Slice(y1[r], cd, vd)
      BY <1>3, <1>4, <1>5, <1>15, <1>18, <2>1, <2>3, Zenon DEF GateRows, DeltaGates
    <3>3. \A r \in Indices(n) : IsArray(y[r], vd)
      BY <3>2, SliceElements
    <3>4. ASSUME NEW r \in Indices(n)
          PROVE  \A c \in Indices(vd) : p1[r * big + cd + c] = y[r][c]
      <4>1. /\ \A c \in Indices(vd) : p1[r * big + cd + c] = y1[r][cd + c]
            /\ \A c \in Indices(vd) : Slice(y1[r], cd, vd)[c] = y1[r][cd + c]
        BY <1>16, <3>1, PartOfRow
      <4> QED BY <3>2, <4>1, Zenon
    <3>5. gates = [i \in Indices(n * vd) |-> y[i \div vd][i % vd]]
      <4>1. gates = [i \in Indices(n * vd) |-> p1[(i \div vd) * big + cd + (i % vd)]]
        BY <1>3, <1>4, <1>12, <1>14, <1>17, <2>3, Zenon
      <4>2. ASSUME NEW i \in Indices(n * vd)
            PROVE  p1[(i \div vd) * big + cd + (i % vd)] = y[i \div vd][i % vd]
        <5>1. PICK r \in Indices(n) : r = i \div vd
          BY <2>2
        <5>2. PICK c \in Indices(vd) : c = i % vd
          BY <2>2
        <5> QED BY <3>4, <5>1, <5>2, Zenon
      <4> QED BY <4>1, <4>2, Zenon
    <3>6. RowsOf(gates, n, vd, y)
      BY <3>3, <3>5, RowsBy
    <3> QED BY <2>1, <3>6
  <2>4. CASE Len(LW(file).mixer.qkvz) # 1
    <3>1. MatrixIs(second, vd, hid)
      BY <1>7, <2>4
    <3>2. \A r \in Indices(n) : y[r] = ProductRow(second, ins[r])
      BY <1>6, <1>18, <2>1, <2>4, Zenon DEF GateRows, DeltaGates
    <3>3. products[2] = ForwardRows(second, work.normed, n, "pool")
      BY <1>6, <1>10, <1>14, <2>4, Zenon
    <3>4. RowsOf(products[2], n, vd, [r \in Indices(n) |-> ProductRow(second, ins[r])])
      <4>1. RowsOf(ForwardRows(second, work.normed, n, "pool"), n, vd,
                   [r \in Indices(n) |-> ProductRow(second, ins[r])])
        BY <1>11, <3>1, ForwardAre
      <4> QED BY <3>3, <4>1, Zenon
    <3>5. \A r \in Indices(n) : Row(products[2], r, vd) = y[r]
      BY <3>2, <3>4, Zenon DEF RowsOf
    <3>6. \A r \in Indices(n) : \A c \in Indices(vd) : products[2][r * vd + c] = y[r][c]
      <4>1. PICK p2 : p2 = products[2]
        OBVIOUS
      <4>2. \A r \in Indices(n) : \A c \in Indices(vd) : Row(p2, r, vd)[c] = p2[r * vd + c]
        BY RowAt
      <4>3. ASSUME NEW r \in Indices(n), NEW c \in Indices(vd) PROVE p2[r * vd + c] = y[r][c]
        <5>1. Row(p2, r, vd) = y[r]
          BY <3>5, <4>1
        <5>2. Row(p2, r, vd)[c] = p2[r * vd + c]
          BY <4>2
        <5> QED BY <5>1, <5>2, Zenon
      <4> QED BY <4>1, <4>3, Zenon
    <3>7. gates = [i \in Indices(n * vd) |-> y[i \div vd][i % vd]]
      <4>1. gates = [i \in Indices(n * vd) |-> products[2][(i \div vd) * vd + (i % vd)]]
        BY <1>4, <1>14, <2>4, Zenon
      <4>2. ASSUME NEW i \in Indices(n * vd)
            PROVE  products[2][(i \div vd) * vd + (i % vd)] = y[i \div vd][i % vd]
        <5>1. PICK r \in Indices(n) : r = i \div vd
          BY <2>2
        <5>2. PICK c \in Indices(vd) : c = i % vd
          BY <2>2
        <5> QED BY <3>6, <5>1, <5>2, Zenon
      <4> QED BY <4>1, <4>2, Zenon
    <3>8. \A r \in Indices(n) : IsArray(y[r], vd)
      <4>1. second.rows = vd
        BY <3>1 DEF MatrixIs
      <4> QED BY <3>2, <4>1, ProductArray, Zenon
    <3>9. RowsOf(gates, n, vd, y)
      BY <3>7, <3>8, RowsBy
    <3> QED BY <2>1, <3>9
  <2> QED BY <2>3, <2>4
<1> QED BY <1>4, <1>19, <1>20, <1>21, Zenon DEF DeltaProjectedTo

LEMMA ProjectedWidthIs ==
  ASSUME NEW f, GoodConfig(f), NEW h, h = Heads(f), h.key # 0
  PROVE  h.key * ProjectedWidth(h) = 2 * KeyDim(h) + 2 * ValueDim(h)
<1>1. PICK a \in Nat \ {0} : a = h.key
  BY HeadNumbers
<1>2. PICK c \in Nat : c = h.keyDim
  BY HeadNumbers
<1>3. PICK d \in Nat : d = h.valueDim
  BY HeadNumbers
<1>4. PICK g \in Nat : h.value = g * a
  BY <1>1 DEF GoodConfig
<1>5. g * a = a * g /\ (a * g) \div a = g
  BY Commutes, QuotientIs
<1>6. Repeats(h) = g
  BY <1>1, <1>4, <1>5, Zenon DEF Repeats
<1>7. ProjectedWidth(h) = 2 * c + 2 * g * d
  BY <1>2, <1>3, <1>6, Zenon DEF ProjectedWidth
<1>8. KeyDim(h) = a * c /\ ValueDim(h) = (g * a) * d
  BY <1>1, <1>2, <1>3, <1>4, Zenon DEF KeyDim, ValueDim
<1>9. PICK m \in Nat : m = g * d
  OBVIOUS
<1>10. 2 * g * d = 2 * m /\ (g * a) * d = a * m
  BY <1>9
<1>11. a * (2 * c + 2 * m) = 2 * (a * c) + 2 * (a * m)
  OBVIOUS
<1> QED BY <1>1, <1>7, <1>8, <1>10, <1>11, Zenon

LEMMA ReferenceDeltaIs ==
  ASSUME NEW n \in Nat \ {0}, n = work.count, GoodFile(file), Ref(file),
         KindOf(file) = "linear", NEW tokens,
         RowsOf(work.normed, n, Hid(file), InRows(file, tokens, n)),
         NEW h, h = Heads(file), NEW qkvz, qkvz = DenseProduct("in_proj_qkvz"),
         NEW w, w = h.key * ProjectedWidth(h),
         NEW qkv, qkv = [token \in Indices(n) |-> ConvInput(h, Slice(qkvz, token * w, w))],
         NEW gates, gates = [i \in Indices(n * ValueDim(h)) |->
                      ValueGates(h, Slice(qkvz, (i \div ValueDim(h)) * w, w))[i % ValueDim(h)]],
         NEW betaAlpha, betaAlpha = [token \in Indices(n) |->
                      Slice(DenseProduct("in_proj_ba"), token * 2 * h.value, 2 * h.value)]
  PROVE  DeltaProjectedTo(file, tokens, n, qkv, gates, betaAlpha)
<1>1. GoodConfig(file) /\ GoodReference(file)
  BY DEF GoodFile
<1>2. PICK hid \in Nat : hid = Hid(file)
  BY <1>1, HeadNumbers
<1>3. PICK vd \in Nat : vd = ValueDim(h)
  BY <1>1, HeadNumbers
<1>4. PICK ins : ins = InRows(file, tokens, n)
  OBVIOUS
<1>5. RowsOf(work.normed, n, hid, ins) /\ \A r \in Indices(n) : ins[r] = InRow(file, tokens[r + 1])
  BY <1>2, <1>4, Zenon DEF InRows
<1>6. \A name : DenseProduct(name) = Linear(file.tensors[name], work.normed, n)
  BY Zenon DEF DenseProduct, TensorOf
<1>7. PICK joint : joint = file.tensors["in_proj_qkvz"]
  OBVIOUS
<1>8. PICK big \in Nat : big = 2 * KeyDim(h) + 2 * ValueDim(h)
  BY <1>1, HeadNumbers
<1>9. DenseIs(joint, big, hid)
  BY <1>1, <1>2, <1>7, <1>8, Zenon DEF GoodReference
<1>10. PICK y1 : y1 = [r \in Indices(n) |-> LinearRow(joint, ins[r])]
  OBVIOUS
<1>11. RowsOf(qkvz, n, big, y1)
  <2>1. RowsOf(Linear(joint, work.normed, n), n, big, [r \in Indices(n) |-> LinearRow(joint, ins[r])])
    BY <1>5, <1>9, LinearAre
  <2> QED BY <1>6, <1>7, <1>10, <2>1, Zenon
\* Without key heads there is nothing to project.
<1>12. ASSUME NEW r \in Indices(n)
       PROVE  /\ ConvInput(h, Slice(qkvz, r * w, w)) = QkvRow(file, tokens[r + 1])
              /\ ValueGates(h, Slice(qkvz, r * w, w)) = DeltaGates(file, tokens[r + 1])
  <2>1. /\ QkvRow(file, tokens[r + 1]) = ConvInput(h, y1[r])
        /\ DeltaGates(file, tokens[r + 1]) = ValueGates(h, y1[r])
    BY <1>5, <1>7, <1>10, Zenon DEF QkvRow, DeltaGates
  <2>2. CASE h.key # 0
    <3>1. w = big
      BY <1>1, <1>8, <2>2, ProjectedWidthIs
    <3>2. Slice(qkvz, r * w, w) = y1[r]
      BY <1>11, <3>1, Zenon DEF RowsOf, Row
    <3> QED BY <2>1, <3>2, Zenon
  <2>3. CASE h.key = 0
    <3>1. h.value = 0
      BY <1>1, <2>3 DEF GoodConfig
    <3>2. h.keyDim \in Nat /\ h.valueDim \in Nat
      BY <1>1, HeadNumbers
    <3>3. Indices(ConvDim(h)) = {} /\ Indices(ValueDim(h)) = {}
      <4>1. KeyDim(h) = 0 * h.keyDim /\ ValueDim(h) = 0 * h.valueDim
        BY <2>3, <3>1, Zenon DEF KeyDim, ValueDim
      <4>2. KeyDim(h) = 0 /\ ValueDim(h) = 0
        BY <3>2, <4>1
      <4>3. ConvDim(h) = 0
        BY <4>2 DEF ConvDim
      <4> QED BY <4>2, <4>3 DEF Indices
    <3>4. ASSUME NEW u, NEW v PROVE ConvInput(h, u) = ConvInput(h, v) /\ ValueGates(h, u) = ValueGates(h, v)
      BY <3>3, Zenon DEF ConvInput, ValueGates
    <3> QED BY <2>1, <3>4, Zenon
  <2> QED BY <2>2, <2>3
<1>13. qkv = QkvRows(file, tokens, n)
  BY <1>12, Zenon DEF QkvRows
<1>14. RowsOf(gates, n, vd, GateRows(file, tokens, n))
  <2>1. PICK y : y = GateRows(file, tokens, n)
    OBVIOUS
  <2>2. \A i \in Indices(n * vd) : i \div vd \in Indices(n)
    BY ONLY n \in Nat, vd \in Nat, IndexSplit
  <2>3. \A r \in Indices(n) : ValueGates(h, Slice(qkvz, r * w, w)) = y[r]
    BY <1>12, <2>1, Zenon DEF GateRows
  <2>4. gates = [i \in Indices(n * vd) |-> y[i \div vd][i % vd]]
    <3>1. ASSUME NEW i \in Indices(n * vd)
          PROVE  ValueGates(h, Slice(qkvz, (i \div vd) * w, w))[i % vd] = y[i \div vd][i % vd]
      <4>1. PICK r \in Indices(n) : r = i \div vd
        BY <2>2
      <4> QED BY <2>3, <4>1, Zenon
    <3> QED BY <1>3, <3>1, Zenon
  <2>5. \A r \in Indices(n) : IsArray(y[r], vd)
    <3>1. \A u : IsArray(ValueGates(h, u), vd)
      BY <1>3 DEF ValueGates, IsArray
    <3> QED BY <2>3, <3>1, Zenon
  <2>6. RowsOf(gates, n, vd, y)
    BY <2>4, <2>5, RowsBy
  <2> QED BY <2>1, <2>6
<1>15. betaAlpha = BetaAlphaRows(file, tokens, n)
  <2>1. PICK v \in Nat : v = h.value
    BY <1>1, HeadNumbers
  <2>2. PICK m : m = file.tensors["in_proj_ba"]
    OBVIOUS
  <2>3. DenseIs(m, 2 * v, hid)
    BY <1>1, <1>2, <2>1, <2>2, Zenon DEF GoodReference
  <2>4. PICK product : product = Linear(m, work.normed, n)
    OBVIOUS
  <2>5. RowsOf(product, n, 2 * v, [r \in Indices(n) |-> LinearRow(m, ins[r])])
    <3>1. RowsOf(Linear(m, work.normed, n), n, 2 * v, [r \in Indices(n) |-> LinearRow(m, ins[r])])
      BY <1>5, <2>3, LinearAre
    <3> QED BY <2>4, <3>1, Zenon
  <2>6. \A r \in Indices(n) : r * 2 * v = r * (2 * v)
    BY DEF Indices
  <2>7. \A r \in Indices(n) : Slice(product, r * 2 * v, 2 * v) = BetaAlphaRow(file, tokens[r + 1])
    BY <1>5, <2>2, <2>5, <2>6, Zenon DEF BetaAlphaRow, RowsOf, Row
  <2> QED BY <1>6, <2>1, <2>2, <2>4, <2>7, Zenon DEF BetaAlphaRows
<1> QED BY <1>3, <1>13, <1>14, <1>15, Zenon DEF DeltaProjectedTo

-----------------------------------------------------------------------------
(***************************************************************************)
(* The rows of a pass from position p, each with the state before it.      *)
(***************************************************************************)
LEMMA PositionIs ==
  ASSUME NEW p \in Nat, NEW n \in Nat, NEW r \in Indices(n)
  PROVE  p + r + 1 = (p + r) + 1 /\ p + r \in Nat /\ r \in Nat
BY DEF Indices

LEMMA MixWidthIs ==
  ASSUME NEW f, GoodConfig(f)
  PROVE  MixWidth(f) \in Nat
<1>1. ValueDim(Heads(f)) \in Nat
  BY HeadNumbers
<1>2. f.config.queryHeads * f.config.headDim \in Nat
  <2>1. f.config.queryHeads \in Nat /\ f.config.headDim \in Nat
    BY DEF GoodConfig
  <2> QED BY <2>1
<1> QED BY <1>1, <1>2 DEF MixWidth

LEMMA HiddenAre ==
  ASSUME NEW n \in Nat, n = work.count, GoodFile(file), ~Ref(file), weights = LW(file),
         NEW p \in Nat, NEW toks, NEW al, NEW xs, RowsOf(xs, n, Hid(file), PassXs(file, toks, p, n)),
         NEW mixed, RowsOf(mixed, n, MixWidth(file), PassMix(file, toks, al, p, n)),
         NEW projected, projected = Forward(weights.mixer.output, mixed, n),
         NEW after, after = [i \in DOMAIN xs |-> Plus(xs[i], projected[i])]
  PROVE  /\ RowsOf(after, n, Hid(file), PassHidden(file, toks, al, p, n))
         /\ RowsOf(NormedRows(after, n, file.vectors["post_attention_norm"]), n, Hid(file),
                   PassMid(file, toks, al, p, n))
<1>1. GoodConfig(file) /\ GoodMixer(file)
  BY DEF GoodFile, GoodGguf
<1>2. PICK h \in Nat : h = Hid(file)
  BY <1>1, HeadNumbers
<1>3. PICK m : m = LW(file).mixer.output
  OBVIOUS
<1>4. PICK w \in Nat : w = MixWidth(file)
  BY <1>1, MixWidthIs
<1>5. MatrixIs(m, h, w)
  BY <1>1, <1>2, <1>3, <1>4, Zenon DEF GoodMixer, MixWidth
<1>6. PICK x : x = PassXs(file, toks, p, n)
  OBVIOUS
<1>7. PICK y : y = PassMix(file, toks, al, p, n)
  OBVIOUS
<1>8. RowsOf(xs, n, h, x) /\ RowsOf(mixed, n, w, y)
  BY <1>2, <1>4, <1>6, <1>7
<1>9. PICK z : z = [r \in Indices(n) |-> ProductRow(m, y[r])]
  OBVIOUS
<1>10. RowsOf(projected, n, h, z)
  <2>1. RowsOf(ForwardRows(m, mixed, n, "pool"), n, h, [r \in Indices(n) |-> ProductRow(m, y[r])])
    BY <1>5, <1>8, ForwardAre
  <2> QED BY <1>3, <1>9, <2>1, Zenon DEF Forward
<1>11. RowsOf(after, n, h, [r \in Indices(n) |-> SumRow(x[r], z[r], h)])
  BY <1>8, <1>10, SumsAre
<1>12. [r \in Indices(n) |-> SumRow(x[r], z[r], h)] = PassHidden(file, toks, al, p, n)
  <2>1. ASSUME NEW r \in Indices(n)
        PROVE  SumRow(x[r], z[r], h) = HiddenRow(file, toks, p + r, Before(file, al, p + r))
    <3>1. p + r + 1 = (p + r) + 1
      BY PositionIs
    <3>2. x[r] = XsRow(file, toks[(p + r) + 1])
      BY <1>6, <3>1, Zenon DEF PassXs
    <3>3. z[r] = ProductRow(m, MixRow(file, toks, p + r, Before(file, al, p + r)))
      BY <1>7, <1>9, Zenon DEF PassMix
    <3> QED BY <1>2, <1>3, <3>2, <3>3, Zenon DEF HiddenRow
  <2> QED BY <2>1, Zenon DEF PassHidden
<1>13. RowsOf(after, n, h, PassHidden(file, toks, al, p, n))
  BY <1>11, <1>12, Zenon
<1>14. RowsOf(NormedRows(after, n, file.vectors["post_attention_norm"]), n, Hid(file),
              [r \in Indices(n) |-> RmsNorm(PassHidden(file, toks, al, p, n)[r],
                                            file.vectors["post_attention_norm"])])
  BY <1>2, <1>13, NormedAre, Zenon
<1>15. [r \in Indices(n) |-> RmsNorm(PassHidden(file, toks, al, p, n)[r], file.vectors["post_attention_norm"])]
         = PassMid(file, toks, al, p, n)
  BY Zenon DEF PassHidden, PassMid, MidRow
<1> QED BY <1>2, <1>13, <1>14, <1>15, Zenon

\* Sums rounded to the rows' type.
LEMMA RoundedSumsAre ==
  ASSUME NEW n \in Nat, NEW w \in Nat, NEW xs, NEW y, RowsOf(xs, n, w, y), NEW ys, NEW z,
         RowsOf(ys, n, w, z), NEW dtype, NEW after,
         after = [i \in DOMAIN xs |-> Rounded(dtype, Plus(xs[i], ys[i]))]
  PROVE  RowsOf(after, n, w, [r \in Indices(n) |-> RoundedRow(dtype, SumRow(y[r], z[r], w), w)])
<1>1. PICK sums : sums = [i \in DOMAIN xs |-> Plus(xs[i], ys[i])]
  OBVIOUS
<1>2. PICK s : s = [r \in Indices(n) |-> SumRow(y[r], z[r], w)]
  OBVIOUS
<1>3. RowsOf(sums, n, w, s)
  <2>1. RowsOf(sums, n, w, [r \in Indices(n) |-> SumRow(y[r], z[r], w)])
    BY <1>1, SumsAre
  <2> QED BY <1>2, <2>1, Zenon
<1>4. RowsOf(RoundedAll(dtype, sums), n, w, [r \in Indices(n) |-> RoundedRow(dtype, s[r], w)])
  BY <1>3, RoundedAre
<1>5. RoundedAll(dtype, sums) = after
  BY <1>1, Zenon DEF RoundedAll
<1>6. [r \in Indices(n) |-> RoundedRow(dtype, s[r], w)]
        = [r \in Indices(n) |-> RoundedRow(dtype, SumRow(y[r], z[r], w), w)]
  BY <1>2, Zenon
<1> QED BY <1>4, <1>5, <1>6, Zenon

LEMMA ReferenceHiddenAre ==
  ASSUME NEW n \in Nat, n = work.count, GoodFile(file), Ref(file),
         NEW p \in Nat, NEW toks, NEW al, NEW xs, RowsOf(xs, n, Hid(file), PassXs(file, toks, p, n)),
         NEW mixed, RowsOf(mixed, n, MixWidth(file), PassMix(file, toks, al, p, n)),
         NEW projected, projected = Linear(OutputMatrix(file), mixed, n),
         NEW after, after = [i \in DOMAIN xs |-> Rounded(HiddenType, Plus(xs[i], projected[i]))]
  PROVE  /\ RowsOf(after, n, Hid(file), PassHidden(file, toks, al, p, n))
         /\ RowsOf(ReferenceNorm(after, "post_attention_layernorm"), n, Hid(file),
                   PassMid(file, toks, al, p, n))
<1>1. GoodConfig(file) /\ GoodReference(file)
  BY DEF GoodFile
<1>2. PICK h \in Nat : h = Hid(file)
  BY <1>1, HeadNumbers
<1>3. PICK m : m = OutputMatrix(file)
  OBVIOUS
<1>4. PICK w \in Nat : w = MixWidth(file)
  BY <1>1, MixWidthIs
<1>5. DenseIs(m, h, w)
  <2>1. CASE KindOf(file) = "linear"
    BY <1>1, <1>2, <1>3, <1>4, <2>1, Zenon DEF GoodReference, MixWidth, OutputMatrix
  <2>2. CASE KindOf(file) # "linear"
    BY <1>1, <1>2, <1>3, <1>4, <2>2, Zenon DEF GoodReference, MixWidth, OutputMatrix
  <2> QED BY <2>1, <2>2
<1>6. PICK x : x = PassXs(file, toks, p, n)
  OBVIOUS
<1>7. PICK y : y = PassMix(file, toks, al, p, n)
  OBVIOUS
<1>8. RowsOf(xs, n, h, x) /\ RowsOf(mixed, n, w, y)
  BY <1>2, <1>4, <1>6, <1>7
<1>9. PICK z : z = [r \in Indices(n) |-> LinearRow(m, y[r])]
  OBVIOUS
<1>10. RowsOf(projected, n, h, z)
  <2>1. RowsOf(Linear(m, mixed, n), n, h, [r \in Indices(n) |-> LinearRow(m, y[r])])
    BY <1>5, <1>8, LinearAre
  <2> QED BY <1>3, <1>9, <2>1, Zenon
<1>11. RowsOf(after, n, h, [r \in Indices(n) |-> RoundedRow(HiddenType, SumRow(x[r], z[r], h), h)])
  BY <1>8, <1>10, RoundedSumsAre
<1>12. [r \in Indices(n) |-> RoundedRow(HiddenType, SumRow(x[r], z[r], h), h)]
         = PassHidden(file, toks, al, p, n)
  <2>1. ASSUME NEW r \in Indices(n)
        PROVE  RoundedRow(HiddenType, SumRow(x[r], z[r], h), h)
                 = HiddenRow(file, toks, p + r, Before(file, al, p + r))
    <3>1. p + r + 1 = (p + r) + 1
      BY PositionIs
    <3>2. x[r] = XsRow(file, toks[(p + r) + 1])
      BY <1>6, <3>1, Zenon DEF PassXs
    <3>3. z[r] = LinearRow(m, MixRow(file, toks, p + r, Before(file, al, p + r)))
      BY <1>7, <1>9, Zenon DEF PassMix
    <3>4. HiddenType = Typed(file)
      BY Zenon DEF HiddenType, TensorOf, Typed
    <3> QED BY <1>2, <1>3, <3>2, <3>3, <3>4, Zenon DEF HiddenRow
  <2> QED BY <2>1, Zenon DEF PassHidden
<1>13. RowsOf(after, n, h, PassHidden(file, toks, al, p, n))
  BY <1>11, <1>12, Zenon
<1>14. RowsOf(ReferenceNorm(after, "post_attention_layernorm"), n, Hid(file),
              [r \in Indices(n) |-> RefNorm(file, PassHidden(file, toks, al, p, n)[r],
                                            "post_attention_layernorm")])
  BY <1>2, <1>13, ReferenceNormedAre, Zenon
<1>15. [r \in Indices(n) |-> RefNorm(file, PassHidden(file, toks, al, p, n)[r], "post_attention_layernorm")]
         = PassMid(file, toks, al, p, n)
  BY Zenon DEF PassHidden, PassMid, MidRow
<1> QED BY <1>2, <1>13, <1>14, <1>15, Zenon

-----------------------------------------------------------------------------
(***************************************************************************)
(* Routes and experts.                                                     *)
(***************************************************************************)
LEMMA RankedIs ==
  ASSUME NEW n \in Nat, NEW p, IsArray(p, n)
  PROVE  /\ DOMAIN Ranked(p) = Indices(n)
         /\ \A i \in Indices(n) : Ranked(p)[i] \in Indices(n)
<1>1. DOMAIN p = Indices(n) /\ Width(p) = n
  BY ArrayDomain, WidthIs, Zenon DEF IsArray
<1> DEFINE orders == Injection(Indices(n), Indices(n))
           falling == {order \in orders : \A i, j \in DOMAIN order :
                         i < j => ~(p[order[i]] < p[order[j]])}
<1>2. [i \in Indices(n) |-> i] \in orders
  BY DEF Injection, IsInjective
<1>3. \E order \in orders : falling # {} => order \in falling
  <2>1. CASE falling = {}
    BY <1>2, <2>1
  <2>2. CASE falling # {}
    <3>1. PICK order : order \in falling
      BY <2>2, Zenon
    <3>2. order \in orders
      BY <3>1
    <3> QED BY <3>1, <3>2, Zenon
  <2> QED BY <2>1, <2>2
<1>4. Ranked(p) = CHOOSE order \in orders : falling # {} => order \in falling
  BY <1>1, Zenon DEF Ranked
<1>5. Ranked(p) \in orders
  <2> HIDE DEF falling, orders
  <2> QED BY <1>3, <1>4, Zenon
<1>6. Ranked(p) \in [Indices(n) -> Indices(n)]
  BY <1>5, Zenon DEF Injection
<1> QED BY <1>6

LEMMA RouteIs ==
  ASSUME NEW n \in Nat, NEW logits, IsArray(logits, n), NEW count \in 0..n, NEW normalize
  PROVE  /\ DOMAIN Route(logits, count, normalize).experts = Indices(count)
         /\ \A i \in Indices(count) : Route(logits, count, normalize).experts[i] \in Indices(n)
<1>1. DOMAIN logits = Indices(n)
  BY ArrayDomain
<1> DEFINE max == Max({logits[e] : e \in DOMAIN logits})
           weight == [e \in DOMAIN logits |-> Exp(Minus(logits[e], max))]
           probability == [e \in DOMAIN logits |-> Over(weight[e], Summed(weight))]
<1>2. PICK p : p = probability
  OBVIOUS
<1>3. IsArray(p, n)
  <2> HIDE DEF max, weight
  <2> QED BY <1>1, <1>2 DEF IsArray
<1>4. Route(logits, count, normalize).experts = Slice(Ranked(p), 0, count)
  BY <1>2, Zenon DEF Route
<1>5. PICK ranked : ranked = Ranked(p)
  OBVIOUS
<1>6. \A i \in Indices(n) : ranked[i] \in Indices(n)
  BY <1>3, <1>5, RankedIs
<1>7. PICK best : best = Slice(ranked, 0, count)
  OBVIOUS
<1>8. best = [i \in Indices(count) |-> ranked[i]]
  BY <1>7 DEF Slice, Indices
<1>9. DOMAIN best = Indices(count) /\ \A i \in Indices(count) : best[i] \in Indices(n)
  <2>1. \A i \in Indices(count) : i \in Indices(n)
    BY DEF Indices
  <2> QED BY <1>6, <1>8, <2>1
<1> QED BY <1>4, <1>5, <1>7, <1>9, Zenon

\* The routes of a pass are those of its rows.
LEMMA RoutesAre ==
  ASSUME NEW n \in Nat, n = work.count, GoodFile(file), ~Ref(file), weights = LW(file),
         NEW p \in Nat, NEW toks, NEW al,
         RowsOf(work.normed, n, Hid(file), PassMid(file, toks, al, p, n)),
         NEW routes, routes = [row \in Indices(n) |->
           Route(Slice(Product(weights.moe.router), row * file.config.experts, file.config.experts),
                 file.config.expertsPerToken, file.config.normTopk)]
  PROVE  routes = PassRoute(file, toks, al, p, n)
<1>1. GoodMoe(file)
  BY DEF GoodFile, GoodGguf
<1>2. PICK m : m = LW(file).moe.router
  OBVIOUS
<1>3. MatrixIs(m, file.config.experts, Hid(file))
  BY <1>1, <1>2, Zenon DEF GoodMoe
<1>4. PICK y : y = PassMid(file, toks, al, p, n)
  OBVIOUS
<1>5. PICK logits : logits = Product(m)
  OBVIOUS
<1>6. RowsOf(logits, n, file.config.experts, [r \in Indices(n) |-> ProductRow(m, y[r])])
  <2>1. RowsOf(work.normed, n, Hid(file), y)
    BY <1>4
  <2>2. logits = ForwardRows(m, work.normed, n, "pool")
    BY <1>5 DEF Product, Forward
  <2>3. RowsOf(ForwardRows(m, work.normed, n, "pool"), n, file.config.experts,
               [r \in Indices(n) |-> ProductRow(m, y[r])])
    BY <1>3, <2>1, ForwardAre
  <2> QED BY <2>2, <2>3, Zenon
<1>7. ASSUME NEW r \in Indices(n)
      PROVE  Slice(logits, r * file.config.experts, file.config.experts)
               = ProductRow(m, MidRow(file, toks, p + r, Before(file, al, p + r)))
  <2>1. Row(logits, r, file.config.experts) = ProductRow(m, y[r])
    BY <1>6, Zenon DEF RowsOf
  <2>2. y[r] = MidRow(file, toks, p + r, Before(file, al, p + r))
    BY <1>4, Zenon DEF PassMid
  <2> QED BY <2>1, <2>2, Zenon DEF Row
<1>8. ASSUME NEW r \in Indices(n)
      PROVE  Route(Slice(logits, r * file.config.experts, file.config.experts),
                   file.config.expertsPerToken, file.config.normTopk)
               = RouteRow(file, toks, p + r, Before(file, al, p + r))
  BY <1>2, <1>7, Zenon DEF RouteRow
<1>9. routes = [r \in Indices(n) |-> Route(Slice(logits, r * file.config.experts, file.config.experts),
                   file.config.expertsPerToken, file.config.normTopk)]
  BY <1>2, <1>5, Zenon
<1> QED BY <1>8, <1>9, Zenon DEF PassRoute

LEMMA ReferenceRoutesAre ==
  ASSUME NEW n \in Nat, n = work.count, GoodFile(file), Ref(file), LayerIsMoe(file.config, file.layer),
         NEW p \in Nat, NEW toks, NEW al,
         RowsOf(work.normed, n, Hid(file), PassMid(file, toks, al, p, n)),
         NEW routes, routes = [row \in Indices(n) |->
           Route(Slice(DenseProduct("gate"), row * file.config.experts, file.config.experts),
                 file.config.expertsPerToken, file.config.normTopk)]
  PROVE  routes = PassRoute(file, toks, al, p, n)
<1>1. GoodReference(file)
  BY DEF GoodFile
<1>2. PICK m : m = file.tensors["gate"]
  OBVIOUS
<1>3. DenseIs(m, file.config.experts, Hid(file))
  BY <1>1, <1>2, Zenon DEF GoodReference
<1>4. PICK y : y = PassMid(file, toks, al, p, n)
  OBVIOUS
<1>5. PICK logits : logits = DenseProduct("gate")
  OBVIOUS
<1>6. RowsOf(logits, n, file.config.experts, [r \in Indices(n) |-> LinearRow(m, y[r])])
  <2>1. RowsOf(work.normed, n, Hid(file), y)
    BY <1>4
  <2>2. logits = Linear(m, work.normed, n)
    BY <1>2, <1>5, Zenon DEF DenseProduct, TensorOf
  <2>3. RowsOf(Linear(m, work.normed, n), n, file.config.experts,
               [r \in Indices(n) |-> LinearRow(m, y[r])])
    BY <1>3, <2>1, LinearAre
  <2> QED BY <2>2, <2>3, Zenon
<1>7. ASSUME NEW r \in Indices(n)
      PROVE  Slice(logits, r * file.config.experts, file.config.experts)
               = LinearRow(m, MidRow(file, toks, p + r, Before(file, al, p + r)))
  <2>1. Row(logits, r, file.config.experts) = LinearRow(m, y[r])
    BY <1>6, Zenon DEF RowsOf
  <2>2. y[r] = MidRow(file, toks, p + r, Before(file, al, p + r))
    BY <1>4, Zenon DEF PassMid
  <2> QED BY <2>1, <2>2, Zenon DEF Row
<1>8. ASSUME NEW r \in Indices(n)
      PROVE  Route(Slice(logits, r * file.config.experts, file.config.experts),
                   file.config.expertsPerToken, file.config.normTopk)
               = RouteRow(file, toks, p + r, Before(file, al, p + r))
  BY <1>2, <1>7, Zenon DEF RouteRow
<1>9. routes = [r \in Indices(n) |-> Route(Slice(logits, r * file.config.experts, file.config.experts),
                   file.config.expertsPerToken, file.config.normTopk)]
  BY <1>5, Zenon
<1> QED BY <1>8, <1>9, Zenon DEF PassRoute

\* The experts of a pass's rows are those of each.
LEMMA RoutesAreRouted ==
  ASSUME NEW n \in Nat, GoodFile(file), ~Ref(file), NEW p \in Nat, NEW toks, NEW al, NEW routes,
         routes = PassRoute(file, toks, al, p, n)
  PROVE  IsRouted(LW(file).moe.experts, Hid(file), routes, n)
<1>1. GoodMoe(file) /\ GoodConfig(file)
  BY DEF GoodFile, GoodGguf
<1>2. PICK e \in Nat : e = file.config.experts
  BY <1>1 DEF GoodConfig
<1>3. PICK k \in 0..e : k = file.config.expertsPerToken
  BY <1>1, <1>2 DEF GoodConfig
<1>4. PICK m : m = LW(file).moe.router
  OBVIOUS
<1>5. m.rows = e
  BY <1>1, <1>2, <1>4, Zenon DEF GoodMoe, MatrixIs
<1>6. routes = [r \in Indices(n) |-> routes[r]]
  BY DEF PassRoute
<1>7. ASSUME NEW r \in Indices(n)
      PROVE  \A i \in DOMAIN routes[r].experts : routes[r].experts[i] \in Indices(e)
  <2>1. PICK row : row = MidRow(file, toks, p + r, Before(file, al, p + r))
    OBVIOUS
  <2>2. PICK logits : logits = ProductRow(m, row)
    OBVIOUS
  <2>3. routes[r] = Route(logits, k, file.config.normTopk)
    <3>1. routes[r] = RouteRow(file, toks, p + r, Before(file, al, p + r))
      BY Zenon DEF PassRoute
    <3> QED BY <1>3, <1>4, <2>1, <2>2, <3>1, Zenon DEF RouteRow
  <2>4. IsArray(logits, e)
    BY <1>5, <2>2, ProductArray
  <2>5. /\ DOMAIN Route(logits, k, file.config.normTopk).experts = Indices(k)
        /\ \A i \in Indices(k) : Route(logits, k, file.config.normTopk).experts[i] \in Indices(e)
    BY <2>4, RouteIs
  <2> QED BY <2>3, <2>5, Zenon
<1>8. \A x \in Indices(e) : /\ IsExpert(LW(file).moe.experts[x])
                            /\ LW(file).moe.experts[x].gateUp.columns = Hid(file)
                            /\ LW(file).moe.experts[x].down.rows = Hid(file)
  BY <1>1, <1>2, Zenon DEF GoodMoe
<1> QED BY <1>6, <1>7, <1>8, Zenon DEF IsRouted

LEMMA ExpertsAre ==
  ASSUME NEW n \in Nat \ {0}, n = work.count, GoodFile(file), ~Ref(file), weights = LW(file),
         NEW p \in Nat, NEW toks, NEW al,
         RowsOf(work.xs, n, Hid(file), PassHidden(file, toks, al, p, n)),
         RowsOf(work.normed, n, Hid(file), PassMid(file, toks, al, p, n)),
         work.routes = PassRoute(file, toks, al, p, n),
         NEW routed, routed = RoutedExperts(weights.moe.experts, work.normed, Hid(file), work.routes),
         NEW shared, shared = SharedExpert(weights.moe, work.normed, Hid(file), n),
         NEW after, after = [i \in DOMAIN work.xs |-> Plus(work.xs[i], Plus(routed[i], shared[i]))]
  PROVE  RowsOf(after, n, Hid(file), PassLayer(file, toks, al, p, n))
<1>1. GoodMoe(file) /\ GoodConfig(file)
  BY DEF GoodFile, GoodGguf
<1>2. PICK h \in Nat : h = Hid(file)
  BY <1>1, HeadNumbers
<1>3. PICK moe : moe = LW(file).moe
  OBVIOUS
<1>4. PICK flat : flat = work.normed
  OBVIOUS
<1>5. PICK x : x = PassHidden(file, toks, al, p, n)
  OBVIOUS
<1>6. PICK y : y = PassMid(file, toks, al, p, n)
  OBVIOUS
<1>7. PICK routes : routes = work.routes
  OBVIOUS
<1>8. RowsOf(work.xs, n, h, x) /\ RowsOf(flat, n, h, y)
  BY <1>2, <1>4, <1>5, <1>6
<1>9. IsArray(flat, n * h) /\ \A r \in Indices(n) : Row(flat, r, h) = y[r]
  BY <1>8 DEF RowsOf
<1>10. PICK z : z = [r \in Indices(n) |-> RoutedRow(moe.experts, h, y[r], routes[r])]
  OBVIOUS
<1>11. RowsOf(routed, n, h, z)
  <2>1. IsRouted(moe.experts, h, routes, n)
    BY <1>2, <1>3, <1>7, RoutesAreRouted, Zenon
  <2>2. /\ IsArray(RoutedExperts(moe.experts, flat, h, routes), n * h)
        /\ \A r \in Indices(n) : Row(RoutedExperts(moe.experts, flat, h, routes), r, h)
             = RoutedRow(moe.experts, h, Row(flat, r, h), routes[r])
    BY <1>9, <2>1, RoutedExpertsIs
  <2>3. routed = RoutedExperts(moe.experts, flat, h, routes)
    BY <1>2, <1>3, <1>4, <1>7, Zenon
  <2> QED BY <1>9, <1>10, <2>2, <2>3, Zenon DEF RowsOf
<1>12. PICK s : s = [r \in Indices(n) |-> SharedRow(moe, h, y[r])]
  OBVIOUS
<1>13. RowsOf(shared, n, h, s)
  <2>1. /\ IsShape(moe.sharedGateUp) /\ IsShape(moe.sharedDown)
        /\ moe.sharedGateUp.rows = 2 * moe.sharedDown.columns
        /\ moe.sharedGateUp.columns = h /\ moe.sharedDown.rows = h
    BY <1>1, <1>2, <1>3, Zenon DEF GoodMoe
  <2>2. /\ IsArray(SharedExpert(moe, flat, h, n), n * h)
        /\ \A r \in Indices(n) : Row(SharedExpert(moe, flat, h, n), r, h)
             = SharedRow(moe, h, Row(flat, r, h))
    BY <1>9, <2>1, SharedExpertIs
  <2>3. shared = SharedExpert(moe, flat, h, n)
    BY <1>2, <1>3, <1>4, Zenon
  <2> QED BY <1>9, <1>12, <2>2, <2>3, Zenon DEF RowsOf
<1>14. PICK u : u = [r \in Indices(n) |-> SumRow(z[r], s[r], h)]
  OBVIOUS
<1>15. PICK both : both = [i \in DOMAIN routed |-> Plus(routed[i], shared[i])]
  OBVIOUS
<1>16. RowsOf(both, n, h, u)
  <2>1. RowsOf(both, n, h, [r \in Indices(n) |-> SumRow(z[r], s[r], h)])
    BY <1>11, <1>13, <1>15, SumsAre
  <2> QED BY <1>14, <2>1, Zenon
<1>17. after = [i \in DOMAIN work.xs |-> Plus(work.xs[i], both[i])]
  <2>1. DOMAIN routed = Indices(n * h) /\ DOMAIN work.xs = Indices(n * h)
    BY <1>8, <1>11, ArrayDomain, Zenon DEF RowsOf
  <2>2. \A i \in DOMAIN work.xs : both[i] = Plus(routed[i], shared[i])
    BY <1>15, <2>1, Zenon
  <2> QED BY <2>2, Zenon
<1>18. RowsOf(after, n, h, [r \in Indices(n) |-> SumRow(x[r], u[r], h)])
  BY <1>8, <1>16, <1>17, SumsAre
<1>19. [r \in Indices(n) |-> SumRow(x[r], u[r], h)] = PassLayer(file, toks, al, p, n)
  <2>1. ASSUME NEW r \in Indices(n)
        PROVE  SumRow(x[r], u[r], h) = LayerRow(file, toks, p + r, Before(file, al, p + r))
    <3>1. x[r] = HiddenRow(file, toks, p + r, Before(file, al, p + r))
      BY <1>5, Zenon DEF PassHidden
    <3>2. y[r] = MidRow(file, toks, p + r, Before(file, al, p + r))
      BY <1>6, Zenon DEF PassMid
    <3>3. routes[r] = RouteRow(file, toks, p + r, Before(file, al, p + r))
      BY <1>7, Zenon DEF PassRoute
    <3>4. u[r] = SumRow(RoutedRow(moe.experts, h, y[r], routes[r]), SharedRow(moe, h, y[r]), h)
      BY <1>10, <1>12, <1>14, Zenon
    <3>5. u[r] = ExpertsRow(file, toks, p + r, Before(file, al, p + r))
      BY <1>2, <1>3, <3>2, <3>3, <3>4, Zenon DEF ExpertsRow
    <3> QED BY <1>2, <3>1, <3>5, Zenon DEF LayerRow
  <2> QED BY <2>1, Zenon DEF PassLayer
<1> QED BY <1>2, <1>18, <1>19, Zenon

LEMMA ReferenceExpertsAre ==
  ASSUME NEW n \in Nat, n = work.count, GoodFile(file), Ref(file), NEW p \in Nat, NEW toks, NEW al,
         RowsOf(work.xs, n, Hid(file), PassHidden(file, toks, al, p, n)),
         RowsOf(work.normed, n, Hid(file), PassMid(file, toks, al, p, n)),
         LayerIsMoe(file.config, file.layer) => work.routes = PassRoute(file, toks, al, p, n),
         NEW forwarded, forwarded =
           IF LayerIsMoe(file.config, file.layer)
           THEN RoundedAll(HiddenType,
                  SparseMoe(file.experts, SharedMlp(file), file.tensors["shared_expert_gate"],
                            work.normed, Hid(file), work.routes))
           ELSE Mlp(DenseMlp(file), work.normed, n),
         NEW after,
         after = [i \in DOMAIN work.xs |-> Rounded(HiddenType, Plus(work.xs[i], forwarded[i]))]
  PROVE  RowsOf(after, n, Hid(file), PassLayer(file, toks, al, p, n))
<1>1. GoodReference(file) /\ GoodConfig(file)
  BY DEF GoodFile
<1>2. PICK h \in Nat : h = Hid(file)
  BY <1>1, HeadNumbers
<1>3. PICK flat : flat = work.normed
  OBVIOUS
<1>4. PICK x : x = PassHidden(file, toks, al, p, n)
  OBVIOUS
<1>5. PICK y : y = PassMid(file, toks, al, p, n)
  OBVIOUS
<1>6. RowsOf(work.xs, n, h, x) /\ RowsOf(flat, n, h, y)
  BY <1>2, <1>3, <1>4, <1>5
<1>7. IsArray(flat, n * h) /\ \A r \in Indices(n) : Row(flat, r, h) = y[r]
  BY <1>6 DEF RowsOf
<1>8. PICK u : u = [r \in Indices(n) |-> ExpertsRow(file, toks, p + r, Before(file, al, p + r))]
  OBVIOUS
<1>9. \A r \in Indices(n) : y[r] = MidRow(file, toks, p + r, Before(file, al, p + r))
  BY <1>5, Zenon DEF PassMid
<1>10. HiddenType = Typed(file)
  BY Zenon DEF HiddenType, TensorOf, Typed
<1>11. RowsOf(forwarded, n, h, u)
  <2>1. CASE LayerIsMoe(file.config, file.layer)
    <3>1. PICK routes : routes = work.routes
      OBVIOUS
    <3>2. PICK shared : shared = SharedMlp(file)
      OBVIOUS
    <3>3. PICK selector : selector = file.tensors["shared_expert_gate"]
      OBVIOUS
    <3>4. PICK experts : experts = file.experts
      OBVIOUS
    <3>5. IsMlp(shared, h) /\ IsDense(selector) /\ selector.rows = 1 /\ selector.columns = h
      BY <1>1, <1>2, <2>1, <3>2, <3>3, Zenon DEF GoodReference, DenseIs
    <3>6. routes = [r \in Indices(n) |-> routes[r]]
      BY <2>1, <3>1 DEF PassRoute
    <3>7. PICK sparse : sparse = SparseMoe(experts, shared, selector, flat, h, routes)
      OBVIOUS
    <3>8. /\ IsArray(sparse, n * h)
          /\ \A r \in Indices(n) : Row(sparse, r, h)
               = SparseRow(experts, shared, selector, h, Row(flat, r, h), routes[r])
      <4>1. IsArray(flat, n * h)
        BY <1>7
      <4>2. /\ IsArray(SparseMoe(experts, shared, selector, flat, h, routes), n * h)
            /\ \A r \in Indices(n) :
                 Row(SparseMoe(experts, shared, selector, flat, h, routes), r, h)
                   = SparseRow(experts, shared, selector, h, Row(flat, r, h), routes[r])
        BY ONLY n \in Nat, h \in Nat, <3>5, <3>6, <4>1, SparseMoeIs
      <4> QED BY <3>7, <4>2, Zenon
    <3>9. PICK z : z = [r \in Indices(n) |-> SparseRow(experts, shared, selector, h, y[r], routes[r])]
      OBVIOUS
    <3>10. RowsOf(sparse, n, h, z)
      BY <1>7, <3>8, <3>9, Zenon DEF RowsOf
    <3>11. RowsOf(RoundedAll(HiddenType, sparse), n, h,
                  [r \in Indices(n) |-> RoundedRow(HiddenType, z[r], h)])
      BY <3>10, RoundedAre
    <3>12. forwarded = RoundedAll(HiddenType, sparse)
      BY <1>2, <1>3, <2>1, <3>1, <3>2, <3>3, <3>4, <3>7, Zenon
    <3>13. ASSUME NEW r \in Indices(n)
           PROVE  RoundedRow(HiddenType, z[r], h)
                    = ExpertsRow(file, toks, p + r, Before(file, al, p + r))
      <4>1. routes[r] = RouteRow(file, toks, p + r, Before(file, al, p + r))
        BY <2>1, <3>1, Zenon DEF PassRoute
      <4> QED BY <1>2, <1>9, <1>10, <2>1, <3>2, <3>3, <3>4, <3>9, <4>1, Zenon DEF ExpertsRow
    <3> QED BY <1>8, <3>11, <3>12, <3>13, Zenon
  <2>2. CASE ~LayerIsMoe(file.config, file.layer)
    <3>1. PICK mlp : mlp = DenseMlp(file)
      OBVIOUS
    <3>2. IsMlp(mlp, h)
      BY <1>1, <1>2, <2>2, <3>1, Zenon DEF GoodReference
    <3>3. /\ IsArray(Mlp(mlp, flat, n), n * h)
          /\ \A r \in Indices(n) : Row(Mlp(mlp, flat, n), r, h) = MlpRow(mlp, Row(flat, r, h))
      BY <3>2, MlpIs
    <3>4. forwarded = Mlp(mlp, flat, n)
      BY <1>3, <2>2, <3>1, Zenon
    <3>5. ASSUME NEW r \in Indices(n)
          PROVE  MlpRow(mlp, y[r]) = ExpertsRow(file, toks, p + r, Before(file, al, p + r))
      BY <1>9, <2>2, <3>1, Zenon DEF ExpertsRow
    <3> QED BY <1>7, <1>8, <3>3, <3>4, <3>5, Zenon DEF RowsOf
  <2> QED BY <2>1, <2>2
<1>12. RowsOf(after, n, h, [r \in Indices(n) |-> RoundedRow(HiddenType, SumRow(x[r], u[r], h), h)])
  BY <1>6, <1>11, RoundedSumsAre
<1>13. [r \in Indices(n) |-> RoundedRow(HiddenType, SumRow(x[r], u[r], h), h)]
         = PassLayer(file, toks, al, p, n)
  <2>1. ASSUME NEW r \in Indices(n)
        PROVE  RoundedRow(HiddenType, SumRow(x[r], u[r], h), h)
                 = LayerRow(file, toks, p + r, Before(file, al, p + r))
    <3>1. x[r] = HiddenRow(file, toks, p + r, Before(file, al, p + r))
      BY <1>4, Zenon DEF PassHidden
    <3>2. u[r] = ExpertsRow(file, toks, p + r, Before(file, al, p + r))
      BY <1>8, Zenon
    <3> QED BY <1>2, <1>10, <3>1, <3>2, Zenon DEF LayerRow
  <2> QED BY <2>1, Zenon DEF PassLayer
<1> QED BY <1>2, <1>12, <1>13, Zenon

LEMMA FinalAre ==
  ASSUME NEW n \in Nat, n = work.count, GoodFile(file), ~Ref(file), NEW p \in Nat, NEW toks, NEW al,
         RowsOf(work.xs, n, Hid(file), PassLayer(file, toks, al, p, n)), NEW norm,
         norm = IF KindOf(file) = "predictor" THEN "shared_head_norm" ELSE "output_norm"
  PROVE  RowsOf(NormedRows(work.xs, n, file.vectors[norm]), n, Hid(file), PassFinal(file, toks, al, p, n))
<1>1. Hid(file) \in Nat
  BY HeadNumbers DEF GoodFile
<1>2. PICK x : x = PassLayer(file, toks, al, p, n)
  OBVIOUS
<1>3. RowsOf(NormedRows(work.xs, n, file.vectors[norm]), n, Hid(file),
             [r \in Indices(n) |-> RmsNorm(x[r], file.vectors[norm])])
  BY <1>1, <1>2, NormedAre
<1>4. ASSUME NEW r \in Indices(n)
      PROVE  RmsNorm(x[r], file.vectors[norm]) = FinalRow(file, toks, p + r, Before(file, al, p + r))
  BY <1>2, Zenon DEF PassLayer, FinalRow
<1> QED BY <1>3, <1>4, Zenon DEF PassFinal

LEMMA ReferenceFinalAre ==
  ASSUME NEW n \in Nat, n = work.count, GoodFile(file), Ref(file), NEW p \in Nat, NEW toks, NEW al,
         RowsOf(work.xs, n, Hid(file), PassLayer(file, toks, al, p, n))
  PROVE  RowsOf(ReferenceNorm(work.xs, "norm"), n, Hid(file), PassFinal(file, toks, al, p, n))
<1>1. Hid(file) \in Nat
  BY HeadNumbers DEF GoodFile
<1>2. PICK x : x = PassLayer(file, toks, al, p, n)
  OBVIOUS
<1>3. RowsOf(ReferenceNorm(work.xs, "norm"), n, Hid(file),
             [r \in Indices(n) |-> RefNorm(file, x[r], "norm")])
  BY <1>1, <1>2, ReferenceNormedAre
<1>4. ASSUME NEW r \in Indices(n)
      PROVE  RefNorm(file, x[r], "norm") = FinalRow(file, toks, p + r, Before(file, al, p + r))
  BY <1>2, Zenon DEF PassLayer, FinalRow
<1> QED BY <1>3, <1>4, Zenon DEF PassFinal

-----------------------------------------------------------------------------
(***************************************************************************)
(* The logits.                                                             *)
(***************************************************************************)
\* The leading rows of a matrix score as they do in it.
LEMMA LeadingRowsAre ==
  ASSUME NEW m, NEW rowCount \in Nat, NEW w \in Nat, MatrixIs(m, rowCount, w),
         m = [dtype |-> m.dtype, rows |-> m.rows, columns |-> m.columns, blocks |-> m.blocks,
              cpu |-> m.cpu],
         NEW d \in 0..rowCount, NEW row
  PROVE  /\ MatrixIs(LeadingRows(m, d), d, w)
         /\ \A o \in Indices(d) : ProductRow(LeadingRows(m, d), row)[o] = ProductRow(m, row)[o]
<1>1. PICK part : part = LeadingRows(m, d)
  OBVIOUS
<1>2. PICK blocks : blocks = m.blocks
  OBVIOUS
<1>3. m.columns = w /\ m.rows = rowCount
  BY DEF MatrixIs
<1>4. /\ part.dtype = m.dtype /\ part.rows = d /\ part.columns = m.columns /\ part.cpu = m.cpu
      /\ part.blocks = Slice(m.blocks, 0, d * m.columns)
  BY <1>1 DEF LeadingRows
<1>5. MatrixIs(part, d, w)
  BY <1>3, <1>4 DEF MatrixIs, IsShape
<1>6. ASSUME NEW o \in Indices(d)
      PROVE  ProductRow(part, row)[o] = ProductRow(m, row)[o]
  <2>1. o \in Indices(rowCount)
    BY DEF Indices
  <2>2. ASSUME NEW i \in Indices(w) PROVE part.blocks[o * w + i] = blocks[o * w + i]
    <3>1. PICK j : j = o * w + i
      OBVIOUS
    <3>2. j \in Indices(d * w) /\ 0 + j = j
      <4>1. j \in Indices(d * w)
        BY ONLY d \in Nat, w \in Nat, o \in Indices(d), i \in Indices(w), <3>1, IndexJoin
      <4> QED BY <4>1 DEF Indices
    <3>3. Slice(blocks, 0, d * w)[j] = blocks[0 + j]
      BY <3>2, Zenon DEF Slice
    <3> QED BY <1>2, <1>3, <1>4, <3>1, <3>2, <3>3, Zenon
  <2>3. WeightRow(part, o) = WeightRow(m, o)
    BY <1>2, <1>3, <1>4, <2>2, Zenon DEF WeightRow, Slice
  <2>4. ProductAt(part, row, o) = ProductAt(m, row, o)
    BY <1>4, <2>3, Zenon DEF ProductAt, VecDot
  <2>5. ProductRow(part, row)[o] = ProductAt(part, row, o)
    BY <1>4, Zenon DEF ProductRow
  <2>6. ProductRow(m, row)[o] = ProductAt(m, row, o)
    BY <1>3, <2>1, Zenon DEF ProductRow
  <2> QED BY <2>4, <2>5, <2>6
<1> QED BY <1>1, <1>5, <1>6

LEMMA DraftRowsAre ==
  ASSUME NEW f, GoodConfig(f), DraftVocab \in Nat
  PROVE  DraftRows(f) \in 0..f.config.vocab
<1>1. PICK v \in Nat : v = f.config.vocab
  BY DEF GoodConfig
<1>2. CASE DraftVocab = 0
  BY <1>1, <1>2 DEF DraftRows
<1>3. CASE DraftVocab # 0
  <2>1. Min({DraftVocab, v}) \in {DraftVocab, v} /\ Min({DraftVocab, v}) <= v
    BY MinOfTwo
  <2>2. DraftRows(f) = Min({DraftVocab, v})
    BY <1>1, <1>3, Zenon DEF DraftRows
  <2> QED BY <1>1, <2>1, <2>2
<1> QED BY <1>2, <1>3

LEMMA RowNumbers ==
  ASSUME NEW n \in Nat, NEW r \in Indices(n)
  PROVE  r + 1 \in 1..n /\ (r + 1) - 1 = r
BY DEF Indices

LEMMA AllLogitsAre ==
  ASSUME NEW n \in Nat, NEW p \in Nat, NEW toks, NEW al, NEW product, NEW v,
         RowsOf(product, n, v,
                [r \in Indices(n) |-> LogitsRow(file, FinalRow(file, toks, p + r, Before(file, al, p + r)))]),
         NEW logits, logits = [r \in 1..n |-> Slice(product, (r - 1) * v, v)], NEW whole
  PROVE  LogitsTo(file, toks, al, p, n, logits, whole)
<1>1. ASSUME NEW r \in Indices(n)
      PROVE  logits[r + 1] = LogitsRow(file, FinalRow(file, toks, p + r, Before(file, al, p + r)))
  <2>1. r + 1 \in 1..n /\ (r + 1) - 1 = r
    BY RowNumbers
  <2>2. logits[r + 1] = Slice(product, r * v, v)
    BY <2>1, Zenon
  <2>3. Row(product, r, v) = LogitsRow(file, FinalRow(file, toks, p + r, Before(file, al, p + r)))
    BY Zenon DEF RowsOf
  <2> QED BY <2>2, <2>3, Zenon DEF Row
<1> QED BY <1>1, Zenon DEF LogitsTo, AgreesWith

LEMMA ReferenceLogitsAre ==
  ASSUME NEW n \in Nat, n = work.count, GoodFile(file), Ref(file), NEW p \in Nat, NEW toks, NEW al,
         RowsOf(work.normed, n, Hid(file), PassFinal(file, toks, al, p, n)),
         NEW logits, logits = [r \in 1..n |-> Slice(ReferenceLogits, (r - 1) * TensorOf("lm_head").rows,
                                                    TensorOf("lm_head").rows)]
  PROVE  LogitsTo(file, toks, al, p, n, logits, TRUE)
<1>1. GoodReference(file)
  BY DEF GoodFile
<1>2. PICK v : v = file.config.vocab
  OBVIOUS
<1>3. PICK m : m = file.tensors[IF file.config.tied THEN "embed_tokens" ELSE "lm_head"]
  OBVIOUS
<1>4. DenseIs(m, v, Hid(file)) /\ TensorOf("lm_head").rows = v
  <2>1. DenseIs(file.tensors["embed_tokens"], v, Hid(file)) /\ DenseIs(file.tensors["lm_head"], v, Hid(file))
    BY <1>1, <1>2, Zenon DEF GoodReference
  <2>2. TensorOf("lm_head").rows = v
    BY <2>1, Zenon DEF TensorOf, DenseIs
  <2>3. CASE file.config.tied
    BY <1>3, <2>1, <2>2, <2>3, Zenon
  <2>4. CASE ~file.config.tied
    BY <1>3, <2>1, <2>2, <2>4, Zenon
  <2> QED BY <2>3, <2>4
<1>5. PICK y : y = PassFinal(file, toks, al, p, n)
  OBVIOUS
<1>6. RowsOf(Linear(m, work.normed, n), n, v, [r \in Indices(n) |-> LinearRow(m, y[r])])
  BY <1>4, <1>5, LinearAre
<1>7. [r \in Indices(n) |-> LinearRow(m, y[r])]
        = [r \in Indices(n) |-> LogitsRow(file, FinalRow(file, toks, p + r, Before(file, al, p + r)))]
  <2>1. ASSUME NEW r \in Indices(n)
        PROVE  LinearRow(m, y[r]) = LogitsRow(file, FinalRow(file, toks, p + r, Before(file, al, p + r)))
    <3>1. y[r] = FinalRow(file, toks, p + r, Before(file, al, p + r))
      BY <1>5, Zenon DEF PassFinal
    <3> QED BY <1>3, <3>1, Zenon DEF LogitsRow
  <2> QED BY <2>1, Zenon
<1>8. ReferenceLogits = Linear(m, work.normed, n)
  BY <1>3, Zenon DEF ReferenceLogits, DenseProduct, TensorOf
<1>9. logits = [r \in 1..n |-> Slice(Linear(m, work.normed, n), (r - 1) * v, v)]
  BY <1>4, <1>8, Zenon
<1>10. PICK product : product = Linear(m, work.normed, n)
  OBVIOUS
<1>11. RowsOf(product, n, v,
         [r \in Indices(n) |-> LogitsRow(file, FinalRow(file, toks, p + r, Before(file, al, p + r)))])
  BY <1>6, <1>7, <1>10, Zenon
<1>12. logits = [r \in 1..n |-> Slice(product, (r - 1) * v, v)]
  BY <1>9, <1>10, Zenon
<1> QED BY ONLY n \in Nat, p \in Nat, <1>11, <1>12, AllLogitsAre

LEMMA HeadRowsAre ==
  ASSUME NEW n \in Nat, n = work.count, GoodFile(file), ~Ref(file),
         NEW p \in Nat, NEW toks, NEW al,
         RowsOf(work.normed, n, Hid(file), PassFinal(file, toks, al, p, n)),
         NEW logits, logits = [r \in 1..n |-> Slice(Product(LW(file).head), (r - 1) * LW(file).head.rows,
                                                    LW(file).head.rows)], NEW whole
  PROVE  LogitsTo(file, toks, al, p, n, logits, whole)
<1>1. PICK v : v = file.config.vocab
  OBVIOUS
<1>2. PICK m : m = LW(file).head
  OBVIOUS
<1>3. MatrixIs(m, v, Hid(file)) /\ m.rows = v
  BY <1>1, <1>2, Zenon DEF GoodFile, GoodGguf, MatrixIs
<1>4. PICK y : y = PassFinal(file, toks, al, p, n)
  OBVIOUS
<1>5. RowsOf(ForwardRows(m, work.normed, n, "pool"), n, v, [r \in Indices(n) |-> ProductRow(m, y[r])])
  BY <1>3, <1>4, ForwardAre
<1>6. [r \in Indices(n) |-> ProductRow(m, y[r])]
        = [r \in Indices(n) |-> LogitsRow(file, FinalRow(file, toks, p + r, Before(file, al, p + r)))]
  <2>1. ASSUME NEW r \in Indices(n)
        PROVE  ProductRow(m, y[r]) = LogitsRow(file, FinalRow(file, toks, p + r, Before(file, al, p + r)))
    <3>1. y[r] = FinalRow(file, toks, p + r, Before(file, al, p + r))
      BY <1>4, Zenon DEF PassFinal
    <3> QED BY <1>2, <3>1, Zenon DEF LogitsRow
  <2> QED BY <2>1, Zenon
<1>7. Product(m) = ForwardRows(m, work.normed, n, "pool")
  BY Zenon DEF Product, Forward
<1>8. logits = [r \in 1..n |-> Slice(ForwardRows(m, work.normed, n, "pool"), (r - 1) * v, v)]
  BY <1>2, <1>3, <1>7, Zenon
<1>9. PICK product : product = ForwardRows(m, work.normed, n, "pool")
  OBVIOUS
<1>10. RowsOf(product, n, v,
         [r \in Indices(n) |-> LogitsRow(file, FinalRow(file, toks, p + r, Before(file, al, p + r)))])
  BY <1>5, <1>6, <1>9, Zenon
<1>11. logits = [r \in 1..n |-> Slice(product, (r - 1) * v, v)]
  BY <1>8, <1>9, Zenon
<1> QED BY ONLY n \in Nat, p \in Nat, <1>10, <1>11, AllLogitsAre

\* Drafts are scored against the leading rows of the head.
LEMMA DraftLogitsAre ==
  ASSUME NEW n \in Nat, n = work.count, GoodFile(file), ~Ref(file), DraftVocab \in Nat,
         NEW p \in Nat, NEW toks, NEW al,
         RowsOf(work.normed, n, Hid(file), PassFinal(file, toks, al, p, n)),
         NEW logits, logits = [r \in 1..n |->
           Slice(Product(LW(file).draftHead), (r - 1) * LW(file).draftHead.rows, LW(file).draftHead.rows)]
  PROVE  LogitsTo(file, toks, al, p, n, logits, FALSE)
<1>1. PICK v \in Nat : v = file.config.vocab
  BY DEF GoodFile, GoodConfig
<1>2. PICK w \in Nat : w = Hid(file)
  BY HeadNumbers DEF GoodFile
<1>3. PICK d \in 0..v : d = DraftRows(file)
  BY <1>1, DraftRowsAre DEF GoodFile
<1>4. PICK head : head = LW(file).head
  OBVIOUS
<1>5. PICK m : m = LW(file).draftHead
  OBVIOUS
<1>6. MatrixIs(head, v, w)
  BY <1>1, <1>2, <1>4, Zenon DEF GoodFile, GoodGguf
<1>7. head = [dtype |-> head.dtype, rows |-> head.rows, columns |-> head.columns, blocks |-> head.blocks,
              cpu |-> head.cpu]
  BY <1>4 DEF LW, LoadWeights, Matrix, MatrixOf
<1>8. m = LeadingRows(head, d)
  BY <1>3, <1>4, <1>5 DEF LW, LoadWeights
<1>9. MatrixIs(m, d, w) /\ m.rows = d
  BY <1>6, <1>7, <1>8, LeadingRowsAre DEF MatrixIs
<1>10. PICK y : y = PassFinal(file, toks, al, p, n)
  OBVIOUS
<1>11. PICK product : product = Product(m)
  OBVIOUS
<1>12. RowsOf(product, n, d, [r \in Indices(n) |-> ProductRow(m, y[r])])
  <2>1. RowsOf(ForwardRows(m, work.normed, n, "pool"), n, d, [r \in Indices(n) |-> ProductRow(m, y[r])])
    BY <1>2, <1>9, <1>10, ForwardAre
  <2> QED BY <1>11, <2>1, Zenon DEF Product, Forward
<1>13. ASSUME NEW r \in Indices(n)
       PROVE  AgreesWith(logits[r + 1], LogitsRow(file, FinalRow(file, toks, p + r, Before(file, al, p + r))))
  <2>1. r + 1 \in 1..n /\ (r + 1) - 1 = r
    BY RowNumbers
  <2>2. logits[r + 1] = Slice(product, r * d, d)
    BY <1>5, <1>9, <1>11, <2>1, Zenon
  <2>3. PICK row : row = y[r]
    OBVIOUS
  <2>4. logits[r + 1] = ProductRow(m, row)
    BY <1>12, <2>2, <2>3, Zenon DEF RowsOf, Row
  <2>5. \A o \in Indices(d) : ProductRow(m, row)[o] = ProductRow(head, row)[o]
    BY <1>6, <1>7, <1>8, LeadingRowsAre
  <2>6. DOMAIN ProductRow(m, row) = Indices(d)
    BY <1>9, Zenon DEF ProductRow
  <2>7. LogitsRow(file, FinalRow(file, toks, p + r, Before(file, al, p + r))) = ProductRow(head, row)
    <3>1. row = FinalRow(file, toks, p + r, Before(file, al, p + r))
      BY <1>10, <2>3, Zenon DEF PassFinal
    <3> QED BY <1>4, <3>1, Zenon DEF LogitsRow
  <2> QED BY <2>4, <2>5, <2>6, <2>7, Zenon DEF AgreesWith
<1> QED BY <1>13, Zenon DEF LogitsTo

LEMMA LastLogitsAre ==
  ASSUME NEW n \in Nat \ {0}, n = work.count, GoodFile(file), ~Ref(file),
         NEW p \in Nat, NEW toks, NEW al,
         RowsOf(work.normed, n, Hid(file), PassFinal(file, toks, al, p, n)),
         NEW last, last = Slice(work.normed, (n - 1) * Hid(file), Hid(file)),
         NEW logits, logits = [r \in 1..n |-> IF r = n THEN Forward(LW(file).head, last, 1) ELSE Nothing]
  PROVE  LogitsTo(file, toks, al, p, n, logits, FALSE)
<1>1. PICK v \in Nat : v = file.config.vocab
  BY DEF GoodFile, GoodConfig
<1>2. PICK w \in Nat : w = Hid(file)
  BY HeadNumbers DEF GoodFile
<1>3. PICK head : head = LW(file).head
  OBVIOUS
<1>4. MatrixIs(head, v, w)
  BY <1>1, <1>2, <1>3, Zenon DEF GoodFile, GoodGguf
<1>5. n - 1 \in Indices(n) /\ 0 \in Indices(1) /\ 1 \in Nat
  BY DEF Indices
<1>6. PICK row : row = FinalRow(file, toks, p + (n - 1), Before(file, al, p + (n - 1)))
  OBVIOUS
<1>7. last = row
  <2>1. Row(work.normed, n - 1, w) = PassFinal(file, toks, al, p, n)[n - 1]
    BY <1>2, <1>5, Zenon DEF RowsOf
  <2>2. PassFinal(file, toks, al, p, n)[n - 1] = row
    BY <1>5, <1>6, Zenon DEF PassFinal
  <2> QED BY <1>2, <2>1, <2>2, Zenon DEF Row
<1>8. PICK after : after = Forward(head, last, 1)
  OBVIOUS
<1>9. after = ProductRow(head, row)
  <2>1. IsArray(last, w) /\ IsArray(last, 1 * w)
    <3>1. IsArray(last, w)
      BY <1>2, SliceElements
    <3> QED BY <3>1
  <2>2. Row(last, 0, w) = last
    <3>1. \A c \in Indices(w) : last[0 * w + c] = last[c]
      BY DEF Indices
    <3> QED BY <2>1, <3>1, RowIs
  <2>3. RowsOf(last, 1, w, [r \in Indices(1) |-> last])
    <3>1. \A r \in Indices(1) : r = 0
      BY DEF Indices
    <3> QED BY <2>1, <2>2, <3>1, Zenon DEF RowsOf
  <2>4. PICK y : y = [r \in Indices(1) |-> last]
    OBVIOUS
  <2>5. RowsOf(ForwardRows(head, last, 1, "pool"), 1, v, [r \in Indices(1) |-> ProductRow(head, y[r])])
    BY <1>4, <1>5, <2>3, <2>4, ForwardAre
  <2>6. RowsOf(after, 1, v, [r \in Indices(1) |-> ProductRow(head, y[r])])
    BY <1>8, <2>5, Zenon DEF Forward
  <2>7. IsArray(after, v) /\ Row(after, 0, v) = ProductRow(head, row)
    <3>1. IsArray(after, 1 * v) /\ Row(after, 0, v) = ProductRow(head, y[0])
      BY <1>5, <2>6, Zenon DEF RowsOf
    <3>2. 1 * v = v
      OBVIOUS
    <3> QED BY <1>5, <1>7, <2>4, <3>1, <3>2, Zenon
  <2>8. Row(after, 0, v) = after
    <3>1. \A c \in Indices(v) : after[0 * v + c] = after[c]
      BY DEF Indices
    <3> QED BY <2>7, <3>1, RowIs
  <2> QED BY <2>7, <2>8
<1>10. ASSUME NEW r \in Indices(n)
       PROVE  AgreesWith(logits[r + 1], LogitsRow(file, FinalRow(file, toks, p + r, Before(file, al, p + r))))
  <2>1. r + 1 \in 1..n
    BY RowNumbers
  <2>2. CASE r = n - 1
    <3>1. r + 1 = n
      BY <2>2
    <3>2. logits[r + 1] = after
      BY <1>3, <1>8, <2>1, <3>1, Zenon
    <3>3. LogitsRow(file, row) = ProductRow(head, row)
      BY <1>3, Zenon DEF LogitsRow
    <3> QED BY <1>6, <1>9, <2>2, <3>2, <3>3, Zenon DEF AgreesWith
  <2>3. CASE r # n - 1
    <3>1. r + 1 # n
      BY <2>3 DEF Indices
    <3>2. logits[r + 1] = Nothing
      BY <2>1, <3>1, Zenon
    <3>3. DOMAIN Nothing = {}
      BY DEF Nothing
    <3> QED BY <3>2, <3>3, Zenon DEF AgreesWith
  <2> QED BY <2>2, <2>3
<1> QED BY <1>10, Zenon DEF LogitsTo

LEMMA NoLogitsAre ==
  ASSUME NEW f, NEW n \in Nat, NEW p, NEW toks, NEW al, NEW logits, logits = [r \in 1..n |-> Nothing]
  PROVE  LogitsTo(f, toks, al, p, n, logits, FALSE)
<1>1. \A r \in Indices(n) : logits[r + 1] = Nothing
  BY RowNumbers, Zenon
<1>2. DOMAIN Nothing = {}
  BY DEF Nothing
<1> QED BY <1>1, <1>2, Zenon DEF LogitsTo, AgreesWith

LEMMA LogitsAre ==
  ASSUME NEW n \in Nat \ {0}, n = work.count, GoodFile(file), ~Ref(file) => weights = LW(file),
         DraftVocab \in Nat, NEW p \in Nat, NEW toks, NEW al,
         RowsOf(work.normed, n, Hid(file), PassFinal(file, toks, al, p, n)), work.lone \in BOOLEAN
  PROVE  LogitsTo(file, toks, al, p, n, Logits, work.lone)
<1>1. CASE Ref(file)
  <2>1. Logits = [r \in 1..n |-> Slice(ReferenceLogits, (r - 1) * TensorOf("lm_head").rows,
                                       TensorOf("lm_head").rows)]
    BY <1>1, Zenon DEF Logits, Ref, IsReference
  <2>2. LogitsTo(file, toks, al, p, n, Logits, TRUE)
    BY <1>1, <2>1, ReferenceLogitsAre
  <2> QED BY <2>2, Zenon DEF LogitsTo
<1>2. CASE ~Ref(file)
  <2> DEFINE wanted == IF work.lone THEN "all" ELSE asked.logits
  <2>0. ~IsReference
    BY <1>2 DEF IsReference, Ref
  <2>1. CASE wanted = "all"
    <3>1. Logits = [r \in 1..n |-> Slice(Product(LW(file).head), (r - 1) * LW(file).head.rows,
                                         LW(file).head.rows)]
      BY <1>2, <2>0, <2>1 DEF Logits
    <3> QED BY <1>2, <3>1, HeadRowsAre
  <2>2. CASE wanted = "drafts"
    <3>1. Logits = [r \in 1..n |-> Slice(Product(LW(file).draftHead), (r - 1) * LW(file).draftHead.rows,
                                         LW(file).draftHead.rows)]
      BY <1>2, <2>0, <2>2 DEF Logits
    <3>2. work.lone = FALSE
      BY <2>2
    <3> QED BY <1>2, <3>1, <3>2, DraftLogitsAre
  <2>3. CASE wanted = "last"
    <3>1. Logits = [r \in 1..n |-> IF r = n THEN Forward(LW(file).head,
                                     Slice(work.normed, (n - 1) * Hid(file), Hid(file)), 1) ELSE Nothing]
      BY <1>2, <2>0, <2>3 DEF Logits, Hid
    <3>2. work.lone = FALSE
      BY <2>3
    <3> QED BY <1>2, <3>1, <3>2, LastLogitsAre
  <2>4. CASE wanted \notin {"all", "drafts", "last"}
    <3>1. Logits = [r \in 1..n |-> Nothing]
      BY <1>2, <2>0, <2>4 DEF Logits
    <3>2. work.lone = FALSE
      BY <2>4
    <3> QED BY <3>1, <3>2, NoLogitsAre
  <2> QED BY <2>1, <2>2, <2>3, <2>4
<1> QED BY <1>1, <1>2

-----------------------------------------------------------------------------
(***************************************************************************)
(* The recurrence, a row at a time.                                        *)
(***************************************************************************)
LEMMA StepOutput ==
  ASSUME NEW f, NEW token, NEW before
  PROVE  IsArray(DeltaStep(f, token, before).output, ValueDim(Heads(f)))
<1>1. ASSUME NEW h, NEW input, NEW betaAlpha, NEW vectors, NEW state
      PROVE  IsArray(DeltaRow(h, input, betaAlpha, vectors, state).output, ValueDim(h))
  BY DEF DeltaRow, IsArray
<1> QED BY <1>1, Zenon DEF DeltaStep

\* A row put after the others.
LEMMA AppendedRow ==
  ASSUME NEW t \in Nat, NEW w \in Nat, NEW mixed, NEW y, RowsOf(mixed, t, w, y),
         NEW out, IsArray(out, w), NEW z, \A r \in Indices(t) : z[r] = y[r], z[t] = out
  PROVE  RowsOf(Concatenated(mixed, out), t + 1, w, z)
<1>1. PICK after : after = Concatenated(mixed, out)
  OBVIOUS
<1>2. IsArray(mixed, t * w) /\ \A r \in Indices(t) : Row(mixed, r, w) = y[r]
  BY DEF RowsOf
<1>3. IsArray(out, 1 * w)
  BY 1 * w = w
<1>4. /\ IsArray(after, (t + 1) * w)
      /\ \A r \in Indices(t) : Row(after, r, w) = Row(mixed, r, w)
      /\ \A r \in Indices(1) : Row(after, t + r, w) = Row(out, r, w)
  <2>1. 1 \in Nat
    OBVIOUS
  <2>2. /\ IsArray(Concatenated(mixed, out), (t + 1) * w)
        /\ \A r \in Indices(t) : Row(Concatenated(mixed, out), r, w) = Row(mixed, r, w)
        /\ \A r \in Indices(1) : Row(Concatenated(mixed, out), t + r, w) = Row(out, r, w)
    BY ONLY t \in Nat, w \in Nat, <1>2, <1>3, <2>1, ConcatenatedIs
  <2> QED BY <1>1, <2>2, Zenon
<1>5. Row(after, t, w) = out
  <2>1. 0 \in Indices(1) /\ t + 0 = t
    BY DEF Indices
  <2>2. Row(out, 0, w) = out
    <3>1. \A c \in Indices(w) : out[0 * w + c] = out[c]
      BY DEF Indices
    <3> QED BY <3>1, RowIs
  <2> QED BY <1>4, <2>1, <2>2
<1>6. ASSUME NEW r \in Indices(t + 1) PROVE Row(after, r, w) = z[r]
  <2>1. r \in Indices(t) \/ r = t
    BY DEF Indices
  <2> QED BY <1>2, <1>4, <1>5, <2>1
<1> QED BY <1>1, <1>4, <1>6 DEF RowsOf

\* A row consumed.
LEMMA ConsumedIs ==
  ASSUME NEW f, GoodConfig(f), NEW n \in Nat, NEW t \in Indices(n), NEW p \in Nat,
         KindOf(f) = "linear", NEW toks, NEW al, NEW tokens, TokensFrom(tokens, toks, p, n),
         NEW qkv, qkv = QkvRows(f, tokens, n), NEW betaAlpha, betaAlpha = BetaAlphaRows(f, tokens, n),
         NEW mixed, RowsOf(mixed, t, ValueDim(Heads(f)), PassStep(f, toks, al, p, t)), NEW step,
         step = DeltaRow(Heads(f), qkv[t], betaAlpha[t], DeltaVectors(f), Before(f, al, p + t))
  PROVE  /\ RowsOf(Concatenated(mixed, step.output), t + 1, ValueDim(Heads(f)),
                   PassStep(f, toks, al, p, t + 1))
         /\ [conv |-> step.conv, recurrent |-> step.recurrent]
              = StateAfter(f, toks, p + t, Before(f, al, p + t))
<1>1. PICK w \in Nat : w = ValueDim(Heads(f))
  BY HeadNumbers
<1>2. tokens[t + 1] = toks[p + t + 1]
  BY DEF TokensFrom
<1>3. qkv[t] = QkvRow(f, tokens[t + 1]) /\ betaAlpha[t] = BetaAlphaRow(f, tokens[t + 1])
  BY Zenon DEF QkvRows, BetaAlphaRows
<1>4. step = DeltaStep(f, toks[p + t + 1], Before(f, al, p + t))
  BY <1>2, <1>3, Zenon DEF DeltaStep
<1>5. PICK out : out = step.output
  OBVIOUS
<1>6. IsArray(out, w)
  BY <1>1, <1>4, <1>5, StepOutput
<1>7. PICK y : y = PassStep(f, toks, al, p, t)
  OBVIOUS
<1>8. PICK z : z = PassStep(f, toks, al, p, t + 1)
  OBVIOUS
<1>9. t \in Nat /\ t \in Indices(t + 1) /\ \A r \in Indices(t) : r \in Indices(t + 1)
  BY DEF Indices
<1>10. \A r \in Indices(t) : z[r] = y[r]
  BY <1>7, <1>8, <1>9, Zenon DEF PassStep
<1>11. z[t] = out
  BY <1>4, <1>5, <1>8, <1>9, Zenon DEF PassStep
<1>12. RowsOf(mixed, t, w, y)
  BY <1>1, <1>7
<1>13. RowsOf(Concatenated(mixed, out), t + 1, w, z)
  BY <1>6, <1>9, <1>10, <1>11, <1>12, AppendedRow
<1>14. [conv |-> step.conv, recurrent |-> step.recurrent]
         = StateAfter(f, toks, p + t, Before(f, al, p + t))
  BY <1>4, Zenon DEF StateAfter
<1> QED BY <1>1, <1>5, <1>8, <1>13, <1>14

\* The rows of the gated norm.
LEMMA GatedRows ==
  ASSUME NEW f, GoodConfig(f), NEW n \in Nat, NEW mixed, NEW y, RowsOf(mixed, n, ValueDim(Heads(f)), y),
         NEW gates, NEW z, RowsOf(gates, n, ValueDim(Heads(f)), z), NEW weight
  PROVE  RowsOf(GatedNorm(Heads(f), mixed, gates, weight), n, ValueDim(Heads(f)),
                [r \in Indices(n) |-> GatedNorm(Heads(f), y[r], z[r], weight)])
<1>1. PICK h : h = Heads(f)
  OBVIOUS
<1>2. h.value \in Nat /\ h.valueDim \in Nat
  BY <1>1, HeadNumbers
<1>3. IsArray(mixed, n * ValueDim(h)) /\ \A r \in Indices(n) : Row(mixed, r, ValueDim(h)) = y[r]
  BY <1>1, Zenon DEF RowsOf
<1>4. \A r \in Indices(n) : Row(gates, r, ValueDim(h)) = z[r]
  BY <1>1, Zenon DEF RowsOf
<1>5. /\ IsArray(GatedNorm(h, mixed, gates, weight), n * ValueDim(h))
      /\ \A r \in Indices(n) : Row(GatedNorm(h, mixed, gates, weight), r, ValueDim(h))
           = GatedNorm(h, Row(mixed, r, ValueDim(h)), Row(gates, r, ValueDim(h)), weight)
  BY <1>2, <1>3, GatedNormIs
<1> QED BY <1>1, <1>3, <1>4, <1>5, Zenon DEF RowsOf

LEMMA DeltaMixedAre ==
  ASSUME NEW f, GoodConfig(f), ~Ref(f), KindOf(f) = "linear", NEW n \in Nat, NEW p \in Nat,
         NEW toks, NEW al, NEW tokens, TokensFrom(tokens, toks, p, n),
         NEW mixed, RowsOf(mixed, n, ValueDim(Heads(f)), PassStep(f, toks, al, p, n)),
         NEW gates, RowsOf(gates, n, ValueDim(Heads(f)), GateRows(f, tokens, n))
  PROVE  RowsOf(GatedNorm(Heads(f), mixed, gates, f.vectors["ssm_norm"]), n, MixWidth(f),
                PassMix(f, toks, al, p, n))
<1>1. PICK y : y = PassStep(f, toks, al, p, n)
  OBVIOUS
<1>2. PICK z : z = GateRows(f, tokens, n)
  OBVIOUS
<1>3. RowsOf(GatedNorm(Heads(f), mixed, gates, f.vectors["ssm_norm"]), n, ValueDim(Heads(f)),
             [r \in Indices(n) |-> GatedNorm(Heads(f), y[r], z[r], f.vectors["ssm_norm"])])
  BY <1>1, <1>2, GatedRows
<1>4. ASSUME NEW r \in Indices(n)
      PROVE  GatedNorm(Heads(f), y[r], z[r], f.vectors["ssm_norm"]) = MixRow(f, toks, p + r, Before(f, al, p + r))
  <2>1. y[r] = DeltaStep(f, toks[p + r + 1], Before(f, al, p + r)).output
    BY <1>1, Zenon DEF PassStep
  <2>2. z[r] = DeltaGates(f, toks[p + r + 1])
    BY <1>2, Zenon DEF GateRows, TokensFrom
  <2> QED BY <2>1, <2>2, Zenon DEF MixRow, DeltaMixed
<1>5. MixWidth(f) = ValueDim(Heads(f))
  BY Zenon DEF MixWidth
<1> QED BY <1>3, <1>4, <1>5, Zenon DEF PassMix

LEMMA ReferenceDeltaMixedAre ==
  ASSUME NEW f, GoodConfig(f), Ref(f), KindOf(f) = "linear", NEW n \in Nat, NEW p \in Nat,
         NEW toks, NEW al, NEW tokens, TokensFrom(tokens, toks, p, n),
         NEW mixed, RowsOf(mixed, n, ValueDim(Heads(f)), PassStep(f, toks, al, p, n)),
         NEW gates, RowsOf(gates, n, ValueDim(Heads(f)), GateRows(f, tokens, n))
  PROVE  RowsOf(RoundedAll(Typed(f), GatedNorm(Heads(f), RoundedAll(Typed(f), mixed), gates,
                                               f.vectors["linear_norm"])), n, MixWidth(f),
                PassMix(f, toks, al, p, n))
<1>1. PICK y : y = PassStep(f, toks, al, p, n)
  OBVIOUS
<1>2. PICK z : z = GateRows(f, tokens, n)
  OBVIOUS
<1>3. PICK w \in Nat : w = ValueDim(Heads(f))
  BY HeadNumbers
<1>4. PICK u : u = [r \in Indices(n) |-> RoundedRow(Typed(f), y[r], w)]
  OBVIOUS
<1>5. PICK rounded : rounded = RoundedAll(Typed(f), mixed)
  OBVIOUS
<1>6. RowsOf(rounded, n, w, u)
  <2>1. RowsOf(RoundedAll(Typed(f), mixed), n, w, [r \in Indices(n) |-> RoundedRow(Typed(f), y[r], w)])
    BY <1>1, <1>3, RoundedAre
  <2> QED BY <1>4, <1>5, <2>1, Zenon
<1>7. PICK normed : normed = GatedNorm(Heads(f), rounded, gates, f.vectors["linear_norm"])
  OBVIOUS
<1>8. PICK v : v = [r \in Indices(n) |-> GatedNorm(Heads(f), u[r], z[r], f.vectors["linear_norm"])]
  OBVIOUS
<1>9. RowsOf(normed, n, w, v)
  <2>1. RowsOf(GatedNorm(Heads(f), rounded, gates, f.vectors["linear_norm"]), n, ValueDim(Heads(f)),
               [r \in Indices(n) |-> GatedNorm(Heads(f), u[r], z[r], f.vectors["linear_norm"])])
    BY <1>2, <1>3, <1>6, GatedRows
  <2> QED BY <1>3, <1>7, <1>8, <2>1, Zenon
<1>10. RowsOf(RoundedAll(Typed(f), normed), n, w, [r \in Indices(n) |-> RoundedRow(Typed(f), v[r], w)])
  BY <1>9, RoundedAre
<1>11. ASSUME NEW r \in Indices(n)
       PROVE  RoundedRow(Typed(f), v[r], w) = MixRow(f, toks, p + r, Before(f, al, p + r))
  <2>1. y[r] = DeltaStep(f, toks[p + r + 1], Before(f, al, p + r)).output
    BY <1>1, Zenon DEF PassStep
  <2>2. z[r] = DeltaGates(f, toks[p + r + 1])
    BY <1>2, Zenon DEF GateRows, TokensFrom
  <2>3. v[r] = GatedNorm(Heads(f), RoundedRow(Typed(f), y[r], w), z[r], f.vectors["linear_norm"])
    BY <1>4, <1>8, Zenon
  <2> QED BY <1>3, <2>1, <2>2, <2>3, Zenon DEF MixRow, DeltaMixed
<1>12. MixWidth(f) = w
  BY <1>3, Zenon DEF MixWidth
<1> QED BY <1>5, <1>7, <1>10, <1>11, <1>12, Zenon DEF PassMix

-----------------------------------------------------------------------------
(***************************************************************************)
(* Loading.                                                                *)
(***************************************************************************)
LEMMA ConfigNumbers ==
  ASSUME NEW f, IsTyped(f)
  PROVE  /\ f.config.vocab \in Nat /\ f.config.hidden \in Nat /\ f.config.layers \in Nat
         /\ f.config.queryHeads \in Nat /\ f.config.kvHeads \in Nat /\ f.config.headDim \in Nat
         /\ f.config.keyHeads \in Nat /\ f.config.valueHeads \in Nat
         /\ f.config.keyDim \in Nat /\ f.config.valueDim \in Nat
         /\ f.config.experts \in Nat /\ f.config.expertsPerToken \in Nat
         /\ f.config.intermediate \in Nat /\ f.config.sharedIntermediate \in Nat /\ f.config.dense \in Nat
         /\ f.threads \in Nat
BY DEF IsTyped, Numbers

LEMMA Multiple ==
  ASSUME NEW n \in Nat, NEW m \in Nat, IsMultipleOf(n, m)
  PROVE  \E g \in Nat : n = g * m
<1>1. CASE m = 0
  <2>1. n = 0 * m /\ 0 \in Nat
    BY <1>1 DEF IsMultipleOf
  <2> QED BY <2>1
<1>2. CASE m # 0
  <2>1. (n % m) = 0
    BY <1>2 DEF IsMultipleOf
  <2>2. m \in Nat \ {0}
    BY <1>2
  <2>3. n \div m \in Nat
    BY <2>2, DivNat
  <2>4. PICK g \in Nat : g = n \div m
    BY <2>3
  <2>5. n = m * g + (n % m)
    BY <2>2, <2>4
  <2>6. n = g * m
    BY <2>1, <2>5
  <2> QED BY <2>6
<1> QED BY <1>1, <1>2

LEMMA GoodConfigIs ==
  ASSUME NEW f, IsTyped(f), Valid(f.config)
  PROVE  GoodConfig(f)
<1>1. /\ f.config.vocab > 0 /\ f.config.hidden > 0 /\ f.config.queryHeads > 0 /\ f.config.kvHeads > 0
      /\ f.config.headDim > 0 /\ f.config.experts > 0 /\ f.config.expertsPerToken > 0
      /\ f.config.expertsPerToken <= f.config.experts
      /\ IsMultipleOf(f.config.queryHeads, f.config.kvHeads)
      /\ IsMultipleOf(f.config.valueHeads, f.config.keyHeads)
  BY DEF Valid
<1>2. /\ f.config.hidden \in Nat \ {0} /\ f.config.vocab \in Nat /\ f.threads \in Nat
      /\ f.config.experts \in Nat \ {0} /\ f.config.expertsPerToken \in 0..f.config.experts
      /\ f.config.queryHeads \in Nat \ {0} /\ f.config.kvHeads \in Nat \ {0}
      /\ f.config.headDim \in Nat \ {0}
  BY <1>1, ConfigNumbers
<1>3. \E g \in Nat \ {0} : f.config.queryHeads = g * f.config.kvHeads
  <2>1. PICK q \in Nat \ {0} : q = f.config.queryHeads
    BY <1>2
  <2>2. PICK k \in Nat \ {0} : k = f.config.kvHeads
    BY <1>2
  <2>3. PICK g \in Nat : q = g * k
    BY <1>1, <2>1, <2>2, Multiple
  <2>4. g # 0
    BY <2>1, <2>2, <2>3
  <2> QED BY <2>1, <2>2, <2>3, <2>4
<1>4. PICK h : h = Heads(f)
  OBVIOUS
<1>5. h.key = f.config.keyHeads /\ h.value = f.config.valueHeads /\ h.keyDim = f.config.keyDim
      /\ h.valueDim = f.config.valueDim
  BY <1>4 DEF Heads
<1>6. PICK key \in Nat : key = f.config.keyHeads
  BY ConfigNumbers
<1>7. PICK value \in Nat : value = f.config.valueHeads
  BY ConfigNumbers
<1>8. PICK g \in Nat : value = g * key
  BY <1>1, <1>6, <1>7, Multiple
<1>9. key = 0 => value = 0
  BY <1>8
<1>10. h.key \in Nat /\ h.value \in Nat /\ h.keyDim \in Nat /\ h.valueDim \in Nat
  BY <1>5, ConfigNumbers
<1>11. (h.key = 0 => h.value = 0) /\ \E x \in Nat : h.key # 0 => h.value = x * h.key
  BY <1>5, <1>6, <1>7, <1>8, <1>9
<1> QED BY <1>2, <1>3, <1>4, <1>10, <1>11, Zenon DEF GoodConfig

\* A matrix loaded from a file.
LEMMA MatrixLoaded ==
  ASSUME NEW f, f.cpu.exact = TRUE, NEW tensor, NEW rowCount \in Nat, NEW columns \in Nat,
         IsMatrix(tensor, rowCount, columns)
  PROVE  MatrixIs(MatrixOf(f, tensor), rowCount, columns)
BY DEF MatrixIs, MatrixOf, IsMatrix, IsShape

LEMMA ShapedIs ==
  ASSUME NEW f, f.cpu.exact = TRUE, NEW name, NEW rowCount \in Nat, NEW columns \in Nat,
         Shaped(f, name, rowCount, columns)
  PROVE  MatrixIs(Matrix(f, name), rowCount, columns)
<1>1. IsMatrix(f.tensors[name], rowCount, columns)
  BY DEF Shaped
<1> QED BY <1>1, MatrixLoaded, Zenon DEF Matrix

LEMMA StackedIs ==
  ASSUME NEW f, f.cpu.exact = TRUE, NEW first, NEW second, NEW a \in Nat, NEW b \in Nat,
         NEW columns \in Nat, IsMatrix(first, a, columns), IsMatrix(second, b, columns)
  PROVE  MatrixIs(ConcatenateRows(MatrixOf(f, first), MatrixOf(f, second)), a + b, columns)
<1>1. PICK x : x = MatrixOf(f, first)
  OBVIOUS
<1>2. PICK y : y = MatrixOf(f, second)
  OBVIOUS
<1>3. /\ x = [dtype |-> x.dtype, rows |-> x.rows, columns |-> x.columns, blocks |-> x.blocks, cpu |-> x.cpu]
      /\ x.rows = a /\ x.columns = columns /\ x.cpu.exact = TRUE /\ y.rows = b
  BY <1>1, <1>2 DEF MatrixOf, IsMatrix
<1>4. PICK z : z = ConcatenateRows(x, y)
  OBVIOUS
<1>5. z.rows = a + b /\ z.columns = columns /\ z.cpu.exact = TRUE
  BY <1>3, <1>4 DEF ConcatenateRows
<1> QED BY <1>1, <1>2, <1>4, <1>5 DEF MatrixIs, IsShape

LEMMA JoinedIs ==
  ASSUME NEW f, f.cpu.exact = TRUE, NEW first, NEW second, NEW a \in Nat, NEW b \in Nat,
         NEW columns \in Nat, Shaped(f, first, a, columns), Shaped(f, second, b, columns)
  PROVE  MatrixIs(Joined(f, first, second), a + b, columns)
<1>1. IsMatrix(f.tensors[first], a, columns) /\ IsMatrix(f.tensors[second], b, columns)
  BY DEF Shaped
<1> QED BY <1>1, StackedIs, Zenon DEF Joined, Matrix

LEMMA AttentionLoaded ==
  ASSUME NEW f, f.cpu.exact = TRUE, IsTyped(f), AttentionLoads(f), KindOf(f) # "linear"
  PROVE  GoodMixer(f)
<1>1. PICK q \in Nat : q = f.config.queryHeads
  BY ConfigNumbers
<1>2. PICK k \in Nat : k = f.config.kvHeads
  BY ConfigNumbers
<1>3. PICK d \in Nat : d = f.config.headDim
  BY ConfigNumbers
<1>4. PICK h \in Nat : h = f.config.hidden
  BY ConfigNumbers
<1>5. q * d * 2 = q * (2 * d) /\ q * (2 * d) \in Nat /\ k * d \in Nat /\ q * d \in Nat
  <2>1. PICK x \in Nat : x = q * d
    OBVIOUS
  <2>2. q * (2 * d) = 2 * (q * d)
    OBVIOUS
  <2>3. k * d \in Nat
    OBVIOUS
  <2> QED BY <2>1, <2>2, <2>3
<1>6. /\ Shaped(f, "attn_q", q * (2 * d), h) /\ Shaped(f, "attn_k", k * d, h)
      /\ Shaped(f, "attn_v", k * d, h) /\ Shaped(f, "attn_output", h, q * d)
  BY <1>1, <1>2, <1>3, <1>4, <1>5, Zenon DEF AttentionLoads
<1>7. MatrixIs(Matrix(f, "attn_q"), q * (2 * d), h)
  BY <1>5, <1>6, ShapedIs
<1>8. MatrixIs(Matrix(f, "attn_k"), k * d, h)
  BY <1>5, <1>6, ShapedIs
<1>9. MatrixIs(Matrix(f, "attn_v"), k * d, h)
  BY <1>5, <1>6, ShapedIs
<1>10. MatrixIs(Matrix(f, "attn_output"), h, q * d)
  BY <1>5, <1>6, ShapedIs
<1>11. PICK mixer : mixer = LW(f).mixer
  OBVIOUS
<1>12. /\ mixer.query = Matrix(f, "attn_q") /\ mixer.key = Matrix(f, "attn_k")
       /\ mixer.value = Matrix(f, "attn_v") /\ mixer.output = Matrix(f, "attn_output")
  BY <1>11 DEF LW, LoadWeights, AttentionWeights
<1> QED BY <1>1, <1>2, <1>3, <1>4, <1>7, <1>8, <1>9, <1>10, <1>11, <1>12, Zenon
        DEF GoodMixer, CacheWidth, Hid

LEMMA DeltaLoaded ==
  ASSUME NEW f, f.cpu.exact = TRUE, IsTyped(f), GoodConfig(f), DeltaLoads(f), KindOf(f) = "linear"
  PROVE  GoodMixer(f)
<1>1. PICK h : h = Heads(f)
  OBVIOUS
<1>2. PICK w \in Nat : w = f.config.hidden
  BY ConfigNumbers
<1>3. PICK v \in Nat : v = h.value
  BY <1>1, HeadNumbers
<1>4. PICK c \in Nat : c = ConvDim(h)
  BY <1>1, HeadNumbers
<1>5. PICK d \in Nat : d = ValueDim(h)
  BY <1>1, HeadNumbers
<1>6. /\ Shaped(f, "attn_qkv", c, w) /\ Shaped(f, "attn_gate", d, w) /\ Shaped(f, "ssm_out", w, d)
      /\ IF h.interleaved THEN Shaped(f, "ssm_ba", 2 * v, w)
         ELSE Shaped(f, "ssm_beta", v, w) /\ Shaped(f, "ssm_alpha", v, w)
  BY <1>1, <1>2, <1>3, <1>4, <1>5, Zenon DEF DeltaLoads
<1>7. PICK mixer : mixer = DeltaWeights(f)
  OBVIOUS
<1>8. LW(f).mixer = mixer
  BY <1>7 DEF LW, LoadWeights
<1>9. /\ mixer.qkvz = IF SameDtype(f, "attn_qkv", "attn_gate")
                      THEN <<Joined(f, "attn_qkv", "attn_gate")>>
                      ELSE <<Matrix(f, "attn_qkv"), Matrix(f, "attn_gate")>>
      /\ mixer.betaAlpha = IF h.interleaved THEN Matrix(f, "ssm_ba") ELSE Joined(f, "ssm_beta", "ssm_alpha")
      /\ mixer.output = Matrix(f, "ssm_out")
  BY <1>1, <1>7 DEF DeltaWeights
<1>10. MatrixIs(mixer.output, w, d)
  BY <1>6, <1>9, ShapedIs
<1>11. MatrixIs(mixer.betaAlpha, 2 * v, w)
  <2>1. CASE h.interleaved
    <3>1. PICK u \in Nat : u = 2 * v
      OBVIOUS
    <3>2. MatrixIs(Matrix(f, "ssm_ba"), u, w)
      BY <1>6, <2>1, <3>1, ShapedIs
    <3> QED BY <1>9, <2>1, <3>1, <3>2, Zenon
  <2>2. CASE ~h.interleaved
    <3>1. MatrixIs(Joined(f, "ssm_beta", "ssm_alpha"), v + v, w)
      BY <1>6, <2>2, JoinedIs
    <3>2. v + v = 2 * v
      OBVIOUS
    <3> QED BY <1>9, <2>2, <3>1, <3>2, Zenon
  <2> QED BY <2>1, <2>2
<1>12. \/ /\ mixer.qkvz = <<mixer.qkvz[1]>> /\ Len(mixer.qkvz) = 1
          /\ MatrixIs(mixer.qkvz[1], c + d, w)
       \/ /\ mixer.qkvz = <<mixer.qkvz[1], mixer.qkvz[2]>> /\ Len(mixer.qkvz) = 2
          /\ MatrixIs(mixer.qkvz[1], c, w) /\ MatrixIs(mixer.qkvz[2], d, w)
  <2>1. CASE SameDtype(f, "attn_qkv", "attn_gate")
    <3>1. PICK m : m = Joined(f, "attn_qkv", "attn_gate")
      OBVIOUS
    <3>2. MatrixIs(m, c + d, w)
      BY <1>6, <3>1, JoinedIs
    <3>3. mixer.qkvz = <<m>>
      BY <1>9, <2>1, <3>1, Zenon
    <3>4. <<m>>[1] = m /\ Len(<<m>>) = 1
      OBVIOUS
    <3> QED BY <3>2, <3>3, <3>4, Zenon
  <2>2. CASE ~SameDtype(f, "attn_qkv", "attn_gate")
    <3>1. PICK m : m = Matrix(f, "attn_qkv")
      OBVIOUS
    <3>2. PICK g : g = Matrix(f, "attn_gate")
      OBVIOUS
    <3>3. MatrixIs(m, c, w) /\ MatrixIs(g, d, w)
      BY <1>6, <3>1, <3>2, ShapedIs
    <3>4. mixer.qkvz = <<m, g>>
      BY <1>9, <2>2, <3>1, <3>2, Zenon
    <3>5. <<m, g>>[1] = m /\ <<m, g>>[2] = g /\ Len(<<m, g>>) = 2
      OBVIOUS
    <3> QED BY <3>3, <3>4, <3>5, Zenon
  <2> QED BY <2>1, <2>2
<1> QED BY <1>1, <1>2, <1>3, <1>4, <1>5, <1>8, <1>10, <1>11, <1>12, Zenon DEF GoodMixer, Hid

LEMMA MoeLoaded ==
  ASSUME NEW f, f.cpu.exact = TRUE, IsTyped(f), MoeLoads(f)
  PROVE  GoodMoe(f)
<1>1. PICK e \in Nat : e = f.config.experts
  BY ConfigNumbers
<1>2. PICK h \in Nat : h = f.config.hidden
  BY ConfigNumbers
<1>3. PICK i \in Nat : i = f.config.intermediate
  BY ConfigNumbers
<1>4. PICK moe : moe = MoeWeights(f)
  OBVIOUS
<1>5. LW(f).moe = moe
  BY <1>4 DEF LW, LoadWeights
<1>6. /\ moe.router = Matrix(f, "ffn_gate_inp")
      /\ moe.sharedGateUp = Joined(f, "ffn_gate_shexp", "ffn_up_shexp")
      /\ moe.sharedDown = Matrix(f, "ffn_down_shexp")
      /\ moe.experts = [x \in Indices(e) |->
                  [gateUp |-> ConcatenateRows(MatrixOf(f, f.experts[x].gate), MatrixOf(f, f.experts[x].up)),
                   down |-> MatrixOf(f, f.experts[x].down)]]
  BY <1>1, <1>4 DEF MoeWeights
<1>7. MatrixIs(moe.router, e, h)
  <2>1. Shaped(f, "ffn_gate_inp", e, h)
    BY <1>1, <1>2, Zenon DEF MoeLoads
  <2>2. MatrixIs(Matrix(f, "ffn_gate_inp"), e, h)
    BY <2>1, ShapedIs
  <2> QED BY <1>6, <2>2, Zenon
<1>8. PICK width : /\ width = f.tensors["ffn_gate_shexp"].rows
                   /\ Shaped(f, "ffn_gate_shexp", width, h) /\ Shaped(f, "ffn_up_shexp", width, h)
                   /\ Shaped(f, "ffn_down_shexp", h, width)
  BY <1>2 DEF MoeLoads
<1>9. width \in Nat
  BY <1>8 DEF MoeLoads, IsTyped
<1>10. MatrixIs(moe.sharedGateUp, width + width, h) /\ MatrixIs(moe.sharedDown, h, width)
  <2>1. MatrixIs(Joined(f, "ffn_gate_shexp", "ffn_up_shexp"), width + width, h)
    BY <1>8, <1>9, JoinedIs
  <2>2. MatrixIs(Matrix(f, "ffn_down_shexp"), h, width)
    BY <1>8, <1>9, ShapedIs
  <2> QED BY <1>6, <2>1, <2>2, Zenon
<1>11. /\ IsShape(moe.sharedGateUp) /\ IsShape(moe.sharedDown)
       /\ moe.sharedGateUp.rows = 2 * moe.sharedDown.columns
       /\ moe.sharedGateUp.columns = h /\ moe.sharedDown.rows = h
  BY <1>9, <1>10 DEF MatrixIs
<1>12. ASSUME NEW x \in Indices(e)
       PROVE  /\ IsExpert(moe.experts[x])
              /\ moe.experts[x].gateUp.columns = h /\ moe.experts[x].down.rows = h
  <2>1. PICK expert : expert = f.experts[x]
    OBVIOUS
  <2>2. x \in DOMAIN f.experts
    BY <1>1, Zenon DEF MoeLoads, ExpertPair, ExpertTensor
  <2>3. IsMatrix(expert.gate, i, h) /\ IsMatrix(expert.up, i, h) /\ IsMatrix(expert.down, h, i)
    BY <1>2, <1>3, <2>1, <2>2 DEF MoeLoads, ExpertPair, ExpertTensor
  <2>4. MatrixIs(ConcatenateRows(MatrixOf(f, expert.gate), MatrixOf(f, expert.up)), i + i, h)
    BY <2>3, StackedIs
  <2>5. MatrixIs(MatrixOf(f, expert.down), h, i)
    BY <2>3, MatrixLoaded
  <2>6. PICK loaded : loaded = moe.experts[x]
    OBVIOUS
  <2>7. /\ loaded.gateUp = ConcatenateRows(MatrixOf(f, expert.gate), MatrixOf(f, expert.up))
        /\ loaded.down = MatrixOf(f, expert.down)
    BY <1>6, <2>1, <2>6
  <2>8. MatrixIs(loaded.gateUp, i + i, h) /\ MatrixIs(loaded.down, h, i)
    BY <2>4, <2>5, <2>7, Zenon
  <2> QED BY <2>6, <2>8 DEF MatrixIs, IsExpert
<1> QED BY <1>1, <1>2, <1>5, <1>7, <1>11, <1>12, Zenon DEF GoodMoe, Hid

LEMMA GgufLoaded ==
  ASSUME NEW f, IsTyped(f), f.format = "gguf", GoodConfig(f), ModelLoads(f)
  PROVE  GoodFile(f)
<1>1. f.cpu.exact = TRUE
  BY DEF IsTyped, ModelLoads, RequireExactKernels
<1>2. LayerLoads(f) /\ MoeLoads(f)
  BY DEF ModelLoads, LayerLoads
<1>3. GoodMoe(f)
  BY <1>1, <1>2, MoeLoaded
<1>4. GoodMixer(f)
  <2>1. CASE KindOf(f) = "linear"
    BY <1>1, <1>2, <2>1, DeltaLoaded DEF LayerLoads
  <2>2. CASE KindOf(f) # "linear"
    BY <1>1, <1>2, <2>2, AttentionLoaded DEF LayerLoads
  <2> QED BY <2>1, <2>2
<1>5. PICK h \in Nat : h = f.config.hidden
  BY ConfigNumbers
<1>6. PICK v \in Nat : v = f.config.vocab
  BY ConfigNumbers
<1>7. MatrixIs(LW(f).embedding, v, h) /\ MatrixIs(LW(f).head, v, h)
  <2>1. Shaped(f, "token_embd", v, h) /\ Shaped(f, "output", v, h)
    BY <1>5, <1>6, Zenon DEF ModelLoads
  <2>2. MatrixIs(Matrix(f, "token_embd"), v, h)
    BY <1>1, <2>1, ShapedIs
  <2>3. MatrixIs(Matrix(f, "output"), v, h)
    BY <1>1, <2>1, ShapedIs
  <2>4. LW(f).embedding = Matrix(f, "token_embd") /\ LW(f).head = Matrix(f, "output")
    BY DEF LW, LoadWeights
  <2> QED BY <2>2, <2>3, <2>4, Zenon
<1>8. KindOf(f) = "predictor" => MatrixIs(Matrix(f, "eh_proj"), h, 2 * h)
  <2>1. SUFFICES ASSUME KindOf(f) = "predictor" PROVE MatrixIs(Matrix(f, "eh_proj"), h, 2 * h)
    OBVIOUS
  <2>2. PICK w \in Nat : w = 2 * h
    OBVIOUS
  <2>3. Shaped(f, "eh_proj", h, w)
    BY <1>5, <2>1, <2>2, Zenon DEF ModelLoads, PredictorLoads
  <2> QED BY <1>1, <2>2, <2>3, ShapedIs
<1>9. ~Ref(f)
  BY DEF Ref
<1> QED BY <1>3, <1>4, <1>5, <1>6, <1>7, <1>8, <1>9, Zenon DEF GoodFile, GoodGguf, Hid

LEMMA ExpectedIs ==
  ASSUME NEW f, NEW name, NEW rowCount \in Nat, NEW columns \in Nat, Expect(f, name, rowCount, columns)
  PROVE  DenseIs(f.tensors[name], rowCount, columns)
BY DEF Expect, Dense, DenseIs, IsDense

LEMMA RequiredMlpIs ==
  ASSUME NEW f, IsTyped(f), NEW gate, NEW up, NEW down, NEW width \in Nat,
         RequiredMlp(f, gate, up, down, width)
  PROVE  IsMlp(FileMlp(f, gate, up, down), Hid(f))
<1>1. PICK h \in Nat : h = f.config.hidden
  BY ConfigNumbers
<1>2. /\ DenseIs(f.tensors[gate], width, h) /\ DenseIs(f.tensors[up], width, h)
      /\ DenseIs(f.tensors[down], h, width)
  BY <1>1, ExpectedIs DEF RequiredMlp
<1>3. PICK mlp : mlp = FileMlp(f, gate, up, down)
  OBVIOUS
<1>4. mlp.gate = f.tensors[gate] /\ mlp.up = f.tensors[up] /\ mlp.down = f.tensors[down]
  BY <1>3 DEF FileMlp
<1>5. DenseIs(mlp.gate, width, h) /\ DenseIs(mlp.up, width, h) /\ DenseIs(mlp.down, h, width)
  BY <1>2, <1>4, Zenon
<1> QED BY <1>1, <1>3, <1>5, Zenon DEF IsMlp, DenseIs, Hid

LEMMA ReferenceLoaded ==
  ASSUME NEW f, IsTyped(f), f.format = "safetensors", GoodConfig(f), CheckpointOpens(f)
  PROVE  GoodFile(f)
<1>1. PICK h \in Nat : h = f.config.hidden
  BY ConfigNumbers
<1>2. PICK v \in Nat : v = f.config.vocab
  BY ConfigNumbers
<1>3. RequiredTensors(f)
  BY DEF CheckpointOpens
<1>4. DenseIs(f.tensors["embed_tokens"], v, h) /\ DenseIs(f.tensors["lm_head"], v, h)
  <2>1. Expect(f, "embed_tokens", v, h) /\ Expect(f, "lm_head", v, h)
    BY <1>1, <1>2, <1>3, Zenon DEF RequiredTensors
  <2> QED BY <2>1, ExpectedIs
<1>5. IF KindOf(f) = "linear"
      THEN LET d == Heads(f) IN
           /\ DenseIs(f.tensors["in_proj_qkvz"], 2 * KeyDim(d) + 2 * ValueDim(d), h)
           /\ DenseIs(f.tensors["in_proj_ba"], 2 * d.value, h)
           /\ DenseIs(f.tensors["out_proj"], h, ValueDim(d))
      ELSE /\ DenseIs(f.tensors["q_proj"], f.config.queryHeads * (2 * f.config.headDim), h)
           /\ DenseIs(f.tensors["k_proj"], CacheWidth(f), h)
           /\ DenseIs(f.tensors["v_proj"], CacheWidth(f), h)
           /\ DenseIs(f.tensors["o_proj"], h, f.config.queryHeads * f.config.headDim)
  <2>0. RequiredMixer(f)
    BY <1>3, Zenon DEF RequiredTensors
  <2>1. CASE KindOf(f) = "linear"
    <3>1. PICK d : d = Heads(f)
      OBVIOUS
    <3>2. PICK a \in Nat : a = 2 * KeyDim(d) + 2 * ValueDim(d)
      BY <3>1, HeadNumbers
    <3>3. PICK b \in Nat : b = 2 * d.value
      BY <3>1, HeadNumbers
    <3>4. PICK c \in Nat : c = ValueDim(d)
      BY <3>1, HeadNumbers
    <3>5. Expect(f, "in_proj_qkvz", a, h) /\ Expect(f, "in_proj_ba", b, h) /\ Expect(f, "out_proj", h, c)
      BY <1>1, <2>0, <2>1, <3>1, <3>2, <3>3, <3>4, Zenon DEF RequiredMixer
    <3>6. /\ DenseIs(f.tensors["in_proj_qkvz"], a, h) /\ DenseIs(f.tensors["in_proj_ba"], b, h)
          /\ DenseIs(f.tensors["out_proj"], h, c)
      BY <3>5, ExpectedIs
    <3> QED BY <2>1, <3>1, <3>2, <3>3, <3>4, <3>6, Zenon
  <2>2. CASE KindOf(f) # "linear"
    <3>1. PICK q \in Nat : q = f.config.queryHeads
      BY ConfigNumbers
    <3>2. PICK k \in Nat : k = f.config.kvHeads
      BY ConfigNumbers
    <3>3. PICK d \in Nat : d = f.config.headDim
      BY ConfigNumbers
    <3>4. PICK a \in Nat : a = q * d * 2
      OBVIOUS
    <3>5. a = q * (2 * d)
      <4>1. q * (2 * d) = 2 * (q * d) /\ q * d * 2 = 2 * (q * d)
        OBVIOUS
      <4> QED BY <3>4, <4>1
    <3>6. PICK b \in Nat : b = k * d
      OBVIOUS
    <3>7. PICK c \in Nat : c = q * d
      OBVIOUS
    <3>8. /\ Expect(f, "q_proj", a, h) /\ Expect(f, "k_proj", b, h) /\ Expect(f, "v_proj", b, h)
          /\ Expect(f, "o_proj", h, c)
      BY <1>1, <2>0, <2>2, <3>1, <3>2, <3>3, <3>4, <3>6, <3>7, Zenon DEF RequiredMixer
    <3>9. /\ DenseIs(f.tensors["q_proj"], a, h) /\ DenseIs(f.tensors["k_proj"], b, h)
          /\ DenseIs(f.tensors["v_proj"], b, h) /\ DenseIs(f.tensors["o_proj"], h, c)
      BY <3>8, ExpectedIs
    <3> QED BY <2>2, <3>1, <3>2, <3>3, <3>5, <3>6, <3>7, <3>9, Zenon DEF CacheWidth
  <2> QED BY <2>1, <2>2
<1>6. IF LayerIsMoe(f.config, f.layer)
      THEN /\ DenseIs(f.tensors["gate"], f.config.experts, h)
           /\ IsMlp(SharedMlp(f), h)
           /\ DenseIs(f.tensors["shared_expert_gate"], 1, h)
      ELSE IsMlp(DenseMlp(f), h)
  <2>1. CASE LayerIsMoe(f.config, f.layer)
    <3>1. PICK e \in Nat : e = f.config.experts
      BY ConfigNumbers
    <3>2. PICK w \in Nat : w = f.config.sharedIntermediate
      BY ConfigNumbers
    <3>3. /\ Expect(f, "gate", e, h) /\ Expect(f, "shared_expert_gate", 1, h)
          /\ RequiredMlp(f, "shared_gate_proj", "shared_up_proj", "shared_down_proj", w)
      BY <1>1, <1>3, <2>1, <3>1, <3>2, Zenon DEF RequiredTensors
    <3>4. DenseIs(f.tensors["gate"], e, h) /\ DenseIs(f.tensors["shared_expert_gate"], 1, h)
      BY <3>3, ExpectedIs
    <3>5. IsMlp(SharedMlp(f), Hid(f))
      BY <3>3, RequiredMlpIs, Zenon DEF SharedMlp
    <3> QED BY <1>1, <2>1, <3>1, <3>4, <3>5, Zenon DEF Hid
  <2>2. CASE ~LayerIsMoe(f.config, f.layer)
    <3>1. PICK w \in Nat : w = f.config.dense
      BY ConfigNumbers
    <3>2. RequiredMlp(f, "gate_proj", "up_proj", "down_proj", w)
      BY <1>3, <2>2, <3>1, Zenon DEF RequiredTensors
    <3>3. IsMlp(DenseMlp(f), Hid(f))
      BY <3>1, <3>2, RequiredMlpIs, Zenon DEF DenseMlp
    <3> QED BY <1>1, <2>2, <3>3, Zenon DEF Hid
  <2> QED BY <2>1, <2>2
<1>7. Ref(f)
  BY DEF Ref
<1> QED BY <1>1, <1>2, <1>4, <1>5, <1>6, <1>7, Zenon DEF GoodFile, GoodReference, Hid

LEMMA LoadedIs ==
  ASSUME NEW f \in Files, NEW opened, opened = Opened(f), Valid(opened.config),
         IF opened.format = "gguf" THEN ModelLoads(opened) ELSE CheckpointOpens(opened)
  PROVE  GoodFile(opened) /\ (~Ref(opened) <=> opened.format = "gguf")
<1>1. IsTyped(opened)
  BY LayerAssumption
<1>2. GoodConfig(opened)
  BY <1>1, GoodConfigIs
<1>3. opened.format \in {"gguf", "safetensors"}
  BY <1>1 DEF IsTyped
<1>4. CASE opened.format = "gguf"
  BY <1>1, <1>2, <1>4, GgufLoaded DEF Ref
<1>5. CASE opened.format = "safetensors"
  BY <1>1, <1>2, <1>5, ReferenceLoaded DEF Ref
<1> QED BY <1>3, <1>4, <1>5

-----------------------------------------------------------------------------
(***************************************************************************)
(* The layer fed row by row.                                               *)
(***************************************************************************)
LEMMA SeqOne ==
  ASSUME NEW s, IsSeq(s), NEW x
  PROVE  /\ IsSeq(Append(s, x)) /\ Len(Append(s, x)) = Len(s) + 1 /\ Len(s) \in Nat
         /\ Append(s, x)[Len(s) + 1] = x /\ \A i \in 1..Len(s) : Append(s, x)[i] = s[i]
<1>1. PICK S : s \in Seq(S)
  BY DEF IsSeq
<1>2. s \in Seq(S \cup {x}) /\ x \in S \cup {x}
  BY <1>1
<1>3. PICK T : T = S \cup {x}
  OBVIOUS
<1>4. s \in Seq(T) /\ x \in T
  BY <1>2, <1>3
<1>5. Append(s, x) \in Seq(T)
  BY <1>4
<1> QED BY <1>4, <1>5 DEF IsSeq

LEMMA SeqPrefix ==
  ASSUME NEW s, IsSeq(s), NEW n \in 0..Len(s)
  PROVE  /\ IsSeq(SubSeq(s, 1, n)) /\ Len(SubSeq(s, 1, n)) = n
         /\ \A i \in 1..n : SubSeq(s, 1, n)[i] = s[i]
<1>1. PICK S : s \in Seq(S)
  BY DEF IsSeq
<1> QED BY <1>1, PrefixType DEF IsSeq

\* A row depends on the tokens up to its own.
SameRowOf(f, toks, other, q, before) ==
  /\ StateAfter(f, toks, q, before) = StateAfter(f, other, q, before)
  /\ OutputRow(f, toks, q, before) = OutputRow(f, other, q, before)

LEMMA RowPrefix ==
  ASSUME NEW f, CacheWidth(f) \in Nat, NEW toks, NEW other, NEW q \in Nat, NEW before,
         \A i \in Indices(q + 1) : toks[i + 1] = other[i + 1]
  PROVE  SameRowOf(f, toks, other, q, before)
<1>1. q + 1 \in Nat /\ q \in Indices(q + 1)
  BY DEF Indices
<1>2. CacheOf(f, toks, q + 1) = CacheOf(f, other, q + 1)
  BY <1>1, CachePrefix
<1>3. toks[q + 1] = other[q + 1]
  BY <1>1
<1>4. StateAfter(f, toks, q, before) = StateAfter(f, other, q, before)
  BY <1>2, <1>3, Zenon DEF StateAfter
<1>5. QueryAt(f, toks, q) = QueryAt(f, other, q) /\ GateAt(f, toks, q) = GateAt(f, other, q)
  BY <1>3, Zenon DEF QueryAt, GateAt
<1>6. AttentionMixed(f, toks, q) = AttentionMixed(f, other, q)
  BY <1>2, <1>5, Zenon DEF AttentionMixed
<1>7. MixRow(f, toks, q, before) = MixRow(f, other, q, before)
  BY <1>3, <1>6, Zenon DEF MixRow
<1>8. HiddenRow(f, toks, q, before) = HiddenRow(f, other, q, before)
  BY <1>3, <1>7, Zenon DEF HiddenRow
<1>9. MidRow(f, toks, q, before) = MidRow(f, other, q, before)
  BY <1>8, Zenon DEF MidRow
<1>10. RouteRow(f, toks, q, before) = RouteRow(f, other, q, before)
  BY <1>9, Zenon DEF RouteRow
<1>11. ExpertsRow(f, toks, q, before) = ExpertsRow(f, other, q, before)
  BY <1>9, <1>10, Zenon DEF ExpertsRow
<1>12. LayerRow(f, toks, q, before) = LayerRow(f, other, q, before)
  BY <1>8, <1>11, Zenon DEF LayerRow
<1>13. FinalRow(f, toks, q, before) = FinalRow(f, other, q, before)
  BY <1>12, Zenon DEF FinalRow
<1>14. OutputRow(f, toks, q, before) = OutputRow(f, other, q, before)
  BY <1>13, Zenon DEF OutputRow
<1> QED BY <1>4, <1>14, Zenon DEF SameRowOf

LEMMA AfterIsBefore ==
  ASSUME NEW f, NEW toks, NEW al, AloneIs(f, toks, al), NEW n \in 0..Len(al)
  PROVE  After(f, toks, al, n) = Before(f, al, n)
<1>1. CASE n = 0
  BY <1>1, Zenon DEF After, Before
<1>2. CASE n # 0
  <2>1. PICK q : q = n - 1
    OBVIOUS
  <2>2. Len(al) \in Nat
    BY DEF AloneIs, IsSeq
  <2>3. q \in Indices(Len(al)) /\ n = q + 1
    BY <1>2, <2>1, <2>2 DEF Indices
  <2>4. al[n].state = StateAfter(f, toks, q, Before(f, al, q))
    BY <2>3, Zenon DEF AloneIs
  <2> QED BY <1>2, <2>1, <2>4, Zenon DEF After, Before
<1> QED BY <1>1, <1>2

\* Rows taken back, from the tokens and the copy.
LEMMA AlonePrefix ==
  ASSUME NEW f, CacheWidth(f) \in Nat, NEW toks \in Seq(Nat), NEW al, AloneIs(f, toks, al),
         NEW other \in Seq(Nat), NEW less, IsSeq(less), Len(less) <= Len(al), Len(less) <= Len(other),
         \A i \in 1..Len(less) : less[i] = al[i] /\ toks[i] = other[i]
  PROVE  /\ AloneIs(f, other, less)
         /\ \A n \in 0..Len(less) : Before(f, less, n) = Before(f, al, n)
<1>1. Len(al) \in Nat /\ Len(less) \in Nat /\ Len(toks) \in Nat
  BY DEF AloneIs, IsSeq
<1>2. ASSUME NEW n \in 0..Len(less) PROVE Before(f, less, n) = Before(f, al, n)
  <2>1. CASE n = 0
    BY <2>1, Zenon DEF Before
  <2>2. CASE n # 0
    <3>1. n \in 1..Len(less)
      BY <1>1, <2>2
    <3>2. less[n] = al[n]
      BY <3>1
    <3> QED BY <2>2, <3>2, Zenon DEF Before
  <2> QED BY <2>1, <2>2
<1>3. ASSUME NEW q \in Indices(Len(less))
      PROVE  /\ less[q + 1].state = StateAfter(f, other, q, Before(f, less, q))
             /\ less[q + 1].output = OutputRow(f, other, q, Before(f, less, q))
  <2>1. q \in Indices(Len(al)) /\ q \in 0..Len(less) /\ q + 1 \in 1..Len(less) /\ q \in Nat
    BY <1>1 DEF Indices
  <2>2. Before(f, less, q) = Before(f, al, q)
    BY <1>2, <2>1
  <2>3. ASSUME NEW i \in Indices(q + 1) PROVE toks[i + 1] = other[i + 1]
    <3>1. i + 1 \in 1..Len(less)
      BY <1>1, <2>1 DEF Indices
    <3> QED BY <3>1
  <2>4. SameRowOf(f, toks, other, q, Before(f, al, q))
    BY <2>1, <2>3, RowPrefix
  <2>5. less[q + 1] = al[q + 1]
    BY <2>1
  <2>6. /\ al[q + 1].state = StateAfter(f, toks, q, Before(f, al, q))
        /\ al[q + 1].output = OutputRow(f, toks, q, Before(f, al, q))
    BY <2>1, Zenon DEF AloneIs
  <2> QED BY <2>2, <2>4, <2>5, <2>6, Zenon DEF SameRowOf
<1> QED BY <1>2, <1>3 DEF AloneIs

\* A row put to the copy.
LEMMA AloneAppended ==
  ASSUME NEW f, NEW toks \in Seq(Nat), NEW al, AloneIs(f, toks, al), Len(al) < Len(toks), NEW n, n = Len(al),
         NEW row, row.state = StateAfter(f, toks, n, Before(f, al, n)),
         row.output = OutputRow(f, toks, n, Before(f, al, n))
  PROVE  /\ AloneIs(f, toks, Append(al, row)) /\ Len(Append(al, row)) = n + 1
         /\ \A q \in 0..n : Before(f, Append(al, row), q) = Before(f, al, q)
<1>1. PICK more : more = Append(al, row)
  OBVIOUS
<1>2. /\ IsSeq(more) /\ Len(more) = n + 1 /\ n \in Nat /\ more[n + 1] = row
      /\ \A i \in 1..n : more[i] = al[i]
  BY <1>1, SeqOne DEF AloneIs
<1>3. ASSUME NEW q \in 0..n PROVE Before(f, more, q) = Before(f, al, q)
  <2>1. CASE q = 0
    BY <2>1, Zenon DEF Before
  <2>2. CASE q # 0
    <3>1. q \in 1..n
      BY <1>2, <2>2
    <3>2. more[q] = al[q]
      BY <1>2, <3>1
    <3> QED BY <2>2, <3>2, Zenon DEF Before
  <2> QED BY <2>1, <2>2
<1>4. ASSUME NEW q \in Indices(Len(more))
      PROVE  /\ more[q + 1].state = StateAfter(f, toks, q, Before(f, more, q))
             /\ more[q + 1].output = OutputRow(f, toks, q, Before(f, more, q))
  <2>1. q \in 0..n
    BY <1>2 DEF Indices
  <2>2. Before(f, more, q) = Before(f, al, q)
    BY <1>3, <2>1
  <2>3. CASE q = n
    BY <1>2, <2>2, <2>3, Zenon
  <2>4. CASE q # n
    <3>1. q \in Indices(Len(al)) /\ q + 1 \in 1..n
      BY <1>2, <2>1, <2>4 DEF Indices
    <3>2. more[q + 1] = al[q + 1]
      BY <1>2, <3>1
    <3> QED BY <2>2, <3>1, <3>2, Zenon DEF AloneIs
  <2> QED BY <2>3, <2>4
<1>5. Len(more) <= Len(toks)
  BY <1>2
<1> QED BY <1>1, <1>2, <1>3, <1>4, <1>5 DEF AloneIs

-----------------------------------------------------------------------------
(***************************************************************************)
(* The steps of a pass.                                                    *)
(***************************************************************************)
SameFrame(w, after) ==
  /\ DOMAIN after = DOMAIN w /\ after.lone = w.lone /\ after.tokens = w.tokens
  /\ after.count = w.count /\ after.position = w.position

LEMMA WorkStep ==
  ASSUME WorkInv, UNCHANGED rigid, SameFrame(work, work'), phase' \in WorkPhases,
         PhaseIs(file, fed, alone, phase', work'),
         SlotsAre(file, fed, alone, asked, slots', SlotsTaken(phase', work'))
  PROVE  WorkInv'
<1>1. /\ file' = file /\ weights' = weights /\ fed' = fed /\ rows' = rows /\ shown' = shown
      /\ asked' = asked /\ alone' = alone
  BY DEF rigid
<1>2. Loaded'
  BY <1>1, Zenon DEF WorkInv, Loaded
<1>3. Asking'
  BY <1>1, Zenon DEF WorkInv, Asking
<1>4. WorkIs(fed, alone, asked, work')
  <2>1. WorkIs(fed, alone, asked, work)
    BY DEF WorkInv
  <2>2. DOMAIN work' = WorkFields
    BY <2>1, Zenon DEF WorkIs, SameFrame
  <2> QED BY <2>1, <2>2, Zenon DEF WorkIs, SameFrame
<1> QED BY <1>1, <1>2, <1>3, <1>4, Zenon DEF WorkInv

\* Where no snapshot is taken and the mixer is done, or there is none to take.
LEMMA SlotsKept ==
  ASSUME WorkInv, slots' = slots, SameFrame(work, work'),
         \/ KindOf(file) # "linear"
         \/ SlotsTaken(phase', work') = SlotsTaken(phase, work)
  PROVE  SlotsAre(file, fed, alone, asked, slots', SlotsTaken(phase', work'))
<1>1. SlotsAre(file, fed, alone, asked, slots, SlotsTaken(phase, work))
  BY DEF WorkInv
<1>2. CASE KindOf(file) # "linear"
  BY <1>2, Zenon DEF SlotsAre
<1>3. CASE SlotsTaken(phase', work') = SlotsTaken(phase, work)
  BY <1>1, <1>3, Zenon
<1> QED BY <1>2, <1>3

LEMMA WorkFacts ==
  ASSUME WorkInv, NEW p, p = work.position, NEW n, n = work.count
  PROVE  /\ n \in Nat \ {0} /\ p \in Nat /\ p \in 0..Len(alone)
         /\ \A r \in Indices(n) : r \in Nat /\ p + r \in 0..Len(alone)
         /\ work.lone = FALSE => p + n = Len(alone)
         /\ GoodFile(file) /\ GoodConfig(file) /\ DOMAIN work = WorkFields
         /\ Hid(file) \in Nat /\ CacheWidth(file) \in Nat
         /\ (~Ref(file) => weights = LW(file))
         /\ TokensFrom(work.tokens, fed, p, n) /\ work.lone \in BOOLEAN
         /\ AloneIs(file, fed, alone) /\ Len(alone) \in Nat /\ Len(fed) \in Nat
<1>1. WorkIs(fed, alone, asked, work) /\ AskedIs(file, fed, alone, asked)
  BY DEF WorkInv, Asking
<1>2. GoodFile(file) /\ GoodConfig(file) /\ (~Ref(file) => weights = LW(file)) /\ fed \in Seq(Nat)
  BY DEF WorkInv, Loaded, GoodFile
<1>3. AloneIs(file, fed, alone) /\ Len(alone) \in Nat /\ Len(fed) \in Nat /\ Len(alone) <= Len(fed)
  BY <1>2 DEF WorkInv, Loaded, AloneIs, IsSeq
<1>4. n \in Nat \ {0} /\ p \in Nat /\ work.lone \in BOOLEAN /\ TokensFrom(work.tokens, fed, p, n)
      /\ DOMAIN work = WorkFields
  BY <1>1, Zenon DEF WorkIs
<1>5. CASE work.lone
  <2>1. n = 1 /\ p = Len(alone)
    BY <1>1, <1>5 DEF WorkIs
  <2>2. \A r \in Indices(n) : r = 0
    BY <2>1 DEF Indices
  <2>3. \A r \in Indices(n) : r \in Nat /\ p + r \in 0..Len(alone)
    BY <1>3, <2>1, <2>2
  <2> QED BY <1>2, <1>3, <1>4, <1>5, <2>1, <2>3, HeadNumbers, ShapeIs
<1>6. CASE ~work.lone
  <2>1. n = Len(asked.tokens) /\ p = Len(fed) - Len(asked.tokens) /\ Len(alone) = Len(fed)
    BY <1>1, <1>6 DEF WorkIs, BaseOf
  <2>2. p + n = Len(alone)
    BY <1>3, <1>4, <2>1
  <2>3. \A r \in Indices(n) : r \in Nat /\ p + r \in 0..Len(alone)
    BY <1>3, <1>4, <2>2 DEF Indices
  <2> QED BY <1>2, <1>3, <1>4, <2>2, <2>3, HeadNumbers, ShapeIs
<1> QED BY <1>4, <1>5, <1>6

LEMMA XsOfPass ==
  ASSUME NEW f, NEW n \in Nat, NEW tokens, NEW toks, NEW p \in Nat, TokensFrom(tokens, toks, p, n)
  PROVE  /\ XsRows(f, tokens, n) = PassXs(f, toks, p, n)
         /\ \A r \in Indices(n) : InRows(f, tokens, n)[r] = InRow(f, toks[p + r + 1])
<1>1. \A r \in Indices(n) : tokens[r + 1] = toks[p + r + 1]
  BY Zenon DEF TokensFrom
<1>2. XsRows(f, tokens, n) = PassXs(f, toks, p, n)
  BY <1>1, Zenon DEF XsRows, PassXs
<1>3. \A r \in Indices(n) : InRows(f, tokens, n)[r] = InRow(f, toks[p + r + 1])
  BY <1>1, Zenon DEF InRows
<1> QED BY <1>2, <1>3

\* The projections of a pass's rows.
ProjectionsOf(f, toks, p, n, query, key, value) ==
  /\ RowsOf(query, n, f.config.queryHeads * (2 * f.config.headDim), QueryRows(f, toks, p, n))
  /\ RowsOf(key, n, CacheWidth(f), KeyRows(f, toks, p, n))
  /\ RowsOf(value, n, CacheWidth(f), ValueRows(f, toks, p, n))

LEMMA ProjectionsAre ==
  ASSUME NEW n \in Nat, n = work.count, GoodFile(file), ~Ref(file), weights = LW(file),
         KindOf(file) # "linear", NEW p \in Nat, NEW toks,
         TokensFrom(work.tokens, toks, p, n),
         RowsOf(work.normed, n, Hid(file), InRows(file, work.tokens, n))
  PROVE  ProjectionsOf(file, toks, p, n, Product(weights.mixer.query), Product(weights.mixer.key),
                       Product(weights.mixer.value))
<1>1. GoodMixer(file)
  BY DEF GoodFile, GoodGguf
<1>2. PICK q : q = LW(file).mixer.query
  OBVIOUS
<1>3. PICK k : k = LW(file).mixer.key
  OBVIOUS
<1>4. PICK v : v = LW(file).mixer.value
  OBVIOUS
<1>5. PICK qw : qw = file.config.queryHeads * (2 * file.config.headDim)
  OBVIOUS
<1>6. MatrixIs(q, qw, Hid(file)) /\ MatrixIs(k, CacheWidth(file), Hid(file))
      /\ MatrixIs(v, CacheWidth(file), Hid(file))
  BY <1>1, <1>2, <1>3, <1>4, <1>5, Zenon DEF GoodMixer
<1>7. PICK ins : ins = InRows(file, work.tokens, n)
  OBVIOUS
<1>8. RowsOf(work.normed, n, Hid(file), ins)
  BY <1>7
<1>9. \A r \in Indices(n) : ins[r] = InRow(file, toks[p + r + 1])
  <2>1. \A r \in Indices(n) : InRows(file, work.tokens, n)[r] = InRow(file, toks[p + r + 1])
    <3>1. n \in Nat /\ p \in Nat /\ TokensFrom(work.tokens, toks, p, n)
      OBVIOUS
    <3>2. /\ XsRows(file, work.tokens, n) = PassXs(file, toks, p, n)
          /\ \A r \in Indices(n) : InRows(file, work.tokens, n)[r] = InRow(file, toks[p + r + 1])
      BY ONLY <3>1, XsOfPass
    <3> QED BY <3>2
  <2> QED BY <1>7, <2>1, Zenon
<1>10. \A m : Product(m) = ForwardRows(m, work.normed, n, "pool")
  BY Zenon DEF Product, Forward
<1>11. RowsOf(Product(q), n, qw, QueryRows(file, toks, p, n))
  <2>1. RowsOf(ForwardRows(q, work.normed, n, "pool"), n, qw, [r \in Indices(n) |-> ProductRow(q, ins[r])])
    BY <1>6, <1>8, ForwardAre
  <2>2. [r \in Indices(n) |-> ProductRow(q, ins[r])] = QueryRows(file, toks, p, n)
    BY <1>2, <1>9, Zenon DEF QueryRows, QueryProduct
  <2> QED BY <1>10, <2>1, <2>2, Zenon
<1>12. RowsOf(Product(k), n, CacheWidth(file), KeyRows(file, toks, p, n))
  <2>1. RowsOf(ForwardRows(k, work.normed, n, "pool"), n, CacheWidth(file),
               [r \in Indices(n) |-> ProductRow(k, ins[r])])
    BY <1>6, <1>8, ForwardAre
  <2>2. [r \in Indices(n) |-> ProductRow(k, ins[r])] = KeyRows(file, toks, p, n)
    BY <1>3, <1>9, Zenon DEF KeyRows, KeyProduct
  <2> QED BY <1>10, <2>1, <2>2, Zenon
<1>13. RowsOf(Product(v), n, CacheWidth(file), ValueRows(file, toks, p, n))
  <2>1. RowsOf(ForwardRows(v, work.normed, n, "pool"), n, CacheWidth(file),
               [r \in Indices(n) |-> ProductRow(v, ins[r])])
    BY <1>6, <1>8, ForwardAre
  <2>2. [r \in Indices(n) |-> ProductRow(v, ins[r])] = ValueRows(file, toks, p, n)
    BY <1>4, <1>9, Zenon DEF ValueRows, ValueProduct
  <2> QED BY <1>10, <2>1, <2>2, Zenon
<1> QED BY <1>2, <1>3, <1>4, <1>5, <1>11, <1>12, <1>13, Zenon DEF ProjectionsOf

LEMMA ReferenceProjectionsAre ==
  ASSUME NEW n \in Nat, n = work.count, GoodFile(file), Ref(file),
         KindOf(file) # "linear", NEW p \in Nat, NEW toks,
         TokensFrom(work.tokens, toks, p, n),
         RowsOf(work.normed, n, Hid(file), InRows(file, work.tokens, n))
  PROVE  ProjectionsOf(file, toks, p, n, DenseProduct("q_proj"), DenseProduct("k_proj"),
                       DenseProduct("v_proj"))
<1>1. GoodReference(file)
  BY DEF GoodFile
<1>2. PICK q : q = file.tensors["q_proj"]
  OBVIOUS
<1>3. PICK k : k = file.tensors["k_proj"]
  OBVIOUS
<1>4. PICK v : v = file.tensors["v_proj"]
  OBVIOUS
<1>5. PICK qw : qw = file.config.queryHeads * (2 * file.config.headDim)
  OBVIOUS
<1>6. DenseIs(q, qw, Hid(file)) /\ DenseIs(k, CacheWidth(file), Hid(file))
      /\ DenseIs(v, CacheWidth(file), Hid(file))
  BY <1>1, <1>2, <1>3, <1>4, <1>5, Zenon DEF GoodReference
<1>7. PICK ins : ins = InRows(file, work.tokens, n)
  OBVIOUS
<1>8. RowsOf(work.normed, n, Hid(file), ins)
  BY <1>7
<1>9. \A r \in Indices(n) : ins[r] = InRow(file, toks[p + r + 1])
  <2>1. \A r \in Indices(n) : InRows(file, work.tokens, n)[r] = InRow(file, toks[p + r + 1])
    <3>1. n \in Nat /\ p \in Nat /\ TokensFrom(work.tokens, toks, p, n)
      OBVIOUS
    <3>2. /\ XsRows(file, work.tokens, n) = PassXs(file, toks, p, n)
          /\ \A r \in Indices(n) : InRows(file, work.tokens, n)[r] = InRow(file, toks[p + r + 1])
      BY ONLY <3>1, XsOfPass
    <3> QED BY <3>2
  <2> QED BY <1>7, <2>1, Zenon
<1>10. \A name : DenseProduct(name) = Linear(file.tensors[name], work.normed, n)
  BY Zenon DEF DenseProduct, TensorOf
<1>11. RowsOf(DenseProduct("q_proj"), n, qw, QueryRows(file, toks, p, n))
  <2>1. RowsOf(Linear(q, work.normed, n), n, qw, [r \in Indices(n) |-> LinearRow(q, ins[r])])
    BY <1>6, <1>8, LinearAre
  <2>2. [r \in Indices(n) |-> LinearRow(q, ins[r])] = QueryRows(file, toks, p, n)
    BY <1>2, <1>9, Zenon DEF QueryRows, QueryProduct
  <2> QED BY <1>2, <1>10, <2>1, <2>2, Zenon
<1>12. RowsOf(DenseProduct("k_proj"), n, CacheWidth(file), KeyRows(file, toks, p, n))
  <2>1. RowsOf(Linear(k, work.normed, n), n, CacheWidth(file), [r \in Indices(n) |-> LinearRow(k, ins[r])])
    BY <1>6, <1>8, LinearAre
  <2>2. [r \in Indices(n) |-> LinearRow(k, ins[r])] = KeyRows(file, toks, p, n)
    BY <1>3, <1>9, Zenon DEF KeyRows, KeyProduct
  <2> QED BY <1>3, <1>10, <2>1, <2>2, Zenon
<1>13. RowsOf(DenseProduct("v_proj"), n, CacheWidth(file), ValueRows(file, toks, p, n))
  <2>1. RowsOf(Linear(v, work.normed, n), n, CacheWidth(file), [r \in Indices(n) |-> LinearRow(v, ins[r])])
    BY <1>6, <1>8, LinearAre
  <2>2. [r \in Indices(n) |-> LinearRow(v, ins[r])] = ValueRows(file, toks, p, n)
    BY <1>4, <1>9, Zenon DEF ValueRows, ValueProduct
  <2> QED BY <1>4, <1>10, <2>1, <2>2, Zenon
<1> QED BY <1>5, <1>11, <1>12, <1>13, Zenon DEF ProjectionsOf

\* A new cache is that of no tokens.
LEMMA NoCache ==
  ASSUME NEW f, CacheWidth(f) \in Nat, KindOf(f) # "linear", NEW toks
  PROVE  NewLayerState(f) = CacheOf(f, toks, 0)
<1>1. NewLayerState(f) = [keys |-> << >>, values |-> << >>, positions |-> 0]
  BY Zenon DEF NewLayerState
<1>2. Indices(0 * CacheWidth(f)) = {}
  BY DEF Indices
<1>3. \A i : i \notin Indices(0 * CacheWidth(f))
  BY <1>2
<1>4. ASSUME NEW a, IsArray(a, 0 * CacheWidth(f))
      PROVE  a = << >>
  <2>1. a = [i \in {} |-> a[i]]
    BY <1>2, <1>4 DEF IsArray
  <2>2. << >> = [i \in {} |-> a[i]]
    OBVIOUS
  <2> QED BY <2>1, <2>2, Zenon
<1>5. CacheOf(f, toks, 0).keys = << >> /\ CacheOf(f, toks, 0).values = << >>
      /\ CacheOf(f, toks, 0).positions = 0
  BY <1>4, CacheFields
<1>6. PICK k : k = CacheOf(f, toks, 0).keys
  OBVIOUS
<1>7. PICK v : v = CacheOf(f, toks, 0).values
  OBVIOUS
<1>8. CacheOf(f, toks, 0) = [keys |-> k, values |-> v, positions |-> 0]
  BY <1>6, <1>7 DEF CacheOf
<1> QED BY <1>1, <1>5, <1>6, <1>7, <1>8, Zenon

\* Where there is a cache, the state is the cache.
LEMMA BeforeIsCache ==
  ASSUME NEW f, CacheWidth(f) \in Nat, KindOf(f) # "linear", NEW toks, NEW al, AloneIs(f, toks, al),
         NEW n \in 0..Len(al)
  PROVE  Before(f, al, n) = CacheOf(f, toks, n)
<1>1. Len(al) \in Nat
  BY DEF AloneIs, IsSeq
<1>2. CASE n = 0
  BY <1>2, NoCache, Zenon DEF Before
<1>3. CASE n # 0
  <2>1. n - 1 \in Indices(Len(al)) /\ (n - 1) + 1 = n
    BY <1>1, <1>3 DEF Indices
  <2>2. al[n].state = StateAfter(f, toks, n - 1, Before(f, al, n - 1))
    BY <2>1 DEF AloneIs
  <2>3. StateAfter(f, toks, n - 1, Before(f, al, n - 1)) = CacheOf(f, toks, n)
    BY <2>1, Zenon DEF StateAfter
  <2> QED BY <1>3, <2>2, <2>3, Zenon DEF Before
<1> QED BY <1>2, <1>3

LEMMA AfterIsCache ==
  ASSUME NEW f, CacheWidth(f) \in Nat, KindOf(f) # "linear", NEW toks, NEW al, NEW n \in Nat
  PROVE  After(f, toks, al, n) = CacheOf(f, toks, n)
<1>1. CASE n = 0
  BY <1>1, NoCache, Zenon DEF After
<1>2. CASE n # 0
  <2>1. (n - 1) + 1 = n
    BY <1>2
  <2> QED BY <1>2, <2>1, Zenon DEF After, StateAfter
<1> QED BY <1>1, <1>2

\* The reference model's passes are not judged.
LEMMA NeverJudged ==
  ASSUME WorkInv, Ref(file), NEW n
  PROVE  SlotsAre(file, fed, alone, asked, slots', n)
<1>1. ~asked.judged
  BY DEF WorkInv, Asking, AskedIs
<1> QED BY <1>1, Zenon DEF SlotsAre

LEMMA EnterKeeps ==
  ASSUME WorkInv, Enter
  PROVE  WorkInv'
<1>1. PICK p : p = work.position
  OBVIOUS
<1>2. PICK n : n = work.count
  OBVIOUS
<1>3. /\ n \in Nat \ {0} /\ p \in Nat /\ GoodFile(file) /\ DOMAIN work = WorkFields
      /\ (~Ref(file) => weights = LW(file)) /\ TokensFrom(work.tokens, fed, p, n)
  BY <1>1, <1>2, WorkFacts
<1>4. phase = "entering" /\ UNCHANGED rigid /\ ~Ref(file) /\ slots' = slots
  BY DEF Enter, Working, IsReference, Ref
<1>5. Fresh(file, alone, work)
  BY <1>4 DEF WorkInv, PhaseIs
<1>6. PICK xs : /\ xs = IF KindOf(file) = "predictor" THEN PredictorInput ELSE Embeddings
                /\ work' = [work EXCEPT !.xs = xs,
                              !.normed = NormedRows(xs, work.count, file.vectors["attn_norm"])]
  BY DEF Enter
<1>7. PICK ns : ns = NormedRows(xs, n, file.vectors["attn_norm"])
  OBVIOUS
<1>8. work' = [work EXCEPT !.xs = xs, !.normed = ns]
  BY <1>2, <1>6, <1>7
<1>9. /\ SameFrame(work, work') /\ work'.xs = xs /\ work'.normed = ns /\ work'.state = work.state
      /\ work'.mixed = work.mixed /\ work'.token = work.token /\ work'.first = work.first
  BY <1>3, <1>8 DEF SameFrame, WorkFields
<1>10. /\ RowsOf(xs, n, Hid(file), XsRows(file, work.tokens, n))
       /\ RowsOf(ns, n, Hid(file), InRows(file, work.tokens, n))
  BY <1>2, <1>3, <1>4, <1>6, <1>7, EnteredAre
<1>11. XsRows(file, work.tokens, n) = PassXs(file, fed, p, n)
  BY <1>3, XsOfPass
<1>12. Entered(file, fed, work')
  BY <1>1, <1>2, <1>9, <1>10, <1>11, Zenon DEF Entered, XsIs, SameFrame
<1>13. Fresh(file, alone, work')
  BY <1>5, <1>9, Zenon DEF Fresh, SameFrame
<1>14. CASE KindOf(file) = "linear"
  <2>1. phase' = "delta"
    BY <1>14 DEF Enter
  <2>2. PhaseIs(file, fed, alone, phase', work')
    BY <1>4, <1>12, <1>13, <1>14, <2>1 DEF PhaseIs
  <2>3. SlotsTaken(phase', work') = SlotsTaken(phase, work) /\ phase' \in WorkPhases
    BY <1>4, <2>1 DEF SlotsTaken, WorkPhases
  <2> QED BY <1>4, <1>9, <2>2, <2>3, SlotsKept, WorkStep
<1>15. CASE KindOf(file) # "linear"
  <2>1. phase' = "attention"
    BY <1>15 DEF Enter
  <2>2. PhaseIs(file, fed, alone, phase', work')
    BY <1>4, <1>12, <1>13, <1>15, <2>1 DEF PhaseIs
  <2>3. phase' \in WorkPhases
    BY <2>1 DEF WorkPhases
  <2> QED BY <1>4, <1>9, <1>15, <2>2, <2>3, SlotsKept, WorkStep
<1> QED BY <1>14, <1>15

LEMMA ReferenceEnterKeeps ==
  ASSUME WorkInv, ReferenceEnter
  PROVE  WorkInv'
<1>1. PICK p : p = work.position
  OBVIOUS
<1>2. PICK n : n = work.count
  OBVIOUS
<1>3. /\ n \in Nat \ {0} /\ p \in Nat /\ GoodFile(file) /\ DOMAIN work = WorkFields
      /\ TokensFrom(work.tokens, fed, p, n)
  BY <1>1, <1>2, WorkFacts
<1>4. phase = "entering" /\ UNCHANGED rigid /\ Ref(file) /\ slots' = slots
  BY DEF ReferenceEnter, Working, IsReference, Ref
<1>5. Fresh(file, alone, work)
  BY <1>4 DEF WorkInv, PhaseIs
<1>6. PICK xs : xs = [i \in Indices(n * Hid(file)) |->
          WeightRow(file.tensors["embed_tokens"], work.tokens[i \div Hid(file) + 1])[i % Hid(file)]]
  OBVIOUS
<1>7. PICK ns : ns = ReferenceNorm(xs, "input_layernorm")
  OBVIOUS
<1>8. work' = [work EXCEPT !.xs = xs, !.normed = ns]
  BY <1>2, <1>6, <1>7, Zenon DEF ReferenceEnter, TensorOf, Hid
<1>9. /\ SameFrame(work, work') /\ work'.xs = xs /\ work'.normed = ns /\ work'.state = work.state
      /\ work'.mixed = work.mixed /\ work'.token = work.token /\ work'.first = work.first
  BY <1>3, <1>8 DEF SameFrame, WorkFields
<1>10. /\ RowsOf(xs, n, Hid(file), XsRows(file, work.tokens, n))
       /\ RowsOf(ns, n, Hid(file), InRows(file, work.tokens, n))
  BY <1>2, <1>3, <1>4, <1>6, <1>7, ReferenceEnteredAre
<1>11. XsRows(file, work.tokens, n) = PassXs(file, fed, p, n)
  BY <1>3, XsOfPass
<1>12. Entered(file, fed, work')
  BY <1>1, <1>2, <1>9, <1>10, <1>11, Zenon DEF Entered, XsIs, SameFrame
<1>13. Fresh(file, alone, work')
  BY <1>5, <1>9, Zenon DEF Fresh, SameFrame
<1>14. CASE KindOf(file) = "linear"
  <2>1. phase' = "reference delta"
    BY <1>14 DEF ReferenceEnter
  <2>2. PhaseIs(file, fed, alone, phase', work')
    BY <1>4, <1>12, <1>13, <1>14, <2>1 DEF PhaseIs
  <2>3. phase' \in WorkPhases
    BY <2>1 DEF WorkPhases
  <2>4. SlotsAre(file, fed, alone, asked, slots', SlotsTaken(phase', work'))
    BY <1>4, NeverJudged
  <2> QED BY <1>4, <1>9, <2>2, <2>3, <2>4, WorkStep
<1>15. CASE KindOf(file) # "linear"
  <2>1. phase' = "reference attention"
    BY <1>15 DEF ReferenceEnter
  <2>2. PhaseIs(file, fed, alone, phase', work')
    BY <1>4, <1>12, <1>13, <1>15, <2>1 DEF PhaseIs
  <2>3. phase' \in WorkPhases
    BY <2>1 DEF WorkPhases
  <2> QED BY <1>4, <1>9, <1>15, <2>2, <2>3, SlotsKept, WorkStep
<1> QED BY <1>14, <1>15

LEMMA OutputKeeps ==
  ASSUME WorkInv, Output
  PROVE  WorkInv'
<1>1. PICK p : p = work.position
  OBVIOUS
<1>2. PICK n : n = work.count
  OBVIOUS
<1>3. /\ n \in Nat \ {0} /\ p \in Nat /\ GoodFile(file) /\ DOMAIN work = WorkFields
      /\ (~Ref(file) => weights = LW(file))
  BY <1>1, <1>2, WorkFacts
<1>4. phase = "output" /\ UNCHANGED rigid /\ slots' = slots /\ phase' = "route"
  BY DEF Output, Working
<1>5. /\ ~Ref(file) /\ XsIs(file, fed, work) /\ Ended(file, fed, alone, work)
      /\ RowsOf(work.mixed, n, MixWidth(file), PassMix(file, fed, alone, p, n))
  BY <1>1, <1>2, <1>4 DEF WorkInv, PhaseIs
<1>6. PICK projected : projected = Forward(weights.mixer.output, work.mixed, n)
  OBVIOUS
<1>7. PICK xs : xs = [i \in DOMAIN work.xs |-> Plus(work.xs[i], projected[i])]
  OBVIOUS
<1>8. PICK ns : ns = NormedRows(xs, n, file.vectors["post_attention_norm"])
  OBVIOUS
<1>9. work' = [work EXCEPT !.xs = xs, !.normed = ns]
  BY <1>2, <1>6, <1>7, <1>8, Zenon DEF Output
<1>10. /\ SameFrame(work, work') /\ work'.xs = xs /\ work'.normed = ns /\ work'.state = work.state
  BY <1>3, <1>9 DEF SameFrame, WorkFields
<1>11. RowsOf(work.xs, n, Hid(file), PassXs(file, fed, p, n))
  BY <1>1, <1>2, <1>5, Zenon DEF XsIs
<1>12. /\ RowsOf(xs, n, Hid(file), PassHidden(file, fed, alone, p, n))
       /\ RowsOf(ns, n, Hid(file), PassMid(file, fed, alone, p, n))
  BY <1>2, <1>3, <1>5, <1>6, <1>7, <1>8, <1>11, HiddenAre
<1>13. Ended(file, fed, alone, work')
  BY <1>5, <1>10, Zenon DEF Ended, SameFrame
<1>14. work'.count = n /\ work'.position = p
  BY <1>1, <1>2, <1>10, Zenon DEF SameFrame
<1>15. PhaseIs(file, fed, alone, phase', work')
  BY <1>4, <1>5, <1>10, <1>12, <1>13, <1>14 DEF PhaseIs
<1>16. SlotsTaken(phase', work') = SlotsTaken(phase, work) /\ phase' \in WorkPhases
  BY <1>4, <1>10 DEF SlotsTaken, WorkPhases, SameFrame
<1> QED BY <1>4, <1>10, <1>15, <1>16, SlotsKept, WorkStep

LEMMA RouteRowsKeeps ==
  ASSUME WorkInv, RouteRows
  PROVE  WorkInv'
<1>1. PICK p : p = work.position
  OBVIOUS
<1>2. PICK n : n = work.count
  OBVIOUS
<1>3. /\ n \in Nat \ {0} /\ p \in Nat /\ GoodFile(file) /\ DOMAIN work = WorkFields
      /\ (~Ref(file) => weights = LW(file))
  BY <1>1, <1>2, WorkFacts
<1>4. phase = "route" /\ UNCHANGED rigid /\ slots' = slots /\ phase' = "experts"
  BY DEF RouteRows, Working
<1>5. /\ ~Ref(file) /\ Ended(file, fed, alone, work)
      /\ RowsOf(work.xs, n, Hid(file), PassHidden(file, fed, alone, p, n))
      /\ RowsOf(work.normed, n, Hid(file), PassMid(file, fed, alone, p, n))
  BY <1>1, <1>2, <1>4 DEF WorkInv, PhaseIs
<1>6. PICK routes : routes = [row \in Indices(n) |->
          Route(Slice(Product(weights.moe.router), row * file.config.experts, file.config.experts),
                file.config.expertsPerToken, file.config.normTopk)]
  OBVIOUS
<1>9. work' = [work EXCEPT !.routes = routes]
  BY <1>2, <1>6, Zenon DEF RouteRows
<1>10. /\ SameFrame(work, work') /\ work'.routes = routes /\ work'.xs = work.xs
       /\ work'.normed = work.normed /\ work'.state = work.state
  BY <1>3, <1>9 DEF SameFrame, WorkFields
<1>12. routes = PassRoute(file, fed, alone, p, n)
  BY <1>2, <1>3, <1>5, <1>6, RoutesAre
<1>13. Ended(file, fed, alone, work')
  BY <1>5, <1>10, Zenon DEF Ended, SameFrame
<1>14. work'.count = n /\ work'.position = p
  BY <1>1, <1>2, <1>10, Zenon DEF SameFrame
<1>15. PhaseIs(file, fed, alone, phase', work')
  BY <1>4, <1>5, <1>10, <1>12, <1>13, <1>14 DEF PhaseIs
<1>16. SlotsTaken(phase', work') = SlotsTaken(phase, work) /\ phase' \in WorkPhases
  BY <1>4, <1>10 DEF SlotsTaken, WorkPhases, SameFrame
<1> QED BY <1>4, <1>10, <1>15, <1>16, SlotsKept, WorkStep

LEMMA ExpertsKeeps ==
  ASSUME WorkInv, Experts
  PROVE  WorkInv'
<1>1. PICK p : p = work.position
  OBVIOUS
<1>2. PICK n : n = work.count
  OBVIOUS
<1>3. /\ n \in Nat \ {0} /\ p \in Nat /\ GoodFile(file) /\ DOMAIN work = WorkFields
      /\ (~Ref(file) => weights = LW(file))
  BY <1>1, <1>2, WorkFacts
<1>4. phase = "experts" /\ UNCHANGED rigid /\ slots' = slots /\ phase' = "final norm"
  BY DEF Experts, Working
<1>5. /\ ~Ref(file) /\ Ended(file, fed, alone, work)
      /\ RowsOf(work.xs, n, Hid(file), PassHidden(file, fed, alone, p, n))
      /\ RowsOf(work.normed, n, Hid(file), PassMid(file, fed, alone, p, n))
      /\ work.routes = PassRoute(file, fed, alone, p, n)
  BY <1>1, <1>2, <1>4 DEF WorkInv, PhaseIs
<1>6. PICK routed : routed = RoutedExperts(weights.moe.experts, work.normed, Hid(file), work.routes)
  OBVIOUS
<1>7. PICK shared : shared = SharedExpert(weights.moe, work.normed, Hid(file), n)
  OBVIOUS
<1>8. PICK xs : xs = [i \in DOMAIN work.xs |-> Plus(work.xs[i], Plus(routed[i], shared[i]))]
  OBVIOUS
<1>9. work' = [work EXCEPT !.xs = xs]
  BY <1>2, <1>6, <1>7, <1>8, Zenon DEF Experts, Hid
<1>10. /\ SameFrame(work, work') /\ work'.xs = xs /\ work'.state = work.state
  BY <1>3, <1>9 DEF SameFrame, WorkFields
<1>12. RowsOf(xs, n, Hid(file), PassLayer(file, fed, alone, p, n))
  BY <1>2, <1>3, <1>5, <1>6, <1>7, <1>8, ExpertsAre
<1>13. Ended(file, fed, alone, work')
  BY <1>5, <1>10, Zenon DEF Ended, SameFrame
<1>14. work'.count = n /\ work'.position = p
  BY <1>1, <1>2, <1>10, Zenon DEF SameFrame
<1>15. PhaseIs(file, fed, alone, phase', work')
  BY <1>4, <1>5, <1>10, <1>12, <1>13, <1>14 DEF PhaseIs
<1>16. SlotsTaken(phase', work') = SlotsTaken(phase, work) /\ phase' \in WorkPhases
  BY <1>4, <1>10 DEF SlotsTaken, WorkPhases, SameFrame
<1> QED BY <1>4, <1>10, <1>15, <1>16, SlotsKept, WorkStep

LEMMA ReferenceOutputKeeps ==
  ASSUME WorkInv, ReferenceOutput
  PROVE  WorkInv'
<1>1. PICK p : p = work.position
  OBVIOUS
<1>2. PICK n : n = work.count
  OBVIOUS
<1>3. /\ n \in Nat \ {0} /\ p \in Nat /\ GoodFile(file) /\ DOMAIN work = WorkFields
      /\ (~Ref(file) => weights = LW(file))
  BY <1>1, <1>2, WorkFacts
<1>4. phase = "reference output" /\ UNCHANGED rigid /\ slots' = slots /\ phase' = "reference route"
  BY DEF ReferenceOutput, Working
<1>5. /\ Ref(file) /\ XsIs(file, fed, work) /\ Ended(file, fed, alone, work)
      /\ RowsOf(work.mixed, n, MixWidth(file), PassMix(file, fed, alone, p, n))
  BY <1>1, <1>2, <1>4 DEF WorkInv, PhaseIs
<1>6. PICK projected : projected = Linear(OutputMatrix(file), work.mixed, n)
  OBVIOUS
<1>7. PICK xs : xs = [i \in DOMAIN work.xs |-> Rounded(HiddenType, Plus(work.xs[i], projected[i]))]
  OBVIOUS
<1>8. PICK ns : ns = ReferenceNorm(xs, "post_attention_layernorm")
  OBVIOUS
<1>9. work' = [work EXCEPT !.xs = xs, !.normed = ns]
  BY <1>2, <1>6, <1>7, <1>8, Zenon DEF ReferenceOutput, OutputMatrix, TensorOf
<1>10. /\ SameFrame(work, work') /\ work'.xs = xs /\ work'.normed = ns /\ work'.state = work.state
  BY <1>3, <1>9 DEF SameFrame, WorkFields
<1>11. RowsOf(work.xs, n, Hid(file), PassXs(file, fed, p, n))
  BY <1>1, <1>2, <1>5, Zenon DEF XsIs
<1>12. /\ RowsOf(xs, n, Hid(file), PassHidden(file, fed, alone, p, n))
       /\ RowsOf(ns, n, Hid(file), PassMid(file, fed, alone, p, n))
  BY <1>2, <1>3, <1>5, <1>6, <1>7, <1>8, <1>11, ReferenceHiddenAre
<1>13. Ended(file, fed, alone, work')
  BY <1>5, <1>10, Zenon DEF Ended, SameFrame
<1>14. work'.count = n /\ work'.position = p
  BY <1>1, <1>2, <1>10, Zenon DEF SameFrame
<1>15. PhaseIs(file, fed, alone, phase', work')
  BY <1>4, <1>5, <1>10, <1>12, <1>13, <1>14 DEF PhaseIs
<1>16. SlotsTaken(phase', work') = SlotsTaken(phase, work) /\ phase' \in WorkPhases
  BY <1>4, <1>10 DEF SlotsTaken, WorkPhases, SameFrame
<1> QED BY <1>4, <1>10, <1>15, <1>16, SlotsKept, WorkStep

LEMMA ReferenceRouteKeeps ==
  ASSUME WorkInv, ReferenceRoute
  PROVE  WorkInv'
<1>1. PICK p : p = work.position
  OBVIOUS
<1>2. PICK n : n = work.count
  OBVIOUS
<1>3. /\ n \in Nat \ {0} /\ p \in Nat /\ GoodFile(file) /\ DOMAIN work = WorkFields
      /\ (~Ref(file) => weights = LW(file))
  BY <1>1, <1>2, WorkFacts
<1>4. phase = "reference route" /\ UNCHANGED rigid /\ slots' = slots /\ phase' = "reference experts"
  BY DEF ReferenceRoute, Working
<1>5. /\ Ref(file) /\ Ended(file, fed, alone, work)
      /\ RowsOf(work.xs, n, Hid(file), PassHidden(file, fed, alone, p, n))
      /\ RowsOf(work.normed, n, Hid(file), PassMid(file, fed, alone, p, n))
  BY <1>1, <1>2, <1>4 DEF WorkInv, PhaseIs
<1>6. PICK routes : routes = IF ~LayerIsMoe(file.config, file.layer) THEN << >>
        ELSE [row \in Indices(n) |->
          Route(Slice(DenseProduct("gate"), row * file.config.experts, file.config.experts),
                file.config.expertsPerToken, file.config.normTopk)]
  OBVIOUS
<1>9. work' = [work EXCEPT !.routes = routes]
  BY <1>2, <1>6, Zenon DEF ReferenceRoute
<1>10. /\ SameFrame(work, work') /\ work'.routes = routes /\ work'.xs = work.xs
       /\ work'.normed = work.normed /\ work'.state = work.state
  BY <1>3, <1>9 DEF SameFrame, WorkFields
<1>12. LayerIsMoe(file.config, file.layer) => routes = PassRoute(file, fed, alone, p, n)
  <2>1. CASE LayerIsMoe(file.config, file.layer)
    <3>1. routes = [row \in Indices(n) |->
            Route(Slice(DenseProduct("gate"), row * file.config.experts, file.config.experts),
                  file.config.expertsPerToken, file.config.normTopk)]
      BY <1>6, <2>1
    <3> QED BY <1>2, <1>3, <1>5, <2>1, <3>1, ReferenceRoutesAre
  <2> QED BY <2>1
<1>13. Ended(file, fed, alone, work')
  BY <1>5, <1>10, Zenon DEF Ended, SameFrame
<1>14. work'.count = n /\ work'.position = p
  BY <1>1, <1>2, <1>10, Zenon DEF SameFrame
<1>15. PhaseIs(file, fed, alone, phase', work')
  BY <1>4, <1>5, <1>10, <1>12, <1>13, <1>14 DEF PhaseIs
<1>16. SlotsTaken(phase', work') = SlotsTaken(phase, work) /\ phase' \in WorkPhases
  BY <1>4, <1>10 DEF SlotsTaken, WorkPhases, SameFrame
<1> QED BY <1>4, <1>10, <1>15, <1>16, SlotsKept, WorkStep

LEMMA ReferenceExpertsKeeps ==
  ASSUME WorkInv, ReferenceExperts
  PROVE  WorkInv'
<1>1. PICK p : p = work.position
  OBVIOUS
<1>2. PICK n : n = work.count
  OBVIOUS
<1>3. /\ n \in Nat \ {0} /\ p \in Nat /\ GoodFile(file) /\ DOMAIN work = WorkFields
      /\ (~Ref(file) => weights = LW(file))
  BY <1>1, <1>2, WorkFacts
<1>4. phase = "reference experts" /\ UNCHANGED rigid /\ slots' = slots /\ phase' = "final norm"
  BY DEF ReferenceExperts, Working
<1>5. /\ Ref(file) /\ Ended(file, fed, alone, work)
      /\ RowsOf(work.xs, n, Hid(file), PassHidden(file, fed, alone, p, n))
      /\ RowsOf(work.normed, n, Hid(file), PassMid(file, fed, alone, p, n))
      /\ LayerIsMoe(file.config, file.layer) => work.routes = PassRoute(file, fed, alone, p, n)
  BY <1>1, <1>2, <1>4 DEF WorkInv, PhaseIs
<1>6. PICK forwarded : forwarded =
        IF LayerIsMoe(file.config, file.layer)
        THEN RoundedAll(HiddenType,
               SparseMoe(file.experts, SharedMlp(file), file.tensors["shared_expert_gate"],
                         work.normed, Hid(file), work.routes))
        ELSE Mlp(DenseMlp(file), work.normed, n)
  OBVIOUS
<1>8. PICK xs : xs = [i \in DOMAIN work.xs |-> Rounded(HiddenType, Plus(work.xs[i], forwarded[i]))]
  OBVIOUS
<1>9. work' = [work EXCEPT !.xs = xs]
  BY <1>2, <1>6, <1>8, Zenon DEF ReferenceExperts, Hid, SharedMlp, DenseMlp, FileMlp, MlpOf, TensorOf
<1>10. /\ SameFrame(work, work') /\ work'.xs = xs /\ work'.state = work.state
  BY <1>3, <1>9 DEF SameFrame, WorkFields
<1>12. RowsOf(xs, n, Hid(file), PassLayer(file, fed, alone, p, n))
  BY <1>2, <1>3, <1>5, <1>6, <1>8, ReferenceExpertsAre
<1>13. Ended(file, fed, alone, work')
  BY <1>5, <1>10, Zenon DEF Ended, SameFrame
<1>14. work'.count = n /\ work'.position = p
  BY <1>1, <1>2, <1>10, Zenon DEF SameFrame
<1>15. PhaseIs(file, fed, alone, phase', work')
  BY <1>4, <1>5, <1>10, <1>12, <1>13, <1>14 DEF PhaseIs
<1>16. SlotsTaken(phase', work') = SlotsTaken(phase, work) /\ phase' \in WorkPhases
  BY <1>4, <1>10 DEF SlotsTaken, WorkPhases, SameFrame
<1> QED BY <1>4, <1>10, <1>15, <1>16, SlotsKept, WorkStep

LEMMA FinalNormKeeps ==
  ASSUME WorkInv, FinalNorm
  PROVE  WorkInv'
<1>1. PICK p : p = work.position
  OBVIOUS
<1>2. PICK n : n = work.count
  OBVIOUS
<1>3. /\ n \in Nat \ {0} /\ p \in Nat /\ GoodFile(file) /\ DOMAIN work = WorkFields
      /\ (~Ref(file) => weights = LW(file))
  BY <1>1, <1>2, WorkFacts
<1>4. phase = "final norm" /\ UNCHANGED rigid /\ slots' = slots /\ phase' = "head"
  BY DEF FinalNorm, Working
<1>5. /\ Ended(file, fed, alone, work)
      /\ RowsOf(work.xs, n, Hid(file), PassLayer(file, fed, alone, p, n))
  BY <1>1, <1>2, <1>4 DEF WorkInv, PhaseIs
<1>6. PICK norm : norm = IF KindOf(file) = "predictor" THEN "shared_head_norm" ELSE "output_norm"
  OBVIOUS
<1>8. PICK ns : ns = IF Ref(file) THEN ReferenceNorm(work.xs, "norm")
                     ELSE NormedRows(work.xs, n, file.vectors[norm])
  OBVIOUS
<1>9. work' = [work EXCEPT !.normed = ns]
  BY <1>2, <1>6, <1>8, Zenon DEF FinalNorm, IsReference, Ref
<1>10. /\ SameFrame(work, work') /\ work'.normed = ns /\ work'.state = work.state
  BY <1>3, <1>9 DEF SameFrame, WorkFields
<1>12. RowsOf(ns, n, Hid(file), PassFinal(file, fed, alone, p, n))
  <2>1. CASE Ref(file)
    BY <1>2, <1>3, <1>5, <1>8, <2>1, ReferenceFinalAre
  <2>2. CASE ~Ref(file)
    BY <1>2, <1>3, <1>5, <1>6, <1>8, <2>2, FinalAre
  <2> QED BY <2>1, <2>2
<1>13. Ended(file, fed, alone, work')
  BY <1>5, <1>10, Zenon DEF Ended, SameFrame
<1>14. work'.count = n /\ work'.position = p
  BY <1>1, <1>2, <1>10, Zenon DEF SameFrame
<1>15. PhaseIs(file, fed, alone, phase', work')
  BY <1>4, <1>5, <1>10, <1>12, <1>13, <1>14 DEF PhaseIs
<1>16. SlotsTaken(phase', work') = SlotsTaken(phase, work) /\ phase' \in WorkPhases
  BY <1>4, <1>10 DEF SlotsTaken, WorkPhases, SameFrame
<1> QED BY <1>4, <1>10, <1>15, <1>16, SlotsKept, WorkStep

LEMMA ShapeHere ==
  ASSUME NEW n, n = work.count, NEW p, p = work.position
  PROVE  /\ Shape = ShapeOf(file, n, p)
         /\ \A w : w.count = n /\ w.position = p => ShapeIn(file, w) = ShapeOf(file, n, p)
<1>1. Shape = ShapeOf(file, n, p)
  BY Zenon DEF Shape, ShapeOf
<1>2. \A w : w.count = n /\ w.position = p => ShapeIn(file, w) = ShapeOf(file, n, p)
  BY Zenon DEF ShapeIn
<1> QED BY <1>1, <1>2

LEMMA ProjectAttentionKeeps ==
  ASSUME WorkInv, ProjectAttention
  PROVE  WorkInv'
<1>1. PICK p : p = work.position
  OBVIOUS
<1>2. PICK n : n = work.count
  OBVIOUS
<1>3. /\ n \in Nat \ {0} /\ p \in Nat /\ GoodFile(file) /\ GoodConfig(file) /\ DOMAIN work = WorkFields
      /\ (~Ref(file) => weights = LW(file)) /\ TokensFrom(work.tokens, fed, p, n)
      /\ AloneIs(file, fed, alone) /\ CacheWidth(file) \in Nat
  BY <1>1, <1>2, WorkFacts
<1>4. phase = "attention" /\ UNCHANGED rigid /\ slots' = slots
  BY DEF ProjectAttention, Working
<1>5. ~Ref(file) /\ KindOf(file) # "linear" /\ Entered(file, fed, work) /\ Fresh(file, alone, work)
  BY <1>4 DEF WorkInv, PhaseIs
<1>6. p \in 0..Len(alone)
  BY <1>1, <1>2, WorkFacts
<1>7. work.state = CacheOf(file, fed, p)
  <2>1. Before(file, alone, p) = CacheOf(file, fed, p)
    BY <1>3, <1>5, <1>6, BeforeIsCache
  <2> QED BY <1>1, <1>5, <2>1, Zenon DEF Fresh
<1>8. PICK sh : sh = ShapeOf(file, n, p)
  OBVIOUS
<1>9. Shape = sh /\ \A w : w.count = n /\ w.position = p => ShapeIn(file, w) = sh
  BY <1>1, <1>2, <1>8, ShapeHere
<1>10. PICK query : query = Product(weights.mixer.query)
  OBVIOUS
<1>11. PICK key : key = Product(weights.mixer.key)
  OBVIOUS
<1>12. PICK value : value = Product(weights.mixer.value)
  OBVIOUS
<1>13. PICK pr : pr = Projected(query, key, value, QueryNorm(file), KeyNorm(file))
  OBVIOUS
<1>14. PICK zeros : zeros = [i \in Indices(n * sh.queryHeads * sh.headDim) |-> 0]
  OBVIOUS
<1>15. work' = [work EXCEPT !.queries = pr.queries, !.gates = pr.gates, !.state = pr.state,
                  !.buffer = NewProbabilities(sh), !.accumulator = NewAccumulator(sh), !.mixed = zeros]
  <2>1. QueryNorm(file) = file.vectors["attn_q_norm"] /\ KeyNorm(file) = file.vectors["attn_k_norm"]
    BY <1>5, Zenon DEF QueryNorm, KeyNorm
  <2>2. pr = Projected(Product(weights.mixer.query), Product(weights.mixer.key), Product(weights.mixer.value),
                       file.vectors["attn_q_norm"], file.vectors["attn_k_norm"])
    BY <1>10, <1>11, <1>12, <1>13, <2>1, Zenon
  <2> QED BY <1>2, <1>9, <1>14, <2>2, Zenon DEF ProjectAttention
<1>16. PICK np : np = NewProbabilities(sh)
  OBVIOUS
<1>17. PICK na : na = NewAccumulator(sh)
  OBVIOUS
<1>18. /\ SameFrame(work, work') /\ work'.queries = pr.queries /\ work'.gates = pr.gates
       /\ work'.state = pr.state /\ work'.buffer = np /\ work'.accumulator = na /\ work'.mixed = zeros
       /\ work'.xs = work.xs /\ work'.first = work.first
  BY <1>3, <1>15, <1>16, <1>17 DEF SameFrame, WorkFields
<1>19. work'.count = n /\ work'.position = p
  BY <1>1, <1>2, <1>18, Zenon DEF SameFrame
<1>20. ProjectionsOf(file, fed, p, n, query, key, value)
  <2>1. RowsOf(work.normed, n, Hid(file), InRows(file, work.tokens, n))
    BY <1>2, <1>5, Zenon DEF Entered
  <2>2. ProjectionsOf(file, fed, p, n, Product(weights.mixer.query), Product(weights.mixer.key),
                       Product(weights.mixer.value))
    BY <1>2, <1>3, <1>5, <2>1, ProjectionsAre
  <2> QED BY <1>10, <1>11, <1>12, <2>2
<1>21. ProjectedTo(file, fed, p, n, pr)
  <2>1. /\ RowsOf(query, n, file.config.queryHeads * (2 * file.config.headDim), QueryRows(file, fed, p, n))
        /\ RowsOf(key, n, CacheWidth(file), KeyRows(file, fed, p, n))
        /\ RowsOf(value, n, CacheWidth(file), ValueRows(file, fed, p, n))
    BY <1>20, Zenon DEF ProjectionsOf
  <2> QED BY <1>1, <1>2, <1>3, <1>7, <1>13, <2>1, ProjectedIs
<1>22. ProjectedIn(file, fed, work')
  BY <1>18, <1>19, <1>21, Zenon DEF ProjectedTo, ProjectedIn
<1>23. XsIs(file, fed, work')
  <2>1. XsIs(file, fed, work)
    BY <1>5, Zenon DEF Entered
  <2> QED BY <1>1, <1>2, <1>18, <1>19, <2>1, Zenon DEF XsIs
<1>24. CASE phase' = "heads"
  <2>1. PhaseIs(file, fed, alone, phase', work')
    BY <1>5, <1>22, <1>23, <1>24 DEF PhaseIs
  <2>2. phase' \in WorkPhases
    BY <1>24 DEF WorkPhases
  <2> QED BY <1>4, <1>5, <1>18, <2>1, <2>2, SlotsKept, WorkStep
<1>25. CASE phase' = "scores"
  <2>1. IsArray(np, BufferSize(sh)) /\ IsArray(na, SumsSize(sh))
    BY <1>16, <1>17, Zenon DEF NewProbabilities, NewAccumulator, BufferSize, SumsSize, IsArray
  <2>2. sh.seq = n
    BY <1>8 DEF ShapeOf
  <2>3. IsArray(zeros, (sh.seq * sh.queryHeads) * sh.headDim)
    BY <1>14, <2>2, Zenon DEF IsArray
  <2>4. work'.first = 0 /\ 0 \in Indices(n) /\ Indices(0) = {}
    <3>1. work.first = 0
      BY <1>5, Zenon DEF Fresh
    <3> QED BY <1>3, <1>18, <3>1 DEF Indices
  <2>5. ScannedTo(sh, work'.queries, work'.gates, work'.state.keys, work'.state.values, zeros, 0)
    BY <2>3, <2>4, Zenon DEF ScannedTo
  <2>6. ShapeIn(file, work') = sh
    BY <1>9, <1>19
  <2>7. ScanningIn(file, fed, work')
    BY <1>18, <1>19, <1>22, <1>23, <2>4, <2>5, <2>6, Zenon DEF ScanningIn
  <2>8. PhaseIs(file, fed, alone, phase', work')
    BY <1>5, <1>18, <1>25, <2>1, <2>6, <2>7 DEF PhaseIs
  <2>9. phase' \in WorkPhases
    BY <1>25 DEF WorkPhases
  <2> QED BY <1>4, <1>5, <1>18, <2>8, <2>9, SlotsKept, WorkStep
<1> QED BY <1>24, <1>25 DEF ProjectAttention

LEMMA ReferenceProjectKeeps ==
  ASSUME WorkInv, ReferenceProject
  PROVE  WorkInv'
<1>1. PICK p : p = work.position
  OBVIOUS
<1>2. PICK n : n = work.count
  OBVIOUS
<1>3. /\ n \in Nat \ {0} /\ p \in Nat /\ GoodFile(file) /\ GoodConfig(file) /\ DOMAIN work = WorkFields
      /\ TokensFrom(work.tokens, fed, p, n)
      /\ AloneIs(file, fed, alone) /\ CacheWidth(file) \in Nat
  BY <1>1, <1>2, WorkFacts
<1>4. phase = "reference attention" /\ UNCHANGED rigid /\ slots' = slots /\ phase' = "reference scan"
  BY DEF ReferenceProject, Working
<1>5. Ref(file) /\ KindOf(file) # "linear" /\ Entered(file, fed, work) /\ Fresh(file, alone, work)
  BY <1>4 DEF WorkInv, PhaseIs
<1>6. p \in 0..Len(alone)
  BY <1>1, <1>2, WorkFacts
<1>7. work.state = CacheOf(file, fed, p)
  <2>1. Before(file, alone, p) = CacheOf(file, fed, p)
    BY <1>3, <1>5, <1>6, BeforeIsCache
  <2> QED BY <1>1, <1>5, <2>1, Zenon DEF Fresh
<1>10. PICK query : query = DenseProduct("q_proj")
  OBVIOUS
<1>11. PICK key : key = DenseProduct("k_proj")
  OBVIOUS
<1>12. PICK value : value = DenseProduct("v_proj")
  OBVIOUS
<1>13. PICK pr : pr = Projected(query, key, value, QueryNorm(file), KeyNorm(file))
  OBVIOUS
<1>15. work' = [work EXCEPT !.queries = pr.queries, !.gates = pr.gates, !.state = pr.state]
  <2>1. QueryNorm(file) = OneCentered(file.vectors["q_norm"])
        /\ KeyNorm(file) = OneCentered(file.vectors["k_norm"])
    BY <1>5, Zenon DEF QueryNorm, KeyNorm
  <2>2. pr = Projected(DenseProduct("q_proj"), DenseProduct("k_proj"), DenseProduct("v_proj"),
                       OneCentered(file.vectors["q_norm"]), OneCentered(file.vectors["k_norm"]))
    BY <1>10, <1>11, <1>12, <1>13, <2>1, Zenon
  <2> QED BY <2>2, Zenon DEF ReferenceProject
<1>18. /\ SameFrame(work, work') /\ work'.queries = pr.queries /\ work'.gates = pr.gates
       /\ work'.state = pr.state /\ work'.xs = work.xs
  BY <1>3, <1>15 DEF SameFrame, WorkFields
<1>19. work'.count = n /\ work'.position = p
  BY <1>1, <1>2, <1>18, Zenon DEF SameFrame
<1>20. ProjectionsOf(file, fed, p, n, query, key, value)
  <2>1. RowsOf(work.normed, n, Hid(file), InRows(file, work.tokens, n))
    BY <1>2, <1>5, Zenon DEF Entered
  <2>2. ProjectionsOf(file, fed, p, n, DenseProduct("q_proj"), DenseProduct("k_proj"),
                      DenseProduct("v_proj"))
    BY <1>2, <1>3, <1>5, <2>1, ReferenceProjectionsAre
  <2> QED BY <1>10, <1>11, <1>12, <2>2
<1>21. ProjectedTo(file, fed, p, n, pr)
  <2>1. /\ RowsOf(query, n, file.config.queryHeads * (2 * file.config.headDim), QueryRows(file, fed, p, n))
        /\ RowsOf(key, n, CacheWidth(file), KeyRows(file, fed, p, n))
        /\ RowsOf(value, n, CacheWidth(file), ValueRows(file, fed, p, n))
    BY <1>20, Zenon DEF ProjectionsOf
  <2> QED BY <1>1, <1>2, <1>3, <1>7, <1>13, <2>1, ProjectedIs
<1>22. ProjectedIn(file, fed, work')
  BY <1>18, <1>19, <1>21, Zenon DEF ProjectedTo, ProjectedIn
<1>23. XsIs(file, fed, work')
  <2>1. XsIs(file, fed, work)
    BY <1>5, Zenon DEF Entered
  <2> QED BY <1>1, <1>2, <1>18, <1>19, <2>1, Zenon DEF XsIs
<1>24. PhaseIs(file, fed, alone, phase', work')
  BY <1>4, <1>5, <1>22, <1>23 DEF PhaseIs
<1>25. phase' \in WorkPhases
  BY <1>4 DEF WorkPhases
<1> QED BY <1>4, <1>5, <1>18, <1>24, <1>25, SlotsKept, WorkStep

\* The mixer's output is that of each row.
MixedIn(f, toks, al, w) ==
  /\ Ended(f, toks, al, w)
  /\ RowsOf(w.mixed, w.count, MixWidth(f), PassMix(f, toks, al, w.position, w.count))

LEMMA MixedRowsHere ==
  ASSUME WorkInv, NEW p, p = work.position, NEW n, n = work.count, KindOf(file) # "linear",
         ProjectedIn(file, fed, work), NEW w, w.state = work.state, w.count = n, w.position = p,
         RowsOf(w.mixed, n, file.config.queryHeads * file.config.headDim,
                [r \in Indices(n) |-> AttentionMixed(file, fed, p + r)])
  PROVE  MixedIn(file, fed, alone, w)
<1>1. n \in Nat \ {0} /\ p \in Nat /\ CacheWidth(file) \in Nat
  BY WorkFacts
<1>2. Ended(file, fed, alone, w)
  <2>1. After(file, fed, alone, p + n) = CacheOf(file, fed, p + n)
    BY <1>1, AfterIsCache
  <2>2. work.state = CacheOf(file, fed, p + n)
    BY Zenon DEF ProjectedIn
  <2> QED BY <2>1, <2>2, Zenon DEF Ended
<1>3. MixWidth(file) = file.config.queryHeads * file.config.headDim
  BY Zenon DEF MixWidth
<1>4. PassMix(file, fed, alone, p, n) = [r \in Indices(n) |-> AttentionMixed(file, fed, p + r)]
  BY Zenon DEF PassMix, MixRow
<1> QED BY <1>2, <1>3, <1>4, Zenon DEF MixedIn

LEMMA MixedHere ==
  ASSUME WorkInv, NEW p, p = work.position, NEW n, n = work.count, NEW sh, sh = ShapeOf(file, n, p),
         ~Ref(file), KindOf(file) # "linear", ProjectedIn(file, fed, work),
         NEW w, w.state = work.state, w.count = n, w.position = p,
         IsScanned(sh, work.queries, work.gates, work.state.keys, work.state.values, w.mixed)
  PROVE  MixedIn(file, fed, alone, w)
<1>1. n \in Nat \ {0} /\ p \in Nat /\ GoodConfig(file)
  BY WorkFacts
<1>2. /\ \A t \in Indices(n) : /\ work.queries[t] = QueryAt(file, fed, p + t)
                                /\ work.gates[t] = GateAt(file, fed, p + t)
      /\ work.state = CacheOf(file, fed, p + n)
  BY Zenon DEF ProjectedIn
<1>3. IsScanned(ShapeOf(file, n, p), work.queries, work.gates, CacheOf(file, fed, p + n).keys,
                CacheOf(file, fed, p + n).values, w.mixed)
  BY <1>2
<1>4. RowsOf(w.mixed, n, file.config.queryHeads * file.config.headDim,
             [r \in Indices(n) |-> AttentionMixed(file, fed, p + r)])
  BY <1>1, <1>2, <1>3, ScannedRows
<1> QED BY <1>4, MixedRowsHere

LEMMA ReferenceMixedHere ==
  ASSUME WorkInv, NEW p, p = work.position, NEW n, n = work.count, NEW sh, sh = ShapeOf(file, n, p),
         Ref(file), KindOf(file) # "linear", ProjectedIn(file, fed, work),
         NEW w, w.state = work.state, w.count = n, w.position = p,
         w.mixed = ReferenceScan(sh, work.queries, work.gates, work.state.keys, work.state.values)
  PROVE  MixedIn(file, fed, alone, w)
<1>1. n \in Nat \ {0} /\ p \in Nat /\ GoodConfig(file)
  BY WorkFacts
<1>2. /\ \A t \in Indices(n) : /\ work.queries[t] = QueryAt(file, fed, p + t)
                                /\ work.gates[t] = GateAt(file, fed, p + t)
      /\ work.state = CacheOf(file, fed, p + n)
  BY Zenon DEF ProjectedIn
<1>3. w.mixed = ReferenceScan(ShapeOf(file, n, p), work.queries, work.gates,
                              CacheOf(file, fed, p + n).keys, CacheOf(file, fed, p + n).values)
  BY <1>2
<1>4. RowsOf(w.mixed, n, file.config.queryHeads * file.config.headDim,
             [r \in Indices(n) |-> AttentionMixed(file, fed, p + r)])
  <2>1. PICK qs : qs = work.queries
    OBVIOUS
  <2>2. PICK gs : gs = work.gates
    OBVIOUS
  <2>3. PICK mx : mx = w.mixed
    OBVIOUS
  <2>4. /\ \A t \in Indices(n) : qs[t] = QueryAt(file, fed, p + t) /\ gs[t] = GateAt(file, fed, p + t)
        /\ mx = ReferenceScan(ShapeOf(file, n, p), qs, gs, CacheOf(file, fed, p + n).keys,
                              CacheOf(file, fed, p + n).values)
    BY <1>2, <1>3, <2>1, <2>2, <2>3
  <2>5. RowsOf(mx, n, file.config.queryHeads * file.config.headDim,
               [r \in Indices(n) |-> AttentionMixed(file, fed, p + r)])
    BY ONLY <1>1, <2>4, Ref(file), ReferenceScannedRows
  <2> QED BY <2>3, <2>5
<1> QED BY <1>4, MixedRowsHere

LEMMA ScanHeadsKeeps ==
  ASSUME WorkInv, ScanHeads
  PROVE  WorkInv'
<1>1. PICK p : p = work.position
  OBVIOUS
<1>2. PICK n : n = work.count
  OBVIOUS
<1>3. /\ n \in Nat \ {0} /\ p \in Nat /\ GoodFile(file) /\ GoodConfig(file) /\ DOMAIN work = WorkFields
  BY <1>1, <1>2, WorkFacts
<1>4. phase = "heads" /\ UNCHANGED rigid /\ slots' = slots
  BY DEF ScanHeads, Working
<1>5. PICK sh : sh = ShapeOf(file, n, p)
  OBVIOUS
<1>6. /\ Shape = sh /\ (\A w : w.count = n /\ w.position = p => ShapeIn(file, w) = sh)
      /\ IsScan(sh) /\ sh.seq = n
  <2>1. sh.seq = n
    BY <1>5 DEF ShapeOf
  <2> QED BY <1>1, <1>2, <1>3, <1>5, <2>1, ShapeHere, ShapeIs
<1>7. ~Ref(file) /\ KindOf(file) # "linear" /\ XsIs(file, fed, work) /\ ProjectedIn(file, fed, work)
  BY <1>4 DEF WorkInv, PhaseIs
<1>8. PICK new : new = PerHeadScan(sh, work.queries, work.gates, work.state.keys, work.state.values)
  OBVIOUS
<1>9. IsScanned(sh, work.queries, work.gates, work.state.keys, work.state.values, new)
  BY <1>6, <1>8, PerHeadScanIs
<1>10. work' = [work EXCEPT !.mixed = new]
  BY <1>6, <1>8, Zenon DEF ScanHeads
<1>11. /\ SameFrame(work, work') /\ work'.state = work.state /\ work'.xs = work.xs /\ work'.mixed = new
  BY <1>3, <1>10 DEF SameFrame, WorkFields
<1>12. work'.count = n /\ work'.position = p
  BY <1>1, <1>2, <1>11, Zenon DEF SameFrame
<1>13. XsIs(file, fed, work')
  BY <1>1, <1>2, <1>7, <1>11, <1>12, Zenon DEF XsIs
<1>14. MixedIn(file, fed, alone, work')
  BY <1>1, <1>2, <1>5, <1>7, <1>9, <1>11, <1>12, MixedHere
<1>15. phase' = "output"
  BY DEF ScanHeads
<1>16. PhaseIs(file, fed, alone, phase', work')
  BY <1>7, <1>13, <1>14, <1>15, Zenon DEF MixedIn, PhaseIs
<1>17. phase' \in WorkPhases
  BY <1>15 DEF WorkPhases
<1> QED BY <1>4, <1>7, <1>11, <1>16, <1>17, SlotsKept, WorkStep

LEMMA ReferenceAttendKeeps ==
  ASSUME WorkInv, ReferenceAttend
  PROVE  WorkInv'
<1>1. PICK p : p = work.position
  OBVIOUS
<1>2. PICK n : n = work.count
  OBVIOUS
<1>3. /\ n \in Nat \ {0} /\ p \in Nat /\ GoodFile(file) /\ GoodConfig(file) /\ DOMAIN work = WorkFields
  BY <1>1, <1>2, WorkFacts
<1>4. phase = "reference scan" /\ UNCHANGED rigid /\ slots' = slots
  BY DEF ReferenceAttend, Working
<1>5. PICK sh : sh = ShapeOf(file, n, p)
  OBVIOUS
<1>6. /\ Shape = sh /\ (\A w : w.count = n /\ w.position = p => ShapeIn(file, w) = sh)
      /\ IsScan(sh) /\ sh.seq = n
  <2>1. sh.seq = n
    BY <1>5 DEF ShapeOf
  <2> QED BY <1>1, <1>2, <1>3, <1>5, <2>1, ShapeHere, ShapeIs
<1>7. Ref(file) /\ KindOf(file) # "linear" /\ XsIs(file, fed, work) /\ ProjectedIn(file, fed, work)
  BY <1>4 DEF WorkInv, PhaseIs
<1>8. PICK new : new = ReferenceScan(sh, work.queries, work.gates, work.state.keys, work.state.values)
  OBVIOUS
<1>10. work' = [work EXCEPT !.mixed = new]
  BY <1>6, <1>8, Zenon DEF ReferenceAttend
<1>11. /\ SameFrame(work, work') /\ work'.state = work.state /\ work'.xs = work.xs /\ work'.mixed = new
  BY <1>3, <1>10 DEF SameFrame, WorkFields
<1>12. work'.count = n /\ work'.position = p
  BY <1>1, <1>2, <1>11, Zenon DEF SameFrame
<1>13. XsIs(file, fed, work')
  BY <1>1, <1>2, <1>7, <1>11, <1>12, Zenon DEF XsIs
<1>14. MixedIn(file, fed, alone, work')
  BY <1>1, <1>2, <1>5, <1>7, <1>8, <1>11, <1>12, ReferenceMixedHere
<1>15. phase' = "reference output"
  BY DEF ReferenceAttend
<1>16. PhaseIs(file, fed, alone, phase', work')
  BY <1>7, <1>13, <1>14, <1>15, Zenon DEF MixedIn, PhaseIs
<1>17. phase' \in WorkPhases
  BY <1>15 DEF WorkPhases
<1> QED BY <1>4, <1>7, <1>11, <1>16, <1>17, SlotsKept, WorkStep

LEMMA ScanScoresKeeps ==
  ASSUME WorkInv, ScanScores
  PROVE  WorkInv'
<1>1. PICK p : p = work.position
  OBVIOUS
<1>2. PICK n : n = work.count
  OBVIOUS
<1>3. /\ n \in Nat \ {0} /\ p \in Nat /\ GoodFile(file) /\ GoodConfig(file) /\ DOMAIN work = WorkFields
  BY <1>1, <1>2, WorkFacts
<1>4. phase = "scores" /\ UNCHANGED rigid /\ slots' = slots
  BY DEF ScanScores, Working
<1>5. PICK sh : sh = ShapeOf(file, n, p)
  OBVIOUS
<1>6. /\ Shape = sh /\ (\A w : w.count = n /\ w.position = p => ShapeIn(file, w) = sh)
      /\ IsScan(sh) /\ sh.seq = n
  <2>1. sh.seq = n
    BY <1>5 DEF ShapeOf
  <2> QED BY <1>1, <1>2, <1>3, <1>5, <2>1, ShapeHere, ShapeIs
<1>7. /\ ~Ref(file) /\ KindOf(file) # "linear" /\ ScanningIn(file, fed, work)
  BY <1>4 DEF WorkInv, PhaseIs
<1>8. PICK ch : ch = ChunkAt(sh, work.first)
  OBVIOUS
<1>9. /\ ShapeIn(file, work) = sh /\ ChunkIn(file, work) = ch /\ Chunk = ch
  <2>1. ShapeIn(file, work) = sh
    BY <1>1, <1>2, <1>6
  <2> QED BY <1>6, <1>8, <2>1, Zenon DEF ChunkIn, Chunk
<1>10. /\ work.first \in Indices(n) /\ XsIs(file, fed, work) /\ ProjectedIn(file, fed, work)
       /\ ScannedTo(sh, work.queries, work.gates, work.state.keys, work.state.values, work.mixed, work.first)
  BY <1>2, <1>7, <1>9, Zenon DEF ScanningIn
<1>11. IsChunk(sh, ch) /\ ch.first = work.first
  BY <1>6, <1>8, <1>10, ChunkIs
<1>12. PICK new : /\ new = Scores(sh, ch, work.queries, work.state.keys, work.buffer)
                  /\ Scored(sh, ch, work.queries, work.state.keys, new)
                  /\ IsArray(work.accumulator, SumsSize(sh))
  <2>1. IsArray(work.buffer, BufferSize(sh)) /\ IsArray(work.accumulator, SumsSize(sh))
    BY <1>4, <1>9 DEF WorkInv, PhaseIs
  <2> QED BY <1>6, <1>11, <2>1, ScoresAre
<1>13. work' = [work EXCEPT !.buffer = new]
  BY <1>6, <1>9, <1>12, Zenon DEF ScanScores
<1>14. phase' = "softmax"
  BY DEF ScanScores
<1>15. /\ SameFrame(work, work')
       /\ work'.queries = work.queries
       /\ work'.gates = work.gates
       /\ work'.state = work.state
       /\ work'.xs = work.xs
       /\ work'.mixed = work.mixed
       /\ work'.first = work.first
       /\ work'.buffer = new
       /\ work'.accumulator = work.accumulator
  BY <1>3, <1>13 DEF SameFrame, WorkFields
<1>16. /\ work'.count = n /\ work'.position = p /\ ShapeIn(file, work') = sh /\ ChunkIn(file, work') = ch
  <2>1. work'.count = n /\ work'.position = p
    BY <1>1, <1>2, <1>15, Zenon DEF SameFrame
  <2>2. ShapeIn(file, work') = sh
    BY <1>6, <2>1
  <2> QED BY <1>8, <1>15, <2>1, <2>2, Zenon DEF ChunkIn
<1>17. ScanningIn(file, fed, work')
  <2>1. XsIs(file, fed, work') /\ ProjectedIn(file, fed, work')
    BY <1>1, <1>2, <1>10, <1>15, <1>16, Zenon DEF XsIs, ProjectedIn
  <2> QED BY <1>10, <1>15, <1>16, <2>1, Zenon DEF ScanningIn
<1>18. PhaseIs(file, fed, alone, phase', work')
  BY <1>7, <1>12, <1>14, <1>15, <1>16, <1>17 DEF PhaseIs
<1>19. phase' \in WorkPhases
  BY <1>14 DEF WorkPhases
<1> QED BY <1>4, <1>7, <1>15, <1>18, <1>19, SlotsKept, WorkStep

LEMMA ScanSoftmaxKeeps ==
  ASSUME WorkInv, ScanSoftmax
  PROVE  WorkInv'
<1>1. PICK p : p = work.position
  OBVIOUS
<1>2. PICK n : n = work.count
  OBVIOUS
<1>3. /\ n \in Nat \ {0} /\ p \in Nat /\ GoodFile(file) /\ GoodConfig(file) /\ DOMAIN work = WorkFields
  BY <1>1, <1>2, WorkFacts
<1>4. phase = "softmax" /\ UNCHANGED rigid /\ slots' = slots
  BY DEF ScanSoftmax, Working
<1>5. PICK sh : sh = ShapeOf(file, n, p)
  OBVIOUS
<1>6. /\ Shape = sh /\ (\A w : w.count = n /\ w.position = p => ShapeIn(file, w) = sh)
      /\ IsScan(sh) /\ sh.seq = n
  <2>1. sh.seq = n
    BY <1>5 DEF ShapeOf
  <2> QED BY <1>1, <1>2, <1>3, <1>5, <2>1, ShapeHere, ShapeIs
<1>7. /\ ~Ref(file) /\ KindOf(file) # "linear" /\ ScanningIn(file, fed, work)
  BY <1>4 DEF WorkInv, PhaseIs
<1>8. PICK ch : ch = ChunkAt(sh, work.first)
  OBVIOUS
<1>9. /\ ShapeIn(file, work) = sh /\ ChunkIn(file, work) = ch /\ Chunk = ch
  <2>1. ShapeIn(file, work) = sh
    BY <1>1, <1>2, <1>6
  <2> QED BY <1>6, <1>8, <2>1, Zenon DEF ChunkIn, Chunk
<1>10. /\ work.first \in Indices(n) /\ XsIs(file, fed, work) /\ ProjectedIn(file, fed, work)
       /\ ScannedTo(sh, work.queries, work.gates, work.state.keys, work.state.values, work.mixed, work.first)
  BY <1>2, <1>7, <1>9, Zenon DEF ScanningIn
<1>11. IsChunk(sh, ch) /\ ch.first = work.first
  BY <1>6, <1>8, <1>10, ChunkIs
<1>12. PICK new : /\ new = Softmax(sh, ch, work.buffer)
                  /\ Weighed(sh, ch, work.queries, work.state.keys, new)
                  /\ IsArray(work.accumulator, SumsSize(sh))
  <2>1. Scored(sh, ch, work.queries, work.state.keys, work.buffer) /\ IsArray(work.accumulator, SumsSize(sh))
    BY <1>4, <1>9 DEF WorkInv, PhaseIs
  <2> QED BY <1>6, <1>11, <2>1, SoftmaxIs
<1>13. work' = [work EXCEPT !.buffer = new]
  BY <1>6, <1>9, <1>12, Zenon DEF ScanSoftmax
<1>14. phase' = "weighted sum"
  BY DEF ScanSoftmax
<1>15. /\ SameFrame(work, work')
       /\ work'.queries = work.queries
       /\ work'.gates = work.gates
       /\ work'.state = work.state
       /\ work'.xs = work.xs
       /\ work'.mixed = work.mixed
       /\ work'.first = work.first
       /\ work'.buffer = new
       /\ work'.accumulator = work.accumulator
  BY <1>3, <1>13 DEF SameFrame, WorkFields
<1>16. /\ work'.count = n /\ work'.position = p /\ ShapeIn(file, work') = sh /\ ChunkIn(file, work') = ch
  <2>1. work'.count = n /\ work'.position = p
    BY <1>1, <1>2, <1>15, Zenon DEF SameFrame
  <2>2. ShapeIn(file, work') = sh
    BY <1>6, <2>1
  <2> QED BY <1>8, <1>15, <2>1, <2>2, Zenon DEF ChunkIn
<1>17. ScanningIn(file, fed, work')
  <2>1. XsIs(file, fed, work') /\ ProjectedIn(file, fed, work')
    BY <1>1, <1>2, <1>10, <1>15, <1>16, Zenon DEF XsIs, ProjectedIn
  <2> QED BY <1>10, <1>15, <1>16, <2>1, Zenon DEF ScanningIn
<1>18. PhaseIs(file, fed, alone, phase', work')
  BY <1>7, <1>12, <1>14, <1>15, <1>16, <1>17 DEF PhaseIs
<1>19. phase' \in WorkPhases
  BY <1>14 DEF WorkPhases
<1> QED BY <1>4, <1>7, <1>15, <1>18, <1>19, SlotsKept, WorkStep

LEMMA ScanWeightedSumKeeps ==
  ASSUME WorkInv, ScanWeightedSum
  PROVE  WorkInv'
<1>1. PICK p : p = work.position
  OBVIOUS
<1>2. PICK n : n = work.count
  OBVIOUS
<1>3. /\ n \in Nat \ {0} /\ p \in Nat /\ GoodFile(file) /\ GoodConfig(file) /\ DOMAIN work = WorkFields
  BY <1>1, <1>2, WorkFacts
<1>4. phase = "weighted sum" /\ UNCHANGED rigid /\ slots' = slots
  BY DEF ScanWeightedSum, Working
<1>5. PICK sh : sh = ShapeOf(file, n, p)
  OBVIOUS
<1>6. /\ Shape = sh /\ (\A w : w.count = n /\ w.position = p => ShapeIn(file, w) = sh)
      /\ IsScan(sh) /\ sh.seq = n
  <2>1. sh.seq = n
    BY <1>5 DEF ShapeOf
  <2> QED BY <1>1, <1>2, <1>3, <1>5, <2>1, ShapeHere, ShapeIs
<1>7. /\ ~Ref(file) /\ KindOf(file) # "linear" /\ ScanningIn(file, fed, work)
  BY <1>4 DEF WorkInv, PhaseIs
<1>8. PICK ch : ch = ChunkAt(sh, work.first)
  OBVIOUS
<1>9. /\ ShapeIn(file, work) = sh /\ ChunkIn(file, work) = ch /\ Chunk = ch
  <2>1. ShapeIn(file, work) = sh
    BY <1>1, <1>2, <1>6
  <2> QED BY <1>6, <1>8, <2>1, Zenon DEF ChunkIn, Chunk
<1>10. /\ work.first \in Indices(n) /\ XsIs(file, fed, work) /\ ProjectedIn(file, fed, work)
       /\ ScannedTo(sh, work.queries, work.gates, work.state.keys, work.state.values, work.mixed, work.first)
  BY <1>2, <1>7, <1>9, Zenon DEF ScanningIn
<1>11. IsChunk(sh, ch) /\ ch.first = work.first
  BY <1>6, <1>8, <1>10, ChunkIs
<1>12. PICK new : /\ new = WeightedSum(sh, ch, work.buffer, work.state.values, work.accumulator)
                  /\ Summarized(sh, ch, work.queries, work.state.keys, work.state.values, new)
                  /\ IsArray(work.buffer, BufferSize(sh))
  <2>1. Weighed(sh, ch, work.queries, work.state.keys, work.buffer) /\ IsArray(work.accumulator, SumsSize(sh))
    BY <1>4, <1>9 DEF WorkInv, PhaseIs
  <2>2. IsArray(work.buffer, BufferSize(sh))
    BY <2>1, Zenon DEF Weighed
  <2> QED BY <1>6, <1>11, <2>1, <2>2, WeightedSumIs
<1>13. work' = [work EXCEPT !.accumulator = new]
  BY <1>6, <1>9, <1>12, Zenon DEF ScanWeightedSum
<1>14. phase' = "gather"
  BY DEF ScanWeightedSum
<1>15. /\ SameFrame(work, work')
       /\ work'.queries = work.queries
       /\ work'.gates = work.gates
       /\ work'.state = work.state
       /\ work'.xs = work.xs
       /\ work'.mixed = work.mixed
       /\ work'.first = work.first
       /\ work'.buffer = work.buffer
       /\ work'.accumulator = new
  BY <1>3, <1>13 DEF SameFrame, WorkFields
<1>16. /\ work'.count = n /\ work'.position = p /\ ShapeIn(file, work') = sh /\ ChunkIn(file, work') = ch
  <2>1. work'.count = n /\ work'.position = p
    BY <1>1, <1>2, <1>15, Zenon DEF SameFrame
  <2>2. ShapeIn(file, work') = sh
    BY <1>6, <2>1
  <2> QED BY <1>8, <1>15, <2>1, <2>2, Zenon DEF ChunkIn
<1>17. ScanningIn(file, fed, work')
  <2>1. XsIs(file, fed, work') /\ ProjectedIn(file, fed, work')
    BY <1>1, <1>2, <1>10, <1>15, <1>16, Zenon DEF XsIs, ProjectedIn
  <2> QED BY <1>10, <1>15, <1>16, <2>1, Zenon DEF ScanningIn
<1>18. PhaseIs(file, fed, alone, phase', work')
  BY <1>7, <1>12, <1>14, <1>15, <1>16, <1>17 DEF PhaseIs
<1>19. phase' \in WorkPhases
  BY <1>14 DEF WorkPhases
<1> QED BY <1>4, <1>7, <1>15, <1>18, <1>19, SlotsKept, WorkStep

LEMMA ScanGatherKeeps ==
  ASSUME WorkInv, ScanGather
  PROVE  WorkInv'
<1>1. PICK p : p = work.position
  OBVIOUS
<1>2. PICK n : n = work.count
  OBVIOUS
<1>3. /\ n \in Nat \ {0} /\ p \in Nat /\ GoodFile(file) /\ GoodConfig(file) /\ DOMAIN work = WorkFields
  BY <1>1, <1>2, WorkFacts
<1>4. phase = "gather" /\ UNCHANGED rigid /\ slots' = slots
  BY DEF ScanGather, Working
<1>5. PICK sh : sh = ShapeOf(file, n, p)
  OBVIOUS
<1>6. /\ Shape = sh /\ (\A w : w.count = n /\ w.position = p => ShapeIn(file, w) = sh)
      /\ IsScan(sh) /\ sh.seq = n
  <2>1. sh.seq = n
    BY <1>5 DEF ShapeOf
  <2> QED BY <1>1, <1>2, <1>3, <1>5, <2>1, ShapeHere, ShapeIs
<1>7. /\ ~Ref(file) /\ KindOf(file) # "linear" /\ ScanningIn(file, fed, work)
  BY <1>4 DEF WorkInv, PhaseIs
<1>8. PICK ch : ch = ChunkAt(sh, work.first)
  OBVIOUS
<1>9. /\ ShapeIn(file, work) = sh /\ ChunkIn(file, work) = ch /\ Chunk = ch
  <2>1. ShapeIn(file, work) = sh
    BY <1>1, <1>2, <1>6
  <2> QED BY <1>6, <1>8, <2>1, Zenon DEF ChunkIn, Chunk
<1>10. /\ work.first \in Indices(n) /\ XsIs(file, fed, work) /\ ProjectedIn(file, fed, work)
       /\ ScannedTo(sh, work.queries, work.gates, work.state.keys, work.state.values, work.mixed, work.first)
  BY <1>2, <1>7, <1>9, Zenon DEF ScanningIn
<1>11. IsChunk(sh, ch) /\ ch.first = work.first
  BY <1>6, <1>8, <1>10, ChunkIs
<1>12. /\ Summarized(sh, ch, work.queries, work.state.keys, work.state.values, work.accumulator)
       /\ IsArray(work.buffer, BufferSize(sh)) /\ IsArray(work.accumulator, SumsSize(sh))
  <2>1. /\ Summarized(sh, ch, work.queries, work.state.keys, work.state.values, work.accumulator)
        /\ IsArray(work.buffer, BufferSize(sh))
    BY <1>4, <1>9 DEF WorkInv, PhaseIs
  <2> QED BY <2>1, Zenon DEF Summarized
<1>13. PICK new : new = Gathered(sh, ch, work.accumulator, work.gates, work.mixed)
  OBVIOUS
<1>14. PICK next : next = work.first + ch.rows
  OBVIOUS
<1>15. work' = [work EXCEPT !.mixed = new, !.first = next]
  BY <1>6, <1>9, <1>13, <1>14, Zenon DEF ScanGather
<1>16. /\ SameFrame(work, work')
       /\ work'.queries = work.queries /\ work'.gates = work.gates /\ work'.state = work.state
       /\ work'.xs = work.xs /\ work'.mixed = new /\ work'.first = next
       /\ work'.buffer = work.buffer /\ work'.accumulator = work.accumulator
  BY <1>3, <1>15 DEF SameFrame, WorkFields
<1>17. ScannedTo(sh, work.queries, work.gates, work.state.keys, work.state.values, new, next)
  <2>1. ScannedTo(sh, work.queries, work.gates, work.state.keys, work.state.values, work.mixed, ch.first)
    BY <1>10, <1>11
  <2>2. ScannedTo(sh, work.queries, work.gates, work.state.keys, work.state.values,
                  Gathered(sh, ch, work.accumulator, work.gates, work.mixed), ch.first + ch.rows)
    BY <1>6, <1>11, <1>12, <2>1, GatheredIs
  <2> QED BY <1>11, <1>13, <1>14, <2>2
<1>18. next \in Nat /\ next <= n
  BY <1>3, <1>6, <1>10, <1>11, <1>14, RowsPerChunkIs DEF IsChunk, Indices
<1>19. /\ work'.count = n /\ work'.position = p /\ ShapeIn(file, work') = sh
  <2>1. work'.count = n /\ work'.position = p
    BY <1>1, <1>2, <1>16, Zenon DEF SameFrame
  <2> QED BY <1>6, <2>1
<1>20. XsIs(file, fed, work') /\ ProjectedIn(file, fed, work')
  BY <1>1, <1>2, <1>10, <1>16, <1>19, Zenon DEF XsIs, ProjectedIn
<1>21. CASE next = n
  <2>1. phase' = "output"
    BY <1>2, <1>9, <1>14, <1>21 DEF ScanGather
  <2>2. IsScanned(sh, work.queries, work.gates, work.state.keys, work.state.values, new)
    <3>1. ScannedTo(sh, work.queries, work.gates, work.state.keys, work.state.values, new, sh.seq)
      BY <1>6, <1>17, <1>21
    <3>2. /\ IsArray(new, (sh.seq * sh.queryHeads) * sh.headDim)
          /\ \A t \in Indices(sh.seq) : \A h \in Indices(sh.queryHeads) : \A c \in Indices(sh.headDim) :
               new[(t * sh.queryHeads + h) * sh.headDim + c]
                 = HeadOutput(sh, work.queries[t][h], work.gates[t][h], work.state.keys, work.state.values,
                              h \div GroupSize(sh), sh.existing + t + 1)[c]
      BY <3>1, Zenon DEF ScannedTo
    <3> QED BY <1>6, <3>2, ScannedByHeads
  <2>3. MixedIn(file, fed, alone, work')
    BY <1>1, <1>2, <1>5, <1>7, <1>10, <1>16, <1>19, <2>2, MixedHere
  <2>4. PhaseIs(file, fed, alone, phase', work')
    BY <1>7, <1>20, <2>1, <2>3, Zenon DEF MixedIn, PhaseIs
  <2>5. phase' \in WorkPhases
    BY <2>1 DEF WorkPhases
  <2> QED BY <1>4, <1>7, <1>16, <2>4, <2>5, SlotsKept, WorkStep
<1>22. CASE next # n
  <2>1. phase' = "scores"
    BY <1>2, <1>9, <1>14, <1>22 DEF ScanGather
  <2>2. next \in Indices(n)
    BY <1>3, <1>18, <1>22 DEF Indices
  <2>3. ScanningIn(file, fed, work')
    BY <1>16, <1>17, <1>19, <1>20, <2>2, Zenon DEF ScanningIn
  <2>4. PhaseIs(file, fed, alone, phase', work')
    BY <1>7, <1>12, <1>16, <1>19, <2>1, <2>3 DEF PhaseIs
  <2>5. phase' \in WorkPhases
    BY <2>1 DEF WorkPhases
  <2> QED BY <1>4, <1>7, <1>16, <2>4, <2>5, SlotsKept, WorkStep
<1> QED BY <1>21, <1>22

\* A slot taken in a pass that is judged is the state before its row.
LEMMA SlotTaken ==
  ASSUME WorkInv, work.lone = FALSE, NEW t \in Nat, t < work.count,
         SlotsAre(file, fed, alone, asked, slots, t), NEW state,
         state = Before(file, alone, work.position + t),
         slots' = IF Storing THEN [slots EXCEPT ![t] = state] ELSE slots
  PROVE  SlotsAre(file, fed, alone, asked, slots', t + 1)
<1>1. SUFFICES ASSUME asked.judged, KindOf(file) = "linear"
               PROVE  /\ DOMAIN slots' = Indices(Len(asked.tokens))
                      /\ \A r \in Indices(t + 1) : slots'[r] = Before(file, alone, BaseOf(fed, asked) + r)
  BY Zenon DEF SlotsAre
<1>2. WorkIs(fed, alone, asked, work)
  BY DEF WorkInv
<1>3. work.position = BaseOf(fed, asked) /\ work.count = Len(asked.tokens) /\ work.count \in Nat
  BY <1>2 DEF WorkIs
<1>4. /\ DOMAIN slots = Indices(Len(asked.tokens))
      /\ \A r \in Indices(t) : slots[r] = Before(file, alone, BaseOf(fed, asked) + r)
  BY <1>1, Zenon DEF SlotsAre
<1>5. slots' = [slots EXCEPT ![t] = state]
  BY <1>1 DEF Storing
<1>6. t \in DOMAIN slots
  BY <1>3, <1>4 DEF Indices
<1>7. \A r \in Indices(t + 1) : r \in DOMAIN slots /\ (r = t \/ r \in Indices(t))
  BY <1>3, <1>4 DEF Indices
<1>8. slots'[t] = Before(file, alone, BaseOf(fed, asked) + t)
  BY <1>3, <1>5, <1>6
<1>9. \A r \in Indices(t) : r \in DOMAIN slots /\ r # t
  BY <1>3, <1>4 DEF Indices
<1>10. \A r \in Indices(t) : slots'[r] = slots[r]
  BY <1>5, <1>9
<1>11. DOMAIN slots' = Indices(Len(asked.tokens))
  BY <1>4, <1>5
<1> QED BY <1>4, <1>7, <1>8, <1>10, <1>11

LEMMA NoRowsYet ==
  ASSUME NEW w \in Nat, NEW y
  PROVE  RowsOf(<< >>, 0, w, y)
<1>1. Indices(0) = {} /\ Indices(0 * w) = {}
  BY DEF Indices
<1>2. IsArray(<< >>, 0 * w)
  BY <1>1 DEF IsArray
<1> QED BY <1>1, <1>2, Zenon DEF RowsOf

LEMMA ProjectDeltaKeeps ==
  ASSUME WorkInv, ProjectDelta
  PROVE  WorkInv'
<1>1. PICK p : p = work.position
  OBVIOUS
<1>2. PICK n : n = work.count
  OBVIOUS
<1>3. /\ n \in Nat \ {0} /\ p \in Nat /\ GoodFile(file) /\ GoodConfig(file) /\ DOMAIN work = WorkFields
      /\ (~Ref(file) => weights = LW(file)) /\ work.lone \in BOOLEAN
  BY <1>1, <1>2, WorkFacts
<1>4. phase = "delta" /\ UNCHANGED rigid /\ phase' = "rows"
  BY DEF ProjectDelta, Working
<1>5. ~Ref(file) /\ KindOf(file) = "linear" /\ Entered(file, fed, work) /\ Fresh(file, alone, work)
  BY <1>4 DEF WorkInv, PhaseIs
<1>6. PICK h : h = Heads(file)
  OBVIOUS
<1>7. PICK products : products = [m \in DOMAIN weights.mixer.qkvz |-> Product(weights.mixer.qkvz[m])]
  OBVIOUS
<1>8. PICK w : w = Width(products[1]) \div n
  OBVIOUS
<1>9. PICK qkv : qkv = [token \in Indices(n) |-> Slice(products[1], token * w, ConvDim(h))]
  OBVIOUS
<1>10. PICK gates : gates = [i \in Indices(n * ValueDim(h)) |->
             IF Len(products) = 1
             THEN products[1][(i \div ValueDim(h)) * w + ConvDim(h) + (i % ValueDim(h))]
             ELSE products[2][(i \div ValueDim(h)) * ValueDim(h) + (i % ValueDim(h))]]
  OBVIOUS
<1>11. PICK betaAlpha : betaAlpha = [token \in Indices(n) |->
             Slice(Product(weights.mixer.betaAlpha), token * 2 * h.value, 2 * h.value)]
  OBVIOUS
<1>12. work' = [work EXCEPT !.qkv = qkv, !.gates = gates, !.betaAlpha = betaAlpha]
  <2>1. work' = [work EXCEPT
                   !.qkv = [token \in Indices(n) |-> Slice(products[1], token * w, ConvDim(h))],
                   !.gates = [i \in Indices(n * ValueDim(h)) |->
             IF Len(products) = 1
             THEN products[1][(i \div ValueDim(h)) * w + ConvDim(h) + (i % ValueDim(h))]
             ELSE products[2][(i \div ValueDim(h)) * ValueDim(h) + (i % ValueDim(h))]],
                   !.betaAlpha = [token \in Indices(n) |->
             Slice(Product(weights.mixer.betaAlpha), token * 2 * h.value, 2 * h.value)]]
    BY <1>2, <1>6, <1>7, <1>8 DEF ProjectDelta
  <2> QED BY <1>9, <1>10, <1>11, <2>1, Zenon
<1>13. /\ SameFrame(work, work') /\ work'.qkv = qkv /\ work'.gates = gates /\ work'.betaAlpha = betaAlpha
       /\ work'.xs = work.xs /\ work'.state = work.state /\ work'.mixed = work.mixed
       /\ work'.token = work.token
  BY <1>3, <1>12 DEF SameFrame, WorkFields
<1>14. work'.count = n /\ work'.position = p /\ work'.tokens = work.tokens /\ work'.lone = work.lone
  BY <1>1, <1>2, <1>13, Zenon DEF SameFrame
<1>15. DeltaProjectedTo(file, work.tokens, n, qkv, gates, betaAlpha)
  <2>1. RowsOf(work.normed, n, Hid(file), InRows(file, work.tokens, n))
    BY <1>2, <1>5, Zenon DEF Entered
  <2>2. n \in Nat \ {0} /\ n = work.count /\ GoodFile(file) /\ ~Ref(file) /\ weights = LW(file)
        /\ KindOf(file) = "linear"
    BY <1>2, <1>3, <1>5
  <2>3. DeltaParts(n, h, products, w, qkv, gates, betaAlpha)
    BY <1>6, <1>7, <1>8, <1>9, <1>10, <1>11, Zenon DEF DeltaParts
  <2> QED BY ONLY <2>1, <2>2, <2>3, DeltaProjectedIs
<1>16. XsIs(file, fed, work')
  <2>1. XsIs(file, fed, work)
    BY <1>5, Zenon DEF Entered
  <2> QED BY <1>1, <1>2, <1>13, <1>14, <2>1, Zenon DEF XsIs
<1>17. work.token = 0 /\ work.mixed = Nothing /\ work.state = Before(file, alone, p)
  BY <1>1, <1>5, Zenon DEF Fresh
<1>18. 0 \in Indices(n) /\ p + 0 = p
  BY <1>3 DEF Indices
<1>19. SteppedTo(file, fed, alone, work', 0)
  BY <1>3, <1>13, <1>17, NoRowsYet, HeadNumbers DEF SteppedTo, Nothing
<1>20. PhaseIs(file, fed, alone, phase', work')
  BY <1>4, <1>5, <1>13, <1>14, <1>15, <1>16, <1>17, <1>18, <1>19 DEF PhaseIs
<1>21. phase' \in WorkPhases /\ SlotsTaken(phase', work') = IF work.lone THEN 0 ELSE 1
  BY <1>4, <1>13, <1>14, <1>17 DEF WorkPhases, SlotsTaken
<1>22. SlotsAre(file, fed, alone, asked, slots, 0)
  BY <1>4 DEF WorkInv, SlotsTaken
<1>23. slots' = IF Storing THEN [slots EXCEPT ![0] = work.state] ELSE slots
  BY Zenon DEF ProjectDelta
<1>24. SlotsAre(file, fed, alone, asked, slots', SlotsTaken(phase', work'))
  <2>1. CASE work.lone
    <3>1. slots' = slots
      BY <1>23, <2>1 DEF Storing
    <3> QED BY <1>21, <1>22, <2>1, <3>1
  <2>2. CASE ~work.lone
    <3>1. SlotsAre(file, fed, alone, asked, slots', 0 + 1)
      <4>1. work.lone = FALSE /\ 0 \in Nat /\ 0 < work.count
        BY <1>2, <1>3, <2>2
      <4>2. work.state = Before(file, alone, work.position + 0)
        BY <1>1, <1>17, <1>18
      <4> QED BY ONLY WorkInv, <1>22, <1>23, <4>1, <4>2, SlotTaken
    <3> QED BY <1>21, <2>2, <3>1
  <2> QED BY <2>1, <2>2
<1> QED BY <1>4, <1>13, <1>20, <1>21, <1>24, WorkStep

LEMMA ReferenceDeltaKeeps ==
  ASSUME WorkInv, ReferenceDelta
  PROVE  WorkInv'
<1>1. PICK p : p = work.position
  OBVIOUS
<1>2. PICK n : n = work.count
  OBVIOUS
<1>3. /\ n \in Nat \ {0} /\ p \in Nat /\ GoodFile(file) /\ GoodConfig(file) /\ DOMAIN work = WorkFields
  BY <1>1, <1>2, WorkFacts
<1>4. phase = "reference delta" /\ UNCHANGED rigid /\ phase' = "reference rows"
  BY DEF ReferenceDelta, Working
<1>5. Ref(file) /\ KindOf(file) = "linear" /\ Entered(file, fed, work) /\ Fresh(file, alone, work)
  BY <1>4 DEF WorkInv, PhaseIs
<1>6. PICK h : h = Heads(file)
  OBVIOUS
<1>7. PICK qkvz : qkvz = DenseProduct("in_proj_qkvz")
  OBVIOUS
<1>8. PICK w : w = h.key * ProjectedWidth(h)
  OBVIOUS
<1>9. PICK qkv : qkv = [token \in Indices(n) |-> ConvInput(h, Slice(qkvz, token * w, w))]
  OBVIOUS
<1>10. PICK gates : gates = [i \in Indices(n * ValueDim(h)) |->
             ValueGates(h, Slice(qkvz, (i \div ValueDim(h)) * w, w))[i % ValueDim(h)]]
  OBVIOUS
<1>11. PICK betaAlpha : betaAlpha = [token \in Indices(n) |->
             Slice(DenseProduct("in_proj_ba"), token * 2 * h.value, 2 * h.value)]
  OBVIOUS
<1>12. work' = [work EXCEPT !.qkv = qkv, !.gates = gates, !.betaAlpha = betaAlpha]
  BY <1>2, <1>6, <1>7, <1>8, <1>9, <1>10, <1>11, Zenon DEF ReferenceDelta
<1>13. /\ SameFrame(work, work') /\ work'.qkv = qkv /\ work'.gates = gates /\ work'.betaAlpha = betaAlpha
       /\ work'.xs = work.xs /\ work'.state = work.state /\ work'.mixed = work.mixed
       /\ work'.token = work.token
  BY <1>3, <1>12 DEF SameFrame, WorkFields
<1>14. work'.count = n /\ work'.position = p /\ work'.tokens = work.tokens
  BY <1>1, <1>2, <1>13, Zenon DEF SameFrame
<1>15. DeltaProjectedTo(file, work.tokens, n, qkv, gates, betaAlpha)
  <2>1. RowsOf(work.normed, n, Hid(file), InRows(file, work.tokens, n))
    BY <1>2, <1>5, Zenon DEF Entered
  <2> QED BY <1>2, <1>3, <1>5, <1>6, <1>7, <1>8, <1>9, <1>10, <1>11, <2>1, ReferenceDeltaIs
<1>16. XsIs(file, fed, work')
  <2>1. XsIs(file, fed, work)
    BY <1>5, Zenon DEF Entered
  <2> QED BY <1>1, <1>2, <1>13, <1>14, <2>1, Zenon DEF XsIs
<1>17. work.token = 0 /\ work.mixed = Nothing /\ work.state = Before(file, alone, p)
  BY <1>1, <1>5, Zenon DEF Fresh
<1>18. 0 \in Indices(n) /\ p + 0 = p
  BY <1>3 DEF Indices
<1>19. SteppedTo(file, fed, alone, work', 0)
  BY <1>3, <1>13, <1>17, NoRowsYet, HeadNumbers DEF SteppedTo, Nothing
<1>20. PhaseIs(file, fed, alone, phase', work')
  BY <1>4, <1>5, <1>13, <1>14, <1>15, <1>16, <1>17, <1>18, <1>19 DEF PhaseIs
<1>21. phase' \in WorkPhases
  BY <1>4 DEF WorkPhases
<1>22. SlotsAre(file, fed, alone, asked, slots', SlotsTaken(phase', work'))
  BY <1>5, NeverJudged
<1> QED BY <1>4, <1>13, <1>20, <1>21, <1>22, WorkStep

\* A row consumed.
RowConsumed(p, n, t, step) ==
  LET after == [conv |-> step.conv, recurrent |-> step.recurrent] IN
  /\ RowsOf(Concatenated(work.mixed, step.output), t + 1, ValueDim(Heads(file)),
            PassStep(file, fed, alone, p, t + 1))
  /\ after = After(file, fed, alone, p + (t + 1))
  /\ t + 1 # n => t + 1 \in Indices(n) /\ after = Before(file, alone, p + (t + 1))

LEMMA RowIsConsumed ==
  ASSUME WorkInv, NEW p, p = work.position, NEW n, n = work.count, KindOf(file) = "linear",
         NEW t \in Indices(n), SteppedTo(file, fed, alone, work, t),
         NEW qkv, qkv = QkvRows(file, work.tokens, n),
         NEW betaAlpha, betaAlpha = BetaAlphaRows(file, work.tokens, n), NEW step,
         step = DeltaRow(Heads(file), qkv[t], betaAlpha[t], DeltaVectors(file), Before(file, alone, p + t))
  PROVE  RowConsumed(p, n, t, step)
<1>1. /\ n \in Nat \ {0} /\ p \in Nat /\ GoodConfig(file) /\ TokensFrom(work.tokens, fed, p, n)
      /\ \A r \in Indices(n) : r \in Nat /\ p + r \in 0..Len(alone)
      /\ AloneIs(file, fed, alone)
  BY WorkFacts
<1>2. PICK mixed : mixed = work.mixed
  OBVIOUS
<1>3. RowsOf(mixed, t, ValueDim(Heads(file)), PassStep(file, fed, alone, p, t))
  BY <1>2, Zenon DEF SteppedTo
<1>4. /\ RowsOf(Concatenated(mixed, step.output), t + 1, ValueDim(Heads(file)),
                PassStep(file, fed, alone, p, t + 1))
      /\ [conv |-> step.conv, recurrent |-> step.recurrent]
           = StateAfter(file, fed, p + t, Before(file, alone, p + t))
  <2>1. n \in Nat
    BY <1>1
  <2> QED BY <1>1, <1>3, <2>1, ConsumedIs
<1>5. StateAfter(file, fed, p + t, Before(file, alone, p + t)) = After(file, fed, alone, p + (t + 1))
  <2>1. p + (t + 1) # 0 /\ (p + (t + 1)) - 1 = p + t
    BY <1>1
  <2> QED BY <2>1, Zenon DEF After
<1>6. ASSUME t + 1 # n
      PROVE  t + 1 \in Indices(n) /\ After(file, fed, alone, p + (t + 1)) = Before(file, alone, p + (t + 1))
  <2>1. t + 1 \in Indices(n)
    BY <1>1, <1>6 DEF Indices
  <2>2. p + (t + 1) \in 0..Len(alone)
    BY <1>1, <2>1
  <2> QED BY <1>1, <2>1, <2>2, AfterIsBefore
<1> QED BY <1>2, <1>4, <1>5, <1>6, Zenon DEF RowConsumed

LEMMA ConsumeRowKeeps ==
  ASSUME WorkInv, ConsumeRow
  PROVE  WorkInv'
<1>1. PICK p : p = work.position
  OBVIOUS
<1>2. PICK n : n = work.count
  OBVIOUS
<1>3. /\ n \in Nat \ {0} /\ p \in Nat /\ GoodFile(file) /\ GoodConfig(file) /\ DOMAIN work = WorkFields
      /\ work.lone \in BOOLEAN
  BY <1>1, <1>2, WorkFacts
<1>4. phase = "rows" /\ UNCHANGED rigid
  BY DEF ConsumeRow, Working
<1>5. PICK t : t = work.token
  OBVIOUS
<1>6. /\ ~Ref(file) /\ KindOf(file) = "linear" /\ XsIs(file, fed, work) /\ t \in Indices(n)
      /\ DeltaProjectedTo(file, work.tokens, n, work.qkv, work.gates, work.betaAlpha)
      /\ work.state = Before(file, alone, p + t) /\ SteppedTo(file, fed, alone, work, t)
  BY <1>1, <1>2, <1>4, <1>5 DEF WorkInv, PhaseIs
<1>7. PICK step : step = DeltaRow(Heads(file), work.qkv[t], work.betaAlpha[t], DeltaVectors(file), work.state)
  OBVIOUS
<1>8. PICK after : after = [conv |-> step.conv, recurrent |-> step.recurrent]
  OBVIOUS
<1>9. PICK new : new = Concatenated(work.mixed, step.output)
  OBVIOUS
<1>10. PICK next : next = t + 1
  OBVIOUS
<1>11. DeltaVectors(file) = [conv |-> file.vectors["ssm_conv1d"], scales |-> file.vectors["ssm_a"],
                           bias |-> file.vectors["ssm_dt"]]
  BY <1>6, Zenon DEF DeltaVectors
<1>12. work' = [work EXCEPT !.state = after, !.mixed = new, !.token = next]
  BY <1>5, <1>7, <1>8, <1>9, <1>10, <1>11, Zenon DEF ConsumeRow
<1>13. /\ SameFrame(work, work') /\ work'.state = after /\ work'.mixed = new /\ work'.token = next
       /\ work'.xs = work.xs /\ work'.qkv = work.qkv /\ work'.gates = work.gates
       /\ work'.betaAlpha = work.betaAlpha
  BY <1>3, <1>12 DEF SameFrame, WorkFields
<1>14. work'.count = n /\ work'.position = p /\ work'.tokens = work.tokens /\ work'.lone = work.lone
  BY <1>1, <1>2, <1>13, Zenon DEF SameFrame
<1>15. RowConsumed(p, n, t, step)
  <2>1. PICK qkv : qkv = work.qkv
    OBVIOUS
  <2>2. PICK betaAlpha : betaAlpha = work.betaAlpha
    OBVIOUS
  <2>3. qkv = QkvRows(file, work.tokens, n) /\ betaAlpha = BetaAlphaRows(file, work.tokens, n)
    BY <1>6, <2>1, <2>2, Zenon DEF DeltaProjectedTo
  <2>4. step = DeltaRow(Heads(file), qkv[t], betaAlpha[t], DeltaVectors(file), Before(file, alone, p + t))
    BY <1>6, <1>7, <2>1, <2>2
  <2> QED BY <1>1, <1>2, <1>6, <2>3, <2>4, RowIsConsumed
<1>16. /\ RowsOf(new, next, ValueDim(Heads(file)), PassStep(file, fed, alone, p, next))
       /\ after = After(file, fed, alone, p + next)
       /\ next # n => next \in Indices(n) /\ after = Before(file, alone, p + next)
  BY <1>8, <1>9, <1>10, <1>15, Zenon DEF RowConsumed
<1>17. XsIs(file, fed, work')
  BY <1>1, <1>2, <1>6, <1>13, <1>14, Zenon DEF XsIs
<1>18. SteppedTo(file, fed, alone, work', next)
  BY <1>13, <1>14, <1>16, Zenon DEF SteppedTo
<1>19. CASE next = n
  <2>1. phase' = "gated norm"
    BY <1>2, <1>5, <1>10, <1>19 DEF ConsumeRow
  <2>2. Ended(file, fed, alone, work')
    BY <1>13, <1>14, <1>16, <1>19, Zenon DEF Ended
  <2>3. RowsOf(work'.gates, n, ValueDim(Heads(file)), GateRows(file, work'.tokens, n))
    BY <1>6, <1>13, <1>14, Zenon DEF DeltaProjectedTo
  <2>4. PhaseIs(file, fed, alone, phase', work')
    BY <1>6, <1>14, <1>17, <1>18, <1>19, <2>1, <2>2, <2>3 DEF PhaseIs
  <2>5. phase' \in WorkPhases
    BY <2>1 DEF WorkPhases
  <2>6. slots' = slots
    <3>1. ~(work.token + 1 < work.count)
      BY <1>2, <1>3, <1>5, <1>10, <1>19
    <3> QED BY <3>1, Zenon DEF ConsumeRow
  <2>7. SlotsTaken(phase', work') = SlotsTaken(phase, work)
    BY <1>4, <1>5, <1>10, <1>14, <1>19, <2>1 DEF SlotsTaken, WorkPhases
  <2>8. SlotsAre(file, fed, alone, asked, slots', SlotsTaken(phase', work'))
    BY <1>13, <2>6, <2>7, SlotsKept
  <2> QED BY <1>4, <1>13, <2>4, <2>5, <2>8, WorkStep
<1>20. CASE next # n
  <2>1. phase' = "rows"
    BY <1>2, <1>5, <1>10, <1>20 DEF ConsumeRow
  <2>2. PhaseIs(file, fed, alone, phase', work')
    BY <1>6, <1>13, <1>14, <1>16, <1>17, <1>18, <1>20, <2>1 DEF PhaseIs
  <2>3. phase' \in WorkPhases
    BY <2>1 DEF WorkPhases
  <2>4. SlotsAre(file, fed, alone, asked, slots', SlotsTaken(phase', work'))
    <3>1. next \in Nat /\ next < n
      BY <1>3, <1>6, <1>10, <1>16, <1>20 DEF Indices
    <3>2. slots' = IF Storing THEN [slots EXCEPT ![next] = after] ELSE slots
      <4>1. work.token + 1 < work.count
        BY <1>2, <1>5, <1>10, <3>1
      <4>2. after = [conv |-> step.conv, recurrent |-> step.recurrent] /\ work.token + 1 = next
        BY <1>5, <1>8, <1>10
      <4>3. slots' = IF Storing /\ work.token + 1 < work.count
                     THEN [slots EXCEPT ![work.token + 1] = after] ELSE slots
        BY <1>5, <1>7, <1>8, <1>11, Zenon DEF ConsumeRow
      <4> QED BY <4>1, <4>2, <4>3
    <3>3. SlotsAre(file, fed, alone, asked, slots, IF work.lone THEN 0 ELSE next)
      BY <1>4, <1>5, <1>10 DEF WorkInv, SlotsTaken
    <3>4. SlotsTaken(phase', work') = IF work.lone THEN 0 ELSE next + 1
      BY <1>13, <1>14, <2>1 DEF SlotsTaken
    <3>5. CASE work.lone
      <4>1. slots' = slots
        BY <3>2, <3>5 DEF Storing
      <4> QED BY <3>3, <3>4, <3>5, <4>1
    <3>6. CASE ~work.lone
      <4>1. work.lone = FALSE /\ next < work.count /\ SlotsAre(file, fed, alone, asked, slots, next)
        BY <1>2, <1>3, <3>1, <3>3, <3>6
      <4>2. after = Before(file, alone, work.position + next)
        BY <1>1, <1>16, <1>20
      <4>3. SlotsAre(file, fed, alone, asked, slots', next + 1)
        BY ONLY WorkInv, <3>1, <3>2, <4>1, <4>2, SlotTaken
      <4> QED BY <3>4, <3>6, <4>3
    <3> QED BY <3>5, <3>6
  <2> QED BY <1>4, <1>13, <2>2, <2>3, <2>4, WorkStep
<1> QED BY <1>19, <1>20

LEMMA ReferenceRowKeeps ==
  ASSUME WorkInv, ReferenceRow
  PROVE  WorkInv'
<1>1. PICK p : p = work.position
  OBVIOUS
<1>2. PICK n : n = work.count
  OBVIOUS
<1>3. /\ n \in Nat \ {0} /\ p \in Nat /\ GoodFile(file) /\ GoodConfig(file) /\ DOMAIN work = WorkFields
      /\ work.lone \in BOOLEAN
  BY <1>1, <1>2, WorkFacts
<1>4. phase = "reference rows" /\ UNCHANGED rigid
  BY DEF ReferenceRow, Working
<1>5. PICK t : t = work.token
  OBVIOUS
<1>6. /\ Ref(file) /\ KindOf(file) = "linear" /\ XsIs(file, fed, work) /\ t \in Indices(n)
      /\ DeltaProjectedTo(file, work.tokens, n, work.qkv, work.gates, work.betaAlpha)
      /\ work.state = Before(file, alone, p + t) /\ SteppedTo(file, fed, alone, work, t)
  BY <1>1, <1>2, <1>4, <1>5 DEF WorkInv, PhaseIs
<1>7. PICK step : step = DeltaRow(Heads(file), work.qkv[t], work.betaAlpha[t], DeltaVectors(file), work.state)
  OBVIOUS
<1>8. PICK after : after = [conv |-> step.conv, recurrent |-> step.recurrent]
  OBVIOUS
<1>9. PICK new : new = Concatenated(work.mixed, step.output)
  OBVIOUS
<1>10. PICK next : next = t + 1
  OBVIOUS
<1>11. DeltaVectors(file) = [conv |-> file.vectors["conv1d"], scales |-> DecayScales(file.vectors["A_log"]),
                           bias |-> file.vectors["dt_bias"]]
  BY <1>6, Zenon DEF DeltaVectors
<1>12. work' = [work EXCEPT !.state = after, !.mixed = new, !.token = next]
  BY <1>5, <1>7, <1>8, <1>9, <1>10, <1>11, Zenon DEF ReferenceRow
<1>13. /\ SameFrame(work, work') /\ work'.state = after /\ work'.mixed = new /\ work'.token = next
       /\ work'.xs = work.xs /\ work'.qkv = work.qkv /\ work'.gates = work.gates
       /\ work'.betaAlpha = work.betaAlpha
  BY <1>3, <1>12 DEF SameFrame, WorkFields
<1>14. work'.count = n /\ work'.position = p /\ work'.tokens = work.tokens /\ work'.lone = work.lone
  BY <1>1, <1>2, <1>13, Zenon DEF SameFrame
<1>15. RowConsumed(p, n, t, step)
  <2>1. PICK qkv : qkv = work.qkv
    OBVIOUS
  <2>2. PICK betaAlpha : betaAlpha = work.betaAlpha
    OBVIOUS
  <2>3. qkv = QkvRows(file, work.tokens, n) /\ betaAlpha = BetaAlphaRows(file, work.tokens, n)
    BY <1>6, <2>1, <2>2, Zenon DEF DeltaProjectedTo
  <2>4. step = DeltaRow(Heads(file), qkv[t], betaAlpha[t], DeltaVectors(file), Before(file, alone, p + t))
    BY <1>6, <1>7, <2>1, <2>2
  <2> QED BY <1>1, <1>2, <1>6, <2>3, <2>4, RowIsConsumed
<1>16. /\ RowsOf(new, next, ValueDim(Heads(file)), PassStep(file, fed, alone, p, next))
       /\ after = After(file, fed, alone, p + next)
       /\ next # n => next \in Indices(n) /\ after = Before(file, alone, p + next)
  BY <1>8, <1>9, <1>10, <1>15, Zenon DEF RowConsumed
<1>17. XsIs(file, fed, work')
  BY <1>1, <1>2, <1>6, <1>13, <1>14, Zenon DEF XsIs
<1>18. SteppedTo(file, fed, alone, work', next)
  BY <1>13, <1>14, <1>16, Zenon DEF SteppedTo
<1>19. CASE next = n
  <2>1. phase' = "reference gated norm"
    BY <1>2, <1>5, <1>10, <1>19 DEF ReferenceRow
  <2>2. Ended(file, fed, alone, work')
    BY <1>13, <1>14, <1>16, <1>19, Zenon DEF Ended
  <2>3. RowsOf(work'.gates, n, ValueDim(Heads(file)), GateRows(file, work'.tokens, n))
    BY <1>6, <1>13, <1>14, Zenon DEF DeltaProjectedTo
  <2>4. PhaseIs(file, fed, alone, phase', work')
    BY <1>6, <1>14, <1>17, <1>18, <1>19, <2>1, <2>2, <2>3 DEF PhaseIs
  <2>5. phase' \in WorkPhases
    BY <2>1 DEF WorkPhases
  <2>6. SlotsAre(file, fed, alone, asked, slots', SlotsTaken(phase', work'))
    BY <1>6, NeverJudged
  <2> QED BY <1>4, <1>13, <2>4, <2>5, <2>6, WorkStep
<1>20. CASE next # n
  <2>1. phase' = "reference rows"
    BY <1>2, <1>5, <1>10, <1>20 DEF ReferenceRow
  <2>2. PhaseIs(file, fed, alone, phase', work')
    BY <1>6, <1>13, <1>14, <1>16, <1>17, <1>18, <1>20, <2>1 DEF PhaseIs
  <2>3. phase' \in WorkPhases
    BY <2>1 DEF WorkPhases
  <2>4. SlotsAre(file, fed, alone, asked, slots', SlotsTaken(phase', work'))
    BY <1>6, NeverJudged
  <2> QED BY <1>4, <1>13, <2>2, <2>3, <2>4, WorkStep
<1> QED BY <1>19, <1>20

LEMMA NormDeltaKeeps ==
  ASSUME WorkInv, NormDelta
  PROVE  WorkInv'
<1>1. PICK p : p = work.position
  OBVIOUS
<1>2. PICK n : n = work.count
  OBVIOUS
<1>3. /\ n \in Nat \ {0} /\ p \in Nat /\ GoodFile(file) /\ GoodConfig(file) /\ DOMAIN work = WorkFields
      /\ TokensFrom(work.tokens, fed, p, n)
  BY <1>1, <1>2, WorkFacts
<1>4. phase = "gated norm" /\ UNCHANGED rigid /\ slots' = slots /\ phase' = "output"
  BY DEF NormDelta, Working
<1>5. /\ ~Ref(file) /\ KindOf(file) = "linear" /\ XsIs(file, fed, work) /\ Ended(file, fed, alone, work)
      /\ RowsOf(work.gates, n, ValueDim(Heads(file)), GateRows(file, work.tokens, n))
      /\ SteppedTo(file, fed, alone, work, n)
  BY <1>2, <1>4 DEF WorkInv, PhaseIs
<1>6. PICK new : new = GatedNorm(Heads(file), work.mixed, work.gates, file.vectors["ssm_norm"])
  OBVIOUS
<1>7. work' = [work EXCEPT !.mixed = new]
  BY <1>6, Zenon DEF NormDelta
<1>8. SameFrame(work, work') /\ work'.mixed = new /\ work'.xs = work.xs /\ work'.state = work.state
  BY <1>3, <1>7 DEF SameFrame, WorkFields
<1>9. work'.count = n /\ work'.position = p
  BY <1>1, <1>2, <1>8, Zenon DEF SameFrame
<1>10. RowsOf(new, n, MixWidth(file), PassMix(file, fed, alone, p, n))
  <2>1. RowsOf(work.mixed, n, ValueDim(Heads(file)), PassStep(file, fed, alone, p, n))
    BY <1>1, <1>5, Zenon DEF SteppedTo
  <2>2. n \in Nat
    BY <1>3
  <2> QED BY <1>3, <1>5, <1>6, <2>1, <2>2, DeltaMixedAre
<1>11. XsIs(file, fed, work') /\ Ended(file, fed, alone, work')
  BY <1>1, <1>2, <1>5, <1>8, <1>9, Zenon DEF XsIs, Ended
<1>12. PhaseIs(file, fed, alone, phase', work')
  BY <1>4, <1>5, <1>8, <1>9, <1>10, <1>11 DEF PhaseIs
<1>13. phase' \in WorkPhases /\ SlotsTaken(phase', work') = SlotsTaken(phase, work)
  BY <1>4, <1>8 DEF WorkPhases, SlotsTaken, SameFrame
<1> QED BY <1>4, <1>8, <1>12, <1>13, SlotsKept, WorkStep

LEMMA ReferenceGatedNormKeeps ==
  ASSUME WorkInv, ReferenceGatedNorm
  PROVE  WorkInv'
<1>1. PICK p : p = work.position
  OBVIOUS
<1>2. PICK n : n = work.count
  OBVIOUS
<1>3. /\ n \in Nat \ {0} /\ p \in Nat /\ GoodFile(file) /\ GoodConfig(file) /\ DOMAIN work = WorkFields
      /\ TokensFrom(work.tokens, fed, p, n)
  BY <1>1, <1>2, WorkFacts
<1>4. phase = "reference gated norm" /\ UNCHANGED rigid /\ slots' = slots /\ phase' = "reference output"
  BY DEF ReferenceGatedNorm, Working
<1>5. /\ Ref(file) /\ KindOf(file) = "linear" /\ XsIs(file, fed, work) /\ Ended(file, fed, alone, work)
      /\ RowsOf(work.gates, n, ValueDim(Heads(file)), GateRows(file, work.tokens, n))
      /\ SteppedTo(file, fed, alone, work, n)
  BY <1>2, <1>4 DEF WorkInv, PhaseIs
<1>6. PICK new : new = RoundedAll(Typed(file), GatedNorm(Heads(file), RoundedAll(Typed(file), work.mixed),
                                             work.gates, file.vectors["linear_norm"]))
  OBVIOUS
<1>7. work' = [work EXCEPT !.mixed = new]
  BY <1>6, Zenon DEF ReferenceGatedNorm, HiddenType, TensorOf, Typed
<1>8. SameFrame(work, work') /\ work'.mixed = new /\ work'.xs = work.xs /\ work'.state = work.state
  BY <1>3, <1>7 DEF SameFrame, WorkFields
<1>9. work'.count = n /\ work'.position = p
  BY <1>1, <1>2, <1>8, Zenon DEF SameFrame
<1>10. RowsOf(new, n, MixWidth(file), PassMix(file, fed, alone, p, n))
  <2>1. RowsOf(work.mixed, n, ValueDim(Heads(file)), PassStep(file, fed, alone, p, n))
    BY <1>1, <1>5, Zenon DEF SteppedTo
  <2>2. n \in Nat
    BY <1>3
  <2> QED BY <1>3, <1>5, <1>6, <2>1, <2>2, ReferenceDeltaMixedAre
<1>11. XsIs(file, fed, work') /\ Ended(file, fed, alone, work')
  BY <1>1, <1>2, <1>5, <1>8, <1>9, Zenon DEF XsIs, Ended
<1>12. PhaseIs(file, fed, alone, phase', work')
  BY <1>4, <1>5, <1>8, <1>9, <1>10, <1>11 DEF PhaseIs
<1>13. phase' \in WorkPhases /\ SlotsTaken(phase', work') = SlotsTaken(phase, work)
  BY <1>4, <1>8 DEF WorkPhases, SlotsTaken, SameFrame
<1> QED BY <1>4, <1>8, <1>12, <1>13, SlotsKept, WorkStep

-----------------------------------------------------------------------------
(***************************************************************************)
(* The beginning and the end of a pass.                                    *)
(***************************************************************************)
LEMMA TakeUpKeeps ==
  ASSUME TakenInv, TakeUp
  PROVE  WorkInv'
<1>1. /\ Loaded /\ Asking /\ SlotsAre(file, fed, alone, asked, slots, 0) /\ AskedIs(file, fed, alone, asked)
      /\ rows = Before(file, alone, BaseOf(fed, asked))
  BY DEF TakenInv, Asking
<1>2. /\ file' = file /\ weights' = weights /\ fed' = fed /\ rows' = rows /\ asked' = asked
      /\ alone' = alone /\ slots' = slots /\ phase' = "entering"
  BY DEF TakeUp, Working, rigid
<1>3. fed \in Seq(Nat) /\ AloneIs(file, fed, alone)
  BY <1>1 DEF Loaded
<1>4. IsSeq(alone) /\ Len(alone) \in Nat /\ Len(alone) <= Len(fed) /\ Len(fed) \in Nat
  BY <1>3 DEF AloneIs, IsSeq
<1>5. StateAlone = Before(file, alone, Len(alone))
  <2>1. CASE alone = << >>
    <3>1. Len(alone) = 0
      BY <2>1
    <3> QED BY <2>1, <3>1, Zenon DEF StateAlone, Before
  <2>2. CASE alone # << >>
    <3>1. Len(alone) # 0
      BY <1>4, <2>2 DEF IsSeq
    <3> QED BY <2>2, <3>1, Zenon DEF StateAlone, Before, Last
  <2> QED BY <2>1, <2>2
<1>6. WorkIs(fed, alone, asked, work') /\ Fresh(file, alone, work')
  <2>1. CASE Len(alone) < Len(fed)
    <3>1. work' = NewWork(TRUE, <<fed[Len(alone) + 1]>>, Len(alone), StateAlone)
      BY <2>1 DEF TakeUp
    <3>2. /\ DOMAIN work' = WorkFields /\ work'.lone = TRUE /\ work'.tokens = <<fed[Len(alone) + 1]>>
          /\ work'.count = Len(<<fed[Len(alone) + 1]>>) /\ work'.position = Len(alone)
          /\ work'.state = StateAlone /\ work'.mixed = Nothing /\ work'.token = 0 /\ work'.first = 0
      BY <3>1 DEF NewWork, WorkFields
    <3>3. work'.count = 1
      BY <3>2
    <3>4. TokensFrom(<<fed[Len(alone) + 1]>>, fed, Len(alone), 1)
      <4>1. \A r \in Indices(1) : r = 0
        BY DEF Indices
      <4>2. Len(alone) + 0 + 1 = Len(alone) + 1 /\ 0 + 1 = 1
        BY <1>4
      <4>3. <<fed[Len(alone) + 1]>>[1] = fed[Len(alone) + 1]
        OBVIOUS
      <4> QED BY <4>1, <4>2, <4>3 DEF TokensFrom
    <3>5. WorkIs(fed, alone, asked, work')
      <4>1. TokensFrom(work'.tokens, fed, work'.position, work'.count)
        BY <3>2, <3>3, <3>4, Zenon
      <4>2. work'.lone \in BOOLEAN /\ (~work'.lone => FALSE)
        BY <3>2, Zenon
      <4>3. 1 \in Nat \ {0}
        OBVIOUS
      <4> QED BY <1>4, <2>1, <3>2, <3>3, <4>1, <4>2, <4>3, Zenon DEF WorkIs
    <3> QED BY <1>5, <3>2, <3>5, Zenon DEF Fresh
  <2>2. CASE ~(Len(alone) < Len(fed))
    <3>1. work' = NewWork(FALSE, asked.tokens, Len(fed) - Len(asked.tokens), rows)
      BY <2>2 DEF TakeUp
    <3>2. /\ DOMAIN work' = WorkFields /\ work'.lone = FALSE /\ work'.tokens = asked.tokens
          /\ work'.count = Len(asked.tokens) /\ work'.position = Len(fed) - Len(asked.tokens)
          /\ work'.state = rows /\ work'.mixed = Nothing /\ work'.token = 0 /\ work'.first = 0
      BY <3>1 DEF NewWork, WorkFields
    <3>3. /\ Len(asked.tokens) \in Nat \ {0} /\ Len(fed) - Len(asked.tokens) \in Nat
          /\ TokensFrom(asked.tokens, fed, Len(fed) - Len(asked.tokens), Len(asked.tokens))
      BY <1>1, <1>4 DEF AskedIs, BaseOf
    <3>4. Len(alone) = Len(fed)
      BY <1>4, <2>2
    <3>5. WorkIs(fed, alone, asked, work')
      BY <3>2, <3>3, <3>4 DEF WorkIs, BaseOf
    <3> QED BY <1>1, <3>2, <3>5, Zenon DEF Fresh, BaseOf
  <2> QED BY <2>1, <2>2
<1>7. PhaseIs(file, fed, alone, phase', work')
  BY <1>2, <1>6 DEF PhaseIs
<1>8. phase' \in WorkPhases /\ SlotsTaken(phase', work') = 0
  BY <1>2 DEF WorkPhases, SlotsTaken
<1>9. Loaded' /\ Asking'
  BY <1>1, <1>2, Zenon DEF Loaded, Asking
<1> QED BY <1>1, <1>2, <1>6, <1>7, <1>8, <1>9, Zenon DEF WorkInv

\* What a pass returns of its rows.
Returned(p, n, out) ==
  /\ IsSeq(out) /\ Len(out) = n
  /\ \A r \in Indices(n) :
       LET full == OutputRow(file, fed, p + r, Before(file, alone, p + r))
       IN /\ out[r + 1].hidden = full.hidden /\ AgreesWith(out[r + 1].logits, full.logits)
          /\ work.lone => out[r + 1] = full

LEMMA ReturnedRows ==
  ASSUME WorkInv, phase = "head", NEW p, p = work.position, NEW n, n = work.count,
         NEW logits, logits = Logits, NEW out,
         out = [r \in 1..n |-> [hidden |-> Slice(work.normed, (r - 1) * Hid(file), Hid(file)),
                                logits |-> logits[r]]]
  PROVE  Returned(p, n, out)
<1>1. /\ n \in Nat \ {0} /\ p \in Nat /\ GoodFile(file) /\ (~Ref(file) => weights = LW(file))
      /\ work.lone \in BOOLEAN
  BY WorkFacts
<1>2. RowsOf(work.normed, n, Hid(file), PassFinal(file, fed, alone, p, n))
  BY DEF WorkInv, PhaseIs
<1>3. LogitsTo(file, fed, alone, p, n, Logits, work.lone)
  BY <1>1, <1>2, LogitsAre, LayerAssumption
<1>4. IsSeq(out) /\ Len(out) = n
  <2> DEFINE S == {out[r] : r \in 1..n}
  <2>0. n \in Nat /\ out = [r \in 1..n |-> out[r]] /\ \A r \in 1..n : out[r] \in S
    BY <1>1
  <2>1. out \in Seq(S)
    <3> HIDE DEF S
    <3>1. out \in [1..n -> S]
      BY <2>0
    <3> QED BY <2>0, <3>1, SeqDef
  <2>2. Len(out) = n
    BY <1>1
  <2> QED BY <2>1, <2>2, Zenon DEF IsSeq
<1>5. ASSUME NEW r \in Indices(n)
      PROVE  LET full == OutputRow(file, fed, p + r, Before(file, alone, p + r))
             IN /\ out[r + 1].hidden = full.hidden /\ AgreesWith(out[r + 1].logits, full.logits)
                /\ work.lone => out[r + 1] = full
  <2>1. r + 1 \in 1..n /\ (r + 1) - 1 = r
    BY <1>1, RowNumbers
  <2>2. PICK hidden : hidden = FinalRow(file, fed, p + r, Before(file, alone, p + r))
    OBVIOUS
  <2>3. PICK full : full = LogitsRow(file, hidden)
    OBVIOUS
  <2>4. OutputRow(file, fed, p + r, Before(file, alone, p + r)) = [hidden |-> hidden, logits |-> full]
    BY <2>2, <2>3, Zenon DEF OutputRow
  <2>5. AgreesWith(logits[r + 1], full) /\ (work.lone => logits[r + 1] = full)
    BY <1>3, <2>2, <2>3, Zenon DEF LogitsTo
  <2>6. Slice(work.normed, r * Hid(file), Hid(file)) = hidden
    <3>1. Row(work.normed, r, Hid(file)) = PassFinal(file, fed, alone, p, n)[r]
      BY <1>2, Zenon DEF RowsOf
    <3>2. PassFinal(file, fed, alone, p, n)[r] = hidden
      BY <2>2, Zenon DEF PassFinal
    <3> QED BY <3>1, <3>2, Zenon DEF Row
  <2>7. out[r + 1] = [hidden |-> Slice(work.normed, ((r + 1) - 1) * Hid(file), Hid(file)),
                      logits |-> logits[r + 1]]
    BY <2>1, Zenon
  <2>8. out[r + 1] = [hidden |-> hidden, logits |-> logits[r + 1]]
    BY <2>1, <2>6, <2>7, Zenon
  <2>9. PICK got : got = logits[r + 1]
    OBVIOUS
  <2>10. [hidden |-> hidden, logits |-> full].hidden = hidden
         /\ [hidden |-> hidden, logits |-> full].logits = full
         /\ [hidden |-> hidden, logits |-> got].hidden = hidden
         /\ [hidden |-> hidden, logits |-> got].logits = got
    OBVIOUS
  <2> QED BY <2>4, <2>5, <2>8, <2>9, <2>10, Zenon
<1> QED BY <1>4, <1>5, Zenon DEF Returned

\* The row alone is the next of the copy.
LEMMA LoneRowKept ==
  ASSUME WorkInv, phase = "head", work.lone, NEW out, Returned(work.position, work.count, out),
         NEW row, row = [state |-> work.state, output |-> out[1]], alone' = Append(alone, row),
         phase' = "taken", UNCHANGED <<rows, shown, asked, file, weights, fed, slots>>
  PROVE  TakenInv'
<1>1. PICK p : p = work.position
  OBVIOUS
<1>2. WorkIs(fed, alone, asked, work) /\ Loaded /\ Asking /\ AskedIs(file, fed, alone, asked)
      /\ rows = Before(file, alone, BaseOf(fed, asked))
  BY DEF WorkInv, Asking
<1>3. work.count = 1 /\ p = Len(alone) /\ Len(alone) < Len(fed)
  BY <1>1, <1>2 DEF WorkIs
<1>4. p \in Nat /\ AloneIs(file, fed, alone) /\ fed \in Seq(Nat) /\ Len(fed) \in Nat
  BY <1>1, <1>2, WorkFacts DEF Loaded
<1>5. 0 \in Indices(1) /\ p + 0 = p /\ 0 + 1 = 1 /\ p + 1 # 0 /\ (p + 1) - 1 = p
  BY <1>4 DEF Indices
<1>6. out[1] = OutputRow(file, fed, p, Before(file, alone, p))
  <2>1. out[0 + 1] = OutputRow(file, fed, p + 0, Before(file, alone, p + 0))
    BY <1>1, <1>3, <1>5, Zenon DEF Returned
  <2> QED BY <1>5, <2>1
<1>7. work.state = StateAfter(file, fed, p, Before(file, alone, p))
  <2>1. work.state = After(file, fed, alone, p + 1)
    BY <1>1, <1>3 DEF WorkInv, PhaseIs, Ended
  <2> QED BY <1>5, <2>1, Zenon DEF After
<1>8. /\ row.state = StateAfter(file, fed, p, Before(file, alone, p))
      /\ row.output = OutputRow(file, fed, p, Before(file, alone, p))
  BY <1>6, <1>7
<1>9. /\ AloneIs(file, fed, alone') /\ Len(alone') = p + 1
      /\ \A q \in 0..p : Before(file, alone', q) = Before(file, alone, q)
  <2>1. /\ AloneIs(file, fed, Append(alone, row)) /\ Len(Append(alone, row)) = p + 1
        /\ \A q \in 0..p : Before(file, Append(alone, row), q) = Before(file, alone, q)
    <3>1. p = Len(alone) /\ Len(alone) < Len(fed) /\ AloneIs(file, fed, alone) /\ fed \in Seq(Nat)
      BY <1>3, <1>4
    <3>2. AloneIs(file, fed, Append(alone, row)) /\ Len(Append(alone, row)) = p + 1
      BY <1>8, <3>1, AloneAppended
    <3>3. ASSUME NEW q \in 0..p
          PROVE  Before(file, Append(alone, row), q) = Before(file, alone, q)
      BY <1>8, <3>1, <3>2, <3>3, AloneAppended
    <3> QED BY <3>2, <3>3
  <2> QED BY <2>1
<1>10. BaseOf(fed, asked) \in 0..p
  BY <1>2, <1>3, <1>4 DEF AskedIs, BaseOf
<1>11. Loaded'
  BY <1>2, <1>9 DEF Loaded
<1>12. AskedIs(file, fed, alone', asked)
  <2>1. BaseOf(fed, asked) <= Len(alone')
    BY <1>4, <1>9, <1>10
  <2> QED BY <1>2, <2>1, Zenon DEF AskedIs
<1>13. rows = Before(file, alone', BaseOf(fed, asked))
  BY <1>2, <1>9, <1>10
<1>14. Asking'
  BY <1>12, <1>13, Zenon DEF Asking
<1>15. SlotsAre(file, fed, alone', asked, slots, 0)
  <2>1. SlotsTaken("head", work) = 0
    BY DEF SlotsTaken, WorkPhases
  <2>2. SlotsAre(file, fed, alone, asked, slots, 0)
    BY <2>1 DEF WorkInv
  <2>3. \A r \in Indices(0) : FALSE
    BY DEF Indices
  <2> QED BY <2>2, <2>3, Zenon DEF SlotsAre
<1> QED BY <1>11, <1>14, <1>15, Zenon DEF TakenInv

\* The pass's rows are those of the copy.
LEMMA PassKept ==
  ASSUME WorkInv, phase = "head", ~work.lone, NEW out, Returned(work.position, work.count, out)
  PROVE  /\ work.state = Before(file, alone, Len(fed)) /\ ShownIs(fed, alone, out)
         /\ Len(out) = Len(asked.tokens) /\ Len(alone) = Len(fed)
         /\ SlotsAre(file, fed, alone, asked, slots, Len(asked.tokens))
<1>1. PICK p : p = work.position
  OBVIOUS
<1>2. PICK n : n = work.count
  OBVIOUS
<1>3. WorkIs(fed, alone, asked, work) /\ Loaded /\ Asking /\ AskedIs(file, fed, alone, asked)
  BY DEF WorkInv, Asking
<1>4. n = Len(asked.tokens) /\ p = Len(fed) - n /\ Len(alone) = Len(fed)
  BY <1>1, <1>2, <1>3 DEF WorkIs, BaseOf
<1>5. n \in Nat \ {0} /\ p \in Nat /\ AloneIs(file, fed, alone) /\ fed \in Seq(Nat) /\ Len(fed) \in Nat
  BY <1>1, <1>2, <1>3, WorkFacts DEF Loaded
<1>6. work.state = Before(file, alone, Len(fed))
  <2>1. work.state = After(file, fed, alone, p + n)
    BY <1>1, <1>2 DEF WorkInv, PhaseIs, Ended
  <2>2. p + n = Len(fed) /\ Len(fed) \in 0..Len(alone)
    BY <1>4, <1>5
  <2> QED BY <1>5, <2>1, <2>2, AfterIsBefore
<1>7. IsSeq(out) /\ Len(out) = n
  BY <1>2, Zenon DEF Returned
<1>8. ASSUME NEW i \in 1..Len(out)
      PROVE  LET lone == alone[Len(fed) - Len(out) + i].output
             IN out[i].hidden = lone.hidden /\ AgreesWith(out[i].logits, lone.logits)
  <2>1. PICK r \in Indices(n) : r + 1 = i
    <3>1. i - 1 \in Indices(n) /\ (i - 1) + 1 = i
      BY <1>5, <1>7 DEF Indices
    <3> QED BY <3>1
  <2>2. p + r \in Indices(Len(alone)) /\ (p + r) + 1 = Len(fed) - Len(out) + i
    <3>1. r \in Nat /\ r < n
      BY <1>5 DEF Indices
    <3>2. PICK k \in Nat : k = Len(fed)
      BY <1>5
    <3>3. p = k - n /\ Len(alone) = k /\ Len(out) = n /\ n \in Nat
      BY <1>4, <1>5, <1>7, <3>2
    <3>4. p + r \in Indices(k) /\ (p + r) + 1 = k - n + i
      BY ONLY <1>5, <2>1, <3>1, <3>2, <3>3 DEF Indices
    <3> QED BY <3>2, <3>3, <3>4
  <2>3. alone[(p + r) + 1].output = OutputRow(file, fed, p + r, Before(file, alone, p + r))
    BY <1>5, <2>2, Zenon DEF AloneIs
  <2>4. LET full == OutputRow(file, fed, p + r, Before(file, alone, p + r))
        IN out[r + 1].hidden = full.hidden /\ AgreesWith(out[r + 1].logits, full.logits)
    BY <1>1, <1>2, Zenon DEF Returned
  <2> QED BY <2>1, <2>2, <2>3, <2>4, Zenon
<1>9. ShownIs(fed, alone, out)
  <2>1. Len(out) <= Len(fed)
    BY <1>4, <1>5, <1>7
  <2> QED BY <1>7, <1>8, <2>1, Zenon DEF ShownIs
<1>10. SlotsAre(file, fed, alone, asked, slots, Len(asked.tokens))
  <2>1. SlotsTaken("head", work) = work.count
    BY DEF SlotsTaken, WorkPhases
  <2> QED BY <1>2, <1>4, <2>1 DEF WorkInv
<1> QED BY <1>4, <1>6, <1>7, <1>9, <1>10

LEMMA LmHeadKeeps ==
  ASSUME WorkInv, LmHead
  PROVE  LayerInv'
<1>1. phase = "head" /\ UNCHANGED <<file, weights, fed, slots>>
  BY DEF LmHead
<1>2. PICK n : n = work.count
  OBVIOUS
<1>3. PICK logits : logits = Logits
  OBVIOUS
<1>4. PICK out : out = [r \in 1..n |-> [hidden |-> Slice(work.normed, (r - 1) * Hid(file), Hid(file)),
                                        logits |-> logits[r]]]
  OBVIOUS
<1>5. Returned(work.position, work.count, out)
  BY <1>1, <1>2, <1>3, <1>4, ReturnedRows
<1>6. IF work.lone
      THEN /\ alone' = Append(alone, [state |-> work.state, output |-> out[1]])
           /\ phase' = "taken" /\ UNCHANGED <<rows, shown, asked>>
      ELSE /\ rows' = work.state /\ shown' = out
           /\ IF asked.judged THEN phase' = "judge" /\ UNCHANGED asked
              ELSE phase' = "idle" /\ asked' = Nothing
           /\ UNCHANGED alone
  BY <1>2, <1>3, <1>4, Zenon DEF LmHead, Hid
<1>7. CASE work.lone
  <2>1. PICK row : row = [state |-> work.state, output |-> out[1]]
    OBVIOUS
  <2>2. alone' = Append(alone, row) /\ phase' = "taken" /\ UNCHANGED <<rows, shown, asked>>
    BY <1>6, <1>7, <2>1, Zenon
  <2>3. TakenInv'
    BY <1>1, <1>5, <1>7, <2>1, <2>2, LoneRowKept
  <2> QED BY <2>3, Zenon DEF LayerInv
<1>8. CASE ~work.lone
  <2>1. /\ work.state = Before(file, alone, Len(fed)) /\ ShownIs(fed, alone, out)
        /\ Len(out) = Len(asked.tokens) /\ Len(alone) = Len(fed)
        /\ SlotsAre(file, fed, alone, asked, slots, Len(asked.tokens))
    BY <1>1, <1>5, <1>8, PassKept
  <2>2. /\ file' = file /\ weights' = weights /\ fed' = fed /\ slots' = slots /\ alone' = alone
        /\ rows' = work.state /\ shown' = out
    BY <1>1, <1>6, <1>8
  <2>3. Loaded /\ AskedIs(file, fed, alone, asked)
    BY DEF WorkInv, Asking
  <2>4. Loaded' /\ Whole'
    BY <2>1, <2>2, <2>3, Zenon DEF Loaded, Whole
  <2>5. CASE asked.judged
    <3>1. phase' = "judge" /\ asked' = asked
      BY <1>6, <1>8, <2>5
    <3>2. JudgeInv'
      BY <2>1, <2>2, <2>3, <2>4, <2>5, <3>1, Zenon DEF JudgeInv
    <3> QED BY <3>2, Zenon DEF LayerInv
  <2>6. CASE ~asked.judged
    <3>1. phase' = "idle"
      BY <1>6, <1>8, <2>6
    <3> QED BY <2>4, <3>1, Zenon DEF LayerInv, IdleInv
  <2> QED BY <2>5, <2>6
<1> QED BY <1>7, <1>8

-----------------------------------------------------------------------------
(***************************************************************************)
(* Rows rolled back.                                                       *)
(***************************************************************************)
LEMMA KeptArray ==
  ASSUME NEW w \in Nat, NEW n \in Nat \ {0}, NEW m \in Nat, NEW a, IsArray(a, n * w), NEW b, IsArray(b, m * w),
         \A i \in Indices(m * w) : a[i] = b[i]
  PROVE  Slice(a, 0, m * (Width(a) \div n)) = b
<1>1. n * w \in Nat /\ m * w \in Nat
  OBVIOUS
<1>2. Width(a) = n * w
  BY <1>1, ArrayDomain, WidthIs
<1>3. Width(a) \div n = w
  BY <1>2, QuotientIs
<1>4. PICK k \in Nat : k = m * w
  BY <1>1
<1>5. Slice(a, 0, k) = [i \in Indices(k) |-> a[0 + i]]
  BY Zenon DEF Slice
<1>6. \A i \in Indices(k) : 0 + i = i
  BY DEF Indices
<1>7. \A i \in Indices(k) : a[0 + i] = b[i]
  BY <1>4, <1>6, Zenon
<1>8. b = [i \in Indices(k) |-> b[i]]
  BY <1>4, Zenon DEF IsArray
<1>9. Slice(a, 0, k) = b
  BY <1>5, <1>7, <1>8, Zenon
<1> QED BY <1>3, <1>4, <1>9, Zenon

\* A cache cut to fewer tokens is theirs.
LEMMA TruncatedCache ==
  ASSUME CacheWidth(file) \in Nat, KindOf(file) # "linear", NEW toks, NEW n \in Nat, NEW m \in 0..n
  PROVE  Truncate(CacheOf(file, toks, n), m) = CacheOf(file, toks, m)
<1>1. CASE m = 0
  BY <1>1, NoCache, Zenon DEF Truncate
<1>2. CASE m # 0
  <2>1. PICK w \in Nat : w = CacheWidth(file)
    OBVIOUS
  <2>2. PICK whole : whole = CacheOf(file, toks, n)
    OBVIOUS
  <2>3. PICK cut : cut = CacheOf(file, toks, m)
    OBVIOUS
  <2>4. m \in Nat /\ n \in Nat \ {0} /\ m <= n
    BY <1>2
  <2>5. whole.positions = n /\ IsArray(whole.keys, n * w) /\ IsArray(whole.values, n * w)
    BY <2>1, <2>2, CacheFields
  <2>6. IsArray(cut.keys, m * w) /\ IsArray(cut.values, m * w)
    BY <2>1, <2>3, <2>4, CacheFields
  <2>7. \A i \in Indices(m * w) : whole.keys[i] = cut.keys[i] /\ whole.values[i] = cut.values[i]
    BY <2>1, <2>2, <2>3, <2>4, CacheAgrees
  <2>8. PICK ka : ka = whole.keys
    OBVIOUS
  <2>9. PICK kb : kb = cut.keys
    OBVIOUS
  <2>10. PICK va : va = whole.values
    OBVIOUS
  <2>11. PICK vb : vb = cut.values
    OBVIOUS
  <2>12. Slice(ka, 0, m * (Width(ka) \div n)) = kb
    <3>1. IsArray(ka, n * w) /\ IsArray(kb, m * w) /\ \A i \in Indices(m * w) : ka[i] = kb[i]
      BY <2>5, <2>6, <2>7, <2>8, <2>9, Zenon
    <3> QED BY ONLY w \in Nat, <2>4, <3>1, KeptArray
  <2>13. Slice(va, 0, m * (Width(va) \div n)) = vb
    <3>1. IsArray(va, n * w) /\ IsArray(vb, m * w) /\ \A i \in Indices(m * w) : va[i] = vb[i]
      BY <2>5, <2>6, <2>7, <2>10, <2>11, Zenon
    <3> QED BY ONLY w \in Nat, <2>4, <3>1, KeptArray
  <2>14. Truncate(whole, m) = [keys |-> kb, values |-> vb, positions |-> m]
    BY <1>2, <2>5, <2>8, <2>10, <2>12, <2>13, Zenon DEF Truncate
  <2>15. cut = [keys |-> kb, values |-> vb, positions |-> m]
    BY <2>3, <2>9, <2>11 DEF CacheOf
  <2> QED BY <2>2, <2>3, <2>14, <2>15, Zenon
<1> QED BY <1>1, <1>2

\* What is kept of tokens and of the copy is the layer's fed those tokens.
LEMMA PrefixKept ==
  ASSUME NEW f, CacheWidth(f) \in Nat, NEW toks \in Seq(Nat), NEW al, AloneIs(f, toks, al),
         NEW m \in 0..Len(al)
  PROVE  /\ SubSeq(toks, 1, m) \in Seq(Nat) /\ Len(SubSeq(toks, 1, m)) = m
         /\ AloneIs(f, SubSeq(toks, 1, m), SubSeq(al, 1, m)) /\ Len(SubSeq(al, 1, m)) = m
         /\ \A i \in 1..m : SubSeq(al, 1, m)[i] = al[i]
         /\ \A n \in 0..m : Before(f, SubSeq(al, 1, m), n) = Before(f, al, n)
<1>1. PICK less : less = SubSeq(al, 1, m)
  OBVIOUS
<1>2. PICK other : other = SubSeq(toks, 1, m)
  OBVIOUS
<1>3. IsSeq(al) /\ Len(al) \in Nat /\ Len(toks) \in Nat /\ Len(al) <= Len(toks)
  BY DEF AloneIs, IsSeq
<1>4. m \in 0..Len(toks)
  BY <1>3
<1>5. other \in Seq(Nat) /\ Len(other) = m /\ \A i \in 1..m : other[i] = toks[i]
  BY <1>2, <1>4, PrefixType
<1>6. IsSeq(less) /\ Len(less) = m /\ \A i \in 1..m : less[i] = al[i]
  BY <1>1, <1>3, SeqPrefix
<1>7. Len(less) <= Len(al) /\ Len(less) <= Len(other) /\ \A i \in 1..Len(less) : less[i] = al[i] /\ toks[i] = other[i]
  BY <1>3, <1>5, <1>6
<1>8. AloneIs(f, other, less)
  BY <1>5, <1>6, <1>7, AlonePrefix
<1>9. ASSUME NEW n \in 0..m PROVE Before(f, less, n) = Before(f, al, n)
  <2>1. CASE n = 0
    BY <2>1, Zenon DEF Before
  <2>2. CASE n # 0
    <3>1. n \in 1..m
      BY <2>2
    <3>2. less[n] = al[n]
      BY <1>6, <3>1
    <3> QED BY <2>2, <3>2, Zenon DEF Before
  <2> QED BY <2>1, <2>2
<1> QED BY <1>1, <1>2, <1>5, <1>6, <1>8, <1>9

\* A file that loads caches rows of a number of elements.
LEMMA CacheNumbers ==
  ASSUME NEW f, GoodFile(f)
  PROVE  CacheWidth(f) \in Nat
<1>1. GoodConfig(f)
  BY DEF GoodFile
<1>2. f.config.kvHeads \in Nat /\ f.config.headDim \in Nat
  BY <1>1 DEF GoodConfig
<1> QED BY <1>2 DEF CacheWidth

LEMMA JudgedKeeps ==
  ASSUME JudgeInv, Judged
  PROVE  IdleInv'
<1>1. /\ Loaded /\ Whole /\ AskedIs(file, fed, alone, asked) /\ asked.judged
      /\ Len(shown) = Len(asked.tokens)
      /\ SlotsAre(file, fed, alone, asked, slots, Len(asked.tokens))
  BY Zenon DEF JudgeInv
<1>2. PICK kept \in 0..Len(asked.tokens) :
        /\ rows' = CASE kept = Len(asked.tokens) -> rows
                     [] kept < Len(asked.tokens) /\ KindOf(file) # "linear" ->
                          Truncate(rows, BaseOf(fed, asked) + kept)
                     [] OTHER -> slots[kept]
        /\ fed' = SubSeq(fed, 1, BaseOf(fed, asked) + kept)
        /\ alone' = SubSeq(alone, 1, BaseOf(fed, asked) + kept)
        /\ shown' = SubSeq(shown, 1, kept)
  BY Zenon DEF Judged, BaseOf
<1>3. file' = file /\ weights' = weights /\ phase' = "idle"
  BY DEF Judged
<1>4. PICK width \in Nat : width = Len(asked.tokens)
  BY <1>1 DEF AskedIs
<1>5. PICK size \in Nat : size = Len(fed)
  BY <1>1 DEF Loaded
<1>6. /\ width <= size /\ width > 0 /\ Len(alone) = size /\ rows = Before(file, alone, size)
      /\ BaseOf(fed, asked) = size - width /\ kept \in 0..width
  BY <1>1, <1>4, <1>5 DEF AskedIs, Whole, BaseOf
<1>7. PICK m \in Nat : m = BaseOf(fed, asked) + kept
  BY <1>6
<1>8. m \in 0..Len(alone) /\ m <= size /\ (kept = width => m = size)
  BY <1>6, <1>7
<1>9. GoodFile(file) /\ fed \in Seq(Nat) /\ AloneIs(file, fed, alone) /\ CacheWidth(file) \in Nat
  BY <1>1, CacheNumbers DEF Loaded
<1>10. /\ fed' \in Seq(Nat) /\ Len(fed') = m /\ AloneIs(file, fed', alone') /\ Len(alone') = m
       /\ \A i \in 1..m : alone'[i] = alone[i]
       /\ Before(file, alone', m) = Before(file, alone, m)
  <2>1. fed' = SubSeq(fed, 1, m) /\ alone' = SubSeq(alone, 1, m)
    BY <1>2, <1>7
  <2>2. m \in 0..m
    OBVIOUS
  <2>3. /\ SubSeq(fed, 1, m) \in Seq(Nat) /\ Len(SubSeq(fed, 1, m)) = m
        /\ AloneIs(file, SubSeq(fed, 1, m), SubSeq(alone, 1, m)) /\ Len(SubSeq(alone, 1, m)) = m
        /\ \A i \in 1..m : SubSeq(alone, 1, m)[i] = alone[i]
        /\ \A n \in 0..m : Before(file, SubSeq(alone, 1, m), n) = Before(file, alone, n)
    BY <1>8, <1>9, PrefixKept
  <2> QED BY <2>1, <2>2, <2>3, Zenon
<1>11. rows' = Before(file, alone, m)
  <2>1. CASE kept = width
    BY <1>2, <1>4, <1>6, <1>8, <2>1
  <2>2. CASE kept # width /\ KindOf(file) # "linear"
    <3>1. rows' = Truncate(rows, m)
      <4>1. kept < Len(asked.tokens) /\ kept # Len(asked.tokens)
        BY <1>4, <1>6, <2>2
      <4> QED BY <1>2, <1>7, <2>2, <4>1
    <3>2. rows = CacheOf(file, fed, size)
      <4>1. size \in 0..Len(alone)
        BY <1>6
      <4> QED BY <1>6, <1>9, <2>2, <4>1, BeforeIsCache
    <3>3. Before(file, alone, m) = CacheOf(file, fed, m)
      BY <1>8, <1>9, <2>2, BeforeIsCache
    <3>4. Truncate(CacheOf(file, fed, size), m) = CacheOf(file, fed, m)
      <4>1. m \in 0..size
        BY <1>8
      <4> QED BY <1>9, <2>2, <4>1, TruncatedCache
    <3> QED BY <3>1, <3>2, <3>3, <3>4, Zenon
  <2>3. CASE kept # width /\ KindOf(file) = "linear"
    <3>1. rows' = slots[kept]
      BY <1>2, <1>4, <2>3
    <3>2. kept \in Indices(Len(asked.tokens))
      BY <1>4, <1>6, <2>3 DEF Indices
    <3>3. slots[kept] = Before(file, alone, BaseOf(fed, asked) + kept)
      BY <1>1, <2>3, <3>2, Zenon DEF SlotsAre
    <3> QED BY <1>7, <3>1, <3>3
  <2> QED BY <2>1, <2>2, <2>3
<1>12. ShownIs(fed', alone', shown')
  <2>1. IsSeq(shown) /\ Len(shown) = width
    BY <1>1, <1>4 DEF Whole, ShownIs
  <2>2. IsSeq(shown') /\ Len(shown') = kept /\ \A i \in 1..kept : shown'[i] = shown[i]
    <3>1. kept \in 0..Len(shown)
      BY <1>6, <2>1
    <3> QED BY <1>2, <2>1, <3>1, SeqPrefix
  <2>3. Len(shown') <= Len(fed')
    BY <1>6, <1>7, <1>10, <2>2
  <2>4. ASSUME NEW i \in 1..Len(shown')
        PROVE  LET lone == alone'[Len(fed') - Len(shown') + i].output
               IN shown'[i].hidden = lone.hidden /\ AgreesWith(shown'[i].logits, lone.logits)
    <3>1. i \in 1..Len(shown) /\ i \in 1..kept
      BY <1>6, <2>1, <2>2
    <3>2. LET lone == alone[Len(fed) - Len(shown) + i].output
          IN shown[i].hidden = lone.hidden /\ AgreesWith(shown[i].logits, lone.logits)
      BY <1>1, <3>1, Zenon DEF Whole, ShownIs
    <3>3. PICK j \in 1..m : j = Len(fed') - Len(shown') + i
      BY <1>6, <1>7, <1>10, <2>2, <3>1
    <3>4. j = Len(fed) - Len(shown) + i
      BY <1>5, <1>6, <1>7, <1>10, <2>1, <2>2, <3>3
    <3>5. alone'[j] = alone[j] /\ shown'[i] = shown[i]
      BY <1>10, <2>2, <3>1, <3>3
    <3> QED BY <3>2, <3>3, <3>4, <3>5, Zenon
  <2> QED BY <2>2, <2>3, <2>4, Zenon DEF ShownIs
<1>13. Loaded'
  BY <1>1, <1>3, <1>10 DEF Loaded
<1>14. Whole'
  <2>1. Len(alone') = Len(fed') /\ rows' = Before(file, alone', Len(fed'))
    BY <1>10, <1>11, Zenon
  <2> QED BY <1>3, <1>12, <2>1, Zenon DEF Whole
<1> QED BY <1>3, <1>13, <1>14, Zenon DEF IdleInv

-----------------------------------------------------------------------------
(***************************************************************************)
(* What is asked of the layer between passes.                              *)
(***************************************************************************)
LEMMA NothingFed ==
  ASSUME NEW f, NEW toks \in Seq(Nat)
  PROVE  /\ AloneIs(f, toks, << >>) /\ Len(<< >>) = 0 /\ Before(f, << >>, 0) = NewLayerState(f)
         /\ ShownIs(toks, << >>, << >>)
<1>1. << >> \in Seq(Nat) /\ Len(<< >>) = 0
  OBVIOUS
<1>2. IsSeq(<< >>)
  BY <1>1 DEF IsSeq
<1>3. \A q : q \notin Indices(0) /\ q \notin 1..0
  BY DEF Indices
<1>4. Len(<< >>) <= Len(toks)
  OBVIOUS
<1>5. AloneIs(f, toks, << >>)
  BY <1>1, <1>2, <1>3, <1>4 DEF AloneIs
<1>6. ShownIs(toks, << >>, << >>)
  BY <1>1, <1>2, <1>3, <1>4 DEF ShownIs
<1>7. Before(f, << >>, 0) = NewLayerState(f)
  BY Zenon DEF Before
<1> QED BY <1>1, <1>5, <1>6, <1>7

LEMMA OpenKeeps ==
  ASSUME ClosedInv, NEW f \in Files, Open(f)
  PROVE  IdleInv'
<1>1. PICK opened : opened = Opened(f)
  OBVIOUS
<1>2. /\ Valid(opened.config)
      /\ IF opened.format = "gguf" THEN ModelLoads(opened) ELSE CheckpointOpens(opened)
      /\ file' = opened
      /\ weights' = IF opened.format = "gguf" THEN LoadWeights(opened) ELSE Nothing
      /\ rows' = NewLayerState(opened)
      /\ phase' = "idle" /\ fed' = fed /\ shown' = shown /\ alone' = alone
  BY <1>1, Zenon DEF Open
<1>3. fed' = << >> /\ shown' = << >> /\ alone' = << >>
  BY <1>2 DEF ClosedInv
<1>4. GoodFile(opened) /\ (~Ref(opened) <=> opened.format = "gguf")
  BY <1>1, <1>2, LoadedIs
<1>5. ~Ref(opened) => weights' = LW(opened)
  BY <1>2, <1>4 DEF LW
<1>6. << >> \in Seq(Nat)
  OBVIOUS
<1>7. /\ AloneIs(opened, << >>, << >>) /\ Len(<< >>) = 0 /\ Before(opened, << >>, 0) = NewLayerState(opened)
      /\ ShownIs(<< >>, << >>, << >>)
  BY <1>6, NothingFed
<1>8. Loaded'
  BY <1>2, <1>3, <1>4, <1>5, <1>6, <1>7, Zenon DEF Loaded
<1>9. Whole'
  BY <1>2, <1>3, <1>7, Zenon DEF Whole
<1> QED BY <1>2, <1>8, <1>9, Zenon DEF IdleInv

LEMMA StartOverKeeps ==
  ASSUME IdleInv, StartOver
  PROVE  IdleInv'
<1>1. /\ file' = file /\ weights' = weights /\ phase' = phase /\ rows' = NewLayerState(file)
      /\ fed' = << >> /\ alone' = << >> /\ shown' = << >>
  BY DEF StartOver
<1>2. << >> \in Seq(Nat)
  OBVIOUS
<1>3. /\ AloneIs(file, << >>, << >>) /\ Len(<< >>) = 0 /\ Before(file, << >>, 0) = NewLayerState(file)
      /\ ShownIs(<< >>, << >>, << >>)
  BY <1>2, NothingFed
<1>4. phase = "idle" /\ GoodFile(file) /\ (~Ref(file) => weights = LW(file))
  BY DEF IdleInv, Loaded
<1>5. Loaded'
  BY <1>1, <1>2, <1>3, <1>4, Zenon DEF Loaded
<1>6. Whole'
  BY <1>1, <1>3, Zenon DEF Whole
<1> QED BY <1>1, <1>4, <1>5, <1>6, Zenon DEF IdleInv

\* Tokens given to a layer that has consumed others.
LEMMA GivenTokens ==
  ASSUME NEW f, CacheWidth(f) \in Nat, NEW toks \in Seq(Nat), NEW al, AloneIs(f, toks, al),
         Len(al) = Len(toks), NEW tokens \in Seq(Nat) \ {<< >>}, NEW pass, pass.tokens = tokens,
         pass.judged \in BOOLEAN, Ref(f) => ~pass.judged
  PROVE  /\ toks \o tokens \in Seq(Nat) /\ AloneIs(f, toks \o tokens, al)
         /\ AskedIs(f, toks \o tokens, al, pass) /\ BaseOf(toks \o tokens, pass) = Len(toks)
<1>1. PICK other : other = toks \o tokens
  OBVIOUS
<1>2. PICK n \in Nat : n = Len(toks)
  OBVIOUS
<1>3. PICK m \in Nat : m = Len(tokens)
  OBVIOUS
<1>4. m > 0
  BY <1>3
<1>5. other \in Seq(Nat) /\ Len(other) = n + m
  BY <1>1, <1>2, <1>3
<1>6. \A i \in 1..n : other[i] = toks[i]
  BY <1>1, <1>2
<1>7. \A r \in Indices(m) : other[n + r + 1] = tokens[r + 1]
  <2>1. ASSUME NEW r \in Indices(m) PROVE other[n + r + 1] = tokens[r + 1]
    <3>1. r \in 0..(m - 1) /\ n + r + 1 > n /\ n + r + 1 <= n + m /\ n + r + 1 - n = r + 1
      BY DEF Indices
    <3> QED BY <1>1, <1>2, <1>3, <3>1
  <2> QED BY <2>1
<1>8. IsSeq(al) /\ Len(al) = n /\ Len(al) <= Len(other) /\ \A i \in 1..Len(al) : al[i] = al[i] /\ toks[i] = other[i]
  BY <1>2, <1>5, <1>6 DEF AloneIs
<1>9. AloneIs(f, other, al)
  <2>1. Len(al) <= Len(al)
    BY <1>2
  <2> QED BY <1>5, <1>8, <2>1, AlonePrefix
<1>10. BaseOf(other, pass) = n /\ Len(pass.tokens) = m
  BY <1>3, <1>5 DEF BaseOf
<1>11. TokensFrom(pass.tokens, other, n, m)
  BY <1>7 DEF TokensFrom
<1>12. m <= n + m /\ n <= n
  OBVIOUS
<1>13. AskedIs(f, other, al, pass)
  BY <1>4, <1>5, <1>8, <1>10, <1>11, <1>12, Zenon DEF AskedIs
<1> QED BY <1>1, <1>2, <1>5, <1>9, <1>10, <1>13

LEMMA AskKeeps ==
  ASSUME IdleInv, NEW tokens \in RowPasses, NEW judged \in BOOLEAN, Ask(tokens, judged)
  PROVE  TakenInv'
<1>1. /\ Loaded /\ Whole /\ GoodFile(file) /\ fed \in Seq(Nat) /\ AloneIs(file, fed, alone)
      /\ (~Ref(file) => weights = LW(file)) /\ Len(alone) = Len(fed) /\ rows = Before(file, alone, Len(fed))
  BY DEF IdleInv, Loaded, Whole
<1>2. PICK logits : asked' = [tokens |-> tokens, judged |-> judged, logits |-> logits]
  BY Zenon DEF Ask
<1>3. /\ fed' = fed \o tokens /\ phase' = "taken" /\ file' = file /\ weights' = weights /\ rows' = rows
      /\ alone' = alone /\ ~Ref(file)
      /\ slots' = [r \in Indices(IF judged /\ KindOf(file) = "linear" THEN Len(tokens) ELSE 0) |->
                     NewLayerState(file)]
  BY Zenon DEF Ask, Ref, IsReference
<1>4. tokens \in Seq(Nat) \ {<< >>}
  BY LayerAssumption
<1>5. asked'.tokens = tokens /\ asked'.judged = judged
  BY <1>2
<1>6. CacheWidth(file) \in Nat
  BY <1>1, CacheNumbers
<1>7. /\ fed \o tokens \in Seq(Nat) /\ AloneIs(file, fed \o tokens, alone)
      /\ AskedIs(file, fed \o tokens, alone, asked') /\ BaseOf(fed \o tokens, asked') = Len(fed)
  <2>1. asked'.judged \in BOOLEAN
    BY <1>5, Zenon
  <2>2. PICK pass : pass = asked'
    OBVIOUS
  <2>3. pass.tokens = tokens /\ pass.judged \in BOOLEAN /\ (Ref(file) => ~pass.judged)
    BY <1>3, <1>5, <2>1, <2>2, Zenon
  <2> QED BY <1>1, <1>4, <1>6, <2>2, <2>3, GivenTokens
<1>8. Loaded'
  BY <1>1, <1>3, <1>7, Zenon DEF Loaded
<1>9. Asking'
  BY <1>1, <1>3, <1>7, Zenon DEF Asking
<1>10. SlotsAre(file, fed', alone', asked', slots', 0)
  <2>1. \A r : r \notin Indices(0)
    BY DEF Indices
  <2>2. asked'.judged /\ KindOf(file) = "linear" => DOMAIN slots' = Indices(Len(asked'.tokens))
    BY <1>3, <1>5, Zenon
  <2> QED BY <2>1, <2>2, Zenon DEF SlotsAre
<1> QED BY <1>3, <1>8, <1>9, <1>10, Zenon DEF TakenInv

LEMMA PrefillKeeps ==
  ASSUME IdleInv, NEW tokens \in RowPasses, Prefill(tokens)
  PROVE  TakenInv'
<1>1. GoodFile(file) /\ (~Ref(file) => weights = LW(file))
  BY DEF IdleInv, Loaded
<1>2. /\ fed' = tokens /\ phase' = "taken" /\ file' = file /\ weights' = weights
      /\ rows' = NewLayerState(file) /\ alone' = << >>
      /\ asked' = [tokens |-> tokens, judged |-> FALSE, logits |-> "all"]
  BY DEF Prefill
<1>3. tokens \in Seq(Nat) \ {<< >>} /\ << >> \in Seq(Nat)
  BY LayerAssumption
<1>4. asked'.tokens = tokens /\ asked'.judged = FALSE
  BY <1>2
<1>5. CacheWidth(file) \in Nat
  BY <1>1, CacheNumbers
<1>6. /\ AloneIs(file, << >>, << >>) /\ Len(<< >>) = 0 /\ Before(file, << >>, 0) = NewLayerState(file)
  BY <1>3, NothingFed
<1>7. /\ << >> \o tokens \in Seq(Nat) /\ AloneIs(file, << >> \o tokens, << >>)
      /\ AskedIs(file, << >> \o tokens, << >>, asked') /\ BaseOf(<< >> \o tokens, asked') = Len(<< >>)
  <2>1. PICK pass : pass = asked'
    OBVIOUS
  <2>2. pass.tokens = tokens /\ pass.judged \in BOOLEAN /\ (Ref(file) => ~pass.judged)
    BY <1>4, <2>1, Zenon
  <2>3. PICK none \in Seq(Nat) : none = << >>
    BY <1>3
  <2>4. AloneIs(file, none, none) /\ Len(none) = Len(none)
    BY <1>6, <2>3
  <2>5. /\ none \o tokens \in Seq(Nat) /\ AloneIs(file, none \o tokens, none)
        /\ AskedIs(file, none \o tokens, none, pass) /\ BaseOf(none \o tokens, pass) = Len(none)
    BY ONLY CacheWidth(file) \in Nat, <1>3, <2>2, <2>4, GivenTokens, <1>5
  <2> QED BY <2>1, <2>3, <2>5, Zenon
<1>8. << >> \o tokens = tokens
  BY <1>3
<1>9. Loaded'
  BY <1>1, <1>2, <1>7, <1>8, Zenon DEF Loaded
<1>10. Asking'
  BY <1>2, <1>6, <1>7, <1>8, Zenon DEF Asking
<1>11. SlotsAre(file, fed', alone', asked', slots', 0)
  BY <1>4, Zenon DEF SlotsAre
<1> QED BY <1>2, <1>9, <1>10, <1>11, Zenon DEF TakenInv

LEMMA DecodeKeeps ==
  ASSUME IdleInv, NEW token \in Nat, Decode(token)
  PROVE  TakenInv'
<1>1. /\ GoodFile(file) /\ fed \in Seq(Nat) /\ AloneIs(file, fed, alone)
      /\ (~Ref(file) => weights = LW(file)) /\ Len(alone) = Len(fed) /\ rows = Before(file, alone, Len(fed))
  BY DEF IdleInv, Loaded, Whole
<1>2. /\ fed' = Append(fed, token) /\ phase' = "taken" /\ file' = file /\ weights' = weights
      /\ rows' = rows /\ alone' = alone
      /\ asked' = [tokens |-> <<token>>, judged |-> FALSE, logits |-> "all"]
  BY DEF Decode
<1>3. <<token>> \in Seq(Nat) \ {<< >>}
  OBVIOUS
<1>4. asked'.tokens = <<token>> /\ asked'.judged = FALSE
  BY <1>2
<1>5. CacheWidth(file) \in Nat
  BY <1>1, CacheNumbers
<1>6. /\ fed \o <<token>> \in Seq(Nat) /\ AloneIs(file, fed \o <<token>>, alone)
      /\ AskedIs(file, fed \o <<token>>, alone, asked') /\ BaseOf(fed \o <<token>>, asked') = Len(fed)
  <2>1. PICK pass : pass = asked'
    OBVIOUS
  <2>2. PICK tokens \in Seq(Nat) \ {<< >>} : tokens = <<token>>
    BY <1>3
  <2>3. pass.tokens = tokens /\ pass.judged \in BOOLEAN /\ (Ref(file) => ~pass.judged)
    BY <1>4, <2>1, <2>2, Zenon
  <2>4. /\ fed \o tokens \in Seq(Nat) /\ AloneIs(file, fed \o tokens, alone)
        /\ AskedIs(file, fed \o tokens, alone, pass) /\ BaseOf(fed \o tokens, pass) = Len(fed)
    BY <1>1, <1>5, <2>3, GivenTokens
  <2> QED BY <2>1, <2>2, <2>4, Zenon
<1>7. fed \o <<token>> = Append(fed, token)
  BY <1>1
<1>8. Loaded'
  BY <1>1, <1>2, <1>6, <1>7, Zenon DEF Loaded
<1>9. Asking'
  BY <1>1, <1>2, <1>6, <1>7, Zenon DEF Asking
<1>10. SlotsAre(file, fed', alone', asked', slots', 0)
  BY <1>4, Zenon DEF SlotsAre
<1> QED BY <1>2, <1>8, <1>9, <1>10, Zenon DEF TakenInv

-----------------------------------------------------------------------------
(***************************************************************************)
(* The invariant holds.                                                    *)
(***************************************************************************)
\* Where the layer is says what holds of it.
LEMMA AtPhase ==
  ASSUME LayerInv
  PROVE  /\ phase \in WorkPhases => WorkInv
         /\ phase = "closed" => ClosedInv
         /\ phase = "idle" => IdleInv
         /\ phase = "taken" => TakenInv
         /\ phase = "judge" => JudgeInv
<1>1. \A ph \in {"closed", "idle", "taken", "judge"} : ph \notin WorkPhases
  BY DEF WorkPhases
<1>2. CASE ClosedInv
  BY <1>1, <1>2 DEF ClosedInv
<1>3. CASE IdleInv
  BY <1>1, <1>3 DEF IdleInv
<1>4. CASE TakenInv
  BY <1>1, <1>4 DEF TakenInv
<1>5. CASE WorkInv
  BY <1>1, <1>5 DEF WorkInv
<1>6. CASE JudgeInv
  BY <1>1, <1>6 DEF JudgeInv
<1> QED BY <1>2, <1>3, <1>4, <1>5, <1>6, Zenon DEF LayerInv

LEMMA LayerStarts ==
  ASSUME LayerInit
  PROVE  LayerInv
BY DEF LayerInit, LayerInv, ClosedInv

\* Between passes.
LEMMA BetweenPassesKeeps ==
  ASSUME LayerInv,
         \/ \E f \in Files : Open(f)
         \/ \E tokens \in RowPasses, judged \in BOOLEAN : Ask(tokens, judged)
         \/ \E tokens \in RowPasses : Prefill(tokens) \/ (\E token \in DOMAIN tokens : Decode(tokens[token]))
         \/ TakeUp \/ LmHead \/ Judged \/ StartOver
  PROVE  LayerInv'
<1>1. CASE \E f \in Files : Open(f)
  <2>1. PICK f \in Files : Open(f)
    BY <1>1
  <2>2. ClosedInv
    BY <2>1, AtPhase, Zenon DEF Open
  <2>3. IdleInv'
    BY <2>1, <2>2, OpenKeeps
  <2> QED BY <2>3, Zenon DEF LayerInv
<1>2. CASE \E tokens \in RowPasses, judged \in BOOLEAN : Ask(tokens, judged)
  <2>1. PICK tokens \in RowPasses, judged \in BOOLEAN : Ask(tokens, judged)
    BY <1>2
  <2>2. IdleInv
    BY <2>1, AtPhase, Zenon DEF Ask
  <2>3. TakenInv'
    BY <2>1, <2>2, AskKeeps
  <2> QED BY <2>3, Zenon DEF LayerInv
<1>3. CASE \E tokens \in RowPasses : Prefill(tokens)
  <2>1. PICK tokens \in RowPasses : Prefill(tokens)
    BY <1>3
  <2>2. IdleInv
    BY <2>1, AtPhase, Zenon DEF Prefill
  <2>3. TakenInv'
    BY <2>1, <2>2, PrefillKeeps
  <2> QED BY <2>3, Zenon DEF LayerInv
<1>4. CASE \E tokens \in RowPasses : \E token \in DOMAIN tokens : Decode(tokens[token])
  <2>0. PICK tokens \in RowPasses : \E place \in DOMAIN tokens : Decode(tokens[place])
    BY <1>4
  <2>1. PICK place \in DOMAIN tokens : Decode(tokens[place])
    BY <2>0
  <2>2. PICK token \in Nat : token = tokens[place]
    <3>1. tokens \in Seq(Nat)
      BY LayerAssumption
    <3> QED BY <3>1
  <2>3. Decode(token)
    BY <2>1, <2>2, Zenon
  <2>4. IdleInv
    BY <2>3, AtPhase, Zenon DEF Decode
  <2>5. TakenInv'
    BY <2>3, <2>4, DecodeKeeps
  <2> QED BY <2>5, Zenon DEF LayerInv
<1>5. CASE TakeUp
  <2>1. TakenInv
    BY <1>5, AtPhase, Zenon DEF TakeUp, Working
  <2>2. WorkInv'
    BY <1>5, <2>1, TakeUpKeeps
  <2> QED BY <2>2, Zenon DEF LayerInv
<1>6. CASE LmHead
  <2>1. phase = "head" /\ "head" \in WorkPhases
    BY <1>6 DEF LmHead, WorkPhases
  <2>2. WorkInv
    BY <2>1, AtPhase, Zenon
  <2> QED BY <1>6, <2>2, LmHeadKeeps
<1>7. CASE Judged
  <2>1. JudgeInv
    BY <1>7, AtPhase, Zenon DEF Judged
  <2>2. IdleInv'
    BY <1>7, <2>1, JudgedKeeps
  <2> QED BY <2>2, Zenon DEF LayerInv
<1>8. CASE StartOver
  <2>1. IdleInv
    BY <1>8, AtPhase, Zenon DEF StartOver
  <2>2. IdleInv'
    BY <1>8, <2>1, StartOverKeeps
  <2> QED BY <2>2, Zenon DEF LayerInv
<1> QED BY <1>1, <1>2, <1>3, <1>4, <1>5, <1>6, <1>7, <1>8

\* Within one.
LEMMA WithinPassKeeps ==
  ASSUME LayerInv,
         \/ Enter
         \/ ProjectAttention \/ ScanHeads \/ ScanScores \/ ScanSoftmax \/ ScanWeightedSum \/ ScanGather
         \/ ProjectDelta \/ ConsumeRow \/ NormDelta
         \/ Output \/ RouteRows \/ Experts
         \/ ReferenceEnter \/ ReferenceProject \/ ReferenceAttend
         \/ ReferenceDelta \/ ReferenceRow \/ ReferenceGatedNorm
         \/ ReferenceOutput \/ ReferenceRoute \/ ReferenceExperts
         \/ FinalNorm
  PROVE  LayerInv'
<1>1. ASSUME NEW in, Working(in), in \in WorkPhases PROVE WorkInv
  BY <1>1, AtPhase, Zenon DEF Working
<1>2. /\ "entering" \in WorkPhases /\ "attention" \in WorkPhases /\ "delta" \in WorkPhases
      /\ "heads" \in WorkPhases /\ "scores" \in WorkPhases /\ "softmax" \in WorkPhases
      /\ "weighted sum" \in WorkPhases /\ "gather" \in WorkPhases /\ "rows" \in WorkPhases
      /\ "gated norm" \in WorkPhases /\ "output" \in WorkPhases /\ "route" \in WorkPhases
      /\ "experts" \in WorkPhases /\ "final norm" \in WorkPhases
  BY DEF WorkPhases
<1>3. /\ "reference attention" \in WorkPhases /\ "reference delta" \in WorkPhases
      /\ "reference scan" \in WorkPhases /\ "reference rows" \in WorkPhases
      /\ "reference gated norm" \in WorkPhases /\ "reference output" \in WorkPhases
      /\ "reference route" \in WorkPhases /\ "reference experts" \in WorkPhases
  BY DEF WorkPhases
<1>4. WorkInv'
  <2>1. CASE Enter
    <3>1. WorkInv
      BY <1>1, <1>2, <1>3, <2>1, Zenon DEF Enter
    <3> QED BY <2>1, <3>1, EnterKeeps
  <2>2. CASE ProjectAttention
    <3>1. WorkInv
      BY <1>1, <1>2, <1>3, <2>2, Zenon DEF ProjectAttention
    <3> QED BY <2>2, <3>1, ProjectAttentionKeeps
  <2>3. CASE ScanHeads
    <3>1. WorkInv
      BY <1>1, <1>2, <1>3, <2>3, Zenon DEF ScanHeads
    <3> QED BY <2>3, <3>1, ScanHeadsKeeps
  <2>4. CASE ScanScores
    <3>1. WorkInv
      BY <1>1, <1>2, <1>3, <2>4, Zenon DEF ScanScores
    <3> QED BY <2>4, <3>1, ScanScoresKeeps
  <2>5. CASE ScanSoftmax
    <3>1. WorkInv
      BY <1>1, <1>2, <1>3, <2>5, Zenon DEF ScanSoftmax
    <3> QED BY <2>5, <3>1, ScanSoftmaxKeeps
  <2>6. CASE ScanWeightedSum
    <3>1. WorkInv
      BY <1>1, <1>2, <1>3, <2>6, Zenon DEF ScanWeightedSum
    <3> QED BY <2>6, <3>1, ScanWeightedSumKeeps
  <2>7. CASE ScanGather
    <3>1. WorkInv
      BY <1>1, <1>2, <1>3, <2>7, Zenon DEF ScanGather
    <3> QED BY <2>7, <3>1, ScanGatherKeeps
  <2>8. CASE ProjectDelta
    <3>1. WorkInv
      BY <1>1, <1>2, <1>3, <2>8, Zenon DEF ProjectDelta
    <3> QED BY <2>8, <3>1, ProjectDeltaKeeps
  <2>9. CASE ConsumeRow
    <3>1. WorkInv
      BY <1>1, <1>2, <1>3, <2>9, Zenon DEF ConsumeRow
    <3> QED BY <2>9, <3>1, ConsumeRowKeeps
  <2>10. CASE NormDelta
    <3>1. WorkInv
      BY <1>1, <1>2, <1>3, <2>10, Zenon DEF NormDelta
    <3> QED BY <2>10, <3>1, NormDeltaKeeps
  <2>11. CASE Output
    <3>1. WorkInv
      BY <1>1, <1>2, <1>3, <2>11, Zenon DEF Output
    <3> QED BY <2>11, <3>1, OutputKeeps
  <2>12. CASE RouteRows
    <3>1. WorkInv
      BY <1>1, <1>2, <1>3, <2>12, Zenon DEF RouteRows
    <3> QED BY <2>12, <3>1, RouteRowsKeeps
  <2>13. CASE Experts
    <3>1. WorkInv
      BY <1>1, <1>2, <1>3, <2>13, Zenon DEF Experts
    <3> QED BY <2>13, <3>1, ExpertsKeeps
  <2>14. CASE ReferenceEnter
    <3>1. WorkInv
      BY <1>1, <1>2, <1>3, <2>14, Zenon DEF ReferenceEnter
    <3> QED BY <2>14, <3>1, ReferenceEnterKeeps
  <2>15. CASE ReferenceProject
    <3>1. WorkInv
      BY <1>1, <1>2, <1>3, <2>15, Zenon DEF ReferenceProject
    <3> QED BY <2>15, <3>1, ReferenceProjectKeeps
  <2>16. CASE ReferenceAttend
    <3>1. WorkInv
      BY <1>1, <1>2, <1>3, <2>16, Zenon DEF ReferenceAttend
    <3> QED BY <2>16, <3>1, ReferenceAttendKeeps
  <2>17. CASE ReferenceDelta
    <3>1. WorkInv
      BY <1>1, <1>2, <1>3, <2>17, Zenon DEF ReferenceDelta
    <3> QED BY <2>17, <3>1, ReferenceDeltaKeeps
  <2>18. CASE ReferenceRow
    <3>1. WorkInv
      BY <1>1, <1>2, <1>3, <2>18, Zenon DEF ReferenceRow
    <3> QED BY <2>18, <3>1, ReferenceRowKeeps
  <2>19. CASE ReferenceGatedNorm
    <3>1. WorkInv
      BY <1>1, <1>2, <1>3, <2>19, Zenon DEF ReferenceGatedNorm
    <3> QED BY <2>19, <3>1, ReferenceGatedNormKeeps
  <2>20. CASE ReferenceOutput
    <3>1. WorkInv
      BY <1>1, <1>2, <1>3, <2>20, Zenon DEF ReferenceOutput
    <3> QED BY <2>20, <3>1, ReferenceOutputKeeps
  <2>21. CASE ReferenceRoute
    <3>1. WorkInv
      BY <1>1, <1>2, <1>3, <2>21, Zenon DEF ReferenceRoute
    <3> QED BY <2>21, <3>1, ReferenceRouteKeeps
  <2>22. CASE ReferenceExperts
    <3>1. WorkInv
      BY <1>1, <1>2, <1>3, <2>22, Zenon DEF ReferenceExperts
    <3> QED BY <2>22, <3>1, ReferenceExpertsKeeps
  <2>23. CASE FinalNorm
    <3>1. WorkInv
      BY <1>1, <1>2, <1>3, <2>23, Zenon DEF FinalNorm
    <3> QED BY <2>23, <3>1, FinalNormKeeps
  <2> QED BY <2>1, <2>2, <2>3, <2>4, <2>5, <2>6, <2>7, <2>8, <2>9, <2>10, <2>11, <2>12, <2>13, <2>14,
               <2>15, <2>16, <2>17, <2>18, <2>19, <2>20, <2>21, <2>22, <2>23
<1> QED BY <1>4, Zenon DEF LayerInv

LEMMA Unmoved ==
  ASSUME LayerInv, UNCHANGED layerVars
  PROVE  LayerInv'
<1>1. /\ file' = file /\ weights' = weights /\ phase' = phase /\ fed' = fed /\ rows' = rows
      /\ shown' = shown /\ slots' = slots /\ asked' = asked /\ work' = work /\ alone' = alone
  BY DEF layerVars
<1>2. Loaded' <=> Loaded
  BY <1>1, Zenon DEF Loaded
<1>3. Asking' <=> Asking
  BY <1>1, Zenon DEF Asking
<1>4. Whole' <=> Whole
  BY <1>1, Zenon DEF Whole
<1>5. CASE ClosedInv
  BY <1>1, <1>5, Zenon DEF LayerInv, ClosedInv
<1>6. CASE IdleInv
  BY <1>1, <1>2, <1>4, <1>6, Zenon DEF LayerInv, IdleInv
<1>7. CASE TakenInv
  BY <1>1, <1>2, <1>3, <1>7, Zenon DEF LayerInv, TakenInv
<1>8. CASE WorkInv
  BY <1>1, <1>2, <1>3, <1>8, Zenon DEF LayerInv, WorkInv
<1>9. CASE JudgeInv
  BY <1>1, <1>2, <1>4, <1>9, Zenon DEF LayerInv, JudgeInv
<1> QED BY <1>5, <1>6, <1>7, <1>8, <1>9, Zenon DEF LayerInv

\* What the invariant says between passes is what the property does.
LEMMA InvariantStands ==
  ASSUME LayerInv
  PROVE  RowsStandAlone
<1> SUFFICES ASSUME phase = "idle"
             PROVE  /\ rows = StateAlone
                    /\ \A i \in DOMAIN shown :
                         LET lone == alone[Len(fed) - Len(shown) + i].output IN
                         /\ shown[i].hidden = lone.hidden
                         /\ \A j \in DOMAIN shown[i].logits : shown[i].logits[j] = lone.logits[j]
  BY Zenon DEF RowsStandAlone
<1>1. Loaded /\ Whole
  BY AtPhase, Zenon DEF IdleInv
<1>2. IsSeq(alone) /\ Len(alone) \in Nat /\ Len(alone) = Len(fed) /\ rows = Before(file, alone, Len(alone))
  <2>1. AloneIs(file, fed, alone) /\ Len(alone) = Len(fed) /\ rows = Before(file, alone, Len(fed))
    BY <1>1, Zenon DEF Loaded, Whole
  <2> QED BY <2>1 DEF AloneIs, IsSeq
<1>3. rows = StateAlone
  <2>1. CASE alone = << >>
    <3>1. Len(alone) = 0
      BY <2>1
    <3> QED BY <1>2, <2>1, <3>1, Zenon DEF StateAlone, Before
  <2>2. CASE alone # << >>
    <3>1. Len(alone) # 0
      BY <1>2, <2>2 DEF IsSeq
    <3> QED BY <1>2, <2>2, <3>1, Zenon DEF StateAlone, Before, Last
  <2> QED BY <2>1, <2>2
<1>4. ASSUME NEW i \in DOMAIN shown
      PROVE  LET lone == alone[Len(fed) - Len(shown) + i].output IN
             /\ shown[i].hidden = lone.hidden
             /\ \A j \in DOMAIN shown[i].logits : shown[i].logits[j] = lone.logits[j]
  <2>1. ShownIs(fed, alone, shown)
    BY <1>1 DEF Whole
  <2>2. i \in 1..Len(shown)
    BY <2>1 DEF ShownIs, IsSeq
  <2>3. LET lone == alone[Len(fed) - Len(shown) + i].output
        IN shown[i].hidden = lone.hidden /\ AgreesWith(shown[i].logits, lone.logits)
    BY <2>1, <2>2, Zenon DEF ShownIs
  <2> QED BY <2>3, Zenon DEF AgreesWith
<1> QED BY <1>3, <1>4

\* In every phase of a pass, loaded, quantized or reference, each array the layer
\* works on holds, row by row, what the row is by itself: a function of the file, of
\* the tokens up to it and of the state before it.
THEOREM LayerInvariantHolds == LayerSpec => []LayerInv
<1>1. LayerInit => LayerInv
  BY LayerStarts
<1>2. LayerInv /\ [LayerNext]_layerVars => LayerInv'
  <2> SUFFICES ASSUME LayerInv, [LayerNext]_layerVars PROVE LayerInv'
    OBVIOUS
  <2>1. CASE UNCHANGED layerVars
    BY <2>1, Unmoved
  <2>2. CASE LayerNext
    <3>1. \/ \/ \E f \in Files : Open(f)
             \/ \E tokens \in RowPasses, judged \in BOOLEAN : Ask(tokens, judged)
             \/ \E tokens \in RowPasses : Prefill(tokens) \/ (\E token \in DOMAIN tokens : Decode(tokens[token]))
             \/ TakeUp \/ LmHead \/ Judged \/ StartOver
          \/ \/ Enter
             \/ ProjectAttention \/ ScanHeads \/ ScanScores \/ ScanSoftmax \/ ScanWeightedSum \/ ScanGather
             \/ ProjectDelta \/ ConsumeRow \/ NormDelta
             \/ Output \/ RouteRows \/ Experts
             \/ ReferenceEnter \/ ReferenceProject \/ ReferenceAttend
             \/ ReferenceDelta \/ ReferenceRow \/ ReferenceGatedNorm
             \/ ReferenceOutput \/ ReferenceRoute \/ ReferenceExperts
             \/ FinalNorm
      BY <2>2, Zenon DEF LayerNext
    <3> QED BY <3>1, BetweenPassesKeeps, WithinPassKeeps
  <2> QED BY <2>1, <2>2
<1> QED BY <1>1, <1>2, PTL DEF LayerSpec

\* Between passes the state and the outputs of a layer are those of the layer fed
\* its rows one by one: no width of a pass, kernel, tile, chunk, block, number of
\* threads or rollback leaves a trace, for any weights and any rounding
\* (quantized_layer.rs, quantized_attention.rs, deltanet.rs, gguf.rs, model.rs).
THEOREM LayerStandsAlone == LayerSpec => []RowsStandAlone
<1>1. LayerInv => RowsStandAlone
  BY InvariantStands
<1> QED BY <1>1, LayerInvariantHolds, PTL
=============================================================================
