---------------------------- MODULE KernelProofs ----------------------------
(***************************************************************************)
(* What is proved about programs of kernels (KernelPrograms): a download   *)
(* undoes an upload, a byte survives quantization, the kernels that move   *)
(* elements put each in its place, the KPU convolves and pools, and the    *)
(* kernels that sum products agree with their textbook definitions and     *)
(* with each other, in either layout.  The lemmas are arithmetic on        *)
(* indices and on what sums are; memory is followed from node to node.     *)
(***************************************************************************)
EXTENDS NetProofs

-----------------------------------------------------------------------------
\* The sum of a KPU convolution by channels, rows and columns of the filter.
KpuX(n, i, ic, y, x) ==
  IF x < 0 \/ x >= n.in_shape[4] \/ y < 0 \/ y >= n.in_shape[3] THEN n.pad_value
  ELSE n.input[offset(n.in_shape, <<0, IF n.depthwise THEN i[2] ELSE ic, y, x>>)]
KpuW(n, i, ic, ky, kx) == n.weights[((i[2] * KpuInputs(n) + ic) * n.filter_h + ky) * n.filter_h + kx]
XAt(n, i, ic, ky, kx) == KpuX(n, i, ic, i[3] - KpuPad(n) + ky, i[4] - KpuPad(n) + kx)

FakeRows(n, i) == Most2(0, KpuPad(n) - i[3]) .. Least2(n.filter_h, n.in_shape[3] - (i[3] - KpuPad(n))) - 1
FakeCols(n, i) == Most2(0, KpuPad(n) - i[4]) .. Least2(n.filter_h, n.in_shape[4] - (i[4] - KpuPad(n))) - 1
FakeTap(n, i, ic, ky, kx) ==
  n.input[offset(n.in_shape, << 0, IF n.depthwise THEN i[2] ELSE ic, i[3] - KpuPad(n) + ky, i[4] - KpuPad(n) + kx >>)]
    * n.weights[((i[2] * KpuInputs(n) + ic) * n.filter_h + ky) * n.filter_h + kx]
FakeTaps(n, i, ic) ==
  [r \in 0 .. (Cardinality(FakeRows(n, i)) - 1) |-> [c \in 0 .. (Cardinality(FakeCols(n, i)) - 1) |->
     FakeTap(n, i, ic, First(FakeRows(n, i)) + r, First(FakeCols(n, i)) + c)]]
FakeSum(n, i) ==
  Total([ic \in 0 .. (KpuInputs(n) - 1) |->
           AccumulateRows("add", 0, FakeTaps(n, i, ic), Cardinality(FakeRows(n, i)), Cardinality(FakeCols(n, i)))], KpuInputs(n))

\* fake_kpu_conv2d, element by element.
LEMMA FakeIs ==
  ASSUME NEW n
  PROVE  fake_kpu_conv2d(n) = [p \in 0 .. (compute_size(KpuShape(n)) - 1) |->
           Activated(n.bias[Index(KpuShape(n), p)[2]] + FakeSum(n, Index(KpuShape(n), p)), n)]
  BY DEF fake_kpu_conv2d, FakeSum, FakeTaps, FakeTap, FakeRows, FakeCols, Tensor, SumOver, OverTaps, Total

\* Sums of products, of what is read, and of weights.
Products(n, i, ic, ky) == [kx \in 0 .. (n.filter_h - 1) |-> XAt(n, i, ic, ky, kx) * KpuW(n, i, ic, ky, kx)]
Reads(n, i, ic, ky) == [kx \in 0 .. (n.filter_h - 1) |-> XAt(n, i, ic, ky, kx)]
Weighs(n, i, ic, ky) == [kx \in 0 .. (n.filter_h - 1) |-> KpuW(n, i, ic, ky, kx)]

\* The three sums of kpu_conv2d, written as totals of totals.
LEMMA KpuSumsAre ==
  ASSUME NEW n, NEW i
  PROVE  /\ KpuSum(n, i, LAMBDA x, w : x * w) =
              Total([ic \in 0 .. (KpuInputs(n) - 1) |-> Total([ky \in 0 .. (n.filter_h - 1) |-> Total(Products(n, i, ic, ky), n.filter_h)], n.filter_h)], KpuInputs(n))
         /\ KpuSum(n, i, LAMBDA x, w : x) =
              Total([ic \in 0 .. (KpuInputs(n) - 1) |-> Total([ky \in 0 .. (n.filter_h - 1) |-> Total(Reads(n, i, ic, ky), n.filter_h)], n.filter_h)], KpuInputs(n))
         /\ KpuSum(n, i, LAMBDA x, w : w) =
              Total([ic \in 0 .. (KpuInputs(n) - 1) |-> Total([ky \in 0 .. (n.filter_h - 1) |-> Total(Weighs(n, i, ic, ky), n.filter_h)], n.filter_h)], KpuInputs(n))
  BY DEF KpuSum, SumOver, Total, Products, Reads, Weighs, XAt, KpuX, KpuW

\* The channel that a term of an output's sum reads.
Reading(n, i, ic) == IF n.depthwise THEN i[2] ELSE ic
AtKpu(n, i) == i[1] = 0 /\ i[2] \in 0 .. n.out_channels - 1 /\ i[3] \in 0 .. n.in_shape[3] - 1 /\ i[4] \in 0 .. n.in_shape[4] - 1

\* What is read, of the image and of the weights, is there.
LEMMA KpuReads ==
  ASSUME NEW n, KpuCompiled(n), NEW i, AtKpu(n, i), NEW ic \in 0 .. KpuInputs(n) - 1
  PROVE  /\ \A y \in 0 .. n.in_shape[3] - 1, x \in 0 .. n.in_shape[4] - 1 :
              offset(n.in_shape, <<0, Reading(n, i, ic), y, x>>) \in 0 .. compute_size(n.in_shape) - 1
         /\ \A y, x \in Int : KpuX(n, i, ic, y, x) \in 0 .. 255
         /\ \A ky, kx \in 0 .. n.filter_h - 1 :
              /\ ((i[2] * KpuInputs(n) + ic) * n.filter_h + ky) * n.filter_h + kx
                   \in 0 .. n.out_channels * KpuInputs(n) * n.filter_h * n.filter_h - 1
              /\ KpuW(n, i, ic, ky, kx) \in 0 .. 255
<1> DEFINE s == n.in_shape
           f == n.filter_h
           C == KpuInputs(n)
           O == n.out_channels
           c == Reading(n, i, ic)
<1>1. Shape(s) /\ s[1] \in Nat \ {0} /\ s[2] \in Nat \ {0} /\ s[3] \in Nat \ {0} /\ s[4] \in Nat \ {0}
  BY SMTT(30) DEF KpuCompiled, Shapes, Shape
<1>2. f \in Nat \ {0} /\ O \in Nat \ {0} /\ C \in Nat \ {0}
  <2>1. C \in {1, s[2]}
    BY DEF KpuInputs
  <2> HIDE DEF C, s
  <2> QED BY <1>1, <2>1, SMTT(30) DEF KpuCompiled
<1>3. c \in 0 .. s[2] - 1
  <2>1. CASE n.depthwise
    BY <1>1, <2>1 DEF KpuCompiled, Reading, AtKpu
  <2>2. CASE ~n.depthwise
    BY <1>1, <2>2 DEF KpuInputs, Reading
  <2> QED BY <2>1, <2>2
<1> HIDE DEF s, f, C, O, c
<1>4. ASSUME NEW y \in 0 .. s[3] - 1, NEW x \in 0 .. s[4] - 1
      PROVE  offset(s, <<0, c, y, x>>) \in 0 .. compute_size(s) - 1
  <2> DEFINE at == <<0, c, y, x>>
  <2>1. \A k \in 1 .. 4 : at[k] \in 0 .. s[k] - 1
    BY <1>1, <1>3
  <2> HIDE DEF at
  <2>2. offset(s, at) \in 0 .. compute_size(s) - 1
    BY <1>1, <2>1, IndexOfOffset
  <2> QED BY <2>2 DEF at
<1>5. ASSUME NEW y \in Int, NEW x \in Int PROVE KpuX(n, i, ic, y, x) \in 0 .. 255
  <2>1. CASE x < 0 \/ x >= s[4] \/ y < 0 \/ y >= s[3]
    BY <2>1 DEF KpuX, KpuCompiled, s
  <2>2. CASE ~(x < 0 \/ x >= s[4] \/ y < 0 \/ y >= s[3])
    <3>1. y \in 0 .. s[3] - 1 /\ x \in 0 .. s[4] - 1
      BY <1>1, <2>2
    <3>2. KpuX(n, i, ic, y, x) = n.input[offset(s, <<0, c, y, x>>)]
      BY <2>2 DEF KpuX, s, c, Reading
    <3>3. offset(s, <<0, c, y, x>>) \in 0 .. compute_size(s) - 1
      BY <1>4, <3>1
    <3>4. n.input \in [0 .. compute_size(s) - 1 -> 0 .. 255]
      BY DEF KpuCompiled, s
    <3> DEFINE o == offset(s, <<0, c, y, x>>)
    <3> HIDE DEF o
    <3> QED BY <3>2, <3>3, <3>4, ZenonT(30) DEF o
  <2> QED BY <2>1, <2>2
<1>6. ASSUME NEW ky \in 0 .. f - 1, NEW kx \in 0 .. f - 1
      PROVE  /\ ((i[2] * C + ic) * f + ky) * f + kx \in 0 .. O * C * f * f - 1
             /\ KpuW(n, i, ic, ky, kx) \in 0 .. 255
  <2> DEFINE o == i[2]
             a == o * C + ic
             b == a * f + ky
             OC == O * C
             OCf == OC * f
  <2>1. o \in Nat /\ o < O /\ ic \in 0 .. C - 1
    BY <1>2 DEF AtKpu, O, C
  <2>2. a \in 0 .. OC - 1
    BY <1>2, <2>1, Below
  <2>3. OC \in Nat
    BY <1>2
  <2> HIDE DEF a, OC
  <2>4. b \in 0 .. OCf - 1 /\ OCf \in Nat
    BY <1>2, <2>2, <2>3, Below
  <2> HIDE DEF b, OCf
  <2>5. b * f + kx \in 0 .. OCf * f - 1
    BY <1>2, <2>4, Below
  <2>6. ((i[2] * C + ic) * f + ky) * f + kx \in 0 .. O * C * f * f - 1
    BY <2>5 DEF b, a, OCf, OC
  <2>7. KpuW(n, i, ic, ky, kx) = n.weights[((i[2] * C + ic) * f + ky) * f + kx]
    BY DEF KpuW, C, f
  <2>8. n.weights \in [0 .. O * C * f * f - 1 -> 0 .. 255]
    BY DEF KpuCompiled, O, C, f
  <2> DEFINE at == ((i[2] * C + ic) * f + ky) * f + kx
             size == O * C * f * f
  <2>9. at \in 0 .. size - 1 /\ n.weights \in [0 .. size - 1 -> 0 .. 255] /\ KpuW(n, i, ic, ky, kx) = n.weights[at]
    BY <2>6, <2>7, <2>8
  <2> HIDE DEF at, size
  <2>10. KpuW(n, i, ic, ky, kx) \in 0 .. 255
    <3> DEFINE weights == n.weights
    <3>1. weights \in [0 .. size - 1 -> 0 .. 255] /\ at \in 0 .. size - 1
      BY <2>9
    <3> HIDE DEF weights
    <3>2. weights[at] \in 0 .. 255
      BY <3>1
    <3> QED BY <2>9, <3>2 DEF weights
  <2> QED BY <2>6, <2>10
<1> QED
  BY <1>4, <1>5, <1>6 DEF s, f, C, O, c

\* The terms of the convolution of the numbers the bytes stand for.
RealAt(n, i, ic, ky, kx) == (XAt(n, i, ic, ky, kx) - n.pad_value) * (KpuW(n, i, ic, ky, kx) + WeightZero(n))
Reals(n, i, ic, ky) == [kx \in 0 .. (n.filter_h - 1) |-> RealAt(n, i, ic, ky, kx)]
RealTaps(n, i, ic) == [ky \in 0 .. (n.filter_h - 1) |-> Reals(n, i, ic, ky)]
RealSum(n, i) == Total([ic \in 0 .. (KpuInputs(n) - 1) |-> Total(RowSums(RealTaps(n, i, ic), n.filter_h, n.filter_h), n.filter_h)], KpuInputs(n))

Windowed(S, f, at, h) ==
  (\E lo, m : Stretch(S, lo, m, f)) /\ \A k \in 0 .. f - 1 : k \in S <=> at + k \in 0 .. h - 1

\* The part of a filter that falls on the image, as the loop bounds give it, is a stretch.
LEMMA WindowSpans ==
  ASSUME NEW f \in Nat, NEW border \in Nat, NEW y \in Nat, NEW h \in Int
  PROVE  Windowed(Most2(0, border - y) .. Least2(f, h - (y - border)) - 1, f, y - border, h)
<1> DEFINE a == Most2(0, border - y)
           b == Least2(f, h - (y - border)) - 1
<1>1. a \in Nat /\ b \in Int /\ b < f
  BY DEF Most2, Least2
<1>2. \A k \in 0 .. f - 1 : k \in a .. b <=> y - border + k \in 0 .. h - 1
  BY DEF Most2, Least2
<1> HIDE DEF a, b
<1>3. \E lo, m : Stretch(a .. b, lo, m, f)
  BY <1>1, IntervalSpans
<1> QED
  BY <1>2, <1>3 DEF a, b, Windowed

\* The convolution of the numbers the bytes stand for sums these terms.
LEMMA FakeSumIs ==
  ASSUME NEW n, KpuCompiled(n), NEW i, AtKpu(n, i)
  PROVE  FakeSum(InReals(n), i) = RealSum(n, i)
<1> DEFINE r == InReals(n)
           f == n.filter_h
           C == KpuInputs(n)
<1>1. /\ r.in_shape = n.in_shape /\ r.filter_h = f /\ r.depthwise = n.depthwise /\ r.out_channels = n.out_channels
      /\ r.input = [p \in DOMAIN n.input |-> n.input[p] - n.pad_value]
      /\ r.weights = [p \in DOMAIN n.weights |-> n.weights[p] + WeightZero(n)]
  BY DEF InReals
<1>2. /\ f \in {1, 3} /\ n.pad_value \in 0 .. 255 /\ WeightZero(n) \in -255 .. 0
      /\ n.in_shape[3] \in Nat \ {0} /\ n.in_shape[4] \in Nat \ {0} /\ n.in_shape[2] \in Nat \ {0}
  BY DEF KpuCompiled, Shapes
<1>3. KpuPad(r) = KpuPad(n) /\ KpuPad(n) \in Nat /\ KpuInputs(r) = C
  BY <1>1, <1>2 DEF KpuPad, KpuInputs
<1>4. i[3] \in Nat /\ i[4] \in Nat
  BY <1>2 DEF AtKpu
<1> HIDE DEF r, f
<1> DEFINE rows == FakeRows(r, i)
           cols == FakeCols(r, i)
<1>5. /\ (\E lo, m : Stretch(rows, lo, m, f))
      /\ \A k \in 0 .. f - 1 : k \in rows <=> i[3] - KpuPad(n) + k \in 0 .. n.in_shape[3] - 1
  <2> DEFINE border == KpuPad(n)
             y == i[3]
             h == n.in_shape[3]
  <2>1. border \in Nat /\ y \in Nat /\ h \in Int /\ f \in Nat
    BY <1>2, <1>3, <1>4
  <2>2. rows = Most2(0, border - y) .. Least2(f, h - (y - border)) - 1
    BY <1>1, <1>3 DEF FakeRows
  <2> HIDE DEF border, y, h, rows
  <2>3. Windowed(rows, f, y - border, h)
    BY <2>1, <2>2, WindowSpans
  <2> QED BY <2>3 DEF Windowed, border, y, h
<1>6. /\ (\E lo, m : Stretch(cols, lo, m, f))
      /\ \A k \in 0 .. f - 1 : k \in cols <=> i[4] - KpuPad(n) + k \in 0 .. n.in_shape[4] - 1
  <2> DEFINE border == KpuPad(n)
             y == i[4]
             h == n.in_shape[4]
  <2>1. border \in Nat /\ y \in Nat /\ h \in Int /\ f \in Nat
    BY <1>2, <1>3, <1>4
  <2>2. cols = Most2(0, border - y) .. Least2(f, h - (y - border)) - 1
    BY <1>1, <1>3 DEF FakeCols
  <2> HIDE DEF border, y, h, cols
  <2>3. Windowed(cols, f, y - border, h)
    BY <2>1, <2>2, WindowSpans
  <2> QED BY <2>3 DEF Windowed, border, y, h
<1>7. ASSUME NEW ic \in 0 .. C - 1
      PROVE  AccumulateRows("add", 0, FakeTaps(r, i, ic), Cardinality(rows), Cardinality(cols))
               = Total(RowSums(RealTaps(n, i, ic), f, f), f)
  <2> DEFINE z == RealTaps(n, i, ic)
             x == FakeTaps(r, i, ic)
  <2>1. ASSUME NEW j \in 0 .. f - 1, NEW k \in 0 .. f - 1
        PROVE  /\ z[j][k] = RealAt(n, i, ic, j, k)
               /\ z[j][k] \in Int
               /\ j \notin rows \/ k \notin cols => z[j][k] = 0
               /\ j \in rows /\ k \in cols => FakeTap(r, i, ic, j, k) = z[j][k]
    <3> DEFINE y == i[3] - KpuPad(n) + j
               u == i[4] - KpuPad(n) + k
               X == XAt(n, i, ic, j, k)
               W == KpuW(n, i, ic, j, k)
               wt == ((i[2] * C + ic) * f + j) * f + k
               at == offset(n.in_shape, <<0, Reading(n, i, ic), y, u>>)
    <3>1. z[j][k] = RealAt(n, i, ic, j, k)
      BY DEF RealTaps, Reals, f
    <3>2. y \in Int /\ u \in Int
      BY <1>2, <1>3, <1>4
    <3>3. X = KpuX(n, i, ic, y, u)
      BY DEF XAt
    <3>4. X \in 0 .. 255
      <4> HIDE DEF X, y, u
      <4> QED BY <3>2, <3>3, KpuReads
    <3>5. W \in 0 .. 255 /\ wt \in 0 .. n.out_channels * C * f * f - 1
      BY KpuReads DEF f
    <3>6. z[j][k] = (X - n.pad_value) * (W + WeightZero(n))
      BY <3>1 DEF RealAt
    <3>7. z[j][k] \in Int
      <4> DEFINE a == X - n.pad_value
                 b == W + WeightZero(n)
      <4>1. a \in Int /\ b \in Int
        <5> HIDE DEF X, W
        <5> QED BY <1>2, <3>4, <3>5
      <4>2. z[j][k] = a * b
        BY <3>6
      <4> HIDE DEF a, b, z
      <4> QED BY <4>1, <4>2
    <3>8. j \notin rows \/ k \notin cols => z[j][k] = 0
      <4> SUFFICES ASSUME j \notin rows \/ k \notin cols PROVE z[j][k] = 0
        OBVIOUS
      <4>1. y \notin 0 .. n.in_shape[3] - 1 \/ u \notin 0 .. n.in_shape[4] - 1
        <5> HIDE DEF rows, cols
        <5> QED BY <1>5, <1>6
      <4> HIDE DEF y, u
      <4>2. X = n.pad_value
        BY <1>2, <3>2, <3>3, <4>1 DEF KpuX
      <4> HIDE DEF X, W, z
      <4>3. (X - n.pad_value) * (W + WeightZero(n)) = 0
        BY <1>2, <3>5, <4>2
      <4> QED BY <3>6, <4>3
    <3>9. j \in rows /\ k \in cols => FakeTap(r, i, ic, j, k) = z[j][k]
      <4> SUFFICES ASSUME j \in rows, k \in cols PROVE FakeTap(r, i, ic, j, k) = z[j][k]
        OBVIOUS
      <4>1. y \in 0 .. n.in_shape[3] - 1 /\ u \in 0 .. n.in_shape[4] - 1
        <5> HIDE DEF rows, cols
        <5> QED BY <1>5, <1>6
      <4>2. FakeTap(r, i, ic, j, k) = r.input[at] * r.weights[wt]
        BY <1>1, <1>3 DEF FakeTap, Reading
      <4>3. at \in 0 .. compute_size(n.in_shape) - 1
        <5> HIDE DEF y, u
        <5> QED BY <4>1, KpuReads
      <4>4. X = n.input[at]
        <5> HIDE DEF y, u
        <5> QED BY <1>2, <3>3, <4>1 DEF KpuX, Reading
      <4>5. W = n.weights[wt]
        BY DEF KpuW, f
      <4> HIDE DEF at, wt, X, W
      <4>6. DOMAIN n.input = 0 .. compute_size(n.in_shape) - 1 /\ DOMAIN n.weights = 0 .. n.out_channels * C * f * f - 1
        BY DEF KpuCompiled, f
      <4>7. r.input[at] = X - n.pad_value
        BY <1>1, <4>3, <4>4, <4>6
      <4>8. r.weights[wt] = W + WeightZero(n)
        BY <1>1, <3>5, <4>5, <4>6
      <4> QED BY <3>6, <4>2, <4>7, <4>8
    <3> QED BY <3>1, <3>7, <3>8, <3>9
  <2>2. PICK lo, m : Stretch(rows, lo, m, f)
    BY <1>5
  <2>3. PICK left, w : Stretch(cols, left, w, f)
    BY <1>6
  <2>4. ASSUME NEW j \in 0 .. Cardinality(rows) - 1, NEW k \in 0 .. Cardinality(cols) - 1
        PROVE  x[j][k] = z[First(rows) + j][First(cols) + k]
    <3> DEFINE a == First(rows) + j
               b == First(cols) + k
    <3>1. First(rows) = lo /\ First(cols) = left /\ lo \in Nat /\ left \in Nat
      BY <2>2, <2>3 DEF Stretch
    <3>2. a \in rows /\ b \in cols /\ a \in 0 .. f - 1 /\ b \in 0 .. f - 1
      <4>1. Cardinality(rows) = m /\ Cardinality(cols) = w /\ lo + m <= f /\ left + w <= f /\ m \in Nat /\ w \in Nat
        BY <2>2, <2>3 DEF Stretch
      <4>2. a = lo + j /\ b = left + k /\ j \in 0 .. m - 1 /\ k \in 0 .. w - 1
        BY <3>1, <4>1
      <4>3. lo + j \in Int /\ left + k \in Int /\ lo <= lo + j /\ lo + j < lo + m /\ left <= left + k /\ left + k < left + w
        BY <3>1, <4>1, <4>2
      <4>4. lo + j \in rows /\ left + k \in cols
        BY <2>2, <2>3, <4>3 DEF Stretch
      <4> QED BY <1>2, <3>1, <4>1, <4>2, <4>3, <4>4
    <3>3. x[j][k] = FakeTap(r, i, ic, a, b)
      BY DEF FakeTaps
    <3> HIDE DEF a, b, x, z, rows, cols
    <3>4. FakeTap(r, i, ic, a, b) = z[a][b]
      BY <2>1, <3>2
    <3> QED BY <3>3, <3>4 DEF a, b
  <2> HIDE DEF x, z, rows, cols
  <2>5. TapsOf(z, f, f, x, rows, cols)
    BY <2>1, <2>4 DEF TapsOf
  <2>6. f \in Nat
    BY <1>2
  <2>7. AccumulateRows("add", 0, x, Cardinality(rows), Cardinality(cols)) = Total(RowSums(z, f, f), f)
    BY <2>2, <2>3, <2>5, <2>6, TapsTotal
  <2> QED BY <2>7 DEF x, z
<1> DEFINE A(ic) == AccumulateRows("add", 0, FakeTaps(r, i, ic), Cardinality(rows), Cardinality(cols))
           B(ic) == Total(RowSums(RealTaps(n, i, ic), f, f), f)
<1>8. \A ic \in 0 .. C - 1 : A(ic) = B(ic)
  BY <1>7
<1>9. FakeSum(r, i) = Total([ic \in 0 .. C - 1 |-> A(ic)], C)
  BY <1>3 DEF FakeSum
<1>10. RealSum(n, i) = Total([ic \in 0 .. C - 1 |-> B(ic)], C)
  BY DEF RealSum, f
<1> HIDE DEF A, B
<1>11. [ic \in 0 .. C - 1 |-> A(ic)] = [ic \in 0 .. C - 1 |-> B(ic)]
  BY <1>8
<1> QED
  BY <1>9, <1>10, <1>11 DEF r

-----------------------------------------------------------------------------
\* The level of the filter's columns, of its rows, and of the channels, of one of the sums.
ProductsOf(n, i, ic) == [ky \in 0 .. (n.filter_h - 1) |-> Total(Products(n, i, ic, ky), n.filter_h)]
ReadsOf(n, i, ic) == [ky \in 0 .. (n.filter_h - 1) |-> Total(Reads(n, i, ic, ky), n.filter_h)]
WeighsOf(n, i, ic) == [ky \in 0 .. (n.filter_h - 1) |-> Total(Weighs(n, i, ic, ky), n.filter_h)]
RealsOf(n, i, ic) == [ky \in 0 .. (n.filter_h - 1) |-> Total(Reals(n, i, ic, ky), n.filter_h)]
AllProducts(n, i) == [ic \in 0 .. (KpuInputs(n) - 1) |-> Total(ProductsOf(n, i, ic), n.filter_h)]
AllReads(n, i) == [ic \in 0 .. (KpuInputs(n) - 1) |-> Total(ReadsOf(n, i, ic), n.filter_h)]
AllWeighs(n, i) == [ic \in 0 .. (KpuInputs(n) - 1) |-> Total(WeighsOf(n, i, ic), n.filter_h)]
AllReals(n, i) == [ic \in 0 .. (KpuInputs(n) - 1) |-> Total(RealsOf(n, i, ic), n.filter_h)]

\* The sum of real values, level by level: channels, rows, columns.
LEMMA RealSumLevels ==
  ASSUME NEW n, NEW i
  PROVE  RealSum(n, i) = Total(AllReals(n, i), KpuInputs(n))
<1>1. ASSUME NEW ic PROVE RowSums(RealTaps(n, i, ic), n.filter_h, n.filter_h) = RealsOf(n, i, ic)
  <2>1. ASSUME NEW ky \in 0 .. (n.filter_h - 1) PROVE RealTaps(n, i, ic)[ky] = Reals(n, i, ic, ky)
    BY DEF RealTaps
  <2> DEFINE A(ky) == Total(RealTaps(n, i, ic)[ky], n.filter_h)
             B(ky) == Total(Reals(n, i, ic, ky), n.filter_h)
  <2>2. \A ky \in 0 .. (n.filter_h - 1) : A(ky) = B(ky)
    BY <2>1
  <2> HIDE DEF A, B
  <2>3. [ky \in 0 .. (n.filter_h - 1) |-> A(ky)] = [ky \in 0 .. (n.filter_h - 1) |-> B(ky)]
    BY <2>2
  <2> QED BY <2>3 DEF A, B, RowSums, RealsOf
<1> DEFINE A(ic) == Total(RowSums(RealTaps(n, i, ic), n.filter_h, n.filter_h), n.filter_h)
           B(ic) == Total(RealsOf(n, i, ic), n.filter_h)
<1>2. \A ic \in 0 .. (KpuInputs(n) - 1) : A(ic) = B(ic)
  BY <1>1
<1> HIDE DEF A, B
<1>3. [ic \in 0 .. (KpuInputs(n) - 1) |-> A(ic)] = [ic \in 0 .. (KpuInputs(n) - 1) |-> B(ic)]
  BY <1>2
<1> QED
  BY <1>3 DEF A, B, RealSum, AllReals

\* So are the sums of products, of elements and of weights.
LEMMA KpuSumsLevels ==
  ASSUME NEW n, NEW i
  PROVE  /\ KpuSum(n, i, LAMBDA x, w : x * w) = Total(AllProducts(n, i), KpuInputs(n))
         /\ KpuSum(n, i, LAMBDA x, w : x) = Total(AllReads(n, i), KpuInputs(n))
         /\ KpuSum(n, i, LAMBDA x, w : w) = Total(AllWeighs(n, i), KpuInputs(n))
  BY KpuSumsAre DEF AllProducts, AllReads, AllWeighs, ProductsOf, ReadsOf, WeighsOf

\* A product of numbers of no more than m in size.
LEMMA ProductBounded ==
  ASSUME NEW m \in Nat, NEW a \in -m .. m, NEW b \in -m .. m
  PROVE  a * b \in -(m * m) .. m * m
<1> DEFINE mm == m * m
           Fits2(v) == v \in Int /\ -mm <= v /\ v <= mm
<1>0. mm \in Nat
  OBVIOUS
<1>1. ASSUME NEW c \in 0 .. m, NEW d \in 0 .. m PROVE c * d \in Nat /\ c * d <= mm
  <2>1. m * d >= c * d /\ c * d \in Nat /\ m * d \in Nat
    BY Grows
  <2>2. m * m >= d * m /\ d * m \in Nat
    BY Grows
  <2>3. d * m = m * d
    OBVIOUS
  <2> DEFINE cd == c * d
             dm == d * m
  <2>4. cd \in Nat /\ dm \in Nat /\ cd <= dm /\ dm <= mm
    BY <2>1, <2>2, <2>3
  <2> HIDE DEF cd, dm, mm
  <2>5. cd <= mm
    BY <1>0, <2>4
  <2> QED BY <2>4, <2>5 DEF cd
<1>2. CASE a >= 0 /\ b >= 0
  <2>1. a * b \in Nat /\ a * b <= mm
    BY <1>1, <1>2
  <2> DEFINE v == a * b
  <2> HIDE DEF v, mm
  <2>2. Fits2(v)
    BY <1>0, <2>1 DEF v
  <2> QED BY <2>2 DEF v, mm
<1>3. CASE a >= 0 /\ b < 0
  <2>1. a * (-b) \in Nat /\ a * (-b) <= mm
    BY <1>1, <1>3
  <2>2. a * b = -(a * (-b))
    OBVIOUS
  <2> DEFINE v == a * (-b)
  <2>3. a * b = -v /\ v \in Nat /\ v <= mm
    BY <2>1, <2>2
  <2> HIDE DEF v, mm
  <2>4. Fits2(a * b)
    BY <1>0, <2>3
  <2> QED BY <2>4 DEF mm
<1>4. CASE a < 0 /\ b >= 0
  <2>1. (-a) * b \in Nat /\ (-a) * b <= mm
    BY <1>1, <1>4
  <2>2. a * b = -((-a) * b)
    OBVIOUS
  <2> DEFINE v == (-a) * b
  <2>3. a * b = -v /\ v \in Nat /\ v <= mm
    BY <2>1, <2>2
  <2> HIDE DEF v, mm
  <2>4. Fits2(a * b)
    BY <1>0, <2>3
  <2> QED BY <2>4 DEF mm
<1>5. CASE a < 0 /\ b < 0
  <2>1. (-a) * (-b) \in Nat /\ (-a) * (-b) <= mm
    BY <1>1, <1>5
  <2>2. a * b = (-a) * (-b)
    OBVIOUS
  <2> DEFINE v == (-a) * (-b)
  <2>3. a * b = v /\ v \in Nat /\ v <= mm
    BY <2>1, <2>2
  <2> HIDE DEF v, mm
  <2>4. Fits2(a * b)
    BY <1>0, <2>3
  <2> QED BY <2>4 DEF mm
<1> QED
  BY <1>2, <1>3, <1>4, <1>5

\* A convolution on bytes, corrected for the zero points, is that of the numbers they stand for.
Corrected(n, i) ==
  Total(AllProducts(n, i), KpuInputs(n)) + WeightZero(n) * Total(AllReads(n, i), KpuInputs(n))
    + (-n.pad_value) * Total(AllWeighs(n, i), KpuInputs(n)) + n.arg_add * KpuInputs(n)

\* The sum of real products is the sum of bytes' products with the arguments' corrections.
LEMMA RealSumCombines ==
  ASSUME NEW n, KpuCompiled(n), NEW i, AtKpu(n, i)
  PROVE  /\ RealSum(n, i) = Corrected(n, i)
         /\ RealSum(n, i) \in -Limit(n) .. Limit(n)
         /\ Total(AllReads(n, i), KpuInputs(n)) \in Int /\ Total(AllWeighs(n, i), KpuInputs(n)) \in Int
         /\ Total(AllProducts(n, i), KpuInputs(n)) \in Int
<1> DEFINE f == n.filter_h
           C == KpuInputs(n)
           a == WeightZero(n)
           b == -n.pad_value
           c == a * b
           B == 255 * 255
<1>1. /\ f \in {1, 3} /\ n.pad_value \in 0 .. 255 /\ a \in -255 .. 0 /\ b = -n.pad_value /\ n.in_shape[2] \in Nat \ {0}
      /\ n.arg_add = f * f * a * b
  BY DEF KpuCompiled, Shapes
<1>2. C \in Nat /\ f \in Nat /\ c \in Int /\ a \in Int /\ b \in Int
  <2>1. C \in {1, n.in_shape[2]}
    BY DEF KpuInputs
  <2>2. f \in Nat /\ a \in Int /\ b \in Int
    <3> DEFINE z == n.pad_value
    <3>1. f \in {1, 3} /\ a \in -255 .. 0 /\ z \in 0 .. 255 /\ b = -z
      BY <1>1
    <3> HIDE DEF f, a, b, z
    <3> QED BY <3>1
  <2>3. c \in Int
    <3> HIDE DEF a, b
    <3> QED BY <2>2
  <2> HIDE DEF C, f, a, b, c
  <2> QED BY <1>1, <2>1, <2>2, <2>3
<1> HIDE DEF f, C, a, b, c, B
<1>3. ASSUME NEW ic \in 0 .. C - 1, NEW ky \in 0 .. f - 1
      PROVE  /\ Total(Reals(n, i, ic, ky), f) = Total(Products(n, i, ic, ky), f) + a * Total(Reads(n, i, ic, ky), f)
                                                 + b * Total(Weighs(n, i, ic, ky), f) + c * f
             /\ Total(Reals(n, i, ic, ky), f) \in -(f * B) .. f * B
             /\ Total(Products(n, i, ic, ky), f) \in Int
             /\ Total(Reads(n, i, ic, ky), f) \in Int /\ Total(Weighs(n, i, ic, ky), f) \in Int
  <2> DEFINE z == Reals(n, i, ic, ky)
             x == Products(n, i, ic, ky)
             y == Reads(n, i, ic, ky)
             w == Weighs(n, i, ic, ky)
  <2>1. ASSUME NEW kx \in 0 .. f - 1
        PROVE  /\ x[kx] \in Int /\ y[kx] \in Int /\ w[kx] \in Int /\ z[kx] \in -B .. B
               /\ z[kx] = x[kx] + a * y[kx] + b * w[kx] + c
    <3> DEFINE X == XAt(n, i, ic, ky, kx)
               W == KpuW(n, i, ic, ky, kx)
    <3>1. x[kx] = X * W /\ y[kx] = X /\ w[kx] = W /\ z[kx] = (X - n.pad_value) * (W + a)
      BY DEF Products, Reads, Weighs, Reals, RealAt, f, a
    <3>2. X \in 0 .. 255 /\ W \in 0 .. 255
      <4> DEFINE v == i[3] - KpuPad(n) + ky
                 u == i[4] - KpuPad(n) + kx
      <4>1. n.in_shape[3] \in Nat \ {0} /\ n.in_shape[4] \in Nat \ {0}
        BY DEF KpuCompiled, Shapes
      <4>2. v \in Int /\ u \in Int
        BY <1>2, <4>1 DEF AtKpu, KpuPad
      <4>3. X = KpuX(n, i, ic, v, u)
        BY DEF XAt
      <4> HIDE DEF v, u, X
      <4> QED BY <4>2, <4>3, KpuReads DEF C, f
    <3> HIDE DEF X, W, x, y, w, z
    <3> DEFINE p == X - n.pad_value
               q == W + a
    <3>3. p \in -255 .. 255 /\ q \in -255 .. 255
      <4> DEFINE z0 == n.pad_value
      <4>1. z0 \in 0 .. 255
        BY <1>1
      <4> HIDE DEF z0
      <4>2. X - z0 \in -255 .. 255 /\ W + a \in -255 .. 255
        BY <1>1, <3>2, <4>1
      <4> QED BY <4>2 DEF z0
    <3>4. z[kx] = p * q
      BY <3>1, SMTT(30)
    <3>5. z[kx] \in -B .. B
      <4> DEFINE m == 255
      <4>1. m \in Nat /\ p \in -m .. m /\ q \in -m .. m
        BY <3>3
      <4> HIDE DEF p, q, m
      <4>2. p * q \in -(m * m) .. m * m
        BY <4>1, ProductBounded
      <4> QED BY <3>4, <4>2 DEF B, m
    <3>6. (X + b) * (W + a) = X * W + a * X + b * W + c
      <4>1. ASSUME NEW u \in Int, NEW v \in Int, NEW s \in Int, NEW t \in Int
            PROVE  (u + t) * (v + s) = u * v + s * u + t * v + s * t
        <5>1. (u + t) * (v + s) = u * (v + s) + t * (v + s)
          OBVIOUS
        <5>2. u * (v + s) = u * v + s * u /\ t * (v + s) = t * v + s * t
          OBVIOUS
        <5>3. u * v \in Int /\ s * u \in Int /\ t * v \in Int /\ s * t \in Int
          OBVIOUS
        <5> QED BY <5>1, <5>2, <5>3
      <4>2. X \in Int /\ W \in Int
        BY <3>2
      <4> QED BY <1>2, <4>1, <4>2 DEF c
    <3>7. X + b = p
      BY <1>1, <3>2
    <3>8. X * W \in Int /\ X \in Int /\ W \in Int
      BY <3>2
    <3>9. z[kx] = x[kx] + a * y[kx] + b * w[kx] + c
      BY <3>1, <3>4, <3>6, <3>7
    <3> QED BY <3>1, <3>5, <3>8, <3>9
  <2> HIDE DEF x, y, w, z
  <2>2. Combines(z, x, y, w, a, b, c, f)
    BY <2>1 DEF Combines
  <2>3. Total(z, f) = Total(x, f) + a * Total(y, f) + b * Total(w, f) + c * f
    BY <1>2, <2>1, <2>2, TotalCombines
  <2>4. B \in Nat
    BY DEF B
  <2>5. Total(z, f) \in -(f * B) .. f * B
    BY <1>2, <2>1, <2>4, TotalBounded
  <2>6. Totals(x, f) /\ Totals(y, f) /\ Totals(w, f)
    BY <1>2, <2>1, TotalSteps
  <2>7. f \in 0 .. f
    BY <1>2
  <2> QED BY <2>3, <2>5, <2>6, <2>7 DEF Totals, x, y, w, z
<1>4. ASSUME NEW ic \in 0 .. C - 1
      PROVE  /\ Total(RealsOf(n, i, ic), f) = Total(ProductsOf(n, i, ic), f) + a * Total(ReadsOf(n, i, ic), f)
                                                 + b * Total(WeighsOf(n, i, ic), f) + c * f * f
             /\ Total(RealsOf(n, i, ic), f) \in -(f * (f * B)) .. f * (f * B)
             /\ Total(ProductsOf(n, i, ic), f) \in Int
             /\ Total(ReadsOf(n, i, ic), f) \in Int /\ Total(WeighsOf(n, i, ic), f) \in Int
  <2> DEFINE z == RealsOf(n, i, ic)
             x == ProductsOf(n, i, ic)
             y == ReadsOf(n, i, ic)
             w == WeighsOf(n, i, ic)
             cf == c * f
             fB == f * B
  <2>1. ASSUME NEW ky \in 0 .. f - 1
        PROVE  /\ x[ky] \in Int /\ y[ky] \in Int /\ w[ky] \in Int /\ z[ky] \in -fB .. fB
               /\ z[ky] = x[ky] + a * y[ky] + b * w[ky] + cf
    <3>1. /\ z[ky] = Total(Reals(n, i, ic, ky), f) /\ x[ky] = Total(Products(n, i, ic, ky), f)
          /\ y[ky] = Total(Reads(n, i, ic, ky), f) /\ w[ky] = Total(Weighs(n, i, ic, ky), f)
      BY DEF RealsOf, ProductsOf, ReadsOf, WeighsOf, f
    <3> HIDE DEF x, y, w, z
    <3> QED BY <1>3, <3>1
  <2>2. cf \in Int /\ fB \in Nat
    BY <1>1, <1>2 DEF B
  <2> HIDE DEF x, y, w, z, cf, fB
  <2>3. Combines(z, x, y, w, a, b, cf, f)
    BY <2>1 DEF Combines
  <2>4. Total(z, f) = Total(x, f) + a * Total(y, f) + b * Total(w, f) + cf * f
    BY <1>2, <2>1, <2>2, <2>3, TotalCombines
  <2>5. Total(z, f) \in -(f * fB) .. f * fB
    BY <1>2, <2>1, <2>2, TotalBounded
  <2>6. Totals(x, f) /\ Totals(y, f) /\ Totals(w, f)
    BY <1>2, <2>1, TotalSteps
  <2>7. f \in 0 .. f
    BY <1>2
  <2> QED BY <2>4, <2>5, <2>6, <2>7 DEF Totals, x, y, w, z, cf, fB
<1>5. /\ Total(AllReals(n, i), C) = Total(AllProducts(n, i), C) + a * Total(AllReads(n, i), C)
                                                 + b * Total(AllWeighs(n, i), C) + c * f * f * C
      /\ Total(AllReals(n, i), C) \in -(C * (f * (f * B))) .. C * (f * (f * B))
      /\ Total(AllProducts(n, i), C) \in Int /\ Total(AllReads(n, i), C) \in Int /\ Total(AllWeighs(n, i), C) \in Int
  <2> DEFINE z == AllReals(n, i)
             x == AllProducts(n, i)
             y == AllReads(n, i)
             w == AllWeighs(n, i)
             cff == c * f * f
             ffB == f * (f * B)
  <2>1. ASSUME NEW ic \in 0 .. C - 1
        PROVE  /\ x[ic] \in Int /\ y[ic] \in Int /\ w[ic] \in Int /\ z[ic] \in -ffB .. ffB
               /\ z[ic] = x[ic] + a * y[ic] + b * w[ic] + cff
    <3>1. /\ z[ic] = Total(RealsOf(n, i, ic), f) /\ x[ic] = Total(ProductsOf(n, i, ic), f)
          /\ y[ic] = Total(ReadsOf(n, i, ic), f) /\ w[ic] = Total(WeighsOf(n, i, ic), f)
      BY DEF AllReals, AllProducts, AllReads, AllWeighs, f, C
    <3> HIDE DEF x, y, w, z
    <3> QED BY <1>4, <3>1
  <2>2. cff \in Int /\ ffB \in Nat
    BY <1>1, <1>2 DEF B
  <2> HIDE DEF x, y, w, z, cff, ffB
  <2>3. Combines(z, x, y, w, a, b, cff, C)
    BY <2>1 DEF Combines
  <2>4. Total(z, C) = Total(x, C) + a * Total(y, C) + b * Total(w, C) + cff * C
    BY <1>2, <2>1, <2>2, <2>3, TotalCombines
  <2>5. Total(z, C) \in -(C * ffB) .. C * ffB
    BY <1>2, <2>1, <2>2, TotalBounded
  <2>6. Totals(x, C) /\ Totals(y, C) /\ Totals(w, C)
    BY <1>2, <2>1, TotalSteps
  <2>7. C \in 0 .. C
    BY <1>2
  <2> QED BY <2>4, <2>5, <2>6, <2>7 DEF Totals, x, y, w, z, cff, ffB
<1>6. n.arg_add = c * f * f
  <2>1. f * f * a * b = c * f * f
    BY <1>1, <1>2 DEF c
  <2> QED BY <1>1, <2>1
<1>7. C * (f * (f * B)) = Limit(n)
  <2>1. C * (f * (f * B)) = B * C * f * f
    BY <1>1, <1>2 DEF B
  <2>2. 255 * 255 = B
    BY DEF B
  <2>3. Limit(n) = 255 * 255 * C * f * f
    BY DEF Limit, C, f
  <2> QED BY <2>1, <2>2, <2>3
<1>8. RealSum(n, i) = Total(AllReals(n, i), C)
  BY RealSumLevels DEF C
<1> DEFINE cff == c * f * f
           M == C * (f * (f * B))
           R == Total(AllReals(n, i), C)
           P == Total(AllProducts(n, i), C) + a * Total(AllReads(n, i), C) + b * Total(AllWeighs(n, i), C)
<1>9. R = P + cff * C /\ R \in -M .. M /\ cff = n.arg_add /\ M = Limit(n) /\ RealSum(n, i) = R /\ Corrected(n, i) = P + n.arg_add * C
  BY <1>5, <1>6, <1>7, <1>8 DEF Corrected, a, b, C
<1> HIDE DEF cff, M, R, P
<1>10. RealSum(n, i) = Corrected(n, i) /\ RealSum(n, i) \in -Limit(n) .. Limit(n)
  BY <1>9
<1> QED
  BY <1>5, <1>10 DEF C

-----------------------------------------------------------------------------
\* Powers of two are positive, and each but the first is twice the one before.
LEMMA PowerIs ==
  ASSUME NEW k \in 0 .. MaxShift
  PROVE  2^k \in Nat \ {0} /\ (k # 0 => 2^(k - 1) \in Nat \ {0} /\ 2^k = 2 * 2^(k - 1))
<1>1. CASE k = 0
  BY <1>1, PowersAssumption
<1>2. CASE k # 0
  <2>1. k \in 1 .. MaxShift
    BY <1>2 DEF MaxShift
  <2>2. 2^(k - 1) \in Nat \ {0} /\ 2^k = 2 * 2^(k - 1)
    BY <2>1, PowersAssumption
  <2> QED BY <2>2
<1> QED
  BY <1>1, <1>2

\* The last segment that starts below a value is one of the table.
LEMMA SegmentIs ==
  ASSUME NEW n, KpuCompiled(n), NEW v \in Int, n.activation[1].start_x < v
  PROVE  \E k \in 1 .. Len(n.activation) : SegmentOf(n, v) = n.activation[k] /\ n.activation[k].start_x < v
<1> DEFINE L == Len(n.activation)
           below == {k \in 1 .. L : v > n.activation[k].start_x}
           back == {m \in 0 .. L : L - m \in below}
<1>1. L \in Nat \ {0} /\ n.activation[1].start_x \in Int
  BY DEF KpuCompiled
<1>2. 1 \in below
  BY <1>1
<1>3. L - 1 \in back
  <2> HIDE DEF L, below
  <2>1. L - (L - 1) = 1 /\ L - 1 \in 0 .. L
    BY <1>1
  <2> QED BY <1>2, <2>1
<1>4. PICK m \in back : \A j \in back : m <= j
  <2>1. back \in SUBSET Nat
    BY <1>1
  <2> HIDE DEF back
  <2> QED BY <1>3, <2>1, LeastNat
<1>5. \A j \in below : j <= L - m
  <2> TAKE j \in below
  <2>1. j \in 1 .. L
    OBVIOUS
  <2>2. L - j \in back
    <3> HIDE DEF L, below
    <3>1. L - (L - j) = j /\ L - j \in 0 .. L
      BY <1>1, <2>1
    <3> QED BY <3>1
  <2>3. m <= L - j
    BY <1>4, <2>2
  <2>4. m \in 0 .. L
    BY <1>4
  <2> HIDE DEF L, below, back
  <2> QED BY <1>1, <2>1, <2>3, <2>4
<1>6. L - m \in below
  BY <1>4
<1> DEFINE k == CHOOSE k \in below : \A j \in below : j <= k
<1>7. k \in below
  <2> HIDE DEF below
  <2> QED BY <1>5, <1>6
<1>8. SegmentOf(n, v) = n.activation[k]
  BY DEF SegmentOf
<1>9. k \in 1 .. L /\ v > n.activation[k].start_x
  <2> HIDE DEF k
  <2> QED BY <1>7
<1> HIDE DEF k
<1>10. n.activation[k].start_x \in Int
  BY <1>9 DEF KpuCompiled
<1> QED
  BY <1>8, <1>9, <1>10

\* The nearest multiple of a unit; of two that are as near, the even one.
NearestOf(v, unit) ==
  CHOOSE r \in (v \div unit) .. (v \div unit + 1) :
    LET error == IF v < r * unit THEN r * unit - v ELSE v - r * unit
    IN  2 * error < unit \/ (2 * error = unit /\ r % 2 = 0)

\* The nearest quotient, ties to even, told from the remainder.
Nearer(v, shift) ==
  IF shift = 0 THEN v
  ELSE IF v % 2^shift > 2^(shift - 1) \/ (v % 2^shift = 2^(shift - 1) /\ (v \div 2^shift) % 2 = 1)
       THEN v \div 2^shift + 1 ELSE v \div 2^shift

\* The remainder tells which of two neighbours is nearest.
LEMMA NearerIsNearest ==
  ASSUME NEW v \in Int, NEW shift \in 0 .. MaxShift
  PROVE  /\ Nearer(v, shift) = NearestOf(v, 2^shift) /\ Nearer(v, shift) \in Int /\ v \div 2^shift \in Int
         /\ (shift = 0 => v \div 2^shift = v)
<1> DEFINE unit == 2^shift
           half == 2^(shift - 1)
           q == v \div unit
           m == v % unit
           Error(r) == IF v < r * unit THEN r * unit - v ELSE v - r * unit
           Good(r) == 2 * Error(r) < unit \/ (2 * Error(r) = unit /\ r % 2 = 0)
           c == Nearer(v, shift)
<1>1. unit \in Nat \ {0} /\ (shift # 0 => half \in Nat \ {0} /\ unit = 2 * half) /\ (shift = 0 => unit = 1)
  BY PowerIs, PowersAssumption
<1>2. c = IF shift = 0 THEN v ELSE IF m > half \/ (m = half /\ q % 2 = 1) THEN q + 1 ELSE q
  BY DEF Nearer
<1> HIDE DEF unit, half, c
<1>3. q \in Int /\ m \in 0 .. unit - 1 /\ v = q * unit + m /\ q * unit \in Int
  <2>1. q \in Int /\ m \in 0 .. unit - 1 /\ v = q * unit + m
    BY <1>1
  <2> HIDE DEF q, m
  <2>2. q * unit \in Int
    BY <1>1, <2>1
  <2> QED BY <2>1, <2>2
<1>4. (q + 1) * unit = q * unit + unit
  <2> HIDE DEF q, m
  <2> QED BY <1>1, <1>3
<1> HIDE DEF q, m
<1>5. Error(q) = m /\ Error(q + 1) = unit - m
  <2> DEFINE qu == q * unit
             qu1 == (q + 1) * unit
  <2>1. qu \in Int /\ qu1 = qu + unit /\ v = qu + m
    BY <1>3, <1>4
  <2> HIDE DEF qu, qu1
  <2>2. /\ (IF v < qu THEN qu - v ELSE v - qu) = m
        /\ (IF v < qu1 THEN qu1 - v ELSE v - qu1) = unit - m
    BY <1>1, <1>3, <2>1
  <2> QED BY <2>2 DEF qu, qu1
<1> HIDE DEF Error
<1>6. \A r \in q .. q + 1 : Good(r) <=> r = c
  <2>1. CASE shift = 0
    <3>1. unit = 1 /\ m = 0 /\ v = q /\ c = q
      BY <1>1, <1>2, <1>3, <2>1
    <3>2. Good(q) /\ ~Good(q + 1)
      BY <1>5, <3>1
    <3> HIDE DEF Good
    <3>3. \A r \in q .. q + 1 : r = q \/ r = q + 1
      BY <1>3
    <3> QED BY <1>3, <3>1, <3>2, <3>3
  <2>2. CASE shift # 0
    <3>1. half \in Nat \ {0} /\ unit = 2 * half
      BY <1>1, <2>2
    <3>2. c = IF m > half \/ (m = half /\ q % 2 = 1) THEN q + 1 ELSE q
      BY <1>2, <2>2
    <3>3. (q % 2 = 0 /\ (q + 1) % 2 = 1) \/ (q % 2 = 1 /\ (q + 1) % 2 = 0)
      BY <1>3
    <3>4. Good(q) <=> m < half \/ (m = half /\ q % 2 = 0)
      BY <1>3, <1>5, <3>1
    <3>5. Good(q + 1) <=> m > half \/ (m = half /\ (q + 1) % 2 = 0)
      BY <1>3, <1>5, <3>1
    <3> HIDE DEF Good
    <3>6. (Good(q) <=> q = c) /\ (Good(q + 1) <=> q + 1 = c)
      BY <1>3, <3>1, <3>2, <3>3, <3>4, <3>5
    <3>7. \A r \in q .. q + 1 : r = q \/ r = q + 1
      BY <1>3
    <3> QED BY <3>6, <3>7
  <2> QED BY <2>1, <2>2
<1>7. c \in q .. q + 1
  <2>1. shift = 0 => v = q
    BY <1>1, <1>3
  <2> QED BY <1>2, <1>3, <2>1
<1>8. (CHOOSE r \in q .. q + 1 : Good(r)) = c
  <2> HIDE DEF Good
  <2> QED BY <1>6, <1>7
<1>9. c = NearestOf(v, unit)
  BY <1>8 DEF NearestOf, Good, Error, q
<1>10. shift = 0 => q = v
  BY <1>1, <1>3
<1> QED
  BY <1>3, <1>7, <1>9, <1>10 DEF c, q, unit

\* What the KPU makes of a quotient: the nearest, or as much below a negative one as the nearest is above it.
KpuRounded(v, unit) == IF v < 0 THEN 2 * (v \div unit) - NearestOf(v, unit) ELSE NearestOf(v, unit)

\* CarryShiftBanker rounds a quotient that is not negative to the nearest, ties to even, and a negative one away from it.
LEMMA BankerRounds ==
  ASSUME NEW v \in Int, NEW shift \in 0 .. MaxShift
  PROVE  CarryShiftBanker(v, shift) = KpuRounded(v, 2^shift)
<1> DEFINE unit == 2^shift
           half == 2^(shift - 1)
           q == v \div unit
           m == v % unit
           up == m > half \/ (m = half /\ q % 2 = 1)
           near == NearestOf(v, unit)
           sign == IF v < 0 THEN -1 ELSE 1
<1>1. q \in Int /\ near \in Int /\ (shift = 0 => q = v) /\ near = IF shift = 0 THEN v ELSE IF up THEN q + 1 ELSE q
  BY NearerIsNearest DEF Nearer
<1>2. CarryShiftBanker(v, shift) = IF shift = 0 THEN v ELSE IF up THEN q + sign ELSE q
  BY DEF CarryShiftBanker
<1>3. KpuRounded(v, unit) = IF v < 0 THEN 2 * q - near ELSE near
  BY DEF KpuRounded
<1> HIDE DEF unit, q, up, near
<1>4. CarryShiftBanker(v, shift) = KpuRounded(v, unit)
  BY <1>1, <1>2, <1>3
<1> QED BY <1>4 DEF unit

\* A multiple of a unit is divided by it exactly.
LEMMA DividesOut ==
  ASSUME NEW a \in Int, NEW x \in Int, NEW u \in Nat \ {0}
  PROVE  (a * u * x) \div u = a * x /\ a * x \in Int
<1> DEFINE p == a * x
<1>1. p \in Int /\ a * u * x = p * u
  OBVIOUS
<1> HIDE DEF p
<1>2. (p * u) \div u = p
  BY <1>1, ExactDiv
<1> QED BY <1>1, <1>2 DEF p

\* The workspace of the KPU is the sum of the numbers that the bytes stand for.
LEMMA WorkspaceIs ==
  ASSUME NEW n, KpuCompiled(n), NEW i, AtKpu(n, i)
  PROVE  Workspace(n, i) = RealSum(n, i) /\ RealSum(n, i) \in -Limit(n) .. Limit(n)
<1> DEFINE X == Total(AllReads(n, i), KpuInputs(n))
           W == Total(AllWeighs(n, i), KpuInputs(n))
           P == Total(AllProducts(n, i), KpuInputs(n))
           a == WeightZero(n)
           b == -n.pad_value
           ux == 2^n.shift_x
           uw == 2^n.shift_w
           add == n.arg_add * KpuInputs(n)
<1>1. a \in -255 .. 0 /\ n.pad_value \in 0 .. 255 /\ n.arg_x = a * ux /\ n.arg_w = b * uw
  BY DEF KpuCompiled
<1>2. ux \in Nat \ {0} /\ uw \in Nat \ {0}
  <2> DEFINE sx == n.shift_x
             sw == n.shift_w
  <2>1. sx \in 0 .. MaxShift /\ sw \in 0 .. MaxShift
    BY DEF KpuCompiled
  <2> HIDE DEF sx, sw
  <2>2. 2^sx \in Nat \ {0} /\ 2^sw \in Nat \ {0}
    BY <2>1, PowerIs
  <2> QED BY <2>2 DEF sx, sw
<1>3. RealSum(n, i) = Corrected(n, i) /\ RealSum(n, i) \in -Limit(n) .. Limit(n) /\ X \in Int /\ W \in Int
  BY RealSumCombines
<1>4. Workspace(n, i) = P + ((n.arg_x * X) \div ux) + ((n.arg_w * W) \div uw) + add
  BY KpuSumsLevels DEF Workspace
<1>5. Corrected(n, i) = P + a * X + b * W + add
  BY DEF Corrected
<1>6. a \in Int /\ b \in Int
  <2> DEFINE z == n.pad_value
  <2>1. a \in -255 .. 0 /\ z \in 0 .. 255 /\ b = -z
    BY <1>1
  <2> HIDE DEF a, b, z
  <2> QED BY <2>1
<1> HIDE DEF X, W, P, a, b, ux, uw, add
<1>7. (a * ux * X) \div ux = a * X /\ (b * uw * W) \div uw = b * W
  BY <1>2, <1>3, <1>6, DividesOut
<1>8. Workspace(n, i) = P + a * X + b * W + add
  BY <1>1, <1>4, <1>7
<1> QED
  BY <1>3, <1>5, <1>8

-----------------------------------------------------------------------------
\* A number of no more than L in size, times another, is no less than minus L times the other's size.
LEMMA ScaleBounded ==
  ASSUME NEW L \in Nat, NEW v \in -L .. L, NEW mul \in Int
  PROVE  v * mul \in Int /\ L * Most2(mul, -mul) \in Nat /\ v * mul >= -(L * Most2(mul, -mul))
<1>1. v \in Int
  OBVIOUS
<1>2. CASE mul >= 0
  <2>1. Most2(mul, -mul) = mul
    BY <1>2 DEF Most2
  <2> DEFINE a == v * mul
             b == L * mul
             d == v + L
  <2>2. d \in Nat
    OBVIOUS
  <2>3. d * mul = a + b /\ a \in Int /\ b \in Nat
    BY <1>1, <1>2
  <2> HIDE DEF d
  <2>4. d * mul >= 0
    BY <1>2, <2>2
  <2> DEFINE e == d * mul
  <2>5. e >= 0 /\ e = a + b
    BY <2>3, <2>4
  <2> HIDE DEF a, b, e
  <2>6. a >= -b
    BY <2>3, <2>5
  <2> QED BY <2>1, <2>3, <2>6 DEF a, b
<1>3. CASE mul < 0
  <2>1. Most2(mul, -mul) = -mul /\ -mul \in Nat
    BY <1>3 DEF Most2
  <2> DEFINE w == -mul
             a == v * mul
             b == L * w
             d == L - v
  <2>2. d \in Nat
    OBVIOUS
  <2>3. d * w = b - v * w /\ v * w = -a /\ a \in Int /\ b \in Nat /\ w \in Nat
    BY <1>1, <1>3
  <2> HIDE DEF d, w
  <2>4. d * w >= 0
    BY <2>2, <2>3
  <2> DEFINE e == d * w
             c == v * w
  <2>5. e >= 0 /\ e = b - c /\ c = -a
    BY <2>3, <2>4
  <2> HIDE DEF a, b, e, c
  <2>6. a >= -b
    BY <2>3, <2>5
  <2> QED BY <2>1, <2>3, <2>6 DEF a, b, w
<1> QED
  BY <1>2, <1>3

\* Dividing brings a number no further down.
LEMMA QuotientBounded ==
  ASSUME NEW K \in Nat, NEW t \in Int, t >= -K, NEW u \in Nat \ {0}
  PROVE  t \div u \in Int /\ t \div u >= -K
<1> DEFINE q == t \div u
           m == t % u
<1>1. q \in Int /\ m \in 0 .. u - 1 /\ t = q * u + m
  OBVIOUS
<1> HIDE DEF q, m
<1>2. SUFFICES ASSUME q < -K PROVE FALSE
  BY <1>1 DEF q
<1> DEFINE s == -K - 1 - q
           su == s * u
           Ku == K * u
           qu == q * u
<1>3. s \in Nat /\ s + q = -K - 1
  BY <1>1, <1>2
<1>4. su \in Nat /\ Ku \in Nat /\ qu \in Int
  <2> HIDE DEF s
  <2> QED BY <1>1, <1>3
<1>5. su = -Ku - u - qu
  BY <1>1
<1>6. Ku >= K
  <2>1. (u - 1) * K >= 0 /\ Ku = (u - 1) * K + K /\ (u - 1) * K \in Int
    OBVIOUS
  <2> DEFINE r == (u - 1) * K
  <2>2. r >= 0 /\ Ku = r + K /\ r \in Int
    BY <2>1
  <2> HIDE DEF r, Ku
  <2> QED BY <2>2
<1>7. t = qu + m
  BY <1>1
<1> HIDE DEF su, Ku, qu
<1> QED
  BY <1>1, <1>4, <1>5, <1>6, <1>7

\* What a value becomes: scaled, and rounded on its segment.
KpuResult(n, oc, v) ==
  LET bn  == n.batchnorm[oc + 1]
      y   == (v * bn.mul) \div 2^bn.shift + bn.add
      seg == SegmentOf(n, y)
  IN  Byte(KpuRounded((y - seg.start_x) * seg.mul, 2^seg.shift) + seg.add)

\* What the activation table makes of a sum is the result the reference states.
LEMMA ResultIs ==
  ASSUME NEW n, KpuCompiled(n), NEW oc \in 0 .. n.out_channels - 1, NEW v \in -Limit(n) .. Limit(n)
  PROVE  KpuActivated(n, oc, v) = KpuResult(n, oc, v)
<1> DEFINE c == oc + 1
           bn == n.batchnorm[c]
           L == Limit(n)
           M == Most2(bn.mul, -bn.mul)
           y == (v * bn.mul) \div 2^bn.shift + bn.add
           seg == SegmentOf(n, y)
           start == n.activation[1].start_x
<1>1. n.out_channels \in Nat \ {0} /\ Len(n.activation) \in Nat \ {0}
  BY DEF KpuCompiled
<1>2. c \in 1 .. n.out_channels
  BY <1>1
<1>3. bn.mul \in Int /\ bn.shift \in 0 .. MaxShift /\ bn.add \in Int /\ start < bn.add - L * M
  <2> HIDE DEF c
  <2> QED BY <1>2 DEF KpuCompiled
<1>4. 1 \in 1 .. Len(n.activation)
  BY <1>1
<1>5. start \in Int
  BY <1>4 DEF KpuCompiled
<1>6. L \in Nat
  <2> DEFINE C == KpuInputs(n)
             f == n.filter_h
             B == 255 * 255
  <2>1. C \in {1, n.in_shape[2]} /\ n.in_shape[2] \in Nat \ {0} /\ f \in {1, 3}
    BY DEF KpuInputs, KpuCompiled, Shapes
  <2>2. B \in Nat
    OBVIOUS
  <2>3. L = B * C * f * f
    BY DEF Limit
  <2> HIDE DEF C, f, B, L
  <2>4. C \in Nat /\ f \in Nat
    BY <2>1
  <2>5. B * C \in Nat
    BY <2>2, <2>4
  <2> DEFINE BC == B * C
  <2> HIDE DEF BC
  <2>6. BC * f \in Nat
    BY <2>4, <2>5 DEF BC
  <2> DEFINE BCf == BC * f
  <2> HIDE DEF BCf
  <2>7. BCf * f \in Nat
    BY <2>4, <2>6 DEF BCf
  <2> QED BY <2>3, <2>7 DEF BCf, BC
<1> DEFINE mul == bn.mul
           t == v * mul
           K == L * M
           unit == 2^bn.shift
           add == bn.add
<1>7. t \in Int /\ K \in Nat /\ t >= -K
  <2>1. mul \in Int /\ v \in -L .. L /\ M = Most2(mul, -mul)
    BY <1>3
  <2> HIDE DEF mul, L, M
  <2> QED BY <1>6, <2>1, ScaleBounded
<1>8. unit \in Nat \ {0}
  <2> DEFINE s == bn.shift
  <2>1. s \in 0 .. MaxShift
    BY <1>3
  <2> HIDE DEF s
  <2>2. 2^s \in Nat \ {0}
    BY <2>1, PowerIs
  <2> QED BY <2>2 DEF s
<1>9. t \div unit \in Int /\ t \div unit >= -K
  <2> HIDE DEF t, K, unit
  <2> QED BY <1>7, <1>8, QuotientBounded
<1>10. y \in Int /\ start < y
  <2> DEFINE q == t \div unit
  <2>1. y = q + add /\ add \in Int /\ start < add - K /\ q \in Int /\ q >= -K
    BY <1>3, <1>9
  <2> HIDE DEF q, y, add, K, start
  <2> QED BY <1>5, <1>7, <2>1
<1>11. PICK k \in 1 .. Len(n.activation) : SegmentOf(n, y) = n.activation[k] /\ n.activation[k].start_x < y
  <2> HIDE DEF y
  <2> QED BY <1>10, SegmentIs
<1>12. seg = n.activation[k] /\ seg.start_x \in Int /\ seg.mul \in Int /\ seg.shift \in 0 .. MaxShift /\ seg.start_x < y
  <2>1. n.activation[k].start_x \in Int /\ n.activation[k].mul \in Int /\ n.activation[k].shift \in 0 .. MaxShift
    BY DEF KpuCompiled
  <2> HIDE DEF y
  <2> QED BY <1>11, <2>1
<1>13. (y - seg.start_x) * seg.mul \in Int
  <2> DEFINE d == y - seg.start_x
             m == seg.mul
  <2>1. d \in Int /\ m \in Int
    <3> DEFINE x == seg.start_x
    <3>1. x \in Int /\ x < y /\ m \in Int
      BY <1>12
    <3> HIDE DEF x, y, m
    <3> QED BY <1>10, <3>1 DEF x
  <2> HIDE DEF d, m
  <2>2. d * m \in Int
    BY <2>1
  <2> QED BY <2>2 DEF d, m
<1>14. CarryShiftBanker((y - seg.start_x) * seg.mul, seg.shift) = KpuRounded((y - seg.start_x) * seg.mul, 2^seg.shift)
  <2> DEFINE w == (y - seg.start_x) * seg.mul
             s == seg.shift
  <2>1. w \in Int /\ s \in 0 .. MaxShift
    BY <1>12, <1>13
  <2> HIDE DEF w, s
  <2>2. CarryShiftBanker(w, s) = KpuRounded(w, 2^s)
    BY <2>1, BankerRounds
  <2> QED BY <2>2 DEF w, s
<1>15. KpuActivated(n, oc, v) = Byte(CarryShiftBanker((y - seg.start_x) * seg.mul, seg.shift) + seg.add)
  BY DEF KpuActivated
<1>16. KpuResult(n, oc, v) = Byte(KpuRounded((y - seg.start_x) * seg.mul, 2^seg.shift) + seg.add)
  BY DEF KpuResult
<1> HIDE DEF y, seg
<1> QED
  BY <1>14, <1>15, <1>16

\* The KPU's convolution is that of the numbers its bytes stand for.
LEMMA KpuConvIs ==
  ASSUME NEW n, KpuCompiled(n)
  PROVE  kpu_conv2d(n) = [p \in 0 .. (compute_size(KpuShape(n)) - 1) |->
           KpuResult(n, Index(KpuShape(n), p)[2], fake_kpu_conv2d(InReals(n))[offset(KpuShape(n), Index(KpuShape(n), p))])]
<1> DEFINE s == KpuShape(n)
           L == Limit(n)
           fake == fake_kpu_conv2d(InReals(n))
           A(p) == KpuActivated(n, Index(s, p)[2], Workspace(n, Index(s, p)))
           B(p) == KpuResult(n, Index(s, p)[2], fake[offset(s, Index(s, p))])
<1>1. kpu_conv2d(n) = [p \in 0 .. compute_size(s) - 1 |-> A(p)]
  BY DEF kpu_conv2d, Tensor
<1>2. Shape(s) /\ s[1] = 1 /\ s[2] = n.out_channels /\ s[3] = n.in_shape[3] /\ s[4] = n.in_shape[4]
  BY DEF KpuShape, Shape, KpuCompiled, Shapes
<1>3. KpuShape(InReals(n)) = s
  BY DEF InReals, KpuShape
<1>4. ASSUME NEW p \in 0 .. compute_size(s) - 1 PROVE A(p) = B(p)
  <2> DEFINE i == Index(s, p)
             c == i[2]
             v == RealSum(n, i)
  <2>1. (\A k \in 1 .. 4 : i[k] \in 0 .. s[k] - 1) /\ offset(s, i) = p
    <3> HIDE DEF s
    <3> QED BY <1>2, OffsetOfIndex
  <2>2. AtKpu(n, i) /\ c \in 0 .. n.out_channels - 1
    <3> HIDE DEF s, i
    <3>1. i[1] \in 0 .. 0 /\ i[2] \in 0 .. n.out_channels - 1 /\ i[3] \in 0 .. n.in_shape[3] - 1 /\ i[4] \in 0 .. n.in_shape[4] - 1
      <4>1. i[1] \in 0 .. s[1] - 1 /\ i[2] \in 0 .. s[2] - 1 /\ i[3] \in 0 .. s[3] - 1 /\ i[4] \in 0 .. s[4] - 1
        BY <2>1
      <4> QED BY <1>2, <4>1
    <3>2. i[1] = 0
      BY <3>1
    <3> QED BY <3>1, <3>2 DEF AtKpu
  <2> HIDE DEF i
  <2>3. Workspace(n, i) = v /\ v \in -L .. L
    BY <2>2, WorkspaceIs
  <2>4. fake[p] = Activated(InReals(n).bias[i[2]] + FakeSum(InReals(n), i), InReals(n))
    <3>1. fake = [q \in 0 .. compute_size(s) - 1 |-> Activated(InReals(n).bias[Index(s, q)[2]] + FakeSum(InReals(n), Index(s, q)), InReals(n))]
      BY <1>3, FakeIs
    <3> DEFINE F(q) == Activated(InReals(n).bias[Index(s, q)[2]] + FakeSum(InReals(n), Index(s, q)), InReals(n))
    <3>2. fake = [q \in 0 .. compute_size(s) - 1 |-> F(q)]
      BY <3>1
    <3> HIDE DEF F, fake, s
    <3>3. fake[p] = F(p)
      BY <3>2
    <3> QED BY <3>3 DEF F, i
  <2>5. InReals(n).bias[c] = 0 /\ InReals(n).fused_activation[1] = -L /\ InReals(n).fused_activation[2] = L
    <3> HIDE DEF c
    <3> QED BY <2>2 DEF InReals
  <2>6. FakeSum(InReals(n), i) = v
    BY <2>2, FakeSumIs
  <2>7. L \in Int
    <3>1. -L .. L # {}
      BY <2>3
    <3> DEFINE C == KpuInputs(n)
               f == n.filter_h
               D == 255 * 255
    <3>2. C \in {1, n.in_shape[2]} /\ n.in_shape[2] \in Nat \ {0} /\ f \in {1, 3}
      BY DEF KpuInputs, KpuCompiled, Shapes
    <3>3. L = D * C * f * f /\ D \in Nat
      BY DEF Limit
    <3> HIDE DEF C, f, D, L
    <3>4. C \in Nat /\ f \in Nat
      BY <3>2
    <3>5. D * C \in Nat
      BY <3>3, <3>4
    <3> DEFINE DC == D * C
               DCf == DC * f
    <3> HIDE DEF DC
    <3>6. DCf \in Nat
      BY <3>4, <3>5 DEF DC
    <3> HIDE DEF DCf
    <3>7. DCf * f \in Nat
      BY <3>4, <3>6
    <3> QED BY <3>3, <3>7 DEF DCf, DC
  <2>8. fake[p] = v
    <3> DEFINE r == InReals(n)
    <3> HIDE DEF v, L, r, fake, c
    <3>1. 0 + v = v /\ Clamp(v, -L, L) = v
      BY <2>3, <2>7 DEF Clamp, Least2, Most2
    <3>2. r.bias[c] = 0 /\ r.fused_activation[1] = -L /\ r.fused_activation[2] = L /\ fake[p] = Activated(r.bias[c] + v, r)
      BY <2>4, <2>5, <2>6 DEF r, c
    <3> QED BY <3>1, <3>2 DEF Activated
  <2>9. KpuActivated(n, c, v) = KpuResult(n, c, v)
    <3> HIDE DEF v, c, L
    <3> QED BY <2>2, <2>3, ResultIs DEF L
  <2>10. A(p) = KpuActivated(n, c, v)
    BY <2>3 DEF i
  <2>11. B(p) = KpuResult(n, c, fake[p])
    BY <2>1 DEF i
  <2> HIDE DEF fake, A, B, v, c
  <2> QED BY <2>8, <2>9, <2>10, <2>11
<1> HIDE DEF A, B
<1>5. [p \in 0 .. compute_size(s) - 1 |-> A(p)] = [p \in 0 .. compute_size(s) - 1 |-> B(p)]
  BY <1>4
<1> QED
  BY <1>1, <1>5 DEF B

-----------------------------------------------------------------------------
\* The greatest of a start and the first elements.
MostOf(v, b, x, n) ==
  /\ v \in Int /\ b <= v
  /\ \A k \in 0 .. n - 1 : x[k] <= v
  /\ v = b \/ \E k \in 0 .. n - 1 : v = x[k]

\* A fold of max is the largest of its terms and of what it starts with.
LEMMA MostIs ==
  ASSUME NEW n \in Nat, NEW b \in Int, NEW x, \A k \in 0 .. n - 1 : x[k] \in Int
  PROVE  MostOf(Accumulate("max", b, x, n), b, x, n)
<1> DEFINE op == "max"
           A(k) == Accumulate(op, b, x, k)
           S == {k \in 0 .. n : MostOf(A(k), b, x, k)}
<1>1. Accumulates(op, b, x, n)
  <2>1. op \in Operators
    BY DEF Operators
  <2> HIDE DEF op
  <2> QED BY <2>1, AccumulateSteps
<1>2. A(0) = b /\ (\A k \in 0 .. n : A(k) \in Int) /\ \A k \in 1 .. n : A(k) = Most2(A(k - 1), x[k - 1])
  <2>1. \A u, v : Apply(op, u, v) = Most2(u, v)
    BY DEF Apply
  <2> QED BY <1>1, <2>1 DEF Accumulates
<1> HIDE DEF A
<1>3. 0 \in S
  BY <1>2 DEF MostOf
<1>4. ASSUME NEW k \in 1 .. n, k - 1 \in S PROVE k \in S
  <2>1. MostOf(A(k - 1), b, x, k - 1)
    BY <1>4
  <2>2. k \in Int /\ k - 1 \in 0 .. n - 1 /\ x[k - 1] \in Int /\ A(k) = Most2(A(k - 1), x[k - 1])
    BY <1>2
  <2>3. \A j \in 0 .. k - 1 : j = k - 1 \/ j \in 0 .. (k - 1) - 1
    BY <2>2
  <2>4. k - 1 \in 0 .. k - 1 /\ \A j \in 0 .. (k - 1) - 1 : j \in 0 .. k - 1
    BY <2>2
  <2> DEFINE u == A(k - 1)
             t == x[k - 1]
             v == A(k)
  <2>5. /\ u \in Int /\ b <= u /\ (\A j \in 0 .. (k - 1) - 1 : x[j] <= u)
        /\ (u = b \/ \E j \in 0 .. (k - 1) - 1 : u = x[j])
    BY <2>1 DEF MostOf
  <2>6. t \in Int /\ v = Most2(u, t)
    BY <2>2
  <2> HIDE DEF u, v
  <2>7. v \in Int /\ u <= v /\ t <= v /\ (v = u \/ v = t)
    BY <2>5, <2>6 DEF Most2
  <2>8. \A j \in 0 .. k - 1 : x[j] <= v
    <3> TAKE j \in 0 .. k - 1
    <3>1. CASE j = k - 1
      BY <2>7, <3>1
    <3>2. CASE j \in 0 .. (k - 1) - 1
      <4>1. j \in 0 .. n - 1
        BY <2>2, <3>2
      <4>2. x[j] \in Int /\ x[j] <= u
        BY <2>5, <3>2, <4>1
      <4> DEFINE xj == x[j]
      <4> HIDE DEF xj
      <4>3. xj <= v
        BY <2>5, <2>7, <4>2 DEF xj
      <4> QED BY <4>3 DEF xj
    <3> QED BY <2>3, <3>1, <3>2
  <2>9. v = b \/ \E j \in 0 .. k - 1 : v = x[j]
    BY <2>4, <2>5, <2>7
  <2>10. b <= v
    BY <2>5, <2>7
  <2> QED BY <2>7, <2>8, <2>9, <2>10 DEF MostOf, v
<1>5. \A k \in 0 .. n : k \in S
  <2> HIDE DEF S
  <2> QED BY <1>3, <1>4, UpTo
<1>6. n \in S
  BY <1>5
<1> QED
  BY <1>6 DEF A

\* The greatest of a start and all elements of the first rows.
MostOfRows(v, b, x, m, w) ==
  /\ v \in Int /\ b <= v
  /\ \A j \in 0 .. m - 1 : \A k \in 0 .. w - 1 : x[j][k] <= v
  /\ v = b \/ \E j \in 0 .. m - 1 : \E k \in 0 .. w - 1 : v = x[j][k]

\* So is a fold of max over rows.
LEMMA MostOfRowsIs ==
  ASSUME NEW m \in Nat, NEW w \in Nat, NEW b \in Int, NEW x, \A j \in 0 .. m - 1 : \A k \in 0 .. w - 1 : x[j][k] \in Int
  PROVE  MostOfRows(AccumulateRows("max", b, x, m, w), b, x, m, w)
<1> DEFINE op == "max"
           A(k) == AccumulateRows(op, b, x, k, w)
           S == {k \in 0 .. m : MostOfRows(A(k), b, x, k, w)}
<1>1. AccumulatesRows(op, b, x, m, w)
  <2>1. op \in Operators
    BY DEF Operators
  <2> HIDE DEF op
  <2> QED BY <2>1, AccumulateRowsSteps
<1>2. A(0) = b /\ (\A k \in 0 .. m : A(k) \in Int) /\ \A k \in 1 .. m : A(k) = Accumulate("max", A(k - 1), x[k - 1], w)
  BY <1>1 DEF AccumulatesRows
<1> HIDE DEF A
<1>3. 0 \in S
  BY <1>2 DEF MostOfRows
<1>4. ASSUME NEW k \in 1 .. m, k - 1 \in S PROVE k \in S
  <2> DEFINE u == A(k - 1)
             t == x[k - 1]
             v == A(k)
  <2>1. MostOfRows(u, b, x, k - 1, w)
    BY <1>4
  <2>2. k \in Int /\ k - 1 \in 0 .. m - 1 /\ k - 1 \in 0 .. m /\ v = Accumulate("max", u, t, w) /\ u \in Int
    BY <1>2
  <2>3. \A q \in 0 .. w - 1 : t[q] \in Int
    BY <2>2
  <2>4. MostOf(v, u, t, w)
    <3> HIDE DEF u, t, v
    <3> QED BY <2>2, <2>3, MostIs
  <2>5. \A j \in 0 .. k - 1 : j = k - 1 \/ j \in 0 .. (k - 1) - 1
    BY <2>2
  <2>6. k - 1 \in 0 .. k - 1 /\ \A j \in 0 .. (k - 1) - 1 : j \in 0 .. k - 1 /\ j \in 0 .. m - 1
    BY <2>2
  <2>7. /\ b <= u /\ (\A j \in 0 .. (k - 1) - 1 : \A q \in 0 .. w - 1 : x[j][q] <= u)
        /\ (u = b \/ \E j \in 0 .. (k - 1) - 1 : \E q \in 0 .. w - 1 : u = x[j][q])
    BY <2>1 DEF MostOfRows
  <2>8. v \in Int /\ u <= v /\ (\A q \in 0 .. w - 1 : t[q] <= v) /\ (v = u \/ \E q \in 0 .. w - 1 : v = t[q])
    BY <2>4 DEF MostOf
  <2> HIDE DEF u, v
  <2>9. \A j \in 0 .. k - 1 : \A q \in 0 .. w - 1 : x[j][q] <= v
    <3> TAKE j \in 0 .. k - 1
    <3> TAKE q \in 0 .. w - 1
    <3>1. CASE j = k - 1
      BY <2>8, <3>1
    <3>2. CASE j \in 0 .. (k - 1) - 1
      <4> DEFINE y == x[j][q]
      <4>1. y \in Int /\ y <= u
        BY <2>6, <2>7, <3>2
      <4> HIDE DEF y
      <4>2. y <= v
        BY <2>2, <2>8, <4>1
      <4> QED BY <4>2 DEF y
    <3> QED BY <2>5, <3>1, <3>2
  <2>10. v = b \/ \E j \in 0 .. k - 1 : \E q \in 0 .. w - 1 : v = x[j][q]
    <3>1. CASE v = u
      BY <2>6, <2>7, <3>1
    <3>2. CASE \E q \in 0 .. w - 1 : v = t[q]
      BY <2>6, <3>2
    <3> QED BY <2>8, <3>1, <3>2
  <2>11. b <= v
    BY <2>2, <2>7, <2>8
  <2> QED BY <2>8, <2>9, <2>10, <2>11 DEF MostOfRows, v
<1>5. \A k \in 0 .. m : k \in S
  <2> HIDE DEF S
  <2> QED BY <1>3, <1>4, UpTo
<1>6. m \in S
  BY <1>5
<1> QED
  BY <1>6 DEF A

\* z is the corner of x that has all of it but zeros.
RowsCorner(z, m, w, x, a, b) ==
  /\ m <= a /\ w <= b
  /\ \A j \in 0 .. a - 1 : \A k \in 0 .. b - 1 : x[j][k] \in Nat /\ (j >= m \/ k >= w => x[j][k] = 0)
  /\ \A j \in 0 .. m - 1 : \A k \in 0 .. w - 1 : z[j][k] = x[j][k]

\* The largest of a window is that of its corner when the rest holds no more.
LEMMA MostOfCorner ==
  ASSUME NEW m \in Nat, NEW w \in Nat, NEW a \in Nat, NEW b \in Nat, NEW x, NEW z, RowsCorner(z, m, w, x, a, b)
  PROVE  AccumulateRows("max", 0, x, a, b) = AccumulateRows("max", 0, z, m, w)
<1> DEFINE u == AccumulateRows("max", 0, x, a, b)
           v == AccumulateRows("max", 0, z, m, w)
<1>1. \A j \in 0 .. a - 1 : \A k \in 0 .. b - 1 : x[j][k] \in Int
  BY DEF RowsCorner
<1>2. (\A j \in 0 .. m - 1 : j \in 0 .. a - 1) /\ (\A k \in 0 .. w - 1 : k \in 0 .. b - 1)
  BY DEF RowsCorner
<1>3. \A j \in 0 .. m - 1 : \A k \in 0 .. w - 1 : z[j][k] \in Int
  BY <1>1, <1>2 DEF RowsCorner
<1>zero. 0 \in Int
  OBVIOUS
<1>4. MostOfRows(u, 0, x, a, b)
  BY <1>zero, <1>1, MostOfRowsIs
<1>5. MostOfRows(v, 0, z, m, w)
  BY <1>zero, <1>3, MostOfRowsIs
<1> HIDE DEF u, v
<1>6. u \in Int /\ v \in Int /\ 0 <= u /\ 0 <= v
  BY <1>4, <1>5 DEF MostOfRows
<1>7. u <= v
  <2>1. CASE u = 0
    BY <1>6, <2>1
  <2>2. CASE u # 0
    <3>1. PICK j \in 0 .. a - 1 : \E k \in 0 .. b - 1 : u = x[j][k]
      BY <1>4, <2>2 DEF MostOfRows
    <3>2. PICK k \in 0 .. b - 1 : u = x[j][k]
      BY <3>1
    <3>3. ~(j >= m) /\ ~(k >= w)
      BY <2>2, <3>2 DEF RowsCorner
    <3>4. j \in 0 .. m - 1 /\ k \in 0 .. w - 1
      BY <3>3
    <3>5. u = z[j][k]
      BY <3>2, <3>4 DEF RowsCorner
    <3> QED BY <1>5, <3>4, <3>5 DEF MostOfRows
  <2> QED BY <2>1, <2>2
<1>8. v <= u
  <2>1. CASE v = 0
    BY <1>6, <2>1
  <2>2. CASE v # 0
    <3>1. PICK j \in 0 .. m - 1 : \E k \in 0 .. w - 1 : v = z[j][k]
      BY <1>5, <2>2 DEF MostOfRows
    <3>2. PICK k \in 0 .. w - 1 : v = z[j][k]
      BY <3>1
    <3>3. j \in 0 .. a - 1 /\ k \in 0 .. b - 1 /\ v = x[j][k]
      BY <1>2, <3>2 DEF RowsCorner
    <3> QED BY <1>4, <3>3 DEF MostOfRows
  <2> QED BY <2>1, <2>2
<1> QED
  BY <1>6, <1>7, <1>8 DEF u, v

\* Bytes add up to no less than 0 and no more than as many 255.
LEMMA TotalIsNat ==
  ASSUME NEW n \in Nat, NEW B \in Nat, NEW x, \A k \in 0 .. n - 1 : x[k] \in 0 .. B
  PROVE  Total(x, n) \in 0 .. n * B
<1>1. Totals(x, n)
  BY TotalSteps
<1> DEFINE S == {k \in 0 .. n : 0 <= Total(x, k) /\ Total(x, k) <= k * B}
<1>2. 0 \in S
  BY <1>1 DEF Totals
<1>3. ASSUME NEW k \in 1 .. n, k - 1 \in S PROVE k \in S
  <2>1. k - 1 \in 0 .. n - 1 /\ k - 1 \in 0 .. n
    OBVIOUS
  <2>2. Total(x, k) = Total(x, k - 1) + x[k - 1] /\ Total(x, k - 1) \in Int /\ x[k - 1] \in 0 .. B
    BY <1>1, <2>1 DEF Totals
  <2>3. k * B = (k - 1) * B + B /\ (k - 1) * B \in Int
    OBVIOUS
  <2>4. 0 <= Total(x, k - 1) /\ Total(x, k - 1) <= (k - 1) * B
    BY <1>3
  <2> DEFINE kB == (k - 1) * B
  <2> HIDE DEF kB
  <2>5. 0 <= Total(x, k) /\ Total(x, k) <= kB + B
    BY <2>2, <2>3, <2>4 DEF kB
  <2>6. 0 <= Total(x, k) /\ Total(x, k) <= k * B
    BY <2>3, <2>5 DEF kB
  <2> QED BY <2>6
<1>4. \A k \in 0 .. n : k \in S
  <2> HIDE DEF S
  <2> QED BY <1>2, <1>3, UpTo
<1>5. 0 <= Total(x, n) /\ Total(x, n) <= n * B
  BY <1>4
<1>6. Total(x, n) \in Int /\ n * B \in Int
  BY <1>1 DEF Totals
<1> QED
  BY <1>5, <1>6

-----------------------------------------------------------------------------
\* A pooling as the maximum or mean of its taps.
PoolIn(n, c, y, x) ==
  IF y < n.in_shape[3] /\ x < n.in_shape[4] THEN n.input[offset(n.in_shape, <<0, c, y, x>>)]
  ELSE IF n.type[1] = "mean" THEN n.input[offset(n.in_shape, <<0, c, Least2(y, n.in_shape[3] - 1), Least2(x, n.in_shape[4] - 1)>>)]
  ELSE 0
PoolSide(n) == 0 .. (n.type[2] - 1)
PoolTaps(n, i) ==
  [r \in 0 .. (Cardinality(PoolSide(n)) - 1) |-> [c \in 0 .. (Cardinality(PoolSide(n)) - 1) |->
     PoolIn(n, i[2], i[3] * n.type[3] + (First(PoolSide(n)) + r), i[4] * n.type[3] + (First(PoolSide(n)) + c))]]
PoolOf(n, op, i) == AccumulateRows(op, 0, PoolTaps(n, i), Cardinality(PoolSide(n)), Cardinality(PoolSide(n)))
PoolValue(n, i) ==
  CASE n.type[1] = "max" -> PoolOf(n, "max", i)
    [] n.type[1] = "mean" -> PoolOf(n, "add", i) \div (n.type[2] * n.type[2])
    [] OTHER -> PoolIn(n, i[2], i[3] * n.type[3] + get_kpu_select_pool_offset(n.type)[1],
                               i[4] * n.type[3] + get_kpu_select_pool_offset(n.type)[2])

\* kpu_pool2d, element by element.
LEMMA PoolIs ==
  ASSUME NEW n
  PROVE  kpu_pool2d(n) = [p \in 0 .. (compute_size(PoolShape(n)) - 1) |-> PoolValue(n, Index(PoolShape(n), p))]
  BY DEF kpu_pool2d, Pooled, Tensor, OverTaps, PoolValue, PoolOf, PoolTaps, PoolSide, PoolIn,
     get_kpu_filter_size, get_kpu_filter_stride

\* A window reduction as the value of its taps.
WindowTaps(n, i) ==
  [r \in 0 .. (Cardinality(TapsY(n, n.in_shape[3], i[3])) - 1) |->
     [c \in 0 .. (Cardinality(TapsX(n, n.in_shape[4], i[4])) - 1) |->
        n.input[offset(n.in_shape, <<i[1], i[2], AtY(n, i[3], First(TapsY(n, n.in_shape[3], i[3])) + r),
                                     AtX(n, i[4], First(TapsX(n, n.in_shape[4], i[4])) + c)>>)]]]
WindowSum(n, i) ==
  AccumulateRows(n.reduce_op, n.init_value, WindowTaps(n, i),
                 Cardinality(TapsY(n, n.in_shape[3], i[3])), Cardinality(TapsX(n, n.in_shape[4], i[4])))
WindowValue(n, i) ==
  Reduced(WindowSum(n, i), Cardinality(TapsY(n, n.in_shape[3], i[3])) * Cardinality(TapsX(n, n.in_shape[4], i[4])), n)
\* As a byte, without the fraction of a mean.
WindowByte(n, i) == IF n.mean THEN Floor(WindowValue(n, i)) ELSE WindowValue(n, i)

\* reduce_window2d, element by element.
LEMMA WindowIs ==
  ASSUME NEW n
  PROVE  reduce_window2d(n) = [p \in 0 .. (compute_size(WindowShape(n)) - 1) |-> WindowValue(n, Index(WindowShape(n), p))]
  BY DEF reduce_window2d, Tensor, OverTaps, WindowValue, WindowSum, WindowTaps

\* The window reduction that a pooling is.
PoolNode(n) ==
  [ in_shape |-> n.in_shape, input |-> n.input,
    filter_h |-> get_kpu_filter_size(n.type), filter_w |-> get_kpu_filter_size(n.type), dilation_h |-> 1, dilation_w |-> 1,
    stride_h |-> get_kpu_filter_stride(n.type), stride_w |-> get_kpu_filter_stride(n.type),
    padding_h |-> get_kpu_padding(n.type), padding_w |-> get_kpu_padding(n.type),
    mean |-> n.type[1] = "mean", reduce_op |-> IF n.type[1] = "mean" THEN "add" ELSE "max",
    init_value |-> 0, fused_activation |-> <<0, 255>> ]

\* The sides and strides of maximum and mean.
LEMMA PoolSides ==
  ASSUME NEW n, n.type \in PoolTypes, n.type[1] \in {"max", "mean"}
  PROVE  \/ n.type[2] = 2 /\ n.type[3] = 2 /\ get_kpu_padding(n.type).after = 0
         \/ n.type[2] = 2 /\ n.type[3] = 1 /\ get_kpu_padding(n.type).after = 1
         \/ n.type[2] = 4 /\ n.type[3] = 4 /\ get_kpu_padding(n.type).after = 0
<1>1. \/ n.type = <<"max", 2, 2>> \/ n.type = <<"max", 2, 1>> \/ n.type = <<"max", 4, 4>>
      \/ n.type = <<"mean", 2, 2>> \/ n.type = <<"mean", 2, 1>> \/ n.type = <<"mean", 4, 4>>
  BY DEF PoolTypes
<1>2. \/ n.type[2] = 2 /\ n.type[3] = 2
      \/ n.type[2] = 2 /\ n.type[3] = 1
      \/ n.type[2] = 4 /\ n.type[3] = 4
  BY <1>1
<1> QED
  BY <1>2 DEF get_kpu_padding

\* What a dividing of an extent by the stride and by windows gives.
LEMMA PoolShapeIs ==
  ASSUME NEW n, KpuPools(n), n.type[1] \in {"max", "mean"}
  PROVE  /\ WindowShape(PoolNode(n)) = PoolShape(n)
         /\ Shape(PoolShape(n))
         /\ PoolShape(n)[1] = 1 /\ PoolShape(n)[2] = n.in_shape[2]
         /\ \A k \in 3 .. 4 : \A y \in 0 .. PoolShape(n)[k] - 1 :
              y * n.type[3] \in Nat /\ y * n.type[3] < n.in_shape[k]
<1> DEFINE f == n.type[2]
           s == n.type[3]
           after == get_kpu_padding(n.type).after
           r == PoolNode(n)
<1>1. (f = 2 /\ s = 2 /\ after = 0) \/ (f = 2 /\ s = 1 /\ after = 1) \/ (f = 4 /\ s = 4 /\ after = 0)
  BY PoolSides DEF KpuPools
<1>2. /\ r.in_shape = n.in_shape /\ r.filter_h = f /\ r.filter_w = f /\ r.stride_h = s /\ r.stride_w = s
      /\ r.dilation_h = 1 /\ r.dilation_w = 1 /\ r.padding_h.before = 0 /\ r.padding_w.before = 0
      /\ r.padding_h.after = after /\ r.padding_w.after = after
  BY DEF PoolNode, get_kpu_filter_size, get_kpu_filter_stride, get_kpu_padding
<1>3. ASSUME NEW h \in Nat, h >= s
      PROVE  /\ CDiv(h + 0 + after - ((f - 1) * 1 + 1) + s, s) = h \div s
             /\ h \div s \in Nat \ {0}
             /\ \A y \in 0 .. (h \div s) - 1 : y * s \in Nat /\ y * s < h
  <2> HIDE DEF f, s, after
  <2>1. CASE f = 2 /\ s = 2 /\ after = 0
    BY <1>3, <2>1 DEF CDiv
  <2>2. CASE f = 2 /\ s = 1 /\ after = 1
    BY <1>3, <2>2 DEF CDiv
  <2>3. CASE f = 4 /\ s = 4 /\ after = 0
    BY <1>3, <2>3 DEF CDiv
  <2> QED BY <1>1, <2>1, <2>2, <2>3
<1>4. n.in_shape \in Shapes /\ n.in_shape[1] = 1 /\ n.in_shape[3] >= s /\ n.in_shape[4] >= s
  <2>1. \A k \in 3 .. 4 : n.in_shape[k] >= n.type[3]
    BY DEF KpuPools
  <2> QED BY <2>1 DEF KpuPools
<1>5. /\ PoolShape(n) = <<1, n.in_shape[2], n.in_shape[3] \div s, n.in_shape[4] \div s>>
  BY DEF PoolShape, get_kpu_pool_output_size, get_kpu_filter_stride
<1>6. n.in_shape[2] \in Nat \ {0} /\ n.in_shape[3] \in Nat /\ n.in_shape[4] \in Nat
  BY <1>4 DEF Shapes
<1>7. OutH(r, n.in_shape[3]) = n.in_shape[3] \div s /\ OutW(r, n.in_shape[4]) = n.in_shape[4] \div s
  <2> HIDE DEF r, f, s, after
  <2>1. /\ OutH(r, n.in_shape[3]) = CDiv(n.in_shape[3] + 0 + after - ((f - 1) * 1 + 1) + s, s)
        /\ OutW(r, n.in_shape[4]) = CDiv(n.in_shape[4] + 0 + after - ((f - 1) * 1 + 1) + s, s)
    BY <1>2 DEF OutH, OutW, get_windowed_output_size
  <2> QED BY <1>3, <1>4, <1>6, <2>1
<1>8. WindowShape(r) = PoolShape(n)
  <2> HIDE DEF r, s
  <2> QED BY <1>2, <1>4, <1>5, <1>7 DEF WindowShape
<1> HIDE DEF r, s
<1>9. Shape(PoolShape(n)) /\ PoolShape(n)[1] = 1 /\ PoolShape(n)[2] = n.in_shape[2]
  <2>1. n.in_shape[3] \div s \in Nat \ {0} /\ n.in_shape[4] \div s \in Nat \ {0}
    BY <1>3, <1>4, <1>6
  <2> QED BY <1>5, <1>6, <2>1 DEF Shape
<1>10. ASSUME NEW k \in 3 .. 4, NEW y \in 0 .. PoolShape(n)[k] - 1
       PROVE  y * n.type[3] \in Nat /\ y * n.type[3] < n.in_shape[k]
  <2>1. PoolShape(n)[k] = n.in_shape[k] \div s /\ n.in_shape[k] \in Nat /\ n.in_shape[k] >= s
    BY <1>4, <1>5, <1>6
  <2>2. y * s \in Nat /\ y * s < n.in_shape[k]
    BY <1>3, <2>1
  <2> QED BY <2>2 DEF s
<1> QED
  BY <1>8, <1>9, <1>10 DEF r

\* The first number and the size of an interval.
LEMMA IntervalIs ==
  ASSUME NEW m \in Nat \ {0}
  PROVE  First(0 .. m - 1) = 0 /\ Cardinality(0 .. m - 1) = m
<1>1. 0 \in 0 .. m - 1 /\ \A j \in 0 .. m - 1 : 0 <= j
  OBVIOUS
<1>2. ASSUME NEW k \in 0 .. m - 1, \A j \in 0 .. m - 1 : k <= j PROVE k = 0
  BY <1>1, <1>2
<1>3. First(0 .. m - 1) = 0
  BY <1>1, <1>2 DEF First
<1>4. Cardinality(0 .. m - 1) = IF 0 > m - 1 THEN 0 ELSE m - 1 - 0 + 1
  BY FS_Interval
<1> QED
  BY <1>3, <1>4

\* The taps of a window without padding before it.
LEMMA TapsAre ==
  ASSUME NEW f \in Nat \ {0}, NEW y \in Nat, NEW h \in Nat, y < h
  PROVE  Taps(h, f, y, 1) = 0 .. Least2(f, h - y) - 1 /\ Least2(f, h - y) \in Nat \ {0}
<1>1. CDiv(-y + 1 - 1, 1) = -y
  BY DEF CDiv
<1>2. CDiv(h - y + 1 - 1, 1) = h - y
  BY DEF CDiv
<1>3. Most2(0, -y) = 0
  BY DEF Most2
<1>4. Taps(h, f, y, 1) = 0 .. Least2(f, h - y) - 1
  BY <1>1, <1>2, <1>3 DEF Taps
<1> QED
  BY <1>4 DEF Least2

-----------------------------------------------------------------------------
\* A byte of the image that a pooling reads.
PoolAt(n, c, y, x) == n.input[offset(n.in_shape, <<0, c, y, x>>)]

\* A pool reads bytes.
LEMMA PoolReads ==
  ASSUME NEW n, KpuPools(n), NEW c \in 0 .. n.in_shape[2] - 1, NEW y \in 0 .. n.in_shape[3] - 1, NEW x \in 0 .. n.in_shape[4] - 1
  PROVE  PoolAt(n, c, y, x) \in 0 .. 255
<1> DEFINE s == n.in_shape
           at == <<0, c, y, x>>
           o == offset(s, at)
           bytes == n.input
<1>1. Shape(s) /\ s[1] = 1
  BY DEF KpuPools, Shapes, Shape
<1>2. \A k \in 1 .. 4 : at[k] \in 0 .. s[k] - 1
  BY <1>1
<1>3. o \in 0 .. compute_size(s) - 1
  <2> HIDE DEF s, at
  <2> QED BY <1>1, <1>2, IndexOfOffset
<1>4. bytes \in [0 .. compute_size(s) - 1 -> 0 .. 255]
  BY DEF KpuPools
<1>5. PoolAt(n, c, y, x) = bytes[o]
  BY DEF PoolAt
<1> HIDE DEF o, bytes, s
<1> QED
  BY <1>3, <1>4, <1>5, ZenonT(30)

\* Where a window of a pooling lies: its first row and column, and how much of it is on the image.
PoolY(n, i) == i[3] * n.type[3]
PoolX(n, i) == i[4] * n.type[3]
OnRows(n, i) == Least2(n.type[2], n.in_shape[3] - PoolY(n, i))
OnCols(n, i) == Least2(n.type[2], n.in_shape[4] - PoolX(n, i))
AtPool(n, i) ==
  /\ i[1] = 0 /\ i[2] \in 0 .. n.in_shape[2] - 1
  /\ PoolY(n, i) \in 0 .. n.in_shape[3] - 1 /\ PoolX(n, i) \in 0 .. n.in_shape[4] - 1

\* The window reduce_window2d clips is the one kpu_pool2d reads.
LEMMA PoolWindow ==
  ASSUME NEW n, KpuPools(n), n.type[1] \in {"max", "mean"}, NEW i, AtPool(n, i)
  PROVE  /\ n.type[2] \in {2, 4} /\ n.in_shape[3] \in Nat /\ n.in_shape[4] \in Nat
         /\ OnRows(n, i) \in Nat \ {0} /\ OnCols(n, i) \in Nat \ {0}
         /\ TapsY(PoolNode(n), n.in_shape[3], i[3]) = 0 .. OnRows(n, i) - 1
         /\ TapsX(PoolNode(n), n.in_shape[4], i[4]) = 0 .. OnCols(n, i) - 1
         /\ OriginY(PoolNode(n), i[3]) = PoolY(n, i) /\ OriginX(PoolNode(n), i[4]) = PoolX(n, i)
         /\ PoolNode(n).dilation_h = 1 /\ PoolNode(n).dilation_w = 1
<1> DEFINE f == n.type[2]
           r == PoolNode(n)
           h == n.in_shape[3]
           w == n.in_shape[4]
           y == PoolY(n, i)
           x == PoolX(n, i)
<1>1. f \in {2, 4}
  BY PoolSides DEF KpuPools
<1>2. /\ r.filter_h = f /\ r.filter_w = f /\ r.stride_h = n.type[3] /\ r.stride_w = n.type[3]
      /\ r.dilation_h = 1 /\ r.dilation_w = 1 /\ r.padding_h.before = 0 /\ r.padding_w.before = 0
  BY DEF PoolNode, get_kpu_filter_size, get_kpu_filter_stride, get_kpu_padding
<1>3. h \in Nat /\ w \in Nat
  BY DEF KpuPools, Shapes
<1>4. y \in 0 .. h - 1 /\ x \in 0 .. w - 1
  BY DEF AtPool
<1>5. OriginY(r, i[3]) = y - 0 /\ OriginX(r, i[4]) = x - 0
  BY <1>2 DEF OriginY, OriginX, PoolY, PoolX
<1>6. y - 0 = y /\ x - 0 = x
  <2> HIDE DEF y, x
  <2> QED BY <1>3, <1>4
<1>7. TapsY(r, h, i[3]) = Taps(h, f, y, 1) /\ TapsX(r, w, i[4]) = Taps(w, f, x, 1)
  BY <1>2, <1>5, <1>6 DEF TapsY, TapsX
<1>8. f \in Nat \ {0} /\ y \in Nat /\ y < h /\ x \in Nat /\ x < w
  <2> HIDE DEF y, x, f
  <2> QED BY <1>1, <1>3, <1>4
<1>9. /\ Taps(h, f, y, 1) = 0 .. Least2(f, h - y) - 1 /\ Least2(f, h - y) \in Nat \ {0}
      /\ Taps(w, f, x, 1) = 0 .. Least2(f, w - x) - 1 /\ Least2(f, w - x) \in Nat \ {0}
  <2> HIDE DEF y, x, f, h, w
  <2> QED BY <1>3, <1>8, TapsAre
<1> QED
  BY <1>1, <1>2, <1>3, <1>5, <1>6, <1>7, <1>9 DEF OnRows, OnCols

\* The taps of the pooling and of the window, one by one.
LEMMA PoolTapsAre ==
  ASSUME NEW n, KpuPools(n), n.type[1] \in {"max", "mean"}, NEW i, AtPool(n, i)
  PROVE  /\ PoolTaps(n, i) = [j \in 0 .. n.type[2] - 1 |-> [k \in 0 .. n.type[2] - 1 |->
                                PoolIn(n, i[2], PoolY(n, i) + j, PoolX(n, i) + k)]]
         /\ WindowTaps(PoolNode(n), i) = [j \in 0 .. OnRows(n, i) - 1 |-> [k \in 0 .. OnCols(n, i) - 1 |->
                                PoolAt(n, i[2], PoolY(n, i) + j, PoolX(n, i) + k)]]
<1> DEFINE f == n.type[2]
           r == PoolNode(n)
           h == OnRows(n, i)
           w == OnCols(n, i)
           y == PoolY(n, i)
           x == PoolX(n, i)
<1>1. /\ f \in Nat \ {0} /\ h \in Nat \ {0} /\ w \in Nat \ {0} /\ y \in Int /\ x \in Int
      /\ TapsY(r, n.in_shape[3], i[3]) = 0 .. h - 1 /\ TapsX(r, n.in_shape[4], i[4]) = 0 .. w - 1
      /\ OriginY(r, i[3]) = y /\ OriginX(r, i[4]) = x /\ r.dilation_h = 1 /\ r.dilation_w = 1
  <2>1. f \in {2, 4} /\ y \in 0 .. n.in_shape[3] - 1 /\ x \in 0 .. n.in_shape[4] - 1
    BY PoolWindow DEF AtPool
  <2>2. /\ h \in Nat \ {0} /\ w \in Nat \ {0}
        /\ TapsY(r, n.in_shape[3], i[3]) = 0 .. h - 1 /\ TapsX(r, n.in_shape[4], i[4]) = 0 .. w - 1
        /\ OriginY(r, i[3]) = y /\ OriginX(r, i[4]) = x /\ r.dilation_h = 1 /\ r.dilation_w = 1
    BY PoolWindow
  <2> HIDE DEF f, y, x
  <2>3. f \in Nat \ {0} /\ y \in Int /\ x \in Int
    BY <2>1
  <2> QED BY <2>2, <2>3
<1>2. r.in_shape = n.in_shape /\ r.input = n.input
  BY DEF PoolNode
<1>3. PoolTaps(n, i) = [j \in 0 .. f - 1 |-> [k \in 0 .. f - 1 |-> PoolIn(n, i[2], y + j, x + k)]]
  <2>1. Cardinality(PoolSide(n)) = f /\ First(PoolSide(n)) = 0
    <3>1. PoolSide(n) = 0 .. f - 1
      BY DEF PoolSide
    <3> HIDE DEF f
    <3> QED BY <1>1, <3>1, IntervalIs
  <2> DEFINE A(j, k) == PoolIn(n, i[2], y + (0 + j), x + (0 + k))
             B(j, k) == PoolIn(n, i[2], y + j, x + k)
  <2>2. PoolTaps(n, i) = [j \in 0 .. f - 1 |-> [k \in 0 .. f - 1 |-> A(j, k)]]
    BY <2>1 DEF PoolTaps, PoolY, PoolX
  <2>3. \A j \in 0 .. f - 1 : \A k \in 0 .. f - 1 : A(j, k) = B(j, k)
    OBVIOUS
  <2> HIDE DEF A, B
  <2>4. [j \in 0 .. f - 1 |-> [k \in 0 .. f - 1 |-> A(j, k)]] = [j \in 0 .. f - 1 |-> [k \in 0 .. f - 1 |-> B(j, k)]]
    BY <2>3
  <2> QED BY <2>2, <2>4 DEF B
<1>4. WindowTaps(r, i) = [j \in 0 .. h - 1 |-> [k \in 0 .. w - 1 |-> PoolAt(n, i[2], y + j, x + k)]]
  <2>1. /\ Cardinality(TapsY(r, n.in_shape[3], i[3])) = h /\ First(TapsY(r, n.in_shape[3], i[3])) = 0
        /\ Cardinality(TapsX(r, n.in_shape[4], i[4])) = w /\ First(TapsX(r, n.in_shape[4], i[4])) = 0
    <3> HIDE DEF h, w
    <3> QED BY <1>1, IntervalIs
  <2> DEFINE A(j, k) == n.input[offset(n.in_shape, <<i[1], i[2], AtY(r, i[3], 0 + j), AtX(r, i[4], 0 + k)>>)]
             B(j, k) == PoolAt(n, i[2], y + j, x + k)
  <2>2. WindowTaps(r, i) = [j \in 0 .. h - 1 |-> [k \in 0 .. w - 1 |-> A(j, k)]]
    <3> HIDE DEF r, h, w
    <3> QED BY <1>2, <2>1 DEF WindowTaps
  <2>3. ASSUME NEW j \in 0 .. h - 1, NEW k \in 0 .. w - 1 PROVE A(j, k) = B(j, k)
    <3> HIDE DEF h, w, y, x, r
    <3>1. AtY(r, i[3], 0 + j) = y + 1 * (0 + j) /\ AtX(r, i[4], 0 + k) = x + 1 * (0 + k)
      BY <1>1 DEF AtY, AtX
    <3>2. y + 1 * (0 + j) = y + j /\ x + 1 * (0 + k) = x + k
      BY <1>1
    <3>3. i[1] = 0
      BY DEF AtPool
    <3> QED BY <3>1, <3>2, <3>3 DEF PoolAt
  <2> HIDE DEF A, B, h, w
  <2>4. [j \in 0 .. h - 1 |-> [k \in 0 .. w - 1 |-> A(j, k)]] = [j \in 0 .. h - 1 |-> [k \in 0 .. w - 1 |-> B(j, k)]]
    BY <2>3
  <2> QED BY <2>2, <2>4 DEF B
<1> QED
  BY <1>3, <1>4

\* A pooling by maximum is the reduction by maximum; one by mean is that by mean away from the border.
LEMMA PoolValueIs ==
  ASSUME NEW n, KpuPools(n), n.type[1] \in {"max", "mean"}, NEW i, AtPool(n, i),
         \/ n.type[1] = "max"
         \/ PoolY(n, i) + n.type[2] <= n.in_shape[3] /\ PoolX(n, i) + n.type[2] <= n.in_shape[4]
  PROVE  PoolValue(n, i) = WindowByte(PoolNode(n), i)
<1> DEFINE f == n.type[2]
           r == PoolNode(n)
           h == OnRows(n, i)
           w == OnCols(n, i)
           y == PoolY(n, i)
           x == PoolX(n, i)
           H == n.in_shape[3]
           W == n.in_shape[4]
           X == PoolTaps(n, i)
           Z == WindowTaps(r, i)
           c == i[2]
<1>1. /\ f \in {2, 4} /\ H \in Nat /\ W \in Nat /\ h \in Nat \ {0} /\ w \in Nat \ {0}
      /\ TapsY(r, n.in_shape[3], i[3]) = 0 .. h - 1 /\ TapsX(r, n.in_shape[4], i[4]) = 0 .. w - 1
  BY PoolWindow
<1>2. y \in 0 .. H - 1 /\ x \in 0 .. W - 1 /\ c \in 0 .. n.in_shape[2] - 1 /\ h = Least2(f, H - y) /\ w = Least2(f, W - x)
  BY DEF AtPool, OnRows, OnCols
<1>3. /\ X = [j \in 0 .. f - 1 |-> [k \in 0 .. f - 1 |-> PoolIn(n, c, y + j, x + k)]]
      /\ Z = [j \in 0 .. h - 1 |-> [k \in 0 .. w - 1 |-> PoolAt(n, c, y + j, x + k)]]
  BY PoolTapsAre
<1>4. /\ r.in_shape = n.in_shape /\ r.init_value = 0 /\ r.mean = (n.type[1] = "mean")
      /\ r.reduce_op = (IF n.type[1] = "mean" THEN "add" ELSE "max")
      /\ r.fused_activation[1] = 0 /\ r.fused_activation[2] = 255
  BY DEF PoolNode
<1>5. Cardinality(PoolSide(n)) = f
  <2>1. PoolSide(n) = 0 .. f - 1 /\ f \in Nat \ {0}
    BY <1>1 DEF PoolSide
  <2> HIDE DEF f
  <2> QED BY <2>1, IntervalIs
<1>6. Cardinality(TapsY(r, n.in_shape[3], i[3])) = h /\ Cardinality(TapsX(r, n.in_shape[4], i[4])) = w
  <2> HIDE DEF h, w
  <2> QED BY <1>1, IntervalIs
<1>7. WindowSum(r, i) = AccumulateRows(r.reduce_op, 0, Z, h, w)
  <2> HIDE DEF r, h, w
  <2> QED BY <1>4, <1>6 DEF WindowSum, Z
<1> HIDE DEF f, r, h, w, y, x, H, W, X, Z, c
<1>8. h <= f /\ w <= f /\ f \in Nat /\ y + h <= H /\ x + w <= W
  BY <1>1, <1>2 DEF Least2
<1>12. y \in Nat /\ x \in Nat /\ h \in Nat /\ w \in Nat /\ H \in Nat /\ W \in Nat
  BY <1>1, <1>2
<1>9. ASSUME NEW j \in 0 .. f - 1, NEW k \in 0 .. f - 1, j < h, k < w
      PROVE  /\ X[j][k] = PoolAt(n, c, y + j, x + k) /\ Z[j][k] = PoolAt(n, c, y + j, x + k)
             /\ X[j][k] \in 0 .. 255
  <2>1. y + j \in 0 .. H - 1 /\ x + k \in 0 .. W - 1 /\ y + j < H /\ x + k < W
    BY <1>8, <1>9, <1>12
  <2>2. j \in 0 .. h - 1 /\ k \in 0 .. w - 1
    BY <1>1, <1>9
  <2>3. X[j][k] = PoolIn(n, c, y + j, x + k) /\ Z[j][k] = PoolAt(n, c, y + j, x + k)
    BY <1>3, <2>2
  <2> DEFINE u == y + j
             v == x + k
  <2> HIDE DEF u, v
  <2>4. u \in 0 .. H - 1 /\ v \in 0 .. W - 1 /\ u < H /\ v < W
    BY <2>1 DEF u, v
  <2>5. PoolIn(n, c, u, v) = PoolAt(n, c, u, v)
    BY <2>4 DEF PoolIn, PoolAt, H, W
  <2>6. PoolAt(n, c, u, v) \in 0 .. 255
    BY <1>2, <2>4, PoolReads DEF H, W
  <2> QED BY <2>3, <2>5, <2>6 DEF u, v
<1>10. CASE n.type[1] = "max"
  <2>1. ASSUME NEW j \in 0 .. f - 1, NEW k \in 0 .. f - 1, j >= h \/ k >= w
        PROVE  X[j][k] = 0
    <3>1. X[j][k] = PoolIn(n, c, y + j, x + k)
      BY <1>3
    <3>2. ~(y + j < H /\ x + k < W)
      BY <1>1, <1>2, <1>8, <2>1 DEF Least2
    <3> DEFINE u == y + j
               v == x + k
    <3> HIDE DEF u, v
    <3>3. ~(u < H /\ v < W)
      BY <3>2 DEF u, v
    <3>4. n.type[1] # "mean"
      BY <1>10
    <3>5. PoolIn(n, c, u, v) = 0
      BY <3>3, <3>4 DEF PoolIn, H, W
    <3> QED BY <3>1, <3>5 DEF u, v
  <2>2. RowsCorner(Z, h, w, X, f, f)
    <3>1. ASSUME NEW j \in 0 .. f - 1, NEW k \in 0 .. f - 1
          PROVE  X[j][k] \in Nat /\ (j >= h \/ k >= w => X[j][k] = 0)
      <4>1. CASE j >= h \/ k >= w
        BY <2>1, <4>1
      <4>2. CASE ~(j >= h \/ k >= w)
        <5>1. j < h /\ k < w
          BY <1>1, <4>2
        <5>2. X[j][k] \in 0 .. 255
          BY <1>9, <5>1
        <5> QED BY <4>2, <5>2
      <4> QED BY <4>1, <4>2
    <3>2. ASSUME NEW j \in 0 .. h - 1, NEW k \in 0 .. w - 1 PROVE Z[j][k] = X[j][k]
      <4>1. j \in 0 .. f - 1 /\ k \in 0 .. f - 1 /\ j < h /\ k < w
        BY <1>1, <1>8
      <4> QED BY <1>9, <4>1
    <3> QED BY <1>8, <3>1, <3>2 DEF RowsCorner
  <2> DEFINE v == AccumulateRows("max", 0, Z, h, w)
  <2>3. AccumulateRows("max", 0, X, f, f) = v
    BY <1>1, <1>8, <2>2, MostOfCorner
  <2>4. \A j \in 0 .. h - 1 : \A k \in 0 .. w - 1 : Z[j][k] \in 0 .. 255
    <3> TAKE j \in 0 .. h - 1
    <3> TAKE k \in 0 .. w - 1
    <3>1. j \in 0 .. f - 1 /\ k \in 0 .. f - 1 /\ j < h /\ k < w
      BY <1>1, <1>8
    <3> QED BY <1>9, <3>1
  <2>5. MostOfRows(v, 0, Z, h, w)
    <3>1. \A j \in 0 .. h - 1 : \A k \in 0 .. w - 1 : Z[j][k] \in Int
      <4> TAKE j \in 0 .. h - 1
      <4> TAKE k \in 0 .. w - 1
      <4> DEFINE e == Z[j][k]
      <4>1. e \in 0 .. 255
        BY <2>4
      <4> HIDE DEF e
      <4>2. e \in Int
        BY <4>1
      <4> QED BY <4>2 DEF e
    <3> QED BY <1>1, <3>1, MostOfRowsIs
  <2> HIDE DEF v
  <2>6. v \in 0 .. 255
    BY <2>4, <2>5 DEF MostOfRows
  <2>7. WindowSum(r, i) = v /\ ~r.mean
    BY <1>4, <1>7, <1>10 DEF v
  <2>8. WindowByte(r, i) = Clamp(v, 0, 255)
    BY <1>4, <2>7 DEF WindowByte, WindowValue, Reduced, Activated
  <2>9. Clamp(v, 0, 255) = v
    BY <2>6 DEF Clamp, Least2, Most2
  <2>10. PoolValue(n, i) = PoolOf(n, "max", i)
    BY <1>10 DEF PoolValue
  <2>11. PoolOf(n, "max", i) = AccumulateRows("max", 0, X, f, f)
    BY <1>5 DEF PoolOf, X
  <2> QED BY <2>3, <2>8, <2>9, <2>10, <2>11 DEF r
<1>11. CASE n.type[1] # "max"
  <2>1. n.type[1] = "mean" /\ y + f <= H /\ x + f <= W
    BY <1>11 DEF y, x, f, H, W
  <2>2. h = f /\ w = f
    BY <1>1, <1>2, <2>1 DEF Least2
  <2>3. ASSUME NEW j \in 0 .. f - 1, NEW k \in 0 .. f - 1 PROVE X[j][k] = Z[j][k] /\ X[j][k] \in 0 .. 255
    <3>1. j < h /\ k < w
      BY <1>8, <2>2
    <3> QED BY <1>9, <3>1
  <2>4. X = Z
    <3> DEFINE A(j, k) == PoolIn(n, c, y + j, x + k)
               B(j, k) == PoolAt(n, c, y + j, x + k)
    <3>1. \A j \in 0 .. f - 1 : \A k \in 0 .. f - 1 : A(j, k) = B(j, k)
      <4> TAKE j \in 0 .. f - 1
      <4> TAKE k \in 0 .. f - 1
      <4>1. X[j][k] = A(j, k)
        BY <1>3
      <4>2. Z[j][k] = B(j, k)
        BY <1>3, <2>2
      <4> HIDE DEF A, B
      <4> QED BY <2>3, <4>1, <4>2
    <3> HIDE DEF A, B
    <3>2. [j \in 0 .. f - 1 |-> [k \in 0 .. f - 1 |-> A(j, k)]] = [j \in 0 .. f - 1 |-> [k \in 0 .. f - 1 |-> B(j, k)]]
      BY <3>1
    <3> QED BY <1>3, <2>2, <3>2 DEF A, B
  <2> DEFINE v == AccumulateRows("add", 0, Z, f, f)
             ff == f * f
  <2>5. v \in 0 .. f * (f * 255)
    <3> DEFINE t == [j \in 0 .. f - 1 |-> Total(Z[j], f)]
               m == 255
               fm == f * m
    <3>1. \A j \in 0 .. f - 1 : \A k \in 0 .. f - 1 : Z[j][k] \in Int /\ Z[j][k] \in 0 .. m
      <4> TAKE j \in 0 .. f - 1
      <4> TAKE k \in 0 .. f - 1
      <4> DEFINE e == Z[j][k]
      <4>1. e \in 0 .. 255
        BY <2>3
      <4> HIDE DEF e
      <4>2. e \in Int
        BY <4>1
      <4> QED BY <4>1, <4>2 DEF e
    <3>2. v = Total(t, f)
      BY <1>8, <3>1, RowsTotal
    <3> HIDE DEF m
    <3>3. m \in Nat
      BY DEF m
    <3>4. ASSUME NEW j \in 0 .. f - 1 PROVE Total(Z[j], f) \in 0 .. fm
      BY <1>8, <3>1, <3>3, TotalIsNat
    <3>5. \A j \in 0 .. f - 1 : t[j] \in 0 .. fm
      BY <3>4
    <3>6. fm \in Nat
      BY <1>8, <3>3
    <3> HIDE DEF t, fm
    <3>7. Total(t, f) \in 0 .. f * fm
      BY <1>8, <3>5, <3>6, TotalIsNat
    <3> QED BY <3>2, <3>7 DEF fm, m
  <2> HIDE DEF v
  <2>6. ~(v < 0 * ff) /\ ~(255 * ff < v)
    <3>1. CASE f = 2
      BY <2>5, <3>1
    <3>2. CASE f = 4
      BY <2>5, <3>2
    <3> QED BY <1>1, <3>1, <3>2
  <2>7. WindowSum(r, i) = v /\ r.mean
    BY <1>4, <1>7, <2>1, <2>2 DEF v
  <2>8. WindowValue(r, i) = Averaged(v, ff, r) /\ WindowByte(r, i) = Floor(WindowValue(r, i))
    <3>1. WindowValue(r, i) = Averaged(v, ff, r)
      BY <1>4, <1>6, <2>2, <2>7 DEF WindowValue, Reduced
    <3> QED BY <2>7, <3>1 DEF WindowByte
  <2>9. WindowByte(r, i) = v \div ff
    <3> HIDE DEF ff, r
    <3>1. Averaged(v, ff, r) = <<v, ff>>
      BY <1>4, <2>6 DEF Averaged
    <3> QED BY <2>8, <3>1 DEF Floor
  <2>10. PoolValue(n, i) = PoolOf(n, "add", i) \div (f * f)
    BY <2>1 DEF PoolValue, f
  <2>11. PoolOf(n, "add", i) = AccumulateRows("add", 0, X, f, f)
    BY <1>5 DEF PoolOf, X
  <2>12. PoolOf(n, "add", i) = v
    BY <2>4, <2>11 DEF v
  <2> QED BY <2>9, <2>10, <2>12 DEF r
<1> QED
  BY <1>10, <1>11

-----------------------------------------------------------------------------
\* The kernels the theorems are about, by the names of their operations.
Makes(op, n, out) ==
  /\ op = "binary" => out = binary(n)
  /\ op = "quantized_binary" => out = quantized_binary(n)
  /\ op = "concat" => out = concat(n)
  /\ op = "conv2d" => out = conv2d(n)
  /\ op = "quantized_conv2d" => out = quantized_conv2d(n)
  /\ op = "conv2d_transpose" => out = conv2d_transpose(n)
  /\ op = "matmul" => out = matmul(n)
  /\ op = "quantized_matmul" => out = quantized_matmul(n)
  /\ op = "pad" => out = pad(n)
  /\ op = "reduce" => out = reduce(n)
  /\ op = "resize_nearest_neighbor" => out = resize_nearest_neighbor(n)
  /\ op = "resize_bilinear" => out = resize_bilinear(n)
  /\ op = "strided_slice" => out = strided_slice(n)
  /\ op = "transpose" => out = transpose(n)
  /\ op = "cpu_conv2d" => out = cpu_conv2d(n)
  /\ op = "cpu_quantized_conv2d" => out = cpu_quantized_conv2d(n)
  /\ op = "cpu_depthwise_conv2d" => out = cpu_depthwise_conv2d(n)
  /\ op = "cpu_quantized_depthwise_conv2d" => out = cpu_quantized_depthwise_conv2d(n)
  /\ op = "cpu_reduce_window2d" => out = cpu_reduce_window2d(n)
  /\ op = "quantize" => out = riscv_quantize(n)
  /\ op = "dequantize" => out = riscv_dequantize(n)
  /\ op = "kpu_upload" => out = kpu_upload(n)
  /\ op = "kpu_download" => out = kpu_download(n)
  /\ op = "kpu_conv2d" => out = kpu_conv2d(n)
  /\ op = "kpu_pool2d" => out = kpu_pool2d(n)

\* The step of a program is that of the kernel its node names.
LEMMA StepOf ==
  ASSUME ProgramNext
  PROVE  program' = program /\ pc' = pc + 1 /\ ~(pc > Len(program)) /\ Makes(program[pc].op, Node, memory')
  BY DEF ProgramNext, Makes, Run, Finished, RunBinary, RunQuantizedBinary, RunConcat, RunConv2d, RunQuantizedConv2d,
     RunConv2dTranspose, RunMatmul, RunQuantizedMatmul, RunPad, RunReduce, RunReduceWindow2d, RunResizeNearest,
     RunResizeBilinear, RunSlice, RunTranspose, RunQuantize, RunDequantize, RunCpuConv2d, RunCpuDepthwise,
     RunCpuQuantized, RunCpuQuantizedDepthwise, RunCpuReduceWindow2d, RunKpuUpload, RunKpuDownload, RunKpuConv2d,
     RunFakeKpuConv2d, RunKpuPool2d

\* Intervals from 1 that are equal end at the same number.
LEMMA SameLength ==
  ASSUME NEW m \in Nat, NEW n \in Nat, 1 .. m = 1 .. n
  PROVE  m = n
<1>1. \A k \in Int : k \in 1 .. m <=> k \in 1 .. n
  OBVIOUS
<1>2. m >= 1 => m \in 1 .. n
  BY <1>1
<1>3. n >= 1 => n \in 1 .. m
  BY <1>1
<1> QED
  BY <1>2, <1>3

\* A program that Ops names is as long, and its nodes are those.
LEMMA OpsNamed ==
  ASSUME NEW p \in Programs
  PROVE  /\ \A a, b : Ops(p) = <<a, b>> => Len(p) = 2 /\ p[1].op = a /\ p[2].op = b
         /\ \A a : Ops(p) = <<a>> => Len(p) = 1 /\ p[1].op = a
<1>1. Len(p) \in Nat
  BY ProgramsAssumption
<1>2. ASSUME NEW a, NEW b, Ops(p) = <<a, b>> PROVE Len(p) = 2 /\ p[1].op = a /\ p[2].op = b
  <2>1. DOMAIN Ops(p) = 1 .. Len(p) /\ \A k \in 1 .. Len(p) : Ops(p)[k] = p[k].op
    BY DEF Ops
  <2>2. DOMAIN <<a, b>> = 1 .. 2 /\ <<a, b>>[1] = a /\ <<a, b>>[2] = b
    OBVIOUS
  <2>3. 1 .. Len(p) = 1 .. 2
    BY <1>2, <2>1, <2>2
  <2>4. Len(p) = 2
    <3> DEFINE m == Len(p)
               n == 2
    <3>1. m \in Nat /\ n \in Nat /\ 1 .. m = 1 .. n
      BY <1>1, <2>3
    <3> HIDE DEF m, n
    <3>2. m = n
      BY <3>1, SameLength
    <3> QED BY <3>2 DEF m, n
  <2> QED BY <1>2, <2>1, <2>2, <2>4
<1>3. ASSUME NEW a, Ops(p) = <<a>> PROVE Len(p) = 1 /\ p[1].op = a
  <2>1. DOMAIN Ops(p) = 1 .. Len(p) /\ \A k \in 1 .. Len(p) : Ops(p)[k] = p[k].op
    BY DEF Ops
  <2>2. DOMAIN <<a>> = 1 .. 1 /\ <<a>>[1] = a
    OBVIOUS
  <2>3. 1 .. Len(p) = 1 .. 1
    BY <1>3, <2>1, <2>2
  <2>4. Len(p) = 1
    <3> DEFINE m == Len(p)
               n == 1
    <3>1. m \in Nat /\ n \in Nat /\ 1 .. m = 1 .. n
      BY <1>1, <2>3
    <3> HIDE DEF m, n
    <3>2. m = n
      BY <3>1, SameLength
    <3> QED BY <3>2 DEF m, n
  <2> QED BY <1>3, <2>1, <2>2, <2>4
<1> QED
  BY <1>2, <1>3

\* Dequantizing and quantizing leave the bytes.
LEMMA QuantizeReads ==
  ASSUME NEW n, NEW d, n.count \in Nat, n.scale \in {1, 2, 4}, n.zero_point \in Int,
         n.input \in [0 .. n.count - 1 -> 0 .. 255],
         d.count = n.count, d.scale = n.scale, d.zero_point = n.zero_point, d.input = riscv_dequantize(n)
  PROVE  riscv_quantize(d) = n.input
<1> DEFINE Real(p) == d.input[p] * d.scale + 4 * d.zero_point
<1>1. riscv_quantize(d) = [p \in 0 .. n.count - 1 |->
        Byte(IF d.count % 2 = 1 /\ p = d.count - 1 THEN RoundAway(Real(p)) ELSE NearestEven(Real(p)))]
  BY DEF riscv_quantize
<1>2. ASSUME NEW p \in 0 .. n.count - 1 PROVE Byte(RoundAway(Real(p))) = n.input[p] /\ Byte(NearestEven(Real(p))) = n.input[p]
  <2>1. d.input[p] = CDiv((n.input[p] - n.zero_point) * 4, n.scale)
    BY DEF riscv_dequantize
  <2>2. Real(p) = CDiv((n.input[p] - n.zero_point) * 4, n.scale) * n.scale + 4 * n.zero_point
    BY <2>1
  <2>3. n.input[p] \in 0 .. 255
    OBVIOUS
  <2> DEFINE b == n.input[p]
             zero == n.zero_point
             scale == n.scale
             real == Real(p)
  <2>4. real = ThereAndBack(b, zero, scale) /\ b \in 0 .. 255 /\ zero \in Int /\ scale \in {1, 2, 4}
    BY <2>2, <2>3 DEF ThereAndBack
  <2> HIDE DEF Real, b, zero, scale, real
  <2>5. Byte(RoundAway(real)) = b /\ Byte(NearestEven(real)) = b
    BY <2>4, ByteReturns
  <2> QED BY <2>5 DEF b, real
<1>3. \A p \in 0 .. n.count - 1 : riscv_quantize(d)[p] = n.input[p]
  <2> HIDE DEF Real
  <2> QED BY <1>1, <1>2
<1>4. riscv_quantize(d) = [p \in 0 .. n.count - 1 |-> riscv_quantize(d)[p]]
  <2> HIDE DEF Real
  <2> QED BY <1>1
<1>5. [p \in 0 .. n.count - 1 |-> riscv_quantize(d)[p]] = [p \in 0 .. n.count - 1 |-> n.input[p]]
  BY <1>3
<1> QED
  BY <1>4, <1>5

\* The same the other way: a program of two nodes is one that Ops names.
LEMMA TwoOps ==
  ASSUME NEW p \in Programs, Len(p) = 2
  PROVE  Ops(p) = <<p[1].op, p[2].op>>
  BY DEF Ops

\* What two nodes make one after the other.
MakesOfTwo(p, out) ==
  \E m : Makes(p[1].op, p[1], m) /\ Makes(p[2].op, [p[2] EXCEPT !.input = m], out)

\* What three nodes make.
MakesOfThree(p, out) ==
  \E m : MakesOfTwo(p, m) /\ Makes(p[3].op, [p[3] EXCEPT !.input = m], out)

\* What memory holds after the first three nodes.
ProgramInv ==
  /\ program \in Programs
  /\ pc \in 1 .. Len(program) + 1
  /\ pc = 2 => Makes(program[1].op, program[1], memory)
  /\ pc = 3 => MakesOfTwo(program, memory)
  /\ pc = 4 => MakesOfThree(program, memory)

\* Memory is what the nodes made of it.
THEOREM ProgramInvAlways == ProgramSpec => []ProgramInv
<1>1. ProgramInit => ProgramInv
  BY ProgramsAssumption DEF ProgramInit, ProgramInv
<1>2. ProgramInv /\ [ProgramNext]_programVars => ProgramInv'
  <2> SUFFICES ASSUME ProgramInv, [ProgramNext]_programVars PROVE ProgramInv'
    OBVIOUS
  <2>1. CASE UNCHANGED programVars
    BY <2>1 DEF ProgramInv, programVars
  <2>2. CASE ProgramNext
    <3>1. program' = program /\ pc' = pc + 1 /\ ~(pc > Len(program)) /\ Makes(program[pc].op, Node, memory')
      BY <2>2, StepOf
    <3>2. Len(program) \in Nat /\ program \in Programs /\ pc \in 1 .. Len(program) + 1
      BY ProgramsAssumption DEF ProgramInv
    <3>3. pc' \in 1 .. Len(program') + 1
      BY <3>1, <3>2
    <3>4. ASSUME pc' = 2 PROVE Makes(program[1].op, program[1], memory')
      <4>1. pc = 1 /\ Node = program[1]
        BY <3>1, <3>2, <3>4 DEF Node
      <4> QED BY <3>1, <4>1
    <3>5. ASSUME pc' = 3
          PROVE  MakesOfTwo(program, memory')
      <4>1. pc = 2 /\ Node = [program[2] EXCEPT !.input = memory]
        BY <3>1, <3>2, <3>5 DEF Node
      <4>2. Makes(program[1].op, program[1], memory)
        BY <4>1 DEF ProgramInv
      <4>3. Makes(program[2].op, [program[2] EXCEPT !.input = memory], memory')
        BY <3>1, <4>1
      <4> QED BY <4>2, <4>3 DEF MakesOfTwo
    <3>6. ASSUME pc' = 4
          PROVE  MakesOfThree(program, memory')
      <4>1. pc = 3 /\ Node = [program[3] EXCEPT !.input = memory]
        BY <3>1, <3>2, <3>6 DEF Node
      <4>2. MakesOfTwo(program, memory)
        BY <4>1 DEF ProgramInv
      <4>3. Makes(program[3].op, [program[3] EXCEPT !.input = memory], memory')
        BY <3>1, <4>1
      <4> QED BY <4>2, <4>3 DEF MakesOfThree
    <3> QED BY <3>1, <3>2, <3>3, <3>4, <3>5, <3>6 DEF ProgramInv
  <2> QED BY <2>1, <2>2
<1> QED
  BY <1>1, <1>2, PTL DEF ProgramSpec

\* Where a program of one node ends.
LEMMA EndOfOne ==
  ASSUME ProgramInv, Finished, NEW a, Ops(program) = <<a>>
  PROVE  The = program[1] /\ Makes(a, program[1], memory)
<1>1. program \in Programs /\ pc \in 1 .. Len(program) + 1
  BY DEF ProgramInv
<1>2. Len(program) = 1 /\ program[1].op = a
  BY <1>1, OpsNamed
<1>3. pc = 2
  BY <1>1, <1>2 DEF Finished
<1> QED
  BY <1>2, <1>3 DEF ProgramInv, The

\* Where a program of two nodes ends.
LEMMA EndOfTwo ==
  ASSUME ProgramInv, Finished, NEW a, NEW b, Ops(program) = <<a, b>>
  PROVE  /\ The = program[2]
         /\ \E m : Makes(a, program[1], m) /\ Makes(b, [program[2] EXCEPT !.input = m], memory)
<1>1. program \in Programs /\ pc \in 1 .. Len(program) + 1
  BY DEF ProgramInv
<1>2. Len(program) = 2 /\ program[1].op = a /\ program[2].op = b
  BY <1>1, OpsNamed
<1>3. pc = 3
  BY <1>1, <1>2 DEF Finished
<1> QED
  BY <1>2, <1>3 DEF ProgramInv, The, MakesOfTwo

\* No two bytes of a feature map share a place, for any shape of it.
THEOREM DownloadUndoesUploadCorrect == ProgramSpec => []DownloadUndoesUpload
<1>1. ProgramInv => DownloadUndoesUpload
  <2> SUFFICES ASSUME ProgramInv, Finished, Ops(program) = <<"kpu_upload", "kpu_download">> PROVE memory = Start.input
    BY DEF DownloadUndoesUpload, Ended
  <2> DEFINE n == program[1]
  <2>1. PICK m : Makes("kpu_upload", n, m) /\ Makes("kpu_download", [program[2] EXCEPT !.input = m], memory)
    BY EndOfTwo
  <2> DEFINE d == [program[2] EXCEPT !.input = m]
  <2>2. m = kpu_upload(n) /\ memory = kpu_download(d)
    BY <2>1 DEF Makes
  <2>3. /\ n.in_shape \in [1 .. 4 -> Nat \ {0}]
        /\ n.input = [k \in 0 .. (compute_size(n.in_shape) - 1) |-> n.input[k]]
        /\ {"input", "in_shape"} \subseteq DOMAIN program[2] /\ program[2].in_shape = n.in_shape
    BY ProgramsAssumption DEF ProgramInv
  <2>4. d.in_shape = n.in_shape /\ d.input = kpu_upload(n)
    BY <2>2, <2>3
  <2> HIDE DEF n, d
  <2>5. kpu_download(d) = n.input
    BY <2>3, <2>4, DownloadReads DEF Shape
  <2> QED BY <2>2, <2>5 DEF n, Start
<1> QED
  BY <1>1, ProgramInvAlways, PTL

\* quantize gives a nearest byte, and what dequantize made of a byte is that byte again.
THEOREM QuantizationRoundsCorrect == ProgramSpec => []QuantizationRounds
<1>1. ProgramInv => QuantizeRecovers
  <2> SUFFICES ASSUME ProgramInv, Finished, Ops(program) = <<"dequantize", "quantize">> PROVE memory = Start.input
    BY DEF QuantizeRecovers, Ended
  <2> DEFINE n == program[1]
  <2>1. PICK m : Makes("dequantize", n, m) /\ Makes("quantize", [program[2] EXCEPT !.input = m], memory)
    BY EndOfTwo
  <2> DEFINE d == [program[2] EXCEPT !.input = m]
  <2>2. m = riscv_dequantize(n) /\ memory = riscv_quantize(d)
    BY <2>1 DEF Makes
  <2>3. /\ n.count \in Nat /\ n.scale \in {1, 2, 4} /\ n.zero_point \in Int
        /\ n.input \in [0 .. (n.count - 1) -> 0 .. 255]
        /\ {"input", "count", "scale", "zero_point"} \subseteq DOMAIN program[2]
        /\ program[2].count = n.count /\ program[2].scale = n.scale /\ program[2].zero_point = n.zero_point
    BY ProgramsAssumption DEF ProgramInv
  <2>4. d.count = n.count /\ d.scale = n.scale /\ d.zero_point = n.zero_point /\ d.input = riscv_dequantize(n)
    BY <2>2, <2>3
  <2> HIDE DEF n, d
  <2>5. riscv_quantize(d) = n.input
    BY <2>3, <2>4, QuantizeReads
  <2> QED BY <2>2, <2>5 DEF n, Start
<1>2. ProgramInv => QuantizeIsNearest
  <2> SUFFICES ASSUME ProgramInv, Finished, Ops(program) = <<"quantize">>
               PROVE  \A p \in DOMAIN memory :
                        LET real == The.input[p] * The.scale + 4 * The.zero_point
                        IN  \A b \in {Byte(memory[p] - 1), Byte(memory[p] + 1)} :
                              (4 * memory[p] - real) * (4 * memory[p] - real) <= (4 * b - real) * (4 * b - real)
    BY DEF QuantizeIsNearest, Ended
  <2> DEFINE n == program[1]
  <2>1. The = n /\ Makes("quantize", n, memory)
    BY EndOfOne
  <2>2. memory = riscv_quantize(n)
    BY <2>1 DEF Makes
  <2>4. /\ n.count \in Nat /\ n.scale \in Nat /\ n.zero_point \in Int
        /\ \A k \in 0 .. (n.count - 1) : n.input[k] \in Int
    BY ProgramsAssumption DEF ProgramInv
  <2> HIDE DEF n
  <2>5. DOMAIN memory = 0 .. (n.count - 1)
    BY <2>2 DEF riscv_quantize
  <2> TAKE p \in DOMAIN memory
  <2> DEFINE real == n.input[p] * n.scale + 4 * n.zero_point
  <2>6. real \in Int
    BY <2>4, <2>5
  <2>7. PICK r \in {NearestEven(real), RoundAway(real)} : memory[p] = Byte(r)
    BY <2>2, <2>5 DEF riscv_quantize
  <2> HIDE DEF real
  <2>8. r \in Int /\ 4 * r - real \in -2 .. 2
    BY <2>6, RoundsNear
  <2>9. \A b \in {Byte(Byte(r) - 1), Byte(Byte(r) + 1)} : (4 * Byte(r) - real) * (4 * Byte(r) - real) <= (4 * b - real) * (4 * b - real)
    BY <2>6, <2>8, ByteNear
  <2>10. \A b \in {Byte(memory[p] - 1), Byte(memory[p] + 1)} : (4 * memory[p] - real) * (4 * memory[p] - real) <= (4 * b - real) * (4 * b - real)
    BY <2>7, <2>9
  <2> QED BY <2>1, <2>10 DEF real
<1>3. ProgramInv => QuantizationRounds
  BY <1>1, <1>2 DEF QuantizationRounds
<1> QED
  BY <1>3, ProgramInvAlways, PTL

-----------------------------------------------------------------------------
\* An operand that is broadcast meets the element that has its place.
LEMMA BroadcastHolds == ProgramInv => BroadcastIsRepeat
<1> SUFFICES ASSUME ProgramInv PROVE BroadcastIsRepeat
  OBVIOUS
<1>1. ASSUME Ended(<<"binary">>) PROVE Operands(The) /\ memory = binary(The)
  <2>1. Finished /\ Ops(program) = <<"binary">> /\ program \in Programs
    BY <1>1 DEF Ended, ProgramInv
  <2>2. The = program[1] /\ Makes("binary", program[1], memory)
    BY <2>1, EndOfOne
  <2> QED BY <2>1, <2>2, MovesAssumption DEF Makes
<1>2. ASSUME Ended(<<"quantized_binary">>) PROVE Operands(The) /\ memory = quantized_binary(The)
  <2>1. Finished /\ Ops(program) = <<"quantized_binary">> /\ program \in Programs
    BY <1>2 DEF Ended, ProgramInv
  <2>2. The = program[1] /\ Makes("quantized_binary", program[1], memory)
    BY <2>1, EndOfOne
  <2> QED BY <2>1, <2>2, MovesAssumption DEF Makes
<1>3. ASSUME Ended(<<"binary">>)
      PROVE  memory = [p \in 0 .. compute_size(The.out_shape) - 1 |-> BinaryOf(The, p)]
  BY <1>1, <1>3, BinaryMeets
<1>4. ASSUME Ended(<<"quantized_binary">>)
      PROVE  memory = [p \in 0 .. compute_size(The.out_shape) - 1 |-> QuantizedOf(The, p)]
  BY <1>2, <1>4, QuantizedMeets
<1> QED
  BY <1>3, <1>4 DEF BroadcastIsRepeat, BinaryOf, QuantizedOf, Meeting, Tensor

\* Two nodes that reduce make what the second makes of the start.
LEMMA ReduceHolds == ProgramInv => ReduceInSteps
<1> SUFFICES ASSUME ProgramInv, Finished, Ops(program) = <<"reduce", "reduce">>
             PROVE  memory = reduce([The EXCEPT !.input = Start.input, !.in_shape = Start.in_shape])
  BY DEF ReduceInSteps, Ended
<1> DEFINE m == program[1]
           n == program[2]
           e == [n EXCEPT !.input = m.input, !.in_shape = m.in_shape]
<1>1. PICK made : Makes("reduce", m, made) /\ Makes("reduce", [n EXCEPT !.input = made], memory)
  BY EndOfTwo
<1> DEFINE d == [n EXCEPT !.input = made]
<1>2. made = reduce(m) /\ memory = reduce(d) /\ The = n
  BY <1>1, EndOfTwo DEF Makes
<1>3. Reductions(m, n)
  BY MovesAssumption DEF ProgramInv
<1>4. {"input", "in_shape", "out_shape", "reduce_op", "init_value"} \subseteq DOMAIN n
  BY <1>3 DEF Reductions
<1>5. /\ d.in_shape = n.in_shape /\ d.out_shape = n.out_shape /\ d.reduce_op = n.reduce_op
      /\ d.init_value = n.init_value /\ d.input = reduce(m)
  BY <1>2, <1>4
<1>6. /\ e.in_shape = m.in_shape /\ e.out_shape = n.out_shape /\ e.reduce_op = n.reduce_op
      /\ e.init_value = n.init_value /\ e.input = m.input
  BY <1>4
<1> HIDE DEF m, n, d, e
<1>7. reduce(d) = reduce(e)
  BY <1>3, <1>5, <1>6, ReduceTwice
<1> QED
  BY <1>2, <1>7 DEF e, m, Start

\* A slice takes back what the node before it moved.
LEMMA SliceHolds == ProgramInv => SliceRecovers
<1> SUFFICES ASSUME ProgramInv, Finished, Len(program) = 2, The.op = "strided_slice",
                    Start.op \in {"pad", "concat", "strided_slice"}
             PROVE  IF Start.op = "concat"
                    THEN \E k \in 1..Len(Start.dims) : The.begin[4] = Before(Start, k) /\ memory = Start.inputs[k]
                    ELSE memory = Start.input
  BY DEF SliceRecovers
<1> DEFINE m == program[1]
           n == program[2]
<1>1. program \in Programs /\ The = n /\ Start = m /\ Ops(program) = <<m.op, "strided_slice">>
  BY TwoOps DEF ProgramInv, The, Start
<1>2. PICK made : Makes(m.op, m, made) /\ Makes("strided_slice", [n EXCEPT !.input = made], memory)
  BY <1>1, EndOfTwo
<1> DEFINE d == [n EXCEPT !.input = made]
<1>3. memory = strided_slice(d)
  BY <1>2 DEF Makes
<1>4. ASSUME NEW b, NEW e, NEW s, Slices(n, b, e, s)
      PROVE  /\ d.input = made /\ d.in_shape = n.in_shape
             /\ \A k \in 1 .. 4 : d.begin[k] = n.begin[k] /\ d.end[k] = n.end[k] /\ d.strides[k] = n.strides[k]
  BY <1>4 DEF Slices
<1>5. CASE m.op = "pad"
  <2>1. made = pad(m) /\ Unpads(m, n)
    BY <1>1, <1>2, <1>5, MovesAssumption DEF Makes
  <2>2. /\ d.input = made /\ d.in_shape = n.in_shape
        /\ \A k \in 1 .. 4 : d.begin[k] = n.begin[k] /\ d.end[k] = n.end[k] /\ d.strides[k] = n.strides[k]
    BY <1>4, <2>1 DEF Unpads
  <2> HIDE DEF m, n, d
  <2>3. strided_slice(d) = m.input
    BY <2>1, <2>2, PadSliced
  <2> QED BY <1>1, <1>3, <1>5, <2>3
<1>6. CASE m.op = "strided_slice"
  <2>1. made = strided_slice(m) /\ Reverses(m, n)
    BY <1>1, <1>2, <1>6, MovesAssumption DEF Makes
  <2>2. /\ d.input = made /\ d.in_shape = n.in_shape
        /\ \A k \in 1 .. 4 : d.begin[k] = n.begin[k] /\ d.end[k] = n.end[k] /\ d.strides[k] = n.strides[k]
    BY <1>4, <2>1 DEF Reverses
  <2> HIDE DEF m, n, d
  <2>3. strided_slice(d) = m.input
    BY <2>1, <2>2, ReverseSliced
  <2> QED BY <1>1, <1>3, <1>6, <2>3
<1>7. CASE m.op = "concat"
  <2>1. made = concat(m) /\ Unjoins(m, n)
    BY <1>1, <1>2, <1>7, MovesAssumption DEF Makes
  <2>2. PICK k \in 1 .. Len(m.dims) :
          /\ m.inputs[k] = [q \in 0..(m.outer_size * m.inner_size * m.dims[k] - 1) |-> m.inputs[k][q]]
          /\ Slices(n, <<0, 0, 0, Before(m, k)>>, <<1, 1, m.outer_size, Before(m, k + 1)>>, Unstrided)
    BY <2>1 DEF Unjoins
  <2>3. /\ d.input = made /\ d.in_shape = n.in_shape
        /\ \A i \in 1 .. 4 : d.begin[i] = n.begin[i] /\ d.end[i] = n.end[i] /\ d.strides[i] = n.strides[i]
    BY <1>4, <2>2
  <2> HIDE DEF m, n, d
  <2>4. \A i \in 1 .. 4 : /\ n.begin[i] = <<0, 0, 0, Before(m, k)>>[i]
                          /\ n.end[i] = <<1, 1, m.outer_size, Before(m, k + 1)>>[i] /\ n.strides[i] = 1
    BY <2>2 DEF Slices, Unstrided
  <2>5. Parts(m) /\ m.outer_size \in Nat \ {0} /\ n.in_shape = <<1, 1, m.outer_size, Before(m, Len(m.dims) + 1)>>
    BY <2>1 DEF Unjoins, Parts
  <2>6. Separates(d, m, k)
    BY <2>1, <2>2, <2>3, <2>4, <2>5 DEF Separates
  <2>7. strided_slice(d) = m.inputs[k]
    BY <2>5, <2>6, ConcatSliced
  <2>8. n.begin[4] = Before(m, k)
    BY <2>4
  <2> QED BY <1>1, <1>3, <1>7, <2>7, <2>8
<1> QED
  BY <1>1, <1>5, <1>6, <1>7

\* Every pixel of an enlarged picture is found again.
LEMMA ResizeHolds == ProgramInv => ResizeKeepsPixels
<1> SUFFICES ASSUME ProgramInv, Finished, Len(program) = 2, The.op = "strided_slice",
                    Start.op \in {"resize_nearest_neighbor", "resize_bilinear"}
             PROVE  memory = Start.input
  BY DEF ResizeKeepsPixels
<1> DEFINE m == program[1]
           n == program[2]
<1>1. program \in Programs /\ The = n /\ Start = m /\ Ops(program) = <<m.op, "strided_slice">>
  BY TwoOps DEF ProgramInv, The, Start
<1>2. PICK made : Makes(m.op, m, made) /\ Makes("strided_slice", [n EXCEPT !.input = made], memory)
  BY <1>1, EndOfTwo
<1> DEFINE d == [n EXCEPT !.input = made]
           y == n.strides[3]
           x == n.strides[4]
<1>3. memory = strided_slice(d)
  BY <1>2 DEF Makes
<1>4. PICK align \in BOOLEAN : Shrunk(m, n, align) /\ Pixels(m, made, y, x)
  <2>1. CASE m.op = "resize_nearest_neighbor"
    <3>1. made = resize_nearest_neighbor(m) /\ Shrunk(m, n, FALSE)
      BY <1>1, <1>2, <2>1, MovesAssumption DEF Makes
    <3>2. Enlarges(m, y, x, FALSE)
      BY <3>1 DEF Shrunk, Enlarges
    <3> HIDE DEF m, n, y, x
    <3>3. Pixels(m, made, y, x)
      BY <3>1, <3>2, NearestPixels
    <3> QED BY <3>1, <3>3
  <2>2. CASE m.op = "resize_bilinear"
    <3>1. made = resize_bilinear(m) /\ m.align_corners \in BOOLEAN /\ Shrunk(m, n, m.align_corners)
      BY <1>1, <1>2, <2>2, MovesAssumption DEF Makes
    <3>2. Enlarges(m, y, x, m.align_corners)
      BY <3>1 DEF Shrunk, Enlarges
    <3> HIDE DEF m, n, y, x
    <3>3. Pixels(m, made, y, x)
      BY <3>1, <3>2, BilinearPixels
    <3> QED BY <3>1, <3>3
  <2> QED BY <1>1, <2>1, <2>2
<1>5. /\ d.input = made /\ d.in_shape = n.in_shape
      /\ \A k \in 1 .. 4 : d.begin[k] = n.begin[k] /\ d.end[k] = n.end[k] /\ d.strides[k] = n.strides[k]
  BY <1>4 DEF Shrunk, Slices
<1> HIDE DEF m, n, d
<1>6. strided_slice(d) = m.input
  BY <1>4, <1>5, ResizeSliced DEF y, x
<1> QED
  BY <1>1, <1>3, <1>6

\* The kernels that move elements put each where the shapes say: for all shapes,
\* paddings, parts and axes.  A picture keeps its pixels when it is enlarged by a
\* power of two up to 256; by another factor the code's float scale may lose one.
THEOREM ElementsMoveRightCorrect == ProgramSpec => []ElementsMoveRight
<1>1. ProgramInv => ElementsMoveRight
  BY BroadcastHolds, ReduceHolds, SliceHolds, ResizeHolds, SMTT(30) DEF ElementsMoveRight
<1> QED
  BY <1>1, ProgramInvAlways, PTL

-----------------------------------------------------------------------------
\* The convolution of the KPU, of every node that is compiled as the assumption says.
LEMMA KpuConvHolds == ProgramInv => KpuConvIsConv
<1> SUFFICES ASSUME ProgramInv, Ended(<<"kpu_conv2d">>) PROVE KpuConvIsConv
  BY DEF KpuConvIsConv
<1>1. Finished /\ Ops(program) = <<"kpu_conv2d">> /\ program \in Programs
  BY DEF Ended, ProgramInv
<1>2. The = program[1] /\ memory = kpu_conv2d(program[1])
  BY <1>1, EndOfOne DEF Makes
<1>3. KpuCompiled(The) /\ memory = kpu_conv2d(The)
  BY <1>1, <1>2, SumsAssumption
<1>4. memory = [p \in 0 .. (compute_size(KpuShape(The)) - 1) |->
           KpuResult(The, Index(KpuShape(The), p)[2],
                     fake_kpu_conv2d(InReals(The))[offset(KpuShape(The), Index(KpuShape(The), p))])]
  BY <1>3, KpuConvIs
<1> QED
  BY <1>4, ZenonT(30) DEF KpuConvIsConv, Tensor, KpuResult, KpuRounded, NearestOf

\* The pooling of the KPU.
LEMMA KpuPoolHolds == ProgramInv => PoolIsWindow
<1> SUFFICES ASSUME ProgramInv, Ended(<<"kpu_pool2d">>), The.type[1] \in {"max", "mean"} PROVE PoolIsWindow
  BY DEF PoolIsWindow
<1> DEFINE n == program[1]
           r == PoolNode(n)
           s == PoolShape(n)
<1>1. Finished /\ Ops(program) = <<"kpu_pool2d">> /\ program \in Programs
  BY DEF Ended, ProgramInv
<1>2. The = n /\ memory = kpu_pool2d(n)
  BY <1>1, EndOfOne DEF Makes
<1>3. KpuPools(n)
  BY <1>1, SumsAssumption
<1>4. n.type[1] \in {"max", "mean"}
  BY <1>2
<1> HIDE DEF n
<1>5. memory = [p \in 0 .. (compute_size(s) - 1) |-> PoolValue(n, Index(s, p))]
  BY <1>2, PoolIs
<1>6. /\ WindowShape(r) = s /\ Shape(s) /\ s[1] = 1 /\ s[2] = n.in_shape[2]
      /\ \A k \in 3 .. 4 : \A y \in 0 .. s[k] - 1 : y * n.type[3] \in Nat /\ y * n.type[3] < n.in_shape[k]
  BY <1>3, <1>4, PoolShapeIs
<1>7. reduce_window2d(r) = [p \in 0 .. (compute_size(s) - 1) |-> WindowValue(r, Index(s, p))]
  BY <1>6, WindowIs
<1>8. ASSUME NEW p \in 0 .. (compute_size(s) - 1),
             \/ n.type[1] = "max"
             \/ /\ OriginY(r, Index(s, p)[3]) + n.type[2] <= n.in_shape[3]
                /\ OriginX(r, Index(s, p)[4]) + n.type[2] <= n.in_shape[4]
      PROVE  memory[p] = IF r.mean THEN Floor(reduce_window2d(r)[p]) ELSE reduce_window2d(r)[p]
  <2> DEFINE i == Index(s, p)
  <2>1. \A k \in 1 .. 4 : i[k] \in 0 .. s[k] - 1
    <3> HIDE DEF s
    <3> QED BY <1>6, OffsetOfIndex
  <2>2. memory[p] = PoolValue(n, i) /\ reduce_window2d(r)[p] = WindowValue(r, i)
    <3> DEFINE A(q) == PoolValue(n, Index(s, q))
               B(q) == WindowValue(r, Index(s, q))
    <3> HIDE DEF A, B
    <3>1. memory[p] = A(p) /\ reduce_window2d(r)[p] = B(p)
      BY <1>5, <1>7 DEF A, B
    <3> QED BY <3>1 DEF A, B
  <2> HIDE DEF i
  <2>3. AtPool(n, i)
    <3> HIDE DEF s, r
    <3>1. i[1] \in 0 .. s[1] - 1 /\ i[2] \in 0 .. s[2] - 1 /\ i[3] \in 0 .. s[3] - 1 /\ i[4] \in 0 .. s[4] - 1
      BY <2>1
    <3>2. i[1] = 0 /\ i[2] \in 0 .. n.in_shape[2] - 1
      BY <1>6, <3>1
    <3>3. /\ PoolY(n, i) \in Nat /\ PoolY(n, i) < n.in_shape[3]
          /\ PoolX(n, i) \in Nat /\ PoolX(n, i) < n.in_shape[4]
      <4>1. 3 \in 3 .. 4 /\ 4 \in 3 .. 4
        OBVIOUS
      <4> QED BY <1>6, <3>1, <4>1 DEF PoolY, PoolX
    <3>4. n.in_shape[3] \in Nat /\ n.in_shape[4] \in Nat
      BY <1>3 DEF KpuPools, Shapes
    <3> DEFINE y == PoolY(n, i)
               x == PoolX(n, i)
    <3> HIDE DEF y, x
    <3>5. y \in 0 .. n.in_shape[3] - 1 /\ x \in 0 .. n.in_shape[4] - 1
      BY <3>3, <3>4 DEF y, x
    <3> QED BY <3>2, <3>5 DEF AtPool, y, x
  <2>4. OriginY(r, i[3]) = PoolY(n, i) /\ OriginX(r, i[4]) = PoolX(n, i)
    BY <1>3, <1>4, <2>3, PoolWindow
  <2>5. n.type[1] = "max" \/ (PoolY(n, i) + n.type[2] <= n.in_shape[3] /\ PoolX(n, i) + n.type[2] <= n.in_shape[4])
    BY <1>8, <2>4 DEF i
  <2> HIDE DEF r, s
  <2>6. PoolValue(n, i) = WindowByte(r, i)
    BY <1>3, <1>4, <2>3, <2>5, PoolValueIs DEF r
  <2> QED BY <2>2, <2>6 DEF WindowByte
<1>9. DOMAIN memory = 0 .. (compute_size(s) - 1) /\ DOMAIN reduce_window2d(r) = 0 .. (compute_size(s) - 1)
  <2> DEFINE A(q) == PoolValue(n, Index(s, q))
             B(q) == WindowValue(r, Index(s, q))
  <2> HIDE DEF A, B
  <2> QED BY <1>5, <1>7 DEF A, B
<1>10. /\ DOMAIN memory = DOMAIN reduce_window2d(PoolNode(n))
       /\ \A p \in DOMAIN memory :
            n.type[1] = "max" \/ (/\ OriginY(PoolNode(n), Index(PoolShape(n), p)[3]) + get_kpu_filter_size(n.type) <= n.in_shape[3]
                                  /\ OriginX(PoolNode(n), Index(PoolShape(n), p)[4]) + get_kpu_filter_size(n.type) <= n.in_shape[4])
            => memory[p] = IF PoolNode(n).mean THEN Floor(reduce_window2d(PoolNode(n))[p]) ELSE reduce_window2d(PoolNode(n))[p]
  <2>1. get_kpu_filter_size(n.type) = n.type[2]
    BY DEF get_kpu_filter_size
  <2> QED BY <1>8, <1>9, <2>1
<1> QED
  BY <1>2, <1>10 DEF PoolIsWindow, PoolNode

\* What the KPU is made to do is what the neutral kernels do: its convolution on
\* bytes is that of the numbers they stand for, its pooling a window reduction.
\* Arguments are zero points, with bits after them or none; a segment rises or
\* falls, and where it falls the sum is rounded away from the nearest.
THEOREM KpuComputesCorrect == ProgramSpec => []KpuComputes
<1>1. ProgramInv => KpuComputes
  BY KpuConvHolds, KpuPoolHolds DEF KpuComputes
<1> QED
  BY <1>1, ProgramInvAlways, PTL

\* A quotient that is rounded up is not more than k when the dividend is not more than k times the divisor.
LEMMA RoundedUp ==
  ASSUME NEW a \in Int, NEW d \in Nat \ {0}, NEW k \in Nat
  PROVE  CDiv(a + d - 1, d) \in Int /\ (CDiv(a + d - 1, d) <= k <=> a <= d * k)
<1> DEFINE c == a + d - 1
<1>1. c \in Int /\ d * k \in Nat
  OBVIOUS
<1>2. CASE c >= 0
  <2> DEFINE q == c \div d
             dq == q * d
             dk == d * k
  <2>1. q \in Nat /\ dq <= c /\ c < dq + d /\ dq \in Int
    <3> HIDE DEF c
    <3>1. c \in Nat
      BY <1>1, <1>2
    <3>2. q \in Nat /\ c % d \in 0 .. d - 1 /\ c = q * d + (c % d)
      BY <3>1, DivMod
    <3>3. dq \in Int
      BY <3>2
    <3> DEFINE r == c % d
    <3> HIDE DEF q, dq, r
    <3>4. r \in 0 .. d - 1 /\ c = dq + r
      BY <3>2 DEF dq, r
    <3> QED BY <1>1, <3>2, <3>3, <3>4
  <2>2. CDiv(c, d) = q
    BY <1>2 DEF CDiv
  <2>3. ASSUME q <= k PROVE dq <= dk
    <3>1. k * d >= q * d
      BY <2>1, <2>3, Grows
    <3>2. k * d = dk
      OBVIOUS
    <3> QED BY <3>1, <3>2
  <2>4. ASSUME ~(q <= k) PROVE dk + d <= dq
    <3>1. q \in Nat /\ q >= k + 1
      <4> HIDE DEF q
      <4> QED BY <2>1, <2>4
    <3>2. q * d >= (k + 1) * d
      <4> HIDE DEF q
      <4> QED BY <3>1, Grows
    <3>3. (k + 1) * d = dk + d
      OBVIOUS
    <3> QED BY <3>2, <3>3
  <2>5. dk \in Int /\ c = a + d - 1
    OBVIOUS
  <2> HIDE DEF q, dq, dk, c
  <2>6. q <= k <=> a <= dk
    BY <2>1, <2>3, <2>4, <2>5
  <2> QED BY <2>1, <2>2, <2>6 DEF c, dk
<1>3. CASE ~(c >= 0)
  <2> DEFINE q == (-c) \div d
             dk == d * k
  <2>1. CDiv(c, d) = -q
    BY <1>3 DEF CDiv
  <2>2. q \in Nat
    <3> DEFINE u == -c
    <3>1. u \in Nat
      BY <1>3
    <3> HIDE DEF u
    <3>2. u \div d \in Nat
      BY <3>1, DivMod
    <3> QED BY <3>2 DEF u
  <2>3. a <= dk
    <3> HIDE DEF dk
    <3>1. a <= 0
      BY <1>3
    <3>2. dk \in Nat
      BY <1>1 DEF dk
    <3> QED BY <3>1, <3>2
  <2> HIDE DEF q, dk, c
  <2> QED BY <2>1, <2>2, <2>3 DEF dk, c
<1> QED
  BY <1>2, <1>3

\* The taps of a window are those that fall on the image.
Reaches(S, f, at, d, h) ==
  /\ \E lo, m : Stretch(S, lo, m, f)
  /\ \A k \in 0 .. f - 1 : k \in S <=> at + d * k \in 0 .. h - 1

\* The taps the loop bounds leave are exactly those that fall on the axis.
LEMMA TapsReach ==
  ASSUME NEW h \in Nat, NEW f \in Nat, NEW at \in Int, NEW d \in Nat \ {0}
  PROVE  Reaches(Taps(h, f, at, d), f, at, d, h)
<1> DEFINE low == CDiv(-at + d - 1, d)
           high == CDiv(h - at + d - 1, d)
           a == Most2(0, low)
           b == Least2(f, high) - 1
<1>1. low \in Int /\ \A k \in Nat : low <= k <=> -at <= d * k
  <2> DEFINE v == -at
  <2>1. v \in Int
    OBVIOUS
  <2> HIDE DEF v
  <2>2. \A k \in Nat : CDiv(v + d - 1, d) \in Int /\ (CDiv(v + d - 1, d) <= k <=> v <= d * k)
    BY <2>1, RoundedUp
  <2>3. 0 \in Nat
    OBVIOUS
  <2> QED BY <2>2, <2>3 DEF v
<1>2. high \in Int /\ \A k \in Nat : high <= k <=> h - at <= d * k
  <2> DEFINE v == h - at
  <2>1. v \in Int
    OBVIOUS
  <2> HIDE DEF v
  <2>2. \A k \in Nat : CDiv(v + d - 1, d) \in Int /\ (CDiv(v + d - 1, d) <= k <=> v <= d * k)
    BY <2>1, RoundedUp
  <2>3. 0 \in Nat
    OBVIOUS
  <2> QED BY <2>2, <2>3 DEF v
<1> HIDE DEF low, high
<1>3. a \in Nat /\ b \in Int /\ b < f
  BY <1>1, <1>2 DEF Most2, Least2
<1>4. ASSUME NEW k \in 0 .. f - 1 PROVE k \in a .. b <=> at + d * k \in 0 .. h - 1
  <2> DEFINE dk == d * k
  <2>1. (low <= k <=> -at <= dk) /\ (high <= k <=> h - at <= dk) /\ dk \in Int
    BY <1>1, <1>2
  <2>2. a <= k <=> low <= k
    BY <1>1 DEF Most2
  <2>3. k <= b <=> ~(high <= k)
    BY <1>2 DEF Least2
  <2>4. k \in a .. b <=> a <= k /\ k <= b
    <3> HIDE DEF a, b
    <3> QED BY <1>3
  <2> HIDE DEF a, b, dk
  <2>5. at + dk \in 0 .. h - 1 <=> (-at <= dk /\ ~(h - at <= dk))
    BY <2>1
  <2> QED BY <2>1, <2>2, <2>3, <2>4, <2>5 DEF dk
<1>5. Taps(h, f, at, d) = a .. b
  BY DEF Taps, low, high
<1> HIDE DEF a, b
<1>6. \E lo, m : Stretch(a .. b, lo, m, f)
  BY <1>3, IntervalSpans
<1> QED
  BY <1>4, <1>5, <1>6 DEF Reaches

\* The places that a window takes are as many as the kernels compute.
Bordered(padding) == padding.before \in Nat /\ padding.after \in Nat
Counted(size, f, s, d, padding) ==
  LET out == get_windowed_output_size(size, f, s, d, padding)
      places == Cardinality(Fits(size, f, s, d, padding))
  IN  /\ out \in Int /\ places \in Nat
      /\ out > 0 => places = out
      /\ out <= 0 => places = 0
      /\ out > 0 <=> (f - 1) * d < size + padding.before + padding.after

\* The output size counts the places where the filter fits.
LEMMA PlacesCounted ==
  ASSUME NEW size \in Nat, NEW f \in Nat \ {0}, NEW s \in Nat \ {0}, NEW d \in Nat \ {0}, NEW padding, Bordered(padding)
  PROVE  Counted(size, f, s, d, padding)
<1> DEFINE P == size + padding.before + padding.after
           E == (f - 1) * d
           T == P - E - 1
           out == get_windowed_output_size(size, f, s, d, padding)
           F == Fits(size, f, s, d, padding)
<1>1. P \in Nat /\ E \in Nat
  BY DEF Bordered
<1>2. T \in Int
  BY <1>1
<1>3. out = CDiv(T + s, s)
  <2> DEFINE p1 == padding.before
             p2 == padding.after
  <2>1. p1 \in Nat /\ p2 \in Nat
    BY DEF Bordered
  <2>2. size + p1 + p2 - (E + 1) + s = T + s
    <3> HIDE DEF E, p1, p2
    <3>1. E \in Nat
      BY <1>1
    <3> QED BY <2>1, <3>1 DEF p1, p2
  <2> QED BY <2>2 DEF get_windowed_output_size
<1>4. F = {y \in 0 .. P : y * s + E < P}
  BY DEF Fits
<1>5. T >= 0 <=> E < P
  <2> HIDE DEF E, P
  <2> QED BY <1>1
<1> HIDE DEF out, F
<1>6. CASE T >= 0
  <2> DEFINE q == T \div s
             r == T % s
             qs == q * s
  <2>1. q \in Nat /\ r \in 0 .. s - 1 /\ T = qs + r /\ qs \in Nat
    <3>1. T \in Nat
      BY <1>2, <1>6
    <3> HIDE DEF T
    <3>2. q \in Nat /\ r \in 0 .. s - 1 /\ T = q * s + r
      BY <3>1, DivMod
    <3> HIDE DEF q, r
    <3> QED BY <3>2
  <2> HIDE DEF q, r
  <2>2. out = q + 1
    <3> DEFINE u == T + s
               w == u \div s
               v == u % s
    <3>1. u \in Nat /\ u >= 0
      <4> HIDE DEF T
      <4> QED BY <1>2, <1>6
    <3>2. out = w
      <4> HIDE DEF u, T
      <4>1. out = CDiv(u, s)
        BY <1>3 DEF u
      <4> QED BY <3>1, <4>1 DEF CDiv
    <3>3. w \in Nat /\ v \in 0 .. s - 1 /\ u = w * s + v
      <4> HIDE DEF u
      <4> QED BY <3>1, DivMod
    <3>4. (q + 1) * s = qs + s
      BY <2>1
    <3>5. u = (q + 1) * s + r
      <4> HIDE DEF T, qs
      <4>1. u = qs + r + s
        BY <2>1
      <4> DEFINE x == (q + 1) * s
      <4>2. x = qs + s
        BY <3>4
      <4> HIDE DEF x, u
      <4>3. u = x + r
        BY <2>1, <4>1, <4>2
      <4> QED BY <4>3 DEF x
    <3> DEFINE q1 == q + 1
    <3>6. q1 \in Nat
      BY <2>1
    <3>7. w * s + v = q1 * s + r
      BY <3>3, <3>5
    <3> HIDE DEF w, v, u, q1
    <3>8. w = q1
      BY <2>1, <3>3, <3>6, <3>7, Digits
    <3> QED BY <3>2, <3>8 DEF q1
  <2>3. ASSUME NEW y \in Int PROVE y \in F <=> y \in 0 .. q
    <3>1. ASSUME y \in 0 .. q PROVE y \in F
      <4>1. y * s <= qs /\ y * s \in Nat
        BY <2>1, <3>1, Grows
      <4>2. y * s >= y * 1
        <5>1. y \in Nat
          BY <3>1
        <5>2. s * y >= 1 * y
          <6> DEFINE one == 1
          <6>1. one \in Nat /\ s \in Nat /\ s >= one
            OBVIOUS
          <6> HIDE DEF one
          <6>2. s * y >= one * y
            BY <5>1, <6>1, Grows
          <6> QED BY <6>2 DEF one
        <5> QED BY <5>1, <5>2
      <4> DEFINE ys == y * s
      <4>3. ys \in Nat /\ ys <= qs /\ ys >= y /\ y \in Nat
        BY <3>1, <4>1, <4>2
      <4> HIDE DEF ys, qs, E, P
      <4>4. ys + E < P /\ y \in 0 .. P
        BY <1>1, <2>1, <4>3
      <4> QED BY <1>4, <4>4 DEF ys, P, E
    <3>2. ASSUME y \in F PROVE y \in 0 .. q
      <4>1. y \in Nat /\ y * s + E < P
        BY <1>1, <1>4, <3>2
      <4>2. ASSUME y >= q + 1 PROVE FALSE
        <5>1. q + 1 \in Nat
          BY <2>1
        <5>2. y * s >= (q + 1) * s
          BY <2>1, <4>1, <4>2, <5>1, Grows
        <5>3. (q + 1) * s = qs + s
          BY <2>1
        <5> DEFINE ys == y * s
        <5>4. ys \in Nat /\ ys >= qs + s /\ ys + E < P
          BY <4>1, <5>2, <5>3
        <5> HIDE DEF ys, qs, E, P
        <5> QED BY <1>1, <2>1, <5>4
      <4> QED BY <2>1, <4>1, <4>2
    <3> QED BY <3>1, <3>2
  <2>4. F = 0 .. q
    <3>1. \A y \in F : y \in Int
      <4> HIDE DEF E, P
      <4> QED BY <1>1, <1>4
    <3>2. \A y \in 0 .. q : y \in Int
      OBVIOUS
    <3>3. \A y : y \in F <=> y \in 0 .. q
      BY <2>3, <3>1, <3>2
    <3> QED BY <3>3
  <2>5. Cardinality(F) = q + 1
    <3>1. Cardinality(0 .. q) = IF 0 > q THEN 0 ELSE q - 0 + 1
      BY <2>1, FS_Interval
    <3> QED BY <2>1, <2>4, <3>1
  <2> HIDE DEF T, E, P
  <2> QED BY <1>1, <1>5, <1>6, <2>1, <2>2, <2>5 DEF Counted, out, F, E, P
<1>7. CASE ~(T >= 0)
  <2>1. F = {}
    <3> SUFFICES ASSUME NEW y \in F PROVE FALSE
      OBVIOUS
    <3>1. y \in Nat /\ y * s + E < P
      BY <1>1, <1>4
    <3>2. y * s \in Nat
      BY <3>1
    <3> DEFINE ys == y * s
    <3> HIDE DEF E, P, ys
    <3>3. ys \in Nat /\ ys + E < P
      BY <3>1, <3>2 DEF ys
    <3> QED BY <1>1, <1>7, <3>3
  <2>2. Cardinality(F) = 0
    BY <2>1, FS_EmptySet
  <2>3. out \in Int /\ out <= 0
    <3> DEFINE u == T + s
    <3>1. u \in Int /\ u < s /\ out = CDiv(u, s)
      <4>1. out = CDiv(u, s)
        BY <1>3
      <4> HIDE DEF T
      <4> QED BY <1>2, <1>7, <4>1
    <3> HIDE DEF u
    <3>2. CASE u >= 0
      <4>1. u \div s = 0
        <5>1. u \in Nat /\ 0 * s + u = u
          BY <3>1, <3>2
        <5>2. u \div s \in Nat /\ u % s \in 0 .. s - 1 /\ u = (u \div s) * s + (u % s)
          BY <5>1, DivMod
        <5> DEFINE a == u \div s
                   r == u % s
                   zero == 0
        <5>3. zero * s + u = a * s + r /\ zero \in Nat /\ u \in 0 .. s - 1 /\ a \in Nat /\ r \in 0 .. s - 1
          BY <3>1, <5>1, <5>2
        <5> HIDE DEF a, r, zero
        <5>4. zero = a
          BY <5>3, Digits
        <5> QED BY <5>4 DEF a, zero
      <4> QED BY <3>1, <3>2, <4>1 DEF CDiv
    <3>3. CASE ~(u >= 0)
      <4> DEFINE v == -u
      <4>1. v \in Nat
        BY <3>1, <3>3
      <4> HIDE DEF v
      <4>2. v \div s \in Nat
        BY <4>1, DivMod
      <4>3. out = -(v \div s)
        BY <3>1, <3>3 DEF CDiv, v
      <4> QED BY <4>2, <4>3
    <3> QED BY <3>2, <3>3
  <2> HIDE DEF T, E, P
  <2> QED BY <1>1, <1>5, <1>7, <2>2, <2>3 DEF Counted, out, F, E, P
<1> QED
  BY <1>6, <1>7

-----------------------------------------------------------------------------
\* The channels of a group, and what a convolution reads of the image and of the weights.
GroupIn(n) == n.in_shape[2] \div n.groups
GroupOut(n) == n.out_channels \div n.groups
ConvX(n, i, ic, y, x) == n.input[offset(n.in_shape, <<i[1], (i[2] \div GroupOut(n)) * GroupIn(n) + ic, y, x>>)]
ConvW(n, i, ic, ky, kx) == n.weights[((i[2] * GroupIn(n) + ic) * n.filter_h + ky) * n.filter_w + kx]
AtConv(n, i) ==
  i[1] \in 0 .. n.in_shape[1] - 1 /\ i[2] \in 0 .. n.out_channels - 1 /\ i[3] \in Nat /\ i[4] \in Nat

\* A convolution that is compiled has these numbers.
ConvNumbers(n) ==
  /\ Shape(n.in_shape) /\ n.in_shape[1] \in Nat \ {0} /\ n.in_shape[3] \in Nat \ {0} /\ n.in_shape[4] \in Nat \ {0}
  /\ n.groups \in Nat \ {0} /\ n.out_channels \in Nat \ {0} /\ n.filter_h \in Nat \ {0} /\ n.filter_w \in Nat \ {0}
  /\ n.stride_h \in Nat \ {0} /\ n.stride_w \in Nat \ {0} /\ n.dilation_h \in Nat \ {0} /\ n.dilation_w \in Nat \ {0}
  /\ Bordered(n.padding_h) /\ Bordered(n.padding_w)
  /\ GroupIn(n) \in Nat \ {0} /\ GroupOut(n) \in Nat \ {0}
  /\ n.in_shape[2] = n.groups * GroupIn(n) /\ n.out_channels = n.groups * GroupOut(n)

\* A number that another divides is that many times it.
LEMMA Divides ==
  ASSUME NEW m \in Nat \ {0}, NEW g \in Nat \ {0}, m % g = 0
  PROVE  m \div g \in Nat \ {0} /\ m = g * (m \div g)
<1> DEFINE q == m \div g
           r == m % g
<1>1. q \in Nat /\ m = q * g + r /\ r = 0
  BY DivMod
<1> HIDE DEF q, r
<1>2. m = q * g /\ q * g = g * q
  BY <1>1
<1>3. q # 0
  <2> SUFFICES ASSUME q = 0 PROVE FALSE
    OBVIOUS
  <2>1. q * g = 0
    OBVIOUS
  <2> QED BY <1>2, <2>1
<1> QED
  BY <1>1, <1>2, <1>3 DEF q

\* The sizes of a described convolution are numbers, its groups divide its channels.
LEMMA ConvHasNumbers ==
  ASSUME NEW n, Convolves(n)
  PROVE  ConvNumbers(n)
<1>1. n.in_shape \in Shapes /\ n.groups \in Nat \ {0} /\ n.out_channels \in Nat \ {0}
      /\ n.in_shape[2] % n.groups = 0 /\ n.out_channels % n.groups = 0 /\ Filtered(n, n.in_shape[3], n.in_shape[4])
  BY DEF Convolves
<1>2. \A k \in 1 .. 4 : n.in_shape[k] \in Nat \ {0}
  BY <1>1 DEF Shapes
<1>3. GroupIn(n) \in Nat \ {0} /\ n.in_shape[2] = n.groups * GroupIn(n)
  <2> DEFINE m == n.in_shape[2]
             g == n.groups
  <2>1. m \in Nat \ {0} /\ g \in Nat \ {0} /\ m % g = 0
    BY <1>1, <1>2
  <2> HIDE DEF m, g
  <2>2. m \div g \in Nat \ {0} /\ m = g * (m \div g)
    BY <2>1, Divides
  <2> QED BY <2>2 DEF m, g, GroupIn
<1>4. GroupOut(n) \in Nat \ {0} /\ n.out_channels = n.groups * GroupOut(n)
  <2> DEFINE m == n.out_channels
             g == n.groups
  <2>1. m \in Nat \ {0} /\ g \in Nat \ {0} /\ m % g = 0
    BY <1>1, <1>2
  <2> HIDE DEF m, g
  <2>2. m \div g \in Nat \ {0} /\ m = g * (m \div g)
    BY <2>1, Divides
  <2> QED BY <2>2 DEF m, g, GroupOut
<1>5. /\ n.filter_h \in Nat \ {0} /\ n.filter_w \in Nat \ {0} /\ n.stride_h \in Nat \ {0} /\ n.stride_w \in Nat \ {0}
      /\ n.dilation_h \in Nat \ {0} /\ n.dilation_w \in Nat \ {0} /\ Bordered(n.padding_h) /\ Bordered(n.padding_w)
  BY <1>1 DEF Filtered, Bordered
<1> QED
  BY <1>1, <1>2, <1>3, <1>4, <1>5 DEF ConvNumbers, Shape, Shapes

\* What is read is there.
LEMMA ConvReads ==
  ASSUME NEW n, Convolves(n), NEW i, AtConv(n, i), NEW ic \in 0 .. GroupIn(n) - 1
  PROVE  /\ \A y \in 0 .. n.in_shape[3] - 1, x \in 0 .. n.in_shape[4] - 1 : ConvX(n, i, ic, y, x) \in Int
         /\ \A ky \in 0 .. n.filter_h - 1, kx \in 0 .. n.filter_w - 1 : ConvW(n, i, ic, ky, kx) \in Int
<1> DEFINE s == n.in_shape
           f == n.filter_h
           e == n.filter_w
           G == n.groups
           I == GroupIn(n)
           O == GroupOut(n)
           C == n.out_channels
           o == i[2]
           g == o \div O
           c == g * I + ic
<1>1. /\ Shape(s) /\ s[1] \in Nat \ {0} /\ s[3] \in Nat \ {0} /\ s[4] \in Nat \ {0} /\ f \in Nat \ {0} /\ e \in Nat \ {0}
      /\ G \in Nat \ {0} /\ I \in Nat \ {0} /\ O \in Nat \ {0} /\ C \in Nat \ {0} /\ s[2] = G * I /\ C = G * O
  BY ConvHasNumbers DEF ConvNumbers
<1>2. o \in 0 .. C - 1 /\ i[1] \in 0 .. s[1] - 1 /\ ic \in 0 .. I - 1
  BY DEF AtConv
<1>3. NumbersIn(n.input, compute_size(s)) /\ NumbersIn(n.weights, C * I * f * e)
  BY DEF Convolves, GroupIn
<1> HIDE DEF s, f, e, G, I, O, C, o
<1>4. c \in 0 .. s[2] - 1
  <2>1. g \in Nat /\ o % O \in 0 .. O - 1 /\ o = g * O + (o % O)
    <3>1. o \in Nat
      BY <1>1, <1>2
    <3> QED BY <1>1, <3>1, DivMod
  <2> HIDE DEF g
  <2>2. g < G
    <3> SUFFICES ASSUME g >= G PROVE FALSE
      BY <1>1, <2>1
    <3>1. g * O >= G * O /\ g * O \in Nat /\ G * O \in Nat
      BY <1>1, <2>1, Grows
    <3> DEFINE gO == g * O
               r == o % O
    <3>2. gO >= C /\ gO \in Nat /\ o = gO + r /\ r \in Nat
      BY <1>1, <2>1, <3>1
    <3> HIDE DEF gO, r
    <3> QED BY <1>1, <1>2, <3>2
  <2>3. g * I + ic \in 0 .. G * I - 1
    BY <1>1, <1>2, <2>1, <2>2, Below
  <2> QED BY <1>1, <2>3
<1> HIDE DEF g, c
<1>5. ASSUME NEW y \in 0 .. s[3] - 1, NEW x \in 0 .. s[4] - 1 PROVE ConvX(n, i, ic, y, x) \in Int
  <2> DEFINE at == <<i[1], c, y, x>>
             p == offset(s, at)
  <2>1. \A k \in 1 .. 4 : at[k] \in 0 .. s[k] - 1
    BY <1>2, <1>4
  <2>2. ConvX(n, i, ic, y, x) = n.input[p]
    BY DEF ConvX, c, g, s, o, O, I
  <2> HIDE DEF at
  <2>3. p \in 0 .. compute_size(s) - 1
    BY <1>1, <2>1, IndexOfOffset
  <2> HIDE DEF p
  <2> QED BY <1>3, <2>2, <2>3 DEF NumbersIn
<1>6. ASSUME NEW ky \in 0 .. f - 1, NEW kx \in 0 .. e - 1 PROVE ConvW(n, i, ic, ky, kx) \in Int
  <2> DEFINE a == o * I + ic
             b == a * f + ky
             CI == C * I
             CIf == CI * f
             p == b * e + kx
  <2>1. a \in 0 .. CI - 1
    BY <1>1, <1>2, Below
  <2>2. CI \in Nat
    BY <1>1
  <2> HIDE DEF a, CI
  <2>3. b \in 0 .. CIf - 1 /\ CIf \in Nat
    BY <1>1, <2>1, <2>2, Below
  <2> HIDE DEF b, CIf
  <2>4. p \in 0 .. CIf * e - 1
    BY <1>1, <2>3, Below
  <2>5. ConvW(n, i, ic, ky, kx) = n.weights[p]
    BY DEF ConvW, b, a, o, I, f, e
  <2>6. CIf * e = C * I * f * e
    BY DEF CIf, CI
  <2> HIDE DEF p
  <2> QED BY <1>3, <2>4, <2>5, <2>6 DEF NumbersIn
<1> QED
  BY <1>5, <1>6 DEF s, f, e

-----------------------------------------------------------------------------
\* The terms of the sum of an element: what is off the image is 0.
OnImage(n, i, ky, kx) == AtY(n, i[3], ky) \in 0 .. n.in_shape[3] - 1 /\ AtX(n, i[4], kx) \in 0 .. n.in_shape[4] - 1
ConvTerm(n, a, b, i, ic, ky, kx) ==
  IF OnImage(n, i, ky, kx)
  THEN (ConvX(n, i, ic, AtY(n, i[3], ky), AtX(n, i[4], kx)) + a) * (ConvW(n, i, ic, ky, kx) + b) ELSE 0
ConvRows(n, a, b, i, ic) ==
  [ky \in 0 .. (n.filter_h - 1) |-> [kx \in 0 .. (n.filter_w - 1) |-> ConvTerm(n, a, b, i, ic, ky, kx)]]
ConvOf(n, a, b, i, ic) == Total(RowSums(ConvRows(n, a, b, i, ic), n.filter_h, n.filter_w), n.filter_h)
ConvSum(n, a, b, i) == Total([ic \in 0 .. (GroupIn(n) - 1) |-> ConvOf(n, a, b, i, ic)], GroupIn(n))

\* Terms are numbers.
LEMMA TermIsInt ==
  ASSUME NEW n, Convolves(n), NEW i, AtConv(n, i), NEW ic \in 0 .. GroupIn(n) - 1, NEW a \in Int, NEW b \in Int,
         NEW ky \in 0 .. n.filter_h - 1, NEW kx \in 0 .. n.filter_w - 1
  PROVE  ConvTerm(n, a, b, i, ic, ky, kx) \in Int
<1>1. CASE OnImage(n, i, ky, kx)
  <2> DEFINE X == ConvX(n, i, ic, AtY(n, i[3], ky), AtX(n, i[4], kx))
             W == ConvW(n, i, ic, ky, kx)
  <2>1. X \in Int /\ W \in Int
    BY <1>1, ConvReads DEF OnImage
  <2>2. ConvTerm(n, a, b, i, ic, ky, kx) = (X + a) * (W + b)
    BY <1>1 DEF ConvTerm
  <2> HIDE DEF X, W
  <2> QED BY <2>1, <2>2
<1> QED
  BY <1>1 DEF ConvTerm

\* The window of an element, row and column.
LEMMA ConvReaches ==
  ASSUME NEW n, ConvNumbers(n), NEW y \in Nat, NEW x \in Nat
  PROVE  /\ Reaches(TapsY(n, n.in_shape[3], y), n.filter_h, OriginY(n, y), n.dilation_h, n.in_shape[3])
         /\ Reaches(TapsX(n, n.in_shape[4], x), n.filter_w, OriginX(n, x), n.dilation_w, n.in_shape[4])
<1> DEFINE at == OriginY(n, y)
           to == OriginX(n, x)
<1>1. /\ n.in_shape[3] \in Nat /\ n.in_shape[4] \in Nat /\ n.filter_h \in Nat /\ n.filter_w \in Nat
      /\ n.dilation_h \in Nat \ {0} /\ n.dilation_w \in Nat \ {0}
  BY DEF ConvNumbers
<1>2. at \in Int /\ to \in Int
  <2> DEFINE sy == n.stride_h
             sx == n.stride_w
             py == n.padding_h.before
             px == n.padding_w.before
  <2>1. sy \in Nat /\ sx \in Nat /\ py \in Nat /\ px \in Nat
    BY DEF ConvNumbers, Bordered
  <2>2. at = y * sy - py /\ to = x * sx - px
    BY DEF OriginY, OriginX
  <2> HIDE DEF sy, sx, py, px, at, to
  <2> QED BY <2>1, <2>2
<1> HIDE DEF at, to
<1>3. Reaches(Taps(n.in_shape[3], n.filter_h, at, n.dilation_h), n.filter_h, at, n.dilation_h, n.in_shape[3])
  BY <1>1, <1>2, TapsReach
<1>4. Reaches(Taps(n.in_shape[4], n.filter_w, to, n.dilation_w), n.filter_w, to, n.dilation_w, n.in_shape[4])
  BY <1>1, <1>2, TapsReach
<1> QED
  BY <1>3, <1>4 DEF TapsY, TapsX, at, to

\* What a kernel adds up over the window of an element is the sum of all terms.
HoldsTerms(n, a, b, i, ic, x) ==
  \A j \in TapsY(n, n.in_shape[3], i[3]), k \in TapsX(n, n.in_shape[4], i[4]) :
    j \in 0 .. n.filter_h - 1 /\ k \in 0 .. n.filter_w - 1 =>
      x[j - First(TapsY(n, n.in_shape[3], i[3]))][k - First(TapsX(n, n.in_shape[4], i[4]))] = ConvTerm(n, a, b, i, ic, j, k)

\* One input channel's clipped window adds up to its whole filter.
LEMMA ConvTapsTotal ==
  ASSUME NEW n, Convolves(n), NEW i, AtConv(n, i), NEW ic \in 0 .. GroupIn(n) - 1, NEW a \in Int, NEW b \in Int, NEW x,
         HoldsTerms(n, a, b, i, ic, x)
  PROVE  AccumulateRows("add", 0, x, Cardinality(TapsY(n, n.in_shape[3], i[3])), Cardinality(TapsX(n, n.in_shape[4], i[4])))
           = ConvOf(n, a, b, i, ic)
<1> DEFINE rows == TapsY(n, n.in_shape[3], i[3])
           cols == TapsX(n, n.in_shape[4], i[4])
           f == n.filter_h
           e == n.filter_w
           z == ConvRows(n, a, b, i, ic)
<1>1. ConvNumbers(n) /\ i[3] \in Nat /\ i[4] \in Nat
  BY ConvHasNumbers DEF AtConv
<1>2. /\ Reaches(rows, f, OriginY(n, i[3]), n.dilation_h, n.in_shape[3])
      /\ Reaches(cols, e, OriginX(n, i[4]), n.dilation_w, n.in_shape[4])
  BY <1>1, ConvReaches
<1>3. f \in Nat /\ e \in Nat
  BY <1>1 DEF ConvNumbers
<1> HIDE DEF rows, cols
<1>4. PICK lo, m : Stretch(rows, lo, m, f)
  BY <1>2 DEF Reaches
<1>5. PICK left, w : Stretch(cols, left, w, e)
  BY <1>2 DEF Reaches
<1>6. ASSUME NEW j \in 0 .. f - 1, NEW k \in 0 .. e - 1
      PROVE  /\ z[j][k] = ConvTerm(n, a, b, i, ic, j, k)
             /\ z[j][k] \in Int
             /\ j \notin rows \/ k \notin cols => z[j][k] = 0
             /\ j \in rows /\ k \in cols => x[j - First(rows)][k - First(cols)] = z[j][k]
  <2>1. z[j][k] = ConvTerm(n, a, b, i, ic, j, k)
    BY DEF ConvRows
  <2>2. z[j][k] \in Int
    BY <2>1, TermIsInt
  <2>3. (j \in rows <=> AtY(n, i[3], j) \in 0 .. n.in_shape[3] - 1) /\ (k \in cols <=> AtX(n, i[4], k) \in 0 .. n.in_shape[4] - 1)
    BY <1>2 DEF Reaches, AtY, AtX
  <2>4. j \notin rows \/ k \notin cols => z[j][k] = 0
    BY <2>1, <2>3 DEF ConvTerm, OnImage
  <2>5. j \in rows /\ k \in cols => x[j - First(rows)][k - First(cols)] = z[j][k]
    BY <2>1 DEF HoldsTerms, rows, cols
  <2> QED BY <2>1, <2>2, <2>4, <2>5
<1> HIDE DEF z
<1>7. ASSUME NEW j \in 0 .. Cardinality(rows) - 1, NEW k \in 0 .. Cardinality(cols) - 1
      PROVE  x[j][k] = z[First(rows) + j][First(cols) + k]
  <2> DEFINE u == First(rows) + j
             v == First(cols) + k
  <2>1. /\ lo \in Nat /\ m \in Nat /\ lo + m <= f /\ Cardinality(rows) = m
        /\ left \in Nat /\ w \in Nat /\ left + w <= e /\ Cardinality(cols) = w
    BY <1>4, <1>5 DEF Stretch
  <2>2. j \in 0 .. m - 1 /\ k \in 0 .. w - 1
    BY <2>1
  <2>3. First(rows) = lo /\ First(cols) = left
    BY <1>4, <1>5, <2>1, <2>2 DEF Stretch
  <2>4. lo + j \in Int /\ left + k \in Int /\ lo <= lo + j /\ lo + j < lo + m /\ left <= left + k /\ left + k < left + w
    BY <2>1, <2>2
  <2>5. lo + j \in rows /\ left + k \in cols
    BY <1>4, <1>5, <2>4 DEF Stretch
  <2>6. u \in 0 .. f - 1 /\ v \in 0 .. e - 1 /\ u \in rows /\ v \in cols
    BY <1>3, <2>1, <2>3, <2>4, <2>5
  <2>7. u - First(rows) = j /\ v - First(cols) = k
    BY <2>1, <2>2, <2>3
  <2> HIDE DEF u, v
  <2>8. x[u - First(rows)][v - First(cols)] = z[u][v]
    BY <1>6, <2>6
  <2> QED BY <2>7, <2>8 DEF u, v
<1>8. TapsOf(z, f, e, x, rows, cols)
  BY <1>6, <1>7 DEF TapsOf
<1> HIDE DEF f, e
<1>9. AccumulateRows("add", 0, x, Cardinality(rows), Cardinality(cols)) = Total(RowSums(z, f, e), f)
  BY <1>3, <1>4, <1>5, <1>8, TapsTotal
<1> QED
  BY <1>9 DEF ConvOf, z, f, e, rows, cols

-----------------------------------------------------------------------------
\* What the kernel adds up: plain products, or products of numbers with their offsets.
PlainTaps(n, i, ic) ==
  [r \in 0 .. (Cardinality(TapsY(n, n.in_shape[3], i[3])) - 1) |-> [c \in 0 .. (Cardinality(TapsX(n, n.in_shape[4], i[4])) - 1) |->
     ConvX(n, i, ic, AtY(n, i[3], First(TapsY(n, n.in_shape[3], i[3])) + r), AtX(n, i[4], First(TapsX(n, n.in_shape[4], i[4])) + c))
       * ConvW(n, i, ic, First(TapsY(n, n.in_shape[3], i[3])) + r, First(TapsX(n, n.in_shape[4], i[4])) + c)]]
OffsetTaps(n, a, b, i, ic) ==
  [r \in 0 .. (Cardinality(TapsY(n, n.in_shape[3], i[3])) - 1) |-> [c \in 0 .. (Cardinality(TapsX(n, n.in_shape[4], i[4])) - 1) |->
     (ConvX(n, i, ic, AtY(n, i[3], First(TapsY(n, n.in_shape[3], i[3])) + r), AtX(n, i[4], First(TapsX(n, n.in_shape[4], i[4])) + c)) + a)
       * (ConvW(n, i, ic, First(TapsY(n, n.in_shape[3], i[3])) + r, First(TapsX(n, n.in_shape[4], i[4])) + c) + b)]]
PlainSum(n, i) ==
  Total([ic \in 0 .. (GroupIn(n) - 1) |->
           AccumulateRows("add", 0, PlainTaps(n, i, ic), Cardinality(TapsY(n, n.in_shape[3], i[3])), Cardinality(TapsX(n, n.in_shape[4], i[4])))], GroupIn(n))
OffsetSum(n, a, b, i) ==
  Total([ic \in 0 .. (GroupIn(n) - 1) |->
           AccumulateRows("add", 0, OffsetTaps(n, a, b, i, ic), Cardinality(TapsY(n, n.in_shape[3], i[3])), Cardinality(TapsX(n, n.in_shape[4], i[4])))], GroupIn(n))

\* conv2d, element by element.
LEMMA Conv2dIs ==
  ASSUME NEW n
  PROVE  conv2d(n) = [p \in 0 .. (compute_size(ConvShape(n)) - 1) |->
           Activated(n.bias[Index(ConvShape(n), p)[2]] + PlainSum(n, Index(ConvShape(n), p)), n)]
  BY DEF conv2d, Convolved, PlainSum, PlainTaps, ConvX, ConvW, GroupIn, GroupOut, Tensor, SumOver, OverTaps, Total

\* quantized_conv2d, element by element.
LEMMA QuantizedConv2dIs ==
  ASSUME NEW n
  PROVE  quantized_conv2d(n) = [p \in 0 .. (compute_size(ConvShape(n)) - 1) |->
           Requantized(n.bias[Index(ConvShape(n), p)[2]] + OffsetSum(n, n.input_offset, n.filter_offset, Index(ConvShape(n), p)), n)]
  BY DEF quantized_conv2d, Convolved, OffsetSum, OffsetTaps, ConvX, ConvW, GroupIn, GroupOut, Tensor, SumOver, OverTaps, Total

\* A tap that is reached, counted from the first.
LEMMA ReachedFrom ==
  ASSUME NEW S, NEW f \in Nat, NEW at \in Int, NEW d \in Nat, NEW h \in Nat, Reaches(S, f, at, d, h), NEW k \in S
  PROVE  /\ k \in 0 .. f - 1 => k - First(S) \in 0 .. Cardinality(S) - 1 /\ First(S) + (k - First(S)) = k
<1>1. PICK lo, m : Stretch(S, lo, m, f)
  BY DEF Reaches
<1> SUFFICES ASSUME k \in 0 .. f - 1 PROVE k - First(S) \in 0 .. Cardinality(S) - 1 /\ First(S) + (k - First(S)) = k
  OBVIOUS
<1>2. lo \in Nat /\ m \in Nat /\ Cardinality(S) = m /\ lo <= k /\ k < lo + m
  BY <1>1 DEF Stretch
<1>3. First(S) = lo
  BY <1>1, <1>2 DEF Stretch
<1> QED
  BY <1>2, <1>3

\* The kernels' arrays hold the terms.
LEMMA OffsetTapsHold ==
  ASSUME NEW n, Convolves(n), NEW i, AtConv(n, i), NEW ic \in 0 .. GroupIn(n) - 1, NEW a \in Int, NEW b \in Int
  PROVE  HoldsTerms(n, a, b, i, ic, OffsetTaps(n, a, b, i, ic)) /\ HoldsTerms(n, 0, 0, i, ic, PlainTaps(n, i, ic))
<1> DEFINE rows == TapsY(n, n.in_shape[3], i[3])
           cols == TapsX(n, n.in_shape[4], i[4])
           f == n.filter_h
           e == n.filter_w
<1>1. ConvNumbers(n) /\ i[3] \in Nat /\ i[4] \in Nat
  BY ConvHasNumbers DEF AtConv
<1>2. /\ Reaches(rows, f, OriginY(n, i[3]), n.dilation_h, n.in_shape[3])
      /\ Reaches(cols, e, OriginX(n, i[4]), n.dilation_w, n.in_shape[4])
  BY <1>1, ConvReaches
<1>3. f \in Nat /\ e \in Nat /\ n.dilation_h \in Nat /\ n.dilation_w \in Nat /\ n.in_shape[3] \in Nat /\ n.in_shape[4] \in Nat
  BY <1>1 DEF ConvNumbers
<1>4. OriginY(n, i[3]) \in Int /\ OriginX(n, i[4]) \in Int
  <2> DEFINE sy == n.stride_h
             sx == n.stride_w
             py == n.padding_h.before
             px == n.padding_w.before
             y == i[3]
             x == i[4]
  <2>1. sy \in Nat /\ sx \in Nat /\ py \in Nat /\ px \in Nat /\ y \in Nat /\ x \in Nat
    BY <1>1 DEF ConvNumbers, Bordered
  <2>2. OriginY(n, i[3]) = y * sy - py /\ OriginX(n, i[4]) = x * sx - px
    BY DEF OriginY, OriginX
  <2> HIDE DEF sy, sx, py, px, y, x
  <2> QED BY <2>1, <2>2
<1>5. ASSUME NEW j \in rows, NEW k \in cols, j \in 0 .. f - 1, k \in 0 .. e - 1
      PROVE  /\ OffsetTaps(n, a, b, i, ic)[j - First(rows)][k - First(cols)] = ConvTerm(n, a, b, i, ic, j, k)
             /\ PlainTaps(n, i, ic)[j - First(rows)][k - First(cols)] = ConvTerm(n, 0, 0, i, ic, j, k)
  <2> DEFINE r == j - First(rows)
             c == k - First(cols)
             Y(q) == AtY(n, i[3], q)
             Z(q) == AtX(n, i[4], q)
             X == ConvX(n, i, ic, Y(j), Z(k))
             W == ConvW(n, i, ic, j, k)
  <2>1. r \in 0 .. Cardinality(rows) - 1 /\ First(rows) + r = j
    <3> HIDE DEF rows
    <3> QED BY <1>2, <1>3, <1>4, <1>5, ReachedFrom
  <2>2. c \in 0 .. Cardinality(cols) - 1 /\ First(cols) + c = k
    <3> HIDE DEF cols
    <3> QED BY <1>2, <1>3, <1>4, <1>5, ReachedFrom
  <2> HIDE DEF r, c
  <2>3. /\ OffsetTaps(n, a, b, i, ic)[r][c] =
             (ConvX(n, i, ic, Y(First(rows) + r), Z(First(cols) + c)) + a) * (ConvW(n, i, ic, First(rows) + r, First(cols) + c) + b)
        /\ PlainTaps(n, i, ic)[r][c] =
             ConvX(n, i, ic, Y(First(rows) + r), Z(First(cols) + c)) * ConvW(n, i, ic, First(rows) + r, First(cols) + c)
    BY <2>1, <2>2 DEF OffsetTaps, PlainTaps
  <2>4. OffsetTaps(n, a, b, i, ic)[r][c] = (X + a) * (W + b) /\ PlainTaps(n, i, ic)[r][c] = X * W
    BY <2>1, <2>2, <2>3
  <2>5. OnImage(n, i, j, k)
    BY <1>2, <1>5 DEF Reaches, OnImage, AtY, AtX
  <2>6. X \in Int /\ W \in Int
    BY <1>5, <2>5, ConvReads DEF OnImage
  <2>7. ConvTerm(n, a, b, i, ic, j, k) = (X + a) * (W + b) /\ ConvTerm(n, 0, 0, i, ic, j, k) = (X + 0) * (W + 0)
    BY <2>5 DEF ConvTerm
  <2> HIDE DEF X, W
  <2>8. X + 0 = X /\ W + 0 = W
    BY <2>6
  <2> QED BY <2>4, <2>7, <2>8 DEF r, c
<1> QED
  BY <1>5 DEF HoldsTerms

\* The kernels' sums are the sum over the whole filter, channel by channel.
LEMMA KernelSums ==
  ASSUME NEW n, Convolves(n), NEW i, AtConv(n, i), NEW a \in Int, NEW b \in Int
  PROVE  OffsetSum(n, a, b, i) = ConvSum(n, a, b, i) /\ PlainSum(n, i) = ConvSum(n, 0, 0, i)
<1> DEFINE I == GroupIn(n)
           K(ic) == AccumulateRows("add", 0, OffsetTaps(n, a, b, i, ic), Cardinality(TapsY(n, n.in_shape[3], i[3])), Cardinality(TapsX(n, n.in_shape[4], i[4])))
           L(ic) == AccumulateRows("add", 0, PlainTaps(n, i, ic), Cardinality(TapsY(n, n.in_shape[3], i[3])), Cardinality(TapsX(n, n.in_shape[4], i[4])))
           T(ic) == ConvOf(n, a, b, i, ic)
           U(ic) == ConvOf(n, 0, 0, i, ic)
<1>1. ASSUME NEW ic \in 0 .. I - 1 PROVE K(ic) = T(ic) /\ L(ic) = U(ic)
  <2>1. HoldsTerms(n, a, b, i, ic, OffsetTaps(n, a, b, i, ic)) /\ HoldsTerms(n, 0, 0, i, ic, PlainTaps(n, i, ic))
    BY OffsetTapsHold
  <2>2. K(ic) = T(ic)
    BY <2>1, ConvTapsTotal
  <2>3. L(ic) = U(ic)
    <3> DEFINE zero == 0
               x == PlainTaps(n, i, ic)
    <3>1. zero \in Int /\ HoldsTerms(n, zero, zero, i, ic, x)
      BY <2>1
    <3> HIDE DEF zero, x
    <3>2. AccumulateRows("add", 0, x, Cardinality(TapsY(n, n.in_shape[3], i[3])), Cardinality(TapsX(n, n.in_shape[4], i[4])))
            = ConvOf(n, zero, zero, i, ic)
      BY <3>1, ConvTapsTotal
    <3> QED BY <3>2 DEF zero, x
  <2> QED BY <2>2, <2>3
<1>2. OffsetSum(n, a, b, i) = Total([ic \in 0 .. I - 1 |-> K(ic)], I) /\ PlainSum(n, i) = Total([ic \in 0 .. I - 1 |-> L(ic)], I)
  BY DEF OffsetSum, PlainSum
<1>3. ConvSum(n, a, b, i) = Total([ic \in 0 .. I - 1 |-> T(ic)], I) /\ ConvSum(n, 0, 0, i) = Total([ic \in 0 .. I - 1 |-> U(ic)], I)
  BY DEF ConvSum
<1> HIDE DEF K, L, T, U, I
<1>4. [ic \in 0 .. I - 1 |-> K(ic)] = [ic \in 0 .. I - 1 |-> T(ic)] /\ [ic \in 0 .. I - 1 |-> L(ic)] = [ic \in 0 .. I - 1 |-> U(ic)]
  BY <1>1
<1> QED
  BY <1>2, <1>3, <1>4

-----------------------------------------------------------------------------
\* The sums of the textbook.
TextShape(n) ==
  << n.in_shape[1], n.out_channels,
     Cardinality(Fits(n.in_shape[3], n.filter_h, n.stride_h, n.dilation_h, n.padding_h)),
     Cardinality(Fits(n.in_shape[4], n.filter_w, n.stride_w, n.dilation_w, n.padding_w)) >>
TextPlain(n, i, ic, ky, kx) ==
  (IF OnImage(n, i, ky, kx) THEN ConvX(n, i, ic, AtY(n, i[3], ky), AtX(n, i[4], kx)) ELSE 0)
    * n.weights[offset(<<n.out_channels, GroupIn(n), n.filter_h, n.filter_w>>, <<i[2], ic, ky, kx>>)]
TextTerm(n, a, b, i, ic, ky, kx) ==
  (IF OnImage(n, i, ky, kx) THEN ConvX(n, i, ic, AtY(n, i[3], ky), AtX(n, i[4], kx)) + a ELSE 0)
    * (n.weights[offset(<<n.out_channels, GroupIn(n), n.filter_h, n.filter_w>>, <<i[2], ic, ky, kx>>)] + b)
TextPlainRow(n, i, ic, ky) == [kx \in 0 .. (n.filter_w - 1) |-> TextPlain(n, i, ic, ky, kx)]
TextPlainOf(n, i, ic) == [ky \in 0 .. (n.filter_h - 1) |-> Total(TextPlainRow(n, i, ic, ky), n.filter_w)]
TextPlainSum(n, i) == Total([ic \in 0 .. (GroupIn(n) - 1) |-> Total(TextPlainOf(n, i, ic), n.filter_h)], GroupIn(n))
TextRow(n, a, b, i, ic, ky) == [kx \in 0 .. (n.filter_w - 1) |-> TextTerm(n, a, b, i, ic, ky, kx)]
TextOf(n, a, b, i, ic) == [ky \in 0 .. (n.filter_h - 1) |-> Total(TextRow(n, a, b, i, ic, ky), n.filter_w)]
TextSum(n, a, b, i) == Total([ic \in 0 .. (GroupIn(n) - 1) |-> Total(TextOf(n, a, b, i, ic), n.filter_h)], GroupIn(n))

\* The reference convolution, element by element.
LEMMA TextbookIs ==
  ASSUME NEW n
  PROVE  /\ Textbook(n, LAMBDA x : x, LAMBDA w : w, LAMBDA v : Activated(v, n)) =
              [p \in 0 .. (compute_size(TextShape(n)) - 1) |->
                 Activated(n.bias[Index(TextShape(n), p)[2]] + TextPlainSum(n, Index(TextShape(n), p)), n)]
         /\ Textbook(n, LAMBDA x : x + n.input_offset, LAMBDA w : w + n.filter_offset, LAMBDA v : Requantized(v, n)) =
              [p \in 0 .. (compute_size(TextShape(n)) - 1) |->
                 Requantized(n.bias[Index(TextShape(n), p)[2]] + TextSum(n, n.input_offset, n.filter_offset, Index(TextShape(n), p)), n)]
  BY DEF Textbook, TextShape, TextPlainSum, TextPlainOf, TextPlainRow, TextPlain, TextSum, TextOf, TextRow, TextTerm,
     ConvX, OnImage, GroupIn, GroupOut, Tensor, SumOver, Total

\* The reference's sums are the same sum.
LEMMA TextSums ==
  ASSUME NEW n, Convolves(n), NEW i, AtConv(n, i), NEW a \in Int, NEW b \in Int
  PROVE  TextSum(n, a, b, i) = ConvSum(n, a, b, i) /\ TextPlainSum(n, i) = ConvSum(n, 0, 0, i)
<1> DEFINE I == GroupIn(n)
           f == n.filter_h
           e == n.filter_w
<1>1. ASSUME NEW ic \in 0 .. I - 1, NEW ky \in 0 .. f - 1, NEW kx \in 0 .. e - 1
      PROVE  TextTerm(n, a, b, i, ic, ky, kx) = ConvTerm(n, a, b, i, ic, ky, kx)
             /\ TextPlain(n, i, ic, ky, kx) = ConvTerm(n, 0, 0, i, ic, ky, kx)
  <2> DEFINE X == ConvX(n, i, ic, AtY(n, i[3], ky), AtX(n, i[4], kx))
             W == ConvW(n, i, ic, ky, kx)
             on == OnImage(n, i, ky, kx)
  <2>1. W \in Int
    BY ConvReads
  <2>2. n.weights[offset(<<n.out_channels, GroupIn(n), n.filter_h, n.filter_w>>, <<i[2], ic, ky, kx>>)] = W
    BY DEF offset, ConvW
  <2>3. /\ TextTerm(n, a, b, i, ic, ky, kx) = (IF on THEN X + a ELSE 0) * (W + b)
        /\ TextPlain(n, i, ic, ky, kx) = (IF on THEN X ELSE 0) * W
    BY <2>2 DEF TextTerm, TextPlain
  <2>4. /\ ConvTerm(n, a, b, i, ic, ky, kx) = IF on THEN (X + a) * (W + b) ELSE 0
        /\ ConvTerm(n, 0, 0, i, ic, ky, kx) = IF on THEN (X + 0) * (W + 0) ELSE 0
    BY DEF ConvTerm
  <2>5. on => X \in Int
    BY ConvReads DEF OnImage
  <2> HIDE DEF X, W, on
  <2>6. CASE on
    <3>1. X + 0 = X /\ W + 0 = W
      BY <2>1, <2>5, <2>6
    <3> QED BY <2>3, <2>4, <2>6, <3>1
  <2>7. CASE ~on
    <3>1. 0 * (W + b) = 0 /\ 0 * W = 0
      BY <2>1
    <3> QED BY <2>3, <2>4, <2>7, <3>1
  <2> QED BY <2>6, <2>7
<1>2. ASSUME NEW ic \in 0 .. I - 1, NEW ky \in 0 .. f - 1
      PROVE  /\ ConvRows(n, a, b, i, ic)[ky] = TextRow(n, a, b, i, ic, ky)
             /\ ConvRows(n, 0, 0, i, ic)[ky] = TextPlainRow(n, i, ic, ky)
  <2> DEFINE A(kx) == TextTerm(n, a, b, i, ic, ky, kx)
             B(kx) == ConvTerm(n, a, b, i, ic, ky, kx)
             C(kx) == TextPlain(n, i, ic, ky, kx)
             D(kx) == ConvTerm(n, 0, 0, i, ic, ky, kx)
  <2>1. \A kx \in 0 .. e - 1 : A(kx) = B(kx) /\ C(kx) = D(kx)
    BY <1>1
  <2>2. /\ ConvRows(n, a, b, i, ic)[ky] = [kx \in 0 .. e - 1 |-> B(kx)] /\ TextRow(n, a, b, i, ic, ky) = [kx \in 0 .. e - 1 |-> A(kx)]
        /\ ConvRows(n, 0, 0, i, ic)[ky] = [kx \in 0 .. e - 1 |-> D(kx)] /\ TextPlainRow(n, i, ic, ky) = [kx \in 0 .. e - 1 |-> C(kx)]
    BY DEF ConvRows, TextRow, TextPlainRow
  <2> HIDE DEF A, B, C, D, e
  <2>3. [kx \in 0 .. e - 1 |-> A(kx)] = [kx \in 0 .. e - 1 |-> B(kx)] /\ [kx \in 0 .. e - 1 |-> C(kx)] = [kx \in 0 .. e - 1 |-> D(kx)]
    BY <2>1
  <2> QED BY <2>2, <2>3
<1>3. ASSUME NEW ic \in 0 .. I - 1
      PROVE  /\ RowSums(ConvRows(n, a, b, i, ic), f, e) = TextOf(n, a, b, i, ic)
             /\ RowSums(ConvRows(n, 0, 0, i, ic), f, e) = TextPlainOf(n, i, ic)
  <2> DEFINE A(ky) == Total(TextRow(n, a, b, i, ic, ky), e)
             B(ky) == Total(ConvRows(n, a, b, i, ic)[ky], e)
             C(ky) == Total(TextPlainRow(n, i, ic, ky), e)
             D(ky) == Total(ConvRows(n, 0, 0, i, ic)[ky], e)
  <2>1. \A ky \in 0 .. f - 1 : A(ky) = B(ky) /\ C(ky) = D(ky)
    BY <1>2
  <2>2. /\ RowSums(ConvRows(n, a, b, i, ic), f, e) = [ky \in 0 .. f - 1 |-> B(ky)] /\ TextOf(n, a, b, i, ic) = [ky \in 0 .. f - 1 |-> A(ky)]
        /\ RowSums(ConvRows(n, 0, 0, i, ic), f, e) = [ky \in 0 .. f - 1 |-> D(ky)] /\ TextPlainOf(n, i, ic) = [ky \in 0 .. f - 1 |-> C(ky)]
    BY DEF RowSums, TextOf, TextPlainOf
  <2> HIDE DEF A, B, C, D, e, f
  <2>3. [ky \in 0 .. f - 1 |-> A(ky)] = [ky \in 0 .. f - 1 |-> B(ky)] /\ [ky \in 0 .. f - 1 |-> C(ky)] = [ky \in 0 .. f - 1 |-> D(ky)]
    BY <2>1
  <2> QED BY <2>2, <2>3
<1> DEFINE A(ic) == Total(TextOf(n, a, b, i, ic), f)
           B(ic) == ConvOf(n, a, b, i, ic)
           C(ic) == Total(TextPlainOf(n, i, ic), f)
           D(ic) == ConvOf(n, 0, 0, i, ic)
<1>4. \A ic \in 0 .. I - 1 : A(ic) = B(ic) /\ C(ic) = D(ic)
  BY <1>3 DEF ConvOf
<1>5. /\ TextSum(n, a, b, i) = Total([ic \in 0 .. I - 1 |-> A(ic)], I) /\ ConvSum(n, a, b, i) = Total([ic \in 0 .. I - 1 |-> B(ic)], I)
      /\ TextPlainSum(n, i) = Total([ic \in 0 .. I - 1 |-> C(ic)], I) /\ ConvSum(n, 0, 0, i) = Total([ic \in 0 .. I - 1 |-> D(ic)], I)
  BY DEF TextSum, ConvSum, TextPlainSum
<1> HIDE DEF A, B, C, D, I
<1>6. [ic \in 0 .. I - 1 |-> A(ic)] = [ic \in 0 .. I - 1 |-> B(ic)] /\ [ic \in 0 .. I - 1 |-> C(ic)] = [ic \in 0 .. I - 1 |-> D(ic)]
  BY <1>4
<1> QED
  BY <1>5, <1>6

-----------------------------------------------------------------------------
\* The places of a filter on an image, as they are computed and as they are.
PlacesH(n, h) == Cardinality(Fits(h, n.filter_h, n.stride_h, n.dilation_h, n.padding_h))
PlacesW(n, w) == Cardinality(Fits(w, n.filter_w, n.stride_w, n.dilation_w, n.padding_w))
Places(n, h, w) == OutH(n, h) \in Nat \ {0} /\ OutW(n, w) \in Nat \ {0} /\ PlacesH(n, h) = OutH(n, h) /\ PlacesW(n, w) = OutW(n, w)
NoPlaces(n, h, w) ==
  /\ OutH(n, h) \in Int /\ OutW(n, w) \in Int /\ OutH(n, h) * OutW(n, w) <= 0
  /\ PlacesH(n, h) \in Nat /\ PlacesW(n, w) \in Nat /\ PlacesH(n, h) * PlacesW(n, w) <= 0

\* Both kernels count the same places, or neither has any.
LEMMA PlacesAgree ==
  ASSUME NEW n, NEW h \in Nat, NEW w \in Nat, Filtered(n, h, w)
  PROVE  Places(n, h, w) \/ NoPlaces(n, h, w)
<1> DEFINE a == OutH(n, h)
           b == OutW(n, w)
           c == PlacesH(n, h)
           d == PlacesW(n, w)
<1>1. /\ n.filter_h \in Nat \ {0} /\ n.filter_w \in Nat \ {0} /\ n.stride_h \in Nat \ {0} /\ n.stride_w \in Nat \ {0}
      /\ n.dilation_h \in Nat \ {0} /\ n.dilation_w \in Nat \ {0} /\ Bordered(n.padding_h) /\ Bordered(n.padding_w)
  BY DEF Filtered, Bordered
<1>2. Counted(h, n.filter_h, n.stride_h, n.dilation_h, n.padding_h) /\ Counted(w, n.filter_w, n.stride_w, n.dilation_w, n.padding_w)
  BY <1>1, PlacesCounted
<1>3. /\ a \in Int /\ c \in Nat /\ (a > 0 => c = a) /\ (a <= 0 => c = 0)
      /\ b \in Int /\ d \in Nat /\ (b > 0 => d = b) /\ (b <= 0 => d = 0)
      /\ a > 0 <=> (n.filter_h - 1) * n.dilation_h < h + n.padding_h.before + n.padding_h.after
      /\ b > 0 <=> (n.filter_w - 1) * n.dilation_w < w + n.padding_w.before + n.padding_w.after
  BY <1>2 DEF Counted, OutH, OutW, PlacesH, PlacesW
<1>4. a > 0 \/ b > 0
  BY <1>3 DEF Filtered
<1> HIDE DEF a, b, c, d
<1>5. CASE a > 0 /\ b > 0
  BY <1>3, <1>5 DEF Places, a, b, c, d
<1>6. CASE ~(a > 0 /\ b > 0)
  <2>1. a * b <= 0 /\ c * d <= 0
    <3>1. CASE a > 0 /\ b <= 0
      <4>1. d = 0 /\ -b \in Nat /\ a \in Nat
        BY <1>3, <3>1
      <4>2. a * (-b) >= 0 /\ a * (-b) = -(a * b)
        BY <1>3, <4>1
      <4>3. c * d = 0
        BY <1>3, <4>1
      <4> DEFINE ab == a * b
      <4>4. ab \in Int /\ -ab >= 0
        BY <1>3, <4>2
      <4> HIDE DEF ab
      <4>5. ab <= 0
        BY <4>4
      <4> QED BY <4>3, <4>5 DEF ab
    <3>2. CASE b > 0 /\ a <= 0
      <4>1. c = 0 /\ -a \in Nat /\ b \in Nat
        BY <1>3, <3>2
      <4>2. (-a) * b >= 0 /\ (-a) * b = -(a * b)
        BY <1>3, <4>1
      <4>3. c * d = 0
        BY <1>3, <4>1
      <4> DEFINE ab == a * b
      <4>4. ab \in Int /\ -ab >= 0
        BY <1>3, <4>2
      <4> HIDE DEF ab
      <4>5. ab <= 0
        BY <4>4
      <4> QED BY <4>3, <4>5 DEF ab
    <3> QED BY <1>3, <1>4, <1>6, <3>1, <3>2
  <2> QED BY <1>3, <2>1 DEF NoPlaces, a, b, c, d
<1> QED
  BY <1>5, <1>6

\* A tensor that has no places in one direction has no elements.
LEMMA NoElements ==
  ASSUME NEW b \in Nat, NEW c \in Nat, NEW y \in Int, NEW x \in Int, y * x <= 0
  PROVE  /\ compute_size(<<b, c, y, x>>) \in Int /\ compute_size(<<b, c, y, x>>) <= 0
         /\ compute_size(<<b, y, x, c>>) \in Int /\ compute_size(<<b, y, x, c>>) <= 0
<1> DEFINE m == b * c
           u == y * x
<1>1. m \in Nat /\ u \in Int /\ u <= 0
  BY Grows
<1>2. compute_size(<<b, c, y, x>>) = m * u
  <2>1. b * c * y * x = (b * c) * (y * x)
    OBVIOUS
  <2> QED BY <2>1 DEF compute_size
<1>3. compute_size(<<b, y, x, c>>) = m * u
  <2>1. b * y * x * c = (b * c) * (y * x)
    OBVIOUS
  <2> QED BY <2>1 DEF compute_size
<1> HIDE DEF m, u
<1>4. m * u \in Int /\ m * u <= 0
  <2>1. -u \in Nat /\ m * (-u) >= 0 /\ m * (-u) = -(m * u) /\ m * u \in Int
    BY <1>1
  <2> DEFINE mu == m * u
  <2>2. mu \in Int /\ -mu >= 0
    BY <2>1
  <2> HIDE DEF mu
  <2>3. mu <= 0
    BY <2>2
  <2> QED BY <2>2, <2>3 DEF mu
<1> QED
  BY <1>2, <1>3, <1>4

\* The kernel's output has the shape of the textbook's, or neither has elements.
SameOutput(s, t) ==
  \/ s = t /\ Shape(s)
  \/ 0 .. (compute_size(s) - 1) = {} /\ 0 .. (compute_size(t) - 1) = {}

\* The kernel and the reference write tensors of one shape.
LEMMA ConvOutput ==
  ASSUME NEW n, Convolves(n)
  PROVE  SameOutput(ConvShape(n), TextShape(n)) /\ (Shape(ConvShape(n)) => ConvShape(n)[1] = n.in_shape[1] /\ ConvShape(n)[2] = n.out_channels)
<1> DEFINE h == n.in_shape[3]
           w == n.in_shape[4]
           b == n.in_shape[1]
           c == n.out_channels
<1>1. ConvNumbers(n) /\ Filtered(n, h, w)
  BY ConvHasNumbers DEF Convolves
<1>2. b \in Nat \ {0} /\ c \in Nat \ {0} /\ h \in Nat /\ w \in Nat /\ n.groups * (n.out_channels \div n.groups) = c
  BY <1>1 DEF ConvNumbers, GroupOut
<1>3. ConvShape(n) = <<b, c, OutH(n, h), OutW(n, w)>>
  BY <1>2 DEF ConvShape
<1>4. TextShape(n) = <<b, c, PlacesH(n, h), PlacesW(n, w)>>
  BY DEF TextShape, PlacesH, PlacesW
<1>5. ConvShape(n)[1] = b /\ ConvShape(n)[2] = c
  BY <1>3
<1> HIDE DEF h, w, b, c
<1>6. CASE Places(n, h, w)
  <2>1. ConvShape(n) = TextShape(n)
    BY <1>3, <1>4, <1>6 DEF Places
  <2>2. Shape(ConvShape(n))
    BY <1>2, <1>3, <1>6 DEF Places, Shape
  <2> QED BY <1>5, <2>1, <2>2 DEF SameOutput, b, c
<1>7. CASE NoPlaces(n, h, w)
  <2> DEFINE k == compute_size(ConvShape(n))
             t == compute_size(TextShape(n))
  <2>1. k \in Int /\ k <= 0
    <3> DEFINE y == OutH(n, h)
               x == OutW(n, w)
    <3>1. y \in Int /\ x \in Int /\ y * x <= 0
      BY <1>7 DEF NoPlaces
    <3> HIDE DEF y, x
    <3>2. compute_size(<<b, c, y, x>>) \in Int /\ compute_size(<<b, c, y, x>>) <= 0
      BY <1>2, <3>1, NoElements
    <3> QED BY <1>3, <3>2 DEF y, x
  <2>2. t \in Int /\ t <= 0
    <3> DEFINE y == PlacesH(n, h)
               x == PlacesW(n, w)
    <3>1. y \in Int /\ x \in Int /\ y * x <= 0
      BY <1>7 DEF NoPlaces
    <3> HIDE DEF y, x
    <3>2. compute_size(<<b, c, y, x>>) \in Int /\ compute_size(<<b, c, y, x>>) <= 0
      BY <1>2, <3>1, NoElements
    <3> QED BY <1>4, <3>2 DEF y, x
  <2> HIDE DEF k, t
  <2>3. 0 .. (k - 1) = {} /\ 0 .. (t - 1) = {}
    BY <2>1, <2>2
  <2> QED BY <1>5, <2>3 DEF SameOutput, k, t, b, c
<1> QED
  BY <1>1, <1>2, <1>6, <1>7, PlacesAgree

\* Where the elements of an output are.
LEMMA ConvPlaced ==
  ASSUME NEW n, Convolves(n), Shape(ConvShape(n)), NEW p \in 0 .. compute_size(ConvShape(n)) - 1
  PROVE  AtConv(n, Index(ConvShape(n), p))
<1> DEFINE s == ConvShape(n)
           i == Index(s, p)
<1>1. s[1] = n.in_shape[1] /\ s[2] = n.out_channels
  BY ConvOutput
<1> HIDE DEF s
<1>2. \A k \in 1 .. 4 : i[k] \in 0 .. s[k] - 1
  BY OffsetOfIndex DEF s
<1> HIDE DEF i
<1>3. i[1] \in 0 .. s[1] - 1 /\ i[2] \in 0 .. s[2] - 1 /\ i[3] \in 0 .. s[3] - 1 /\ i[4] \in 0 .. s[4] - 1
  BY <1>2
<1>4. i[3] \in Nat /\ i[4] \in Nat
  <2>1. s[3] \in Nat /\ s[4] \in Nat
    BY DEF Shape, s
  <2> QED BY <1>3, <2>1
<1> QED
  BY <1>1, <1>3, <1>4 DEF AtConv, i, s

\* The kernels give every element its sum.
ConvValue(n, p) == Activated(n.bias[Index(ConvShape(n), p)[2]] + ConvSum(n, 0, 0, Index(ConvShape(n), p)), n)
QuantizedValue(n, a, b, p) == Requantized(n.bias[Index(ConvShape(n), p)[2]] + ConvSum(n, a, b, Index(ConvShape(n), p)), n)

\* Each element of conv2d and quantized_conv2d is the bias and the sum, activated.
LEMMA ConvKernels ==
  ASSUME NEW n, Convolves(n)
  PROVE  /\ conv2d(n) = [p \in 0 .. (compute_size(ConvShape(n)) - 1) |-> ConvValue(n, p)]
         /\ Offset(n) => quantized_conv2d(n) =
              [p \in 0 .. (compute_size(ConvShape(n)) - 1) |-> QuantizedValue(n, n.input_offset, n.filter_offset, p)]
<1> DEFINE D == 0 .. (compute_size(ConvShape(n)) - 1)
           a == n.input_offset
           b == n.filter_offset
           A(p) == Activated(n.bias[Index(ConvShape(n), p)[2]] + PlainSum(n, Index(ConvShape(n), p)), n)
           B(p) == ConvValue(n, p)
           C(p) == Requantized(n.bias[Index(ConvShape(n), p)[2]] + OffsetSum(n, a, b, Index(ConvShape(n), p)), n)
           E(p) == QuantizedValue(n, a, b, p)
<1>1. D = {} \/ Shape(ConvShape(n))
  BY ConvOutput DEF SameOutput
<1>2. ASSUME NEW p \in D PROVE A(p) = B(p)
  <2> DEFINE i == Index(ConvShape(n), p)
             zero == 0
  <2>1. AtConv(n, i)
    BY <1>1, ConvPlaced
  <2>2. zero \in Int
    OBVIOUS
  <2> HIDE DEF zero, i
  <2>3. PlainSum(n, i) = ConvSum(n, 0, 0, i)
    BY <2>1, <2>2, KernelSums
  <2> QED BY <2>3 DEF ConvValue, i
<1>3. ASSUME NEW p \in D, Offset(n) PROVE C(p) = E(p)
  <2> DEFINE i == Index(ConvShape(n), p)
  <2>1. AtConv(n, i)
    BY <1>1, ConvPlaced
  <2>2. a \in Int /\ b \in Int
    BY <1>3 DEF Offset
  <2> HIDE DEF a, b, i
  <2>3. OffsetSum(n, a, b, i) = ConvSum(n, a, b, i)
    BY <2>1, <2>2, KernelSums
  <2> QED BY <2>3 DEF QuantizedValue, i
<1>4. conv2d(n) = [p \in D |-> A(p)] /\ quantized_conv2d(n) = [p \in D |-> C(p)]
  BY Conv2dIs, QuantizedConv2dIs
<1> HIDE DEF A, B, C, E, D
<1>5. [p \in D |-> A(p)] = [p \in D |-> B(p)] /\ (Offset(n) => [p \in D |-> C(p)] = [p \in D |-> E(p)])
  BY <1>2, <1>3
<1>6. conv2d(n) = [p \in D |-> B(p)] /\ (Offset(n) => quantized_conv2d(n) = [p \in D |-> E(p)])
  BY <1>4, <1>5
<1> QED
  BY <1>6 DEF B, E, D

\* So does the textbook.
LEMMA ConvTextbooks ==
  ASSUME NEW n, Convolves(n)
  PROVE  /\ conv2d(n) = Textbook(n, LAMBDA x : x, LAMBDA w : w, LAMBDA v : Activated(v, n))
         /\ Offset(n) => quantized_conv2d(n) =
              Textbook(n, LAMBDA x : x + n.input_offset, LAMBDA w : w + n.filter_offset, LAMBDA v : Requantized(v, n))
<1> DEFINE D == 0 .. (compute_size(ConvShape(n)) - 1)
           T == 0 .. (compute_size(TextShape(n)) - 1)
           a == n.input_offset
           b == n.filter_offset
           A(p) == Activated(n.bias[Index(TextShape(n), p)[2]] + TextPlainSum(n, Index(TextShape(n), p)), n)
           B(p) == ConvValue(n, p)
           C(p) == Requantized(n.bias[Index(TextShape(n), p)[2]] + TextSum(n, a, b, Index(TextShape(n), p)), n)
           E(p) == QuantizedValue(n, a, b, p)
<1>1. \/ ConvShape(n) = TextShape(n) /\ Shape(ConvShape(n)) /\ D = T
      \/ D = {} /\ T = {}
  BY ConvOutput DEF SameOutput
<1>2. ASSUME NEW p \in D PROVE A(p) = B(p)
  <2> DEFINE i == Index(ConvShape(n), p)
             zero == 0
  <2>1. AtConv(n, i) /\ ConvShape(n) = TextShape(n)
    BY <1>1, ConvPlaced
  <2>2. zero \in Int
    OBVIOUS
  <2> HIDE DEF zero, i
  <2>3. TextPlainSum(n, i) = ConvSum(n, 0, 0, i)
    BY <2>1, <2>2, TextSums
  <2> QED BY <2>1, <2>3 DEF ConvValue, i
<1>3. ASSUME NEW p \in D, Offset(n) PROVE C(p) = E(p)
  <2> DEFINE i == Index(ConvShape(n), p)
  <2>1. AtConv(n, i) /\ ConvShape(n) = TextShape(n)
    BY <1>1, ConvPlaced
  <2>2. a \in Int /\ b \in Int
    BY <1>3 DEF Offset
  <2> HIDE DEF a, b, i
  <2>3. TextSum(n, a, b, i) = ConvSum(n, a, b, i)
    BY <2>1, <2>2, TextSums
  <2> QED BY <2>1, <2>3 DEF QuantizedValue, i
<1> DEFINE P == Textbook(n, LAMBDA x : x, LAMBDA w : w, LAMBDA v : Activated(v, n))
           Q == Textbook(n, LAMBDA x : x + n.input_offset, LAMBDA w : w + n.filter_offset, LAMBDA v : Requantized(v, n))
<1>4. P = [p \in T |-> A(p)] /\ Q = [p \in T |-> C(p)]
  BY TextbookIs
<1>5. conv2d(n) = [p \in D |-> B(p)] /\ (Offset(n) => quantized_conv2d(n) = [p \in D |-> E(p)])
  BY ConvKernels
<1>6. D = T
  BY <1>1
<1> HIDE DEF A, B, C, E, D, T, P, Q
<1>7. [p \in D |-> A(p)] = [p \in D |-> B(p)] /\ (Offset(n) => [p \in D |-> C(p)] = [p \in D |-> E(p)])
  BY <1>2, <1>3
<1>8. conv2d(n) = P /\ (Offset(n) => quantized_conv2d(n) = Q)
  BY <1>4, <1>5, <1>6, <1>7
<1> QED
  BY <1>8 DEF P, Q

-----------------------------------------------------------------------------
\* The convolution that a matrix product is.
AsConv(n) == [ in_shape |-> <<n.a_rows, n.a_cols, 1, 1>>, groups |-> 1, out_channels |-> n.b_cols,
                         filter_h |-> 1, filter_w |-> 1, stride_h |-> 1, stride_w |-> 1, dilation_h |-> 1, dilation_w |-> 1,
                         padding_h |-> [before |-> 0, after |-> 0], padding_w |-> [before |-> 0, after |-> 0],
                         input |-> n.input_a, input_offset |-> n.input_a_offset, filter_offset |-> n.input_b_offset,
                         weights |-> [p \in DOMAIN n.input_b |-> n.input_b[(p % n.a_cols) * n.b_cols + (p \div n.a_cols)]],
                         bias |-> n.bias, fused_activation |-> n.fused_activation,
                         output_mul |-> n.output_mul, output_shift |-> n.output_shift, output_offset |-> n.output_offset ]

\* What a product adds up.
Multiplied(n, p, k) == n.input_a[(p \div n.b_cols) * n.a_cols + k] * n.input_b[k * n.b_cols + (p % n.b_cols)]
MultipliedWith(n, a, b, p, k) ==
  (n.input_a[(p \div n.b_cols) * n.a_cols + k] + a) * (n.input_b[k * n.b_cols + (p % n.b_cols)] + b)

\* matmul and quantized_matmul, element by element.
LEMMA MatmulIs ==
  ASSUME NEW n
  PROVE  /\ matmul(n) = [p \in 0 .. (n.a_rows * n.b_cols - 1) |->
              Activated(n.bias[p % n.b_cols] + Total([k \in 0 .. (n.a_cols - 1) |-> Multiplied(n, p, k)], n.a_cols), n)]
         /\ quantized_matmul(n) = [p \in 0 .. (n.a_rows * n.b_cols - 1) |->
              Requantized(n.bias[p % n.b_cols]
                + Total([k \in 0 .. (n.a_cols - 1) |-> MultipliedWith(n, n.input_a_offset, n.input_b_offset, p, k)], n.a_cols), n)]
  BY DEF matmul, quantized_matmul, Product, Depth, Multiplied, MultipliedWith, SumOver, Total

\* A sum of one is that one.
LEMMA TotalOfOne ==
  ASSUME NEW x, x[0] \in Int
  PROVE  Total(x, 1) = x[0]
<1> DEFINE n == 1
<1>1. n \in Nat /\ \A k \in 0 .. n - 1 : x[k] \in Int
  OBVIOUS
<1> HIDE DEF n
<1>2. Totals(x, n)
  BY <1>1, TotalSteps
<1>3. Total(x, 0) = 0 /\ Total(x, 1) = Total(x, 1 - 1) + x[1 - 1]
  BY <1>2 DEF Totals, n
<1>4. Total(x, 1) = 0 + x[0]
  BY <1>3
<1> QED
  BY <1>4

\* Dividing by one, and what is below one.
LEMMA ByOne ==
  ASSUME NEW p \in Nat
  PROVE  p \div 1 = p /\ p % 1 = 0
<1> DEFINE a == p \div 1
           b == p % 1
           one == 1
<1>1. one \in Nat \ {0} /\ a = p \div one /\ b = p % one
  OBVIOUS
<1> HIDE DEF one, a, b
<1>2. a \in Nat /\ b \in 0 .. one - 1 /\ p = a * one + b
  BY <1>1, DivMod
<1>3. b = 0 /\ p = a * 1
  BY <1>2 DEF one
<1> QED
  BY <1>2, <1>3 DEF a, b

\* The matrices as a convolution.
LEMMA AsConvIs ==
  ASSUME NEW n, Multiplies(n)
  PROVE  Convolves(AsConv(n)) /\ GroupIn(AsConv(n)) = n.a_cols /\ GroupOut(AsConv(n)) = n.b_cols
         /\ ConvShape(AsConv(n)) = <<n.a_rows, n.b_cols, 1, 1>>
<1> DEFINE r == AsConv(n)
           w == r.weights
           m == n.a_rows
           k == n.a_cols
           c == n.b_cols
<1>1. m \in Nat \ {0} /\ k \in Nat \ {0} /\ c \in Nat \ {0}
  BY DEF Multiplies
<1>2. /\ r.in_shape = <<m, k, 1, 1>> /\ r.groups = 1 /\ r.out_channels = c /\ r.filter_h = 1 /\ r.filter_w = 1
      /\ r.stride_h = 1 /\ r.stride_w = 1 /\ r.dilation_h = 1 /\ r.dilation_w = 1
      /\ r.padding_h.before = 0 /\ r.padding_h.after = 0 /\ r.padding_w.before = 0 /\ r.padding_w.after = 0
      /\ r.input = n.input_a /\ r.weights = [p \in DOMAIN n.input_b |-> n.input_b[(p % k) * c + (p \div k)]]
  BY DEF AsConv
<1> HIDE DEF r
<1>3. k \div 1 = k /\ k % 1 = 0 /\ c \div 1 = c /\ c % 1 = 0
  <2>1. k \in Nat /\ c \in Nat
    BY <1>1
  <2> QED BY <2>1, ByOne
<1>4. GroupIn(r) = k /\ GroupOut(r) = c
  BY <1>2, <1>3 DEF GroupIn, GroupOut
<1>5. r.in_shape \in Shapes
  BY <1>1, <1>2 DEF Shapes
<1>6. Filtered(r, r.in_shape[3], r.in_shape[4])
  BY <1>2 DEF Filtered
<1>7. NumbersIn(r.input, compute_size(r.in_shape))
  <2>1. compute_size(r.in_shape) = m * k
    <3> DEFINE mk == m * k
    <3>1. mk \in Int
      BY <1>1
    <3> HIDE DEF mk
    <3>2. mk * 1 * 1 = mk
      BY <3>1
    <3> QED BY <1>2, <3>2 DEF compute_size, mk
  <2> QED BY <1>2, <2>1 DEF Multiplies
<1>8. NumbersIn(w, c * k * 1 * 1)
  <2> DEFINE B == n.input_b
             kc == k * c
  <2>1. B \in [0 .. kc - 1 -> Int] /\ w = [p \in 0 .. kc - 1 |-> B[(p % k) * c + (p \div k)]]
    BY <1>2 DEF Multiplies
  <2>2. c * k * 1 * 1 = kc /\ kc \in Nat
    BY <1>1
  <2>3. ASSUME NEW p \in 0 .. kc - 1 PROVE w[p] \in Int
    <3> DEFINE a == p % k
               d == p \div k
               q == a * c + d
    <3>1. p \in Nat /\ kc = c * k
      BY <1>1, <2>2
    <3>2. d \in Nat /\ a \in 0 .. k - 1 /\ p = d * k + a
      BY <1>1, <3>1, DivMod
    <3> HIDE DEF a, d
    <3>3. d < c
      <4> SUFFICES ASSUME d >= c PROVE FALSE
        BY <1>1, <3>2
      <4>1. d * k >= c * k /\ d * k \in Nat
        BY <1>1, <3>2, Grows
      <4> DEFINE dk == d * k
      <4>2. dk >= kc /\ dk \in Nat /\ p = dk + a /\ a \in Nat
        BY <3>1, <3>2, <4>1
      <4> HIDE DEF dk, kc
      <4> QED BY <2>2, <4>2
    <3>4. q \in 0 .. kc - 1
      <4>1. a \in Nat /\ a < k /\ d \in 0 .. c - 1
        BY <1>1, <3>2, <3>3
      <4> QED BY <1>1, <4>1, Below
    <3>5. w[p] = B[q]
      <4> HIDE DEF kc
      <4> QED BY <2>1 DEF a, d
    <3> HIDE DEF q, kc, w, B
    <3> QED BY <2>1, <3>4, <3>5
  <2> HIDE DEF w, kc
  <2> QED BY <2>2, <2>3 DEF NumbersIn
<1>9. Convolves(r)
  BY <1>1, <1>2, <1>3, <1>5, <1>6, <1>7, <1>8 DEF Convolves
<1>10. ConvShape(r) = <<m, c, 1, 1>>
  <2>1. 1 * (c \div 1) = c
    BY <1>1, <1>3
  <2>2. OutH(r, r.in_shape[3]) = 1 /\ OutW(r, r.in_shape[4]) = 1
    BY <1>2, ByOne DEF OutH, OutW, get_windowed_output_size, CDiv
  <2> QED BY <1>2, <2>1, <2>2 DEF ConvShape
<1> QED
  BY <1>4, <1>9, <1>10 DEF r

\* What its window reads.
LEMMA AsConvReads ==
  ASSUME NEW n, Multiplies(n), NEW p \in 0 .. n.a_rows * n.b_cols - 1, NEW k \in 0 .. n.a_cols - 1, NEW a \in Int, NEW b \in Int
  PROVE  LET i == Index(<<n.a_rows, n.b_cols, 1, 1>>, p)
         IN  /\ AtConv(AsConv(n), i) /\ i[2] = p % n.b_cols
             /\ ConvOf(AsConv(n), a, b, i, k) = MultipliedWith(n, a, b, p, k)
             /\ MultipliedWith(n, 0, 0, p, k) = Multiplied(n, p, k)
<1> DEFINE r == AsConv(n)
           R == n.a_rows
           K == n.a_cols
           C == n.b_cols
           s == <<R, C, 1, 1>>
           i == Index(s, p)
           y == p \div C
           x == p % C
           X == n.input_a[y * K + k]
           W == n.input_b[k * C + x]
<1>1. R \in Nat \ {0} /\ K \in Nat \ {0} /\ C \in Nat \ {0} /\ p \in Nat
  <2>1. n.a_rows \in Nat \ {0} /\ n.a_cols \in Nat \ {0} /\ n.b_cols \in Nat \ {0}
    BY DEF Multiplies
  <2> DEFINE RC == R * C
  <2>2. p \in 0 .. RC - 1 /\ RC \in Int
    BY <2>1
  <2> HIDE DEF RC
  <2> QED BY <2>1, <2>2
<1>2. Convolves(r) /\ GroupIn(r) = K /\ GroupOut(r) = C /\ ConvShape(r) = s
  BY AsConvIs
<1>3. compute_size(s) = R * C
  <2> DEFINE RC == R * C
  <2>1. RC \in Int
    BY <1>1
  <2> HIDE DEF RC
  <2>2. RC * 1 * 1 = RC
    BY <2>1
  <2> QED BY <2>2 DEF compute_size, RC
<1>4. Shape(s)
  BY <1>1 DEF Shape
<1>5. AtConv(r, i)
  <2> HIDE DEF s, r
  <2>1. Shape(ConvShape(r)) /\ p \in 0 .. compute_size(ConvShape(r)) - 1
    BY <1>2, <1>3, <1>4
  <2> QED BY <1>2, <2>1, ConvPlaced
<1>6. i[1] = y /\ i[2] = x /\ i[3] = 0 /\ i[4] = 0
  <2>1. C * 1 * 1 = C /\ 1 * 1 = 1 /\ p \div 1 = p /\ p % 1 = 0
    BY <1>1, ByOne
  <2>2. i[1] = p \div (C * 1 * 1) /\ i[2] = (p \div (1 * 1)) % C /\ i[3] = (p \div 1) % 1 /\ i[4] = p % 1
    BY DEF Index
  <2> QED BY <2>1, <2>2
<1> HIDE DEF i
<1>7. y \in Nat /\ x \in 0 .. C - 1
  BY <1>1, DivMod
<1>8. X \in Int /\ W \in Int
  <2>1. y < R
    <3>1. i[1] \in 0 .. r.in_shape[1] - 1 /\ r.in_shape[1] = R
      BY <1>5 DEF AtConv, AsConv
    <3> QED BY <1>1, <1>6, <3>1
  <2> HIDE DEF y, x
  <2>2. y * K + k \in 0 .. R * K - 1 /\ k * C + x \in 0 .. K * C - 1
    <3>1. k \in Nat /\ k < K /\ y \in Nat
      BY <1>1, <1>7
    <3> QED BY <1>1, <1>7, <2>1, <3>1, Below
  <2> DEFINE u == y * K + k
             v == k * C + x
             S == R * K
             T == K * C
  <2>3. NumbersIn(n.input_a, S) /\ n.input_b \in [0 .. T - 1 -> Int] /\ u \in 0 .. S - 1 /\ v \in 0 .. T - 1
    BY <2>2 DEF Multiplies
  <2> HIDE DEF u, v, S, T
  <2>4. n.input_a[u] \in Int /\ n.input_b[v] \in Int
    BY <2>3 DEF NumbersIn
  <2> QED BY <2>4 DEF u, v, y, x
<1>9. ConvX(r, i, k, 0, 0) = X
  <2>1. x \div C = 0
    <3> DEFINE q == x \div C
               t == x % C
               zero == 0
    <3>1. x \in Nat /\ zero \in Nat /\ zero * C + x = x
      BY <1>1, <1>7
    <3>2. q \in Nat /\ t \in 0 .. C - 1 /\ x = q * C + t
      <4> HIDE DEF x
      <4> QED BY <1>1, <3>1, DivMod
    <3> HIDE DEF q, t, zero, x
    <3>3. q = zero
      <4>1. q * C + t = zero * C + x
        BY <3>1, <3>2, SMTT(30)
      <4> QED BY <1>1, <1>7, <3>1, <3>2, <4>1, Digits
    <3> QED BY <3>3 DEF zero, q
  <2>2. ConvX(r, i, k, 0, 0) = n.input_a[offset(<<R, K, 1, 1>>, <<y, (x \div C) * K + k, 0, 0>>)]
    BY <1>2, <1>6 DEF ConvX, AsConv
  <2>3. offset(<<R, K, 1, 1>>, <<y, (x \div C) * K + k, 0, 0>>) = y * K + k
    <3> HIDE DEF x, y
    <3>1. (x \div C) * K + k = k
      BY <1>1, <2>1
    <3> DEFINE u == y * K + k
    <3>2. u \in Int
      BY <1>1, <1>7
    <3> HIDE DEF u
    <3>3. (u * 1 + 0) * 1 + 0 = u
      BY <3>2
    <3> QED BY <3>1, <3>3 DEF offset, u
  <2> QED BY <2>2, <2>3
<1>10. ConvW(r, i, k, 0, 0) = W
  <2> DEFINE q == x * K + k
             KC == K * C
             B == n.input_b
  <2>1. q \in 0 .. KC - 1 /\ q \in Nat /\ KC \in Nat
    <3>1. x \in Nat /\ x < C
      BY <1>1, <1>7
    <3> HIDE DEF x
    <3>2. x * K + k \in 0 .. C * K - 1
      BY <1>1, <3>1, Below
    <3>3. C * K = K * C /\ K * C \in Nat
      BY <1>1
    <3> HIDE DEF q, KC
    <3>4. q \in 0 .. KC - 1 /\ KC \in Nat
      BY <3>2, <3>3 DEF q, KC
    <3> QED BY <3>4
  <2>2. ConvW(r, i, k, 0, 0) = r.weights[q]
    <3> HIDE DEF x
    <3>1. ConvW(r, i, k, 0, 0) = r.weights[((x * K + k) * 1 + 0) * 1 + 0]
      BY <1>2, <1>6 DEF ConvW, AsConv
    <3> HIDE DEF q
    <3>2. (q * 1 + 0) * 1 + 0 = q
      BY <2>1
    <3> QED BY <3>1, <3>2, SMTT(30) DEF q
  <2>3. q % K = k /\ q \div K = x
    <3> DEFINE d == q \div K
               e == q % K
    <3> HIDE DEF x, q
    <3>1. d \in Nat /\ e \in 0 .. K - 1 /\ q = d * K + e
      BY <1>1, <2>1, DivMod
    <3> HIDE DEF d, e
    <3>2. d * K + e = x * K + k /\ x \in Nat
      BY <1>1, <1>7, <3>1 DEF q
    <3>3. d = x /\ e = k
      BY <1>1, <3>1, <3>2, Digits
    <3> QED BY <3>3 DEF d, e
  <2>4. r.weights = [t \in DOMAIN B |-> B[(t % K) * C + (t \div K)]] /\ DOMAIN B = 0 .. KC - 1
    BY DEF AsConv, Multiplies
  <2> HIDE DEF q, KC, B, x
  <2>5. r.weights[q] = B[k * C + x]
    BY <2>1, <2>3, <2>4
  <2> QED BY <2>2, <2>5 DEF B
<1>11. OnImage(r, i, 0, 0) /\ AtY(r, i[3], 0) = 0 /\ AtX(r, i[4], 0) = 0
  BY <1>6 DEF OnImage, AtY, AtX, OriginY, OriginX, AsConv
<1>12. ConvTerm(r, a, b, i, k, 0, 0) = (X + a) * (W + b)
  BY <1>9, <1>10, <1>11 DEF ConvTerm
<1>13. ConvOf(r, a, b, i, k) = (X + a) * (W + b)
  <2> DEFINE z == ConvRows(r, a, b, i, k)
             t == RowSums(z, 1, 1)
  <2>1. r.filter_h = 1 /\ r.filter_w = 1
    BY DEF AsConv
  <2>2. z[0][0] = ConvTerm(r, a, b, i, k, 0, 0)
    BY <2>1 DEF ConvRows
  <2>3. z[0][0] \in Int
    <3> HIDE DEF X, W, z
    <3> QED BY <1>8, <1>12, <2>2
  <2>4. t[0] = Total(z[0], 1)
    BY DEF RowSums
  <2> HIDE DEF z, t, r
  <2>5. t[0] = z[0][0]
    <3> DEFINE q == z[0]
    <3>1. q[0] \in Int
      BY <2>3
    <3> HIDE DEF q
    <3>2. Total(q, 1) = q[0]
      BY <3>1, TotalOfOne
    <3> QED BY <2>4, <3>2 DEF q
  <2>6. Total(t, 1) = t[0]
    BY <2>3, <2>5, TotalOfOne
  <2> QED BY <1>12, <2>1, <2>2, <2>5, <2>6 DEF ConvOf, t, z
<1>14. MultipliedWith(n, a, b, p, k) = (X + a) * (W + b)
  BY DEF MultipliedWith
<1>15. MultipliedWith(n, 0, 0, p, k) = X * W /\ Multiplied(n, p, k) = X * W
  <2>1. MultipliedWith(n, 0, 0, p, k) = (X + 0) * (W + 0) /\ Multiplied(n, p, k) = X * W
    BY DEF MultipliedWith, Multiplied
  <2> HIDE DEF X, W
  <2>2. X + 0 = X /\ W + 0 = W
    BY <1>8
  <2> QED BY <2>1, <2>2
<1> QED
  BY <1>5, <1>6, <1>13, <1>14, <1>15 DEF i, r

\* A product is the convolution.
LEMMA MatmulConvolves ==
  ASSUME NEW n, Multiplies(n)
  PROVE  /\ matmul(n) = conv2d(AsConv(n))
         /\ n.input_a_offset \in Int /\ n.input_b_offset \in Int => quantized_matmul(n) = quantized_conv2d(AsConv(n))
<1> DEFINE r == AsConv(n)
           s == <<n.a_rows, n.b_cols, 1, 1>>
           D == 0 .. n.a_rows * n.b_cols - 1
           a == n.input_a_offset
           b == n.input_b_offset
           K == n.a_cols
           A(p) == Activated(n.bias[p % n.b_cols] + Total([k \in 0 .. K - 1 |-> Multiplied(n, p, k)], K), n)
           B(p) == ConvValue(r, p)
           C(p) == Requantized(n.bias[p % n.b_cols] + Total([k \in 0 .. K - 1 |-> MultipliedWith(n, a, b, p, k)], K), n)
           E(p) == QuantizedValue(r, a, b, p)
<1>1. Convolves(r) /\ GroupIn(r) = K /\ ConvShape(r) = s
  BY AsConvIs
<1>2. compute_size(s) = n.a_rows * n.b_cols
  <2> DEFINE RC == n.a_rows * n.b_cols
  <2>1. RC \in Int
    BY DEF Multiplies
  <2> HIDE DEF RC
  <2>2. RC * 1 * 1 = RC
    BY <2>1
  <2> QED BY <2>2 DEF compute_size, RC
<1>3. r.bias = n.bias /\ r.input_offset = a /\ r.filter_offset = b
  BY DEF AsConv
<1>4. \A v : Activated(v, r) = Activated(v, n) /\ Requantized(v, r) = Requantized(v, n)
  BY DEF Activated, Requantized, AsConv
<1>5. K \in Nat \ {0}
  BY DEF Multiplies
<1> HIDE DEF r
<1>6. ASSUME NEW p \in D, NEW d \in Int, NEW e \in Int
      PROVE  /\ ConvSum(r, d, e, Index(s, p)) = Total([k \in 0 .. K - 1 |-> MultipliedWith(n, d, e, p, k)], K)
             /\ Index(s, p)[2] = p % n.b_cols
  <2> DEFINE F(k) == ConvOf(r, d, e, Index(s, p), k)
             G(k) == MultipliedWith(n, d, e, p, k)
  <2>1. \A k \in 0 .. K - 1 : F(k) = G(k)
    BY AsConvReads DEF r
  <2>2. Index(s, p)[2] = p % n.b_cols
    <3>1. 0 \in 0 .. K - 1
      BY <1>5
    <3> QED BY <3>1, AsConvReads
  <2>3. ConvSum(r, d, e, Index(s, p)) = Total([k \in 0 .. K - 1 |-> F(k)], K)
    BY <1>1 DEF ConvSum
  <2> HIDE DEF F, G
  <2>4. [k \in 0 .. K - 1 |-> F(k)] = [k \in 0 .. K - 1 |-> G(k)]
    BY <2>1
  <2> QED BY <2>2, <2>3, <2>4 DEF G
<1>7. ASSUME NEW p \in D PROVE A(p) = B(p)
  <2> DEFINE F(k) == MultipliedWith(n, 0, 0, p, k)
             G(k) == Multiplied(n, p, k)
             zero == 0
  <2>1. \A k \in 0 .. K - 1 : F(k) = G(k)
    <3> TAKE k \in 0 .. K - 1
    <3>1. zero \in Int
      OBVIOUS
    <3> HIDE DEF zero
    <3> QED BY <3>1, AsConvReads
  <2>2. ConvSum(r, 0, 0, Index(s, p)) = Total([k \in 0 .. K - 1 |-> F(k)], K) /\ Index(s, p)[2] = p % n.b_cols
    <3>1. zero \in Int
      OBVIOUS
    <3> HIDE DEF zero
    <3>2. ConvSum(r, zero, zero, Index(s, p)) = Total([k \in 0 .. K - 1 |-> MultipliedWith(n, zero, zero, p, k)], K)
          /\ Index(s, p)[2] = p % n.b_cols
      BY <1>6, <3>1
    <3> QED BY <3>2 DEF zero
  <2> HIDE DEF F, G
  <2>3. [k \in 0 .. K - 1 |-> F(k)] = [k \in 0 .. K - 1 |-> G(k)]
    BY <2>1
  <2>4. ConvSum(r, 0, 0, Index(s, p)) = Total([k \in 0 .. K - 1 |-> Multiplied(n, p, k)], K)
    BY <2>2, <2>3 DEF G
  <2>5. B(p) = Activated(n.bias[Index(s, p)[2]] + ConvSum(r, 0, 0, Index(s, p)), n)
    BY <1>1, <1>3, <1>4 DEF ConvValue
  <2> QED BY <2>2, <2>4, <2>5
<1>8. ASSUME NEW p \in D, a \in Int, b \in Int PROVE C(p) = E(p)
  <2>1. ConvSum(r, a, b, Index(s, p)) = Total([k \in 0 .. K - 1 |-> MultipliedWith(n, a, b, p, k)], K) /\ Index(s, p)[2] = p % n.b_cols
    BY <1>6, <1>8
  <2>2. E(p) = Requantized(n.bias[Index(s, p)[2]] + ConvSum(r, a, b, Index(s, p)), n)
    BY <1>1, <1>3, <1>4 DEF QuantizedValue
  <2> QED BY <2>1, <2>2
<1>9. matmul(n) = [p \in D |-> A(p)] /\ quantized_matmul(n) = [p \in D |-> C(p)]
  BY MatmulIs
<1>10. conv2d(r) = [p \in D |-> B(p)] /\ (a \in Int /\ b \in Int => quantized_conv2d(r) = [p \in D |-> E(p)])
  BY <1>1, <1>2, <1>3, ConvKernels DEF Offset
<1> HIDE DEF A, B, C, E, D, a, b
<1>11. [p \in D |-> A(p)] = [p \in D |-> B(p)] /\ (a \in Int /\ b \in Int => [p \in D |-> C(p)] = [p \in D |-> E(p)])
  BY <1>7, <1>8
<1>12. matmul(n) = conv2d(r) /\ (a \in Int /\ b \in Int => quantized_matmul(n) = quantized_conv2d(r))
  BY <1>9, <1>10, <1>11
<1> QED
  BY <1>12 DEF r, a, b

-----------------------------------------------------------------------------
\* A sum of sums may be taken in the other order.
IntRows(z, m, n) == \A j \in 0 .. m - 1 : \A k \in 0 .. n - 1 : z[j][k] \in Int
ColSums(z, m, n) == [k \in 0 .. n - 1 |-> Total([j \in 0 .. m - 1 |-> z[j][k]], m)]

\* The rows of numbers add up to numbers.
LEMMA RowSumsAreInt ==
  ASSUME NEW m \in Nat, NEW n \in Nat, NEW z, IntRows(z, m, n)
  PROVE  \A j \in 0 .. m - 1 : RowSums(z, m, n)[j] \in Int
<1> TAKE j \in 0 .. m - 1
<1> DEFINE y == z[j]
<1>1. \A k \in 0 .. n - 1 : y[k] \in Int
  BY DEF IntRows
<1> HIDE DEF y
<1>2. Totals(y, n)
  BY <1>1, TotalSteps
<1>3. n \in 0 .. n
  OBVIOUS
<1> QED
  BY <1>2, <1>3 DEF Totals, RowSums, y

\* Adding by rows or by columns gives one total.
LEMMA TotalSwap ==
  ASSUME NEW m \in Nat, NEW n \in Nat, NEW z, IntRows(z, m, n)
  PROVE  Total(RowSums(z, m, n), m) = Total(ColSums(z, m, n), n)
<1> DEFINE R(k) == Total(RowSums(z, m, n), k)
           col(j) == [k \in 0 .. m - 1 |-> z[k][j]]
           part(k) == [j \in 0 .. n - 1 |-> Total(col(j), k)]
           C(k) == Total(part(k), n)
           S == {k \in 0 .. m : R(k) = C(k)}
<1>1. Totals(RowSums(z, m, n), m)
  <2> DEFINE rows == RowSums(z, m, n)
  <2>1. \A j \in 0 .. m - 1 : rows[j] \in Int
    BY RowSumsAreInt
  <2> HIDE DEF rows
  <2>2. Totals(rows, m)
    BY <2>1, TotalSteps
  <2> QED BY <2>2 DEF rows
<1>2. ASSUME NEW j \in 0 .. n - 1 PROVE Totals(col(j), m)
  <2> DEFINE x == col(j)
  <2>1. \A k \in 0 .. m - 1 : x[k] \in Int
    BY DEF IntRows
  <2> HIDE DEF x
  <2>2. Totals(x, m)
    BY <2>1, TotalSteps
  <2> QED BY <2>2 DEF x
<1>3. 0 \in S
  <2>1. R(0) = 0
    BY <1>1 DEF Totals
  <2>2. C(0) = 0
    <3> DEFINE x == part(0)
    <3>1. \A j \in 0 .. n - 1 : x[j] = 0
      <4> HIDE DEF col
      <4> QED BY <1>2 DEF Totals
    <3> HIDE DEF x
    <3>2. Total(x, n) = 0
      BY <3>1, TotalOfZero
    <3> QED BY <3>2 DEF x
  <2> HIDE DEF R, C
  <2> QED BY <2>1, <2>2
<1>4. ASSUME NEW k \in 1 .. m, k - 1 \in S PROVE k \in S
  <2> DEFINE y == z[k - 1]
             zero == 0
             one == 1
             u == part(k)
             v == part(k - 1)
  <2>1. k - 1 \in 0 .. m - 1 /\ k \in 0 .. m
    OBVIOUS
  <2>2. \A j \in 0 .. n - 1 : y[j] \in Int
    BY <2>1 DEF IntRows
  <2>3. R(k) = R(k - 1) + Total(y, n)
    <3>1. R(k) = R(k - 1) + RowSums(z, m, n)[k - 1]
      BY <1>1 DEF Totals
    <3>2. RowSums(z, m, n)[k - 1] = Total(y, n)
      BY <2>1 DEF RowSums
    <3> QED BY <3>1, <3>2
  <2>4. ASSUME NEW j \in 0 .. n - 1
        PROVE  u[j] = v[j] + y[j] /\ v[j] \in Int
    <3>1. Total(col(j), k) = Total(col(j), k - 1) + col(j)[k - 1] /\ Total(col(j), k - 1) \in Int
      BY <1>2, <2>1 DEF Totals
    <3>2. col(j)[k - 1] = y[j]
      BY <2>1
    <3> QED BY <3>1, <3>2
  <2> HIDE DEF y, u, v, zero, one
  <2>5. \A j \in 0 .. n - 1 : v[j] \in Int /\ y[j] \in Int /\ y[j] \in Int
    BY <2>2, <2>4
  <2>6. Combines(u, v, y, y, one, zero, zero, n)
    <3> SUFFICES ASSUME NEW j \in 0 .. n - 1 PROVE u[j] = v[j] + one * y[j] + zero * y[j] + zero
      BY DEF Combines
    <3> DEFINE yj == y[j]
               vj == v[j]
    <3>1. yj \in Int /\ vj \in Int /\ u[j] = vj + yj
      BY <2>4, <2>5
    <3> HIDE DEF yj, vj
    <3>2. u[j] = vj + one * yj + zero * yj + zero
      BY <3>1 DEF one, zero
    <3> QED BY <3>2 DEF yj, vj
  <2>7. one \in Int /\ zero \in Int
    BY DEF one, zero
  <2>8. Total(u, n) = Total(v, n) + one * Total(y, n) + zero * Total(y, n) + zero * n
    BY <2>5, <2>6, <2>7, TotalCombines
  <2>9. Total(v, n) \in Int /\ Total(y, n) \in Int
    <3>1. Totals(v, n) /\ Totals(y, n) /\ n \in 0 .. n
      BY <2>5, TotalSteps
    <3> QED BY <3>1 DEF Totals
  <2>10. Total(u, n) = Total(v, n) + Total(y, n)
    <3> DEFINE a == Total(v, n)
               b == Total(y, n)
    <3>1. a \in Int /\ b \in Int /\ Total(u, n) = a + one * b + zero * b + zero * n
      BY <2>8, <2>9
    <3> HIDE DEF a, b
    <3>2. Total(u, n) = a + b
      BY <3>1 DEF one, zero
    <3> QED BY <3>2 DEF a, b
  <2>11. R(k - 1) = C(k - 1)
    BY <1>4
  <2>12. C(k) = Total(u, n) /\ C(k - 1) = Total(v, n)
    BY DEF u, v
  <2> HIDE DEF R, C
  <2>13. R(k) = C(k)
    BY <2>3, <2>10, <2>11, <2>12
  <2> QED BY <2>1, <2>13
<1>5. \A k \in 0 .. m : k \in S
  <2> HIDE DEF S
  <2> QED BY <1>3, <1>4, UpTo
<1>6. R(m) = C(m)
  BY <1>5
<1> QED
  BY <1>6 DEF ColSums

-----------------------------------------------------------------------------
\* The extents, and the index of an element, in the other layout.
ToNhwc(s) == <<s[1], s[3], s[4], s[2]>>
ToNchw(s) == <<s[1], s[4], s[2], s[3]>>

\* transpose with the permutation to channels last, element by element.
LEMMA ToNhwcIs ==
  ASSUME NEW n, n.perm = <<1, 3, 4, 2>>
  PROVE  transpose(n) = [p \in 0 .. compute_size(ToNhwc(n.in_shape)) - 1 |->
           n.input[offset(n.in_shape, ToNchw(Index(ToNhwc(n.in_shape), p)))]]
<1> DEFINE T == TransposeShape(n)
           s == ToNhwc(n.in_shape)
           at(o) == [a \in 1 .. 4 |-> o[CHOOSE k \in 1 .. 4 : n.perm[k] = a]]
           A(p) == n.input[offset(n.in_shape, at(Index(T, p)))]
           B(p) == n.input[offset(n.in_shape, ToNchw(Index(s, p)))]
<1>1. T[1] = s[1] /\ T[2] = s[2] /\ T[3] = s[3] /\ T[4] = s[4]
  BY DEF TransposeShape, ToNhwc
<1>2. transpose(n) = [p \in 0 .. compute_size(T) - 1 |-> A(p)]
  BY DEF transpose, Tensor
<1>3. compute_size(T) = compute_size(s) /\ \A p : Index(T, p) = Index(s, p)
  BY <1>1 DEF compute_size, Index
<1>4. /\ (CHOOSE k \in 1 .. 4 : n.perm[k] = 1) = 1 /\ (CHOOSE k \in 1 .. 4 : n.perm[k] = 2) = 4
      /\ (CHOOSE k \in 1 .. 4 : n.perm[k] = 3) = 2 /\ (CHOOSE k \in 1 .. 4 : n.perm[k] = 4) = 3
  <2>1. \A k \in 1 .. 4 : k = 1 \/ k = 2 \/ k = 3 \/ k = 4
    OBVIOUS
  <2>2. n.perm[1] = 1 /\ n.perm[2] = 3 /\ n.perm[3] = 4 /\ n.perm[4] = 2
    OBVIOUS
  <2> QED BY <2>1, <2>2
<1>5. ASSUME NEW o PROVE offset(n.in_shape, at(o)) = offset(n.in_shape, ToNchw(o))
  <2>1. at(o)[1] = o[1] /\ at(o)[2] = o[4] /\ at(o)[3] = o[2] /\ at(o)[4] = o[3]
    BY <1>4
  <2> HIDE DEF at
  <2> QED BY <2>1 DEF offset, ToNchw
<1>6. \A p \in 0 .. compute_size(s) - 1 : A(p) = B(p)
  BY <1>3, <1>5
<1> HIDE DEF A, B, T, s
<1>7. [p \in 0 .. compute_size(s) - 1 |-> A(p)] = [p \in 0 .. compute_size(s) - 1 |-> B(p)]
  BY <1>6
<1>8. transpose(n) = [p \in 0 .. compute_size(s) - 1 |-> B(p)]
  BY <1>2, <1>3, <1>7
<1> QED
  BY <1>8 DEF B, s

\* transpose with the permutation to channels first, element by element.
LEMMA ToNchwIs ==
  ASSUME NEW n, n.perm = <<1, 4, 2, 3>>
  PROVE  transpose(n) = [p \in 0 .. compute_size(ToNchw(n.in_shape)) - 1 |->
           n.input[offset(n.in_shape, ToNhwc(Index(ToNchw(n.in_shape), p)))]]
<1> DEFINE T == TransposeShape(n)
           s == ToNchw(n.in_shape)
           at(o) == [a \in 1 .. 4 |-> o[CHOOSE k \in 1 .. 4 : n.perm[k] = a]]
           A(p) == n.input[offset(n.in_shape, at(Index(T, p)))]
           B(p) == n.input[offset(n.in_shape, ToNhwc(Index(s, p)))]
<1>1. T[1] = s[1] /\ T[2] = s[2] /\ T[3] = s[3] /\ T[4] = s[4]
  BY DEF TransposeShape, ToNchw
<1>2. transpose(n) = [p \in 0 .. compute_size(T) - 1 |-> A(p)]
  BY DEF transpose, Tensor
<1>3. compute_size(T) = compute_size(s) /\ \A p : Index(T, p) = Index(s, p)
  BY <1>1 DEF compute_size, Index
<1>4. /\ (CHOOSE k \in 1 .. 4 : n.perm[k] = 1) = 1 /\ (CHOOSE k \in 1 .. 4 : n.perm[k] = 2) = 3
      /\ (CHOOSE k \in 1 .. 4 : n.perm[k] = 3) = 4 /\ (CHOOSE k \in 1 .. 4 : n.perm[k] = 4) = 2
  <2>1. \A k \in 1 .. 4 : k = 1 \/ k = 2 \/ k = 3 \/ k = 4
    OBVIOUS
  <2>2. n.perm[1] = 1 /\ n.perm[2] = 4 /\ n.perm[3] = 2 /\ n.perm[4] = 3
    OBVIOUS
  <2> QED BY <2>1, <2>2
<1>5. ASSUME NEW o PROVE offset(n.in_shape, at(o)) = offset(n.in_shape, ToNhwc(o))
  <2>1. at(o)[1] = o[1] /\ at(o)[2] = o[3] /\ at(o)[3] = o[4] /\ at(o)[4] = o[2]
    BY <1>4
  <2> HIDE DEF at
  <2> QED BY <2>1 DEF offset, ToNhwc
<1>6. \A p \in 0 .. compute_size(s) - 1 : A(p) = B(p)
  BY <1>3, <1>5
<1> HIDE DEF A, B, T, s
<1>7. [p \in 0 .. compute_size(s) - 1 |-> A(p)] = [p \in 0 .. compute_size(s) - 1 |-> B(p)]
  BY <1>6
<1>8. transpose(n) = [p \in 0 .. compute_size(s) - 1 |-> B(p)]
  BY <1>2, <1>3, <1>7
<1> QED
  BY <1>8 DEF B, s

\* An index that is as an index of a tensor is the index of its offset.
LEMMA IndexBack ==
  ASSUME NEW s, Shape(s), NEW a, NEW b, NEW c, NEW d,
         a \in 0 .. s[1] - 1, b \in 0 .. s[2] - 1, c \in 0 .. s[3] - 1, d \in 0 .. s[4] - 1
  PROVE  offset(s, <<a, b, c, d>>) \in 0 .. compute_size(s) - 1 /\ Index(s, offset(s, <<a, b, c, d>>)) = <<a, b, c, d>>
<1> DEFINE i == <<a, b, c, d>>
           q == offset(s, i)
           j == Index(s, q)
<1>1. \A k \in 1 .. 4 : i[k] \in 0 .. s[k] - 1
  <2>1. i[1] = a /\ i[2] = b /\ i[3] = c /\ i[4] = d
    OBVIOUS
  <2>2. \A k \in 1 .. 4 : k = 1 \/ k = 2 \/ k = 3 \/ k = 4
    OBVIOUS
  <2> HIDE DEF i
  <2> QED BY <2>1, <2>2
<1>2. q \in 0 .. compute_size(s) - 1 /\ \A k \in 1 .. 4 : j[k] = i[k]
  <2> HIDE DEF i
  <2> QED BY <1>1, IndexOfOffset
<1>3. j = <<j[1], j[2], j[3], j[4]>>
  <2> HIDE DEF q
  <2> QED BY DEF Index
<1>4. j[1] = a /\ j[2] = b /\ j[3] = c /\ j[4] = d
  <2>1. 1 \in 1 .. 4 /\ 2 \in 1 .. 4 /\ 3 \in 1 .. 4 /\ 4 \in 1 .. 4
    OBVIOUS
  <2>2. i[1] = a /\ i[2] = b /\ i[3] = c /\ i[4] = d
    OBVIOUS
  <2> HIDE DEF j, i
  <2> QED BY <1>2, <2>1, <2>2
<1> HIDE DEF j
<1>5. j = <<a, b, c, d>>
  BY <1>3, <1>4
<1> QED
  BY <1>2, <1>5 DEF j

\* What is transposed is found with its axes exchanged.
LEMMA NhwcReads ==
  ASSUME NEW n, n.perm = <<1, 3, 4, 2>>, NEW s, s = n.in_shape, Shape(s), NEW b, NEW c, NEW y, NEW x,
         b \in 0 .. s[1] - 1, c \in 0 .. s[2] - 1, y \in 0 .. s[3] - 1, x \in 0 .. s[4] - 1
  PROVE  transpose(n)[offset(ToNhwc(s), <<b, y, x, c>>)] = n.input[offset(s, <<b, c, y, x>>)]
<1> DEFINE t == ToNhwc(s)
           q == offset(t, <<b, y, x, c>>)
<1>1. Shape(t) /\ t[1] = s[1] /\ t[2] = s[3] /\ t[3] = s[4] /\ t[4] = s[2]
  BY DEF Shape, ToNhwc
<1> HIDE DEF t
<1>2. q \in 0 .. compute_size(t) - 1 /\ Index(t, q) = <<b, y, x, c>>
  BY <1>1, IndexBack
<1>3. transpose(n) = [p \in 0 .. compute_size(t) - 1 |-> n.input[offset(s, ToNchw(Index(t, p)))]]
  BY ToNhwcIs DEF t
<1> HIDE DEF q
<1>4. transpose(n)[q] = n.input[offset(s, ToNchw(Index(t, q)))]
  BY <1>2, <1>3
<1>5. ToNchw(<<b, y, x, c>>) = <<b, c, y, x>>
  BY DEF ToNchw
<1> QED
  BY <1>2, <1>4, <1>5 DEF q, t

\* Each element of the tensor turned to channels first is one of the tensor it was.
LEMMA NchwReads ==
  ASSUME NEW n, n.perm = <<1, 4, 2, 3>>, NEW s, s = n.in_shape, Shape(s), NEW p \in 0 .. compute_size(ToNchw(s)) - 1
  PROVE  LET i == Index(ToNchw(s), p)
             q == offset(s, ToNhwc(i))
         IN  /\ i[1] \in 0 .. s[1] - 1 /\ i[2] \in 0 .. s[4] - 1 /\ i[3] \in 0 .. s[2] - 1 /\ i[4] \in 0 .. s[3] - 1
             /\ transpose(n)[p] = n.input[q] /\ q \in 0 .. compute_size(s) - 1 /\ Index(s, q) = ToNhwc(i)
<1> DEFINE t == ToNchw(s)
           i == Index(t, p)
           q == offset(s, ToNhwc(i))
<1>1. Shape(t) /\ t[1] = s[1] /\ t[2] = s[4] /\ t[3] = s[2] /\ t[4] = s[3]
  BY DEF Shape, ToNchw
<1>2. transpose(n) = [r \in 0 .. compute_size(t) - 1 |-> n.input[offset(s, ToNhwc(Index(t, r)))]]
  BY ToNchwIs
<1> HIDE DEF t
<1>3. \A k \in 1 .. 4 : i[k] \in 0 .. t[k] - 1
  BY <1>1, OffsetOfIndex DEF t
<1>4. transpose(n)[p] = n.input[q]
  BY <1>2 DEF t
<1> HIDE DEF i
<1>5. i[1] \in 0 .. s[1] - 1 /\ i[2] \in 0 .. s[4] - 1 /\ i[3] \in 0 .. s[2] - 1 /\ i[4] \in 0 .. s[3] - 1
  <2>1. i[1] \in 0 .. t[1] - 1 /\ i[2] \in 0 .. t[2] - 1 /\ i[3] \in 0 .. t[3] - 1 /\ i[4] \in 0 .. t[4] - 1
    BY <1>3
  <2> QED BY <1>1, <2>1
<1>6. ToNhwc(i) = <<i[1], i[3], i[4], i[2]>>
  BY DEF ToNhwc
<1>7. q \in 0 .. compute_size(s) - 1 /\ Index(s, q) = <<i[1], i[3], i[4], i[2]>>
  BY <1>5, <1>6, IndexBack
<1> QED
  BY <1>4, <1>5, <1>6, <1>7 DEF i, t

-----------------------------------------------------------------------------
\* The sum of an element with the channels of a tap first.
ChannelRow(n, a, b, i, ky, kx) == [ic \in 0 .. (GroupIn(n) - 1) |-> ConvTerm(n, a, b, i, ic, ky, kx)]
ChannelSums(n, a, b, i) ==
  [ky \in 0 .. (n.filter_h - 1) |-> [kx \in 0 .. (n.filter_w - 1) |-> Total(ChannelRow(n, a, b, i, ky, kx), GroupIn(n))]]

\* The sum does not depend on whether the channels are added inside or outside.
LEMMA ChannelsFirst ==
  ASSUME NEW n, Convolves(n), NEW i, AtConv(n, i), NEW a \in Int, NEW b \in Int
  PROVE  ConvSum(n, a, b, i) = Total(RowSums(ChannelSums(n, a, b, i), n.filter_h, n.filter_w), n.filter_h)
<1> DEFINE I == GroupIn(n)
           f == n.filter_h
           e == n.filter_w
           t(ic, ky, kx) == ConvTerm(n, a, b, i, ic, ky, kx)
           Z(ky) == [ic \in 0 .. I - 1 |-> [kx \in 0 .. e - 1 |-> t(ic, ky, kx)]]
           Y == [ic \in 0 .. I - 1 |-> [ky \in 0 .. f - 1 |-> Total(ConvRows(n, a, b, i, ic)[ky], e)]]
           C == ChannelSums(n, a, b, i)
<1>1. I \in Nat /\ f \in Nat /\ e \in Nat
  BY ConvHasNumbers DEF ConvNumbers
<1>2. ASSUME NEW ic \in 0 .. I - 1, NEW ky \in 0 .. f - 1, NEW kx \in 0 .. e - 1 PROVE t(ic, ky, kx) \in Int
  BY TermIsInt
<1>3. ASSUME NEW ic \in 0 .. I - 1, NEW ky \in 0 .. f - 1
      PROVE  ConvRows(n, a, b, i, ic)[ky] = [kx \in 0 .. e - 1 |-> t(ic, ky, kx)]
  BY DEF ConvRows
<1>4. ASSUME NEW ky \in 0 .. f - 1, NEW kx \in 0 .. e - 1
      PROVE  C[ky][kx] = Total([ic \in 0 .. I - 1 |-> t(ic, ky, kx)], I)
  BY DEF ChannelSums, ChannelRow
<1>5. ASSUME NEW ky \in 0 .. f - 1 PROVE C[ky] = [kx \in 0 .. e - 1 |-> C[ky][kx]]
  BY DEF ChannelSums
<1> HIDE DEF t, C
<1>6. ASSUME NEW ky \in 0 .. f - 1 PROVE Total(RowSums(Z(ky), I, e), I) = Total(C[ky], e)
  <2> DEFINE z == Z(ky)
             A(kx) == Total([ic \in 0 .. I - 1 |-> z[ic][kx]], I)
             B(kx) == C[ky][kx]
  <2>1. IntRows(z, I, e)
    BY <1>2 DEF IntRows
  <2>2. ASSUME NEW kx \in 0 .. e - 1 PROVE A(kx) = B(kx)
    <3> DEFINE P(ic) == z[ic][kx]
               Q(ic) == t(ic, ky, kx)
    <3>1. \A ic \in 0 .. I - 1 : P(ic) = Q(ic)
      OBVIOUS
    <3>2. A(kx) = Total([ic \in 0 .. I - 1 |-> P(ic)], I) /\ B(kx) = Total([ic \in 0 .. I - 1 |-> Q(ic)], I)
      BY <1>4
    <3> HIDE DEF P, Q
    <3>3. [ic \in 0 .. I - 1 |-> P(ic)] = [ic \in 0 .. I - 1 |-> Q(ic)]
      BY <3>1
    <3> QED BY <3>2, <3>3
  <2>3. ColSums(z, I, e) = [kx \in 0 .. e - 1 |-> A(kx)] /\ C[ky] = [kx \in 0 .. e - 1 |-> B(kx)]
    <3>1. ColSums(z, I, e) = [kx \in 0 .. e - 1 |-> A(kx)]
      BY DEF ColSums
    <3>2. C[ky] = [kx \in 0 .. e - 1 |-> B(kx)]
      BY <1>5
    <3> QED BY <3>1, <3>2
  <2> HIDE DEF z, A, B
  <2>4. [kx \in 0 .. e - 1 |-> A(kx)] = [kx \in 0 .. e - 1 |-> B(kx)]
    BY <2>2
  <2>5. Total(RowSums(z, I, e), I) = Total(ColSums(z, I, e), e)
    BY <1>1, <2>1, TotalSwap
  <2> QED BY <2>3, <2>4, <2>5 DEF z
<1>7. ASSUME NEW ic \in 0 .. I - 1, NEW ky \in 0 .. f - 1
      PROVE  RowSums(Z(ky), I, e)[ic] = Y[ic][ky] /\ Y[ic][ky] \in Int
  <2> DEFINE z == Z(ky)
             y == Y[ic][ky]
             x == ConvRows(n, a, b, i, ic)[ky]
  <2>1. z[ic] = x
    BY <1>3
  <2>2. y = Total(x, e)
    OBVIOUS
  <2>3. ASSUME NEW kx \in 0 .. e - 1 PROVE x[kx] \in Int
    <3>1. x[kx] = t(ic, ky, kx)
      BY <1>3
    <3>2. t(ic, ky, kx) \in Int
      BY <1>2
    <3> QED BY ONLY <3>1, <3>2
  <2>4. RowSums(z, I, e)[ic] = Total(z[ic], e)
    <3> HIDE DEF z, I, e
    <3>1. RowSums(z, I, e) = [k \in 0 .. I - 1 |-> Total(z[k], e)]
      BY DEF RowSums
    <3> QED BY <3>1
  <2> HIDE DEF x, y, z
  <2>5. Totals(x, e) /\ e \in 0 .. e
    BY <1>1, <2>3, TotalSteps
  <2>6. y \in Int /\ RowSums(z, I, e)[ic] = y
    BY <2>1, <2>2, <2>4, <2>5 DEF Totals
  <2> QED BY <2>6 DEF y, z
<1>8. IntRows(Y, I, f)
  <2> HIDE DEF Y, Z
  <2> QED BY <1>7 DEF IntRows
<1>9. Total(RowSums(Y, I, f), I) = Total(ColSums(Y, I, f), f)
  <2> HIDE DEF Y
  <2> QED BY <1>1, <1>8, TotalSwap
<1>10. RowSums(Y, I, f) = [ic \in 0 .. I - 1 |-> ConvOf(n, a, b, i, ic)]
  <2> DEFINE A(ic) == Total(Y[ic], f)
             B(ic) == ConvOf(n, a, b, i, ic)
  <2>1. ASSUME NEW ic \in 0 .. I - 1 PROVE A(ic) = B(ic)
    <3>1. Y[ic] = RowSums(ConvRows(n, a, b, i, ic), f, e)
      BY DEF RowSums
    <3> HIDE DEF Y
    <3> QED BY <3>1 DEF ConvOf
  <2>2. RowSums(Y, I, f) = [ic \in 0 .. I - 1 |-> A(ic)]
    <3> HIDE DEF Y
    <3> QED BY DEF RowSums
  <2> HIDE DEF A, B, Y
  <2>3. [ic \in 0 .. I - 1 |-> A(ic)] = [ic \in 0 .. I - 1 |-> B(ic)]
    BY <2>1
  <2> QED BY <2>2, <2>3 DEF B
<1>11. ColSums(Y, I, f) = RowSums(C, f, e)
  <2> DEFINE A(ky) == Total([ic \in 0 .. I - 1 |-> Y[ic][ky]], I)
             B(ky) == Total(C[ky], e)
  <2>1. ASSUME NEW ky \in 0 .. f - 1 PROVE A(ky) = B(ky)
    <3> DEFINE P(ic) == Y[ic][ky]
               z == Z(ky)
               Q(ic) == RowSums(z, I, e)[ic]
    <3>1. \A ic \in 0 .. I - 1 : P(ic) = Q(ic)
      <4> HIDE DEF Y, Z
      <4> QED BY <1>7
    <3>2. A(ky) = Total([ic \in 0 .. I - 1 |-> P(ic)], I)
      OBVIOUS
    <3>3. RowSums(z, I, e) = [ic \in 0 .. I - 1 |-> Q(ic)]
      <4> HIDE DEF z
      <4> QED BY DEF RowSums
    <3>4. Total(RowSums(z, I, e), I) = B(ky)
      BY <1>6
    <3> HIDE DEF P, Q, z, Y
    <3>5. [ic \in 0 .. I - 1 |-> P(ic)] = [ic \in 0 .. I - 1 |-> Q(ic)]
      BY <3>1
    <3> QED BY <3>2, <3>3, <3>4, <3>5
  <2>2. ColSums(Y, I, f) = [ky \in 0 .. f - 1 |-> A(ky)]
    <3> HIDE DEF Y
    <3> QED BY DEF ColSums
  <2>3. RowSums(C, f, e) = [ky \in 0 .. f - 1 |-> B(ky)]
    BY DEF RowSums
  <2> HIDE DEF A, B, Y
  <2>4. [ky \in 0 .. f - 1 |-> A(ky)] = [ky \in 0 .. f - 1 |-> B(ky)]
    BY <2>1
  <2> QED BY <2>2, <2>3, <2>4
<1> HIDE DEF Y
<1> QED
  BY <1>9, <1>10, <1>11 DEF ConvSum, C

\* Sums of terms off the image are 0.
LEMMA ChannelSumIs ==
  ASSUME NEW n, Convolves(n), NEW i, AtConv(n, i), NEW a \in Int, NEW b \in Int,
         NEW ky \in 0 .. n.filter_h - 1, NEW kx \in 0 .. n.filter_w - 1
  PROVE  /\ ChannelSums(n, a, b, i)[ky][kx] = Total(ChannelRow(n, a, b, i, ky, kx), GroupIn(n))
         /\ ChannelSums(n, a, b, i)[ky][kx] \in Int
         /\ ~OnImage(n, i, ky, kx) => ChannelSums(n, a, b, i)[ky][kx] = 0
<1> DEFINE x == ChannelRow(n, a, b, i, ky, kx)
           I == GroupIn(n)
<1>1. ChannelSums(n, a, b, i)[ky][kx] = Total(x, I)
  BY DEF ChannelSums
<1>2. I \in Nat
  BY ConvHasNumbers DEF ConvNumbers
<1>3. \A ic \in 0 .. I - 1 : x[ic] = ConvTerm(n, a, b, i, ic, ky, kx)
  BY DEF ChannelRow
<1>4. ASSUME NEW ic \in 0 .. I - 1 PROVE x[ic] \in Int
  <2>1. ConvTerm(n, a, b, i, ic, ky, kx) \in Int
    BY TermIsInt
  <2> HIDE DEF x, I
  <2> QED BY <1>3, <2>1
<1>5. ASSUME ~OnImage(n, i, ky, kx), NEW ic \in 0 .. I - 1 PROVE x[ic] = 0
  <2> HIDE DEF x, I
  <2>1. ConvTerm(n, a, b, i, ic, ky, kx) = 0
    BY <1>5 DEF ConvTerm
  <2> QED BY <1>3, <2>1
<1> HIDE DEF x, I
<1>6. Totals(x, I) /\ I \in 0 .. I
  BY <1>2, <1>4, TotalSteps
<1>7. Total(x, I) \in Int
  BY <1>6 DEF Totals
<1>8. ~OnImage(n, i, ky, kx) => Total(x, I) = 0
  BY <1>2, <1>5, TotalOfZero
<1> QED
  BY <1>1, <1>7, <1>8 DEF x, I

\* A tap that is counted from the first is on the image.
LEMMA TapInside ==
  ASSUME NEW S, NEW f \in Nat, NEW at, NEW d, NEW h, Reaches(S, f, at, d, h), NEW j \in 0 .. Cardinality(S) - 1
  PROVE  First(S) + j \in 0 .. f - 1 /\ First(S) + j \in S /\ at + d * (First(S) + j) \in 0 .. h - 1
<1>1. PICK lo, m : Stretch(S, lo, m, f)
  BY DEF Reaches
<1>2. lo \in Nat /\ m \in Nat /\ Cardinality(S) = m /\ lo + m <= f /\ j \in 0 .. m - 1 /\ m # 0
  BY <1>1 DEF Stretch
<1>3. First(S) = lo
  BY <1>1, <1>2 DEF Stretch
<1>4. lo + j \in Int /\ lo <= lo + j /\ lo + j < lo + m /\ lo + j \in 0 .. f - 1
  BY <1>2
<1>5. lo + j \in S
  BY <1>1, <1>4 DEF Stretch
<1> QED
  BY <1>3, <1>4, <1>5 DEF Reaches

\* What adds up the channels of every tap in the window of an element adds up all its terms.
HoldsChannels(n, a, b, i, x) ==
  \A j \in 0 .. Cardinality(TapsY(n, n.in_shape[3], i[3])) - 1, k \in 0 .. Cardinality(TapsX(n, n.in_shape[4], i[4])) - 1 :
    x[j][k] = Total(ChannelRow(n, a, b, i, First(TapsY(n, n.in_shape[3], i[3])) + j, First(TapsX(n, n.in_shape[4], i[4])) + k), GroupIn(n))

\* The clipped window over all channels adds up to the whole sum.
LEMMA ChannelTapsTotal ==
  ASSUME NEW n, Convolves(n), NEW i, AtConv(n, i), NEW a \in Int, NEW b \in Int, NEW x, HoldsChannels(n, a, b, i, x)
  PROVE  AccumulateRows("add", 0, x, Cardinality(TapsY(n, n.in_shape[3], i[3])), Cardinality(TapsX(n, n.in_shape[4], i[4])))
           = ConvSum(n, a, b, i)
<1> DEFINE rows == TapsY(n, n.in_shape[3], i[3])
           cols == TapsX(n, n.in_shape[4], i[4])
           f == n.filter_h
           e == n.filter_w
           z == ChannelSums(n, a, b, i)
<1>1. ConvNumbers(n) /\ i[3] \in Nat /\ i[4] \in Nat
  BY ConvHasNumbers DEF AtConv
<1>2. /\ Reaches(rows, f, OriginY(n, i[3]), n.dilation_h, n.in_shape[3])
      /\ Reaches(cols, e, OriginX(n, i[4]), n.dilation_w, n.in_shape[4])
  BY <1>1, ConvReaches
<1>3. f \in Nat /\ e \in Nat
  BY <1>1 DEF ConvNumbers
<1>4. ASSUME NEW j \in 0 .. f - 1, NEW k \in 0 .. e - 1
      PROVE  z[j][k] \in Int /\ (j \notin rows \/ k \notin cols => z[j][k] = 0)
  <2>1. z[j][k] \in Int /\ (~OnImage(n, i, j, k) => z[j][k] = 0)
    BY ChannelSumIs
  <2>2. j \notin rows \/ k \notin cols => ~OnImage(n, i, j, k)
    <3> HIDE DEF rows, cols
    <3> QED BY <1>2 DEF Reaches, OnImage, AtY, AtX
  <2> QED BY <2>1, <2>2
<1>5. ASSUME NEW j \in 0 .. Cardinality(rows) - 1, NEW k \in 0 .. Cardinality(cols) - 1
      PROVE  x[j][k] = z[First(rows) + j][First(cols) + k]
  <2> DEFINE u == First(rows) + j
             v == First(cols) + k
  <2>1. u \in 0 .. f - 1 /\ v \in 0 .. e - 1
    <3> HIDE DEF rows, cols
    <3> QED BY <1>2, <1>3, TapInside
  <2>2. x[j][k] = Total(ChannelRow(n, a, b, i, u, v), GroupIn(n))
    BY DEF HoldsChannels
  <2> HIDE DEF u, v
  <2>3. z[u][v] = Total(ChannelRow(n, a, b, i, u, v), GroupIn(n))
    BY <2>1, ChannelSumIs
  <2> QED BY <2>2, <2>3 DEF u, v
<1> HIDE DEF rows, cols, z
<1>6. TapsOf(z, f, e, x, rows, cols)
  BY <1>4, <1>5 DEF TapsOf
<1>7. PICK lo, m : Stretch(rows, lo, m, f)
  BY <1>2 DEF Reaches
<1>8. PICK left, w : Stretch(cols, left, w, e)
  BY <1>2 DEF Reaches
<1> HIDE DEF f, e
<1>9. AccumulateRows("add", 0, x, Cardinality(rows), Cardinality(cols)) = Total(RowSums(z, f, e), f)
  BY <1>3, <1>6, <1>7, <1>8, TapsTotal
<1> QED
  BY <1>9, ChannelsFirst DEF z, f, e, rows, cols

-----------------------------------------------------------------------------
\* What the NHWC kernels add up: the channels of a pixel first, or one channel.
PixelOf(n, i, j, k, c) ==
  n.input[offset(n.in_shape, <<i[1], AtY(n, i[2], First(TapsY(n, n.in_shape[2], i[2])) + j), AtX(n, i[3], First(TapsX(n, n.in_shape[3], i[3])) + k), c>>)]
DeepW(n, i, j, k, c) ==
  n.weights[((i[4] * n.filter_h + (First(TapsY(n, n.in_shape[2], i[2])) + j)) * n.filter_w + (First(TapsX(n, n.in_shape[3], i[3])) + k)) * n.in_shape[4] + c]
FlatW(n, i, j, k) ==
  n.weights[(i[4] * n.filter_h + (First(TapsY(n, n.in_shape[2], i[2])) + j)) * n.filter_w + (First(TapsX(n, n.in_shape[3], i[3])) + k)]
RowsOf(n, i) == Cardinality(TapsY(n, n.in_shape[2], i[2]))
ColsOf(n, i) == Cardinality(TapsX(n, n.in_shape[3], i[3]))

NhwcTaps(n, i) ==
  [j \in 0 .. (RowsOf(n, i) - 1) |-> [k \in 0 .. (ColsOf(n, i) - 1) |->
     Total([c \in 0 .. (n.in_shape[4] - 1) |-> PixelOf(n, i, j, k, c) * DeepW(n, i, j, k, c)], n.in_shape[4])]]
NhwcOffsetTaps(n, i) ==
  [j \in 0 .. (RowsOf(n, i) - 1) |-> [k \in 0 .. (ColsOf(n, i) - 1) |->
     Total([c \in 0 .. (n.in_shape[4] - 1) |->
              (PixelOf(n, i, j, k, c) - n.input_offset) * (DeepW(n, i, j, k, c) - n.filter_offset)], n.in_shape[4])]]
FlatTaps(n, i) ==
  [j \in 0 .. (RowsOf(n, i) - 1) |-> [k \in 0 .. (ColsOf(n, i) - 1) |-> PixelOf(n, i, j, k, i[4]) * FlatW(n, i, j, k)]]
FlatOffsetTaps(n, i) ==
  [j \in 0 .. (RowsOf(n, i) - 1) |-> [k \in 0 .. (ColsOf(n, i) - 1) |->
     (PixelOf(n, i, j, k, i[4]) - n.input_offset) * (FlatW(n, i, j, k) - n.filter_offset)]]
PixelTaps(n, i) ==
  [j \in 0 .. (RowsOf(n, i) - 1) |-> [k \in 0 .. (ColsOf(n, i) - 1) |-> PixelOf(n, i, j, k, i[4])]]
OneTaps(n, i) ==
  [j \in 0 .. (RowsOf(n, i) - 1) |-> [k \in 0 .. (ColsOf(n, i) - 1) |-> 1]]
OverRows(n, i, op, start, x) == AccumulateRows(op, start, x, RowsOf(n, i), ColsOf(n, i))

NhwcValue(n, i) == Activated(n.bias[i[4]] + OverRows(n, i, "add", 0, NhwcTaps(n, i)), n)
NhwcOffsetValue(n, i) == Requantized(n.bias[i[4]] + OverRows(n, i, "add", 0, NhwcOffsetTaps(n, i)), n)
FlatValue(n, i) == Activated(n.bias[i[4]] + OverRows(n, i, "add", 0, FlatTaps(n, i)), n)
FlatOffsetValue(n, i) == Requantized(n.bias[i[4]] + OverRows(n, i, "add", 0, FlatOffsetTaps(n, i)), n)
PixelValue(n, i) ==
  Reduced(OverRows(n, i, n.reduce_op, n.init_value, PixelTaps(n, i)), OverRows(n, i, "add", 0, OneTaps(n, i)), n)

\* cpu_conv2d and cpu_quantized_conv2d, element by element.
LEMMA NhwcKernels ==
  ASSUME NEW n
  PROVE  /\ cpu_conv2d(n) = [p \in 0 .. (compute_size(NhwcShape(n, n.out_channels)) - 1) |-> NhwcValue(n, Index(NhwcShape(n, n.out_channels), p))]
         /\ cpu_quantized_conv2d(n) =
              [p \in 0 .. (compute_size(NhwcShape(n, n.out_channels)) - 1) |-> NhwcOffsetValue(n, Index(NhwcShape(n, n.out_channels), p))]
<1>1. cpu_conv2d(n) = [p \in 0 .. (compute_size(NhwcShape(n, n.out_channels)) - 1) |-> NhwcValue(n, Index(NhwcShape(n, n.out_channels), p))]
  BY DEF cpu_conv2d, NhwcConvolved, NhwcValue, NhwcTaps, OverRows, RowsOf, ColsOf, PixelOf, DeepW, Pixel, OverImage, OverTaps,
         Tensor, SumOver, Total
<1>2. cpu_quantized_conv2d(n) =
              [p \in 0 .. (compute_size(NhwcShape(n, n.out_channels)) - 1) |-> NhwcOffsetValue(n, Index(NhwcShape(n, n.out_channels), p))]
  BY DEF cpu_quantized_conv2d, NhwcConvolved, NhwcOffsetValue, NhwcOffsetTaps, OverRows, RowsOf, ColsOf, PixelOf, DeepW, Pixel, OverImage,
         OverTaps, Tensor, SumOver, Total
<1> QED
  BY <1>1, <1>2

\* The depthwise kernels and cpu_reduce_window2d, element by element.
LEMMA FlatKernels ==
  ASSUME NEW n
  PROVE  /\ cpu_depthwise_conv2d(n) =
              [p \in 0 .. (compute_size(NhwcShape(n, n.in_shape[4])) - 1) |-> FlatValue(n, Index(NhwcShape(n, n.in_shape[4]), p))]
         /\ cpu_quantized_depthwise_conv2d(n) =
              [p \in 0 .. (compute_size(NhwcShape(n, n.in_shape[4])) - 1) |-> FlatOffsetValue(n, Index(NhwcShape(n, n.in_shape[4]), p))]
         /\ cpu_reduce_window2d(n) =
              [p \in 0 .. (compute_size(NhwcShape(n, n.in_shape[4])) - 1) |-> PixelValue(n, Index(NhwcShape(n, n.in_shape[4]), p))]
<1>1. cpu_depthwise_conv2d(n) =
              [p \in 0 .. (compute_size(NhwcShape(n, n.in_shape[4])) - 1) |-> FlatValue(n, Index(NhwcShape(n, n.in_shape[4]), p))]
  BY DEF cpu_depthwise_conv2d, NhwcDepthwise, FlatValue, FlatTaps, OverRows, RowsOf, ColsOf, PixelOf, FlatW, Pixel, OverImage, OverTaps, Tensor
<1>2. cpu_quantized_depthwise_conv2d(n) =
              [p \in 0 .. (compute_size(NhwcShape(n, n.in_shape[4])) - 1) |-> FlatOffsetValue(n, Index(NhwcShape(n, n.in_shape[4]), p))]
  BY DEF cpu_quantized_depthwise_conv2d, NhwcDepthwise, FlatOffsetValue, FlatOffsetTaps, OverRows, RowsOf, ColsOf, PixelOf, FlatW, Pixel,
         OverImage, OverTaps, Tensor
<1>3. cpu_reduce_window2d(n) =
              [p \in 0 .. (compute_size(NhwcShape(n, n.in_shape[4])) - 1) |-> PixelValue(n, Index(NhwcShape(n, n.in_shape[4]), p))]
  BY DEF cpu_reduce_window2d, PixelValue, PixelTaps, OneTaps, OverRows, RowsOf, ColsOf, PixelOf, Pixel, OverImage, OverTaps, Tensor
<1> QED
  BY <1>1, <1>2, <1>3

-----------------------------------------------------------------------------
\* An NHWC node and the NCHW node it stands for have one filter and, each in its layout, one image.
SameFilter(n, r) ==
  /\ r.filter_h = n.filter_h /\ r.stride_h = n.stride_h /\ r.dilation_h = n.dilation_h /\ r.padding_h = n.padding_h
  /\ r.filter_w = n.filter_w /\ r.stride_w = n.stride_w /\ r.dilation_w = n.dilation_w /\ r.padding_w = n.padding_w
SameImage(n, r) ==
  \A b \in 0 .. r.in_shape[1] - 1, c \in 0 .. r.in_shape[2] - 1, y \in 0 .. r.in_shape[3] - 1, x \in 0 .. r.in_shape[4] - 1 :
    n.input[offset(n.in_shape, <<b, y, x, c>>)] = r.input[offset(r.in_shape, <<b, c, y, x>>)]
Relaid(n, r) ==
  /\ r.in_shape \in Shapes /\ n.in_shape = ToNhwc(r.in_shape) /\ SameFilter(n, r) /\ SameImage(n, r)
  /\ r.bias = n.bias /\ Filtered(n, n.in_shape[2], n.in_shape[3])

\* A node and its channels-first twin read the same windows.
LEMMA SameWindows ==
  ASSUME NEW n, NEW r, Relaid(n, r)
  PROVE  /\ n.in_shape[1] = r.in_shape[1] /\ n.in_shape[2] = r.in_shape[3] /\ n.in_shape[3] = r.in_shape[4] /\ n.in_shape[4] = r.in_shape[2]
         /\ \A h, y : TapsY(n, h, y) = TapsY(r, h, y) /\ TapsX(n, h, y) = TapsX(r, h, y)
         /\ \A y, k : AtY(n, y, k) = AtY(r, y, k) /\ AtX(n, y, k) = AtX(r, y, k)
         /\ \A h : OutH(n, h) = OutH(r, h) /\ OutW(n, h) = OutW(r, h)
<1>1. n.in_shape[1] = r.in_shape[1] /\ n.in_shape[2] = r.in_shape[3] /\ n.in_shape[3] = r.in_shape[4] /\ n.in_shape[4] = r.in_shape[2]
  BY DEF Relaid, ToNhwc
<1>2. \A y : OriginY(n, y) = OriginY(r, y) /\ OriginX(n, y) = OriginX(r, y)
  BY DEF Relaid, SameFilter, OriginY, OriginX
<1>3. \A h, y : TapsY(n, h, y) = TapsY(r, h, y) /\ TapsX(n, h, y) = TapsX(r, h, y)
  BY <1>2 DEF Relaid, SameFilter, TapsY, TapsX
<1>4. \A y, k : AtY(n, y, k) = AtY(r, y, k) /\ AtX(n, y, k) = AtX(r, y, k)
  BY <1>2 DEF Relaid, SameFilter, AtY, AtX
<1>5. \A h : OutH(n, h) = OutH(r, h) /\ OutW(n, h) = OutW(r, h)
  BY DEF Relaid, SameFilter, OutH, OutW
<1> QED
  BY <1>1, <1>3, <1>4, <1>5

\* The numbers of the filter and the window of an element of the NCHW node.
AtImage(r, i) ==
  i[1] \in 0 .. r.in_shape[1] - 1 /\ i[3] \in Nat /\ i[4] \in Nat

\* What a window reads is on the image, and the same in both layouts.
LEMMA PixelsAgree ==
  ASSUME NEW n, NEW r, Relaid(n, r), NEW i, AtImage(r, i), NEW c \in 0 .. r.in_shape[2] - 1, NEW o,
         NEW j \in 0 .. Cardinality(TapsY(r, r.in_shape[3], i[3])) - 1, NEW k \in 0 .. Cardinality(TapsX(r, r.in_shape[4], i[4])) - 1
  PROVE  LET u == First(TapsY(r, r.in_shape[3], i[3])) + j
             v == First(TapsX(r, r.in_shape[4], i[4])) + k
         IN  /\ u \in 0 .. r.filter_h - 1 /\ v \in 0 .. r.filter_w - 1 /\ OnImage(r, i, u, v)
             /\ PixelOf(n, <<i[1], i[3], i[4], o>>, j, k, c) = r.input[offset(r.in_shape, <<i[1], c, AtY(r, i[3], u), AtX(r, i[4], v)>>)]
<1> DEFINE rows == TapsY(r, r.in_shape[3], i[3])
           cols == TapsX(r, r.in_shape[4], i[4])
           u == First(rows) + j
           v == First(cols) + k
           h == r.in_shape[3]
           w == r.in_shape[4]
           f == r.filter_h
           e == r.filter_w
<1>1. /\ f \in Nat \ {0} /\ e \in Nat \ {0} /\ r.dilation_h \in Nat \ {0} /\ r.dilation_w \in Nat \ {0}
      /\ r.stride_h \in Nat /\ r.stride_w \in Nat /\ r.padding_h.before \in Nat /\ r.padding_w.before \in Nat
  BY DEF Relaid, SameFilter, Filtered
<1>2. h \in Nat /\ w \in Nat
  BY DEF Relaid, Shapes
<1>3. OriginY(r, i[3]) \in Int /\ OriginX(r, i[4]) \in Int
  <2> DEFINE sy == r.stride_h
             sx == r.stride_w
             py == r.padding_h.before
             px == r.padding_w.before
             y == i[3]
             x == i[4]
  <2>1. sy \in Nat /\ sx \in Nat /\ py \in Nat /\ px \in Nat /\ y \in Nat /\ x \in Nat
    BY <1>1 DEF AtImage
  <2>2. OriginY(r, i[3]) = y * sy - py /\ OriginX(r, i[4]) = x * sx - px
    BY DEF OriginY, OriginX
  <2> HIDE DEF sy, sx, py, px, y, x
  <2> QED BY <2>1, <2>2
<1>4. Reaches(rows, f, OriginY(r, i[3]), r.dilation_h, h) /\ Reaches(cols, e, OriginX(r, i[4]), r.dilation_w, w)
  BY <1>1, <1>2, <1>3, TapsReach DEF TapsY, TapsX
<1> HIDE DEF rows, cols
<1>5. /\ u \in 0 .. f - 1 /\ OriginY(r, i[3]) + r.dilation_h * u \in 0 .. h - 1
      /\ v \in 0 .. e - 1 /\ OriginX(r, i[4]) + r.dilation_w * v \in 0 .. w - 1
  BY <1>1, <1>4, TapInside DEF rows, cols
<1> HIDE DEF u, v
<1>6. AtY(r, i[3], u) \in 0 .. h - 1 /\ AtX(r, i[4], v) \in 0 .. w - 1
  BY <1>5 DEF AtY, AtX
<1>7. OnImage(r, i, u, v)
  BY <1>6 DEF OnImage
<1>8. PixelOf(n, <<i[1], i[3], i[4], o>>, j, k, c) = n.input[offset(n.in_shape, <<i[1], AtY(r, i[3], u), AtX(r, i[4], v), c>>)]
  BY SameWindows DEF PixelOf, rows, cols, u, v
<1>9. i[1] \in 0 .. r.in_shape[1] - 1
  BY DEF AtImage
<1>10. n.input[offset(n.in_shape, <<i[1], AtY(r, i[3], u), AtX(r, i[4], v), c>>)]
        = r.input[offset(r.in_shape, <<i[1], c, AtY(r, i[3], u), AtX(r, i[4], v)>>)]
  BY <1>6, <1>9 DEF Relaid, SameImage
<1> QED
  BY <1>5, <1>7, <1>8, <1>10 DEF rows, cols, u, v

\* The result of an NHWC kernel, transposed back, is that of the NCHW kernel when it is element by element.
LaidAt(K, R, s, t) ==
  \A p \in 0 .. compute_size(t) - 1 : Shape(t) => K[offset(s, ToNhwc(Index(t, p)))] = R[p]

\* Elements laid out channels last are turned back to the channels-first result.
LEMMA LaidBack ==
  ASSUME NEW n, NEW h \in Nat, NEW w \in Nat, Filtered(n, h, w), NEW b \in Nat \ {0}, NEW C \in Nat \ {0}, NEW d, d.perm = <<1, 4, 2, 3>>,
         d.in_shape = <<b, PlacesH(n, h), PlacesW(n, w), C>>, NEW R,
         R = [p \in 0 .. compute_size(<<b, C, OutH(n, h), OutW(n, w)>>) - 1 |-> R[p]],
         LaidAt(d.input, R, <<b, OutH(n, h), OutW(n, w), C>>, <<b, C, OutH(n, h), OutW(n, w)>>)
  PROVE  transpose(d) = R
<1> DEFINE s == d.in_shape
           t == ToNchw(s)
           z == <<b, C, OutH(n, h), OutW(n, w)>>
           A(p) == d.input[offset(s, ToNhwc(Index(t, p)))]
           B(p) == R[p]
<1>1. transpose(d) = [p \in 0 .. compute_size(t) - 1 |-> A(p)]
  BY ToNchwIs
<1>2. t = <<b, C, PlacesH(n, h), PlacesW(n, w)>>
  BY DEF ToNchw
<1>3. R = [p \in 0 .. compute_size(z) - 1 |-> B(p)]
  OBVIOUS
<1>4. CASE Places(n, h, w)
  <2>1. t = z /\ s = <<b, OutH(n, h), OutW(n, w), C>>
    BY <1>2, <1>4 DEF Places
  <2>2. Shape(z)
    BY <1>4 DEF Places, Shape
  <2>3. ASSUME NEW p \in 0 .. compute_size(t) - 1 PROVE A(p) = B(p)
    BY <2>1, <2>2 DEF LaidAt
  <2> HIDE DEF A, B, t, z
  <2>4. [p \in 0 .. compute_size(t) - 1 |-> A(p)] = [p \in 0 .. compute_size(t) - 1 |-> B(p)]
    BY <2>3
  <2> QED BY <1>1, <1>3, <2>1, <2>4
<1>5. CASE NoPlaces(n, h, w)
  <2> DEFINE y == OutH(n, h)
             x == OutW(n, w)
             u == PlacesH(n, h)
             v == PlacesW(n, w)
  <2>1. y \in Int /\ x \in Int /\ y * x <= 0 /\ u \in Int /\ v \in Int /\ u * v <= 0
    BY <1>5 DEF NoPlaces
  <2> HIDE DEF y, x, u, v
  <2>2. /\ compute_size(<<b, C, y, x>>) \in Int /\ compute_size(<<b, C, y, x>>) <= 0
        /\ compute_size(<<b, C, u, v>>) \in Int /\ compute_size(<<b, C, u, v>>) <= 0
    BY <2>1, NoElements
  <2> DEFINE a == compute_size(z)
             e == compute_size(t)
  <2>3. a \in Int /\ a <= 0 /\ e \in Int /\ e <= 0
    BY <1>2, <2>2 DEF y, x, u, v
  <2> HIDE DEF a, e
  <2>4. 0 .. a - 1 = {} /\ 0 .. e - 1 = {}
    BY <2>3
  <2> HIDE DEF A, B
  <2>5. [p \in 0 .. e - 1 |-> A(p)] = [p \in 0 .. a - 1 |-> B(p)]
    BY <2>4
  <2> QED BY <1>1, <1>3, <2>5 DEF a, e
<1> QED
  BY <1>4, <1>5, PlacesAgree

-----------------------------------------------------------------------------
\* A number below another is no times it.
LEMMA NoTimes ==
  ASSUME NEW m \in Nat \ {0}, NEW x \in 0 .. m - 1
  PROVE  x \div m = 0
<1> DEFINE q == x \div m
           t == x % m
           zero == 0
<1>1. x \in Nat /\ zero \in Nat /\ zero * m + x = x
  OBVIOUS
<1>2. q \in Nat /\ t \in 0 .. m - 1 /\ x = q * m + t
  BY <1>1, DivMod
<1> HIDE DEF q, t, zero
<1>3. q * m + t = zero * m + x
  BY <1>1, <1>2
<1>4. q = zero
  BY <1>1, <1>2, <1>3, Digits
<1> QED
  BY <1>4 DEF q, zero

\* An ordinary convolution has one group, and its weights are those of the NHWC node in the other order.
SameWeights(n, r) ==
  \A o \in 0 .. r.out_channels - 1, ic \in 0 .. r.in_shape[2] - 1, u \in 0 .. r.filter_h - 1, v \in 0 .. r.filter_w - 1 :
    r.weights[((o * r.in_shape[2] + ic) * r.filter_h + u) * r.filter_w + v]
      = n.weights[((o * n.filter_h + u) * n.filter_w + v) * n.in_shape[4] + ic]
Ordinary(n, r) ==
  Relaid(n, r) /\ Convolves(r) /\ r.groups = 1 /\ r.out_channels = n.out_channels /\ SameWeights(n, r)

\* The pixel and the weight that cpu_conv2d reads make the term that conv2d adds.
ReadsTerm(n, r, i, c, j, k) ==
  LET u == First(TapsY(r, r.in_shape[3], i[3])) + j
      v == First(TapsX(r, r.in_shape[4], i[4])) + k
      X == PixelOf(n, ToNhwc(i), j, k, c)
      W == DeepW(n, ToNhwc(i), j, k, c)
  IN  /\ X \in Int /\ W \in Int
      /\ \A a, b \in Int : ConvTerm(r, a, b, i, c, u, v) = (X + a) * (W + b)

\* cpu_conv2d reads, at each tap, the pixel and weight conv2d reads.
LEMMA OrdinaryReads ==
  ASSUME NEW n, NEW r, Ordinary(n, r), NEW i, AtConv(r, i), NEW c \in 0 .. GroupIn(r) - 1,
         NEW j \in 0 .. Cardinality(TapsY(r, r.in_shape[3], i[3])) - 1, NEW k \in 0 .. Cardinality(TapsX(r, r.in_shape[4], i[4])) - 1
  PROVE  ReadsTerm(n, r, i, c, j, k)
<1> DEFINE rows == TapsY(r, r.in_shape[3], i[3])
           cols == TapsX(r, r.in_shape[4], i[4])
           u == First(rows) + j
           v == First(cols) + k
           X == PixelOf(n, ToNhwc(i), j, k, c)
           W == DeepW(n, ToNhwc(i), j, k, c)
           C == r.in_shape[2]
           O == r.out_channels
           y == AtY(r, i[3], u)
           x == AtX(r, i[4], v)
<1>1. Relaid(n, r) /\ Convolves(r) /\ r.groups = 1 /\ r.out_channels = n.out_channels /\ SameWeights(n, r)
  BY DEF Ordinary
<1>2. C \in Nat \ {0} /\ O \in Nat \ {0}
  BY <1>1 DEF Convolves, Shapes
<1>3. GroupIn(r) = C /\ GroupOut(r) = O
  <2>1. C \div 1 = C /\ O \div 1 = O
    BY <1>2, ByOne
  <2> QED BY <1>1, <2>1 DEF GroupIn, GroupOut
<1>4. i[1] \in 0 .. r.in_shape[1] - 1 /\ i[2] \in 0 .. O - 1 /\ i[3] \in Nat /\ i[4] \in Nat /\ AtImage(r, i)
  BY DEF AtConv, AtImage
<1>5. c \in 0 .. C - 1
  BY <1>3
<1>6. /\ u \in 0 .. r.filter_h - 1 /\ v \in 0 .. r.filter_w - 1 /\ OnImage(r, i, u, v)
      /\ X = r.input[offset(r.in_shape, <<i[1], c, y, x>>)]
  <2> HIDE DEF C
  <2> QED BY <1>1, <1>4, <1>5, PixelsAgree DEF C, ToNhwc
<1>7. First(TapsY(n, n.in_shape[2], i[3])) = First(rows) /\ First(TapsX(n, n.in_shape[3], i[4])) = First(cols)
  BY <1>1, SameWindows
<1>8. W = n.weights[((i[2] * n.filter_h + u) * n.filter_w + v) * n.in_shape[4] + c]
  BY <1>7 DEF DeepW, ToNhwc
<1> HIDE DEF X, W, u, v
<1>9. ConvW(r, i, c, u, v) = W
  <2>1. ConvW(r, i, c, u, v) = r.weights[((i[2] * C + c) * r.filter_h + u) * r.filter_w + v]
    BY <1>3 DEF ConvW
  <2> HIDE DEF C, O
  <2> QED BY <1>1, <1>4, <1>5, <1>6, <1>8, <2>1 DEF SameWeights, C, O
<1>10. ConvX(r, i, c, y, x) = X
  <2>1. i[2] \div O = 0
    <3> HIDE DEF O
    <3> QED BY <1>2, <1>4, NoTimes
  <2>2. (i[2] \div GroupOut(r)) * GroupIn(r) + c = c
    <3> HIDE DEF C, O
    <3>1. 0 * C + c = c
      BY <1>2, <1>5
    <3> QED BY <1>3, <2>1, <3>1
  <2> HIDE DEF y, x
  <2> QED BY <1>6, <2>2 DEF ConvX
<1>11. y \in 0 .. r.in_shape[3] - 1 /\ x \in 0 .. r.in_shape[4] - 1
  BY <1>6 DEF OnImage
<1>12. X \in Int /\ W \in Int
  <2> HIDE DEF y, x
  <2> QED BY <1>1, <1>6, <1>9, <1>10, <1>11, ConvReads
<1>13. \A a, b \in Int : ConvTerm(r, a, b, i, c, u, v) = (X + a) * (W + b)
  BY <1>6, <1>9, <1>10 DEF ConvTerm
<1> QED
  BY <1>12, <1>13 DEF ReadsTerm, X, W, u, v

\* What the NHWC kernel adds up are the channels of the taps.
LEMMA OrdinaryHolds ==
  ASSUME NEW n, NEW r, Ordinary(n, r), NEW i, AtConv(r, i)
  PROVE  /\ HoldsChannels(r, 0, 0, i, NhwcTaps(n, ToNhwc(i)))
         /\ Offset(n) => HoldsChannels(r, -n.input_offset, -n.filter_offset, i, NhwcOffsetTaps(n, ToNhwc(i)))
<1> DEFINE rows == TapsY(r, r.in_shape[3], i[3])
           cols == TapsX(r, r.in_shape[4], i[4])
           C == GroupIn(r)
           p == n.input_offset
           q == n.filter_offset
<1>1. Relaid(n, r) /\ Convolves(r) /\ r.groups = 1
  BY DEF Ordinary
<1>2. n.in_shape[4] = C
  <2> DEFINE m == r.in_shape[2]
  <2>1. m \in Nat /\ n.in_shape[4] = m
    BY <1>1, SameWindows DEF Convolves, Shapes
  <2> HIDE DEF m
  <2>2. m \div 1 = m
    BY <2>1, ByOne
  <2> QED BY <1>1, <2>1, <2>2 DEF GroupIn, m
<1>3. RowsOf(n, ToNhwc(i)) = Cardinality(rows) /\ ColsOf(n, ToNhwc(i)) = Cardinality(cols)
  BY <1>1, SameWindows DEF RowsOf, ColsOf, ToNhwc
<1>4. ASSUME NEW j \in 0 .. Cardinality(rows) - 1, NEW k \in 0 .. Cardinality(cols) - 1
      PROVE  /\ NhwcTaps(n, ToNhwc(i))[j][k] = Total(ChannelRow(r, 0, 0, i, First(rows) + j, First(cols) + k), C)
             /\ Offset(n) => NhwcOffsetTaps(n, ToNhwc(i))[j][k] = Total(ChannelRow(r, -p, -q, i, First(rows) + j, First(cols) + k), C)
  <2> DEFINE u == First(rows) + j
             v == First(cols) + k
             X(c) == PixelOf(n, ToNhwc(i), j, k, c)
             W(c) == DeepW(n, ToNhwc(i), j, k, c)
             P(c) == X(c) * W(c)
             Q(c) == (X(c) - p) * (W(c) - q)
             S(c) == ConvTerm(r, 0, 0, i, c, u, v)
             T(c) == ConvTerm(r, -p, -q, i, c, u, v)
  <2>1. ASSUME NEW c \in 0 .. C - 1
        PROVE  X(c) \in Int /\ W(c) \in Int /\ \A a, b \in Int : ConvTerm(r, a, b, i, c, u, v) = (X(c) + a) * (W(c) + b)
    <3>1. /\ AtConv(r, i) /\ c \in 0 .. GroupIn(r) - 1
          /\ j \in 0 .. Cardinality(TapsY(r, r.in_shape[3], i[3])) - 1 /\ k \in 0 .. Cardinality(TapsX(r, r.in_shape[4], i[4])) - 1
      OBVIOUS
    <3>2. ReadsTerm(n, r, i, c, j, k)
      <4> HIDE DEF u, v, X, W, C, rows, cols
      <4> QED BY <3>1, OrdinaryReads
    <3> QED BY <3>2 DEF ReadsTerm
  <2>2. NhwcTaps(n, ToNhwc(i))[j][k] = Total([c \in 0 .. C - 1 |-> P(c)], C)
    <3> HIDE DEF C
    <3> QED BY <1>2, <1>3 DEF NhwcTaps
  <2>3. NhwcOffsetTaps(n, ToNhwc(i))[j][k] = Total([c \in 0 .. C - 1 |-> Q(c)], C)
    <3> HIDE DEF C
    <3> QED BY <1>2, <1>3 DEF NhwcOffsetTaps
  <2>4. /\ ChannelRow(r, 0, 0, i, u, v) = [c \in 0 .. C - 1 |-> S(c)]
        /\ ChannelRow(r, -p, -q, i, u, v) = [c \in 0 .. C - 1 |-> T(c)]
    BY DEF ChannelRow
  <2> HIDE DEF u, v, X, W
  <2>5. ASSUME NEW c \in 0 .. C - 1 PROVE P(c) = S(c)
    <3> DEFINE g == X(c)
               h == W(c)
               zero == 0
    <3>1. zero \in Int /\ g \in Int /\ h \in Int
      BY <2>1
    <3> HIDE DEF zero
    <3>2. ConvTerm(r, zero, zero, i, c, u, v) = (g + zero) * (h + zero)
      BY <2>1, <3>1
    <3> HIDE DEF g, h
    <3>3. (g + zero) * (h + zero) = g * h
      <4>1. g + zero = g /\ h + zero = h
        BY <3>1 DEF zero
      <4> QED BY <4>1
    <3> QED BY <3>2, <3>3 DEF zero, g, h
  <2>6. ASSUME NEW c \in 0 .. C - 1, Offset(n) PROVE Q(c) = T(c)
    <3> DEFINE g == X(c)
               h == W(c)
    <3>1. p \in Int /\ q \in Int /\ g \in Int /\ h \in Int
      BY <2>1, <2>6 DEF Offset
    <3> HIDE DEF p, q
    <3>2. -p \in Int /\ -q \in Int
      BY <3>1
    <3>3. ConvTerm(r, -p, -q, i, c, u, v) = (g + (-p)) * (h + (-q))
      BY <2>1, <3>2
    <3> HIDE DEF g, h
    <3>4. g + (-p) = g - p /\ h + (-q) = h - q
      BY <3>1
    <3> QED BY <3>3, <3>4 DEF g, h, p, q
  <2> HIDE DEF P, Q, S, T, C
  <2>7. [c \in 0 .. C - 1 |-> P(c)] = [c \in 0 .. C - 1 |-> S(c)]
    BY <2>5
  <2>8. Offset(n) => [c \in 0 .. C - 1 |-> Q(c)] = [c \in 0 .. C - 1 |-> T(c)]
    BY <2>6
  <2> QED BY <2>2, <2>3, <2>4, <2>7, <2>8 DEF u, v, C
<1> QED
  BY <1>4 DEF HoldsChannels

\* So an element of the result is the sum of the convolution.
LEMMA OrdinaryValue ==
  ASSUME NEW n, NEW r, Ordinary(n, r), NEW i, AtConv(r, i)
  PROVE  /\ NhwcValue(n, ToNhwc(i)) = Activated(n.bias[i[2]] + ConvSum(r, 0, 0, i), n)
         /\ Offset(n) => NhwcOffsetValue(n, ToNhwc(i))
                           = Requantized(n.bias[i[2]] + ConvSum(r, -n.input_offset, -n.filter_offset, i), n)
<1> DEFINE rows == TapsY(r, r.in_shape[3], i[3])
           cols == TapsX(r, r.in_shape[4], i[4])
           p == -n.input_offset
           q == -n.filter_offset
           x == NhwcTaps(n, ToNhwc(i))
           y == NhwcOffsetTaps(n, ToNhwc(i))
           zero == 0
<1>1. Relaid(n, r) /\ Convolves(r)
  BY DEF Ordinary
<1>2. RowsOf(n, ToNhwc(i)) = Cardinality(rows) /\ ColsOf(n, ToNhwc(i)) = Cardinality(cols)
  BY <1>1, SameWindows DEF RowsOf, ColsOf, ToNhwc
<1>3. HoldsChannels(r, zero, zero, i, x) /\ (Offset(n) => HoldsChannels(r, p, q, i, y))
  BY OrdinaryHolds
<1>4. zero \in Int /\ (Offset(n) => p \in Int /\ q \in Int)
  BY DEF Offset
<1> HIDE DEF x, y, p, q, zero
<1>5. AccumulateRows("add", 0, x, Cardinality(rows), Cardinality(cols)) = ConvSum(r, zero, zero, i)
  BY <1>1, <1>3, <1>4, ChannelTapsTotal
<1>6. Offset(n) => AccumulateRows("add", 0, y, Cardinality(rows), Cardinality(cols)) = ConvSum(r, p, q, i)
  BY <1>1, <1>3, <1>4, ChannelTapsTotal
<1>7. ToNhwc(i)[4] = i[2]
  BY DEF ToNhwc
<1>8. NhwcValue(n, ToNhwc(i)) = Activated(n.bias[i[2]] + AccumulateRows("add", 0, x, Cardinality(rows), Cardinality(cols)), n)
  <2> HIDE DEF rows, cols
  <2> QED BY <1>2, <1>7 DEF NhwcValue, OverRows, x
<1>9. NhwcOffsetValue(n, ToNhwc(i)) = Requantized(n.bias[i[2]] + AccumulateRows("add", 0, y, Cardinality(rows), Cardinality(cols)), n)
  <2> HIDE DEF rows, cols
  <2> QED BY <1>2, <1>7 DEF NhwcOffsetValue, OverRows, y
<1> QED
  BY <1>5, <1>6, <1>8, <1>9 DEF zero, p, q

-----------------------------------------------------------------------------
\* A number is once itself.
LEMMA ByItself ==
  ASSUME NEW m \in Nat \ {0}
  PROVE  m \div m = 1 /\ m % m = 0
<1> DEFINE q == m \div m
           t == m % m
           one == 1
           zero == 0
<1>1. one \in Nat /\ zero \in 0 .. m - 1 /\ one * m + zero = m
  OBVIOUS
<1>2. q \in Nat /\ t \in 0 .. m - 1 /\ m = q * m + t
  BY DivMod
<1> HIDE DEF q, t, zero, one
<1>3. q * m + t = one * m + zero
  BY <1>1, <1>2
<1>4. q = one /\ t = zero
  BY <1>1, <1>2, <1>3, Digits
<1> QED
  BY <1>4 DEF q, t, zero, one

\* A depthwise convolution has a group for every channel.
FlatWeights(n, r) ==
  \A o \in 0 .. r.out_channels - 1, u \in 0 .. r.filter_h - 1, v \in 0 .. r.filter_w - 1 :
    r.weights[(o * r.filter_h + u) * r.filter_w + v] = n.weights[(o * n.filter_h + u) * n.filter_w + v]
Depthwise(n, r) ==
  Relaid(n, r) /\ Convolves(r) /\ r.groups = r.in_shape[2] /\ r.out_channels = r.in_shape[2] /\ FlatWeights(n, r)

\* cpu_depthwise_conv2d reads, at each tap, the pixel and weight conv2d reads.
LEMMA DepthwiseReads ==
  ASSUME NEW n, NEW r, Depthwise(n, r), NEW i, AtConv(r, i),
         NEW j \in 0 .. Cardinality(TapsY(r, r.in_shape[3], i[3])) - 1, NEW k \in 0 .. Cardinality(TapsX(r, r.in_shape[4], i[4])) - 1
  PROVE  LET u == First(TapsY(r, r.in_shape[3], i[3])) + j
             v == First(TapsX(r, r.in_shape[4], i[4])) + k
             X == PixelOf(n, ToNhwc(i), j, k, i[2])
             W == FlatW(n, ToNhwc(i), j, k)
         IN  /\ X \in Int /\ W \in Int /\ GroupIn(r) = 1
             /\ \A a, b \in Int : ConvTerm(r, a, b, i, 0, u, v) = (X + a) * (W + b)
<1> DEFINE rows == TapsY(r, r.in_shape[3], i[3])
           cols == TapsX(r, r.in_shape[4], i[4])
           u == First(rows) + j
           v == First(cols) + k
           X == PixelOf(n, ToNhwc(i), j, k, i[2])
           W == FlatW(n, ToNhwc(i), j, k)
           C == r.in_shape[2]
           y == AtY(r, i[3], u)
           x == AtX(r, i[4], v)
           zero == 0
<1>1. Relaid(n, r) /\ Convolves(r) /\ r.groups = C /\ r.out_channels = C /\ FlatWeights(n, r)
  BY DEF Depthwise
<1>2. C \in Nat \ {0}
  BY <1>1 DEF Convolves, Shapes
<1>3. GroupIn(r) = 1 /\ GroupOut(r) = 1
  <2>1. C \div C = 1
    BY <1>2, ByItself
  <2> HIDE DEF C
  <2> QED BY <1>1, <2>1 DEF GroupIn, GroupOut, C
<1>4. i[1] \in 0 .. r.in_shape[1] - 1 /\ i[2] \in 0 .. C - 1 /\ i[3] \in Nat /\ i[4] \in Nat /\ AtImage(r, i)
  BY <1>1 DEF AtConv, AtImage
<1>5. /\ u \in 0 .. r.filter_h - 1 /\ v \in 0 .. r.filter_w - 1 /\ OnImage(r, i, u, v)
      /\ X = r.input[offset(r.in_shape, <<i[1], i[2], y, x>>)]
  BY <1>1, <1>4, PixelsAgree DEF ToNhwc
<1>6. First(TapsY(n, n.in_shape[2], i[3])) = First(rows) /\ First(TapsX(n, n.in_shape[3], i[4])) = First(cols)
  BY <1>1, SameWindows
<1>7. W = n.weights[(i[2] * n.filter_h + u) * n.filter_w + v]
  BY <1>6 DEF FlatW, ToNhwc
<1>8. i[2] \in Nat /\ i[2] * 1 + 0 = i[2] /\ (i[2] \div 1) * 1 + 0 = i[2]
  <2> DEFINE c == i[2]
  <2>1. c \in Nat
    BY <1>2, <1>4
  <2> HIDE DEF c
  <2>2. c \div 1 = c
    BY <2>1, ByOne
  <2>3. c * 1 + 0 = c
    BY <2>1
  <2> QED BY <2>1, <2>2, <2>3 DEF c
<1> HIDE DEF X, W, u, v
<1>9. ConvW(r, i, 0, u, v) = W
  <2>1. ConvW(r, i, 0, u, v) = r.weights[(i[2] * r.filter_h + u) * r.filter_w + v]
    BY <1>3, <1>8 DEF ConvW
  <2> HIDE DEF C
  <2> QED BY <1>1, <1>4, <1>5, <1>7, <2>1 DEF FlatWeights
<1>10. ConvX(r, i, 0, y, x) = X
  <2> HIDE DEF y, x
  <2> QED BY <1>3, <1>5, <1>8 DEF ConvX
<1>11. y \in 0 .. r.in_shape[3] - 1 /\ x \in 0 .. r.in_shape[4] - 1
  BY <1>5 DEF OnImage
<1>12. X \in Int /\ W \in Int
  <2>1. 0 \in 0 .. GroupIn(r) - 1
    BY <1>3
  <2> HIDE DEF y, x
  <2> QED BY <1>1, <1>5, <1>9, <1>10, <1>11, <2>1, ConvReads
<1>13. \A a, b \in Int : ConvTerm(r, a, b, i, 0, u, v) = (X + a) * (W + b)
  BY <1>5, <1>9, <1>10 DEF ConvTerm
<1> QED
  BY <1>3, <1>12, <1>13 DEF X, W, u, v

\* So its taps hold the terms of one group's sum.
LEMMA DepthwiseHolds ==
  ASSUME NEW n, NEW r, Depthwise(n, r), NEW i, AtConv(r, i)
  PROVE  /\ HoldsTerms(r, 0, 0, i, 0, FlatTaps(n, ToNhwc(i)))
         /\ Offset(n) => HoldsTerms(r, -n.input_offset, -n.filter_offset, i, 0, FlatOffsetTaps(n, ToNhwc(i)))
<1> DEFINE rows == TapsY(r, r.in_shape[3], i[3])
           cols == TapsX(r, r.in_shape[4], i[4])
           p == n.input_offset
           q == n.filter_offset
<1>1. Relaid(n, r) /\ Convolves(r) /\ ConvNumbers(r) /\ i[3] \in Nat /\ i[4] \in Nat
  BY ConvHasNumbers DEF Depthwise, AtConv
<1>2. RowsOf(n, ToNhwc(i)) = Cardinality(rows) /\ ColsOf(n, ToNhwc(i)) = Cardinality(cols) /\ ToNhwc(i)[4] = i[2]
  BY <1>1, SameWindows DEF RowsOf, ColsOf, ToNhwc
<1>3. /\ Reaches(rows, r.filter_h, OriginY(r, i[3]), r.dilation_h, r.in_shape[3])
      /\ Reaches(cols, r.filter_w, OriginX(r, i[4]), r.dilation_w, r.in_shape[4])
  BY <1>1, ConvReaches
<1>4. /\ r.filter_h \in Nat /\ r.filter_w \in Nat /\ r.dilation_h \in Nat /\ r.dilation_w \in Nat
      /\ r.in_shape[3] \in Nat /\ r.in_shape[4] \in Nat
  BY <1>1 DEF ConvNumbers
<1>5. OriginY(r, i[3]) \in Int /\ OriginX(r, i[4]) \in Int
  <2> DEFINE sy == r.stride_h
             sx == r.stride_w
             py == r.padding_h.before
             px == r.padding_w.before
             y == i[3]
             x == i[4]
  <2>1. sy \in Nat /\ sx \in Nat /\ py \in Nat /\ px \in Nat /\ y \in Nat /\ x \in Nat
    BY <1>1 DEF ConvNumbers, Bordered
  <2>2. OriginY(r, i[3]) = y * sy - py /\ OriginX(r, i[4]) = x * sx - px
    BY DEF OriginY, OriginX
  <2> HIDE DEF sy, sx, py, px, y, x
  <2> QED BY <2>1, <2>2
<1>6. ASSUME NEW u \in rows, NEW v \in cols, u \in 0 .. r.filter_h - 1, v \in 0 .. r.filter_w - 1
      PROVE  /\ FlatTaps(n, ToNhwc(i))[u - First(rows)][v - First(cols)] = ConvTerm(r, 0, 0, i, 0, u, v)
             /\ Offset(n) => FlatOffsetTaps(n, ToNhwc(i))[u - First(rows)][v - First(cols)] = ConvTerm(r, -p, -q, i, 0, u, v)
  <2> DEFINE j == u - First(rows)
             k == v - First(cols)
             g == PixelOf(n, ToNhwc(i), j, k, i[2])
             h == FlatW(n, ToNhwc(i), j, k)
             zero == 0
  <2>1. j \in 0 .. Cardinality(rows) - 1 /\ First(rows) + j = u
    <3> HIDE DEF rows
    <3> QED BY <1>3, <1>4, <1>5, <1>6, ReachedFrom
  <2>2. k \in 0 .. Cardinality(cols) - 1 /\ First(cols) + k = v
    <3> HIDE DEF cols
    <3> QED BY <1>3, <1>4, <1>5, <1>6, ReachedFrom
  <2>3. /\ FlatTaps(n, ToNhwc(i))[j][k] = g * h
        /\ FlatOffsetTaps(n, ToNhwc(i))[j][k] = (g - p) * (h - q)
    <3> HIDE DEF j, k, rows, cols
    <3> QED BY <1>2, <2>1, <2>2 DEF FlatTaps, FlatOffsetTaps
  <2> HIDE DEF j, k
  <2>4. g \in Int /\ h \in Int /\ \A a, b \in Int : ConvTerm(r, a, b, i, 0, First(rows) + j, First(cols) + k) = (g + a) * (h + b)
    BY <2>1, <2>2, DepthwiseReads
  <2>5. g \in Int /\ h \in Int /\ \A a, b \in Int : ConvTerm(r, a, b, i, 0, u, v) = (g + a) * (h + b)
    <3> HIDE DEF g, h, rows, cols
    <3> QED BY <2>1, <2>2, <2>4
  <2> HIDE DEF g, h, rows, cols
  <2>6. ConvTerm(r, 0, 0, i, 0, u, v) = g * h
    <3>1. zero \in Int
      OBVIOUS
    <3> HIDE DEF zero
    <3>2. ConvTerm(r, zero, zero, i, 0, u, v) = (g + zero) * (h + zero)
      BY <2>5, <3>1
    <3>3. g + zero = g /\ h + zero = h
      BY <2>5 DEF zero
    <3> QED BY <3>2, <3>3 DEF zero
  <2>7. ASSUME Offset(n) PROVE ConvTerm(r, -p, -q, i, 0, u, v) = (g - p) * (h - q)
    <3>1. p \in Int /\ q \in Int
      BY <2>7 DEF Offset
    <3> HIDE DEF p, q
    <3>2. -p \in Int /\ -q \in Int
      BY <3>1
    <3>3. ConvTerm(r, -p, -q, i, 0, u, v) = (g + (-p)) * (h + (-q))
      BY <2>5, <3>2
    <3>4. g + (-p) = g - p /\ h + (-q) = h - q
      BY <2>5, <3>1
    <3> QED BY <3>3, <3>4
  <2> QED BY <2>3, <2>6, <2>7 DEF j, k
<1> QED
  BY <1>6 DEF HoldsTerms

\* So its element is the element of the grouped convolution.
LEMMA DepthwiseValue ==
  ASSUME NEW n, NEW r, Depthwise(n, r), NEW i, AtConv(r, i)
  PROVE  /\ FlatValue(n, ToNhwc(i)) = Activated(n.bias[i[2]] + ConvSum(r, 0, 0, i), n)
         /\ Offset(n) => FlatOffsetValue(n, ToNhwc(i))
                           = Requantized(n.bias[i[2]] + ConvSum(r, -n.input_offset, -n.filter_offset, i), n)
<1> DEFINE rows == TapsY(r, r.in_shape[3], i[3])
           cols == TapsX(r, r.in_shape[4], i[4])
           p == -n.input_offset
           q == -n.filter_offset
           x == FlatTaps(n, ToNhwc(i))
           y == FlatOffsetTaps(n, ToNhwc(i))
           zero == 0
           c == 0
<1>1. Relaid(n, r) /\ Convolves(r) /\ ConvNumbers(r)
  BY ConvHasNumbers DEF Depthwise
<1>2. RowsOf(n, ToNhwc(i)) = Cardinality(rows) /\ ColsOf(n, ToNhwc(i)) = Cardinality(cols)
  BY <1>1, SameWindows DEF RowsOf, ColsOf, ToNhwc
<1>3. HoldsTerms(r, zero, zero, i, c, x) /\ (Offset(n) => HoldsTerms(r, p, q, i, c, y))
  BY DepthwiseHolds
<1>4. zero \in Int /\ (Offset(n) => p \in Int /\ q \in Int)
  BY DEF Offset
<1>5. GroupIn(r) = 1 /\ c \in 0 .. GroupIn(r) - 1
  <2> DEFINE C == r.in_shape[2]
  <2>1. C \in Nat \ {0} /\ r.groups = C
    BY <1>1 DEF Convolves, Shapes, Depthwise
  <2> HIDE DEF C
  <2>2. C \div C = 1
    BY <2>1, ByItself
  <2> QED BY <2>1, <2>2 DEF GroupIn, C
<1> HIDE DEF x, y, p, q, zero, c
<1>6. AccumulateRows("add", 0, x, Cardinality(rows), Cardinality(cols)) = ConvOf(r, zero, zero, i, c)
  BY <1>1, <1>3, <1>4, <1>5, ConvTapsTotal
<1>7. Offset(n) => AccumulateRows("add", 0, y, Cardinality(rows), Cardinality(cols)) = ConvOf(r, p, q, i, c)
  BY <1>1, <1>3, <1>4, <1>5, ConvTapsTotal
<1>8. ASSUME NEW a \in Int, NEW b \in Int PROVE ConvSum(r, a, b, i) = ConvOf(r, a, b, i, c)
  <2> DEFINE z == [ic \in 0 .. 0 |-> ConvOf(r, a, b, i, ic)]
             R == ConvRows(r, a, b, i, c)
             S == RowSums(R, r.filter_h, r.filter_w)
             f == r.filter_h
             e == r.filter_w
  <2>1. f \in Nat /\ e \in Nat
    BY <1>1 DEF ConvNumbers
  <2>2. \A ky \in 0 .. f - 1 : \A kx \in 0 .. e - 1 : R[ky][kx] \in Int
    <3> TAKE ky \in 0 .. f - 1
    <3> TAKE kx \in 0 .. e - 1
    <3>1. R[ky][kx] = ConvTerm(r, a, b, i, c, ky, kx)
      BY DEF ConvRows
    <3> QED BY <1>1, <1>5, <3>1, TermIsInt
  <2>3. ConvOf(r, a, b, i, c) = Total(S, f)
    BY DEF ConvOf
  <2> HIDE DEF R, f, e
  <2>4. \A ky \in 0 .. f - 1 : S[ky] \in Int
    <3>1. IntRows(R, f, e)
      BY <2>2 DEF IntRows
    <3>2. \A ky \in 0 .. f - 1 : RowSums(R, f, e)[ky] \in Int
      BY <2>1, <3>1, RowSumsAreInt
    <3> QED BY <3>2 DEF f, e
  <2> HIDE DEF S
  <2>5. ConvOf(r, a, b, i, c) \in Int
    <3>1. Totals(S, f) /\ f \in 0 .. f
      BY <2>1, <2>4, TotalSteps
    <3> QED BY <2>3, <3>1 DEF Totals
  <2>6. z[0] = ConvOf(r, a, b, i, c)
    BY DEF c
  <2>7. ConvSum(r, a, b, i) = Total(z, 1)
    <3>1. GroupIn(r) - 1 = 0
      BY <1>5
    <3> QED BY <1>5, <3>1 DEF ConvSum
  <2> HIDE DEF z
  <2>8. Total(z, 1) = z[0]
    BY <2>5, <2>6, TotalOfOne
  <2> QED BY <2>6, <2>7, <2>8
<1>9. ToNhwc(i)[4] = i[2]
  BY DEF ToNhwc
<1>10. FlatValue(n, ToNhwc(i)) = Activated(n.bias[i[2]] + AccumulateRows("add", 0, x, Cardinality(rows), Cardinality(cols)), n)
  <2> HIDE DEF rows, cols
  <2> QED BY <1>2, <1>9 DEF FlatValue, OverRows, x
<1>11. FlatOffsetValue(n, ToNhwc(i)) = Requantized(n.bias[i[2]] + AccumulateRows("add", 0, y, Cardinality(rows), Cardinality(cols)), n)
  <2> HIDE DEF rows, cols
  <2> QED BY <1>2, <1>9 DEF FlatOffsetValue, OverRows, y
<1>12. FlatValue(n, ToNhwc(i)) = Activated(n.bias[i[2]] + ConvSum(r, zero, zero, i), n)
  BY <1>4, <1>6, <1>8, <1>10
<1>13. Offset(n) => FlatOffsetValue(n, ToNhwc(i)) = Requantized(n.bias[i[2]] + ConvSum(r, p, q, i), n)
  BY <1>4, <1>7, <1>8, <1>11
<1> QED
  BY <1>12, <1>13 DEF zero, p, q

-----------------------------------------------------------------------------
\* The same number n times.
LEMMA TotalOfSame ==
  ASSUME NEW n \in Nat, NEW c \in Int, NEW x, \A k \in 0 .. n - 1 : x[k] = c
  PROVE  Total(x, n) = c * n
<1> DEFINE z == [k \in 0 .. n - 1 |-> 0]
           zero == 0
<1>1. \A k \in 0 .. n - 1 : z[k] \in Int /\ z[k] = 0
  OBVIOUS
<1> HIDE DEF z
<1>2. Total(z, n) = 0
  BY <1>1, TotalOfZero
<1>3. zero \in Int
  OBVIOUS
<1>4. Combines(x, z, z, z, zero, zero, c, n)
  <2> SUFFICES ASSUME NEW k \in 0 .. n - 1 PROVE x[k] = z[k] + zero * z[k] + zero * z[k] + c
    BY DEF Combines
  <2>1. z[k] = 0 /\ x[k] = c
    BY <1>1
  <2> QED BY <2>1
<1> HIDE DEF zero
<1>5. Total(x, n) = Total(z, n) + zero * Total(z, n) + zero * Total(z, n) + c * n
  BY <1>1, <1>3, <1>4, TotalCombines
<1> DEFINE cn == c * n
<1>6. cn \in Int
  OBVIOUS
<1> HIDE DEF cn
<1>7. 0 + zero * 0 + zero * 0 + cn = cn
  BY <1>6 DEF zero
<1> QED
  BY <1>2, <1>5, <1>7 DEF cn

\* A sum of ones counts the taps.
LEMMA OnesCount ==
  ASSUME NEW m \in Nat, NEW w \in Nat
  PROVE  AccumulateRows("add", 0, [j \in 0 .. m - 1 |-> [k \in 0 .. w - 1 |-> 1]], m, w) = m * w
<1> DEFINE x == [j \in 0 .. m - 1 |-> [k \in 0 .. w - 1 |-> 1]]
           t == [j \in 0 .. m - 1 |-> Total(x[j], w)]
<1>1. \A j \in 0 .. m - 1 : \A k \in 0 .. w - 1 : x[j][k] = 1
  OBVIOUS
<1>2. \A j \in 0 .. m - 1 : \A k \in 0 .. w - 1 : x[j][k] \in Int
  BY <1>1
<1> HIDE DEF x
<1>3. AccumulateRows("add", 0, x, m, w) = Total(t, m)
  BY <1>2, RowsTotal
<1>4. ASSUME NEW j \in 0 .. m - 1 PROVE t[j] = w
  <2> DEFINE y == x[j]
             one == 1
  <2>1. one \in Int /\ \A k \in 0 .. w - 1 : y[k] = one
    BY <1>1
  <2> HIDE DEF y, one
  <2>2. Total(y, w) = one * w
    BY <2>1, TotalOfSame
  <2>3. one * w = w
    BY DEF one
  <2> QED BY <2>2, <2>3 DEF y
<1> HIDE DEF t
<1>5. Total(t, m) = w * m
  BY <1>4, TotalOfSame
<1>6. w * m = m * w
  OBVIOUS
<1> QED
  BY <1>3, <1>5, <1>6 DEF x

\* A window reduction finds the same pixels.
WindowNode(n, r) ==
  /\ Relaid(n, r) /\ r.mean = n.mean /\ r.reduce_op = n.reduce_op /\ r.init_value = n.init_value
  /\ r.fused_activation = n.fused_activation

\* cpu_reduce_window2d and reduce_window2d reduce the same window.
LEMMA WindowsAgree ==
  ASSUME NEW n, NEW r, WindowNode(n, r), NEW i, AtImage(r, i), i[2] \in 0 .. r.in_shape[2] - 1
  PROVE  PixelValue(n, ToNhwc(i)) = WindowValue(r, i)
<1> DEFINE rows == TapsY(r, r.in_shape[3], i[3])
           cols == TapsX(r, r.in_shape[4], i[4])
           m == Cardinality(rows)
           w == Cardinality(cols)
           P(j, k) == PixelOf(n, ToNhwc(i), j, k, i[2])
           Q(j, k) == r.input[offset(r.in_shape, <<i[1], i[2], AtY(r, i[3], First(rows) + j), AtX(r, i[4], First(cols) + k)>>)]
           A(j) == [k \in 0 .. w - 1 |-> P(j, k)]
           B(j) == [k \in 0 .. w - 1 |-> Q(j, k)]
           x == PixelTaps(n, ToNhwc(i))
           y == WindowTaps(r, i)
<1>1. Relaid(n, r) /\ r.mean = n.mean /\ r.reduce_op = n.reduce_op /\ r.init_value = n.init_value /\ r.fused_activation = n.fused_activation
  BY DEF WindowNode
<1>2. RowsOf(n, ToNhwc(i)) = m /\ ColsOf(n, ToNhwc(i)) = w /\ ToNhwc(i)[4] = i[2]
  BY <1>1, SameWindows DEF RowsOf, ColsOf, ToNhwc
<1>3. x = [j \in 0 .. m - 1 |-> A(j)]
  <2> HIDE DEF m, w
  <2> QED BY <1>2 DEF PixelTaps
<1>4. y = [j \in 0 .. m - 1 |-> B(j)]
  BY DEF WindowTaps
<1>5. ASSUME NEW j \in 0 .. m - 1 PROVE A(j) = B(j)
  <2>1. ASSUME NEW k \in 0 .. w - 1 PROVE P(j, k) = Q(j, k)
    BY <1>1, PixelsAgree DEF ToNhwc
  <2> HIDE DEF P, Q, w
  <2> QED BY <2>1
<1>6. OneTaps(n, ToNhwc(i)) = [j \in 0 .. m - 1 |-> [k \in 0 .. w - 1 |-> 1]]
  <2> HIDE DEF m, w
  <2> QED BY <1>2 DEF OneTaps
<1>7. m \in Nat /\ w \in Nat
  <2>1. /\ r.in_shape[3] \in Nat /\ r.in_shape[4] \in Nat /\ r.filter_h \in Nat /\ r.filter_w \in Nat
        /\ r.dilation_h \in Nat \ {0} /\ r.dilation_w \in Nat \ {0}
    BY <1>1 DEF Relaid, SameFilter, Filtered, Shapes
  <2>2. OriginY(r, i[3]) \in Int /\ OriginX(r, i[4]) \in Int
    <3> DEFINE sy == r.stride_h
               sx == r.stride_w
               py == r.padding_h.before
               px == r.padding_w.before
               b == i[3]
               a == i[4]
    <3>1. sy \in Nat /\ sx \in Nat /\ py \in Nat /\ px \in Nat /\ b \in Nat /\ a \in Nat
      BY <1>1 DEF Relaid, SameFilter, Filtered, AtImage
    <3>2. OriginY(r, i[3]) = b * sy - py /\ OriginX(r, i[4]) = a * sx - px
      BY DEF OriginY, OriginX
    <3> HIDE DEF sy, sx, py, px, a, b
    <3> QED BY <3>1, <3>2
  <2>3. /\ Reaches(rows, r.filter_h, OriginY(r, i[3]), r.dilation_h, r.in_shape[3])
        /\ Reaches(cols, r.filter_w, OriginX(r, i[4]), r.dilation_w, r.in_shape[4])
    BY <2>1, <2>2, TapsReach DEF TapsY, TapsX
  <2> HIDE DEF rows, cols
  <2> QED BY <2>3 DEF Reaches, Stretch
<1> HIDE DEF rows, cols, m, w
<1>8. x = y
  <2> HIDE DEF A, B, x, y
  <2>1. [j \in 0 .. m - 1 |-> A(j)] = [j \in 0 .. m - 1 |-> B(j)]
    BY <1>5
  <2> QED BY <1>3, <1>4, <2>1
<1>9. OverRows(n, ToNhwc(i), "add", 0, OneTaps(n, ToNhwc(i))) = m * w
  BY <1>2, <1>6, <1>7, OnesCount DEF OverRows
<1>10. OverRows(n, ToNhwc(i), n.reduce_op, n.init_value, x) = WindowSum(r, i)
  <2> HIDE DEF x, y
  <2>1. OverRows(n, ToNhwc(i), n.reduce_op, n.init_value, x) = AccumulateRows(r.reduce_op, r.init_value, y, m, w)
    BY <1>1, <1>2, <1>8 DEF OverRows
  <2> QED BY <2>1 DEF WindowSum, y, m, w, rows, cols
<1>11. PixelValue(n, ToNhwc(i)) = Reduced(WindowSum(r, i), m * w, n)
  BY <1>1, <1>9, <1>10 DEF PixelValue
<1>12. WindowValue(r, i) = Reduced(WindowSum(r, i), m * w, r)
  BY DEF WindowValue, m, w, rows, cols
<1> QED
  BY <1>1, <1>11, <1>12 DEF Reduced, Averaged, Activated

-----------------------------------------------------------------------------
\* An element of the NCHW result is found in the NHWC result.
LEMMA TurnedFinds ==
  ASSUME NEW b, NEW C, NEW y, NEW x, Shape(<<b, C, y, x>>), NEW p \in 0 .. compute_size(<<b, C, y, x>>) - 1
  PROVE  LET i == Index(<<b, C, y, x>>, p)
             q == offset(<<b, y, x, C>>, ToNhwc(i))
         IN  /\ q \in 0 .. compute_size(<<b, y, x, C>>) - 1 /\ Index(<<b, y, x, C>>, q) = ToNhwc(i)
             /\ i[1] \in 0 .. b - 1 /\ i[2] \in 0 .. C - 1 /\ i[3] \in 0 .. y - 1 /\ i[4] \in 0 .. x - 1
<1> DEFINE t == <<b, C, y, x>>
           s == <<b, y, x, C>>
           i == Index(t, p)
           q == offset(s, ToNhwc(i))
<1>1. Shape(s)
  BY DEF Shape
<1>2. \A k \in 1 .. 4 : i[k] \in 0 .. t[k] - 1
  <2> HIDE DEF t
  <2> QED BY OffsetOfIndex DEF t
<1>3. t[1] = b /\ t[2] = C /\ t[3] = y /\ t[4] = x /\ s[1] = b /\ s[2] = y /\ s[3] = x /\ s[4] = C
  OBVIOUS
<1> HIDE DEF i, t, s
<1>4. i[1] \in 0 .. b - 1 /\ i[2] \in 0 .. C - 1 /\ i[3] \in 0 .. y - 1 /\ i[4] \in 0 .. x - 1
  <2>1. i[1] \in 0 .. t[1] - 1 /\ i[2] \in 0 .. t[2] - 1 /\ i[3] \in 0 .. t[3] - 1 /\ i[4] \in 0 .. t[4] - 1
    BY <1>2
  <2> QED BY <1>3, <2>1
<1>5. ToNhwc(i) = <<i[1], i[3], i[4], i[2]>>
  BY DEF ToNhwc
<1>6. q \in 0 .. compute_size(s) - 1 /\ Index(s, q) = <<i[1], i[3], i[4], i[2]>>
  BY <1>1, <1>3, <1>4, <1>5, IndexBack
<1> QED
  BY <1>4, <1>5, <1>6 DEF q, i, t, s

\* The shape of the result in both layouts, and the index of an element of it.
TurnsBack(n, r, d, C) ==
  /\ d.perm = <<1, 4, 2, 3>> /\ d.in_shape = <<r.in_shape[1], PlacesH(n, r.in_shape[3]), PlacesW(n, r.in_shape[4]), C>>
  /\ C \in Nat \ {0}
OutNchw(n, r, C) == <<r.in_shape[1], C, OutH(n, r.in_shape[3]), OutW(n, r.in_shape[4])>>
OutNhwc(n, r, C) == <<r.in_shape[1], OutH(n, r.in_shape[3]), OutW(n, r.in_shape[4]), C>>

\* The twins write tensors of one shape, up to the order of the axes.
LEMMA ShapesAgree ==
  ASSUME NEW n, NEW r, Relaid(n, r), NEW C
  PROVE  /\ NhwcShape(n, C) = OutNhwc(n, r, C)
         /\ Convolves(r) /\ r.out_channels = C => ConvShape(r) = OutNchw(n, r, C)
         /\ r.in_shape[2] = C => WindowShape(r) = OutNchw(n, r, C)
<1>1. NhwcShape(n, C) = OutNhwc(n, r, C)
  BY SameWindows DEF NhwcShape, OutNhwc
<1>2. ASSUME Convolves(r), r.out_channels = C PROVE ConvShape(r) = OutNchw(n, r, C)
  <2>1. ConvNumbers(r)
    BY <1>2, ConvHasNumbers
  <2>2. r.groups * (r.out_channels \div r.groups) = C
    BY <1>2, <2>1 DEF ConvNumbers, GroupOut
  <2> QED BY <2>2, SameWindows DEF ConvShape, OutNchw
<1>3. ASSUME r.in_shape[2] = C PROVE WindowShape(r) = OutNchw(n, r, C)
  BY <1>3, SameWindows DEF WindowShape, OutNchw
<1> QED
  BY <1>1, <1>2, <1>3

\* Transposing back is the NCHW result.
LEMMA TurnedBack ==
  ASSUME NEW n, NEW r, Relaid(n, r), NEW C, NEW d, TurnsBack(n, r, d, C), NEW R,
         R = [p \in 0 .. compute_size(OutNchw(n, r, C)) - 1 |-> R[p]],
         LaidAt(d.input, R, OutNhwc(n, r, C), OutNchw(n, r, C))
  PROVE  transpose(d) = R
<1> DEFINE h == r.in_shape[3]
           w == r.in_shape[4]
           b == r.in_shape[1]
<1>1. h \in Nat /\ w \in Nat /\ b \in Nat \ {0} /\ n.in_shape[2] = h /\ n.in_shape[3] = w
  BY SameWindows DEF Relaid, Shapes
<1>2. Filtered(n, h, w)
  BY <1>1 DEF Relaid
<1>3. C \in Nat \ {0} /\ d.perm = <<1, 4, 2, 3>> /\ d.in_shape = <<b, PlacesH(n, h), PlacesW(n, w), C>>
  BY DEF TurnsBack
<1>4. OutNchw(n, r, C) = <<b, C, OutH(n, h), OutW(n, w)>> /\ OutNhwc(n, r, C) = <<b, OutH(n, h), OutW(n, w), C>>
  BY DEF OutNchw, OutNhwc
<1>5. R = [p \in 0 .. compute_size(<<b, C, OutH(n, h), OutW(n, w)>>) - 1 |-> R[p]]
  BY <1>4
<1>6. LaidAt(d.input, R, <<b, OutH(n, h), OutW(n, w), C>>, <<b, C, OutH(n, h), OutW(n, w)>>)
  BY <1>4
<1> HIDE DEF h, w, b
<1> QED
  BY <1>1, <1>2, <1>3, <1>5, <1>6, LaidBack

-----------------------------------------------------------------------------
\* The NHWC convolutions.
SameRequantized(n, r) ==
  r.output_mul = n.output_mul /\ r.output_shift = n.output_shift /\ r.output_offset = n.output_offset
Opposite(n, r) == r.input_offset = -n.input_offset /\ r.filter_offset = -n.filter_offset

\* The twin with negated offsets has offsets too.
LEMMA OppositeOffset ==
  ASSUME NEW n, NEW r, Opposite(n, r), Offset(n)
  PROVE  Offset(r)
<1> DEFINE p == n.input_offset
           q == n.filter_offset
<1>1. p \in Int /\ q \in Int
  BY DEF Offset
<1> HIDE DEF p, q
<1>2. -p \in Int /\ -q \in Int
  BY <1>1
<1> QED
  BY <1>2 DEF Offset, Opposite, p, q

\* cpu_conv2d and cpu_quantized_conv2d, turned back, are the neutral kernels.
LEMMA OrdinaryAgrees ==
  ASSUME NEW n, NEW r, Ordinary(n, r), NEW d, TurnsBack(n, r, d, r.out_channels)
  PROVE  /\ d.input = cpu_conv2d(n) /\ r.fused_activation = n.fused_activation => transpose(d) = conv2d(r)
         /\ d.input = cpu_quantized_conv2d(n) /\ SameRequantized(n, r) /\ Opposite(n, r) /\ Offset(n) =>
              transpose(d) = quantized_conv2d(r)
<1> DEFINE C == r.out_channels
           s == OutNhwc(n, r, C)
           t == OutNchw(n, r, C)
           D == 0 .. compute_size(t) - 1
<1>1. Relaid(n, r) /\ Convolves(r) /\ C = n.out_channels /\ r.bias = n.bias
  BY DEF Ordinary, Relaid
<1>2. NhwcShape(n, C) = s /\ ConvShape(r) = t
  BY <1>1, ShapesAgree
<1>3. ASSUME NEW p \in D, Shape(t)
      PROVE  LET i == Index(t, p)
                 q == offset(s, ToNhwc(i))
             IN  q \in 0 .. compute_size(s) - 1 /\ Index(s, q) = ToNhwc(i) /\ AtConv(r, i)
  <2>1. AtConv(r, Index(t, p))
    BY <1>1, <1>2, <1>3, ConvPlaced
  <2> DEFINE b == r.in_shape[1]
             y == OutH(n, r.in_shape[3])
             x == OutW(n, r.in_shape[4])
  <2>2. t = <<b, C, y, x>> /\ s = <<b, y, x, C>>
    BY DEF OutNchw, OutNhwc
  <2> HIDE DEF b, y, x, s, t, C
  <2> QED BY <1>3, <2>1, <2>2, TurnedFinds
<1>4. ASSUME d.input = cpu_conv2d(n), r.fused_activation = n.fused_activation PROVE transpose(d) = conv2d(r)
  <2> DEFINE A(p) == NhwcValue(n, Index(s, p))
             B(p) == ConvValue(r, p)
             R == conv2d(r)
  <2>1. d.input = [q \in 0 .. compute_size(s) - 1 |-> A(q)]
    <3>1. cpu_conv2d(n) = [p \in 0 .. (compute_size(NhwcShape(n, n.out_channels)) - 1) |-> NhwcValue(n, Index(NhwcShape(n, n.out_channels), p))]
      BY NhwcKernels
    <3>2. NhwcShape(n, n.out_channels) = s
      BY <1>1, <1>2
    <3> HIDE DEF s, R
    <3> QED BY <1>4, <3>1, <3>2
  <2>2. R = [p \in D |-> B(p)]
    BY <1>1, <1>2, ConvKernels
  <2>3. ASSUME NEW p \in D, Shape(t) PROVE d.input[offset(s, ToNhwc(Index(t, p)))] = R[p]
    <3> DEFINE i == Index(t, p)
               q == offset(s, ToNhwc(i))
    <3>1. q \in 0 .. compute_size(s) - 1 /\ Index(s, q) = ToNhwc(i) /\ AtConv(r, i)
      BY <1>3, <2>3
    <3>2. R[p] = Activated(r.bias[i[2]] + ConvSum(r, 0, 0, i), r)
      BY <1>2, <2>2 DEF ConvValue
    <3> HIDE DEF q, i, s, t, R
    <3>3. d.input[q] = NhwcValue(n, ToNhwc(i))
      BY <2>1, <3>1
    <3>4. NhwcValue(n, ToNhwc(i)) = Activated(n.bias[i[2]] + ConvSum(r, 0, 0, i), n)
      BY <3>1, OrdinaryValue
    <3> QED BY <1>1, <1>4, <3>2, <3>3, <3>4 DEF Activated, q, i
  <2> HIDE DEF A, B, R
  <2>4. LaidAt(d.input, R, s, t)
    BY <2>3 DEF LaidAt
  <2>5. R = [p \in D |-> R[p]]
    BY <2>2
  <2>6. transpose(d) = R
    BY <1>1, <2>4, <2>5, TurnedBack
  <2> QED BY <2>6 DEF R
<1>5. ASSUME d.input = cpu_quantized_conv2d(n), SameRequantized(n, r), Opposite(n, r), Offset(n) PROVE transpose(d) = quantized_conv2d(r)
  <2> DEFINE A(p) == NhwcOffsetValue(n, Index(s, p))
             B(p) == QuantizedValue(r, r.input_offset, r.filter_offset, p)
             R == quantized_conv2d(r)
  <2>1. d.input = [q \in 0 .. compute_size(s) - 1 |-> A(q)]
    <3>1. cpu_quantized_conv2d(n) = [p \in 0 .. (compute_size(NhwcShape(n, n.out_channels)) - 1) |-> NhwcOffsetValue(n, Index(NhwcShape(n, n.out_channels), p))]
      BY NhwcKernels
    <3>2. NhwcShape(n, n.out_channels) = s
      BY <1>1, <1>2
    <3> HIDE DEF s, R
    <3> QED BY <1>5, <3>1, <3>2
  <2>2. R = [p \in D |-> B(p)]
    <3>1. Offset(r)
      BY <1>5, OppositeOffset
    <3> QED BY <1>1, <1>2, <3>1, ConvKernels
  <2>3. ASSUME NEW p \in D, Shape(t) PROVE d.input[offset(s, ToNhwc(Index(t, p)))] = R[p]
    <3> DEFINE i == Index(t, p)
               q == offset(s, ToNhwc(i))
    <3>1. q \in 0 .. compute_size(s) - 1 /\ Index(s, q) = ToNhwc(i) /\ AtConv(r, i)
      BY <1>3, <2>3
    <3>2. R[p] = Requantized(r.bias[i[2]] + ConvSum(r, r.input_offset, r.filter_offset, i), r)
      BY <1>2, <2>2 DEF QuantizedValue
    <3> HIDE DEF q, i, s, t, R
    <3>3. d.input[q] = NhwcOffsetValue(n, ToNhwc(i))
      BY <2>1, <3>1
    <3>4. NhwcOffsetValue(n, ToNhwc(i)) = Requantized(n.bias[i[2]] + ConvSum(r, -n.input_offset, -n.filter_offset, i), n)
      BY <1>5, <3>1, OrdinaryValue
    <3>5. \A v : Requantized(v, n) = Requantized(v, r)
      BY <1>5 DEF Requantized, SameRequantized
    <3> QED BY <1>1, <1>5, <3>2, <3>3, <3>4, <3>5 DEF Opposite, q, i
  <2> HIDE DEF A, B, R
  <2>4. LaidAt(d.input, R, s, t)
    BY <2>3 DEF LaidAt
  <2>5. R = [p \in D |-> R[p]]
    BY <2>2
  <2>6. transpose(d) = R
    BY <1>1, <2>4, <2>5, TurnedBack
  <2> QED BY <2>6 DEF R
<1> QED
  BY <1>4, <1>5

\* So are the depthwise kernels and a convolution with a group for each channel.
LEMMA DepthwiseAgrees ==
  ASSUME NEW n, NEW r, Depthwise(n, r), NEW d, TurnsBack(n, r, d, r.out_channels)
  PROVE  /\ d.input = cpu_depthwise_conv2d(n) /\ r.fused_activation = n.fused_activation => transpose(d) = conv2d(r)
         /\ d.input = cpu_quantized_depthwise_conv2d(n) /\ SameRequantized(n, r) /\ Opposite(n, r) /\ Offset(n) =>
              transpose(d) = quantized_conv2d(r)
<1> DEFINE C == r.out_channels
           s == OutNhwc(n, r, C)
           t == OutNchw(n, r, C)
           D == 0 .. compute_size(t) - 1
<1>1. Relaid(n, r) /\ Convolves(r) /\ C = n.in_shape[4] /\ r.bias = n.bias
  BY SameWindows DEF Depthwise, Relaid
<1>2. NhwcShape(n, n.in_shape[4]) = s /\ ConvShape(r) = t
  BY <1>1, ShapesAgree
<1>3. ASSUME NEW p \in D, Shape(t)
      PROVE  LET i == Index(t, p)
                 q == offset(s, ToNhwc(i))
             IN  q \in 0 .. compute_size(s) - 1 /\ Index(s, q) = ToNhwc(i) /\ AtConv(r, i)
  <2>1. AtConv(r, Index(t, p))
    BY <1>1, <1>2, <1>3, ConvPlaced
  <2> DEFINE b == r.in_shape[1]
             y == OutH(n, r.in_shape[3])
             x == OutW(n, r.in_shape[4])
  <2>2. t = <<b, C, y, x>> /\ s = <<b, y, x, C>>
    BY DEF OutNchw, OutNhwc
  <2> HIDE DEF b, y, x, s, t, C
  <2> QED BY <1>3, <2>1, <2>2, TurnedFinds
<1>4. ASSUME d.input = cpu_depthwise_conv2d(n), r.fused_activation = n.fused_activation PROVE transpose(d) = conv2d(r)
  <2> DEFINE A(p) == FlatValue(n, Index(s, p))
             B(p) == ConvValue(r, p)
             R == conv2d(r)
  <2>1. d.input = [q \in 0 .. compute_size(s) - 1 |-> A(q)]
    <3>1. cpu_depthwise_conv2d(n) = [p \in 0 .. (compute_size(NhwcShape(n, n.in_shape[4])) - 1) |-> FlatValue(n, Index(NhwcShape(n, n.in_shape[4]), p))]
      BY FlatKernels
    <3>2. NhwcShape(n, n.in_shape[4]) = s
      BY <1>1, <1>2
    <3> HIDE DEF s, R
    <3> QED BY <1>4, <3>1, <3>2
  <2>2. R = [p \in D |-> B(p)]
    BY <1>1, <1>2, ConvKernels
  <2>3. ASSUME NEW p \in D, Shape(t) PROVE d.input[offset(s, ToNhwc(Index(t, p)))] = R[p]
    <3> DEFINE i == Index(t, p)
               q == offset(s, ToNhwc(i))
    <3>1. q \in 0 .. compute_size(s) - 1 /\ Index(s, q) = ToNhwc(i) /\ AtConv(r, i)
      BY <1>3, <2>3
    <3>2. R[p] = Activated(r.bias[i[2]] + ConvSum(r, 0, 0, i), r)
      BY <1>2, <2>2 DEF ConvValue
    <3> HIDE DEF q, i, s, t, R
    <3>3. d.input[q] = FlatValue(n, ToNhwc(i))
      BY <2>1, <3>1
    <3>4. FlatValue(n, ToNhwc(i)) = Activated(n.bias[i[2]] + ConvSum(r, 0, 0, i), n)
      BY <3>1, DepthwiseValue
    <3> QED BY <1>1, <1>4, <3>2, <3>3, <3>4 DEF Activated, q, i
  <2> HIDE DEF A, B, R
  <2>4. LaidAt(d.input, R, s, t)
    BY <2>3 DEF LaidAt
  <2>5. R = [p \in D |-> R[p]]
    BY <2>2
  <2>6. transpose(d) = R
    BY <1>1, <2>4, <2>5, TurnedBack
  <2> QED BY <2>6 DEF R
<1>5. ASSUME d.input = cpu_quantized_depthwise_conv2d(n), SameRequantized(n, r), Opposite(n, r), Offset(n)
      PROVE  transpose(d) = quantized_conv2d(r)
  <2> DEFINE A(p) == FlatOffsetValue(n, Index(s, p))
             B(p) == QuantizedValue(r, r.input_offset, r.filter_offset, p)
             R == quantized_conv2d(r)
  <2>1. d.input = [q \in 0 .. compute_size(s) - 1 |-> A(q)]
    <3>1. cpu_quantized_depthwise_conv2d(n) = [p \in 0 .. (compute_size(NhwcShape(n, n.in_shape[4])) - 1) |-> FlatOffsetValue(n, Index(NhwcShape(n, n.in_shape[4]), p))]
      BY FlatKernels
    <3>2. NhwcShape(n, n.in_shape[4]) = s
      BY <1>1, <1>2
    <3> HIDE DEF s, R
    <3> QED BY <1>5, <3>1, <3>2
  <2>2. R = [p \in D |-> B(p)]
    <3>1. Offset(r)
      BY <1>5, OppositeOffset
    <3> QED BY <1>1, <1>2, <3>1, ConvKernels
  <2>3. ASSUME NEW p \in D, Shape(t) PROVE d.input[offset(s, ToNhwc(Index(t, p)))] = R[p]
    <3> DEFINE i == Index(t, p)
               q == offset(s, ToNhwc(i))
    <3>1. q \in 0 .. compute_size(s) - 1 /\ Index(s, q) = ToNhwc(i) /\ AtConv(r, i)
      BY <1>3, <2>3
    <3>2. R[p] = Requantized(r.bias[i[2]] + ConvSum(r, r.input_offset, r.filter_offset, i), r)
      BY <1>2, <2>2 DEF QuantizedValue
    <3> HIDE DEF q, i, s, t, R
    <3>3. d.input[q] = FlatOffsetValue(n, ToNhwc(i))
      BY <2>1, <3>1
    <3>4. FlatOffsetValue(n, ToNhwc(i)) = Requantized(n.bias[i[2]] + ConvSum(r, -n.input_offset, -n.filter_offset, i), n)
      BY <1>5, <3>1, DepthwiseValue
    <3>5. \A v : Requantized(v, n) = Requantized(v, r)
      BY <1>5 DEF Requantized, SameRequantized
    <3> QED BY <1>1, <1>5, <3>2, <3>3, <3>4, <3>5 DEF Opposite, q, i
  <2> HIDE DEF A, B, R
  <2>4. LaidAt(d.input, R, s, t)
    BY <2>3 DEF LaidAt
  <2>5. R = [p \in D |-> R[p]]
    BY <2>2
  <2>6. transpose(d) = R
    BY <1>1, <2>4, <2>5, TurnedBack
  <2> QED BY <2>6 DEF R
<1> QED
  BY <1>4, <1>5

\* The NHWC window reduction.
LEMMA WindowsTurn ==
  ASSUME NEW n, NEW r, WindowNode(n, r), NEW d, TurnsBack(n, r, d, r.in_shape[2]), d.input = cpu_reduce_window2d(n)
  PROVE  transpose(d) = reduce_window2d(r)
<1> DEFINE C == r.in_shape[2]
           s == OutNhwc(n, r, C)
           t == OutNchw(n, r, C)
           D == 0 .. compute_size(t) - 1
           A(p) == PixelValue(n, Index(s, p))
           B(p) == WindowValue(r, Index(t, p))
           R == reduce_window2d(r)
<1>1. Relaid(n, r) /\ C = n.in_shape[4]
  BY SameWindows DEF WindowNode
<1>2. NhwcShape(n, n.in_shape[4]) = s /\ WindowShape(r) = t
  BY <1>1, ShapesAgree
<1>3. ASSUME NEW p \in D, Shape(t)
      PROVE  LET i == Index(t, p)
                 q == offset(s, ToNhwc(i))
             IN  q \in 0 .. compute_size(s) - 1 /\ Index(s, q) = ToNhwc(i) /\ AtImage(r, i) /\ i[2] \in 0 .. C - 1
  <2> DEFINE b == r.in_shape[1]
             y == OutH(n, r.in_shape[3])
             x == OutW(n, r.in_shape[4])
             i == Index(t, p)
             q == offset(s, ToNhwc(i))
  <2>1. t = <<b, C, y, x>> /\ s = <<b, y, x, C>> /\ y \in Nat /\ x \in Nat
    BY <1>3 DEF OutNchw, OutNhwc, Shape
  <2> HIDE DEF b, y, x, s, t, C
  <2>2. q \in 0 .. compute_size(s) - 1 /\ Index(s, q) = ToNhwc(i)
        /\ i[1] \in 0 .. b - 1 /\ i[2] \in 0 .. C - 1 /\ i[3] \in 0 .. y - 1 /\ i[4] \in 0 .. x - 1
    BY <1>3, <2>1, TurnedFinds
  <2> HIDE DEF q, i
  <2>3. i[3] \in Nat /\ i[4] \in Nat
    BY <2>1, <2>2
  <2>4. AtImage(r, i)
    BY <2>2, <2>3 DEF AtImage, b
  <2> QED BY <2>2, <2>4 DEF q, i
<1>4. d.input = [q \in 0 .. compute_size(s) - 1 |-> A(q)]
  BY <1>1, <1>2, FlatKernels
<1>5. R = [p \in D |-> B(p)]
  BY <1>2, WindowIs
<1>6. ASSUME NEW p \in D, Shape(t) PROVE d.input[offset(s, ToNhwc(Index(t, p)))] = R[p]
  <2> DEFINE i == Index(t, p)
             q == offset(s, ToNhwc(i))
  <2>1. q \in 0 .. compute_size(s) - 1 /\ Index(s, q) = ToNhwc(i) /\ AtImage(r, i) /\ i[2] \in 0 .. r.in_shape[2] - 1
    BY <1>3, <1>6
  <2>2. R[p] = WindowValue(r, i)
    BY <1>5
  <2> HIDE DEF q, i, s, t, R
  <2>3. d.input[q] = PixelValue(n, ToNhwc(i))
    BY <1>4, <2>1
  <2>4. PixelValue(n, ToNhwc(i)) = WindowValue(r, i)
    BY <2>1, WindowsAgree
  <2> QED BY <2>2, <2>3, <2>4 DEF q, i
<1> HIDE DEF A, B, R
<1>7. LaidAt(d.input, R, s, t)
  BY <1>6 DEF LaidAt
<1>8. R = [p \in D |-> R[p]]
  BY <1>5
<1>9. transpose(d) = R
  BY <1>1, <1>7, <1>8, TurnedBack
<1> QED
  BY <1>9 DEF R

-----------------------------------------------------------------------------
\* The NCHW node of an NHWC node, apart from its offsets.
Ohwi(c, channels) ==
  [in_shape |-> <<channels, c.filter_h, c.filter_w, c.in_shape[4]>>, perm |-> <<1, 4, 2, 3>>, input |-> c.weights]
Stands(c, r, image, groups, channels) ==
  /\ r.in_shape = ToNchw(c.in_shape) /\ r.input = image /\ r.groups = groups /\ r.out_channels = channels
  /\ r.weights = IF groups = 1 THEN transpose(Ohwi(c, channels)) ELSE c.weights
  /\ SameFilter(c, r) /\ r.bias = c.bias /\ r.fused_activation = c.fused_activation
  /\ SameRequantized(c, r) /\ r.mean = c.mean /\ r.reduce_op = c.reduce_op /\ r.init_value = c.init_value

\* FromNhwc describes the channels-first twin of a node.
LEMMA NchwStands ==
  ASSUME NEW c, NhwcOptions \subseteq DOMAIN c, NEW image, NEW groups, NEW channels
  PROVE  LET r == FromNhwc(c, image, groups, channels)
         IN  Stands(c, r, image, groups, channels) /\ Stands(c, Negated(r), image, groups, channels) /\ Opposite(c, Negated(r))
<1> DEFINE r == FromNhwc(c, image, groups, channels)
           w == IF groups = 1 THEN transpose(Ohwi(c, channels)) ELSE c.weights
           s == ToNchw(c.in_shape)
           q == Negated(r)
<1>1. r = [c EXCEPT !.in_shape = s, !.input = image, !.groups = groups, !.out_channels = channels, !.weights = w]
  BY DEF FromNhwc, Ohwi, ToNchw
<1>2. {"in_shape", "input", "groups", "out_channels", "weights", "bias", "filter_h", "filter_w", "stride_h", "stride_w",
    "dilation_h", "dilation_w", "padding_h", "padding_w", "fused_activation", "input_offset", "filter_offset",
    "output_mul", "output_shift", "output_offset", "mean", "reduce_op", "init_value"} \subseteq DOMAIN c
  BY DEF NhwcOptions
<1> HIDE DEF w, s, r
<1>3. /\ r.in_shape = s /\ r.input = image /\ r.groups = groups /\ r.out_channels = channels /\ r.weights = w
      /\ r.bias = c.bias /\ r.fused_activation = c.fused_activation
      /\ r.mean = c.mean /\ r.reduce_op = c.reduce_op /\ r.init_value = c.init_value
  BY <1>1, <1>2
<1>4. /\ r.filter_h = c.filter_h /\ r.stride_h = c.stride_h /\ r.dilation_h = c.dilation_h /\ r.padding_h = c.padding_h
      /\ r.filter_w = c.filter_w /\ r.stride_w = c.stride_w /\ r.dilation_w = c.dilation_w /\ r.padding_w = c.padding_w
      /\ r.output_mul = c.output_mul /\ r.output_shift = c.output_shift /\ r.output_offset = c.output_offset
      /\ r.input_offset = c.input_offset /\ r.filter_offset = c.filter_offset /\ DOMAIN r = DOMAIN c
  BY <1>1, <1>2
<1>5. Stands(c, r, image, groups, channels)
  BY <1>3, <1>4 DEF Stands, SameFilter, SameRequantized, w, s
<1>6. q = [r EXCEPT !.input_offset = -r.input_offset, !.filter_offset = -r.filter_offset]
  BY DEF Negated
<1> HIDE DEF q
<1>7. {"input_offset", "filter_offset"} \subseteq DOMAIN r
  BY <1>2, <1>4
<1>8. q.input_offset = -r.input_offset /\ q.filter_offset = -r.filter_offset
  BY <1>6, <1>7
<1>9. /\ q.in_shape = s /\ q.input = image /\ q.groups = groups /\ q.out_channels = channels /\ q.weights = w
      /\ q.bias = c.bias /\ q.fused_activation = c.fused_activation
      /\ q.mean = c.mean /\ q.reduce_op = c.reduce_op /\ q.init_value = c.init_value
  BY <1>2, <1>3, <1>4, <1>6
<1>10. /\ q.filter_h = c.filter_h /\ q.stride_h = c.stride_h /\ q.dilation_h = c.dilation_h /\ q.padding_h = c.padding_h
       /\ q.filter_w = c.filter_w /\ q.stride_w = c.stride_w /\ q.dilation_w = c.dilation_w /\ q.padding_w = c.padding_w
       /\ q.output_mul = c.output_mul /\ q.output_shift = c.output_shift /\ q.output_offset = c.output_offset
  BY <1>2, <1>4, <1>6
<1>11. Stands(c, q, image, groups, channels)
  BY <1>9, <1>10 DEF Stands, SameFilter, SameRequantized, w, s
<1>12. Opposite(c, q)
  BY <1>4, <1>8 DEF Opposite
<1> QED
  BY <1>5, <1>11, <1>12 DEF r, q

\* Transposed weights are found with the channels of the image in front.
LEMMA WeightsTurned ==
  ASSUME NEW c, NEW C \in Nat \ {0}, c.in_shape[4] \in Nat \ {0}, c.filter_h \in Nat \ {0}, c.filter_w \in Nat \ {0},
         NumbersIn(c.weights, C * c.filter_h * c.filter_w * c.in_shape[4]), NEW w, w = transpose(Ohwi(c, C))
  PROVE  /\ \A o \in 0 .. C - 1, ic \in 0 .. c.in_shape[4] - 1, u \in 0 .. c.filter_h - 1, v \in 0 .. c.filter_w - 1 :
              w[((o * c.in_shape[4] + ic) * c.filter_h + u) * c.filter_w + v]
                = c.weights[((o * c.filter_h + u) * c.filter_w + v) * c.in_shape[4] + ic]
         /\ NumbersIn(w, C * c.in_shape[4] * c.filter_h * c.filter_w)
<1> DEFINE I == c.in_shape[4]
           h == c.filter_h
           l == c.filter_w
           n == Ohwi(c, C)
           s == <<C, h, l, I>>
           t == <<C, I, h, l>>
<1>1. n.in_shape = s /\ n.perm = <<1, 4, 2, 3>> /\ n.input = c.weights /\ w = transpose(n)
  BY DEF Ohwi
<1>2. I \in Nat \ {0} /\ h \in Nat \ {0} /\ l \in Nat \ {0} /\ NumbersIn(c.weights, C * h * l * I)
  OBVIOUS
<1> HIDE DEF n, I, h, l
<1>3. ToNchw(s) = t
  BY DEF ToNchw
<1>4. Shape(s) /\ Shape(t)
  BY <1>2 DEF Shape
<1>5. compute_size(s) = C * h * l * I /\ compute_size(t) = C * I * h * l
  BY DEF compute_size
<1>6. \A a, b, d, e : offset(s, <<a, b, d, e>>) = ((a * h + b) * l + d) * I + e
                      /\ offset(t, <<a, b, d, e>>) = ((a * I + b) * h + d) * l + e
  BY DEF offset
<1>7. s[1] = C /\ s[2] = h /\ s[3] = l /\ s[4] = I /\ t[1] = C /\ t[2] = I /\ t[3] = h /\ t[4] = l
  OBVIOUS
<1> HIDE DEF s, t
<1>8. ASSUME NEW p \in 0 .. compute_size(t) - 1
      PROVE  LET i == Index(t, p)
                 q == offset(s, ToNhwc(i))
             IN  w[p] = c.weights[q] /\ q \in 0 .. compute_size(s) - 1
  BY <1>1, <1>3, <1>4, <1>8, NchwReads
<1>9. ASSUME NEW o \in 0 .. C - 1, NEW ic \in 0 .. I - 1, NEW u \in 0 .. h - 1, NEW v \in 0 .. l - 1
      PROVE  w[((o * I + ic) * h + u) * l + v] = c.weights[((o * h + u) * l + v) * I + ic]
  <2> DEFINE p == offset(t, <<o, ic, u, v>>)
  <2>1. p \in 0 .. compute_size(t) - 1 /\ Index(t, p) = <<o, ic, u, v>>
    BY <1>4, <1>7, IndexBack
  <2>2. ToNhwc(<<o, ic, u, v>>) = <<o, u, v, ic>>
    BY DEF ToNhwc
  <2>3. p = ((o * I + ic) * h + u) * l + v /\ offset(s, <<o, u, v, ic>>) = ((o * h + u) * l + v) * I + ic
    BY <1>6
  <2> HIDE DEF p
  <2>4. w[p] = c.weights[offset(s, <<o, u, v, ic>>)]
    BY <1>8, <2>1, <2>2
  <2> QED BY <2>3, <2>4
<1>10. \A p \in 0 .. compute_size(t) - 1 : w[p] \in Int
  BY <1>2, <1>5, <1>8 DEF NumbersIn
<1>11. NumbersIn(w, C * I * h * l)
  BY <1>5, <1>10 DEF NumbersIn
<1> QED
  BY <1>9, <1>11 DEF I, h, l

\* What a program that relays through an NHWC node runs, and the NCHW node to compare it with.
LEMMA FourOf ==
  ASSUME NEW s \in Shapes
  PROVE  s = <<s[1], s[2], s[3], s[4]>>
  BY DEF Shapes

Changed(c, n) ==
  /\ n.in_shape = c.in_shape /\ n.weights = c.weights /\ n.out_channels = c.out_channels
  /\ SameFilter(c, n) /\ n.bias = c.bias /\ n.fused_activation = c.fused_activation
  /\ SameRequantized(c, n) /\ n.mean = c.mean /\ n.reduce_op = c.reduce_op /\ n.init_value = c.init_value
  /\ n.input_offset = c.input_offset /\ n.filter_offset = c.filter_offset

\* Replacing the input leaves a node's options as they are.
LEMMA InputChanged ==
  ASSUME NEW c, NhwcOptions \subseteq DOMAIN c, NEW x
  PROVE  LET n == [c EXCEPT !.input = x] IN n.input = x /\ Changed(c, n)
<1> DEFINE n == [c EXCEPT !.input = x]
<1>1. "input" \in DOMAIN c
  BY DEF NhwcOptions
<1>2. n.input = x
  BY <1>1
<1>3. Changed(c, n)
  BY DEF Changed, SameFilter, SameRequantized
<1> QED
  BY <1>2, <1>3

\* The image of the NHWC node is that of the NCHW node, and so is its filter.
LEMMA ImageRelaid ==
  ASSUME NEW m, NEW c, NEW d0, Relays(m, c, d0), NEW n, Changed(c, n), n.input = transpose(m),
         NEW r, NEW groups, NEW channels, Stands(c, r, m.input, groups, channels)
  PROVE  Relaid(n, r) /\ r.in_shape = m.in_shape /\ r.fused_activation = n.fused_activation /\ SameRequantized(n, r)
<1> DEFINE s == m.in_shape
<1>1. /\ m.perm = <<1, 3, 4, 2>> /\ s \in Shapes /\ c.in_shape = ToNhwc(s)
      /\ Filtered(c, c.in_shape[2], c.in_shape[3])
  BY DEF Relays, ToNhwc
<1>2. r.in_shape = s
  <2>1. r.in_shape = ToNchw(ToNhwc(s))
    BY <1>1 DEF Stands
  <2>2. ToNchw(ToNhwc(s)) = <<s[1], s[2], s[3], s[4]>>
    BY DEF ToNchw, ToNhwc
  <2> HIDE DEF s
  <2> QED BY <1>1, <2>1, <2>2, FourOf
<1>3. SameImage(n, r)
  <2>1. n.in_shape = ToNhwc(s) /\ r.input = m.input
    BY <1>1 DEF Changed, Stands
  <2>2. ASSUME NEW b \in 0 .. s[1] - 1, NEW k \in 0 .. s[2] - 1, NEW y \in 0 .. s[3] - 1, NEW x \in 0 .. s[4] - 1
        PROVE  transpose(m)[offset(ToNhwc(s), <<b, y, x, k>>)] = m.input[offset(s, <<b, k, y, x>>)]
    BY <1>1, <2>2, NhwcReads DEF Shape, Shapes
  <2> DEFINE N == n.in_shape
             R == r.in_shape
  <2>3. N = ToNhwc(s) /\ R = s /\ n.input = transpose(m)
    BY <1>2, <2>1
  <2> HIDE DEF s, N, R
  <2>4. ASSUME NEW b \in 0 .. R[1] - 1, NEW k \in 0 .. R[2] - 1, NEW y \in 0 .. R[3] - 1, NEW x \in 0 .. R[4] - 1
        PROVE  n.input[offset(N, <<b, y, x, k>>)] = r.input[offset(R, <<b, k, y, x>>)]
    BY <2>1, <2>2, <2>3
  <2> QED BY <2>4 DEF SameImage, N, R
<1>4. SameFilter(n, r) /\ r.bias = n.bias /\ r.fused_activation = n.fused_activation /\ SameRequantized(n, r)
  BY DEF Changed, Stands, SameFilter, SameRequantized
<1>5. Filtered(n, n.in_shape[2], n.in_shape[3])
  BY <1>1 DEF Changed, SameFilter, Filtered
<1>6. n.in_shape = ToNhwc(s)
  BY <1>1 DEF Changed
<1> QED
  BY <1>1, <1>2, <1>3, <1>4, <1>5, <1>6 DEF Relaid

\* The shape that the transposition back was compiled for.
LEMMA BackTurns ==
  ASSUME NEW m, NEW c, NEW d0, Relays(m, c, d0), NEW n, Changed(c, n),
         NEW r, r.in_shape = m.in_shape, NEW d, d.in_shape = d0.in_shape, d.perm = d0.perm
  PROVE  TurnsBack(n, r, d, Channels(c))
<1>1. /\ c.in_shape = <<m.in_shape[1], m.in_shape[3], m.in_shape[4], m.in_shape[2]>> /\ m.in_shape \in Shapes
      /\ c.out_channels \in Nat \ {0}
  BY DEF Relays
<1>2. c.in_shape[1] = r.in_shape[1] /\ c.in_shape[2] = r.in_shape[3] /\ c.in_shape[3] = r.in_shape[4] /\ c.in_shape[4] = r.in_shape[2]
  BY <1>1
<1>3. Channels(c) \in Nat \ {0}
  <2>1. c.in_shape[4] \in Nat \ {0}
    BY <1>1 DEF Shapes
  <2> QED BY <1>1, <2>1 DEF Channels
<1>4. d.perm = <<1, 4, 2, 3>>
  BY DEF Relays
<1>5. d.in_shape = << c.in_shape[1],
                      Cardinality(Fits(c.in_shape[2], c.filter_h, c.stride_h, c.dilation_h, c.padding_h)),
                      Cardinality(Fits(c.in_shape[3], c.filter_w, c.stride_w, c.dilation_w, c.padding_w)), Channels(c) >>
  BY DEF Relays
<1>6. \A h : PlacesH(n, h) = Cardinality(Fits(h, c.filter_h, c.stride_h, c.dilation_h, c.padding_h))
             /\ PlacesW(n, h) = Cardinality(Fits(h, c.filter_w, c.stride_w, c.dilation_w, c.padding_w))
  BY DEF PlacesH, PlacesW, Changed, SameFilter
<1> QED
  BY <1>2, <1>3, <1>4, <1>5, <1>6 DEF TurnsBack

\* An ordinary convolution.
LEMMA OrdinaryRelayed ==
  ASSUME NEW m, NEW c, NEW d0, Relays(m, c, d0), c.op \notin Deepwise, NEW n, Changed(c, n), n.input = transpose(m),
         NEW r, Stands(c, r, m.input, 1, c.out_channels)
  PROVE  Ordinary(n, r)
<1> DEFINE C == c.out_channels
           I == c.in_shape[4]
           h == c.filter_h
           l == c.filter_w
<1>1. Relaid(n, r) /\ r.in_shape = m.in_shape
  BY ImageRelaid
<1>2. m.in_shape \in Shapes /\ I = m.in_shape[2] /\ I \in Nat \ {0} /\ C \in Nat \ {0}
  BY DEF Relays, Shapes
<1>3. Filtered(c, m.in_shape[3], m.in_shape[4]) /\ NumbersIn(m.input, compute_size(m.in_shape))
  BY DEF Relays
<1>4. NumbersIn(c.weights, C * h * l * I) /\ h \in Nat \ {0} /\ l \in Nat \ {0}
  BY DEF Relays, Channels, Filtered
<1>5. r.weights = transpose(Ohwi(c, C)) /\ r.groups = 1 /\ r.out_channels = C /\ r.input = m.input /\ SameFilter(c, r)
  BY DEF Stands
<1>6. /\ \A o \in 0 .. C - 1, ic \in 0 .. I - 1, u \in 0 .. h - 1, v \in 0 .. l - 1 :
           r.weights[((o * I + ic) * h + u) * l + v] = c.weights[((o * h + u) * l + v) * I + ic]
      /\ NumbersIn(r.weights, C * I * h * l)
  BY <1>2, <1>4, <1>5, WeightsTurned
<1>7. n.in_shape[4] = I /\ n.out_channels = C /\ n.filter_h = h /\ n.filter_w = l /\ n.weights = c.weights
  BY DEF Changed, SameFilter
<1>8. r.in_shape[2] = I /\ r.filter_h = h /\ r.filter_w = l
  BY <1>1, <1>2, <1>5 DEF SameFilter
<1>9. SameWeights(n, r)
  BY <1>5, <1>6, <1>7, <1>8 DEF SameWeights
<1>10. Filtered(r, r.in_shape[3], r.in_shape[4])
  BY <1>1, <1>3, <1>5 DEF Filtered, SameFilter
<1>11. I \div 1 = I /\ I % 1 = 0 /\ C % 1 = 0
  <2> HIDE DEF I, C
  <2> QED BY <1>2
<1>12. NumbersIn(r.weights, r.out_channels * (r.in_shape[2] \div r.groups) * r.filter_h * r.filter_w)
  BY <1>5, <1>6, <1>8, <1>11
<1>13. Convolves(r)
  <2>1. r.in_shape[2] % r.groups = 0 /\ r.out_channels % r.groups = 0
    BY <1>5, <1>8, <1>11
  <2>2. {r.groups, r.out_channels} \subseteq Nat \ {0}
    BY <1>2, <1>5
  <2> QED BY <1>1, <1>2, <1>3, <1>5, <1>10, <1>12, <2>1, <2>2 DEF Convolves
<1> QED
  BY <1>1, <1>5, <1>7, <1>9, <1>13 DEF Ordinary

\* A depthwise convolution; of one channel it is an ordinary one, too.
LEMMA DepthwiseRelayed ==
  ASSUME NEW m, NEW c, NEW d0, Relays(m, c, d0), c.op \in Deepwise, NEW n, Changed(c, n), n.input = transpose(m),
         NEW r, Stands(c, r, m.input, c.in_shape[4], c.in_shape[4])
  PROVE  Depthwise(n, r) /\ r.out_channels = Channels(c)
<1> DEFINE I == c.in_shape[4]
           h == c.filter_h
           l == c.filter_w
<1>1. Relaid(n, r) /\ r.in_shape = m.in_shape
  BY ImageRelaid
<1>2. m.in_shape \in Shapes /\ I = m.in_shape[2] /\ I \in Nat \ {0}
  BY DEF Relays, Shapes
<1>3. Filtered(c, m.in_shape[3], m.in_shape[4]) /\ NumbersIn(m.input, compute_size(m.in_shape))
  BY DEF Relays
<1>4. NumbersIn(c.weights, I * h * l * 1) /\ h \in Nat \ {0} /\ l \in Nat \ {0} /\ Channels(c) = I
  BY DEF Relays, Channels, Filtered
<1>5. /\ r.weights = IF I = 1 THEN transpose(Ohwi(c, I)) ELSE c.weights
      /\ r.groups = I /\ r.out_channels = I /\ r.input = m.input /\ SameFilter(c, r)
  BY DEF Stands
<1>6. n.in_shape[4] = I /\ n.filter_h = h /\ n.filter_w = l /\ n.weights = c.weights
  BY DEF Changed, SameFilter
<1>7. r.in_shape[2] = I /\ r.filter_h = h /\ r.filter_w = l
  BY <1>1, <1>2, <1>5 DEF SameFilter
<1>8. /\ \A o \in 0 .. I - 1, u \in 0 .. h - 1, v \in 0 .. l - 1 : r.weights[(o * h + u) * l + v] = c.weights[(o * h + u) * l + v]
      /\ NumbersIn(r.weights, I * 1 * h * l)
  <2>1. CASE I # 1
    <3>1. r.weights = c.weights
      BY <1>5, <2>1
    <3>2. I * h * l * 1 = I * 1 * h * l
      <4> HIDE DEF I, h, l
      <4> QED BY <1>2, <1>4
    <3> QED BY <1>4, <3>1, <3>2
  <2>2. CASE I = 1
    <3> DEFINE w == r.weights
               z == c.weights
    <3>1. w = transpose(Ohwi(c, 1)) /\ NumbersIn(z, 1 * h * l * 1)
      BY <1>4, <1>5, <2>2
    <3>2. /\ \A o \in 0 .. 1 - 1, ic \in 0 .. I - 1, u \in 0 .. h - 1, v \in 0 .. l - 1 :
               w[((o * I + ic) * h + u) * l + v] = z[((o * h + u) * l + v) * I + ic]
          /\ NumbersIn(w, 1 * I * h * l)
      <4>1. NumbersIn(c.weights, 1 * h * l * I)
        BY <2>2, <3>1
      <4> QED BY <1>2, <1>4, <3>1, <4>1, WeightsTurned
    <3> HIDE DEF w, z, h, l, I
    <3>3. ASSUME NEW o \in 0 .. I - 1, NEW u \in 0 .. h - 1, NEW v \in 0 .. l - 1 PROVE w[(o * h + u) * l + v] = z[(o * h + u) * l + v]
      <4>1. o = 0 /\ 0 \in 0 .. 1 - 1 /\ 0 \in 0 .. I - 1
        BY <2>2
      <4>2. w[((0 * I + 0) * h + u) * l + v] = z[((0 * h + u) * l + v) * I + 0]
        BY <3>2, <4>1
      <4>3. (0 * I + 0) * h = 0 /\ 0 * h = 0
        BY <1>4, <2>2
      <4>4. (0 * I + 0) * h + u = u /\ 0 * h + u = u
        BY <4>3
      <4>5. (u * l + v) * I + 0 = u * l + v
        BY <1>4, <2>2
      <4> QED BY <4>1, <4>2, <4>4, <4>5
    <3>4. NumbersIn(w, I * 1 * h * l)
      BY <2>2, <3>2
    <3> QED BY <3>3, <3>4 DEF w, z
  <2> QED BY <2>1, <2>2
<1>9. FlatWeights(n, r)
  BY <1>5, <1>6, <1>7, <1>8 DEF FlatWeights
<1>10. Filtered(r, r.in_shape[3], r.in_shape[4])
  BY <1>1, <1>3, <1>5 DEF Filtered, SameFilter
<1>11. I \div I = 1 /\ I % I = 0
  <2> HIDE DEF I
  <2> QED BY <1>2
<1>12. NumbersIn(r.weights, r.out_channels * (r.in_shape[2] \div r.groups) * r.filter_h * r.filter_w)
  BY <1>5, <1>7, <1>8, <1>11
<1>13. Convolves(r)
  <2>1. r.in_shape[2] % r.groups = 0 /\ r.out_channels % r.groups = 0
    BY <1>5, <1>7, <1>11
  <2>2. {r.groups, r.out_channels} \subseteq Nat \ {0}
    BY <1>2, <1>5
  <2> QED BY <1>1, <1>2, <1>3, <1>5, <1>10, <1>12, <2>1, <2>2 DEF Convolves
<1>14. r.groups = r.in_shape[2] /\ r.out_channels = r.in_shape[2] /\ r.out_channels = Channels(c)
  BY <1>4, <1>5, <1>7
<1> QED
  BY <1>1, <1>9, <1>13, <1>14 DEF Depthwise

\* What three nodes make is what the NCHW kernel makes.
LEMMA RelayAgrees ==
  ASSUME NEW m, NEW c, NEW d0, Relays(m, c, d0), NEW x, x = transpose(m),
         NEW y, Makes(c.op, [c EXCEPT !.input = x], y), NEW z, z = transpose([d0 EXCEPT !.input = y])
  PROVE  LET Plain == FromNhwc(c, m.input, 1, c.out_channels)
             Deep  == FromNhwc(c, m.input, c.in_shape[4], c.in_shape[4])
         IN  /\ c.op = "cpu_conv2d" => z = conv2d(Plain)
             /\ c.op = "cpu_quantized_conv2d" => z = quantized_conv2d(Negated(Plain))
             /\ c.op = "cpu_depthwise_conv2d" => z = conv2d(Deep)
             /\ c.op = "cpu_quantized_depthwise_conv2d" => z = quantized_conv2d(Negated(Deep))
             /\ c.op = "cpu_reduce_window2d" => z = reduce_window2d(Deep)
<1> DEFINE n == [c EXCEPT !.input = x]
           d == [d0 EXCEPT !.input = y]
           I == c.in_shape[4]
           Plain == FromNhwc(c, m.input, 1, c.out_channels)
           Deep == FromNhwc(c, m.input, I, I)
           MinusPlain == Negated(Plain)
           MinusDeep == Negated(Deep)
<1>1. NhwcOptions \subseteq DOMAIN c
  BY DEF Relays
<1>2. n.input = x /\ Changed(c, n)
  BY <1>1, InputChanged
<1>3. d.input = y /\ d.in_shape = d0.in_shape /\ d.perm = d0.perm
  BY DEF Relays
<1>4. /\ Stands(c, Plain, m.input, 1, c.out_channels) /\ Stands(c, MinusPlain, m.input, 1, c.out_channels)
      /\ Opposite(c, MinusPlain)
  BY <1>1, NchwStands
<1>5. /\ Stands(c, Deep, m.input, I, I) /\ Stands(c, MinusDeep, m.input, I, I) /\ Opposite(c, MinusDeep)
  BY <1>1, NchwStands
<1>6. Makes(c.op, n, y) /\ z = transpose(d)
  OBVIOUS
<1> HIDE DEF n, d, I, Plain, Deep, MinusPlain, MinusDeep
<1>7. ASSUME NEW r, Stands(c, r, m.input, 1, c.out_channels), c.op \notin Deepwise
      PROVE  /\ Ordinary(n, r) /\ TurnsBack(n, r, d, r.out_channels)
             /\ r.fused_activation = n.fused_activation /\ SameRequantized(n, r)
  <2>1. Ordinary(n, r)
    BY <1>2, <1>7, OrdinaryRelayed
  <2>2. r.in_shape = m.in_shape /\ r.fused_activation = n.fused_activation /\ SameRequantized(n, r)
    BY <1>2, <1>7, ImageRelaid
  <2>3. TurnsBack(n, r, d, Channels(c))
    BY <1>2, <1>3, <2>2, BackTurns
  <2>4. Channels(c) = r.out_channels
    BY <1>7 DEF Channels, Stands
  <2> QED BY <2>1, <2>2, <2>3, <2>4
<1>8. ASSUME NEW r, Stands(c, r, m.input, I, I), c.op \in Deepwise
      PROVE  /\ Depthwise(n, r) /\ TurnsBack(n, r, d, r.out_channels) /\ r.out_channels = r.in_shape[2]
             /\ r.fused_activation = n.fused_activation /\ SameRequantized(n, r)
  <2>1. Depthwise(n, r) /\ r.out_channels = Channels(c)
    BY <1>2, <1>8, DepthwiseRelayed DEF I
  <2>2. r.in_shape = m.in_shape /\ r.fused_activation = n.fused_activation /\ SameRequantized(n, r)
    BY <1>2, <1>8, ImageRelaid
  <2>3. TurnsBack(n, r, d, Channels(c))
    BY <1>2, <1>3, <2>2, BackTurns
  <2> QED BY <2>1, <2>2, <2>3 DEF Depthwise
<1>9. ASSUME NEW r, Opposite(c, r), Offset(c) PROVE Opposite(n, r) /\ Offset(n)
  BY <1>2, <1>9 DEF Opposite, Offset, Changed
<1>10. ASSUME c.op = "cpu_conv2d" PROVE z = conv2d(Plain)
  <2>1. d.input = cpu_conv2d(n) /\ c.op \notin Deepwise
    BY <1>3, <1>6, <1>10 DEF Makes, Deepwise
  <2> QED BY <1>4, <1>6, <1>7, <2>1, OrdinaryAgrees
<1>11. ASSUME c.op = "cpu_quantized_conv2d" PROVE z = quantized_conv2d(MinusPlain)
  <2>1. d.input = cpu_quantized_conv2d(n) /\ c.op \notin Deepwise
    BY <1>3, <1>6, <1>11 DEF Makes, Deepwise
  <2>2. Opposite(n, MinusPlain) /\ Offset(n)
    BY <1>4, <1>9, <1>11 DEF Relays
  <2> QED BY <1>4, <1>6, <1>7, <2>1, <2>2, OrdinaryAgrees
<1>12. ASSUME c.op = "cpu_depthwise_conv2d" PROVE z = conv2d(Deep)
  <2>1. d.input = cpu_depthwise_conv2d(n) /\ c.op \in Deepwise
    BY <1>3, <1>6, <1>12 DEF Makes, Deepwise
  <2> QED BY <1>5, <1>6, <1>8, <2>1, DepthwiseAgrees
<1>13. ASSUME c.op = "cpu_quantized_depthwise_conv2d" PROVE z = quantized_conv2d(MinusDeep)
  <2>1. d.input = cpu_quantized_depthwise_conv2d(n) /\ c.op \in Deepwise
    BY <1>3, <1>6, <1>13 DEF Makes, Deepwise
  <2>2. Opposite(n, MinusDeep) /\ Offset(n)
    BY <1>5, <1>9, <1>13 DEF Relays
  <2> QED BY <1>5, <1>6, <1>8, <2>1, <2>2, DepthwiseAgrees
<1>14. ASSUME c.op = "cpu_reduce_window2d" PROVE z = reduce_window2d(Deep)
  <2>1. d.input = cpu_reduce_window2d(n) /\ c.op \in Deepwise
    BY <1>3, <1>6, <1>14 DEF Makes, Deepwise
  <2>2. Depthwise(n, Deep) /\ TurnsBack(n, Deep, d, Deep.in_shape[2])
    BY <1>5, <1>8, <2>1
  <2>3. WindowNode(n, Deep)
    BY <1>2, <1>5, <2>2 DEF WindowNode, Depthwise, Stands, Changed
  <2> QED BY <1>6, <2>1, <2>2, <2>3, WindowsTurn
<1> QED
  BY <1>10, <1>11, <1>12, <1>13, <1>14 DEF Plain, Deep, MinusPlain, MinusDeep, I

\* The same picture, whatever layout the network was compiled for.
LEMMA LayoutsHold == ProgramInv => LayoutsAgree
<1> SUFFICES ASSUME ProgramInv, Finished, Len(program) = 3 PROVE LayoutsAgree
  BY DEF LayoutsAgree
<1> DEFINE c == program[2]
           Plain == FromNhwc(c, Start.input, 1, c.out_channels)
           Deep == FromNhwc(c, Start.input, c.in_shape[4], c.in_shape[4])
<1>1. pc = 4 /\ program \in Programs
  BY DEF ProgramInv, Finished
<1>2. Relays(program[1], c, program[3]) /\ MakesOfThree(program, memory)
  BY <1>1, SumsAssumption DEF ProgramInv
<1>3. PICK y : MakesOfTwo(program, y) /\ Makes(program[3].op, [program[3] EXCEPT !.input = y], memory)
  BY <1>2 DEF MakesOfThree
<1>4. PICK x : Makes(program[1].op, program[1], x) /\ Makes(c.op, [c EXCEPT !.input = x], y)
  BY <1>3 DEF MakesOfTwo
<1>5. x = transpose(program[1]) /\ memory = transpose([program[3] EXCEPT !.input = y])
  BY <1>2, <1>3, <1>4 DEF Relays, Makes
<1>6. c.op \in NhwcOps /\ Start = program[1]
  BY <1>2 DEF Relays, Start
<1>7. /\ c.op = "cpu_conv2d" => memory = conv2d(Plain)
      /\ c.op = "cpu_quantized_conv2d" => memory = quantized_conv2d(Negated(Plain))
      /\ c.op = "cpu_depthwise_conv2d" => memory = conv2d(Deep)
      /\ c.op = "cpu_quantized_depthwise_conv2d" => memory = quantized_conv2d(Negated(Deep))
      /\ c.op = "cpu_reduce_window2d" => memory = reduce_window2d(Deep)
  <2> DEFINE m == program[1]
             d0 == program[3]
             z == memory
  <2>1. Relays(m, c, d0) /\ x = transpose(m) /\ Makes(c.op, [c EXCEPT !.input = x], y) /\ z = transpose([d0 EXCEPT !.input = y])
    BY <1>2, <1>4, <1>5
  <2>2. Start = m
    BY <1>6
  <2> HIDE DEF m, c, d0, z
  <2>3. LET P == FromNhwc(c, m.input, 1, c.out_channels)
            D == FromNhwc(c, m.input, c.in_shape[4], c.in_shape[4])
        IN  /\ c.op = "cpu_conv2d" => z = conv2d(P)
            /\ c.op = "cpu_quantized_conv2d" => z = quantized_conv2d(Negated(P))
            /\ c.op = "cpu_depthwise_conv2d" => z = conv2d(D)
            /\ c.op = "cpu_quantized_depthwise_conv2d" => z = quantized_conv2d(Negated(D))
            /\ c.op = "cpu_reduce_window2d" => z = reduce_window2d(D)
    BY <2>1, RelayAgrees
  <2> QED BY <2>2, <2>3 DEF z
<1> HIDE DEF Plain, Deep
<1>8. memory = CASE c.op = "cpu_conv2d" -> conv2d(Plain)
                 [] c.op = "cpu_quantized_conv2d" -> quantized_conv2d(Negated(Plain))
                 [] c.op = "cpu_depthwise_conv2d" -> conv2d(Deep)
                 [] c.op = "cpu_quantized_depthwise_conv2d" -> quantized_conv2d(Negated(Deep))
                 [] c.op = "cpu_reduce_window2d" -> reduce_window2d(Deep)
  BY <1>6, <1>7 DEF NhwcOps, Deepwise
<1> QED
  BY <1>8 DEF LayoutsAgree, Plain, Deep

\* A convolution is its textbook sum.
LEMMA ConvHolds == ProgramInv => ConvIsTextbook
<1> SUFFICES ASSUME ProgramInv PROVE ConvIsTextbook
  OBVIOUS
<1>1. ASSUME Ended(<<"conv2d">>) PROVE Convolves(The) /\ memory = conv2d(The)
  <2>1. Finished /\ Ops(program) = <<"conv2d">> /\ program \in Programs
    BY <1>1 DEF Ended, ProgramInv
  <2>2. The = program[1] /\ memory = conv2d(program[1])
    BY <2>1, EndOfOne DEF Makes
  <2> QED BY <2>1, <2>2, SumsAssumption
<1>2. ASSUME Ended(<<"quantized_conv2d">>) PROVE Convolves(The) /\ Offset(The) /\ memory = quantized_conv2d(The)
  <2>1. Finished /\ Ops(program) = <<"quantized_conv2d">> /\ program \in Programs
    BY <1>2 DEF Ended, ProgramInv
  <2>2. The = program[1] /\ memory = quantized_conv2d(program[1])
    BY <2>1, EndOfOne DEF Makes
  <2> QED BY <2>1, <2>2, SumsAssumption
<1>3. ASSUME Ended(<<"conv2d">>)
      PROVE  memory = Textbook(The, LAMBDA x : x, LAMBDA w : w, LAMBDA v : Activated(v, The))
  BY <1>1, <1>3, ConvTextbooks
<1>4. ASSUME Ended(<<"quantized_conv2d">>)
      PROVE  memory = Textbook(The, LAMBDA x : x + The.input_offset, LAMBDA w : w + The.filter_offset,
                               LAMBDA v : Requantized(v, The))
  BY <1>2, <1>4, ConvTextbooks
<1> QED
  BY <1>3, <1>4 DEF ConvIsTextbook

\* A matrix product is a convolution.
LEMMA MatmulHolds == ProgramInv => MatmulIsConv
<1> SUFFICES ASSUME ProgramInv PROVE MatmulIsConv
  OBVIOUS
<1>1. ASSUME Ended(<<"matmul">>) PROVE Multiplies(The) /\ memory = matmul(The)
  <2>1. Finished /\ Ops(program) = <<"matmul">> /\ program \in Programs
    BY <1>1 DEF Ended, ProgramInv
  <2>2. The = program[1] /\ memory = matmul(program[1])
    BY <2>1, EndOfOne DEF Makes
  <2> QED BY <2>1, <2>2, SumsAssumption
<1>2. ASSUME Ended(<<"quantized_matmul">>)
      PROVE  Multiplies(The) /\ The.input_a_offset \in Int /\ The.input_b_offset \in Int /\ memory = quantized_matmul(The)
  <2>1. Finished /\ Ops(program) = <<"quantized_matmul">> /\ program \in Programs
    BY <1>2 DEF Ended, ProgramInv
  <2>2. The = program[1] /\ memory = quantized_matmul(program[1])
    BY <2>1, EndOfOne DEF Makes
  <2> QED BY <2>1, <2>2, SumsAssumption
<1>3. Ended(<<"matmul">>) => memory = conv2d(AsConv(The))
  BY <1>1, MatmulConvolves
<1>4. Ended(<<"quantized_matmul">>) => memory = quantized_conv2d(AsConv(The))
  BY <1>2, MatmulConvolves
<1> QED
  BY <1>3, <1>4 DEF MatmulIsConv, AsConv

-----------------------------------------------------------------------------
\* A sum of which only one term is not zero is that term.
LEMMA TotalOnly ==
  ASSUME NEW n \in Nat, NEW at \in 0 .. n - 1, NEW x, x[at] \in Int, \A k \in 0 .. n - 1 : k # at => x[k] = 0
  PROVE  Total(x, n) = x[at]
<1> DEFINE y == [k \in 0 .. 0 |-> x[at]]
           m == 1
<1>1. Within(x, n, y, at, m)
  <2>1. ASSUME NEW k \in 0 .. n - 1 PROVE x[k] \in Int /\ (k < at \/ k >= at + 1 => x[k] = 0)
    BY <2>1
  <2>2. \A k \in 0 .. 1 - 1 : y[k] = x[at + k]
    OBVIOUS
  <2> HIDE DEF y
  <2> QED BY <2>1, <2>2 DEF Within
<1>2. at \in Nat /\ m \in Nat /\ at + m <= n /\ y[0] = x[at]
  OBVIOUS
<1> HIDE DEF y
<1>3. Total(y, 1) = y[0]
  BY <1>2, TotalOfOne
<1> HIDE DEF m
<1>4. Total(x, n) = Total(y, m)
  BY <1>1, <1>2, TotalWithin
<1> QED
  BY <1>2, <1>3, <1>4 DEF m

\* A sum goes on where another has ended.
LEMMA TotalGoesOn ==
  ASSUME NEW a \in Nat, NEW w \in Nat, NEW x, \A k \in 0 .. a + w - 1 : x[k] \in Int
  PROVE  Total(x, a + w) = Total(x, a) + Total([k \in 0 .. w - 1 |-> x[a + k]], w)
<1> DEFINE y == [k \in 0 .. w - 1 |-> x[a + k]]
           n == a + w
           S == {k \in 0 .. w : Total(x, a + k) = Total(x, a) + Total(y, k)}
<1>1. n \in Nat /\ \A k \in 0 .. n - 1 : x[k] \in Int
  OBVIOUS
<1>2. Totals(x, n)
  <2> HIDE DEF n
  <2> QED BY <1>1, TotalSteps
<1>3. \A k \in 0 .. w - 1 : y[k] = x[a + k] /\ a + k \in 0 .. n - 1
  OBVIOUS
<1> HIDE DEF y
<1>4. Totals(y, w)
  BY <1>1, <1>3, TotalSteps
<1>5. 0 \in S
  <2>1. a \in 0 .. n /\ a + 0 = a
    OBVIOUS
  <2>2. Total(x, a) \in Int /\ Total(y, 0) = 0
    BY <1>2, <1>4, <2>1 DEF Totals
  <2> QED BY <2>1, <2>2
<1>6. ASSUME NEW k \in 1 .. w, k - 1 \in S PROVE k \in S
  <2> DEFINE A == Total(x, a)
             B == Total(y, k - 1)
             C == x[a + (k - 1)]
  <2>1. Total(x, a + (k - 1)) = A + B
    BY <1>6
  <2>2. a + k \in 1 .. n /\ (a + k) - 1 = a + (k - 1) /\ k - 1 \in 0 .. w - 1 /\ k - 1 \in 0 .. w /\ a \in 0 .. n
    OBVIOUS
  <2>3. Total(x, a + k) = Total(x, a + (k - 1)) + C
    BY <1>2, <2>2 DEF Totals
  <2>4. Total(y, k) = B + C
    BY <1>3, <1>4, <2>2 DEF Totals
  <2>5. A \in Int /\ B \in Int /\ C \in Int
    BY <1>1, <1>2, <1>3, <1>4, <2>2 DEF Totals
  <2> HIDE DEF A, B, C
  <2>6. Total(x, a + k) = A + Total(y, k)
    BY <2>1, <2>3, <2>4, <2>5
  <2> QED BY <2>6 DEF A
<1>7. \A k \in 0 .. w : k \in S
  <2> HIDE DEF S
  <2> QED BY <1>5, <1>6, UpTo
<1>8. w \in S
  BY <1>7
<1> QED
  BY <1>8 DEF y

\* A sum is that of the sums of its stretches of one length.
Stretched(x, m, w) == [j \in 0 .. m - 1 |-> Total([k \in 0 .. w - 1 |-> x[j * w + k]], w)]

\* A total of m * w terms is the total of m totals of w.
LEMMA TotalSplit ==
  ASSUME NEW m \in Nat, NEW w \in Nat, NEW x, \A k \in 0 .. m * w - 1 : x[k] \in Int
  PROVE  Total(x, m * w) = Total(Stretched(x, m, w), m) /\ \A j \in 0 .. m - 1 : Stretched(x, m, w)[j] \in Int
<1> DEFINE t == Stretched(x, m, w)
           row(j) == [k \in 0 .. w - 1 |-> x[j * w + k]]
           S == {k \in 0 .. m : Total(x, k * w) = Total(t, k)}
<1>1. ASSUME NEW j \in 0 .. m - 1
      PROVE  j * w \in Nat /\ (j + 1) * w = j * w + w /\ j * w + w <= m * w
  <2>1. m \in Nat /\ j + 1 \in Nat /\ m >= j + 1
    OBVIOUS
  <2>2. m * w >= (j + 1) * w
    BY <2>1, Grows
  <2>3. (j + 1) * w = j * w + w /\ j * w \in Nat
    OBVIOUS
  <2> QED BY <2>2, <2>3
<1>2. ASSUME NEW j \in 0 .. m - 1 PROVE t[j] = Total(row(j), w) /\ t[j] \in Int
  <2> DEFINE a == j * w
             b == m * w
             y == row(j)
  <2>1. a \in Nat /\ a + w <= b /\ b \in Nat
    BY <1>1
  <2>2. \A k \in 0 .. b - 1 : x[k] \in Int
    OBVIOUS
  <2>3. \A k \in 0 .. w - 1 : y[k] = x[a + k]
    OBVIOUS
  <2>4. t[j] = Total(y, w)
    BY DEF Stretched
  <2> HIDE DEF a, b, y, t
  <2>5. ASSUME NEW k \in 0 .. w - 1 PROVE y[k] \in Int
    <3>1. a + k \in 0 .. b - 1
      BY <2>1
    <3> QED BY <2>2, <2>3, <3>1
  <2>6. Totals(y, w) /\ w \in 0 .. w
    BY <2>5, TotalSteps
  <2>7. Total(y, w) \in Int
    BY <2>6 DEF Totals
  <2> QED BY <2>4, <2>7 DEF y
<1> HIDE DEF t
<1>3. Totals(t, m)
  BY <1>2, TotalSteps
<1>4. 0 \in S
  <2>1. 0 * w = 0
    OBVIOUS
  <2>2. Total(x, 0) = 0
    <3> DEFINE zero == 0
    <3>1. zero \in Nat /\ \A k \in 0 .. zero - 1 : x[k] \in Int
      OBVIOUS
    <3> HIDE DEF zero
    <3>2. Totals(x, zero)
      BY <3>1, TotalSteps
    <3> QED BY <3>2 DEF Totals
  <2> QED BY <1>3, <2>1, <2>2 DEF Totals
<1>5. ASSUME NEW k \in 1 .. m, k - 1 \in S PROVE k \in S
  <2> DEFINE j == k - 1
             a == j * w
             b == m * w
             y == row(j)
  <2>1. j \in 0 .. m - 1 /\ j + 1 = k
    OBVIOUS
  <2>2. a \in Nat /\ a + w <= b /\ k * w = a + w /\ b \in Nat
    BY <1>1, <2>1
  <2>3. \A i \in 0 .. b - 1 : x[i] \in Int
    OBVIOUS
  <2>4. y = [i \in 0 .. w - 1 |-> x[a + i]]
    OBVIOUS
  <2>5. Total(x, a) = Total(t, j)
    BY <1>5
  <2> HIDE DEF a, b, y
  <2>6. \A i \in 0 .. a + w - 1 : x[i] \in Int
    BY <2>2, <2>3
  <2>7. Total(x, a + w) = Total(x, a) + Total(y, w)
    BY <2>2, <2>4, <2>6, TotalGoesOn
  <2>8. Total(t, k) = Total(t, j) + t[j]
    BY <1>3 DEF Totals
  <2>9. t[j] = Total(y, w)
    BY <1>2, <2>1 DEF y
  <2>10. Total(x, k * w) = Total(t, k)
    BY <2>2, <2>5, <2>7, <2>8, <2>9
  <2> QED BY <2>10
<1>6. \A k \in 0 .. m : k \in S
  <2> HIDE DEF S
  <2> QED BY <1>4, <1>5, UpTo
<1>7. m \in S
  BY <1>6
<1> QED
  BY <1>2, <1>7 DEF t

-----------------------------------------------------------------------------
\* conv2d_transpose: what an input element reaches, where, by which weight, and its share of an output.
TransposeIn(n) == n.in_shape[2] \div n.groups
TransposeOut(n) == n.out_shape[2] \div n.groups
Reached(n, p) ==
  (0 .. (n.out_shape[2] \div n.groups - 1)) \X TapsY(n, n.out_shape[3], Index(n.in_shape, p)[3])
                                            \X TapsX(n, n.out_shape[4], Index(n.in_shape, p)[4])
ReachedChannel(n, p, c) == OutChannel(n, Index(n.in_shape, p)[2] \div TransposeIn(n), c[1])
ReachedBy(n, p) ==
  [c \in Reached(n, p) |-> offset(n.out_shape, <<Index(n.in_shape, p)[1], ReachedChannel(n, p, c),
                                                 AtY(n, Index(n.in_shape, p)[3], c[2]), AtX(n, Index(n.in_shape, p)[4], c[3])>>)]
ReachedWeight(n, p, c) ==
  n.weights[((ReachedChannel(n, p, c) * TransposeIn(n) + (Index(n.in_shape, p)[2] % TransposeIn(n))) * n.filter_h + c[2]) * n.filter_w + c[3]]
ScatterStep(n, acc, p) ==
  [q \in DOMAIN acc |->
    IF \E c \in Reached(n, p) : ReachedBy(n, p)[c] = q
    THEN acc[q] + n.input[p] * ReachedWeight(n, p, CHOOSE c \in Reached(n, p) : ReachedBy(n, p)[c] = q)
    ELSE acc[q]]
OutPlaces(n) == 0 .. (compute_size(n.out_shape) - 1)
ShareOf(n, p, q) ==
  IF \E c \in Reached(n, p) : ReachedBy(n, p)[c] = q
  THEN n.input[p] * ReachedWeight(n, p, CHOOSE c \in Reached(n, p) : ReachedBy(n, p)[c] = q)
  ELSE 0
SharesOf(n, q) == [p \in 0 .. (compute_size(n.in_shape) - 1) |-> ShareOf(n, p, q)]

\* conv2d_transpose scatters every input's shares and activates the sums.
LEMMA TransposeIs ==
  ASSUME NEW n
  PROVE  LET sums == Loop(0, compute_size(n.in_shape), [q \in OutPlaces(n) |-> 0], LAMBDA acc, p : ScatterStep(n, acc, p))
         IN  conv2d_transpose(n) = [q \in DOMAIN sums |-> Activated(sums[q], n)]
  BY DEF conv2d_transpose, OutPlaces, ScatterStep, ReachedBy, ReachedWeight, ReachedChannel, Reached, TransposeIn

\* Scattering adds up the shares.
LEMMA ScatterSums ==
  ASSUME NEW n, compute_size(n.in_shape) \in Nat \ {0},
         \A p \in 0 .. compute_size(n.in_shape) - 1 : \A q \in OutPlaces(n) : ShareOf(n, p, q) \in Int
  PROVE  conv2d_transpose(n) = [q \in OutPlaces(n) |-> Activated(Total(SharesOf(n, q), compute_size(n.in_shape)), n)]
<1> DEFINE N == compute_size(n.in_shape)
           D == OutPlaces(n)
           Z == [q \in D |-> 0]
           E(f) == [k \in 0 .. N |-> IF k = 0 THEN Z ELSE ScatterStep(n, f[k - 1], k - 1)]
           T(k, q) == Total(SharesOf(n, q), k)
           G(k) == [q \in D |-> T(k, q)]
           g == [k \in 0 .. N |-> G(k)]
           acc == CHOOSE f : f = E(f)
<1>1. N \in Nat \ {0} /\ \A p \in 0 .. N - 1 : \A q \in D : ShareOf(n, p, q) \in Int
  OBVIOUS
<1>2. ASSUME NEW q \in D
      PROVE  T(0, q) = 0 /\ \A k \in 1 .. N : T(k, q) = T(k - 1, q) + ShareOf(n, k - 1, q) /\ T(k - 1, q) \in Int
  <2> DEFINE x == SharesOf(n, q)
  <2>1. \A p \in 0 .. N - 1 : x[p] = ShareOf(n, p, q) /\ x[p] \in Int
    BY <1>1 DEF SharesOf
  <2> HIDE DEF N, x
  <2>2. Totals(x, N)
    BY <1>1, <2>1, TotalSteps
  <2>3. ASSUME NEW k \in 1 .. N PROVE k - 1 \in 0 .. N - 1 /\ k - 1 \in 0 .. N
    BY <1>1
  <2> QED BY <2>1, <2>2, <2>3 DEF Totals, x
<1> HIDE DEF N, T
<1>3. ASSUME NEW k \in 1 .. N PROVE ScatterStep(n, G(k - 1), k - 1) = G(k)
  <2> DEFINE p == k - 1
             hit(q) == \E c \in Reached(n, p) : ReachedBy(n, p)[c] = q
             part(q) == n.input[p] * ReachedWeight(n, p, CHOOSE c \in Reached(n, p) : ReachedBy(n, p)[c] = q)
             A(q) == IF hit(q) THEN T(p, q) + part(q) ELSE T(p, q)
  <2>1. ScatterStep(n, G(p), p) = [q \in D |-> IF hit(q) THEN G(p)[q] + part(q) ELSE G(p)[q]]
    BY DEF ScatterStep
  <2>2. \A q \in D : G(p)[q] = T(p, q)
    OBVIOUS
  <2>3. ASSUME NEW q \in D PROVE T(k, q) = A(q)
    <3>1. ShareOf(n, p, q) = IF hit(q) THEN part(q) ELSE 0
      BY DEF ShareOf
    <3>2. T(k, q) = T(p, q) + ShareOf(n, p, q) /\ T(p, q) \in Int
      BY <1>2
    <3> HIDE DEF hit, part, p
    <3> QED BY <3>1, <3>2
  <2> HIDE DEF hit, part, p, D
  <2>4. [q \in D |-> IF hit(q) THEN G(p)[q] + part(q) ELSE G(p)[q]] = [q \in D |-> A(q)]
    BY <2>2
  <2>5. [q \in D |-> A(q)] = [q \in D |-> T(k, q)]
    <3> HIDE DEF A
    <3> QED BY <2>3
  <2> QED BY <2>1, <2>4, <2>5 DEF p
<1>4. G(0) = Z
  BY <1>2
<1> HIDE DEF G, Z, D
<1>5. g = E(g)
  <2>1. ASSUME NEW k \in 0 .. N PROVE g[k] = E(g)[k]
    <3>1. CASE k = 0
      BY <1>4, <3>1
    <3>2. CASE k # 0
      <4>1. k \in 1 .. N /\ k - 1 \in 0 .. N
        BY <1>1, <3>2
      <4>2. g[k] = G(k) /\ g[k - 1] = G(k - 1)
        BY <4>1
      <4>3. E(g)[k] = ScatterStep(n, g[k - 1], k - 1)
        <5> HIDE DEF g
        <5> QED BY <3>2
      <4> HIDE DEF E, g
      <4> QED BY <1>3, <4>1, <4>2, <4>3
    <3> QED BY <3>1, <3>2
  <2>2. g = [k \in 0 .. N |-> g[k]]
    OBVIOUS
  <2>3. E(g) = [k \in 0 .. N |-> E(g)[k]]
    <3> HIDE DEF g
    <3> QED OBVIOUS
  <2> HIDE DEF E, g
  <2>4. [k \in 0 .. N |-> g[k]] = [k \in 0 .. N |-> E(g)[k]]
    BY <2>1
  <2> QED BY <2>2, <2>3, <2>4
<1>6. acc = E(acc)
  <2> HIDE DEF E, g
  <2> QED BY <1>5
<1>7. acc[0] = Z /\ \A k \in 1 .. N : acc[k] = ScatterStep(n, acc[k - 1], k - 1)
  <2> HIDE DEF acc
  <2>1. E(acc)[0] = Z
    BY <1>1
  <2>2. ASSUME NEW k \in 1 .. N PROVE E(acc)[k] = ScatterStep(n, acc[k - 1], k - 1)
    <3>1. k \in 0 .. N /\ k # 0
      BY <1>1
    <3> QED BY <3>1
  <2> HIDE DEF E
  <2> QED BY <1>6, <2>1, <2>2
<1>8. acc[N] = G(N)
  <2> DEFINE S == {k \in 0 .. N : acc[k] = G(k)}
  <2> HIDE DEF acc
  <2>1. 0 \in S
    BY <1>1, <1>4, <1>7
  <2>2. ASSUME NEW k \in 1 .. N, k - 1 \in S PROVE k \in S
    <3>1. acc[k - 1] = G(k - 1)
      BY <2>2
    <3>2. acc[k] = G(k)
      BY <1>3, <1>7, <3>1
    <3> QED BY <3>2
  <2>3. \A k \in 0 .. N : k \in S
    <3> HIDE DEF S
    <3> QED BY <1>1, <2>1, <2>2, UpTo
  <2> QED BY <1>1, <2>3
<1>9. Loop(0, N, Z, LAMBDA a, p : ScatterStep(n, a, p)) = acc[N]
  BY <1>1 DEF Loop
<1>10. conv2d_transpose(n) = [q \in DOMAIN G(N) |-> Activated(G(N)[q], n)]
  BY <1>8, <1>9, TransposeIs DEF N, Z, D
<1>11. DOMAIN G(N) = D /\ \A q \in D : G(N)[q] = T(N, q)
  BY DEF G
<1>12. [q \in DOMAIN G(N) |-> Activated(G(N)[q], n)] = [q \in D |-> Activated(T(N, q), n)]
  BY <1>11
<1> QED
  BY <1>10, <1>12 DEF T, N, D

\* A transposed convolution that is compiled has these numbers.
TransposeNumbers(n) ==
  /\ Shape(n.in_shape) /\ Shape(n.out_shape) /\ n.out_shape[1] = n.in_shape[1]
  /\ n.groups \in Nat \ {0} /\ TransposeIn(n) \in Nat \ {0} /\ TransposeOut(n) \in Nat \ {0}
  /\ n.in_shape[2] = n.groups * TransposeIn(n) /\ n.out_shape[2] = n.groups * TransposeOut(n)
  /\ n.filter_h \in Nat \ {0} /\ n.filter_w \in Nat \ {0} /\ n.dilation_h \in Nat \ {0} /\ n.dilation_w \in Nat \ {0}
  /\ \A y \in Nat : OriginY(n, y) \in Int /\ OriginX(n, y) \in Int

\* The sizes of a described transposed convolution are numbers.
LEMMA TransposeHasNumbers ==
  ASSUME NEW n, Transposes(n)
  PROVE  TransposeNumbers(n)
<1>1. /\ n.in_shape \in Shapes /\ n.out_shape \in Shapes /\ n.out_shape[1] = n.in_shape[1] /\ n.groups \in Nat \ {0}
      /\ n.in_shape[2] % n.groups = 0 /\ n.out_shape[2] % n.groups = 0
  BY DEF Transposes
<1>2. TransposeIn(n) \in Nat \ {0} /\ n.in_shape[2] = n.groups * TransposeIn(n)
  <2> DEFINE m == n.in_shape[2]
             g == n.groups
  <2>1. m \in Nat \ {0} /\ g \in Nat \ {0} /\ m % g = 0
    BY <1>1 DEF Shapes
  <2> HIDE DEF m, g
  <2>2. m \div g \in Nat \ {0} /\ m = g * (m \div g)
    BY <2>1, Divides
  <2> QED BY <2>2 DEF m, g, TransposeIn
<1>3. TransposeOut(n) \in Nat \ {0} /\ n.out_shape[2] = n.groups * TransposeOut(n)
  <2> DEFINE m == n.out_shape[2]
             g == n.groups
  <2>1. m \in Nat \ {0} /\ g \in Nat \ {0} /\ m % g = 0
    BY <1>1 DEF Shapes
  <2> HIDE DEF m, g
  <2>2. m \div g \in Nat \ {0} /\ m = g * (m \div g)
    BY <2>1, Divides
  <2> QED BY <2>2 DEF m, g, TransposeOut
<1>4. /\ n.filter_h \in Nat \ {0} /\ n.filter_w \in Nat \ {0} /\ n.dilation_h \in Nat \ {0} /\ n.dilation_w \in Nat \ {0}
      /\ n.stride_h \in Nat \ {0} /\ n.stride_w \in Nat \ {0} /\ n.padding_h.before \in Nat /\ n.padding_w.before \in Nat
  BY DEF Transposes
<1>5. ASSUME NEW y \in Nat PROVE OriginY(n, y) \in Int /\ OriginX(n, y) \in Int
  <2> DEFINE a == n.stride_h
             b == n.padding_h.before
             c == n.stride_w
             d == n.padding_w.before
  <2>1. a \in Nat /\ b \in Nat /\ c \in Nat /\ d \in Nat
    BY <1>4
  <2>2. OriginY(n, y) = y * a - b /\ OriginX(n, y) = y * c - d
    BY DEF OriginY, OriginX
  <2> HIDE DEF a, b, c, d
  <2>3. y * a \in Nat /\ y * c \in Nat
    BY <2>1
  <2> QED BY <2>1, <2>2, <2>3
<1> QED
  BY <1>1, <1>2, <1>3, <1>4, <1>5 DEF TransposeNumbers, Shape, Shapes

\* Where an element is reached from: its channel is of the group, and its place is that of a tap.
Landed(n, p, q, c) == c \in Reached(n, p) /\ ReachedBy(n, p)[c] = q
TapsLand(n, p, q, ky, kx) ==
  /\ ky \in 0 .. n.filter_h - 1 /\ kx \in 0 .. n.filter_w - 1
  /\ AtY(n, Index(n.in_shape, p)[3], ky) = Index(n.out_shape, q)[3]
  /\ AtX(n, Index(n.in_shape, p)[4], kx) = Index(n.out_shape, q)[4]
GroupsMeet(n, p, q) ==
  /\ Index(n.in_shape, p)[1] = Index(n.out_shape, q)[1]
  /\ Index(n.in_shape, p)[2] \div TransposeIn(n) = Index(n.out_shape, q)[2] \div TransposeOut(n)

\* The taps of an element are those on the result.
LEMMA TapsOfElement ==
  ASSUME NEW n, Transposes(n), NEW p \in 0 .. compute_size(n.in_shape) - 1, NEW k
  PROVE  /\ k \in TapsY(n, n.out_shape[3], Index(n.in_shape, p)[3]) <=>
              k \in 0 .. n.filter_h - 1 /\ AtY(n, Index(n.in_shape, p)[3], k) \in 0 .. n.out_shape[3] - 1
         /\ k \in TapsX(n, n.out_shape[4], Index(n.in_shape, p)[4]) <=>
              k \in 0 .. n.filter_w - 1 /\ AtX(n, Index(n.in_shape, p)[4], k) \in 0 .. n.out_shape[4] - 1
<1> DEFINE y == Index(n.in_shape, p)[3]
           x == Index(n.in_shape, p)[4]
<1>1. TransposeNumbers(n)
  BY TransposeHasNumbers
<1>2. y \in Nat /\ x \in Nat
  <2>1. \A l \in 1 .. 4 : Index(n.in_shape, p)[l] \in 0 .. n.in_shape[l] - 1
    BY <1>1, OffsetOfIndex DEF TransposeNumbers
  <2> QED BY <2>1
<1>3. n.out_shape[3] \in Nat \ {0} /\ n.out_shape[4] \in Nat \ {0}
  BY <1>1 DEF TransposeNumbers, Shape
<1> HIDE DEF y, x
<1>4. /\ Reaches(TapsY(n, n.out_shape[3], y), n.filter_h, OriginY(n, y), n.dilation_h, n.out_shape[3])
      /\ Reaches(TapsX(n, n.out_shape[4], x), n.filter_w, OriginX(n, x), n.dilation_w, n.out_shape[4])
  BY <1>1, <1>2, <1>3, TapsReach DEF TransposeNumbers, TapsY, TapsX
<1>5. ASSUME NEW S, NEW f \in Nat \ {0}, NEW at, NEW d, NEW h, Reaches(S, f, at, d, h), S \subseteq Int
      PROVE  k \in S <=> k \in 0 .. f - 1 /\ at + d * k \in 0 .. h - 1
  <2>1. PICK lo, m : Stretch(S, lo, m, f)
    BY <1>5 DEF Reaches
  <2>2. k \in S => k \in Int /\ lo <= k /\ k < lo + m /\ lo \in Nat /\ m \in Nat /\ lo + m <= f
    BY <1>5, <2>1 DEF Stretch
  <2>3. k \in S => k \in 0 .. f - 1
    BY <1>5, <2>2
  <2> QED BY <1>5, <2>3 DEF Reaches
<1>6. TapsY(n, n.out_shape[3], y) \subseteq Int /\ TapsX(n, n.out_shape[4], x) \subseteq Int
  BY DEF TapsY, TapsX, Taps
<1>7. k \in TapsY(n, n.out_shape[3], y) <=> k \in 0 .. n.filter_h - 1 /\ AtY(n, y, k) \in 0 .. n.out_shape[3] - 1
  BY <1>1, <1>4, <1>5, <1>6 DEF TransposeNumbers, AtY
<1>8. k \in TapsX(n, n.out_shape[4], x) <=> k \in 0 .. n.filter_w - 1 /\ AtX(n, x, k) \in 0 .. n.out_shape[4] - 1
  BY <1>1, <1>4, <1>5, <1>6 DEF TransposeNumbers, AtX
<1> QED
  BY <1>7, <1>8 DEF y, x

\* The four numbers of the index of an element.
LEMMA IndexFour ==
  ASSUME NEW s, Shape(s), NEW p \in 0 .. compute_size(s) - 1, NEW i, i = Index(s, p)
  PROVE  /\ i[1] \in 0 .. s[1] - 1 /\ i[2] \in 0 .. s[2] - 1 /\ i[3] \in 0 .. s[3] - 1 /\ i[4] \in 0 .. s[4] - 1
         /\ i = <<i[1], i[2], i[3], i[4]>> /\ offset(s, <<i[1], i[2], i[3], i[4]>>) = p
<1>1. (\A k \in 1 .. 4 : i[k] \in 0 .. s[k] - 1) /\ offset(s, i) = p
  BY OffsetOfIndex
<1>2. i = <<i[1], i[2], i[3], i[4]>>
  BY DEF Index
<1> QED
  BY <1>1, <1>2

\* Indices with one offset are one index.
LEMMA OffsetsMeet ==
  ASSUME NEW s, Shape(s), NEW q \in 0 .. compute_size(s) - 1, NEW i, i = Index(s, q), NEW a, NEW b, NEW c, NEW d,
         a \in 0 .. s[1] - 1, b \in 0 .. s[2] - 1, c \in 0 .. s[3] - 1, d \in 0 .. s[4] - 1
  PROVE  offset(s, <<a, b, c, d>>) = q <=> a = i[1] /\ b = i[2] /\ c = i[3] /\ d = i[4]
<1>1. Index(s, offset(s, <<a, b, c, d>>)) = <<a, b, c, d>>
  BY IndexBack
<1>2. offset(s, <<i[1], i[2], i[3], i[4]>>) = q
  BY IndexFour
<1>3. ASSUME offset(s, <<a, b, c, d>>) = q PROVE a = i[1] /\ b = i[2] /\ c = i[3] /\ d = i[4]
  <2>1. i = <<a, b, c, d>>
    BY <1>1, <1>3
  <2> QED BY <2>1
<1> QED
  BY <1>2, <1>3

\* The group of a channel, and its number in the group.
LEMMA ChannelOf ==
  ASSUME NEW g \in Nat, NEW w \in Nat \ {0}, NEW c \in 0 .. w - 1
  PROVE  (g * w + c) \div w = g /\ (g * w + c) % w = c
<1> DEFINE p == g * w + c
           q == p \div w
           r == p % w
<1>1. p \in Nat
  <2>1. g * w \in Nat
    OBVIOUS
  <2> DEFINE m == g * w
  <2> HIDE DEF m
  <2>2. m + c \in Nat
    BY <2>1 DEF m
  <2> QED BY <2>2 DEF m
<1>2. p = g * w + c
  OBVIOUS
<1> HIDE DEF p
<1>3. q \in Nat /\ r \in 0 .. w - 1 /\ p = q * w + r
  BY <1>1, DivMod
<1> HIDE DEF q, r
<1>4. q = g /\ r = c
  BY <1>2, <1>3, Digits
<1> QED
  BY <1>4 DEF p, q, r

\* An input lands on an output where the groups meet and a tap reaches.
LEMMA LandedIs ==
  ASSUME NEW n, Transposes(n), NEW p \in 0 .. compute_size(n.in_shape) - 1, NEW q \in OutPlaces(n), NEW c
  PROVE  Landed(n, p, q, c) <=>
           /\ c = <<c[1], c[2], c[3]>> /\ GroupsMeet(n, p, q) /\ TapsLand(n, p, q, c[2], c[3])
           /\ c[1] = Index(n.out_shape, q)[2] % TransposeOut(n)
<1> DEFINE s == n.in_shape
           t == n.out_shape
           j == Index(s, p)
           i == Index(t, q)
           gi == TransposeIn(n)
           go == TransposeOut(n)
           g == j[2] \div gi
<1>1. TransposeNumbers(n)
  BY TransposeHasNumbers
<1>2. /\ Shape(s) /\ Shape(t) /\ t[1] = s[1] /\ n.groups \in Nat \ {0} /\ gi \in Nat \ {0} /\ go \in Nat \ {0}
      /\ s[2] = n.groups * gi /\ t[2] = n.groups * go
  BY <1>1 DEF TransposeNumbers
<1>3. /\ j[1] \in 0 .. s[1] - 1 /\ j[2] \in 0 .. s[2] - 1 /\ j[3] \in 0 .. s[3] - 1 /\ j[4] \in 0 .. s[4] - 1
  BY <1>2, IndexFour
<1>4. /\ i[1] \in 0 .. t[1] - 1 /\ i[2] \in 0 .. t[2] - 1 /\ i[3] \in 0 .. t[3] - 1 /\ i[4] \in 0 .. t[4] - 1
      /\ q \in 0 .. compute_size(t) - 1
  BY <1>2, IndexFour DEF OutPlaces
<1>5. g \in 0 .. n.groups - 1
  <2> DEFINE a == j[2]
             m == n.groups
             r == a % gi
  <2>1. a \in Nat /\ a < m * gi /\ m \in Nat
    BY <1>2, <1>3
  <2> HIDE DEF a, m, j, gi
  <2>2. g \in Nat /\ r \in 0 .. gi - 1 /\ a = g * gi + r
    BY <1>2, <2>1, DivMod DEF a
  <2> HIDE DEF r, g
  <2>3. g < m
    <3> SUFFICES ASSUME ~(g < m) PROVE FALSE
      OBVIOUS
    <3>1. g >= m
      BY <2>1, <2>2
    <3>2. g * gi >= m * gi /\ g * gi \in Nat /\ m * gi \in Nat
      BY <1>2, <2>1, <2>2, <3>1, Grows
    <3> QED BY <2>1, <2>2, <3>2
  <2> QED BY <2>1, <2>2, <2>3 DEF m
<1>6. Reached(n, p) = (0 .. go - 1) \X TapsY(n, t[3], j[3]) \X TapsX(n, t[4], j[4])
  BY DEF Reached, TransposeOut
<1>7. ASSUME NEW e \in Reached(n, p)
      PROVE  /\ e = <<e[1], e[2], e[3]>> /\ e[1] \in 0 .. go - 1 /\ e[2] \in TapsY(n, t[3], j[3]) /\ e[3] \in TapsX(n, t[4], j[4])
             /\ ReachedBy(n, p)[e] = offset(t, <<j[1], g * go + e[1], AtY(n, j[3], e[2]), AtX(n, j[4], e[3])>>)
  BY <1>6 DEF ReachedBy, ReachedChannel, OutChannel, TransposeOut
<1>8. \A k : /\ k \in TapsY(n, t[3], j[3]) <=> k \in 0 .. n.filter_h - 1 /\ AtY(n, j[3], k) \in 0 .. t[3] - 1
             /\ k \in TapsX(n, t[4], j[4]) <=> k \in 0 .. n.filter_w - 1 /\ AtX(n, j[4], k) \in 0 .. t[4] - 1
  BY TapsOfElement
<1>9. ASSUME NEW e \in 0 .. go - 1 PROVE g * go + e \in 0 .. t[2] - 1
  <2> DEFINE m == n.groups
  <2>1. m \in Nat /\ g \in Nat /\ g < m /\ t[2] = m * go
    BY <1>2, <1>5
  <2> HIDE DEF m, g, go, t
  <2>2. g * go + e \in 0 .. m * go - 1
    BY <1>2, <1>9, <2>1, Below
  <2> QED BY <2>1, <2>2
<1>10. i[2] = (i[2] \div go) * go + (i[2] % go) /\ i[2] % go \in 0 .. go - 1 /\ i[2] \div go \in Nat
  <2>1. i[2] \in Nat
    BY <1>2, <1>4 DEF Shape
  <2> HIDE DEF i, go
  <2> QED BY <1>2, <2>1, DivMod
<1>11. ASSUME NEW e \in 0 .. go - 1 PROVE g * go + e = i[2] <=> g = i[2] \div go /\ e = i[2] % go
  <2>1. g \in Nat
    BY <1>2, <1>5
  <2> DEFINE a == i[2]
             u == a \div go
             v == a % go
  <2>2. a = u * go + v /\ v \in 0 .. go - 1 /\ u \in Nat
    BY <1>10
  <2> HIDE DEF g, go, i, a, u, v
  <2>3. g * go + e = a => g = u /\ e = v
    BY <1>2, <1>11, <2>1, <2>2, Digits
  <2> QED BY <2>2, <2>3 DEF a, u, v
<1>12. ASSUME NEW e \in Reached(n, p)
       PROVE  ReachedBy(n, p)[e] = q <=>
                j[1] = i[1] /\ g = i[2] \div go /\ e[1] = i[2] % go /\ AtY(n, j[3], e[2]) = i[3] /\ AtX(n, j[4], e[3]) = i[4]
  <2> DEFINE a == j[1]
             b == g * go + e[1]
             y == AtY(n, j[3], e[2])
             x == AtX(n, j[4], e[3])
  <2>1. a \in 0 .. t[1] - 1 /\ b \in 0 .. t[2] - 1 /\ y \in 0 .. t[3] - 1 /\ x \in 0 .. t[4] - 1
    BY <1>2, <1>3, <1>7, <1>8, <1>9
  <2>2. ReachedBy(n, p)[e] = offset(t, <<a, b, y, x>>)
    BY <1>7
  <2>3. b = i[2] <=> g = i[2] \div go /\ e[1] = i[2] % go
    BY <1>7, <1>11
  <2>4. i = Index(t, q)
    OBVIOUS
  <2> HIDE DEF a, b, y, x, t, i, go, g
  <2>5. offset(t, <<a, b, y, x>>) = q <=> a = i[1] /\ b = i[2] /\ y = i[3] /\ x = i[4]
    BY <1>2, <1>4, <2>1, <2>4, OffsetsMeet
  <2> QED BY <2>2, <2>3, <2>5 DEF a, y, x
<1>13. GroupsMeet(n, p, q) <=> j[1] = i[1] /\ g = i[2] \div go
  BY DEF GroupsMeet
<1>14. TapsLand(n, p, q, c[2], c[3]) <=>
         c[2] \in 0 .. n.filter_h - 1 /\ c[3] \in 0 .. n.filter_w - 1 /\ AtY(n, j[3], c[2]) = i[3] /\ AtX(n, j[4], c[3]) = i[4]
  BY DEF TapsLand
<1> HIDE DEF j, i, g, gi, go, s, t
<1>15. ASSUME Landed(n, p, q, c)
       PROVE  c = <<c[1], c[2], c[3]>> /\ GroupsMeet(n, p, q) /\ TapsLand(n, p, q, c[2], c[3]) /\ c[1] = i[2] % go
  BY <1>7, <1>8, <1>12, <1>13, <1>14, <1>15 DEF Landed
<1>16. ASSUME c = <<c[1], c[2], c[3]>>, GroupsMeet(n, p, q), TapsLand(n, p, q, c[2], c[3]), c[1] = i[2] % go
       PROVE  Landed(n, p, q, c)
  <2> DEFINE c1 == c[1]
             c2 == c[2]
             c3 == c[3]
  <2>1. c1 \in 0 .. go - 1 /\ c2 \in TapsY(n, t[3], j[3]) /\ c3 \in TapsX(n, t[4], j[4]) /\ c = <<c1, c2, c3>>
    BY <1>4, <1>8, <1>10, <1>14, <1>16
  <2> HIDE DEF c1, c2, c3
  <2>2. <<c1, c2, c3>> \in Reached(n, p)
    BY <1>6, <2>1
  <2>3. c \in Reached(n, p)
    BY <2>1, <2>2
  <2> QED BY <1>12, <1>13, <1>14, <1>16, <2>3 DEF Landed
<1> QED
  BY <1>15, <1>16 DEF i, go, t

\* A place on the result is that of one tap at most.
LEMMA OneTap ==
  ASSUME NEW o \in Int, NEW d \in Nat \ {0}, NEW k \in Nat, NEW l \in Nat, o + d * k = o + d * l
  PROVE  k = l
<1> DEFINE a == d * k
           b == d * l
           zero == 0
<1>1. a \in Nat /\ b \in Nat /\ a = k * d + zero /\ b = l * d + zero /\ zero \in 0 .. d - 1
  OBVIOUS
<1>2. o + a = o + b
  OBVIOUS
<1> HIDE DEF a, b, zero
<1>3. a = b
  BY <1>1, <1>2
<1>4. k * d + zero = l * d + zero
  BY <1>1, <1>3
<1> QED
  BY <1>1, <1>4, Digits

\* What an element of the image gives an element of the result through a tap.
GatherX(n, i, ic, y, x) == n.input[offset(n.in_shape, <<i[1], (i[2] \div TransposeOut(n)) * TransposeIn(n) + ic, y, x>>)]
GatherW(n, i, ic, ky, kx) == n.weights[offset(<<n.out_shape[2], TransposeIn(n), n.filter_h, n.filter_w>>, <<i[2], ic, ky, kx>>)]
Gathered(n, i, ic, y, x, ky, kx) ==
  IF ~(AtY(n, y, ky) = i[3] /\ AtX(n, x, kx) = i[4]) THEN 0 ELSE GatherX(n, i, ic, y, x) * GatherW(n, i, ic, ky, kx)
GatheredRow(n, i, ic, y, x, ky) == [kx \in 0 .. n.filter_w - 1 |-> Gathered(n, i, ic, y, x, ky, kx)]
GatheredRows(n, i, ic, y, x) == [ky \in 0 .. n.filter_h - 1 |-> Total(GatheredRow(n, i, ic, y, x, ky), n.filter_w)]
GatheredFrom(n, i, ic, y, x) == Total(GatheredRows(n, i, ic, y, x), n.filter_h)
\* The element of the image that has these numbers in the group of an element of the result.
SourceOf(n, i, ic, y, x) == offset(n.in_shape, <<i[1], (i[2] \div TransposeOut(n)) * TransposeIn(n) + ic, y, x>>)
AtSource(n, ic, y, x) == ic \in 0 .. TransposeIn(n) - 1 /\ y \in 0 .. n.in_shape[3] - 1 /\ x \in 0 .. n.in_shape[4] - 1

\* An input that the gather reads, at a place of the tensor, is the input that lands.
LEMMA SourceIs ==
  ASSUME NEW n, Transposes(n), NEW q \in OutPlaces(n), NEW i, i = Index(n.out_shape, q), NEW ic, NEW y, NEW x, AtSource(n, ic, y, x)
  PROVE  LET p == SourceOf(n, i, ic, y, x)
             j == Index(n.in_shape, p)
         IN  /\ p \in 0 .. compute_size(n.in_shape) - 1 /\ j[1] = i[1] /\ j[3] = y /\ j[4] = x
             /\ j[2] \div TransposeIn(n) = i[2] \div TransposeOut(n) /\ j[2] % TransposeIn(n) = ic
             /\ GatherX(n, i, ic, y, x) = n.input[p] /\ n.input[p] \in Int
<1> DEFINE s == n.in_shape
           t == n.out_shape
           gi == TransposeIn(n)
           go == TransposeOut(n)
           g == i[2] \div go
           b == g * gi + ic
           a == i[1]
           p == offset(s, <<a, b, y, x>>)
           m == n.groups
<1>1. /\ Shape(s) /\ Shape(t) /\ t[1] = s[1] /\ m \in Nat \ {0} /\ gi \in Nat \ {0} /\ go \in Nat \ {0}
      /\ s[2] = m * gi /\ t[2] = m * go
  BY TransposeHasNumbers DEF TransposeNumbers
<1>2. a \in 0 .. s[1] - 1 /\ i[2] \in 0 .. m * go - 1
  BY <1>1, IndexFour DEF OutPlaces
<1>3. ic \in 0 .. gi - 1 /\ y \in 0 .. s[3] - 1 /\ x \in 0 .. s[4] - 1
  BY DEF AtSource
<1>4. g \in Nat /\ g < m
  <2> DEFINE c == i[2]
             r == c % go
  <2>1. c \in Nat /\ c < m * go
    BY <1>1, <1>2
  <2> HIDE DEF c, m, go
  <2>2. g \in Nat /\ r \in 0 .. go - 1 /\ c = g * go + r
    BY <1>1, <2>1, DivMod DEF c
  <2> HIDE DEF r, g
  <2>3. g < m
    <3> SUFFICES ASSUME ~(g < m) PROVE FALSE
      OBVIOUS
    <3>1. g >= m
      BY <1>1, <2>2
    <3>2. g * go >= m * go /\ g * go \in Nat /\ m * go \in Nat
      BY <1>1, <2>2, <3>1, Grows
    <3> QED BY <2>1, <2>2, <3>2
  <2> QED BY <2>2, <2>3
<1>5. b \in 0 .. s[2] - 1 /\ b \div gi = g /\ b % gi = ic
  <2> HIDE DEF g, gi, m, s
  <2>1. g * gi + ic \in 0 .. m * gi - 1
    BY <1>1, <1>3, <1>4, Below
  <2>2. b \in 0 .. s[2] - 1
    BY <1>1, <2>1
  <2>3. (g * gi + ic) \div gi = g /\ (g * gi + ic) % gi = ic
    BY <1>1, <1>3, <1>4, ChannelOf
  <2> QED BY <2>2, <2>3
<1> HIDE DEF b
<1>6. p \in 0 .. compute_size(s) - 1 /\ Index(s, p) = <<a, b, y, x>>
  BY <1>1, <1>2, <1>3, <1>5, IndexBack
<1>7. n.input[p] \in Int
  BY <1>6 DEF Transposes, NumbersIn
<1>8. SourceOf(n, i, ic, y, x) = p /\ GatherX(n, i, ic, y, x) = n.input[p]
  BY DEF SourceOf, GatherX, b
<1> HIDE DEF p, a, g
<1> QED
  BY <1>5, <1>6, <1>7, <1>8 DEF a, g

\* Its weights are there.
LEMMA GatherWeightIs ==
  ASSUME NEW n, Transposes(n), NEW q \in OutPlaces(n), NEW i, i = Index(n.out_shape, q), NEW ic \in 0 .. TransposeIn(n) - 1,
         NEW ky \in 0 .. n.filter_h - 1, NEW kx \in 0 .. n.filter_w - 1
  PROVE  /\ GatherW(n, i, ic, ky, kx) \in Int
         /\ GatherW(n, i, ic, ky, kx) = n.weights[((i[2] * TransposeIn(n) + ic) * n.filter_h + ky) * n.filter_w + kx]
<1> DEFINE gi == TransposeIn(n)
           u == <<n.out_shape[2], gi, n.filter_h, n.filter_w>>
           b == i[2]
           k == offset(u, <<b, ic, ky, kx>>)
<1>1. /\ Shape(n.out_shape) /\ gi \in Nat \ {0} /\ n.filter_h \in Nat \ {0} /\ n.filter_w \in Nat \ {0}
  BY TransposeHasNumbers DEF TransposeNumbers
<1>2. b \in 0 .. n.out_shape[2] - 1 /\ n.out_shape[2] \in Nat \ {0}
  <2>1. n.out_shape[2] \in Nat \ {0}
    BY <1>1 DEF Shape
  <2>2. b \in 0 .. n.out_shape[2] - 1
    BY <1>1, IndexFour DEF OutPlaces
  <2> QED BY <2>1, <2>2
<1>3. Shape(u) /\ u[1] = n.out_shape[2] /\ u[2] = gi /\ u[3] = n.filter_h /\ u[4] = n.filter_w
  BY <1>1, <1>2 DEF Shape
<1>4. compute_size(u) = n.out_shape[2] * gi * n.filter_h * n.filter_w /\ k = ((b * gi + ic) * n.filter_h + ky) * n.filter_w + kx
  BY DEF compute_size, offset
<1>5. GatherW(n, i, ic, ky, kx) = n.weights[k]
  BY DEF GatherW
<1> HIDE DEF u, b
<1>6. k \in 0 .. compute_size(u) - 1
  BY <1>2, <1>3, IndexBack
<1>7. n.weights[k] \in Int
  <2> HIDE DEF k
  <2> QED BY <1>4, <1>6 DEF Transposes, NumbersIn, gi, TransposeIn
<1> QED
  BY <1>4, <1>5, <1>7 DEF b

\* The share of an element is what it gives through its taps.
LEMMA ShareInside ==
  ASSUME NEW n, Transposes(n), NEW q \in OutPlaces(n), NEW i, i = Index(n.out_shape, q), NEW ic, NEW y, NEW x, AtSource(n, ic, y, x)
  PROVE  LET p == SourceOf(n, i, ic, y, x)
         IN  ShareOf(n, p, q) = GatheredFrom(n, i, ic, y, x) /\ ShareOf(n, p, q) \in Int
<1> DEFINE p == SourceOf(n, i, ic, y, x)
           j == Index(n.in_shape, p)
           X == n.input[p]
           fh == n.filter_h
           fw == n.filter_w
           W(ky, kx) == GatherW(n, i, ic, ky, kx)
           row(ky) == GatheredRow(n, i, ic, y, x, ky)
           rows == GatheredRows(n, i, ic, y, x)
           lands(ky, kx) == ky \in 0 .. fh - 1 /\ kx \in 0 .. fw - 1 /\ AtY(n, y, ky) = i[3] /\ AtX(n, x, kx) = i[4]
<1>1. /\ p \in 0 .. compute_size(n.in_shape) - 1 /\ j[1] = i[1] /\ j[3] = y /\ j[4] = x
      /\ j[2] \div TransposeIn(n) = i[2] \div TransposeOut(n) /\ j[2] % TransposeIn(n) = ic
      /\ GatherX(n, i, ic, y, x) = X /\ X \in Int
  BY SourceIs
<1>2. TransposeNumbers(n) /\ fh \in Nat \ {0} /\ fw \in Nat \ {0} /\ ic \in 0 .. TransposeIn(n) - 1
  BY TransposeHasNumbers DEF TransposeNumbers, AtSource
<1>3. y \in Nat /\ x \in Nat
  <2>1. n.in_shape[3] \in Nat /\ n.in_shape[4] \in Nat
    BY <1>2 DEF TransposeNumbers, Shape
  <2> QED BY <2>1 DEF AtSource
<1>4. OriginY(n, y) \in Int /\ OriginX(n, x) \in Int /\ n.dilation_h \in Nat \ {0} /\ n.dilation_w \in Nat \ {0}
  BY <1>2, <1>3 DEF TransposeNumbers
<1>5. ASSUME NEW ky \in 0 .. fh - 1, NEW kx \in 0 .. fw - 1 PROVE W(ky, kx) \in Int
  BY <1>2, GatherWeightIs
<1>6. ASSUME NEW ky \in 0 .. fh - 1, NEW kx \in 0 .. fw - 1
      PROVE  row(ky)[kx] = IF AtY(n, y, ky) = i[3] /\ AtX(n, x, kx) = i[4] THEN X * W(ky, kx) ELSE 0
  BY <1>1 DEF GatheredRow, Gathered
<1>7. ASSUME NEW ky \in 0 .. fh - 1 PROVE rows[ky] = Total(row(ky), fw)
  BY DEF GatheredRows
<1>8. GroupsMeet(n, p, q)
  BY <1>1 DEF GroupsMeet
<1>9. \A ky, kx : TapsLand(n, p, q, ky, kx) <=> lands(ky, kx)
  BY <1>1 DEF TapsLand
<1>10. \A c : Landed(n, p, q, c) <=> c = <<c[1], c[2], c[3]>> /\ lands(c[2], c[3]) /\ c[1] = i[2] % TransposeOut(n)
  BY <1>1, <1>8, <1>9, LandedIs
<1>11. \A c : Landed(n, p, q, c) <=> c \in Reached(n, p) /\ ReachedBy(n, p)[c] = q
  BY DEF Landed
<1>12. GatheredFrom(n, i, ic, y, x) = Total(rows, fh)
  BY DEF GatheredFrom
<1> HIDE DEF p, j, X, row, rows, fh, fw
<1>13. CASE \A ky, kx : ~lands(ky, kx)
  <2>1. ShareOf(n, p, q) = 0
    BY <1>10, <1>11, <1>13 DEF ShareOf
  <2>2. ASSUME NEW ky \in 0 .. fh - 1 PROVE rows[ky] = 0
    <3>1. ASSUME NEW kx \in 0 .. fw - 1 PROVE row(ky)[kx] = 0
      BY <1>6, <1>13, <3>1
    <3> DEFINE r == row(ky)
    <3>2. \A kx \in 0 .. fw - 1 : r[kx] = 0
      BY <3>1
    <3> HIDE DEF r
    <3>3. Total(r, fw) = 0
      BY <1>2, <3>2, TotalOfZero
    <3> QED BY <1>7, <3>3 DEF r
  <2>3. Total(rows, fh) = 0
    BY <1>2, <2>2, TotalOfZero
  <2> QED BY <1>12, <2>1, <2>3 DEF p
<1>14. CASE \E ky, kx : lands(ky, kx)
  <2>1. PICK u, v : lands(u, v)
    BY <1>14
  <2>2. u \in 0 .. fh - 1 /\ v \in 0 .. fw - 1 /\ AtY(n, y, u) = i[3] /\ AtX(n, x, v) = i[4]
    BY <2>1
  <2>3. ASSUME NEW ky, NEW kx, lands(ky, kx) PROVE ky = u /\ kx = v
    <3>1. AtY(n, y, ky) = AtY(n, y, u) /\ AtX(n, x, kx) = AtX(n, x, v) /\ ky \in Nat /\ kx \in Nat /\ u \in Nat /\ v \in Nat
      BY <2>2, <2>3
    <3> QED BY <1>4, <3>1, OneTap DEF AtY, AtX
  <2>4. ASSUME NEW ky \in 0 .. fh - 1, NEW kx \in 0 .. fw - 1, ky # u \/ kx # v PROVE row(ky)[kx] = 0
    BY <1>6, <2>3, <2>4
  <2>5. row(u)[v] = X * W(u, v)
    BY <1>6, <2>2
  <2>6. X * W(u, v) \in Int
    <3>1. W(u, v) \in Int /\ X \in Int
      BY <1>1, <1>5, <2>2
    <3> HIDE DEF W
    <3> QED BY <3>1
  <2>7. rows[u] = X * W(u, v)
    <3> DEFINE r == row(u)
    <3>1. r[v] \in Int /\ \A kx \in 0 .. fw - 1 : kx # v => r[kx] = 0
      BY <2>2, <2>4, <2>5, <2>6
    <3> HIDE DEF r
    <3>2. Total(r, fw) = r[v]
      BY <1>2, <2>2, <3>1, TotalOnly
    <3> QED BY <1>7, <2>2, <2>5, <3>2 DEF r
  <2>8. ASSUME NEW ky \in 0 .. fh - 1, ky # u PROVE rows[ky] = 0
    <3> DEFINE r == row(ky)
    <3>1. \A kx \in 0 .. fw - 1 : r[kx] = 0
      BY <2>4, <2>8
    <3> HIDE DEF r
    <3>2. Total(r, fw) = 0
      BY <1>2, <3>1, TotalOfZero
    <3> QED BY <1>7, <3>2 DEF r
  <2>9. Total(rows, fh) = X * W(u, v)
    <3>1. rows[u] \in Int
      BY <2>6, <2>7
    <3>2. Total(rows, fh) = rows[u]
      BY <1>2, <2>2, <2>8, <3>1, TotalOnly
    <3> QED BY <2>7, <3>2
  <2> DEFINE e == <<i[2] % TransposeOut(n), u, v>>
             c == CHOOSE c \in Reached(n, p) : ReachedBy(n, p)[c] = q
  <2>10. Landed(n, p, q, e)
    <3>1. e[1] = i[2] % TransposeOut(n) /\ e[2] = u /\ e[3] = v /\ e = <<e[1], e[2], e[3]>>
      OBVIOUS
    <3> HIDE DEF e, lands
    <3> QED BY <1>10, <2>1, <3>1
  <2>11. e \in Reached(n, p) /\ ReachedBy(n, p)[e] = q
    BY <1>11, <2>10
  <2> HIDE DEF e
  <2>12. c \in Reached(n, p) /\ ReachedBy(n, p)[c] = q
    BY <2>11
  <2>13. ShareOf(n, p, q) = X * ReachedWeight(n, p, c)
    BY <2>11 DEF ShareOf, X
  <2> HIDE DEF c
  <2>14. c[1] = i[2] % TransposeOut(n) /\ c[2] = u /\ c[3] = v
    <3>1. lands(c[2], c[3]) /\ c[1] = i[2] % TransposeOut(n)
      BY <1>10, <1>11, <2>12
    <3> HIDE DEF lands
    <3> QED BY <2>3, <3>1
  <2>15. ReachedWeight(n, p, c) = W(u, v)
    <3>1. ReachedChannel(n, p, c) = (i[2] \div TransposeOut(n)) * TransposeOut(n) + (i[2] % TransposeOut(n))
      BY <1>1, <2>14 DEF ReachedChannel, OutChannel, TransposeOut, j
    <3>2. ReachedChannel(n, p, c) = i[2]
      <4> DEFINE b == i[2]
                 go == TransposeOut(n)
      <4>1. b \in Nat /\ go \in Nat \ {0}
        <5>1. Shape(n.out_shape) /\ n.out_shape[2] \in Nat /\ go \in Nat \ {0}
          BY <1>2 DEF TransposeNumbers, Shape
        <5>2. b \in 0 .. n.out_shape[2] - 1
          BY <5>1, IndexFour DEF OutPlaces
        <5> QED BY <5>1, <5>2
      <4> HIDE DEF b, go
      <4>2. b = (b \div go) * go + (b % go)
        BY <4>1, DivMod
      <4> QED BY <3>1, <4>2 DEF b, go
    <3>3. ReachedWeight(n, p, c) = n.weights[((i[2] * TransposeIn(n) + ic) * n.filter_h + u) * n.filter_w + v]
      BY <1>1, <2>14, <3>2 DEF ReachedWeight, j
    <3>4. W(u, v) = n.weights[((i[2] * TransposeIn(n) + ic) * n.filter_h + u) * n.filter_w + v]
      <4>1. ic \in 0 .. TransposeIn(n) - 1 /\ u \in 0 .. n.filter_h - 1 /\ v \in 0 .. n.filter_w - 1
        BY <1>2, <2>2 DEF fh, fw
      <4> QED BY <4>1, GatherWeightIs
    <3> QED BY <3>3, <3>4
  <2> HIDE DEF W
  <2> QED BY <1>12, <2>6, <2>9, <2>13, <2>15 DEF p
<1> HIDE DEF lands
<1> QED
  BY <1>13, <1>14 DEF p

\* The share of an element of another group is nothing.
LEMMA ShareOutside ==
  ASSUME NEW n, Transposes(n), NEW p \in 0 .. compute_size(n.in_shape) - 1, NEW q \in OutPlaces(n), ~GroupsMeet(n, p, q)
  PROVE  ShareOf(n, p, q) = 0
<1>1. \A c : ~(c \in Reached(n, p) /\ ReachedBy(n, p)[c] = q)
  BY LandedIs DEF Landed
<1> QED
  BY <1>1 DEF ShareOf

\* An element of the group is one of its sources.
LEMMA FromSource ==
  ASSUME NEW n, Transposes(n), NEW p \in 0 .. compute_size(n.in_shape) - 1, NEW q \in OutPlaces(n), GroupsMeet(n, p, q),
         NEW i, i = Index(n.out_shape, q)
  PROVE  \E ic, y, x : AtSource(n, ic, y, x) /\ p = SourceOf(n, i, ic, y, x)
<1> DEFINE s == n.in_shape
           j == Index(s, p)
           gi == TransposeIn(n)
           b == j[2]
           ic == b % gi
<1>1. Shape(s) /\ gi \in Nat \ {0} /\ s[2] \in Nat
  BY TransposeHasNumbers DEF TransposeNumbers, Shape
<1>2. /\ j[1] \in 0 .. s[1] - 1 /\ b \in 0 .. s[2] - 1 /\ j[3] \in 0 .. s[3] - 1 /\ j[4] \in 0 .. s[4] - 1
      /\ offset(s, <<j[1], b, j[3], j[4]>>) = p
  BY <1>1, IndexFour
<1>3. j[1] = i[1] /\ b \div gi = i[2] \div TransposeOut(n)
  BY DEF GroupsMeet
<1>4. ic \in 0 .. gi - 1 /\ b = (b \div gi) * gi + ic
  <2>1. b \in Nat
    BY <1>1, <1>2
  <2> HIDE DEF b, gi
  <2> QED BY <1>1, <2>1, DivMod
<1> HIDE DEF j, b, ic
<1>5. AtSource(n, ic, j[3], j[4])
  BY <1>2, <1>4 DEF AtSource
<1>6. p = SourceOf(n, i, ic, j[3], j[4])
  BY <1>2, <1>3, <1>4 DEF SourceOf
<1> QED
  BY <1>5, <1>6

\* What an input gives an output is a number.
LEMMA SharesAreInt ==
  ASSUME NEW n, Transposes(n), NEW p \in 0 .. compute_size(n.in_shape) - 1, NEW q \in OutPlaces(n)
  PROVE  ShareOf(n, p, q) \in Int
<1>1. CASE GroupsMeet(n, p, q)
  <2> DEFINE i == Index(n.out_shape, q)
  <2>1. PICK ic, y, x : AtSource(n, ic, y, x) /\ p = SourceOf(n, i, ic, y, x)
    BY <1>1, FromSource
  <2> QED BY <2>1, ShareInside
<1>2. CASE ~GroupsMeet(n, p, q)
  BY <1>2, ShareOutside
<1> QED
  BY <1>1, <1>2

\* Where the sources of an element lie, one after the other.
LEMMA SourcePlace ==
  ASSUME NEW n, Transposes(n), NEW q \in OutPlaces(n), NEW i, i = Index(n.out_shape, q), NEW ic, NEW y, NEW x, AtSource(n, ic, y, x)
  PROVE  /\ SourceOf(n, i, ic, y, x)
              = (((i[1] * n.groups + (i[2] \div TransposeOut(n))) * TransposeIn(n) + ic) * n.in_shape[3] + y) * n.in_shape[4] + x
         /\ i[1] * n.groups + (i[2] \div TransposeOut(n)) \in 0 .. n.in_shape[1] * n.groups - 1
<1> DEFINE s == n.in_shape
           t == n.out_shape
           gi == TransposeIn(n)
           go == TransposeOut(n)
           m == n.groups
           c == i[2]
           g == c \div go
           r == c % go
           a == i[1]
<1>1. /\ Shape(t) /\ t[1] = s[1] /\ m \in Nat \ {0} /\ gi \in Nat \ {0} /\ go \in Nat \ {0}
      /\ s[2] = m * gi /\ t[2] = m * go /\ s[1] \in Nat \ {0}
  BY TransposeHasNumbers DEF TransposeNumbers, Shape
<1>2. a \in 0 .. s[1] - 1 /\ c \in 0 .. m * go - 1
  BY <1>1, IndexFour DEF OutPlaces
<1>3. g \in Nat /\ g < m
  <2>1. c \in Nat /\ c < m * go
    BY <1>1, <1>2
  <2> HIDE DEF c, m, go
  <2>2. g \in Nat /\ r \in 0 .. go - 1 /\ c = g * go + r
    BY <1>1, <2>1, DivMod
  <2> HIDE DEF r, g
  <2>3. g < m
    <3> SUFFICES ASSUME ~(g < m) PROVE FALSE
      OBVIOUS
    <3>1. g >= m
      BY <1>1, <2>2
    <3>2. g * go >= m * go /\ g * go \in Nat /\ m * go \in Nat
      BY <1>1, <2>2, <3>1, Grows
    <3> QED BY <2>1, <2>2, <3>2
  <2> QED BY <2>2, <2>3
<1>4. SourceOf(n, i, ic, y, x) = ((a * (m * gi) + (g * gi + ic)) * s[3] + y) * s[4] + x
  BY <1>1 DEF SourceOf, offset
<1>5. a * (m * gi) + (g * gi + ic) = (a * m + g) * gi + ic
  <2>1. a \in Nat /\ ic \in Nat
    BY <1>1, <1>2 DEF AtSource
  <2> HIDE DEF a, m, gi, g
  <2>2. a * (m * gi) = (a * m) * gi /\ (a * m + g) * gi = (a * m) * gi + g * gi
    BY <1>1, <1>3, <2>1
  <2> DEFINE u == (a * m) * gi
             v == g * gi
  <2>3. u \in Nat /\ v \in Nat
    <3>1. a * m \in Nat
      BY <1>1, <2>1
    <3> DEFINE w == a * m
    <3> HIDE DEF w
    <3>2. w * gi \in Nat /\ g * gi \in Nat
      BY <1>1, <1>3, <3>1 DEF w
    <3> QED BY <3>2 DEF w
  <2> HIDE DEF u, v
  <2>4. u + (v + ic) = (u + v) + ic
    BY <2>1, <2>3
  <2> QED BY <2>2, <2>4 DEF u, v
<1>6. a * m + g \in 0 .. s[1] * m - 1
  <2> DEFINE l == s[1]
  <2>1. l \in Nat /\ a \in Nat /\ a < l /\ g \in 0 .. m - 1
    BY <1>1, <1>2, <1>3
  <2> HIDE DEF l, a, m, g
  <2>2. a * m + g \in 0 .. l * m - 1
    BY <1>1, <2>1, Below
  <2> QED BY <2>2 DEF l
<1> QED
  BY <1>4, <1>5, <1>6

\* A place in four stretches, one within the other.
Place4(u, gi, ic, h, y, w, x) == ((u * gi + ic) * h + y) * w + x

\* A place of a four-level layout names its outermost index.
LEMMA Place4Meets ==
  ASSUME NEW gi \in Nat \ {0}, NEW h \in Nat \ {0}, NEW w \in Nat \ {0}, NEW u \in Nat, NEW v \in Nat,
         NEW a \in 0 .. gi - 1, NEW b \in 0 .. gi - 1, NEW y \in 0 .. h - 1, NEW z \in 0 .. h - 1,
         NEW x \in 0 .. w - 1, NEW t \in 0 .. w - 1, Place4(u, gi, a, h, y, w, x) = Place4(v, gi, b, h, z, w, t)
  PROVE  u = v
<1> DEFINE i == u * gi + a
           j == v * gi + b
           k == i * h + y
           l == j * h + z
<1>1. i \in Nat /\ j \in Nat
  <2>1. u * gi \in Nat /\ v * gi \in Nat /\ a \in Nat /\ b \in Nat
    OBVIOUS
  <2> QED BY <2>1
<1>2. k * w + x = l * w + t
  BY DEF Place4
<1> HIDE DEF i, j
<1>3. k \in Nat /\ l \in Nat
  <2>1. i * h \in Nat /\ j * h \in Nat /\ y \in Nat /\ z \in Nat
    BY <1>1
  <2> QED BY <2>1
<1> HIDE DEF k, l
<1>4. k = l
  BY <1>2, <1>3, Digits
<1>5. i = j
  BY <1>1, <1>4, Digits DEF k, l
<1> QED
  BY <1>5, Digits DEF i, j

\* The sum of four levels of which only one at the top gives something.
Level3(X, gi, h, w, u, ic, y) == Total([x \in 0 .. w - 1 |-> X[Place4(u, gi, ic, h, y, w, x)]], w)
Level2(X, gi, h, w, u, ic) == Total([y \in 0 .. h - 1 |-> Level3(X, gi, h, w, u, ic, y)], h)
Level1(X, gi, h, w, u) == Total([ic \in 0 .. gi - 1 |-> Level2(X, gi, h, w, u, ic)], gi)

\* A total over a four-level layout is a total of the levels' totals.
LEMMA TotalOfLevels ==
  ASSUME NEW m \in Nat \ {0}, NEW gi \in Nat \ {0}, NEW h \in Nat \ {0}, NEW w \in Nat \ {0}, NEW X,
         \A p \in 0 .. ((m * gi) * h) * w - 1 : X[p] \in Int
  PROVE  /\ Total(X, ((m * gi) * h) * w) = Total([u \in 0 .. m - 1 |-> Level1(X, gi, h, w, u)], m)
         /\ \A u \in 0 .. m - 1 : Level1(X, gi, h, w, u) \in Int
<1> DEFINE a == m * gi
           b == a * h
           A == Stretched(X, b, w)
           B == Stretched(A, a, h)
           C == Stretched(B, m, gi)
<1>1. a \in Nat /\ b \in Nat /\ m \in Nat /\ gi \in Nat /\ h \in Nat /\ w \in Nat
  <2>1. a \in Nat
    OBVIOUS
  <2> HIDE DEF a
  <2> QED BY <2>1
<1>2. \A p \in 0 .. b * w - 1 : X[p] \in Int
  OBVIOUS
<1>3. Total(X, b * w) = Total(A, b) /\ \A r \in 0 .. b - 1 : A[r] \in Int
  <2> HIDE DEF b
  <2> QED BY <1>1, <1>2, TotalSplit
<1>4. Total(A, a * h) = Total(B, a) /\ \A t \in 0 .. a - 1 : B[t] \in Int
  <2> HIDE DEF a, A
  <2> QED BY <1>1, <1>3, TotalSplit
<1>5. Total(B, m * gi) = Total(C, m) /\ \A u \in 0 .. m - 1 : C[u] \in Int
  <2> HIDE DEF B
  <2> QED BY <1>1, <1>4, TotalSplit
<1>6. ASSUME NEW r \in 0 .. b - 1 PROVE A[r] = Total([x \in 0 .. w - 1 |-> X[r * w + x]], w)
  BY DEF Stretched
<1>7. ASSUME NEW t \in 0 .. a - 1 PROVE B[t] = Total([y \in 0 .. h - 1 |-> A[t * h + y]], h)
  <2> HIDE DEF A
  <2> QED BY DEF Stretched
<1>8. ASSUME NEW u \in 0 .. m - 1 PROVE C[u] = Total([ic \in 0 .. gi - 1 |-> B[u * gi + ic]], gi)
  <2> HIDE DEF B
  <2> QED BY DEF Stretched
<1> HIDE DEF A, B, C
<1>9. ASSUME NEW u \in 0 .. m - 1, NEW ic \in 0 .. gi - 1, NEW y \in 0 .. h - 1
      PROVE  A[(u * gi + ic) * h + y] = Level3(X, gi, h, w, u, ic, y)
  <2> DEFINE t == u * gi + ic
             r == t * h + y
  <2>1. t \in 0 .. m * gi - 1
    BY Below
  <2>2. r \in 0 .. b - 1
    <3>1. t \in Nat /\ t < a
      BY <1>1, <2>1
    <3> HIDE DEF t, a
    <3>2. t * h + y \in 0 .. a * h - 1
      BY <1>1, <3>1, Below
    <3> QED BY <3>2
  <2>3. A[r] = Total([x \in 0 .. w - 1 |-> X[r * w + x]], w)
    BY <1>6, <2>2
  <2> QED BY <2>3 DEF Level3, Place4
<1>10. ASSUME NEW u \in 0 .. m - 1, NEW ic \in 0 .. gi - 1 PROVE B[u * gi + ic] = Level2(X, gi, h, w, u, ic)
  <2> DEFINE t == u * gi + ic
  <2>1. t \in 0 .. a - 1
    BY Below
  <2>2. B[t] = Total([y \in 0 .. h - 1 |-> A[t * h + y]], h)
    BY <1>7, <2>1
  <2>3. [y \in 0 .. h - 1 |-> A[t * h + y]] = [y \in 0 .. h - 1 |-> Level3(X, gi, h, w, u, ic, y)]
    BY <1>9
  <2> QED BY <2>2, <2>3 DEF Level2
<1>11. ASSUME NEW u \in 0 .. m - 1 PROVE C[u] = Level1(X, gi, h, w, u)
  <2>1. [ic \in 0 .. gi - 1 |-> B[u * gi + ic]] = [ic \in 0 .. gi - 1 |-> Level2(X, gi, h, w, u, ic)]
    BY <1>10
  <2> QED BY <1>8, <2>1 DEF Level1
<1>12. Total([u \in 0 .. m - 1 |-> Level1(X, gi, h, w, u)], m) = Total(C, m)
  <2> DEFINE y == [u \in 0 .. m - 1 |-> Level1(X, gi, h, w, u)]
  <2>1. \A u \in 0 .. m - 1 : C[u] \in Int /\ y[u] = C[u]
    BY <1>5, <1>11
  <2> HIDE DEF y
  <2>2. Total(y, m) = Total(C, m)
    BY <1>1, <2>1, TotalSame
  <2> QED BY <2>2 DEF y
<1>13. Total(X, ((m * gi) * h) * w) = Total(C, m)
  BY <1>3, <1>4, <1>5
<1>14. \A u \in 0 .. m - 1 : Level1(X, gi, h, w, u) \in Int
  BY <1>5, <1>11
<1> QED
  BY <1>12, <1>13, <1>14

\* A level that gives nothing.
LEMMA LevelOfZero ==
  ASSUME NEW gi \in Nat \ {0}, NEW h \in Nat \ {0}, NEW w \in Nat \ {0}, NEW X, NEW u,
         \A ic \in 0 .. gi - 1, y \in 0 .. h - 1, x \in 0 .. w - 1 : X[Place4(u, gi, ic, h, y, w, x)] = 0
  PROVE  Level1(X, gi, h, w, u) = 0
<1>1. ASSUME NEW ic \in 0 .. gi - 1, NEW y \in 0 .. h - 1 PROVE Level3(X, gi, h, w, u, ic, y) = 0
  <2> DEFINE r == [x \in 0 .. w - 1 |-> X[Place4(u, gi, ic, h, y, w, x)]]
  <2>1. \A x \in 0 .. w - 1 : r[x] = 0
    OBVIOUS
  <2> HIDE DEF r
  <2>2. Total(r, w) = 0
    BY <2>1, TotalOfZero
  <2> QED BY <2>2 DEF Level3, r
<1>2. ASSUME NEW ic \in 0 .. gi - 1 PROVE Level2(X, gi, h, w, u, ic) = 0
  <2> DEFINE r == [y \in 0 .. h - 1 |-> Level3(X, gi, h, w, u, ic, y)]
  <2>1. \A y \in 0 .. h - 1 : r[y] = 0
    BY <1>1
  <2> HIDE DEF r
  <2>2. Total(r, h) = 0
    BY <2>1, TotalOfZero
  <2> QED BY <2>2 DEF Level2, r
<1> DEFINE r == [ic \in 0 .. gi - 1 |-> Level2(X, gi, h, w, u, ic)]
<1>4. \A ic \in 0 .. gi - 1 : r[ic] = 0
  BY <1>2
<1> HIDE DEF r
<1>5. Total(r, gi) = 0
  BY <1>4, TotalOfZero
<1> QED
  BY <1>5 DEF Level1, r

\* All that the image gives an element of the result.
GatheredRowOf(n, i, ic, y) == Total([x \in 0 .. n.in_shape[4] - 1 |-> GatheredFrom(n, i, ic, y, x)], n.in_shape[4])
GatheredOf(n, i, ic) == Total([y \in 0 .. n.in_shape[3] - 1 |-> GatheredRowOf(n, i, ic, y)], n.in_shape[3])
GatheredAll(n, i) == Total([ic \in 0 .. TransposeIn(n) - 1 |-> GatheredOf(n, i, ic)], TransposeIn(n))

\* The shares that land on an output add up to what the gather collects.
LEMMA SharesTotal ==
  ASSUME NEW n, Transposes(n), NEW q \in OutPlaces(n), NEW i, i = Index(n.out_shape, q)
  PROVE  Total(SharesOf(n, q), compute_size(n.in_shape)) = GatheredAll(n, i)
<1> DEFINE s == n.in_shape
           m == s[1] * n.groups
           gi == TransposeIn(n)
           h == s[3]
           w == s[4]
           N == compute_size(s)
           X == SharesOf(n, q)
           U == i[1] * n.groups + (i[2] \div TransposeOut(n))
           z == [u \in 0 .. m - 1 |-> Level1(X, gi, h, w, u)]
<1>1. /\ gi \in Nat \ {0} /\ h \in Nat \ {0} /\ w \in Nat \ {0} /\ s[1] \in Nat \ {0} /\ n.groups \in Nat \ {0}
      /\ s[2] = n.groups * gi
  BY TransposeHasNumbers DEF TransposeNumbers, Shape
<1>2. m \in Nat \ {0}
  <2> DEFINE a == s[1]
             b == n.groups
  <2>1. a \in Nat \ {0} /\ b \in Nat \ {0}
    BY <1>1
  <2> HIDE DEF a, b
  <2>2. a * b \in Nat \ {0}
    BY <2>1
  <2> QED BY <2>2 DEF a, b
<1>3. N = ((m * gi) * h) * w
  <2> DEFINE a == s[1]
             b == n.groups
  <2>1. N = a * (b * gi) * h * w
    BY <1>1 DEF compute_size
  <2>2. a \in Nat /\ b \in Nat /\ gi \in Nat
    BY <1>1
  <2> HIDE DEF a, b, gi
  <2>3. a * (b * gi) = (a * b) * gi
    BY <2>2
  <2> QED BY <2>1, <2>3 DEF a, b
<1>4. ASSUME NEW p \in 0 .. N - 1 PROVE X[p] = ShareOf(n, p, q) /\ X[p] \in Int
  BY SharesAreInt DEF SharesOf
<1>5. ASSUME NEW ic \in 0 .. gi - 1, NEW y \in 0 .. h - 1, NEW x \in 0 .. w - 1
      PROVE  /\ SourceOf(n, i, ic, y, x) = Place4(U, gi, ic, h, y, w, x) /\ U \in 0 .. m - 1
             /\ X[Place4(U, gi, ic, h, y, w, x)] = GatheredFrom(n, i, ic, y, x)
  <2> DEFINE p == SourceOf(n, i, ic, y, x)
  <2>1. AtSource(n, ic, y, x)
    BY DEF AtSource
  <2>2. p = Place4(U, gi, ic, h, y, w, x) /\ U \in 0 .. m - 1
    BY <2>1, SourcePlace DEF Place4
  <2>3. p \in 0 .. N - 1
    BY <2>1, SourceIs
  <2>4. ShareOf(n, p, q) = GatheredFrom(n, i, ic, y, x)
    BY <2>1, ShareInside
  <2> HIDE DEF p, X, U, N, m, gi, h, w
  <2>5. X[p] = GatheredFrom(n, i, ic, y, x)
    BY <1>4, <2>3, <2>4
  <2> QED BY <2>2, <2>5 DEF p
<1>6. U \in 0 .. m - 1
  <2>1. 0 \in 0 .. gi - 1 /\ 0 \in 0 .. h - 1 /\ 0 \in 0 .. w - 1
    BY <1>1
  <2> QED BY <1>5, <2>1
<1>7. ASSUME NEW u \in 0 .. m - 1, u # U, NEW ic \in 0 .. gi - 1, NEW y \in 0 .. h - 1, NEW x \in 0 .. w - 1
      PROVE  X[Place4(u, gi, ic, h, y, w, x)] = 0
  <2> DEFINE p == Place4(u, gi, ic, h, y, w, x)
  <2>1. p \in 0 .. N - 1
    <3>1. u * gi + ic \in 0 .. m * gi - 1
      <4> HIDE DEF m, gi
      <4>1. u \in Nat /\ u < m
        BY <1>2
      <4> QED BY <1>1, <1>2, <4>1, Below
    <3> DEFINE t == u * gi + ic
               a == m * gi
    <3>2. t \in Nat /\ t < a /\ a \in Nat
      <4>1. a \in Nat
        <5> HIDE DEF m, gi
        <5> QED BY <1>1, <1>2
      <4> HIDE DEF a
      <4>2. t \in 0 .. a - 1
        BY <3>1 DEF a
      <4> HIDE DEF t
      <4> QED BY <4>1, <4>2
    <3> HIDE DEF t, a, h
    <3>3. t * h + y \in 0 .. a * h - 1
      BY <1>1, <3>2, Below
    <3> DEFINE r == t * h + y
               b == a * h
    <3>4. r \in Nat /\ r < b /\ b \in Nat
      <4>1. b \in Nat
        BY <1>1, <3>2
      <4>2. r \in 0 .. b - 1
        BY <3>3
      <4> HIDE DEF r, b
      <4> QED BY <4>1, <4>2
    <3> HIDE DEF r, b, w
    <3>5. r * w + x \in 0 .. b * w - 1
      BY <1>1, <3>4, Below
    <3>6. p = r * w + x /\ N = b * w
      BY <1>3 DEF r, b, t, a, Place4
    <3> HIDE DEF p, N
    <3> QED BY <3>5, <3>6
  <2>2. ~GroupsMeet(n, p, q)
    <3> SUFFICES ASSUME GroupsMeet(n, p, q) PROVE FALSE
      OBVIOUS
    <3>1. PICK a, b, c : AtSource(n, a, b, c) /\ p = SourceOf(n, i, a, b, c)
      BY <2>1, FromSource
    <3>2. a \in 0 .. gi - 1 /\ b \in 0 .. h - 1 /\ c \in 0 .. w - 1
      BY <3>1 DEF AtSource
    <3>3. p = Place4(U, gi, a, h, b, w, c)
      BY <1>5, <3>1, <3>2
    <3>4. u \in Nat /\ U \in Nat
      BY <1>2, <1>6
    <3> HIDE DEF U, gi, h, w
    <3>5. u = U
      BY <1>1, <3>2, <3>3, <3>4, Place4Meets
    <3> QED BY <1>7, <3>5
  <2>3. ShareOf(n, p, q) = 0
    BY <2>1, <2>2, ShareOutside
  <2> HIDE DEF p, X, N
  <2> QED BY <1>4, <2>1, <2>3 DEF p
<1> HIDE DEF X, U, N, m, gi, h, w
<1>8. Total(X, N) = Total(z, m) /\ \A u \in 0 .. m - 1 : Level1(X, gi, h, w, u) \in Int
  <2>1. \A p \in 0 .. ((m * gi) * h) * w - 1 : X[p] \in Int
    BY <1>3, <1>4
  <2>2. /\ Total(X, ((m * gi) * h) * w) = Total([u \in 0 .. m - 1 |-> Level1(X, gi, h, w, u)], m)
        /\ \A u \in 0 .. m - 1 : Level1(X, gi, h, w, u) \in Int
    BY <1>1, <1>2, <2>1, TotalOfLevels
  <2> QED BY <1>3, <2>2
<1>9. ASSUME NEW u \in 0 .. m - 1, u # U PROVE z[u] = 0
  <2>1. Level1(X, gi, h, w, u) = 0
    BY <1>1, <1>7, <1>9, LevelOfZero
  <2> QED BY <2>1
<1>10. z[U] = Level1(X, gi, h, w, U) /\ z[U] \in Int
  BY <1>6, <1>8
<1> HIDE DEF z
<1>11. Total(z, m) = z[U]
  BY <1>2, <1>6, <1>9, <1>10, TotalOnly
<1>12. ASSUME NEW ic \in 0 .. gi - 1, NEW y \in 0 .. h - 1 PROVE Level3(X, gi, h, w, U, ic, y) = GatheredRowOf(n, i, ic, y)
  <2>1. [x \in 0 .. w - 1 |-> X[Place4(U, gi, ic, h, y, w, x)]] = [x \in 0 .. w - 1 |-> GatheredFrom(n, i, ic, y, x)]
    BY <1>5
  <2> QED BY <2>1 DEF Level3, GatheredRowOf, w, s
<1>13. ASSUME NEW ic \in 0 .. gi - 1 PROVE Level2(X, gi, h, w, U, ic) = GatheredOf(n, i, ic)
  <2>1. [y \in 0 .. h - 1 |-> Level3(X, gi, h, w, U, ic, y)] = [y \in 0 .. h - 1 |-> GatheredRowOf(n, i, ic, y)]
    BY <1>12
  <2> QED BY <2>1 DEF Level2, GatheredOf, h, s
<1>14. Level1(X, gi, h, w, U) = GatheredAll(n, i)
  <2>1. [ic \in 0 .. gi - 1 |-> Level2(X, gi, h, w, U, ic)] = [ic \in 0 .. gi - 1 |-> GatheredOf(n, i, ic)]
    BY <1>13
  <2> QED BY <2>1 DEF Level1, GatheredAll, gi
<1> QED
  BY <1>8, <1>10, <1>11, <1>14 DEF X, N, s

\* Scattering is gathering.
LEMMA TransposeGathers ==
  ASSUME NEW n, Transposes(n)
  PROVE  conv2d_transpose(n) = [q \in OutPlaces(n) |-> Activated(GatheredAll(n, Index(n.out_shape, q)), n)]
<1> DEFINE N == compute_size(n.in_shape)
           A(q) == Activated(Total(SharesOf(n, q), N), n)
           B(q) == Activated(GatheredAll(n, Index(n.out_shape, q)), n)
<1>1. N \in Nat \ {0}
  <2> DEFINE a == n.in_shape[1]
             b == n.in_shape[2]
             c == n.in_shape[3]
             d == n.in_shape[4]
  <2>1. a \in Nat \ {0} /\ b \in Nat \ {0} /\ c \in Nat \ {0} /\ d \in Nat \ {0}
    BY TransposeHasNumbers DEF TransposeNumbers, Shape
  <2>2. N = a * b * c * d
    BY DEF compute_size
  <2> HIDE DEF a, b, c, d, N
  <2>3. a * b \in Nat \ {0}
    BY <2>1
  <2> DEFINE ab == a * b
  <2> HIDE DEF ab
  <2>4. ab * c \in Nat \ {0}
    BY <2>1, <2>3 DEF ab
  <2> DEFINE abc == ab * c
  <2> HIDE DEF abc
  <2>5. abc * d \in Nat \ {0}
    BY <2>1, <2>4 DEF abc
  <2> QED BY <2>2, <2>5 DEF ab, abc
<1>2. conv2d_transpose(n) = [q \in OutPlaces(n) |-> A(q)]
  BY <1>1, SharesAreInt, ScatterSums
<1>3. \A q \in OutPlaces(n) : A(q) = B(q)
  BY SharesTotal
<1>4. [q \in OutPlaces(n) |-> Activated(GatheredAll(n, Index(n.out_shape, q)), n)] = [q \in OutPlaces(n) |-> B(q)]
  OBVIOUS
<1> HIDE DEF A, B
<1>5. [q \in OutPlaces(n) |-> A(q)] = [q \in OutPlaces(n) |-> B(q)]
  BY <1>3
<1> QED
  BY <1>2, <1>4, <1>5

\* Every program's transposed convolution is the gather the reference states.
LEMMA ScatterHolds == ProgramInv => ScatterIsGather
<1> SUFFICES ASSUME ProgramInv, Ended(<<"conv2d_transpose">>) PROVE ScatterIsGather
  BY DEF ScatterIsGather
<1>1. Finished /\ Ops(program) = <<"conv2d_transpose">> /\ program \in Programs
  BY DEF Ended, ProgramInv
<1>2. The = program[1] /\ memory = conv2d_transpose(program[1])
  BY <1>1, EndOfOne DEF Makes
<1>3. Transposes(The) /\ memory = conv2d_transpose(The)
  BY <1>1, <1>2, SumsAssumption
<1>4. memory = Tensor(The.out_shape, LAMBDA i : Activated(GatheredAll(The, i), The))
  <2> DEFINE n == The
  <2>1. Transposes(n) /\ memory = conv2d_transpose(n)
    BY <1>3
  <2> HIDE DEF n
  <2>2. conv2d_transpose(n) = [q \in OutPlaces(n) |-> Activated(GatheredAll(n, Index(n.out_shape, q)), n)]
    BY <2>1, TransposeGathers
  <2>3. memory = [q \in OutPlaces(n) |-> Activated(GatheredAll(n, Index(n.out_shape, q)), n)]
    BY <2>1, <2>2
  <2> QED BY <2>3 DEF n, OutPlaces, Tensor
<1> QED
  BY <1>4 DEF ScatterIsGather, GatheredAll, GatheredOf, GatheredRowOf, GatheredFrom, GatheredRows, GatheredRow, Gathered,
     GatherX, GatherW, TransposeIn, TransposeOut, SumOver, Total

\* The memory a feature map takes, computed from groups and row lengths, is a number of
\* rows for each four, two or one of its channels.
LEMMA MapBytesIs ==
  ASSUME NEW n, n.in_shape \in [1 .. 4 -> Nat \ {0}]
  PROVE  KpuSize(n) = MapBytes(n.in_shape)
<1> DEFINE b == n.in_shape[1]
           c == n.in_shape[2]
           h == n.in_shape[3]
           w == n.in_shape[4]
           l == get_kpu_row_layout(w)
           r == l.row_len
           line == IF c < l.groups THEN c ELSE l.groups
           e == (c + line - 1) \div line
           k == IF w <= 16 THEN (c + 3) \div 4 ELSE IF w <= 32 THEN (c + 1) \div 2 ELSE c * ((w + 63) \div 64)
<1>1. b \in Nat /\ c \in Nat \ {0} /\ h \in Nat /\ w \in Nat
  OBVIOUS
<1>2. KpuSize(n) = b * ((r * h * e) * 64)
  BY DEF KpuSize, get_kpu_bytes, get_kpu_rows, LineBytes
<1>3. MapBytes(n.in_shape) = b * h * 64 * k
  BY DEF MapBytes
<1> HIDE DEF b, c, h, w
<1>4. r \in Nat /\ e \in Nat /\ r * e = k
  <2>1. CASE w <= 16
    <3>1. l.groups = 4 /\ r = 1 /\ k = (c + 3) \div 4
      BY <2>1 DEF get_kpu_row_layout
    <3> HIDE DEF l, r, k
    <3>2. e \in Nat /\ e = (c + 3) \div 4
      <4>1. CASE c >= 4
        BY <1>1, <3>1, <4>1
      <4>2. CASE c \in {1, 2, 3}
        BY <3>1, <4>2
      <4> QED BY <1>1, <4>1, <4>2
    <3> HIDE DEF e
    <3> QED BY <3>1, <3>2
  <2>2. CASE ~(w <= 16) /\ w <= 32
    <3>1. l.groups = 2 /\ r = 1 /\ k = (c + 1) \div 2
      BY <2>2 DEF get_kpu_row_layout
    <3> HIDE DEF l, r, k
    <3>2. e \in Nat /\ e = (c + 1) \div 2
      <4>1. CASE c >= 2
        BY <1>1, <3>1, <4>1
      <4>2. CASE c = 1
        BY <3>1, <4>2
      <4> QED BY <1>1, <4>1, <4>2
    <3> HIDE DEF e
    <3> QED BY <3>1, <3>2
  <2>3. CASE ~(w <= 16) /\ ~(w <= 32)
    <3> DEFINE q == (w + 63) \div 64
    <3>1. l.groups = 1 /\ r = q /\ k = c * q
      BY <2>3 DEF get_kpu_row_layout
    <3>2. q \in Nat
      BY <1>1
    <3> HIDE DEF l, r, k, q
    <3>3. e = c
      <4>1. ~(c < 1) /\ line = 1
        BY <1>1, <3>1
      <4> HIDE DEF line
      <4> QED BY <1>1, <4>1
    <3> HIDE DEF e
    <3> QED BY <1>1, <3>1, <3>2, <3>3
  <2> QED BY <2>1, <2>2, <2>3
<1> HIDE DEF r, e, k
<1>5. b * ((r * h * e) * 64) = b * h * 64 * (r * e)
  BY <1>1, <1>4
<1> QED
  BY <1>2, <1>3, <1>4, <1>5

\* A second node finds what the first was compiled to leave.
LEMMA PairFinds ==
  ASSUME NEW p \in Programs, Len(p) = 2, NEW x, Makes(p[1].op, p[1], x)
  PROVE  DOMAIN x = 0 .. p[2].reads - 1
<1> DEFINE m == p[1]
           n == p[2]
<1>1. n.reads = Described(n) /\ Ops(p) = <<m.op, n.op>> /\ Ops(p) \in PairOps
  BY ReadsAssumption, TwoOps
<1>2. \E a, b : Ops(p) = <<a, b>> /\ m.op = a /\ n.op = b
  BY <1>1
<1>3. CASE Ops(p) = <<"kpu_upload", "kpu_download">>
  <2>1. m.op = "kpu_upload" /\ n.op = "kpu_download"
    BY <1>3, OpsNamed
  <2>2. n.in_shape = m.in_shape /\ x = kpu_upload(m)
    BY <1>3, <2>1, ProgramsAssumption DEF Makes
  <2>3. n.reads = KpuSize(m)
    <3>1. n.reads = MapBytes(m.in_shape)
      BY <1>1, <2>1, <2>2 DEF Described
    <3>2. m.in_shape \in [1 .. 4 -> Nat \ {0}]
      BY <1>3, ProgramsAssumption
    <3> HIDE DEF m, n
    <3> QED BY <3>1, <3>2, MapBytesIs
  <2>4. DOMAIN kpu_upload(m) = 0 .. KpuSize(m) - 1
    BY DEF kpu_upload
  <2> QED BY <2>2, <2>3, <2>4
<1>4. CASE Ops(p) = <<"dequantize", "quantize">>
  <2>1. m.op = "dequantize" /\ n.op = "quantize"
    BY <1>4, OpsNamed
  <2>2. n.count = m.count /\ x = riscv_dequantize(m)
    BY <1>4, <2>1, ProgramsAssumption DEF Makes
  <2>3. n.reads = m.count
    BY <1>1, <2>1, <2>2 DEF Described
  <2>4. DOMAIN riscv_dequantize(m) = 0 .. m.count - 1
    BY DEF riscv_dequantize
  <2> QED BY <2>2, <2>3, <2>4
<1>5. n.op \in {"reduce", "strided_slice"} => n.reads = compute_size(n.in_shape)
  BY <1>1 DEF Described
<1>6. CASE Ops(p) = <<"reduce", "reduce">>
  <2>1. m.op = "reduce" /\ n.op = "reduce"
    BY <1>6, OpsNamed
  <2>2. n.in_shape = m.out_shape /\ x = reduce(m)
    BY <1>6, <2>1, MovesAssumption DEF Makes, Reductions
  <2>3. DOMAIN reduce(m) = 0 .. compute_size(m.out_shape) - 1
    BY DEF reduce
  <2> QED BY <1>5, <2>1, <2>2, <2>3
<1>7. CASE Ops(p) = <<"pad", "strided_slice">>
  <2>1. m.op = "pad" /\ n.op = "strided_slice"
    BY <1>7, OpsNamed
  <2>2. n.in_shape = PadShape(m) /\ x = pad(m)
    BY <1>7, <2>1, MovesAssumption DEF Makes, Unpads
  <2>3. DOMAIN pad(m) = 0 .. compute_size(PadShape(m)) - 1
    BY DEF pad, Tensor
  <2> QED BY <1>5, <2>1, <2>2, <2>3
<1>8. CASE Ops(p) = <<"strided_slice", "strided_slice">>
  <2>1. m.op = "strided_slice" /\ n.op = "strided_slice"
    BY <1>8, OpsNamed
  <2>2. Reverses(m, n) /\ x = strided_slice(m)
    BY <1>8, <2>1, MovesAssumption DEF Makes
  <2> DEFINE s == m.in_shape
  <2>3. \A k \in 1 .. 4 : SliceSteps(m, k) = s[k]
    <3> TAKE k \in 1 .. 4
    <3>1. s \in Shapes /\ (\/ m.begin[k] = 0 /\ m.end[k] = s[k] /\ m.strides[k] = 1
                           \/ m.begin[k] = s[k] - 1 /\ m.end[k] = -1 /\ m.strides[k] = -1)
      BY <2>2 DEF Reverses, IsTensor
    <3>2. s[k] \in Nat
      BY <3>1 DEF Shapes
    <3>3. CASE m.begin[k] = 0 /\ m.end[k] = s[k] /\ m.strides[k] = 1
      <4> DEFINE c == s[k]
      <4>1. m.in_shape[k] \in Nat /\ c \in Nat /\ c <= m.in_shape[k] /\ m.begin[k] \in Nat /\ m.end[k] = m.begin[k] + c /\ m.strides[k] = 1
        BY <3>2, <3>3
      <4> HIDE DEF c
      <4>2. SliceSteps(m, k) = c
        BY <4>1, StepsForward
      <4> QED BY <4>2 DEF c
    <3>4. CASE m.begin[k] = s[k] - 1 /\ m.end[k] = -1 /\ m.strides[k] = -1
      BY <3>2, <3>4, StepsBackward
    <3> QED BY <3>1, <3>3, <3>4
  <2>4. DOMAIN strided_slice(m) = 0 .. compute_size(SliceShape(m)) - 1
    BY DEF strided_slice, Tensor
  <2>5. compute_size(SliceShape(m)) = compute_size(s)
    <3>1. SliceShape(m)[1] = s[1] /\ SliceShape(m)[2] = s[2] /\ SliceShape(m)[3] = s[3] /\ SliceShape(m)[4] = s[4]
      BY <2>3 DEF SliceShape
    <3> QED BY <3>1 DEF compute_size
  <2>6. n.in_shape = s
    BY <2>2 DEF Reverses
  <2> QED BY <1>5, <2>1, <2>2, <2>4, <2>5, <2>6
<1>9. CASE Ops(p) = <<"concat", "strided_slice">>
  <2>1. m.op = "concat" /\ n.op = "strided_slice"
    BY <1>9, OpsNamed
  <2>2. Unjoins(m, n) /\ x = concat(m)
    BY <1>9, <2>1, MovesAssumption DEF Makes
  <2> DEFINE row == Before(m, Len(m.dims) + 1)
             o == m.outer_size
  <2>3. n.in_shape = <<1, 1, o, row>> /\ o \in Nat
    BY <2>2 DEF Unjoins
  <2>4. DOMAIN concat(m) = 0 .. (o * row - 1)
    BY DEF concat
  <2> HIDE DEF o, row
  <2>5. compute_size(n.in_shape) = o * row
    <3>1. 1 * 1 * o = o
      BY <2>3
    <3>2. compute_size(n.in_shape) = 1 * 1 * o * row
      BY <2>3 DEF compute_size
    <3> QED BY <3>1, <3>2
  <2> QED BY <1>5, <2>1, <2>2, <2>4, <2>5
<1>10. CASE Ops(p) = <<"resize_nearest_neighbor", "strided_slice">>
  <2>1. m.op = "resize_nearest_neighbor" /\ n.op = "strided_slice"
    BY <1>10, OpsNamed
  <2>2. n.in_shape = <<m.in_shape[1], m.in_shape[2], m.out_h, m.out_w>> /\ x = resize_nearest_neighbor(m)
    BY <1>10, <2>1, MovesAssumption DEF Makes, Shrunk
  <2>3. DOMAIN resize_nearest_neighbor(m) = 0 .. compute_size(<<m.in_shape[1], m.in_shape[2], m.out_h, m.out_w>>) - 1
    BY DEF resize_nearest_neighbor, Tensor
  <2> QED BY <1>5, <2>1, <2>2, <2>3
<1>11. CASE Ops(p) = <<"resize_bilinear", "strided_slice">>
  <2>1. m.op = "resize_bilinear" /\ n.op = "strided_slice"
    BY <1>11, OpsNamed
  <2>2. n.in_shape = <<m.in_shape[1], m.in_shape[2], m.out_h, m.out_w>> /\ x = resize_bilinear(m)
    BY <1>11, <2>1, MovesAssumption DEF Makes, Shrunk
  <2>3. DOMAIN resize_bilinear(m) = 0 .. compute_size(<<m.in_shape[1], m.in_shape[2], m.out_h, m.out_w>>) - 1
    BY DEF resize_bilinear, Tensor
  <2> QED BY <1>5, <2>1, <2>2, <2>3
<1> HIDE DEF m, n
<1> QED
  BY <1>1, <1>3, <1>4, <1>6, <1>7, <1>8, <1>9, <1>10, <1>11 DEF PairOps

\* What an NHWC node leaves is of the size the transposition back was compiled for.
LEMMA NhwcFills ==
  ASSUME NEW c, c.op \in NhwcOps, NEW n, NEW y, Makes(c.op, n, y), n.out_channels = c.out_channels, n.in_shape = c.in_shape
  PROVE  DOMAIN y = 0 .. compute_size(NhwcShape(n, Channels(c))) - 1
<1>1. CASE c.op = "cpu_conv2d"
  <2>1. y = cpu_conv2d(n) /\ Channels(c) = n.out_channels
    BY <1>1 DEF Makes, Channels, Deepwise
  <2>2. DOMAIN cpu_conv2d(n) = 0 .. compute_size(NhwcShape(n, n.out_channels)) - 1
    BY DEF cpu_conv2d, NhwcConvolved, Tensor
  <2> QED BY <2>1, <2>2
<1>2. CASE c.op = "cpu_quantized_conv2d"
  <2>1. y = cpu_quantized_conv2d(n) /\ Channels(c) = n.out_channels
    BY <1>2 DEF Makes, Channels, Deepwise
  <2>2. DOMAIN cpu_quantized_conv2d(n) = 0 .. compute_size(NhwcShape(n, n.out_channels)) - 1
    BY DEF cpu_quantized_conv2d, NhwcConvolved, Tensor
  <2> QED BY <2>1, <2>2
<1>3. CASE c.op = "cpu_depthwise_conv2d"
  <2>1. y = cpu_depthwise_conv2d(n) /\ Channels(c) = n.in_shape[4]
    BY <1>3 DEF Makes, Channels, Deepwise
  <2>2. DOMAIN cpu_depthwise_conv2d(n) = 0 .. compute_size(NhwcShape(n, n.in_shape[4])) - 1
    BY DEF cpu_depthwise_conv2d, NhwcDepthwise, Tensor
  <2> QED BY <2>1, <2>2
<1>4. CASE c.op = "cpu_quantized_depthwise_conv2d"
  <2>1. y = cpu_quantized_depthwise_conv2d(n) /\ Channels(c) = n.in_shape[4]
    BY <1>4 DEF Makes, Channels, Deepwise
  <2>2. DOMAIN cpu_quantized_depthwise_conv2d(n) = 0 .. compute_size(NhwcShape(n, n.in_shape[4])) - 1
    BY DEF cpu_quantized_depthwise_conv2d, NhwcDepthwise, Tensor
  <2> QED BY <2>1, <2>2
<1>5. CASE c.op = "cpu_reduce_window2d"
  <2>1. y = cpu_reduce_window2d(n) /\ Channels(c) = n.in_shape[4]
    BY <1>5 DEF Makes, Channels, Deepwise
  <2>2. DOMAIN cpu_reduce_window2d(n) = 0 .. compute_size(NhwcShape(n, n.in_shape[4])) - 1
    BY DEF cpu_reduce_window2d, Tensor
  <2> QED BY <2>1, <2>2
<1> QED
  BY <1>1, <1>2, <1>3, <1>4, <1>5 DEF NhwcOps, Deepwise

\* The NHWC node finds the image turned.
LEMMA ImageFound ==
  ASSUME NEW m, NEW c, NEW d, Relays(m, c, d)
  PROVE  DOMAIN transpose(m) = 0 .. compute_size(c.in_shape) - 1
<1> DEFINE s == c.in_shape
<1>1. s = <<m.in_shape[1], m.in_shape[3], m.in_shape[4], m.in_shape[2]>> /\ m.perm = <<1, 3, 4, 2>>
  BY DEF Relays
<1>2. DOMAIN transpose(m) = 0 .. compute_size(TransposeShape(m)) - 1
  BY DEF transpose, Tensor
<1>3. /\ TransposeShape(m)[1] = s[1] /\ TransposeShape(m)[2] = s[2]
      /\ TransposeShape(m)[3] = s[3] /\ TransposeShape(m)[4] = s[4]
  BY <1>1 DEF TransposeShape
<1>4. compute_size(TransposeShape(m)) = compute_size(s)
  BY <1>3 DEF compute_size
<1> QED
  BY <1>2, <1>4

\* And the node after it what it left.
LEMMA RelayFinds ==
  ASSUME NEW m, NEW c, NEW d, Relays(m, c, d), NEW x, x = transpose(m), NEW y, Makes(c.op, [c EXCEPT !.input = x], y)
  PROVE  DOMAIN x = 0 .. compute_size(c.in_shape) - 1 /\ DOMAIN y = 0 .. compute_size(d.in_shape) - 1
<1> DEFINE n == [c EXCEPT !.input = x]
           s == c.in_shape
           C == Channels(c)
           a == PlacesH(n, s[2])
           b == PlacesW(n, s[3])
           e == OutH(n, s[2])
           f == OutW(n, s[3])
<1>1. Changed(c, n)
  BY InputChanged DEF Relays
<1>2. /\ c.in_shape = <<m.in_shape[1], m.in_shape[3], m.in_shape[4], m.in_shape[2]>> /\ m.in_shape \in Shapes
      /\ m.perm = <<1, 3, 4, 2>> /\ c.op \in NhwcOps /\ c.out_channels \in Nat \ {0} /\ Filtered(c, s[2], s[3])
  BY DEF Relays
<1>3. DOMAIN x = 0 .. compute_size(s) - 1
  BY ImageFound
<1>4. s[1] \in Nat \ {0} /\ s[2] \in Nat \ {0} /\ s[3] \in Nat \ {0} /\ s[4] \in Nat \ {0} /\ C \in Nat \ {0}
  BY <1>2 DEF Shapes, Channels
<1>5. d.in_shape = <<s[1], a, b, C>>
  BY <1>1 DEF Relays, PlacesH, PlacesW, Changed, SameFilter
<1>6. DOMAIN y = 0 .. compute_size(<<s[1], e, f, C>>) - 1
  <2>1. n.out_channels = c.out_channels /\ n.in_shape = s
    BY <1>1 DEF Changed
  <2>2. NhwcShape(n, C) = <<s[1], e, f, C>>
    BY <2>1 DEF NhwcShape
  <2>3. Makes(c.op, n, y)
    OBVIOUS
  <2> HIDE DEF n, C, e, f
  <2>4. DOMAIN y = 0 .. compute_size(NhwcShape(n, Channels(c))) - 1
    BY <1>2, <2>1, <2>3, NhwcFills
  <2> QED BY <2>2, <2>4 DEF C
<1>7. Filtered(n, s[2], s[3])
  BY <1>1, <1>2 DEF Changed, SameFilter, Filtered
<1>8. Places(n, s[2], s[3]) \/ NoPlaces(n, s[2], s[3])
  BY <1>4, <1>7, PlacesAgree
<1>9. CASE Places(n, s[2], s[3])
  <2>1. a = e /\ b = f
    BY <1>9 DEF Places
  <2> QED BY <1>3, <1>5, <1>6, <2>1
<1>10. CASE NoPlaces(n, s[2], s[3])
  <2>1. /\ e \in Int /\ f \in Int /\ e * f <= 0 /\ a \in Int /\ b \in Int /\ a * b <= 0
    BY <1>10 DEF NoPlaces
  <2> DEFINE k == compute_size(<<s[1], e, f, C>>)
             l == compute_size(<<s[1], a, b, C>>)
  <2>2. k \in Int /\ k <= 0 /\ l \in Int /\ l <= 0
    <3> HIDE DEF a, b, e, f, C, s
    <3>1. s[1] \in Nat /\ C \in Nat
      BY <1>4
    <3> QED BY <2>1, <3>1, NoElements
  <2>3. DOMAIN y = 0 .. k - 1 /\ compute_size(d.in_shape) = l
    BY <1>5, <1>6
  <2> HIDE DEF k, l
  <2>4. 0 .. k - 1 = {} /\ 0 .. l - 1 = {}
    BY <2>2
  <2> QED BY <1>3, <2>3, <2>4
<1> QED
  BY <1>8, <1>9, <1>10

\* Every node finds the tensor its options describe.
LEMMA ProgramTypeHolds == ProgramInv => ProgramTypeOK
<1> SUFFICES ASSUME ProgramInv, pc \in 2 .. Len(program) PROVE DOMAIN memory = 0 .. program[pc].reads - 1
  BY DEF ProgramTypeOK, ProgramInv
<1>1. program \in Programs /\ Len(program) \in 0 .. 3
  BY ReadsAssumption DEF ProgramInv
<1>2. \A k \in 2 .. Len(program) : program[k].reads = Described(program[k])
  BY <1>1, ReadsAssumption
<1>3. CASE Len(program) = 2
  <2>1. pc = 2 /\ Makes(program[1].op, program[1], memory)
    BY <1>3 DEF ProgramInv
  <2> QED BY <1>1, <1>3, <2>1, PairFinds
<1>4. CASE Len(program) = 3
  <2> DEFINE m == program[1]
             c == program[2]
             d == program[3]
  <2>1. Relays(m, c, d)
    BY <1>1, <1>4, SumsAssumption
  <2>2. m.op = "transpose" /\ c.op \in NhwcOps /\ d.op = "transpose"
    BY <2>1 DEF Relays
  <2>3. c.reads = compute_size(c.in_shape) /\ d.reads = compute_size(d.in_shape)
    BY <1>2, <1>4, <2>2 DEF Described, NhwcOps, Deepwise
  <2>4. CASE pc = 2
    <3>1. memory = transpose(m)
      BY <2>2, <2>4 DEF ProgramInv, Makes
    <3>2. DOMAIN transpose(m) = 0 .. compute_size(c.in_shape) - 1
      BY <2>1, ImageFound
    <3> QED BY <2>3, <2>4, <3>1, <3>2
  <2>5. CASE pc = 3
    <3>1. PICK x : Makes(m.op, m, x) /\ Makes(c.op, [c EXCEPT !.input = x], memory)
      BY <2>5 DEF ProgramInv, MakesOfTwo
    <3>2. x = transpose(m)
      BY <2>2, <3>1 DEF Makes
    <3> DEFINE z == memory
    <3>3. Makes(c.op, [c EXCEPT !.input = x], z)
      BY <3>1
    <3> HIDE DEF m, c, d, z
    <3>4. DOMAIN z = 0 .. compute_size(d.in_shape) - 1
      BY <2>1, <3>2, <3>3, RelayFinds
    <3> QED BY <2>3, <2>5, <3>4 DEF d, z
  <2> QED BY <1>4, <2>4, <2>5
<1> QED
  BY <1>1, <1>3, <1>4

\* The kernels that sum products over a window or a row agree with their definitions
\* and with each other, and every node finds the tensor it was compiled for.
THEOREM SumsAgreeCorrect == ProgramSpec => []SumsAgree
<1>1. ProgramInv => SumsAgree
  BY ProgramTypeHolds, ConvHolds, ScatterHolds, LayoutsHold, MatmulHolds DEF SumsAgree
<1> QED
  BY <1>1, ProgramInvAlways, PTL
=============================================================================
