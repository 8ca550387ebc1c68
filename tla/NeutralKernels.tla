--------------------------- MODULE NeutralKernels ---------------------------
(***************************************************************************)
(* The NCHW kernels of nncase (kernels/neutral/neutral_kernels.h and       *)
(* kernels/riscv/neutral_kernels.h).  Each operator takes a node, a record *)
(* of the options of its node body and of the memory it reads, and is the  *)
(* memory the kernel writes.  A float is taken as the number it stands for,*)
(* without rounding, but for the positions of a resize.                    *)
(***************************************************************************)
EXTENDS KernelUtils

Activated(v, n) == Clamp(v, n.fused_activation[1], n.fused_activation[2])
Requantized(v, n) == Byte(mul_and_carry_shift(v, n.output_mul, n.output_shift) + n.output_offset)

-----------------------------------------------------------------------------
(***************************************************************************)
(* Element by element.  Equal shapes take the flat loop, others follow the *)
(* output's index and fold it into each operand.                           *)
(***************************************************************************)
\* Fault: operands of equal size are taken for operands of equal shape.
SameSize(n) == compute_size(n.in_a_shape) = compute_size(n.in_b_shape)
SameShape(n) == n.in_a_shape = n.in_b_shape
Broadcast(n, Op(_, _)) ==
    IF SameShape(n)
    THEN [p \in 0..(compute_size(n.in_a_shape) - 1) |-> Op(n.input_a[p], n.input_b[p])]
    ELSE Tensor(n.out_shape, LAMBDA i :
           Op(n.input_a[offset(n.in_a_shape, get_reduced_offset(i, n.in_a_shape))],
              n.input_b[offset(n.in_b_shape, get_reduced_offset(i, n.in_b_shape))]))

binary(n) == Broadcast(n, LAMBDA a, b : Activated(Apply(n.binary_op, a, b), n))

quantized_binary(n) ==
    Broadcast(n, LAMBDA a, b :
      Requantized(Apply(n.binary_op,
        mul_and_carry_shift(a + n.input_a_offset, n.input_a_mul, n.input_a_shift),
        mul_and_carry_shift(b + n.input_b_offset, n.input_b_mul, n.input_b_shift)), n))

-----------------------------------------------------------------------------
(***************************************************************************)
(* Convolutions.  Channels come in groups: an output channel sees the      *)
(* input channels of its own group.                                        *)
(***************************************************************************)
OutH(n, size) == get_windowed_output_size(size, n.filter_h, n.stride_h, n.dilation_h, n.padding_h)
OutW(n, size) == get_windowed_output_size(size, n.filter_w, n.stride_w, n.dilation_w, n.padding_w)
OriginY(n, y) == y * n.stride_h - n.padding_h.before
OriginX(n, x) == x * n.stride_w - n.padding_w.before
TapsY(n, size, y) == Taps(size, n.filter_h, OriginY(n, y), n.dilation_h)
TapsX(n, size, x) == Taps(size, n.filter_w, OriginX(n, x), n.dilation_w)
AtY(n, y, ky) == OriginY(n, y) + n.dilation_h * ky
AtX(n, x, kx) == OriginX(n, x) + n.dilation_w * kx

ConvShape(n) == << n.in_shape[1], n.groups * (n.out_channels \div n.groups),
                   OutH(n, n.in_shape[3]), OutW(n, n.in_shape[4]) >>

Convolved(n, X(_), W(_), Finish(_)) ==
    LET s    == n.in_shape
        g_ic == s[2] \div n.groups
        g_oc == n.out_channels \div n.groups
        In(i, ic, ky, kx) ==
            X(n.input[offset(s, <<i[1], (i[2] \div g_oc) * g_ic + ic, AtY(n, i[3], ky), AtX(n, i[4], kx)>>)])
        Weight(i, ic, ky, kx) ==
            W(n.weights[((i[2] * g_ic + ic) * n.filter_h + ky) * n.filter_w + kx])
    IN  Tensor(ConvShape(n), LAMBDA i :
          Finish(n.bias[i[2]] + SumOver(g_ic, LAMBDA ic :
            OverTaps("add", 0, TapsY(n, s[3], i[3]), TapsX(n, s[4], i[4]), LAMBDA ky, kx :
              In(i, ic, ky, kx) * Weight(i, ic, ky, kx)))))

conv2d(n) == Convolved(n, LAMBDA x : x, LAMBDA w : w, LAMBDA v : Activated(v, n))
quantized_conv2d(n) ==
    Convolved(n, LAMBDA x : x + n.input_offset, LAMBDA w : w + n.filter_offset, LAMBDA v : Requantized(v, n))

OutChannel(n, group, oc) == group * (n.out_shape[2] \div n.groups) + oc

\* Each input element in turn adds its share to the outputs it reaches; the
\* bias is read and never added.
conv2d_transpose(n) ==
    LET s    == n.in_shape
        out  == n.out_shape
        g_ic == s[2] \div n.groups
        Reached(i) == (0..(out[2] \div n.groups - 1)) \X TapsY(n, out[3], i[3]) \X TapsX(n, out[4], i[4])
        Channel(i, c) == OutChannel(n, i[2] \div g_ic, c[1])
        Address(i, c) == offset(out, <<i[1], Channel(i, c), AtY(n, i[3], c[2]), AtX(n, i[4], c[3])>>)
        Weight(i, c) == n.weights[((Channel(i, c) * g_ic + (i[2] % g_ic)) * n.filter_h + c[2]) * n.filter_w + c[3]]
        Scatter(acc, p) ==
            LET i  == Index(s, p)
                To == [c \in Reached(i) |-> Address(i, c)]
            IN  [q \in DOMAIN acc |->
                  IF \E c \in Reached(i) : To[c] = q
                  THEN acc[q] + n.input[p] * Weight(i, CHOOSE c \in Reached(i) : To[c] = q)
                  ELSE acc[q]]
        sums == Loop(0, compute_size(s), [q \in 0..(compute_size(out) - 1) |-> 0], Scatter)
    IN  [q \in DOMAIN sums |-> Activated(sums[q], n)]

Depth(n) == n.a_cols

Product(n, A(_), B(_), Finish(_)) ==
    [p \in 0..(n.a_rows * n.b_cols - 1) |->
       LET oy == p \div n.b_cols
           ox == p % n.b_cols
       IN  Finish(n.bias[ox] + SumOver(Depth(n), LAMBDA i :
             A(n.input_a[oy * n.a_cols + i]) * B(n.input_b[i * n.b_cols + ox])))]

matmul(n) == Product(n, LAMBDA a : a, LAMBDA b : b, LAMBDA v : Activated(v, n))
quantized_matmul(n) ==
    Product(n, LAMBDA a : a + n.input_a_offset, LAMBDA b : b + n.input_b_offset, LAMBDA v : Requantized(v, n))

-----------------------------------------------------------------------------
(***************************************************************************)
(* Reductions.  Window and init_value are the reducer's.  The mean is a    *)
(* fraction, of the sum and the number of taps on the image.               *)
(***************************************************************************)
StartsWith(n) == n.init_value
reduce(n) ==
    [q \in 0..(compute_size(n.out_shape) - 1) |->
       Loop(0, compute_size(n.in_shape), StartsWith(n), LAMBDA acc, p :
         IF offset(n.out_shape, get_reduced_offset(Index(n.in_shape, p), n.out_shape)) = q
         THEN Apply(n.reduce_op, acc, n.input[p]) ELSE acc)]

Averaged(sum, count, n) ==
    LET low == n.fused_activation[1]
        high == n.fused_activation[2]
    IN  IF sum < low * count THEN <<low, 1>> ELSE IF high * count < sum THEN <<high, 1>> ELSE <<sum, count>>
Reduced(value, count, n) == IF n.mean THEN Averaged(value, count, n) ELSE Activated(value, n)

WindowShape(n) == << n.in_shape[1], n.in_shape[2], OutH(n, n.in_shape[3]), OutW(n, n.in_shape[4]) >>
reduce_window2d(n) ==
    LET s == n.in_shape
    IN  Tensor(WindowShape(n), LAMBDA i :
          LET rows  == TapsY(n, s[3], i[3])
              cols  == TapsX(n, s[4], i[4])
              value == OverTaps(n.reduce_op, n.init_value, rows, cols, LAMBDA ky, kx :
                         n.input[offset(s, <<i[1], i[2], AtY(n, i[3], ky), AtX(n, i[4], kx)>>)])
          IN  Reduced(value, Cardinality(rows) * Cardinality(cols), n))

-----------------------------------------------------------------------------
(***************************************************************************)
(* Moving elements.                                                        *)
(***************************************************************************)
\* How much of a row of the output the parts before the k-th fill.
Before(n, k) == SumOver(k - 1, LAMBDA j : n.inner_size * n.dims[j + 1])
concat(n) ==
    LET row == Before(n, Len(n.dims) + 1)
    IN  [p \in 0..(n.outer_size * row - 1) |->
           LET r == p % row
               k == CHOOSE j \in 1..Len(n.dims) : Before(n, j) <= r /\ r < Before(n, j + 1)
           IN  n.inputs[k][(p \div row) * n.inner_size * n.dims[k] + r - Before(n, k)]]

PadShape(n) == [k \in 1..4 |-> n.in_shape[k] + n.paddings[k].before + n.paddings[k].after]
OnBorder(n, i) == \E k \in 1..4 : i[k] < n.paddings[k].before \/ i[k] >= PadShape(n)[k] - n.paddings[k].after
pad(n) ==
    Tensor(PadShape(n), LAMBDA i :
      IF OnBorder(n, i) THEN n.pad_value
      ELSE n.input[offset(n.in_shape, [k \in 1..4 |-> i[k] - n.paddings[k].before])])

\* for (d = begin; stride > 0 ? d < end : d > end; d += stride)
SliceSteps(n, k) ==
    Cardinality({ j \in 0..n.in_shape[k] :
                    LET d == n.begin[k] + j * n.strides[k]
                    IN  IF n.strides[k] > 0 THEN d < n.end[k] ELSE d > n.end[k] })
SliceShape(n) == [k \in 1..4 |-> SliceSteps(n, k)]
strided_slice(n) ==
    Tensor(SliceShape(n), LAMBDA i :
      n.input[offset(n.in_shape, [k \in 1..4 |-> n.begin[k] + i[k] * n.strides[k]])])

\* perm counts axes from 1 here.
TransposeShape(n) == [k \in 1..4 |-> n.in_shape[n.perm[k]]]
transpose(n) ==
    Tensor(TransposeShape(n), LAMBDA o :
      n.input[offset(n.in_shape, [a \in 1..4 |-> o[CHOOSE k \in 1..4 : n.perm[k] = a]])])

-----------------------------------------------------------------------------
(***************************************************************************)
(* Resizing.  Scales and positions are floats: a fraction <<m, d>> with m  *)
(* of 24 bits and d a power of two.  A quotient and a product are rounded  *)
(* to the nearest, a tie to even.                                          *)
(***************************************************************************)
Bits24 == 2^24
Powers == {2^k : k \in 0..30}
Smallest(P(_)) == CHOOSE d \in Powers : P(d) /\ \A e \in Powers : e < d => ~P(e)
ToEven(a, b) ==
    LET q == a \div b
        r == a % b
    IN  IF 2 * r > b \/ (2 * r = b /\ q % 2 = 1) THEN q + 1 ELSE q
\* The denominator grows until the quotient is exact or has all its bits.
Ratio(a, b) ==
    LET d == Smallest(LAMBDA e : (a * e) % b = 0 \/ (a * e) \div b >= Bits24 \div 2)
    IN  <<ToEven(a * d, b), d>>
Times(k, x) ==
    LET c == Smallest(LAMBDA e : (k * x[1]) \div e < Bits24)
    IN  <<ToEven(k * x[1], c), x[2] \div c>>
Floor(x) == x[1] \div x[2]

resize_nearest_neighbor(n) ==
    LET s     == n.in_shape
        scale == <<Ratio(s[3], n.out_h), Ratio(s[4], n.out_w)>>
        At(o, axis) == Least2(Floor(Times(o, scale[axis])), s[axis + 2] - 1)
    IN  Tensor(<<s[1], s[2], n.out_h, n.out_w>>, LAMBDA i :
          n.input[offset(s, <<i[1], i[2], At(i[3], 1), At(i[4], 2)>>)])

Scale(in, out, align) == IF align /\ out > 1 THEN Ratio(in - 1, out - 1) ELSE Ratio(in, out)

\* The version for bytes, which drops the fraction of the result; the weights are
\* taken as exact, as they are for bytes and strides of Doublings (KernelPrograms).
resize_bilinear(n) ==
    LET s  == n.in_shape
        sy == Scale(s[3], n.out_h, n.align_corners)
        sx == Scale(s[4], n.out_w, n.align_corners)
    IN  Tensor(<<s[1], s[2], n.out_h, n.out_w>>, LAMBDA i :
          LET y  == Times(i[3], sy)
              x  == Times(i[4], sx)
              fy == y[1] % y[2]
              fx == x[1] % x[2]
              y1 == Least2(Floor(y) + 1, s[3] - 1)
              x1 == Least2(Floor(x) + 1, s[4] - 1)
              V(v, u) == n.input[offset(s, <<i[1], i[2], v, u>>)]
          IN  ( V(Floor(y), Floor(x)) * (y[2] - fy) * (x[2] - fx) + V(y1, Floor(x)) * fy * (x[2] - fx)
              + V(Floor(y), x1) * (y[2] - fy) * fx + V(y1, x1) * fy * fx ) \div (y[2] * x[2]))

-----------------------------------------------------------------------------
(***************************************************************************)
(* Quantization, as built for RISC-V.  A real value is counted in quarters:*)
(* an integer q stands for q / 4.  quantize rounds pairs to nearest even,  *)
(* and the last value of an odd count away from zero.                      *)
(***************************************************************************)
\* Fault: the fraction is dropped.
NearestDropped(q) == CDiv(q, 4)
NearestEven(q) == IF q % 4 > 2 \/ (q % 4 = 2 /\ (q \div 4) % 2 = 1) THEN q \div 4 + 1 ELSE q \div 4
RoundAway(q) == IF q >= 0 THEN (q + 2) \div 4 ELSE -((2 - q) \div 4)

riscv_quantize(n) ==
    [p \in 0..(n.count - 1) |->
       LET real == n.input[p] * n.scale + 4 * n.zero_point
       IN  Byte(IF n.count % 2 = 1 /\ p = n.count - 1 THEN RoundAway(real) ELSE NearestEven(real))]

riscv_dequantize(n) ==
    [p \in 0..(n.count - 1) |-> CDiv((n.input[p] - n.zero_point) * 4, n.scale)]
=============================================================================
