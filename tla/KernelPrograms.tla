--------------------------- MODULE KernelPrograms ---------------------------
(***************************************************************************)
(* A program of nncase is a sequence of nodes.  The interpreter runs them  *)
(* in order (runtime/interpreter.h declares it; its source is not part of  *)
(* the repository), each on the memory the one before it wrote.            *)
(***************************************************************************)
EXTENDS CpuKernels, KpuKernels, TLC

CONSTANT Programs \* the programs to run: sequences of nodes

\* The options of the nodes that the proofs are about, in the programs that Ops
\* names: an upload is given a tensor of the shape it is compiled for, the
\* download that follows names the same shape; a scale is one that quarters
\* stand for exactly, and both ends of a quantization share it.
Ops(p) == [k \in 1..Len(p) |-> p[k].op]
ASSUME ProgramsAssumption ==
    \A p \in Programs :
      /\ Len(p) \in Nat
      /\ Ops(p) = <<"kpu_upload", "kpu_download">> =>
           /\ p[1].in_shape \in [1..4 -> Nat \ {0}]
           /\ p[1].input = [k \in 0..(compute_size(p[1].in_shape) - 1) |-> p[1].input[k]]
           /\ {"input", "in_shape"} \subseteq DOMAIN p[2] /\ p[2].in_shape = p[1].in_shape
      /\ Ops(p) = <<"dequantize", "quantize">> =>
           /\ p[1].count \in Nat /\ p[1].scale \in {1, 2, 4} /\ p[1].zero_point \in Int
           /\ p[1].input \in [0..(p[1].count - 1) -> 0..255]
           /\ {"input", "count", "scale", "zero_point"} \subseteq DOMAIN p[2]
           /\ p[2].count = p[1].count /\ p[2].scale = p[1].scale /\ p[2].zero_point = p[1].zero_point
      /\ Ops(p) = <<"quantize">> =>
           /\ p[1].count \in Nat /\ p[1].scale \in Nat /\ p[1].zero_point \in Int
           /\ \A k \in 0..(p[1].count - 1) : p[1].input[k] \in Int

\* The same for the programs that move elements.  The extents of operands agree
\* or are 1; axes are reduced one after the other by an operation that leaves its
\* start alone; a slice takes back what the node before it made of a tensor.
Shapes == [1..4 -> Nat \ {0}]
IsTensor(shape, t) == shape \in Shapes /\ t = [k \in 0..(compute_size(shape) - 1) |-> t[k]]
Shrinks(from, to) == to \in Shapes /\ \A k \in 1..4 : to[k] \in {1, from[k]}
Slices(n, begin, end, strides) ==
    /\ {"input", "in_shape", "begin", "end", "strides"} \subseteq DOMAIN n
    /\ \A k \in 1..4 : n.begin[k] = begin[k] /\ n.end[k] = end[k] /\ n.strides[k] = strides[k]
Unstrided == <<1, 1, 1, 1>>

Operands(n) ==
    /\ {n.in_a_shape, n.in_b_shape, n.out_shape} \subseteq Shapes
    /\ \A k \in 1..4 :
         /\ n.in_a_shape[k] = n.in_b_shape[k] \/ n.in_a_shape[k] = 1 \/ n.in_b_shape[k] = 1
         /\ n.out_shape[k] = Most2(n.in_a_shape[k], n.in_b_shape[k])
Reductions(m, n) ==
    /\ m.in_shape \in Shapes /\ m.input \in [0..(compute_size(m.in_shape) - 1) -> Int]
    /\ Shrinks(m.in_shape, m.out_shape) /\ n.in_shape = m.out_shape /\ Shrinks(n.in_shape, n.out_shape)
    /\ n.reduce_op = m.reduce_op /\ n.reduce_op \in {"add", "mul", "min", "max"}
    /\ n.init_value = m.init_value /\ n.init_value \in Int
    /\ Apply(n.reduce_op, n.init_value, n.init_value) = n.init_value
    /\ {"input", "in_shape", "out_shape", "reduce_op", "init_value"} \subseteq DOMAIN n

Unpads(m, n) ==
    /\ IsTensor(m.in_shape, m.input) /\ n.in_shape = PadShape(m)
    /\ \A k \in 1..4 : {m.paddings[k].before, m.paddings[k].after} \subseteq Nat
    /\ Slices(n, [k \in 1..4 |-> m.paddings[k].before], [k \in 1..4 |-> m.paddings[k].before + m.in_shape[k]], Unstrided)
\* An axis is taken as it is, or backwards.
Reverses(m, n) ==
    /\ IsTensor(m.in_shape, m.input) /\ n.in_shape = m.in_shape
    /\ Slices(n, m.begin, m.end, m.strides)
    /\ \A k \in 1..4 : <<m.begin[k], m.end[k], m.strides[k]>> \in {<<0, m.in_shape[k], 1>>, <<m.in_shape[k] - 1, -1, -1>>}
Unjoins(m, n) ==
    /\ {m.inner_size, m.outer_size} \subseteq Nat \ {0}
    /\ m.dims \in [1..Len(m.dims) -> Nat \ {0}]
    /\ n.in_shape = <<1, 1, m.outer_size, Before(m, Len(m.dims) + 1)>>
    /\ \E k \in 1..Len(m.dims) :
         /\ m.inputs[k] = [q \in 0..(m.outer_size * m.inner_size * m.dims[k] - 1) |-> m.inputs[k][q]]
         /\ Slices(n, <<0, 0, 0, Before(m, k)>>, <<1, 1, m.outer_size, Before(m, k + 1)>>, Unstrided)
\* An axis becomes as many times as long as the stride says: a power of two, for
\* which the scale of the resize is exact in floats.  By 41, say, it is not, and
\* floorf(41 * (1.0f / 41)) is 0.
Doublings == {1, 2, 4, 8, 16, 32, 64, 128, 256}
Enlarged(from, to, stride, align) == to = IF align THEN (from - 1) * stride + 1 ELSE from * stride
Shrunk(m, n, align) ==
    /\ m.in_shape \in Shapes /\ m.input \in [0..(compute_size(m.in_shape) - 1) -> Int]
    /\ {n.strides[3], n.strides[4]} \subseteq Doublings /\ m.out_h < Bits24 /\ m.out_w < Bits24
    /\ Enlarged(m.in_shape[3], m.out_h, n.strides[3], align) /\ Enlarged(m.in_shape[4], m.out_w, n.strides[4], align)
    /\ n.in_shape = <<m.in_shape[1], m.in_shape[2], m.out_h, m.out_w>>
    /\ Slices(n, <<0, 0, 0, 0>>, n.in_shape, <<1, 1, n.strides[3], n.strides[4]>>)

ASSUME FloatsAssumption ==
    /\ Doublings \subseteq Powers /\ Powers \subseteq Nat \ {0} /\ 1 \in Powers
    /\ Bits24 \in Nat /\ Bits24 \div 2 \in Nat \ {0}

ASSUME MovesAssumption ==
    \A p \in Programs :
      /\ Ops(p) = <<"binary">> \/ Ops(p) = <<"quantized_binary">> => Operands(p[1])
      /\ Ops(p) = <<"reduce", "reduce">> => Reductions(p[1], p[2])
      /\ Ops(p) = <<"pad", "strided_slice">> => Unpads(p[1], p[2])
      /\ Ops(p) = <<"strided_slice", "strided_slice">> => Reverses(p[1], p[2])
      /\ Ops(p) = <<"concat", "strided_slice">> => Unjoins(p[1], p[2])
      /\ Ops(p) = <<"resize_nearest_neighbor", "strided_slice">> => Shrunk(p[1], p[2], FALSE)
      /\ Ops(p) = <<"resize_bilinear", "strided_slice">> =>
            /\ p[1].align_corners \in BOOLEAN /\ Shrunk(p[1], p[2], p[1].align_corners)
            /\ \A k \in DOMAIN p[1].input : p[1].input[k] \in 0..255

\* What the proofs use of powers, which the provers do not know.
MaxShift == 15
ASSUME PowersAssumption == 2^0 = 1 /\ \A k \in 1..MaxShift : 2^(k - 1) \in Nat \ {0} /\ 2^k = 2 * 2^(k - 1)

\* A KPU node as it is compiled: arg_x and arg_w are the zero points with shift_x and
\* shift_w bits after them, and the table of segments starts below every value.
WeightZero(n) == n.arg_x \div 2^n.shift_x \* minus the zero point of the weights
Limit(n) == 255 * 255 * KpuInputs(n) * n.filter_h * n.filter_h \* no sum is beyond
KpuCompiled(n) ==
    /\ n.in_shape \in Shapes /\ n.out_channels \in Nat \ {0} /\ n.filter_h \in {1, 3}
    /\ n.depthwise \in BOOLEAN /\ (n.depthwise => n.out_channels = n.in_shape[2])
    /\ n.input \in [0..(compute_size(n.in_shape) - 1) -> 0..255] /\ n.pad_value \in 0..255
    /\ n.weights \in [0..(n.out_channels * KpuInputs(n) * n.filter_h * n.filter_h - 1) -> 0..255]
    /\ n.shift_x \in 0..MaxShift /\ WeightZero(n) \in -255..0 /\ n.arg_x = WeightZero(n) * 2^n.shift_x
    /\ n.shift_w \in 0..MaxShift /\ n.arg_w = (-n.pad_value) * 2^n.shift_w
    /\ n.arg_add = n.filter_h * n.filter_h * WeightZero(n) * (-n.pad_value)
    /\ Len(n.activation) \in Nat \ {0}
    /\ \A k \in 1..Len(n.activation) :
         LET seg == n.activation[k] IN seg.start_x \in Int /\ seg.mul \in Int /\ seg.shift \in 0..MaxShift
    /\ \A c \in 1..n.out_channels :
         LET bn == n.batchnorm[c]
         IN  /\ bn.mul \in Int /\ bn.shift \in 0..MaxShift /\ bn.add \in Int
             /\ n.activation[1].start_x < bn.add - Limit(n) * Most2(bn.mul, -bn.mul)
KpuPools(n) ==
    /\ n.in_shape \in Shapes /\ n.in_shape[1] = 1 /\ n.type \in PoolTypes
    /\ \A k \in 3..4 : n.in_shape[k] >= n.type[3]
    /\ n.input \in [0..(compute_size(n.in_shape) - 1) -> 0..255]

\* A convolution as it is compiled: groups of one size, and a filter that fits on
\* the padded image, by its height or by its width at least.
Filtered(n, height, width) ==
    /\ {n.filter_h, n.filter_w, n.stride_h, n.stride_w, n.dilation_h, n.dilation_w} \subseteq Nat \ {0}
    /\ {n.padding_h.before, n.padding_h.after, n.padding_w.before, n.padding_w.after} \subseteq Nat
    /\ \/ (n.filter_h - 1) * n.dilation_h < height + n.padding_h.before + n.padding_h.after
       \/ (n.filter_w - 1) * n.dilation_w < width + n.padding_w.before + n.padding_w.after
NumbersIn(x, size) == \A k \in 0..(size - 1) : x[k] \in Int
Convolves(n) ==
    /\ n.in_shape \in Shapes /\ {n.groups, n.out_channels} \subseteq Nat \ {0}
    /\ n.in_shape[2] % n.groups = 0 /\ n.out_channels % n.groups = 0
    /\ Filtered(n, n.in_shape[3], n.in_shape[4])
    /\ NumbersIn(n.input, compute_size(n.in_shape))
    /\ NumbersIn(n.weights, n.out_channels * (n.in_shape[2] \div n.groups) * n.filter_h * n.filter_w)
Offset(n) == {n.input_offset, n.filter_offset} \subseteq Int

Transposes(n) ==
    /\ {n.in_shape, n.out_shape} \subseteq Shapes /\ n.out_shape[1] = n.in_shape[1] /\ n.groups \in Nat \ {0}
    /\ n.in_shape[2] % n.groups = 0 /\ n.out_shape[2] % n.groups = 0
    /\ {n.filter_h, n.filter_w, n.stride_h, n.stride_w, n.dilation_h, n.dilation_w} \subseteq Nat \ {0}
    /\ {n.padding_h.before, n.padding_w.before} \subseteq Nat
    /\ NumbersIn(n.input, compute_size(n.in_shape))
    /\ NumbersIn(n.weights, n.out_shape[2] * (n.in_shape[2] \div n.groups) * n.filter_h * n.filter_w)

Multiplies(n) ==
    /\ {n.a_rows, n.a_cols, n.b_cols} \subseteq Nat \ {0}
    /\ NumbersIn(n.input_a, n.a_rows * n.a_cols) /\ n.input_b \in [0..(n.a_cols * n.b_cols - 1) -> Int]

\* Positions at which a dilated filter fits on the padded image.
Fits(size, filter, stride, dilation, padding) ==
    { y \in 0..(size + padding.before + padding.after) :
        y * stride + (filter - 1) * dilation < size + padding.before + padding.after }

\* An NHWC node between the transposition of its image and that of its result.
Deepwise == {"cpu_depthwise_conv2d", "cpu_quantized_depthwise_conv2d", "cpu_reduce_window2d"}
NhwcOps == {"cpu_conv2d", "cpu_quantized_conv2d"} \cup Deepwise
NhwcOptions == {"in_shape", "input", "groups", "out_channels", "weights", "bias", "filter_h", "filter_w", "stride_h", "stride_w",
    "dilation_h", "dilation_w", "padding_h", "padding_w", "fused_activation", "input_offset", "filter_offset",
    "output_mul", "output_shift", "output_offset", "mean", "reduce_op", "init_value"}
Channels(c) == IF c.op \in Deepwise THEN c.in_shape[4] ELSE c.out_channels
Relays(m, c, n) ==
    /\ m.op = "transpose" /\ m.perm = <<1, 3, 4, 2>> /\ m.in_shape \in Shapes /\ NumbersIn(m.input, compute_size(m.in_shape))
    /\ c.op \in NhwcOps /\ NhwcOptions \subseteq DOMAIN c
    /\ c.in_shape = <<m.in_shape[1], m.in_shape[3], m.in_shape[4], m.in_shape[2]>> /\ c.out_channels \in Nat \ {0}
    /\ Filtered(c, c.in_shape[2], c.in_shape[3])
    /\ c.op \in {"cpu_quantized_conv2d", "cpu_quantized_depthwise_conv2d"} => Offset(c)
    /\ NumbersIn(c.weights, Channels(c) * c.filter_h * c.filter_w * (IF c.op \in Deepwise THEN 1 ELSE c.in_shape[4]))
    /\ n.op = "transpose" /\ n.perm = <<1, 4, 2, 3>> /\ "input" \in DOMAIN n
    /\ n.in_shape = << c.in_shape[1],
                       Cardinality(Fits(c.in_shape[2], c.filter_h, c.stride_h, c.dilation_h, c.padding_h)),
                       Cardinality(Fits(c.in_shape[3], c.filter_w, c.stride_w, c.dilation_w, c.padding_w)), Channels(c) >>

\* What a node is compiled to find: as many values as it counts, a feature map in the
\* memory of the KPU (four channels to 64 bytes, two, or one), or a tensor of the shape
\* its options name.
MapBytes(s) ==
    s[1] * s[3] * 64 * (IF s[4] <= 16 THEN (s[2] + 3) \div 4 ELSE IF s[4] <= 32 THEN (s[2] + 1) \div 2
                        ELSE s[2] * ((s[4] + 63) \div 64))
Described(n) ==
    CASE n.op = "quantize" -> n.count
      [] n.op = "kpu_download" -> MapBytes(n.in_shape)
      [] OTHER -> compute_size(n.in_shape)
PairOps == { <<"kpu_upload", "kpu_download">>, <<"dequantize", "quantize">>, <<"reduce", "reduce">>, <<"pad", "strided_slice">>,
           <<"strided_slice", "strided_slice">>, <<"concat", "strided_slice">>,
           <<"resize_nearest_neighbor", "strided_slice">>, <<"resize_bilinear", "strided_slice">> }
ASSUME ReadsAssumption ==
    \A p \in Programs :
      /\ Len(p) \in 0..3 /\ (Len(p) = 2 => Ops(p) \in PairOps)
      /\ \A k \in 2..Len(p) : p[k].reads = Described(p[k])

ASSUME SumsAssumption ==
    \A p \in Programs :
      /\ Len(p) = 3 => Relays(p[1], p[2], p[3])
      /\ Ops(p) = <<"matmul">> => Multiplies(p[1])
      /\ Ops(p) = <<"quantized_matmul">> => Multiplies(p[1]) /\ {p[1].input_a_offset, p[1].input_b_offset} \subseteq Int
      /\ Ops(p) = <<"conv2d">> => Convolves(p[1])
      /\ Ops(p) = <<"quantized_conv2d">> => Convolves(p[1]) /\ Offset(p[1])
      /\ Ops(p) = <<"conv2d_transpose">> => Transposes(p[1])
      /\ Ops(p) = <<"kpu_conv2d">> => KpuCompiled(p[1])
      /\ Ops(p) = <<"kpu_pool2d">> => KpuPools(p[1])

VARIABLES
  program,        \* the program that runs
  pc,             \* the node that is next
  memory          \* what the last node wrote

programVars == <<program, pc, memory>>

Node == IF pc = 1 THEN program[1] ELSE [program[pc] EXCEPT !.input = memory]
Finished == pc > Len(program)

ProgramInit == program \in Programs /\ pc = 1 /\ memory = <<>>

Run(op, Kernel(_)) ==
    /\ ~Finished
    /\ program[pc].op = op
    /\ memory' = Kernel(Node)
    /\ pc' = pc + 1
    /\ UNCHANGED program

RunBinary           == Run("binary", binary)
RunQuantizedBinary  == Run("quantized_binary", quantized_binary)
RunConcat           == Run("concat", concat)
RunConv2d           == Run("conv2d", conv2d)
RunQuantizedConv2d  == Run("quantized_conv2d", quantized_conv2d)
RunConv2dTranspose  == Run("conv2d_transpose", conv2d_transpose)
RunMatmul           == Run("matmul", matmul)
RunQuantizedMatmul  == Run("quantized_matmul", quantized_matmul)
RunPad              == Run("pad", pad)
RunReduce           == Run("reduce", reduce)
RunReduceWindow2d   == Run("reduce_window2d", reduce_window2d)
RunResizeNearest    == Run("resize_nearest_neighbor", resize_nearest_neighbor)
RunResizeBilinear   == Run("resize_bilinear", resize_bilinear)
RunSlice            == Run("strided_slice", strided_slice)
RunTranspose        == Run("transpose", transpose)
RunQuantize         == Run("quantize", riscv_quantize)
RunDequantize       == Run("dequantize", riscv_dequantize)
RunCpuConv2d        == Run("cpu_conv2d", cpu_conv2d)
RunCpuDepthwise     == Run("cpu_depthwise_conv2d", cpu_depthwise_conv2d)
RunCpuQuantized     == Run("cpu_quantized_conv2d", cpu_quantized_conv2d)
RunCpuQuantizedDepthwise == Run("cpu_quantized_depthwise_conv2d", cpu_quantized_depthwise_conv2d)
RunCpuReduceWindow2d == Run("cpu_reduce_window2d", cpu_reduce_window2d)
RunKpuUpload        == Run("kpu_upload", kpu_upload)
RunKpuDownload      == Run("kpu_download", kpu_download)
RunKpuConv2d        == Run("kpu_conv2d", kpu_conv2d)
RunFakeKpuConv2d    == Run("fake_kpu_conv2d", fake_kpu_conv2d)
RunKpuPool2d        == Run("kpu_pool2d", kpu_pool2d)

ProgramNext ==
    \/ RunBinary \/ RunQuantizedBinary \/ RunConcat \/ RunConv2d \/ RunQuantizedConv2d
    \/ RunConv2dTranspose \/ RunMatmul \/ RunQuantizedMatmul \/ RunPad \/ RunReduce
    \/ RunReduceWindow2d \/ RunResizeNearest \/ RunResizeBilinear \/ RunSlice \/ RunTranspose
    \/ RunQuantize \/ RunDequantize \/ RunCpuConv2d \/ RunCpuDepthwise \/ RunCpuQuantized
    \/ RunCpuQuantizedDepthwise \/ RunCpuReduceWindow2d \/ RunKpuUpload \/ RunKpuDownload
    \/ RunKpuConv2d \/ RunFakeKpuConv2d \/ RunKpuPool2d

ProgramSpec == ProgramInit /\ [][ProgramNext]_programVars

-----------------------------------------------------------------------------
(***************************************************************************)
(* References the kernels are compared with.                               *)
(***************************************************************************)
Ended(ops) == Finished /\ Ops(program) = ops
The == program[Len(program)]
Start == program[1]

\* A convolution as its textbook sum: all taps, and nothing off the image.
Textbook(n, X(_), W(_), Finish(_)) ==
    LET s == n.in_shape
        g_ic == s[2] \div n.groups
        g_oc == n.out_channels \div n.groups
        rows == Fits(s[3], n.filter_h, n.stride_h, n.dilation_h, n.padding_h)
        cols == Fits(s[4], n.filter_w, n.stride_w, n.dilation_w, n.padding_w)
        OnImage(y, x) == y \in 0..(s[3] - 1) /\ x \in 0..(s[4] - 1)
        At(b, c, y, x) == IF OnImage(y, x) THEN X(n.input[offset(s, <<b, c, y, x>>)]) ELSE 0
    IN  Tensor(<<s[1], n.out_channels, Cardinality(rows), Cardinality(cols)>>, LAMBDA i :
          Finish(n.bias[i[2]] + SumOver(g_ic, LAMBDA ic : SumOver(n.filter_h, LAMBDA ky : SumOver(n.filter_w, LAMBDA kx :
            At(i[1], (i[2] \div g_oc) * g_ic + ic, AtY(n, i[3], ky), AtX(n, i[4], kx))
              * W(n.weights[offset(<<n.out_channels, g_ic, n.filter_h, n.filter_w>>, <<i[2], ic, ky, kx>>)]))))))

\* The node of the NCHW kernels that an NHWC convolution stands for; weights
\* of an ordinary convolution have the channels of the image last.
FromNhwc(c, image, groups, channels) ==
    LET s    == c.in_shape
        nchw == <<s[1], s[4], s[2], s[3]>>
        ohwi == [in_shape |-> <<channels, c.filter_h, c.filter_w, s[4]>>, perm |-> <<1, 4, 2, 3>>, input |-> c.weights]
    IN  [c EXCEPT !.in_shape = nchw, !.input = image, !.groups = groups, !.out_channels = channels,
                  !.weights = IF groups = 1 THEN transpose(ohwi) ELSE c.weights]
\* The convolution of the real numbers that the bytes of a KPU node stand for.
InReals(n) == [ in_shape |-> n.in_shape, out_channels |-> n.out_channels, depthwise |-> n.depthwise, filter_h |-> n.filter_h,
             input |-> [p \in DOMAIN n.input |-> n.input[p] - n.pad_value],
             weights |-> [p \in DOMAIN n.weights |-> n.weights[p] + WeightZero(n)],
             bias |-> [c \in 0..(n.out_channels - 1) |-> 0], fused_activation |-> <<-Limit(n), Limit(n)>> ]
Negated(c) == [c EXCEPT !.input_offset = -c.input_offset, !.filter_offset = -c.filter_offset]

-----------------------------------------------------------------------------
(***************************************************************************)
(* Invariants.                                                             *)
(***************************************************************************)

(* A node finds exactly the tensor its options describe: the extents that  *)
(* a kernel gives its output (get_windowed_output_size, the pooled, padded,*)
(* sliced and permuted shapes) are those the next node was compiled for.   *)
ProgramTypeOK ==
    /\ pc \in 1..(Len(program) + 1)
    /\ pc \in 2..Len(program) => DOMAIN memory = 0..(program[pc].reads - 1)

(* The window arithmetic of the convolutions (start, end and number of     *)
(* windows by truncating divisions) visits every tap on the image, none off*)
(* it, for all strides, dilations and paddings: the result is the textbook *)
(* sum.                                                                    *)
ConvIsTextbook ==
    /\ Ended(<<"conv2d">>) =>
         memory = Textbook(The, LAMBDA x : x, LAMBDA w : w, LAMBDA v : Activated(v, The))
    /\ Ended(<<"quantized_conv2d">>) =>
         memory = Textbook(The, LAMBDA x : x + The.input_offset, LAMBDA w : w + The.filter_offset,
                                LAMBDA v : Requantized(v, The))

(* conv2d_transpose scatters: the output is what gathering from every input*)
(* element and tap that lands on it would give, in every group.            *)
ScatterIsGather ==
    Ended(<<"conv2d_transpose">>) =>
      LET s    == The.in_shape
          g_ic == s[2] \div The.groups
          g_oc == The.out_shape[2] \div The.groups
          Lands(i, y, x, ky, kx) == AtY(The, y, ky) = i[3] /\ AtX(The, x, kx) = i[4]
          Share(i, ic, y, x, ky, kx) ==
              IF ~Lands(i, y, x, ky, kx) THEN 0
              ELSE The.input[offset(s, <<i[1], (i[2] \div g_oc) * g_ic + ic, y, x>>)]
                     * The.weights[offset(<<The.out_shape[2], g_ic, The.filter_h, The.filter_w>>, <<i[2], ic, ky, kx>>)]
      IN  memory = Tensor(The.out_shape, LAMBDA i : Activated(
            SumOver(g_ic, LAMBDA ic : SumOver(s[3], LAMBDA y : SumOver(s[4], LAMBDA x :
              SumOver(The.filter_h, LAMBDA ky : SumOver(The.filter_w, LAMBDA kx : Share(i, ic, y, x, ky, kx)))))), The))

(* A network gives the same picture whether it was compiled for the NCHW   *)
(* or the NHWC kernels: transposing, running the NHWC kernel and           *)
(* transposing back is the NCHW kernel, with offsets of the other sign.    *)
LayoutsAgree ==
    (Finished /\ Len(program) = 3) =>
      LET c == program[2]
          Plain == FromNhwc(c, Start.input, 1, c.out_channels)
          Deep  == FromNhwc(c, Start.input, c.in_shape[4], c.in_shape[4])
      IN  memory = CASE c.op = "cpu_conv2d" -> conv2d(Plain)
                     [] c.op = "cpu_quantized_conv2d" -> quantized_conv2d(Negated(Plain))
                     [] c.op = "cpu_depthwise_conv2d" -> conv2d(Deep)
                     [] c.op = "cpu_quantized_depthwise_conv2d" -> quantized_conv2d(Negated(Deep))
                     [] c.op = "cpu_reduce_window2d" -> reduce_window2d(Deep)

(* A matrix product is a convolution of one by one images: a row is a      *)
(* picture, a column of the second operand a filter.                       *)
MatmulIsConv ==
    LET n == The
        AsConv == [ in_shape |-> <<n.a_rows, n.a_cols, 1, 1>>, groups |-> 1, out_channels |-> n.b_cols,
                         filter_h |-> 1, filter_w |-> 1, stride_h |-> 1, stride_w |-> 1, dilation_h |-> 1, dilation_w |-> 1,
                         padding_h |-> [before |-> 0, after |-> 0], padding_w |-> [before |-> 0, after |-> 0],
                         input |-> n.input_a, input_offset |-> n.input_a_offset, filter_offset |-> n.input_b_offset,
                         weights |-> [p \in DOMAIN n.input_b |-> n.input_b[(p % n.a_cols) * n.b_cols + (p \div n.a_cols)]],
                         bias |-> n.bias, fused_activation |-> n.fused_activation,
                         output_mul |-> n.output_mul, output_shift |-> n.output_shift, output_offset |-> n.output_offset ]
    IN  /\ Ended(<<"matmul">>) => memory = conv2d(AsConv)
        /\ Ended(<<"quantized_matmul">>) => memory = quantized_conv2d(AsConv)

(* The kernels that sum products over a window or a row agree with their   *)
(* definitions and with each other.                                        *)
SumsAgree == ProgramTypeOK /\ ConvIsTextbook /\ ScatterIsGather /\ LayoutsAgree /\ MatmulIsConv

(* Operands that are broadcast meet the element of the other that has      *)
(* their place, in the flat loop for equal shapes and in the general one.  *)
BroadcastIsRepeat ==
    LET n == The
        Folded(i, s) == [k \in 1..4 |-> i[k] % s[k]]
        Meet(Op(_, _)) == Tensor(n.out_shape, LAMBDA i :
            Op(n.input_a[offset(n.in_a_shape, Folded(i, n.in_a_shape))], n.input_b[offset(n.in_b_shape, Folded(i, n.in_b_shape))]))
    IN  /\ Ended(<<"binary">>) => memory = Meet(LAMBDA a, b : Activated(Apply(n.binary_op, a, b), n))
        /\ Ended(<<"quantized_binary">>) => memory = Meet(LAMBDA a, b : Requantized(Apply(n.binary_op,
             mul_and_carry_shift(a + n.input_a_offset, n.input_a_mul, n.input_a_shift),
             mul_and_carry_shift(b + n.input_b_offset, n.input_b_mul, n.input_b_shift)), n))

(* Reducing one axis and then another is reducing both at once.            *)
ReduceInSteps ==
    Ended(<<"reduce", "reduce">>) =>
      memory = reduce([The EXCEPT !.input = Start.input, !.in_shape = Start.in_shape])

(* A slice takes back what a pad, a concat or a reversal moved: the input. *)
SliceRecovers ==
    (Finished /\ Len(program) = 2 /\ The.op = "strided_slice" /\ Start.op \in {"pad", "concat", "strided_slice"}) =>
      IF Start.op = "concat"
      THEN \E k \in 1..Len(Start.dims) : The.begin[4] = Before(Start, k) /\ memory = Start.inputs[k]
      ELSE memory = Start.input

(* Enlarging a picture by a power of two keeps its pixels: every pixel of  *)
(* the original is found again at its place in the result.                 *)
ResizeKeepsPixels ==
    (Finished /\ Len(program) = 2 /\ The.op = "strided_slice" /\ Start.op \in {"resize_nearest_neighbor", "resize_bilinear"}) =>
      memory = Start.input

(* The kernels that move elements by index arithmetic put each where the   *)
(* shapes say; a resize by a power of two, where the float scale is exact. *)
ElementsMoveRight == BroadcastIsRepeat /\ ReduceInSteps /\ SliceRecovers /\ ResizeKeepsPixels

(* A byte that is dequantized and quantized again is the same byte, at an  *)
(* even and at an odd count.                                               *)
QuantizeRecovers == Ended(<<"dequantize", "quantize">>) => memory = Start.input

(* quantize gives a nearest byte, also for the last value of an odd count, *)
(* which is rounded by another rule than the others.                       *)
QuantizeIsNearest ==
    Ended(<<"quantize">>) =>
      \A p \in DOMAIN memory :
        LET real == The.input[p] * The.scale + 4 * The.zero_point
        IN  \A b \in {Byte(memory[p] - 1), Byte(memory[p] + 1)} :
              (4 * memory[p] - real) * (4 * memory[p] - real) <= (4 * b - real) * (4 * b - real)

(* Quantization rounds to the nearest, and nothing twice.                  *)
QuantizationRounds == QuantizeRecovers /\ QuantizeIsNearest

(* What is uploaded to the KPU comes back by a download: no two bytes of a *)
(* feature map share a place, whatever rows their channels share.          *)
DownloadUndoesUpload == Ended(<<"kpu_upload", "kpu_download">>) => memory = Start.input

(* The KPU works on bytes with zero points.  With arg_x, arg_w and arg_add *)
(* compiled from the zero points and the pad value the zero of the image,  *)
(* its sums are the convolution of the real numbers the bytes stand for.   *)
(* Its activation rounds the scaled difference to the nearest, ties to     *)
(* even, if that is not negative.  With a segment that falls it is         *)
(* negative, and is rounded away from the nearest: what should go up goes  *)
(* down by as much, since carry_shift takes the sign for its direction.    *)
KpuConvIsConv ==
    Ended(<<"kpu_conv2d">>) =>
      LET n    == The
          sums == fake_kpu_conv2d(InReals(n))
          Nearest(v, unit) == CHOOSE r \in (v \div unit)..(v \div unit + 1) :
              LET error == IF v < r * unit THEN r * unit - v ELSE v - r * unit
              IN  2 * error < unit \/ (2 * error = unit /\ r % 2 = 0)
          Rounded(v, unit) == IF v < 0 THEN 2 * (v \div unit) - Nearest(v, unit) ELSE Nearest(v, unit)
          Result(oc, v) ==
              LET bn  == n.batchnorm[oc + 1]
                  y   == (v * bn.mul) \div 2^bn.shift + bn.add
                  seg == SegmentOf(n, y)
              IN  Byte(Rounded((y - seg.start_x) * seg.mul, 2^seg.shift) + seg.add)
      IN  memory = Tensor(KpuShape(n), LAMBDA i : Result(i[2], sums[offset(KpuShape(n), i)]))

(* The pooling of the KPU is the window reduction of the NCHW kernels with *)
(* the padding that get_kpu_padding names: exactly for a maximum, and away *)
(* from the border for a mean, which repeats the border.                   *)
PoolIsWindow ==
    (Ended(<<"kpu_pool2d">>) /\ The.type[1] \in {"max", "mean"}) =>
      LET n    == The
          side == get_kpu_filter_size(n.type)
          as   == [ in_shape |-> n.in_shape, input |-> n.input,
                         filter_h |-> side, filter_w |-> side, dilation_h |-> 1, dilation_w |-> 1,
                         stride_h |-> get_kpu_filter_stride(n.type), stride_w |-> get_kpu_filter_stride(n.type),
                         padding_h |-> get_kpu_padding(n.type), padding_w |-> get_kpu_padding(n.type),
                         mean |-> n.type[1] = "mean", reduce_op |-> IF n.type[1] = "mean" THEN "add" ELSE "max",
                         init_value |-> 0, fused_activation |-> <<0, 255>> ]
          Whole(v) == IF as.mean THEN Floor(v) ELSE v
          Inner(i) == OriginY(as, i[3]) + side <= n.in_shape[3] /\ OriginX(as, i[4]) + side <= n.in_shape[4]
      IN  /\ DOMAIN memory = DOMAIN reduce_window2d(as)
          /\ \A p \in DOMAIN memory :
               n.type[1] = "max" \/ Inner(Index(PoolShape(n), p)) => memory[p] = Whole(reduce_window2d(as)[p])

(* What the KPU is made to do is what the neutral kernels do: compiled     *)
(* convolutions (KpuCompiled) and pooling.                                 *)
KpuComputes == KpuConvIsConv /\ PoolIsWindow
=============================================================================
