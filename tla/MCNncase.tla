------------------------------ MODULE MCNncase ------------------------------
(***************************************************************************)
(* TLC instances of the nncase modules: small programs for every kernel,   *)
(* nnil methods, node bodies.  They share no state: a behaviour is one of  *)
(* the three.                                                              *)
(***************************************************************************)
EXTENDS KernelPrograms, Nnil, NodeBodies
LOCAL INSTANCE SequencesExt

Data(size, spread) == [p \in 0..(size - 1) |-> (7 * p + p * p + spread) % 13]
Signed(size, spread) == [p \in 0..(size - 1) |-> ((5 * p + p * p + spread) % 7) - 3]
Quantized == {"quantized_conv2d", "quantized_matmul", "cpu_quantized_conv2d", "cpu_quantized_depthwise_conv2d"}
\* What a kernel reads: bytes, or numbers of either sign.
Values(op, size, spread) == IF op \in Quantized THEN Data(size, spread) ELSE Signed(size, spread)
Pads == {[before |-> 0, after |-> 0], [before |-> 1, after |-> 0], [before |-> 2, after |-> 1]}
NoPad == [before |-> 0, after |-> 0]
All == <<-10000, 10000>>
Some == <<-5, 40>>
Extents(s) == s[1] * s[2] * s[3] * s[4]

\* The geometry of a filter: one axis varies, the other stays.
Filters == [filter_h : 1..3, stride_h : 1..2, dilation_h : 1..3, padding_h : Pads]
Square(f) == f @@ [filter_w |-> 2, stride_w |-> 1, dilation_w |-> 1, padding_w |-> [before |-> 0, after |-> 1]]
Quant == [input_offset |-> -3, filter_offset |-> 2, output_mul |-> 3, output_shift |-> 2, output_offset |-> 5]

Conv(op, s, groups, oc, f) ==
    [op |-> op, in_shape |-> s, groups |-> groups, out_channels |-> oc, fused_activation |-> Some,
     input |-> Values(op, Extents(s), 1), bias |-> Signed(oc, 2),
     weights |-> Values(op, oc * (s[2] \div groups) * f.filter_h * 2, 3)] @@ Square(f) @@ Quant
Convs == { << Conv(op, s, g, 2, f) >> : op \in {"conv2d", "quantized_conv2d"}, s \in {<<1, 2, 4, 3>>, <<2, 2, 3, 2>>}, g \in 1..2, f \in Filters }

Transposeds ==
    { << Conv("conv2d_transpose", <<1, 2, 3, 2>>, g, 2, f) @@ [out_shape |-> <<1, 2, h, 3>>] >> : g \in 1..2, f \in Filters, h \in {4, 6} }

Axes(op, s, perm) == [op |-> op, in_shape |-> s, perm |-> perm, input |-> Data(Extents(s), 4), reads |-> Extents(s)]
ReadingFrom(n, size) == n @@ [reads |-> size]
OutOf(f, size) == Cardinality({y \in 0..9 : y * f.stride_h + (f.filter_h - 1) * f.dilation_h < size + f.padding_h.before + f.padding_h.after})
Nhwc(op, f, mean) ==
    LET s     == <<1, 4, 3, 2>>
        deep  == op \in {"cpu_depthwise_conv2d", "cpu_quantized_depthwise_conv2d", "cpu_reduce_window2d"}
        out   == <<1, OutOf(f, 4), 3, 2>>
        conv  == Conv(op, s, 1, 2, f) @@ [mean |-> mean, reduce_op |-> IF mean THEN "add" ELSE "max", init_value |-> IF mean THEN 0 ELSE -50]
    IN  << Axes("transpose", <<1, 2, 4, 3>>, <<1, 3, 4, 2>>),
           ReadingFrom([conv EXCEPT !.weights = Values(op, IF deep THEN 4 * f.filter_h ELSE 8 * f.filter_h, 3)], 24),
           Axes("transpose", out, <<1, 4, 2, 3>>) >>
Nhwcs == { Nhwc(op, f, FALSE) : f \in Filters, op \in {"cpu_conv2d", "cpu_quantized_conv2d", "cpu_depthwise_conv2d",
                                                      "cpu_quantized_depthwise_conv2d", "cpu_reduce_window2d"} }
         \cup { Nhwc("cpu_reduce_window2d", f, TRUE) : f \in Filters }

Matmuls == { << [op |-> op, a_rows |-> r, a_cols |-> k, b_cols |-> c, fused_activation |-> Some,
                 input_a |-> Values(op, r * k, 1), input_b |-> Values(op, k * c, 4), bias |-> Signed(c, 0),
                 input_a_offset |-> -2, input_b_offset |-> 1] @@ Quant >>
             : op \in {"matmul", "quantized_matmul"}, r \in 1..3, k \in 1..3, c \in 1..3 }

Widths == {<<1, 1, 1, 1>>, <<1, 2, 1, 1>>, <<1, 1, 3, 1>>, <<1, 2, 1, 2>>, <<2, 1, 1, 2>>, <<1, 2, 3, 2>>, <<1, 1, 2, 1>>}
Larger(x, y) == IF x < y THEN y ELSE x
Fit(a, b) == \A k \in 1..4 : a[k] = b[k] \/ a[k] = 1 \/ b[k] = 1
Binaries == { << [op |-> "binary", binary_op |-> o, in_a_shape |-> ab[1], in_b_shape |-> ab[2],
                  out_shape |-> [k \in 1..4 |-> Larger(ab[1][k], ab[2][k])], fused_activation |-> Some,
                  input_a |-> Signed(Extents(ab[1]), 1), input_b |-> Signed(Extents(ab[2]), 2)] >>
              : o \in {"add", "sub", "mul", "min", "max"}, ab \in {ab \in Widths \X Widths : Fit(ab[1], ab[2])} }
QuantizedBinaries ==
    { << [p[1] EXCEPT !.op = "quantized_binary", !.input_a = Data(Extents(p[1].in_a_shape), 1), !.input_b = Data(Extents(p[1].in_b_shape), 2)] @@ Quant @@
         [input_a_offset |-> -2, input_a_mul |-> 5, input_a_shift |-> 1, input_b_offset |-> 3, input_b_mul |-> 2, input_b_shift |-> 0] >> : p \in Binaries }

Fold(s, out, o) == [op |-> "reduce", reduce_op |-> o, init_value |-> IF o = "add" THEN 0 ELSE IF o = "min" THEN 99 ELSE -99,
                    in_shape |-> s, out_shape |-> out, input |-> Signed(Extents(s), 5), reads |-> Extents(s)]
Reduces == { << Fold(<<2, 2, 3, 2>>, [k \in 1..4 |-> IF k \in A THEN 1 ELSE <<2, 2, 3, 2>>[k]], o),
                Fold([k \in 1..4 |-> IF k \in A THEN 1 ELSE <<2, 2, 3, 2>>[k]], [k \in 1..4 |-> IF k \in A \cup B THEN 1 ELSE <<2, 2, 3, 2>>[k]], o) >>
             : A \in SUBSET (1..4), B \in SUBSET (1..4), o \in {"add", "min", "max"} }

Slice(s, b, e, st) == [op |-> "strided_slice", in_shape |-> s, begin |-> b, end |-> e, strides |-> st, input |-> Data(Extents(s), 6), reads |-> Extents(s)]
Ones == <<1, 1, 1, 1>>
Zeros == <<0, 0, 0, 0>>
PadSlice(s, p) ==
    LET big == [k \in 1..4 |-> s[k] + p[k].before + p[k].after]
    IN  << [op |-> "pad", in_shape |-> s, paddings |-> p, pad_value |-> 99, input |-> Data(Extents(s), 2)],
           Slice(big, [k \in 1..4 |-> p[k].before], [k \in 1..4 |-> p[k].before + s[k]], Ones) >>
PadSlices == { PadSlice(<<1, 2, 3, 2>>, p) : p \in [1..4 -> {NoPad, [before |-> 1, after |-> 0], [before |-> 1, after |-> 2]}] }
Reversals == { LET s == <<2, 1, 3, 2>>
                   B == [k \in 1..4 |-> IF k \in A THEN s[k] - 1 ELSE 0]
                   E == [k \in 1..4 |-> IF k \in A THEN -1 ELSE s[k]]
                   T == [k \in 1..4 |-> IF k \in A THEN -1 ELSE 1]
               IN  << Slice(s, B, E, T), Slice(s, B, E, T) >> : A \in SUBSET (1..4) }
ConcatSlices ==
    { LET row == inner * (d[1] + d[2] + d[3])
          part(k) == [p \in 0..(outer * inner * d[k] - 1) |-> 10 * k + p]
          from == IF k3 = 1 THEN 0 ELSE IF k3 = 2 THEN inner * d[1] ELSE inner * (d[1] + d[2])
      IN  << [op |-> "concat", dims |-> d, inner_size |-> inner, outer_size |-> outer, inputs |-> <<part(1), part(2), part(3)>>],
             Slice(<<1, 1, outer, row>>, <<0, 0, 0, from>>, <<1, 1, outer, from + inner * d[k3]>>, Ones) >>
      : d \in {<<1, 2, 1>>, <<2, 1, 3>>, <<1, 1, 1>>}, inner \in 1..2, outer \in 1..3, k3 \in 1..3 }

Resized(op, h, w, oh, ow, align) ==
    LET s == <<1, 2, h, w>>
        by(n, m) == IF align THEN (IF n = 1 THEN 1 ELSE (m - 1) \div (n - 1)) ELSE m \div n
    IN  << [op |-> op, in_shape |-> s, out_h |-> oh, out_w |-> ow, align_corners |-> align, input |-> Data(Extents(s), 3)],
           Slice(<<1, 2, oh, ow>>, Zeros, <<1, 2, IF h = 1 THEN 1 ELSE oh, IF w = 1 THEN 1 ELSE ow>>, <<1, 1, by(h, oh), by(w, ow)>>) >>
Resizes ==
    { Resized(op, h, w, h * f, w * g, FALSE) : op \in {"resize_nearest_neighbor", "resize_bilinear"}, h \in 2..4, w \in 2..3, f \in {1, 2, 4, 8}, g \in 1..2 }
    \cup { Resized("resize_bilinear", h, w, (h - 1) * f + 1, (w - 1) * g + 1, TRUE) : h \in 1..4, w \in 2..3, f \in {1, 2, 4, 8}, g \in {1, 2} }

Quantizes ==
    { << [op |-> "quantize", count |-> c, scale |-> k, zero_point |-> z, input |-> [p \in 0..(c - 1) |-> h + p]] >>
      : c \in 1..3, k \in {1, 3}, z \in {0, 5}, h \in (-14..8) \cup (1010..1030) }
    \cup { << [op |-> "dequantize", count |-> c, scale |-> k, zero_point |-> z, input |-> [p \in 0..(c - 1) |-> (b + 127 * p) % 256]],
              [op |-> "quantize", count |-> c, scale |-> k, zero_point |-> z, input |-> <<>>, reads |-> c] >>
           : c \in 1..3, k \in {1, 2, 4}, z \in {0, 7}, b \in {0, 1, 128, 255} }

Upload(s) == << [op |-> "kpu_upload", in_shape |-> s, input |-> [p \in 0..(Extents(s) - 1) |-> p % 251]],
                [op |-> "kpu_download", in_shape |-> s, input |-> <<>>,
                 reads |-> s[1] * s[3] * 64 * (IF s[4] <= 16 THEN (s[2] + 3) \div 4 ELSE IF s[4] <= 32 THEN (s[2] + 1) \div 2
                                               ELSE s[2] * ((s[4] + 63) \div 64))] >>
Uploads == { Upload(<<b, c, 2, w>>) : b \in 1..2, c \in {1, 3, 5}, w \in {1, 16, 17, 32, 33, 64, 65} }

\* The third segment rises or falls.
Segments(rise) == << [start_x |-> -9999999, mul |-> 1, shift |-> 1, add |-> -20], [start_x |-> 0, mul |-> 3, shift |-> 2, add |-> 4],
               [start_x |-> 30, mul |-> rise, shift |-> 3, add |-> 27] >>
Kpu(op, deep, side, zx, zw, spread, bits) ==
    LET oc == 2
        ic == IF deep THEN 2 ELSE 3
    IN  << [op |-> op, in_shape |-> <<1, ic, 3, 3>>, out_channels |-> oc, depthwise |-> deep, filter_h |-> side,
            pad_value |-> zx, arg_x |-> -zw * 2^bits, shift_x |-> bits, arg_w |-> -zx * 2^(2 * bits), shift_w |-> 2 * bits, arg_add |-> side * side * zx * zw,
            input |-> Data(ic * 9, spread), weights |-> Data(oc * (IF deep THEN 1 ELSE ic) * side * side, spread + 1), bias |-> [c \in 0..1 |-> 0],
            fused_activation |-> All, activation |-> Segments(1 - 2 * bits),
            batchnorm |-> << [mul |-> 3, shift |-> 2, add |-> 1], [mul |-> -2, shift |-> 1, add |-> 7] >>] >>
Kpus == { Kpu(op, deep, side, zx, zw, spread, bits) : op \in {"kpu_conv2d", "fake_kpu_conv2d"}, deep \in BOOLEAN, side \in {1, 3}, zx \in {0, 5}, zw \in {0, 6}, spread \in 0..4, bits \in 0..1 }

Pools == { << [op |-> "kpu_pool2d", type |-> t, in_shape |-> <<1, 2, h, w>>, input |-> Data(2 * h * w, h)] >> : t \in PoolTypes, h \in {4, 5, 8}, w \in 4..5 }

Windows == { << [c[1] EXCEPT !.op = "reduce_window2d"] @@ [mean |-> FALSE, reduce_op |-> "max", init_value |-> -50] >> : c \in Convs }

Nodes == Convs \cup Transposeds \cup Nhwcs \cup Matmuls \cup Binaries \cup QuantizedBinaries \cup Reduces \cup PadSlices
         \cup Reversals \cup ConcatSlices \cup Resizes \cup Quantizes \cup Uploads \cup Kpus \cup Pools \cup Windows
Unwritten == -1

-----------------------------------------------------------------------------
\* Expressions up to two operators deep, as nnil_builder would emit them: the parts
\* of each, its operands before it.
Numbers == <<-2, 1, 3>>
Constant(op) == CHOOSE e \in Leaves : e.code = <<op>>
Grown(A, B) ==
    { Append(d, OfOperand("neg", Last(d))) : d \in A }
    \cup { LET m == OfItself("mul", Last(d)) IN d \o <<m, Padded(m)>> : d \in A }
    \cup { LET v == OfOperand("abs", Last(d)) IN d \o <<v, OfOperand("square", v)>> : d \in A }
    \cup { d \o b \o <<OfOperands(op, Last(d), Last(b))>> : d \in A, b \in B, op \in Binary }
    \cup { LET low == Constant("ldc_r4_0") high == Constant("ldc_r4_1")
           IN  d \o <<low, high, Limited(Last(d), low, high)>> : d \in A }
Single == { <<e>> : e \in Leaves }
Inlined == "ldc_r4" :> 4
Twice == Grown(Single, Single)
Compiled == { [compiled |-> TRUE, parts |-> d, body |-> Append(Last(d).code, "ret")] : d \in Twice \cup Grown(Twice, Single) }
Wild == { [compiled |-> FALSE, body |-> b] : b \in UNION { [1..k -> {"dup", "pop", "lda_0", "ldc_r4", "sub", "ret", "bad"}] : k \in 1..4 } }
Bodies == Compiled \cup Wild

-----------------------------------------------------------------------------
Span(k) == [j \in 1..k |-> 100 + j]
Geo == [padding_h |-> 1, padding_w |-> 2, filter_h |-> 2, filter_w |-> 1, stride_h |-> 3, stride_w |-> 4, dilation_h |-> 5, dilation_w |-> 6,
        input |-> 10, output |-> 11, fused_activation |-> 12, input_offset |-> 13, filter_offset |-> 14, output_mul |-> 15,
        output_shift |-> 16, output_offset |-> 17, input_a |-> 18, input_b |-> 19, a_rows |-> 3, a_cols |-> 2, input_a_offset |-> 20, input_b_offset |-> 21,
        inner_size |-> 22, outer_size |-> 23, main_mem_output |-> 24, batches |-> 25, reserved0 |-> 26, activation |-> 27]
Written4 ==
    { Geo @@ [kind |-> k, in_shape |-> <<1, g * ig, 5, 7>>, out_shape |-> <<1, g * og, 6, 8>>, groups |-> g, out_channels |-> g * og, b_cols |-> og,
              weights |-> Span(g * og * ig * 2), bias |-> Span(IF k \in {"matmul", "quantized_matmul"} THEN og ELSE g * og)]
      : k \in {"conv2d", "quantized_conv2d", "conv2d_transpose", "matmul", "quantized_matmul"}, g \in 1..2, ig \in 1..2, og \in 1..3 }
    \cup { Geo @@ [kind |-> "concat", inputs_count |-> n, inputs |-> Span(n), dims |-> [j \in 1..n |-> j]] : n \in 0..3 }
    \cup { Geo @@ [kind |-> "nnil_unary_method", body |-> Span(n)] : n \in 0..3 }
    \cup { Geo @@ [kind |-> "kpu_conv2d", batch_norm |-> Span(oc), weights |-> [j \in 1..((IF d THEN 1 ELSE ic) * oc * f * f) |-> j],
                   layer |-> [ic |-> ic, oc |-> oc, filter |-> f, depth_wise |-> d, bwsx |-> 0, active |-> 0, para |-> 0]]
           : ic \in 1..2, oc \in 1..3, f \in {1, 3}, d \in BOOLEAN }
Positions == 0..3

-----------------------------------------------------------------------------
NoProgram == program = <<>> /\ pc = 1 /\ memory = <<>>
NoMethod  == /\ method = [compiled |-> FALSE, body |-> <<>>] /\ element = Len(Numbers) + 1 /\ next = 1
             /\ stack = <<>> /\ produced = <<>> /\ state = "running"
NoBody    == options = <<>> /\ base = 0 /\ stream = <<>> /\ got = <<>> /\ rest = 0

NoRuntime == NoProgram /\ NoMethod /\ NoBody

RuntimeInit ==
    \/ ProgramInit /\ NoMethod /\ NoBody
    \/ NoProgram /\ NnilInit /\ NoBody
    \/ NoProgram /\ NoMethod /\ BodyInit
RuntimeNext ==
    \/ ProgramNext /\ UNCHANGED <<nnilVars, bodyVars>>
    \/ NnilNext /\ UNCHANGED <<programVars, bodyVars>>
    \/ options # <<>> /\ BodyNext /\ UNCHANGED <<programVars, nnilVars>>
=============================================================================
