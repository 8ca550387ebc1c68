----------------------------- MODULE KpuKernels -----------------------------
(***************************************************************************)
(* The kernels that stand in for the KPU (kernels/k210/k210_kernels.h):    *)
(* moving feature maps in and out of its memory, its convolution on bytes  *)
(* with batch normalisation and a piecewise linear activation, and its     *)
(* pooling.                                                                *)
(***************************************************************************)
EXTENDS NeutralKernels, KpuLayout

\* A byte of KPU memory that no upload wrote.
CONSTANT Stale

KpuSize(n) == n.in_shape[1] * get_kpu_bytes(n.in_shape[4], n.in_shape[3], n.in_shape[2])
KpuAddress(n, i) ==
    IF n.in_shape[4] % LineBytes = 0 THEN offset(n.in_shape, i)
    ELSE i[1] * get_kpu_bytes(n.in_shape[4], n.in_shape[3], n.in_shape[2])
           + Place(n.in_shape[4], n.in_shape[3], i[2], i[3], i[4])

kpu_upload(n) ==
    LET size  == compute_size(n.in_shape)
        place == [p \in 0..(size - 1) |-> KpuAddress(n, Index(n.in_shape, p))]
    IN  [a \in 0..(KpuSize(n) - 1) |->
           IF \E p \in DOMAIN place : place[p] = a
           THEN n.input[CHOOSE p \in DOMAIN place : place[p] = a]
           ELSE Stale]

kpu_download(n) == Tensor(n.in_shape, LAMBDA i : n.input[KpuAddress(n, i)])

-----------------------------------------------------------------------------
KpuShape(n) == << 1, n.out_channels, n.in_shape[3], n.in_shape[4] >>
KpuPad(n) == IF n.filter_h = 1 THEN 0 ELSE 1
KpuInputs(n) == IF n.depthwise THEN 1 ELSE n.in_shape[2]

\* Sums over all taps of the filter; off the image the pad value is read.
KpuSum(n, i, Term(_, _)) ==
    LET X(ic, y, x) ==
            IF x < 0 \/ x >= n.in_shape[4] \/ y < 0 \/ y >= n.in_shape[3] THEN n.pad_value
            ELSE n.input[offset(n.in_shape, <<0, IF n.depthwise THEN i[2] ELSE ic, y, x>>)]
        W(ic, ky, kx) == n.weights[((i[2] * KpuInputs(n) + ic) * n.filter_h + ky) * n.filter_h + kx]
    IN  SumOver(KpuInputs(n), LAMBDA ic : SumOver(n.filter_h, LAMBDA ky : SumOver(n.filter_h, LAMBDA kx :
          Term(X(ic, i[3] - KpuPad(n) + ky, i[4] - KpuPad(n) + kx), W(ic, ky, kx)))))

\* Fault: the constant term is added once, not once per input channel.
WorkspaceAddsOnce(n, i) ==
    KpuSum(n, i, LAMBDA x, w : x * w)
      + ((n.arg_x * KpuSum(n, i, LAMBDA x, w : x)) \div 2^n.shift_x)
      + ((n.arg_w * KpuSum(n, i, LAMBDA x, w : w)) \div 2^n.shift_w) + n.arg_add
Workspace(n, i) ==
    KpuSum(n, i, LAMBDA x, w : x * w)
      + ((n.arg_x * KpuSum(n, i, LAMBDA x, w : x)) \div 2^n.shift_x)
      + ((n.arg_w * KpuSum(n, i, LAMBDA x, w : w)) \div 2^n.shift_w) + n.arg_add * KpuInputs(n)

\* The last segment that starts below the value; the table starts at the
\* least number there is.
SegmentOf(n, v) ==
    LET below == { k \in 1..Len(n.activation) : v > n.activation[k].start_x }
    IN  n.activation[CHOOSE k \in below : \A j \in below : j <= k]

KpuActivated(n, oc, v) ==
    LET bn    == n.batchnorm[oc + 1]
        value == (v * bn.mul) \div 2^bn.shift + bn.add
        seg   == SegmentOf(n, value)
    IN  Byte(CarryShiftBanker((value - seg.start_x) * seg.mul, seg.shift) + seg.add)

kpu_conv2d(n) == Tensor(KpuShape(n), LAMBDA i : KpuActivated(n, i[2], Workspace(n, i)))

\* The same convolution on floats: only the taps on the image, a bias.
fake_kpu_conv2d(n) ==
    LET h == n.in_shape[3]
        w == n.in_shape[4]
        Rows(i) == Most2(0, KpuPad(n) - i[3]) .. Least2(n.filter_h, h - (i[3] - KpuPad(n))) - 1
        Cols(i) == Most2(0, KpuPad(n) - i[4]) .. Least2(n.filter_h, w - (i[4] - KpuPad(n))) - 1
    IN  Tensor(KpuShape(n), LAMBDA i :
          Activated(n.bias[i[2]] + SumOver(KpuInputs(n), LAMBDA ic :
            OverTaps("add", 0, Rows(i), Cols(i), LAMBDA ky, kx :
              n.input[offset(n.in_shape, << 0, IF n.depthwise THEN i[2] ELSE ic,
                                                  i[3] - KpuPad(n) + ky, i[4] - KpuPad(n) + kx >>)]
                      * n.weights[((i[2] * KpuInputs(n) + ic) * n.filter_h + ky) * n.filter_h + kx])), n))

-----------------------------------------------------------------------------
(***************************************************************************)
(* Pooling.  A kind is what is taken of the window, its side and the       *)
(* stride: max_2_s1 is <<"max", 2, 1>>.                                    *)
(***************************************************************************)
PoolTypes == { <<"bypass", 1, 1>>, <<"max", 2, 2>>, <<"max", 2, 1>>, <<"max", 4, 4>>,
               <<"mean", 2, 2>>, <<"mean", 2, 1>>, <<"mean", 4, 4>>,
               <<"left_top", 2, 2>>, <<"left_top", 4, 4>>, <<"right_top", 2, 2>> }

get_kpu_filter_size(type) == type[2]
get_kpu_filter_stride(type) == type[3]
get_kpu_padding(type) == [before |-> 0, after |-> IF type[2] = 2 /\ type[3] = 1 THEN 1 ELSE 0]
get_kpu_pool_output_size(input, type) == input \div get_kpu_filter_stride(type)
get_kpu_select_pool_offset(type) == IF type[1] = "right_top" THEN <<0, 1>> ELSE <<0, 0>>

PoolShape(n) == << 1, n.in_shape[2], get_kpu_pool_output_size(n.in_shape[3], n.type),
                   get_kpu_pool_output_size(n.in_shape[4], n.type) >>

Pooled(n, Outside(_, _, _)) ==
    LET h == n.in_shape[3]
        w == n.in_shape[4]
        side == 0..(get_kpu_filter_size(n.type) - 1)
        off  == get_kpu_select_pool_offset(n.type)
        In(c, y, x) == IF y < h /\ x < w THEN n.input[offset(n.in_shape, <<0, c, y, x>>)] ELSE Outside(c, y, x)
    IN  Tensor(PoolShape(n), LAMBDA i :
          LET y == i[3] * get_kpu_filter_stride(n.type)
              x == i[4] * get_kpu_filter_stride(n.type)
          IN  CASE n.type[1] = "max"  -> OverTaps("max", 0, side, side, LAMBDA ky, kx : In(i[2], y + ky, x + kx))
                [] n.type[1] = "mean" -> OverTaps("add", 0, side, side, LAMBDA ky, kx : In(i[2], y + ky, x + kx))
                                           \div (get_kpu_filter_size(n.type) * get_kpu_filter_size(n.type))
                [] OTHER -> In(i[2], y + off[1], x + off[2]))

\* Past the border a mean reads the border again, the others nothing.
kpu_pool2d(n) ==
    Pooled(n, LAMBDA c, y, x :
      IF n.type[1] = "mean"
      THEN n.input[offset(n.in_shape, <<0, c, Least2(y, n.in_shape[3] - 1), Least2(x, n.in_shape[4] - 1)>>)]
      ELSE 0)
=============================================================================
