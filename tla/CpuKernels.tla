----------------------------- MODULE CpuKernels -----------------------------
(***************************************************************************)
(* The NHWC kernels of nncase (kernels/cpu/cpu_kernels.h): the same        *)
(* operations with the channels of a pixel next to each other, and with    *)
(* quantization offsets subtracted where the NCHW kernels add them.        *)
(***************************************************************************)
EXTENDS NeutralKernels

NhwcShape(n, channels) == << n.in_shape[1], OutH(n, n.in_shape[2]), OutW(n, n.in_shape[3]), channels >>
Pixel(n, i, ky, kx, c) == n.input[offset(n.in_shape, <<i[1], AtY(n, i[2], ky), AtX(n, i[3], kx), c>>)]
OverImage(n, i, op, start, Tap(_, _)) ==
    OverTaps(op, start, TapsY(n, n.in_shape[2], i[2]), TapsX(n, n.in_shape[3], i[3]), Tap)

\* Every output channel sees every channel of each pixel.
NhwcConvolved(n, X(_), W(_), Finish(_)) ==
    LET depth == n.in_shape[4]
        Weight(oc, ky, kx, ic) == n.weights[((oc * n.filter_h + ky) * n.filter_w + kx) * depth + ic]
    IN  Tensor(NhwcShape(n, n.out_channels), LAMBDA i :
          Finish(n.bias[i[4]] + OverImage(n, i, "add", 0, LAMBDA ky, kx :
            SumOver(depth, LAMBDA ic : X(Pixel(n, i, ky, kx, ic)) * W(Weight(i[4], ky, kx, ic))))))

\* Every output channel sees the channel of its own number.
NhwcDepthwise(n, X(_), W(_), Finish(_)) ==
    Tensor(NhwcShape(n, n.in_shape[4]), LAMBDA i :
      Finish(n.bias[i[4]] + OverImage(n, i, "add", 0, LAMBDA ky, kx :
        X(Pixel(n, i, ky, kx, i[4])) * W(n.weights[(i[4] * n.filter_h + ky) * n.filter_w + kx]))))

cpu_conv2d(n) == NhwcConvolved(n, LAMBDA x : x, LAMBDA w : w, LAMBDA v : Activated(v, n))
cpu_depthwise_conv2d(n) == NhwcDepthwise(n, LAMBDA x : x, LAMBDA w : w, LAMBDA v : Activated(v, n))
cpu_quantized_conv2d(n) ==
    NhwcConvolved(n, LAMBDA x : x - n.input_offset, LAMBDA w : w - n.filter_offset, LAMBDA v : Requantized(v, n))
cpu_quantized_depthwise_conv2d(n) ==
    NhwcDepthwise(n, LAMBDA x : x - n.input_offset, LAMBDA w : w - n.filter_offset, LAMBDA v : Requantized(v, n))

cpu_reduce_window2d(n) ==
    Tensor(NhwcShape(n, n.in_shape[4]), LAMBDA i :
      LET value == OverImage(n, i, n.reduce_op, n.init_value, LAMBDA ky, kx : Pixel(n, i, ky, kx, i[4]))
          count == OverImage(n, i, "add", 0, LAMBDA ky, kx : 1)
      IN  Reduced(value, count, n))
=============================================================================
