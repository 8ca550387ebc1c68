---------------------------- MODULE KernelUtils ----------------------------
(***************************************************************************)
(* What the nncase kernels share (kernels/kernel_utils.h and               *)
(* runtime/runtime_op_utility.h): the address of an element of a tensor in *)
(* flat memory, the window a filter has on an image, and fixed-point       *)
(* rounding.                                                               *)
(*                                                                         *)
(* A shape is a sequence of four extents; a tensor of that shape is a      *)
(* function on 0 .. compute_size(shape) - 1, the memory it occupies.       *)
(* Floats are integers here: the kernels only add, multiply and compare    *)
(* them, which is exact on the small numbers of the instances.             *)
(***************************************************************************)
EXTENDS Integers, Sequences, FiniteSets

Least2(a, b) == IF a < b THEN a ELSE b
Most2(a, b) == IF a < b THEN b ELSE a
Clamp(v, low, high) == Least2(Most2(v, low), high)
Byte(v) == Clamp(v, 0, 255)

Apply(op, a, b) ==
    CASE op = "add" -> a + b
      [] op = "sub" -> a - b
      [] op = "mul" -> a * b
      [] op = "min" -> Least2(a, b)
      [] op = "max" -> Most2(a, b)

\* for (k = lo; k < hi; k++) acc = Step(acc, k);
Loop(lo, hi, start, Step(_, _)) ==
    LET acc[k \in lo..hi] == IF k = lo THEN start ELSE Step(acc[k - 1], k - 1)
    IN  IF lo < hi THEN acc[hi] ELSE start

\* The first n elements of x, and the first n of each of the first m rows of x.
Accumulate(op, start, x, n) ==
    LET acc[k \in 0..n] == IF k = 0 THEN start ELSE Apply(op, acc[k - 1], x[k - 1])
    IN  acc[n]
AccumulateRows(op, start, x, m, n) ==
    LET acc[k \in 0..m] == IF k = 0 THEN start ELSE Accumulate(op, acc[k - 1], x[k - 1], n)
    IN  acc[m]

SumOver(n, Term(_)) == Accumulate("add", 0, [k \in 0..(n - 1) |-> Term(k)], n)

-----------------------------------------------------------------------------
(***************************************************************************)
(* Tensors.                                                                *)
(***************************************************************************)
compute_size(shape) == shape[1] * shape[2] * shape[3] * shape[4]

offset(shape, i) == ((i[1] * shape[2] + i[2]) * shape[3] + i[3]) * shape[4] + i[4]

\* The index of the element at an address: what the nested loops count.
Index(shape, p) == << p \div (shape[2] * shape[3] * shape[4]),
                      (p \div (shape[3] * shape[4])) % shape[2],
                      (p \div shape[4]) % shape[3],
                      p % shape[4] >>

Tensor(shape, Element(_)) == [p \in 0..(compute_size(shape) - 1) |-> Element(Index(shape, p))]

get_reduced_offset(i, shape) == [k \in 1..4 |-> IF i[k] >= shape[k] THEN 0 ELSE i[k]]

-----------------------------------------------------------------------------
(***************************************************************************)
(* Windows.  The division of C truncates toward zero.                      *)
(***************************************************************************)
CDiv(a, b) == IF a >= 0 THEN a \div b ELSE -((-a) \div b)

get_windowed_output_size(size, filter, stride, dilation, padding) ==
    CDiv(size + padding.before + padding.after - ((filter - 1) * dilation + 1) + stride, stride)

\* Fault: the end of the window is rounded down.
TapsShort(size, filter, origin, dilation) ==
    Most2(0, CDiv(-origin + dilation - 1, dilation))
        .. Least2(filter, CDiv(size - origin, dilation)) - 1
\* The taps of the filter that fall on an image of the given size.
Taps(size, filter, origin, dilation) ==
    Most2(0, CDiv(-origin + dilation - 1, dilation))
        .. Least2(filter, CDiv(size - origin + dilation - 1, dilation)) - 1

\* Fold over the taps of a window, rows first, as all the kernels do.
First(S) == CHOOSE k \in S : \A j \in S : k <= j
OverTaps(op, start, rows, cols, Tap(_, _)) ==
    AccumulateRows(op, start,
               [r \in 0..(Cardinality(rows) - 1) |-> [c \in 0..(Cardinality(cols) - 1) |-> Tap(First(rows) + r, First(cols) + c)]],
               Cardinality(rows), Cardinality(cols))

-----------------------------------------------------------------------------
(***************************************************************************)
(* Fixed point.  >> on a negative number rounds down.                      *)
(***************************************************************************)
carry_shift(v, shift) == IF shift = 0 THEN v ELSE (v + 2^(shift - 1)) \div 2^shift

\* carry_shift<T, true>: a fraction of one half goes to the even neighbour.
CarryShiftBanker(v, shift) ==
    LET integral   == v \div 2^shift
        fractional == v % 2^shift
        half       == 2^(shift - 1)
        sign       == IF v < 0 THEN -1 ELSE 1
    IN  IF shift = 0 THEN v
        ELSE IF fractional > half \/ (fractional = half /\ integral % 2 = 1)
             THEN integral + sign
             ELSE integral

mul_and_carry_shift(v, mul, shift) == carry_shift(v * mul, shift)
=============================================================================
