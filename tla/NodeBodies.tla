----------------------------- MODULE NodeBodies -----------------------------
(***************************************************************************)
(* The bodies of the nodes of a compiled nncase model: what serialize      *)
(* writes with a binary_writer, deserialize must find with a span_reader   *)
(* (runtime/neutral/neutral_ops_body.h, runtime/k210/k210_ops_body.h).  A  *)
(* stream is a sequence of cells; a field of fixed size is one cell, a     *)
(* span one cell per element.  Bodies that are copied as one struct        *)
(* (simple_node_body) are left out.                                        *)
(***************************************************************************)
EXTENDS Integers, Sequences

CONSTANTS
  Options,   \* the options to write: records with the fields below and a kind
  Alignment, \* of the KPU's tables, 256 in the code
  Bases      \* positions at which a body may start

VARIABLES
  options,   \* what is written
  base,      \* the position of the body in the file
  stream,    \* the cells of the body
  got,       \* what was read back
  rest       \* the cells that were not read

bodyVars == <<options, base, stream, got, rest>>

-----------------------------------------------------------------------------
(***************************************************************************)
(* The fields of each struct of options, in the order in which both its    *)
(* serialize and its deserialize name them.                                *)
(***************************************************************************)
concat_options == <<"output", "inner_size", "outer_size", "inputs_count", "inputs", "dims">>
conv2d_options ==
    <<"input", "output", "in_shape", "groups", "out_channels", "padding_h", "padding_w", "filter_h", "filter_w",
      "stride_h", "stride_w", "dilation_h", "dilation_w", "fused_activation", "weights", "bias">>
quantized_conv2d_options ==
    <<"input", "output", "in_shape", "groups", "out_channels", "padding_h", "padding_w", "filter_h", "filter_w",
      "stride_h", "stride_w", "dilation_h", "dilation_w",
      "input_offset", "filter_offset", "output_mul", "output_shift", "output_offset", "bias", "weights">>
conv2d_transpose_options ==
    <<"input", "output", "in_shape", "out_shape", "groups", "padding_h", "padding_w", "filter_h", "filter_w",
      "stride_h", "stride_w", "dilation_h", "dilation_w", "fused_activation", "weights", "bias">>
matmul_options == <<"input_a", "input_b", "output", "a_rows", "a_cols", "b_cols", "fused_activation", "bias">>
quantized_matmul_options ==
    <<"input_a", "input_b", "output", "a_rows", "a_cols", "b_cols",
      "input_a_offset", "input_b_offset", "output_mul", "output_shift", "output_offset", "bias">>
nnil_unary_method_options == <<"input", "output", "body">>
kpu_conv2d_options ==
    <<"main_mem_output", "batches", "reserved0", "layer", "bwsx", "batch_norm", "active", "activation", "para", "weights">>

Kinds == {"concat", "conv2d", "quantized_conv2d", "conv2d_transpose", "matmul", "quantized_matmul",
          "nnil_unary_method", "kpu_conv2d"}
Written(kind) ==
    CASE kind = "concat"            -> concat_options
      [] kind = "conv2d"            -> conv2d_options
      [] kind = "quantized_conv2d"  -> quantized_conv2d_options
      [] kind = "conv2d_transpose"  -> conv2d_transpose_options
      [] kind = "matmul"            -> matmul_options
      [] kind = "quantized_matmul"  -> quantized_matmul_options
      [] kind = "nnil_unary_method" -> nnil_unary_method_options
      [] kind = "kpu_conv2d"        -> kpu_conv2d_options

\* Fault: quantized_conv2d is read with its weights before its bias, as conv2d is.
ReadWeightsFirst(kind) ==
    IF kind = "quantized_conv2d"
    THEN [k \in DOMAIN Written(kind) |->
            CASE Written(kind)[k] = "bias" -> "weights" [] Written(kind)[k] = "weights" -> "bias" [] OTHER -> Written(kind)[k]]
    ELSE Written(kind)
Read(kind) == Written(kind)

Spans == {"inputs", "dims", "weights", "bias", "body", "batch_norm"}
Gaps  == {"bwsx", "active", "para"}  \* up to the next aligned position

\* How many elements deserialize takes for a span, from what it read before.
LengthOf(kind, field, g, left) ==
    CASE field \in {"inputs", "dims"} -> g.inputs_count
      [] field = "body" -> left
      [] field = "batch_norm" -> g.layer.oc
      [] field = "bias" ->
           CASE kind \in {"conv2d", "quantized_conv2d"} -> g.out_channels
             [] kind = "conv2d_transpose" -> g.out_shape[2]
             [] OTHER -> g.b_cols
      [] field = "weights" ->
           CASE kind = "kpu_conv2d" ->
                  (IF g.layer.depth_wise THEN 1 ELSE g.layer.ic) * g.layer.oc * g.layer.filter * g.layer.filter
             [] kind = "conv2d_transpose" -> ((g.out_shape[2] * g.in_shape[2]) \div g.groups) * g.filter_h * g.filter_w
             [] OTHER -> ((g.out_channels * g.in_shape[2]) \div g.groups) * g.filter_h * g.filter_w

\* What is written has the fields of its kind, the layer has those that serialize
\* fills in, and a span has as many elements as its other fields say.
ASSUME OptionsAssumption ==
    /\ Alignment \in Nat \ {0} /\ Bases \subseteq Nat
    /\ \A o \in Options :
         /\ o.kind \in Kinds
         /\ o.kind = "kpu_conv2d" => Gaps \cup {"ic", "oc", "filter", "depth_wise"} \subseteq DOMAIN o.layer
         /\ \A k \in DOMAIN Written(o.kind) :
              LET f == Written(o.kind)[k]
              IN  f \in Spans => o[f] \in Seq(Int) /\ Len(o[f]) = LengthOf(o.kind, f, o, Len(o[f]))

-----------------------------------------------------------------------------
BodyInit ==
    /\ options \in Options /\ base \in Bases
    /\ stream = <<>> /\ got = <<>> /\ rest = 0

Cell(f, v) == <<f, v>>
GapAt(position) == (Alignment - (position % Alignment)) % Alignment

\* What a binary_writer adds for a field, after the cells before it.
CellsOf(f, before) ==
    IF f \in Spans THEN [j \in 1..Len(options[f]) |-> Cell(f, options[f][j])]
    ELSE IF f \in Gaps THEN [j \in 1..GapAt(base + Len(before)) |-> Cell("gap", 0)]
    ELSE << Cell(f, options[f]) >>

\* serialize.  The layer is written last, into the place kept for it, when
\* the gaps before the tables are known.
Serialize ==
    LET fields == Written(options.kind)
        at[k \in 0..Len(fields)] == IF k = 0 THEN <<>> ELSE at[k - 1] \o CellsOf(fields[k], at[k - 1])
        GapOf(f) == LET k == CHOOSE j \in DOMAIN fields : fields[j] = f IN Len(at[k]) - Len(at[k - 1])
        layer == [options.layer EXCEPT !.bwsx = GapOf("bwsx"), !.active = GapOf("active"), !.para = GapOf("para")]
    IN  /\ stream = <<>>
        /\ stream' = [c \in DOMAIN at[Len(fields)] |->
                        IF at[Len(fields)][c][1] = "layer" THEN Cell("layer", layer) ELSE at[Len(fields)][c]]
        /\ UNCHANGED <<options, base, got, rest>>

\* What a span_reader takes for a field, at g.at with g.fields read before.
Take(g, f) ==
    LET n     == IF f \in Spans THEN LengthOf(options.kind, f, g.fields, Len(stream) - g.at) ELSE 1
        value == IF f \in Spans THEN [j \in 1..n |-> stream[g.at + j][2]] ELSE stream[g.at + 1][2]
    IN  IF f \in Gaps THEN [g EXCEPT !.at = @ + g.fields.layer[f]]
        ELSE [at |-> g.at + n, fields |-> [h \in DOMAIN g.fields \cup {f} |-> IF h = f THEN value ELSE g.fields[h]]]

\* deserialize, over the span of the body.
Deserialize ==
    LET fields == Read(options.kind)
        after[k \in 0..Len(fields)] ==
            IF k = 0 THEN [at |-> 0, fields |-> <<>>] ELSE Take(after[k - 1], fields[k])
    IN  /\ stream # <<>> /\ got = <<>>
        /\ got' = after[Len(fields)].fields
        /\ rest' = Len(stream) - after[Len(fields)].at
        /\ UNCHANGED <<options, base, stream>>

BodyNext == Serialize \/ Deserialize
BodySpec == BodyInit /\ [][BodyNext]_bodyVars

-----------------------------------------------------------------------------
(* What a node's options were when the model was compiled is what the      *)
(* interpreter finds: every field, every span with its length, wherever in *)
(* the file the body starts, and nothing of the body is left.              *)
BodiesRoundTrip ==
    got # <<>> =>
      /\ rest = 0
      /\ \A f \in DOMAIN got \ {"layer"} : got[f] = options[f]
      /\ "layer" \in DOMAIN got =>
           \A f \in DOMAIN got.layer \ Gaps : got.layer[f] = options.layer[f]

(* The tables the KPU is pointed at start on aligned addresses of the file.*)
TablesAligned ==
    (got # <<>> /\ options.kind = "kpu_conv2d") =>
      \A k \in 2..Len(stream) :
        stream[k][1] \in {"batch_norm", "activation", "weights"} /\ stream[k - 1][1] # stream[k][1]
          => (base + k - 1) % Alignment = 0

(* A body is read back whole, and where the hardware wants it.             *)
BodiesPreserved == BodiesRoundTrip /\ TablesAligned
=============================================================================
