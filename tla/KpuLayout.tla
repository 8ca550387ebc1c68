----------------------------- MODULE KpuLayout -----------------------------
(***************************************************************************)
(* How the KPU of the K210 keeps a feature map (k210_runtime_op_utility.h):*)
(* rows of 64 bytes; a narrow channel shares its rows with others of its   *)
(* group, a wide one takes several.                                        *)
(***************************************************************************)
EXTENDS Integers

LineBytes == 64

\* Fault: two channels of 17 to 32 bytes are laid out as four of 16.
RowLayoutNarrow(width) ==
    IF width <= 32 THEN [groups |-> 4, row_len |-> 1, row_pitch |-> 16]
    ELSE [groups |-> 1, row_len |-> (width + 63) \div 64, row_pitch |-> 64]

get_kpu_row_layout(width) ==
    IF width <= 16 THEN [groups |-> 4, row_len |-> 1, row_pitch |-> 16]
    ELSE IF width <= 32 THEN [groups |-> 2, row_len |-> 1, row_pitch |-> 32]
    ELSE [groups |-> 1, row_len |-> (width + 63) \div 64, row_pitch |-> 64]

get_kpu_rows(width, height, channels) ==
    LET layout == get_kpu_row_layout(width)
        line   == IF channels < layout.groups THEN channels ELSE layout.groups
    IN  layout.row_len * height * ((channels + line - 1) \div line)

get_kpu_bytes(width, height, channels) == get_kpu_rows(width, height, channels) * LineBytes

\* Where kpu_upload puts, and kpu_download finds, a byte of a feature map.
Place(width, height, oc, y, x) ==
    LET layout == get_kpu_row_layout(width)
    IN  (oc \div layout.groups) * layout.row_len * height * LineBytes
          + (oc % layout.groups) * layout.row_pitch + y * layout.row_len * LineBytes + x
=============================================================================
