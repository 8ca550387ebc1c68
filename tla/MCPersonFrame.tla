--------------------------- MODULE MCPersonFrame ---------------------------
(***************************************************************************)
(* TLC instances of PersonFrame: three slots and frames of up to three     *)
(* boxes, some so close together that they could be taken for one person.  *)
(***************************************************************************)
EXTENDS PersonFrame

Axis    == {0, 1, 4}
NoDrift == {0}
=============================================================================
