----------------------------- MODULE MCMulUart -----------------------------
(***************************************************************************)
(* TLC instances of MulUart.                                               *)
(***************************************************************************)
EXTENDS MulUartAsUart

Both      == {0, 1}
ManyBytes == [c \in Both |-> IF c = 0 THEN 2 ELSE 1]
SomeArgs  == {<<8, 0, 1>>, <<8, 2, 1>>, <<8, 0, 0>>}
AllArgs   == (6 .. 9) \X (0 .. 2) \X (0 .. 3)
=============================================================================
