--------------------------- MODULE MCPersonBoxes ---------------------------
(***************************************************************************)
(* TLC instances of PersonBoxes with two score steps to 1.0: 9 is below    *)
(* the limit of 5.0; 10 and 11, and 11 and 12, look alike to the           *)
(* comparator, 10 and 12 do not.  The sigmoid of 1.0, which is 2 steps, is *)
(* the first above the score_thresh of 0.7.                                *)
(***************************************************************************)
EXTENDS PersonBoxes

HalfScores == 9 .. 12
=============================================================================
