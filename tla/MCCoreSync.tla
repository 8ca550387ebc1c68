----------------------------- MODULE MCCoreSync -----------------------------
(***************************************************************************)
(* TLC instance of CoreSync.                                               *)
(***************************************************************************)
EXTENDS CoreSync

OneOrTwo == {1, 2}
=============================================================================
