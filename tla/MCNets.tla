------------------------------- MODULE MCNets -------------------------------
(***************************************************************************)
(* One TLC run for the networks: the modules that interpret their results  *)
(* (MCDetectors) and the runtime that computes them (MCNncase).  The two   *)
(* share no state; a behaviour is one of either.                           *)
(***************************************************************************)
EXTENDS MCDetectors, MCNncase

Init == (NotDetecting /\ RuntimeInit) \/ (DetectInit /\ NoRuntime)
Next == \/ RuntimeNext /\ UNCHANGED <<Others, cornerVars>>
        \/ NoRuntime /\ DetectNext /\ UNCHANGED <<programVars, nnilVars, bodyVars>>
Spec == Init /\ [][Next]_<<Others, cornerVars, programVars, nnilVars, bodyVars>>
=============================================================================
