--------------------------- MODULE RecursiveLock ---------------------------
(***************************************************************************)
(* What a corelock promises: one core at a time owns it, and a core that   *)
(* owns it may take it again and must give it back as often.               *)
(***************************************************************************)
EXTENDS Integers

CONSTANTS Cores, NoCore

VARIABLES owner, depth

rvars == <<owner, depth>>

LInit == owner = NoCore /\ depth = 0

Acquire(c) ==
  /\ owner \in {NoCore, c}
  /\ owner' = c
  /\ depth' = depth + 1

GiveBack(c) ==
  /\ owner = c
  /\ depth > 0
  /\ depth' = depth - 1
  /\ owner' = IF depth = 1 THEN NoCore ELSE c

LNext == \E c \in Cores : Acquire(c) \/ GiveBack(c)

LSpec == LInit /\ [][LNext]_rvars
=============================================================================
