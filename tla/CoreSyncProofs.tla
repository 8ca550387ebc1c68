--------------------------- MODULE CoreSyncProofs ---------------------------
(***************************************************************************)
(* Theorems about CoreSync, for any number of cores, any depth of locking  *)
(* and any number of units.                                                *)
(***************************************************************************)
EXTENDS CoreSync, FiniteSetTheorems, TLAPS

\* What a core has loaded is still there when it stores.
Fresh ==
  \A c \in Cores : pc[c] = "store" =>
    IF op[c] \in Counting THEN seen[c].count = units
    ELSE seen[c].count = count /\ seen[c].core = core

\* The lock is free exactly when it has no core.
FreeHasNoCore == (count = 0) <=> (core = NoCore)

\* The core has stored its lock and is about to know; it is about to give one back.
JustTaken(c) == op[c] \in Locking /\ pc[c] = "won"
GivingBack(c) == op[c] = "unlock" /\ pc[c] \in {"swap", "load", "store"}
Known(c) == held[c] + (IF JustTaken(c) THEN 1 ELSE 0) + (IF GivingBack(c) THEN 1 ELSE 0)

\* count is what the core of the lock knows of; no other core knows of any.
DepthKnown ==
  /\ core \in Cores => count = Known(core)
  /\ \A c \in Cores : c # core => held[c] = 0 /\ ~JustTaken(c)

\* The inductive invariant.
CoreInv ==
  /\ TypeOK
  /\ SpinExclusive
  /\ Fresh
  /\ FreeHasNoCore
  /\ DepthKnown
  /\ UnitsConserved
  /\ WaitingCounts

\* Every step keeps the types.
LEMMA TypeStep ==
  ASSUME TypeOK, [Next]_vars
  PROVE  TypeOK'
<1>1. CASE UNCHANGED vars
  BY <1>1 DEF vars, TypeOK, Nothing, Objects, ObjectOf, Locking, Counting, lock, semaphore, history
<1>2. ASSUME NEW c \in Cores, Call(c) \/ Step(c) PROVE TypeOK'
  <2>1. CASE CallLock(c)
    BY <2>1, CoresAssumption DEF CallLock, Enter, TypeOK, Nothing, Objects, ObjectOf, Locking, Counting, lock, semaphore, history
  <2>2. CASE CallUnlock(c)
    BY <2>2, CoresAssumption DEF CallUnlock, Enter, TypeOK, Nothing, Objects, ObjectOf, Locking, Counting, lock, semaphore, history
  <2>3. CASE CallSignal(c)
    BY <2>3, CoresAssumption DEF CallSignal, Enter, TypeOK, Nothing, Objects, ObjectOf, Locking, Counting, lock, semaphore, history
  <2>4. CASE CallDown(c)
    BY <2>4, CoresAssumption DEF CallDown, Enter, TypeOK, Nothing, Objects, ObjectOf, Locking, Counting, lock, semaphore, history
  <2>5. CASE Swap(c)
    BY <2>5, CoresAssumption DEF Swap, TypeOK, Nothing, Objects, ObjectOf, Locking, Counting, lock, semaphore, history
  <2>6. CASE SwapFails(c)
    BY <2>6, CoresAssumption DEF SwapFails, TypeOK, Nothing, Objects, ObjectOf, Locking, Counting, lock, semaphore, history
  <2>7. CASE Load(c)
    BY <2>7, CoresAssumption DEF Load, TypeOK, Nothing, Objects, ObjectOf, Locking, Counting, lock, semaphore, history
  <2>8. CASE Release(c)
    BY <2>8, CoresAssumption DEF Release, Resume, TypeOK, Nothing, Objects, ObjectOf, Locking, Counting, lock, semaphore, history
  <2>9. CASE Take(c)
    BY <2>9, CoresAssumption DEF Take, MayTake, TypeOK, Nothing, Objects, ObjectOf, Locking, Counting, lock, semaphore, history
  <2>10. CASE Refuse(c)
    BY <2>10, CoresAssumption DEF Refuse, MayTake, TypeOK, Nothing, Objects, ObjectOf, Locking, Counting, lock, semaphore, history
  <2>11. CASE StopWaiting(c)
    BY <2>11, CoresAssumption DEF StopWaiting, TypeOK, Nothing, Objects, ObjectOf, Locking, Counting, lock, semaphore, history
  <2>12. CASE Drop(c)
    BY <2>12, CoresAssumption DEF Drop, TypeOK, Nothing, Objects, ObjectOf, Locking, Counting, lock, semaphore, history
  <2>13. CASE Exit(c)
    BY <2>13, CoresAssumption DEF Exit, TypeOK, Nothing, Objects, ObjectOf, Locking, Counting, lock, semaphore, history
  <2>14. CASE Signal(c)
    BY <2>14, CoresAssumption DEF Signal, TypeOK, Nothing, Objects, ObjectOf, Locking, Counting, lock, semaphore, history
  <2>15. CASE Down(c)
    BY <2>15, CoresAssumption DEF Down, Enough, TypeOK, Nothing, Objects, ObjectOf, Locking, Counting, lock, semaphore, history
  <2>16. CASE DownFails(c)
    BY <2>16, CoresAssumption DEF DownFails, Enough, TypeOK, Nothing, Objects, ObjectOf, Locking, Counting, lock, semaphore, history
  <2>17. QED
    BY <1>2, <2>1, <2>2, <2>3, <2>4, <2>5, <2>6, <2>7, <2>8, <2>9, <2>10, <2>11, <2>12, <2>13, <2>14, <2>15, <2>16 DEF Call, Step
<1>3. QED
  BY <1>1, <1>2 DEF Next

\* Every step keeps the spinlocks exclusive.
LEMMA ExclusiveStep ==
  ASSUME TypeOK, SpinExclusive, [Next]_vars
  PROVE  SpinExclusive'
<1>1. CASE UNCHANGED vars
  BY <1>1 DEF vars, TypeOK, SpinExclusive, Inside, Objects, ObjectOf, Locking, Counting, lock, semaphore, history
<1>2. ASSUME NEW c \in Cores, Call(c) \/ Step(c) PROVE SpinExclusive'
  <2>1. CASE CallLock(c)
    BY <2>1 DEF CallLock, Enter, TypeOK, SpinExclusive, Inside, Objects, ObjectOf, Locking, Counting, lock, semaphore, history
  <2>2. CASE CallUnlock(c)
    BY <2>2 DEF CallUnlock, Enter, TypeOK, SpinExclusive, Inside, Objects, ObjectOf, Locking, Counting, lock, semaphore, history
  <2>3. CASE CallSignal(c)
    BY <2>3 DEF CallSignal, Enter, TypeOK, SpinExclusive, Inside, Objects, ObjectOf, Locking, Counting, lock, semaphore, history
  <2>4. CASE CallDown(c)
    BY <2>4 DEF CallDown, Enter, TypeOK, SpinExclusive, Inside, Objects, ObjectOf, Locking, Counting, lock, semaphore, history
  <2>5. CASE Swap(c)
    BY <2>5 DEF Swap, TypeOK, SpinExclusive, Inside, Objects, ObjectOf, Locking, Counting, lock, semaphore, history
  <2>6. CASE SwapFails(c)
    BY <2>6 DEF SwapFails, TypeOK, SpinExclusive, Inside, Objects, ObjectOf, Locking, Counting, lock, semaphore, history
  <2>7. CASE Load(c)
    BY <2>7 DEF Load, TypeOK, SpinExclusive, Inside, Objects, ObjectOf, Locking, Counting, lock, semaphore, history
  <2>8. CASE Release(c)
    BY <2>8 DEF Release, Resume, TypeOK, SpinExclusive, Inside, Objects, ObjectOf, Locking, Counting, lock, semaphore, history
  <2>9. CASE Take(c)
    BY <2>9 DEF Take, MayTake, TypeOK, SpinExclusive, Inside, Objects, ObjectOf, Locking, Counting, lock, semaphore, history
  <2>10. CASE Refuse(c)
    BY <2>10 DEF Refuse, MayTake, TypeOK, SpinExclusive, Inside, Objects, ObjectOf, Locking, Counting, lock, semaphore, history
  <2>11. CASE StopWaiting(c)
    BY <2>11 DEF StopWaiting, TypeOK, SpinExclusive, Inside, Objects, ObjectOf, Locking, Counting, lock, semaphore, history
  <2>12. CASE Drop(c)
    BY <2>12 DEF Drop, TypeOK, SpinExclusive, Inside, Objects, ObjectOf, Locking, Counting, lock, semaphore, history
  <2>13. CASE Exit(c)
    BY <2>13 DEF Exit, TypeOK, SpinExclusive, Inside, Objects, ObjectOf, Locking, Counting, lock, semaphore, history
  <2>14. CASE Signal(c)
    BY <2>14 DEF Signal, TypeOK, SpinExclusive, Inside, Objects, ObjectOf, Locking, Counting, lock, semaphore, history
  <2>15. CASE Down(c)
    BY <2>15 DEF Down, Enough, TypeOK, SpinExclusive, Inside, Objects, ObjectOf, Locking, Counting, lock, semaphore, history
  <2>16. CASE DownFails(c)
    BY <2>16 DEF DownFails, Enough, TypeOK, SpinExclusive, Inside, Objects, ObjectOf, Locking, Counting, lock, semaphore, history
  <2>17. QED
    BY <1>2, <2>1, <2>2, <2>3, <2>4, <2>5, <2>6, <2>7, <2>8, <2>9, <2>10, <2>11, <2>12, <2>13, <2>14, <2>15, <2>16 DEF Call, Step
<1>3. QED
  BY <1>1, <1>2 DEF Next

\* Only the core that is inside a spinlock writes what is behind it.
LEMMA FreshStep ==
  ASSUME TypeOK, SpinExclusive, Fresh, [Next]_vars
  PROVE  Fresh'
<1>1. CASE UNCHANGED vars
  BY <1>1 DEF vars, TypeOK, SpinExclusive, Fresh, Inside, Objects, ObjectOf, Locking, Counting, lock, semaphore, history
<1>2. ASSUME NEW c \in Cores, Call(c) \/ Step(c) PROVE Fresh'
  <2>1. CASE CallLock(c)
    BY <2>1 DEF CallLock, Enter, TypeOK, SpinExclusive, Fresh, Inside, Objects, ObjectOf, Locking, Counting, lock, semaphore, history
  <2>2. CASE CallUnlock(c)
    BY <2>2 DEF CallUnlock, Enter, TypeOK, SpinExclusive, Fresh, Inside, Objects, ObjectOf, Locking, Counting, lock, semaphore, history
  <2>3. CASE CallSignal(c)
    BY <2>3 DEF CallSignal, Enter, TypeOK, SpinExclusive, Fresh, Inside, Objects, ObjectOf, Locking, Counting, lock, semaphore, history
  <2>4. CASE CallDown(c)
    BY <2>4 DEF CallDown, Enter, TypeOK, SpinExclusive, Fresh, Inside, Objects, ObjectOf, Locking, Counting, lock, semaphore, history
  <2>5. CASE Swap(c)
    BY <2>5 DEF Swap, TypeOK, SpinExclusive, Fresh, Inside, Objects, ObjectOf, Locking, Counting, lock, semaphore, history
  <2>6. CASE SwapFails(c)
    BY <2>6 DEF SwapFails, TypeOK, SpinExclusive, Fresh, Inside, Objects, ObjectOf, Locking, Counting, lock, semaphore, history
  <2>7. CASE Load(c)
    BY <2>7 DEF Load, TypeOK, SpinExclusive, Fresh, Inside, Objects, ObjectOf, Locking, Counting, lock, semaphore, history
  <2>8. CASE Release(c)
    BY <2>8 DEF Release, Resume, TypeOK, SpinExclusive, Fresh, Inside, Objects, ObjectOf, Locking, Counting, lock, semaphore, history
  <2>9. CASE Take(c)
    BY <2>9 DEF Take, MayTake, TypeOK, SpinExclusive, Fresh, Inside, Objects, ObjectOf, Locking, Counting, lock, semaphore, history
  <2>10. CASE Refuse(c)
    BY <2>10 DEF Refuse, MayTake, TypeOK, SpinExclusive, Fresh, Inside, Objects, ObjectOf, Locking, Counting, lock, semaphore, history
  <2>11. CASE StopWaiting(c)
    BY <2>11 DEF StopWaiting, TypeOK, SpinExclusive, Fresh, Inside, Objects, ObjectOf, Locking, Counting, lock, semaphore, history
  <2>12. CASE Drop(c)
    BY <2>12 DEF Drop, TypeOK, SpinExclusive, Fresh, Inside, Objects, ObjectOf, Locking, Counting, lock, semaphore, history
  <2>13. CASE Exit(c)
    BY <2>13 DEF Exit, TypeOK, SpinExclusive, Fresh, Inside, Objects, ObjectOf, Locking, Counting, lock, semaphore, history
  <2>14. CASE Signal(c)
    BY <2>14 DEF Signal, TypeOK, SpinExclusive, Fresh, Inside, Objects, ObjectOf, Locking, Counting, lock, semaphore, history
  <2>15. CASE Down(c)
    BY <2>15 DEF Down, Enough, TypeOK, SpinExclusive, Fresh, Inside, Objects, ObjectOf, Locking, Counting, lock, semaphore, history
  <2>16. CASE DownFails(c)
    BY <2>16 DEF DownFails, Enough, TypeOK, SpinExclusive, Fresh, Inside, Objects, ObjectOf, Locking, Counting, lock, semaphore, history
  <2>17. QED
    BY <1>2, <2>1, <2>2, <2>3, <2>4, <2>5, <2>6, <2>7, <2>8, <2>9, <2>10, <2>11, <2>12, <2>13, <2>14, <2>15, <2>16 DEF Call, Step
<1>3. QED
  BY <1>1, <1>2 DEF Next

\* The count and the core of the corelock agree.
LEMMA FreeStep ==
  ASSUME TypeOK, Fresh, FreeHasNoCore, [Next]_vars
  PROVE  FreeHasNoCore'
<1>1. CASE UNCHANGED vars
  BY <1>1 DEF vars, TypeOK, Fresh, FreeHasNoCore, Locking, Counting, lock, semaphore, history
<1>2. ASSUME NEW c \in Cores, Call(c) \/ Step(c) PROVE FreeHasNoCore'
  <2>1. CASE CallLock(c)
    BY <2>1, CoresAssumption DEF CallLock, Enter, TypeOK, Fresh, FreeHasNoCore, Locking, Counting, lock, semaphore, history
  <2>2. CASE CallUnlock(c)
    BY <2>2, CoresAssumption DEF CallUnlock, Enter, TypeOK, Fresh, FreeHasNoCore, Locking, Counting, lock, semaphore, history
  <2>3. CASE CallSignal(c)
    BY <2>3, CoresAssumption DEF CallSignal, Enter, TypeOK, Fresh, FreeHasNoCore, Locking, Counting, lock, semaphore, history
  <2>4. CASE CallDown(c)
    BY <2>4, CoresAssumption DEF CallDown, Enter, TypeOK, Fresh, FreeHasNoCore, Locking, Counting, lock, semaphore, history
  <2>5. CASE Swap(c)
    BY <2>5, CoresAssumption DEF Swap, TypeOK, Fresh, FreeHasNoCore, Locking, Counting, lock, semaphore, history
  <2>6. CASE SwapFails(c)
    BY <2>6, CoresAssumption DEF SwapFails, TypeOK, Fresh, FreeHasNoCore, Locking, Counting, lock, semaphore, history
  <2>7. CASE Load(c)
    BY <2>7, CoresAssumption DEF Load, TypeOK, Fresh, FreeHasNoCore, Locking, Counting, lock, semaphore, history
  <2>8. CASE Release(c)
    BY <2>8, CoresAssumption DEF Release, Resume, TypeOK, Fresh, FreeHasNoCore, Locking, Counting, lock, semaphore, history
  <2>9. CASE Take(c)
    BY <2>9, CoresAssumption DEF Take, MayTake, TypeOK, Fresh, FreeHasNoCore, Locking, Counting, lock, semaphore, history
  <2>10. CASE Refuse(c)
    BY <2>10, CoresAssumption DEF Refuse, MayTake, TypeOK, Fresh, FreeHasNoCore, Locking, Counting, lock, semaphore, history
  <2>11. CASE StopWaiting(c)
    BY <2>11, CoresAssumption DEF StopWaiting, TypeOK, Fresh, FreeHasNoCore, Locking, Counting, lock, semaphore, history
  <2>12. CASE Drop(c)
    BY <2>12, CoresAssumption DEF Drop, TypeOK, Fresh, FreeHasNoCore, Locking, Counting, lock, semaphore, history
  <2>13. CASE Exit(c)
    BY <2>13, CoresAssumption DEF Exit, TypeOK, Fresh, FreeHasNoCore, Locking, Counting, lock, semaphore, history
  <2>14. CASE Signal(c)
    BY <2>14, CoresAssumption DEF Signal, TypeOK, Fresh, FreeHasNoCore, Locking, Counting, lock, semaphore, history
  <2>15. CASE Down(c)
    BY <2>15, CoresAssumption DEF Down, Enough, TypeOK, Fresh, FreeHasNoCore, Locking, Counting, lock, semaphore, history
  <2>16. CASE DownFails(c)
    BY <2>16, CoresAssumption DEF DownFails, Enough, TypeOK, Fresh, FreeHasNoCore, Locking, Counting, lock, semaphore, history
  <2>17. QED
    BY <1>2, <2>1, <2>2, <2>3, <2>4, <2>5, <2>6, <2>7, <2>8, <2>9, <2>10, <2>11, <2>12, <2>13, <2>14, <2>15, <2>16 DEF Call, Step
<1>3. QED
  BY <1>1, <1>2 DEF Next

\* The count is what the core of the lock knows of.
LEMMA DepthStep ==
  ASSUME TypeOK, Fresh, FreeHasNoCore, DepthKnown, [Next]_vars
  PROVE  DepthKnown'
<1>1. CASE UNCHANGED vars
  BY <1>1 DEF vars, TypeOK, Fresh, FreeHasNoCore, DepthKnown, Known, JustTaken, GivingBack, Locking, Counting, lock, semaphore, history
<1>2. ASSUME NEW c \in Cores, Call(c) \/ Step(c) PROVE DepthKnown'
  <2>1. CASE CallLock(c)
    BY <2>1, CoresAssumption DEF CallLock, Enter, TypeOK, Fresh, FreeHasNoCore, DepthKnown, Known, JustTaken, GivingBack, Locking, Counting, lock, semaphore, history
  <2>2. CASE CallUnlock(c)
    BY <2>2, CoresAssumption DEF CallUnlock, Enter, TypeOK, Fresh, FreeHasNoCore, DepthKnown, Known, JustTaken, GivingBack, Locking, Counting, lock, semaphore, history
  <2>3. CASE CallSignal(c)
    BY <2>3, CoresAssumption DEF CallSignal, Enter, TypeOK, Fresh, FreeHasNoCore, DepthKnown, Known, JustTaken, GivingBack, Locking, Counting, lock, semaphore, history
  <2>4. CASE CallDown(c)
    BY <2>4, CoresAssumption DEF CallDown, Enter, TypeOK, Fresh, FreeHasNoCore, DepthKnown, Known, JustTaken, GivingBack, Locking, Counting, lock, semaphore, history
  <2>5. CASE Swap(c)
    BY <2>5, CoresAssumption DEF Swap, TypeOK, Fresh, FreeHasNoCore, DepthKnown, Known, JustTaken, GivingBack, Locking, Counting, lock, semaphore, history
  <2>6. CASE SwapFails(c)
    BY <2>6, CoresAssumption DEF SwapFails, TypeOK, Fresh, FreeHasNoCore, DepthKnown, Known, JustTaken, GivingBack, Locking, Counting, lock, semaphore, history
  <2>7. CASE Load(c)
    BY <2>7, CoresAssumption DEF Load, TypeOK, Fresh, FreeHasNoCore, DepthKnown, Known, JustTaken, GivingBack, Locking, Counting, lock, semaphore, history
  <2>8. CASE Release(c)
    BY <2>8, CoresAssumption DEF Release, Resume, TypeOK, Fresh, FreeHasNoCore, DepthKnown, Known, JustTaken, GivingBack, Locking, Counting, lock, semaphore, history
  <2>9. CASE Take(c)
    BY <2>9, CoresAssumption DEF Take, MayTake, TypeOK, Fresh, FreeHasNoCore, DepthKnown, Known, JustTaken, GivingBack, Locking, Counting, lock, semaphore, history
  <2>10. CASE Refuse(c)
    BY <2>10, CoresAssumption DEF Refuse, MayTake, TypeOK, Fresh, FreeHasNoCore, DepthKnown, Known, JustTaken, GivingBack, Locking, Counting, lock, semaphore, history
  <2>11. CASE StopWaiting(c)
    BY <2>11, CoresAssumption DEF StopWaiting, TypeOK, Fresh, FreeHasNoCore, DepthKnown, Known, JustTaken, GivingBack, Locking, Counting, lock, semaphore, history
  <2>12. CASE Drop(c)
    BY <2>12, CoresAssumption DEF Drop, TypeOK, Fresh, FreeHasNoCore, DepthKnown, Known, JustTaken, GivingBack, Locking, Counting, lock, semaphore, history
  <2>13. CASE Exit(c)
    BY <2>13, CoresAssumption DEF Exit, TypeOK, Fresh, FreeHasNoCore, DepthKnown, Known, JustTaken, GivingBack, Locking, Counting, lock, semaphore, history
  <2>14. CASE Signal(c)
    BY <2>14, CoresAssumption DEF Signal, TypeOK, Fresh, FreeHasNoCore, DepthKnown, Known, JustTaken, GivingBack, Locking, Counting, lock, semaphore, history
  <2>15. CASE Down(c)
    BY <2>15, CoresAssumption DEF Down, Enough, TypeOK, Fresh, FreeHasNoCore, DepthKnown, Known, JustTaken, GivingBack, Locking, Counting, lock, semaphore, history
  <2>16. CASE DownFails(c)
    BY <2>16, CoresAssumption DEF DownFails, Enough, TypeOK, Fresh, FreeHasNoCore, DepthKnown, Known, JustTaken, GivingBack, Locking, Counting, lock, semaphore, history
  <2>17. QED
    BY <1>2, <2>1, <2>2, <2>3, <2>4, <2>5, <2>6, <2>7, <2>8, <2>9, <2>10, <2>11, <2>12, <2>13, <2>14, <2>15, <2>16 DEF Call, Step
<1>3. QED
  BY <1>1, <1>2 DEF Next

\* What is added and taken is added to and taken from the present count.
LEMMA UnitsStep ==
  ASSUME TypeOK, Fresh, UnitsConserved, [Next]_vars
  PROVE  UnitsConserved'
<1>1. CASE UNCHANGED vars
  BY <1>1 DEF vars, TypeOK, Fresh, UnitsConserved, Locking, Counting, lock, semaphore, history
<1>2. ASSUME NEW c \in Cores, Call(c) \/ Step(c) PROVE UnitsConserved'
  <2>1. CASE CallLock(c)
    BY <2>1 DEF CallLock, Enter, TypeOK, Fresh, UnitsConserved, Locking, Counting, lock, semaphore, history
  <2>2. CASE CallUnlock(c)
    BY <2>2 DEF CallUnlock, Enter, TypeOK, Fresh, UnitsConserved, Locking, Counting, lock, semaphore, history
  <2>3. CASE CallSignal(c)
    BY <2>3 DEF CallSignal, Enter, TypeOK, Fresh, UnitsConserved, Locking, Counting, lock, semaphore, history
  <2>4. CASE CallDown(c)
    BY <2>4 DEF CallDown, Enter, TypeOK, Fresh, UnitsConserved, Locking, Counting, lock, semaphore, history
  <2>5. CASE Swap(c)
    BY <2>5 DEF Swap, TypeOK, Fresh, UnitsConserved, Locking, Counting, lock, semaphore, history
  <2>6. CASE SwapFails(c)
    BY <2>6 DEF SwapFails, TypeOK, Fresh, UnitsConserved, Locking, Counting, lock, semaphore, history
  <2>7. CASE Load(c)
    BY <2>7 DEF Load, TypeOK, Fresh, UnitsConserved, Locking, Counting, lock, semaphore, history
  <2>8. CASE Release(c)
    BY <2>8 DEF Release, Resume, TypeOK, Fresh, UnitsConserved, Locking, Counting, lock, semaphore, history
  <2>9. CASE Take(c)
    BY <2>9 DEF Take, MayTake, TypeOK, Fresh, UnitsConserved, Locking, Counting, lock, semaphore, history
  <2>10. CASE Refuse(c)
    BY <2>10 DEF Refuse, MayTake, TypeOK, Fresh, UnitsConserved, Locking, Counting, lock, semaphore, history
  <2>11. CASE StopWaiting(c)
    BY <2>11 DEF StopWaiting, TypeOK, Fresh, UnitsConserved, Locking, Counting, lock, semaphore, history
  <2>12. CASE Drop(c)
    BY <2>12 DEF Drop, TypeOK, Fresh, UnitsConserved, Locking, Counting, lock, semaphore, history
  <2>13. CASE Exit(c)
    BY <2>13 DEF Exit, TypeOK, Fresh, UnitsConserved, Locking, Counting, lock, semaphore, history
  <2>14. CASE Signal(c)
    <3>1. seen[c].count = units
      BY <2>14 DEF Signal, Fresh, Counting
    <3>2. units' = units + amount[c] /\ put' = put + amount[c] /\ got' = got
      BY <2>14, <3>1 DEF Signal
    <3>3. amount[c] \in Nat /\ units \in Nat /\ got \in Nat /\ put \in Nat
      BY DEF TypeOK
    <3>4. QED
      BY <3>2, <3>3 DEF UnitsConserved
  <2>15. CASE Down(c)
    BY <2>15 DEF Down, Enough, TypeOK, Fresh, UnitsConserved, Locking, Counting, lock, semaphore, history
  <2>16. CASE DownFails(c)
    BY <2>16 DEF DownFails, Enough, TypeOK, Fresh, UnitsConserved, Locking, Counting, lock, semaphore, history
  <2>17. QED
    BY <1>2, <2>1, <2>2, <2>3, <2>4, <2>5, <2>6, <2>7, <2>8, <2>9, <2>10, <2>11, <2>12, <2>13, <2>14, <2>15, <2>16 DEF Call, Step
<1>3. QED
  BY <1>1, <1>2 DEF Next

\* Cores enter and leave the set of those that wait one at a time.
LEMMA WaitingStep ==
  ASSUME TypeOK, WaitingCounts, [Next]_vars
  PROVE  WaitingCounts'
<1> DEFINE W == {c \in Cores : Unserved(c)}
<1>0. IsFiniteSet(W)
  BY FS_Subset, CoresAssumption
<1>s. SUFFICES ASSUME NEW c \in Cores, Call(c) \/ Step(c) PROVE WaitingCounts'
  <2>1. CASE UNCHANGED vars
    BY <2>1 DEF vars, WaitingCounts, Unserved
  <2>2. QED
    BY <2>1, <1>s DEF Next
<1>1. CASE CallLock(c)
  <2>1. waiting' = waiting
    BY <1>1 DEF CallLock, Enter, semaphore
  <2>2. \A d \in Cores : Unserved(d)' <=> Unserved(d)
    BY <1>1 DEF CallLock, Enter, TypeOK, Unserved, Locking, Counting
  <2>3. QED
    BY <2>1, <2>2 DEF WaitingCounts
<1>2. CASE CallUnlock(c)
  <2>1. waiting' = waiting
    BY <1>2 DEF CallUnlock, Enter, semaphore
  <2>2. \A d \in Cores : Unserved(d)' <=> Unserved(d)
    BY <1>2 DEF CallUnlock, Enter, TypeOK, Unserved, Locking, Counting
  <2>3. QED
    BY <2>1, <2>2 DEF WaitingCounts
<1>3. CASE CallSignal(c)
  <2>1. waiting' = waiting
    BY <1>3 DEF CallSignal, Enter, semaphore
  <2>2. \A d \in Cores : Unserved(d)' <=> Unserved(d)
    BY <1>3 DEF CallSignal, Enter, TypeOK, Unserved, Locking, Counting
  <2>3. QED
    BY <2>1, <2>2 DEF WaitingCounts
<1>4. CASE Swap(c)
  <2>1. waiting' = waiting
    BY <1>4 DEF Swap, semaphore
  <2>2. \A d \in Cores : Unserved(d)' <=> Unserved(d)
    BY <1>4 DEF Swap, TypeOK, Unserved, Locking, Counting
  <2>3. QED
    BY <2>1, <2>2 DEF WaitingCounts
<1>5. CASE SwapFails(c)
  <2>1. waiting' = waiting
    BY <1>5 DEF SwapFails, semaphore
  <2>2. \A d \in Cores : Unserved(d)' <=> Unserved(d)
    BY <1>5 DEF SwapFails, TypeOK, Unserved, Locking, Counting
  <2>3. QED
    BY <2>1, <2>2 DEF WaitingCounts
<1>6. CASE Load(c)
  <2>1. waiting' = waiting
    BY <1>6 DEF Load, semaphore
  <2>2. \A d \in Cores : Unserved(d)' <=> Unserved(d)
    BY <1>6 DEF Load, TypeOK, Unserved, Locking, Counting
  <2>3. QED
    BY <2>1, <2>2 DEF WaitingCounts
<1>7. CASE Release(c)
  <2>1. waiting' = waiting
    BY <1>7 DEF Release, Resume, semaphore
  <2>2. \A d \in Cores : Unserved(d)' <=> Unserved(d)
    BY <1>7 DEF Release, Resume, TypeOK, Unserved, Locking, Counting
  <2>3. QED
    BY <2>1, <2>2 DEF WaitingCounts
<1>8. CASE Take(c)
  <2>1. waiting' = waiting
    BY <1>8 DEF Take, MayTake, semaphore
  <2>2. \A d \in Cores : Unserved(d)' <=> Unserved(d)
    BY <1>8 DEF Take, MayTake, TypeOK, Unserved, Locking, Counting
  <2>3. QED
    BY <2>1, <2>2 DEF WaitingCounts
<1>9. CASE Refuse(c)
  <2>1. waiting' = waiting
    BY <1>9 DEF Refuse, MayTake, semaphore
  <2>2. \A d \in Cores : Unserved(d)' <=> Unserved(d)
    BY <1>9 DEF Refuse, MayTake, TypeOK, Unserved, Locking, Counting
  <2>3. QED
    BY <2>1, <2>2 DEF WaitingCounts
<1>10. CASE StopWaiting(c)
  <2>1. waiting' = waiting
    BY <1>10 DEF StopWaiting, semaphore
  <2>2. \A d \in Cores : Unserved(d)' <=> Unserved(d)
    BY <1>10 DEF StopWaiting, TypeOK, Unserved, Locking, Counting
  <2>3. QED
    BY <2>1, <2>2 DEF WaitingCounts
<1>11. CASE Drop(c)
  <2>1. waiting' = waiting
    BY <1>11 DEF Drop, semaphore
  <2>2. \A d \in Cores : Unserved(d)' <=> Unserved(d)
    BY <1>11 DEF Drop, TypeOK, Unserved, Locking, Counting
  <2>3. QED
    BY <2>1, <2>2 DEF WaitingCounts
<1>12. CASE Exit(c)
  <2>1. waiting' = waiting
    BY <1>12 DEF Exit, semaphore
  <2>2. \A d \in Cores : Unserved(d)' <=> Unserved(d)
    BY <1>12 DEF Exit, TypeOK, Unserved, Locking, Counting
  <2>3. QED
    BY <2>1, <2>2 DEF WaitingCounts
<1>13. CASE Signal(c)
  <2>1. waiting' = waiting
    BY <1>13 DEF Signal, semaphore
  <2>2. \A d \in Cores : Unserved(d)' <=> Unserved(d)
    BY <1>13 DEF Signal, TypeOK, Unserved, Locking, Counting
  <2>3. QED
    BY <2>1, <2>2 DEF WaitingCounts
<1>14. CASE DownFails(c)
  <2>1. waiting' = waiting
    BY <1>14 DEF DownFails, Enough, semaphore
  <2>2. \A d \in Cores : Unserved(d)' <=> Unserved(d)
    BY <1>14 DEF DownFails, Enough, TypeOK, Unserved, Locking, Counting
  <2>3. QED
    BY <2>1, <2>2 DEF WaitingCounts
<1>15. CASE CallDown(c)
  <2>1. waiting' = waiting + 1
    BY <1>15 DEF CallDown
  <2>2. c \notin W
    BY <1>15 DEF CallDown, Enter, Unserved
  <2>3. W' = W \cup {c}
    BY <1>15 DEF CallDown, Enter, TypeOK, Unserved
  <2>4. Cardinality(W') = Cardinality(W) + 1
    BY <1>0, <2>2, <2>3, FS_AddElement
  <2>5. QED
    BY <2>1, <2>4 DEF WaitingCounts
<1>16. CASE Down(c)
  <2>1. waiting' = waiting - 1
    BY <1>16 DEF Down
  <2>2. c \in W
    BY <1>16 DEF Down, Unserved
  <2>3. W' = W \ {c}
    BY <1>16 DEF Down, TypeOK, Unserved
  <2>4. Cardinality(W') = Cardinality(W) - 1
    BY <1>0, <2>2, <2>3, FS_RemoveElement
  <2>5. QED
    BY <2>1, <2>4 DEF WaitingCounts
<1>17. QED
  BY <1>s, <1>1, <1>2, <1>3, <1>4, <1>5, <1>6, <1>7, <1>8, <1>9, <1>10, <1>11, <1>12, <1>13, <1>14, <1>15, <1>16 DEF Call, Step

-----------------------------------------------------------------------------
\* The inductive invariant: it holds at first, and every step keeps it.
LEMMA InvInit == Init => CoreInv
<1> SUFFICES ASSUME Init PROVE CoreInv
  OBVIOUS
<1>1. TypeOK /\ SpinExclusive /\ Fresh /\ FreeHasNoCore /\ UnitsConserved
  BY CoresAssumption DEF Init, TypeOK, Nothing, SpinExclusive, Inside, Fresh, FreeHasNoCore,
     UnitsConserved, Objects, Locking, Counting
<1>2. DepthKnown
  BY CoresAssumption DEF Init, DepthKnown, JustTaken
<1>3. {c \in Cores : Unserved(c)} = {}
  BY DEF Init, Unserved
<1>4. WaitingCounts
  BY <1>3, FS_EmptySet DEF Init, WaitingCounts
<1>5. QED
  BY <1>1, <1>2, <1>4 DEF CoreInv

\* Every step keeps every conjunct of the invariant.
LEMMA InvStep == CoreInv /\ [Next]_vars => CoreInv'
BY TypeStep, ExclusiveStep, FreshStep, FreeStep, DepthStep, UnitsStep, WaitingStep DEF CoreInv

\* The invariant holds of every reachable state.
LEMMA InvAlways == Spec => []CoreInv
BY InvInit, InvStep, PTL DEF Spec

\* For any number of cores: the fields behind a spinlock are touched by one core
\* at a time.
THEOREM SpinCorrect == Spec => []SpinExclusive
<1>1. CoreInv => SpinExclusive
  BY DEF CoreInv
<1>2. QED
  BY <1>1, InvAlways, PTL

\* For any number of cores and any depth: at most one core has the corelock.
THEOREM MutualExclusionCorrect == Spec => []MutualExclusion
<1>1. CoreInv => MutualExclusion
  <2> SUFFICES ASSUME CoreInv, NEW c \in Cores, NEW d \in Cores, held[c] > 0, held[d] > 0
               PROVE  c = d
    BY DEF MutualExclusion
  <2>1. c = core /\ d = core
    BY DEF CoreInv, DepthKnown
  <2>2. QED
    BY <2>1
<1>2. QED
  BY <1>1, InvAlways, PTL

\* For any number of cores and any amounts: no unit is lost or made, and the count
\* never falls below zero.
THEOREM UnitsCorrect == Spec => [](UnitsConserved /\ units >= 0)
<1>1. CoreInv => UnitsConserved /\ units >= 0
  BY DEF CoreInv, TypeOK
<1>2. QED
  BY <1>1, InvAlways, PTL

\* The variables have their types, for any values of the constants.
THEOREM SyncTyped == Spec => []TypeOK
<1>1. CoreInv => TypeOK
  BY DEF CoreInv
<1>2. QED
  BY <1>1, InvAlways, PTL

\* semaphore_waiting tells how many cores wait, for any number of cores.
THEOREM WaitingCorrect == Spec => []WaitingCounts
<1>1. CoreInv => WaitingCounts
  BY DEF CoreInv
<1>2. QED
  BY <1>1, InvAlways, PTL

\* For any number of cores and any depth, neither lock is ever in two hands.
THEOREM LockSafeCorrect == Spec => []LockSafe
BY SyncTyped, SpinCorrect, MutualExclusionCorrect, PTL DEF LockSafe


\* For any amounts, no unit is lost or used twice and no waiter miscounted.
THEOREM SemaphoreSafeCorrect == Spec => []SemaphoreSafe
BY UnitsCorrect, WaitingCorrect, PTL DEF SemaphoreSafe


\* Every step of the cores is a step of the recursive lock, or leaves it alone.
LEMMA LockStep == CoreInv /\ [Next]_vars => [Abstract!LNext]_(Abstract!rvars)
<1> USE DEF Abstract!rvars
<1>1. SUFFICES ASSUME CoreInv, NEW c \in Cores, Call(c) \/ Step(c), ~UNCHANGED <<core, count>>
               PROVE  Abstract!LNext
  BY DEF Next, vars
<1>2. Take(c) \/ Drop(c)
  BY <1>1 DEF Call, Step, CallLock, CallUnlock, CallSignal, CallDown, Swap, SwapFails, Load,
     Release, Refuse, StopWaiting, Exit, Signal, Down, DownFails, lock
<1>3. pc[c] = "store" /\ op[c] \notin Counting
  BY <1>2 DEF Take, Drop, Locking, Counting
<1>4. seen[c].count = count /\ seen[c].core = core
  BY <1>1, <1>3 DEF CoreInv, Fresh
<1>5. CASE Take(c)
  <2>1. core \in {NoCore, c}
    BY <1>1, <1>4, <1>5 DEF CoreInv, FreeHasNoCore, Take, MayTake
  <2>2. core' = c /\ count' = count + 1
    BY <1>4, <1>5 DEF Take
  <2>3. QED
    BY <2>1, <2>2 DEF Abstract!LNext, Abstract!Acquire
<1>6. CASE Drop(c)
  <2>1. core = c /\ count \in Nat /\ count # 0
    BY <1>1, <1>4, <1>6, CoresAssumption DEF CoreInv, TypeOK, FreeHasNoCore, Drop
  <2>2. IF count - 1 <= 0 THEN count' = 0 /\ core' = NoCore
                          ELSE count' = count - 1 /\ core' = core
    BY <1>4, <1>6 DEF Drop
  <2>3. Abstract!GiveBack(c)
    BY <2>1, <2>2 DEF Abstract!GiveBack
  <2>4. QED
    BY <2>3 DEF Abstract!LNext
<1>7. QED
  BY <1>2, <1>5, <1>6

\* The corelock of any number of cores implements the recursive lock.
THEOREM CoreSyncImplementsRecursiveLock == Spec => ImplementsRecursiveLock
<1>1. Init => Abstract!LInit
  BY DEF Init, Abstract!LInit
<1>2. QED
  BY <1>1, LockStep, InvAlways, PTL DEF Spec, ImplementsRecursiveLock, Abstract!LSpec
=============================================================================
