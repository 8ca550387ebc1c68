------------------------------ MODULE CoreSync ------------------------------
(***************************************************************************)
(* Cores that share a corelock and a semaphore of atomic.h.  A spinlock is *)
(* a word that atomic_swap sets to -1; every other access to memory is a   *)
(* plain load or store, and is a step of its own here wherever another     *)
(* core can tell: a core swaps, loads the fields, stores them, and sets    *)
(* the word back to 0.  Waiting for a corelock reads its count without the *)
(* spinlock.                                                               *)
(*                                                                         *)
(* External: the environment call 93 (exit) that corelock_unlock makes for *)
(* a core which is not the owner does not return.  MaxDepth bounds how     *)
(* often a core takes the corelock, MaxUnits what is signalled in all;     *)
(* Amounts are the arguments of semaphore_signal and semaphore_wait.       *)
(***************************************************************************)
EXTENDS Integers, FiniteSets

CONSTANTS Cores, NoCore, MaxDepth, Amounts, MaxUnits

ASSUME CoresAssumption ==
  /\ IsFiniteSet(Cores) /\ NoCore \notin Cores
  /\ MaxDepth \in Nat /\ MaxUnits \in Nat
  /\ Amounts \subseteq Nat \ {0}

VARIABLES
  spin,      \* the word of the spinlock of each object: 0 is free, -1 taken
  count,     \* lock->count
  core,      \* lock->core
  units,     \* semaphore->count
  waiting,   \* semaphore->waiting
  pc,        \* where each core is in its call
  op,        \* the function it is in
  amount,    \* the argument of its semaphore function
  seen,      \* the fields it has loaded
  held,      \* history: how often it has the corelock, as its caller knows
  put,       \* history: the units signalled
  got        \* history: the units that waits have taken

vars == <<spin, count, core, units, waiting, pc, op, amount, seen, held, put, got>>
lock      == <<count, core>>
semaphore == <<units, waiting>>
history   == <<held, put, got>>

Locking == {"lock", "try", "retry"}
Counting == {"signal", "down"}
Objects == {"corelock", "semaphore"}
ObjectOf(o) == IF o \in Counting THEN "semaphore" ELSE "corelock"

\* A core that has loaded nothing.
Nothing == [count |-> 0, core |-> NoCore]

TypeOK ==
  /\ spin \in [Objects -> {0, -1}]
  /\ count \in Nat /\ core \in Cores \cup {NoCore}
  /\ units \in Nat /\ waiting \in Int
  /\ pc \in [Cores -> {"idle", "swap", "load", "store", "won", "lost", "wait", "exited"}]
  /\ op \in [Cores -> Locking \cup Counting \cup {"unlock"}]
  /\ amount \in [Cores -> Nat]
  /\ seen \in [Cores -> [count : Nat, core : Cores \cup {NoCore}]]
  /\ held \in [Cores -> Nat] /\ put \in Nat /\ got \in Nat

\* CORELOCK_INIT and a semaphore with no units.
Init ==
  /\ spin = [o \in Objects |-> 0]
  /\ count = 0 /\ core = NoCore
  /\ units = 0 /\ waiting = 0
  /\ pc = [c \in Cores |-> "idle"]
  /\ op = [c \in Cores |-> "unlock"]
  /\ amount = [c \in Cores |-> 0]
  /\ seen = [c \in Cores |-> Nothing]
  /\ held = [c \in Cores |-> 0] /\ put = 0 /\ got = 0

-----------------------------------------------------------------------------
\* The calls.

Enter(c, o) ==
  /\ pc[c] = "idle"
  /\ pc' = [pc EXCEPT ![c] = "swap"]
  /\ op' = [op EXCEPT ![c] = o]

\* corelock_lock and corelock_trylock.
CallLock(c) ==
  /\ held[c] < MaxDepth
  /\ Enter(c, "lock") \/ Enter(c, "try")
  /\ UNCHANGED <<spin, lock, semaphore, amount, seen, history>>

\* corelock_unlock, also by a core that does not have the lock.
CallUnlock(c) ==
  /\ Enter(c, "unlock")
  /\ held' = IF held[c] > 0 THEN [held EXCEPT ![c] = held[c] - 1] ELSE held
  /\ UNCHANGED <<spin, lock, semaphore, amount, seen, put, got>>

CallSignal(c) ==
  /\ Enter(c, "signal")
  /\ \E i \in Amounts :
       /\ put + i <= MaxUnits
       /\ amount' = [amount EXCEPT ![c] = i]
  /\ UNCHANGED <<spin, lock, semaphore, seen, history>>

\* semaphore_wait counts itself before it looks.
CallDown(c) ==
  /\ Enter(c, "down")
  /\ \E i \in Amounts : amount' = [amount EXCEPT ![c] = i]
  /\ waiting' = waiting + 1
  /\ UNCHANGED <<spin, lock, units, seen, history>>

-----------------------------------------------------------------------------
\* The spinlock.

\* Seeded fault: the word is set whatever it was.
SwapBlind(c) ==
  /\ pc[c] = "swap"
  /\ spin' = [spin EXCEPT ![ObjectOf(op[c])] = -1]
  /\ pc' = [pc EXCEPT ![c] = "load"]
  /\ UNCHANGED <<lock, semaphore, op, amount, seen, history>>

\* spinlock_trylock finds the word 0.
Swap(c) ==
  /\ pc[c] = "swap"
  /\ spin[ObjectOf(op[c])] = 0
  /\ spin' = [spin EXCEPT ![ObjectOf(op[c])] = -1]
  /\ pc' = [pc EXCEPT ![c] = "load"]
  /\ UNCHANGED <<lock, semaphore, op, amount, seen, history>>

\* It finds -1: corelock_trylock gives up; spinlock_lock goes on spinning.
SwapFails(c) ==
  /\ pc[c] = "swap"
  /\ op[c] \in {"try", "retry"}
  /\ spin["corelock"] # 0
  /\ pc' = [pc EXCEPT ![c] = IF op[c] = "try" THEN "idle" ELSE "wait"]
  /\ UNCHANGED <<spin, lock, semaphore, op, amount, seen, history>>

Load(c) ==
  /\ pc[c] = "load"
  /\ pc' = [pc EXCEPT ![c] = "store"]
  /\ seen' = [seen EXCEPT ![c] =
       IF op[c] \in Counting THEN [count |-> units, core |-> NoCore]
       ELSE [count |-> count, core |-> core]]
  /\ UNCHANGED <<spin, lock, semaphore, op, amount, history>>

\* Where a call goes on when it has set the word back: it returns, or tries again.
Resume(c) ==
  IF pc[c] = "won" \/ op[c] = "try" THEN "idle"
  ELSE IF op[c] \in Counting THEN "swap" ELSE "wait"

\* spinlock_unlock at the end of each function.
Release(c) ==
  /\ pc[c] \in {"won", "lost"}
  /\ spin' = [spin EXCEPT ![ObjectOf(op[c])] = 0]
  /\ pc' = [pc EXCEPT ![c] = Resume(c)]
  /\ held' = IF pc[c] = "won" /\ op[c] \in Locking
             THEN [held EXCEPT ![c] = held[c] + 1] ELSE held
  /\ seen' = [seen EXCEPT ![c] = Nothing]
  /\ UNCHANGED <<lock, semaphore, op, amount, put, got>>

-----------------------------------------------------------------------------
\* The corelock.

\* Seeded fault: the owner is not looked at.
MayTakeAnyone(c) == seen[c].count < 2

MayTake(c) == seen[c].count = 0 \/ seen[c].core = c

\* First time, or the same core again.
Take(c) ==
  /\ pc[c] = "store" /\ op[c] \in Locking
  /\ MayTake(c)
  /\ count' = seen[c].count + 1 /\ core' = c
  /\ pc' = [pc EXCEPT ![c] = "won"]
  /\ UNCHANGED <<spin, semaphore, op, amount, seen, history>>

\* A different core has it.
Refuse(c) ==
  /\ pc[c] = "store" /\ op[c] \in Locking
  /\ ~MayTake(c)
  /\ pc' = [pc EXCEPT ![c] = "lost"]
  /\ UNCHANGED <<spin, lock, semaphore, op, amount, seen, history>>

\* "while(atomic_read(&lock->count));" ends, and corelock_trylock is next.
StopWaiting(c) ==
  /\ pc[c] = "wait"
  /\ count = 0
  /\ pc' = [pc EXCEPT ![c] = "swap"]
  /\ op' = [op EXCEPT ![c] = "retry"]
  /\ UNCHANGED <<spin, lock, semaphore, amount, seen, history>>

\* Seeded fault: the first unlock ends all the locks of the core.
DropAll(c) ==
  /\ pc[c] = "store" /\ op[c] = "unlock"
  /\ seen[c].core = c
  /\ count' = 0 /\ core' = NoCore
  /\ pc' = [pc EXCEPT ![c] = "won"]
  /\ UNCHANGED <<spin, semaphore, op, amount, seen, history>>

Drop(c) ==
  /\ pc[c] = "store" /\ op[c] = "unlock"
  /\ seen[c].core = c
  /\ IF seen[c].count - 1 <= 0
     THEN count' = 0 /\ core' = NoCore
     ELSE count' = seen[c].count - 1 /\ core' = core
  /\ pc' = [pc EXCEPT ![c] = "won"]
  /\ UNCHANGED <<spin, semaphore, op, amount, seen, history>>

\* Seeded fault: it exits with the spinlock taken.
ExitInside(c) ==
  /\ pc[c] = "store" /\ op[c] = "unlock"
  /\ seen[c].core # c
  /\ pc' = [pc EXCEPT ![c] = "exited"]
  /\ UNCHANGED <<spin, lock, semaphore, op, amount, seen, history>>

\* The core is not the owner: it gives the spinlock back and exits.
Exit(c) ==
  /\ pc[c] = "store" /\ op[c] = "unlock"
  /\ seen[c].core # c
  /\ spin' = [spin EXCEPT !["corelock"] = 0]
  /\ pc' = [pc EXCEPT ![c] = "exited"]
  /\ UNCHANGED <<lock, semaphore, op, amount, seen, history>>

-----------------------------------------------------------------------------
\* The semaphore.

Signal(c) ==
  /\ pc[c] = "store" /\ op[c] = "signal"
  /\ units' = seen[c].count + amount[c]
  /\ put' = put + amount[c]
  /\ pc' = [pc EXCEPT ![c] = "won"]
  /\ UNCHANGED <<spin, lock, waiting, op, amount, seen, held, got>>

\* Seeded fault: a unit more is asked for.
EnoughAndMore(c) == seen[c].count > amount[c]

Enough(c) == seen[c].count >= amount[c]

\* There is enough: take it, and wait no more.
Down(c) ==
  /\ pc[c] = "store" /\ op[c] = "down"
  /\ Enough(c)
  /\ units' = seen[c].count - amount[c]
  /\ waiting' = waiting - 1
  /\ got' = got + amount[c]
  /\ pc' = [pc EXCEPT ![c] = "won"]
  /\ UNCHANGED <<spin, lock, op, amount, seen, held, put>>

\* There is not: give the spinlock back and look again.
DownFails(c) ==
  /\ pc[c] = "store" /\ op[c] = "down"
  /\ ~Enough(c)
  /\ pc' = [pc EXCEPT ![c] = "lost"]
  /\ UNCHANGED <<spin, lock, semaphore, op, amount, seen, history>>

-----------------------------------------------------------------------------
Call(c) == CallLock(c) \/ CallUnlock(c) \/ CallSignal(c) \/ CallDown(c)

\* What a core does in a call that it has entered.
Step(c) ==
  \/ Swap(c) \/ SwapFails(c) \/ Load(c) \/ Release(c)
  \/ Take(c) \/ Refuse(c) \/ StopWaiting(c) \/ Drop(c) \/ Exit(c)
  \/ Signal(c) \/ Down(c) \/ DownFails(c)

Next == \E c \in Cores : Call(c) \/ Step(c)

Spec == Init /\ [][Next]_vars

\* Cores run: none stops inside a call.  Nothing makes a spinlock fair.
FairSpec == Spec /\ \A c \in Cores : WF_vars(Step(c))

-----------------------------------------------------------------------------
\* The core is between spinlock_lock and spinlock_unlock of object o.
Inside(c, o) == pc[c] \in {"load", "store", "won", "lost"} /\ ObjectOf(op[c]) = o

\* The plain loads and stores of the fields are safe: the word of a spinlock is
\* taken exactly while one core is between taking and freeing it, also when a core
\* leaves corelock_lock to wait or corelock_unlock to exit.
SpinExclusive ==
  \A o \in Objects :
    /\ \A c, d \in Cores : Inside(c, o) /\ Inside(d, o) => c = d
    /\ (spin[o] = -1) <=> (\E c \in Cores : Inside(c, o))

\* Two cores never both have the corelock, although a core that waits decides by
\* a count it reads without the spinlock and may try at the moment of the last
\* unlock, of a trylock of a third core, or of another lock by the owner.
MutualExclusion ==
  \A c, d \in Cores : held[c] > 0 /\ held[d] > 0 => c = d

\* Neither lock is ever in two hands: the spinlock of an object inside its
\* functions, the corelock between them.
LockSafe == TypeOK /\ SpinExclusive /\ MutualExclusion

\* No unit is lost or used twice by concurrent signals and waits, which add to
\* and take from a count they have loaded before.
UnitsConserved == units + got = put

\* semaphore_waiting is the number of cores that are in semaphore_wait and have
\* not been served.
Unserved(c) == op[c] = "down" /\ pc[c] \in {"swap", "load", "store", "lost"}
WaitingCounts == waiting = Cardinality({c \in Cores : Unserved(c)})

\* The semaphore's two counts are right, although one is kept under the spinlock
\* and the other with atomic additions outside of it.
SemaphoreSafe == UnitsConserved /\ WaitingCounts

\* The corelock is a recursive lock: its two fields change together only as one
\* core takes it, takes it again or gives it back.
Abstract == INSTANCE RecursiveLock WITH owner <- core, depth <- count
ImplementsRecursiveLock == Abstract!LSpec

\* A free corelock that a core is waiting for is taken, if not by that core:
\* waiting cores that fail against each other do not block the lock.
Wants(c) == op[c] \in Locking /\ pc[c] \in {"swap", "load", "store", "wait"}
LockMoves == (count = 0 /\ \E c \in Cores : Wants(c)) ~> (count > 0 \/ \A c \in Cores : ~Wants(c))

\* When there are units enough for each of the cores that wait, they are taken,
\* until there are not: the cores that spin do not keep each other out.
Servable == \A c \in Cores : Unserved(c) => amount[c] <= units
UnitsTaken == (waiting > 0 /\ Servable) ~> (waiting = 0 \/ ~Servable)
=============================================================================
