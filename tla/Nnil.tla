-------------------------------- MODULE Nnil --------------------------------
(***************************************************************************)
(* nnil, the stack machine with which nncase runs unary methods            *)
(* (nnil_unary_method in kernels/neutral/neutral_kernels.h, the stack and  *)
(* the reader in runtime/nnil.h).  A body is run once per element of the   *)
(* input, each time on a new stack.                                        *)
(***************************************************************************)
EXTENDS Integers, Sequences

CONSTANTS
  Methods,   \* the methods to run: records of a body and, for compiled ones, the parts of its expression
  Elements,  \* the input of a method: a sequence of numbers
  Literals,  \* the instructions ldc_r4 of the methods, each with the number inlined after it
  StackSize  \* the size of the evaluation stack, 64 in the code

Unary  == {"abs", "neg", "square"}
Binary == {"add", "sub", "mul", "min", "max"}
OneByte == {"nop", "dup", "pop", "lda_0", "ldc_r4_0", "ldc_r4_1", "clamp", "ret"} \cup Unary \cup Binary
Opcodes == OneByte \cup DOMAIN Literals
Unfilled == "blank"  \* an element of the output that was not written

ASSUME NnilAssumption ==
    /\ StackSize \in Nat /\ Elements \in Seq(Int)
    /\ Literals \in [DOMAIN Literals -> Int] /\ DOMAIN Literals \cap OneByte = {}

-----------------------------------------------------------------------------
\* What the instructions compute.

OfOne(op, v) == CASE op = "abs" -> IF v < 0 THEN -v ELSE v [] op = "neg" -> -v [] op = "square" -> v * v
\* b was pushed last, and is popped first.
\* Fault: the first value popped is taken for the left operand.
OfTwoSwapped(op, a, b) ==
    CASE op = "add" -> a + b [] op = "sub" -> b - a [] op = "mul" -> a * b
      [] op = "min" -> IF b < a THEN b ELSE a [] op = "max" -> IF a < b THEN b ELSE a
OfTwo(op, a, b) ==
    CASE op = "add" -> a + b [] op = "sub" -> a - b [] op = "mul" -> a * b
      [] op = "min" -> IF b < a THEN b ELSE a [] op = "max" -> IF a < b THEN b ELSE a
OfThree(v, low, high) == IF v < low THEN low ELSE IF high < v THEN high ELSE v

-----------------------------------------------------------------------------
(***************************************************************************)
(* External: the compiler emits an expression as its operands, one after   *)
(* the other, and then its operator.  An expression is its code, its value *)
(* for each argument and the room it takes on the stack.                   *)
(***************************************************************************)
Arguments == {Elements[k] : k \in DOMAIN Elements}
Deeper(i, j) == IF i < j THEN j ELSE i

Leaves == { [code |-> <<"lda_0">>,    value |-> [x \in Arguments |-> x], depth |-> 1],
            [code |-> <<"ldc_r4_0">>, value |-> [x \in Arguments |-> 0], depth |-> 1],
            [code |-> <<"ldc_r4_1">>, value |-> [x \in Arguments |-> 1], depth |-> 1] }
          \cup { [code |-> <<l>>, value |-> [x \in Arguments |-> Literals[l]], depth |-> 1] : l \in DOMAIN Literals }

\* The meaning of a binary operator, its operands in the order they are written in.
Meaning(op, x, y) ==
    CASE op = "add" -> x + y [] op = "sub" -> x - y [] op = "mul" -> x * y
      [] op = "min" -> IF x < y THEN x ELSE y [] op = "max" -> IF x < y THEN y ELSE x

Padded(a) == [code |-> a.code \o <<"nop">>, value |-> a.value, depth |-> a.depth]
OfOperand(op, a) ==
    [code |-> a.code \o <<op>>, value |-> [x \in Arguments |-> OfOne(op, a.value[x])], depth |-> a.depth]
OfItself(op, a) ==
    [code |-> a.code \o <<"dup">> \o <<op>>, value |-> [x \in Arguments |-> Meaning(op, a.value[x], a.value[x])],
     depth |-> Deeper(a.depth, 2)]
OfOperands(op, a, b) ==
    [code |-> a.code \o b.code \o <<op>>, value |-> [x \in Arguments |-> Meaning(op, a.value[x], b.value[x])],
     depth |-> Deeper(a.depth, b.depth + 1)]
Limited(a, low, high) ==
    [code |-> a.code \o low.code \o high.code \o <<"clamp">>,
     value |-> [x \in Arguments |-> OfThree(a.value[x], low.value[x], high.value[x])],
     depth |-> Deeper(a.depth, Deeper(low.depth + 1, high.depth + 2))]

\* e is a leaf, or made of expressions that are there already.
Emitted(e, parts) ==
    \/ e \in Leaves
    \/ \E a \in parts :
         \/ e = Padded(a)
         \/ \E op \in Unary : e = OfOperand(op, a)
         \/ \E op \in Binary : e = OfItself(op, a)
         \/ \E b \in parts : \/ \E op \in Binary : e = OfOperands(op, a, b)
                             \/ \E c \in parts : e = Limited(a, b, c)

\* A compiled body returns the last of its parts, and that has room on the stack.
ASSUME CompiledAssumption ==
    \A m \in Methods : m.compiled \in BOOLEAN /\ (m.compiled =>
      /\ Len(m.parts) \in Nat \ {0}
      /\ \A k \in 1..Len(m.parts) : Emitted(m.parts[k], {m.parts[j] : j \in 1..(k - 1)})
      /\ m.body = m.parts[Len(m.parts)].code \o <<"ret">>
      /\ m.parts[Len(m.parts)].depth <= StackSize)

VARIABLES
  method,   \* the method that runs
  element,  \* the element of the input it runs on
  next,     \* the next instruction of the body
  stack,    \* nnil_evalstack: top is its length
  produced,   \* what was written for each element
  state     \* running, thrown (an exception), or undefined (a write beyond the stack)

nnilVars == <<method, element, next, stack, produced, state>>

NnilInit ==
    /\ method \in Methods
    /\ element = 1 /\ next = 1
    /\ stack = <<>>
    /\ produced = [k \in DOMAIN Elements |-> Unfilled]
    /\ state = "running"

Op == method.body[next]
Top(k) == stack[Len(stack) - k + 1]  \* the k-th value from the top
Running == state = "running" /\ element <= Len(Elements) /\ next <= Len(method.body)

-----------------------------------------------------------------------------
Room(depth) == depth < StackSize

\* pops that find too little and pushes that find no room throw.
Throw == state' = "thrown" /\ UNCHANGED <<method, element, next, stack, produced>>
Continue(new) == stack' = new /\ next' = next + 1 /\ UNCHANGED <<method, element, produced, state>>
Popped(k) == SubSeq(stack, 1, Len(stack) - k)

\* An instruction that takes k values and pushes one.
Push(k, Value) ==
    IF Len(stack) < k \/ ~Room(Len(stack) - k) THEN Throw ELSE Continue(Append(Popped(k), Value))

Nop == Running /\ Op = "nop" /\ Continue(stack)

\* dup looks for a value to copy and never for room.
Dup == /\ Running /\ Op = "dup"
       /\ IF stack = <<>> THEN Throw
          ELSE IF Len(stack) < StackSize THEN Continue(Append(stack, Top(1)))
          ELSE state' = "undefined" /\ UNCHANGED <<method, element, next, stack, produced>>

Pop == Running /\ Op = "pop" /\ IF stack = <<>> THEN Throw ELSE Continue(Popped(1))

LoadValue ==
    /\ Running
    /\ \/ Op = "lda_0" /\ Push(0, Elements[element])
       \/ Op = "ldc_r4_0" /\ Push(0, 0)
       \/ Op = "ldc_r4_1" /\ Push(0, 1)
       \/ Op \in DOMAIN Literals /\ Push(0, Literals[Op])

Compute ==
    /\ Running
    /\ \/ Op \in Unary  /\ Push(1, OfOne(Op, Top(1)))
       \/ Op \in Binary /\ Push(2, OfTwo(Op, Top(2), Top(1)))
       \/ Op = "clamp"  /\ Push(3, OfThree(Top(3), Top(2), Top(1)))

NextElement == element' = element + 1 /\ next' = 1 /\ stack' = <<>>

Ret ==
    /\ Running /\ Op = "ret"
    /\ IF stack = <<>> THEN Throw
       ELSE produced' = [produced EXCEPT ![element] = Top(1)] /\ NextElement /\ UNCHANGED <<method, state>>

\* The body ends without ret: nothing is written for this element.
RunOut ==
    /\ state = "running" /\ element <= Len(Elements) /\ next > Len(method.body)
    /\ NextElement
    /\ UNCHANGED <<method, produced, state>>

Invalid == Running /\ Op \notin Opcodes /\ Throw

NnilNext == Nop \/ Dup \/ Pop \/ LoadValue \/ Compute \/ Ret \/ RunOut \/ Invalid

NnilSpec == NnilInit /\ [][NnilNext]_nnilVars

-----------------------------------------------------------------------------
(* A body that nnil_builder emitted for an expression writes the value of  *)
(* the expression for every element, and runs to its end.                  *)
NnilComputes ==
    method.compiled =>
      /\ state = "running"
      /\ \A k \in 1..(element - 1) : produced[k] = method.parts[Len(method.parts)].value[Elements[k]]

(* Nothing but dup writes beyond the evaluation stack, whatever the body:  *)
(* every other push looks for room.                                        *)
OnlyDupOverruns ==
    /\ Len(stack) <= StackSize
    /\ state = "undefined" => Op = "dup" /\ Len(stack) = StackSize

(* Methods are computed, and only one instruction can go wrong unnoticed.  *)
MethodsRun == NnilComputes /\ OnlyDupOverruns
=============================================================================
