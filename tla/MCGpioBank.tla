----------------------------- MODULE MCGpioBank -----------------------------
(***************************************************************************)
(* TLC instances of GpioBank: two ports instead of 13.  With seven lines   *)
(* the LEDs take four, the first openai_gpio_new two, and the second one   *)
(* runs out; with eight lines two generations of ports fit and a third fails*)
(***************************************************************************)
EXTENDS GpioBank

TwoPins   == [i \in 0 .. 1 |-> 20 - i]  \* P0_PIN and P1_PIN
GoodPorts == {0, 1}
AnyPorts  == {0, 1, 2, 4, 5}            \* 4 and 5 are 0 and 1 modulo ByteSize = 4
=============================================================================
