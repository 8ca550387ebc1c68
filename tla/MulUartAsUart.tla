--------------------------- MODULE MulUartAsUart ---------------------------
(***************************************************************************)
(* The two modules of lua_muluart.cpp, seen from the first device, against *)
(* the one module of lua_uart.cpp.                                         *)
(***************************************************************************)
EXTENDS MulUart

\* The first record, which names the first device.
FirstRecord ==
  [uartid |-> 0, bits |-> data[0].bits, parity |-> data[0].parity, stop |-> data[0].stop]

One == INSTANCE Uart WITH
  MaxBytes <- MaxBytes[0], nbytes <- want, uart_data <- FirstRecord,
  hw <- hw[0], registered <- irq[0], callback <- callback[0],
  fifo <- fifo[0], arrived <- arrived[0], lost <- lost[0], delivered <- delivered[0],
  event <- event[0], told <- told[0]

\* The two source files agree: for the first device, the modules of
\* lua_muluart.cpp behave as the module of lua_uart.cpp, argument checks,
\* registration, events and bytes; what the second module does to its own device
\* is not seen there, and its reads and any are reads and any of the first.
FirstModuleIsUart == One!Spec
=============================================================================
