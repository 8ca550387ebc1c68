------------------------------- MODULE Uart -------------------------------
(***************************************************************************)
(* The serial module "usr-uart1" of lua_uart.cpp after                     *)
(* uartmodule_uart_init: one record, one device, one module handle.  It is *)
(* translated from that file alone; MulUartAsUart compares it with the     *)
(* first of the two modules of lua_muluart.cpp.                            *)
(*                                                                         *)
(* External: the device, uart_receive_data and the event queue of the      *)
(* framework (receive, uart_receive_data, dispatch).  Unlike lua_muluart,  *)
(* lua_uart leaves bDefault of getarg_tointeger at false; a call that the  *)
(* framework refuses for a missing argument changes nothing.               *)
(***************************************************************************)
EXTENDS Integers, SequencesExt

CONSTANTS
  MaxBytes,   \* bytes that arrive
  FifoDepth,  \* bytes the FIFO of the device holds
  MaxRead,    \* the largest count a script asks for
  InitArgs    \* triples of bits, parity and stop that a script passes to init

VARIABLES
  uart_data,   \* uartid, bits, parity and stop of the record
  hw,          \* what uart_configure last set, in half stop bits
  registered,  \* uart_recv_irq is registered for UART_DEVICE_1
  callback,    \* the script has given the module a callback
  fifo,        \* the receive FIFO
  arrived,     \* how many bytes have reached the device
  lost,        \* history: bytes dropped by the device or by any
  delivered,   \* history: bytes returned to the script, in order
  event,       \* hDevUartHandle is marked by SendModuleEvent
  told,        \* history: the callback ran after the last byte arrived
  pc,          \* the call that is running: "idle", "read", "any"; or "halted"
  nbytes,      \* the count of the running read
  revbuf       \* bytes the running call has taken

record == <<uart_data, hw, registered, callback>>
line   == <<fifo, arrived, lost, delivered>>
notice == <<event, told>>
call   == <<pc, nbytes, revbuf>>
vars   == <<record, line, notice, call>>

UART_DEVICE_1 == 0
NotConfigured == [asked |-> 0, halves |-> 0]

\* uartmodule_uart_init clears the record, names the device and registers.
Init ==
  /\ uart_data = [uartid |-> UART_DEVICE_1, bits |-> 0, parity |-> 0, stop |-> 0]
  /\ hw = NotConfigured /\ registered = TRUE /\ callback = FALSE
  /\ fifo = <<>> /\ arrived = 0 /\ lost = {} /\ delivered = <<>>
  /\ event = FALSE /\ told = TRUE
  /\ pc = "idle" /\ nbytes = 0 /\ revbuf = <<>>

-----------------------------------------------------------------------------
\* The device takes the next byte off the line, or drops it.
receive ==
  /\ pc # "halted" /\ hw # NotConfigured /\ arrived < MaxBytes
  /\ arrived' = arrived + 1
  /\ told' = FALSE
  /\ \/ /\ Len(fifo) < FifoDepth
        /\ fifo' = Append(fifo, arrived + 1)
        /\ UNCHANGED lost
     \/ /\ Len(fifo) >= FifoDepth
        /\ lost' = lost \cup {arrived + 1}
        /\ UNCHANGED fifo
  /\ UNCHANGED <<record, delivered, event, call>>

\* uart_recv_irq: whatever its context, the event goes to hDevUartHandle.
uart_recv_irq ==
  /\ pc # "halted" /\ registered /\ fifo # <<>>
  /\ event' = TRUE
  /\ UNCHANGED <<record, line, told, call>>

\* The main loop takes the event off the module and runs its callback, if any.
dispatch ==
  /\ pc = "idle" /\ event
  /\ event' = FALSE
  /\ told' = (told \/ callback)
  /\ UNCHANGED <<record, line, call>>

-----------------------------------------------------------------------------
\* uart_configure and getarg_tocallback, after "assert(uartid == UART_DEVICE_1)".
Configured(stop, isCallback) ==
  \/ /\ uart_data.uartid # UART_DEVICE_1
     /\ pc' = "halted"
     /\ UNCHANGED <<hw, callback>>
  \/ /\ uart_data.uartid = UART_DEVICE_1
     /\ hw' = [asked |-> stop, halves |-> stop + 2]
     /\ callback' \in IF isCallback THEN {TRUE} ELSE {callback, FALSE}
     /\ UNCHANGED pc

\* lua_uart_init: bits, parity and stop are stored in turn, and a bad one ends
\* the call.
lua_uart_init ==
  /\ pc = "idle"
  /\ \E setting \in InitArgs, isCallback \in BOOLEAN :
       LET bits   == setting[1]
           parity == setting[2]
           stop   == setting[3]
       IN  \/ /\ bits \notin {7, 8, 9}
              /\ uart_data' = [uart_data EXCEPT !.bits = bits]
              /\ UNCHANGED <<hw, callback, pc>>
           \/ /\ bits \in {7, 8, 9} /\ parity \notin {0, 1}
              /\ uart_data' = [uart_data EXCEPT !.bits = bits, !.parity = parity]
              /\ UNCHANGED <<hw, callback, pc>>
           \/ /\ bits \in {7, 8, 9} /\ parity \in {0, 1}
              /\ uart_data' = [uart_data EXCEPT !.bits = bits, !.parity = parity,
                                                !.stop = stop]
              /\ IF stop \in {1, 2} THEN Configured(stop, isCallback)
                 ELSE UNCHANGED <<hw, callback, pc>>
  /\ UNCHANGED <<registered, line, notice, nbytes, revbuf>>

\* lua_uart_deinit.
lua_uart_deinit ==
  /\ pc = "idle"
  /\ IF uart_data.uartid = UART_DEVICE_1 THEN registered' = FALSE /\ UNCHANGED pc
     ELSE pc' = "halted" /\ UNCHANGED registered
  /\ UNCHANGED <<uart_data, hw, callback, line, notice, nbytes, revbuf>>

\* lua_uart_read gets past its check of the count.
lua_uart_read ==
  /\ pc = "idle" /\ pc' = "read"
  /\ nbytes' \in 1 .. MaxRead
  /\ revbuf' = <<>>
  /\ UNCHANGED <<record, line, notice>>

\* The library takes one more byte for read, or for a round of any.
uart_receive_data ==
  /\ pc \in {"read", "any"} /\ fifo # <<>>
  /\ pc = "read" => Len(revbuf) < nbytes
  /\ revbuf' = Append(revbuf, Head(fifo))
  /\ fifo' = Tail(fifo)
  /\ UNCHANGED <<record, notice, arrived, lost, delivered, pc, nbytes>>

\* lua_uart_read returns what it took: nothing, or a string of ret bytes.
lua_uart_read_returns ==
  /\ pc = "read"
  /\ Len(revbuf) = nbytes \/ fifo = <<>>
  /\ delivered' = delivered \o revbuf
  /\ pc' = "idle" /\ nbytes' = 0 /\ revbuf' = <<>>
  /\ UNCHANGED <<record, notice, fifo, arrived, lost>>

\* lua_uart_write is given the empty string: "assert(len > 0)".
lua_uart_write ==
  /\ pc = "idle" /\ pc' = "halted"
  /\ UNCHANGED <<record, line, notice, nbytes, revbuf>>

\* lua_uart_any starts.
lua_uart_any ==
  /\ pc = "idle" /\ pc' = "any"
  /\ revbuf' = <<>>
  /\ UNCHANGED <<record, line, notice, nbytes>>

\* A round of its loop is over: the next overwrites the buffer, and the round
\* that finds no byte ends the call with a string of no bytes.
lua_uart_any_round ==
  /\ pc = "any" /\ fifo = <<>>
  /\ lost' = lost \cup ToSet(revbuf)
  /\ revbuf' = <<>>
  /\ IF revbuf = <<>> THEN pc' = "idle" /\ nbytes' = 0 ELSE UNCHANGED <<pc, nbytes>>
  /\ UNCHANGED <<record, notice, fifo, arrived, delivered>>

Next ==
  \/ receive \/ uart_recv_irq \/ dispatch
  \/ lua_uart_init \/ lua_uart_deinit \/ lua_uart_write
  \/ lua_uart_read \/ uart_receive_data \/ lua_uart_read_returns
  \/ lua_uart_any \/ lua_uart_any_round

Spec == Init /\ [][Next]_vars
=============================================================================
