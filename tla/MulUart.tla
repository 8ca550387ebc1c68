------------------------------ MODULE MulUart ------------------------------
(***************************************************************************)
(* The serial modules "usr-uart1" and "usr-uart2" of lua_muluart.cpp,      *)
(* after uartmodule_muluart_init: the receive interrupt, the event queue   *)
(* of the framework, and the functions a Lua script calls.  Channel c is   *)
(* module c, with record muluart_data[c], meant for device c; Channels is  *)
(* {0, 1}.                                                                 *)
(*                                                                         *)
(* External: a device receives bytes once it is configured and drops those *)
(* that find its FIFO full; uart_receive_data takes the bytes present, one *)
(* at a time, up to a limit; the receive interrupt is level triggered (a   *)
(* byte below the trigger level raises it by timeout); SendModuleEvent     *)
(* marks a module, and the main loop later runs the module's callback,     *)
(* between two calls of the script.  Bytes are numbered by arrival;        *)
(* MaxBytes[c] bounds those of device c, FifoDepth (16 in the device) the  *)
(* FIFO, MaxRead the count a script asks for; InitArgs are the triples of  *)
(* bits, parity and stop it passes to init.                                *)
(***************************************************************************)
EXTENDS Integers, SequencesExt

CONSTANTS Channels, MaxBytes, FifoDepth, MaxRead, InitArgs

ASSUME BoundsAssumption ==
  /\ Channels \subseteq {0, 1} /\ 0 \in Channels
  /\ MaxBytes \in [Channels -> Nat]
  /\ {FifoDepth, MaxRead} \subseteq Nat \ {0}
  /\ InitArgs \subseteq (0 .. 9) \X (0 .. 2) \X (0 .. 3)

VARIABLES
  data,       \* bits, parity and stop of muluart_data[c]
  hw,         \* what uart_configure last set for device c
  irq,        \* muluart_recv_irq is registered for device c
  callback,   \* the script has given module c a callback
  fifo,       \* the receive FIFO of device c
  arrived,    \* how many bytes have reached device c
  lost,       \* history: bytes of device c dropped by the device or by any
  delivered,  \* history: bytes of device c returned to the script, in order
  event,      \* module c is marked by SendModuleEvent
  told,       \* history: the callback of c ran after the last byte arrived
  pc,         \* the call that is running: "idle", "read", "any"; or "halted"
  dev,        \* the device of the running call
  want,       \* nbytes of the running read
  revbuf      \* bytes the running call has taken

vars == <<data, hw, irq, callback, fifo, arrived, lost, delivered, event, told,
          pc, dev, want, revbuf>>
lua     == <<pc, dev, want, revbuf>>
config  == <<data, hw, irq, callback>>
stream  == <<fifo, arrived, lost, delivered>>
notices == <<event, told>>

Unset == [asked |-> 0, halves |-> 0]

TypeOK ==
  /\ data \in [Channels -> [bits : 0 .. 9, parity : 0 .. 2, stop : 0 .. 3]]
  /\ hw \in [Channels -> [asked : 0 .. 2, halves : {0, 2, 3, 4}]]
  /\ irq \in [Channels -> BOOLEAN]
  /\ callback \in [Channels -> BOOLEAN]
  /\ \A c \in Channels :
       /\ Len(fifo[c]) <= FifoDepth
       /\ ToSet(fifo[c]) \subseteq 1 .. arrived[c]
       /\ lost[c] \subseteq 1 .. arrived[c]
       /\ ToSet(delivered[c]) \subseteq 1 .. arrived[c]
  /\ \A c \in Channels : arrived[c] \in 0 .. MaxBytes[c]
  /\ event \in [Channels -> BOOLEAN]
  /\ told \in [Channels -> BOOLEAN]
  /\ pc \in {"idle", "read", "any", "halted"}
  /\ dev \in Channels
  /\ want \in 0 .. MaxRead
  /\ Len(revbuf) <= MaxBytes[dev]

\* After uartmodule_muluart_init: both interrupts registered, both modules added.
Init ==
  /\ data = [c \in Channels |-> [bits |-> 0, parity |-> 0, stop |-> 0]]
  /\ hw = [c \in Channels |-> Unset]
  /\ irq = [c \in Channels |-> TRUE]
  /\ callback = [c \in Channels |-> FALSE]
  /\ fifo = [c \in Channels |-> <<>>]
  /\ arrived = [c \in Channels |-> 0]
  /\ lost = [c \in Channels |-> {}]
  /\ delivered = [c \in Channels |-> <<>>]
  /\ event = [c \in Channels |-> FALSE]
  /\ told = [c \in Channels |-> TRUE]
  /\ pc = "idle" /\ dev = 0 /\ want = 0 /\ revbuf = <<>>

-----------------------------------------------------------------------------
\* The hardware and the interrupt.

\* The device takes a byte off the line, or drops it.
Receive(c) ==
  /\ pc # "halted"
  /\ hw[c] # Unset
  /\ arrived[c] < MaxBytes[c]
  /\ arrived' = [arrived EXCEPT ![c] = arrived[c] + 1]
  /\ IF Len(fifo[c]) < FifoDepth
     THEN /\ fifo' = [fifo EXCEPT ![c] = Append(fifo[c], arrived[c] + 1)]
          /\ lost' = lost
     ELSE /\ lost' = [lost EXCEPT ![c] = lost[c] \cup {arrived[c] + 1}]
          /\ fifo' = fifo
  /\ told' = [told EXCEPT ![c] = FALSE]
  /\ UNCHANGED <<config, lua, delivered, event>>

\* Seeded fault: whichever device interrupts, the event goes to the first module.
RecvIrqFirst(c) ==
  /\ pc # "halted" /\ irq[c] /\ fifo[c] # <<>>
  /\ event' = [event EXCEPT ![0] = TRUE]
  /\ UNCHANGED <<config, lua, stream, told>>

\* muluart_recv_irq, with the uartid of channel c as its context.  It leaves the
\* bytes in the FIFO.
RecvIrq(c) ==
  /\ pc # "halted"
  /\ irq[c]
  /\ fifo[c] # <<>>
  /\ event' = [event EXCEPT ![c] = TRUE]
  /\ UNCHANGED <<config, lua, stream, told>>

\* The main loop takes an event off module c and runs its callback, if any.
Dispatch(c) ==
  /\ pc = "idle"
  /\ event[c]
  /\ event' = [event EXCEPT ![c] = FALSE]
  /\ told' = IF callback[c] THEN [told EXCEPT ![c] = TRUE] ELSE told
  /\ UNCHANGED <<config, lua, stream>>

-----------------------------------------------------------------------------
\* The functions of the modules.

\* What uart_stopbit_t makes of the number cast to it: 0, 1, 2 are 1, 1.5, 2.
StopHalves(stop) == stop + 2

\* muluart_data[c] after init was given three arguments: each is stored once
\* those before it have passed their LUA_ASSERT.
Stored(c, bits, parity, stop) ==
  [bits   |-> bits,
   parity |-> IF bits \in {7, 8, 9} THEN parity ELSE data[c].parity,
   stop   |-> IF bits \in {7, 8, 9} /\ parity \in {0, 1} THEN stop ELSE data[c].stop]

\* uart_configure and getarg_tocallback, of device and module c.
Configure(c, stop, isCallback) ==
  /\ hw' = [hw EXCEPT ![c] = [asked |-> stop, halves |-> StopHalves(stop)]]
  /\ callback' \in IF isCallback THEN {[callback EXCEPT ![c] = TRUE]}
                   ELSE {callback, [callback EXCEPT ![c] = FALSE]}

\* Seeded fault: the device is configured before stop is checked.
InitWithEarly(c, bits, parity, stop, isCallback) ==
  /\ data' = [data EXCEPT ![c] = Stored(c, bits, parity, stop)]
  /\ IF bits \in {7, 8, 9} /\ parity \in {0, 1}
     THEN Configure(c, stop, isCallback)
     ELSE UNCHANGED <<hw, callback>>

\* A failed LUA_ASSERT returns at once; argument 2 is the baud rate and the
\* callback.
InitWith(c, bits, parity, stop, isCallback) ==
  /\ data' = [data EXCEPT ![c] = Stored(c, bits, parity, stop)]
  /\ IF bits \in {7, 8, 9} /\ parity \in {0, 1} /\ stop \in {1, 2}
     THEN Configure(c, stop, isCallback)
     ELSE UNCHANGED <<hw, callback>>

\* Seeded fault: init registers the interrupt again.
InitUartRegisters(c) ==
  /\ pc = "idle"
  /\ hw' = [hw EXCEPT ![c] = [asked |-> 1, halves |-> StopHalves(1)]]
  /\ irq' = [irq EXCEPT ![c] = TRUE]
  /\ UNCHANGED <<data, callback, lua, stream, notices>>

\* lua_muluart_init.
InitUart(c) ==
  /\ pc = "idle"
  /\ \E setting \in InitArgs, isCallback \in BOOLEAN :
       InitWith(c, setting[1], setting[2], setting[3], isCallback)
  /\ UNCHANGED <<irq, lua, stream, notices>>

\* lua_muluart_deinit.  Nothing registers the interrupt again.
DeinitUart(c) ==
  /\ pc = "idle"
  /\ irq' = [irq EXCEPT ![c] = FALSE]
  /\ UNCHANGED <<data, hw, callback, lua, stream, notices>>

\* Seeded fault: the device the module is meant for is the one that is read.
OwnDevice(c) == c

\* The device that lua_muluart_read, _write and _any of module c name.
DeviceOf(c) == 0

\* lua_muluart_read is entered with a count it accepts; -1, the default, fails
\* the check like any other count below 1, and nothing happens.
ReadUart(c) ==
  /\ pc = "idle"
  /\ pc' = "read"
  /\ dev' = DeviceOf(c)
  /\ want' \in 1 .. MaxRead
  /\ revbuf' = <<>>
  /\ UNCHANGED <<config, stream, notices>>

\* Seeded fault: the buffer is filled from its front.
TakeByteInFront ==
  /\ pc \in {"read", "any"}
  /\ fifo[dev] # <<>>
  /\ pc = "read" => Len(revbuf) < want
  /\ fifo' = [fifo EXCEPT ![dev] = Tail(fifo[dev])]
  /\ revbuf' = <<Head(fifo[dev])>> \o revbuf
  /\ UNCHANGED <<config, notices, arrived, lost, delivered, pc, dev, want>>

\* uart_receive_data takes one more byte.
TakeByte ==
  /\ pc \in {"read", "any"}
  /\ fifo[dev] # <<>>
  /\ pc = "read" => Len(revbuf) < want
  /\ fifo' = [fifo EXCEPT ![dev] = Tail(fifo[dev])]
  /\ revbuf' = Append(revbuf, Head(fifo[dev]))
  /\ UNCHANGED <<config, notices, arrived, lost, delivered, pc, dev, want>>

Return == pc' = "idle" /\ dev' = 0 /\ want' = 0 /\ revbuf' = <<>>

\* Seeded fault: a short read is dropped.
ReadReturnsFull ==
  /\ pc = "read"
  /\ Len(revbuf) = want \/ fifo[dev] = <<>>
  /\ delivered' = IF Len(revbuf) < want THEN delivered
                  ELSE [delivered EXCEPT ![dev] = delivered[dev] \o revbuf]
  /\ Return
  /\ UNCHANGED <<config, notices, fifo, arrived, lost>>

\* The read has its count, or has found the FIFO empty, and returns its bytes.
ReadReturns ==
  /\ pc = "read"
  /\ Len(revbuf) = want \/ fifo[dev] = <<>>
  /\ delivered' = [delivered EXCEPT ![dev] = delivered[dev] \o revbuf]
  /\ Return
  /\ UNCHANGED <<config, notices, fifo, arrived, lost>>

\* lua_muluart_any empties the FIFO: the bytes of each round of its loop are
\* overwritten by the next, and the last round, which finds none, sets the
\* length of the string returned.
AnyUart(c) ==
  /\ pc = "idle"
  /\ pc' = "any"
  /\ dev' = DeviceOf(c)
  /\ revbuf' = <<>>
  /\ UNCHANGED <<config, stream, notices, want>>

AnyRound ==
  /\ pc = "any"
  /\ fifo[dev] = <<>>
  /\ lost' = [lost EXCEPT ![dev] = lost[dev] \cup ToSet(revbuf)]
  /\ IF revbuf = <<>> THEN Return ELSE revbuf' = <<>> /\ UNCHANGED <<pc, dev, want>>
  /\ UNCHANGED <<config, notices, fifo, arrived, delivered>>

\* lua_muluart_write with a number from 0 to 255 or a string of some length
\* sends; the empty string fails "assert(len > 0)" and stops the program.
WriteEmpty(c) ==
  /\ pc = "idle"
  /\ pc' = "halted"
  /\ UNCHANGED <<dev, want, revbuf, config, stream, notices>>

-----------------------------------------------------------------------------
\* The steps of a call that has been entered.
Running == TakeByte \/ ReadReturns \/ AnyRound

Next == \/ \E c \in Channels : Receive(c) \/ RecvIrq(c) \/ Dispatch(c)
        \/ \E c \in Channels : InitUart(c) \/ DeinitUart(c)
        \/ \E c \in Channels : ReadUart(c) \/ AnyUart(c) \/ WriteEmpty(c)
        \/ Running

Spec == Init /\ [][Next]_vars

\* Calls run on; a pending interrupt is taken; the main loop gets to every
\* marked module again and again, between calls of the script.
FairSpec ==
  /\ Spec
  /\ WF_vars(Running)
  /\ \A c \in Channels : WF_vars(RecvIrq(c)) /\ SF_vars(Dispatch(c))

-----------------------------------------------------------------------------
\* The bytes of device c taken by the call that is running.
Taken(c) == IF pc \in {"read", "any"} /\ dev = c THEN revbuf ELSE <<>>

\* Every byte that arrived is in exactly one place: in the FIFO, in the buffer
\* of the running call, lost to an overrun or to any, or returned by a read.
BytesAccounted ==
  \A c \in Channels :
    LET held == delivered[c] \o Taken(c) \o fifo[c] IN
      /\ ToSet(held) \cup lost[c] = 1 .. arrived[c]
      /\ ToSet(held) \cap lost[c] = {}

\* Whatever mixture of reads of any size, any, interrupts and overruns a script
\* goes through, it sees bytes in the order of their arrival, and none twice.
ArrivalOrder ==
  \A c \in Channels :
    LET held == delivered[c] \o Taken(c) \o fifo[c] IN
      \A i, j \in 1 .. Len(held) : i < j => held[i] < held[j]

\* The buffers hold what they have room for, in order.
BytesInOrder == TypeOK /\ ArrivalOrder

\* The second module never empties its own FIFO: all its reads go to the first
\* device, so its bytes are never returned and its interrupt stays raised.
SecondNeverServed ==
  [][\A c \in Channels \ {0} : fifo[c] # <<>> => fifo'[c] # <<>>]_vars

\* deinit is final: whatever the script calls afterwards, init with a new callback
\* included, no byte raises an event of the module again, and an event that was
\* pending reaches the callback at most once.
DeinitIsFinal ==
  [][\A c \in Channels : ~irq[c] => ~irq'[c] /\ (event'[c] => event[c])]_vars

\* As long as the interrupt is registered and a callback is set, a module whose
\* FIFO holds a byte has its callback run, although the handler neither takes
\* bytes nor counts events and reads race with it.
ToldOfData ==
  \A c \in Channels :
    (irq[c] /\ callback[c] /\ fifo[c] # <<>>) ~>
      (told[c] \/ ~irq[c] \/ ~callback[c] \/ fifo[c] = <<>> \/ pc = "halted")

\* What "stop must be equal to 1,2!" promises of the argument: that many stop
\* bits, counted in halves.
StopBitsAsAsked == \A c \in Channels : hw[c].halves = 2 * hw[c].asked
=============================================================================
