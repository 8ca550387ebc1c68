------------------------------ MODULE GpioBank ------------------------------
(***************************************************************************)
(* The output drivers of the board: the RGB LED (lua_ledrgb.cpp), the      *)
(* infra-red LED (lua_ledir.cpp) and the numbered ports of "openaigpio"    *)
(* (lua_openaigpio.cpp).  All of them draw GPIOHS lines from the platform, *)
(* route their pins to those lines and then write the lines.               *)
(*                                                                         *)
(* The drivers are brought up in the order of initCustomDevice (main.cpp)  *)
(* and are then called by the Lua script.  A failed assert stops the       *)
(* program: pc = "halted".                                                 *)
(*                                                                         *)
(* External: AssignGPIOHS hands out the lines in order (lua_ledrgb.cpp     *)
(* notes the 14, 15, 16 it got), ASSIGN_ERR when none is left, and takes   *)
(* none back; fpioa_set_function refuses a function number past its table, *)
(* which FUNC_GPIOHS0 + ASSIGN_ERR is; a write to line ASSIGN_ERR may hit  *)
(* any line or none.                                                       *)
(***************************************************************************)
EXTENDS Integers

CONSTANTS
  NLines,     \* the number of GPIOHS lines the platform can hand out
  NPorts,     \* 13: the ports of openaigpio
  PortPin,    \* the package pin of each port
  CtrlArgs,   \* the port numbers a script passes to ctrl
  ByteSize    \* 256: the values of uint8_t

ASSUME LinesAssumption == NLines \in 4 .. 32
ASSUME PortsAssumption == NPorts \in Nat \ {0} /\ PortPin \in [0 .. NPorts - 1 -> Nat]
ASSUME PinsDiffer ==
  \A i, j \in 0 .. NPorts - 1 :
    PortPin[i] \notin {12, 29, 30, 31} /\ (PortPin[i] = PortPin[j] => i = j)
ASSUME ArgsAssumption  == CtrlArgs \subseteq Nat /\ ByteSize \in Nat /\ NPorts < ByteSize

VARIABLES
  next,      \* the platform's next free line
  line,      \* LED_R_IO, LED_G_IO, LED_B_IO, LED_IR_IO and P_IO
  created,   \* a script has run openai_gpio_new
  route,     \* what each pin is connected to
  output,    \* lines in drive mode GPIO_DM_OUTPUT
  high,      \* lines whose output bit is GPIO_PV_HIGH
  pc,        \* the step of initCustomDevice, then "run" or "halted"
  command    \* history: the last command to each device, "none" since its
             \* line was chosen

vars == <<next, line, created, route, output, high, pc, command>>

ASSIGN_ERR == 255
Lines   == 0 .. NLines - 1
Ports   == 0 .. NPorts - 1
Rgb     == {"R", "G", "B"}
Leds    == Rgb \cup {"IR"}
Devices == (Leds \X {0}) \cup ({"P"} \X Ports)

Led(c)  == <<c, 0>>
Port(i) == <<"P", i>>

Pin(d) == CASE d[1] = "R"  -> 31
            [] d[1] = "G"  -> 30
            [] d[1] = "B"  -> 29
            [] d[1] = "IR" -> 12
            [] d[1] = "P"  -> PortPin[d[2]]
Pins == {Pin(d) : d \in Devices}
RESET == -1  \* the routing of a pin nobody has routed

\* The level that switches a device on: the RGB LED hangs between 3.3 V and its
\* line and lights when the line is low.
OnHigh(d) == d[1] \notin Rgb

TypeOK ==
  /\ next \in 0 .. NLines
  /\ line \in [Devices -> Lines \cup {ASSIGN_ERR}]
  /\ created \in BOOLEAN
  /\ route \in [Pins -> Lines \cup {RESET}]
  /\ output \subseteq Lines
  /\ high \subseteq Lines
  /\ pc \in {"rgb", "ir", "gpio", "run", "halted"}
  /\ command \in [Devices -> {"none", "on", "off"}]

Init ==
  /\ next = 0 /\ output = {} /\ high = {}
  /\ line = [d \in Devices |-> 0]
  /\ created = FALSE
  /\ route = [p \in Pins |-> RESET]
  /\ pc = "rgb"
  /\ command = [d \in Devices |-> "none"]

-----------------------------------------------------------------------------
\* The result of the k-th of several calls of AssignGPIOHS, k counted from 0.
AssignGPIOHS(k) == IF next + k < NLines THEN next + k ELSE ASSIGN_ERR

\* The output bits hs after gpiohs_set_pin on line l.
SetPin(hs, l, up) ==
  IF l \in Lines THEN {IF up THEN hs \cup {l} ELSE hs \ {l}}
  ELSE {hs} \cup {IF up THEN hs \cup {k} ELSE hs \ {k} : k \in Lines}

\* What the pins are connected to once the devices in new have the lines of ls.
Routed(new, ls) ==
  [p \in Pins |-> IF \E d \in new : Pin(d) = p /\ ls[d] \in Lines
                  THEN ls[CHOOSE d \in new : Pin(d) = p] ELSE route[p]]

\* Seeded fault: one line is drawn for all the devices.
SetUpOneLine(place, n) ==
  /\ next' = IF next < NLines THEN next + 1 ELSE NLines
  /\ line' = [d \in Devices |-> IF d \in DOMAIN place THEN AssignGPIOHS(0) ELSE line[d]]
  /\ UNCHANGED <<route, output>>

\* Draw a line for each of n devices, for device d as the place[d]-th; route their
\* pins to the lines and make the lines outputs.
SetUp(place, n) ==
  /\ next' = IF next + n <= NLines THEN next + n ELSE NLines
  /\ line' = [d \in Devices |-> IF d \in DOMAIN place THEN AssignGPIOHS(place[d]) ELSE line[d]]
  /\ route' = Routed(DOMAIN place, line')
  /\ output' = output \cup ({line'[d] : d \in DOMAIN place} \cap Lines)

\* openai_ledrgb_init: the lines are drawn in the order R, G, B, and all three
\* LEDs are switched off, which takes a high line.
RgbInOrder ==
  [d \in {Led(c) : c \in Rgb} |-> IF d = Led("R") THEN 0 ELSE IF d = Led("G") THEN 1 ELSE 2]
LedRgbInit ==
  /\ pc = "rgb"
  /\ SetUp(RgbInOrder, 3)
  /\ high' = high \cup {line'[Led(c)] : c \in Rgb}
  /\ command' = [d \in Devices |-> IF d[1] \in Rgb THEN "off" ELSE command[d]]
  /\ pc' = "ir"
  /\ UNCHANGED created

\* openai_ledir_init
LedIrInit ==
  /\ pc = "ir"
  /\ SetUp([d \in {Led("IR")} |-> 0], 1)
  /\ high' = high \ {line'[Led("IR")]}
  /\ command' = [command EXCEPT ![Led("IR")] = "off"]
  /\ pc' = "gpio"
  /\ UNCHANGED created

\* openai_gpio_init only registers the module.
GpioInit ==
  /\ pc = "gpio"
  /\ pc' = "run"
  /\ UNCHANGED <<next, line, created, route, output, high, command>>

-----------------------------------------------------------------------------
\* openai_gpio_new: every call draws new lines for all ports and leaves the old
\* ones behind; the ports' levels are those of the new lines.
GpioNew ==
  /\ pc = "run"
  /\ SetUp([d \in {Port(i) : i \in Ports} |-> d[2]], NPorts)
  /\ created' = TRUE
  /\ command' = [d \in Devices |-> IF d[1] = "P" THEN "none" ELSE command[d]]
  /\ UNCHANGED <<high, pc>>

\* Seeded fault: ctrl writes the neighbouring entry of P_IO.
DriveNeighbour(d, on) ==
  /\ high' \in SetPin(high, line[IF d[1] = "P" THEN Port((d[2] + 1) % NPorts) ELSE d],
                      on = OnHigh(d))
  /\ command' = [command EXCEPT ![d] = IF on THEN "on" ELSE "off"]
  /\ UNCHANGED <<next, line, created, route, output, pc>>

\* Write the line of device d: LED_RED, LED_GREEN, LED_BLUE, LED_IR, P_CTRL.
Drive(d, on) ==
  /\ high' \in SetPin(high, line[d], on = OnHigh(d))
  /\ command' = [command EXCEPT ![d] = IF on THEN "on" ELSE "off"]
  /\ UNCHANGED <<next, line, created, route, output, pc>>

\* lua_ledrgb_red, lua_ledrgb_green, lua_ledrgb_blue and lua_ir.
LedCommand ==
  /\ pc = "run"
  /\ \E c \in Leds, on \in BOOLEAN : Drive(Led(c), on)

\* lua_p_ctrl: the argument is stored in a uint8_t before P_CTRL asserts that it
\* is a port.  The framework runs a module's init function (openai_gpio_new)
\* before the module's other functions.
PortOf(arg) == arg % ByteSize
PortCommand(arg) ==
  /\ pc = "run"
  /\ created
  /\ IF PortOf(arg) < NPorts
     THEN \E on \in BOOLEAN : Drive(Port(PortOf(arg)), on)
     ELSE pc' = "halted" /\ UNCHANGED <<next, line, created, route, output, high, command>>

Next == \/ LedRgbInit \/ LedIrInit \/ GpioInit
        \/ GpioNew \/ LedCommand \/ \E arg \in CtrlArgs : PortCommand(arg)

Spec == Init /\ [][Next]_vars

-----------------------------------------------------------------------------
\* What "failure returns ASSIGN_ERR" (modules.h) asks of a caller: no device is
\* driven through the error value.
LinesAreLines == \A d \in Devices : line[d] # ASSIGN_ERR

\* No two devices share a line, whatever was set up, and set up again, before:
\* LED lines drawn at boot and all the generations of port lines.
LinesDistinct ==
  created =>
    \A d, e \in Devices :
      (line[d] \in Lines /\ line[d] = line[e]) => d = e

\* Devices are in reach and apart: lines and pins of every generation of ports.
LinesSafe == TypeOK /\ LinesDistinct

\* As long as lines lasted, every pin shows the last command to its device: a
\* command, or a repeated openai_gpio_new, never disturbs another device.
PinsFollowCommands ==
  LinesAreLines =>
    \A d \in Devices : command[d] # "none" =>
      /\ route[Pin(d)] = line[d]
      /\ line[d] \in output
      /\ (command[d] = "on") = ((line[d] \in high) = OnHigh(d))

\* What "assert( pio < 13 )" in P_CTRL asks: a port number that does not exist
\* stops the program instead of driving some port.
CtrlRefusesBadPort ==
  [][\A arg \in CtrlArgs :
       (arg >= NPorts /\ PortCommand(arg)) => pc' = "halted"]_vars
=============================================================================
