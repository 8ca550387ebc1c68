----------------------------- MODULE GpioProofs -----------------------------
(***************************************************************************)
(* Theorems about GpioBank, for any number of lines from four on, any      *)
(* number of ports and any pins.                                           *)
(***************************************************************************)
EXTENDS GpioBank, TLAPS

\* The devices that have been given a line.
Assigned(d) ==
  \/ d[1] \in Rgb /\ pc # "rgb"
  \/ d[1] = "IR" /\ pc \notin {"rgb", "ir"}
  \/ d[1] = "P" /\ created

\* Lines are drawn in order: those in use are below the next one, and no two
\* devices have the same.  The error value appears only when none is left.
LinesDrawn ==
  /\ pc = "rgb" => next = 0
  /\ pc = "ir" => next = 3
  /\ pc \in {"rgb", "ir", "gpio"} => ~created
  /\ \A d \in Devices : Assigned(d) /\ line[d] \in Lines => line[d] < next
  /\ \A d, e \in Devices :
       Assigned(d) /\ Assigned(e) /\ line[d] \in Lines /\ line[d] = line[e] => d = e
  /\ \A d \in Devices : line[d] = ASSIGN_ERR => next = NLines /\ created

\* The part of PinsFollowCommands that a step keeps: only devices with a line
\* have a command.
Follows ==
  /\ \A d \in Devices : command[d] # "none" => Assigned(d)
  /\ LinesAreLines =>
       \A d \in Devices : Assigned(d) =>
         /\ route[Pin(d)] = line[d]
         /\ line[d] \in output
         /\ command[d] # "none" => (command[d] = "on") = ((line[d] \in high) = OnHigh(d))

\* The inductive invariant.
GpioInv == TypeOK /\ LinesDrawn /\ Follows

-----------------------------------------------------------------------------
\* What a device's name tells: a led or a port, never both.
LEMMA DeviceShape ==
  /\ \A d \in Devices : d[1] \in {"R", "G", "B", "IR", "P"}
  /\ \A d \in Devices : d[1] = "P" => d[2] \in Ports /\ d = Port(d[2])
  /\ \A d \in Devices : d[1] # "P" => d = Led(d[1])
  /\ \A c \in Leds : Led(c) \in Devices
  /\ \A i \in Ports : Port(i) \in Devices
BY DEF Devices, Leds, Rgb, Led, Port

\* Every device has a pin of its own.
LEMMA PinsApart ==
  ASSUME NEW d \in Devices, NEW e \in Devices, Pin(d) = Pin(e)
  PROVE  d = e
<1>1. \A f \in Devices : f[1] \in {"R", "G", "B", "IR"} => Pin(f) \in {31, 30, 29, 12}
  BY DEF Pin
<1>2. \A f \in Devices : f[1] = "P" => Pin(f) = PortPin[f[2]]
  BY DEF Pin
<1>3. CASE d[1] = "P" /\ e[1] = "P"
  BY <1>2, <1>3, DeviceShape, PinsDiffer DEF Ports
<1>4. CASE d[1] = "P" /\ e[1] # "P"
  BY <1>1, <1>2, <1>4, DeviceShape, PinsDiffer DEF Ports
<1>5. CASE d[1] # "P" /\ e[1] = "P"
  BY <1>1, <1>2, <1>5, DeviceShape, PinsDiffer DEF Ports
<1>6. CASE d[1] # "P" /\ e[1] # "P"
  <2>1. d[1] = e[1]
    BY <1>6, DeviceShape DEF Pin
  <2>2. QED
    BY <2>1, <1>6, DeviceShape
<1>7. QED
  BY <1>3, <1>4, <1>5, <1>6

\* After a set-up, a new device is connected to its new line, and an old one to
\* what it was connected to.
LEMMA RoutedRight ==
  ASSUME NEW new, new \subseteq Devices, NEW ls, NEW d \in Devices
  PROVE  /\ d \in new /\ ls[d] \in Lines => Routed(new, ls)[Pin(d)] = ls[d]
         /\ d \notin new \/ ls[d] \notin Lines => Routed(new, ls)[Pin(d)] = route[Pin(d)]
<1>1. Pin(d) \in Pins
  BY DEF Pins
<1>2. CASE d \in new /\ ls[d] \in Lines
  <2>1. \E f \in new : Pin(f) = Pin(d) /\ ls[f] \in Lines
    BY <1>2
  <2>2. (CHOOSE f \in new : Pin(f) = Pin(d)) = d
    <3>1. \A f \in new : Pin(f) = Pin(d) => f = d
      BY PinsApart
    <3>2. QED
      BY <3>1, <1>2
  <2>3. QED
    BY <1>1, <1>2, <2>1, <2>2 DEF Routed
<1>3. CASE d \notin new \/ ls[d] \notin Lines
  <2>1. ~\E f \in new : Pin(f) = Pin(d) /\ ls[f] \in Lines
    BY <1>3, PinsApart
  <2>2. QED
    BY <1>1, <1>3, <2>1 DEF Routed
<1>4. QED
  BY <1>2, <1>3

-----------------------------------------------------------------------------
\* What is added on both sides may be dropped.
LEMMA Cancel ==
  ASSUME NEW a \in Int, NEW b \in Int, NEW c \in Int, a + b = a + c
  PROVE  b = c
OBVIOUS

\* What a set-up of n devices in some order does to lines, pins and outputs.
LEMMA SetUpRight ==
  ASSUME TypeOK, NEW new, new \subseteq Devices, NEW n \in Nat, n # 0,
         NEW place \in [new -> 0 .. n - 1],
         \A d, e \in new : place[d] = place[e] => d = e,
         SetUp(place, n)
  PROVE  /\ next' \in 0 .. NLines /\ next' >= next
         /\ line' \in [Devices -> Lines \cup {ASSIGN_ERR}]
         /\ route' \in [Pins -> Lines \cup {RESET}]
         /\ output' \subseteq Lines /\ output \subseteq output'
         /\ \A d \in new : line'[d] \in Lines => next <= line'[d] /\ line'[d] < next'
         /\ \A d, e \in new : line'[d] \in Lines /\ line'[d] = line'[e] => d = e
         /\ \A d \in Devices \ new : line'[d] = line[d]
         /\ \A d \in new : line'[d] = ASSIGN_ERR => next' = NLines
         /\ \A d \in new : place[d] = 0 /\ next = NLines => line'[d] = ASSIGN_ERR
         /\ \A d \in new : line'[d] \in Lines =>
              route'[Pin(d)] = line'[d] /\ line'[d] \in output'
         /\ \A d \in Devices \ new : route'[Pin(d)] = route[Pin(d)]
<1> DEFINE Drawn(k) == IF next + k < NLines THEN next + k ELSE ASSIGN_ERR
<1>1. /\ next' = IF next + n <= NLines THEN next + n ELSE NLines
      /\ line' = [d \in Devices |-> IF d \in new THEN Drawn(place[d]) ELSE line[d]]
      /\ route' = Routed(new, line')
      /\ output' = output \cup ({line'[d] : d \in new} \cap Lines)
  BY DEF SetUp, AssignGPIOHS
<1>2. NLines \in 4 .. 32 /\ next \in 0 .. NLines /\ ASSIGN_ERR \notin Lines
  BY LinesAssumption DEF TypeOK, ASSIGN_ERR, Lines
<1>3. \A d \in new : place[d] \in 0 .. n - 1 /\ line'[d] = Drawn(place[d])
  BY <1>1
<1>4. \A d \in new : \/ line'[d] = ASSIGN_ERR /\ next + place[d] >= NLines
                     \/ line'[d] = next + place[d] /\ line'[d] \in Lines
  BY <1>2, <1>3 DEF Lines
<1>5. \A d \in Devices \ new : line'[d] = line[d]
  BY <1>1
<1>6. next' \in 0 .. NLines /\ next' >= next
  BY <1>1, <1>2
<1>7. line' \in [Devices -> Lines \cup {ASSIGN_ERR}]
  <2>1. \A d \in Devices : line'[d] \in Lines \cup {ASSIGN_ERR}
    BY <1>4, <1>5 DEF TypeOK
  <2>2. QED
    BY <1>1, <2>1
<1>8. \A d \in new : line'[d] \in Lines => next <= line'[d] /\ line'[d] < next'
  BY <1>1, <1>2, <1>3, <1>4 DEF Lines
<1>9. \A d, e \in new : line'[d] \in Lines /\ line'[d] = line'[e] => d = e
  <2> SUFFICES ASSUME NEW d \in new, NEW e \in new, line'[d] \in Lines, line'[d] = line'[e]
               PROVE  place[d] = place[e]
    OBVIOUS
  <2>1. line'[d] = next + place[d] /\ line'[e] = next + place[e]
    BY <1>2, <1>4
  <2>2. place[d] \in Int /\ place[e] \in Int /\ next \in Int
    BY <1>2
  <2>3. next + place[d] = next + place[e]
    BY <2>1
  <2>4. QED
    BY <2>2, <2>3, Cancel
<1>10. \A d \in new : line'[d] = ASSIGN_ERR => next' = NLines
  <2> SUFFICES ASSUME NEW d \in new, line'[d] = ASSIGN_ERR PROVE next' = NLines
    OBVIOUS
  <2>1. next + place[d] >= NLines /\ place[d] \in 0 .. n - 1
    BY <1>2, <1>3, <1>4
  <2>2. next' = IF next + n <= NLines THEN next + n ELSE NLines
    BY <1>1
  <2>3. QED
    BY <2>1, <2>2, <1>2
<1>11. \A d \in new : place[d] = 0 /\ next = NLines => line'[d] = ASSIGN_ERR
  BY <1>2, <1>3
<1>12. \A d \in Devices :
         /\ d \in new /\ line'[d] \in Lines => route'[Pin(d)] = line'[d]
         /\ d \notin new \/ line'[d] \notin Lines => route'[Pin(d)] = route[Pin(d)]
  BY <1>1, RoutedRight
<1>13. route' \in [Pins -> Lines \cup {RESET}]
  <2>1. \A p \in Pins : route'[p] \in Lines \cup {RESET}
    <3> SUFFICES ASSUME NEW d \in Devices PROVE route'[Pin(d)] \in Lines \cup {RESET}
      BY DEF Pins
    <3>1. Pin(d) \in Pins
      BY DEF Pins
    <3>2. QED
      BY <3>1, <1>12 DEF TypeOK
  <2>2. route' = [p \in Pins |-> route'[p]]
    BY <1>1 DEF Routed
  <2>3. QED
    BY <2>1, <2>2
<1>14. output' \subseteq Lines /\ output \subseteq output'
  BY <1>1 DEF TypeOK
<1>15. \A d \in new : line'[d] \in Lines => line'[d] \in output'
  BY <1>1
<1>16. QED
  BY <1>5, <1>6, <1>7, <1>8, <1>9, <1>10, <1>11, <1>12, <1>13, <1>14, <1>15

\* A device that is driven, with a line of its own, shows the command; the others
\* show what they showed.
LEMMA DriveRight ==
  ASSUME GpioInv, NEW d \in Devices, Assigned(d), NEW on \in BOOLEAN, Drive(d, on)
  PROVE  GpioInv'
<1>1. high' \subseteq Lines
  BY DEF GpioInv, TypeOK, Drive, SetPin
<1>2. command' = [command EXCEPT ![d] = IF on THEN "on" ELSE "off"]
  BY DEF Drive
<1>3. UNCHANGED <<next, line, created, route, output, pc>>
  BY DEF Drive
<1>4. TypeOK'
  BY <1>1, <1>2, <1>3 DEF GpioInv, TypeOK, Pins, Devices
<1>5. LinesDrawn' /\ \A e \in Devices : Assigned(e)' <=> Assigned(e)
  BY <1>3 DEF GpioInv, LinesDrawn, Assigned
<1>6. \A e \in Devices : command'[e] # "none" => Assigned(e)'
  BY <1>2, <1>5 DEF GpioInv, TypeOK, Follows
<1>7. ASSUME LinesAreLines', NEW e \in Devices, Assigned(e)'
      PROVE  /\ route'[Pin(e)] = line'[e]
             /\ line'[e] \in output'
             /\ command'[e] # "none" =>
                  (command'[e] = "on") = ((line'[e] \in high') = OnHigh(e))
  <2>1. LinesAreLines
    BY <1>3, <1>7 DEF LinesAreLines
  <2>2. line[d] \in Lines
    BY <2>1 DEF LinesAreLines, GpioInv, TypeOK
  <2>3. high' = IF on = OnHigh(d) THEN high \cup {line[d]} ELSE high \ {line[d]}
    BY <2>2 DEF Drive, SetPin
  <2>4. route'[Pin(e)] = line'[e] /\ line'[e] \in output'
    BY <1>3, <1>5, <1>7, <2>1 DEF GpioInv, Follows
  <2>5. CASE e = d
    <3>1. command'[d] = IF on THEN "on" ELSE "off"
      BY <1>2 DEF GpioInv, TypeOK
    <3>2. (line[d] \in high') = (on = OnHigh(d))
      BY <2>3
    <3>3. OnHigh(d) \in BOOLEAN
      BY DEF OnHigh
    <3>4. QED
      BY <1>3, <2>4, <2>5, <3>1, <3>2, <3>3
  <2>6. CASE e # d
    <3>1. line[e] # line[d]
      BY <1>5, <1>7, <2>2, <2>6 DEF GpioInv, LinesDrawn
    <3>2. (line[e] \in high') = (line[e] \in high)
      BY <2>3, <3>1
    <3>3. command'[e] = command[e]
      BY <1>2, <2>6 DEF GpioInv, TypeOK
    <3>4. command[e] # "none" => (command[e] = "on") = ((line[e] \in high) = OnHigh(e))
      BY <1>5, <1>7, <2>1 DEF GpioInv, Follows
    <3>5. QED
      BY <1>3, <2>4, <3>2, <3>3, <3>4
  <2>7. QED
    BY <2>5, <2>6
<1>8. QED
  BY <1>4, <1>5, <1>6, <1>7 DEF GpioInv, Follows

-----------------------------------------------------------------------------
\* A set-up that changes no level but those of its own lines keeps the invariant.
LEMMA SetUpKeeps ==
  ASSUME GpioInv, NEW new, new \subseteq Devices, NEW n \in Nat, n # 0,
         NEW place \in [new -> 0 .. n - 1],
         \A d, e \in new : place[d] = place[e] => d = e,
         \E d \in new : place[d] = 0,
         SetUp(place, n),
         high' \subseteq Lines, pc' \in {"rgb", "ir", "gpio", "run", "halted"},
         created' \in BOOLEAN, created => created',
         command' \in [Devices -> {"none", "on", "off"}],
         \A d \in new : Assigned(d)',
         \A d \in Devices \ new : (Assigned(d)' <=> Assigned(d)) /\ command'[d] = command[d],
         \A d \in new : line'[d] = ASSIGN_ERR => created',
         \A l \in Lines : (\A d \in new : line'[d] # l) => (l \in high' <=> l \in high),
         \A d \in new : command'[d] # "none" /\ line'[d] \in Lines =>
            (command'[d] = "on") = ((line'[d] \in high') = OnHigh(d)),
         /\ pc' = "rgb" => next' = 0
         /\ pc' = "ir" => next' = 3
         /\ pc' \in {"rgb", "ir", "gpio"} => ~created'
  PROVE  GpioInv'
<1>0. TypeOK /\ LinesDrawn /\ Follows
  BY DEF GpioInv
<1>1. /\ next' \in 0 .. NLines /\ next' >= next
      /\ line' \in [Devices -> Lines \cup {ASSIGN_ERR}]
      /\ route' \in [Pins -> Lines \cup {RESET}]
      /\ output' \subseteq Lines /\ output \subseteq output'
      /\ \A d \in new : line'[d] \in Lines => next <= line'[d] /\ line'[d] < next'
      /\ \A d, e \in new : line'[d] \in Lines /\ line'[d] = line'[e] => d = e
      /\ \A d \in Devices \ new : line'[d] = line[d]
      /\ \A d \in new : line'[d] = ASSIGN_ERR => next' = NLines
      /\ \A d \in new : place[d] = 0 /\ next = NLines => line'[d] = ASSIGN_ERR
      /\ \A d \in new : line'[d] \in Lines =>
           route'[Pin(d)] = line'[d] /\ line'[d] \in output'
      /\ \A d \in Devices \ new : route'[Pin(d)] = route[Pin(d)]
  BY <1>0, SetUpRight
<1>2. /\ \A d \in new : line'[d] \in Lines => next <= line'[d] /\ line'[d] < next'
      /\ \A d, e \in new : line'[d] \in Lines /\ line'[d] = line'[e] => d = e
      /\ \A d \in Devices \ new : line'[d] = line[d]
      /\ \A d \in new : line'[d] = ASSIGN_ERR => next' = NLines
      /\ \A d \in new : place[d] = 0 /\ next = NLines => line'[d] = ASSIGN_ERR
  BY <1>1
<1>3. /\ \A d \in new : line'[d] \in Lines =>
           route'[Pin(d)] = line'[d] /\ line'[d] \in output'
      /\ \A d \in Devices \ new : route'[Pin(d)] = route[Pin(d)]
  BY <1>1
<1>4. TypeOK'
  BY <1>1 DEF TypeOK
<1>5. NLines \in Int /\ next \in Int /\ next' \in Int /\ Lines \subseteq Int /\ next <= NLines
  BY <1>0, <1>1, LinesAssumption DEF TypeOK, Lines
<1>6. \A d \in Devices \ new : Assigned(d)' /\ line'[d] \in Lines => line'[d] < next
  BY <1>0, <1>2 DEF LinesDrawn
<1>7. \A d \in new, e \in Devices \ new :
        Assigned(e)' /\ line'[e] \in Lines => line'[d] # line'[e]
  <2> SUFFICES ASSUME NEW d \in new, NEW e \in Devices \ new, Assigned(e)', line'[e] \in Lines,
                      line'[d] = line'[e]
               PROVE  FALSE
    OBVIOUS
  <2>1. line'[e] < next /\ next <= line'[d]
    BY <1>2, <1>6
  <2>2. line'[e] \in Int
    BY <1>5
  <2>3. QED
    BY <2>1, <2>2, <1>5
<1>8. LinesDrawn'
  <2>1. ASSUME NEW d \in Devices, Assigned(d)', line'[d] \in Lines
        PROVE  line'[d] < next'
    <3>1. CASE d \in new
      BY <2>1, <3>1, <1>2
    <3>2. CASE d \notin new
      <4>1. line'[d] < next /\ next' >= next /\ line'[d] \in Int
        BY <2>1, <3>2, <1>1, <1>5, <1>6
      <4>2. QED
        BY <4>1, <1>5
    <3>3. QED
      BY <3>1, <3>2
  <2>2. ASSUME NEW d \in Devices, NEW e \in Devices, Assigned(d)', Assigned(e)',
               line'[d] \in Lines, line'[d] = line'[e]
        PROVE  d = e
    <3>1. CASE d \in new /\ e \in new
      BY <2>2, <3>1, <1>2
    <3>2. CASE d \notin new /\ e \notin new
      BY <2>2, <3>2, <1>0, <1>2 DEF LinesDrawn
    <3>3. CASE d \in new /\ e \notin new
      BY <2>2, <3>3, <1>7
    <3>4. CASE d \notin new /\ e \in new
      BY <2>2, <3>4, <1>7
    <3>5. QED
      BY <3>1, <3>2, <3>3, <3>4
  <2>3. ASSUME NEW d \in Devices, line'[d] = ASSIGN_ERR
        PROVE  next' = NLines /\ created'
    <3>1. CASE d \in new
      BY <2>3, <3>1, <1>2
    <3>2. CASE d \notin new
      <4>1. next = NLines /\ created
        BY <2>3, <3>2, <1>0, <1>2 DEF LinesDrawn
      <4>2. QED
        BY <4>1, <1>1, <1>5
    <3>3. QED
      BY <3>1, <3>2
  <2>4. QED
    BY <2>1, <2>2, <2>3 DEF LinesDrawn
<1>9. \A d \in Devices : command'[d] # "none" => Assigned(d)'
  BY <1>0 DEF Follows
<1>10. ASSUME LinesAreLines', NEW d \in Devices, Assigned(d)'
       PROVE  /\ route'[Pin(d)] = line'[d]
              /\ line'[d] \in output'
              /\ command'[d] # "none" =>
                   (command'[d] = "on") = ((line'[d] \in high') = OnHigh(d))
  <2>1. line'[d] \in Lines
    BY <1>1, <1>10 DEF LinesAreLines
  <2>2. CASE d \in new
    BY <2>1, <2>2, <1>3
  <2>3. CASE d \notin new
    <3>1. LinesAreLines
      <4>1. next # NLines
        BY <1>2, <1>10 DEF LinesAreLines
      <4>2. QED
        BY <4>1, <1>0 DEF LinesDrawn, LinesAreLines
    <3>2. Assigned(d) /\ line'[d] = line[d] /\ command'[d] = command[d]
          /\ route'[Pin(d)] = route[Pin(d)]
      BY <2>3, <1>2, <1>3, <1>10
    <3>3. /\ route[Pin(d)] = line[d] /\ line[d] \in output
          /\ command[d] # "none" => (command[d] = "on") = ((line[d] \in high) = OnHigh(d))
      BY <3>1, <3>2, <1>0 DEF Follows
    <3>4. \A e \in new : line'[e] # line'[d]
      BY <2>1, <2>3, <1>7, <1>10
    <3>5. line'[d] \in high' <=> line'[d] \in high
      BY <2>1, <3>4
    <3>6. (line'[d] \in high') = (line'[d] \in high)
      BY <3>5
    <3>7. route'[Pin(d)] = line'[d] /\ line'[d] \in output'
      BY <1>1, <3>2, <3>3
    <3>8. QED
      BY <3>2, <3>3, <3>6, <3>7
  <2>4. QED
    BY <2>2, <2>3
<1>11. QED
  BY <1>4, <1>8, <1>9, <1>10 DEF GpioInv, Follows

-----------------------------------------------------------------------------
\* The invariant holds at the start.
LEMMA InitGpioInv ==
  ASSUME Init
  PROVE  GpioInv
<1>1. TypeOK
  <2>1. 0 \in Lines /\ 0 \in 0 .. NLines
    BY LinesAssumption DEF Lines
  <2>2. line \in [Devices -> Lines \cup {ASSIGN_ERR}]
    BY <2>1 DEF Init
  <2>3. route \in [Pins -> Lines \cup {RESET}]
    BY DEF Init
  <2>4. command \in [Devices -> {"none", "on", "off"}]
    BY DEF Init
  <2>5. QED
    BY <2>1, <2>2, <2>3, <2>4 DEF Init, TypeOK
<1>2. LinesDrawn
  BY DEF Init, LinesDrawn, Assigned, ASSIGN_ERR, Devices, Leds, Rgb
<1>3. \A d \in Devices : command[d] = "none"
  BY DEF Init
<1>4. \A d \in Devices : ~Assigned(d)
  BY DeviceShape DEF Init, Assigned, Rgb
<1>5. QED
  BY <1>1, <1>2, <1>3, <1>4 DEF GpioInv, Follows

\* Setting the RGB lines up keeps the invariant.
LEMMA LedRgbInitKeeps ==
  ASSUME GpioInv, LedRgbInit
  PROVE  GpioInv'
<1> DEFINE new == {Led(c) : c \in Rgb}
<1>1. TypeOK /\ LinesDrawn /\ pc = "rgb" /\ pc' = "ir" /\ created' = created /\ ~created
      /\ next = 0
  BY DEF GpioInv, LinesDrawn, LedRgbInit
<1>2. new \subseteq Devices /\ RgbInOrder \in [new -> 0 .. 3 - 1]
  BY DEF RgbInOrder, Devices, Leds, Rgb, Led
<1>3. \A d, e \in new : RgbInOrder[d] = RgbInOrder[e] => d = e
  BY DEF RgbInOrder, Rgb, Led
<1>4. Led("R") \in new /\ RgbInOrder[Led("R")] = 0
  BY DEF RgbInOrder, Rgb
<1>5. SetUp(RgbInOrder, 3) /\ DOMAIN RgbInOrder = new
  BY DEF LedRgbInit, RgbInOrder
<1>6. \A d \in Devices : d \in new <=> d[1] \in Rgb
  BY DEF Devices, Leds, Rgb, Led
<1>7. \A d \in Devices : d \notin new => ~Assigned(d) /\ ~Assigned(d)'
  BY <1>1, <1>6, DeviceShape DEF Assigned
<1>8. \A d \in new : Assigned(d)'
  BY <1>1, <1>2, <1>6 DEF Assigned
<1>9. line' = [d \in Devices |-> IF d \in new THEN AssignGPIOHS(RgbInOrder[d]) ELSE line[d]]
      /\ next' = 3
  BY <1>1, <1>5, LinesAssumption DEF SetUp
<1>10. \A d \in new : line'[d] \in Lines /\ line'[d] # ASSIGN_ERR
  BY <1>1, <1>2, <1>9, LinesAssumption DEF AssignGPIOHS, Lines, ASSIGN_ERR
<1>11. high' = high \cup {line'[d] : d \in new}
  BY DEF LedRgbInit
<1>12. high' \subseteq Lines
  BY <1>1, <1>10, <1>11 DEF TypeOK
<1>13. command' = [d \in Devices |-> IF d[1] \in Rgb THEN "off" ELSE command[d]]
  BY DEF LedRgbInit
<1>14. /\ command' \in [Devices -> {"none", "on", "off"}]
       /\ \A d \in new : command'[d] = "off"
       /\ \A d \in Devices \ new : command'[d] = command[d]
  BY <1>1, <1>2, <1>6, <1>13 DEF TypeOK
<1>15. \A l \in Lines : (\A d \in new : line'[d] # l) => (l \in high' <=> l \in high)
  BY <1>11
<1>16. ASSUME NEW d \in new
       PROVE  (command'[d] = "on") = ((line'[d] \in high') = OnHigh(d))
  <2>1. line'[d] \in high' /\ command'[d] # "on"
    BY <1>11, <1>14
  <2>2. OnHigh(d) = FALSE
    BY <1>2, <1>6 DEF OnHigh
  <2>3. QED
    BY <2>1, <2>2
<1>17. \A d \in Devices \ new : (Assigned(d)' <=> Assigned(d)) /\ command'[d] = command[d]
  BY <1>7, <1>14
<1> HIDE DEF new
<1>18. 3 \in Nat /\ 3 # 0 /\ (\E d \in new : RgbInOrder[d] = 0)
  BY <1>4
<1>19. /\ pc' \in {"rgb", "ir", "gpio", "run", "halted"}
       /\ created' \in BOOLEAN /\ (created => created')
  BY <1>1 DEF TypeOK
<1>20. /\ pc' = "rgb" => next' = 0
       /\ pc' = "ir" => next' = 3
       /\ pc' \in {"rgb", "ir", "gpio"} => ~created'
  BY <1>1, <1>9
<1>21. /\ \A d \in new : line'[d] = ASSIGN_ERR => created'
       /\ \A d \in new : command'[d] # "none" /\ line'[d] \in Lines =>
            (command'[d] = "on") = ((line'[d] \in high') = OnHigh(d))
  BY <1>10, <1>16
<1>22. command' \in [Devices -> {"none", "on", "off"}]
  BY <1>14
<1>23. QED
  BY <1>1, <1>2, <1>3, <1>5, <1>8, <1>12, <1>15, <1>17, <1>18, <1>19, <1>20, <1>21, <1>22,
     SetUpKeeps

\* Setting the infrared line up keeps the invariant.
LEMMA LedIrInitKeeps ==
  ASSUME GpioInv, LedIrInit
  PROVE  GpioInv'
<1> DEFINE new == {Led("IR")}
           place == [d \in new |-> 0]
<1>1. TypeOK /\ LinesDrawn /\ pc = "ir" /\ pc' = "gpio" /\ created' = created /\ ~created
      /\ next = 3
  BY DEF GpioInv, LinesDrawn, LedIrInit
<1>2. new \subseteq Devices /\ place \in [new -> 0 .. 1 - 1]
  BY DEF Devices, Leds, Led
<1>3. \A d, e \in new : place[d] = place[e] => d = e
  OBVIOUS
<1>4. Led("IR") \in new /\ place[Led("IR")] = 0
  OBVIOUS
<1>5. SetUp(place, 1) /\ DOMAIN place = new
  BY DEF LedIrInit
<1>6. \A d \in Devices : d \in new <=> d[1] = "IR"
  BY DEF Devices, Leds, Rgb, Led
<1>7. \A d \in Devices : d \notin new => (Assigned(d) <=> Assigned(d)')
  BY <1>1, <1>6, DeviceShape DEF Assigned
<1>8. \A d \in new : Assigned(d)'
  BY <1>1, <1>2, <1>6 DEF Assigned
<1>9. line' = [d \in Devices |-> IF d \in new THEN AssignGPIOHS(place[d]) ELSE line[d]]
  BY <1>5 DEF SetUp
<1>10. \A d \in new : line'[d] \in Lines /\ line'[d] # ASSIGN_ERR
  BY <1>1, <1>2, <1>9, LinesAssumption DEF AssignGPIOHS, Lines, ASSIGN_ERR
<1>11. high' = high \ {line'[Led("IR")]}
  BY DEF LedIrInit
<1>12. high' \subseteq Lines
  BY <1>1, <1>11 DEF TypeOK
<1>13. command' = [command EXCEPT ![Led("IR")] = "off"]
  BY DEF LedIrInit
<1>14. /\ command' \in [Devices -> {"none", "on", "off"}]
       /\ \A d \in new : command'[d] = "off"
       /\ \A d \in Devices \ new : command'[d] = command[d]
  BY <1>1, <1>2, <1>13 DEF TypeOK
<1>15. \A l \in Lines : (\A d \in new : line'[d] # l) => (l \in high' <=> l \in high)
  BY <1>11
<1>16. ASSUME NEW d \in new
       PROVE  (command'[d] = "on") = ((line'[d] \in high') = OnHigh(d))
  <2>1. line'[d] \notin high' /\ command'[d] # "on"
    BY <1>11, <1>14
  <2>2. OnHigh(d) = TRUE
    BY <1>2, <1>6 DEF OnHigh, Rgb
  <2>3. QED
    BY <2>1, <2>2
<1>17. \A d \in Devices \ new : (Assigned(d)' <=> Assigned(d)) /\ command'[d] = command[d]
  BY <1>7, <1>14
<1> HIDE DEF new, place
<1>18. 1 \in Nat /\ 1 # 0 /\ (\E d \in new : place[d] = 0)
  BY <1>4
<1>19. /\ pc' \in {"rgb", "ir", "gpio", "run", "halted"}
       /\ created' \in BOOLEAN /\ (created => created')
  BY <1>1 DEF TypeOK
<1>20. /\ pc' = "rgb" => next' = 0
       /\ pc' = "ir" => next' = 3
       /\ pc' \in {"rgb", "ir", "gpio"} => ~created'
  BY <1>1, <1>9
<1>21. /\ \A d \in new : line'[d] = ASSIGN_ERR => created'
       /\ \A d \in new : command'[d] # "none" /\ line'[d] \in Lines =>
            (command'[d] = "on") = ((line'[d] \in high') = OnHigh(d))
  BY <1>10, <1>16
<1>22. command' \in [Devices -> {"none", "on", "off"}]
  BY <1>14
<1>23. QED
  BY <1>1, <1>2, <1>3, <1>5, <1>8, <1>12, <1>15, <1>17, <1>18, <1>19, <1>20, <1>21, <1>22,
     SetUpKeeps

\* Registering the gpio module keeps the invariant.
LEMMA GpioInitKeeps ==
  ASSUME GpioInv, GpioInit
  PROVE  GpioInv'
<1>1. UNCHANGED <<next, line, created, route, output, high, command>>
      /\ pc = "gpio" /\ pc' = "run"
  BY DEF GpioInit
<1>2. \A d \in Devices : Assigned(d)' <=> Assigned(d)
  BY <1>1 DEF Assigned
<1>3. TypeOK'
  BY <1>1 DEF GpioInv, TypeOK
<1>4. LinesDrawn'
  BY <1>1, <1>2 DEF GpioInv, LinesDrawn
<1>5. Follows'
  BY <1>1, <1>2 DEF GpioInv, Follows, LinesAreLines
<1>6. QED
  BY <1>3, <1>4, <1>5 DEF GpioInv

\* A new gpio object keeps the invariant.
LEMMA GpioNewKeeps ==
  ASSUME GpioInv, GpioNew
  PROVE  GpioInv'
<1> DEFINE new == {Port(i) : i \in Ports}
           place == [d \in new |-> d[2]]
<1>1. TypeOK /\ pc = "run" /\ pc' = "run" /\ created' = TRUE /\ high' = high
  BY DEF GpioInv, GpioNew
<1>2. new \subseteq Devices /\ place \in [new -> 0 .. NPorts - 1]
  BY DEF Devices, Port, Ports
<1>3. \A d, e \in new : place[d] = place[e] => d = e
  BY DEF Port
<1>4. Port(0) \in new /\ place[Port(0)] = 0
  BY PortsAssumption DEF Port, Ports
<1>5. SetUp(place, NPorts) /\ NPorts \in Nat /\ NPorts # 0
  BY PortsAssumption DEF GpioNew
<1>6. \A d \in Devices : d \in new <=> d[1] = "P"
  BY DEF Devices, Leds, Rgb, Port
<1>7. \A d \in Devices : d \notin new => (Assigned(d) <=> Assigned(d)')
  BY <1>1, <1>6 DEF Assigned
<1>8. \A d \in new : Assigned(d)'
  BY <1>1, <1>2, <1>6 DEF Assigned
<1>9. command' = [d \in Devices |-> IF d[1] = "P" THEN "none" ELSE command[d]]
  BY DEF GpioNew
<1>10. /\ command' \in [Devices -> {"none", "on", "off"}]
       /\ \A d \in new : command'[d] = "none"
       /\ \A d \in Devices \ new : command'[d] = command[d]
  BY <1>1, <1>2, <1>6, <1>9 DEF TypeOK
<1>11. \A d \in Devices \ new : (Assigned(d)' <=> Assigned(d)) /\ command'[d] = command[d]
  BY <1>7, <1>10
<1>12. high' \subseteq Lines
  BY <1>1 DEF TypeOK
<1> HIDE DEF new, place
<1>13. QED
  BY <1>1, <1>2, <1>3, <1>4, <1>5, <1>8, <1>10, <1>11, <1>12, SetUpKeeps

-----------------------------------------------------------------------------
\* The invariant holds in every state, for any number of lines and ports.
THEOREM GpioInvAlways == Spec => []GpioInv
<1>1. Init => GpioInv
  BY InitGpioInv
<1>2. GpioInv /\ [Next]_vars => GpioInv'
  <2> SUFFICES ASSUME GpioInv, [Next]_vars PROVE GpioInv'
    OBVIOUS
  <2>1. CASE LedRgbInit
    BY <2>1, LedRgbInitKeeps
  <2>2. CASE LedIrInit
    BY <2>2, LedIrInitKeeps
  <2>3. CASE GpioInit
    BY <2>3, GpioInitKeeps
  <2>4. CASE GpioNew
    BY <2>4, GpioNewKeeps
  <2>5. CASE LedCommand
    <3>1. PICK c \in Leds, on \in BOOLEAN : Drive(Led(c), on)
      BY <2>5 DEF LedCommand
    <3>2. Led(c) \in Devices /\ Assigned(Led(c))
      BY <2>5, DeviceShape DEF LedCommand, Assigned, Led, Leds, Rgb
    <3>3. QED
      BY <3>1, <3>2, DriveRight
  <2>6. ASSUME NEW arg \in CtrlArgs, PortCommand(arg)
        PROVE  GpioInv'
    <3>1. CASE PortOf(arg) < NPorts
      <4>1. PICK on \in BOOLEAN : Drive(Port(PortOf(arg)), on)
        BY <2>6, <3>1 DEF PortCommand
      <4>2. PortOf(arg) \in Ports
        BY <3>1, ArgsAssumption, PortsAssumption DEF PortOf, Ports
      <4>3. Port(PortOf(arg)) \in Devices /\ Assigned(Port(PortOf(arg)))
        BY <2>6, <4>2, DeviceShape DEF PortCommand, Assigned, Port
      <4>4. QED
        BY <4>1, <4>3, DriveRight
    <3>2. CASE ~(PortOf(arg) < NPorts)
      <4>1. UNCHANGED <<next, line, created, route, output, high, command>>
            /\ pc = "run" /\ pc' = "halted"
        BY <2>6, <3>2 DEF PortCommand
      <4>2. \A d \in Devices : Assigned(d)' <=> Assigned(d)
        BY <4>1 DEF Assigned
      <4>3. TypeOK'
        BY <4>1 DEF GpioInv, TypeOK
      <4>4. LinesDrawn'
        BY <4>1, <4>2 DEF GpioInv, LinesDrawn
      <4>5. Follows'
        BY <4>1, <4>2 DEF GpioInv, Follows, LinesAreLines
      <4>6. QED
        BY <4>3, <4>4, <4>5 DEF GpioInv
    <3>3. QED
      BY <3>1, <3>2
  <2>7. CASE UNCHANGED vars
    <3>1. \A d \in Devices : Assigned(d)' <=> Assigned(d)
      BY <2>7 DEF Assigned, vars
    <3>2. TypeOK'
      BY <2>7 DEF GpioInv, TypeOK, vars
    <3>3. LinesDrawn'
      BY <2>7, <3>1 DEF GpioInv, LinesDrawn, vars
    <3>4. Follows'
      BY <2>7, <3>1 DEF GpioInv, Follows, LinesAreLines, vars
    <3>5. QED
      BY <3>2, <3>3, <3>4 DEF GpioInv
  <2>8. QED
    BY <2>1, <2>2, <2>3, <2>4, <2>5, <2>6, <2>7 DEF Next
<1>3. QED
  BY <1>1, <1>2, PTL DEF Spec

\* The state is well-formed and no two devices ever share a line: not the LEDs
\* brought up at boot, nor any generation of the ports.
THEOREM LinesSafeCorrect == Spec => []LinesSafe
<1>1. GpioInv => LinesSafe
  <2> SUFFICES ASSUME GpioInv PROVE LinesSafe
    OBVIOUS
  <2>1. ASSUME created, NEW d \in Devices
        PROVE  Assigned(d)
    <3>1. pc \notin {"rgb", "ir"}
      BY <2>1 DEF GpioInv, LinesDrawn
    <3>2. QED
      BY <2>1, <3>1, DeviceShape DEF Assigned, Rgb
  <2>2. LinesDistinct
    BY <2>1 DEF GpioInv, LinesDrawn, LinesDistinct
  <2>3. QED
    BY <2>2 DEF GpioInv, LinesSafe
<1>2. QED
  BY <1>1, GpioInvAlways, PTL

\* As long as the platform had a line for every device, each pin shows the last
\* command given to its device.
THEOREM PinsCorrect == Spec => []PinsFollowCommands
<1>1. GpioInv => PinsFollowCommands
  BY DEF GpioInv, Follows, PinsFollowCommands
<1>2. QED
  BY <1>1, GpioInvAlways, PTL
=============================================================================
