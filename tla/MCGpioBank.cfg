\* eight lines: the LEDs and two generations of ports fit, the third fails
CONSTANTS
  NLines = 8
  NPorts = 2
  PortPin <- TwoPins
  CtrlArgs <- AnyPorts
  ByteSize = 4
SPECIFICATION Spec
INVARIANTS LinesSafe PinsFollowCommands
CHECK_DEADLOCK FALSE
