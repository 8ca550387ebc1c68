\* port numbers beyond a byte
CONSTANTS
  NLines = 7
  NPorts = 2
  PortPin <- TwoPins
  CtrlArgs <- AnyPorts
  ByteSize = 4
SPECIFICATION Spec

PROPERTY CtrlRefusesBadPort
CHECK_DEADLOCK FALSE
