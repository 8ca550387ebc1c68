\* every triple of bits, parity and stop around the accepted ones
CONSTANTS
  Channels <- Both
  MaxBytes <- ManyBytes
  FifoDepth = 1
  MaxRead = 1
  InitArgs <- AllArgs
SPECIFICATION Spec
INVARIANT StopBitsAsAsked
CHECK_DEADLOCK FALSE
