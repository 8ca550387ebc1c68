\* overruns after one byte, reads of one or two, good and bad arguments of init
CONSTANTS
  Channels <- Both
  MaxBytes <- ManyBytes
  FifoDepth = 1
  MaxRead = 2
  InitArgs <- SomeArgs
SPECIFICATION FairSpec
INVARIANTS BytesAccounted BytesInOrder
PROPERTIES SecondNeverServed DeinitIsFinal FirstModuleIsUart ToldOfData
CHECK_DEADLOCK FALSE
