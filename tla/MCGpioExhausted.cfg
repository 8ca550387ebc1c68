\* seven lines: the second openai_gpio_new runs out
CONSTANTS
  NLines = 7
  NPorts = 2
  PortPin <- TwoPins
  CtrlArgs <- GoodPorts
  ByteSize = 4
SPECIFICATION Spec
INVARIANT LinesAreLines
