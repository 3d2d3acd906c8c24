CONSTANTS
  None = None
  Ports <- ThreePorts
  Primary = "main"
  InitPorts <- NoneOrSet
  Commands = 2
  Urcs <- OneUrc
  BufMax = 5
  Timeout = 2
  InputMax = 1
  TokenMax = 8
  Devices <- SomeDevices
  Interfaces <- SomeInterfaces
  Cards = {0, 1}
SPECIFICATION ResolveSpec
INVARIANTS AnswersTrue CardFound
PROPERTIES TaskEnds
CHECK_DEADLOCK FALSE
