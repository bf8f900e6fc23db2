SPECIFICATION Spec
CONSTANTS
  szCode = 10
  ExitAddress = 4198416
  secrva = 20480
  vmcrtentry = 4240
  szOpbuf = 20
  szStack = 15
  Programs <- MCPrograms
  Inputs <- MCInputs
CHECK_DEADLOCK FALSE
PROPERTIES
  VirtualIsNative
  LoopsEnd
