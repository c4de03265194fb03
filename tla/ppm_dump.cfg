SPECIFICATION Spec
CONSTANTS
  Tools = {"rtl_test -p"}
  Samples = {0, 1, 5, 8, 13}
  Modes = {TRUE, FALSE}
  BlockSize = 4
  Word = 64
  MaxSignals = 2
  MaxWritten = 40
  Size = 3
  Low = 2
  Bytes = {0, 1}
  BiasOptions = {"none", "on", "off"}
  Faults = {"read", "write"}
  Counter = 4
  BufLen = 2
  MaxDrop = 5
  MaxBuffers = 2
  Second = 2
  ppm_duration = 2
  PPM_DUMP_TIME = 1
  MaxTime = 12
  Hops = 2
  Interval = 2
  ExitTimes = {0, 3}
  Clock = 5
  MaxFaults = 1
  FmRates = {12500, 22050, 24000, 170000}
  FmResample = {0, 8000, 32000}
  Oversample = {1, 2, 3, 4, 5, 6, 7, 8, 9, 10, 11, 12, 13, 14, 15, 16}
  MaxBlocks = 3
INVARIANT DumpIsRespected
CHECK_DEADLOCK FALSE
