SPECIFICATION Spec
CONSTANTS
  Kinds = {"width"}
  FreqFirst = 27000
  FreqLast = 1775000
  FreqStep = 37
  FcFirst = 22000
  FcLast = 1800000
  FcStep = 101
  BwLast = 2500000
  BwStep = 1250
  SdmBound = 4
  Xtals = {28800000}
  RateSteps = 600
  RateStep = 123
  BinSizes = {125000}
  Crops = {1, 2}
  WidthLast = 2000000000
  WidthGrowth = 12
INVARIANT EvenlySized
CHECK_DEADLOCK FALSE
