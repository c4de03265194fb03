SPECIFICATION Spec
CONSTANTS
  Kinds = {"freq", "FC0012", "FC0013", "FC2580", "bw", "gain", "up", "down", "width"}
  FreqFirst = 27000
  FreqLast = 1775000
  FreqStep = 37
  FcFirst = 22000
  FcLast = 1800000
  FcStep = 101
  BwLast = 2500000
  BwStep = 1250
  SdmBound = 4
  Xtals = {28800000}
  RateSteps = 600
  RateStep = 123
  BinSizes = {1, 700, 125000, 999999, 1000000, 2500000}
  Crops = {0, 1, 2, 3}
  WidthLast = 2000000000
  WidthGrowth = 12
INVARIANTS PllSynthesizes FilterCovers GainsAreRealised RateIsExact HopsCover
CHECK_DEADLOCK FALSE
