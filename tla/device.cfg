SPECIFICATION Spec
CONSTANTS
  TunerTypes = {"R820T", "E4000", "UNKNOWN"}
  Model = "other"
  Freqs = {10000000, 24000000, 100000000}
  Rates = {600000, 1024000, 2400000}
  Bws = {0, 1800000}
  Gains = {297}
  Ppms = {0, 50}
  Xtals = {28800500}
  Calls <- MCCalls
  Faults = {"set_freq"}
INVARIANTS RegistersMatchMode TunedTo NoBlindAccess RecursionEnds
CHECK_DEADLOCK FALSE
