SPECIFICATION MCSpec
CONSTANTS
  Freqs <- MCFreqs
  Bandwidths = {200, 2000, 3600, 8000}
  Gains <- MCGains
  IfGains <- MCIfGains
  Fosc = 28800
  MaxCalls = 2
  MaxFaults = 1
  FcFreqs <- MCFcFreqs
  FcGains <- MCFcGains
  Boards = {"V4", "V4L", "R828D", "R820T"}
  R82xxFreqs = {7000, 100000, 300000, 400000, 1800000}
  Bws = {2000000}
  Pins = {0, 6}
  MaxFcCalls = 3
  MaxFcFaults = 1
INVARIANTS SettingsHold Tuned FcSettingsHold PinsHold InputSelected RfPathMatches
CHECK_DEADLOCK FALSE
