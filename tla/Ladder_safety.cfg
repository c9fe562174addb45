SPECIFICATION FairSpec
CONSTANTS
  NumCpus = 3
  CpuMin <- MCCpuMin
  CpuMax <- MCCpuMax
  NumZones = 2
  ZoneMin <- MCZoneMin
  ZoneMax <- MCZoneMax
  Levels = {"high", "low"}
  Loads = {0, 3}
  Rows = {"cores", "freq"}
INVARIANTS AimsInRange
PROPERTIES PowerReturns IdleSinks
