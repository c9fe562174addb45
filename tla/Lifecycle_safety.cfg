\* The unit and one detached daemon, crashes and reboots.
SPECIFICATION FairSpec
CONSTANTS
  Unit = unit
  Detached = {d1}
  Profiles = {"normal"}
  Faults = {"crash", "reboot"}
INVARIANTS StoppedMeansIdle
PROPERTIES ProfileStays StartEngages
