\* Liveness: daemon, one command, firmware and a node that comes and goes.
SPECIFICATION FairSpec
CONSTANTS
  Nodes = {1}
  HasStart = {1}
  HasTypes = {}
  Limits = {60, 80}
  Steps = {60, 80}
  FirmwareEnds = {70}
  FirmwareStarts = {60}
  Meddled = {1}
  HotPlug = {1}
  Daemon = Daemon
  Commands = {c1}
  Dashboards = {}
  Off = Off
  Closed = Closed
  Unknown = Unknown
  NoCal = NoCal
PROPERTIES SavedLimitBinds OffQuiesces
