\* One node with a start threshold and a mode selector that comes and goes,
\* meddling firmware, the daemon and a dashboard.
SPECIFICATION Spec
CONSTANTS
  Nodes = {1}
  HasStart = {1}
  HasTypes = {1}
  Limits = {60, 80}
  Steps = {60, 80}
  FirmwareEnds = {60}
  FirmwareStarts = {80}
  Meddled = {1}
  HotPlug = {1}
  Daemon = Daemon
  Commands = {}
  Dashboards = {d1}
  Off = Off
  Closed = Closed
  Unknown = Unknown
  NoCal = NoCal
INVARIANTS TypeOK NoWriteBlockedByStart
