\* A limit is saved and a calibration runs on quiet hardware.
SPECIFICATION Spec
CONSTANTS
  Nodes = {1}
  HasStart = {}
  HasTypes = {}
  Limits = {80}
  Steps = {80}
  FirmwareEnds = {}
  FirmwareStarts = {}
  Meddled = {}
  HotPlug = {}
  Daemon = Daemon
  Commands = {c1}
  Dashboards = {}
  Off = Off
  Closed = Closed
  Unknown = Unknown
  NoCal = NoCal
PROPERTIES CeilingStaysLifted
