\* One operator calibrates two batteries on a machine without a limit and with quiet firmware.
SPECIFICATION Spec
CONSTANTS
  Nodes = {1, 2}
  HasStart = {}
  HasTypes = {}
  Limits = {}
  Steps = {}
  FirmwareEnds = {60, 80}
  FirmwareStarts = {}
  Meddled = {}
  HotPlug = {}
  Daemon = Daemon
  Commands = {c1}
  Dashboards = {}
  Off = Off
  Closed = Closed
  Unknown = Unknown
  NoCal = NoCal
PROPERTIES CalibrationIsOneCycle FinishedMeansRestored
