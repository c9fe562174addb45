SPECIFICATION Spec
CONSTANTS
  System = "macOS"
  Sizes <- MCSizes
  Peaks = {83, 6000}
  RowsTtl = 1
  DaemonTtl = 2
INVARIANTS FrameIsTidy SelectedIsShown RowsAreFresh LabelSettles
CHECK_DEADLOCK FALSE
