\* 25 levels, the fewest for which RightRaises holds.
SPECIFICATION FairSpec
CONSTANTS
  MaxRaw = 25
  Rounds = TRUE
  Classes = {"terminal", "heavy"}
  Levels = {"high", "low"}
  Manual = {50}
  Closed = Closed
INVARIANTS RightRaises
PROPERTIES AutoSettles
