\* Packs that come and go, a clock set back and forth, both settings.
SPECIFICATION FairSpec
CONSTANTS
  NoReading = NoReading
  NoLimit = NoLimit
  NoRow = NoRow
  Never = Never
  Interval = 3
  WarnGap = 2
  Back = 1
  LastDay = 160000
  Temps = {45}
  Batteries <- Bays
INVARIANTS TypeOK RowKeepsPairsApart TimeAgreesWithWatts LinesAreDated
PROPERTIES SamplesAreSpaced LogGoesOn HotIsReported
