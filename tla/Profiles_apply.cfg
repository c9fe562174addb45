SPECIFICATION FairSpec
CONSTANTS
  Machines <- MCMachines
  Loads = {0, 3}
  Levels = {"low"}
  Named = {"performance", "normal", "extreme", "auto"}
  Rows = {"long_term", "short_term", "gpu", "turbo", "audio_save", "autosuspend", "wifi_save", "bluetooth", "wifi", "writeback"}
  Stepped = {100, 500, 6000}
INVARIANTS TypeOK NothingInvented ProfileLands PreferenceLands
PROPERTIES RowsShowTheirEffect LadderSettles
