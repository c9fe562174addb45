\* A user's command and a dashboard over two settings.
SPECIFICATION Spec
CONSTANTS
  Fields = {limit, bright}
  Elevating = {limit}
  Careless = {bright}
  Commands = {u1}
  Users = {u1}
  Dashboards = {d1}
  Torn = Torn
  Closed = Closed
INVARIANTS OnlyAsked TornNeedsExcuse SuccessMeansSaved
PROPERTIES LoneSaveKeepsRest
