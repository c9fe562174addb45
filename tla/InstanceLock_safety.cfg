\* Three process ids, a root client that probes and signals for ever and an
\* unprivileged one: two daemons contend while the number of a third, dead one
\* is recycled.
SPECIFICATION FairSpec
CONSTANTS
  Pids = {p1, p2, p3}
  Clients = {c1, c2}
  RootClients = {c1}
  NoOwner = NoOwner
  NoPid = NoPid
INVARIANTS
  MutualExclusion
  PidFileNamesHolder
PROPERTIES
  ProbeDownIsTruthful
  ImplementsSingleInstance
  NeverWedged
