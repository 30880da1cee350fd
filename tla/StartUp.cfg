\* Three processes on two hosts, with three faults anywhere.
SPECIFICATION FairSpec
CONSTANTS
  p1 = p1
  p2 = p2
  p3 = p3
  h1 = h1
  h2 = h2
  Procs = {p1, p2, p3}
  HostOf <- MCHostOf
  NoProc = NoProc
  Statements <- MCStatements
  Enabled <- MCEnabled
  MaxFaults = 3
INVARIANTS
  TypeOK
  SchemaBeforeService
  ViewsAfterTables
PROPERTIES
  EventuallyServes
