\* Three users of two connections, every fault: conserved, and all served.
SPECIFICATION FairSpec
CONSTANTS
  Sessions = {s1, s2}
  Conns = {c1, c2}
  Nobody = nobody
  MaxIdle = 1
  MaxRows = 1
  Commands = {"begin", "commit", "insert"}
  Faults = {"refuse", "lost", "expire"}
  WithFlusher = TRUE
INVARIANTS
  TypeOK
  PoolConserved
PROPERTIES
  EventuallyAnswered
