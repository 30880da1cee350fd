\* Two clients: the COMMIT of one ends up on another connection.
SPECIFICATION Spec
CONSTANTS
  Sessions = {s1, s2}
  Conns = {c1, c2}
  Nobody = nobody
  MaxIdle = 2
  MaxRows = 2
  Commands = {"begin", "commit", "rollback", "insert"}
  Faults = {}
  WithFlusher = FALSE
INVARIANTS
  AckedCommitDurable
