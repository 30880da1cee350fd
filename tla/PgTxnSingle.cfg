\* One client at a time and a quiet pool: the transactions a client asked for.
SPECIFICATION Spec
CONSTANTS
  Sessions = {s1}
  Conns = {c1, c2}
  Nobody = nobody
  MaxIdle = 1
  MaxRows = 4
  Commands = {"begin", "commit", "rollback", "savepoint", "release", "rollback to", "insert", "begin;", "commit;", "rollback;"}
  Faults = {"refuse"}
  WithFlusher = FALSE
SYMMETRY ConnSymmetry
INVARIANTS
  AckedCommitDurable
  AckedRollbackGone
