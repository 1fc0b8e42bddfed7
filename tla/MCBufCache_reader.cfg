\* One process writes and commits, another reads outside operations.
SPECIFICATION Spec
CONSTANTS
  Proc = {p1, p2}
  Readers = {p2}
  Block = {a, b, c, d}
  Data = {x, y}
  None = none
  NBUF = 3
  LogCap = 1
  FailDisk = none
  FailBlock = none
SYMMETRY Symmetry
INVARIANT OneUserPerBlock
