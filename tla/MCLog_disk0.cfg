\* One process writes while disk 0 fails; both copies start equal.
SPECIFICATION Spec
CONSTANTS
  Proc = {p1}
  Home = {a, b}
  Data = {x, y}
  Zero = zero
  None = none
  MAXOPBLOCKS = 4
  LOGSIZE = 8
  NLOG = 8
  OpBlocks = 2
  DiskFails = {0}
  BlockFails = {}
  Pressure = {}
  Mirrored = TRUE
  MaxCrashes = 0
  RefMod = 4
SYMMETRY Symmetry
INVARIANT DegradedWriteKept
