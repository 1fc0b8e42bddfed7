\* Crash at any point, twice; every buffer with count 0 may be recycled at any time.
SPECIFICATION Spec
CONSTANTS
  Proc = {p1, p2}
  Home = {a, b}
  Data = {x, y}
  Zero = zero
  None = none
  MAXOPBLOCKS = 4
  LOGSIZE = 8
  NLOG = 8
  OpBlocks = 2
  DiskFails <- NoDisk
  BlockFails = {}
  Pressure = {a, b, 0, 1, 2}
  Mirrored = TRUE
  MaxCrashes = 2
  RefMod = 4
SYMMETRY Symmetry
CONSTRAINT Intact
INVARIANTS QuiescentDurable MirrorInSync ReadsSeeWrites
PROPERTIES AtomicTransactions Copy1Atomic
