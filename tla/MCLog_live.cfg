\* Three processes compete for a log of one slot less than LOGSIZE, as on the
\* kernel's disk, with blocks enough to fill it; log slot 1 may start to fail on
\* disk 0.  No crash.
SPECIFICATION FairSpec
CONSTANTS
  Proc = {p1, p2, p3}
  Home = {a, b, c}
  Data = {x}
  Zero = zero
  None = none
  MAXOPBLOCKS = 2
  LOGSIZE = 4
  NLOG = 4
  OpBlocks = 1
  DiskFails = {}
  BlockFails = {1}
  Pressure = {}
  Mirrored = TRUE
  MaxCrashes = 0
  RefMod = 4
INVARIANTS CommitExclusive LogFits
PROPERTIES SleeperWoken CommitCompletes
