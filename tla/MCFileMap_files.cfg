\* A direct and two indirect blocks of two bytes; each bitmap block has one bit.
SPECIFICATION Spec
CONSTANTS
  Procs = {1, 2}
  Files = {1, 2}
  Opens <- OwnFile
  NBLOCK = 5
  BSIZE = 2
  BPB = 1
  NDIRECT = 1
  NINDIRECT = 2
  MAXOPBLOCKS = 6
  Writes = {1, 3}
  Reads = {2}
  Lbns = {0, 1, 3}
  MaxCalls = 3
  MaxCrash = 1
INVARIANTS BitmapExact ReadsBack NoHoles OpWithinBudget
