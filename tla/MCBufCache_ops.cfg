\* Two pinned blocks and two processes compete for three buffers of four blocks:
\* bget may find none and panic.
SPECIFICATION Spec
CONSTANTS
  Proc = {p1, p2}
  Readers = {}
  Block = {a, b, c, d}
  Data = {x, y}
  None = none
  NBUF = 3
  LogCap = 2
  FailDisk = none
  FailBlock = none
SYMMETRY Symmetry
INVARIANTS RefcntExact BreadReturnsBlock DirtyBlockCached
