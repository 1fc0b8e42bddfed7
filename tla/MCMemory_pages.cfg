\* Enough memory for an exec when one process runs, not when two do.
SPECIFICATION Spec
CONSTANTS
  Procs = {1, 2, 3}
  NPAGE = 17
  PGSIZE = 2
  Segments <- SomeSegments
  Sbrks <- SomeSbrks
  NArgs = 1
  MaxCalls = 6
INVARIANTS PagesExact NoPanic ImageWhole
