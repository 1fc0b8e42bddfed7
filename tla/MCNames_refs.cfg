\* Two processes make two calls between them.
SPECIFICATION Spec
CONSTANTS
  Procs = {1, 2}
  NINODE = 5
  NInum = 5
  NameSet = {"a", "d", "l"}
  MAXPATH = 3
  Images <- SmallImages
  Calls <- SomeCalls
  MaxCalls = 2
INVARIANT RefTracksPointers
