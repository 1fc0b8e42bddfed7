\* A buffer of two bytes whose counters wrap at four, writes of up to three bytes.
SPECIFICATION Spec
CONSTANTS
  Procs = {1, 2}
  NOFILE = 2
  NFILE = 2
  NPAGE = 1
  PIPESIZE = 2
  UintMod = 4
  Bytes = {0, 1}
  Reads = {2}
  Writes <- LongWrite
INVARIANTS RefExact PageLives NoLostWakeup
PROPERTIES IsByteStream EofDelivered
CHECK_DEADLOCK FALSE
