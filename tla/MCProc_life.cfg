\* init and three processes, one of which may be killed.  Deadlock is not an
\* error here: the case of a stale parent really stops the system.
SPECIFICATION Spec
CONSTANTS
  NPROC = 4
  KillPids = {2}
INVARIANTS ParentAlive NoLostExit FreedOffCpu NoDeadlock
CHECK_DEADLOCK FALSE
