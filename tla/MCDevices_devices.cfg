\* Two CPUs, three processes with one call each; the rings start before their end.
SPECIFICATION Spec
CONSTANTS
  Cpus = {1, 2}
  Procs = {1, 2, 3}
  Workloads <- SomeWorkloads
  NUM = 8
  StartIdx = {7}
  INPUT_BUF = 2
  UINT = 4
  StartCons = {3}
  UART_TX_BUF_SIZE = 2
INVARIANTS LocksMaskInterrupts NoLostWakeup RequestsExact InputWindow NoOverrun
