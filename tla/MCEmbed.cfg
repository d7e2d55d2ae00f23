\* Three callers, batches of two rows, a channel of one, one inner failure; or
\* three requests and the watchdog at one slot.
SPECIFICATION MCSpec
CONSTANTS
  t1 = t1
  t2 = t2
  t3 = t3
  Waiting = Waiting
  Error = Error
  None = None
  Watchdog = Watchdog
  Never = Never
  Callers <- MCCallers
  Tasks <- MCCallers
  Sizes <- MCSizes
  Batch = 2
  Capacity = 1
  MaxCalls = 2
  MaxFaults = 1
  IdleFor = 1
INVARIANTS
  RowsConserved
  ErrorsExplained
PROPERTIES
  ImplementsService
  EveryCallAnswered
  CallsServed
  SessionShed
CHECK_DEADLOCK FALSE
