\* Two callers and a stop; up to twice a process is killed, an operation on the
\* registry fails or the host sleeps.
SPECIFICATION FairSpec
CONSTANTS
  p1 = p1
  p2 = p2
  p3 = p3
  None = None
  Procs <- ThreeProcs
  Kinds <- OneStops
  MaxFaults = 2
INVARIANTS
  Discoverable
  OneDaemon
PROPERTIES
  CallsEnd
  ToldDaemonsExit
CHECK_DEADLOCK FALSE
