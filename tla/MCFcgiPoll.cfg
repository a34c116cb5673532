\* The polling loop with one client and two overlapping Stop() calls.
CONSTANTS
  Conns = {c1}
  Main = main
  Recv = recv
  Other = other
  Listener = listener
  WakeSocket = wakeSocket
  Nobody = nobody
  MaxStops = 2
  MaxSends = 1
  MaxInterrupts = 1
SPECIFICATION FairSpec
INVARIANTS
  NoLostWakeup
PROPERTIES
  StopReturns
  ImplementsSource
  StopEndsCall
\* A server without clients left waits for ever.
CHECK_DEADLOCK FALSE
