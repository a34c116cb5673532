\* Two launches, of a server or by a gateway, also without a standard input.
SPECIFICATION Spec
CONSTANTS
  Launchers = {l1, l2}
  MaxForks = 2
  Commands <- MCCommands
  None = None
  Callers <- MCCallers
  FailOnIntr = FALSE
  MaxCallers = 3
  MaxUsr1 = 2
  NoSocket = NoSocket
  Fds = {0, 1}
  InitialSize = 2
INVARIANT ListenSocketIsSet
\* No launch, caller, signal or request of I/O need ever come.
CHECK_DEADLOCK FALSE
