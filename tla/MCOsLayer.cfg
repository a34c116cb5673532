\* Two launches, three callers of FCGX_Accept_r, or two descriptors of the
\* asynchronous table.
SPECIFICATION Spec
CONSTANTS
  Launchers = {l1, l2}
  MaxForks = 2
  Commands <- MCCommands
  None = None
  Callers <- MCCallers
  FailOnIntr = FALSE
  MaxCallers = 3
  MaxUsr1 = 2
  NoSocket = NoSocket
  Fds = {0, 1}
  InitialSize = 2
INVARIANT PostedIsDue
PROPERTIES PathKept ShutdownEndsAccept AsyncCompletes
\* No launch, caller, signal or request of I/O need ever come.
CHECK_DEADLOCK FALSE
