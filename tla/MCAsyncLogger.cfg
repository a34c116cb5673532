\* Two threads that log, one SIGUSR1 in one of them or in the writer, clients
\* that take the descriptors it frees, and exit().
CONSTANTS
  Loggers = {t1, t2}
  Writer = writer
  Descriptors = {3, 4}
  MaxLogs = 1
  MaxReopens = 1
  Spurious = {t2}
  Signalled = {t1, writer}
  MaxClients = 1
SPECIFICATION FairSpec
INVARIANTS
  LinesConserved
  LinesWritten
  LinesReachLog
PROPERTY CallsEnd
\* A server that logs nothing further waits for ever.
CHECK_DEADLOCK FALSE
