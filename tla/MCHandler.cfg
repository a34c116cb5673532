\* One request, one settings file, a series of calls of Value, one call of
\* Helper, or the calls of both clients with refusals and failures anywhere.
CONSTANTS
  Requests <- MCRequests
  BufSizes = {1, 2, 3, 7, 25, 1000}
  Garbage <- MCGarbage
  MaxFailures = 1
  MaxInt = 7
  MaxLargestInt = 31
  StackLimit = 4
  RightMargin = 14
  Cores = 3
  ConfigFiles <- MCConfigFiles
  Indexes = {0, 1, 2, 3}
  Scalars <- MCScalars
  Stored <- MCStored
  Paths <- MCPaths
  MaxCalls = 4
  Texts <- MCTexts
  ByteStrings <- MCBytes
  XorKeys <- MCXorKeys
  Patterns <- MCPatterns
  Days <- MCDays
  Seconds = {57599, 57600}
  DBs = {0, 1}
  MaxValues = 2
SPECIFICATION MCSpec
CONSTRAINT OneClientAtATime
INVARIANTS
  FormAsSent
  NothingLeft
  UrlFieldsAsSent
  JsonAsMeant
  ContainersAsMeant
  CodecsInvert
  AppliedOnce
  ResultsTell
  RightDatabase
  RepliesInStep
