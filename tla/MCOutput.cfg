\* Two streams, writes longer than a buffer, one failure or more; or a format;
\* or the log files of three days under either name, with three calls of
\* setters and two lines, one of them longer than a log may be.
CONSTANTS
  HeaderLen = 2
  BuffLen <- MCBuffLen
  Statuses = {0, 1}
  PutSizes = {1, 5}
  FailPoints = {0, 3}
  MaxBytes <- MCMaxBytes
  Formats <- MCFormats
  Days = 3
  Limits = {1}
  Lengths = {0, 5}
  LargeBuffer = 2
  MaxCalls = 3
  MaxLines = 2
SPECIFICATION MCSpec
INVARIANTS
  TypeOK
  ConversionsFit
PROPERTIES
  FlushMakesRoom
  ImplementsResponse
  OnlyOldLogsGo
