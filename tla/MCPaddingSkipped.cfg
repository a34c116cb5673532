\* A BEGIN record with padding: SetReaderType forgets it.
CONSTANTS
  HeaderLen = 2
  ExtraLen = 1
  BuffLen = 4
  GetSizes = {2, 4}
  Requests <- MCPadded
  Misread <- MCMisread
SPECIFICATION FairSpec
INVARIANT PaddingIsSkipped
