\* A read that fails between two parameters: ReadParams takes it for their end.
CONSTANTS
  HeaderLen = 2
  ExtraLen = 1
  BuffLen = 4
  GetSizes = {2, 4}
  Requests <- MCCut
  Misread <- MCMisread
SPECIFICATION FairSpec
INVARIANT ReadsParamsUntilEOF
