\* Ten requests, read in pieces of one to four bytes, failing anywhere.
CONSTANTS
  HeaderLen = 2
  ExtraLen = 1
  BuffLen = 4
  GetSizes = {2, 4}
  Requests <- MCRequests
  Misread <- MCMisread
SPECIFICATION FairSpec
INVARIANTS
  HeadersAreHeaders
PROPERTIES
  ImplementsInput
  CallsReturn
