\* Two streams, writes longer than a buffer, one failure or more.
CONSTANTS
  HeaderLen = 2
  BuffLen <- MCBuffLen
  Statuses = {0, 1}
  PutSizes = {1, 5}
  FailPoints = {0, 3}
  MaxBytes <- MCMaxBytes
SPECIFICATION FairSpec


PROPERTIES
  WritesAfterErrorHaveNoEffect
