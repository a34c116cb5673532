\* Three connections over two descriptors: one that is kept, one that hangs up
\* early or splits its requests, one ordinary.
CONSTANTS
  Conns = {kept, rude, plain}
  Keep = {kept}
  Rude = {rude}
  Fds = {3, 4}
  Workers = {w1}
  None = None
  MaxAsked = 2
SPECIFICATION FairSpec
INVARIANTS
  OwnAnswers
  Watched
PROPERTIES
  Served
\* The server waits for ever when every connection is over.
CHECK_DEADLOCK FALSE
