\* The receiver, two workers and a thread that takes signals: two requests
\* and one SIGTERM, under fair scheduling.
CONSTANTS
  Workers = {w1, w2}
  Main = main
  Recv = recv
  Other = other
  MaxRequests = 2
  MaxTerms = 1
SPECIFICATION FairSpec
INVARIANTS
  TypeOK
  NoStrandedRequest
  PhantomNeverHandled
  RequestConserved
PROPERTIES
  TakenInOrder
  TermEndsProcess
  DeliveredIsFinished

\* With every SIGTERM spent, a receiver without further requests just waits.
CHECK_DEADLOCK FALSE
