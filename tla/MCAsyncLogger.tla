--------------------------- MODULE MCAsyncLogger ---------------------------
(* The logger's threads for TLC, two of which log.                         *)
EXTENDS AsyncLogger
=============================================================================
