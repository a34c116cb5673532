------------------------------ MODULE OsAsync ------------------------------
(***************************************************************************)
(* Asynchronous I/O of the OS layer (fcgios.cpp): reads and writes are     *)
(* asked for with a callback, OS_DoIo selects, notes what is ready in the  *)
(* "post" sets and counters, and works that list off, calling back; a      *)
(* callback may ask for more, or close any descriptor.                     *)
(***************************************************************************)
EXTENDS Naturals, Integers, FiniteSets

CONSTANTS
  Fds,          (* descriptor numbers the program uses                      *)
  InitialSize   (* asyncIoTableSize's first value                           *)

ASSUME FdsAssumption == Fds \subseteq Nat /\ InitialSize \in Nat \ {0}

Dirs == {"rd", "wr"}

VARIABLES
  initialized,     (* libInitialized                                        *)
  asyncIoInUse,
  tableSize,       (* asyncIoTableSize                                      *)
  inUse,           (* by direction: the descriptors whose entry is in use   *)
  fdSet,           (* readFdSet, writeFdSet                                 *)
  post,            (* readFdSetPost, writeFdSetPost                         *)
  numPosted,       (* numRdPosted, numWrPosted                              *)
  maxFd,
  ready,           (* what select() would report                            *)
  doIo,            (* where OS_DoIo is: idle, scan, in a callback, or the   *)
                   (* process exited; and the next entry it looks at        *)
  closedPosted,    (* history: an operation was dropped after it was posted *)
  unreported       (* history: an operation was done select() did not report*)

asyncVars == <<initialized, asyncIoInUse, tableSize, inUse, fdSet, post, numPosted, maxFd,
               ready, doIo, closedPosted, unreported>>

Idle == [at |-> "idle", fd |-> 0, dir |-> "rd"]

AsyncInit ==
  /\ initialized = FALSE /\ asyncIoInUse = FALSE
  /\ tableSize = InitialSize
  /\ inUse = [d \in Dirs |-> {}]
  /\ fdSet = [d \in Dirs |-> {}]
  /\ post = [d \in Dirs |-> {}]
  /\ numPosted = [d \in Dirs |-> 0]
  /\ maxFd = -1
  /\ ready = [d \in Dirs |-> {}]
  /\ doIo = Idle
  /\ closedPosted = FALSE /\ unreported = FALSE

(* AIO_RD_IX and AIO_WR_IX.                                                *)
Index(d, fd) == IF d = "rd" THEN 2 * fd ELSE 2 * fd + 1

(* The program runs between calls of OS_DoIo and in its callbacks.         *)
ProgramRuns == initialized /\ doIo.at \in {"idle", "callback"}

-----------------------------------------------------------------------------

(* The sets are emptied, the counters and maxFd are not.                   *)
OS_LibInit ==
  /\ ~initialized
  /\ initialized' = TRUE
  /\ inUse' = [d \in Dirs |-> {}]
  /\ fdSet' = [d \in Dirs |-> {}]
  /\ post' = [d \in Dirs |-> {}]
  /\ UNCHANGED <<asyncIoInUse, tableSize, numPosted, maxFd, ready, doIo, closedPosted, unreported>>

(* The table is freed.                                                     *)
OS_LibShutdown ==
  /\ initialized /\ doIo.at = "idle"
  /\ initialized' = FALSE
  /\ inUse' = [d \in Dirs |-> {}]
  /\ closedPosted' = (closedPosted \/ \E d \in Dirs : post[d] # {})
  /\ UNCHANGED <<asyncIoInUse, tableSize, fdSet, post, numPosted, maxFd, ready, doIo, unreported>>

(* GrowAsyncTable, which doubles the table, until the entry is inside.     *)
GrowTable(index) ==
  tableSize' \in IF index < tableSize THEN {tableSize}
                 ELSE {n \in index + 1 .. 2 * index : \E k \in 1 .. index : n = tableSize * 2 ^ k}

(* OS_AsyncRead, OS_AsyncWrite; OS_AsyncReadStdin is a read of descriptor  *)
(* 0.  The code asserts that the entry is free.                            *)
OS_Async(d, fd) ==
  /\ ProgramRuns /\ fd \notin inUse[d]
  /\ asyncIoInUse' = TRUE
  /\ maxFd' = IF fd > maxFd THEN fd ELSE maxFd
  /\ GrowTable(Index(d, fd))
  /\ inUse' = [inUse EXCEPT ![d] = @ \cup {fd}]
  /\ fdSet' = [fdSet EXCEPT ![d] = @ \cup {fd}]
  /\ UNCHANGED <<initialized, post, numPosted, ready, doIo, closedPosted, unreported>>

(* An entry outside the table is read all the same; the model takes it for *)
(* one that is not in use.                                                 *)
OS_Close(fd) ==
  /\ ProgramRuns
  /\ IF asyncIoInUse
     THEN /\ inUse' = [d \in Dirs |-> inUse[d] \ {fd}]
          /\ fdSet' = [d \in Dirs |-> fdSet[d] \ {fd}]
          /\ post' = [d \in Dirs |-> post[d] \ {fd}]
          /\ maxFd' = IF maxFd = fd THEN maxFd - 1 ELSE maxFd
          /\ closedPosted' = (closedPosted \/ \E d \in Dirs : fd \in post[d])
     ELSE UNCHANGED <<inUse, fdSet, post, maxFd, closedPosted>>
  /\ ready' = [d \in Dirs |-> ready[d] \ {fd}]
  /\ UNCHANGED <<initialized, asyncIoInUse, tableSize, numPosted, doIo, unreported>>

(* A cancelled read leaves its mark in the post set.  What is shut down is *)
(* at its end, which select() reports.                                     *)
OS_CloseRead(fd) ==
  /\ ProgramRuns /\ Index("rd", fd) < tableSize
  /\ IF fd \in inUse["rd"]
     THEN /\ inUse' = [inUse EXCEPT !["rd"] = @ \ {fd}]
          /\ fdSet' = [fdSet EXCEPT !["rd"] = @ \ {fd}]
     ELSE UNCHANGED <<inUse, fdSet>>
  /\ closedPosted' = (closedPosted \/ fd \in post["rd"])
  /\ ready' = [ready EXCEPT !["rd"] = @ \cup {fd}]
  /\ UNCHANGED <<initialized, asyncIoInUse, tableSize, post, numPosted, maxFd, doIo, unreported>>

-----------------------------------------------------------------------------
(* OS_DoIo.                                                                 *)

Due(d) == {fd \in fdSet[d] \cap ready[d] : fd <= maxFd}

Turn(from) == IF \A d \in Dirs : from[d] = 0 THEN Idle ELSE [Idle EXCEPT !.at = "scan"]

(* Deviation: what is asked for stays in the set it is selected with.      *)
SelectKeepsSet ==
  /\ initialized /\ doIo.at = "idle"
  /\ asyncIoInUse' = TRUE
  /\ IF \A d \in Dirs : numPosted[d] = 0
     THEN /\ numPosted' = [d \in Dirs |-> Cardinality(Due(d))]
          /\ post' = [d \in Dirs |-> post[d] \cup Due(d)]
     ELSE UNCHANGED <<numPosted, post>>
  /\ doIo' = Turn(numPosted')
  /\ UNCHANGED <<initialized, tableSize, inUse, fdSet, maxFd, ready, closedPosted, unreported>>

(* What is left over from a prior call comes first; only without any is    *)
(* select() called, with no waiting or a time limit.                       *)
Select ==
  /\ initialized /\ doIo.at = "idle"
  /\ asyncIoInUse' = TRUE
  /\ IF \A d \in Dirs : numPosted[d] = 0
     THEN /\ numPosted' = [d \in Dirs |-> Cardinality(Due(d))]
          /\ post' = [d \in Dirs |-> post[d] \cup Due(d)]
          /\ fdSet' = [d \in Dirs |-> fdSet[d] \ Due(d)]
     ELSE UNCHANGED <<numPosted, post, fdSet>>
  /\ doIo' = Turn(numPosted')
  /\ UNCHANGED <<initialized, tableSize, inUse, maxFd, ready, closedPosted, unreported>>

(* A signal comes while select() waits: the handlers of SIGUSR1 and SIGPIPE*)
(* do not restart it, and OS_DoIo exits.                                   *)
SelectFails ==
  /\ initialized /\ doIo.at = "idle"
  /\ \A d \in Dirs : numPosted[d] = 0 /\ Due(d) = {}
  /\ asyncIoInUse' = TRUE
  /\ doIo' = [Idle EXCEPT !.at = "exited"]
  /\ UNCHANGED <<initialized, tableSize, inUse, fdSet, post, numPosted, maxFd, ready, closedPosted,
                 unreported>>

Following(p) == IF p.dir = "rd" THEN [p EXCEPT !.dir = "wr"] ELSE [p EXCEPT !.fd = @ + 1, !.dir = "rd"]

(* Deviation: the counter is only taken down for reads.                    *)
DispatchUncounted ==
  LET d == doIo.dir  fd == doIo.fd
  IN /\ doIo.at = "scan" /\ fd <= maxFd
     /\ IF fd \in post[d] /\ fd \in inUse[d]
        THEN /\ numPosted' = [numPosted EXCEPT !["rd"] = IF d = "rd" THEN @ - 1 ELSE @]
             /\ post' = [post EXCEPT ![d] = @ \ {fd}]
             /\ inUse' = [inUse EXCEPT ![d] = @ \ {fd}]
             /\ doIo' = [doIo EXCEPT !.at = "callback"]
             /\ UNCHANGED unreported
             /\ ready' \in {ready, [ready EXCEPT ![d] = @ \ {fd}]}
        ELSE /\ doIo' = Following(doIo)
             /\ UNCHANGED <<numPosted, post, inUse, unreported, ready>>
     /\ UNCHANGED <<initialized, asyncIoInUse, tableSize, fdSet, maxFd, closedPosted>>

(* The transfer; the entry is free before the callback runs.  It uses up   *)
(* what was ready, or does not.                                            *)
Dispatch ==
  LET d == doIo.dir  fd == doIo.fd
  IN /\ doIo.at = "scan" /\ fd <= maxFd
     /\ IF fd \in post[d] /\ fd \in inUse[d]
        THEN /\ numPosted' = [numPosted EXCEPT ![d] = @ - 1]
             /\ post' = [post EXCEPT ![d] = @ \ {fd}]
             /\ inUse' = [inUse EXCEPT ![d] = @ \ {fd}]
             /\ doIo' = [doIo EXCEPT !.at = "callback"]
             /\ unreported' = (unreported \/ fd \notin ready[d])
             /\ ready' \in {ready, [ready EXCEPT ![d] = @ \ {fd}]}
        ELSE /\ doIo' = Following(doIo)
             /\ UNCHANGED <<numPosted, post, inUse, unreported, ready>>
     /\ UNCHANGED <<initialized, asyncIoInUse, tableSize, fdSet, maxFd, closedPosted>>

CallbackReturns ==
  /\ doIo.at = "callback"
  /\ doIo' = [Following(doIo) EXCEPT !.at = "scan"]
  /\ UNCHANGED <<initialized, asyncIoInUse, tableSize, inUse, fdSet, post, numPosted, maxFd,
                 ready, closedPosted, unreported>>

DoIoReturns ==
  /\ doIo.at = "scan" /\ doIo.fd > maxFd
  /\ doIo' = Idle
  /\ UNCHANGED <<initialized, asyncIoInUse, tableSize, inUse, fdSet, post, numPosted, maxFd,
                 ready, closedPosted, unreported>>

OS_DoIo == Select \/ SelectFails \/ Dispatch \/ CallbackReturns \/ DoIoReturns

(* Data, an end of file or room in a buffer.                               *)
BecomeReady ==
  \E d \in Dirs, fd \in Fds :
    /\ ready' = [ready EXCEPT ![d] = @ \cup {fd}]
    /\ UNCHANGED <<initialized, asyncIoInUse, tableSize, inUse, fdSet, post, numPosted, maxFd,
                   doIo, closedPosted, unreported>>

AsyncNext ==
  \/ OS_LibInit \/ OS_LibShutdown
  \/ \E fd \in Fds : (\E d \in Dirs : OS_Async(d, fd)) \/ OS_Close(fd) \/ OS_CloseRead(fd)
  \/ OS_DoIo \/ BecomeReady

AsyncSpec == AsyncInit /\ [][AsyncNext]_asyncVars

(* A program that uses this calls OS_DoIo in a loop.                       *)
AsyncFairness == WF_asyncVars(OS_DoIo)

-----------------------------------------------------------------------------
(* Properties.                                                              *)

(* As long as no posted operation was dropped by OS_Close or OS_CloseRead  *)
(* (which do not correct the counters, fcgios.cpp:674-695 and 743-748), the*)
(* counters agree with the post sets, every posted operation is one that   *)
(* was asked for and lies inside the table, and nothing is read or written *)
(* but what select() reported, so that OS_DoIo does not block.             *)
PostedIsDue ==
  ~closedPosted =>
    /\ ~unreported
    /\ \A d \in Dirs : /\ numPosted[d] = Cardinality(post[d])
                       /\ post[d] \subseteq inUse[d]
                       /\ \A fd \in inUse[d] : Index(d, fd) < tableSize

(* An operation that was asked for, on a descriptor that is ready, is done *)
(* and called back, or cancelled, whatever other callbacks ask for - unless*)
(* a posted one was dropped, after which OS_DoIo no longer selects, or a   *)
(* signal found select() waiting, before the descriptor was ready, and     *)
(* OS_DoIo ended the process (fcgios.cpp:799-801).                         *)
AsyncCompletes ==
  \A d \in Dirs, fd \in Fds :
    (fd \in inUse[d] /\ fd \in ready[d]) ~>
       (fd \notin inUse[d] \/ closedPosted \/ ~initialized \/ doIo.at = "exited")
=============================================================================
