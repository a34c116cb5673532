---------------------------- MODULE AsyncLogger ----------------------------
(***************************************************************************)
(* libCommon/logging.cpp: threads that log, the writer thread behind them, *)
(* its two queues, one mutex and two condition variables; Flush(), which   *)
(* an ERROR or FATAL message waits in; the destructor, which exit() runs;  *)
(* and the SIGUSR1 handler, which reopens the log file without a lock.     *)
(*                                                                         *)
(* What a thread does with mu_ held is one action, up to the point where a *)
(* condition variable releases it.  A signal handler suspends the thread   *)
(* it runs in.  Descriptors are the process's: accept() and open() take    *)
(* the lowest free one, so a closed log file may become a client's socket. *)
(*                                                                         *)
(* The server never calls SetLogSize, SetLogCount, SetLogSizeLimit or      *)
(* SetWarningFile: here g_log_size and g_warning_fd are 0 and the log is a *)
(* file, as main() sets it up unless it is told to stay in the foreground. *)
(* LogFiles has the setters, the rotation they start and the warning file. *)
(***************************************************************************)
EXTENDS Naturals, Sequences, FiniteSets, SequencesExt

CONSTANTS
  Loggers,      (* the threads that log                                     *)
  Writer,       (* the thread of AsyncWriter()                              *)
  Descriptors,  (* file descriptors                                         *)
  MaxLogs,      (* bound: messages per thread                               *)
  MaxReopens,   (* bound: SIGUSR1s                                          *)
  Spurious,     (* bound: threads that meet spurious wake-ups in Flush()    *)
  Signalled,    (* bound: threads SIGUSR1 interrupts                        *)
  MaxClients    (* bound: clients connected at a time                       *)

Threads == Loggers \cup {Writer}

ASSUME LoggerAssumption ==
  /\ Writer \notin Loggers
  /\ Spurious \subseteq Loggers /\ Signalled \subseteq Threads
  /\ IsFiniteSet(Descriptors) /\ Descriptors \subseteq Nat /\ Cardinality(Descriptors) >= 2
  /\ "flush" \notin Loggers

Null == <<"flush">>     (* the entry Flush() pushes                         *)

VARIABLES
  stopped,      (* stopped_                                                 *)
  buffer, bg,   (* *buffer_queue_ and *bg_queue_                            *)
  writer,       (* where AsyncWriter() is                                   *)
  str, fd,      (* its local str; the g_log_fd its write() was given        *)
  pc,           (* where each logger is in Log() or in exit()               *)
  level,        (* the level of its current message                         *)
  ended,        (* how the process ended                                    *)
  g_log_fd,
  fds,          (* what each descriptor refers to                           *)
  reopen,       (* where each thread is in the SIGUSR1 handler              *)
  newFd,        (* GetNewLog()'s local fd                                   *)
  reopens, overlap,  (* history: SIGUSR1s; two handlers ran at once         *)
  order,        (* history: the entries in the order they were pushed       *)
  handled,      (* history: those the writer is done with, in its order     *)
  astray,       (* history: lines that went to something else than a log    *)
  due,          (* history: lines logged before exit() was called           *)
  raced,        (* history: a handler closed the descriptor of a write      *)
  unasked       (* history: threads some Flush() of which nobody woke       *)

queues   == <<buffer, bg>>
writing  == <<writer, str, fd>>
logging  == <<pc, level>>
files    == <<g_log_fd, fds>>
handlers == <<reopen, newFd, reopens, overlap>>
history  == <<order, handled, astray, due, raced, unasked>>
vars     == <<stopped, queues, writing, logging, ended, files, handlers, history>>

Lowest(S) == CHOOSE d \in S : \A e \in S : d <= e

Init ==
  /\ stopped = TRUE
  /\ buffer = <<>> /\ bg = <<>>
  /\ writer = "unborn" /\ str = Null /\ fd = Lowest(Descriptors)
  /\ pc = [t \in Loggers |-> "idle"] /\ level = [t \in Loggers |-> "info"]
  /\ ended = "no"
  /\ g_log_fd = Lowest(Descriptors)
  /\ fds = [d \in Descriptors |-> IF d = Lowest(Descriptors) THEN "log" ELSE "free"]
  /\ reopen = [t \in Threads |-> "none"] /\ newFd = [t \in Threads |-> g_log_fd]
  /\ reopens = 0 /\ overlap = FALSE
  /\ order = <<>> /\ handled = <<>> /\ astray = {} /\ due = {}
  /\ raced = FALSE /\ unasked = {}

(* A thread runs its own code: the process lives, no handler is on top.    *)
Running(t) == ended = "no" /\ reopen[t] = "none"

LogAt(t, from, to) == Running(t) /\ pc[t] = from /\ pc' = [pc EXCEPT ![t] = to]
WriterAt(from, to) == Running(Writer) /\ writer = from /\ writer' = to

(* jobs_.Signal() wakes the writer if it waits.                            *)
SignalJobs == writer' = IF writer = "wait" THEN "drain" ELSE writer

-----------------------------------------------------------------------------
(* Log(), in any thread but the writer.                                     *)

StartLog ==
  /\ WriterAt("unborn", "drain")
  /\ stopped' = FALSE
  /\ UNCHANGED <<queues, str, fd, logging, ended, files, handlers, history>>

Count(t) == Cardinality({i \in DOMAIN order : order[i][1] = t})

(* Logv's WriteLog; an ERROR goes on to Flush(), a FATAL also to abort().  *)
WriteLog(t) ==
  /\ writer # "unborn" /\ Count(t) < MaxLogs
  /\ \E l \in {"info", "error", "fatal"} :
       /\ LogAt(t, "idle", IF l = "info" THEN "idle" ELSE "flush")
       /\ level' = [level EXCEPT ![t] = l]
  /\ buffer' = Append(buffer, <<t, Count(t) + 1>>)
  /\ order' = Append(order, <<t, Count(t) + 1>>)
  /\ SignalJobs
  /\ UNCHANGED <<stopped, bg, str, fd, ended, files, handlers, handled, astray, due, raced, unasked>>

(* Flush() up to done_.Wait().                                             *)
Flush(t) ==
  /\ LogAt(t, "flush", "wait")
  /\ buffer' = Append(buffer, Null)
  /\ order' = Append(order, Null)
  /\ SignalJobs
  /\ UNCHANGED <<stopped, bg, str, fd, level, ended, files, handlers, handled, astray, due, raced, unasked>>

(* pthread_cond_wait may return for no reason, and Flush() believes it.    *)
SpuriousFlush(t) ==
  /\ LogAt(t, "wait", "woken")
  /\ t \in Spurious
  /\ unasked' = unasked \cup {t}
  /\ UNCHANGED <<stopped, queues, writing, level, ended, files, handlers,
                 order, handled, astray, due, raced>>

(* done_.Wait() has returned.                                              *)
FlushReturns(t) ==
  /\ LogAt(t, "woken", IF level[t] = "fatal" THEN "abort" ELSE "idle")
  /\ UNCHANGED <<stopped, queues, writing, level, ended, files, handlers, history>>

Abort(t) ==
  /\ LogAt(t, "abort", "idle")
  /\ ended' = "aborted"
  /\ UNCHANGED <<stopped, queues, writing, level, files, handlers, history>>

-----------------------------------------------------------------------------
(* AsyncWriter().                                                           *)

(* Deviation: leaving the entry at the front.                              *)
PopKeeping ==
  /\ bg # <<>> /\ UNCHANGED bg
  /\ WriterAt("drain", IF Head(bg) = Null THEN "drain" ELSE "write")
  /\ str' = Head(bg) /\ fd' = g_log_fd
  /\ UNCHANGED <<stopped, buffer, logging, ended, files, handlers, history>>

(* The head of bg_queue_; for a line, write() reads g_log_fd now ...        *)
Pop ==
  /\ bg # <<>> /\ bg' = Tail(bg)
  /\ WriterAt("drain", IF Head(bg) = Null THEN "drain" ELSE "write")
  /\ str' = Head(bg) /\ fd' = g_log_fd
  /\ handled' = IF Head(bg) = Null THEN Append(handled, Null) ELSE handled
  /\ raced' = (raced \/ \E t \in Threads : reopen[t] = "assign")
  /\ UNCHANGED <<stopped, buffer, logging, ended, files, handlers, order, astray, due, unasked>>

(* ... and the system call uses it.                                        *)
Write ==
  /\ WriterAt("write", "drain")
  /\ handled' = Append(handled, str)
  /\ astray' = IF fds[fd] = "log" THEN astray ELSE astray \cup {str}
  /\ str' = Null
  /\ UNCHANGED <<stopped, queues, fd, logging, ended, files, handlers, order, due, raced, unasked>>

(* done_.Broadcast()                                                       *)
BroadcastDone == pc' = [t \in Loggers |-> IF pc[t] = "wait" THEN "woken" ELSE pc[t]]

(* Deviation: broadcasting before looking for work.                        *)
LookBroadcastingFirst ==
  /\ bg = <<>>
  /\ BroadcastDone
  /\ \/ /\ WriterAt("drain", "drain") /\ buffer # <<>>
        /\ bg' = buffer /\ buffer' = <<>>
     \/ /\ WriterAt("drain", IF stopped THEN "exited" ELSE "wait")
        /\ buffer = <<>> /\ UNCHANGED queues
  /\ UNCHANGED <<stopped, str, fd, level, ended, files, handlers, history>>

(* With bg_queue_ empty, under mu_: swap the queues if there is work; tell *)
(* the flushers there is none; stop, or wait for some.                     *)
LookForWork ==
  /\ bg = <<>>
  /\ \/ /\ WriterAt("drain", "drain") /\ buffer # <<>>
        /\ bg' = buffer /\ buffer' = <<>> /\ UNCHANGED pc
     \/ /\ WriterAt("drain", IF stopped THEN "exited" ELSE "wait")
        /\ buffer = <<>> /\ UNCHANGED queues
        /\ BroadcastDone
  /\ UNCHANGED <<stopped, str, fd, level, ended, files, handlers, history>>

(* The writer, whose wait is in a loop, just looks again.                  *)
SpuriousWakeup ==
  /\ WriterAt("wait", "drain")
  /\ UNCHANGED <<stopped, queues, str, fd, logging, ended, files, handlers, history>>

-----------------------------------------------------------------------------
(* exit(), which runs ~AsyncLogger(): main() returns, or a handler's       *)
(* constructor gives up while other threads go on logging.                 *)

CallExit(t) ==
  /\ LogAt(t, "idle", "signal")
  /\ \A u \in Loggers : pc[u] \notin {"signal", "join"}
  /\ ~stopped /\ stopped' = TRUE
  /\ due' = ToSet(order)
  /\ UNCHANGED <<queues, writing, level, ended, files, handlers, order, handled, astray, raced, unasked>>

(* Deviation: no jobs_.Signal().                                           *)
DestroyWithoutSignal(t) ==
  /\ LogAt(t, "signal", "join")
  /\ UNCHANGED <<stopped, queues, writing, level, ended, files, handlers, history>>

DestroySignals(t) ==
  /\ LogAt(t, "signal", "join")
  /\ SignalJobs
  /\ UNCHANGED <<stopped, queues, str, fd, level, ended, files, handlers, history>>

(* thread_.Join() returns; the queues go, and then the process.  What the  *)
(* other threads log from here on goes to freed memory, and is left out.   *)
DestroyJoins(t) ==
  /\ LogAt(t, "join", "idle")
  /\ writer = "exited"
  /\ ended' = "exited"
  /\ fds' = [fds EXCEPT ![g_log_fd] = "free"]
  /\ UNCHANGED <<stopped, queues, writing, level, g_log_fd, handlers, history>>

-----------------------------------------------------------------------------
(* SignalHandler(SIGUSR1): SetLogFile() and GetNewLog(true).                *)

Free == {d \in Descriptors : fds[d] = "free"}

ReopenAt(t, from, to) ==
  /\ ended = "no" /\ reopen[t] = from /\ reopen' = [reopen EXCEPT ![t] = to]

(* The signal arrives and open() succeeds, or there is no descriptor left  *)
(* and the log stays as it is.                                             *)
OpenNew(t) ==
  /\ t = Writer => writer \notin {"unborn", "exited"}
  /\ reopens < MaxReopens /\ reopens' = reopens + 1
  /\ IF Free = {} THEN ReopenAt(t, "none", "none") /\ UNCHANGED <<fds, newFd>>
     ELSE /\ ReopenAt(t, "none", "close")
          /\ fds' = [fds EXCEPT ![Lowest(Free)] = "log"]
          /\ newFd' = [newFd EXCEPT ![t] = Lowest(Free)]
  /\ overlap' = (overlap \/ \E u \in Threads : reopen[u] # "none")
  /\ UNCHANGED <<stopped, queues, writing, logging, ended, g_log_fd, history>>

(* Deviation: closing the descriptor just opened.                          *)
CloseOpened(t) ==
  /\ ReopenAt(t, "close", "assign")
  /\ fds' = [fds EXCEPT ![newFd[t]] = "free"]
  /\ raced' = (raced \/ writer = "write")
  /\ UNCHANGED <<stopped, queues, writing, logging, ended, g_log_fd,
                 newFd, reopens, overlap, order, handled, astray, due, unasked>>

CloseOld(t) ==
  /\ ReopenAt(t, "close", "assign")
  /\ fds' = [fds EXCEPT ![g_log_fd] = "free"]
  /\ raced' = (raced \/ writer = "write")
  /\ UNCHANGED <<stopped, queues, writing, logging, ended, g_log_fd,
                 newFd, reopens, overlap, order, handled, astray, due, unasked>>

AssignNew(t) ==
  /\ ReopenAt(t, "assign", "none")
  /\ g_log_fd' = newFd[t]
  /\ UNCHANGED <<stopped, queues, writing, logging, ended, fds,
                 newFd, reopens, overlap, history>>

(* The receiver accepts and closes clients meanwhile.                      *)
AcceptClient ==
  /\ ended = "no" /\ Free # {}
  /\ Cardinality({d \in Descriptors : fds[d] = "client"}) < MaxClients
  /\ fds' = [fds EXCEPT ![Lowest(Free)] = "client"]
  /\ UNCHANGED <<stopped, queues, writing, logging, ended, g_log_fd, handlers, history>>

CloseClient ==
  /\ ended = "no"
  /\ \E d \in Descriptors : fds[d] = "client" /\ fds' = [fds EXCEPT ![d] = "free"]
  /\ UNCHANGED <<stopped, queues, writing, logging, ended, g_log_fd, handlers, history>>

-----------------------------------------------------------------------------

Logger(t) == Flush(t) \/ FlushReturns(t) \/ Abort(t)
             \/ DestroySignals(t) \/ DestroyJoins(t)
AsyncWriter == Pop \/ Write \/ LookForWork
Reopen(t) == CloseOld(t) \/ AssignNew(t)

Ended == ended # "no" /\ UNCHANGED vars

Next ==
  \/ StartLog \/ AsyncWriter \/ SpuriousWakeup \/ AcceptClient \/ CloseClient \/ Ended
  \/ \E t \in Loggers : WriteLog(t) \/ Logger(t) \/ CallExit(t) \/ SpuriousFlush(t)
  \/ \E t \in Signalled : OpenNew(t) \/ Reopen(t)

Spec == Init /\ [][Next]_vars

(* Threads run; handlers return.  A spurious wake-up need never come.      *)
Fairness ==
  /\ WF_vars(StartLog) /\ WF_vars(AsyncWriter)
  /\ \A t \in Loggers : WF_vars(Logger(t))
  /\ \A t \in Signalled : WF_vars(Reopen(t))

FairSpec == Spec /\ Fairness

-----------------------------------------------------------------------------
(* Properties.                                                              *)

(* First in, first out, nothing lost and nothing twice between the two     *)
(* queues: the entries handled, the line being written and the entries     *)
(* queued are those that were pushed, in order.                            *)
LinesConserved ==
  order = handled \o (IF writer = "write" THEN <<str>> ELSE <<>>) \o bg \o buffer

HandledLines == ToSet(handled)
LinesOf(t) == {l \in ToSet(order) : l[1] = t}

(* Flush() returns only when the writer is done with every line the thread *)
(* has logged - so the message of a FATAL was written before abort() - and *)
(* ~AsyncLogger() only when it is done with every line any thread logged   *)
(* before exit() was called.  Flush()'s wait has no predicate: a spurious  *)
(* wake-up makes an exception.                                             *)
LinesWritten ==
  /\ \A t \in Loggers \ unasked :
       pc[t] \in {"woken", "abort"} => LinesOf(t) \subseteq HandledLines
  /\ ended = "exited" => due \subseteq HandledLines

(* Every line reaches the log file, unless a handler closed the descriptor *)
(* between the writer's reading g_log_fd and its system call, or the       *)
(* writer read g_log_fd between a handler's close() and its assignment.    *)
(* In those two windows a line may be lost or reach a client.  "reopen     *)
(* log": once the handlers have returned, g_log_fd is an open log file and *)
(* the only one, so no descriptor leaks and none of a client is closed,    *)
(* unless two handlers ran at once.                                        *)
LinesReachLog ==
  ~overlap =>
    /\ ~raced => astray = {}
    /\ ended = "no" /\ (\A t \in Threads : reopen[t] = "none")
         => {d \in Descriptors : fds[d] = "log"} = {g_log_fd}

(* A thread in Flush() comes out of it, unless the process is ending, and  *)
(* exit() ends: neither the wake-up of the writer nor the broadcast is     *)
(* lost.                                                                   *)
CallsEnd ==
  \A t \in Loggers : /\ pc[t] = "wait" ~> pc[t] # "wait" \/ stopped \/ ended # "no"
                     /\ pc[t] = "signal" ~> ended # "no"

=============================================================================
