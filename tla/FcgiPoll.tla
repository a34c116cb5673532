------------------------------ MODULE FcgiPoll ------------------------------
(***************************************************************************)
(* libFcgi/FcgiPoll.cpp: the epoll loop that turns sockets into requests,  *)
(* and the flags and wake-up pipe through which other threads stop it.     *)
(*                                                                         *)
(* One thread (Recv) polls.  Start() and Listen() run in Main; Stop() runs *)
(* in the SIGTERM handler, in any thread, on top of whatever that thread   *)
(* was doing - the polling thread included, which may then already hold    *)
(* m_wakingMutex.  The flags are atomics read and written one at a time,   *)
(* so every access that another thread can fall between is a step.         *)
(*                                                                         *)
(* A connection stands for its socket here; descriptors, their reuse, and  *)
(* clients that keep sending while a worker has the connection are the     *)
(* business of Connections.tla.                                            *)
(***************************************************************************)
EXTENDS Naturals, FiniteSets

CONSTANTS
  Conns,          (* the connections clients may open                       *)
  Main, Recv, Other,  (* main(), the polling thread, some other thread      *)
  Listener,       (* descriptor 0, the only listening socket                *)
  WakeSocket,     (* m_wakeSockets[1]                                       *)
  Nobody,         (* the owner of a free mutex, the socket of no request    *)
  MaxStops,       (* bound: calls of Stop()                                 *)
  MaxSends,       (* bound: what each client sends                          *)
  MaxInterrupts   (* bound: signals that interrupt epoll_wait               *)

Threads == {Main, Recv, Other}

ASSUME DistinctAssumption ==
  /\ Cardinality({Main, Recv, Other, Nobody}) = 4
  /\ Cardinality({Listener, WakeSocket, Nobody}) = 3
  /\ Conns \cap {Listener, WakeSocket, Nobody} = {}

VARIABLES
  m_stop, m_accept, m_refreshListeners,  (* the atomic flags                *)
  m_waking, m_block,
  m_listeners, m_sockets,
  mutex,         (* who holds m_wakingMutex                                 *)
  pipe,          (* bytes in the wake-up pipe                               *)
  polled,        (* the descriptors in the epoll set                        *)
  main,          (* where main() is in Listen() and Start()                 *)
  pc,            (* where the polling thread is; "out": not in PollRequest  *)
  ipcFd,         (* request->ipcFd of the request being filled              *)
  answer,        (* what PollRequest returned last                          *)
  stopping,      (* where each thread is in Stop()                          *)
  conn,          (* each connection: where it is                            *)
  inbox,         (* what waits to be read from it: nothing, a whole request *)
                 (* or bytes ReadRequest fails on                           *)
  stops, interrupts, sends, (* the bounded counters                         *)
  overlap        (* history: Start() cleared m_stop under a running Stop()  *)

flags   == <<m_stop, m_accept, m_refreshListeners>>
wakeup  == <<m_waking, m_block, mutex, pipe>>
epoll   == <<m_listeners, m_sockets, polled>>
clients == <<conn, inbox, sends>>
callers == <<main, stopping, stops, overlap>>
vars    == <<flags, wakeup, epoll, clients, callers, pc, ipcFd, answer, interrupts>>

Init ==
  /\ m_stop = TRUE /\ m_accept = FALSE /\ m_refreshListeners = FALSE
  /\ m_waking = FALSE /\ m_block = FALSE
  /\ m_listeners = {} /\ m_sockets = {}
  /\ mutex = Nobody /\ pipe = 0
  /\ polled = {WakeSocket}
  /\ main = "listen" /\ pc = "out" /\ ipcFd = Nobody /\ answer = "none"
  /\ stopping = [t \in Threads |-> "none"]
  /\ conn = [c \in Conns |-> "new"]
  /\ inbox = [c \in Conns |-> "empty"]
  /\ stops = 0 /\ interrupts = 0
  /\ sends = [c \in Conns |-> 0]
  /\ overlap = FALSE

Running(t) == stopping[t] = "none"

-----------------------------------------------------------------------------
(* Listen() and Start().                                                    *)

Listen ==
  /\ Running(Main) /\ main = "listen" /\ main' = "clearStop"
  /\ m_listeners' = m_listeners \cup {Listener}
  /\ m_refreshListeners' = TRUE
  /\ UNCHANGED <<m_stop, m_accept, wakeup, m_sockets, polled, clients, stopping,
                 stops, overlap, pc, ipcFd, answer, interrupts>>

StartClearStop ==
  /\ Running(Main) /\ main = "clearStop" /\ main' = "accept"
  /\ m_stop' = FALSE
  /\ overlap' = (\E t \in Threads : ~Running(t))
  /\ UNCHANGED <<m_accept, m_refreshListeners, wakeup, epoll, clients, stopping,
                 stops, pc, ipcFd, answer, interrupts>>

StartAccept ==
  /\ Running(Main) /\ main = "accept" /\ main' = "up"
  /\ m_accept' = TRUE
  /\ UNCHANGED <<m_stop, m_refreshListeners, wakeup, epoll, clients, stopping,
                 stops, overlap, pc, ipcFd, answer, interrupts>>

-----------------------------------------------------------------------------
(* Stop() and Wake().                                                       *)

StopAt(t, from, to) == stopping[t] = from /\ stopping' = [stopping EXCEPT ![t] = to]

(* The signal arrives.  If it hit the polling thread inside epoll_wait,    *)
(* that call returns EINTR after the handler and the inner loop goes on.   *)
CallStop(t) ==
  /\ Running(t) /\ stops < MaxStops
  /\ t = Recv => main = "up"
  /\ stopping' = [stopping EXCEPT ![t] = "setStop"]
  /\ stops' = stops + 1
  /\ \/ UNCHANGED pc
     \/ t = Recv /\ pc = "wait" /\ pc' = "inner"
  /\ UNCHANGED <<flags, wakeup, epoll, clients, main, overlap, ipcFd, answer, interrupts>>

StopSet(t) ==
  /\ StopAt(t, "setStop", "testAccept")
  /\ m_stop' = TRUE
  /\ UNCHANGED <<m_accept, m_refreshListeners, wakeup, epoll, clients, main, stops,
                 overlap, pc, ipcFd, answer, interrupts>>

(* Deviation: waking whether or not m_accept is set.                       *)
StopAlwaysWakes(t) ==
  /\ StopAt(t, "testAccept", "clearAccept")
  /\ UNCHANGED <<flags, wakeup, epoll, clients, main, stops, overlap, pc, ipcFd, answer, interrupts>>

StopTestAccept(t) ==
  /\ \/ StopAt(t, "testAccept", "clearAccept") /\ m_accept
     \/ StopAt(t, "testAccept", "none") /\ ~m_accept
  /\ UNCHANGED <<flags, wakeup, epoll, clients, main, stops, overlap, pc, ipcFd, answer, interrupts>>

StopClearAccept(t) ==
  /\ StopAt(t, "clearAccept", "refresh")
  /\ m_accept' = FALSE
  /\ UNCHANGED <<m_stop, m_refreshListeners, wakeup, epoll, clients, main, stops,
                 overlap, pc, ipcFd, answer, interrupts>>

StopRefresh(t) ==
  /\ StopAt(t, "refresh", "lock")
  /\ m_refreshListeners' = TRUE
  /\ UNCHANGED <<m_stop, m_accept, wakeup, epoll, clients, main, stops,
                 overlap, pc, ipcFd, answer, interrupts>>

(* A std::mutex its own thread holds is never acquired.                    *)
WakeLock(t) ==
  /\ StopAt(t, "lock", "wake")
  /\ mutex = Nobody /\ mutex' = t
  /\ UNCHANGED <<flags, m_waking, m_block, pipe, epoll, clients, main, stops,
                 overlap, pc, ipcFd, answer, interrupts>>

WakeWrite(t) ==
  /\ StopAt(t, "wake", "none")
  /\ m_waking' = TRUE
  /\ pipe' = IF m_waking THEN pipe ELSE pipe + 1
  /\ mutex' = Nobody
  /\ UNCHANGED <<flags, m_block, epoll, clients, main, stops, overlap, pc, ipcFd, answer, interrupts>>

Stop(t) == StopSet(t) \/ StopTestAccept(t) \/ StopClearAccept(t) \/ StopRefresh(t)
           \/ WakeLock(t) \/ WakeWrite(t)

-----------------------------------------------------------------------------
(* PollRequest(), in the polling thread.                                    *)

PollAt(from, to) == Running(Recv) /\ pc = from /\ pc' = to

(* Manager::Receiver tests IsStop() and calls GetRequest; the request      *)
(* starts without a socket.                                                *)
Call ==
  /\ main = "up"
  /\ PollAt("out", "outer") /\ ~m_stop
  /\ ipcFd' = Nobody /\ answer' = "none"
  /\ UNCHANGED <<flags, wakeup, epoll, clients, callers, interrupts>>

(* while (!m_stop)                                                          *)
OuterLoop ==
  /\ \/ PollAt("outer", "inner") /\ ~m_stop
     \/ PollAt("outer", "return") /\ m_stop
  /\ UNCHANGED <<flags, wakeup, epoll, clients, callers, ipcFd, answer, interrupts>>

(* while (m_listeners.size() + m_sockets.size() > 0)                        *)
(*     if (m_refreshListeners)                                              *)
InnerLoop ==
  /\ \/ PollAt("inner", "read")    /\ m_listeners \cup m_sockets = {}
     \/ PollAt("inner", "refresh") /\ m_listeners \cup m_sockets # {} /\ m_refreshListeners
     \/ PollAt("inner", "wait")    /\ m_listeners \cup m_sockets # {} /\ ~m_refreshListeners
  /\ UNCHANGED <<flags, wakeup, epoll, clients, callers, ipcFd, answer, interrupts>>

(* The listeners leave the epoll set and, while accepting, come back.       *)
RefreshListeners ==
  /\ PollAt("refresh", "refreshed")
  /\ polled' = (polled \ m_listeners) \cup (IF m_accept THEN m_listeners ELSE {})
  /\ UNCHANGED <<flags, wakeup, m_listeners, m_sockets, clients, callers, ipcFd, answer, interrupts>>

ClearRefresh ==
  /\ PollAt("refreshed", "wait")
  /\ m_refreshListeners' = FALSE
  /\ UNCHANGED <<m_stop, m_accept, wakeup, epoll, clients, callers, ipcFd, answer, interrupts>>

(* What epoll_wait may report: level-triggered, one event per call.        *)
Backlog == {c \in Conns : conn[c] = "backlog"}
Ready ==
       (IF Backlog # {} THEN polled \cap {Listener} ELSE {})
  \cup (IF pipe > 0 THEN polled \cap {WakeSocket} ELSE {})
  \cup {c \in Conns \cap polled : inbox[c] # "empty"}

(* No event: only a call that does not block returns; the inner loop ends. *)
PollNothing ==
  /\ PollAt("wait", "read")
  /\ Ready = {} /\ ~m_block
  /\ UNCHANGED <<flags, wakeup, epoll, clients, callers, ipcFd, answer, interrupts>>

(* A signal that is not SIGTERM: EINTR, and the inner loop goes on.        *)
PollInterrupted ==
  /\ PollAt("wait", "inner")
  /\ interrupts < MaxInterrupts
  /\ interrupts' = interrupts + 1
  /\ UNCHANGED <<flags, wakeup, epoll, clients, callers, ipcFd, answer>>

PollListener ==
  /\ PollAt("wait", "accepted")
  /\ Listener \in Ready
  /\ UNCHANGED <<flags, wakeup, epoll, clients, callers, ipcFd, answer, interrupts>>

(* CreateSocket: the connection is accepted; it is polled if m_accept      *)
(* still holds and closed otherwise.                                       *)
CreateSocket ==
  /\ PollAt("accepted", "inner")
  /\ \E c \in Backlog :
       IF m_accept
       THEN /\ m_sockets' = m_sockets \cup {c}
            /\ polled' = polled \cup {c}
            /\ conn' = [conn EXCEPT ![c] = "open"]
            /\ UNCHANGED inbox
       ELSE /\ conn' = [conn EXCEPT ![c] = "closed"]
            /\ inbox' = [inbox EXCEPT ![c] = "empty"]
            /\ UNCHANGED <<m_sockets, polled>>
  /\ UNCHANGED <<flags, wakeup, m_listeners, callers, ipcFd, sends, answer, interrupts>>

PollWake ==
  /\ PollAt("wait", "drain")
  /\ WakeSocket \in Ready
  /\ mutex = Nobody /\ mutex' = Recv
  /\ UNCHANGED <<flags, m_waking, m_block, pipe, epoll, clients, callers, ipcFd, answer, interrupts>>

(* Deviation: leaving m_block as it was.                                   *)
DrainKeepingBlock ==
  /\ PollAt("drain", "inner")
  /\ pipe' = 0
  /\ m_waking' = FALSE
  /\ mutex' = Nobody
  /\ UNCHANGED <<flags, m_block, epoll, clients, callers, ipcFd, answer, interrupts>>

DrainWake ==
  /\ PollAt("drain", "inner")
  /\ pipe' = 0
  /\ m_waking' = FALSE /\ m_block' = FALSE
  /\ mutex' = Nobody
  /\ UNCHANGED <<flags, epoll, clients, callers, ipcFd, answer, interrupts>>

PollConn(c) ==
  /\ PollAt("wait", IF c \in m_sockets THEN "read" ELSE "inner")
  /\ c \in Ready
  /\ IF c \in m_sockets
     THEN ipcFd' = c /\ UNCHANGED <<polled, clients>>
     ELSE /\ polled' = polled \ {c}
          /\ conn' = [conn EXCEPT ![c] = "closed"]
          /\ inbox' = [inbox EXCEPT ![c] = "empty"]
          /\ UNCHANGED <<ipcFd, sends>>
  /\ UNCHANGED <<flags, wakeup, m_listeners, m_sockets, callers, answer, interrupts>>

(* After the inner loop.  A whole request ends the outer loop; anything    *)
(* else is removed and closed, and m_block is set for the next round.      *)
ReadSucceeds ==
  /\ PollAt("read", "return")
  /\ ipcFd # Nobody /\ inbox[ipcFd] = "request"
  /\ conn' = [conn EXCEPT ![ipcFd] = "busy"]
  /\ inbox' = [inbox EXCEPT ![ipcFd] = "empty"]
  /\ UNCHANGED <<flags, wakeup, epoll, sends, callers, ipcFd, answer, interrupts>>

ReadFails ==
  /\ PollAt("read", "outer")
  /\ ipcFd # Nobody /\ inbox[ipcFd] # "request"
  /\ polled' = polled \ {ipcFd}
  /\ conn' = [conn EXCEPT ![ipcFd] = "closed"]
  /\ inbox' = [inbox EXCEPT ![ipcFd] = "empty"]
  /\ ipcFd' = Nobody
  /\ m_block' = TRUE
  /\ UNCHANGED <<flags, m_waking, mutex, pipe, m_listeners, m_sockets, sends, callers, answer, interrupts>>

NothingToRead ==
  /\ PollAt("read", "outer")
  /\ ipcFd = Nobody
  /\ m_block' = TRUE
  /\ UNCHANGED <<flags, m_waking, mutex, pipe, epoll, clients, callers, ipcFd, answer, interrupts>>

(* Deviation: returning whatever was read, stopped or not.                 *)
ReturnUnchecked ==
  /\ PollAt("return", "out")
  /\ answer' = IF ipcFd = Nobody THEN "empty" ELSE "request"
  /\ ipcFd' = Nobody
  /\ UNCHANGED <<flags, wakeup, epoll, clients, callers, interrupts>>

(* if (m_stop) return nullptr: a request already read is dropped, and its  *)
(* connection stays as it is.                                              *)
Return ==
  /\ PollAt("return", "out")
  /\ answer' = CASE m_stop -> "null"
                 [] ~m_stop /\ ipcFd = Nobody -> "empty"
                 [] OTHER -> "request"
  /\ conn' = IF m_stop /\ ipcFd # Nobody THEN [conn EXCEPT ![ipcFd] = "dropped"] ELSE conn
  /\ ipcFd' = Nobody
  /\ UNCHANGED <<flags, wakeup, epoll, inbox, sends, callers, interrupts>>

Poll == Call \/ OuterLoop \/ InnerLoop \/ RefreshListeners \/ ClearRefresh \/ PollNothing
        \/ PollListener \/ CreateSocket \/ PollWake \/ DrainWake
        \/ (\E c \in Conns : PollConn(c))
        \/ ReadSucceeds \/ ReadFails \/ NothingToRead \/ Return

-----------------------------------------------------------------------------
(* FinishRequest() in a worker, and the clients.                            *)

FinishRequest(c) ==
  /\ conn[c] = "busy" /\ ipcFd # c
  /\ \/ conn' = [conn EXCEPT ![c] = "open"] /\ UNCHANGED polled
     \/ conn' = [conn EXCEPT ![c] = "closed"] /\ polled' = polled \ {c}
  /\ UNCHANGED <<flags, wakeup, m_listeners, m_sockets, inbox, sends, callers,
                 pc, ipcFd, answer, interrupts>>

ClientConnect(c) ==
  /\ conn[c] = "new"
  /\ conn' = [conn EXCEPT ![c] = "backlog"]
  /\ UNCHANGED <<flags, wakeup, epoll, inbox, sends, callers, pc, ipcFd, answer, interrupts>>

(* A client sends a request when none is under way.                        *)
ClientSend(c) ==
  /\ conn[c] \in {"backlog", "open"} /\ inbox[c] = "empty" /\ ipcFd # c
  /\ sends[c] < MaxSends
  /\ sends' = [sends EXCEPT ![c] = @ + 1]
  /\ \E m \in {"request", "bad"} : inbox' = [inbox EXCEPT ![c] = m]
  /\ UNCHANGED <<flags, wakeup, epoll, conn, callers, pc, ipcFd, answer, interrupts>>

-----------------------------------------------------------------------------

StartUp == Listen \/ StartClearStop \/ StartAccept

Next ==
  \/ StartUp \/ Poll \/ PollInterrupted
  \/ \E t \in Threads : CallStop(t) \/ Stop(t)
  \/ \E c \in Conns : FinishRequest(c) \/ ClientConnect(c) \/ ClientSend(c)

Spec == Init /\ [][Next]_vars

(* main(), the polling thread and a running handler are scheduled.         *)
Fairness == WF_vars(StartUp) /\ WF_vars(Poll) /\ \A t \in Threads : WF_vars(Stop(t))

FairSpec == Spec /\ Fairness

-----------------------------------------------------------------------------
(* Properties.                                                              *)

(* No lost wake-up: once m_stop is set and no Stop() is still under way,   *)
(* the polling thread never sleeps in epoll_wait without a byte in the     *)
(* pipe to wake it (unless Start() cleared m_stop in the middle of an      *)
(* earlier Stop(), which then takes m_accept away from the next one).      *)
NoLostWakeup ==
  ~overlap /\ m_stop /\ pc = "wait" /\ m_block /\ (\A t \in Threads : Running(t))
    => pipe > 0

(* Stop() returns in whatever thread it runs: the polling thread never     *)
(* runs Wake() on top of the critical section in which it holds            *)
(* m_wakingMutex, even when several SIGTERMs arrive.                       *)
StopReturns == \A t \in Threads : stopping[t] # "none" ~> stopping[t] = "none"

Source == INSTANCE RequestSource WITH stop <- m_stop, polling <- pc # "out"

(* The safety half of what RequestSource promises: a call answers with a   *)
(* request only if the source is not stopped, then always with one that    *)
(* was read from a socket, and with null only if it is stopped.            *)
ImplementsSource == Source!Spec

(* Its liveness half: stopping the source ends the call, unless Start()    *)
(* overtook a Stop() as above.                                             *)
StopEndsCall == []~overlap => Source!StopEndsCall

=============================================================================
