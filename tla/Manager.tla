------------------------------ MODULE Manager ------------------------------
(***************************************************************************)
(* Server/Manager.cpp: the receiver thread, the worker threads, the list   *)
(* of requests between them, its mutex and its counting semaphore, and the *)
(* SIGTERM handler that stops them, from Start() to the destructor.        *)
(*                                                                         *)
(* FcgiPoll<Request> appears only as the RequestSource it implements; what *)
(* a worker does with a request (RequestHandler::Handle) only as the time  *)
(* between taking it and finishing it.                                     *)
(*                                                                         *)
(* A signal handler runs in whatever thread the kernel picks, and that     *)
(* thread does nothing else until the handler returns.  The accesses made  *)
(* under m_requestMutex form one action: nothing else reads the list, and  *)
(* neither critical section blocks or is entered by the handler.           *)
(***************************************************************************)
EXTENDS Integers, Sequences, FiniteSets

CONSTANTS
  Workers,      (* the threads of m_workThreads                             *)
  Main,         (* the thread that runs main()                              *)
  Recv,         (* m_recvThread                                             *)
  Other,        (* a thread Manager does not own: the log writer            *)
  MaxRequests,  (* bound: how many requests the source delivers             *)
  MaxTerms      (* bound: how many SIGTERMs are delivered                   *)

ASSUME ThreadsAssumption ==
  /\ IsFiniteSet(Workers)
  /\ Workers # {}
  /\ Cardinality({Main, Recv, Other}) = 3
  /\ Workers \cap {Main, Recv, Other} = {}

ASSUME BoundsAssumption == MaxRequests \in Nat /\ MaxTerms \in Nat

Threads == Workers \cup {Main, Recv, Other}

(* The Request built from the null pointer PollRequest returns when it was *)
(* stopped: GetRequest wraps it like any other, with its fields unset.     *)
Phantom   == 0
NoRequest == -1
Requests  == 1 .. MaxRequests

VARIABLES
  stop,       (* Manager::m_stop                                            *)
  fcgiStop,   (* FcgiPollBase::m_stop                                       *)
  queue,      (* m_requestList                                              *)
  sem,        (* the value of m_semaphore                                   *)
  main,       (* where main() is                                            *)
  recv,       (* where Receiver() is                                        *)
  fetched,    (* Receiver()'s local `request`                               *)
  work,       (* where each Handler() is                                    *)
  held,       (* each Handler()'s local `request`                           *)
  term,       (* where the SIGTERM handler is, in the thread that runs it   *)
  posts,      (* iterations left of the handler's Semaphore::post loop      *)
  terms,      (* SIGTERMs delivered so far                                  *)
  early,      (* history: a SIGTERM came before Start() cleared the flags   *)
  polled,     (* history: requests delivered so far; the last one's name    *)
  finished    (* history: the requests FinishRequest was called for         *)

vars == <<stop, fcgiStop, queue, sem, main, recv, fetched, work, held,
          term, posts, terms, early, polled, finished>>

shared   == <<stop, fcgiStop, queue, sem>>
signals  == <<term, posts, terms, early>>
history  == <<polled, finished>>

Source == INSTANCE RequestSource WITH
  stop    <- fcgiStop,
  polling <- recv = "get",
  answer  <- CASE fetched = NoRequest -> "none" [] fetched = Phantom -> "null"
               [] OTHER -> "request"

(* A thread runs its own code while no handler runs on top of it.          *)
Running(t) == term[t] = "none"

-----------------------------------------------------------------------------
(* main(): Start(), Join() and the destructor.                              *)

MainSteps == {"clearStop", "startFcgi", "spawnRecv", "spawnWorkers",
              "joinWorkers", "joinRecv", "destroy", "exited"}

Init ==
  /\ stop = TRUE /\ fcgiStop = TRUE
  /\ queue = <<>> /\ sem = 0
  /\ main = "clearStop"
  /\ recv = "unborn" /\ fetched = NoRequest
  /\ work = [w \in Workers |-> "unborn"]
  /\ held = [w \in Workers |-> NoRequest]
  /\ term = [t \in Threads |-> "none"]
  /\ posts = [t \in Threads |-> 0]
  /\ terms = 0 /\ early = FALSE
  /\ polled = 0 /\ finished = {}

MainAt(from, to) == Running(Main) /\ main = from /\ main' = to

StartClearStop ==
  /\ MainAt("clearStop", "startFcgi")
  /\ stop' = FALSE
  /\ UNCHANGED <<fcgiStop, queue, sem, recv, fetched, work, held, signals, history>>

StartFcgi ==
  /\ MainAt("startFcgi", "spawnRecv")
  /\ fcgiStop' = FALSE
  /\ UNCHANGED <<stop, queue, sem, recv, fetched, work, held, signals, history>>

SpawnReceiver ==
  /\ MainAt("spawnRecv", "spawnWorkers")
  /\ recv' = "check"
  /\ UNCHANGED <<shared, fetched, work, held, signals, history>>

(* One iteration of Start()'s loop over m_workThreads; the last one goes   *)
(* on to Join().                                                           *)
SpawnWorker(w) ==
  /\ Running(Main) /\ main = "spawnWorkers" /\ work[w] = "unborn"
  /\ work' = [work EXCEPT ![w] = "check"]
  /\ main' = IF \E v \in Workers \ {w} : work[v] = "unborn"
             THEN "spawnWorkers" ELSE "joinWorkers"
  /\ UNCHANGED <<shared, recv, fetched, held, signals, history>>

JoinWorkers ==
  /\ MainAt("joinWorkers", "joinRecv")
  /\ \A w \in Workers : work[w] = "exited"
  /\ UNCHANGED <<shared, recv, fetched, work, held, signals, history>>

JoinReceiver ==
  /\ MainAt("joinRecv", "destroy")
  /\ recv = "exited"
  /\ UNCHANGED <<shared, recv, fetched, work, held, signals, history>>

(* ~Manager destroys m_requestList: each element's Deleter finishes it.    *)
DestroyQueued ==
  /\ Running(Main) /\ main = "destroy" /\ queue # <<>>
  /\ finished' = finished \cup {Head(queue)}
  /\ queue' = Tail(queue)
  /\ UNCHANGED <<stop, fcgiStop, sem, main, recv, fetched, work, held, signals, polled>>

Destroyed ==
  /\ MainAt("destroy", "exited")
  /\ queue = <<>>
  /\ UNCHANGED <<shared, recv, fetched, work, held, signals, history>>

-----------------------------------------------------------------------------
(* Receiver().                                                              *)

RecvAt(from, to) == Running(Recv) /\ recv = from /\ recv' = to

(* while (!m_fcgi->IsStop()) GetRequest()                                   *)
ReceiverCheck ==
  /\ \/ RecvAt("check", "get") /\ ~fcgiStop
     \/ RecvAt("check", "exited") /\ fcgiStop
  /\ UNCHANGED <<shared, main, fetched, work, held, signals, history>>

GetRequest ==
  /\ RecvAt("get", "push")
  /\ polled < MaxRequests
  /\ polled' = polled + 1
  /\ fetched' = polled + 1
  /\ UNCHANGED <<shared, main, work, held, signals, finished>>
  /\ Source!ReturnRequest

(* The null pointer is wrapped too: the caller's test of `request` passes. *)
GetPhantom ==
  /\ RecvAt("get", "push")
  /\ fetched' = Phantom
  /\ UNCHANGED <<shared, main, work, held, signals, history>>
  /\ Source!ReturnNull

(* Deviations: posting only when the list was empty; queueing at the front. *)
PushPostingOnce ==
  /\ RecvAt("push", "check")
  /\ queue' = Append(queue, fetched)
  /\ sem' = IF queue = <<>> THEN sem + 1 ELSE sem
  /\ fetched' = NoRequest
  /\ UNCHANGED <<stop, fcgiStop, main, work, held, signals, history>>

PushFront ==
  /\ RecvAt("push", "check")
  /\ queue' = <<fetched>> \o queue
  /\ sem' = sem + 1
  /\ fetched' = NoRequest
  /\ UNCHANGED <<stop, fcgiStop, main, work, held, signals, history>>

PushRequest ==
  /\ RecvAt("push", "check")
  /\ queue' = Append(queue, fetched)
  /\ sem' = sem + 1
  /\ fetched' = NoRequest
  /\ UNCHANGED <<stop, fcgiStop, main, work, held, signals, history>>

-----------------------------------------------------------------------------
(* Handler(), in each worker thread.                                        *)

WorkerAt(w, from, to) ==
  /\ Running(w) /\ work[w] = from
  /\ work' = [work EXCEPT ![w] = to]

(* while (!m_stop)                                                          *)
WorkerCheck(w) ==
  /\ \/ WorkerAt(w, "check", "wait") /\ ~stop
     \/ WorkerAt(w, "check", "exited") /\ stop
  /\ UNCHANGED <<shared, main, recv, fetched, held, signals, history>>

(* Deviation: a wait that does not block on zero.                          *)
WaitWithoutBlocking(w) ==
  /\ WorkerAt(w, "wait", "pop")
  /\ sem' = sem - 1
  /\ UNCHANGED <<stop, fcgiStop, queue, main, recv, fetched, held, signals, history>>

WaitSemaphore(w) ==
  /\ WorkerAt(w, "wait", "pop")
  /\ sem > 0
  /\ sem' = sem - 1
  /\ UNCHANGED <<stop, fcgiStop, queue, main, recv, fetched, held, signals, history>>

(* SIGUSR1, or any other handled signal, ends sem_wait with EINTR; the     *)
(* worker ignores what m_semaphore.wait() returns.                         *)
InterruptWait(w) ==
  /\ WorkerAt(w, "wait", "pop")
  /\ UNCHANGED <<shared, main, recv, fetched, held, signals, history>>

(* Deviations: not re-reading m_stop under the lock; front() without       *)
(* pop_front().                                                            *)
PopWithoutStopCheck(w) ==
  /\ \/ /\ WorkerAt(w, "pop", "handle")
        /\ queue # <<>>
        /\ held' = [held EXCEPT ![w] = Head(queue)]
        /\ queue' = Tail(queue)
     \/ /\ WorkerAt(w, "pop", "check")
        /\ queue = <<>>
        /\ UNCHANGED <<held, queue>>
  /\ UNCHANGED <<stop, fcgiStop, sem, main, recv, fetched, signals, history>>

PopKeepingFront(w) ==
  /\ \/ /\ WorkerAt(w, "pop", "handle")
        /\ ~stop /\ queue # <<>>
        /\ held' = [held EXCEPT ![w] = Head(queue)]
     \/ /\ WorkerAt(w, "pop", "check")
        /\ stop \/ queue = <<>>
        /\ UNCHANGED held
  /\ UNCHANGED <<shared, main, recv, fetched, signals, history>>

PopRequest(w) ==
  /\ \/ /\ WorkerAt(w, "pop", "handle")
        /\ ~stop /\ queue # <<>>
        /\ held' = [held EXCEPT ![w] = Head(queue)]
        /\ queue' = Tail(queue)
     \/ /\ WorkerAt(w, "pop", "check")
        /\ stop \/ queue = <<>>
        /\ UNCHANGED <<held, queue>>
  /\ UNCHANGED <<stop, fcgiStop, sem, main, recv, fetched, signals, history>>

(* Handle() returns and the last reference to the request goes away: its   *)
(* Deleter calls FinishRequest.                                            *)
FinishRequest(w) ==
  /\ WorkerAt(w, "handle", "check")
  /\ finished' = finished \cup {held[w]}
  /\ held' = [held EXCEPT ![w] = NoRequest]
  /\ UNCHANGED <<shared, main, recv, fetched, signals, polled>>

-----------------------------------------------------------------------------
(* SignalHandler(SIGTERM) and Stop().  main() installs the handler before  *)
(* Start(), so that it can run from the first step on.  No SIGTERM is      *)
(* delivered once the destructor has begun.                                *)

Alive(t) ==
  CASE t = Main    -> main \notin {"destroy", "exited"}
    [] t = Recv    -> recv \notin {"unborn", "exited"}
    [] t = Other   -> main \notin {"destroy", "exited"}
    [] OTHER       -> work[t] \notin {"unborn", "exited"}

(* Start() has not yet cleared both stop flags.                            *)
Starting == main \in {"clearStop", "startFcgi"}

(* The kernel delivers SIGTERM to thread t.  A worker blocked in sem_wait  *)
(* leaves it with EINTR once the handler has returned.                     *)
DeliverTerm(t) ==
  /\ Running(t) /\ Alive(t) /\ terms < MaxTerms
  /\ term' = [term EXCEPT ![t] = "setStop"]
  /\ terms' = terms + 1
  /\ early' = (early \/ Starting)
  /\ \/ UNCHANGED work
     \/ /\ t \in Workers /\ work[t] = "wait"
        /\ work' = [work EXCEPT ![t] = "pop"]
  /\ UNCHANGED <<shared, main, recv, fetched, held, posts, history>>

TermAt(t, from, to) == term[t] = from /\ term' = [term EXCEPT ![t] = to]

StopManager(t) ==
  /\ TermAt(t, "setStop", "stopFcgi")
  /\ stop' = TRUE
  /\ UNCHANGED <<fcgiStop, queue, sem, main, recv, fetched, work, held,
                 posts, terms, early, history>>

(* Deviation: m_semaphore.post() for one worker only.                      *)
StopFcgiPostingOnce(t) ==
  /\ TermAt(t, "stopFcgi", "post")
  /\ fcgiStop' = TRUE
  /\ posts' = [posts EXCEPT ![t] = 1]
  /\ UNCHANGED <<stop, queue, sem, main, recv, fetched, work, held,
                 terms, early, history>>

StopFcgi(t) ==
  /\ TermAt(t, "stopFcgi", "post")
  /\ fcgiStop' = TRUE
  /\ posts' = [posts EXCEPT ![t] = Cardinality(Workers)]
  /\ UNCHANGED <<stop, queue, sem, main, recv, fetched, work, held,
                 terms, early, history>>

(* One iteration of m_semaphore.post(m_workThreads.size())'s loop.         *)
PostSemaphore(t) ==
  /\ term[t] = "post" /\ posts[t] > 0
  /\ sem' = sem + 1
  /\ posts' = [posts EXCEPT ![t] = @ - 1]
  /\ UNCHANGED <<stop, fcgiStop, queue, main, recv, fetched, work, held,
                 term, terms, early, history>>

EndHandler(t) ==
  /\ TermAt(t, "post", "none") /\ posts[t] = 0
  /\ UNCHANGED <<shared, main, recv, fetched, work, held, posts, terms, early, history>>

-----------------------------------------------------------------------------

Boot     == StartClearStop \/ StartFcgi \/ SpawnReceiver \/ \E w \in Workers : SpawnWorker(w)
Shutdown == JoinWorkers \/ JoinReceiver \/ DestroyQueued \/ Destroyed
Receiver == ReceiverCheck \/ GetRequest \/ GetPhantom \/ PushRequest
Handler(w) == WorkerCheck(w) \/ WaitSemaphore(w) \/ PopRequest(w) \/ FinishRequest(w)
SignalHandler(t) == StopManager(t) \/ StopFcgi(t) \/ PostSemaphore(t) \/ EndHandler(t)

(* After the process has ended nothing moves.                              *)
Exited == main = "exited" /\ UNCHANGED vars

Next ==
  \/ Boot \/ Shutdown \/ Receiver
  \/ \E w \in Workers : Handler(w) \/ InterruptWait(w)
  \/ \E t \in Threads : DeliverTerm(t) \/ SignalHandler(t)
  \/ Exited

Spec == Init /\ [][Next]_vars

(* Every thread that can run runs; a null request is delivered once the    *)
(* source was stopped (RequestSource's promise); no new request and no     *)
(* signal need ever come.                                                  *)
Fairness ==
  /\ WF_vars(Boot) /\ WF_vars(Shutdown)
  /\ WF_vars(ReceiverCheck \/ GetPhantom \/ PushRequest)
  /\ \A w \in Workers : WF_vars(Handler(w))
  /\ \A t \in Threads : WF_vars(SignalHandler(t))

FairSpec == Spec /\ Fairness

-----------------------------------------------------------------------------
(* Properties.                                                              *)

RequestSeqs == Seq(Requests \cup {Phantom})

TypeOK ==
  /\ stop \in BOOLEAN /\ fcgiStop \in BOOLEAN /\ early \in BOOLEAN
  /\ queue \in RequestSeqs
  /\ sem \in Nat /\ terms \in Nat /\ polled \in 0 .. MaxRequests
  /\ main \in MainSteps
  /\ recv \in {"unborn", "check", "get", "push", "exited"}
  /\ work \in [Workers -> {"unborn", "check", "wait", "pop", "handle", "exited"}]
  /\ fetched \in Requests \cup {Phantom, NoRequest}
  /\ held \in [Workers -> Requests \cup {Phantom, NoRequest}]
  /\ term \in [Threads -> {"none", "setStop", "stopFcgi", "post"}]
  /\ posts \in [Threads -> Nat]
  /\ finished \subseteq Requests \cup {Phantom}

AtPop == {w \in Workers : work[w] = "pop"}

(* While the server runs, every queued request has a wake-up of its own:   *)
(* a semaphore token nobody took, or a worker that is past sem_wait and    *)
(* about to look at the list.  Interrupted waits and the handler's posts   *)
(* may leave tokens without requests, never requests without tokens.       *)
NoStrandedRequest == ~stop => Len(queue) <= sem + Cardinality(AtPop)

(* No worker is ever handed the request built from a null pointer, and the *)
(* destructor is the only one to finish it, unless a SIGTERM came while    *)
(* Start() was clearing the stop flags.                                    *)
PhantomNeverHandled ==
  ~early => /\ \A w \in Workers : held[w] # Phantom
            /\ Phantom \in finished => main \in {"destroy", "exited"}

Places(r) ==
    {<<"queue", i>> : i \in {j \in DOMAIN queue : queue[j] = r}}
  \cup {<<"held", w>> : w \in {v \in Workers : held[v] = r}}
  \cup (IF fetched = r THEN {<<"fetched", Recv>>} ELSE {})
  \cup (IF r \in finished THEN {<<"finished", Main>>} ELSE {})

(* A request the source delivered is in exactly one place: in Receiver()'s *)
(* hands, in the list, with one worker, or finished; so it is neither lost *)
(* nor handled by two workers nor finished twice.                          *)
RequestConserved ==
  \A r \in Requests : Cardinality(Places(r)) = IF r <= polled THEN 1 ELSE 0

(* Workers take requests in the order the source delivered them.           *)
TakenInOrder ==
  [][\A w \in Workers : \A r \in finished \cup {held[v] : v \in Workers} :
       held[w] = NoRequest /\ held'[w] \in Requests => r < held'[w]]_vars

(* A SIGTERM that comes once Start() has cleared the flags ends the        *)
(* process: every worker and the receiver exit and main() returns.         *)
TermEndsProcess == (terms > 0 /\ ~early) ~> main = "exited"

(* Every request the source delivers is finished in the end, by a worker   *)
(* or by the destructor.                                                   *)
DeliveredIsFinished == \A r \in Requests : (polled >= r /\ ~early) ~> (r \in finished \/ early)

=============================================================================
