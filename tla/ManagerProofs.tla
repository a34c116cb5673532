--------------------------- MODULE ManagerProofs ---------------------------
(***************************************************************************)
(* Proofs about Manager for any set of workers and any bounds.             *)
(*                                                                         *)
(* Both invariants rest on what the boot order gives (BootOrder) and, for  *)
(* PhantomNeverHandled, on Stop() setting Manager's flag before the        *)
(* source's (StopOrder): a null request can only be fetched after that, so *)
(* by the time it is in the list the workers' re-check of m_stop under the *)
(* lock fails.                                                             *)
(***************************************************************************)
EXTENDS Manager, FiniteSetTheorems, TLAPS

(* What the steps of main() fix about the threads it creates.              *)
BootOrder ==
  /\ (main \in {"clearStop", "startFcgi", "spawnRecv"}) => recv = "unborn"
  /\ recv = "unborn" => queue = <<>> /\ fetched = NoRequest
  /\ (recv = "push") => fetched # NoRequest
  /\ \A w \in Workers : work[w] = "handle" => held[w] # NoRequest

(* Without an early SIGTERM, whatever the handler or the receiver has done *)
(* because of a stop was done after m_stop was set.                        *)
StopOrder ==
  ~early =>
    /\ Starting => \A t \in Threads : term[t] = "none"
    /\ ~Starting => /\ fcgiStop => stop
                    /\ \A t \in Threads : term[t] \in {"stopFcgi", "post"} => stop
    /\ fetched = Phantom => stop
    /\ \A i \in 1 .. Len(queue) : queue[i] = Phantom => stop

IInv == TypeOK /\ BootOrder /\ StopOrder /\ NoStrandedRequest /\ PhantomNeverHandled

-----------------------------------------------------------------------------

(* The set behind NoStrandedRequest changes by one worker at a time.       *)
LEMMA AtPopFinite ==
  ASSUME TypeOK
  PROVE  IsFiniteSet(AtPop) /\ Cardinality(AtPop) \in Nat
  BY ThreadsAssumption, FS_Subset, FS_CardinalityType DEF AtPop

(* A worker that arrives at the list adds one to the count.                *)
LEMMA AtPopEnter ==
  ASSUME TypeOK, NEW w \in Workers, work[w] # "pop",
         work' = [work EXCEPT ![w] = "pop"]
  PROVE  Cardinality(AtPop') = Cardinality(AtPop) + 1
<1>1. AtPop' = AtPop \cup {w}
  BY DEF AtPop, TypeOK
<1>2. w \notin AtPop
  BY DEF AtPop
<1>3. QED
  BY <1>1, <1>2, AtPopFinite, FS_AddElement

(* A worker that has looked at the list takes one from the count.          *)
LEMMA AtPopLeave ==
  ASSUME TypeOK, NEW w \in Workers, work[w] = "pop", NEW to, to # "pop",
         work' = [work EXCEPT ![w] = to]
  PROVE  Cardinality(AtPop') = Cardinality(AtPop) - 1
<1>1. AtPop' = AtPop \ {w}
  BY DEF AtPop, TypeOK
<1>2. w \in AtPop
  BY DEF AtPop
<1>3. QED
  BY <1>1, <1>2, AtPopFinite, FS_RemoveElement

(* Moving a worker between other places leaves the count alone.            *)
LEMMA AtPopSame ==
  ASSUME TypeOK, NEW w \in Workers, work[w] # "pop", NEW to, to # "pop",
         work' = [work EXCEPT ![w] = to]
  PROVE  AtPop' = AtPop
  BY DEF AtPop, TypeOK

-----------------------------------------------------------------------------

LEMMA TypeInit == Init => TypeOK
<1> SUFFICES ASSUME Init PROVE TypeOK
  OBVIOUS
<1> USE DEF Init, MainSteps, Requests, Phantom, NoRequest, Threads
<1>1. queue \in RequestSeqs
  BY DEF RequestSeqs
<1>2. work \in [Workers -> {"unborn", "check", "wait", "pop", "handle", "exited"}]
  OBVIOUS
<1>3. term \in [Threads -> {"none", "setStop", "stopFcgi", "post"}] /\ posts \in [Threads -> Nat]
  OBVIOUS
<1>4. polled \in 0 .. MaxRequests
  BY BoundsAssumption
<1>5. QED
  BY <1>1, <1>2, <1>3, <1>4 DEF TypeOK

LEMMA TypeNext ==
  ASSUME TypeOK, BootOrder, [Next]_vars
  PROVE  TypeOK'
<1> USE ThreadsAssumption, BoundsAssumption
    DEF TypeOK, RequestSeqs, MainSteps, Requests, Phantom, NoRequest, Threads,
        shared, signals, history, Running
<1>1. ASSUME Boot PROVE TypeOK'
  BY <1>1 DEF Boot, MainAt, StartClearStop, StartFcgi, SpawnReceiver, SpawnWorker
<1>2. ASSUME Shutdown PROVE TypeOK'
  <2>1. CASE JoinWorkers  BY <2>1 DEF JoinWorkers, MainAt
  <2>2. CASE JoinReceiver BY <2>2 DEF JoinReceiver, MainAt
  <2>3. CASE DestroyQueued
    <3>1. Head(queue) \in 1 .. MaxRequests \cup {0} /\ queue' \in Seq(1 .. MaxRequests \cup {0})
      BY <2>3 DEF DestroyQueued
    <3>2. QED BY <2>3, <3>1 DEF DestroyQueued
  <2>4. CASE Destroyed    BY <2>4 DEF Destroyed, MainAt
  <2>5. QED BY <1>2, <2>1, <2>2, <2>3, <2>4 DEF Shutdown
<1>3. ASSUME Receiver PROVE TypeOK'
  <2>1. CASE ReceiverCheck BY <2>1 DEF ReceiverCheck, RecvAt
  <2>2. CASE GetRequest    BY <2>2 DEF GetRequest, RecvAt
  <2>3. CASE GetPhantom    BY <2>3 DEF GetPhantom, RecvAt
  <2>4. CASE PushRequest
    <3>1. fetched \in 1 .. MaxRequests \cup {0}
      BY <2>4 DEF PushRequest, RecvAt, BootOrder
    <3>2. queue' \in Seq(1 .. MaxRequests \cup {0})
      BY <2>4, <3>1 DEF PushRequest
    <3>3. QED BY <2>4, <3>2 DEF PushRequest, RecvAt
  <2>5. QED BY <1>3, <2>1, <2>2, <2>3, <2>4 DEF Receiver
<1>4. ASSUME NEW w \in Workers, Handler(w) \/ InterruptWait(w) PROVE TypeOK'
  <2>1. CASE WorkerCheck(w)   BY <2>1 DEF WorkerCheck, WorkerAt
  <2>2. CASE WaitSemaphore(w) BY <2>2 DEF WaitSemaphore, WorkerAt
  <2>3. CASE InterruptWait(w) BY <2>3 DEF InterruptWait, WorkerAt
  <2>4. CASE PopRequest(w)
    <3>1. CASE queue # <<>>
      <4>1. Head(queue) \in 1 .. MaxRequests \cup {0} /\ Tail(queue) \in Seq(1 .. MaxRequests \cup {0})
        BY <3>1
      <4>2. /\ held' = held \/ held' = [held EXCEPT ![w] = Head(queue)]
            /\ queue' = queue \/ queue' = Tail(queue)
        BY <2>4 DEF PopRequest
      <4>3. held' \in [Workers -> Requests \cup {Phantom, NoRequest}]
        BY <4>1, <4>2
      <4>4. queue' \in RequestSeqs
        BY <4>1, <4>2
      <4>5. work' \in [Workers -> {"unborn", "check", "wait", "pop", "handle", "exited"}]
        BY <2>4 DEF PopRequest, WorkerAt
      <4>6. QED BY <2>4, <4>3, <4>4, <4>5 DEF PopRequest
    <3>2. CASE queue = <<>>
      BY <2>4, <3>2 DEF PopRequest, WorkerAt
    <3>3. QED BY <3>1, <3>2
  <2>5. CASE FinishRequest(w) BY <2>5 DEF FinishRequest, WorkerAt, BootOrder
  <2>6. QED BY <1>4, <2>1, <2>2, <2>3, <2>4, <2>5 DEF Handler
<1>5. ASSUME NEW t \in Threads, DeliverTerm(t) \/ SignalHandler(t) PROVE TypeOK'
  <2>1. CASE DeliverTerm(t)
    <3>1. term' \in [Threads -> {"none", "setStop", "stopFcgi", "post"}]
      BY <2>1 DEF DeliverTerm
    <3>2. work' \in [Workers -> {"unborn", "check", "wait", "pop", "handle", "exited"}]
      BY <2>1 DEF DeliverTerm
    <3>3. early' \in BOOLEAN /\ terms' \in Nat
      BY <2>1 DEF DeliverTerm, Starting
    <3>4. QED BY <2>1, <3>1, <3>2, <3>3 DEF DeliverTerm
  <2>2. CASE StopManager(t)   BY <2>2 DEF StopManager, TermAt
  <2>3. CASE StopFcgi(t)
    BY <2>3, FS_CardinalityType DEF StopFcgi, TermAt
  <2>4. CASE PostSemaphore(t) BY <2>4 DEF PostSemaphore
  <2>5. CASE EndHandler(t)    BY <2>5 DEF EndHandler, TermAt
  <2>6. QED BY <1>5, <2>1, <2>2, <2>3, <2>4, <2>5 DEF SignalHandler
<1>6. CASE UNCHANGED vars BY <1>6 DEF vars
<1>7. QED BY <1>1, <1>2, <1>3, <1>4, <1>5, <1>6 DEF Next, Exited

-----------------------------------------------------------------------------

LEMMA BootOrderNext ==
  ASSUME TypeOK, BootOrder, [Next]_vars
  PROVE  BootOrder'
<1> USE DEF TypeOK, BootOrder, MainSteps, shared, signals, history, Running
<1>1. ASSUME Boot PROVE BootOrder'
  BY <1>1 DEF Boot, MainAt, StartClearStop, StartFcgi, SpawnReceiver, SpawnWorker
<1>2. ASSUME Shutdown PROVE BootOrder'
  <2>1. CASE JoinWorkers   BY <2>1 DEF JoinWorkers, MainAt
  <2>2. CASE JoinReceiver  BY <2>2 DEF JoinReceiver, MainAt
  <2>3. CASE DestroyQueued BY <2>3 DEF DestroyQueued
  <2>4. CASE Destroyed     BY <2>4 DEF Destroyed, MainAt
  <2>5. QED BY <1>2, <2>1, <2>2, <2>3, <2>4 DEF Shutdown
<1>3. ASSUME Receiver PROVE BootOrder'
  BY <1>3 DEF Receiver, ReceiverCheck, GetRequest, GetPhantom, PushRequest, RecvAt,
              Requests, Phantom, NoRequest
<1>4. ASSUME NEW w \in Workers, Handler(w) \/ InterruptWait(w) PROVE BootOrder'
  <2>1. CASE PopRequest(w)
    <3>1. CASE queue # <<>> /\ held' = [held EXCEPT ![w] = Head(queue)]
      <4>1. Head(queue) # NoRequest
        BY <3>1 DEF RequestSeqs, Requests, Phantom, NoRequest
      <4>2. QED BY <2>1, <3>1, <4>1 DEF PopRequest, WorkerAt
    <3>2. CASE queue' = queue /\ held' = held /\ work' = [work EXCEPT ![w] = "check"]
      BY <2>1, <3>2 DEF PopRequest
    <3>3. QED BY <2>1, <3>1, <3>2 DEF PopRequest, WorkerAt
  <2>2. CASE WorkerCheck(w) \/ WaitSemaphore(w) \/ InterruptWait(w)
    BY <2>2 DEF WorkerCheck, WaitSemaphore, InterruptWait, WorkerAt
  <2>3. CASE FinishRequest(w)
    BY <2>3 DEF FinishRequest, WorkerAt
  <2>4. QED BY <1>4, <2>1, <2>2, <2>3 DEF Handler
<1>5. ASSUME NEW t \in Threads, DeliverTerm(t) \/ SignalHandler(t) PROVE BootOrder'
  BY <1>5 DEF DeliverTerm, SignalHandler, StopManager, StopFcgi, PostSemaphore, EndHandler
<1>6. CASE UNCHANGED vars BY <1>6 DEF vars
<1>7. QED BY <1>1, <1>2, <1>3, <1>4, <1>5, <1>6 DEF Next, Exited

(* Elements of the list come from Receiver() only.                         *)
LEMMA QueueChange ==
  ASSUME TypeOK, [Next]_vars
  PROVE  \/ queue' = queue
         \/ queue' = Append(queue, fetched) /\ recv = "push" /\ stop' = stop
         \/ queue # <<>> /\ queue' = Tail(queue) /\ stop' = stop
<1> USE DEF shared, signals, history
<1>1. CASE Boot
  BY <1>1 DEF Boot, StartClearStop, StartFcgi, SpawnReceiver, SpawnWorker
<1>2. CASE Shutdown
  BY <1>2 DEF Shutdown, JoinWorkers, JoinReceiver, DestroyQueued, Destroyed
<1>3. CASE Receiver
  BY <1>3 DEF Receiver, ReceiverCheck, GetRequest, GetPhantom, PushRequest, RecvAt
<1>4. ASSUME NEW w \in Workers, Handler(w) \/ InterruptWait(w)
      PROVE  \/ queue' = queue
             \/ queue # <<>> /\ queue' = Tail(queue) /\ stop' = stop
  BY <1>4 DEF Handler, WorkerCheck, WaitSemaphore, InterruptWait, PopRequest, FinishRequest
<1>5. ASSUME NEW t \in Threads, DeliverTerm(t) \/ SignalHandler(t) PROVE queue' = queue
  BY <1>5 DEF DeliverTerm, SignalHandler, StopManager, StopFcgi, PostSemaphore, EndHandler
<1>6. CASE UNCHANGED vars BY <1>6 DEF vars
<1>7. QED BY <1>1, <1>2, <1>3, <1>4, <1>5, <1>6 DEF Next, Exited

(* m_stop is cleared once, before there is a receiver; otherwise it only   *)
(* ever becomes TRUE.                                                      *)
LEMMA StopChange ==
  ASSUME TypeOK, [Next]_vars
  PROVE  \/ stop => stop'
         \/ main = "clearStop"
<1> USE DEF shared, signals, history, TypeOK
<1>1. CASE Boot
  BY <1>1 DEF Boot, StartClearStop, StartFcgi, SpawnReceiver, SpawnWorker, MainAt
<1>2. CASE Shutdown
  BY <1>2 DEF Shutdown, JoinWorkers, JoinReceiver, DestroyQueued, Destroyed
<1>3. CASE Receiver
  BY <1>3 DEF Receiver, ReceiverCheck, GetRequest, GetPhantom, PushRequest
<1>4. ASSUME NEW w \in Workers, Handler(w) \/ InterruptWait(w) PROVE stop' = stop
  BY <1>4 DEF Handler, WorkerCheck, WaitSemaphore, InterruptWait, PopRequest, FinishRequest
<1>5. ASSUME NEW t \in Threads, DeliverTerm(t) \/ SignalHandler(t) PROVE stop => stop'
  BY <1>5 DEF DeliverTerm, SignalHandler, StopManager, StopFcgi, PostSemaphore, EndHandler
<1>6. CASE UNCHANGED vars BY <1>6 DEF vars
<1>7. QED BY <1>1, <1>2, <1>3, <1>4, <1>5, <1>6 DEF Next, Exited

-----------------------------------------------------------------------------

LEMMA StopOrderInit == Init => StopOrder
  BY ThreadsAssumption
  DEF Init, StopOrder, Starting, Phantom, NoRequest

LEMMA StopOrderNext ==
  ASSUME TypeOK, BootOrder, StopOrder, [Next]_vars
  PROVE  StopOrder'
<1> USE DEF shared, signals, history, Running
<1> DEFINE Handlers ==
      ~early => /\ Starting => \A t \in Threads : term[t] = "none"
                /\ ~Starting => /\ fcgiStop => stop
                                /\ \A t \in Threads : term[t] \in {"stopFcgi", "post"} => stop
           Fetched == ~early /\ fetched = Phantom => stop
           Queued  == ~early => \A i \in 1 .. Len(queue) : queue[i] = Phantom => stop
<1>1. Handlers'
  <2> USE DEF StopOrder, Starting, TypeOK, MainSteps
  <2>1. CASE Boot
    BY <2>1 DEF Boot, MainAt, StartClearStop, StartFcgi, SpawnReceiver, SpawnWorker
  <2>2. CASE Shutdown
    BY <2>2 DEF Shutdown, JoinWorkers, JoinReceiver, DestroyQueued, Destroyed, MainAt
  <2>3. CASE Receiver
    BY <2>3 DEF Receiver, ReceiverCheck, GetRequest, GetPhantom, PushRequest
  <2>4. ASSUME NEW w \in Workers, Handler(w) \/ InterruptWait(w) PROVE Handlers'
    BY <2>4 DEF Handler, WorkerCheck, WaitSemaphore, InterruptWait, PopRequest, FinishRequest
  <2>5. ASSUME NEW t \in Threads, DeliverTerm(t) PROVE Handlers'
    BY <2>5 DEF DeliverTerm
  <2>6. ASSUME NEW t \in Threads, SignalHandler(t) PROVE Handlers'
    BY <2>6 DEF SignalHandler, StopManager, StopFcgi, PostSemaphore, EndHandler, TermAt
  <2>7. CASE UNCHANGED vars BY <2>7 DEF vars
  <2>8. QED BY <2>1, <2>2, <2>3, <2>4, <2>5, <2>6, <2>7 DEF Next, Exited
<1>2. early => early'
  <2>1. CASE Boot
    BY <2>1 DEF Boot, StartClearStop, StartFcgi, SpawnReceiver, SpawnWorker
  <2>2. CASE Shutdown
    BY <2>2 DEF Shutdown, JoinWorkers, JoinReceiver, DestroyQueued, Destroyed
  <2>3. CASE Receiver
    BY <2>3 DEF Receiver, ReceiverCheck, GetRequest, GetPhantom, PushRequest
  <2>4. ASSUME NEW w \in Workers, Handler(w) \/ InterruptWait(w) PROVE early' = early
    BY <2>4 DEF Handler, WorkerCheck, WaitSemaphore, InterruptWait, PopRequest, FinishRequest
  <2>5. ASSUME NEW t \in Threads, DeliverTerm(t) \/ SignalHandler(t) PROVE early => early'
    BY <2>5 DEF DeliverTerm, SignalHandler, StopManager, StopFcgi, PostSemaphore, EndHandler
  <2>6. CASE UNCHANGED vars BY <2>6 DEF vars
  <2>7. QED BY <2>1, <2>2, <2>3, <2>4, <2>5, <2>6 DEF Next, Exited
<1>3. main = "clearStop" => queue = <<>> /\ fetched = NoRequest
  BY DEF BootOrder
<1>4. Fetched'
  <2>1. CASE fetched' = fetched
    BY <2>1, <1>2, <1>3, StopChange DEF StopOrder, Phantom, NoRequest
  <2>2. CASE GetPhantom
    <3>1. fcgiStop /\ recv = "get" /\ stop' = stop
      BY <2>2 DEF GetPhantom, RecvAt, Source!ReturnNull
    <3>2. ~Starting
      BY <3>1 DEF BootOrder, Starting
    <3>3. QED BY <3>1, <3>2, <1>2 DEF StopOrder
  <2>3. CASE GetRequest \/ PushRequest
    BY <2>3 DEF GetRequest, PushRequest, TypeOK, Phantom, NoRequest
  <2>4. fetched' = fetched \/ GetPhantom \/ GetRequest \/ PushRequest
    BY DEF Next, Boot, StartClearStop, StartFcgi, SpawnReceiver, SpawnWorker,
           Shutdown, JoinWorkers, JoinReceiver, DestroyQueued, Destroyed, Exited, vars,
           Receiver, ReceiverCheck, Handler, WorkerCheck, WaitSemaphore, InterruptWait,
           PopRequest, FinishRequest, DeliverTerm, SignalHandler, StopManager, StopFcgi,
           PostSemaphore, EndHandler
  <2>5. QED BY <2>1, <2>2, <2>3, <2>4
<1>5. Queued'
  <2> SUFFICES ASSUME ~early', NEW i \in 1 .. Len(queue'), queue'[i] = Phantom
               PROVE  stop'
    OBVIOUS
  <2> USE DEF TypeOK, RequestSeqs
  <2>1. CASE queue' = queue
    BY <2>1, <1>2, <1>3, StopChange DEF StopOrder
  <2>2. CASE queue' = Append(queue, fetched) /\ stop' = stop
    BY <2>2, <1>2 DEF StopOrder
  <2>3. CASE queue # <<>> /\ queue' = Tail(queue) /\ stop' = stop
    <3>1. i + 1 \in 1 .. Len(queue) /\ queue[i + 1] = Phantom
      BY <2>3
    <3>2. QED BY <3>1, <2>3, <1>2 DEF StopOrder
  <2>4. QED BY <2>1, <2>2, <2>3, QueueChange
<1>6. QED BY <1>1, <1>4, <1>5 DEF StopOrder

-----------------------------------------------------------------------------

LEMMA NoStrandedInit == Init => NoStrandedRequest
  BY DEF Init, NoStrandedRequest

(* The three ways to disturb the balance: a push brings its token, a wait  *)
(* turns a token into a worker at the list, and a worker that leaves the   *)
(* list took an element or found none.                                     *)
LEMMA NoStrandedNext ==
  ASSUME TypeOK, BootOrder, NoStrandedRequest, [Next]_vars
  PROVE  NoStrandedRequest'
<1> SUFFICES ASSUME ~stop' PROVE Len(queue') <= sem' + Cardinality(AtPop')
  BY DEF NoStrandedRequest
<1> USE AtPopFinite DEF TypeOK, shared, signals, history
<1>1. Len(queue) \in Nat /\ Len(queue') \in Nat
  BY TypeNext DEF RequestSeqs
<1>2. main = "clearStop" \/ Len(queue) <= sem + Cardinality(AtPop)
  BY StopChange DEF NoStrandedRequest
<1>3. Len(queue) <= sem + Cardinality(AtPop)
  BY <1>2 DEF BootOrder
<1>4. CASE UNCHANGED <<queue, sem, work>>
  BY <1>3, <1>4 DEF AtPop
<1>5. CASE Boot
  <2>1. CASE StartClearStop \/ StartFcgi \/ SpawnReceiver
    BY <2>1, <1>4 DEF StartClearStop, StartFcgi, SpawnReceiver
  <2>2. ASSUME NEW w \in Workers, SpawnWorker(w) PROVE AtPop' = AtPop
    BY <2>2, AtPopSame DEF SpawnWorker
  <2>3. QED BY <1>5, <1>3, <2>1, <2>2 DEF Boot, SpawnWorker
<1>6. CASE Shutdown
  <2>1. CASE DestroyQueued
    <3>1. Len(queue') <= Len(queue)
      BY <2>1 DEF DestroyQueued, RequestSeqs
    <3>2. QED BY <2>1, <3>1, <1>1, <1>3 DEF DestroyQueued, AtPop
  <2>2. CASE JoinWorkers \/ JoinReceiver \/ Destroyed
    BY <2>2, <1>4 DEF JoinWorkers, JoinReceiver, Destroyed
  <2>3. QED BY <1>6, <2>1, <2>2 DEF Shutdown
<1>7. CASE Receiver
  <2>1. CASE PushRequest
    <3>1. Len(queue') = Len(queue) + 1 /\ sem' = sem + 1 /\ AtPop' = AtPop
      BY <2>1 DEF PushRequest, RequestSeqs, AtPop
    <3>2. QED BY <3>1, <1>1, <1>3
  <2>2. CASE ReceiverCheck \/ GetRequest \/ GetPhantom
    BY <2>2, <1>4 DEF ReceiverCheck, GetRequest, GetPhantom
  <2>3. QED BY <1>7, <2>1, <2>2 DEF Receiver
<1>8. ASSUME NEW w \in Workers, Handler(w) \/ InterruptWait(w)
      PROVE  Len(queue') <= sem' + Cardinality(AtPop')
  <2>1. CASE WorkerCheck(w) \/ FinishRequest(w)
    <3>1. AtPop' = AtPop
      BY <2>1, AtPopSame DEF WorkerCheck, FinishRequest, WorkerAt
    <3>2. QED BY <2>1, <3>1, <1>3 DEF WorkerCheck, FinishRequest
  <2>2. CASE WaitSemaphore(w)
    <3>1. Cardinality(AtPop') = Cardinality(AtPop) + 1
      BY <2>2, AtPopEnter DEF WaitSemaphore, WorkerAt
    <3>2. QED BY <2>2, <3>1, <1>1, <1>3 DEF WaitSemaphore
  <2>3. CASE InterruptWait(w)
    <3>1. Cardinality(AtPop') = Cardinality(AtPop) + 1
      BY <2>3, AtPopEnter DEF InterruptWait, WorkerAt
    <3>2. QED BY <2>3, <3>1, <1>1, <1>3 DEF InterruptWait
  <2>4. CASE PopRequest(w)
    <3>1. Cardinality(AtPop') = Cardinality(AtPop) - 1
      BY <2>4, AtPopLeave DEF PopRequest, WorkerAt
    <3>2. CASE queue # <<>>
      <4>1. queue' = Tail(queue) /\ sem' = sem
        BY <2>4, <3>2 DEF PopRequest
      <4>2. Len(queue') = Len(queue) - 1
        BY <4>1, <3>2 DEF RequestSeqs
      <4>3. sem' = sem
        BY <4>1
      <4>4. QED BY <3>1, <4>2, <4>3, <1>1, <1>3
    <3>3. CASE queue = <<>>
      <4>1. Len(queue') = 0 /\ sem' = sem
        BY <2>4, <3>3 DEF PopRequest
      <4>2. AtPop' \subseteq Workers
        BY DEF AtPop
      <4>3. Cardinality(AtPop') \in Nat
        BY <4>2, ThreadsAssumption, FS_Subset, FS_CardinalityType
      <4>4. QED BY <4>1, <4>3
    <3>4. QED BY <3>2, <3>3
  <2>5. QED BY <1>8, <2>1, <2>2, <2>3, <2>4 DEF Handler
<1>9. ASSUME NEW t \in Threads, DeliverTerm(t) \/ SignalHandler(t)
      PROVE  Len(queue') <= sem' + Cardinality(AtPop')
  <2>1. CASE DeliverTerm(t)
    <3>1. CASE UNCHANGED work
      BY <3>1, <2>1, <1>4 DEF DeliverTerm
    <3>2. CASE t \in Workers /\ work[t] = "wait" /\ work' = [work EXCEPT ![t] = "pop"]
      <4>1. Cardinality(AtPop') = Cardinality(AtPop) + 1
        BY <3>2, AtPopEnter
      <4>2. QED BY <2>1, <4>1, <1>1, <1>3 DEF DeliverTerm
    <3>3. QED BY <2>1, <3>1, <3>2 DEF DeliverTerm
  <2>2. CASE SignalHandler(t)
    <3>1. AtPop' = AtPop /\ queue' = queue /\ (sem' = sem \/ sem' = sem + 1)
      BY <2>2 DEF SignalHandler, StopManager, StopFcgi, PostSemaphore, EndHandler, AtPop
    <3>2. QED BY <3>1, <1>1, <1>3
  <2>3. QED BY <1>9, <2>1, <2>2
<1>10. CASE UNCHANGED vars BY <1>10, <1>4 DEF vars
<1>11. QED BY <1>5, <1>6, <1>7, <1>8, <1>9, <1>10 DEF Next, Exited

-----------------------------------------------------------------------------

LEMMA PhantomNext ==
  ASSUME TypeOK, BootOrder, StopOrder, PhantomNeverHandled, [Next]_vars
  PROVE  PhantomNeverHandled'
<1> USE DEF PhantomNeverHandled, TypeOK, shared, signals, history, Phantom, NoRequest
<1>1. CASE Boot
  BY <1>1 DEF Boot, StartClearStop, StartFcgi, SpawnReceiver, SpawnWorker, MainAt
<1>2. CASE Shutdown
  BY <1>2 DEF Shutdown, JoinWorkers, JoinReceiver, DestroyQueued, Destroyed, MainAt
<1>3. CASE Receiver
  BY <1>3 DEF Receiver, ReceiverCheck, GetRequest, GetPhantom, PushRequest
<1>4. ASSUME NEW w \in Workers, Handler(w) \/ InterruptWait(w) PROVE PhantomNeverHandled'
  <2>1. CASE WorkerCheck(w) \/ WaitSemaphore(w) \/ InterruptWait(w)
    BY <2>1 DEF WorkerCheck, WaitSemaphore, InterruptWait
  <2>2. CASE PopRequest(w)
    <3>1. CASE ~stop /\ queue # <<>>
      <4>1. ~early => Head(queue) # Phantom
        BY <3>1 DEF StopOrder, RequestSeqs
      <4>2. QED BY <2>2, <3>1, <4>1 DEF PopRequest
    <3>2. CASE stop \/ queue = <<>>
      BY <2>2, <3>2 DEF PopRequest
    <3>3. QED BY <3>1, <3>2
  <2>3. CASE FinishRequest(w)
    BY <2>3 DEF FinishRequest
  <2>4. QED BY <1>4, <2>1, <2>2, <2>3 DEF Handler
<1>5. ASSUME NEW t \in Threads, DeliverTerm(t) \/ SignalHandler(t) PROVE PhantomNeverHandled'
  BY <1>5 DEF DeliverTerm, SignalHandler, StopManager, StopFcgi, PostSemaphore, EndHandler
<1>6. CASE UNCHANGED vars BY <1>6 DEF vars
<1>7. QED BY <1>1, <1>2, <1>3, <1>4, <1>5, <1>6 DEF Next, Exited

-----------------------------------------------------------------------------

(* IInv is inductive.                                                      *)
LEMMA InductiveInvariant == Spec => []IInv
<1>1. Init => IInv
  <2> SUFFICES ASSUME Init PROVE IInv
    OBVIOUS
  <2>1. BootOrder
    BY DEF Init, BootOrder
  <2>2. PhantomNeverHandled
    BY DEF Init, PhantomNeverHandled, Phantom, NoRequest
  <2>3. QED BY <2>1, <2>2, TypeInit, StopOrderInit, NoStrandedInit DEF IInv
<1>2. IInv /\ [Next]_vars => IInv'
  BY TypeNext, BootOrderNext, StopOrderNext, NoStrandedNext, PhantomNext DEF IInv
<1>3. QED BY <1>1, <1>2, PTL DEF Spec

(* Every variable of Manager keeps its type.                               *)
THEOREM TypeCorrect == Spec => []TypeOK
  BY InductiveInvariant, PTL DEF IInv

(* While the server runs, a queued request always has a wake-up of its     *)
(* own, however waits are interrupted and signals arrive.                  *)
THEOREM NoRequestIsStranded == Spec => []NoStrandedRequest
  BY InductiveInvariant, PTL DEF IInv

(* A worker is never handed the request built from a null pointer, for any *)
(* number of workers, requests and SIGTERMs.                               *)
THEOREM PhantomIsNeverHandled == Spec => []PhantomNeverHandled
  BY InductiveInvariant, PTL DEF IInv

-----------------------------------------------------------------------------
(* Where a request is.                                                      *)

(* A local `request` holds one exactly while it is being pushed or handled. *)
Hands ==
  /\ recv # "push" => fetched = NoRequest
  /\ \A w \in Workers : work[w] # "handle" => held[w] = NoRequest

Taken(r) == r \in finished \/ \E w \in Workers : held[w] = r
Queued(r) == \E i \in 1 .. Len(queue) : queue[i] = r

(* Requests move on in the order of their names: what was taken comes      *)
(* before what is queued, and that before what is fetched, which is the    *)
(* last one the source delivered.                                          *)
QueueInOrder ==
  \A i, j \in 1 .. Len(queue) : i < j /\ queue[j] \in Requests => queue[i] < queue[j]
TakenBeforeQueued ==
  \A i \in 1 .. Len(queue) : queue[i] \in Requests =>
    queue[i] <= polled /\ \A r \in Requests : Taken(r) => r < queue[i]
FetchedLast ==
  fetched \in Requests => fetched = polled /\ \A r \in Requests : Taken(r) \/ Queued(r) => r < fetched

(* No two workers hold the same request, nor one that is finished.         *)
HeldOnce ==
  \A w \in Workers : held[w] \in Requests =>
    held[w] \notin finished /\ \A v \in Workers \ {w} : held[v] # held[w]

(* The requests in the program are those the source delivered.             *)
DeliveredOnly ==
  \A r \in Requests : Taken(r) \/ Queued(r) \/ fetched = r <=> r <= polled

OnePlace == Hands /\ QueueInOrder /\ TakenBeforeQueued /\ FetchedLast /\ HeldOnce /\ DeliveredOnly

(* Every step leaves the requests where they are or moves one of them on.  *)
Delivers ==
  /\ fetched = NoRequest /\ polled < MaxRequests
  /\ polled' = polled + 1 /\ fetched' = polled'
  /\ UNCHANGED <<queue, held, finished>>
FetchesNull ==
  /\ fetched = NoRequest /\ fetched' = Phantom
  /\ UNCHANGED <<queue, held, finished, polled>>
Pushes ==
  /\ fetched # NoRequest
  /\ queue' = Append(queue, fetched) /\ fetched' = NoRequest
  /\ UNCHANGED <<held, finished, polled>>
Takes(w) ==
  /\ queue # <<>> /\ held[w] = NoRequest
  /\ held' = [held EXCEPT ![w] = Head(queue)] /\ queue' = Tail(queue)
  /\ UNCHANGED <<fetched, finished, polled>>
Finishes(w) ==
  /\ held[w] # NoRequest
  /\ finished' = finished \cup {held[w]} /\ held' = [held EXCEPT ![w] = NoRequest]
  /\ UNCHANGED <<queue, fetched, polled>>
Destroys ==
  /\ queue # <<>>
  /\ finished' = finished \cup {Head(queue)} /\ queue' = Tail(queue)
  /\ UNCHANGED <<fetched, held, polled>>

LEMMA RequestMoves ==
  ASSUME IInv, Hands, [Next]_vars
  PROVE  \/ UNCHANGED <<queue, fetched, held, finished, polled>>
         \/ Delivers \/ FetchesNull \/ Pushes \/ Destroys
         \/ \E w \in Workers : Takes(w) \/ Finishes(w)
<1> USE DEF shared, signals, history
<1>1. CASE Boot
  BY <1>1 DEF Boot, StartClearStop, StartFcgi, SpawnReceiver, SpawnWorker
<1>2. CASE Shutdown
  BY <1>2 DEF Shutdown, JoinWorkers, JoinReceiver, DestroyQueued, Destroyed, Destroys
<1>3. CASE Receiver
  <2>1. CASE ReceiverCheck BY <2>1 DEF ReceiverCheck
  <2>2. CASE GetRequest    BY <2>2 DEF GetRequest, RecvAt, Hands, Delivers
  <2>3. CASE GetPhantom    BY <2>3 DEF GetPhantom, RecvAt, Hands, FetchesNull
  <2>4. CASE PushRequest   BY <2>4 DEF PushRequest, RecvAt, IInv, BootOrder, Pushes
  <2>5. QED BY <1>3, <2>1, <2>2, <2>3, <2>4 DEF Receiver
<1>4. ASSUME NEW w \in Workers, Handler(w) \/ InterruptWait(w)
      PROVE  UNCHANGED <<queue, fetched, held, finished, polled>> \/ Takes(w) \/ Finishes(w)
  <2>1. CASE WorkerCheck(w) \/ WaitSemaphore(w) \/ InterruptWait(w)
    BY <2>1 DEF WorkerCheck, WaitSemaphore, InterruptWait
  <2>2. CASE PopRequest(w)    BY <2>2 DEF PopRequest, WorkerAt, Hands, Takes
  <2>3. CASE FinishRequest(w) BY <2>3 DEF FinishRequest, WorkerAt, IInv, BootOrder, Finishes
  <2>4. QED BY <1>4, <2>1, <2>2, <2>3 DEF Handler
<1>5. ASSUME NEW t \in Threads, DeliverTerm(t) \/ SignalHandler(t)
      PROVE  UNCHANGED <<queue, fetched, held, finished, polled>>
  BY <1>5 DEF DeliverTerm, SignalHandler, StopManager, StopFcgi, PostSemaphore, EndHandler
<1>6. CASE UNCHANGED vars BY <1>6 DEF vars
<1>7. QED BY <1>1, <1>2, <1>3, <1>4, <1>5, <1>6 DEF Next, Exited

LEMMA HandsNext ==
  ASSUME TypeOK, BootOrder, Hands, [Next]_vars
  PROVE  Hands'
<1> USE DEF Hands, TypeOK, shared, signals, history, Running
<1>1. CASE Boot
  BY <1>1 DEF Boot, BootOrder, MainAt, StartClearStop, StartFcgi, SpawnReceiver, SpawnWorker
<1>2. CASE Shutdown
  BY <1>2 DEF Shutdown, JoinWorkers, JoinReceiver, DestroyQueued, Destroyed
<1>3. CASE Receiver
  BY <1>3 DEF Receiver, ReceiverCheck, GetRequest, GetPhantom, PushRequest, RecvAt
<1>4. ASSUME NEW w \in Workers, Handler(w) \/ InterruptWait(w) PROVE Hands'
  BY <1>4 DEF Handler, WorkerCheck, WaitSemaphore, InterruptWait, PopRequest, FinishRequest, WorkerAt
<1>5. ASSUME NEW t \in Threads, DeliverTerm(t) \/ SignalHandler(t) PROVE Hands'
  BY <1>5 DEF DeliverTerm, SignalHandler, StopManager, StopFcgi, PostSemaphore, EndHandler
<1>6. CASE UNCHANGED vars BY <1>6 DEF vars
<1>7. QED BY <1>1, <1>2, <1>3, <1>4, <1>5, <1>6 DEF Next, Exited

(* A tail and an append, element by element.                               *)
LEMMA TailElements ==
  ASSUME TypeOK, queue # <<>>
  PROVE  /\ Head(queue) = queue[1] /\ 1 \in 1 .. Len(queue)
         /\ Tail(queue) \in RequestSeqs
         /\ \A i \in 1 .. Len(Tail(queue)) :
              i + 1 \in 1 .. Len(queue) /\ Tail(queue)[i] = queue[i + 1]
         /\ \A i \in 1 .. Len(queue) : i = 1 \/
              (i - 1 \in 1 .. Len(Tail(queue)) /\ queue[i] = Tail(queue)[i - 1])
  BY DEF TypeOK, RequestSeqs

LEMMA AppendElements ==
  ASSUME TypeOK, NEW r \in Requests \cup {Phantom}
  PROVE  LET q == Append(queue, r)
             n == Len(queue) + 1
         IN  /\ q \in RequestSeqs /\ Len(q) = n /\ n \in 1 .. Len(q) /\ q[n] = r
             /\ \A i \in 1 .. Len(q) : i = n \/ (i \in 1 .. Len(queue) /\ i < n)
             /\ \A i \in 1 .. Len(queue) : i \in 1 .. Len(q) /\ q[i] = queue[i]
  BY DEF TypeOK, RequestSeqs

LEMMA OnePlaceInit == Init => OnePlace
  BY BoundsAssumption
  DEF Init, OnePlace, Hands, QueueInOrder, TakenBeforeQueued, FetchedLast, HeldOnce,
      DeliveredOnly, Taken, Queued, Requests, Phantom, NoRequest

(* One step per move.                                                      *)
LEMMA OnePlaceNext ==
  ASSUME IInv, OnePlace, [Next]_vars
  PROVE  OnePlace'
<1>1. TypeOK /\ Hands /\ Hands'
  BY HandsNext DEF IInv, OnePlace
<1> DEFINE Order == QueueInOrder /\ TakenBeforeQueued /\ FetchedLast /\ HeldOnce /\ DeliveredOnly
<1>2. Order
  BY DEF OnePlace
<1>3. SUFFICES Order'
  BY <1>1 DEF OnePlace
<1> USE DEF Requests, Phantom, NoRequest
<1>4. CASE UNCHANGED <<queue, fetched, held, finished, polled>>
  BY <1>2, <1>4 DEF QueueInOrder, TakenBeforeQueued, FetchedLast, HeldOnce, DeliveredOnly, Taken, Queued
<1>5. CASE Delivers
  BY <1>1, <1>2, <1>5, BoundsAssumption
  DEF Delivers, TypeOK, QueueInOrder, TakenBeforeQueued, FetchedLast, HeldOnce, DeliveredOnly, Taken, Queued
<1>6. CASE FetchesNull
  BY <1>1, <1>2, <1>6
  DEF FetchesNull, TypeOK, QueueInOrder, TakenBeforeQueued, FetchedLast, HeldOnce, DeliveredOnly, Taken, Queued
<1>7. CASE Pushes
  <2> DEFINE n == Len(queue) + 1
  <2>1. /\ fetched \in Requests \cup {Phantom} /\ n \in Nat
        /\ fetched' = NoRequest /\ held' = held /\ finished' = finished /\ polled' = polled
    BY <1>1, <1>7 DEF Pushes, TypeOK, RequestSeqs
  <2>2. /\ n \in 1 .. Len(queue') /\ queue'[n] = fetched
        /\ \A i \in 1 .. Len(queue') : i = n \/ (i \in 1 .. Len(queue) /\ i < n)
        /\ \A i \in 1 .. Len(queue) : i \in 1 .. Len(queue') /\ queue'[i] = queue[i]
    BY <1>1, <1>7, <2>1, AppendElements DEF Pushes
  <2>3. \A r \in Requests : Queued(r)' <=> Queued(r) \/ fetched = r
    BY <2>2 DEF Queued
  <2>4. \A r \in Requests : Taken(r)' <=> Taken(r)
    BY <2>1 DEF Taken
  <2> HIDE DEF n
  <2>5. QueueInOrder'
    <3> SUFFICES ASSUME NEW i \in 1 .. Len(queue'), NEW j \in 1 .. Len(queue'),
                        i < j, queue'[j] \in Requests
                 PROVE  queue'[i] < queue'[j]
      BY DEF QueueInOrder
    <3>1. i \in 1 .. Len(queue) /\ queue'[i] = queue[i]
      BY <2>1, <2>2
    <3>2. CASE j # n
      BY <1>2, <2>2, <3>1, <3>2 DEF QueueInOrder
    <3>3. CASE j = n /\ queue[i] \in Requests
      BY <1>2, <2>1, <2>2, <3>1, <3>3 DEF FetchedLast, Queued
    <3>4. CASE j = n /\ queue[i] \notin Requests
      BY <1>1, <2>1, <2>2, <3>1, <3>4 DEF TypeOK, RequestSeqs
    <3>5. QED BY <3>2, <3>3, <3>4
  <2>6. TakenBeforeQueued'
    <3> SUFFICES ASSUME NEW i \in 1 .. Len(queue'), queue'[i] \in Requests
                 PROVE  queue'[i] <= polled /\ \A r \in Requests : Taken(r) => r < queue'[i]
      BY <2>1, <2>4 DEF TakenBeforeQueued
    <3>1. CASE i # n
      BY <1>2, <2>2, <3>1 DEF TakenBeforeQueued
    <3>2. CASE i = n
      BY <1>1, <1>2, <2>2, <3>2 DEF FetchedLast, TypeOK
    <3>3. QED BY <3>1, <3>2
  <2>7. FetchedLast'
    BY <2>1 DEF FetchedLast
  <2>8. HeldOnce'
    BY <1>2, <2>1 DEF HeldOnce
  <2>9. DeliveredOnly'
    BY <1>2, <2>1, <2>3, <2>4 DEF DeliveredOnly
  <2>10. QED BY <2>5, <2>6, <2>7, <2>8, <2>9
<1>8. ASSUME queue # <<>>, queue' = Tail(queue), UNCHANGED <<fetched, polled>>,
             \A r \in Requests : Taken(r)' <=> Taken(r) \/ r = Head(queue)
      PROVE  QueueInOrder' /\ TakenBeforeQueued' /\ FetchedLast' /\ DeliveredOnly'
  <2>1. /\ Head(queue) = queue[1] /\ 1 \in 1 .. Len(queue)
        /\ \A i \in 1 .. Len(queue') : i + 1 \in 1 .. Len(queue) /\ queue'[i] = queue[i + 1]
        /\ \A i \in 1 .. Len(queue) : i = 1 \/
             (i - 1 \in 1 .. Len(queue') /\ queue[i] = queue'[i - 1])
    BY <1>1, <1>8, TailElements
  <2>2. \A r \in Requests : Queued(r) <=> Queued(r)' \/ r = Head(queue)
    BY <2>1 DEF Queued
  <2>3. QueueInOrder'
    <3> SUFFICES ASSUME NEW i \in 1 .. Len(queue'), NEW j \in 1 .. Len(queue'),
                        i < j, queue'[j] \in Requests
                 PROVE  queue'[i] < queue'[j]
      BY DEF QueueInOrder
    <3>1. i + 1 \in 1 .. Len(queue) /\ j + 1 \in 1 .. Len(queue) /\ i + 1 < j + 1
      BY <2>1
    <3>2. QED BY <1>2, <2>1, <3>1 DEF QueueInOrder
  <2>4. TakenBeforeQueued'
    <3> SUFFICES ASSUME NEW i \in 1 .. Len(queue'), queue'[i] \in Requests
                 PROVE  /\ queue'[i] <= polled
                        /\ \A r \in Requests : Taken(r) \/ r = Head(queue) => r < queue'[i]
      BY <1>8 DEF TakenBeforeQueued
    <3>1. i + 1 \in 1 .. Len(queue) /\ 1 < i + 1 /\ queue[i + 1] = queue'[i]
      BY <2>1
    <3>2. queue[1] < queue'[i]
      BY <1>2, <2>1, <3>1 DEF QueueInOrder
    <3>3. QED BY <1>2, <2>1, <3>1, <3>2 DEF TakenBeforeQueued
  <2>5. FetchedLast'
    BY <1>2, <1>8, <2>2 DEF FetchedLast
  <2>6. DeliveredOnly'
    BY <1>2, <1>8, <2>2 DEF DeliveredOnly
  <2>7. QED BY <2>3, <2>4, <2>5, <2>6
<1>9. Head(queue) \in Requests /\ queue # <<>> => ~Taken(Head(queue))
  BY <1>1, <1>2, TailElements DEF TakenBeforeQueued
<1>10. CASE Destroys
  <2>1. HeldOnce'
    BY <1>2, <1>9, <1>10 DEF Destroys, HeldOnce, Taken
  <2>2. \A r \in Requests : Taken(r)' <=> Taken(r) \/ r = Head(queue)
    BY <1>10 DEF Destroys, Taken
  <2>3. QED BY <1>8, <1>10, <2>1, <2>2 DEF Destroys
<1>11. ASSUME NEW w \in Workers, Takes(w) PROVE Order'
  <2>1. HeldOnce'
    BY <1>1, <1>2, <1>9, <1>11 DEF Takes, TypeOK, HeldOnce, Taken
  <2>2. \A r \in Requests : Taken(r)' <=> Taken(r) \/ r = Head(queue)
    BY <1>1, <1>11 DEF Takes, TypeOK, Taken
  <2>3. QED BY <1>8, <1>11, <2>1, <2>2 DEF Takes
<1>12. ASSUME NEW w \in Workers, Finishes(w) PROVE Order'
  BY <1>1, <1>2, <1>12
  DEF Finishes, TypeOK, QueueInOrder, TakenBeforeQueued, FetchedLast, HeldOnce, DeliveredOnly, Taken, Queued
<1>13. QED BY <1>4, <1>5, <1>6, <1>7, <1>10, <1>11, <1>12, <1>1, RequestMoves


LEMMA OnePlaceInvariant == Spec => []OnePlace
  BY InductiveInvariant, OnePlaceInit, OnePlaceNext, PTL DEF Spec

(* What OnePlace says of the places a request is in.                       *)
LEMMA PlacesOfOne ==
  ASSUME TypeOK, OnePlace, NEW r \in Requests
  PROVE  Cardinality(Places(r)) = IF r <= polled THEN 1 ELSE 0
<1> USE DEF Requests, Phantom, NoRequest, Places
<1>1. \A i, j \in 1 .. Len(queue) : queue[i] = r /\ queue[j] = r => i = j
  BY DEF OnePlace, QueueInOrder, TypeOK, RequestSeqs
<1>2. /\ ~ (Queued(r) /\ Taken(r)) /\ ~ (fetched = r /\ (Queued(r) \/ Taken(r)))
      /\ DOMAIN queue = 1 .. Len(queue)
  <2>1. ~ (Queued(r) /\ Taken(r))
    BY DEF OnePlace, TakenBeforeQueued, Queued
  <2>2. ~ (fetched = r /\ (Queued(r) \/ Taken(r)))
    BY DEF OnePlace, FetchedLast
  <2>3. QED BY <2>1, <2>2 DEF TypeOK, RequestSeqs
<1>3. \A v, w \in Workers : held[v] = r => r \notin finished /\ (held[w] = r => v = w)
  BY DEF OnePlace, HeldOnce
<1>4. r <= polled <=> Taken(r) \/ Queued(r) \/ fetched = r
  BY DEF OnePlace, DeliveredOnly
<1>5. CASE \E i \in 1 .. Len(queue) : queue[i] = r
  <2> PICK i \in 1 .. Len(queue) : queue[i] = r
    BY <1>5
  <2>1. Places(r) = {<<"queue", i>>}
    BY <1>1, <1>2 DEF Queued, Taken
  <2>2. QED BY <1>4, <2>1, FS_Singleton DEF Queued
<1>6. CASE \E w \in Workers : held[w] = r
  <2> PICK w \in Workers : held[w] = r
    BY <1>6
  <2>1. Places(r) = {<<"held", w>>}
    BY <1>2, <1>3 DEF Queued, Taken
  <2>2. QED BY <1>4, <2>1, FS_Singleton DEF Taken
<1>7. CASE fetched = r
  <2>1. Places(r) = {<<"fetched", Recv>>}
    BY <1>2, <1>7 DEF Queued, Taken
  <2>2. QED BY <1>4, <1>7, <2>1, FS_Singleton
<1>8. CASE r \in finished
  <2>1. Places(r) = {<<"finished", Main>>}
    BY <1>2, <1>3, <1>8 DEF Queued, Taken
  <2>2. QED BY <1>4, <1>8, <2>1, FS_Singleton DEF Taken
<1>9. CASE ~Taken(r) /\ ~Queued(r) /\ fetched # r
  <2>1. Places(r) = {}
    BY <1>2, <1>9 DEF Queued, Taken
  <2>2. QED BY <1>4, <1>9, <2>1, FS_EmptySet
<1>10. QED BY <1>5, <1>6, <1>7, <1>8, <1>9 DEF Taken, Queued

(* No request the source delivered is lost, handled by two workers or      *)
(* finished twice, for any number of workers, requests and SIGTERMs.       *)
THEOREM RequestsAreConserved == Spec => []RequestConserved
<1>1. TypeOK /\ OnePlace => RequestConserved
  BY PlacesOfOne DEF RequestConserved
<1>2. QED BY <1>1, TypeCorrect, OnePlaceInvariant, PTL

(* A worker only ever takes a request delivered after all those that were  *)
(* taken before it, by whichever worker.                                   *)
THEOREM RequestsAreTakenInOrder == Spec => TakenInOrder
<1> DEFINE InOrder ==
      \A w \in Workers : \A r \in finished \cup {held[v] : v \in Workers} :
        held[w] = NoRequest /\ held'[w] \in Requests => r < held'[w]
<1>1. IInv /\ OnePlace /\ [Next]_vars => [InOrder]_vars
  <2> SUFFICES ASSUME IInv, OnePlace, [Next]_vars,
                      NEW w \in Workers, NEW r \in finished \cup {held[v] : v \in Workers},
                      held[w] = NoRequest, held'[w] \in Requests
               PROVE  r < held'[w]
    OBVIOUS
  <2>1. TypeOK /\ Hands /\ NoRequest \notin Requests
    BY DEF IInv, OnePlace, Requests, NoRequest
  <2>2. Takes(w)
    <3>1. \E v \in Workers : Takes(v) \/ Finishes(v)
      BY <2>1, RequestMoves DEF Delivers, FetchesNull, Pushes, Destroys
    <3>2. PICK v \in Workers : Takes(v) \/ Finishes(v)
      BY <3>1
    <3>3. QED BY <2>1, <3>2 DEF Takes, Finishes, TypeOK
  <2>3. held'[w] = queue[1] /\ 1 \in 1 .. Len(queue)
    BY <2>1, <2>2, TailElements DEF Takes, TypeOK
  <2>4. CASE r \in Requests
    BY <2>3, <2>4 DEF OnePlace, TakenBeforeQueued, Taken
  <2>5. CASE r \notin Requests
    <3>1. r \in {Phantom, NoRequest}
      BY <2>1, <2>5 DEF TypeOK
    <3>2. QED BY <3>1, BoundsAssumption DEF Requests, Phantom, NoRequest
  <2>6. QED BY <2>4, <2>5
<1>2. QED BY <1>1, InductiveInvariant, OnePlaceInvariant, PTL DEF Spec, TakenInOrder

=============================================================================
