--------------------------- MODULE FcgiPollProofs ---------------------------
(***************************************************************************)
(* Theorems about FcgiPoll, for any set of connections and any number of   *)
(* Stop() calls, interrupts and messages: every PollRequest answers as     *)
(* RequestSource promises, no wake-up is lost, and the thread that drains  *)
(* the wake-up pipe never waits for the mutex it holds itself.             *)
(*                                                                         *)
(* The argument is about who still has to write to the pipe.  m_accept is  *)
(* set once, by Start(); the Stop() that clears it is then bound to write  *)
(* a byte, and any other Stop() may leave that to it.                      *)
(***************************************************************************)
EXTENDS FcgiPoll, FiniteSetTheorems, TLAPS

Steps    == {"out", "outer", "inner", "refresh", "refreshed", "wait", "accepted",
             "drain", "read", "return"}
StopSteps == {"none", "setStop", "testAccept", "clearAccept", "refresh", "lock", "wake"}
ConnStates == {"new", "backlog", "open", "busy", "dropped", "closed"}

TypeOK ==
  /\ m_stop \in BOOLEAN /\ m_accept \in BOOLEAN /\ m_refreshListeners \in BOOLEAN
  /\ m_waking \in BOOLEAN /\ m_block \in BOOLEAN /\ overlap \in BOOLEAN
  /\ m_listeners \subseteq {Listener} /\ m_sockets \subseteq Conns
  /\ polled \subseteq Conns \cup {Listener, WakeSocket}
  /\ mutex \in Threads \cup {Nobody} /\ pipe \in Nat
  /\ main \in {"listen", "clearStop", "accept", "up"}
  /\ pc \in Steps /\ ipcFd \in Conns \cup {Nobody}
  /\ answer \in {"none", "null", "empty", "request"}
  /\ stopping \in [Threads -> StopSteps]
  /\ conn \in [Conns -> ConnStates]
  /\ inbox \in [Conns -> {"empty", "request", "bad"}]
  /\ stops \in Nat /\ interrupts \in Nat /\ sends \in [Conns -> Nat]

(* Nothing polls before Start() has returned, and what comes out of the    *)
(* outer loop is a request unless m_stop is set, which it then stays.      *)
Started  == pc # "out" => main = "up"
Answered == pc = "return" => m_stop \/ ipcFd # Nobody

(* m_waking tells whether there is a byte in the pipe, and never more.     *)
OneByte == pipe = IF m_waking THEN 1 ELSE 0

(* A Stop() that found m_accept set, and the byte it wrote or will write.  *)
Wakes(t)  == stopping[t] \in {"clearAccept", "refresh", "lock", "wake"}
AcceptGone ==
  /\ m_accept => main = "up"
  /\ \A t \in Threads : Wakes(t) => main = "up"
  /\ \A t \in Threads : Wakes(t) /\ m_accept => stopping[t] = "clearAccept"
  /\ pipe > 0 \/ pc = "drain" => main = "up" /\ ~m_accept

(* m_wakingMutex is held by whoever is in one of its critical sections.    *)
MutexHeld ==
  /\ \A t \in Threads : stopping[t] = "wake" => mutex = t
  /\ pc = "drain" => mutex = Recv
  /\ pc = "drain" => ~Wakes(Recv)
  /\ \A t \in Threads : mutex = t => stopping[t] = "wake" \/ (t = Recv /\ pc = "drain")

(* m_stop stays set once a Stop() has set it, unless Start() overtook it.  *)
StopKept ==
  ~overlap =>
    /\ main \in {"accept", "up"} =>
         \A t \in Threads : stopping[t] \notin {"none", "setStop"} => m_stop
    /\ main = "up" /\ ~m_accept => m_stop

(* A stopped thread that may block in epoll_wait has a byte in the pipe,   *)
(* or somebody who still has to write it.                                  *)
Looping == pc \in {"inner", "refresh", "refreshed", "wait", "accepted", "drain"}
WakeComes ==
  ~overlap /\ m_stop /\ Looping /\ m_block =>
    pipe > 0 \/ \E t \in Threads : Wakes(t) \/ (stopping[t] = "testAccept" /\ m_accept)

IInv == TypeOK /\ Started /\ Answered /\ OneByte /\ AcceptGone /\ MutexHeld /\ StopKept /\ WakeComes

(* The polling thread never waits for a mutex it holds.                    *)
NoSelfLock == \A t \in Threads : stopping[t] = "lock" => mutex # t

-----------------------------------------------------------------------------

(* Adding an element adds one at most, so a set of three names is smaller  *)
(* than one of four different ones.                                        *)
LEMMA AddAtMostOne ==
  ASSUME NEW S, NEW x, IsFiniteSet(S)
  PROVE  IsFiniteSet(S \cup {x}) /\ Cardinality(S \cup {x}) <= Cardinality(S) + 1
<1>1. Cardinality(S) \in Nat
  BY FS_CardinalityType
<1>2. QED BY <1>1, FS_AddElement

LEMMA AtMostThree ==
  ASSUME NEW a, NEW b, NEW c
  PROVE  Cardinality({a, b}) <= 2 /\ Cardinality({a, b, c}) <= 3
<1>1. IsFiniteSet({a}) /\ Cardinality({a}) = 1
  BY FS_Singleton
<1>2. {a} \cup {b} = {a, b} /\ {a, b} \cup {c} = {a, b, c}
  OBVIOUS
<1>3. IsFiniteSet({a} \cup {b}) /\ Cardinality({a} \cup {b}) <= Cardinality({a}) + 1
  BY <1>1, AddAtMostOne, Zenon
<1>4. IsFiniteSet({a, b}) /\ Cardinality({a, b}) <= 1 + 1
  BY <1>1, <1>2, <1>3, Zenon
<1>5. Cardinality({a, b}) \in Nat
  BY <1>4, FS_CardinalityType
<1>6. /\ IsFiniteSet({a, b} \cup {c})
      /\ Cardinality({a, b} \cup {c}) <= Cardinality({a, b}) + 1
  BY <1>4, AddAtMostOne, Zenon
<1>7. IsFiniteSet({a, b, c}) /\ Cardinality({a, b, c}) <= Cardinality({a, b}) + 1
  BY <1>2, <1>6, Zenon
<1>8. Cardinality({a, b, c}) \in Nat
  BY <1>7, FS_CardinalityType
<1>9. QED BY <1>4, <1>5, <1>7, <1>8

LEMMA ThreadsDistinct ==
  /\ Main # Recv /\ Nobody \notin Threads
  /\ Listener # WakeSocket /\ Listener # Nobody /\ WakeSocket # Nobody
  /\ Conns \cap {Listener, WakeSocket, Nobody} = {}
<1>1. Main # Recv
  <2> SUFFICES ASSUME Main = Recv PROVE FALSE
    OBVIOUS
  <2>1. {Main, Recv, Other, Nobody} = {Main, Other, Nobody}
    OBVIOUS
  <2>2. Cardinality({Main, Recv, Other, Nobody}) <= 3
    BY <2>1, AtMostThree, Zenon
  <2>3. QED BY <2>2, DistinctAssumption
<1>2. Nobody \notin Threads
  <2> SUFFICES ASSUME Nobody \in Threads PROVE FALSE
    OBVIOUS
  <2>1. {Main, Recv, Other, Nobody} = {Main, Recv, Other}
    BY DEF Threads
  <2>2. Cardinality({Main, Recv, Other, Nobody}) <= 3
    BY <2>1, AtMostThree, Zenon
  <2>3. QED BY <2>2, DistinctAssumption
<1>3. Listener # WakeSocket /\ Listener # Nobody /\ WakeSocket # Nobody
  <2> SUFFICES ASSUME NEW x, NEW y, {Listener, WakeSocket, Nobody} = {x, y} PROVE FALSE
    OBVIOUS
  <2>1. Cardinality({Listener, WakeSocket, Nobody}) <= 2
    BY AtMostThree, Zenon
  <2>2. QED BY <2>1, DistinctAssumption
<1>4. QED BY <1>1, <1>2, <1>3, DistinctAssumption

(* Types.                                                                  *)
LEMMA TypeNext ==
  ASSUME TypeOK, [Next]_vars
  PROVE  TypeOK'
<1> USE DEF TypeOK, Threads, Steps, StopSteps, ConnStates, Running, flags, wakeup, epoll, clients, callers
<1>1. CASE StartUp
  <2>1. CASE Listen         BY <2>1 DEF Listen
  <2>2. CASE StartClearStop
    <3>1. (m_stop \in BOOLEAN /\ overlap \in BOOLEAN)'
      BY <2>2, Zenon DEF StartClearStop
    <3>2. QED BY <2>2, <3>1 DEF StartClearStop
  <2>3. CASE StartAccept    BY <2>3 DEF StartAccept
  <2>4. QED BY <1>1, <2>1, <2>2, <2>3 DEF StartUp
<1>2. CASE Poll
  <2> USE DEF PollAt
  <2>1. CASE Call              BY <2>1 DEF Call
  <2>2. CASE OuterLoop         BY <2>2 DEF OuterLoop
  <2>3. CASE InnerLoop         BY <2>3 DEF InnerLoop
  <2>4. CASE RefreshListeners  BY <2>4 DEF RefreshListeners
  <2>5. CASE ClearRefresh
    <3>1. (m_refreshListeners \in BOOLEAN)'
      BY <2>5, Zenon DEF ClearRefresh
    <3>2. QED BY <2>5, <3>1 DEF ClearRefresh
  <2>6. CASE PollNothing       BY <2>6 DEF PollNothing
  <2>7. CASE PollListener      BY <2>7 DEF PollListener
  <2>8. CASE CreateSocket      BY <2>8 DEF CreateSocket, Backlog
  <2>9. CASE PollWake          BY <2>9 DEF PollWake
  <2>10. CASE DrainWake        BY <2>10 DEF DrainWake
  <2>11. CASE ReadSucceeds     BY <2>11 DEF ReadSucceeds
  <2>12. CASE ReadFails        BY <2>12 DEF ReadFails
  <2>13. CASE NothingToRead    BY <2>13 DEF NothingToRead
  <2>14. CASE Return           BY <2>14 DEF Return
  <2>15. ASSUME NEW c \in Conns, PollConn(c) PROVE TypeOK'
    BY <2>15 DEF PollConn
  <2>16. QED
    BY <1>2, <2>1, <2>2, <2>3, <2>4, <2>5, <2>6, <2>7, <2>8, <2>9, <2>10, <2>11, <2>12, <2>13, <2>14, <2>15
    DEF Poll
<1>3. CASE PollInterrupted BY <1>3 DEF PollInterrupted, PollAt
<1>4. ASSUME NEW t \in Threads, CallStop(t) PROVE TypeOK'
  BY <1>4 DEF CallStop
<1>5. ASSUME NEW t \in Threads, Stop(t) PROVE TypeOK'
  <2> USE DEF StopAt
  <2>1. CASE StopSet(t)         BY <2>1 DEF StopSet
  <2>2. CASE StopTestAccept(t)  BY <2>2 DEF StopTestAccept
  <2>3. CASE StopClearAccept(t)
    <3>1. (m_accept \in BOOLEAN)'
      BY <2>3, Zenon DEF StopClearAccept
    <3>2. QED BY <2>3, <3>1 DEF StopClearAccept
  <2>4. CASE StopRefresh(t)     BY <2>4 DEF StopRefresh
  <2>5. CASE WakeLock(t)        BY <2>5, ThreadsDistinct DEF WakeLock
  <2>6. CASE WakeWrite(t)       BY <2>6, ThreadsDistinct DEF WakeWrite
  <2>7. QED BY <1>5, <2>1, <2>2, <2>3, <2>4, <2>5, <2>6 DEF Stop
<1>6. ASSUME NEW c \in Conns, FinishRequest(c) \/ ClientConnect(c) \/ ClientSend(c)
      PROVE  TypeOK'
  BY <1>6 DEF FinishRequest, ClientConnect, ClientSend
<1>7. CASE UNCHANGED vars BY <1>7 DEF vars
<1>8. QED BY <1>1, <1>2, <1>3, <1>4, <1>5, <1>6, <1>7 DEF Next

(* Polling after the start; a byte for m_waking.                           *)
LEMMA OrderNext ==
  ASSUME TypeOK, Started, Answered, OneByte, [Next]_vars
  PROVE  (Started /\ Answered /\ OneByte)'
<1> USE DEF TypeOK, Started, Answered, OneByte, Running, flags, wakeup, epoll, clients, callers
<1>1. CASE StartUp
  <2>1. CASE Listen         BY <2>1 DEF Listen
  <2>2. CASE StartClearStop BY <2>2 DEF StartClearStop
  <2>3. CASE StartAccept    BY <2>3 DEF StartAccept
  <2>4. QED BY <1>1, <2>1, <2>2, <2>3 DEF StartUp
<1>2. CASE Poll
  <2> USE DEF PollAt
  <2>1. CASE Call              BY <2>1 DEF Call
  <2>2. CASE OuterLoop         BY <2>2 DEF OuterLoop
  <2>3. CASE InnerLoop         BY <2>3 DEF InnerLoop
  <2>4. CASE RefreshListeners  BY <2>4 DEF RefreshListeners
  <2>5. CASE ClearRefresh      BY <2>5 DEF ClearRefresh
  <2>6. CASE PollNothing       BY <2>6 DEF PollNothing
  <2>7. CASE PollListener      BY <2>7 DEF PollListener
  <2>8. CASE CreateSocket      BY <2>8 DEF CreateSocket
  <2>9. CASE PollWake          BY <2>9 DEF PollWake
  <2>10. CASE DrainWake        BY <2>10 DEF DrainWake
  <2>11. CASE ReadSucceeds     BY <2>11 DEF ReadSucceeds
  <2>12. CASE ReadFails        BY <2>12 DEF ReadFails
  <2>13. CASE NothingToRead    BY <2>13 DEF NothingToRead
  <2>14. CASE Return           BY <2>14 DEF Return
  <2>15. ASSUME NEW c \in Conns, PollConn(c) PROVE (Started /\ Answered /\ OneByte)'
    BY <2>15 DEF PollConn
  <2>16. QED
    BY <1>2, <2>1, <2>2, <2>3, <2>4, <2>5, <2>6, <2>7, <2>8, <2>9, <2>10, <2>11, <2>12, <2>13, <2>14, <2>15
    DEF Poll
<1>3. CASE PollInterrupted BY <1>3 DEF PollInterrupted, PollAt
<1>4. ASSUME NEW t \in Threads, CallStop(t) PROVE (Started /\ Answered /\ OneByte)'
  BY <1>4 DEF CallStop
<1>5. ASSUME NEW t \in Threads, Stop(t) PROVE (Started /\ Answered /\ OneByte)'
  <2> USE DEF StopAt
  <2>1. CASE StopSet(t)         BY <2>1 DEF StopSet
  <2>2. CASE StopTestAccept(t)  BY <2>2 DEF StopTestAccept
  <2>3. CASE StopClearAccept(t) BY <2>3 DEF StopClearAccept
  <2>4. CASE StopRefresh(t)     BY <2>4 DEF StopRefresh
  <2>5. CASE WakeLock(t)        BY <2>5, ThreadsDistinct DEF WakeLock
  <2>6. CASE WakeWrite(t)       BY <2>6, ThreadsDistinct DEF WakeWrite
  <2>7. QED BY <1>5, <2>1, <2>2, <2>3, <2>4, <2>5, <2>6 DEF Stop
<1>6. ASSUME NEW c \in Conns, FinishRequest(c) \/ ClientConnect(c) \/ ClientSend(c)
      PROVE  (Started /\ Answered /\ OneByte)'
  BY <1>6 DEF FinishRequest, ClientConnect, ClientSend
<1>7. CASE UNCHANGED vars BY <1>7 DEF vars
<1>8. QED BY <1>1, <1>2, <1>3, <1>4, <1>5, <1>6, <1>7 DEF Next

(* Accepting ends once.                                                    *)
LEMMA AcceptGoneNext ==
  ASSUME TypeOK, Started, AcceptGone, [Next]_vars
  PROVE  AcceptGone'
<1> USE DEF TypeOK, Started, AcceptGone, Wakes, Running, flags, wakeup, epoll, clients, callers
<1>1. CASE StartUp
  <2>1. CASE Listen         BY <2>1 DEF Listen
  <2>2. CASE StartClearStop BY <2>2 DEF StartClearStop
  <2>3. CASE StartAccept    BY <2>3 DEF StartAccept
  <2>4. QED BY <1>1, <2>1, <2>2, <2>3 DEF StartUp
<1>2. CASE Poll
  <2> USE DEF PollAt
  <2>1. CASE Call              BY <2>1 DEF Call
  <2>2. CASE OuterLoop         BY <2>2 DEF OuterLoop
  <2>3. CASE InnerLoop         BY <2>3 DEF InnerLoop
  <2>4. CASE RefreshListeners  BY <2>4 DEF RefreshListeners
  <2>5. CASE ClearRefresh      BY <2>5 DEF ClearRefresh
  <2>6. CASE PollNothing       BY <2>6 DEF PollNothing
  <2>7. CASE PollListener      BY <2>7 DEF PollListener
  <2>8. CASE CreateSocket      BY <2>8 DEF CreateSocket
  <2>9. CASE PollWake          BY <2>9, ThreadsDistinct DEF PollWake, Ready
  <2>10. CASE DrainWake        BY <2>10 DEF DrainWake
  <2>11. CASE ReadSucceeds     BY <2>11 DEF ReadSucceeds
  <2>12. CASE ReadFails        BY <2>12 DEF ReadFails
  <2>13. CASE NothingToRead    BY <2>13 DEF NothingToRead
  <2>14. CASE Return           BY <2>14 DEF Return
  <2>15. ASSUME NEW c \in Conns, PollConn(c) PROVE AcceptGone'
    BY <2>15 DEF PollConn
  <2>16. QED
    BY <1>2, <2>1, <2>2, <2>3, <2>4, <2>5, <2>6, <2>7, <2>8, <2>9, <2>10, <2>11, <2>12, <2>13, <2>14, <2>15
    DEF Poll
<1>3. CASE PollInterrupted BY <1>3 DEF PollInterrupted, PollAt
<1>4. ASSUME NEW t \in Threads, CallStop(t) PROVE AcceptGone'
  BY <1>4 DEF CallStop
<1>5. ASSUME NEW t \in Threads, Stop(t) PROVE AcceptGone'
  <2> USE DEF StopAt
  <2>1. CASE StopSet(t)         BY <2>1 DEF StopSet
  <2>2. CASE StopTestAccept(t)  BY <2>2 DEF StopTestAccept
  <2>3. CASE StopClearAccept(t) BY <2>3 DEF StopClearAccept
  <2>4. CASE StopRefresh(t)     BY <2>4 DEF StopRefresh
  <2>5. CASE WakeLock(t)        BY <2>5, ThreadsDistinct DEF WakeLock
  <2>6. CASE WakeWrite(t)       BY <2>6, ThreadsDistinct DEF WakeWrite
  <2>7. QED BY <1>5, <2>1, <2>2, <2>3, <2>4, <2>5, <2>6 DEF Stop
<1>6. ASSUME NEW c \in Conns, FinishRequest(c) \/ ClientConnect(c) \/ ClientSend(c)
      PROVE  AcceptGone'
  BY <1>6 DEF FinishRequest, ClientConnect, ClientSend
<1>7. CASE UNCHANGED vars BY <1>7 DEF vars
<1>8. QED BY <1>1, <1>2, <1>3, <1>4, <1>5, <1>6, <1>7 DEF Next

(* The mutex has one owner.                                                *)
LEMMA MutexHeldNext ==
  ASSUME TypeOK, AcceptGone, MutexHeld, [Next]_vars
  PROVE  MutexHeld'
<1> USE DEF TypeOK, AcceptGone, MutexHeld, Wakes, Running, flags, wakeup, epoll, clients, callers
<1>1. CASE StartUp
  <2>1. CASE Listen         BY <2>1 DEF Listen
  <2>2. CASE StartClearStop BY <2>2 DEF StartClearStop
  <2>3. CASE StartAccept    BY <2>3 DEF StartAccept
  <2>4. QED BY <1>1, <2>1, <2>2, <2>3 DEF StartUp
<1>2. CASE Poll
  <2> USE DEF PollAt
  <2>1. CASE Call              BY <2>1, ThreadsDistinct DEF Call
  <2>2. CASE OuterLoop         BY <2>2, ThreadsDistinct DEF OuterLoop
  <2>3. CASE InnerLoop         BY <2>3, ThreadsDistinct DEF InnerLoop
  <2>4. CASE RefreshListeners  BY <2>4, ThreadsDistinct DEF RefreshListeners
  <2>5. CASE ClearRefresh      BY <2>5, ThreadsDistinct DEF ClearRefresh
  <2>6. CASE PollNothing       BY <2>6, ThreadsDistinct DEF PollNothing
  <2>7. CASE PollListener      BY <2>7, ThreadsDistinct DEF PollListener
  <2>8. CASE CreateSocket      BY <2>8, ThreadsDistinct DEF CreateSocket
  <2>9. CASE PollWake          BY <2>9, ThreadsDistinct DEF PollWake
  <2>10. CASE DrainWake        BY <2>10, ThreadsDistinct DEF DrainWake
  <2>11. CASE ReadSucceeds     BY <2>11, ThreadsDistinct DEF ReadSucceeds
  <2>12. CASE ReadFails        BY <2>12, ThreadsDistinct DEF ReadFails
  <2>13. CASE NothingToRead    BY <2>13, ThreadsDistinct DEF NothingToRead
  <2>14. CASE Return           BY <2>14, ThreadsDistinct DEF Return
  <2>15. ASSUME NEW c \in Conns, PollConn(c) PROVE MutexHeld'
    BY <2>15, ThreadsDistinct DEF PollConn
  <2>16. QED
    BY <1>2, <2>1, <2>2, <2>3, <2>4, <2>5, <2>6, <2>7, <2>8, <2>9, <2>10, <2>11, <2>12, <2>13, <2>14, <2>15
    DEF Poll
<1>3. CASE PollInterrupted BY <1>3 DEF PollInterrupted, PollAt
<1>4. ASSUME NEW t \in Threads, CallStop(t) PROVE MutexHeld'
  BY <1>4 DEF CallStop
<1>5. ASSUME NEW t \in Threads, Stop(t) PROVE MutexHeld'
  <2> USE DEF StopAt
  <2>1. CASE StopSet(t)         BY <2>1 DEF StopSet
  <2>2. CASE StopTestAccept(t)
    <3>1. \A s \in Threads : stopping'[s] = IF s = t THEN stopping'[t] ELSE stopping[s]
      BY <2>2 DEF StopTestAccept
    <3>2. Wakes(t)' => m_accept
      BY <2>2 DEF StopTestAccept
    <3>3. UNCHANGED <<mutex, pc>> /\ stopping[t] = "testAccept" /\ stopping'[t] # "wake"
      BY <2>2 DEF StopTestAccept
    <3>4. QED BY <3>1, <3>2, <3>3 DEF Threads
  <2>3. CASE StopClearAccept(t) BY <2>3 DEF StopClearAccept
  <2>4. CASE StopRefresh(t)     BY <2>4 DEF StopRefresh
  <2>5. CASE WakeLock(t)
    <3>1. \A s \in Threads : stopping'[s] = IF s = t THEN "wake" ELSE stopping[s]
      BY <2>5 DEF WakeLock
    <3>2. mutex = Nobody /\ mutex' = t /\ pc' = pc /\ stopping[t] = "lock"
      BY <2>5 DEF WakeLock
    <3>3. QED BY <3>1, <3>2, ThreadsDistinct DEF Threads
  <2>6. CASE WakeWrite(t)       BY <2>6, ThreadsDistinct DEF WakeWrite
  <2>7. QED BY <1>5, <2>1, <2>2, <2>3, <2>4, <2>5, <2>6 DEF Stop
<1>6. ASSUME NEW c \in Conns, FinishRequest(c) \/ ClientConnect(c) \/ ClientSend(c)
      PROVE  MutexHeld'
  BY <1>6 DEF FinishRequest, ClientConnect, ClientSend
<1>7. CASE UNCHANGED vars BY <1>7 DEF vars
<1>8. QED BY <1>1, <1>2, <1>3, <1>4, <1>5, <1>6, <1>7 DEF Next

(* m_stop stays set.                                                       *)
LEMMA StopKeptNext ==
  ASSUME TypeOK, Started, AcceptGone, StopKept, [Next]_vars
  PROVE  StopKept'
<1> USE DEF TypeOK, Started, AcceptGone, StopKept, Wakes, Running, flags, wakeup, epoll, clients, callers
<1>1. CASE StartUp
  <2>1. CASE Listen         BY <2>1 DEF Listen
  <2>2. CASE StartClearStop BY <2>2 DEF StartClearStop
  <2>3. CASE StartAccept    BY <2>3 DEF StartAccept
  <2>4. QED BY <1>1, <2>1, <2>2, <2>3 DEF StartUp
<1>2. CASE Poll
  <2> USE DEF PollAt
  <2>1. CASE Call              BY <2>1 DEF Call
  <2>2. CASE OuterLoop         BY <2>2 DEF OuterLoop
  <2>3. CASE InnerLoop         BY <2>3 DEF InnerLoop
  <2>4. CASE RefreshListeners  BY <2>4 DEF RefreshListeners
  <2>5. CASE ClearRefresh      BY <2>5 DEF ClearRefresh
  <2>6. CASE PollNothing       BY <2>6 DEF PollNothing
  <2>7. CASE PollListener      BY <2>7 DEF PollListener
  <2>8. CASE CreateSocket      BY <2>8 DEF CreateSocket
  <2>9. CASE PollWake          BY <2>9 DEF PollWake
  <2>10. CASE DrainWake        BY <2>10 DEF DrainWake
  <2>11. CASE ReadSucceeds     BY <2>11 DEF ReadSucceeds
  <2>12. CASE ReadFails        BY <2>12 DEF ReadFails
  <2>13. CASE NothingToRead    BY <2>13 DEF NothingToRead
  <2>14. CASE Return           BY <2>14 DEF Return
  <2>15. ASSUME NEW c \in Conns, PollConn(c) PROVE StopKept'
    BY <2>15 DEF PollConn
  <2>16. QED
    BY <1>2, <2>1, <2>2, <2>3, <2>4, <2>5, <2>6, <2>7, <2>8, <2>9, <2>10, <2>11, <2>12, <2>13, <2>14, <2>15
    DEF Poll
<1>3. CASE PollInterrupted BY <1>3 DEF PollInterrupted, PollAt
<1>4. ASSUME NEW t \in Threads, CallStop(t) PROVE StopKept'
  BY <1>4 DEF CallStop
<1>5. ASSUME NEW t \in Threads, Stop(t) PROVE StopKept'
  <2> USE DEF StopAt
  <2>1. CASE StopSet(t)         BY <2>1 DEF StopSet
  <2>2. CASE StopTestAccept(t)  BY <2>2 DEF StopTestAccept
  <2>3. CASE StopClearAccept(t) BY <2>3 DEF StopClearAccept
  <2>4. CASE StopRefresh(t)     BY <2>4 DEF StopRefresh
  <2>5. CASE WakeLock(t)        BY <2>5, ThreadsDistinct DEF WakeLock
  <2>6. CASE WakeWrite(t)       BY <2>6, ThreadsDistinct DEF WakeWrite
  <2>7. QED BY <1>5, <2>1, <2>2, <2>3, <2>4, <2>5, <2>6 DEF Stop
<1>6. ASSUME NEW c \in Conns, FinishRequest(c) \/ ClientConnect(c) \/ ClientSend(c)
      PROVE  StopKept'
  BY <1>6 DEF FinishRequest, ClientConnect, ClientSend
<1>7. CASE UNCHANGED vars BY <1>7 DEF vars
<1>8. QED BY <1>1, <1>2, <1>3, <1>4, <1>5, <1>6, <1>7 DEF Next

(* Somebody wakes a stopped poller.                                        *)
LEMMA WakeComesNext ==
  ASSUME TypeOK, Started, OneByte, AcceptGone, StopKept, WakeComes, [Next]_vars
  PROVE  WakeComes'
<1> USE DEF TypeOK, Started, OneByte, AcceptGone, StopKept, WakeComes, Wakes, Looping, Running, flags, wakeup, epoll, clients, callers
<1>1. CASE StartUp
  <2>1. CASE Listen         BY <2>1 DEF Listen
  <2>2. CASE StartClearStop BY <2>2 DEF StartClearStop
  <2>3. CASE StartAccept    BY <2>3 DEF StartAccept
  <2>4. QED BY <1>1, <2>1, <2>2, <2>3 DEF StartUp
<1>2. CASE Poll
  <2> USE DEF PollAt
  <2>1. CASE Call              BY <2>1 DEF Call
  <2>2. CASE OuterLoop         BY <2>2 DEF OuterLoop
  <2>3. CASE InnerLoop         BY <2>3 DEF InnerLoop
  <2>4. CASE RefreshListeners  BY <2>4 DEF RefreshListeners
  <2>5. CASE ClearRefresh      BY <2>5 DEF ClearRefresh
  <2>6. CASE PollNothing       BY <2>6 DEF PollNothing
  <2>7. CASE PollListener      BY <2>7 DEF PollListener
  <2>8. CASE CreateSocket      BY <2>8 DEF CreateSocket
  <2>9. CASE PollWake          BY <2>9 DEF PollWake
  <2>10. CASE DrainWake        BY <2>10 DEF DrainWake
  <2>11. CASE ReadSucceeds     BY <2>11 DEF ReadSucceeds
  <2>12. CASE ReadFails        BY <2>12 DEF ReadFails
  <2>13. CASE NothingToRead    BY <2>13 DEF NothingToRead
  <2>14. CASE Return           BY <2>14 DEF Return
  <2>15. ASSUME NEW c \in Conns, PollConn(c) PROVE WakeComes'
    BY <2>15 DEF PollConn
  <2>16. QED
    BY <1>2, <2>1, <2>2, <2>3, <2>4, <2>5, <2>6, <2>7, <2>8, <2>9, <2>10, <2>11, <2>12, <2>13, <2>14, <2>15
    DEF Poll
<1>3. CASE PollInterrupted BY <1>3 DEF PollInterrupted, PollAt
<1>4. ASSUME NEW t \in Threads, CallStop(t) PROVE WakeComes'
  BY <1>4 DEF CallStop
<1>5. ASSUME NEW t \in Threads, Stop(t) PROVE WakeComes'
  <2> USE DEF StopAt
  <2>1. CASE StopSet(t)         BY <2>1 DEF StopSet
  <2>2. CASE StopTestAccept(t)  BY <2>2 DEF StopTestAccept
  <2>3. CASE StopClearAccept(t) BY <2>3 DEF StopClearAccept
  <2>4. CASE StopRefresh(t)     BY <2>4 DEF StopRefresh
  <2>5. CASE WakeLock(t)        BY <2>5, ThreadsDistinct DEF WakeLock
  <2>6. CASE WakeWrite(t)       BY <2>6, ThreadsDistinct DEF WakeWrite
  <2>7. QED BY <1>5, <2>1, <2>2, <2>3, <2>4, <2>5, <2>6 DEF Stop
<1>6. ASSUME NEW c \in Conns, FinishRequest(c) \/ ClientConnect(c) \/ ClientSend(c)
      PROVE  WakeComes'
  BY <1>6 DEF FinishRequest, ClientConnect, ClientSend
<1>7. CASE UNCHANGED vars BY <1>7 DEF vars
<1>8. QED BY <1>1, <1>2, <1>3, <1>4, <1>5, <1>6, <1>7 DEF Next

-----------------------------------------------------------------------------

LEMMA InductiveInvariant == Spec => []IInv
<1>1. Init => IInv
  <2> SUFFICES ASSUME Init PROVE IInv
    OBVIOUS
  <2>1. TypeOK
    BY DEF Init, TypeOK, Threads, Steps, StopSteps, ConnStates
  <2>2. Started /\ Answered /\ OneByte /\ AcceptGone /\ MutexHeld /\ StopKept /\ WakeComes
    BY ThreadsDistinct
    DEF Init, Started, Answered, OneByte, AcceptGone, MutexHeld, StopKept, WakeComes, Wakes, Looping
  <2>3. QED BY <2>1, <2>2 DEF IInv
<1>2. IInv /\ [Next]_vars => IInv'
  BY TypeNext, OrderNext, AcceptGoneNext, MutexHeldNext, StopKeptNext, WakeComesNext DEF IInv
<1>3. QED BY <1>1, <1>2, PTL DEF Spec

(* A stopped polling thread that may sleep in epoll_wait has a byte in the *)
(* pipe once every Stop() has returned, however many there were.           *)
THEOREM NoWakeupIsLost == Spec => []NoLostWakeup
<1>1. IInv => NoLostWakeup
  BY DEF IInv, WakeComes, NoLostWakeup, Looping, Running, Wakes
<1>2. QED BY <1>1, InductiveInvariant, PTL

(* The signal handler's Wake() never waits for m_wakingMutex in the thread *)
(* that holds it: what brings that thread to the mutex is a byte, and the  *)
(* Stop() that wrote it has left no m_accept for another one to find.      *)
THEOREM NoSelfDeadlock == Spec => []NoSelfLock
<1>1. IInv => NoSelfLock
  BY DEF IInv, MutexHeld, NoSelfLock, Wakes
<1>2. QED BY <1>1, InductiveInvariant, PTL

(* Every call of PollRequest answers as RequestSource promises.            *)
THEOREM PollsAsPromised == Spec => ImplementsSource
<1> USE DEF flags, wakeup, epoll, clients, callers
<1>1. Init => Source!Init
  BY DEF Init, Source!Init
<1>2. IInv /\ [Next]_vars => [Source!Next]_(Source!vars)
  <2> SUFFICES ASSUME IInv, [Next]_vars PROVE Source!Next \/ UNCHANGED Source!vars
    OBVIOUS
  <2> USE DEF Source!vars, Source!Next
  <2>1. CASE StartUp
    BY <2>1 DEF StartUp, Listen, StartClearStop, StartAccept, Source!StartSource
  <2>2. CASE Poll
    <3> USE DEF PollAt
    <3>1. CASE Call
      BY <3>1 DEF Call, Source!Call
    <3>2. CASE Return
      <4>1. m_stop \in BOOLEAN /\ (m_stop \/ ipcFd # Nobody)
        BY <3>2 DEF Return, IInv, TypeOK, Answered
      <4>2. CASE m_stop
        BY <3>2, <4>2 DEF Return, Source!ReturnNull
      <4>3. CASE ~m_stop
        BY <3>2, <4>1, <4>3 DEF Return, Source!ReturnRequest
      <4>4. QED BY <4>2, <4>3
    <3>3. QED
      BY <2>2, <3>1, <3>2
      DEF Poll, OuterLoop, InnerLoop, RefreshListeners, ClearRefresh, PollNothing, PollListener,
          CreateSocket, PollWake, DrainWake, PollConn, ReadSucceeds, ReadFails, NothingToRead
  <2>3. CASE PollInterrupted
    BY <2>3 DEF PollInterrupted, PollAt
  <2>4. ASSUME NEW t \in Threads, CallStop(t) PROVE UNCHANGED Source!vars
    BY <2>4 DEF CallStop
  <2>5. ASSUME NEW t \in Threads, Stop(t) PROVE Source!Next \/ UNCHANGED Source!vars
    BY <2>5 DEF Stop, StopSet, StopTestAccept, StopClearAccept, StopRefresh, WakeLock, WakeWrite,
                Source!StopSource
  <2>6. ASSUME NEW c \in Conns, FinishRequest(c) \/ ClientConnect(c) \/ ClientSend(c)
        PROVE  UNCHANGED Source!vars
    BY <2>6 DEF FinishRequest, ClientConnect, ClientSend
  <2>7. CASE UNCHANGED vars BY <2>7 DEF vars
  <2>8. QED BY <2>1, <2>2, <2>3, <2>4, <2>5, <2>6, <2>7 DEF Next
<1>3. QED BY <1>1, <1>2, InductiveInvariant, PTL DEF Spec, ImplementsSource, Source!Spec

=============================================================================
