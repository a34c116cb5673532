--------------------------- MODULE OsLayerProofs ---------------------------
(***************************************************************************)
(* Theorems about OsAsync, for any descriptors and any first table size,   *)
(* about Launch, for any launches and command lines, and about OsAccept,   *)
(* for any clients.                                                        *)
(*                                                                         *)
(* numRdPosted and numWrPosted are kept apart from the sets they count.    *)
(* They agree because a descriptor is posted out of the set of those asked *)
(* for, only when nothing is posted, and because its entry stays in use    *)
(* until it is worked off - or closed, which is the exception.             *)
(*                                                                         *)
(* A launch that is up keeps its path because one launch at a time is on   *)
(* its way to it (Path), unless two were seen to be (raced): what a launch *)
(* finds when it asks who listens there is then still so when it unlinks.  *)
(*                                                                         *)
(* What FCGX_Accept_r serves was approved: a number OS_Accept closed stays *)
(* in its variable, and fails whichever test it is put to again (InHand).  *)
(***************************************************************************)
EXTENDS OsAsync, Launch, OsAccept, FiniteSetTheorems, TLAPS

Places == [at : {"idle", "scan", "callback", "exited"}, fd : Nat, dir : Dirs]

TypeOK ==
  /\ initialized \in BOOLEAN /\ asyncIoInUse \in BOOLEAN
  /\ tableSize \in Nat \ {0} /\ maxFd \in Int
  /\ inUse \in [Dirs -> SUBSET Fds] /\ fdSet \in [Dirs -> SUBSET Fds]
  /\ post \in [Dirs -> SUBSET Fds] /\ ready \in [Dirs -> SUBSET Fds]
  /\ numPosted \in [Dirs -> Int]
  /\ doIo \in Places
  /\ closedPosted \in BOOLEAN /\ unreported \in BOOLEAN

(* The table is empty until it is said to be in use, and between           *)
(* OS_LibShutdown and OS_LibInit.                                          *)
InUse == ~asyncIoInUse \/ ~initialized => \A d \in Dirs : inUse[d] = {}

(* What is asked for is selected on until it is posted.                    *)
Asked == initialized => \A d \in Dirs : fdSet[d] \subseteq inUse[d] /\ fdSet[d] \cap post[d] = {}

Counted ==
  \A d \in Dirs : /\ IsFiniteSet(post[d]) /\ numPosted[d] = Cardinality(post[d])
                  /\ post[d] \subseteq inUse[d] /\ post[d] \subseteq ready[d]
                  /\ \A fd \in inUse[d] : Index(d, fd) < tableSize

IInv == TypeOK /\ InUse /\ (~closedPosted => ~unreported /\ Asked /\ Counted)

-----------------------------------------------------------------------------
(* Operators of the model.                                                  *)

LEMMA IndexIsNat == \A d \in Dirs, fd \in Fds : Index(d, fd) \in Nat
BY FdsAssumption DEF Index

(* A larger table has room for the entry, and for all there were.          *)
LEMMA TableGrows ==
  ASSUME TypeOK, NEW index \in Nat, GrowTable(index)
  PROVE  tableSize' \in Nat \ {0} /\ index < tableSize' /\ tableSize <= tableSize'
<1>1. CASE index < tableSize
  BY <1>1 DEF TypeOK, GrowTable
<1>2. CASE ~(index < tableSize)
  <2>1. tableSize' \in index + 1 .. 2 * index
    BY <1>2 DEF GrowTable
  <2> QED BY <1>2, <2>1 DEF TypeOK
<1> QED BY <1>1, <1>2

(* select() looks at the descriptors up to maxFd, of those there are.      *)
LEMMA DueIsFinite ==
  ASSUME TypeOK, NEW d \in Dirs
  PROVE  /\ IsFiniteSet(Due(d)) /\ Cardinality(Due(d)) \in Nat
         /\ Due(d) \subseteq fdSet[d] /\ Due(d) \subseteq ready[d]
<1>1. Due(d) \subseteq 0 .. maxFd
  <2>1. fdSet[d] \subseteq Nat
    BY FdsAssumption DEF TypeOK
  <2> QED BY <2>1 DEF TypeOK, Due
<1>2. IsFiniteSet(0 .. maxFd)
  BY FS_Interval DEF TypeOK
<1>3. IsFiniteSet(Due(d))
  BY <1>1, <1>2, FS_Subset
<1> QED BY <1>3, FS_CardinalityType DEF Due

LEMMA FollowingPlace == \A p \in Places : Following(p) \in Places
<1> SUFFICES ASSUME NEW p \in Places PROVE Following(p) \in Places
  OBVIOUS
<1>1. CASE p.dir = "rd"
  BY <1>1 DEF Following, Places, Dirs
<1>2. CASE p.dir # "rd"
  <2>1. PICK a \in {"idle", "scan", "callback", "exited"}, fd \in Nat, dir \in Dirs :
          p = [at |-> a, fd |-> fd, dir |-> dir]
    BY DEF Places
  <2>2. Following(p) = [at |-> a, fd |-> fd + 1, dir |-> "rd"]
    BY <1>2, <2>1 DEF Following
  <2> QED BY <2>2 DEF Places, Dirs
<1> QED BY <1>1, <1>2

-----------------------------------------------------------------------------

LEMMA InitInvariant == AsyncInit => IInv
<1> SUFFICES ASSUME AsyncInit PROVE IInv
  OBVIOUS
<1>1. TypeOK
  <2>1. Idle \in Places
    BY DEF Idle, Places, Dirs
  <2>2. tableSize \in Nat \ {0} /\ maxFd \in Int
    BY FdsAssumption DEF AsyncInit
  <2>3. /\ \A f \in {inUse, fdSet, post, ready} : f = [d \in Dirs |-> {}]
        /\ numPosted = [d \in Dirs |-> 0] /\ doIo = Idle
        /\ \A b \in {initialized, asyncIoInUse, closedPosted, unreported} : b = FALSE
    BY Zenon DEF AsyncInit
  <2>4. \A f \in {inUse, fdSet, post, ready} : f \in [Dirs -> SUBSET Fds]
    BY <2>3
  <2>5. numPosted \in [Dirs -> Int]
    BY <2>3
  <2>6. \A b \in {initialized, asyncIoInUse, closedPosted, unreported} : b \in BOOLEAN
    BY <2>3
  <2> QED BY <2>1, <2>2, <2>3, <2>4, <2>5, <2>6, Zenon DEF TypeOK
<1>2. InUse /\ Asked
  BY DEF AsyncInit, InUse, Asked
<1>3. Counted
  BY FS_EmptySet DEF AsyncInit, Counted
<1>4. ~unreported
  BY DEF AsyncInit
<1> QED BY <1>1, <1>2, <1>3, <1>4 DEF IInv

LEMMA TypeStep ==
  ASSUME TypeOK, [AsyncNext]_asyncVars
  PROVE  TypeOK'
<1> USE DEF TypeOK
<1>1. CASE UNCHANGED asyncVars
  BY <1>1 DEF asyncVars
<1>2. CASE OS_LibInit
  BY <1>2 DEF OS_LibInit
<1>3. CASE OS_LibShutdown
  <2>1. closedPosted' \in BOOLEAN
    BY <1>3, Zenon DEF OS_LibShutdown
  <2> QED BY <1>3, <2>1 DEF OS_LibShutdown
<1>4. ASSUME NEW d \in Dirs, NEW fd \in Fds, OS_Async(d, fd) PROVE TypeOK'
  <2>1. tableSize' \in Nat \ {0}
    BY <1>4, IndexIsNat, TableGrows DEF OS_Async
  <2> QED BY <1>4, <2>1, FdsAssumption DEF OS_Async
<1>5. ASSUME NEW fd \in Fds, OS_Close(fd) PROVE TypeOK'
  <2>1. closedPosted' \in BOOLEAN
    BY <1>5, Zenon DEF OS_Close
  <2> QED BY <1>5, <2>1 DEF OS_Close
<1>6. ASSUME NEW fd \in Fds, OS_CloseRead(fd) PROVE TypeOK'
  <2>1. closedPosted' \in BOOLEAN
    BY <1>6, Zenon DEF OS_CloseRead
  <2>2. inUse' \in [Dirs -> SUBSET Fds] /\ fdSet' \in [Dirs -> SUBSET Fds]
    <3>1. CASE fd \in inUse["rd"]
      BY <1>6, <3>1 DEF OS_CloseRead
    <3>2. CASE fd \notin inUse["rd"]
      BY <1>6, <3>2 DEF OS_CloseRead
    <3> QED BY <3>1, <3>2
  <2>3. ready' \in [Dirs -> SUBSET Fds]
    BY <1>6 DEF OS_CloseRead
  <2>4. UNCHANGED <<initialized, asyncIoInUse, tableSize, post, numPosted, maxFd, doIo, unreported>>
    BY <1>6 DEF OS_CloseRead
  <2> QED BY <2>1, <2>2, <2>3, <2>4
<1>7. CASE Select
  <2>1. doIo' \in Places
    BY <1>7 DEF Select, Turn, Idle, Places, Dirs
  <2> QED BY <1>7, <2>1, DueIsFinite DEF Select
<1>8. CASE Dispatch
  <2>1. doIo.dir \in Dirs /\ doIo.fd \in Nat /\ Following(doIo) \in Places
    BY FollowingPlace DEF Places
  <2>2. doIo' \in Places
    BY <1>8, <2>1 DEF Dispatch, Places
  <2>3. unreported' \in BOOLEAN
    BY <1>8, Zenon DEF Dispatch
  <2> QED BY <1>8, <2>1, <2>2, <2>3 DEF Dispatch
<1>9. CASE CallbackReturns
  <2>1. doIo' \in Places
    BY <1>9, FollowingPlace DEF CallbackReturns, Places
  <2> QED BY <1>9, <2>1 DEF CallbackReturns
<1>10. CASE DoIoReturns
  BY <1>10 DEF DoIoReturns, Idle, Places, Dirs
<1>11. CASE BecomeReady
  BY <1>11 DEF BecomeReady
<1>12. CASE SelectFails
  BY <1>12 DEF SelectFails, Idle, Places, Dirs
<1> QED BY <1>1, <1>2, <1>3, <1>4, <1>5, <1>6, <1>7, <1>8, <1>9, <1>10, <1>11, <1>12 DEF AsyncNext, OS_DoIo

LEMMA InUseStep ==
  ASSUME TypeOK, InUse, [AsyncNext]_asyncVars
  PROVE  InUse'
<1>1. CASE UNCHANGED asyncVars
  BY <1>1 DEF asyncVars, InUse
<1>2. CASE OS_LibInit \/ OS_LibShutdown
  BY <1>2 DEF OS_LibInit, OS_LibShutdown, InUse
<1>3. ASSUME NEW fd \in Fds, (\E d \in Dirs : OS_Async(d, fd)) \/ OS_Close(fd) \/ OS_CloseRead(fd)
      PROVE  InUse'
  <2>1. CASE \E d \in Dirs : OS_Async(d, fd)
    BY <2>1 DEF OS_Async, ProgramRuns, InUse
  <2>2. CASE OS_Close(fd)
    BY <2>2 DEF OS_Close, InUse
  <2>3. CASE OS_CloseRead(fd)
    BY <2>3 DEF OS_CloseRead, InUse, TypeOK
  <2> QED BY <1>3, <2>1, <2>2, <2>3
<1>4. CASE OS_DoIo
  <2>1. CASE Select
    BY <2>1 DEF Select, InUse
  <2>2. CASE Dispatch
    BY <2>2 DEF Dispatch, InUse, TypeOK, Places
  <2>3. CASE CallbackReturns \/ DoIoReturns
    BY <2>3 DEF CallbackReturns, DoIoReturns, InUse
  <2>4. CASE SelectFails
    BY <2>4 DEF SelectFails, InUse
  <2> QED BY <1>4, <2>1, <2>2, <2>3, <2>4 DEF OS_DoIo
<1>5. CASE BecomeReady
  BY <1>5 DEF BecomeReady, InUse
<1> QED BY <1>1, <1>2, <1>3, <1>4, <1>5 DEF AsyncNext

(* One descriptor less that is posted, and its counter with it.            *)
LEMMA OneLess ==
  ASSUME NEW S, IsFiniteSet(S), NEW x \in S
  PROVE  IsFiniteSet(S \ {x}) /\ Cardinality(S \ {x}) = Cardinality(S) - 1
BY FS_RemoveElement

LEMMA CountedStep ==
  ASSUME IInv, [AsyncNext]_asyncVars, ~closedPosted'
  PROVE  ~unreported' /\ Asked' /\ Counted'
<1> USE DEF TypeOK
<1>0. TypeOK /\ InUse
  BY DEF IInv
<1>1. ~closedPosted
  <2>1. OS_LibShutdown => ~closedPosted
    BY Zenon DEF OS_LibShutdown
  <2>2. \A fd \in Fds : OS_Close(fd) \/ OS_CloseRead(fd) => ~closedPosted
    BY Zenon DEF OS_Close, OS_CloseRead
  <2> QED BY <2>1, <2>2 DEF AsyncNext, OS_LibInit, OS_Async, OS_DoIo, Select, SelectFails, Dispatch,
                            CallbackReturns, DoIoReturns, BecomeReady, asyncVars
<1>2. ~unreported /\ Asked /\ Counted
  BY <1>1 DEF IInv
<1>3. CASE UNCHANGED <<initialized, fdSet, inUse, post, numPosted, ready, tableSize, unreported>>
  BY <1>2, <1>3 DEF Asked, Counted
<1>4. CASE OS_LibInit
  (* Nothing is posted, so nothing is lost but what is counted as nothing. *)
  <2>1. \A d \in Dirs : post[d] = {}
    BY <1>0, <1>2, <1>4 DEF OS_LibInit, InUse, Counted
  <2> QED BY <1>2, <1>4, <2>1, FS_EmptySet DEF OS_LibInit, Asked, Counted
<1>5. CASE OS_LibShutdown
  <2>1. \A d \in Dirs : post[d] = {}
    BY <1>5, Zenon DEF OS_LibShutdown
  <2> QED BY <1>2, <1>5, <2>1 DEF OS_LibShutdown, Asked, Counted
<1>6. ASSUME NEW d \in Dirs, NEW fd \in Fds, OS_Async(d, fd)
      PROVE  ~unreported' /\ Asked' /\ Counted'
  <2>1. initialized /\ fd \notin inUse[d] /\ fd \notin post[d]
    BY <1>2, <1>6 DEF OS_Async, ProgramRuns, Counted
  <2>2. Asked'
    BY <1>0, <1>2, <1>6, <2>1 DEF OS_Async, Asked
  <2>3. /\ tableSize' \in Nat /\ Index(d, fd) < tableSize' /\ tableSize <= tableSize'
        /\ \A e \in Dirs, f \in Fds : Index(e, f) \in Nat
    BY <1>0, <1>6, IndexIsNat, TableGrows DEF OS_Async
  <2>4. \A e \in Dirs : \A f \in inUse'[e] : Index(e, f) < tableSize'
    BY <1>0, <1>2, <1>6, <2>3 DEF OS_Async, Counted
  <2> QED BY <1>0, <1>2, <1>6, <2>2, <2>4 DEF OS_Async, Counted
<1>7. ASSUME NEW fd \in Fds, OS_Close(fd)
      PROVE  ~unreported' /\ Asked' /\ Counted'
  <2>1. \A d \in Dirs : fd \notin post[d]
    <3>1. CASE asyncIoInUse
      BY <1>7, <3>1, Zenon DEF OS_Close
    <3>2. CASE ~asyncIoInUse
      BY <1>0, <1>2, <3>2 DEF InUse, Counted
    <3> QED BY <3>1, <3>2
  <2>2. /\ UNCHANGED <<initialized, unreported, numPosted, tableSize>>
        /\ \A d \in Dirs : /\ post'[d] = post[d]
                           /\ inUse'[d] \subseteq inUse[d] /\ inUse[d] \ {fd} \subseteq inUse'[d]
                           /\ \/ inUse'[d] = inUse[d] /\ fdSet'[d] = fdSet[d]
                              \/ inUse'[d] = inUse[d] \ {fd} /\ fdSet'[d] = fdSet[d] \ {fd}
                           /\ ready'[d] = ready[d] \ {fd}
    <3>1. CASE asyncIoInUse
      <4>1. \A d \in Dirs : post[d] \ {fd} = post[d]
        BY <2>1
      <4>2. /\ inUse' = [d \in Dirs |-> inUse[d] \ {fd}] /\ fdSet' = [d \in Dirs |-> fdSet[d] \ {fd}]
            /\ post' = [d \in Dirs |-> post[d] \ {fd}] /\ ready' = [d \in Dirs |-> ready[d] \ {fd}]
            /\ UNCHANGED <<initialized, unreported, numPosted, tableSize>>
        BY <1>7, <3>1 DEF OS_Close
      <4> QED BY <4>1, <4>2
    <3>2. CASE ~asyncIoInUse
      BY <1>0, <1>7, <3>2 DEF OS_Close
    <3> QED BY <3>1, <3>2
  <2>3. Asked'
    BY <1>2, <2>2 DEF Asked
  <2>4. Counted'
    BY <1>2, <2>1, <2>2 DEF Counted
  <2> QED BY <1>2, <2>2, <2>3, <2>4
<1>8. ASSUME NEW fd \in Fds, OS_CloseRead(fd)
      PROVE  ~unreported' /\ Asked' /\ Counted'
  <2>1. fd \notin post["rd"]
    BY <1>8, Zenon DEF OS_CloseRead
  <2>2. /\ UNCHANGED <<initialized, unreported, numPosted, tableSize, post>>
        /\ \A d \in Dirs : /\ inUse'[d] \subseteq inUse[d] /\ ready[d] \subseteq ready'[d]
                           /\ \/ inUse'[d] = inUse[d] /\ fdSet'[d] = fdSet[d]
                              \/ d = "rd" /\ inUse'[d] = inUse[d] \ {fd} /\ fdSet'[d] = fdSet[d] \ {fd}
    BY <1>0, <1>8 DEF OS_CloseRead, Dirs
  <2>3. Asked'
    BY <1>2, <2>2 DEF Asked
  <2>4. Counted'
    BY <1>2, <2>1, <2>2 DEF Counted
  <2> QED BY <1>2, <2>2, <2>3, <2>4
<1>9. CASE Select
  <2>1. CASE \A d \in Dirs : numPosted[d] = 0
    <3>1. \A d \in Dirs : post[d] = {}
      BY <1>2, <2>1, FS_EmptySet DEF Counted
    <3>2. /\ UNCHANGED <<initialized, unreported, tableSize, inUse, ready>> /\ initialized
          /\ \A d \in Dirs : /\ numPosted'[d] = Cardinality(Due(d)) /\ post'[d] = Due(d)
                             /\ fdSet'[d] = fdSet[d] \ Due(d)
      <4>1. \A d \in Dirs : post[d] \cup Due(d) = Due(d)
        BY <3>1
      <4> HIDE DEF Due
      <4> QED BY <1>9, <2>1, <4>1 DEF Select
    <3>3. \A d \in Dirs : IsFiniteSet(Due(d)) /\ Due(d) \subseteq fdSet[d] /\ Due(d) \subseteq ready[d]
      BY <1>0, DueIsFinite
    <3> HIDE DEF Due
    <3> QED BY <1>2, <3>2, <3>3 DEF Asked, Counted
  <2>2. CASE ~\A d \in Dirs : numPosted[d] = 0
    <3>1. UNCHANGED <<initialized, fdSet, inUse, post, numPosted, ready, tableSize, unreported>>
      BY <1>9, <2>2 DEF Select
    <3> QED BY <1>3, <3>1
  <2> QED BY <2>1, <2>2
<1>10. CASE Dispatch
  <2> DEFINE d == doIo.dir
             fd == doIo.fd
  <2>0. d \in Dirs
    BY <1>0 DEF Places
  <2>1. CASE fd \in post[d] /\ fd \in inUse[d]
    <3>1. /\ numPosted' = [numPosted EXCEPT ![d] = @ - 1]
          /\ post' = [post EXCEPT ![d] = @ \ {fd}]
          /\ inUse' = [inUse EXCEPT ![d] = @ \ {fd}]
          /\ ready' \in {ready, [ready EXCEPT ![d] = @ \ {fd}]}
          /\ UNCHANGED <<initialized, tableSize, fdSet>>
      BY <1>10, <2>1 DEF Dispatch
    <3>2. ~unreported'
      <4>1. unreported' = (unreported \/ fd \notin ready[d])
        BY <1>10, <2>1, Zenon DEF Dispatch
      <4> QED BY <1>2, <2>0, <2>1, <4>1 DEF Counted
    <3>3. IsFiniteSet(post[d] \ {fd}) /\ Cardinality(post[d] \ {fd}) = Cardinality(post[d]) - 1
      BY <1>2, <2>0, <2>1, OneLess DEF Counted
    <3>4. Asked'
      BY <1>0, <1>2, <2>0, <2>1, <3>1 DEF Asked
    <3>5. Counted'
      <4> SUFFICES ASSUME NEW e \in Dirs
                   PROVE  /\ IsFiniteSet(post'[e]) /\ numPosted'[e] = Cardinality(post'[e])
                          /\ post'[e] \subseteq inUse'[e] /\ post'[e] \subseteq ready'[e]
                          /\ \A f \in inUse'[e] : Index(e, f) < tableSize'
        BY DEF Counted
      <4>1. CASE e = d
        BY <1>0, <1>2, <2>0, <3>1, <3>3, <4>1 DEF Counted
      <4>2. CASE e # d
        BY <1>0, <1>2, <2>0, <3>1, <4>2 DEF Counted
      <4> QED BY <4>1, <4>2
    <3> QED BY <3>2, <3>4, <3>5
  <2>2. CASE ~(fd \in post[d] /\ fd \in inUse[d])
    <3>1. UNCHANGED <<initialized, fdSet, inUse, post, numPosted, ready, tableSize, unreported>>
      BY <1>10, <2>2 DEF Dispatch
    <3> QED BY <1>3, <3>1
  <2> QED BY <2>1, <2>2
<1>11. CASE BecomeReady
  <2>1. /\ UNCHANGED <<initialized, fdSet, inUse, post, numPosted, tableSize, unreported>>
        /\ \A d \in Dirs : ready[d] \subseteq ready'[d]
    BY <1>0, <1>11 DEF BecomeReady
  <2> QED BY <1>2, <2>1 DEF Asked, Counted
<1>12. CASE CallbackReturns \/ DoIoReturns \/ SelectFails \/ UNCHANGED asyncVars
  <2>1. UNCHANGED <<initialized, fdSet, inUse, post, numPosted, ready, tableSize, unreported>>
    BY <1>12 DEF CallbackReturns, DoIoReturns, SelectFails, asyncVars
  <2> QED BY <1>3, <2>1
<1> QED BY <1>4, <1>5, <1>6, <1>7, <1>8, <1>9, <1>10, <1>11, <1>12 DEF AsyncNext, OS_DoIo

LEMMA NextInvariant == IInv /\ [AsyncNext]_asyncVars => IInv'
BY TypeStep, InUseStep, CountedStep DEF IInv

LEMMA Invariant == AsyncSpec => []IInv
BY InitInvariant, NextInvariant, PTL DEF AsyncSpec

(* OS_Async, OS_DoIo, its callbacks and the closing of descriptors, in any *)
(* order and from one OS_LibInit to the next: until one of the closings    *)
(* drops a posted operation, the counters count the post sets, and nothing *)
(* is transferred but what select() reported.                              *)
THEOREM CountersAgree == AsyncSpec => []PostedIsDue
<1>1. IInv => PostedIsDue
  BY DEF IInv, Counted, PostedIsDue
<1> QED BY <1>1, Invariant, PTL

-----------------------------------------------------------------------------
(* Launch: how far a launch has come, and whose the path is.               *)

LaunchSteps == {"idle", "port", "probe", "unlink", "bind", "chmod", "listen", "fork", "wait", "connect",
                "serve", "gone"}

LaunchType ==
  /\ how \in [Launchers -> Commands \cup {None}]
  /\ at \in [Launchers -> LaunchSteps]
  /\ node \in Launchers \cup {None, "stale", "directory"}
  /\ tcp \subseteq Launchers /\ up \subseteq Launchers
  /\ holders \in [Launchers -> SUBSET Nat] /\ zero \in [Launchers -> SUBSET Nat]
  /\ left \in [Launchers -> 0 .. MaxForks]
  /\ run \in [Launchers -> [Procs -> {"none", "loading", "serving", "dead"}]]
  /\ reached \in [Launchers -> Launchers \cup {None}]
  /\ raced \in BOOLEAN

OnPort(l)    == how[l].program = "server" /\ how[l].port
OnPath(l)    == at[l] \in {"unlink", "bind", "chmod"} \/ (at[l] = "listen" /\ ~OnPort(l))
IsGateway(l) == how[l] # None /\ how[l].program = "gateway"
Alone(l)     == \A m \in Launchers \ {l} : ~IsGateway(m)

(* How far a launch has come, and what is open by then.                    *)
Come(l) ==
  /\ at[l] = "idle" <=> how[l] = None
  /\ at[l] = "port" => OnPort(l)
  /\ at[l] \in {"probe", "unlink", "bind", "chmod"} => ~OnPort(l)
  /\ at[l] \in {"probe", "chmod", "wait", "serve"} => ~IsGateway(l)
  /\ at[l] = "connect" => IsGateway(l)
  /\ at[l] \in {"chmod", "listen", "fork", "wait", "connect"} =>
       0 \in holders[l] /\ (how[l].zero => 0 \in zero[l])
  /\ at[l] \in {"fork", "wait", "connect", "serve"} => l \in up
  /\ l \in up => at[l] \in {"fork", "wait", "connect", "serve", "gone"}

(* The processes of a launch share its socket.                             *)
Shared(l) ==
  /\ run[l][0] # "none" => at[l] = "serve"
  /\ \A i \in Procs : /\ run[l][i] # "none" => l \in up
                      /\ run[l][i] = "loading" =>
                           i \in holders[l] /\ (how[l].zero => i \in zero[l])
                      /\ run[l][i] = "serving" => ClosesItself(l) \/ i \in holders[l] \cap zero[l]

(* Who listens on the port.                                                *)
Ports == \A l, m \in tcp : Live(l) /\ Live(m) => l = m

(* Whose the path is.                                                      *)
Path ==
  /\ \A l \in Launchers : node = l => how[l] # None /\ ~OnPort(l)
  /\ ~raced => \A l \in Launchers :
       /\ \A m \in Launchers : OnPath(l) /\ OnPath(m) => l = m
       /\ at[l] = "unlink" /\ ~IsGateway(l) => ~Live(node)
       /\ at[l] = "bind" => node \in {None, "directory"}
       /\ at[l] \in {"chmod", "listen"} /\ ~OnPort(l) => node = l
       /\ at[l] \in {"fork", "connect"} /\ IsGateway(l) /\ Alone(l) => node = l

Reached == \A l \in Launchers : reached[l] \in {None, l} \/ raced \/ ~Alone(l)

LaunchInv == LaunchType /\ (\A l \in Launchers : Come(l) /\ Shared(l)) /\ Ports /\ Path /\ Reached

LEMMA LaunchStarts == LaunchInit => LaunchInv
<1> SUFFICES ASSUME LaunchInit PROVE LaunchInv
  OBVIOUS
<1>1. LaunchType
  <2>1. how \in [Launchers -> Commands \cup {None}] /\ at \in [Launchers -> LaunchSteps]
    BY DEF LaunchInit, LaunchSteps
  <2>2. left \in [Launchers -> 0 .. MaxForks] /\ holders \in [Launchers -> SUBSET Nat]
        /\ zero \in [Launchers -> SUBSET Nat]
    BY CommandsAssumption DEF LaunchInit
  <2>3. run \in [Launchers -> [Procs -> {"none", "loading", "serving", "dead"}]]
    BY DEF LaunchInit
  <2> QED BY <2>1, <2>2, <2>3 DEF LaunchInit, LaunchType
<1>2. \A l \in Launchers : Come(l) /\ Shared(l)
  BY CommandsAssumption DEF LaunchInit, Come, Shared, Procs
<1>3. Path
  BY CommandsAssumption DEF LaunchInit, Path, OnPath, IsGateway
<1>4. Reached
  BY DEF LaunchInit, Reached
<1>5. Ports
  BY DEF LaunchInit, Ports
<1> QED BY <1>1, <1>2, <1>3, <1>4, <1>5 DEF LaunchInv

(* One launch changes.                                                      *)
LEMMA SetAt ==
  ASSUME NEW S, NEW f \in [Launchers -> S], NEW l \in Launchers, NEW v, NEW g, g = [f EXCEPT ![l] = v]
  PROVE  \A x \in Launchers : g[x] = IF x = l THEN v ELSE f[x]
OBVIOUS

(* What a process opens, closes, inherits or moves.                        *)
LEMMA OpensAt ==
  ASSUME LaunchType, NEW l \in Launchers, Opens(l)
  PROVE  /\ holders' \in [Launchers -> SUBSET Nat] /\ zero' \in [Launchers -> SUBSET Nat]
         /\ \A x \in Launchers : x # l => holders'[x] = holders[x] /\ zero'[x] = zero[x]
         /\ holders'[l] = {0} /\ (how[l].zero => 0 \in zero'[l])
<1>1. holders' = [holders EXCEPT ![l] = {0}]
  BY Zenon DEF Opens
<1>2. zero' = [zero EXCEPT ![l] = IF how[l].zero THEN {0} ELSE {}]
  BY Zenon DEF Opens
<1> QED BY <1>1, <1>2 DEF LaunchType

LEMMA ClosesAt ==
  ASSUME LaunchType, NEW l \in Launchers, NEW i \in Nat, Closes(l, i)
  PROVE  /\ holders' \in [Launchers -> SUBSET Nat] /\ zero' \in [Launchers -> SUBSET Nat]
         /\ \A x \in Launchers : x # l => holders'[x] = holders[x] /\ zero'[x] = zero[x]
         /\ holders'[l] = holders[l] \ {i} /\ zero'[l] = zero[l] \ {i}
<1>1. holders' = [holders EXCEPT ![l] = @ \ {i}]
  BY Zenon DEF Closes
<1>2. zero' = [zero EXCEPT ![l] = @ \ {i}]
  BY Zenon DEF Closes
<1> QED BY <1>1, <1>2 DEF LaunchType

LEMMA InheritsAt ==
  ASSUME LaunchType, NEW l \in Launchers, NEW i \in Nat, Inherits(l, i)
  PROVE  /\ holders' \in [Launchers -> SUBSET Nat] /\ zero' \in [Launchers -> SUBSET Nat]
         /\ \A x \in Launchers : x # l => holders'[x] = holders[x] /\ zero'[x] = zero[x]
         /\ holders'[l] = holders[l] \cup {i}
         /\ zero'[l] = IF 0 \in zero[l] THEN zero[l] \cup {i} ELSE zero[l]
<1>1. holders' = [holders EXCEPT ![l] = @ \cup {i}]
  BY Zenon DEF Inherits
<1>2. zero' = [zero EXCEPT ![l] = IF 0 \in @ THEN @ \cup {i} ELSE @]
  BY Zenon DEF Inherits
<1> QED BY <1>1, <1>2 DEF LaunchType

LEMMA MovesAt ==
  ASSUME LaunchType, NEW l \in Launchers, NEW i \in Nat, Moves(l, i)
  PROVE  /\ holders' = holders /\ zero' \in [Launchers -> SUBSET Nat]
         /\ \A x \in Launchers : x # l => zero'[x] = zero[x]
         /\ zero'[l] = zero[l] \cup {i}
<1>1. zero' = [zero EXCEPT ![l] = @ \cup {i}] /\ holders' = holders
  BY Zenon DEF Moves
<1> QED BY <1>1 DEF LaunchType

LEMMA ProcNumbers == Procs \subseteq Nat /\ 0 \in Procs
BY CommandsAssumption DEF Procs

(* What a step of one launch leaves alone.                                 *)
Elsewhere(l) ==
  \A x \in Launchers \ {l} :
    /\ how'[x] = how[x] /\ at'[x] = at[x] /\ run'[x] = run[x]
    /\ holders'[x] = holders[x] /\ zero'[x] = zero[x]

LEMMA GoAt ==
  ASSUME LaunchType, NEW l \in Launchers, NEW a, NEW b, Go(l, a, b)
  PROVE  at[l] = a /\ at'[l] = b /\ \A x \in Launchers : x # l => at'[x] = at[x]
<1>1. at[l] = a /\ at' = [at EXCEPT ![l] = b]
  BY Zenon DEF Go
<1> QED BY <1>1, SetAt DEF LaunchType

LEMMA BindPortAt ==
  ASSUME LaunchType, NEW l \in Launchers, BindPort(l)
  PROVE  /\ Elsewhere(l) /\ UNCHANGED <<how, node, up, run, raced>>
         /\ at[l] = "port"
         /\ \/ /\ at'[l] = "listen" /\ tcp' = tcp \cup {l}
               /\ holders'[l] = {0} /\ (how[l].zero => 0 \in zero'[l])
            \/ at'[l] = "gone" /\ UNCHANGED <<tcp, holders, zero>>
<1>1. UNCHANGED <<how, node, up, run, raced>> /\ at[l] = "port"
  BY Zenon DEF BindPort
<1>2. CASE Go(l, "port", "listen") /\ tcp' = tcp \cup {l} /\ Opens(l)
  BY <1>1, <1>2, GoAt, OpensAt DEF Elsewhere
<1>3. CASE Go(l, "port", "gone") /\ UNCHANGED <<tcp, holders, zero>>
  BY <1>1, <1>3, GoAt DEF Elsewhere
<1> QED BY <1>2, <1>3, Zenon DEF BindPort

LEMMA BindPathAt ==
  ASSUME LaunchType, NEW l \in Launchers, BindPath(l)
  PROVE  /\ Elsewhere(l) /\ UNCHANGED <<how, tcp, up, run, raced>>
         /\ at[l] = "bind"
         /\ \/ /\ at'[l] = (IF how[l].program = "gateway" THEN "listen" ELSE "chmod")
               /\ node = None /\ node' = l
               /\ holders'[l] = {0} /\ (how[l].zero => 0 \in zero'[l])
            \/ at'[l] = "gone" /\ UNCHANGED <<node, holders, zero>>
<1>1. UNCHANGED <<how, tcp, up, run, raced>> /\ at[l] = "bind"
  BY Zenon DEF BindPath
<1>2. CASE /\ Go(l, "bind", IF how[l].program = "gateway" THEN "listen" ELSE "chmod")
           /\ node = None /\ node' = l /\ Opens(l)
  BY <1>1, <1>2, GoAt, OpensAt DEF Elsewhere
<1>3. CASE Go(l, "bind", "gone") /\ UNCHANGED <<node, holders, zero>>
  BY <1>1, <1>3, GoAt DEF Elsewhere
<1> QED BY <1>2, <1>3, Zenon DEF BindPath

LEMMA ChmodAt ==
  ASSUME LaunchType, NEW l \in Launchers, Chmod(l)
  PROVE  /\ Elsewhere(l) /\ UNCHANGED <<how, tcp, up, run, raced>>
         /\ at[l] = "chmod"
         /\ \/ at'[l] = "listen" /\ UNCHANGED <<node, holders, zero>>
            \/ /\ at'[l] = "gone" /\ node' = IF node = "directory" THEN node ELSE None
               /\ holders'[l] = holders[l] \ {0} /\ zero'[l] = zero[l] \ {0}
<1>1. UNCHANGED <<how, tcp, up, run, raced>>
  BY Zenon DEF Chmod
<1>2. CASE Go(l, "chmod", "listen") /\ UNCHANGED <<node, holders, zero>>
  BY <1>1, <1>2, GoAt DEF Elsewhere
<1>3. CASE Go(l, "chmod", "gone") /\ node' = (IF node = "directory" THEN node ELSE None) /\ Closes(l, 0)
  BY <1>1, <1>3, GoAt, ClosesAt DEF Elsewhere
<1> QED BY <1>2, <1>3, Zenon DEF Chmod

LEMMA ListenAt ==
  ASSUME LaunchType, NEW l \in Launchers, Listen(l)
  PROVE  /\ Elsewhere(l) /\ UNCHANGED <<how, node, tcp, run, raced>>
         /\ at[l] = "listen"
         /\ \/ /\ at'[l] = "gone" /\ up' = up
               /\ holders'[l] = holders[l] \ {0} /\ zero'[l] = zero[l] \ {0}
            \/ /\ at'[l] = "fork" /\ up' = up \cup {l} /\ UNCHANGED <<holders, zero>>
               /\ l \in tcp => \A s \in tcp \ {l} : ~Live(s)
<1>1. UNCHANGED <<how, node, tcp, run, raced>>
  BY Zenon DEF Listen
<1>2. CASE Go(l, "listen", "gone") /\ up' = up /\ Closes(l, 0)
  BY <1>1, <1>2, GoAt, ClosesAt DEF Elsewhere
<1>3. CASE /\ Go(l, "listen", "fork") /\ up' = up \cup {l} /\ UNCHANGED <<holders, zero>>
           /\ ~(l \in tcp /\ \E s \in tcp \ {l} : Live(s))
  BY <1>1, <1>3, GoAt DEF Elsewhere
<1> QED BY <1>2, <1>3, Zenon DEF Listen

LEMMA ForkChildAt ==
  ASSUME LaunchType, NEW l \in Launchers, ForkChild(l)
  PROVE  /\ Elsewhere(l) /\ UNCHANGED <<how, node, tcp, up, raced>>
         /\ at[l] = "fork" /\ at'[l] = "wait" /\ how[l].program = "server"
         /\ left[l] \in 1 .. MaxForks
         /\ \E i \in Procs \ {0} :
              /\ \A j \in Procs : run'[l][j] = IF j = i THEN "loading" ELSE run[l][j]
              /\ holders'[l] = holders[l] \cup {i}
              /\ zero'[l] = IF 0 \in zero[l] THEN zero[l] \cup {i} ELSE zero[l]
<1>1. /\ UNCHANGED <<how, node, tcp, up, raced>> /\ left[l] > 0 /\ how[l].program = "server"
      /\ Go(l, "fork", "wait") /\ Inherits(l, left[l])
  BY Zenon DEF ForkChild
<1>2. left[l] \in 0 .. MaxForks
  BY DEF LaunchType
<1>3. left[l] \in Nat /\ left[l] \in 1 .. MaxForks /\ left[l] \in Procs \ {0}
  <2>1. left[l] # 0
    <3>1. left[l] > 0
      BY <1>1, Zenon
    <3> QED BY <3>1, <1>2
  <2> QED BY <1>2, <2>1 DEF Procs
<1>4. run' = [run EXCEPT ![l][left[l]] = "loading"]
  BY Zenon DEF ForkChild
<1>5. /\ \A x \in Launchers : x # l => run'[x] = run[x]
      /\ \A j \in Procs : run'[l][j] = IF j = left[l] THEN "loading" ELSE run[l][j]
  BY <1>3, <1>4 DEF LaunchType
<1>6. /\ at[l] = "fork" /\ at'[l] = "wait"
      /\ \A x \in Launchers : x # l => at'[x] = at[x]
  BY <1>1, GoAt
<1>7. /\ holders'[l] = holders[l] \cup {left[l]}
      /\ zero'[l] = IF 0 \in zero[l] THEN zero[l] \cup {left[l]} ELSE zero[l]
      /\ \A x \in Launchers : x # l => holders'[x] = holders[x] /\ zero'[x] = zero[x]
  BY <1>1, <1>3, InheritsAt
<1> QED BY <1>1, <1>3, <1>5, <1>6, <1>7 DEF Elsewhere

LEMMA DoNotForkAt ==
  ASSUME LaunchType, NEW l \in Launchers, DoNotFork(l)
  PROVE  /\ Elsewhere(l) /\ UNCHANGED <<how, node, tcp, up, holders, zero, raced>>
         /\ at[l] = "fork" /\ at'[l] = "serve" /\ how[l].program = "server"
         /\ \A j \in Procs : run'[l][j] = IF j = 0 THEN "loading" ELSE run[l][j]
<1>1. /\ UNCHANGED <<how, node, tcp, up, holders, zero, raced>> /\ how[l].program = "server"
      /\ Go(l, "fork", "serve")
  BY Zenon DEF DoNotFork
<1>2. run' = [run EXCEPT ![l][0] = "loading"]
  BY Zenon DEF DoNotFork
<1>3. /\ \A x \in Launchers : x # l => run'[x] = run[x]
      /\ \A j \in Procs : run'[l][j] = IF j = 0 THEN "loading" ELSE run[l][j]
  BY <1>2, ProcNumbers DEF LaunchType
<1> QED BY <1>1, <1>3, GoAt DEF Elsewhere

LEMMA SpawnReturnsAt ==
  ASSUME LaunchType, NEW l \in Launchers, SpawnReturns(l)
  PROVE  /\ Elsewhere(l) /\ UNCHANGED <<how, node, tcp, up, run, raced>>
         /\ at[l] = "fork" /\ at'[l] = "gone"
         /\ holders'[l] = holders[l] \ {0} /\ zero'[l] = zero[l] \ {0}
<1>1. UNCHANGED <<how, node, tcp, up, run, raced>> /\ Go(l, "fork", "gone") /\ Closes(l, 0)
  BY Zenon DEF SpawnReturns
<1> QED BY <1>1, GoAt, ClosesAt DEF Elsewhere

LEMMA SpawnChildAt ==
  ASSUME LaunchType, NEW l \in Launchers, SpawnChild(l)
  PROVE  /\ Elsewhere(l) /\ UNCHANGED <<how, node, tcp, up, raced>>
         /\ at[l] = "fork" /\ how[l].program = "gateway"
         /\ \/ /\ at'[l] = "connect"
               /\ \A j \in Procs : run'[l][j] = IF j = 1 THEN "loading" ELSE run[l][j]
               /\ holders'[l] = holders[l] \cup {1}
               /\ zero'[l] = IF 0 \in zero[l] THEN zero[l] \cup {1} ELSE zero[l]
            \/ /\ at'[l] = "gone" /\ run' = run
               /\ holders'[l] = holders[l] \ {0} /\ zero'[l] = zero[l] \ {0}
<1>1. UNCHANGED <<how, node, tcp, up, raced>> /\ at[l] = "fork" /\ how[l].program = "gateway"
  BY Zenon DEF SpawnChild
<1>2. CASE /\ at' = [at EXCEPT ![l] = "connect"] /\ run' = [run EXCEPT ![l][1] = "loading"]
           /\ Inherits(l, 1)
  <2>1. at'[l] = "connect" /\ \A x \in Launchers : x # l => at'[x] = at[x]
    <3>1. at' = [at EXCEPT ![l] = "connect"]
      BY <1>2
    <3> QED BY <3>1, SetAt DEF LaunchType
  <2>2. /\ \A x \in Launchers : x # l => run'[x] = run[x]
        /\ \A j \in Procs : run'[l][j] = IF j = 1 THEN "loading" ELSE run[l][j]
    <3>1. run' = [run EXCEPT ![l][1] = "loading"]
      BY <1>2
    <3> QED BY <3>1 DEF LaunchType
  <2>3. /\ holders'[l] = holders[l] \cup {1}
        /\ zero'[l] = IF 0 \in zero[l] THEN zero[l] \cup {1} ELSE zero[l]
        /\ \A x \in Launchers : x # l => holders'[x] = holders[x] /\ zero'[x] = zero[x]
    BY <1>2, InheritsAt
  <2> QED BY <1>1, <2>1, <2>2, <2>3 DEF Elsewhere
<1>3. CASE at' = [at EXCEPT ![l] = "gone"] /\ Closes(l, 0) /\ UNCHANGED run
  <2>1. at'[l] = "gone" /\ \A x \in Launchers : x # l => at'[x] = at[x]
    <3>1. at' = [at EXCEPT ![l] = "gone"]
      BY <1>3
    <3> QED BY <3>1, SetAt DEF LaunchType
  <2>2. run' = run /\ Closes(l, 0)
    BY <1>3
  <2> QED BY <1>1, <2>1, <2>2, ClosesAt DEF Elsewhere
<1> QED BY <1>2, <1>3, Zenon DEF SpawnChild

LEMMA FcgiConnectAt ==
  ASSUME LaunchType, NEW l \in Launchers, FcgiConnect(l)
  PROVE  /\ Elsewhere(l) /\ UNCHANGED <<how, node, tcp, up, run, raced>>
         /\ at[l] = "connect" /\ at'[l] = "gone"
         /\ holders'[l] = holders[l] \ {0} /\ zero'[l] = zero[l] \ {0}
<1>1. UNCHANGED <<how, node, tcp, up, run, raced>> /\ Go(l, "connect", "gone") /\ Closes(l, 0)
  BY Zenon DEF FcgiConnect
<1> QED BY <1>1, GoAt, ClosesAt DEF Elsewhere

LEMMA KillAt ==
  ASSUME LaunchType, NEW l \in Launchers, Kill(l)
  PROVE  /\ Elsewhere(l) /\ UNCHANGED <<how, node, tcp, up, run, raced>>
         /\ at[l] \notin {"idle", "serve", "gone"} /\ at'[l] = "gone"
         /\ holders'[l] = holders[l] \ {0} /\ zero'[l] = zero[l] \ {0}
<1>1. UNCHANGED <<how, node, tcp, up, run, raced>> /\ at[l] \notin {"idle", "serve", "gone"}
      /\ at' = [at EXCEPT ![l] = "gone"] /\ Closes(l, 0)
  BY Zenon DEF Kill
<1>2. at'[l] = "gone" /\ \A x \in Launchers : x # l => at'[x] = at[x]
  BY <1>1, SetAt DEF LaunchType
<1> QED BY <1>1, <1>2, ClosesAt DEF Elsewhere

LEMMA MoveToZeroAt ==
  ASSUME LaunchType, NEW l \in Launchers, NEW i \in Procs, MoveToZero(l, i)
  PROVE  /\ Elsewhere(l) /\ UNCHANGED <<how, at, node, tcp, up, holders, raced>>
         /\ run[l][i] = "loading" /\ how[l].program = "server"
         /\ \A j \in Procs : run'[l][j] = IF j = i THEN "serving" ELSE run[l][j]
         /\ IF how[l].zero THEN zero'[l] = zero[l] ELSE zero'[l] = zero[l] \cup {i}
<1>1. /\ UNCHANGED <<how, at, node, tcp, up, raced>>
      /\ run[l][i] = "loading" /\ how[l].program = "server"
  BY Zenon DEF MoveToZero
<1>4. run' = [run EXCEPT ![l][i] = "serving"]
  BY Zenon DEF MoveToZero
<1>5. /\ \A x \in Launchers : x # l => run'[x] = run[x]
      /\ \A j \in Procs : run'[l][j] = IF j = i THEN "serving" ELSE run[l][j]
  BY <1>4 DEF LaunchType
<1>2. CASE how[l].zero /\ UNCHANGED <<holders, zero>>
  BY <1>1, <1>2, <1>5 DEF Elsewhere
<1>3. CASE ~how[l].zero /\ Moves(l, i)
  BY <1>1, <1>3, <1>5, MovesAt, ProcNumbers DEF Elsewhere
<1> QED BY <1>2, <1>3, Zenon DEF MoveToZero

LEMMA ExecApplicationAt ==
  ASSUME LaunchType, NEW l \in Launchers, NEW i \in Procs, ExecApplication(l, i)
  PROVE  /\ Elsewhere(l) /\ UNCHANGED <<how, at, node, tcp, up, raced>>
         /\ run[l][i] = "loading" /\ how[l].program = "gateway"
         /\ \A j \in Procs : run'[l][j] = IF j = i THEN "serving" ELSE run[l][j]
         /\ IF how[l].zero THEN holders'[l] = holders[l] \ {i} /\ zero'[l] = zero[l] \ {i}
                           ELSE holders' = holders /\ zero'[l] = zero[l] \cup {i}
<1>1. /\ UNCHANGED <<how, at, node, tcp, up, raced>>
      /\ run[l][i] = "loading" /\ how[l].program = "gateway"
  BY Zenon DEF ExecApplication
<1>4. run' = [run EXCEPT ![l][i] = "serving"]
  BY Zenon DEF ExecApplication
<1>5. /\ \A x \in Launchers : x # l => run'[x] = run[x]
      /\ \A j \in Procs : run'[l][j] = IF j = i THEN "serving" ELSE run[l][j]
  BY <1>4 DEF LaunchType
<1>2. CASE how[l].zero /\ Closes(l, i)
  BY <1>1, <1>2, <1>5, ClosesAt, ProcNumbers DEF Elsewhere
<1>3. CASE ~how[l].zero /\ Moves(l, i)
  BY <1>1, <1>3, <1>5, MovesAt, ProcNumbers DEF Elsewhere
<1> QED BY <1>2, <1>3, Zenon DEF ExecApplication

LEMMA DieAt ==
  ASSUME LaunchType, NEW l \in Launchers, NEW i \in Procs, Die(l, i)
  PROVE  /\ Elsewhere(l) /\ UNCHANGED <<how, at, node, tcp, up, raced>>
         /\ run[l][i] \in {"loading", "serving"}
         /\ \A j \in Procs : run'[l][j] = IF j = i THEN "dead" ELSE run[l][j]
         /\ holders'[l] = holders[l] \ {i} /\ zero'[l] = zero[l] \ {i}
<1>1. /\ UNCHANGED <<how, at, node, tcp, up, raced>>
      /\ run[l][i] \in {"loading", "serving"} /\ Closes(l, i)
  BY Zenon DEF Die
<1>4. run' = [run EXCEPT ![l][i] = "dead"]
  BY Zenon DEF Die
<1>5. /\ \A x \in Launchers : x # l => run'[x] = run[x]
      /\ \A j \in Procs : run'[l][j] = IF j = i THEN "dead" ELSE run[l][j]
  BY <1>4 DEF LaunchType
<1> QED BY <1>1, <1>5, ClosesAt, ProcNumbers DEF Elsewhere

LEMMA LaunchTyped ==
  ASSUME LaunchInv, [LaunchNext]_launchVars
  PROVE  LaunchType'
<1> USE CommandsAssumption DEF LaunchType, LaunchSteps, Go, Procs
<1> LaunchType
  BY DEF LaunchInv
<1>1. ASSUME NEW l \in Launchers, Main(l) PROVE LaunchType'
  BY <1>1 DEF Main, CommandType
<1>2. ASSUME NEW l \in Launchers, BindPort(l) PROVE LaunchType'
  <2>1. at' \in [Launchers -> LaunchSteps] /\ tcp' \subseteq Launchers
    BY <1>2 DEF BindPort
  <2>2. holders' \in [Launchers -> SUBSET Nat] /\ zero' \in [Launchers -> SUBSET Nat]
    <3>1. Opens(l) \/ UNCHANGED <<holders, zero>>
      BY <1>2, Zenon DEF BindPort
    <3> QED BY <3>1, OpensAt
  <2> QED BY <1>2, <2>1, <2>2 DEF BindPort
<1>3. ASSUME NEW l \in Launchers, Probe(l) PROVE LaunchType'
  BY <1>3 DEF Probe
<1>4. ASSUME NEW l \in Launchers, Unlink(l) PROVE LaunchType'
  BY <1>4 DEF Unlink
<1>5. ASSUME NEW l \in Launchers, BindPath(l) PROVE LaunchType'
  <2>1. at' \in [Launchers -> LaunchSteps]
    BY <1>5 DEF BindPath
  <2>2. holders' \in [Launchers -> SUBSET Nat] /\ zero' \in [Launchers -> SUBSET Nat]
    <3>1. Opens(l) \/ UNCHANGED <<holders, zero>>
      BY <1>5, Zenon DEF BindPath
    <3> QED BY <3>1, OpensAt
  <2>3. node' \in Launchers \cup {None, "stale", "directory"}
    BY <1>5 DEF BindPath
  <2> QED BY <1>5, <2>1, <2>2, <2>3 DEF BindPath
<1>6. ASSUME NEW l \in Launchers, Chmod(l) PROVE LaunchType'
  <2>1. holders' \in [Launchers -> SUBSET Nat] /\ zero' \in [Launchers -> SUBSET Nat]
    <3>1. Closes(l, 0) \/ UNCHANGED <<holders, zero>>
      BY <1>6, Zenon DEF Chmod
    <3> QED BY <3>1, ClosesAt
  <2> QED BY <1>6, <2>1 DEF Chmod
<1>7. ASSUME NEW l \in Launchers, Listen(l) PROVE LaunchType'
  <2>1. holders' \in [Launchers -> SUBSET Nat] /\ zero' \in [Launchers -> SUBSET Nat]
    <3>1. Closes(l, 0) \/ UNCHANGED <<holders, zero>>
      BY <1>7, Zenon DEF Listen
    <3> QED BY <3>1, ClosesAt
  <2>2. up' \subseteq Launchers /\ at' \in [Launchers -> LaunchSteps]
    BY <1>7 DEF Listen
  <2> QED BY <1>7, <2>1, <2>2 DEF Listen
<1>8. ASSUME NEW l \in Launchers, ForkChild(l) PROVE LaunchType'
  <2>1. holders' \in [Launchers -> SUBSET Nat] /\ zero' \in [Launchers -> SUBSET Nat]
    <3>1. left[l] \in Nat
      BY <1>8, ForkChildAt
    <3>2. Inherits(l, left[l])
      BY <1>8, Zenon DEF ForkChild
    <3> QED BY <3>1, <3>2, InheritsAt
  <2>2. left' \in [Launchers -> 0 .. MaxForks]
    <3>1. left' = [left EXCEPT ![l] = @ - 1]
      BY <1>8, Zenon DEF ForkChild
    <3>2. left[l] \in 1 .. MaxForks
      BY <1>8, ForkChildAt
    <3> QED BY <3>1, <3>2
  <2>3. run' \in [Launchers -> [Procs -> {"none", "loading", "serving", "dead"}]]
    <3>1. run' = [run EXCEPT ![l][left[l]] = "loading"]
      BY <1>8, Zenon DEF ForkChild
    <3> QED BY <3>1
  <2>4. at' \in [Launchers -> LaunchSteps]
    <3>1. at' = [at EXCEPT ![l] = "wait"]
      BY <1>8, Zenon DEF ForkChild, Go
    <3> QED BY <3>1
  <2>5. UNCHANGED <<how, node, tcp, up, reached, raced>>
    BY <1>8, Zenon DEF ForkChild
  <2> QED BY <2>1, <2>2, <2>3, <2>4, <2>5
<1>9. ASSUME NEW l \in Launchers, ForkFails(l) PROVE LaunchType'
  BY <1>9 DEF ForkFails
<1>10. ASSUME NEW l \in Launchers, DoNotFork(l) PROVE LaunchType'
  BY <1>10 DEF DoNotFork
<1>11. ASSUME NEW l \in Launchers, AwaitChild(l) PROVE LaunchType'
  BY <1>11 DEF AwaitChild
<1>12. ASSUME NEW l \in Launchers, SpawnReturns(l) PROVE LaunchType'
  BY <1>12, ClosesAt DEF SpawnReturns
<1>13. ASSUME NEW l \in Launchers, CreateLocalIpcFd(l) PROVE LaunchType'
  <2>1. CASE \E c \in Commands :
               /\ how' = [how EXCEPT ![l] = c] /\ Go(l, "idle", "unlink")
               /\ left' = [left EXCEPT ![l] = c.forks] /\ raced' = (raced \/ Others(l))
               /\ UNCHANGED <<node, tcp, up, holders, run, zero, reached>>
    BY <2>1 DEF CommandType
  <2>2. CASE /\ Go(l, "unlink", "bind") /\ node' = IF node = "directory" THEN node ELSE None
             /\ UNCHANGED <<how, tcp, up, holders, left, run, zero, reached, raced>>
    BY <2>2
  <2> QED BY <1>13, <2>1, <2>2 DEF CreateLocalIpcFd
<1>14. ASSUME NEW l \in Launchers, SpawnChild(l) PROVE LaunchType'
  <2>1. holders' \in [Launchers -> SUBSET Nat] /\ zero' \in [Launchers -> SUBSET Nat]
    <3>1. Inherits(l, 1) \/ Closes(l, 0)
      BY <1>14, Zenon DEF SpawnChild
    <3> QED BY <3>1, InheritsAt, ClosesAt
  <2>2. run' \in [Launchers -> [Procs -> {"none", "loading", "serving", "dead"}]]
    <3>1. CASE run' = [run EXCEPT ![l][1] = "loading"]
      BY <3>1
    <3> QED BY <1>14, <3>1, Zenon DEF SpawnChild, LaunchType
  <2>3. at' \in [Launchers -> LaunchSteps]
    <3>1. CASE at' = [at EXCEPT ![l] = "connect"]
      BY <3>1
    <3>2. CASE at' = [at EXCEPT ![l] = "gone"]
      BY <3>2
    <3> QED BY <1>14, <3>1, <3>2, Zenon DEF SpawnChild
  <2>4. left' \in [Launchers -> 0 .. MaxForks]
    <3>1. left' = [left EXCEPT ![l] = 0]
      BY <1>14, Zenon DEF SpawnChild
    <3>2. 0 \in 0 .. MaxForks
      OBVIOUS
    <3> QED BY <3>1, <3>2
  <2>5. UNCHANGED <<how, node, tcp, up, reached, raced>>
    BY <1>14, Zenon DEF SpawnChild
  <2> QED BY <2>1, <2>2, <2>3, <2>4, <2>5
<1>15. ASSUME NEW l \in Launchers, FcgiConnect(l) PROVE LaunchType'
  BY <1>15, ClosesAt DEF FcgiConnect, Live
<1>16. ASSUME NEW l \in Launchers, NEW i \in Procs, MoveToZero(l, i) PROVE LaunchType'
  <2>1. holders' \in [Launchers -> SUBSET Nat] /\ zero' \in [Launchers -> SUBSET Nat]
    <3>1. Moves(l, i) \/ UNCHANGED <<holders, zero>>
      BY <1>16, Zenon DEF MoveToZero
    <3> QED BY <3>1, MovesAt
  <2> QED BY <1>16, <2>1 DEF MoveToZero
<1>17. ASSUME NEW l \in Launchers, NEW i \in Procs, ExecApplication(l, i) PROVE LaunchType'
  <2>1. holders' \in [Launchers -> SUBSET Nat] /\ zero' \in [Launchers -> SUBSET Nat]
    <3>1. Moves(l, i) \/ Closes(l, i)
      BY <1>17, Zenon DEF ExecApplication
    <3> QED BY <3>1, MovesAt, ClosesAt
  <2> QED BY <1>17, <2>1 DEF ExecApplication
<1>18. ASSUME NEW l \in Launchers, NEW i \in Procs, Die(l, i) PROVE LaunchType'
  BY <1>18, ClosesAt DEF Die
<1>19. ASSUME NEW l \in Launchers, Kill(l) PROVE LaunchType'
  BY <1>19, ClosesAt DEF Kill
<1>20. CASE UNCHANGED launchVars
  BY <1>20 DEF launchVars
<1> QED BY <1>1, <1>2, <1>3, <1>4, <1>5, <1>6, <1>7, <1>8, <1>9, <1>10, <1>11, <1>12, <1>13, <1>14,
           <1>15, <1>16, <1>17, <1>18, <1>19, <1>20 DEF LaunchNext, Bind, Spawn, Gateway

LEMMA ComesOn ==
  ASSUME LaunchInv, [LaunchNext]_launchVars, LaunchType'
  PROVE  \A x \in Launchers : Come(x)'
<1> DEFINE Goal == \A x \in Launchers : Come(x)'
<1> LaunchType /\ \A x \in Launchers : Come(x) /\ Shared(x)
  BY DEF LaunchInv
<1> HIDE DEF Goal
<1>1. ASSUME NEW l \in Launchers, Main(l) PROVE Goal
  <2>1. PICK c \in Commands :
          /\ c.program = "server" /\ how' = [how EXCEPT ![l] = c] /\ UNCHANGED <<up, holders, zero>>
          /\ Go(l, "idle", CASE ~OptionsOK(c) -> "gone" [] c.port -> "port" [] OTHER -> "probe")
    BY <1>1, Zenon DEF Main
  <2>2. how'[l] = c /\ c # None /\ \A x \in Launchers : x # l => how'[x] = how[x]
    BY <2>1, SetAt, CommandsAssumption DEF LaunchType
  <2>3. at'[l] \in {"gone", "port", "probe"} /\ (at'[l] = "port" => c.port) /\ (at'[l] = "probe" => ~c.port)
    BY <2>1, GoAt
  <2> QED BY <2>1, <2>2, <2>3, GoAt DEF Goal, Come, OnPort, IsGateway
<1>2. ASSUME NEW l \in Launchers, BindPort(l) PROVE Goal
  BY <1>2, BindPortAt DEF Goal, Come, OnPort, IsGateway, Elsewhere
<1>3. ASSUME NEW l \in Launchers, Probe(l) PROVE Goal
  BY <1>3, GoAt DEF Probe, Goal, Come, OnPort, IsGateway
<1>4. ASSUME NEW l \in Launchers, Unlink(l) PROVE Goal
  BY <1>4, GoAt DEF Unlink, Goal, Come, OnPort, IsGateway
<1>5. ASSUME NEW l \in Launchers, BindPath(l) PROVE Goal
  BY <1>5, BindPathAt DEF Goal, Come, OnPort, IsGateway, Elsewhere
<1>6. ASSUME NEW l \in Launchers, Chmod(l) PROVE Goal
  BY <1>6, ChmodAt DEF Goal, Come, OnPort, IsGateway, Elsewhere
<1>7. ASSUME NEW l \in Launchers, Listen(l) PROVE Goal
  BY <1>7, ListenAt DEF Goal, Come, OnPort, IsGateway, Elsewhere
<1>8. ASSUME NEW l \in Launchers, ForkChild(l) PROVE Goal
  <2>1. /\ Elsewhere(l) /\ UNCHANGED <<how, up>> /\ at[l] = "fork" /\ at'[l] = "wait"
        /\ how[l].program = "server"
    BY <1>8, ForkChildAt
  <2>2. PICK i \in Procs \ {0} :
          /\ \A j \in Procs : run'[l][j] = IF j = i THEN "loading" ELSE run[l][j]
          /\ holders'[l] = holders[l] \cup {i}
          /\ zero'[l] = IF 0 \in zero[l] THEN zero[l] \cup {i} ELSE zero[l]
    BY <1>8, ForkChildAt
  <2>3. /\ holders[l] \subseteq holders'[l] /\ zero[l] \subseteq zero'[l]
        /\ i \in holders'[l] /\ (0 \in zero[l] => i \in zero'[l])
    BY <2>2
  <2>4. \A j \in Procs : run'[l][j] = IF j = i THEN "loading" ELSE run[l][j]
    BY <2>2
  <2> QED BY <2>1, <2>3, <2>4 DEF Goal, Come, OnPort, IsGateway, Elsewhere
<1>9. ASSUME NEW l \in Launchers, ForkFails(l) PROVE Goal
  BY <1>9, GoAt DEF ForkFails, Goal, Come, OnPort, IsGateway
<1>10. ASSUME NEW l \in Launchers, DoNotFork(l) PROVE Goal
  BY <1>10, DoNotForkAt DEF Goal, Come, OnPort, IsGateway, Elsewhere
<1>11. ASSUME NEW l \in Launchers, AwaitChild(l) PROVE Goal
  BY <1>11, GoAt DEF AwaitChild, Goal, Come, OnPort, IsGateway
<1>12. ASSUME NEW l \in Launchers, SpawnReturns(l) PROVE Goal
  BY <1>12, SpawnReturnsAt DEF Goal, Come, OnPort, IsGateway, Elsewhere
<1>13. ASSUME NEW l \in Launchers, CreateLocalIpcFd(l) PROVE Goal
  <2>1. CASE \E c \in Commands :
               /\ c.program = "gateway" /\ how' = [how EXCEPT ![l] = c] /\ Go(l, "idle", "unlink")
               /\ UNCHANGED <<up, holders, run, zero>>
    <3>1. PICK c \in Commands :
               /\ c.program = "gateway" /\ how' = [how EXCEPT ![l] = c] /\ Go(l, "idle", "unlink")
               /\ UNCHANGED <<up, holders, run, zero>>
      BY <2>1
    <3>2. how'[l] = c /\ c # None /\ \A x \in Launchers : x # l => how'[x] = how[x]
      BY <3>1, SetAt, CommandsAssumption DEF LaunchType
    <3> QED BY <3>1, <3>2, GoAt DEF Goal, Come, OnPort, IsGateway
  <2>2. CASE Go(l, "unlink", "bind") /\ UNCHANGED <<how, up, holders, run, zero>>
    BY <2>2, GoAt DEF Goal, Come, OnPort, IsGateway
  <2> QED BY <1>13, <2>1, <2>2, Zenon DEF CreateLocalIpcFd
<1>14. ASSUME NEW l \in Launchers, SpawnChild(l) PROVE Goal
  <2>1. Elsewhere(l) /\ UNCHANGED <<how, up>> /\ at[l] = "fork" /\ how[l].program = "gateway"
    BY <1>14, SpawnChildAt
  <2>2. CASE /\ at'[l] = "connect"
             /\ \A j \in Procs : run'[l][j] = IF j = 1 THEN "loading" ELSE run[l][j]
             /\ holders'[l] = holders[l] \cup {1}
             /\ zero'[l] = IF 0 \in zero[l] THEN zero[l] \cup {1} ELSE zero[l]
    <3>1. /\ holders[l] \subseteq holders'[l] /\ zero[l] \subseteq zero'[l]
          /\ 1 \in holders'[l] /\ (0 \in zero[l] => 1 \in zero'[l])
      BY <2>2
    <3>2. /\ at'[l] = "connect"
          /\ \A j \in Procs : run'[l][j] = IF j = 1 THEN "loading" ELSE run[l][j]
      BY <2>2
    <3> QED BY <2>1, <3>1, <3>2 DEF Goal, Come, OnPort, IsGateway, Elsewhere
  <2>3. CASE at'[l] = "gone" /\ run' = run /\ holders'[l] = holders[l] \ {0} /\ zero'[l] = zero[l] \ {0}
    BY <2>1, <2>3 DEF Goal, Come, OnPort, IsGateway, Elsewhere
  <2> QED BY <1>14, <2>2, <2>3, SpawnChildAt
<1>15. ASSUME NEW l \in Launchers, FcgiConnect(l) PROVE Goal
  BY <1>15, FcgiConnectAt DEF Goal, Come, OnPort, IsGateway, Elsewhere
<1>16. ASSUME NEW l \in Launchers, Kill(l) PROVE Goal
  BY <1>16, KillAt DEF Goal, Come, OnPort, IsGateway, Elsewhere
<1>17. ASSUME NEW l \in Launchers, NEW i \in Procs, MoveToZero(l, i) PROVE Goal
  BY <1>17, MoveToZeroAt DEF Goal, Come, OnPort, IsGateway, Elsewhere
<1>18. ASSUME NEW l \in Launchers, NEW i \in Procs, ExecApplication(l, i) PROVE Goal
  <2>1. i = 0 => at[l] = "serve"
    BY <1>18, ExecApplicationAt DEF Shared
  <2> QED BY <1>18, <2>1, ExecApplicationAt DEF Goal, Come, OnPort, IsGateway, Elsewhere
<1>19. ASSUME NEW l \in Launchers, NEW i \in Procs, Die(l, i) PROVE Goal
  <2>1. i = 0 => at[l] = "serve"
    BY <1>19, DieAt DEF Shared
  <2> QED BY <1>19, <2>1, DieAt DEF Goal, Come, OnPort, IsGateway, Elsewhere
<1>20. CASE UNCHANGED launchVars
  BY <1>20 DEF launchVars, Goal, Come, OnPort, IsGateway
<1> QED BY <1>1, <1>2, <1>3, <1>4, <1>5, <1>6, <1>7, <1>8, <1>9, <1>10, <1>11, <1>12, <1>13, <1>14,
           <1>15, <1>16, <1>17, <1>18, <1>19, <1>20 DEF LaunchNext, Bind, Spawn, Gateway, Goal

LEMMA SharedStill ==
  ASSUME LaunchInv, [LaunchNext]_launchVars, LaunchType'
  PROVE  \A x \in Launchers : Shared(x)'
<1> DEFINE Goal == \A x \in Launchers : Shared(x)'
<1> LaunchType /\ \A x \in Launchers : Come(x) /\ Shared(x)
  BY DEF LaunchInv
<1> 0 \in Procs
  BY ProcNumbers
<1> HIDE DEF Goal
<1>1. ASSUME NEW l \in Launchers, Main(l) PROVE Goal
  <2>1. PICK c \in Commands :
          /\ c.program = "server" /\ how' = [how EXCEPT ![l] = c] /\ UNCHANGED <<up, holders, zero, run>>
          /\ Go(l, "idle", CASE ~OptionsOK(c) -> "gone" [] c.port -> "port" [] OTHER -> "probe")
    BY <1>1, Zenon DEF Main
  <2>2. \A x \in Launchers : x # l => how'[x] = how[x]
    BY <2>1, SetAt DEF LaunchType
  <2> QED BY <2>1, <2>2, GoAt DEF Goal, Shared, ClosesItself, Come
<1>2. ASSUME NEW l \in Launchers, BindPort(l) PROVE Goal
  BY <1>2, BindPortAt DEF Goal, Shared, ClosesItself, Come, Elsewhere
<1>3. ASSUME NEW l \in Launchers, Probe(l) PROVE Goal
  BY <1>3, GoAt DEF Probe, Goal, Shared, ClosesItself, Come
<1>4. ASSUME NEW l \in Launchers, Unlink(l) PROVE Goal
  BY <1>4, GoAt DEF Unlink, Goal, Shared, ClosesItself, Come
<1>5. ASSUME NEW l \in Launchers, BindPath(l) PROVE Goal
  BY <1>5, BindPathAt DEF Goal, Shared, ClosesItself, Come, Elsewhere
<1>6. ASSUME NEW l \in Launchers, Chmod(l) PROVE Goal
  BY <1>6, ChmodAt DEF Goal, Shared, ClosesItself, Come, Elsewhere
<1>7. ASSUME NEW l \in Launchers, Listen(l) PROVE Goal
  BY <1>7, ListenAt DEF Goal, Shared, ClosesItself, Come, Elsewhere
<1>8. ASSUME NEW l \in Launchers, ForkChild(l) PROVE Goal
  <2>1. /\ Elsewhere(l) /\ UNCHANGED <<how, up>> /\ at[l] = "fork" /\ at'[l] = "wait"
        /\ how[l].program = "server"
    BY <1>8, ForkChildAt
  <2>2. PICK i \in Procs \ {0} :
          /\ \A j \in Procs : run'[l][j] = IF j = i THEN "loading" ELSE run[l][j]
          /\ holders'[l] = holders[l] \cup {i}
          /\ zero'[l] = IF 0 \in zero[l] THEN zero[l] \cup {i} ELSE zero[l]
    BY <1>8, ForkChildAt
  <2>3. /\ holders[l] \subseteq holders'[l] /\ zero[l] \subseteq zero'[l]
        /\ i \in holders'[l] /\ (0 \in zero[l] => i \in zero'[l])
    BY <2>2
  <2>4. \A j \in Procs : run'[l][j] = IF j = i THEN "loading" ELSE run[l][j]
    BY <2>2
  <2> QED BY <2>1, <2>3, <2>4 DEF Goal, Shared, ClosesItself, Come, Elsewhere
<1>9. ASSUME NEW l \in Launchers, ForkFails(l) PROVE Goal
  BY <1>9, GoAt DEF ForkFails, Goal, Shared, ClosesItself, Come
<1>10. ASSUME NEW l \in Launchers, DoNotFork(l) PROVE Goal
  BY <1>10, DoNotForkAt DEF Goal, Shared, ClosesItself, Come, Elsewhere
<1>11. ASSUME NEW l \in Launchers, AwaitChild(l) PROVE Goal
  BY <1>11, GoAt DEF AwaitChild, Goal, Shared, ClosesItself, Come
<1>12. ASSUME NEW l \in Launchers, SpawnReturns(l) PROVE Goal
  BY <1>12, SpawnReturnsAt DEF Goal, Shared, ClosesItself, Come, Elsewhere
<1>13. ASSUME NEW l \in Launchers, CreateLocalIpcFd(l) PROVE Goal
  <2>1. CASE \E c \in Commands :
               /\ c.program = "gateway" /\ how' = [how EXCEPT ![l] = c] /\ Go(l, "idle", "unlink")
               /\ UNCHANGED <<up, holders, run, zero>>
    <3>1. PICK c \in Commands :
               /\ c.program = "gateway" /\ how' = [how EXCEPT ![l] = c] /\ Go(l, "idle", "unlink")
               /\ UNCHANGED <<up, holders, run, zero>>
      BY <2>1
    <3>2. how'[l] = c /\ c # None /\ \A x \in Launchers : x # l => how'[x] = how[x]
      BY <3>1, SetAt, CommandsAssumption DEF LaunchType
    <3> QED BY <3>1, <3>2, GoAt DEF Goal, Shared, ClosesItself, Come
  <2>2. CASE Go(l, "unlink", "bind") /\ UNCHANGED <<how, up, holders, run, zero>>
    BY <2>2, GoAt DEF Goal, Shared, ClosesItself, Come
  <2> QED BY <1>13, <2>1, <2>2, Zenon DEF CreateLocalIpcFd
<1>14. ASSUME NEW l \in Launchers, SpawnChild(l) PROVE Goal
  <2>1. Elsewhere(l) /\ UNCHANGED <<how, up>> /\ at[l] = "fork" /\ how[l].program = "gateway"
    BY <1>14, SpawnChildAt
  <2>2. CASE /\ at'[l] = "connect"
             /\ \A j \in Procs : run'[l][j] = IF j = 1 THEN "loading" ELSE run[l][j]
             /\ holders'[l] = holders[l] \cup {1}
             /\ zero'[l] = IF 0 \in zero[l] THEN zero[l] \cup {1} ELSE zero[l]
    <3>1. /\ holders[l] \subseteq holders'[l] /\ zero[l] \subseteq zero'[l]
          /\ 1 \in holders'[l] /\ (0 \in zero[l] => 1 \in zero'[l])
      BY <2>2
    <3>2. /\ at'[l] = "connect"
          /\ \A j \in Procs : run'[l][j] = IF j = 1 THEN "loading" ELSE run[l][j]
      BY <2>2
    <3> QED BY <2>1, <3>1, <3>2 DEF Goal, Shared, ClosesItself, Come, Elsewhere
  <2>3. CASE at'[l] = "gone" /\ run' = run /\ holders'[l] = holders[l] \ {0} /\ zero'[l] = zero[l] \ {0}
    BY <2>1, <2>3 DEF Goal, Shared, ClosesItself, Come, Elsewhere
  <2> QED BY <1>14, <2>2, <2>3, SpawnChildAt
<1>15. ASSUME NEW l \in Launchers, FcgiConnect(l) PROVE Goal
  BY <1>15, FcgiConnectAt DEF Goal, Shared, ClosesItself, Come, Elsewhere
<1>16. ASSUME NEW l \in Launchers, Kill(l) PROVE Goal
  BY <1>16, KillAt DEF Goal, Shared, ClosesItself, Come, Elsewhere
<1>17. ASSUME NEW l \in Launchers, NEW i \in Procs, MoveToZero(l, i) PROVE Goal
  BY <1>17, MoveToZeroAt DEF Goal, Shared, ClosesItself, Come, Elsewhere
<1>18. ASSUME NEW l \in Launchers, NEW i \in Procs, ExecApplication(l, i) PROVE Goal
  BY <1>18, ExecApplicationAt DEF Goal, Shared, ClosesItself, Come, Elsewhere
<1>19. ASSUME NEW l \in Launchers, NEW i \in Procs, Die(l, i) PROVE Goal
  BY <1>19, DieAt DEF Goal, Shared, ClosesItself, Come, Elsewhere
<1>20. CASE UNCHANGED launchVars
  BY <1>20 DEF launchVars, Goal, Shared, ClosesItself
<1> QED BY <1>1, <1>2, <1>3, <1>4, <1>5, <1>6, <1>7, <1>8, <1>9, <1>10, <1>11, <1>12, <1>13, <1>14,
           <1>15, <1>16, <1>17, <1>18, <1>19, <1>20 DEF LaunchNext, Bind, Spawn, Gateway, Goal

(* Two that are bound to the port do not both come to listen on it.        *)
LEMMA PortsStill ==
  ASSUME LaunchInv, [LaunchNext]_launchVars
  PROVE  Ports'
<1> LaunchType /\ Ports /\ \A x \in Launchers : Come(x) /\ Shared(x)
  BY DEF LaunchInv
<1> DEFINE Goal == Ports'
<1>0. ASSUME UNCHANGED tcp, \A x \in tcp : Live(x)' => Live(x) PROVE Goal
  BY <1>0 DEF Ports
<1> HIDE DEF Goal
<1>1. ASSUME NEW l \in Launchers, Main(l) PROVE Goal
  <2>1. UNCHANGED <<tcp, up, holders>>
    BY <1>1, Zenon DEF Main
  <2> QED BY <2>1, <1>0 DEF Live
<1>2. ASSUME NEW l \in Launchers, BindPort(l) PROVE Goal
  <2>1. l \notin up /\ up' = up
    BY <1>2, BindPortAt DEF Come
  <2>2. tcp' \subseteq tcp \cup {l} /\ \A x \in Launchers \ {l} : Live(x)' = Live(x)
    BY <1>2, BindPortAt DEF Live, Elsewhere
  <2> QED BY <2>1, <2>2 DEF Goal, Ports, Live, LaunchType
<1>3. ASSUME NEW l \in Launchers, Probe(l) PROVE Goal
  <2>1. UNCHANGED <<tcp, up, holders>>
    BY <1>3, Zenon DEF Probe
  <2> QED BY <2>1, <1>0 DEF Live
<1>4. ASSUME NEW l \in Launchers, Unlink(l) PROVE Goal
  <2>1. UNCHANGED <<tcp, up, holders>>
    BY <1>4, Zenon DEF Unlink
  <2> QED BY <2>1, <1>0 DEF Live
<1>5. ASSUME NEW l \in Launchers, BindPath(l) PROVE Goal
  BY <1>5, <1>0, BindPathAt DEF Live, LaunchType, Come, Shared, Elsewhere
<1>6. ASSUME NEW l \in Launchers, Chmod(l) PROVE Goal
  BY <1>6, <1>0, ChmodAt DEF Live, LaunchType, Come, Shared, Elsewhere
<1>7. ASSUME NEW l \in Launchers, Listen(l) PROVE Goal
  <2>1. CASE up' = up /\ holders'[l] = holders[l] \ {0}
    BY <1>7, <2>1, <1>0, ListenAt DEF Live, LaunchType, Elsewhere
  <2>2. CASE /\ up' = up \cup {l} /\ UNCHANGED <<holders, zero>>
             /\ l \in tcp => \A x \in tcp \ {l} : ~Live(x)
    <3>1. tcp' = tcp
      BY <1>7, ListenAt
    <3>2. \A x \in Launchers \ {l} : Live(x)' = Live(x)
      BY <2>2 DEF Live
    <3> QED BY <2>2, <3>1, <3>2 DEF Goal, Ports, LaunchType
  <2> QED BY <1>7, <2>1, <2>2, ListenAt
<1>8. ASSUME NEW l \in Launchers, ForkChild(l) PROVE Goal
  BY <1>8, <1>0, ForkChildAt DEF Live, LaunchType, Come, Shared, Elsewhere
<1>9. ASSUME NEW l \in Launchers, ForkFails(l) PROVE Goal
  <2>1. UNCHANGED <<tcp, up, holders>>
    BY <1>9, Zenon DEF ForkFails
  <2> QED BY <2>1, <1>0 DEF Live
<1>10. ASSUME NEW l \in Launchers, DoNotFork(l) PROVE Goal
  BY <1>10, <1>0, DoNotForkAt DEF Live, LaunchType, Come, Shared, Elsewhere
<1>11. ASSUME NEW l \in Launchers, AwaitChild(l) PROVE Goal
  <2>1. UNCHANGED <<tcp, up, holders>>
    BY <1>11, Zenon DEF AwaitChild
  <2> QED BY <2>1, <1>0 DEF Live
<1>12. ASSUME NEW l \in Launchers, SpawnReturns(l) PROVE Goal
  BY <1>12, <1>0, SpawnReturnsAt DEF Live, LaunchType, Come, Shared, Elsewhere
<1>13. ASSUME NEW l \in Launchers, CreateLocalIpcFd(l) PROVE Goal
  <2>1. UNCHANGED <<tcp, up, holders>>
    BY <1>13, Zenon DEF CreateLocalIpcFd
  <2> QED BY <2>1, <1>0 DEF Live
<1>14. ASSUME NEW l \in Launchers, SpawnChild(l) PROVE Goal
  BY <1>14, <1>0, SpawnChildAt DEF Live, LaunchType, Come, Shared, Elsewhere
<1>15. ASSUME NEW l \in Launchers, FcgiConnect(l) PROVE Goal
  BY <1>15, <1>0, FcgiConnectAt DEF Live, LaunchType, Come, Shared, Elsewhere
<1>16. ASSUME NEW l \in Launchers, Kill(l) PROVE Goal
  BY <1>16, <1>0, KillAt DEF Live, LaunchType, Come, Shared, Elsewhere
<1>17. ASSUME NEW l \in Launchers, NEW i \in Procs, MoveToZero(l, i) PROVE Goal
  BY <1>17, <1>0, MoveToZeroAt DEF Live, LaunchType, Come, Shared, Elsewhere
<1>18. ASSUME NEW l \in Launchers, NEW i \in Procs, ExecApplication(l, i) PROVE Goal
  <2>1. Elsewhere(l) /\ UNCHANGED <<tcp, up>> /\ holders'[l] \subseteq holders[l]
    BY <1>18, ExecApplicationAt
  <2> QED BY <2>1, <1>0 DEF Live, LaunchType, Elsewhere
<1>19. ASSUME NEW l \in Launchers, NEW i \in Procs, Die(l, i) PROVE Goal
  BY <1>19, <1>0, DieAt DEF Live, LaunchType, Come, Shared, Elsewhere
<1>20. CASE UNCHANGED launchVars
  <2>1. UNCHANGED <<tcp, up, holders>>
    BY <1>20 DEF launchVars
  <2> QED BY <2>1, <1>0 DEF Live, Goal
<1> QED BY <1>1, <1>2, <1>3, <1>4, <1>5, <1>6, <1>7, <1>8, <1>9, <1>10, <1>11, <1>12, <1>13, <1>14,
           <1>15, <1>16, <1>17, <1>18, <1>19, <1>20 DEF LaunchNext, Bind, Spawn, Gateway, Goal

LEMMA PathStill ==
  ASSUME LaunchInv, [LaunchNext]_launchVars, LaunchType'
  PROVE  Path'
<1> DEFINE Goal == Path'
<1> HIDE DEF Goal
<1>1. ASSUME NEW l \in Launchers, Main(l) PROVE Goal
  BY <1>1 DEF Main, Go, Goal, LaunchInv, LaunchType, LaunchSteps, Come, Path, OnPath, OnPort,
     IsGateway, Alone, Live, Others
<1>2. ASSUME NEW l \in Launchers, BindPort(l) PROVE Goal
  <2> LaunchType /\ Path /\ \A x \in Launchers : Come(x) /\ Shared(x)
    BY DEF LaunchInv
  <2>1. Elsewhere(l) /\ UNCHANGED <<how, node, up, raced>>
    BY <1>2, BindPortAt
  <2>2. OnPort(l) /\ l \notin up /\ node # l /\ at'[l] \in {"listen", "gone"}
    BY <1>2, BindPortAt DEF Come, Path
  <2>3. Live(node)' => Live(node)
    BY <2>1, <2>2, CommandsAssumption DEF Live, LaunchType, Elsewhere
  <2> QED BY <2>1, <2>2, <2>3 DEF Path, OnPath, OnPort, IsGateway, Alone, Goal, Elsewhere
<1>3. ASSUME NEW l \in Launchers, Probe(l) PROVE Goal
  <2> LaunchType /\ Path /\ \A x \in Launchers : Come(x)
    BY DEF LaunchInv
  <2>1. at[l] = "probe" /\ \A x \in Launchers : at'[x] = IF x = l THEN (IF Live(node) THEN "gone" ELSE "unlink") ELSE at[x]
    <3>1. at[l] = "probe" /\ at' = [at EXCEPT ![l] = (IF Live(node) THEN "gone" ELSE "unlink")]
      BY <1>3, Zenon DEF Probe, Go
    <3> QED BY <3>1, SetAt DEF LaunchType
  <2>2. UNCHANGED <<how, node, up, holders>> /\ raced' = (raced \/ Others(l))
    BY <1>3, Zenon DEF Probe
  <2>3. ~Others(l) => \A x \in Launchers \ {l} : ~OnPath(x)
    BY DEF Others, OnPath
  <2>4. ~OnPath(l) /\ Live(node)' = Live(node) /\ ~OnPort(l)
    BY <2>1, <2>2 DEF OnPath, Live, Come
  <2>5. \A x \in Launchers \ {l} : OnPath(x)' = OnPath(x)
    BY <2>1, <2>2 DEF OnPath, OnPort
  <2> QED BY <2>1, <2>2, <2>3, <2>4, <2>5 DEF Path, OnPort, IsGateway, Alone, Goal, LaunchType
<1>4. ASSUME NEW l \in Launchers, Unlink(l) PROVE Goal
  <2> LaunchType /\ Path /\ \A x \in Launchers : Come(x)
    BY DEF LaunchInv
  <2>1. /\ at[l] = "unlink" /\ IsGateway(l) = FALSE /\ UNCHANGED <<how, up, holders, raced>>
        /\ \/ node = "directory" /\ at' = [at EXCEPT ![l] = "gone"] /\ UNCHANGED node
           \/ node # "directory" /\ at' = [at EXCEPT ![l] = "bind"] /\ node' = None
    BY <1>4 DEF Unlink, Go, IsGateway
  <2>2. /\ node' \in {None, "directory"}
        /\ \A x \in Launchers : at'[x] = at[x] \/ (x = l /\ at'[x] \in {"gone", "bind"})
    BY <2>1 DEF LaunchType
  <2>3. OnPath(l) /\ node' \notin Launchers
    BY <2>1, <2>2, CommandsAssumption DEF OnPath
  <2>4. ~Live(node)'
    BY <2>1, <2>3 DEF Live, LaunchType
  <2>5. ~raced => \A x \in Launchers \ {l} : ~OnPath(x)
    BY <2>3 DEF Path
  <2>6. \A x \in Launchers \ {l} : OnPath(x)' = OnPath(x)
    BY <2>1, <2>2 DEF OnPath, OnPort
  <2>7. ~raced => \A x \in Launchers : IsGateway(x) /\ at[x] \in {"fork", "connect"} => ~Alone(x)
    BY <2>1 DEF Path, Live, Come
  <2> QED BY <2>1, <2>2, <2>3, <2>4, <2>5, <2>6, <2>7 DEF Path, OnPath, OnPort, IsGateway, Alone, Goal
<1>5. ASSUME NEW l \in Launchers, BindPath(l) PROVE Goal
  <2> LaunchType /\ Path /\ \A x \in Launchers : Come(x)
    BY DEF LaunchInv
  <2>1. at[l] = "bind" /\ UNCHANGED <<how, up, raced>>
    BY <1>5, Zenon DEF BindPath
  <2>2. OnPath(l) /\ ~OnPort(l) /\ l \notin up /\ how[l] # None
    BY <2>1 DEF OnPath, Come
  <2>3. ~raced => \A x \in Launchers \ {l} : ~OnPath(x)
    BY <2>2 DEF Path
  <2>4. CASE node = None
    <3>1. /\ node' = l
          /\ \/ at' = [at EXCEPT ![l] = "listen"]
             \/ how[l].program # "gateway" /\ at' = [at EXCEPT ![l] = "chmod"]
      BY <1>5, <2>4 DEF BindPath, Go
    <3>2. \A x \in Launchers : at'[x] = at[x] \/ (x = l /\ at'[x] \in {"listen", "chmod"})
      BY <3>1 DEF LaunchType
    <3>3. ~Live(node)'
      BY <2>1, <2>2, <3>1 DEF Live
    <3>4. \A x \in Launchers \ {l} : OnPath(x)' = OnPath(x)
      BY <2>1, <3>1 DEF OnPath, OnPort, LaunchType
    <3>5. at'[l] \in {"listen", "chmod"}
      BY <3>1 DEF LaunchType
    <3>6. node \notin Launchers
      BY <2>4, CommandsAssumption
    <3>7. ~raced => \A x \in Launchers : IsGateway(x) /\ at[x] \in {"fork", "connect"} => ~Alone(x)
      BY <3>6 DEF Path
    <3> QED BY <2>1, <2>2, <2>3, <3>1, <3>2, <3>3, <3>4, <3>5, <3>7 DEF Path, OnPath, OnPort,
               IsGateway, Alone, Goal
  <2>5. CASE node # None
    <3>1. UNCHANGED <<node, holders>> /\ at' = [at EXCEPT ![l] = "gone"]
      BY <1>5, <2>5, Zenon DEF BindPath, Go
    <3>2. \A x \in Launchers : at'[x] = IF x = l THEN "gone" ELSE at[x]
      BY <3>1, SetAt DEF LaunchType
    <3>3. Live(node)' = Live(node)
      BY <2>1, <3>1 DEF Live
    <3> QED BY <2>1, <3>1, <3>2, <3>3 DEF Path, OnPath, OnPort, IsGateway, Alone, Goal
  <2> QED BY <2>4, <2>5
<1>6. ASSUME NEW l \in Launchers, Chmod(l) PROVE Goal
  <2> LaunchType /\ Path /\ \A x \in Launchers : Come(x)
    BY DEF LaunchInv
  <2>1. at[l] = "chmod" /\ UNCHANGED <<how, up, raced>>
    BY <1>6, Zenon DEF Chmod, Go
  <2>2. OnPath(l) /\ ~OnPort(l) /\ l \notin up /\ how[l] # None /\ ~IsGateway(l)
    BY <2>1 DEF OnPath, Come
  <2>3. ~raced => node = l /\ \A x \in Launchers \ {l} : ~OnPath(x)
    BY <2>1, <2>2 DEF Path
  <2>4. CASE at' = [at EXCEPT ![l] = "listen"] /\ UNCHANGED <<node, holders>>
    <3>1. \A x \in Launchers : at'[x] = IF x = l THEN "listen" ELSE at[x]
      BY <2>4, SetAt DEF LaunchType
    <3>2. Live(node)' = Live(node)
      BY <2>1, <2>4 DEF Live
    <3> QED BY <2>1, <2>2, <2>3, <2>4, <3>1, <3>2 DEF Path, OnPath, OnPort, IsGateway, Alone, Goal
  <2>5. CASE /\ at' = [at EXCEPT ![l] = "gone"]
             /\ node' = IF node = "directory" THEN node ELSE None
    <3>1. \A x \in Launchers : at'[x] = IF x = l THEN "gone" ELSE at[x]
      BY <2>5, SetAt DEF LaunchType
    <3>2. node' \notin Launchers
      BY <2>5, CommandsAssumption
    <3>3. \A x \in Launchers \ {l} : OnPath(x)' = OnPath(x)
      BY <2>1, <3>1 DEF OnPath, OnPort
    <3>4. ~OnPath(l)'
      BY <3>1 DEF OnPath
    <3>5. ~raced => \A x \in Launchers : IsGateway(x) /\ at[x] \in {"fork", "connect"} => ~Alone(x)
      BY <2>1, <2>2, <2>3 DEF Path
    <3> QED BY <2>1, <2>2, <2>3, <3>1, <3>2, <3>3, <3>4, <3>5 DEF Path, OnPath, OnPort, IsGateway,
               Alone, Goal
  <2> QED BY <1>6, <2>4, <2>5, Zenon DEF Chmod, Go
<1>7. ASSUME NEW l \in Launchers, Listen(l) PROVE Goal
  <2> LaunchType /\ Path /\ \A x \in Launchers : Come(x) /\ Shared(x)
    BY DEF LaunchInv
  <2>1. Elsewhere(l) /\ UNCHANGED <<how, node, raced>>
    BY <1>7, ListenAt
  <2>2. at[l] = "listen" /\ at'[l] \in {"gone", "fork"} /\ how[l] # None
    BY <1>7, ListenAt DEF Come
  <2>3. node # l => (Live(node)' => Live(node))
    BY <1>7, <2>1, ListenAt, CommandsAssumption DEF Live, LaunchType, Elsewhere
  <2>4. \A x \in Launchers : OnPath(x)' => OnPath(x)
    BY <2>1, <2>2 DEF OnPath, OnPort, Elsewhere
  <2>5. ~raced /\ node = l => \A x \in Launchers \ {l} : ~(at[x] = "unlink")
    BY <2>2 DEF Path, OnPath
  <2> QED BY <2>1, <2>2, <2>3, <2>4, <2>5 DEF Path, OnPort, IsGateway, Alone, Goal, Elsewhere
<1>8. ASSUME NEW l \in Launchers, ForkChild(l) PROVE Goal
  <2> LaunchType /\ Path /\ \A x \in Launchers : Come(x) /\ Shared(x)
    BY DEF LaunchInv
  <2>1. Elsewhere(l) /\ UNCHANGED <<how, node, up, raced>>
    BY <1>8, ForkChildAt
  <2>2. at[l] = "fork" /\ at'[l] = "wait"
    BY <1>8, ForkChildAt, <2>1 DEF LaunchType
  <2>3. Live(node)' => Live(node)
    <3>1. \A x \in Launchers \ {l} : holders'[x] = holders[x]
      BY <2>1 DEF Elsewhere
    <3>2. holders'[l] # {} /\ l \in up => holders[l] # {}
      BY <1>8, ForkChildAt DEF Come, Shared
    <3>3. node \in up => node \in Launchers
      BY DEF LaunchType
    <3> QED BY <2>1, <3>1, <3>2, <3>3 DEF Live
  <2> QED BY <2>1, <2>2, <2>3 DEF Path, OnPath, OnPort, IsGateway, Alone, Goal, Elsewhere
<1>9. ASSUME NEW l \in Launchers, ForkFails(l) PROVE Goal
  BY <1>9 DEF ForkFails, Go, Goal, LaunchInv, LaunchType, LaunchSteps, Come, Path, OnPath, OnPort,
     IsGateway, Alone, Live, Others
<1>10. ASSUME NEW l \in Launchers, DoNotFork(l) PROVE Goal
  <2> LaunchType /\ Path /\ \A x \in Launchers : Come(x) /\ Shared(x)
    BY DEF LaunchInv
  <2>1. Elsewhere(l) /\ UNCHANGED <<how, node, up, raced>>
    BY <1>10, DoNotForkAt
  <2>2. at[l] = "fork" /\ at'[l] = "serve"
    BY <1>10, DoNotForkAt, <2>1 DEF LaunchType
  <2>3. Live(node)' => Live(node)
    <3>1. \A x \in Launchers \ {l} : holders'[x] = holders[x]
      BY <2>1 DEF Elsewhere
    <3>2. holders'[l] # {} /\ l \in up => holders[l] # {}
      BY <1>10, DoNotForkAt DEF Come, Shared
    <3>3. node \in up => node \in Launchers
      BY DEF LaunchType
    <3> QED BY <2>1, <3>1, <3>2, <3>3 DEF Live
  <2> QED BY <2>1, <2>2, <2>3 DEF Path, OnPath, OnPort, IsGateway, Alone, Goal, Elsewhere
<1>11. ASSUME NEW l \in Launchers, AwaitChild(l) PROVE Goal
  BY <1>11 DEF AwaitChild, Go, Goal, LaunchInv, LaunchType, LaunchSteps, Come, Path, OnPath,
     OnPort, IsGateway, Alone, Live, Others
<1>12. ASSUME NEW l \in Launchers, SpawnReturns(l) PROVE Goal
  <2> LaunchType /\ Path /\ \A x \in Launchers : Come(x) /\ Shared(x)
    BY DEF LaunchInv
  <2>1. Elsewhere(l) /\ UNCHANGED <<how, node, up, raced>>
    BY <1>12, SpawnReturnsAt
  <2>2. at[l] = "fork" /\ at'[l] = "gone"
    BY <1>12, SpawnReturnsAt, <2>1 DEF LaunchType
  <2>3. Live(node)' => Live(node)
    <3>1. \A x \in Launchers \ {l} : holders'[x] = holders[x]
      BY <2>1 DEF Elsewhere
    <3>2. holders'[l] # {} /\ l \in up => holders[l] # {}
      BY <1>12, SpawnReturnsAt DEF Come, Shared
    <3>3. node \in up => node \in Launchers
      BY DEF LaunchType
    <3> QED BY <2>1, <3>1, <3>2, <3>3 DEF Live
  <2> QED BY <2>1, <2>2, <2>3 DEF Path, OnPath, OnPort, IsGateway, Alone, Goal, Elsewhere
<1>13. ASSUME NEW l \in Launchers, CreateLocalIpcFd(l) PROVE Goal
  <2> LaunchType /\ Path /\ \A x \in Launchers : Come(x)
    BY DEF LaunchInv
  <2>1. CASE \E c \in Commands :
               /\ c.program = "gateway" /\ how' = [how EXCEPT ![l] = c] /\ Go(l, "idle", "unlink")
               /\ raced' = (raced \/ Others(l)) /\ UNCHANGED <<node, up, holders>>
    <3>1. PICK c \in Commands :
               /\ c.program = "gateway" /\ how' = [how EXCEPT ![l] = c] /\ Go(l, "idle", "unlink")
               /\ raced' = (raced \/ Others(l)) /\ UNCHANGED <<node, up, holders>>
      BY <2>1
    <3>2. \A x \in Launchers : at'[x] = IF x = l THEN "unlink" ELSE at[x]
      BY <3>1, SetAt DEF LaunchType, Go
    <3>3. \A x \in Launchers : how'[x] = IF x = l THEN c ELSE how[x]
      BY <3>1, SetAt DEF LaunchType
    <3>4. c # None /\ at[l] = "idle" /\ IsGateway(l)' /\ ~OnPort(l)' /\ ~IsGateway(l)
      BY <3>1, <3>3, CommandsAssumption DEF Go, IsGateway, OnPort, Come
    <3>5. ~Others(l) => \A x \in Launchers \ {l} : ~OnPath(x)
      BY DEF Others, OnPath
    <3>6. \A x \in Launchers \ {l} : OnPath(x)' = OnPath(x) /\ OnPort(x)' = OnPort(x) /\ IsGateway(x)' = IsGateway(x)
      BY <3>2, <3>3 DEF OnPath, OnPort, IsGateway
    <3>7. Live(node)' = Live(node)
      BY <3>1 DEF Live
    <3>8. \A x \in Launchers : Alone(x)' => Alone(x)
      BY <3>4, <3>6 DEF Alone
    <3>9. /\ node' = node /\ (~raced' => ~raced /\ ~Others(l)) /\ how'[l] # None
          /\ \A x \in Launchers \ {l} : at'[x] = at[x] /\ how'[x] = how[x]
      BY <3>1, <3>2, <3>3, <3>4
    <3>10. node' = l => FALSE
      BY <3>4, <3>9 DEF Path, Come
    <3>11. \A x \in Launchers : node' = x => how'[x] # None /\ ~OnPort(x)'
      BY <3>6, <3>9, <3>10 DEF Path
    <3>12. ASSUME ~raced' PROVE \A x, y \in Launchers : OnPath(x)' /\ OnPath(y)' => x = y
      BY <3>5, <3>6, <3>9, <3>12 DEF Path
    <3>13. ASSUME ~raced', NEW x \in Launchers, x # l
           PROVE  /\ at'[x] = "unlink" /\ ~IsGateway(x)' => ~Live(node)'
                  /\ at'[x] = "bind" => node' \in {None, "directory"}
                  /\ at'[x] \in {"chmod", "listen"} /\ ~OnPort(x)' => node' = x
                  /\ at'[x] \in {"fork", "connect"} /\ IsGateway(x)' /\ Alone(x)' => node' = x
      BY <3>6, <3>7, <3>8, <3>9, <3>13 DEF Path
    <3>14. at'[l] = "unlink" /\ IsGateway(l)'
      BY <3>2, <3>4
    <3> QED BY <3>11, <3>12, <3>13, <3>14 DEF Path, Goal
  <2>2. CASE /\ IsGateway(l) /\ Go(l, "unlink", "bind") /\ node' = IF node = "directory" THEN node ELSE None
             /\ UNCHANGED <<how, up, holders, raced>>
    <3>1. \A x \in Launchers : at'[x] = IF x = l THEN "bind" ELSE at[x]
      BY <2>2, SetAt DEF LaunchType, Go
    <3>2. node' \notin Launchers /\ node' \in {None, "directory"}
      BY <2>2, CommandsAssumption
    <3>3. \A x \in Launchers : OnPath(x)' = OnPath(x)
      BY <2>2, <3>1 DEF OnPath, OnPort, Go
    <3>4. ~Live(node)'
      BY <2>2, <3>2 DEF Live, LaunchType
    <3>5. OnPath(l) /\ at[l] = "unlink"
      BY <2>2 DEF OnPath, Go
    <3>6. \A x \in Launchers \ {l} : ~Alone(x)
      BY <2>2 DEF Alone
    <3> QED BY <2>2, <3>1, <3>2, <3>3, <3>4, <3>5, <3>6 DEF Path, OnPath, OnPort, IsGateway, Alone, Goal
  <2> QED BY <1>13, <2>1, <2>2 DEF CreateLocalIpcFd, IsGateway
<1>14. ASSUME NEW l \in Launchers, SpawnChild(l) PROVE Goal
  <2> LaunchType /\ Path /\ \A x \in Launchers : Come(x) /\ Shared(x)
    BY DEF LaunchInv
  <2>1. Elsewhere(l) /\ UNCHANGED <<how, node, up, raced>>
    BY <1>14, SpawnChildAt
  <2>2. at[l] = "fork" /\ at'[l] \in {"connect", "gone"}
    BY <1>14, SpawnChildAt, <2>1 DEF LaunchType
  <2>3. Live(node)' => Live(node)
    <3>1. \A x \in Launchers \ {l} : holders'[x] = holders[x]
      BY <2>1 DEF Elsewhere
    <3>2. holders'[l] # {} /\ l \in up => holders[l] # {}
      BY <1>14, SpawnChildAt DEF Come, Shared
    <3>3. node \in up => node \in Launchers
      BY DEF LaunchType
    <3> QED BY <2>1, <3>1, <3>2, <3>3 DEF Live
  <2> QED BY <2>1, <2>2, <2>3 DEF Path, OnPath, OnPort, IsGateway, Alone, Goal, Elsewhere
<1>15. ASSUME NEW l \in Launchers, FcgiConnect(l) PROVE Goal
  <2> LaunchType /\ Path /\ \A x \in Launchers : Come(x) /\ Shared(x)
    BY DEF LaunchInv
  <2>1. Elsewhere(l) /\ UNCHANGED <<how, node, up, raced>>
    BY <1>15, FcgiConnectAt
  <2>2. at[l] = "connect" /\ at'[l] = "gone"
    BY <1>15, FcgiConnectAt, <2>1 DEF LaunchType
  <2>3. Live(node)' => Live(node)
    <3>1. \A x \in Launchers \ {l} : holders'[x] = holders[x]
      BY <2>1 DEF Elsewhere
    <3>2. holders'[l] # {} /\ l \in up => holders[l] # {}
      BY <1>15, FcgiConnectAt DEF Come, Shared
    <3>3. node \in up => node \in Launchers
      BY DEF LaunchType
    <3> QED BY <2>1, <3>1, <3>2, <3>3 DEF Live
  <2> QED BY <2>1, <2>2, <2>3 DEF Path, OnPath, OnPort, IsGateway, Alone, Goal, Elsewhere
<1>16. ASSUME NEW l \in Launchers, Kill(l) PROVE Goal
  <2> LaunchType /\ Path /\ \A x \in Launchers : Come(x) /\ Shared(x)
    BY DEF LaunchInv
  <2>1. Elsewhere(l) /\ UNCHANGED <<how, node, up, raced>>
    BY <1>16, KillAt
  <2>2. at'[l] = "gone"
    BY <1>16, KillAt, <2>1 DEF LaunchType
  <2>3. Live(node)' => Live(node)
    <3>1. \A x \in Launchers \ {l} : holders'[x] = holders[x]
      BY <2>1 DEF Elsewhere
    <3>2. holders'[l] # {} /\ l \in up => holders[l] # {}
      BY <1>16, KillAt DEF Come, Shared
    <3>3. node \in up => node \in Launchers
      BY DEF LaunchType
    <3> QED BY <2>1, <3>1, <3>2, <3>3 DEF Live
  <2> QED BY <2>1, <2>2, <2>3 DEF Path, OnPath, OnPort, IsGateway, Alone, Goal, Elsewhere
<1>17. ASSUME NEW l \in Launchers, NEW i \in Procs, MoveToZero(l, i) PROVE Goal
  <2> LaunchType /\ Path /\ \A x \in Launchers : Come(x) /\ Shared(x)
    BY DEF LaunchInv
  <2>1. Elsewhere(l) /\ UNCHANGED <<how, node, up, raced>>
    BY <1>17, MoveToZeroAt
  <2>2. at'[l] = at[l]
    BY <1>17, MoveToZeroAt, <2>1 DEF LaunchType
  <2>3. Live(node)' => Live(node)
    <3>1. \A x \in Launchers \ {l} : holders'[x] = holders[x]
      BY <2>1 DEF Elsewhere
    <3>2. holders'[l] # {} /\ l \in up => holders[l] # {}
      BY <1>17, MoveToZeroAt DEF Come, Shared
    <3>3. node \in up => node \in Launchers
      BY DEF LaunchType
    <3> QED BY <2>1, <3>1, <3>2, <3>3 DEF Live
  <2> QED BY <2>1, <2>2, <2>3 DEF Path, OnPath, OnPort, IsGateway, Alone, Goal, Elsewhere
<1>18. ASSUME NEW l \in Launchers, NEW i \in Procs, ExecApplication(l, i) PROVE Goal
  <2> LaunchType /\ Path /\ \A x \in Launchers : Come(x) /\ Shared(x)
    BY DEF LaunchInv
  <2>1. Elsewhere(l) /\ UNCHANGED <<how, node, up, raced>>
    BY <1>18, ExecApplicationAt
  <2>2. at'[l] = at[l]
    BY <1>18, ExecApplicationAt, <2>1 DEF LaunchType
  <2>3. Live(node)' => Live(node)
    <3>1. \A x \in Launchers \ {l} : holders'[x] = holders[x]
      BY <2>1 DEF Elsewhere
    <3>2. holders'[l] # {} /\ l \in up => holders[l] # {}
      BY <1>18, ExecApplicationAt DEF Come, Shared
    <3>3. node \in up => node \in Launchers
      BY DEF LaunchType
    <3> QED BY <2>1, <3>1, <3>2, <3>3 DEF Live
  <2> QED BY <2>1, <2>2, <2>3 DEF Path, OnPath, OnPort, IsGateway, Alone, Goal, Elsewhere
<1>19. ASSUME NEW l \in Launchers, NEW i \in Procs, Die(l, i) PROVE Goal
  <2> LaunchType /\ Path /\ \A x \in Launchers : Come(x) /\ Shared(x)
    BY DEF LaunchInv
  <2>1. Elsewhere(l) /\ UNCHANGED <<how, node, up, raced>>
    BY <1>19, DieAt
  <2>2. at'[l] = at[l]
    BY <1>19, DieAt, <2>1 DEF LaunchType
  <2>3. Live(node)' => Live(node)
    <3>1. \A x \in Launchers \ {l} : holders'[x] = holders[x]
      BY <2>1 DEF Elsewhere
    <3>2. holders'[l] # {} /\ l \in up => holders[l] # {}
      BY <1>19, DieAt DEF Come, Shared
    <3>3. node \in up => node \in Launchers
      BY DEF LaunchType
    <3> QED BY <2>1, <3>1, <3>2, <3>3 DEF Live
  <2> QED BY <2>1, <2>2, <2>3 DEF Path, OnPath, OnPort, IsGateway, Alone, Goal, Elsewhere
<1>20. CASE UNCHANGED launchVars
  BY <1>20 DEF launchVars, Goal, LaunchInv, LaunchType, LaunchSteps, Come, Path, OnPath, OnPort,
     IsGateway, Alone, Live, Others
<1> QED BY <1>1, <1>2, <1>3, <1>4, <1>5, <1>6, <1>7, <1>8, <1>9, <1>10, <1>11, <1>12, <1>13, <1>14,
           <1>15, <1>16, <1>17, <1>18, <1>19, <1>20 DEF LaunchNext, Bind, Spawn, Gateway, Goal

LEMMA ReachedStill ==
  ASSUME LaunchInv, [LaunchNext]_launchVars
  PROVE  Reached'
<1> LaunchType /\ Path /\ Reached /\ \A x \in Launchers : Come(x)
  BY DEF LaunchInv
<1>1. ASSUME NEW l \in Launchers, Main(l)
      PROVE  reached' = reached /\ (raced => raced') /\ \A x \in Launchers : IsGateway(x) => IsGateway(x)'
  BY <1>1 DEF Main, Go, LaunchType, IsGateway, Come
<1>2. ASSUME NEW l \in Launchers, CreateLocalIpcFd(l)
      PROVE  reached' = reached /\ (raced => raced') /\ \A x \in Launchers : IsGateway(x) => IsGateway(x)'
  <2>1. CASE \E c \in Commands : how' = [how EXCEPT ![l] = c] /\ at[l] = "idle" /\ reached' = reached
                                /\ raced' = (raced \/ Others(l))
    BY <2>1 DEF LaunchType, IsGateway, Come
  <2>2. CASE UNCHANGED <<how, reached, raced>>
    BY <2>2 DEF IsGateway
  <2> QED BY <1>2, <2>1, <2>2, Zenon DEF CreateLocalIpcFd, Go
<1>3. ASSUME NEW l \in Launchers, FcgiConnect(l)
      PROVE  Reached'
  BY <1>3 DEF FcgiConnect, Go, LaunchType, Path, Reached, Come, IsGateway, Alone, Live
<1>4. CASE UNCHANGED <<how, reached>> /\ (raced => raced')
  BY <1>4 DEF Reached, Alone, IsGateway
<1>5. CASE reached' = reached /\ (raced => raced') /\ \A x \in Launchers : IsGateway(x) => IsGateway(x)'
  <2>1. \A x \in Launchers : ~Alone(x) => ~Alone(x)'
    BY <1>5 DEF Alone
  <2> QED BY <1>5, <2>1 DEF Reached
<1>6. ASSUME NEW l \in Launchers, Probe(l) PROVE UNCHANGED <<how, reached>> /\ (raced => raced')
  BY <1>6 DEF Probe
<1> QED BY <1>1, <1>2, <1>3, <1>4, <1>5, <1>6 DEF LaunchNext, Bind, Spawn, Gateway, launchVars,
           BindPort, Unlink,
           BindPath, Chmod, Listen, ForkChild, ForkFails, DoNotFork, AwaitChild, SpawnReturns, SpawnChild, Kill,
           MoveToZero, ExecApplication, Die

LEMMA LaunchGoesOn ==
  ASSUME LaunchInv, [LaunchNext]_launchVars
  PROVE  LaunchInv'
BY LaunchTyped, ComesOn, SharedStill, PortsStill, PathStill, ReachedStill DEF LaunchInv

(* A path that is taken from a live launch.                                *)
PathTaken == \A l \in Launchers : Live(l) /\ node = l /\ node' # l => raced \/ GatewayUnlinks

LEMMA PathNotTaken ==
  ASSUME LaunchInv, [LaunchNext]_launchVars
  PROVE  PathTaken
<1> SUFFICES ASSUME NEW k \in Launchers, Live(k), node = k, node' # k, ~raced PROVE GatewayUnlinks
  BY DEF PathTaken
<1> LaunchType /\ Path /\ \A x \in Launchers : Come(x)
  BY DEF LaunchInv
<1>1. ASSUME NEW l \in Launchers, Unlink(l) PROVE FALSE
  BY <1>1 DEF Unlink, Go, IsGateway, Path
<1>2. ASSUME NEW l \in Launchers, BindPath(l) PROVE FALSE
  BY <1>2, CommandsAssumption DEF BindPath
<1>3. ASSUME NEW l \in Launchers, Chmod(l) PROVE FALSE
  BY <1>3 DEF Chmod, Go, Path, Come, Live
<1>4. ASSUME NEW l \in Launchers, CreateLocalIpcFd(l) PROVE GatewayUnlinks
  <2>1. /\ how[l] # None /\ how[l].program = "gateway"
        /\ at[l] = "unlink" /\ at' = [at EXCEPT ![l] = "bind"]
    BY <1>4, Zenon DEF CreateLocalIpcFd, Go
  <2> QED BY <2>1 DEF GatewayUnlinks, LaunchType
<1>5. node' # node
  OBVIOUS
<1> QED BY <1>1, <1>2, <1>3, <1>4, <1>5 DEF LaunchNext, Bind, Spawn, Gateway, launchVars, Main,
           BindPort, Probe,
           Listen, ForkChild, ForkFails, DoNotFork, AwaitChild, SpawnReturns, SpawnChild, FcgiConnect, Kill,
           MoveToZero, ExecApplication, Die

(* However many launches run at the same time, of servers and of gateways, *)
(* and wherever they are killed: a server that is up keeps its path unless *)
(* SpawnFcgi's test, unlink and bind of two of them overlap or a gateway   *)
(* does not test; no two of them listen on the port; who serves has its    *)
(* launch's listening socket as descriptor 0, but for a gateway's child    *)
(* that closes it there itself; and a gateway that reaches anybody reaches *)
(* the socket it made, on the same terms as the path                       *)
(* (SpawnFcgi.cpp:39-63, 91-106, fcgios.cpp:302, 469-478).                 *)
THEOREM PathIsKept == LaunchSpec => PathKept
<1>1. LaunchInit => LaunchInv
  BY LaunchStarts
<1>2. LaunchInv /\ [LaunchNext]_launchVars => LaunchInv'
  BY LaunchGoesOn
<1>3. LaunchInv /\ [LaunchNext]_launchVars =>
        [\A l \in Launchers : Live(l) /\ node = l /\ node' # l => raced \/ GatewayUnlinks]_launchVars
  BY PathNotTaken DEF PathTaken
<1>4. LaunchInv =>
        \A l \in Launchers :
          /\ \A i \in Procs :
               run[l][i] = "serving" => l \in up /\ (ClosesItself(l) \/ i \in holders[l] \cap zero[l])
          /\ \A m \in tcp : l \in tcp /\ Live(l) /\ Live(m) => l = m
          /\ reached[l] \in {None, l} \/ raced
             \/ \E m \in Launchers \ {l} : how[m] # None /\ how[m].program = "gateway"
  BY DEF LaunchInv, Shared, Ports, Reached, Alone, IsGateway
<1> QED BY <1>1, <1>2, <1>3, <1>4, PTL DEF LaunchSpec, PathKept


-----------------------------------------------------------------------------
(* FCGX_Accept_r.                                                           *)

(* Whom OS_Accept has in hand: a keeper is on a Unix socket, what is       *)
(* returned is approved, and a number it closed and keeps fails every test *)
(* it is put to again.                                                     *)
InHand ==
  /\ step = "keeper" => ~socket.inet
  /\ step = "return" => Approved(socket) /\ ~stale
  /\ stale => step # "read" /\ (socket.inet => ~socket.allowed)

(* The connection FCGX_Accept_r reads from or keeps.                       *)
Served ==
  /\ ipcFd # NoSocket \/ step = "read" => Approved(ipcFd)
  /\ result = "request" => step = "program" /\ Approved(ipcFd) /\ ~stale

AcceptInv == InHand /\ Served

LEMMA AcceptStarts == AcceptInit => AcceptInv
  BY DEF AcceptInit, AcceptInv, InHand, Served

LEMMA AcceptGoesOn == AcceptInv /\ [AcceptNext]_acceptVars => AcceptInv'
<1> SUFFICES ASSUME AcceptInv, [AcceptNext]_acceptVars PROVE AcceptInv'
  OBVIOUS
<1> USE DEF AcceptInv, InHand, Served, To, Approved
<1>1. CASE FCGX_Init
  BY <1>1 DEF FCGX_Init
<1>2. CASE FCGX_Accept_r
  BY <1>2 DEF FCGX_Accept_r
<1>3. CASE NextRequest
  BY <1>3 DEF NextRequest
<1>4. CASE ReadRequest
  BY <1>4 DEF ReadRequest
<1>5. CASE TestShutdown
  BY <1>5 DEF TestShutdown
<1>6. CASE Accept
  BY <1>6 DEF Accept
<1>7. CASE AcceptFailed
  BY <1>7 DEF AcceptFailed
<1>8. CASE CheckClient
  BY <1>8 DEF CheckClient
<1>9. CASE CheckKeeper
  BY <1>9 DEF CheckKeeper
<1>10. CASE ReturnSocket
  BY <1>10 DEF ReturnSocket
<1>11. CASE Interrupted
  BY <1>11 DEF Interrupted
<1>12. CASE Call
  BY <1>12 DEF Call
<1>13. CASE Sigusr1
  BY <1>13 DEF Sigusr1
<1>14. CASE UNCHANGED acceptVars
  BY <1>14 DEF acceptVars
<1>15. CASE InterruptedRead
  BY <1>15 DEF InterruptedRead
<1> QED
  BY <1>1, <1>2, <1>3, <1>4, <1>5, <1>6, <1>7, <1>8, <1>9, <1>10, <1>11, <1>12, <1>13, <1>14, <1>15
  DEF AcceptNext, Library, OS_Accept

(* FCGX_Accept_r serves a request only from a client that is approved, and *)
(* never from a number OS_Accept closed: the safety of ShutdownEndsAccept. *)
THEOREM StrangersAreNotServed ==
  AcceptSpec => [](result = "request" => Approved(ipcFd) /\ ~stale)
<1>1. AcceptInv => (result = "request" => Approved(ipcFd) /\ ~stale)
  BY DEF AcceptInv, Served
<1> QED BY AcceptStarts, AcceptGoesOn, <1>1, PTL DEF AcceptSpec
=============================================================================
